--------------------------- MODULE SearchProofs ----------------------------
(***************************************************************************)
(* What a search answers.                                                  *)
(*                                                                         *)
(* The walk over the code graph: over any finite graph, from any query,    *)
(* within any budgets, what is answered are walks the caller may see, and  *)
(* the best ones as long as no budget is spent.                            *)
(*                                                                         *)
(* The budgets: however long the fields and the bodies, no answer is       *)
(* longer than its budget, and a pack reports its own size.                *)
(*                                                                         *)
(* The vectors: whatever the order of answers and whatever happens while a *)
(* provider computes, a memory is found by the vector of its own text.     *)
(* The invariant follows a vector through the worker that carries it: the  *)
(* texts and vectors of a worker are a prefix of its identifiers.          *)
(*                                                                         *)
(* Hops, links, finite sets and steps of a loop are induced over; the      *)
(* provers have no induction, so it is derived here from the well-founded  *)
(* order of the finite sets.                                               *)
(***************************************************************************)
EXTENDS GraphTraversal, ResultEnvelope, EmbeddingIndex,
        SequenceTheorems, FiniteSetTheorems, WellFoundedInduction, TLAPS

-----------------------------------------------------------------------------
(* The invariant of the walk.                                              *)

Candidate == [node : Nodes, exact : BOOLEAN, score : Nat, depth : Nat, path : Seq(Int)]

Walk == [node : Nodes, score : Nat, path : Seq(Int)]

\* A node is found once at a depth.
OneEach(found) == \A c, d \in found : c.node = d.node /\ c.depth = d.depth => c = d

Way(c) == [node |-> c.node, score |-> c.score, path |-> c.path]

\* The caller may ask.
Admitted == pc # "scope" /\ (pc = "done" => ~answer.refused)

WalkTypes ==
  /\ world \in Worlds /\ request \in Requests
  /\ pc \in {"scope", "seeds", "hop", "done"}
  /\ hops \in Nat /\ hops <= request.depth /\ (pc \in {"scope", "seeds"} => hops = 0)
  /\ frontier \subseteq Candidate /\ IsFiniteSet(frontier)
  /\ candidates \subseteq Candidate /\ IsFiniteSet(candidates)
  /\ IsFiniteSet(DOMAIN visited)
  /\ \A n \in DOMAIN visited : n \in Nodes /\ visited[n] \in Nat

ScopeIsReached ==
  Admitted => request.project \in request.allowed /\ \A p : p \in scope <=> Reachable(p)

\* What was found are walks to what shows; those found last have the best
\* scores.
AreWalks(found, front, best, h) ==
  /\ \A c \in found \union front :
       c.depth <= h /\ Len(c.path) = c.depth /\ Way(c) \in WalksOf[c.depth] /\ Shown(c.node)
  /\ \A c \in front : c.depth = h /\ c.node \in DOMAIN best /\ c.score = best[c.node]
  /\ OneEach(found)

\* No edge from a node leads to a better score.
Settled(n, best, h) ==
  h >= 1 /\ \A e \in Authorized : \A k \in Neighbors(n, e) :
              k \in DOMAIN best /\ Decayed(best[n], e, h) <= best[k]

\* As long as no budget is spent: a best score is that of a candidate, a node
\* is settled or was found last, and no walk so far is better.
NoneDropped(found, front, best, h) ==
  ~Spent(DOMAIN best, found) =>
    /\ \A n \in DOMAIN best : \E c \in found : c.node = n /\ c.score = best[n]
    /\ \A n \in DOMAIN best : Settled(n, best, h) \/ \E c \in front : c.node = n
    /\ \A m \in 0 .. h : \A w \in WalksOf[m] : w.node \in DOMAIN best /\ w.score <= best[w.node]

Answered ==
  pc = "done" /\ Admitted =>
    ~GoesOn /\ answer.found = Cut(candidates) /\ answer.target = Found(answer.found)

WalkInv ==
  /\ WalkTypes
  /\ ScopeIsReached
  /\ pc \in {"hop", "done"} /\ Admitted =>
       /\ AreWalks(candidates, frontier, visited, hops)
       /\ NoneDropped(candidates, frontier, visited, hops)
  /\ Answered

-----------------------------------------------------------------------------
(* Finite sets, induction and functions defined by recursion.              *)

\* Among finite sets one contains no other of them.
LEMMA FiniteMinimal ==
  ASSUME NEW U, NEW F, F \subseteq FiniteSubsetsOf(U), F # {}
  PROVE  \E S \in F : \A T \in F : T \subseteq S => T = S
<1>1. IsWellFoundedOn(StrictSubsetOrdering(U), FiniteSubsetsOf(U))
  BY FS_StrictSubsetOrderingWellFounded
<1>2. PICK x \in F : \A y \in F : ~ (<<y, x>> \in StrictSubsetOrdering(U))
  BY <1>1, WFMin, Zenon
<1>3. \A T \in F : T \subseteq x => T = x
  BY <1>2 DEF StrictSubsetOrdering, FiniteSubsetsOf
<1> QED BY <1>3

\* A set of numbers that holds 0 and each successor holds all.
LEMMA NatSetInduction ==
  ASSUME NEW S \in SUBSET Nat, 0 \in S, \A n \in S : n + 1 \in S
  PROVE  S = Nat
<1> SUFFICES ASSUME Nat \ S # {} PROVE FALSE OBVIOUS
<1> DEFINE F == {0 .. n : n \in Nat \ S}
<1>1. F \subseteq FiniteSubsetsOf(Nat)
  <2>1. \A n \in Nat : IsFiniteSet(0 .. n) /\ 0 .. n \subseteq Nat BY FS_Interval
  <2> QED BY <2>1 DEF FiniteSubsetsOf
<1>2. F # {} OBVIOUS
<1> HIDE DEF F
<1>3. PICK X \in F : \A T \in F : T \subseteq X => T = X
  BY <1>1, <1>2, FiniteMinimal
<1>4. PICK n \in Nat \ S : X = 0 .. n BY DEF F
<1>5. n # 0 /\ n - 1 \in Nat OBVIOUS
<1>6. n - 1 \in S
  <2> SUFFICES ASSUME n - 1 \notin S PROVE FALSE OBVIOUS
  <2>1. 0 .. (n-1) \in F BY <1>5 DEF F
  <2>2. 0 .. (n-1) \subseteq X BY <1>4
  <2>3. 0 .. (n-1) = 0 .. n BY <1>3, <2>1, <2>2, <1>4
  <2>4. n \in 0 .. n BY <1>4
  <2> QED BY <2>3, <2>4, <1>4
<1> QED BY <1>5, <1>6

\* Of numbers one is the least.
LEMMA LeastOfNumbers == ASSUME NEW S \in SUBSET Nat, S # {} PROVE \E x \in S : \A y \in S : x <= y
<1>1. \E x \in S : \A y \in S : ~(<<y, x>> \in OpToRel(<, Nat))
  BY NatLessThanWellFounded, WFMin
<1>2. PICK x \in S : \A y \in S : ~(<<y, x>> \in OpToRel(<, Nat))
  BY <1>1
<1>3. ASSUME NEW y \in S PROVE x <= y
  <2>1. x \in Nat /\ y \in Nat
    OBVIOUS
  <2>2. ~(y < x)
    BY <1>2, <2>1 DEF OpToRel
  <2> QED BY <2>1, <2>2
<1> QED BY <1>3

\* A finite set has a member that none is before, in any strict order.
LEMMA FirstExists ==
  ASSUME NEW S, IsFiniteSet(S), S # {}, NEW R,
         \A x \in S : <<x, x>> \notin R,
         \A x, y, z \in S : <<x, y>> \in R /\ <<y, z>> \in R => <<x, z>> \in R
  PROVE  \E x \in S : \A y \in S : <<y, x>> \notin R
<1> DEFINE Earlier == [x \in S |-> {y \in S : <<y, x>> \in R}]
           F == {Earlier[x] : x \in S}
<1>1. \A x \in S : Earlier[x] \subseteq S /\ \A y \in S : y \in Earlier[x] <=> <<y, x>> \in R
  OBVIOUS
<1>2. \A x \in S : IsFiniteSet(Earlier[x]) BY <1>1, FS_Subset
<1> HIDE DEF Earlier
<1>3. F \subseteq FiniteSubsetsOf(S) BY <1>1, <1>2 DEF FiniteSubsetsOf
<1>4. F # {} OBVIOUS
<1>5. PICK X \in F : \A T \in F : T \subseteq X => T = X
  <2> HIDE DEF F
  <2> QED BY <1>3, <1>4, FiniteMinimal
<1>6. PICK x \in S : X = Earlier[x] OBVIOUS
<1>7. ASSUME NEW y \in S, <<y, x>> \in R PROVE FALSE
  <2>1. \A z \in S : z \in Earlier[y] => z \in Earlier[x] BY <1>1, <1>7
  <2>2. Earlier[y] \subseteq Earlier[x] BY <1>1, <2>1
  <2>3. Earlier[y] = Earlier[x] BY <1>5, <1>6, <2>2
  <2>4. y \in Earlier[x] /\ y \notin Earlier[y] BY <1>1, <1>7
  <2> QED BY <2>3, <2>4
<1> QED BY <1>7

\* The image of a finite set is finite.
LEMMA ImageFinite ==
  ASSUME NEW S, IsFiniteSet(S), NEW f, f = [x \in S |-> f[x]]
  PROVE  LET T == {f[x] : x \in S} IN IsFiniteSet(T) /\ Cardinality(T) <= Cardinality(S)
<1> DEFINE T == {f[x] : x \in S}
<1>1. f \in [S -> T] OBVIOUS
<1>2. f \in Surjection(S, T) BY <1>1 DEF Surjection
<1> HIDE DEF T
<1> QED BY <1>2, FS_Surjection DEF T

\* f begins with a and goes on by F.
Recurs(f, a, F, N) == f[0] = a /\ \A n \in 1 .. N : f[n] = F[n][f[n - 1]]

\* A function may be defined by what it is at the number before.
LEMMA RecursiveFunction ==
  ASSUME NEW U, NEW a \in U, NEW N \in Nat, NEW F \in [1 .. N -> [U -> U]]
  PROVE  \E f \in [0 .. N -> U] : Recurs(f, a, F, N)
<1> DEFINE Defined(f, m) == \A n \in 0 .. m : f[n] = IF n = 0 THEN a ELSE F[n][f[n - 1]]
           S == {m \in Nat : m <= N => \E f \in [0 .. m -> U] : Defined(f, m)}
<1>1. 0 \in S
  <2> DEFINE f == [n \in 0 .. 0 |-> a]
  <2>1. f \in [0 .. 0 -> U] /\ Defined(f, 0) OBVIOUS
  <2> QED BY <2>1
<1>2. ASSUME NEW m \in S, m + 1 <= N PROVE \E g \in [0 .. m + 1 -> U] : Defined(g, m + 1)
  <2>1. m \in Nat /\ m <= N /\ m + 1 \in 1 .. N BY <1>2
  <2>2. PICK f \in [0 .. m -> U] : Defined(f, m) BY <2>1
  <2> DEFINE g == [n \in 0 .. m + 1 |-> IF n = m + 1 THEN F[m + 1][f[m]] ELSE f[n]]
  <2>3. f[m] \in U /\ F[m + 1] \in [U -> U] BY <2>1
  <2>4. F[m + 1][f[m]] \in U BY <2>3
  <2>5. g \in [0 .. m + 1 -> U] BY <2>1, <2>4
  <2>6. ASSUME NEW n \in 0 .. m + 1 PROVE g[n] = IF n = 0 THEN a ELSE F[n][g[n - 1]]
    <3>1. CASE n = m + 1
      <4>1. g[n] = F[m + 1][f[m]] /\ g[n - 1] = f[m] BY <3>1, <2>1
      <4> QED BY <4>1, <3>1, <2>1
    <3>2. CASE n # m + 1
      <4>1. n \in 0 .. m /\ (n # 0 => n - 1 \in 0 .. m /\ n - 1 # m + 1) BY <3>2, <2>1
      <4>2. g[n] = f[n] /\ (n # 0 => g[n - 1] = f[n - 1]) BY <4>1, <2>1
      <4> QED BY <4>1, <4>2, <2>2
    <3> QED BY <3>1, <3>2
  <2> HIDE DEF g
  <2> QED BY <2>5, <2>6
<1>3. S = Nat
  <2>1. S \in SUBSET Nat OBVIOUS
  <2>2. ASSUME NEW m \in S PROVE m + 1 \in S
    <3>1. m \in Nat OBVIOUS
    <3>2. m + 1 <= N => \E g \in [0 .. m + 1 -> U] : Defined(g, m + 1) BY <1>2
    <3> HIDE DEF Defined
    <3> QED BY <3>1, <3>2
  <2> HIDE DEF S
  <2> QED BY <2>1, <2>2, <1>1, NatSetInduction
<1>4. PICK f \in [0 .. N -> U] : Defined(f, N)
  <2>1. N \in S BY <1>3
  <2> HIDE DEF Defined
  <2> QED BY <2>1
<1>5. Recurs(f, a, F, N) BY <1>4 DEF Recurs
<1> QED BY <1>5

-----------------------------------------------------------------------------
(* Scores.                                                                 *)

LEMMA MulMonotone ==
  ASSUME NEW a \in Nat, NEW b \in Nat, NEW f \in Nat, a <= b
  PROVE a * f \in Nat /\ b * f \in Nat /\ a * f <= b * f
OBVIOUS

\* The score of a way is a number; of a worse way, or later, no greater one.
LEMMA DecayedMonotone ==
  ASSUME NEW a \in Nat, NEW b \in Nat, NEW e, e.factor \in Nat, NEW h \in 1 .. 3, NEW i \in 1 .. 3,
         a <= b, h <= i
  PROVE  Decayed(a, e, i) \in Nat /\ Decayed(a, e, i) <= Decayed(b, e, h)
<1> DEFINE x == a * e.factor  y == b * e.factor
<1>1. x \in Nat /\ y \in Nat /\ x <= y BY MulMonotone
<1> HIDE DEF x, y
<1>2. x \div 32 <= y \div 32 /\ x \div 64 <= y \div 32 /\ x \div 128 <= y \div 32
      /\ x \div 64 <= y \div 64 /\ x \div 128 <= y \div 64 /\ x \div 128 <= y \div 128
      /\ x \div 32 \in Nat /\ x \div 64 \in Nat /\ x \div 128 \in Nat
  BY <1>1
<1>3. Decay[1] = 2 /\ Decay[2] = 4 /\ Decay[3] = 8 BY DEF Decay
<1>4. \A j \in 1 .. 3 : 16 * Decay[j] = IF j = 1 THEN 32 ELSE IF j = 2 THEN 64 ELSE 128
  BY <1>3
<1>5. Decayed(a, e, i) = x \div (16 * Decay[i]) /\ Decayed(b, e, h) = y \div (16 * Decay[h])
  BY DEF Decayed, x, y
<1> QED BY <1>2, <1>4, <1>5

LEMMA DecayedTyped ==
  ASSUME NEW a \in Nat, NEW e, e.factor \in Nat, NEW h \in 1 .. 3
  PROVE  Decayed(a, e, h) \in Nat
<1> a <= a /\ h <= h OBVIOUS
<1> QED BY DecayedMonotone

-----------------------------------------------------------------------------
(* Orders and cuts.                                                        *)

\* Candidates are in a strict order.
LEMMA BeforeOrders ==
  ASSUME NEW c \in Candidate, NEW d \in Candidate, NEW e \in Candidate
  PROVE  /\ ~Before(c, c)
         /\ Before(c, d) /\ Before(d, e) => Before(c, e)
         /\ (c.node # d.node \/ c.depth # d.depth) => Before(c, d) \/ Before(d, c)
<1>1. /\ c.score \in Nat /\ d.score \in Nat /\ e.score \in Nat
      /\ c.depth \in Nat /\ d.depth \in Nat /\ e.depth \in Nat
      /\ c.node \in Int /\ d.node \in Int /\ e.node \in Int
  BY NodesAssumption DEF Candidate
<1> QED BY <1>1 DEF Before

\* One of them is first.
LEMMA FirstCandidate ==
  ASSUME NEW S \in SUBSET Candidate, IsFiniteSet(S), S # {}
  PROVE  \E c \in S : \A d \in S : ~Before(d, c)
<1> DEFINE R == {p \in S \X S : Before(p[1], p[2])}
<1>1. \A c, d \in S : <<c, d>> \in R <=> Before(c, d) OBVIOUS
<1> HIDE DEF R
<1>2. \A c \in S : <<c, c>> \notin R BY <1>1, BeforeOrders
<1>3. \A c, d, e \in S : <<c, d>> \in R /\ <<d, e>> \in R => <<c, e>> \in R BY <1>1, BeforeOrders
<1>4. \E c \in S : \A d \in S : <<d, c>> \notin R BY <1>2, <1>3, FirstExists
<1> QED BY <1>1, <1>4

\* And one is last.
LEMMA LastCandidate ==
  ASSUME NEW S \in SUBSET Candidate, IsFiniteSet(S), S # {}
  PROVE  \E c \in S : \A d \in S : ~Before(c, d)
<1> DEFINE R == {p \in S \X S : Before(p[2], p[1])}
<1>1. \A c, d \in S : <<c, d>> \in R <=> Before(d, c) OBVIOUS
<1> HIDE DEF R
<1>2. \A c \in S : <<c, c>> \notin R BY <1>1, BeforeOrders
<1>3. \A c, d, e \in S : <<c, d>> \in R /\ <<d, e>> \in R => <<c, e>> \in R BY <1>1, BeforeOrders
<1>4. \E c \in S : \A d \in S : <<d, c>> \notin R BY <1>2, <1>3, FirstExists
<1> QED BY <1>1, <1>4

\* Cut leaves no more than the budget, and drops none as long as that is not
\* reached.
LEMMA CutFacts ==
  ASSUME NEW S \in SUBSET Candidate, IsFiniteSet(S), OneEach(S), request.maxPaths \in Nat
  PROVE  /\ Cut(S) \subseteq S /\ IsFiniteSet(Cut(S))
         /\ Cardinality(Cut(S)) <= request.maxPaths
         /\ Cut(S) # S => Cardinality(Cut(S)) >= request.maxPaths
<1> DEFINE T == Cut(S)  k == request.maxPaths  Earlier(c) == {d \in S : Before(d, c)}
<1>1. T \subseteq S /\ IsFiniteSet(T) BY FS_Subset DEF Cut
<1>2. \A c \in S : c \in T <=> Cardinality(Earlier(c)) < k BY DEF Cut
<1>3. \A c \in S : IsFiniteSet(Earlier(c)) /\ Cardinality(Earlier(c)) \in Nat
  BY FS_Subset, FS_CardinalityType
<1>4. IsFiniteSet(T) /\ Cardinality(T) \in Nat BY <1>1, FS_CardinalityType
<1> HIDE DEF T
<1>5. Cardinality(T) <= k
  <2>1. CASE T = {} BY <2>1, FS_EmptySet
  <2>2. CASE T # {}
    <3>1. PICK m \in T : \A d \in T : ~Before(m, d) BY <1>1, <2>2, LastCandidate
    <3>2. \A d \in T \ {m} : Before(d, m)
      BY <1>1, <3>1, BeforeOrders DEF OneEach
    <3>3. T \ {m} \subseteq Earlier(m) BY <1>1, <3>2
    <3>4. Cardinality(T \ {m}) <= Cardinality(Earlier(m)) BY <1>1, <1>3, <3>3, FS_Subset
    <3>5. Cardinality(T \ {m}) = Cardinality(T) - 1 BY <1>4, FS_RemoveElement
    <3>6. Cardinality(Earlier(m)) < k BY <1>1, <1>2
    <3>7. Cardinality(Earlier(m)) \in Nat BY <1>1, <1>3
    <3> HIDE DEF Earlier
    <3> QED BY <1>4, <3>4, <3>5, <3>6, <3>7
  <2> QED BY <2>1, <2>2
<1>6. ASSUME T # S PROVE Cardinality(T) >= k
  <2>1. IsFiniteSet(S \ T) /\ S \ T # {} BY <1>1, <1>6, FS_Subset
  <2>2. PICK c \in S \ T : \A d \in S \ T : ~Before(d, c) BY <2>1, FirstCandidate
  <2>3. Earlier(c) \subseteq T BY <2>2
  <2>4. Cardinality(Earlier(c)) <= Cardinality(T) BY <1>4, <2>3, FS_Subset
  <2>5. Cardinality(Earlier(c)) \in Nat /\ ~(Cardinality(Earlier(c)) < k) BY <1>2, <1>3, <2>2
  <2> HIDE DEF Earlier
  <2> QED BY <1>4, <2>4, <2>5
<1> QED BY <1>1, <1>5, <1>6 DEF T

\* A spent budget stays spent.
LEMMA SpentStays ==
  ASSUME NEW N, NEW M, NEW S, NEW T, N \subseteq M, S \subseteq T, IsFiniteSet(M), IsFiniteSet(T),
         request.maxPaths \in Nat, request.maxVisited \in Nat, Spent(N, S)
  PROVE  Spent(M, T)
<1>1. Cardinality(N) <= Cardinality(M) /\ Cardinality(S) <= Cardinality(T) BY FS_Subset
<1>2. /\ Cardinality(N) \in Nat /\ Cardinality(M) \in Nat
      /\ Cardinality(S) \in Nat /\ Cardinality(T) \in Nat
  BY FS_Subset, FS_CardinalityType
<1> QED BY <1>1, <1>2 DEF Spent

-----------------------------------------------------------------------------
(* Seeds.                                                                  *)

\* The seeds are candidates the policy shows, one of a node.
LEMMA SeedFacts ==
  ASSUME request \in Requests
  PROVE  /\ Seeds \subseteq Candidate /\ IsFiniteSet(Seeds)
         /\ \A c \in Seeds : c.depth = 0 /\ c.path = <<>> /\ Shown(c.node)
         /\ \A c, d \in Seeds : c.node = d.node => c = d
<1> DEFINE exact == {n \in request.exact : Shown(n)}
           lexical == {i \in DOMAIN request.lexical : Shown(request.lexical[i])}
           rank == [i \in lexical |-> Cardinality({j \in lexical : j <= i})]
           score == [i \in lexical |-> Full \div (2 * rank[i])]
           byName == [n \in exact |-> Seed(n, TRUE, Full)]
           byWord == [i \in lexical |-> Seed(request.lexical[i], FALSE, score[i])]
           Exact == {byName[n] : n \in exact}
           Lexical == {byWord[i] : i \in lexical}
<1>1. /\ request.exact \subseteq Nodes /\ request.lexical \in Seq(Nodes)
      /\ \A i, j \in DOMAIN request.lexical : request.lexical[i] = request.lexical[j] => i = j
  BY RequestsAssumption
<1>2. Seeds = IF exact # {} THEN Exact ELSE IF request.identity THEN {} ELSE Lexical
  BY DEF Seeds
<1>3. <<>> \in Seq(Int) OBVIOUS
<1>4. IsFiniteSet(lexical) /\ lexical \subseteq Nat \ {0}
  <2>1. DOMAIN request.lexical = 1 .. Len(request.lexical) /\ Len(request.lexical) \in Nat BY <1>1
  <2>2. IsFiniteSet(1 .. Len(request.lexical)) BY <2>1, FS_Interval
  <2>3. lexical \subseteq 1 .. Len(request.lexical) BY <2>1
  <2> QED BY <2>1, <2>2, <2>3, FS_Subset
<1>5. ASSUME NEW i \in lexical PROVE score[i] \in Nat
  <2> DEFINE upto == {j \in lexical : j <= i}
  <2>1. i \in upto BY <1>4
  <2>2. IsFiniteSet(upto) BY <1>4, FS_Subset
  <2>3. Cardinality(upto) \in Nat /\ Cardinality(upto) # 0
    <3> HIDE DEF upto
    <3> QED BY <2>1, <2>2, FS_CardinalityType, FS_EmptySet
  <2>4. rank[i] \in Nat \ {0} BY <2>3
  <2>5. \A r \in Nat \ {0} : 262144 \div (2 * r) \in Nat OBVIOUS
  <2> HIDE DEF rank
  <2> QED BY <2>4, <2>5 DEF Full
<1> HIDE DEF score
<1>6. \A n \in exact : /\ byName[n] \in Candidate /\ byName[n].node = n
                       /\ byName[n].depth = 0 /\ byName[n].path = <<>>
  BY <1>1, <1>3 DEF Candidate, Seed, Full
<1>7. \A i \in lexical : /\ byWord[i] \in Candidate /\ byWord[i].node = request.lexical[i]
                         /\ byWord[i].depth = 0 /\ byWord[i].path = <<>>
  BY <1>1, <1>3, <1>5 DEF Candidate, Seed
<1>8. /\ \A n \in exact : Shown(n)
      /\ \A i \in lexical : Shown(request.lexical[i])
      /\ \A i, j \in lexical : request.lexical[i] = request.lexical[j] => i = j
  BY <1>1
<1>9. IsFiniteSet(exact) BY <1>1, NodesAssumption, FS_Subset
<1>10. byName = [n \in exact |-> byName[n]] /\ byWord = [i \in lexical |-> byWord[i]] OBVIOUS
<1> HIDE DEF byName, byWord, exact, lexical
<1>11. IsFiniteSet(Exact) /\ IsFiniteSet(Lexical) BY <1>4, <1>9, <1>10, ImageFinite
<1>12. /\ Exact \subseteq Candidate /\ Lexical \subseteq Candidate
       /\ \A c \in Exact \union Lexical : c.depth = 0 /\ c.path = <<>> /\ Shown(c.node)
  BY <1>6, <1>7, <1>8
<1>13. /\ \A c, d \in Exact : c.node = d.node => c = d
       /\ \A c, d \in Lexical : c.node = d.node => c = d
  BY <1>6, <1>7, <1>8
<1> HIDE DEF Exact, Lexical
<1> QED BY <1>2, <1>11, <1>12, <1>13, FS_EmptySet

\* Which of them are placed, as long as the nodes to visit allow.
Placed ==
  LET nodes == {c.node : c \in Seeds}
  IN  {c \in Seeds : Cardinality({n \in nodes : n < c.node}) < request.maxVisited}

\* All are placed, or the budget is spent.
LEMMA PlacedFacts ==
  ASSUME request \in Requests
  PROVE  /\ Placed \subseteq Seeds /\ IsFiniteSet(Placed)
         /\ Placed # Seeds => Cardinality({c.node : c \in Placed}) >= request.maxVisited
<1> DEFINE Before0(c) == {n \in {d.node : d \in Seeds} : n < c.node}
<1>1. Placed \subseteq Seeds /\ IsFiniteSet(Placed) /\ IsFiniteSet(Seeds \ Placed)
  BY SeedFacts, FS_Subset DEF Placed
<1>2. \A c \in Seeds : c \in Placed <=> Cardinality(Before0(c)) < request.maxVisited
  BY DEF Placed
<1>3. request.maxVisited \in Nat BY RequestsAssumption
<1>4. ASSUME Placed # Seeds PROVE Cardinality({c.node : c \in Placed}) >= request.maxVisited
  <2> DEFINE remaining == Seeds \ Placed  R == {p \in remaining \X remaining : p[1].node < p[2].node}
  <2>1. remaining # {} /\ IsFiniteSet(remaining) BY <1>1, <1>4
  <2>2. \A c \in remaining : c.node \in Int BY SeedFacts, NodesAssumption DEF Candidate
  <2>3. \A c, d \in remaining : <<c, d>> \in R <=> c.node < d.node OBVIOUS
  <2> HIDE DEF R
  <2>4. \A c \in remaining : <<c, c>> \notin R BY <2>2, <2>3
  <2>5. \A c, d, e \in remaining : <<c, d>> \in R /\ <<d, e>> \in R => <<c, e>> \in R BY <2>2, <2>3
  <2>6. PICK c \in remaining : \A d \in remaining : <<d, c>> \notin R
    <3> HIDE DEF remaining
    <3> QED BY <2>1, <2>4, <2>5, FirstExists
  <2>7. \A d \in Seeds : d.node < c.node => d \in Placed BY <2>3, <2>6
  <2> DEFINE nodes == {d.node : d \in Placed}
  <2>8. Before0(c) \subseteq nodes BY <2>7
  <2>9. IsFiniteSet(nodes)
    <3> DEFINE f == [d \in Placed |-> d.node]
    <3>1. IsFiniteSet({f[d] : d \in Placed}) BY <1>1, ImageFinite
    <3>2. {f[d] : d \in Placed} = nodes OBVIOUS
    <3> QED BY <3>1, <3>2
  <2>10. ~(Cardinality(Before0(c)) < request.maxVisited) BY <1>2, <2>6
  <2> HIDE DEF Before0, nodes
  <2>11. Cardinality(Before0(c)) <= Cardinality(nodes) BY <2>8, <2>9, FS_Subset
  <2>12. Cardinality(Before0(c)) \in Nat /\ Cardinality(nodes) \in Nat
    BY <2>8, <2>9, FS_Subset, FS_CardinalityType
  <2>13. Cardinality(nodes) >= request.maxVisited BY <1>3, <2>10, <2>11, <2>12
  <2> QED BY <2>13 DEF nodes
<1> QED BY <1>1, <1>4

-----------------------------------------------------------------------------
(* Walks.                                                                  *)

Begun == {[node |-> c.node, score |-> c.score, path |-> <<>>] : c \in Seeds}

LEMMA FurtherMembers ==
  ASSUME NEW W, NEW n
  PROVE  /\ \A x \in Further(W, n) :
              \E w \in W, e \in Visible : \E k \in Neighbors(w.node, e) : x = Hopped(w, e, k, n)
         /\ \A w \in W, e \in Visible : \A k \in Neighbors(w.node, e) : Hopped(w, e, k, n) \in Further(W, n)
<1>1. ASSUME NEW x \in Further(W, n)
      PROVE  \E w \in W, e \in Visible : \E k \in Neighbors(w.node, e) : x = Hopped(w, e, k, n)
  BY DEF Further
<1>2. ASSUME NEW w \in W, NEW e \in Visible, NEW k \in Neighbors(w.node, e)
      PROVE  Hopped(w, e, k, n) \in Further(W, n)
  <2> DEFINE H == {Hopped(w, e, j, n) : j \in Neighbors(w.node, e)}
             HH == {{Hopped(v, d, j, n) : j \in Neighbors(v.node, d)} : v \in W, d \in Visible}
  <2>1. H \in HH OBVIOUS
  <2>2. Hopped(w, e, k, n) \in H OBVIOUS
  <2> HIDE DEF H, HH
  <2>3. Hopped(w, e, k, n) \in UNION HH BY <2>1, <2>2, Zenon
  <2> QED BY <2>3 DEF Further, HH
<1> QED BY <1>1, <1>2

\* One hop further is a walk.
LEMMA HoppedTyped ==
  ASSUME world \in Worlds, NEW w \in Walk, NEW e \in world.edges, NEW k \in Neighbors(w.node, e),
         NEW n \in 1 .. 3
  PROVE  Hopped(w, e, k, n) \in Walk
<1>1. e.id \in Int /\ e.factor \in Nat BY WorldsAssumption
<1>2. k \in Nodes BY DEF Neighbors
<1>3. w.score \in Nat /\ w.path \in Seq(Int) BY DEF Walk
<1>4. Decayed(w.score, e, n) \in Nat BY <1>1, <1>3, DecayedTyped
<1>5. Append(w.path, e.id) \in Seq(Int) BY <1>1, <1>3
<1> QED BY <1>2, <1>4, <1>5 DEF Hopped, Walk

\* The walks satisfy the equations that define them.
LEMMA WalksOfFacts ==
  ASSUME world \in Worlds, request \in Requests
  PROVE  /\ WalksOf[0] = Begun
         /\ \A n \in 1 .. request.depth : WalksOf[n] = Further(WalksOf[n - 1], n)
         /\ \A n \in 0 .. request.depth : WalksOf[n] \subseteq Walk
<1> DEFINE N == request.depth
           F == [n \in 1 .. N |-> [W \in SUBSET Walk |-> Further(W, n)]]
<1>1. N \in 0 .. 3 BY RequestsAssumption
<1>2. Begun \in SUBSET Walk
  <2>1. \A c \in Seeds : c.node \in Nodes /\ c.score \in Nat BY SeedFacts DEF Candidate
  <2>2. <<>> \in Seq(Int) OBVIOUS
  <2>3. \A c \in Seeds : [node |-> c.node, score |-> c.score, path |-> <<>>] \in Walk
    BY <2>1, <2>2 DEF Walk
  <2> QED BY <2>3 DEF Begun
<1>3. ASSUME NEW n \in 1 .. N, NEW W \in SUBSET Walk PROVE Further(W, n) \in SUBSET Walk
  <2>1. n \in 1 .. 3 BY <1>1
  <2>2. \A e \in Visible : e \in world.edges BY DEF Visible
  <2> QED BY <2>1, <2>2, FurtherMembers, HoppedTyped
<1>4. F \in [1 .. N -> [SUBSET Walk -> SUBSET Walk]] BY <1>3
<1>5. \A n \in 1 .. N : \A W \in SUBSET Walk : F[n][W] = Further(W, n) OBVIOUS
<1> HIDE DEF F, N
<1>6. PICK f \in [0 .. N -> SUBSET Walk] : f[0] = Begun /\ \A n \in 1 .. N : f[n] = F[n][f[n - 1]]
  <2> DEFINE U == SUBSET Walk
  <2>1. N \in Nat BY <1>1
  <2>2. Begun \in U /\ F \in [1 .. N -> [U -> U]] BY <1>2, <1>4
  <2> HIDE DEF U
  <2>3. \E f \in [0 .. N -> U] : Recurs(f, Begun, F, N) BY <2>1, <2>2, RecursiveFunction
  <2> QED BY <2>3 DEF U, Recurs
<1>7. \A n \in 0 .. N : f[n] = IF n = 0 THEN Begun ELSE Further(f[n - 1], n)
  <2>1. \A n \in 0 .. N : n # 0 => n \in 1 .. N /\ f[n - 1] \in SUBSET Walk BY <1>1, <1>6
  <2>2. \A n \in 1 .. N : f[n] = Further(f[n - 1], n)
    <3>1. \A n \in 1 .. N : n \in 0 .. N /\ n # 0 BY <1>1
    <3> QED BY <1>5, <1>6, <2>1, <3>1, Zenon
  <2> QED BY <1>6, <2>1, <2>2, Zenon
<1>8. f = [n \in 0 .. N |-> IF n = 0 THEN Begun ELSE Further(f[n - 1], n)]
  <2>1. f = [n \in 0 .. N |-> f[n]] BY <1>6
  <2> QED BY <1>7, <2>1, Zenon
<1>9. WalksOf = [n \in 0 .. N |-> IF n = 0 THEN Begun ELSE Further(WalksOf[n - 1], n)]
  BY <1>8, Zenon DEF WalksOf, Begun, N
<1>10. \A n \in 1 .. N : n \in 0 .. N /\ n # 0 BY <1>1
<1>11. /\ WalksOf[0] = Begun
       /\ \A n \in 1 .. N : WalksOf[n] = Further(WalksOf[n - 1], n)
  <2>1. 0 \in 0 .. N BY <1>1
  <2> QED BY <1>9, <1>10, <2>1, Zenon
<1>12. \A n \in 0 .. N : WalksOf[n] \in SUBSET Walk
  <2> DEFINE S == {n \in Nat : n <= N => WalksOf[n] \in SUBSET Walk}
  <2>1. 0 \in S BY <1>2, <1>11
  <2>2. ASSUME NEW n \in S PROVE n + 1 \in S
    <3>1. n \in Nat /\ n + 1 - 1 = n OBVIOUS
    <3>2. ASSUME n + 1 <= N PROVE WalksOf[n + 1] \in SUBSET Walk
      <4>1. n + 1 \in 1 .. N /\ n <= N BY <1>1, <3>1, <3>2
      <4>2. WalksOf[n] \in SUBSET Walk BY <3>1, <4>1
      <4>3. WalksOf[n + 1] = Further(WalksOf[n], n + 1) BY <1>11, <3>1, <4>1
      <4> QED BY <1>3, <4>1, <4>2, <4>3
    <3> QED BY <3>1, <3>2
  <2>3. S \in SUBSET Nat OBVIOUS
  <2> HIDE DEF S
  <2>4. S = Nat BY <2>1, <2>2, <2>3, NatSetInduction
  <2> QED BY <1>1, <2>4 DEF S
<1> QED BY <1>11, <1>12 DEF N

-----------------------------------------------------------------------------
(* Authorization.                                                          *)

\* A way of n links among allowed projects.
IsWay(way, n, p) ==
  /\ way \in [1 .. n + 1 -> request.allowed]
  /\ way[1] = request.project
  /\ way[n + 1] = p
  /\ \A i \in 1 .. n : way[i] = way[i + 1] \/ <<way[i], way[i + 1]>> \in world.links

LEMMA LinkedMembers ==
  ASSUME NEW R, NEW p
  PROVE  p \in Linked(R) <=> p \in request.allowed /\ \E q \in R : \E k \in world.links : k[1] = q /\ k[2] = p
BY DEF Linked

LEMMA WithinFacts ==
  ASSUME request \in Requests, request.project \in request.allowed
  PROVE  /\ Within[0] = {request.project}
         /\ \A n \in 1 .. request.reach : Within[n] = Within[n - 1] \union Linked(Within[n - 1])
         /\ \A n \in 0 .. request.reach : Within[n] \subseteq request.allowed
<1> DEFINE N == request.reach  U == SUBSET request.allowed  a == {request.project}
           F == [n \in 1 .. N |-> [R \in U |-> R \union Linked(R)]]
<1>1. N \in Nat BY RequestsAssumption
<1>2. a \in U OBVIOUS
<1>3. \A R \in U : R \union Linked(R) \in U BY DEF Linked
<1>4. F \in [1 .. N -> [U -> U]] BY <1>3
<1>5. \A n \in 1 .. N : \A R \in U : F[n][R] = R \union Linked(R) OBVIOUS
<1>6. N = request.reach /\ a = {request.project} OBVIOUS
<1>7. \A R \in U : R \subseteq request.allowed OBVIOUS
<1> HIDE DEF F, U, N, a
<1>8. PICK f \in [0 .. N -> U] : f[0] = a /\ \A n \in 1 .. N : f[n] = F[n][f[n - 1]]
  <2>1. \E f \in [0 .. N -> U] : Recurs(f, a, F, N) BY <1>1, <1>2, <1>4, RecursiveFunction
  <2> QED BY <2>1 DEF Recurs
<1>9. \A n \in 0 .. N : f[n] = IF n = 0 THEN a ELSE f[n - 1] \union Linked(f[n - 1])
  <2>1. \A n \in 0 .. N : n # 0 => n \in 1 .. N /\ f[n - 1] \in U BY <1>1, <1>8
  <2>2. \A n \in 1 .. N : n \in 0 .. N /\ n # 0 BY <1>1
  <2> QED BY <1>5, <1>8, <2>1, <2>2, Zenon
<1>10. f = [n \in 0 .. N |-> IF n = 0 THEN a ELSE f[n - 1] \union Linked(f[n - 1])]
  <2>1. f = [n \in 0 .. N |-> f[n]] BY <1>8
  <2> QED BY <1>9, <2>1, Zenon
<1>11. Within = [n \in 0 .. N |-> IF n = 0 THEN a ELSE Within[n - 1] \union Linked(Within[n - 1])]
  BY <1>10, Zenon DEF Within, N, a
<1>12. \A n \in 1 .. N : n \in 0 .. N /\ n # 0 BY <1>1
<1>13. /\ Within[0] = a
       /\ \A n \in 1 .. N : Within[n] = Within[n - 1] \union Linked(Within[n - 1])
  <2>1. 0 \in 0 .. N BY <1>1
  <2> QED BY <1>11, <1>12, <2>1, Zenon
<1>14. \A n \in 0 .. N : Within[n] \in U
  <2> DEFINE S == {n \in Nat : n <= N => Within[n] \in U}
  <2>1. 0 \in S BY <1>2, <1>13
  <2>2. ASSUME NEW n \in S PROVE n + 1 \in S
    <3>1. n \in Nat /\ n + 1 - 1 = n OBVIOUS
    <3>2. ASSUME n + 1 <= N PROVE Within[n + 1] \in U
      <4>1. n + 1 \in 1 .. N /\ n <= N BY <1>1, <3>1, <3>2
      <4>2. Within[n] \in U BY <3>1, <4>1
      <4>3. Within[n + 1] = Within[n] \union Linked(Within[n]) BY <1>13, <3>1, <4>1
      <4> QED BY <1>3, <4>2, <4>3
    <3> QED BY <3>1, <3>2
  <2>3. S \in SUBSET Nat OBVIOUS
  <2> HIDE DEF S
  <2>4. S = Nat BY <2>1, <2>2, <2>3, NatSetInduction
  <2> QED BY <1>1, <2>4 DEF S
<1> QED BY <1>6, <1>7, <1>13, <1>14

\* What is within so many links is what a way of so many links leads to.
LEMMA WithinIsWays ==
  ASSUME request \in Requests, request.project \in request.allowed,
         \A k \in world.links : k = <<k[1], k[2]>>
  PROVE  \A n \in 0 .. request.reach : \A p : p \in Within[n] <=> \E way : IsWay(way, n, p)
<1> DEFINE N == request.reach
           Leads(n) == \A p : p \in Within[n] <=> \E way : IsWay(way, n, p)
           S == {n \in Nat : n <= N => Leads(n)}
<1>1. N \in Nat BY RequestsAssumption
<1>2. Leads(0)
  <2>1. ASSUME NEW p, p \in Within[0] PROVE \E way : IsWay(way, 0, p)
    <3> DEFINE way == [i \in 1 .. 1 |-> request.project]
    <3>1. p = request.project BY <2>1, WithinFacts
    <3>2. way \in [1 .. 1 -> request.allowed] /\ way[1] = p BY <3>1
    <3>3. way \in [1 .. 0 + 1 -> request.allowed] /\ way[0 + 1] = p BY <3>2
    <3>4. \A i \in 1 .. 0 : FALSE OBVIOUS
    <3> HIDE DEF way
    <3>5. IsWay(way, 0, p) BY <3>1, <3>2, <3>3, <3>4 DEF IsWay
    <3> QED BY <3>5
  <2>2. ASSUME NEW p, NEW way, IsWay(way, 0, p) PROVE p \in Within[0]
    BY <2>2, WithinFacts DEF IsWay
  <2> QED BY <2>1, <2>2
<1>3. ASSUME NEW n \in Nat, n + 1 <= N, Leads(n) PROVE Leads(n + 1)
  <2>1. n + 1 \in 1 .. N /\ n \in 0 .. N /\ n + 1 - 1 = n BY <1>1, <1>3
  <2>2. Within[n + 1] = Within[n] \union Linked(Within[n]) BY <2>1, WithinFacts
  <2>3. ASSUME NEW p, p \in Within[n + 1] PROVE \E way : IsWay(way, n + 1, p)
    <3>1. PICK q \in Within[n] : p \in request.allowed /\ (q = p \/ <<q, p>> \in world.links)
      <4>1. CASE p \in Within[n] BY <4>1, <2>1, WithinFacts
      <4>2. CASE p \in Linked(Within[n])
        <5>1. PICK k \in world.links : k[1] \in Within[n] /\ k[2] = p /\ p \in request.allowed
          BY <4>2, LinkedMembers
        <5> QED BY <5>1
      <4> QED BY <2>2, <2>3, <4>1, <4>2
    <3>2. PICK way : IsWay(way, n, q) BY <1>3, <3>1
    <3> DEFINE longer == [i \in 1 .. n + 2 |-> IF i = n + 2 THEN p ELSE way[i]]
    <3>3. longer \in [1 .. n + 1 + 1 -> request.allowed]
      <4>1. \A i \in 1 .. n + 2 : i # n + 2 => way[i] \in request.allowed BY <3>2 DEF IsWay
      <4> QED BY <3>1, <4>1
    <3>4. longer[1] = way[1] /\ longer[n + 1] = q /\ longer[n + 1 + 1] = p BY <3>2 DEF IsWay
    <3>5. ASSUME NEW i \in 1 .. n + 1
          PROVE  longer[i] = longer[i + 1] \/ <<longer[i], longer[i + 1]>> \in world.links
      <4>1. CASE i = n + 1 BY <4>1, <3>1, <3>4
      <4>2. CASE i # n + 1
        <5>1. i \in 1 .. n /\ longer[i] = way[i] /\ longer[i + 1] = way[i + 1] BY <4>2
        <5> QED BY <5>1, <3>2 DEF IsWay
      <4> QED BY <4>1, <4>2
    <3>6. way[1] = request.project BY <3>2 DEF IsWay
    <3> HIDE DEF longer
    <3>7. IsWay(longer, n + 1, p) BY <3>3, <3>4, <3>5, <3>6 DEF IsWay
    <3> QED BY <3>7
  <2>4. ASSUME NEW p, NEW way, IsWay(way, n + 1, p) PROVE p \in Within[n + 1]
    <3> DEFINE shorter == [i \in 1 .. n + 1 |-> way[i]]
    <3>1. /\ way \in [1 .. n + 2 -> request.allowed] /\ way[1] = request.project /\ way[n + 2] = p
          /\ \A i \in 1 .. n + 1 : way[i] = way[i + 1] \/ <<way[i], way[i + 1]>> \in world.links
      BY <2>4 DEF IsWay
    <3>2. IsWay(shorter, n, way[n + 1])
      <4>1. shorter \in [1 .. n + 1 -> request.allowed] BY <3>1
      <4>2. \A i \in 1 .. n : shorter[i] = way[i] /\ shorter[i + 1] = way[i + 1] OBVIOUS
      <4>3. shorter[1] = way[1] /\ shorter[n + 1] = way[n + 1] OBVIOUS
      <4> HIDE DEF shorter
      <4> QED BY <3>1, <4>1, <4>2, <4>3 DEF IsWay
    <3>3. way[n + 1] \in Within[n] BY <1>3, <3>2
    <3>4. p \in request.allowed /\ (way[n + 1] = p \/ <<way[n + 1], p>> \in world.links)
      <4>1. n + 1 \in 1 .. n + 1 /\ n + 1 + 1 = n + 2 /\ n + 2 \in 1 .. n + 2 OBVIOUS
      <4> QED BY <3>1, <4>1
    <3>5. CASE way[n + 1] = p BY <2>2, <3>3, <3>5
    <3>6. CASE <<way[n + 1], p>> \in world.links
      <4>1. p \in Linked(Within[n]) BY <3>3, <3>4, <3>6, LinkedMembers
      <4> QED BY <2>2, <4>1
    <3> QED BY <3>4, <3>5, <3>6
  <2> QED BY <2>3, <2>4
<1>4. S = Nat
  <2> HIDE DEF Leads
  <2>1. S \in SUBSET Nat /\ 0 \in S BY <1>2
  <2>2. ASSUME NEW n \in S PROVE n + 1 \in S
    <3>1. n \in Nat /\ (n <= N => Leads(n)) OBVIOUS
    <3>2. n + 1 <= N => Leads(n + 1) BY <1>1, <1>3, <3>1
    <3> QED BY <3>1, <3>2
  <2> HIDE DEF S
  <2> QED BY <2>1, <2>2, NatSetInduction
<1>5. \A n \in 0 .. N : Leads(n)
  <2> HIDE DEF Leads
  <2> QED BY <1>1, <1>4
<1> QED BY <1>5

\* The scope is what the caller reaches.
LEMMA DependenciesReached ==
  ASSUME request \in Requests, request.project \in request.allowed,
         \A k \in world.links : k = <<k[1], k[2]>>
  PROVE  \A p : p \in Dependencies <=> Reachable(p)
<1>1. request.reach \in Nat /\ request.reach \in 0 .. request.reach BY RequestsAssumption
<1>2. \A p : p \in Within[request.reach] <=> \E way : IsWay(way, request.reach, p)
  BY <1>1, WithinIsWays
<1>3. Within[request.reach] \subseteq request.allowed BY <1>1, WithinFacts
<1>4. \A p : Reachable(p) <=> \E way : IsWay(way, request.reach, p) BY DEF Reachable, IsWay
<1> QED BY <1>2, <1>3, <1>4 DEF Dependencies

\* Then the edges walked over are those the caller may see.
LEMMA AuthorizedIsVisible ==
  ASSUME \A p : p \in scope <=> Reachable(p)
  PROVE  Authorized = Visible
<1>1. \A e \in world.edges : e \in Authorized <=> e \in Visible
  BY DEF Authorized, AuthorizedEdges, Visible, Shown
<1> QED BY <1>1 DEF Authorized, AuthorizedEdges, Visible

-----------------------------------------------------------------------------
(* Extensions.                                                             *)

LEMMA ExtensionMembers ==
  /\ \A x \in Extensions :
       \E c \in frontier, e \in Authorized : \E n \in Neighbors(c.node, e) :
         x = Extended(c, e, n) /\ Improves(n, Decayed(c.score, e, hops + 1))
  /\ \A c \in frontier, e \in Authorized : \A n \in Neighbors(c.node, e) :
       Improves(n, Decayed(c.score, e, hops + 1)) => Extended(c, e, n) \in Extensions
<1> DEFINE ways(c, e) == {n \in Neighbors(c.node, e) : Improves(n, Decayed(c.score, e, hops + 1))}
<1>1. ASSUME NEW x \in Extensions
      PROVE  \E c \in frontier, e \in Authorized : \E n \in Neighbors(c.node, e) :
               x = Extended(c, e, n) /\ Improves(n, Decayed(c.score, e, hops + 1))
  BY DEF Extensions
<1>2. ASSUME NEW c \in frontier, NEW e \in Authorized, NEW n \in ways(c, e)
      PROVE  Extended(c, e, n) \in Extensions
  <2> DEFINE H == {Extended(c, e, k) : k \in ways(c, e)}
             HH == {{Extended(d, f, k) : k \in ways(d, f)} : d \in frontier, f \in Authorized}
  <2>1. H \in HH OBVIOUS
  <2>2. Extended(c, e, n) \in H OBVIOUS
  <2> HIDE DEF H, HH
  <2>3. Extended(c, e, n) \in UNION HH BY <2>1, <2>2, Zenon
  <2> QED BY <2>3 DEF Extensions, HH
<1> QED BY <1>1, <1>2

\* What is found next is finite, and candidates of the next depth.
LEMMA ExtensionFacts ==
  ASSUME world \in Worlds, request \in Requests, frontier \subseteq Candidate, IsFiniteSet(frontier),
         hops \in Nat, hops < request.depth, \A c \in frontier : Len(c.path) = hops
  PROVE  /\ Extensions \subseteq Candidate /\ IsFiniteSet(Extensions)
         /\ \A x \in Extensions : x.depth = hops + 1 /\ Len(x.path) = hops + 1
<1>1. hops + 1 \in 1 .. 3 /\ hops + 1 \in Nat BY RequestsAssumption
<1>2. \A e \in Authorized : e \in world.edges /\ e.id \in Int /\ e.factor \in Nat
  BY WorldsAssumption DEF Authorized, AuthorizedEdges
<1>3. ASSUME NEW c \in frontier, NEW e \in Authorized, NEW n \in Nodes
      PROVE  LET x == Extended(c, e, n)
             IN  x \in Candidate /\ x.depth = hops + 1 /\ Len(x.path) = hops + 1
  <2>1. c.score \in Nat /\ c.exact \in BOOLEAN /\ c.path \in Seq(Int) /\ Len(c.path) = hops
    BY DEF Candidate
  <2>2. Decayed(c.score, e, hops + 1) \in Nat BY <1>1, <1>2, <2>1, DecayedTyped
  <2>3. Append(c.path, e.id) \in Seq(Int) /\ Len(Append(c.path, e.id)) = hops + 1 BY <1>2, <2>1
  <2> QED BY <1>1, <2>1, <2>2, <2>3 DEF Extended, Candidate
<1>4. \A x \in Extensions : \E c \in frontier, e \in Authorized, n \in Nodes : x = Extended(c, e, n)
  BY ExtensionMembers DEF Neighbors
<1>5. IsFiniteSet(Extensions)
  <2> DEFINE P == (frontier \X Authorized) \X Nodes
             f == [t \in P |-> Extended(t[1][1], t[1][2], t[2])]
             T == {f[t] : t \in P}
  <2>1. IsFiniteSet(Authorized)
    <3>1. IsFiniteSet(world.edges) BY WorldsAssumption
    <3>2. Authorized \subseteq world.edges BY DEF Authorized, AuthorizedEdges
    <3> QED BY <3>1, <3>2, FS_Subset
  <2>2. IsFiniteSet(P) BY <2>1, NodesAssumption, FS_Product
  <2>3. \A c \in frontier, e \in Authorized, n \in Nodes : Extended(c, e, n) \in T
    <3> SUFFICES ASSUME NEW c \in frontier, NEW e \in Authorized, NEW n \in Nodes
                 PROVE  Extended(c, e, n) \in T
      OBVIOUS
    <3>1. <<<<c, e>>, n>> \in P OBVIOUS
    <3>2. f[<<<<c, e>>, n>>] = Extended(c, e, n) OBVIOUS
    <3> QED BY <3>1, <3>2
  <2>4. IsFiniteSet(T)
    <3>1. f = [t \in P |-> f[t]] OBVIOUS
    <3> HIDE DEF P, f
    <3> QED BY <2>2, <3>1, ImageFinite
  <2> HIDE DEF T
  <2>5. Extensions \subseteq T BY <1>4, <2>3
  <2> QED BY <2>4, <2>5, FS_Subset
<1>6. \A x \in Extensions : x \in Candidate /\ x.depth = hops + 1 /\ Len(x.path) = hops + 1
  BY <1>3, <1>4
<1> QED BY <1>5, <1>6

\* Ways of one length are in a strict order.
LEMMA BeatsOrders ==
  ASSUME NEW L \in Nat, NEW c \in Candidate, NEW d \in Candidate, NEW e \in Candidate,
         Len(c.path) = L, Len(d.path) = L, Len(e.path) = L
  PROVE  ~Beats(c, c) /\ (Beats(c, d) /\ Beats(d, e) => Beats(c, e))
<1> DEFINE s == c.path  t == d.path  u == e.path
<1>1. /\ c.score \in Nat /\ d.score \in Nat /\ e.score \in Nat
      /\ s \in Seq(Int) /\ t \in Seq(Int) /\ u \in Seq(Int)
  BY DEF Candidate
<1>2. DOMAIN s = 1 .. L /\ DOMAIN t = 1 .. L /\ DOMAIN u = 1 .. L BY <1>1
<1>3. \A i \in 1 .. L : s[i] \in Int /\ t[i] \in Int /\ u[i] \in Int BY <1>1, <1>2
<1>4. ~PathBefore(s, s) BY <1>2, <1>3 DEF PathBefore
<1>5. ASSUME PathBefore(s, t), PathBefore(t, u) PROVE PathBefore(s, u)
  <2>1. PICK i \in 1 .. L : s[i] < t[i] /\ \A j \in 1 .. i - 1 : s[j] = t[j]
    BY <1>2, <1>5 DEF PathBefore
  <2>2. PICK k \in 1 .. L : t[k] < u[k] /\ \A j \in 1 .. k - 1 : t[j] = u[j]
    BY <1>2, <1>5 DEF PathBefore
  <2> HIDE DEF s, t, u
  <2>3. CASE i < k
    <3>1. t[i] = u[i] BY <2>2, <2>3
    <3>2. \A j \in 1 .. i - 1 : s[j] = u[j] BY <2>1, <2>2, <2>3
    <3> QED BY <1>2, <2>1, <3>1, <3>2 DEF PathBefore
  <2>4. CASE k < i
    <3>1. t[k] = s[k] BY <2>1, <2>4
    <3>2. \A j \in 1 .. k - 1 : s[j] = u[j] BY <2>1, <2>2, <2>4
    <3> QED BY <1>2, <2>2, <3>1, <3>2 DEF PathBefore
  <2>5. CASE i = k
    <3>1. s[i] < u[i] BY <1>3, <2>1, <2>2, <2>5
    <3>2. \A j \in 1 .. i - 1 : s[j] = u[j] BY <2>1, <2>2, <2>5
    <3> QED BY <1>2, <3>1, <3>2 DEF PathBefore
  <2> QED BY <2>3, <2>4, <2>5
<1> HIDE DEF s, t, u
<1>6. ~(c.score > c.score) BY <1>1
<1>7. ~Beats(c, c) BY <1>4, <1>6 DEF Beats, s
<1>8. ASSUME Beats(c, d), Beats(d, e) PROVE Beats(c, e)
  <2>1. c.score > d.score \/ (c.score = d.score /\ PathBefore(s, t)) BY <1>8 DEF Beats, s, t
  <2>2. d.score > e.score \/ (d.score = e.score /\ PathBefore(t, u)) BY <1>8 DEF Beats, t, u
  <2>3. c.score > e.score \/ (c.score = e.score /\ PathBefore(s, u)) BY <1>1, <1>5, <2>1, <2>2
  <2> QED BY <2>3 DEF Beats, s, u
<1> QED BY <1>7, <1>8

\* Each node that is found next has one best way, and no way to it is better.
LEMMA BestFacts ==
  ASSUME NEW L \in Nat, Extensions \subseteq Candidate, IsFiniteSet(Extensions),
         \A x \in Extensions : Len(x.path) = L
  PROVE  /\ BestExtensions \subseteq Extensions
         /\ \A c, d \in BestExtensions : c.node = d.node => c = d
         /\ \A x \in Extensions : \E c \in BestExtensions : c.node = x.node /\ x.score <= c.score
<1> DEFINE ways(n) == {c \in Extensions : c.node = n}
           Best(n, c) == c \in ways(n) /\ \A d \in ways(n) : ~Beats(d, c)
           best(n) == CHOOSE c : Best(n, c)
           nodes == {c.node : c \in Extensions}
<1>1. ASSUME NEW n \in nodes PROVE \E c : Best(n, c)
  <2> DEFINE R == {p \in ways(n) \X ways(n) : Beats(p[1], p[2])}
  <2>1. ways(n) # {} /\ IsFiniteSet(ways(n)) BY FS_Subset
  <2>2. \A c, d \in ways(n) : <<c, d>> \in R <=> Beats(c, d) OBVIOUS
  <2>3. \A c \in ways(n) : c \in Candidate /\ Len(c.path) = L OBVIOUS
  <2> HIDE DEF R, ways
  <2>4. \A c \in ways(n) : <<c, c>> \notin R BY <2>2, <2>3, BeatsOrders
  <2>5. \A c, d, e \in ways(n) : <<c, d>> \in R /\ <<d, e>> \in R => <<c, e>> \in R
    BY <2>2, <2>3, BeatsOrders
  <2>6. \E c \in ways(n) : \A d \in ways(n) : <<d, c>> \notin R BY <2>1, <2>4, <2>5, FirstExists
  <2> QED BY <2>2, <2>6
<1>2. BestExtensions = {best(n) : n \in nodes} BY Zenon DEF BestExtensions
<1>3. \A n \in nodes : Best(n, best(n))
  <2> HIDE DEF Best, nodes
  <2> QED BY <1>1, Zenon
<1>4. \A n \in nodes : best(n) \in Extensions /\ best(n).node = n /\ \A d \in ways(n) : ~Beats(d, best(n))
  <2> HIDE DEF nodes
  <2> QED BY <1>3
<1>5. ASSUME NEW x \in Extensions
      PROVE  LET c == best(x.node) IN c \in BestExtensions /\ c.node = x.node /\ x.score <= c.score
  <2> DEFINE c == best(x.node)
  <2>1. x.node \in nodes /\ x \in ways(x.node) OBVIOUS
  <2>2. c \in Extensions /\ c.node = x.node /\ ~Beats(x, c)
    <3> HIDE DEF nodes, best, ways
    <3> QED BY <1>4, <2>1
  <2>3. c \in BestExtensions
    <3> HIDE DEF nodes, best
    <3> QED BY <1>2, <2>1
  <2>4. x.score \in Nat /\ c.score \in Nat
    <3> HIDE DEF best
    <3> QED BY <2>2 DEF Candidate
  <2> HIDE DEF best
  <2> QED BY <2>2, <2>3, <2>4 DEF Beats
<1> HIDE DEF best, nodes, ways
<1> QED BY <1>2, <1>4, <1>5

\* What is taken is all there is, unless a budget is spent then.
LEMMA TakenFacts ==
  ASSUME request \in Requests, NEW best \in SUBSET Candidate, IsFiniteSet(best),
         IsFiniteSet(DOMAIN visited), IsFiniteSet(candidates)
  PROVE  /\ Taken(best) \subseteq best
         /\ LET nodes == DOMAIN visited \union {c.node : c \in Taken(best)}
            IN  /\ IsFiniteSet(nodes)
                /\ ~Spent(nodes, candidates \union Taken(best)) => Taken(best) = best
<1> DEFINE T == Taken(best)
           nodes == DOMAIN visited \union {c.node : c \in T}
           earlier(c) == {d \in best : Before(d, c)}
<1>1. T \subseteq best /\ IsFiniteSet(T) BY FS_Subset DEF Taken
<1>2. \A c \in best : c \in T <=>
        ~Spent(DOMAIN visited \union {d.node : d \in earlier(c)}, candidates \union earlier(c))
  BY DEF Taken
<1> HIDE DEF T
<1>3. IsFiniteSet({c.node : c \in T})
  <2> DEFINE f == [c \in T |-> c.node]
  <2>1. IsFiniteSet({f[c] : c \in T}) BY <1>1, ImageFinite
  <2>2. {f[c] : c \in T} = {c.node : c \in T} OBVIOUS
  <2> QED BY <2>1, <2>2
<1>4. IsFiniteSet(nodes) /\ IsFiniteSet(candidates \union T) BY <1>1, <1>3, FS_Union
<1>5. ASSUME T # best PROVE Spent(nodes, candidates \union T)
  <2> DEFINE remaining == best \ T
  <2>1. IsFiniteSet(remaining) /\ remaining # {} /\ remaining \subseteq Candidate BY <1>1, <1>5, FS_Subset
  <2>2. PICK c \in remaining : \A d \in remaining : ~Before(d, c)
    <3> HIDE DEF remaining
    <3> QED BY <2>1, FirstCandidate
  <2>3. earlier(c) \subseteq T BY <2>2
  <2> DEFINE found == DOMAIN visited \union {d.node : d \in earlier(c)}
  <2>4. Spent(found, candidates \union earlier(c)) BY <1>2, <2>2
  <2>5. found \subseteq nodes /\ candidates \union earlier(c) \subseteq candidates \union T BY <2>3
  <2>6. request.maxPaths \in Nat /\ request.maxVisited \in Nat BY RequestsAssumption
  <2> HIDE DEF found, nodes, earlier
  <2> QED BY <1>4, <2>4, <2>5, <2>6, SpentStays
<1> QED BY <1>1, <1>4, <1>5 DEF T

-----------------------------------------------------------------------------
(* Seeds and hops keep what was found.                                     *)

\* ScoreOf maps the nodes of what was found to its scores.
LEMMA ScoreOfFacts ==
  ASSUME NEW found, \A c, d \in found : c.node = d.node => c = d
  PROVE  /\ DOMAIN ScoreOf(found) = {c.node : c \in found}
         /\ \A c \in found : ScoreOf(found)[c.node] = c.score
<1>1. ASSUME NEW c \in found PROVE ScoreOf(found)[c.node] = c.score
  <2> DEFINE d == CHOOSE x \in found : x.node = c.node
  <2>1. d \in found /\ d.node = c.node OBVIOUS
  <2>2. d = c BY <2>1
  <2>3. c.node \in {x.node : x \in found} OBVIOUS
  <2>4. ScoreOf(found)[c.node] = d.score BY <2>3 DEF ScoreOf
  <2> HIDE DEF d
  <2> QED BY <2>2, <2>4
<1> QED BY <1>1 DEF ScoreOf

\* The nodes of a finite set of candidates are finite.
LEMMA NodesFinite ==
  ASSUME NEW S, IsFiniteSet(S)
  PROVE  LET N == {c.node : c \in S} IN IsFiniteSet(N) /\ Cardinality(N) <= Cardinality(S)
<1> DEFINE f == [c \in S |-> c.node]
<1>1. IsFiniteSet({f[c] : c \in S}) /\ Cardinality({f[c] : c \in S}) <= Cardinality(S) BY ImageFinite
<1>2. {f[c] : c \in S} = {c.node : c \in S} OBVIOUS
<1> QED BY <1>1, <1>2

\* The seeds begin the walk.
LEMMA SeedsBegin ==
  ASSUME world \in Worlds, request \in Requests, NEW best, best = ScoreOf(Placed)
  PROVE  /\ Placed \subseteq Candidate /\ IsFiniteSet(Placed)
         /\ Cut(Placed) \subseteq Candidate /\ IsFiniteSet(Cut(Placed))
         /\ IsFiniteSet(DOMAIN best) /\ \A n \in DOMAIN best : n \in Nodes /\ best[n] \in Nat
         /\ AreWalks(Cut(Placed), Placed, best, 0)
         /\ NoneDropped(Cut(Placed), Placed, best, 0)
<1>1. /\ Placed \subseteq Seeds /\ IsFiniteSet(Placed) /\ Placed \subseteq Candidate
      /\ \A c \in Placed : c.depth = 0 /\ c.path = <<>> /\ Shown(c.node)
      /\ \A c, d \in Placed : c.node = d.node => c = d
  BY PlacedFacts, SeedFacts
<1>2. /\ request.maxVisited \in Nat /\ request.maxPaths \in Nat /\ request.depth \in 0 .. 3
  BY RequestsAssumption
<1>3. /\ DOMAIN best = {c.node : c \in Placed}
      /\ \A c \in Placed : best[c.node] = c.score
  BY <1>1, ScoreOfFacts
<1>4. IsFiniteSet(DOMAIN best) BY <1>1, <1>3, NodesFinite
<1>5. \A n \in DOMAIN best : n \in Nodes /\ best[n] \in Nat BY <1>1, <1>3 DEF Candidate
<1>6. OneEach(Placed) BY <1>1 DEF OneEach
<1>7. /\ Cut(Placed) \subseteq Placed /\ IsFiniteSet(Cut(Placed))
      /\ Cut(Placed) # Placed => Cardinality(Cut(Placed)) >= request.maxPaths
  BY <1>1, <1>2, <1>6, CutFacts
<1>8. \A c \in Seeds : Way(c) \in WalksOf[0] BY WalksOfFacts, SeedFacts DEF Begun, Way
<1>9. AreWalks(Cut(Placed), Placed, best, 0)
  <2>1. \A c \in Placed : Len(c.path) = 0 BY <1>1
  <2>2. OneEach(Cut(Placed)) BY <1>6, <1>7 DEF OneEach
  <2>3. \A c \in Placed : c.depth <= 0 /\ Len(c.path) = c.depth /\ Way(c) \in WalksOf[c.depth] /\ Shown(c.node)
    BY <1>1, <1>8, <2>1
  <2>4. \A c \in Placed : c.depth = 0 /\ c.node \in DOMAIN best /\ c.score = best[c.node]
    BY <1>1, <1>3
  <2> QED BY <1>7, <2>2, <2>3, <2>4 DEF AreWalks
<1>10. ASSUME ~Spent(DOMAIN best, Cut(Placed))
       PROVE  /\ \A n \in DOMAIN best : \E c \in Cut(Placed) : c.node = n /\ c.score = best[n]
              /\ \A n \in DOMAIN best : \E c \in Placed : c.node = n
              /\ \A w \in WalksOf[0] : w.node \in DOMAIN best /\ w.score <= best[w.node]
  <2>1. Cut(Placed) = Placed BY <1>7, <1>10 DEF Spent
  <2>2. Placed = Seeds BY <1>3, <1>10, PlacedFacts DEF Spent
  <2>3. \A w \in WalksOf[0] : \E c \in Placed : w.node = c.node /\ w.score = c.score
    BY <2>2, WalksOfFacts DEF Begun
  <2>4. \A c \in Placed : c.node \in DOMAIN best /\ c.score <= best[c.node]
    BY <1>1, <1>3 DEF Candidate
  <2>5. \A w \in WalksOf[0] : w.node \in DOMAIN best /\ w.score <= best[w.node] BY <2>3, <2>4
  <2> QED BY <1>3, <2>1, <2>5
<1>11. \A m \in 0 .. 0 : m = 0 OBVIOUS
<1>12. NoneDropped(Cut(Placed), Placed, best, 0) BY <1>10, <1>11 DEF NoneDropped
<1> QED BY <1>1, <1>4, <1>5, <1>7, <1>9, <1>12

\* What a hop makes of the best scores.
Rescored(taken) ==
  LET scores == ScoreOf(taken)
  IN  [n \in DOMAIN visited \union DOMAIN scores |->
         IF n \in DOMAIN scores THEN scores[n] ELSE visited[n]]

\* A hop takes walks, and improves the scores.
LEMMA HopTakes ==
  ASSUME WalkTypes, ScopeIsReached, Admitted, hops < request.depth,
         AreWalks(candidates, frontier, visited, hops),
         NEW T, T = Taken(BestExtensions), NEW best, best = Rescored(T)
  PROVE  /\ T \subseteq Candidate /\ IsFiniteSet(T) /\ hops + 1 \in 1 .. 3
         /\ IsFiniteSet(candidates \union T)
         /\ IsFiniteSet(DOMAIN best) /\ \A n \in DOMAIN best : n \in Nodes /\ best[n] \in Nat
         /\ DOMAIN best = DOMAIN visited \union {c.node : c \in T}
         /\ \A n \in DOMAIN visited : visited[n] <= best[n]
         /\ \A n \in DOMAIN visited : best[n] = visited[n] \/ \E c \in T : c.node = n
         /\ AreWalks(candidates \union T, T, best, hops + 1)
         /\ ~Spent(DOMAIN best, candidates \union T) =>
              \A x \in Extensions : \E c \in T : c.node = x.node /\ x.score <= c.score
<1>1. /\ world \in Worlds /\ request \in Requests
      /\ frontier \subseteq Candidate /\ IsFiniteSet(frontier)
      /\ candidates \subseteq Candidate /\ IsFiniteSet(candidates)
      /\ IsFiniteSet(DOMAIN visited) /\ \A n \in DOMAIN visited : n \in Nodes /\ visited[n] \in Nat
      /\ hops \in Nat
  BY DEF WalkTypes
<1>2. request.depth \in 0 .. 3 /\ hops + 1 \in 1 .. 3 /\ hops + 1 \in 1 .. request.depth /\ hops + 1 - 1 = hops
  BY <1>1, RequestsAssumption
<1>3. \A c \in frontier : Len(c.path) = hops /\ Way(c) \in WalksOf[hops] BY DEF AreWalks
<1>4. /\ Extensions \subseteq Candidate /\ IsFiniteSet(Extensions)
      /\ \A x \in Extensions : x.depth = hops + 1 /\ Len(x.path) = hops + 1
  BY <1>1, <1>3, ExtensionFacts
<1>5. /\ BestExtensions \subseteq Extensions
      /\ \A c, d \in BestExtensions : c.node = d.node => c = d
      /\ \A x \in Extensions : \E c \in BestExtensions : c.node = x.node /\ x.score <= c.score
  BY <1>1, <1>4, BestFacts
<1>6. BestExtensions \subseteq Candidate /\ IsFiniteSet(BestExtensions) BY <1>4, <1>5, FS_Subset
<1> DEFINE nodes == DOMAIN visited \union {c.node : c \in T}
<1>7. /\ T \subseteq BestExtensions /\ IsFiniteSet(nodes)
      /\ ~Spent(nodes, candidates \union T) => T = BestExtensions
  BY <1>1, <1>6, TakenFacts
<1>8. IsFiniteSet(T) /\ T \subseteq Extensions /\ T \subseteq Candidate
  BY <1>4, <1>5, <1>6, <1>7, FS_Subset
<1>9. /\ DOMAIN ScoreOf(T) = {c.node : c \in T}
      /\ \A c \in T : ScoreOf(T)[c.node] = c.score
  <2>1. \A c, d \in T : c.node = d.node => c = d BY <1>5, <1>7
  <2> QED BY <2>1, ScoreOfFacts
<1>10. /\ DOMAIN best = nodes
       /\ \A c \in T : c.node \in DOMAIN best /\ best[c.node] = c.score
       /\ \A n \in DOMAIN visited : best[n] = visited[n] \/ \E c \in T : c.node = n
  <2>1. DOMAIN best = nodes BY <1>9 DEF Rescored
  <2>2. \A n \in nodes : best[n] = IF n \in DOMAIN ScoreOf(T) THEN ScoreOf(T)[n] ELSE visited[n]
    BY <1>9 DEF Rescored
  <2> QED BY <1>9, <2>1, <2>2
<1>11. \A n \in DOMAIN best : n \in Nodes /\ best[n] \in Nat
  <2>1. \A c \in T : c.node \in Nodes /\ c.score \in Nat BY <1>8 DEF Candidate
  <2> QED BY <1>1, <1>10, <2>1
<1>12. \A x \in Extensions : /\ Improves(x.node, x.score) /\ Shown(x.node)
                             /\ Way(x) \in WalksOf[hops + 1]
  <2>1. Authorized = Visible BY AuthorizedIsVisible DEF ScopeIsReached
  <2>2. WalksOf[hops + 1] = Further(WalksOf[hops], hops + 1) BY <1>1, <1>2, WalksOfFacts
  <2> SUFFICES ASSUME NEW x \in Extensions
               PROVE  Improves(x.node, x.score) /\ Shown(x.node) /\ Way(x) \in WalksOf[hops + 1]
    OBVIOUS
  <2>3. PICK c \in frontier, e \in Authorized : \E n \in Neighbors(c.node, e) :
               x = Extended(c, e, n) /\ Improves(n, Decayed(c.score, e, hops + 1))
    BY ExtensionMembers
  <2>4. PICK n \in Neighbors(c.node, e) : x = Extended(c, e, n) /\ Improves(n, Decayed(c.score, e, hops + 1))
    BY <2>3
  <2>5. x.node = n /\ x.score = Decayed(c.score, e, hops + 1) /\ x.path = Append(c.path, e.id)
    BY <2>4 DEF Extended
  <2>6. n \in {e.source, e.target} BY DEF Neighbors
  <2>7. Shown(n) BY <2>6 DEF Authorized
  <2>8. Way(x) = Hopped(Way(c), e, n, hops + 1) BY <2>5 DEF Way, Hopped
  <2>9. n \in Neighbors(Way(c).node, e) BY DEF Way
  <2>10. Way(x) \in WalksOf[hops + 1] BY <1>3, <2>1, <2>2, <2>8, <2>9, FurtherMembers
  <2> QED BY <2>4, <2>5, <2>7, <2>10
<1>13. \A n \in DOMAIN visited : visited[n] <= best[n]
  <2> SUFFICES ASSUME NEW n \in DOMAIN visited PROVE visited[n] <= best[n] OBVIOUS
  <2>1. CASE best[n] = visited[n] BY <1>1, <2>1
  <2>2. ASSUME NEW c \in T, c.node = n PROVE visited[n] <= best[n]
    <3>1. c.score > visited[n] BY <1>8, <1>12, <2>2 DEF Improves
    <3>2. best[n] = c.score /\ best[n] \in Nat /\ visited[n] \in Nat BY <1>1, <1>10, <1>11, <2>2
    <3> QED BY <3>1, <3>2
  <2> QED BY <1>10, <2>1, <2>2
<1>14. AreWalks(candidates \union T, T, best, hops + 1)
  <2>1. \A c \in candidates : c.depth <= hops + 1 /\ c.depth # hops + 1
    BY <1>1 DEF AreWalks, Candidate
  <2>2. \A c \in T : c.depth = hops + 1 /\ Len(c.path) = hops + 1 BY <1>4, <1>8
  <2>3. \A c \in candidates \union T :
          c.depth <= hops + 1 /\ Len(c.path) = c.depth /\ Way(c) \in WalksOf[c.depth] /\ Shown(c.node)
    <3>1. \A c \in candidates : Len(c.path) = c.depth /\ Way(c) \in WalksOf[c.depth] /\ Shown(c.node)
      BY DEF AreWalks
    <3>2. \A c \in T : c.depth <= hops + 1 /\ Len(c.path) = c.depth /\ Way(c) \in WalksOf[c.depth] /\ Shown(c.node)
      BY <1>1, <1>8, <1>12, <2>2
    <3> QED BY <2>1, <3>1, <3>2
  <2>4. OneEach(candidates \union T)
    <3>1. \A c, d \in candidates : c.node = d.node /\ c.depth = d.depth => c = d
      BY DEF AreWalks, OneEach
    <3>2. \A c, d \in T : c.node = d.node => c = d BY <1>5, <1>7
    <3> QED BY <2>1, <2>2, <3>1, <3>2 DEF OneEach
  <2> QED BY <1>10, <2>2, <2>3, <2>4 DEF AreWalks
<1>15. IsFiniteSet(candidates \union T) BY <1>1, <1>8, FS_Union
<1> QED BY <1>2, <1>5, <1>7, <1>8, <1>10, <1>11, <1>13, <1>14, <1>15

\* A hop drops nothing that could make a difference.
LEMMA HopCompletes ==
  ASSUME WalkTypes, ScopeIsReached, Admitted, hops < request.depth,
         AreWalks(candidates, frontier, visited, hops),
         NoneDropped(candidates, frontier, visited, hops),
         NEW T, T = Taken(BestExtensions), NEW best, best = Rescored(T)
  PROVE  NoneDropped(candidates \union T, T, best, hops + 1)
<1> SUFFICES ASSUME ~Spent(DOMAIN best, candidates \union T)
             PROVE  NoneDropped(candidates \union T, T, best, hops + 1)
  BY DEF NoneDropped
<1>1. /\ world \in Worlds /\ request \in Requests
      /\ frontier \subseteq Candidate /\ candidates \subseteq Candidate
      /\ \A n \in DOMAIN visited : visited[n] \in Nat
      /\ hops \in Nat
  BY DEF WalkTypes
<1>2. /\ T \subseteq Candidate /\ hops + 1 \in 1 .. 3
      /\ IsFiniteSet(candidates \union T)
      /\ IsFiniteSet(DOMAIN best) /\ \A n \in DOMAIN best : best[n] \in Nat
      /\ DOMAIN best = DOMAIN visited \union {c.node : c \in T}
      /\ \A n \in DOMAIN visited : visited[n] <= best[n]
      /\ \A n \in DOMAIN visited : best[n] = visited[n] \/ \E c \in T : c.node = n
      /\ \A x \in Extensions : \E c \in T : c.node = x.node /\ x.score <= c.score
  BY HopTakes
<1>3. \A c \in T : c.node \in DOMAIN best /\ c.score = best[c.node]
  <2>1. AreWalks(candidates \union T, T, best, hops + 1) BY HopTakes
  <2> QED BY <2>1 DEF AreWalks
<1>4. request.maxPaths \in Nat /\ request.maxVisited \in Nat /\ request.depth \in 0 .. 3
  BY <1>1, RequestsAssumption
<1>5. ~Spent(DOMAIN visited, candidates)
  <2>1. DOMAIN visited \subseteq DOMAIN best /\ candidates \subseteq candidates \union T BY <1>2
  <2> QED BY <1>2, <1>4, <2>1, SpentStays
<1>6. /\ \A n \in DOMAIN visited : \E c \in candidates : c.node = n /\ c.score = visited[n]
      /\ \A n \in DOMAIN visited : Settled(n, visited, hops) \/ \E c \in frontier : c.node = n
      /\ \A m \in 0 .. hops : \A w \in WalksOf[m] : w.node \in DOMAIN visited /\ w.score <= visited[w.node]
  BY <1>5 DEF NoneDropped
<1>7. \A e \in Authorized : e.factor \in Nat
  BY <1>1, WorldsAssumption DEF Authorized, AuthorizedEdges
<1>9. ASSUME NEW n \in DOMAIN visited, NEW e \in Authorized, NEW k \in Neighbors(n, e)
      PROVE  k \in DOMAIN best /\ Decayed(visited[n], e, hops + 1) <= best[k]
  <2> DEFINE s == Decayed(visited[n], e, hops + 1)
  <2>1. s \in Nat BY <1>1, <1>2, <1>7, DecayedTyped
  <2>2. CASE Settled(n, visited, hops)
    <3>1. /\ hops \in 1 .. 3 /\ k \in DOMAIN visited /\ Decayed(visited[n], e, hops) <= visited[k]
      BY <1>1, <1>2, <2>2 DEF Settled
    <3>2. s <= Decayed(visited[n], e, hops) /\ Decayed(visited[n], e, hops) \in Nat
      <4>1. visited[n] <= visited[n] /\ hops <= hops + 1 BY <1>1
      <4> QED BY <1>1, <1>2, <1>7, <3>1, <4>1, DecayedMonotone, DecayedTyped
    <3>3. visited[k] <= best[k] /\ visited[k] \in Nat /\ best[k] \in Nat /\ k \in DOMAIN best
      BY <1>1, <1>2, <3>1
    <3> HIDE DEF s
    <3> QED BY <2>1, <3>1, <3>2, <3>3 DEF s
  <2>3. ASSUME NEW c \in frontier, c.node = n PROVE k \in DOMAIN best /\ s <= best[k]
    <3>1. c.score = visited[n] BY <2>3 DEF AreWalks
    <3>2. CASE Improves(k, s)
      <4>1. k \in Neighbors(c.node, e) /\ Improves(k, Decayed(c.score, e, hops + 1)) BY <2>3, <3>1, <3>2
      <4>2. Extended(c, e, k) \in Extensions BY <4>1, ExtensionMembers
      <4>3. Extended(c, e, k).node = k /\ Extended(c, e, k).score = s BY <3>1 DEF Extended
      <4>4. PICK d \in T : d.node = k /\ s <= d.score BY <1>2, <4>2, <4>3
      <4> QED BY <1>3, <4>4
    <3>3. CASE ~Improves(k, s)
      <4>1. k \in DOMAIN visited /\ ~(s > visited[k]) BY <3>3 DEF Improves
      <4>2. visited[k] <= best[k] /\ visited[k] \in Nat /\ best[k] \in Nat /\ k \in DOMAIN best
        BY <1>1, <1>2, <4>1
      <4> HIDE DEF s
      <4> QED BY <2>1, <4>1, <4>2
    <3> QED BY <3>2, <3>3
  <2> QED BY <1>6, <2>2, <2>3
<1>10. \A n \in DOMAIN best : \E c \in candidates \union T : c.node = n /\ c.score = best[n]
  <2> SUFFICES ASSUME NEW n \in DOMAIN best
               PROVE  \E c \in candidates \union T : c.node = n /\ c.score = best[n]
    OBVIOUS
  <2>1. ASSUME NEW c \in T, c.node = n PROVE \E d \in candidates \union T : d.node = n /\ d.score = best[n]
    BY <1>3, <2>1
  <2>2. CASE n \in DOMAIN visited /\ best[n] = visited[n] BY <1>6, <2>2
  <2> QED BY <1>2, <2>1, <2>2
<1>11. \A n \in DOMAIN best : Settled(n, best, hops + 1) \/ \E c \in T : c.node = n
  <2> SUFFICES ASSUME NEW n \in DOMAIN best, ~\E c \in T : c.node = n
               PROVE  Settled(n, best, hops + 1)
    OBVIOUS
  <2>1. n \in DOMAIN visited /\ best[n] = visited[n] BY <1>2
  <2> QED BY <1>1, <1>9, <2>1 DEF Settled
<1>12. ASSUME NEW m \in 0 .. hops + 1, NEW w \in WalksOf[m]
       PROVE  w.node \in DOMAIN best /\ w.score <= best[w.node]
  <2>1. CASE m # hops + 1
    <3>1. m \in 0 .. hops /\ m \in 0 .. request.depth BY <1>1, <1>4, <2>1
    <3>2. w \in Walk BY <1>1, <3>1, WalksOfFacts
    <3>3. w.score \in Nat BY <3>2 DEF Walk
    <3>4. w.node \in DOMAIN visited /\ w.score <= visited[w.node] BY <1>6, <3>1
    <3>5. w.node \in DOMAIN best /\ visited[w.node] <= best[w.node]
          /\ visited[w.node] \in Nat /\ best[w.node] \in Nat
      BY <1>1, <1>2, <3>4
    <3> QED BY <3>3, <3>4, <3>5
  <2>2. CASE m = hops + 1
    <3>1. hops + 1 \in 1 .. request.depth /\ hops + 1 - 1 = hops /\ hops \in 0 .. hops
          /\ hops \in 0 .. request.depth
      BY <1>1, <1>4
    <3>2. WalksOf[hops + 1] = Further(WalksOf[hops], hops + 1) BY <1>1, <3>1, WalksOfFacts
    <3>3. PICK v \in WalksOf[hops], e \in Visible : \E k \in Neighbors(v.node, e) : w = Hopped(v, e, k, hops + 1)
      BY <2>2, <3>2, FurtherMembers
    <3>4. PICK k \in Neighbors(v.node, e) : w = Hopped(v, e, k, hops + 1) BY <3>3
    <3>5. w.node = k /\ w.score = Decayed(v.score, e, hops + 1) BY <3>4 DEF Hopped
    <3>6. e \in Authorized BY AuthorizedIsVisible DEF ScopeIsReached
    <3>7. v \in Walk BY <1>1, <3>1, WalksOfFacts
    <3>8. v.score \in Nat BY <3>7 DEF Walk
    <3>9. v.node \in DOMAIN visited /\ v.score <= visited[v.node] BY <1>6, <3>1
    <3>10. k \in DOMAIN best /\ Decayed(visited[v.node], e, hops + 1) <= best[k] BY <1>9, <3>6, <3>9
    <3>11. /\ Decayed(v.score, e, hops + 1) <= Decayed(visited[v.node], e, hops + 1)
           /\ Decayed(v.score, e, hops + 1) \in Nat /\ Decayed(visited[v.node], e, hops + 1) \in Nat
      <4>1. visited[v.node] \in Nat /\ hops + 1 <= hops + 1 BY <1>1, <3>9
      <4>2. e.factor \in Nat BY <1>7, <3>6
      <4> QED BY <1>2, <3>8, <3>9, <4>1, <4>2, DecayedMonotone, DecayedTyped
    <3>12. best[k] \in Nat BY <1>2, <3>10
    <3> QED BY <3>5, <3>10, <3>11, <3>12
  <2> QED BY <2>1, <2>2
<1> QED BY <1>10, <1>11, <1>12 DEF NoneDropped

-----------------------------------------------------------------------------
(* Every step keeps the invariant.                                         *)

\* What the reference says of a walk changes with the world, the request and
\* the scope only.
LEMMA ReferenceStays ==
  ASSUME world' = world, request' = request, scope' = scope
  PROVE  /\ WalksOf' = WalksOf /\ Authorized' = Authorized
         /\ \A p : Reachable(p)' <=> Reachable(p)
         /\ Cut(candidates)' = {c \in candidates' : Cardinality({d \in candidates' : Before(d, c)}) < request.maxPaths}
<1>1. Seeds' = Seeds BY DEF Seeds, Shown, Seed
<1>2. Visible' = Visible BY DEF Visible, Reachable
<1>3. WalksOf' = WalksOf BY <1>1, <1>2 DEF WalksOf, Further, Hopped, Neighbors, Decayed
<1>4. Authorized' = Authorized BY DEF Authorized, AuthorizedEdges, Shown
<1>5. \A p : Reachable(p)' <=> Reachable(p) BY DEF Reachable
<1>6. Cut(candidates)' = {c \in candidates' : Cardinality({d \in candidates' : Before(d, c)}) < request.maxPaths}
  BY DEF Cut, Before
<1> QED BY <1>3, <1>4, <1>5, <1>6

\* So it is enough to look at the new values of what was found.
LEMMA FoundBecomes ==
  ASSUME world' = world, request' = request, scope' = scope,
         AreWalks(candidates', frontier', visited', hops'),
         NoneDropped(candidates', frontier', visited', hops')
  PROVE  /\ AreWalks(candidates, frontier, visited, hops)'
         /\ NoneDropped(candidates, frontier, visited, hops)'
<1>1. AreWalks(candidates, frontier, visited, hops)'
  BY ReferenceStays DEF AreWalks, Way, Shown, OneEach
<1>2. NoneDropped(candidates, frontier, visited, hops)'
  BY ReferenceStays DEF NoneDropped, Spent, Settled, Neighbors, Decayed
<1> QED BY <1>1, <1>2

LEMMA InitWalkEstablishes == InitWalk => WalkInv
<1> SUFFICES ASSUME InitWalk PROVE WalkInv OBVIOUS
<1>1. ~Admitted BY DEF InitWalk, Admitted
<1>2. WalkTypes
  <2>1. request.depth \in 0 .. 3 BY RequestsAssumption DEF InitWalk
  <2>2. DOMAIN visited = {} BY DEF InitWalk
  <2> QED BY <2>1, <2>2, FS_EmptySet DEF InitWalk, WalkTypes
<1> QED BY <1>1, <1>2 DEF WalkInv, ScopeIsReached, Answered

LEMMA AuthorizeKeeps == ASSUME WalkInv, Authorize PROVE WalkInv'
<1>1. pc = "scope" /\ world' = world /\ request' = request /\ hops' = hops
      /\ frontier' = frontier /\ visited' = visited /\ candidates' = candidates
  BY DEF Authorize
<1>2. pc' \in {"done", "seeds"} /\ (pc' = "seeds" => hops' = 0)
  BY <1>1 DEF Authorize, WalkInv, WalkTypes
<1>3. WalkTypes' BY <1>1, <1>2 DEF WalkInv, WalkTypes, Candidate
<1>4. CASE request.project \notin request.allowed
  <2>1. pc' = "done" /\ answer' = [refused |-> TRUE] BY <1>4 DEF Authorize
  <2>2. answer'.refused BY <2>1
  <2>3. ~Admitted' BY <2>1, <2>2 DEF Admitted
  <2> QED BY <1>3, <2>3 DEF WalkInv, ScopeIsReached, Answered
<1>5. CASE request.project \in request.allowed
  <2>1. pc' = "seeds" /\ scope' = Dependencies BY <1>5 DEF Authorize
  <2>2. request \in Requests /\ \A k \in world.links : k = <<k[1], k[2]>>
    BY WorldsAssumption DEF WalkInv, WalkTypes
  <2>3. \A p : p \in scope' <=> Reachable(p) BY <1>5, <2>1, <2>2, DependenciesReached
  <2>4. \A p : Reachable(p)' <=> Reachable(p) BY <1>1 DEF Reachable
  <2>5. ScopeIsReached' BY <1>1, <1>5, <2>3, <2>4 DEF ScopeIsReached
  <2> QED BY <1>3, <2>1, <2>5 DEF WalkInv, Answered
<1> QED BY <1>4, <1>5

LEMMA PlaceSeedsKeeps == ASSUME WalkInv, PlaceSeeds PROVE WalkInv'
<1>1. /\ pc = "seeds" /\ pc' = "hop" /\ world' = world /\ request' = request /\ scope' = scope
      /\ hops' = hops /\ hops = 0
  BY DEF PlaceSeeds, WalkInv, WalkTypes
<1>2. frontier' = Placed BY DEF PlaceSeeds, Placed
<1>3. visited' = ScoreOf(Placed)
  <2>1. visited' = ScoreOf(frontier') BY DEF PlaceSeeds
  <2> QED BY <1>2, <2>1, Zenon
<1>4. candidates' = Cut(Placed) BY <1>2 DEF PlaceSeeds, Cut
<1>5. /\ Placed \subseteq Candidate /\ IsFiniteSet(Placed)
      /\ Cut(Placed) \subseteq Candidate /\ IsFiniteSet(Cut(Placed))
      /\ IsFiniteSet(DOMAIN visited') /\ \A n \in DOMAIN visited' : n \in Nodes /\ visited'[n] \in Nat
      /\ AreWalks(Cut(Placed), Placed, visited', 0)
      /\ NoneDropped(Cut(Placed), Placed, visited', 0)
  BY <1>3, SeedsBegin DEF WalkInv, WalkTypes
<1>6. WalkTypes' BY <1>1, <1>2, <1>4, <1>5 DEF WalkInv, WalkTypes, Candidate
<1>7. ScopeIsReached' BY <1>1, ReferenceStays DEF WalkInv, ScopeIsReached, Admitted
<1>8. AreWalks(candidates, frontier, visited, hops)' /\ NoneDropped(candidates, frontier, visited, hops)'
  BY <1>1, <1>2, <1>4, <1>5, FoundBecomes
<1> QED BY <1>1, <1>6, <1>7, <1>8 DEF WalkInv, Answered

LEMMA HopKeeps == ASSUME WalkInv, Hop PROVE WalkInv'
<1>1. /\ pc = "hop" /\ pc' = "hop" /\ world' = world /\ request' = request /\ scope' = scope
      /\ hops' = hops + 1
  BY DEF Hop
<1> DEFINE T == Taken(BestExtensions)
<1>2. frontier' = T /\ candidates' = candidates \union T BY DEF Hop
<1>3. visited' = Rescored(T) BY <1>2 DEF Hop, Rescored, ScoreOf
<1>4. /\ WalkTypes /\ ScopeIsReached /\ Admitted
      /\ AreWalks(candidates, frontier, visited, hops)
      /\ NoneDropped(candidates, frontier, visited, hops)
  BY <1>1 DEF WalkInv, Admitted
<1>5. hops \in Nat /\ hops < request.depth /\ request.depth \in 0 .. 3
  BY <1>4, RequestsAssumption DEF Hop, GoesOn, WalkTypes
<1> HIDE DEF T
<1>6. /\ T \subseteq Candidate /\ IsFiniteSet(T) /\ IsFiniteSet(candidates \union T)
      /\ IsFiniteSet(DOMAIN visited') /\ \A n \in DOMAIN visited' : n \in Nodes /\ visited'[n] \in Nat
      /\ AreWalks(candidates \union T, T, visited', hops + 1)
  BY <1>3, <1>4, <1>5, HopTakes DEF T
<1>7. NoneDropped(candidates \union T, T, visited', hops + 1)
  BY <1>3, <1>4, <1>5, HopCompletes DEF T
<1>8. WalkTypes' BY <1>1, <1>2, <1>4, <1>5, <1>6 DEF WalkTypes, Candidate
<1>9. ScopeIsReached' BY <1>1, <1>4, ReferenceStays DEF ScopeIsReached, Admitted
<1>10. AreWalks(candidates, frontier, visited, hops)' /\ NoneDropped(candidates, frontier, visited, hops)'
  BY <1>1, <1>2, <1>6, <1>7, FoundBecomes
<1> QED BY <1>1, <1>8, <1>9, <1>10 DEF WalkInv, Answered

LEMMA FinishKeeps == ASSUME WalkInv, Finish PROVE WalkInv'
<1>1. /\ pc = "hop" /\ pc' = "done" /\ world' = world /\ request' = request /\ scope' = scope
      /\ frontier' = frontier /\ visited' = visited /\ candidates' = candidates /\ hops' = hops
  BY DEF Finish
<1>2. /\ WalkTypes /\ ScopeIsReached /\ Admitted
      /\ AreWalks(candidates, frontier, visited, hops)
      /\ NoneDropped(candidates, frontier, visited, hops)
  BY <1>1 DEF WalkInv, Admitted
<1>3. answer'.found = Cut(candidates) /\ answer'.target = Found(Cut(candidates)) /\ ~answer'.refused
  BY DEF Finish
<1>4. WalkTypes' BY <1>1, <1>2 DEF WalkTypes, Candidate
<1>5. ScopeIsReached' BY <1>1, <1>2, ReferenceStays DEF ScopeIsReached
<1>6. AreWalks(candidates, frontier, visited, hops)' /\ NoneDropped(candidates, frontier, visited, hops)'
  BY <1>1, <1>2, FoundBecomes
<1>7. Answered'
  <2>1. ~GoesOn' BY <1>1 DEF Finish, GoesOn, Spent
  <2>2. Cut(candidates)' = Cut(candidates) BY <1>1 DEF Cut, Before
  <2>3. Found(answer.found)' = Found(answer'.found) BY <1>1 DEF Found, Before
  <2> QED BY <1>3, <2>1, <2>2, <2>3 DEF Answered
<1> QED BY <1>4, <1>5, <1>6, <1>7 DEF WalkInv

LEMMA WalkStutterKeeps == ASSUME WalkInv, UNCHANGED traversalVars PROVE WalkInv'
<1>1. /\ world' = world /\ request' = request /\ scope' = scope /\ pc' = pc
      /\ frontier' = frontier /\ visited' = visited /\ candidates' = candidates /\ hops' = hops
      /\ answer' = answer
  BY DEF traversalVars
<1>2. WalkTypes' BY <1>1 DEF WalkInv, WalkTypes, Candidate
<1>3. ScopeIsReached' BY <1>1, ReferenceStays DEF WalkInv, ScopeIsReached, Admitted
<1>4. ASSUME pc \in {"hop", "done"}, Admitted
      PROVE  AreWalks(candidates, frontier, visited, hops)' /\ NoneDropped(candidates, frontier, visited, hops)'
  BY <1>1, <1>4, FoundBecomes DEF WalkInv
<1>5. Answered'
  <2>1. GoesOn' <=> GoesOn BY <1>1 DEF GoesOn, Spent
  <2>2. Cut(candidates)' = Cut(candidates) BY <1>1 DEF Cut, Before
  <2>3. Found(answer.found)' = Found(answer.found) BY <1>1 DEF Found, Before
  <2> QED BY <1>1, <2>1, <2>2, <2>3 DEF WalkInv, Answered, Admitted
<1> QED BY <1>1, <1>2, <1>3, <1>4, <1>5 DEF WalkInv, Admitted

-----------------------------------------------------------------------------
(* The walk.                                                               *)

\* What every state of the walk satisfies: what was found are walks over what
\* the caller may see, and until a budget is spent nothing that could lead to
\* a better one was dropped.
THEOREM WalkInvariance == SpecWalk => []WalkInv
<1>1. WalkInv /\ [NextWalk]_traversalVars => WalkInv'
  BY AuthorizeKeeps, PlaceSeedsKeeps, HopKeeps, FinishKeeps, WalkStutterKeeps DEF NextWalk
<1> QED BY <1>1, InitWalkEstablishes, PTL DEF SpecWalk

\* The answer stays in its budget, over what the caller reaches and may see:
\* traverseGraph and authorizedGraphEdges over any graph of any size.
THEOREM PathsAreAuthorized == SpecWalk => []PathsAuthorized
<1>1. WalkInv => PathsAuthorized
  <2> SUFFICES ASSUME WalkInv, pc = "done", ~answer.refused
               PROVE  /\ Cardinality(answer.found) <= request.maxPaths
                      /\ \A c \in answer.found :
                           /\ [node |-> c.node, score |-> c.score, path |-> c.path] \in Walks
                           /\ Reachable(ProjectOf[c.node]) /\ c.node \notin world.hidden
    BY DEF PathsAuthorized
  <2>1. /\ WalkTypes /\ ScopeIsReached /\ Admitted
        /\ AreWalks(candidates, frontier, visited, hops)
        /\ answer.found = Cut(candidates)
    BY DEF WalkInv, Admitted, Answered
  <2>2. request.maxPaths \in Nat /\ request.depth \in 0 .. 3
    BY <2>1, RequestsAssumption DEF WalkTypes
  <2>3. answer.found \subseteq candidates /\ Cardinality(answer.found) <= request.maxPaths
    BY <2>1, <2>2, CutFacts DEF WalkTypes, AreWalks
  <2>4. ASSUME NEW c \in answer.found
        PROVE  /\ Way(c) \in Walks
               /\ Reachable(ProjectOf[c.node]) /\ c.node \notin world.hidden
    <3>1. c.depth <= hops /\ Way(c) \in WalksOf[c.depth] /\ Shown(c.node) /\ c \in Candidate
      BY <2>1, <2>3 DEF AreWalks, WalkTypes
    <3>2. c.depth \in 0 .. request.depth BY <2>1, <2>2, <3>1 DEF WalkTypes, Candidate
    <3>3. Way(c) \in Walks
      <4> DEFINE H == {WalksOf[n] : n \in 0 .. request.depth}
      <4>1. WalksOf[c.depth] \in H BY <3>2
      <4> HIDE DEF H
      <4>2. Way(c) \in UNION H BY <3>1, <4>1, Zenon
      <4> QED BY <4>2 DEF Walks, H
    <3> QED BY <2>1, <3>1, <3>3 DEF Shown, ScopeIsReached
  <2> QED BY <2>3, <2>4 DEF Way
<1> QED BY <1>1, WalkInvariance, PTL

\* Until a budget is spent the best of all walks are found, whatever the
\* graph: traverseGraph drops a way only if none through it can be better.
THEOREM PathsAreBest == SpecWalk => []BestPaths
<1>1. WalkInv => BestPaths
  <2> SUFFICES ASSUME WalkInv, pc = "done", ~answer.refused, ~Spent(DOMAIN visited, candidates)
               PROVE  /\ DOMAIN visited = {w.node : w \in Walks}
                      /\ \A w \in Walks : w.score <= visited[w.node]
                      /\ \A w \in Walks : w.node = request.target =>
                           answer.target # {} /\ \A c \in answer.target : w.score <= c.score
    BY DEF BestPaths
  <2>1. /\ WalkTypes /\ ScopeIsReached /\ Admitted
        /\ AreWalks(candidates, frontier, visited, hops)
        /\ NoneDropped(candidates, frontier, visited, hops)
        /\ ~GoesOn /\ answer.found = Cut(candidates) /\ answer.target = Found(answer.found)
    BY DEF WalkInv, Admitted, Answered
  <2>2. /\ world \in Worlds /\ request \in Requests /\ hops \in Nat /\ hops <= request.depth
        /\ candidates \subseteq Candidate /\ IsFiniteSet(candidates)
        /\ \A n \in DOMAIN visited : visited[n] \in Nat
    BY <2>1 DEF WalkTypes
  <2>3. request.maxPaths \in Nat /\ request.depth \in 0 .. 3 BY <2>2, RequestsAssumption
  <2>4. /\ \A n \in DOMAIN visited : \E c \in candidates : c.node = n /\ c.score = visited[n]
        /\ \A n \in DOMAIN visited : Settled(n, visited, hops) \/ \E c \in frontier : c.node = n
        /\ \A m \in 0 .. hops : \A w \in WalksOf[m] : w.node \in DOMAIN visited /\ w.score <= visited[w.node]
    BY <2>1 DEF NoneDropped
  <2> DEFINE Covered(m) == \A w \in WalksOf[m] : w.node \in DOMAIN visited /\ w.score <= visited[w.node]
  <2>5. ASSUME NEW m \in Nat, m + 1 <= request.depth, hops <= m, hops < request.depth, Covered(m)
        PROVE  Covered(m + 1)
    <3>1. frontier = {} BY <2>1, <2>5 DEF GoesOn
    <3>2. \A n \in DOMAIN visited : Settled(n, visited, hops) BY <2>4, <3>1
    <3>3. /\ m + 1 \in 1 .. request.depth /\ m + 1 - 1 = m /\ m \in 0 .. request.depth
          /\ m + 1 \in 1 .. 3
      BY <2>3, <2>5
    <3> SUFFICES ASSUME NEW w \in WalksOf[m + 1] PROVE w.node \in DOMAIN visited /\ w.score <= visited[w.node]
      OBVIOUS
    <3>4. WalksOf[m + 1] = Further(WalksOf[m], m + 1) BY <2>2, <3>3, WalksOfFacts
    <3>5. PICK v \in WalksOf[m], e \in Visible : \E k \in Neighbors(v.node, e) : w = Hopped(v, e, k, m + 1)
      BY <3>4, FurtherMembers
    <3>6. PICK k \in Neighbors(v.node, e) : w = Hopped(v, e, k, m + 1) BY <3>5
    <3>7. w.node = k /\ w.score = Decayed(v.score, e, m + 1) BY <3>6 DEF Hopped
    <3>8. e \in Authorized BY <2>1, AuthorizedIsVisible DEF ScopeIsReached
    <3>9. v \in Walk BY <2>2, <3>3, WalksOfFacts
    <3>10. v.score \in Nat BY <3>9 DEF Walk
    <3>11. v.node \in DOMAIN visited /\ v.score <= visited[v.node] BY <2>5
    <3>12. hops >= 1 /\ k \in DOMAIN visited /\ Decayed(visited[v.node], e, hops) <= visited[k]
      BY <3>2, <3>8, <3>11 DEF Settled
    <3>13. hops \in 1 .. 3 /\ hops <= m + 1 BY <2>2, <2>3, <2>5, <3>12
    <3>14. e.factor \in Nat BY <2>2, <3>8, WorldsAssumption DEF Authorized, AuthorizedEdges
    <3>15. /\ Decayed(v.score, e, m + 1) <= Decayed(visited[v.node], e, hops)
           /\ Decayed(v.score, e, m + 1) \in Nat /\ Decayed(visited[v.node], e, hops) \in Nat
      BY <2>2, <3>3, <3>10, <3>11, <3>13, <3>14, DecayedMonotone, DecayedTyped
    <3>16. visited[k] \in Nat BY <2>2, <3>12
    <3> QED BY <3>7, <3>12, <3>15, <3>16
  <2>6. \A m \in 0 .. request.depth : Covered(m)
    <3> DEFINE S == {m \in Nat : m <= request.depth => Covered(m)}
    <3>1. \A m \in 0 .. hops : Covered(m) BY <2>4
    <3> HIDE DEF Covered
    <3>2. 0 \in S BY <2>2, <3>1
    <3>3. ASSUME NEW m \in S PROVE m + 1 \in S
      <4>1. m \in Nat /\ (m <= request.depth => Covered(m)) OBVIOUS
      <4>2. ASSUME m + 1 <= request.depth PROVE Covered(m + 1)
        <5>1. m <= request.depth BY <2>3, <4>1, <4>2
        <5>2. CASE m + 1 <= hops BY <2>2, <3>1, <4>1, <5>2
        <5>3. CASE ~(m + 1 <= hops)
          <6>1. hops <= m /\ hops < request.depth BY <2>2, <2>3, <4>1, <4>2, <5>3
          <6> QED BY <2>5, <4>1, <4>2, <5>1, <6>1
        <5> QED BY <5>2, <5>3
      <4> QED BY <4>1, <4>2
    <3>4. S \in SUBSET Nat OBVIOUS
    <3> HIDE DEF S
    <3>5. S = Nat BY <3>2, <3>3, <3>4, NatSetInduction
    <3> QED BY <2>3, <3>5 DEF S
  <2>7. \A w \in Walks : w.node \in DOMAIN visited /\ w.score <= visited[w.node]
    BY <2>6 DEF Walks
  <2>8. ASSUME NEW n \in DOMAIN visited PROVE n \in {w.node : w \in Walks}
    <3>1. PICK c \in candidates : c.node = n BY <2>4
    <3>2. Way(c) \in WalksOf[c.depth] /\ c.depth \in 0 .. request.depth
      BY <2>1, <2>2, <2>3 DEF AreWalks, Candidate
    <3> DEFINE H == {WalksOf[m] : m \in 0 .. request.depth}
    <3>3. WalksOf[c.depth] \in H BY <3>2
    <3> HIDE DEF H
    <3>4. Way(c) \in UNION H BY <3>2, <3>3, Zenon
    <3>5. Way(c) \in Walks BY <3>4 DEF Walks, H
    <3>6. Way(c).node = n BY <3>1 DEF Way
    <3> QED BY <3>5, <3>6
  <2>9. ASSUME NEW w \in Walks, w.node = request.target
        PROVE  answer.target # {} /\ \A c \in answer.target : w.score <= c.score
    <3> DEFINE ways == {c \in candidates : c.node = request.target}
    <3>1. answer.found = candidates
      <4>1. Cut(candidates) # candidates => Cardinality(Cut(candidates)) >= request.maxPaths
            /\ Cardinality(Cut(candidates)) \in Nat
        BY <2>1, <2>2, <2>3, CutFacts, FS_CardinalityType DEF AreWalks
      <4>2. Cardinality(Cut(candidates)) <= Cardinality(candidates) /\ Cardinality(candidates) \in Nat
        BY <2>1, <2>2, <2>3, CutFacts, FS_Subset, FS_CardinalityType DEF AreWalks
      <4> QED BY <2>1, <2>3, <4>1, <4>2 DEF Spent
    <3>2. answer.target = {c \in ways : \A d \in ways : ~Before(d, c)} BY <2>1, <3>1 DEF Found
    <3>3. w.node \in DOMAIN visited /\ w.score <= visited[w.node] BY <2>7
    <3>4. PICK b \in ways : b.score = visited[w.node] BY <2>4, <2>9, <3>3
    <3>5. ways \subseteq Candidate /\ IsFiniteSet(ways) /\ ways # {} BY <2>2, <3>4, FS_Subset
    <3>6. \E c \in ways : \A d \in ways : ~Before(d, c)
      <4> HIDE DEF ways
      <4> QED BY <3>5, FirstCandidate
    <3>7. ASSUME NEW c \in answer.target PROVE w.score <= c.score
      <4>1. c \in ways /\ ~Before(b, c) BY <3>2
      <4>2. ~(b.score > c.score) BY <4>1 DEF Before
      <4>3. b.score \in Nat /\ c.score \in Nat BY <3>5, <4>1 DEF Candidate
      <4>4. w.score \in Nat
        <5>1. PICK m \in 0 .. request.depth : w \in WalksOf[m] BY DEF Walks
        <5>2. w \in Walk BY <2>2, <5>1, WalksOfFacts
        <5> QED BY <5>2 DEF Walk
      <4> QED BY <3>3, <3>4, <4>2, <4>3, <4>4
    <3> QED BY <3>2, <3>6, <3>7
  <2> QED BY <2>7, <2>8, <2>9
<1> QED BY <1>1, WalkInvariance, PTL

-----------------------------------------------------------------------------
(* The invariant of the budgets.                                           *)

Fields == [project : Nat, task : Nat, dated : Nat, retrieval : Nat, warning : Nat, tokens : Nat, bytes : Nat]

\* The report before it is measured, as wide as any.
Unmeasured(p) == p.tokens = 32000 /\ p.bytes = 128000

\* Everything but the names of things is gone, or nothing has to be.
Trimmed(p) == TooLong(p) => p.dated = 0 /\ p.retrieval \in {0, 13 + meta.compact}

PackFits(p, items) == Ceil4(PackSize(p, items)) <= TokenLimit

Reports(p, items) == p.bytes = PackSize(p, items) /\ p.tokens = Ceil4(p.bytes)

FitTypes ==
  /\ stage \in {"search", "again", "pack", "done"}
  /\ budget \in Int /\ meta \in Metas /\ payload \in Payloads
  /\ left \in Seq(Items) /\ results \in Seq(Items)
  /\ gens \in Seq(Nat) /\ level \in 1 .. Len(gens)
  /\ stage = "search" => gens = meta.gens
  /\ stage \in {"pack", "done"} => pack \in Fields

FitInv ==
  /\ FitTypes
  /\ stage \in {"search", "again"} => SearchFits(results, level)
  /\ stage = "pack" =>
       /\ Unmeasured(pack) /\ Trimmed(pack)
       /\ PackFits(pack, results) \/ (TooLong(pack) /\ results = <<>>)
  /\ stage = "done" => PackFits(pack, results) /\ Reports(pack, results)

-----------------------------------------------------------------------------
(* Sizes.                                                                  *)

LEMMA LimitFacts == ASSUME budget \in Int PROVE TokenLimit \in Int /\ 64 <= TokenLimit /\ TokenLimit <= 32000
BY DEF TokenLimit

LEMMA DigitsAre ==
  ASSUME NEW n \in Int
  PROVE  Digits(n) = IF n < 10 THEN 1 ELSE IF n < 100 THEN 2 ELSE IF n < 1000 THEN 3
                     ELSE IF n < 10000 THEN 4 ELSE IF n < 100000 THEN 5 ELSE IF n < 1000000 THEN 6
                     ELSE IF n < 10000000 THEN 7 ELSE IF n < 100000000 THEN 8 ELSE 9
<1> DEFINE Is(d) == (d = 1 \/ Power[d - 1] <= n) /\ (d = 9 \/ n < Power[d])
           D == IF n < 10 THEN 1 ELSE IF n < 100 THEN 2 ELSE IF n < 1000 THEN 3
                ELSE IF n < 10000 THEN 4 ELSE IF n < 100000 THEN 5 ELSE IF n < 1000000 THEN 6
                ELSE IF n < 10000000 THEN 7 ELSE IF n < 100000000 THEN 8 ELSE 9
<1>1. /\ Power[1] = 10 /\ Power[2] = 100 /\ Power[3] = 1000 /\ Power[4] = 10000 /\ Power[5] = 100000
      /\ Power[6] = 1000000 /\ Power[7] = 10000000 /\ Power[8] = 100000000
  BY DEF Power
<1>2. D \in 1 .. 9 /\ Is(D)
  BY <1>1
<1>3. ASSUME NEW d \in 1 .. 9, Is(d) PROVE d = D
  <2>1. d \in {1, 2, 3, 4, 5, 6, 7, 8, 9}
    OBVIOUS
  <2> QED BY <1>1, <1>3, <2>1
<1>4. Digits(n) = CHOOSE d \in 1 .. 9 : Is(d)
  BY DEF Digits
<1> HIDE DEF Is, D
<1>5. (CHOOSE d \in 1 .. 9 : Is(d)) = D
  BY <1>2, <1>3
<1>6. Digits(n) = D
  BY <1>4, <1>5
<1> QED BY <1>6 DEF D

\* A larger number has as many digits or more.
LEMMA DigitsGrow ==
  ASSUME NEW m \in Int, NEW n \in Int, m <= n
  PROVE  Digits(m) \in 1 .. 9 /\ Digits(m) <= Digits(n)
BY DigitsAre

LEMMA ItemSizeTyped == ASSUME NEW item \in Items PROVE ItemSize(item) \in Nat
<1>1. item.head \in Nat /\ item.tags \in Nat /\ item.signals \in Nat /\ item.body \in Nat
  BY DEF Items
<1>2. item.body \div 2 \in Nat /\ item.body % 2 \in Nat
  BY <1>1
<1>3. BodySize(item) \in Nat
  BY <1>1, <1>2 DEF BodySize
<1> QED BY <1>1, <1>3 DEF ItemSize

LEMMA ItemsSizeTyped ==
  ASSUME NEW items \in Seq(Items)
  PROVE  ItemsSize(items) \in Nat /\ (items = <<>> => ItemsSize(items) = 0)
<1> DEFINE N == Len(items)
           F == [n \in 1 .. N |-> [x \in Nat |-> x + ItemSize(items[n])]]
           Is(f) == f = [n \in 0 .. N |-> IF n = 0 THEN 0 ELSE f[n - 1] + ItemSize(items[n])]
           sum == CHOOSE f : Is(f)
<1>1. \A n \in 1 .. N : ItemSize(items[n]) \in Nat
  BY ItemSizeTyped
<1>2. F \in [1 .. N -> [Nat -> Nat]]
  BY <1>1
<1>3. N \in Nat /\ 0 \in Nat
  OBVIOUS
<1>4. \E f \in [0 .. N -> Nat] : Recurs(f, 0, F, N)
  <2> HIDE DEF F, N
  <2> QED BY <1>2, <1>3, RecursiveFunction
<1>5. PICK f \in [0 .. N -> Nat] : Recurs(f, 0, F, N)
  BY <1>4
<1>6. ASSUME NEW n \in 0 .. N PROVE f[n] = IF n = 0 THEN 0 ELSE f[n - 1] + ItemSize(items[n])
  <2>1. f[0] = 0 /\ \A k \in 1 .. N : f[k] = F[k][f[k - 1]]
    BY <1>5 DEF Recurs
  <2>2. CASE n # 0
    <3>1. n \in 1 .. N /\ n - 1 \in 0 .. N /\ f[n - 1] \in Nat
      BY <2>2
    <3> QED BY <3>1, <2>1, <2>2
  <2> QED BY <2>1, <2>2
<1>7. Is(f)
  <2> HIDE DEF F, N
  <2> QED BY <1>6
<1>8. Is(sum)
  <2> HIDE DEF Is
  <2> QED BY <1>7
<1>9. \A n \in 0 .. N : sum[n] \in Nat
  <2> DEFINE S == {n \in Nat : n <= N => sum[n] \in Nat}
  <2> HIDE DEF sum
  <2>1. \A n \in 0 .. N : sum[n] = IF n = 0 THEN 0 ELSE sum[n - 1] + ItemSize(items[n])
    BY <1>8
  <2>2. 0 \in S
    BY <2>1, <1>3
  <2>3. ASSUME NEW n \in S PROVE n + 1 \in S
    BY <2>1, <1>1, <1>3
  <2>4. S = Nat
    <3> HIDE DEF S
    <3>1. S \in SUBSET Nat BY DEF S
    <3> QED BY <2>2, <2>3, <3>1, NatSetInduction
  <2> QED BY <2>4, <1>3
<1>10. ItemsSize(items) = sum[N] + (IF items = <<>> THEN 0 ELSE N - 1)
  BY DEF ItemsSize
<1>11. items = <<>> => sum[N] = 0
  <2> HIDE DEF sum
  <2> QED BY <1>8
<1> HIDE DEF sum
<1> QED BY <1>9, <1>10, <1>11, <1>3

-----------------------------------------------------------------------------
(* The elastic body.                                                       *)

\* What the bisection finds fits.
LEMMA BisectFits ==
  ASSUME NEW length \in Nat, NEW fitting \in SUBSET Int
  PROVE  Bisect(length, fitting) \in fitting \union {0}
<1> DEFINE U == [low : Int, high : Int, best : fitting \union {0}]
           a == [low |-> 0, high |-> length, best |-> 0]
           F == [n \in 1 .. Halvings |-> [r \in U |-> Halved(r, fitting)]]
           Is(f) == f = [k \in 0 .. Halvings |-> IF k = 0 THEN a ELSE Halved(f[k - 1], fitting)]
           after == CHOOSE f : Is(f)
<1>1. ASSUME NEW r \in U PROVE Halved(r, fitting) \in U
  <2> DEFINE mid == (r.low + r.high) \div 2
  <2>1. r.low \in Int /\ r.high \in Int /\ mid \in Int
    OBVIOUS
  <2> HIDE DEF mid
  <2>2. mid \in fitting => [low |-> mid + 1, high |-> r.high, best |-> mid] \in U
    BY <2>1
  <2>3. [low |-> r.low, high |-> mid - 1, best |-> r.best] \in U
    BY <2>1
  <2>4. \/ Halved(r, fitting) = r
        \/ mid \in fitting /\ Halved(r, fitting) = [low |-> mid + 1, high |-> r.high, best |-> mid]
        \/ Halved(r, fitting) = [low |-> r.low, high |-> mid - 1, best |-> r.best]
    BY DEF Halved, mid
  <2> QED BY <2>2, <2>3, <2>4
<1>2. Halvings \in Nat /\ Halvings > 0
  BY DEF Halvings
<1>3. a \in U
  OBVIOUS
<1>4. F \in [1 .. Halvings -> [U -> U]]
  BY <1>1
<1>5. PICK f \in [0 .. Halvings -> U] : Recurs(f, a, F, Halvings)
  <2> HIDE DEF F, U, a
  <2> QED BY <1>2, <1>3, <1>4, RecursiveFunction
<1>6. ASSUME NEW k \in 0 .. Halvings PROVE f[k] = IF k = 0 THEN a ELSE Halved(f[k - 1], fitting)
  <2>1. f[0] = a /\ \A n \in 1 .. Halvings : f[n] = F[n][f[n - 1]]
    BY <1>5 DEF Recurs
  <2> HIDE DEF U, a
  <2>2. CASE k # 0
    <3>1. k \in 1 .. Halvings /\ k - 1 \in 0 .. Halvings /\ f[k - 1] \in U
      BY <2>2, <1>2
    <3> QED BY <3>1, <2>1, <2>2
  <2> QED BY <2>1, <2>2
<1>7. Is(f)
  <2> HIDE DEF F, U, a
  <2> QED BY <1>6
<1>8. Is(after)
  <2> HIDE DEF Is
  <2> QED BY <1>7
<1> DEFINE S == {n \in Nat : n <= Halvings => after[n] \in U}
<1>9. S = Nat
  <2> HIDE DEF after
  <2>1. \A k \in 0 .. Halvings : after[k] = IF k = 0 THEN a ELSE Halved(after[k - 1], fitting)
    BY <1>8
  <2> HIDE DEF U, a
  <2>2. 0 \in S
    BY <2>1, <1>2, <1>3
  <2>3. ASSUME NEW n \in S PROVE n + 1 \in S
    <3>1. n \in Nat /\ (n + 1 <= Halvings => after[n] \in U)
      BY <1>2
    <3>2. n + 1 <= Halvings => after[n + 1] = Halved(after[n], fitting)
      BY <3>1, <2>1, <1>2
    <3> QED BY <3>1, <3>2, <1>1
  <2>4. S \in SUBSET Nat
    OBVIOUS
  <2> HIDE DEF S
  <2> QED BY <2>2, <2>3, <2>4, NatSetInduction
<1>10. after[Halvings] \in U
  <2> HIDE DEF after, U
  <2> QED BY <1>9, <1>2
<1>11. Bisect(length, fitting) = after[Halvings].best
  BY DEF Bisect
<1> HIDE DEF after
<1> QED BY <1>10, <1>11

LEMMA TruncatedTyped ==
  ASSUME NEW item \in Items, NEW n \in Nat
  PROVE  Truncated(item, n) \in Items
BY DEF Truncated, Items

LEMMA TruncatedWhole == ASSUME NEW item \in Items PROVE Truncated(item, item.body) = item
BY DEF Truncated, Items

\* What is fitted is the item, with as much of its body as fits.
LEMMA FittedFits ==
  ASSUME NEW item \in Items, NEW fitting \in SUBSET (0 .. item.body)
  PROVE  \/ Fitted(item, fitting) = <<>>
         \/ \E n \in fitting : Truncated(item, n) \in Items /\ Fitted(item, fitting) = <<Truncated(item, n)>>
<1> DEFINE n == Bisect(item.body, fitting)
<1>1. item.body \in Nat /\ fitting \subseteq Nat
  BY DEF Items
<1>2. n \in fitting \union {0}
  BY <1>1, BisectFits
<1>3. CASE item.body \in fitting
  BY <1>1, <1>3, TruncatedTyped, TruncatedWhole DEF Fitted
<1>4. CASE item.body \notin fitting /\ n = 0
  BY <1>4 DEF Fitted
<1>5. CASE item.body \notin fitting /\ n # 0
  <2>1. n \in fitting
    BY <1>2, <1>5
  <2>2. Fitted(item, fitting) = <<Truncated(item, n)>>
    BY <1>5 DEF Fitted
  <2> HIDE DEF n
  <2> QED BY <2>1, <2>2, <1>1, TruncatedTyped
<1> QED BY <1>3, <1>4, <1>5

-----------------------------------------------------------------------------
(* Searches.                                                               *)

\* If one of the summaries fits the least budget, the first chosen fits.
LEMMA FirstLevelFits ==
  ASSUME budget \in Int, NEW size \in Nat, NEW levels \in Seq(Nat),
         NEW i \in 1 .. Len(levels), 27 + size + levels[i] <= 256
  PROVE  /\ FirstLevel(size, levels) \in 1 .. Len(levels)
         /\ Ceil4(27 + size + levels[FirstLevel(size, levels)]) <= TokenLimit
<1> DEFINE fit == {j \in DOMAIN levels : Ceil4(27 + size + levels[j]) <= TokenLimit}
<1>1. TokenLimit \in Int /\ 64 <= TokenLimit
  BY LimitFacts
<1>2. levels[i] \in Nat
  OBVIOUS
<1>3. Ceil4(27 + size + levels[i]) <= TokenLimit
  <2> HIDE DEF fit
  <2>1. 27 + size + levels[i] \in Int
    BY <1>2
  <2> DEFINE n == 27 + size + levels[i]
  <2>2. n \in Int /\ n <= 256
    BY <2>1
  <2> HIDE DEF n
  <2>3. (n + 3) \div 4 <= 64
    BY <2>2
  <2>4. Ceil4(n) <= TokenLimit
    BY <2>2, <2>3, <1>1 DEF Ceil4
  <2> QED BY <2>4 DEF n
<1>4. i \in fit
  BY <1>3
<1>5. fit \subseteq Nat /\ fit \subseteq 1 .. Len(levels)
  OBVIOUS
<1>6. \A j \in fit : Ceil4(27 + size + levels[j]) <= TokenLimit
  OBVIOUS
<1>7. FirstLevel(size, levels) = IF fit = {} THEN Len(levels) ELSE CHOOSE j \in fit : \A k \in fit : j <= k
  BY DEF FirstLevel
<1> HIDE DEF fit
<1>8. PICK j \in fit : \A k \in fit : j <= k
  BY <1>4, <1>5, LeastOfNumbers
<1>9. FirstLevel(size, levels) \in fit
  BY <1>4, <1>7, <1>8
<1> QED BY <1>5, <1>6, <1>9

LEMMA VariantsTyped == ASSUME NEW item \in Items, NEW v \in 1 .. 3 PROVE Variants(item)[v] \in Items
<1>1. [item EXCEPT !.tags = 0] \in Items
  BY DEF Items
<1>2. [item EXCEPT !.tags = 0, !.signals = 0] \in Items
  BY DEF Items
<1>3. v = 1 \/ v = 2 \/ v = 3
  OBVIOUS
<1> QED BY <1>1, <1>2, <1>3 DEF Variants

LEMMA PlaceTyped ==
  ASSUME FitTypes, left # <<>>, NEW item \in Items, NEW lev \in 1 .. Len(gens), Place(item, lev),
         UNCHANGED <<stage, budget, meta, payload, gens, pack>>, SearchFits(Append(results, item), lev)
  PROVE  FitTypes' /\ SearchFits(results, level)'
<1>1. results' = Append(results, item) /\ level' = lev /\ left' = Tail(left)
  BY DEF Place
<1>2. left' \in Seq(Items) /\ results' \in Seq(Items)
  BY <1>1 DEF FitTypes
<1>3. MetaSize' = MetaSize /\ TokenLimit' = TokenLimit
  BY DEF MetaSize, TokenLimit
<1>4. SearchFits(results, level)'
  BY <1>1, <1>3 DEF SearchFits, SearchSize
<1>5. FitTypes'
  BY <1>1, <1>2 DEF FitTypes
<1> QED BY <1>4, <1>5

LEMMA FitWholeKeeps == ASSUME FitInv, FitWhole PROVE FitInv'
<1> DEFINE item == Head(left)
<1>1. PICK way \in WholeWays(item) :
        Place(Variants(item)[way[1]], way[2]) /\ UNCHANGED <<stage, budget, meta, payload, gens, pack>>
  BY DEF FitWhole
<1>2. stage \in {"search", "again"} /\ left # <<>> /\ FitTypes
  BY DEF FitWhole, FitInv
<1>3. item \in Items
  BY <1>2 DEF FitTypes
<1>4. /\ way[1] \in 1 .. 3 /\ way[2] \in level .. Len(gens)
      /\ SearchFits(Append(results, Variants(item)[way[1]]), way[2])
  BY DEF WholeWays
<1>5. way[2] \in 1 .. Len(gens)
  BY <1>2, <1>4 DEF FitTypes
<1>6. Variants(item)[way[1]] \in Items
  BY <1>3, <1>4, VariantsTyped
<1>7. FitTypes' /\ SearchFits(results, level)'
  BY <1>1, <1>2, <1>4, <1>5, <1>6, PlaceTyped
<1> QED BY <1>1, <1>2, <1>7 DEF FitInv

LEMMA FitCutKeeps == ASSUME FitInv, FitCut PROVE FitInv'
<1> DEFINE item == Variants(Head(left))[3]
           fitting(lev) == {n \in 0 .. item.body : SearchFits(Append(results, Truncated(item, n)), lev)}
<1>1. PICK lev \in CutWays(Head(left)) :
        /\ Place(Fitted(item, fitting(lev))[1], lev)
        /\ UNCHANGED <<stage, budget, meta, payload, gens, pack>>
  BY DEF FitCut
<1>2. stage \in {"search", "again"} /\ left # <<>> /\ FitTypes
  BY DEF FitCut, FitInv
<1>3. Head(left) \in Items
  BY <1>2 DEF FitTypes
<1>4. item \in Items
  BY <1>3, VariantsTyped
<1>5. item.body = Head(left).body
  BY <1>3 DEF Variants, Items
<1>6. lev \in 1 .. Len(gens) /\ Fitted(item, fitting(lev)) # <<>>
  <2> DEFINE ways == {n \in 0 .. Head(left).body : SearchFits(Append(results, Truncated(item, n)), lev)}
  <2>1. lev \in level .. Len(gens) /\ Fitted(item, ways) # <<>>
    BY DEF CutWays
  <2>2. ways = fitting(lev)
    <3> HIDE DEF item
    <3> QED BY <1>5
  <2>3. level \in 1 .. Len(gens)
    BY <1>2 DEF FitTypes
  <2> HIDE DEF ways, fitting, item
  <2> QED BY <2>1, <2>2, <2>3
<1>7. PICK n \in fitting(lev) :
        Truncated(item, n) \in Items /\ Fitted(item, fitting(lev)) = <<Truncated(item, n)>>
  <2>1. fitting(lev) \in SUBSET (0 .. item.body)
    OBVIOUS
  <2> HIDE DEF fitting, item
  <2> QED BY <1>4, <1>6, <2>1, FittedFits
<1>8. SearchFits(Append(results, Truncated(item, n)), lev)
  OBVIOUS
<1> HIDE DEF fitting, item
<1>9. Place(Truncated(item, n), lev)
  BY <1>1, <1>7
<1>10. FitTypes' /\ SearchFits(results, level)'
  BY <1>1, <1>2, <1>6, <1>7, <1>8, <1>9, PlaceTyped
<1> QED BY <1>1, <1>2, <1>10 DEF FitInv

LEMMA InitFitEstablishes == InitFit => FitInv
<1> SUFFICES ASSUME InitFit PROVE FitInv
  OBVIOUS
<1>1. /\ budget \in Int /\ meta \in Metas /\ payload \in Payloads /\ left \in Seq(Items)
      /\ stage = "search" /\ results = <<>> /\ gens = meta.gens /\ level = FirstLevel(meta.inner, gens)
  BY BudgetsAssumption, ResponsesAssumption DEF InitFit
<1>2. meta.inner \in Nat /\ gens \in Seq(Nat) /\ Len(gens) \in 1 .. Len(gens)
        /\ 27 + meta.inner + gens[Len(gens)] <= 256
  BY <1>1, MetasAssumption
<1>3. level \in 1 .. Len(gens) /\ Ceil4(27 + meta.inner + gens[level]) <= TokenLimit
  BY <1>1, <1>2, FirstLevelFits
<1>4. results \in Seq(Items)
  BY <1>1
<1>5. ItemsSize(results) = 0
  BY <1>1, <1>4, ItemsSizeTyped
<1>6. SearchSize(results, level) = 27 + meta.inner + gens[level]
  BY <1>1, <1>2, <1>3, <1>5 DEF SearchSize, MetaSize
<1>7. SearchFits(results, level)
  BY <1>3, <1>6 DEF SearchFits
<1> QED BY <1>1, <1>2, <1>3, <1>4, <1>7 DEF FitInv, FitTypes

LEMMA FitAgainKeeps == ASSUME FitInv, FitAgain PROVE FitInv'
<1>1. /\ stage = "search" /\ stage' = "again" /\ left' = results /\ results' = <<>> /\ gens' = Regained
      /\ level' = FirstLevel(meta.outer, Regained)
      /\ UNCHANGED <<budget, meta, payload, pack>>
  BY DEF FitAgain
<1>2. FitTypes /\ gens = meta.gens
  BY <1>1 DEF FitInv, FitTypes
<1>3. /\ meta.outer \in Nat /\ gens \in Seq(Nat) /\ gens # <<>>
      /\ 27 + meta.outer + gens[Len(gens)] <= 256
  BY <1>2, MetasAssumption DEF FitTypes
<1>4. Regained \in Seq(Nat) /\ \E i \in 1 .. Len(Regained) : Regained[i] = gens[Len(gens)]
  <2>1. level \in 1 .. Len(gens)
    BY <1>2 DEF FitTypes
  <2>4. gens[Len(gens)] \in Nat
    BY <1>3
  <2>2. CASE Len(gens) > 1 /\ level = Len(gens)
    <3>1. Regained = <<gens[level], gens[level] + 19>>
      BY <2>2 DEF Regained
    <3>2. 1 \in 1 .. Len(Regained) /\ Regained[1] = gens[Len(gens)]
      BY <2>2, <3>1
    <3> QED BY <3>1, <3>2, <2>4, <2>2
  <2>3. CASE ~ (Len(gens) > 1 /\ level = Len(gens))
    <3>1. Regained = SubSeq(gens, level, Len(gens))
      BY <2>3 DEF Regained
    <3>2. Regained \in Seq(Nat) /\ Len(Regained) = Len(gens) - level + 1
      BY <3>1, <2>1, <1>3, <2>4
    <3>3. Regained[Len(gens) - level + 1] = gens[Len(gens)]
      BY <3>1, <2>1, <1>3
    <3> QED BY <3>2, <3>3, <2>1
  <2> QED BY <2>2, <2>3
<1>5. PICK i \in 1 .. Len(Regained) : 27 + meta.outer + Regained[i] <= 256
  BY <1>3, <1>4
<1>6. level' \in 1 .. Len(gens') /\ Ceil4(27 + meta.outer + gens'[level']) <= TokenLimit
  BY <1>1, <1>2, <1>3, <1>4, <1>5, FirstLevelFits DEF FitTypes
<1>7. <<>> \in Seq(Items)
  OBVIOUS
<1>8. ItemsSize(<<>>) = 0
  BY <1>7, ItemsSizeTyped
<1>9. SearchFits(results, level)'
  <2>1. TokenLimit' = TokenLimit /\ MetaSize' = meta.outer
    BY <1>1 DEF TokenLimit, MetaSize
  <2>2. SearchSize(results, level)' = 27 + meta.outer + gens'[level']
    BY <1>1, <1>3, <1>8, <2>1 DEF SearchSize
  <2> QED BY <1>6, <2>1, <2>2 DEF SearchFits
<1>10. FitTypes'
  BY <1>1, <1>2, <1>4, <1>6, <1>7 DEF FitTypes
<1> QED BY <1>1, <1>9, <1>10 DEF FitInv

-----------------------------------------------------------------------------
(* Measuring.                                                              *)

LEMMA Ceil4Facts ==
  ASSUME NEW n \in Int
  PROVE  Ceil4(n) \in Int /\ n <= 4 * Ceil4(n) /\ 4 * Ceil4(n) <= n + 3
BY DEF Ceil4

LEMMA Ceil4Grows == ASSUME NEW m \in Int, NEW n \in Int, m <= n PROVE Ceil4(m) <= Ceil4(n)
<1>1. /\ Ceil4(m) \in Int /\ 4 * Ceil4(m) <= m + 3
      /\ Ceil4(n) \in Int /\ n <= 4 * Ceil4(n)
  BY Ceil4Facts
<1> QED BY <1>1

\* What is measured where n was reported, c with all but the report's digits.
Again(c, n) == c + Digits(Ceil4(n)) + Digits(n)

LEMMA AgainTyped ==
  ASSUME NEW c \in Int, NEW n \in Int
  PROVE  Again(c, n) \in Int /\ c + 2 <= Again(c, n) /\ Again(c, n) <= c + 18
<1>1. Ceil4(n) \in Int
  BY Ceil4Facts
<1>2. Digits(n) \in 1 .. 9 /\ Digits(Ceil4(n)) \in 1 .. 9
  BY <1>1, DigitsGrow
<1> QED BY <1>2 DEF Again

LEMMA AgainGrows ==
  ASSUME NEW c \in Int, NEW m \in Int, NEW n \in Int, m <= n
  PROVE  Again(c, m) <= Again(c, n)
<1>1. Ceil4(m) \in Int /\ Ceil4(n) \in Int /\ Ceil4(m) <= Ceil4(n)
  BY Ceil4Facts, Ceil4Grows
<1>2. /\ Digits(m) \in 1 .. 9 /\ Digits(m) <= Digits(n) /\ Digits(n) \in 1 .. 9
      /\ Digits(Ceil4(m)) \in 1 .. 9 /\ Digits(Ceil4(m)) <= Digits(Ceil4(n)) /\ Digits(Ceil4(n)) \in 1 .. 9
  BY <1>1, DigitsGrow
<1> QED BY <1>2 DEF Again

\* Among sixteen numbers one of the two counts of digits grows, by one.
LEMMA DigitsNear ==
  ASSUME NEW m \in Int, NEW n \in Int, m <= n, n <= m + 16
  PROVE  Digits(Ceil4(n)) + Digits(n) <= Digits(Ceil4(m)) + Digits(m) + 1
<1> DEFINE a == Ceil4(m)  b == Ceil4(n)
<1>1. /\ a \in Int /\ m <= 4 * a /\ 4 * a <= m + 3
      /\ b \in Int /\ n <= 4 * b /\ 4 * b <= n + 3
  BY Ceil4Facts
<1> HIDE DEF a, b
<1>2. ASSUME NEW x \in Int, NEW y \in Int, x <= y, y <= x + 16
      PROVE  \/ Digits(y) = Digits(x)
             \/ Digits(y) = Digits(x) + 1 /\ \E d \in 1 .. 8 : x < Power[d] /\ Power[d] <= y
  <2>1. /\ Power[1] = 10 /\ Power[2] = 100 /\ Power[3] = 1000 /\ Power[4] = 10000 /\ Power[5] = 100000
        /\ Power[6] = 1000000 /\ Power[7] = 10000000 /\ Power[8] = 100000000
    BY DEF Power
  <2>2. CASE \A d \in 1 .. 8 : ~ (x < Power[d] /\ Power[d] <= y)
    <3>1. \A d \in {1, 2, 3, 4, 5, 6, 7, 8} : ~ (x < Power[d] /\ Power[d] <= y)
      BY <2>2
    <3> QED BY <1>2, <2>1, <3>1, DigitsAre
  <2>3. Digits(y) = Digits(x) \/ Digits(y) = Digits(x) + 1
    BY <1>2, DigitsAre
  <2> QED BY <2>2, <2>3
<1>3. a <= b /\ b <= a + 16
  BY <1>1
<1>4. ASSUME NEW d \in 1 .. 8, NEW e \in 1 .. 8, m < Power[d], Power[d] <= n, a < Power[e], Power[e] <= b
      PROVE  FALSE
  <2>1. d \in {1, 2, 3, 4, 5, 6, 7, 8} /\ e \in {1, 2, 3, 4, 5, 6, 7, 8}
    OBVIOUS
  <2> QED BY <1>1, <1>4, <2>1 DEF Power
<1>5. Digits(m) \in 1 .. 9 /\ Digits(n) \in 1 .. 9 /\ Digits(a) \in 1 .. 9 /\ Digits(b) \in 1 .. 9
  BY <1>1, DigitsGrow
<1>6. Digits(n) = Digits(m) \/ (Digits(n) = Digits(m) + 1 /\ \E d \in 1 .. 8 : m < Power[d] /\ Power[d] <= n)
  BY <1>2
<1>7. Digits(b) = Digits(a) \/ (Digits(b) = Digits(a) + 1 /\ \E d \in 1 .. 8 : a < Power[d] /\ Power[d] <= b)
  BY <1>1, <1>2, <1>3
<1>8. Digits(b) + Digits(n) <= Digits(a) + Digits(m) + 1
  BY <1>4, <1>5, <1>6, <1>7
<1> QED BY <1>8 DEF a, b

\* What is measured of near numbers is nearer.
LEMMA AgainNear ==
  ASSUME NEW c \in Int, NEW m \in Int, NEW n \in Int, m <= n, n <= m + 16
  PROVE  Again(c, n) <= Again(c, m) + 1
<1>1. Digits(Ceil4(n)) + Digits(n) <= Digits(Ceil4(m)) + Digits(m) + 1
  BY DigitsNear
<1>2. Ceil4(m) \in Int /\ Ceil4(n) \in Int
  BY Ceil4Facts
<1>3. Digits(m) \in 1 .. 9 /\ Digits(n) \in 1 .. 9 /\ Digits(Ceil4(m)) \in 1 .. 9 /\ Digits(Ceil4(n)) \in 1 .. 9
  BY <1>2, DigitsGrow
<1> QED BY <1>1, <1>3 DEF Again

\* The third measure is the last that changes anything.
LEMMA Converges ==
  ASSUME NEW c \in Int, NEW b, b[0] \in Int, \A i \in 1 .. 6 : b[i] = Again(c, b[i - 1])
  PROVE  /\ b[6] \in Int
         /\ b[6] = Again(c, b[6])
         /\ b[1] <= b[0] => b[6] <= b[1]
<1>1. /\ b[1] = Again(c, b[0]) /\ b[2] = Again(c, b[1]) /\ b[3] = Again(c, b[2]) /\ b[4] = Again(c, b[3])
      /\ b[5] = Again(c, b[4]) /\ b[6] = Again(c, b[5])
  OBVIOUS
<1> DEFINE W == {n \in Int : c + 2 <= n /\ n <= c + 18}
<1>2. \A n \in Int : Again(c, n) \in W
  BY AgainTyped
<1>3. \A m, n \in W : m <= n => Again(c, m) <= Again(c, n) /\ Again(c, n) <= Again(c, m) + 1
  BY AgainGrows, AgainNear
<1>4. \A n \in W : n \in Int
  OBVIOUS
<1>5. \A m \in Int : \A n \in Int : m <= n => Again(c, m) <= Again(c, n)
  BY AgainGrows
<1> HIDE DEF W
<1>6. b[1] \in W /\ b[2] \in W /\ b[3] \in W /\ b[4] \in W
  BY <1>1, <1>2, <1>4
<1>7. b[1] \in Int /\ b[2] \in Int /\ b[3] \in Int /\ b[4] \in Int
  BY <1>4, <1>6
<1>8. b[4] = b[3]
  <2>1. b[2] <= b[3] + 1 /\ b[3] <= b[2] + 1
    BY <1>1, <1>3, <1>6, <1>7
  <2>2. b[2] <= b[4] + 1 /\ b[4] <= b[2] + 1
    BY <1>1, <1>3, <1>6, <1>7
  <2>3. b[2] <= b[3] => b[3] <= b[4]
    BY <1>1, <1>3, <1>6
  <2>4. b[3] <= b[2] => b[4] <= b[3]
    BY <1>1, <1>3, <1>6
  <2>5. b[2] = b[3] => b[4] = b[3]
    BY <1>1
  <2> QED BY <2>1, <2>2, <2>3, <2>4, <2>5, <1>7
<1>9. b[6] = b[4] /\ b[6] = Again(c, b[6])
  <2>1. b[5] = b[4]
    BY <1>1, <1>8
  <2>2. b[6] = b[5]
    BY <1>1, <2>1
  <2> QED BY <1>1, <2>1, <2>2
<1>10. b[1] <= b[0] => b[4] <= b[1]
  <2>1. b[1] <= b[0] => b[2] <= b[1]
    BY <1>1, <1>5, <1>7
  <2>2. b[2] <= b[1] => b[3] <= b[2]
    BY <1>1, <1>5, <1>7
  <2> QED BY <2>1, <2>2, <1>7, <1>8
<1> QED BY <1>7, <1>9, <1>10

-----------------------------------------------------------------------------
(* Packs.                                                                  *)

\* A pack's size but for the digits of its report.
Rest(p, items) ==
  130 + Digits(TokenLimit) + p.project + p.task + p.dated + p.retrieval + p.warning + ItemsSize(items)

Alike(p, q) ==
  /\ p.project = q.project /\ p.task = q.task /\ p.dated = q.dated
  /\ p.retrieval = q.retrieval /\ p.warning = q.warning

Measurable == {p \in Fields : p.tokens = Ceil4(p.bytes)}

LEMMA FieldsTyped ==
  ASSUME NEW p \in Fields
  PROVE  /\ p.project \in Nat /\ p.task \in Nat /\ p.dated \in Nat /\ p.retrieval \in Nat
         /\ p.warning \in Nat /\ p.tokens \in Nat /\ p.bytes \in Nat
BY DEF Fields

LEMMA SizesAdd ==
  ASSUME NEW p, NEW items, p.project \in Nat, p.task \in Nat, p.dated \in Nat, p.retrieval \in Nat, p.warning \in Nat,
         ItemsSize(items) \in Nat, Digits(TokenLimit) \in Nat, Digits(p.tokens) \in Nat, Digits(p.bytes) \in Nat
  PROVE  /\ Rest(p, items) \in Nat /\ PackSize(p, items) = Rest(p, items) + Digits(p.tokens) + Digits(p.bytes)
         /\ FieldsSize(p) \in Nat
BY DEF Rest, PackSize, FieldsSize

LEMMA PackSizeTyped ==
  ASSUME budget \in Int, NEW p \in Fields, NEW items \in Seq(Items)
  PROVE  /\ Rest(p, items) \in Nat /\ PackSize(p, items) \in Nat /\ FieldsSize(p) \in Nat
         /\ p \in Measurable => PackSize(p, items) = Again(Rest(p, items), p.bytes)
<1>1. /\ p.project \in Nat /\ p.task \in Nat /\ p.dated \in Nat /\ p.retrieval \in Nat
      /\ p.warning \in Nat /\ p.tokens \in Nat /\ p.bytes \in Nat
  BY FieldsTyped
<1>2. Digits(TokenLimit) \in Nat /\ Digits(p.tokens) \in Nat /\ Digits(p.bytes) \in Nat
  <2>1. TokenLimit \in Int /\ p.tokens \in Int /\ p.bytes \in Int
    BY <1>1, LimitFacts
  <2>2. \A n \in Int : Digits(n) \in Nat
    BY DigitsGrow
  <2> QED BY <2>1, <2>2
<1>3. ItemsSize(items) \in Nat
  BY ItemsSizeTyped
<1>4. /\ Rest(p, items) \in Nat /\ PackSize(p, items) = Rest(p, items) + Digits(p.tokens) + Digits(p.bytes)
      /\ FieldsSize(p) \in Nat
  BY <1>1, <1>2, <1>3, SizesAdd
<1>5. PackSize(p, items) \in Nat
  BY <1>2, <1>4
<1>6. ASSUME p \in Measurable PROVE PackSize(p, items) = Again(Rest(p, items), p.bytes)
  <2>1. p.tokens = Ceil4(p.bytes)
    BY <1>6 DEF Measurable
  <2> QED BY <2>1, <1>4 DEF Again
<1> QED BY <1>4, <1>5, <1>6

LEMMA ReportedFacts ==
  ASSUME budget \in Int, NEW p \in Fields, NEW items \in Seq(Items)
  PROVE  /\ Reported(p, items) \in Measurable
         /\ Reported(p, items).bytes = PackSize(p, items)
         /\ Alike(Reported(p, items), p)
<1> DEFINE size == PackSize(p, items)
           r == [p EXCEPT !.bytes = size, !.tokens = Ceil4(size)]
<1>1. size \in Nat
  BY PackSizeTyped
<1>2. Reported(p, items) = r
  BY DEF Reported
<1> HIDE DEF size
<1>3. Ceil4(size) \in Nat
  BY <1>1 DEF Ceil4
<1>4. DOMAIN p = {"project", "task", "dated", "retrieval", "warning", "tokens", "bytes"}
  BY DEF Fields
<1>5. r \in Fields
  BY <1>1, <1>3 DEF Fields
<1>6. r.bytes = size /\ r.tokens = Ceil4(size)
  BY <1>4
<1>7. Alike(r, p)
  BY <1>4 DEF Alike
<1> HIDE DEF r
<1> QED BY <1>2, <1>5, <1>6, <1>7 DEF Measurable, size

\* A pack ends up reporting its own size, a smaller one if it reported more.
LEMMA MeasuredFacts ==
  ASSUME budget \in Int, NEW p \in Measurable, NEW items \in Seq(Items)
  PROVE  LET m == Measured(p, items)
         IN  /\ m \in Measurable /\ Alike(m, p) /\ Reports(m, items)
             /\ PackSize(p, items) <= p.bytes => m.bytes <= PackSize(p, items)
<1> DEFINE U == {q \in Measurable : Alike(q, p)}
           F == [n \in 1 .. 6 |-> [q \in U |-> Reported(q, items)]]
           Is(f) == f = [i \in 0 .. Attempts |-> IF i = 0 THEN p ELSE Reported(f[i - 1], items)]
           after == CHOOSE f : Is(f)
           c == Rest(p, items)
           b == [i \in 0 .. 6 |-> after[i].bytes]
<1>1. \A q \in U : q \in Fields /\ Reported(q, items) \in U /\ Reported(q, items).bytes = Again(c, q.bytes)
  <2> SUFFICES ASSUME NEW q \in U
               PROVE  q \in Fields /\ Reported(q, items) \in U /\ Reported(q, items).bytes = Again(c, q.bytes)
    OBVIOUS
  <2>1. q \in Fields /\ q \in Measurable /\ Alike(q, p)
    BY DEF Measurable
  <2>2. Reported(q, items) \in Measurable /\ Alike(Reported(q, items), q) /\ Reported(q, items).bytes = PackSize(q, items)
    BY <2>1, ReportedFacts
  <2>3. Alike(Reported(q, items), p)
    BY <2>1, <2>2 DEF Alike
  <2>4. Rest(q, items) = c
    BY <2>1 DEF Rest, Alike
  <2>5. PackSize(q, items) = Again(c, q.bytes)
    BY <2>1, <2>4, PackSizeTyped
  <2> QED BY <2>1, <2>2, <2>3, <2>5
<1>2. p \in U
  BY DEF Alike
<1>3. F \in [1 .. 6 -> [U -> U]]
  <2> HIDE DEF U
  <2> QED BY <1>1
<1>4. PICK f \in [0 .. 6 -> U] : Recurs(f, p, F, 6)
  <2> HIDE DEF F, U
  <2> QED BY <1>2, <1>3, RecursiveFunction
<1>5. ASSUME NEW k \in 0 .. 6 PROVE f[k] = IF k = 0 THEN p ELSE Reported(f[k - 1], items)
  <2>1. f[0] = p /\ \A n \in 1 .. 6 : f[n] = F[n][f[n - 1]]
    BY <1>4 DEF Recurs
  <2> HIDE DEF U
  <2>2. CASE k # 0
    <3>1. k \in 1 .. 6 /\ k - 1 \in 0 .. 6 /\ f[k - 1] \in U
      BY <2>2
    <3> QED BY <3>1, <2>1, <2>2
  <2> QED BY <2>1, <2>2
<1>6. Is(f)
  <2> HIDE DEF F, U
  <2> QED BY <1>5 DEF Attempts
<1>7. Is(after)
  <2> HIDE DEF Is
  <2> QED BY <1>6
<1>8. after[0] = p /\ \A i \in 1 .. 6 : after[i] = Reported(after[i - 1], items)
  <2> HIDE DEF after
  <2>1. \A i \in 0 .. 6 : after[i] = IF i = 0 THEN p ELSE Reported(after[i - 1], items)
    BY <1>7 DEF Attempts
  <2> QED BY <2>1
<1>9. Measured(p, items) = after[6]
  BY DEF Measured, Attempts
<1> HIDE DEF after, U, F, c
<1>10. /\ after[0] \in U /\ after[1] \in U /\ after[2] \in U /\ after[3] \in U
       /\ after[4] \in U /\ after[5] \in U /\ after[6] \in U
  <2>1. after[1] \in U BY <1>1, <1>2, <1>8
  <2>2. after[2] \in U BY <1>1, <1>8, <2>1
  <2>3. after[3] \in U BY <1>1, <1>8, <2>2
  <2>4. after[4] \in U BY <1>1, <1>8, <2>3
  <2>5. after[5] \in U BY <1>1, <1>8, <2>4
  <2>6. after[6] \in U BY <1>1, <1>8, <2>5
  <2> QED BY <1>2, <1>8, <2>1, <2>2, <2>3, <2>4, <2>5, <2>6
<1>11. \A i \in 1 .. 6 : b[i] = Again(c, b[i - 1])
  <2>1. \A i \in 0 .. 6 : after[i] \in U
    BY <1>10
  <2> QED BY <2>1, <1>1, <1>8
<1>12. c \in Int /\ b[0] = p.bytes /\ b[0] \in Int
  BY <1>8, PackSizeTyped, FieldsTyped DEF c, Measurable
<1> HIDE DEF b
<1>13. b[6] = Again(c, b[6]) /\ (b[1] <= b[0] => b[6] <= b[1])
  BY <1>11, <1>12, Converges
<1>14. after[6] \in Measurable /\ Alike(after[6], p) /\ after[6] \in Fields
  BY <1>10, <1>1 DEF U
<1>15. PackSize(after[6], items) = Again(c, after[6].bytes)
  <2>1. Rest(after[6], items) = c
    BY <1>14 DEF Rest, Alike, c
  <2> QED BY <2>1, <1>14, PackSizeTyped
<1>16. b[6] = after[6].bytes /\ b[1] = PackSize(p, items)
  <2>1. b[6] = after[6].bytes /\ b[1] = after[1].bytes
    BY DEF b
  <2>2. after[1].bytes = PackSize(p, items)
    BY <1>8, ReportedFacts DEF Measurable
  <2> QED BY <2>1, <2>2
<1>17. Reports(after[6], items)
  BY <1>13, <1>14, <1>15, <1>16 DEF Reports, Measurable
<1> QED BY <1>9, <1>12, <1>13, <1>14, <1>16, <1>17

\* Whatever is popped, nothing is if the pack is short, or has nothing in it.
LEMMA PoppedNone ==
  ASSUME budget \in Int, NEW p \in Measurable, NEW items \in Seq(Items),
         items = <<>> \/ Measured(p, items).tokens <= TokenLimit
  PROVE  Popped(p, items) = <<Measured(p, items), items>>
<1> DEFINE N == Len(items)
           Kept(k) == SubSeq(items, 1, N - k)
           F == [k \in 1 .. N |-> [q \in Measurable |-> Measured(q, Kept(k))]]
           Is(f) == f = [k \in 0 .. N |-> Measured(IF k = 0 THEN p ELSE f[k - 1], Kept(k))]
           after == CHOOSE f : Is(f)
           Ends(k) == after[k].tokens <= TokenLimit \/ k = N
           pops == CHOOSE k \in 0 .. N : Ends(k) /\ \A j \in 0 .. k - 1 : ~Ends(j)
<1>1. N \in Nat /\ Kept(0) = items /\ \A k \in 0 .. N : Kept(k) \in Seq(Items)
  OBVIOUS
<1> HIDE DEF Kept, N
<1>2. \A q \in Measurable : \A k \in 0 .. N : Measured(q, Kept(k)) \in Measurable
  BY <1>1, MeasuredFacts
<1>3. F \in [1 .. N -> [Measurable -> Measurable]]
  BY <1>1, <1>2
<1>4. Measured(p, Kept(0)) \in Measurable
  BY <1>1, <1>2
<1>5. PICK f \in [0 .. N -> Measurable] : Recurs(f, Measured(p, Kept(0)), F, N)
  <2> HIDE DEF F
  <2> QED BY <1>1, <1>3, <1>4, RecursiveFunction
<1>6. ASSUME NEW k \in 0 .. N PROVE f[k] = Measured(IF k = 0 THEN p ELSE f[k - 1], Kept(k))
  <2>1. f[0] = Measured(p, Kept(0)) /\ \A n \in 1 .. N : f[n] = F[n][f[n - 1]]
    BY <1>5 DEF Recurs
  <2>2. CASE k # 0
    <3>1. k \in 1 .. N /\ k - 1 \in 0 .. N /\ f[k - 1] \in Measurable
      BY <2>2, <1>1
    <3> QED BY <3>1, <2>1, <2>2
  <2> QED BY <2>1, <2>2
<1>7. Is(f)
  <2> HIDE DEF F
  <2> QED BY <1>6
<1>8. Is(after)
  <2> HIDE DEF Is
  <2> QED BY <1>7
<1>9. after[0] = Measured(p, items)
  <2> HIDE DEF after
  <2>1. 0 \in 0 .. N
    BY <1>1
  <2> QED BY <1>1, <1>8, <2>1
<1>10. Popped(p, items) = <<after[pops], Kept(pops)>>
  BY DEF Popped, Kept, N
<1> HIDE DEF after
<1>11. Ends(0)
  BY <1>9 DEF N
<1>12. pops = 0
  <2>1. 0 \in 0 .. N /\ \A j \in 0 .. 0 - 1 : ~Ends(j)
    BY <1>1
  <2>2. \A k \in 0 .. N : k # 0 => 0 \in 0 .. k - 1
    BY <1>1
  <2> HIDE DEF Ends
  <2> QED BY <1>11, <2>1, <2>2
<1> HIDE DEF pops
<1> QED BY <1>1, <1>9, <1>10, <1>12

\* What only the fields of a pack decide is the same while the budget is.
LEMMA BudgetStays ==
  ASSUME UNCHANGED <<budget, meta>>
  PROVE  /\ TokenLimit' = TokenLimit
         /\ PackFits(pack, results)' = PackFits(pack', results')
         /\ Reports(pack, results)' = Reports(pack', results')
         /\ TooLong(pack)' = TooLong(pack')
         /\ Trimmed(pack)' = Trimmed(pack')
         /\ Unmeasured(pack)' = Unmeasured(pack')
BY DEF TokenLimit, PackFits, PackSize, FieldsSize, Reports, TooLong, Trimmed, Unmeasured

\* Before the memories are added, the pack is trimmed as far as it need be.
LEMMA TrimFacts ==
  ASSUME budget \in Int, meta \in Metas, payload \in Payloads, NEW p \in Fields, Unmeasured(p)
  PROVE  LET q == Compacted(Undated(Shortened(p))) IN q \in Fields /\ Unmeasured(q) /\ Trimmed(q)
<1> DEFINE a == Shortened(p)  b == Undated(a)  q == Compacted(b)
<1>1. meta.compact \in Nat /\ payload.task \in Nat
  BY MetasAssumption, PayloadsAssumption
<1>2. Task(64) \in Nat /\ Task(24) \in Nat
  BY <1>1 DEF Task
<1>3. a \in Fields /\ Unmeasured(a)
  <2> DEFINE r == [p EXCEPT !.task = Task(64), !.warning = 51]
  <2>1. r \in Fields /\ r.tokens = p.tokens /\ r.bytes = p.bytes
    BY <1>2 DEF Fields
  <2>2. a = p \/ a = r
    BY DEF Shortened
  <2> HIDE DEF a, r
  <2> QED BY <2>1, <2>2 DEF Unmeasured
<1> HIDE DEF a
<1>4. b \in Fields /\ Unmeasured(b) /\ (TooLong(b) => b.dated = 0)
  <2> DEFINE r == [a EXCEPT !.task = Task(24), !.dated = 0]
  <2>1. r \in Fields /\ r.tokens = a.tokens /\ r.bytes = a.bytes /\ r.dated = 0
    BY <1>2, <1>3 DEF Fields
  <2>2. b = IF TooLong(a) THEN r ELSE a
    BY DEF Undated
  <2> HIDE DEF b, r
  <2> QED BY <1>3, <2>1, <2>2 DEF Unmeasured
<1> HIDE DEF b
<1>5. q \in Fields /\ Unmeasured(q) /\ Trimmed(q)
  <2> DEFINE r == [b EXCEPT !.retrieval = 13 + meta.compact]
  <2>1. r \in Fields /\ r.tokens = b.tokens /\ r.bytes = b.bytes /\ r.dated = b.dated /\ r.retrieval = 13 + meta.compact
    BY <1>1, <1>4 DEF Fields
  <2>2. q = IF TooLong(b) /\ b.retrieval > 0 THEN r ELSE b
    BY DEF Compacted
  <2>3. b.retrieval \in Nat
    BY <1>4 DEF Fields
  <2> HIDE DEF q, r
  <2> QED BY <1>4, <2>1, <2>2, <2>3 DEF Unmeasured, Trimmed
<1> QED BY <1>5 DEF b, a

LEMMA BeginPackKeeps == ASSUME FitInv, BeginPack PROVE FitInv'
<1> DEFINE p == [project |-> payload.project, task |-> Task(512), dated |-> payload.dated,
                 retrieval |-> IF meta.cited THEN 13 + MetaSize + gens[level] ELSE 0,
                 warning |-> 96, tokens |-> 32000, bytes |-> 128000]
<1>1. /\ pack' = Compacted(Undated(Shortened(p)))
      /\ stage' = "pack" /\ left' = results /\ results' = <<>>
      /\ UNCHANGED <<budget, meta, payload, gens, level>>
  BY DEF BeginPack
<1>2. FitTypes
  BY DEF FitInv
<1>3. /\ MetaSize \in Nat /\ payload.project \in Nat /\ payload.task \in Nat /\ payload.dated \in Nat
      /\ gens[level] \in Nat
  <2>1. meta \in Metas /\ payload \in Payloads /\ gens \in Seq(Nat) /\ level \in 1 .. Len(gens)
    BY <1>2 DEF FitTypes
  <2>2. gens[level] \in Nat
    BY <2>1
  <2>3. MetaSize \in Nat
    <3>1. meta.inner \in Nat /\ meta.outer \in Nat
      BY <2>1, MetasAssumption
    <3> QED BY <3>1 DEF MetaSize
  <2>4. payload.project \in Nat /\ payload.task \in Nat /\ payload.dated \in Nat
    BY <2>1, PayloadsAssumption
  <2> QED BY <2>2, <2>3, <2>4
<1>4. p \in Fields /\ Unmeasured(p)
  <2>1. Task(512) \in Nat
    BY <1>3 DEF Task
  <2>2. p.retrieval \in Nat
    BY <1>3
  <2> QED BY <1>3, <2>1, <2>2 DEF Fields, Unmeasured
<1> HIDE DEF p
<1>5. pack' \in Fields /\ Unmeasured(pack') /\ Trimmed(pack')
  BY <1>1, <1>2, <1>4, TrimFacts DEF FitTypes
<1>6. <<>> \in Seq(Items)
  OBVIOUS
<1>7. FitTypes'
  BY <1>1, <1>2, <1>5, <1>6 DEF FitTypes
<1>8. PackFits(pack', results') \/ TooLong(pack')
  <2>1. ItemsSize(<<>>) = 0
    BY <1>6, ItemsSizeTyped
  <2>2. FieldsSize(pack') \in Nat
    BY <1>2, <1>5, <1>6, PackSizeTyped DEF FitTypes
  <2>3. PackSize(pack', results') = FieldsSize(pack')
    BY <1>1, <2>1, <2>2 DEF PackSize
  <2>4. Ceil4(FieldsSize(pack')) \in Int /\ TokenLimit \in Int
    BY <1>2, <2>2, LimitFacts, Ceil4Facts DEF FitTypes
  <2> QED BY <2>3, <2>4 DEF PackFits, TooLong
<1> QED BY <1>1, <1>5, <1>7, <1>8, BudgetStays DEF FitInv

LEMMA PackItemKeeps == ASSUME FitInv, PackItem PROVE FitInv'
<1> DEFINE item == Head(left)
           fitted == Fitted(item, PackLengths(item))
<1>1. /\ stage = "pack" /\ left # <<>>
      /\ UNCHANGED <<stage, budget, meta, payload, gens, level, pack>>
      /\ \/ left' = <<>> /\ UNCHANGED results
         \/ fitted # <<>> /\ left' = Tail(left) /\ results' = results \o fitted
  BY DEF PackItem
<1>2. /\ FitTypes /\ Unmeasured(pack) /\ Trimmed(pack)
      /\ PackFits(pack, results) \/ (TooLong(pack) /\ results = <<>>)
  BY <1>1 DEF FitInv
<1>3. item \in Items /\ left \in Seq(Items) /\ results \in Seq(Items)
  BY <1>1, <1>2 DEF FitTypes
<1>4. CASE left' = <<>> /\ UNCHANGED results
  <2>1. FitTypes'
    BY <1>1, <1>2, <1>4 DEF FitTypes
  <2> QED BY <1>1, <1>2, <1>4, <2>1, BudgetStays DEF FitInv
<1>5. CASE fitted # <<>> /\ left' = Tail(left) /\ results' = results \o fitted
  <2>1. PackLengths(item) \in SUBSET (0 .. item.body)
    BY DEF PackLengths
  <2>2. PICK n \in PackLengths(item) : Truncated(item, n) \in Items /\ fitted = <<Truncated(item, n)>>
    BY <1>3, <1>5, <2>1, FittedFits
  <2>3. PackFits(pack, Append(results, Truncated(item, n)))
    BY DEF PackLengths, PackFits
  <2> HIDE DEF item, fitted
  <2>4. results' = Append(results, Truncated(item, n)) /\ results' \in Seq(Items) /\ left' \in Seq(Items)
    BY <1>1, <1>3, <1>5, <2>2
  <2>5. FitTypes'
    BY <1>1, <1>2, <2>4 DEF FitTypes
  <2>6. PackFits(pack', results')
    BY <1>1, <2>3, <2>4
  <2> QED BY <1>1, <1>2, <2>5, <2>6, BudgetStays DEF FitInv
<1> QED BY <1>1, <1>4, <1>5

LEMMA FewFitSum ==
  ASSUME NEW limit \in Int, NEW c \in Int, NEW n \in Int, NEW t \in Int,
         NEW dl \in 1 .. 9, NEW dt \in 1 .. 9, NEW dn \in 1 .. 9,
         64 <= limit, limit < 100 => dl = 2, t < 100 => dt <= 2, n < 1000 => dn <= 3,
         c <= 249 + dl, n = c + dt + dn, 4 * t <= n + 3
  PROVE  t <= limit
<1>1. n <= 276 /\ t <= 69
  OBVIOUS
<1> QED BY <1>1

\* What reports its own size fits, if all but the digits of the report are few.
LEMMA FewFit ==
  ASSUME budget \in Int, NEW p \in Measurable, NEW items \in Seq(Items), Reports(p, items),
         Rest(p, items) <= 249 + Digits(TokenLimit)
  PROVE  p.tokens <= TokenLimit
<1> DEFINE c == Rest(p, items)  n == p.bytes  t == p.tokens
<1>1. TokenLimit \in Int /\ TokenLimit >= 64
  BY LimitFacts
<1>2. p \in Fields /\ t = Ceil4(n) /\ t \in Int /\ n \in Int
  BY FieldsTyped DEF Measurable
<1>3. c \in Nat /\ n = c + Digits(t) + Digits(n)
  BY <1>2, PackSizeTyped DEF Reports, Again
<1>4. 4 * t <= n + 3
  BY <1>2, Ceil4Facts
<1> HIDE DEF c, n, t
<1>5. /\ Digits(TokenLimit) \in 1 .. 9 /\ Digits(t) \in 1 .. 9 /\ Digits(n) \in 1 .. 9
      /\ n < 1000 => Digits(n) <= 3
      /\ t < 100 => Digits(t) <= 2
      /\ TokenLimit < 100 => Digits(TokenLimit) = 2
  BY <1>1, <1>2, DigitsAre
<1>6. c <= 249 + Digits(TokenLimit)
  BY DEF c
<1>7. t <= TokenLimit
  <2> DEFINE dl == Digits(TokenLimit)  dt == Digits(t)  dn == Digits(n)
  <2>1. /\ dl \in 1 .. 9 /\ dt \in 1 .. 9 /\ dn \in 1 .. 9
        /\ TokenLimit < 100 => dl = 2
        /\ t < 100 => dt <= 2
        /\ n < 1000 => dn <= 3
        /\ c <= 249 + dl /\ n = c + dt + dn
    BY <1>3, <1>5, <1>6
  <2>2. c \in Int
    BY <1>3
  <2> HIDE DEF dl, dt, dn
  <2> QED BY <1>1, <1>2, <1>4, <2>1, <2>2, FewFitSum
<1> QED BY <1>7 DEF t

LEMMA SettleKeeps == ASSUME FitInv, Settle PROVE FitInv'
<1> DEFINE p == Popped(pack, results)[1]
           items == Popped(pack, results)[2]
           d == [p EXCEPT !.project = 0, !.task = 0, !.warning = 32]
           named == IF p.tokens > TokenLimit THEN Measured(d, items) ELSE p
           e == [named EXCEPT !.warning = 0]
<1>1. /\ stage = "pack" /\ stage' = "done" /\ results' = items
      /\ UNCHANGED <<budget, meta, payload, left, gens, level>>
      /\ pack' = IF named.tokens > TokenLimit /\ named.retrieval > 0 THEN Measured(e, items) ELSE named
  BY DEF Settle
<1>2. /\ FitTypes /\ Unmeasured(pack) /\ Trimmed(pack) /\ pack \in Fields /\ results \in Seq(Items)
      /\ PackFits(pack, results) \/ (TooLong(pack) /\ results = <<>>)
      /\ budget \in Int /\ meta \in Metas
  BY <1>1 DEF FitInv, FitTypes
<1>3. pack \in Measurable /\ TokenLimit \in Int /\ 64 <= TokenLimit /\ TokenLimit <= 32000
  BY <1>2, LimitFacts DEF Measurable, Unmeasured, Ceil4
<1> DEFINE m == Measured(pack, results)
<1>4. m \in Measurable /\ m \in Fields /\ Alike(m, pack) /\ Reports(m, results)
  BY <1>2, <1>3, MeasuredFacts DEF Measurable
<1>5. PackFits(pack, results) => m.tokens <= TokenLimit
  <2>1. PackSize(pack, results) \in Nat
    BY <1>2, PackSizeTyped
  <2>2. ASSUME PackFits(pack, results) PROVE PackSize(pack, results) <= pack.bytes
    <3> DEFINE n == PackSize(pack, results)
    <3>1. Ceil4(n) <= TokenLimit /\ pack.bytes = 128000
      BY <1>2, <2>2 DEF PackFits, Unmeasured
    <3>2. n \in Int /\ Ceil4(n) \in Int /\ n <= 4 * Ceil4(n)
      BY <2>1, Ceil4Facts
    <3> HIDE DEF n
    <3>3. n <= 128000
      BY <1>3, <3>1, <3>2
    <3> QED BY <3>1, <3>3 DEF n
  <2>3. ASSUME PackFits(pack, results) PROVE m.bytes <= PackSize(pack, results)
    BY <1>2, <1>3, <2>2, <2>3, MeasuredFacts
  <2>4. m.bytes \in Int /\ m.tokens = Ceil4(m.bytes) /\ m.tokens \in Int
    BY <1>4, FieldsTyped DEF Measurable
  <2> HIDE DEF m
  <2>5. ASSUME PackFits(pack, results) PROVE m.tokens <= Ceil4(PackSize(pack, results))
    BY <2>1, <2>3, <2>4, <2>5, Ceil4Grows
  <2>6. Ceil4(PackSize(pack, results)) \in Int
    BY <2>1, Ceil4Facts
  <2> QED BY <1>3, <2>4, <2>5, <2>6 DEF PackFits
<1>6. p = m /\ items = results
  BY <1>2, <1>3, <1>5, PoppedNone
<1> HIDE DEF m, p, items
<1>7. m.tokens > TokenLimit =>
        /\ results = <<>> /\ ItemsSize(results) = 0
        /\ m.dated = 0 /\ m.retrieval \in {0, 13 + meta.compact}
  BY <1>2, <1>3, <1>4, <1>5, ItemsSizeTyped, FieldsTyped DEF Trimmed, Alike
<1>8. /\ named \in Measurable /\ named \in Fields /\ Reports(named, results)
      /\ m.tokens > TokenLimit =>
           named.project = 0 /\ named.task = 0 /\ named.warning = 32
             /\ named.dated = m.dated /\ named.retrieval = m.retrieval
  <2>1. d \in Measurable /\ d.project = 0 /\ d.task = 0 /\ d.warning = 32 /\ d.dated = m.dated /\ d.retrieval = m.retrieval
    BY <1>4, <1>6 DEF Measurable, Fields
  <2> HIDE DEF d
  <2>2. LET q == Measured(d, results) IN q \in Measurable /\ q \in Fields /\ Alike(q, d) /\ Reports(q, results)
    BY <1>2, <2>1, MeasuredFacts DEF Measurable
  <2> QED BY <1>4, <1>6, <2>1, <2>2 DEF Alike
<1> HIDE DEF named
<1>9. named.tokens > TokenLimit => m.tokens > TokenLimit
  BY <1>3, <1>4, <1>6, <1>8, FieldsTyped DEF named
<1>10. ASSUME NEW q \in Measurable, Reports(q, results), q.tokens <= TokenLimit, pack' = q PROVE FitInv'
  <2>1. q \in Fields
    BY DEF Measurable
  <2>2. PackFits(q, results)
    BY <1>10 DEF PackFits, Reports
  <2>3. results' = results
    BY <1>1, <1>6
  <2>4. FitTypes'
    BY <1>1, <1>2, <1>10, <2>1, <2>3 DEF FitTypes
  <2>5. PackFits(pack', results') /\ Reports(pack', results')
    BY <1>10, <2>2, <2>3
  <2> QED BY <1>1, <2>4, <2>5, BudgetStays DEF FitInv
<1>11. CASE named.tokens <= TokenLimit
  <2>1. pack' = named
    BY <1>1, <1>3, <1>8, <1>11, FieldsTyped
  <2> QED BY <1>8, <1>10, <1>11, <2>1
<1>12. CASE ~ (named.tokens <= TokenLimit)
  <2>1. named.tokens > TokenLimit
    BY <1>3, <1>8, <1>12, FieldsTyped
  <2>2. /\ results = <<>> /\ ItemsSize(results) = 0 /\ named.project = 0 /\ named.task = 0 /\ named.warning = 32
        /\ named.dated = 0 /\ named.retrieval \in {0, 13 + meta.compact}
    BY <1>7, <1>8, <1>9, <2>1
  <2>3. meta.compact \in Nat /\ meta.compact <= 106
    BY <1>2, MetasAssumption
  <2>4. Digits(TokenLimit) \in 1 .. 9
    BY <1>3, DigitsGrow
  <2>5. named.retrieval # 0
    <3> SUFFICES ASSUME named.retrieval = 0 PROVE FALSE
      OBVIOUS
    <3>1. Rest(named, results) = 130 + Digits(TokenLimit) + 0 + 0 + 0 + 0 + 32 + 0
      BY <2>2 DEF Rest
    <3>2. Rest(named, results) <= 249 + Digits(TokenLimit)
      BY <2>4, <3>1
    <3> QED BY <1>2, <1>8, <1>12, <3>2, FewFit
  <2>6. named.retrieval = 13 + meta.compact /\ named.retrieval > 0
    BY <2>2, <2>3, <2>5
  <2>7. /\ e \in Measurable /\ e.project = 0 /\ e.task = 0 /\ e.warning = 0 /\ e.dated = 0
        /\ e.retrieval = 13 + meta.compact
    BY <1>8, <2>2, <2>6 DEF Measurable, Fields
  <2> HIDE DEF e
  <2>8. PICK q \in Measurable : q = Measured(e, results) /\ Alike(q, e) /\ Reports(q, results)
    BY <1>2, <2>7, MeasuredFacts
  <2>9. Rest(q, results) = 130 + Digits(TokenLimit) + 0 + 0 + 0 + (13 + meta.compact) + 0 + 0
    BY <2>2, <2>7, <2>8 DEF Rest, Alike
  <2>10. Rest(q, results) <= 249 + Digits(TokenLimit)
    BY <2>3, <2>4, <2>9
  <2>11. q.tokens <= TokenLimit
    BY <1>2, <2>8, <2>10, FewFit
  <2>12. pack' = q
    BY <1>1, <1>6, <2>1, <2>6, <2>8
  <2> QED BY <1>10, <2>8, <2>11, <2>12
<1> QED BY <1>11, <1>12

LEMMA FitStutterKeeps == ASSUME FitInv, UNCHANGED fitVars PROVE FitInv'
<1>1. UNCHANGED <<stage, budget, meta, payload, left, results, gens, level, pack>>
  BY DEF fitVars
<1>2. FitTypes'
  BY <1>1 DEF FitInv, FitTypes
<1>3. SearchFits(results, level)' = SearchFits(results, level)
  BY <1>1 DEF SearchFits, SearchSize, MetaSize, TokenLimit
<1> QED BY <1>1, <1>2, <1>3, BudgetStays DEF FitInv

-----------------------------------------------------------------------------
(* The budgets.                                                            *)

\* The fitted results and packs are as the invariant says.
THEOREM FitInvariance == SpecFit => []FitInv
<1>1. FitInv /\ [NextFit]_fitVars => FitInv'
  BY FitWholeKeeps, FitCutKeeps, FitAgainKeeps, BeginPackKeeps, PackItemKeeps, SettleKeeps, FitStutterKeeps
     DEF NextFit
<1> QED BY InitFitEstablishes, <1>1, PTL DEF SpecFit

\* No answer is longer than the budget: what is placed was measured, and when
\* nothing is placed, what the trims leave of a pack is short enough.
THEOREM AnswersFit == SpecFit => []WithinBudget
<1>1. FitInv => WithinBudget
  BY DEF FitInv, WithinBudget, SearchFits, PackFits
<1> QED BY FitInvariance, <1>1, PTL

\* A pack reports its own size: six measures are enough for the report's own
\* digits to settle; three would be.
THEOREM PacksReport == SpecFit => []ReportIsTrue
<1>1. FitInv => ReportIsTrue
  BY DEF FitInv, ReportIsTrue, Reports
<1> QED BY FitInvariance, <1>1, PTL

-----------------------------------------------------------------------------
(* The vectors.                                                            *)

\* Some of the memories at the head of the list, in its order.
PrefixOf(s, ids) ==
  /\ s \in Seq(Memories)
  /\ Len(s) \in 1..Len(ids)
  /\ \A i \in 1..Len(s) : s[i] = ids[i]

WorkerOK(w) ==
  /\ w.pc \in {"idle", "batch", "asked", "storing"}
  /\ w.pc # "idle" => w.ids \in Seq(Memories)
  /\ w.pc = "asked" => PrefixOf(w.texts, w.ids)
  /\ w.pc = "storing" => PrefixOf(w.vectors, w.ids)

IndexInv ==
  /\ TypeOK
  /\ \A p \in Processes : WorkerOK(worker[p])
  /\ \A m \in Memories : vector[m] \in {m, NoVector}

USE MemoriesAssumption, BatchSizeAssumption, LimitAssumption, MaxFaultsAssumption, NoVectorAssumption

\* A batch of a list is a prefix of it.
LEMMA BatchIsPrefix ==
  ASSUME NEW ids \in Seq(Memories), ids # <<>>
  PROVE  PrefixOf(SubSeq(ids, 1, Least(BatchSize, Len(ids))), ids)
<1> DEFINE n == Least(BatchSize, Len(ids))
<1>1. n \in 1..Len(ids)
  BY DEF Least
<1> HIDE DEF n
<1>2. SubSeq(ids, 1, n) \in Seq(Memories) /\ Len(SubSeq(ids, 1, n)) = n
  BY <1>1
<1>3. \A i \in 1..n : SubSeq(ids, 1, n)[i] = ids[i]
  BY <1>1
<1> QED
  BY <1>1, <1>2, <1>3 DEF PrefixOf, n

\* The vectors of an answer, put in order, are those of the texts.
LEMMA OrderRestored ==
  ASSUME NEW texts \in Seq(Memories), NEW reply \in Answers(texts)
  PROVE  InOrder(reply) = texts
<1>1. /\ DOMAIN reply = DOMAIN texts
      /\ {reply[j].index : j \in DOMAIN reply} = DOMAIN texts
      /\ \A j \in DOMAIN reply : reply[j].embedding = texts[reply[j].index]
  BY DEF Answers
<1>2. ASSUME NEW i \in DOMAIN texts PROVE InOrder(reply)[i] = texts[i]
  <2> DEFINE items == {reply[j] : j \in DOMAIN reply}
  <2>1. \E item \in items : item.index = i
    BY <1>1
  <2>2. \A item \in items : item.embedding = texts[item.index]
    BY <1>1
  <2>3. InOrder(reply)[i] = (CHOOSE item \in items : item.index = i).embedding
    BY <1>1 DEF InOrder
  <2> HIDE DEF items
  <2> QED
    BY <2>1, <2>2, <2>3
<1>3. /\ InOrder(reply) = [i \in DOMAIN texts |-> InOrder(reply)[i]]
      /\ texts = [i \in DOMAIN texts |-> texts[i]]
  <2>1. DOMAIN InOrder(reply) = DOMAIN texts
    BY <1>1 DEF InOrder
  <2> QED
    BY <2>1 DEF InOrder
<1> QED
  BY <1>2, <1>3

\* What a pass lists is a list of memories.
LEMMA ListIsTyped == ASSUME TypeOK PROVE Pending \subseteq Seq(Memories)
<1>1. Missing \subseteq Memories
  BY DEF Missing
<1>2. IsFiniteSet(Missing)
  BY <1>1, FS_Subset
<1>3. Cardinality(Missing) \in Nat
  BY <1>2, FS_CardinalityType
<1>4. Least(Limit, Cardinality(Missing)) \in Nat
  BY <1>3 DEF Least
<1>5. Pending \subseteq [1..Least(Limit, Cardinality(Missing)) -> Missing]
  BY DEF Pending, Oldest
<1> QED
  BY <1>1, <1>4, <1>5

\* A step of one process leaves the others at what they were.
LEMMA OthersStay ==
  ASSUME IndexInv, NEW p \in Processes, NEW w, WorkerOK(w), worker' = [worker EXCEPT ![p] = w]
  PROVE  (\A q \in Processes : WorkerOK(worker[q]))'
<1>1. ASSUME NEW q \in Processes PROVE WorkerOK(worker'[q])
  <2>1. DOMAIN worker = Processes /\ WorkerOK(worker[q])
    BY DEF IndexInv, TypeOK
  <2>2. worker'[q] = w \/ worker'[q] = worker[q]
    BY <2>1
  <2> QED
    BY <2>1, <2>2
<1> QED
  BY <1>1

LEMMA InitIndexEstablishes == Init => IndexInv
BY DEF Init, IndexInv, TypeOK, WorkerOK, Idle

\* Every step keeps the invariant.
LEMMA IndexKeeps == IndexInv /\ [Next]_vars => IndexInv'
<1> SUFFICES ASSUME IndexInv, [Next]_vars PROVE IndexInv'
  OBVIOUS
<1> USE DEF IndexInv, Becomes
<1>1. CASE UNCHANGED vars
  BY <1>1 DEF vars, TypeOK, WorkerOK, PrefixOf
<1>2. ASSUME NEW p \in Processes, NEW m \in Memories, Approve(p, m) PROVE IndexInv'
  <2>1. <<m>> \in Seq(Memories)
    OBVIOUS
  <2>2. TypeOK'
    BY <1>2 DEF Approve, Stamped, TypeOK
  <2>3. WorkerOK(Idle) /\ WorkerOK(Batch(<<m>>))
    BY <2>1 DEF WorkerOK, Idle, Batch
  <2>4. (\A q \in Processes : WorkerOK(worker[q]))'
    BY <1>2, <2>3, OthersStay DEF Approve
  <2> QED
    BY <1>2, <2>2, <2>4 DEF Approve
<1>3. ASSUME NEW p \in Processes, List(p) PROVE IndexInv'
  <2>1. PICK ids \in Pending : Becomes(p, Batch(ids))
    BY <1>3 DEF List
  <2>2. ids \in Seq(Memories)
    BY ListIsTyped, <2>1
  <2>3. TypeOK'
    BY <1>3, <2>1 DEF List, TypeOK
  <2>4. WorkerOK(Batch(ids))
    BY <2>2 DEF WorkerOK, Batch
  <2>5. (\A q \in Processes : WorkerOK(worker[q]))'
    BY <2>1, <2>4, OthersStay
  <2> QED
    BY <1>3, <2>3, <2>5 DEF List
<1>4. ASSUME NEW p \in Processes, Read(p) PROVE IndexInv'
  <2> DEFINE ids == worker[p].ids
             texts == SubSeq(ids, 1, Least(BatchSize, Len(ids)))
  <2>1. ids \in Seq(Memories)
    BY <1>4 DEF Read, WorkerOK
  <2>2. \/ ids # <<>> /\ worker' = [worker EXCEPT ![p] = Asked(ids, texts)]
        \/ worker' = [worker EXCEPT ![p] = Idle]
    BY <1>4 DEF Read
  <2>3. ids # <<>> => PrefixOf(texts, ids)
    BY <2>1, BatchIsPrefix
  <2> HIDE DEF ids, texts
  <2>4. TypeOK'
    BY <1>4, <2>2 DEF Read, TypeOK
  <2>5. WorkerOK(Idle) /\ (ids # <<>> => WorkerOK(Asked(ids, texts)))
    BY <2>1, <2>3 DEF WorkerOK, Idle, Asked
  <2>6. (\A q \in Processes : WorkerOK(worker[q]))'
    BY <2>2, <2>5, OthersStay
  <2> QED
    BY <1>4, <2>4, <2>6 DEF Read
<1>5. ASSUME NEW p \in Processes, Receive(p) PROVE IndexInv'
  <2>1. PICK reply \in Answers(worker[p].texts) :
          Becomes(p, Storing(worker[p].ids, InOrder(reply)))
    BY <1>5 DEF Receive
  <2>2. PrefixOf(worker[p].texts, worker[p].ids) /\ worker[p].ids \in Seq(Memories)
    BY <1>5 DEF Receive, WorkerOK
  <2>3. InOrder(reply) = worker[p].texts
    BY <2>1, <2>2, OrderRestored DEF PrefixOf
  <2>4. TypeOK'
    BY <1>5, <2>1 DEF Receive, TypeOK
  <2>5. WorkerOK(Storing(worker[p].ids, InOrder(reply)))
    BY <2>2, <2>3 DEF WorkerOK, Storing
  <2>6. (\A q \in Processes : WorkerOK(worker[q]))'
    BY <2>1, <2>5, OthersStay
  <2> QED
    BY <1>5, <2>4, <2>6 DEF Receive
<1>6. ASSUME NEW p \in Processes, Put(p) PROVE IndexInv'
  <2> DEFINE ids == worker[p].ids
             vectors == worker[p].vectors
  <2>1. ids \in Seq(Memories) /\ PrefixOf(vectors, ids)
    BY <1>6 DEF Put, WorkerOK
  <2>2. CASE Active(Head(ids))
    <3>1. vector' = [vector EXCEPT ![Head(ids)] = Head(vectors)]
      BY <1>6, <2>2 DEF Put
    <3>2. worker' = [worker EXCEPT ![p] = IF Len(vectors) > 1 THEN Storing(Tail(ids), Tail(vectors))
                                          ELSE Batch(Tail(ids))]
      BY <1>6, <2>2 DEF Put
    <3> HIDE DEF ids, vectors
    <3>3. Head(vectors) = Head(ids) /\ Head(ids) \in Memories
      BY <2>1 DEF PrefixOf
    <3>4. Tail(ids) \in Seq(Memories)
      BY <2>1 DEF PrefixOf
    <3>5. Len(vectors) > 1 => PrefixOf(Tail(vectors), Tail(ids))
      BY <2>1 DEF PrefixOf
    <3>6. TypeOK'
      BY <1>6, <3>1, <3>2, <3>3 DEF Put, TypeOK
    <3>7. (\A q \in Processes : WorkerOK(worker[q]))'
      <4>1. WorkerOK(Batch(Tail(ids)))
        BY <3>4 DEF WorkerOK, Batch
      <4>2. Len(vectors) > 1 => WorkerOK(Storing(Tail(ids), Tail(vectors)))
        BY <3>4, <3>5 DEF WorkerOK, Storing
      <4> QED
        BY <3>2, <4>1, <4>2, OthersStay
    <3>8. \A m \in Memories : vector'[m] \in {m, NoVector}
      BY <3>1, <3>3 DEF TypeOK
    <3> QED
      BY <3>6, <3>7, <3>8
  <2>3. CASE ~Active(Head(ids))
    <3>1. WorkerOK(Idle)
      BY DEF WorkerOK, Idle
    <3>2. (\A q \in Processes : WorkerOK(worker[q]))'
      BY <1>6, <2>3, <3>1, OthersStay DEF Put
    <3> QED
      BY <1>6, <2>3, <3>2 DEF Put, TypeOK
  <2> QED
    BY <2>2, <2>3
<1>7. ASSUME NEW p \in Processes, Fail(p) PROVE IndexInv'
  <2>1. TypeOK'
    BY <1>7 DEF Fail, TypeOK
  <2>2. WorkerOK(Idle)
    BY DEF WorkerOK, Idle
  <2>3. (\A q \in Processes : WorkerOK(worker[q]))'
    BY <1>7, <2>2, OthersStay DEF Fail
  <2> QED
    BY <1>7, <2>1, <2>3 DEF Fail
<1>8. ASSUME NEW m \in Memories, Forget(m) PROVE IndexInv'
  BY <1>8 DEF Forget, TypeOK, WorkerOK, PrefixOf
<1>9. ASSUME NEW m \in Memories, NEW n \in Memories, Correct(m, n) PROVE IndexInv'
  <2>1. TypeOK'
    BY <1>9 DEF Correct, Stamped, TypeOK
  <2> QED
    BY <1>9, <2>1 DEF Correct, WorkerOK, PrefixOf
<1> QED
  BY <1>1, <1>2, <1>3, <1>4, <1>5, <1>6, <1>7, <1>8, <1>9 DEF Next, Step

\* The strengthening holds of every reachable state.
THEOREM IndexInvariance == Spec => []IndexInv
BY InitIndexEstablishes, IndexKeeps, PTL DEF Spec

\* Every variable keeps its type.
THEOREM IndexIsTyped == Spec => []TypeOK
BY IndexInvariance, PTL DEF IndexInv

\* A memory is found by the vector of its own text.
THEOREM OwnText == Spec => []FoundByItsText
<1>1. IndexInv => FoundByItsText
  BY DEF IndexInv, FoundByItsText, Candidates
<1> QED
  BY IndexInvariance, <1>1, PTL
=============================================================================
