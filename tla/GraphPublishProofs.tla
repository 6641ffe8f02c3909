------------------------ MODULE GraphPublishProofs -------------------------
(***************************************************************************)
(* Any number of processes that build graphs of any number of projects:    *)
(* the generations of a project follow its HEAD, a reader of the past gets *)
(* the right one, and no evidence shows that should not.  And whatever a   *)
(* build reuses, what it publishes is what its commit holds, with edges    *)
(* that lead where they should.                                            *)
(***************************************************************************)
EXTENDS GraphPublish, SequenceTheorems, FiniteSetTheorems, WellFoundedInduction, TLAPS

-----------------------------------------------------------------------------
(* Generations.                                                            *)

USE FilesAssumption, TimesAssumption, TreeAssumption, BoundsAssumption

Columns == {"project", "commit", "status", "from", "to", "nodes", "edges", "evidence", "against", "at"}

\* A generation of the table.
RowOK(g) ==
    /\ DOMAIN gens[g] = Columns
    /\ gens[g].project \in Projects /\ gens[g].commit \in Commits
    /\ gens[g].status \in {"active", "superseded"}
    /\ gens[g].evidence \subseteq {r \in Records : Citation[r].commit = gens[g].commit}
    /\ gens[g].at \in 0 .. moves
    /\ gens[g].from \in Nat /\ gens[g].to \in Nat

\* What a build has read, and knows when it is about to publish: the
\* generations up to the one it read are not of a later HEAD.
BuildOK(b) ==
    /\ b # Idle => b.project \in Projects /\ b.commit \in Commits
    /\ b.pc \in {"projection", "resolve", "publish"} => b.prior \in 0 .. Len(gens)
    /\ b.pc = "publish" =>
         /\ b.evidence \subseteq {r \in Records : Citation[r].commit = b.commit}
         /\ b.at \in 0 .. moves
         /\ \A h \in DOMAIN gens : h <= b.prior => gens[h].at <= b.at

\* Every generation has an active one of its project that is not before it.
HasActive == \A g \in DOMAIN gens : \E h \in DOMAIN gens :
    h >= g /\ gens[h].project = gens[g].project /\ gens[h].status = "active"

\* A window that ends does so where that of a later commit begins.
Windows == \A g \in DOMAIN gens : gens[g].to # 0 =>
    /\ gens[g].from < gens[g].to
    /\ \E h \in DOMAIN gens : gens[h].project = gens[g].project /\ gens[h].from = gens[g].to

\* The generations of commits made by a time, and the newest of these.
Made(p, t) == {g \in DOMAIN gens : gens[g].project = p /\ gens[g].from <= t}

HasNewest == \A p \in Projects : \A t \in Nat :
    Made(p, t) # {} => \E m \in Made(p, t) : \A h \in Made(p, t) : Newer(m, h)

\* What holds of the table alone.
Table == HasActive /\ Windows /\ HeadOrder /\ HasNewest

IInv ==
    /\ head \in [Projects -> Commits]
    /\ moves \in 0 .. MaxMoves
    /\ gens \in Seq({gens[g] : g \in DOMAIN gens}) /\ Len(gens) <= MaxGenerations
    /\ status \in [Records -> {"active", "forgotten"}]
    /\ DOMAIN build = Builders
    /\ \A g \in DOMAIN gens : RowOK(g)
    /\ \A who \in Builders : BuildOK(build[who])
    /\ Table

LEMMA TableStays == ASSUME Table, gens' = gens PROVE Table'
<1>1. HasActive' /\ Windows' /\ HeadOrder'
  BY DEF Table, HasActive, Windows, HeadOrder
<1>2. HasNewest'
  <2> SUFFICES ASSUME NEW p \in Projects, NEW t \in Nat, Made(p, t)' # {}
               PROVE  \E m \in Made(p, t)' : \A h \in Made(p, t)' : Newer(m, h)'
    BY DEF HasNewest
  <2>1. Made(p, t)' = Made(p, t)
    BY DEF Made
  <2>2. \A m, h : Newer(m, h) => Newer(m, h)'
    BY DEF Newer
  <2> QED
    BY <2>1, <2>2 DEF Table, HasNewest
<1> QED
  BY <1>1, <1>2 DEF Table

LEMMA GensFacts ==
    ASSUME IInv
    PROVE  Len(gens) \in Nat /\ DOMAIN gens = 1 .. Len(gens)
BY DEF IInv

\* A step of one build that leaves the generations alone.
LEMMA BuildsOn ==
    ASSUME IInv, NEW who \in Builders, NEW b, build' = [build EXCEPT ![who] = b], BuildOK(b),
           UNCHANGED <<head, moves, gens, status>>
    PROVE  IInv'
<1>1. DOMAIN build' = Builders /\ \A w \in Builders : build'[w] = IF w = who THEN b ELSE build[w]
  BY DEF IInv
<1>2. ASSUME NEW w \in Builders PROVE BuildOK(build[w])'
  <2>1. BuildOK(build'[w])
    BY <1>1 DEF IInv
  <2> QED
    BY <2>1 DEF BuildOK
<1> QED
  BY <1>1, <1>2, TableStays DEF IInv, RowOK, Columns

LEMMA IdleOK == ASSUME IInv PROVE BuildOK(Idle)
BY DEF BuildOK, Idle

LEMMA StartKeeps == ASSUME IInv, NEW who \in Builders, NEW p \in Projects, Start(who, p) PROVE IInv'
<1> DEFINE b == [pc |-> "generation", project |-> p, commit |-> head[p], seen |-> moves]
<1>1. BuildOK(b)
  BY DEF BuildOK, IInv
<1> HIDE DEF b
<1> QED
  BY <1>1, BuildsOn DEF Start, b

\* The active generation is one of the table, or none.
LEMMA ActiveFacts ==
    ASSUME IInv, NEW p \in Projects
    PROVE  /\ ActiveOf(p) \in 0 .. Len(gens)
           /\ ActiveOf(p) # 0 => ActiveOf(p) \in Active(p)
           /\ \A g \in DOMAIN gens : gens[g].project = p => g <= ActiveOf(p)
<1>1. Active(p) \subseteq DOMAIN gens /\ 0 \notin DOMAIN gens
  BY GensFacts DEF Active
<1>2. Active(p) # {} => ActiveOf(p) \in Active(p)
  BY DEF ActiveOf
<1>3. Active(p) = {} => ActiveOf(p) = 0
  BY DEF ActiveOf
<1>4. ASSUME NEW g \in DOMAIN gens, gens[g].project = p PROVE g <= ActiveOf(p)
  <2>1. PICK h \in DOMAIN gens : h >= g /\ gens[h].project = p /\ gens[h].status = "active"
    BY <1>4 DEF IInv, Table, HasActive
  <2>2. ActiveOf(p) \in Active(p)
    BY <1>2, <2>1 DEF Active
  <2> QED
    BY <1>4, <2>2, GensFacts DEF IInv, Table, HeadOrder, Active
<1> QED
  BY <1>1, <1>2, <1>3, <1>4, GensFacts

LEMMA ReadGenerationKeeps == ASSUME IInv, NEW who \in Builders, ReadGeneration(who) PROVE IInv'
<1> DEFINE b == build[who]
           g == ActiveOf(b.project)
           c == [pc |-> "projection", project |-> b.project, commit |-> b.commit, seen |-> b.seen,
                 prior |-> g,
                 sources |-> IF g = 0 THEN <<>> ELSE Tree[b.project][gens[g].commit]]
<1>1. b.pc = "generation" /\ b # Idle /\ b.project \in Projects /\ b.commit \in Commits
  BY DEF IInv, BuildOK, ReadGeneration, Idle
<1>2. g \in 0 .. Len(gens)
  BY <1>1, ActiveFacts
<1>3. BuildOK(c)
  BY <1>1, <1>2 DEF BuildOK
<1>4. build' = [build EXCEPT ![who] = c] /\ UNCHANGED <<head, moves, gens, status>>
  BY DEF ReadGeneration
<1> HIDE DEF c
<1> QED
  BY <1>3, <1>4, BuildsOn

LEMMA ReadProjectionKeeps == ASSUME IInv, NEW who \in Builders, ReadProjection(who) PROVE IInv'
<1> DEFINE b == build[who]
           c == [pc |-> "resolve", project |-> b.project, commit |-> b.commit, seen |-> b.seen,
                 prior |-> b.prior,
                 sources |-> b.sources,
                 nodes |-> IF b.prior = 0 THEN {} ELSE VisibleNodes(b.prior),
                 edges |-> IF b.prior = 0 \/ VisibleNodes(b.prior) = {} THEN {}
                           ELSE VisibleEdges(b.prior)]
<1>1. b.pc = "projection" /\ b # Idle /\ b.project \in Projects /\ b.commit \in Commits /\ b.prior \in 0 .. Len(gens)
  BY DEF IInv, BuildOK, ReadProjection, Idle
<1>2. BuildOK(c)
  BY <1>1 DEF BuildOK
<1>3. build' = [build EXCEPT ![who] = c] /\ UNCHANGED <<head, moves, gens, status>>
  BY DEF ReadProjection
<1> HIDE DEF c
<1> QED
  BY <1>2, <1>3, BuildsOn

\* HEAD is the build's commit now, and every generation is of an earlier time.
LEMMA ResolveKeeps == ASSUME IInv, NEW who \in Builders, Resolve(who) PROVE IInv'
<1> DEFINE b == build[who]
           gathered == GatheredNodes(b)
           nodes == KeptNodes(b, gathered)
           c == [pc |-> "publish", project |-> b.project, commit |-> b.commit, prior |-> b.prior,
                 nodes |-> nodes, edges |-> ResolvedEdges(b, gathered), evidence |-> Evidence(b, nodes),
                 against |-> UNION {Active(p) : p \in Projects \ {b.project}},
                 at |-> IF head[b.project] = b.commit THEN moves ELSE b.seen]
<1> HIDE DEF c
<1>4. b.pc = "resolve"
  BY DEF Resolve
<1>1. b.pc = "resolve" /\ b # Idle /\ b.project \in Projects /\ b.commit \in Commits /\ b.prior \in 0 .. Len(gens)
  BY <1>4 DEF IInv, BuildOK, Idle
<1>2. CASE HeadUnchanged(b)
  <2>1. c.at = moves
    BY <1>2 DEF HeadUnchanged, c
  <2>2. c.evidence \subseteq {r \in Records : Citation[r].commit = b.commit}
    BY DEF Evidence, c
  <2>3. \A h \in DOMAIN gens : gens[h].at <= moves
    BY DEF IInv, RowOK
  <2>4. c.pc = "publish" /\ c.project = b.project /\ c.commit = b.commit /\ c.prior = b.prior
    BY DEF c
  <2>5. build' = [build EXCEPT ![who] = c] /\ UNCHANGED <<head, moves, gens, status>>
    BY <1>2 DEF Resolve, c
  <2>6. BuildOK(c)
    BY <1>1, <2>1, <2>2, <2>3, <2>4 DEF BuildOK, IInv
  <2> QED
    BY <2>5, <2>6, BuildsOn
<1>3. CASE ~ HeadUnchanged(b)
  BY <1>3, IdleOK, BuildsOn DEF Resolve
<1> QED
  BY <1>2, <1>3

LEMMA EndKeeps == ASSUME IInv, NEW who \in Builders, Refuse(who) \/ Kill(who) PROVE IInv'
BY IdleOK, BuildsOn DEF Refuse, Kill

LEMMA MoveHeadKeeps ==
    ASSUME IInv, NEW p \in Projects, NEW c \in DOMAIN Tree[p], MoveHead(p, c)
    PROVE  IInv'
<1>1. /\ head' \in [Projects -> Commits] /\ moves' = moves + 1 /\ moves' \in 0 .. MaxMoves
      /\ UNCHANGED <<gens, status, build>>
  BY DEF IInv, MoveHead
<1>2. \A g \in DOMAIN gens : RowOK(g)'
  <2> SUFFICES ASSUME NEW g \in DOMAIN gens PROVE RowOK(g)'
    OBVIOUS
  <2>1. RowOK(g) /\ moves \in Nat
    BY DEF IInv
  <2>2. gens[g].at \in 0 .. moves'
    BY <1>1, <2>1 DEF RowOK
  <2> QED
    BY <1>1, <2>1, <2>2 DEF RowOK, Columns
<1>3. \A w \in Builders : BuildOK(build[w])'
  BY <1>1 DEF IInv, BuildOK
<1> QED
  BY <1>1, <1>2, <1>3, TableStays DEF IInv

LEMMA ForgetKeeps == ASSUME IInv, NEW r \in Records, Forget(r) PROVE IInv'
<1>1. status' \in [Records -> {"active", "forgotten"}] /\ UNCHANGED <<head, moves, gens, build>>
  BY DEF IInv, Forget
<1> QED
  BY <1>1, TableStays DEF IInv, RowOK, BuildOK

LEMMA StutterKeeps == ASSUME IInv, UNCHANGED vars PROVE IInv'
BY TableStays DEF vars, Columns, IInv, RowOK, BuildOK

LEMMA InitEstablishes == Init => IInv
<1>1. Init => gens = <<>> /\ DOMAIN gens = {} /\ Len(gens) = 0 /\ gens \in Seq({gens[g] : g \in DOMAIN gens})
  BY DEF Init
<1>2. Init => Table
  BY <1>1 DEF Table, HasActive, Windows, HeadOrder, HasNewest, Made
<1>3. Init => head \in [Projects -> Commits] /\ moves = 0 /\ status \in [Records -> {"active", "forgotten"}]
  BY DEF Init
<1>4. Init => DOMAIN build = Builders /\ \A who \in Builders : BuildOK(build[who])
  BY DEF Init, BuildOK, Idle
<1> QED
  BY <1>1, <1>2, <1>3, <1>4 DEF IInv
-----------------------------------------------------------------------------
(* The publication.                                                        *)

\* Any sequence is one over what it holds.
LEMMA OwnRange == ASSUME NEW S, NEW s \in Seq(S) PROVE s \in Seq({s[i] : i \in DOMAIN s})
<1>1. Len(s) \in Nat /\ DOMAIN s = 1 .. Len(s) /\ s \in [1 .. Len(s) -> S]
  OBVIOUS
<1> DEFINE R == {s[i] : i \in DOMAIN s}
<1>2. s \in [1 .. Len(s) -> R]
  BY <1>1
<1> HIDE DEF R
<1>3. s \in Seq(R)
  BY <1>1, <1>2
<1> QED
  BY <1>3 DEF R

\* What a publication makes of the table: a row more, and of the others only
\* that of the active generation changes, in its status and maybe its end.
Appended(b) ==
    /\ \A g \in DOMAIN gens' : DOMAIN gens'[g] = Columns
    /\ gens' \in Seq({gens'[g] : g \in DOMAIN gens'})
    /\ Len(gens') = Len(gens) + 1
    /\ gens'[Len(gens) + 1] = Published(b)
    /\ \A g \in DOMAIN gens :
         /\ gens'[g].project = gens[g].project /\ gens'[g].commit = gens[g].commit
         /\ gens'[g].evidence = gens[g].evidence /\ gens'[g].at = gens[g].at /\ gens'[g].from = gens[g].from
         /\ gens'[g].status = IF g \in Active(b.project) THEN "superseded" ELSE gens[g].status
         /\ gens'[g].to = gens[g].to \/ (gens'[g].to = CommitTime[b.commit] /\ gens[g].from < gens'[g].to
                                           /\ g \in Active(b.project))
         /\ gens'[g].nodes = gens[g].nodes /\ gens'[g].edges = gens[g].edges /\ gens'[g].against = gens[g].against

LEMMA RowKept ==
    ASSUME NEW g, NEW from, DOMAIN gens[g] = Columns
    PROVE  LET r == Superseded(g, from)
           IN  /\ r.project = gens[g].project /\ r.commit = gens[g].commit /\ r.status = "superseded"
               /\ r.evidence = gens[g].evidence /\ r.at = gens[g].at /\ r.from = gens[g].from
               /\ DOMAIN r = Columns
               /\ r.to = gens[g].to \/ (r.to = from /\ gens[g].from < from)
               /\ r.nodes = gens[g].nodes /\ r.edges = gens[g].edges /\ r.against = gens[g].against
BY DEF Superseded, Columns

LEMMA PublishAppends ==
    ASSUME IInv, NEW who \in Builders, Publish(who)
    PROVE  Appended(build[who]) /\ Len(gens') <= MaxGenerations
<1> DEFINE b == build[who]
           F == [g \in DOMAIN gens |->
                   IF g \in Active(b.project) THEN Superseded(g, CommitTime[b.commit]) ELSE gens[g]]
           S == {F[g] : g \in DOMAIN gens} \cup {Published(b)}
<1>1. gens' = Append(F, Published(b)) /\ Len(gens) < MaxGenerations
  BY DEF Publish
<1>2. Len(gens) \in Nat /\ DOMAIN gens = 1 .. Len(gens)
  BY GensFacts
<1>3. F \in [1 .. Len(gens) -> S] /\ Published(b) \in S
  BY <1>2
<1>4. \A g \in DOMAIN gens : F[g] = IF g \in Active(b.project) THEN Superseded(g, CommitTime[b.commit]) ELSE gens[g]
  OBVIOUS
<1>5. DOMAIN Published(b) = Columns
  BY DEF Published, Columns
<1> HIDE DEF F, S
<1>6. F \in Seq(S) /\ Len(F) = Len(gens)
  BY <1>2, <1>3
<1>7. /\ gens' \in Seq(S) /\ Len(gens') = Len(gens) + 1
      /\ gens'[Len(gens) + 1] = Published(b)
      /\ \A g \in 1 .. Len(gens) : gens'[g] = F[g]
      /\ DOMAIN gens' = 1 .. (Len(gens) + 1)
  BY <1>1, <1>2, <1>3, <1>6
<1>8. gens' \in Seq({gens'[g] : g \in DOMAIN gens'})
  BY <1>7, OwnRange
<1>9. ASSUME NEW g \in DOMAIN gens
      PROVE  /\ gens'[g].project = gens[g].project /\ gens'[g].commit = gens[g].commit
             /\ gens'[g].evidence = gens[g].evidence /\ gens'[g].at = gens[g].at /\ gens'[g].from = gens[g].from
             /\ gens'[g].status = IF g \in Active(b.project) THEN "superseded" ELSE gens[g].status
             /\ gens'[g].to = gens[g].to \/ (gens'[g].to = CommitTime[b.commit] /\ gens[g].from < gens'[g].to
                                               /\ g \in Active(b.project))
             /\ gens'[g].nodes = gens[g].nodes /\ gens'[g].edges = gens[g].edges /\ gens'[g].against = gens[g].against
             /\ DOMAIN gens'[g] = Columns
  <2>1. DOMAIN gens[g] = Columns
    BY DEF IInv, RowOK
  <2>2. CASE g \in Active(b.project)
    <3>1. gens'[g] = Superseded(g, CommitTime[b.commit])
      BY <1>2, <1>4, <1>7, <2>2
    <3> QED
      BY <2>1, <2>2, <3>1, RowKept
  <2>3. CASE g \notin Active(b.project)
    <3>1. gens'[g] = gens[g]
      BY <1>2, <1>4, <1>7, <2>3
    <3> QED
      BY <2>1, <2>3, <3>1
  <2> QED
    BY <2>2, <2>3
<1>10. \A g \in DOMAIN gens' : DOMAIN gens'[g] = Columns
  BY <1>2, <1>5, <1>7, <1>9
<1>11. \A g \in DOMAIN gens :
         /\ gens'[g].project = gens[g].project /\ gens'[g].commit = gens[g].commit
         /\ gens'[g].evidence = gens[g].evidence /\ gens'[g].at = gens[g].at /\ gens'[g].from = gens[g].from
         /\ gens'[g].status = IF g \in Active(b.project) THEN "superseded" ELSE gens[g].status
         /\ gens'[g].to = gens[g].to \/ (gens'[g].to = CommitTime[b.commit] /\ gens[g].from < gens'[g].to
                                           /\ g \in Active(b.project))
         /\ gens'[g].nodes = gens[g].nodes /\ gens'[g].edges = gens[g].edges /\ gens'[g].against = gens[g].against
  BY <1>9
<1>12. Len(gens') <= MaxGenerations
  BY <1>1, <1>2, <1>7
<1> HIDE DEF b
<1>13. Appended(b)
  BY <1>7, <1>8, <1>10, <1>11 DEF Appended
<1> QED
  BY <1>12, <1>13 DEF b

LEMMA PublishKeeps == ASSUME IInv, NEW who \in Builders, Publish(who) PROVE IInv'
<1> DEFINE b == build[who]
<1>0. PICK n : n = Len(gens) + 1
  OBVIOUS
<1>1. /\ b.pc = "publish" /\ b.prior = ActiveOf(b.project) /\ DOMAIN build = Builders
      /\ build' = [build EXCEPT ![who] = Idle] /\ UNCHANGED <<head, moves, status>>
  BY DEF Publish, PriorIsActive, IInv
<1>2. /\ b.project \in Projects /\ b.commit \in Commits /\ b.prior \in 0 .. Len(gens)
      /\ b.evidence \subseteq {r \in Records : Citation[r].commit = b.commit}
      /\ b.at \in 0 .. moves
      /\ \A h \in DOMAIN gens : h <= b.prior => gens[h].at <= b.at
  BY <1>1 DEF IInv, BuildOK, Idle
<1>3. Appended(b) /\ Len(gens') <= MaxGenerations
  BY PublishAppends
<1> HIDE DEF b
<1>4. /\ Len(gens) \in Nat /\ DOMAIN gens = 1 .. Len(gens) /\ DOMAIN gens' = 1 .. n
      /\ n \notin DOMAIN gens /\ DOMAIN gens' = DOMAIN gens \cup {n}
  BY <1>0, <1>3, GensFacts DEF Appended
<1>5. /\ gens'[n].project = b.project /\ gens'[n].commit = b.commit /\ gens'[n].status = "active"
      /\ gens'[n].from = CommitTime[b.commit] /\ gens'[n].to = 0 /\ gens'[n].evidence = b.evidence
      /\ gens'[n].at = b.at
  BY <1>0, <1>3 DEF Appended, Published
<1>6. CommitTime[b.commit] \in Nat \ {0}
  BY <1>2
<1>7. \A g \in DOMAIN gens :
         /\ gens'[g].project = gens[g].project /\ gens'[g].commit = gens[g].commit
         /\ gens'[g].evidence = gens[g].evidence /\ gens'[g].at = gens[g].at /\ gens'[g].from = gens[g].from
         /\ gens'[g].status = IF g \in Active(b.project) THEN "superseded" ELSE gens[g].status
         /\ gens'[g].to = gens[g].to \/ (gens'[g].to = CommitTime[b.commit] /\ gens[g].from < gens'[g].to
                                           /\ g \in Active(b.project))
         /\ gens'[g].nodes = gens[g].nodes /\ gens'[g].edges = gens[g].edges /\ gens'[g].against = gens[g].against
  BY <1>3 DEF Appended
<1>8. \A g \in DOMAIN gens' : DOMAIN gens'[g] = Columns
  BY <1>3 DEF Appended
<1>9. \A g \in DOMAIN gens' : RowOK(g)'
  <2>1. \A g \in DOMAIN gens : RowOK(g)
    BY DEF IInv
  <2>2. ASSUME NEW g \in DOMAIN gens PROVE RowOK(g)'
    <3>1. gens'[g].status \in {"active", "superseded"} /\ gens'[g].to \in Nat
      BY <1>6, <1>7, <2>1 DEF RowOK
    <3>2. g \in DOMAIN gens'
      BY <1>4
    <3>3. RowOK(g)
      BY <2>1
    <3>4. /\ gens'[g].project = gens[g].project /\ gens'[g].commit = gens[g].commit
          /\ gens'[g].evidence = gens[g].evidence /\ gens'[g].at = gens[g].at /\ gens'[g].from = gens[g].from
          /\ DOMAIN gens'[g] = Columns /\ moves' = moves
      BY <1>1, <1>7, <1>8, <3>2
    <3> QED
      BY <3>1, <3>3, <3>4 DEF RowOK, Columns
  <2>3. RowOK(n)'
    <3>1. DOMAIN gens'[n] = Columns /\ moves' = moves
      BY <1>1, <1>4, <1>8
    <3> QED
      BY <1>2, <1>5, <1>6, <3>1 DEF RowOK, Columns
  <2> QED
    BY <1>4, <2>2, <2>3
<1>10. \A w \in Builders : BuildOK(build[w])'
  <2>1. ASSUME NEW w \in Builders, w # who PROVE BuildOK(build[w])'
    <3>1. build'[w] = build[w] /\ BuildOK(build[w])
      BY <1>1, <2>1 DEF IInv
    <3> DEFINE c == build[w]
    <3>2. /\ c.pc \in {"projection", "resolve", "publish"} => c.prior \in 0 .. Len(gens')
      BY <1>0, <1>3, <1>4, <3>1 DEF BuildOK, Appended
    <3>3. ASSUME c.pc = "publish", NEW h \in DOMAIN gens', h <= c.prior PROVE gens'[h].at <= c.at
      <4>1. c.prior \in 0 .. Len(gens)
        BY <3>1, <3>3 DEF BuildOK
      <4>2. h \in DOMAIN gens
        BY <1>0, <1>4, <3>3, <4>1
      <4> QED
        BY <1>7, <3>1, <3>3, <4>2 DEF BuildOK
    <3> HIDE DEF c
    <3>4. BuildOK(c)
      BY <3>1 DEF c
    <3>5. build'[w] = c /\ moves' = moves
      BY <1>1, <3>1 DEF c
    <3> QED
      BY <3>2, <3>3, <3>4, <3>5 DEF BuildOK
  <2>2. build'[who] = Idle
    BY <1>1
  <2> QED
    BY <2>1, <2>2 DEF BuildOK, Idle
<1>11. \A g \in DOMAIN gens : gens[g].project = b.project => g <= b.prior
  BY <1>1, <1>2, ActiveFacts
<1>12. HeadOrder'
  <2>1. \A g, h \in DOMAIN gens : gens[g].project = gens[h].project =>
           (g <= h => gens[g].at <= gens[h].at) /\ (gens[g].status = "active" => h <= g)
    BY DEF IInv, Table, HeadOrder
  <2>2. ASSUME NEW g \in DOMAIN gens', NEW h \in DOMAIN gens', gens'[g].project = gens'[h].project, g <= h
        PROVE  gens'[g].at <= gens'[h].at
    <3>1. CASE g \in DOMAIN gens /\ h \in DOMAIN gens
      BY <1>7, <2>1, <2>2, <3>1
    <3>2. CASE g \in DOMAIN gens /\ h = n
      BY <1>2, <1>5, <1>7, <1>11, <2>2, <3>2
    <3>3. CASE g = n
      <4>1. h = n
        BY <1>0, <1>4, <2>2, <3>3
      <4> QED
        BY <1>2, <1>5, <3>3, <4>1
    <3> QED
      BY <1>4, <3>1, <3>2, <3>3
  <2>3. ASSUME NEW g \in DOMAIN gens', NEW h \in DOMAIN gens', gens'[g].project = gens'[h].project,
               gens'[g].status = "active"
        PROVE  h <= g
    <3>1. CASE g \in DOMAIN gens
      <4>1. gens[g].status = "active" /\ gens[g].project # b.project
        BY <1>7, <2>3, <3>1 DEF Active
      <4>2. h \in DOMAIN gens
        BY <1>4, <1>5, <1>7, <2>3, <3>1, <4>1
      <4> QED
        BY <1>7, <2>1, <2>3, <3>1, <4>1, <4>2
    <3>2. CASE g = n
      BY <1>0, <1>4, <3>2
    <3> QED
      BY <1>4, <3>1, <3>2
  <2> QED
    BY <2>2, <2>3 DEF HeadOrder
<1>13. HasActive'
  <2>1. ASSUME NEW g \in DOMAIN gens'
        PROVE  \E h \in DOMAIN gens' : h >= g /\ gens'[h].project = gens'[g].project /\ gens'[h].status = "active"
    <3>1. CASE gens'[g].project = b.project
      BY <1>0, <1>4, <1>5, <3>1
    <3>2. CASE gens'[g].project # b.project
      <4>1. g \in DOMAIN gens
        BY <1>4, <1>5, <3>2
      <4>2. PICK h \in DOMAIN gens : h >= g /\ gens[h].project = gens[g].project /\ gens[h].status = "active"
        BY <4>1 DEF IInv, Table, HasActive
      <4>3. h \notin Active(b.project)
        BY <1>7, <3>2, <4>1, <4>2 DEF Active
      <4> QED
        BY <1>4, <1>7, <4>1, <4>2, <4>3
    <3> QED
      BY <3>1, <3>2
  <2> QED
    BY <2>1 DEF HasActive
<1>14. Windows'
  <2>1. ASSUME NEW g \in DOMAIN gens', gens'[g].to # 0
        PROVE  /\ gens'[g].from < gens'[g].to
               /\ \E h \in DOMAIN gens' : gens'[h].project = gens'[g].project /\ gens'[h].from = gens'[g].to
    <3>1. g \in DOMAIN gens
      BY <1>4, <1>5, <2>1
    <3>2. CASE gens'[g].to = gens[g].to
      <4>1. /\ gens[g].from < gens[g].to
            /\ \E h \in DOMAIN gens : gens[h].project = gens[g].project /\ gens[h].from = gens[g].to
        BY <2>1, <3>1, <3>2 DEF IInv, Table, Windows
      <4> QED
        BY <1>4, <1>7, <3>1, <3>2, <4>1
    <3>3. CASE gens'[g].to = CommitTime[b.commit] /\ gens[g].from < gens'[g].to /\ g \in Active(b.project)
      BY <1>4, <1>5, <1>7, <3>1, <3>3 DEF Active
    <3> QED
      BY <1>7, <3>1, <3>2, <3>3
  <2> QED
    BY <2>1 DEF Windows
<1>15. /\ gens' \in Seq({gens'[g] : g \in DOMAIN gens'}) /\ Len(gens') <= MaxGenerations
       /\ head' \in [Projects -> Commits] /\ moves' \in 0 .. MaxMoves
       /\ status' \in [Records -> {"active", "forgotten"}] /\ DOMAIN build' = Builders
  BY <1>1, <1>3 DEF Appended, IInv
<1>16. HasNewest'
  <2>1. ASSUME NEW p \in Projects, NEW t \in Nat,
               NEW M, M = {g \in DOMAIN gens' : gens'[g].project = p /\ gens'[g].from <= t}, M # {}
        PROVE  \E m \in M : \A h \in M : gens'[m].from > gens'[h].from \/ (gens'[m].from = gens'[h].from /\ m >= h)
    <3>1. M = Made(p, t) \/ M = Made(p, t) \cup {n}
      BY <1>4, <1>7, <2>1 DEF Made
    <3>2. \A g \in Made(p, t) : g \in Nat /\ g < n /\ gens[g].from \in Nat /\ gens'[g].from = gens[g].from
      BY <1>0, <1>4, <1>7 DEF Made, IInv, RowOK
    <3>3. Made(p, t) # {} => \E m \in Made(p, t) : \A h \in Made(p, t) :
             gens[m].from > gens[h].from \/ (gens[m].from = gens[h].from /\ m >= h)
      BY DEF IInv, Table, HasNewest, Newer
    <3>4. n \in Nat /\ gens'[n].from \in Nat
      BY <1>0, <1>4, <1>5, <1>6
    <3>5. CASE Made(p, t) = {}
      <4>1. M = {n}
        BY <2>1, <3>1, <3>5
      <4> QED
        BY <3>4, <4>1
    <3>6. CASE Made(p, t) # {}
      <4>1. PICK m \in Made(p, t) : \A h \in Made(p, t) :
               gens[m].from > gens[h].from \/ (gens[m].from = gens[h].from /\ m >= h)
        BY <3>3, <3>6
      <4>2. CASE M = Made(p, t)
        BY <3>2, <4>1, <4>2
      <4>3. CASE M = Made(p, t) \cup {n} /\ gens'[n].from >= gens[m].from
        <5>1. \A h \in M : gens'[n].from > gens'[h].from \/ (gens'[n].from = gens'[h].from /\ n >= h)
          BY <3>2, <3>4, <4>1, <4>3
        <5> QED
          BY <4>3, <5>1
      <4>4. CASE M = Made(p, t) \cup {n} /\ gens'[n].from < gens[m].from
        <5>1. \A h \in M : gens'[m].from > gens'[h].from \/ (gens'[m].from = gens'[h].from /\ m >= h)
          BY <3>2, <3>4, <4>1, <4>4
        <5> QED
          BY <4>4, <5>1
      <4> QED
        BY <3>1, <3>2, <3>4, <4>2, <4>3, <4>4
    <3> QED
      BY <3>5, <3>6
  <2> SUFFICES ASSUME NEW p \in Projects, NEW t \in Nat, Made(p, t)' # {}
               PROVE  \E m \in Made(p, t)' : \A h \in Made(p, t)' : Newer(m, h)'
    BY DEF HasNewest
  <2>2. PICK M : M = {g \in DOMAIN gens' : gens'[g].project = p /\ gens'[g].from <= t}
    OBVIOUS
  <2>3. Made(p, t)' = M
    BY <2>2 DEF Made
  <2>4. \E m \in M : \A h \in M : gens'[m].from > gens'[h].from \/ (gens'[m].from = gens'[h].from /\ m >= h)
    BY <2>1, <2>2, <2>3
  <2> QED
    BY <2>3, <2>4 DEF Newer
<1> QED
  BY <1>9, <1>10, <1>12, <1>13, <1>14, <1>15, <1>16 DEF IInv, Table

LEMMA NextKeeps == IInv /\ [Next]_vars => IInv'
BY StartKeeps, ReadGenerationKeeps, ReadProjectionKeeps, ResolveKeeps, PublishKeeps, EndKeeps,
   MoveHeadKeeps, ForgetKeeps, StutterKeeps DEF Next

\* What is so of the table and of every build, at any time.
THEOREM Invariance == Spec => []IInv
BY InitEstablishes, NextKeeps, PTL DEF Spec

\* Every state has the shape of TypeOK.
THEOREM TypeCorrect == Spec => []TypeOK
<1>1. IInv => TypeOK
  <2> SUFFICES ASSUME IInv PROVE TypeOK
    OBVIOUS
  <2>1. \A g \in DOMAIN gens :
       /\ gens[g].project \in Projects /\ gens[g].commit \in Commits
       /\ gens[g].status \in {"active", "superseded"}
       /\ gens[g].evidence \subseteq Records
       /\ gens[g].at \in 0..moves
    BY DEF IInv, RowOK
  <2> QED
    BY <2>1 DEF IInv, TypeOK
<1> QED
  BY <1>1, Invariance, PTL

\* The generations of a project follow the order of its HEAD.
THEOREM InHeadOrder == Spec => []HeadOrder
<1>1. IInv => HeadOrder
  BY DEF IInv, Table
<1> QED
  BY <1>1, Invariance, PTL

\* The evidence that shows is current, and of the commit it is shown for.
THEOREM EvidenceIsCurrent == Spec => []EvidenceCurrent
<1>1. IInv => EvidenceCurrent
  <2> SUFFICES ASSUME IInv, NEW p \in Projects, NEW r \in ShownEvidence(p)
               PROVE  status[r] = "active" /\ Citation[r].commit = gens[ActiveOf(p)].commit
    BY DEF EvidenceCurrent
  <2>1. ActiveOf(p) # 0 /\ r \in gens[ActiveOf(p)].evidence /\ status[r] = "active"
    BY DEF ShownEvidence
  <2>2. ActiveOf(p) \in DOMAIN gens
    BY <2>1, ActiveFacts, GensFacts
  <2> QED
    BY <2>1, <2>2 DEF IInv, RowOK
<1> QED
  BY <1>1, Invariance, PTL

\* A reader of the past gets the last commit made by then.
THEOREM PastIsLatest == Spec => []AsOfLatest
<1>1. IInv => AsOfLatest
  <2> SUFFICES ASSUME IInv, NEW p \in Projects, NEW c \in Commits, Made(p, CommitTime[c]) # {}
               PROVE  /\ AsOf(p, CommitTime[c]) \in Made(p, CommitTime[c])
                      /\ \A h \in Made(p, CommitTime[c]) : Newer(AsOf(p, CommitTime[c]), h)
    BY DEF AsOfLatest, Made
  <2> DEFINE t == CommitTime[c]
  <2>1. t \in Nat
    OBVIOUS
  <2> HIDE DEF t
  <2>2. PICK m \in Made(p, t) : \A h \in Made(p, t) : Newer(m, h)
    BY <2>1 DEF IInv, Table, HasNewest, t
  <2>3. \A g \in DOMAIN gens : g \in Nat /\ gens[g].from \in Nat /\ gens[g].to \in Nat
    <3>1. \A g \in DOMAIN gens : gens[g].from \in Nat /\ gens[g].to \in Nat
      BY DEF IInv, RowOK
    <3> QED
      BY <3>1, GensFacts
  <2>4. m \in InWindow(p, t)
    <3>1. CASE gens[m].to = 0
      BY <2>2, <3>1 DEF InWindow, Made
    <3>2. CASE gens[m].to # 0
      <4>1. PICK h \in DOMAIN gens : gens[h].project = p /\ gens[h].from = gens[m].to
        BY <2>2, <3>2 DEF IInv, Table, Windows, Made
      <4>2. gens[m].from < gens[m].to
        BY <2>2, <3>2 DEF IInv, Table, Windows, Made
      <4>3. ~ (gens[m].to <= t)
        <5>1. ASSUME gens[m].to <= t PROVE FALSE
          <6>1. h \in Made(p, t)
            BY <4>1, <5>1 DEF Made
          <6>2. Newer(m, h)
            BY <2>2, <6>1
          <6>3. m \in DOMAIN gens
            BY DEF Made
          <6> QED
            BY <2>3, <4>1, <4>2, <6>2, <6>3 DEF Newer
        <5> QED
          BY <5>1
      <4>4. gens[m].to > t
        BY <2>1, <2>2, <2>3, <4>3 DEF Made
      <4> QED
        BY <2>2, <4>4 DEF InWindow, Made
    <3> QED
      BY <3>1, <3>2
  <2>5. InWindow(p, t) \subseteq Made(p, t)
    BY DEF InWindow, Made
  <2>6. \E g \in InWindow(p, t) : \A h \in InWindow(p, t) : Newer(g, h)
    BY <2>2, <2>4, <2>5
  <2>7. AsOf(p, t) \in InWindow(p, t) /\ \A h \in InWindow(p, t) : Newer(AsOf(p, t), h)
    BY <2>4, <2>6 DEF AsOf
  <2>8. AsOf(p, t) = m
    <3>1. Newer(AsOf(p, t), m) /\ Newer(m, AsOf(p, t))
      BY <2>2, <2>4, <2>5, <2>7
    <3>2. AsOf(p, t) \in DOMAIN gens /\ m \in DOMAIN gens
      BY <2>5, <2>7 DEF Made
    <3> DEFINE a == AsOf(p, t)
    <3> HIDE DEF a
    <3>3. Newer(a, m) /\ Newer(m, a) /\ a \in DOMAIN gens
      BY <3>1, <3>2 DEF a
    <3>4. a = m
      BY <2>3, <3>2, <3>3 DEF Newer
    <3> QED
      BY <3>4 DEF a
  <2> QED
    BY <2>2, <2>8 DEF t
<1> QED
  BY <1>1, Invariance, PTL

-----------------------------------------------------------------------------
(* What a generation resolves.                                             *)

\* The commits of the generations of a project.
Past(p) == {gens[h].commit : h \in {x \in DOMAIN gens : gens[x].project = p}}

\* What a generation, or a build that may yet be one, holds.
Sound(r, commits) ==
  /\ r.against \subseteq DOMAIN gens
  /\ \A e \in r.edges : e = Edge(e.file, e.item, e.to, e.gen)
  /\ NodesResolved(r)
  /\ EdgesResolved(r, commits)

\* The generation a build read is the active one still, or there was none.
Undisturbed(b) == b.prior = 0 \/ gens[b.prior].status = "active"

\* What a build has read, as long as nothing was published since.
ReadsOK(b) ==
  /\ b # Idle => b.commit \in DOMAIN Tree[b.project]
  /\ b.pc \in {"projection", "resolve"} =>
       /\ b.prior # 0 => gens[b.prior].project = b.project
       /\ b.sources = IF b.prior = 0 THEN <<>> ELSE Tree[b.project][gens[b.prior].commit]
  /\ b.pc = "resolve" /\ Undisturbed(b) =>
       IF b.prior = 0 THEN b.nodes = {} /\ b.edges = {}
       ELSE /\ b.nodes = gens[b.prior].nodes
            /\ b.edges \subseteq gens[b.prior].edges
            /\ {e \in gens[b.prior].edges : e.gen = 0} \subseteq b.edges
  /\ b.pc = "publish" /\ Undisturbed(b) => Sound(b, Past(b.project) \union {b.commit})

\* A generation is of a commit of its repository, and sound.
RowSound(g) ==
  /\ gens[g].commit \in DOMAIN Tree[gens[g].project]
  /\ Sound(gens[g], CommitsUpTo(g))

\* Every generation is sound, and every build that may yet be published.
RInv ==
  /\ \A p \in Projects : head[p] \in DOMAIN Tree[p]
  /\ \A g \in DOMAIN gens : RowSound(g)
  /\ \A who \in Builders : ReadsOK(build[who])

-----------------------------------------------------------------------------
(* Resolution.                                                             *)

\* Of numbers in a finite set one is the least.
LEMMA LeastExists ==
    ASSUME NEW S \in SUBSET Files, S # {}
    PROVE  \E x \in S : \A y \in S : x <= y
<1>1. S \subseteq Nat
  OBVIOUS
<1>2. \E x \in S : \A y \in S : ~(<<y, x>> \in OpToRel(<, Nat))
  BY <1>1, NatLessThanWellFounded, WFMin
<1>3. PICK x \in S : \A y \in S : ~(<<y, x>> \in OpToRel(<, Nat))
  BY <1>2
<1>4. ASSUME NEW y \in S PROVE x <= y
  <2>1. x \in Nat /\ y \in Nat
    BY <1>1
  <2>2. ~(y < x)
    BY <1>3, <2>1 DEF OpToRel
  <2> QED
    BY <2>1, <2>2
<1> QED
  BY <1>4

LEMMA NodeFields ==
    \A p, f, i : Node(p, f, i).project = p /\ Node(p, f, i).file = f /\ Node(p, f, i).item = i
BY DEF Node

LEMMA EdgeFields ==
    \A f, i, v, g : /\ Edge(f, i, v, g).file = f /\ Edge(f, i, v, g).item = i
                    /\ Edge(f, i, v, g).to = v /\ Edge(f, i, v, g).gen = g
                    /\ \A h : [Edge(f, i, v, g) EXCEPT !.gen = h] = Edge(f, i, v, h)
BY DEF Edge

\* One edge of those resolved, and one node.
LEMMA EdgeOf ==
    ASSUME NEW r, NEW commits, EdgesResolved(r, commits), NEW e \in r.edges
    PROVE  /\ e.file \in DOMAIN Tree[r.project][r.commit]
           /\ e.item \in Links(Tree[r.project][r.commit][e.file])
           /\ e.gen = 0 => e.to \in r.nodes
           /\ Leads(r, e)
BY DEF EdgesResolved

LEMMA NodeOf ==
    ASSUME NEW r, NodesResolved(r), NEW v \in r.nodes
    PROVE  /\ v.file \in DOMAIN Tree[r.project][r.commit]
           /\ v.item \in Tree[r.project][r.commit][v.file]
           /\ v = Node(r.project, v.file, v.item)
BY Zenon DEF NodesResolved

\* A build that has read all it needs, and whose prior generation is active still.
Ready(b) ==
    /\ IInv /\ RInv
    /\ BuildOK(b) /\ ReadsOK(b) /\ b # Idle /\ b.pc = "resolve" /\ Undisturbed(b)

LEMMA ReadyFacts ==
    ASSUME NEW b, Ready(b)
    PROVE  /\ b.project \in Projects /\ b.commit \in DOMAIN Tree[b.project]
           /\ DOMAIN TreeOf(b) \subseteq Files
           /\ TreeOf(b) = Tree[b.project][b.commit]
           /\ b.prior = 0 => b.sources = <<>> /\ DOMAIN b.sources = {} /\ b.nodes = {} /\ b.edges = {}
           /\ b.prior # 0 =>
                LET g == gens[b.prior]
                IN  /\ b.prior \in DOMAIN gens /\ g.project = b.project
                    /\ b.sources = Tree[b.project][g.commit]
                    /\ DOMAIN b.sources \subseteq Files
                    /\ Sound(g, CommitsUpTo(b.prior)) /\ CommitsUpTo(b.prior) \subseteq Past(b.project)
                    /\ b.nodes = g.nodes /\ b.edges \subseteq g.edges
                    /\ {e \in g.edges : e.gen = 0} \subseteq b.edges
<1>1. b.project \in Projects /\ b.commit \in DOMAIN Tree[b.project] /\ b.prior \in 0 .. Len(gens)
  BY DEF Ready, BuildOK, ReadsOK
<1>2. TreeOf(b) = Tree[b.project][b.commit] /\ DOMAIN TreeOf(b) \subseteq Files
  BY <1>1 DEF TreeOf
<1>3. ASSUME b.prior = 0 PROVE b.sources = <<>> /\ DOMAIN b.sources = {} /\ b.nodes = {} /\ b.edges = {}
  BY <1>3 DEF Ready, ReadsOK, Undisturbed
<1>4. ASSUME b.prior # 0
      PROVE  LET g == gens[b.prior]
             IN  /\ b.prior \in DOMAIN gens /\ g.project = b.project
                 /\ b.sources = Tree[b.project][g.commit]
                 /\ DOMAIN b.sources \subseteq Files
                 /\ Sound(g, CommitsUpTo(b.prior)) /\ CommitsUpTo(b.prior) \subseteq Past(b.project)
                 /\ b.nodes = g.nodes /\ b.edges \subseteq g.edges
                 /\ {e \in g.edges : e.gen = 0} \subseteq b.edges
  <2> DEFINE g == gens[b.prior]
  <2>1. b.prior \in DOMAIN gens
    BY <1>1, <1>4, GensFacts DEF Ready
  <2>2. g.project = b.project /\ b.sources = Tree[b.project][g.commit]
    BY <1>4 DEF Ready, ReadsOK
  <2>3. g.commit \in DOMAIN Tree[b.project] /\ Sound(g, CommitsUpTo(b.prior))
    BY <2>1, <2>2 DEF Ready, RInv, RowSound
  <2>4. DOMAIN b.sources \subseteq Files
    BY <1>1, <2>2, <2>3
  <2>5. /\ b.nodes = g.nodes /\ b.edges \subseteq g.edges
        /\ {e \in g.edges : e.gen = 0} \subseteq b.edges
    BY <1>4 DEF Ready, ReadsOK
  <2>6. CommitsUpTo(b.prior) \subseteq Past(b.project)
    BY <2>2 DEF CommitsUpTo, Past
  <2> QED
    BY <2>1, <2>2, <2>3, <2>4, <2>5, <2>6
<1> QED
  BY <1>1, <1>2, <1>3, <1>4

\* What is reparsed for itself is affected, and so are the callers of what is.
LEMMA AffectedFacts ==
    ASSUME NEW b, NEW f \in Files, f \in Stale(b) \/ f \in Callers(b, Affected(b))
    PROVE  f \in Affected(b)
<1>1. CASE f \in Stale(b)
  BY <1>1 DEF Affected
<1>2. CASE f \in Callers(b, Affected(b))
  <2>1. PICK e \in b.edges : e.gen = 0 /\ e.to \in b.nodes /\ e.to.file \in Affected(b) /\ e.file = f
    BY <1>2 DEF Callers
  <2> SUFFICES ASSUME NEW S \in SUBSET Files, Stale(b) \union Callers(b, S) \subseteq S PROVE f \in S
    BY DEF Affected
  <2>2. e.to.file \in S
    BY <2>1 DEF Affected
  <2>3. f \in Callers(b, S)
    BY <2>1, <2>2 DEF Callers
  <2> QED
    BY <2>3
<1> QED
  BY <1>1, <1>2

\* A file is reused only if it is what it was.
LEMMA ReusedFacts ==
    ASSUME NEW b, Ready(b), NEW f \in Reused(b)
    PROVE  /\ b.prior # 0 /\ f \in DOMAIN TreeOf(b) /\ f \in DOMAIN b.sources
           /\ b.sources[f] = TreeOf(b)[f]
           /\ f \notin CrossGeneration(b) /\ f \notin Callers(b, Affected(b))
<1>1. f \in DOMAIN TreeOf(b) /\ f \notin Affected(b) /\ f \in Files
  BY ReadyFacts DEF Reused, Reparsed
<1>2. f \notin Stale(b) /\ f \notin Callers(b, Affected(b))
  BY <1>1, AffectedFacts
<1>3. f \in DOMAIN b.sources /\ b.sources[f] = TreeOf(b)[f] /\ f \notin CrossGeneration(b)
  BY <1>1, <1>2 DEF Stale, Changed
<1> QED
  BY <1>1, <1>2, <1>3, ReadyFacts

\* The files that are not affected and were there are there still.
LEMMA UnaffectedReused ==
    ASSUME NEW b, Ready(b), NEW f \in DOMAIN b.sources, f \notin Affected(b)
    PROVE  f \in Reused(b)
<1>1. f \in Files
  BY ReadyFacts
<1>2. f \notin Removed(b)
  BY <1>1, AffectedFacts DEF Stale
<1> QED
  BY <1>2 DEF Removed, Reused, Reparsed

\* A reused file and the generation it comes from, where it has no edge to
\* another generation.
LEMMA ReusedFrom ==
    ASSUME NEW b, Ready(b), NEW f \in Reused(b)
    PROVE  LET g == gens[b.prior]
           IN  /\ b.prior # 0 /\ b.prior \in DOMAIN gens /\ g.project = b.project
               /\ f \in DOMAIN TreeOf(b)
               /\ f \in DOMAIN Tree[g.project][g.commit] /\ Tree[g.project][g.commit][f] = TreeOf(b)[f]
               /\ NodesResolved(g) /\ EdgesResolved(g, CommitsUpTo(b.prior))
               /\ 0 \notin g.against
               /\ b.nodes = g.nodes
               /\ \A e \in g.edges : e.file = f => e.gen = 0 /\ e \in b.edges /\ e = Edge(f, e.item, e.to, 0)
<1> DEFINE g == gens[b.prior]
<1>1. /\ b.prior # 0 /\ f \in DOMAIN TreeOf(b) /\ f \in DOMAIN b.sources /\ b.sources[f] = TreeOf(b)[f]
      /\ f \notin CrossGeneration(b)
  BY ReusedFacts
<1>2. /\ b.prior \in DOMAIN gens /\ g.project = b.project /\ b.sources = Tree[g.project][g.commit]
      /\ Sound(g, CommitsUpTo(b.prior)) /\ b.nodes = g.nodes
      /\ {e \in g.edges : e.gen = 0} \subseteq b.edges
  BY <1>1, ReadyFacts
<1>3. ASSUME NEW e \in g.edges, e.file = f PROVE e.gen = 0 /\ e \in b.edges /\ e = Edge(f, e.item, e.to, 0)
  <2>1. e.gen = 0
    BY <1>1, <1>3 DEF CrossGeneration
  <2> QED
    BY <1>2, <1>3, <2>1 DEF Sound
<1>4. 0 \notin g.against
  BY <1>2, GensFacts DEF Sound, Ready
<1> QED
  BY <1>1, <1>2, <1>3, <1>4 DEF Sound

\* What is gathered, one by one.
LEMMA GatheredMembers ==
    ASSUME NEW b, NEW x
    PROVE  /\ x \in GatheredNodes(b) <=>
                \/ \E f \in Reparsed(b) : \E i \in TreeOf(b)[f] : x = Node(b.project, f, i)
                \/ x \in b.nodes /\ x.file \in Reused(b)
           /\ x \in GatheredEdges(b) <=>
                \/ \E f \in Reparsed(b) : \E i \in Links(TreeOf(b)[f]) :
                     x = Edge(f, i, Node(b.project, f, i), 0)
                \/ x \in b.edges /\ x.file \in Reused(b)
<1>1. \A f : x \in ExtractedNodes(b, f) <=> \E i \in TreeOf(b)[f] : x = Node(b.project, f, i)
  BY Zenon DEF ExtractedNodes
<1>2. \A f : x \in ExtractedEdges(b, f) <=>
         \E i \in Links(TreeOf(b)[f]) : x = Edge(f, i, Node(b.project, f, i), 0)
  BY Zenon DEF ExtractedEdges
<1>3. x \in GatheredNodes(b) <=>
         (\E f \in Reparsed(b) : x \in ExtractedNodes(b, f)) \/ (x \in b.nodes /\ x.file \in Reused(b))
  BY Zenon DEF GatheredNodes
<1>4. x \in GatheredEdges(b) <=>
         (\E f \in Reparsed(b) : x \in ExtractedEdges(b, f)) \/ (x \in b.edges /\ x.file \in Reused(b))
  BY Zenon DEF GatheredEdges
<1> QED
  BY <1>1, <1>2, <1>3, <1>4, Zenon

\* What a build gathers is what the files of its commit have, some references
\* excepted.
LEMMA GatheredHolds ==
    ASSUME NEW b, Ready(b)
    PROVE  LET tree == TreeOf(b)
               G == GatheredNodes(b)
           IN  /\ \A v \in G : /\ v.file \in DOMAIN tree /\ v.item \in tree[v.file]
                               /\ v = Node(b.project, v.file, v.item)
               /\ \A f \in DOMAIN tree : \A i \in tree[f] :
                    i.kind # "reference" => Node(b.project, f, i) \in G
<1> DEFINE p == b.project
           tree == TreeOf(b)
           g == gens[b.prior]
<1>1. ASSUME NEW v \in GatheredNodes(b)
      PROVE  v.file \in DOMAIN tree /\ v.item \in tree[v.file] /\ v = Node(p, v.file, v.item)
  <2>1. CASE \E f \in Reparsed(b) : \E i \in tree[f] : v = Node(p, f, i)
    <3>1. PICK f \in Reparsed(b) : \E i \in tree[f] : v = Node(p, f, i)
      BY <2>1
    <3>2. f \in DOMAIN tree
      BY DEF Reparsed
    <3> QED
      BY <3>1, <3>2, NodeFields
  <2>2. CASE v \in b.nodes /\ v.file \in Reused(b)
    <3>1. /\ v \in g.nodes /\ NodesResolved(g) /\ v.file \in DOMAIN tree
          /\ Tree[g.project][g.commit][v.file] = tree[v.file] /\ g.project = p
      BY <2>2, ReusedFrom
    <3> QED
      BY <3>1 DEF NodesResolved
  <2> QED
    BY <1>1, <2>1, <2>2, GatheredMembers, Zenon
<1>2. ASSUME NEW f \in DOMAIN tree, NEW i \in tree[f], i.kind # "reference"
      PROVE  Node(p, f, i) \in GatheredNodes(b)
  <2>1. CASE f \in Reparsed(b)
    BY <2>1, GatheredMembers
  <2>2. CASE f \notin Reparsed(b)
    <3>1. f \in Reused(b)
      BY <2>2 DEF Reused
    <3>2. /\ NodesResolved(g) /\ g.project = p /\ b.nodes = g.nodes
          /\ f \in DOMAIN Tree[g.project][g.commit] /\ i \in Tree[g.project][g.commit][f]
          /\ \A e \in g.edges : e.file = f => e.gen = 0
      BY <3>1, ReusedFrom
    <3>3. Node(p, f, i) \in g.nodes
      BY <1>2, <3>2 DEF NodesResolved
    <3> QED
      BY <3>1, <3>2, <3>3, NodeFields, GatheredMembers
  <2> QED
    BY <2>1, <2>2
<1> QED
  BY <1>1, <1>2

\* Where a gathered edge leads before it is resolved: to the node of its item,
\* or to what has its name in another file, which was found for a build before.
Open(b, e) ==
    /\ e = Edge(e.file, e.item, e.to, 0)
    /\ e.file \in DOMAIN TreeOf(b) /\ e.item \in Links(TreeOf(b)[e.file])
    /\ e.to \in GatheredNodes(b)
    /\ \/ e.to = Node(b.project, e.file, e.item)
       \/ /\ e.item.kind = "reference" /\ e.to.item.kind # "reference"
          /\ e.to.item.name = e.item.name /\ e.to.file # e.file

LEMMA ReusedOpen ==
    ASSUME NEW b, Ready(b), NEW e \in gens[b.prior].edges, e.file \in Reused(b)
    PROVE  e \in b.edges /\ Open(b, e)
<1> DEFINE p == b.project
           tree == TreeOf(b)
           g == gens[b.prior]
           f == e.file
<1>1. /\ b.prior # 0 /\ f \in DOMAIN tree /\ Tree[g.project][g.commit][f] = tree[f]
      /\ NodesResolved(g) /\ EdgesResolved(g, CommitsUpTo(b.prior)) /\ 0 \notin g.against
      /\ b.nodes = g.nodes /\ g.project = p
      /\ e.gen = 0 /\ e \in b.edges /\ e = Edge(f, e.item, e.to, 0)
  BY ReusedFrom
<1>2. e.item \in Links(tree[f]) /\ e.to \in b.nodes /\ Leads(g, e)
  BY <1>1, EdgeOf
<1>3. e.to.file \notin Affected(b)
  BY <1>1, <1>2, ReusedFacts DEF Callers
<1>4. e.to.file \in DOMAIN b.sources
  BY <1>1, <1>2, NodeOf, ReadyFacts
<1>5. e.to \in GatheredNodes(b)
  BY <1>2, <1>3, <1>4, UnaffectedReused, GatheredMembers
<1>6. \/ e.to = Node(p, f, e.item)
      \/ /\ e.item.kind = "reference" /\ e.to.item.kind # "reference"
         /\ e.to.item.name = e.item.name /\ e.to.file # f
  <2>1. e.item.kind \in {"reference", "dependency"}
    BY <1>2 DEF Links
  <2> QED
    BY <1>1, <1>2, <2>1 DEF Leads
<1> QED
  BY <1>1, <1>2, <1>5, <1>6 DEF Open

\* Every gathered edge is open, and there is one for each link that may not
\* lack it.
LEMMA GatheredOpen ==
    ASSUME NEW b, Ready(b)
    PROVE  /\ \A e \in GatheredEdges(b) : Open(b, e)
           /\ \A f \in DOMAIN TreeOf(b) : \A i \in Links(TreeOf(b)[f]) :
                \/ \E e \in GatheredEdges(b) : e.file = f /\ e.item = i
                \/ MayLackEdge(b.project, Past(b.project), f, i)
           /\ \A d, e \in GatheredEdges(b) : d.file = e.file /\ d.item = e.item => d = e
<1> DEFINE p == b.project
           tree == TreeOf(b)
           g == gens[b.prior]
<1>1. \A f, i : Edge(f, i, Node(p, f, i), 0).file = f /\ Edge(f, i, Node(p, f, i), 0).item = i
  BY EdgeFields
<1>2. ASSUME NEW e \in GatheredEdges(b)
      PROVE  \/ e.file \in Reparsed(b) /\ e.item \in Links(tree[e.file])
                /\ e = Edge(e.file, e.item, Node(p, e.file, e.item), 0)
             \/ e.file \in Reused(b) /\ b.prior # 0 /\ e \in b.edges /\ e \in g.edges
  <2>1. CASE \E f \in Reparsed(b) : \E i \in Links(tree[f]) : e = Edge(f, i, Node(p, f, i), 0)
    <3>1. PICK f \in Reparsed(b) : \E i \in Links(tree[f]) : e = Edge(f, i, Node(p, f, i), 0)
      BY <2>1
    <3>2. PICK i \in Links(tree[f]) : e = Edge(f, i, Node(p, f, i), 0)
      BY <3>1
    <3> QED
      BY <1>1, <3>2
  <2>2. CASE e \in b.edges /\ e.file \in Reused(b)
    BY <2>2, ReusedFacts, ReadyFacts
  <2> QED
    BY <2>1, <2>2, GatheredMembers
<1>3. ASSUME NEW e \in GatheredEdges(b) PROVE Open(b, e)
  <2>1. CASE /\ e.file \in Reparsed(b) /\ e.item \in Links(tree[e.file])
             /\ e = Edge(e.file, e.item, Node(p, e.file, e.item), 0)
    <3>1. e.to = Node(p, e.file, e.item)
      BY <2>1, EdgeFields
    <3>2. e.to \in GatheredNodes(b)
      BY <2>1, <3>1, GatheredMembers DEF Links
    <3>3. e.file \in DOMAIN tree
      BY <2>1 DEF Reparsed
    <3> QED
      BY <2>1, <3>1, <3>2, <3>3 DEF Open
  <2>2. CASE e.file \in Reused(b) /\ e \in g.edges
    BY <2>2, ReusedOpen
  <2> QED
    BY <1>2, <2>1, <2>2
<1>4. ASSUME NEW f \in DOMAIN tree, NEW i \in Links(tree[f])
      PROVE  \/ \E e \in GatheredEdges(b) : e.file = f /\ e.item = i
             \/ MayLackEdge(p, Past(p), f, i)
  <2>1. CASE f \in Reparsed(b)
    <3>1. Edge(f, i, Node(p, f, i), 0) \in GatheredEdges(b)
      BY <2>1, GatheredMembers
    <3> QED
      BY <1>1, <3>1
  <2>2. CASE f \notin Reparsed(b)
    <3>1. f \in Reused(b)
      BY <2>2 DEF Reused
    <3>2. /\ b.prior # 0 /\ EdgesResolved(g, CommitsUpTo(b.prior)) /\ g.project = p
          /\ f \in DOMAIN Tree[g.project][g.commit] /\ Tree[g.project][g.commit][f] = tree[f]
      BY <3>1, ReusedFrom
    <3>3. \/ \E e \in g.edges : e.file = f /\ e.item = i
          \/ MayLackEdge(p, CommitsUpTo(b.prior), f, i)
      BY <3>2 DEF EdgesResolved
    <3>4. ASSUME NEW e \in g.edges, e.file = f, e.item = i PROVE e \in GatheredEdges(b)
      BY <3>1, <3>4, ReusedOpen, GatheredMembers
    <3>5. MayLackEdge(p, CommitsUpTo(b.prior), f, i) => MayLackEdge(p, Past(p), f, i)
      BY <3>2, ReadyFacts DEF MayLackEdge
    <3> QED
      BY <3>3, <3>4, <3>5
  <2> QED
    BY <2>1, <2>2
<1>5. ASSUME NEW d \in GatheredEdges(b), NEW e \in GatheredEdges(b), d.file = e.file, d.item = e.item
      PROVE  d = e
  <2>1. Reparsed(b) \cap Reused(b) = {}
    BY DEF Reused
  <2>2. CASE e.file \in Reparsed(b)
    BY <1>2, <1>5, <2>1, <2>2
  <2>3. CASE e.file \in Reused(b)
    <3>1. d \in g.edges /\ e \in g.edges /\ b.prior # 0
      BY <1>2, <1>5, <2>1, <2>3
    <3>2. EdgesResolved(g, CommitsUpTo(b.prior))
      BY <3>1, ReadyFacts DEF Sound
    <3> QED
      BY <1>5, <3>1, <3>2 DEF EdgesResolved
  <2> QED
    BY <1>2, <2>2, <2>3
<1> QED
  BY <1>3, <1>4, <1>5

\* The generations that a build resolves against.
Others(b) == UNION {Active(p) : p \in Projects \ {b.project}}

LEMMA OthersMembers ==
    ASSUME IInv, NEW b, NEW g
    PROVE  g \in Others(b) <=> /\ g \in DOMAIN gens /\ gens[g].status = "active"
                               /\ gens[g].project # b.project
<1>1. g \in Others(b) <=> \E p \in Projects \ {b.project} : g \in Active(p)
  BY Zenon DEF Others
<1>2. g \in DOMAIN gens => gens[g].project \in Projects
  BY DEF IInv, RowOK
<1> QED
  BY <1>1, <1>2 DEF Active

LEMMA ExternalMembers ==
    ASSUME NEW b, NEW v, NEW x
    PROVE  x \in External(b, v) <=>
             \E g \in Others(b) : \E w \in gens[g].nodes : w.item.name = v.item.name /\ x = <<g, w>>
<1> DEFINE Of(g) == {g} \X {w \in gens[g].nodes : w.item.name = v.item.name}
<1>1. External(b, v) = UNION {Of(g) : g \in Others(b)}
  BY DEF External, Others
<1>2. \A g : x \in Of(g) <=> \E w \in gens[g].nodes : w.item.name = v.item.name /\ x = <<g, w>>
  OBVIOUS
<1> HIDE DEF Of
<1>3. x \in External(b, v) <=> \E g \in Others(b) : x \in Of(g)
  BY <1>1, Zenon
<1> QED
  BY <1>2, <1>3, Zenon

\* Whether a name is held by what a build resolves against.
Held(b, n) == \E h \in Others(b) : \E v \in gens[h].nodes : v.item.name = n

\* The nodes of the other generations are of other projects.
LEMMA ExternalFacts ==
    ASSUME NEW b, Ready(b), NEW v
    PROVE  /\ External(b, v) # {} <=> Held(b, v.item.name)
           /\ \A x \in External(b, v) :
                /\ x[1] \in Others(b) /\ x[2] \in gens[x[1]].nodes
                /\ x[2].item.name = v.item.name
                /\ x[2].project # b.project
           /\ External(b, v) # {} => FirstExternal(b, v) \in External(b, v)
<1>1. ASSUME NEW x \in External(b, v)
      PROVE  /\ x[1] \in Others(b) /\ x[2] \in gens[x[1]].nodes
             /\ x[2].item.name = v.item.name
             /\ x[2].project # b.project
  <2>1. PICK g \in Others(b) : \E w \in gens[g].nodes : w.item.name = v.item.name /\ x = <<g, w>>
    BY ExternalMembers
  <2>2. PICK w \in gens[g].nodes : w.item.name = v.item.name /\ x = <<g, w>>
    BY <2>1
  <2>3. g \in DOMAIN gens /\ gens[g].project # b.project
    BY OthersMembers DEF Ready
  <2>4. w = Node(gens[g].project, w.file, w.item)
    BY <2>3 DEF Ready, RInv, RowSound, Sound, NodesResolved
  <2>5. w.project # b.project
    BY <2>3, <2>4, NodeFields
  <2> QED
    BY <2>2, <2>5
<1>2. External(b, v) # {} => Held(b, v.item.name)
  BY <1>1 DEF Held
<1>3. ASSUME Held(b, v.item.name) PROVE External(b, v) # {}
  <2>1. PICK g \in Others(b) : \E w \in gens[g].nodes : w.item.name = v.item.name
    BY <1>3 DEF Held
  <2>2. PICK w \in gens[g].nodes : w.item.name = v.item.name
    BY <2>1
  <2>3. <<g, w>> \in External(b, v)
    BY <2>2, ExternalMembers
  <2> QED
    BY <2>3
<1>4. External(b, v) # {} => FirstExternal(b, v) \in External(b, v)
  BY DEF FirstExternal
<1> QED
  BY <1>1, <1>2, <1>3, <1>4

\* The other files that have a name have a node for it.
LEMMA LocalFacts ==
    ASSUME NEW b, Ready(b), NEW v
    PROVE  LET L == Local(GatheredNodes(b), v)
           IN  /\ L # {} <=> Holding(TreeOf(b), v.file, v.item.name) # {}
               /\ \A w \in L : /\ w.file \in Files /\ w \in GatheredNodes(b)
                               /\ w.item.kind # "reference" /\ w.item.name = v.item.name /\ w.file # v.file
<1> DEFINE G == GatheredNodes(b)
           L == Local(G, v)
           H == Holding(TreeOf(b), v.file, v.item.name)
<1>1. ASSUME NEW w \in L
      PROVE  /\ w.file \in Files /\ w \in G
             /\ w.item.kind # "reference" /\ w.item.name = v.item.name /\ w.file # v.file
             /\ w.file \in H
  <2>1. w \in G /\ w.item.kind # "reference" /\ w.item.name = v.item.name /\ w.file # v.file
    BY DEF Local
  <2>2. w.file \in DOMAIN TreeOf(b) /\ w.item \in TreeOf(b)[w.file]
    BY <2>1, GatheredHolds
  <2> QED
    BY <2>1, <2>2, ReadyFacts DEF Holding
<1>2. ASSUME NEW f \in H PROVE L # {}
  <2>1. PICK i \in TreeOf(b)[f] : i.kind # "reference" /\ i.name = v.item.name /\ f \in DOMAIN TreeOf(b) /\ f # v.file
    BY DEF Holding
  <2>2. Node(b.project, f, i) \in G
    BY <2>1, GatheredHolds
  <2> QED
    BY <2>1, <2>2, NodeFields DEF Local
<1> QED
  BY <1>1, <1>2

\* The first of some nodes is one of them.
LEMMA FirstOfFiles ==
    ASSUME NEW S, S # {}, \A v \in S : v.file \in Files
    PROVE  First(S) \in S
<1>1. {v.file : v \in S} \in SUBSET Files /\ {v.file : v \in S} # {}
  OBVIOUS
<1>2. PICK x \in {v.file : v \in S} : \A y \in {v.file : v \in S} : x <= y
  BY <1>1, LeastExists
<1>3. PICK v \in S : v.file = x
  BY <1>2
<1>4. \A w \in S : v.file <= w.file
  BY <1>2, <1>3
<1> QED
  BY <1>4 DEF First

\* An edge once its target is replaced ...
Moved(b, e) ==
    IF e.to \in GatheredNodes(b) /\ Replaced(b, GatheredNodes(b), e.to)
    THEN Target(b, GatheredNodes(b), e) ELSE e

\* ... and once its generation is known.
There(b, e) == {row[1] : row \in {x \in External(b, e.to) : x[2] = e.to}}

Kept(b) == KeptNodes(b, GatheredNodes(b))

Final(b, e) ==
    IF e.to \in Kept(b) THEN [e EXCEPT !.gen = 0] ELSE [e EXCEPT !.gen = CHOOSE g \in There(b, e) : TRUE]

\* The node of an edge's own item; and, for a reference, that another file has
\* its name, or depends on it.
Own(b, e) == Node(b.project, e.file, e.item)

HeldHere(b, e) == Holding(TreeOf(b), e.file, e.item.name) # {}

DependedOn(b, e) == Depending(TreeOf(b), e.file, e.item.name) # {}

\* A moved edge stays in its generation ...
Stays(b, e, v) ==
    /\ v \in Kept(b)
    /\ IF e.item.kind = "reference" /\ HeldHere(b, e)
       THEN v.item.kind # "reference" /\ v.item.name = e.item.name /\ v.file # e.file
       ELSE v = Own(b, e) /\ (e.item.kind = "reference" => ~Held(b, e.item.name))

\* ... or leaves it ...
Leaves(b, e, v) ==
    /\ v.project # b.project /\ v.item.name = e.item.name
    /\ \E g \in Others(b) : v \in gens[g].nodes
    /\ e.item.kind = "dependency" => v.item.kind = "module"
    /\ e.item.kind = "reference" /\ HeldHere(b, e) => DependedOn(b, e) /\ v.item.kind = "module"

\* ... or is lost.
Lost(b, e, v) ==
    v \notin Kept(b) /\ v.project = b.project /\ e.item.kind = "reference" /\ DependedOn(b, e)

\* A dependency among the nodes of the other files.
LEMMA Dependency ==
    ASSUME NEW b, Ready(b), NEW e, NEW w \in GatheredNodes(b),
           w.item.kind = "dependency", w.item.name = e.item.name, w.file # e.file
    PROVE  DependedOn(b, e)
<1>1. w.file \in DOMAIN TreeOf(b) /\ w.item \in TreeOf(b)[w.file]
  BY GatheredHolds
<1> QED
  BY <1>1 DEF DependedOn, Depending

\* A node that is not a reference is replaced only if it is a dependency, by a
\* module.
LEMMA KeptOrNot ==
    ASSUME NEW b, Ready(b), NEW v \in GatheredNodes(b), v.item.kind # "reference"
    PROVE  \/ v \in Kept(b) /\ ~Replaced(b, GatheredNodes(b), v)
           \/ /\ v \notin Kept(b) /\ Replaced(b, GatheredNodes(b), v) /\ ~ReplacedByLocal(GatheredNodes(b), v)
              /\ v.item.kind = "dependency"
              /\ External(b, v) # {} /\ FirstExternal(b, v)[2].item.kind = "module"
BY DEF Kept, KeptNodes, Replaced, ReplacedByLocal, ReplacedByExternal

LEMMA MovedFacts ==
    ASSUME NEW b, Ready(b), NEW e, Open(b, e)
    PROVE  LET x == Moved(b, e)
           IN  /\ x = Edge(e.file, e.item, x.to, x.gen)
               /\ Stays(b, e, x.to) \/ Leaves(b, e, x.to) \/ Lost(b, e, x.to)
<1> DEFINE p == b.project
           G == GatheredNodes(b)
           x == Moved(b, e)
           v == e.to
           row == FirstExternal(b, v)
<1>1. /\ v \in G /\ e = Edge(e.file, e.item, e.to, 0)
      /\ e.item.kind \in {"reference", "dependency"}
  BY DEF Open, Links
<1>2. e = Edge(e.file, e.item, e.to, e.gen)
  BY <1>1, EdgeFields
\* A target replaced by what is elsewhere.
<1>3. ASSUME Replaced(b, G, v), ~ReplacedByLocal(G, v), v.item.name = e.item.name
      PROVE  /\ x = Edge(e.file, e.item, x.to, x.gen) /\ x.to = row[2]
             /\ x.to.project # p /\ x.to.item.name = e.item.name
             /\ \E g \in Others(b) : x.to \in gens[g].nodes
  <2>1. x = Edge(e.file, e.item, row[2], row[1])
    BY <1>1, <1>3 DEF Moved, Target
  <2>2. row \in External(b, v)
    BY <1>3, ExternalFacts DEF Replaced, ReplacedByExternal
  <2>3. row[1] \in Others(b) /\ row[2] \in gens[row[1]].nodes /\ row[2].item.name = e.item.name /\ row[2].project # p
    BY <1>3, <2>2, ExternalFacts
  <2> HIDE DEF row
  <2>4. x.to = row[2] /\ x.gen = row[1]
    BY <2>1, EdgeFields
  <2> QED
    BY <2>1, <2>3, <2>4
\* A target that is kept.
<1>4. ASSUME ~Replaced(b, G, v) PROVE x = e /\ v \in Kept(b)
  BY <1>1, <1>4 DEF Moved, Kept, KeptNodes
<1>5. CASE v = Own(b, e) /\ e.item.kind = "reference"
  <2>1. v.item = e.item /\ v.file = e.file
    BY <1>5, NodeFields DEF Own
  <2>2. Local(G, v) # {} <=> HeldHere(b, e)
    BY <2>1, LocalFacts DEF HeldHere
  <2>3. External(b, v) # {} <=> Held(b, e.item.name)
    <3>1. External(b, v) # {} <=> Held(b, v.item.name)
      BY ExternalFacts, Zenon
    <3> QED
      BY <2>1, <3>1
  <2>4. CASE HeldHere(b, e)
    <3> DEFINE w == First(Local(G, v))
    <3>1. w \in Local(G, v)
      BY <2>2, <2>4, LocalFacts, FirstOfFiles
    <3>2. x = Edge(e.file, e.item, w, 0)
      BY <1>1, <1>5, <2>1, <2>2, <2>4 DEF Moved, Replaced, ReplacedByLocal, Target
    <3> HIDE DEF w
    <3>3. x.to = w /\ x.gen = 0
      BY <3>2, EdgeFields
    <3>4. w \in G /\ w.item.kind # "reference" /\ w.item.name = e.item.name /\ w.file # e.file
      BY <2>1, <3>1, LocalFacts
    <3>5. CASE w \in Kept(b)
      BY <1>5, <2>4, <3>2, <3>3, <3>4, <3>5 DEF Stays
    <3>6. CASE w \notin Kept(b)
      <4>1. w.item.kind = "dependency"
        BY <3>4, <3>6, KeptOrNot
      <4>2. DependedOn(b, e)
        BY <3>4, <4>1, Dependency
      <4>3. w.project = p
        BY <3>4, GatheredHolds, NodeFields
      <4> QED
        BY <1>5, <3>2, <3>3, <3>6, <4>2, <4>3 DEF Lost
    <3> QED
      BY <3>5, <3>6
  <2>5. CASE ~HeldHere(b, e) /\ Held(b, e.item.name)
    <3>1. Replaced(b, G, v) /\ ~ReplacedByLocal(G, v)
      BY <1>5, <2>1, <2>2, <2>3, <2>5 DEF Replaced, ReplacedByLocal, ReplacedByExternal
    <3> QED
      BY <1>3, <1>5, <2>1, <2>5, <3>1 DEF Leaves
  <2>6. CASE ~HeldHere(b, e) /\ ~Held(b, e.item.name)
    <3>1. ~Replaced(b, G, v)
      BY <1>5, <2>1, <2>2, <2>3, <2>6 DEF Replaced, ReplacedByLocal, ReplacedByExternal
    <3> QED
      BY <1>2, <1>4, <1>5, <2>6, <3>1 DEF Stays
  <2> QED
    BY <2>4, <2>5, <2>6
<1>6. CASE v = Own(b, e) /\ e.item.kind = "dependency"
  <2>1. v.item = e.item /\ v.file = e.file
    BY <1>6, NodeFields DEF Own
  <2>2. CASE v \in Kept(b) /\ ~Replaced(b, G, v)
    BY <1>2, <1>4, <1>6, <2>2 DEF Stays
  <2>3. CASE Replaced(b, G, v) /\ ~ReplacedByLocal(G, v) /\ row[2].item.kind = "module"
    BY <1>3, <1>6, <2>1, <2>3 DEF Leaves
  <2> QED
    BY <1>1, <1>6, <2>1, <2>2, <2>3, KeptOrNot
<1>7. CASE /\ e.item.kind = "reference" /\ v.item.kind # "reference"
           /\ v.item.name = e.item.name /\ v.file # e.file
  <2>1. HeldHere(b, e)
    BY <1>1, <1>7, GatheredHolds DEF HeldHere, Holding
  <2>2. CASE v \in Kept(b) /\ ~Replaced(b, G, v)
    BY <1>2, <1>4, <1>7, <2>1, <2>2 DEF Stays
  <2>3. CASE Replaced(b, G, v) /\ ~ReplacedByLocal(G, v) /\ v.item.kind = "dependency" /\ row[2].item.kind = "module"
    <3>1. DependedOn(b, e)
      BY <1>1, <1>7, <2>3, Dependency
    <3> QED
      BY <1>3, <1>7, <2>3, <3>1 DEF Leaves
  <2> QED
    BY <1>1, <1>7, <2>2, <2>3, KeptOrNot
<1> QED
  BY <1>1, <1>5, <1>6, <1>7 DEF Open, Own

\* The edges of a build are the gathered ones, moved and made final.
LEMMA ResolvedMembers ==
    ASSUME NEW b, NEW y
    PROVE  y \in ResolvedEdges(b, GatheredNodes(b)) <=>
             \E e \in GatheredEdges(b) : LET x == Moved(b, e)
                                         IN  (x.to \in Kept(b) \/ There(b, x) # {}) /\ y = Final(b, x)
<1> DEFINE M == {Moved(b, e) : e \in GatheredEdges(b)}
<1>1. ResolvedEdges(b, GatheredNodes(b)) = {Final(b, x) : x \in {x \in M : x.to \in Kept(b) \/ There(b, x) # {}}}
  BY Zenon DEF ResolvedEdges, Moved, There, Kept, Final
<1>2. \A x : x \in M <=> \E e \in GatheredEdges(b) : x = Moved(b, e)
  OBVIOUS
<1> HIDE DEF M
<1> QED
  BY <1>1, <1>2


\* Where the edges of a build lead.
LEMMA StaysFacts ==
    ASSUME NEW b, Ready(b), NEW e, Open(b, e), Stays(b, e, Moved(b, e).to),
           NEW r, r.project = b.project, r.commit = b.commit, r.against = Others(b)
    PROVE  LET y == Final(b, Moved(b, e))
           IN  y = Edge(e.file, e.item, Moved(b, e).to, 0) /\ y.to \in Kept(b) /\ Leads(r, y)
<1> DEFINE x == Moved(b, e)
           y == Final(b, x)
<1>1. x = Edge(e.file, e.item, x.to, x.gen) /\ x.to \in Kept(b)
  BY MovedFacts DEF Stays
<1>2. y = Edge(e.file, e.item, x.to, 0)
  BY <1>1, EdgeFields DEF Final
<1>3. PICK v : v = x.to
  OBVIOUS
<1>4. y.file = e.file /\ y.item = e.item /\ y.to = v /\ y.gen = 0
  BY <1>2, <1>3, EdgeFields
<1>5. Tree[r.project][r.commit] = TreeOf(b) /\ e.item.kind \in {"reference", "dependency"}
  BY ReadyFacts DEF Open, Links
<1>6. Stays(b, e, v)
  BY <1>3
<1> HIDE DEF x, y
<1>7. Leads(r, y)
  <2>1. CASE e.item.kind = "reference" /\ HeldHere(b, e)
    <3>1. v.item.kind # "reference" /\ v.item.name = e.item.name /\ v.file # e.file
      BY <1>6, <2>1 DEF Stays
    <3>2. Holding(TreeOf(b), e.file, e.item.name) # {}
      BY <2>1 DEF HeldHere
    <3> QED
      BY <1>4, <1>5, <2>1, <3>1, <3>2 DEF Leads
  <2>2. CASE ~(e.item.kind = "reference" /\ HeldHere(b, e))
    <3>1. v = Node(r.project, e.file, e.item) /\ (e.item.kind = "reference" => ~Held(b, e.item.name))
      BY <1>6, <2>2 DEF Stays, Own
    <3>2. \/ e.item.kind = "dependency"
          \/ Holding(TreeOf(b), e.file, e.item.name) = {} /\ ~Held(b, e.item.name)
      BY <1>5, <2>2, <3>1 DEF HeldHere
    <3> QED
      BY <1>4, <1>5, <3>1, <3>2 DEF Leads, Held
  <2> QED
    BY <2>1, <2>2
<1> QED
  BY <1>1, <1>2, <1>4, <1>3, <1>7 DEF y, x

LEMMA LeavesFacts ==
    ASSUME NEW b, Ready(b), NEW e, Open(b, e), Leaves(b, e, Moved(b, e).to),
           NEW r, r.project = b.project, r.commit = b.commit, r.against = Others(b)
    PROVE  LET y == Final(b, Moved(b, e))
           IN  /\ There(b, Moved(b, e)) # {}
               /\ y = Edge(e.file, e.item, y.to, y.gen) /\ y.gen # 0 /\ Leads(r, y)
<1> DEFINE p == b.project
           x == Moved(b, e)
           y == Final(b, x)
<1>0. x = Edge(e.file, e.item, x.to, x.gen)
  BY MovedFacts
<1>1. x.to.item.name = e.item.name /\ x.to.project # p /\ \E g \in Others(b) : x.to \in gens[g].nodes
  BY DEF Leaves
<1>2. x.to \notin Kept(b)
  <2>1. \A v \in GatheredNodes(b) : v.project = p
    BY GatheredHolds, NodeFields
  <2> QED
    BY <1>1, <2>1 DEF Kept, KeptNodes
<1>3. \A g : g \in There(b, x) <=> g \in Others(b) /\ x.to \in gens[g].nodes
  <2>1. ASSUME NEW g \in There(b, x) PROVE g \in Others(b) /\ x.to \in gens[g].nodes
    <3>1. PICK row \in External(b, x.to) : row[2] = x.to /\ row[1] = g
      BY DEF There
    <3> QED
      BY <3>1, ExternalFacts
  <2>2. ASSUME NEW g \in Others(b), x.to \in gens[g].nodes PROVE g \in There(b, x)
    <3>1. <<g, x.to>> \in External(b, x.to)
      BY <2>2, ExternalMembers
    <3> QED
      BY <3>1 DEF There
  <2> QED
    BY <2>1, <2>2
<1> DEFINE h == CHOOSE g \in There(b, x) : TRUE
<1>4. There(b, x) # {}
  BY <1>1, <1>3
<1>5. h \in There(b, x)
  BY <1>4
<1>6. y = Edge(e.file, e.item, x.to, h)
  <2>1. y = [x EXCEPT !.gen = h]
    BY <1>2, Zenon DEF Final
  <2> HIDE DEF h
  <2> QED
    BY <1>0, <2>1, EdgeFields
<1> HIDE DEF h
<1>7. y.file = e.file /\ y.item = e.item /\ y.to = x.to /\ y.gen = h
  BY <1>6, EdgeFields
<1>8. h \in Others(b) /\ x.to \in gens[h].nodes /\ h # 0
  <2>1. h \in Others(b) /\ x.to \in gens[h].nodes
    BY <1>3, <1>5
  <2>2. h \in DOMAIN gens
    BY <2>1, OthersMembers DEF Ready
  <2> QED
    BY <2>1, <2>2, GensFacts DEF Ready
<1>9. PICK v : v = x.to
  OBVIOUS
<1>10. Leaves(b, e, v) /\ v \in gens[h].nodes
  BY <1>8, <1>9
<1>11. Tree[r.project][r.commit] = TreeOf(b) /\ e.item.kind \in {"reference", "dependency"}
  BY ReadyFacts DEF Open, Links
<1>12. y.file = e.file /\ y.item = e.item /\ y.to = v /\ y.gen = h /\ y = Edge(e.file, e.item, y.to, y.gen)
  BY <1>6, <1>7, <1>9
<1> HIDE DEF x, y
<1>13. Leads(r, y)
  <2>1. y.gen \in r.against /\ y.to \in gens[y.gen].nodes /\ y.to.item.name = y.item.name
    BY <1>8, <1>10, <1>12 DEF Leaves
  <2>2. \E g \in r.against : \E w \in gens[g].nodes : w.item.name = y.item.name
    BY <2>1
  <2>3. y.item.kind = "dependency" => y.to.item.kind = "module"
    BY <1>10, <1>12 DEF Leaves
  <2>4. y.item.kind # "dependency" /\ Holding(TreeOf(b), y.file, y.item.name) # {} =>
          Depending(TreeOf(b), y.file, y.item.name) # {} /\ y.to.item.kind = "module"
    BY <1>10, <1>11, <1>12 DEF Leaves, HeldHere, DependedOn
  <2> QED
    BY <1>11, <2>1, <2>2, <2>3, <2>4 DEF Leads
<1> QED
  BY <1>4, <1>8, <1>12, <1>13 DEF x, y

\* A lost edge leaves no trace.
LEMMA LostFacts ==
    ASSUME NEW b, Ready(b), NEW e, Lost(b, e, Moved(b, e).to)
    PROVE  Moved(b, e).to \notin Kept(b) /\ There(b, Moved(b, e)) = {}
<1> DEFINE x == Moved(b, e)
<1>1. x.to \notin Kept(b) /\ x.to.project = b.project
  BY DEF Lost
<1>2. ASSUME NEW g \in There(b, x) PROVE FALSE
  <2>1. PICK row \in External(b, x.to) : row[2] = x.to
    BY <1>2 DEF There
  <2> QED
    BY <1>1, <2>1, ExternalFacts
<1> QED
  BY <1>1, <1>2

\* What a build resolves is sound.
LEMMA ResolvedSound ==
    ASSUME NEW b, Ready(b),
           NEW r, r.project = b.project, r.commit = b.commit, r.against = Others(b), r.nodes = Kept(b),
           r.edges = ResolvedEdges(b, GatheredNodes(b))
    PROVE  Sound(r, Past(b.project) \union {b.commit})
<1> DEFINE p == b.project
           tree == TreeOf(b)
           commits == Past(p) \union {b.commit}
<1>0. Tree[r.project][r.commit] = tree
  BY ReadyFacts
<1>1. r.against \subseteq DOMAIN gens
  BY OthersMembers DEF Ready
\* One edge of the build for each gathered one that is not lost.
<1>2. ASSUME NEW y \in r.edges
      PROVE  \E e \in GatheredEdges(b) : /\ Open(b, e) /\ y = Final(b, Moved(b, e))
                                         /\ ~Lost(b, e, Moved(b, e).to)
  <2>1. PICK e \in GatheredEdges(b) : /\ Moved(b, e).to \in Kept(b) \/ There(b, Moved(b, e)) # {}
                                      /\ y = Final(b, Moved(b, e))
    BY ResolvedMembers, Zenon
  <2> QED
    BY <2>1, GatheredOpen, LostFacts
<1>3. ASSUME NEW e \in GatheredEdges(b), ~Lost(b, e, Moved(b, e).to)
      PROVE  LET y == Final(b, Moved(b, e))
             IN  /\ y \in r.edges
                 /\ y.file = e.file /\ y.item = e.item /\ y = Edge(y.file, y.item, y.to, y.gen)
                 /\ y.gen = 0 => y.to \in Kept(b)
                 /\ y.gen = 0 => Stays(b, e, y.to)
                 /\ Leads(r, y)
  <2> DEFINE x == Moved(b, e)
             y == Final(b, x)
  <2>1. Open(b, e) /\ (Stays(b, e, x.to) \/ Leaves(b, e, x.to))
    BY <1>3, GatheredOpen, MovedFacts
  <2>2. CASE Stays(b, e, x.to)
    <3>1. y = Edge(e.file, e.item, x.to, 0) /\ y.to \in Kept(b) /\ Leads(r, y)
      BY <2>1, <2>2, StaysFacts
    <3>2. x.to \in Kept(b)
      BY <2>2 DEF Stays
    <3>3. y \in r.edges
      BY <3>2, ResolvedMembers, Zenon
    <3>4. y.file = e.file /\ y.item = e.item /\ y.to = x.to /\ y.gen = 0
      BY <3>1, EdgeFields
    <3> HIDE DEF x, y
    <3> QED
      BY <2>2, <3>1, <3>3, <3>4 DEF x, y
  <2>3. CASE Leaves(b, e, x.to)
    <3>1. There(b, x) # {} /\ y = Edge(e.file, e.item, y.to, y.gen) /\ y.gen # 0 /\ Leads(r, y)
      BY <2>1, <2>3, LeavesFacts
    <3>2. y \in r.edges
      <4>1. x.to \in Kept(b) \/ There(b, x) # {}
        BY <3>1
      <4> QED
        BY <4>1, ResolvedMembers
    <3>3. y.file = e.file /\ y.item = e.item
      BY <3>1, EdgeFields
    <3> HIDE DEF x, y
    <3> QED
      BY <3>1, <3>2, <3>3 DEF x, y
  <2> QED
    BY <2>1, <2>2, <2>3
<1>4. ASSUME NEW y \in r.edges
      PROVE  /\ y = Edge(y.file, y.item, y.to, y.gen)
             /\ y.file \in DOMAIN tree /\ y.item \in Links(tree[y.file])
             /\ y.gen = 0 => y.to \in r.nodes
             /\ Leads(r, y)
  <2>1. PICK e \in GatheredEdges(b) : /\ Open(b, e) /\ y = Final(b, Moved(b, e))
                                      /\ ~Lost(b, e, Moved(b, e).to)
    BY <1>2
  <2>2. /\ y.file = e.file /\ y.item = e.item /\ y = Edge(y.file, y.item, y.to, y.gen)
        /\ y.gen = 0 => y.to \in Kept(b)
        /\ Leads(r, y)
    BY <1>3, <2>1
  <2> QED
    BY <2>1, <2>2 DEF Open
<1>5. ASSUME NEW y \in r.edges, NEW z \in r.edges, y.file = z.file, y.item = z.item PROVE y = z
  <2>1. PICK d \in GatheredEdges(b) : y = Final(b, Moved(b, d)) /\ ~Lost(b, d, Moved(b, d).to)
    BY <1>2
  <2>2. PICK e \in GatheredEdges(b) : z = Final(b, Moved(b, e)) /\ ~Lost(b, e, Moved(b, e).to)
    BY <1>2
  <2>3. d.file = e.file /\ d.item = e.item
    BY <1>3, <1>5, <2>1, <2>2
  <2>4. d = e
    BY <2>3, GatheredOpen
  <2> QED
    BY <2>1, <2>2, <2>4
<1>6. ASSUME NEW f \in DOMAIN tree, NEW i \in Links(tree[f])
      PROVE  (\E y \in r.edges : y.file = f /\ y.item = i) \/ MayLackEdge(p, commits, f, i)
  <2>1. CASE MayLackEdge(p, Past(p), f, i)
    BY <2>1 DEF MayLackEdge
  <2>2. CASE ~MayLackEdge(p, Past(p), f, i)
    <3>1. PICK e \in GatheredEdges(b) : e.file = f /\ e.item = i
      BY <2>2, GatheredOpen
    <3>2. CASE Lost(b, e, Moved(b, e).to)
      <4>1. i.kind = "reference" /\ Depending(Tree[p][b.commit], f, i.name) # {}
        BY <3>1, <3>2, ReadyFacts DEF Lost, DependedOn
      <4> QED
        BY <4>1 DEF MayLackEdge
    <3>3. CASE ~Lost(b, e, Moved(b, e).to)
      BY <1>3, <3>1, <3>3
    <3> QED
      BY <3>2, <3>3
  <2> QED
    BY <2>1, <2>2
<1>7. ASSUME NEW f \in DOMAIN tree, NEW i \in tree[f], i.kind # "reference", Node(p, f, i) \notin Kept(b)
      PROVE  i.kind = "dependency" /\ \E y \in r.edges : y.file = f /\ y.item = i /\ y.gen # 0
  <2>1. Node(p, f, i) \in GatheredNodes(b) /\ Node(p, f, i).item = i
    BY <1>7, GatheredHolds, NodeFields
  <2>2. i.kind = "dependency"
    BY <1>7, <2>1, KeptOrNot
  <2>3. i \in Links(tree[f])
    BY <2>2 DEF Links
  <2>4. PICK e \in GatheredEdges(b) : e.file = f /\ e.item = i
    BY <2>2, <2>3, GatheredOpen DEF MayLackEdge
  <2>5. ~Lost(b, e, Moved(b, e).to)
    BY <2>2, <2>4 DEF Lost
  <2> DEFINE y == Final(b, Moved(b, e))
  <2>6. y \in r.edges /\ y.file = f /\ y.item = i /\ (y.gen = 0 => Stays(b, e, y.to))
    BY <1>3, <2>4, <2>5
  <2> HIDE DEF y
  <2>7. y.gen # 0
    BY <1>7, <2>2, <2>4, <2>6 DEF Stays, Own
  <2> QED
    BY <2>2, <2>6, <2>7
<1>8. NodesResolved(r)
  <2>1. \A v \in r.nodes : v.file \in DOMAIN tree /\ v.item \in tree[v.file] /\ v = Node(r.project, v.file, v.item)
    BY GatheredHolds DEF Kept, KeptNodes
  <2> QED
    BY <1>0, <1>7, <2>1 DEF NodesResolved
<1>9. EdgesResolved(r, commits)
  BY <1>0, <1>4, <1>5, <1>6 DEF EdgesResolved
<1> QED
  BY <1>1, <1>4, <1>8, <1>9 DEF Sound

-----------------------------------------------------------------------------
(* What was resolved stays so.                                             *)

\* Generations are added, and superseded; what they hold stays.
Grows ==
    /\ DOMAIN gens \subseteq DOMAIN gens'
    /\ \A g \in DOMAIN gens :
         /\ gens'[g].project = gens[g].project /\ gens'[g].commit = gens[g].commit
         /\ gens'[g].nodes = gens[g].nodes /\ gens'[g].edges = gens[g].edges /\ gens'[g].against = gens[g].against
         /\ gens'[g].status = "active" => gens[g].status = "active"

\* Two that hold the same.
Same(r, s) ==
    /\ s.project = r.project /\ s.commit = r.commit /\ s.against = r.against
    /\ s.nodes = r.nodes /\ s.edges = r.edges

LEMMA SoundStays ==
    ASSUME NEW r, NEW s, NEW commits, NEW more, commits \subseteq more,
           Grows, Same(r, s), Sound(r, commits)
    PROVE  Sound(s, more)'
<1>1. r.against \subseteq DOMAIN gens /\ s.against = r.against
  BY DEF Sound, Same
<1>2. s.against \subseteq DOMAIN gens'
  BY <1>1 DEF Grows
<1>3. \A h \in r.against : gens'[h].nodes = gens[h].nodes
  BY <1>1 DEF Grows
<1>4. ASSUME NEW e, Leads(r, e) PROVE Leads(s, e)'
  <2> DEFINE Else(n) == \E h \in r.against : \E v \in gens[h].nodes : v.item.name = n
  <2>1. e.gen \in s.against /\ e.to \in gens'[e.gen].nodes <=> e.gen \in r.against /\ e.to \in gens[e.gen].nodes
    BY <1>1, <1>3
  <2>2. (\E h \in s.against : \E v \in gens'[h].nodes : v.item.name = e.item.name) <=> Else(e.item.name)
    BY <1>1, <1>3
  <2>3. s.project = r.project /\ s.commit = r.commit
    BY DEF Same
  <2> QED
    BY <1>4, <2>1, <2>2, <2>3 DEF Leads
<1>5. \A f, i : MayLackEdge(r.project, commits, f, i) => MayLackEdge(r.project, more, f, i)
  BY DEF MayLackEdge
<1>6. EdgesResolved(s, more)'
  <2>1. EdgesResolved(r, commits)
    BY DEF Sound
  <2>2. s.project = r.project /\ s.commit = r.commit /\ s.nodes = r.nodes /\ s.edges = r.edges
    BY DEF Same
  <2> QED
    BY <1>4, <1>5, <2>1, <2>2 DEF EdgesResolved
<1>7. NodesResolved(s)
  BY DEF Sound, Same, NodesResolved
<1>8. \A e \in s.edges : e = Edge(e.file, e.item, e.to, e.gen)
  BY DEF Sound, Same
<1> QED
  BY <1>2, <1>6, <1>7, <1>8 DEF Sound

LEMMA RowStays == ASSUME Grows, NEW g \in DOMAIN gens, RowSound(g) PROVE RowSound(g)'
<1>1. PICK r, s, commits, more :
         r = gens[g] /\ s = gens'[g] /\ commits = CommitsUpTo(g) /\ more = CommitsUpTo(g)'
  OBVIOUS
<1>2. r.commit \in DOMAIN Tree[r.project] /\ Sound(r, commits)
  BY <1>1 DEF RowSound
<1>3. Same(r, s)
  BY <1>1 DEF Grows, Same
<1>4. commits \subseteq more
  BY <1>1 DEF CommitsUpTo, Grows
<1>5. Sound(s, more)'
  BY <1>2, <1>3, <1>4, SoundStays
<1>6. s.commit \in DOMAIN Tree[s.project]
  BY <1>2, <1>3 DEF Same
<1> QED
  BY <1>1, <1>5, <1>6, Zenon DEF RowSound

\* The commits of a project's generations stay.
LEMMA PastStays == ASSUME Grows, NEW p PROVE Past(p) \subseteq Past(p)'
BY DEF Grows, Past

\* What a build is about to publish stays sound.
LEMMA BuildStays ==
    ASSUME Grows, NEW b, Sound(b, Past(b.project) \union {b.commit})
    PROVE  Sound(b, Past(b.project) \union {b.commit})'
<1>1. PICK commits, more :
         commits = Past(b.project) \union {b.commit} /\ more = (Past(b.project) \union {b.commit})'
  OBVIOUS
<1>2. commits \subseteq more
  BY <1>1, PastStays
<1>3. Sound(b, more)'
  BY <1>1, <1>2, SoundStays DEF Same
<1> QED
  BY <1>1, <1>3, Zenon

LEMMA ReadStays == ASSUME IInv, Grows, NEW b, BuildOK(b), ReadsOK(b) PROVE ReadsOK(b)'
<1>1. b.pc \in {"projection", "resolve", "publish"} /\ b.prior # 0 =>
         /\ b.prior \in DOMAIN gens
         /\ gens'[b.prior].project = gens[b.prior].project /\ gens'[b.prior].commit = gens[b.prior].commit
         /\ gens'[b.prior].nodes = gens[b.prior].nodes /\ gens'[b.prior].edges = gens[b.prior].edges
  BY GensFacts DEF BuildOK, Grows
<1>2. b.pc \in {"resolve", "publish"} /\ Undisturbed(b)' => Undisturbed(b)
  BY <1>1 DEF Undisturbed, Grows
<1>3. b # Idle => b.commit \in DOMAIN Tree[b.project]
  BY DEF ReadsOK
<1>4. b.pc \in {"projection", "resolve"} =>
         /\ b.prior # 0 => gens'[b.prior].project = b.project
         /\ b.sources = IF b.prior = 0 THEN <<>> ELSE Tree[b.project][gens'[b.prior].commit]
  BY <1>1 DEF ReadsOK
<1>5. b.pc = "resolve" /\ Undisturbed(b)' =>
         IF b.prior = 0 THEN b.nodes = {} /\ b.edges = {}
         ELSE /\ b.nodes = gens'[b.prior].nodes
              /\ b.edges \subseteq gens'[b.prior].edges
              /\ {e \in gens'[b.prior].edges : e.gen = 0} \subseteq b.edges
  BY <1>1, <1>2 DEF ReadsOK
<1>6. ASSUME b.pc = "publish", Undisturbed(b)' PROVE Sound(b, Past(b.project) \union {b.commit})'
  <2>1. Sound(b, Past(b.project) \union {b.commit})
    BY <1>2, <1>6 DEF ReadsOK
  <2> QED
    BY <2>1, BuildStays
<1> QED
  BY <1>3, <1>4, <1>5, <1>6 DEF ReadsOK

LEMMA IdleReads == ReadsOK(Idle)
BY DEF ReadsOK, Idle

\* A step of one build that leaves the generations alone.
LEMMA BuildsRead ==
    ASSUME IInv, RInv, NEW who \in Builders, NEW b, build' = [build EXCEPT ![who] = b], ReadsOK(b),
           UNCHANGED <<head, gens>>
    PROVE  RInv'
<1>1. DOMAIN build' = Builders /\ \A w \in Builders : build'[w] = IF w = who THEN b ELSE build[w]
  BY DEF IInv
<1>2. Grows
  BY DEF Grows
<1>3. ASSUME NEW w \in Builders PROVE ReadsOK(build[w])'
  <2>1. PICK x : x = build'[w]
    OBVIOUS
  <2>2. ReadsOK(x)
    BY <1>1, <2>1 DEF RInv
  <2>3. ReadsOK(x)'
    <3>1. Undisturbed(x)' <=> Undisturbed(x)
      BY DEF Undisturbed
    <3>2. ASSUME Sound(x, Past(x.project) \union {x.commit})
          PROVE  Sound(x, Past(x.project) \union {x.commit})'
      BY <1>2, <3>2, BuildStays
    <3> QED
      BY <2>2, <3>1, <3>2 DEF ReadsOK
  <2> QED
    BY <2>1, <2>3 DEF ReadsOK, Undisturbed
<1>4. \A g \in DOMAIN gens : RowSound(g)'
  BY <1>2, RowStays DEF RInv
<1> QED
  BY <1>3, <1>4 DEF RInv

LEMMA StartReads == ASSUME IInv, RInv, NEW who \in Builders, NEW p \in Projects, Start(who, p) PROVE RInv'
<1> DEFINE b == [pc |-> "generation", project |-> p, commit |-> head[p], seen |-> moves]
<1>1. ReadsOK(b)
  BY DEF ReadsOK, RInv
<1> HIDE DEF b
<1> QED
  BY <1>1, BuildsRead DEF Start, b

LEMMA ReadGenerationReads == ASSUME IInv, RInv, NEW who \in Builders, ReadGeneration(who) PROVE RInv'
<1> DEFINE b == build[who]
           g == ActiveOf(b.project)
           c == [pc |-> "projection", project |-> b.project, commit |-> b.commit, seen |-> b.seen,
                 prior |-> g,
                 sources |-> IF g = 0 THEN <<>> ELSE Tree[b.project][gens[g].commit]]
<1>1. b.pc = "generation" /\ b # Idle /\ b.project \in Projects /\ b.commit \in DOMAIN Tree[b.project]
  <2>1. b.pc = "generation" /\ b # Idle
    BY DEF ReadGeneration, Idle
  <2>2. BuildOK(b) /\ ReadsOK(b)
    BY DEF IInv, RInv
  <2> QED
    BY <2>1, <2>2 DEF BuildOK, ReadsOK
<1>2. g # 0 => gens[g].project = b.project
  BY <1>1, ActiveFacts DEF Active
<1>3. ReadsOK(c)
  BY <1>1, <1>2 DEF ReadsOK
<1>4. build' = [build EXCEPT ![who] = c] /\ UNCHANGED <<head, gens>>
  BY DEF ReadGeneration
<1> HIDE DEF c
<1> QED
  BY <1>3, <1>4, BuildsRead

\* While the generation is active its nodes show, and all its own edges.
LEMMA ReadProjectionReads == ASSUME IInv, RInv, NEW who \in Builders, ReadProjection(who) PROVE RInv'
<1> DEFINE b == build[who]
           c == [pc |-> "resolve", project |-> b.project, commit |-> b.commit, seen |-> b.seen,
                 prior |-> b.prior,
                 sources |-> b.sources,
                 nodes |-> IF b.prior = 0 THEN {} ELSE VisibleNodes(b.prior),
                 edges |-> IF b.prior = 0 \/ VisibleNodes(b.prior) = {} THEN {}
                           ELSE VisibleEdges(b.prior)]
           g == b.prior
<1>1. b.pc = "projection" /\ b # Idle /\ b.prior \in 0 .. Len(gens) /\ ReadsOK(b)
  BY DEF IInv, RInv, BuildOK, ReadProjection, Idle
<1>2. /\ b.commit \in DOMAIN Tree[b.project]
      /\ b.prior # 0 => gens[b.prior].project = b.project
      /\ b.sources = IF b.prior = 0 THEN <<>> ELSE Tree[b.project][gens[b.prior].commit]
  BY <1>1 DEF ReadsOK
<1>3. ASSUME g # 0, gens[g].status = "active"
      PROVE  c.nodes = gens[g].nodes /\ c.edges \subseteq gens[g].edges
             /\ {e \in gens[g].edges : e.gen = 0} \subseteq c.edges
  <2>1. VisibleNodes(g) = gens[g].nodes
    BY <1>3 DEF VisibleNodes
  <2>2. CASE gens[g].nodes = {}
    <3>1. g \in DOMAIN gens
      BY <1>1, <1>3, GensFacts
    <3>2. EdgesResolved(gens[g], CommitsUpTo(g))
      BY <3>1 DEF RInv, RowSound, Sound
    <3>3. \A e \in gens[g].edges : e.gen = 0 => e.to \in gens[g].nodes
      BY <3>2 DEF EdgesResolved
    <3>4. c.edges = {} /\ {e \in gens[g].edges : e.gen = 0} = {}
      BY <1>3, <2>1, <2>2, <3>3
    <3> QED
      BY <1>3, <2>1, <3>4
  <2>3. CASE gens[g].nodes # {}
    <3>1. c.edges = VisibleEdges(g)
      BY <1>3, <2>1, <2>3
    <3> QED
      BY <1>3, <2>1, <3>1 DEF VisibleEdges
  <2> QED
    BY <2>2, <2>3
<1>4. ReadsOK(c)
  <2>1. g = 0 => c.nodes = {} /\ c.edges = {}
    OBVIOUS
  <2>2. c.pc = "resolve" /\ c.project = b.project /\ c.commit = b.commit /\ c.prior = g /\ c.sources = b.sources
    OBVIOUS
  <2> HIDE DEF c
  <2> QED
    BY <1>2, <1>3, <2>1, <2>2 DEF ReadsOK, Undisturbed
<1>5. build' = [build EXCEPT ![who] = c] /\ UNCHANGED <<head, gens>>
  BY DEF ReadProjection
<1> HIDE DEF c
<1> QED
  BY <1>4, <1>5, BuildsRead

LEMMA ResolveReads == ASSUME IInv, RInv, NEW who \in Builders, Resolve(who) PROVE RInv'
<1> DEFINE b == build[who]
           gathered == GatheredNodes(b)
           nodes == KeptNodes(b, gathered)
           c == [pc |-> "publish", project |-> b.project, commit |-> b.commit, prior |-> b.prior,
                 nodes |-> nodes, edges |-> ResolvedEdges(b, gathered), evidence |-> Evidence(b, nodes),
                 against |-> UNION {Active(p) : p \in Projects \ {b.project}},
                 at |-> IF head[b.project] = b.commit THEN moves ELSE b.seen]
<1>1. b.pc = "resolve" /\ b # Idle /\ BuildOK(b) /\ ReadsOK(b)
  BY DEF IInv, RInv, Resolve, Idle
<1>2. CASE HeadUnchanged(b)
  <2>1. /\ c.pc = "publish" /\ c.project = b.project /\ c.commit = b.commit /\ c.prior = b.prior
        /\ c.nodes = Kept(b) /\ c.edges = ResolvedEdges(b, GatheredNodes(b)) /\ c.against = Others(b)
    BY DEF Kept, Others
  <2>2. build' = [build EXCEPT ![who] = c] /\ UNCHANGED <<head, gens>>
    BY <1>2 DEF Resolve
  <2> HIDE DEF c
  <2>3. b.commit \in DOMAIN Tree[b.project]
    BY <1>1 DEF ReadsOK
  <2>4. ASSUME Undisturbed(c) PROVE Sound(c, Past(c.project) \union {c.commit})
    <3>1. Undisturbed(b)
      BY <2>1, <2>4 DEF Undisturbed
    <3>2. Ready(b)
      BY <1>1, <3>1 DEF Ready
    <3> QED
      BY <2>1, <3>2, ResolvedSound
  <2>5. ReadsOK(c)
    BY <2>1, <2>3, <2>4 DEF ReadsOK
  <2> QED
    BY <2>2, <2>5, BuildsRead
<1>3. CASE ~ HeadUnchanged(b)
  BY <1>3, IdleReads, BuildsRead DEF Resolve
<1> QED
  BY <1>2, <1>3

LEMMA EndReads == ASSUME IInv, RInv, NEW who \in Builders, Refuse(who) \/ Kill(who) PROVE RInv'
BY IdleReads, BuildsRead DEF Refuse, Kill

\* What is published is sound: the generation read is the active one still.
LEMMA PublishReads == ASSUME IInv, RInv, NEW who \in Builders, Publish(who) PROVE RInv'
<1>1. PICK b : b = build[who]
  OBVIOUS
<1>2. PICK n : n = Len(gens) + 1
  OBVIOUS
<1>3. /\ b.pc = "publish" /\ b # Idle /\ b.prior = ActiveOf(b.project) /\ DOMAIN build = Builders
      /\ build' = [build EXCEPT ![who] = Idle] /\ UNCHANGED <<head, moves, status>>
      /\ BuildOK(b) /\ ReadsOK(b)
  BY <1>1 DEF Publish, PriorIsActive, IInv, RInv, Idle
<1>4. b.project \in Projects /\ b.commit \in DOMAIN Tree[b.project]
  BY <1>3 DEF BuildOK, ReadsOK
<1>5. Undisturbed(b)
  BY <1>3, <1>4, ActiveFacts DEF Undisturbed, Active
<1>6. Sound(b, Past(b.project) \union {b.commit})
  BY <1>3, <1>5 DEF ReadsOK
<1>7. Appended(b)
  BY <1>1, PublishAppends
<1>8. DOMAIN gens' = DOMAIN gens \cup {n} /\ gens'[n] = Published(b)
  BY <1>2, <1>7, GensFacts DEF Appended
<1>9. Grows
  BY <1>7, <1>8 DEF Appended, Grows
<1>10. RowSound(n)'
  <2>1. PICK r, commits, more :
           r = gens'[n] /\ commits = Past(b.project) \union {b.commit} /\ more = CommitsUpTo(n)'
    OBVIOUS
  <2>2. Same(b, r)
    BY <1>8, <2>1 DEF Published, Same
  <2>3. commits \subseteq more
    <3>1. \A g \in DOMAIN gens : g <= n /\ g \in DOMAIN gens'
      BY <1>2, <1>8, GensFacts
    <3>2. n <= n
      BY <1>2, GensFacts
    <3>3. Past(b.project) \subseteq more
      BY <1>8, <1>9, <2>1, <2>2, <3>1 DEF Grows, Past, CommitsUpTo, Same
    <3>4. b.commit \in more
      BY <1>8, <2>1, <2>2, <3>2 DEF CommitsUpTo, Same
    <3> QED
      BY <2>1, <3>3, <3>4
  <2>4. Sound(r, more)'
    BY <1>6, <1>9, <2>1, <2>2, <2>3, SoundStays
  <2>5. r.commit \in DOMAIN Tree[r.project]
    BY <1>4, <2>2 DEF Same
  <2> QED
    BY <2>1, <2>4, <2>5, Zenon DEF RowSound
<1>11. \A g \in DOMAIN gens : RowSound(g)'
  BY <1>9, RowStays DEF RInv
<1>12. ASSUME NEW w \in Builders PROVE ReadsOK(build[w])'
  <2>1. PICK x : x = build'[w]
    OBVIOUS
  <2>2. ReadsOK(x)'
    <3>1. CASE w = who
      BY <1>3, <2>1, <3>1 DEF ReadsOK, Idle
    <3>2. CASE w # who
      <4>1. x = build[w]
        BY <1>3, <2>1, <3>2
      <4>2. BuildOK(x) /\ ReadsOK(x)
        BY <4>1 DEF IInv, RInv
      <4> QED
        BY <1>9, <4>2, ReadStays
    <3> QED
      BY <3>1, <3>2
  <2> QED
    BY <2>1, <2>2 DEF ReadsOK, Undisturbed
<1>13. \A p \in Projects : head'[p] \in DOMAIN Tree[p]
  BY <1>3 DEF RInv
<1> QED
  BY <1>8, <1>10, <1>11, <1>12, <1>13 DEF RInv

\* Steps that leave generations and builds alone.
LEMMA OthersRead ==
    ASSUME IInv, RInv, UNCHANGED <<gens, build>>, \A p \in Projects : head'[p] \in DOMAIN Tree[p]
    PROVE  RInv'
<1>1. Grows
  BY DEF Grows
<1>2. \A g \in DOMAIN gens : RowSound(g)'
  BY <1>1, RowStays DEF RInv
<1>3. ASSUME NEW w \in Builders PROVE ReadsOK(build[w])'
  <2>1. PICK x : x = build[w]
    OBVIOUS
  <2>2. ReadsOK(x)'
    BY <1>1, <2>1, ReadStays DEF IInv, RInv
  <2> QED
    BY <2>1, <2>2 DEF ReadsOK, Undisturbed
<1> QED
  BY <1>2, <1>3 DEF RInv

LEMMA MoveHeadReads ==
    ASSUME IInv, RInv, NEW p \in Projects, NEW c \in DOMAIN Tree[p], MoveHead(p, c)
    PROVE  RInv'
<1>1. UNCHANGED <<gens, build>> /\ \A q \in Projects : head'[q] \in DOMAIN Tree[q]
  BY DEF MoveHead, IInv, RInv
<1> QED
  BY <1>1, OthersRead

LEMMA ForgetReads == ASSUME IInv, RInv, NEW r \in Records, Forget(r) PROVE RInv'
BY OthersRead DEF Forget, RInv

LEMMA StutterReads == ASSUME IInv, RInv, UNCHANGED vars PROVE RInv'
BY OthersRead DEF vars, RInv

LEMMA InitReads == Init => RInv
<1>1. Init => DOMAIN gens = {} /\ \A p \in Projects : head[p] \in DOMAIN Tree[p]
  BY DEF Init
<1>2. Init => \A who \in Builders : ReadsOK(build[who])
  BY IdleReads DEF Init
<1> QED
  BY <1>1, <1>2 DEF RInv

LEMMA NextReads == IInv /\ RInv /\ [Next]_vars => RInv'
BY StartReads, ReadGenerationReads, ReadProjectionReads, ResolveReads, PublishReads, EndReads,
   MoveHeadReads, ForgetReads, StutterReads DEF Next

\* Every generation, and every build that may yet be published, is what its
\* commit holds, with the edges of its references and dependencies.
THEOREM Resolution == Spec => []RInv
BY InitReads, NextReads, Invariance, PTL DEF Spec

\* Whichever facts a build reused, its generation has what its commit has, and
\* the edges lead where they should.
THEOREM ReferencesAreResolved == Spec => []ReferencesResolved
<1>1. RInv => ReferencesResolved
  BY DEF RInv, RowSound, Sound, ReferencesResolved
<1> QED
  BY <1>1, Resolution, PTL

=============================================================================
