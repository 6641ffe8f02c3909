---------------------------- MODULE ResultEnvelope ----------------------------
(***************************************************************************)
(* How answers are cut to a caller's token budget: fitSearchEnvelope,      *)
(* fitResultWithinEnvelope and fitContextPack of src/store.js, in the      *)
(* order in which the vault and HybridEngine (src/embeddings.js) call      *)
(* them: the vault fits a search, the engine fits it again with metadata   *)
(* of its own, and a context pack fits the results once more.              *)
(*                                                                         *)
(* Data are their sizes in bytes of JSON; a token is four bytes, rounded   *)
(* up.  A body has a length in UTF-16 units: one byte each, or surrogate   *)
(* pairs of four bytes, half of which costs six.                           *)
(***************************************************************************)
EXTENDS Integers, Sequences

CONSTANTS
  Budgets,      \* What callers ask for.
  Metas,        \* [inner, outer, compact, gens, cited]: the sizes of the retrieval
                \* fields of the vault, of the engine (0: it adds none) and in a trimmed
                \* pack, and of the summaries of generations, longest first; and
                \* whether a pack of the answer cites its retrieval.
  Responses,    \* Sequences of items: [head, tags, signals, body, wide].
  Payloads      \* [project, task, dated]: the fields of a pack.

Items == [head : Nat, tags : Nat, signals : Nat, body : Nat, wide : BOOLEAN]

ASSUME BudgetsAssumption == Budgets \subseteq Int

\* "The fixed retrieval fields fit the public minimum budget": with the least
\* detailed summary, the only one there always is; and so do those of a pack.
ASSUME MetasAssumption ==
  \A m \in Metas :
    /\ m \in [inner : Nat, outer : Nat, compact : Nat, gens : Seq(Nat) \ {<<>>}, cited : BOOLEAN]
    /\ 27 + m.inner + m.gens[Len(m.gens)] <= 256
    /\ 27 + m.outer + m.gens[Len(m.gens)] <= 256
    /\ m.compact <= 106

ASSUME ResponsesAssumption == Responses \subseteq Seq(Items)

ASSUME PayloadsAssumption == Payloads \subseteq [project : Nat, task : Nat, dated : Nat]

VARIABLES
  stage,
  budget,
  meta,
  payload,
  left,         \* The items not fitted yet.
  results,      \* The items fitted, as they were cut.
  gens,         \* The sizes of the summaries to choose from.
  level,        \* The summary chosen.
  pack          \* The sizes of the pack's fields, and what it reports.

fitVars == <<stage, budget, meta, payload, left, results, gens, level, pack>>

-----------------------------------------------------------------------------
(* Sizes.                                                                  *)

Ceil4(bytes) == (bytes + 3) \div 4

Power == <<10, 100, 1000, 10000, 100000, 1000000, 10000000, 100000000>>

\* Of a size; none has more than nine digits.
Digits(n) ==
  CHOOSE d \in 1 .. 9 : (d = 1 \/ Power[d - 1] <= n) /\ (d = 9 \/ n < Power[d])

TokenLimit == IF budget < 64 THEN 64 ELSE IF budget > 32000 THEN 32000 ELSE budget

BodySize(item) ==
  IF item.wide THEN 4 * (item.body \div 2) + 6 * (item.body % 2) ELSE item.body

ItemSize(item) == item.head + item.tags + item.signals + BodySize(item)

\* With the commas between them.
ItemsSize(items) ==
  LET sum[n \in 0 .. Len(items)] == IF n = 0 THEN 0 ELSE sum[n - 1] + ItemSize(items[n])
  IN  sum[Len(items)] + (IF items = <<>> THEN 0 ELSE Len(items) - 1)

MetaSize == IF stage = "search" THEN meta.inner ELSE meta.outer

SearchSize(items, lev) == 27 + ItemsSize(items) + MetaSize + gens[lev]

\* A mutant of SearchFits, below: without the retrieval's metadata.
ResultsFit(items, lev) == Ceil4(27 + ItemsSize(items)) <= TokenLimit

SearchFits(items, lev) == Ceil4(SearchSize(items, lev)) <= TokenLimit

-----------------------------------------------------------------------------
(* The elastic body.                                                       *)

Truncated(item, n) == [item EXCEPT !.body = n]

Narrowed(low, high) == low > high

\* A step of fitResultWithinEnvelope's bisection among the lengths that fit.
Halved(range, fitting) ==
  LET mid == (range.low + range.high) \div 2
  IN  IF Narrowed(range.low, range.high) THEN range
      ELSE IF mid > 0 /\ mid \in fitting THEN [low |-> mid + 1, high |-> range.high, best |-> mid]
      ELSE [low |-> range.low, high |-> mid - 1, best |-> range.best]

\* Each step leaves half of the lengths, and no string has 2^30 units.
Halvings == 31

\* The length it finds, 0 for none.
Bisect(length, fitting) ==
  LET after[k \in 0 .. Halvings] ==
        IF k = 0 THEN [low |-> 0, high |-> length, best |-> 0] ELSE Halved(after[k - 1], fitting)
  IN  after[Halvings].best

\* The item whole, or as much of its body as fits; none for nothing.
Fitted(item, fitting) ==
  IF item.body \in fitting THEN <<item>>
  ELSE LET n == Bisect(item.body, fitting)
       IN  IF n = 0 THEN <<>> ELSE <<Truncated(item, n)>>

-----------------------------------------------------------------------------
(* fitSearchEnvelope.                                                      *)

\* The least detailed summary, where none fits.
FirstLevel(size, levels) ==
  LET fit == {i \in DOMAIN levels : Ceil4(27 + size + levels[i]) <= TokenLimit}
  IN  IF fit = {} THEN Len(levels) ELSE CHOOSE i \in fit : \A j \in fit : i <= j

\* An item as it is, without feedback and tags, and without signals too.
Variants(item) ==
  <<item, [item EXCEPT !.tags = 0], [item EXCEPT !.tags = 0, !.signals = 0]>>

\* The ways to add an item: first whole, giving up its extras before the
\* summary, then with its body cut at each summary in turn.
WholeWays(item) ==
  {way \in (1 .. 3) \X (level .. Len(gens)) :
     SearchFits(Append(results, Variants(item)[way[1]]), way[2])}

CutWays(item) ==
  {lev \in level .. Len(gens) :
     Fitted(Variants(item)[3],
            {n \in 0 .. item.body : SearchFits(Append(results, Truncated(Variants(item)[3], n)), lev)}) # <<>>}

Place(item, lev) ==
  /\ results' = Append(results, item)
  /\ level' = lev
  /\ left' = Tail(left)

FitWhole ==
  /\ stage \in {"search", "again"}
  /\ left # <<>>
  /\ \E way \in WholeWays(Head(left)) :
       /\ \A w \in WholeWays(Head(left)) :
            way[1] < w[1] \/ (way[1] = w[1] /\ way[2] <= w[2])
       /\ Place(Variants(Head(left))[way[1]], way[2])
  /\ UNCHANGED <<stage, budget, meta, payload, gens, pack>>

FitCut ==
  /\ stage \in {"search", "again"}
  /\ left # <<>>
  /\ WholeWays(Head(left)) = {}
  /\ \E lev \in CutWays(Head(left)) :
       /\ \A l \in CutWays(Head(left)) : lev <= l
       /\ LET item == Variants(Head(left))[3]
          IN  Place(Fitted(item, {n \in 0 .. item.body :
                      SearchFits(Append(results, Truncated(item, n)), lev)})[1], lev)
  /\ UNCHANGED <<stage, budget, meta, payload, gens, pack>>

\* Nothing is left, or the next item has no place; then neither have later ones.
SearchEnds ==
  /\ stage \in {"search", "again"}
  /\ left # <<>> => WholeWays(Head(left)) = {} /\ CutWays(Head(left)) = {}

\* graphGenerationVariants of the summary chosen before: of the least one, a
\* longer one with nothing in it is made anew.
Regained ==
  IF Len(gens) > 1 /\ level = Len(gens) THEN <<gens[level], gens[level] + 19>>
  ELSE SubSeq(gens, level, Len(gens))

FitAgain ==
  /\ stage = "search"
  /\ SearchEnds
  /\ meta.outer > 0
  /\ stage' = "again"
  /\ left' = results
  /\ results' = <<>>
  /\ gens' = Regained
  /\ level' = FirstLevel(meta.outer, Regained)
  /\ UNCHANGED <<budget, meta, payload, pack>>

-----------------------------------------------------------------------------
(* fitContextPack.                                                         *)

\* The size of a pack but for its memories; absent fields have none.
FieldsSize(p) ==
  130 + Digits(TokenLimit) + Digits(p.tokens) + Digits(p.bytes)
      + p.project + p.task + p.dated + p.retrieval + p.warning

PackSize(p, items) == FieldsSize(p) + ItemsSize(items)

TooLong(p) == Ceil4(FieldsSize(p)) > TokenLimit

Task(n) == IF payload.task < n THEN payload.task + 10 ELSE n + 10

\* The three trims before the memories are added; a mutant leaves the last out.
Shortened(p) == IF TooLong(p) THEN [p EXCEPT !.task = Task(64), !.warning = 51] ELSE p
Undated(p) == IF TooLong(p) THEN [p EXCEPT !.task = Task(24), !.dated = 0] ELSE p
CompactedNever(p) == p
Compacted(p) ==
  IF TooLong(p) /\ p.retrieval > 0 THEN [p EXCEPT !.retrieval = 13 + meta.compact] ELSE p

\* The engine's packs cite the retrieval, as the engine fitted it or, graph-only
\* and sufficient graph-first, as the vault did; the vault's own packs do not.
\* The numbers are placeholders as wide as any.
BeginPack ==
  /\ stage \in {"search", "again"}
  /\ SearchEnds
  /\ stage = "again" \/ meta.outer = 0
  /\ pack' = Compacted(Undated(Shortened(
       [project |-> payload.project, task |-> Task(512), dated |-> payload.dated,
        retrieval |-> IF meta.cited THEN 13 + MetaSize + gens[level] ELSE 0,
        warning |-> 96, tokens |-> 32000, bytes |-> 128000])))
  /\ stage' = "pack"
  /\ left' = results
  /\ results' = <<>>
  /\ UNCHANGED <<budget, meta, payload, gens, level>>

PackLengths(item) ==
  {n \in 0 .. item.body : Ceil4(PackSize(pack, Append(results, Truncated(item, n)))) <= TokenLimit}

PackItem ==
  /\ stage = "pack"
  /\ left # <<>>
  /\ LET fitted == Fitted(Head(left), PackLengths(Head(left)))
     IN  IF fitted = <<>>
         THEN left' = <<>> /\ UNCHANGED results
         ELSE left' = Tail(left) /\ results' = results \o fitted
  /\ UNCHANGED <<stage, budget, meta, payload, gens, level, pack>>

\* A mutant of Attempts, below.
AttemptsOnce == 1

Attempts == 6

\* measure: the numbers are part of what they measure.
Reported(p, items) ==
  [p EXCEPT !.bytes = PackSize(p, items), !.tokens = Ceil4(PackSize(p, items))]

Measured(p, items) ==
  LET after[i \in 0 .. Attempts] == IF i = 0 THEN p ELSE Reported(after[i - 1], items)
  IN  after[Attempts]

\* Memories are popped, then fields dropped, while it is too long.
Popped(p, items) ==
  LET Kept(k) == SubSeq(items, 1, Len(items) - k)
      after[k \in 0 .. Len(items)] == Measured(IF k = 0 THEN p ELSE after[k - 1], Kept(k))
      Ends(k) == after[k].tokens <= TokenLimit \/ k = Len(items)
      pops == CHOOSE k \in 0 .. Len(items) : Ends(k) /\ \A j \in 0 .. k - 1 : ~Ends(j)
  IN  <<after[pops], Kept(pops)>>

Settle ==
  /\ stage = "pack"
  /\ left = <<>>
  /\ LET popped == Popped(pack, results)
         p == popped[1]
         named == IF p.tokens > TokenLimit
                  THEN Measured([p EXCEPT !.project = 0, !.task = 0, !.warning = 32], popped[2])
                  ELSE p
     IN  /\ pack' = IF named.tokens > TokenLimit /\ named.retrieval > 0
                    THEN Measured([named EXCEPT !.warning = 0], popped[2])
                    ELSE named
         /\ results' = popped[2]
  /\ stage' = "done"
  /\ UNCHANGED <<budget, meta, payload, left, gens, level>>

-----------------------------------------------------------------------------

InitFit ==
  /\ budget \in Budgets
  /\ meta \in Metas
  /\ payload \in Payloads
  /\ left \in Responses
  /\ stage = "search"
  /\ results = <<>>
  /\ gens = meta.gens
  /\ level = FirstLevel(meta.inner, gens)
  /\ pack = [tokens |-> 0]

NextFit == FitWhole \/ FitCut \/ FitAgain \/ BeginPack \/ PackItem \/ Settle

SpecFit == InitFit /\ [][NextFit]_fitVars

-----------------------------------------------------------------------------
(* Properties.                                                             *)

\* No answer, at any stage, is longer than the budget the caller gave, not
\* even at the least budget, where only the names of things are left.
WithinBudget ==
  /\ stage \in {"search", "again"} => Ceil4(SearchSize(results, level)) <= TokenLimit
  /\ stage = "done" => Ceil4(PackSize(pack, results)) <= TokenLimit

\* A pack reports its own size, digits of the report included.
ReportIsTrue ==
  stage = "done" => pack.bytes = PackSize(pack, results) /\ pack.tokens = Ceil4(pack.bytes)

=============================================================================
