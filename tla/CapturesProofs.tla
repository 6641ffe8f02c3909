--------------------------- MODULE CapturesProofs ---------------------------
(***************************************************************************)
(* Theorems about Captures, for any number of processes, agents, keys,     *)
(* contents and rows, and any quota.                                       *)
(*                                                                         *)
(* Rows are inserted and then kept: agent, key, kind and subject never     *)
(* change, and a row never comes back (Kept).  What the properties add     *)
(* depends on what an insertion has looked for (Inserted).  The quota and  *)
(* the conflicts depend on what assessments under way have still in hand:  *)
(* the invariant IInv counts them with the rows stored (PendingIsCounted)  *)
(* and says that they contradict nothing they saw (SeenIsCompatible).      *)
(***************************************************************************)
EXTENDS Captures, FiniteSetTheorems, TLAPS

-----------------------------------------------------------------------------
(* What a step does to a row there is, and how it inserts one.             *)

Open(row) == row.status \in Pending \union {"active"} /\ row.memory.expiry # "lapsed"

Lifecycle(old, new) ==
  \/ new = old
  \/ old \in Pending /\ new \in {"active", "proposed", "tombstoned"}
  \/ old = "active" /\ new \in {"superseded", "tombstoned"}
  \/ old = "superseded" /\ new = "tombstoned"

Kept(i) ==
  /\ Lifecycle(rec[i].status, rec'[i].status)
  /\ rec'[i].memory.agent = rec[i].memory.agent
  /\ rec'[i].memory.key = rec[i].memory.key
  /\ rec'[i].memory.kind = rec[i].memory.kind
  /\ rec'[i].memory.subject = rec[i].memory.subject
  /\ rec'[i].origin \in {rec[i].origin, "unchecked"}
  /\ rec'[i].memory.body # rec[i].memory.body =>
       rec'[i].origin = "unchecked" /\ rec[i].status \in Pending
  /\ Open(rec'[i]) => Open(rec[i])

\* A row that a process has captured under its assessment.
Captured(p, i) ==
  /\ rec[i].status = "absent"
  /\ assessed[p] # None
  /\ assessed' = [assessed EXCEPT ![p] = None]
  /\ rec'[i] = Row(assessed[p].memory, assessed[p].disposition, "agent")

Inserted(i) ==
  /\ rec'[i] \in Rows
  /\ ~Known(rec'[i].memory)
  /\ rec'[i].origin # "unchecked" => SameContent(rec'[i].memory) = {}
  /\ IF rec'[i].origin = "agent" THEN \E p \in Processes : Captured(p, i)
                                 ELSE UNCHANGED assessed
  /\ UNCHANGED aliases
  /\ \A j \in Ids \ Used : j # i => rec'[j] = rec[j]

\* What every step does to the rows.
Fates ==
  /\ rec' \in [Ids -> Rows \union {NoRow}]
  /\ \A i \in Used : Kept(i)
  /\ \A i \in Ids \ Used : rec'[i] = rec[i] \/ Inserted(i)

\* What it does to the aliases.
Aliased ==
  \/ UNCHANGED aliases
  \/ \E m \in Memories, i \in Ids :
       /\ m.key # None
       /\ ~Known(m)
       /\ aliases' = aliases \union {[agent |-> m.agent, key |-> m.key, id |-> i]}
       /\ \A j \in Ids \ Used : rec'[j] = rec[j]

LEMMA RowType ==
  ASSUME TypeOK, NEW i \in Used
  PROVE  i \in Ids /\ rec[i] \in Rows /\ rec[i].memory \in Memories
BY DEF TypeOK, Used, NoRow, Rows

LEMMA ExistingIsUsed ==
  ASSUME TypeOK, NEW m \in Memories, NEW allow \in BOOLEAN
  PROVE  Existing(m, allow) \subseteq Ids
BY DEF TypeOK, Existing, Known, FindByIdempotency, Primary, SameContent, Standing, Used, Aliases

LEMMA UnchangedFates ==
  ASSUME TypeOK, UNCHANGED rec
  PROVE  Fates
BY DEF TypeOK, Fates, Kept, Lifecycle

\* One row changes in place.
LEMMA AmendFates ==
  ASSUME TypeOK, NEW i \in Used, NEW row \in Rows, rec' = [rec EXCEPT ![i] = row], Kept(i)
  PROVE  Fates
<1>1. i \in Ids
  BY RowType
<1>2. rec' \in [Ids -> Rows \union {NoRow}]
  BY <1>1 DEF TypeOK
<1>3. \A j \in Ids : j # i => rec'[j] = rec[j]
  BY <1>1 DEF TypeOK
<1>4. \A j \in Used : Kept(j)
  BY <1>3 DEF Kept, Lifecycle, Used
<1> QED BY <1>2, <1>3, <1>4 DEF Fates

\* propose finds a row.
LEMMA RepeatAliases ==
  ASSUME TypeOK, NEW m \in Memories, NEW allow \in BOOLEAN, NEW i, Repeat(m, allow, i)
  PROVE  /\ i \in Ids
         /\ aliases' \subseteq Aliases
         /\ (\A j \in Ids \ Used : rec'[j] = rec[j]) => Aliased
<1>1. i \in Ids
  BY ExistingIsUsed DEF Repeat
<1>2. CASE m.key = None \/ Known(m)
  BY <1>1, <1>2 DEF Repeat, Alias, Aliased, TypeOK
<1>3. CASE ~ (m.key = None \/ Known(m))
  <2>1. [agent |-> m.agent, key |-> m.key, id |-> i] \in Aliases
    BY <1>1, <1>3 DEF Memories, Aliases
  <2> QED BY <1>1, <1>3, <2>1 DEF Repeat, Alias, Aliased, TypeOK
<1> QED BY <1>2, <1>3

\* propose inserts one.
LEMMA InsertFates ==
  ASSUME TypeOK, NEW m \in Memories, NEW allow \in BOOLEAN, NEW i \in Ids,
         NEW status \in {"active"} \union Pending, NEW origin \in Origins,
         Insert(m, allow, i, Row(m, status, origin)),
         allow => origin = "unchecked",
         IF origin = "agent" THEN \E p \in Processes : Captured(p, i) ELSE UNCHANGED assessed
  PROVE  Fates /\ Aliased
<1> DEFINE row == Row(m, status, origin)
<1>1. row \in Rows
  BY DEF Row, Rows, Statuses, Pending
<1>2. i \in Ids \ Used /\ rec' = [rec EXCEPT ![i] = row] /\ UNCHANGED aliases
  BY DEF Insert, FreshIds
<1>3. rec' \in [Ids -> Rows \union {NoRow}] /\ rec'[i] = row /\ \A j \in Ids : j # i => rec'[j] = rec[j]
  BY <1>1, <1>2 DEF TypeOK
<1>4. \A j \in Used : Kept(j)
  BY <1>2, <1>3 DEF Kept, Lifecycle, Used
<1>5. row.memory = m /\ row.origin = origin
  BY DEF Row
<1>6. ~Known(m) /\ (~allow => SameContent(m) = {})
  BY DEF Insert, Existing, Known
<1>7. Inserted(i)
  BY <1>1, <1>2, <1>3, <1>5, <1>6 DEF Inserted
<1> QED BY <1>2, <1>3, <1>4, <1>7 DEF Fates, Aliased

\* The types and the fate of every row under each operation.
LEMMA EvaluateStep ==
  ASSUME TypeOK, NEW p \in Processes, NEW m \in Inputs, NEW sensitive \in BOOLEAN,
         Evaluate(p, m, sensitive)
  PROVE  TypeOK'
<1>1. m \in Memories
  BY InputsAssumption
<1>2. [m EXCEPT !.expiry = Expiry(m, sensitive)] \in Memories
  BY <1>1 DEF Memories, Expiry, Expiries
<1>3. PICK d \in Dispositions(m, sensitive) :
        assessed' = [assessed EXCEPT ![p] =
                       [memory |-> [m EXCEPT !.expiry = Expiry(m, sensitive)],
                        disposition |-> d, seen |-> Live]]
  BY DEF Evaluate
<1>4. d \in {"active"} \union Pending
  BY <1>1, KindsAssumption DEF Dispositions, Pending, Memories
<1>5. Live \in SUBSET Ids
  BY DEF Live, Standing, Used
<1>6. [memory |-> [m EXCEPT !.expiry = Expiry(m, sensitive)], disposition |-> d, seen |-> Live]
        \in Assessments
  BY <1>2, <1>4, <1>5 DEF Assessments
<1> QED BY <1>3, <1>6 DEF Evaluate, TypeOK

LEMMA CaptureStep ==
  ASSUME TypeOK, NEW p \in Processes, Capture(p), assessed[p] \in Assessments
  PROVE  TypeOK' /\ Fates /\ Aliased
<1> DEFINE m == assessed[p].memory
           d == assessed[p].disposition
<1>1. m \in Memories /\ d \in {"active"} \union Pending
  BY DEF Assessments
<1>2. assessed[p] # None /\ assessed' = [assessed EXCEPT ![p] = None]
  BY DEF Capture
<1>3. assessed' \in [Processes -> Assessments \union {None}]
  BY <1>2 DEF TypeOK
<1>4. PICK i \in Ids : \/ Repeat(m, FALSE, i) /\ UNCHANGED rec
                       \/ Insert(m, FALSE, i, Row(m, d, "agent"))
  BY DEF Capture
<1>5. CASE Repeat(m, FALSE, i) /\ UNCHANGED rec
  BY <1>1, <1>3, <1>5, RepeatAliases, UnchangedFates DEF TypeOK
<1>6. CASE Insert(m, FALSE, i, Row(m, d, "agent"))
  <2>1. Captured(p, i)
    BY <1>2, <1>6 DEF Captured, Insert, FreshIds, Used, TypeOK
  <2>2. Fates /\ Aliased
    BY <1>1, <1>6, <2>1, InsertFates DEF Origins
  <2> QED BY <1>3, <1>6, <2>2 DEF TypeOK, Fates, Insert
<1> QED BY <1>4, <1>5, <1>6

LEMMA ProposeStep ==
  ASSUME TypeOK, NEW i \in Ids, NEW m \in Inputs, NEW allow \in BOOLEAN, Propose(i, m, allow)
  PROVE  TypeOK' /\ Fates /\ Aliased
<1>1. m \in Memories
  BY InputsAssumption
<1>2. CASE Repeat(m, allow, i) /\ UNCHANGED rec
  BY <1>1, <1>2, RepeatAliases, UnchangedFates DEF TypeOK, Propose
<1>3. CASE Insert(m, allow, i, Row(m, "proposed", ByPerson(allow)))
  <2>1. Fates /\ Aliased
    BY <1>1, <1>3, InsertFates DEF Origins, ByPerson, Pending, Propose
  <2> QED BY <1>3, <2>1 DEF TypeOK, Fates, Insert, Propose
<1> QED BY <1>2, <1>3 DEF Propose

\* A pending row is activated, by a review or because it was proposed again.
LEMMA ActivatedFates ==
  ASSUME TypeOK, NEW i \in Ids, rec[i].status \in Pending, rec' = Activated(i)
  PROVE  Fates
<1>1. i \in Used
  BY DEF Used, Pending
<1> DEFINE row == [rec[i] EXCEPT !.status = "active"]
<1>2. row \in Rows
  BY <1>1, RowType DEF Rows, Statuses
<1>3. rec' = [rec EXCEPT ![i] = row]
  BY DEF Activated
<1>4. row.status = "active" /\ row.memory = rec[i].memory /\ row.origin = rec[i].origin
  BY <1>1, RowType DEF Rows
<1>5. Kept(i)
  BY <1>3, <1>4 DEF Kept, Lifecycle, Open, TypeOK
<1> QED BY <1>1, <1>2, <1>3, <1>5, AmendFates

LEMMA IngestStep ==
  ASSUME TypeOK, NEW i \in Ids, NEW m \in Inputs, NEW allow \in BOOLEAN, IngestBatch(i, m, allow)
  PROVE  TypeOK' /\ Fates /\ Aliased
<1>1. m \in Memories
  BY InputsAssumption
<1>2. CASE Repeat(m, allow, i) /\ rec' = IF rec[i].status = "proposed" THEN Activated(i) ELSE rec
  <2>1. Fates
    BY <1>2, ActivatedFates, UnchangedFates DEF Pending
  <2>2. \A j \in Ids \ Used : rec'[j] = rec[j]
    BY <1>2 DEF Activated, TypeOK, Used
  <2> QED BY <1>1, <1>2, <2>1, <2>2, RepeatAliases DEF TypeOK, Fates, IngestBatch
<1>3. CASE Insert(m, allow, i, Row(m, "active", ByPerson(allow)))
  <2>1. Fates /\ Aliased
    BY <1>1, <1>3, InsertFates DEF Origins, ByPerson, IngestBatch
  <2> QED BY <1>3, <2>1 DEF TypeOK, Fates, Insert, IngestBatch
<1> QED BY <1>2, <1>3 DEF IngestBatch

LEMMA ReviseStep ==
  ASSUME TypeOK, NEW i \in Ids, NEW body \in Bodies, RevisePending(i, body)
  PROVE  TypeOK' /\ Fates /\ Aliased
<1>1. i \in Used /\ rec[i].status \in Pending
  BY DEF Used, Pending, RevisePending
<1> DEFINE memory == [rec[i].memory EXCEPT !.body = body]
           row == [rec[i] EXCEPT !.memory = memory, !.status = "proposed", !.origin = "unchecked"]
<1>2. memory \in Memories
  BY <1>1, RowType DEF Memories
<1>3. row \in Rows
  BY <1>1, <1>2, RowType DEF Rows, Statuses, Origins
<1>4. rec' = [rec EXCEPT ![i] = row]
  BY DEF RevisePending
<1>5. rec'[i] = row
  BY <1>4 DEF TypeOK
<1>6. Kept(i)
  <2>1. row.status = "proposed" /\ row.origin = "unchecked" /\ row.memory = memory
    BY <1>1, RowType DEF Rows
  <2>2. /\ memory.agent = rec[i].memory.agent /\ memory.key = rec[i].memory.key
        /\ memory.kind = rec[i].memory.kind /\ memory.subject = rec[i].memory.subject
        /\ memory.expiry = rec[i].memory.expiry
    BY <1>1, RowType DEF Memories
  <2> QED BY <1>1, <1>5, <2>1, <2>2 DEF Kept, Lifecycle, Open
<1>7. Fates
  BY <1>1, <1>3, <1>4, <1>6, AmendFates
<1> QED BY <1>7 DEF TypeOK, Fates, Aliased, RevisePending

LEMMA ForgetStep ==
  ASSUME TypeOK, NEW i \in Ids, Forget(i)
  PROVE  TypeOK' /\ Fates /\ Aliased
<1>1. i \in Used /\ rec[i].status # "tombstoned"
  BY DEF Used, Forget
<1> DEFINE row == [rec[i] EXCEPT !.status = "tombstoned"]
<1>2. row \in Rows
  BY <1>1, RowType DEF Rows, Statuses
<1>3. rec' = [rec EXCEPT ![i] = row] /\ rec'[i] = row
  BY DEF Forget, TypeOK
<1>4. row.status = "tombstoned" /\ row.memory = rec[i].memory /\ row.origin = rec[i].origin
  BY <1>1, RowType DEF Rows
<1>5. rec[i].status \in Pending \union {"active", "superseded"}
  BY <1>1, RowType DEF Rows, Statuses, Pending
<1>6. Kept(i)
  BY <1>3, <1>4, <1>5 DEF Kept, Lifecycle, Open, Pending
<1>7. Fates
  BY <1>1, <1>2, <1>3, <1>6, AmendFates
<1> QED BY <1>7 DEF TypeOK, Fates, Aliased, Forget

LEMMA LapseStep ==
  ASSUME TypeOK, NEW i \in Ids, Lapse(i)
  PROVE  TypeOK' /\ Fates /\ Aliased
<1>1. i \in Used
  BY DEF Lapse, Standing
<1> DEFINE memory == [rec[i].memory EXCEPT !.expiry = "lapsed"]
           row == [rec[i] EXCEPT !.memory = memory]
<1>2. memory \in Memories
  BY <1>1, RowType DEF Memories, Expiries
<1>3. row \in Rows
  BY <1>1, <1>2, RowType DEF Rows
<1>4. rec' = [rec EXCEPT ![i] = row] /\ rec'[i] = row
  BY DEF Lapse, TypeOK
<1>5. row.status = rec[i].status /\ row.origin = rec[i].origin /\ row.memory = memory
  BY <1>1, RowType DEF Rows
<1>6. /\ memory.agent = rec[i].memory.agent /\ memory.key = rec[i].memory.key
      /\ memory.kind = rec[i].memory.kind /\ memory.subject = rec[i].memory.subject
      /\ memory.body = rec[i].memory.body /\ memory.expiry = "lapsed"
  BY <1>1, RowType DEF Memories
<1>7. Kept(i)
  BY <1>4, <1>5, <1>6 DEF Kept, Lifecycle, Open
<1>8. Fates
  BY <1>1, <1>3, <1>4, <1>7, AmendFates
<1> QED BY <1>8 DEF TypeOK, Fates, Aliased, Lapse

LEMMA CorrectStep ==
  ASSUME TypeOK, NEW i \in Ids, NEW j \in Ids, NEW body \in Bodies, NEW key \in Keys \union {None},
         Correct(i, j, body, key)
  PROVE  TypeOK' /\ Fates /\ Aliased
<1> DEFINE m == [rec[i].memory EXCEPT !.body = body, !.key = key]
           new == [Row(m, "active", "unchecked") EXCEPT !.supersedes = i]
           old == [rec[i] EXCEPT !.status = "superseded"]
<1>1. i \in Used /\ rec[i].status = "active"
  BY DEF Used, Correct
<1>2. m \in Memories
  BY <1>1, RowType DEF Memories
<1>3. old \in Rows /\ old.status = "superseded" /\ old.memory = rec[i].memory /\ old.origin = rec[i].origin
  BY <1>1, RowType DEF Rows, Statuses
<1>4. new \in Rows /\ new.memory = m /\ new.origin = "unchecked"
  BY <1>2 DEF Row, Rows, Statuses, Origins
<1>5. UNCHANGED <<aliases, assessed>>
  BY DEF Correct
<1>6. CASE /\ rec[j].status \in {"active", "proposed"}
           /\ rec' = [rec EXCEPT ![j].status = "active", ![i].status = "superseded"]
  <2> DEFINE found == [rec[j] EXCEPT !.status = "active"]
  <2>1. j \in Used
    BY <1>6 DEF Used
  <2>2. found \in Rows /\ found.status = "active" /\ found.memory = rec[j].memory /\ found.origin = rec[j].origin
    BY <2>1, RowType DEF Rows, Statuses
  <2>3. rec'[i] = old
    BY <1>1, <1>6, RowType DEF TypeOK, Rows
  <2>4. j # i => rec'[j] = found
    BY <1>6 DEF TypeOK
  <2>5. \A k \in Ids : k # i /\ k # j => rec'[k] = rec[k]
    BY <1>6 DEF TypeOK
  <2>6. DOMAIN rec' = Ids /\ rec' = [k \in Ids |-> rec'[k]]
    BY <1>6 DEF TypeOK
  <2>7. rec' \in [Ids -> Rows \union {NoRow}]
    BY <1>3, <2>2, <2>3, <2>4, <2>5, <2>6 DEF TypeOK
  <2>8. Kept(i)
    BY <1>1, <1>3, <2>3 DEF Kept, Lifecycle, Open, Pending
  <2>9. j # i => Kept(j)
    BY <1>6, <2>2, <2>4 DEF Kept, Lifecycle, Open, Pending
  <2>10. \A k \in Used : k # i /\ k # j => Kept(k)
    BY <2>5 DEF Kept, Lifecycle, Used
  <2> QED BY <1>1, <1>5, <2>1, <2>5, <2>7, <2>8, <2>9, <2>10 DEF TypeOK, Fates, Aliased
<1>7. CASE /\ ~Known(m)
           /\ j \in FreshIds
           /\ rec' = [rec EXCEPT ![j] = new, ![i].status = "superseded"]
  <2>1. j \in Ids \ Used /\ j # i
    BY <1>1, <1>7 DEF FreshIds
  <2>2. rec'[i] = old /\ rec'[j] = new
    BY <1>7, <2>1 DEF TypeOK
  <2>3. \A k \in Ids : k # i /\ k # j => rec'[k] = rec[k]
    BY <1>7 DEF TypeOK
  <2>4. DOMAIN rec' = Ids /\ rec' = [k \in Ids |-> rec'[k]]
    BY <1>7 DEF TypeOK
  <2>5. rec' \in [Ids -> Rows \union {NoRow}]
    BY <1>3, <1>4, <2>2, <2>3, <2>4 DEF TypeOK
  <2>6. Kept(i)
    BY <1>1, <1>3, <2>2 DEF Kept, Lifecycle, Open, Pending
  <2>7. \A k \in Used : k # i => Kept(k)
    BY <2>1, <2>3 DEF Kept, Lifecycle, Used
  <2>8. Inserted(j)
    BY <1>1, <1>4, <1>5, <1>7, <2>1, <2>2, <2>3 DEF Inserted
  <2> QED BY <1>5, <2>1, <1>1, <2>3, <2>5, <2>6, <2>7, <2>8 DEF TypeOK, Fates, Aliased
<1> QED BY <1>6, <1>7 DEF Correct

LEMMA StepFates ==
  ASSUME TypeOK, Next
  PROVE  TypeOK' /\ Fates /\ Aliased
<1>1. ASSUME NEW p \in Processes, NEW m \in Inputs, NEW sensitive \in BOOLEAN, Evaluate(p, m, sensitive)
      PROVE  TypeOK' /\ Fates /\ Aliased
  BY <1>1, EvaluateStep, UnchangedFates DEF Evaluate, Aliased
<1>2. ASSUME NEW p \in Processes, Abandon(p)
      PROVE  TypeOK' /\ Fates /\ Aliased
  BY <1>2, UnchangedFates DEF Abandon, Aliased, TypeOK
<1>3. ASSUME NEW p \in Processes, Capture(p)
      PROVE  TypeOK' /\ Fates /\ Aliased
  BY <1>3, CaptureStep DEF Capture, TypeOK
<1>4. ASSUME NEW i \in Ids, Approve(i)
      PROVE  TypeOK' /\ Fates /\ Aliased
  BY <1>4, ActivatedFates DEF Approve, TypeOK, Fates, Aliased
<1> QED BY <1>1, <1>2, <1>3, <1>4, ProposeStep, IngestStep, ForgetStep, LapseStep, ReviseStep,
           CorrectStep DEF Next

THEOREM TypeCorrect == Spec => []TypeOK
<1>1. Init => TypeOK
  BY DEF Init, TypeOK
<1>2. TypeOK /\ [Next]_vars => TypeOK'
  BY StepFates DEF TypeOK, vars
<1> QED BY <1>1, <1>2, PTL DEF Spec

-----------------------------------------------------------------------------
(* Statuses and keys.                                                      *)

\* Decided memories stay decided.
THEOREM Lifecycles == Spec => NoReactivation
<1>1. ASSUME TypeOK, Next, NEW i \in Ids
      PROVE  /\ rec[i].status = "tombstoned" => rec'[i].status = "tombstoned"
             /\ rec[i].status = "superseded" => rec'[i].status \in {"superseded", "tombstoned"}
  <2>1. i \in Used => Lifecycle(rec[i].status, rec'[i].status)
    BY <1>1, StepFates DEF Fates, Kept
  <2> QED BY <2>1 DEF Used, Lifecycle, Pending
<1>2. TypeOK /\ [Next]_vars =>
        [\A i \in Ids :
           /\ rec[i].status = "tombstoned" => rec'[i].status = "tombstoned"
           /\ rec[i].status = "superseded" => rec'[i].status \in {"superseded", "tombstoned"}]_vars
  BY <1>1
<1> QED BY <1>2, TypeCorrect, PTL DEF Spec, NoReactivation

LEMMA KnownIsNamed ==
  ASSUME NEW m
  PROVE  Known(m) <=> m.key # None /\ Named(m.agent, m.key) # {}
BY DEF Known, FindByIdempotency, Named

\* A key that names a row is neither given to a new row nor made an alias.
LEMMA NamedKept ==
  ASSUME TypeOK, Next, NEW a, NEW k, k # None, Named(a, k) # {}
  PROVE  Named(a, k)' = Named(a, k)
<1>1. Fates /\ Aliased
  BY StepFates
<1>2. \A i \in Used : /\ rec'[i].status # "absent"
                      /\ rec'[i].memory.agent = rec[i].memory.agent
                      /\ rec'[i].memory.key = rec[i].memory.key
  BY <1>1 DEF Fates, Kept, Lifecycle, Used, Pending
<1>3. ASSUME NEW i \in Ids \ Used, rec'[i].status # "absent"
      PROVE  ~ (rec'[i].memory.agent = a /\ rec'[i].memory.key = k)
  <2>1. ~Known(rec'[i].memory)
    BY <1>1, <1>3 DEF Fates, Inserted, Used
  <2> QED BY <2>1, KnownIsNamed
<1>4. Primary(a, k)' = Primary(a, k)
  BY <1>2, <1>3 DEF Primary, Used
<1>5. {x \in aliases' : x.agent = a /\ x.key = k} = {x \in aliases : x.agent = a /\ x.key = k}
  <2>1. CASE UNCHANGED aliases
    BY <2>1
  <2>2. ASSUME NEW m \in Memories, NEW i \in Ids, m.key # None, ~Known(m),
               aliases' = aliases \union {[agent |-> m.agent, key |-> m.key, id |-> i]}
        PROVE  {x \in aliases' : x.agent = a /\ x.key = k} = {x \in aliases : x.agent = a /\ x.key = k}
    <3>1. ~ (m.agent = a /\ m.key = k)
      BY <2>2, KnownIsNamed
    <3> QED BY <2>2, <3>1
  <2> QED BY <1>1, <2>1, <2>2 DEF Aliased
<1> QED BY <1>4, <1>5 DEF Named

\* Every key names one record for ever.
THEOREM KeyStability == Spec => KeysAreStable
<1>1. ASSUME TypeOK, Next, NEW a \in Agents \union {None}, NEW k \in Keys
      PROVE  Named(a, k) # {} => Named(a, k)' = Named(a, k)
  BY <1>1, NamedKept, NoneAssumption
<1>2. TypeOK /\ [Next]_vars =>
        [\A a \in Agents \union {None}, k \in Keys :
           Named(a, k) # {} => Named(a, k)' = Named(a, k)]_vars
  BY <1>1
<1> QED BY <1>2, TypeCorrect, PTL DEF Spec, KeysAreStable

LEMMA KnownKept ==
  ASSUME TypeOK, Next, NEW m, Known(m)
  PROVE  Known(m)'
<1>1. m.key # None /\ Named(m.agent, m.key) # {}
  BY KnownIsNamed
<1>2. Named(m.agent, m.key)' # {}
  BY <1>1, NamedKept
<1> QED BY <1>1, <1>2 DEF Known, FindByIdempotency, Named

-----------------------------------------------------------------------------
(* Contents.                                                               *)

\* No content stands twice unless a person stored one of the two unchecked.
THEOREM Contents == Spec => []NoDuplicateContent
<1>1. Init => NoDuplicateContent
  BY DEF Init, NoDuplicateContent, Standing, Used, NoRow
<1>2. ASSUME TypeOK, NoDuplicateContent, Next
      PROVE  NoDuplicateContent'
  <2> SUFFICES ASSUME NEW i \in Standing', NEW j \in Standing', i # j,
                      rec'[i].memory.kind = rec'[j].memory.kind,
                      rec'[i].memory.body = rec'[j].memory.body,
                      rec'[i].origin # "unchecked", rec'[j].origin # "unchecked"
               PROVE  FALSE
    BY DEF NoDuplicateContent
  <2>1. Fates
    BY <1>2, StepFates
  <2>2. ASSUME NEW x \in Standing' \intersect Used, rec'[x].origin # "unchecked"
        PROVE  /\ x \in Standing
               /\ rec[x].origin # "unchecked"
               /\ rec'[x].memory.kind = rec[x].memory.kind
               /\ rec'[x].memory.body = rec[x].memory.body
    BY <2>1, <2>2 DEF Fates, Kept, Standing, Open, Used
  <2>3. ASSUME NEW x \in Standing' \ Used, NEW y \in Standing', y # x,
               rec'[x].memory.kind = rec'[y].memory.kind,
               rec'[x].memory.body = rec'[y].memory.body,
               rec'[x].origin # "unchecked", rec'[y].origin # "unchecked"
        PROVE  FALSE
    <3>1. x \in Ids \ Used /\ rec'[x].status # "absent" /\ y \in Ids /\ rec'[y].status # "absent"
      BY <2>3 DEF Standing, Used
    <3>2. Inserted(x)
      BY <2>1, <3>1 DEF Fates, Used
    <3>3. y \in Used
      BY <2>3, <3>1, <3>2 DEF Inserted, Used
    <3>4. y \in SameContent(rec'[x].memory)
      BY <2>2, <2>3, <3>3 DEF SameContent
    <3> QED BY <2>3, <3>2, <3>4 DEF Inserted
  <2>4. i \in Used /\ j \in Used
    BY <2>3
  <2> QED BY <1>2, <2>2, <2>4 DEF NoDuplicateContent
<1>3. NoDuplicateContent /\ UNCHANGED vars => NoDuplicateContent'
  BY DEF NoDuplicateContent, Standing, Used, vars
<1> QED BY <1>1, <1>2, <1>3, TypeCorrect, PTL DEF Spec

-----------------------------------------------------------------------------
(* What assessments under way have in hand.                                *)

\* The captures an agent has stored, and those it may still store.
Taken(a) == {i \in Counted(a) : rec[i].origin = "agent"}

InHand(a) == {p \in Processes : /\ assessed[p] # None
                                /\ assessed[p].memory.agent = a
                                /\ ~Known(assessed[p].memory)}

PendingIsCounted ==
  \A a \in Agents :
    Cardinality(Taken(a)) + Cardinality(InHand(a)) <= QuotaLimit + Cardinality(Processes) - 1

\* What an assessment saw active is not back in review, so that its content stays,
\* and if it says active, it contradicts none of that.
SeenIsCompatible ==
  \A p \in Processes :
    assessed[p] # None =>
      /\ \A i \in assessed[p].seen : i \in Used /\ rec[i].status \notin Pending
      /\ assessed[p].disposition = "active" => Conflicts(assessed[p].memory) \intersect assessed[p].seen = {}

IInv ==
  /\ TypeOK
  /\ PendingIsCounted
  /\ SeenIsCompatible

LEMMA Assessed ==
  ASSUME TypeOK, Next
  PROVE  \/ \E p \in Processes, m \in Inputs, sensitive \in BOOLEAN : Evaluate(p, m, sensitive)
         \/ UNCHANGED assessed
         \/ \E p \in Processes : assessed' = [assessed EXCEPT ![p] = None]
BY DEF Next, Abandon, Capture, Propose, IngestBatch, Approve, Forget, Lapse, RevisePending, Correct

LEMMA Finite ==
  ASSUME NEW a
  PROVE  /\ IsFiniteSet(Counted(a)) /\ IsFiniteSet(Taken(a)) /\ IsFiniteSet(InHand(a))
         /\ Cardinality(Counted(a)) \in Nat /\ Cardinality(Taken(a)) \in Nat
         /\ Cardinality(InHand(a)) \in Nat /\ Cardinality(Processes) \in Nat
         /\ Cardinality(Taken(a)) <= Cardinality(Counted(a))
         /\ Cardinality(InHand(a)) <= Cardinality(Processes)
<1>1. IsFiniteSet(Ids)
  BY FS_Interval, RowsAssumption DEF Ids
<1>2. Counted(a) \subseteq Ids /\ Taken(a) \subseteq Counted(a) /\ InHand(a) \subseteq Processes
  BY DEF Counted, Standing, Used, Taken, InHand
<1>3. IsFiniteSet(Counted(a)) /\ IsFiniteSet(Taken(a)) /\ IsFiniteSet(InHand(a))
  BY <1>1, <1>2, FS_Subset, ProcessesAssumption
<1> QED BY <1>2, <1>3, FS_Subset, FS_CardinalityType, ProcessesAssumption

LEMMA EvaluateCounted ==
  ASSUME TypeOK, PendingIsCounted,
         NEW p \in Processes, NEW m \in Inputs, NEW sensitive \in BOOLEAN, Evaluate(p, m, sensitive)
  PROVE  PendingIsCounted'
<1> SUFFICES ASSUME NEW a \in Agents
             PROVE  Cardinality(Taken(a))' + Cardinality(InHand(a))'
                      <= QuotaLimit + Cardinality(Processes) - 1
  BY DEF PendingIsCounted
<1> DEFINE n == [m EXCEPT !.expiry = Expiry(m, sensitive)]
<1>1. m \in Memories /\ n.agent = m.agent /\ n.key = m.key
  BY InputsAssumption DEF Memories
<1>2. assessed'[p].memory = n /\ \A q \in Processes : q # p => assessed'[q] = assessed[q]
  BY DEF Evaluate, TypeOK
<1>3. Taken(a)' = Taken(a)
  BY DEF Evaluate, Taken, Counted, Standing, Used
<1>4. \A x : Known(x)' <=> Known(x)
  BY DEF Evaluate, Known, FindByIdempotency, Primary, Used
<1>5. CASE Known(m) \/ m.agent # a
  <2>1. Known(m) => Known(n)
    BY <1>1 DEF Known
  <2>2. InHand(a)' = InHand(a)
    BY <1>1, <1>2, <1>4, <1>5, <2>1 DEF InHand, Evaluate
  <2> QED BY <1>3, <2>2 DEF PendingIsCounted
<1>6. CASE ~Known(m) /\ m.agent = a
  <2>1. Cardinality(Counted(a)) < QuotaLimit
    BY <1>6 DEF Evaluate, WithinQuota
  <2>2. Cardinality(Taken(a)) \in Nat /\ Cardinality(Taken(a)) < QuotaLimit
    BY <2>1, Finite, QuotaAssumption
  <2>3. Cardinality(InHand(a)') \in Nat /\ Cardinality(InHand(a)') <= Cardinality(Processes)
    <3>1. InHand(a)' \subseteq Processes
      BY DEF InHand
    <3> QED BY <3>1, FS_Subset, FS_CardinalityType, ProcessesAssumption
  <2>4. Cardinality(Processes) \in Nat
    BY Finite
  <2> QED BY <1>3, <2>2, <2>3, <2>4, QuotaAssumption
<1> QED BY <1>5, <1>6

LEMMA OthersCounted ==
  ASSUME TypeOK, PendingIsCounted, Next,
         \/ UNCHANGED assessed
         \/ \E p \in Processes : assessed' = [assessed EXCEPT ![p] = None]
  PROVE  PendingIsCounted'
<1> SUFFICES ASSUME NEW a \in Agents
             PROVE  Cardinality(Taken(a)') + Cardinality(InHand(a)')
                      <= QuotaLimit + Cardinality(Processes) - 1
  BY DEF PendingIsCounted
<1>1. Fates
  BY StepFates
<1>2. InHand(a)' \subseteq InHand(a)
  <2>1. \A q \in Processes : assessed'[q] # None => assessed'[q] = assessed[q]
    BY DEF TypeOK
  <2>2. \A x : Known(x) => Known(x)'
    BY KnownKept
  <2> QED BY <2>1, <2>2 DEF InHand
<1>3. Taken(a)' \intersect Used \subseteq Taken(a)
  BY <1>1 DEF Fates, Kept, Taken, Counted, Standing, Open, Used
<1>4. IsFiniteSet(Taken(a)) /\ IsFiniteSet(InHand(a))
  BY Finite
<1>5. CASE Taken(a)' \subseteq Used
  <2>1. Taken(a)' \subseteq Taken(a)
    BY <1>3, <1>5
  <2> QED BY <1>2, <1>4, <2>1, FS_Subset, FS_CardinalityType, Finite, QuotaAssumption DEF PendingIsCounted
<1>6. CASE \E i \in Taken(a)' : i \notin Used
  <2>1. PICK i \in Taken(a)' : i \notin Used
    BY <1>6
  <2>2. i \in Ids /\ rec'[i].origin = "agent" /\ rec'[i].memory.agent = a /\ rec'[i].status # "absent"
    BY <2>1 DEF Taken, Counted, Standing, Used
  <2>3. Inserted(i)
    BY <1>1, <2>1, <2>2 DEF Fates, Used
  <2>4. PICK p \in Processes : Captured(p, i)
    BY <2>2, <2>3 DEF Inserted
  <2>5. rec'[i].memory = assessed[p].memory
    BY <2>4 DEF Captured, Row
  <2>6. p \in InHand(a) /\ p \notin InHand(a)'
    BY <2>2, <2>3, <2>4, <2>5 DEF InHand, Captured, Inserted, TypeOK
  <2>7. Taken(a)' \subseteq Taken(a) \union {i} /\ i \notin Taken(a)
    <3>1. \A j \in Taken(a)' : j # i => j \in Used
      BY <2>3 DEF Inserted, Taken, Counted, Standing, Used
    <3> QED BY <1>3, <2>1, <3>1 DEF Taken, Counted, Standing
  <2>8. Cardinality(Taken(a)') <= Cardinality(Taken(a)) + 1 /\ Cardinality(Taken(a)') \in Nat
    <3>1. /\ IsFiniteSet(Taken(a) \union {i})
          /\ Cardinality(Taken(a) \union {i}) = Cardinality(Taken(a)) + 1
      BY <1>4, <2>7, FS_AddElement
    <3> QED BY <2>7, <3>1, FS_Subset, FS_CardinalityType
  <2>9. Cardinality(InHand(a)') <= Cardinality(InHand(a)) - 1 /\ Cardinality(InHand(a)') \in Nat
    <3>1. InHand(a)' \subseteq InHand(a) \ {p}
      BY <1>2, <2>6
    <3>2. /\ IsFiniteSet(InHand(a) \ {p})
          /\ Cardinality(InHand(a) \ {p}) = Cardinality(InHand(a)) - 1
      BY <1>4, <2>6, FS_RemoveElement
    <3> QED BY <3>1, <3>2, FS_Subset, FS_CardinalityType
  <2> QED BY <2>8, <2>9, Finite, QuotaAssumption DEF PendingIsCounted
<1> QED BY <1>5, <1>6

LEMMA EvaluateCompatible ==
  ASSUME TypeOK, SeenIsCompatible,
         NEW p \in Processes, NEW m \in Inputs, NEW sensitive \in BOOLEAN, Evaluate(p, m, sensitive)
  PROVE  SeenIsCompatible'
<1> DEFINE n == [m EXCEPT !.expiry = Expiry(m, sensitive)]
<1>1. m \in Memories /\ n.subject = m.subject /\ n.body = m.body
  BY InputsAssumption DEF Memories
<1>2. PICK d \in Dispositions(m, sensitive) :
        assessed' = [assessed EXCEPT ![p] = [memory |-> n, disposition |-> d, seen |-> Live]]
  BY DEF Evaluate
<1>3. d = "active" => Conflicts(m) = {}
  BY DEF Dispositions
<1>4. Conflicts(n) = Conflicts(m)
  BY <1>1 DEF Conflicts
<1>5. \A i \in Live : i \in Used /\ rec[i].status \notin Pending
  BY DEF Live, Standing, Pending
<1>6. UNCHANGED rec
  BY DEF Evaluate
<1>7. /\ assessed'[p].memory = n /\ assessed'[p].disposition = d /\ assessed'[p].seen = Live
      /\ \A q \in Processes : q # p => assessed'[q] = assessed[q]
  BY <1>2 DEF TypeOK
<1>8. \A x : Conflicts(x)' = Conflicts(x)
  BY <1>6 DEF Conflicts, Live, Standing, Used
<1>9. Used' = Used
  BY <1>6 DEF Used
<1> QED BY <1>3, <1>4, <1>5, <1>6, <1>7, <1>8, <1>9 DEF SeenIsCompatible

LEMMA OthersCompatible ==
  ASSUME TypeOK, SeenIsCompatible, Next,
         \/ UNCHANGED assessed
         \/ \E p \in Processes : assessed' = [assessed EXCEPT ![p] = None]
  PROVE  SeenIsCompatible'
<1> SUFFICES ASSUME NEW p \in Processes, assessed'[p] # None
             PROVE  /\ \A i \in assessed'[p].seen : i \in Used' /\ rec'[i].status \notin Pending
                    /\ (assessed[p].disposition = "active" =>
                          Conflicts(assessed[p].memory) \intersect assessed[p].seen = {})'
  BY DEF SeenIsCompatible
<1>1. Fates
  BY StepFates
<1>2. assessed'[p] = assessed[p] /\ assessed[p] # None
  BY DEF TypeOK
<1>3. ASSUME NEW i \in assessed[p].seen
      PROVE  /\ i \in Used' /\ rec'[i].status \notin Pending
             /\ i \in Live' => i \in Live
             /\ rec'[i].memory.body = rec[i].memory.body
             /\ rec'[i].memory.subject = rec[i].memory.subject
  <2>1. i \in Used /\ rec[i].status \notin Pending
    BY <1>2, <1>3 DEF SeenIsCompatible
  <2>2. Kept(i)
    BY <1>1, <2>1 DEF Fates
  <2> QED BY <2>1, <2>2 DEF Kept, Lifecycle, Open, Live, Standing, Used, Pending
<1>4. (Conflicts(assessed[p].memory) \intersect assessed[p].seen)'
        \subseteq Conflicts(assessed[p].memory) \intersect assessed[p].seen
  BY <1>2, <1>3 DEF Conflicts
<1> QED BY <1>2, <1>3, <1>4 DEF SeenIsCompatible

THEOREM Invariance == Spec => []IInv
<1>1. Init => IInv
  <2> SUFFICES ASSUME Init PROVE IInv
    OBVIOUS
  <2>1. TypeOK
    BY DEF Init, TypeOK
  <2>2. ASSUME NEW a \in Agents PROVE Taken(a) = {} /\ InHand(a) = {}
    BY DEF Init, Taken, Counted, Standing, Used, NoRow, InHand
  <2>3. PendingIsCounted
    <3>1. \A a \in Agents : Cardinality(Taken(a)) = 0 /\ Cardinality(InHand(a)) = 0
      BY <2>2, FS_EmptySet
    <3>2. Cardinality(Processes) \in Nat
      BY FS_CardinalityType, ProcessesAssumption
    <3> QED BY <3>1, <3>2, QuotaAssumption DEF PendingIsCounted
  <2>4. SeenIsCompatible
    BY DEF Init, SeenIsCompatible
  <2> QED BY <2>1, <2>3, <2>4 DEF IInv
<1>2. IInv /\ Next => IInv'
  BY Assessed, StepFates, EvaluateCounted, OthersCounted, EvaluateCompatible, OthersCompatible DEF IInv
<1>3. IInv /\ UNCHANGED vars => IInv'
  <2> SUFFICES ASSUME IInv, UNCHANGED vars PROVE IInv'
    OBVIOUS
  <2>1. TypeOK'
    BY DEF IInv, TypeOK, vars
  <2>2. Used' = Used /\ Live' = Live
    BY DEF Used, Live, Standing, vars
  <2>3. \A a : Taken(a)' = Taken(a) /\ InHand(a)' = InHand(a)
    BY DEF Taken, Counted, Standing, Used, InHand, Known, FindByIdempotency, Primary, vars
  <2>4. PendingIsCounted'
    BY <2>3 DEF IInv, PendingIsCounted
  <2>5. SeenIsCompatible'
    BY <2>2 DEF IInv, SeenIsCompatible, Conflicts, vars
  <2> QED BY <2>1, <2>4, <2>5 DEF IInv
<1> QED BY <1>1, <1>2, <1>3, PTL DEF Spec

\* No agent exceeds its quota by more than one capture per other process.
THEOREM Overrun == Spec => []OverrunIsBounded
<1>1. IInv => OverrunIsBounded
  BY Finite, QuotaAssumption DEF IInv, PendingIsCounted, OverrunIsBounded, Taken
<1> QED BY <1>1, Invariance, PTL

\* What the policy could see in contradiction with a capture, it held the capture for.
THEOREM SeenConflicts == Spec => SeenConflictIsHeld
<1>1. ASSUME IInv, Next, NEW p \in Processes, NEW i \in Ids, Contradicted(p, i) # {}
      PROVE  Contradicted(p, i) \intersect assessed[p].seen = {}
  <2>1. /\ assessed[p] # None /\ assessed'[p] = None
        /\ rec[i].status = "absent" /\ rec'[i].status = "active"
        /\ Contradicted(p, i) = Conflicts(rec'[i].memory)
    BY <1>1 DEF Contradicted
  <2>2. Inserted(i)
    BY <1>1, <2>1, StepFates DEF IInv, Fates, Used
  <2>3. PICK q \in Processes : Captured(q, i)
    BY <2>1, <2>2 DEF Inserted
  <2>4. q = p
    BY <1>1, <2>1, <2>3 DEF Captured, IInv, TypeOK
  <2>5. rec'[i].memory = assessed[p].memory /\ assessed[p].disposition = "active"
    BY <2>1, <2>3, <2>4 DEF Captured, Row
  <2> QED BY <1>1, <2>1, <2>5 DEF IInv, SeenIsCompatible
<1>2. IInv /\ [Next]_vars =>
        [\A p \in Processes, i \in Ids :
           Contradicted(p, i) # {} => Contradicted(p, i) \intersect assessed[p].seen = {}]_vars
  BY <1>1
<1> QED BY <1>2, Invariance, PTL DEF Spec, SeenConflictIsHeld

=============================================================================
