------------------------ MODULE HandoffLineageProofs ------------------------
(***************************************************************************)
(* Theorems about HandoffLineage, for every number of rows, agents,        *)
(* branches, checkpoints and every quota.                                  *)
(*                                                                         *)
(* The invariant IInv adds to the properties what they rest on: an unused  *)
(* row is empty, a row that waits for review has replaced nothing, has no  *)
(* expiry and is always valid, only a correction is valid later, no row is *)
(* ahead of the sequence, and on a branch where corrections only repeated  *)
(* what they corrected the head is newer than every row that ever was one. *)
(***************************************************************************)
EXTENDS HandoffLineage, FiniteSetTheorems, TLAPS

AbsentIsEmpty == \A i \in Ids : rec[i].status = "absent" => rec[i] = NoRow

WaitingIsPlain ==
  \A i \in Ids : rec[i].status \in Pending =>
    /\ rec[i].supersedes = None /\ rec[i].touched = {}
    /\ rec[i].expiry = "none" /\ rec[i].validity = "always"

LaterIsTouched == \A i \in Ids : rec[i].validity = "later" => rec[i].touched # {}

SequenceBounds == \A i \in Ids : rec[i].sequence <= sequence

HeadIsNewest ==
  \A b \in Branches : Untouched(b) =>
    \A h \in Heads(b), k \in Ids :
      /\ k # h
      /\ rec[k].branch = b
      /\ rec[k].status \in {"active", "superseded"}
      /\ Current(rec[k])
      => rec[k].sequence < rec[h].sequence

IInv ==
  /\ TypeOK
  /\ AbsentIsEmpty
  /\ WaitingIsPlain
  /\ LaterIsTouched
  /\ SequenceBounds
  /\ SuccessionFollowsLineage
  /\ NoTwoSuccessors
  /\ HeadIsNewest
  /\ QuotaHeld

-----------------------------------------------------------------------------
(* Types.                                                                  *)

\* The row a save inserts is a row, and so is an approved one.
LEMMA CapturedType ==
  ASSUME TypeOK, NEW a \in Agents, NEW b \in Branches, NEW cp \in Checkpoints,
         NEW prev \in Checkpoints \union {None}, NEW sens \in Sensitivities,
         NEW status \in {"active", "quarantined"}, NEW old \in Ids \union {None}
  PROVE  Captured(a, b, cp, prev, sens, status, old) \in Rows
BY BranchAssumption DEF TypeOK, Captured, Rows, Statuses, Expiries, Validities, Key, Keys

LEMMA ApprovedType ==
  ASSUME TypeOK, NEW i \in Ids, NEW old \in Ids \union {None}
  PROVE  Approved(i, old) \in Rows
<1>1. rec[i] \in Rows /\ sequence + 1 \in Nat
  BY DEF TypeOK
<1>2. \A r \in Rows, n \in Nat :
        [r EXCEPT !.status = "active", !.expiry = "running",
                  !.supersedes = old, !.sequence = n] \in Rows
  BY DEF Rows, Statuses, Expiries
<1> QED
  BY <1>1, <1>2 DEF Approved

-----------------------------------------------------------------------------
(***************************************************************************)
(* Every operation that draws a sequence publishes a row: it writes the    *)
(* row under that sequence, marks the one the row supersedes, if any, as   *)
(* superseded, and leaves the rest.  The row waits for review, or heads    *)
(* its branch, or corrects another.                                        *)
(***************************************************************************)
Publish(i, row) ==
  /\ i \in Ids
  /\ row \in Rows
  /\ rec[i].status \in Pending \union {"absent"}
  /\ rec[i].status \in Pending => row.status = "active"
  /\ rec'[i] = row
  /\ rec' \in [Ids -> Rows]
  /\ \A k \in Ids \ {i, row.supersedes} : rec'[k] = rec[k]
  /\ row.supersedes # None =>
       /\ row.supersedes # i
       /\ rec[row.supersedes].status = "active"
       /\ rec'[row.supersedes] = [rec[row.supersedes] EXCEPT !.status = "superseded"]
  /\ row.sequence = sequence + 1
  /\ sequence' = sequence + 1

Waits(row) ==
  /\ row.status = "quarantined" /\ row.supersedes = None /\ row.touched = {}
  /\ row.expiry = "none" /\ row.validity = "always"

Continues(row) ==
  /\ row.status = "active" /\ row.touched = {} /\ row.validity = "always"
  /\ \/ row.supersedes = None /\ Heads(row.branch) = {}
     \/ /\ row.supersedes \in Heads(row.branch)
        /\ row.previous = rec[row.supersedes].checkpoint

Corrects(row) ==
  LET old == rec[row.supersedes]
  IN  /\ row.supersedes # None
      /\ row.status = "active"
      /\ row.agent = old.agent
      /\ row.checkpoint = old.checkpoint
      /\ row.previous = old.previous
      /\ row.branch # old.branch => row.touched # {}
      /\ old.expiry = "lapsed" /\ row.expiry # "lapsed" => "revived" \in row.touched
      /\ Current(row) /\ ~Current(old) => row.touched # {}
      /\ row.validity = "later" => row.touched # {}

\* The agent has room for the row in place of the one it supersedes.
Room(i, row) ==
  Cardinality((Counted(row.agent) \union {i}) \ {row.supersedes}) <= QuotaLimit

Publishes == \E i \in Ids, row \in Rows :
  /\ Publish(i, row)
  /\ \/ Waits(row) /\ Room(i, row)
     \/ Continues(row) /\ Room(i, row)
     \/ Corrects(row)

LEMMA IdsAreNat == Ids \subseteq Nat /\ None \notin Ids
BY NoneAssumption, RowsAssumption DEF Ids

\* Writing a row where none was superseded, or beside the one it supersedes.
LEMMA PublishFirst ==
  ASSUME TypeOK, NEW i \in Ids, NEW row \in Rows, row.supersedes = None,
         rec[i].status \in Pending \union {"absent"},
         rec[i].status \in Pending => row.status = "active",
         row.sequence = sequence + 1, sequence' = sequence + 1,
         rec' = [rec EXCEPT ![i] = row]
  PROVE  Publish(i, row)
BY IdsAreNat DEF TypeOK, Publish

LEMMA PublishSuccessor ==
  ASSUME TypeOK, NEW i \in Ids, NEW p \in Ids, NEW row \in Rows, row.supersedes = p,
         rec[i].status \in Pending \union {"absent"}, rec[p].status = "active",
         rec[i].status \in Pending => row.status = "active",
         row.sequence = sequence + 1, sequence' = sequence + 1,
         rec' = [rec EXCEPT ![i] = row, ![p].status = "superseded"]
  PROVE  Publish(i, row)
<1>1. i # p
  BY DEF Pending
<1>2. \A r \in Rows : [r EXCEPT !.status = "superseded"] \in Rows
  BY DEF Rows, Statuses
<1>3. rec[p] \in Rows
  BY DEF TypeOK
<1>4. rec' \in [Ids -> Rows]
  BY <1>2, <1>3 DEF TypeOK
<1> QED
  BY <1>1, <1>4, IdsAreNat DEF TypeOK, Publish

-----------------------------------------------------------------------------
(* Each operation publishes in one of the three ways.                      *)

LEMMA CountedFinite ==
  ASSUME NEW a
  PROVE  IsFiniteSet(Counted(a)) /\ Cardinality(Counted(a)) \in Nat
<1>1. IsFiniteSet(Ids)
  BY RowsAssumption, FS_Interval DEF Ids
<1>2. Counted(a) \in SUBSET Ids
  BY DEF Counted
<1> QED
  BY <1>1, <1>2, FS_Subset, FS_CardinalityType

\* A free slot is room for a row; a slot the row takes over is, too.
LEMMA RoomForOne ==
  ASSUME NEW a, NEW i, NEW x,
         \/ WithinQuota(a, 1)
         \/ WithinQuota(a, 0) /\ (i \in Counted(a) \/ x \in Counted(a))
  PROVE  Cardinality((Counted(a) \union {i}) \ {x}) <= QuotaLimit
<1> DEFINE S == Counted(a)
           T == S \union {i}
<1>1. IsFiniteSet(S) /\ Cardinality(S) \in Nat /\ QuotaLimit \in Nat
  BY CountedFinite, QuotaAssumption
<1>2. IsFiniteSet(T) /\ Cardinality(T) = IF i \in S THEN Cardinality(S) ELSE Cardinality(S) + 1
  BY <1>1, FS_AddElement
<1>3. Cardinality(T \ {x}) = IF x \in T THEN Cardinality(T) - 1 ELSE Cardinality(T)
  BY <1>2, FS_RemoveElement
<1>4. \/ Cardinality(S) + 1 <= QuotaLimit
      \/ Cardinality(S) <= QuotaLimit /\ (i \in S \/ x \in S)
  BY <1>1 DEF WithinQuota
<1>5. x \in S => x \in T
  OBVIOUS
<1> HIDE DEF S, T
<1>6. Cardinality(T \ {x}) <= QuotaLimit
  BY <1>1, <1>2, <1>3, <1>4, <1>5
<1> QED
  BY <1>6 DEF S, T

LEMMA SavePublishes ==
  ASSUME TypeOK, NEW i \in FreshIds, NEW a \in Agents, NEW b \in Branches,
         NEW cp \in Checkpoints, NEW link \in Links, NEW sens \in Sensitivities,
         NEW cleared \in BOOLEAN, SaveHandoff(i, a, b, cp, link, sens, cleared)
  PROVE  Publishes
<1>1. /\ i \in Ids /\ rec[i].status = "absent" /\ rec[i].status \notin Pending
      /\ sequence' = sequence + 1
  BY DEF FreshIds, SaveHandoff, Pending
<1>2. ASSUME NEW prev \in Checkpoints \union {None}, NEW status \in {"active", "quarantined"},
             NEW old \in Ids \union {None}
      PROVE  \E row \in Rows :
               /\ row = Captured(a, b, cp, prev, sens, status, old)
               /\ row.status = status
               /\ row.agent = a
               /\ row.branch = b
               /\ row.previous = prev
               /\ row.supersedes = old
               /\ row.touched = {} /\ row.validity = "always"
               /\ row.sequence = sequence + 1
               /\ status = "quarantined" => row.expiry = "none"
  <2>1. PICK row \in Rows : row = Captured(a, b, cp, prev, sens, status, old)
    BY CapturedType
  <2>2. /\ row.status = status /\ row.agent = a /\ row.branch = b
        /\ row.previous = prev /\ row.supersedes = old
    BY <2>1 DEF Captured
  <2>3. row.touched = {} /\ row.validity = "always" /\ row.sequence = sequence + 1
    BY <2>1 DEF Captured
  <2>4. status = "quarantined" => row.expiry = "none"
    BY <2>1 DEF Captured
  <2> QED
    BY <2>1, <2>2, <2>3, <2>4
<1>3. CASE SaveFirst(i, a, b, cp, link, sens)
  <2>1. PICK prev \in Checkpoints \union {None}, status \in {"active", "quarantined"} :
          /\ rec' = [rec EXCEPT ![i] = Captured(a, b, cp, prev, sens, status, None)]
          /\ Heads(b) = {}
    <3> DEFINE prev   == IF link = "auto" THEN None ELSE link
               status == IF prev = None THEN Disposition(sens) ELSE "quarantined"
    <3>1. prev \in Checkpoints \union {None} /\ status \in {"active", "quarantined"}
      BY DEF Links, Disposition
    <3>2. rec' = [rec EXCEPT ![i] = Captured(a, b, cp, prev, sens, status, None)] /\ Heads(b) = {}
      BY <1>3 DEF SaveFirst
    <3> QED
      BY <3>1, <3>2
  <2>2. PICK row \in Rows :
          /\ row = Captured(a, b, cp, prev, sens, status, None)
          /\ row.status = status /\ row.agent = a /\ row.branch = b /\ row.supersedes = None
          /\ row.touched = {} /\ row.validity = "always" /\ row.sequence = sequence + 1
          /\ status = "quarantined" => row.expiry = "none"
    BY <1>2
  <2>3. Publish(i, row)
    BY <1>1, <2>1, <2>2, PublishFirst
  <2>4. Waits(row) \/ Continues(row)
    BY <2>1, <2>2 DEF Waits, Continues
  <2>5. Room(i, row)
    BY <1>3, <2>2, RoomForOne DEF SaveFirst, Room
  <2> QED
    BY <1>1, <2>3, <2>4, <2>5 DEF Publishes
<1>4. ASSUME NEW p \in Heads(b), SaveSuccessor(i, a, b, cp, link, sens, p)
      PROVE  Publishes
  <2>1. p \in Ids /\ rec[p].status = "active" /\ rec[p].checkpoint \in Checkpoints \union {None}
    BY DEF Heads, Live, TypeOK, Rows
  <2>2. PICK row \in Rows :
          /\ row = Captured(a, b, cp, rec[p].checkpoint, sens, "active", p)
          /\ row.status = "active" /\ row.agent = a /\ row.branch = b /\ row.supersedes = p
          /\ row.previous = rec[p].checkpoint
          /\ row.touched = {} /\ row.validity = "always" /\ row.sequence = sequence + 1
    <3>1. PICK prev \in Checkpoints \union {None} : prev = rec[p].checkpoint
      BY <2>1
    <3> QED
      BY <1>2, <2>1, <3>1
  <2>3. rec' = [rec EXCEPT ![i] = row, ![p].status = "superseded"]
    BY <1>4, <2>2 DEF SaveSuccessor
  <2>4. Publish(i, row)
    BY <1>1, <2>1, <2>2, <2>3, PublishSuccessor
  <2>5. Continues(row)
    BY <2>1, <2>2 DEF Continues
  <2>6. Room(i, row)
    <3>1. rec[p].agent = a => p \in Counted(a)
      BY <2>1 DEF Counted, Heads, Live, Current
    <3>2. WithinQuota(a, IF rec[p].agent = a THEN 0 ELSE 1)
      BY <1>4 DEF SaveSuccessor
    <3>3. Cardinality((Counted(a) \union {i}) \ {p}) <= QuotaLimit
      BY <3>1, <3>2, RoomForOne
    <3> QED
      BY <2>2, <3>3 DEF Room
  <2> QED
    BY <1>1, <2>4, <2>5, <2>6 DEF Publishes
<1>5. ASSUME NEW p \in Heads(b), SaveHeld(i, a, b, cp, link, sens, p)
      PROVE  Publishes
  <2>1. PICK prev \in Checkpoints \union {None} :
          rec' = [rec EXCEPT ![i] = Captured(a, b, cp, prev, sens, "quarantined", None)]
    <3>1. p \in Ids
      BY DEF Heads
    <3>2. (IF link = "auto" THEN rec[p].checkpoint ELSE link) \in Checkpoints \union {None}
      BY <3>1 DEF TypeOK, Rows, Links
    <3> QED
      BY <1>5, <3>2 DEF SaveHeld
  <2>2. PICK row \in Rows :
          /\ row = Captured(a, b, cp, prev, sens, "quarantined", None)
          /\ row.status = "quarantined" /\ row.agent = a /\ row.supersedes = None
          /\ row.touched = {} /\ row.validity = "always"
          /\ row.sequence = sequence + 1 /\ row.expiry = "none"
    BY <1>2
  <2>3. Publish(i, row)
    BY <1>1, <2>1, <2>2, PublishFirst
  <2>4. Waits(row)
    BY <2>2 DEF Waits
  <2>5. Room(i, row)
    BY <1>5, <2>2, RoomForOne DEF SaveHeld, Room
  <2> QED
    BY <1>1, <2>3, <2>4, <2>5 DEF Publishes
<1> QED
  BY <1>3, <1>4, <1>5 DEF SaveHandoff

LEMMA ApprovePublishes ==
  ASSUME TypeOK, WaitingIsPlain, NEW i \in Ids, Approve(i)
  PROVE  Publishes
<1>1. rec[i].status \in Pending /\ sequence' = sequence + 1 /\ rec[i] \in Rows
  BY DEF Approve, TypeOK
<1>2. ASSUME NEW old \in Ids \union {None}
      PROVE  \E row \in Rows :
               /\ row = Approved(i, old)
               /\ row.status = "active"
               /\ row.branch = rec[i].branch
               /\ row.agent = rec[i].agent
               /\ row.previous = rec[i].previous
               /\ row.supersedes = old
               /\ row.touched = {} /\ row.validity = "always"
               /\ row.sequence = sequence + 1
  <2>1. PICK row \in Rows : row = Approved(i, old)
    BY ApprovedType
  <2>2. rec[i].touched = {} /\ rec[i].validity = "always"
    BY <1>1 DEF WaitingIsPlain
  <2>3. row.status = "active" /\ row.supersedes = old /\ row.sequence = sequence + 1
    BY <1>1, <2>1 DEF Approved, Rows
  <2>4. /\ row.branch = rec[i].branch /\ row.previous = rec[i].previous
        /\ row.agent = rec[i].agent /\ row.touched = {} /\ row.validity = "always"
    BY <1>1, <2>1, <2>2 DEF Approved, Rows
  <2> QED
    BY <2>1, <2>3, <2>4
<1>3. \A x : Cardinality((Counted(rec[i].agent) \union {i}) \ {x}) <= QuotaLimit
  <2>1. i \in Counted(rec[i].agent)
    BY <1>1 DEF Counted, WaitingIsPlain
  <2> QED
    BY <2>1, RoomForOne DEF Approve
<1>4. CASE Heads(rec[i].branch) = {} /\ rec' = [rec EXCEPT ![i] = Approved(i, None)]
  <2>1. PICK row \in Rows :
          /\ row = Approved(i, None)
          /\ row.status = "active" /\ row.branch = rec[i].branch /\ row.supersedes = None
          /\ row.agent = rec[i].agent
          /\ row.touched = {} /\ row.validity = "always" /\ row.sequence = sequence + 1
    BY <1>2
  <2>2. Publish(i, row)
    BY <1>1, <1>4, <2>1, PublishFirst
  <2>3. Continues(row)
    BY <1>4, <2>1 DEF Continues
  <2> QED
    BY <1>3, <2>1, <2>2, <2>3 DEF Publishes, Room
<1>5. ASSUME NEW p \in Heads(rec[i].branch), rec[i].previous = rec[p].checkpoint,
             rec' = [rec EXCEPT ![i] = Approved(i, p), ![p].status = "superseded"]
      PROVE  Publishes
  <2>1. p \in Ids /\ rec[p].status = "active"
    BY DEF Heads, Live
  <2>2. PICK row \in Rows :
          /\ row = Approved(i, p)
          /\ row.status = "active" /\ row.branch = rec[i].branch
          /\ row.previous = rec[i].previous /\ row.supersedes = p /\ row.agent = rec[i].agent
          /\ row.touched = {} /\ row.validity = "always" /\ row.sequence = sequence + 1
    BY <1>2, <2>1
  <2>3. Publish(i, row)
    BY <1>1, <1>5, <2>1, <2>2, PublishSuccessor
  <2>4. Continues(row)
    BY <1>5, <2>1, <2>2 DEF Continues
  <2> QED
    BY <1>3, <2>2, <2>3, <2>4 DEF Publishes, Room
<1> QED
  BY <1>4, <1>5 DEF Approve

\* A correction's row has the fields the replacement names, and is marked as
\* touched where they do more than repeat.
LEMMA CorrectedRow ==
  ASSUME TypeOK, NEW i \in Ids, NEW r \in Replacements, r.key # Elsewhere
  PROVE  \E row \in Rows :
           /\ row = Corrected(i, r)
           /\ row.status = rec[i].status
           /\ row.agent = rec[i].agent
           /\ row.checkpoint = rec[i].checkpoint
           /\ row.previous = rec[i].previous
           /\ row.supersedes = i
           /\ row.sequence = sequence + 1
           /\ row.touched = TouchedBy(rec[i], row)
<1> DEFINE New == [rec[i] EXCEPT !.branch = Given(r.branch, @),
                                 !.sensitivity = Given(r.sensitivity, @),
                                 !.expiry = Given(r.expiry, @),
                                 !.validity = Given(r.validity, @),
                                 !.supersedes = i, !.sequence = sequence + 1, !.key = r.key]
           T == TouchedBy(rec[i], New)
<1>1. rec[i] \in Rows /\ sequence + 1 \in Nat /\ r \in AllReplacements
  BY ReplacementsAssumption DEF TypeOK
<1>2. /\ Given(r.branch, rec[i].branch) \in Branches \union {None}
      /\ Given(r.sensitivity, rec[i].sensitivity) \in Sensitivities
      /\ Given(r.expiry, rec[i].expiry) \in Expiries
      /\ Given(r.validity, rec[i].validity) \in Validities
      /\ r.key \in Keys \union {None}
  BY <1>1 DEF Given, AllReplacements, Rows
<1>3. New \in Rows
  BY <1>1, <1>2 DEF Rows
<1>4. T \in SUBSET Touches
  BY DEF TouchedBy, Touches
<1>5. /\ New.status = rec[i].status /\ New.agent = rec[i].agent
      /\ New.checkpoint = rec[i].checkpoint /\ New.previous = rec[i].previous
      /\ New.supersedes = i /\ New.sequence = sequence + 1
  BY <1>1 DEF Rows
<1>6. Corrected(i, r) = [New EXCEPT !.touched = T]
  BY DEF Corrected
<1> HIDE DEF New
<1>7. TouchedBy(rec[i], [New EXCEPT !.touched = T]) = T
  BY <1>3 DEF TouchedBy, Rows
<1> HIDE DEF T
<1>8. PICK row \in Rows : row = [New EXCEPT !.touched = T]
  BY <1>3, <1>4 DEF Rows
<1>9. /\ row.status = New.status /\ row.agent = New.agent
      /\ row.checkpoint = New.checkpoint /\ row.previous = New.previous
      /\ row.supersedes = New.supersedes /\ row.sequence = New.sequence
      /\ row.touched = T
  BY <1>3, <1>8 DEF Rows
<1> QED
  BY <1>5, <1>6, <1>7, <1>8, <1>9

LEMMA CorrectPublishes ==
  ASSUME TypeOK, NEW i \in Ids, NEW r \in Replacements, rec[i].status = "active",
         CorrectByInsert(i, r), sequence' = sequence + 1
  PROVE  Publishes
<1>1. PICK j \in FreshIds :
        rec' = [rec EXCEPT ![j] = Corrected(i, r), ![i].status = "superseded"]
  BY DEF CorrectByInsert
<1>2. j \in Ids /\ rec[j].status = "absent" /\ rec[j].status \notin Pending
  BY DEF FreshIds, Pending
<1>3. PICK row \in Rows :
        /\ row = Corrected(i, r)
        /\ row.status = "active"
        /\ row.agent = rec[i].agent /\ row.checkpoint = rec[i].checkpoint
        /\ row.previous = rec[i].previous
        /\ row.supersedes = i /\ row.sequence = sequence + 1
        /\ row.touched = TouchedBy(rec[i], row)
  BY CorrectedRow DEF CorrectByInsert
<1>4. Publish(j, row)
  BY <1>1, <1>2, <1>3, PublishSuccessor
<1>5. Corrects(row)
  <2>1. i # None /\ rec[i] \in Rows
    BY IdsAreNat DEF TypeOK
  <2>2. row.branch # rec[i].branch => row.touched # {}
    BY <1>3 DEF TouchedBy
  <2>3. rec[i].expiry = "lapsed" /\ row.expiry # "lapsed" => "revived" \in row.touched
    BY <1>3 DEF TouchedBy
  <2>4. row.validity = "later" => row.touched # {}
    BY <1>3 DEF TouchedBy
  <2>5. Current(row) /\ ~Current(rec[i]) => row.touched # {}
    BY <1>3, <2>1 DEF TouchedBy, Current, Rows, Validities
  <2> QED
    BY <1>3, <2>1, <2>2, <2>3, <2>4, <2>5 DEF Corrects
<1> QED
  BY <1>2, <1>4, <1>5 DEF Publishes

-----------------------------------------------------------------------------
(***************************************************************************)
(* The other steps amend one row in place: a review revises it, a caller   *)
(* forgets it, or its expiry passes.                                       *)
(***************************************************************************)
Amend(i, row) ==
  /\ i \in Ids
  /\ row \in Rows
  /\ rec' = [rec EXCEPT ![i] = row]
  /\ sequence' = sequence
  /\ rec[i].status # "absent"
  /\ row.agent = rec[i].agent
  /\ row.checkpoint = rec[i].checkpoint
  /\ row.previous = rec[i].previous
  /\ row.sequence = rec[i].sequence
  /\ row.supersedes = rec[i].supersedes
  /\ row.touched = rec[i].touched

Revises(i, row) ==
  /\ rec[i].status \in Pending /\ row.status = "proposed"
  /\ row.expiry = rec[i].expiry /\ row.validity = rec[i].validity

Forgets(i, row) ==
  /\ row.status = "tombstoned" /\ row.branch = rec[i].branch
  /\ row.expiry = rec[i].expiry /\ row.validity = rec[i].validity

Lapses(i, row) ==
  /\ rec[i].status = "active" /\ row.status = "active" /\ row.branch = rec[i].branch
  /\ row.expiry \in {rec[i].expiry, "lapsed"}
  /\ row.validity = "later" => rec[i].validity = "later"
  /\ row.expiry = "lapsed" \/ row.validity = "ended" \/ rec[i].validity = "later"

Amends == \E i \in Ids, row \in Rows :
  Amend(i, row) /\ (Revises(i, row) \/ Forgets(i, row) \/ Lapses(i, row))

LEMMA AmendingSteps ==
  ASSUME TypeOK, NEW i \in Ids,
         \/ \E b \in Branches : RevisePending(i, b)
         \/ Forget(i)
         \/ Lapse(i)
  PROVE  Amends
<1>1. rec[i] \in Rows
  BY DEF TypeOK
<1>2. ASSUME NEW b \in Branches, RevisePending(i, b)
      PROVE  Amends
  <2>1. PICK row \in Rows : row = [rec[i] EXCEPT !.status = "proposed", !.branch = b]
    BY <1>1 DEF Rows, Statuses
  <2>2. rec' = [rec EXCEPT ![i] = row] /\ rec[i].status \in Pending /\ sequence' = sequence
    BY <1>2, <2>1 DEF RevisePending, TypeOK
  <2>3. Amend(i, row)
    BY <1>1, <2>1, <2>2 DEF Amend, Rows, Pending
  <2>4. Revises(i, row)
    BY <1>1, <2>1, <2>2 DEF Revises, Rows
  <2> QED
    BY <2>3, <2>4 DEF Amends
<1>3. CASE Forget(i)
  <2>1. PICK row \in Rows : row = [rec[i] EXCEPT !.status = "tombstoned"]
    BY <1>1 DEF Rows, Statuses
  <2>2. rec' = [rec EXCEPT ![i] = row] /\ rec[i].status # "absent" /\ sequence' = sequence
    BY <1>3, <2>1 DEF Forget, TypeOK
  <2>3. Amend(i, row)
    BY <1>1, <2>1, <2>2 DEF Amend, Rows
  <2>4. Forgets(i, row)
    BY <1>1, <2>1 DEF Forgets, Rows
  <2> QED
    BY <2>3, <2>4 DEF Amends
<1>4. CASE Lapse(i)
  <2>1. PICK row \in Rows :
          /\ rec' = [rec EXCEPT ![i] = row]
          /\ \/ row = [rec[i] EXCEPT !.expiry = "lapsed"]
             \/ row = [rec[i] EXCEPT !.validity = "bounded"] /\ rec[i].validity = "later"
             \/ row = [rec[i] EXCEPT !.validity = "ended"]
    <3>1. /\ [rec[i] EXCEPT !.expiry = "lapsed"] \in Rows
          /\ [rec[i] EXCEPT !.validity = "bounded"] \in Rows
          /\ [rec[i] EXCEPT !.validity = "ended"] \in Rows
      BY <1>1 DEF Rows, Expiries, Validities
    <3> QED
      BY <1>4, <3>1 DEF Lapse, TypeOK
  <2>2. rec[i].status = "active" /\ sequence' = sequence
    BY <1>4 DEF Lapse
  <2>3. Amend(i, row)
    BY <1>1, <2>1, <2>2 DEF Amend, Rows
  <2>4. Lapses(i, row)
    BY <1>1, <2>1, <2>2 DEF Lapses, Rows
  <2> QED
    BY <2>3, <2>4 DEF Amends
<1> QED
  BY <1>2, <1>3, <1>4

-----------------------------------------------------------------------------
(***************************************************************************)
(* A correction that names a known key inserts nothing: rows that wait are *)
(* activated, and active ones superseded, with no row in their place.      *)
(***************************************************************************)

\* What becomes of a row the step is not about, and of a superseded one.
Kept(k) == rec'[k] = rec[k]

Marked(k) ==
  /\ rec[k].status = "active"
  /\ rec'[k].status = "superseded"
  /\ rec'[k].agent = rec[k].agent
  /\ rec'[k].branch = rec[k].branch
  /\ rec'[k].checkpoint = rec[k].checkpoint
  /\ rec'[k].previous = rec[k].previous
  /\ rec'[k].expiry = rec[k].expiry
  /\ rec'[k].validity = rec[k].validity
  /\ rec'[k].sequence = rec[k].sequence
  /\ rec'[k].supersedes = rec[k].supersedes
  /\ rec'[k].touched = rec[k].touched

Activates(k) ==
  /\ rec[k].status = "proposed"
  /\ rec'[k].status = "active"
  /\ rec'[k].agent = rec[k].agent
  /\ rec'[k].branch = rec[k].branch
  /\ rec'[k].checkpoint = rec[k].checkpoint
  /\ rec'[k].previous = rec[k].previous
  /\ rec'[k].expiry = rec[k].expiry
  /\ rec'[k].validity = rec[k].validity
  /\ rec'[k].sequence = rec[k].sequence
  /\ rec'[k].supersedes = rec[k].supersedes
  /\ rec'[k].touched = rec[k].touched \union {"activated"}

Settles ==
  /\ TypeOK'
  /\ sequence' \in {sequence, sequence + 1}
  /\ \A k \in Ids : Kept(k) \/ Marked(k) \/ Activates(k)

LEMMA ActivatedRow ==
  ASSUME NEW row \in Rows
  PROVE  LET new == Activated(row)
         IN  /\ new \in Rows
             /\ new.status = "active" /\ new.touched = row.touched \union {"activated"}
             /\ new.agent = row.agent /\ new.branch = row.branch
             /\ new.checkpoint = row.checkpoint /\ new.previous = row.previous
             /\ new.expiry = row.expiry /\ new.validity = row.validity
             /\ new.sequence = row.sequence /\ new.supersedes = row.supersedes
<1> DEFINE T == row.touched \union {"activated"}
<1>1. T \in SUBSET Touches
  BY DEF Rows, Touches
<1>2. Activated(row) = [row EXCEPT !.status = "active", !.touched = T]
  BY DEF Activated, Rows
<1> HIDE DEF T
<1>3. [row EXCEPT !.status = "active", !.touched = T] \in Rows
  BY <1>1 DEF Rows, Statuses
<1>4. LET new == [row EXCEPT !.status = "active", !.touched = T]
      IN  /\ new.status = "active" /\ new.touched = T
          /\ new.agent = row.agent /\ new.branch = row.branch
          /\ new.checkpoint = row.checkpoint /\ new.previous = row.previous
          /\ new.expiry = row.expiry /\ new.validity = row.validity
          /\ new.sequence = row.sequence /\ new.supersedes = row.supersedes
  BY DEF Rows
<1> QED
  BY <1>2, <1>3, <1>4 DEF T

LEMMA SupersededRow ==
  ASSUME NEW row \in Rows
  PROVE  [row EXCEPT !.status = "superseded"] \in Rows
BY DEF Rows, Statuses

LEMMA ActivateSettles ==
  ASSUME TypeOK, NEW j \in Ids, rec[j].status = "proposed",
         rec' = [rec EXCEPT ![j] = Activated(@)], sequence' \in {sequence, sequence + 1}
  PROVE  Settles
<1>1. rec[j] \in Rows /\ Activated(rec[j]) \in Rows
  BY ActivatedRow DEF TypeOK
<1>2. rec' \in [Ids -> Rows] /\ sequence' \in Nat
  BY <1>1 DEF TypeOK
<1>3. rec'[j] = Activated(rec[j]) /\ \A k \in Ids \ {j} : rec'[k] = rec[k]
  BY DEF TypeOK
<1>4. Activates(j)
  BY <1>1, <1>3, ActivatedRow DEF Activates
<1> QED
  BY <1>2, <1>3, <1>4 DEF Settles, Kept, TypeOK

LEMMA SupersedeSettles ==
  ASSUME TypeOK, NEW i \in Ids, rec[i].status = "active",
         rec' = [rec EXCEPT ![i].status = "superseded"], sequence' = sequence + 1
  PROVE  Settles
<1>1. rec[i] \in Rows /\ [rec[i] EXCEPT !.status = "superseded"] \in Rows
  BY SupersededRow DEF TypeOK
<1>2. rec' \in [Ids -> Rows] /\ sequence' \in Nat
  BY <1>1 DEF TypeOK
<1>3. /\ rec'[i] = [rec[i] EXCEPT !.status = "superseded"]
      /\ \A k \in Ids \ {i} : rec'[k] = rec[k]
  BY DEF TypeOK
<1>4. Marked(i)
  BY <1>1, <1>3 DEF Marked, Rows
<1> QED
  BY <1>2, <1>3, <1>4 DEF Settles, Kept, TypeOK

LEMMA CorrectSteps ==
  ASSUME TypeOK, NEW i \in Ids, NEW r \in Replacements, Correct(i, r)
  PROVE  Publishes \/ Settles
<1>1. rec[i].status = "active" /\ sequence' = sequence + 1
  BY DEF Correct
<1>2. CASE CorrectByInsert(i, r)
  BY <1>1, <1>2, CorrectPublishes
<1>3. CASE CorrectByKey(i, r)
  <2>1. PICK j \in Ids :
          \/ /\ rec[j].status = "proposed"
             /\ rec' = [rec EXCEPT ![j] = Activated(@), ![i].status = "superseded"]
          \/ rec' = [rec EXCEPT ![i].status = "superseded"]
    BY <1>3 DEF CorrectByKey, Found
  <2>2. CASE rec' = [rec EXCEPT ![i].status = "superseded"]
    BY <1>1, <2>2, SupersedeSettles
  <2>3. CASE /\ rec[j].status = "proposed"
             /\ rec' = [rec EXCEPT ![j] = Activated(@), ![i].status = "superseded"]
    <3>1. i # j
      BY <1>1, <2>3
    <3>2. /\ rec[i] \in Rows /\ [rec[i] EXCEPT !.status = "superseded"] \in Rows
          /\ rec[j] \in Rows /\ Activated(rec[j]) \in Rows
      BY ActivatedRow, SupersededRow DEF TypeOK
    <3>3. /\ rec'[j] = Activated(rec[j])
          /\ rec'[i] = [rec[i] EXCEPT !.status = "superseded"]
          /\ \A k \in Ids \ {i, j} : rec'[k] = rec[k]
          /\ rec' \in [Ids -> Rows] /\ sequence' \in Nat
      BY <1>1, <2>3, <3>1, <3>2 DEF TypeOK
    <3>4. Activates(j)
      <4>1. rec[j].status = "proposed" /\ rec[j] \in Rows
        BY <2>3, <3>2
      <4>2. rec'[j] = Activated(rec[j])
        BY <3>3
      <4> QED
        BY <4>1, <4>2, ActivatedRow DEF Activates
    <3>5. Marked(i)
      BY <1>1, <3>2, <3>3 DEF Marked, Rows
    <3> QED
      BY <1>1, <3>3, <3>4, <3>5 DEF Settles, Kept, TypeOK
  <2> QED
    BY <2>1, <2>2, <2>3
<1>4. CASE CorrectByOther(i, r)
  BY <1>1, <1>4, SupersedeSettles DEF CorrectByOther
<1> QED
  BY <1>2, <1>3, <1>4 DEF Correct

LEMMA Steps ==
  ASSUME TypeOK, WaitingIsPlain, [Next]_vars
  PROVE  Publishes \/ Amends \/ Settles \/ UNCHANGED vars
<1>1. ASSUME NEW j \in Ids, CorrectElsewhere(j)
      PROVE  Settles
  BY <1>1, ActivateSettles DEF CorrectElsewhere
<1> QED
  BY <1>1, SavePublishes, ApprovePublishes, CorrectSteps, AmendingSteps DEF Next, FreshIds

-----------------------------------------------------------------------------
(* The parts of IInv that mention one row at a time.                       *)

RowInv == TypeOK /\ AbsentIsEmpty /\ WaitingIsPlain /\ LaterIsTouched /\ SequenceBounds

LEMMA PublishedRows ==
  ASSUME TypeOK, NEW i \in Ids, NEW row \in Rows, Publish(i, row), NEW k \in Ids
  PROVE  \/ k = i /\ rec'[k] = row
         \/ k # i /\ k # row.supersedes /\ Kept(k)
         \/ k # i /\ k = row.supersedes /\ Marked(k)
<1>1. CASE k = i
  BY <1>1 DEF Publish
<1>2. CASE k = row.supersedes /\ k # i
  <2>1. rec[k] \in Rows
    BY DEF TypeOK
  <2>2. rec[k].status = "active" /\ rec'[k] = [rec[k] EXCEPT !.status = "superseded"]
    BY <1>2, IdsAreNat DEF Publish
  <2> QED
    BY <1>2, <2>1, <2>2 DEF Marked, Rows
<1>3. CASE k \in Ids \ {i, row.supersedes}
  BY <1>3 DEF Publish, Kept
<1> QED
  BY <1>1, <1>2, <1>3

LEMMA RowInvPublish ==
  ASSUME RowInv, Publishes
  PROVE  RowInv'
<1>1. PICK i \in Ids, row \in Rows :
        Publish(i, row) /\ (Waits(row) \/ Continues(row) \/ Corrects(row))
  BY DEF Publishes
<1>2. row.supersedes \in Ids \union {None} /\ rec \in [Ids -> Rows] /\ sequence \in Nat
  BY DEF Rows, RowInv, TypeOK
<1>3. row.status \in {"active", "quarantined"}
  BY <1>1 DEF Waits, Continues, Corrects
<1>4. ASSUME NEW k \in Ids
      PROVE  (k = i /\ rec'[k] = row) \/ Kept(k) \/ Marked(k)
  BY <1>1, PublishedRows DEF RowInv
<1>5. TypeOK'
  BY <1>1, <1>2 DEF Publish, TypeOK
<1>6. AbsentIsEmpty'
  <2>1. ASSUME NEW k \in Ids, rec'[k].status = "absent"
        PROVE  rec'[k] = NoRow
    <3>1. rec'[k] = rec[k]
      BY <1>3, <1>4, <2>1 DEF Kept, Marked
    <3> QED
      BY <2>1, <3>1 DEF RowInv, AbsentIsEmpty
  <2> QED
    BY <2>1 DEF AbsentIsEmpty, NoRow
<1>7. WaitingIsPlain'
  <2>1. row.status \in Pending =>
          /\ row.supersedes = None /\ row.touched = {}
          /\ row.expiry = "none" /\ row.validity = "always"
    BY <1>1 DEF Waits, Continues, Corrects, Pending
  <2>2. ASSUME NEW k \in Ids, rec'[k].status \in Pending
        PROVE  rec'[k] = row \/ rec'[k] = rec[k]
    BY <1>4, <2>2 DEF Kept, Marked, Pending
  <2> QED
    BY <2>1, <2>2 DEF RowInv, WaitingIsPlain
<1>8. SequenceBounds'
  BY <1>1, <1>2, <1>4 DEF RowInv, SequenceBounds, Publish, Rows, Kept, Marked
<1>9. LaterIsTouched'
  <2>1. row.validity = "later" => row.touched # {}
    BY <1>1 DEF Waits, Continues, Corrects
  <2> QED
    BY <1>4, <2>1 DEF RowInv, LaterIsTouched, Kept, Marked
<1> QED
  BY <1>5, <1>6, <1>7, <1>8, <1>9 DEF RowInv

LEMMA RowInvAmend ==
  ASSUME RowInv, Amends
  PROVE  RowInv'
<1>1. PICK i \in Ids, row \in Rows :
        Amend(i, row) /\ (Revises(i, row) \/ Forgets(i, row) \/ Lapses(i, row))
  BY DEF Amends
<1>2. rec \in [Ids -> Rows] /\ sequence \in Nat
  BY DEF RowInv, TypeOK
<1>3. rec'[i] = row /\ \A k \in Ids \ {i} : rec'[k] = rec[k]
  BY <1>1, <1>2 DEF Amend
<1>4. TypeOK'
  BY <1>1, <1>2 DEF Amend, TypeOK
<1>5. AbsentIsEmpty'
  <2>1. row.status # "absent"
    BY <1>1 DEF Revises, Forgets, Lapses
  <2> QED
    BY <1>3, <2>1 DEF RowInv, AbsentIsEmpty
<1>6. WaitingIsPlain'
  BY <1>1, <1>3 DEF RowInv, WaitingIsPlain, Amend, Revises, Forgets, Lapses, Pending
<1>7. SequenceBounds'
  BY <1>1, <1>3 DEF RowInv, SequenceBounds, Amend
<1>8. LaterIsTouched'
  BY <1>1, <1>3 DEF RowInv, LaterIsTouched, Amend, Revises, Forgets, Lapses
<1> QED
  BY <1>4, <1>5, <1>6, <1>7, <1>8 DEF RowInv

LEMMA RowInvSettle ==
  ASSUME RowInv, Settles
  PROVE  RowInv'
<1>1. sequence \in Nat /\ \A k \in Ids : rec[k].sequence \in Nat
  BY DEF RowInv, TypeOK, Rows
<1>2. TypeOK' /\ \A k \in Ids : Kept(k) \/ Marked(k) \/ Activates(k)
  BY DEF Settles
<1>3. AbsentIsEmpty'
  BY <1>2 DEF RowInv, AbsentIsEmpty, Kept, Marked, Activates
<1>4. WaitingIsPlain'
  BY <1>2 DEF RowInv, WaitingIsPlain, Pending, Kept, Marked, Activates
<1>5. LaterIsTouched'
  BY <1>2 DEF RowInv, LaterIsTouched, Kept, Marked, Activates
<1>6. SequenceBounds'
  <2>1. \A k \in Ids : rec'[k].sequence = rec[k].sequence
    BY <1>2 DEF Kept, Marked, Activates
  <2> QED
    BY <1>1, <2>1 DEF RowInv, SequenceBounds, Settles
<1> QED
  BY <1>2, <1>3, <1>4, <1>5, <1>6 DEF RowInv

-----------------------------------------------------------------------------
(* Succession.                                                             *)

SuccessionInv == RowInv /\ SuccessionFollowsLineage /\ NoTwoSuccessors

\* A row that has replaced another was not waiting nor absent.
LEMMA SuccessorIsDecided ==
  ASSUME RowInv, NEW k \in Ids, rec[k].supersedes # None
  PROVE  rec[k].status \in {"active", "superseded", "tombstoned"} /\ rec[k].supersedes \in Ids
<1>1. rec[k] \in Rows
  BY DEF RowInv, TypeOK
<1>2. rec[k].status # "absent"
  BY DEF RowInv, AbsentIsEmpty, NoRow
<1>3. rec[k].status \notin Pending
  BY DEF RowInv, WaitingIsPlain
<1> QED
  BY <1>1, <1>2, <1>3 DEF Rows, Statuses, Pending

LEMMA SuccessionPublish ==
  ASSUME SuccessionInv, Publishes
  PROVE  SuccessionFollowsLineage' /\ NoTwoSuccessors'
<1>1. PICK i \in Ids, row \in Rows :
        Publish(i, row) /\ (Waits(row) \/ Continues(row) \/ Corrects(row))
  BY DEF Publishes
<1>2. RowInv /\ TypeOK
  BY DEF SuccessionInv, RowInv
<1>3. ASSUME NEW k \in Ids
      PROVE  \/ k = i /\ rec'[k] = row
             \/ k # i /\ k # row.supersedes /\ Kept(k)
             \/ k # i /\ k = row.supersedes /\ Marked(k)
  BY <1>1, <1>2, PublishedRows
<1>4. rec[i].status \in Pending \union {"absent"}
  BY <1>1 DEF Publish
\* What row supersedes was active, so nothing superseded it before.
<1>5. ASSUME NEW k \in Ids, row.supersedes # None
      PROVE  rec[k].supersedes # row.supersedes
  <2>1. rec[row.supersedes].status = "active"
    BY <1>1, <1>5 DEF Publish
  <2> QED
    BY <1>5, <2>1 DEF SuccessionInv, SuccessionFollowsLineage
<1>6. SuccessionFollowsLineage'
  <2> SUFFICES ASSUME NEW k \in Ids, rec'[k].supersedes # None
               PROVE  LET old == rec'[rec'[k].supersedes]
                      IN  /\ old.status \in {"superseded", "tombstoned"}
                          /\ old.sequence < rec'[k].sequence
                          /\ \/ /\ rec'[k].previous = old.checkpoint
                                /\ rec'[k].branch = old.branch
                             \/ /\ rec'[k].checkpoint = old.checkpoint
                                /\ rec'[k].previous = old.previous
                                /\ rec'[k].agent = old.agent
    BY DEF SuccessionFollowsLineage
  <2>1. CASE k = i
    <3>1. rec'[k] = row /\ row.supersedes \in Ids
      BY <1>3, <2>1 DEF Rows
    <3>2. row.supersedes # i /\ Marked(row.supersedes)
      BY <1>1, <1>3, <3>1, IdsAreNat DEF Publish
    <3>3. rec[row.supersedes].sequence <= sequence /\ row.sequence = sequence + 1
      BY <1>1, <1>2, <3>1 DEF RowInv, SequenceBounds, Publish
    <3>4. rec[row.supersedes].sequence \in Nat /\ sequence \in Nat
      BY <1>2, <3>1 DEF TypeOK, Rows
    <3>5. \/ row.previous = rec[row.supersedes].checkpoint /\ row.branch = rec[row.supersedes].branch
          \/ /\ row.checkpoint = rec[row.supersedes].checkpoint
             /\ row.previous = rec[row.supersedes].previous
             /\ row.agent = rec[row.supersedes].agent
      BY <1>1, <3>1, IdsAreNat DEF Waits, Continues, Corrects, Heads
    <3> QED
      BY <3>1, <3>2, <3>3, <3>4, <3>5 DEF Marked
  <2>2. CASE k # i
    <3>1. /\ rec'[k].supersedes = rec[k].supersedes /\ rec'[k].sequence = rec[k].sequence
          /\ rec'[k].previous = rec[k].previous /\ rec'[k].branch = rec[k].branch
          /\ rec'[k].checkpoint = rec[k].checkpoint /\ rec'[k].agent = rec[k].agent
      BY <1>3, <2>2 DEF Kept, Marked
    <3>2. rec[k].supersedes \in Ids
      BY <1>2, <3>1, SuccessorIsDecided
    <3>3. rec[rec[k].supersedes].status \in {"superseded", "tombstoned"}
      BY <3>1 DEF SuccessionInv, SuccessionFollowsLineage
    <3>4. rec'[rec[k].supersedes] = rec[rec[k].supersedes]
      <4>1. PICK o \in Ids : o = rec[k].supersedes
        BY <3>2
      <4> QED
        BY <1>3, <1>4, <3>3, <4>1 DEF Kept, Marked, Pending
    <3> QED
      BY <3>1, <3>2, <3>4 DEF SuccessionInv, SuccessionFollowsLineage
  <2> QED
    BY <2>1, <2>2
<1>7. NoTwoSuccessors'
  <2> SUFFICES ASSUME NEW k \in Ids, NEW l \in Ids,
                      rec'[k].supersedes # None, rec'[k].supersedes = rec'[l].supersedes
               PROVE  k = l
    BY DEF NoTwoSuccessors
  <2>1. \A m \in Ids : m # i => rec'[m].supersedes = rec[m].supersedes
    BY <1>3 DEF Kept, Marked
  <2>2. CASE k # i /\ l # i
    BY <2>1, <2>2 DEF SuccessionInv, NoTwoSuccessors
  <2>3. CASE k = i /\ l # i
    BY <1>3, <1>5, <2>1, <2>3
  <2>4. CASE k # i /\ l = i
    BY <1>3, <1>5, <2>1, <2>4
  <2> QED
    BY <2>2, <2>3, <2>4
<1> QED
  BY <1>6, <1>7

LEMMA SuccessionAmend ==
  ASSUME SuccessionInv, Amends
  PROVE  SuccessionFollowsLineage' /\ NoTwoSuccessors'
<1>1. PICK i \in Ids, row \in Rows :
        Amend(i, row) /\ (Revises(i, row) \/ Forgets(i, row) \/ Lapses(i, row))
  BY DEF Amends
<1>2. RowInv /\ rec \in [Ids -> Rows]
  BY DEF SuccessionInv, RowInv, TypeOK
<1>3. rec'[i] = row /\ \A k \in Ids \ {i} : rec'[k] = rec[k]
  BY <1>1, <1>2 DEF Amend
<1>4. ASSUME NEW k \in Ids
      PROVE  /\ rec'[k].supersedes = rec[k].supersedes
             /\ rec'[k].sequence = rec[k].sequence
             /\ rec'[k].agent = rec[k].agent
             /\ rec'[k].checkpoint = rec[k].checkpoint
             /\ rec'[k].previous = rec[k].previous
  BY <1>1, <1>3 DEF Amend
\* Only a row that waits changes its branch, and a decided one stays decided.
<1>5. ASSUME NEW k \in Ids, rec[k].status \notin Pending
      PROVE  rec'[k].branch = rec[k].branch
  BY <1>1, <1>3, <1>5 DEF Revises, Forgets, Lapses
<1>6. ASSUME NEW k \in Ids, rec[k].status \in {"superseded", "tombstoned"}
      PROVE  rec'[k].status \in {"superseded", "tombstoned"}
  BY <1>1, <1>3, <1>6 DEF Revises, Forgets, Lapses, Live, Pending
<1>7. SuccessionFollowsLineage'
  <2> SUFFICES ASSUME NEW k \in Ids, rec'[k].supersedes # None
               PROVE  LET old == rec'[rec'[k].supersedes]
                      IN  /\ old.status \in {"superseded", "tombstoned"}
                          /\ old.sequence < rec'[k].sequence
                          /\ \/ /\ rec'[k].previous = old.checkpoint
                                /\ rec'[k].branch = old.branch
                             \/ /\ rec'[k].checkpoint = old.checkpoint
                                /\ rec'[k].previous = old.previous
                                /\ rec'[k].agent = old.agent
    BY DEF SuccessionFollowsLineage
  <2>1. rec[k].supersedes # None
    BY <1>4
  <2>2. rec[k].status \notin Pending /\ rec[k].supersedes \in Ids
    BY <1>2, <2>1, SuccessorIsDecided DEF Pending
  <2>3. PICK o \in Ids : o = rec[k].supersedes
    BY <2>2
  <2>4. /\ rec[o].status \in {"superseded", "tombstoned"}
        /\ rec[o].sequence < rec[k].sequence
        /\ \/ rec[k].previous = rec[o].checkpoint /\ rec[k].branch = rec[o].branch
           \/ /\ rec[k].checkpoint = rec[o].checkpoint
              /\ rec[k].previous = rec[o].previous
              /\ rec[k].agent = rec[o].agent
    BY <2>1, <2>3 DEF SuccessionInv, SuccessionFollowsLineage
  <2>5. rec'[o].branch = rec[o].branch /\ rec'[k].branch = rec[k].branch
    BY <1>5, <2>2, <2>4 DEF Pending
  <2> QED
    BY <1>4, <1>6, <2>3, <2>4, <2>5
<1>8. NoTwoSuccessors'
  BY <1>4 DEF SuccessionInv, NoTwoSuccessors
<1> QED
  BY <1>7, <1>8

LEMMA SuccessionSettle ==
  ASSUME SuccessionInv, Settles
  PROVE  SuccessionFollowsLineage' /\ NoTwoSuccessors'
<1>1. ASSUME NEW k \in Ids
      PROVE  /\ rec'[k].supersedes = rec[k].supersedes
             /\ rec'[k].sequence = rec[k].sequence
             /\ rec'[k].agent = rec[k].agent
             /\ rec'[k].branch = rec[k].branch
             /\ rec'[k].checkpoint = rec[k].checkpoint
             /\ rec'[k].previous = rec[k].previous
             /\ rec[k].status \in {"superseded", "tombstoned"} => rec'[k].status = rec[k].status
  BY DEF Settles, Kept, Marked, Activates
<1>2. SuccessionFollowsLineage'
  <2>1. ASSUME NEW k \in Ids, rec[k].supersedes # None
        PROVE  rec[k].supersedes \in Ids
    BY <2>1, SuccessorIsDecided DEF SuccessionInv
  <2> QED
    BY <1>1, <2>1 DEF SuccessionInv, SuccessionFollowsLineage
<1>3. NoTwoSuccessors'
  BY <1>1 DEF SuccessionInv, NoTwoSuccessors
<1> QED
  BY <1>2, <1>3

-----------------------------------------------------------------------------
(* The head of a branch.                                                   *)

LEMMA HeadPublish ==
  ASSUME RowInv, HeadIsNewest, Publishes
  PROVE  HeadIsNewest'
<1>1. PICK i \in Ids, row \in Rows :
        Publish(i, row) /\ (Waits(row) \/ Continues(row) \/ Corrects(row))
  BY DEF Publishes
<1>2. ASSUME NEW k \in Ids
      PROVE  \/ k = i /\ rec'[k] = row
             \/ k # i /\ k # row.supersedes /\ Kept(k)
             \/ k # i /\ k = row.supersedes /\ Marked(k)
  BY <1>1, PublishedRows DEF RowInv
<1>3. ASSUME NEW b, Untouched(b)'
      PROVE  Untouched(b)
  <2>1. rec[i].touched = {}
    BY <1>1 DEF Publish, RowInv, AbsentIsEmpty, WaitingIsPlain, NoRow
  <2>2. ASSUME NEW m \in Ids, m # i
        PROVE  rec'[m].branch = rec[m].branch /\ rec'[m].touched = rec[m].touched
    BY <1>2, <2>2 DEF Kept, Marked
  <2> QED
    BY <1>3, <2>1, <2>2 DEF Untouched
<1> SUFFICES ASSUME NEW b \in Branches, Untouched(b)', NEW h \in Heads(b)', NEW k \in Ids,
                    k # h, rec'[k].branch = b,
                    rec'[k].status \in {"active", "superseded"}, Current(rec'[k])
             PROVE  rec'[k].sequence < rec'[h].sequence
  BY DEF HeadIsNewest
<1>4. h \in Ids /\ rec'[h].status = "active" /\ Current(rec'[h]) /\ rec'[h].branch = b
  BY DEF Heads, Live
<1>5. CASE h = i
  <2>1. rec'[k].sequence = rec[k].sequence
    BY <1>2, <1>5 DEF Kept, Marked
  <2>2. rec'[h].sequence = sequence + 1
    BY <1>1, <1>5 DEF Publish
  <2> QED
    BY <2>1, <2>2 DEF RowInv, SequenceBounds, TypeOK, Rows
\* Were the new row on the branch of another head, it would have replaced it.
<1>6. CASE h # i
  <2>1. h # row.supersedes /\ Kept(h)
    BY <1>2, <1>4, <1>6 DEF Marked
  <2>2. h \in Heads(b)
    BY <1>4, <2>1 DEF Heads, Live, Kept
  <2>3. CASE k # i
    <3>1. /\ rec[k].branch = b /\ Current(rec[k])
          /\ rec[k].status \in {"active", "superseded"}
          /\ rec'[k].sequence = rec[k].sequence
      BY <1>2, <2>3 DEF Kept, Marked, Current
    <3> QED
      BY <1>3, <2>1, <2>2, <3>1 DEF HeadIsNewest, Kept
  <2>4. CASE k = i
    <3>1. /\ row.branch = b /\ row.status = "active" /\ Current(row)
          /\ row.touched = {}
      BY <1>1, <1>2, <2>4 DEF Untouched, Waits, Continues, Corrects
    <3>2. row.supersedes \in Heads(b)
      <4>1. CASE Continues(row)
        BY <2>2, <3>1, <4>1 DEF Continues
      <4>2. CASE Corrects(row)
        <5>1. row.supersedes \in Ids /\ rec[row.supersedes].status = "active"
          BY <1>1, <4>2 DEF Corrects, Publish, Rows
        <5> QED
          BY <3>1, <4>2, <5>1 DEF Corrects, Heads, Live
      <4> QED
        BY <1>1, <3>1, <4>1, <4>2 DEF Waits
    <3>3. PICK p \in Ids : p = row.supersedes /\ p \in Heads(b)
      BY <3>2 DEF Heads
    <3>4. rec[p].sequence < rec[h].sequence /\ rec[h].sequence < rec[p].sequence
      BY <1>3, <1>4, <2>1, <2>2, <3>3 DEF HeadIsNewest, Heads, Live
    <3> QED
      BY <1>4, <3>4 DEF RowInv, TypeOK, Rows
  <2> QED
    BY <2>3, <2>4
<1> QED
  BY <1>5, <1>6

LEMMA HeadAmend ==
  ASSUME RowInv, HeadIsNewest, Amends
  PROVE  HeadIsNewest'
<1>1. PICK i \in Ids, row \in Rows :
        Amend(i, row) /\ (Revises(i, row) \/ Forgets(i, row) \/ Lapses(i, row))
  BY DEF Amends
<1>2. rec'[i] = row /\ \A k \in Ids \ {i} : rec'[k] = rec[k]
  BY <1>1 DEF Amend, RowInv, TypeOK
<1>3. ASSUME NEW b, Untouched(b)'
      PROVE  Untouched(b)
  <2>1. rec[i].touched = {} \/ rec'[i].branch = rec[i].branch
    BY <1>1, <1>2 DEF Revises, Forgets, Lapses, RowInv, WaitingIsPlain
  <2>2. rec'[i].touched = rec[i].touched
    BY <1>1, <1>2 DEF Amend
  <2> QED
    BY <1>2, <1>3, <2>1, <2>2 DEF Untouched
\* The amended row is not, or no longer, a live head, or was to become one later.
<1>4. rec'[i].status \in {"active", "superseded"} /\ Current(rec'[i]) => rec'[i].touched # {}
  BY <1>1, <1>2 DEF Revises, Forgets, Lapses, Current, RowInv, LaterIsTouched, Amend
<1> SUFFICES ASSUME NEW b \in Branches, Untouched(b)', NEW h \in Heads(b)', NEW k \in Ids,
                    k # h, rec'[k].branch = b,
                    rec'[k].status \in {"active", "superseded"}, Current(rec'[k])
             PROVE  rec'[k].sequence < rec'[h].sequence
  BY DEF HeadIsNewest
<1>5. h \in Ids /\ h # i /\ k # i
  BY <1>4 DEF Heads, Live, Untouched
<1>6. rec'[h] = rec[h] /\ rec'[k] = rec[k]
  BY <1>2, <1>5
<1>7. h \in Heads(b)
  BY <1>5, <1>6 DEF Heads, Live
<1> QED
  BY <1>3, <1>6, <1>7 DEF HeadIsNewest

\* A branch on which the step activates a row is no longer one that corrections
\* left alone; elsewhere it only removes heads.
LEMMA HeadSettle ==
  ASSUME RowInv, HeadIsNewest, Settles
  PROVE  HeadIsNewest'
<1> SUFFICES ASSUME NEW b \in Branches, Untouched(b)', NEW h \in Heads(b)', NEW k \in Ids,
                    k # h, rec'[k].branch = b,
                    rec'[k].status \in {"active", "superseded"}, Current(rec'[k])
             PROVE  rec'[k].sequence < rec'[h].sequence
  BY DEF HeadIsNewest
<1>1. ASSUME NEW m \in Ids, rec'[m].branch = b
      PROVE  rec[m].branch = b /\ rec[m].touched = {} /\ (Kept(m) \/ Marked(m))
  <2>1. rec'[m].touched = {} /\ (Kept(m) \/ Marked(m) \/ Activates(m))
    BY <1>1 DEF Untouched, Settles
  <2>2. ~Activates(m)
    BY <2>1 DEF Activates
  <2> QED
    BY <1>1, <2>1, <2>2 DEF Kept, Marked
<1>2. Untouched(b)
  <2>1. \A m \in Ids : rec'[m].branch = rec[m].branch
    BY DEF Settles, Kept, Marked, Activates
  <2> QED
    BY <1>1, <2>1 DEF Untouched
<1>3. h \in Ids /\ rec'[h].status = "active" /\ rec'[h].branch = b
  BY DEF Heads, Live
<1>4. Kept(h) /\ h \in Heads(b)
  BY <1>1, <1>3 DEF Marked, Kept, Heads, Live
<1>5. /\ rec[k].branch = b /\ Current(rec[k]) /\ rec[k].status \in {"active", "superseded"}
      /\ rec'[k].sequence = rec[k].sequence
  BY <1>1 DEF Kept, Marked, Current
<1> QED
  BY <1>2, <1>4, <1>5 DEF HeadIsNewest, Kept

-----------------------------------------------------------------------------
(* The quota.                                                              *)

Unrevived(a) == \A i \in Ids : rec[i].agent = a => "revived" \notin rec[i].touched

LEMMA QuotaPublish ==
  ASSUME RowInv, QuotaHeld, Publishes
  PROVE  QuotaHeld'
<1>1. PICK i \in Ids, row \in Rows :
        /\ Publish(i, row)
        /\ ((Waits(row) \/ Continues(row)) /\ Room(i, row)) \/ Corrects(row)
  BY DEF Publishes
<1>2. ASSUME NEW k \in Ids
      PROVE  \/ k = i /\ rec'[k] = row
             \/ k # i /\ k # row.supersedes /\ Kept(k)
             \/ k # i /\ k = row.supersedes /\ Marked(k)
  BY <1>1, PublishedRows DEF RowInv
<1> SUFFICES ASSUME NEW a \in Agents, Unrevived(a)'
             PROVE  Cardinality(Counted(a)') <= QuotaLimit
  BY DEF QuotaHeld, Unrevived
<1>3. Unrevived(a)
  <2>1. rec[i].touched = {}
    BY <1>1 DEF Publish, RowInv, AbsentIsEmpty, WaitingIsPlain, NoRow
  <2>2. ASSUME NEW m \in Ids, m # i
        PROVE  rec'[m].agent = rec[m].agent /\ rec'[m].touched = rec[m].touched
    BY <1>2, <2>2 DEF Kept, Marked
  <2> QED
    BY <2>1, <2>2 DEF Unrevived
<1>4. Cardinality(Counted(a)) <= QuotaLimit
  BY <1>3 DEF QuotaHeld, Unrevived
<1>5. IsFiniteSet(Counted(a)) /\ Cardinality(Counted(a)) \in Nat /\ QuotaLimit \in Nat
  BY CountedFinite, QuotaAssumption
\* Besides the new row, only rows counted before are counted after.
<1>6. ASSUME NEW k \in Counted(a)', k # i
      PROVE  k \in Counted(a) \ {row.supersedes}
  <2>1. k \in Ids /\ rec'[k].status \in Pending \union {"active"}
    BY DEF Counted
  <2>2. k # row.supersedes /\ Kept(k)
    BY <1>2, <1>6, <2>1 DEF Marked, Pending
  <2> QED
    BY <2>2 DEF Counted, Kept
<1>7. CASE i \notin Counted(a)'
  <2>1. Counted(a)' \in SUBSET Counted(a)
    BY <1>6, <1>7
  <2> QED
    BY <1>4, <1>5, <2>1, FS_Subset, FS_CardinalityType
<1>8. CASE i \in Counted(a)' /\ Room(i, row)
  <2> DEFINE S == (Counted(a) \union {i}) \ {row.supersedes}
  <2>1. rec'[i] = row /\ row.agent = a /\ row.supersedes # i
    BY <1>1, <1>2, <1>8, IdsAreNat DEF Counted, Publish
  <2>2. Cardinality(S) <= QuotaLimit
    BY <1>8, <2>1 DEF Room
  <2>3. IsFiniteSet(S)
    BY <1>5, FS_AddElement, FS_RemoveElement
  <2>4. Counted(a)' \in SUBSET S
    BY <1>6, <2>1
  <2> HIDE DEF S
  <2>5. Cardinality(Counted(a)') <= Cardinality(S)
    BY <2>3, <2>4, FS_Subset
  <2>6. Cardinality(S) \in Nat /\ Cardinality(Counted(a)') \in Nat
    BY <2>3, <2>4, FS_Subset, FS_CardinalityType
  <2> QED
    BY <1>5, <2>2, <2>5, <2>6
\* A correction that revives nothing takes over the slot of the row it corrects.
<1>9. CASE i \in Counted(a)' /\ Corrects(row)
  <2>1. /\ i \in Ids /\ rec'[i] = row /\ row.agent = a /\ row.expiry # "lapsed"
    BY <1>1, <1>2, <1>9 DEF Counted
  <2>2. PICK o \in Ids : o = row.supersedes /\ rec[o].status = "active" /\ o # i
    BY <1>1, <1>9 DEF Corrects, Publish, Rows
  <2>3. "revived" \notin row.touched
    BY <2>1 DEF Unrevived
  <2>4. o \in Counted(a)
    BY <1>9, <2>1, <2>2, <2>3 DEF Corrects, Counted
  <2> DEFINE S == Counted(a) \ {o}
  <2>5. IsFiniteSet(S) /\ Cardinality(S) = Cardinality(Counted(a)) - 1
    BY <1>5, <2>4, FS_RemoveElement
  <2>6. Counted(a)' \in SUBSET (S \union {i})
    BY <1>6, <2>2
  <2> HIDE DEF S
  <2>7. IsFiniteSet(S \union {i}) /\ Cardinality(S \union {i}) <= Cardinality(S) + 1
    <3>1. Cardinality(S) \in Nat
      BY <2>5, FS_CardinalityType
    <3>2. /\ IsFiniteSet(S \union {i})
          /\ Cardinality(S \union {i}) = IF i \in S THEN Cardinality(S) ELSE Cardinality(S) + 1
      BY <2>5, FS_AddElement
    <3> QED
      BY <3>1, <3>2
  <2>8. Cardinality(Counted(a)') <= Cardinality(S \union {i})
    BY <2>6, <2>7, FS_Subset
  <2>9. Cardinality(Counted(a)') \in Nat /\ Cardinality(S \union {i}) \in Nat
    BY <2>6, <2>7, FS_Subset, FS_CardinalityType
  <2> QED
    BY <1>4, <1>5, <2>5, <2>7, <2>8, <2>9
<1> QED
  BY <1>1, <1>7, <1>8, <1>9

LEMMA QuotaAmend ==
  ASSUME RowInv, QuotaHeld, Amends
  PROVE  QuotaHeld'
<1>1. PICK i \in Ids, row \in Rows :
        Amend(i, row) /\ (Revises(i, row) \/ Forgets(i, row) \/ Lapses(i, row))
  BY DEF Amends
<1>2. rec'[i] = row /\ \A k \in Ids \ {i} : rec'[k] = rec[k]
  BY <1>1 DEF Amend, RowInv, TypeOK
<1> SUFFICES ASSUME NEW a \in Agents, Unrevived(a)'
             PROVE  Cardinality(Counted(a)') <= QuotaLimit
  BY DEF QuotaHeld, Unrevived
<1>3. Unrevived(a)
  BY <1>1, <1>2 DEF Unrevived, Amend
<1>4. Cardinality(Counted(a)) <= QuotaLimit
  BY <1>3 DEF QuotaHeld, Unrevived
<1>5. IsFiniteSet(Counted(a)) /\ Cardinality(Counted(a)) \in Nat /\ QuotaLimit \in Nat
  BY CountedFinite, QuotaAssumption
<1>6. Counted(a)' \in SUBSET Counted(a)
  BY <1>1, <1>2 DEF Counted, Amend, Revises, Forgets, Lapses, Pending
<1> QED
  BY <1>4, <1>5, <1>6, FS_Subset, FS_CardinalityType

LEMMA QuotaSettle ==
  ASSUME RowInv, QuotaHeld, Settles
  PROVE  QuotaHeld'
<1> SUFFICES ASSUME NEW a \in Agents, Unrevived(a)'
             PROVE  Cardinality(Counted(a)') <= QuotaLimit
  BY DEF QuotaHeld, Unrevived
<1>1. Unrevived(a)
  BY DEF Unrevived, Settles, Kept, Marked, Activates
<1>2. Cardinality(Counted(a)) <= QuotaLimit
  BY <1>1 DEF QuotaHeld, Unrevived
<1>3. IsFiniteSet(Counted(a)) /\ Cardinality(Counted(a)) \in Nat /\ QuotaLimit \in Nat
  BY CountedFinite, QuotaAssumption
<1>4. Counted(a)' \in SUBSET Counted(a)
  BY DEF Counted, Pending, Settles, Kept, Marked, Activates
<1> QED
  BY <1>2, <1>3, <1>4, FS_Subset, FS_CardinalityType

-----------------------------------------------------------------------------
(* The theorems.                                                           *)

LEMMA InitIInv ==
  ASSUME Init
  PROVE  IInv
<1>1. NoRow \in Rows /\ rec = [i \in Ids |-> NoRow] /\ sequence = 0
  BY DEF Init, NoRow, Rows, Statuses, Expiries, Validities, Sensitivities
<1>2. \A i \in Ids : /\ rec[i].status = "absent" /\ rec[i].supersedes = None
                     /\ rec[i].sequence = 0 /\ rec[i].validity = "always"
  BY <1>1 DEF NoRow
<1>3. TypeOK /\ AbsentIsEmpty /\ LaterIsTouched /\ SequenceBounds
  BY <1>1, <1>2 DEF TypeOK, AbsentIsEmpty, LaterIsTouched, SequenceBounds
<1>4. WaitingIsPlain
  BY <1>2 DEF WaitingIsPlain, Pending
<1>5. SuccessionFollowsLineage /\ NoTwoSuccessors
  BY <1>2 DEF SuccessionFollowsLineage, NoTwoSuccessors
<1>6. HeadIsNewest
  BY <1>2 DEF HeadIsNewest, Heads, Live
<1>7. QuotaHeld
  <2>1. \A a : Counted(a) = {}
    BY <1>2 DEF Counted, Pending
  <2> QED
    BY <2>1, QuotaAssumption, FS_EmptySet DEF QuotaHeld
<1> QED
  BY <1>3, <1>4, <1>5, <1>6, <1>7 DEF IInv

LEMMA NextIInv ==
  ASSUME IInv, [Next]_vars
  PROVE  IInv'
<1>1. RowInv /\ SuccessionInv
  BY DEF IInv, RowInv, SuccessionInv
<1>2. CASE Publishes
  <2>1. RowInv'
    BY <1>1, <1>2, RowInvPublish
  <2>2. SuccessionFollowsLineage' /\ NoTwoSuccessors'
    BY <1>1, <1>2, SuccessionPublish
  <2>3. HeadIsNewest'
    BY <1>1, <1>2, HeadPublish DEF IInv
  <2>4. QuotaHeld'
    BY <1>1, <1>2, QuotaPublish DEF IInv
  <2> QED
    BY <2>1, <2>2, <2>3, <2>4 DEF IInv, RowInv
<1>3. CASE Amends
  <2>1. RowInv'
    BY <1>1, <1>3, RowInvAmend
  <2>2. SuccessionFollowsLineage' /\ NoTwoSuccessors'
    BY <1>1, <1>3, SuccessionAmend
  <2>3. HeadIsNewest'
    BY <1>1, <1>3, HeadAmend DEF IInv
  <2>4. QuotaHeld'
    BY <1>1, <1>3, QuotaAmend DEF IInv
  <2> QED
    BY <2>1, <2>2, <2>3, <2>4 DEF IInv, RowInv
<1>4. CASE Settles
  <2>1. RowInv'
    BY <1>1, <1>4, RowInvSettle
  <2>2. SuccessionFollowsLineage' /\ NoTwoSuccessors'
    BY <1>1, <1>4, SuccessionSettle
  <2>3. HeadIsNewest'
    BY <1>1, <1>4, HeadSettle DEF IInv
  <2>4. QuotaHeld'
    BY <1>1, <1>4, QuotaSettle DEF IInv
  <2> QED
    BY <2>1, <2>2, <2>3, <2>4 DEF IInv, RowInv
<1>5. CASE UNCHANGED vars
  BY <1>5 DEF IInv, vars, TypeOK, AbsentIsEmpty, WaitingIsPlain, LaterIsTouched,
              SequenceBounds, SuccessionFollowsLineage, NoTwoSuccessors, HeadIsNewest,
              QuotaHeld, Untouched, Heads, Live, Counted
<1> QED
  BY <1>2, <1>3, <1>4, <1>5, Steps DEF IInv

\* The strengthened invariant holds in every reachable state.
THEOREM Invariance == Spec => []IInv
<1>1. Init => IInv
  BY InitIInv
<1>2. IInv /\ [Next]_vars => IInv'
  BY NextIInv
<1> QED
  BY <1>1, <1>2, PTL DEF Spec

\* The table of rows and the sequence keep their types under every operation.
THEOREM TypeCorrect == Spec => []TypeOK
<1>1. IInv => TypeOK
  BY DEF IInv
<1> QED
  BY <1>1, Invariance, PTL

\* Two live heads of one branch would each be newer than the other.
THEOREM SingleHeadPerLineage == Spec => []OneHeadPerLineage
<1>1. ASSUME IInv PROVE OneHeadPerLineage
  <2> SUFFICES ASSUME NEW b \in Branches, Untouched(b),
                      NEW i \in Heads(b), NEW j \in Heads(b), i # j
               PROVE  FALSE
    BY DEF OneHeadPerLineage
  <2>1. rec[i].sequence < rec[j].sequence /\ rec[j].sequence < rec[i].sequence
    BY <1>1 DEF IInv, HeadIsNewest, Heads, Live
  <2> QED
    BY <1>1, <2>1 DEF IInv, TypeOK, Rows, Heads
<1> QED
  BY <1>1, Invariance, PTL

\* No operation of any number of agents replaces a checkpoint twice.
THEOREM SingleSuccession == Spec => []NoTwoSuccessors
<1>1. IInv => NoTwoSuccessors
  BY DEF IInv
<1> QED
  BY <1>1, Invariance, PTL

\* What replaced a checkpoint continues or corrects it, and is newer.
THEOREM Succession == Spec => []SuccessionFollowsLineage
<1>1. IInv => SuccessionFollowsLineage
  BY DEF IInv
<1> QED
  BY <1>1, Invariance, PTL

\* The checkpoint a session is started from is newer than any that was replaced.
THEOREM Recall == Spec => []RecallIsNewest
<1>1. ASSUME IInv PROVE RecallIsNewest
  <2> SUFFICES ASSUME NEW b \in Branches, NEW cleared \in BOOLEAN,
                      NEW i \in LatestHandoff(b, cleared), Untouched(rec[i].branch),
                      NEW j \in Replaced(rec[i].branch)
               PROVE  rec[j].sequence < rec[i].sequence
    BY DEF RecallIsNewest
  <2>1. i \in Heads(b) \/ i \in Heads(NoBranch)
    BY DEF LatestHandoff
  <2>2. rec[i].branch \in Branches /\ i \in Heads(rec[i].branch)
    BY <2>1, BranchAssumption DEF Heads
  <2>3. j \in Ids /\ rec[j].status = "superseded" /\ Current(rec[j])
        /\ rec[j].branch = rec[i].branch
    BY DEF Replaced
  <2>4. i # j
    BY <2>2, <2>3 DEF Heads, Live
  <2> QED
    BY <1>1, <2>2, <2>3, <2>4 DEF IInv, HeadIsNewest
<1> QED
  BY <1>1, Invariance, PTL

\* No interleaving of saves, replacements and approvals exceeds a quota.
THEOREM Quota == Spec => []QuotaHeld
<1>1. IInv => QuotaHeld
  BY DEF IInv
<1> QED
  BY <1>1, Invariance, PTL

\* No step brings a checkpoint back to a state its life has passed.
THEOREM Lifecycle == Spec => NeverRevived
<1> DEFINE A == \A i \in Ids :
      rec'[i].status # rec[i].status => rec'[i].status \in Successors(rec[i].status)
<1>1. ASSUME IInv, [Next]_vars PROVE [A]_vars
  <2>1. CASE Publishes
    <3>1. PICK i \in Ids, row \in Rows :
            Publish(i, row) /\ (Waits(row) \/ Continues(row) \/ Corrects(row))
      BY <2>1 DEF Publishes
    <3>2. row.status \in {"active", "quarantined"}
      BY <3>1 DEF Waits, Continues, Corrects
    <3>3. ASSUME NEW k \in Ids, rec'[k].status # rec[k].status
          PROVE  rec'[k].status \in Successors(rec[k].status)
      <4>1. (k = i /\ rec'[k] = row) \/ Marked(k)
        BY <1>1, <3>1, <3>3, PublishedRows DEF IInv, Kept
      <4>2. CASE k = i /\ rec'[k] = row
        BY <3>1, <3>2, <4>2 DEF Publish, Successors, Pending
      <4>3. CASE Marked(k)
        BY <4>3 DEF Marked, Successors
      <4> QED
        BY <4>1, <4>2, <4>3
    <3> QED
      BY <3>3
  <2>2. CASE Amends
    <3>1. PICK i \in Ids, row \in Rows :
            Amend(i, row) /\ (Revises(i, row) \/ Forgets(i, row) \/ Lapses(i, row))
      BY <2>2 DEF Amends
    <3>2. rec'[i] = row /\ \A k \in Ids \ {i} : rec'[k] = rec[k]
      BY <1>1, <3>1 DEF Amend, IInv, TypeOK
    <3>3. ASSUME rec'[i].status # rec[i].status
          PROVE  rec'[i].status \in Successors(rec[i].status)
      <4>1. rec[i].status \in Statuses \ {"absent"}
        BY <1>1, <3>1 DEF IInv, TypeOK, Rows, Amend
      <4> QED
        BY <3>1, <3>2, <3>3, <4>1
        DEF Revises, Forgets, Lapses, Live, Successors, Statuses, Pending
    <3> QED
      BY <3>2, <3>3
  <2>3. CASE Settles
    BY <2>3 DEF Settles, Kept, Marked, Activates, Successors
  <2>4. CASE UNCHANGED vars
    BY <2>4
  <2> QED
    BY <1>1, <2>1, <2>2, <2>3, <2>4, Steps DEF IInv
<1>2. Spec => [][A]_vars
  BY <1>1, Invariance, PTL DEF Spec
<1> QED
  BY <1>2 DEF NeverRevived

=============================================================================
