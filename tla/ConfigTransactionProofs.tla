---------------------- MODULE ConfigTransactionProofs ----------------------
(***************************************************************************)
(* Any number of batches over any files, with editors, timeouts and kills: *)
(* a batch at work holds the locks of all of its files, and nobody but an  *)
(* editor changes these.  What a batch knows of its files follows from     *)
(* that, one stage after the other.                                        *)
(***************************************************************************)
EXTENDS ConfigTransaction, FiniteSetTheorems, WellFoundedInduction, TLAPS

USE FilesAssumption, PlanAssumption, FreeAssumption, VersionsAssumption

Outside == {"read", "snapshot", "done"}
Inside == {"read", "snapshot", "apply", "compare", "replace", "record", "restore"}
Passed == {"verify", "finalize", "install", "confirm"}

\* Where a batch is in its plan.
Placed(p) ==
    /\ pc[p] \in Inside => at[p] \in 1 .. Len(Plan[p])
    /\ pc[p] = "lock" => at[p] = 1
    /\ pc[p] \in Passed => at[p] \in 1 .. (Len(Plan[p]) + 1)
    /\ pc[p] = "undo" => at[p] \in 0 .. Len(Plan[p])

\* Where an operation has the lock of its file.
Doubled == {"compare", "replace", "record"}

\* An operation has taken its file's lock a second time.
Twice(p, f) == pc[p] \in Doubled /\ f = Cur(p)

\* Which locks a batch holds, and how often it has taken each.
Holds(p) ==
    /\ pc[p] \in Outside => \A f \in Files : lock[f] # p
    /\ pc[p] = "lock" => \E f \in InPlan(p) : lock[f] # p
    /\ pc[p] \in Working => \A f \in InPlan(p) : lock[f] = p
    /\ \A f \in Files : lock[f] = p => f \in InPlan(p) /\ depth[f] = IF Twice(p, f) THEN 2 ELSE 1

\* The part of the type that says nothing of the places.
DataOK ==
    /\ disk \in [Files -> Contents]
    /\ plugin \in {Absent, Installed}
    /\ src \in [Procs -> [Files -> Contents]]
    /\ orig \in [Procs -> [Files -> Contents]]
    /\ written \in [Procs -> [Files -> Contents]]
    /\ changed \in [Procs -> SUBSET Files]
    /\ pluginWas \in [Procs -> {Absent, Installed}]
    /\ promoted \subseteq Procs
    /\ outcome \in [Procs -> {"none", "committed", "failed", "incomplete", "killed"}]
    /\ racing \subseteq (Procs \X Files)
    /\ replaced \subseteq (Procs \X Files)
    /\ edits \in Nat

\* A batch goes on to a phase and a file of its plan.
Moved(p, w, i) == pc' = [pc EXCEPT ![p] = w] /\ at' = [at EXCEPT ![p] = i]

PlacedAt(p, w, i) ==
    /\ w \in Inside => i \in 1 .. Len(Plan[p])
    /\ w = "lock" => i = 1
    /\ w \in Passed => i \in 1 .. (Len(Plan[p]) + 1)
    /\ w = "undo" => i \in 0 .. Len(Plan[p])

\* The locks of a batch need not change.
SameLocks(p, w, i) ==
    \/ pc[p] \in Outside /\ w \in Outside \cup {"lock"}
    \/ /\ pc[p] \in Working /\ w \in Working
       /\ w \in Doubled <=> pc[p] \in Doubled
       /\ w \in Doubled => i = at[p]

IInv ==
    /\ TypeOK
    /\ \A p \in Procs : Placed(p) /\ Holds(p)
    /\ \A f \in Files : lock[f] = Free => depth[f] = 0

LEMMA PlanFacts ==
    ASSUME NEW p \in Procs
    PROVE  /\ Plan[p] \in Seq(Files) /\ Len(Plan[p]) \in Nat \ {0} /\ DOMAIN Plan[p] = 1 .. Len(Plan[p])
           /\ \A i \in 1 .. Len(Plan[p]) : Plan[p][i] \in Files /\ Plan[p][i] \in InPlan(p)
           /\ InPlan(p) \subseteq Files
<1>1. Plan[p] \in Seq(Files) /\ Plan[p] # <<>>
  OBVIOUS
<1>2. Len(Plan[p]) \in Nat \ {0} /\ DOMAIN Plan[p] = 1 .. Len(Plan[p])
  BY <1>1
<1>3. \A i \in 1 .. Len(Plan[p]) : Plan[p][i] \in Files
  BY <1>1
<1>4. InPlan(p) \subseteq Files
  BY <1>2, <1>3 DEF InPlan
<1>5. \A i \in 1 .. Len(Plan[p]) : Plan[p][i] \in InPlan(p)
  BY <1>2 DEF InPlan
<1> QED
  BY <1>1, <1>2, <1>3, <1>4, <1>5

LEMMA ContentsFacts ==
    ASSUME NEW p \in Procs
    PROVE  Absent \in Contents /\ Emptied \in Contents /\ Target[p] \in Contents /\ Claimed(p) \in Contents
BY DEF Contents, Claimed

\* The lock to take next is one that is missing; it is the last or not.
LEMMA NextLockFacts ==
    ASSUME NEW p \in Procs, Missing(p) # {}
    PROVE  /\ NextLock(p) \in Missing(p)
           /\ Cardinality(Missing(p)) = 1 => Missing(p) = {NextLock(p)}
           /\ Cardinality(Missing(p)) # 1 => Missing(p) \ {NextLock(p)} # {}
<1> DEFINE F == Missing(p)
<1>1. F \subseteq Files /\ F \subseteq Nat /\ F # {}
  BY PlanFacts DEF Missing
<1>2. IsFiniteSet(F)
  BY <1>1, FS_Subset
<1>3. \E x \in F : \A y \in F : ~(<<y, x>> \in OpToRel(<, Nat))
  BY <1>1, NatLessThanWellFounded, WFMin
<1>4. \E x \in F : \A y \in F : x <= y
  <2>1. PICK x \in F : \A y \in F : ~(<<y, x>> \in OpToRel(<, Nat))
    BY <1>3
  <2>2. ASSUME NEW y \in F PROVE x <= y
    <3>1. x \in Nat /\ y \in Nat
      BY <1>1
    <3>2. ~(<<y, x>> \in OpToRel(<, Nat))
      BY <2>1
    <3> QED
      BY <3>1, <3>2 DEF OpToRel
  <2> QED
    BY <2>2
<1>5. NextLock(p) \in F
  BY <1>4 DEF NextLock
<1>6. Cardinality(F) = 1 <=> \E x : F = {x}
  BY <1>2, FS_Singleton
<1> HIDE DEF F
<1>7. (Cardinality(F) = 1 => F = {NextLock(p)}) /\ (Cardinality(F) # 1 => F \ {NextLock(p)} # {})
  BY <1>5, <1>6
<1> QED
  BY <1>5, <1>7 DEF F

\* A step of one batch that touches no lock of another leaves the others be.
LEMMA OthersStay ==
    ASSUME IInv, NEW p \in Procs,
           \A q \in Procs \ {p} : pc'[q] = pc[q] /\ at'[q] = at[q],
           TypeOK', Placed(p)', Holds(p)',
           \A f \in Files : \/ lock'[f] = lock[f] /\ depth'[f] = depth[f]
                            \/ lock[f] \in {p, Free} /\ lock'[f] \in {p, Free},
           \A f \in Files : lock'[f] = Free => depth'[f] = 0
    PROVE  IInv'
<1>1. ASSUME NEW q \in Procs PROVE Placed(q)' /\ Holds(q)'
  <2>1. CASE q = p
    BY <2>1
  <2>2. CASE q # p
    <3>1. pc'[q] = pc[q] /\ at'[q] = at[q]
      BY <2>2 DEF IInv, TypeOK
    <3>2. q # Free /\ Placed(q) /\ Holds(q) /\ InPlan(q) \subseteq Files
      BY PlanFacts DEF IInv
    <3>3. \A f \in Files : (lock'[f] = q <=> lock[f] = q) /\ (lock[f] = q => depth'[f] = depth[f])
      BY <2>2, <3>2
    <3>4. Placed(q)'
      BY <3>1, <3>2 DEF Placed
    <3>5. \A f : Twice(q, f)' <=> Twice(q, f)
      BY <3>1 DEF Twice, Cur
    <3> HIDE DEF Twice
    <3>6. Holds(q)'
      BY <3>1, <3>2, <3>3, <3>5 DEF Holds, InPlan
    <3> QED
      BY <3>4, <3>6
  <2> QED
    BY <2>1, <2>2
<1> QED
  BY <1>1 DEF IInv


LEMMA DataIsTyped ==
    ASSUME DataOK', lock' \in [Files -> Procs \cup {Free}], depth' \in [Files -> 0 .. 2],
           pc' \in [Procs -> Phases], at' \in [Procs -> Nat]
    PROVE  TypeOK'
BY DEF DataOK, TypeOK

LEMMA TypedIsData == TypeOK => DataOK
BY DEF DataOK, TypeOK

LEMMA MovedFacts ==
    ASSUME TypeOK, NEW p \in Procs, NEW w \in Phases, NEW i \in Nat, Moved(p, w, i)
    PROVE  /\ pc' \in [Procs -> Phases] /\ at' \in [Procs -> Nat]
           /\ pc'[p] = w /\ at'[p] = i
           /\ \A q \in Procs \ {p} : pc'[q] = pc[q] /\ at'[q] = at[q]
           /\ PlacedAt(p, w, i) => Placed(p)'
<1>1. pc \in [Procs -> Phases] /\ at \in [Procs -> Nat]
  BY DEF TypeOK
<1>2. pc' \in [Procs -> Phases] /\ at' \in [Procs -> Nat]
  BY <1>1 DEF Moved
<1>3. pc'[p] = w /\ at'[p] = i
  BY <1>1 DEF Moved
<1>4. \A q \in Procs \ {p} : pc'[q] = pc[q] /\ at'[q] = at[q]
  BY <1>1 DEF Moved
<1>5. PlacedAt(p, w, i) => Placed(p)'
  BY <1>3 DEF PlacedAt, Placed
<1> QED
  BY <1>2, <1>3, <1>4, <1>5

\* A step that leaves the locks alone, and comes or stays where the same are
\* held.
LEMMA LocksStay ==
    ASSUME IInv, NEW p \in Procs, NEW w \in Phases, NEW i \in Nat, Moved(p, w, i),
           DataOK', UNCHANGED lockVars, PlacedAt(p, w, i), SameLocks(p, w, i)
    PROVE  IInv'
<1>0. /\ Holds(p) /\ InPlan(p) \subseteq Files /\ lock' = lock /\ depth' = depth /\ p # Free
      /\ pc'[p] = w /\ at'[p] = i /\ Placed(p)'
      /\ \A q \in Procs \ {p} : pc'[q] = pc[q] /\ at'[q] = at[q]
  BY PlanFacts, MovedFacts DEF IInv, lockVars
<1>1. Holds(p)'
  <2>1. InPlan(p) # {}
    <3>1. 1 \in 1 .. Len(Plan[p])
      BY PlanFacts
    <3> QED
      BY <3>1, PlanFacts
  <2>2. CASE pc[p] \in Outside /\ w \in Outside \cup {"lock"}
    BY <1>0, <2>1, <2>2 DEF Holds, Outside, Working, Phases
  <2>3. CASE pc[p] \in Working /\ w \in Working
    <3>1. pc'[p] \notin Outside \cup {"lock"}
      BY <1>0, <2>3 DEF Outside, Working
    <3>2. \A f : Twice(p, f)' <=> Twice(p, f)
      BY <1>0, <2>3 DEF SameLocks, Twice, Cur, Outside, Working
    <3> HIDE DEF Twice
    <3> QED
      BY <1>0, <2>3, <3>1, <3>2 DEF Holds, InPlan
  <2> QED
    BY <2>2, <2>3 DEF SameLocks
<1>2. \A f \in Files : lock'[f] = lock[f] /\ depth'[f] = depth[f]
  BY <1>0
<1>3. \A f \in Files : lock'[f] = Free => depth'[f] = 0
  BY <1>2 DEF IInv
<1>4. TypeOK'
  BY <1>0, MovedFacts, DataIsTyped DEF IInv, TypeOK
<1> QED
  BY <1>0, <1>1, <1>2, <1>3, <1>4, OthersStay

\* What a step of a batch reads is there and has its type.
LEMMA Known ==
    ASSUME IInv, NEW p \in Procs
    PROVE  /\ DataOK /\ Placed(p) /\ at[p] \in Nat /\ pc[p] \in Phases
           /\ Moved(p, pc[p], at[p]) <=> UNCHANGED <<pc, at>>
           /\ Plan[p] \in Seq(Files) /\ Len(Plan[p]) \in Nat \ {0}
           /\ Absent \in Contents /\ Target[p] \in Contents /\ Claimed(p) \in Contents
           /\ at[p] \in 1 .. Len(Plan[p]) =>
                Cur(p) \in Files /\ disk[Cur(p)] \in Contents /\ orig[p][Cur(p)] \in Contents
<1>1. TypeOK /\ DataOK /\ Placed(p)
  BY TypedIsData DEF IInv
<1>2. ASSUME at[p] \in 1 .. Len(Plan[p])
      PROVE  Cur(p) \in Files /\ disk[Cur(p)] \in Contents /\ orig[p][Cur(p)] \in Contents
  <2>1. Cur(p) \in Files
    BY <1>2, PlanFacts DEF Cur
  <2>2. disk \in [Files -> Contents] /\ orig[p] \in [Files -> Contents]
    BY <1>1 DEF DataOK
  <2> QED
    BY <2>1, <2>2
<1>3. at \in [Procs -> Nat] /\ pc \in [Procs -> Phases]
  BY <1>1 DEF TypeOK
<1>4. Moved(p, pc[p], at[p]) <=> UNCHANGED <<pc, at>>
  BY <1>3 DEF Moved
<1> QED
  BY <1>1, <1>2, <1>3, <1>4, PlanFacts, ContentsFacts

\* What the steps of a batch do to the files and to what it knows of them.
LEMMA Updated ==
    ASSUME DataOK, NEW p \in Procs, NEW f \in Files, NEW c \in Contents
    PROVE  /\ [disk EXCEPT ![f] = c] \in [Files -> Contents]
           /\ [written EXCEPT ![p][f] = c] \in [Procs -> [Files -> Contents]]
           /\ [changed EXCEPT ![p] = @ \cup {f}] \in [Procs -> SUBSET Files]
<1>1. [disk EXCEPT ![f] = c] \in [Files -> Contents]
  <2>1. disk \in [Files -> Contents]
    BY DEF DataOK
  <2> QED
    BY <2>1
<1>2. [written EXCEPT ![p][f] = c] \in [Procs -> [Files -> Contents]]
  <2>1. written \in [Procs -> [Files -> Contents]]
    BY DEF DataOK
  <2> QED
    BY <2>1
<1>3. [changed EXCEPT ![p] = @ \cup {f}] \in [Procs -> SUBSET Files]
  <2>1. changed \in [Procs -> SUBSET Files]
    BY DEF DataOK
  <2> QED
    BY <2>1
<1> QED
  BY <1>1, <1>2, <1>3

LEMMA ReadKeeps == ASSUME IInv, NEW p \in Procs, Read(p) PROVE IInv'
<1>1. Moved(p, "snapshot", at[p]) /\ UNCHANGED lockVars /\ pc[p] = "read"
  BY DEF Read, Moved, Goto, IInv, TypeOK
<1>2. at[p] \in 1 .. Len(Plan[p]) /\ at[p] \in Nat
  BY <1>1, Known DEF Placed, Inside
<1>3. DataOK'
  BY <1>2, Known DEF Read, DataOK
<1>4. PlacedAt(p, "snapshot", at[p]) /\ SameLocks(p, "snapshot", at[p])
  BY <1>1, <1>2 DEF PlacedAt, SameLocks, Inside, Passed, Outside
<1> QED
  BY <1>1, <1>2, <1>3, <1>4, LocksStay DEF Phases

LEMMA SnapshotKeeps == ASSUME IInv, NEW p \in Procs, Snapshot(p) PROVE IInv'
<1>1. UNCHANGED lockVars /\ pc[p] = "snapshot"
  BY DEF Snapshot
<1>2. at[p] \in 1 .. Len(Plan[p]) /\ Len(Plan[p]) \in Nat /\ at[p] + 1 \in Nat
  BY <1>1, Known DEF Placed, Inside
<1>3. DataOK'
  BY <1>2, Known DEF Snapshot, DataOK
<1>4. CASE at[p] < Len(Plan[p])
  <2>1. Moved(p, "read", at[p] + 1)
    BY <1>4 DEF Snapshot, Moved, GotoAt, Goto
  <2>2. PlacedAt(p, "read", at[p] + 1) /\ SameLocks(p, "read", at[p] + 1)
    BY <1>1, <1>2, <1>4 DEF PlacedAt, SameLocks, Inside, Passed, Outside
  <2> QED
    BY <1>1, <1>2, <1>3, <2>1, <2>2, LocksStay DEF Phases
<1>5. CASE ~ (at[p] < Len(Plan[p]))
  <2>1. Moved(p, "lock", 1)
    BY <1>5 DEF Snapshot, Moved, GotoAt, Goto
  <2>2. PlacedAt(p, "lock", 1) /\ SameLocks(p, "lock", 1)
    BY <1>1 DEF PlacedAt, SameLocks, Inside, Passed, Outside
  <2> QED
    BY <1>1, <1>3, <2>1, <2>2, LocksStay DEF Phases
<1> QED
  BY <1>4, <1>5

\* Of the phases in which a batch holds all its locks once, any may follow.
LEMMA OnceHeld ==
    ASSUME IInv, NEW p \in Procs, pc[p] \in Working \ Doubled, NEW w \in Working \ Doubled,
           NEW i \in Nat, Moved(p, w, i), PlacedAt(p, w, i), DataOK', UNCHANGED lockVars
    PROVE  IInv'
<1>1. SameLocks(p, w, i) /\ w \in Phases
  BY DEF SameLocks, Working
<1> QED
  BY <1>1, LocksStay

LEMMA ReplaceKeeps == ASSUME IInv, NEW p \in Procs, Replace(p) PROVE IInv'
<1>1. Moved(p, "record", at[p]) /\ UNCHANGED lockVars /\ pc[p] = "replace"
  BY DEF Replace, Moved, Goto, IInv, TypeOK
<1>2. at[p] \in 1 .. Len(Plan[p]) /\ at[p] \in Nat
  BY <1>1, Known DEF Placed, Inside
<1>3. DataOK'
  <2>1. disk' \in [Files -> Contents] /\ changed' \in [Procs -> SUBSET Files]
    BY <1>2, Known, Updated DEF Replace
  <2> QED
    BY <2>1, Known DEF Replace, DataOK, planVars
<1>4. PlacedAt(p, "record", at[p]) /\ SameLocks(p, "record", at[p])
  BY <1>1, <1>2 DEF PlacedAt, SameLocks, Inside, Passed, Outside, Working, Phases, Doubled
<1> QED
  BY <1>1, <1>2, <1>3, <1>4, LocksStay DEF Phases

LEMMA RestoreKeeps == ASSUME IInv, NEW p \in Procs, Restore(p) PROVE IInv'
<1>1. Moved(p, "undo", at[p] - 1) /\ UNCHANGED lockVars /\ pc[p] = "restore"
  BY DEF Restore, Moved, Goto, GotoAt
<1>2. at[p] \in 1 .. Len(Plan[p]) /\ at[p] - 1 \in Nat
  BY <1>1, Known DEF Placed, Inside
<1>3. DataOK'
  <2>1. disk' \in [Files -> Contents]
    BY <1>2, Known, Updated DEF Restore
  <2> QED
    BY <2>1, Known DEF Restore, DataOK, planVars
<1>4. PlacedAt(p, "undo", at[p] - 1)
  BY <1>1, <1>2 DEF PlacedAt, Inside, Passed
<1> QED
  BY <1>1, <1>2, <1>3, <1>4, OnceHeld DEF Phases, Working, Doubled

LEMMA InstallKeeps == ASSUME IInv, NEW p \in Procs, Install(p) PROVE IInv'
<1>1. Moved(p, "confirm", at[p]) /\ UNCHANGED lockVars /\ pc[p] = "install"
  BY DEF Install, Moved, Goto, IInv, TypeOK
<1>2. at[p] \in 1 .. (Len(Plan[p]) + 1) /\ at[p] \in Nat
  BY <1>1, Known DEF Placed, Passed
<1>3. DataOK'
  <2>1. promoted' \subseteq Procs /\ plugin' \in {Absent, Installed}
    BY Known DEF Install, DataOK
  <2> QED
    BY <2>1, Known DEF Install, DataOK, planVars
<1>4. PlacedAt(p, "confirm", at[p])
  BY <1>1, <1>2 DEF PlacedAt, Inside, Passed
<1> QED
  BY <1>1, <1>2, <1>3, <1>4, OnceHeld DEF Phases, Working, Doubled

LEMMA VerifyKeeps == ASSUME IInv, NEW p \in Procs, Verify(p) PROVE IInv'
<1>1. UNCHANGED lockVars /\ pc[p] = "verify" /\ at \in [Procs -> Nat]
  BY DEF Verify, IInv, TypeOK
<1>2. at[p] \in 1 .. (Len(Plan[p]) + 1) /\ at[p] \in Nat /\ at[p] - 1 \in Nat
  BY <1>1, Known DEF Placed, Passed
<1>3. DataOK'
  BY Known DEF Verify, DataOK, planVars
<1>4. \/ Moved(p, "undo", at[p] - 1)
      \/ Moved(p, "apply", at[p]) /\ at[p] <= Len(Plan[p])
      \/ Moved(p, "finalize", at[p])
  BY <1>1 DEF Verify, Moved, Goto, GotoAt
<1>5. /\ PlacedAt(p, "undo", at[p] - 1) /\ PlacedAt(p, "finalize", at[p])
      /\ at[p] <= Len(Plan[p]) => PlacedAt(p, "apply", at[p])
  BY <1>2, PlanFacts DEF PlacedAt, Inside, Passed
<1> QED
  BY <1>1, <1>2, <1>3, <1>4, <1>5, OnceHeld DEF Phases, Working, Doubled

LEMMA FinalizeKeeps == ASSUME IInv, NEW p \in Procs, Finalize(p) PROVE IInv'
<1>1. UNCHANGED lockVars /\ pc[p] = "finalize" /\ at \in [Procs -> Nat]
  BY DEF Finalize, IInv, TypeOK
<1>2. at[p] \in 1 .. (Len(Plan[p]) + 1) /\ at[p] \in Nat /\ at[p] - 1 \in Nat
  BY <1>1, Known DEF Placed, Passed
<1>3. DataOK'
  BY Known DEF Finalize, PromoteSetup, FindPlugin, DataOK, planVars
<1>4. \/ Moved(p, "undo", at[p] - 1)
      \/ Moved(p, "confirm", at[p])
      \/ Moved(p, "install", at[p])
  BY <1>1 DEF Finalize, PromoteSetup, FindPlugin, Undo, Moved, Goto, GotoAt
<1>5. /\ PlacedAt(p, "undo", at[p] - 1) /\ PlacedAt(p, "confirm", at[p])
      /\ PlacedAt(p, "install", at[p])
  BY <1>2, PlanFacts DEF PlacedAt, Inside, Passed
<1> QED
  BY <1>1, <1>2, <1>3, <1>4, <1>5, OnceHeld DEF Phases, Working, Doubled

LEMMA ConfirmKeeps == ASSUME IInv, NEW p \in Procs, Confirm(p) PROVE IInv'
<1>1. UNCHANGED lockVars /\ pc[p] = "confirm" /\ at \in [Procs -> Nat]
  BY DEF Confirm, IInv, TypeOK
<1>2. at[p] \in 1 .. (Len(Plan[p]) + 1) /\ at[p] \in Nat /\ at[p] - 1 \in Nat
  BY <1>1, Known DEF Placed, Passed
<1>3. DataOK'
  <2>1. CASE Intact(p)
    BY <2>1, Known DEF Confirm, DataOK, planVars
  <2>2. CASE ~ Intact(p)
    BY <2>2, Known DEF Confirm, DataOK, planVars
  <2> QED
    BY <2>1, <2>2
<1>4. Moved(p, "undo", at[p] - 1) \/ Moved(p, "unlock", at[p])
  BY <1>1 DEF Confirm, Undo, Moved, Goto, GotoAt
<1>5. PlacedAt(p, "undo", at[p] - 1) /\ PlacedAt(p, "unlock", at[p])
  BY <1>2, PlanFacts DEF PlacedAt, Inside, Passed
<1> QED
  BY <1>1, <1>2, <1>3, <1>4, <1>5, OnceHeld DEF Phases, Working, Doubled

LEMMA UndoFileKeeps == ASSUME IInv, NEW p \in Procs, UndoFile(p) PROVE IInv'
<1>1. UNCHANGED lockVars /\ pc[p] = "undo" /\ at \in [Procs -> Nat]
  BY DEF UndoFile, IInv, TypeOK
<1>2. at[p] \in 0 .. Len(Plan[p]) /\ at[p] \in Nat /\ (at[p] > 0 => at[p] - 1 \in Nat)
  BY <1>1, Known DEF Placed
<1>3. DataOK'
  BY Known DEF UndoFile, DataOK, planVars
<1>4. \/ Moved(p, "unlock", at[p])
      \/ at[p] > 0 /\ Moved(p, "undo", at[p] - 1)
      \/ at[p] > 0 /\ Moved(p, "restore", at[p])
  BY <1>1 DEF UndoFile, Moved, Goto, GotoAt
<1>5. /\ PlacedAt(p, "unlock", at[p])
      /\ at[p] > 0 => PlacedAt(p, "undo", at[p] - 1) /\ PlacedAt(p, "restore", at[p])
  BY <1>2, PlanFacts DEF PlacedAt, Inside, Passed
<1> QED
  BY <1>1, <1>2, <1>3, <1>4, <1>5, OnceHeld DEF Phases, Working, Doubled

LEMMA ChangedSincePreflightKeeps == ASSUME IInv, NEW p \in Procs, ChangedSincePreflight(p) PROVE IInv'
<1>1. UNCHANGED lockVars /\ pc[p] = "apply" /\ at \in [Procs -> Nat]
  BY DEF ChangedSincePreflight, IInv, TypeOK
<1>2. at[p] \in 1 .. Len(Plan[p]) /\ at[p] \in Nat /\ at[p] + 1 \in Nat /\ Len(Plan[p]) \in Nat
  BY <1>1, Known DEF Placed, Inside
<1>3. DataOK'
  <2>1. /\ Cur(p) \in Files /\ Claimed(p) \in Contents /\ Absent \in Contents /\ DataOK
    BY <1>2, Known
  <2>2. /\ \/ written' = [written EXCEPT ![p][Cur(p)] = Absent] /\ changed' = changed
           \/ /\ written' = [written EXCEPT ![p][Cur(p)] = Claimed(p)]
              /\ changed' = [changed EXCEPT ![p] = @ \cup {Cur(p)}]
        /\ UNCHANGED <<disk, plugin, planVars, promoted, outcome, racing, replaced, edits>>
    BY DEF ChangedSincePreflight, Failed
  <2> DEFINE f == Cur(p)
             c == Claimed(p)
  <2> HIDE DEF f, c
  <2>3. f \in Files /\ c \in Contents /\ Absent \in Contents
    BY <2>1 DEF f, c
  <2>4. [written EXCEPT ![p][f] = Absent] \in [Procs -> [Files -> Contents]]
    BY <2>1, <2>3, Updated
  <2>5. /\ [written EXCEPT ![p][f] = c] \in [Procs -> [Files -> Contents]]
        /\ [changed EXCEPT ![p] = @ \cup {f}] \in [Procs -> SUBSET Files]
    BY <2>1, <2>3, Updated
  <2>6. changed \in [Procs -> SUBSET Files]
    BY <2>1 DEF DataOK
  <2>7. written' \in [Procs -> [Files -> Contents]] /\ changed' \in [Procs -> SUBSET Files]
    BY <2>2, <2>4, <2>5, <2>6 DEF f, c
  <2> QED
    BY <2>1, <2>2, <2>7 DEF DataOK, planVars
<1>4. Moved(p, "verify", at[p] + 1) \/ Moved(p, "undo", at[p])
  BY <1>1 DEF ChangedSincePreflight, Failed, Moved, Goto, GotoAt
<1>5. PlacedAt(p, "verify", at[p] + 1) /\ PlacedAt(p, "undo", at[p])
  BY <1>2, PlanFacts DEF PlacedAt, Inside, Passed
<1> QED
  BY <1>1, <1>2, <1>3, <1>4, <1>5, OnceHeld DEF Phases, Working, Doubled

\* One release of locks that are held once gives them back; the lock of the
\* operation's file is held once more.
LEMMA ReleaseOne ==
    ASSUME IInv, NEW p \in Procs, pc[p] \in Doubled, Released(p, {Cur(p)})
    PROVE  /\ lock' = lock
           /\ depth' = [f \in Files |-> IF f = Cur(p) THEN 1 ELSE depth[f]]
<1>1. Cur(p) \in Files /\ Cur(p) \in InPlan(p)
  BY PlanFacts DEF IInv, Placed, Inside, Doubled, Cur
<1>2. lock[Cur(p)] = p /\ depth[Cur(p)] = 2
  BY <1>1 DEF IInv, Holds, Working, Doubled, Twice, Phases
<1>3. \A f \in Files : lock[f] = p => depth[f] # 0
  BY DEF IInv, Holds
<1>4. depth' = [f \in Files |-> IF f = Cur(p) THEN 1 ELSE depth[f]]
  BY <1>2 DEF Released
<1>5. ASSUME NEW f \in Files PROVE lock'[f] = lock[f]
  <2>1. lock[f] = p => depth'[f] # 0
    BY <1>2, <1>3, <1>4
  <2> QED
    BY <2>1 DEF Released
<1>6. lock \in [Files -> Procs \cup {Free}] /\ lock' = [f \in Files |-> lock'[f]]
  BY DEF IInv, TypeOK, Released
<1>7. lock' = lock
  BY <1>5, <1>6
<1> QED
  BY <1>4, <1>7

\* A batch gives back all it holds.
LEMMA AllGivenBack ==
    ASSUME IInv, NEW p \in Procs, NEW i \in Nat, Moved(p, "done", i), DataOK',
           lock' = [f \in Files |-> IF lock[f] = p THEN Free ELSE lock[f]],
           depth' = [f \in Files |-> IF lock[f] = p THEN 0 ELSE depth[f]]
    PROVE  IInv'
<1>1. TypeOK /\ "done" \in Phases /\ p # Free
  BY DEF IInv, Phases
<1>2. /\ pc' \in [Procs -> Phases] /\ at' \in [Procs -> Nat] /\ pc'[p] = "done"
      /\ \A q \in Procs \ {p} : pc'[q] = pc[q] /\ at'[q] = at[q]
  BY <1>1, MovedFacts
<1>3. lock' \in [Files -> Procs \cup {Free}] /\ depth' \in [Files -> 0 .. 2]
  BY <1>1 DEF TypeOK
<1>4. TypeOK'
  BY <1>2, <1>3, DataIsTyped
<1>5. \A f \in Files : lock'[f] # p
  BY <1>1
<1>6. Placed(p)' /\ Holds(p)'
  BY <1>2, <1>5 DEF Placed, Holds, Inside, Passed, Outside, Working
<1>7. \A f \in Files : \/ lock'[f] = lock[f] /\ depth'[f] = depth[f]
                       \/ lock[f] \in {p, Free} /\ lock'[f] \in {p, Free}
  <2> TAKE f \in Files
  <2>1. CASE lock[f] # p
    BY <2>1
  <2>2. CASE lock[f] = p
    BY <2>2
  <2> QED
    BY <2>1, <2>2
<1>8. \A f \in Files : lock'[f] = Free => depth'[f] = 0
  BY DEF IInv
<1> QED
  BY <1>2, <1>4, <1>6, <1>7, <1>8, OthersStay

\* One release of every lock is enough when none is held twice.
LEMMA ReleaseAll ==
    ASSUME IInv, NEW p \in Procs, NEW fs, InPlan(p) \subseteq fs, pc[p] \notin Doubled, Released(p, fs)
    PROVE  /\ lock' = [f \in Files |-> IF lock[f] = p THEN Free ELSE lock[f]]
           /\ depth' = [f \in Files |-> IF lock[f] = p THEN 0 ELSE depth[f]]
<1>1. \A f \in Files : lock[f] = p => f \in fs /\ depth[f] = 1
  BY DEF IInv, Holds, Twice
<1>2. depth' = [f \in Files |-> IF lock[f] = p THEN 0 ELSE depth[f]]
  BY <1>1 DEF Released
<1>3. \A f \in Files : lock'[f] = IF lock[f] = p THEN Free ELSE lock[f]
  BY <1>2 DEF Released
<1>4. lock' = [f \in Files |-> lock'[f]]
  BY DEF Released
<1> QED
  BY <1>2, <1>3, <1>4

LEMMA UnlockKeeps == ASSUME IInv, NEW p \in Procs, Unlock(p) PROVE IInv'
<1>1. Moved(p, "done", at[p]) /\ pc[p] \notin Doubled /\ at[p] \in Nat
  BY Known DEF Unlock, Moved, Goto, Doubled, IInv, TypeOK
<1>2. DataOK'
  BY Known DEF Unlock, DataOK, planVars
<1>3. /\ lock' = [f \in Files |-> IF lock[f] = p THEN Free ELSE lock[f]]
      /\ depth' = [f \in Files |-> IF lock[f] = p THEN 0 ELSE depth[f]]
  BY <1>1, ReleaseAll DEF Unlock
<1> QED
  BY <1>1, <1>2, <1>3, AllGivenBack

LEMMA LockTimeoutKeeps == ASSUME IInv, NEW p \in Procs, LockTimeout(p) PROVE IInv'
<1>1. Moved(p, "done", at[p]) /\ pc[p] \notin Doubled /\ at[p] \in Nat
  BY Known DEF LockTimeout, Moved, Goto, Doubled, IInv, TypeOK
<1>2. DataOK'
  BY Known DEF LockTimeout, DataOK, planVars
<1>3. /\ lock' = [f \in Files |-> IF lock[f] = p THEN Free ELSE lock[f]]
      /\ depth' = [f \in Files |-> IF lock[f] = p THEN 0 ELSE depth[f]]
  BY <1>1, ReleaseAll, PlanFacts DEF LockTimeout
<1> QED
  BY <1>1, <1>2, <1>3, AllGivenBack

LEMMA KillKeeps == ASSUME IInv, NEW p \in Procs, Kill(p) PROVE IInv'
<1>1. Moved(p, "done", at[p]) /\ at[p] \in Nat
  BY Known DEF Kill, Moved, Goto, IInv, TypeOK
<1>2. DataOK'
  BY Known DEF Kill, DataOK, planVars
<1> QED
  BY <1>1, <1>2, AllGivenBack DEF Kill

LEMMA LockKeeps == ASSUME IInv, NEW p \in Procs, Lock(p) PROVE IInv'
<1> DEFINE n == NextLock(p)
<1>1. /\ pc[p] = "lock" /\ lock[n] = Free /\ lock' = [lock EXCEPT ![n] = p]
      /\ depth' = [depth EXCEPT ![n] = 1] /\ at[p] = 1 /\ p # Free
  BY DEF Lock, IInv, Placed
<1>2. Missing(p) # {}
  BY <1>1, PlanFacts DEF IInv, Holds, Missing
<1>3. /\ n \in Missing(p)
      /\ Cardinality(Missing(p)) = 1 => Missing(p) = {n}
      /\ Cardinality(Missing(p)) # 1 => Missing(p) \ {n} # {}
  BY <1>2, NextLockFacts
<1> HIDE DEF n
<1>4. n \in Files /\ n \in InPlan(p) /\ InPlan(p) \subseteq Files
  BY <1>3, PlanFacts DEF Missing
<1>5. lock \in [Files -> Procs \cup {Free}] /\ depth \in [Files -> 0 .. 2]
  BY DEF IInv, TypeOK
<1>6. lock' \in [Files -> Procs \cup {Free}] /\ depth' \in [Files -> 0 .. 2]
  BY <1>1, <1>4, <1>5
<1>7. DataOK'
  BY Known DEF Lock, DataOK, planVars
<1>8. \A f \in Files : lock'[f] = p => f \in InPlan(p) /\ depth'[f] = 1
  BY <1>1, <1>4, <1>5 DEF IInv, Holds, Twice, Doubled
<1>9. \A f \in Files : \/ lock'[f] = lock[f] /\ depth'[f] = depth[f]
                       \/ lock[f] \in {p, Free} /\ lock'[f] \in {p, Free}
  <2> TAKE f \in Files
  <2>1. CASE f # n
    BY <1>1, <1>5, <2>1
  <2>2. CASE f = n
    BY <1>1, <1>4, <1>5, <2>2
  <2> QED
    BY <2>1, <2>2
<1>10. \A f \in Files : lock'[f] = Free => depth'[f] = 0
  BY <1>1, <1>4, <1>5 DEF IInv
<1>11. CASE Cardinality(Missing(p)) = 1
  <2>1. Moved(p, "apply", 1)
    BY <1>1, <1>11 DEF Lock, Moved, Goto, IInv, TypeOK
  <2>2. PlacedAt(p, "apply", 1)
    BY PlanFacts DEF PlacedAt, Inside, Passed
  <2>3. /\ pc' \in [Procs -> Phases] /\ at' \in [Procs -> Nat] /\ pc'[p] = "apply"
        /\ \A q \in Procs \ {p} : pc'[q] = pc[q] /\ at'[q] = at[q]
        /\ Placed(p)'
    BY <2>1, <2>2, MovedFacts DEF IInv, Phases
  <2>4. \A f \in InPlan(p) : lock'[f] = p
    BY <1>1, <1>3, <1>4, <1>5, <1>11 DEF Missing
  <2>5. Holds(p)'
    BY <1>8, <2>3, <2>4 DEF Holds, Outside, Twice, Doubled, InPlan
  <2>6. TypeOK'
    BY <1>6, <1>7, <2>3, DataIsTyped
  <2> QED
    BY <1>9, <1>10, <2>3, <2>5, <2>6, OthersStay
<1>12. CASE Cardinality(Missing(p)) # 1
  <2>1. UNCHANGED <<pc, at>>
    BY <1>12 DEF Lock
  <2>2. Placed(p)'
    BY <2>1, Known DEF Placed
  <2>3. \E f \in InPlan(p) : lock'[f] # p
    BY <1>1, <1>3, <1>4, <1>5, <1>12 DEF Missing
  <2>4. Holds(p)'
    BY <1>1, <1>8, <2>1, <2>3 DEF Holds, Outside, Working, Twice, Doubled, InPlan
  <2>5. TypeOK'
    <3>1. pc' \in [Procs -> Phases] /\ at' \in [Procs -> Nat]
      BY <2>1 DEF IInv, TypeOK
    <3> QED
      BY <1>6, <1>7, <3>1, DataIsTyped
  <2> QED
    BY <1>9, <1>10, <2>1, <2>2, <2>4, <2>5, OthersStay
<1> QED
  BY <1>11, <1>12

LEMMA OpenKeeps == ASSUME IInv, NEW p \in Procs, Open(p) PROVE IInv'
<1>1. pc[p] = "apply" /\ TypeOK
  BY DEF Open, IInv
<1>2. at[p] \in 1 .. Len(Plan[p]) /\ at[p] \in Nat /\ at[p] + 1 \in Nat /\ Len(Plan[p]) \in Nat
  BY <1>1, Known DEF Placed, Inside
<1>3. CASE Unneeded(p)
  <2>1. Moved(p, "verify", at[p] + 1) /\ UNCHANGED lockVars
    BY <1>3 DEF Open, Moved, Goto, GotoAt, lockVars
  <2>2. PlacedAt(p, "verify", at[p] + 1)
    BY <1>2 DEF PlacedAt, Inside, Passed
  <2>3. DataOK'
    <3> DEFINE f == Cur(p)
               c == orig[p][Cur(p)]
    <3> HIDE DEF f, c
    <3>2. f \in Files /\ c \in Contents /\ DataOK
      BY <1>2, Known DEF f, c
    <3>3. [written EXCEPT ![p][f] = c] \in [Procs -> [Files -> Contents]]
      BY <3>2, Updated
    <3>1. written' \in [Procs -> [Files -> Contents]]
      BY <1>3, <3>3 DEF Open, f, c
    <3> QED
      BY <3>1, Known DEF Open, DataOK, planVars
  <2> QED
    BY <1>1, <1>2, <2>1, <2>2, <2>3, OnceHeld DEF Phases, Working, Doubled
<1>4. CASE ~ Unneeded(p)
  <2>1. Moved(p, "compare", at[p]) /\ lock' = lock /\ depth' = [depth EXCEPT ![Cur(p)] = @ + 1]
    BY <1>1, <1>4 DEF Open, Moved, Goto, TypeOK
  <2>2. PlacedAt(p, "compare", at[p])
    BY <1>2 DEF PlacedAt, Inside, Passed
  <2>3. DataOK'
    BY <1>4, Known DEF Open, DataOK, planVars
  <2>4. /\ pc' \in [Procs -> Phases] /\ at' \in [Procs -> Nat] /\ pc'[p] = "compare" /\ at'[p] = at[p]
        /\ \A q \in Procs \ {p} : pc'[q] = pc[q] /\ at'[q] = at[q]
        /\ Placed(p)'
    BY <1>1, <1>2, <2>1, <2>2, MovedFacts DEF Phases
  <2>5. Cur(p) \in Files /\ Cur(p) \in InPlan(p) /\ InPlan(p) \subseteq Files
    BY <1>2, PlanFacts DEF Cur
  <2>6. /\ \A f \in InPlan(p) : lock[f] = p
        /\ \A f \in Files : lock[f] = p => f \in InPlan(p) /\ depth[f] = 1
        /\ p # Free
    BY <1>1 DEF IInv, Holds, Working, Phases, Twice, Doubled
  <2>7. depth \in [Files -> 0 .. 2] /\ lock \in [Files -> Procs \cup {Free}]
    BY <1>1 DEF TypeOK
  <2> DEFINE f0 == Cur(p)
  <2> HIDE DEF f0
  <2>8. /\ depth' = [depth EXCEPT ![f0] = 2] /\ f0 \in Files /\ lock[f0] = p
        /\ f0 = Cur(p) /\ f0 = Cur(p)'
    <3>1. f0 \in Files /\ f0 \in InPlan(p) /\ depth' = [depth EXCEPT ![f0] = @ + 1]
      BY <2>1, <2>5 DEF f0
    <3>2. lock[f0] = p /\ depth[f0] = 1
      BY <2>6, <3>1
    <3>3. f0 = Cur(p) /\ f0 = Cur(p)'
      BY <2>4 DEF f0, Cur
    <3> QED
      BY <3>1, <3>2, <3>3
  <2>9. depth' \in [Files -> 0 .. 2] /\ lock' \in [Files -> Procs \cup {Free}]
    BY <2>1, <2>7, <2>8
  <2>10. TypeOK'
    BY <2>3, <2>4, <2>9, DataIsTyped
  <2>11. \A f \in Files : depth'[f] = IF f = f0 THEN 2 ELSE depth[f]
    BY <2>7, <2>8
  <2>12. Holds(p)'
    BY <2>1, <2>4, <2>6, <2>8, <2>11 DEF Holds, Outside, Twice, Doubled, InPlan
  <2>13. \A f \in Files : \/ lock'[f] = lock[f] /\ depth'[f] = depth[f]
                          \/ lock[f] \in {p, Free} /\ lock'[f] \in {p, Free}
    BY <2>1, <2>8, <2>11
  <2>14. \A f \in Files : lock'[f] = Free => depth'[f] = 0
    BY <2>1, <2>6, <2>8, <2>11 DEF IInv
  <2> QED
    BY <2>4, <2>10, <2>12, <2>13, <2>14, OthersStay
<1> QED
  BY <1>3, <1>4

\* An operation ends and gives its lock back once.
LEMMA OperationEnds ==
    ASSUME IInv, NEW p \in Procs, pc[p] \in Doubled, NEW w \in Working \ Doubled, NEW i \in Nat,
           Moved(p, w, i), PlacedAt(p, w, i), DataOK', Released(p, {Cur(p)})
    PROVE  IInv'
<1>1. /\ lock' = lock /\ depth' = [f \in Files |-> IF f = Cur(p) THEN 1 ELSE depth[f]]
  BY ReleaseOne
<1>2. TypeOK /\ w \in Phases /\ w \notin Outside \cup {"lock"} /\ pc[p] \in Working
  BY DEF IInv, Working, Doubled, Outside, Phases
<1>3. /\ pc' \in [Procs -> Phases] /\ at' \in [Procs -> Nat] /\ pc'[p] = w
      /\ \A q \in Procs \ {p} : pc'[q] = pc[q] /\ at'[q] = at[q]
      /\ Placed(p)'
  BY <1>2, MovedFacts
<1>4. lock' \in [Files -> Procs \cup {Free}] /\ depth' \in [Files -> 0 .. 2]
  BY <1>1, <1>2 DEF TypeOK
<1>5. TypeOK'
  BY <1>3, <1>4, DataIsTyped
<1>6. Cur(p) \in Files /\ Cur(p) \in InPlan(p) /\ InPlan(p) \subseteq Files
  BY PlanFacts DEF IInv, Placed, Inside, Doubled, Cur
<1> DEFINE f0 == Cur(p)
<1>7. /\ \A f \in InPlan(p) : lock[f] = p
      /\ \A f \in Files : lock[f] = p => f \in InPlan(p) /\ (f # f0 => depth[f] = 1)
      /\ p # Free
  BY <1>2 DEF IInv, Holds, Twice
<1> HIDE DEF f0
<1>8. \A f \in Files : depth'[f] = IF f = f0 THEN 1 ELSE depth[f]
  BY <1>1 DEF f0
<1>9. f0 \in Files /\ lock[f0] = p
  BY <1>6, <1>7 DEF f0
<1>10. Holds(p)'
  BY <1>1, <1>2, <1>3, <1>7, <1>8 DEF Holds, Twice, InPlan
<1>11. \A f \in Files : \/ lock'[f] = lock[f] /\ depth'[f] = depth[f]
                        \/ lock[f] \in {p, Free} /\ lock'[f] \in {p, Free}
  BY <1>1, <1>8, <1>9
<1>12. \A f \in Files : lock'[f] = Free => depth'[f] = 0
  BY <1>1, <1>7, <1>8, <1>9 DEF IInv
<1> QED
  BY <1>3, <1>5, <1>10, <1>11, <1>12, OthersStay

LEMMA AbandonKeeps ==
    ASSUME IInv, NEW p \in Procs, pc[p] \in Doubled, NEW b \in BOOLEAN, Abandon(p, b)
    PROVE  IInv'
<1>1. at[p] \in 1 .. Len(Plan[p]) /\ at[p] \in Nat /\ at[p] - 1 \in Nat /\ Len(Plan[p]) \in Nat
  BY Known DEF Placed, Inside, Doubled
<1>2. PlacedAt(p, "undo", at[p] - 1) /\ PlacedAt(p, "undo", at[p])
  BY <1>1 DEF PlacedAt, Inside, Passed
<1>3. Moved(p, "undo", at[p] - 1) \/ Moved(p, "undo", at[p])
  BY DEF Abandon, Failed, Moved, Goto, GotoAt, IInv, TypeOK
<1>4. DataOK'
  <2>1. /\ \/ written' = written /\ changed' = changed
           \/ /\ written' = [written EXCEPT ![p][Cur(p)] = Claimed(p)]
              /\ changed' = [changed EXCEPT ![p] = @ \cup {Cur(p)}]
        /\ UNCHANGED <<disk, plugin, planVars, promoted, outcome, racing, replaced, edits>>
    BY DEF Abandon, Failed
  <2> DEFINE f == Cur(p)
             c == Claimed(p)
  <2> HIDE DEF f, c
  <2>2. f \in Files /\ c \in Contents /\ DataOK
    BY <1>1, Known DEF f, c
  <2>3. /\ [written EXCEPT ![p][f] = c] \in [Procs -> [Files -> Contents]]
        /\ [changed EXCEPT ![p] = @ \cup {f}] \in [Procs -> SUBSET Files]
    BY <2>2, Updated
  <2>4. written' \in [Procs -> [Files -> Contents]] /\ changed' \in [Procs -> SUBSET Files]
    BY <2>1, <2>2, <2>3 DEF f, c, DataOK
  <2> QED
    BY <2>1, <2>2, <2>4 DEF DataOK, planVars
<1>5. Released(p, {Cur(p)}) /\ "undo" \in Working \ Doubled
  BY DEF Abandon, Working, Phases, Doubled
<1> QED
  BY <1>1, <1>2, <1>3, <1>4, <1>5, OperationEnds

LEMMA CompareKeeps == ASSUME IInv, NEW p \in Procs, Compare(p) PROVE IInv'
<1>1. pc[p] = "compare" /\ pc[p] \in Doubled
  BY DEF Compare, Doubled
<1>2. \/ \E b \in BOOLEAN : Abandon(p, b)
      \/ Goto(p, "replace") /\ UNCHANGED <<disk, plugin, lockVars, at, planVars, written, changed,
                         promoted, backups, mine, outcome, racing, replaced, edits>>
  BY DEF Compare
<1>3. CASE Goto(p, "replace") /\ UNCHANGED <<disk, plugin, lockVars, at, planVars, written, changed,
                         promoted, backups, mine, outcome, racing, replaced, edits>>
  <2>1. Moved(p, "replace", at[p]) /\ UNCHANGED lockVars
    BY <1>3 DEF Moved, Goto, IInv, TypeOK
  <2>2. at[p] \in 1 .. Len(Plan[p]) /\ at[p] \in Nat
    BY <1>1, Known DEF Placed, Inside
  <2>3. DataOK'
    BY <1>3, Known DEF DataOK, planVars
  <2>4. PlacedAt(p, "replace", at[p]) /\ SameLocks(p, "replace", at[p])
    BY <1>1, <2>2 DEF PlacedAt, SameLocks, Inside, Passed, Working, Phases, Doubled
  <2> QED
    BY <2>1, <2>2, <2>3, <2>4, LocksStay DEF Phases
<1> QED
  BY <1>1, <1>2, <1>3, AbandonKeeps

LEMMA RecordKeeps == ASSUME IInv, NEW p \in Procs, Record(p) PROVE IInv'
<1>1. pc[p] = "record" /\ pc[p] \in Doubled
  BY DEF Record, Doubled
<1> DEFINE Kept == /\ written' = [written EXCEPT ![p][Cur(p)] = IF Removes(p) THEN Absent ELSE disk[Cur(p)]]
                   /\ GotoAt(p, "verify", at[p] + 1)
                   /\ Released(p, {Cur(p)})
                   /\ UNCHANGED <<disk, plugin, planVars, changed, promoted, backups, mine, outcome, racing, replaced, edits>>
<1>2. Kept \/ \E b \in BOOLEAN : Abandon(p, b)
  BY DEF Record
<1>3. CASE Kept
  <2>1. Moved(p, "verify", at[p] + 1)
    BY <1>3 DEF Moved, Goto, GotoAt
  <2>2. at[p] \in 1 .. Len(Plan[p]) /\ at[p] + 1 \in Nat /\ Len(Plan[p]) \in Nat
    BY <1>1, Known DEF Placed, Inside
  <2>3. PlacedAt(p, "verify", at[p] + 1)
    BY <2>2 DEF PlacedAt, Inside, Passed
  <2>4. DataOK'
    <3> DEFINE f == Cur(p)
               c == IF Removes(p) THEN Absent ELSE disk[Cur(p)]
    <3> HIDE DEF f, c
    <3>1. f \in Files /\ c \in Contents /\ DataOK
      BY <2>2, Known DEF f, c
    <3>2. [written EXCEPT ![p][f] = c] \in [Procs -> [Files -> Contents]]
      BY <3>1, Updated
    <3>3. written' \in [Procs -> [Files -> Contents]]
      BY <1>3, <3>2 DEF f, c
    <3> QED
      BY <1>3, <3>1, <3>3 DEF DataOK, planVars
  <2>5. "verify" \in Working \ Doubled
    BY DEF Working, Phases, Doubled
  <2> QED
    BY <1>1, <1>3, <2>1, <2>2, <2>3, <2>4, <2>5, OperationEnds
<1> QED
  BY <1>1, <1>2, <1>3, AbandonKeeps

LEMMA EditKeeps == ASSUME IInv, NEW f \in Files, NEW c \in Contents, Edit(f, c) PROVE IInv'
<1>1. TypeOK'
  <2>1. disk' \in [Files -> Contents] /\ racing' \subseteq (Procs \X Files) /\ edits' \in Nat
    BY DEF Edit, IInv, TypeOK
  <2> QED
    BY <2>1 DEF Edit, IInv, TypeOK, planVars, lockVars
<1>2. UNCHANGED <<lock, depth, pc, at>>
  BY DEF Edit, lockVars
<1> QED
  BY <1>1, <1>2 DEF IInv, Placed, Holds, Twice, Cur, InPlan

LEMMA UninstallKeeps == ASSUME IInv, Uninstall PROVE IInv'
<1>1. TypeOK'
  BY DEF Uninstall, IInv, TypeOK, planVars, lockVars
<1>2. UNCHANGED <<lock, depth, pc, at>>
  BY DEF Uninstall, lockVars
<1> QED
  BY <1>1, <1>2 DEF IInv, Placed, Holds, Twice, Cur, InPlan

LEMMA StutterKeeps == ASSUME IInv, UNCHANGED vars PROVE IInv'
<1>1. TypeOK'
  BY DEF vars, IInv, TypeOK
<1>2. UNCHANGED <<lock, depth, pc, at>>
  BY DEF vars
<1> QED
  BY <1>1, <1>2 DEF IInv, Placed, Holds, Twice, Cur, InPlan

LEMMA InitEstablishes == Init => IInv
<1> SUFFICES ASSUME Init PROVE IInv
  OBVIOUS
<1>1. TypeOK
  BY DEF Init, TypeOK, Contents, Phases
<1>2. ASSUME NEW p \in Procs PROVE Placed(p) /\ Holds(p)
  BY PlanFacts DEF Init, Placed, Holds, Inside, Passed, Outside, Working, Phases
<1> QED
  BY <1>1, <1>2 DEF Init, IInv

\* The step of somebody is a step of a batch, of an editor or of an uninstaller.
LEMMA NextCases ==
    ASSUME TypeOK, Next
    PROVE  \/ \E p \in Procs : Step(p) \/ LockTimeout(p) \/ Kill(p)
           \/ \E f \in Files, c \in Contents : Edit(f, c)
           \/ Uninstall
<1>1. Absent \in Contents /\ (edits < Len(Versions) => Versions[edits + 1] \in Contents)
  <2>1. ASSUME edits < Len(Versions) PROVE edits + 1 \in DOMAIN Versions
    BY <2>1 DEF TypeOK
  <2> QED
    BY <2>1 DEF Contents
<1>2. ASSUME NEW f \in Files, edits < Len(Versions), NEW c \in {Versions[edits + 1], Absent}, Edit(f, c)
      PROVE  \E g \in Files, d \in Contents : Edit(g, d)
  <2>1. c \in Contents
    BY <1>1, <1>2
  <2> QED
    BY <1>2, <2>1
<1> QED
  BY <1>2 DEF Next

LEMMA StepKeeps == ASSUME IInv, NEW p \in Procs, Step(p) PROVE IInv'
BY ReadKeeps, SnapshotKeeps, LockKeeps, OpenKeeps, ChangedSincePreflightKeeps, CompareKeeps,
   ReplaceKeeps, RecordKeeps, VerifyKeeps, FinalizeKeeps, InstallKeeps, ConfirmKeeps,
   UndoFileKeeps, RestoreKeeps, UnlockKeeps
   DEF Step

LEMMA NextKeeps == IInv /\ [Next]_vars => IInv'
<1> SUFFICES ASSUME IInv, [Next]_vars PROVE IInv'
  OBVIOUS
<1>1. CASE Next
  <2>1. \/ \E p \in Procs : Step(p) \/ LockTimeout(p) \/ Kill(p)
        \/ \E f \in Files, c \in Contents : Edit(f, c)
        \/ Uninstall
    BY <1>1, NextCases DEF IInv
  <2> QED
    BY <2>1, StepKeeps, LockTimeoutKeeps, KillKeeps, EditKeeps, UninstallKeeps
<1>2. CASE UNCHANGED vars
  BY <1>2, StutterKeeps
<1> QED
  BY <1>1, <1>2

THEOREM Invariance == Spec => []IInv
BY InitEstablishes, NextKeeps, PTL DEF Spec

\* The types hold of every number of batches and files: in particular no
\* lock is ever taken more than twice by one batch (file-lock.js).
THEOREM TypeCorrect == Spec => []TypeOK
BY Invariance, PTL DEF IInv

\* A batch holds the locks of all its files from the first to the last thing
\* it does to them, whatever its operations take and give back.
THEOREM Exclusion == Spec => []LocksHeld
<1>1. IInv => LocksHeld
  BY DEF IInv, Holds, LocksHeld
<1> QED
  BY <1>1, Invariance, PTL

-----------------------------------------------------------------------------
(* What a step of one batch leaves to the others.                          *)

Alone(p) ==
    /\ \A f \in Files : disk'[f] # disk[f] => lock[f] = p
    /\ \A q \in Procs \ {p} :
        /\ pc'[q] = pc[q] /\ at'[q] = at[q] /\ orig'[q] = orig[q] /\ written'[q] = written[q]
        /\ changed'[q] = changed[q] /\ outcome'[q] = outcome[q]
    /\ racing' = racing /\ edits' = edits
    /\ \A q \in Procs \ {p}, f \in Files : <<q, f>> \in replaced' <=> <<q, f>> \in replaced

\* In its operations a batch has the lock of the file it is at.
LEMMA CurIsLocked ==
    ASSUME IInv, NEW p \in Procs, pc[p] \in Inside \ Outside
    PROVE  Cur(p) \in Files /\ Cur(p) \in InPlan(p) /\ lock[Cur(p)] = p
BY PlanFacts DEF IInv, Placed, Holds, Inside, Outside, Working, Phases, Cur

LEMMA EachAlone ==
    ASSUME IInv, NEW p \in Procs, Step(p) \/ LockTimeout(p) \/ Kill(p)
    PROVE  Alone(p)
<1>1. /\ pc \in [Procs -> Phases] /\ at \in [Procs -> Nat] /\ disk \in [Files -> Contents]
      /\ orig \in [Procs -> [Files -> Contents]] /\ written \in [Procs -> [Files -> Contents]]
      /\ changed \in [Procs -> SUBSET Files]
      /\ outcome \in [Procs -> {"none", "committed", "failed", "incomplete", "killed"}]
  BY DEF IInv, TypeOK
<1>2. ASSUME pc[p] \in {"replace", "restore"} PROVE Cur(p) \in Files /\ lock[Cur(p)] = p
  BY <1>2, CurIsLocked DEF Inside, Outside
<1>3. CASE Read(p)
  BY <1>1, <1>3 DEF Read, Goto, Alone, planVars
<1>4. CASE Snapshot(p)
  BY <1>1, <1>4 DEF Snapshot, Goto, GotoAt, Alone, planVars
<1>5. CASE Lock(p)
  BY <1>1, <1>5 DEF Lock, Goto, Alone, planVars
<1>6. CASE LockTimeout(p)
  BY <1>1, <1>6 DEF LockTimeout, Goto, Alone, planVars
<1>7. CASE Open(p)
  BY <1>1, <1>7 DEF Open, Goto, GotoAt, Alone, planVars
<1>8. CASE ChangedSincePreflight(p)
  BY <1>1, <1>8 DEF ChangedSincePreflight, Goto, GotoAt, Failed, Alone, planVars
<1>9. CASE Compare(p)
  BY <1>1, <1>9 DEF Compare, Goto, GotoAt, Failed, Abandon, Alone, planVars
<1>10. CASE Replace(p)
  BY <1>1, <1>2, <1>10 DEF Replace, Goto, Alone, planVars
<1>11. CASE Record(p)
  BY <1>1, <1>11 DEF Record, Goto, GotoAt, Failed, Abandon, Alone, planVars
<1>12. CASE Verify(p)
  BY <1>1, <1>12 DEF Verify, Goto, GotoAt, Alone, planVars
<1>13. CASE Finalize(p)
  BY <1>1, <1>13 DEF Finalize, Goto, GotoAt, Undo, PromoteSetup, FindPlugin, Alone, planVars
<1>14. CASE Install(p)
  BY <1>1, <1>14 DEF Install, Goto, Alone, planVars
<1>15. CASE Confirm(p)
  BY <1>1, <1>15 DEF Confirm, Goto, GotoAt, Undo, Alone, planVars
<1>16. CASE UndoFile(p)
  BY <1>1, <1>16 DEF UndoFile, Goto, GotoAt, Alone, planVars
<1>17. CASE Restore(p)
  BY <1>1, <1>2, <1>17 DEF Restore, Goto, GotoAt, Alone, planVars
<1>18. CASE Unlock(p)
  BY <1>1, <1>18 DEF Unlock, Goto, Alone, planVars
<1>19. CASE Kill(p)
  BY <1>1, <1>19 DEF Kill, Goto, Alone, planVars
<1> QED
  BY <1>3, <1>4, <1>5, <1>6, <1>7, <1>8, <1>9, <1>10, <1>11, <1>12, <1>13, <1>14, <1>15, <1>16, <1>17, <1>18, <1>19 DEF Step

-----------------------------------------------------------------------------
(* A rollback that reports no conflict.                                    *)

\* The files changed are among the first of the plan.
UpTo(p, n) == \A f \in changed[p] : \E i \in 1 .. n : f = Plan[p][i]

\* Those changed after a place in the plan are as they were.
Undone(p) ==
    \A i \in 1 .. Len(Plan[p]) :
        i > at[p] /\ Plan[p][i] \in changed[p] => disk[Plan[p][i]] = orig[p][Plan[p][i]]

Before == {"read", "snapshot", "lock"}
Forward == {"apply", "compare", "replace"} \cup Passed
Back == {"undo", "restore"}

Tidy(p) ==
    /\ changed[p] \subseteq InPlan(p)
    /\ pc[p] \in Before => changed[p] = {}
    /\ pc[p] \in Forward => UpTo(p, at[p] - 1)
    /\ pc[p] = "record" => UpTo(p, at[p])
    /\ pc[p] \in Before \cup Forward \cup {"record"} => outcome[p] = "none"
    /\ pc[p] \in Back => outcome[p] \in {"none", "incomplete"}
    /\ pc[p] \in Back /\ outcome[p] = "none" /\ edits = 0 => Undone(p)
    /\ pc[p] = "unlock" /\ outcome[p] = "failed" /\ edits = 0 => \A f \in changed[p] : disk[f] = orig[p][f]

\* What a rollback starts from: nothing past the first n is changed.
LEMMA NothingPast ==
    ASSUME NEW p \in Procs, NEW n \in Nat, UpTo(p, n), NEW i \in 1 .. Len(Plan[p]), i > n, n <= Len(Plan[p])
    PROVE  Plan[p][i] \notin changed[p]
<1>1. ASSUME Plan[p][i] \in changed[p] PROVE FALSE
  <2>1. PICK j \in 1 .. n : Plan[p][i] = Plan[p][j]
    BY <1>1 DEF UpTo
  <2>2. i \in DOMAIN Plan[p] /\ j \in DOMAIN Plan[p]
    BY PlanFacts
  <2>3. i = j
    BY <2>1, <2>2, DistinctAssumption
  <2> QED
    BY <2>3
<1> QED
  BY <1>1

\* A step forward: the files stay, and so does what was changed.
LEMMA GoesOn ==
    ASSUME NEW p \in Procs, Tidy(p), NEW n \in Nat, NEW k \in Nat, UpTo(p, n), n <= k,
           changed'[p] = changed[p], outcome'[p] = outcome[p], outcome[p] = "none",
           \/ pc'[p] \in Forward /\ at'[p] - 1 = k
           \/ pc'[p] = "record" /\ at'[p] = k
    PROVE  Tidy(p)'
<1>1. UpTo(p, k)'
  BY DEF UpTo
<1>2. pc'[p] \notin Before \cup Back \cup {"unlock"}
  BY DEF Forward, Before, Back, Passed
<1>3. InPlan(p)' = InPlan(p)
  BY DEF InPlan
<1>4. "record" \notin Forward
  BY DEF Forward, Passed
<1> QED
  BY <1>1, <1>2, <1>3, <1>4 DEF Tidy

\* A step into or within the rollback.
LEMMA TurnsBack ==
    ASSUME NEW p \in Procs, pc'[p] \in Back, changed'[p] \subseteq InPlan(p),
           outcome'[p] \in {"none", "incomplete"}, Undone(p)' \/ outcome'[p] # "none"
    PROVE  Tidy(p)'
<1>1. pc'[p] \notin Before \cup Forward \cup {"record", "unlock"}
  BY DEF Forward, Before, Back, Passed
<1>2. InPlan(p)' = InPlan(p)
  BY DEF InPlan
<1> QED
  BY <1>1, <1>2 DEF Tidy

\* A failure of which nothing was written turns back before its file, any
\* other with it.
LEMMA FailureTidy ==
    ASSUME IInv, NEW p \in Procs, Tidy(p), pc[p] \in {"apply", "compare", "record"},
           NEW b \in BOOLEAN, Failed(p, b),
           (b = TRUE /\ pc[p] = "record") => disk[Cur(p)] = orig[p][Cur(p)],
           UNCHANGED <<disk, orig, outcome>>
    PROVE  Tidy(p)'
<1>1. /\ at[p] \in 1 .. Len(Plan[p]) /\ Len(Plan[p]) \in Nat /\ Cur(p) \in Files /\ Cur(p) \in InPlan(p)
      /\ Cur(p) = Plan[p][at[p]]
  BY CurIsLocked, PlanFacts DEF IInv, Placed, Inside, Outside, Cur
<1>2. pc \in [Procs -> Phases] /\ at \in [Procs -> Nat] /\ changed \in [Procs -> SUBSET Files]
  BY DEF IInv, TypeOK
<1>3. /\ changed[p] \subseteq InPlan(p) /\ outcome'[p] = "none" /\ UpTo(p, at[p])
      /\ pc[p] # "record" => UpTo(p, at[p] - 1)
  <2>1. changed[p] \subseteq InPlan(p) /\ outcome'[p] = "none"
    BY DEF Tidy, Forward
  <2>2. pc[p] # "record" => UpTo(p, at[p] - 1)
    BY DEF Tidy, Forward
  <2>3. pc[p] = "record" => UpTo(p, at[p])
    BY DEF Tidy
  <2>4. UpTo(p, at[p] - 1) => UpTo(p, at[p])
    BY <1>1 DEF UpTo
  <2> QED
    BY <2>1, <2>2, <2>3, <2>4
<1>4. CASE b = TRUE
  <2>1. pc'[p] = "undo" /\ at'[p] = at[p] - 1 /\ changed' = changed
    BY <1>2, <1>4 DEF Failed, Goto, GotoAt
  <2>2. ASSUME NEW i \in 1 .. Len(Plan[p]), i > at[p] - 1, Plan[p][i] \in changed[p]
        PROVE  disk[Plan[p][i]] = orig[p][Plan[p][i]]
    <3>1. i = at[p]
      BY <1>1, <1>3, <2>2, NothingPast
    <3>2. pc[p] = "record"
      <4>1. ASSUME UpTo(p, at[p] - 1) PROVE FALSE
        BY <1>1, <2>2, <4>1, NothingPast
      <4> QED
        BY <1>3, <4>1
    <3> QED
      BY <1>1, <1>4, <3>1, <3>2
  <2>3. Undone(p)'
    BY <1>1, <2>1, <2>2 DEF Undone
  <2> QED
    BY <1>3, <2>1, <2>3, TurnsBack DEF Back
<1>5. CASE b = FALSE
  <2>1. pc'[p] = "undo" /\ at'[p] = at[p] /\ changed'[p] = changed[p] \cup {Cur(p)}
    BY <1>2, <1>5 DEF Failed, Goto
  <2>2. ASSUME NEW i \in 1 .. Len(Plan[p]), i > at[p] PROVE Plan[p][i] \notin changed'[p]
    <3>1. Plan[p][i] \notin changed[p]
      BY <1>1, <1>3, <2>2, NothingPast
    <3>2. Plan[p][i] # Plan[p][at[p]]
      BY <1>1, <2>2, PlanFacts, DistinctAssumption
    <3> QED
      BY <1>1, <2>1, <3>1, <3>2
  <2>3. Undone(p)'
    BY <2>1, <2>2 DEF Undone
  <2> QED
    BY <1>1, <1>3, <2>1, <2>3, TurnsBack DEF Back
<1> QED
  BY <1>4, <1>5

\* A verification that fails undoes everything the batch has changed.
LEMMA UndoTidy ==
    ASSUME IInv, NEW p \in Procs, Tidy(p), pc[p] \in Passed, Moved(p, "undo", at[p] - 1),
           UNCHANGED <<disk, orig, changed>>, outcome'[p] \in {"none", "incomplete"}
    PROVE  Tidy(p)'
<1>1. at[p] \in 1 .. (Len(Plan[p]) + 1) /\ Len(Plan[p]) \in Nat /\ UpTo(p, at[p] - 1) /\ changed[p] \subseteq InPlan(p)
  BY PlanFacts DEF IInv, Placed, Tidy, Forward
<1>2. pc'[p] = "undo" /\ at'[p] = at[p] - 1
  BY DEF Moved, IInv, TypeOK
<1>3. ASSUME NEW i \in 1 .. Len(Plan[p]), i > at[p] - 1 PROVE Plan[p][i] \notin changed[p]
  <2>1. at[p] - 1 \in Nat /\ at[p] - 1 <= Len(Plan[p])
    BY <1>1
  <2> QED
    BY <1>1, <1>3, <2>1, NothingPast
<1>4. Undone(p)'
  BY <1>2, <1>3 DEF Undone
<1> QED
  BY <1>1, <1>2, <1>4, TurnsBack DEF Back

\* No step of a batch makes it forget what it has changed.
LEMMA StepTidy ==
    ASSUME IInv, NEW p \in Procs, Tidy(p), Step(p) \/ LockTimeout(p) \/ Kill(p)
    PROVE  Tidy(p)'
<1>1. /\ pc \in [Procs -> Phases] /\ at \in [Procs -> Nat] /\ disk \in [Files -> Contents]
      /\ changed \in [Procs -> SUBSET Files]
      /\ outcome \in [Procs -> {"none", "committed", "failed", "incomplete", "killed"}]
      /\ InPlan(p)' = InPlan(p) /\ Len(Plan[p]) \in Nat \ {0} /\ Placed(p)
  BY PlanFacts DEF IInv, TypeOK, InPlan
<1>2. CASE Read(p) \/ Snapshot(p)
  <2>1. /\ pc[p] \in Before /\ changed'[p] = changed[p] /\ outcome'[p] = outcome[p]
        /\ pc'[p] \in Before
    BY <1>1, <1>2 DEF Read, Snapshot, Goto, GotoAt, Before
  <2> QED
    BY <1>1, <2>1 DEF Tidy, Before, Forward, Back, Passed
<1>3. CASE Lock(p)
  <2>1. /\ pc[p] \in Before /\ changed' = changed /\ outcome' = outcome
        /\ pc'[p] \in Before \cup {"apply"} /\ at' = at
    BY <1>1, <1>3 DEF Lock, Goto, Before
  <2> QED
    BY <1>1, <2>1 DEF Tidy, UpTo, Before, Forward, Back, Passed
<1>4. CASE LockTimeout(p) \/ Kill(p) \/ Unlock(p)
  <2>1. pc'[p] = "done" /\ changed' = changed
    BY <1>1, <1>4 DEF LockTimeout, Kill, Unlock, Goto
  <2> QED
    BY <1>1, <2>1 DEF Tidy, Before, Forward, Back, Passed
<1>5. CASE Open(p)
  <2>1. /\ pc[p] \in Forward /\ UpTo(p, at[p] - 1) /\ outcome[p] = "none" /\ at[p] \in 1 .. Len(Plan[p])
    BY <1>1, <1>5 DEF Open, Tidy, Forward, Placed, Inside
  <2>2. changed' = changed /\ outcome' = outcome
    BY <1>5 DEF Open
  <2>3. \/ pc'[p] = "verify" /\ at'[p] = at[p] + 1
        \/ pc'[p] = "compare" /\ at'[p] = at[p]
    BY <1>1, <1>5 DEF Open, Goto, GotoAt
  <2>4. at[p] \in Nat /\ at[p] - 1 \in Nat
    BY <2>1
  <2>5. CASE pc'[p] = "verify" /\ at'[p] = at[p] + 1
    BY <2>1, <2>2, <2>4, <2>5, GoesOn DEF Forward, Passed
  <2>6. CASE pc'[p] = "compare" /\ at'[p] = at[p]
    BY <2>1, <2>2, <2>4, <2>6, GoesOn DEF Forward, Passed
  <2> QED
    BY <2>3, <2>5, <2>6
<1>6. CASE ChangedSincePreflight(p)
  <2>1. /\ pc[p] = "apply" /\ UpTo(p, at[p] - 1) /\ outcome[p] = "none" /\ at[p] \in 1 .. Len(Plan[p])
    BY <1>1, <1>6 DEF ChangedSincePreflight, Tidy, Forward, Placed, Inside
  <2>2. UNCHANGED <<disk, orig, outcome>>
    BY <1>6 DEF ChangedSincePreflight, planVars
  <2>3. \/ Failed(p, FALSE)
        \/ pc'[p] = "verify" /\ at'[p] = at[p] + 1 /\ changed' = changed
    BY <1>1, <1>6 DEF ChangedSincePreflight, Goto, GotoAt
  <2>4. CASE Failed(p, FALSE)
    BY <2>1, <2>2, <2>4, FailureTidy
  <2>5. CASE pc'[p] = "verify" /\ at'[p] = at[p] + 1 /\ changed' = changed
    <3>1. at[p] \in Nat /\ at[p] - 1 \in Nat
      BY <2>1
    <3> QED
      BY <2>1, <2>2, <2>5, <3>1, GoesOn DEF Forward, Passed
  <2> QED
    BY <2>3, <2>4, <2>5
<1>7. CASE Compare(p)
  <2>1. /\ pc[p] = "compare" /\ UpTo(p, at[p] - 1) /\ outcome[p] = "none" /\ at[p] \in 1 .. Len(Plan[p])
    BY <1>1, <1>7 DEF Compare, Tidy, Forward, Placed, Inside
  <2>2. UNCHANGED <<disk, orig, outcome>>
    BY <1>7 DEF Compare, Abandon, planVars
  <2>3. \/ \E b \in BOOLEAN : Failed(p, b)
        \/ pc'[p] = "replace" /\ at' = at /\ changed' = changed
    BY <1>1, <1>7 DEF Compare, Abandon, Goto
  <2>4. CASE \E b \in BOOLEAN : Failed(p, b)
    BY <2>1, <2>2, <2>4, FailureTidy
  <2>5. CASE pc'[p] = "replace" /\ at' = at /\ changed' = changed
    <3>1. at[p] \in Nat /\ at[p] - 1 \in Nat
      BY <2>1
    <3> QED
      BY <2>1, <2>2, <2>5, <3>1, GoesOn DEF Forward, Passed
  <2> QED
    BY <2>3, <2>4, <2>5
<1>8. CASE Replace(p)
  <2>1. /\ UpTo(p, at[p] - 1) /\ outcome[p] = "none" /\ at[p] \in 1 .. Len(Plan[p])
        /\ changed[p] \subseteq InPlan(p) /\ Cur(p) \in InPlan(p) /\ Cur(p) = Plan[p][at[p]]
    BY <1>1, <1>8, CurIsLocked DEF Replace, Tidy, Forward, Placed, Inside, Outside, Cur
  <2>2. pc'[p] = "record" /\ at' = at /\ outcome' = outcome /\ changed'[p] = changed[p] \cup {Cur(p)}
    BY <1>1, <1>8 DEF Replace, Goto
  <2>3. UpTo(p, at[p])'
    BY <2>1, <2>2 DEF UpTo
  <2> QED
    BY <1>1, <2>1, <2>2, <2>3 DEF Tidy, Before, Forward, Back, Passed
<1>9. CASE Record(p)
  <2>1. /\ pc[p] = "record" /\ UpTo(p, at[p]) /\ outcome[p] = "none" /\ at[p] \in 1 .. Len(Plan[p])
    BY <1>1, <1>9 DEF Record, Tidy, Placed, Inside
  <2>2. UNCHANGED <<disk, orig, outcome>>
    BY <1>9 DEF Record, Abandon, planVars
  <2>3. \/ Failed(p, disk[Cur(p)] = orig[p][Cur(p)])
        \/ pc'[p] = "verify" /\ at'[p] = at[p] + 1 /\ changed' = changed
    BY <1>1, <1>9 DEF Record, Abandon, Goto, GotoAt
  <2>4. CASE Failed(p, disk[Cur(p)] = orig[p][Cur(p)])
    <3>1. CASE disk[Cur(p)] = orig[p][Cur(p)]
      <4>1. Failed(p, TRUE)
        BY <2>4, <3>1 DEF Failed
      <4> QED
        BY <2>1, <2>2, <3>1, <4>1, FailureTidy
    <3>2. CASE disk[Cur(p)] # orig[p][Cur(p)]
      <4>1. Failed(p, FALSE)
        BY <2>4, <3>2 DEF Failed
      <4> QED
        BY <2>1, <2>2, <4>1, FailureTidy
    <3> QED
      BY <3>1, <3>2
  <2>5. CASE pc'[p] = "verify" /\ at'[p] = at[p] + 1 /\ changed' = changed
    <3>1. at[p] \in Nat
      BY <2>1
    <3> QED
      BY <2>1, <2>2, <2>5, <3>1, GoesOn DEF Forward, Passed
  <2> QED
    BY <2>3, <2>4, <2>5
<1>10. CASE Verify(p) \/ Finalize(p) \/ Install(p) \/ Confirm(p)
  <2>1. /\ pc[p] \in Passed /\ UpTo(p, at[p] - 1) /\ outcome[p] = "none"
        /\ at[p] \in 1 .. (Len(Plan[p]) + 1)
    BY <1>1, <1>10 DEF Verify, Finalize, Install, Confirm, Passed, Tidy, Forward, Placed
  <2>2. UNCHANGED <<disk, orig, changed>>
    BY <1>10 DEF Verify, Finalize, Install, Confirm, planVars
  <2>3. \/ Moved(p, "undo", at[p] - 1) /\ outcome'[p] \in {"none", "incomplete"}
        \/ pc'[p] \in Forward /\ at' = at /\ outcome' = outcome
        \/ pc'[p] = "unlock" /\ outcome'[p] = "committed"
    <3>1. CASE Verify(p)
      BY <1>1, <2>1, <3>1 DEF Verify, Moved, Goto, GotoAt, Forward, Passed
    <3>2. CASE Finalize(p)
      BY <1>1, <2>1, <3>2 DEF Finalize, PromoteSetup, FindPlugin, Undo, Moved, Goto, GotoAt, Forward, Passed
    <3>3. CASE Install(p)
      BY <1>1, <3>3 DEF Install, Goto, Forward, Passed
    <3>4. CASE Confirm(p)
      BY <1>1, <2>1, <3>4 DEF Confirm, Undo, Moved, Goto, GotoAt
    <3> QED
      BY <1>10, <3>1, <3>2, <3>3, <3>4
  <2>4. CASE Moved(p, "undo", at[p] - 1) /\ outcome'[p] \in {"none", "incomplete"}
    BY <2>1, <2>2, <2>4, UndoTidy
  <2>5. CASE pc'[p] \in Forward /\ at' = at /\ outcome' = outcome
    <3>1. at[p] \in Nat /\ at[p] - 1 \in Nat
      BY <2>1
    <3> QED
      BY <2>1, <2>2, <2>5, <3>1, GoesOn
  <2>6. CASE pc'[p] = "unlock" /\ outcome'[p] = "committed"
    BY <1>1, <2>2, <2>6 DEF Tidy, Before, Forward, Back, Passed
  <2> QED
    BY <2>3, <2>4, <2>5, <2>6
<1>11. CASE UndoFile(p)
  <2>1. /\ pc[p] = "undo" /\ changed[p] \subseteq InPlan(p) /\ outcome[p] \in {"none", "incomplete"}
        /\ at[p] \in 0 .. Len(Plan[p]) /\ (outcome[p] = "none" /\ edits = 0 => Undone(p))
    BY <1>1, <1>11 DEF UndoFile, Tidy, Back, Placed
  <2>2. UNCHANGED <<disk, orig, changed, edits>>
    BY <1>11 DEF UndoFile, planVars
  <2>3. CASE at[p] = 0
    <3>1. /\ pc'[p] = "unlock" /\ outcome'[p] = IF outcome[p] = "none" THEN "failed" ELSE outcome[p]
      BY <1>1, <1>11, <2>3 DEF UndoFile, Goto
    <3>2. ASSUME NEW f \in changed[p], outcome'[p] = "failed", edits = 0 PROVE disk[f] = orig[p][f]
      <4>1. PICK i \in 1 .. Len(Plan[p]) : f = Plan[p][i]
        BY <2>1, <3>2, PlanFacts DEF InPlan
      <4>2. Undone(p)
        BY <2>1, <3>1, <3>2
      <4> QED
        BY <2>3, <3>2, <4>1, <4>2 DEF Undone
    <3> QED
      BY <1>1, <2>1, <2>2, <3>1, <3>2 DEF Tidy, Before, Forward, Back, Passed
  <2>4. CASE at[p] > 0
    <3>1. Cur(p) = Plan[p][at[p]] /\ at[p] - 1 \in Nat
      BY <2>1, <2>4 DEF Cur
    <3>2. \/ Cur(p) \notin changed[p] /\ pc'[p] = "undo" /\ at'[p] = at[p] - 1 /\ outcome'[p] = outcome[p]
          \/ pc'[p] = "undo" /\ outcome'[p] = "incomplete"
          \/ pc'[p] = "restore" /\ at'[p] = at[p] /\ outcome'[p] = outcome[p]
      BY <1>1, <1>11, <2>1, <2>4 DEF UndoFile, Goto, GotoAt
    <3>3. \/ outcome'[p] # "none"
          \/ edits # 0
          \/ Undone(p)'
      <4>1. CASE Cur(p) \notin changed[p] /\ at'[p] = at[p] - 1 /\ outcome'[p] = outcome[p]
        BY <2>1, <2>2, <3>1, <4>1 DEF Undone
      <4>2. CASE at'[p] = at[p] /\ outcome'[p] = outcome[p]
        BY <2>1, <2>2, <4>2 DEF Undone
      <4> QED
        BY <3>2, <4>1, <4>2
    <3> QED
      BY <1>1, <2>1, <2>2, <3>2, <3>3 DEF Tidy, Before, Forward, Back, Passed
  <2> QED
    BY <2>1, <2>3, <2>4
<1>12. CASE Restore(p)
  <2>1. /\ pc[p] = "restore" /\ changed[p] \subseteq InPlan(p) /\ outcome[p] \in {"none", "incomplete"}
        /\ at[p] \in 1 .. Len(Plan[p]) /\ (outcome[p] = "none" /\ edits = 0 => Undone(p))
    BY <1>1, <1>12 DEF Restore, Tidy, Back, Placed, Inside
  <2>2. /\ pc'[p] = "undo" /\ at'[p] = at[p] - 1
        /\ UNCHANGED <<orig, changed, outcome, edits>> /\ disk' = [disk EXCEPT ![Cur(p)] = orig[p][Cur(p)]]
    BY <1>1, <1>12 DEF Restore, Goto, GotoAt, planVars
  <2>3. Undone(p) => Undone(p)'
    <3> SUFFICES ASSUME Undone(p), NEW i \in 1 .. Len(Plan[p]), i > at[p] - 1, Plan[p][i] \in changed[p]
                 PROVE  disk'[Plan[p][i]] = orig[p][Plan[p][i]]
      BY <2>2 DEF Undone
    <3>1. Plan[p][i] \in Files /\ Cur(p) = Plan[p][at[p]]
      BY PlanFacts DEF Cur
    <3>2. CASE Plan[p][i] = Cur(p)
      BY <1>1, <2>2, <3>1, <3>2
    <3>3. CASE Plan[p][i] # Cur(p)
      <4>1. i > at[p]
        BY <2>1, <3>1, <3>3
      <4> QED
        BY <1>1, <2>2, <3>1, <3>3, <4>1 DEF Undone
    <3> QED
      BY <3>2, <3>3
  <2> QED
    BY <1>1, <2>1, <2>2, <2>3 DEF Tidy, Before, Forward, Back, Passed
<1> QED
  BY <1>2, <1>3, <1>4, <1>5, <1>6, <1>7, <1>8, <1>9, <1>10, <1>11, <1>12 DEF Step

\* Nor does a step of somebody else.
LEMMA TidyKept ==
    ASSUME IInv, \A p \in Procs : Tidy(p), [Next]_vars
    PROVE  (\A p \in Procs : Tidy(p))'
<1>1. ASSUME NEW p \in Procs, Step(p) \/ LockTimeout(p) \/ Kill(p), NEW q \in Procs PROVE Tidy(q)'
  <2>1. CASE q = p
    BY <1>1, <2>1, StepTidy
  <2>2. CASE q # p
    <3>1. /\ pc'[q] = pc[q] /\ at'[q] = at[q] /\ orig'[q] = orig[q] /\ changed'[q] = changed[q]
          /\ outcome'[q] = outcome[q] /\ edits' = edits /\ InPlan(q)' = InPlan(q)
          /\ \A f \in Files : disk'[f] # disk[f] => lock[f] = p
      BY <1>1, <2>2, EachAlone DEF Alone, InPlan
    <3>2. pc[q] \in Working => \A f \in InPlan(q) : disk'[f] = disk[f]
      <4>1. pc[q] \in Working => \A f \in InPlan(q) : lock[f] = q
        BY DEF IInv, Holds
      <4>2. InPlan(q) \subseteq Files
        BY PlanFacts
      <4> QED
        BY <2>2, <3>1, <4>1, <4>2
    <3>3. changed[q] \subseteq InPlan(q) /\ Tidy(q)
      BY DEF Tidy
    <3>4. pc[q] \in Back => (Undone(q) => Undone(q)')
      BY <3>1, <3>2, PlanFacts DEF Undone, Back, Working, Phases
    <3>5. pc[q] = "unlock" => \A f \in changed[q] : disk'[f] = disk[f]
      BY <3>2, <3>3 DEF Working, Phases
    <3>6. \A n : UpTo(q, n) => UpTo(q, n)'
      BY <3>1 DEF UpTo
    <3> QED
      BY <3>1, <3>3, <3>4, <3>5, <3>6 DEF Tidy
  <2> QED
    BY <2>1, <2>2
<1>2. ASSUME NEW f \in Files, NEW c \in Contents, Edit(f, c), NEW q \in Procs PROVE Tidy(q)'
  <2>1. UNCHANGED <<pc, at, changed, outcome>> /\ edits' = edits + 1 /\ edits \in Nat
    BY <1>2 DEF Edit, IInv, TypeOK
  <2>2. edits' # 0
    BY <2>1
  <2> QED
    BY <2>1, <2>2 DEF Tidy, InPlan, UpTo
<1>3. ASSUME Uninstall \/ UNCHANGED vars, NEW q \in Procs PROVE Tidy(q)'
  <2>1. UNCHANGED <<disk, orig, pc, at, changed, outcome>> /\ (edits' = edits \/ edits' = edits + 1)
    BY <1>3 DEF Uninstall, vars, planVars
  <2>2. edits' = 0 => edits = 0
    BY <2>1 DEF IInv, TypeOK
  <2> QED
    BY <2>1, <2>2 DEF Tidy, InPlan, UpTo, Undone
<1> QED
  BY <1>1, <1>2, <1>3, NextCases DEF IInv

LEMMA TidyInit == Init => \A p \in Procs : Tidy(p)
BY DEF Init, Tidy, Before, Forward, Back, Passed

LEMMA AlwaysTidy == Spec => [](\A p \in Procs : Tidy(p))
BY TidyInit, TidyKept, Invariance, PTL DEF Spec

\* A batch that reports a complete rollback has put back every file that it
\* changed, however many batches are at work and however they end.
THEOREM RollbackIsComplete == Spec => []CleanFailure
<1>1. (\A p \in Procs : Tidy(p)) => CleanFailure
  BY DEF Tidy, CleanFailure
<1> QED
  BY <1>1, AlwaysTidy, PTL

-----------------------------------------------------------------------------
(* A replacement and a rollback know what they overwrite.                  *)

\* What a batch takes for its own it has replaced, or claims.
Sure(p) ==
    /\ pc[p] = "replace" /\ <<p, Cur(p)>> \notin racing => disk[Cur(p)] = orig[p][Cur(p)]
    /\ pc[p] = "record" => <<p, Cur(p)>> \in replaced
    /\ pc[p] = "restore" => Cur(p) \in changed[p]
    /\ pc[p] = "restore" /\ <<p, Cur(p)>> \notin racing => disk[Cur(p)] = written[p][Cur(p)]
    /\ \A f \in changed[p] : <<p, f>> \in replaced \/ written[p][f] = Claimed(p)

\* These phases have one entrance each, and what is changed is accounted for.
Entered(p) ==
    /\ pc'[p] = "replace" => disk[Cur(p)] = orig[p][Cur(p)] /\ UNCHANGED <<disk, orig, at>>
    /\ pc'[p] = "record" => <<p, Cur(p)>> \in replaced' /\ UNCHANGED at
    /\ pc'[p] = "restore" => /\ disk[Cur(p)] = written[p][Cur(p)] /\ Cur(p) \in changed[p]
                             /\ UNCHANGED <<disk, written, changed, at>>
    /\ replaced \subseteq replaced'
    /\ \A f \in changed'[p] : \/ f \in changed[p] /\ written'[p][f] = written[p][f]
                             \/ <<p, f>> \in replaced' \/ written'[p][f] = Claimed(p)

LEMMA Entrances ==
    ASSUME IInv, NEW p \in Procs, Tidy(p), pc[p] = "record" => <<p, Cur(p)>> \in replaced,
           Step(p) \/ LockTimeout(p) \/ Kill(p)
    PROVE  Entered(p)
<1>1. pc \in [Procs -> Phases] /\ written \in [Procs -> [Files -> Contents]] /\ changed \in [Procs -> SUBSET Files]
  BY DEF IInv, TypeOK
<1>2. ASSUME pc[p] = "apply" PROVE Cur(p) \notin changed[p]
  <2>1. /\ at[p] \in 1 .. Len(Plan[p]) /\ Len(Plan[p]) \in Nat /\ Cur(p) = Plan[p][at[p]]
        /\ UpTo(p, at[p] - 1)
    BY <1>2, PlanFacts DEF IInv, Placed, Inside, Cur, Tidy, Forward
  <2>2. at[p] - 1 \in Nat /\ at[p] > at[p] - 1 /\ at[p] - 1 <= Len(Plan[p])
    BY <2>1
  <2> QED
    BY <2>1, <2>2, NothingPast
<1>3. ASSUME pc[p] \in {"apply", "compare", "record"}, NEW b, Failed(p, b), UNCHANGED replaced
      PROVE  Entered(p)
  <2>1. pc'[p] = "undo" /\ Cur(p) \in Files
    BY <1>1, <1>3, CurIsLocked DEF Failed, Goto, GotoAt, Inside, Outside
  <2>2. \A f \in changed'[p] : \/ f \in changed[p] /\ written'[p][f] = written[p][f]
                               \/ written'[p][f] = Claimed(p)
    BY <1>1, <1>3, <2>1 DEF Failed
  <2> QED
    BY <1>3, <2>1, <2>2 DEF Entered
<1>4. CASE Read(p)
  BY <1>1, <1>4 DEF Read, Goto, planVars, Entered
<1>5. CASE Snapshot(p)
  BY <1>1, <1>5 DEF Snapshot, Goto, GotoAt, planVars, Entered
<1>6. CASE Lock(p)
  BY <1>1, <1>6 DEF Lock, Goto, planVars, Entered
<1>7. CASE LockTimeout(p)
  BY <1>1, <1>7 DEF LockTimeout, Goto, planVars, Entered
<1>8. CASE Open(p)
  <2>1. pc'[p] \in {"verify", "compare"} /\ changed' = changed /\ replaced' = replaced
    BY <1>1, <1>8 DEF Open, Goto, GotoAt
  <2>2. \A f \in changed[p] : written'[p][f] = written[p][f]
    BY <1>1, <1>2, <1>8 DEF Open
  <2> QED
    BY <2>1, <2>2 DEF Entered
<1>9. CASE ChangedSincePreflight(p)
  <2>1. CASE Removes(p) /\ orig[p][Cur(p)] = Absent
    <3>1. pc'[p] = "verify" /\ changed' = changed /\ replaced' = replaced
      BY <1>1, <1>9, <2>1 DEF ChangedSincePreflight, Goto, GotoAt
    <3>2. \A f \in changed[p] : written'[p][f] = written[p][f]
      BY <1>1, <1>2, <1>9, <2>1 DEF ChangedSincePreflight
    <3> QED
      BY <3>1, <3>2 DEF Entered
  <2>2. CASE ~ (Removes(p) /\ orig[p][Cur(p)] = Absent)
    BY <1>3, <1>9, <2>2 DEF ChangedSincePreflight
  <2> QED
    BY <2>1, <2>2
<1>10. CASE Compare(p)
  <2>1. CASE Goto(p, "replace") /\ disk[Cur(p)] = orig[p][Cur(p)] /\ UNCHANGED <<disk, orig, at, written, changed, replaced>>
    BY <1>1, <2>1 DEF Goto, Entered
  <2>2. ASSUME NEW b, Abandon(p, b), pc[p] = "compare" PROVE Entered(p)
    BY <1>3, <2>2 DEF Abandon
  <2> QED
    BY <1>10, <2>1, <2>2 DEF Compare, planVars
<1>11. CASE Replace(p)
  <2>1. pc'[p] = "record" /\ at' = at /\ replaced' = replaced \cup {<<p, Cur(p)>>} /\ written' = written
    BY <1>1, <1>11 DEF Replace, Goto
  <2>2. changed'[p] = changed[p] \cup {Cur(p)}
    BY <1>1, <1>11 DEF Replace
  <2> QED
    BY <2>1, <2>2 DEF Entered
<1>12. CASE Record(p)
  <2>1. ASSUME NEW b, Abandon(p, b), pc[p] = "record" PROVE Entered(p)
    BY <1>3, <2>1 DEF Abandon
  <2>2. ASSUME NEW c, written' = [written EXCEPT ![p][Cur(p)] = c], GotoAt(p, "verify", at[p] + 1),
               UNCHANGED <<changed, replaced>>, <<p, Cur(p)>> \in replaced
        PROVE  Entered(p)
    <3>1. pc'[p] = "verify" /\ \A f \in changed[p] : f # Cur(p) => written'[p][f] = written[p][f]
      BY <1>1, <2>2 DEF GotoAt, Goto
    <3> QED
      BY <2>2, <3>1 DEF Entered
  <2> QED
    BY <1>12, <2>1, <2>2 DEF Record
<1>13. CASE Verify(p)
  BY <1>1, <1>13 DEF Verify, Goto, GotoAt, planVars, Entered
<1>14. CASE Finalize(p)
  BY <1>1, <1>14 DEF Finalize, Goto, GotoAt, Undo, PromoteSetup, FindPlugin, planVars, Entered
<1>15. CASE Install(p)
  BY <1>1, <1>15 DEF Install, Goto, planVars, Entered
<1>16. CASE Confirm(p)
  BY <1>1, <1>16 DEF Confirm, Goto, GotoAt, Undo, planVars, Entered
<1>17. CASE UndoFile(p)
  BY <1>1, <1>17 DEF UndoFile, Goto, GotoAt, planVars, Entered
<1>18. CASE Restore(p)
  BY <1>1, <1>18 DEF Restore, Goto, GotoAt, planVars, Entered
<1>19. CASE Unlock(p)
  BY <1>1, <1>19 DEF Unlock, Goto, planVars, Entered
<1>20. CASE Kill(p)
  BY <1>1, <1>20 DEF Kill, Goto, planVars, Entered
<1> QED
  BY <1>4, <1>5, <1>6, <1>7, <1>8, <1>9, <1>10, <1>11, <1>12, <1>13, <1>14, <1>15, <1>16, <1>17, <1>18, <1>19, <1>20 DEF Step

LEMMA SureKept ==
    ASSUME IInv, \A p \in Procs : Tidy(p), \A p \in Procs : Sure(p), [Next]_vars
    PROVE  \A p \in Procs : Sure(p)'
<1>1. /\ changed \in [Procs -> SUBSET Files] /\ disk \in [Files -> Contents]
      /\ \A q \in Procs : pc[q] \in {"replace", "record", "restore"} => Cur(q) \in Files /\ lock[Cur(q)] = q
  BY CurIsLocked DEF IInv, TypeOK, Inside, Outside
<1>2. ASSUME NEW p \in Procs, Step(p) \/ LockTimeout(p) \/ Kill(p), NEW q \in Procs PROVE Sure(q)'
  <2>1. Alone(p)
    BY <1>2, EachAlone
  <2>2. CASE q = p
    <3>1. Entered(p)
      BY <1>2, Entrances DEF Sure
    <3>2. Claimed(p)' = Claimed(p) /\ (at' = at => Cur(p)' = Cur(p))
      BY DEF Claimed, Removes, Cur
    <3>3. \A f \in changed'[p] : <<p, f>> \in replaced' \/ written'[p][f] = Claimed(p)
      BY <3>1 DEF Entered, Sure
    <3> HIDE DEF Claimed
    <3> QED
      BY <2>2, <3>1, <3>2, <3>3 DEF Sure, Entered
  <2>3. CASE q # p
    <3>1. /\ pc'[q] = pc[q] /\ orig'[q] = orig[q] /\ written'[q] = written[q] /\ changed'[q] = changed[q]
          /\ racing' = racing /\ Cur(q)' = Cur(q) /\ Claimed(q)' = Claimed(q)
      BY <2>1, <2>3 DEF Alone, Cur, Claimed, Removes
    <3>2. pc[q] \in {"replace", "restore"} => disk'[Cur(q)] = disk[Cur(q)]
      BY <1>1, <2>1, <2>3 DEF Alone
    <3>3. \A f \in Files : <<q, f>> \in replaced' <=> <<q, f>> \in replaced
      BY <2>1, <2>3 DEF Alone
    <3>4. changed[q] \subseteq Files
      BY <1>1
    <3> HIDE DEF Claimed
    <3> QED
      BY <1>1, <3>1, <3>2, <3>3, <3>4 DEF Sure
  <2> QED
    BY <2>2, <2>3
<1>3. ASSUME NEW f \in Files, NEW c \in Contents, Edit(f, c), NEW q \in Procs PROVE Sure(q)'
  <2>1. /\ UNCHANGED <<pc, at, orig, written, changed, replaced>>
        /\ disk' = [disk EXCEPT ![f] = c] /\ racing \subseteq racing'
    BY <1>3 DEF Edit, planVars
  <2>2. Cur(q)' = Cur(q) /\ Claimed(q)' = Claimed(q)
    BY <2>1 DEF Cur, Claimed, Removes
  <2>3. ASSUME pc[q] \in {"replace", "restore"}, <<q, Cur(q)>> \notin racing' PROVE disk'[Cur(q)] = disk[Cur(q)]
    <3>1. at[q] \in DOMAIN Plan[q]
      BY <2>3, PlanFacts DEF IInv, Placed, Inside
    <3>2. Cur(q) # f
      BY <1>3, <2>3, <3>1 DEF Edit, Blind
    <3> QED
      BY <1>1, <2>1, <2>3, <3>2
  <2> HIDE DEF Claimed
  <2> QED
    BY <2>1, <2>2, <2>3 DEF Sure
<1>4. ASSUME Uninstall \/ UNCHANGED vars, NEW q \in Procs PROVE Sure(q)'
  <2>1. UNCHANGED <<disk, pc, at, orig, written, changed, racing, replaced>>
    BY <1>4 DEF Uninstall, vars, planVars
  <2> QED
    BY <2>1 DEF Sure, Cur, Claimed, Removes
<1> QED
  BY <1>2, <1>3, <1>4, NextCases DEF IInv

\* Whatever other batches and editors do, what a replacement overwrites is
\* what the batch saw, and what a rollback overwrites the batch wrote itself,
\* but for an edit after the last comparison and for what is, byte for byte,
\* what the batch was to write.
THEOREM NothingLost == Spec => []NoSilentLoss
<1>1. Init => \A p \in Procs : Sure(p)
  BY DEF Init, Sure
<1>2. IInv /\ (\A p \in Procs : Tidy(p)) /\ (\A p \in Procs : Sure(p)) /\ [Next]_vars => (\A p \in Procs : Sure(p))'
  BY SureKept
<1>3. (\A p \in Procs : Sure(p)) => NoSilentLoss
  <2> SUFFICES ASSUME \A p \in Procs : Sure(p) PROVE NoSilentLoss
    OBVIOUS
  <2>1. ASSUME NEW p \in Procs, pc[p] = "replace", <<p, Cur(p)>> \notin racing
        PROVE  disk[Cur(p)] = orig[p][Cur(p)]
    BY <2>1 DEF Sure
  <2>2. ASSUME NEW p \in Procs, pc[p] = "restore", <<p, Cur(p)>> \notin racing
        PROVE  \/ <<p, Cur(p)>> \in replaced /\ disk[Cur(p)] = written[p][Cur(p)]
               \/ disk[Cur(p)] = Claimed(p)
    <3> HIDE DEF Claimed
    <3> QED
      BY <2>2 DEF Sure
  <2> QED
    BY <2>1, <2>2 DEF NoSilentLoss, Claimed
<1>4. Spec => [](\A p \in Procs : Sure(p))
  BY <1>1, <1>2, AlwaysTidy, Invariance, PTL DEF Spec
<1> QED
  BY <1>3, <1>4, PTL

-----------------------------------------------------------------------------
(* A plugin installed globally goes with its batch.                        *)

Installing(p) ==
    /\ pc[p] \in Before \cup Forward \cup {"record"} /\ pc[p] # "confirm" => p \notin promoted
    /\ p \in promoted /\ Final[p] = "plugin" =>
         pc[p] = "confirm" \/ outcome[p] \in {"incomplete", "committed", "killed"}

LEMMA StepInstalling ==
    ASSUME IInv, NEW p \in Procs, Tidy(p), \A q \in Procs : Installing(q),
           Step(p) \/ LockTimeout(p) \/ Kill(p)
    PROVE  \A q \in Procs : Installing(q)'
<1>1. /\ pc \in [Procs -> Phases] /\ promoted \subseteq Procs /\ Installing(p)
      /\ outcome \in [Procs -> {"none", "committed", "failed", "incomplete", "killed"}]
  BY DEF IInv, TypeOK
<1>2. CASE Read(p)
  BY <1>1, <1>2 DEF Read, Goto, Installing, Before, Forward, Passed
<1>3. CASE Snapshot(p)
  BY <1>1, <1>3 DEF Snapshot, Goto, GotoAt, Installing, Before, Forward, Passed
<1>4. CASE Lock(p)
  BY <1>1, <1>4 DEF Lock, Goto, Installing, Before, Forward, Passed
<1>5. CASE LockTimeout(p)
  BY <1>1, <1>5 DEF LockTimeout, Goto, Installing, Before, Forward, Passed
<1>6. CASE Open(p)
  BY <1>1, <1>6 DEF Open, Goto, GotoAt, Installing, Before, Forward, Passed
<1>7. CASE ChangedSincePreflight(p)
  BY <1>1, <1>7 DEF ChangedSincePreflight, Goto, GotoAt, Failed, Installing, Before, Forward, Passed
<1>8. CASE Compare(p)
  BY <1>1, <1>8 DEF Compare, Goto, GotoAt, Failed, Abandon, Installing, Before, Forward, Passed
<1>9. CASE Replace(p)
  BY <1>1, <1>9 DEF Replace, Goto, Installing, Before, Forward, Passed
<1>10. CASE Record(p)
  BY <1>1, <1>10 DEF Record, Goto, GotoAt, Failed, Abandon, Installing, Before, Forward, Passed
<1>11. CASE Verify(p)
  BY <1>1, <1>11 DEF Verify, Goto, GotoAt, Installing, Before, Forward, Passed
<1>12. CASE Finalize(p)
  BY <1>1, <1>12 DEF Finalize, Goto, GotoAt, Undo, PromoteSetup, FindPlugin, Installing, Before, Forward, Passed
<1>13. CASE Install(p)
  BY <1>1, <1>13 DEF Install, Goto, Installing, Before, Forward, Passed
<1>14. CASE Confirm(p)
  BY <1>1, <1>14 DEF Confirm, Goto, GotoAt, Undo, Installing, Before, Forward, Passed
<1>15. CASE UndoFile(p)
  BY <1>1, <1>15 DEF UndoFile, Goto, GotoAt, Installing, Before, Forward, Passed
<1>16. CASE Restore(p)
  BY <1>1, <1>16 DEF Restore, Goto, GotoAt, Installing, Before, Forward, Passed
<1>17. CASE Unlock(p)
  BY <1>1, <1>17 DEF Unlock, Goto, Installing, Before, Forward, Passed
<1>18. CASE Kill(p)
  BY <1>1, <1>18 DEF Kill, Goto, Installing, Before, Forward, Passed
<1>19. Installing(p)'
  BY <1>2, <1>3, <1>4, <1>5, <1>6, <1>7, <1>8, <1>9, <1>10, <1>11, <1>12, <1>13, <1>14, <1>15, <1>16, <1>17, <1>18 DEF Step
<1>20. ASSUME NEW q \in Procs, q # p PROVE Installing(q)'
  <2>1. pc'[q] = pc[q] /\ outcome'[q] = outcome[q]
    BY <1>20, EachAlone DEF Alone
  <2>2. q \in promoted' <=> q \in promoted
    BY <1>20 DEF Step, Read, Snapshot, Lock, LockTimeout, Open, ChangedSincePreflight, Compare, Replace, Record,
                 Verify, Finalize, PromoteSetup, FindPlugin, Install, Confirm, UndoFile, Restore, Unlock, Kill, Abandon
  <2> QED
    BY <2>1, <2>2 DEF Installing
<1> QED
  BY <1>19, <1>20

LEMMA InstallingKept ==
    ASSUME IInv, \A p \in Procs : Tidy(p), \A p \in Procs : Installing(p), [Next]_vars
    PROVE  (\A p \in Procs : Installing(p))'
<1>1. ASSUME NEW p \in Procs, Step(p) \/ LockTimeout(p) \/ Kill(p) PROVE \A q \in Procs : Installing(q)'
  BY <1>1, StepInstalling
<1>2. ASSUME \/ \E f \in Files, c \in Contents : Edit(f, c)
             \/ Uninstall \/ UNCHANGED vars
      PROVE  \A q \in Procs : Installing(q)'
  <2>1. UNCHANGED <<pc, outcome, promoted>>
    BY <1>2 DEF Edit, Uninstall, vars
  <2> QED
    BY <2>1 DEF Installing
<1> QED
  BY <1>1, <1>2, NextCases DEF IInv

LEMMA InstallingInit == Init => \A p \in Procs : Installing(p)
BY DEF Init, Installing

\* Whoever removes or replaces the plugin meanwhile: a global install that
\* failed, and says no more, has left none behind.
THEOREM InstallIsUndone == Spec => []NoHalfInstall
<1>1. IInv /\ (\A p \in Procs : Tidy(p)) /\ (\A p \in Procs : Installing(p)) => NoHalfInstall
  <2> SUFFICES ASSUME TypeOK, NEW p \in promoted, Tidy(p), Installing(p), Final[p] = "plugin", outcome[p] = "failed"
               PROVE  FALSE
    BY DEF IInv, TypeOK, NoHalfInstall
  <2>1. pc[p] = "confirm"
    BY DEF Installing
  <2> QED
    BY <2>1 DEF Tidy, Forward, Passed
<1>2. Spec => [](\A p \in Procs : Installing(p))
  BY InstallingInit, InstallingKept, AlwaysTidy, Invariance, PTL DEF Spec
<1> QED
  BY <1>1, <1>2, AlwaysTidy, Invariance, PTL

-----------------------------------------------------------------------------
(* Backups, which files of one name share.                                 *)

Backup(p, f) == <<Name[f], orig[p][f]>>

\* A batch that changes another file of the name has removed it.
Lost(p, f) == \E q \in Procs \ {p} : <<Backup(p, f), q>> \in dropped /\ Shares(q, f)

\* What p needs is there, and nobody at work takes it for its own unless it
\* changes another file of the name.
Relied(p, f) ==
    orig[p][f] # Absent =>
        \/ Lost(p, f)
        \/ /\ Backup(p, f) \in backups
           /\ \A q \in Procs \ {p} : Backup(p, f) \in mine[q] => pc[q] = "done" \/ Shares(q, f)

\* The batches that may still commit or have.
Counts(p) == pc[p] \in Forward \cup {"record"} \/ outcome[p] = "committed"

BackedUp ==
    /\ DOMAIN mine = Procs
    /\ \A p \in Procs :
        /\ mine[p] \subseteq backups
        /\ \A b \in mine[p] : \E f \in InPlan(p) : b[1] = Name[f]
        /\ pc[p] \in Before => mine[p] = {}
        /\ outcome[p] = "committed" => pc[p] \in {"unlock", "done"}
        /\ Counts(p) => \A f \in changed[p] : Relied(p, f)
        /\ pc[p] \in Doubled => Relied(p, Cur(p))
    /\ \A p, q \in Procs : p # q => mine[p] \cap mine[q] = {}

\* What a step does to the backups.
Untouched == UNCHANGED <<backups, mine, dropped>>

Added(p) ==
    /\ pc[p] = "apply" /\ orig[p][Cur(p)] = disk[Cur(p)]
    /\ backups' = backups \cup Copy(p)
    /\ mine' = [mine EXCEPT ![p] = @ \cup (Copy(p) \ backups)]
    /\ dropped' = dropped

Dropped(p) ==
    /\ pc[p] \in {"compare", "record", "undo", "restore"}
    /\ pc'[p] = "undo"
    /\ outcome'[p] # "committed"
    /\ backups' = backups \ OwnBackup(p)
    /\ mine' = [mine EXCEPT ![p] = @ \ OwnBackup(p)]
    /\ dropped' = dropped \cup (OwnBackup(p) \X {p})

LEMMA BackupSteps ==
    ASSUME IInv, NEW p \in Procs, Tidy(p), Step(p) \/ LockTimeout(p) \/ Kill(p)
    PROVE  Untouched \/ Added(p) \/ Dropped(p)
<1>1. /\ pc \in [Procs -> Phases]
      /\ outcome \in [Procs -> {"none", "committed", "failed", "incomplete", "killed"}]
  BY DEF IInv, TypeOK
<1>2. CASE Open(p)
  BY <1>2 DEF Open, Untouched, Added
<1>3. ASSUME NEW b, Abandon(p, b), pc[p] \in {"compare", "record"} PROVE Dropped(p)
  <2>1. outcome[p] = "none"
    BY <1>3 DEF Tidy, Forward
  <2> QED
    BY <1>1, <1>3, <2>1 DEF Abandon, DropBackup, Failed, Goto, GotoAt, Dropped
<1>4. CASE Compare(p)
  BY <1>3, <1>4 DEF Compare, Untouched
<1>5. CASE Record(p)
  BY <1>3, <1>5 DEF Record, Untouched
<1>6. CASE UndoFile(p)
  BY <1>1, <1>6 DEF UndoFile, DropBackup, Goto, GotoAt, Untouched, Dropped
<1>7. CASE Restore(p)
  <2>1. outcome[p] # "committed" /\ outcome' = outcome
    BY <1>7 DEF Tidy, Restore, Back
  <2> QED
    BY <1>1, <1>7, <2>1 DEF Restore, DropBackup, Goto, GotoAt, Dropped
<1>8. CASE \/ Read(p) \/ Snapshot(p) \/ Lock(p) \/ LockTimeout(p) \/ ChangedSincePreflight(p) \/ Replace(p)
           \/ Verify(p) \/ Finalize(p) \/ Install(p) \/ Confirm(p) \/ Unlock(p) \/ Kill(p)
  BY <1>8 DEF Read, Snapshot, Lock, LockTimeout, ChangedSincePreflight, Replace,
              Verify, Finalize, Install, Confirm, Unlock, Kill, Untouched
<1> QED
  BY <1>2, <1>4, <1>5, <1>6, <1>7, <1>8 DEF Step

\* What is lost stays lost.
LEMMA LostStays ==
    ASSUME NEW q \in Procs, NEW f \in Files, Lost(q, f), dropped \subseteq dropped', orig'[q] = orig[q]
    PROVE  Lost(q, f)'
<1>1. PICK r \in Procs \ {q} : <<Backup(q, f), r>> \in dropped /\ Shares(r, f)
  BY DEF Lost
<1>2. Backup(q, f)' = Backup(q, f) /\ (Shares(r, f)' <=> Shares(r, f))
  BY DEF Backup, Shares, InPlan
<1> QED
  BY <1>1, <1>2 DEF Lost

\* What others rely on stays.
LEMMA OthersRely ==
    ASSUME IInv, BackedUp, NEW p \in Procs, Untouched \/ Added(p) \/ Dropped(p), Alone(p),
           NEW q \in Procs, q # p, NEW f \in Files, Relied(q, f),
           pc[p] = "done" => pc'[p] = "done"
    PROVE  Relied(q, f)'
<1>0. dropped \subseteq dropped' /\ orig'[q] = orig[q]
  BY DEF Untouched, Added, Dropped, Alone
<1> SUFFICES ASSUME orig[q][f] # Absent, ~ Lost(q, f) PROVE Relied(q, f)'
  BY <1>0, LostStays DEF Relied
<1>1. /\ Backup(q, f) \in backups /\ Backup(q, f)' = Backup(q, f)
      /\ \A r \in Procs \ {q} : Backup(q, f) \in mine[r] => pc[r] = "done" \/ Shares(r, f)
      /\ \A r \in Procs : Shares(r, f)' <=> Shares(r, f)
      /\ DOMAIN mine = Procs
      /\ \A r \in Procs : pc[r] = "done" => pc'[r] = "done"
  BY DEF Relied, Alone, Backup, BackedUp, Shares, InPlan
<1> HIDE DEF Shares, Backup
<1>2. CASE Untouched
  BY <1>1, <1>2 DEF Untouched, Relied
<1>3. CASE Added(p)
  <2>1. \A r \in Procs : Backup(q, f) \in mine'[r] => Backup(q, f) \in mine[r]
    BY <1>1, <1>3 DEF Added
  <2>2. Backup(q, f) \in backups'
    BY <1>1, <1>3 DEF Added
  <2> QED
    BY <1>1, <2>1, <2>2 DEF Relied
<1>4. CASE Dropped(p)
  <2>1. \A r \in Procs : Backup(q, f) \in mine'[r] => Backup(q, f) \in mine[r]
    BY <1>1, <1>4 DEF Dropped
  <2>2. CASE Backup(q, f) \notin OwnBackup(p)
    <3>1. Backup(q, f) \in backups'
      BY <1>1, <1>4, <2>2 DEF Dropped
    <3> QED
      BY <1>1, <2>1, <3>1 DEF Relied
  <2>3. CASE Backup(q, f) \in OwnBackup(p)
    <3>1. Backup(q, f) \in mine[p] /\ pc[p] # "done"
      BY <1>4, <2>3 DEF OwnBackup, Dropped
    <3>2. Shares(p, f) /\ <<Backup(q, f), p>> \in dropped'
      BY <1>1, <1>4, <2>3, <3>1 DEF Dropped
    <3>3. Lost(q, f)'
      BY <1>1, <3>2 DEF Lost
    <3> QED
      BY <3>3 DEF Relied
  <2> QED
    BY <2>2, <2>3
<1> QED
  BY <1>2, <1>3, <1>4

\* A batch's own additions keep what it relied on before.
LEMMA OwnRely ==
    ASSUME IInv, BackedUp, NEW p \in Procs, Untouched \/ Added(p), Alone(p),
           NEW f \in Files, Relied(p, f), orig'[p] = orig[p]
    PROVE  Relied(p, f)'
<1>1. /\ DOMAIN mine = Procs /\ Backup(p, f)' = Backup(p, f)
      /\ \A r \in Procs : Shares(r, f)' <=> Shares(r, f)
  BY DEF BackedUp, Backup, Shares, InPlan
<1>2. backups \subseteq backups' /\ \A q \in Procs \ {p} : mine'[q] = mine[q] /\ pc'[q] = pc[q]
  BY <1>1 DEF Untouched, Added, Alone
<1>3. Lost(p, f) => Lost(p, f)'
  BY LostStays DEF Untouched, Added
<1> HIDE DEF Shares, Backup, Lost
<1> QED
  BY <1>1, <1>2, <1>3 DEF Relied

\* The copy that an operation finds or makes.
LEMMA CopyRely ==
    ASSUME IInv, BackedUp, NEW p \in Procs, Added(p), Alone(p), orig'[p] = orig[p], at'[p] = at[p]
    PROVE  Relied(p, Cur(p))'
<1>1. /\ Cur(p) \in Files /\ lock[Cur(p)] = p /\ Cur(p)' = Cur(p) /\ DOMAIN mine = Procs
  BY CurIsLocked DEF Added, Inside, Outside, Cur, BackedUp
<1> DEFINE f == Cur(p)
<1> HIDE DEF f
<1>2. f \in Files /\ lock[f] = p /\ f = Cur(p)' /\ \A r \in Procs : Shares(r, f)' <=> Shares(r, f)
  BY <1>1 DEF f, Shares, InPlan
<1> SUFFICES ASSUME orig[p][f] # Absent PROVE Backup(p, f) \in backups'
                 /\ \A q \in Procs \ {p} : Backup(p, f) \in mine'[q] => pc'[q] = "done" \/ Shares(q, f)
  BY <1>2 DEF Relied, Backup
<1>3. Copy(p) = {Backup(p, f)}
  BY DEF Copy, Added, Backup, f
<1>4. Backup(p, f) \in backups'
  BY <1>3 DEF Added
<1>5. ASSUME NEW q \in Procs \ {p}, Backup(p, f) \in mine'[q], ~ Shares(q, f) PROVE pc'[q] = "done"
  <2>1. mine'[q] = mine[q] /\ pc'[q] = pc[q]
    BY <1>1 DEF Added, Alone
  <2>2. PICK g \in InPlan(q) : Name[f] = Name[g]
    BY <1>5, <2>1 DEF BackedUp, Backup
  <2>3. g = f /\ g \in Files
    BY <1>2, <1>5, <2>2, PlanFacts DEF Shares
  <2>4. pc[q] \notin Working
    BY <1>2, <2>2, <2>3 DEF IInv, Holds
  <2>5. pc[q] \notin Before
    BY <1>5, <2>1 DEF BackedUp
  <2>6. pc[q] \in Phases
    BY DEF IInv, TypeOK
  <2> QED
    BY <2>1, <2>4, <2>5, <2>6 DEF Working, Before
<1> QED
  BY <1>4, <1>5

\* What a step of a batch does to that on which the backups depend.
Progress(p) ==
    /\ \/ changed'[p] = changed[p]
       \/ pc[p] = "replace" /\ changed'[p] = changed[p] \cup {Cur(p)}
       \/ pc'[p] = "undo" /\ outcome'[p] # "committed"
    /\ pc'[p] \in Forward \cup {"record"} => pc[p] \in Forward \cup {"record", "lock"}
    /\ outcome'[p] = "committed" => /\ pc'[p] \in {"unlock", "done"}
                                    /\ outcome[p] = "committed" \/ pc[p] = "confirm"
    /\ pc'[p] \in Doubled => pc[p] \in Doubled \cup {"apply"} /\ at' = at
    /\ pc[p] \in Doubled /\ pc'[p] \in Doubled => UNCHANGED <<backups, mine, dropped>>
    /\ pc[p] = "apply" /\ pc'[p] \in Doubled => Added(p)
    /\ pc'[p] \in Before => pc[p] \in Before /\ UNCHANGED <<backups, mine, dropped>>
    /\ pc[p] # "done"
    /\ orig'[p] = orig[p] \/ pc[p] = "snapshot"

LEMMA EachProgress ==
    ASSUME IInv, NEW p \in Procs, Tidy(p), Step(p) \/ LockTimeout(p) \/ Kill(p)
    PROVE  Progress(p)
<1>1. /\ pc \in [Procs -> Phases] /\ changed \in [Procs -> SUBSET Files]
      /\ outcome \in [Procs -> {"none", "committed", "failed", "incomplete", "killed"}]
      /\ pc[p] \in Before \cup Forward \cup {"record"} => outcome[p] = "none"
      /\ pc[p] \in Back => outcome[p] \in {"none", "incomplete"}
  BY DEF IInv, TypeOK, Tidy
<1> USE DEF Before, Forward, Back, Passed, Doubled
<1>2. CASE Read(p)
  BY <1>1, <1>2 DEF Read, Goto, Progress, planVars
<1>3. CASE Snapshot(p)
  BY <1>1, <1>3 DEF Snapshot, Goto, GotoAt, Progress, planVars
<1>4. CASE Lock(p)
  BY <1>1, <1>4 DEF Lock, Goto, Progress, planVars
<1>5. CASE LockTimeout(p)
  BY <1>1, <1>5 DEF LockTimeout, Goto, Progress, planVars
<1>6. CASE Open(p)
  BY <1>1, <1>6 DEF Open, Goto, GotoAt, Progress, Added, planVars
<1>7. CASE ChangedSincePreflight(p)
  BY <1>1, <1>7 DEF ChangedSincePreflight, Goto, GotoAt, Failed, Progress, planVars
<1>8. CASE Compare(p)
  BY <1>1, <1>8 DEF Compare, Goto, GotoAt, Failed, Abandon, Progress, planVars
<1>9. CASE Replace(p)
  BY <1>1, <1>9 DEF Replace, Goto, Progress, planVars
<1>10. CASE Record(p)
  BY <1>1, <1>10 DEF Record, Goto, GotoAt, Failed, Abandon, Progress, planVars
<1>11. CASE Verify(p)
  BY <1>1, <1>11 DEF Verify, Goto, GotoAt, Progress, planVars
<1>12. CASE Finalize(p)
  BY <1>1, <1>12 DEF Finalize, Goto, GotoAt, Undo, PromoteSetup, FindPlugin, Progress, planVars
<1>13. CASE Install(p)
  BY <1>1, <1>13 DEF Install, Goto, Progress, planVars
<1>14. CASE Confirm(p)
  BY <1>1, <1>14 DEF Confirm, Goto, GotoAt, Undo, Progress, planVars
<1>15. CASE UndoFile(p)
  BY <1>1, <1>15 DEF UndoFile, Goto, GotoAt, Progress, planVars
<1>16. CASE Restore(p)
  BY <1>1, <1>16 DEF Restore, Goto, GotoAt, Progress, planVars
<1>17. CASE Unlock(p)
  BY <1>1, <1>17 DEF Unlock, Goto, Progress, planVars
<1>18. CASE Kill(p)
  BY <1>1, <1>18 DEF Kill, Goto, Progress, planVars
<1> QED
  BY <1>2, <1>3, <1>4, <1>5, <1>6, <1>7, <1>8, <1>9, <1>10, <1>11, <1>12, <1>13, <1>14, <1>15, <1>16, <1>17, <1>18 DEF Step

\* What a batch knows of its backups.
Keeps(p) ==
    /\ mine[p] \subseteq backups
    /\ \A b \in mine[p] : \E f \in InPlan(p) : b[1] = Name[f]
    /\ pc[p] \in Before => mine[p] = {}
    /\ outcome[p] = "committed" => pc[p] \in {"unlock", "done"}
    /\ Counts(p) => \A f \in changed[p] : Relied(p, f)
    /\ pc[p] \in Doubled => Relied(p, Cur(p))

\* A step keeps it for the batch that takes it.
LEMMA OwnKept ==
    ASSUME IInv, BackedUp, NEW p \in Procs, Tidy(p), Progress(p), Alone(p),
           Untouched \/ Added(p) \/ Dropped(p)
    PROVE  Keeps(p)'
<1>1. /\ DOMAIN mine = Procs /\ Keeps(p) /\ InPlan(p)' = InPlan(p) /\ InPlan(p) \subseteq Files
      /\ changed[p] \subseteq InPlan(p) /\ changed \in [Procs -> SUBSET Files]
      /\ pc[p] \in Phases /\ mine[p] \subseteq backups
  BY PlanFacts DEF BackedUp, Keeps, InPlan, Tidy, IInv, TypeOK
<1>2. mine'[p] \subseteq backups'
  BY <1>1 DEF Untouched, Added, Dropped
<1>3. \A b \in mine'[p] : \E f \in InPlan(p) : b[1] = Name[f]
  <2>1. ASSUME Added(p), NEW b \in Copy(p) PROVE \E f \in InPlan(p) : b[1] = Name[f]
    <3>1. Cur(p) \in InPlan(p)
      BY <2>1, CurIsLocked DEF Added, Inside, Outside
    <3>2. b[1] = Name[Cur(p)]
      BY DEF Copy
    <3> QED
      BY <3>1, <3>2
  <2>2. \A b \in mine[p] : \E f \in InPlan(p) : b[1] = Name[f]
    BY <1>1 DEF Keeps
  <2>3. mine'[p] \subseteq mine[p] \/ (Added(p) /\ mine'[p] \subseteq mine[p] \cup Copy(p))
    BY <1>1 DEF Untouched, Added, Dropped
  <2> QED
    BY <2>1, <2>2, <2>3
<1>4. pc'[p] \in Before => mine'[p] = {}
  BY <1>1 DEF Progress, Keeps
<1>5. outcome'[p] = "committed" => pc'[p] \in {"unlock", "done"}
  BY DEF Progress
<1>6. Dropped(p) => ~ Counts(p)' /\ pc'[p] \notin Doubled
  BY DEF Dropped, Counts, Forward, Passed, Doubled
<1>7. ASSUME pc[p] = "snapshot" PROVE ~ Counts(p)' /\ pc'[p] \notin Doubled
  <2>1. pc'[p] \notin Forward \cup {"record"}
    BY <1>7 DEF Progress, Forward, Passed
  <2>2. outcome'[p] # "committed"
    BY <1>7 DEF Progress, Tidy, Before
  <2>3. pc'[p] \notin Doubled
    BY <1>7 DEF Progress, Doubled
  <2> QED
    BY <2>1, <2>2, <2>3 DEF Counts
<1>8. ASSUME Untouched \/ Added(p), orig'[p] = orig[p], NEW f \in Files, Relied(p, f) PROVE Relied(p, f)'
  BY <1>8, OwnRely
<1>9. ASSUME pc'[p] \in Doubled PROVE Relied(p, Cur(p))'
  <2>1. pc[p] \in Doubled \cup {"apply"} /\ at' = at /\ orig'[p] = orig[p] /\ Cur(p)' = Cur(p)
    BY <1>7, <1>9 DEF Progress, Cur
  <2>2. CASE pc[p] = "apply"
    BY <1>9, <2>1, <2>2, CopyRely DEF Progress
  <2>3. CASE pc[p] \in Doubled
    <3>1. Cur(p) \in Files /\ Relied(p, Cur(p)) /\ Untouched
      BY <1>1, <1>9, <2>3, CurIsLocked DEF Keeps, Progress, Untouched, Doubled, Inside, Outside
    <3>2. PICK f \in Files : f = Cur(p)
      BY <3>1
    <3>3. Relied(p, f)'
      BY <1>8, <2>1, <3>1, <3>2
    <3> QED
      BY <2>1, <3>2, <3>3 DEF Relied, Backup
  <2> QED
    BY <2>1, <2>2, <2>3
<1>10. ASSUME Counts(p)', NEW f \in changed'[p] PROVE Relied(p, f)'
  <2>1. Untouched \/ Added(p)
    BY <1>6, <1>10
  <2>2. orig'[p] = orig[p]
    BY <1>7, <1>10 DEF Progress
  <2>3. /\ pc'[p] \in Forward \cup {"record"} \/ outcome'[p] = "committed"
        /\ Counts(p) \/ pc[p] = "lock"
    BY <1>10 DEF Counts, Progress, Forward, Passed
  <2>4. pc'[p] # "undo" \/ outcome'[p] = "committed"
    BY <2>3 DEF Forward, Passed
  <2>5. CASE f \in changed[p]
    <3>1. Relied(p, f) /\ f \in Files
      BY <1>1, <2>3, <2>5 DEF Keeps, Tidy, Before
    <3> QED
      BY <1>8, <2>1, <2>2, <3>1
  <2>6. CASE f \notin changed[p]
    <3>1. pc[p] = "replace" /\ f = Cur(p) /\ f \in Files
      BY <1>10, <2>4, <2>6, CurIsLocked DEF Progress, Inside, Outside
    <3>2. Relied(p, f)
      BY <1>1, <3>1 DEF Keeps, Doubled
    <3> QED
      BY <1>8, <2>1, <2>2, <3>1, <3>2
  <2> QED
    BY <2>5, <2>6
<1> QED
  BY <1>1, <1>2, <1>3, <1>4, <1>5, <1>9, <1>10 DEF Keeps

\* And for every other.
LEMMA OtherKept ==
    ASSUME IInv, BackedUp, NEW p \in Procs, Progress(p), Alone(p), Untouched \/ Added(p) \/ Dropped(p),
           NEW q \in Procs, q # p, Tidy(q)
    PROVE  Keeps(q)'
<1>1. /\ DOMAIN mine = Procs /\ Keeps(q) /\ InPlan(q)' = InPlan(q) /\ InPlan(q) \subseteq Files
      /\ changed[q] \subseteq InPlan(q) /\ mine[q] \cap mine[p] = {}
      /\ pc'[q] = pc[q] /\ at'[q] = at[q] /\ orig'[q] = orig[q] /\ changed'[q] = changed[q] /\ outcome'[q] = outcome[q]
      /\ Cur(q)' = Cur(q)
  BY PlanFacts DEF BackedUp, Keeps, InPlan, Tidy, Alone, Cur
<1>2. mine'[q] = mine[q]
  BY <1>1 DEF Untouched, Added, Dropped
<1>3. mine[q] \subseteq backups'
  BY <1>1 DEF Keeps, Untouched, Added, Dropped, OwnBackup
<1>4. ASSUME NEW f \in Files, Relied(q, f) PROVE Relied(q, f)'
  BY <1>4, OthersRely DEF Progress
<1>5. pc[q] \in Doubled => Relied(q, Cur(q))'
  <2> SUFFICES ASSUME pc[q] \in Doubled PROVE Relied(q, Cur(q))'
    OBVIOUS
  <2>1. Cur(q) \in Files /\ Relied(q, Cur(q))
    BY <1>1, CurIsLocked DEF Keeps, Doubled, Inside, Outside
  <2>2. PICK f \in Files : f = Cur(q)
    BY <2>1
  <2>3. Relied(q, f)'
    BY <1>4, <2>1, <2>2
  <2> QED
    BY <1>1, <2>2, <2>3 DEF Relied, Backup
<1>6. Counts(q)' => \A f \in changed[q] : Relied(q, f)'
  BY <1>1, <1>4 DEF Keeps, Counts
<1> QED
  BY <1>1, <1>2, <1>3, <1>5, <1>6 DEF Keeps

\* No backup is claimed by two batches.
LEMMA Apart ==
    ASSUME BackedUp, NEW p \in Procs, Untouched \/ Added(p) \/ Dropped(p)
    PROVE  /\ (DOMAIN mine)' = Procs
           /\ \A q, r \in Procs : q # r => mine'[q] \cap mine'[r] = {}
<1>1. /\ DOMAIN mine = Procs
      /\ \A q \in Procs : mine[q] \subseteq backups
      /\ \A q, r \in Procs : q # r => mine[q] \cap mine[r] = {}
  BY DEF BackedUp
<1>2. CASE Untouched
  BY <1>1, <1>2 DEF Untouched
<1>3. CASE Added(p)
  <2>1. \A q \in Procs \ {p} : mine'[q] = mine[q]
    BY <1>1, <1>3 DEF Added
  <2>2. mine'[p] = mine[p] \cup (Copy(p) \ backups) /\ DOMAIN mine' = Procs
    BY <1>1, <1>3 DEF Added
  <2> HIDE DEF Copy
  <2>3. \A q \in Procs \ {p} : mine'[q] \cap mine'[p] = {}
    BY <1>1, <2>1, <2>2
  <2> QED
    BY <1>1, <2>1, <2>2, <2>3
<1>4. CASE Dropped(p)
  <2>1. \A q \in Procs : mine'[q] \subseteq mine[q]
    BY <1>1, <1>4 DEF Dropped
  <2>2. DOMAIN mine' = Procs
    BY <1>1, <1>4 DEF Dropped
  <2> QED
    BY <1>1, <2>1, <2>2
<1> QED
  BY <1>2, <1>3, <1>4

LEMMA BackedUpKept ==
    ASSUME IInv, \A p \in Procs : Tidy(p), BackedUp, [Next]_vars
    PROVE  BackedUp'
<1>1. ASSUME NEW p \in Procs, Step(p) \/ LockTimeout(p) \/ Kill(p) PROVE BackedUp'
  <2>1. Progress(p) /\ Alone(p) /\ (Untouched \/ Added(p) \/ Dropped(p))
    BY <1>1, EachProgress, EachAlone, BackupSteps
  <2>2. \A q \in Procs : Keeps(q)'
    BY <2>1, OwnKept, OtherKept
  <2>3. /\ (DOMAIN mine)' = Procs
        /\ \A q, r \in Procs : q # r => mine'[q] \cap mine'[r] = {}
    BY <2>1, Apart
  <2> QED
    BY <2>2, <2>3 DEF BackedUp, Keeps
<1>2. ASSUME \/ \E f \in Files, c \in Contents : Edit(f, c)
             \/ Uninstall \/ UNCHANGED vars
      PROVE  BackedUp'
  <2>1. UNCHANGED <<pc, at, orig, changed, outcome, backups, mine, dropped>>
    BY <1>2 DEF Edit, Uninstall, vars, planVars
  <2>2. ASSUME NEW p \in Procs PROVE Keeps(p)'
    <3>1. Cur(p)' = Cur(p) /\ InPlan(p)' = InPlan(p) /\ (Counts(p)' <=> Counts(p)) /\ Keeps(p)
      BY <2>1 DEF BackedUp, Keeps, Counts, Cur, InPlan
    <3>2. \A f \in changed[p] \cup {Cur(p)} : Relied(p, f) => Relied(p, f)'
      BY <2>1 DEF Relied, Lost, Shares, InPlan, Backup
    <3>3. ASSUME pc[p] \in Doubled PROVE Relied(p, Cur(p))'
      <4>1. PICK f \in changed[p] \cup {Cur(p)} : f = Cur(p)
        OBVIOUS
      <4>2. Relied(p, f)'
        BY <3>1, <3>2, <3>3, <4>1 DEF Keeps
      <4> QED
        BY <3>1, <4>1, <4>2 DEF Relied, Lost, Backup
    <3> QED
      BY <2>1, <3>1, <3>2, <3>3 DEF Keeps
  <2>3. (DOMAIN mine)' = Procs /\ \A p, q \in Procs : p # q => mine'[p] \cap mine'[q] = {}
    BY <2>1 DEF BackedUp
  <2> QED
    BY <2>2, <2>3 DEF BackedUp, Keeps
<1> QED
  BY <1>1, <1>2, NextCases DEF IInv

LEMMA BackedUpInit == Init => BackedUp
BY DEF Init, BackedUp, Before, Forward, Passed, Counts, Doubled

\* A batch that committed finds what it replaced in the backups, whatever
\* other batches add and take away, unless one that changes another file of
\* the same name removed the copy that both of them rely on.
THEOREM BackupsAreKept == Spec => []BackupKept
<1>1. TypeOK /\ BackedUp => BackupKept
  BY DEF TypeOK, BackedUp, BackupKept, Counts, Relied, Lost, Backup
<1>2. IInv /\ (\A p \in Procs : Tidy(p)) /\ BackedUp /\ [Next]_vars => BackedUp'
  BY BackedUpKept
<1>3. Spec => []BackedUp
  BY <1>2, BackedUpInit, AlwaysTidy, Invariance, PTL DEF Spec
<1> QED
  BY <1>1, <1>3, TypeCorrect, PTL

=============================================================================
