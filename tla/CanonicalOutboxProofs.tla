----------------------- MODULE CanonicalOutboxProofs ------------------------
(***************************************************************************)
(* Theorems about CanonicalOutbox, for any set of processes and records    *)
(* and any number of failures.                                             *)
(*                                                                         *)
(* The invariant IInv adds to the properties what one process relies on    *)
(* while others run: the rows it has drained are in their files, what it   *)
(* staged is the next revision, and what it committed is still covered.    *)
(***************************************************************************)
EXTENDS CanonicalOutbox, TLAPS

\* Only the process in a transaction has drained rows, and it wrote their files.
DrainedIsWritten ==
  /\ \A r \in drained : outbox[r] # 0 /\ files[r] = outbox[r]
  /\ drained # {} => \E p \in Procs : pc[p] \in {"flushing", "maintaining"}

\* A mutating process stages next revisions.
StagedIsNext ==
  \A p \in Procs, r \in Records :
    pc[p] = "mutating" => staged[p][r] \in {0, rows[r] + 1}

\* A process between its commit and its return has its writes in the table,
\* and no outcome yet.
CommittedIsStored ==
  \A p \in Procs :
    /\ pc[p] # "idle" => outcome[p] = "none"
    /\ pc[p] \notin {"idle", "mutating"} => \A r \in Records : staged[p][r] <= rows[r]

IInv ==
  /\ TypeOK
  /\ DrainedIsWritten
  /\ StagedIsNext
  /\ CommittedIsStored
  /\ LagIsCovered
  /\ OutboxIsCurrent
  /\ AckedIsPublished

-----------------------------------------------------------------------------
(* What the steps have in common.                                          *)

\* A draining process that has drained everything pending has current files.
LEMMA DrainedIsCurrent ==
  ASSUME IInv, Pending \subseteq drained
  PROVE  files = rows
<1>1. files \in [Records -> Nat] /\ rows \in [Records -> Nat] /\ outbox \in [Records -> Nat]
  BY DEF IInv, TypeOK
<1>2. ASSUME NEW r \in Records
      PROVE  files[r] = rows[r]
  <2>1. CASE outbox[r] = 0
    BY <1>1, <2>1 DEF IInv, LagIsCovered
  <2>2. CASE outbox[r] # 0
    BY <2>2 DEF IInv, Pending, DrainedIsWritten, OutboxIsCurrent
  <2> QED
    BY <2>1, <2>2
<1> QED
  BY <1>1, <1>2

\* Deleting the drained rows of the outbox leaves what lags covered.
LEMMA RemainingCovers ==
  ASSUME IInv
  PROVE  /\ Remaining \in [Records -> Nat]
         /\ \A r \in Records : Remaining[r] \in {0, rows[r]}
         /\ \A r \in Records : files[r] # rows[r] => Remaining[r] = rows[r]
  BY DEF IInv, TypeOK, Remaining, DrainedIsWritten, OutboxIsCurrent, LagIsCovered

\* The lock is held by one process: a second one is not in a transaction.
LEMMA OneWriter ==
  ASSUME TypeOK, NEW p \in Procs, NEW q \in Procs, pc[p] \in Writing, pc[q] \in Writing
  PROVE  p = q
  BY DEF TypeOK

LEMMA NoWriter ==
  ASSUME TypeOK, writer = Nobody, NEW p \in Procs
  PROVE  pc[p] \notin Writing
  BY NobodyAssumption DEF TypeOK

-----------------------------------------------------------------------------
(***************************************************************************)
(* Steps that neither write rows, outbox nor files: a process begins, goes *)
(* on, or leaves, with or without the lock.                                *)
(***************************************************************************)
Moves(p) ==
  /\ UNCHANGED <<rows, outbox, files>>
  /\ failures' \in Nat
  /\ pc' \in [Procs -> Phases] /\ outcome' \in [Procs -> Outcomes]
  /\ staged' \in [Procs -> [Records -> Nat]]
  /\ \A q \in Procs \ {p} :
       pc'[q] = pc[q] /\ outcome'[q] = outcome[q] /\ staged'[q] = staged[q]
  /\ \/ writer = Nobody /\ writer' = p /\ drained' = {} /\ pc'[p] \in Writing
     \/ writer = p /\ writer' = Nobody /\ drained' = {} /\ pc'[p] \notin Writing
     \/ UNCHANGED <<writer, drained>> /\ pc[p] \notin Writing /\ pc'[p] \notin Writing
  /\ pc'[p] = "mutating" => staged'[p] = Nothing
  /\ pc'[p] # "idle" => outcome'[p] = "none"
  /\ pc'[p] \notin {"idle", "mutating"} => \A r \in Records : staged'[p][r] <= rows[r]
  /\ \A r \in Records :
       /\ outcome'[p] = "ok" => staged'[p][r] <= files[r]
       /\ outcome'[p] \in {"ok", "pending"} => staged'[p][r] <= rows[r]

LEMMA MovesPreserve ==
  ASSUME IInv, NEW p \in Procs, Moves(p)
  PROVE  IInv'
<1>1. TypeOK
  BY DEF IInv
<1>2. p # Nobody
  BY NobodyAssumption
<1>3. TypeOK'
  <2>1. ASSUME NEW q \in Procs PROVE pc'[q] \in Writing <=> writer' = q
    <3>1. pc[q] \in Writing <=> writer = q
      BY <1>1 DEF TypeOK
    <3>2. pc[p] \in Writing <=> writer = p
      BY <1>1 DEF TypeOK
    <3>3. CASE q = p
      BY <1>2, <3>2, <3>3 DEF Moves
    <3>4. CASE q # p
      BY <1>2, <3>1, <3>2, <3>4, NobodyAssumption DEF Moves
    <3> QED
      BY <3>3, <3>4
  <2>2. drained' \in SUBSET Records /\ writer' \in Procs \union {Nobody}
    BY <1>1 DEF Moves, TypeOK
  <2> QED
    BY <1>1, <2>1, <2>2 DEF Moves, TypeOK
<1>4. DrainedIsWritten'
  <2>1. CASE drained' = {}
    BY <2>1 DEF DrainedIsWritten
  <2>2. CASE drained' # {}
    <3>1. drained' = drained /\ pc[p] \notin Writing
      BY <2>2 DEF Moves
    <3>2. PICK q \in Procs : pc[q] \in {"flushing", "maintaining"}
      BY <2>2, <3>1 DEF IInv, DrainedIsWritten
    <3>3. q # p
      BY <3>1, <3>2 DEF Writing
    <3> QED
      BY <3>1, <3>2, <3>3 DEF Moves, IInv, DrainedIsWritten
  <2> QED
    BY <2>1, <2>2
<1>5. StagedIsNext'
  <2> SUFFICES ASSUME NEW q \in Procs, NEW r \in Records, pc'[q] = "mutating"
               PROVE  staged'[q][r] \in {0, rows'[r] + 1}
    BY DEF StagedIsNext
  <2>1. CASE q = p
    BY <2>1 DEF Moves, Nothing
  <2>2. CASE q # p
    BY <2>2 DEF IInv, StagedIsNext, Moves
  <2> QED
    BY <2>1, <2>2
<1>6. CommittedIsStored'
  BY DEF IInv, CommittedIsStored, Moves
<1>7. LagIsCovered' /\ OutboxIsCurrent'
  BY DEF IInv, LagIsCovered, OutboxIsCurrent, Moves
<1>8. AckedIsPublished'
  BY DEF IInv, AckedIsPublished, Moves
<1> QED
  BY <1>3, <1>4, <1>5, <1>6, <1>7, <1>8 DEF IInv

LEMMA BeginMoves ==
  ASSUME IInv, NEW p \in Procs, NEW phase \in {"mutating", "maintaining"}, Begin(p, phase)
  PROVE  Moves(p)
<1>1. Nothing \in [Records -> Nat] /\ phase \in Writing /\ phase \in Phases
  BY DEF Nothing, Writing, Phases
<1> QED
  BY <1>1 DEF IInv, TypeOK, Begin, Acquire, Go, Moves, Nothing, Outcomes, LagIsCovered

LEMMA CheckOutboxMoves ==
  ASSUME IInv, NEW p \in Procs, CheckOutbox(p)
  PROVE  Moves(p)
<1>1. pc[p] = "committed" /\ pc[p] \notin Writing /\ outcome[p] = "none"
  BY DEF CheckOutbox, Writing, IInv, CommittedIsStored
<1>2. \A r \in Records : staged[p][r] <= rows[r]
  BY <1>1 DEF IInv, CommittedIsStored
<1>3. CASE Pending = {}
  <2>1. files = rows
    BY <1>3, DrainedIsCurrent
  <2> QED
    BY <1>1, <1>2, <1>3, <2>1 DEF CheckOutbox, Return, Go, Moves, IInv, TypeOK, Phases, Writing, Outcomes
<1>4. CASE Pending # {}
  BY <1>1, <1>2, <1>4 DEF CheckOutbox, Go, Moves, IInv, TypeOK, Phases, Writing, Outcomes
<1> QED
  BY <1>3, <1>4

LEMMA BeginFlushMoves ==
  ASSUME IInv, NEW p \in Procs, BeginFlush(p)
  PROVE  Moves(p)
BY DEF BeginFlush, Acquire, Go, Moves, IInv, TypeOK, CommittedIsStored, Phases, Writing, Outcomes

\* Leaving a transaction by ROLLBACK.
LEMMA RollbackMoves ==
  ASSUME IInv, NEW p \in Procs, Rollback(p) \/ FailFlush(p) \/ FailMaintenance(p)
  PROVE  Moves(p)
<1>1. PICK how \in {"failed", "pending"} : Return(p, how) /\ (how = "pending" => pc[p] # "mutating")
  BY DEF Rollback, FailFlush, FailMaintenance
<1>2. pc[p] \in Writing /\ pc[p] # "idle"
  BY DEF Rollback, FailFlush, FailMaintenance, Writing
<1>3. writer = p
  BY <1>2 DEF IInv, TypeOK
<1>4. how = "pending" => \A r \in Records : staged[p][r] <= rows[r]
  BY <1>1, <1>2 DEF IInv, CommittedIsStored
<1>5. Release /\ Fail /\ UNCHANGED <<rows, outbox, files, staged>>
  BY DEF Rollback, FailFlush, FailMaintenance
<1> QED
  BY <1>1, <1>2, <1>3, <1>4, <1>5
  DEF Return, Go, Release, Fail, Moves, IInv, TypeOK, Phases, Writing, Outcomes

LEMMA TimeoutMoves ==
  ASSUME IInv, NEW p \in Procs, Timeout(p)
  PROVE  Moves(p)
<1>1. Nothing \in [Records -> Nat]
  BY DEF Nothing
<1>2. CASE pc[p] = "idle"
  BY <1>1, <1>2
  DEF Timeout, Return, Go, Fail, Moves, IInv, TypeOK, Phases, Writing, Outcomes, Nothing
<1>3. CASE pc[p] = "contending"
  BY <1>3
  DEF Timeout, Return, Go, Fail, Moves, IInv, TypeOK, CommittedIsStored, Phases, Writing, Outcomes
<1> QED
  BY <1>2, <1>3 DEF Timeout

LEMMA CrashMoves ==
  ASSUME IInv, NEW p \in Procs, Crash(p)
  PROVE  Moves(p)
BY DEF Crash, Return, Go, Fail, Release, Moves, IInv, TypeOK, Phases, Writing, Outcomes

-----------------------------------------------------------------------------
(* The steps that write.                                                   *)

LEMMA StagePreserves ==
  ASSUME IInv, NEW p \in Procs, NEW r \in Records, Stage(p, r)
  PROVE  IInv'
<1>1. /\ pc[p] = "mutating" /\ UNCHANGED <<rows, outbox, files, writer, drained, pc, outcome, failures>>
      /\ rows[r] + 1 \in Nat
      /\ staged' = [staged EXCEPT ![p][r] = rows[r] + 1]
  BY DEF Stage, IInv, TypeOK
<1>2. TypeOK'
  BY <1>1 DEF IInv, TypeOK
<1>3. ASSUME NEW q \in Procs, q # p
      PROVE  staged'[q] = staged[q]
  BY <1>1, <1>3 DEF IInv, TypeOK
<1>4. ASSUME NEW s \in Records
      PROVE  staged'[p][s] = IF s = r THEN rows[r] + 1 ELSE staged[p][s]
  BY <1>1 DEF IInv, TypeOK
<1>5. DrainedIsWritten' /\ LagIsCovered' /\ OutboxIsCurrent'
  BY <1>1 DEF IInv, DrainedIsWritten, LagIsCovered, OutboxIsCurrent
<1>6. StagedIsNext'
  BY <1>1, <1>3, <1>4 DEF IInv, StagedIsNext
<1>7. CommittedIsStored'
  BY <1>1, <1>3 DEF IInv, CommittedIsStored
<1>8. AckedIsPublished'
  <2>1. outcome[p] = "none"
    BY <1>1 DEF IInv, CommittedIsStored
  <2> QED
    BY <1>1, <1>3, <2>1 DEF IInv, AckedIsPublished
<1> QED
  BY <1>2, <1>5, <1>6, <1>7, <1>8 DEF IInv

LEMMA CommitPreserves ==
  ASSUME IInv, NEW p \in Procs, Commit(p)
  PROVE  IInv'
<1>1. /\ pc[p] = "mutating" /\ writer = p /\ writer' = Nobody /\ drained' = {}
      /\ pc' = [pc EXCEPT ![p] = "committed"]
      /\ UNCHANGED <<files, staged, outcome, failures>>
  BY DEF Commit, Release, Go, IInv, TypeOK, Writing
<1>2. ASSUME NEW r \in Records
      PROVE  \/ staged[p][r] = 0 /\ rows'[r] = rows[r] /\ outbox'[r] = outbox[r]
             \/ /\ staged[p][r] = rows[r] + 1
                /\ rows'[r] = rows[r] + 1
                /\ outbox'[r] = rows[r] + 1
  BY <1>1 DEF Commit, Overwrite, IInv, StagedIsNext, TypeOK
<1>3. rows' \in [Records -> Nat] /\ outbox' \in [Records -> Nat]
  BY DEF Commit, Overwrite, IInv, TypeOK
<1>4. ASSUME NEW q \in Procs, q # p
      PROVE  pc[q] \notin Writing /\ pc'[q] = pc[q]
  BY <1>1, <1>4 DEF IInv, TypeOK
<1>5. pc'[p] = "committed" /\ outcome[p] = "none"
  BY <1>1 DEF IInv, TypeOK, CommittedIsStored
<1>6. TypeOK'
  <2>1. \A q \in Procs : pc'[q] \in Writing <=> writer' = q
    BY <1>1, <1>4, <1>5, NobodyAssumption DEF Writing
  <2> QED
    BY <1>1, <1>3, <2>1 DEF IInv, TypeOK, Phases
<1>7. DrainedIsWritten'
  BY <1>1 DEF DrainedIsWritten
<1>8. StagedIsNext'
  BY <1>4, <1>5 DEF StagedIsNext, Writing
<1>9. ASSUME NEW r \in Records
      PROVE  rows[r] <= rows'[r] /\ rows[r] \in Nat /\ rows'[r] \in Nat /\ files[r] \in Nat
             /\ \A q \in Procs : staged[q][r] \in Nat
  BY <1>2, <1>3 DEF IInv, TypeOK
<1>10. CommittedIsStored'
  <2>1. ASSUME NEW r \in Records PROVE staged'[p][r] <= rows'[r]
    BY <1>1, <1>2, <1>9
  <2>2. ASSUME NEW q \in Procs, q # p
        PROVE  /\ pc'[q] # "idle" => outcome'[q] = "none"
               /\ pc'[q] \notin {"idle", "mutating"} => \A r \in Records : staged'[q][r] <= rows'[r]
    <3>1. pc[q] \notin {"idle", "mutating"} => \A r \in Records : staged[q][r] <= rows[r]
      BY DEF IInv, CommittedIsStored
    <3>2. pc[q] # "idle" => outcome[q] = "none"
      BY DEF IInv, CommittedIsStored
    <3> QED
      BY <1>1, <1>4, <1>9, <2>2, <3>1, <3>2
  <2> QED
    BY <1>1, <1>5, <2>1, <2>2 DEF CommittedIsStored
<1>11. LagIsCovered'
  <2> SUFFICES ASSUME NEW r \in Records
               PROVE  files'[r] <= rows'[r] /\ (files'[r] # rows'[r] => outbox'[r] = rows'[r])
    BY DEF LagIsCovered
  <2>1. files[r] <= rows[r] /\ (files[r] # rows[r] => outbox[r] = rows[r])
    BY DEF IInv, LagIsCovered
  <2> QED
    BY <1>1, <1>2, <1>9, <2>1
<1>12. OutboxIsCurrent'
  BY <1>2 DEF IInv, OutboxIsCurrent
<1>13. AckedIsPublished'
  <2> SUFFICES ASSUME NEW q \in Procs, NEW r \in Records
               PROVE  /\ outcome'[q] = "ok" => staged'[q][r] <= files'[r]
                      /\ outcome'[q] \in {"ok", "pending"} => staged'[q][r] <= rows'[r]
    BY DEF AckedIsPublished
  <2>1. /\ outcome[q] = "ok" => staged[q][r] <= files[r]
        /\ outcome[q] \in {"ok", "pending"} => staged[q][r] <= rows[r]
    BY DEF IInv, AckedIsPublished
  <2> QED
    BY <1>1, <1>9, <2>1
<1> QED
  BY <1>6, <1>7, <1>8, <1>10, <1>11, <1>12, <1>13 DEF IInv

LEMMA PublishFilePreserves ==
  ASSUME IInv, NEW p \in Procs, NEW r \in Records, PublishFile(p, r)
  PROVE  /\ IInv'
         /\ files' = [files EXCEPT ![r] = rows[r]]
<1>1. /\ pc[p] \in {"flushing", "maintaining"} /\ outbox[r] # 0
      /\ files' = [files EXCEPT ![r] = outbox[r]]
      /\ drained' = drained \union {r}
      /\ UNCHANGED <<rows, outbox, writer, pc, staged, outcome, failures>>
  BY DEF PublishFile, Pending
<1>2. outbox[r] = rows[r]
  BY <1>1 DEF IInv, OutboxIsCurrent
<1>3. ASSUME NEW q \in Records
      PROVE  /\ files'[q] = IF q = r THEN rows[r] ELSE files[q]
             /\ files[q] \in Nat /\ rows[q] \in Nat /\ files[q] <= rows[q]
  BY <1>1, <1>2 DEF IInv, TypeOK, LagIsCovered
<1>4. TypeOK'
  BY <1>1 DEF IInv, TypeOK
<1>5. DrainedIsWritten'
  BY <1>1 DEF IInv, TypeOK, DrainedIsWritten
<1>6. StagedIsNext' /\ CommittedIsStored' /\ OutboxIsCurrent'
  BY <1>1 DEF IInv, StagedIsNext, CommittedIsStored, OutboxIsCurrent
<1>7. LagIsCovered'
  BY <1>1, <1>3 DEF IInv, LagIsCovered
<1>8. AckedIsPublished'
  <2> SUFFICES ASSUME NEW q \in Procs, NEW s \in Records
               PROVE  /\ outcome'[q] = "ok" => staged'[q][s] <= files'[s]
                      /\ outcome'[q] \in {"ok", "pending"} => staged'[q][s] <= rows'[s]
    BY DEF AckedIsPublished
  <2>1. /\ outcome[q] = "ok" => staged[q][s] <= files[s]
        /\ outcome[q] \in {"ok", "pending"} => staged[q][s] <= rows[s]
    BY DEF IInv, AckedIsPublished
  <2>2. staged[q][s] \in Nat
    BY DEF IInv, TypeOK
  <2> QED
    BY <1>1, <1>3, <2>1, <2>2
<1> QED
  BY <1>1, <1>2, <1>4, <1>5, <1>6, <1>7, <1>8 DEF IInv

\* The three ways to commit the deletions; a rebuild finds its rows unchanged.
LEMMA DrainCommits ==
  ASSUME IInv, NEW p \in Procs, CommitFlush(p) \/ Rebuild(p) \/ Export(p)
  PROVE  IInv' /\ UNCHANGED <<rows, files>>
<1>1. /\ pc[p] \in {"flushing", "maintaining"} /\ writer = p
      /\ writer' = Nobody /\ drained' = {} /\ outbox' = Remaining
      /\ UNCHANGED <<files, staged, failures>>
  BY DEF CommitFlush, Rebuild, Export, Release, IInv, TypeOK, Writing
<1>2. files = rows
  BY DrainedIsCurrent DEF CommitFlush, Rebuild, Export
<1>3. rows' = rows
  BY <1>2 DEF CommitFlush, Rebuild, Export
<1>4. PICK phase \in {"idle", "committed"} :
        /\ pc' = [pc EXCEPT ![p] = phase]
        /\ phase = "idle" => outcome' = [outcome EXCEPT ![p] = "ok"]
        /\ phase = "committed" => UNCHANGED outcome
  BY DEF CommitFlush, Rebuild, Export, Return, Go
<1>5. ASSUME NEW q \in Procs, q # p
      PROVE  pc[q] \notin Writing /\ pc'[q] = pc[q] /\ outcome'[q] = outcome[q]
  BY <1>1, <1>4, <1>5 DEF IInv, TypeOK
<1>6. /\ pc'[p] = phase /\ outcome[p] = "none"
      /\ outcome'[p] = IF phase = "idle" THEN "ok" ELSE "none"
  BY <1>1, <1>4 DEF IInv, TypeOK, CommittedIsStored
<1>7. TypeOK'
  <2>1. \A q \in Procs : pc'[q] \in Writing <=> writer' = q
    BY <1>1, <1>5, <1>6, NobodyAssumption DEF Writing
  <2>2. pc' \in [Procs -> Phases] /\ outcome' \in [Procs -> Outcomes]
    BY <1>4 DEF IInv, TypeOK, Phases, Outcomes
  <2> QED
    BY <1>1, <1>3, <2>1, <2>2, RemainingCovers DEF IInv, TypeOK
<1>8. DrainedIsWritten'
  BY <1>1 DEF DrainedIsWritten
<1>9. StagedIsNext'
  BY <1>5, <1>6 DEF StagedIsNext, Writing
<1>10. \A r \in Records : staged[p][r] <= rows[r]
  BY <1>1 DEF IInv, CommittedIsStored
<1>11. CommittedIsStored'
  BY <1>1, <1>3, <1>5, <1>6, <1>10 DEF IInv, CommittedIsStored
<1>12. LagIsCovered' /\ OutboxIsCurrent'
  <2>1. \A r \in Records : files[r] <= rows[r]
    BY DEF IInv, LagIsCovered
  <2> QED
    BY <1>1, <1>3, <2>1, RemainingCovers DEF LagIsCovered, OutboxIsCurrent
<1>13. AckedIsPublished'
  BY <1>1, <1>2, <1>3, <1>5, <1>6, <1>10 DEF IInv, AckedIsPublished
<1> QED
  BY <1>1, <1>3, <1>7, <1>8, <1>9, <1>11, <1>12, <1>13 DEF IInv

-----------------------------------------------------------------------------
(* The theorems.                                                           *)

LEMMA Steps ==
  ASSUME IInv, [Next]_vars
  PROVE  \/ \E p \in Procs :
              \/ Moves(p)
              \/ \E r \in Records : Stage(p, r)
              \/ Commit(p)
              \/ \E r \in Records : PublishFile(p, r)
              \/ CommitFlush(p) \/ Rebuild(p) \/ Export(p)
         \/ UNCHANGED vars
<1>1. CASE UNCHANGED vars
  BY <1>1
<1>2. CASE Next
  <2>1. PICK p \in Procs : \/ Work(p) \/ Rollback(p) \/ FailFlush(p)
                           \/ FailMaintenance(p) \/ Timeout(p) \/ Crash(p)
    BY <1>2 DEF Next
  <2>2. CASE Work(p)
    BY <2>2, BeginMoves, CheckOutboxMoves, BeginFlushMoves DEF Work
  <2>3. CASE Rollback(p) \/ FailFlush(p) \/ FailMaintenance(p)
    BY <2>3, RollbackMoves
  <2>4. CASE Timeout(p) \/ Crash(p)
    BY <2>4, TimeoutMoves, CrashMoves
  <2> QED
    BY <2>1, <2>2, <2>3, <2>4
<1> QED
  BY <1>1, <1>2

LEMMA InitIInv ==
  ASSUME Init
  PROVE  IInv
<1>1. /\ rows = Nothing /\ outbox = Nothing /\ files = Nothing /\ writer = Nobody
      /\ drained = {} /\ failures = 0
      /\ Nothing \in [Records -> Nat] /\ \A r \in Records : Nothing[r] = 0
  BY DEF Init, Nothing
<1>2. /\ pc \in [Procs -> Phases] /\ staged \in [Procs -> [Records -> Nat]]
      /\ outcome \in [Procs -> Outcomes]
      /\ \A p \in Procs : pc[p] = "idle" /\ outcome[p] = "none"
  BY <1>1 DEF Init, Phases, Outcomes
<1>3. TypeOK
  BY <1>1, <1>2, NobodyAssumption DEF TypeOK, Writing
<1>4. DrainedIsWritten /\ LagIsCovered /\ OutboxIsCurrent
  BY <1>1 DEF DrainedIsWritten, LagIsCovered, OutboxIsCurrent
<1>5. StagedIsNext /\ CommittedIsStored /\ AckedIsPublished
  BY <1>2 DEF StagedIsNext, CommittedIsStored, AckedIsPublished
<1> QED
  BY <1>3, <1>4, <1>5 DEF IInv

LEMMA NextIInv ==
  ASSUME IInv, [Next]_vars
  PROVE  IInv'
<1>1. CASE UNCHANGED vars
  BY <1>1 DEF vars, IInv, TypeOK, DrainedIsWritten, StagedIsNext, CommittedIsStored,
              LagIsCovered, OutboxIsCurrent, AckedIsPublished
<1> QED
  BY <1>1, Steps, MovesPreserve, StagePreserves, CommitPreserves, PublishFilePreserves, DrainCommits

\* The strengthened invariant holds in every reachable state.
THEOREM Invariance == Spec => []IInv
<1>1. Init => IInv
  BY InitIInv
<1>2. IInv /\ [Next]_vars => IInv'
  BY NextIInv
<1> QED
  BY <1>1, <1>2, PTL DEF Spec

\* Types, and one process in a transaction, whatever fails or dies when.
THEOREM TypeCorrect == Spec => []TypeOK
<1>1. IInv => TypeOK
  BY DEF IInv
<1> QED
  BY <1>1, Invariance, PTL

\* Nothing is lost between a commit and its files.
THEOREM Covered == Spec => []LagIsCovered
<1>1. IInv => LagIsCovered
  BY DEF IInv
<1> QED
  BY <1>1, Invariance, PTL

\* Replaying the outbox never publishes an old revision.
THEOREM Current == Spec => []OutboxIsCurrent
<1>1. IInv => OutboxIsCurrent
  BY DEF IInv
<1> QED
  BY <1>1, Invariance, PTL

\* A normal return means published, a pending one committed.
THEOREM Acknowledged == Spec => []AckedIsPublished
<1>1. IInv => AckedIsPublished
  BY DEF IInv
<1> QED
  BY <1>1, Invariance, PTL

\* Rebuild and export read files that are the committed table.
THEOREM Maintenance == Spec => []MaintenanceSeesCurrent
<1>1. ASSUME IInv PROVE MaintenanceSeesCurrent
  BY <1>1, DrainedIsCurrent DEF MaintenanceSeesCurrent
<1> QED
  BY <1>1, Invariance, PTL

\* What a step does to a record and its file: a commit adds revisions to some
\* records, a publication brings one file up to date, nothing else touches them.
LEMMA StoreStep ==
  ASSUME IInv, [Next]_vars
  PROVE  \/ \E S \in SUBSET Records : Store!Commit(S)
         \/ \E r \in Records : Store!Publish(r)
         \/ UNCHANGED <<rows, files>>
<1>1. ASSUME NEW p \in Procs, Commit(p)
      PROVE  \E S \in SUBSET Records : Store!Commit(S)
  <2> DEFINE S == {r \in Records : staged[p][r] # 0}
  <2>1. UNCHANGED files /\ pc[p] = "mutating" /\ rows' = Overwrite(rows, staged[p])
    BY <1>1 DEF Commit
  <2>2. ASSUME NEW r \in Records
        PROVE  (IF staged[p][r] # 0 THEN staged[p][r] ELSE rows[r])
                 = rows[r] + (IF r \in S THEN 1 ELSE 0)
    BY <2>1 DEF IInv, StagedIsNext, TypeOK
  <2>3. rows' = [r \in Records |-> rows[r] + (IF r \in S THEN 1 ELSE 0)]
    BY <2>1, <2>2 DEF Overwrite
  <2>4. Store!Commit(S)
    BY <2>1, <2>3 DEF Store!Commit
  <2> QED
    BY <2>4
<1>2. ASSUME NEW p \in Procs, NEW r \in Records, PublishFile(p, r)
      PROVE  Store!Publish(r)
  BY <1>2, PublishFilePreserves DEF PublishFile, Store!Publish
<1>3. ASSUME NEW p \in Procs,
             \/ Moves(p)
             \/ \E r \in Records : Stage(p, r)
             \/ CommitFlush(p) \/ Rebuild(p) \/ Export(p)
      PROVE  UNCHANGED <<rows, files>>
  BY <1>3, DrainCommits DEF Moves, Stage
<1> QED
  BY <1>1, <1>2, <1>3, Steps DEF vars

\* No step takes a record or its file back.
THEOREM Monotone == Spec => NeverRegress
<1> DEFINE A == \A r \in Records : rows[r] <= rows'[r] /\ files[r] <= files'[r]
<1>1. ASSUME IInv, [Next]_vars PROVE [A]_vars
  <2>1. rows \in [Records -> Nat] /\ files \in [Records -> Nat] /\ LagIsCovered
    BY <1>1 DEF IInv, TypeOK
  <2>2. ASSUME NEW S \in SUBSET Records, Store!Commit(S) PROVE A
    BY <2>1, <2>2 DEF Store!Commit
  <2>3. ASSUME NEW r \in Records, Store!Publish(r) PROVE A
    BY <2>1, <2>3 DEF Store!Publish, LagIsCovered
  <2>4. CASE UNCHANGED <<rows, files>>
    BY <2>1, <2>4
  <2> QED
    BY <1>1, <2>2, <2>3, <2>4, StoreStep
<1>2. Spec => [][A]_vars
  BY <1>1, Invariance, PTL DEF Spec
<1> QED
  BY <1>2 DEF NeverRegress

\* The outbox implements the durable store: every step commits, publishes the
\* committed revision, or leaves both alone.  (That everything committed is
\* published at last is checked by TLC only.)
THEOREM Refinement == Spec => Store!Spec
<1>1. Init => Store!Init
  BY DEF Init, Nothing, Store!Init
<1>2. IInv /\ [Next]_vars => [Store!Next]_Store!storeVars
  BY StoreStep DEF Store!Next, Store!storeVars
<1> QED
  BY <1>1, <1>2, Invariance, PTL DEF Spec, Store!Spec

=============================================================================
