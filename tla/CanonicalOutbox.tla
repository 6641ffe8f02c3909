-------------------------- MODULE CanonicalOutbox ---------------------------
(***************************************************************************)
(* How the processes that share a vault keep the canonical record files    *)
(* in step with its SQLite tables (ContextVault in src/store.js).          *)
(*                                                                         *)
(* A memory transaction writes rows and, in the same commit, the files'    *)
(* new contents into the outbox table canonical_record_writes; the files   *)
(* are written afterwards, under a writer transaction of their own.  A     *)
(* step here is one SQLite statement that takes or releases the writer     *)
(* lock, or the rename of one file; between any two a process may fail or  *)
(* die, and other processes run.                                           *)
(*                                                                         *)
(* The contents of a record are its revision.  A rename replaces a file    *)
(* atomically; a file written before a rollback or a crash stays written.  *)
(***************************************************************************)
EXTENDS Naturals

CONSTANTS
  Procs,        \* The processes that have the vault open.
  Nobody,       \* The holder of a free lock.
  Records,      \* The record ids.
  MaxRevision,  \* Bounds the revisions of a record.
  MaxFailures   \* Bounds errors, timeouts and crashes.

ASSUME NobodyAssumption == Nobody \notin Procs
ASSUME BoundsAssumption == MaxRevision \in Nat /\ MaxFailures \in Nat

VARIABLES
  rows,         \* memory_records: the committed revision of every record.
  outbox,       \* canonical_record_writes: the revision to publish; 0 is no row.
  files,        \* records/<id>.md: the revision in the file.
  writer,       \* The process inside BEGIN IMMEDIATE.
  drained,      \* The outbox rows it has written out and deleted, uncommitted.
  pc,           \* Where each process is in its call.
  staged,       \* The revisions its transaction wrote; 0 is none.
  outcome,      \* How its last call ended.
  failures      \* The failures so far.

vars == <<rows, outbox, files, writer, drained, pc, staged, outcome, failures>>

Nothing == [r \in Records |-> 0]

Phases == {"idle", "mutating", "committed", "contending", "flushing", "maintaining"}

\* The phases of a process inside a transaction.
Writing == {"mutating", "flushing", "maintaining"}

Outcomes == {"none", "ok", "failed", "pending"}

\* Every variable has its type, and the process that holds the writer lock is
\* the one inside a transaction.
TypeOK ==
  /\ rows \in [Records -> Nat]
  /\ outbox \in [Records -> Nat]
  /\ files \in [Records -> Nat]
  /\ writer \in Procs \union {Nobody}
  /\ drained \in SUBSET Records
  /\ pc \in [Procs -> Phases]
  /\ staged \in [Procs -> [Records -> Nat]]
  /\ outcome \in [Procs -> Outcomes]
  /\ failures \in Nat
  /\ \A p \in Procs : pc[p] \in Writing <=> writer = p

Init ==
  /\ rows = Nothing /\ outbox = Nothing /\ files = Nothing
  /\ writer = Nobody
  /\ drained = {}
  /\ pc = [p \in Procs |-> "idle"]
  /\ staged = [p \in Procs |-> Nothing]
  /\ outcome = [p \in Procs |-> "none"]
  /\ failures = 0

-----------------------------------------------------------------------------

Go(p, phase) == pc' = [pc EXCEPT ![p] = phase]

\* BEGIN IMMEDIATE, once no other process is in a transaction.
Acquire(p) == writer = Nobody /\ writer' = p /\ drained' = {}

Release == writer' = Nobody /\ drained' = {}

Return(p, how) == Go(p, "idle") /\ outcome' = [outcome EXCEPT ![p] = how]

Fail == failures < MaxFailures /\ failures' = failures + 1

\* SELECT record_id, contents FROM canonical_record_writes
Pending == {r \in Records : outbox[r] # 0}

-----------------------------------------------------------------------------
(* A mutation: runTransaction(operation).                                  *)

Begin(p, phase) ==
  /\ pc[p] = "idle"
  /\ Acquire(p)
  /\ Go(p, phase)
  /\ staged' = [staged EXCEPT ![p] = Nothing]
  /\ outcome' = [outcome EXCEPT ![p] = "none"]
  /\ UNCHANGED <<rows, outbox, files, failures>>

\* writeCanonical and indexRecordUnsafe, inside the transaction.
Stage(p, r) ==
  /\ pc[p] = "mutating"
  /\ staged[p][r] = 0
  /\ rows[r] < MaxRevision
  /\ staged' = [staged EXCEPT ![p][r] = rows[r] + 1]
  /\ UNCHANGED <<rows, outbox, files, writer, drained, pc, outcome, failures>>

Overwrite(f, g) == [r \in Records |-> IF g[r] # 0 THEN g[r] ELSE f[r]]

\* A mutant of Commit: ON CONFLICT(record_id) DO NOTHING.
CommitKeepingPending(p) ==
  /\ pc[p] = "mutating"
  /\ rows' = Overwrite(rows, staged[p])
  /\ outbox' = Overwrite(staged[p], outbox)
  /\ Release
  /\ Go(p, "committed")
  /\ UNCHANGED <<files, staged, outcome, failures>>

\* COMMIT: rows and outbox change together.  A transaction that staged nothing
\* (an audit entry, the migration on opening the vault) commits here as well.
Commit(p) ==
  /\ pc[p] = "mutating"
  /\ rows' = Overwrite(rows, staged[p])
  /\ outbox' = Overwrite(outbox, staged[p])
  /\ Release
  /\ Go(p, "committed")
  /\ UNCHANGED <<files, staged, outcome, failures>>

\* ROLLBACK after an error in the operation.
Rollback(p) ==
  /\ pc[p] = "mutating"
  /\ Fail
  /\ Release
  /\ Return(p, "failed")
  /\ UNCHANGED <<rows, outbox, files, staged>>

-----------------------------------------------------------------------------
(* Publication: flushCanonicalWrites, after every commit.                  *)

\* A mutant of CheckOutbox: publication is left to others.
SkipFlush(p) ==
  /\ pc[p] = "committed"
  /\ Return(p, "pending")
  /\ UNCHANGED <<rows, outbox, files, writer, drained, staged, failures>>

\* SELECT 1, outside a transaction.
CheckOutbox(p) ==
  /\ pc[p] = "committed"
  /\ IF Pending = {} THEN Return(p, "ok") ELSE Go(p, "contending") /\ UNCHANGED outcome
  /\ UNCHANGED <<rows, outbox, files, writer, drained, staged, failures>>

BeginFlush(p) ==
  /\ pc[p] = "contending"
  /\ Acquire(p)
  /\ Go(p, "flushing")
  /\ UNCHANGED <<rows, outbox, files, staged, outcome, failures>>

\* writeCanonicalFile, and DELETE of the outbox row.  (The code goes through
\* the rows by record id; nothing depends on the order.)
PublishFile(p, r) ==
  /\ pc[p] \in {"flushing", "maintaining"}
  /\ r \in Pending \ drained
  /\ files' = [files EXCEPT ![r] = outbox[r]]
  /\ drained' = drained \union {r}
  /\ UNCHANGED <<rows, outbox, writer, pc, staged, outcome, failures>>

\* What the outbox holds once the deletions commit.
Remaining == [r \in Records |-> IF r \in drained THEN 0 ELSE outbox[r]]

CommitFlush(p) ==
  /\ pc[p] = "flushing"
  /\ Pending \subseteq drained
  /\ outbox' = Remaining
  /\ Release
  /\ Return(p, "ok")
  /\ UNCHANGED <<rows, files, staged, failures>>

\* A mutant of FailFlush: the error is dropped.
FailFlushSilently(p) ==
  /\ pc[p] = "flushing"
  /\ Fail
  /\ Release
  /\ Return(p, "ok")
  /\ UNCHANGED <<rows, outbox, files, staged>>

\* A file cannot be written: the deletions roll back, the files written before
\* stay, and the caller learns that its commit is pending.
FailFlush(p) ==
  /\ pc[p] = "flushing"
  /\ Fail
  /\ Release
  /\ Return(p, "pending")
  /\ UNCHANGED <<rows, outbox, files, staged>>

-----------------------------------------------------------------------------
(* Maintenance: rebuildIndex and exportJsonl publish what is pending, then *)
(* read the files, in one transaction.                                     *)

\* The rows are replaced by what the files hold, unless one lacks its file.
Rebuild(p) ==
  /\ pc[p] = "maintaining"
  /\ Pending \subseteq drained
  /\ \A r \in Records : rows[r] # 0 => files[r] # 0
  /\ rows' = files
  /\ outbox' = Remaining
  /\ Release
  /\ Go(p, "committed")
  /\ UNCHANGED <<files, staged, outcome, failures>>

Export(p) ==
  /\ pc[p] = "maintaining"
  /\ Pending \subseteq drained
  /\ outbox' = Remaining
  /\ Release
  /\ Go(p, "committed")
  /\ UNCHANGED <<rows, files, staged, outcome, failures>>

\* An error of the transaction, or a file that cannot be written, which is
\* reported as a pending projection here as well.
FailMaintenance(p) ==
  /\ pc[p] = "maintaining"
  /\ Fail
  /\ Release
  /\ \E how \in {"failed", "pending"} : Return(p, how)
  /\ UNCHANGED <<rows, outbox, files, staged>>

-----------------------------------------------------------------------------
(* Timeouts and crashes.                                                   *)

\* busy_timeout expires while another process holds the lock: the call of an
\* idle process fails, a committed one's is pending.
Timeout(p) ==
  /\ pc[p] \in {"idle", "contending"}
  /\ writer # Nobody
  /\ Fail
  /\ Return(p, IF pc[p] = "idle" THEN "failed" ELSE "pending")
  /\ staged' = IF pc[p] = "idle" THEN [staged EXCEPT ![p] = Nothing] ELSE staged
  /\ UNCHANGED <<rows, outbox, files, writer, drained>>

\* The process dies and the vault is opened again: SQLite rolls its
\* transaction back.
Crash(p) ==
  /\ pc[p] # "idle"
  /\ Fail
  /\ IF writer = p THEN Release ELSE UNCHANGED <<writer, drained>>
  /\ Return(p, "none")
  /\ UNCHANGED <<rows, outbox, files, staged>>

-----------------------------------------------------------------------------

\* What a process does when nothing fails.
Work(p) ==
  \/ Begin(p, "mutating")
  \/ Begin(p, "maintaining")
  \/ \E r \in Records : Stage(p, r)
  \/ Commit(p)
  \/ CheckOutbox(p)
  \/ BeginFlush(p)
  \/ \E r \in Records : PublishFile(p, r)
  \/ CommitFlush(p)
  \/ Rebuild(p)
  \/ Export(p)

Next ==
  \E p \in Procs :
    \/ Work(p)
    \/ Rollback(p)
    \/ FailFlush(p)
    \/ FailMaintenance(p)
    \/ Timeout(p)
    \/ Crash(p)

Spec == Init /\ [][Next]_vars

\* Processes keep running, and opening or using the vault.
LiveSpec == Spec /\ \A p \in Procs : WF_vars(Work(p))

-----------------------------------------------------------------------------
(* Properties.                                                             *)

\* A file never holds a revision that was not committed, and where it lags
\* behind the table, whatever failed or died, the outbox still holds exactly
\* the committed revision: nothing is lost between the commit and the file.
LagIsCovered ==
  \A r \in Records :
    /\ files[r] <= rows[r]
    /\ files[r] # rows[r] => outbox[r] = rows[r]

\* What the outbox holds is never older than the table: replaying it cannot
\* put an old revision over a newer one or a tombstone.
OutboxIsCurrent == \A r \in Records : outbox[r] \in {0, rows[r]}

\* A call that returned normally has its writes in the files, or newer ones; one
\* that reported a pending projection has them in the table.
AckedIsPublished ==
  \A p \in Procs, r \in Records :
    /\ outcome[p] = "ok" => staged[p][r] <= files[r]
    /\ outcome[p] \in {"ok", "pending"} => staged[p][r] <= rows[r]

\* Once a rebuild or an export has published what was pending, the files it
\* reads are the table, although other processes commit before and after.
MaintenanceSeesCurrent ==
  \A p \in Procs :
    pc[p] = "maintaining" /\ Pending \subseteq drained => files = rows

\* No step takes a record or its file back to an earlier revision.
NeverRegress ==
  [][\A r \in Records : rows[r] <= rows'[r] /\ files[r] <= files'[r]]_vars

Store == INSTANCE DurableStore WITH committed <- rows, published <- files

\* The outbox implements the durable store: commits become visible at once,
\* files only ever take the committed revision, and, if failures are finitely
\* many and the vault stays in use, every committed revision is published.
ImplementsStore == Store!LiveSpec

=============================================================================
