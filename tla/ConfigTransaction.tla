------------------------- MODULE ConfigTransaction -------------------------
(***************************************************************************)
(* Batches of client-configuration writes: a batch reads the files it will *)
(* change without a lock, takes the locks of all of them, and              *)
(* replaces them one after the other, each compared with the snapshot      *)
(* taken before (applyAgentPlans, atomicWrite, atomicRemove); a failure    *)
(* puts back what was written (restoreSnapshot).  Editors take no lock.    *)
(* Directories, file modes and symbolic links are left out.                *)
(***************************************************************************)
EXTENDS Naturals, Sequences, FiniteSets, TLC

CONSTANTS Procs,        \* processes that apply one batch each
          Files,        \* configuration files, numbers in the order of their lock paths
          Plan,         \* Plan[p]: the files p's batch changes, in the order of its plans
          Target,       \* Target[p]: the content p gives them, Absent for a removal
          Name,         \* Name[f]: client and base name, which name f's backups
          Final,        \* Final[p]: "none", "promote" (setup) or "plugin" (global install)
          Versions,     \* the contents editors save, one after the other (bounds the edits)
          Start,        \* contents the files may have at first
          Absent,       \* no file
          Emptied,      \* the content a removal's plan carries
          Installed,    \* the content of the global plugin
          Free

ASSUME FilesAssumption == Files \subseteq Nat /\ IsFiniteSet(Files)
ASSUME PlanAssumption == Plan \in [Procs -> Seq(Files)] /\ \A p \in Procs : Plan[p] # <<>>
ASSUME DistinctAssumption ==
    \A p \in Procs : \A i, j \in DOMAIN Plan[p] : Plan[p][i] = Plan[p][j] => i = j
ASSUME VersionsAssumption == Versions \in Seq({Versions[i] : i \in DOMAIN Versions})
ASSUME FreeAssumption == Free \notin Procs /\ Absent \notin {Emptied, Installed}

VARIABLES disk,         \* content of every file
          plugin,       \* content of the global plugin, which no lock covers
          lock, depth,  \* holder of every file's lock, and how often it was taken
          pc, at,       \* where each process is, and in which of its files
          src, orig,    \* what a plan was computed from, and its snapshot
          written,      \* what each file was found to hold after its replacement
          changed,      \* files whose replacement was made
          pluginWas,    \* the plugin at the preparation of a global install
          promoted,     \* finalizers that took effect
          backups, mine,\* backups <<name, content>>, and those a batch created
          outcome,      \* how a batch ended
          racing,       \* batches and files that were edited between two of its steps
          replaced,     \* batches and files that the batch did replace
          dropped,      \* backups and batches that removed them
          edits         \* how many contents editors have saved

vars == <<disk, plugin, lock, depth, pc, at, src, orig, written, changed,
          pluginWas, promoted, backups, mine, outcome, racing, replaced, dropped, edits>>

planVars == <<src, orig, pluginWas>>
lockVars == <<lock, depth>>

Contents == {Versions[i] : i \in DOMAIN Versions} \cup Start \cup {Absent, Emptied} \cup {Target[p] : p \in Procs}
Phases == {"read", "snapshot", "lock", "apply", "compare", "replace", "record",
           "verify", "finalize", "install", "confirm", "undo", "restore", "unlock", "done"}

InPlan(p) == {Plan[p][i] : i \in DOMAIN Plan[p]}
Cur(p) == Plan[p][at[p]]
Removes(p) == Target[p] = Absent

(* What a rollback takes for the batch's own bytes when the write itself   *)
(* failed: plan.content, also when the plan removes the file.              *)
Claimed(p) == IF Removes(p) THEN Emptied ELSE Target[p]

Missing(p) == {f \in InPlan(p) : lock[f] # p}
\* A mutant of NextLock: the locks are taken in the order of the plans.
NextLockUnsorted(p) ==
    LET free == {i \in DOMAIN Plan[p] : Plan[p][i] \in Missing(p)}
    IN  Plan[p][CHOOSE i \in free : \A j \in free : i <= j]

NextLock(p) == CHOOSE f \in Missing(p) : \A g \in Missing(p) : f <= g

Committed(p) == {Plan[p][i] : i \in 1 .. (at[p] - 1)}

Init ==
    /\ disk \in [Files -> Start \cup {Absent}]
    /\ plugin = Absent
    /\ lock = [f \in Files |-> Free]
    /\ depth = [f \in Files |-> 0]
    /\ pc = [p \in Procs |-> "read"]
    /\ at = [p \in Procs |-> 1]
    /\ src = [p \in Procs |-> [f \in Files |-> Absent]]
    /\ orig = src
    /\ written = src
    /\ changed = [p \in Procs |-> {}]
    /\ pluginWas = [p \in Procs |-> Absent]
    /\ promoted = {}
    /\ backups = {}
    /\ mine = [p \in Procs |-> {}]
    /\ outcome = [p \in Procs |-> "none"]
    /\ racing = {}
    /\ replaced = {}
    /\ dropped = {}
    /\ edits = 0

Goto(p, where) == pc' = [pc EXCEPT ![p] = where]
GotoAt(p, where, i) == Goto(p, where) /\ at' = [at EXCEPT ![p] = i]
-----------------------------------------------------------------------------
(* Preparation, without locks: the text a plan is computed from, then the  *)
(* snapshot the replacement will be compared with.                         *)

Read(p) ==
    /\ pc[p] = "read"
    /\ src' = [src EXCEPT ![p][Cur(p)] = disk[Cur(p)]]
    /\ Goto(p, "snapshot")
    /\ UNCHANGED <<disk, plugin, lockVars, at, orig, written, changed, pluginWas,
                   promoted, backups, mine, outcome, racing, replaced, dropped, edits>>

Snapshot(p) ==
    /\ pc[p] = "snapshot"
    /\ orig' = [orig EXCEPT ![p][Cur(p)] = disk[Cur(p)]]
    /\ pluginWas' = [pluginWas EXCEPT ![p] = IF at[p] = 1 THEN plugin ELSE @]
    /\ IF at[p] < Len(Plan[p]) THEN GotoAt(p, "read", at[p] + 1) ELSE GotoAt(p, "lock", 1)
    /\ UNCHANGED <<disk, plugin, lockVars, src, written, changed,
                   promoted, backups, mine, outcome, racing, replaced, dropped, edits>>

(* acquireFileLocks: all locks of the batch, in the order of their paths.  *)
Lock(p) ==
    /\ pc[p] = "lock"
    /\ lock[NextLock(p)] = Free
    /\ lock' = [lock EXCEPT ![NextLock(p)] = p]
    /\ depth' = [depth EXCEPT ![NextLock(p)] = 1]
    /\ IF Cardinality(Missing(p)) = 1 THEN Goto(p, "apply") ELSE UNCHANGED pc
    /\ UNCHANGED <<disk, plugin, at, planVars, written, changed,
                   promoted, backups, mine, outcome, racing, replaced, dropped, edits>>

(* One release of every lock; the last one gives the lock back.            *)
Released(p, fs) ==
    /\ depth' = [f \in Files |-> IF f \in fs /\ lock[f] = p THEN depth[f] - 1 ELSE depth[f]]
    /\ lock' = [f \in Files |-> IF lock[f] = p /\ depth'[f] = 0 THEN Free ELSE lock[f]]

LockTimeout(p) ==
    /\ pc[p] = "lock"
    /\ lock[NextLock(p)] \notin {Free, p}
    /\ Released(p, Files)
    /\ Goto(p, "done")
    /\ outcome' = [outcome EXCEPT ![p] = "failed"]
    /\ UNCHANGED <<disk, plugin, at, planVars, written, changed,
                   promoted, backups, mine, racing, replaced, dropped, edits>>
-----------------------------------------------------------------------------
\* A mutant of Failed: the failed file itself is not rolled back.
FailedUnrestored(p, nothingWritten) ==
    GotoAt(p, "undo", at[p] - 1) /\ UNCHANGED <<written, changed>>

\* A mutant of Failed: what is found in the file is taken for its own.
FailedFound(p, nothingWritten) ==
    IF nothingWritten
    THEN GotoAt(p, "undo", at[p] - 1) /\ UNCHANGED <<written, changed>>
    ELSE /\ Goto(p, "undo")
         /\ written' = [written EXCEPT ![p][Cur(p)] = disk[Cur(p)]]
         /\ changed' = [changed EXCEPT ![p] = @ \cup {Cur(p)}]
         /\ UNCHANGED at

(* A failed replacement goes into the same rollback as a batch: nothing to *)
(* undo when nothing was written, else the file is claimed as written.     *)
Failed(p, nothingWritten) ==
    IF nothingWritten
    THEN GotoAt(p, "undo", at[p] - 1) /\ UNCHANGED <<written, changed>>
    ELSE /\ Goto(p, "undo")
         /\ written' = [written EXCEPT ![p][Cur(p)] = Claimed(p)]
         /\ changed' = [changed EXCEPT ![p] = @ \cup {Cur(p)}]
         /\ UNCHANGED at

(* The operation takes its file's lock again and looks at the file.        *)
Unneeded(p) == disk[Cur(p)] = Target[p]

(* The immutable copy of the file's content, made unless it exists.        *)
Copy(p) == {<<Name[Cur(p)], c>> : c \in {disk[Cur(p)]} \ {Absent}}

Open(p) ==
    /\ pc[p] = "apply"
    /\ at[p] <= Len(Plan[p])
    /\ orig[p][Cur(p)] = disk[Cur(p)]
    /\ IF Unneeded(p)
       THEN /\ written' = [written EXCEPT ![p][Cur(p)] = orig[p][Cur(p)]]
            /\ GotoAt(p, "verify", at[p] + 1)
            /\ UNCHANGED <<depth, backups, mine>>
       ELSE /\ depth' = [depth EXCEPT ![Cur(p)] = @ + 1]
            /\ backups' = backups \cup Copy(p)
            /\ mine' = [mine EXCEPT ![p] = @ \cup (Copy(p) \ backups)]
            /\ Goto(p, "compare")
            /\ UNCHANGED <<written, at>>
    /\ UNCHANGED <<disk, plugin, lock, planVars, changed, promoted, outcome, racing, replaced, dropped, edits>>

ChangedSincePreflight(p) ==
    /\ pc[p] = "apply"
    /\ at[p] <= Len(Plan[p])
    /\ orig[p][Cur(p)] # disk[Cur(p)]
    /\ IF Removes(p) /\ orig[p][Cur(p)] = Absent
       THEN \* noOp: nothing is compared, the file's absence at the preflight counts
            /\ written' = [written EXCEPT ![p][Cur(p)] = Absent]
            /\ GotoAt(p, "verify", at[p] + 1)
            /\ UNCHANGED changed
       ELSE Failed(p, FALSE)
    /\ UNCHANGED <<disk, plugin, lockVars, planVars, promoted, backups, mine, outcome, racing, replaced, dropped, edits>>

\* A mutant of OwnBackup: a backup found is cleaned up like one made.
OwnBackupOrFound(p) == {<<Name[Cur(p)], orig[p][Cur(p)]>>}

OwnBackup(p) == {<<Name[Cur(p)], orig[p][Cur(p)]>>} \cap mine[p]

DropBackup(p) ==
    /\ backups' = backups \ OwnBackup(p)
    /\ mine' = [mine EXCEPT ![p] = @ \ OwnBackup(p)]
    /\ dropped' = dropped \cup (OwnBackup(p) \X {p})

Abandon(p, nothingWritten) ==
    /\ Failed(p, nothingWritten)
    /\ DropBackup(p)
    /\ Released(p, {Cur(p)})
    /\ UNCHANGED <<disk, plugin, planVars, promoted, outcome, racing, replaced, edits>>

\* A mutant of Compare: the first comparison is thought to be enough.
CompareOnce(p) ==
    /\ pc[p] = "compare"
    /\ Goto(p, "replace")
    /\ UNCHANGED <<disk, plugin, lockVars, at, planVars, written, changed,
                   promoted, backups, mine, outcome, racing, replaced, dropped, edits>>

(* The temporary file is written and the target compared once more.        *)
Compare(p) ==
    /\ pc[p] = "compare"
    /\ \/ /\ disk[Cur(p)] = orig[p][Cur(p)]
          /\ Goto(p, "replace")
          /\ UNCHANGED <<disk, plugin, lockVars, at, planVars, written, changed,
                         promoted, backups, mine, outcome, racing, replaced, dropped, edits>>
       \/ /\ disk[Cur(p)] # orig[p][Cur(p)]
          /\ Abandon(p, TRUE)
       \/ \* the temporary file or the backup cannot be written
          Abandon(p, disk[Cur(p)] = orig[p][Cur(p)])

Replace(p) ==
    /\ pc[p] = "replace"
    /\ disk' = [disk EXCEPT ![Cur(p)] = Target[p]]
    /\ changed' = [changed EXCEPT ![p] = @ \cup {Cur(p)}]
    /\ replaced' = replaced \cup {<<p, Cur(p)>>}
    /\ Goto(p, "record")
    /\ UNCHANGED <<plugin, lockVars, at, planVars, written, promoted,
                   backups, mine, outcome, racing, dropped, edits>>

(* After the replacement: its result is read back, or something fails.     *)
Record(p) ==
    /\ pc[p] = "record"
    /\ \/ /\ written' = [written EXCEPT ![p][Cur(p)] = IF Removes(p) THEN Absent ELSE disk[Cur(p)]]
          /\ GotoAt(p, "verify", at[p] + 1)
          /\ Released(p, {Cur(p)})
          /\ UNCHANGED <<disk, plugin, planVars, changed, promoted, backups, mine, outcome, racing, replaced, dropped, edits>>
       \/ Abandon(p, disk[Cur(p)] = orig[p][Cur(p)])

Intact(p) == \A f \in Committed(p) : disk[f] = written[p][f]

(* verifyCommittedAgentPlans after each file.                              *)
Verify(p) ==
    /\ pc[p] = "verify"
    /\ IF ~ Intact(p) THEN GotoAt(p, "undo", at[p] - 1)
       ELSE IF at[p] <= Len(Plan[p]) THEN Goto(p, "apply") /\ UNCHANGED at
       ELSE Goto(p, "finalize") /\ UNCHANGED at
    /\ UNCHANGED <<disk, plugin, lockVars, planVars, written, changed,
                   promoted, backups, mine, outcome, racing, replaced, dropped, edits>>
-----------------------------------------------------------------------------
(* The finalizer: nothing, setup's promotion of the prepared vault, or the *)
(* global plugin, which is compared and then replaced.                     *)

Undo(p) == GotoAt(p, "undo", at[p] - 1)

PromoteSetup(p) ==
    /\ Final[p] = "promote"
    /\ promoted' = promoted \cup {p}
    /\ Goto(p, "confirm")
    /\ UNCHANGED at

FindPlugin(p) ==
    /\ Final[p] = "plugin"
    /\ plugin = pluginWas[p]
    /\ Goto(p, "install")
    /\ UNCHANGED <<at, promoted>>

Finalize(p) ==
    /\ pc[p] = "finalize"
    /\ \/ /\ Final[p] = "none"
          /\ Goto(p, "confirm")
          /\ UNCHANGED <<at, promoted>>
       \/ PromoteSetup(p)
       \/ FindPlugin(p)
       \/ /\ Final[p] # "none"
          /\ Undo(p)
          /\ UNCHANGED promoted
    /\ UNCHANGED <<disk, plugin, lockVars, planVars, written, changed,
                   backups, mine, outcome, racing, replaced, dropped, edits>>

Install(p) ==
    /\ pc[p] = "install"
    /\ plugin' = Installed
    /\ promoted' = promoted \cup {p}
    /\ Goto(p, "confirm")
    /\ UNCHANGED <<disk, lockVars, at, planVars, written, changed,
                   backups, mine, outcome, racing, replaced, dropped, edits>>

\* A mutant of Confirm that leaves the plugin of a failed batch installed.
ConfirmHalf(p) ==
    /\ pc[p] = "confirm"
    /\ IF Intact(p)
       THEN /\ Goto(p, "unlock")
            /\ outcome' = [outcome EXCEPT ![p] = "committed"]
            /\ UNCHANGED at
       ELSE Undo(p) /\ UNCHANGED outcome
    /\ UNCHANGED <<disk, plugin, lockVars, planVars, written, changed, promoted,
                   backups, mine, racing, replaced, dropped, edits>>

(* The last verification; then the finalization is undone if it can be.    *)
Confirm(p) ==
    /\ pc[p] = "confirm"
    /\ IF Intact(p)
       THEN /\ Goto(p, "unlock")
            /\ outcome' = [outcome EXCEPT ![p] = "committed"]
            /\ UNCHANGED <<plugin, at, promoted>>
       ELSE /\ Undo(p)
            /\ IF Final[p] = "plugin"
               THEN IF plugin = Installed
                    THEN /\ plugin' = pluginWas[p]
                         /\ promoted' = promoted \ {p}
                         /\ UNCHANGED outcome
                    ELSE /\ outcome' = [outcome EXCEPT ![p] = "incomplete"]
                         /\ UNCHANGED <<plugin, promoted>>
               ELSE UNCHANGED <<plugin, promoted, outcome>>
    /\ UNCHANGED <<disk, lockVars, planVars, written, changed, backups, mine, racing, replaced, dropped, edits>>
-----------------------------------------------------------------------------
(* restoreSnapshot on the files of the batch, last first.                  *)

UndoFile(p) ==
    /\ pc[p] = "undo"
    /\ \/ /\ at[p] = 0
          /\ Goto(p, "unlock")
          /\ outcome' = [outcome EXCEPT ![p] = IF @ = "none" THEN "failed" ELSE @]
          /\ UNCHANGED <<at, backups, mine, dropped>>
       \/ /\ at[p] > 0
          /\ Cur(p) \notin changed[p]
          /\ GotoAt(p, "undo", at[p] - 1)
          /\ UNCHANGED <<outcome, backups, mine, dropped>>
       \/ /\ at[p] > 0
          /\ Cur(p) \in changed[p]
          /\ disk[Cur(p)] # written[p][Cur(p)]
          /\ outcome' = [outcome EXCEPT ![p] = "incomplete"]
          /\ DropBackup(p)
          /\ GotoAt(p, "undo", at[p] - 1)
       \/ /\ at[p] > 0
          /\ Cur(p) \in changed[p]
          /\ disk[Cur(p)] = written[p][Cur(p)]
          /\ Goto(p, "restore")
          /\ UNCHANGED <<at, outcome, backups, mine, dropped>>
    /\ UNCHANGED <<disk, plugin, lockVars, planVars, written, changed, promoted, racing, replaced, edits>>

Restore(p) ==
    /\ pc[p] = "restore"
    /\ disk' = [disk EXCEPT ![Cur(p)] = orig[p][Cur(p)]]
    /\ DropBackup(p)
    /\ GotoAt(p, "undo", at[p] - 1)
    /\ UNCHANGED <<plugin, lockVars, planVars, written, changed, promoted, outcome, racing, replaced, edits>>

Unlock(p) ==
    /\ pc[p] = "unlock"
    /\ Released(p, InPlan(p))
    /\ Goto(p, "done")
    /\ UNCHANGED <<disk, plugin, at, planVars, written, changed, promoted,
                   backups, mine, outcome, racing, replaced, dropped, edits>>

(* The process is killed: its locks are given back, its files stay.        *)
Kill(p) ==
    /\ pc[p] \notin {"read", "snapshot", "done"}
    /\ lock' = [f \in Files |-> IF lock[f] = p THEN Free ELSE lock[f]]
    /\ depth' = [f \in Files |-> IF lock[f] = p THEN 0 ELSE depth[f]]
    /\ Goto(p, "done")
    /\ outcome' = [outcome EXCEPT ![p] = "killed"]
    /\ UNCHANGED <<disk, plugin, at, planVars, written, changed, promoted,
                   backups, mine, racing, replaced, dropped, edits>>

(* An editor saves a file, or another program removes it.  A batch that is *)
(* between looking at the file and acting on what it saw cannot notice.    *)
Blind(p, f) ==
    /\ f = Cur(p)
    /\ pc[p] \in {"snapshot", "replace", "record", "restore"}

Edit(f, c) ==
    /\ edits < Len(Versions)
    /\ disk[f] # c
    /\ disk' = [disk EXCEPT ![f] = c]
    /\ edits' = edits + 1
    /\ racing' = racing \cup {<<p, f>> : p \in {q \in Procs : at[q] \in DOMAIN Plan[q] /\ Blind(q, f)}}
    /\ UNCHANGED <<plugin, lockVars, pc, at, planVars, written, changed, promoted,
                   backups, mine, outcome, replaced, dropped>>

(* uninstallGlobalOpenCode, which takes no lock either.                    *)
Uninstall ==
    /\ edits < Len(Versions)
    /\ plugin # Absent
    /\ plugin' = Absent
    /\ edits' = edits + 1
    /\ UNCHANGED <<disk, lockVars, pc, at, planVars, written, changed, promoted,
                   backups, mine, outcome, racing, replaced, dropped>>
-----------------------------------------------------------------------------
Step(p) ==
    \/ Read(p) \/ Snapshot(p) \/ Lock(p)
    \/ Open(p) \/ ChangedSincePreflight(p) \/ Compare(p) \/ Replace(p) \/ Record(p) \/ Verify(p)
    \/ Finalize(p) \/ Install(p) \/ Confirm(p)
    \/ UndoFile(p) \/ Restore(p) \/ Unlock(p)

Next ==
    \/ \E p \in Procs : Step(p) \/ LockTimeout(p) \/ Kill(p)
    \/ \E f \in Files : edits < Len(Versions) /\ \E c \in {Versions[edits + 1], Absent} : Edit(f, c)
    \/ Uninstall

(* A process that runs goes on; a wait for a lock may last.                *)
Spec == Init /\ [][Next]_vars /\ \A p \in Procs : WF_vars(Step(p))
-----------------------------------------------------------------------------
TypeOK ==
    /\ disk \in [Files -> Contents]
    /\ plugin \in {Absent, Installed}
    /\ lock \in [Files -> Procs \cup {Free}]
    /\ depth \in [Files -> 0 .. 2]
    /\ pc \in [Procs -> Phases]
    /\ at \in [Procs -> Nat]
    /\ src \in [Procs -> [Files -> Contents]]
    /\ orig \in [Procs -> [Files -> Contents]]
    /\ written \in [Procs -> [Files -> Contents]]
    /\ changed \in [Procs -> SUBSET Files]
    /\ pluginWas \in [Procs -> {Absent, Installed}]
    /\ promoted \subseteq Procs
    /\ outcome \in [Procs -> {"none", "committed", "failed", "incomplete", "killed"}]
    /\ racing \subseteq (Procs \X Files)
    /\ replaced \subseteq (Procs \X Files)
    /\ edits \in Nat

Working == Phases \ {"read", "snapshot", "lock", "done"}

(* A batch that works on its files holds the locks of all of them until    *)
(* its end, although every operation takes and gives back the lock of its  *)
(* file: re-entrant locks are counted (file-lock.js).                      *)
LocksHeld == \A p \in Procs : pc[p] \in Working => \A f \in InPlan(p) : lock[f] = p

(* What a replacement overwrites is what the batch saw, and what a         *)
(* rollback overwrites is what the batch itself had written: a content     *)
(* saved by somebody else is lost only when it was saved between the last  *)
(* comparison and the write, or when it is, byte for byte, what the batch  *)
(* was going to write (atomicWrite, restoreSnapshot).                      *)
NoSilentLoss ==
    \A p \in Procs : pc[p] \in {"replace", "restore"} /\ <<p, Cur(p)>> \notin racing =>
        IF pc[p] = "replace" THEN disk[Cur(p)] = orig[p][Cur(p)]
        ELSE \/ <<p, Cur(p)>> \in replaced /\ disk[Cur(p)] = written[p][Cur(p)]
             \/ disk[Cur(p)] = IF Removes(p) THEN Emptied ELSE Target[p]

(* The same of what another batch committed, without the last exception.   *)
(* The code does not keep this: a batch whose preflight the other overtook *)
(* takes the other's identical content for its own (the inner catch of     *)
(* applyAgentPlans) and puts back what was there before both.              *)
CommittedIsLeft ==
    \A p, q \in Procs :
        pc[p] = "restore" /\ outcome[q] = "committed" /\ <<q, Cur(p)>> \in replaced =>
            <<p, Cur(p)>> \in racing \cup replaced

(* A batch that reports a complete rollback has put back every file it     *)
(* changed (applyAgentPlans), provided no editor was at work.              *)
CleanFailure ==
    \A p \in Procs :
        pc[p] = "unlock" /\ outcome[p] = "failed" /\ edits = 0 =>
            \A f \in changed[p] : disk[f] = orig[p][f]

Shares(q, f) == \E g \in InPlan(q) \ {f} : Name[g] = Name[f]

(* What a successful batch replaced can be found in its backups, whatever  *)
(* other batches do with theirs, unless one that changes another file of   *)
(* the same name removed the copy the two had in common                    *)
(* (backupExisting, cleanupBackupArtifacts).                               *)
BackupKept ==
    \A p \in Procs :
        outcome[p] = "committed" =>
            \A f \in changed[p] : orig[p][f] # Absent =>
                \/ <<Name[f], orig[p][f]>> \in backups
                \/ \E q \in Procs \ {p} : <<<<Name[f], orig[p][f]>>, q>> \in dropped /\ Shares(q, f)

(* The same without the exception, which the code does not keep: a backup  *)
(* found is not claimed, and whoever made it removes it with its rollback  *)
(* (createdFile in backupExisting).                                        *)
BackupNeverLost ==
    \A p \in Procs :
        outcome[p] = "committed" =>
            \A f \in changed[p] : orig[p][f] # Absent => <<Name[f], orig[p][f]>> \in backups

(* A global install that failed has put the plugin back: no installed      *)
(* plugin next to restored project files (commitGlobalPlugin's rollback).  *)
NoHalfInstall == \A p \in promoted : Final[p] = "plugin" => outcome[p] # "failed"

(* A batch that waits for its locks ends: batches take them in one order   *)
(* and so never wait for each other in a circle (acquireFileLocks).        *)
BatchEnds == \A p \in Procs : pc[p] = "lock" ~> pc[p] = "done"
=============================================================================
