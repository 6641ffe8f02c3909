--------------------------- MODULE HandoffLineage ---------------------------
(***************************************************************************)
(* The handoff checkpoints of one task of one project in a ContinuityDB    *)
(* vault: how agents save them, how a reviewer approves, revises, corrects *)
(* and forgets them, and which one a new session is started from           *)
(* (ContextVault in src/store.js).                                         *)
(*                                                                         *)
(* Each operation runs under one BEGIN IMMEDIATE transaction, from its     *)
(* first read to its last write, so it is one action here; the processes   *)
(* that share the vault interleave between them.  An operation the code    *)
(* rejects rolls back and is not a step.                                   *)
(*                                                                         *)
(* Tenant, owner, project and task are fixed: no operation changes them    *)
(* and no query crosses them.  The prose of a checkpoint is left out, its  *)
(* identity, branch and predecessor are kept.  Wall-clock expiry becomes   *)
(* the three values of Expiries, validity the four of Validities.          *)
(***************************************************************************)
EXTENDS Naturals, FiniteSets

CONSTANTS
  MaxRows,      \* Bounds the rows inserted.
  Agents,       \* The agents that save checkpoints.
  Branches,     \* The branches named by checkpoints; the null branch is one.
  NoBranch,     \* The null branch, whose checkpoints are recalled as fallback.
  GlobalBranch, \* The name "global", which keys write for the null branch.
  Checkpoints,  \* The caller-chosen checkpoint ids.
  None,         \* A null column.
  QuotaLimit,   \* The policy's max_records_per_project_per_agent.
  MaxSequence,  \* Bounds the handoff sequences drawn.
  Replacements  \* The replacements that corrections are given.

ASSUME BranchAssumption == NoBranch \in Branches
ASSUME NoneAssumption ==
  None \notin Nat \union Agents \union Branches \union Checkpoints \union {GlobalBranch, "auto"}
ASSUME RowsAssumption == MaxRows \in Nat
ASSUME QuotaAssumption == QuotaLimit \in Nat \ {0}
ASSUME SequenceAssumption == MaxSequence \in Nat

VARIABLES
  rec,          \* memory_records: the row of every id.
  sequence      \* The last value the handoff_sequence table gave out.

vars == <<rec, sequence>>

\* The random id of a row is its place in the order of insertion: no query
\* below depends on more than that ids differ.
Ids == 1..MaxRows

-----------------------------------------------------------------------------

Statuses == {"absent", "proposed", "active", "quarantined", "superseded", "tombstoned"}
Pending == {"proposed", "quarantined"}

\* expires_at: null, in the future, or past.
Expiries == {"none", "running", "lapsed"}

\* valid_from, valid_to and stale: no bounds, valid from a time to come, valid
\* to a time to come, or no longer valid (stale is that, too).
Validities == {"always", "later", "bounded", "ended"}

\* "sensitive" stands for the two levels that only a reviewer may activate.
Sensitivities == {"private", "sensitive"}

\* previous_checkpoint_id as the caller gives it; "auto" is auto_link_previous.
Links == Checkpoints \union {None, "auto"}

\* The idempotency keys of checkpoints: what handoffIdempotencyKey hashes.
Keys == [branch : (Branches \ {NoBranch}) \union {GlobalBranch}, checkpoint : Checkpoints]

(***************************************************************************)
(* key, with agent, is the idempotency key the row was captured under.     *)
(* touched is history, of what corrections did with the row besides        *)
(* repeating the one they corrected: moved it to another branch, revived a *)
(* lapsed one with a new expiry, reshown one that was not valid (or is not *)
(* valid yet), or activated it, by naming its key.                         *)
(***************************************************************************)
Touches == {"moved", "revived", "reshown", "activated"}

Rows ==
  [status: Statuses, agent: Agents \union {None}, branch: Branches \union {None},
   checkpoint: Checkpoints \union {None}, previous: Checkpoints \union {None},
   sensitivity: Sensitivities, expiry: Expiries, validity: Validities,
   sequence: Nat, supersedes: Ids \union {None}, key: Keys \union {None},
   touched: SUBSET Touches]

NoRow ==
  [status |-> "absent", agent |-> None, branch |-> None,
   checkpoint |-> None, previous |-> None,
   sensitivity |-> "private", expiry |-> "none", validity |-> "always",
   sequence |-> 0, supersedes |-> None, key |-> None, touched |-> {}]

\* The key of a stored memory that is no checkpoint of this task.
Elsewhere == [branch |-> None, checkpoint |-> None]

(***************************************************************************)
(* What a replacement names of a checkpoint; None where it is silent.  It  *)
(* may bring a key: of a checkpoint, stored or not, or Elsewhere.          *)
(***************************************************************************)
AllReplacements ==
  [branch : Branches \union {None}, sensitivity : Sensitivities \union {None},
   expiry : Expiries \union {None}, validity : Validities \union {None},
   key : Keys \union {None, Elsewhere}]

ASSUME ReplacementsAssumption == Replacements \subseteq AllReplacements

TypeOK ==
  /\ rec \in [Ids -> Rows]
  /\ sequence \in Nat

Init ==
  /\ rec = [i \in Ids |-> NoRow]
  /\ sequence = 0

-----------------------------------------------------------------------------
(* The queries of the transactions.                                        *)

\* The id the next insertion takes, if the table has room for one.
FreshIds ==
  {i \in Ids : /\ rec[i].status = "absent"
               /\ \A j \in Ids : j < i => rec[j].status # "absent"}

\* Neither expired nor outside its validity.
Current(row) == row.expiry # "lapsed" /\ row.validity \in {"always", "bounded"}

Live(i) == rec[i].status = "active" /\ Current(rec[i])

\* The active, current checkpoints of exactly this branch.
Heads(b) == {i \in Ids : Live(i) /\ rec[i].branch = b}

\* ORDER BY handoff_sequence DESC LIMIT 1
IsLatest(p, S) == p \in S /\ \A j \in S : rec[j].sequence <= rec[p].sequence

\* handoffIdempotencyKey: the key of the null branch is that of "global".
Key(b, cp) == [branch |-> IF b = NoBranch THEN GlobalBranch ELSE b, checkpoint |-> cp]

\* findByIdempotency: whatever became of the row, its key is taken.
Found(a, key) ==
  {i \in Ids : rec[i].status # "absent" /\ rec[i].agent = a /\ rec[i].key = key}

\* captureCount: the rows that use up the agent's quota.
Counted(a) ==
  {i \in Ids : /\ rec[i].agent = a
               /\ rec[i].status \in Pending \union {"active"}
               /\ rec[i].expiry # "lapsed"}

(***************************************************************************)
(* latestHandoff: what a session on branch b starts from, as the set of    *)
(* candidates for the one row returned.  A caller sees sensitive           *)
(* checkpoints only when cleared for them; its own branch wins over the    *)
(* branchless fallback.                                                    *)
(***************************************************************************)
LatestHandoff(b, cleared) ==
  LET Seen(c) == {i \in Heads(c) : cleared \/ rec[i].sensitivity = "private"}
      Shown   == IF Seen(b) # {} THEN Seen(b) ELSE Seen(NoBranch)
  IN  {i \in Shown : IsLatest(i, Shown)}

-----------------------------------------------------------------------------
(* Saving a checkpoint.                                                    *)

\* capture under the next handoff sequence: the row saveHandoff inserts.
Captured(a, b, cp, prev, sens, status, old) ==
  [status |-> status, agent |-> a, branch |-> b,
   checkpoint |-> cp, previous |-> prev, sensitivity |-> sens,
   expiry |-> IF status = "active" THEN "running" ELSE "none", validity |-> "always",
   sequence |-> sequence + 1, supersedes |-> old, key |-> Key(b, cp), touched |-> {}]

\* evaluateHandoff: a sensitive checkpoint waits for review, a private one
\* is activated for a bounded time.
Disposition(sens) == IF sens = "sensitive" THEN "quarantined" ELSE "active"

\* requireAvailableSensitivity
Available(sens, cleared) == sens = "private" \/ cleared

WithinQuota(a, extra) == Cardinality(Counted(a)) + extra <= QuotaLimit

\* No live checkpoint on the branch: a named predecessor is missing and the
\* checkpoint is quarantined.
SaveFirst(i, a, b, cp, link, sens) ==
  LET prev   == IF link = "auto" THEN None ELSE link
      status == IF prev = None THEN Disposition(sens) ELSE "quarantined"
  IN  /\ Heads(b) = {}
      /\ WithinQuota(a, 1)
      /\ rec' = [rec EXCEPT ![i] = Captured(a, b, cp, prev, sens, status, None)]

\* Mutants of SaveSuccessor: the replaced checkpoint stays active, or frees a
\* slot for whoever replaces it.
SaveSuccessorOnly(i, a, b, cp, link, sens, p) ==
  /\ link \in {"auto", rec[p].checkpoint}
  /\ Disposition(sens) = "active"
  /\ WithinQuota(a, IF rec[p].agent = a THEN 0 ELSE 1)
  /\ rec' = [rec EXCEPT ![i] = Captured(a, b, cp, rec[p].checkpoint, sens, "active", p)]

SaveSuccessorFreeingAnySlot(i, a, b, cp, link, sens, p) ==
  /\ link \in {"auto", rec[p].checkpoint}
  /\ Disposition(sens) = "active"
  /\ WithinQuota(a, 0)
  /\ rec' = [rec EXCEPT ![i] = Captured(a, b, cp, rec[p].checkpoint, sens, "active", p),
                        ![p].status = "superseded"]

\* The checkpoint names the latest one and replaces it.  The slot of a
\* replaced checkpoint is freed only for the agent that held it.
SaveSuccessor(i, a, b, cp, link, sens, p) ==
  LET extra == IF rec[p].agent = a THEN 0 ELSE 1
  IN  /\ link \in {"auto", rec[p].checkpoint}
      /\ Disposition(sens) = "active"
      /\ WithinQuota(a, extra)
      /\ rec' = [rec EXCEPT ![i] = Captured(a, b, cp, rec[p].checkpoint, sens, "active", p),
                            ![p].status = "superseded"]

\* The checkpoint is sensitive, or it names another predecessor than the
\* latest one: it is held for review and the latest one stays.
SaveHeld(i, a, b, cp, link, sens, p) ==
  LET prev == IF link = "auto" THEN rec[p].checkpoint ELSE link
  IN  /\ prev # rec[p].checkpoint \/ Disposition(sens) = "quarantined"
      /\ WithinQuota(a, 1)
      /\ rec' = [rec EXCEPT ![i] = Captured(a, b, cp, prev, sens, "quarantined", None)]

\* A mutant of SaveHandoff: the branchless fallback of recall is taken for
\* the predecessor.
SaveHandoffAfterRecall(i, a, b, cp, link, sens, cleared) ==
  /\ sequence < MaxSequence
  /\ link # cp
  /\ Available(sens, cleared)
  /\ Found(a, Key(b, cp)) = {}
  /\ \/ SaveFirst(i, a, b, cp, link, sens)
     \/ \E p \in LatestHandoff(b, cleared) :
          \/ SaveSuccessor(i, a, b, cp, link, sens, p)
          \/ SaveHeld(i, a, b, cp, link, sens, p)
  /\ sequence' = sequence + 1

SaveHandoff(i, a, b, cp, link, sens, cleared) ==
  /\ sequence < MaxSequence
  /\ link # cp
  /\ Available(sens, cleared)
  /\ Found(a, Key(b, cp)) = {}
  /\ \/ SaveFirst(i, a, b, cp, link, sens)
     \/ \E p \in Heads(b) :
          /\ IsLatest(p, Heads(b))
          /\ Available(rec[p].sensitivity, cleared)
          /\ \/ SaveSuccessor(i, a, b, cp, link, sens, p)
             \/ SaveHeld(i, a, b, cp, link, sens, p)
  /\ sequence' = sequence + 1

-----------------------------------------------------------------------------
(* Review.                                                                 *)

\* A mutant of Approved: the checkpoint keeps the sequence of its capture.
ApprovedAsCaptured(i, old) ==
  [rec[i] EXCEPT !.status = "active", !.expiry = "running", !.supersedes = old]

Approved(i, old) ==
  [rec[i] EXCEPT !.status = "active", !.expiry = "running",
                 !.supersedes = old, !.sequence = sequence + 1]

\* A mutant of Approve: the comparison made when the checkpoint was saved is
\* relied on.
ApproveUncompared(i) ==
  /\ rec[i].status \in Pending
  /\ sequence < MaxSequence
  /\ WithinQuota(rec[i].agent, 0)
  /\ rec' = [rec EXCEPT ![i] = Approved(i, None)]
  /\ sequence' = sequence + 1

\* approve repeats the comparison with the latest checkpoint, and draws a
\* fresh sequence.
Approve(i) ==
  /\ rec[i].status \in Pending
  /\ rec[i].previous # rec[i].checkpoint
  /\ sequence < MaxSequence
  /\ WithinQuota(rec[i].agent, 0)
  /\ \/ /\ Heads(rec[i].branch) = {}
        /\ rec[i].previous = None
        /\ rec' = [rec EXCEPT ![i] = Approved(i, None)]
     \/ \E p \in Heads(rec[i].branch) :
          /\ IsLatest(p, Heads(rec[i].branch))
          /\ rec[i].previous = rec[p].checkpoint
          /\ rec' = [rec EXCEPT ![i] = Approved(i, p), ![p].status = "superseded"]
  /\ sequence' = sequence + 1

\* revisePending: a structured correction may name another branch; one that
\* does rebuilds the handoff, which then may not name itself as predecessor.
RevisePending(i, b) ==
  /\ rec[i].status \in Pending
  /\ b # rec[i].branch => rec[i].previous # rec[i].checkpoint
  /\ rec' = [rec EXCEPT ![i].status = "proposed", ![i].branch = b]
  /\ UNCHANGED sequence

(***************************************************************************)
(* correct: a replacement for an active row, lapsed or not.  Agent,        *)
(* checkpoint and predecessor stay; the replacement may name the rest,     *)
(* and takes over what it does not name, except that a corrected row is    *)
(* not stale.  A replacement that changes the branch rebuilds the handoff. *)
(***************************************************************************)
Given(x, old) == IF x = None THEN old ELSE x

TouchedBy(old, new) ==
  (IF new.branch # old.branch THEN {"moved"} ELSE {}) \union
  (IF old.expiry = "lapsed" /\ new.expiry # "lapsed" THEN {"revived"} ELSE {}) \union
  (IF \/ new.validity = "later"
      \/ old.validity \in {"later", "ended"} /\ new.validity \in {"always", "bounded"}
   THEN {"reshown"} ELSE {})

\* The row propose inserts and commit activates, where r names no known key.
Corrected(i, r) ==
  LET new == [rec[i] EXCEPT !.branch = Given(r.branch, @),
                            !.sensitivity = Given(r.sensitivity, @),
                            !.expiry = Given(r.expiry, @),
                            !.validity = Given(r.validity, @),
                            !.supersedes = i, !.sequence = sequence + 1, !.key = r.key]
  IN  [new EXCEPT !.touched = TouchedBy(rec[i], new)]

CorrectByInsert(i, r) ==
  /\ r.key = None \/ Found(rec[i].agent, r.key) = {}
  /\ r.key # Elsewhere
  /\ \E j \in FreshIds :
       rec' = [rec EXCEPT ![j] = Corrected(i, r), ![i].status = "superseded"]

Activated(row) ==
  [row EXCEPT !.status = "active", !.touched = @ \union {"activated"}]

\* The key is known: propose returns the row it names and inserts none.  commit
\* activates a proposed one as it stands and accepts an active one, which may
\* be the corrected row itself.
CorrectByKey(i, r) ==
  \E j \in IF r.key = None THEN {} ELSE Found(rec[i].agent, r.key) :
    \/ /\ rec[j].status = "proposed"
       /\ rec' = [rec EXCEPT ![j] = Activated(@), ![i].status = "superseded"]
    \/ /\ rec[j].status = "active"
       /\ rec' = [rec EXCEPT ![i].status = "superseded"]

\* The key names another memory, which this task does not see activated.
CorrectByOther(i, r) ==
  /\ r.key = Elsewhere
  /\ rec' = [rec EXCEPT ![i].status = "superseded"]

Correct(i, r) ==
  /\ rec[i].status = "active"
  /\ sequence < MaxSequence
  /\ Given(r.branch, rec[i].branch) # rec[i].branch => rec[i].previous # rec[i].checkpoint
  /\ CorrectByInsert(i, r) \/ CorrectByKey(i, r) \/ CorrectByOther(i, r)
  /\ sequence' = sequence + 1

\* The correction of a checkpoint of another task whose replacement names the
\* key of a row of this one.  (The sequence it draws only leaves a gap here.)
CorrectElsewhere(j) ==
  /\ rec[j].status = "proposed"
  /\ rec[j].key # None
  /\ rec' = [rec EXCEPT ![j] = Activated(@)]
  /\ UNCHANGED sequence

\* forget tombstones a row in any state.
Forget(i) ==
  /\ rec[i].status \notin {"absent", "tombstoned"}
  /\ rec' = [rec EXCEPT ![i].status = "tombstoned"]
  /\ UNCHANGED sequence

\* Time passes the expiry of an active checkpoint, or a bound of its validity.
\* (No held row has one, and nothing reads those of a superseded or tombstoned
\* row.)
Lapse(i) ==
  /\ rec[i].status = "active"
  /\ \/ /\ rec[i].expiry = "running"
        /\ rec' = [rec EXCEPT ![i].expiry = "lapsed"]
     \/ /\ rec[i].validity = "later"
        /\ rec' = [rec EXCEPT ![i].validity = "bounded"]
     \/ /\ rec[i].validity = "bounded"
        /\ rec' = [rec EXCEPT ![i].validity = "ended"]
  /\ UNCHANGED sequence

-----------------------------------------------------------------------------

Next ==
  \/ \E i \in FreshIds :
       \E a \in Agents, b \in Branches, cp \in Checkpoints,
          link \in Links, sens \in Sensitivities, cleared \in BOOLEAN :
         SaveHandoff(i, a, b, cp, link, sens, cleared)
  \/ \E i \in Ids : Approve(i)
  \/ \E i \in Ids, b \in Branches : RevisePending(i, b)
  \/ \E i \in Ids, r \in Replacements : Correct(i, r)
  \/ \E j \in Ids : CorrectElsewhere(j)
  \/ \E i \in Ids : Forget(i)
  \/ \E i \in Ids : Lapse(i)

Spec == Init /\ [][Next]_vars

-----------------------------------------------------------------------------
(* Properties.                                                             *)

\* A correction may add a head to the branch it names, bring one back, or
\* activate a checkpoint that waits, whose key it names.
Untouched(b) == \A i \in Ids : rec[i].branch = b => rec[i].touched = {}

\* On a branch where corrections only repeated what they corrected, at most one
\* checkpoint is active at any time, whatever saves, approvals, revisions and expiries of
\* however many agents interleave: the compare-and-set on
\* previous_checkpoint_id in saveHandoff and approve never forks a lineage.
OneHeadPerLineage ==
  \A b \in Branches : Untouched(b) => \A i, j \in Heads(b) : i = j

\* No checkpoint is ever replaced twice: two saves, approvals or corrections
\* cannot both publish a row that supersedes the same one.
NoTwoSuccessors ==
  \A i, j \in Ids :
    rec[i].supersedes # None /\ rec[i].supersedes = rec[j].supersedes => i = j

\* A row that replaced another drew a later sequence than it, is a continuation
\* that names its checkpoint (on the same branch) or a correction that repeats
\* its identity, and has left it inactive for good.
SuccessionFollowsLineage ==
  \A i \in Ids : rec[i].supersedes # None =>
    LET old == rec[rec[i].supersedes]
    IN  /\ old.status \in {"superseded", "tombstoned"}
        /\ old.sequence < rec[i].sequence
        /\ \/ /\ rec[i].previous = old.checkpoint
              /\ rec[i].branch = old.branch
           \/ /\ rec[i].checkpoint = old.checkpoint
              /\ rec[i].previous = old.previous
              /\ rec[i].agent = old.agent

\* The checkpoints of a branch that were live when they were replaced.
Replaced(b) ==
  {j \in Ids : /\ rec[j].status = "superseded"
               /\ Current(rec[j])
               /\ rec[j].branch = b}

\* What latestHandoff returns is newer than every checkpoint of its branch that
\* was live when it was replaced: a session never starts from a checkpoint
\* older than one already continued, whoever asks.
RecallIsNewest ==
  \A b \in Branches, cleared \in BOOLEAN : \A i \in LatestHandoff(b, cleared) :
    Untouched(rec[i].branch) =>
      \A j \in Replaced(rec[i].branch) : rec[j].sequence < rec[i].sequence

\* The unexpired active and held checkpoints of an agent never exceed its
\* quota, although saves of successors, other agents' replacements, approvals
\* and corrections each count differently.
QuotaHeld ==
  \A a \in Agents :
    (\A i \in Ids : rec[i].agent = a => "revived" \notin rec[i].touched)
      => Cardinality(Counted(a)) <= QuotaLimit

\* No operation brings a row back: a decided checkpoint never waits for review
\* again, a replaced or forgotten one never becomes active.
Successors(status) ==
  CASE status = "absent"      -> {"active", "quarantined"}
    [] status = "quarantined" -> {"proposed", "active", "tombstoned"}
    [] status = "proposed"    -> {"active", "tombstoned"}
    [] status = "active"      -> {"superseded", "tombstoned"}
    [] status = "superseded"  -> {"tombstoned"}
    [] status = "tombstoned"  -> {}

NeverRevived ==
  [][\A i \in Ids :
       rec'[i].status # rec[i].status => rec'[i].status \in Successors(rec[i].status)]_vars

\* A checkpoint that waits for review becomes active only as the continuation
\* of the latest one of its branch, or as the first where there is none: lineage
\* is compared whichever operation activates it.
ActivationIsCompared ==
  [][\A i \in Ids :
       rec[i].status \in Pending /\ rec'[i].status = "active" =>
         LET Latest == {p \in Heads(rec[i].branch) : IsLatest(p, Heads(rec[i].branch))}
         IN  \/ Latest = {} /\ rec[i].previous = None
             \/ \E p \in Latest : rec[i].previous = rec[p].checkpoint]_vars

=============================================================================
