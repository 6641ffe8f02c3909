------------------------------ MODULE Captures ------------------------------
(***************************************************************************)
(* The memories of one project in a ContinuityDB vault, checkpoints apart: *)
(* how agents capture them under the capture policy, how users propose     *)
(* them, and how a reviewer approves, revises, corrects and forgets them   *)
(* (CapturePolicy.evaluate in src/capture-policy.js, ContextVault in       *)
(* src/store.js).                                                          *)
(*                                                                         *)
(* The vault's operations run under one transaction each and are one       *)
(* action.  A capture is two: the policy reads the vault and decides       *)
(* before the transaction that stores the memory, and other processes may  *)
(* write in between.                                                       *)
(*                                                                         *)
(* Tenant, owner, project, namespace and branch are fixed: keys, contents, *)
(* conflicts and quotas of different ones do not meet.  Wall-clock expiry  *)
(* becomes the three values of Expiries; validity intervals and staleness  *)
(* are left out.  The policy hashes the keys of captures, so that a person *)
(* names one only by repeating what a record shows.                        *)
(***************************************************************************)
EXTENDS Naturals, FiniteSets

CONSTANTS
  MaxRows,      \* Bounds the rows inserted.
  Processes,    \* The processes that capture.
  Agents,       \* The agents they act for.
  Keys,         \* The idempotency keys.
  Subjects,     \* The subject keys.
  Bodies,       \* The texts of memories, without regard to case.
  Kinds,        \* The memory kinds captured.
  Inputs,       \* The memories captured and proposed.
  None,         \* A null column, or no assessment.
  QuotaLimit    \* The policy's max_records_per_project_per_agent.

\* expires_at: null, in the future, or past.
Expiries == {"none", "running", "lapsed"}

\* What a capture or a proposal brings with it; a person's has no agent.
Memories ==
  [agent: Agents \union {None}, key: Keys \union {None}, kind: Kinds, subject: Subjects \union {None},
   body: Bodies, expiry: Expiries]

ASSUME KindsAssumption == Kinds \subseteq {"working", "inference", "git-fact", "decision"}
ASSUME InputsAssumption == Inputs \subseteq Memories /\ \A m \in Inputs : m.expiry = "none"
ASSUME NoneAssumption == None \notin Nat \union Agents \union Keys \union Subjects
ASSUME RowsAssumption == MaxRows \in Nat
ASSUME ProcessesAssumption == IsFiniteSet(Processes) /\ Processes # {}
ASSUME QuotaAssumption == QuotaLimit \in Nat \ {0}

VARIABLES
  rec,          \* memory_records: the row of every id.
  aliases,      \* memory_idempotency_aliases
  assessed      \* The assessment a process is about to store.

vars == <<rec, aliases, assessed>>

\* The random id of a row is its place in the order of insertion.
Ids == 1..MaxRows

-----------------------------------------------------------------------------

Statuses == {"absent", "proposed", "active", "quarantined", "superseded", "tombstoned"}
Pending == {"proposed", "quarantined"}

\* Where a row has its content from: the policy; a person, as a proposal that no
\* standing row equals; or a person, without the search for equal content.
Origins == {"agent", "person", "unchecked"}

Rows ==
  [memory: Memories, status: Statuses \ {"absent"}, origin: Origins,
   supersedes: Ids \union {None}]

NoRow == [status |-> "absent"]

\* seen is history: the active rows when the policy decided.
Assessments ==
  [memory: Memories, disposition: {"active"} \union Pending, seen: SUBSET Ids]

Aliases == [agent: Agents \union {None}, key: Keys, id: Ids]

TypeOK ==
  /\ rec \in [Ids -> Rows \union {NoRow}]
  /\ aliases \subseteq Aliases
  /\ assessed \in [Processes -> Assessments \union {None}]

Init ==
  /\ rec = [i \in Ids |-> NoRow]
  /\ aliases = {}
  /\ assessed = [p \in Processes |-> None]

-----------------------------------------------------------------------------
(* The queries.                                                            *)

Used == {i \in Ids : rec[i].status # "absent"}

\* The id the next insertion takes, if the table has room for one.
FreshIds == {i \in Ids \ Used : \A j \in Ids : j < i => j \in Used}

\* Active or waiting, and not expired.
Standing == {i \in Used : /\ rec[i].status \in Pending \union {"active"}
                          /\ rec[i].memory.expiry # "lapsed"}

Live == {i \in Standing : rec[i].status = "active"}

Primary(a, k) == {i \in Used : rec[i].memory.agent = a /\ rec[i].memory.key = k}

\* A mutant of FindByIdempotency that forgets the key of a decided memory.
FindStanding(a, k) == Primary(a, k) \intersect Standing

\* findByIdempotency, as the set of candidates for the row it returns: the key
\* of the row itself before an alias, whatever became of the row.
FindByIdempotency(a, k) ==
  IF Primary(a, k) # {} THEN Primary(a, k)
  ELSE {x.id : x \in {x \in aliases : x.agent = a /\ x.key = k}}

Known(m) == m.key # None /\ FindByIdempotency(m.agent, m.key) # {}

\* A mutant of SameContent that looks at active memories only.
SameActiveContent(m) ==
  {i \in Live : rec[i].memory.kind = m.kind /\ rec[i].memory.body = m.body}

\* The rows with the content_hash of m: the agent and the subject are not in it.
SameContent(m) ==
  {i \in Standing : rec[i].memory.kind = m.kind /\ rec[i].memory.body = m.body}

\* captureCount
Counted(a) == {i \in Standing : rec[i].memory.agent = a}

\* findActiveConflict
Conflicts(m) ==
  {i \in Live : /\ m.subject # None
                /\ rec[i].memory.subject = m.subject
                /\ rec[i].memory.body # m.body}

-----------------------------------------------------------------------------
(* The capture policy.                                                     *)

\* A mutant of Dispositions that never holds working memories for a conflict.
KindFirst(m, sensitive) ==
  IF sensitive THEN {"quarantined"}
  ELSE IF m.kind = "working" THEN {"active"} ELSE {"active"} \union Pending

(***************************************************************************)
(* What evaluate may decide.  The confidence may reach                     *)
(* auto_activate_confidence or not; an excerpt that a git fact claims may  *)
(* verify (then the confidence decides), lack a project root to be looked  *)
(* up in (then it is proposed), or be refuted (then it is quarantined).    *)
(***************************************************************************)
Dispositions(m, sensitive) ==
  IF sensitive \/ Conflicts(m) # {} THEN {"quarantined"}
  ELSE CASE m.kind = "decision"  -> {"proposed"}
         [] m.kind = "git-fact"  -> {"active"} \union Pending
         [] m.kind = "working"   -> {"active"}
         [] m.kind = "inference" -> IF m.subject = None THEN {"proposed"} ELSE {"active", "proposed"}

\* Working memories and inferences the policy could activate get a bounded time.
Expiry(m, sensitive) ==
  IF /\ ~sensitive /\ Conflicts(m) = {}
     /\ m.kind = "working" \/ (m.kind = "inference" /\ m.subject # None)
  THEN "running" ELSE "none"

\* A mutant of WithinQuota that lets the last place be taken twice.
AtQuota(m) == Known(m) \/ Cardinality(Counted(m.agent)) <= QuotaLimit

WithinQuota(m) == Known(m) \/ Cardinality(Counted(m.agent)) < QuotaLimit

Evaluate(p, m, sensitive) ==
  /\ assessed[p] = None
  /\ m.agent # None
  /\ WithinQuota(m)
  /\ \E disposition \in Dispositions(m, sensitive) :
       assessed' = [assessed EXCEPT ![p] =
                      [memory |-> [m EXCEPT !.expiry = Expiry(m, sensitive)],
                       disposition |-> disposition, seen |-> Live]]
  /\ UNCHANGED <<rec, aliases>>

\* The process dies, or the capture is rejected for its text.
Abandon(p) ==
  /\ assessed[p] # None
  /\ assessed' = [assessed EXCEPT ![p] = None]
  /\ UNCHANGED <<rec, aliases>>

-----------------------------------------------------------------------------
(* Storing.                                                                *)

Row(m, status, origin) ==
  [memory |-> m, status |-> status, origin |-> origin, supersedes |-> None]

\* The origin of what a person stores.
ByPerson(allow) == IF allow THEN "unchecked" ELSE "person"

\* What propose returns instead of a new row: the row of the key, else one of
\* equal content, unless allow_duplicate_content is set.
Existing(m, allow) ==
  IF Known(m) THEN FindByIdempotency(m.agent, m.key)
  ELSE IF allow THEN {} ELSE SameContent(m)

\* addIdempotencyAlias: the key becomes another name of the row found.
Alias(m, i) ==
  IF m.key = None \/ Known(m) THEN aliases
  ELSE aliases \union {[agent |-> m.agent, key |-> m.key, id |-> i]}

\* propose finds a row.
Repeat(m, allow, i) ==
  /\ i \in Existing(m, allow)
  /\ aliases' = Alias(m, i)

\* propose inserts one.
Insert(m, allow, i, row) ==
  /\ Existing(m, allow) = {}
  /\ i \in FreshIds
  /\ rec' = [rec EXCEPT ![i] = row]
  /\ UNCHANGED aliases

\* capture
Capture(p) ==
  /\ assessed[p] # None
  /\ LET m == assessed[p].memory
     IN  \E i \in Ids : \/ Repeat(m, FALSE, i) /\ UNCHANGED rec
                       \/ Insert(m, FALSE, i, Row(m, assessed[p].disposition, "agent"))
  /\ assessed' = [assessed EXCEPT ![p] = None]

\* propose, of a user.
Propose(i, m, allow) ==
  /\ \/ Repeat(m, allow, i) /\ UNCHANGED rec
     \/ Insert(m, allow, i, Row(m, "proposed", ByPerson(allow)))
  /\ UNCHANGED assessed

Activated(i) == [rec EXCEPT ![i].status = "active"]

\* ingestBatch of one input, with commit: a row that was found is activated if
\* it is a proposal.
IngestBatch(i, m, allow) ==
  /\ \/ /\ Repeat(m, allow, i)
        /\ rec' = IF rec[i].status = "proposed" THEN Activated(i) ELSE rec
     \/ Insert(m, allow, i, Row(m, "active", ByPerson(allow)))
  /\ UNCHANGED assessed

-----------------------------------------------------------------------------
(* Review.                                                                 *)

Approve(i) ==
  /\ rec[i].status \in Pending
  /\ rec' = Activated(i)
  /\ UNCHANGED <<aliases, assessed>>

\* revisePending: the text changes, without a search for equal content.
RevisePending(i, body) ==
  /\ rec[i].status \in Pending
  /\ rec' = [rec EXCEPT ![i].memory.body = body, ![i].status = "proposed",
                        ![i].origin = "unchecked"]
  /\ UNCHANGED <<aliases, assessed>>

(***************************************************************************)
(* correct: the replacement of an active row, expired or not, goes through *)
(* propose and commit.  It may bring a key, and then propose may find a    *)
(* row instead of inserting one; commit accepts that if it is active or    *)
(* proposed, and fails the whole operation otherwise.                      *)
(***************************************************************************)
Correct(i, j, body, key) ==
  LET m == [rec[i].memory EXCEPT !.body = body, !.key = key]
      row == [Row(m, "active", "unchecked") EXCEPT !.supersedes = i]
  IN  /\ rec[i].status = "active"
      /\ \/ /\ Known(m)
            /\ j \in Existing(m, TRUE)
            /\ rec[j].status \in {"active", "proposed"}
            /\ rec' = [rec EXCEPT ![j].status = "active", ![i].status = "superseded"]
         \/ /\ ~Known(m)
            /\ j \in FreshIds
            /\ rec' = [rec EXCEPT ![j] = row, ![i].status = "superseded"]
      /\ UNCHANGED <<aliases, assessed>>

\* forget tombstones a row in any state.
Forget(i) ==
  /\ rec[i].status \notin {"absent", "tombstoned"}
  /\ rec' = [rec EXCEPT ![i].status = "tombstoned"]
  /\ UNCHANGED <<aliases, assessed>>

\* Time passes the expiry of a row.
Lapse(i) ==
  /\ i \in Standing
  /\ rec[i].memory.expiry = "running"
  /\ rec' = [rec EXCEPT ![i].memory.expiry = "lapsed"]
  /\ UNCHANGED <<aliases, assessed>>

-----------------------------------------------------------------------------

Next ==
  \/ \E p \in Processes, m \in Inputs, sensitive \in BOOLEAN : Evaluate(p, m, sensitive)
  \/ \E p \in Processes : Abandon(p) \/ Capture(p)
  \/ \E i \in Ids, m \in Inputs, allow \in BOOLEAN :
       Propose(i, m, allow) \/ IngestBatch(i, m, allow)
  \/ \E i \in Ids : Approve(i) \/ Forget(i) \/ Lapse(i)
  \/ \E i \in Ids, body \in Bodies : RevisePending(i, body)
  \/ \E i, j \in Ids, body \in Bodies, key \in Keys \union {None} : Correct(i, j, body, key)

Spec == Init /\ [][Next]_vars

-----------------------------------------------------------------------------
(* Properties.                                                             *)

\* The rows a key has ever been given to.
Named(a, k) == Primary(a, k) \union {x.id : x \in {x \in aliases : x.agent = a /\ x.key = k}}

\* A key names the same record for ever: a retry after a review, a forgetting or
\* an expiry neither stores the memory again nor is given another one.
KeysAreStable ==
  [][\A a \in Agents \union {None}, k \in Keys :
       Named(a, k) # {} => Named(a, k)' = Named(a, k)]_vars

\* No content stands twice, unless a person stored one of the two in a way that
\* does not look for the other: agents that learn the same at the same time
\* share one record.
NoDuplicateContent ==
  \A i, j \in Standing :
    (/\ i # j
     /\ rec[i].memory.kind = rec[j].memory.kind
     /\ rec[i].memory.body = rec[j].memory.body)
    => "unchecked" \in {rec[i].origin, rec[j].origin}

\* The active rows that i contradicts if this step is a capture that inserts i
\* as active.
Contradicted(p, i) ==
  IF /\ assessed[p] # None /\ assessed'[p] = None
     /\ rec[i].status = "absent" /\ rec'[i].status = "active"
  THEN Conflicts(rec'[i].memory) ELSE {}

\* The policy never activates a memory against an active one on the same subject
\* that was there to be seen when it decided.
SeenConflictIsHeld ==
  [][\A p \in Processes, i \in Ids :
       Contradicted(p, i) # {} => Contradicted(p, i) \intersect assessed[p].seen = {}]_vars

\* An agent exceeds its quota by no more captures than there are other processes
\* that may have decided at the same time.
OverrunIsBounded ==
  \A a \in Agents :
    Cardinality({i \in Counted(a) : rec[i].origin = "agent"})
      <= QuotaLimit + Cardinality(Processes) - 1

\* A decided memory stays decided: bulk ingestion, repeated captures and
\* corrections reactivate neither superseded nor forgotten ones.
NoReactivation ==
  [][\A i \in Ids :
       /\ rec[i].status = "tombstoned" => rec'[i].status = "tombstoned"
       /\ rec[i].status = "superseded" => rec'[i].status \in {"superseded", "tombstoned"}]_vars

\* README.md:693 says that correct creates an active replacement and supersedes
\* the old version: a superseded memory has one that replaces it.
CorrectionReplaces ==
  \A i \in Used : rec[i].status = "superseded" => \E j \in Used : rec[j].supersedes = i

=============================================================================
