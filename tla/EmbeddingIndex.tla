--------------------------- MODULE EmbeddingIndex ---------------------------
(***************************************************************************)
(* The vectors of a vault's memories (indexMemory and indexPending of      *)
(* src/embeddings.js; putEmbedding, pendingEmbeddingIds and                *)
(* semanticCandidates of src/store.js).                                    *)
(*                                                                         *)
(* A process that captures or approves a memory asks its provider, if it   *)
(* has one, for the vector, and `embeddings-index` asks, batch by batch,   *)
(* for those still missing.  It runs when someone calls it.                *)
(* Between the reading of the texts and the storing of the vectors the     *)
(* process waits for the provider, while others correct and forget.  A     *)
(* failure or a kill loses the rest of the pass.                           *)
(*                                                                         *)
(* The text of an active memory never changes: a correction is a new       *)
(* memory (see Captures).  A memory therefore stands for its text and for  *)
(* the hash of it, and a vector is the memory whose text was embedded.     *)
(***************************************************************************)
EXTENDS Naturals, Sequences, FiniteSets

CONSTANTS
  Processes,
  Configured,   \* The processes that run with a provider.
  Memories,
  BatchSize,    \* batch_size of indexPending.
  Limit,        \* limit of indexPending: ids listed in one pass.
  MaxFaults,    \* Bounds the failures, the kills and the refused answers.
  NoVector

ASSUME ConfiguredAssumption == Configured \subseteq Processes
ASSUME MemoriesAssumption == IsFiniteSet(Memories)
ASSUME BatchSizeAssumption == BatchSize \in Nat \ {0}
ASSUME LimitAssumption == Limit \in Nat \ {0}
ASSUME MaxFaultsAssumption == MaxFaults \in Nat
ASSUME NoVectorAssumption == NoVector \notin Memories

VARIABLES
  status,       \* Of a memory: proposed, active, superseded or tombstoned.
  updated,      \* When each was made active.
  clock,        \* The last of these times.
  vector,       \* The row of memory_embeddings of a memory.
  worker,       \* What each process is at.
  faults        \* The faults so far.

vars == <<status, updated, clock, vector, worker, faults>>

Idle == [pc |-> "idle"]
Batch(ids) == [pc |-> "batch", ids |-> ids]
Asked(ids, texts) == [pc |-> "asked", ids |-> ids, texts |-> texts]
Storing(ids, vectors) == [pc |-> "storing", ids |-> ids, vectors |-> vectors]

\* Every variable keeps its type.
TypeOK ==
  /\ status \in [Memories -> {"proposed", "active", "superseded", "tombstoned"}]
  /\ updated \in [Memories -> Nat] /\ clock \in Nat
  /\ vector \in [Memories -> Memories \union {NoVector}]
  /\ DOMAIN worker = Processes
  /\ faults \in 0..MaxFaults

Init ==
  /\ status = [m \in Memories |-> "proposed"]
  /\ updated = [m \in Memories |-> 0]
  /\ clock = 0
  /\ vector = [m \in Memories |-> NoVector]
  /\ worker = [p \in Processes |-> Idle]
  /\ faults = 0

-----------------------------------------------------------------------------
(* The statements of the store.                                            *)

Least(a, b) == IF a < b THEN a ELSE b

Active(m) == status[m] = "active"

Missing == {m \in Memories : Active(m) /\ vector[m] = NoVector}

\* The oldest of some memories, oldest first; at most n.
Oldest(S, n) ==
  {ids \in [1..Least(n, Cardinality(S)) -> S] :
     \A i \in DOMAIN ids : \A m \in S :
       updated[m] < updated[ids[i]] <=> \E j \in 1..(i - 1) : ids[j] = m}

\* A mutant of Pending, below: the limit applies to all active memories.
PendingOfTheFirst ==
  Oldest({m \in Missing : Cardinality({n \in Memories : Active(n) /\ updated[n] < updated[m]}) < Limit},
         Limit)

\* pendingEmbeddingIds: the active memories with no vector of their text.
Pending == Oldest(Missing, Limit)

\* semanticCandidates: the memories that a query can find by their vector.
Candidates == {m \in Memories : Active(m) /\ vector[m] # NoVector}

-----------------------------------------------------------------------------
(* The answers of a provider.                                              *)

\* The items of an answer come in any order, each with its index.
Answers(texts) ==
  {a \in [DOMAIN texts -> [index : DOMAIN texts, embedding : Memories]] :
     /\ {a[i].index : i \in DOMAIN a} = DOMAIN texts
     /\ \A i \in DOMAIN a : a[i].embedding = texts[a[i].index]}

\* A mutant of InOrder, below: the items are taken as they come.
AsTheyCome(answer) == [i \in DOMAIN answer |-> answer[i].embedding]

\* OpenAICompatibleEmbedder.embed puts them in the order of the inputs.
InOrder(answer) ==
  [i \in DOMAIN answer |-> (CHOOSE item \in {answer[j] : j \in DOMAIN answer} :
                              item.index = i).embedding]

-----------------------------------------------------------------------------
(* The indexing of memories.                                               *)

Stamped(m) == clock' = clock + 1 /\ updated' = [updated EXCEPT ![m] = clock']

Becomes(p, state) == worker' = [worker EXCEPT ![p] = state]

\* A process makes a memory active, by capture or approval, and embeds it
\* (indexMemory) if it can.
Approve(p, m) ==
  /\ worker[p] = Idle
  /\ status[m] = "proposed"
  /\ status' = [status EXCEPT ![m] = "active"]
  /\ Stamped(m)
  /\ Becomes(p, IF p \in Configured THEN Batch(<<m>>) ELSE Idle)
  /\ UNCHANGED <<vector, faults>>

\* A process, whatever it is configured with, corrects a memory with a new
\* one, and embeds neither.
Correct(m, n) ==
  /\ Active(m)
  /\ status[n] = "proposed"
  /\ status' = [status EXCEPT ![m] = "superseded", ![n] = "active"]
  /\ Stamped(n)
  /\ UNCHANGED <<vector, worker, faults>>

Forget(m) ==
  /\ status[m] # "tombstoned"
  /\ status' = [status EXCEPT ![m] = "tombstoned"]
  /\ UNCHANGED <<updated, clock, vector, worker, faults>>

\* embeddings-index: one pass over what is missing.
List(p) ==
  /\ p \in Configured
  /\ worker[p] = Idle
  /\ \E ids \in Pending : Becomes(p, Batch(ids))
  /\ UNCHANGED <<status, updated, clock, vector, faults>>

\* The texts of the next batch are read; one that is no longer active throws
\* and ends the pass.
Read(p) ==
  /\ worker[p].pc = "batch"
  /\ LET ids == worker[p].ids
         texts == SubSeq(ids, 1, Least(BatchSize, Len(ids)))
     IN  IF ids # <<>> /\ \A i \in DOMAIN texts : Active(texts[i])
         THEN Becomes(p, Asked(ids, texts))
         ELSE Becomes(p, Idle)
  /\ UNCHANGED <<status, updated, clock, vector, faults>>

Receive(p) ==
  /\ worker[p].pc = "asked"
  /\ \E answer \in Answers(worker[p].texts) :
       Becomes(p, Storing(worker[p].ids, InOrder(answer)))
  /\ UNCHANGED <<status, updated, clock, vector, faults>>

\* putEmbedding, a transaction of its own for each vector, throws on a
\* memory that is no longer active.
Put(p) ==
  /\ worker[p].pc = "storing"
  /\ LET ids == worker[p].ids
         vectors == worker[p].vectors
     IN  IF Active(Head(ids))
         THEN /\ vector' = [vector EXCEPT ![Head(ids)] = Head(vectors)]
              /\ Becomes(p, IF Len(vectors) > 1
                            THEN Storing(Tail(ids), Tail(vectors))
                            ELSE Batch(Tail(ids)))
         ELSE Becomes(p, Idle) /\ UNCHANGED vector
  /\ UNCHANGED <<status, updated, clock, faults>>

\* The provider fails or answers with too few vectors, or the process is
\* killed.
Fail(p) ==
  /\ faults < MaxFaults
  /\ worker[p] # Idle
  /\ faults' = faults + 1
  /\ Becomes(p, Idle)
  /\ UNCHANGED <<status, updated, clock, vector>>

Step(p) == Read(p) \/ Receive(p) \/ Put(p)

Next ==
  \/ \E p \in Processes :
       List(p) \/ Step(p) \/ Fail(p) \/ \E m \in Memories : Approve(p, m)
  \/ \E m \in Memories : Forget(m) \/ \E n \in Memories : Correct(m, n)

\* Providers answer or fail, and what was begun goes on; nothing makes anyone
\* run `embeddings-index`.
Fairness == \A p \in Processes : WF_vars(Step(p))

Spec == Init /\ [][Next]_vars /\ Fairness

-----------------------------------------------------------------------------
(* Properties.                                                             *)

\* Whatever order answers come in and whatever happens meanwhile, a query
\* finds a memory by the vector of its own text.
FoundByItsText == \A m \in Candidates : vector[m] = m

\* An active memory is found by its vector some day, or is no longer active.
IndexedSomeDay(m) == Active(m) ~> (m \in Candidates \/ ~Active(m))

\* Whoever runs embeddings-index again and again gets every memory indexed: no
\* pass that failed half-way or met a forgotten memory, and no limit, keeps a
\* memory from its vector for good.  The condition is the operator's to meet.
RerunsIndexAll ==
  (\E p \in Configured : []<><<List(p)>>_vars) => \A m \in Memories : IndexedSomeDay(m)

\* README.md:892: "newly activated memories are indexed automatically by
\* processes using the configured provider".  With nobody failing.
IndexedAutomatically == \A m \in Memories : IndexedSomeDay(m)
=============================================================================
