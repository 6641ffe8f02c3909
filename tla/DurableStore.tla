---------------------------- MODULE DurableStore ----------------------------
(***************************************************************************)
(* What the canonical outbox of a vault promises: records are committed,   *)
(* and every committed record is sooner or later the one published in its  *)
(* canonical file; nothing else is ever published.                         *)
(***************************************************************************)
EXTENDS Naturals

CONSTANT Records

VARIABLES
  committed,    \* The last committed revision of every record; 0 is none.
  published     \* The revision in its canonical file.

storeVars == <<committed, published>>

Init ==
  /\ committed = [r \in Records |-> 0]
  /\ published = [r \in Records |-> 0]

\* A transaction commits the next revision of some records.
Commit(S) ==
  /\ committed' = [r \in Records |-> committed[r] + (IF r \in S THEN 1 ELSE 0)]
  /\ UNCHANGED published

\* The committed revision, never an older one, replaces the file.
Publish(r) ==
  /\ published' = [published EXCEPT ![r] = committed[r]]
  /\ UNCHANGED committed

Next ==
  \/ \E S \in SUBSET Records : Commit(S)
  \/ \E r \in Records : Publish(r)

Spec == Init /\ [][Next]_storeVars

LiveSpec == Spec /\ \A r \in Records : WF_storeVars(Publish(r))

=============================================================================
