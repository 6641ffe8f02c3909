----------------------------- MODULE MCCaptures -----------------------------
(* The instance of Captures that TLC checks.                               *)
EXTENDS Captures, TLC

CONSTANTS a, k, s, b1, b2

Memory(agent, key, kind, body) ==
  [agent |-> agent, key |-> key, kind |-> kind, subject |-> s, body |-> body, expiry |-> "none"]

\* Three contents of an agent, one with a key, and one of them from a person.
MCInputs ==
  {Memory(a, k, "working", b1), Memory(a, None, "working", b2),
   Memory(a, None, "inference", b1), Memory(None, None, "working", b1)}

Symmetry == Permutations(Processes)

\* Some row has been decided, has expired or has unchecked content.
Reviewed == \E i \in Used : i \notin Standing \/ rec[i].origin = "unchecked"

\* One process races with reviews, two race with each other; three rows are only
\* inserted.
Small == Reviewed => /\ Cardinality(Used) <= 2
                     /\ \E p \in Processes : assessed[p] = None

=============================================================================
