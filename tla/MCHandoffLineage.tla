-------------------------- MODULE MCHandoffLineage --------------------------
(* The instance of HandoffLineage that TLC checks.                         *)
EXTENDS HandoffLineage, TLC

Silent ==
  [branch |-> None, sensitivity |-> None, expiry |-> None, validity |-> None, key |-> None]

\* Replacements that move to the null branch, that renew the expiry and are not
\* valid yet, or that bring a key: of a checkpoint of a named branch, stored or
\* not, or of another memory.
MCReplacements ==
  {[Silent EXCEPT !.branch = NoBranch],
   [Silent EXCEPT !.expiry = "running", !.validity = "later"],
   [Silent EXCEPT !.key = Elsewhere]}
    \union {[Silent EXCEPT !.key = k] : k \in {k \in Keys : k.branch # GlobalBranch}}

\* At most one row is forgotten or lapsed, and at most one is what a correction
\* made of another.
FewChanged ==
  /\ Cardinality({i \in Ids : rec[i].status = "tombstoned" \/ rec[i].expiry = "lapsed"}) <= 1
  /\ Cardinality({i \in Ids : rec[i].touched # {}}) <= 1

Symmetry == Permutations(Agents) \union Permutations(Checkpoints)

=============================================================================
