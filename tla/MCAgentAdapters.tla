-------------------------- MODULE MCAgentAdapters --------------------------
(* The instance of AgentAdapters that TLC checks.                          *)
EXTENDS AgentAdapters, TLC

CONSTANTS A, B, h1, h2

MCGroups == {{"codex", "opencode"}, {"opencode"}, {"claude"}, {"copilot"}}
MCProjects == {A, B}
MCHomes == {h1, h2}
Symmetry == {pi @@ rho : pi \in Permutations(MCProjects), rho \in Permutations(MCHomes)}

(* A second home and a lost backup matter to the clients whose files are   *)
(* put back whole, each of them alone and with one other change.           *)
Used == {b[1] : b \in backups}
FewChanges ==
    (lost # {} \/ Cardinality(Used) > 1) => (changes <= 1 /\ Cardinality(active) = 1)
=============================================================================
