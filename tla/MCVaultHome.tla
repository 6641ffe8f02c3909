---------------------------- MODULE MCVaultHome -----------------------------
(* The instance of VaultHome that TLC checks: two roots of one name.       *)
EXTENDS VaultHome, TLC

MCCandidates ==
  [r \in {"/a/app", "/b/app"} |-> IF r = "/a/app" THEN <<"app", "app-1">> ELSE <<"app", "app-2">>]

Symmetry == Permutations(Processes)
=============================================================================
