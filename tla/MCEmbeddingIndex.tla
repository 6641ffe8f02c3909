-------------------------- MODULE MCEmbeddingIndex --------------------------
(* The instance of EmbeddingIndex that TLC checks.  It is also checked for *)
(* liveness, which rules out symmetry.                                     *)
EXTENDS EmbeddingIndex
=============================================================================
