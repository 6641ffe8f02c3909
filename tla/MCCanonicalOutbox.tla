------------------------- MODULE MCCanonicalOutbox --------------------------
(* The instance of CanonicalOutbox that TLC checks.  It is also checked    *)
(* for liveness, which rules out symmetry.                                 *)
EXTENDS CanonicalOutbox
=============================================================================
