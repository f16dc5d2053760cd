------------------------------ MODULE MCServer ------------------------------
(* Liveness is checked, so the two messages are no symmetry set. *)
EXTENDS ServerProperties
=============================================================================
