----------------------------- MODULE MCSession -----------------------------
EXTENDS SessionProperties, TLC

(* The calls of Verify, the accounts and the names are interchangeable. *)
Symmetry == Permutations(Verifies) \cup Permutations(Players) \cup Permutations(Names)
=============================================================================
