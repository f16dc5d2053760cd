------------------------------- MODULE MCHub -------------------------------
EXTENDS HubProperties, TLC

(* Subscribers and messages are interchangeable. *)
Symmetry == Permutations(Subs) \cup Permutations(Msgs)
=============================================================================
