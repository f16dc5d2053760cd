------------------------------- MODULE Ticket -------------------------------
(***************************************************************************)
(* What verification promises, without Mojang, names or look-ups: a        *)
(* challenge is a ticket that accounts prove to hold.  A call claims a     *)
(* ticket only while it is live, for an account that has proved it, and is *)
(* paid with a token; paying ends the ticket.  Claims are not exclusive:   *)
(* those made before the first of them is paid are paid as well.           *)
(***************************************************************************)
CONSTANTS Challenges, Verifies, Players, None

VARIABLES
    told,    \* the tickets a client may know of
    live,    \* the tickets that may be claimed
    proofs,  \* every <<account, ticket>> that was proved
    phase,   \* phase[v]: "open", "claimed", "paid" or "refused"
    claim    \* claim[v]: the <<account, ticket>> v has claimed

tvars == <<told, live, proofs, phase, claim>>

Init ==
    /\ told = {} /\ live = {} /\ proofs = {}
    /\ phase = [v \in Verifies |-> "open"]
    /\ claim = [v \in Verifies |-> None]

Issue(s) ==
    /\ s \notin told \cup live
    /\ live' = live \cup {s}
    /\ told' \in {told, told \cup {s}}
    /\ UNCHANGED <<proofs, phase, claim>>

Prove(p, s) ==
    /\ s \in told
    /\ proofs' = proofs \cup {<<p, s>>}
    /\ UNCHANGED <<told, live, phase, claim>>

Claim(v) == \E t \in proofs :
    /\ phase[v] = "open" /\ t[2] \in live
    /\ phase' = [phase EXCEPT ![v] = "claimed"]
    /\ claim' = [claim EXCEPT ![v] = t]
    /\ UNCHANGED <<told, live, proofs>>

Pay(v) ==
    /\ phase[v] = "claimed"
    /\ phase' = [phase EXCEPT ![v] = "paid"]
    /\ live' = live \ {claim[v][2]}
    /\ UNCHANGED <<told, proofs, claim>>

(* A claim may be lost together with its ticket. *)
Refuse(v) ==
    /\ phase[v] \in {"open", "claimed"}
    /\ phase' = [phase EXCEPT ![v] = "refused"]
    /\ live' \in IF phase[v] = "claimed" THEN {live, live \ {claim[v][2]}} ELSE {live}
    /\ claim' = [claim EXCEPT ![v] = None]
    /\ UNCHANGED <<told, proofs>>

Expire(s) == live' = live \ {s} /\ UNCHANGED <<told, proofs, phase, claim>>

(* All calls that have begun are lost at once, the tickets maybe with them. *)
Stop == \E lost \in SUBSET {v \in Verifies : phase[v] \in {"open", "claimed"}} :
    /\ phase' = [v \in Verifies |-> IF v \in lost THEN "refused" ELSE phase[v]]
    /\ claim' = [v \in Verifies |-> IF v \in lost THEN None ELSE claim[v]]
    /\ live' \in {live, {}}
    /\ UNCHANGED <<told, proofs>>

Next ==
    \/ \E s \in Challenges : Issue(s) \/ Expire(s)
    \/ \E p \in Players, s \in Challenges : Prove(p, s)
    \/ \E v \in Verifies : Claim(v) \/ Pay(v) \/ Refuse(v)
    \/ Stop

Spec == Init /\ [][Next]_tvars
=============================================================================
