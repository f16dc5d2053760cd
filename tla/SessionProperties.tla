------------------------- MODULE SessionProperties -------------------------
(***************************************************************************)
(* What a session token proves, and how often a challenge can be spent.    *)
(***************************************************************************)
EXTENDS Session

(* Types; a call past its first step has a body, and past Profile a name.  *)
TypeOK ==
    /\ issued \in SUBSET Challenges
    /\ cache \in SUBSET Challenges
    /\ name \in [Players -> Names]
    /\ used \in SUBSET Names
    /\ session \in [Players -> Texts \cup {None}]
    /\ joined \in SUBSET (Players \X Challenges)
    /\ vpc \in [Verifies -> {"idle", "lost"} \cup Waiting \cup Answers]
    /\ input \in [Verifies -> VerifyInput \cup {None}]
    /\ token \in [Verifies -> [uuid : Players, name : Names] \cup {None}]
    /\ \A v \in Verifies : vpc[v] \in Waiting =>
          /\ input[v] \in [serverID : [id : Challenges, form : Forms],
                           player : Players]
          /\ vpc[v] \notin {"get1", "profile"} =>
                token[v] \in [uuid : Players, name : Names]

(* A session token names the account the request was about, and that       *)
(* account did join this very challenge: the name looked up in Profile     *)
(* cannot make another account's join count (verify.go:71-80).             *)
Authentic ==
    \A v \in Verifies : vpc[v] \in {"get2", "delete", "ok"} =>
        /\ token[v].uuid = input[v].player
        /\ <<input[v].player, Key(v)>> \in joined

(* The challenges that can be spent no more: expired, lost in a restart,   *)
(* or answered with a token.                                               *)
Spent == (issued \ cache) \cup {Key(v) : v \in {w \in Verifies : vpc[w] = "ok"}}

(* A Verify that has yet to make its second look-up when the challenge     *)
(* expires, or when another Verify answers with a token, is refused: the   *)
(* calls to Mojang in between may take any time (verify.go:90-99).         *)
SpentIsRefused ==
    [][\A v \in Verifies :
          vpc[v] = "get2" /\ vpc'[v] = "delete" => Key(v) \notin Spent]_vars

(* No step of Verify takes a challenge out of the cache unless the player  *)
(* it was called for has joined it: a refused or failed verification       *)
(* leaves the challenge to be used again.                                  *)
ConsumedByProof ==
    [][\A v \in Verifies :
          /\ vpc[v] \in Waiting
          /\ vpc'[v] \notin {vpc[v], "lost"}
          /\ Key(v) \in cache \ cache'
          => <<input[v].player, Key(v)>> \in joined]_vars

(* The refinement: a call has claimed its challenge between the second     *)
(* look-up and the deletion.                                               *)
Phase == [v \in Verifies |->
            CASE vpc[v] \in ({"idle"} \cup Waiting) \ {"delete"} -> "open"
              [] vpc[v] = "delete" -> "claimed"
              [] vpc[v] = "ok" -> "paid"
              [] OTHER -> "refused"]
Claims == [v \in Verifies |-> IF vpc[v] \in {"delete", "ok"}
                              THEN <<input[v].player, Key(v)>> ELSE None]

Promise == INSTANCE Ticket WITH
    told <- issued, live <- cache, proofs <- joined, phase <- Phase, claim <- Claims

(* Verification keeps the promise of Ticket: a token is the payment of a   *)
(* claim that was proved and made while the challenge was live, and pays   *)
(* for it once and for all (verify.go:60-105).                             *)
TicketSpec == Promise!Spec

(* A challenge is good for one token (challenge.go:17, challenge.go:25).   *)
SingleUse ==
    \A v, w \in Verifies :
        vpc[v] = "ok" /\ vpc[w] = "ok" /\ Key(v) = Key(w) => v = w

(* A player who has joined the challenge under the name Profile returned   *)
(* is not refused for the form the server ID was written in (verify.go:16) *)
AnyForm ==
    [][\A v \in Verifies : vpc[v] = "hasJoined" /\ vpc'[v] = "notJoined" =>
          ~ \E f \in Forms : Knows(token[v].name, [id |-> Key(v), form |-> f])]_vars
=============================================================================
