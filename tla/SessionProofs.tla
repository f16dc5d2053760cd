--------------------------- MODULE SessionProofs ---------------------------
(***************************************************************************)
(* Proofs about session verification, for any number of challenges,        *)
(* verifications, accounts and names.                                      *)
(***************************************************************************)
EXTENDS SessionProperties, TLAPS

Past == {"hasJoined", "issue", "get2", "delete", "ok"}   \* past Profile
Proved == {"issue", "get2", "delete", "ok"}              \* past HasJoined

(* A call that runs, or was answered with a token, has a body about a      *)
(* challenge that was issued and an account.                               *)
Bodied ==
    \A v \in Verifies : vpc[v] \in Waiting \cup {"ok"} =>
        input[v] \in [serverID : [id : issued, form : Forms], player : Players]

(* The name Verify has looked up was borne by its account, and will never  *)
(* be another's: names are unique, and nobody takes one that was borne.    *)
NamesOwned ==
    /\ \A p \in Players : name[p] \in used
    /\ \A p, q \in Players : p # q => name[p] # name[q]
    /\ \A v \in Verifies : vpc[v] \in Past =>
          /\ token[v].uuid = input[v].player
          /\ token[v].name \in used
          /\ \A q \in Players : name[q] = token[v].name => q = input[v].player

SessionsJoined ==
    \A p \in Players : session[p] # None => <<p, session[p].id>> \in joined

ProvedJoined ==
    \A v \in Verifies : vpc[v] \in Proved => <<input[v].player, Key(v)>> \in joined

(* A challenge answered with a token never comes back to the cache. *)
OkGone ==
    \A v \in Verifies : vpc[v] = "ok" => Key(v) \notin cache

SessionInv == /\ TypeOK /\ Bodied /\ NamesOwned /\ SessionsJoined
              /\ ProvedJoined /\ OkGone

LEMMA InitSessionInv == Init => SessionInv
  BY SessionAssumption DEF Init, SessionInv, TypeOK, Bodied, NamesOwned,
     SessionsJoined, ProvedJoined, OkGone, Waiting, Past, Proved

LEMMA KeyIsId ==
    ASSUME NEW v \in Verifies, NEW S,
           input[v] \in [serverID : [id : S, form : Forms], player : Players]
    PROVE  Key(v) = input[v].serverID.id
  BY DEF Key, NormalizeUUID

(* The steps of Verify that only move its program counter. *)
LEMMA MoveKeeps ==
    ASSUME SessionInv, NEW v \in Verifies, NEW from \in Waiting,
           NEW to \in Waiting \cup Answers, Goto(v, from, to),
           UNCHANGED <<issued, cache, mojang, input, token>>,
           to \notin {"ok", "get1"},
           to \in Past => from \in Past,
           to \in Waiting \ {"profile"} => from \notin {"get1", "profile"},
           to \in Proved => <<input[v].player, Key(v)>> \in joined
    PROVE  SessionInv'
  <1> USE DEF SessionInv, Goto, mojang
  <1>1. TypeOK'
    BY DEF TypeOK, Waiting, Answers
  <1>2. Bodied'
    BY DEF Bodied, TypeOK
  <1>3. NamesOwned'
    BY DEF NamesOwned, TypeOK
  <1>4. SessionsJoined'
    BY DEF SessionsJoined
  <1>5. ProvedJoined'
    BY DEF ProvedJoined, TypeOK, Key
  <1>6. OkGone'
    BY DEF OkGone, TypeOK, Key
  <1> QED BY <1>1, <1>2, <1>3, <1>4, <1>5, <1>6

LEMMA HasJoinedProves ==
    ASSUME SessionInv, NEW v \in Verifies, vpc[v] = "hasJoined",
           Knows(token[v].name, input[v].serverID)
    PROVE  <<input[v].player, Key(v)>> \in joined
  <1>1. PICK p \in Players : name[p] = token[v].name /\ session[p] = input[v].serverID
    BY DEF Knows
  <1>2. p = input[v].player
    BY <1>1 DEF SessionInv, NamesOwned, Past
  <1>3. input[v] \in [serverID : [id : Challenges, form : Forms], player : Players]
    BY DEF SessionInv, TypeOK, Waiting
  <1>4. session[p] # None
    BY <1>1, <1>3, SessionAssumption DEF Texts
  <1> QED BY <1>1, <1>2, <1>3, <1>4, KeyIsId DEF SessionInv, SessionsJoined

LEMMA VerifyKeeps ==
    ASSUME SessionInv, NEW v \in Verifies, Verify(v)
    PROVE  SessionInv'
  <1>1. CASE Receive(v)
    <2>0. PICK x \in VerifyInput :
             /\ x.serverID.id \in issued \cup {None}
             /\ input' = [input EXCEPT ![v] = x]
             /\ Goto(v, "idle",
                     IF None \in {x.serverID.id, x.player} THEN "400" ELSE "get1")
      BY <1>1 DEF Receive
    <2>1. UNCHANGED <<issued, cache, mojang, token>>
      BY <1>1 DEF Receive
    <2> USE <2>0, <2>1 DEF SessionInv, Goto, mojang
    <2>2. TypeOK'
      BY DEF TypeOK, Waiting, Answers, VerifyInput, Texts
    <2>3. Bodied'
      BY DEF Bodied, TypeOK, Waiting, VerifyInput, Texts
    <2>4. NamesOwned'
      BY DEF NamesOwned, TypeOK, Past
    <2>5. SessionsJoined'
      BY DEF SessionsJoined
    <2>6. ProvedJoined' /\ OkGone'
      BY DEF ProvedJoined, OkGone, TypeOK, Key, Proved
    <2> QED BY <2>2, <2>3, <2>4, <2>5, <2>6
  <1>2. CASE Get1(v)
    BY <1>2, MoveKeeps DEF Get1, Waiting, Answers, Past, Proved
  <1>3. CASE Profile(v)
    <2>0. /\ Goto(v, "profile", "hasJoined")
          /\ token' = [token EXCEPT ![v] =
                [uuid |-> input[v].player, name |-> name[input[v].player]]]
          /\ UNCHANGED <<issued, cache, mojang, input>>
      BY <1>3 DEF Profile
    <2>1. input[v].player \in Players
      BY <2>0 DEF SessionInv, TypeOK, Waiting, Goto
    <2> USE <2>0, <2>1 DEF SessionInv, Goto, mojang
    <2>2. TypeOK'
      BY DEF TypeOK, Waiting, Answers
    <2>3. Bodied'
      BY DEF Bodied, TypeOK, Waiting
    <2>4. NamesOwned'
      BY DEF NamesOwned, TypeOK, Past
    <2>5. SessionsJoined'
      BY DEF SessionsJoined
    <2>6. ProvedJoined' /\ OkGone'
      BY DEF ProvedJoined, OkGone, TypeOK, Key, Proved
    <2> QED BY <2>2, <2>3, <2>4, <2>5, <2>6
  <1>4. CASE HasJoined(v)
    <2>1. CASE Knows(token[v].name, input[v].serverID)
      <3>1. Goto(v, "hasJoined", "issue") /\ <<input[v].player, Key(v)>> \in joined
        BY <1>4, <2>1, HasJoinedProves DEF HasJoined, Goto
      <3> QED BY <1>4, <3>1, MoveKeeps DEF HasJoined, Waiting, Answers, Past, Proved
    <2>2. CASE ~Knows(token[v].name, input[v].serverID)
      BY <1>4, <2>2, MoveKeeps DEF HasJoined, Waiting, Answers, Past, Proved
    <2> QED BY <2>1, <2>2
  <1>5. CASE Issue(v) \/ Get2(v)
    <2>1. vpc[v] \in {"issue", "get2"} /\ <<input[v].player, Key(v)>> \in joined
      BY <1>5 DEF Issue, Get2, Goto, SessionInv, ProvedJoined, Proved
    <2>2. CASE Issue(v)
      BY <2>1, <2>2, MoveKeeps DEF Issue, Waiting, Answers, Past, Proved
    <2>3. CASE Get2(v)
      BY <2>1, <2>3, MoveKeeps DEF Get2, Waiting, Answers, Past, Proved
    <2> QED BY <1>5, <2>2, <2>3
  <1>6. CASE Fail(v)
    BY <1>6, MoveKeeps DEF Fail, Waiting, Answers, Past, Proved
  <1>7. CASE Delete(v) \/ DeleteLost(v)
    <2> USE <1>7 DEF Delete, DeleteLost, SessionInv, Goto, mojang
    <2>2. TypeOK'
      BY DEF TypeOK, Waiting, Answers
    <2>3. Bodied'
      BY DEF Bodied, TypeOK, Waiting
    <2>4. NamesOwned'
      BY DEF NamesOwned, TypeOK, Past
    <2>5. SessionsJoined'
      BY DEF SessionsJoined
    <2>6. ProvedJoined' /\ OkGone'
      BY DEF ProvedJoined, OkGone, TypeOK, Key, Proved
    <2> QED BY <2>2, <2>3, <2>4, <2>5, <2>6
  <1> QED BY <1>1, <1>2, <1>3, <1>4, <1>5, <1>6, <1>7 DEF Verify

LEMMA ChallengeKeeps ==
    ASSUME SessionInv, NEW s \in Challenges, Challenge(s)
    PROVE  SessionInv'
  <1> USE DEF Challenge, SessionInv, mojang
  <1>1. TypeOK'
    BY DEF TypeOK
  <1>2. Bodied' /\ NamesOwned' /\ SessionsJoined'
    BY DEF Bodied, NamesOwned, SessionsJoined
  <1>3. ProvedJoined'
    BY DEF ProvedJoined, Key
  <1>4. OkGone'
    <2> SUFFICES ASSUME NEW v \in Verifies, vpc[v] = "ok" PROVE Key(v) \notin cache'
      BY DEF OkGone, Key
    <2>1. Key(v) \in issued
      BY KeyIsId DEF Bodied
    <2> QED BY <2>1 DEF OkGone
  <1> QED BY <1>1, <1>2, <1>3, <1>4

LEMMA EnvironmentKeeps ==
    ASSUME SessionInv, Environment
    PROVE  SessionInv'
  <1> USE DEF SessionInv, mojang
  <1>1. CASE \E s \in Challenges : Expire(s)
    BY <1>1 DEF Expire, TypeOK, Bodied, NamesOwned, SessionsJoined, ProvedJoined, OkGone, Key
  <1>2. CASE Restart
    <2> USE <1>2 DEF Restart
    <2>1. TypeOK'
      BY DEF TypeOK, Waiting
    <2>2. Bodied' /\ NamesOwned' /\ SessionsJoined'
      BY DEF Bodied, NamesOwned, SessionsJoined, Waiting, Past
    <2>3. ProvedJoined' /\ OkGone'
      BY DEF ProvedJoined, OkGone, Key, Proved, Waiting
    <2> QED BY <2>1, <2>2, <2>3
  <1>3. ASSUME NEW p \in Players, Join(p) PROVE SessionInv'
    <2> USE <1>3 DEF Join
    <2>1. TypeOK'
      BY DEF TypeOK, Texts, Forms
    <2>2. Bodied' /\ NamesOwned'
      BY DEF Bodied, NamesOwned
    <2>3. SessionsJoined'
      BY DEF SessionsJoined, TypeOK
    <2>4. ProvedJoined' /\ OkGone'
      BY DEF ProvedJoined, OkGone, Key
    <2> QED BY <2>1, <2>2, <2>3, <2>4
  <1>4. ASSUME NEW p \in Players, Forget(p) PROVE SessionInv'
    BY <1>4 DEF Forget, TypeOK, Bodied, NamesOwned, SessionsJoined, ProvedJoined, OkGone, Key
  <1>5. ASSUME NEW p \in Players, Rename(p) PROVE SessionInv'
    <2> USE <1>5 DEF Rename
    <2>1. TypeOK'
      BY DEF TypeOK
    <2>2. Bodied' /\ SessionsJoined'
      BY DEF Bodied, SessionsJoined
    <2>3. NamesOwned'
      BY DEF NamesOwned, TypeOK
    <2>4. ProvedJoined' /\ OkGone'
      BY DEF ProvedJoined, OkGone, Key
    <2> QED BY <2>1, <2>2, <2>3, <2>4
  <1> QED BY <1>1, <1>2, <1>3, <1>4, <1>5 DEF Environment

LEMMA NextSessionInv == SessionInv /\ [Next]_vars => SessionInv'
  <1>1. SessionInv /\ UNCHANGED vars => SessionInv'
    BY DEF SessionInv, vars, mojang, TypeOK, Bodied, NamesOwned, SessionsJoined,
           ProvedJoined, OkGone, Key
  <1> QED BY <1>1, VerifyKeeps, ChallengeKeeps, EnvironmentKeeps DEF Next

LEMMA AlwaysSessionInv == Spec => []SessionInv
  BY InitSessionInv, NextSessionInv, PTL DEF Spec

(* Types; a request that was not refused at once has an input the code     *)
(* accepts (verify.go:42-58).                                              *)
THEOREM TypeCorrect == Spec => []TypeOK
  BY AlwaysSessionInv, PTL DEF SessionInv

(* A session token is only ever signed for an account that joined this     *)
(* very challenge, whoever else verifies, joins or is renamed meanwhile.   *)
THEOREM AuthenticCorrect == Spec => []Authentic
  <1>1. SessionInv => Authentic
    BY DEF SessionInv, NamesOwned, ProvedJoined, Authentic, Past, Proved
  <1> QED BY <1>1, AlwaysSessionInv, PTL

(* A challenge that expired, or was answered with a token, before the      *)
(* second look-up is refused by it.                                        *)
THEOREM SpentCorrect == Spec => SpentIsRefused
  <1>1. SessionInv /\ [Next]_vars =>
          [\A v \in Verifies :
              vpc[v] = "get2" /\ vpc'[v] = "delete" => Key(v) \notin Spent]_vars
    <2> SUFFICES ASSUME SessionInv, Next, NEW v \in Verifies,
                        vpc[v] = "get2", vpc'[v] = "delete"
                 PROVE  Key(v) \notin Spent
      OBVIOUS
    <2>1. Get2(v)
      BY DEF Next, Verify, Receive, Get1, Profile, HasJoined, Issue, Get2, Delete, Fail,
             DeleteLost, Goto, Challenge, Environment, Expire, Restart, Join, Forget,
             Rename, SessionInv, TypeOK, Waiting
    <2>2. Key(v) \in cache
      BY <2>1 DEF Get2, Goto, SessionInv, TypeOK
    <2> QED BY <2>2 DEF Spent, SessionInv, OkGone
  <1> QED BY <1>1, AlwaysSessionInv, PTL DEF Spec, SpentIsRefused

(* No verification takes a challenge out of the cache but one whose        *)
(* account has joined it.                                                  *)
THEOREM ConsumedCorrect == Spec => ConsumedByProof
  <1>1. SessionInv /\ [Next]_vars =>
          [\A v \in Verifies :
             /\ vpc[v] \in Waiting
             /\ vpc'[v] \notin {vpc[v], "lost"}
             /\ Key(v) \in cache \ cache'
             => <<input[v].player, Key(v)>> \in joined]_vars
    <2> SUFFICES ASSUME SessionInv, Next, NEW v \in Verifies,
                        vpc[v] \in Waiting, vpc'[v] \notin {vpc[v], "lost"},
                        cache' # cache
                 PROVE  <<input[v].player, Key(v)>> \in joined
      OBVIOUS
    <2>1. Delete(v) \/ DeleteLost(v)
      BY DEF Next, Verify, Receive, Get1, Profile, HasJoined, Issue, Get2, Delete, Fail,
             DeleteLost, Goto, Challenge, Environment, Expire, Restart, Join, Forget,
             Rename, SessionInv, TypeOK, Waiting
    <2> QED BY <2>1 DEF Delete, DeleteLost, Goto, SessionInv, ProvedJoined, Proved
  <1> QED BY <1>1, AlwaysSessionInv, PTL DEF Spec, ConsumedByProof
----------------------------------------------------------------------------
(* Verification implements Ticket.                                         *)
ticket == <<issued, cache, joined, Phase, Claims>>

Open == ({"idle"} \cup Waiting) \ {"delete"}
Refused == {"400", "invalid", "notJoined", "used", "500", "lost"}

LEMMA InitTicket == Init => Promise!Init
  BY DEF Init, Phase, Claims, Promise!Init

(* Where a call of Verify stands, in the terms of Ticket.                  *)
LEMMA PhaseIs ==
    ASSUME SessionInv, NEW v \in Verifies
    PROVE  /\ vpc[v] \in Open => Phase[v] = "open" /\ Claims[v] = None
           /\ vpc[v] = "delete" => Phase[v] = "claimed" /\ Claims[v] = <<input[v].player, Key(v)>>
  BY DEF Phase, Claims, Open, Waiting

(* A call that stays open is no step of Ticket, however far it gets.       *)
LEMMA StaysOpen ==
    ASSUME NEW v \in Verifies, vpc[v] \in Open, vpc'[v] \in Open,
           \A w \in Verifies \ {v} : vpc'[w] = vpc[w] /\ input'[w] = input[w],
           UNCHANGED <<issued, cache, joined>>
    PROVE  UNCHANGED ticket
  <1>1. Phase' = Phase
    BY DEF Phase, Open, Waiting
  <1>2. Claims' = Claims
    BY DEF Claims, Key, Open, Waiting
  <1> QED BY <1>1, <1>2 DEF ticket

(* A call that is refused gives its claim up, maybe with the challenge.    *)
LEMMA GivesUp ==
    ASSUME SessionInv, NEW v \in Verifies, vpc[v] \in {"idle"} \cup Waiting,
           vpc'[v] \in Refused,
           \A w \in Verifies \ {v} : vpc'[w] = vpc[w] /\ input'[w] = input[w],
           UNCHANGED <<issued, joined>>,
           cache' = cache \/ (vpc[v] = "delete" /\ cache' = cache \ {Key(v)})
    PROVE  Promise!Refuse(v)
  <1>1. /\ Phase[v] \in {"open", "claimed"}
        /\ Phase[v] = "claimed" <=> vpc[v] = "delete"
        /\ vpc[v] = "delete" => Claims[v][2] = Key(v)
    BY PhaseIs DEF Open, Waiting
  <1>2. Phase' = [Phase EXCEPT ![v] = "refused"]
    BY DEF Phase, Refused, Waiting
  <1>3. Claims' = [Claims EXCEPT ![v] = None]
    BY DEF Claims, Key, Refused
  <1>4. cache' \in IF Phase[v] = "claimed" THEN {cache, cache \ {Claims[v][2]}} ELSE {cache}
    BY <1>1
  <1> QED BY <1>1, <1>2, <1>3, <1>4 DEF Promise!Refuse

(* The second look-up that succeeds claims the challenge.                  *)
LEMMA LookupClaims ==
    ASSUME SessionInv, NEW v \in Verifies, Get2(v), Key(v) \in cache
    PROVE  Promise!Claim(v)
  <1> DEFINE t == <<input[v].player, Key(v)>>
  <1>1. /\ vpc[v] = "get2" /\ vpc' = [vpc EXCEPT ![v] = "delete"]
        /\ UNCHANGED <<issued, cache, joined, input>>
    BY DEF Get2, Goto, mojang
  <1>2. t \in joined /\ t[2] \in cache
    BY <1>1 DEF SessionInv, ProvedJoined, Proved
  <1>3. Phase[v] = "open"
    BY <1>1, PhaseIs DEF Open, Waiting
  <1>4. Phase' = [Phase EXCEPT ![v] = "claimed"]
    BY <1>1 DEF Phase, SessionInv, TypeOK, Waiting
  <1>5. Claims' = [Claims EXCEPT ![v] = t]
    BY <1>1 DEF Claims, Key, SessionInv, TypeOK
  <1> QED BY <1>1, <1>2, <1>3, <1>4, <1>5 DEF Promise!Claim

(* The deletion that succeeds pays for it.                                 *)
LEMMA DeletePays ==
    ASSUME SessionInv, NEW v \in Verifies, Delete(v)
    PROVE  Promise!Pay(v)
  <1>1. /\ vpc[v] = "delete" /\ vpc' = [vpc EXCEPT ![v] = "ok"]
        /\ cache' = cache \ {Key(v)} /\ UNCHANGED <<issued, joined, input>>
    BY DEF Delete, Goto, mojang
  <1>2. Phase[v] = "claimed" /\ Claims[v][2] = Key(v)
    BY <1>1, PhaseIs
  <1>3. Phase' = [Phase EXCEPT ![v] = "paid"]
    BY <1>1 DEF Phase, SessionInv, TypeOK, Waiting
  <1>4. Claims' = Claims
    BY <1>1 DEF Claims, Key, SessionInv, TypeOK
  <1> QED BY <1>1, <1>2, <1>3, <1>4 DEF Promise!Pay

LEMMA VerifyTickets ==
    ASSUME SessionInv, NEW v \in Verifies, Verify(v)
    PROVE  Promise!Next \/ UNCHANGED ticket
  <1>1. /\ \A w \in Verifies \ {v} : vpc'[w] = vpc[w] /\ input'[w] = input[w]
        /\ UNCHANGED <<issued, joined>>
    BY DEF Verify, Receive, Get1, Profile, HasJoined, Issue, Get2, Delete, Fail, DeleteLost,
           Goto, mojang, SessionInv, TypeOK
  <1>2. CASE Get2(v) /\ Key(v) \in cache
    BY <1>2, LookupClaims DEF Promise!Next
  <1>3. CASE Delete(v)
    BY <1>3, DeletePays DEF Promise!Next
  <1>4. CASE \/ Receive(v) \/ Get1(v) \/ Profile(v) \/ HasJoined(v) \/ Issue(v)
             \/ (Get2(v) /\ Key(v) \notin cache) \/ Fail(v)
    <2>1. UNCHANGED cache /\ vpc[v] \in {"idle"} \cup Waiting
      BY <1>4 DEF Receive, Get1, Profile, HasJoined, Issue, Get2, Fail, Goto, Waiting
    <2>2. (vpc[v] \in Open /\ vpc'[v] \in Open) \/ vpc'[v] \in Refused
      BY <1>4 DEF Receive, Get1, Profile, HasJoined, Issue, Get2, Fail, Goto, Open, Waiting,
            Refused, SessionInv, TypeOK
    <2>3. CASE vpc[v] \in Open /\ vpc'[v] \in Open
      BY <1>1, <2>1, <2>3, StaysOpen
    <2>4. CASE vpc'[v] \in Refused
      BY <1>1, <2>1, <2>4, GivesUp DEF Promise!Next
    <2> QED BY <2>2, <2>3, <2>4
  <1>5. CASE DeleteLost(v)
    <2>1. vpc[v] = "delete" /\ vpc'[v] \in Refused /\ cache' = cache \ {Key(v)}
      BY <1>5 DEF DeleteLost, Goto, Refused, SessionInv, TypeOK
    <2> QED BY <1>1, <2>1, GivesUp DEF Promise!Next, Waiting
  <1> QED BY <1>2, <1>3, <1>4, <1>5 DEF Verify

LEMMA EnvironmentTickets ==
    ASSUME SessionInv, Environment
    PROVE  Promise!Next \/ UNCHANGED ticket
  <1>1. ASSUME NEW s \in Challenges, Expire(s) PROVE Promise!Expire(s)
    <2>1. cache' = cache \ {s} /\ UNCHANGED <<issued, joined, vpc, input>>
      BY <1>1 DEF Expire, mojang
    <2> QED BY <2>1 DEF Phase, Claims, Key, Promise!Expire
  <1>2. ASSUME NEW p \in Players, Join(p) PROVE \E s \in Challenges : Promise!Prove(p, s)
    <2>1. PICK s \in issued : joined' = joined \cup {<<p, s>>}
      BY <1>2 DEF Join
    <2>2. UNCHANGED <<issued, cache, vpc, input>> /\ s \in Challenges
      BY <1>2 DEF Join, SessionInv, TypeOK
    <2>3. Phase' = Phase /\ Claims' = Claims
      BY <2>2 DEF Phase, Claims, Key
    <2> QED BY <2>1, <2>2, <2>3 DEF Promise!Prove
  <1>3. ASSUME NEW p \in Players, Forget(p) \/ Rename(p) PROVE UNCHANGED ticket
    BY <1>3 DEF Forget, Rename, ticket, Phase, Claims, Key
  <1>4. CASE Restart
    <2> DEFINE lost == {v \in Verifies : vpc[v] \in Waiting}
    <2>1. /\ vpc' = [v \in Verifies |-> IF v \in lost THEN "lost" ELSE vpc[v]]
          /\ cache' \in {cache, {}} /\ UNCHANGED <<issued, joined, input>>
      BY <1>4 DEF Restart, mojang
    <2>2. lost \in SUBSET {v \in Verifies : Phase[v] \in {"open", "claimed"}}
      BY PhaseIs DEF Open, Waiting
    <2>3. Phase' = [v \in Verifies |-> IF v \in lost THEN "refused" ELSE Phase[v]]
      BY <2>1 DEF Phase, Waiting
    <2>4. Claims' = [v \in Verifies |-> IF v \in lost THEN None ELSE Claims[v]]
      BY <2>1 DEF Claims, Key, Waiting
    <2> HIDE DEF lost
    <2>5. Promise!Stop
      BY <2>1, <2>2, <2>3, <2>4 DEF Promise!Stop
    <2> QED BY <2>5 DEF Promise!Next
  <1> QED BY <1>1, <1>2, <1>3, <1>4 DEF Environment, Promise!Next

LEMMA NextTickets == SessionInv /\ [Next]_vars => [Promise!Next]_Promise!tvars
  <1> SUFFICES ASSUME SessionInv, [Next]_vars PROVE Promise!Next \/ UNCHANGED ticket
    BY DEF ticket, Promise!tvars
  <1>1. CASE UNCHANGED vars
    BY <1>1 DEF vars, mojang, ticket, Phase, Claims, Key
  <1>2. ASSUME NEW s \in Challenges, Challenge(s) PROVE Promise!Issue(s)
    <2>1. UNCHANGED <<joined, vpc, input>>
      BY <1>2 DEF Challenge, mojang
    <2>2. Phase' = Phase /\ Claims' = Claims
      BY <2>1 DEF Phase, Claims, Key
    <2> QED BY <1>2, <2>1, <2>2 DEF Challenge, Promise!Issue
  <1> QED BY <1>1, <1>2, VerifyTickets, EnvironmentTickets DEF Next, Promise!Next

(* Verification implements Ticket: a token is the payment of a claim that  *)
(* was proved and made while the challenge was live, whatever fails, is    *)
(* renamed, expires or restarts meanwhile.                                 *)
THEOREM TicketCorrect == Spec => TicketSpec
  <1>1. TicketSpec <=> Promise!Spec
    BY DEF TicketSpec
  <1> QED BY <1>1, InitTicket, NextTickets, AlwaysSessionInv, PTL DEF Spec, Promise!Spec
=============================================================================
