------------------------------ MODULE Session ------------------------------
(***************************************************************************)
(* Minecraft session verification: GET /v1/auth/minecraft/challenge and    *)
(* POST /v1/auth/minecraft/verify, with the challenge cache they share and *)
(* Mojang's session service, which they call.                              *)
(*                                                                         *)
(* Every call to the cache or to Mojang is a step of its own, so the calls *)
(* of Verify interleave between any two of them; each such call may fail,  *)
(* and the process may stop and start again at any moment.  A challenge is *)
(* named by the call of Challenge that made it, since NewUUID never        *)
(* repeats itself.                                                         *)
(***************************************************************************)
EXTENDS Naturals, FiniteSets

CONSTANTS
    Challenges,  \* the calls of Challenge, and the server IDs they issue
    Verifies,    \* the calls of Verify
    Players,     \* Mojang accounts
    Names,       \* the names accounts bear
    None

VARIABLES
    issued,   \* the challenges some client was told
    cache,    \* the keys of Services.Cache
    name, used,  \* Mojang: each account's name, every name ever borne
    session,  \* Mojang: the server ID an account last joined, as written
    joined,   \* history: every <<account, challenge>> that was joined
    vpc,      \* vpc[v]: where the call of Verify is, or how it answered
    input,    \* input[v]: the body of the request
    token     \* token[v]: the identity Verify has looked up and signs

mojang == <<name, used, session, joined>>
vars == <<issued, cache, mojang, vpc, input, token>>

(* A UUID as text: bare or with dashes; the id None is text that is none.  *)
Forms == {"bare", "dashed"}
Texts == [id : Challenges \cup {None}, form : Forms]
NormalizeUUID(x) == [x EXCEPT !.form = "bare"]

VerifyInput == [serverID : Texts, player : Players \cup {None}]
ASSUME SessionAssumption == None \notin Challenges \cup Players \cup Texts

Key(v) == NormalizeUUID(input[v].serverID).id   \* "kaeman:challenge:" + id

Waiting == {"get1", "profile", "hasJoined", "issue", "get2", "delete"}
Answers == {"400", "invalid", "notJoined", "used", "500", "ok"}

Init ==
    /\ issued = {}
    /\ cache = {}
    /\ name \in {f \in [Players -> Names] :
                   \A p, q \in Players : p # q => f[p] # f[q]}
    /\ used = {name[p] : p \in Players}
    /\ session = [p \in Players |-> None]
    /\ joined = {}
    /\ vpc = [v \in Verifies |-> "idle"]
    /\ input = [v \in Verifies |-> None]
    /\ token = [v \in Verifies |-> None]

----------------------------------------------------------------------------
(* Challenge: Cache.Set and the answer, or an error after which the entry  *)
(* may be in the cache under an ID nobody was told.                        *)
Challenge(s) ==
    /\ s \notin issued \cup cache
    /\ cache' = cache \cup {s}
    /\ issued' \in {issued, issued \cup {s}}
    /\ UNCHANGED <<mojang, vpc, input, token>>

----------------------------------------------------------------------------
(* Verify.                                                                 *)
Goto(v, from, to) == vpc[v] = from /\ vpc' = [vpc EXCEPT ![v] = to]

(* Slip: a text that is no UUID gets past the handler's checks. *)
ReceiveUnchecked(v) ==
    \E x \in VerifyInput :
        /\ x.serverID.id \in issued \cup {None}
        /\ input' = [input EXCEPT ![v] = x]
        /\ Goto(v, "idle", IF x.player = None THEN "400" ELSE "get1")
        /\ UNCHANGED <<issued, cache, mojang, token>>

(* Decoding the body and normalising both UUIDs. *)
Receive(v) ==
    \E x \in VerifyInput :
        /\ x.serverID.id \in issued \cup {None}
        /\ input' = [input EXCEPT ![v] = x]
        /\ Goto(v, "idle",
                IF None \in {x.serverID.id, x.player} THEN "400" ELSE "get1")
        /\ UNCHANGED <<issued, cache, mojang, token>>

(* Slip: the first look-up takes the challenge out of the cache. *)
Get1Takes(v) ==
    /\ Goto(v, "get1", IF Key(v) \in cache THEN "profile" ELSE "invalid")
    /\ cache' = cache \ {Key(v)}
    /\ UNCHANGED <<issued, mojang, input, token>>

Get1(v) ==
    /\ Goto(v, "get1", IF Key(v) \in cache THEN "profile" ELSE "invalid")
    /\ UNCHANGED <<issued, cache, mojang, input, token>>

(* Client.Profile: the name the account bears now. *)
Profile(v) ==
    /\ Goto(v, "profile", "hasJoined")
    /\ token' = [token EXCEPT ![v] =
                   [uuid |-> input[v].player, name |-> name[input[v].player]]]
    /\ UNCHANGED <<issued, cache, mojang, input>>

(* Client.HasJoined asks about a user name, and about the server ID exactly *)
(* as the client of Verify wrote it.                                       *)
Knows(n, x) == \E p \in Players : name[p] = n /\ session[p] = x

(* Slip: a join of this server by any player is taken for this one's. *)
HasJoinedAnyone(v) ==
    /\ Goto(v, "hasJoined", IF \E n \in Names : Knows(n, input[v].serverID)
                            THEN "issue" ELSE "notJoined")
    /\ UNCHANGED <<issued, cache, mojang, input, token>>

HasJoined(v) ==
    /\ Goto(v, "hasJoined", IF Knows(token[v].name, input[v].serverID)
                            THEN "issue" ELSE "notJoined")
    /\ UNCHANGED <<issued, cache, mojang, input, token>>

(* IssueMinecraft signs the identity. *)
Issue(v) ==
    /\ Goto(v, "issue", "get2")
    /\ UNCHANGED <<issued, cache, mojang, input, token>>

(* Slip: the challenge is not looked up again after the calls to Mojang. *)
Get2Skipped(v) ==
    /\ Goto(v, "get2", "delete")
    /\ UNCHANGED <<issued, cache, mojang, input, token>>

Get2(v) ==
    /\ Goto(v, "get2", IF Key(v) \in cache THEN "delete" ELSE "used")
    /\ UNCHANGED <<issued, cache, mojang, input, token>>

(* Deleting a key that is gone already is no error. *)
Delete(v) ==
    /\ Goto(v, "delete", "ok")
    /\ cache' = cache \ {Key(v)}
    /\ UNCHANGED <<issued, mojang, input, token>>

(* A call to the cache or to Mojang fails and Verify answers 500.  A Delete *)
(* that fails may have reached the cache all the same.                     *)
Fail(v) ==
    /\ \E from \in Waiting : Goto(v, from, "500")
    /\ UNCHANGED <<issued, cache, mojang, input, token>>

DeleteLost(v) ==
    /\ Goto(v, "delete", "500")
    /\ cache' = cache \ {Key(v)}
    /\ UNCHANGED <<issued, mojang, input, token>>

Verify(v) ==
    \/ Receive(v) \/ Get1(v) \/ Profile(v) \/ HasJoined(v)
    \/ Issue(v) \/ Get2(v) \/ Delete(v) \/ Fail(v) \/ DeleteLost(v)

----------------------------------------------------------------------------
(* The environment.                                                        *)

(* The five minutes of WithExpiration are over. *)
Expire(s) ==
    /\ s \in cache
    /\ cache' = cache \ {s}
    /\ UNCHANGED <<issued, mojang, vpc, input, token>>

(* The process stops and starts: requests in flight are never answered,    *)
(* and the cache survives if it is Redis, not if it is the process's own.  *)
Restart ==
    /\ vpc' = [v \in Verifies |-> IF vpc[v] \in Waiting THEN "lost" ELSE vpc[v]]
    /\ cache' \in {cache, {}}
    /\ UNCHANGED <<issued, mojang, input, token>>

(* A player's client joins a server ID as Challenge wrote it, without      *)
(* dashes; Mojang forgets a join after a while, and lets an account take a *)
(* name nobody has borne.                                                  *)
Join(p) ==
    \E s \in issued :
        /\ session' = [session EXCEPT ![p] = [id |-> s, form |-> "bare"]]
        /\ joined' = joined \cup {<<p, s>>}
        /\ UNCHANGED <<issued, cache, name, used, vpc, input, token>>

Forget(p) ==
    /\ session[p] # None
    /\ session' = [session EXCEPT ![p] = None]
    /\ UNCHANGED <<issued, cache, name, used, joined, vpc, input, token>>

Rename(p) ==
    \E n \in Names \ used :
        /\ name' = [name EXCEPT ![p] = n]
        /\ used' = used \cup {n}
        /\ UNCHANGED <<issued, cache, session, joined, vpc, input, token>>

Environment ==
    \/ \E s \in Challenges : Expire(s)
    \/ Restart
    \/ \E p \in Players : Join(p) \/ Forget(p) \/ Rename(p)

Next ==
    \/ \E s \in Challenges : Challenge(s)
    \/ \E v \in Verifies : Verify(v)
    \/ Environment

Spec == Init /\ [][Next]_vars
=============================================================================
