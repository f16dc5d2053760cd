----------------------------- MODULE Admission -----------------------------
(***************************************************************************)
(* How a request is admitted: the middleware chain each route is given in  *)
(* public/api/router.go (API key, permission, Minecraft session, binding,  *)
(* rate limit) and the answer.                                             *)
(*                                                                         *)
(* Requests run concurrently.  They share the rate-limit store, the table  *)
(* of identities and the one connection to it, and the passing of time, so *)
(* a middleware that reads one of these is a step of its own, and so is    *)
(* the handler; what runs between two such reads is part of the step       *)
(* before.                                                                 *)
(***************************************************************************)
EXTENDS Integers, Sequences, FiniteSets

CONSTANTS
    Requests,   \* the requests in flight
    Calls,      \* what a client may send: [route, ip, auth]
    Bearers,    \* the signed tokens that exist
    Claims,     \* Claims[b]: [aud, rpc, api, player], see below
    Users,      \* kaeman users
    Players,    \* Minecraft accounts
    DefaultCount,  \* requests a minute for a caller with no limit of its own: 60
    MaxLost,    \* bound: the answers of the store that get lost on their way
                \* in one window, 0 for the store in memory
    None

Routes == {"check", "challenge", "verify", "queue", "gateway"}

(* An Authorization header holds bearers, or texts that are no valid token *)
(* (None).  In a claim, api is data.public.api, player data.minecraft.uuid; *)
(* a nil pointer and a zero are treated alike, as the code does, and a uid *)
(* that is no UUID is None.                                                *)
PublicAPI == [uid : Users \cup {None}, permissions : SUBSET {"default", "queue"},
              ratelimit : Int]
Claim == [aud : SUBSET {"api-key", "minecraft-session", "public-api"},
          rpc : BOOLEAN, api : PublicAPI \cup {None}, player : Players \cup {None}]

Statuses == {"101", "200", "202", "400", "401", "426", "429", "500", "503", "panic"}

ASSUME AdmissionAssumption ==
    /\ \A c \in Calls : /\ c.route \in Routes
                        /\ c.auth \in Seq(Bearers \cup {None})
    /\ Bearers \subseteq DOMAIN Claims
    /\ \A b \in Bearers :
          /\ Claims[b].aud \in SUBSET {"api-key", "minecraft-session", "public-api"}
          /\ Claims[b].rpc \in BOOLEAN
          /\ Claims[b].api # None =>
                /\ Claims[b].api.uid \in Users \cup {None}
                /\ Claims[b].api.permissions \in SUBSET {"default", "queue"}
                /\ Claims[b].api.ratelimit \in Int
          /\ Claims[b].player \in Players \cup {None}
    /\ DefaultCount \in Nat \ {0} /\ MaxLost \in Nat
    /\ None \notin Bearers \cup Users \cup Players
    /\ None \notin Calls /\ None \notin Statuses
    /\ None \notin Requests

VARIABLES
    call,      \* call[r]: what the client sent
    stage,     \* stage[r]: the place of r in its route's chain
    answer,    \* answer[r]: the status it was answered with
    key,       \* c.Get("publicAPIKey")
    session,   \* c.Get("minecraftKey")
    limited,   \* the answer carries the Ratelimit headers
    expired,   \* the bearers past their expiry
    binding,   \* KaemanIdentity: the user a Minecraft account belongs to
    pool,      \* the request that has the database's only connection
    hits,      \* the rate-limit store
    passed,    \* history: how many a counter let pass in this window
    lost,      \* history: how many it counted and could not tell of
    witness    \* history: the bindings there have been while r ran

request == <<call, stage, answer, key, session, limited>>
world == <<expired, binding, witness>>
store == <<hits, passed, lost>>
vars == <<request, world, pool, store>>

(* Slips: the session is checked before the key, the quota is charged      *)
(* before the caller is known, the key is not checked to be a public one.  *)
ChainSessionFirst == [
    check     |-> <<"apiKey", "rateLimit">>,
    challenge |-> <<"rateLimit">>,
    verify    |-> <<"rateLimit">>,
    queue     |-> <<"minecraftToken", "binding", "publicAPIKey", "rateLimit">>,
    gateway   |-> <<>>]
ChainChargesFirst == [
    check     |-> <<"rateLimit", "apiKey">>,
    challenge |-> <<"rateLimit">>,
    verify    |-> <<"rateLimit">>,
    queue     |-> <<"rateLimit", "publicAPIKey", "minecraftToken", "binding">>,
    gateway   |-> <<>>]
ChainAnyKey == [
    check     |-> <<"apiKey", "rateLimit">>,
    challenge |-> <<"rateLimit">>,
    verify    |-> <<"rateLimit">>,
    queue     |-> <<"apiKey", "minecraftToken", "binding", "rateLimit">>,
    gateway   |-> <<>>]

(* Register: each route's middlewares, outermost first.  "binding" is the  *)
(* second half of MinecraftToken, from the query of the database on.       *)
Chain == [
    check     |-> <<"apiKey", "rateLimit">>,
    challenge |-> <<"rateLimit">>,
    verify    |-> <<"rateLimit">>,
    queue     |-> <<"publicAPIKey", "minecraftToken", "binding", "rateLimit">>,
    gateway   |-> <<>>]

Init ==
    /\ call = [r \in Requests |-> None]
    /\ stage = [r \in Requests |-> 0]
    /\ answer = [r \in Requests |-> None]
    /\ key = [r \in Requests |-> None]
    /\ session = [r \in Requests |-> None]
    /\ limited = [r \in Requests |-> FALSE]
    /\ expired = {}
    /\ binding \in [Players -> Users \cup {None}]
    /\ pool = None
    /\ hits = <<>>
    /\ passed = <<>> /\ lost = <<>>
    /\ witness = [r \in Requests |-> {}]

----------------------------------------------------------------------------
Running(r) == call[r] # None /\ answer[r] = None
At(r, m) ==
    /\ Running(r)
    /\ stage[r] \in DOMAIN Chain[call[r].route]
    /\ Chain[call[r].route][stage[r]] = m

Answer(r, status) == answer' = [answer EXCEPT ![r] = status] /\ UNCHANGED stage
Pass(r) == stage' = [stage EXCEPT ![r] = @ + 1] /\ UNCHANGED answer

(* ParseAPIKey and ParseMinecraft: the bearers each accepts now. *)
ParseAPIKey == {b \in Bearers \ expired : "api-key" \in Claims[b].aud}
ParseMinecraft ==
    {b \in Bearers \ expired : /\ "minecraft-session" \in Claims[b].aud
                               /\ Claims[b].player # None}

(* KeyAuth tries the values of the header in order and takes the first one *)
(* its validator accepts.                                                  *)
Accepted(r, valid) ==
    LET good == {i \in DOMAIN call[r].auth : call[r].auth[i] \in valid}
    IN  IF good = {} THEN None
        ELSE call[r].auth[CHOOSE i \in good : \A j \in good : i <= j]

Arrive(r) ==
    \E c \in Calls :
        /\ call[r] = None
        /\ call' = [call EXCEPT ![r] = c]
        /\ stage' = [stage EXCEPT ![r] = 1]
        /\ witness' = [witness EXCEPT ![r] = {<<p, binding[p]>> : p \in Players}]
        /\ UNCHANGED <<answer, key, session, limited, expired, binding, pool, store>>

APIKey(r) ==
    /\ At(r, "apiKey")
    /\ key' = [key EXCEPT ![r] = Accepted(r, ParseAPIKey)]
    /\ IF key'[r] = None THEN Answer(r, "401") ELSE Pass(r)
    /\ UNCHANGED <<call, session, limited, world, pool, store>>

(* A key of the RPC service needs no permission; any other must be a       *)
(* public one, with permissions, a rate limit and the one asked for.       *)
Permitted(b) ==
    \/ Claims[b].rpc
    \/ /\ Claims[b].api # None
       /\ Claims[b].api.ratelimit # 0
       /\ "queue" \in Claims[b].api.permissions

PublicAPIKey(r) ==
    /\ At(r, "publicAPIKey")
    /\ key' = [key EXCEPT ![r] = Accepted(r, ParseAPIKey)]
    /\ IF key'[r] # None /\ Permitted(key'[r]) THEN Pass(r) ELSE Answer(r, "401")
    /\ UNCHANGED <<call, session, limited, world, pool, store>>

MinecraftToken(r) ==
    /\ At(r, "minecraftToken")
    /\ session' = [session EXCEPT ![r] = Accepted(r, ParseMinecraft)]
    /\ IF session'[r] = None THEN Answer(r, "401") ELSE Pass(r)
    /\ UNCHANGED <<call, key, limited, world, pool, store>>

(* Two more tests of HasRPC, in MinecraftToken and RateLimit, free a key    *)
(* of the RPC service from the binding and from the limit.                 *)
Bypass(r) == key[r] # None /\ Claims[key[r]].rpc

(* The account must belong to the owner of the key.  pub.Data.Public.API   *)
(* is dereferenced without a check of its own: a nil pointer panics, which *)
(* Recover turns into a 500.                                               *)
Owns(b, p) == Claims[b].api.uid # None /\ binding[p] = Claims[b].api.uid

(* The table is asked for a key of a user only.  The pool has one          *)
(* connection: a query waits until no other request has it.                *)
Queries(r) ==
    /\ At(r, "binding")
    /\ key[r] # None /\ ~Bypass(r)
    /\ Claims[key[r]].api # None /\ Claims[key[r]].api.uid # None

Acquire(r) ==
    /\ Queries(r)
    /\ pool = None /\ pool' = r
    /\ UNCHANGED <<request, world, store>>

Release(r) == pool' = IF pool = r THEN None ELSE pool

CheckBinding(r) ==
    /\ At(r, "binding")
    /\ Queries(r) => pool = r
    /\ IF key[r] = None \/ Bypass(r) THEN Pass(r)
       ELSE IF Claims[key[r]].api = None THEN Answer(r, "panic")
       ELSE IF Owns(key[r], Claims[session[r]].player) THEN Pass(r)
       ELSE Answer(r, "401")
    /\ UNCHANGED <<call, key, session, limited, world, store>>

(* Slip: the connection is given back only by a query that finds the       *)
(* binding it asked for.                                                   *)
BindingKeeps(r) ==
    CheckBinding(r) /\ IF answer'[r] = "401" THEN UNCHANGED pool ELSE Release(r)

Binding(r) == CheckBinding(r) /\ Release(r)

----------------------------------------------------------------------------
(* RateLimit.                                                              *)

(* The counter of r: path, caller and address, where the caller is the API *)
(* key, else the Minecraft session, else nobody.                           *)
Counter(r) == <<call[r].route,
                IF key[r] # None THEN key[r] ELSE session[r], call[r].ip>>

Count(r) ==
    IF key[r] # None /\ Claims[key[r]].api # None /\ Claims[key[r]].api.ratelimit > 0
    THEN Claims[key[r]].api.ratelimit ELSE DefaultCount

At0(f, x) == IF x \in DOMAIN f THEN f[x] ELSE 0
Bump(f, x) == [y \in DOMAIN f \cup {x} |-> IF y = x THEN At0(f, x) + 1 ELSE f[y]]

RateLimitBypass(r) ==
    /\ At(r, "rateLimit")
    /\ Bypass(r)
    /\ Pass(r)
    /\ UNCHANGED <<call, key, session, limited, world, pool, store>>

(* Slip: the request that reaches the limit is let through. *)
RateLimitOneMore(r) ==
    /\ At(r, "rateLimit")
    /\ ~Bypass(r)
    /\ hits' = Bump(hits, Counter(r))
    /\ limited' = [limited EXCEPT ![r] = TRUE]
    /\ IF At0(hits, Counter(r)) <= Count(r)
       THEN Pass(r) /\ passed' = Bump(passed, Counter(r))
       ELSE Answer(r, "429") /\ UNCHANGED passed
    /\ UNCHANGED <<call, key, session, world, pool, lost>>

(* The store counts the request and tells, in one step, whether the count  *)
(* is past the limit.                                                      *)
RateLimit(r) ==
    /\ At(r, "rateLimit")
    /\ ~Bypass(r)
    /\ hits' = Bump(hits, Counter(r))
    /\ limited' = [limited EXCEPT ![r] = TRUE]
    /\ IF At0(hits, Counter(r)) < Count(r)
       THEN Pass(r) /\ passed' = Bump(passed, Counter(r))
       ELSE Answer(r, "429") /\ UNCHANGED passed
    /\ UNCHANGED <<call, key, session, world, pool, lost>>

(* Redis counts the request, but its answer is lost on the way: the client *)
(* of Redis tries again, or gives up (Fail).                               *)
CountLost(r) ==
    /\ At(r, "rateLimit")
    /\ ~Bypass(r)
    /\ At0(lost, Counter(r)) < MaxLost
    /\ hits' = Bump(hits, Counter(r))
    /\ lost' = Bump(lost, Counter(r))
    /\ UNCHANGED <<request, world, pool, passed>>

(* The database or the store fails, or the client leaves while its request *)
(* waits for them: the error is returned, answered 500.                    *)
Fail(r) ==
    /\ Queries(r) \/ (At(r, "rateLimit") /\ ~Bypass(r))
    /\ Answer(r, "500")
    /\ Release(r)
    /\ UNCHANGED <<call, key, session, limited, world, store>>

(* Slip: the handler gives no answer and the chain goes on past its end. *)
HandleSilent(r) ==
    /\ Running(r)
    /\ stage[r] > Len(Chain[call[r].route])
    /\ Pass(r)
    /\ UNCHANGED <<call, key, session, limited, world, pool, store>>

(* What each handler answers, 500 for the errors it returns: Verify and    *)
(* Send refuse what their clients say, Listen passes on the status of a    *)
(* refused handshake and of a hub that is closed.  202 is the answer after *)
(* Hub.Broadcast.                                                          *)
Replies == [
    check     |-> {"200"},
    challenge |-> {"200", "500"},
    verify    |-> {"200", "400", "401", "500"},
    queue     |-> {"202", "400", "500"},
    gateway   |-> {"101", "400", "426", "500", "503"}]

(* The handler runs once the chain is through. *)
Handle(r) ==
    /\ Running(r)
    /\ stage[r] > Len(Chain[call[r].route])
    /\ \E status \in Replies[call[r].route] : Answer(r, status)
    /\ UNCHANGED <<call, key, session, limited, world, pool, store>>

Proceed(r) ==
    \/ APIKey(r) \/ PublicAPIKey(r) \/ MinecraftToken(r) \/ Binding(r)
    \/ RateLimitBypass(r) \/ RateLimit(r) \/ Handle(r)

Serve(r) == Proceed(r) \/ Fail(r)

----------------------------------------------------------------------------
(* The environment: a bearer expires, the identity of an account changes   *)
(* hands, the minute of a counter is over.                                 *)
Expire(b) ==
    /\ b \notin expired
    /\ expired' = expired \cup {b}
    /\ UNCHANGED <<request, binding, witness, pool, store>>

Bind(p) ==
    \E u \in Users \cup {None} :
        /\ binding' = [binding EXCEPT ![p] = u]
        /\ witness' = [r \in Requests |-> IF Running(r)
                          THEN witness[r] \cup {<<p, u>>} ELSE witness[r]]
        /\ UNCHANGED <<request, expired, pool, store>>

WindowEnds(k) ==
    /\ hits' = [x \in DOMAIN hits \ {k} |-> hits[x]]
    /\ passed' = [x \in DOMAIN passed \ {k} |-> passed[x]]
    /\ lost' = [x \in DOMAIN lost \ {k} |-> lost[x]]
    /\ UNCHANGED <<request, world, pool>>

Next ==
    \/ \E r \in Requests : Arrive(r) \/ Acquire(r) \/ Serve(r) \/ CountLost(r)
    \/ \E b \in Bearers : Expire(b)
    \/ \E p \in Players : Bind(p)
    \/ \E k \in DOMAIN hits : WindowEnds(k)

Spec == Init /\ [][Next]_vars

(* The goroutine of a request runs, the stores answer, and of the requests *)
(* that wait for the connection database/sql passes over none for ever.    *)
(* Verify may wait for Mojang, and the gateway for its subscriber, without *)
(* end: nothing is assumed of them.  No request is assumed to fail.        *)
Endless(r) == call[r] # None /\ call[r].route \in {"verify", "gateway"}
FairSpec ==
    /\ Spec
    /\ \A r \in Requests : WF_vars(Proceed(r) /\ ~Endless(r)) /\ SF_vars(Acquire(r))
=============================================================================
