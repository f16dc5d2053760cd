------------------------ MODULE AdmissionProperties ------------------------
(***************************************************************************)
(* What a request has been through by the time its handler runs.           *)
(***************************************************************************)
EXTENDS Admission

(* Types; a request that runs is within the chain of its route or just     *)
(* past it, the keys it carries are bearers of its own header, and who has *)
(* the connection is about to ask.                                         *)
TypeOK ==
    /\ call \in [Requests -> Calls \cup {None}]
    /\ stage \in [Requests -> Nat]
    /\ answer \in [Requests -> Statuses \cup {None}]
    /\ key \in [Requests -> Bearers \cup {None}]
    /\ session \in [Requests -> Bearers \cup {None}]
    /\ limited \in [Requests -> BOOLEAN]
    /\ expired \in SUBSET Bearers
    /\ binding \in [Players -> Users \cup {None}]
    /\ pool \in Requests \cup {None}
    /\ \A k \in DOMAIN passed : passed[k] \in Nat /\ k \in DOMAIN hits
    /\ \A k \in DOMAIN hits : hits[k] \in Nat \ {0}
    /\ \A k \in DOMAIN lost : lost[k] \in 1 .. MaxLost /\ k \in DOMAIN hits
    /\ pool # None => Queries(pool)
    /\ witness \in [Requests -> SUBSET (Players \X (Users \cup {None}))]
    /\ \A r \in Requests : call[r] # None =>
          /\ stage[r] \in 1 .. Len(Chain[call[r].route]) + 1
          /\ {key[r], session[r]} \subseteq {None} \cup
                {call[r].auth[i] : i \in DOMAIN call[r].auth}

(* Nothing is broadcast for a request without a key that may queue and a   *)
(* Minecraft session, and, unless the key is the RPC service's, without    *)
(* the session's account having belonged to the owner of the key at some   *)
(* moment of this very request (auth.go:43-129, router.go:42).             *)
Authorised ==
    \A r \in Requests : answer[r] = "202" =>
        /\ key[r] # None /\ Permitted(key[r])
        /\ session[r] # None
        /\ Claims[key[r]].rpc \/
              /\ Claims[key[r]].api.uid # None
              /\ <<Claims[session[r]].player, Claims[key[r]].api.uid>> \in witness[r]

(* The unchecked dereference of data.public.api in MinecraftToken never    *)
(* meets a nil pointer: PublicAPIKey has always refused such a key before  *)
(* (auth.go:52-58, auth.go:110).                                           *)
NoPanic == \A r \in Requests : answer[r] # "panic"

(* Within one window no more than the first Count requests of a caller     *)
(* pass, whatever the interleaving, and none is refused while the limit is *)
(* not used up: less than that pass only for what the store counted and    *)
(* could not tell of (ratelimit.go:37-53).                                 *)
QuotaExact ==
    \A r \in Requests : limited[r] /\ Counter(r) \in DOMAIN hits =>
        LET used == IF hits[Counter(r)] < Count(r) THEN hits[Counter(r)] ELSE Count(r)
        IN  /\ At0(passed, Counter(r)) <= used
            /\ At0(passed, Counter(r)) + At0(lost, Counter(r)) >= used

(* A 401 is charged to a quota if and only if it is /verify that gave it:  *)
(* a middleware refuses a stranger for nothing, and none tries a challenge *)
(* for nothing (router.go:34, router.go:38, router.go:43).                 *)
StrangersAreFree ==
    \A r \in Requests : answer[r] = "401" =>
        (limited[r] <=> call[r].route = "verify")

(* Every request is answered, though they all wait for one connection: no  *)
(* way out of MinecraftToken keeps it (database.go:45, auth.go:115-125).   *)
Answered ==
    \A r \in Requests : Running(r) ~> (answer[r] # None \/ Endless(r))

(* queue.go:65: one JWT whose audience is public-api and minecraft-session *)
(* and that carries the permission and the identity is taken by /queue.    *)
DocumentedToken ==
    \A r \in Requests : answer[r] = "401" /\ call[r].route = "queue" =>
        \A i \in DOMAIN call[r].auth :
            LET b == call[r].auth[i] IN
            b \in Bearers \ expired =>
                ~ /\ {"public-api", "minecraft-session"} \subseteq Claims[b].aud
                  /\ Claims[b].api # None /\ Permitted(b)
                  /\ {w \in witness[r] : w[1] = Claims[b].player}
                        = {<<Claims[b].player, Claims[b].api.uid>>}
=============================================================================
