-------------------------- MODULE AdmissionProofs --------------------------
(***************************************************************************)
(* Proofs about admission, for any requests, tokens, claims and limits.    *)
(***************************************************************************)
EXTENDS AdmissionProperties, TLAPS, WellFoundedInduction

(* Where in its chain each middleware stands. *)
LEMMA Places ==
    ASSUME NEW r \in Requests, call[r].route \in Routes, stage[r] \in Nat
    PROVE  /\ Len(Chain["check"]) = 2 /\ Len(Chain["challenge"]) = 1
           /\ Len(Chain["verify"]) = 1 /\ Len(Chain["queue"]) = 4
           /\ Len(Chain["gateway"]) = 0
           /\ At(r, "apiKey") => call[r].route = "check" /\ stage[r] = 1
           /\ At(r, "publicAPIKey") => call[r].route = "queue" /\ stage[r] = 1
           /\ At(r, "minecraftToken") => call[r].route = "queue" /\ stage[r] = 2
           /\ At(r, "binding") => call[r].route = "queue" /\ stage[r] = 3
           /\ At(r, "rateLimit") => stage[r] = Len(Chain[call[r].route])
  <1>1. CASE call[r].route = "check"
    BY <1>1 DEF Chain, At
  <1>2. CASE call[r].route = "challenge"
    BY <1>2 DEF Chain, At
  <1>3. CASE call[r].route = "verify"
    BY <1>3 DEF Chain, At
  <1>4. CASE call[r].route = "gateway"
    BY <1>4 DEF Chain, At
  <1>5. CASE call[r].route = "queue"
    BY <1>5 DEF Chain, At
  <1> QED BY <1>1, <1>2, <1>3, <1>4, <1>5 DEF Routes

LEMMA Least ==
    ASSUME NEW S \in SUBSET Nat, S # {}
    PROVE  \E i \in S : \A j \in S : i <= j
  <1> DEFINE R == OpToRel(<, Nat)
  <1>1. \E i \in S : \A j \in S : ~(<<j, i>> \in R)
    BY NatLessThanWellFounded, WFMin
  <1>2. ASSUME NEW i \in S, NEW j \in S, j < i PROVE <<j, i>> \in R
    <2>1. /\ <<j, i>> \in Nat \X Nat
          /\ <<j, i>>[1] < <<j, i>>[2]
      BY <1>2
    <2> QED BY <2>1, Zenon DEF OpToRel
  <1> HIDE DEF R
  <1>3. PICK i \in S : \A j \in S : ~(<<j, i>> \in R)
    BY <1>1
  <1>4. \A j \in S : ~(j < i)
    BY <1>2, <1>3
  <1> QED BY <1>4

(* KeyAuth takes a value of the header that its validator accepts. *)
LEMMA AcceptedIsValid ==
    ASSUME NEW r \in Requests, NEW valid, call[r].auth \in Seq(Bearers \cup {None}),
           Accepted(r, valid) # None
    PROVE  /\ Accepted(r, valid) \in valid
           /\ Accepted(r, valid) \in {call[r].auth[i] : i \in DOMAIN call[r].auth}
  <1> DEFINE good == {i \in DOMAIN call[r].auth : call[r].auth[i] \in valid}
             first == CHOOSE i \in good : \A j \in good : i <= j
  <1>1. good # {} /\ Accepted(r, valid) = call[r].auth[first]
    BY DEF Accepted
  <1>2. good \in SUBSET Nat
    OBVIOUS
  <1>3. first \in good
    <2> HIDE DEF good
    <2> QED BY <1>1, <1>2, Least
  <1> QED BY <1>1, <1>3

----------------------------------------------------------------------------
(* What r has been through at each place of the /queue chain.              *)
Bound(r) ==
    \/ Claims[key[r]].rpc
    \/ /\ Claims[key[r]].api.uid # None
       /\ <<Claims[session[r]].player, Claims[key[r]].api.uid>> \in witness[r]

Been ==
    \A r \in Requests : call[r] # None /\ call[r].route = "queue" =>
        /\ stage[r] >= 2 => key[r] # None /\ Permitted(key[r])
        /\ stage[r] >= 3 => session[r] # None /\ Claims[session[r]].player \in Players
        /\ stage[r] >= 4 => Bound(r)

(* The bindings of this moment are among those a running request has seen. *)
WitnessNow ==
    \A r \in Requests : Running(r) =>
        \A p \in Players : <<p, binding[p]>> \in witness[r]

(* Only the last link of a chain charges a quota, and a 202 comes after it. *)
Through(r) == stage[r] = Len(Chain[call[r].route]) + 1
Charged ==
    \A r \in Requests :
        /\ limited[r] => call[r] # None /\ (answer[r] = "429" \/ Through(r))
        /\ answer[r] # None => call[r] # None
        /\ answer[r] = "202" => call[r].route = "queue" /\ Through(r)
        /\ answer[r] = "401" /\ limited[r] => call[r].route = "verify"
        /\ answer[r] # "panic"

Within ==
    \A r \in Requests : call[r] # None =>
        stage[r] \in 1 .. Len(Chain[call[r].route]) + 1

Typed ==
    /\ call \in [Requests -> Calls \cup {None}]
    /\ stage \in [Requests -> Nat]
    /\ answer \in [Requests -> Statuses \cup {None}]
    /\ key \in [Requests -> Bearers \cup {None}]
    /\ session \in [Requests -> Bearers \cup {None}]
    /\ limited \in [Requests -> BOOLEAN]
    /\ binding \in [Players -> Users \cup {None}]
    /\ DOMAIN witness = Requests /\ witness = [r \in Requests |-> witness[r]]

AdmissionInv == Typed /\ Within /\ Been /\ WitnessNow /\ Charged

LEMMA InitAdmissionInv == Init => AdmissionInv
  BY AdmissionAssumption DEF Init, AdmissionInv, Typed, Within, Been, WitnessNow, Charged,
     Running, Statuses

(* A request in its chain has a call of a known route. *)
LEMMA RouteKnown ==
    ASSUME AdmissionInv, NEW r \in Requests, call[r] # None
    PROVE  /\ call[r] \in Calls /\ call[r].route \in Routes
           /\ call[r].auth \in Seq(Bearers \cup {None})
           /\ stage[r] \in Nat
  BY AdmissionAssumption DEF AdmissionInv, Typed

(* A step of a middleware: r passes on or is answered, with its own key,   *)
(* session and headers; nothing else changes.                              *)
LEMMA StepKeeps ==
    ASSUME AdmissionInv, NEW r \in Requests, Running(r),
           NEW status \in Statuses \ {"panic"},
           Answer(r, status) \/ Pass(r),
           NEW k \in Bearers \cup {None}, key' = [key EXCEPT ![r] = k],
           NEW t \in Bearers \cup {None}, session' = [session EXCEPT ![r] = t],
           NEW h \in BOOLEAN, limited' = [limited EXCEPT ![r] = h],
           UNCHANGED <<call, world>>,
           call[r].route = "queue" =>
              /\ stage'[r] >= 2 => k # None /\ Permitted(k)
              /\ stage'[r] >= 3 => t # None /\ Claims[t].player \in Players
              /\ stage'[r] >= 4 => Bound(r)',
           h => answer'[r] = "429" \/ stage'[r] = Len(Chain[call[r].route]) + 1,
           answer'[r] = "202" => call[r].route = "queue" /\ Through(r),
           answer'[r] = "401" /\ h => call[r].route = "verify",
           stage'[r] \in 1 .. Len(Chain[call[r].route]) + 1
    PROVE  AdmissionInv'
  <1> USE DEF AdmissionInv, Answer, Pass, world, Running
  <1>0. /\ answer' \in [Requests -> Statuses \cup {None}]
        /\ stage' \in [Requests -> Nat]
        /\ \A s \in Requests : s # r => stage'[s] = stage[s]
    <2>0. status \in Statuses
      BY DEF Statuses
    <2>1. CASE Answer(r, status)
      BY <2>0, <2>1 DEF Typed
    <2>2. CASE Pass(r)
      BY <2>2 DEF Typed
    <2> QED BY <2>1, <2>2
  <1>1. Typed'
    BY <1>0 DEF Typed
  <1>2. Been'
    <2> SUFFICES ASSUME NEW s \in Requests, s # r,
                        call[s] # None, call[s].route = "queue"
                 PROVE  /\ stage'[s] >= 2 => key'[s] # None /\ Permitted(key'[s])
                        /\ stage'[s] >= 3 => /\ session'[s] # None
                                             /\ Claims[session'[s]].player \in Players
                        /\ stage'[s] >= 4 => Bound(s)'
      BY DEF Been, Typed, Permitted
    <2>1. key'[s] = key[s] /\ session'[s] = session[s] /\ witness' = witness
      BY DEF Typed
    <2> QED BY <1>0, <2>1 DEF Been, Bound
  <1>3. WitnessNow'
    BY DEF WitnessNow, Typed
  <1>4. Charged'
    <2>1. \A s \in Requests : s # r => /\ limited'[s] = limited[s]
                                      /\ answer'[s] = answer[s] /\ stage'[s] = stage[s]
      BY <1>0 DEF Typed
    <2>2. \A s \in Requests : s # r =>
             /\ limited'[s] => call'[s] # None /\ (answer'[s] = "429" \/ Through(s)')
             /\ answer'[s] # None => call'[s] # None
             /\ answer'[s] = "202" => call'[s].route = "queue" /\ Through(s)'
             /\ answer'[s] = "401" /\ limited'[s] => call'[s].route = "verify"
             /\ answer'[s] # "panic"
      BY <2>1 DEF Charged, Through
    <2>3. answer'[r] \in {None, status} /\ answer'[r] # "panic" /\ limited'[r] = h
      BY AdmissionAssumption DEF Typed, Statuses
    <2>4. answer'[r] = "202" => Through(r)'
      BY <2>3, AdmissionAssumption DEF Typed, Through, Statuses
    <2> QED BY <2>2, <2>3, <2>4 DEF Charged, Through
  <1>5. Within'
    BY <1>0 DEF Within
  <1> QED BY <1>1, <1>2, <1>3, <1>4, <1>5

LEMMA RefuseKeeps ==
    ASSUME AdmissionInv, NEW r \in Requests, Running(r),
           NEW status \in Statuses \ {"panic"}, Answer(r, status),
           NEW k \in Bearers \cup {None}, key' = [key EXCEPT ![r] = k],
           NEW t \in Bearers \cup {None}, session' = [session EXCEPT ![r] = t],
           NEW h \in BOOLEAN, limited' = [limited EXCEPT ![r] = h],
           UNCHANGED <<call, world>>,
           call[r].route = "queue" =>
              /\ stage[r] >= 2 => k # None /\ Permitted(k)
              /\ stage[r] >= 3 => t # None /\ Claims[t].player \in Players
              /\ stage[r] >= 4 => Bound(r)',
           h => status = "429" \/ Through(r),
           status = "202" => call[r].route = "queue" /\ Through(r),
           status = "401" /\ h => call[r].route = "verify"
    PROVE  AdmissionInv'
  <1>1. answer'[r] = status /\ stage'[r] = stage[r]
    BY DEF AdmissionInv, Typed, Answer
  <1>2. h => answer'[r] = "429" \/ stage'[r] = Len(Chain[call[r].route]) + 1
    BY <1>1 DEF Through
  <1>3. stage[r] \in 1 .. Len(Chain[call[r].route]) + 1
    BY DEF AdmissionInv, Within, Running
  <1>4. /\ stage'[r] >= 2 => stage[r] >= 2
        /\ stage'[r] >= 3 => stage[r] >= 3
        /\ stage'[r] >= 4 => stage[r] >= 4
    BY <1>1
  <1>5. /\ answer'[r] = "202" => call[r].route = "queue" /\ Through(r)
        /\ answer'[r] = "401" /\ h => call[r].route = "verify"
        /\ stage'[r] \in 1 .. Len(Chain[call[r].route]) + 1
    BY <1>1, <1>3
  <1> QED BY <1>2, <1>4, <1>5, StepKeeps

LEMMA PassKeeps ==
    ASSUME AdmissionInv, NEW r \in Requests, Running(r), Pass(r),
           NEW k \in Bearers \cup {None}, key' = [key EXCEPT ![r] = k],
           NEW t \in Bearers \cup {None}, session' = [session EXCEPT ![r] = t],
           NEW h \in BOOLEAN, limited' = [limited EXCEPT ![r] = h],
           UNCHANGED <<call, world>>,
           call[r].route = "queue" =>
              /\ stage[r] >= 1 => k # None /\ Permitted(k)
              /\ stage[r] >= 2 => t # None /\ Claims[t].player \in Players
              /\ stage[r] >= 3 => Bound(r)',
           h => stage[r] = Len(Chain[call[r].route]),
           ~Through(r), call[r].route \in Routes
    PROVE  AdmissionInv'
  <1>1. answer'[r] = None /\ stage'[r] = stage[r] + 1 /\ stage[r] \in Nat
    BY DEF AdmissionInv, Typed, Pass, Running
  <1>2. /\ stage'[r] >= 2 => stage[r] >= 1
        /\ stage'[r] >= 3 => stage[r] >= 2
        /\ stage'[r] >= 4 => stage[r] >= 3
    BY <1>1
  <1>3. h => answer'[r] = "429" \/ stage'[r] = Len(Chain[call[r].route]) + 1
    BY <1>1
  <1>4. answer'[r] # "202" /\ answer'[r] # "401"
    BY <1>1, AdmissionAssumption DEF Statuses
  <1>5. stage'[r] \in 1 .. Len(Chain[call[r].route]) + 1
    <2>1. stage[r] \in 1 .. Len(Chain[call[r].route]) + 1
      BY DEF AdmissionInv, Within, Running
    <2>2. Len(Chain[call[r].route]) \in Nat
      BY DEF Routes, Chain
    <2> HIDE DEF Chain
    <2> QED BY <1>1, <2>1, <2>2 DEF Through
  <1>6. "200" \in Statuses \ {"panic"}
    BY DEF Statuses
  <1> QED BY <1>1, <1>2, <1>3, <1>4, <1>5, <1>6, StepKeeps

(* A request that waits for a middleware is not through its chain. *)
LEMMA Waits ==
    ASSUME NEW r \in Requests, call[r].route \in Routes, stage[r] \in Nat,
           NEW m, At(r, m)
    PROVE  ~Through(r)
  <1>1. CASE call[r].route = "check"
    BY <1>1 DEF Chain, At, Through
  <1>2. CASE call[r].route \in {"challenge", "verify", "gateway"}
    BY <1>2 DEF Chain, At, Through
  <1>3. CASE call[r].route = "queue"
    BY <1>3 DEF Chain, At, Through
  <1> QED BY <1>1, <1>2, <1>3 DEF Routes

LEMMA ServeKeeps ==
    ASSUME AdmissionInv, NEW r \in Requests, Serve(r)
    PROVE  AdmissionInv'
  <1>0. Running(r)
    BY DEF Serve, Proceed, APIKey, PublicAPIKey, MinecraftToken, Binding, CheckBinding,
           RateLimitBypass, RateLimit, Fail, Queries, Handle, At
  <1>1. /\ call[r].route \in Routes /\ stage[r] \in Nat
        /\ call[r].auth \in Seq(Bearers \cup {None})
    BY <1>0, RouteKnown DEF Running
  <1>2. /\ key[r] \in Bearers \cup {None} /\ key = [key EXCEPT ![r] = key[r]]
        /\ session[r] \in Bearers \cup {None}
        /\ session = [session EXCEPT ![r] = session[r]]
        /\ limited[r] \in BOOLEAN /\ limited = [limited EXCEPT ![r] = limited[r]]
    BY DEF AdmissionInv, Typed
  <1>3. ~limited[r] \/ Through(r)
    BY <1>0, AdmissionAssumption DEF AdmissionInv, Charged, Running, Statuses
  <1>4. \A m : At(r, m) => ~Through(r)
    BY <1>1, Waits
  <1>5. call[r].route = "queue" =>
           /\ stage[r] >= 2 => key[r] # None /\ Permitted(key[r])
           /\ stage[r] >= 3 => session[r] # None /\ Claims[session[r]].player \in Players
           /\ stage[r] >= 4 => Bound(r)
    BY <1>0 DEF AdmissionInv, Been, Running
  <1>6. UNCHANGED <<key, session, witness>> => (Bound(r)' <=> Bound(r))
    BY DEF Bound
  <1>14. /\ "401" \in Statuses \ {"panic"}
         /\ "429" \in Statuses \ {"panic"}
         /\ "500" \in Statuses \ {"panic"}
    BY DEF Statuses
  <1>7. CASE APIKey(r)
    <2> DEFINE k == Accepted(r, ParseAPIKey)
    <2>1. At(r, "apiKey")
      BY <1>7 DEF APIKey
    <2>2. call[r].route # "queue" /\ ~limited[r] /\ ~Through(r)
      BY <1>1, <1>3, <1>4, <2>1, Places
    <2>3. k \in Bearers \cup {None}
      BY <1>1, AcceptedIsValid DEF ParseAPIKey
    <2>4. /\ key' = [key EXCEPT ![r] = k] /\ UNCHANGED <<call, session, limited, world>>
          /\ Answer(r, "401") \/ Pass(r)
      BY <1>7 DEF APIKey
    <2> HIDE DEF k
    <2>5. CASE Answer(r, "401")
      BY <1>0, <1>1, <1>2, <2>2, <2>3, <2>4, <2>5, <1>14, RefuseKeeps
    <2>6. CASE Pass(r)
      BY <1>0, <1>1, <1>2, <2>2, <2>3, <2>4, <2>6, PassKeeps
    <2> QED BY <2>4, <2>5, <2>6
  <1>8. CASE PublicAPIKey(r)
    <2> DEFINE k == Accepted(r, ParseAPIKey)
    <2>1. At(r, "publicAPIKey")
      BY <1>8 DEF PublicAPIKey
    <2>2. stage[r] = 1 /\ ~limited[r] /\ ~Through(r)
      BY <1>1, <1>3, <1>4, <2>1, Places
    <2>3. k \in Bearers \cup {None}
      BY <1>1, AcceptedIsValid DEF ParseAPIKey
    <2>4. /\ key' = [key EXCEPT ![r] = k] /\ UNCHANGED <<call, session, limited, world>>
          /\ Answer(r, "401") \/ (Pass(r) /\ key'[r] # None /\ Permitted(key'[r]))
      BY <1>8 DEF PublicAPIKey
    <2>5. key'[r] = k
      BY <2>4 DEF AdmissionInv, Typed
    <2> HIDE DEF k
    <2>6. ~(stage[r] >= 2) /\ ~(stage[r] >= 3) /\ ~(stage[r] >= 4)
      BY <2>2
    <2>7. CASE Answer(r, "401")
      BY <1>0, <1>1, <1>2, <2>2, <2>3, <2>4, <2>6, <2>7, <1>14, RefuseKeeps
    <2>8. CASE Pass(r) /\ k # None /\ Permitted(k)
      BY <1>0, <1>1, <1>2, <2>2, <2>3, <2>4, <2>6, <2>8, PassKeeps
    <2> QED BY <2>4, <2>5, <2>7, <2>8
  <1>9. CASE MinecraftToken(r)
    <2> DEFINE t == Accepted(r, ParseMinecraft)
    <2>1. At(r, "minecraftToken")
      BY <1>9 DEF MinecraftToken
    <2>2. stage[r] = 2 /\ call[r].route = "queue" /\ ~limited[r] /\ ~Through(r)
      BY <1>1, <1>3, <1>4, <2>1, Places
    <2>3. t \in Bearers \cup {None} /\ (t # None => Claims[t].player \in Players)
      BY <1>1, AcceptedIsValid, AdmissionAssumption DEF ParseMinecraft
    <2>4. /\ session' = [session EXCEPT ![r] = t] /\ UNCHANGED <<call, key, limited, world>>
          /\ Answer(r, "401") \/ (Pass(r) /\ session'[r] # None)
      BY <1>9 DEF MinecraftToken
    <2>5. session'[r] = t
      BY <2>4 DEF AdmissionInv, Typed
    <2> HIDE DEF t
    <2>6. /\ key[r] # None /\ Permitted(key[r])
          /\ ~(stage[r] >= 3) /\ ~(stage[r] >= 4)
      BY <1>5, <2>2
    <2>7. CASE Answer(r, "401")
      BY <1>0, <1>1, <1>2, <2>2, <2>3, <2>4, <2>6, <2>7, <1>14, RefuseKeeps
    <2>8. CASE Pass(r) /\ t # None
      BY <1>0, <1>1, <1>2, <2>2, <2>3, <2>4, <2>6, <2>8, PassKeeps
    <2> QED BY <2>4, <2>5, <2>7, <2>8
  <1>10. CASE Binding(r)
    <2>1. At(r, "binding") /\ UNCHANGED <<call, key, session, limited, world>>
      BY <1>10 DEF Binding, CheckBinding
    <2>2. stage[r] = 3 /\ call[r].route = "queue" /\ ~limited[r] /\ ~Through(r)
      BY <1>1, <1>3, <1>4, <2>1, Places
    <2>3. Answer(r, "401") \/ (Pass(r) /\ Bound(r))
      BY <1>0, <1>5, <1>10, <2>2 DEF Binding, CheckBinding, Bypass, Permitted, Owns, Bound, AdmissionInv,
         WitnessNow
    <2>4. Bound(r)' <=> Bound(r)
      BY <1>6, <2>1 DEF world
    <2>5. CASE Answer(r, "401")
      BY <1>0, <1>1, <1>2, <1>5, <2>1, <2>2, <2>5, <1>14, RefuseKeeps
    <2>6. CASE Pass(r) /\ Bound(r)
      BY <1>0, <1>1, <1>2, <1>5, <2>1, <2>2, <2>4, <2>6, PassKeeps
    <2> QED BY <2>3, <2>5, <2>6
  <1>11. CASE RateLimitBypass(r) \/ RateLimit(r)
    <2>1. At(r, "rateLimit") /\ UNCHANGED <<call, key, session, world>>
      BY <1>11 DEF RateLimitBypass, RateLimit
    <2>2. stage[r] = Len(Chain[call[r].route]) /\ ~limited[r] /\ ~Through(r)
      BY <1>1, <1>3, <1>4, <2>1, Places
    <2>3. call[r].route = "queue" => stage[r] = 4
      BY <1>1, <2>2, Places
    <2>4. Bound(r)' <=> Bound(r)
      BY <1>6, <2>1 DEF world
    <2>5. \E h \in BOOLEAN : /\ limited' = [limited EXCEPT ![r] = h]
                             /\ Pass(r) \/ (Answer(r, "429") /\ h)
      BY <1>2, <1>11 DEF RateLimitBypass, RateLimit
    <2>6. PICK h \in BOOLEAN : /\ limited' = [limited EXCEPT ![r] = h]
                               /\ Pass(r) \/ (Answer(r, "429") /\ h)
      BY <2>5
    <2>7. CASE Pass(r)
      <3>1. call[r].route = "queue" =>
               /\ key[r] # None /\ Permitted(key[r])
               /\ session[r] # None /\ Claims[session[r]].player \in Players
               /\ Bound(r)'
        BY <1>5, <2>3, <2>4
      <3>2. h => stage[r] = Len(Chain[call[r].route])
        BY <2>2
      <3> QED BY <1>0, <1>1, <1>2, <2>1, <2>2, <2>6, <2>7, <3>1, <3>2, PassKeeps
    <2>8. CASE Answer(r, "429")
      <3>1. call[r].route = "queue" =>
               /\ stage[r] >= 2 => key[r] # None /\ Permitted(key[r])
               /\ stage[r] >= 3 => session[r] # None /\ Claims[session[r]].player \in Players
               /\ stage[r] >= 4 => Bound(r)'
        BY <1>5, <2>4
      <3>2. limited' = [limited EXCEPT ![r] = h] /\ UNCHANGED <<call, world>>
        BY <2>1, <2>6
      <3>3. "429" # "202" /\ "429" # "401"
        OBVIOUS
      <3>4. key' = [key EXCEPT ![r] = key[r]] /\ session' = [session EXCEPT ![r] = session[r]]
        BY <1>2, <2>1
      <3> QED BY <1>0, <1>2, <1>14, <2>8, <3>1, <3>2, <3>3, <3>4, RefuseKeeps
    <2> QED BY <2>6, <2>7, <2>8
  <1>12. CASE Fail(r)
    <2>1. Answer(r, "500") /\ UNCHANGED <<call, key, session, limited, world>>
      BY <1>12 DEF Fail
    <2>2. ~limited[r]
      BY <1>3, <1>4, <1>12 DEF Fail, Queries
    <2>3. Bound(r)' <=> Bound(r)
      BY <1>6, <2>1 DEF world
    <2>4. call[r].route = "queue" =>
             /\ stage[r] >= 2 => key[r] # None /\ Permitted(key[r])
             /\ stage[r] >= 3 => session[r] # None /\ Claims[session[r]].player \in Players
             /\ stage[r] >= 4 => Bound(r)'
      BY <1>5, <2>3
    <2> QED BY <1>0, <1>2, <2>1, <2>2, <2>4, <1>14, RefuseKeeps
  <1>13. CASE Handle(r)
    <2>1. UNCHANGED <<call, key, session, limited, world>>
      BY <1>13 DEF Handle
    <2>2. PICK s \in Replies[call[r].route] : Answer(r, s)
      BY <1>13 DEF Handle
    <2>3. /\ s \in Statuses \ {"panic"} /\ s # "429"
          /\ s = "202" => call[r].route = "queue"
          /\ s = "401" => call[r].route = "verify"
      BY <1>1 DEF Routes, Replies, Statuses
    <2>4. Bound(r)' <=> Bound(r)
      BY <1>6, <2>1 DEF world
    <2>5. Through(r)
      <3>1. stage[r] \in 1 .. Len(Chain[call[r].route]) + 1
        BY <1>0 DEF AdmissionInv, Within, Running
      <3>2. stage[r] > Len(Chain[call[r].route])
        BY <1>13 DEF Handle
      <3>3. Len(Chain[call[r].route]) \in Nat
        BY <1>1 DEF Routes, Chain
      <3> QED BY <3>1, <3>2, <3>3 DEF Through
    <2>6. call[r].route = "queue" =>
             /\ stage[r] >= 2 => key[r] # None /\ Permitted(key[r])
             /\ stage[r] >= 3 => session[r] # None /\ Claims[session[r]].player \in Players
             /\ stage[r] >= 4 => Bound(r)'
      BY <1>5, <2>4
    <2>7. limited[r] => s = "429" \/ Through(r)
      BY <2>5
    <2> QED BY <1>0, <1>2, <2>1, <2>2, <2>3, <2>5, <2>6, <2>7, <1>14, RefuseKeeps
  <1> QED BY <1>7, <1>8, <1>9, <1>10, <1>11, <1>12, <1>13 DEF Serve, Proceed

LEMMA ArriveKeeps ==
    ASSUME AdmissionInv, NEW r \in Requests, Arrive(r)
    PROVE  AdmissionInv'
  <1> USE DEF AdmissionInv
  <1>1. PICK c \in Calls :
           /\ call[r] = None
           /\ call' = [call EXCEPT ![r] = c]
           /\ stage' = [stage EXCEPT ![r] = 1]
           /\ witness' = [witness EXCEPT ![r] = {<<p, binding[p]>> : p \in Players}]
           /\ UNCHANGED <<answer, key, session, limited, expired, binding>>
    BY DEF Arrive
  <1>2. /\ c # None /\ c.route \in Routes
        /\ answer[r] = None /\ ~limited[r]
        /\ call'[r] = c /\ stage'[r] = 1
        /\ witness'[r] = {<<p, binding[p]>> : p \in Players}
    BY <1>1, AdmissionAssumption DEF Typed, Charged
  <1>3. \A s \in Requests : s # r =>
           call'[s] = call[s] /\ stage'[s] = stage[s] /\ witness'[s] = witness[s]
    BY <1>1 DEF Typed
  <1>4. Typed'
    BY <1>1 DEF Typed
  <1>5. Within'
    <2>1. Len(Chain[c.route]) \in Nat
      BY <1>2 DEF Routes, Chain
    <2> QED BY <1>2, <1>3, <2>1 DEF Within
  <1>6. Been'
    BY <1>1, <1>2, <1>3 DEF Been, Bound
  <1>7. WitnessNow'
    <2> SUFFICES ASSUME NEW s \in Requests, Running(s)', NEW p \in Players
                 PROVE  <<p, binding[p]>> \in witness'[s]
      BY <1>1 DEF WitnessNow
    <2>1. CASE s = r
      BY <1>2, <2>1
    <2>2. CASE s # r
      BY <1>1, <1>3, <2>2 DEF WitnessNow, Running
    <2> QED BY <2>1, <2>2
  <1>8. Charged'
    BY <1>1, <1>2, <1>3, AdmissionAssumption DEF Charged, Through, Statuses
  <1> QED BY <1>4, <1>5, <1>6, <1>7, <1>8

(* An account that changes hands adds to what the running requests have    *)
(* seen, and takes nothing away.                                           *)
LEMMA BindKeeps ==
    ASSUME AdmissionInv, NEW q \in Players, Bind(q)
    PROVE  AdmissionInv'
  <1> USE DEF AdmissionInv
  <1>1. PICK u \in Users \cup {None} :
           /\ binding' = [binding EXCEPT ![q] = u]
           /\ witness' = [r \in Requests |-> IF Running(r)
                             THEN witness[r] \cup {<<q, u>>} ELSE witness[r]]
           /\ UNCHANGED <<request, expired>>
    BY DEF Bind
  <1>2. \A r \in Requests : /\ witness[r] \subseteq witness'[r]
                            /\ Running(r) => <<q, u>> \in witness'[r]
    BY <1>1
  <1>3. UNCHANGED <<call, stage, answer, key, session, limited>>
    BY <1>1 DEF request
  <1>4. Typed'
    BY <1>1, <1>3 DEF Typed
  <1>5. Within' /\ Charged'
    BY <1>3 DEF Within, Charged, Through
  <1>6. Been'
    BY <1>2, <1>3 DEF Been, Bound
  <1>7. WitnessNow'
    <2> SUFFICES ASSUME NEW s \in Requests, Running(s), NEW p \in Players
                 PROVE  <<p, binding'[p]>> \in witness'[s]
      BY <1>3 DEF WitnessNow, Running
    <2>1. CASE p = q
      BY <1>1, <1>2, <2>1 DEF Typed
    <2>2. CASE p # q
      BY <1>1, <1>2, <2>2 DEF Typed, WitnessNow
    <2> QED BY <2>1, <2>2
  <1> QED BY <1>4, <1>5, <1>6, <1>7

LEMMA NextAdmissionInv == AdmissionInv /\ [Next]_vars => AdmissionInv'
  <1> SUFFICES ASSUME AdmissionInv, [Next]_vars PROVE AdmissionInv'
    OBVIOUS
  <1>1. ASSUME NEW r \in Requests, Arrive(r) PROVE AdmissionInv'
    BY <1>1, ArriveKeeps
  <1>2. ASSUME NEW r \in Requests, Serve(r) PROVE AdmissionInv'
    BY <1>2, ServeKeeps
  <1>3. ASSUME NEW q \in Players, Bind(q) PROVE AdmissionInv'
    BY <1>3, BindKeeps
  <1>4. CASE \/ UNCHANGED vars
             \/ \E r \in Requests : Acquire(r) \/ CountLost(r)
             \/ \E b \in Bearers : Expire(b)
             \/ \E k \in DOMAIN hits : WindowEnds(k)
    <2>1. UNCHANGED <<request, binding, witness>>
      BY <1>4 DEF vars, Acquire, CountLost, Expire, WindowEnds, world
    <2> QED BY <2>1 DEF request, AdmissionInv, Typed, Within, Been, Bound, WitnessNow,
               Running, Charged, Through
  <1> QED BY <1>1, <1>2, <1>3, <1>4 DEF Next

(* The inductive invariant: what a request has been through is told by its *)
(* place in the chain of its route (router.go:32-44).                      *)
THEOREM AdmissionInvCorrect == Spec => []AdmissionInv
  BY InitAdmissionInv, NextAdmissionInv, PTL DEF Spec

(* Nothing is broadcast without a key that may queue, a session, and, for  *)
(* any key but the RPC service's, a binding that held while the request    *)
(* ran: whatever the tokens say, however many requests run (auth.go:43-129).*)
THEOREM AuthorisedCorrect == Spec => []Authorised
  <1>1. AdmissionInv => Authorised
    <2> SUFFICES ASSUME AdmissionInv, NEW r \in Requests, answer[r] = "202"
                 PROVE  /\ key[r] # None /\ Permitted(key[r]) /\ session[r] # None
                        /\ Bound(r)
      BY DEF Authorised, Bound
    <2>1. call[r] # None /\ call[r].route = "queue" /\ Through(r)
      BY AdmissionAssumption DEF AdmissionInv, Charged, Statuses
    <2>2. stage[r] = 5
      <3>1. Len(Chain["queue"]) = 4
        BY DEF Chain
      <3> QED BY <2>1, <3>1 DEF Through
    <2> QED BY <2>1, <2>2 DEF AdmissionInv, Been
  <1> QED BY <1>1, AdmissionInvCorrect, PTL

(* The dereference of data.public.api in MinecraftToken meets no nil       *)
(* pointer, whatever the claims of the keys (auth.go:110).                 *)
THEOREM NoPanicCorrect == Spec => []NoPanic
  <1>1. AdmissionInv => NoPanic
    BY DEF AdmissionInv, Charged, NoPanic
  <1> QED BY <1>1, AdmissionInvCorrect, PTL

----------------------------------------------------------------------------
(* Who answers 401.  /verify has no key, so that the quota lets none of    *)
(* its requests by, and is charged before its handler runs.                *)
VerifyPays ==
    \A r \in Requests :
        /\ call[r] = None => key[r] = None
        /\ call[r] # None /\ call[r].route = "verify" =>
              /\ key[r] = None
              /\ Through(r) => limited[r]
              /\ answer[r] = "401" => Through(r)

LEMMA VerifyPaysKeeps == AdmissionInv /\ VerifyPays /\ [Next]_vars => VerifyPays'
  <1> SUFFICES ASSUME AdmissionInv, VerifyPays, [Next]_vars PROVE VerifyPays'
    OBVIOUS
  <1>1. ASSUME NEW r \in Requests, Arrive(r) PROVE VerifyPays'
    <2>1. /\ call[r] = None /\ key' = key /\ limited' = limited /\ answer' = answer
          /\ call'[r] \in Calls /\ stage'[r] = 1 /\ answer[r] = None
      BY <1>1 DEF Arrive, AdmissionInv, Typed, Charged
    <2>2. \A s \in Requests : s # r => call'[s] = call[s] /\ stage'[s] = stage[s]
      BY <1>1 DEF Arrive, AdmissionInv, Typed
    <2>3. call'[r].route = "verify" => ~Through(r)'
      BY <2>1 DEF Through, Chain
    <2>4. answer[r] # "401"
      BY <2>1, AdmissionAssumption DEF Statuses
    <2> QED BY <2>1, <2>2, <2>3, <2>4 DEF VerifyPays, Through
  <1>2. ASSUME NEW r \in Requests, Serve(r) PROVE VerifyPays'
    <2>0. /\ call[r] # None /\ call[r].route \in Routes /\ stage[r] \in Nat
          /\ Running(r) /\ UNCHANGED call
      <3>1. Running(r) /\ UNCHANGED call
        BY <1>2 DEF Serve, Proceed, APIKey, PublicAPIKey, MinecraftToken, Binding,
           CheckBinding, RateLimitBypass, RateLimit, Fail, Queries, Handle, At
      <3> QED BY <3>1, RouteKnown DEF Running
    <2>1. \A s \in Requests : s # r =>
             /\ stage'[s] = stage[s] /\ answer'[s] = answer[s]
             /\ key'[s] = key[s] /\ limited'[s] = limited[s]
      BY <1>2 DEF Serve, Proceed, APIKey, PublicAPIKey, MinecraftToken, Binding,
         CheckBinding, RateLimitBypass, RateLimit, Fail, Handle, Answer, Pass,
         AdmissionInv, Typed
    <2>2. call[r].route = "verify" =>
             /\ key'[r] = None
             /\ Through(r)' => limited'[r]
             /\ answer'[r] = "401" => Through(r)'
      <3> SUFFICES ASSUME call[r].route = "verify"
                   PROVE  /\ key'[r] = None
                          /\ Through(r)' => limited'[r]
                          /\ answer'[r] = "401" => Through(r)'
        OBVIOUS
      <3>1. key[r] = None /\ ~Bypass(r) /\ Len(Chain["verify"]) = 1
        BY <2>0, Places DEF VerifyPays, Bypass
      <3>2. ~At(r, "apiKey") /\ ~At(r, "publicAPIKey") /\ ~At(r, "minecraftToken")
            /\ ~At(r, "binding")
        BY <2>0, Places
      <3>3. RateLimit(r) \/ Fail(r) \/ Handle(r)
        BY <1>2, <3>1, <3>2 DEF Serve, Proceed, APIKey, PublicAPIKey, MinecraftToken,
           Binding, CheckBinding, RateLimitBypass
      <3>4. CASE RateLimit(r)
        <4>1. key' = key /\ limited'[r] = TRUE /\ answer'[r] \in {None, "429"}
          BY <2>0, <3>4 DEF RateLimit, Answer, Pass, AdmissionInv, Typed, Running
        <4>2. answer'[r] # "401"
          BY <4>1, AdmissionAssumption DEF Statuses
        <4> QED BY <3>1, <4>1, <4>2
      <3>5. CASE Fail(r)
        <4>1. UNCHANGED <<key, stage, limited>> /\ answer'[r] = "500"
          BY <3>5 DEF Fail, Answer, AdmissionInv, Typed
        <4> QED BY <2>0, <3>1, <4>1 DEF VerifyPays, Through
      <3>6. CASE Handle(r)
        <4>1. UNCHANGED <<key, stage, limited>> /\ stage[r] > 1
          BY <3>1, <3>6 DEF Handle, Answer
        <4>2. stage[r] \in 1 .. Len(Chain["verify"]) + 1
          BY <2>0 DEF AdmissionInv, Within
        <4>3. Through(r)
          BY <2>0, <3>1, <4>1, <4>2 DEF Through
        <4> QED BY <2>0, <3>1, <4>1, <4>3 DEF VerifyPays, Through
      <3> QED BY <3>3, <3>4, <3>5, <3>6
    <2> QED BY <2>0, <2>1, <2>2 DEF VerifyPays, Through
  <1>3. CASE UNCHANGED request
    BY <1>3 DEF request, VerifyPays, Through
  <1> QED BY <1>1, <1>2, <1>3 DEF Next, vars, Acquire, CountLost, Bind, Expire, WindowEnds

(* A 401 is charged to a quota if and only if the handler of /verify gave  *)
(* it, whatever the tokens and however many requests run (router.go:34-43).*)
THEOREM StrangersCorrect == Spec => []StrangersAreFree
  <1>1. Init => VerifyPays
    BY DEF Init, VerifyPays
  <1>2. AdmissionInv /\ VerifyPays => StrangersAreFree
    <2> SUFFICES ASSUME AdmissionInv, VerifyPays, NEW r \in Requests, answer[r] = "401"
                 PROVE  limited[r] <=> call[r].route = "verify"
      BY DEF StrangersAreFree
    <2>1. call[r] # None /\ (limited[r] => call[r].route = "verify")
      BY AdmissionAssumption DEF AdmissionInv, Charged, Statuses
    <2>2. call[r].route = "verify" => limited[r]
      BY <2>1 DEF VerifyPays
    <2> QED BY <2>1, <2>2
  <1> QED BY <1>1, <1>2, VerifyPaysKeeps, AdmissionInvCorrect, PTL DEF Spec

----------------------------------------------------------------------------
(* The quota.  A counter tells its key, and the key tells the limit: of    *)
(* two requests that share a counter neither has a limit of its own.       *)
CountOf(b) ==
    IF b # None /\ Claims[b].api # None /\ Claims[b].api.ratelimit > 0
    THEN Claims[b].api.ratelimit ELSE DefaultCount

KeyFirst ==
    \A r \in Requests : session[r] # None =>
        key[r] # None /\ call[r] # None /\ stage[r] >= 2

(* What a counter has let pass if no answer of the store was lost. *)
Used(k) == IF hits[k] < CountOf(k[2]) THEN hits[k] ELSE CountOf(k[2])

StoreExact ==
    /\ DOMAIN passed \cup DOMAIN lost \subseteq DOMAIN hits
    /\ \A k \in DOMAIN hits :
          /\ k[2] \in Bearers \cup {None}
          /\ hits[k] \in Nat \ {0}
          /\ At0(passed, k) \in Nat /\ At0(lost, k) \in 0 .. MaxLost
          /\ At0(passed, k) <= Used(k)
          /\ At0(passed, k) + At0(lost, k) >= Used(k)
    /\ \A k \in DOMAIN passed : passed[k] \in Nat
    /\ \A k \in DOMAIN lost : lost[k] \in 1 .. MaxLost

QuotaInv == AdmissionInv /\ KeyFirst /\ StoreExact

LEMMA CountIsNat ==
    ASSUME NEW b \in Bearers \cup {None}
    PROVE  CountOf(b) \in Nat \ {0}
  BY AdmissionAssumption DEF CountOf

LEMMA CounterTellsKey ==
    ASSUME KeyFirst, NEW r \in Requests
    PROVE  Counter(r)[2] = key[r] /\ Count(r) = CountOf(Counter(r)[2])
  <1>1. Counter(r)[2] = key[r]
    BY DEF Counter, KeyFirst
  <1> QED BY <1>1 DEF Count, CountOf

LEMMA KeyFirstKeeps == AdmissionInv /\ KeyFirst /\ [Next]_vars => KeyFirst'
  <1> SUFFICES ASSUME AdmissionInv, KeyFirst, [Next]_vars PROVE KeyFirst'
    OBVIOUS
  <1>1. ASSUME NEW r \in Requests, Arrive(r) PROVE KeyFirst'
    <2>1. call[r] = None /\ UNCHANGED <<key, session>>
      BY <1>1 DEF Arrive
    <2>2. \A s \in Requests : s # r => call'[s] = call[s] /\ stage'[s] = stage[s]
      BY <1>1 DEF Arrive, AdmissionInv, Typed
    <2> QED BY <2>1, <2>2 DEF KeyFirst
  <1>2. ASSUME NEW r \in Requests, Serve(r) PROVE KeyFirst'
    <2>0. /\ call[r].route \in Routes /\ stage[r] \in Nat /\ Running(r)
          /\ UNCHANGED call
      <3>1. Running(r) /\ UNCHANGED call
        BY <1>2 DEF Serve, Proceed, APIKey, PublicAPIKey, MinecraftToken, Binding,
           CheckBinding, RateLimitBypass, RateLimit, Fail, Queries, Handle, At
      <3> QED BY <3>1, RouteKnown DEF Running
    <2>1. /\ stage'[r] \in Nat /\ stage'[r] >= stage[r]
          /\ \A s \in Requests : s # r => stage'[s] = stage[s]
      <3>1. \/ stage' = [stage EXCEPT ![r] = @ + 1]
            \/ stage' = stage
        BY <1>2 DEF Serve, Proceed, APIKey, PublicAPIKey, MinecraftToken, Binding,
           CheckBinding, RateLimitBypass, RateLimit, Fail, Handle, Answer, Pass
      <3> QED BY <2>0, <3>1 DEF AdmissionInv, Typed
    <2>2. CASE APIKey(r) \/ PublicAPIKey(r)
      <3>1. stage[r] = 1
        BY <2>0, <2>2, Places DEF APIKey, PublicAPIKey
      <3>2. session[r] = None /\ session' = session
        BY <2>2, <3>1 DEF KeyFirst, APIKey, PublicAPIKey
      <3>3. \A s \in Requests : s # r => key'[s] = key[s]
        BY <2>2 DEF APIKey, PublicAPIKey, AdmissionInv, Typed
      <3> QED BY <2>0, <2>1, <3>2, <3>3 DEF KeyFirst
    <2>3. CASE MinecraftToken(r)
      <3>1. stage[r] = 2 /\ call[r].route = "queue"
        BY <2>0, <2>3, Places DEF MinecraftToken
      <3>2. key[r] # None /\ key' = key
        BY <2>0, <2>3, <3>1 DEF MinecraftToken, AdmissionInv, Been, Running
      <3>3. \A s \in Requests : s # r => session'[s] = session[s]
        BY <2>3 DEF MinecraftToken, AdmissionInv, Typed
      <3> QED BY <2>0, <2>1, <3>1, <3>2, <3>3 DEF KeyFirst, Running
    <2>4. CASE UNCHANGED <<key, session>>
      <3>1. stage[r] >= 2 => stage'[r] >= 2
        BY <2>0, <2>1
      <3> QED BY <2>0, <2>1, <2>4, <3>1 DEF KeyFirst
    <2> QED BY <1>2, <2>2, <2>3, <2>4 DEF Serve, Proceed, Binding, CheckBinding,
            RateLimitBypass, RateLimit, Fail, Handle
  <1>3. CASE UNCHANGED request
    BY <1>3 DEF request, KeyFirst
  <1> QED BY <1>1, <1>2, <1>3 DEF Next, vars, Acquire, CountLost, Bind, Expire, WindowEnds

LEMMA StoreExactKeeps == QuotaInv /\ [Next]_vars => StoreExact'
  <1> SUFFICES ASSUME QuotaInv, [Next]_vars PROVE StoreExact'
    OBVIOUS
  <1>0. ASSUME NEW r \in Requests
        PROVE  LET k == Counter(r) IN
               /\ k[2] \in Bearers \cup {None}
               /\ CountOf(k[2]) \in Nat \ {0} /\ Count(r) = CountOf(k[2])
               /\ At0(hits, k) \in Nat /\ At0(passed, k) \in Nat
               /\ At0(lost, k) \in 0 .. MaxLost
               /\ At0(passed, k) <= At0(hits, k) /\ At0(passed, k) <= CountOf(k[2])
               /\ \/ At0(passed, k) + At0(lost, k) >= At0(hits, k)
                  \/ At0(passed, k) + At0(lost, k) >= CountOf(k[2])
    <2> PICK k, n : k = Counter(r) /\ n = CountOf(k[2])
      OBVIOUS
    <2>1. k[2] \in Bearers \cup {None} /\ n \in Nat \ {0} /\ Count(r) = n
      BY CounterTellsKey, CountIsNat DEF QuotaInv, AdmissionInv, Typed
    <2>2. CASE k \in DOMAIN hits
      <3>1. At0(hits, k) = hits[k]
        BY <2>2 DEF At0
      <3>2. /\ hits[k] \in Nat \ {0}
            /\ At0(passed, k) \in Nat /\ At0(lost, k) \in 0 .. MaxLost
            /\ At0(passed, k) <= Used(k)
            /\ At0(passed, k) + At0(lost, k) >= Used(k)
        BY <2>2 DEF QuotaInv, StoreExact
      <3>3. Used(k) = IF hits[k] < n THEN hits[k] ELSE n
        BY DEF Used
      <3> QED BY <2>1, <3>1, <3>2, <3>3
    <2>3. CASE k \notin DOMAIN hits
      <3>1. At0(hits, k) = 0 /\ At0(passed, k) = 0 /\ At0(lost, k) = 0
        BY <2>3 DEF QuotaInv, StoreExact, At0
      <3> QED BY <2>1, <3>1, AdmissionAssumption
    <2> QED BY <2>1, <2>2, <2>3
  <1>1. ASSUME NEW r \in Requests, RateLimit(r) PROVE StoreExact'
    <2> PICK k, n : k = Counter(r) /\ n = CountOf(k[2])
      OBVIOUS
    <2>1. /\ k[2] \in Bearers \cup {None} /\ n \in Nat \ {0} /\ Count(r) = n
          /\ At0(hits, k) \in Nat /\ At0(passed, k) \in Nat /\ At0(lost, k) \in 0 .. MaxLost
          /\ At0(passed, k) <= At0(hits, k) /\ At0(passed, k) <= n
          /\ \/ At0(passed, k) + At0(lost, k) >= At0(hits, k)
             \/ At0(passed, k) + At0(lost, k) >= n
      BY <1>0
    <2>2. /\ hits' = Bump(hits, k) /\ lost' = lost
          /\ \/ At0(hits, k) < n /\ passed' = Bump(passed, k)
             \/ ~(At0(hits, k) < n) /\ passed' = passed
      BY <1>1, <2>1 DEF RateLimit
    <2>3. /\ DOMAIN hits' = DOMAIN hits \cup {k}
          /\ hits'[k] = At0(hits, k) + 1
          /\ \A y \in DOMAIN hits : y # k => hits'[y] = hits[y]
      BY <2>2 DEF Bump
    <2>4. /\ DOMAIN passed' \subseteq DOMAIN passed \cup {k}
          /\ \A y : y # k => At0(passed', y) = At0(passed, y)
          /\ At0(passed', k) = IF At0(hits, k) < n THEN At0(passed, k) + 1 ELSE At0(passed, k)
          /\ \A y \in DOMAIN passed' : passed'[y] \in Nat
      BY <2>1, <2>2 DEF Bump, At0, QuotaInv, StoreExact
    <2>5. /\ At0(passed', k) <= Used(k)'
          /\ At0(passed', k) + At0(lost, k) >= Used(k)'
          /\ At0(passed', k) \in Nat /\ hits'[k] \in Nat \ {0}
      <3>1. Used(k)' = IF hits'[k] < n THEN hits'[k] ELSE n
        BY DEF Used, CountOf
      <3> QED BY <2>1, <2>3, <2>4, <3>1
    <2>6. \A y \in DOMAIN hits : y # k => Used(y)' = Used(y)
      BY <2>3 DEF Used
    <2> QED BY <2>1, <2>2, <2>3, <2>4, <2>5, <2>6 DEF QuotaInv, StoreExact
  <1>2. ASSUME NEW r \in Requests, CountLost(r) PROVE StoreExact'
    <2> PICK k, n : k = Counter(r) /\ n = CountOf(k[2])
      OBVIOUS
    <2>1. /\ k[2] \in Bearers \cup {None} /\ n \in Nat \ {0}
          /\ At0(hits, k) \in Nat /\ At0(passed, k) \in Nat /\ At0(lost, k) \in 0 .. MaxLost
          /\ At0(passed, k) <= At0(hits, k) /\ At0(passed, k) <= n
          /\ \/ At0(passed, k) + At0(lost, k) >= At0(hits, k)
             \/ At0(passed, k) + At0(lost, k) >= n
      BY <1>0
    <2>2. /\ hits' = Bump(hits, k) /\ lost' = Bump(lost, k) /\ passed' = passed
          /\ At0(lost, k) < MaxLost
      BY <1>2 DEF CountLost
    <2>3. /\ DOMAIN hits' = DOMAIN hits \cup {k}
          /\ hits'[k] = At0(hits, k) + 1
          /\ \A y \in DOMAIN hits : y # k => hits'[y] = hits[y]
      BY <2>2 DEF Bump
    <2>4. /\ DOMAIN lost' = DOMAIN lost \cup {k}
          /\ \A y : y # k => At0(lost', y) = At0(lost, y)
          /\ At0(lost', k) = At0(lost, k) + 1
          /\ At0(lost', k) \in 1 .. MaxLost
          /\ \A y \in DOMAIN lost' : lost'[y] \in 1 .. MaxLost
      BY <2>1, <2>2, AdmissionAssumption DEF Bump, At0, QuotaInv, StoreExact
    <2>5. /\ At0(passed, k) <= Used(k)'
          /\ At0(passed, k) + At0(lost', k) >= Used(k)'
          /\ hits'[k] \in Nat \ {0}
      <3>1. Used(k)' = IF hits'[k] < n THEN hits'[k] ELSE n
        BY DEF Used, CountOf
      <3> QED BY <2>1, <2>3, <2>4, <3>1
    <2>6. \A y \in DOMAIN hits : y # k => Used(y)' = Used(y)
      BY <2>3 DEF Used
    <2> QED BY <2>1, <2>2, <2>3, <2>4, <2>5, <2>6 DEF QuotaInv, StoreExact
  <1>3. ASSUME NEW w \in DOMAIN hits, WindowEnds(w) PROVE StoreExact'
    BY <1>3 DEF WindowEnds, QuotaInv, StoreExact, At0, Used
  <1>4. CASE UNCHANGED store
    BY <1>4 DEF store, QuotaInv, StoreExact, Used
  <1> QED BY <1>1, <1>2, <1>3, <1>4 DEF Next, vars, Arrive, Acquire, Serve, Proceed, APIKey,
          PublicAPIKey, MinecraftToken, Binding, CheckBinding, RateLimitBypass, Fail, Handle,
          Bind, Expire

THEOREM QuotaInvCorrect == Spec => []QuotaInv
  <1>1. Init => QuotaInv
    BY InitAdmissionInv DEF Init, QuotaInv, KeyFirst, StoreExact, At0
  <1>2. QuotaInv /\ [Next]_vars => QuotaInv'
    BY NextAdmissionInv, KeyFirstKeeps, StoreExactKeeps DEF QuotaInv
  <1> QED BY <1>1, <1>2, PTL DEF Spec

(* No more than the first Count requests of a window pass, and less only   *)
(* for the answers of the store that got lost: for any number of requests, *)
(* callers, limits and lost answers, and however the windows end           *)
(* (ratelimit.go:37-53).                                                   *)
THEOREM QuotaCorrect == Spec => []QuotaExact
  <1>1. QuotaInv => QuotaExact
    BY CounterTellsKey DEF QuotaInv, StoreExact, QuotaExact, Used
  <1> QED BY <1>1, QuotaInvCorrect, PTL
----------------------------------------------------------------------------
(* The type invariant in full: what it says of the headers a request came  *)
(* with and of the one connection to the database.                         *)
Heads(c) == {None} \cup (IF c = None THEN {} ELSE {c.auth[i] : i \in DOMAIN c.auth})
Carried ==
    \A r \in Requests : key[r] \in Heads(call[r]) /\ session[r] \in Heads(call[r])

(* Who has the connection stands before its query.                         *)
PoolHeld ==
    /\ pool \in Requests \cup {None}
    /\ pool # None => Queries(pool)

WorldTyped ==
    /\ expired \in SUBSET Bearers
    /\ witness \in [Requests -> SUBSET (Players \X (Users \cup {None}))]

TypeInv == QuotaInv /\ Carried /\ PoolHeld /\ WorldTyped

(* A step of r's own leaves the other requests where they are.             *)
OthersStay(r) ==
    \A s \in Requests \ {r} :
        /\ call'[s] = call[s] /\ stage'[s] = stage[s] /\ answer'[s] = answer[s]
        /\ key'[s] = key[s] /\ session'[s] = session[s]

LEMMA OwnStep ==
    ASSUME AdmissionInv, NEW r \in Requests, Arrive(r) \/ Serve(r)
    PROVE  OthersStay(r)
  <1> USE DEF AdmissionInv, Typed, OthersStay
  <1>1. CASE Arrive(r)
    BY <1>1 DEF Arrive
  <1>2. CASE Serve(r)
    BY <1>2 DEF Serve, Proceed, APIKey, PublicAPIKey, MinecraftToken, Binding, CheckBinding,
          RateLimitBypass, RateLimit, Fail, Handle, Answer, Pass
  <1> QED BY <1>1, <1>2

LEMMA CarriedKeeps == AdmissionInv /\ Carried /\ [Next]_vars => Carried'
  <1> SUFFICES ASSUME AdmissionInv, Carried, [Next]_vars PROVE Carried'
    OBVIOUS
  <1>1. ASSUME NEW r \in Requests, Arrive(r) PROVE Carried'
    <2>1. OthersStay(r) /\ UNCHANGED <<key, session>> /\ call[r] = None
      BY <1>1, OwnStep DEF Arrive
    <2>2. key[r] = None /\ session[r] = None
      BY <2>1 DEF Carried, Heads
    <2> QED BY <2>1, <2>2 DEF Carried, Heads, OthersStay
  <1>2. ASSUME NEW r \in Requests, Serve(r) PROVE Carried'
    <2>0. /\ call[r] # None /\ UNCHANGED call /\ OthersStay(r)
          /\ call[r].auth \in Seq(Bearers \cup {None})
      <3>1. Running(r) /\ UNCHANGED call
        BY <1>2 DEF Serve, Proceed, APIKey, PublicAPIKey, MinecraftToken, Binding,
           CheckBinding, RateLimitBypass, RateLimit, Fail, Queries, Handle, At
      <3> QED BY <1>2, <3>1, RouteKnown, OwnStep DEF Running
    <2>1. ASSUME NEW valid PROVE Accepted(r, valid) \in Heads(call[r])
      BY <2>0, AcceptedIsValid DEF Heads
    <2>2. key'[r] \in Heads(call[r]) /\ session'[r] \in Heads(call[r])
      <3>1. CASE APIKey(r) \/ PublicAPIKey(r)
        BY <2>1, <3>1 DEF APIKey, PublicAPIKey, Carried, AdmissionInv, Typed
      <3>2. CASE MinecraftToken(r)
        BY <2>1, <3>2 DEF MinecraftToken, Carried, AdmissionInv, Typed
      <3>3. CASE UNCHANGED <<key, session>>
        BY <3>3 DEF Carried
      <3> QED BY <1>2, <3>1, <3>2, <3>3 DEF Serve, Proceed, Binding, CheckBinding,
              RateLimitBypass, RateLimit, Fail, Handle
    <2> QED BY <2>0, <2>2 DEF Carried, OthersStay
  <1>3. CASE UNCHANGED request
    BY <1>3 DEF request, Carried
  <1> QED BY <1>1, <1>2, <1>3 DEF Next, vars, Acquire, CountLost, Bind, Expire, WindowEnds

LEMMA PoolHeldKeeps == AdmissionInv /\ PoolHeld /\ [Next]_vars => PoolHeld'
  <1> SUFFICES ASSUME AdmissionInv, PoolHeld, [Next]_vars PROVE PoolHeld'
    OBVIOUS
  <1>0. ASSUME NEW r \in Requests, NEW s \in Requests \ {r}, OthersStay(r), Queries(s)
        PROVE  Queries(s)'
    BY <1>0 DEF OthersStay, Queries, At, Running, Bypass
  <1>1. ASSUME NEW r \in Requests, Arrive(r) PROVE PoolHeld'
    <2>1. UNCHANGED pool /\ OthersStay(r) /\ ~Queries(r)
      BY <1>1, OwnStep DEF Arrive, Queries, At, Running
    <2> QED BY <1>0, <2>1 DEF PoolHeld
  <1>2. ASSUME NEW r \in Requests, Acquire(r) PROVE PoolHeld'
    <2>1. pool' = r /\ Queries(r)'
      BY <1>2 DEF Acquire, Queries, At, Running, Bypass, request
    <2> QED BY <2>1 DEF PoolHeld
  <1>3. ASSUME NEW r \in Requests, Serve(r) PROVE PoolHeld'
    <2>1. OthersStay(r)
      BY <1>3, OwnStep
    <2>2. CASE Binding(r) \/ Fail(r)
      BY <1>0, <2>1, <2>2 DEF Binding, Fail, Release, PoolHeld
    <2>3. CASE \/ APIKey(r) \/ PublicAPIKey(r) \/ MinecraftToken(r)
               \/ RateLimitBypass(r) \/ RateLimit(r) \/ Handle(r)
      <3>1. UNCHANGED pool
        BY <2>3 DEF APIKey, PublicAPIKey, MinecraftToken, RateLimitBypass, RateLimit, Handle
      <3>2. ASSUME Queries(r) PROVE FALSE
        <4>1. Running(r)
          BY <2>3 DEF APIKey, PublicAPIKey, MinecraftToken, RateLimitBypass, RateLimit,
             Handle, At
        <4>2. call[r].route \in Routes /\ stage[r] \in Nat
          BY <4>1, RouteKnown DEF Running
        <4>3. stage[r] = 3 /\ Len(Chain[call[r].route]) = 4
          BY <3>2, <4>2, Places DEF Queries
        <4>4. CASE Handle(r)
          BY <4>2, <4>3, <4>4 DEF Handle
        <4>5. CASE APIKey(r) \/ PublicAPIKey(r) \/ MinecraftToken(r)
          BY <4>2, <4>3, <4>5, Places DEF APIKey, PublicAPIKey, MinecraftToken
        <4>6. CASE RateLimitBypass(r) \/ RateLimit(r)
          <5>1. stage[r] = Len(Chain[call[r].route])
            BY <4>2, <4>6, Places DEF RateLimitBypass, RateLimit
          <5> QED BY <4>3, <5>1
        <4> QED BY <2>3, <4>4, <4>5, <4>6
      <3> QED BY <1>0, <2>1, <3>1, <3>2 DEF PoolHeld
    <2> QED BY <1>3, <2>2, <2>3 DEF Serve, Proceed
  <1>4. CASE UNCHANGED <<request, pool>>
    BY <1>4 DEF PoolHeld, Queries, At, Running, Bypass, request
  <1> QED BY <1>1, <1>2, <1>3, <1>4 DEF Next, vars, CountLost, Bind, Expire, WindowEnds

LEMMA WorldTypedKeeps == AdmissionInv /\ WorldTyped /\ [Next]_vars => WorldTyped'
  <1> SUFFICES ASSUME AdmissionInv, WorldTyped, [Next]_vars PROVE WorldTyped'
    OBVIOUS
  <1>1. ASSUME NEW r \in Requests, Arrive(r) PROVE WorldTyped'
    BY <1>1 DEF Arrive, WorldTyped, AdmissionInv, Typed
  <1>2. ASSUME NEW p \in Players, Bind(p) PROVE WorldTyped'
    BY <1>2 DEF Bind, WorldTyped
  <1>3. ASSUME NEW b \in Bearers, Expire(b) PROVE WorldTyped'
    BY <1>3 DEF Expire, WorldTyped
  <1>4. CASE UNCHANGED world
    BY <1>4 DEF world, WorldTyped
  <1> QED BY <1>1, <1>2, <1>3, <1>4 DEF Next, vars, Acquire, CountLost, WindowEnds, Serve, Proceed,
          APIKey, PublicAPIKey, MinecraftToken, Binding, CheckBinding, RateLimitBypass,
          RateLimit, Fail, Handle

(* Types; who runs is within its chain and carries bearers of its own      *)
(* header, and who has the connection is about to ask (database.go:45).    *)
THEOREM TypeCorrect == Spec => []TypeOK
  <1>1. Init => TypeInv
    <2>1. Init => QuotaInv
      BY InitAdmissionInv DEF Init, QuotaInv, KeyFirst, StoreExact, At0
    <2>2. Init => Carried /\ PoolHeld /\ WorldTyped
      BY DEF Init, Carried, Heads, PoolHeld, WorldTyped
    <2> QED BY <2>1, <2>2 DEF TypeInv
  <1>2. TypeInv /\ [Next]_vars => TypeInv'
    BY NextAdmissionInv, KeyFirstKeeps, StoreExactKeeps, CarriedKeeps, PoolHeldKeeps,
       WorldTypedKeeps DEF TypeInv, QuotaInv
  <1>3. TypeInv => TypeOK
    <2> SUFFICES ASSUME TypeInv PROVE TypeOK
      OBVIOUS
    <2> USE DEF TypeInv, QuotaInv, AdmissionInv
    <2>1. \A k \in DOMAIN hits : hits[k] \in Nat \ {0}
      BY DEF StoreExact
    <2>2. /\ \A k \in DOMAIN passed : passed[k] \in Nat /\ k \in DOMAIN hits
          /\ \A k \in DOMAIN lost : lost[k] \in 1 .. MaxLost /\ k \in DOMAIN hits
      BY DEF StoreExact
    <2>3. ASSUME NEW r \in Requests, call[r] # None
          PROVE  /\ stage[r] \in 1 .. Len(Chain[call[r].route]) + 1
                 /\ {key[r], session[r]} \subseteq {None} \cup
                      {call[r].auth[i] : i \in DOMAIN call[r].auth}
      BY <2>3 DEF Within, Carried, Heads
    <2> QED BY <2>1, <2>2, <2>3 DEF TypeOK, Typed, PoolHeld, WorldTyped
  <1> QED BY <1>1, <1>2, <1>3, PTL DEF Spec
=============================================================================
