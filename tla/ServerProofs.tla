---------------------------- MODULE ServerProofs ----------------------------
(***************************************************************************)
(* Proofs about the life of the server, for any number of requests,        *)
(* subscribers and messages.  What is known of the hub by itself comes     *)
(* from HubFeedProofs, instantiated with the server's variables and its   *)
(* one caller of Close.                                                    *)
(***************************************************************************)
EXTENDS ServerProperties, TLAPS

HP == INSTANCE HubFeedProofs

----------------------------------------------------------------------------
(* The hub of the proofs is the hub of the model: H and HP name the same   *)
(* definitions.                                                            *)

LEMMA HubAssumed == HP!HubAssumption
  BY ServerAssumption DEF HP!HubAssumption, Closers

LEMMA SameState ==
    /\ H!Init <=> HP!Init
    /\ H!TypeOK <=> HP!TypeOK
    /\ H!Live = HP!Live /\ H!Serving = HP!Serving
  <1>1. H!Init <=> HP!Init
    BY DEF H!Init, HP!Init, H!Rangers, HP!Rangers
  <1>2. H!TypeOK <=> HP!TypeOK
    BY DEF H!TypeOK, HP!TypeOK, H!Rangers, HP!Rangers, H!Queued, HP!Queued,
           H!Serving, HP!Serving, H!Leaving, HP!Leaving
  <1>3. H!Live = HP!Live /\ H!Serving = HP!Serving
    BY DEF H!Live, HP!Live, H!Serving, HP!Serving
  <1> QED BY <1>1, <1>2, <1>3

LEMMA SameListen ==
    ASSUME NEW c
    PROVE  /\ H!Enter(c) => HP!Enter(c)
           /\ H!Listen(c) => HP!Listen(c)
           /\ H!PeerGone(c) => HP!PeerGone(c)
  <1> USE DEF H!GoL, HP!GoL, H!JumpL, HP!JumpL, H!out, HP!out, H!rangeVars, HP!rangeVars
  <1>1. H!Enter(c) => HP!Enter(c)
    BY DEF H!Enter, HP!Enter
  <1>2. H!PeerGone(c) => HP!PeerGone(c)
    BY DEF H!PeerGone, HP!PeerGone
  <1>3. /\ H!AcceptOk(c) => HP!AcceptOk(c)
        /\ H!AcceptErr(c) => HP!AcceptErr(c)
        /\ H!Store(c) => HP!Store(c)
        /\ H!Recheck(c) => HP!Recheck(c)
    BY DEF H!AcceptOk, HP!AcceptOk, H!AcceptErr, HP!AcceptErr, H!Store, HP!Store,
           H!Recheck, HP!Recheck
  <1>4. /\ H!Take(c) => HP!Take(c)
        /\ H!WriteOk(c) => HP!WriteOk(c)
        /\ H!WriteErr(c) => HP!WriteErr(c)
    BY DEF H!Take, HP!Take, H!WriteOk, HP!WriteOk, H!WriteErr, HP!WriteErr,
           H!Queued, HP!Queued
  <1>5. /\ H!Tick(c) => HP!Tick(c)
        /\ H!PingOk(c) => HP!PingOk(c)
        /\ H!PingErr(c) => HP!PingErr(c)
        /\ H!CtxDone(c) => HP!CtxDone(c)
    BY DEF H!Tick, HP!Tick, H!PingOk, HP!PingOk, H!PingErr, HP!PingErr,
           H!CtxDone, HP!CtxDone
  <1>6. /\ H!Delete(c) => HP!Delete(c)
        /\ H!CloseOwn(c) => HP!CloseOwn(c)
    BY DEF H!Delete, HP!Delete, H!CloseOwn, HP!CloseOwn
  <1> QED BY <1>1, <1>2, <1>3, <1>4, <1>5, <1>6 DEF H!Listen, HP!Listen

LEMMA SameRange ==
    ASSUME NEW p
    PROVE  /\ H!Broadcast(p) => HP!Broadcast(p)
           /\ H!Offer(p) => HP!Offer(p)
           /\ H!Close(p) => HP!Close(p)
           /\ H!Hangup(p) => HP!Hangup(p)
           /\ H!Iterate(p) => HP!Iterate(p)
  <1> USE DEF H!GoR, HP!GoR, H!out, HP!out
  <1>1. /\ H!Broadcast(p) => HP!Broadcast(p)
        /\ H!Close(p) => HP!Close(p)
    BY DEF H!Broadcast, HP!Broadcast, H!Close, HP!Close
  <1>2. H!Visit(p) => HP!Visit(p)
    BY DEF H!Visit, HP!Visit
  <1>3. /\ H!Offer(p) => HP!Offer(p)
        /\ H!Hangup(p) => HP!Hangup(p)
    BY <1>2 DEF H!Offer, HP!Offer, H!Hangup, HP!Hangup, H!Send, HP!Send,
                H!Evict, HP!Evict, H!Queued, HP!Queued
  <1>4. H!Iterate(p) => HP!Iterate(p)
    BY DEF H!Iterate, HP!Iterate, H!RangeBegin, HP!RangeBegin,
           H!RangeNext, HP!RangeNext, H!RangeEnd, HP!RangeEnd
  <1> QED BY <1>1, <1>3, <1>4

----------------------------------------------------------------------------
(* The inductive invariant.                                                *)

Typed ==
    /\ pc \in {"serve", "close", "shutdown", "defers", "exit", "exited"}
    /\ end \in {"none", "clean", "late", "error"}
    /\ open \in BOOLEAN
    /\ req \in [Msgs -> {"none", "admit", "work", "202", "other", "no store", "lost"}]
    /\ cut \in SUBSET Msgs
    /\ there \in [Msgs -> SUBSET Subs] /\ after \in [Msgs -> SUBSET Msgs]

(* Where main is, how it came to stop serving, and what it has closed. *)
Phases ==
    /\ pc \in {"serve", "close", "shutdown"} => end = "none"
    /\ pc \in {"defers", "exit", "exited"} => end # "none"
    /\ open \/ pc \in {"exit", "exited"}
    /\ cut # {} => end = "late"
    /\ closed => pc # "serve" /\ end # "error"
    /\ pc \notin {"serve", "close"} /\ end # "error" => rpc["main"] = "done"

(* A request calls Broadcast once it is admitted, is answered 202 once the *)
(* call has returned, and is dropped by a hub that is shut only.           *)
Calling ==
    \A m \in Msgs : /\ rpc[m] # "idle" => req[m] \notin {"none", "admit"}
                    /\ req[m] = "202" => rpc[m] \in {"skip", "done"}
                    /\ rpc[m] = "skip" => closed

(* A Shutdown that returned nil left no request in flight, so none comes   *)
(* to harm later.                                                          *)
Unharmed ==
    \A r \in Msgs : /\ end = "clean" => ~InFlight(r)
                    /\ req[r] \in {"no store", "lost"} => end \in {"late", "error"}

(* Who was live when a message was sent registers no more, so the Range of *)
(* the message finds it unless it is gone.                                 *)
Started(m) == rpc[m] \in {"range", "visit", "done"}
ThereStarts ==
    \A m \in Msgs : /\ \A c \in there[m] : lpc[c] \notin HP!Early
                    /\ Started(m) => there[m] \cap conns \subseteq start[m]

(* What was answered 202 before a message was sent had returned when the   *)
(* message's Broadcast was called; if the hub had dropped it, it drops     *)
(* that message too.                                                       *)
AfterPrior ==
    \A m \in Msgs : \A x \in after[m] :
        /\ req[x] = "202" /\ x # m
        /\ rpc[m] \in {"idle", "skip"} \/ x \in prior[m]

ServerInv == /\ HP!OrderInv /\ Typed /\ Phases /\ Calling /\ Unharmed
             /\ ThereStarts /\ AfterPrior /\ AcceptedNoGap

LEMMA InitServerInv == Init => ServerInv
  <1> SUFFICES ASSUME Init PROVE ServerInv
    OBVIOUS
  <1>1. HP!Init
    BY SameState DEF Init
  <1>2. HP!OrderInv
    BY <1>1, HubAssumed, HP!InitOrderInv
  <1>3. \A m \in Msgs : rpc[m] = "idle"
    BY <1>1 DEF HP!Init, HP!Rangers
  <1>4. closed = FALSE
    BY <1>1 DEF HP!Init
  <1>5. AcceptedNoGap
    BY DEF AcceptedNoGap, Init
  <1> QED BY <1>2, <1>3, <1>4, <1>5
      DEF Init, ServerInv, Typed, Phases, Calling, Unharmed, InFlight, ThereStarts,
          Started, AfterPrior

----------------------------------------------------------------------------
(* What the invariant says of a message that was answered 202.             *)

LEMMA SentSent ==
    ASSUME HP!OrderInv, NEW c \in Subs
    PROVE  /\ 1 .. sent[c] \subseteq DOMAIN log[c]
           /\ \A j \in DOMAIN log[c] : log[c][j] \in Msgs
  <1>1. log[c] \in Seq(Msgs) /\ sent[c] \in Nat /\ sent[c] <= Len(log[c])
    BY DEF HP!OrderInv, HP!CloseInv, HP!Typed, HP!TypeOK, HP!Queued
  <1> QED BY <1>1

LEMMA AcceptedHolds == ServerInv => AcceptedIsBroadcast
  <1> SUFFICES ASSUME ServerInv, NEW m \in Msgs, req[m] = "202"
               PROVE  \/ rpc[m] = "skip" /\ pc # "serve" /\ end # "error"
                      \/ \A c \in there[m] \cap H!Live : \E i \in DOMAIN log[c] : log[c][i] = m
    BY DEF AcceptedIsBroadcast
  <1> USE DEF ServerInv
  <1>1. CASE rpc[m] = "skip"
    BY <1>1 DEF Calling, Phases
  <1>2. CASE rpc[m] = "done"
    <2>1. HP!BroadcastReachesAll
      BY HubAssumed, HP!OrderInvReaches
    <2>2. \A c \in there[m] \cap H!Live : c \in start[m] \cap conns /\ ws[c] = "open"
      BY <1>2 DEF ThereStarts, Started, H!Live
    <2> QED BY <1>2, <2>1, <2>2 DEF HP!BroadcastReachesAll
  <1> QED BY <1>1, <1>2 DEF Calling

LEMMA AnsweredHolds == ServerInv => AnsweredInOrder
  <1> SUFFICES ASSUME ServerInv, NEW c \in Subs, NEW i \in DOMAIN log[c],
                      NEW j \in DOMAIN log[c], i < j
               PROVE  log[c][j] \notin after[log[c][i]]
    BY DEF AnsweredInOrder
  <1> DEFINE m == log[c][i]
             x == log[c][j]
  <1>1. /\ m \in Msgs /\ x \in Msgs /\ HP!Has(c, m) /\ HP!Has(c, x)
    BY DEF ServerInv, HP!OrderInv, HP!CloseInv, HP!Typed, HP!TypeOK, HP!Has
  <1>2. rpc[m] \in HP!Ranging /\ rpc[x] \in HP!Ranging
    BY <1>1 DEF ServerInv, HP!OrderInv, HP!LoggedSeen, HP!RangesOnly, HP!Rangers
  <1>3. x \notin prior[m]
    BY DEF ServerInv, HP!OrderInv, HP!OrderedOnce
  <1> QED BY <1>1, <1>2, <1>3 DEF ServerInv, AfterPrior, HP!Ranging

----------------------------------------------------------------------------
(* The steps of the hub.                                                   *)

(* How a call of Broadcast goes, and what a step of the hub leaves as it   *)
(* was.                                                                    *)
Goes(m) ==
    \/ rpc'[m] = rpc[m] /\ prior'[m] = prior[m] /\ start'[m] = start[m]
    \/ /\ rpc[m] = "idle" /\ rpc'[m] = (IF closed THEN "skip" ELSE "call")
       /\ prior'[m] = {x \in Msgs : rpc[x] = "done"}
    \/ /\ rpc[m] = "call" /\ rpc'[m] = "range" /\ prior'[m] = prior[m]
       /\ start'[m] = conns /\ conns' = conns
    \/ /\ rpc[m] \in {"range", "visit"} /\ rpc'[m] \in {"range", "visit", "done"}
       /\ prior'[m] = prior[m] /\ start'[m] = start[m]

HubMoves ==
    /\ closed => closed'
    /\ closed' => closed \/ pc = "close"
    /\ conns' \subseteq conns \cup {c \in Subs : lpc[c] \in HP!Early}
    /\ \A c \in Subs : lpc[c] \notin HP!Early => lpc'[c] \notin HP!Early
    /\ \A m \in Msgs : Goes(m)
    /\ \A m \in Msgs : rpc[m] = "idle" /\ rpc'[m] # "idle" => req[m] = "work"
    /\ rpc["main"] = "done" => rpc'["main"] = "done"

HubActs ==
    \/ \E c \in Subs : Subscribe(c)
    \/ \E m \in Msgs : Broadcast(m)
    \/ HubStep \/ CloseHub

LEMMA HubActsAre ==
    ASSUME HubActs
    PROVE  HP!Next /\ UNCHANGED <<main, requests>>
  <1>1. HP!Next
    BY SameListen, SameRange
       DEF HubActs, Subscribe, Broadcast, HubStep, CloseHub, HP!Next, HP!Rangers, Closers
  <1> QED BY <1>1 DEF HubActs, Subscribe, Broadcast, HubStep, CloseHub

LEMMA HubActsMove ==
    ASSUME HP!OrderInv, HubActs
    PROVE  HubMoves
  <1> USE DEF HP!GoL, HP!GoR, HP!JumpL, HP!out, HP!rangeVars
  <1>0. /\ rpc \in [Msgs \cup {"main"} -> {"idle", "skip", "call", "range", "visit", "done"}] /\ "main" \notin Msgs
        /\ lpc \in [Subs -> HP!ListenPC]
        /\ start \in [Msgs \cup {"main"} -> SUBSET Subs]
        /\ prior \in [Msgs -> SUBSET Msgs]
    BY ServerAssumption DEF HP!OrderInv, HP!CloseInv, HP!Typed, HP!TypeOK, HP!Rangers,
       HP!ListenPC, Closers
  <1>1. ASSUME NEW c \in Subs, HP!Enter(c) \/ HP!Listen(c) \/ HP!PeerGone(c)
        PROVE  HubMoves
    <2> USE <1>0 DEF HubMoves, Goes, HP!Early
    <2>1. CASE \/ HP!Enter(c) \/ HP!AcceptErr(c) \/ HP!Recheck(c) \/ HP!WriteErr(c)
               \/ HP!Tick(c) \/ HP!PingOk(c) \/ HP!PingErr(c) \/ HP!CtxDone(c)
      BY <2>1 DEF HP!Enter, HP!AcceptErr, HP!Recheck, HP!WriteErr, HP!Tick, HP!PingOk,
         HP!PingErr, HP!CtxDone
    <2>2. CASE HP!AcceptOk(c) \/ HP!Store(c) \/ HP!Delete(c) \/ HP!CloseOwn(c) \/ HP!PeerGone(c)
      BY <2>2 DEF HP!AcceptOk, HP!Store, HP!Delete, HP!CloseOwn, HP!PeerGone
    <2>3. CASE HP!Take(c) \/ HP!WriteOk(c)
      BY <2>3 DEF HP!Take, HP!WriteOk
    <2> QED BY <1>1, <2>1, <2>2, <2>3 DEF HP!Listen
  <1>2. ASSUME NEW m \in Msgs, HP!Broadcast(m), req[m] = "work" PROVE HubMoves
    BY <1>0, <1>2 DEF HubMoves, Goes, HP!Broadcast
  <1>3. ASSUME NEW p \in Msgs \cup {"main"}, HP!Iterate(p) PROVE HubMoves
    <2>1. CASE HP!RangeBegin(p)
      BY <1>0, <2>1 DEF HubMoves, Goes, HP!RangeBegin
    <2>2. CASE HP!RangeNext(p) \/ HP!RangeEnd(p)
      BY <1>0, <2>2 DEF HubMoves, Goes, HP!RangeNext, HP!RangeEnd
    <2> QED BY <1>3, <2>1, <2>2 DEF HP!Iterate
  <1>4. ASSUME NEW p \in Msgs \cup {"main"}, HP!Visit(p) PROVE HubMoves
    BY <1>0, <1>4 DEF HubMoves, Goes, HP!Visit
  <1>5. ASSUME HP!Close("main"), pc = "close" PROVE HubMoves
    BY <1>0, <1>5 DEF HubMoves, Goes, HP!Close
  <1> QED BY <1>1, <1>2, <1>3, <1>4, <1>5, SameListen, SameRange
      DEF HubActs, Subscribe, Broadcast, HubStep, CloseHub, HP!Offer, HP!Hangup

(* What a step of the hub does to what subscribers are given.              *)
HubReads ==
    \A c \in Subs :
        /\ sent'[c] = sent[c] \/ (sent'[c] = sent[c] + 1 /\ c \in H!Live)
        /\ sent[c] \in Nat /\ sent'[c] <= Len(log[c]) /\ Len(log[c]) \in Nat
        /\ \A j \in 1 .. Len(log[c]) : log'[c][j] = log[c][j]

LEMMA HubActsRead ==
    ASSUME HP!OrderInv, HubActs
    PROVE  HubReads
  <1> USE DEF HP!GoL, HP!GoR, HP!JumpL, HP!out, HP!rangeVars
  <1>0. /\ log \in [Subs -> Seq(Msgs)] /\ sent \in [Subs -> Nat]
        /\ \A c \in Subs : /\ Len(log[c]) \in Nat /\ sent[c] <= Len(log[c])
                           /\ lpc[c] = "write" => sent[c] + 1 <= Len(log[c]) /\ c \in conns
    <2>1. ASSUME NEW c \in Subs PROVE Len(log[c]) \in Nat /\ taken[c] <= Len(log[c])
      BY DEF HP!OrderInv, HP!CloseInv, HP!Typed, HP!TypeOK, HP!Queued
    <2> QED BY <2>1 DEF HP!OrderInv, HP!CloseInv, HP!Typed, HP!TypeOK, HP!Holding,
              HP!LoopRegistered, HP!Registered, HP!Serving
  <1>1. ASSUME UNCHANGED <<log, sent>> PROVE HubReads
    BY <1>0, <1>1 DEF HubReads
  <1>2. ASSUME NEW c \in Subs, HP!Enter(c) \/ HP!Listen(c) \/ HP!PeerGone(c)
        PROVE  HubReads
    <2>1. CASE HP!WriteOk(c)
      BY <1>0, <2>1 DEF HubReads, HP!WriteOk, H!Live
    <2>2. CASE ~HP!WriteOk(c)
      <3>1. UNCHANGED <<log, sent>>
        BY <1>2, <2>2 DEF HP!Listen, HP!Enter, HP!AcceptErr, HP!Recheck, HP!WriteErr, HP!Tick,
           HP!PingOk, HP!PingErr, HP!CtxDone, HP!AcceptOk, HP!Store, HP!Delete, HP!CloseOwn,
           HP!PeerGone, HP!Take
      <3> QED BY <1>1, <3>1
    <2> QED BY <2>1, <2>2
  <1>3. ASSUME NEW m \in Msgs, HP!Send(m, at[m]), UNCHANGED sent PROVE HubReads
    <2>1. ASSUME NEW c \in Subs
          PROVE  log'[c] = log[c] \/ log'[c] = Append(log[c], m)
      BY <1>0, <1>3 DEF HP!Send
    <2>2. ASSUME NEW c \in Subs, NEW j \in 1 .. Len(log[c])
          PROVE  log'[c][j] = log[c][j]
      <3>1. Append(log[c], m)[j] = log[c][j]
        BY <1>0
      <3> QED BY <2>1, <3>1
    <2> QED BY <1>0, <1>3, <2>2 DEF HubReads
  <1>4. ASSUME NEW m \in Msgs, HP!Offer(m) PROVE HubReads
    BY <1>1, <1>3, <1>4 DEF HP!Offer, HP!Visit, HP!Evict
  <1>5. ASSUME NEW p, HP!Broadcast(p) \/ HP!Close(p) \/ HP!Iterate(p) \/ HP!Hangup(p)
        PROVE  HubReads
    BY <1>1, <1>5 DEF HP!Broadcast, HP!Close, HP!Iterate, HP!RangeBegin, HP!RangeNext,
       HP!RangeEnd, HP!Hangup, HP!Visit, HP!Evict
  <1> QED BY <1>2, <1>4, <1>5, SameListen, SameRange
      DEF HubActs, Subscribe, Broadcast, HubStep, CloseHub

LEMMA HubActsKeep ==
    ASSUME ServerInv, HubActs
    PROVE  ServerInv'
  <1> USE DEF ServerInv, HubMoves, main, requests, history
  <1>1. HP!Next /\ HubMoves /\ UNCHANGED <<main, requests>>
    BY HubActsMove, HubActsAre
  <1>2. HP!OrderInv'
    BY <1>1, HubAssumed, HP!NextOrderInv
  <1>3. Typed' /\ Phases' /\ Unharmed'
    BY <1>1 DEF Typed, Phases, Unharmed, InFlight
  <1>4. Calling'
    BY <1>1 DEF Calling, Goes
  <1>5. ThereStarts'
    BY <1>1 DEF ThereStarts, Started, Goes, Typed
  <1>6. AfterPrior'
    <2> SUFFICES ASSUME NEW m \in Msgs, NEW x \in after[m]
                 PROVE  rpc'[m] \in {"idle", "skip"} \/ x \in prior'[m]
      BY <1>1 DEF AfterPrior
    <2>1. x \in Msgs /\ req[x] = "202"
      BY DEF Typed, AfterPrior
    <2>2. rpc[x] \in {"skip", "done"} /\ (rpc[x] = "skip" => closed)
      BY <2>1 DEF Calling
    <2>3. rpc[m] \in {"idle", "skip"} \/ x \in prior[m]
      BY DEF AfterPrior
    <2> QED BY <1>1, <2>1, <2>2, <2>3 DEF Goes
  <1>7. AcceptedNoGap'
    <2> SUFFICES ASSUME NEW m2 \in Msgs, NEW m1 \in after[m2], NEW c \in there[m1],
                        NEW j \in 1 .. sent'[c], log'[c][j] = m2
                 PROVE  \E i \in 1 .. (j - 1) : log'[c][i] = m1
      BY <1>1 DEF AcceptedNoGap
    <2>1. m1 \in Msgs /\ c \in Subs /\ req[m1] = "202" /\ m1 # m2
      BY DEF Typed, AfterPrior
    <2>2. HubReads
      BY HubActsRead
    <2>3. j \in 1 .. Len(log[c]) /\ log[c][j] = m2
      BY <2>1, <2>2 DEF HubReads
    <2>4. \E i \in 1 .. (j - 1) : log[c][i] = m1
      <3>1. CASE j <= sent[c]
        BY <2>1, <2>2, <2>3, <3>1 DEF AcceptedNoGap, HubReads
      <3>2. CASE c \in H!Live
        <4>1. PICK i \in DOMAIN log[c] : log[c][i] = m1
          <5>1. HP!Has(c, m2)
            BY <2>1, <2>3 DEF HP!Has, HP!OrderInv, HP!CloseInv, HP!Typed, HP!TypeOK
          <5>2. rpc[m2] \in HP!Ranging
            BY <2>1, <5>1 DEF HP!OrderInv, HP!LoggedSeen, HP!RangesOnly, HP!Rangers
          <5>3. rpc[m1] = "done"
            BY <5>2 DEF AfterPrior, HP!Ranging, HP!OrderInv, HP!PriorDone
          <5> QED BY <2>1, <3>2, <5>3, AcceptedHolds DEF AcceptedIsBroadcast
        <4>2. ~(j < i) /\ i # j
          BY <2>1, <2>3, <4>1, AnsweredHolds DEF AnsweredInOrder
        <4> QED BY <2>3, <4>1, <4>2
      <3> QED BY <2>1, <2>2, <3>1, <3>2 DEF HubReads
    <2> QED BY <2>1, <2>2, <2>3, <2>4 DEF HubReads
  <1> QED BY <1>2, <1>3, <1>4, <1>5, <1>6, <1>7

----------------------------------------------------------------------------
(* The steps of the requests and of main, which leave the hub alone.       *)

LEMMA HubStutters ==
    ASSUME UNCHANGED hub PROVE UNCHANGED HP!vars
  BY DEF hub, HP!vars, HP!out, HP!rangeVars

LEMMA HubLeft ==
    ASSUME HP!OrderInv, UNCHANGED hub
    PROVE  HP!OrderInv'
  BY HubStutters, HubAssumed, HP!NextOrderInv

LEMMA RequestsKeep ==
    ASSUME ServerInv, NEW m \in Msgs, Arrive(m) \/ Admit(m) \/ Finish(m) \/ Accept(m)
    PROVE  ServerInv'
  <1> USE DEF ServerInv, Move, Reply
  <1>1. UNCHANGED hub /\ UNCHANGED <<main, cut>>
    BY DEF Arrive, Admit, Finish, Accept
  <1>2. HP!OrderInv'
    BY <1>1, HubLeft
  <1>3. Phases'
    BY <1>1 DEF Phases, hub, main
  <1>4. CASE Arrive(m)
    <2>1. req[m] = "none" /\ req' = [req EXCEPT ![m] = "admit"] /\ rpc[m] = "idle"
      BY <1>4 DEF Arrive, Calling
    <2>2. end # "clean"
      BY <1>4 DEF Arrive, Reachable, Phases
    <2>3. /\ there' = [there EXCEPT ![m] = H!Live]
          /\ after' = [after EXCEPT ![m] = {x \in Msgs : req[x] = "202"}]
      BY <1>4 DEF Arrive
    <2>4. H!Live \subseteq conns /\ conns \subseteq Subs
      BY DEF H!Live, HP!OrderInv, HP!CloseInv, HP!Typed, HP!TypeOK
    <2>5. \A c \in conns : lpc[c] \notin HP!Early
      BY <2>4 DEF HP!OrderInv, HP!CloseInv, HP!EarlyUnknown
    <2>6. Typed' /\ Calling' /\ Unharmed'
      BY <1>1, <2>1, <2>2, <2>3, <2>4 DEF Typed, Calling, Unharmed, InFlight, hub, main
    <2>7. ThereStarts'
      BY <1>1, <2>1, <2>3, <2>4, <2>5 DEF ThereStarts, Started, Typed, hub
    <2>8. AfterPrior'
      BY <1>1, <2>1, <2>3 DEF AfterPrior, Typed, hub
    <2>9. AcceptedNoGap'
      <3> SUFFICES ASSUME NEW m2 \in Msgs, NEW m1 \in after'[m2], NEW c \in there'[m1],
                          NEW j \in 1 .. sent[c], log[c][j] = m2
                   PROVE  \E i \in 1 .. (j - 1) : log[c][i] = m1
        BY <1>1 DEF AcceptedNoGap, hub
      <3>1. m1 \in Msgs /\ c \in Subs
        BY <2>6 DEF Typed
      <3>2. HP!Has(c, m2)
        BY <3>1, SentSent DEF HP!Has
      <3>3. rpc[m2] \in HP!Ranging
        BY <3>1, <3>2 DEF HP!OrderInv, HP!LoggedSeen, HP!RangesOnly, HP!Rangers
      <3>4. m2 # m /\ m1 \in after[m2]
        BY <2>1, <2>3, <3>3 DEF HP!Ranging, Typed
      <3>5. m1 # m /\ c \in there[m1]
        BY <2>1, <2>3, <3>1, <3>4 DEF AfterPrior, Typed
      <3> QED BY <3>4, <3>5 DEF AcceptedNoGap
    <2> QED BY <1>2, <1>3, <2>6, <2>7, <2>8, <2>9
  <1>5. CASE Admit(m) \/ Finish(m) \/ Accept(m)
    <2>1. /\ UNCHANGED history
          /\ req' = [req EXCEPT ![m] = req'[m]]
          /\ req[m] \in {"admit", "work"}
          /\ req'[m] \in {"work", "202", "other", "no store", "lost"}
          /\ req[m] = "admit" => rpc[m] = "idle"
          /\ req'[m] = "202" => rpc[m] \in {"skip", "done"}
          /\ req'[m] \in {"no store", "lost"} => ~open \/ m \in cut
      BY <1>5 DEF Admit, Finish, Accept, Calling, Typed
    <2>2. end # "clean"
      BY <2>1 DEF Unharmed, InFlight
    <2>3. Typed' /\ Calling'
      BY <1>1, <2>1 DEF Typed, Calling, hub, main, history
    <2>4. Unharmed'
      BY <1>1, <2>1, <2>2 DEF Unharmed, InFlight, Phases, Typed, main
    <2>5. UNCHANGED <<lpc, conns, rpc, start, prior, log, sent, there, after>>
      BY <1>1, <2>1 DEF hub, history
    <2>6. ThereStarts' /\ AcceptedNoGap'
      BY <2>5 DEF ThereStarts, Started, AcceptedNoGap
    <2>7. AfterPrior'
      <3>1. \A x \in Msgs : req[x] = "202" => req'[x] = "202"
        BY <2>1 DEF Typed
      <3> QED BY <2>5, <3>1 DEF AfterPrior, Typed
    <2> QED BY <1>2, <1>3, <2>3, <2>4, <2>6, <2>7
  <1> QED BY <1>4, <1>5

LEMMA MainKeeps ==
    ASSUME ServerInv,
           \/ Signal \/ ServeFails \/ HubClosed \/ ShutdownOk \/ ShutdownLate
           \/ CloseStores \/ Exit
    PROVE  ServerInv'
  <1> USE DEF ServerInv, Go, Stop, requests, history
  <1>1. /\ UNCHANGED <<hub, req, history>>
        /\ cut' = cut \/ (ShutdownLate /\ cut' \subseteq Msgs)
        /\ end' = end \/ end = "none"
    BY DEF Signal, ServeFails, HubClosed, ShutdownOk, ShutdownLate, CloseStores, Exit, Phases
  <1>2. HP!OrderInv' /\ Calling' /\ ThereStarts' /\ AfterPrior' /\ AcceptedNoGap'
    BY <1>1, HubLeft DEF Calling, ThereStarts, Started, AfterPrior, AcceptedNoGap, hub
  <1>3. CASE Signal \/ HubClosed \/ CloseStores \/ Exit
    BY <1>1, <1>2, <1>3 DEF Signal, HubClosed, CloseStores, Exit, Typed, Phases, Unharmed,
       InFlight, hub
  <1>4. CASE ServeFails
    <2>1. /\ pc = "serve" /\ pc' = "defers" /\ end' = "error"
          /\ closed' = closed /\ UNCHANGED <<open, cut>>
      BY <1>4 DEF ServeFails, hub
    <2> QED BY <1>1, <1>2, <2>1 DEF Typed, Phases, Unharmed, InFlight
  <1>5. CASE ShutdownOk
    BY <1>1, <1>2, <1>5 DEF ShutdownOk, Active, Typed, Phases, Unharmed, InFlight, hub
  <1>6. CASE ShutdownLate
    BY <1>1, <1>2, <1>6 DEF ShutdownLate, Typed, Phases, Unharmed, InFlight, hub
  <1> QED BY <1>3, <1>4, <1>5, <1>6

LEMMA NextServerInv == ServerInv /\ [Next]_vars => ServerInv'
  <1> SUFFICES ASSUME ServerInv, [Next]_vars PROVE ServerInv'
    OBVIOUS
  <1>1. CASE UNCHANGED vars
    <2>1. UNCHANGED <<hub, main, requests>>
      BY <1>1 DEF vars
    <2>2. HP!OrderInv' /\ UNCHANGED <<log, sent, there, after>>
      BY <2>1, HubLeft DEF ServerInv, hub, requests, history
    <2>3. AcceptedNoGap'
      BY <2>2 DEF ServerInv, AcceptedNoGap
    <2> QED BY <2>1, <2>2, <2>3 DEF ServerInv, Typed, Phases, Calling, Unharmed, InFlight,
          ThereStarts, Started, AfterPrior, hub, main, requests, history
  <1>2. CASE Next
    BY <1>2, HubActsKeep, RequestsKeep, MainKeeps DEF Next, HubActs, Main
  <1> QED BY <1>1, <1>2

LEMMA AlwaysServerInv == Spec => []ServerInv
  BY InitServerInv, NextServerInv, PTL DEF Spec

----------------------------------------------------------------------------
(* The server does nothing to the hub that Hub does not do by itself, so   *)
(* what Hub guarantees holds in the server: the stop, the cut connections  *)
(* and the exit included.                                                  *)
THEOREM HubInside == Spec => HP!Spec
  <1>1. Init => HP!Init
    BY SameState DEF Init
  <1>2. [Next]_vars => [HP!Next]_(HP!vars)
    <2> SUFFICES ASSUME [Next]_vars PROVE HP!Next \/ UNCHANGED HP!vars
      OBVIOUS
    <2>1. ASSUME NEW m \in Msgs, Arrive(m) \/ Admit(m) \/ Finish(m) \/ Accept(m)
          PROVE  UNCHANGED hub
      BY <2>1 DEF Arrive, Admit, Finish, Accept
    <2>2. CASE \/ Signal \/ ServeFails \/ HubClosed \/ ShutdownOk \/ ShutdownLate
               \/ CloseStores \/ Exit
      BY <2>2, HubStutters DEF Signal, ServeFails, HubClosed, ShutdownOk, ShutdownLate,
         CloseStores, Exit, Stop
    <2>3. CASE UNCHANGED vars
      BY <2>3, HubStutters DEF vars
    <2> QED BY <2>1, <2>2, <2>3, HubActsAre, HubStutters DEF Next, HubActs, Main
  <1> QED BY <1>1, <1>2, PTL DEF Spec, HP!Spec

(* Whatever becomes of the requests, subscribers are given what Feed       *)
(* promises, from the start to the exit (ws_hub.go, main.go:173).          *)
THEOREM FeedInside == Spec => HP!FeedSpec
  BY HubInside, HubAssumed, HP!FeedCorrect, PTL

(* Types; a message is in the hub only once it is admitted, and answered   *)
(* 202 only once its Broadcast has returned (queue.go:119-121).            *)
THEOREM TypeCorrect == Spec => []TypeOK
  <1>1. ServerInv => TypeOK
    BY SameState DEF ServerInv, Typed, Calling, TypeOK, HP!OrderInv, HP!CloseInv, HP!Typed
  <1> QED BY <1>1, AlwaysServerInv, PTL

(* A message that was answered 202 is in the stream of every subscriber    *)
(* that was live when it was sent and still is, unless the signal has come *)
(* and it met a hub that was shut (queue.go:119-121, ws_hub.go:90-93).     *)
THEOREM AcceptedCorrect == Spec => []AcceptedIsBroadcast
  BY AcceptedHolds, AlwaysServerInv, PTL

(* Whoever sends a message after another was answered 202 is read after it *)
(* by every subscriber that is given both (queue.go:119-121).              *)
THEOREM AnsweredCorrect == Spec => []AnsweredInOrder
  BY AnsweredHolds, AlwaysServerInv, PTL

(* Nobody is given a message without having been given, before it, every   *)
(* message that was answered 202 before it was sent and that they were     *)
(* live for (queue.go:119-121, ws_hub.go:90-105).                          *)
THEOREM AcceptedNoGapCorrect == Spec => []AcceptedNoGap
  BY AlwaysServerInv, PTL DEF ServerInv

(* A request that was accepted before Shutdown returned is neither cut off *)
(* nor left without a store, unless the ten seconds pass or Serve fails    *)
(* (main.go:85-112, main.go:175-184).                                      *)
THEOREM GracefulCorrect == Spec => []Graceful
  <1>1. ServerInv => Graceful
    BY DEF ServerInv, Phases, Unharmed, Typed, Graceful
  <1> QED BY <1>1, AlwaysServerInv, PTL

(* After a signal no subscriber is still being served by the time Shutdown *)
(* starts (main.go:173).                                                   *)
THEOREM ToldFirstCorrect == Spec => []SubscribersToldFirst
  <1>1. ServerInv => HP!CloseReachesAll
    BY HubAssumed, HP!CloseInvReaches DEF ServerInv, HP!OrderInv
  <1>2. ServerInv => SubscribersToldFirst
    BY <1>1, SameState DEF ServerInv, Phases, SubscribersToldFirst, HP!CloseReachesAll, Closers
  <1> QED BY <1>2, AlwaysServerInv, PTL
=============================================================================
