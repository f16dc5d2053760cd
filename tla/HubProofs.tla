----------------------------- MODULE HubProofs -----------------------------
(***************************************************************************)
(* Proofs about the hub, for any number of subscribers, messages and calls *)
(* of Close, and any channel capacity.                                     *)
(***************************************************************************)
EXTENDS HubProperties, TLAPS

ListenPC == {"idle", "accept", "store", "recheck", "refused", "failed"}
                \cup Serving \cup Leaving

(* The loop holds at most one message it has received and not yet written, *)
(* and holds it exactly while it writes, or for ever after a failed write. *)
Holding ==
    \A c \in Subs :
        /\ taken[c] = sent[c] \/ taken[c] = sent[c] + 1
        /\ lpc[c] = "write" => taken[c] = sent[c] + 1
        /\ lpc[c] \notin {"write"} \cup Leaving => taken[c] = sent[c]

Typed == TypeOK /\ Holding

LEMMA InitTyped == Init => Typed
  <1> USE HubAssumption
  <1> SUFFICES ASSUME Init PROVE Typed
    OBVIOUS
  <1>1. TypeOK
    <2>1. <<>> \in Seq(Msgs) /\ Len(<<>>) = 0
      OBVIOUS
    <2>2. log \in [Subs -> Seq(Msgs)]
      BY <2>1 DEF Init
    <2>3. ASSUME NEW c \in Subs PROVE sent[c] <= taken[c] /\ Queued(c) \in 0 .. Cap
      <3>1. log[c] = <<>> /\ taken[c] = 0 /\ sent[c] = 0
        BY DEF Init
      <3>2. Queued(c) = 0
        BY <2>1, <3>1 DEF Queued
      <3> QED BY <3>1, <3>2
    <2> QED BY <2>2, <2>3 DEF Init, TypeOK, Rangers, Serving, Leaving
  <1>2. Holding
    BY DEF Init, Holding, Leaving
  <1> QED BY <1>1, <1>2 DEF Typed

(* The steps of Listen that touch nothing shared. *)
LEMMA JumpTyped ==
    ASSUME Typed, NEW c \in Subs, NEW from, NEW to \in ListenPC,
           JumpL(c, from, to),
           to = "write" => from = "write",
           from = "write" => to \in {"write"} \cup Leaving,
           from \in Leaving => to \in Leaving
    PROVE  Typed'
  <1>1. TypeOK'
    BY DEF Typed, TypeOK, JumpL, GoL, out, rangeVars, ListenPC, Queued
  <1>2. Holding'
    BY DEF Typed, TypeOK, Holding, JumpL, GoL, out, rangeVars, ListenPC, Leaving, Serving
  <1> QED BY <1>1, <1>2 DEF Typed

LEMMA ListenTyped ==
    ASSUME Typed, NEW c \in Subs, Enter(c) \/ Listen(c) \/ PeerGone(c)
    PROVE  Typed'
  <1> USE HubAssumption
  <1>1. CASE \/ Enter(c) \/ AcceptErr(c) \/ Recheck(c) \/ WriteErr(c) \/ Tick(c)
             \/ PingOk(c) \/ PingErr(c) \/ CtxDone(c)
    BY <1>1, JumpTyped DEF Enter, AcceptErr, Recheck, WriteErr, Tick, PingOk,
          PingErr, CtxDone, ListenPC, Serving, Leaving
  <1>2. CASE AcceptOk(c) \/ Store(c) \/ Delete(c) \/ CloseOwn(c) \/ PeerGone(c)
    <2>1. TypeOK'
      <3> USE DEF Typed, TypeOK, GoL, out, rangeVars, Queued
      <3>1. CASE AcceptOk(c)
        BY <3>1 DEF AcceptOk
      <3>2. CASE Store(c)
        BY <3>2 DEF Store
      <3>3. CASE Delete(c)
        BY <3>3 DEF Delete, Leaving
      <3>4. CASE CloseOwn(c)
        BY <3>4 DEF CloseOwn, Leaving
      <3>5. CASE PeerGone(c)
        BY <3>5 DEF PeerGone
      <3> HIDE DEF TypeOK
      <3> QED BY <1>2, <3>1, <3>2, <3>3, <3>4, <3>5
    <2>2. Holding'
      BY <1>2 DEF Typed, TypeOK, Holding, AcceptOk, Store, Delete, CloseOwn, PeerGone,
            GoL, out, rangeVars, Leaving
    <2> QED BY <2>1, <2>2 DEF Typed
  <1>3. CASE Take(c)
    <2>1. TypeOK'
      BY <1>3 DEF Typed, TypeOK, Holding, Take, GoL, rangeVars, Queued, Serving, Leaving
    <2>2. Holding'
      BY <1>3 DEF Typed, TypeOK, Holding, Take, GoL, rangeVars, Leaving
    <2> QED BY <2>1, <2>2 DEF Typed
  <1>4. CASE WriteOk(c)
    <2>1. TypeOK'
      BY <1>4 DEF Typed, TypeOK, Holding, WriteOk, GoL, rangeVars, Queued, Serving, Leaving
    <2>2. Holding'
      BY <1>4 DEF Typed, TypeOK, Holding, WriteOk, GoL, rangeVars, Leaving
    <2> QED BY <2>1, <2>2 DEF Typed
  <1> QED BY <1>1, <1>2, <1>3, <1>4 DEF Listen

LEMMA RangeTyped ==
    ASSUME Typed, NEW p \in Rangers, Iterate(p)
    PROVE  Typed'
  <1>1. TypeOK'
    <2>1. CASE RangeBegin(p)
      BY <2>1 DEF Typed, TypeOK, RangeBegin, GoR, out, Queued
    <2>2. CASE RangeNext(p)
      BY <2>2 DEF Typed, TypeOK, RangeNext, GoR, out, Queued
    <2>3. CASE RangeEnd(p)
      BY <2>3 DEF Typed, TypeOK, RangeEnd, GoR, out, Queued
    <2> QED BY <2>1, <2>2, <2>3 DEF Iterate
  <1>2. Holding'
    BY DEF Typed, Holding, Iterate, RangeBegin, RangeNext, RangeEnd, out
  <1> QED BY <1>1, <1>2 DEF Typed

LEMMA CallTyped ==
    ASSUME Typed, NEW p \in Rangers,
           \/ p \in Msgs /\ (Broadcast(p) \/ Offer(p))
           \/ p \in Closers /\ (Close(p) \/ Hangup(p))
    PROVE  Typed'
  <1> USE HubAssumption
  <1>1. CASE p \in Msgs /\ Broadcast(p)
    BY <1>1 DEF Typed, TypeOK, Holding, Broadcast, GoR, out, Queued
  <1>2. CASE p \in Closers /\ Close(p)
    BY <1>2 DEF Typed, TypeOK, Holding, Close, GoR, out, Queued
  <1>3. CASE p \in Closers /\ Hangup(p)
    BY <1>3 DEF Typed, TypeOK, Holding, Hangup, Visit, Evict, GoR, Queued
  <1>4. CASE p \in Msgs /\ Offer(p)
    <2> DEFINE c == at[p]
    <2>0. c \in Subs /\ rpc[p] = "visit"
      BY <1>4 DEF Typed, TypeOK, Offer, Visit, GoR
    <2>1. CASE Queued(c) < Cap
      <3>1. log' = [log EXCEPT ![c] = Append(@, p)] /\ UNCHANGED ws
        BY <1>4, <2>1 DEF Offer, Send
      <3>2. Append(log[c], p) \in Seq(Msgs) /\ Len(Append(log[c], p)) = Len(log[c]) + 1
        BY <1>4, <2>0 DEF Typed, TypeOK
      <3>3. log' \in [Subs -> Seq(Msgs)]
        BY <3>1, <3>2 DEF Typed, TypeOK
      <3>4. \A d \in Subs : Queued(d)' \in 0 .. Cap
        BY <1>4, <2>0, <2>1, <3>1, <3>2 DEF Typed, TypeOK, Queued, Offer, Visit
      <3> QED
        BY <1>4, <2>0, <3>1, <3>3, <3>4 DEF Typed, TypeOK, Holding, Offer, Visit, GoR
    <2>2. CASE ~(Queued(c) < Cap)
      BY <1>4, <2>0, <2>2 DEF Typed, TypeOK, Holding, Offer, Visit, Evict, GoR, Queued
    <2> QED BY <2>1, <2>2
  <1> QED BY <1>1, <1>2, <1>3, <1>4

LEMMA NextTyped == Typed /\ [Next]_vars => Typed'
  <1> SUFFICES ASSUME Typed, [Next]_vars PROVE Typed'
    OBVIOUS
  <1>1. CASE UNCHANGED vars
    BY <1>1 DEF Typed, TypeOK, Holding, vars, out, rangeVars, Queued
  <1>2. CASE Next
    BY <1>2, ListenTyped, RangeTyped, CallTyped DEF Next, Rangers
  <1> QED BY <1>1, <1>2

LEMMA AlwaysTyped == Spec => []Typed
  BY InitTyped, NextTyped, PTL DEF Spec

(* Every variable keeps its type; no channel ever holds more than Cap      *)
(* messages, so no send of Broadcast can block or be dropped unseen.       *)
THEOREM TypeCorrect == Spec => []TypeOK
  <1>1. Typed => TypeOK
    BY DEF Typed
  <1> QED BY <1>1, AlwaysTyped, PTL

(* What a peer has been given is a prefix of what its channel was sent. *)
THEOREM PrefixCorrect == Spec => []PrefixDelivered
  <1>1. Typed => PrefixDelivered
    BY DEF Typed, Holding, PrefixDelivered
  <1> QED BY <1>1, AlwaysTyped, PTL

----------------------------------------------------------------------------
(* Close against Listen.  The strengthening of CloseReachesAll: the flag   *)
(* is set before the Range of Close begins and a Listen registers before   *)
(* it loads the flag again, so a loop that runs when a Range of Close is   *)
(* under way was registered when it began; and what such a Range has left  *)
(* behind is closed for good.                                              *)

(* Before its Store a subscriber is in no map and no Range has seen it. *)
Early == {"idle", "accept", "store", "refused", "failed"}
Registered == {"recheck", "delete"} \cup Serving
Ranging == {"range", "visit", "done"}

EarlyUnknown ==
    \A c \in Subs : lpc[c] \in Early =>
        c \notin conns /\ \A p \in Rangers : c \notin start[p] \cup seen[p]
NotYetOpen ==
    \A c \in Subs : lpc[c] \in {"idle", "accept"} => ws[c] = "none"
LoopRegistered ==
    \A c \in Subs : lpc[c] \in Registered => c \in conns
StartedClosed ==
    \A k \in Closers : rpc[k] \in {"call"} \cup Ranging => closed
LoopInStart ==
    \A k \in Closers : rpc[k] \in Ranging =>
        \A c \in Subs : lpc[c] \in Serving => c \in start[k]
SeenClosed ==
    \A k \in Closers : \A c \in seen[k] :
        ws[c] = "closed" \/ (rpc[k] = "visit" /\ at[k] = c)
VisitSeen ==
    \A p \in Rangers : rpc[p] = "visit" => at[p] \in seen[p]
DoneSawAll ==
    \A p \in Rangers : rpc[p] = "done" => start[p] \cap conns \subseteq seen[p]

CloseInv == /\ Typed /\ EarlyUnknown /\ NotYetOpen /\ LoopRegistered
            /\ StartedClosed /\ LoopInStart /\ SeenClosed /\ VisitSeen
            /\ DoneSawAll

LEMMA InitCloseInv == Init => CloseInv
  BY InitTyped DEF CloseInv, Init, EarlyUnknown, NotYetOpen, LoopRegistered,
     StartedClosed, LoopInStart, SeenClosed, VisitSeen, DoneSawAll, Early, Registered, Serving,
     Ranging, Rangers

(* What a step that is none of a Range's own must respect. *)
Respects ==
    /\ UNCHANGED rangeVars
    /\ closed => closed'
    /\ conns' \subseteq conns \cup {d \in Subs : lpc[d] = "store"}
    /\ \A d \in Subs :
          /\ ws[d] = "closed" => ws'[d] = "closed"
          /\ lpc'[d] \in Early => lpc[d] \in Early /\ (d \in conns' => d \in conns)
          /\ lpc'[d] \in {"idle", "accept"} => lpc[d] \in {"idle", "accept"} /\ ws'[d] = ws[d]
          /\ lpc'[d] \in Registered => d \in conns'
          /\ lpc'[d] \in Serving => lpc[d] \in Serving \/ ~closed

LEMMA RespectsKeeps ==
    ASSUME CloseInv, Typed', Respects
    PROVE  CloseInv'
  <1> USE DEF CloseInv, Respects, rangeVars
  <1>1. EarlyUnknown'
    BY DEF EarlyUnknown
  <1>2. NotYetOpen'
    BY DEF NotYetOpen
  <1>3. LoopRegistered'
    BY DEF LoopRegistered
  <1>4. StartedClosed'
    BY DEF StartedClosed
  <1>5. LoopInStart'
    BY DEF LoopInStart, StartedClosed, Ranging
  <1>6. SeenClosed'
    BY DEF SeenClosed, Typed, TypeOK, Rangers
  <1>7. DoneSawAll' /\ VisitSeen'
    BY DEF DoneSawAll, VisitSeen, EarlyUnknown, Early
  <1> QED BY <1>1, <1>2, <1>3, <1>4, <1>5, <1>6, <1>7

LEMMA ListenRespects ==
    ASSUME CloseInv, NEW c \in Subs, Enter(c) \/ Listen(c) \/ PeerGone(c)
    PROVE  Respects
  <1> USE DEF CloseInv, Typed, TypeOK, Respects, Early, Registered, Serving, Leaving,
            NotYetOpen, LoopRegistered, out, rangeVars
  <1>1. CASE \/ Enter(c) \/ AcceptErr(c) \/ Recheck(c) \/ WriteErr(c) \/ Tick(c)
             \/ PingOk(c) \/ PingErr(c) \/ CtxDone(c)
    BY <1>1 DEF Enter, AcceptErr, Recheck, WriteErr, Tick, PingOk, PingErr, CtxDone,
          JumpL, GoL
  <1>2. CASE AcceptOk(c)
    BY <1>2 DEF AcceptOk, GoL
  <1>3. CASE Store(c)
    BY <1>3 DEF Store, GoL
  <1>4. CASE Take(c) \/ WriteOk(c)
    BY <1>4 DEF Take, WriteOk, GoL
  <1>5. CASE Delete(c)
    BY <1>5 DEF Delete, GoL
  <1>6. CASE CloseOwn(c)
    BY <1>6 DEF CloseOwn, GoL
  <1>7. CASE PeerGone(c)
    BY <1>7 DEF PeerGone
  <1> QED BY <1>1, <1>2, <1>3, <1>4, <1>5, <1>6, <1>7 DEF Listen

(* The calls of Broadcast and of Close, one step after another. *)
LEMMA RangeKeeps ==
    ASSUME CloseInv, Typed', NEW p \in Rangers, Iterate(p)
    PROVE  CloseInv'
  <1> USE DEF CloseInv, Typed, TypeOK, out, GoR, Ranging
  <1>0. UNCHANGED <<closed, conns, lpc, ws>>
    BY DEF Iterate, RangeBegin, RangeNext, RangeEnd
  <1>1. NotYetOpen' /\ LoopRegistered'
    BY <1>0 DEF NotYetOpen, LoopRegistered
  <1>2. CASE RangeBegin(p)
    <2>1. EarlyUnknown'
      BY <1>2 DEF RangeBegin, EarlyUnknown
    <2>2. StartedClosed'
      BY <1>2 DEF RangeBegin, StartedClosed
    <2>3. LoopInStart'
      BY <1>2 DEF RangeBegin, LoopInStart, LoopRegistered, Registered
    <2>4. SeenClosed'
      BY <1>2 DEF RangeBegin, SeenClosed
    <2>5. DoneSawAll' /\ VisitSeen'
      BY <1>2 DEF RangeBegin, DoneSawAll, VisitSeen
    <2> QED BY <1>1, <2>1, <2>2, <2>3, <2>4, <2>5
  <1>3. CASE RangeNext(p)
    <2>0. PICK c \in conns \ seen[p] :
             /\ rpc[p] = "range" /\ rpc' = [rpc EXCEPT ![p] = "visit"]
             /\ at' = [at EXCEPT ![p] = c]
             /\ seen' = [seen EXCEPT ![p] = @ \cup {c}]
             /\ UNCHANGED <<closed, conns, lpc, ws, start>>
      BY <1>3 DEF RangeNext
    <2>1. EarlyUnknown'
      BY <2>0 DEF EarlyUnknown
    <2>2. StartedClosed'
      BY <2>0 DEF StartedClosed
    <2>3. LoopInStart'
      <3>1. \A k \in Closers : rpc'[k] \in Ranging => rpc[k] \in Ranging
        BY <2>0
      <3> HIDE DEF Ranging, TypeOK
      <3> QED BY <2>0, <3>1 DEF LoopInStart
    <2>4. SeenClosed'
      BY <2>0 DEF SeenClosed, Rangers
    <2>5. DoneSawAll' /\ VisitSeen'
      BY <2>0 DEF DoneSawAll, VisitSeen
    <2> QED BY <1>1, <2>1, <2>2, <2>3, <2>4, <2>5
  <1>4. CASE RangeEnd(p)
    <2>1. EarlyUnknown' /\ StartedClosed' /\ LoopInStart'
      BY <1>4 DEF RangeEnd, EarlyUnknown, StartedClosed, LoopInStart
    <2>2. SeenClosed'
      BY <1>4 DEF RangeEnd, SeenClosed
    <2>3. DoneSawAll' /\ VisitSeen'
      BY <1>4 DEF RangeEnd, DoneSawAll, VisitSeen
    <2> QED BY <1>1, <2>1, <2>2, <2>3
  <1> QED BY <1>2, <1>3, <1>4 DEF Iterate

LEMMA CallKeeps ==
    ASSUME CloseInv, Typed', NEW p \in Rangers,
           \/ p \in Msgs /\ (Broadcast(p) \/ Offer(p))
           \/ p \in Closers /\ (Close(p) \/ Hangup(p))
    PROVE  CloseInv'
  <1> USE HubAssumption DEF CloseInv, Typed, TypeOK, out, GoR, Ranging
  <1>1. CASE p \in Msgs /\ Broadcast(p)
    BY <1>1 DEF Broadcast, EarlyUnknown, NotYetOpen, LoopRegistered, StartedClosed,
          LoopInStart, SeenClosed, VisitSeen, DoneSawAll
  <1>2. CASE p \in Closers /\ Close(p)
    BY <1>2 DEF Close, EarlyUnknown, NotYetOpen, LoopRegistered, StartedClosed,
          LoopInStart, SeenClosed, VisitSeen, DoneSawAll
  <1>3. CASE (p \in Msgs /\ Offer(p)) \/ (p \in Closers /\ Hangup(p))
    <2>1. /\ rpc[p] = "visit" /\ rpc' = [rpc EXCEPT ![p] = "range"]
          /\ UNCHANGED <<closed, conns, lpc, start, seen>>
          /\ at' = [at EXCEPT ![p] = None]
      BY <1>3 DEF Offer, Hangup, Visit
    <2>2. ws' = ws \/ ws' = [ws EXCEPT ![at[p]] = "closed"]
      BY <1>3 DEF Offer, Hangup, Visit, Send, Evict
    <2>3. EarlyUnknown' /\ LoopRegistered'
      BY <2>1 DEF EarlyUnknown, LoopRegistered
    <2>4. StartedClosed' /\ LoopInStart'
      <3>1. \A k \in Closers : rpc'[k] \in Ranging => rpc[k] \in Ranging
        BY <2>1
      <3>2. \A k \in Closers : rpc'[k] \in {"call"} \cup Ranging =>
                                 rpc[k] \in {"call"} \cup Ranging
        BY <2>1
      <3> HIDE DEF Ranging, TypeOK
      <3> QED BY <2>1, <3>1, <3>2 DEF StartedClosed, LoopInStart
    <2>5. DoneSawAll' /\ VisitSeen'
      BY <2>1 DEF DoneSawAll, VisitSeen
    <2>6. NotYetOpen'
      <3>1. at[p] \in seen[p]
        BY <2>1 DEF VisitSeen
      <3> QED BY <2>1, <2>2, <3>1 DEF NotYetOpen, EarlyUnknown, Early
    <2>7. SeenClosed'
      <3>1. \A c \in Subs : ws[c] = "closed" => ws'[c] = "closed"
        BY <2>2
      <3>2. p \in Closers => ws'[at[p]] = "closed"
        BY <1>3, <2>1 DEF Hangup, Evict, Rangers
      <3> QED BY <2>1, <3>1, <3>2 DEF SeenClosed, Rangers
    <2> QED BY <2>3, <2>4, <2>5, <2>6, <2>7
  <1> HIDE DEF CloseInv
  <1> QED BY <1>1, <1>2, <1>3

LEMMA NextCloseInv == CloseInv /\ [Next]_vars => CloseInv'
  <1> SUFFICES ASSUME CloseInv, [Next]_vars PROVE CloseInv'
    OBVIOUS
  <1>0. Typed'
    BY NextTyped DEF CloseInv
  <1>1. CASE UNCHANGED vars
    <2>1. Respects
      BY <1>1 DEF Respects, CloseInv, LoopRegistered, vars, rangeVars
    <2> QED BY <1>0, <2>1, RespectsKeeps
  <1>2. CASE Next
    <2>1. ASSUME NEW c \in Subs, Enter(c) \/ Listen(c) \/ PeerGone(c) PROVE CloseInv'
      BY <1>0, <2>1, ListenRespects, RespectsKeeps
    <2> QED BY <1>0, <1>2, <2>1, RangeKeeps, CallKeeps DEF Next, Rangers
  <1> QED BY <1>1, <1>2

LEMMA AlwaysCloseInv == Spec => []CloseInv
  BY InitCloseInv, NextCloseInv, PTL DEF Spec

LEMMA CloseInvReaches == CloseInv => CloseReachesAll
  <1> SUFFICES ASSUME CloseInv, NEW k \in Closers, rpc[k] = "done",
                      NEW c \in Subs, lpc[c] \in Serving
               PROVE  ws[c] = "closed"
    BY DEF CloseReachesAll
  <1>1. c \in start[k] \cap conns
    BY DEF CloseInv, LoopInStart, LoopRegistered, Registered, Ranging
  <1>2. c \in seen[k]
    BY <1>1 DEF CloseInv, DoneSawAll, Rangers
  <1> QED BY <1>2 DEF CloseInv, SeenClosed

(* Once a call of Close has returned, no Listen loop serves an open socket *)
(* however many subscribers were arriving or leaving.                      *)
THEOREM CloseCorrect == Spec => []CloseReachesAll
  BY AlwaysCloseInv, CloseInvReaches, PTL

(* And no message reaches a peer from then on. *)
THEOREM QuietCorrect == Spec => QuietAfterClose
  <1>1. CloseInv /\ [Next]_vars =>
           [(\E k \in Closers : rpc[k] = "done") => sent' = sent]_vars
    <2> SUFFICES ASSUME CloseInv, Next, NEW k \in Closers, rpc[k] = "done"
                 PROVE  sent' = sent
      BY DEF vars, out
    <2>1. ASSUME NEW c \in Subs PROVE ~WriteOk(c)
      BY CloseInvReaches DEF WriteOk, GoL, CloseReachesAll, Serving
    <2>2. ASSUME NEW c \in Subs, Enter(c) \/ Listen(c) \/ PeerGone(c) PROVE sent' = sent
      BY <2>1, <2>2 DEF Enter, Listen, PeerGone, AcceptOk, AcceptErr, Store, Recheck,
            Take, WriteErr, Tick, PingOk, PingErr, CtxDone, Delete, CloseOwn, JumpL, out
    <2>3. ASSUME NEW p \in Rangers,
                 Iterate(p) \/ Broadcast(p) \/ Offer(p) \/ Close(p) \/ Hangup(p)
          PROVE  sent' = sent
      BY <2>3 DEF Iterate, RangeBegin, RangeNext, RangeEnd, Broadcast, Offer, Close,
            Hangup, Visit, out
    <2> QED BY <2>2, <2>3 DEF Next, Rangers
  <1>2. QuietAfterClose <=> [][(\E k \in Closers : rpc[k] = "done") => sent' = sent]_vars
    BY DEF QuietAfterClose
  <1> QED BY <1>1, <1>2, AlwaysCloseInv, PTL DEF Spec
=============================================================================
