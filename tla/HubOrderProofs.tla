--------------------------- MODULE HubOrderProofs ---------------------------
(***************************************************************************)
(* Proofs about the order and the completeness of what subscribers are     *)
(* given, for any number of subscribers, messages and calls of Close, and  *)
(* any channel capacity.                                                   *)
(***************************************************************************)
EXTENDS HubProofs

Has(c, m) == \E i \in DOMAIN log[c] : log[c][i] = m
Visiting(p, c) == rpc[p] = "visit" /\ at[p] = c

(* A message enters a channel in its Range's one visit of the subscriber,  *)
(* and a visit that is over left the message there or the socket closed.   *)
LoggedSeen ==
    \A m \in Msgs, c \in Subs : Has(c, m) => c \in seen[m] /\ ~Visiting(m, c)
SeenLogged ==
    \A m \in Msgs : \A c \in seen[m] :
        Has(c, m) \/ ws[c] = "closed" \/ Visiting(m, c)

(* Only a Range under way has visited anyone. *)
RangesOnly ==
    \A p \in Rangers : rpc[p] \notin Ranging => seen[p] = {}

(* The history of calls: what had returned stays returned. *)
PriorDone ==
    \A m \in Msgs : /\ \A x \in prior[m] : rpc[x] = "done"
                    /\ rpc[m] = "idle" => prior[m] = {}

(* A message in a channel follows whatever had returned before it was      *)
(* sent, or will never be read.                                            *)
Follows(c, m, j) == \E i \in 1 .. (j - 1) : log[c][i] = m
Unread(c, j) == j > sent[c] /\ (ws[c] = "closed" \/ lpc[c] \in Leaving)
GapFree ==
    \A m2 \in Msgs : \A m1 \in prior[m2] : \A c \in start[m1] :
        \A j \in DOMAIN log[c] : log[c][j] = m2 => Follows(c, m1, j) \/ Unread(c, j)

OrderInv == /\ CloseInv /\ LoggedSeen /\ SeenLogged /\ RangesOnly
            /\ PriorDone /\ GapFree /\ OrderedOnce

LEMMA InitOrderInv == Init => OrderInv
  <1> SUFFICES ASSUME Init PROVE OrderInv
    OBVIOUS
  <1>1. \A c \in Subs : DOMAIN log[c] = {}
    <2>1. DOMAIN <<>> = {}
      OBVIOUS
    <2> QED BY <2>1 DEF Init
  <1> QED BY <1>1, InitCloseInv
        DEF Init, OrderInv, LoggedSeen, SeenLogged, RangesOnly, PriorDone, GapFree,
            OrderedOnce, Has, Rangers, Ranging

(* A step of Listen or of a peer: no message is sent and none is written   *)
(* to a socket that is closed or past the loop.                            *)
Calm ==
    /\ UNCHANGED <<log, rangeVars>>
    /\ \A c \in Subs :
          /\ ws[c] = "closed" => ws'[c] = "closed"
          /\ lpc[c] \in Leaving => lpc'[c] \in Leaving
          /\ sent'[c] = sent[c] \/ (ws[c] = "open" /\ lpc[c] \notin Leaving)

LEMMA ListenCalm ==
    ASSUME CloseInv, NEW c \in Subs, Enter(c) \/ Listen(c) \/ PeerGone(c)
    PROVE  Calm
  <1> USE DEF CloseInv, Typed, TypeOK, Calm, Serving, Leaving, NotYetOpen, out, rangeVars
  <1>1. CASE \/ Enter(c) \/ AcceptErr(c) \/ Recheck(c) \/ WriteErr(c) \/ Tick(c)
             \/ PingOk(c) \/ PingErr(c) \/ CtxDone(c)
    BY <1>1 DEF Enter, AcceptErr, Recheck, WriteErr, Tick, PingOk, PingErr, CtxDone,
          JumpL, GoL
  <1>2. CASE AcceptOk(c) \/ Store(c) \/ Delete(c) \/ CloseOwn(c) \/ PeerGone(c)
    BY <1>2 DEF AcceptOk, Store, Delete, CloseOwn, PeerGone, GoL
  <1>3. CASE Take(c) \/ WriteOk(c)
    BY <1>3 DEF Take, WriteOk, GoL
  <1> QED BY <1>1, <1>2, <1>3 DEF Listen

LEMMA CalmKeeps ==
    ASSUME OrderInv, CloseInv', Calm
    PROVE  OrderInv'
  <1> USE DEF OrderInv, Calm, rangeVars
  <1>1. \A c \in Subs, m \in Msgs : Has(c, m)' <=> Has(c, m)
    BY DEF Has
  <1>2. \A c \in Subs, p \in Rangers : Visiting(p, c)' <=> Visiting(p, c)
    BY DEF Visiting
  <1>3. LoggedSeen' /\ SeenLogged'
    BY <1>1, <1>2 DEF LoggedSeen, SeenLogged, CloseInv, Typed, TypeOK, Rangers
  <1>4. RangesOnly' /\ PriorDone' /\ OrderedOnce'
    BY DEF RangesOnly, PriorDone, OrderedOnce
  <1>5. GapFree'
    <2>1. ASSUME NEW c \in Subs, NEW j, Unread(c, j) PROVE Unread(c, j)'
      BY <2>1 DEF Unread
    <2>2. ASSUME NEW c \in Subs, NEW m, NEW j, Follows(c, m, j) PROVE Follows(c, m, j)'
      BY <2>2 DEF Follows
    <2> QED BY <2>1, <2>2 DEF GapFree, CloseInv, Typed, TypeOK, Rangers
  <1> QED BY <1>3, <1>4, <1>5

(* The loads of closed, and the beginning and the end of a Range. *)
LEMMA CallsKeep ==
    ASSUME OrderInv, CloseInv', NEW p \in Rangers,
           \/ p \in Msgs /\ Broadcast(p)
           \/ p \in Closers /\ Close(p)
           \/ RangeBegin(p) \/ RangeEnd(p)
    PROVE  OrderInv'
  <1> USE DEF OrderInv, GoR, out
  <1>0. /\ UNCHANGED <<log, ws, lpc, sent, seen, at>>
        /\ rpc' = [rpc EXCEPT ![p] = rpc'[p]] /\ rpc[p] # "visit" /\ rpc'[p] # "visit"
        /\ rpc[p] \in {"idle", "call", "range"}
        /\ rpc'[p] \in {"skip", "call", "range", "done"}
        /\ rpc[p] \in Ranging => rpc'[p] \in Ranging
        /\ \A q \in Rangers : q # p => rpc'[q] = rpc[q]
    BY DEF Broadcast, Close, RangeBegin, RangeEnd, Ranging, CloseInv, Typed, TypeOK
  <1>1. \A c \in Subs, m \in Msgs : Has(c, m)' <=> Has(c, m)
    BY <1>0 DEF Has
  <1>2. \A c \in Subs, q \in Rangers : Visiting(q, c)' <=> Visiting(q, c)
    BY <1>0 DEF Visiting
  <1>3. LoggedSeen' /\ SeenLogged'
    <2>1. \A m \in Msgs : seen[m] \subseteq Subs
      BY DEF CloseInv, Typed, TypeOK, Rangers
    <2> QED BY <1>0, <1>1, <1>2, <2>1 DEF LoggedSeen, SeenLogged, Rangers
  <1>4. RangesOnly'
    BY <1>0 DEF RangesOnly
  <1>5. PriorDone'
    <2>1. CASE p \in Msgs /\ Broadcast(p)
      <3>1. /\ prior'[p] = {x \in Msgs : rpc[x] = "done"}
            /\ \A m \in Msgs : m # p => prior'[m] = prior[m]
        BY <2>1 DEF Broadcast, CloseInv, Typed, TypeOK
      <3>2. \A x \in Msgs : rpc[x] = "done" => rpc'[x] = "done"
        BY <1>0 DEF Rangers
      <3>3. \A m \in Msgs : \A x \in prior'[m] : x \in Msgs /\ rpc[x] = "done"
        BY <3>1 DEF PriorDone, CloseInv, Typed, TypeOK
      <3>4. \A m \in Msgs : rpc'[m] = "idle" => prior'[m] = {}
        BY <1>0, <3>1 DEF PriorDone, Rangers
      <3> QED BY <3>2, <3>3, <3>4 DEF PriorDone
    <2>2. CASE UNCHANGED prior
      <3>1. \A m \in Msgs : rpc'[m] = "idle" => rpc[m] = "idle"
        BY <1>0 DEF Rangers
      <3>2. \A x \in Rangers : rpc[x] = "done" => rpc'[x] = "done"
        BY <1>0
      <3> QED BY <2>2, <3>1, <3>2 DEF PriorDone, CloseInv, Typed, TypeOK, Rangers
    <2> QED BY <2>1, <2>2 DEF Close, RangeBegin, RangeEnd
  <1>6. \A c \in Subs, m \in Msgs : Has(c, m) => prior'[m] = prior[m]
    <2>1. CASE p \in Msgs /\ Broadcast(p)
      <3>1. \A c \in Subs : ~Has(c, p)
        BY <2>1 DEF Broadcast, LoggedSeen, RangesOnly, Ranging, Rangers
      <3> QED BY <2>1, <3>1 DEF Broadcast, CloseInv, Typed, TypeOK
    <2>2. CASE UNCHANGED prior
      BY <2>2
    <2> QED BY <2>1, <2>2 DEF Close, RangeBegin, RangeEnd
  <1>7. OrderedOnce'
    <2> SUFFICES ASSUME NEW c \in Subs, NEW i \in DOMAIN log[c], NEW j \in DOMAIN log[c],
                        i < j
                 PROVE  log[c][i] # log[c][j] /\ log[c][j] \notin prior'[log[c][i]]
      BY <1>0 DEF OrderedOnce
    <2>1. log[c][i] \in Msgs
      BY DEF CloseInv, Typed, TypeOK
    <2>2. Has(c, log[c][i])
      BY DEF Has
    <2> QED BY <1>6, <2>1, <2>2 DEF OrderedOnce
  <1>8. GapFree'
    <2>1. \A m2 \in Msgs : \A m1 \in prior[m2] : start'[m1] = start[m1]
      <3>1. \A m2 \in Msgs : \A m1 \in prior[m2] : m1 # p
        BY <1>0 DEF PriorDone
      <3>2. start' = start \/ start' = [start EXCEPT ![p] = conns]
        BY DEF Broadcast, Close, RangeBegin, RangeEnd
      <3> QED BY <3>1, <3>2 DEF CloseInv, Typed, TypeOK, Rangers
    <2> SUFFICES ASSUME NEW m2 \in Msgs, NEW m1 \in prior'[m2], NEW c \in start'[m1],
                        NEW j \in DOMAIN log[c], log[c][j] = m2
                 PROVE  Follows(c, m1, j) \/ Unread(c, j)
      BY <1>0 DEF GapFree, Follows, Unread
    <2>2. c \in Subs /\ Has(c, m2)
      BY <1>5 DEF Has, CloseInv, Typed, TypeOK, PriorDone, Rangers
    <2> QED BY <1>6, <2>1, <2>2 DEF GapFree
  <1> QED BY <1>3, <1>4, <1>5, <1>7, <1>8
(* The next key of a Range: one it has not visited, so one it has sent     *)
(* nothing to.                                                             *)
LEMMA NextKeyKeeps ==
    ASSUME OrderInv, CloseInv', NEW p \in Rangers, RangeNext(p)
    PROVE  OrderInv'
  <1> USE DEF OrderInv
  <1>1. PICK d \in conns \ seen[p] :
           /\ rpc[p] = "range" /\ rpc' = [rpc EXCEPT ![p] = "visit"]
           /\ at' = [at EXCEPT ![p] = d]
           /\ seen' = [seen EXCEPT ![p] = @ \cup {d}]
           /\ UNCHANGED <<closed, conns, lpc, ws, log, taken, sent, start, prior>>
    BY DEF RangeNext, GoR, out
  <1>2. /\ rpc'[p] = "visit" /\ at'[p] = d /\ seen'[p] = seen[p] \cup {d} /\ d \in Subs
        /\ \A q \in Rangers : q # p =>
              rpc'[q] = rpc[q] /\ at'[q] = at[q] /\ seen'[q] = seen[q]
    BY <1>1 DEF CloseInv, Typed, TypeOK
  <1>3. \A c \in Subs, m \in Msgs : Has(c, m)' <=> Has(c, m)
    BY <1>1 DEF Has
  <1>4. \A c \in Subs : /\ ~Visiting(p, c) /\ (Visiting(p, c)' <=> c = d)
                        /\ \A q \in Rangers : q # p => (Visiting(q, c)' <=> Visiting(q, c))
    BY <1>1, <1>2 DEF Visiting
  <1>5. LoggedSeen'
    BY <1>1, <1>2, <1>3, <1>4 DEF LoggedSeen, Rangers
  <1>6. SeenLogged'
    <2>1. \A m \in Msgs : seen[m] \subseteq Subs
      BY DEF CloseInv, Typed, TypeOK, Rangers
    <2> QED BY <1>1, <1>2, <1>3, <1>4, <2>1 DEF SeenLogged, Rangers
  <1>7. RangesOnly'
    BY <1>2 DEF RangesOnly, Ranging
  <1>8. PriorDone'
    <2>1. \A m \in Msgs : \A x \in prior[m] : x \in Msgs /\ x # p
      BY <1>1 DEF PriorDone, CloseInv, Typed, TypeOK
    <2> QED BY <1>1, <1>2, <2>1 DEF PriorDone, Rangers
  <1>9. GapFree' /\ OrderedOnce'
    BY <1>1 DEF GapFree, OrderedOnce, Follows, Unread
  <1> QED BY <1>5, <1>6, <1>7, <1>8, <1>9

(* A callback: either the message is sent, or the socket is closed.        *)
LEMMA VisitKeeps ==
    ASSUME OrderInv, CloseInv', NEW p \in Rangers,
           (p \in Msgs /\ Offer(p)) \/ (p \in Closers /\ Hangup(p))
    PROVE  OrderInv'
  <1> USE HubAssumption DEF OrderInv
  <1>1. /\ rpc[p] = "visit" /\ rpc' = [rpc EXCEPT ![p] = "range"]
        /\ at' = [at EXCEPT ![p] = None] /\ UNCHANGED <<lpc, sent, start, seen, prior>>
    BY DEF Offer, Hangup, Visit, GoR
  <1>0. PICK d \in Subs : d = at[p]
    BY <1>1 DEF CloseInv, Typed, TypeOK
  <1>2. /\ d \in seen[p]
        /\ rpc'[p] = "range" /\ at'[p] = None
        /\ \A q \in Rangers : q # p => rpc'[q] = rpc[q] /\ at'[q] = at[q]
    BY <1>0, <1>1 DEF CloseInv, VisitSeen, Typed, TypeOK
  <1>3. \A c \in Subs : /\ ~Visiting(p, c)' /\ (Visiting(p, c) <=> c = d)
                        /\ \A q \in Rangers : q # p => (Visiting(q, c)' <=> Visiting(q, c))
    BY <1>0, <1>1, <1>2 DEF Visiting
  <1>4. RangesOnly'
    BY <1>1, <1>2 DEF RangesOnly, Ranging
  <1>5. PriorDone'
    <2>1. \A m \in Msgs : \A x \in prior[m] : x \in Msgs /\ x # p
      BY <1>1 DEF PriorDone, CloseInv, Typed, TypeOK
    <2> QED BY <1>1, <1>2, <2>1 DEF PriorDone, Rangers
  <1>6. \A m \in Msgs : seen[m] \subseteq Subs
    BY DEF CloseInv, Typed, TypeOK, Rangers
  <1>7. CASE log' = log /\ ws' = [ws EXCEPT ![d] = "closed"]
    <2>1. /\ ws'[d] = "closed"
          /\ \A c \in Subs : ws[c] = "closed" => ws'[c] = "closed"
      BY <1>2, <1>7 DEF CloseInv, Typed, TypeOK
    <2>2. \A c \in Subs, m \in Msgs : Has(c, m)' <=> Has(c, m)
      BY <1>7 DEF Has
    <2>3. LoggedSeen' /\ SeenLogged'
      BY <1>1, <1>2, <1>3, <1>6, <2>1, <2>2 DEF LoggedSeen, SeenLogged, Rangers
    <2>4. GapFree' /\ OrderedOnce'
      <3>1. \A m \in Msgs : prior[m] \subseteq Msgs /\ start[m] \subseteq Subs
        BY DEF CloseInv, Typed, TypeOK, Rangers
      <3> QED BY <1>1, <1>7, <2>1, <3>1 DEF GapFree, OrderedOnce, Follows, Unread
    <2> QED BY <1>4, <1>5, <2>3, <2>4
  <1>8. CASE p \in Msgs /\ ws' = ws /\ log' = [log EXCEPT ![d] = Append(@, p)]
    <2>0. PICK n \in Nat : n = Len(log[d])
      BY DEF CloseInv, Typed, TypeOK
    <2>1. /\ log[d] \in Seq(Msgs) /\ DOMAIN log[d] = 1 .. n
          /\ DOMAIN log'[d] = 1 .. n + 1 /\ log'[d][n + 1] = p
          /\ \A i \in 1 .. n : log'[d][i] = log[d][i]
          /\ \A c \in Subs : c # d => log'[c] = log[c]
      BY <1>2, <1>8, <2>0 DEF CloseInv, Typed, TypeOK
    <2>2. /\ Has(d, p)'
          /\ \A c \in Subs, m \in Msgs : Has(c, m) => Has(c, m)'
          /\ \A c \in Subs, m \in Msgs : Has(c, m)' => Has(c, m) \/ (c = d /\ m = p)
      <3>1. Has(d, p)'
        BY <2>1 DEF Has
      <3>2. ASSUME NEW m \in Msgs
            PROVE  /\ Has(d, m) => Has(d, m)'
                   /\ Has(d, m)' => Has(d, m) \/ m = p
        BY <2>1 DEF Has
      <3>3. ASSUME NEW c \in Subs, c # d, NEW m \in Msgs
            PROVE  Has(c, m)' <=> Has(c, m)
        BY <2>1, <3>3 DEF Has
      <3> QED BY <3>1, <3>2, <3>3
    <2>3. LoggedSeen' /\ SeenLogged'
      BY <1>1, <1>2, <1>3, <1>6, <1>8, <2>2 DEF LoggedSeen, SeenLogged, Rangers
    <2>4. ~Has(d, p)
      BY <1>2, <1>3, <1>8 DEF LoggedSeen
    <2>5. OrderedOnce'
      <3>1. ASSUME NEW i \in 1 .. n
            PROVE  log[d][i] # p /\ p \notin prior[log[d][i]]
        <4>1. log[d][i] \in Msgs /\ log[d][i] # p
          BY <2>1, <2>4 DEF Has
        <4>2. p \notin prior[log[d][i]]
          BY <1>1, <4>1 DEF PriorDone
        <4> QED BY <4>1, <4>2
      <3>2. ASSUME NEW i \in 1 .. n + 1, NEW j \in 1 .. n + 1, i < j
            PROVE  log'[d][i] # log'[d][j] /\ log'[d][j] \notin prior[log'[d][i]]
        <4>1. CASE j = n + 1
          BY <2>1, <3>1, <3>2, <4>1
        <4>2. CASE j \in 1 .. n
          <5>1. i \in 1 .. n
            BY <2>1, <3>2, <4>2
          <5> QED BY <2>1, <3>2, <4>2, <5>1, <1>2 DEF OrderedOnce
        <4> QED BY <2>1, <4>1, <4>2
      <3>3. ASSUME NEW c \in Subs, c # d, NEW i \in DOMAIN log'[c], NEW j \in DOMAIN log'[c],
                   i < j
            PROVE  log'[c][i] # log'[c][j] /\ log'[c][j] \notin prior[log'[c][i]]
        BY <2>1, <3>3 DEF OrderedOnce
      <3> QED BY <1>1, <2>1, <3>2, <3>3 DEF OrderedOnce
    <2>6. GapFree'
      <3> SUFFICES ASSUME NEW m2 \in Msgs, NEW m1 \in prior[m2], NEW c \in start[m1],
                          NEW j \in DOMAIN log'[c], log'[c][j] = m2
                   PROVE  Follows(c, m1, j)' \/ Unread(c, j)'
        BY <1>1 DEF GapFree
      <3>0. m1 \in Msgs /\ c \in Subs /\ rpc[m1] = "done"
        BY DEF CloseInv, Typed, TypeOK, Rangers, PriorDone
      <3>1. CASE c # d
        <4>1. log'[c] = log[c]
          BY <2>1, <3>0, <3>1
        <4>2. Follows(c, m1, j) \/ Unread(c, j)
          BY <4>1 DEF GapFree
        <4> QED BY <1>1, <1>8, <4>1, <4>2 DEF Follows, Unread
      <3>2. CASE c = d /\ j \in 1 .. n
        <4>1. Follows(c, m1, j) \/ Unread(c, j)
          BY <2>1, <3>2 DEF GapFree
        <4>2. \A i \in 1 .. (j - 1) : log'[c][i] = log[c][i]
          BY <2>1, <3>2
        <4> QED BY <1>1, <1>8, <4>1, <4>2 DEF Follows, Unread
      <3>3. CASE c = d /\ j = n + 1
        <4>1. CASE Has(d, m1)
          <5>1. PICK i \in 1 .. n : log[d][i] = m1
            BY <2>1, <4>1 DEF Has
          <5>2. log'[c][i] = m1 /\ i \in 1 .. (j - 1)
            BY <2>1, <3>3, <5>1
          <5> QED BY <5>2 DEF Follows
        <4>2. CASE ~Has(d, m1)
          <5>1. j > sent[c]
            BY <2>0, <2>1, <3>0, <3>3 DEF CloseInv, Typed, TypeOK, Queued
          <5>2. ws[d] = "closed" \/ lpc[d] \in Leaving
            <6>1. CASE d \in conns
              <7>1. d \in seen[m1]
                BY <3>0, <3>3, <6>1 DEF CloseInv, DoneSawAll, Rangers
              <7> QED BY <3>0, <4>2, <7>1 DEF SeenLogged, Visiting
            <6>2. CASE d \notin conns
              BY <1>2, <3>0, <3>3, <6>2 DEF CloseInv, EarlyUnknown, LoopRegistered, Early,
                    Registered, Leaving, Typed, TypeOK, Rangers
            <6> QED BY <6>1, <6>2
          <5> QED BY <1>1, <1>8, <3>3, <5>1, <5>2 DEF Unread
        <4> QED BY <4>1, <4>2
      <3> QED BY <2>1, <3>0, <3>1, <3>2, <3>3
    <2> QED BY <1>4, <1>5, <2>3, <2>5, <2>6
  <1> QED BY <1>0, <1>7, <1>8 DEF Offer, Hangup, Send, Evict

LEMMA NextOrderInv == OrderInv /\ [Next]_vars => OrderInv'
  <1> SUFFICES ASSUME OrderInv, [Next]_vars PROVE OrderInv'
    OBVIOUS
  <1>0. CloseInv'
    BY NextCloseInv DEF OrderInv
  <1>1. CASE UNCHANGED vars
    <2>1. Calm
      BY <1>1 DEF Calm, vars, out, rangeVars
    <2> QED BY <1>0, <2>1, CalmKeeps
  <1>2. CASE Next
    <2>1. ASSUME NEW c \in Subs, Enter(c) \/ Listen(c) \/ PeerGone(c) PROVE OrderInv'
      BY <1>0, <2>1, ListenCalm, CalmKeeps DEF OrderInv
    <2>2. ASSUME NEW p \in Rangers,
                 \/ p \in Msgs /\ (Broadcast(p) \/ Offer(p))
                 \/ p \in Closers /\ (Close(p) \/ Hangup(p))
          PROVE  OrderInv'
      BY <1>0, <2>2, CallsKeep, VisitKeeps
    <2>3. ASSUME NEW p \in Rangers, Iterate(p) PROVE OrderInv'
      BY <1>0, <2>3, CallsKeep, NextKeyKeeps DEF Iterate
    <2> QED BY <1>2, <2>1, <2>2, <2>3 DEF Next, Rangers
  <1> QED BY <1>1, <1>2

LEMMA AlwaysOrderInv == Spec => []OrderInv
  BY InitOrderInv, NextOrderInv, PTL DEF Spec

LEMMA OrderInvReaches == OrderInv => BroadcastReachesAll
  <1> SUFFICES ASSUME OrderInv, NEW m \in Msgs, rpc[m] = "done",
                      NEW c \in start[m] \cap conns, ws[c] = "open"
               PROVE  Has(c, m)
    BY DEF BroadcastReachesAll, Has
  <1>1. c \in seen[m]
    BY DEF OrderInv, CloseInv, DoneSawAll, Rangers
  <1> QED BY <1>1 DEF OrderInv, SeenLogged, Visiting

(* When a Broadcast has returned, every subscriber that was registered     *)
(* when it began, and still is with a live socket, has the message.        *)
THEOREM ReachesCorrect == Spec => []BroadcastReachesAll
  BY OrderInvReaches, AlwaysOrderInv, PTL

(* No subscriber is given a message while one that had returned before it  *)
(* was sent is missing: the slow one is cut off, not skipped over.         *)
THEOREM NoGapCorrect == Spec => []NoGap
  <1>1. OrderInv => NoGap
    <2> SUFFICES ASSUME OrderInv, NEW m2 \in Msgs, NEW m1 \in prior[m2],
                        NEW c \in start[m1], NEW j \in 1 .. sent[c], log[c][j] = m2
                 PROVE  Follows(c, m1, j)
      BY DEF NoGap, Follows
    <2>1. c \in Subs
      BY DEF OrderInv, CloseInv, Typed, TypeOK, Rangers
    <2>2. j \in DOMAIN log[c] /\ ~(j > sent[c])
      BY <2>1 DEF OrderInv, CloseInv, Typed, TypeOK, Queued
    <2> QED BY <2>2 DEF OrderInv, GapFree, Unread
  <1> QED BY <1>1, AlwaysOrderInv, PTL

(* Every channel holds its messages once each, and in the order of any two *)
(* broadcasts of which one followed the other.                             *)
THEOREM OrderedCorrect == Spec => []OrderedOnce
  BY AlwaysOrderInv, PTL DEF OrderInv
=============================================================================
