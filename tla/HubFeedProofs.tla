---------------------------- MODULE HubFeedProofs ----------------------------
(***************************************************************************)
(* The hub implements Feed: every step of its goroutines is a step of the  *)
(* feed or leaves it as it is.                                             *)
(***************************************************************************)
EXTENDS HubOrderProofs, SequenceTheorems

feed == <<Joined, Live, Stream, sent, Phase, Owed, closed, Quiet>>

(* What a subscriber's reader has seen does not change when a message is   *)
(* put behind it.                                                          *)
LEMMA PrefixOfAppend ==
    ASSUME NEW s \in Seq(Msgs), NEW m \in Msgs, NEW n \in 0 .. Len(s)
    PROVE  SubSeq(Append(s, m), 1, n) = SubSeq(s, 1, n)
  <1> DEFINE t == Append(s, m)
  <1>1. /\ \A i \in 1 .. n : s[i] \in Msgs /\ t[i] \in Msgs /\ t[i] = s[i]
        /\ n \in Int
    OBVIOUS
  <1> HIDE DEF t
  <1>2. /\ SubSeq(s, 1, n) \in Seq(Msgs)
        /\ Len(SubSeq(s, 1, n)) = IF 1 <= n THEN n - 1 + 1 ELSE 0
        /\ \A i \in 1 .. n - 1 + 1 : SubSeq(s, 1, n)[i] = s[1 + i - 1]
    BY <1>1, SubSeqProperties
  <1>3. /\ SubSeq(t, 1, n) \in Seq(Msgs)
        /\ Len(SubSeq(t, 1, n)) = IF 1 <= n THEN n - 1 + 1 ELSE 0
        /\ \A i \in 1 .. n - 1 + 1 : SubSeq(t, 1, n)[i] = t[1 + i - 1]
    BY <1>1, SubSeqProperties
  <1>4. Len(SubSeq(t, 1, n)) = Len(SubSeq(s, 1, n))
    BY <1>2, <1>3
  <1>5. ASSUME NEW i \in 1 .. Len(SubSeq(t, 1, n))
        PROVE  SubSeq(t, 1, n)[i] = SubSeq(s, 1, n)[i]
    <2>1. i \in 1 .. n
      BY <1>3
    <2>2. SubSeq(t, 1, n)[i] = t[1 + i - 1] /\ SubSeq(s, 1, n)[i] = s[1 + i - 1]
      BY <1>2, <1>3, <2>1
    <2>3. 1 + i - 1 = i
      BY <2>1
    <2> QED BY <1>1, <2>1, <2>2, <2>3
  <1>6. SubSeq(t, 1, n) = SubSeq(s, 1, n)
    BY <1>2, <1>3, <1>4, <1>5, SeqEqual
  <1> QED BY <1>6 DEF t

(* A subscriber that is not registered yet has an empty stream. *)
LEMMA EarlyEmpty ==
    ASSUME OrderInv, NEW c \in Subs, lpc[c] \in Early
    PROVE  /\ log[c] = <<>> /\ sent[c] = 0 /\ SubSeq(log[c], 1, sent[c]) = <<>>
           /\ c \notin conns /\ \A p \in Rangers : c \notin start[p]
  <1>1. c \notin conns /\ \A p \in Rangers : c \notin start[p] \cup seen[p]
    BY DEF OrderInv, CloseInv, EarlyUnknown
  <1>2. log[c] \in Seq(Msgs) /\ sent[c] \in Nat /\ sent[c] <= Len(log[c])
    BY DEF OrderInv, CloseInv, Typed, TypeOK, Queued
  <1>3. \A i \in DOMAIN log[c] : log[c][i] \in Msgs
    BY <1>2
  <1>4. DOMAIN log[c] = {}
    BY <1>1, <1>3 DEF OrderInv, LoggedSeen, Has, Rangers
  <1>5. Len(log[c]) = 0
    <2>1. DOMAIN log[c] = 1 .. Len(log[c]) /\ Len(log[c]) \in Nat
      BY <1>2, LenProperties
    <2>2. 1 \notin 1 .. Len(log[c])
      BY <1>4, <2>1
    <2> QED BY <2>1, <2>2
  <1>6. sent[c] = 0 /\ log[c] = <<>>
    BY <1>2, <1>5
  <1>7. SubSeq(log[c], 1, 0) = <<>>
    BY SubSeqEmpty
  <1> QED BY <1>1, <1>6, <1>7

LEMMA InitFeed == Init => Promise!Init
  <1> SUFFICES ASSUME Init PROVE Promise!Init
    OBVIOUS
  <1>1. Joined = {} /\ Live = {} /\ ~Quiet
    BY DEF Init, Joined, Live, Quiet, Serving, Leaving, Rangers
  <1>2. \A c \in Subs : SubSeq(log[c], 1, sent[c]) = <<>>
    <2>1. SubSeq(<<>>, 1, 0) = <<>>
      BY SubSeqEmpty
    <2> QED BY <2>1 DEF Init
  <1>3. Stream = [c \in Subs |-> <<>>] /\ sent = [c \in Subs |-> 0]
    BY <1>1, <1>2 DEF Stream, Init
  <1>4. Phase = [m \in Msgs |-> "new"]
    BY DEF Phase, Init, Rangers
  <1>5. Owed = [m \in Msgs |-> {}]
    BY <1>1 DEF Owed
  <1>6. closed = FALSE /\ Quiet = FALSE
    BY <1>1 DEF Init
  <1> QED BY <1>1, <1>3, <1>4, <1>5, <1>6 DEF Promise!Init
----------------------------------------------------------------------------
(* The mapping, step by step.                                              *)

(* A step of Listen that is neither a registration nor a delivery.         *)
LEMMA SocketClosed ==
    ASSUME NEW c \in Subs,
           Joined' = Joined, Live' = Live \ {c}, Phase' = Phase, Quiet' = Quiet,
           UNCHANGED <<log, sent, start, closed>>
    PROVE  Promise!Leave(c) \/ UNCHANGED feed
  <1>1. CASE c \in Live
    <2>1. Stream' = [Stream EXCEPT ![c] = SubSeq(@, 1, sent[c])]
      BY <1>1 DEF Stream
    <2>2. Owed' = [m \in Msgs |-> Owed[m] \ {c}]
      BY DEF Owed
    <2> QED BY <1>1, <2>1, <2>2 DEF Promise!Leave
  <1>2. CASE c \notin Live
    <2>1. Live' = Live
      BY <1>2
    <2>2. Stream' = Stream /\ Owed' = Owed
      BY <2>1 DEF Stream, Owed
    <2> QED BY <2>1, <2>2 DEF feed
  <1> QED BY <1>1, <1>2

LEMMA NothingMoved ==
    ASSUME UNCHANGED <<conns, ws, log, sent, start, closed>>,
           Joined' = Joined, Phase' = Phase, Quiet' = Quiet
    PROVE  UNCHANGED feed
  BY DEF Live, Stream, Owed, feed

(* The phase of a message, and whether Close has returned, follow the one  *)
(* call that moves.                                                        *)
LEMMA RangerMoved ==
    ASSUME OrderInv, NEW p \in Rangers, NEW to, rpc' = [rpc EXCEPT ![p] = to]
    PROVE  /\ p \in Closers => Phase' = Phase
           /\ p \in Msgs => Quiet' = Quiet
           /\ {rpc[p], to} \cap {"done"} = {} => Quiet' = Quiet
           /\ {rpc[p], to} \subseteq {"idle", "call"} => Phase' = Phase
           /\ {rpc[p], to} \subseteq {"range", "visit"} => Phase' = Phase
  <1>1. /\ rpc'[p] = to
        /\ \A q \in Rangers : q # p => rpc'[q] = rpc[q]
    BY DEF OrderInv, CloseInv, Typed, TypeOK
  <1>2. p \in Closers => Phase' = Phase
    BY <1>1, HubAssumption DEF Phase, Rangers
  <1>3. p \in Msgs => Quiet' = Quiet
    BY <1>1, HubAssumption DEF Quiet, Rangers
  <1>4. ASSUME rpc[p] # "done", to # "done" PROVE Quiet' = Quiet
    BY <1>1, <1>4 DEF Quiet, Rangers
  <1>5. ASSUME \/ {rpc[p], to} \subseteq {"idle", "call"}
               \/ {rpc[p], to} \subseteq {"range", "visit"}
        PROVE  Phase' = Phase
    BY <1>1, <1>5 DEF Phase, Rangers
  <1> QED BY <1>2, <1>3, <1>4, <1>5

LEMMA PhaseMoved ==
    ASSUME OrderInv, NEW m \in Msgs, NEW from, NEW to, GoR(m, from, to)
    PROVE  /\ from = "idle" /\ to = "skip" =>
                Phase[m] = "new" /\ Phase' = [Phase EXCEPT ![m] = "refused"]
           /\ from = "call" /\ to = "range" =>
                Phase[m] = "new" /\ Phase' = [Phase EXCEPT ![m] = "going"]
           /\ from = "range" /\ to = "done" =>
                Phase[m] = "going" /\ Phase' = [Phase EXCEPT ![m] = "done"]
           /\ from = "visit" => Phase[m] = "going"
  <1>1. /\ rpc[m] = from /\ rpc'[m] = to
        /\ \A x \in Msgs : x # m => rpc'[x] = rpc[x]
    BY DEF OrderInv, CloseInv, Typed, TypeOK, Rangers, GoR
  <1>2. CASE from = "idle" /\ to = "skip"
    BY <1>1, <1>2 DEF Phase
  <1>3. CASE from = "call" /\ to = "range"
    BY <1>1, <1>3 DEF Phase
  <1>4. CASE from = "range" /\ to = "done"
    BY <1>1, <1>4 DEF Phase
  <1>5. from = "visit" => Phase[m] = "going"
    BY <1>1 DEF Phase
  <1> QED BY <1>2, <1>3, <1>4, <1>5
(* Registering is joining; the connection may be dead by then.             *)
LEMMA StoreJoins ==
    ASSUME OrderInv, NEW c \in Subs, Store(c)
    PROVE  Promise!Join(c)
  <1>1. /\ lpc[c] = "store" /\ lpc' = [lpc EXCEPT ![c] = "recheck"]
        /\ conns' = conns \cup {c} /\ UNCHANGED <<closed, ws, log, sent, start, rpc>>
    BY DEF Store, GoL, out, rangeVars
  <1>2. /\ lpc'[c] = "recheck"
        /\ \A d \in Subs : d # c => lpc'[d] = lpc[d]
    BY <1>1 DEF OrderInv, CloseInv, Typed, TypeOK
  <1>3. c \notin Joined /\ Joined' = Joined \cup {c}
    BY <1>1, <1>2 DEF Joined, Serving, Leaving
  <1>4. /\ log[c] = <<>> /\ SubSeq(log[c], 1, sent[c]) = <<>>
        /\ c \notin conns /\ \A q \in Rangers : c \notin start[q]
    BY <1>1, EarlyEmpty DEF Early
  <1>5. Live' = Live \/ Live' = Live \cup {c}
    BY <1>1, <1>4 DEF Live
  <1>6. Stream' = Stream
    BY <1>1, <1>4, <1>5 DEF Stream
  <1>7. Owed' = Owed
    BY <1>1, <1>4, <1>5 DEF Owed, Rangers
  <1>8. Phase' = Phase /\ Quiet' = Quiet
    BY <1>1 DEF Phase, Quiet
  <1> QED BY <1>1, <1>3, <1>5, <1>6, <1>7, <1>8 DEF Promise!Join

(* A delivery is a read of the stream of a live subscriber.                *)
LEMMA WriteReads ==
    ASSUME OrderInv, NEW c \in Subs, WriteOk(c)
    PROVE  Promise!Read(c)
  <1>1. /\ lpc[c] = "write" /\ lpc' = [lpc EXCEPT ![c] = "select"] /\ ws[c] = "open"
        /\ sent' = [sent EXCEPT ![c] = @ + 1]
        /\ UNCHANGED <<closed, conns, ws, log, start, rpc>>
    BY DEF WriteOk, GoL, rangeVars
  <1>2. Joined' = Joined
    BY <1>1 DEF Joined, Serving, Leaving, OrderInv, CloseInv, Typed, TypeOK
  <1>3. c \in Live /\ Live' = Live
    BY <1>1 DEF Live, OrderInv, CloseInv, LoopRegistered, Registered, Serving
  <1>4. Stream' = Stream /\ Stream[c] = log[c]
    BY <1>1, <1>3 DEF Stream, OrderInv, CloseInv, Typed, TypeOK
  <1>5. sent[c] < Len(log[c])
    BY <1>1 DEF OrderInv, CloseInv, Typed, TypeOK, Holding, Queued
  <1>6. ~Quiet
    BY <1>1, CloseInvReaches DEF Quiet, CloseReachesAll, OrderInv, Serving
  <1>7. Owed' = Owed /\ Phase' = Phase /\ Quiet' = Quiet
    BY <1>1, <1>3 DEF Owed, Phase, Quiet
  <1> QED BY <1>1, <1>2, <1>3, <1>4, <1>5, <1>6, <1>7 DEF Promise!Read

LEMMA ListenFeeds ==
    ASSUME OrderInv, NEW c \in Subs, Enter(c) \/ Listen(c) \/ PeerGone(c)
    PROVE  \/ Promise!Join(c) \/ Promise!Leave(c) \/ Promise!Read(c)
           \/ UNCHANGED feed
  <1>1. CASE Store(c)
    BY <1>1, StoreJoins
  <1>2. CASE WriteOk(c)
    BY <1>2, WriteReads
  <1> DEFINE JumpOrTake ==
               \/ Enter(c) \/ AcceptErr(c) \/ Recheck(c) \/ Take(c) \/ WriteErr(c)
               \/ Tick(c) \/ PingOk(c) \/ PingErr(c) \/ CtxDone(c)
             Cut == Delete(c) \/ CloseOwn(c) \/ PeerGone(c)
  <1>3. ASSUME JumpOrTake \/ Cut \/ AcceptOk(c)
        PROVE  Joined' = Joined /\ Phase' = Phase /\ Quiet' = Quiet
    <2>1. UNCHANGED rpc
      BY <1>3 DEF Enter, AcceptErr, Recheck, Take, WriteErr, Tick, PingOk, PingErr, CtxDone,
            Delete, CloseOwn, PeerGone, AcceptOk, JumpL, rangeVars
    <2>2. /\ \A d \in Subs : d # c => lpc'[d] = lpc[d]
          /\ \/ lpc'[c] = lpc[c]
             \/ /\ lpc[c] \in {"idle", "accept"}
                /\ lpc'[c] \in {"refused", "accept", "failed", "store"}
             \/ /\ lpc[c] \in {"recheck", "delete", "closenow"} \cup Serving
                /\ lpc'[c] \in {"delete", "closenow", "done"} \cup Serving
      BY <1>3 DEF Enter, AcceptErr, Recheck, Take, WriteErr, Tick, PingOk, PingErr, CtxDone,
            Delete, CloseOwn, PeerGone, AcceptOk, JumpL, GoL, Serving, OrderInv, CloseInv,
            Typed, TypeOK
    <2>3. Joined' = Joined
      BY <2>2 DEF Joined, Serving, Leaving
    <2> QED BY <2>1, <2>3 DEF Phase, Quiet
  <1>4. CASE JumpOrTake
    <2>1. UNCHANGED <<conns, ws, log, sent, start, closed>>
      BY <1>4 DEF Enter, AcceptErr, Recheck, Take, WriteErr, Tick, PingOk, PingErr, CtxDone,
            JumpL, out, rangeVars
    <2> QED BY <1>3, <1>4, <2>1, NothingMoved
  <1>5. CASE Cut
    <2>1. UNCHANGED <<log, sent, start, closed>>
      BY <1>5 DEF Delete, CloseOwn, PeerGone, out, rangeVars
    <2>2. Live' = Live \ {c}
      BY <1>5 DEF Delete, CloseOwn, PeerGone, Live, OrderInv, CloseInv, Typed, TypeOK
    <2> QED BY <1>3, <1>5, <2>1, <2>2, SocketClosed
  <1>6. CASE AcceptOk(c)
    <2>1. /\ lpc[c] = "accept" /\ ws' = [ws EXCEPT ![c] = "open"]
          /\ UNCHANGED <<conns, log, sent, start, closed>>
      BY <1>6 DEF AcceptOk, GoL, out, rangeVars
    <2>2. Live' = Live
      BY <2>1, EarlyEmpty DEF Early, Live, OrderInv, CloseInv, Typed, TypeOK
    <2>3. Stream' = Stream /\ Owed' = Owed
      BY <2>1, <2>2 DEF Stream, Owed
    <2> QED BY <1>3, <1>6, <2>1, <2>2, <2>3 DEF feed
  <1> QED BY <1>1, <1>2, <1>4, <1>5, <1>6 DEF Listen

(* Broadcast begins a publication, or is refused; a Range's end returns it.*)
LEMMA CallFeeds ==
    ASSUME OrderInv, NEW p \in Rangers,
           \/ p \in Msgs /\ Broadcast(p)
           \/ p \in Closers /\ Close(p)
           \/ Iterate(p)
    PROVE  \/ p \in Msgs /\ (Promise!Begin(p) \/ Promise!Return(p) \/ Promise!Refuse(p))
           \/ Promise!Shut \/ Promise!Silence
           \/ UNCHANGED feed
  <1>0. /\ UNCHANGED <<conns, lpc, ws, log, sent>>
        /\ Joined' = Joined /\ Live' = Live /\ Stream' = Stream
    <2>1. UNCHANGED <<conns, lpc, ws, log, sent>>
      BY DEF Broadcast, Close, Iterate, RangeBegin, RangeNext, RangeEnd, out
    <2> QED BY <2>1 DEF Joined, Live, Stream
  <1>1. CASE p \in Msgs /\ Broadcast(p)
    <2>1. UNCHANGED <<closed, start>> /\ Owed' = Owed /\ Quiet' = Quiet
      BY <1>0, <1>1, RangerMoved DEF Broadcast, GoR, Owed
    <2>2. CASE closed
      <3>1. Phase[p] = "new" /\ Phase' = [Phase EXCEPT ![p] = "refused"]
        BY <1>1, <2>2, PhaseMoved DEF Broadcast
      <3> QED BY <1>0, <1>1, <2>1, <2>2, <3>1 DEF Promise!Refuse
    <2>3. CASE ~closed
      <3>1. rpc[p] = "idle" /\ rpc' = [rpc EXCEPT ![p] = "call"]
        BY <1>1, <2>3 DEF Broadcast, GoR
      <3>2. Phase' = Phase
        BY <3>1, RangerMoved
      <3> QED BY <1>0, <2>1, <3>2 DEF feed
    <2> QED BY <2>2, <2>3
  <1>2. CASE p \in Closers /\ Close(p)
    <2>1. /\ closed' = TRUE /\ start' = start /\ Owed' = Owed
          /\ rpc[p] = "idle"
          /\ \E to \in {"skip", "call"} : rpc' = [rpc EXCEPT ![p] = to]
      BY <1>0, <1>2 DEF Close, GoR, Owed
    <2>2. Phase' = Phase /\ Quiet' = Quiet
      BY <1>2, <2>1, RangerMoved
    <2> QED BY <1>0, <2>1, <2>2 DEF Promise!Shut
  <1>3. CASE RangeBegin(p)
    <2>1. /\ GoR(p, "call", "range") /\ start' = [start EXCEPT ![p] = conns]
          /\ UNCHANGED closed
      BY <1>3 DEF RangeBegin
    <2>2. Quiet' = Quiet
      BY <2>1, RangerMoved DEF GoR
    <2>3. CASE p \in Msgs
      <3>1. Owed' = [Owed EXCEPT ![p] = Live]
        BY <1>0, <2>1, <2>3 DEF Owed, Live, Rangers, OrderInv, CloseInv, Typed, TypeOK
      <3>2. Phase[p] = "new" /\ Phase' = [Phase EXCEPT ![p] = "going"]
        BY <2>1, <2>3, PhaseMoved
      <3> QED BY <1>0, <2>1, <2>2, <2>3, <3>1, <3>2 DEF Promise!Begin
    <2>4. CASE p \in Closers
      <3>1. Owed' = Owed
        BY <1>0, <2>1, <2>4, HubAssumption
           DEF Owed, Rangers, OrderInv, CloseInv, Typed, TypeOK
      <3>2. Phase' = Phase
        BY <2>1, <2>4, RangerMoved DEF GoR
      <3> QED BY <1>0, <2>1, <2>2, <3>1, <3>2 DEF feed
    <2> QED BY <2>3, <2>4 DEF Rangers
  <1>4. CASE RangeNext(p)
    <2>1. rpc[p] = "range" /\ rpc' = [rpc EXCEPT ![p] = "visit"] /\ UNCHANGED <<closed, start>>
      BY <1>4 DEF RangeNext, GoR
    <2>2. Phase' = Phase /\ Quiet' = Quiet
      BY <2>1, RangerMoved
    <2> QED BY <1>0, <2>1, <2>2, NothingMoved
  <1>5. CASE RangeEnd(p)
    <2>1. /\ GoR(p, "range", "done") /\ start[p] \cap conns \subseteq seen[p]
          /\ UNCHANGED <<closed, start>> /\ Owed' = Owed
      BY <1>0, <1>5 DEF RangeEnd, Owed
    <2>2. CASE p \in Msgs
      <3>1. Quiet' = Quiet /\ Phase[p] = "going" /\ Phase' = [Phase EXCEPT ![p] = "done"]
        BY <2>1, <2>2, RangerMoved, PhaseMoved DEF GoR
      <3>2. ASSUME NEW c \in Owed[p]
            PROVE  \E i \in DOMAIN Stream[c] : Stream[c][i] = p
        <4>1. c \in start[p] /\ c \in conns /\ ws[c] = "open" /\ c \in Live /\ c \in Subs
          BY <2>2 DEF Owed, Live, OrderInv, CloseInv, Typed, TypeOK
        <4>2. Has(c, p)
          BY <2>1, <2>2, <4>1 DEF OrderInv, SeenLogged, Visiting, GoR
        <4>3. Stream[c] = log[c]
          BY <4>1 DEF Stream
        <4> QED BY <4>2, <4>3 DEF Has
      <3> QED BY <1>0, <2>1, <2>2, <3>1, <3>2 DEF Promise!Return
    <2>3. CASE p \in Closers
      <3>1. Phase' = Phase /\ Quiet' = TRUE
        <4>1. rpc'[p] = "done"
          BY <2>1 DEF GoR, OrderInv, CloseInv, Typed, TypeOK
        <4> QED BY <2>1, <2>3, <4>1, RangerMoved DEF GoR, Quiet
      <3>2. closed
        BY <2>1, <2>3 DEF GoR, OrderInv, CloseInv, StartedClosed, Ranging
      <3> QED BY <1>0, <2>1, <3>1, <3>2 DEF Promise!Silence
    <2> QED BY <2>2, <2>3 DEF Rangers
  <1> QED BY <1>1, <1>2, <1>3, <1>4, <1>5 DEF Iterate

(* A callback assigns a message to a stream, or makes its subscriber leave.*)
LEMMA VisitFeeds ==
    ASSUME OrderInv, NEW p \in Rangers,
           (p \in Msgs /\ Offer(p)) \/ (p \in Closers /\ Hangup(p))
    PROVE  \/ \E c \in Subs : p \in Msgs /\ Promise!Assign(c, p)
           \/ \E c \in Subs : Promise!Leave(c)
           \/ UNCHANGED feed
  <1>1. /\ GoR(p, "visit", "range") /\ UNCHANGED <<closed, conns, lpc, sent, start>>
    BY DEF Offer, Hangup, Visit
  <1>2. PICK d \in Subs : d = at[p]
    BY <1>1 DEF GoR, OrderInv, CloseInv, Typed, TypeOK
  <1>3. Joined' = Joined /\ Phase' = Phase /\ Quiet' = Quiet
    BY <1>1, RangerMoved DEF GoR, Joined
  <1>4. CASE log' = log /\ ws' = [ws EXCEPT ![d] = "closed"]
    <2>1. Live' = Live \ {d}
      BY <1>1, <1>4 DEF Live, OrderInv, CloseInv, Typed, TypeOK
    <2> QED BY <1>1, <1>3, <1>4, <2>1, SocketClosed
  <1>5. CASE p \in Msgs /\ ws' = ws /\ log' = [log EXCEPT ![d] = Append(@, p)]
    <2>1. Live' = Live /\ Owed' = Owed
      BY <1>1, <1>5 DEF Live, Owed
    <2>2. log[d] \in Seq(Msgs) /\ sent[d] \in 0 .. Len(log[d])
      BY DEF OrderInv, CloseInv, Typed, TypeOK, Queued
    <2>3. CASE d \in Live
      <3>1. Stream' = [Stream EXCEPT ![d] = Append(@, p)] /\ Stream[d] = log[d]
        BY <1>1, <1>5, <2>1, <2>3 DEF Stream, OrderInv, CloseInv, Typed, TypeOK
      <3>2. \A i \in DOMAIN log[d] : log[d][i] # p
        BY <1>1, <1>2, <1>5 DEF OrderInv, LoggedSeen, Has, Visiting, GoR
      <3>3. Phase[p] = "going"
        BY <1>1, <1>5, PhaseMoved
      <3>4. Promise!Assign(d, p)
        BY <1>1, <1>3, <2>1, <2>3, <3>1, <3>2, <3>3 DEF Promise!Assign
      <3> QED BY <1>5, <3>4
    <2>4. CASE d \notin Live
      <3>1. SubSeq(Append(log[d], p), 1, sent[d]) = SubSeq(log[d], 1, sent[d])
        BY <1>5, <2>2, PrefixOfAppend
      <3>2. Stream' = Stream
        BY <1>1, <1>5, <2>1, <2>4, <3>1 DEF Stream, OrderInv, CloseInv, Typed, TypeOK
      <3> QED BY <1>1, <1>3, <2>1, <3>2 DEF feed
    <2> QED BY <2>3, <2>4
  <1> QED BY <1>2, <1>4, <1>5 DEF Offer, Hangup, Send, Evict

LEMMA NextFeeds == OrderInv /\ [Next]_vars => [Promise!Next]_Promise!fvars
  <1> SUFFICES ASSUME OrderInv, [Next]_vars PROVE Promise!Next \/ UNCHANGED feed
    BY DEF feed, Promise!fvars
  <1>1. CASE UNCHANGED vars
    BY <1>1, NothingMoved DEF vars, out, rangeVars, Joined, Phase, Quiet
  <1>2. ASSUME NEW c \in Subs, Enter(c) \/ Listen(c) \/ PeerGone(c)
        PROVE  Promise!Next \/ UNCHANGED feed
    BY <1>2, ListenFeeds DEF Promise!Next
  <1>3. ASSUME NEW p \in Rangers,
               \/ p \in Msgs /\ (Broadcast(p) \/ Offer(p))
               \/ p \in Closers /\ (Close(p) \/ Hangup(p))
               \/ Iterate(p)
        PROVE  Promise!Next \/ UNCHANGED feed
    BY <1>3, CallFeeds, VisitFeeds DEF Promise!Next
  <1> QED BY <1>1, <1>2, <1>3 DEF Next, Rangers

(* The hub implements Feed: whatever the interleaving, a Broadcast returns *)
(* only when every subscriber it owes the message has it or has left, and  *)
(* streams are read in order and without gaps until the feed is silent.    *)
THEOREM FeedCorrect == Spec => FeedSpec
  <1>1. FeedSpec <=> Promise!Spec
    BY DEF FeedSpec
  <1> QED BY <1>1, InitFeed, NextFeeds, AlwaysOrderInv, PTL DEF Spec, Promise!Spec
=============================================================================
