-------------------------------- MODULE Hub --------------------------------
(***************************************************************************)
(* The subscriber hub of shared/gateway/ws_hub.go.                         *)
(*                                                                         *)
(* Three kinds of goroutine share one Hub: a call of Listen per WebSocket  *)
(* subscriber, a call of Broadcast per accepted message, and the call of   *)
(* Close made at shutdown.  Each atomic access to shared memory (the       *)
(* `closed` flag, the sync.Map `conns`, a connection's channel or socket)  *)
(* is a step of its own, so every interleaving of them is a behaviour.     *)
(*                                                                         *)
(* A channel is an immutable queue: log[c] is every message ever sent on   *)
(* c.out, of which the loop has received the first taken[c] and conn.Write *)
(* delivered the first sent[c] to the peer.                                *)
(***************************************************************************)
EXTENDS Integers, Sequences

CONSTANTS
    Subs,     \* the calls of Listen: one *connection each
    Msgs,     \* the calls of Broadcast: one message with a fresh ID each
    Closers,  \* the calls of Close
    Cap,      \* capacity of connection.out
    None      \* "no connection"

ASSUME HubAssumption ==
    /\ Cap \in Nat \ {0}
    /\ Msgs \cap Closers = {}
    /\ None \notin Subs

VARIABLES
    closed,   \* Hub.closed
    conns,    \* the keys of Hub.conns
    lpc,      \* lpc[c]: where the call of Listen is
    ws,       \* ws[c]: the WebSocket connection.conn
    log, taken, sent,
    rpc,      \* rpc[p]: where the call of Broadcast or Close is
    start,    \* start[p]: the keys of conns when p's Range began
    seen,     \* seen[p]: the keys p's Range has visited
    at,       \* at[p]: the key whose callback is running
    prior     \* history: the broadcasts that had returned when m was called

out == <<log, taken, sent>>
rangeVars == <<rpc, start, seen, at, prior>>
vars == <<closed, conns, lpc, ws, out, rangeVars>>

Rangers == Msgs \cup Closers    \* the calls that iterate over Hub.conns

Serving == {"select", "write", "ping"}      \* Listen is in its loop
Leaving == {"delete", "closenow", "done"}   \* it is past it, or skipped it

Queued(c) == Len(log[c]) - taken[c]         \* len(c.out)

Init ==
    /\ closed = FALSE
    /\ conns = {}
    /\ lpc = [c \in Subs |-> "idle"]
    /\ ws = [c \in Subs |-> "none"]
    /\ log = [c \in Subs |-> <<>>]
    /\ taken = [c \in Subs |-> 0]
    /\ sent = [c \in Subs |-> 0]
    /\ rpc = [p \in Rangers |-> "idle"]
    /\ start = [p \in Rangers |-> {}]
    /\ seen = [p \in Rangers |-> {}]
    /\ at = [p \in Rangers |-> None]
    /\ prior = [m \in Msgs |-> {}]

GoL(c, from, to) == lpc[c] = from /\ lpc' = [lpc EXCEPT ![c] = to]
GoR(p, from, to) == rpc[p] = from /\ rpc' = [rpc EXCEPT ![p] = to]

(* A step of Listen that touches nothing shared. *)
JumpL(c, from, to) ==
    GoL(c, from, to) /\ UNCHANGED <<closed, conns, ws, out, rangeVars>>

----------------------------------------------------------------------------
(* Listen.                                                                 *)

(* The first load of closed: 503 when the hub has been shut. *)
Enter(c) == JumpL(c, "idle", IF closed THEN "refused" ELSE "accept")

(* The handshake succeeds and connection.conn is assigned, or it fails and *)
(* Listen returns with nothing registered.                                 *)
AcceptOk(c) ==
    /\ GoL(c, "accept", "store")
    /\ ws' = [ws EXCEPT ![c] = "open"]
    /\ UNCHANGED <<closed, conns, out, rangeVars>>

AcceptErr(c) == JumpL(c, "accept", "failed")

Store(c) ==
    /\ GoL(c, "store", "recheck")
    /\ conns' = conns \cup {c}
    /\ UNCHANGED <<closed, ws, out, rangeVars>>

(* Slip: no second load of closed. *)
RecheckSkipped(c) == JumpL(c, "recheck", "select")

(* The second load of closed, after the Store. *)
Recheck(c) == JumpL(c, "recheck", IF closed THEN "delete" ELSE "select")

(* Slip: the last message of a channel is never received. *)
TakeLate(c) ==
    /\ GoL(c, "select", "write")
    /\ Queued(c) > 1
    /\ taken' = [taken EXCEPT ![c] = @ + 1]
    /\ UNCHANGED <<closed, conns, ws, log, sent, rangeVars>>

(* case data := <-cn.out *)
Take(c) ==
    /\ GoL(c, "select", "write")
    /\ Queued(c) > 0
    /\ taken' = [taken EXCEPT ![c] = @ + 1]
    /\ UNCHANGED <<closed, conns, ws, log, sent, rangeVars>>

(* conn.Write succeeds only on a socket nobody has closed; it fails at any *)
(* time, since the peer may stall beyond the five seconds of writeCtx.     *)
WriteOk(c) ==
    /\ GoL(c, "write", "select")
    /\ ws[c] = "open"
    /\ sent' = [sent EXCEPT ![c] = @ + 1]
    /\ UNCHANGED <<closed, conns, ws, log, taken, rangeVars>>

(* Slip: the loop goes on after a write that failed. *)
WriteErrIgnored(c) == JumpL(c, "write", "select")

WriteErr(c) == JumpL(c, "write", "delete")

(* case <-ticker.C, and the ping with its own five seconds. *)
Tick(c) == JumpL(c, "select", "ping")
PingOk(c) == ws[c] = "open" /\ JumpL(c, "ping", "select")
PingErr(c) == JumpL(c, "ping", "delete")

(* case <-ctx.Done(): the context of CloseRead ends with the socket. *)
CtxDone(c) == ws[c] = "closed" /\ JumpL(c, "select", "delete")

(* Slip: the cleanup closes the socket and leaves the key in the map. *)
DeleteSkipped(c) == JumpL(c, "delete", "closenow")

(* The deferred cleanup: h.conns.Delete(cn), then conn.CloseNow(). *)
Delete(c) ==
    /\ GoL(c, "delete", "closenow")
    /\ conns' = conns \ {c}
    /\ UNCHANGED <<closed, ws, out, rangeVars>>

CloseOwn(c) ==
    /\ GoL(c, "closenow", "done")
    /\ ws' = [ws EXCEPT ![c] = "closed"]
    /\ UNCHANGED <<closed, conns, out, rangeVars>>

(* The peer leaves, or sends what the reader of CloseRead does not take. *)
PeerGone(c) ==
    /\ ws[c] = "open"
    /\ ws' = [ws EXCEPT ![c] = "closed"]
    /\ UNCHANGED <<closed, conns, lpc, out, rangeVars>>

----------------------------------------------------------------------------
(* Broadcast and Close.  sync.Map.Range visits no key twice, visits every  *)
(* key present from its beginning to its end, and may or may not visit one *)
(* stored or deleted meanwhile; it loads a key in one step and runs the    *)
(* callback in a later one, when the key may be gone.                      *)

(* The load of closed: a message for a shut hub is dropped silently. *)
Broadcast(m) ==
    /\ GoR(m, "idle", IF closed THEN "skip" ELSE "call")
    /\ prior' = [prior EXCEPT ![m] = {x \in Msgs : rpc[x] = "done"}]
    /\ UNCHANGED <<closed, conns, lpc, ws, out, start, seen, at>>

(* CompareAndSwap(false, true): only its first caller iterates. *)
Close(k) ==
    /\ GoR(k, "idle", IF closed THEN "skip" ELSE "call")
    /\ closed' = TRUE
    /\ UNCHANGED <<conns, lpc, ws, out, start, seen, at, prior>>

RangeBegin(p) ==
    /\ GoR(p, "call", "range")
    /\ start' = [start EXCEPT ![p] = conns]
    /\ UNCHANGED <<closed, conns, lpc, ws, out, seen, at, prior>>

(* Slip: an iteration that may come back to a key. *)
RangeNextAgain(p) == \E c \in conns :
    /\ GoR(p, "range", "visit")
    /\ at' = [at EXCEPT ![p] = c]
    /\ seen' = [seen EXCEPT ![p] = @ \cup {c}]
    /\ UNCHANGED <<closed, conns, lpc, ws, out, start, prior>>

RangeNext(p) == \E c \in conns \ seen[p] :
    /\ GoR(p, "range", "visit")
    /\ at' = [at EXCEPT ![p] = c]
    /\ seen' = [seen EXCEPT ![p] = @ \cup {c}]
    /\ UNCHANGED <<closed, conns, lpc, ws, out, start, prior>>

RangeEnd(p) ==
    /\ GoR(p, "range", "done")
    /\ start[p] \cap conns \subseteq seen[p]
    /\ UNCHANGED <<closed, conns, lpc, ws, out, start, seen, at, prior>>

(* c.out <- m, and whether m and the connection survive when it is full. *)
Send(m, c) == log' = [log EXCEPT ![c] = Append(@, m)] /\ UNCHANGED ws
Evict(c) == ws' = [ws EXCEPT ![c] = "closed"] /\ UNCHANGED log
Visit(p) ==
    /\ GoR(p, "visit", "range")
    /\ at' = [at EXCEPT ![p] = None]
    /\ UNCHANGED <<closed, conns, lpc, taken, sent, start, seen, prior>>

(* Slips: drop the message and keep the slow subscriber; wait for room;    *)
(* let the channel grow past its capacity.                                 *)
OfferDrops(m) == Visit(m)
    /\ IF Queued(at[m]) < Cap THEN Send(m, at[m]) ELSE UNCHANGED <<log, ws>>
OfferBlocks(m) == Visit(m) /\ Queued(at[m]) < Cap /\ Send(m, at[m])
OfferOverfills(m) == Visit(m)
    /\ IF Queued(at[m]) <= Cap THEN Send(m, at[m]) ELSE Evict(at[m])

(* Broadcast's callback: a send that never waits.  A subscriber whose      *)
(* channel is full loses its connection, never just the message.           *)
Offer(m) == Visit(m)
    /\ IF Queued(at[m]) < Cap THEN Send(m, at[m]) ELSE Evict(at[m])

(* Close's callback: conn.CloseNow(). *)
Hangup(k) == Visit(k) /\ Evict(at[k])

----------------------------------------------------------------------------
(* What the goroutine of a call of Listen does once it runs. *)
Listen(c) ==
    \/ AcceptOk(c) \/ AcceptErr(c) \/ Store(c) \/ Recheck(c)
    \/ Take(c) \/ WriteOk(c) \/ WriteErr(c)
    \/ Tick(c) \/ PingOk(c) \/ PingErr(c)
    \/ CtxDone(c) \/ Delete(c) \/ CloseOwn(c)

Iterate(p) == RangeBegin(p) \/ RangeNext(p) \/ RangeEnd(p)

Next ==
    \/ \E c \in Subs : Enter(c) \/ Listen(c) \/ PeerGone(c)
    \/ \E m \in Msgs : Broadcast(m) \/ Offer(m)
    \/ \E k \in Closers : Close(k) \/ Hangup(k)
    \/ \E p \in Rangers : Iterate(p)

Spec == Init /\ [][Next]_vars

(* A goroutine that can run does run: those that iterate, and those of     *)
(* Listen, whose two external calls are bounded by their five-second       *)
(* contexts.  Nothing makes a client connect, a message arrive, Close be   *)
(* called or a peer leave.  A ticker that fires every thirty seconds       *)
(* cannot win the select for ever against a waiting message: the receive   *)
(* is strongly fair.                                                       *)
RangeFair ==
    /\ \A p \in Rangers : WF_vars(Iterate(p))
    /\ \A m \in Msgs : WF_vars(Offer(m))
    /\ \A k \in Closers : WF_vars(Hangup(k))
ListenFair == \A c \in Subs : WF_vars(Listen(c)) /\ SF_vars(Take(c))

(* The broadcasters are scheduled; a property that needs the subscribers'  *)
(* loops to run as well assumes ListenFair.                                *)
FairSpec == Spec /\ RangeFair
=============================================================================
