--------------------------- MODULE HubProperties ---------------------------
(***************************************************************************)
(* What Listen, Broadcast and Close of shared/gateway/ws_hub.go guarantee  *)
(* together, and the refinement of Feed.                                   *)
(***************************************************************************)
EXTENDS Hub

(* The messages the peer of c has been given. *)
Delivered(c) == {log[c][i] : i \in 1 .. sent[c]}

(* Types; a channel holds at most Cap messages, the loop receives before   *)
(* it writes, and a running callback has a key.                            *)
TypeOK ==
    /\ closed \in BOOLEAN
    /\ conns \in SUBSET Subs
    /\ lpc \in [Subs -> {"idle", "accept", "store", "recheck", "refused",
                         "failed"} \cup Serving \cup Leaving]
    /\ ws \in [Subs -> {"none", "open", "closed"}]
    /\ log \in [Subs -> Seq(Msgs)]
    /\ taken \in [Subs -> Nat]
    /\ sent \in [Subs -> Nat]
    /\ rpc \in [Rangers -> {"idle", "skip", "call", "range", "visit", "done"}]
    /\ start \in [Rangers -> SUBSET Subs]
    /\ seen \in [Rangers -> SUBSET Subs]
    /\ at \in [Rangers -> Subs \cup {None}]
    /\ \A p \in Rangers : rpc[p] = "visit" => at[p] \in Subs
    /\ prior \in [Msgs -> SUBSET Msgs]
    /\ \A c \in Subs : sent[c] <= taken[c] /\ Queued(c) \in 0 .. Cap

(* A subscriber whose write failed is written to no more: what its peer    *)
(* has been given is always a prefix of what its channel was sent, with no *)
(* message missing in the middle (ws_hub.go:74-76).                        *)
PrefixDelivered ==
    \A c \in Subs :
        \/ taken[c] = sent[c]
        \/ taken[c] = sent[c] + 1 /\ lpc[c] \in {"write"} \cup Leaving

(* Once Close has returned, no Listen loop serves an open socket: each one *)
(* was either visited by Close's Range or saw the flag when it loaded it   *)
(* the second time, after registering (ws_hub.go:50-59).                   *)
CloseReachesAll ==
    (\E k \in Closers : rpc[k] = "done") =>
        \A c \in Subs : lpc[c] \in Serving => ws[c] = "closed"

(* No message reaches a peer after Close has returned. *)
QuietAfterClose ==
    [][(\E k \in Closers : rpc[k] = "done") => sent' = sent]_vars

(* When a Broadcast that iterated has returned, every subscriber that was  *)
(* registered when it began, and still is with a live socket, has the      *)
(* message in its channel or already beyond it.                            *)
BroadcastReachesAll ==
    \A m \in Msgs : rpc[m] = "done" =>
        \A c \in start[m] \cap conns :
            ws[c] = "open" => \E i \in DOMAIN log[c] : log[c][i] = m

(* No subscriber has a gap.  If m1's Broadcast had returned before m2's    *)
(* was called, and c was registered when m1's began, then c is given m2    *)
(* only after it was given m1: the slow subscriber is cut off rather than  *)
(* skipped over (ws_hub.go:101-105).                                       *)
NoGap ==
    \A m2 \in Msgs : \A m1 \in prior[m2] : \A c \in start[m1] :
        \A j \in 1 .. sent[c] : log[c][j] = m2 =>
            \E i \in 1 .. (j - 1) : log[c][i] = m1

(* Two subscribers that are both given two broadcasts, one of which had    *)
(* returned before the other was called, are given them in that order; and *)
(* nobody is given the same message twice.                                 *)
OrderedOnce ==
    \A c \in Subs : \A i, j \in DOMAIN log[c] : i < j =>
        /\ log[c][i] # log[c][j]
        /\ log[c][j] \notin prior[log[c][i]]

(* A subscriber whose socket is gone is forgotten and its goroutine ends. *)
DeadLeave == ListenFair =>
    \A c \in Subs : (ws[c] = "closed") ~> (lpc[c] = "done" /\ c \notin conns)

(* After Close every subscriber leaves and the map becomes empty for good. *)
CloseDrains == ListenFair => closed ~> [](conns = {})

(* A message accepted into a channel is delivered, or its subscriber       *)
(* leaves.                                                                 *)
QueueDrains == ListenFair =>
    \A c \in Subs, m \in Msgs :
        (\E i \in DOMAIN log[c] : log[c][i] = m)
            ~> (m \in Delivered(c) \/ lpc[c] \in Leaving)

(* Broadcast returns even if no subscriber's loop ever runs: it never      *)
(* waits for one, dead or slow (ws_hub.go:101-105).                        *)
BroadcastReturns ==
    \A m \in Msgs : (rpc[m] = "call") ~> (rpc[m] = "done")

(* The refinement.  A subscriber is live while it is registered with an    *)
(* open socket; what a dead one had not been given is lost.                *)
Joined == {c \in Subs : lpc[c] \in {"recheck"} \cup Serving \cup Leaving}
Live == {c \in conns : ws[c] = "open"}
Stream == [c \in Subs |-> IF c \in Live THEN log[c] ELSE SubSeq(log[c], 1, sent[c])]
Phase == [m \in Msgs |-> CASE rpc[m] \in {"idle", "call"} -> "new"
                           [] rpc[m] \in {"range", "visit"} -> "going"
                           [] rpc[m] = "done" -> "done"
                           [] OTHER -> "refused"]
Owed == [m \in Msgs |-> start[m] \cap Live]
Quiet == \E k \in Closers : rpc[k] = "done"

Promise == INSTANCE Feed WITH
    joined <- Joined, live <- Live, stream <- Stream, read <- sent,
    phase <- Phase, owed <- Owed, shut <- closed, quiet <- Quiet

(* The hub keeps the promise of Feed. *)
FeedSpec == Promise!Spec
=============================================================================
