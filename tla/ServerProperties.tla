-------------------------- MODULE ServerProperties --------------------------
(***************************************************************************)
(* What a client may rely on from the answer to a request, and how the     *)
(* server stops.                                                           *)
(***************************************************************************)
EXTENDS Server

(* Types; a message is in the hub only once it is admitted, and answered   *)
(* 202 only once its Broadcast has returned.                               *)
TypeOK ==
    /\ H!TypeOK
    /\ pc \in {"serve", "close", "shutdown", "defers", "exit", "exited"}
    /\ end \in {"none", "clean", "late", "error"}
    /\ open \in BOOLEAN
    /\ req \in [Msgs -> {"none", "admit", "work", "202", "other", "no store", "lost"}]
    /\ cut \in SUBSET Msgs
    /\ there \in [Msgs -> SUBSET Subs] /\ after \in [Msgs -> SUBSET Msgs]
    /\ \A m \in Msgs : /\ rpc[m] # "idle" => req[m] \notin {"none", "admit"}
                       /\ req[m] = "202" => rpc[m] \in {"skip", "done"}

(* A message that was answered 202 is in the stream of every subscriber    *)
(* that was live when it was sent and still is; unless the signal has come *)
(* and it met a hub that was shut (queue.go:119-121, ws_hub.go:90-93).     *)
AcceptedIsBroadcast ==
    \A m \in Msgs : req[m] = "202" =>
        \/ rpc[m] = "skip" /\ pc # "serve" /\ end # "error"
        \/ \A c \in there[m] \cap H!Live : \E i \in DOMAIN log[c] : log[c][i] = m

(* Whoever sends a message after another was answered 202 is read after it *)
(* by every subscriber that is given both (queue.go:119-121).              *)
AnsweredInOrder ==
    \A c \in Subs : \A i, j \in DOMAIN log[c] :
        i < j => log[c][j] \notin after[log[c][i]]

(* Nobody is given a message without having been given, before it, every   *)
(* message that was answered 202 before it was sent and that they were     *)
(* live for: not even who is cut off or leaves on the way, and not during  *)
(* the shutdown (queue.go:119-121, ws_hub.go:90-105).                      *)
AcceptedNoGap ==
    \A m2 \in Msgs : \A m1 \in after[m2] : \A c \in there[m1] :
        \A j \in 1 .. sent[c] : log[c][j] = m2 =>
            \E i \in 1 .. (j - 1) : log[c][i] = m1

(* A request that was accepted before Shutdown returned, even during the   *)
(* shutdown, is neither cut off nor left without a store, unless the ten   *)
(* seconds pass or Serve itself fails (main.go:85-112, main.go:175-184).   *)
Graceful ==
    (\E r \in Msgs : \/ req[r] \in {"no store", "lost"}
                     \/ (pc = "exited" /\ InFlight(r)))
        => end \in {"late", "error"}

(* After a signal no subscriber is still being served by the time Shutdown *)
(* starts, though Shutdown itself waits for no WebSocket (main.go:173).    *)
SubscribersToldFirst ==
    pc # "serve" /\ end # "error" /\ pc # "close" =>
        \A c \in Subs : lpc[c] \in H!Serving => ws[c] = "closed"

(* The signal ends the process, even if every handler hangs in Mojang's    *)
(* http.DefaultClient and no subscriber's loop ever runs (client.go:32,    *)
(* main.go:175).                                                           *)
ExitsAfterSignal == (pc = "close") ~> (pc = "exited")
=============================================================================
