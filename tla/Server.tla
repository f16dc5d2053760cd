------------------------------- MODULE Server -------------------------------
(***************************************************************************)
(* The life of the server once it listens (cli/main.go:157-188): requests  *)
(* on net/http's goroutines, the hub some of them use, the signal, the     *)
(* graceful shutdown and what it does to whatever is still in flight.      *)
(*                                                                         *)
(* The hub is an instance of Hub with the same variables: a request to     *)
(* /gateway is a call of Listen, a message posted to /queue that gets      *)
(* through to Send a call of Broadcast, and main makes the only call of    *)
(* Close.                                                                  *)
(***************************************************************************)
EXTENDS Integers, Sequences

CONSTANTS
    Subs,    \* requests to /gateway
    Msgs,    \* requests to any other route, messages to /queue among them
    Cap, None

Closers == {"main"}

ASSUME ServerAssumption ==
    /\ "main" \notin Msgs
    /\ Cap \in Nat \ {0}
    /\ None \notin Subs

VARIABLES
    closed, conns, lpc, ws, log, taken, sent,  \* the hub's
    rpc, start, seen, at, prior,
    pc,      \* where main is
    end,     \* how it came to stop serving
    open,    \* the clients of Redis and of the database are not closed
    req,     \* req[r]: where the request is, or how it was answered
    cut,     \* the requests whose connection Server.Close has closed
    there,   \* history: the subscribers live when the message was sent
    after    \* history: the messages answered 202 when it was sent

H == INSTANCE HubProperties

hub == <<closed, conns, lpc, ws, log, taken, sent, rpc, start, seen, at, prior>>
history == <<there, after>>
main == <<pc, end, open>>
requests == <<req, cut, history>>
vars == <<hub, main, requests>>


Init ==
    /\ H!Init
    /\ pc = "serve" /\ end = "none" /\ open = TRUE
    /\ req = [m \in Msgs |-> "none"]
    /\ cut = {}
    /\ there = [m \in Msgs |-> {}] /\ after = [m \in Msgs |-> {}]

Running == pc # "exited"   \* os.Exit ends every goroutine

----------------------------------------------------------------------------
(* Requests.                                                               *)

(* Shutdown closes the listener and the idle connections; a request may    *)
(* still come over a connection that is neither until Shutdown has found   *)
(* none of them left.  An error of Serve leaves the connections be.        *)
Reachable == pc \in {"serve", "close", "shutdown"} \/ (Running /\ end = "error")

(* The handler's goroutine holds a connection that Shutdown waits for.  A  *)
(* WebSocket is hijacked in the handshake and counts no more.              *)
InFlight(r) == req[r] \in {"admit", "work"}
Active == \/ \E r \in Msgs : InFlight(r)
          \/ \E c \in Subs : lpc[c] = "accept"

Move(r, from, to) == req[r] = from /\ req' = [req EXCEPT ![r] = to]

(* What the client sees of an answer. *)
Reply(r, from, answer) == Move(r, from, IF r \in cut THEN "lost" ELSE answer)

Arrive(m) ==
    /\ Reachable
    /\ Move(m, "none", "admit")
    /\ there' = [there EXCEPT ![m] = H!Live]
    /\ after' = [after EXCEPT ![m] = {x \in Msgs : req[x] = "202"}]
    /\ UNCHANGED <<hub, main, cut>>

(* The middlewares look the caller up in the stores, which main may have   *)
(* closed already: the request reaches its handler or is refused.          *)
Admit(m) ==
    /\ Running
    /\ \/ Move(m, "admit", "work") \/ Reply(m, "admit", "other")
       \/ ~open /\ Reply(m, "admit", "no store")
    /\ UNCHANGED <<hub, main, cut, history>>

(* A handler that broadcasts nothing ends when Mojang lets it, which may   *)
(* be never; it may need a store for what follows.                         *)
Finish(m) ==
    /\ Running /\ rpc[m] = "idle"
    /\ Reply(m, "work", "other") \/ (~open /\ Reply(m, "work", "no store"))
    /\ UNCHANGED <<hub, main, cut, history>>

(* Send calls Broadcast. *)
Broadcast(m) ==
    /\ Running /\ req[m] = "work"
    /\ H!Broadcast(m)
    /\ UNCHANGED <<main, requests>>

(* Slip: Send answers without waiting for its Broadcast. *)
AcceptEarly(m) ==
    /\ Running
    /\ rpc[m] # "idle"
    /\ Reply(m, "work", "202")
    /\ UNCHANGED <<hub, main, cut, history>>

(* Send answers once Broadcast has returned, whatever became of it. *)
Accept(m) ==
    /\ Running
    /\ rpc[m] \in {"skip", "done"}
    /\ Reply(m, "work", "202")
    /\ UNCHANGED <<hub, main, cut, history>>

Subscribe(c) == Running /\ Reachable /\ H!Enter(c) /\ UNCHANGED <<main, requests>>

(* What the goroutines in the hub, and the peers, do. *)
HubStep ==
    /\ Running
    /\ \/ \E c \in Subs : H!Listen(c) \/ H!PeerGone(c)
       \/ \E m \in Msgs : H!Iterate(m) \/ H!Offer(m)
    /\ UNCHANGED <<main, requests>>

----------------------------------------------------------------------------
(* main.                                                                   *)
Go(from, to) == pc = from /\ pc' = to
Stop(how) == end' = how /\ UNCHANGED <<hub, open, req, history>>

(* case err := <-serveErr: the deferred calls, and nothing else. *)
ServeFails == Go("serve", "defers") /\ Stop("error") /\ UNCHANGED cut

(* Slip: the hub is left to the end of the process. *)
SignalNoClose == Go("serve", "shutdown") /\ UNCHANGED <<hub, end, open, requests>>

(* case <-ctx.Done() *)
Signal == Go("serve", "close") /\ UNCHANGED <<hub, end, open, requests>>

(* deps.BSI.Close(): the call and its iteration. *)
CloseHub ==
    /\ pc = "close"
    /\ H!Close("main") \/ H!Iterate("main") \/ H!Hangup("main")
    /\ UNCHANGED <<main, requests>>

HubClosed ==
    /\ rpc["main"] = "done"
    /\ Go("close", "shutdown")
    /\ UNCHANGED <<hub, end, open, requests>>

(* Slip: Shutdown stops the listener and waits for nobody. *)
ShutdownWaitsNot == Go("shutdown", "defers") /\ Stop("clean") /\ UNCHANGED cut

(* Shutdown returns nil when it finds no active connection. *)
ShutdownOk ==
    /\ ~Active
    /\ Go("shutdown", "defers") /\ Stop("clean") /\ UNCHANGED cut

(* Slip: Shutdown is given a context without a deadline. *)
ShutdownNever == FALSE /\ UNCHANGED vars

(* Its ten seconds are over: Server.Close cuts the active connections and  *)
(* leaves their goroutines running.                                        *)
ShutdownLate ==
    /\ Go("shutdown", "defers") /\ Stop("late")
    /\ cut' = {r \in Msgs : InFlight(r)}

(* The deferred calls close Redis and the database, waiting for nobody.    *)
CloseStores ==
    /\ Go("defers", "exit")
    /\ open' = FALSE
    /\ UNCHANGED <<hub, end, requests>>

Exit == Go("exit", "exited") /\ UNCHANGED <<hub, end, open, requests>>

Main ==
    \/ CloseHub \/ HubClosed \/ ShutdownOk \/ ShutdownLate \/ CloseStores \/ Exit

Next ==
    \/ \E m \in Msgs :
          Arrive(m) \/ Admit(m) \/ Finish(m) \/ Broadcast(m) \/ Accept(m)
    \/ \E c \in Subs : Subscribe(c)
    \/ HubStep
    \/ Signal \/ ServeFails \/ Main

Spec == Init /\ [][Next]_vars

(* Once the signal has come main is scheduled and its timer runs.  Nothing *)
(* is assumed about the goroutines of the requests: they may all be stuck. *)
FairSpec == Spec /\ WF_vars(Main)
=============================================================================
