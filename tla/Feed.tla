-------------------------------- MODULE Feed --------------------------------
(***************************************************************************)
(* What the hub promises, without channels, sockets or iteration: a feed   *)
(* whose publish operation returns only when every subscriber that was     *)
(* there when it began has the message in its stream or has left, whose    *)
(* subscribers read their streams in order and without gaps, and which     *)
(* falls silent once it has been shut.                                     *)
(***************************************************************************)
EXTENDS Integers, Sequences

CONSTANTS Subs, Msgs

VARIABLES
    joined,  \* everyone who ever subscribed; nobody comes back
    live,    \* those of them the feed still owes messages to
    stream,  \* stream[c]: the messages assigned to c, in order
    read,    \* read[c]: how many of them c has been given
    phase,   \* phase[m]: "new", "going", "done" or "refused"
    owed,    \* owed[m]: the subscribers that keep m from returning
    shut,    \* no publication is accepted any more
    quiet    \* nothing is delivered any more

fvars == <<joined, live, stream, read, phase, owed, shut, quiet>>

Init ==
    /\ joined = {} /\ live = {}
    /\ stream = [c \in Subs |-> <<>>]
    /\ read = [c \in Subs |-> 0]
    /\ phase = [m \in Msgs |-> "new"]
    /\ owed = [m \in Msgs |-> {}]
    /\ shut = FALSE /\ quiet = FALSE

(* A subscriber's connection may be dead before it is even registered. *)
Join(c) ==
    /\ c \notin joined
    /\ joined' = joined \cup {c}
    /\ live' \in {live, live \cup {c}}
    /\ UNCHANGED <<stream, read, phase, owed, shut, quiet>>

(* A subscriber leaves, alone or because it is too slow: what it has not   *)
(* read is lost and no publication waits for it.                           *)
Leave(c) ==
    /\ c \in live
    /\ live' = live \ {c}
    /\ stream' = [stream EXCEPT ![c] = SubSeq(@, 1, read[c])]
    /\ owed' = [m \in Msgs |-> owed[m] \ {c}]
    /\ UNCHANGED <<joined, read, phase, shut, quiet>>

Begin(m) ==
    /\ phase[m] = "new"
    /\ phase' = [phase EXCEPT ![m] = "going"]
    /\ owed' = [owed EXCEPT ![m] = live]
    /\ UNCHANGED <<joined, live, stream, read, shut, quiet>>

Assign(c, m) ==
    /\ phase[m] = "going" /\ c \in live
    /\ \A i \in DOMAIN stream[c] : stream[c][i] # m
    /\ stream' = [stream EXCEPT ![c] = Append(@, m)]
    /\ UNCHANGED <<joined, live, read, phase, owed, shut, quiet>>

Return(m) ==
    /\ phase[m] = "going"
    /\ \A c \in owed[m] : \E i \in DOMAIN stream[c] : stream[c][i] = m
    /\ phase' = [phase EXCEPT ![m] = "done"]
    /\ UNCHANGED <<joined, live, stream, read, owed, shut, quiet>>

Refuse(m) ==
    /\ shut /\ phase[m] = "new"
    /\ phase' = [phase EXCEPT ![m] = "refused"]
    /\ UNCHANGED <<joined, live, stream, read, owed, shut, quiet>>

Read(c) ==
    /\ c \in live /\ ~quiet
    /\ read[c] < Len(stream[c])
    /\ read' = [read EXCEPT ![c] = @ + 1]
    /\ UNCHANGED <<joined, live, stream, phase, owed, shut, quiet>>

Shut ==
    /\ shut' = TRUE
    /\ UNCHANGED <<joined, live, stream, read, phase, owed, quiet>>

Silence ==
    /\ shut /\ quiet' = TRUE
    /\ UNCHANGED <<joined, live, stream, read, phase, owed, shut>>

Next ==
    \/ \E c \in Subs : Join(c) \/ Leave(c) \/ Read(c)
    \/ \E m \in Msgs : Begin(m) \/ Return(m) \/ Refuse(m)
    \/ \E c \in Subs, m \in Msgs : Assign(c, m)
    \/ Shut \/ Silence

Spec == Init /\ [][Next]_fvars
=============================================================================
