-------------------------------- MODULE Boot --------------------------------
(***************************************************************************)
(* How the process comes up, over and over: config.Load with its first     *)
(* start (shared/config/config.go:62-119), storage.Open, and run of        *)
(* cli/main.go up to the listener and back.  A supervisor starts the       *)
(* process again whenever it has ended; it may crash at any step; between  *)
(* two runs the operator may edit the configuration.                       *)
(***************************************************************************)
EXTENDS Integers

CONSTANTS
    Secrets,      \* what rand.Read or the operator may come up with
    Absent,       \* no configuration file
    Partial,      \* the beginning of a file, that is no configuration yet
    Invalid,      \* a file that does not parse or does not validate
    MaxCrashes    \* bound on the crashes and the signals that come too early

Configs == [secret : Secrets \cup {"none"}, redis : BOOLEAN, unix : BOOLEAN]

ASSUME BootAssumption ==
    /\ MaxCrashes \in Nat
    /\ {Absent, Partial, Invalid} \cap Configs = {}
    /\ "none" \notin Secrets

VARIABLES
    file,     \* the configuration file
    stage,    \* where run is; "down" when there is no process
    cfg,      \* the configuration in memory
    sock,     \* the file of the unix socket
    crashes,
    issued,   \* history: the secrets tokens were signed with since the
              \* operator last changed the secret
    litter,   \* history: a process that did not return has left its socket
    blank     \* history: the operator has left the secret out, or a process
              \* has ended while it wrote the file

history == <<issued, litter, blank>>
vars == <<file, stage, cfg, sock, crashes, history>>

(* The default configuration listens on TCP and has no Redis. *)
Default(s) == [secret |-> s, redis |-> FALSE, unix |-> FALSE]

Init ==
    /\ file = Absent /\ stage = "down" /\ cfg = Default("none")
    /\ sock = "none"
    /\ crashes = 0 /\ issued = {} /\ litter = FALSE /\ blank = FALSE

Go(from, to) == stage = from /\ stage' = to
Jump(from, to) == Go(from, to) /\ UNCHANGED <<file, cfg, sock, crashes, history>>

----------------------------------------------------------------------------
(* config.Load.                                                            *)
Start == Jump("down", "stat")

(* A file that is there is loaded; without one the first start draws a     *)
(* secret nobody has drawn before.                                         *)
StatFound == file # Absent /\ Jump("stat", "load")
StatAbsent == \E s \in Secrets \ issued :
    /\ Go("stat", "save")
    /\ file = Absent
    /\ cfg' = Default(s)
    /\ UNCHANGED <<file, sock, crashes, history>>

(* Save truncates the file, writes it, and may fail before or between.     *)
(* What is in the file by then may be no configuration, or one, as the     *)
(* secret may be missing (omitempty) and what follows it as well.          *)
SaveBegin ==
    /\ Go("save", "write")
    /\ file' \in {Partial, Default("none"), cfg}
    /\ UNCHANGED <<cfg, sock, crashes, history>>

(* Slips: the first start goes on with the defaults it has tried to save,  *)
(* or draws the secret when they are saved.                                *)
SaveFailsOn == Jump("save", "db") \/ Jump("write", "db")
SaveEndEarly ==
    /\ Go("write", "down")
    /\ file' = Default("none")
    /\ UNCHANGED <<cfg, sock, crashes, history>>

(* Save returned an error, and so does Load. *)
SaveFails ==
    \/ Jump("save", "down")
    \/ /\ Go("write", "down")
       /\ blank' = TRUE
       /\ UNCHANGED <<file, cfg, sock, crashes, issued, litter>>

(* The first start ends, so that the file is edited before it is used. *)
SaveEnd ==
    /\ Go("write", "down")
    /\ file' = cfg
    /\ UNCHANGED <<cfg, sock, crashes, history>>

Load ==
    /\ Go("load", "db")
    /\ file \in Configs
    /\ cfg' = file
    /\ UNCHANGED <<file, sock, crashes, history>>
LoadFails == file \notin Configs /\ Jump("load", "down")

----------------------------------------------------------------------------
(* run.  A step that fails returns 1.                                      *)
OpenDB == Jump("db", IF cfg.redis THEN "redis" ELSE "listen")
OpenDBFails == Jump("db", "down")

Ping == Jump("redis", "listen")
PingFails == Jump("redis", "down")

(* Slip: every address is taken for the path of a unix socket. *)
ListenUnix ==
    /\ Go("listen", "bound")
    /\ sock = "none" /\ sock' = "live"
    /\ UNCHANGED <<file, cfg, crashes, history>>

(* net.Listen fails on a socket that exists already, whoever left it. *)
Listen ==
    /\ Go("listen", "bound")
    /\ cfg.unix => sock = "none"
    /\ sock' = IF cfg.unix THEN "live" ELSE sock
    /\ UNCHANGED <<file, cfg, crashes, history>>
ListenFails == Jump("listen", "down")

(* From NotifyContext on a signal ends run and not the process; requests   *)
(* come and tokens are signed.                                             *)
NotifyContext ==
    /\ Go("bound", "serve")
    /\ issued' = issued \cup {cfg.secret}
    /\ UNCHANGED <<file, cfg, sock, crashes, litter, blank>>

(* Slip: a signal nobody has asked to be notified of ends the process. *)
ReturnKilled ==
    /\ Go("serve", "down")
    /\ sock' = IF sock = "live" THEN "stale" ELSE sock
    /\ UNCHANGED <<file, cfg, crashes, history>>

(* After a signal, or an error of Serve, run closes the listener, which    *)
(* removes its socket.                                                     *)
Return ==
    /\ Go("serve", "down")
    /\ sock' = IF cfg.unix THEN "none" ELSE sock
    /\ UNCHANGED <<file, cfg, crashes, history>>

----------------------------------------------------------------------------
(* The environment.                                                        *)

(* The process crashes, or is ended by a signal before NotifyContext: it   *)
(* leaves the socket net.Listen has made, and the file as it is.           *)
Crash ==
    /\ stage # "down" /\ stage' = "down"
    /\ crashes < MaxCrashes /\ crashes' = crashes + 1
    /\ sock' = IF sock = "live" THEN "stale" ELSE sock
    /\ litter' = (litter \/ sock = "live")
    /\ blank' = (blank \/ stage = "write")
    /\ UNCHANGED <<file, cfg, issued>>

(* An edit made while the process runs is read by the next start only, and *)
(* counts as made before it.                                               *)
Edit == \E f \in Configs \cup {Absent, Invalid} :
    /\ stage = "down"
    /\ file' = f
    /\ issued' = IF f \in Configs /\ file \in Configs /\ f.secret = file.secret
                 THEN issued ELSE {}
    /\ blank' = (f \in Configs /\ f.secret = "none")
    /\ UNCHANGED <<stage, cfg, sock, crashes, litter>>

RemoveSocket ==
    /\ stage = "down" /\ sock = "stale"
    /\ sock' = "none" /\ litter' = FALSE
    /\ UNCHANGED <<file, stage, cfg, crashes, issued, blank>>

----------------------------------------------------------------------------
Boots ==
    \/ StatFound \/ StatAbsent \/ SaveBegin \/ SaveFails \/ SaveEnd
    \/ Load \/ LoadFails
    \/ OpenDB \/ OpenDBFails \/ Ping \/ PingFails \/ Listen \/ ListenFails
    \/ NotifyContext

Next == Start \/ Boots \/ Return \/ Crash \/ Edit \/ RemoveSocket

Spec == Init /\ [][Next]_vars

(* The supervisor starts a process that is down, a process that is up goes *)
(* on, and what it depends on does not fail at every single start.         *)
FairSpec ==
    /\ Spec
    /\ WF_vars(Start) /\ WF_vars(Boots)
    /\ SF_vars(OpenDB) /\ SF_vars(Ping) /\ SF_vars(Listen)
=============================================================================
