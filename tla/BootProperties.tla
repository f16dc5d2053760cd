--------------------------- MODULE BootProperties ---------------------------
(***************************************************************************)
(* What holds of the server across its restarts.                           *)
(***************************************************************************)
EXTENDS Boot

(* Types; the socket is there while, and only while, a process listens on  *)
(* it, unless it is a leftover.                                            *)
TypeOK ==
    /\ file \in Configs \cup {Absent, Partial, Invalid}
    /\ stage \in {"down", "stat", "save", "write", "load", "db", "redis",
                  "listen", "bound", "serve"}
    /\ cfg \in Configs
    /\ sock \in {"none", "live", "stale"}
    /\ sock = "live" <=> stage \in {"bound", "serve"} /\ cfg.unix
    /\ crashes \in 0 .. MaxCrashes
    /\ issued \in SUBSET (Secrets \cup {"none"})
    /\ litter \in BOOLEAN /\ blank \in BOOLEAN

(* A token stays valid across restarts and crashes, those of the first     *)
(* start included, until the operator changes the secret: all tokens since *)
(* then were signed with one secret (config.go:97-108).                    *)
TokensSurvive == \A s, t \in issued : s = t

(* The server does not sign with the empty secret, which Load lets pass,   *)
(* unless the operator has left the secret out or a process has ended      *)
(* while it wrote the file: a first start saves the secret it has drawn,   *)
(* and goes on with nothing else (config.go:55, config.go:102-111).        *)
NoBlankSecret == stage = "serve" /\ cfg.secret = "none" => blank

(* However often the server has stopped, crashed or not found its stores,  *)
(* it serves again as long as the file is a valid one and, for a unix      *)
(* socket, somebody removes what a crash, or a signal before NotifyContext,*)
(* has left behind.  net.Listen does not (main.go:145-150), while run      *)
(* leaves nothing behind when it returns (main.go:151-157).                *)
ComesBack ==
    <>[](file \in Configs /\ (file.unix => ~litter)) => []<>(stage = "serve")
=============================================================================
