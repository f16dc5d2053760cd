----------------------------- MODULE BootProofs -----------------------------
(***************************************************************************)
(* Theorems about the restarts of the server, for any secrets and any      *)
(* number of crashes.                                                      *)
(***************************************************************************)
EXTENDS BootProperties, TLAPS

(* A first start has a secret to save, finds no file to save it over, and  *)
(* no token was signed before it.                                          *)
SavesFirst ==
    /\ stage = "save" => file = Absent
    /\ stage \in {"save", "write"} => cfg.secret \in Secrets /\ issued = {}

(* Tokens were only signed with the secret the file holds. *)
SecretKept == issued # {} => file \in Configs /\ issued = {file.secret}

(* Past Load the configuration is the file, and where the file holds no    *)
(* secret it is known whose doing that is.                                 *)
Loaded == stage \in {"db", "redis", "listen", "bound", "serve"} => cfg = file
Blamed == stage # "write" /\ file \in Configs /\ file.secret = "none" => blank = TRUE

BootInv == TypeOK /\ SavesFirst /\ SecretKept /\ Loaded /\ Blamed

LEMMA DefaultTyped ==
    ASSUME NEW s \in Secrets \cup {"none"}
    PROVE  Default(s) \in Configs
  BY DEF Default, Configs

LEMMA InitBoot == Init => BootInv
  <1> SUFFICES ASSUME Init PROVE BootInv
    OBVIOUS
  <1>1. cfg \in Configs
    BY DefaultTyped DEF Init
  <1>2. TypeOK
    <2>1. crashes \in 0 .. MaxCrashes
      BY BootAssumption DEF Init
    <2>2. ~(sock = "live") /\ ~(stage = "serve")
      BY DEF Init
    <2> QED BY <1>1, <2>1, <2>2 DEF Init, TypeOK
  <1>3. SavesFirst /\ SecretKept /\ Loaded /\ Blamed
    BY BootAssumption DEF Init, SavesFirst, SecretKept, Loaded, Blamed
  <1> QED BY <1>2, <1>3 DEF BootInv

----------------------------------------------------------------------------
(* The parts of the invariant that say nothing of the histories. *)
Placed ==
    /\ file \in Configs \cup {Absent, Partial, Invalid}
    /\ stage \in {"down", "stat", "save", "write", "load", "db", "redis",
                  "listen", "bound", "serve"}
    /\ cfg \in Configs
    /\ sock \in {"none", "live", "stale"}
    /\ sock = "live" <=> stage \in {"bound", "serve"} /\ cfg.unix
    /\ crashes \in 0 .. MaxCrashes
    /\ issued \in SUBSET (Secrets \cup {"none"})

LEMMA JumpKeeps ==
    ASSUME BootInv, NEW from, NEW to \in {"down", "stat", "load", "redis", "listen"},
           Jump(from, to), from \notin {"bound", "serve", "write"},
           to \in {"redis", "listen"} => from \in {"db", "redis"}
    PROVE  BootInv'
  <1>1. UNCHANGED <<litter, blank>>
    BY DEF Jump, history
  <1>2. TypeOK'
    <2>1. Placed'
      BY DEF BootInv, TypeOK, Placed, Jump, Go, history
    <2> QED BY <1>1, <2>1, Zenon DEF BootInv, TypeOK, Placed
  <1>3. SavesFirst' /\ SecretKept' /\ Loaded' /\ Blamed'
    BY <1>1 DEF BootInv, SavesFirst, SecretKept, Loaded, Blamed, Jump, Go, history
  <1> QED BY <1>2, <1>3 DEF BootInv

LEMMA StatAbsentKeeps == ASSUME BootInv, StatAbsent PROVE BootInv'
  <1> PICK s \in Secrets \ issued :
         /\ stage = "stat" /\ stage' = "save"
         /\ file = Absent
         /\ cfg' = Default(s)
         /\ UNCHANGED <<file, sock, crashes, issued, litter, blank>>
    BY DEF StatAbsent, Go, history
  <1>1. cfg' \in Configs /\ cfg'.secret = s /\ file \notin Configs
    BY DefaultTyped, BootAssumption DEF Default
  <1>2. TypeOK'
    <2>1. Placed'
      BY <1>1 DEF BootInv, TypeOK, Placed
    <2> QED BY <2>1, Zenon DEF BootInv, TypeOK, Placed
  <1>3. SavesFirst' /\ SecretKept' /\ Loaded' /\ Blamed'
    BY <1>1 DEF BootInv, SavesFirst, SecretKept, Loaded, Blamed
  <1> QED BY <1>2, <1>3 DEF BootInv

(* While the file is written nothing is said of it. *)
LEMMA SaveBeginKeeps == ASSUME BootInv, SaveBegin PROVE BootInv'
  <1> /\ stage = "save" /\ stage' = "write"
      /\ file' \in {Partial, Default("none"), cfg}
      /\ UNCHANGED <<cfg, sock, crashes, issued, litter, blank>>
    BY DEF SaveBegin, Go, history
  <1>1. file' \in Configs \cup {Absent, Partial, Invalid}
    BY DefaultTyped DEF BootInv, TypeOK
  <1>2. TypeOK'
    <2>1. Placed'
      BY <1>1 DEF BootInv, TypeOK, Placed
    <2> QED BY <2>1, Zenon DEF BootInv, TypeOK, Placed
  <1>3. SavesFirst' /\ SecretKept' /\ Loaded' /\ Blamed'
    BY DEF BootInv, SavesFirst, SecretKept, Loaded, Blamed
  <1> QED BY <1>2, <1>3 DEF BootInv

(* The file ends up whole, with the secret that was drawn. *)
LEMMA SaveEndKeeps == ASSUME BootInv, SaveEnd PROVE BootInv'
  <1> /\ stage = "write" /\ stage' = "down"
      /\ file' = cfg
      /\ UNCHANGED <<cfg, sock, crashes, issued, litter, blank>>
    BY DEF SaveEnd, Go, history
  <1>1. TypeOK'
    <2>1. Placed'
      BY DEF BootInv, TypeOK, Placed
    <2> QED BY <2>1, Zenon DEF BootInv, TypeOK, Placed
  <1>2. SavesFirst' /\ SecretKept' /\ Loaded' /\ Blamed'
    BY BootAssumption DEF BootInv, SavesFirst, SecretKept, Loaded, Blamed
  <1> QED BY <1>1, <1>2 DEF BootInv

(* A Save that is broken off is to blame for what is in the file. *)
LEMMA SaveFailsKeeps == ASSUME BootInv, SaveFails PROVE BootInv'
  <1>1. CASE Jump("save", "down")
    BY <1>1, JumpKeeps
  <1>2. CASE /\ Go("write", "down")
             /\ blank' = TRUE
             /\ UNCHANGED <<file, cfg, sock, crashes, issued, litter>>
    <2>1. Placed' /\ SavesFirst' /\ SecretKept' /\ Loaded' /\ Blamed'
      BY <1>2 DEF BootInv, TypeOK, Placed, SavesFirst, SecretKept, Loaded, Blamed, Go
    <2>2. TypeOK'
      BY <1>2, <2>1, Zenon DEF BootInv, TypeOK, Placed
    <2> QED BY <2>1, <2>2 DEF BootInv
  <1> QED BY <1>1, <1>2 DEF SaveFails

LEMMA LoadKeeps == ASSUME BootInv, Load PROVE BootInv'
  <1> /\ stage = "load" /\ stage' = "db" /\ file \in Configs /\ cfg' = file
      /\ UNCHANGED <<file, sock, crashes, issued, litter, blank>>
    BY DEF Load, Go, history
  <1>1. Placed' /\ SavesFirst' /\ SecretKept' /\ Loaded' /\ Blamed'
    BY DEF BootInv, TypeOK, Placed, SavesFirst, SecretKept, Loaded, Blamed
  <1>2. TypeOK'
    BY <1>1, Zenon DEF BootInv, TypeOK, Placed
  <1> QED BY <1>1, <1>2 DEF BootInv

LEMMA ListenKeeps == ASSUME BootInv, Listen PROVE BootInv'
  <1> /\ stage = "listen" /\ stage' = "bound" /\ (cfg.unix => sock = "none")
      /\ sock' = IF cfg.unix THEN "live" ELSE sock
      /\ UNCHANGED <<file, cfg, crashes, issued, litter, blank>>
    BY DEF Listen, Go, history
  <1>1. cfg.unix \in BOOLEAN /\ sock # "live"
    BY DEF BootInv, TypeOK, Configs
  <1>2. Placed'
    BY <1>1 DEF BootInv, TypeOK, Placed
  <1>3. TypeOK'
    BY <1>2, Zenon DEF BootInv, TypeOK, Placed
  <1>4. SavesFirst' /\ SecretKept' /\ Loaded' /\ Blamed'
    BY DEF BootInv, SavesFirst, SecretKept, Loaded, Blamed
  <1> QED BY <1>3, <1>4 DEF BootInv

(* Where the secret comes into use it is the file's. *)
LEMMA NotifyKeeps == ASSUME BootInv, NotifyContext PROVE BootInv'
  <1> /\ stage = "bound" /\ stage' = "serve"
      /\ issued' = issued \cup {cfg.secret}
      /\ UNCHANGED <<file, cfg, sock, crashes, litter, blank>>
    BY DEF NotifyContext, Go
  <1>1. cfg = file /\ file \in Configs /\ file.secret \in Secrets \cup {"none"}
    BY DEF BootInv, TypeOK, Loaded, Configs
  <1>2. issued' = {file.secret}
    BY <1>1 DEF BootInv, SecretKept
  <1>3. Placed' /\ SavesFirst' /\ SecretKept' /\ Loaded' /\ Blamed'
    BY <1>1, <1>2 DEF BootInv, TypeOK, Placed, SavesFirst, SecretKept, Loaded, Blamed
  <1>4. TypeOK'
    BY <1>3, Zenon DEF BootInv, TypeOK, Placed
  <1> QED BY <1>3, <1>4 DEF BootInv

LEMMA ReturnKeeps == ASSUME BootInv, Return PROVE BootInv'
  <1> /\ stage = "serve" /\ stage' = "down"
      /\ sock' = IF cfg.unix THEN "none" ELSE sock
      /\ UNCHANGED <<file, cfg, crashes, issued, litter, blank>>
    BY DEF Return, Go, history
  <1>1. Placed' /\ SavesFirst' /\ SecretKept' /\ Loaded' /\ Blamed'
    BY DEF BootInv, TypeOK, Placed, SavesFirst, SecretKept, Loaded, Blamed
  <1>2. TypeOK'
    BY <1>1, Zenon DEF BootInv, TypeOK, Placed
  <1> QED BY <1>1, <1>2 DEF BootInv

(* A crash in the middle of a Save is to blame for what is in the file. *)
LEMMA CrashKeeps == ASSUME BootInv, Crash PROVE BootInv'
  <1> /\ stage # "down" /\ stage' = "down"
      /\ crashes < MaxCrashes /\ crashes' = crashes + 1
      /\ sock' = IF sock = "live" THEN "stale" ELSE sock
      /\ litter' = (litter \/ sock = "live")
      /\ blank' = (blank \/ stage = "write")
      /\ UNCHANGED <<file, cfg, issued>>
    BY DEF Crash
  <1>1. litter' \in BOOLEAN /\ blank' \in BOOLEAN
    BY Zenon DEF BootInv, TypeOK
  <1>2. blank = TRUE \/ stage = "write" => blank' = TRUE
    BY Zenon
  <1>3. Placed'
    BY BootAssumption DEF BootInv, TypeOK, Placed
  <1>4. TypeOK'
    BY <1>1, <1>3, Zenon DEF TypeOK, Placed
  <1>5. SavesFirst' /\ SecretKept' /\ Loaded' /\ Blamed'
    BY <1>2 DEF BootInv, SavesFirst, SecretKept, Loaded, Blamed
  <1> QED BY <1>4, <1>5 DEF BootInv

(* An edit that changes the secret, or takes the file away, ends the life  *)
(* of the tokens signed so far.                                            *)
LEMMA EditKeeps == ASSUME BootInv, Edit PROVE BootInv'
  <1> PICK f \in Configs \cup {Absent, Invalid} :
         /\ stage = "down"
         /\ file' = f
         /\ issued' = IF f \in Configs /\ file \in Configs /\ f.secret = file.secret
                      THEN issued ELSE {}
         /\ blank' = (f \in Configs /\ f.secret = "none")
         /\ UNCHANGED <<stage, cfg, sock, crashes, litter>>
    BY DEF Edit
  <1>1. blank' \in BOOLEAN /\ Blamed'
    BY Zenon DEF Blamed
  <1>2. Placed' /\ SavesFirst' /\ SecretKept' /\ Loaded'
    BY DEF BootInv, TypeOK, Placed, SavesFirst, SecretKept, Loaded
  <1>3. TypeOK'
    BY <1>1, <1>2, Zenon DEF BootInv, TypeOK, Placed
  <1> QED BY <1>1, <1>2, <1>3 DEF BootInv

LEMMA RemoveKeeps == ASSUME BootInv, RemoveSocket PROVE BootInv'
  <1> /\ stage = "down" /\ sock' = "none" /\ litter' = FALSE
      /\ UNCHANGED <<file, stage, cfg, crashes, issued, blank>>
    BY DEF RemoveSocket
  <1>1. Placed' /\ SavesFirst' /\ SecretKept' /\ Loaded' /\ Blamed'
    BY DEF BootInv, TypeOK, Placed, SavesFirst, SecretKept, Loaded, Blamed
  <1>2. TypeOK'
    BY <1>1, Zenon DEF BootInv, TypeOK, Placed
  <1> QED BY <1>1, <1>2 DEF BootInv

(* The inductive invariant of the restarts. *)
THEOREM BootInvCorrect == Spec => []BootInv
  <1>1. BootInv /\ [Next]_vars => BootInv'
    <2> SUFFICES ASSUME BootInv, [Next]_vars PROVE BootInv'
      OBVIOUS
    <2>1. CASE Start \/ StatFound
      BY <2>1, JumpKeeps DEF Start, StatFound
    <2>2. CASE StatAbsent \/ SaveBegin \/ SaveEnd \/ SaveFails
      BY <2>2, StatAbsentKeeps, SaveBeginKeeps, SaveEndKeeps, SaveFailsKeeps
    <2>3. CASE LoadFails
      BY <2>3, JumpKeeps DEF LoadFails
    <2>4. CASE Load \/ Listen \/ NotifyContext
      BY <2>4, LoadKeeps, ListenKeeps, NotifyKeeps
    <2>5. CASE OpenDB \/ OpenDBFails
      BY <2>5, JumpKeeps DEF OpenDB, OpenDBFails
    <2>6. CASE Ping \/ PingFails \/ ListenFails
      BY <2>6, JumpKeeps DEF Ping, PingFails, ListenFails
    <2>7. CASE Return \/ Crash \/ Edit \/ RemoveSocket
      BY <2>7, ReturnKeeps, CrashKeeps, EditKeeps, RemoveKeeps
    <2>8. CASE UNCHANGED vars
      <3>1. UNCHANGED <<file, stage, cfg, sock, crashes, issued, litter, blank>>
        BY <2>8 DEF vars, history
      <3>2. Placed' /\ SavesFirst' /\ SecretKept' /\ Loaded' /\ Blamed'
        BY <3>1 DEF BootInv, TypeOK, Placed, SavesFirst, SecretKept, Loaded, Blamed
      <3>3. TypeOK'
        BY <3>1, <3>2, Zenon DEF BootInv, TypeOK, Placed
      <3> QED BY <3>2, <3>3 DEF BootInv
    <2> QED
      BY <2>1, <2>2, <2>3, <2>4, <2>5, <2>6, <2>7, <2>8 DEF Next, Boots
  <1> QED BY <1>1, InitBoot, PTL DEF Spec

----------------------------------------------------------------------------
(* Types, and the socket is there while a process listens on it. *)
THEOREM TypeCorrect == Spec => []TypeOK
  BY BootInvCorrect, PTL DEF BootInv

(* All tokens since the operator last changed the secret were signed with  *)
(* one secret, whatever crashed in between (config.go:97-108).             *)
THEOREM TokensCorrect == Spec => []TokensSurvive
  <1>1. BootInv => TokensSurvive
    BY DEF BootInv, SecretKept, TokensSurvive
  <1> QED BY <1>1, BootInvCorrect, PTL

(* No server signs with the empty secret but by the doing of the operator  *)
(* or of a Save that was broken off, whatever such a Save leaves and       *)
(* whenever the process crashes (config.go:55, config.go:102-111).         *)
THEOREM BlankCorrect == Spec => []NoBlankSecret
  <1>1. BootInv => NoBlankSecret
    <2> SUFFICES ASSUME BootInv, stage = "serve", cfg.secret = "none" PROVE blank = TRUE
      BY Zenon DEF NoBlankSecret
    <2> QED BY DEF BootInv, TypeOK, Loaded, Blamed
  <1> QED BY <1>1, BootInvCorrect, PTL
=============================================================================
