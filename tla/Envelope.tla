------------------------------ MODULE Envelope ------------------------------
(***************************************************************************)
(* One request on its way through echo: the middlewares of server/         *)
(* router.go, a handler that answers, fails, panics or upgrades to a       *)
(* WebSocket, and the error handler, which echo calls twice for one error. *)
(* All of it runs in the request's goroutine, one step after another.      *)
(***************************************************************************)
EXTENDS Integers, Sequences

CONSTANTS
    Answers,   \* the statuses handlers and middlewares answer with a body
    Codes,     \* the codes of the *echo.HTTPErrors they return
    Refusals,  \* the statuses websocket.Accept refuses a handshake with
    Debug      \* cfg.Server.Debug: the documentation is served

Nil == 0       \* an error is nil, of some other type, or the Code
Plain == 1     \* of an *echo.HTTPError

ASSUME EnvelopeAssumption ==
    /\ Answers \in SUBSET ((200 .. 599) \ {204})
    /\ Codes \cup Refusals \in SUBSET (400 .. 599)
    /\ Debug \in BOOLEAN

VARIABLES
    at,         \* where the request is
    err,        \* the error on its way up
    status,     \* echo.Response.Status
    committed,  \* echo.Response.Committed
    ctype,      \* the header Content-Type
    traceID,    \* the header Trace-Id is set
    captured,   \* connection.handshakeStatus, zero when there is none
    head, body, \* what went out on the wire
    logs        \* what went to the log: lines of the error handler and of
                \* the request logger, status 0 where a line gives none

response == <<status, committed, ctype, head, body>>
vars == <<at, err, response, traceID, captured, logs>>

Init ==
    /\ at = "requestID" /\ err = Nil
    /\ status = 200 /\ committed = FALSE /\ ctype = "none"
    /\ traceID = FALSE /\ captured = 0
    /\ head = <<>> /\ body = <<>> /\ logs = <<>>

Go(from, to) == at = from /\ at' = to
Line(name, s) == [line |-> name, status |-> s, traced |-> traceID]

----------------------------------------------------------------------------
(* echo's Response. *)

(* The header goes out at the first WriteHeader only. *)
Commit(s, type) ==
    /\ committed' = TRUE
    /\ head' = IF committed THEN head ELSE Append(head, [status |-> s, type |-> type])

(* c.JSON: a Content-Type that is there already is kept, Status is set in  *)
(* any case, and the body follows unless the connection is broken.         *)
JSON(s, delivered) ==
    LET type == IF ctype = "none" THEN "json" ELSE ctype
    IN  /\ ctype' = type
        /\ status' = s
        /\ Commit(s, type)
        /\ body' = IF delivered THEN Append(body, "envelope") ELSE body

(* What the error handler logs: an answer that is a 5xx, and an answer that *)
(* does not get out.                                                       *)
Lines(s, delivered) ==
    (IF s >= 500 THEN <<Line("unexpected error", s)>> ELSE <<>>) \o
    (IF delivered THEN <<>> ELSE <<Line("write error response", 0)>>)

(* Slip: the error handler does not look whether an answer is out. *)
ErrorsAlways(delivered) ==
    LET s == IF err = Plain THEN 500 ELSE err
    IN  JSON(s, delivered) /\ logs' = logs \o Lines(s, delivered)

(* The error handler: a returned error is told only to a client that has   *)
(* been told nothing, and logged with the trace ID that client is given.   *)
Errors(delivered) ==
    IF committed
    THEN UNCHANGED <<response, logs>>
    ELSE LET s == IF err = Plain THEN 500 ELSE err
         IN  JSON(s, delivered) /\ logs' = logs \o Lines(s, delivered)

----------------------------------------------------------------------------
(* The handlers, and the middlewares of their routes.                      *)

(* Write: a broken connection makes the handler return an error. *)
Write(s) == \E delivered \in BOOLEAN :
    /\ Go("handler", "recover")
    /\ JSON(s, delivered)
    /\ err' = IF delivered THEN Nil ELSE Plain
    /\ UNCHANGED <<traceID, captured, logs>>

(* CORS answers a preflight with a header and no body. *)
Preflight ==
    /\ Go("handler", "recover")
    /\ status' = 204 /\ Commit(204, ctype)
    /\ UNCHANGED <<err, ctype, body, traceID, captured, logs>>

Return(e) == Go("handler", "recover") /\ err' = e
    /\ UNCHANGED <<response, traceID, captured, logs>>

(* echoSwagger.WrapHandler: a page of the documentation, or of its file    *)
(* server that there is none; echo's Response learns of it or, when it is  *)
(* written to the ResponseWriter below, does not.  Its errors are Return.  *)
Page ==
    /\ status' \in {200, 404}
    /\ committed' \in {TRUE, status' = 404}
    /\ ctype' = "page"
    /\ head' = Append(head, [status |-> status', type |-> "page"])
    /\ body' = Append(body, "page")

(* The bare path is redirected to the first page. *)
Redirect == status' = 301 /\ Commit(301, ctype) /\ UNCHANGED <<ctype, body>>

Swagger ==
    /\ Debug
    /\ Go("handler", "recover")
    /\ Page \/ Redirect
    /\ UNCHANGED <<err, traceID, captured, logs>>

----------------------------------------------------------------------------
(* GET /gateway: websocket.Accept on the wrapped ResponseWriter.  The hub  *)
(* that is closed is a Write of 503.                                       *)

(* Slips: the wrapper leaves the Content-Type, or lets the text through.   *)
CaptureKeepsType(s) ==
    /\ captured' = s
    /\ ctype' = "text"
    /\ UNCHANGED <<status, committed, head, body>>
CaptureForwards(s) ==
    /\ captured' = s
    /\ ctype' = "none" /\ UNCHANGED status
    /\ Commit(status, "text") /\ body' = Append(body, "text")

(* http.Error sets the Content-Type, the status and writes a text: the     *)
(* wrapper keeps the status to itself, takes the Content-Type back and     *)
(* throws the text away.                                                   *)
Capture(s) ==
    /\ captured' = s
    /\ ctype' = "none"
    /\ UNCHANGED <<status, committed, head, body>>

(* Listen returns the status it captured, and the handler an HTTPError. *)
Refuse(s) ==
    /\ Go("handler", "recover")
    /\ Capture(s) /\ err' = captured'
    /\ UNCHANGED <<traceID, logs>>

Upgrade ==
    /\ Go("handler", "hijack")
    /\ status' = 101 /\ Commit(101, ctype)
    /\ UNCHANGED <<err, ctype, body, traceID, captured, logs>>

(* The connection cannot be hijacked, though the 101 is out. *)
HijackFails ==
    /\ Go("hijack", "recover")
    /\ Capture(500) /\ err' = captured'
    /\ UNCHANGED <<traceID, logs>>

(* The subscriber is served until it leaves. *)
Serve == Go("hijack", "recover") /\ UNCHANGED <<err, response, traceID, captured, logs>>

----------------------------------------------------------------------------
(* The middlewares around every handler.                                   *)
RequestID ==
    /\ Go("requestID", "handler")
    /\ traceID' = TRUE
    /\ UNCHANGED <<err, response, captured, logs>>

(* A panic ends the handler, or the serving of a subscriber. *)
Panic ==
    /\ at \in {"handler", "hijack"} /\ at' = "recover"
    /\ err' = Plain
    /\ UNCHANGED <<response, traceID, captured, logs>>

(* Recover turns a panic into an error and handles none itself. *)
Recover == Go("recover", "error") /\ UNCHANGED <<err, response, traceID, captured, logs>>

(* Slip: RequestLogger without HandleError. *)
HandleErrorNot ==
    Go("error", "log") /\ UNCHANGED <<err, response, traceID, captured, logs>>

(* RequestLogger calls the error handler before it reads the status. *)
HandleError ==
    /\ Go("error", "log")
    /\ IF err = Nil THEN UNCHANGED <<response, logs>>
                    ELSE \E delivered \in BOOLEAN : Errors(delivered)
    /\ UNCHANGED <<err, traceID, captured>>

LogRequest ==
    /\ Go("log", "serveHTTP")
    /\ logs' = Append(logs, Line("http request", status))
    /\ UNCHANGED <<err, response, traceID, captured>>

(* ServeHTTP gives the error that has come through to the handler again. *)
ServeHTTP ==
    /\ Go("serveHTTP", "end")
    /\ IF err = Nil THEN UNCHANGED <<response, logs>>
                    ELSE \E delivered \in BOOLEAN : Errors(delivered)
    /\ UNCHANGED <<err, traceID, captured>>

Next ==
    \/ RequestID
    \/ \E s \in Answers : Write(s)
    \/ Preflight \/ Swagger
    \/ \E e \in Codes \cup {Plain} : Return(e)
    \/ \E s \in Refusals : Refuse(s)
    \/ Upgrade \/ HijackFails \/ Serve
    \/ Panic \/ Recover \/ HandleError \/ LogRequest \/ ServeHTTP

Spec == Init /\ [][Next]_vars
=============================================================================
