------------------------- MODULE EnvelopeProperties -------------------------
(***************************************************************************)
(* What the client is told, and what the log says of it.                   *)
(***************************************************************************)
EXTENDS Envelope

Sent == head[1].status    \* once the header is out
At(name) == {i \in DOMAIN logs : logs[i].line = name}
Access == At("http request")
Unexpected == At("unexpected error")
Unwritten == At("write error response")

(* Types; the header is out when the response is committed, and only then  *)
(* but for a page of the documentation, and the Content-Type of http.Error *)
(* never outlives a failed handshake.                                      *)
TypeOK ==
    /\ at \in {"requestID", "handler", "hijack", "recover", "error", "log",
               "serveHTTP", "end"}
    /\ err \in {Nil, Plain} \cup (400 .. 599)
    /\ status \in 100 .. 599
    /\ committed \in BOOLEAN
    /\ committed => head # <<>>
    /\ head # <<>> /\ ~committed => body = <<"page">>
    /\ ctype \in {"none", "json", "page"}
    /\ traceID \in BOOLEAN
    /\ captured \in {0} \cup (400 .. 599)
    /\ head \in Seq([status : 100 .. 599, type : {"none", "json", "page"}])
    /\ body \in Seq({"envelope", "text", "page"})

(* However a request ends, the client is given one answer: never a second  *)
(* body after the first, though the error handler runs twice, and never    *)
(* none at all (errors.go:14-16, gateway.go:17-22).                        *)
OneAnswer == Len(body) <= 1 /\ (at = "end" => Len(head) = 1)

(* Whatever has a body is the JSON envelope and says so, failed handshakes *)
(* included (ws_hub.go:110-135), and no body follows a 101 or a 204.  All  *)
(* else a client can be given are pages of the documentation, in debug     *)
(* mode, and none of them where there was an error (router.go:25-31).      *)
EnvelopeOnly ==
    body # <<>> =>
        \/ /\ \A i \in DOMAIN body : body[i] = "envelope"
           /\ head[1].type = "json"
           /\ Sent \notin {101, 204}
        \/ /\ Debug
           /\ body = <<"page">> /\ head[1].type = "page"
           /\ err = Nil /\ captured = 0

(* The status websocket.Accept refused a handshake with, or the code of a  *)
(* returned error, is the status the client sees, unless it has seen       *)
(* another one before (gateway.go:18-20, errors.go:18-23).                 *)
StatusKept ==
    at = "end" =>
        /\ captured # 0 => Sent \in {101, captured}
        /\ err \notin {Nil, Plain} => Sent \in {101, err}

(* The access log gives the status the client was sent. *)
LogTellsTruth ==
    \A i \in Access : head # <<>> /\ logs[i].status = Sent

(* What the error handler answers with a 5xx is logged once, with the      *)
(* trace ID the client was given, and so is an answer of its own that did  *)
(* not get out, and no other (errors.go:25-42).                            *)
TracedOnce ==
    at = "end" =>
        /\ \A i, j \in Unexpected : i = j
        /\ \A i, j \in Unwritten : i = j
        /\ \A i \in Unexpected : logs[i].traced /\ logs[i].status = Sent
        /\ \A i \in Unwritten : logs[i].traced /\ body = <<>>
        /\ err # Nil /\ Sent >= 500 /\ body # <<>> => Unexpected # {}
        /\ (Unexpected # {} \/ err \notin {Nil, Plain}) /\ Sent # 101 /\ body = <<>>
              => Unwritten # {}
=============================================================================
