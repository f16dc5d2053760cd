--------------------------- MODULE EnvelopeProofs ---------------------------
(***************************************************************************)
(* Theorems about the answer to a request, for any statuses its handlers   *)
(* answer with and any codes they return.                                  *)
(***************************************************************************)
EXTENDS EnvelopeProperties, SequenceTheorems, TLAPS

Before == {"requestID", "handler"}     \* nobody has answered yet
Late == {"log", "serveHTTP", "end"}    \* the error handler has been called

Typed ==
    /\ at \in Before \cup {"hijack", "recover", "error"} \cup Late
    /\ err \in {Nil, Plain} \cup (400 .. 599)
    /\ status \in 100 .. 599
    /\ traceID \in BOOLEAN /\ (at # "requestID" => traceID)
    /\ captured \in {0} \cup (400 .. 599)

(* The response is one of four: nothing, a header with no body after a     *)
(* broken connection, a preflight, a redirection or an upgrade, an         *)
(* envelope, or a page of the documentation, which no error follows.       *)
Nothing == committed = FALSE /\ head = <<>> /\ body = <<>> /\ ctype = "none"
Bare == /\ committed = TRUE /\ body = <<>> /\ ctype \in {"none", "json"}
        /\ head = <<[status |-> status, type |-> ctype]>>
Full == /\ committed = TRUE /\ body = <<"envelope">> /\ ctype = "json"
        /\ head = <<[status |-> status, type |-> ctype]>>
        /\ status \notin {101, 204}
Manual == /\ Debug /\ err = Nil /\ captured = 0
          /\ committed \in BOOLEAN /\ body = <<"page">> /\ ctype = "page"
          /\ head = <<[status |-> status, type |-> ctype]>>
Response == Nothing \/ Bare \/ Full \/ Manual

(* How far the answer is, and which error may still come up. *)
Progress ==
    /\ at \in Before => Nothing /\ captured = 0 /\ err = Nil
    /\ at = "hijack" => /\ Bare /\ status = 101 /\ ctype = "none"
                       /\ captured = 0 /\ err = Nil
    /\ at \in Late => ~Nothing
    /\ err = Nil /\ at \in {"recover", "error"} => ~Nothing
    /\ err # Nil /\ at \in {"recover", "error"} => Nothing \/ Bare
    /\ err \notin {Nil, Plain} =>
          IF at \in Late THEN status \in {101, err} ELSE Nothing \/ status = 101
    /\ captured # 0 => err = captured

(* The log holds at most what the error handler and the request logger     *)
(* wrote, in this order, both of this very answer.                         *)
U == [line |-> "unexpected error", status |-> status, traced |-> TRUE]
W == [line |-> "write error response", status |-> 0, traced |-> TRUE]
A == [line |-> "http request", status |-> status, traced |-> TRUE]

(* Nothing to log: no 5xx was told, and no code of an error got lost.      *)
Quiet ==
    /\ ~(status >= 500 /\ err # Nil /\ body # <<>>)
    /\ err \notin {Nil, Plain} /\ status # 101 => body # <<>>
Logged(none, u, w, uw) ==
    \/ logs = none /\ Quiet
    \/ logs = u /\ body # <<>>
    \/ logs = w /\ body = <<>> /\ ~(status >= 500)
    \/ logs = uw /\ body = <<>>
LogShape ==
    /\ at \notin Late => logs = <<>>
    /\ at = "log" => Logged(<<>>, <<U>>, <<W>>, <<U, W>>)
    /\ at \in {"serveHTTP", "end"} => Logged(<<A>>, <<U, A>>, <<W, A>>, <<U, W, A>>)

EnvelopeInv == Typed /\ Response /\ Progress /\ LogShape

----------------------------------------------------------------------------
LEMMA Tuples ==
    ASSUME NEW x, NEW y, NEW z
    PROVE  /\ <<x>> \o <<y>> = <<x, y>>
           /\ Append(<<x>>, y) = <<x, y>>
           /\ Append(<<x, y>>, z) = <<x, y, z>>
  <1> DEFINE S == {x, y, z}
  <1>1. /\ x \in S /\ y \in S /\ z \in S
        /\ <<x>> \in Seq(S) /\ <<y>> \in Seq(S)
        /\ <<x, y>> \in Seq(S) /\ <<x, y, z>> \in Seq(S)
    OBVIOUS
  <1> HIDE DEF S
  <1>2. <<x>> \o <<y>> = <<x, y>>
    <2>1. <<x>> \o <<y>> \in Seq(S) /\ Len(<<x>> \o <<y>>) = 2
      BY <1>1
    <2>2. (<<x>> \o <<y>>)[1] = x /\ (<<x>> \o <<y>>)[2] = y
      BY <1>1
    <2>3. \A i \in 1 .. 2 : (<<x>> \o <<y>>)[i] = <<x, y>>[i]
      BY <2>2
    <2> QED BY <1>1, <2>1, <2>3, SeqEqual
  <1>3. Append(<<x>>, y) = <<x, y>>
    <2>1. Append(<<x>>, y) \in Seq(S) /\ Len(Append(<<x>>, y)) = 2
      BY <1>1
    <2>2. Append(<<x>>, y)[1] = x /\ Append(<<x>>, y)[2] = y
      BY <1>1
    <2>3. \A i \in 1 .. 2 : Append(<<x>>, y)[i] = <<x, y>>[i]
      BY <2>2
    <2> QED BY <1>1, <2>1, <2>3, SeqEqual
  <1>4. Append(<<x, y>>, z) = <<x, y, z>>
    <2>1. Append(<<x, y>>, z) \in Seq(S) /\ Len(Append(<<x, y>>, z)) = 3
      BY <1>1
    <2>2. /\ Append(<<x, y>>, z)[1] = x /\ Append(<<x, y>>, z)[2] = y
          /\ Append(<<x, y>>, z)[3] = z
      BY <1>1
    <2>3. \A i \in 1 .. 3 : Append(<<x, y>>, z)[i] = <<x, y, z>>[i]
      BY <2>2
    <2> QED BY <1>1, <2>1, <2>3, SeqEqual
  <1> QED BY <1>2, <1>3, <1>4

LEMMA Empties ==
    ASSUME NEW x, NEW y
    PROVE  /\ <<>> \o <<x>> = <<x>> /\ <<x>> \o <<>> = <<x>>
           /\ <<>> \o <<x, y>> = <<x, y>> /\ <<>> \o <<>> = <<>>
           /\ Append(<<>>, x) = <<x>>
  <1> DEFINE S == {x, y}
  <1>1. <<x>> \in Seq(S) /\ <<x, y>> \in Seq(S) /\ x \in S /\ <<>> \in Seq(S)
    OBVIOUS
  <1> HIDE DEF S
  <1>2. <<>> \o <<x>> = <<x>> /\ <<x>> \o <<>> = <<x>>
    BY <1>1, ConcatEmptySeq
  <1>3. <<>> \o <<x, y>> = <<x, y>> /\ <<>> \o <<>> = <<>>
    BY <1>1, ConcatEmptySeq
  <1>4. Append(<<>>, x) = <<x>>
    OBVIOUS
  <1> QED BY <1>2, <1>3, <1>4

(* Where the response and the error stay, so does what was to be logged. *)
LEMMA LinesStay ==
    ASSUME UNCHANGED <<err, response>>
    PROVE  /\ U' = U /\ W' = W /\ A' = A
           /\ body' = body /\ status' = status /\ (Quiet' <=> Quiet)
  BY DEF U, W, A, Quiet, response

LEMMA ResponseStays ==
    ASSUME UNCHANGED <<err, response, captured>>
    PROVE  /\ Nothing' <=> Nothing
           /\ Bare' <=> Bare
           /\ Full' <=> Full
           /\ Manual' <=> Manual
           /\ status' = status /\ ctype' = ctype
  <1>1. /\ status' = status /\ committed' = committed /\ ctype' = ctype
        /\ head' = head /\ body' = body
    BY DEF response
  <1> QED BY <1>1, Zenon DEF Nothing, Bare, Full, Manual

LEMMA InitEnvelope == Init => EnvelopeInv
  <1> SUFFICES ASSUME Init PROVE EnvelopeInv
    OBVIOUS
  <1>1. Nothing
    BY DEF Init, Nothing
  <1>2. Typed
    <2>1. traceID \in BOOLEAN /\ at = "requestID"
      BY Zenon DEF Init
    <2>2. /\ err \in {Nil, Plain} \cup (400 .. 599) /\ status \in 100 .. 599
          /\ captured \in {0} \cup (400 .. 599)
      BY DEF Init
    <2> QED BY <2>1, <2>2, ZenonT(30) DEF Typed, Before
  <1>3. Progress /\ LogShape
    BY <1>1 DEF Init, Progress, LogShape, Before, Late, Nil
  <1> QED BY <1>1, <1>2, <1>3 DEF EnvelopeInv, Response

(* An envelope over nothing is the answer, unless it does not get out. *)
LEMMA Answered ==
    ASSUME Nothing, NEW s \in (100 .. 599) \ {101, 204}, NEW d \in BOOLEAN, JSON(s, d)
    PROVE  /\ status' = s
           /\ IF d THEN Full' ELSE Bare'
  BY DEF Nothing, JSON, Commit, Full, Bare

LEMMA WriteKeeps ==
    ASSUME EnvelopeInv, NEW s \in Answers, Write(s) PROVE EnvelopeInv'
  <1> PICK d \in BOOLEAN :
         /\ Go("handler", "recover")
         /\ JSON(s, d)
         /\ err' = IF d THEN Nil ELSE Plain
         /\ UNCHANGED <<traceID, captured, logs>>
    BY DEF Write
  <1>1. s \in (100 .. 599) \ {101, 204}
    BY EnvelopeAssumption
  <1>2. Nothing /\ captured = 0
    BY DEF EnvelopeInv, Progress, Before, Go
  <1>3. status' = s /\ IF d THEN Full' ELSE Bare'
    BY <1>1, <1>2, Answered
  <1>4. Response' /\ (Bare' \/ Full') /\ ~Nothing' /\ (err' # Nil => Bare')
    BY <1>3 DEF Response, Bare, Full, Nothing, Nil, Plain
  <1>5. Typed' /\ LogShape'
    BY <1>1, <1>3 DEF EnvelopeInv, Typed, LogShape, Go, Before, Late, Nil, Plain
  <1>6. Progress'
    BY <1>2, <1>4 DEF Progress, Go, Before, Late, Nil, Plain
  <1> QED BY <1>4, <1>5, <1>6 DEF EnvelopeInv

LEMMA SwaggerKeeps == ASSUME EnvelopeInv, Swagger PROVE EnvelopeInv'
  <1>1. Nothing /\ captured = 0 /\ err = Nil /\ logs = <<>> /\ Debug
    BY DEF EnvelopeInv, Progress, LogShape, Swagger, Go, Before, Late
  <1>2. at' = "recover" /\ UNCHANGED <<err, traceID, captured, logs>>
    BY DEF Swagger, Go
  <1>3. status' \in {200, 301, 404} /\ (Bare' \/ Manual')
    <2>1. CASE Page
      <3>1. /\ status' \in {200, 404} /\ ctype' = "page"
            /\ head' = <<[status |-> status', type |-> "page"]>>
            /\ body' = <<"page">>
        BY <1>1, <2>1 DEF Page, Nothing
      <3>2. committed' \in BOOLEAN
        BY <2>1, Zenon DEF Page
      <3> QED BY <1>1, <1>2, <3>1, <3>2 DEF Manual
    <2>2. CASE Redirect
      BY <1>1, <2>2 DEF Redirect, Commit, Nothing, Bare
    <2> QED BY <2>1, <2>2 DEF Swagger
  <1>4. ~Nothing'
    BY <1>3 DEF Nothing, Bare, Manual
  <1>5. Typed' /\ LogShape'
    <2>1. status' \in 100 .. 599
      BY <1>3
    <2>2. LogShape'
      BY <1>1, <1>2 DEF LogShape, Late
    <2>3. traceID' = TRUE
      BY <1>2 DEF EnvelopeInv, Typed, Swagger, Go
    <2> QED BY <1>1, <1>2, <2>1, <2>2, <2>3, Zenon DEF EnvelopeInv, Typed
  <1>6. Progress' /\ Response'
    BY <1>1, <1>2, <1>3, <1>4 DEF Progress, Response, Before, Late
  <1> QED BY <1>5, <1>6 DEF EnvelopeInv

LEMMA PreflightKeeps == ASSUME EnvelopeInv, Preflight PROVE EnvelopeInv'
  <1>1. Nothing /\ captured = 0 /\ err = Nil /\ logs = <<>>
    BY DEF EnvelopeInv, Progress, LogShape, Preflight, Go, Before, Late
  <1>2. Bare' /\ status' = 204
    BY <1>1 DEF Preflight, Commit, Nothing, Bare
  <1>3. Typed' /\ LogShape'
    BY <1>1, <1>2 DEF EnvelopeInv, Typed, LogShape, Preflight, Go, Before, Late
  <1>4. Progress' /\ Response'
    BY <1>1, <1>2
    DEF Progress, Response, Nothing, Bare, Preflight, Go, Before, Late, Nil
  <1> QED BY <1>3, <1>4 DEF EnvelopeInv

LEMMA UpgradeKeeps == ASSUME EnvelopeInv, Upgrade PROVE EnvelopeInv'
  <1>1. Nothing /\ captured = 0 /\ err = Nil /\ logs = <<>>
    BY DEF EnvelopeInv, Progress, LogShape, Upgrade, Go, Before, Late
  <1>2. Bare' /\ status' = 101
    BY <1>1 DEF Upgrade, Commit, Nothing, Bare
  <1>3. Typed' /\ LogShape'
    BY <1>1, <1>2 DEF EnvelopeInv, Typed, LogShape, Upgrade, Go, Before, Late
  <1>4. Progress' /\ Response'
    BY <1>1, <1>2
    DEF Progress, Response, Nothing, Bare, Upgrade, Go, Before, Late, Nil, Plain
  <1> QED BY <1>3, <1>4 DEF EnvelopeInv

(* An error of a handler, or a refused handshake, comes up with nothing    *)
(* said.                                                                   *)
LEMMA ReturnKeeps ==
    ASSUME EnvelopeInv, NEW e \in Codes \cup {Plain}, Return(e) PROVE EnvelopeInv'
  <1>1. /\ Nothing /\ captured = 0 /\ logs = <<>>
        /\ at' = "recover" /\ err' = e
        /\ UNCHANGED <<response, traceID, captured, logs>>
    BY DEF EnvelopeInv, Progress, LogShape, Return, Go, Before, Late
  <1>2. Nothing' /\ Response'
    BY <1>1 DEF Nothing, Response, response
  <1>3. e \in {Nil, Plain} \cup (400 .. 599) /\ e # Nil
    BY EnvelopeAssumption DEF Nil, Plain
  <1>4. Typed' /\ LogShape'
    BY <1>1, <1>3 DEF EnvelopeInv, Typed, LogShape, response, Return, Go, Before, Late
  <1>5. Progress'
    BY <1>1, <1>2, <1>3 DEF Progress, Before, Late
  <1> QED BY <1>2, <1>4, <1>5 DEF EnvelopeInv

LEMMA RefuseKeeps ==
    ASSUME EnvelopeInv, NEW s \in Refusals, Refuse(s) PROVE EnvelopeInv'
  <1>1. /\ Nothing /\ logs = <<>>
        /\ at' = "recover" /\ err' = s /\ captured' = s /\ ctype' = "none"
        /\ UNCHANGED <<status, committed, head, body, traceID, logs>>
    BY DEF EnvelopeInv, Progress, LogShape, Refuse, Capture, Go, Before, Late
  <1>2. Nothing' /\ Response'
    BY <1>1 DEF Nothing, Response
  <1>3. s \in 400 .. 599
    BY EnvelopeAssumption
  <1>4. Typed' /\ LogShape'
    BY <1>1, <1>3 DEF EnvelopeInv, Typed, LogShape, Refuse, Go, Before, Late
  <1>5. Progress'
    BY <1>1, <1>2, <1>3 DEF Progress, Before, Late, Nil, Plain
  <1> QED BY <1>2, <1>4, <1>5 DEF EnvelopeInv

(* Once the 101 is out no failure changes the answer. *)
LEMMA HijackKeeps ==
    ASSUME EnvelopeInv, HijackFails \/ Serve PROVE EnvelopeInv'
  <1>1. /\ Bare /\ status = 101 /\ ctype = "none" /\ captured = 0 /\ err = Nil
        /\ logs = <<>> /\ at = "hijack" /\ at' = "recover"
        /\ UNCHANGED <<status, committed, head, body, traceID, logs>>
    BY DEF EnvelopeInv, Progress, LogShape, HijackFails, Serve, Capture, Go, Late, response
  <1>2. CASE Serve
    <2>1. Bare' /\ ~Nothing' /\ Response' /\ err' = Nil /\ captured' = 0
      BY <1>1, <1>2 DEF Serve, response, Bare, Nothing, Response
    <2> QED BY <1>1, <2>1
        DEF EnvelopeInv, Typed, Progress, LogShape, Before, Late
  <1>3. CASE HijackFails
    <2>1. ctype' = "none" /\ err' = 500 /\ captured' = 500
      BY <1>3 DEF HijackFails, Capture
    <2>2. Bare' /\ ~Nothing' /\ Response' /\ err' # Nil
      BY <1>1, <2>1 DEF Bare, Nothing, Response, Nil
    <2>3. Typed' /\ LogShape'
      BY <1>1, <2>1 DEF EnvelopeInv, Typed, LogShape, Before, Late
    <2>4. Progress'
      BY <1>1, <2>1, <2>2 DEF Progress, Before, Late
    <2> QED BY <2>2, <2>3, <2>4 DEF EnvelopeInv
  <1> QED BY <1>2, <1>3

LEMMA PanicKeeps == ASSUME EnvelopeInv, Panic PROVE EnvelopeInv'
  <1>1. /\ logs = <<>> /\ captured = 0
        /\ Nothing \/ (Bare /\ status = 101)
        /\ at' = "recover" /\ err' = Plain
        /\ UNCHANGED <<response, traceID, captured, logs>>
    BY DEF EnvelopeInv, Progress, LogShape, Panic, Before, Late
  <1>2. LogShape' /\ Typed'
    BY <1>1 DEF EnvelopeInv, Typed, LogShape, response, Panic, Before, Late
  <1>3. /\ Nothing' \/ (Bare' /\ status' = 101)
    BY <1>1 DEF Nothing, Bare, response
  <1>4. Response' /\ Progress'
    BY <1>1, <1>3 DEF Response, Progress, Before, Late, Nil, Plain
  <1> QED BY <1>2, <1>4 DEF EnvelopeInv

LEMMA RequestIDKeeps == ASSUME EnvelopeInv, RequestID PROVE EnvelopeInv'
  <1>1. /\ at = "requestID" /\ at' = "handler" /\ traceID' = TRUE
        /\ UNCHANGED <<err, response, captured, logs>>
    BY DEF RequestID, Go
  <1>2. Typed' /\ LogShape'
    BY <1>1 DEF EnvelopeInv, Typed, LogShape, response, Before, Late
  <1>3. Response' /\ Progress'
    BY <1>1, ResponseStays DEF EnvelopeInv, Response, Progress, Before, Late
  <1> QED BY <1>2, <1>3 DEF EnvelopeInv

LEMMA RecoverKeeps == ASSUME EnvelopeInv, Recover PROVE EnvelopeInv'
  <1>1. /\ at = "recover" /\ at' = "error"
        /\ UNCHANGED <<err, response, traceID, captured, logs>>
    BY DEF Recover, Go
  <1>2. Typed' /\ LogShape'
    BY <1>1 DEF EnvelopeInv, Typed, LogShape, response, Before, Late
  <1>3. Response' /\ Progress'
    BY <1>1, ResponseStays DEF EnvelopeInv, Response, Progress, Before, Late
  <1> QED BY <1>2, <1>3 DEF EnvelopeInv

----------------------------------------------------------------------------
(* The error handler leaves an answer alone, and gives one where there is  *)
(* none.                                                                   *)
LEMMA ErrorsAnswers ==
    ASSUME EnvelopeInv, err # Nil, traceID = TRUE, logs = <<>>, ~committed,
           NEW d \in BOOLEAN, Errors(d), UNCHANGED err
    PROVE  /\ IF d THEN Full' ELSE Bare'
           /\ status' = IF err = Plain THEN 500 ELSE err
           /\ status' \in 400 .. 599
           /\ Logged(<<>>, <<U>>, <<W>>, <<U, W>>)'
  <1> DEFINE s == IF err = Plain THEN 500 ELSE err
  <1>1. Nothing
    BY DEF EnvelopeInv, Response, Bare, Full, Manual
  <1>2. s \in (100 .. 599) \ {101, 204} /\ s \in 400 .. 599
    BY DEF EnvelopeInv, Typed, Nil, Plain
  <1>3. /\ JSON(s, d)
        /\ logs' = logs \o Lines(s, d)
    BY DEF Errors
  <1>4. status' = s /\ IF d THEN Full' ELSE Bare'
    BY <1>1, <1>2, <1>3, Answered
  <1>5. body' # <<>> <=> d
    BY <1>4 DEF Full, Bare
  <1>6. Line("unexpected error", s) = U' /\ Line("write error response", 0) = W'
    BY <1>4 DEF Line, U, W
  <1>7. Logged(<<>>, <<U>>, <<W>>, <<U, W>>)'
    <2> PICK u, w : u = U' /\ w = W'
      OBVIOUS
    <2> HIDE DEF s
    <2>0. Line("unexpected error", s) = u /\ Line("write error response", 0) = w
      BY <1>6
    <2>1. logs' = <<>> \o ((IF s >= 500 THEN <<u>> ELSE <<>>)
                           \o (IF d THEN <<>> ELSE <<w>>))
      <3>1. Lines(s, d) = (IF s >= 500 THEN <<u>> ELSE <<>>)
                             \o (IF d THEN <<>> ELSE <<w>>)
        BY <2>0, Zenon DEF Lines
      <3> QED BY <1>3, <3>1, Zenon
    <2>2. /\ <<u>> \o <<w>> = <<u, w>> /\ <<u>> \o <<>> = <<u>>
          /\ <<>> \o <<w>> = <<w>> /\ <<>> \o <<u>> = <<u>>
          /\ <<>> \o <<u, w>> = <<u, w>> /\ <<>> \o <<>> = <<>>
      BY Tuples, Empties
    <2>3. CASE s >= 500 /\ d
      <3>1. logs' = <<u>>
        BY <2>1, <2>2, <2>3, Zenon
      <3> QED BY <1>5, <2>3, <3>1, Zenon DEF Logged
    <2>4. CASE s >= 500 /\ ~d
      <3>1. logs' = <<u, w>>
        BY <2>1, <2>2, <2>4, Zenon
      <3> QED BY <1>5, <2>4, <3>1, Zenon DEF Logged
    <2>5. CASE ~(s >= 500) /\ d
      <3>1. logs' = <<>>
        BY <2>1, <2>2, <2>5, Zenon
      <3>2. Quiet'
        BY <1>4, <1>5, <2>5 DEF Quiet
      <3> QED BY <3>1, <3>2, Zenon DEF Logged
    <2>6. CASE ~(s >= 500) /\ ~d
      <3>1. logs' = <<w>>
        BY <2>1, <2>2, <2>6, Zenon
      <3> QED BY <1>4, <1>5, <2>6, <3>1, Zenon DEF Logged
    <2> QED BY <2>3, <2>4, <2>5, <2>6
  <1> QED BY <1>2, <1>4, <1>7

LEMMA HandleKeeps == ASSUME EnvelopeInv, HandleError PROVE EnvelopeInv'
  <1>1. /\ at = "error" /\ at' = "log" /\ logs = <<>> /\ traceID
        /\ UNCHANGED <<err, traceID, captured>>
    BY DEF EnvelopeInv, Typed, LogShape, HandleError, Go, Late
  <1>2. CASE UNCHANGED <<response, logs>> /\ ~Nothing
    <2>1. Response' /\ ~Nothing'
      BY <1>1, <1>2 DEF EnvelopeInv, Response, Nothing, Bare, Full, Manual, response
    <2>2. Quiet
      <3>1. err # Nil => Bare
        BY <1>1, <1>2 DEF EnvelopeInv, Progress
      <3>2. err # Nil => body = <<>>
        BY <3>1 DEF Bare
      <3>3. err \notin {Nil, Plain} => status = 101
        BY <1>1, <1>2 DEF EnvelopeInv, Progress, Late
      <3> QED BY <3>2, <3>3, Zenon DEF Quiet, Nil
    <2>3. LogShape'
      <3>1. logs' = <<>> /\ Quiet'
        BY <1>1, <1>2, <2>2, LinesStay
      <3> QED BY <1>1, <3>1 DEF LogShape, Logged, Late
    <2>4. Typed' /\ Progress'
      BY <1>1, <1>2, <2>1 DEF EnvelopeInv, Typed, Progress, response, Before, Late
    <2> QED BY <2>1, <2>3, <2>4 DEF EnvelopeInv
  <1>3. CASE Nothing /\ err # Nil
    <2> PICK d \in BOOLEAN : Errors(d)
      BY <1>3 DEF HandleError
    <2>1. ~committed
      BY <1>3 DEF Nothing
    <2>2. traceID = TRUE
      BY <1>1 DEF EnvelopeInv, Typed
    <2>3. /\ IF d THEN Full' ELSE Bare'
          /\ status' = IF err = Plain THEN 500 ELSE err
          /\ status' \in 400 .. 599
          /\ Logged(<<>>, <<U>>, <<W>>, <<U, W>>)'
      BY <1>1, <1>3, <2>1, <2>2, ErrorsAnswers
    <2>4. Response' /\ ~Nothing' /\ (Full' \/ Bare')
      BY <2>3 DEF Response, Nothing, Full, Bare
    <2>5. LogShape'
      <3>1. at' \in Late /\ at' \notin {"serveHTTP", "end"}
        BY <1>1 DEF Late
      <3> QED BY <2>3, <3>1, Zenon DEF LogShape
    <2>6. Typed'
      BY <1>1, <2>3 DEF EnvelopeInv, Typed, Before, Late
    <2>7. Progress'
      BY <1>1, <1>3, <2>3, <2>4 DEF EnvelopeInv, Progress, Before, Late, Plain
    <2> QED BY <2>4, <2>5, <2>6, <2>7 DEF EnvelopeInv
  <1>4. (UNCHANGED <<response, logs>> /\ ~Nothing) \/ (Nothing /\ err # Nil)
    <2>1. CASE err = Nil
      BY <1>1, <2>1 DEF EnvelopeInv, Progress, HandleError
    <2>2. CASE err # Nil /\ ~Nothing
      <3>1. committed
        BY <2>2 DEF EnvelopeInv, Response, Bare, Full, Manual
      <3> QED BY <2>2, <3>1 DEF HandleError, Errors
    <2> QED BY <2>1, <2>2
  <1> QED BY <1>2, <1>3, <1>4

LEMMA LogKeeps == ASSUME EnvelopeInv, LogRequest PROVE EnvelopeInv'
  <1>1. /\ at = "log" /\ at' = "serveHTTP" /\ traceID = TRUE
        /\ logs' = Append(logs, Line("http request", status))
        /\ UNCHANGED <<err, response, traceID, captured>>
    BY DEF EnvelopeInv, Typed, LogRequest, Go
  <1>2. logs' = Append(logs, A)
    BY <1>1 DEF Line, A
  <1>3. Logged(<<A>>, <<U, A>>, <<W, A>>, <<U, W, A>>)'
    <2>1. Logged(<<>>, <<U>>, <<W>>, <<U, W>>)
      BY <1>1 DEF EnvelopeInv, LogShape
    <2>2. /\ Append(<<>>, A) = <<A>>
          /\ Append(<<U>>, A) = <<U, A>> /\ Append(<<W>>, A) = <<W, A>>
          /\ Append(<<U, W>>, A) = <<U, W, A>>
      <3> PICK u, w, a : u = U /\ w = W /\ a = A
        OBVIOUS
      <3>1. /\ Append(<<>>, a) = <<a>>
            /\ Append(<<u>>, a) = <<u, a>> /\ Append(<<w>>, a) = <<w, a>>
            /\ Append(<<u, w>>, a) = <<u, w, a>>
        BY Tuples, Empties
      <3> QED BY <3>1, Zenon
    <2>3. /\ U' = U /\ W' = W /\ A' = A
          /\ body' = body /\ status' = status /\ (Quiet' <=> Quiet)
      BY <1>1, LinesStay
    <2> QED BY <1>2, <2>1, <2>2, <2>3, Zenon DEF Logged
  <1>4. LogShape'
    <2>1. at' \in Late /\ at' # "log"
      BY <1>1 DEF Late
    <2> QED BY <1>3, <2>1, Zenon DEF LogShape
  <1>5. Typed' /\ Response' /\ Progress'
    <2>1. Typed'
      BY <1>1 DEF EnvelopeInv, Typed, Late, response
    <2> QED BY <1>1, <2>1, ResponseStays
        DEF EnvelopeInv, Response, Progress, Before, Late
  <1> QED BY <1>4, <1>5 DEF EnvelopeInv

(* The second call of the error handler finds the answer of the first. *)
LEMMA ServeHTTPKeeps == ASSUME EnvelopeInv, ServeHTTP PROVE EnvelopeInv'
  <1>1. /\ at = "serveHTTP" /\ at' = "end"
        /\ UNCHANGED <<err, traceID, captured>>
    BY DEF ServeHTTP, Go
  <1>2. committed \/ err = Nil
    BY <1>1 DEF EnvelopeInv, Progress, Response, Bare, Full, Manual, Late
  <1>3. UNCHANGED <<response, logs>>
    BY <1>2 DEF ServeHTTP, Errors
  <1>4. LogShape'
    <2>1. /\ U' = U /\ W' = W /\ A' = A
          /\ body' = body /\ status' = status /\ (Quiet' <=> Quiet)
      BY <1>1, <1>3, LinesStay
    <2>2. Logged(<<A>>, <<U, A>>, <<W, A>>, <<U, W, A>>)'
      BY <1>1, <1>3, <2>1, Zenon DEF EnvelopeInv, LogShape, Logged
    <2>3. at' \in Late /\ at' # "log"
      BY <1>1 DEF Late
    <2> QED BY <2>2, <2>3, Zenon DEF LogShape
  <1>5. Typed' /\ Response' /\ Progress'
    BY <1>1, <1>3, ResponseStays
    DEF EnvelopeInv, Typed, Response, Progress, Before, Late
  <1> QED BY <1>4, <1>5 DEF EnvelopeInv

(* The inductive invariant of a request. *)
THEOREM EnvelopeInvCorrect == Spec => []EnvelopeInv
  <1>1. EnvelopeInv /\ [Next]_vars => EnvelopeInv'
    <2> SUFFICES ASSUME EnvelopeInv, [Next]_vars PROVE EnvelopeInv'
      OBVIOUS
    <2>1. ASSUME NEW s \in Answers, Write(s) PROVE EnvelopeInv'
      BY <2>1, WriteKeeps
    <2>2. ASSUME NEW e \in Codes \cup {Plain}, Return(e) PROVE EnvelopeInv'
      BY <2>2, ReturnKeeps
    <2>3. ASSUME NEW s \in Refusals, Refuse(s) PROVE EnvelopeInv'
      BY <2>3, RefuseKeeps
    <2>4. CASE Preflight \/ Swagger \/ Upgrade
      BY <2>4, PreflightKeeps, SwaggerKeeps, UpgradeKeeps
    <2>5. CASE HijackFails \/ Serve \/ Panic
      BY <2>5, HijackKeeps, PanicKeeps
    <2>6. CASE RequestID \/ Recover
      BY <2>6, RequestIDKeeps, RecoverKeeps
    <2>7. CASE HandleError \/ LogRequest \/ ServeHTTP
      BY <2>7, HandleKeeps, LogKeeps, ServeHTTPKeeps
    <2>8. CASE UNCHANGED vars
      <3>0. UNCHANGED <<at, err, response, traceID, captured, logs>>
        BY <2>8 DEF vars
      <3>1. Typed' /\ Response' /\ Progress'
        BY <3>0, ResponseStays DEF EnvelopeInv, Typed, Response, Progress, Before, Late
      <3>2. /\ U' = U /\ W' = W /\ A' = A /\ logs' = logs /\ at' = at
            /\ body' = body /\ status' = status /\ (Quiet' <=> Quiet)
        BY <3>0, LinesStay
      <3>3. LogShape'
        <4>1. Logged(<<>>, <<U>>, <<W>>, <<U, W>>)
                 => Logged(<<>>, <<U>>, <<W>>, <<U, W>>)'
          BY <3>2, Zenon DEF Logged
        <4>2. Logged(<<A>>, <<U, A>>, <<W, A>>, <<U, W, A>>)
                 => Logged(<<A>>, <<U, A>>, <<W, A>>, <<U, W, A>>)'
          BY <3>2, Zenon DEF Logged
        <4> QED BY <3>2, <4>1, <4>2, Zenon DEF EnvelopeInv, LogShape
      <3> QED BY <3>1, <3>3 DEF EnvelopeInv
    <2> QED BY <2>1, <2>2, <2>3, <2>4, <2>5, <2>6, <2>7, <2>8 DEF Next
  <1> QED BY <1>1, InitEnvelope, PTL DEF Spec

----------------------------------------------------------------------------
(* One answer however a request ends, never two and never none             *)
(* (errors.go:14-16, gateway.go:17-22).                                    *)
THEOREM OneAnswerCorrect == Spec => []OneAnswer
  <1>1. EnvelopeInv => OneAnswer
    <2> SUFFICES ASSUME EnvelopeInv PROVE OneAnswer
      OBVIOUS
    <2>1. Len(body) <= 1
      <3>1. body = <<>> \/ body = <<"envelope">> \/ body = <<"page">>
        BY DEF EnvelopeInv, Response, Nothing, Bare, Full, Manual
      <3>2. CASE body = <<>>
        BY <3>2
      <3>3. CASE body = <<"envelope">> \/ body = <<"page">>
        <4>1. Len(body) = 1
          BY <3>3
        <4> QED BY <4>1
      <3> QED BY <3>1, <3>2, <3>3
    <2>2. at = "end" => Len(head) = 1
      BY DEF EnvelopeInv, Response, Progress, Nothing, Bare, Full, Manual, Late
    <2> QED BY <2>1, <2>2 DEF OneAnswer
  <1> QED BY <1>1, EnvelopeInvCorrect, PTL

(* What has a body is the JSON envelope and says so, or, in debug mode and *)
(* without an error, a page of the documentation (ws_hub.go:110-135,       *)
(* router.go:25-31).                                                       *)
THEOREM EnvelopeOnlyCorrect == Spec => []EnvelopeOnly
  <1>1. EnvelopeInv => EnvelopeOnly
    BY DEF EnvelopeInv, Response, Nothing, Bare, Full, Manual, EnvelopeOnly, Sent
  <1> QED BY <1>1, EnvelopeInvCorrect, PTL

(* The client sees the status the handshake was refused with, or the code  *)
(* of the error, unless a 101 is out (gateway.go:18-20, errors.go:18-23).  *)
THEOREM StatusCorrect == Spec => []StatusKept
  <1>1. EnvelopeInv => StatusKept
    <2> SUFFICES ASSUME EnvelopeInv, at = "end" PROVE StatusKept
      BY DEF StatusKept
    <2>1. Sent = status
      BY DEF EnvelopeInv, Response, Progress, Bare, Full, Manual, Late, Sent
    <2>2. err \notin {Nil, Plain} => status \in {101, err}
      BY DEF EnvelopeInv, Progress, Late
    <2>3. captured # 0 => err = captured /\ err \notin {Nil, Plain}
      BY DEF EnvelopeInv, Progress, Typed, Nil, Plain
    <2> QED BY <2>1, <2>2, <2>3 DEF StatusKept
  <1> QED BY <1>1, EnvelopeInvCorrect, PTL

LEMMA OneLine ==
    ASSUME NEW S, NEW x \in S, NEW s, s = <<>> \/ s = <<x>>
    PROVE  s \in Seq(S)
  <1>1. <<>> \in Seq(S)
    OBVIOUS
  <1>2. <<x>> \in Seq(S)
    OBVIOUS
  <1>3. CASE s = <<>>
    BY <1>1, <1>3, Zenon
  <1>4. CASE s = <<x>>
    BY <1>2, <1>4, Zenon
  <1> QED BY <1>3, <1>4

(* What the log can hold, and how much of it by the end of the request. *)
LEMMA WhatIsLogged ==
    ASSUME EnvelopeInv
    PROVE  /\ logs # <<>> => ~Nothing
           /\ \A i \in DOMAIN logs : logs[i] \in {U, W, A}
           /\ at = "end" => Logged(<<A>>, <<U, A>>, <<W, A>>, <<U, W, A>>)
  <1>1. at \in Late => ~Nothing
    BY DEF EnvelopeInv, Progress
  <1>2. at = "end" => Logged(<<A>>, <<U, A>>, <<W, A>>, <<U, W, A>>)
    BY Zenon DEF EnvelopeInv, LogShape
  <1>3. at \notin Late => logs = <<>>
    BY DEF EnvelopeInv, LogShape
  <1>4. \/ logs = <<>> \/ logs = <<U>> \/ logs = <<W>> \/ logs = <<U, W>>
        \/ logs = <<A>> \/ logs = <<U, A>> \/ logs = <<W, A>> \/ logs = <<U, W, A>>
    <2>1. at \in Late => at = "log" \/ at \in {"serveHTTP", "end"}
      BY DEF Late
    <2> QED BY <1>3, <2>1, Zenon DEF EnvelopeInv, LogShape, Logged
  <1>5. \A i \in DOMAIN logs : logs[i] \in {U, W, A}
    <2> HIDE DEF U, W, A
    <2> QED BY <1>4
  <1> QED BY <1>1, <1>2, <1>3, <1>5

LEMMA LinesDiffer ==
    /\ U.line = "unexpected error" /\ U.status = status /\ U.traced
    /\ W.line = "write error response" /\ W.traced
    /\ A.line = "http request" /\ A.status = status
  BY DEF U, W, A

LEMMA SentIsStatus == ASSUME EnvelopeInv, ~Nothing PROVE head # <<>> /\ Sent = status
  BY DEF EnvelopeInv, Response, Bare, Full, Manual, Sent

LEMMA NoDomain == DOMAIN <<>> = {}
  <1>1. <<>> \in Seq({}) /\ Len(<<>>) = 0
    BY EmptySeq
  <1>2. DOMAIN <<>> = 1 .. 0
    BY <1>1, LenProperties
  <1> QED BY <1>2

(* The access log gives the status the client was sent. *)
THEOREM LogCorrect == Spec => []LogTellsTruth
  <1>1. EnvelopeInv => LogTellsTruth
    <2> SUFFICES ASSUME EnvelopeInv, NEW i \in DOMAIN logs, logs[i].line = "http request"
                 PROVE  head # <<>> /\ logs[i].status = Sent
      BY DEF LogTellsTruth, Access, At
    <2>1. logs # <<>>
      BY NoDomain, Zenon
    <2>2. logs[i] \in {U, W, A}
      BY WhatIsLogged, Zenon
    <2>3. logs[i].status = status
      BY <2>2, LinesDiffer
    <2> QED BY <2>1, <2>3, WhatIsLogged, SentIsStatus
  <1> QED BY <1>1, EnvelopeInvCorrect, PTL

(* A 5xx of the error handler is logged once, with the trace ID the client *)
(* was given, and so is an answer of it that does not get out              *)
(* (errors.go:25-42).                                                      *)
THEOREM TracedCorrect == Spec => []TracedOnce
  <1>1. EnvelopeInv => TracedOnce
    <2> SUFFICES ASSUME EnvelopeInv, at = "end" PROVE TracedOnce
      BY DEF TracedOnce
    <2>1. Sent = status
      BY SentIsStatus DEF EnvelopeInv, Progress, Late
    <2>2. Logged(<<A>>, <<U, A>>, <<W, A>>, <<U, W, A>>)
      BY WhatIsLogged
    <2> USE DEF Unexpected, Unwritten, At
    <2>3. CASE logs = <<A>> /\ Quiet
      <3>1. DOMAIN logs = {1} /\ logs[1] = A
        BY <2>3
      <3>2. Unexpected = {} /\ Unwritten = {}
        BY <3>1, LinesDiffer
      <3> QED BY <2>1, <2>3, <3>2 DEF TracedOnce, Quiet
    <2>4. CASE logs = <<U, A>> /\ body # <<>>
      <3>1. DOMAIN logs = {1, 2} /\ logs[1] = U /\ logs[2] = A
        BY <2>4
      <3>2. Unexpected = {1} /\ Unwritten = {}
        BY <3>1, LinesDiffer
      <3>3. logs[1].traced /\ logs[1].status = Sent
        BY <2>1, <3>1, LinesDiffer
      <3> HIDE DEF Unexpected, Unwritten
      <3> QED BY <2>4, <3>2, <3>3 DEF TracedOnce
    <2>5. CASE logs = <<W, A>> /\ body = <<>> /\ ~(status >= 500)
      <3>1. DOMAIN logs = {1, 2} /\ logs[1] = W /\ logs[2] = A
        BY <2>5
      <3>2. Unexpected = {} /\ Unwritten = {1}
        BY <3>1, LinesDiffer
      <3>3. logs[1].traced
        BY <3>1, LinesDiffer
      <3> HIDE DEF Unexpected, Unwritten
      <3> QED BY <2>5, <3>2, <3>3 DEF TracedOnce
    <2>6. CASE logs = <<U, W, A>> /\ body = <<>>
      <3>1. DOMAIN logs = {1, 2, 3} /\ logs[1] = U /\ logs[2] = W /\ logs[3] = A
        BY <2>6
      <3>2. Unexpected = {1} /\ Unwritten = {2}
        BY <3>1, LinesDiffer
      <3>3. logs[1].traced /\ logs[1].status = Sent /\ logs[2].traced
        BY <2>1, <3>1, LinesDiffer
      <3> HIDE DEF Unexpected, Unwritten
      <3> QED BY <2>6, <3>2, <3>3 DEF TracedOnce
    <2> QED BY <2>2, <2>3, <2>4, <2>5, <2>6 DEF Logged
  <1> QED BY <1>1, EnvelopeInvCorrect, PTL

(* Types; the header is out when the response is committed, and only then  *)
(* but for a page of the documentation.                                    *)
THEOREM TypeCorrect == Spec => []TypeOK
  <1>1. EnvelopeInv => TypeOK
    <2> SUFFICES ASSUME EnvelopeInv PROVE TypeOK
      OBVIOUS
    <2>1. /\ committed \in BOOLEAN
          /\ committed => head # <<>>
          /\ head # <<>> /\ ~committed => body = <<"page">>
      <3>1. CASE Nothing
        BY <3>1, Zenon DEF Nothing
      <3>2. CASE Bare \/ Full
        <4>1. committed = TRUE /\ head # <<>>
          BY <3>2 DEF Bare, Full
        <4> QED BY <4>1, Zenon
      <3>3. CASE Manual
        <4>1. head # <<>> /\ body = <<"page">>
          BY <3>3 DEF Manual
        <4>2. committed \in BOOLEAN
          BY <3>3, Zenon DEF Manual
        <4> QED BY <4>1, <4>2, Zenon
      <3> QED BY <3>1, <3>2, <3>3, Zenon DEF EnvelopeInv, Response
    <2>2. ctype \in {"none", "json", "page"} /\ body \in Seq({"envelope", "text", "page"})
      <3>1. /\ ctype \in {"none", "json", "page"}
            /\ body = <<>> \/ body = <<"envelope">> \/ body = <<"page">>
        BY DEF EnvelopeInv, Response, Nothing, Bare, Full, Manual
      <3> QED BY <3>1, OneLine
    <2>3. head \in Seq([status : 100 .. 599, type : {"none", "json", "page"}])
      <3> DEFINE line == [status |-> status, type |-> ctype]
      <3>1. line \in [status : 100 .. 599, type : {"none", "json", "page"}]
        BY <2>2 DEF EnvelopeInv, Typed
      <3>2. head = <<>> \/ head = <<line>>
        BY DEF EnvelopeInv, Response, Nothing, Bare, Full, Manual
      <3> HIDE DEF line
      <3> QED BY <3>1, <3>2, OneLine
    <2> QED BY <2>1, <2>2, <2>3 DEF EnvelopeInv, Typed, TypeOK, Before, Late
  <1> QED BY <1>1, EnvelopeInvCorrect, PTL
=============================================================================
