# kaeman public API: a formal model

TLA+ specifications of the kaeman public API server, checked with TLC on small
instances and, where it matters most, proved with TLAPS for every instance. All
line numbers are those of the repository (`ws_hub.go:50` is
`src/shared/gateway/ws_hub.go`, line 50).

## 1. The system

The server is one Go process. `cli/main.go` loads the configuration, opens the
database, picks Redis or in-memory stores, builds the routes and serves until a
signal arrives. Game clients and bots talk to it over HTTP; subscribers hold
WebSockets. Handlers run concurrently, one goroutine per request.

| component | state | operations | talks to |
|---|---|---|---|
| BSI hub (`ws_hub.go`) | `closed` flag; `sync.Map` of connections, each with a channel of 32 | `Listen`, `Broadcast`, `Close` | sockets; called by the gateway and queue handlers and by `main` |
| session verification (`challenge.go`, `verify.go`) | challenges in the cache, five minutes each | `Challenge`, `Verify` | cache, Mojang client, token signer |
| Mojang client (`client.go`) | none | `Profile`, `HasJoined` | Mojang's session service |
| authentication middleware (`auth.go`) | values in the request's context | `APIKey`, `PublicAPIKey`, `MinecraftToken` | token parsers, identity table |
| rate limiting (`ratelimit.go`) | counters per path, caller and address, one minute each | `RateLimit` | limiter store |
| routes (`public/api/router.go`) | none | the middleware chain of each route | the middlewares and handlers |
| BSI handlers (`queue.go`, `gateway.go`) | none | `Send`, `Gateway` | the hub |
| tokens (`shared/jwt`) | the secret | `IssueMinecraft`, `ParseMinecraft`, `ParseAPIKey` | - |
| UUID helpers (`uuid.go`) | none | `NewUUID`, `NormalizeUUID` | - |
| lifecycle (`cli/main.go`) | the listener, the stores | start, signal, shutdown within ten seconds, deferred closing of the stores | everything |
| answers (`errors.go`, `response.go`, `json.go`) | status, header and `Committed` of the response | error handler, envelope, strict JSON | every handler |
| router assembly (`server/router.go`) | none | request ID, request logger, recover, mounting | echo's error handler |
| internal RPC (`internal/rpc/router.go`) | none | Connect registration and interceptor; no service is registered | - |
| configuration (`config.go`) | a TOML file | first-run file, loading, validation | - |
| storage (`database.go`, `models_gen.go`) | a Postgres database, pool of one connection | opening, identity look-up | - |
| API documentation (`docs/docs.go`) | none | generated; registers itself when the process starts (`main.go:19`), served under `/swagger` in debug mode | the routes |
| Mojang mock, release check | - | tooling, never run by the server | - |

What is hard to get right, and hard to test:

* **Hub.** `Listen` registers itself between two loads of `closed`, while
  `Broadcast` and `Close` iterate over a `sync.Map` that changes under them; a
  slow subscriber is cut off instead of waited for; the callback of an
  iteration may run for a connection that is already gone.
  *Correct means:* nobody is given a stream with a hole in it, broadcasts that
  follow one another arrive in that order and once, a broadcast never waits,
  nothing is served after `Close`, and dead subscribers are forgotten.
* **Verification.** Four calls to remote services, any of which may take long
  or fail, stand between the first look at the challenge and its deletion;
  meanwhile it expires, another request spends it, the account is renamed or
  the process restarts.
  *Correct means:* a token is only signed for an account that joined this very
  challenge, and a spent challenge is refused.
* **Admission.** Four middlewares communicate through optional values of the
  context, so their order is what makes them safe: one dereferences a pointer
  another has checked, one silently skips its check if another has not run.
  Keys expire and accounts change hands while a request is on its way.
  Redis may count a request and its answer get lost.
  *Correct means:* nothing is broadcast without key, session and binding, no
  panic, exact quotas, no charge to those a middleware refuses, and none tries a
  challenge for nothing.
* **Shutdown.** `main` closes the hub, gives `Shutdown` ten seconds, cuts whatever is
  left and closes the stores under it, while requests wait for Mojang or for the one
  database connection and subscribers hold hijacked connections that `Shutdown` does
  not see.
  *Correct means:* a 202 is worth something, no request is harmed by a shutdown that
  ended in time, subscribers are told first, and the process does exit.
* **Answers.** An error passes the request logger, which calls the error handler, and
  then `ServeHTTP`, which calls it again; a failed handshake has already written
  something when its error comes up; a panic may come after the answer; the pages of
  the documentation come from a library that knows nothing of the envelope.
  *Correct means:* one answer, in the envelope but for such a page, with the right
  status, and a log that says the same.
* **Starting.** The first start writes a file with a fresh secret and stops; it may
  crash in between and leave a file without a secret, which is accepted. A crash
  while serving, or a signal before `NotifyContext`, leaves a unix socket behind.
  *Correct means:* tokens survive restarts, only an interrupted first start or the
  operator makes the server sign with the empty secret, and the server comes back.

`PROJECT.json` lists every hazard with its line and the properties that cover it.

## 2. The modules

| module | what it is |
|---|---|
| `Hub` | `Listen`, `Broadcast` and `Close`, one action per access to shared memory |
| `Feed` | what the hub promises: an abstract publish/subscribe feed |
| `HubProperties` | the hub's properties and its refinement mapping onto `Feed` |
| `HubProofs` | theorems about types, delivery and `Close` |
| `HubOrderProofs` | theorems about the order and the completeness of streams |
| `HubFeedProofs` | the proof that the hub implements `Feed` |
| `Session` | `Challenge` and `Verify`, the cache and Mojang |
| `Ticket` | what verification promises: tickets that are proved, claimed and paid |
| `SessionProperties`, `SessionProofs` | properties of verification, its refinement mapping onto `Ticket`, and theorems |
| `Admission` | the middleware chains, authentication, the database connection and rate limiting |
| `AdmissionProperties`, `AdmissionProofs` | properties and theorems of admission |
| `Server` | the server from the listener to the exit: requests, the hub (an instance of `Hub`), the signal and the shutdown |
| `ServerProperties`, `ServerProofs` | what an answer is worth and how the server stops, and theorems about both |
| `Envelope`, `EnvelopeProperties`, `EnvelopeProofs` | one request through echo's middlewares, a handler and the error handler |
| `Boot`, `BootProperties`, `BootProofs` | start after start: the configuration file, the stores, the listener, crashes |
| `MCHub`, `MCSession`, `MCAdmission`, `MCServer`, `MCEnvelope`, `MCBoot` | values for TLC |

`Server` composes with `Hub` by instantiating it on the same variables. `Admission` and
`Envelope` look into what `Server` leaves as one choice, the way of a request through
its middlewares: `Admission` at many requests and the state they share, `Envelope` at
one request and its response. `Boot` is the same process over its whole life, with all
of `Server` as one of its stages.

Definitions marked *Slip* in a component module are plausible mistakes (a
dropped check, an off-by-one, another order). Nothing uses them: each is what
some property would notice if the code were changed that way, and
`PROJECT.json` pairs them.

### Hub

`lpc[c]` is the program counter of a call of `Listen`: `Enter` is the first
load of `closed` (line 27), `AcceptOk`/`AcceptErr` the handshake, `Store` and
`Recheck` lines 50 and 57, `Take`, `Tick` and `CtxDone` the three cases of the
select, `WriteOk`/`WriteErr` and `PingOk`/`PingErr` the two bounded calls to the
socket, `Delete` and `CloseOwn` the deferred cleanup. A call that fails its
second load goes to the same cleanup, as in the code.

A channel is a queue, kept as `log[c]` (all that was ever sent on it), `taken[c]`
(received by the loop) and `sent[c]` (delivered to the peer), so that
`Len(log[c]) - taken[c]` is `len(c.out)`. The socket `ws[c]` is closed by the
loop's own cleanup, by an eviction, by `Close` or by the peer.

`Broadcast` and `Close` share the three steps of `sync.Map.Range`, which comes
from the Go library and is modelled from its contract: a key present throughout
is visited exactly once, one stored or deleted meanwhile may or may not be, and
the callback (`Offer`, `Hangup`) runs a step after the key was found, when it may
be gone. `start`, `seen`, `at` are the state of an iteration; `prior` is a history
variable: the broadcasts that had returned when this one was called.

The contents of messages, the statuses of failed handshakes and the wrapper that
captures them (lines 111-140) are in `Envelope`.

### Feed

A feed has subscribers, publications and one stream per subscriber. A
publication returns only when everyone who was subscribed when it began has it in
its stream or has left; streams are read in order; who leaves loses what it has
not read; a shut feed refuses publications and finally falls silent. The hub
maps onto it by: live = registered with an open socket; stream = `log` for the
live and what was delivered for the rest; a publication is going between the
start and the end of its iteration.

### Session

`vpc[v]` follows `Verify`: `Receive` (decoding and normalising), `Get1` (line 60),
`Profile`, `HasJoined`, `Issue`, `Get2` (line 90), `Delete` (line 99). Each call to the
cache or Mojang is one step, after which any other request, player or clock may
act; `Fail` ends the call with 500 at any of them, and `DeleteLost` is a deletion
that reached the cache though its answer was lost. A text is a UUID in one of two
forms or no UUID at all; `NormalizeUUID` forgets the form. Mojang is external: each
account bears one name, has joined at most one server ID (in the bare form, in which
`Challenge` issues it), may be renamed to a name nobody bore before, and is forgotten after a
while. `Restart` loses the requests in flight, and the cache too unless it is Redis.

Two assumptions stand behind `Authentic` and are stated here because no code
enforces them: names are unique at any time, and a freed name is not given to
another account while a verification is in flight (Mojang holds a name for weeks;
`Rename` takes only fresh names).

### Admission

`Chain` is `Register` in `router.go`: the middlewares of each route from the outside in.
A request stands at place `stage[r]` and takes one step per middleware that reads
shared state; `MinecraftToken` is two steps, the second (`binding`) being its query
of the database. `key` and `session` are the context values `publicAPIKey` and
`minecraftKey`. Echo's `KeyAuth` takes the first value of the header its validator
accepts (`Accepted`). `Counter` is the limiter key `path:caller:address`, `Count` the
limit, `hits` the store, which increments and compares in one step. `CountLost` is a
count whose answer does not come back, as with Redis: the request is counted again by a
retry (`RateLimit`) or answered 500 (`Fail`), which with the store in memory also happens
without a count; `MaxLost` bounds it, 0 meaning the store in memory. `Bind`, `Expire` and
`WindowEnds` are the world outside: an account changes hands, a token expires, a
minute is over. `witness`, `passed` and `lost` are history variables.

The query of `MinecraftToken` needs the database's only connection (`pool`,
`database.go:45`): `Acquire` waits until no other request has it, and `Binding` or `Fail`
gives it back. Only a key of a user makes the query.

A token is unforgeable: a header holds tokens that exist, or text that is no valid
token. What a handler makes of its input is a choice among the statuses it can answer
(`Replies`): `Verify` refuses with 400 and 401, after it was charged; `Send` with 400;
`Listen` with what `websocket.Accept` refused the handshake with, or 503; and any that
returns an error with 500.

### Ticket

A ticket is issued, proved by accounts, and claimed by calls while it is live; a claim is
paid with a token or refused, and paying ends the ticket. The double spending of the
finding below is made explicit: claims are not exclusive, and those made before the
first of them is paid are paid as well, but none is made later. `Session` maps onto it
by: live = in the cache; proved = joined at Mojang; claimed = between the second look-up
and the deletion.

### Server

`pc` is where `main` is: serving, in `BSI.Close` (line 173), in `Shutdown` (178), in the
deferred calls, exiting. `H` is an instance of `Hub`; a request to `/gateway` is `Subscribe`
(a call of `Listen`), a message posted to `/queue` a call of `Broadcast` followed by
`Accept`, and `main` makes the only call of `Close`. Requests of every other route are
those that `Finish` without broadcasting. The middlewares are one step, `Admit`: it lets
the request through or refuses it, or fails if the stores are closed already. `Shutdown`
is external: it closes the listener, waits until no connection is active, hijacked
ones not counted, and returns after ten seconds in any case (`ShutdownLate`), whereupon
`Server.Close` closes the active connections (`cut`): their goroutines go on, but their
answers reach nobody. `os.Exit` ends every goroutine. `there` and `after` are history
variables.

### Envelope

`at` follows one request outside in and back: `RequestID`, the handler, `Recover`,
`HandleError` and `LogRequest` (the two halves of the request logger), `ServeHTTP`. An
error is nil, the code of an `echo.HTTPError` or any other. `JSON` is `response.Write`
down to echo's `Response`: the header goes out once (`Commit`), `Status` is set in any
case, a `Content-Type` that is there is kept, and the body may not get out. `Capture` is
the `http.Error` of `websocket.Accept` as the wrapper of `ws_hub.go:111-136` lets it
through. `Swagger` is the library that serves the documentation if `Debug` is set, which is
the default: a redirect, a text that there is no such page, or a page, of which
echo's `Response` may not learn. Without `Debug`, and for errors of that library, it
is `Return`. The log is that of the error handler ("unexpected error" before its answer,
"write error response" if that does not get out) and of the request logger. What went out is
kept (`head`, `body`), so that a second answer would be seen.

### Boot

`stage` follows `run` and `config.Load`; "down" is no process. The loader is a library:
its `Save` is taken to truncate the file before it writes. What an interrupted `Save`
leaves is a prefix of the file: mostly one that does not validate (`Partial`), but, since the
secret may be left out (`config.go:55`), possibly one that is a configuration with no
secret; or it is all there and `Save` failed afterwards. A configuration without a secret is
loaded, and signs with the empty one. `Listen` is `net.Listen` (line 145); a signal between
it and `NotifyContext` (line 157) ends the process like a crash and leaves the socket.
`Return` runs the deferred `listener.Close`, which removes a unix socket; `Crash` does not.
The operator may edit the file between two runs; an edit while the process runs takes effect
with the next start and counts as made then. `issued`, `litter` and `blank` are history
variables. There is one process: two first starts at the same time are not modelled.

## 3. The runs

| run | instance | distinct states | what it shows |
|---|---|---|---|
| `hub_order` | 1 subscriber, 3 broadcasts, 2 closes, channel of 1 | 877 000 | no gap, order, no repetition, prefix, every broadcast reaches every live subscriber, nobody is served after `Close`, refinement of `Feed` |
| `hub_live` | 1 subscriber, 2 broadcasts, 1 close, channel of 1 | 37 000 | broadcasts return, dead subscribers leave, a closed hub drains, accepted messages are delivered |
| `session_rename` | 1 challenge, 2 verifications, 2 accounts, 3 names | 32 000 | `Authentic`, `ConsumedByProof`, `SpentIsRefused`, refinement of `Ticket` |
| `session_single_use` | 1 challenge, 2 verifications | - | finding: a challenge can be spent twice |
| `session_any_form` | 1 challenge, 2 verifications | - | finding: the dashed form is refused |
| `admission_chain` | 2 requests, 7 kinds of call, one to `/verify` among them, 4 tokens, 2 users | 2 700 000 | `Authorised`, `NoPanic`, `StrangersAreFree` |
| `admission_quota` | 3 requests, limits of 1 and 2, 2 lost answers of the store per window | 80 000 | `QuotaExact` |
| `admission_answered` | 2 requests, 1 database connection, 1 lost answer | 142 000 | `Answered` |
| `admission_documented` | the one token the docs describe | - | finding: it is refused |
| `server_shutdown` | 1 subscriber, 2 messages, channel of 1 | 816 000 | a 202 means broadcast, in order and without a gap, unless the hub was shut; requests survive a shutdown in time; subscribers are told first; the process exits |
| `envelope` | 1 request in debug mode, 7 statuses, 3 codes, 2 handshake failures | 161 | one answer, in the envelope or a page of the documentation, with the status that was meant, and a log that agrees |
| `boot` | 2 secrets, 2 crashes or early signals | 3 800 | tokens survive, no empty secret without an interrupted first start or the operator, the server comes back |

Why these bounds are enough to be interesting: with three broadcasts and a
channel of one, a channel fills, overflows, is drained and is offered one more, one
after the other or all at once, so that a dropped message would leave a gap. One
subscriber is enough because every property of the hub speaks of one at a time, and what a
hub with more does is, seen from one of them, what it does with that one alone: they
share nothing but `closed`, and an iteration that visits the others first is one that comes
later. (The theorems hold for any number in any case.) Of the two closes, which
`CompareAndSwap` is for, `main` makes one. Two
verifications are what it takes to race for a challenge, and three names for an account
to be renamed; that one challenge is not mistaken for another is left to the theorems,
which hold for any number. Three requests go past limits of one and of two, and two lost answers
use up either; `QuotaCorrect` proves it for any number. A `/verify` needs no bearer, so
where a request need not be known the run of the chain has one as well. Debug mode only adds
ways to answer, so `envelope` runs in it. Two messages and a
subscriber are what it takes to answer one before the other is sent. Two crashes
interrupt both a first start and the start after it, and `MaxCrashes` and
`MaxLost` are the only bounds that are not the size of a set. `envelope` is small because a request is sequential: what
counts is that every way through it is taken.

Channel capacity (32 in the code) and default quota (60) are constants, there are no
state constraints. Sets of interchangeable values are symmetry sets, except where
liveness is checked, which symmetry would make unsound.

Deadlock is checked in `boot`, where there is always a next start, and nowhere else:
every other instance has finitely many calls, and when all have returned the system
stops. That nothing waits for ever is what the liveness properties say.

**Fairness.** `FairSpec` assumes only that goroutines which iterate are scheduled
(`RangeFair`), which Go's scheduler grants since neither the callbacks nor `Range`
block; `BroadcastReturns` needs no more. Properties about loops assume in their
statement `ListenFair`: a `Listen` goroutine that can run does run (its two external
calls have five-second contexts, lines 69 and 78), and the receive from a channel
that is ready again and again is eventually chosen, since Go's select picks at
random and the ticker fires every thirty seconds only. Nothing is assumed about
clients, messages, `Close` or peers.

`Admission` assumes that a request's goroutine runs, that the stores answer, and that
`database/sql` passes over no waiting request for ever; not that any request fails, and
nothing of `/verify` and `/gateway`, which may wait for Mojang or a subscriber without
end; a request may lose the store's answer `MaxLost` times at most. `Server` assumes only that `main` runs and its timer with it: every handler may hang
and no subscriber's loop need ever run. `Boot` assumes a supervisor that starts the
process again (the code ends after its first start and leaves the rest to one), a process
that goes on once started, and stores and an address that are not unavailable at every
single start; `ComesBack` moreover supposes, in its statement, that the file is a valid
one in the end and that a socket left by a crash or an early signal is removed.

**What the code was found to do otherwise than it says** (the runs marked finding):

* Two concurrent verifications of one challenge are both given a token: `Get` (line
  90) and `Delete` (line 99) are separate calls, and deleting nothing is no error.
  `challenge.go:17` promises single use.
* `Verify` accepts a server ID with or without dashes (`verify.go:16`), but passes it
  to Mojang as written (line 76): only the form the client joined is accepted.
* `queue.go:65` describes one JWT whose audience is public-api and
  minecraft-session; `ParseAPIKey` accepts only the audience api-key.

Not a disagreement with any document, but worth knowing, and stated in the properties:
a message that meets a hub already shut is answered 202 and lost
(`AcceptedIsBroadcast` excepts it); a first start that is interrupted can leave a file
with which the server runs and signs with the empty secret (`NoBlankSecret` excepts it); a
request that Redis counted and did not tell of uses up quota (`QuotaExact` excepts it); a handler that hangs in Mojang holds the exit up for
ten seconds and no longer; after a crash, or a signal before `NotifyContext`, on a unix socket no start succeeds
until the socket is removed (`ComesBack` supposes it is); an error that comes up after an
answer, from a panic in a subscriber's loop or a broken connection, leaves no
"unexpected error" line in the log, since `errors.go:14` returns first.

Two more sentences of the general description (`main.go:38`) are not what the code
does and are not worth a run: `/challenge` is rate limited like the others
(`router.go:37`), and the Ratelimit headers are not on every answer, since a 401 is
given before `RateLimit` runs.

## 4. The proofs

All theorems hold for every value of the constants that meets the `ASSUME` of the
module: in `Hub`, a capacity of at least one and distinct names for calls; in
`Session`, that `None` is no value; in `Server`, the hub's with `main` as the one caller
of `Close`; in `Admission`, that claims are well typed and
the default limit is positive; in `Boot`, that the states
of the file are distinct and "none" is no secret; in `Envelope`, that statuses are statuses and no answer with a
body is a 204.

| theorem | says |
|---|---|
| `HubProofs!TypeCorrect` | types, and no channel exceeds its capacity |
| `HubProofs!PrefixCorrect` | what a peer was given is a prefix of its channel |
| `HubProofs!CloseCorrect`, `QuietCorrect` | after a `Close` nobody is served and nothing is delivered |
| `HubOrderProofs!ReachesCorrect` | a broadcast that returned reached everyone who was registered and still is live |
| `HubOrderProofs!NoGapCorrect`, `OrderedCorrect` | no subscriber has a gap; messages come once, and in order |
| `HubFeedProofs!FeedCorrect` | the hub implements `Feed` |
| `SessionProofs!TypeCorrect` | types |
| `SessionProofs!AuthenticCorrect` | a token is only signed for an account that joined the challenge |
| `SessionProofs!SpentCorrect` | a spent challenge is refused by the second look-up |
| `SessionProofs!ConsumedCorrect` | only a proved verification takes a challenge out of the cache |
| `SessionProofs!TicketCorrect` | verification implements `Ticket` |
| `AdmissionProofs!TypeCorrect` | types, the place in the chain, whose bearers a request carries, who has the connection |
| `AdmissionProofs!AuthorisedCorrect` | no 202 without key, session and binding |
| `AdmissionProofs!NoPanicCorrect` | the unchecked dereference is safe |
| `AdmissionProofs!StrangersCorrect` | a 401 was charged to a quota exactly if `/verify` gave it |
| `AdmissionProofs!QuotaCorrect` | a counter has let pass at most the smaller of its hits and its limit, and fewer by no more than the answers that were lost |
| `ServerProofs!HubInside`, `FeedInside` | the server's hub is `Hub`, and keeps the promise of `Feed` |
| `ServerProofs!AcceptedCorrect`, `AnsweredCorrect`, `AcceptedNoGapCorrect` | a 202 means broadcast, in order, without a gap |
| `ServerProofs!GracefulCorrect`, `ToldFirstCorrect`, `TypeCorrect` | a shutdown in time harms no request, subscribers are told first; types |
| `EnvelopeProofs!OneAnswerCorrect`, `EnvelopeOnlyCorrect`, `StatusCorrect` | one answer, the JSON envelope or a page of the documentation, with the status that was meant |
| `EnvelopeProofs!LogCorrect`, `TracedCorrect`, `TypeCorrect` | the log agrees with the answer, a 5xx is logged once, and so is an answer that did not get out; types |
| `BootProofs!TypeCorrect` | types, and the socket is live exactly while a process listens |
| `BootProofs!TokensCorrect` | all tokens since the secret was last edited bear one secret |
| `BootProofs!BlankCorrect` | no empty secret but by the operator or an interrupted first start |

The arguments:

* **Close.** `CloseReachesAll` is not inductive: it says nothing of the time before
  `Close` returns. `CloseInv` adds what makes the second load of `closed` work: once
  an iterating `Close` has begun its `Range`, each subscriber past `Recheck` was
  either in the map at that moment and has still to be visited or is hung up, or
  registered later, and then it sees the flag when it loads it. The step that
  matters is `RangeEnd`: a serving subscriber was in `start` and still is in `conns`,
  so it has been visited. `QuietAfterClose` follows, since `WriteOk` needs an open
  socket.
* **Order.** `OrderInv` adds to `CloseInv` how a message gets into a channel: in the one
  visit its `Range` pays the subscriber, and in no other step (`LoggedSeen`, which gives
  that it is there once). A visit that is over has left the message in the channel or
  the socket closed (`SeenLogged`); since a `Range` that ends has seen everyone who was
  registered from its beginning on, `BroadcastReachesAll` follows. `NoGap` speaks of
  what was delivered and is not inductive: a message may already stand in a channel in
  which an earlier one is missing. `GapFree` says of every such place that it will never
  be read, because the socket is closed or the loop is past its select; a write
  that succeeds needs an open socket, so it is never one of these. The step that
  matters is `Offer`: whatever returned before the message was sent has been put into this
  channel, or the socket is closed.
* **Feed.** By `NextFeeds` each step of a goroutine is a step of `Feed` or leaves it
  alone: `Store` joins, whatever closes the socket or deletes the key of a live subscriber
  is a leaving, an `Offer` that fits appends, `WriteOk` reads, and the beginning
  and the end of a `Range` are those of a publication. The mapping needs `OrderInv`: a
  subscriber that registers has an empty stream (`EarlyEmpty`), a `Range` that ends owes
  nobody anything.
* **Authentic.** `SessionInv` carries the fact from the answer of `HasJoined` to the
  token: the name looked up in `Profile` belongs to the account, or to nobody any
  more (`NamesOwned`, which is where names being unique and never reused is needed),
  what Mojang remembers of an account was joined by it (`SessionsJoined`), so whoever
  passed `HasJoined` is in `joined` (`ProvedJoined`). `OkGone` says that an answered
  challenge is out of the cache, since server IDs are never issued twice.
* **Ticket.** By `NextTickets` the second look-up is the claim, which `SessionInv` shows to be
  proved, and the deletion is the payment; `Fail` and `DeleteLost` refuse, `Restart` is `Stop`. All
  other steps of a call leave its ticket alone, and expiry, joins and challenges are
  those of `Ticket`.
* **Authorised.** `AdmissionInv` says, for each place of the `/queue` chain, what a
  request that stands there has been through (`Been`), that it stands within its
  chain (`Within`), and that the bindings of this moment are among those a running
  request has seen (`WitnessNow`). A middleware either answers or passes on, so one
  lemma (`StepKeeps`) carries the invariant through all of them, and each
  middleware is left to show what it has established. `NoPanic` comes out of the same
  invariant: whoever stands at `binding` holds a permitted key, which is one of the
  RPC service's or has the pointer.

* **Quota.** `QuotaExact` speaks of the limit of a request, but the store knows only
  counters. `StoreExact` says it of every counter: while its window lasts it has let pass
  no more than the smaller of its hits and the limit of the key in its name (`Used`), and
  together with what it counted in vain no fewer. That key is the
  request's own (`CounterTellsKey`), because a session stands in a counter's name only if
  there is no key, and no request has a session without a key (`KeyFirst`).
* **Strangers.** A 401 of a middleware is given before the chain reaches `RateLimit`, which
  is the last link (`AdmissionInv`); one of a handler is given past it. `VerifyPays` says
  that only `/verify` answers it there, and that who is past the link of `/verify`, where no
  key bypasses it, has been charged.
* **Types of admission.** `TypeOK` says more than types. A request carries bearers of its own
  header only (`Carried`), and who has the database's connection stands before its query
  (`PoolHeld`): only its own `Binding` or `Fail` moves it from there, and both give the
  connection back.
* **The server.** `ServerProofs` instantiates the hub's theorems (`HP`) on the server's
  variables and shows every step of the server to be a step of `Hub` or to leave it alone
  (`HubInside`). `ServerInv` then adds what ties requests to the hub: a request
  calls `Broadcast` once it is admitted and is answered 202 once the call has returned
  (`Calling`); who was live when a message was sent registers no more, so is in the map when
  the `Range` begins or never again (`ThereStarts`); a message answered 202 before
  another was sent had returned when that one's `Broadcast` was called (`AfterPrior`), which
  turns the hub's `OrderedOnce` into `AnsweredInOrder`. `AcceptedNoGap` is then inductive:
  whoever reads a message is live at that moment, so has all that it follows.
  For `Graceful`, `Phases` says what `main` has closed at each place, and `Unharmed` that after
  a `Shutdown` that returned nil no request is in flight, so none is there to be harmed.
* **Answers.** `EnvelopeInv` says that a response is one of four things, `Nothing`, `Bare` (a
  header without a body), `Full` (one envelope) or a page of the documentation, all with
  the status echo has recorded;
  which of them it may be at each place (`Progress`), together with the error on its way;
  and what the log then holds (`LogShape`). The lemma that counts is `ErrorsAnswers`:
  the error handler turns `Nothing` into an answer and leaves everything else alone, so
  that its second call does nothing.
* **Restarts.** `TokensSurvive` is not inductive, since it does not say which secret is the
  one. `SecretKept` says it is the file's, so that a file that is missing, broken or half
  written means no valid tokens; `SavesFirst` adds that a first start writes over no
  configuration, and `Loaded` that what is in memory of a start that has loaded is what is
  in the file. `Blamed` says of the file what `NoBlankSecret` says of the process: without a
  secret, unless it is being written, it has the operator or an interrupted `Save` to
  blame.

`AnsweredInOrder` has a theorem and no run: `AcceptedNoGap`, which the run checks, rests on it.
Every safety property of the passing runs, both refinements included, is stated by a
theorem. Only model-checked are the liveness properties (`BroadcastReturns`, `DeadLeave`,
`CloseDrains`, `QueueDrains`, `Answered`, `ExitsAfterSignal`, `ComesBack`), since TLAPS
reasons neither about fairness nor about `ENABLED`, and the three findings, which are
counterexamples. `Feed` and `Ticket` state safety only, so their refinements are proved
in full.

## 5. Not modelled

* The RPC router: `main` registers no service, so no request reaches it.
* The service struct and permission bits (no behaviour), the Mojang mock and the release
  script (never run by the server), and the text of the generated documentation.
* Wording of answers, and headers other than `Content-Type` and `Trace-Id`.
* Which of the validation rules a configuration breaks; `trust_proxies`, which nothing reads.
* Two processes that start at once on no configuration file (`config.go:102`).
* `IssueAPIKey`, which nothing in the repository calls.
* Signatures are taken to be unforgeable, and Mojang, the cache, the limiter,
  `database/sql` and `net/http` to behave as the code relies on.

## 6. Plan

Done: the hub with its abstract specification, verification with its own, admission,
the server's shutdown, answers, starting; theorems for all safety properties. What
remains:

1. An abstract specification of what an answered request promises, with `Server` and
   `Envelope` as its implementations, and the proofs.
2. An invariant of the number of tokens one challenge can be paid with, in terms of the
   claims made before the first payment.
3. The file of `Boot` as an abstract secret that only the operator changes.
