# A TLA+ development of Ebisu

Ebisu is a C SDK with which devices ("things") talk to Kii Cloud: an HTTP
client (`khc`), a JSON reader and writer (`jkii`), the Kii API (`kii`), a
Thing-IF layer on top of it (`tio`), and a thin platform layer. This directory
holds TLA+ models of the parts of it in which threads, brokers, servers and
failures meet, the TLC runs that check them, and proofs that TLAPS checks.

`PROJECT.json` says, definition by definition, which lines of the source each
definition stands for, which property each run checks, and which change to the
code each property would notice.

## 1. The system

### Components

| component | source | state | operations |
|---|---|---|---|
| MQTT task | `kii/kii_mqtt_task.c` | `mqtt_state_t`: task state, socket flags, waits, counted failures, endpoint, the packet being read | the handlers of `mqtt_state_handlers`, the loop of `mqtt_start_task()` and its way out |
| publishing | `kii/kii_mqtt_task.c` | the slot in `kii_t`: `_mqtt_pub_state`, message, result, last packet identifier, under `_mqtt_lock` | `kii_mqtt_publish()` on any thread; `_publish_take`, `_publish_awaits_puback`, `_publish_acked`, `_publish_reconnected`, `_publish_close` on the task's |
| starting the task | `kii/kii_push.c` | `_push_task_running` | `kii_start_push_task()`, installing push, getting the endpoint |
| session | `kii/kii_session.c` | author, generation, renewal schedule and mode, password and its wait, under `_lock`; each `kii_t`'s copy of the author | `_kii_perform()` with its renewals, `_kii_session_publish()`, `_kii_session_onboard_again()`, the setters |
| requests | `kii/kii_api_call.c`, `kii_req_impl.c`, `kii_ti*.c`, `kii_thing*.c`, `kii_object*.c`, `kii_server_code.c`, `kii_push_impl.c`, `kii.c` | a request under construction in `kii_t`, one buffer for body and response | `kii_api_call_start()` .. `kii_api_call_run()`, one function for each API |
| HTTP client | `khc/src/khc*.c` | `khc`: state, buffers, framing of the response | `khc_perform()` and the handlers in `khc_state_impl.c` |
| clock | `core/src/ebisu_clock.c`, `ebisu_time.c`, `kii/kii_clock.c` | the floor, the time given, the monotonic reading it was given at | set, get, record from a `Date` header |
| Thing-IF | `tio/tio.c`, `tio_impl.c`, `command_parser.c` | handler: command parser, results; updater: interval, task, buffered state | handling pushed commands, uploading state periodically |
| JSON | `jkii/src/*.c` | line reader and writer: a nesting stack, a buffer | parse by path, write, read line by line |
| core helpers | `core/src/ebisu_str.c`, `ebisu_mem.c`, `ebisu_log.c` | none | pure functions |
| platform | `platform/*` | sockets, tasks, locks, loggers of an operating system | connect, send, recv, close; create, lock |
| samples, tests, docs | `tio/*-sample`, `*/tests` | | |

### How they interact

An application attaches several `kii_t` to one session, each on a thread of its
own. A request goes `kii_api_call_*` -> `_req_send()` -> `_kii_perform()` ->
`khc_perform()` -> the platform's socket. `_kii_perform()` may renew the
session's token before it, or after a refusal, with the session's lock held and
through the very `khc` and buffer of the request under way. The push task owns
a `kii_t` with an MQTT socket; it asks Kii Cloud for an endpoint (through the
session, when the thing was onboarded), gives messages to a callback, and sends
what other threads put in the publish slot. `tio`'s handler is such a callback;
`tio`'s updater is a second task with a second `kii_t` of the same session.

### What is hard about them

* **MQTT task and publishing.** Callers share one slot that names no owner; the
  task reads their buffers with no lock held; a call may time out before its
  PUBACK comes; messages are sent again on another connection; tasks end and
  start under calls that wait; the broker may answer late, early, twice, or
  not at all. Correct means: a message is read only while its caller is there,
  at most once on a connection, with DUP exactly on a resend; results are true;
  every call returns; acknowledgements follow delivery; refused credentials are
  not presented again; connects are spread out; a dead connection and a broker
  that moved are noticed.
* **Session.** A renewal invalidates the tokens of all `kii_t` at once, its
  answer may be lost, and it shares the buffer with the body to send again; a
  wrong password must not be tried on every request. Correct means: a live
  token is not renewed away, a request is acted on once and sent whole, refused
  passwords rest, the lock is released, the session recovers by itself.
* **HTTP client.** Sockets that send part, say "again" anywhere or fail;
  responses cut anywhere, between two small buffers; a timeout at any state,
  closing included. Correct means: the body delivered is the body sent,
  whatever the cuts; what can be read two ways is refused, and nothing else is;
  the request goes out once and in order; every request returns, with its
  result, its memory freed and its connection closed.
* **Sockets.** A receive may time out in the middle of a TLS record and is made
  again; a connect may fail at every step; a lookup's thread outlives the task
  that waits for it; tasks share a cache of sessions. Correct means: the stream
  comes out whole and its end only after it, nothing leaks or is freed twice, a
  session is only resumed with its host, connecting ends.
* **Requests.** One buffer and one `khc` serve call after call, and each call
  may fail at any of its steps. Correct means: a request carries its own
  headers and body, through its own callbacks, and leaves none to the next.
* **Clock.** A monotonic clock that goes back, stops or runs fast. Correct
  means: what is said to be a lower bound is one, and a clock that fell behind
  doesn't lock the device out.
* **Thing-IF.** A command may turn out malformed, or its report fail, when
  some of its actions have run; the updater's exit callback may restart it
  while it is exiting; an upload may be refused for its token. Correct means:
  a malformed command runs nothing, a report is of what ran, one task at a
  time, and every upload is of the whole state.
* **JSON and dates.** Buffers that end where a terminator goes, records cut
  anywhere, integers past their width, centuries that turn.

The list of hazards in `PROJECT.json` puts each of these at its line.

## 2. Plan

1. `PublishSlot`, `MqttTask`, `PublishContract`, with proofs: **done**.
2. `Session`: **done**, with proofs.
3. `Khc`, `SocketContract` with `SchannelSocket`, `OpensslLookup`,
   `OpensslSocket`: **done**, with proofs but for `RefusedForAReason`.
4. `Clock`, `Requests`, `TioHandler`, `TioUpdater`: **done**, with proofs.
5. `JsonLines`, `JsonWriter`, `Json`, `Dates`: **done**, with proofs.
6. Proofs, next: `RefusedForAReason`, for the responses that can be read: that
   they aren't refused but for a line longer than its buffer.
7. A keep-alive counted in milliseconds, for the one hazard without a property
   (`kii_mqtt_task.c:1266`).

## 3. The modules

### PublishSlot

The slot and its callers. A call of `kii_mqtt_publish()` is one step for each
critical section: `Call` (the checks, no lock), `Give` (the first loop finds
the slot free), `GiveUp` (its time is out, or no task is open), then `Collect`
(DONE, or the time is out and the message still queued) or `Abandon` (the time
is out while the message awaits its PUBACK). Time is the event `Expire`. The task's side is one
operator per function: `publish_take`, `publish_awaits_puback`,
`publish_acked`, `publish_reconnected`, `publish_close`, `publish_sent`.

The history variables `tried`, `got` and `carried` record whose message the
task began to send, whose the broker received, and whose the current
connection took.

### MqttTask

Extends `PublishSlot`. One action is one turn of the loop of
`mqtt_start_task()`: the continue callback says no (`Discontinue`), a turn of
the wait that is left (`WaitOn`), or the handler of the state, the whole of it
(`state_*`). The way out is three steps, as other threads see it in three:
the socket is closed, `_publish_close()`, `_push_task_running` is cleared.
`start_task` may come at any time the task isn't running, and its creation may
fail (`CreateFailed`).

The socket is `sock` (closed, up, eof, broken), the broker `from_broker`
(a FIFO: a TCP connection neither loses nor reorders what it delivers, but it
may end anywhere), `accepted` and `owed`. A send that fails may or may not have
arrived. A broken connection is one whose end no one was told of.

**A handler is one step.** Inside `RECV_READY` and `SEND_PUBLISH` the task
enters and leaves the lock more than once. In between, callers can move only
FREE -> QUEUED (by `Give`), QUEUED or DONE -> FREE (by `Collect`) and
AWAITING_PUBACK -> ABANDONED (by `Abandon`); SENDING is out of their reach, and each of these moves
commutes with the network calls of the handler, so running the handler at once
loses no outcome. Between the handler that takes a message and the one that
sends it there is a turn of the loop, and the model has it.

Abstracted: bytes of packets (to their types, identifiers and owners),
milliseconds (waits count in multiples of a unit; the keep-alive is `ping_due`,
which `Tick` may set and the handlers reset), the hash that spreads retries
(any share of the wait), the two HTTP states (their three outcomes: done,
temporary failure, permanent failure).

### PublishContract

What callers are promised, in four actions: calls are served one at a time, a
message reaches the broker only between being taken up and the return of its
call, `OK` at QoS 1 means that the broker got it, a send error is reported at
QoS 0 only. `MqttTask` implements it, with `got` as the refinement of the
history of sends.

### Session

Each `kii_t` is a thread of its own. `lock` is held from `Renew` (or `Again`)
to `Finish`, across the requests for tokens; a critical section without a
request is one step that needs `lock` free. A request goes `Start` ->
`Check` (`_renewal_due`) -> `Size` (reads the renewal mode under the lock, and
leaves it) -> `Renew` -> the requests -> `Restored` -> `Served`, `Refused` or
`Fails`, and after a refusal once more through `Size`. The server is part of
the model: it issues tokens, may replace the old ones, may lose an answer after
having acted, lets tokens expire. `request.room` is which renewals fit after the
body; whether the refusal fits is open. `password` is none, wrong, or right.
Times are multiples of `_PASSWORD_WAIT_MIN_MS`; `WaitMax` is 12 in the code.

Abstracted: a token is a number; the 32-bit generation doesn't wrap; the
session has its lock and its clock, without which `kii_set_session()` refuses
it.

### Khc

`khc_perform()`: one action for each state handler, each the whole of it, and
`Perform`, `Stop` and `Return` for what is around them. Before each step the
timeout and the continue callback may stop the request (`Stoppable`), also when
the next step is the first call of close: `sock` tells a connection whose close
was never called (`open`) from one that said "again" (`closing`) or failed
(`failed`), and `LeavesNothing` says which of them `khc_perform()` may leave. `exchange` is the
request with the response it gets, the sizes of the buffers and what may go
wrong; a response is a sequence of symbols (`wire`), and `Recv` gives any
number of them that fits, nothing with "again", or fails. `sent`, `reads` and
`body` record what went through the socket and the callbacks. Where the code
reads the byte before its buffer (`khc_state_impl.c:741`, after a receive that
said "again" while a long header was being skipped), `RespHeaderSkip` takes any
byte; `stray` records that it was taken for a CR, and `RefusedForAReason`
leaves that case out: the response may then be refused for a CR it doesn't
have.

`CanBeRead` is what it is for a response to be one that can be read, in terms of
what the server says and of none of the client's states: lines and the head that
is the last, then the body by its length, in chunks, or up to the end of the
connection. A response of an instance also says what `khc` may make of it (its
`verdict`), and `ResponsesAssumption` is that those with the verdict "OK" can be
read; TLC evaluates it for the responses of `MCKhc`, each of which says where its
lines and chunks are.

### SocketContract, SchannelSocket

`SocketContract` is what `ebisu_socket_ops_t` promises, with the stream that is
`left`, whether `recv` has something `ready`, and what an operation came to.
`SchannelSocket` implements it: one action for each pass of the loops of
`handshake()` and `schannel_recv()`, over a buffer of one record, pieces of
which come as they like. `Contract` is the refinement mapping: `left` is the
plaintext of the peer's records without what was returned, `ready` is a record
decrypted or whole in the buffer.

### OpensslLookup, OpensslSocket

The two parts of `ebisu_openssl.c` in which threads meet. `OpensslLookup` has
the task and, for each lookup, its thread, with one step for each critical
section and for each thing done outside; memory is who holds it. The deadline
may pass at any time. `OpensslSocket` has the connections of several tasks and
the cache of sessions, whose reference counts OpenSSL keeps. Sending and
receiving are a call of OpenSSL each and change nothing here.

### Clock

Time (`real`) and the monotonic clock (`mono`) go on in steps of `Step`
seconds, the latter by as much, by 1 % more, or not at all while the device
sleeps; it wraps, and the device may restart with the time the application
saved. Each function of `ebisu_clock.c` holds its lock throughout and is one
step. A handshake is two: it reads the time, and later checks the certificate.
`Respond` is a response that states the time. `Slack` is how far a time may
really be ahead: an exact time is counted in full, so a clock that runs 1 %
fast is ahead by 1 % of `exact_for`, and by the second that is rounded away.

### Requests

`kii` is what one call leaves to the next: headers, body, callbacks, framing,
status, response, and which secrets the buffers hold. `Calls` is a table with
an entry for each call, of what it sets and accepts, read off its function;
`CallBegins`, `CallFails` and `CallSent` are their steps, as every one of them
fails and sends in the same way. `kii_api_call_*()` are actions of their own.
A call begins and ends without another in between, as one thread makes them.

### TioHandler, TioUpdater

`TioHandler` extends `Requests`, and makes the handler's calls through it: one
action for each part of the results that is appended, and one for each action
run. Between commands the push task makes its own calls with the same `kii_t`.
`TioUpdater` has up to three tasks at once, as one that is in its exit callback
isn't gone yet. `_task_running` isn't guarded by a lock, so the application is
taken to start the updater from one thread at a time.

### JsonWriter, JsonLines, Json, Dates

`JsonWriter` takes any sequence of calls, with a buffer, a callback or neither,
`JsonLines` any input cut anywhere; both are checked against a reading of the
whole at once (`IsJsonLines`, `ResultsOf`). In `Json`, documents are trees and
`jkii_parse()` one step, and calls follow each other on the same array of fields:
a type that was asked for and not found is overwritten by the one found, so a
reused array reports it only once. `field_copy` is a union: `string` is what its
pointer is, NULL, the field's buffer, or a number that was written over it. What
such a number is read as is open (`PointersOf`): never the buffer, NULL only
where it may be 0. A copy through it has gone astray (`strayed`), after which
nothing more is said; `FieldsAreTheDocuments` says that the first call with an
array never does, as long as the application sets a pointer where it asks for a
type that is copied (`HoldsPointer`). Doubles are normal, too large, or so small
that `strtod()` says ERANGE, with 0 (`tiny`) or without (`subnormal`). `Dates` is
checked against a calendar that is opened at one of three known days and walked
by its own rules, day by day in the years where something happens.

### The proofs

`MqttTaskProof` and `MqttPublishProof` are about `MqttTask`, `SessionProof`
about `Session`, `ApplicationProof` about `Clock`, `TioUpdater`, `JsonLines`,
`Json`, `JsonWriter` and `Dates`, `RequestsProof` about `Requests` and
`TioHandler`, `TransportProof` about `OpensslLookup`, `OpensslSocket` and
`SchannelSocket`, `KhcProof` about `Khc`.
`SequenceFacts` has the lemmas they share: a set of numbers has a least one, and
what joins of sequences, the start of one and what is left after it are.

`MCMqttTask`, `MCSession`, `MCKhc`, `MCTransport` and `MCApplication` give the
constants their values. The last two put components side by side that don't
share state: `part` is the one that runs, and the others stay as they begin.
`MCMqttTask` also has what `publish` says of one caller's calls ending.

## 4. The runs

| run | instance | shows |
|---|---|---|
| `publish` | two callers, identifiers up to 3, which wrap; the callback may say no anywhere; the endpoint is the application's, and a packet may not fit the MQTT buffer, which ends the task | type, ownership of the slot, what MQTT asks of sends and PUBACKs, results, and the refinement of `PublishContract`; a call returns that nobody else's goes on beside, unless its message is left SENDING by a stopped task |
| `connection` | no callers; keep-alive on; two inbound messages, one too large; the endpoint moves and is revoked; waits 2..4 | the socket, the ping, SUBACK before use, refused credentials; delivery before PUBACK; waits between connects; broken connections are left, moved brokers followed |
| `stranded` | one caller; the callback may say no anywhere | **violated**: see 7 |
| `session` | two `kii_t`, two tokens, waits 1, 2, 3, the password set again | no live token renewed away; refused passwords rest |
| `request` | one `kii_t`, every body, every call of applications, allocations fail | acted on once, sent again whole |
| `calls` | two `kii_t` | every call ends |
| `recovers` | one `kii_t`, three tokens, lost answers | the session gets a working token by itself |
| `transport` | `Khc`: buffers of 5 and 6 symbols, some 25 responses and 10 requests with every fault, at any step; `SchannelSocket`: 13 streams through a buffer of 4 pieces; `OpensslLookup`: 3 lookups at once; `OpensslSocket`: 2 tasks, 3 hosts, a cache of 2 | the HTTP client's properties and liveness, the refinement of `SocketContract`, and that nothing of the sockets is lost, freed twice or another's |
| `application` | the eight parts from `Clock` to `Dates`, at the bounds below | their properties |
| `longheader` | one response with a long header | **violated**: see 7 |
| `unclosed` | one request that may be cancelled | **violated**: see 7 |
| `abandoned` | `Requests`, with calls given up that have a body reader | **violated**: see 7 |

**Bounds.** `MaxId` stands for 65535: with 3, two identifiers alternate and one
is in use again while the PUBACK of an earlier message may be on its way.
`MaxInFlight` bounds the packets on their way before the broker sends one
nobody asked for; answers are not bounded by it. `publish` has it at 0, as junk
and callers at once make 4.8 million states, and the proofs cover every value.
For the same reason no credentials are revoked in `publish`: `connection` has
them, without callers, from Kii Cloud, and `stranded` from the application.
`RetryMax` is 4 with a minimum of 2, so that a wait doubles and then meets its
limit, and a turn of the loop (`WaitTurn`) doesn't cover it. `WaitMax` is 3 in
`session`: the limit isn't a power of two, as 12 isn't. Two tokens are enough
for one `kii_t` to be refused the old one while the other has got the new one;
`recovers` has three, so that the answer of a renewal can be lost and another
renewal follow. Symmetry is over `kii_t` and over the tasks of `Clock`, which the
models treat alike, and used in safety runs only.

In `Khc` a buffer of 6 symbols holds the longest line a response needs
and not the long ones, which makes `SizeMax` of one hexadecimal digit overflow
at two. A TLS record is at most 4 pieces, so that a buffer holds one record, or
a short one and part of the next. Three lookups are two given up and the one
waited for. A cache of 2 sessions and 3 hosts have entries replaced; 4 sessions
are those of the cache and of both connections. The clock's three steps are
each longer than 1 % can show in (150 s), `ExactFor` (160 s) is over after the
second, and `Wrap` (400 s) before the third ends. Three updater tasks are one
that exits, the one it started, and one more that the application might start.
The writer's buffers of 1, 3 and 8 symbols are the terminator alone, less than a
value and more than most texts; the line reader's none, the terminator alone,
and two bytes. Four bytes of input are a record too long, its end and another.
Integers of 3 and 5 bits stand for 32 and 64. Three parses (`MaxParses`) are
those it takes to copy through a number: one that leaves it, one that mismatches
a string, and one that reads a string. `DoubleSize` and `PointLen` have a number
that fits as it is written and not with the locale's decimal point. `WalkedYears` has the first and
last years, and centuries of both kinds.

**Fairness.** `PublishFairSpec`, and `ServedFairSpec` for one caller where nobody
else is in a call: the task's thread is scheduled, a timeout passes, and a
caller, which polls every 10 ms, finds a state that comes back again and again
and lasts for seconds (strong fairness). `ServedFairSpec` says no more than
`PublishFairSpec` where the one caller is alone from some point on, and
`ServedReturns` holds anywhere else by itself; TLC takes a third of the time. `ConnectFairSpec`: the
task's thread is scheduled, time goes on, and Kii Cloud answers one of the
endpoint requests repeated for ever. `CallsSpec`: a thread in a call goes on
(strong: the lock is handed to whoever keeps asking). `RecoverySpec` adds that
applications make requests, time passes, a wrong password is put right on the
server, which is the case the code's comment gives for not giving up, and
that one of the requests made again and again is answered. `MCSpec` of
`MCTransport` has two kinds: `khc_perform()` goes on and a timeout runs out (the
socket's operations return, as each has a timeout of its own), and the thread
that connects goes on, with its deadline; not the resolver, which may never
answer. Each is stated of its own part only.

**Refinements.** `KeepsContract` (`MqttTask` implements `PublishContract`,
checked in `publish`) and `KeepsSocketContract` (`SchannelSocket` implements
`SocketContract`, checked in `transport`). Both are proved as well.

**What LiveTokenKept assumes.** `session` has allocations succeed. Where the
allocation of a header fails after an early renewal, the request goes out with
the old token, is refused, and has the session renew the token it has just got;
the other `kii_t` follow, so nothing is lost but a renewal. Its proof assumes
as much (`HeaderMayFail = FALSE`); `ResentWhole` and `ActedOnce` don't.

## 5. What is proved

For every value of the constants: any number of callers, `kii_t`, tasks,
lookups, sessions, hosts and inbound messages, buffers and records of any size,
any responses and requests, every limit and every bound. The assumptions are
those the modules name (`ConfigAssumption`, `KhcAssumption` and so on), which TLC
evaluates on every run: a buffer isn't empty and text is a sequence; waits and
times are numbers; a record's plaintext is shorter than the record, and a
handshake's record has none; a response said to be one that can be read is one
(`ResponsesAssumption`); "no one" isn't someone. Four theorems assume more, and
state it: see `LiveTokenKept` above, and `SentAsAsked`, `LeftReady` and
`DeliversBody`, which is for the responses that can be read, below.

Each safety property needs an invariant that is stronger than itself, as it
speaks of one state and the reason for it lies in those before. These are:

* `MqttTaskProof`. `Inv`: the types, `SlotIsItsCallers` and
  `SendsOnlyWhatIsWaitedFor`. They are inductive together: a state of the slot
  other than FREE or ABANDONED has exactly one caller waiting, and SENDING can
  only be left by the task. `ConnectionInv` adds `LifeInv` (what a task's state
  says of `running`, `exiting` and the slot being open), `ConnInv` (the flags
  and the socket agree, state by state), `ConnackInv` (a CONNACK that
  accepts is on its way only from a broker that has accepted), `UseInv`
  (`awaiting_suback` is right wherever it is looked at), `RefusedInv` and
  `RestInv` (states before a connect have waited): `WaitsBetweenConnects` of
  `SOCK_CONNECT`, for instance, holds because every way there went through a
  wait, which only `RestInv` remembers.
* `MqttPublishProof`. `PublishInv` adds `HistInv` (what history says of a
  message matches the slot's state), `PubackInv` (on a connection in use, a
  PUBACK on its way is the only one and is for the message in the slot, or has
  the identifier of none) and `DoneInv` (a result in the slot is true). From it
  follow `OncePerConnection`, `DupOnResendOnly`, `PubackIsExpected`, the action
  property `ResultsAreTrue` and the refinement `KeepsContract`: each step of
  `MqttTask` is a step of `PublishContract` or none.
* `SessionProof`. `RequestInv`: the lock is held by whoever is at a place where
  it should be (`LockInv`); a request that isn't over wasn't acted on
  (`ActedInv`); and the body is whole wherever it is still to be sent
  (`BodyInv`: a renewal that nothing refused is only made where the body is
  safe, and one after a refusal says whether it was kept). `TokenInv`: of a
  `kii_t` of the session's generation, the request carries the session's token,
  and a token being renewed by force was refused.
  That is what re-reading the generation under the lock is for: a `kii_t` that
  was refused the token before makes no forced renewal. `WaitInv`: the wait is
  the doubling that the number of refusals says, up to its limit, and whoever
  uses the password has found it over, with the lock held since.
* `ApplicationProof`. `ClockInv`: `CountInv` (the floor and what was saved are
  ahead of the time by `Slack` at most; since the time was given, the monotonic
  clock has counted 1 % too much at most) and `RefusalInv` (when a task has been
  refused once, neither the time given nor an exact time it has read is before
  its certificate's start). `UpdaterInv`: `OneInv` (one task, or one start of a
  task, before its exit callback) and `UploadInv` (where the reader is, how
  often this upload was sent, what was waited, place by place). `LinesInv`: some
  bytes of the input have been read; the results are what these come to when
  read at once, and the reader holds the line they end in, has found it too
  long, or holds the record before it still. `RecordsAreLines` follows, as the
  results of a start of the input are the first of those of all of it.
  `JsonInv`: the fields are of the paths the application set up, and what was
  made of them is right, field by field (`FieldsAreRight`), of whatever types
  and pointers the calls before left in them, and before the first call there is
  a pointer wherever one may be copied through (`HoldsPointer`). From it follows
  `FieldsAreTheDocuments`, for integers of any width and any number of calls. `WriterInv`: what is out and what the buffer holds are
  the text, or the start of it (`OutInv`), and the text, read from the left,
  has open what the levels say, with what they allow to come next
  (`ReadsAsLevels`): a writer that finishes with no level open has put out
  whole records. From it follows `WritesJson`, for any calls. `IsCalendars`: the
  calendar's day has the number and the weekday that the code counts for it,
  which the calendar's own rules keep, as a year counted from March has its leap
  day last (`NextDate`). `ToCivil` is the other direction: 400 years have always
  as many days, and of a day of these, each century, four years and year is found
  (`YearOfEraIs`), though a leap day is one too many for the division. With what
  two digits of a year stand for (`TwoDigits`), `DatesAreTheCalendars` follows for
  any `WalkedYears` and `FloorYears`; `CivilTimesReturn` is for any date at all.
* `RequestsProof`. `RequestsInv`: what is left between calls (`LeftInv`), what
  is so of every request until it is sent (`UnsentInv`), and what the
  application's and `kii`'s own have put together so far (`ApiInv`, `BegunInv`).
  It assumes that no call with a body reader is given up
  (`GivesUpReading = FALSE`), as the code leaves the reader behind there: run
  `abandoned`. `HandlerInv`: a command was checked before its request was
  begun (`CheckedInv`), the request is the handler's own (`OwnRequestInv`), and
  its body at each place is the text of the results so far, whole aliases and
  the one it is in (`AtAlias`, `AtAction`, `AtRun`).
* `TransportProof`. `LookupInv`: users are counted lookup by lookup
  (`OneLookup`), the task waits for one of its own (`TaskInv`), and every list
  is held by a lookup or by the task (`CountInv`). `SessionInv`: a session's
  references are those of the cache and of the connections (`RefsCounted`), and
  hosts have one entry each, of their own sessions (`EntriesOfHosts`,
  `OneOfAHost`, `OffersOfHosts`, `IdleHoldsNothing`). `SchannelInv`: what is
  in `recv_buf` and what is still to come are the pieces from some record on,
  in order, and what was returned is the plaintext of those before it, less
  what is kept for the next call (`StreamInv`); the socket's parts are there as
  its state says (`HeldInv`, `BufferInv`). From it follow
  `HoldsOnlyWhenConnected` and, step by step, the refinement
  `KeepsSocketContract`.
* `KhcProof`. `BuffersInv`: the buffers are as large as they were asked for
  wherever they are read into, with room where it is taken for granted, and
  the connection is open from the request's first line until it is closed. From
  it follow `LeavesNothing` and the action property `ResultKept`. `SendInv`
  places each state in the request: what is before the part being sent has gone
  out whole, of it as much as `sent_length`, and a state that receives is one
  after all of it. `RequestInOrder` follows; it holds for requests of any
  headers and for bodies of any length, or of any chunks. `BodyInv` places each
  state in the response, if it can be read (`Read`): what is in the buffers and
  what the socket still has are the lines from some line on and the rest
  (`AtHead`, `AtHeader`, `InHeader`), the body from what was given on
  (`PlainBody`), or the chunks from some chunk on (`ChunkStart`, `ChunkInside`,
  `ChunkEnd`), and what was given is what comes before. With it go what the
  headers passed so far have left in `khc`: whether the body is chunked, and its
  length. It isn't enough to say of the states with a body what was given, as a
  size or a CRLF is found by where the buffer starts. Each handler keeps it, for
  any number of symbols that the socket gives at a time, and
  `DeliversBodyCorrect` follows.

`OncePerConnection`, `DupOnResendOnly`, `PubackIsExpected` and
`SendsOnlyWhatIsWaitedFor` together are `PublishIsMqtt` (`MqttCorrect`);
`SocketIsTracked`, `PingIsThisConnections`, `SubscribedBeforeUse` and
`RefusedNotReused` are `ConnectionIsItself` (`ItselfCorrect`).

**Induction.** What is joined, doubled or read symbol by symbol is proved by a
least counterexample: a set of numbers that isn't empty has a least one
(`Least`), which is a fact of first-order logic and needs no operator as a
parameter. `Doublings`, the joins of `FlattenSeq` and the pieces of a stream are
taken apart in this way.

## 6. What is only model-checked

* Liveness (`ServedReturns`, `BrokenIsLeft`, `MovedIsFollowed`, `CallsEnd`,
  `Recovers`, `PerformEnds`, `ConnectEnds`): fairness and ENABLED are beyond the
  proof system.
* `DeliversBody` for the responses that can't be read, and `RefusedForAReason` of
  `Khc`: they compare what the client does with what each response of the
  instance says of itself (what there is of a body, and why it may be refused),
  and only of those that can be read do the assumptions say what that is. That
  what is received fits and is freed is proved for all.

## 7. The findings

`stranded`: `_publish_take()` marks a message SENDING at the end of
`RECV_READY`; the loop asks the continue callback before it runs
`SEND_PUBLISH`. If the callback says no there, the task ends, and
`_publish_close()` fails messages that are QUEUED or AWAITING_PUBACK, not
SENDING. `kii_mqtt_publish()` doesn't time out in SENDING, as the task might be
reading its buffers, so the call never returns, not even when another task is
started. `kii.h` says that a send under way takes at most the socket's send
timeout more, and that a call fails if the task ends. `ServedReturns` of `publish`
shows that this is the only place: a call returns unless its message stays
SENDING with no task to send it.

`longheader`: `khc_state_resp_header_skip()` checks whether the header being
skipped is one that `khc` needs each time it runs. When it comes back to skip
more of the same header, its buffer starts in the middle of the value, and a
value that has `Content-Length:` right there fails the request. `khc/README.md`
has such a header skipped. In `transport` no value has that text, and
`RefusedForAReason` holds.

`unclosed`: `khc_perform()` looks for a reason to stop before each step, and
`_stop()` (`khc.c:61-66`) takes a request in `KHC_STATE_CLOSE` for one whose close
said "again": it sets `_close_failed` and finishes. But the state is
`KHC_STATE_CLOSE` as soon as the response has ended, or something failed, and a
timeout or a cancel first noticed then ends the request without a call of close:
its connection stays open, and `khc_get_close_failed()` tells of a close that
never ran. The comment there says that the close returned `EBISU_SOCK_AGAIN`,
`khc.h:618-619` and `khc/README.md:224-226` that close is called at the end of
every request once connected, `khc.h:739-741` and `khc/README.md:308-310` that
`khc_get_close_failed()` tells what the close callback returned. `transport` has
what is so all the same (`LeavesNothing`): a connection that no close failed on is
left only by a request that is stopped, and `close_failed` tells of it. That the
result is kept (`ResultKept`) and that the request ends (`PerformEnds`) hold too.

`abandoned`: a call that is started and given a body reader, and then given up
with `kii_cancel_request_being_prepared()` or by a failed append, leaves its
reader in `khc`. The next call of another kind, such as `kii_get_object()`,
sends that reader's body. `kii.h` says that the function resets the request's
state, and a test that the reader is the call's alone though it isn't run (the
test starts another with `kii_api_call_start()`, which does take the reader
back). `application` has no call with a reader given up, and `SentAsAsked` and
`LeftReady` hold.

Met on the way, with no run of their own: the byte before the buffer in
`khc_state_resp_header_skip()` (see `Khc` above); the example in
`kii/README.md:411-417` doesn't look at the results of `kii_api_call_start()`
and `kii_api_call_append_body()`, and an append that fails frees the headers,
so that the call it runs all the same goes out without them. A field of
`jkii_parse()` whose number was read into its union and whose type was then
overwritten by a mismatch is copied through as a pointer (`jkii.c:795-801`) if the
array is used a third time as it is; `jkii.h:292-293` has `field_copy_buff_size`
ignored only for a NULL pointer or another type, and says nothing of arrays used
again. A subnormal double is reported as an overflow (`jkii.c:545-553`, where the
comment takes the value for HUGE_VAL, as `jkii.h:278-283` does). And a
`kii_mqtt_publish()` that is let in before the task's creation fails has its
message in the slot until its timeout, where `kii.h:1339` has it fail.

## 8. What is not modelled

* The platform's tasks, locks and loggers, and OpenSSL's send and receive: one
  call of an operating system or a library each. Winsock, Schannel, OpenSSL,
  the resolver and coreJSON are external, and do what the code is written to
  expect of them, failures included.
* `ebisu_str`, `ebisu_mem`, `ebisu_log` and logging: pure functions over
  characters without state, and text that nothing reads.
* In `jkii`: escapes, how numbers are written and read, the functions that look
  at one value (`jkii_next_member()`, `jkii_root_value()`,
  `jkii_parse_primitive()`, `jkii_escape()`).
* The wording of requests: paths are built or don't fit, and answers have the
  members asked for or not.
* The milliseconds of MQTT's keep-alive; the wrap of the session's 32-bit
  generation.
* The samples, and the setters of `kii_t`, `khc` and `tio`, which store one
  value each before anything runs.
