# TLA+ models of the NGK repository

The repository holds RESTinio (an asynchronous HTTP and websocket server library,
`src/MODULE2/restinio`), a weather-station service built on it
(`sample/express_router`), and small socket exercises (`src/MODULE1`). This directory
holds TLA+ models of it, the TLC configurations that check them on small instances, and
TLAPS proofs of the central invariants for instances of any size. Paths below are
relative to `src/MODULE2/restinio/restinio` unless they start with `src/`.

## 1. Inventory

| Part | Code | State | What runs concurrently or goes wrong |
| --- | --- | --- | --- |
| Response coordinator | `impl/response_coordinator.hpp`, `buffers.hpp` | ring of contexts, request counter, closed flag | answers out of order, in parts, late, repeated; ring wraps; cells reused |
| HTTP connection | `impl/connection.hpp`, `impl/write_group_output_ctx.hpp` | socket, parser, buffer, write group, upgrade stage, timer | completions, timeouts, user threads, nested calls of user code |
| Acceptor and limiter | `impl/acceptor.hpp`, `connection_count_limiter.hpp` | counters, stack of waiting slots | destructors of connections on other threads, denied and failed accepts, reopening |
| Timer manager | `asio_timer_manager.hpp` | one timer per connection | a posted check survives its cancellation |
| Request parsing | `impl/parser_callbacks.ipp`, `http_headers.hpp`, `chunked_input_info.hpp` | header, fields, body and trailers of the message that is being read | texts arrive in pieces; limits; one message after another |
| Response builders | `message_builders.hpp` | parts not sent yet | one owner, long sequences of calls |
| Server and runners | `http_server.hpp`, `http_server_run.hpp`, `impl/ioctx_on_thread_pool.hpp` | running flag, threads, exception pointer, promise | close from another thread, stop before start has finished, errors at every step |
| Websocket connection | `websocket/impl/ws_connection.hpp`, `websocket/websocket.hpp` | close handshake, read and write sides, queue | both ends close, kill and shutdown from users, timeouts |
| Websocket parser and validator | `websocket/impl/ws_parser.hpp`, `ws_protocol_validator.hpp` | expectation about the next frame, utf-8 state | headers in pieces, fragmented messages with control frames between |
| Routers, chains | `router/`, `sync_chain/` | immutable once running | none |
| Parsers, codecs, body helpers | `helpers/`, `utils/`, `uri_helpers.hpp` | position and target while parsing | alternatives that fail half-way, edges of ranges |
| Weather station | `src/MODULE2/restinio/sample/express_router/main.cpp` | collection of measurements, registry of websockets | sequences of add, update, delete |
| Socket exercises | `src/MODULE1` | file offset, datagram buffer | short reads, lost datagrams |

How they interact: a runner creates a server and runs its io_context; the server opens
the acceptor on a strand. The acceptor asks the limiter before each accept and makes a
connection from each accepted socket. A connection parses requests, registers each in
its coordinator, calls the user's handler (often a router), collects what response
builders hand it, and writes what the coordinator releases. An upgrade request may move
the socket to a websocket connection. All functions of one connection run on one strand;
handlers may answer from any thread.

The hazards that follow from this are listed, each at its line, in `PROJECT.json`.

## 2. Modules

| Module | Models |
| --- | --- |
| `ResponseContext` | write groups and response contexts, as operators on records |
| `ResponseTable` | the operations of the context table and the coordinator, as operators on a sequence of contexts |
| `ResponseQueue` | the coordinator over that sequence, with the histories that properties speak about |
| `ResponseCoordinator` | the coordinator as the code stores it: a ring of reused cells and index arithmetic |
| `PipelinePromise` | the abstract specification: what a coordinator promises, without tables or groups |
| `Connection` | `connection_t` on its strand; uses `ResponseTable` for its coordinator |
| `Acceptor` | the acceptor's slots and `actual_limiter_t` |
| `HttpServerRun` | `http_server_t`, the thread pool and the ways of running a server |
| `WeatherStation`, `WeatherService` | the weather station behind its express router; the program that runs it on `HttpServerRun` |
| `WsConnection` | `ws_connection_t` on its strand and the handle `ws_t` |
| `HttpHeaders`, `IncomingMessage`, `OutgoingMessage`, `WsFrames` | header fields; parser callbacks and limits; the three response builders; frame parser and validator |
| `MessageExchange`, `MCMessages` | one connection that reads, answers and upgrades with the four modules above; the messages for TLC |
| `TextCodecs` | utf-8 checker, base64, percent encoding, query strings, path normalisation, integers |
| `EasyParser`, `FieldParsers` | the parser combinators; the grammars of the HTTP fields |
| `MultipartBody`, `EasyParserRouter` | multipart bodies and uploaded files; the easy-parser router |
| `GrammarMeaning`, `TextPromises`, `MCTexts` | what grammars, codecs and services should compute, without their loops; the texts for TLC |
| `ResponseCoordinatorProofs`, `AcceptorProofs`, `HttpServerRunProofs` | proofs |

The chain of refinement is `ResponseCoordinator` => `ResponseQueue` =>
`PipelinePromise`: the first step is `ImplementsResponseQueue` (the mapping reads the
ring from its first cell), the second `KeepsPipelinePromise` (the mapping counts the
items that left).

### Response coordinator

`contexts`, `first`, `exists`, `nextId` and `closed` are `m_contexts`,
`m_first_element_index`, `m_elements_exists`, `m_request_id_counter` and
`m_connection_closed_response_occured`. The actions are `register_new_request`,
`append_response`, `pop_ready_buffers` and `reset`; calls that throw change nothing and
are not steps. A part of a response is an opaque item `<<request, number>>`; a group is
a sequence of items, whether it starts with a status line, and a notificator. `have`,
`ending`, `out` and `dropped` are histories.

### Connection

C++ functions of `connection_t` call each other and user code, deeply and
re-entrantly: a response written inside the handler can start a write, and the end of a
write can start the parsing of the next request. The variable `stack` holds the calls
that have still to run on the strand, so each C++ function is one action and the nesting
is the code's. `Catch` marks a try block whose handler calls `trigger_error_and_close`;
`Throw` unwinds to it. Completions of asynchronous operations and timer checks start
only on a free strand (`stack = <<>>`).

An operation on the socket is `idle`, `waiting`, or completed with its handler posted:
`ready`, `failed` or `aborted`. `cancel()` and `close()` abort a waiting operation, or
find that it has completed already: asio then delivers the completion all the same.

The client sends each request as two fragments; a read delivers any number of them, so
requests arrive whole, split, or several at once. A parser that is reset between two
fragments sees a malformed message, as the real one does.

User code answers inside the handler, inside a notificator, or later from a thread of
its own; it accepts, rejects or throws. Which of these occur is a constant.

### Acceptor

A slot of the acceptor is told apart by opening and index; `place` says where it is in
its round. Everything the limiter does under its lock is one action. `leaked` is a
history: accepts that ended without `increment_parallel_connections`.

### Server and runners

`main` is where the main thread is; `thread` and `at` say for every thread which handler
of the io_context it runs and how far it is; `ready` are the handlers that wait.
`stopped` is the state of the io_context, `started` is `m_status` of the pool, `running`
and `cleanup` are members of the server, `caught` and `promise` hold what the callbacks
keep. The handlers of open and close run on the strand, those of the signal set and of
`initiate_shutdown` do not. Each point at which another thread can see a difference is a
step of its own: the callback of a failed opening first stops the pool (`OpenFailed`),
then keeps the exception (`KeepOpenError`); `open_sync` first opens the acceptor, then
sets the state. Four ways of running a server are modelled (`Ways`), and three things
can fail (`Faults`). The main thread creates the pool's threads one by one, and those
that exist run handlers already. The io_context (`Take`, `RunReturns`) is external.

### Weather station

One action per handler; `HandlerOf` is the router's search for the first route that
matches a method and a path, and every action asks it. A measurement is its ID, its date
and a stamp in place of the other six fields. The loops of update and delete are modelled
with what they do on an ID that is not a 32-bit number (`cast_to` throws) and, for delete, with
the element they skip after an erasure. `WeatherService` lets requests come whenever the
main thread is in `io_context::run` of a running server.

### Websocket connection

The pattern is that of `Connection`: `stack` for the calls on the strand, `posted` for
what other threads dispatch, operations with their completions. `readState`, `writable`,
`toPeer` and `toUser` are the read state, the write state and the two one-shot flags for
close frames. `ws` is the user's handle. A frame of the peer is a header and a few pieces
of payload; its `kind` is what the validator will say of it, since `WsFrames` models how
it gets there.

### Messages

`IncomingMessage` has one action per callback of the HTTP parser; the parser (nodejs,
external) delivers each text in pieces of any length. `OutgoingMessage` has one action
per call on a builder. `WsFrames` reads a stream of bytes as the buffer delivers it:
headers byte by byte, payloads in pieces, the beginning of the next frame together with
the end of the last one; only the lengths it has parsed tell the frames apart.
`MessageExchange` composes them: the handler answers, passes the request on to another
thread, or upgrades.

### Texts

A parser is a record, and `TryParse`/`TryProcess` interpret it, one operator per class
of `easy_parser.hpp`; each `make_parser()` of a field is the term it builds. The
references in `GrammarMeaning` and `TextPromises` describe the set of texts a grammar
denotes and the meaning of each codec without reading the text from left to right.

## 3. Runs

Every `.cfg` is run on the module named in `PROJECT.json`. Deadlock is not checked:
a connection that is closed, a coordinator whose requests are used up, a closed
acceptor, a server that has ended and a text of full length all stop for good.

| Run | Bounds | What it shows |
| --- | --- | --- |
| `response_coordinator` | ring of 2, 4 requests, 2 parts | lookup by id is exact, parts and notificators are all accounted for, the ring is the queue, the queue keeps the abstract promise |
| `connection_pipelined` | table of 2, 4 requests, the last an upgrade to a websocket, 2 parts, answers from other threads | reading is not forgotten when the table fills; no close without a reason; the upgrade is handled after all earlier requests are answered and their responses written or being written, and no request is read once it is held or the socket has moved |
| `connection_failures` | table of 2, 2 requests, 3 parts (one file, one empty), answers everywhere, handlers reject and throw, notificators throw | order on the wire; notificators called once, truthfully and in the end; no read into a buffer with data, no write aborted but by closing, steps guarded by the timer; each request handled once; the connection closes in the end |
| `acceptor` | 2 slots, limit 3, 2 openings, denials and errors | the limit; every place that counts as an active accept belongs to an accept in progress or was lost to a denial or an error; no lost wake-up; accepting goes on while places are left |
| `ws_connection` | 2 frames of any kind, payloads up to 2 pieces, 1 message of the user, all calls from threads, handlers and notificators | messages in order, the user learns of the end, frames written once and none after a close frame, the awaited close frame is read for, also behind a payload that is not utf-8 |
| `ws_closing` | 1 frame, 1 message, calls from threads | the websocket closes in the end, every notificator is called in the end |
| `texts` | 24 subjects, texts of 2 to 4 pieces of an alphabet per subject | parsers, checkers, round trips, path normalisation, uploads, routing |
| `messages` | messages of up to 7 characters per text in all divisions, 2 messages, response bodies up to 2 symbols, 37 streams of frames in all divisions into reads of up to 16 bytes | requests are what was sent, limits do not depend on pieces, responses carry their body, parts keep the announced attribute, frames are read and judged right |
| `weather_service` | pool of 3, all ways and failures; IDs 4 and 5 and one that is no number, 2 measurements, 1 websocket | errors are reported, handlers do not outlive what they use, the program ends, requests change what they should |

Why these bounds are enough to be interesting: four requests through a ring of two fill
it, free cells and reuse them, so the ring wraps; two parts per response make merging,
partial answers and groups with notificators happen, and three parts put a file and an
empty group behind a trivial one; two openings with two slots and a limit of three make
the limiter both refuse and run dry. Four requests through a table of two make the
upgrade arrive while earlier requests are open, and while the last response is being
written; `UpgradeInTurn` also holds with answers from handlers and notificators, for an
upgrade that is the second or third of the requests and for a table of one. `MaxIds`
allows one more request number than messages, for the request that the code hands to the
user twice. Two frames and one message let a frame of the peer meet every state of the
close handshake; with two pieces a payload can turn out wrong before its end. A read of
16 bytes holds any header with the beginning of its payload, or a short frame with the
beginning of the next. A pool of three has threads that run handlers while another one
is still to be created. Two measurements on top of the station's own five make
duplicates, also neighbours, and an entry that is no number in front of others. Texts:
the alphabets hold the symbols at which a grammar decides, and the bytes at the ends of
the ranges of utf-8; four pieces are enough for an alternative that fails after it has
stored something.

`messages` has the constraint `ResponseBound`: headers of several fields are explored for
one kind of builder, up to the first byte of the response, since editing a header and
sending a body do not influence each other beyond that.

Three runs are expected to be violated. Each states what the code says of itself:

* `connection_spurious_close`: "depending on keep-alive property of the last response
  the connection goes back to first step or shutdowns" (`impl/connection.hpp:294`).
  A handler that answers inline while the table is full makes the connection read
  twice: once because the handler accepted, once because
  `m_init_read_after_this_write` was set when the response was popped. The second
  start resets the parser within a message, or registers a request in a full table.
  With the default of one pipelined request, this needs a client that sends the next
  request before it has the response.
* `connection_init_write`: `assert( !m_response_coordinator.closed() )`
  (`impl/connection.hpp:980`). The first request is answered later and fills the table;
  the end of its write goes on with the second, which is in the buffer already. Its
  handler answers inline with connection-close, the coordinator is closed, and
  `init_write_if_necessary` is called next (line 1283). No double read is needed for this.
* `server_lost_stop`: "If an error was detected it should be propagated"
  (`http_server_run.hpp:347`). When the acceptor cannot be opened, the callback calls
  `pool.stop()`, which does nothing unless `m_status` says started; a thread of the pool
  can get there while the main thread is still in `start()`. The threads then run for
  ever and `wait()` does not return. A signal and `stop()` of a pool that is still
  starting are lost in the same way, and so is a stop after a failure to close:
  its callback keeps the exception and stops nothing.

### Divergences without a run

The following disagreements between the code and what it says of itself were found while
modelling. The property named is defined in the module; TLC refutes it with the constants
given, and each is also a hazard of `PROJECT.json` or described with the model.

* `EachRequestHandledOnce` of `Connection`, as in `MCConnectionInitWrite.cfg` with
  `MaxMessages = 3`, `Upgrades = {2}`, `AnswerPoints = {"later"}`, `CloseAttrs = {FALSE}`
  and `UpgradeCloseAttrs = {FALSE}`: an upgrade request that is answered by an ordinary
  keep-alive response leaves `m_connection_upgrade_stage` set
  (`impl/connection.hpp:1287`), and the end of the write hands the emptied request to the
  handler again; the comment at 918 speaks of resuming the pipeline.
* `UpgradeHandledAlone` of `Connection`, as in `MCConnectionInitWrite.cfg` with
  `Upgrades = {2}`, `AnswerPoints = {"handler"}` and `CloseAttrs = {FALSE}`: "the current
  request with upgrade is the only one and can be handled directly"
  (`impl/connection.hpp:720`), but an empty coordinator does not mean that the last
  response has been written. The handler of the first request answers inline, its
  response is popped, the accepted handler makes the connection read on, and the upgrade
  is handled, and may move the socket, during the write. With `MaxReqCount = 2` the same
  happens with answers from other threads. `UpgradeInTurn` is what holds.
* `ActiveAcceptsExact` of `Acceptor` with `AcceptFaults = {"deny"}`: a denied connection
  keeps an active accept for good, although `connection_count_limiter.hpp:134` expects
  this on shutdown only. `KeepsAccepting` states exactly under which condition the server
  still accepts.
* `AwaitedCloseFrameAlwaysRead` of `WsConnection`, with the constants of the run: "Reads
  only close frame: skip all frames until close-frame." (`ws_connection.hpp:1397`), but
  after a text that ends within a character nothing is read any more
  (`ws_connection.hpp:996`), and the connection waits for the timeout.
  `AwaitedCloseFrameIsRead` leaves out just this case.
* `NotifiedTruthfully` of `WsConnection`, with two messages sent from threads
  (`MaxMessages = 2`, `MaxFrames = 0`, `UserCalls = {"send"}`, `PeerFaults = TRUE`;
  with one message, as in the runs, it holds): after a failed write the group is dropped and
  the index of the next item stays (`websocket/impl/ws_connection.hpp:1235`); a message
  queued before the failure is then taken for written, and its notificator is told of
  success.
* `KeepAliveSet` of `MessageExchange`: `connection_keep_alive()` ("Set connection
  keep-alive", `message_builders.hpp:195`) calls the getter and changes nothing.
* `RefusedOnlyIfLimitExceeded` of `IncomingMessage`: a value of exactly
  `max_field_value_size` is refused (`impl/parser_callbacks.ipp:109`).
* `ControlFrameAccepted` of `WsFrames`: a ping between two fragments of a text, cut
  within a character, is refused (`ws_protocol_validator.hpp:310`).
  `ReadyAfterWrongText`: after a wrong text the validator is reset for further frames
  (`ws_connection.hpp:857`), its utf-8 checker is not.
* `ParsedByDocumentedRule` of `MCTexts`: alternatives are ordered, so some texts of the
  rules in the comments are refused; `ParsedAsDeclared` is the property for the order the
  code declares. The run reads numbers made of the digit 1. With `510` among the pieces
  of the subject `range`, `ParsedAsDeclared` fails too: the accumulator
  (`impl/overflow_controlled_integer_accumulator.hpp:166`) takes a product that wraps past
  its old value for correct, so for 8 bits 510 is read as 254.
* `DigitsOnly` of `MCTexts`: `parse_integer` throws "invalid digit" for a character whose
  entry in `digits_mapping` is 0xFF (`utils/from_string_details.ipp:368`), but the entry of
  `@` is 0xF0 (line 20), so that "@" is read as a number. A character from 128 on is, where
  char is signed, an index outside of the table; the model then says that the
  result is unspecified. `CheckersExact` is about texts without these characters.
* Weather station: with fewer than three measurements "/three" lists none (an unsigned
  difference wraps); an update or a deletion that meets an ID that is no number has
  changed the entries before it and answers 400; a deletion keeps the second of two
  neighbours with its ID; the handler of "/chat" asks for a response on a request whose
  connection has moved, and throws. These are in the actions; `StationChangedAsAsked`
  says what holds nevertheless.

### Fairness

`Connection`: weak fairness of the functions on the strand, of completions that do not
depend on the peer, of the timer and of the passing of time. This is what an io_context
that is being run gives; nothing is assumed of the client (it may fall silent or stop
reading) or of handlers (they need not answer). User code that was called does return.
`WsConnection`: the same, and strong fairness of posted calls and of the posted timer
check, which a strand serves in order between completions that may keep coming.
`Acceptor`: posted handlers run, clients keep connecting, connections end. No fairness
is assumed of closing, denial or errors.
`HttpServerRun`: weak fairness of the main thread and of every thread of the pool, which
the operating system schedules; none of the user's requests to stop, of signals or of
what the user does with a handle.

## 4. Proofs

`ResponseCoordinatorProofs` (any size of the ring, any number of requests and parts):
`TypeOK`, `LookupExact` and `FreeCellsEmpty` hold always. Neither lookup nor empty cells
is inductive alone. The invariant `IInv` adds that the contexts around the ring, from
`first` on, carry the ids `nextId - exists .. nextId - 1` in order: then subtracting
the first id gives the offset, and the remainder the cell. The lemmas `ModOnce`,
`CellAtValue` and `CellAtInjective` reduce the remainder to one comparison; there is one
lemma per action. `pop_ready_buffers` is the interesting one: the cell it frees has no
groups because `is_complete` looked at them.

`AcceptorProofs` (any finite set of slots, any limit, any number of openings, denials
and errors included): `TypeOK`, `LimitRespected`, `ActiveAcceptsAccounted`,
`NoLostWakeup` and `PendingOnce`. They are proved together: that a decrement does not go
below zero needs the accounting, the accounting needs that each slot is in one place,
and the absence of lost wake-ups needs that the stack holds exactly the waiting slots.
The lemmas `Enters`, `Leaves` and `Stays` say how a moved slot changes the cardinality of
a set of places.

`HttpServerRunProofs` (a pool of any size, any of the ways and failures):
`SuccessMeansNoError` and `HandlersOutlived`. Neither is inductive: that a returned run
has seen no error needs to know where the error is before it is kept. The invariant
`IInv` says that there is one handler that opens the server, waiting or on one thread,
and the promise is unset until its end (`OneOpen`); that an error is kept or a thread is
about to keep it (`ErrorsKept`); that after the join no thread runs and the result is
what was kept (`JoinedWhenOver`); what main knows of a server of `run_async`, and that
nobody closes it unasked (`HandleKnown`); and that the acceptor is open only while the
server is running or about to be, with one call of the cleanup functor
(`OpenedAndCleaned`). There is one lemma per action; `Removed` says what
taking a handler out of the queue leaves.

Assumptions: the size of the ring and of the pool is a positive natural number, bounds
are natural numbers, the set of slots is finite, ways and failures are those modelled.

Only model-checked: all liveness properties (`EndsOnceStopped`, `EventuallyClosed`,
`ClosesInTheEnd`, `KeepsAccepting` and the calls of notificators), everything about
`Connection`, `WsConnection`, messages and the weather station, the two refinements; and
what the recursive definitions about texts compute, which needs induction over data.

## 5. Abstractions, and what is not modelled

* Bytes: an item of a response is opaque; partial writes inside one operation are asio's
  business.
* A write posted by another thread to an HTTP connection runs when the strand is free;
  posting and running are one step, since nothing can observe the time between them but
  other posted work.
* The clock is one bit: the limit of the guarded operation has passed or not. Before
  `activate()` a websocket has no timer; its liveness properties are about activated ones.
* A handler that rejects does so before it has written anything.
* Exceptions of the logger, of allocation and of `async_*` calls are not modelled;
  where those would occur the code is `noexcept` or closes the connection.
* Callbacks that run inside `response_coordinator_t::reset`, and groups destroyed with
  the connection object, only record their result.
* Field names, values, targets and bodies are sequences of a few characters; widths of
  integers are 8 bits where overflow matters; error texts are left out.
* An io_context that was stopped is not restarted, as in the code: a server that is run a
  second time on the same io_context returns at once.
* IDs of the weather station are numbers or not; two spellings of a number are one ID.
* `noop_limiter_t` and the null timer manager have no state. The so5 timer manager, a
  variant that delegates to SObjectizer, is not modelled.

Not modelled: compression (zlib decides), TLS (asio's stream), the chunks of `sendfile`
(one operation here), the compilation of express routes to regular expressions, the
synchronous handler chains (a fold over a fixed list), settings and traits (they are the
constants), third-party code. The socket exercises of `src/MODULE1` are one blocking
exchange per program run without retry or shared state; what can go wrong in them is a
lost datagram or an early end of the stream, for which the code has no step to check.
