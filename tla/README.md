# libpomelo: models, checks and proofs

This directory is a TLA+ development of libpomelo, the C client library of the
Pomelo game server: what its threads, its libuv callbacks, its package parser,
its codecs and its tables do, which properties that code has, and which it does
not have.

Source files are named relative to the repository (`src/client.c` is the
client's code). Every definition that models code names its lines in
`PROJECT.json` under `map`.

## 1. The system

libpomelo connects an application to one Pomelo server over TCP. The
application's thread creates a client, registers listeners, connects, sends
requests and notifies, disconnects and destroys. A worker thread per client
runs a libuv loop; everything that happens on the connection is a callback of
that loop.

| Component | State | Operations | Talks to |
|---|---|---|---|
| Client lifecycle (`client.c`, `thread.c`) | `state`, `close_async`, three timers, `cond`, the worker thread | `pc_client_connect`, `connect2`, `connect3`, `connect4`, `disconnect`, `stop`, `join`, `destroy`, `pc__worker` | every other component, through `pc_client_stop` |
| Connection (`network.c`, `transport.c`) | `transport`, `conn_req`, the socket | `pc_connect`, `pc__on_tcp_connect`, `pc_tp_on_tcp_read`, `pc_transport_destroy` | client, handshake, parser |
| Handshake (`pkg-handshake.c`) | `handshake_timer`, the two writes | request, response, ack, timeout, the user's `handshake_cb` | heartbeat, client |
| Heartbeat (`pkg-heartbeat.c`) | `heartbeat`, `timeout`, two repeating timers | `pc__heartbeat`, `pc__heartbeat_cb`, `pc__timeout_cb`, the write's callback | client |
| Reconnect (`client.c`) | `reconnecting`, `reconnects`, `reconnect_timer` | reset, delay, timer, new attempt | connection, client |
| Package parser (`package.c`) | head and body buffers, `state` | encode, feed, reset, close | `pc__pkg_cb` |
| Requests and notifies (`network.c`, `protocol.c`) | `requests`, ids | `pc_request`, `pc_notify`, async writes, responses | map, codec |
| Message codec (`message.c`, `protocol.c`, `msg-json.c`) | none | encode and decode of flags, id, route, body | dictionary |
| Protobuf codec (`pb-encode.c`, `pb-decode.c`, `pb-util.c`, `msg-pb.c`) | none | encode and decode from JSON definitions | message codec |
| Hash map (`map.c`) | buckets | set, get, del, clear | requests, listeners |
| Listeners (`client.c`, `listener.c`) | a queue per event | add, remove, emit | every callback |
| Protobuf definitions (`pkg-handshake.c`) | `proto_ver`, `server_protos`, `client_protos`, files | load, dump | handshake |

What is hard here:

- **Two threads write `client->state`**, most of the time without
  `state_mutex`, and callbacks read it, go on, and write it later.
- **The loop's callbacks arrive in any order**: a connect that completes after
  the client has been stopped, a timer of the previous connection, a write
  cancelled by the teardown, a package in the rest of a chunk.
- **Every failure ends in `pc_client_stop`**, which either tears the client
  down or resets it for a reconnect, may be called twice by one callback, and
  may be called from inside the parser.
- **A request has many ends**: the response, a failed write, a cancelled
  write, the reset before a reconnect, the destroy; each calls its callback,
  and the requests come from any thread.
- **State outlives connections**: the version of the protobuf definitions stays
  when the definitions are dropped, and files stay when the process ends.
- **Waiting**: `pc_client_connect` waits on a condition variable without a
  predicate, `pc_client_join` for a loop that must run out of handles.

What makes each component correct: the connect callback is called at most
once; a client that has been torn down stays down; a working connection with
heartbeats always has a watchdog; sockets are closed; waits end; a
reconnecting client has its next attempt scheduled; a client that counts as
connected has a transport; the parser hands over what was sent; an answer reaches its own request, and every call that was
accepted is told; listeners are called once each, in order; a message arrives
as it was sent; the definitions in use are those of the peer. `PROJECT.json` lists the hazards line by line.

## 2. Modules

| Module | What it is |
|---|---|
| `PkgStream` | Abstract specification: a reliable, ordered stream of packages per connection. |
| `PkgParser` | `package.c` byte by byte, fed with arbitrary chunks by `transport.c`; implements `PkgStream`. |
| `MCPkgParser` | The instance TLC checks. |
| `PkgParserProofs` | Theorems about the wire format and the parser, the refinement of `PkgStream` included. |
| `PomeloClient` | The application's thread and the worker with its callbacks: lifecycle, connect, handshake, heartbeat, reconnect. |
| `PomeloClientProofs` | Theorems about `PomeloClient`: its types, and every safety property without reconnect. |
| `ReconnectProofs` | Theorems about `PomeloClient` with reconnect. |
| `PcMap` | The hash map of `map.c`, as operators; used by `Requests` and `Listeners`. |
| `PcMapProofs` | What the operations of the map promise. |
| `Requests`, `MCRequests` | Requests and notifies: the callers, the worker, the map of waiting requests. |
| `RequestsProofs` | Theorems about `Requests`. |
| `EventRegistry` | Abstract specification: an ordered registry of callbacks per event. |
| `Listeners`, `MCListeners` | add, remove and emit over pointers and a mutex; implements `EventRegistry`. |
| `ListenersProofs` | Theorems about `Listeners`, the refinement of `EventRegistry` included. |
| `Backoff` | The reconnect delay, as operators. |
| `PbWire` | What the codec and the header are made of: varints, fixed-width numbers, strings, tags. |
| `JsonText` | JSON values, and the length of their compact text. |
| `PbCodec` | The protobuf encoder and decoder, as operators. |
| `PbCodecProofs` | Theorems about `PbWire`, `JsonText` and `PbCodec`: the round trip of messages, and the room they take. |
| `MsgCodec` | The message header, routes and bodies, as operators over `PbCodec`. |
| `Session` | A client and its peer over many connections and processes: the handshake, the definitions, their files, the messages and the back-off. |
| `SessionMessages`, `MCSession` | What a session ensures of its messages, and the instance TLC checks. |
| `SessionProofs` | Theorems about `Session`, `Backoff`, `MsgCodec` and `SessionMessages`. |

### PkgParser

`stream` holds the bytes the peer has sent on the connection, `pos` how many
the parser has consumed, `lim` the end of the chunk that
`pc_pkg_parser_feed` is working on. `head_buf`, `pkg_buf`, `pkg_size` and
`state` are the fields of `pc_pkg_parser_t`; the offsets are the lengths of the
two sequences. One iteration of feed's loop is `FeedHead` followed, when the
head is complete, by `FeedBodyMore`, `FeedBodyDone` or `FeedBodyStop`, exactly
as the code falls through from the head to the body even when the chunk is
used up (`pc = "body"`). `FeedBodyStop` is a package callback that stops the
client, `FeedHeadNoMemory` the failing allocation of the body: feed returns -1
and the client is stopped, which resets the parser, or, while the flag
`reconnecting` makes `pc_client_stop` return at once, leaves the transport and
the head in the buffer as they are and loses the rest of the chunk
(`FeedHeadNoMemoryIgnored`). `Connect` is the next connection of a reconnecting client, which reuses the parser.

The radix of a byte is the constant `Base`. The code has 256; the formulas for
the length field (`LenByte`, `head_len`) and the limit (`MaxBodyBytes`) are
written with it, and TLC uses 2, so that three length bytes reach seven and an
eight-byte body is one too long.

### PomeloClient

The variables are the fields of `pc_client_t` that the control depends on, the
libuv objects (armed timers, writes and connects in flight, the async handle)
and the place of each thread. A callback is one action, except where it reads
`client->state` and acts on it later, or hands over to `pc_client_stop`: then
`wpc` names the place it has reached, and the other thread may step in.

The read callback is different: one callback handles all packages of a chunk.
`ReadChunk` enters `pc_pkg_parser_feed` (`wpc = "feed"`), each package is an
action, and `FeedReturns` or `FeedError` ends it. `back` says where the worker
goes on when a `pc_client_stop` returns: to the loop, to the rest of the chunk,
or, when the user's `handshake_cb` called it, into the second half of
`pc__handshake_resp` (`wpc = "ack"`), which writes the ack if
`pc__binary_write` finds the client connected and calls `pc__heartbeat`. After
a teardown both go on with timers that are NULL (`PkgTornDown`,
`HandshakeAckTornDown`). The peer may answer a handshake twice (`MaxAnswers`):
the second answer is handled like the first, its ack is `ack2`.

| Code | Actions |
|---|---|
| `pc_client_connect`, `connect2/3/4` | `Connect`, `ConnectFails`, `Spawn`, `EnterWait`, `ConnectReturns` |
| `pc_client_disconnect` | `Disconnect`, `Signal` (the unlock is between them) |
| `pc_client_join`, `pc_client_destroy` | `Join`, `Joined`, `Destroy`, `DestroyDisconnect`, `Free` |
| `pc_client_stop` | `StopRead`, then `StopIgnored`, `StopReconnect` or `StopClose` and `Teardown`; `StopUnconnected` in the application |
| `conn_req->cb(conn_req, -1)` | `ConnCbError` |
| `pc__on_tcp_connect` | `TcpConnectStale`, `TcpConnectError`, `TcpConnectOk` and `HandshakeReq` or `HandshakeReqError` |
| `pc__handshake_req_cb`, `pc__handshake_ack_cb` | `HandshakeReqWritten`, `HandshakeAckWritten`, `HandshakeWriteError` |
| `pc_tp_on_tcp_read`, `pc_pkg_parser_feed` | `Eof`; `ReadChunk`, `FeedReturns`, `FeedError` |
| `pc__pkg_cb` | `HandshakeResp` and `HandshakeAck` or `HandshakeAckTornDown`, `HandshakeRespError`, `HeartbeatPkg`, `PkgTornDown`, `StopInCallback` |
| timers | `HandshakeTimeout`, `Heartbeat`, `HeartbeatError`, `HeartbeatTimeout`, `ReconnectTimer`, `ReconnectStart`, `ReconnectStartError`, `ReconnectTimerError` |
| `pc__close_async_cb`, `pc__worker` | `CloseAsync`, `LoopExit`, `WorkerEnds` |

An attempt to connect, its `pc_connect_t` and its transport share one
identity: 1 for the application's, a member of `Slots` for a reconnect's. A
slot is used again when nothing refers to it any more.

Details of libuv 0.10 that matter: `uv_timer_again` does nothing without a
repeat; a closed handle has no callback any more; the loop ends when no
handle or request keeps it alive (`LoopAlive`); a closed reconnect timer can
be started but does not keep the loop alive.

Undefined behaviour stops the model and is recorded in `fault`: sending on
`close_async` after it was set to NULL, using a timer that is NULL, closing
a handle twice (with reconnect a second disconnect can bring `pc_client_stop`
to its teardown again while the first one's handles are closing), joining a thread that was never created, and
`pc__heartbeat_req_cb`, which takes the transport in its request for a client
when the write failed.

Assumed of the environment: the application connects once per client (as the
code demands: the state must be INITED) and calls from one thread; it does not
call `pc_client_stop` on a client with reconnect that never connected; the peer
answers a handshake at most twice on a connection. What the application's own
callbacks may do is call `pc_client_stop`, in a package callback or in
`handshake_cb`, and refuse the handshake.

### Requests

Every caller is a call of its own (`pc`), stepping between its accesses to
shared memory: the test of the state and the read of the counter (`Begin`), the
store of the counter (`StoreCounter`), the read of `client->transport`
(`LoadTransport`), the read through it and the async handle (`SendAsync`). The
worker's callbacks are one action each.

| Code | Actions |
|---|---|
| `pc__async_write_cb`, `pc__request`, `pc__notify` | `WriteRequest`, `WriteNotify`, `AsyncError`, `AsyncClosed` (the transport is no longer WORKING), `AsyncFreed` |
| `pc__on_request`, `pc__on_notify` | `WriteDone`, `WriteFailed`, `WriteCancelled` |
| `pc__data`, `pc__process_response` | `Response`, `ResponseUnknown` |
| `pc_client_stop` | `Reset`, `Close` or `StopIgnored`, in `ConnectionLost`, in `PackageRefused` and `ResponseUnknown` (inside a chunk), in `CloseUnconnected` |
| `pc__tcp_close_cb` | `TransportFreed` |
| `pc_client_destroy`, `pc__client_clear` | `Destroy` |

Of the connection only `client->state`, `client->reconnecting`,
`client->transport`, whether the client's own handles are closed and the state
of each transport are kept; `PomeloClient` has the rest. `feeding` is the time
between a stop inside a package callback and the return of
`pc_pkg_parser_feed`, in which responses still arrive and may stop the client
again. One that was closed by a disconnect is then no longer DISCONNECTING, so
that with reconnect the second stop resets it. `Destroy` does not wait for the
worker of a client that is INITED or CLOSED: `worker` is then "cut", otherwise
"freed". `told` is the history of
each callback. Two faults end a behaviour: `freed_transport` (a caller or the
async callback reads a transport libuv has freed) and `endless_set`
(`pc_map_set` of a key that is already in a bucket with another pair). Assumed:
the application calls no function of the client after or during
`pc_client_destroy`; each request object is used once; the peer answers each
request at most once, never a notify; `pc_map_set` does not run out of memory.

### Listeners

`links` holds the `next` and `prev` pointer of every block, `used` the blocks
`malloc` has given out. Add and remove are one step under the mutex, emit one
step per callback, because callbacks run with the mutex held and may take long.
A callback that comes back to the listeners blocks its thread for good
(`CallbackReenters`). `ngx_queue_remove` is the one without `NGX_DEBUG`: the
node keeps its pointers, and `pc_listener_destroy` unlinks it a second time
through them. The refinement mapping to `EventRegistry` follows the pointers
(`Registered`, `Owed`).

### Session, MsgCodec, PbCodec and Backoff

`Session` keeps what a client learns in the handshake and what it does with it:
`route_to_code`, `code_to_route`, `client_protos`, `server_protos`,
`proto_ver`, and the three files. Definitions are named by the version they
belong to. `HandshakeReq` announces the version; the peer sends its definitions
unless it has that version (`HandshakeNewProtos`, `HandshakeSameVersion`,
`HandshakeNoProto`). Every dump is a step (`DumpFile`), may fail unnoticed, and
the process may end between two (`Crash`, which may also leave the file of the
moment empty). A server may be updated between connections (`PeerChanges`).
`pc__client_reconnect` drops the definitions and computes the delay with
`Backoff`.

`ClientSends`, `PeerPushes` and `PeerAnswers` carry one message through the
codecs of both sides and record it in `last`. The wire format keeps the parts
of the header apart (flag, bytes of the id, route code or length and route), so
that the arithmetic on each byte is the code's and no sequence of characters is
built. Protobuf bodies are sequences of bytes; of a floating-point number only
the first byte tells values apart. `JsonLen` is the length of the compact JSON
text, from which `pc__pb_encode` takes the size of its buffer. The peer
(external) uses the same format without the client's limits.

`pb_encode` and `pb_decode` call themselves for a message in a message, and
`json_dumps` for a value in a value. The model closes that recursion in the
configuration: the inner calls are the constants `encode_sub`, `decode_sub` and
`json_sub` (and, for the definitions that the properties use, `carried_sub`,
`known_sub` and `wide_sub`), to which `MCSession` gives `pb_encode`,
`pb_decode`, `JsonLen`, `Carried`, `KeysKnown` and `Wide` themselves, each inside
a `LET` that keeps TLC's coverage statistics from unfolding it. TLC thus
evaluates the recursion as the code runs it, and the modules have no recursive
operator, which the prover could not work with. `CallsItself` says for the
messages in `Nested` (those that are sent and those in them) that a constant has
the value of the operator it stands for; TLC evaluates it as part of
`MessagesAssumption`.

## 3. Runs

| Run | Checks | Bounds |
|---|---|---|
| `pkg_parser` | `TypeOK` (offsets stay inside the buffers), `DeliveredPrefix`, `AlignedUnlessCut`, `ImplementsStream`, `EventuallyDelivered` | two packages per connection out of bodies of 0, 1, 3 and 8 bytes, any chunks, any number of connections; 223,959 states |
| `client_plain` | `TypeOK`, `ConnCbAtMostOnce`, `ConnectOkIsConnected`, `TornDownStaysDown`, `NullTimerOnlyInFeed`, `WatchdogArmed`, `NothingLeaked`, `HeartbeatAsAgreed`, and under fairness `DisconnectStops`, `WaiterIsWoken`, `HandshakeEnds` | no bound but the single attempt and two handshake answers; `pc_client_connect`, which waits, and `connect2`, whose callback is the user's; 32,773 states |
| `client_reconnect` | `ConnCbAtMostOnce`, `OneLiveTransport`, `ReconnectScheduled`, `RetryFromReset`, `WritesHaveTransport` | `connect3`, one identity for all reconnect attempts, any number of them, two handshake answers per connection; 467,218 states |
| `requests` | `TypeOK`, `ResponseIsOwn`, `NotifyToldOnce`, `ErrorIsFinal`, `MapIsWaiting`, `NoneForgotten`, and under fairness `LostCallIsTold` | three requests, one of them waiting at the start, and a notify, all concurrent; two connections; ids modulo 4 starting before the wrap; two buckets, with three ids in one; with and without reconnect; 687,246 states |
| `listeners` | `TypeOK` (mutual exclusion included), `QueuesWellFormed`, `NothingLeaked`, `ImplementsRegistry`, and under fairness `MutexReleased` | two threads, two events in one bucket, two callbacks, three listeners; 131,225 states |
| `session` | `TypeOK`, `DefinitionsInSync`, `ClientMessageArrives`, `PeerMessageArrives`, `BaseDelayGrows` | two versions, three servers, two layouts of directories, four back-off configurations and one that is refused, six attempts in a row, any number of connections and crashes; 454,404 states |
| `rest_of_chunk` | violation of `StoppedDiscards` | `connect3` only |
| `lost_wakeup` | violation of `NoLostWakeup` | `pc_client_connect` only |
| `lost_disconnect` | violation of `DisconnectStops` with reconnect | two reconnect identities |
| `use_after_free` | violation of `NoUseAfterFree` | `connect3` only |
| `retry_stuck` | violation of `StillReconnecting` | one reconnect identity |
| `request_twice` | violation of `RequestToldOnce` | one request, two connections |

Seven more configurations each end in a violation of one property, which says
what a comment or a header of the repository says:

| Configuration, module | Property | What it contradicts |
|---|---|---|
| `PkgParserStop.cfg`, `MCPkgParser` | `NoDeliveryAfterStop` | `transport.c:87`, "Discard read data for transport has stop work"; the parser's side of `rest_of_chunk` |
| `ClientRejected.cfg`, `PomeloClient` | `HandshakeEnds`, with a `handshake_cb` that refuses | `pomelo.h:151`, "-1 for error and terminate the connection" |
| `ClientStaleBeat.cfg`, `PomeloClient` | `NoNeedHeartbeat` | `pkg-handshake.c:124`, "no need heartbeat" |
| `RequestsCutOff.cfg`, `MCRequests` | `NoneCutOff` | `pomelo.h:472`, "must keep until the pc_request_cb invoked"; the requests' side of `use_after_free` |
| `RequestsOkUnsent.cfg`, `MCRequests` | `OkIsAnswered` | `pomelo.h:132`, "0 for ok and -1 for error" |
| `SessionEmptyBody.cfg`, `MCSession` | `FailedEncodeIsNotSent` | `message.h:138`, "buf.len = -1 for error"; `pomelo.h:184` |
| `SessionDelays.cfg`, `MCSession` | `DelayAsDocumented` | `pomelo.h:358-360`, "2, 4, 8, 16, 30, 30 seconds..." |

Why the bounds are enough. In the parser every interesting event lies within
one package or at the border of two, and the chunks are not bounded. In the
client one reconnect slot is enough, because a slot is free again as soon as
the attempt has ended, and the model may start any number of attempts; a
second live attempt would need a second slot only if `OneLiveTransport` could
fail, and `lost_disconnect` has one. `connect3` without reconnect is
`pc_client_connect` without the wait; its callback is in `client_reconnect`. A
third handshake answer would find what the second did.

In `requests` a duplicated id takes two callers, a collision in a bucket a
third, and the wrap to 0 one call after `FirstId`; two connections let a call
of the first meet the second. In `listeners` three nodes are the first, a
middle and the last of a queue, or two queues. The messages of `session` stand
at the edges: ids 0, 127, 128 and 16384, routes of 4, 127 and 128 characters,
codes 0, 1, 257 and 258, zig-zag numbers on both sides of one byte, empty
arrays and strings, nested and global message types, tags of one and two bytes,
keys nobody defines, arrays of doubles longer than their buffer, and the
greatest tag of two bytes. A message read with the definitions of the other
version is misread in several ways (strings as packed arrays, numbers as the
lengths of strings); the tags are chosen so that no number is taken for the size
of a packed array, since `Elements` recurses once for each element and a size of
some hundreds exceeds TLC's stack. Six attempts reach the cap of every
configuration but that of 1 and 300, which is there for its logarithm of 5. A client that stops is a normal end, so deadlock is not checked;
that waits end is stated as liveness instead.

What the violations show (`findings` in `PROJECT.json` tells those of the runs
with the lines they contradict):

1. a package callback that stops the client does not stop the parser: the rest
   of the chunk is parsed and delivered, and a partial package in it spoils the
   next connection (`PkgParserStop.cfg`);
2. a heartbeat or handshake package in that rest, or a `handshake_cb` that stops
   the client, ends in timers that are NULL (`rest_of_chunk`);
3. `pc_client_connect` can miss the broadcast of a fast handshake
   (`lost_wakeup`);
4. with reconnect, `pc_client_disconnect` can be overwritten by a callback and
   the client then never stops (`lost_disconnect`);
5. `pc_client_destroy` can free a client whose worker is still in its loop
   (`use_after_free`), and forgets the calls that worker still has
   (`RequestsCutOff.cfg`);
6. a refused handshake is not terminated (`ClientRejected.cfg`);
7. a reconnect attempt whose handshake times out or gets a bad package is not
   retried, unless the peer closes the connection (`retry_stuck`);
8. a handshake without heartbeat restarts the heartbeat of an earlier connection
   (`ClientStaleBeat.cfg`);
9. a reconnect can call the callback of a request twice (`request_twice`);
10. a request that was never sent is told status 0 (`RequestsOkUnsent.cfg`);
11. a message that protobuf cannot encode is sent without its body
    (`SessionEmptyBody.cfg`);
12. the reconnect delays are not the documented ones: 4, 8, 30 and up to as much
    again at random, for 2, 4, 8, 16, 30 (`SessionDelays.cfg`).

The passing properties say how far these go. `NullTimerOnlyInFeed`: a NULL timer
is met only inside the feed that stopped the client. `NoneForgotten`: no call is
forgotten when the worker has ended before the destroy. `ReconnectScheduled`:
after every other failure something is there that goes on; its two exceptions
are the refused answer and the attempt of `retry_stuck`. `BaseDelayGrows`: the
delay before its random part does not shrink; the delay itself may, from 59 to
30 for instance.

Other things are narrower than one might think, and are written into the
properties. An answer reaches its own request only while ids are unique
(`UniqueId`), which the unprotected counter does not ensure. `DefinitionsInSync`
needs two exceptions: files of which a dump was lost, and a version in memory
that is not that of the files, because `proto_ver` is not updated with the
definitions or the application brought its own. A pushed route of 128
characters is refused, and codes that agree in their low byte are mixed up;
`PeerMessageArrives` excepts both (`Resolvable`). The hazards behind these
exceptions are listed in `PROJECT.json` without a property.

Fairness. `FairSpec` of the client lets each thread go on with what it has
begun (weak fairness of the two threads' own steps: the operating system
schedules both), says that a chunk has an end, lets the kernel finish every
connect and write, and lets libuv fire an armed timer and handle a sent async.
The last four are strong fairness, one for each kind of callback, since other
callbacks of the loop come in between: `uv_run` fires the timers that are due
and polls every handle once per iteration, so a peer that sends in every
iteration does not keep a timer or the async handle from its turn. Nothing makes
the application call or the peer answer: `HandshakeEnds` holds because of the
timer. `FairSpec` of
`Requests` lets the worker go on with what its loop has ready (`WorkerStep`);
it forces no peer, no connection and no caller. `FairSpec` of `Listeners` lets
a thread that is inside a call go on, and its callbacks return or block for
good. `FairSpec` of
the parser only says that TCP hands over what has arrived and that the worker
does not stop inside feed.

## 4. Proofs

`PomeloClientProofs` proves, for all values of the constants:

- `TypeCorrect`: `Spec => []TypeOK`, with and without reconnect. The type
  invariant carries the facts that make it inductive across the cut
  callbacks: in `cb` and `connected` there is a request, in `connected` a
  transport, and a stop inside a chunk has no connect request to call.
- `WritesSafe`: `Spec => []WritesHaveTransport`, with and without reconnect.
  `WriteInv` adds that the handshake writes in flight go with their transport,
  and that CLOSED is written before the transport is given up.
- For a client without reconnect (`~EnableReconnect`), `PlainInvariant`:
  `Spec => []PlainInv`, and from it `PlainTornDown`, `PlainHandles`,
  `PlainConnCb`, `PlainConnectOk`, `PlainWatchdog`, `PlainHeartbeat` and
  `PlainNoLeak`: every safety invariant of the run `client_plain`.

`PlainInv` is the conjunction of the properties with six facts that make them
inductive. `OneAttempt`: only the application's call starts an attempt, and
before there is a worker. `ClosedForGood`: once the handles are closed the
state is CLOSED or DISCONNECTING, no ack is in flight and no callback stands
between the connect and the handshake, so none of the places that write
CONNECTED or WORKING can be reached, also in the rest of a chunk. `OneHolder`: the pending connect,
`client->conn_req` and the callback about to call it never hold the request
together, and while one does it has not been told. `Connected`: a WORKING
client has a transport and a told request; an attached transport has not been
given up; a chunk is read from an attached one until the handles are closed.
`Beating`: the timers have a repeat when the handshake asked for it, on the
first answer exactly then, and one of them runs. `Accounted`: a transport is being connected,
attached or closed, unless a disconnect came first. Each has a lemma with one
case per action. TLC checked `PlainInv` on the instance of `client_plain`, and
with all three connect functions, before it was proved.

`PkgParserProofs` proves, for every radix, set of packages and number of
packages, and for every way TCP may cut the stream:

- `ParserTypes`: `Spec => []TypeOK`; the offsets stay inside the buffers.
- `ParserDelivers`: `Spec => []DeliveredPrefix`.
- `ParserAligned`: `Spec => []AlignedUnlessCut`.
- `ParserImplementsStream`: `Spec => ImplementsStream`, the refinement of
  `PkgStream`.

The lemma under them is `LengthField`: the three length bytes that
`pc_pkg_encode` writes are read back as the length by `pc__pkg_head`, for every
length that the encoder accepts. The inductive invariant `ParserInv` adds to
the properties: `Shape`, the parser's fields agree with each other (a body is
collected only after a whole head, whose length is `pkg_size`); `Framed`, the
stream is the packages sent, encoded end to end, and `bound` says where each
begins; `StaysInStep`, on a clean connection the two buffers hold exactly the
bytes from the border of the package being collected up to `pos`; `Aligned`, a
chunk is used up before the next one. `DeliveredPrefix` alone is not inductive:
that the next package handed over is the next one sent follows from `Framed`
and `StaysInStep` (`PackageDone`). TLC checked the invariant on the instance of
`pkg_parser` before it was proved.

`ReconnectProofs` proves for a client with reconnect, for every number of
attempts: `ReconnectInvariant`, `ReconnectOneTransport`, `ReconnectFromReset`,
`ReconnectGoesOn` and, with and without reconnect, `ConnCbOnce`. The inductive
invariant `ReconnectInv` says: `NotStarted`, before the worker runs nothing is
armed or open; `OneUnderWay`, of the pending connects and the open transports
there is at most one; `Flagged`, the flag `reconnecting` goes with the armed
timer and the attempt it starts; `ToCall`, the connect request that still has
to be called back has not been told and nobody else holds it; `Undisturbed`, as
long as the application has not disconnected nobody writes DISCONNECTING and
something is under way (`GoesOn`, which has the two exceptions of
`ReconnectScheduled`), also between two packages of a chunk. The properties alone are not
inductive: that a late connect cannot find a second transport takes
`OneUnderWay` at every place where a callback is cut in two.

`PcMapProofs` proves `MapOperations`: for every hash function, capacity and set
of keys, a map with one pair per key, each in the bucket of its key, is a
partial function, and set, get and del act on it as such. The proofs about
requests and listeners use the map only through these facts.

`RequestsProofs` proves every safety invariant of the run `requests`, for every
number of callers and connections and every width of the id: `RequestsTypes`,
`NotifyOnce`, `ErrorsAreFinal`, `AnswersAreOwn`, `MapHoldsWaiting`,
`EveryCallTold` (of a client whose worker has ended); and beyond them
`OkMeansClosed`, that status 0 without an answer takes a transport that was
closed before the worker came to the call, and `HangOnlyOnTwins`, that the
endless loop of `pc_map_set` takes two calls with one id. Under them, `RequestsInv`
accounts for each call: where it is (with its caller, in the async queue, in a
write, in the map, told), that the places exclude each other, that the map has
a request only under its own id, and that one transport is in use at a time
(`Connected`: the next one only when the last is freed, and none while a stopped
client is still in its chunk). Proving it showed one fact that is easy to
overlook: `client->transport`, when it is set, is WORKING; without it a write
could be queued on a transport that is already closed.

`ListenersProofs` proves `ListenersTypes`, `QueuesStayRings`, `NothingIsLeaked`
and the refinement `ListenersImplementRegistry`, for every number of threads,
events, callbacks and blocks. A `Ring` describes a queue by the sequence of its
nodes; the lemmas say what `ngx_queue_insert_tail` and `ngx_queue_remove` do to
it, and that the second unlinking, by `pc_listener_destroy`, changes nothing
(`RemoveRing`): the node's stale pointers still name its former neighbours. A
`Store` is a map of events with disjoint rings that make up all allocated
blocks; `AddStep` and `RemoveStep` lead from store to store. `ListenersInv`
adds `Locked` (a thread inside a call is the owner of the mutex) and `Cursor`
(an emit in progress stands at a place of the queue of its event). For the
refinement, `Owed` at the i-th place are the callbacks from there on
(`OwedFrom`), so that the return of a callback is `RegCall`, and nothing is
owed while a thread is in add or remove, because it holds the mutex.

`SessionProofs` proves `SessionTypes`, `DefinitionsAgree` and the action
property `BaseDelaysGrow`, for every set of servers, versions, directories and
configurations whose delay in milliseconds is an `int` (`DelayFitsInt`), for
which the table of the powers of e in `Backoff` is complete. `SessionInv` adds to the properties:
`Delayed`, the base delay is that of the number of attempts; `InStep`, a client
that waits or connects has the definitions of the version it will announce or
none, one that dumps has those of its peer; `Dumping`, the files still to be
written. `DefinitionsInSync` is about a client that is up; what makes it true is
decided one handshake earlier, in `asked`.

`PbCodecProofs` proves, for all definitions and for all messages, however many
keys and elements they have and however deep they nest:

- `VarintReadsBack`: every number of 32 bits that `pb_encode_varint` writes is
  read back, whatever follows it in the stream.
- `MessagesRoundTrip`: `pb_encode` writes a message exactly if all of its keys,
  at every depth, are defined, and then `pb_decode` reads all of it, as what the
  definitions can carry of the message (`Carried`).
- `RoomEnough`: what is written is at least four bytes shorter than twice the
  JSON text, if no array in the message has two doubles or more and no tag takes
  more than two bytes.

The first two go from the bytes up: a value (`ValueReadsBack`), a field, packed
or not (`SingleReached`, `PackedReached`, `UnpackedReached`), an object. The loop
of `pb_decode` is followed by its position: `Reached` says that it gets to a turn
where it has read a given object and has a given rest before it; `Tails` are the
rests of the fields that `pb_encode` has joined, and after n fields the n-th tail
is left. For the room every part is bounded by its own text: a value that is not
packed by twice its text, an element of a packed array by twice its text and two,
a field by twice its text and eight, which the quotes, the colon and the comma of
a key pay for. The four bytes to spare are what the length of a message takes in
the message around it.

`SessionProofs` proves of the messages `ClientMessagesArrive`,
`EmptyBodiesExplained` and `PeerMessagesArrive`, for every set of messages,
definitions, dictionaries and servers, over any number of connections.
`HeaderIs` and `IdReadsBack` say that flag, id and route are read back as they
were written; `ClientArrives`, `PushArrives` and `AnswerArrives` carry a message
through both codecs. `MessagesInv` adds to the properties `Dictionary`, a client
that has had the answer to its handshake has the route table of its peer, in
which every low byte leads to a route that has it, and before that none; and
`Waiting`, requests wait only on a connection and have an id that is not 0.
TLC checked both as invariants of the run before they were proved.

Two attempts to prove a property failed for a good reason, and the properties
were corrected. The first stated the body that should arrive as what can be
carried of it, which for a message that writes no byte at all is an empty
object, where the code has no body; `Body` now asks whether anything is
`Written`. The second excused a missing body only by an array of more than three
doubles. That was true of the instance, and false in general: two arrays of
three doubles, or a tag of three bytes or more, exceed the buffer as well. `Wide`
is the condition that the proof needs, and `MCSession` has messages on both
sides of it.

Induction over data. The recursive definitions in the modules proved about are
functions (among them `Chain`, which walks through a queue, `ShiftedOne`, the
shift of the back-off, `VarintOf`, `Digits`, and the loops of the codec). What
they compute is proved from the fact that a set of naturals that is not empty
has a least element (`LeastNatural`): first that a function with the recursive
equation exists (`WalkExists`, `DoublingExists`, `VarintsExist`, `JoinedExist`),
then its value, by a least counterexample (`ChainOfRing`, `ShiftIs`,
`JoinedTails`, `JoinedFits`). Messages in messages are treated alike: of those
that are not read back one of the least depth has only others in it that are.

Only model-checked, and why:

- liveness (`EventuallyDelivered`, `DisconnectStops`, `WaiterIsWoken`,
  `HandshakeEnds`, `LostCallIsTold`, `MutexReleased`): the prover has no
  reasoning about fairness;
- the properties that the code violates, which are about single behaviours.

Every invariant and every action property of the passing runs is proved.

The assumptions the proofs use are `ClientAssumption`, `ParserAssumption`, the
assumptions of `PcMap` and `Requests`, `ListenersAssumption`, `JsonAssumption`,
`MsgAssumption`, `SessionAssumption` and `MessagesAssumption`. They are the types
of the constants and: a byte has at least two values; the map has at least one
bucket; blocks for heads and for listeners are different and finitely many, and
there is a callback (both hold of any memory, and make a walk through pointers
end); no thread and no block is NULL. Of the messages `MessagesAssumption` says: tags are positive, lead back to
their fields and are ints with the type in their low bits; numbers have 31 bits
and a sign; a field is given a value of its type, a repeated one an array of such
values or something that is no array (which the encoder passes over); messages nest finitely deep; a message is shorter than a package
may be (2^24 bytes, beyond which `pc_pkg_encode` refuses it); the peer knows the
definitions it sends with; and `CallsItself`. Route codes have two bytes and
belong to one route each, ids are below 2^31.

## 5. Not modelled

Left out of modules that are otherwise complete:

- ids of 2^31 and more, whose last group of seven bits overflows an `int`;
  routes of no characters or of 255 and more, which the decoder reads past;
  messages no encoder would produce (a peer that does not follow the protocol);
- negative values under type `uInt32`, numbers beyond 31 bits, the bits of
  floating-point numbers, strings that need escapes in JSON;
- `proto_write_dir` set without `proto_read_dir`, which takes the length of
  NULL; `proto_event_cb`, which is the application's and stands for files;
- exhausted memory in `pc_map_set`, whose result nobody tests, and a package
  body too long to encode, whose error `pc__request` does not test;
- `uv_async_init` in the caller's thread, a race inside libuv.

Left out for good: the close callback of handles (`common.c`), allocation
wrappers (`jansson-memory.c`), DNS resolution beyond its failure, the vendored
libuv and jansson except for what is used of them, examples, tests, language
bindings and build files.
