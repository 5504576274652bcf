---------------------------- MODULE PomeloClient ----------------------------
(***************************************************************************)
(* The life of a libpomelo client: the application's thread, which calls   *)
(* pc_client_connect, pc_client_disconnect, pc_client_join and             *)
(* pc_client_destroy, and the worker thread, which runs the libuv loop and *)
(* the callbacks of src/src/network.c, transport.c, pkg-handshake.c,       *)
(* pkg-heartbeat.c and client.c.                                           *)
(*                                                                         *)
(* The two threads share client->state (written by both, often without     *)
(* state_mutex), the pointer close_async and the condition variable        *)
(* client->cond.  Everything else belongs to the worker, so a callback is  *)
(* cut into steps only where it reads client->state and acts on the value  *)
(* later: there the other thread may write in between.  A worker step that *)
(* starts with the loop idle is a callback of libuv; wpc names the place   *)
(* inside a callback.  The read callback is one callback for many          *)
(* packages: pc_pkg_parser_feed goes on with the rest of the chunk         *)
(* whatever the handler of a package has done to the client.               *)
(*                                                                         *)
(* Undefined behaviour (a NULL handle, a handle closed twice, a transport  *)
(* taken for a client) ends the behaviour and is recorded in fault.        *)
(***************************************************************************)
EXTENDS Naturals

CONSTANTS
    EnableReconnect,     \* client->enable_reconnect
    UserRejects,         \* the handshake ack may be left unsent: handshake_cb
                         \* returns an error, or pc__handshake_ack fails
    Modes,               \* the connect functions the application uses
    Slots,               \* identities for the reconnect attempts (bound)
    MaxAnswers           \* handshake answers accepted per connection (bound)

ASSUME ClientAssumption ==
    /\ EnableReconnect \in BOOLEAN
    /\ UserRejects \in BOOLEAN
    /\ Modes \subseteq {"connect", "connect2", "connect3"}
    /\ Slots \subseteq Nat \ {0, 1}
    /\ MaxAnswers \in {1, 2}

First == 1                        \* the attempt made by the application
Conn  == {First} \cup Slots       \* a connect request and its transport
NULL  == 0
Ptr   == Conn \cup {NULL}

VARIABLES
    \* pc_client_t, shared
    state,               \* client->state
    handles,             \* "open", or "closed": close_async and the timers
                         \* are NULL (and reconnect_timer is closed)
    async,               \* 1: close_async has been sent and not yet handled
    \* pc_client_t, worker only
    reconnecting,        \* client->reconnecting
    transport,           \* client->transport
    conn_req,            \* client->conn_req
    heartbeat,           \* client->heartbeat: 0, an interval or -1
    \* libuv
    tp,                  \* transport->state of every attempt
    pend,                \* attempts whose uv_tcp_connect is in flight
    inflight,            \* writes in flight
    armed,               \* timers started
    repeat,              \* 1: the heartbeat timers have a repeat interval
    shaken,              \* how often the peer has answered this handshake
    \* control of the worker
    worker,              \* "none", "loop", "exit", "done", "joined"
    wpc,                 \* "idle" or the place inside a callback
    snap,                \* the local variable of pc_client_stop
    after,               \* whose callback runs when pc_client_stop returns
    back,                \* where the worker is but for a pc_client_stop:
                         \* "idle", "feed" (between two packages of a chunk)
                         \* or "ack" (handshake_cb has returned)
    \* control of the application
    app, mode, then, ret,
    disc,                \* history, 1: pc_client_disconnect has been called
    result,              \* history: what each conn_req->cb was told
    fault                \* undefined behaviour met

shared == <<state, handles, async>>
ptrs   == <<reconnecting, transport, conn_req>>
beats  == <<heartbeat, repeat>>
socks  == <<tp, pend>>
work   == <<wpc, snap, after, back>>
appv   == <<app, mode, then, ret, disc>>

vars == <<state, handles, async, reconnecting, transport, conn_req, heartbeat,
          tp, pend, inflight, armed, repeat, shaken, worker, wpc, snap, after,
          back, app, mode, then, ret, disc, result, fault>>

States == {"INITED", "CONNECTING", "CONNECTED", "WORKING", "DISCONNECTING",
           "CLOSED"}
Faults == {"none", "null_async", "null_timer", "double_close", "bad_cast",
           "join_none"}

Acks == {"ack", "ack2"}           \* the acks of a first and a second answer

Init ==
    /\ state = "INITED" /\ handles = "open" /\ async = 0
    /\ reconnecting = 0 /\ transport = NULL /\ conn_req = NULL
    /\ heartbeat = "unset"
    /\ tp = [c \in Conn |-> "none"] /\ pend = {}
    /\ inflight = {} /\ armed = {} /\ repeat = 0 /\ shaken = 0
    /\ worker = "none" /\ wpc = "idle" /\ snap = "INITED"
    /\ after = NULL /\ back = "idle"
    /\ app = "new" /\ mode = "none" /\ then = "ready" /\ ret = "none"
    /\ disc = 0
    /\ result = [c \in Conn |-> "none"]
    /\ fault = "none"

\* Nothing is modelled after undefined behaviour or after free(client).
Alive == fault = "none" /\ app # "freed"

\* The worker is between two callbacks of its loop.
Idle == Alive /\ worker = "loop" /\ wpc = "idle"
-----------------------------------------------------------------------------
(* Parts of several callbacks.                                             *)

\* pc_client_stop is called; c is the connect request whose callback follows.
CallStop(c) == wpc' = "stop" /\ after' = c /\ UNCHANGED <<snap, back>>

\* pc_client_stop returns to its caller, and its local variable is gone.
StopReturns ==
    /\ wpc' = IF after = NULL THEN back ELSE "cb"
    /\ snap' = "INITED"
    /\ UNCHANGED <<after, back>>

\* pc_transport_destroy(client->transport); client->transport = NULL.  The
\* cancelled handshake writes find a closed transport and do nothing.
DestroyTransport ==
    /\ tp' = IF transport = NULL THEN tp
             ELSE [tp EXCEPT ![transport] = "CLOSED"]
    /\ transport' = NULL
    /\ inflight' = inflight \ ({"handshake"} \cup Acks)

\* pc_connect beyond its state check: a new transport, CONNECTING.
StartConnect(c) ==
    /\ state' = "CONNECTING"
    /\ tp' = [tp EXCEPT ![c] = "CONNECTING"]
    /\ pend' = pend \cup {c}
    /\ conn_req' = c
    /\ result' = [result EXCEPT ![c] = "none"]

\* conn_req->cb(conn_req, r) is called for attempt c.
Told(c, r) ==
    result' = [result EXCEPT ![c] = IF @ = "none" THEN r ELSE "again"]

\* pc__cond_broadcast: only a thread that already waits is woken.
Broadcast ==
    /\ app' = IF app = "waiting" THEN "woken" ELSE app
    /\ UNCHANGED <<mode, then, ret, disc>>

\* Identities an attempt may take: the transport and the request are gone.
FreeSlots ==
    {c \in Slots : tp[c] \in {"none", "CLOSED"} /\ c \notin pend
                   /\ c # conn_req /\ c # after}

\* uv__loop_alive: the handles and requests that keep uv_run going.
LoopAlive ==
    handles = "open" \/ pend # {} \/ transport # NULL
    \/ "heartbeat" \in inflight
-----------------------------------------------------------------------------
(* The application's thread.                                               *)

\* pc_client_connect, connect2 or connect3: pc_connect succeeds.
Connect(m) ==
    /\ Alive /\ app = "new"
    /\ StartConnect(First)
    /\ app' = "spawn" /\ mode' = m
    /\ UNCHANGED <<then, ret, disc, handles, async, reconnecting, transport,
                   beats, inflight, armed, shaken, worker, work, fault>>

\* pc_connect fails (memory, socket): the state stays CONNECTING.
ConnectFails(m) ==
    /\ Alive /\ app = "new"
    /\ state' = "CONNECTING"
    /\ app' = "ready" /\ mode' = m /\ ret' = "error"
    /\ UNCHANGED <<then, disc, handles, async, ptrs, beats, socks, inflight,
                   armed, shaken, worker, work, result, fault>>

\* uv_thread_create(&client->worker, pc__worker, client).
Spawn ==
    /\ Alive /\ app = "spawn"
    /\ worker' = "loop"
    /\ IF mode = "connect"
       THEN app' = "enter" /\ UNCHANGED ret
       ELSE app' = "ready" /\ ret' = "ok"
    /\ UNCHANGED <<mode, then, disc, shared, ptrs, beats, socks, inflight,
                   armed, shaken, work, result, fault>>

\* pc__cond_wait(client, 0): there is no predicate to test before waiting.
EnterWait ==
    /\ Alive /\ app = "enter"
    /\ app' = "waiting"
    /\ UNCHANGED <<mode, then, ret, disc, shared, ptrs, beats, socks,
                   inflight, armed, shaken, worker, work, result, fault>>

\* The state is not looked at after the wait.
ConnectReturnsBlindly ==
    /\ Alive /\ app = "woken"
    /\ app' = "ready"
    /\ ret' = "ok"
    /\ UNCHANGED <<mode, then, disc, shared, ptrs, beats, socks, inflight,
                   armed, shaken, worker, work, result, fault>>

\* The rest of pc_client_connect: the result is read off client->state.
ConnectReturns ==
    /\ Alive /\ app = "woken"
    /\ app' = "ready"
    /\ ret' = IF state = "WORKING" THEN "ok" ELSE "error"
    /\ UNCHANGED <<mode, then, disc, shared, ptrs, beats, socks, inflight,
                   armed, shaken, worker, work, result, fault>>

\* pc_client_stop on a client that never connected, no worker yet.
StopUnconnected ==
    /\ Alive /\ app = "new" /\ ~EnableReconnect
    /\ state' = "CLOSED"
    /\ app' = "ready"
    /\ UNCHANGED <<mode, then, ret, disc, handles, async, ptrs, beats, socks,
                   inflight, armed, shaken, worker, work, result, fault>>

\* pc_client_disconnect up to the unlock of state_mutex.
Disconnect ==
    /\ Alive /\ app = "ready" /\ disc = 0
    /\ state' = "DISCONNECTING"
    /\ disc' = 1
    /\ app' = "signal" /\ then' = "ready"
    /\ UNCHANGED <<mode, ret, handles, async, ptrs, beats, socks, inflight,
                   armed, shaken, worker, work, result, fault>>

\* uv_async_send is forgotten.
SignalLost ==
    /\ Alive /\ app = "signal"
    /\ app' = IF then = "ready" THEN "ready" ELSE "join"
    /\ UNCHANGED <<mode, then, ret, disc, shared, ptrs, beats, socks,
                   inflight, armed, shaken, worker, work, result, fault>>

\* uv_async_send(client->close_async), the end of pc_client_disconnect.
Signal ==
    /\ Alive /\ app = "signal"
    /\ IF handles = "open"
       THEN /\ async' = 1
            /\ app' = IF then = "ready" THEN "ready" ELSE "join"
            /\ UNCHANGED fault
       ELSE /\ fault' = "null_async"
            /\ UNCHANGED <<async, app>>
    /\ UNCHANGED <<mode, then, ret, disc, state, handles, ptrs, beats, socks,
                   inflight, armed, shaken, worker, work, result>>

\* pc_client_join called by the application.
Join ==
    /\ Alive /\ app = "ready" /\ worker \in {"loop", "exit", "done"}
    /\ app' = "join" /\ then' = "ready"
    /\ UNCHANGED <<mode, ret, disc, shared, ptrs, beats, socks, inflight,
                   armed, shaken, worker, work, result, fault>>

\* uv_thread_join returns; a thread that was never created cannot be joined.
Joined ==
    /\ Alive /\ app = "join"
    /\ \/ /\ worker = "done"
          /\ app' = then
          /\ worker' = "joined"
          /\ UNCHANGED fault
       \/ /\ worker = "none"
          /\ fault' = "join_none"
          /\ UNCHANGED <<app, worker>>
    /\ UNCHANGED <<mode, then, ret, disc, shared, ptrs, beats, socks,
                   inflight, armed, shaken, work, result>>

\* pc_client_destroy reads client->state.
Destroy ==
    /\ Alive /\ app \in {"new", "ready"}
    /\ app' = IF state \in {"INITED", "CLOSED"} THEN "clear" ELSE "destroying"
    /\ UNCHANGED <<mode, then, ret, disc, shared, ptrs, beats, socks,
                   inflight, armed, shaken, worker, work, result, fault>>

\* pc_client_destroy calls pc_client_disconnect and will join.
DestroyDisconnect ==
    /\ Alive /\ app = "destroying"
    /\ state' = "DISCONNECTING"
    /\ disc' = 1
    /\ app' = "signal" /\ then' = "clear"
    /\ UNCHANGED <<mode, ret, handles, async, ptrs, beats, socks, inflight,
                   armed, shaken, worker, work, result, fault>>

\* pc__client_clear, uv_loop_delete, free(client).
Free ==
    /\ Alive /\ app = "clear"
    /\ app' = "freed"
    /\ UNCHANGED <<mode, then, ret, disc, shared, ptrs, beats, socks,
                   inflight, armed, shaken, worker, work, result, fault>>
-----------------------------------------------------------------------------
(* pc_client_stop and what follows it.                                     *)

\* The state is read under state_mutex and used after the unlock.
StopRead ==
    /\ Alive /\ worker = "loop" /\ wpc = "stop"
    /\ snap' = state
    /\ wpc' = "act"
    /\ UNCHANGED <<appv, shared, ptrs, beats, socks, inflight, armed, shaken,
                   worker, after, back, result, fault>>

StopActs == Alive /\ worker = "loop" /\ wpc = "act"

Reconnects == EnableReconnect /\ snap # "DISCONNECTING"

\* The three early returns: already reconnecting, not connected, closed.
StopIgnored ==
    /\ StopActs
    /\ \/ Reconnects /\ reconnecting = 1 /\ UNCHANGED state
       \/ ~Reconnects /\ snap = "INITED" /\ state' = "CLOSED"
       \/ ~Reconnects /\ snap = "CLOSED" /\ UNCHANGED state
    /\ StopReturns
    /\ UNCHANGED <<appv, handles, async, ptrs, beats, socks, inflight, armed,
                   shaken, worker, result, fault>>

\* pc__client_reconnect that does not arm the reconnect timer.
StopReconnectUnarmed ==
    /\ StopActs /\ Reconnects /\ reconnecting = 0
    /\ reconnecting' = 1
    /\ DestroyTransport
    /\ armed' = armed \ {"heartbeat", "timeout"}
    /\ heartbeat' = IF handles = "open" THEN "unset" ELSE heartbeat
    /\ state' = "INITED"
    /\ StopReturns
    /\ UNCHANGED <<appv, handles, async, conn_req, repeat, pend, shaken,
                   worker, result, fault>>

\* pc__client_reconnect that does not destroy the old transport.
StopReconnectKeepsTransport ==
    /\ StopActs /\ Reconnects /\ reconnecting = 0
    /\ reconnecting' = 1
    /\ armed' = (armed \ {"heartbeat", "timeout"}) \cup {"reconnect"}
    /\ heartbeat' = IF handles = "open" THEN "unset" ELSE heartbeat
    /\ state' = "INITED"
    /\ StopReturns
    /\ UNCHANGED <<appv, handles, async, transport, conn_req, repeat, socks,
                   inflight, shaken, worker, result, fault>>

\* pc__client_reconnect that leaves client->state as it was.
StopReconnectKeepsState ==
    /\ StopActs /\ Reconnects /\ reconnecting = 0
    /\ reconnecting' = 1
    /\ DestroyTransport
    /\ armed' = (armed \ {"heartbeat", "timeout"}) \cup {"reconnect"}
    /\ heartbeat' = IF handles = "open" THEN "unset" ELSE heartbeat
    /\ StopReturns
    /\ UNCHANGED <<appv, shared, conn_req, repeat, pend, shaken, worker,
                   result, fault>>

\* pc__client_reconnect: everything of the connection is reset, except the
\* handshake timer, and the reconnect timer is armed.
StopReconnect ==
    /\ StopActs /\ Reconnects /\ reconnecting = 0
    /\ reconnecting' = 1
    /\ DestroyTransport
    /\ armed' = (armed \ {"heartbeat", "timeout"}) \cup {"reconnect"}
    /\ heartbeat' = IF handles = "open" THEN "unset" ELSE heartbeat
    /\ state' = "INITED"
    /\ StopReturns
    /\ UNCHANGED <<appv, handles, async, conn_req, repeat, pend, shaken,
                   worker, result, fault>>

\* The connection is given up: CLOSED is written first ...
StopClose ==
    /\ StopActs /\ ~Reconnects /\ snap \notin {"INITED", "CLOSED"}
    /\ state' = "CLOSED"
    /\ wpc' = "close"
    /\ UNCHANGED <<appv, handles, async, ptrs, beats, socks, inflight, armed,
                   shaken, worker, snap, after, back, result, fault>>

\* The teardown that forgets the heartbeat timer.
TeardownKeepsBeating ==
    /\ Alive /\ worker = "loop" /\ wpc = "close"
    /\ DestroyTransport
    /\ armed' = armed \ {"handshake", "timeout"}
    /\ heartbeat' = IF handles = "open" THEN "unset" ELSE heartbeat
    /\ handles' = "closed"
    /\ StopReturns
    /\ UNCHANGED <<appv, state, async, reconnecting, conn_req, repeat, pend,
                   shaken, worker, result, fault>>

\* ... then the transport and every handle are closed.
Teardown ==
    /\ Alive /\ worker = "loop" /\ wpc = "close"
    /\ DestroyTransport
    /\ armed' = IF EnableReconnect THEN {} ELSE armed \cap {"reconnect"}
    /\ heartbeat' = IF handles = "open" THEN "unset" ELSE heartbeat
    /\ handles' = "closed"
    /\ fault' = IF EnableReconnect /\ handles = "closed"
                THEN "double_close" ELSE fault
    /\ StopReturns
    /\ UNCHANGED <<appv, state, async, reconnecting, conn_req, repeat, pend,
                   shaken, worker, result>>

\* conn_req->cb(conn_req, -1): pc__client_connected_cb and connect3_cb stop
\* the client, pc__client_reconnected_cb also ends the reconnect attempt; a
\* connect2 callback is the user's.
ConnCbError ==
    /\ Alive /\ worker = "loop" /\ wpc = "cb"
    /\ Told(after, "error")
    /\ IF after = First
       THEN UNCHANGED <<reconnecting, armed>>
       ELSE reconnecting' = 0 /\ armed' = armed \ {"reconnect"}
    /\ wpc' = IF after = First /\ mode = "connect2" THEN "idle" ELSE "stop"
    /\ after' = NULL
    /\ UNCHANGED <<appv, shared, transport, conn_req, beats, socks, inflight,
                   shaken, worker, snap, back, fault>>
-----------------------------------------------------------------------------
(* pc__on_tcp_connect.                                                     *)

\* The client is no longer CONNECTING: the callback is told, the transport is
\* left as it is.
TcpConnectStale(c) ==
    /\ Idle /\ c \in pend
    /\ state # "CONNECTING"
    /\ pend' = pend \ {c}
    /\ conn_req' = NULL
    /\ wpc' = "cb" /\ after' = c
    /\ UNCHANGED <<appv, shared, reconnecting, transport, beats, tp, inflight,
                   armed, shaken, worker, snap, back, result, fault>>

\* The failed transport is not destroyed.
TcpConnectErrorLeaks(c) ==
    /\ Idle /\ c \in pend
    /\ state = "CONNECTING"
    /\ pend' = pend \ {c}
    /\ conn_req' = NULL
    /\ CallStop(c)
    /\ UNCHANGED <<appv, shared, reconnecting, transport, beats, tp, inflight,
                   armed, shaken, worker, result, fault>>

\* The connect failed.
TcpConnectError(c) ==
    /\ Idle /\ c \in pend
    /\ state = "CONNECTING"
    /\ pend' = pend \ {c}
    /\ tp' = [tp EXCEPT ![c] = "CLOSED"]
    /\ conn_req' = NULL
    /\ CallStop(c)
    /\ UNCHANGED <<appv, shared, reconnecting, transport, beats, inflight,
                   armed, shaken, worker, result, fault>>

\* The state is not looked at when the connect has succeeded.
TcpConnectOkUnchecked(c) ==
    /\ Idle /\ c \in pend
    /\ pend' = pend \ {c}
    /\ transport' = c
    /\ shaken' = 0
    /\ wpc' = "connected" /\ after' = c
    /\ UNCHANGED <<appv, shared, reconnecting, conn_req, beats, tp, inflight,
                   armed, worker, snap, back, result, fault>>

\* The transport is not attached to the client.
TcpConnectOkDetached(c) ==
    /\ Idle /\ c \in pend
    /\ state = "CONNECTING"
    /\ pend' = pend \ {c}
    /\ shaken' = 0
    /\ wpc' = "connected" /\ after' = c
    /\ UNCHANGED <<appv, shared, ptrs, beats, tp, inflight, armed, worker,
                   snap, back, result, fault>>

\* The connect succeeded: the transport is attached ...
TcpConnectOk(c) ==
    /\ Idle /\ c \in pend
    /\ state = "CONNECTING"
    /\ pend' = pend \ {c}
    /\ transport' = c
    /\ shaken' = 0
    /\ wpc' = "connected" /\ after' = c
    /\ UNCHANGED <<appv, shared, reconnecting, conn_req, beats, tp, inflight,
                   armed, worker, snap, back, result, fault>>

\* The handshake timer is not started.
HandshakeReqUntimed ==
    /\ Alive /\ worker = "loop" /\ wpc = "connected"
    /\ state' = "CONNECTED"
    /\ tp' = [tp EXCEPT ![transport] = "WORKING"]
    /\ inflight' = inflight \cup {"handshake"}
    /\ wpc' = "idle" /\ after' = NULL
    /\ UNCHANGED <<appv, handles, async, ptrs, beats, pend, armed, shaken,
                   worker, snap, back, result, fault>>

\* ... the state is written, whatever it is by now, the transport started and
\* the handshake request sent under a ten-second timer.
HandshakeReq ==
    /\ Alive /\ worker = "loop" /\ wpc = "connected"
    /\ state' = "CONNECTED"
    /\ tp' = [tp EXCEPT ![transport] = "WORKING"]
    /\ inflight' = inflight \cup {"handshake"}
    /\ armed' = armed \cup {"handshake"}
    /\ fault' = IF handles = "open" THEN fault ELSE "null_timer"
    /\ wpc' = "idle" /\ after' = NULL
    /\ UNCHANGED <<appv, handles, async, ptrs, beats, pend, shaken, worker,
                   snap, back, result>>

\* uv_read_start or the write of the handshake request fails.
HandshakeReqError ==
    /\ Alive /\ worker = "loop" /\ wpc = "connected"
    /\ \/ UNCHANGED <<state, tp>>
       \/ state' = "CONNECTED" /\ tp' = [tp EXCEPT ![transport] = "WORKING"]
    /\ conn_req' = NULL
    /\ wpc' = "stop"
    /\ UNCHANGED <<appv, handles, async, reconnecting, transport, beats, pend,
                   inflight, armed, shaken, worker, snap, after, back, result,
                   fault>>

\* w is in flight and libuv has nothing to write before it on this socket.
FirstWritten(w) ==
    /\ w \in inflight
    /\ w \in Acks => "handshake" \notin inflight
    /\ w = "ack2" => "ack" \notin inflight

\* pc__handshake_req_cb and pc__handshake_ack_cb after a failed write: the
\* client is stopped and, if the connect request is still there, it is told.
HandshakeWriteError ==
    /\ Idle /\ transport # NULL
    /\ \E w \in {"handshake"} \cup Acks :
          FirstWritten(w) /\ inflight' = inflight \ {w}
    /\ conn_req' = NULL
    /\ CallStop(conn_req)
    /\ UNCHANGED <<appv, shared, reconnecting, transport, beats, socks, armed,
                   shaken, worker, result, fault>>

HandshakeReqWritten ==
    /\ Idle /\ "handshake" \in inflight
    /\ inflight' = inflight \ {"handshake"}
    /\ UNCHANGED <<appv, shared, ptrs, beats, socks, armed, shaken, worker,
                   work, result, fault>>

\* client->conn_req is not cleared before its callback.
HandshakeAckKeepsReq ==
    /\ Idle
    /\ \E w \in Acks : FirstWritten(w) /\ inflight' = inflight \ {w}
    /\ state' = "WORKING"
    /\ IF conn_req = NULL THEN UNCHANGED result ELSE Told(conn_req, "ok")
    /\ IF conn_req \in Slots
       THEN reconnecting' = 0 /\ armed' = armed \ {"reconnect"}
       ELSE UNCHANGED <<reconnecting, armed>>
    /\ IF conn_req = First /\ mode = "connect" THEN Broadcast
       ELSE UNCHANGED appv
    /\ UNCHANGED <<handles, async, transport, conn_req, beats, socks, shaken,
                   worker, work, fault>>

\* pc__handshake_ack_cb: the connection is WORKING and conn_req->cb is told.
HandshakeAckWritten ==
    /\ Idle
    /\ \E w \in Acks : FirstWritten(w) /\ inflight' = inflight \ {w}
    /\ state' = "WORKING"
    /\ conn_req' = NULL
    /\ IF conn_req = NULL THEN UNCHANGED result ELSE Told(conn_req, "ok")
    /\ IF conn_req \in Slots
       THEN reconnecting' = 0 /\ armed' = armed \ {"reconnect"}
       ELSE UNCHANGED <<reconnecting, armed>>
    /\ IF conn_req = First /\ mode = "connect" THEN Broadcast
       ELSE UNCHANGED appv
    /\ UNCHANGED <<handles, async, transport, beats, socks, shaken, worker,
                   work, fault>>
-----------------------------------------------------------------------------
(* The end of file and the packages of a chunk.                            *)

\* The socket of the attached transport is being read.
Reading == Idle /\ transport # NULL /\ tp[transport] = "WORKING"

\* pc_tp_on_tcp_read with nread = -1.
Eof ==
    /\ Reading
    /\ reconnecting' = 0
    /\ CallStop(NULL)
    /\ UNCHANGED <<appv, shared, transport, conn_req, beats, socks, inflight,
                   armed, shaken, worker, result, fault>>

\* pc_tp_on_tcp_read with data: pc_pkg_parser_feed begins.
ReadChunk ==
    /\ Reading
    /\ wpc' = "feed" /\ back' = "feed"
    /\ UNCHANGED <<appv, shared, ptrs, beats, socks, inflight, armed, shaken,
                   worker, snap, after, result, fault>>

\* The next package of the chunk.  Neither pc_pkg_parser_feed nor pc__pkg_cb
\* looks at the transport or at client->state: a package of the rest of a
\* chunk is handled although the client has been stopped.
Receiving == Alive /\ worker = "loop" /\ wpc = "feed"

\* The end of the chunk.
FeedReturns ==
    /\ Receiving
    /\ wpc' = "idle" /\ back' = "idle"
    /\ UNCHANGED <<appv, shared, ptrs, beats, socks, inflight, armed, shaken,
                   worker, snap, after, result, fault>>

\* pc_pkg_parser_feed fails: pc_client_on_tcp_read stops the client.
FeedError ==
    /\ Receiving
    /\ wpc' = "stop" /\ back' = "idle"
    /\ UNCHANGED <<appv, shared, ptrs, beats, socks, inflight, armed, shaken,
                   worker, snap, after, result, fault>>

\* A handler uses a timer that pc_client_stop has closed and set to NULL.
NullTimer ==
    /\ handles = "closed"
    /\ fault' = "null_timer"
    /\ UNCHANGED <<appv, shared, ptrs, beats, socks, inflight, armed, shaken,
                   worker, work, result>>

\* pc__heartbeat: the peer is there; uv_timer_again needs a repeat.
SawHeartbeat(again) ==
    armed' = IF again = 1 THEN (armed \ {"timeout"}) \cup {"heartbeat"}
             ELSE armed \ {"timeout"}

\* pc__handshake_resp, code 200, up to the return of the user's handshake_cb,
\* which may call pc_client_stop.  sys.heartbeat is positive ("some"), not
\* ("no"), or there is no sys ("unset"): only a positive one sets the timers'
\* repeat.  Nothing keeps the peer from answering again.
HandshakeResp(interval, stops) ==
    /\ Receiving /\ handles = "open" /\ shaken < MaxAnswers
    /\ shaken' = shaken + 1
    /\ armed' = armed \ {"handshake"}
    /\ heartbeat' = IF interval = "unset" THEN heartbeat ELSE interval
    /\ repeat' = IF interval = "some" THEN 1 ELSE repeat
    /\ back' = "ack"
    /\ wpc' = IF stops THEN "stop" ELSE "ack"
    /\ UNCHANGED <<appv, shared, ptrs, socks, inflight, worker, snap, after,
                   result, fault>>

\* The heartbeat timer is started whatever the peer asked for.
HandshakeAckAlwaysBeats(acked) ==
    /\ Alive /\ worker = "loop" /\ wpc = "ack"
    /\ handles = "open"
    /\ inflight' = inflight \cup
          (IF acked /\ state \in {"CONNECTED", "WORKING"}
           THEN {IF shaken = 1 THEN "ack" ELSE "ack2"} ELSE {})
    /\ SawHeartbeat(1)
    /\ wpc' = "feed" /\ back' = "feed"
    /\ UNCHANGED <<appv, shared, ptrs, beats, socks, shaken, worker, snap,
                   after, result, fault>>

\* The rest of pc__handshake_resp: unless handshake_cb refused, the ack is
\* written, if pc__binary_write finds the client connected; then pc__heartbeat.
HandshakeAck(acked) ==
    /\ Alive /\ worker = "loop" /\ wpc = "ack"
    /\ handles = "open"
    /\ inflight' = inflight \cup
          (IF acked /\ state \in {"CONNECTED", "WORKING"}
           THEN {IF shaken = 1 THEN "ack" ELSE "ack2"} ELSE {})
    /\ SawHeartbeat(repeat)
    /\ wpc' = "feed" /\ back' = "feed"
    /\ UNCHANGED <<appv, shared, ptrs, beats, socks, shaken, worker, snap,
                   after, result, fault>>

\* handshake_cb has stopped a client that does not reconnect.
HandshakeAckTornDown ==
    /\ Alive /\ worker = "loop" /\ wpc = "ack"
    /\ NullTimer

\* pc__handshake_resp fails: pc__pkg_cb stops the client.
HandshakeRespError ==
    /\ Receiving /\ handles = "open"
    /\ armed' = armed \ {"handshake"}
    /\ CallStop(NULL)
    /\ UNCHANGED <<appv, shared, ptrs, beats, socks, inflight, shaken, worker,
                   result, fault>>

\* A heartbeat package.
HeartbeatPkg ==
    /\ Receiving /\ handles = "open"
    /\ SawHeartbeat(repeat)
    /\ UNCHANGED <<appv, shared, ptrs, beats, socks, inflight, shaken, worker,
                   work, result, fault>>

\* A handshake or heartbeat package in the rest of a chunk.
PkgTornDown ==
    /\ Receiving
    /\ NullTimer

\* A package that pc__pkg_cb rejects, or a user callback that calls
\* pc_client_stop.
StopInCallback ==
    /\ Receiving
    /\ CallStop(NULL)
    /\ UNCHANGED <<appv, shared, ptrs, beats, socks, inflight, armed,
                   shaken, worker, result, fault>>
-----------------------------------------------------------------------------
(* Timers, the async handle and the end of the loop.                       *)

\* pc__handshake_timeout_cb.
HandshakeTimeout ==
    /\ Idle /\ "handshake" \in armed
    /\ armed' = armed \ {"handshake"}
    /\ CallStop(NULL)
    /\ UNCHANGED <<appv, shared, ptrs, beats, socks, inflight, shaken, worker,
                   result, fault>>

\* pc__heartbeat_cb that does not start the timeout.
HeartbeatUnwatched ==
    /\ Idle /\ "heartbeat" \in armed /\ state = "WORKING"
    /\ inflight' = inflight \cup {"heartbeat"}
    /\ armed' = armed \ {"heartbeat"}
    /\ UNCHANGED <<appv, shared, ptrs, beats, socks, shaken, worker, work,
                   result, fault>>

\* pc__heartbeat_cb on a WORKING client: a heartbeat is written and the
\* timeout started.
Heartbeat ==
    /\ Idle /\ "heartbeat" \in armed /\ state = "WORKING"
    /\ inflight' = inflight \cup {"heartbeat"}
    /\ armed' = (armed \ {"heartbeat"})
                   \cup (IF repeat = 1 THEN {"timeout"} ELSE {})
    /\ UNCHANGED <<appv, shared, ptrs, beats, socks, shaken, worker, work,
                   result, fault>>

\* pc__heartbeat_req fails: the client is not WORKING, or the write fails.
HeartbeatError ==
    /\ Idle /\ "heartbeat" \in armed
    /\ armed' = armed \ {"heartbeat"}
    /\ CallStop(NULL)
    /\ UNCHANGED <<appv, shared, ptrs, beats, socks, inflight, shaken, worker,
                   result, fault>>

\* pc__heartbeat_req_cb.  Its request carries the transport, which a failed
\* write takes for the client.
HeartbeatWritten ==
    /\ Idle /\ "heartbeat" \in inflight
    /\ inflight' = inflight \ {"heartbeat"}
    /\ fault' \in {"none", "bad_cast"}
    /\ UNCHANGED <<appv, shared, ptrs, beats, socks, armed, shaken, worker,
                   work, result>>

\* pc__timeout_cb.
HeartbeatTimeout ==
    /\ Idle /\ "timeout" \in armed
    /\ armed' = armed \ {"timeout"}
    /\ CallStop(NULL)
    /\ UNCHANGED <<appv, shared, ptrs, beats, socks, inflight, shaken, worker,
                   result, fault>>

\* pc__client_reconnect_timer_cb: pc_connect reads the state ...
ReconnectTimer ==
    /\ Idle /\ "reconnect" \in armed /\ LoopAlive
    /\ armed' = armed \ {"reconnect"}
    /\ state = "INITED"
    /\ wpc' = "connect"
    /\ UNCHANGED <<appv, shared, ptrs, beats, socks, inflight, shaken, worker,
                   snap, after, back, result, fault>>

\* ... and writes it.
ReconnectStart(c) ==
    /\ Alive /\ worker = "loop" /\ wpc = "connect"
    /\ c \in FreeSlots
    /\ StartConnect(c)
    /\ wpc' = "idle"
    /\ UNCHANGED <<appv, handles, async, reconnecting, transport, beats,
                   inflight, armed, shaken, worker, snap, after, back, fault>>

\* pc_connect fails after its state check.
ReconnectStartError ==
    /\ Alive /\ worker = "loop" /\ wpc = "connect"
    /\ state' = "CONNECTING"
    /\ reconnecting' = 0
    /\ CallStop(NULL)
    /\ UNCHANGED <<appv, handles, async, transport, conn_req, beats, socks,
                   inflight, armed, shaken, worker, result, fault>>

\* The host name does not resolve, or the state is not INITED.
ReconnectTimerError ==
    /\ Idle /\ "reconnect" \in armed /\ LoopAlive
    /\ armed' = armed \ {"reconnect"}
    /\ reconnecting' = 0
    /\ CallStop(NULL)
    /\ UNCHANGED <<appv, shared, transport, conn_req, beats, socks, inflight,
                   shaken, worker, result, fault>>

\* pc__close_async_cb; a closed handle has no callback.
CloseAsync ==
    /\ Idle /\ async = 1 /\ handles = "open"
    /\ async' = 0
    /\ CallStop(NULL)
    /\ UNCHANGED <<appv, state, handles, ptrs, beats, socks, inflight, armed,
                   shaken, worker, result, fault>>

\* uv_run returns; pc__worker makes sure of the state.
LoopExit ==
    /\ Idle /\ ~LoopAlive
    /\ worker' = "exit"
    /\ state' = "CLOSED"
    /\ UNCHANGED <<appv, handles, async, ptrs, beats, socks, inflight, armed,
                   shaken, work, result, fault>>

\* The worker's last broadcast is missing.
WorkerEndsSilently ==
    /\ Alive /\ worker = "exit"
    /\ worker' = "done"
    /\ UNCHANGED <<appv, shared, ptrs, beats, socks, inflight, armed, shaken,
                   work, result, fault>>

\* The worker emits PC_EVENT_DISCONNECT, broadcasts and ends.
WorkerEnds ==
    /\ Alive /\ worker = "exit"
    /\ worker' = "done"
    /\ Broadcast
    /\ UNCHANGED <<shared, ptrs, beats, socks, inflight, armed, shaken, work,
                   result, fault>>
-----------------------------------------------------------------------------
\* What the application starts, at will.
AppCall ==
    \/ \E m \in Modes : Connect(m) \/ ConnectFails(m)
    \/ StopUnconnected
    \/ Disconnect
    \/ Join
    \/ Destroy

\* What a call of the application goes on with.
AppStep ==
    \/ Spawn
    \/ EnterWait
    \/ ConnectReturns
    \/ Signal
    \/ Joined
    \/ DestroyDisconnect
    \/ Free

\* The worker inside a callback, or leaving.
WorkerStep ==
    \/ StopRead
    \/ StopIgnored
    \/ StopReconnect
    \/ StopClose
    \/ Teardown
    \/ ConnCbError
    \/ HandshakeReq
    \/ HandshakeReqError
    \/ \E c \in Slots : ReconnectStart(c)
    \/ ReconnectStartError
    \/ HandshakeAck(TRUE)
    \/ UserRejects /\ HandshakeAck(FALSE)
    \/ HandshakeAckTornDown
    \/ LoopExit
    \/ WorkerEnds

\* What the peer sends, and how the chunk with it ends.
PeerStep ==
    \/ Eof
    \/ ReadChunk
    \/ \E interval \in {"unset", "some", "no"}, stops \in BOOLEAN :
          HandshakeResp(interval, stops)
    \/ HandshakeRespError
    \/ HeartbeatPkg
    \/ PkgTornDown
    \/ StopInCallback
    \/ FeedReturns
    \/ FeedError

TcpConnected ==
    \E c \in Conn : TcpConnectStale(c) \/ TcpConnectError(c) \/ TcpConnectOk(c)

Written ==
    \/ HandshakeWriteError
    \/ HandshakeReqWritten
    \/ HandshakeAckWritten
    \/ HeartbeatWritten

TimerStep ==
    \/ HandshakeTimeout
    \/ Heartbeat
    \/ HeartbeatError
    \/ HeartbeatTimeout
    \/ ReconnectTimer
    \/ ReconnectTimerError

Next ==
    \/ AppCall
    \/ AppStep
    \/ WorkerStep
    \/ PeerStep
    \/ TcpConnected
    \/ Written
    \/ TimerStep
    \/ CloseAsync

Spec == Init /\ [][Next]_vars

\* Each thread goes on with what it has begun; a chunk has an end; the kernel
\* ends every connect and write; every iteration of the libuv loop fires the
\* timers that are due and handles a sent async, also when each iteration
\* brings data.  Nothing makes the application call or the peer answer.
Fairness ==
    /\ WF_vars(AppStep)
    /\ WF_vars(WorkerStep)
    /\ SF_vars(FeedReturns)
    /\ SF_vars(TcpConnected)
    /\ SF_vars(Written)
    /\ SF_vars(HandshakeTimeout)
    /\ SF_vars(Heartbeat \/ HeartbeatError)
    /\ SF_vars(HeartbeatTimeout)
    /\ SF_vars(ReconnectTimer \/ ReconnectTimerError)
    /\ SF_vars(CloseAsync)

FairSpec == Spec /\ Fairness
-----------------------------------------------------------------------------
(* Properties.                                                             *)

\* Every variable has its type, and inside a callback the pointers the rest
\* of it dereferences are not NULL.
TypeOK ==
    /\ state \in States /\ snap \in States
    /\ handles \in {"open", "closed"} /\ async \in {0, 1}
    /\ reconnecting \in {0, 1}
    /\ transport \in Ptr /\ conn_req \in Ptr /\ after \in Ptr
    /\ heartbeat \in {"unset", "some", "no"}
    /\ tp \in [Conn -> {"none", "CONNECTING", "WORKING", "CLOSED"}]
    /\ pend \subseteq Conn
    /\ inflight \subseteq {"handshake", "heartbeat"} \cup Acks
    /\ armed \subseteq {"handshake", "heartbeat", "timeout", "reconnect"}
    /\ repeat \in {0, 1} /\ shaken \in 0..MaxAnswers
    /\ worker \in {"none", "loop", "exit", "done", "joined"}
    /\ back \in {"idle", "feed", "ack"}
    /\ wpc \in {"idle", "feed", "ack", "stop", "act", "close", "cb",
               "connected", "connect"}
    /\ wpc \in {"cb", "connected"} => after # NULL
    /\ wpc = "connected" => transport # NULL
    /\ wpc \in {"idle", "feed", "ack"} => wpc = back
    /\ wpc \in {"idle", "feed", "ack", "connect"} => after = NULL
    /\ wpc \in {"cb", "connected", "connect"} => back = "idle"
    /\ after # NULL => back = "idle"
    /\ app \in {"new", "spawn", "enter", "waiting", "woken", "ready", "signal",
                "join", "destroying", "clear", "freed"}
    /\ mode \in Modes \cup {"none"}
    /\ then \in {"ready", "clear"}
    /\ ret \in {"none", "ok", "error"}
    /\ disc \in {0, 1}
    /\ result \in [Conn -> {"none", "ok", "error", "again"}]
    /\ fault \in Faults

\* The callback of a connect request is never called twice, although the TCP
\* connect, both handshake writes and the ack can each end the attempt.
ConnCbAtMostOnce == \A c \in Conn : result[c] # "again"

\* pc_client_connect returns 0 only after the handshake has been completed on
\* the application's own attempt; being woken is not enough.
ConnectOkIsConnected ==
    (mode = "connect" /\ ret = "ok") => result[First] = "ok"

\* A client whose handles pc_client_stop has closed has no transport and no
\* armed timer again, whichever callback comes late.
TornDownStaysDown ==
    handles = "closed" => transport = NULL /\ armed = {}

\* pc__binary_write looks at client->state and then takes client->transport for
\* granted: a client that counts as connected has a transport, wherever the
\* worker has got to, also in the rest of a chunk in which it was stopped.
WritesHaveTransport == state \in {"CONNECTED", "WORKING"} => transport # NULL

\* A timer that pc_client_stop has set to NULL is used only inside the very
\* pc_pkg_parser_feed that called it: no other callback, however late, does.
NullTimerOnlyInFeed == fault = "null_timer" => back # "idle"

\* Data that comes after the stop is not acted upon: "Discard read data for
\* transport has stop work" (transport.c:87).
StoppedDiscards == fault # "null_timer"

\* While heartbeats are agreed on, a WORKING connection always has the
\* heartbeat or the timeout timer armed: otherwise a dead peer is not noticed.
WatchdogArmed ==
    (Idle /\ state = "WORKING" /\ heartbeat = "some") 
        => armed \cap {"heartbeat", "timeout"} # {}

\* A reconnecting client never has two live transports.
OneLiveTransport ==
    \A c, d \in Conn :
        (c # d /\ (c \in pend \/ tp[c] = "WORKING"))
            => ~(d \in pend \/ tp[d] = "WORKING")

\* When the worker has ended by itself every transport has been closed.  (A
\* disconnect while TCP connects leaves one open: TcpConnectStale.)
NothingLeaked ==
    (worker \in {"done", "joined"} /\ disc = 0) =>
        \A c \in Conn : tp[c] \in {"none", "CLOSED"}

\* Heartbeats are sent only on a connection whose handshake asked for them:
\* pkg-handshake.c:124 says "no need heartbeat" otherwise.  (A second answer
\* on the same connection does not clear the repeat of the first.)
HeartbeatAsAgreed ==
    shaken < 2 => ("heartbeat" \in armed => heartbeat = "some")

\* The same of what a handshake with "no need heartbeat" (pkg-handshake.c:124)
\* leaves running, whatever earlier connections have agreed on.
NoNeedHeartbeat ==
    (Idle /\ shaken = 1 /\ heartbeat = "no")
        => armed \cap {"heartbeat", "timeout"} = {}

\* The handshake of the attached transport is under way: its timer runs or an
\* ack is being written.
HandshakeUnderWay ==
    transport # NULL /\ ("handshake" \in armed \/ inflight \cap Acks # {})

\* With reconnect enabled and no disconnect, between two callbacks something is
\* there that will go on: the reconnect timer, a connect in flight, a handshake
\* under way or a WORKING connection.  The exceptions are an answer the user
\* refused, and a reconnect attempt whose handshake failed while the flag
\* reconnecting made pc_client_stop return (StillReconnecting).
ReconnectScheduled ==
    (Idle /\ EnableReconnect /\ disc = 0) =>
        \/ "reconnect" \in armed
        \/ pend # {}
        \/ HandshakeUnderWay
        \/ transport # NULL /\ \/ state = "WORKING"
                               \/ UserRejects /\ shaken > 0
                               \/ reconnecting = 1

\* "still reconnecting, just return" (client.c:320): while the flag makes
\* pc_client_stop return, the attempt it stands for is under way.
StillReconnecting ==
    (Idle /\ reconnecting = 1 /\ disc = 0) =>
        "reconnect" \in armed \/ pend # {} \/ HandshakeUnderWay

\* The reconnect timer is armed only on a client that has been reset, so that
\* pc_connect, which requires INITED, succeeds when it fires.
RetryFromReset ==
    (Idle /\ "reconnect" \in armed /\ disc = 0) =>
        state = "INITED" /\ reconnecting = 1 /\ transport = NULL /\ pend = {}

\* The caller of pc_client_connect does not wait for a success that has been
\* announced already ("2. wait connect result", client.c:488).
NoLostWakeup == app = "waiting" => result[First] # "ok"

\* pc_client_destroy frees the client only when no worker is using it.
NoUseAfterFree == app = "freed" => worker \in {"none", "done", "joined"}

\* "disconnect will make the uv loop to exit" (client.c:113).
DisconnectStops ==
    (disc = 1 /\ worker = "loop") ~> (worker # "loop" \/ ~Alive)

\* A caller of pc_client_connect that waits before the result is known is
\* woken, by the success or by the end of the worker.
WaiterIsWoken ==
    (app = "waiting" /\ worker = "loop" /\ result[First] # "ok")
        ~> (app # "waiting" \/ ~Alive)

\* A connection does not stay in the handshake for ever: the answer, the
\* handshake timer or a failure ends it.
HandshakeEnds ==
    state = "CONNECTED" ~> (state # "CONNECTED" \/ ~Alive)
=============================================================================
