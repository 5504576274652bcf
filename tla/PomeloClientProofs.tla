------------------------ MODULE PomeloClientProofs ------------------------
(***************************************************************************)
(* Proofs about PomeloClient, for every value of its constants.            *)
(***************************************************************************)
EXTENDS PomeloClient, TLAPS

(* Type correctness.                                                       *)

\* The initial state has its types.
LEMMA TypeInit == Init => TypeOK
  BY ClientAssumption DEF Init, TypeOK, States, Faults, Ptr, Conn, First, NULL, Acks

\* Every step of both threads keeps them: one case per callback or call.
LEMMA TypeNext == TypeOK /\ [Next]_vars => TypeOK'
  <1> SUFFICES ASSUME TypeOK, [Next]_vars PROVE TypeOK'
    OBVIOUS
  <1> USE ClientAssumption
      DEF TypeOK, States, Faults, Ptr, Conn, First, NULL, Acks,
          shared, ptrs, beats, socks, work, appv
  <1>1. CASE AppCall
    <2>1. ASSUME NEW m \in Modes, Connect(m) PROVE TypeOK'
      BY <2>1 DEF Connect, StartConnect, Alive
    <2>2. ASSUME NEW m \in Modes, ConnectFails(m) PROVE TypeOK'
      BY <2>2 DEF ConnectFails, Alive
    <2>3. CASE StopUnconnected
      BY <2>3 DEF StopUnconnected
    <2>4. CASE Disconnect
      BY <2>4 DEF Disconnect
    <2>5. CASE Join
      BY <2>5 DEF Join
    <2>6. CASE Destroy
      BY <2>6 DEF Destroy
    <2>7. QED
      BY <1>1, <2>1, <2>2, <2>3, <2>4, <2>5, <2>6 DEF AppCall
  <1>2. CASE AppStep
    <2>1. CASE Spawn
      BY <2>1 DEF Spawn
    <2>2. CASE EnterWait
      BY <2>2 DEF EnterWait
    <2>3. CASE ConnectReturns
      BY <2>3 DEF ConnectReturns
    <2>4. CASE Signal
      BY <2>4 DEF Signal
    <2>5. CASE Joined
      BY <2>5 DEF Joined
    <2>6. CASE DestroyDisconnect
      BY <2>6 DEF DestroyDisconnect
    <2>7. CASE Free
      BY <2>7 DEF Free
    <2>8. QED
      BY <1>2, <2>1, <2>2, <2>3, <2>4, <2>5, <2>6, <2>7 DEF AppStep
  <1>3. CASE WorkerStep
    <2>1. CASE StopRead
      BY <2>1 DEF StopRead
    <2>2. CASE StopIgnored
      BY <2>2 DEF StopIgnored, StopReturns, StopActs, Reconnects
    <2>3. CASE StopReconnect
      BY <2>3 DEF StopReconnect, StopReturns, StopActs, Reconnects, DestroyTransport
    <2>4. CASE StopClose
      BY <2>4 DEF StopClose, StopActs, Reconnects
    <2>5. CASE Teardown
      BY <2>5 DEF Teardown, StopReturns, DestroyTransport
    <2>6. CASE ConnCbError
      <3>1. after \in Conn
        BY <2>6 DEF ConnCbError
      <3>2. result' \in [Conn -> {"none", "ok", "error", "again"}]
        BY <2>6, <3>1 DEF ConnCbError, Told
      <3>3. /\ reconnecting' \in {0, 1}
            /\ armed' \subseteq armed
        BY <2>6 DEF ConnCbError
      <3>4. wpc' \in {"idle", "stop"} /\ after' = NULL
        BY <2>6 DEF ConnCbError
      <3>5. UNCHANGED <<appv, shared, transport, conn_req, beats, socks,
                        inflight, shaken, worker, snap, back, fault>>
        BY <2>6 DEF ConnCbError
      <3>6. back = "idle"
        BY <2>6 DEF ConnCbError
      <3>7. QED
        BY <3>2, <3>3, <3>4, <3>5, <3>6
    <2>7. CASE HandshakeReq
      BY <2>7 DEF HandshakeReq
    <2>8. CASE HandshakeReqError
      BY <2>8 DEF HandshakeReqError
    <2>9. ASSUME NEW c \in Slots, ReconnectStart(c) PROVE TypeOK'
      BY <2>9 DEF ReconnectStart, StartConnect, FreeSlots
    <2>10. CASE ReconnectStartError
      BY <2>10 DEF ReconnectStartError, CallStop
    <2>11. ASSUME NEW acked \in BOOLEAN, HandshakeAck(acked) PROVE TypeOK'
      BY <2>11 DEF HandshakeAck, SawHeartbeat
    <2>12. CASE HandshakeAckTornDown
      BY <2>12 DEF HandshakeAckTornDown, NullTimer
    <2>13. CASE LoopExit
      BY <2>13 DEF LoopExit, Idle, LoopAlive
    <2>14. CASE WorkerEnds
      BY <2>14 DEF WorkerEnds, Broadcast
    <2>15. QED
      BY <1>3, <2>1, <2>2, <2>3, <2>4, <2>5, <2>6, <2>7, <2>8, <2>9, <2>10,
         <2>11, <2>12, <2>13, <2>14 DEF WorkerStep
  <1>4. CASE PeerStep
    <2>1. CASE Eof
      BY <2>1 DEF Eof, CallStop, Reading, Idle
    <2>2. CASE ReadChunk
      BY <2>2 DEF ReadChunk, Reading, Idle
    <2>3. ASSUME NEW interval \in {"unset", "some", "no"},
                 NEW stops \in BOOLEAN, HandshakeResp(interval, stops)
          PROVE  TypeOK'
      BY <2>3 DEF HandshakeResp, Receiving
    <2>4. CASE HandshakeRespError
      BY <2>4 DEF HandshakeRespError, CallStop, Receiving
    <2>5. CASE HeartbeatPkg
      BY <2>5 DEF HeartbeatPkg, SawHeartbeat, Receiving
    <2>6. CASE PkgTornDown
      BY <2>6 DEF PkgTornDown, NullTimer, Receiving
    <2>7. CASE StopInCallback
      BY <2>7 DEF StopInCallback, CallStop, Receiving
    <2>8. CASE FeedReturns
      BY <2>8 DEF FeedReturns, Receiving
    <2>9. CASE FeedError
      BY <2>9 DEF FeedError, Receiving
    <2>10. QED
      BY <1>4, <2>1, <2>2, <2>3, <2>4, <2>5, <2>6, <2>7, <2>8, <2>9
         DEF PeerStep
  <1>5. CASE TcpConnected
    <2>1. ASSUME NEW c \in Conn, TcpConnectStale(c) PROVE TypeOK'
      BY <2>1 DEF TcpConnectStale, Idle
    <2>2. ASSUME NEW c \in Conn, TcpConnectError(c) PROVE TypeOK'
      BY <2>2 DEF TcpConnectError, CallStop, Idle
    <2>3. ASSUME NEW c \in Conn, TcpConnectOk(c) PROVE TypeOK'
      BY <2>3 DEF TcpConnectOk, Idle
    <2>4. QED
      BY <1>5, <2>1, <2>2, <2>3 DEF TcpConnected
  <1>6. CASE Written
    <2>1. CASE HandshakeWriteError
      BY <2>1 DEF HandshakeWriteError, FirstWritten, CallStop, Idle
    <2>2. CASE HandshakeReqWritten
      BY <2>2 DEF HandshakeReqWritten, Idle
    <2>3. CASE HandshakeAckWritten
      <3>1. result' \in [Conn -> {"none", "ok", "error", "again"}]
        BY <2>3 DEF HandshakeAckWritten, Told
      <3>2. app' \in {"new", "spawn", "enter", "waiting", "woken", "ready",
                      "signal", "join", "destroying", "clear", "freed"}
        BY <2>3 DEF HandshakeAckWritten, Broadcast
      <3>3. UNCHANGED <<mode, then, ret, disc>>
        BY <2>3 DEF HandshakeAckWritten, Broadcast
      <3>4. /\ reconnecting' \in {0, 1}
            /\ armed' \subseteq armed
            /\ inflight' \subseteq inflight
        BY <2>3 DEF HandshakeAckWritten
      <3>5. /\ state' = "WORKING" /\ conn_req' = NULL
            /\ UNCHANGED <<handles, async, transport, beats, socks, shaken,
                           worker, work, fault>>
        BY <2>3 DEF HandshakeAckWritten
      <3>6. QED
        BY <3>1, <3>2, <3>3, <3>4, <3>5
    <2>4. CASE HeartbeatWritten
      BY <2>4 DEF HeartbeatWritten, Idle
    <2>5. QED
      BY <1>6, <2>1, <2>2, <2>3, <2>4 DEF Written
  <1>7. CASE TimerStep
    <2>1. CASE HandshakeTimeout
      BY <2>1 DEF HandshakeTimeout, CallStop, Idle
    <2>2. CASE Heartbeat
      BY <2>2 DEF Heartbeat, Idle
    <2>3. CASE HeartbeatError
      BY <2>3 DEF HeartbeatError, CallStop, Idle
    <2>4. CASE HeartbeatTimeout
      BY <2>4 DEF HeartbeatTimeout, CallStop, Idle
    <2>5. CASE ReconnectTimer
      BY <2>5 DEF ReconnectTimer, Idle
    <2>6. CASE ReconnectTimerError
      BY <2>6 DEF ReconnectTimerError, CallStop, Idle
    <2>7. QED
      BY <1>7, <2>1, <2>2, <2>3, <2>4, <2>5, <2>6 DEF TimerStep
  <1>8. CASE CloseAsync
    BY <1>8 DEF CloseAsync, CallStop, Idle
  <1>9. CASE UNCHANGED vars
    BY <1>9 DEF vars
  <1>10. QED
    BY <1>1, <1>2, <1>3, <1>4, <1>5, <1>6, <1>7, <1>8, <1>9 DEF Next

\* Every variable keeps its type, and a callback that has been cut in two
\* never finds the pointer it goes on with NULL, with and without reconnect.
THEOREM TypeCorrect == Spec => []TypeOK
  BY TypeInit, TypeNext, PTL DEF Spec
-----------------------------------------------------------------------------
(* Writes, with and without reconnect.                                     *)

\* A client that counts as connected has a transport: the state is taken back
\* before the transport is destroyed, and the writes in flight, which make the
\* client WORKING, go with it.
WriteInv ==
    /\ WritesHaveTransport
    /\ inflight \cap ({"handshake"} \cup Acks) # {} => transport # NULL
    /\ wpc = "close" => state \in {"CLOSED", "DISCONNECTING"}
    /\ app \in {"new", "spawn"} => worker = "none"
    /\ worker = "none" => wpc = "idle"

\* Every step keeps it.
LEMMA WriteNext ==
    ASSUME TypeOK, WriteInv, [Next]_vars
    PROVE  WriteInv'
  <1> USE ClientAssumption
      DEF WriteInv, WritesHaveTransport, TypeOK, Ptr, Conn, First, NULL, Acks, shared,
          ptrs, beats, socks, work, appv
  <1>1. CASE AppCall
    <2>1. ASSUME NEW m \in Modes, Connect(m) PROVE WriteInv'
      BY <2>1 DEF Connect, StartConnect, Alive
    <2>2. ASSUME NEW m \in Modes, ConnectFails(m) PROVE WriteInv'
      BY <2>2 DEF ConnectFails, Alive
    <2>3. CASE StopUnconnected
      BY <2>3 DEF StopUnconnected
    <2>4. CASE Disconnect
      BY <2>4 DEF Disconnect
    <2>5. CASE Join
      BY <2>5 DEF Join
    <2>6. CASE Destroy
      BY <2>6 DEF Destroy
    <2>7. QED
      BY <1>1, <2>1, <2>2, <2>3, <2>4, <2>5, <2>6 DEF AppCall
  <1>2. CASE AppStep
    <2>1. CASE Spawn
      BY <2>1 DEF Spawn
    <2>2. CASE EnterWait
      BY <2>2 DEF EnterWait
    <2>3. CASE ConnectReturns
      BY <2>3 DEF ConnectReturns
    <2>4. CASE Signal
      BY <2>4 DEF Signal
    <2>5. CASE Joined
      BY <2>5 DEF Joined
    <2>6. CASE DestroyDisconnect
      BY <2>6 DEF DestroyDisconnect
    <2>7. CASE Free
      BY <2>7 DEF Free
    <2>8. QED
      BY <1>2, <2>1, <2>2, <2>3, <2>4, <2>5, <2>6, <2>7 DEF AppStep
  <1>3. CASE WorkerStep
    <2>1. CASE StopRead
      BY <2>1 DEF StopRead
    <2>2. CASE StopIgnored
      BY <2>2 DEF StopIgnored, StopReturns, StopActs, Reconnects
    <2>3. CASE StopReconnect
      BY <2>3 DEF StopReconnect, StopReturns, StopActs, Reconnects, DestroyTransport
    <2>4. CASE StopClose
      BY <2>4 DEF StopClose, StopActs, Reconnects
    <2>5. CASE Teardown
      BY <2>5 DEF Teardown, StopReturns, DestroyTransport
    <2>6. CASE ConnCbError
      BY <2>6 DEF ConnCbError, Told
    <2>7. CASE HandshakeReq
      BY <2>7 DEF HandshakeReq
    <2>8. CASE HandshakeReqError
      BY <2>8 DEF HandshakeReqError
    <2>9. ASSUME NEW c \in Slots, ReconnectStart(c) PROVE WriteInv'
      BY <2>9 DEF ReconnectStart, StartConnect, FreeSlots
    <2>10. CASE ReconnectStartError
      BY <2>10 DEF ReconnectStartError, CallStop
    <2>11. ASSUME NEW acked \in BOOLEAN, HandshakeAck(acked) PROVE WriteInv'
      BY <2>11 DEF HandshakeAck, SawHeartbeat
    <2>12. CASE HandshakeAckTornDown
      BY <2>12 DEF HandshakeAckTornDown, NullTimer
    <2>13. CASE LoopExit
      BY <2>13 DEF LoopExit, Idle, LoopAlive
    <2>14. CASE WorkerEnds
      BY <2>14 DEF WorkerEnds, Broadcast
    <2>15. QED
      BY <1>3, <2>1, <2>2, <2>3, <2>4, <2>5, <2>6, <2>7, <2>8, <2>9, <2>10,
         <2>11, <2>12, <2>13, <2>14 DEF WorkerStep
  <1>4. CASE PeerStep
    <2>1. CASE Eof
      BY <2>1 DEF Eof, CallStop, Reading, Idle
    <2>2. CASE ReadChunk
      BY <2>2 DEF ReadChunk, Reading, Idle
    <2>3. ASSUME NEW interval \in {"unset", "some", "no"},
                 NEW stops \in BOOLEAN, HandshakeResp(interval, stops)
          PROVE  WriteInv'
      BY <2>3 DEF HandshakeResp, Receiving
    <2>4. CASE HandshakeRespError
      BY <2>4 DEF HandshakeRespError, CallStop, Receiving
    <2>5. CASE HeartbeatPkg
      BY <2>5 DEF HeartbeatPkg, SawHeartbeat, Receiving
    <2>6. CASE PkgTornDown
      BY <2>6 DEF PkgTornDown, NullTimer, Receiving
    <2>7. CASE StopInCallback
      BY <2>7 DEF StopInCallback, CallStop, Receiving
    <2>8. CASE FeedReturns
      BY <2>8 DEF FeedReturns, Receiving
    <2>9. CASE FeedError
      BY <2>9 DEF FeedError, Receiving
    <2>10. QED
      BY <1>4, <2>1, <2>2, <2>3, <2>4, <2>5, <2>6, <2>7, <2>8, <2>9
         DEF PeerStep
  <1>5. CASE TcpConnected
    <2>1. ASSUME NEW c \in Conn, TcpConnectStale(c) PROVE WriteInv'
      BY <2>1 DEF TcpConnectStale, Idle
    <2>2. ASSUME NEW c \in Conn, TcpConnectError(c) PROVE WriteInv'
      BY <2>2 DEF TcpConnectError, CallStop, Idle
    <2>3. ASSUME NEW c \in Conn, TcpConnectOk(c) PROVE WriteInv'
      BY <2>3 DEF TcpConnectOk, Idle
    <2>4. QED
      BY <1>5, <2>1, <2>2, <2>3 DEF TcpConnected
  <1>6. CASE Written
    <2>1. CASE HandshakeWriteError
      BY <2>1 DEF HandshakeWriteError, FirstWritten, CallStop, Idle
    <2>2. CASE HandshakeReqWritten
      BY <2>2 DEF HandshakeReqWritten, Idle
    <2>3. CASE HandshakeAckWritten
      BY <2>3 DEF HandshakeAckWritten, FirstWritten, Told, Broadcast, Idle
    <2>4. CASE HeartbeatWritten
      BY <2>4 DEF HeartbeatWritten, Idle
    <2>5. QED
      BY <1>6, <2>1, <2>2, <2>3, <2>4 DEF Written
  <1>7. CASE TimerStep
    <2>1. CASE HandshakeTimeout
      BY <2>1 DEF HandshakeTimeout, CallStop, Idle
    <2>2. CASE Heartbeat
      BY <2>2 DEF Heartbeat, Idle
    <2>3. CASE HeartbeatError
      BY <2>3 DEF HeartbeatError, CallStop, Idle
    <2>4. CASE HeartbeatTimeout
      BY <2>4 DEF HeartbeatTimeout, CallStop, Idle
    <2>5. CASE ReconnectTimer
      BY <2>5 DEF ReconnectTimer, Idle
    <2>6. CASE ReconnectTimerError
      BY <2>6 DEF ReconnectTimerError, CallStop, Idle
    <2>7. QED
      BY <1>7, <2>1, <2>2, <2>3, <2>4, <2>5, <2>6 DEF TimerStep
  <1>8. CASE CloseAsync
    BY <1>8 DEF CloseAsync, CallStop, Idle
  <1>9. CASE UNCHANGED vars
    BY <1>9 DEF vars
  <1>10. QED
    BY <1>1, <1>2, <1>3, <1>4, <1>5, <1>6, <1>7, <1>8, <1>9 DEF Next

\* The invariant holds.
THEOREM WriteInvariant == Spec => []WriteInv
  <1>1. Init => WriteInv
    BY DEF Init, WriteInv, WritesHaveTransport, Acks
  <1>2. TypeOK /\ WriteInv /\ [Next]_vars => WriteInv'
    BY WriteNext
  <1>3. QED
    BY <1>1, <1>2, TypeCorrect, PTL DEF Spec

\* pc__binary_write, which checks client->state and not client->transport,
\* never writes to a NULL transport, whatever the two threads do.
THEOREM WritesSafe == Spec => []WritesHaveTransport
  <1>1. WriteInv => WritesHaveTransport
    BY DEF WriteInv
  <1>2. QED
    BY <1>1, WriteInvariant, PTL
-----------------------------------------------------------------------------
(* A client without reconnect.                                             *)

\* The application makes the only attempt, before there is a worker.
OneAttempt ==
    /\ pend \subseteq {First}
    /\ conn_req \in {NULL, First} /\ after \in {NULL, First}
    /\ wpc # "connect" /\ "reconnect" \notin armed
    /\ app \in {"new", "spawn"} => worker = "none"
    /\ app = "new" => after = NULL /\ transport = NULL /\ pend = {}
    /\ worker = "none" => wpc = "idle" /\ handles = "open"

\* What holds once pc_client_stop has closed the handles: no callback can
\* reach one of them or bring the connection back.
ClosedForGood ==
    /\ wpc = "close" => state \in {"CLOSED", "DISCONNECTING"}
    /\ handles = "closed" =>
          /\ transport = NULL /\ armed = {} /\ inflight \cap Acks = {}
          /\ state \in {"CLOSED", "DISCONNECTING"}
          /\ wpc # "connected"

\* As long as somebody still holds the connect request its callback has not
\* been called: the pending connect, client->conn_req, or the callback that
\* is about to call it.
Untold ==
    First \in pend \/ conn_req = First \/ after = First

\* Only one of them will call it.
OneHolder ==
    /\ Untold => result[First] = "none"
    /\ First \in pend => after = NULL /\ transport = NULL
    /\ (after = First /\ wpc # "connected") => conn_req = NULL
    /\ inflight \cap ({"handshake"} \cup Acks) # {} => transport # NULL

\* A connection that is there has not been given up, and its request has been
\* told or will be.
Connected ==
    /\ state = "WORKING" => transport # NULL /\ result[First] = "ok"
    /\ transport # NULL =>
          /\ wpc # "close" => state \notin {"INITED", "CLOSED"}
          /\ wpc = "act" => snap \notin {"INITED", "CLOSED"}
          /\ wpc # "cb"
          /\ wpc \in {"idle", "feed", "ack"} =>
                conn_req = First \/ result[First] = "ok"
    /\ back # "idle" /\ handles = "open" => transport # NULL
    /\ (First \in pend \/ wpc = "connected") => conn_req = First
    /\ app = "new" => ret = "none"

\* The timers have a repeat exactly when the first answer asked for
\* heartbeats, and then one of them runs.
Beating ==
    /\ app = "new" \/ First \in pend => repeat = 0
    /\ wpc = "connected" => shaken = 0
    /\ transport # NULL =>
          /\ shaken = 0 => repeat = 0
          /\ (wpc \in {"idle", "feed"} /\ heartbeat = "some")
                => armed \cap {"heartbeat", "timeout"} # {}
          /\ repeat = 1 /\ shaken < 2 => heartbeat = "some"
    /\ heartbeat = "some" => repeat = 1

\* A transport that is neither attached nor being connected is closed, unless
\* pc_client_disconnect came while it was being connected.
Accounted ==
    /\ worker \in {"exit", "done", "joined"} => pend = {} /\ transport = NULL
    /\ async = 1 \/ app = "signal" => disc = 1
    /\ (app = "new" \/ First \in pend) => armed = {}
    /\ disc = 0 =>
          /\ First \in pend => state = "CONNECTING" /\ wpc = "idle"
          /\ \A c \in Conn : tp[c] \in {"none", "CLOSED"}
                               \/ c \in pend \/ c = transport

\* The inductive invariant of a client without reconnect.
PlainInv ==
    /\ OneAttempt /\ ClosedForGood /\ OneHolder
    /\ Connected /\ Beating /\ Accounted
    /\ NullTimerOnlyInFeed /\ ConnCbAtMostOnce
    /\ ConnectOkIsConnected /\ HeartbeatAsAgreed

\* The initial state.
LEMMA PlainInit == Init => PlainInv
  BY ClientAssumption
     DEF Init, PlainInv, OneAttempt, ClosedForGood, OneHolder, Untold,
         Connected, Beating, Accounted, NullTimerOnlyInFeed, ConnCbAtMostOnce,
         ConnectOkIsConnected, HeartbeatAsAgreed, Conn, First, NULL

\* Nothing but the application's call starts an attempt.
LEMMA OneAttemptNext ==
    ASSUME ~EnableReconnect, TypeOK, PlainInv, [Next]_vars
    PROVE  OneAttempt'
  <1> USE ClientAssumption
      DEF PlainInv, OneAttempt, TypeOK, Ptr, Conn, First, NULL, Acks, shared,
          ptrs, beats, socks, work, appv
  <1>1. CASE AppCall
    <2>1. ASSUME NEW m \in Modes, Connect(m) PROVE OneAttempt'
      BY <2>1 DEF Connect, StartConnect, Alive
    <2>2. ASSUME NEW m \in Modes, ConnectFails(m) PROVE OneAttempt'
      BY <2>2 DEF ConnectFails, Alive
    <2>3. CASE StopUnconnected
      BY <2>3 DEF StopUnconnected
    <2>4. CASE Disconnect
      BY <2>4 DEF Disconnect
    <2>5. CASE Join
      BY <2>5 DEF Join
    <2>6. CASE Destroy
      BY <2>6 DEF Destroy
    <2>7. QED
      BY <1>1, <2>1, <2>2, <2>3, <2>4, <2>5, <2>6 DEF AppCall
  <1>2. CASE AppStep
    <2>1. CASE Spawn
      BY <2>1 DEF Spawn
    <2>2. CASE EnterWait
      BY <2>2 DEF EnterWait
    <2>3. CASE ConnectReturns
      BY <2>3 DEF ConnectReturns
    <2>4. CASE Signal
      BY <2>4 DEF Signal
    <2>5. CASE Joined
      BY <2>5 DEF Joined
    <2>6. CASE DestroyDisconnect
      BY <2>6 DEF DestroyDisconnect
    <2>7. CASE Free
      BY <2>7 DEF Free
    <2>8. QED
      BY <1>2, <2>1, <2>2, <2>3, <2>4, <2>5, <2>6, <2>7 DEF AppStep
  <1>3. CASE WorkerStep
    <2>1. CASE StopRead
      BY <2>1 DEF StopRead
    <2>2. CASE StopIgnored
      BY <2>2 DEF StopIgnored, StopReturns, StopActs, Reconnects
    <2>3. CASE StopReconnect
      BY <2>3 DEF StopReconnect, StopReturns, StopActs, Reconnects, DestroyTransport
    <2>4. CASE StopClose
      BY <2>4 DEF StopClose, StopActs, Reconnects
    <2>5. CASE Teardown
      BY <2>5 DEF Teardown, StopReturns, DestroyTransport
    <2>6. CASE ConnCbError
      BY <2>6 DEF ConnCbError, Told
    <2>7. CASE HandshakeReq
      BY <2>7 DEF HandshakeReq
    <2>8. CASE HandshakeReqError
      BY <2>8 DEF HandshakeReqError
    <2>9. ASSUME NEW c \in Slots, ReconnectStart(c) PROVE OneAttempt'
      BY <2>9 DEF ReconnectStart, StartConnect, FreeSlots
    <2>10. CASE ReconnectStartError
      BY <2>10 DEF ReconnectStartError, CallStop
    <2>11. ASSUME NEW acked \in BOOLEAN, HandshakeAck(acked) PROVE OneAttempt'
      BY <2>11 DEF HandshakeAck, SawHeartbeat
    <2>12. CASE HandshakeAckTornDown
      BY <2>12 DEF HandshakeAckTornDown, NullTimer
    <2>13. CASE LoopExit
      BY <2>13 DEF LoopExit, Idle, LoopAlive
    <2>14. CASE WorkerEnds
      BY <2>14 DEF WorkerEnds, Broadcast
    <2>15. QED
      BY <1>3, <2>1, <2>2, <2>3, <2>4, <2>5, <2>6, <2>7, <2>8, <2>9, <2>10,
         <2>11, <2>12, <2>13, <2>14 DEF WorkerStep
  <1>4. CASE PeerStep
    <2>1. CASE Eof
      BY <2>1 DEF Eof, CallStop, Reading, Idle
    <2>2. CASE ReadChunk
      BY <2>2 DEF ReadChunk, Reading, Idle
    <2>3. ASSUME NEW interval \in {"unset", "some", "no"},
                 NEW stops \in BOOLEAN, HandshakeResp(interval, stops)
          PROVE  OneAttempt'
      BY <2>3 DEF HandshakeResp, Receiving
    <2>4. CASE HandshakeRespError
      BY <2>4 DEF HandshakeRespError, CallStop, Receiving
    <2>5. CASE HeartbeatPkg
      BY <2>5 DEF HeartbeatPkg, SawHeartbeat, Receiving
    <2>6. CASE PkgTornDown
      BY <2>6 DEF PkgTornDown, NullTimer, Receiving
    <2>7. CASE StopInCallback
      BY <2>7 DEF StopInCallback, CallStop, Receiving
    <2>8. CASE FeedReturns
      BY <2>8 DEF FeedReturns, Receiving
    <2>9. CASE FeedError
      BY <2>9 DEF FeedError, Receiving
    <2>10. QED
      BY <1>4, <2>1, <2>2, <2>3, <2>4, <2>5, <2>6, <2>7, <2>8, <2>9
         DEF PeerStep
  <1>5. CASE TcpConnected
    <2>1. ASSUME NEW c \in Conn, TcpConnectStale(c) PROVE OneAttempt'
      BY <2>1 DEF TcpConnectStale, Idle
    <2>2. ASSUME NEW c \in Conn, TcpConnectError(c) PROVE OneAttempt'
      BY <2>2 DEF TcpConnectError, CallStop, Idle
    <2>3. ASSUME NEW c \in Conn, TcpConnectOk(c) PROVE OneAttempt'
      BY <2>3 DEF TcpConnectOk, Idle
    <2>4. QED
      BY <1>5, <2>1, <2>2, <2>3 DEF TcpConnected
  <1>6. CASE Written
    <2>1. CASE HandshakeWriteError
      BY <2>1 DEF HandshakeWriteError, FirstWritten, CallStop, Idle
    <2>2. CASE HandshakeReqWritten
      BY <2>2 DEF HandshakeReqWritten, Idle
    <2>3. CASE HandshakeAckWritten
      BY <2>3 DEF HandshakeAckWritten, FirstWritten, Told, Broadcast, Idle
    <2>4. CASE HeartbeatWritten
      BY <2>4 DEF HeartbeatWritten, Idle
    <2>5. QED
      BY <1>6, <2>1, <2>2, <2>3, <2>4 DEF Written
  <1>7. CASE TimerStep
    <2>1. CASE HandshakeTimeout
      BY <2>1 DEF HandshakeTimeout, CallStop, Idle
    <2>2. CASE Heartbeat
      BY <2>2 DEF Heartbeat, Idle
    <2>3. CASE HeartbeatError
      BY <2>3 DEF HeartbeatError, CallStop, Idle
    <2>4. CASE HeartbeatTimeout
      BY <2>4 DEF HeartbeatTimeout, CallStop, Idle
    <2>5. CASE ReconnectTimer
      BY <2>5 DEF ReconnectTimer, Idle
    <2>6. CASE ReconnectTimerError
      BY <2>6 DEF ReconnectTimerError, CallStop, Idle
    <2>7. QED
      BY <1>7, <2>1, <2>2, <2>3, <2>4, <2>5, <2>6 DEF TimerStep
  <1>8. CASE CloseAsync
    BY <1>8 DEF CloseAsync, CallStop, Idle
  <1>9. CASE UNCHANGED vars
    BY <1>9 DEF vars
  <1>10. QED
    BY <1>1, <1>2, <1>3, <1>4, <1>5, <1>6, <1>7, <1>8, <1>9 DEF Next

\* No late callback revives a closed client, and only the rest of the chunk
\* in which it was closed uses a NULL timer.
LEMMA ClosedNext ==
    ASSUME ~EnableReconnect, TypeOK, PlainInv, [Next]_vars
    PROVE  (ClosedForGood /\ NullTimerOnlyInFeed)'
  <1> USE ClientAssumption
      DEF PlainInv, OneAttempt, ClosedForGood, NullTimerOnlyInFeed, OneHolder,
          Faults, TypeOK, Ptr, Conn, First, NULL, Acks, shared, ptrs,
          beats, socks, work, appv
  <1>1. CASE AppCall
    <2>1. ASSUME NEW m \in Modes, Connect(m) PROVE (ClosedForGood /\ NullTimerOnlyInFeed)'
      BY <2>1 DEF Connect, StartConnect, Alive
    <2>2. ASSUME NEW m \in Modes, ConnectFails(m) PROVE (ClosedForGood /\ NullTimerOnlyInFeed)'
      BY <2>2 DEF ConnectFails, Alive
    <2>3. CASE StopUnconnected
      BY <2>3 DEF StopUnconnected
    <2>4. CASE Disconnect
      BY <2>4 DEF Disconnect
    <2>5. CASE Join
      BY <2>5 DEF Join
    <2>6. CASE Destroy
      BY <2>6 DEF Destroy
    <2>7. QED
      BY <1>1, <2>1, <2>2, <2>3, <2>4, <2>5, <2>6 DEF AppCall
  <1>2. CASE AppStep
    <2>1. CASE Spawn
      BY <2>1 DEF Spawn
    <2>2. CASE EnterWait
      BY <2>2 DEF EnterWait
    <2>3. CASE ConnectReturns
      BY <2>3 DEF ConnectReturns
    <2>4. CASE Signal
      BY <2>4 DEF Signal
    <2>5. CASE Joined
      BY <2>5 DEF Joined
    <2>6. CASE DestroyDisconnect
      BY <2>6 DEF DestroyDisconnect
    <2>7. CASE Free
      BY <2>7 DEF Free
    <2>8. QED
      BY <1>2, <2>1, <2>2, <2>3, <2>4, <2>5, <2>6, <2>7 DEF AppStep
  <1>3. CASE WorkerStep
    <2>1. CASE StopRead
      BY <2>1 DEF StopRead
    <2>2. CASE StopIgnored
      BY <2>2 DEF StopIgnored, StopReturns, StopActs, Reconnects
    <2>3. CASE StopReconnect
      BY <2>3 DEF StopReconnect, StopReturns, StopActs, Reconnects, DestroyTransport
    <2>4. CASE StopClose
      BY <2>4 DEF StopClose, StopActs, Reconnects
    <2>5. CASE Teardown
      BY <2>5 DEF Teardown, StopReturns, DestroyTransport
    <2>6. CASE ConnCbError
      BY <2>6 DEF ConnCbError, Told
    <2>7. CASE HandshakeReq
      BY <2>7 DEF HandshakeReq
    <2>8. CASE HandshakeReqError
      BY <2>8 DEF HandshakeReqError
    <2>9. ASSUME NEW c \in Slots, ReconnectStart(c) PROVE (ClosedForGood /\ NullTimerOnlyInFeed)'
      BY <2>9 DEF ReconnectStart, StartConnect, FreeSlots
    <2>10. CASE ReconnectStartError
      BY <2>10 DEF ReconnectStartError, CallStop
    <2>11. ASSUME NEW acked \in BOOLEAN, HandshakeAck(acked) PROVE (ClosedForGood /\ NullTimerOnlyInFeed)'
      BY <2>11 DEF HandshakeAck, SawHeartbeat
    <2>12. CASE HandshakeAckTornDown
      BY <2>12 DEF HandshakeAckTornDown, NullTimer
    <2>13. CASE LoopExit
      BY <2>13 DEF LoopExit, Idle, LoopAlive
    <2>14. CASE WorkerEnds
      BY <2>14 DEF WorkerEnds, Broadcast
    <2>15. QED
      BY <1>3, <2>1, <2>2, <2>3, <2>4, <2>5, <2>6, <2>7, <2>8, <2>9, <2>10,
         <2>11, <2>12, <2>13, <2>14 DEF WorkerStep
  <1>4. CASE PeerStep
    <2>1. CASE Eof
      BY <2>1 DEF Eof, CallStop, Reading, Idle
    <2>2. CASE ReadChunk
      BY <2>2 DEF ReadChunk, Reading, Idle
    <2>3. ASSUME NEW interval \in {"unset", "some", "no"},
                 NEW stops \in BOOLEAN, HandshakeResp(interval, stops)
          PROVE  (ClosedForGood /\ NullTimerOnlyInFeed)'
      BY <2>3 DEF HandshakeResp, Receiving
    <2>4. CASE HandshakeRespError
      BY <2>4 DEF HandshakeRespError, CallStop, Receiving
    <2>5. CASE HeartbeatPkg
      BY <2>5 DEF HeartbeatPkg, SawHeartbeat, Receiving
    <2>6. CASE PkgTornDown
      BY <2>6 DEF PkgTornDown, NullTimer, Receiving
    <2>7. CASE StopInCallback
      BY <2>7 DEF StopInCallback, CallStop, Receiving
    <2>8. CASE FeedReturns
      BY <2>8 DEF FeedReturns, Receiving, Alive
    <2>9. CASE FeedError
      BY <2>9 DEF FeedError, Receiving, Alive
    <2>10. QED
      BY <1>4, <2>1, <2>2, <2>3, <2>4, <2>5, <2>6, <2>7, <2>8, <2>9
         DEF PeerStep
  <1>5. CASE TcpConnected
    <2>1. ASSUME NEW c \in Conn, TcpConnectStale(c) PROVE (ClosedForGood /\ NullTimerOnlyInFeed)'
      BY <2>1 DEF TcpConnectStale, Idle
    <2>2. ASSUME NEW c \in Conn, TcpConnectError(c) PROVE (ClosedForGood /\ NullTimerOnlyInFeed)'
      BY <2>2 DEF TcpConnectError, CallStop, Idle
    <2>3. ASSUME NEW c \in Conn, TcpConnectOk(c) PROVE (ClosedForGood /\ NullTimerOnlyInFeed)'
      BY <2>3 DEF TcpConnectOk, Idle
    <2>4. QED
      BY <1>5, <2>1, <2>2, <2>3 DEF TcpConnected
  <1>6. CASE Written
    <2>1. CASE HandshakeWriteError
      BY <2>1 DEF HandshakeWriteError, FirstWritten, CallStop, Idle
    <2>2. CASE HandshakeReqWritten
      BY <2>2 DEF HandshakeReqWritten, Idle
    <2>3. CASE HandshakeAckWritten
      BY <2>3 DEF HandshakeAckWritten, FirstWritten, Told, Broadcast, Idle
    <2>4. CASE HeartbeatWritten
      BY <2>4 DEF HeartbeatWritten, Idle
    <2>5. QED
      BY <1>6, <2>1, <2>2, <2>3, <2>4 DEF Written
  <1>7. CASE TimerStep
    <2>1. CASE HandshakeTimeout
      BY <2>1 DEF HandshakeTimeout, CallStop, Idle
    <2>2. CASE Heartbeat
      BY <2>2 DEF Heartbeat, Idle
    <2>3. CASE HeartbeatError
      BY <2>3 DEF HeartbeatError, CallStop, Idle
    <2>4. CASE HeartbeatTimeout
      BY <2>4 DEF HeartbeatTimeout, CallStop, Idle
    <2>5. CASE ReconnectTimer
      BY <2>5 DEF ReconnectTimer, Idle
    <2>6. CASE ReconnectTimerError
      BY <2>6 DEF ReconnectTimerError, CallStop, Idle
    <2>7. QED
      BY <1>7, <2>1, <2>2, <2>3, <2>4, <2>5, <2>6 DEF TimerStep
  <1>8. CASE CloseAsync
    BY <1>8 DEF CloseAsync, CallStop, Idle
  <1>9. CASE UNCHANGED vars
    BY <1>9 DEF vars
  <1>10. QED
    BY <1>1, <1>2, <1>3, <1>4, <1>5, <1>6, <1>7, <1>8, <1>9 DEF Next

\* Whoever is told, or hands the request on, lets go of it.
LEMMA OneHolderNext ==
    ASSUME ~EnableReconnect, TypeOK, PlainInv, [Next]_vars
    PROVE  (OneHolder /\ ConnCbAtMostOnce)'
  <1> USE ClientAssumption
      DEF PlainInv, OneAttempt, OneHolder, Untold, ConnCbAtMostOnce, TypeOK,
          Ptr, Conn, First, NULL, Acks, shared, ptrs, beats, socks,
          work, appv
  <1>1. CASE AppCall
    <2>1. ASSUME NEW m \in Modes, Connect(m) PROVE (OneHolder /\ ConnCbAtMostOnce)'
      BY <2>1 DEF Connect, StartConnect, Alive
    <2>2. ASSUME NEW m \in Modes, ConnectFails(m) PROVE (OneHolder /\ ConnCbAtMostOnce)'
      BY <2>2 DEF ConnectFails, Alive
    <2>3. CASE StopUnconnected
      BY <2>3 DEF StopUnconnected
    <2>4. CASE Disconnect
      BY <2>4 DEF Disconnect
    <2>5. CASE Join
      BY <2>5 DEF Join
    <2>6. CASE Destroy
      BY <2>6 DEF Destroy
    <2>7. QED
      BY <1>1, <2>1, <2>2, <2>3, <2>4, <2>5, <2>6 DEF AppCall
  <1>2. CASE AppStep
    <2>1. CASE Spawn
      BY <2>1 DEF Spawn
    <2>2. CASE EnterWait
      BY <2>2 DEF EnterWait
    <2>3. CASE ConnectReturns
      BY <2>3 DEF ConnectReturns
    <2>4. CASE Signal
      BY <2>4 DEF Signal
    <2>5. CASE Joined
      BY <2>5 DEF Joined
    <2>6. CASE DestroyDisconnect
      BY <2>6 DEF DestroyDisconnect
    <2>7. CASE Free
      BY <2>7 DEF Free
    <2>8. QED
      BY <1>2, <2>1, <2>2, <2>3, <2>4, <2>5, <2>6, <2>7 DEF AppStep
  <1>3. CASE WorkerStep
    <2>1. CASE StopRead
      BY <2>1 DEF StopRead
    <2>2. CASE StopIgnored
      BY <2>2 DEF StopIgnored, StopReturns, StopActs, Reconnects
    <2>3. CASE StopReconnect
      BY <2>3 DEF StopReconnect, StopReturns, StopActs, Reconnects, DestroyTransport
    <2>4. CASE StopClose
      BY <2>4 DEF StopClose, StopActs, Reconnects
    <2>5. CASE Teardown
      BY <2>5 DEF Teardown, StopReturns, DestroyTransport
    <2>6. CASE ConnCbError
      BY <2>6 DEF ConnCbError, Told
    <2>7. CASE HandshakeReq
      BY <2>7 DEF HandshakeReq
    <2>8. CASE HandshakeReqError
      BY <2>8 DEF HandshakeReqError
    <2>9. ASSUME NEW c \in Slots, ReconnectStart(c) PROVE (OneHolder /\ ConnCbAtMostOnce)'
      BY <2>9 DEF ReconnectStart, StartConnect, FreeSlots
    <2>10. CASE ReconnectStartError
      BY <2>10 DEF ReconnectStartError, CallStop
    <2>11. ASSUME NEW acked \in BOOLEAN, HandshakeAck(acked) PROVE (OneHolder /\ ConnCbAtMostOnce)'
      BY <2>11 DEF HandshakeAck, SawHeartbeat, Connected
    <2>12. CASE HandshakeAckTornDown
      BY <2>12 DEF HandshakeAckTornDown, NullTimer
    <2>13. CASE LoopExit
      BY <2>13 DEF LoopExit, Idle, LoopAlive
    <2>14. CASE WorkerEnds
      BY <2>14 DEF WorkerEnds, Broadcast
    <2>15. QED
      BY <1>3, <2>1, <2>2, <2>3, <2>4, <2>5, <2>6, <2>7, <2>8, <2>9, <2>10,
         <2>11, <2>12, <2>13, <2>14 DEF WorkerStep
  <1>4. CASE PeerStep
    <2>1. CASE Eof
      BY <2>1 DEF Eof, CallStop, Reading, Idle
    <2>2. CASE ReadChunk
      BY <2>2 DEF ReadChunk, Reading, Idle
    <2>3. ASSUME NEW interval \in {"unset", "some", "no"},
                 NEW stops \in BOOLEAN, HandshakeResp(interval, stops)
          PROVE  (OneHolder /\ ConnCbAtMostOnce)'
      BY <2>3 DEF HandshakeResp, Receiving
    <2>4. CASE HandshakeRespError
      BY <2>4 DEF HandshakeRespError, CallStop, Receiving
    <2>5. CASE HeartbeatPkg
      BY <2>5 DEF HeartbeatPkg, SawHeartbeat, Receiving
    <2>6. CASE PkgTornDown
      BY <2>6 DEF PkgTornDown, NullTimer, Receiving
    <2>7. CASE StopInCallback
      BY <2>7 DEF StopInCallback, CallStop, Receiving
    <2>8. CASE FeedReturns
      BY <2>8 DEF FeedReturns, Receiving
    <2>9. CASE FeedError
      BY <2>9 DEF FeedError, Receiving
    <2>10. QED
      BY <1>4, <2>1, <2>2, <2>3, <2>4, <2>5, <2>6, <2>7, <2>8, <2>9
         DEF PeerStep
  <1>5. CASE TcpConnected
    <2>1. ASSUME NEW c \in Conn, TcpConnectStale(c) PROVE (OneHolder /\ ConnCbAtMostOnce)'
      BY <2>1 DEF TcpConnectStale, Idle
    <2>2. ASSUME NEW c \in Conn, TcpConnectError(c) PROVE (OneHolder /\ ConnCbAtMostOnce)'
      BY <2>2 DEF TcpConnectError, CallStop, Idle
    <2>3. ASSUME NEW c \in Conn, TcpConnectOk(c) PROVE (OneHolder /\ ConnCbAtMostOnce)'
      BY <2>3 DEF TcpConnectOk, Idle
    <2>4. QED
      BY <1>5, <2>1, <2>2, <2>3 DEF TcpConnected
  <1>6. CASE Written
    <2>1. CASE HandshakeWriteError
      BY <2>1 DEF HandshakeWriteError, FirstWritten, CallStop, Idle
    <2>2. CASE HandshakeReqWritten
      BY <2>2 DEF HandshakeReqWritten, Idle
    <2>3. CASE HandshakeAckWritten
      BY <2>3 DEF HandshakeAckWritten, FirstWritten, Told, Broadcast, Idle
    <2>4. CASE HeartbeatWritten
      BY <2>4 DEF HeartbeatWritten, Idle
    <2>5. QED
      BY <1>6, <2>1, <2>2, <2>3, <2>4 DEF Written
  <1>7. CASE TimerStep
    <2>1. CASE HandshakeTimeout
      BY <2>1 DEF HandshakeTimeout, CallStop, Idle
    <2>2. CASE Heartbeat
      BY <2>2 DEF Heartbeat, Idle
    <2>3. CASE HeartbeatError
      BY <2>3 DEF HeartbeatError, CallStop, Idle
    <2>4. CASE HeartbeatTimeout
      BY <2>4 DEF HeartbeatTimeout, CallStop, Idle
    <2>5. CASE ReconnectTimer
      BY <2>5 DEF ReconnectTimer, Idle
    <2>6. CASE ReconnectTimerError
      BY <2>6 DEF ReconnectTimerError, CallStop, Idle
    <2>7. QED
      BY <1>7, <2>1, <2>2, <2>3, <2>4, <2>5, <2>6 DEF TimerStep
  <1>8. CASE CloseAsync
    BY <1>8 DEF CloseAsync, CallStop, Idle
  <1>9. CASE UNCHANGED vars
    BY <1>9 DEF vars
  <1>10. QED
    BY <1>1, <1>2, <1>3, <1>4, <1>5, <1>6, <1>7, <1>8, <1>9 DEF Next

\* Only the ack's callback makes the client WORKING, and it tells the request.
LEMMA ConnectedNext ==
    ASSUME ~EnableReconnect, TypeOK, PlainInv, [Next]_vars
    PROVE  (Connected /\ ConnectOkIsConnected)'
  <1> USE ClientAssumption
      DEF PlainInv, OneAttempt, OneHolder, Untold, ClosedForGood, Connected,
          ConnectOkIsConnected, TypeOK, Ptr, Conn, First, NULL, Acks,
          shared, ptrs, beats, socks, work, appv
  <1>1. CASE AppCall
    <2>1. ASSUME NEW m \in Modes, Connect(m) PROVE (Connected /\ ConnectOkIsConnected)'
      BY <2>1 DEF Connect, StartConnect, Alive
    <2>2. ASSUME NEW m \in Modes, ConnectFails(m) PROVE (Connected /\ ConnectOkIsConnected)'
      BY <2>2 DEF ConnectFails, Alive
    <2>3. CASE StopUnconnected
      BY <2>3 DEF StopUnconnected
    <2>4. CASE Disconnect
      BY <2>4 DEF Disconnect
    <2>5. CASE Join
      BY <2>5 DEF Join
    <2>6. CASE Destroy
      BY <2>6 DEF Destroy
    <2>7. QED
      BY <1>1, <2>1, <2>2, <2>3, <2>4, <2>5, <2>6 DEF AppCall
  <1>2. CASE AppStep
    <2>1. CASE Spawn
      BY <2>1 DEF Spawn
    <2>2. CASE EnterWait
      BY <2>2 DEF EnterWait
    <2>3. CASE ConnectReturns
      BY <2>3 DEF ConnectReturns
    <2>4. CASE Signal
      BY <2>4 DEF Signal
    <2>5. CASE Joined
      BY <2>5 DEF Joined
    <2>6. CASE DestroyDisconnect
      BY <2>6 DEF DestroyDisconnect
    <2>7. CASE Free
      BY <2>7 DEF Free
    <2>8. QED
      BY <1>2, <2>1, <2>2, <2>3, <2>4, <2>5, <2>6, <2>7 DEF AppStep
  <1>3. CASE WorkerStep
    <2>1. CASE StopRead
      BY <2>1 DEF StopRead
    <2>2. CASE StopIgnored
      BY <2>2 DEF StopIgnored, StopReturns, StopActs, Reconnects
    <2>3. CASE StopReconnect
      BY <2>3 DEF StopReconnect, StopReturns, StopActs, Reconnects, DestroyTransport
    <2>4. CASE StopClose
      BY <2>4 DEF StopClose, StopActs, Reconnects
    <2>5. CASE Teardown
      BY <2>5 DEF Teardown, StopReturns, DestroyTransport
    <2>6. CASE ConnCbError
      BY <2>6 DEF ConnCbError, Told
    <2>7. CASE HandshakeReq
      BY <2>7 DEF HandshakeReq
    <2>8. CASE HandshakeReqError
      BY <2>8 DEF HandshakeReqError
    <2>9. ASSUME NEW c \in Slots, ReconnectStart(c) PROVE (Connected /\ ConnectOkIsConnected)'
      BY <2>9 DEF ReconnectStart, StartConnect, FreeSlots
    <2>10. CASE ReconnectStartError
      BY <2>10 DEF ReconnectStartError, CallStop
    <2>11. ASSUME NEW acked \in BOOLEAN, HandshakeAck(acked) PROVE (Connected /\ ConnectOkIsConnected)'
      BY <2>11 DEF HandshakeAck, SawHeartbeat
    <2>12. CASE HandshakeAckTornDown
      BY <2>12 DEF HandshakeAckTornDown, NullTimer
    <2>13. CASE LoopExit
      BY <2>13 DEF LoopExit, Idle, LoopAlive
    <2>14. CASE WorkerEnds
      BY <2>14 DEF WorkerEnds, Broadcast
    <2>15. QED
      BY <1>3, <2>1, <2>2, <2>3, <2>4, <2>5, <2>6, <2>7, <2>8, <2>9, <2>10,
         <2>11, <2>12, <2>13, <2>14 DEF WorkerStep
  <1>4. CASE PeerStep
    <2>1. CASE Eof
      BY <2>1 DEF Eof, CallStop, Reading, Idle
    <2>2. CASE ReadChunk
      BY <2>2 DEF ReadChunk, Reading, Idle
    <2>3. ASSUME NEW interval \in {"unset", "some", "no"},
                 NEW stops \in BOOLEAN, HandshakeResp(interval, stops)
          PROVE  (Connected /\ ConnectOkIsConnected)'
      BY <2>3 DEF HandshakeResp, Receiving
    <2>4. CASE HandshakeRespError
      BY <2>4 DEF HandshakeRespError, CallStop, Receiving
    <2>5. CASE HeartbeatPkg
      BY <2>5 DEF HeartbeatPkg, SawHeartbeat, Receiving
    <2>6. CASE PkgTornDown
      BY <2>6 DEF PkgTornDown, NullTimer, Receiving
    <2>7. CASE StopInCallback
      BY <2>7 DEF StopInCallback, CallStop, Receiving
    <2>8. CASE FeedReturns
      BY <2>8 DEF FeedReturns, Receiving
    <2>9. CASE FeedError
      BY <2>9 DEF FeedError, Receiving
    <2>10. QED
      BY <1>4, <2>1, <2>2, <2>3, <2>4, <2>5, <2>6, <2>7, <2>8, <2>9
         DEF PeerStep
  <1>5. CASE TcpConnected
    <2>1. ASSUME NEW c \in Conn, TcpConnectStale(c) PROVE (Connected /\ ConnectOkIsConnected)'
      BY <2>1 DEF TcpConnectStale, Idle
    <2>2. ASSUME NEW c \in Conn, TcpConnectError(c) PROVE (Connected /\ ConnectOkIsConnected)'
      BY <2>2 DEF TcpConnectError, CallStop, Idle
    <2>3. ASSUME NEW c \in Conn, TcpConnectOk(c) PROVE (Connected /\ ConnectOkIsConnected)'
      BY <2>3 DEF TcpConnectOk, Idle
    <2>4. QED
      BY <1>5, <2>1, <2>2, <2>3 DEF TcpConnected
  <1>6. CASE Written
    <2>1. CASE HandshakeWriteError
      BY <2>1 DEF HandshakeWriteError, FirstWritten, CallStop, Idle
    <2>2. CASE HandshakeReqWritten
      BY <2>2 DEF HandshakeReqWritten, Idle
    <2>3. CASE HandshakeAckWritten
      BY <2>3 DEF HandshakeAckWritten, FirstWritten, Told, Broadcast, Idle
    <2>4. CASE HeartbeatWritten
      BY <2>4 DEF HeartbeatWritten, Idle
    <2>5. QED
      BY <1>6, <2>1, <2>2, <2>3, <2>4 DEF Written
  <1>7. CASE TimerStep
    <2>1. CASE HandshakeTimeout
      BY <2>1 DEF HandshakeTimeout, CallStop, Idle
    <2>2. CASE Heartbeat
      BY <2>2 DEF Heartbeat, Idle
    <2>3. CASE HeartbeatError
      BY <2>3 DEF HeartbeatError, CallStop, Idle
    <2>4. CASE HeartbeatTimeout
      BY <2>4 DEF HeartbeatTimeout, CallStop, Idle
    <2>5. CASE ReconnectTimer
      BY <2>5 DEF ReconnectTimer, Idle
    <2>6. CASE ReconnectTimerError
      BY <2>6 DEF ReconnectTimerError, CallStop, Idle
    <2>7. QED
      BY <1>7, <2>1, <2>2, <2>3, <2>4, <2>5, <2>6 DEF TimerStep
  <1>8. CASE CloseAsync
    BY <1>8 DEF CloseAsync, CallStop, Idle
  <1>9. CASE UNCHANGED vars
    BY <1>9 DEF vars
  <1>10. QED
    BY <1>1, <1>2, <1>3, <1>4, <1>5, <1>6, <1>7, <1>8, <1>9 DEF Next

\* The heartbeat and the timeout timer hand over to each other.
LEMMA BeatingNext ==
    ASSUME ~EnableReconnect, TypeOK, PlainInv, [Next]_vars
    PROVE  (Beating /\ HeartbeatAsAgreed)'
  <1> USE ClientAssumption
      DEF PlainInv, OneAttempt, OneHolder, ClosedForGood, Connected,
          Beating, HeartbeatAsAgreed, TypeOK, Ptr, Conn, First,
          NULL, Acks, shared, ptrs, beats, socks, work, appv
  <1>1. CASE AppCall
    <2>1. ASSUME NEW m \in Modes, Connect(m) PROVE (Beating /\ HeartbeatAsAgreed)'
      BY <2>1 DEF Connect, StartConnect, Alive
    <2>2. ASSUME NEW m \in Modes, ConnectFails(m) PROVE (Beating /\ HeartbeatAsAgreed)'
      BY <2>2 DEF ConnectFails, Alive
    <2>3. CASE StopUnconnected
      BY <2>3 DEF StopUnconnected
    <2>4. CASE Disconnect
      BY <2>4 DEF Disconnect
    <2>5. CASE Join
      BY <2>5 DEF Join
    <2>6. CASE Destroy
      BY <2>6 DEF Destroy
    <2>7. QED
      BY <1>1, <2>1, <2>2, <2>3, <2>4, <2>5, <2>6 DEF AppCall
  <1>2. CASE AppStep
    <2>1. CASE Spawn
      BY <2>1 DEF Spawn
    <2>2. CASE EnterWait
      BY <2>2 DEF EnterWait
    <2>3. CASE ConnectReturns
      BY <2>3 DEF ConnectReturns
    <2>4. CASE Signal
      BY <2>4 DEF Signal
    <2>5. CASE Joined
      BY <2>5 DEF Joined
    <2>6. CASE DestroyDisconnect
      BY <2>6 DEF DestroyDisconnect
    <2>7. CASE Free
      BY <2>7 DEF Free
    <2>8. QED
      BY <1>2, <2>1, <2>2, <2>3, <2>4, <2>5, <2>6, <2>7 DEF AppStep
  <1>3. CASE WorkerStep
    <2>1. CASE StopRead
      BY <2>1 DEF StopRead
    <2>2. CASE StopIgnored
      BY <2>2 DEF StopIgnored, StopReturns, StopActs, Reconnects
    <2>3. CASE StopReconnect
      BY <2>3 DEF StopReconnect, StopReturns, StopActs, Reconnects, DestroyTransport
    <2>4. CASE StopClose
      BY <2>4 DEF StopClose, StopActs, Reconnects
    <2>5. CASE Teardown
      BY <2>5 DEF Teardown, StopReturns, DestroyTransport
    <2>6. CASE ConnCbError
      BY <2>6 DEF ConnCbError, Told
    <2>7. CASE HandshakeReq
      BY <2>7 DEF HandshakeReq
    <2>8. CASE HandshakeReqError
      BY <2>8 DEF HandshakeReqError
    <2>9. ASSUME NEW c \in Slots, ReconnectStart(c) PROVE (Beating /\ HeartbeatAsAgreed)'
      BY <2>9 DEF ReconnectStart, StartConnect, FreeSlots
    <2>10. CASE ReconnectStartError
      BY <2>10 DEF ReconnectStartError, CallStop
    <2>11. ASSUME NEW acked \in BOOLEAN, HandshakeAck(acked) PROVE (Beating /\ HeartbeatAsAgreed)'
      BY <2>11 DEF HandshakeAck, SawHeartbeat
    <2>12. CASE HandshakeAckTornDown
      BY <2>12 DEF HandshakeAckTornDown, NullTimer
    <2>13. CASE LoopExit
      BY <2>13 DEF LoopExit, Idle, LoopAlive
    <2>14. CASE WorkerEnds
      BY <2>14 DEF WorkerEnds, Broadcast
    <2>15. QED
      BY <1>3, <2>1, <2>2, <2>3, <2>4, <2>5, <2>6, <2>7, <2>8, <2>9, <2>10,
         <2>11, <2>12, <2>13, <2>14 DEF WorkerStep
  <1>4. CASE PeerStep
    <2>1. CASE Eof
      BY <2>1 DEF Eof, CallStop, Reading, Idle
    <2>2. CASE ReadChunk
      BY <2>2 DEF ReadChunk, Reading, Idle
    <2>3. ASSUME NEW interval \in {"unset", "some", "no"},
                 NEW stops \in BOOLEAN, HandshakeResp(interval, stops)
          PROVE  (Beating /\ HeartbeatAsAgreed)'
      BY <2>3 DEF HandshakeResp, Receiving
    <2>4. CASE HandshakeRespError
      BY <2>4 DEF HandshakeRespError, CallStop, Receiving
    <2>5. CASE HeartbeatPkg
      BY <2>5 DEF HeartbeatPkg, SawHeartbeat, Receiving
    <2>6. CASE PkgTornDown
      BY <2>6 DEF PkgTornDown, NullTimer, Receiving
    <2>7. CASE StopInCallback
      BY <2>7 DEF StopInCallback, CallStop, Receiving
    <2>8. CASE FeedReturns
      BY <2>8 DEF FeedReturns, Receiving
    <2>9. CASE FeedError
      BY <2>9 DEF FeedError, Receiving
    <2>10. QED
      BY <1>4, <2>1, <2>2, <2>3, <2>4, <2>5, <2>6, <2>7, <2>8, <2>9
         DEF PeerStep
  <1>5. CASE TcpConnected
    <2>1. ASSUME NEW c \in Conn, TcpConnectStale(c) PROVE (Beating /\ HeartbeatAsAgreed)'
      BY <2>1 DEF TcpConnectStale, Idle
    <2>2. ASSUME NEW c \in Conn, TcpConnectError(c) PROVE (Beating /\ HeartbeatAsAgreed)'
      BY <2>2 DEF TcpConnectError, CallStop, Idle
    <2>3. ASSUME NEW c \in Conn, TcpConnectOk(c) PROVE (Beating /\ HeartbeatAsAgreed)'
      BY <2>3 DEF TcpConnectOk, Idle, Accounted
    <2>4. QED
      BY <1>5, <2>1, <2>2, <2>3 DEF TcpConnected
  <1>6. CASE Written
    <2>1. CASE HandshakeWriteError
      BY <2>1 DEF HandshakeWriteError, FirstWritten, CallStop, Idle
    <2>2. CASE HandshakeReqWritten
      BY <2>2 DEF HandshakeReqWritten, Idle
    <2>3. CASE HandshakeAckWritten
      BY <2>3 DEF HandshakeAckWritten, FirstWritten, Told, Broadcast, Idle
    <2>4. CASE HeartbeatWritten
      BY <2>4 DEF HeartbeatWritten, Idle
    <2>5. QED
      BY <1>6, <2>1, <2>2, <2>3, <2>4 DEF Written
  <1>7. CASE TimerStep
    <2>1. CASE HandshakeTimeout
      BY <2>1 DEF HandshakeTimeout, CallStop, Idle
    <2>2. CASE Heartbeat
      BY <2>2 DEF Heartbeat, Idle
    <2>3. CASE HeartbeatError
      BY <2>3 DEF HeartbeatError, CallStop, Idle
    <2>4. CASE HeartbeatTimeout
      BY <2>4 DEF HeartbeatTimeout, CallStop, Idle
    <2>5. CASE ReconnectTimer
      BY <2>5 DEF ReconnectTimer, Idle
    <2>6. CASE ReconnectTimerError
      BY <2>6 DEF ReconnectTimerError, CallStop, Idle
    <2>7. QED
      BY <1>7, <2>1, <2>2, <2>3, <2>4, <2>5, <2>6 DEF TimerStep
  <1>8. CASE CloseAsync
    BY <1>8 DEF CloseAsync, CallStop, Idle
  <1>9. CASE UNCHANGED vars
    BY <1>9 DEF vars
  <1>10. QED
    BY <1>1, <1>2, <1>3, <1>4, <1>5, <1>6, <1>7, <1>8, <1>9 DEF Next

\* Every transport that is let go of is destroyed.
LEMMA AccountedNext ==
    ASSUME ~EnableReconnect, TypeOK, PlainInv, [Next]_vars
    PROVE  Accounted'
  <1> USE ClientAssumption
      DEF PlainInv, OneAttempt, OneHolder, Connected, Accounted, TypeOK,
          Ptr, Conn, First, NULL, Acks, shared, ptrs, beats, socks,
          work, appv
  <1>1. CASE AppCall
    <2>1. ASSUME NEW m \in Modes, Connect(m) PROVE Accounted'
      BY <2>1 DEF Connect, StartConnect, Alive
    <2>2. ASSUME NEW m \in Modes, ConnectFails(m) PROVE Accounted'
      BY <2>2 DEF ConnectFails, Alive
    <2>3. CASE StopUnconnected
      BY <2>3 DEF StopUnconnected
    <2>4. CASE Disconnect
      BY <2>4 DEF Disconnect
    <2>5. CASE Join
      BY <2>5 DEF Join
    <2>6. CASE Destroy
      BY <2>6 DEF Destroy
    <2>7. QED
      BY <1>1, <2>1, <2>2, <2>3, <2>4, <2>5, <2>6 DEF AppCall
  <1>2. CASE AppStep
    <2>1. CASE Spawn
      BY <2>1 DEF Spawn
    <2>2. CASE EnterWait
      BY <2>2 DEF EnterWait
    <2>3. CASE ConnectReturns
      BY <2>3 DEF ConnectReturns
    <2>4. CASE Signal
      BY <2>4 DEF Signal
    <2>5. CASE Joined
      BY <2>5 DEF Joined
    <2>6. CASE DestroyDisconnect
      BY <2>6 DEF DestroyDisconnect
    <2>7. CASE Free
      BY <2>7 DEF Free
    <2>8. QED
      BY <1>2, <2>1, <2>2, <2>3, <2>4, <2>5, <2>6, <2>7 DEF AppStep
  <1>3. CASE WorkerStep
    <2>1. CASE StopRead
      BY <2>1 DEF StopRead
    <2>2. CASE StopIgnored
      BY <2>2 DEF StopIgnored, StopReturns, StopActs, Reconnects
    <2>3. CASE StopReconnect
      BY <2>3 DEF StopReconnect, StopReturns, StopActs, Reconnects, DestroyTransport
    <2>4. CASE StopClose
      BY <2>4 DEF StopClose, StopActs, Reconnects
    <2>5. CASE Teardown
      BY <2>5 DEF Teardown, StopReturns, DestroyTransport
    <2>6. CASE ConnCbError
      BY <2>6 DEF ConnCbError, Told
    <2>7. CASE HandshakeReq
      BY <2>7 DEF HandshakeReq
    <2>8. CASE HandshakeReqError
      BY <2>8 DEF HandshakeReqError
    <2>9. ASSUME NEW c \in Slots, ReconnectStart(c) PROVE Accounted'
      BY <2>9 DEF ReconnectStart, StartConnect, FreeSlots
    <2>10. CASE ReconnectStartError
      BY <2>10 DEF ReconnectStartError, CallStop
    <2>11. ASSUME NEW acked \in BOOLEAN, HandshakeAck(acked) PROVE Accounted'
      BY <2>11 DEF HandshakeAck, SawHeartbeat
    <2>12. CASE HandshakeAckTornDown
      BY <2>12 DEF HandshakeAckTornDown, NullTimer
    <2>13. CASE LoopExit
      BY <2>13 DEF LoopExit, Idle, LoopAlive
    <2>14. CASE WorkerEnds
      BY <2>14 DEF WorkerEnds, Broadcast
    <2>15. QED
      BY <1>3, <2>1, <2>2, <2>3, <2>4, <2>5, <2>6, <2>7, <2>8, <2>9, <2>10,
         <2>11, <2>12, <2>13, <2>14 DEF WorkerStep
  <1>4. CASE PeerStep
    <2>1. CASE Eof
      BY <2>1 DEF Eof, CallStop, Reading, Idle
    <2>2. CASE ReadChunk
      BY <2>2 DEF ReadChunk, Reading, Idle
    <2>3. ASSUME NEW interval \in {"unset", "some", "no"},
                 NEW stops \in BOOLEAN, HandshakeResp(interval, stops)
          PROVE  Accounted'
      BY <2>3 DEF HandshakeResp, Receiving
    <2>4. CASE HandshakeRespError
      BY <2>4 DEF HandshakeRespError, CallStop, Receiving
    <2>5. CASE HeartbeatPkg
      BY <2>5 DEF HeartbeatPkg, SawHeartbeat, Receiving
    <2>6. CASE PkgTornDown
      BY <2>6 DEF PkgTornDown, NullTimer, Receiving
    <2>7. CASE StopInCallback
      BY <2>7 DEF StopInCallback, CallStop, Receiving
    <2>8. CASE FeedReturns
      BY <2>8 DEF FeedReturns, Receiving
    <2>9. CASE FeedError
      BY <2>9 DEF FeedError, Receiving
    <2>10. QED
      BY <1>4, <2>1, <2>2, <2>3, <2>4, <2>5, <2>6, <2>7, <2>8, <2>9
         DEF PeerStep
  <1>5. CASE TcpConnected
    <2>1. ASSUME NEW c \in Conn, TcpConnectStale(c) PROVE Accounted'
      BY <2>1 DEF TcpConnectStale, Idle
    <2>2. ASSUME NEW c \in Conn, TcpConnectError(c) PROVE Accounted'
      BY <2>2 DEF TcpConnectError, CallStop, Idle
    <2>3. ASSUME NEW c \in Conn, TcpConnectOk(c) PROVE Accounted'
      BY <2>3 DEF TcpConnectOk, Idle
    <2>4. QED
      BY <1>5, <2>1, <2>2, <2>3 DEF TcpConnected
  <1>6. CASE Written
    <2>1. CASE HandshakeWriteError
      BY <2>1 DEF HandshakeWriteError, FirstWritten, CallStop, Idle
    <2>2. CASE HandshakeReqWritten
      BY <2>2 DEF HandshakeReqWritten, Idle
    <2>3. CASE HandshakeAckWritten
      BY <2>3 DEF HandshakeAckWritten, FirstWritten, Told, Broadcast, Idle
    <2>4. CASE HeartbeatWritten
      BY <2>4 DEF HeartbeatWritten, Idle
    <2>5. QED
      BY <1>6, <2>1, <2>2, <2>3, <2>4 DEF Written
  <1>7. CASE TimerStep
    <2>1. CASE HandshakeTimeout
      BY <2>1 DEF HandshakeTimeout, CallStop, Idle
    <2>2. CASE Heartbeat
      BY <2>2 DEF Heartbeat, Idle
    <2>3. CASE HeartbeatError
      BY <2>3 DEF HeartbeatError, CallStop, Idle
    <2>4. CASE HeartbeatTimeout
      BY <2>4 DEF HeartbeatTimeout, CallStop, Idle
    <2>5. CASE ReconnectTimer
      BY <2>5 DEF ReconnectTimer, Idle
    <2>6. CASE ReconnectTimerError
      BY <2>6 DEF ReconnectTimerError, CallStop, Idle
    <2>7. QED
      BY <1>7, <2>1, <2>2, <2>3, <2>4, <2>5, <2>6 DEF TimerStep
  <1>8. CASE CloseAsync
    BY <1>8 DEF CloseAsync, CallStop, Idle
  <1>9. CASE UNCHANGED vars
    BY <1>9 DEF vars
  <1>10. QED
    BY <1>1, <1>2, <1>3, <1>4, <1>5, <1>6, <1>7, <1>8, <1>9 DEF Next

\* The lemmas together.
THEOREM PlainInvariant == ASSUME ~EnableReconnect PROVE Spec => []PlainInv
  <1>1. TypeOK /\ PlainInv /\ [Next]_vars => PlainInv'
    BY OneAttemptNext, ClosedNext, OneHolderNext, ConnectedNext, BeatingNext,
       AccountedNext
       DEF PlainInv
  <1>2. QED
    BY <1>1, PlainInit, TypeCorrect, PTL DEF Spec

\* Without reconnect, whatever the two threads, the peer and the timers do: a
\* client whose handles pc_client_stop has closed stays down.
THEOREM PlainTornDown ==
    ASSUME ~EnableReconnect PROVE Spec => []TornDownStaysDown
  <1>1. PlainInv => TornDownStaysDown
    BY DEF PlainInv, ClosedForGood, TornDownStaysDown
  <1>2. QED
    BY <1>1, PlainInvariant, PTL

\* Outside the pc_pkg_parser_feed that stopped the client no callback uses a
\* timer that pc_client_stop has set to NULL: not a late connect, not a write,
\* not a timer.  (Inside it the rest of the chunk does: StoppedDiscards.)
THEOREM PlainHandles == ASSUME ~EnableReconnect PROVE Spec => []NullTimerOnlyInFeed
  <1>1. PlainInv => NullTimerOnlyInFeed
    BY DEF PlainInv
  <1>2. QED
    BY <1>1, PlainInvariant, PTL

\* The callback of the connect request is called at most once, whichever of
\* pc__on_tcp_connect, pc__handshake_req_cb and pc__handshake_ack_cb does it.
THEOREM PlainConnCb == ASSUME ~EnableReconnect PROVE Spec => []ConnCbAtMostOnce
  <1>1. PlainInv => ConnCbAtMostOnce
    BY DEF PlainInv
  <1>2. QED
    BY <1>1, PlainInvariant, PTL

\* pc_client_connect returns 0 only when the handshake has been completed.
THEOREM PlainConnectOk ==
    ASSUME ~EnableReconnect PROVE Spec => []ConnectOkIsConnected
  <1>1. PlainInv => ConnectOkIsConnected
    BY DEF PlainInv
  <1>2. QED
    BY <1>1, PlainInvariant, PTL

\* A WORKING connection with agreed heartbeats always has a running timer that
\* will notice a dead peer.
THEOREM PlainWatchdog == ASSUME ~EnableReconnect PROVE Spec => []WatchdogArmed
  <1>1. PlainInv => WatchdogArmed
    BY DEF PlainInv, Connected, Beating, WatchdogArmed, Idle
  <1>2. QED
    BY <1>1, PlainInvariant, PTL

\* Heartbeats are sent only when the handshake asked for them.
THEOREM PlainHeartbeat ==
    ASSUME ~EnableReconnect PROVE Spec => []HeartbeatAsAgreed
  <1>1. PlainInv => HeartbeatAsAgreed
    BY DEF PlainInv
  <1>2. QED
    BY <1>1, PlainInvariant, PTL

\* When the worker has ended without a disconnect no socket is left open.
THEOREM PlainNoLeak == ASSUME ~EnableReconnect PROVE Spec => []NothingLeaked
  <1>1. TypeOK /\ PlainInv => NothingLeaked
    BY ClientAssumption
       DEF TypeOK, PlainInv, Accounted, NothingLeaked, Ptr, Conn, First, NULL, Acks
  <1>2. QED
    BY <1>1, PlainInvariant, TypeCorrect, PTL
=============================================================================
