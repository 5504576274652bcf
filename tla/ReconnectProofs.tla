-------------------------- MODULE ReconnectProofs --------------------------
(***************************************************************************)
(* Proofs about PomeloClient with reconnect enabled, for every number of   *)
(* attempts, every connect function and every peer.                        *)
(***************************************************************************)
EXTENDS PomeloClientProofs

(* The inductive invariant, part by part.                                  *)

\* What ReconnectScheduled asks for.
GoesOn ==
    \/ "reconnect" \in armed
    \/ pend # {}
    \/ HandshakeUnderWay
    \/ transport # NULL /\ \/ state = "WORKING"
                           \/ UserRejects /\ shaken > 0
                           \/ reconnecting = 1

\* Before the worker runs there is at most the application's attempt.
NotStarted ==
    /\ app \in {"new", "spawn"} => worker = "none" /\ disc = 0
    /\ app = "new" => /\ state = "INITED" /\ pend = {}
                      /\ \A c \in Conn : tp[c] = "none"
    /\ app = "spawn" => pend = {First}
    /\ worker = "none" =>
          /\ transport = NULL /\ armed = {} /\ inflight = {} /\ wpc = "idle"
          /\ reconnecting = 0 /\ pend \subseteq {First}

\* At most one attempt is under way, and not beside a transport; a WORKING
\* transport is the attached one.
OneUnderWay ==
    /\ \A c, d \in pend : c = d
    /\ pend # {} => transport = NULL
    /\ \A c \in Conn : tp[c] = "WORKING" => transport = c
    /\ inflight \cap ({"handshake"} \cup Acks) # {} => transport # NULL
    /\ back # "idle" => pend = {}

\* client->reconnecting is set from the moment the timer is armed until the
\* attempt has ended.  During the first attempt, where it is not, no timer is
\* there to stop the client and an async can only be a disconnect.
Flagged ==
    /\ First \in pend => reconnecting = 0
    /\ pend # {} /\ reconnecting = 0 =>
          /\ armed = {}
          /\ async = 1 \/ app = "signal" =>
                \/ state = "DISCONNECTING"
                \/ handles = "closed" \/ wpc = "close"
          /\ wpc = "stop" => state = "DISCONNECTING"
          /\ wpc = "act" => snap = "DISCONNECTING"
    /\ "reconnect" \in armed =>
          transport = NULL /\ pend = {} /\ reconnecting = 1
    /\ wpc = "connect" =>
          /\ transport = NULL /\ pend = {} /\ reconnecting = 1
          /\ "reconnect" \notin armed
    /\ conn_req = First /\ transport # NULL => reconnecting = 0
    /\ after = First =>
          /\ wpc \in {"stop", "act", "connected"} /\ transport # NULL
                => reconnecting = 0
          /\ wpc = "cb" => transport = NULL

\* Who still has to call a connect request's callback has not called it, and
\* is the only one who will.
ToCall ==
    /\ after # NULL => pend = {} /\ result[after] = "none"
    /\ after # NULL /\ wpc # "connected" => conn_req = NULL
    /\ conn_req # NULL => result[conn_req] = "none"
    /\ \A c \in pend : conn_req = c

\* As long as the application does not disconnect, pc_client_stop always
\* reconnects, and whatever ends leaves something that goes on.
Undisturbed ==
    disc = 0 =>
        /\ state # "DISCONNECTING" /\ snap # "DISCONNECTING"
        /\ async = 0 /\ wpc # "close" /\ app # "signal"
        /\ First \in pend => state = "CONNECTING"
        /\ worker = "loop" /\ "reconnect" \in armed => state = "INITED"
        /\ worker = "loop" =>
              /\ transport # NULL /\ after = NULL
                    /\ \/ wpc \in {"idle", "feed", "ack"}
                       \/ wpc \in {"stop", "act"} /\ reconnecting = 1
                    => state \in {"CONNECTED", "WORKING"}
              /\ wpc \in {"idle", "feed"} => GoesOn
              /\ wpc = "ack" => "reconnect" \in armed \/ transport # NULL
              /\ back = "ack" => shaken > 0
              /\ wpc \in {"stop", "act"} /\ after \in {NULL, First} =>
                    GoesOn \/ reconnecting = 0
              /\ wpc = "cb" /\ after = First => GoesOn

\* The inductive invariant of a client with reconnect.
ReconnectInv ==
    /\ NotStarted /\ OneUnderWay /\ Flagged /\ ToCall /\ Undisturbed
    /\ ConnCbAtMostOnce

\* The initial state.
LEMMA ReconnectInit == Init => ReconnectInv
  BY ClientAssumption
     DEF Init, ReconnectInv, NotStarted, OneUnderWay, Flagged, ToCall,
         Undisturbed, ConnCbAtMostOnce, Conn, First, NULL

\* The worker is started by the application's connect.
LEMMA NotStartedNext ==
    ASSUME EnableReconnect, TypeOK, WriteInv, ReconnectInv, [Next]_vars
    PROVE  NotStarted'
  <1> USE ClientAssumption
      DEF ReconnectInv, NotStarted, TypeOK, Ptr, Conn, First, NULL, Acks, shared, ptrs, beats,
          socks, work, appv
  <1>1. CASE AppCall
    <2>1. ASSUME NEW m \in Modes, Connect(m) PROVE NotStarted'
      BY <2>1, ZenonT(30) DEF Connect, StartConnect, Alive
    <2>2. ASSUME NEW m \in Modes, ConnectFails(m) PROVE NotStarted'
      BY <2>2 DEF ConnectFails, Alive
    <2>3. CASE StopUnconnected
      BY <2>3 DEF StopUnconnected
    <2>4. CASE Disconnect
      BY <2>4 DEF Disconnect
    <2>5. CASE Join
      BY <2>5 DEF Join
    <2>6. CASE Destroy
      BY <2>6 DEF Destroy
    <2>7. QED
      BY <1>1, <2>1, <2>2, <2>3, <2>4, <2>5, <2>6 DEF AppCall
  <1>2. CASE AppStep
    <2>1. CASE Spawn
      BY <2>1 DEF Spawn
    <2>2. CASE EnterWait
      BY <2>2 DEF EnterWait
    <2>3. CASE ConnectReturns
      BY <2>3 DEF ConnectReturns
    <2>4. CASE Signal
      BY <2>4 DEF Signal
    <2>5. CASE Joined
      BY <2>5 DEF Joined
    <2>6. CASE DestroyDisconnect
      BY <2>6 DEF DestroyDisconnect
    <2>7. CASE Free
      BY <2>7 DEF Free
    <2>8. QED
      BY <1>2, <2>1, <2>2, <2>3, <2>4, <2>5, <2>6, <2>7 DEF AppStep
  <1>3. CASE WorkerStep
    <2>1. CASE StopRead
      BY <2>1 DEF StopRead
    <2>2. CASE StopIgnored
      BY <2>2 DEF StopIgnored, StopReturns, StopActs, Reconnects
    <2>3. CASE StopReconnect
      BY <2>3 DEF StopReconnect, StopReturns, StopActs, Reconnects,
         DestroyTransport
    <2>4. CASE StopClose
      BY <2>4 DEF StopClose, StopActs, Reconnects
    <2>5. CASE Teardown
      BY <2>5 DEF Teardown, StopReturns, DestroyTransport
    <2>6. CASE ConnCbError
      BY <2>6 DEF ConnCbError, Told
    <2>7. CASE HandshakeReq
      BY <2>7 DEF HandshakeReq
    <2>8. CASE HandshakeReqError
      BY <2>8 DEF HandshakeReqError
    <2>9. ASSUME NEW c \in Slots, ReconnectStart(c) PROVE NotStarted'
      BY <2>9 DEF ReconnectStart, StartConnect, FreeSlots
    <2>10. CASE ReconnectStartError
      BY <2>10 DEF ReconnectStartError, CallStop
    <2>11. ASSUME NEW acked \in BOOLEAN, HandshakeAck(acked) PROVE NotStarted'
      BY <2>11 DEF HandshakeAck, SawHeartbeat
    <2>12. CASE HandshakeAckTornDown
      BY <2>12 DEF HandshakeAckTornDown, NullTimer
    <2>13. CASE LoopExit
      BY <2>13 DEF LoopExit, Idle, LoopAlive
    <2>14. CASE WorkerEnds
      BY <2>14 DEF WorkerEnds, Broadcast
    <2>15. QED
      BY <1>3, <2>1, <2>2, <2>3, <2>4, <2>5, <2>6, <2>7, <2>8, <2>9, <2>10,
         <2>11, <2>12, <2>13, <2>14 DEF WorkerStep
  <1>4. CASE PeerStep
    <2>1. CASE Eof
      BY <2>1 DEF Eof, CallStop, Reading, Idle
    <2>2. CASE ReadChunk
      BY <2>2 DEF ReadChunk, Reading, Idle
    <2>3. ASSUME NEW interval \in {"unset", "some", "no"},
                 NEW stops \in BOOLEAN, HandshakeResp(interval, stops)
          PROVE  NotStarted'
      BY <2>3 DEF HandshakeResp, Receiving
    <2>4. CASE HandshakeRespError
      BY <2>4 DEF HandshakeRespError, CallStop, Receiving
    <2>5. CASE HeartbeatPkg
      BY <2>5 DEF HeartbeatPkg, SawHeartbeat, Receiving
    <2>6. CASE PkgTornDown
      BY <2>6 DEF PkgTornDown, NullTimer, Receiving
    <2>7. CASE StopInCallback
      BY <2>7 DEF StopInCallback, CallStop, Receiving
    <2>8. CASE FeedReturns
      BY <2>8 DEF FeedReturns, Receiving
    <2>9. CASE FeedError
      BY <2>9 DEF FeedError, Receiving
    <2>10. QED
      BY <1>4, <2>1, <2>2, <2>3, <2>4, <2>5, <2>6, <2>7, <2>8, <2>9
         DEF PeerStep
  <1>5. CASE TcpConnected
    <2>1. ASSUME NEW c \in Conn, TcpConnectStale(c) PROVE NotStarted'
      BY <2>1 DEF TcpConnectStale, Idle
    <2>2. ASSUME NEW c \in Conn, TcpConnectError(c) PROVE NotStarted'
      BY <2>2 DEF TcpConnectError, CallStop, Idle
    <2>3. ASSUME NEW c \in Conn, TcpConnectOk(c) PROVE NotStarted'
      BY <2>3 DEF TcpConnectOk, Idle
    <2>4. QED
      BY <1>5, <2>1, <2>2, <2>3 DEF TcpConnected
  <1>6. CASE Written
    <2>1. CASE HandshakeWriteError
      BY <2>1 DEF HandshakeWriteError, FirstWritten, CallStop, Idle
    <2>2. CASE HandshakeReqWritten
      BY <2>2 DEF HandshakeReqWritten, Idle
    <2>3. CASE HandshakeAckWritten
      BY <2>3 DEF HandshakeAckWritten, FirstWritten, Told, Broadcast, Idle
    <2>4. CASE HeartbeatWritten
      BY <2>4 DEF HeartbeatWritten, Idle
    <2>5. QED
      BY <1>6, <2>1, <2>2, <2>3, <2>4 DEF Written
  <1>7. CASE TimerStep
    <2>1. CASE HandshakeTimeout
      BY <2>1 DEF HandshakeTimeout, CallStop, Idle
    <2>2. CASE Heartbeat
      BY <2>2 DEF Heartbeat, Idle
    <2>3. CASE HeartbeatError
      BY <2>3 DEF HeartbeatError, CallStop, Idle
    <2>4. CASE HeartbeatTimeout
      BY <2>4 DEF HeartbeatTimeout, CallStop, Idle
    <2>5. CASE ReconnectTimer
      BY <2>5 DEF ReconnectTimer, Idle
    <2>6. CASE ReconnectTimerError
      BY <2>6 DEF ReconnectTimerError, CallStop, Idle
    <2>7. QED
      BY <1>7, <2>1, <2>2, <2>3, <2>4, <2>5, <2>6 DEF TimerStep
  <1>8. CASE CloseAsync
    BY <1>8 DEF CloseAsync, CallStop, Idle
  <1>9. CASE UNCHANGED vars
    BY <1>9 DEF vars
  <1>10. QED
    BY <1>1, <1>2, <1>3, <1>4, <1>5, <1>6, <1>7, <1>8, <1>9 DEF Next

\* A new attempt is started only when the last one is gone.
LEMMA OneUnderWayNext ==
    ASSUME EnableReconnect, TypeOK, WriteInv, ReconnectInv, [Next]_vars
    PROVE  OneUnderWay'
  <1> USE ClientAssumption
      DEF ReconnectInv, WriteInv, WritesHaveTransport, NotStarted, OneUnderWay, Flagged, TypeOK, Ptr, Conn, First, NULL, Acks, shared, ptrs, beats,
          socks, work, appv
  <1>1. CASE AppCall
    <2>1. ASSUME NEW m \in Modes, Connect(m) PROVE OneUnderWay'
      BY <2>1 DEF Connect, StartConnect, Alive
    <2>2. ASSUME NEW m \in Modes, ConnectFails(m) PROVE OneUnderWay'
      BY <2>2 DEF ConnectFails, Alive
    <2>3. CASE StopUnconnected
      BY <2>3 DEF StopUnconnected
    <2>4. CASE Disconnect
      BY <2>4 DEF Disconnect
    <2>5. CASE Join
      BY <2>5 DEF Join
    <2>6. CASE Destroy
      BY <2>6 DEF Destroy
    <2>7. QED
      BY <1>1, <2>1, <2>2, <2>3, <2>4, <2>5, <2>6 DEF AppCall
  <1>2. CASE AppStep
    <2>1. CASE Spawn
      BY <2>1 DEF Spawn
    <2>2. CASE EnterWait
      BY <2>2 DEF EnterWait
    <2>3. CASE ConnectReturns
      BY <2>3 DEF ConnectReturns
    <2>4. CASE Signal
      BY <2>4 DEF Signal
    <2>5. CASE Joined
      BY <2>5 DEF Joined
    <2>6. CASE DestroyDisconnect
      BY <2>6 DEF DestroyDisconnect
    <2>7. CASE Free
      BY <2>7 DEF Free
    <2>8. QED
      BY <1>2, <2>1, <2>2, <2>3, <2>4, <2>5, <2>6, <2>7 DEF AppStep
  <1>3. CASE WorkerStep
    <2>1. CASE StopRead
      BY <2>1 DEF StopRead
    <2>2. CASE StopIgnored
      BY <2>2 DEF StopIgnored, StopReturns, StopActs, Reconnects
    <2>3. CASE StopReconnect
      BY <2>3 DEF StopReconnect, StopReturns, StopActs, Reconnects,
         DestroyTransport
    <2>4. CASE StopClose
      BY <2>4 DEF StopClose, StopActs, Reconnects
    <2>5. CASE Teardown
      BY <2>5 DEF Teardown, StopReturns, DestroyTransport
    <2>6. CASE ConnCbError
      BY <2>6 DEF ConnCbError, Told
    <2>7. CASE HandshakeReq
      BY <2>7 DEF HandshakeReq
    <2>8. CASE HandshakeReqError
      BY <2>8 DEF HandshakeReqError
    <2>9. ASSUME NEW c \in Slots, ReconnectStart(c) PROVE OneUnderWay'
      BY <2>9 DEF ReconnectStart, StartConnect, FreeSlots
    <2>10. CASE ReconnectStartError
      BY <2>10 DEF ReconnectStartError, CallStop
    <2>11. ASSUME NEW acked \in BOOLEAN, HandshakeAck(acked) PROVE OneUnderWay'
      BY <2>11 DEF HandshakeAck, SawHeartbeat
    <2>12. CASE HandshakeAckTornDown
      BY <2>12 DEF HandshakeAckTornDown, NullTimer
    <2>13. CASE LoopExit
      BY <2>13 DEF LoopExit, Idle, LoopAlive
    <2>14. CASE WorkerEnds
      BY <2>14 DEF WorkerEnds, Broadcast
    <2>15. QED
      BY <1>3, <2>1, <2>2, <2>3, <2>4, <2>5, <2>6, <2>7, <2>8, <2>9, <2>10,
         <2>11, <2>12, <2>13, <2>14 DEF WorkerStep
  <1>4. CASE PeerStep
    <2>1. CASE Eof
      BY <2>1 DEF Eof, CallStop, Reading, Idle
    <2>2. CASE ReadChunk
      BY <2>2 DEF ReadChunk, Reading, Idle
    <2>3. ASSUME NEW interval \in {"unset", "some", "no"},
                 NEW stops \in BOOLEAN, HandshakeResp(interval, stops)
          PROVE  OneUnderWay'
      BY <2>3 DEF HandshakeResp, Receiving
    <2>4. CASE HandshakeRespError
      BY <2>4 DEF HandshakeRespError, CallStop, Receiving
    <2>5. CASE HeartbeatPkg
      BY <2>5 DEF HeartbeatPkg, SawHeartbeat, Receiving
    <2>6. CASE PkgTornDown
      BY <2>6 DEF PkgTornDown, NullTimer, Receiving
    <2>7. CASE StopInCallback
      BY <2>7 DEF StopInCallback, CallStop, Receiving
    <2>8. CASE FeedReturns
      BY <2>8 DEF FeedReturns, Receiving
    <2>9. CASE FeedError
      BY <2>9 DEF FeedError, Receiving
    <2>10. QED
      BY <1>4, <2>1, <2>2, <2>3, <2>4, <2>5, <2>6, <2>7, <2>8, <2>9
         DEF PeerStep
  <1>5. CASE TcpConnected
    <2>1. ASSUME NEW c \in Conn, TcpConnectStale(c) PROVE OneUnderWay'
      BY <2>1 DEF TcpConnectStale, Idle
    <2>2. ASSUME NEW c \in Conn, TcpConnectError(c) PROVE OneUnderWay'
      BY <2>2 DEF TcpConnectError, CallStop, Idle
    <2>3. ASSUME NEW c \in Conn, TcpConnectOk(c) PROVE OneUnderWay'
      <3>1. pend' = {}
        BY <2>3 DEF TcpConnectOk
      <3>2. transport = NULL /\ \A d \in Conn : tp[d] # "WORKING"
        BY <2>3 DEF TcpConnectOk
      <3>3. QED
        BY <2>3, <3>1, <3>2 DEF TcpConnectOk
    <2>4. QED
      BY <1>5, <2>1, <2>2, <2>3 DEF TcpConnected
  <1>6. CASE Written
    <2>1. CASE HandshakeWriteError
      BY <2>1 DEF HandshakeWriteError, FirstWritten, CallStop, Idle
    <2>2. CASE HandshakeReqWritten
      BY <2>2 DEF HandshakeReqWritten, Idle
    <2>3. CASE HandshakeAckWritten
      BY <2>3 DEF HandshakeAckWritten, FirstWritten, Told, Broadcast, Idle
    <2>4. CASE HeartbeatWritten
      BY <2>4 DEF HeartbeatWritten, Idle
    <2>5. QED
      BY <1>6, <2>1, <2>2, <2>3, <2>4 DEF Written
  <1>7. CASE TimerStep
    <2>1. CASE HandshakeTimeout
      BY <2>1 DEF HandshakeTimeout, CallStop, Idle
    <2>2. CASE Heartbeat
      BY <2>2 DEF Heartbeat, Idle
    <2>3. CASE HeartbeatError
      BY <2>3 DEF HeartbeatError, CallStop, Idle
    <2>4. CASE HeartbeatTimeout
      BY <2>4 DEF HeartbeatTimeout, CallStop, Idle
    <2>5. CASE ReconnectTimer
      BY <2>5 DEF ReconnectTimer, Idle
    <2>6. CASE ReconnectTimerError
      BY <2>6 DEF ReconnectTimerError, CallStop, Idle
    <2>7. QED
      BY <1>7, <2>1, <2>2, <2>3, <2>4, <2>5, <2>6 DEF TimerStep
  <1>8. CASE CloseAsync
    BY <1>8 DEF CloseAsync, CallStop, Idle
  <1>9. CASE UNCHANGED vars
    BY <1>9 DEF vars
  <1>10. QED
    BY <1>1, <1>2, <1>3, <1>4, <1>5, <1>6, <1>7, <1>8, <1>9 DEF Next

\* Who calls the callback, or hands it on, lets go of it.
LEMMA ToCallNext ==
    ASSUME EnableReconnect, TypeOK, WriteInv, ReconnectInv, [Next]_vars
    PROVE  (ToCall /\ ConnCbAtMostOnce)'
  <1> USE ClientAssumption
      DEF ReconnectInv, WriteInv, WritesHaveTransport, NotStarted, OneUnderWay,
          Flagged, ToCall, ConnCbAtMostOnce, TypeOK, Ptr, Conn, First, NULL, Acks, shared, ptrs, beats,
          socks, work, appv
  <1>1. CASE AppCall
    <2>1. ASSUME NEW m \in Modes, Connect(m) PROVE (ToCall /\ ConnCbAtMostOnce)'
      BY <2>1 DEF Connect, StartConnect, Alive
    <2>2. ASSUME NEW m \in Modes, ConnectFails(m) PROVE (ToCall /\ ConnCbAtMostOnce)'
      BY <2>2 DEF ConnectFails, Alive
    <2>3. CASE StopUnconnected
      BY <2>3 DEF StopUnconnected
    <2>4. CASE Disconnect
      BY <2>4 DEF Disconnect
    <2>5. CASE Join
      BY <2>5 DEF Join
    <2>6. CASE Destroy
      BY <2>6 DEF Destroy
    <2>7. QED
      BY <1>1, <2>1, <2>2, <2>3, <2>4, <2>5, <2>6 DEF AppCall
  <1>2. CASE AppStep
    <2>1. CASE Spawn
      BY <2>1 DEF Spawn
    <2>2. CASE EnterWait
      BY <2>2 DEF EnterWait
    <2>3. CASE ConnectReturns
      BY <2>3 DEF ConnectReturns
    <2>4. CASE Signal
      BY <2>4 DEF Signal
    <2>5. CASE Joined
      BY <2>5 DEF Joined
    <2>6. CASE DestroyDisconnect
      BY <2>6 DEF DestroyDisconnect
    <2>7. CASE Free
      BY <2>7 DEF Free
    <2>8. QED
      BY <1>2, <2>1, <2>2, <2>3, <2>4, <2>5, <2>6, <2>7 DEF AppStep
  <1>3. CASE WorkerStep
    <2>1. CASE StopRead
      BY <2>1 DEF StopRead
    <2>2. CASE StopIgnored
      BY <2>2 DEF StopIgnored, StopReturns, StopActs, Reconnects
    <2>3. CASE StopReconnect
      BY <2>3 DEF StopReconnect, StopReturns, StopActs, Reconnects,
         DestroyTransport
    <2>4. CASE StopClose
      BY <2>4 DEF StopClose, StopActs, Reconnects
    <2>5. CASE Teardown
      BY <2>5 DEF Teardown, StopReturns, DestroyTransport
    <2>6. CASE ConnCbError
      BY <2>6 DEF ConnCbError, Told
    <2>7. CASE HandshakeReq
      BY <2>7 DEF HandshakeReq
    <2>8. CASE HandshakeReqError
      BY <2>8 DEF HandshakeReqError
    <2>9. ASSUME NEW c \in Slots, ReconnectStart(c) PROVE (ToCall /\ ConnCbAtMostOnce)'
      BY <2>9 DEF ReconnectStart, StartConnect, FreeSlots
    <2>10. CASE ReconnectStartError
      BY <2>10 DEF ReconnectStartError, CallStop
    <2>11. ASSUME NEW acked \in BOOLEAN, HandshakeAck(acked) PROVE (ToCall /\ ConnCbAtMostOnce)'
      BY <2>11 DEF HandshakeAck, SawHeartbeat
    <2>12. CASE HandshakeAckTornDown
      BY <2>12 DEF HandshakeAckTornDown, NullTimer
    <2>13. CASE LoopExit
      BY <2>13 DEF LoopExit, Idle, LoopAlive
    <2>14. CASE WorkerEnds
      BY <2>14 DEF WorkerEnds, Broadcast
    <2>15. QED
      BY <1>3, <2>1, <2>2, <2>3, <2>4, <2>5, <2>6, <2>7, <2>8, <2>9, <2>10,
         <2>11, <2>12, <2>13, <2>14 DEF WorkerStep
  <1>4. CASE PeerStep
    <2>1. CASE Eof
      BY <2>1 DEF Eof, CallStop, Reading, Idle
    <2>2. CASE ReadChunk
      BY <2>2 DEF ReadChunk, Reading, Idle
    <2>3. ASSUME NEW interval \in {"unset", "some", "no"},
                 NEW stops \in BOOLEAN, HandshakeResp(interval, stops)
          PROVE  (ToCall /\ ConnCbAtMostOnce)'
      BY <2>3 DEF HandshakeResp, Receiving
    <2>4. CASE HandshakeRespError
      BY <2>4 DEF HandshakeRespError, CallStop, Receiving
    <2>5. CASE HeartbeatPkg
      BY <2>5 DEF HeartbeatPkg, SawHeartbeat, Receiving
    <2>6. CASE PkgTornDown
      BY <2>6 DEF PkgTornDown, NullTimer, Receiving
    <2>7. CASE StopInCallback
      BY <2>7 DEF StopInCallback, CallStop, Receiving
    <2>8. CASE FeedReturns
      BY <2>8 DEF FeedReturns, Receiving
    <2>9. CASE FeedError
      BY <2>9 DEF FeedError, Receiving
    <2>10. QED
      BY <1>4, <2>1, <2>2, <2>3, <2>4, <2>5, <2>6, <2>7, <2>8, <2>9
         DEF PeerStep
  <1>5. CASE TcpConnected
    <2>1. ASSUME NEW c \in Conn, TcpConnectStale(c) PROVE (ToCall /\ ConnCbAtMostOnce)'
      BY <2>1 DEF TcpConnectStale, Idle
    <2>2. ASSUME NEW c \in Conn, TcpConnectError(c) PROVE (ToCall /\ ConnCbAtMostOnce)'
      BY <2>2 DEF TcpConnectError, CallStop, Idle
    <2>3. ASSUME NEW c \in Conn, TcpConnectOk(c) PROVE (ToCall /\ ConnCbAtMostOnce)'
      BY <2>3 DEF TcpConnectOk, Idle
    <2>4. QED
      BY <1>5, <2>1, <2>2, <2>3 DEF TcpConnected
  <1>6. CASE Written
    <2>1. CASE HandshakeWriteError
      BY <2>1 DEF HandshakeWriteError, FirstWritten, CallStop, Idle
    <2>2. CASE HandshakeReqWritten
      BY <2>2 DEF HandshakeReqWritten, Idle
    <2>3. CASE HandshakeAckWritten
      BY <2>3 DEF HandshakeAckWritten, FirstWritten, Told, Broadcast, Idle
    <2>4. CASE HeartbeatWritten
      BY <2>4 DEF HeartbeatWritten, Idle
    <2>5. QED
      BY <1>6, <2>1, <2>2, <2>3, <2>4 DEF Written
  <1>7. CASE TimerStep
    <2>1. CASE HandshakeTimeout
      BY <2>1 DEF HandshakeTimeout, CallStop, Idle
    <2>2. CASE Heartbeat
      BY <2>2 DEF Heartbeat, Idle
    <2>3. CASE HeartbeatError
      BY <2>3 DEF HeartbeatError, CallStop, Idle
    <2>4. CASE HeartbeatTimeout
      BY <2>4 DEF HeartbeatTimeout, CallStop, Idle
    <2>5. CASE ReconnectTimer
      BY <2>5 DEF ReconnectTimer, Idle
    <2>6. CASE ReconnectTimerError
      BY <2>6 DEF ReconnectTimerError, CallStop, Idle
    <2>7. QED
      BY <1>7, <2>1, <2>2, <2>3, <2>4, <2>5, <2>6 DEF TimerStep
  <1>8. CASE CloseAsync
    BY <1>8 DEF CloseAsync, CallStop, Idle
  <1>9. CASE UNCHANGED vars
    BY <1>9 DEF vars
  <1>10. QED
    BY <1>1, <1>2, <1>3, <1>4, <1>5, <1>6, <1>7, <1>8, <1>9 DEF Next

\* The flag keeps a second stop from starting a second attempt.
LEMMA FlaggedNext ==
    ASSUME EnableReconnect, TypeOK, WriteInv, ReconnectInv, [Next]_vars
    PROVE  Flagged'
  <1> USE ClientAssumption
      DEF ReconnectInv, WriteInv, WritesHaveTransport, NotStarted, OneUnderWay,
          Flagged, ToCall, TypeOK, Ptr, Conn, First, NULL, Acks, shared, ptrs, beats,
          socks, work, appv
  <1>1. CASE AppCall
    <2>1. ASSUME NEW m \in Modes, Connect(m) PROVE Flagged'
      <3>1. async = 0 /\ worker = "none" /\ app' = "spawn"
        BY <2>1 DEF Connect, Undisturbed
      <3>2. pend' = {First} /\ armed' = {} /\ wpc' = "idle" /\ async' = 0
            /\ reconnecting' = 0
        BY <2>1, <3>1, ZenonT(30) DEF Connect, StartConnect
      <3>3. QED
        BY <3>1, <3>2
    <2>2. ASSUME NEW m \in Modes, ConnectFails(m) PROVE Flagged'
      BY <2>2 DEF ConnectFails, Alive
    <2>3. CASE StopUnconnected
      BY <2>3 DEF StopUnconnected
    <2>4. CASE Disconnect
      BY <2>4 DEF Disconnect
    <2>5. CASE Join
      BY <2>5 DEF Join
    <2>6. CASE Destroy
      BY <2>6 DEF Destroy
    <2>7. QED
      BY <1>1, <2>1, <2>2, <2>3, <2>4, <2>5, <2>6 DEF AppCall
  <1>2. CASE AppStep
    <2>1. CASE Spawn
      BY <2>1 DEF Spawn
    <2>2. CASE EnterWait
      BY <2>2 DEF EnterWait
    <2>3. CASE ConnectReturns
      BY <2>3 DEF ConnectReturns
    <2>4. CASE Signal
      BY <2>4 DEF Signal
    <2>5. CASE Joined
      BY <2>5 DEF Joined
    <2>6. CASE DestroyDisconnect
      BY <2>6 DEF DestroyDisconnect
    <2>7. CASE Free
      BY <2>7 DEF Free
    <2>8. QED
      BY <1>2, <2>1, <2>2, <2>3, <2>4, <2>5, <2>6, <2>7 DEF AppStep
  <1>3. CASE WorkerStep
    <2>1. CASE StopRead
      BY <2>1 DEF StopRead
    <2>2. CASE StopIgnored
      BY <2>2 DEF StopIgnored, StopReturns, StopActs, Reconnects
    <2>3. CASE StopReconnect
      BY <2>3 DEF StopReconnect, StopReturns, StopActs, Reconnects,
         DestroyTransport
    <2>4. CASE StopClose
      BY <2>4 DEF StopClose, StopActs, Reconnects
    <2>5. CASE Teardown
      BY <2>5 DEF Teardown, StopReturns, DestroyTransport
    <2>6. CASE ConnCbError
      <3>1. pend = {} /\ pend' = {} /\ wpc' # "connect"
        BY <2>6 DEF ConnCbError
      <3>2. "reconnect" \in armed' =>
               "reconnect" \in armed /\ reconnecting' = reconnecting
        BY <2>6 DEF ConnCbError
      <3>3. transport' = transport /\ after' = NULL /\ conn_req' = NULL
        BY <2>6 DEF ConnCbError
      <3>4. QED
        BY <3>1, <3>2, <3>3
    <2>7. CASE HandshakeReq
      BY <2>7 DEF HandshakeReq
    <2>8. CASE HandshakeReqError
      BY <2>8 DEF HandshakeReqError
    <2>9. ASSUME NEW c \in Slots, ReconnectStart(c) PROVE Flagged'
      BY <2>9 DEF ReconnectStart, StartConnect, FreeSlots
    <2>10. CASE ReconnectStartError
      BY <2>10 DEF ReconnectStartError, CallStop
    <2>11. ASSUME NEW acked \in BOOLEAN, HandshakeAck(acked) PROVE Flagged'
      BY <2>11 DEF HandshakeAck, SawHeartbeat
    <2>12. CASE HandshakeAckTornDown
      BY <2>12 DEF HandshakeAckTornDown, NullTimer
    <2>13. CASE LoopExit
      BY <2>13 DEF LoopExit, Idle, LoopAlive
    <2>14. CASE WorkerEnds
      BY <2>14 DEF WorkerEnds, Broadcast
    <2>15. QED
      BY <1>3, <2>1, <2>2, <2>3, <2>4, <2>5, <2>6, <2>7, <2>8, <2>9, <2>10,
         <2>11, <2>12, <2>13, <2>14 DEF WorkerStep
  <1>4. CASE PeerStep
    <2>1. CASE Eof
      BY <2>1 DEF Eof, CallStop, Reading, Idle
    <2>2. CASE ReadChunk
      BY <2>2 DEF ReadChunk, Reading, Idle
    <2>3. ASSUME NEW interval \in {"unset", "some", "no"},
                 NEW stops \in BOOLEAN, HandshakeResp(interval, stops)
          PROVE  Flagged'
      BY <2>3 DEF HandshakeResp, Receiving
    <2>4. CASE HandshakeRespError
      BY <2>4 DEF HandshakeRespError, CallStop, Receiving
    <2>5. CASE HeartbeatPkg
      BY <2>5 DEF HeartbeatPkg, SawHeartbeat, Receiving
    <2>6. CASE PkgTornDown
      BY <2>6 DEF PkgTornDown, NullTimer, Receiving
    <2>7. CASE StopInCallback
      BY <2>7 DEF StopInCallback, CallStop, Receiving
    <2>8. CASE FeedReturns
      BY <2>8 DEF FeedReturns, Receiving
    <2>9. CASE FeedError
      BY <2>9 DEF FeedError, Receiving
    <2>10. QED
      BY <1>4, <2>1, <2>2, <2>3, <2>4, <2>5, <2>6, <2>7, <2>8, <2>9
         DEF PeerStep
  <1>5. CASE TcpConnected
    <2>1. ASSUME NEW c \in Conn, TcpConnectStale(c) PROVE Flagged'
      BY <2>1 DEF TcpConnectStale, Idle
    <2>2. ASSUME NEW c \in Conn, TcpConnectError(c) PROVE Flagged'
      <3>1. pend' = {} /\ wpc' = "stop" /\ "reconnect" \notin armed'
        BY <2>2 DEF TcpConnectError, CallStop, Idle
      <3>2. conn_req' = NULL /\ transport' = NULL
        BY <2>2 DEF TcpConnectError
      <3>3. QED
        BY <3>1, <3>2
    <2>3. ASSUME NEW c \in Conn, TcpConnectOk(c) PROVE Flagged'
      BY <2>3 DEF TcpConnectOk, Idle
    <2>4. QED
      BY <1>5, <2>1, <2>2, <2>3 DEF TcpConnected
  <1>6. CASE Written
    <2>1. CASE HandshakeWriteError
      BY <2>1 DEF HandshakeWriteError, FirstWritten, CallStop, Idle
    <2>2. CASE HandshakeReqWritten
      BY <2>2 DEF HandshakeReqWritten, Idle
    <2>3. CASE HandshakeAckWritten
      BY <2>3 DEF HandshakeAckWritten, FirstWritten, Told, Broadcast, Idle
    <2>4. CASE HeartbeatWritten
      BY <2>4 DEF HeartbeatWritten, Idle
    <2>5. QED
      BY <1>6, <2>1, <2>2, <2>3, <2>4 DEF Written
  <1>7. CASE TimerStep
    <2>1. CASE HandshakeTimeout
      BY <2>1 DEF HandshakeTimeout, CallStop, Idle
    <2>2. CASE Heartbeat
      BY <2>2 DEF Heartbeat, Idle
    <2>3. CASE HeartbeatError
      BY <2>3 DEF HeartbeatError, CallStop, Idle
    <2>4. CASE HeartbeatTimeout
      BY <2>4 DEF HeartbeatTimeout, CallStop, Idle
    <2>5. CASE ReconnectTimer
      BY <2>5 DEF ReconnectTimer, Idle
    <2>6. CASE ReconnectTimerError
      BY <2>6 DEF ReconnectTimerError, CallStop, Idle
    <2>7. QED
      BY <1>7, <2>1, <2>2, <2>3, <2>4, <2>5, <2>6 DEF TimerStep
  <1>8. CASE CloseAsync
    BY <1>8 DEF CloseAsync, CallStop, Idle
  <1>9. CASE UNCHANGED vars
    BY <1>9 DEF vars
  <1>10. QED
    BY <1>1, <1>2, <1>3, <1>4, <1>5, <1>6, <1>7, <1>8, <1>9 DEF Next

\* Whatever ends leaves something that goes on.
LEMMA UndisturbedNext ==
    ASSUME EnableReconnect, TypeOK, WriteInv, ReconnectInv, [Next]_vars
    PROVE  Undisturbed'
  <1> USE ClientAssumption
      DEF ReconnectInv, WriteInv, WritesHaveTransport, NotStarted, OneUnderWay,
          Flagged, ToCall, Undisturbed, GoesOn, HandshakeUnderWay, TypeOK, Ptr, Conn, First, NULL, Acks, shared, ptrs, beats,
          socks, work, appv
  <1>1. CASE AppCall
    <2>1. ASSUME NEW m \in Modes, Connect(m) PROVE Undisturbed'
      BY <2>1 DEF Connect, StartConnect, Alive
    <2>2. ASSUME NEW m \in Modes, ConnectFails(m) PROVE Undisturbed'
      BY <2>2 DEF ConnectFails, Alive
    <2>3. CASE StopUnconnected
      BY <2>3 DEF StopUnconnected
    <2>4. CASE Disconnect
      BY <2>4 DEF Disconnect
    <2>5. CASE Join
      BY <2>5 DEF Join
    <2>6. CASE Destroy
      BY <2>6 DEF Destroy
    <2>7. QED
      BY <1>1, <2>1, <2>2, <2>3, <2>4, <2>5, <2>6 DEF AppCall
  <1>2. CASE AppStep
    <2>1. CASE Spawn
      BY <2>1 DEF Spawn
    <2>2. CASE EnterWait
      BY <2>2 DEF EnterWait
    <2>3. CASE ConnectReturns
      BY <2>3 DEF ConnectReturns
    <2>4. CASE Signal
      BY <2>4 DEF Signal
    <2>5. CASE Joined
      BY <2>5 DEF Joined
    <2>6. CASE DestroyDisconnect
      BY <2>6 DEF DestroyDisconnect
    <2>7. CASE Free
      BY <2>7 DEF Free
    <2>8. QED
      BY <1>2, <2>1, <2>2, <2>3, <2>4, <2>5, <2>6, <2>7 DEF AppStep
  <1>3. CASE WorkerStep
    <2>1. CASE StopRead
      BY <2>1 DEF StopRead
    <2>2. CASE StopIgnored
      <3>1. wpc = "act" /\ worker = "loop" /\ reconnecting = 1
            /\ UNCHANGED state
        BY <2>2 DEF StopIgnored, StopActs, Reconnects
      <3>2. /\ UNCHANGED <<appv, handles, async, ptrs, pend, inflight, armed,
                            shaken, worker, after, back>>
            /\ snap' = "INITED"
            /\ wpc' = IF after = NULL THEN back ELSE "cb"
        BY <2>2 DEF StopIgnored, StopReturns
      <3>3. disc = 0 /\ after \in {NULL, First} => GoesOn /\ GoesOn'
        BY <3>1, <3>2
      <3>4. disc = 0 /\ wpc' = "ack" =>
               "reconnect" \in armed' \/ transport' # NULL
        BY <3>2, <3>3
      <3>5. disc = 0 /\ after = NULL /\ transport # NULL
               => state \in {"CONNECTED", "WORKING"}
        BY <3>1
      <3>6. disc = 0 => /\ wpc' \in {"idle", "feed"} => GoesOn'
                        /\ wpc' = "cb" /\ after' = First => GoesOn'
        BY <3>2, <3>3
      <3>7. wpc' \notin {"stop", "act", "close"}
        BY <3>2
      <3>8. QED
        <4> HIDE DEF GoesOn
        <4>1. QED
          BY <3>1, <3>2, <3>4, <3>5, <3>6, <3>7
    <2>3. CASE StopReconnect
      BY <2>3 DEF StopReconnect, StopReturns, StopActs, Reconnects,
         DestroyTransport
    <2>4. CASE StopClose
      BY <2>4 DEF StopClose, StopActs, Reconnects
    <2>5. CASE Teardown
      BY <2>5 DEF Teardown, StopReturns, DestroyTransport
    <2>6. CASE ConnCbError
      BY <2>6 DEF ConnCbError, Told
    <2>7. CASE HandshakeReq
      BY <2>7 DEF HandshakeReq
    <2>8. CASE HandshakeReqError
      BY <2>8 DEF HandshakeReqError
    <2>9. ASSUME NEW c \in Slots, ReconnectStart(c) PROVE Undisturbed'
      BY <2>9 DEF ReconnectStart, StartConnect, FreeSlots
    <2>10. CASE ReconnectStartError
      BY <2>10 DEF ReconnectStartError, CallStop
    <2>11. ASSUME NEW acked \in BOOLEAN, acked \/ UserRejects,
                  HandshakeAck(acked)
           PROVE  Undisturbed'
      <3>1. /\ wpc = "ack" /\ wpc' = "feed" /\ back' = "feed" /\ worker = "loop"
            /\ after' = NULL
            /\ "reconnect" \in armed => "reconnect" \in armed'
            /\ UNCHANGED <<appv, shared, ptrs, pend, shaken, worker, snap>>
        BY <2>11 DEF HandshakeAck, SawHeartbeat
      <3>2. "reconnect" \in armed' => "reconnect" \in armed
        BY <2>11 DEF HandshakeAck, SawHeartbeat
      <3>3. ASSUME disc = 0, "reconnect" \notin armed PROVE GoesOn'
        <4>1. transport # NULL /\ state \in {"CONNECTED", "WORKING"}
              /\ shaken > 0
          BY <3>1, <3>3
        <4>2. CASE acked
          <5>1. inflight' \cap Acks # {}
            BY <2>11, <4>1, <4>2 DEF HandshakeAck
          <5>2. QED
            BY <3>1, <4>1, <5>1
        <4>3. CASE ~acked
          BY <2>11, <3>1, <4>1, <4>3
        <4>4. QED
          BY <4>2, <4>3
      <3>4. disc = 0 => GoesOn'
        BY <3>1, <3>3
      <3>5. QED
        <4> HIDE DEF GoesOn
        <4>1. QED
          BY <3>1, <3>2, <3>4
    <2>12. CASE HandshakeAckTornDown
      BY <2>12 DEF HandshakeAckTornDown, NullTimer
    <2>13. CASE LoopExit
      BY <2>13 DEF LoopExit, Idle, LoopAlive
    <2>14. CASE WorkerEnds
      BY <2>14 DEF WorkerEnds, Broadcast
    <2>15. QED
      BY <1>3, <2>1, <2>2, <2>3, <2>4, <2>5, <2>6, <2>7, <2>8, <2>9, <2>10,
         <2>11, <2>12, <2>13, <2>14 DEF WorkerStep
  <1>4. CASE PeerStep
    <2>1. CASE Eof
      BY <2>1 DEF Eof, CallStop, Reading, Idle
    <2>2. CASE ReadChunk
      BY <2>2 DEF ReadChunk, Reading, Idle
    <2>3. ASSUME NEW interval \in {"unset", "some", "no"},
                 NEW stops \in BOOLEAN, HandshakeResp(interval, stops)
          PROVE  Undisturbed'
      <3>1. /\ wpc = "feed" /\ wpc' \in {"stop", "ack"} /\ back' = "ack"
            /\ worker = "loop" /\ after = NULL
            /\ armed' = armed \ {"handshake"}
            /\ UNCHANGED <<appv, shared, ptrs, pend, worker, snap, after>>
        BY <2>3 DEF HandshakeResp, Receiving
      <3>2. shaken' > 0
        BY <2>3 DEF HandshakeResp
      <3>3. disc = 0 => "reconnect" \in armed \/ transport # NULL
        BY <3>1
      <3>4. disc = 0 => GoesOn' \/ reconnecting' = 0
        BY <3>1, <3>3
      <3>5. QED
        <4> HIDE DEF GoesOn
        <4>1. QED
          BY <3>1, <3>2, <3>3, <3>4
    <2>4. CASE HandshakeRespError
      BY <2>4 DEF HandshakeRespError, CallStop, Receiving
    <2>5. CASE HeartbeatPkg
      BY <2>5 DEF HeartbeatPkg, SawHeartbeat, Receiving
    <2>6. CASE PkgTornDown
      BY <2>6 DEF PkgTornDown, NullTimer, Receiving
    <2>7. CASE StopInCallback
      BY <2>7 DEF StopInCallback, CallStop, Receiving
    <2>8. CASE FeedReturns
      BY <2>8 DEF FeedReturns, Receiving
    <2>9. CASE FeedError
      BY <2>9 DEF FeedError, Receiving
    <2>10. QED
      BY <1>4, <2>1, <2>2, <2>3, <2>4, <2>5, <2>6, <2>7, <2>8, <2>9
         DEF PeerStep
  <1>5. CASE TcpConnected
    <2>1. ASSUME NEW c \in Conn, TcpConnectStale(c) PROVE Undisturbed'
      BY <2>1 DEF TcpConnectStale, Idle
    <2>2. ASSUME NEW c \in Conn, TcpConnectError(c) PROVE Undisturbed'
      BY <2>2 DEF TcpConnectError, CallStop, Idle
    <2>3. ASSUME NEW c \in Conn, TcpConnectOk(c) PROVE Undisturbed'
      BY <2>3 DEF TcpConnectOk, Idle
    <2>4. QED
      BY <1>5, <2>1, <2>2, <2>3 DEF TcpConnected
  <1>6. CASE Written
    <2>1. CASE HandshakeWriteError
      BY <2>1 DEF HandshakeWriteError, FirstWritten, CallStop, Idle
    <2>2. CASE HandshakeReqWritten
      BY <2>2 DEF HandshakeReqWritten, Idle
    <2>3. CASE HandshakeAckWritten
      BY <2>3 DEF HandshakeAckWritten, FirstWritten, Told, Broadcast, Idle
    <2>4. CASE HeartbeatWritten
      BY <2>4 DEF HeartbeatWritten, Idle
    <2>5. QED
      BY <1>6, <2>1, <2>2, <2>3, <2>4 DEF Written
  <1>7. CASE TimerStep
    <2>1. CASE HandshakeTimeout
      BY <2>1 DEF HandshakeTimeout, CallStop, Idle
    <2>2. CASE Heartbeat
      BY <2>2 DEF Heartbeat, Idle
    <2>3. CASE HeartbeatError
      BY <2>3 DEF HeartbeatError, CallStop, Idle
    <2>4. CASE HeartbeatTimeout
      BY <2>4 DEF HeartbeatTimeout, CallStop, Idle
    <2>5. CASE ReconnectTimer
      BY <2>5 DEF ReconnectTimer, Idle
    <2>6. CASE ReconnectTimerError
      BY <2>6 DEF ReconnectTimerError, CallStop, Idle
    <2>7. QED
      BY <1>7, <2>1, <2>2, <2>3, <2>4, <2>5, <2>6 DEF TimerStep
  <1>8. CASE CloseAsync
    BY <1>8 DEF CloseAsync, CallStop, Idle
  <1>9. CASE UNCHANGED vars
    BY <1>9 DEF vars
  <1>10. QED
    BY <1>1, <1>2, <1>3, <1>4, <1>5, <1>6, <1>7, <1>8, <1>9 DEF Next

-----------------------------------------------------------------------------
(* What follows.                                                           *)

\* The inductive invariant holds, whatever the two threads, the peer, the
\* timers and the attempts do.
THEOREM ReconnectInvariant ==
    ASSUME EnableReconnect PROVE Spec => []ReconnectInv
  <1>1. TypeOK /\ WriteInv /\ ReconnectInv /\ [Next]_vars => ReconnectInv'
    BY NotStartedNext, OneUnderWayNext, ToCallNext, FlaggedNext,
       UndisturbedNext
       DEF ReconnectInv
  <1>2. QED
    BY <1>1, ReconnectInit, TypeCorrect, WriteInvariant, PTL DEF Spec

\* pc__client_reconnect destroys the old transport before pc_connect makes a
\* new one, so a client never reads from two connections, even when a late
\* callback stops it in the middle of an attempt.
THEOREM ReconnectOneTransport ==
    ASSUME EnableReconnect PROVE Spec => []OneLiveTransport
  <1>1. TypeOK /\ ReconnectInv => OneLiveTransport
    BY ClientAssumption
       DEF TypeOK, ReconnectInv, OneUnderWay, OneLiveTransport, Conn, First,
           NULL, Ptr
  <1>2. QED
    BY <1>1, ReconnectInvariant, TypeCorrect, PTL

\* When the reconnect timer fires pc_connect finds the INITED client it
\* requires, with no transport and no attempt in flight.
THEOREM ReconnectFromReset ==
    ASSUME EnableReconnect PROVE Spec => []RetryFromReset
  <1>1. ReconnectInv => RetryFromReset
    BY DEF ReconnectInv, Flagged, Undisturbed, RetryFromReset, Idle
  <1>2. QED
    BY <1>1, ReconnectInvariant, PTL

\* A connect, a write or an established connection that fails leaves the
\* reconnect timer, a connect in flight or a handshake under its timer: the
\* client never waits for nothing, except after a refused answer and in a
\* reconnect attempt whose handshake fails, where pc_client_stop returns at
\* once and the client keeps a transport that nothing drives on.
THEOREM ReconnectGoesOn == Spec => []ReconnectScheduled
  <1>1. CASE EnableReconnect
    <2>1. ReconnectInv => ReconnectScheduled
      BY DEF ReconnectInv, Undisturbed, GoesOn, ReconnectScheduled, Idle
    <2>2. QED
      BY <1>1, <2>1, ReconnectInvariant, PTL
  <1>2. CASE ~EnableReconnect
    <2>1. TypeOK => ReconnectScheduled
      BY <1>2 DEF ReconnectScheduled
    <2>2. QED
      BY <2>1, TypeCorrect, PTL
  <1>3. QED
    BY <1>1, <1>2

\* With reconnect or without, no connect request's callback is called twice:
\* pc__on_tcp_connect, both handshake writes, the ack and pc_client_stop hand
\* client->conn_req on to one another and never keep it.
THEOREM ConnCbOnce == Spec => []ConnCbAtMostOnce
  <1>1. CASE EnableReconnect
    <2>1. ReconnectInv => ConnCbAtMostOnce
      BY DEF ReconnectInv
    <2>2. QED
      BY <1>1, <2>1, ReconnectInvariant, PTL
  <1>2. CASE ~EnableReconnect
    BY <1>2, PlainConnCb
  <1>3. QED
    BY <1>1, <1>2
=============================================================================
