------------------------------ MODULE Requests ------------------------------
(***************************************************************************)
(* Requests and notifies: pc_request and pc_notify, called in any thread,  *)
(* the async handle that carries each to the worker, the write, its        *)
(* callback, the responses, and what a lost connection, a reconnect and    *)
(* pc_client_destroy do to the requests that wait (src/src/network.c,      *)
(* protocol.c, client.c).                                                  *)
(*                                                                         *)
(* The connection is abstracted to what requests can see of it: the state  *)
(* of the client, the pointer client->transport and, per connection, the   *)
(* state of the transport up to the moment libuv's close callback frees    *)
(* it.  Every caller steps on its own, one access to shared memory at a    *)
(* time; a callback of the worker is one step.                             *)
(***************************************************************************)
EXTENDS PcMap

CONSTANTS
    Reqs,                \* pc_request_t objects, each used for one call
    Notes,               \* pc_notify_t objects, each used for one call
    MaxConns,            \* the connections of the client (bound)
    IdModulus,           \* 2^32 in the code: the width of pc__req_id
    FirstId,             \* pc__req_id at the start of the model
    Older                \* at most one request, of that id, waits by then

ASSUME RequestsAssumption ==
    /\ Reqs \cap Notes = {}
    /\ MaxConns \in Nat \ {0}
    /\ IdModulus \in Nat \ {0}
    /\ Keys = 0 .. IdModulus - 1       \* an id, printed with "%u"
    /\ FirstId \in 0 .. IdModulus - 1
    /\ Older \subseteq Reqs /\ \A r, s \in Older : r = s

Ids   == 0 .. IdModulus - 1
Calls == Reqs \cup Notes
Conns == 1 .. MaxConns
NULL  == 0

VARIABLES
    enable_reconnect,    \* client->enable_reconnect
    state,               \* client->state
    reconnecting,        \* client->reconnecting
    handles,             \* "open", or "closed": the client's own handles no
                         \* longer keep the loop
    transport,           \* client->transport
    tp,                  \* transport->state of every connection, or "freed"
    feeding,             \* TRUE: the worker is stopped but still in feed,
                         \* with the rest of a chunk
    worker,              \* "loop", "done", "freed" (so is the client), "cut"
                         \* (the client is freed under a running worker)
    pc__req_id,          \* the counter of request ids
    pc,                  \* where each caller is
    reg,                 \* the caller's register: the counter it has read
    id,                  \* req->id
    req_tp,              \* req->transport
    async,               \* async handles sent and not yet handled
    writes,              \* writes in flight, in order
    wire,                \* requests written that the peer may answer
    requests,            \* client->requests
    told,                \* history: what each callback was told, in order
    fault                \* undefined behaviour met

vars == <<enable_reconnect, state, reconnecting, handles, transport, tp,
          feeding, worker, pc__req_id, pc, reg, id, req_tp, async, writes,
          wire, requests, told, fault>>

stops  == <<reconnecting, handles>>
conn   == <<enable_reconnect, state, stops, transport, tp, feeding, worker>>
caller == <<pc__req_id, pc, reg, id, req_tp>>
net    == <<async, writes, wire>>

\* What a callback is told: an answer (whose), status 0 without one, status -1.
Results == {<<"resp", r>> : r \in Reqs} \cup {<<"ok">>, <<"err">>}

TypeOK ==
    /\ enable_reconnect \in BOOLEAN /\ feeding \in BOOLEAN
    /\ state \in {"CONNECTED", "WORKING", "INITED", "DISCONNECTING", "CLOSED"}
    /\ transport \in Conns \cup {NULL}
    /\ tp \in [Conns -> {"none", "WORKING", "CLOSED", "freed"}]
    /\ reconnecting \in {0, 1} /\ handles \in {"open", "closed"}
    /\ worker \in {"loop", "done", "freed", "cut"}
    /\ pc__req_id \in Ids /\ reg \in [Calls -> Ids] /\ id \in [Calls -> Ids]
    /\ pc \in [Calls -> {"none", "store", "load", "send", "ok", "error"}]
    /\ req_tp \in [Calls -> Conns \cup {NULL}]
    /\ async \subseteq Calls /\ wire \subseteq Reqs
    /\ \A i \in DOMAIN writes : writes[i] \in Calls
    /\ \A r \in Values(requests) : r \in Reqs
    /\ \A c \in Calls : \A i \in DOMAIN told[c] : told[c][i] \in Results
    /\ fault \in {"none", "freed_transport", "endless_set"}

Init ==
    /\ enable_reconnect \in BOOLEAN
    /\ state = "WORKING" /\ transport = 1 /\ feeding = FALSE
    /\ reconnecting = 0 /\ handles = "open"
    /\ tp = [c \in Conns |-> IF c = 1 THEN "WORKING" ELSE "none"]
    /\ worker = "loop"
    /\ pc__req_id = FirstId
    /\ pc = [c \in Calls |-> IF c \in Older THEN "ok" ELSE "none"]
    /\ reg = [c \in Calls |-> 0]
    /\ id = [c \in Calls |-> IF c \in Older THEN FirstId ELSE 0]
    /\ req_tp = [c \in Calls |-> IF c \in Older THEN 1 ELSE NULL]
    /\ async = {} /\ writes = <<>> /\ wire = Older
    /\ requests = [b \in Buckets |->
                     IF Older # {} /\ b = bucket(FirstId)
                     THEN <<[key |-> FirstId, value |-> CHOOSE r \in Older : TRUE]>>
                     ELSE <<>>]
    /\ told = [c \in Calls |-> <<>>]
    /\ fault = "none"

Alive  == fault = "none" /\ worker \notin {"freed", "cut"}
InLoop == Alive /\ worker = "loop" /\ ~feeding

\* The callback of every member of S is called with this result.
Tell(S, result) ==
    told' = [c \in Calls |-> IF c \in S THEN Append(told[c], result)
                             ELSE told[c]]
-----------------------------------------------------------------------------
(* The callers: pc_request, pc_notify and pc__async_write.                 *)

Goes(c, to) == pc' = [pc EXCEPT ![c] = to]

\* The client must be WORKING; a request then reads the counter.  (No step of
\* the worker touches the counter, so nothing is lost by one step for both.)
Begin(c) ==
    /\ Alive /\ pc[c] = "none"
    /\ \/ /\ state = "WORKING" /\ c \in Reqs
          /\ reg' = [reg EXCEPT ![c] = pc__req_id]
          /\ Goes(c, "store")
       \/ /\ state = "WORKING" /\ c \in Notes
          /\ Goes(c, "load")
          /\ UNCHANGED reg
       \/ /\ state # "WORKING"
          /\ Goes(c, "error")
          /\ UNCHANGED reg
    /\ UNCHANGED <<conn, pc__req_id, id, req_tp, net, requests, told, fault>>

\* The counter does not wrap.
StoreCounterWide(r) ==
    /\ Alive /\ pc[r] = "store"
    /\ pc__req_id' = reg[r] + 1
    /\ id' = [id EXCEPT ![r] = reg[r] + 1]
    /\ reg' = [reg EXCEPT ![r] = 0]
    /\ Goes(r, "load")
    /\ UNCHANGED <<conn, req_tp, net, requests, told, fault>>

\* req->id = ++pc__req_id: the increment is not protected, another caller may
\* have stored in between.
StoreCounter(r) ==
    /\ Alive /\ pc[r] = "store"
    /\ pc__req_id' = (reg[r] + 1) % IdModulus
    /\ id' = [id EXCEPT ![r] = (reg[r] + 1) % IdModulus]
    /\ reg' = [reg EXCEPT ![r] = 0]
    /\ Goes(r, "load")
    /\ UNCHANGED <<conn, req_tp, net, requests, told, fault>>

\* client->transport is read and passed to pc__async_write.
LoadTransport(c) ==
    /\ Alive /\ pc[c] = "load"
    /\ req_tp' = [req_tp EXCEPT ![c] = transport]
    /\ Goes(c, IF transport = NULL THEN "error" ELSE "send")
    /\ UNCHANGED <<conn, pc__req_id, reg, id, net, requests, told, fault>>

\* pc__async_write reads through the transport, which libuv may have freed; a
\* WORKING one gets an async handle, unless making or sending it fails.
SendAsync(c) ==
    /\ Alive /\ pc[c] = "send"
    /\ \/ /\ tp[req_tp[c]] = "freed"
          /\ fault' = "freed_transport"
          /\ UNCHANGED <<pc, req_tp, async>>
       \/ /\ tp[req_tp[c]] = "WORKING"
          /\ Goes(c, "ok")
          /\ async' = async \cup {c}
          /\ UNCHANGED <<req_tp, fault>>
       \/ /\ tp[req_tp[c]] # "freed"
          /\ Goes(c, "error")
          /\ req_tp' = [req_tp EXCEPT ![c] = NULL]
          /\ UNCHANGED <<async, fault>>
    /\ UNCHANGED <<conn, pc__req_id, reg, id, writes, wire, requests, told>>
-----------------------------------------------------------------------------
(* The worker: pc__async_write_cb, pc__request and pc__notify.             *)

\* The transport of the call is freed memory by now.
AsyncFreed(c) ==
    /\ InLoop /\ c \in async
    /\ tp[req_tp[c]] = "freed"
    /\ fault' = "freed_transport"
    /\ UNCHANGED <<conn, caller, net, requests, told>>

\* The transport has been closed: the callback gets the status of the async
\* handle, which is 0.
AsyncClosed(c) ==
    /\ InLoop /\ c \in async
    /\ tp[req_tp[c]] = "CLOSED"
    /\ async' = async \ {c}
    /\ Tell({c}, <<"ok">>)
    /\ UNCHANGED <<conn, caller, writes, wire, requests, fault>>

\* Encoding the message, or starting the write, fails.
AsyncError(c) ==
    /\ InLoop /\ c \in async
    /\ tp[req_tp[c]] = "WORKING"
    /\ async' = async \ {c}
    /\ Tell({c}, <<"err">>)
    /\ UNCHANGED <<conn, caller, writes, wire, requests, fault>>

\* The notify is remembered like a request.
WriteNotifyKept(c) ==
    /\ InLoop /\ c \in async \cap Notes
    /\ tp[req_tp[c]] = "WORKING"
    /\ async' = async \ {c}
    /\ writes' = Append(writes, c)
    /\ requests' = pc_map_set(requests, id[c], c)
    /\ UNCHANGED <<conn, caller, wire, told, fault>>

\* pc__notify writes its message.
WriteNotify(c) ==
    /\ InLoop /\ c \in async \cap Notes
    /\ tp[req_tp[c]] = "WORKING"
    /\ async' = async \ {c}
    /\ writes' = Append(writes, c)
    /\ UNCHANGED <<conn, caller, wire, requests, told, fault>>

\* pc__request writes its message and sets it in the map under its id.  A
\* request of the same id is replaced and told, or the set never returns.
\* The message of id 0 goes out as a notify, which the peer does not answer.
WriteRequest(r) ==
    /\ InLoop /\ r \in async \cap Reqs
    /\ tp[req_tp[r]] = "WORKING"
    /\ async' = async \ {r}
    /\ writes' = Append(writes, r)
    /\ wire' = IF id[r] = 0 THEN wire ELSE wire \cup {r}
    /\ IF pc_map_set_hangs(requests, id[r])
       THEN fault' = "endless_set" /\ UNCHANGED <<requests, told>>
       ELSE /\ requests' = pc_map_set(requests, id[r], r)
            /\ Tell(IF Found(requests, id[r])
                    THEN {pc_map_get(requests, id[r])} ELSE {},
                    <<"err">>)
            /\ UNCHANGED fault
    /\ UNCHANGED <<conn, caller>>

\* pc__on_request and pc__on_notify on a WORKING transport, status 0.
WriteDone ==
    /\ InLoop /\ writes # <<>>
    /\ tp[req_tp[Head(writes)]] = "WORKING"
    /\ writes' = Tail(writes)
    /\ Tell({Head(writes)} \cap Notes, <<"ok">>)
    /\ UNCHANGED <<conn, caller, async, wire, requests, fault>>

\* The failed request stays in the map.
WriteFailedKept ==
    /\ InLoop /\ writes # <<>>
    /\ LET c == Head(writes) IN
       /\ tp[req_tp[c]] = "WORKING"
       /\ c \in Reqs /\ id[c] # 0 => c \in wire
       /\ writes' = Tail(writes)
       /\ wire' = wire \ {c}
       /\ Tell({c}, <<"err">>)
    /\ UNCHANGED <<conn, caller, async, requests, fault>>

\* The same with status -1: the id is taken out of the map, whoever has it.
\* What the peer has answered was written, so its write does not fail.
WriteFailed ==
    /\ InLoop /\ writes # <<>>
    /\ LET c == Head(writes) IN
       /\ tp[req_tp[c]] = "WORKING"
       /\ c \in Reqs /\ id[c] # 0 => c \in wire
       /\ writes' = Tail(writes)
       /\ wire' = wire \ {c}
       /\ requests' = IF c \in Reqs THEN pc_map_del(requests, id[c])
                      ELSE requests
       /\ Tell({c}, <<"err">>)
    /\ UNCHANGED <<conn, caller, async, fault>>

\* The socket is closed: libuv calls back the writes it still has; the state
\* of the transport says -1, and the map is left alone.
WriteCancelled ==
    /\ InLoop /\ writes # <<>>
    /\ tp[req_tp[Head(writes)]] = "CLOSED"
    /\ writes' = Tail(writes)
    /\ Tell({Head(writes)}, <<"err">>)
    /\ UNCHANGED <<conn, caller, async, wire, requests, fault>>

\* pc__tcp_close_cb frees the transport after that.
TransportFreed(c) ==
    /\ InLoop /\ writes = <<>>
    /\ tp[c] = "CLOSED"
    /\ tp' = [tp EXCEPT ![c] = "freed"]
    /\ UNCHANGED <<enable_reconnect, state, stops, transport, feeding, worker,
                   caller, net, requests, told, fault>>
-----------------------------------------------------------------------------
(* pc_client_stop, as far as requests are concerned.                       *)

\* pc_transport_destroy, if there is a transport, from outside pc__pkg_cb or
\* inside, with the rest of a chunk still to come.
DestroyTransport(infeed) ==
    /\ tp' = IF transport = NULL THEN tp
             ELSE [tp EXCEPT ![transport] = "CLOSED"]
    /\ transport' = NULL
    /\ feeding' = infeed
    /\ wire' = IF infeed THEN wire ELSE {}

\* pc__client_reconnect_reset that forgets the map.
ResetKeepsRequests(infeed) ==
    /\ enable_reconnect /\ state # "DISCONNECTING"
    /\ DestroyTransport(infeed)
    /\ reconnecting' = 1
    /\ state' = "INITED"
    /\ UNCHANGED <<handles, requests, told>>

\* pc__client_reconnect_reset that tells the requests and does not empty the
\* map.
ResetTellsOnly(infeed) ==
    /\ enable_reconnect /\ state # "DISCONNECTING"
    /\ DestroyTransport(infeed)
    /\ reconnecting' = 1
    /\ state' = "INITED"
    /\ Tell(Values(requests), <<"err">>)
    /\ UNCHANGED <<handles, requests>>

\* pc__client_reconnect_reset: the transport is destroyed, then every request
\* in the map is told -1, before its own write is called back.
Reset(infeed) ==
    /\ enable_reconnect /\ state # "DISCONNECTING"
    /\ DestroyTransport(infeed)
    /\ reconnecting' = 1
    /\ state' = "INITED"
    /\ Tell(Values(requests), <<"err">>)
    /\ requests' = pc_map_init
    /\ UNCHANGED handles

\* The teardown leaves the map to pc_client_destroy.
Close(infeed) ==
    /\ ~enable_reconnect \/ state = "DISCONNECTING"
    /\ state # "CLOSED"
    /\ DestroyTransport(infeed)
    /\ state' = "CLOSED"
    /\ handles' = "closed"
    /\ UNCHANGED <<reconnecting, requests, told>>

\* The early returns: reconnecting already, or closed.
StopIgnored ==
    IF enable_reconnect /\ state # "DISCONNECTING"
    THEN reconnecting = 1 ELSE state = "CLOSED"

\* pc_client_stop called in pc__pkg_cb, for a package that is refused or by a
\* callback of the user; those of the rest of a chunk find a client that has
\* been stopped already.  One that was closed by a disconnect is not
\* DISCONNECTING any more: with reconnect enabled it is reset and INITED again.
StopInFeed ==
    \/ reconnecting = 0 /\ Reset(TRUE)
    \/ Close(TRUE)

\* The connection is lost or the application's disconnect is handled: the end
\* of file and the failed connect request clear client->reconnecting first.
ConnectionLost ==
    /\ InLoop /\ transport # NULL
    /\ Reset(FALSE) \/ Close(FALSE)
    /\ UNCHANGED <<enable_reconnect, worker, caller, async, writes, fault>>

\* A package is refused, or the user's callback stops the client.
PackageRefused ==
    /\ Alive /\ worker = "loop"
    /\ feeding \/ (transport # NULL /\ tp[transport] = "WORKING")
    /\ StopInFeed
    /\ UNCHANGED <<enable_reconnect, worker, caller, async, writes, fault>>

\* pc_client_disconnect while there is no connection: the reconnect ends.
CloseUnconnected ==
    /\ InLoop /\ transport = NULL /\ state = "DISCONNECTING"
    /\ state' = "CLOSED"
    /\ handles' = "closed"
    /\ UNCHANGED <<enable_reconnect, reconnecting, transport, tp, feeding,
                   worker, caller, net, requests, told, fault>>

\* pc_client_disconnect, in the application's thread.  (Once the handles are
\* closed there is no close_async to send: PomeloClient.)
Disconnect ==
    /\ Alive /\ handles = "open" /\ state # "DISCONNECTING"
    /\ state' = "DISCONNECTING"
    /\ UNCHANGED <<enable_reconnect, stops, transport, tp, feeding, worker,
                   caller, net, requests, told, fault>>

\* The next connection is attached, and WORKING once it is acknowledged.  The
\* reconnect timer fires a second later at the earliest: libuv has closed the
\* old socket by then, and a loop whose handles are closed has ended.
Reconnect(c) ==
    /\ InLoop /\ state = "INITED" /\ transport = NULL /\ handles = "open"
    /\ tp[c] = "none" /\ \A d \in Conns : d < c => tp[d] = "freed"
    /\ transport' = c
    /\ tp' = [tp EXCEPT ![c] = "WORKING"]
    /\ state' = "CONNECTED"
    /\ UNCHANGED <<enable_reconnect, stops, feeding, worker, caller, net,
                   requests, told, fault>>

HandshakeDone ==
    /\ InLoop /\ state = "CONNECTED"
    /\ state' = "WORKING"
    /\ reconnecting' = 0
    /\ UNCHANGED <<enable_reconnect, handles, transport, tp, feeding, worker,
                   caller, net, requests, told, fault>>
-----------------------------------------------------------------------------
(* pc__data: a response to request r arrives.                              *)

Receiving ==
    /\ Alive /\ worker = "loop"
    /\ feeding \/ (transport # NULL /\ tp[transport] = "WORKING")

\* The id is found: the request leaves the map and gets the answer.
Response(r) ==
    /\ Receiving /\ r \in wire
    /\ Found(requests, id[r])
    /\ wire' = wire \ {r}
    /\ requests' = pc_map_del(requests, id[r])
    /\ Tell({pc_map_get(requests, id[r])}, <<"resp", r>>)
    /\ UNCHANGED <<conn, caller, async, writes, fault>>

\* The id is not found: the message cannot be parsed and pc__pkg_cb calls
\* pc_client_stop, which may return at once.
ResponseUnknown(r) ==
    /\ Receiving /\ r \in wire
    /\ ~Found(requests, id[r])
    /\ \/ StopInFeed
       \/ /\ StopIgnored
          /\ wire' = wire \ {r}
          /\ UNCHANGED <<state, stops, transport, tp, feeding, requests, told>>
    /\ UNCHANGED <<enable_reconnect, worker, caller, async, writes, fault>>

\* The chunk ends; no more of this connection is read.
FeedReturns ==
    /\ Alive /\ feeding
    /\ feeding' = FALSE
    /\ wire' = {}
    /\ UNCHANGED <<enable_reconnect, state, stops, transport, tp, worker,
                   caller, async, writes, requests, told, fault>>
-----------------------------------------------------------------------------
\* uv_run returns when no handle is left, and an async handle is one; the
\* worker makes sure of the state.
LoopExit ==
    /\ InLoop /\ handles = "closed"
    /\ async = {} /\ writes = <<>>
    /\ \A c \in Conns : tp[c] \in {"none", "freed"}
    /\ worker' = "done"
    /\ state' = "CLOSED"
    /\ UNCHANGED <<enable_reconnect, stops, transport, tp, feeding, caller,
                   net, requests, told, fault>>

\* The requests are not cleared when the client is.
DestroyForgets ==
    /\ Alive
    /\ worker = "done" \/ state \in {"INITED", "CLOSED"}
    /\ \A c \in Calls : pc[c] \in {"none", "ok", "error"}
    /\ worker' = IF worker = "done" THEN "freed" ELSE "cut"
    /\ UNCHANGED <<enable_reconnect, state, stops, transport, tp, feeding,
                   caller, net, requests, told, fault>>

\* pc_client_destroy, with no call in progress: pc__client_clear.  A client
\* that is INITED or CLOSED is not joined first, whatever its worker does; any
\* other one is disconnected and joined.
Destroy ==
    /\ Alive
    /\ worker = "done" \/ state \in {"INITED", "CLOSED"}
    /\ \A c \in Calls : pc[c] \in {"none", "ok", "error"}
    /\ worker' = IF worker = "done" THEN "freed" ELSE "cut"
    /\ Tell(Values(requests), <<"err">>)
    /\ requests' = pc_map_init
    /\ UNCHANGED <<enable_reconnect, state, stops, transport, tp, feeding,
                   caller, net, fault>>
-----------------------------------------------------------------------------
CallerStep ==
    \/ \E c \in Calls : Begin(c) \/ LoadTransport(c) \/ SendAsync(c)
    \/ \E r \in Reqs : StoreCounter(r)

\* What the loop has to do by itself.
WorkerStep ==
    \/ \E c \in Calls : AsyncFreed(c) \/ AsyncClosed(c) \/ AsyncError(c)
                        \/ WriteNotify(c)
    \/ \E r \in Reqs : WriteRequest(r)
    \/ WriteDone \/ WriteFailed \/ WriteCancelled
    \/ \E c \in Conns : TransportFreed(c)
    \/ FeedReturns
    \/ CloseUnconnected
    \/ LoopExit

\* What the peer, the network, the timers and the application may do.
Environment ==
    \/ ConnectionLost
    \/ PackageRefused
    \/ Disconnect
    \/ \E c \in Conns : Reconnect(c)
    \/ HandshakeDone
    \/ \E r \in Reqs : Response(r) \/ ResponseUnknown(r)
    \/ Destroy

Next == CallerStep \/ WorkerStep \/ Environment

Spec == Init /\ [][Next]_vars

\* The worker's loop runs what is ready.
FairSpec == Spec /\ WF_vars(WorkerStep)
-----------------------------------------------------------------------------
(* Properties.                                                             *)

\* No other call that has got this far has the id of r.
UniqueId(r) ==
    \A s \in Reqs \ {r} : pc[s] \in {"load", "send", "ok"} => id[s] # id[r]

\* The calls whose message libuv has accepted.
Written == {c \in Calls : pc[c] = "ok" /\ c \notin async}

\* pc__process_response: an answer is given to the request it answers, as long
\* as the unprotected counter has not given its id to another one.
ResponseIsOwn ==
    \A r \in Reqs : UniqueId(r) =>
        \A s \in Reqs \ {r} : \A i \in DOMAIN told[s] : told[s][i] # <<"resp", r>>

\* pc__on_notify, pc__notify: a notify's callback is called at most once.
NotifyToldOnce == \A n \in Notes : Len(told[n]) <= 1

\* A request that has been told an error, by a failed write, a reconnect or a
\* teardown, is never given an answer afterwards.
ErrorIsFinal ==
    \A r \in Reqs : \A i, j \in DOMAIN told[r] :
        i < j /\ told[r][i] = <<"err">> => told[r][j] = <<"err">>

\* pc__request: status 0 without an answer is only ever told when the
\* transport was closed before the worker came to the call.
OkWithoutAnswer ==
    \A r \in Reqs : (\E i \in DOMAIN told[r] : told[r][i] = <<"ok">>)
        => /\ tp[req_tp[r]] \in {"CLOSED", "freed"}
           /\ Len(told[r]) = 1

\* "request status. 0 for ok and -1 for error" (include/pomelo.h:132): status 0
\* comes with the answer.
OkIsAnswered ==
    \A r \in Reqs : \A i \in DOMAIN told[r] : told[r][i] # <<"ok">>

\* On a live connection the map holds exactly the requests that have been
\* written on it and not been told: no response is taken for an unknown one,
\* and none can be called back again.
MapIsWaiting ==
    fault = "none" /\ transport # NULL /\ (\A r \in Reqs : UniqueId(r)) =>
        /\ \A r \in Values(requests) : told[r] = <<>>
        /\ \A r \in Written \cap Reqs :
              told[r] = <<>> => /\ Found(requests, id[r])
                                /\ pc_map_get(requests, id[r]) = r

\* Every call that returned 0, and whose id is its own, has had its callback.
AllTold ==
    \A c \in Calls :
        pc[c] = "ok" /\ (c \in Reqs => UniqueId(c)) => told[c] # <<>>

\* pc__client_clear: when pc_client_destroy frees a client whose worker has
\* ended, no call is forgotten.
NoneForgotten == worker = "freed" => AllTold

\* "The message object and request object must keep until the pc_request_cb
\* invoked" (include/pomelo.h:472): however pc_client_destroy is called, the
\* callback of every accepted call has been invoked when it returns.
NoneCutOff == worker \in {"freed", "cut"} => AllTold

\* A reconnecting client: a call whose connection is lost is told, by the
\* reset, by its cancelled write or by its async handle, unless the client is
\* destroyed under it (NoneCutOff).
LostCallIsTold ==
    \A c \in Calls :
        (/\ pc[c] = "ok" /\ state = "INITED" /\ req_tp[c] # transport
         /\ c \in Reqs => UniqueId(c))
            ~> (told[c] # <<>> \/ ~Alive)

\* "The message object and request object must keep until the pc_request_cb
\* invoked" (include/pomelo.h): a request's callback is called at most once.
RequestToldOnce == \A r \in Reqs : Len(told[r]) <= 1
=============================================================================
