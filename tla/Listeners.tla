------------------------------ MODULE Listeners ------------------------------
(***************************************************************************)
(* Event listeners (src/src/client.c, listener.c, include/pomelo-private/  *)
(* ngx-queue.h): a map from events to queues of listeners, all under       *)
(* listener_mutex, which pc_emit_event keeps while the callbacks run.      *)
(*                                                                         *)
(* The queues are modelled with their next and prev pointers, because      *)
(* pc_remove_listener unlinks a node twice (pc_listener_destroy unlinks it *)
(* again) and frees the queue's head when it is empty.  add and remove are *)
(* one step once the mutex is held; emit takes a step per callback.        *)
(***************************************************************************)
EXTENDS PcMap, FiniteSets

CONSTANTS
    Threads,             \* the callers: the worker and the application
    Cbs,                 \* callback functions
    Heads,               \* blocks malloc may give for a queue head (bound)
    Items                \* blocks malloc may give for a listener (bound)

NULL == 0

\* A callback is a function pointer of some kind; a thread is not NULL; memory
\* is finite.
ASSUME ListenersAssumption ==
    /\ Heads \cup Items \subseteq Nat \ {NULL}
    /\ IsFiniteSet(Heads \cup Items)
    /\ Heads \cap Items = {}
    /\ Cbs # {} /\ NULL \notin Threads

Events == Keys
Nodes  == Heads \cup Items
AnyCb  == CHOOSE c \in Cbs : TRUE

VARIABLES
    closed,              \* TRUE: client->state is CLOSED
    mutex,               \* the owner of listener_mutex, or NULL
    listeners,           \* client->listeners: event to queue head
    links,               \* next and prev of every node
    cb_of,               \* listener->cb
    used,                \* blocks allocated
    pc, op,              \* where each thread is, and the call it makes
    head, item,          \* the local variables of pc_emit_event
    freed                \* TRUE: pc__client_clear has run

vars == <<closed, mutex, listeners, links, cb_of, used, pc, op, head, item,
          freed>>

heap == <<listeners, links, cb_of, used>>

Ops == [kind : {"add", "remove"}, event : Events, cb : Cbs]
          \cup [kind : {"emit"}, event : Events]
NoOp == [kind |-> "none"]

\* Who is inside the critical section.
Inside == {t \in Threads : pc[t] \in {"add", "remove", "emit", "loop", "cb", "stuck"}}

\* At most one thread is between lock and unlock, and it owns the mutex.
TypeOK ==
    /\ closed \in BOOLEAN /\ freed \in BOOLEAN
    /\ \A b \in Buckets : \A i \in DOMAIN listeners[b] :
          listeners[b][i] \in Pair(Heads)
    /\ links \in [next : [Nodes -> Nodes], prev : [Nodes -> Nodes]]
    /\ cb_of \in [Items -> Cbs] /\ used \subseteq Nodes
    /\ \A t \in Threads : op[t] \in Ops \cup {NoOp}
    /\ head \in [Threads -> Heads \cup {NULL}]
    /\ item \in [Threads -> Nodes \cup {NULL}]
    /\ Inside = IF mutex = NULL THEN {} ELSE {mutex}

Init ==
    /\ closed = FALSE /\ mutex = NULL /\ freed = FALSE
    /\ listeners = pc_map_init
    /\ links = [next |-> [n \in Nodes |-> n], prev |-> [n \in Nodes |-> n]]
    /\ cb_of = [n \in Items |-> AnyCb]
    /\ used = {}
    /\ pc = [t \in Threads |-> "idle"]
    /\ op = [t \in Threads |-> NoOp]
    /\ head = [t \in Threads |-> NULL] /\ item = [t \in Threads |-> NULL]
-----------------------------------------------------------------------------
(* ngx-queue.h.                                                            *)

ngx_queue_init(q, x) ==
    [next |-> [q.next EXCEPT ![x] = x], prev |-> [q.prev EXCEPT ![x] = x]]

ngx_queue_empty(q, h) == q.prev[h] = h

\* The node goes to the front.
ngx_queue_insert_head(q, h, x) ==
    [next |-> [q.next EXCEPT ![x] = q.next[h], ![h] = x],
     prev |-> [q.prev EXCEPT ![q.next[h]] = x, ![x] = h]]

ngx_queue_insert_tail(q, h, x) ==
    [next |-> [q.next EXCEPT ![q.prev[h]] = x, ![x] = h],
     prev |-> [q.prev EXCEPT ![x] = q.prev[h], ![h] = x]]

\* Only one of the two neighbours is told.
UnlinkForward(q, x) ==
    [next |-> [q.next EXCEPT ![q.prev[x]] = q.next[x]], prev |-> q.prev]

\* The node keeps its own pointers.
ngx_queue_remove(q, x) ==
    [next |-> [q.next EXCEPT ![q.prev[x]] = q.next[x]],
     prev |-> [q.prev EXCEPT ![q.next[x]] = q.prev[x]]]

\* ngx_queue_foreach: the nodes it visits, by following next to the head.
Chain(q, h) ==
    LET from[p \in Seq(Nodes)] ==
            LET n == q.next[IF p = <<>> THEN h ELSE p[Len(p)]]
            IN  IF n = h \/ Len(p) = Cardinality(Nodes) THEN p
                ELSE from[Append(p, n)]
    IN  from[<<>>]

\* free of the blocks in S, after the pointer updates q: what a block held is
\* forgotten.
Free(q, S) ==
    /\ links' = [next |-> [n \in Nodes |-> IF n \in S THEN n ELSE q.next[n]],
                 prev |-> [n \in Nodes |-> IF n \in S THEN n ELSE q.prev[n]]]
    /\ cb_of' = [n \in Items |-> IF n \in S THEN AnyCb ELSE cb_of[n]]
    /\ used' = used \ S
-----------------------------------------------------------------------------
\* uv_mutex_unlock and the return to the caller.
Unlock(t) ==
    /\ mutex' = NULL
    /\ pc' = [pc EXCEPT ![t] = "idle"]
    /\ op' = [op EXCEPT ![t] = NoOp]
    /\ head' = [head EXCEPT ![t] = NULL]
    /\ item' = [item EXCEPT ![t] = NULL]

\* pc_add_listener looks at the state before it takes the mutex.
CallAdd(t) ==
    /\ pc[t] = "idle" /\ ~freed /\ ~closed
    /\ pc' = [pc EXCEPT ![t] = "lock_add"]
    /\ UNCHANGED <<closed, mutex, heap, op, head, item, freed>>

\* The mutex is not waited for.
LockAnyway(t, o) ==
    /\ pc[t] = (IF o.kind = "add" THEN "lock_add" ELSE "idle") /\ ~freed
    /\ mutex' = t
    /\ pc' = [pc EXCEPT ![t] = o.kind]
    /\ op' = [op EXCEPT ![t] = o]
    /\ UNCHANGED <<closed, heap, head, item, freed>>

\* uv_mutex_lock returns.  The other calls look at nothing before it does.
Lock(t, o) ==
    /\ pc[t] = (IF o.kind = "add" THEN "lock_add" ELSE "idle") /\ ~freed
    /\ mutex = NULL
    /\ mutex' = t
    /\ pc' = [pc EXCEPT ![t] = o.kind]
    /\ op' = [op EXCEPT ![t] = o]
    /\ UNCHANGED <<closed, heap, head, item, freed>>

\* malloc gives a free block; which one does not matter.
malloc(S) == CHOOSE x \in S \ used : \A y \in S \ used : x <= y

\* pc_add_listener: the queue of the event is found, or made and set.
AddListener(t) ==
    /\ pc[t] = "add" /\ Items \ used # {}
    /\ LET e == op[t].event
           l == malloc(Items)
       IN  /\ \/ /\ Found(listeners, e)
                 /\ links' = ngx_queue_insert_tail(ngx_queue_init(links, l),
                                 pc_map_get(listeners, e), l)
                 /\ used' = used \cup {l}
                 /\ UNCHANGED listeners
              \/ /\ ~Found(listeners, e) /\ Heads \ used # {}
                 /\ LET h == malloc(Heads) IN
                    /\ links' = ngx_queue_insert_tail(ngx_queue_init(
                                    ngx_queue_init(links, l), h), h, l)
                    /\ listeners' = pc_map_set(listeners, e, h)
                    /\ used' = used \cup {l, h}
           /\ cb_of' = [cb_of EXCEPT ![l] = op[t].cb]
    /\ Unlock(t)
    /\ UNCHANGED <<closed, freed>>

\* malloc fails, for the listener or for the head: nothing is kept.
AddFails(t) ==
    /\ pc[t] = "add"
    /\ Unlock(t)
    /\ UNCHANGED <<closed, heap, freed>>

\* pc_listener_destroy: the node is unlinked a second time and freed.
pc_listener_destroy(q, l) == ngx_queue_remove(q, l)

\* The return without a queue leaves the mutex locked.
RemoveNothingLocked(t) ==
    /\ pc[t] = "remove" /\ ~Found(listeners, op[t].event)
    /\ pc' = [pc EXCEPT ![t] = "idle"]
    /\ op' = [op EXCEPT ![t] = NoOp]
    /\ UNCHANGED <<closed, mutex, heap, head, item, freed>>

\* pc_remove_listener without a queue for the event.
RemoveNothing(t) ==
    /\ pc[t] = "remove" /\ ~Found(listeners, op[t].event)
    /\ Unlock(t)
    /\ UNCHANGED <<closed, heap, freed>>

\* The first listener of the event with this callback, as a set.  (Here and
\* below a bound variable over a singleton names a value.)
FirstHit(o) ==
    UNION {LET hits == {i \in DOMAIN c : cb_of[c[i]] = o.cb}
           IN  {c[i] : i \in {i \in hits : \A j \in hits : i <= j}} :
           c \in {Chain(links, pc_map_get(listeners, o.event))}}

\* The links once the listener in l, if any, is unlinked and destroyed.
Unlinked(l) ==
    IF l = {} THEN links
    ELSE LET x == CHOOSE x \in l : TRUE
         IN  pc_listener_destroy(ngx_queue_remove(links, x), x)

\* The head of a queue that has become empty is not freed.
RemoveKeepsHead(t) ==
    /\ pc[t] = "remove" /\ Found(listeners, op[t].event)
    /\ \E h \in {pc_map_get(listeners, op[t].event)}, l \in {FirstHit(op[t])} :
       \E q \in {Unlinked(l)} :
          /\ Free(q, l)
          /\ listeners' = IF ngx_queue_empty(q, h)
                          THEN pc_map_del(listeners, op[t].event) ELSE listeners
    /\ Unlock(t)
    /\ UNCHANGED <<closed, freed>>

\* pc_remove_listener: the first listener with this callback is unlinked and
\* destroyed; an empty queue leaves the map and is freed.
RemoveListener(t) ==
    /\ pc[t] = "remove" /\ Found(listeners, op[t].event)
    /\ \E h \in {pc_map_get(listeners, op[t].event)}, l \in {FirstHit(op[t])} :
       \E q \in {Unlinked(l)} :
          \/ /\ ~ngx_queue_empty(q, h)
             /\ Free(q, l)
             /\ UNCHANGED listeners
          \/ /\ ngx_queue_empty(q, h)
             /\ Free(q, l \cup {h})
             /\ listeners' = pc_map_del(listeners, op[t].event)
    /\ Unlock(t)
    /\ UNCHANGED <<closed, freed>>

\* pc_emit_event without a queue.
EmitNothing(t) ==
    /\ pc[t] = "emit" /\ ~Found(listeners, op[t].event)
    /\ Unlock(t)
    /\ UNCHANGED <<closed, heap, freed>>

EmitStart(t) ==
    /\ pc[t] = "emit" /\ Found(listeners, op[t].event)
    /\ LET h == pc_map_get(listeners, op[t].event) IN
       /\ head' = [head EXCEPT ![t] = h]
       /\ item' = [item EXCEPT ![t] = links.next[h]]
    /\ pc' = [pc EXCEPT ![t] = "loop"]
    /\ UNCHANGED <<closed, mutex, heap, op, freed>>

\* listener->cb(client, event, data) is called, the mutex held.
EmitCall(t) ==
    /\ pc[t] = "loop" /\ item[t] # head[t] /\ ~ngx_queue_empty(links, head[t])
    /\ pc' = [pc EXCEPT ![t] = "cb"]
    /\ UNCHANGED <<closed, mutex, heap, op, head, item, freed>>

\* The callback returns ...
EmitNext(t) ==
    /\ pc[t] = "cb"
    /\ item' = [item EXCEPT ![t] = links.next[@]]
    /\ pc' = [pc EXCEPT ![t] = "loop"]
    /\ UNCHANGED <<closed, mutex, heap, op, head, freed>>

\* ... or adds, removes or emits, and waits for the mutex of its own thread.
CallbackReenters(t) ==
    /\ pc[t] = "cb"
    /\ pc' = [pc EXCEPT ![t] = "stuck"]
    /\ UNCHANGED <<closed, mutex, heap, op, head, item, freed>>

EmitDone(t) ==
    /\ pc[t] = "loop"
    /\ item[t] = head[t] \/ ngx_queue_empty(links, head[t])
    /\ Unlock(t)
    /\ UNCHANGED <<closed, heap, freed>>

\* The client is closed by the worker.
Close ==
    /\ ~closed
    /\ closed' = TRUE
    /\ UNCHANGED <<mutex, heap, pc, op, head, item, freed>>

\* pc__release_listeners frees the listeners of one queue, then its head.
Released(h) == {h} \cup {Chain(links, h)[i] : i \in DOMAIN Chain(links, h)}

\* pc__client_clear, with no call in progress: pc_map_destroy(listeners).
Destroy ==
    /\ closed /\ ~freed
    /\ \A t \in Threads : pc[t] = "idle"
    /\ Free(links, UNION {Released(h) : h \in Values(listeners)})
    /\ listeners' = pc_map_init
    /\ freed' = TRUE
    /\ UNCHANGED <<closed, mutex, pc, op, head, item>>

\* A call that has begun goes on by itself, as far as the mutex lets it.
ThreadStep(t) ==
    \/ AddListener(t) \/ AddFails(t)
    \/ RemoveNothing(t) \/ RemoveListener(t)
    \/ EmitNothing(t) \/ EmitStart(t) \/ EmitCall(t) \/ EmitDone(t)
    \/ EmitNext(t) \/ CallbackReenters(t)

Next ==
    \/ \E t \in Threads :
          \/ CallAdd(t)
          \/ \E o \in Ops : Lock(t, o)
          \/ ThreadStep(t)
    \/ Close
    \/ Destroy

Spec == Init /\ [][Next]_vars

\* A thread that has the mutex runs on, and so do callbacks.
FairSpec == Spec /\ \A t \in Threads : WF_vars(ThreadStep(t))
-----------------------------------------------------------------------------
(* Properties.                                                             *)

\* ngx-queue.h, pc_remove_listener: every queue in the map is a ring of
\* allocated blocks, linked the same way forwards and backwards, of its own
\* head; no block is in two queues, and a queue in the map is not empty.
QueuesWellFormed ==
    /\ \A h \in Values(listeners) :
          /\ ~ngx_queue_empty(links, h)
          /\ Released(h) \subseteq used
          /\ \A n \in Released(h) : links.prev[links.next[n]] = n
    /\ \A h, k \in Values(listeners) : h # k => Released(h) \cap Released(k) = {}

\* Every block is reachable from the map, so destroying the client frees all.
NothingLeaked ==
    used = UNION {Released(h) : h \in Values(listeners)}

\* The callbacks an event has, and the ones that thread t still has to call.
Registered ==
    [e \in Events |->
        IF Found(listeners, e)
        THEN LET c == Chain(links, pc_map_get(listeners, e))
             IN  [i \in DOMAIN c |-> cb_of[c[i]]]
        ELSE <<>>]

Owed(t) ==
    IF head[t] = NULL \/ item[t] = head[t] THEN <<>>
    ELSE LET c == Chain(links, head[t])
             at == CHOOSE i \in DOMAIN c : c[i] = item[t]
         IN  [i \in 1 .. Len(c) - at + 1 |-> cb_of[c[at + i - 1]]]

Registry ==
    INSTANCE EventRegistry
    WITH registered <- Registered, todo <- [t \in Threads |-> Owed(t)]

\* The mutex, the map and the pointers together implement the registry: the
\* listeners of an event are called once each, in the order they were added,
\* and neither an add nor a remove gets in between.
ImplementsRegistry == Registry!RegSpec

\* client.c: every path through add, remove and emit unlocks listener_mutex,
\* unless a callback comes back to it.
MutexReleased ==
    \A t \in Threads :
        (mutex = t) ~> (mutex # t \/ \E u \in Threads : pc[u] = "stuck")
=============================================================================
