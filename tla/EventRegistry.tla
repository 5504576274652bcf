--------------------------- MODULE EventRegistry ---------------------------
(***************************************************************************)
(* What pc_add_listener, pc_remove_listener and pc_emit_event promise: a   *)
(* sequence of callbacks per event; an emitted event is handed to exactly  *)
(* the callbacks registered at that moment, in the order of registration,  *)
(* and the registry does not change under it.                              *)
(***************************************************************************)
EXTENDS Naturals, Sequences

CONSTANTS Threads, Events, Cbs

VARIABLES
    registered,          \* per event: its callbacks, oldest first
    todo                 \* per thread: the callbacks its event still owes

regVars == <<registered, todo>>

\* No event is being handed out.
Quiet == \A t \in Threads : todo[t] = <<>>

\* The position of the oldest registration of a callback.
Oldest(q, cb) ==
    CHOOSE i \in DOMAIN q : q[i] = cb /\ \A j \in DOMAIN q : q[j] = cb => i <= j

Without(q, i) == [j \in 1 .. Len(q) - 1 |-> IF j < i THEN q[j] ELSE q[j + 1]]

RegInit ==
    /\ registered = [e \in Events |-> <<>>]
    /\ todo = [t \in Threads |-> <<>>]

RegAdd(e, cb) ==
    /\ Quiet
    /\ registered' = [registered EXCEPT ![e] = Append(@, cb)]
    /\ UNCHANGED todo

RegRemove(e, cb) ==
    /\ Quiet
    /\ \E i \in DOMAIN registered[e] : registered[e][i] = cb
    /\ registered' = [registered EXCEPT ![e] = Without(@, Oldest(@, cb))]
    /\ UNCHANGED todo

RegEmit(t, e) ==
    /\ Quiet
    /\ todo' = [todo EXCEPT ![t] = registered[e]]
    /\ UNCHANGED registered

RegCall(t) ==
    /\ todo[t] # <<>>
    /\ todo' = [todo EXCEPT ![t] = Tail(@)]
    /\ UNCHANGED registered

\* The client is destroyed.
RegClear ==
    /\ Quiet
    /\ registered' = [e \in Events |-> <<>>]
    /\ UNCHANGED todo

RegNext ==
    \/ \E e \in Events, cb \in Cbs : RegAdd(e, cb) \/ RegRemove(e, cb)
    \/ \E t \in Threads, e \in Events : RegEmit(t, e)
    \/ \E t \in Threads : RegCall(t)
    \/ RegClear

RegSpec == RegInit /\ [][RegNext]_regVars
=============================================================================
