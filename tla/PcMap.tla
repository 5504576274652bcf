-------------------------------- MODULE PcMap --------------------------------
(***************************************************************************)
(* The hash map of src/src/map.c: an array of buckets, each an ngx_queue   *)
(* of pairs.  client->requests and client->listeners are such maps.  A map *)
(* is a function from bucket numbers to sequences of pairs; the operators  *)
(* give what each call returns and leaves behind.                          *)
(*                                                                         *)
(* Hash[key] stands for pc__hash, the sum of the key's characters: all the *)
(* code needs of it is that it is a function of the key, and all that      *)
(* matters is which keys share a bucket.                                   *)
(***************************************************************************)
EXTENDS Naturals, Sequences

CONSTANTS
    Keys,                \* the strings used as keys
    Hash,                \* pc__hash of every key
    Capacity             \* map->capacity

ASSUME MapAssumption ==
    /\ Hash \in [Keys -> Nat]
    /\ Capacity \in Nat \ {0}

Buckets == 0 .. Capacity - 1
Pair(V) == [key : Keys, value : V]
Map(V)  == [Buckets -> Seq(Pair(V))]

\* Positions of a key in a queue of pairs; at most one, if sets replace.
Places(q, key) == {i \in DOMAIN q : q[i].key = key}
FirstPlace(q, key) ==
    CHOOSE i \in Places(q, key) : \A j \in Places(q, key) : i <= j

\* ngx_queue_remove of the i-th node.
RemoveNode(q, i) == [j \in 1 .. Len(q) - 1 |-> IF j < i THEN q[j] ELSE q[j + 1]]

bucket(key) == Hash[key] % Capacity
Found(map, key) == Places(map[bucket(key)], key) # {}

\* pc_map_init: every bucket is an empty queue.
pc_map_init == [b \in Buckets |-> <<>>]

\* The keys are not compared: the first pair of the bucket is taken.
FirstOfBucket(map, key) == map[bucket(key)][1].value

\* The value of the first pair with this key; the caller tests Found, which is
\* the test of the result against NULL.
pc_map_get(map, key) ==
    LET q == map[bucket(key)] IN q[FirstPlace(q, key)].value

\* pc_map_del looks for the key and leaves the map alone if it is not there.
pc_map_del(map, key) ==
    IF Found(map, key)
    THEN [map EXCEPT ![bucket(key)] = RemoveNode(@, FirstPlace(@, key))]
    ELSE map

\* The loop of pc_map_set takes the old pair out of the queue and links it to
\* itself, so the step to the next node never leaves it: the loop ends only if
\* the queue has become empty.
pc_map_set_hangs(map, key) ==
    Found(map, key) /\ Len(map[bucket(key)]) > 1

\* pc_map_set when it returns; the value it replaces is released.
pc_map_set(map, key, value) ==
    [pc_map_del(map, key) EXCEPT ![bucket(key)] =
        Append(@, [key |-> key, value |-> value])]

\* The values that pc_map_clear hands to release_value.
Values(map) == UNION {{map[b][i].value : i \in DOMAIN map[b]} : b \in Buckets}
=============================================================================
