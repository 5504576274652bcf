----------------------------- MODULE PcMapProofs -----------------------------
(***************************************************************************)
(* What the operations of map.c promise, for every set of keys, every hash *)
(* function and every capacity: a map whose pairs are in the bucket of     *)
(* their key, one pair per key, behaves as a partial function, and every   *)
(* operation that returns leaves such a map behind.                        *)
(***************************************************************************)
EXTENDS PcMap, TLAPS

\* The map has the value v under the key k.
Has(map, k, v) ==
    \E i \in DOMAIN map[bucket(k)] :
        map[bucket(k)][i].key = k /\ map[bucket(k)][i].value = v

\* Every pair is in the bucket of its key, and no key has two pairs.
WellFormed(map, V) ==
    /\ map \in Map(V)
    /\ \A b \in Buckets : \A i \in DOMAIN map[b] : bucket(map[b][i].key) = b
    /\ \A b \in Buckets : \A i, j \in DOMAIN map[b] :
          map[b][i].key = map[b][j].key => i = j
-----------------------------------------------------------------------------
\* The bucket of a key is one of the array's.
LEMMA BucketOfKey ==
    ASSUME NEW k \in Keys
    PROVE  bucket(k) \in Buckets
  <1>1. Hash[k] \in Nat /\ Capacity \in Nat /\ Capacity > 0
    BY MapAssumption
  <1>2. Hash[k] % Capacity \in 0 .. Capacity - 1
    BY <1>1, Z3
  <1>3. QED
    BY <1>2 DEF bucket, Buckets

\* A queue of a map: its nodes are pairs.
LEMMA QueueOfMap ==
    ASSUME NEW V, NEW map \in Map(V), NEW b \in Buckets
    PROVE  /\ map[b] \in Seq(Pair(V))
           /\ DOMAIN map[b] = 1 .. Len(map[b]) /\ Len(map[b]) \in Nat
           /\ \A i \in DOMAIN map[b] : map[b][i] \in Pair(V)
                 /\ map[b][i].key \in Keys /\ map[b][i].value \in V
  <1>1. map[b] \in Seq(Pair(V))
    BY DEF Map
  <1>2. \A i \in DOMAIN map[b] : map[b][i] \in Pair(V)
    BY <1>1
  <1>3. \A i \in DOMAIN map[b] :
           map[b][i].key \in Keys /\ map[b][i].value \in V
    BY <1>2 DEF Pair
  <1>4. QED
    BY <1>1, <1>2, <1>3

\* pc_map_get finds a key exactly when the map has a value under it.
LEMMA FoundIsHas ==
    ASSUME NEW map, NEW k
    PROVE  Found(map, k) <=> \E v : Has(map, k, v)
  BY DEF Found, Places, Has

\* One key, one value.
LEMMA HasOne ==
    ASSUME NEW V, NEW map, WellFormed(map, V), NEW k \in Keys,
           NEW v, NEW w, Has(map, k, v), Has(map, k, w)
    PROVE  v = w
  <1>1. bucket(k) \in Buckets
    BY BucketOfKey
  <1>2. QED
    BY <1>1 DEF Has, WellFormed

\* What the map has under a key is a value.
LEMMA HasValue ==
    ASSUME NEW V, NEW map, WellFormed(map, V), NEW k \in Keys,
           NEW v, Has(map, k, v)
    PROVE  v \in V
  <1>1. bucket(k) \in Buckets
    BY BucketOfKey
  <1>2. QED
    BY <1>1, QueueOfMap DEF Has, WellFormed

\* pc_map_get returns the value the map has under the key.
LEMMA GetIsHas ==
    ASSUME NEW V, NEW map, WellFormed(map, V), NEW k \in Keys, Found(map, k)
    PROVE  /\ FirstPlace(map[bucket(k)], k) \in DOMAIN map[bucket(k)]
           /\ map[bucket(k)][FirstPlace(map[bucket(k)], k)].key = k
           /\ Has(map, k, pc_map_get(map, k))
           /\ pc_map_get(map, k) \in V
  <1> DEFINE q == map[bucket(k)]
             p == FirstPlace(q, k)
  <1>1. bucket(k) \in Buckets
    BY BucketOfKey
  <1>2. q \in Seq(Pair(V)) /\ DOMAIN q = 1 .. Len(q) /\ Len(q) \in Nat
    BY <1>1, QueueOfMap DEF WellFormed
  <1>3. PICK i \in Places(q, k) : TRUE
    BY DEF Found
  <1>4. \A j \in Places(q, k) : i <= j
    BY <1>1, <1>2, <1>3 DEF Places, WellFormed
  <1>5. p \in Places(q, k)
    BY <1>3, <1>4 DEF FirstPlace
  <1>6. p \in DOMAIN q /\ q[p].key = k
    BY <1>5 DEF Places
  <1>7. Has(map, k, q[p].value)
    BY <1>6 DEF Has
  <1>8. pc_map_get(map, k) = q[p].value
    BY DEF pc_map_get
  <1>9. q[p].value \in V
    BY <1>7, HasValue
  <1>10. QED
    BY <1>6, <1>7, <1>8, <1>9

\* What pc_map_clear releases is what the map has under some key.
LEMMA ValuesAreHad ==
    ASSUME NEW V, NEW map, WellFormed(map, V), NEW v
    PROVE  v \in Values(map) <=> \E k \in Keys : Has(map, k, v)
  <1>1. ASSUME v \in Values(map) PROVE \E k \in Keys : Has(map, k, v)
    <2>1. PICK b \in Buckets : \E i \in DOMAIN map[b] : v = map[b][i].value
      BY <1>1 DEF Values
    <2>2. PICK i \in DOMAIN map[b] : v = map[b][i].value
      BY <2>1
    <2>3. map[b][i].key \in Keys
      BY QueueOfMap DEF WellFormed
    <2>4. bucket(map[b][i].key) = b
      BY DEF WellFormed
    <2>5. Has(map, map[b][i].key, v)
      BY <2>2, <2>4 DEF Has
    <2>6. QED
      BY <2>3, <2>5
  <1>2. ASSUME NEW k \in Keys, Has(map, k, v) PROVE v \in Values(map)
    BY <1>2, BucketOfKey DEF Has, Values
  <1>3. QED
    BY <1>1, <1>2

\* pc_map_init makes a map that has nothing.
LEMMA InitHasNone ==
    ASSUME NEW V
    PROVE  /\ WellFormed(pc_map_init, V)
           /\ \A k \in Keys : \A v : ~Has(pc_map_init, k, v)
  <1>1. pc_map_init \in Map(V)
    BY DEF pc_map_init, Map
  <1>2. \A b \in Buckets : pc_map_init[b] = <<>> /\ DOMAIN pc_map_init[b] = {}
    BY DEF pc_map_init
  <1>3. QED
    BY <1>1, <1>2, BucketOfKey DEF WellFormed, Has

\* ngx_queue_remove: the other nodes stay, in their order.
LEMMA RemoveNodeIs ==
    ASSUME NEW S, NEW q \in Seq(S), NEW p \in DOMAIN q
    PROVE  LET t == RemoveNode(q, p)
           IN  /\ t \in Seq(S) /\ Len(t) = Len(q) - 1
               /\ DOMAIN t = 1 .. Len(q) - 1
               /\ \A j \in 1 .. Len(q) - 1 :
                     t[j] = q[IF j < p THEN j ELSE j + 1]
  <1> DEFINE t == RemoveNode(q, p)
  <1>1. Len(q) \in Nat /\ Len(q) >= 1 /\ p \in 1 .. Len(q)
    OBVIOUS
  <1>2. \A j \in 1 .. Len(q) - 1 : (IF j < p THEN q[j] ELSE q[j + 1]) \in S
    BY <1>1
  <1>3. t \in [1 .. Len(q) - 1 -> S]
    BY <1>2 DEF RemoveNode
  <1>4. Len(q) - 1 \in Nat
    BY <1>1
  <1>5. t \in Seq(S) /\ Len(t) = Len(q) - 1
    BY <1>3, <1>4
  <1>6. \A j \in 1 .. Len(q) - 1 : t[j] = q[IF j < p THEN j ELSE j + 1]
    BY DEF RemoveNode
  <1> HIDE DEF t
  <1>7. QED
    BY <1>3, <1>5, <1>6 DEF t

\* A pair of a queue is still there when the node of another key is removed,
\* and nothing else is.
LEMMA RemoveNodeKeeps ==
    ASSUME NEW V, NEW q \in Seq(Pair(V)), NEW p \in DOMAIN q,
           \A i, j \in DOMAIN q : q[i].key = q[j].key => i = j
    PROVE  LET t == RemoveNode(q, p)
           IN  /\ \A j \in DOMAIN t : \E i \in DOMAIN q : i # p /\ t[j] = q[i]
               /\ \A i \in DOMAIN q : i # p => \E j \in DOMAIN t : t[j] = q[i]
               /\ \A i, j \in DOMAIN t : t[i].key = t[j].key => i = j
  <1> DEFINE t == RemoveNode(q, p)
             from(j) == IF j < p THEN j ELSE j + 1
  <1>1. /\ Len(q) \in Nat /\ DOMAIN q = 1 .. Len(q) /\ p \in 1 .. Len(q)
    OBVIOUS
  <1>2. /\ DOMAIN t = 1 .. Len(q) - 1
        /\ \A j \in 1 .. Len(q) - 1 : t[j] = q[from(j)]
    BY RemoveNodeIs
  <1> HIDE DEF t
  <1>3. \A j \in 1 .. Len(q) - 1 : from(j) \in DOMAIN q /\ from(j) # p
    BY <1>1
  <1>4. \A i, j \in 1 .. Len(q) - 1 : from(i) = from(j) => i = j
    BY <1>1
  <1>5. \A i \in DOMAIN q : i # p => \E j \in 1 .. Len(q) - 1 : from(j) = i
    <2> SUFFICES ASSUME NEW i \in DOMAIN q, i # p
                 PROVE  \E j \in 1 .. Len(q) - 1 : from(j) = i
      OBVIOUS
    <2>1. CASE i < p
      BY <1>1, <2>1
    <2>2. CASE i > p
      <3>1. i - 1 \in 1 .. Len(q) - 1 /\ from(i - 1) = i
        BY <1>1, <2>2
      <3>2. QED
        BY <3>1
    <2>3. QED
      BY <1>1, <2>1, <2>2
  <1> HIDE DEF from
  <1>6. \A j \in DOMAIN t : \E i \in DOMAIN q : i # p /\ t[j] = q[i]
    BY <1>2, <1>3
  <1>7. \A i \in DOMAIN q : i # p => \E j \in DOMAIN t : t[j] = q[i]
    BY <1>2, <1>5
  <1>8. \A i, j \in DOMAIN t : t[i].key = t[j].key => i = j
    BY <1>2, <1>3, <1>4
  <1>9. QED
    BY <1>6, <1>7, <1>8 DEF t

\* pc_map_del: the map no longer has the key, and is otherwise the same.
LEMMA DelHas ==
    ASSUME NEW V, NEW map, WellFormed(map, V), NEW key \in Keys
    PROVE  /\ WellFormed(pc_map_del(map, key), V)
           /\ \A k \in Keys : \A v :
                 Has(pc_map_del(map, key), k, v) <=> k # key /\ Has(map, k, v)
  <1> DEFINE b == bucket(key)
             q == map[b]
             p == FirstPlace(q, key)
             t == RemoveNode(q, p)
             d == pc_map_del(map, key)
  <1>1. CASE ~Found(map, key)
    <2>1. d = map
      BY <1>1 DEF pc_map_del
    <2>2. \A v : ~Has(map, key, v)
      BY <1>1, FoundIsHas
    <2> HIDE DEF d
    <2>3. QED
      BY <2>1, <2>2 DEF d
  <1>2. CASE Found(map, key)
    <2>1. b \in Buckets /\ map \in Map(V) /\ q \in Seq(Pair(V))
      BY BucketOfKey, QueueOfMap DEF WellFormed
    <2>2. p \in DOMAIN q /\ q[p].key = key
      BY <1>2, GetIsHas
    <2>3. \A i, j \in DOMAIN q : q[i].key = q[j].key => i = j
      BY <2>1 DEF WellFormed
    <2>4. t \in Seq(Pair(V))
      BY <2>1, <2>2, RemoveNodeIs
    <2>5. /\ \A j \in DOMAIN t : \E i \in DOMAIN q : i # p /\ t[j] = q[i]
          /\ \A i \in DOMAIN q : i # p => \E j \in DOMAIN t : t[j] = q[i]
          /\ \A i, j \in DOMAIN t : t[i].key = t[j].key => i = j
      BY <2>1, <2>2, <2>3, RemoveNodeKeeps
    <2>6. d = [map EXCEPT ![b] = t]
      BY <1>2 DEF pc_map_del
    <2> HIDE DEF t, d, p
    <2>7. /\ d \in Map(V) /\ d[b] = t
          /\ \A c \in Buckets : c # b => d[c] = map[c]
      BY <2>1, <2>4, <2>6 DEF Map
    <2>8. WellFormed(d, V)
      <3>1. ASSUME NEW c \in Buckets
            PROVE  /\ \A i \in DOMAIN d[c] : bucket(d[c][i].key) = c
                   /\ \A i, j \in DOMAIN d[c] :
                         d[c][i].key = d[c][j].key => i = j
        <4>1. CASE c = b
          BY <2>1, <2>5, <2>7, <4>1 DEF WellFormed
        <4>2. CASE c # b
          BY <2>7, <4>2 DEF WellFormed
        <4>3. QED
          BY <4>1, <4>2
      <3>2. QED
        BY <2>7, <3>1 DEF WellFormed
    <2>9. ASSUME NEW k \in Keys, NEW v
          PROVE  Has(d, k, v) <=> k # key /\ Has(map, k, v)
      <3>1. bucket(k) \in Buckets
        BY BucketOfKey
      <3>2. CASE bucket(k) # b
        BY <2>7, <3>1, <3>2 DEF Has
      <3>3. CASE bucket(k) = b
        <4>1. \A i \in DOMAIN q : q[i].key = key => i = p
          BY <2>2, <2>3
        <4>2. ASSUME Has(d, k, v) PROVE k # key /\ Has(map, k, v)
          BY <2>5, <2>7, <3>3, <4>1, <4>2 DEF Has
        <4>3. ASSUME k # key, Has(map, k, v) PROVE Has(d, k, v)
          BY <2>2, <2>5, <2>7, <3>3, <4>3 DEF Has
        <4>4. QED
          BY <4>2, <4>3
      <3>4. QED
        BY <3>2, <3>3
    <2>10. QED
      BY <2>8, <2>9 DEF d
  <1>3. QED
    BY <1>1, <1>2

\* pc_map_set, when it returns: the map has the new value under the key, and
\* is otherwise the same.
LEMMA SetHas ==
    ASSUME NEW V, NEW map, WellFormed(map, V), NEW key \in Keys,
           NEW value \in V
    PROVE  /\ WellFormed(pc_map_set(map, key, value), V)
           /\ \A k \in Keys : \A v :
                 Has(pc_map_set(map, key, value), k, v) <=>
                    IF k = key THEN v = value ELSE Has(map, k, v)
  <1> DEFINE d == pc_map_del(map, key)
             b == bucket(key)
             new == [key |-> key, value |-> value]
             q == d[b]
             t == Append(q, new)
             s == pc_map_set(map, key, value)
  <1>1. /\ WellFormed(d, V)
        /\ \A k \in Keys : \A v : Has(d, k, v) <=> k # key /\ Has(map, k, v)
    BY DelHas
  <1>2. s = [d EXCEPT ![b] = t]
    BY DEF pc_map_set
  <1> HIDE DEF d, s
  <1>3. b \in Buckets /\ d \in Map(V) /\ q \in Seq(Pair(V))
    BY <1>1, BucketOfKey, QueueOfMap DEF WellFormed
  <1>4. new \in Pair(V) /\ new.key = key /\ new.value = value
    BY DEF Pair
  <1>5. Len(q) \in Nat /\ DOMAIN q = 1 .. Len(q)
    BY <1>3
  <1> HIDE DEF new
  <1>6. /\ t \in Seq(Pair(V)) /\ Len(t) = Len(q) + 1
        /\ DOMAIN t = 1 .. Len(q) + 1
        /\ \A i \in 1 .. Len(q) : t[i] = q[i]
        /\ t[Len(q) + 1] = new
    BY <1>3, <1>4
  <1>7. \A i \in DOMAIN q : q[i].key # key
    BY <1>1 DEF Has
  <1> HIDE DEF t
  <1>8. /\ s \in Map(V) /\ s[b] = t
        /\ \A c \in Buckets : c # b => s[c] = d[c]
    BY <1>2, <1>3, <1>6 DEF Map
  <1>9. WellFormed(s, V)
    <2>1. ASSUME NEW c \in Buckets
          PROVE  /\ \A i \in DOMAIN s[c] : bucket(s[c][i].key) = c
                 /\ \A i, j \in DOMAIN s[c] :
                       s[c][i].key = s[c][j].key => i = j
      <3>1. CASE c = b
        <4>1. \A i \in DOMAIN q : bucket(q[i].key) = b
          BY <1>1, <1>3 DEF WellFormed
        <4>2. \A i, j \in DOMAIN q : q[i].key = q[j].key => i = j
          BY <1>1, <1>3 DEF WellFormed
        <4>3. \A i \in DOMAIN t : bucket(t[i].key) = b
          BY <1>4, <1>5, <1>6, <4>1
        <4>4. \A i, j \in DOMAIN t : t[i].key = t[j].key => i = j
          BY <1>4, <1>5, <1>6, <1>7, <4>2, SMTT(30)
        <4>5. QED
          BY <1>8, <3>1, <4>3, <4>4
      <3>2. CASE c # b
        BY <1>1, <1>8, <3>2 DEF WellFormed
      <3>3. QED
        BY <3>1, <3>2
    <2>2. QED
      BY <1>8, <2>1 DEF WellFormed
  <1>10. ASSUME NEW k \in Keys, NEW v
         PROVE  Has(s, k, v) <=> IF k = key THEN v = value ELSE Has(map, k, v)
    <2>1. bucket(k) \in Buckets
      BY BucketOfKey
    <2>2. CASE bucket(k) # b
      <3>1. Has(s, k, v) <=> Has(d, k, v)
        BY <1>8, <2>1, <2>2 DEF Has
      <3>2. QED
        BY <1>1, <2>2, <3>1
    <2>3. CASE bucket(k) = b /\ k # key
      <3>1. Has(s, k, v) <=> Has(d, k, v)
        BY <1>4, <1>5, <1>6, <1>8, <2>3, SMTT(30) DEF Has
      <3>2. QED
        BY <1>1, <2>3, <3>1
    <2>4. CASE k = key
      BY <1>4, <1>5, <1>6, <1>7, <1>8, <2>4, SMTT(30) DEF Has
    <2>5. QED
      BY <2>2, <2>3, <2>4
  <1>11. QED
    BY <1>9, <1>10 DEF s

\* Two maps that have the same under a key answer pc_map_get alike.
LEMMA GetAlike ==
    ASSUME NEW V, NEW m, WellFormed(m, V), NEW n, WellFormed(n, V),
           NEW k \in Keys, \A v : Has(m, k, v) <=> Has(n, k, v)
    PROVE  /\ Found(m, k) <=> Found(n, k)
           /\ Found(m, k) => pc_map_get(m, k) = pc_map_get(n, k)
  <1>1. Found(m, k) <=> Found(n, k)
    BY FoundIsHas
  <1>2. ASSUME Found(m, k) PROVE pc_map_get(m, k) = pc_map_get(n, k)
    <2>1. Has(m, k, pc_map_get(m, k)) /\ Has(n, k, pc_map_get(n, k))
      BY <1>1, <1>2, GetIsHas
    <2>2. QED
      BY <2>1, HasOne
  <1>3. QED
    BY <1>1, <1>2

\* pc_map_get, pc_map_set (when it returns) and pc_map_del, for keys that share
\* a bucket and keys that do not: what was set is found, what was deleted is
\* not, and no other key is disturbed.
THEOREM MapOperations ==
    ASSUME NEW V, NEW map, WellFormed(map, V), NEW key \in Keys,
           NEW value \in V
    PROVE  /\ Found(pc_map_set(map, key, value), key)
           /\ pc_map_get(pc_map_set(map, key, value), key) = value
           /\ ~Found(pc_map_del(map, key), key)
           /\ \A k \in Keys \ {key} :
                 \A m \in {pc_map_set(map, key, value), pc_map_del(map, key)} :
                    /\ Found(m, k) <=> Found(map, k)
                    /\ Found(m, k) => pc_map_get(m, k) = pc_map_get(map, k)
  <1> DEFINE s == pc_map_set(map, key, value)
             d == pc_map_del(map, key)
  <1>1. /\ WellFormed(s, V)
        /\ \A k \in Keys : \A v :
              Has(s, k, v) <=> IF k = key THEN v = value ELSE Has(map, k, v)
    BY SetHas
  <1>2. /\ WellFormed(d, V)
        /\ \A k \in Keys : \A v : Has(d, k, v) <=> k # key /\ Has(map, k, v)
    BY DelHas
  <1> HIDE DEF s, d
  <1>3. Found(s, key)
    BY <1>1, FoundIsHas
  <1>4. pc_map_get(s, key) = value
    BY <1>1, <1>3, GetIsHas
  <1>5. ~Found(d, key)
    BY <1>2, FoundIsHas
  <1>6. ASSUME NEW k \in Keys \ {key}, NEW m \in {s, d}
        PROVE  /\ Found(m, k) <=> Found(map, k)
               /\ Found(m, k) => pc_map_get(m, k) = pc_map_get(map, k)
    <2>1. WellFormed(m, V) /\ \A v : Has(m, k, v) <=> Has(map, k, v)
      BY <1>1, <1>2, <1>6
    <2>2. QED
      BY <2>1, GetAlike
  <1>7. QED
    BY <1>3, <1>4, <1>5, <1>6 DEF s, d
=============================================================================
