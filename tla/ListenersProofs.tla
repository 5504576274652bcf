-------------------------- MODULE ListenersProofs --------------------------
(***************************************************************************)
(* Proofs about Listeners, for every number of threads, events, callbacks  *)
(* and blocks.  First the queues: a Ring is a circular list given by the   *)
(* sequence of its nodes, what ngx_queue_foreach visits in it, and what    *)
(* inserting and (twice) unlinking a node does to it.  Then the heap: the  *)
(* Store of a map and its rings, with add and remove as steps between      *)
(* stores.  Then the inductive invariant, the safety properties, and the   *)
(* refinement of EventRegistry.                                            *)
(***************************************************************************)
EXTENDS Listeners, PcMapProofs, FiniteSetTheorems,
        SequenceTheorems, WellFoundedInduction

\* Every set of naturals that is not empty has a least element: the form of
\* induction used below.
LEMMA LeastNatural ==
    ASSUME NEW T \in SUBSET Nat, T # {}
    PROVE  \E x \in T : \A y \in T : x <= y
  <1>1. PICK x \in T : \A y \in T : ~(<<y, x>> \in OpToRel(<, Nat))
    BY NatLessThanWellFounded, WFMin
  <1>2. ASSUME NEW y \in T PROVE x <= y
    <2>1. ~(<<y, x>> \in {ss \in Nat \X Nat : ss[1] < ss[2]})
      BY <1>1 DEF OpToRel
    <2>2. QED
      BY <2>1
  <1>3. QED
    BY <1>2
-----------------------------------------------------------------------------
(* ngx_queue_foreach over a ring.                                          *)

\* The i-th node of the ring of h and c: the head before and after the rest.
At(h, c, i) == IF i \in 1 .. Len(c) THEN c[i] ELSE h

\* The nodes of c, in this order, are the queue of the head h.
Ring(q, h, c) ==
    /\ c \in Seq(Items)
    /\ \A i, j \in 1 .. Len(c) : c[i] = c[j] => i = j
    /\ \A i \in 0 .. Len(c) :
          q.next[At(h, c, i)] = At(h, c, i + 1)
          /\ q.prev[At(h, c, i + 1)] = At(h, c, i)


\* The next and prev pointers of all the nodes.
Links == [next : [Nodes -> Nodes], prev : [Nodes -> Nodes]]

\* One step of the walk f after the nodes of p.
Walk(q, h, f, p) ==
    LET n == q.next[IF p = <<>> THEN h ELSE p[Len(p)]]
    IN  IF n = h \/ Len(p) = Cardinality(Nodes) THEN p ELSE f[Append(p, n)]

\* The walk ends after i nodes of s.
Stops(q, h, s, i) == q.next[At(h, s, i)] = h \/ i = Cardinality(Nodes)

\* What the walk after the nodes of p ends with, if it ends.
Ends(q, h, p) ==
    {s \in Seq(Nodes) :
        /\ Len(p) <= Len(s)
        /\ \A i \in 1 .. Len(p) : s[i] = p[i]
        /\ \A i \in Len(p) .. Len(s) - 1 :
              s[i + 1] = q.next[At(h, s, i)] /\ ~Stops(q, h, s, i)
        /\ Stops(q, h, s, Len(s))}

\* The node the walk is at.
LEMMA AtLast ==
    ASSUME NEW h \in Nodes, NEW p \in Seq(Nodes)
    PROVE  /\ At(h, p, Len(p)) = IF p = <<>> THEN h ELSE p[Len(p)]
           /\ At(h, p, Len(p)) \in Nodes
  <1>1. CASE p = <<>>
    BY <1>1 DEF At
  <1>2. CASE p # <<>>
    <2>1. Len(p) \in Nat /\ Len(p) > 0
      BY <1>2
    <2>2. Len(p) \in 1 .. Len(p) /\ p[Len(p)] \in Nodes
      BY <2>1
    <2>3. QED
      BY <1>2, <2>2 DEF At
  <1>3. QED
    BY <1>1, <1>2

\* The walk that has to stop has ended.
LEMMA EndsHere ==
    ASSUME NEW q, NEW h \in Nodes, NEW p \in Seq(Nodes), Stops(q, h, p, Len(p))
    PROVE  Ends(q, h, p) = {p}
  <1>1. p \in Ends(q, h, p)
    BY DEF Ends
  <1>2. ASSUME NEW s \in Ends(q, h, p) PROVE s = p
    <2>1. /\ s \in Seq(Nodes) /\ Len(p) <= Len(s) /\ Len(p) \in Nat
          /\ Len(s) \in Nat /\ \A i \in 1 .. Len(p) : s[i] = p[i]
          /\ \A i \in Len(p) .. Len(s) - 1 : ~Stops(q, h, s, i)
      BY DEF Ends
    <2>2. At(h, s, Len(p)) = At(h, p, Len(p))
      BY <2>1 DEF At
    <2>3. Stops(q, h, s, Len(p))
      BY <2>2 DEF Stops
    <2>4. Len(s) = Len(p)
      BY <2>1, <2>3
    <2>5. QED
      BY <2>1, <2>4, SeqEqual
  <1>3. QED
    BY <1>1, <1>2

\* The walk that goes on ends where it would from the next node.
LEMMA EndsLater ==
    ASSUME NEW q \in Links, NEW h \in Nodes, NEW p \in Seq(Nodes),
           ~Stops(q, h, p, Len(p))
    PROVE  LET n == q.next[At(h, p, Len(p))]
           IN  n \in Nodes /\ Ends(q, h, p) = Ends(q, h, Append(p, n))
  <1> DEFINE n == q.next[At(h, p, Len(p))]
             r == Append(p, n)
  <1>1. n \in Nodes
    BY AtLast DEF Links
  <1>2. /\ r \in Seq(Nodes) /\ Len(r) = Len(p) + 1 /\ Len(p) \in Nat
        /\ r[Len(p) + 1] = n /\ \A i \in 1 .. Len(p) : r[i] = p[i]
    BY <1>1
  <1>3. ASSUME NEW s \in Seq(Nodes), \A i \in 1 .. Len(p) : s[i] = p[i],
               Len(p) <= Len(s)
        PROVE  At(h, s, Len(p)) = At(h, p, Len(p))
    BY <1>3 DEF At
  <1> HIDE DEF r
  <1>4. ASSUME NEW s \in Ends(q, h, p) PROVE s \in Ends(q, h, r)
    <2>1. /\ s \in Seq(Nodes) /\ Len(p) <= Len(s) /\ Len(s) \in Nat
          /\ \A i \in 1 .. Len(p) : s[i] = p[i]
          /\ \A i \in Len(p) .. Len(s) - 1 :
                s[i + 1] = q.next[At(h, s, i)] /\ ~Stops(q, h, s, i)
          /\ Stops(q, h, s, Len(s))
      BY DEF Ends
    <2>2. ~Stops(q, h, s, Len(p))
      BY <1>3, <2>1 DEF Stops
    <2>3. Len(p) + 1 <= Len(s)
      BY <1>2, <2>1, <2>2
    <2>4. s[Len(p) + 1] = n
      BY <1>2, <1>3, <2>1, <2>3
    <2>5. \A i \in 1 .. Len(r) : s[i] = r[i]
      BY <1>2, <2>1, <2>4, SMTT(30)
    <2>6. QED
      BY <1>2, <2>1, <2>3, <2>5 DEF Ends
  <1>5. ASSUME NEW s \in Ends(q, h, r) PROVE s \in Ends(q, h, p)
    <2>1. /\ s \in Seq(Nodes) /\ Len(r) <= Len(s) /\ Len(s) \in Nat
          /\ \A i \in 1 .. Len(r) : s[i] = r[i]
          /\ \A i \in Len(r) .. Len(s) - 1 :
                s[i + 1] = q.next[At(h, s, i)] /\ ~Stops(q, h, s, i)
          /\ Stops(q, h, s, Len(s))
      BY DEF Ends
    <2>2. \A i \in 1 .. Len(p) : s[i] = p[i]
      BY <1>2, <2>1
    <2>3. At(h, s, Len(p)) = At(h, p, Len(p))
      BY <1>2, <1>3, <2>1, <2>2
    <2>4. s[Len(p) + 1] = q.next[At(h, s, Len(p))]
      BY <1>2, <2>1, <2>3
    <2>5. ~Stops(q, h, s, Len(p))
      BY <2>3 DEF Stops
    <2>6. \A i \in Len(p) .. Len(s) - 1 :
             s[i + 1] = q.next[At(h, s, i)] /\ ~Stops(q, h, s, i)
      BY <1>2, <2>1, <2>4, <2>5
    <2>7. QED
      BY <1>2, <2>1, <2>2, <2>6 DEF Ends
  <1>6. QED
    BY <1>1, <1>4, <1>5 DEF r

\* The recursive definition of Chain defines a function.
LEMMA WalkExists ==
    ASSUME NEW q \in Links, NEW h \in Nodes
    PROVE  \E f : f = [p \in Seq(Nodes) |-> Walk(q, h, f, p)]
  <1> DEFINE end(p) == CHOOSE s : s \in Ends(q, h, p)
             g == [p \in Seq(Nodes) |-> end(p)]
  <1>1. ASSUME NEW p \in Seq(Nodes) PROVE end(p) = Walk(q, h, g, p)
    <2> DEFINE n == q.next[At(h, p, Len(p))]
    <2>1. Walk(q, h, g, p) =
             IF Stops(q, h, p, Len(p)) THEN p ELSE g[Append(p, n)]
      <3> HIDE DEF g
      <3>1. At(h, p, Len(p)) = IF p = <<>> THEN h ELSE p[Len(p)]
        BY AtLast
      <3>2. QED
        BY <3>1 DEF Walk, Stops
    <2>2. CASE Stops(q, h, p, Len(p))
      BY <2>1, <2>2, EndsHere
    <2>3. CASE ~Stops(q, h, p, Len(p))
      <3>1. n \in Nodes /\ Ends(q, h, p) = Ends(q, h, Append(p, n))
        BY <2>3, EndsLater
      <3>2. Append(p, n) \in Seq(Nodes)
        BY <3>1
      <3>3. end(Append(p, n)) = end(p)
        BY <3>1
      <3>4. QED
        BY <2>1, <2>3, <3>2, <3>3
    <2>4. QED
      BY <2>2, <2>3
  <1>2. g = [p \in Seq(Nodes) |-> Walk(q, h, g, p)]
    BY <1>1
  <1>3. QED
    BY <1>2

\* Chain follows a function that walks.
LEMMA ChainWalks ==
    ASSUME NEW q \in Links, NEW h \in Nodes
    PROVE  \E f : /\ f = [p \in Seq(Nodes) |-> Walk(q, h, f, p)]
                  /\ Chain(q, h) = f[<<>>]
  <1> DEFINE f == CHOOSE f : f = [p \in Seq(Nodes) |-> Walk(q, h, f, p)]
  <1>1. f = [p \in Seq(Nodes) |-> Walk(q, h, f, p)]
    BY WalkExists
  <1>2. Chain(q, h) = f[<<>>]
    BY DEF Chain, Walk
  <1>3. QED
    BY <1>1, <1>2

\* ngx_queue_foreach visits the nodes of a ring, in their order.
LEMMA ChainOfRing ==
    ASSUME NEW q \in Links, NEW h \in Heads, NEW c, Ring(q, h, c)
    PROVE  Chain(q, h) = c
  <1>1. PICK f : /\ f = [p \in Seq(Nodes) |-> Walk(q, h, f, p)]
                 /\ Chain(q, h) = f[<<>>]
    BY ChainWalks DEF Nodes
  <1>2. /\ c \in Seq(Items) /\ c \in Seq(Nodes) /\ Len(c) \in Nat
        /\ h \in Nodes /\ h \notin Items
    BY ListenersAssumption DEF Ring, Nodes
  <1>3. Len(c) <= Cardinality(Nodes)
    <2>1. c \in Injection(1 .. Len(c), Nodes)
      BY <1>2 DEF Ring, Injection, IsInjective
    <2>2. IsFiniteSet(Nodes)
      BY ListenersAssumption DEF Nodes
    <2>3. Cardinality(1 .. Len(c)) <= Cardinality(Nodes)
      BY <2>1, <2>2, FS_Injection
    <2>4. Cardinality(1 .. Len(c)) = Len(c)
      <3>1. 1 \in Int /\ Len(c) \in Int
        BY <1>2
      <3>2. Cardinality(1 .. Len(c)) =
               IF 1 > Len(c) THEN 0 ELSE Len(c) - 1 + 1
        BY <3>1, FS_Interval
      <3>3. QED
        BY <1>2, <3>2
    <2>5. QED
      BY <2>3, <2>4
  <1> DEFINE Pre(k) == SubSeq(c, 1, k)
  <1>4. ASSUME NEW k \in 0 .. Len(c)
        PROVE  /\ Pre(k) \in Seq(Nodes) /\ Len(Pre(k)) = k
               /\ \A i \in 1 .. k : Pre(k)[i] = c[i]
    BY <1>2
  <1>5. Pre(Len(c)) = c /\ Pre(0) = <<>>
    BY <1>2
  <1>6. ASSUME NEW k \in 0 .. Len(c) - 1 PROVE Pre(k + 1) = Append(Pre(k), c[k + 1])
    BY <1>2
  <1> HIDE DEF Pre
  <1>7. ASSUME NEW k \in 0 .. Len(c)
        PROVE  f[Pre(k)] = IF k = Len(c) THEN c ELSE f[Pre(k + 1)]
    <2>1. k \in Nat /\ Pre(k) \in Seq(Nodes) /\ Len(Pre(k)) = k
      BY <1>2, <1>4
    <2>2. At(h, Pre(k), k) = At(h, c, k)
      BY <1>2, <1>4 DEF At
    <2>3. q.next[At(h, Pre(k), k)] = At(h, c, k + 1)
      BY <2>2 DEF Ring
    <2>4. f[Pre(k)] = Walk(q, h, f, Pre(k))
      BY <1>1, <2>1
    <2>5. Walk(q, h, f, Pre(k)) =
             IF At(h, c, k + 1) = h \/ k = Cardinality(Nodes) THEN Pre(k)
             ELSE f[Append(Pre(k), At(h, c, k + 1))]
      BY <1>2, <2>1, <2>3, AtLast DEF Walk
    <2>6. CASE k = Len(c)
      <3>1. At(h, c, k + 1) = h
        BY <1>2, <2>6 DEF At
      <3>2. QED
        BY <1>5, <2>4, <2>5, <2>6, <3>1
    <2>7. CASE k # Len(c)
      <3>1. k \in 0 .. Len(c) - 1 /\ k + 1 \in 1 .. Len(c)
        BY <1>2, <2>7
      <3>2. At(h, c, k + 1) = c[k + 1] /\ c[k + 1] \in Items
        BY <1>2, <3>1 DEF At
      <3>3. At(h, c, k + 1) # h
        BY <1>2, <3>2
      <3>4. k # Cardinality(Nodes)
        <4>1. Cardinality(Nodes) \in Nat
          BY ListenersAssumption, FS_CardinalityType DEF Nodes
        <4>2. QED
          BY <1>2, <1>3, <3>1, <4>1
      <3>5. QED
        BY <1>6, <2>4, <2>5, <2>7, <3>1, <3>2, <3>3, <3>4
    <2>8. QED
      BY <2>6, <2>7
  <1> DEFINE T == {d \in 0 .. Len(c) : f[Pre(Len(c) - d)] # c}
  <1>8. T = {}
    <2>1. SUFFICES ASSUME T # {} PROVE FALSE
      OBVIOUS
    <2>2. T \in SUBSET Nat
      BY <1>2
    <2>3. PICK d \in T : \A e \in T : d <= e
      BY <2>1, <2>2, LeastNatural
    <2>4. d \in 0 .. Len(c) /\ f[Pre(Len(c) - d)] # c
      OBVIOUS
    <2>5. d # 0
      <3>1. f[Pre(Len(c))] = c
        BY <1>2, <1>7
      <3>2. QED
        BY <1>2, <2>4, <3>1
    <2>6. d - 1 \in 0 .. Len(c) /\ ~(d <= d - 1) /\ Len(c) - d \in 0 .. Len(c)
          /\ Len(c) - d + 1 = Len(c) - (d - 1) /\ Len(c) - d # Len(c)
      BY <1>2, <2>4, <2>5
    <2>7. d - 1 \notin T
      BY <2>3, <2>6
    <2>8. f[Pre(Len(c) - (d - 1))] = c
      BY <2>6, <2>7
    <2>9. f[Pre(Len(c) - d)] = f[Pre(Len(c) - d + 1)]
      BY <1>7, <2>6
    <2>10. QED
      BY <2>4, <2>6, <2>8, <2>9
  <1>9. f[Pre(0)] = c
    <2>1. Len(c) \in 0 .. Len(c) /\ Len(c) - Len(c) = 0
      BY <1>2
    <2>2. QED
      BY <1>8, <2>1
  <1>10. QED
    BY <1>1, <1>5, <1>9

-----------------------------------------------------------------------------
(* What the operations of ngx-queue.h do to a ring.                        *)

\* The blocks of a queue.
RingNodes(h, c) == {h} \cup {c[i] : i \in 1 .. Len(c)}

\* free of the blocks in S leaves the pointers of the others alone.
Freed(q, S) ==
    [next |-> [n \in Nodes |-> IF n \in S THEN n ELSE q.next[n]],
     prev |-> [n \in Nodes |-> IF n \in S THEN n ELSE q.prev[n]]]

\* The nodes of a ring are blocks, and the head is none of the others.
LEMMA RingTypes ==
    ASSUME NEW q, NEW h \in Heads, NEW c, Ring(q, h, c)
    PROVE  /\ c \in Seq(Items) /\ Len(c) \in Nat /\ DOMAIN c = 1 .. Len(c)
           /\ h \in Nodes /\ h \notin Items
           /\ \A i \in 1 .. Len(c) : c[i] \in Items /\ c[i] \in Nodes
                                     /\ c[i] # h
           /\ \A i \in 0 .. Len(c) + 1 : At(h, c, i) \in RingNodes(h, c)
           /\ RingNodes(h, c) \subseteq Nodes
  <1>1. c \in Seq(Items) /\ Len(c) \in Nat /\ DOMAIN c = 1 .. Len(c)
    BY DEF Ring
  <1>2. h \in Nodes /\ h \notin Items
    BY ListenersAssumption DEF Nodes
  <1>3. \A i \in 1 .. Len(c) : c[i] \in Items
    BY <1>1
  <1>4. QED
    BY <1>1, <1>2, <1>3 DEF Nodes, At, RingNodes

\* Two places of a ring with the same node are the same place.
LEMMA AtSame ==
    ASSUME NEW q, NEW h \in Heads, NEW c, Ring(q, h, c),
           NEW i \in 0 .. Len(c), NEW j \in 0 .. Len(c),
           At(h, c, i) = At(h, c, j)
    PROVE  i = j
  <1>1. /\ Len(c) \in Nat /\ \A n \in 1 .. Len(c) : c[n] # h
        /\ \A m, n \in 1 .. Len(c) : c[m] = c[n] => m = n
    <2>1. Len(c) \in Nat /\ \A n \in 1 .. Len(c) : c[n] # h
      BY RingTypes
    <2>2. \A m, n \in 1 .. Len(c) : c[m] = c[n] => m = n
      BY DEF Ring
    <2>3. QED
      BY <2>1, <2>2
  <1>2. i = 0 \/ i \in 1 .. Len(c)
    BY <1>1
  <1>3. j = 0 \/ j \in 1 .. Len(c)
    BY <1>1
  <1>4. 0 \notin 1 .. Len(c)
    BY <1>1
  <1>5. QED
    BY <1>1, <1>2, <1>3, <1>4 DEF At

\* A ring is one wherever its own nodes keep their pointers.
LEMMA RingFrame ==
    ASSUME NEW q, NEW r, NEW h \in Heads, NEW c, Ring(q, h, c),
           \A n \in RingNodes(h, c) :
               r.next[n] = q.next[n] /\ r.prev[n] = q.prev[n]
    PROVE  Ring(r, h, c)
  <1>1. /\ Len(c) \in Nat
        /\ \A i \in 0 .. Len(c) + 1 : At(h, c, i) \in RingNodes(h, c)
    BY RingTypes
  <1>2. \A i \in 0 .. Len(c) : i \in 0 .. Len(c) + 1 /\ i + 1 \in 0 .. Len(c) + 1
    BY <1>1
  <1>3. QED
    BY <1>1, <1>2 DEF Ring

\* A head that is initialised is an empty ring.
LEMMA InitRing ==
    ASSUME NEW q \in Links, NEW x \in Nodes
    PROVE  /\ ngx_queue_init(q, x) \in Links
           /\ Ring(ngx_queue_init(q, x), x, <<>>)
           /\ \A n \in Nodes \ {x} :
                 /\ ngx_queue_init(q, x).next[n] = q.next[n]
                 /\ ngx_queue_init(q, x).prev[n] = q.prev[n]
  BY DEF ngx_queue_init, Links, Ring, At

\* Only the two neighbours and the new node are written by an insertion.
LEMMA InsertTailIs ==
    ASSUME NEW q \in Links, NEW h \in Nodes, NEW x \in Nodes
    PROVE  LET r == ngx_queue_insert_tail(q, h, x)
           IN  /\ r \in Links
               /\ \A n \in Nodes :
                     /\ r.next[n] = IF n = x THEN h
                                    ELSE IF n = q.prev[h] THEN x ELSE q.next[n]
                     /\ r.prev[n] = IF n = h THEN x
                                    ELSE IF n = x THEN q.prev[h] ELSE q.prev[n]
  BY DEF ngx_queue_insert_tail, Links

\* ngx_queue_insert_tail makes the new node the last of the ring.
LEMMA InsertTailRing ==
    ASSUME NEW q \in Links, NEW h \in Heads, NEW c, Ring(q, h, c),
           NEW x \in Items, x \notin RingNodes(h, c)
    PROVE  LET r == ngx_queue_insert_tail(q, h, x)
           IN  /\ r \in Links /\ Ring(r, h, Append(c, x))
               /\ \A n \in Nodes \ (RingNodes(h, c) \cup {x}) :
                     r.next[n] = q.next[n] /\ r.prev[n] = q.prev[n]
  <1> DEFINE r == ngx_queue_insert_tail(q, h, x)
             d == Append(c, x)
             m == Len(c)
  <1>1. /\ c \in Seq(Items) /\ m \in Nat /\ DOMAIN c = 1 .. m
        /\ h \in Nodes /\ h \notin Items
        /\ \A i \in 1 .. m : c[i] \in Items /\ c[i] \in Nodes /\ c[i] # h
        /\ \A i \in 0 .. m + 1 : At(h, c, i) \in RingNodes(h, c)
        /\ RingNodes(h, c) \subseteq Nodes
    BY RingTypes
  <1>2. x \in Nodes /\ x # h
    BY <1>1 DEF Nodes
  <1>3. /\ d \in Seq(Items) /\ Len(d) = m + 1 /\ d[m + 1] = x
        /\ \A i \in 1 .. m : d[i] = c[i]
    BY <1>1
  <1>4. \A i \in 0 .. m : At(h, d, i) = At(h, c, i)
    BY <1>1, <1>3 DEF At
  <1>5. At(h, d, m + 1) = x /\ At(h, d, m + 2) = h /\ At(h, c, m + 1) = h
    BY <1>1, <1>3 DEF At
  <1>6. q.prev[h] = At(h, c, m)
    BY <1>1, <1>5 DEF Ring
  <1>7. /\ r \in Links
        /\ \A n \in Nodes :
              /\ r.next[n] = IF n = x THEN h
                             ELSE IF n = q.prev[h] THEN x ELSE q.next[n]
              /\ r.prev[n] = IF n = h THEN x
                             ELSE IF n = x THEN q.prev[h] ELSE q.prev[n]
    BY <1>1, <1>2, InsertTailIs
  <1> HIDE DEF r, d
  <1>8. \A i, j \in 1 .. Len(d) : d[i] = d[j] => i = j
    <2>1. \A i \in 1 .. m : d[i] # x
      BY <1>3 DEF RingNodes
    <2>2. QED
      BY <1>1, <1>3, <2>1 DEF Ring
  <1>9. ASSUME NEW i \in 0 .. Len(d)
        PROVE  r.next[At(h, d, i)] = At(h, d, i + 1)
               /\ r.prev[At(h, d, i + 1)] = At(h, d, i)
    <2>1. CASE i \in 0 .. m - 1
      <3>1. /\ i \in 0 .. m /\ i + 1 \in 0 .. m /\ i \in 0 .. m + 1
            /\ i + 1 \in 0 .. m + 1 /\ m \in 0 .. m
        BY <1>1, <2>1
      <3>2. At(h, c, i) # At(h, c, m)
        BY <1>1, <2>1, <3>1, AtSame
      <3>3. At(h, c, i + 1) # h
        BY <1>1, <2>1 DEF At
      <3>4. /\ At(h, c, i) \in Nodes /\ At(h, c, i) # x
            /\ At(h, c, i + 1) \in Nodes /\ At(h, c, i + 1) # x
        BY <1>1, <3>1
      <3>5. r.next[At(h, c, i)] = q.next[At(h, c, i)]
        BY <1>6, <1>7, <3>2, <3>4
      <3>6. r.prev[At(h, c, i + 1)] = q.prev[At(h, c, i + 1)]
        BY <1>7, <3>3, <3>4
      <3>7. q.next[At(h, c, i)] = At(h, c, i + 1)
            /\ q.prev[At(h, c, i + 1)] = At(h, c, i)
        BY <3>1 DEF Ring
      <3>8. QED
        BY <1>4, <3>1, <3>5, <3>6, <3>7
    <2>2. CASE i = m
      <3>1. m \in 0 .. m /\ m \in 0 .. m + 1
        BY <1>1
      <3>2. At(h, c, m) \in Nodes /\ At(h, c, m) # x
        BY <1>1, <3>1
      <3>3. r.next[At(h, c, m)] = x /\ r.prev[x] = At(h, c, m)
        BY <1>2, <1>6, <1>7, <3>2
      <3>4. QED
        BY <1>4, <1>5, <2>2, <3>1, <3>3
    <2>3. CASE i = m + 1
      <3>1. r.next[x] = h /\ r.prev[h] = x
        BY <1>1, <1>2, <1>7
      <3>2. i + 1 = m + 2
        BY <1>1, <2>3
      <3>3. QED
        BY <1>5, <2>3, <3>1, <3>2
    <2>4. i \in 0 .. m - 1 \/ i = m \/ i = m + 1
      <3>1. m \in Nat /\ Len(d) = m + 1
        BY <1>1, <1>3
      <3> HIDE DEF m
      <3>2. QED
        BY <3>1
    <2>5. QED
      BY <2>1, <2>2, <2>3, <2>4
  <1>10. Ring(r, h, d)
    BY <1>3, <1>8, <1>9 DEF Ring
  <1>11. ASSUME NEW n \in Nodes \ (RingNodes(h, c) \cup {x})
         PROVE  r.next[n] = q.next[n] /\ r.prev[n] = q.prev[n]
    <2>1. n # h /\ n # x /\ n # q.prev[h]
      BY <1>1, <1>6 DEF RingNodes
    <2>2. QED
      BY <1>7, <2>1
  <1>12. QED
    BY <1>7, <1>10, <1>11 DEF r, d

\* Only the two neighbours are written by a removal.
LEMMA RemoveIs ==
    ASSUME NEW q \in Links, NEW x \in Nodes
    PROVE  LET r == ngx_queue_remove(q, x)
           IN  /\ r \in Links
               /\ \A n \in Nodes :
                     /\ r.next[n] = IF n = q.prev[x] THEN q.next[x]
                                    ELSE q.next[n]
                     /\ r.prev[n] = IF n = q.next[x] THEN q.prev[x]
                                    ELSE q.prev[n]
  BY DEF ngx_queue_remove, Links

\* pc_remove_listener unlinks a node, pc_listener_destroy unlinks it again:
\* the second time nothing changes, and the rest is the ring without the node.
LEMMA RemoveRing ==
    ASSUME NEW q \in Links, NEW h \in Heads, NEW c, Ring(q, h, c),
           NEW k \in 1 .. Len(c)
    PROVE  LET x == c[k]
               r == ngx_queue_remove(q, x)
           IN  /\ r \in Links /\ Ring(r, h, RemoveNode(c, k))
               /\ pc_listener_destroy(r, x) = r
               /\ \A n \in Nodes \ RingNodes(h, c) :
                     r.next[n] = q.next[n] /\ r.prev[n] = q.prev[n]
  <1> DEFINE x == c[k]
             r == ngx_queue_remove(q, x)
             d == RemoveNode(c, k)
             m == Len(c)
             from(i) == IF i < k THEN i ELSE i + 1
  <1>1. /\ c \in Seq(Items) /\ m \in Nat /\ DOMAIN c = 1 .. m
        /\ h \in Nodes /\ h \notin Items
        /\ \A i \in 1 .. m : c[i] \in Items /\ c[i] \in Nodes /\ c[i] # h
        /\ \A i \in 0 .. m + 1 : At(h, c, i) \in RingNodes(h, c)
        /\ RingNodes(h, c) \subseteq Nodes
    BY RingTypes
  <1>2. /\ k \in Nat /\ k >= 1 /\ k <= m /\ m \in Nat /\ x \in Nodes /\ x # h
        /\ k \in 0 .. m /\ k - 1 \in 0 .. m /\ k + 1 \in 0 .. m + 1
    BY <1>1
  <1>3. /\ d \in Seq(Items) /\ Len(d) = m - 1
        /\ \A i \in 1 .. m - 1 : d[i] = c[from(i)]
    BY <1>1, <1>2, RemoveNodeIs
  <1>4. ASSUME NEW i \in 0 .. m - 1 PROVE At(h, d, i) = At(h, c, IF i < k THEN i ELSE i + 1)
    BY <1>1, <1>2, <1>3 DEF At
  <1>5. At(h, d, m) = h /\ At(h, c, m + 1) = h /\ At(h, c, 0) = h
        /\ At(h, c, k) = x
    BY <1>1, <1>2, <1>3 DEF At
  <1>6. q.next[x] = At(h, c, k + 1) /\ q.prev[x] = At(h, c, k - 1)
    <2>1. k - 1 + 1 = k
      BY <1>2
    <2>2. QED
      BY <1>2, <1>5, <2>1 DEF Ring
  <1>7. /\ r \in Links
        /\ \A n \in Nodes :
              /\ r.next[n] = IF n = At(h, c, k - 1) THEN At(h, c, k + 1)
                             ELSE q.next[n]
              /\ r.prev[n] = IF n = At(h, c, k + 1) THEN At(h, c, k - 1)
                             ELSE q.prev[n]
    BY <1>2, <1>6, RemoveIs
  <1>8. x # At(h, c, k - 1) /\ x # At(h, c, k + 1)
    <2>1. x # At(h, c, k - 1)
      BY <1>2, <1>5, AtSame
    <2>2. x # At(h, c, k + 1)
      <3>1. CASE k = m
        BY <1>2, <1>5, <3>1
      <3>2. CASE k # m
        <4>1. k + 1 \in 0 .. m /\ k + 1 # k
          BY <1>2, <3>2
        <4>2. QED
          BY <1>2, <1>5, <4>1, AtSame
      <3>3. QED
        BY <3>1, <3>2
    <2>3. QED
      BY <2>1, <2>2
  <1> HIDE DEF r, d, x
  <1>9. \A i, j \in 1 .. Len(d) : d[i] = d[j] => i = j
    <2>1. ASSUME NEW i \in 1 .. Len(d), NEW j \in 1 .. Len(d), d[i] = d[j]
          PROVE  i = j
      <3>1. /\ from(i) \in 1 .. m /\ from(j) \in 1 .. m
            /\ c[from(i)] = c[from(j)]
        BY <1>1, <1>2, <1>3, <2>1
      <3>2. from(i) = from(j)
        BY <3>1 DEF Ring
      <3>3. QED
        BY <1>1, <1>2, <1>3, <3>2
    <2>2. QED
      BY <2>1
  <1>10. ASSUME NEW i \in 0 .. Len(d)
         PROVE  r.next[At(h, d, i)] = At(h, d, i + 1)
                /\ r.prev[At(h, d, i + 1)] = At(h, d, i)
    <2>1. i \in 0 .. m - 1 /\ i \in Int /\ i <= m - 1
      BY <1>1, <1>3
    <2> DEFINE a == IF i < k THEN i ELSE i + 1
               b == IF i + 1 < k THEN i + 1 ELSE i + 2
    <2>2. /\ a \in 0 .. m /\ b \in 1 .. m + 1 /\ b \in 0 .. m + 1
          /\ a \in 0 .. m + 1
          /\ b = (IF a = k - 1 THEN k + 1 ELSE a + 1)
          /\ a # k /\ b # k
      BY <1>1, <1>2, <2>1
    <2>3. At(h, d, i) = At(h, c, a)
      BY <1>4, <2>1
    <2>4. At(h, d, i + 1) = At(h, c, b)
      <3>1. CASE i + 1 \in 0 .. m - 1
        <4>1. b = IF i + 1 < k THEN i + 1 ELSE (i + 1) + 1
          BY <2>1
        <4>2. QED
          BY <1>4, <3>1, <4>1
      <3>2. CASE i + 1 \notin 0 .. m - 1
        <4>1. i + 1 = m /\ b = m + 1
          BY <1>2, <2>1, <3>2
        <4>2. QED
          BY <1>5, <4>1
      <3>3. QED
        BY <3>1, <3>2
    <2>5. At(h, c, a) \in Nodes /\ At(h, c, b) \in Nodes
      BY <1>1, <2>2
    <2> HIDE DEF a, b
    <2>6. r.next[At(h, c, a)] = At(h, c, b)
      <3>1. CASE a = k - 1
        BY <1>7, <2>2, <2>5, <3>1
      <3>2. CASE a # k - 1
        <4>1. At(h, c, a) # At(h, c, k - 1)
          BY <1>2, <2>2, <3>2, AtSame
        <4>2. q.next[At(h, c, a)] = At(h, c, a + 1)
          BY <2>2 DEF Ring
        <4>3. QED
          BY <1>7, <2>2, <2>5, <3>2, <4>1, <4>2
      <3>3. QED
        BY <3>1, <3>2
    <2>7. r.prev[At(h, c, b)] = At(h, c, a)
      <3>1. CASE a = k - 1
        BY <1>7, <2>2, <2>5, <3>1
      <3>2. CASE a # k - 1
        <4>1. b = a + 1 /\ a + 1 # k + 1 /\ a \in Int
          BY <1>2, <2>2, <3>2
        <4>2. At(h, c, b) # At(h, c, k + 1)
          <5>1. CASE b = m + 1
            <6>1. k + 1 \in 1 .. m
              BY <1>1, <1>2, <4>1, <5>1
            <6>2. At(h, c, k + 1) # h
              BY <1>1, <6>1 DEF At
            <6>3. QED
              BY <1>5, <5>1, <6>2
          <5>2. CASE b # m + 1 /\ k + 1 = m + 1
            <6>1. b \in 1 .. m
              BY <1>1, <2>2, <5>2
            <6>2. At(h, c, b) # h
              BY <1>1, <6>1 DEF At
            <6>3. QED
              BY <1>5, <5>2, <6>2
          <5>3. CASE b # m + 1 /\ k + 1 # m + 1
            <6>1. b \in 0 .. m /\ k + 1 \in 0 .. m
              BY <1>1, <1>2, <2>2, <5>3
            <6>2. QED
              BY <4>1, <6>1, AtSame
          <5>4. QED
            BY <5>1, <5>2, <5>3
        <4>3. q.prev[At(h, c, a + 1)] = At(h, c, a)
          BY <2>2 DEF Ring
        <4>4. QED
          BY <1>7, <2>5, <4>1, <4>2, <4>3
      <3>3. QED
        BY <3>1, <3>2
    <2>8. QED
      BY <2>3, <2>4, <2>6, <2>7
  <1>11. Ring(r, h, d)
    BY <1>3, <1>9, <1>10 DEF Ring
  <1>12. pc_listener_destroy(r, x) = r
    <2>1. r.next[x] = At(h, c, k + 1) /\ r.prev[x] = At(h, c, k - 1)
      BY <1>2, <1>6, <1>7, <1>8
    <2>2. /\ r.next[At(h, c, k - 1)] = At(h, c, k + 1)
          /\ r.prev[At(h, c, k + 1)] = At(h, c, k - 1)
      <3>1. At(h, c, k - 1) \in Nodes /\ At(h, c, k + 1) \in Nodes
        <4>1. k - 1 \in 0 .. m + 1
          BY <1>1, <1>2
        <4>2. QED
          BY <1>1, <1>2, <4>1
      <3>2. QED
        BY <1>7, <3>1
    <2>3. /\ [r.next EXCEPT ![r.prev[x]] = r.next[x]] = r.next
          /\ [r.prev EXCEPT ![r.next[x]] = r.prev[x]] = r.prev
      BY <1>7, <2>1, <2>2 DEF Links
    <2>4. r = [next |-> r.next, prev |-> r.prev]
      BY <1>7 DEF Links
    <2>5. QED
      BY <2>3, <2>4 DEF pc_listener_destroy, ngx_queue_remove
  <1>13. ASSUME NEW n \in Nodes \ RingNodes(h, c)
         PROVE  r.next[n] = q.next[n] /\ r.prev[n] = q.prev[n]
    <2>1. k - 1 \in 0 .. m + 1
      BY <1>1, <1>2
    <2>2. n # At(h, c, k - 1) /\ n # At(h, c, k + 1)
      BY <1>1, <1>2, <2>1
    <2>3. QED
      BY <1>7, <2>2
  <1>14. QED
    BY <1>7, <1>11, <1>12, <1>13 DEF r, d, x

\* ngx_queue_empty is true of the empty ring and of no other.
LEMMA EmptyRing ==
    ASSUME NEW q, NEW h \in Heads, NEW c, Ring(q, h, c)
    PROVE  ngx_queue_empty(q, h) <=> c = <<>>
  <1>1. /\ c \in Seq(Items) /\ Len(c) \in Nat
        /\ \A i \in 1 .. Len(c) : c[i] # h
    BY RingTypes
  <1>2. q.prev[h] = At(h, c, Len(c))
    <2>1. At(h, c, Len(c) + 1) = h
      BY <1>1 DEF At
    <2>2. QED
      BY <1>1, <2>1 DEF Ring
  <1>3. QED
    BY <1>1, <1>2 DEF At, ngx_queue_empty

-----------------------------------------------------------------------------
(* The map of events and its queues.                                       *)

\* The map m of events to heads, the pointers q and the allocated blocks u: C
\* gives the listeners of every head in the map, which are a ring of its own
\* and not empty; no block is in two rings, and nothing else is allocated.
Store(m, q, u, C) ==
    /\ WellFormed(m, Heads) /\ q \in Links /\ C \in [Heads -> Seq(Items)]
    /\ \A k, l \in Keys : \A h : Has(m, k, h) /\ Has(m, l, h) => k = l
    /\ \A h \in Values(m) : Ring(q, h, C[h]) /\ C[h] # <<>>
    /\ \A h, k \in Values(m) :
          h # k => RingNodes(h, C[h]) \cap RingNodes(k, C[k]) = {}
    /\ \A n : n \in u <=> \E h \in Values(m) : n \in RingNodes(h, C[h])

\* The queues as the code finds them.
Queues(m, q) ==
    [h \in Heads |-> IF h \in Values(m) THEN Chain(q, h) ELSE <<>>]

\* The values of the map are heads.
LEMMA ValuesTyped ==
    ASSUME NEW m, WellFormed(m, Heads)
    PROVE  Values(m) \subseteq Heads
  BY ValuesAreHad, HasValue

\* Walking through the pointers gives exactly the queues.
LEMMA StoreIsQueues ==
    ASSUME NEW m, NEW q, NEW u, NEW C, Store(m, q, u, C)
    PROVE  /\ \A h \in Values(m) : /\ C[h] = Chain(q, h)
                                   /\ Queues(m, q)[h] = Chain(q, h)
           /\ Store(m, q, u, Queues(m, q))
  <1>1. Values(m) \subseteq Heads
    BY ValuesTyped DEF Store
  <1>2. ASSUME NEW h \in Values(m) PROVE C[h] = Chain(q, h)
    BY <1>1, ChainOfRing DEF Store
  <1>3. \A h \in Values(m) : Queues(m, q)[h] = Chain(q, h)
    BY <1>1 DEF Queues
  <1>4. Queues(m, q) \in [Heads -> Seq(Items)]
    <2>1. ASSUME NEW h \in Heads
          PROVE  (IF h \in Values(m) THEN Chain(q, h) ELSE <<>>) \in Seq(Items)
      <3>1. C[h] \in Seq(Items) /\ <<>> \in Seq(Items)
        BY DEF Store
      <3>2. QED
        BY <1>2, <3>1
    <2>2. QED
      BY <2>1 DEF Queues
  <1>5. \A h \in Values(m) : Queues(m, q)[h] = C[h]
    BY <1>2, <1>3
  <1>6. QED
    BY <1>2, <1>3, <1>4, <1>5 DEF Store

\* Setting a key that was not there adds its value.
LEMMA ValuesOfSet ==
    ASSUME NEW m, WellFormed(m, Heads), NEW e \in Keys, ~Found(m, e),
           NEW h \in Heads
    PROVE  Values(pc_map_set(m, e, h)) = Values(m) \cup {h}
  <1>1. WellFormed(pc_map_set(m, e, h), Heads)
    BY SetHas
  <1>2. \A k \in Keys : \A v : Has(pc_map_set(m, e, h), k, v) <=>
                                  IF k = e THEN v = h ELSE Has(m, k, v)
    BY SetHas
  <1>3. \A v : ~Has(m, e, v)
    BY FoundIsHas
  <1>4. ASSUME NEW v
        PROVE  v \in Values(pc_map_set(m, e, h)) <=> v \in Values(m) \cup {h}
    <2>1. v \in Values(pc_map_set(m, e, h)) <=>
             \E k \in Keys : Has(pc_map_set(m, e, h), k, v)
      BY <1>1, ValuesAreHad
    <2>2. v \in Values(m) <=> \E k \in Keys : Has(m, k, v)
      BY ValuesAreHad
    <2>3. QED
      BY <1>2, <1>3, <2>1, <2>2
  <1>5. QED
    BY <1>4

\* Deleting a key takes its value away, if no other key has it.
LEMMA ValuesOfDel ==
    ASSUME NEW m, WellFormed(m, Heads), NEW e \in Keys, NEW h, Has(m, e, h),
           \A k, l \in Keys : \A v : Has(m, k, v) /\ Has(m, l, v) => k = l
    PROVE  Values(pc_map_del(m, e)) = Values(m) \ {h}
  <1>1. WellFormed(pc_map_del(m, e), Heads)
    BY DelHas
  <1>2. \A k \in Keys : \A v :
           Has(pc_map_del(m, e), k, v) <=> k # e /\ Has(m, k, v)
    BY DelHas
  <1>3. \A v : Has(m, e, v) => v = h
    BY HasOne
  <1>4. ASSUME NEW v
        PROVE  v \in Values(pc_map_del(m, e)) <=> v \in Values(m) \ {h}
    <2>1. v \in Values(pc_map_del(m, e)) <=>
             \E k \in Keys : Has(pc_map_del(m, e), k, v)
      BY <1>1, ValuesAreHad
    <2>2. v \in Values(m) <=> \E k \in Keys : Has(m, k, v)
      BY ValuesAreHad
    <2>3. QED
      BY <1>2, <1>3, <2>1, <2>2
  <1>5. QED
    BY <1>4

\* What pc_map_get finds is a head in the map.
LEMMA GetIsValue ==
    ASSUME NEW m, WellFormed(m, Heads), NEW e \in Keys, Found(m, e)
    PROVE  /\ pc_map_get(m, e) \in Heads /\ pc_map_get(m, e) \in Values(m)
           /\ Has(m, e, pc_map_get(m, e))
  BY GetIsHas, ValuesAreHad

\* A block that is not allocated can be written.
LEMMA StoreInit ==
    ASSUME NEW m, NEW q, NEW u, NEW C, Store(m, q, u, C), NEW x \in Nodes \ u
    PROVE  Store(m, ngx_queue_init(q, x), u, C)
  <1> DEFINE r == ngx_queue_init(q, x)
  <1>1. /\ r \in Links
        /\ \A n \in Nodes \ {x} : r.next[n] = q.next[n] /\ r.prev[n] = q.prev[n]
    BY InitRing DEF Store
  <1> HIDE DEF r
  <1>2. ASSUME NEW h \in Values(m) PROVE Ring(r, h, C[h])
    <2>1. h \in Heads /\ Ring(q, h, C[h])
      BY ValuesTyped DEF Store
    <2>2. RingNodes(h, C[h]) \subseteq Nodes
      BY <2>1, RingTypes
    <2>3. x \notin RingNodes(h, C[h])
      BY DEF Store
    <2>4. QED
      BY <1>1, <2>1, <2>2, <2>3, RingFrame
  <1>3. Store(m, r, u, C)
    BY <1>1, <1>2 DEF Store
  <1>4. QED
    BY <1>3 DEF r

\* The nodes of a ring with one more at its end, and with one less.
LEMMA RingNodesAppend ==
    ASSUME NEW h, NEW c \in Seq(Items), NEW x \in Items
    PROVE  RingNodes(h, Append(c, x)) = RingNodes(h, c) \cup {x}
  <1> DEFINE d == Append(c, x)
  <1>1. /\ Len(c) \in Nat /\ Len(d) = Len(c) + 1 /\ d[Len(c) + 1] = x
        /\ \A i \in 1 .. Len(c) : d[i] = c[i]
    OBVIOUS
  <1> HIDE DEF d
  <1>2. \A i \in 1 .. Len(d) : i \in 1 .. Len(c) \/ i = Len(c) + 1
    BY <1>1
  <1>3. \A i \in 1 .. Len(c) : i \in 1 .. Len(d)
    BY <1>1
  <1>4. Len(c) + 1 \in 1 .. Len(d)
    BY <1>1
  <1>5. RingNodes(h, d) = RingNodes(h, c) \cup {x}
    BY <1>1, <1>2, <1>3, <1>4 DEF RingNodes
  <1>6. QED
    BY <1>5 DEF d

\* The blocks of a queue without its k-th listener.
LEMMA RingNodesRemove ==
    ASSUME NEW q, NEW h \in Heads, NEW c, Ring(q, h, c), NEW k \in 1 .. Len(c)
    PROVE  RingNodes(h, RemoveNode(c, k)) = RingNodes(h, c) \ {c[k]}
  <1> DEFINE d == RemoveNode(c, k)
             m == Len(c)
  <1>1. /\ c \in Seq(Items) /\ m \in Nat /\ DOMAIN c = 1 .. m
        /\ \A i \in 1 .. m : c[i] # h
    BY RingTypes
  <1>2. \A i, j \in 1 .. m : c[i] = c[j] => i = j
    BY DEF Ring
  <1>3. /\ Len(d) = m - 1
        /\ \A i \in 1 .. m - 1 : d[i] = c[IF i < k THEN i ELSE i + 1]
    BY <1>1, RemoveNodeIs
  <1> HIDE DEF d
  <1>4. ASSUME NEW i \in 1 .. Len(d)
        PROVE  \E j \in 1 .. m : j # k /\ d[i] = c[j]
    <2>1. (IF i < k THEN i ELSE i + 1) \in 1 .. m
          /\ (IF i < k THEN i ELSE i + 1) # k /\ i \in 1 .. m - 1
      BY <1>1, <1>3
    <2>2. QED
      BY <1>3, <2>1
  <1>5. ASSUME NEW j \in 1 .. m, j # k
        PROVE  \E i \in 1 .. Len(d) : d[i] = c[j]
    <2> DEFINE i == IF j < k THEN j ELSE j - 1
    <2>1. /\ i \in 1 .. m - 1 /\ i \in 1 .. Len(d)
          /\ (IF i < k THEN i ELSE i + 1) = j
      BY <1>1, <1>3, <1>5
    <2> HIDE DEF i
    <2>2. d[i] = c[j]
      BY <1>3, <2>1
    <2>3. QED
      BY <2>1, <2>2
  <1>6. ASSUME NEW n \in RingNodes(h, d) PROVE n \in RingNodes(h, c) \ {c[k]}
    <2>1. CASE n = h
      BY <1>1, <2>1 DEF RingNodes
    <2>2. CASE n # h
      <3>1. PICK i \in 1 .. Len(d) : n = d[i]
        BY <2>2 DEF RingNodes
      <3>2. PICK j \in 1 .. m : j # k /\ d[i] = c[j]
        BY <1>4
      <3>3. c[j] # c[k]
        BY <1>2, <3>2
      <3>4. QED
        BY <3>1, <3>2, <3>3 DEF RingNodes
    <2>3. QED
      BY <2>1, <2>2
  <1>7. ASSUME NEW n \in RingNodes(h, c) \ {c[k]} PROVE n \in RingNodes(h, d)
    <2>1. CASE n = h
      BY <2>1 DEF RingNodes
    <2>2. CASE n # h
      <3>1. PICK j \in 1 .. m : n = c[j]
        BY <2>2 DEF RingNodes
      <3>2. PICK i \in 1 .. Len(d) : d[i] = c[j]
        BY <1>5, <1>7, <3>1
      <3>3. QED
        BY <3>1, <3>2 DEF RingNodes
    <2>3. QED
      BY <2>1, <2>2
  <1>8. RingNodes(h, d) = RingNodes(h, c) \ {c[k]}
    BY <1>6, <1>7
  <1>9. QED
    BY <1>8 DEF d

\* A listener is added to the queue of an event.
LEMMA StoreAppend ==
    ASSUME NEW m, NEW q, NEW u, NEW C, Store(m, q, u, C),
           NEW h \in Values(m), NEW x \in Items \ u
    PROVE  Store(m, ngx_queue_insert_tail(q, h, x), u \cup {x},
                 [C EXCEPT ![h] = Append(C[h], x)])
  <1> DEFINE r == ngx_queue_insert_tail(q, h, x)
             D == [C EXCEPT ![h] = Append(C[h], x)]
  <1>1. /\ Values(m) \subseteq Heads /\ C \in [Heads -> Seq(Items)]
        /\ \A k \in Values(m) : Ring(q, k, C[k]) /\ q \in Links
        /\ \A k, l \in Values(m) :
              k # l => RingNodes(k, C[k]) \cap RingNodes(l, C[l]) = {}
        /\ \A n : n \in u <=> \E k \in Values(m) : n \in RingNodes(k, C[k])
    BY ValuesTyped DEF Store
  <1>2. \A k \in Values(m) : x \notin RingNodes(k, C[k])
    BY <1>1
  <1>3. /\ r \in Links /\ Ring(r, h, Append(C[h], x))
        /\ \A n \in Nodes \ (RingNodes(h, C[h]) \cup {x}) :
              r.next[n] = q.next[n] /\ r.prev[n] = q.prev[n]
    BY <1>1, <1>2, InsertTailRing
  <1>4. C[h] \in Seq(Items) /\ Append(C[h], x) \in Seq(Items)
        /\ Append(C[h], x) # <<>>
    BY <1>1
  <1>5. /\ D \in [Heads -> Seq(Items)] /\ D[h] = Append(C[h], x)
        /\ \A k \in Heads : k # h => D[k] = C[k]
    BY <1>1, <1>4
  <1>6. RingNodes(h, D[h]) = RingNodes(h, C[h]) \cup {x}
    BY <1>4, <1>5, RingNodesAppend
  <1> HIDE DEF r, D
  <1>7. ASSUME NEW k \in Values(m), k # h PROVE Ring(r, k, D[k]) /\ D[k] = C[k]
    <2>1. k \in Heads /\ Ring(q, k, C[k]) /\ RingNodes(k, C[k]) \subseteq Nodes
      BY <1>1, RingTypes
    <2>2. RingNodes(k, C[k]) \cap (RingNodes(h, C[h]) \cup {x}) = {}
      BY <1>1, <1>2, <1>7
    <2>3. Ring(r, k, C[k])
      BY <1>3, <2>1, <2>2, RingFrame
    <2>4. QED
      BY <1>5, <1>7, <2>1, <2>3
  <1>8. \A k \in Values(m) : Ring(r, k, D[k]) /\ D[k] # <<>>
    BY <1>3, <1>4, <1>5, <1>7 DEF Store
  <1>9. ASSUME NEW k \in Values(m), NEW l \in Values(m), k # l
        PROVE  RingNodes(k, D[k]) \cap RingNodes(l, D[l]) = {}
    <2>1. ASSUME NEW a \in Values(m), a # h
          PROVE  RingNodes(a, D[a]) \cap RingNodes(h, D[h]) = {}
      <3>1. RingNodes(a, D[a]) = RingNodes(a, C[a])
        BY <1>7, <2>1
      <3>2. /\ RingNodes(a, C[a]) \cap RingNodes(h, C[h]) = {}
            /\ x \notin RingNodes(a, C[a])
        BY <1>1, <1>2, <2>1
      <3>3. QED
        BY <1>6, <3>1, <3>2
    <2>2. CASE k = h
      BY <1>9, <2>1, <2>2
    <2>3. CASE l = h
      BY <1>9, <2>1, <2>3
    <2>4. CASE k # h /\ l # h
      BY <1>1, <1>7, <1>9, <2>4
    <2>5. QED
      BY <2>2, <2>3, <2>4
  <1>10. ASSUME NEW n
         PROVE  n \in u \cup {x} <=> \E k \in Values(m) : n \in RingNodes(k, D[k])
    BY <1>1, <1>6, <1>7
  <1>11. Store(m, r, u \cup {x}, D)
    BY <1>3, <1>5, <1>8, <1>9, <1>10 DEF Store
  <1>12. QED
    BY <1>11 DEF r, D

\* A queue is made for an event, with its first listener.
LEMMA StoreNew ==
    ASSUME NEW m, NEW q, NEW u, NEW C, Store(m, q, u, C),
           NEW e \in Keys, ~Found(m, e),
           NEW h \in Heads \ u, NEW x \in Items \ u, Ring(q, h, <<>>)
    PROVE  Store(pc_map_set(m, e, h), ngx_queue_insert_tail(q, h, x),
                 u \cup {x, h}, [C EXCEPT ![h] = <<x>>])
  <1> DEFINE r == ngx_queue_insert_tail(q, h, x)
             D == [C EXCEPT ![h] = <<x>>]
             s == pc_map_set(m, e, h)
  <1>1. /\ Values(m) \subseteq Heads /\ C \in [Heads -> Seq(Items)]
        /\ \A k \in Values(m) : Ring(q, k, C[k]) /\ C[k] # <<>>
        /\ q \in Links /\ WellFormed(m, Heads)
        /\ \A k, l \in Values(m) :
              k # l => RingNodes(k, C[k]) \cap RingNodes(l, C[l]) = {}
        /\ \A n : n \in u <=> \E k \in Values(m) : n \in RingNodes(k, C[k])
    BY ValuesTyped DEF Store
  <1>2. RingNodes(h, <<>>) = {h} /\ h \notin Items /\ h # x
    BY ListenersAssumption DEF RingNodes
  <1>3. h \notin Values(m)
        /\ \A k \in Values(m) : x \notin RingNodes(k, C[k])
                                /\ h \notin RingNodes(k, C[k])
    BY <1>1 DEF RingNodes
  <1>4. /\ r \in Links /\ Ring(r, h, Append(<<>>, x))
        /\ \A n \in Nodes \ {h, x} :
              r.next[n] = q.next[n] /\ r.prev[n] = q.prev[n]
    <2>1. x \notin RingNodes(h, <<>>) /\ RingNodes(h, <<>>) \cup {x} = {h, x}
      BY <1>2
    <2>2. PICK c : c = <<>>
      OBVIOUS
    <2>3. Ring(q, h, c) /\ x \notin RingNodes(h, c) /\ x \in Items
      BY <2>1, <2>2
    <2>4. /\ r \in Links /\ Ring(r, h, Append(c, x))
          /\ \A n \in Nodes \ (RingNodes(h, c) \cup {x}) :
                r.next[n] = q.next[n] /\ r.prev[n] = q.prev[n]
      BY <1>1, <2>3, InsertTailRing
    <2> HIDE DEF r
    <2>5. QED
      BY <2>1, <2>2, <2>4
  <1>5. Append(<<>>, x) = <<x>> /\ <<x>> \in Seq(Items) /\ <<x>> # <<>>
        /\ <<>> \in Seq(Items)
    OBVIOUS
  <1>6. RingNodes(h, <<x>>) = {h, x}
    <2>1. PICK c : c = <<>>
      OBVIOUS
    <2>2. c \in Seq(Items) /\ x \in Items
      BY <1>5, <2>1
    <2>3. RingNodes(h, Append(c, x)) = RingNodes(h, c) \cup {x}
      BY <2>2, RingNodesAppend
    <2>4. QED
      BY <1>2, <1>5, <2>1, <2>3
  <1>7. /\ D \in [Heads -> Seq(Items)] /\ D[h] = <<x>>
        /\ \A k \in Heads : k # h => D[k] = C[k]
    BY <1>1, <1>5
  <1>8. Values(s) = Values(m) \cup {h} /\ WellFormed(s, Heads)
    BY <1>1, ValuesOfSet, SetHas
  <1>9. ASSUME NEW k \in Keys, NEW l \in Keys, NEW v, Has(s, k, v), Has(s, l, v)
        PROVE  k = l
    <2>1. \A n \in Keys : \A w : Has(s, n, w) <=>
                                  IF n = e THEN w = h ELSE Has(m, n, w)
      BY <1>1, SetHas
    <2>2. \A n \in Keys : ~Has(m, n, h)
      BY <1>1, <1>3, ValuesAreHad
    <2>3. QED
      BY <1>9, <2>1, <2>2 DEF Store
  <1> HIDE DEF r, D, s
  <1>10. ASSUME NEW k \in Values(m)
         PROVE  Ring(r, k, D[k]) /\ D[k] = C[k] /\ D[k] # <<>>
    <2>1. /\ k \in Heads /\ k # h /\ Ring(q, k, C[k])
          /\ RingNodes(k, C[k]) \subseteq Nodes
      BY <1>1, <1>3, RingTypes
    <2>2. Ring(r, k, C[k])
      <3>1. x \notin RingNodes(k, C[k]) /\ h \notin RingNodes(k, C[k])
        BY <1>3
      <3>2. \A n \in RingNodes(k, C[k]) :
               r.next[n] = q.next[n] /\ r.prev[n] = q.prev[n]
        BY <1>4, <2>1, <3>1
      <3>3. QED
        BY <2>1, <3>2, RingFrame
    <2>3. QED
      BY <1>1, <1>7, <2>1, <2>2
  <1>11. \A k \in Values(s) : Ring(r, k, D[k]) /\ D[k] # <<>>
    BY <1>4, <1>5, <1>7, <1>8, <1>10
  <1>12. ASSUME NEW k \in Values(s), NEW l \in Values(s), k # l
         PROVE  RingNodes(k, D[k]) \cap RingNodes(l, D[l]) = {}
    <2>1. RingNodes(h, D[h]) = {h, x}
      BY <1>6, <1>7
    <2>2. CASE k = h
      BY <1>3, <1>8, <1>10, <1>12, <2>1, <2>2
    <2>3. CASE l = h
      BY <1>3, <1>8, <1>10, <1>12, <2>1, <2>3
    <2>4. CASE k # h /\ l # h
      BY <1>1, <1>8, <1>10, <1>12, <2>4
    <2>5. QED
      BY <2>2, <2>3, <2>4
  <1>13. ASSUME NEW n
         PROVE  n \in u \cup {x, h} <=>
                   \E k \in Values(s) : n \in RingNodes(k, D[k])
    BY <1>1, <1>6, <1>7, <1>8, <1>10
  <1>14. Store(s, r, u \cup {x, h}, D)
    BY <1>4, <1>7, <1>8, <1>9, <1>11, <1>12, <1>13 DEF Store
  <1>15. QED
    BY <1>14 DEF r, D, s

\* free, seen from a block that is kept.
LEMMA FreedIs ==
    ASSUME NEW q \in Links, NEW S
    PROVE  /\ Freed(q, S) \in Links
           /\ \A n \in Nodes \ S : /\ Freed(q, S).next[n] = q.next[n]
                                   /\ Freed(q, S).prev[n] = q.prev[n]
  BY DEF Freed, Links

\* A listener is taken out of a queue that has others, and freed.
LEMMA StoreRemove ==
    ASSUME NEW m, NEW q, NEW u, NEW C, Store(m, q, u, C), NEW h \in Values(m),
           NEW i \in 1 .. Len(C[h]), RemoveNode(C[h], i) # <<>>
    PROVE  LET x == C[h][i]
           IN  Store(m, Freed(ngx_queue_remove(q, x), {x}), u \ {x},
                     [C EXCEPT ![h] = RemoveNode(C[h], i)])
  <1> DEFINE x == C[h][i]
             p == ngx_queue_remove(q, x)
             r == Freed(p, {x})
             d == RemoveNode(C[h], i)
             D == [C EXCEPT ![h] = d]
  <1>1. /\ Values(m) \subseteq Heads /\ C \in [Heads -> Seq(Items)]
        /\ \A k \in Values(m) : Ring(q, k, C[k]) /\ C[k] # <<>>
        /\ q \in Links /\ WellFormed(m, Heads)
        /\ \A k, l \in Values(m) :
              k # l => RingNodes(k, C[k]) \cap RingNodes(l, C[l]) = {}
        /\ \A n : n \in u <=> \E k \in Values(m) : n \in RingNodes(k, C[k])
    BY ValuesTyped DEF Store
  <1>2. h \in Heads /\ Ring(q, h, C[h])
    BY <1>1
  <1>3. /\ p \in Links /\ Ring(p, h, d)
        /\ \A n \in Nodes \ RingNodes(h, C[h]) :
              p.next[n] = q.next[n] /\ p.prev[n] = q.prev[n]
    BY <1>1, <1>2, RemoveRing
  <1>4. RingNodes(h, d) = RingNodes(h, C[h]) \ {x} /\ x \in RingNodes(h, C[h])
        /\ RingNodes(h, C[h]) \subseteq Nodes
    <2>1. RingNodes(h, d) = RingNodes(h, C[h]) \ {x}
      BY <1>2, RingNodesRemove
    <2>2. x \in RingNodes(h, C[h])
      BY DEF RingNodes
    <2>3. RingNodes(h, C[h]) \subseteq Nodes
      BY <1>2, RingTypes
    <2>4. QED
      BY <2>1, <2>2, <2>3
  <1>5. /\ r \in Links
        /\ \A n \in Nodes \ {x} : r.next[n] = p.next[n] /\ r.prev[n] = p.prev[n]
    BY <1>3, FreedIs
  <1>6. d \in Seq(Items) /\ d # <<>>
    BY <1>3 DEF Ring
  <1>7. /\ D \in [Heads -> Seq(Items)] /\ D[h] = d
        /\ \A k \in Heads : k # h => D[k] = C[k]
    BY <1>1, <1>6
  <1> HIDE DEF x, p, r, d, D
  <1>8. Ring(r, h, d)
    BY <1>2, <1>3, <1>4, <1>5, RingFrame
  <1>9. ASSUME NEW k \in Values(m), k # h PROVE Ring(r, k, D[k]) /\ D[k] = C[k]
    <2>1. /\ k \in Heads /\ Ring(q, k, C[k]) /\ RingNodes(k, C[k]) \subseteq Nodes
          /\ RingNodes(k, C[k]) \cap RingNodes(h, C[h]) = {}
      BY <1>1, <1>9, RingTypes
    <2>2. \A n \in RingNodes(k, C[k]) :
             r.next[n] = q.next[n] /\ r.prev[n] = q.prev[n]
      BY <1>3, <1>4, <1>5, <2>1
    <2>3. Ring(r, k, C[k])
      BY <2>1, <2>2, RingFrame
    <2>4. QED
      BY <1>7, <1>9, <2>1, <2>3
  <1>10. \A k \in Values(m) : Ring(r, k, D[k]) /\ D[k] # <<>>
    BY <1>1, <1>6, <1>7, <1>8, <1>9
  <1>11. ASSUME NEW k \in Values(m), NEW l \in Values(m), k # l
         PROVE  RingNodes(k, D[k]) \cap RingNodes(l, D[l]) = {}
    BY <1>1, <1>4, <1>7, <1>9, <1>11
  <1>12. ASSUME NEW n
         PROVE  n \in u \ {x} <=> \E k \in Values(m) : n \in RingNodes(k, D[k])
    <2>1. /\ RingNodes(h, D[h]) = RingNodes(h, C[h]) \ {x}
          /\ x \in RingNodes(h, C[h])
      BY <1>4, <1>7
    <2>2. ASSUME NEW k \in Values(m), k # h
          PROVE  RingNodes(k, D[k]) = RingNodes(k, C[k]) /\ x \notin RingNodes(k, C[k])
      <3>1. D[k] = C[k]
        BY <1>9, <2>2
      <3>2. RingNodes(k, C[k]) \cap RingNodes(h, C[h]) = {}
        BY <1>1, <2>2
      <3>3. QED
        BY <2>1, <3>1, <3>2
    <2>3. ASSUME NEW k \in Values(m)
          PROVE  RingNodes(k, D[k]) = RingNodes(k, C[k]) \ {x}
      <3>1. CASE k = h
        BY <2>1, <3>1
      <3>2. CASE k # h
        BY <2>2, <3>2
      <3>3. QED
        BY <3>1, <3>2
    <2>4. n \in u <=> \E k \in Values(m) : n \in RingNodes(k, C[k])
      BY <1>1
    <2>5. QED
      BY <2>3, <2>4
  <1>13. Store(m, r, u \ {x}, D)
    BY <1>5, <1>7, <1>10, <1>11, <1>12 DEF Store
  <1>14. QED
    BY <1>13 DEF x, p, r, d, D

\* The only listener of an event is taken out, and the queue with it.
LEMMA StoreEmpty ==
    ASSUME NEW m, NEW q, NEW u, NEW C, Store(m, q, u, C),
           NEW e \in Keys, NEW h, Has(m, e, h),
           NEW i \in 1 .. Len(C[h]), RemoveNode(C[h], i) = <<>>
    PROVE  LET x == C[h][i]
           IN  Store(pc_map_del(m, e), Freed(ngx_queue_remove(q, x), {x, h}),
                     u \ {x, h}, C)
  <1> DEFINE x == C[h][i]
             p == ngx_queue_remove(q, x)
             r == Freed(p, {x, h})
             s == pc_map_del(m, e)
  <1>1. /\ Values(m) \subseteq Heads /\ C \in [Heads -> Seq(Items)]
        /\ \A k \in Values(m) : Ring(q, k, C[k]) /\ C[k] # <<>>
        /\ q \in Links /\ WellFormed(m, Heads)
        /\ \A k, l \in Values(m) :
              k # l => RingNodes(k, C[k]) \cap RingNodes(l, C[l]) = {}
        /\ \A n : n \in u <=> \E k \in Values(m) : n \in RingNodes(k, C[k])
    BY ValuesTyped DEF Store
  <1>2. h \in Values(m)
    BY <1>1, ValuesAreHad
  <1>3. h \in Heads /\ Ring(q, h, C[h])
    BY <1>1, <1>2
  <1>4. /\ p \in Links
        /\ \A n \in Nodes \ RingNodes(h, C[h]) :
              p.next[n] = q.next[n] /\ p.prev[n] = q.prev[n]
    BY <1>1, <1>3, RemoveRing
  <1>5. RingNodes(h, C[h]) = {x, h}
    <2>1. RingNodes(h, <<>>) = RingNodes(h, C[h]) \ {x}
      BY <1>3, RingNodesRemove
    <2>2. x \in RingNodes(h, C[h])
      BY DEF RingNodes
    <2>3. RingNodes(h, <<>>) = {h}
      BY DEF RingNodes
    <2>4. QED
      BY <2>1, <2>2, <2>3
  <1>6. /\ r \in Links
        /\ \A n \in Nodes \ {x, h} :
              r.next[n] = p.next[n] /\ r.prev[n] = p.prev[n]
    BY <1>4, FreedIs
  <1>7. Values(s) = Values(m) \ {h} /\ WellFormed(s, Heads)
    <2>1. \A k, l \in Keys : \A v : Has(m, k, v) /\ Has(m, l, v) => k = l
      BY DEF Store
    <2>2. QED
      BY <1>1, <2>1, ValuesOfDel, DelHas
  <1>8. ASSUME NEW k \in Keys, NEW l \in Keys, NEW v, Has(s, k, v), Has(s, l, v)
        PROVE  k = l
    <2>1. Has(m, k, v) /\ Has(m, l, v)
      BY <1>1, <1>8, DelHas
    <2>2. QED
      BY <2>1 DEF Store
  <1> HIDE DEF x, p, r, s
  <1>9. ASSUME NEW k \in Values(s) PROVE Ring(r, k, C[k]) /\ C[k] # <<>>
    <2>1. /\ k \in Values(m) /\ k # h /\ k \in Heads /\ Ring(q, k, C[k])
          /\ RingNodes(k, C[k]) \subseteq Nodes
          /\ RingNodes(k, C[k]) \cap RingNodes(h, C[h]) = {}
      BY <1>1, <1>2, <1>7, RingTypes
    <2>2. \A n \in RingNodes(k, C[k]) :
             r.next[n] = q.next[n] /\ r.prev[n] = q.prev[n]
      BY <1>4, <1>5, <1>6, <2>1
    <2>3. Ring(r, k, C[k])
      BY <2>1, <2>2, RingFrame
    <2>4. QED
      BY <1>1, <2>1, <2>3
  <1>10. ASSUME NEW k \in Values(s), NEW l \in Values(s), k # l
         PROVE  RingNodes(k, C[k]) \cap RingNodes(l, C[l]) = {}
    BY <1>1, <1>7, <1>10
  <1>11. ASSUME NEW n
         PROVE  n \in u \ {x, h} <=>
                   \E k \in Values(s) : n \in RingNodes(k, C[k])
    BY <1>1, <1>2, <1>5, <1>7
  <1>12. Store(s, r, u \ {x, h}, C)
    BY <1>1, <1>6, <1>7, <1>8, <1>9, <1>10, <1>11 DEF Store
  <1>13. QED
    BY <1>12 DEF x, p, r, s

-----------------------------------------------------------------------------
(* The inductive invariant.                                                *)

\* The thread is between lock and unlock of listener_mutex.
Busy == {"add", "remove", "emit", "loop", "cb", "stuck"}

\* Every variable has its type, and a call in progress has its arguments.
Typed ==
    /\ closed \in BOOLEAN /\ freed \in BOOLEAN
    /\ cb_of \in [Items -> Cbs]
    /\ pc \in [Threads -> {"idle", "lock_add"} \cup Busy]
    /\ op \in [Threads -> Ops \cup {NoOp}]
    /\ head \in [Threads -> Heads \cup {NULL}]
    /\ item \in [Threads -> Nodes \cup {NULL}]
    /\ mutex \in Threads \cup {NULL}
    /\ \A t \in Threads :
          /\ pc[t] \in {"add", "remove"} =>
                op[t] \in [kind : {"add", "remove"}, event : Events, cb : Cbs]
          /\ pc[t] \in {"emit", "loop", "cb", "stuck"} =>
                op[t] \in [kind : {"emit"}, event : Events]

\* listener_mutex excludes: the thread that is busy is the one that owns it.
Locked == \A t \in Threads : pc[t] \in Busy <=> mutex = t

\* The heap is the map of events and its queues.
Kept == Store(listeners, links, used, Queues(listeners, links))

\* Where pc_emit_event is in its queue.
Cursor ==
    \A t \in Threads :
        /\ pc[t] \notin {"loop", "cb", "stuck"} =>
              head[t] = NULL /\ item[t] = NULL
        /\ pc[t] \in {"loop", "cb", "stuck"} =>
              /\ Found(listeners, op[t].event)
              /\ head[t] = pc_map_get(listeners, op[t].event)
              /\ \E i \in 1 .. Len(Chain(links, head[t]))
                               + (IF pc[t] = "loop" THEN 1 ELSE 0) :
                    item[t] = At(head[t], Chain(links, head[t]), i)

\* The inductive invariant.
ListenersInv == Typed /\ Locked /\ Kept /\ Cursor
-----------------------------------------------------------------------------
(* What add and remove do to the queue of every event.                     *)

\* The listeners of the event e, oldest first.
Listed(m, q, e) == IF Found(m, e) THEN Chain(q, pc_map_get(m, e)) ELSE <<>>

\* What is listed is what the store has, all of it allocated.
LEMMA ListedIs ==
    ASSUME NEW m, NEW q, NEW u, NEW C, Store(m, q, u, C), NEW e \in Keys
    PROVE  /\ Listed(m, q, e) = IF Found(m, e) THEN C[pc_map_get(m, e)] ELSE <<>>
           /\ Listed(m, q, e) \in Seq(Items)
           /\ \A i \in 1 .. Len(Listed(m, q, e)) : Listed(m, q, e)[i] \in u
  <1>1. CASE Found(m, e)
    <2> DEFINE h == pc_map_get(m, e)
    <2>1. h \in Heads /\ h \in Values(m)
      BY <1>1, GetIsValue DEF Store
    <2>2. Chain(q, h) = C[h]
      BY <2>1, StoreIsQueues
    <2>3. \A i \in 1 .. Len(C[h]) : C[h][i] \in u
      BY <2>1 DEF Store, RingNodes
    <2>4. C[h] \in Seq(Items)
      BY <2>1 DEF Store
    <2>5. QED
      BY <1>1, <2>2, <2>3, <2>4 DEF Listed
  <1>2. CASE ~Found(m, e)
    BY <1>2 DEF Listed
  <1>3. QED
    BY <1>1, <1>2

\* Two events do not share a head.
LEMMA HeadsDiffer ==
    ASSUME NEW m, NEW q, NEW u, NEW C, Store(m, q, u, C),
           NEW e \in Keys, NEW k \in Keys, e # k, Found(m, e), Found(m, k)
    PROVE  pc_map_get(m, e) # pc_map_get(m, k)
  <1>1. WellFormed(m, Heads)
    BY DEF Store
  <1>2. Has(m, e, pc_map_get(m, e)) /\ Has(m, k, pc_map_get(m, k))
    BY <1>1, GetIsHas
  <1>3. QED
    BY <1>2 DEF Store

\* Changing one queue changes what is listed for its event only.
LEMMA ListedExcept ==
    ASSUME NEW m, NEW q, NEW u, NEW C, Store(m, q, u, C),
           NEW e \in Keys, Found(m, e), NEW d,
           NEW r, NEW v, Store(m, r, v, [C EXCEPT ![pc_map_get(m, e)] = d]),
           NEW k \in Keys
    PROVE  Listed(m, r, k) = IF k = e THEN d ELSE Listed(m, q, k)
  <1> DEFINE h == pc_map_get(m, e)
             D == [C EXCEPT ![h] = d]
  <1>1. h \in Heads /\ C \in [Heads -> Seq(Items)]
    BY GetIsValue DEF Store
  <1>2. D[h] = d /\ \A g \in Heads : g # h => D[g] = C[g]
    BY <1>1
  <1>3. Listed(m, r, k) = IF Found(m, k) THEN D[pc_map_get(m, k)] ELSE <<>>
    BY ListedIs
  <1>4. Listed(m, q, k) = IF Found(m, k) THEN C[pc_map_get(m, k)] ELSE <<>>
    BY ListedIs
  <1> HIDE DEF D
  <1>5. CASE k = e
    BY <1>2, <1>3, <1>5
  <1>6. CASE k # e
    <2>1. Found(m, k) => pc_map_get(m, k) # h /\ pc_map_get(m, k) \in Heads
      BY <1>6, HeadsDiffer, GetIsValue DEF Store
    <2>2. QED
      BY <1>2, <1>3, <1>4, <1>6, <2>1
  <1>7. QED
    BY <1>5, <1>6

\* malloc gives a block of S that is free, if there is one.
LEMMA MallocIs ==
    ASSUME NEW S \in SUBSET Nat, S \ used # {}
    PROVE  malloc(S) \in S \ used
  <1>1. S \ used \in SUBSET Nat
    OBVIOUS
  <1>2. \E x \in S \ used : \A y \in S \ used : x <= y
    BY <1>1, LeastNatural
  <1>3. QED
    BY <1>2 DEF malloc

\* pc_add_listener appends a new block to the queue of its event, which is
\* made if need be, and touches no other queue.
LEMMA AddStep ==
    ASSUME ListenersInv, NEW t \in Threads, AddListener(t)
    PROVE  LET e == op[t].event
               l == malloc(Items)
           IN  /\ Kept' /\ e \in Keys /\ l \in Items \ used
               /\ cb_of' = [cb_of EXCEPT ![l] = op[t].cb]
               /\ \A k \in Keys : Listed(listeners', links', k) =
                     IF k = e THEN Append(Listed(listeners, links, e), l)
                     ELSE Listed(listeners, links, k)
  <1> DEFINE e == op[t].event
             l == malloc(Items)
             C == Queues(listeners, links)
  <1>1. e \in Keys /\ op[t].cb \in Cbs
    <2>1. op[t] \in [kind : {"add", "remove"}, event : Events, cb : Cbs]
      BY DEF AddListener, ListenersInv, Typed
    <2>2. QED
      BY <2>1 DEF Events
  <1>2. Store(listeners, links, used, C)
    BY DEF ListenersInv, Kept
  <1>3. l \in Items \ used
    <2>1. Items \in SUBSET Nat /\ Items \ used # {}
      BY ListenersAssumption DEF AddListener
    <2>2. QED
      BY <2>1, MallocIs
  <1>4. l \in Nodes \ used
    BY <1>3 DEF Nodes
  <1>5. WellFormed(listeners, Heads)
    BY <1>2 DEF Store
  <1>6. cb_of' = [cb_of EXCEPT ![l] = op[t].cb]
    BY DEF AddListener
  <1> HIDE DEF l, C
  <1>7. CASE Found(listeners, e)
    <2> DEFINE h == pc_map_get(listeners, e)
               q == ngx_queue_init(links, l)
               D == [C EXCEPT ![h] = Append(C[h], l)]
    <2>1. /\ links' = ngx_queue_insert_tail(q, h, l)
          /\ used' = used \cup {l} /\ listeners' = listeners
      BY <1>7 DEF AddListener, l
    <2>2. h \in Heads /\ h \in Values(listeners)
      BY <1>1, <1>5, <1>7, GetIsValue
    <2>3. Store(listeners, q, used, C)
      BY <1>2, <1>4, StoreInit
    <2> HIDE DEF q
    <2>4. Store(listeners, ngx_queue_insert_tail(q, h, l), used \cup {l}, D)
      BY <1>3, <2>2, <2>3, StoreAppend
    <2>5. Store(listeners', links', used', D)
      BY <2>1, <2>4
    <2>6. Kept'
      BY <2>5, StoreIsQueues DEF Kept
    <2>7. Listed(listeners, links, e) = C[h]
      BY <1>1, <1>2, <1>7, ListedIs
    <2>8. ASSUME NEW k \in Keys
          PROVE  Listed(listeners, links', k) =
                    IF k = e THEN Append(C[h], l) ELSE Listed(listeners, links, k)
      <3> DEFINE d == Append(C[h], l)
                 r == ngx_queue_insert_tail(q, h, l)
                 u == used \cup {l}
      <3>1. Store(listeners, r, u, [C EXCEPT ![h] = d])
        BY <2>4
      <3> HIDE DEF d, r, u
      <3>2. Listed(listeners, r, k) =
               IF k = e THEN d ELSE Listed(listeners, links, k)
        BY <1>1, <1>2, <1>7, <3>1, ListedExcept, SMTT(30)
      <3>3. QED
        BY <2>1, <3>2 DEF d, r
    <2>9. QED
      BY <1>1, <1>3, <1>6, <2>1, <2>6, <2>7, <2>8 DEF l
  <1>8. CASE ~Found(listeners, e)
    <2> DEFINE h == malloc(Heads)
               p == ngx_queue_init(links, l)
               q == ngx_queue_init(p, h)
               D == [C EXCEPT ![h] = <<l>>]
               s == pc_map_set(listeners, e, h)
    <2>1. /\ links' = ngx_queue_insert_tail(q, h, l) /\ Heads \ used # {}
          /\ used' = used \cup {l, h} /\ listeners' = s
      BY <1>8 DEF AddListener, l
    <2>2. h \in Heads \ used /\ h \in Nodes \ used
      <3>1. Heads \in SUBSET Nat
        BY ListenersAssumption
      <3>2. QED
        BY <2>1, <3>1, MallocIs DEF Nodes
    <2> HIDE DEF h
    <2>3. Store(listeners, p, used, C)
      BY <1>2, <1>4, StoreInit
    <2>4. Store(listeners, q, used, C) /\ Ring(q, h, <<>>)
      BY <2>2, <2>3, StoreInit, InitRing DEF Store
    <2> HIDE DEF p, q
    <2>5. Store(s, ngx_queue_insert_tail(q, h, l), used \cup {l, h}, D)
      BY <1>1, <1>3, <1>8, <2>2, <2>4, StoreNew
    <2>6. Store(listeners', links', used', D)
      BY <2>1, <2>5
    <2>7. Kept'
      BY <2>6, StoreIsQueues DEF Kept
    <2>8. Found(s, e) /\ pc_map_get(s, e) = h
      BY <1>1, <1>5, <2>2, MapOperations
    <2>9. \A k \in Keys \ {e} :
             /\ Found(s, k) <=> Found(listeners, k)
             /\ Found(listeners, k) => pc_map_get(s, k) = pc_map_get(listeners, k)
      BY <1>1, <1>5, <2>2, MapOperations
    <2>10. C \in [Heads -> Seq(Items)] /\ h \notin Values(listeners)
      BY <1>2, <2>2 DEF Store, RingNodes
    <2>11. D[h] = <<l>> /\ \A g \in Heads : g # h => D[g] = C[g]
      BY <2>2, <2>10
    <2> HIDE DEF D, s
    <2>12. ASSUME NEW k \in Keys
           PROVE  Listed(s, links', k) =
                     IF k = e THEN Append(Listed(listeners, links, e), l)
                     ELSE Listed(listeners, links, k)
      <3>1. Listed(s, links', k) = IF Found(s, k) THEN D[pc_map_get(s, k)] ELSE <<>>
        BY <2>1, <2>5, ListedIs
      <3>2. Listed(listeners, links, k) =
               IF Found(listeners, k) THEN C[pc_map_get(listeners, k)] ELSE <<>>
        BY <1>2, ListedIs
      <3>3. CASE k = e
        <4>1. Listed(listeners, links, e) = <<>>
          BY <1>8 DEF Listed
        <4>2. Append(<<>>, l) = <<l>>
          OBVIOUS
        <4>3. Append(Listed(listeners, links, e), l) = <<l>>
          BY <4>1, <4>2
        <4>4. QED
          BY <2>8, <2>11, <3>1, <3>3, <4>3
      <3>4. CASE k # e
        <4>1. Found(listeners, k) => /\ pc_map_get(listeners, k) \in Heads
                                     /\ pc_map_get(listeners, k) # h
          BY <1>5, <2>10, GetIsValue
        <4>2. QED
          BY <2>9, <2>11, <3>1, <3>2, <3>4, <4>1
      <3>5. QED
        BY <3>3, <3>4
    <2>13. QED
      BY <1>1, <1>3, <1>6, <2>1, <2>7, <2>12 DEF l, s
  <1>9. QED
    BY <1>7, <1>8

\* The listener that pc_remove_listener takes is the oldest of its event with
\* this callback.
LEMMA FirstHitIs ==
    ASSUME ListenersInv, NEW o, o.event \in Keys, Found(listeners, o.event)
    PROVE  LET c == Listed(listeners, links, o.event)
           IN  \/ /\ \A j \in DOMAIN c : cb_of[c[j]] # o.cb
                  /\ FirstHit(o) = {}
               \/ \E i \in DOMAIN c :
                     /\ cb_of[c[i]] = o.cb /\ FirstHit(o) = {c[i]}
                     /\ \A j \in DOMAIN c : cb_of[c[j]] = o.cb => i <= j
  <1> DEFINE c == Listed(listeners, links, o.event)
             hits == {i \in DOMAIN c : cb_of[c[i]] = o.cb}
             least == {i \in hits : \A j \in hits : i <= j}
  <1>1. c = Chain(links, pc_map_get(listeners, o.event))
    BY DEF Listed
  <1>2. FirstHit(o) = {c[i] : i \in least}
    BY <1>1 DEF FirstHit
  <1>3. c \in Seq(Items)
    BY ListedIs DEF ListenersInv, Kept
  <1>4. hits \in SUBSET Nat
    BY <1>3
  <1> HIDE DEF c
  <1>5. CASE hits = {}
    BY <1>2, <1>5 DEF c
  <1>6. CASE hits # {}
    <2>1. PICK i \in hits : \A j \in hits : i <= j
      BY <1>4, <1>6, LeastNatural
    <2>2. least = {i}
      BY <1>4, <2>1
    <2>3. FirstHit(o) = {c[i]}
      BY <1>2, <2>2
    <2>4. QED
      BY <2>1, <2>3 DEF c
  <1>7. QED
    BY <1>5, <1>6

\* free of nothing changes nothing.
LEMMA FreedNothing ==
    ASSUME NEW q \in Links
    PROVE  Freed(q, {}) = q
  BY DEF Freed, Links

\* pc_remove_listener takes the oldest listener with the callback out of the
\* queue of its event, if there is one, and touches no other queue.
LEMMA RemoveStep ==
    ASSUME ListenersInv, NEW t \in Threads, RemoveListener(t)
    PROVE  LET e == op[t].event
               c == Listed(listeners, links, e)
           IN  /\ Kept' /\ e \in Keys
               /\ \/ /\ \A j \in DOMAIN c : cb_of[c[j]] # op[t].cb
                     /\ links' = links /\ listeners' = listeners
                     /\ cb_of' = cb_of
                  \/ \E i \in DOMAIN c :
                        /\ cb_of[c[i]] = op[t].cb
                        /\ \A j \in DOMAIN c : cb_of[c[j]] = op[t].cb => i <= j
                        /\ \A n \in Items \ {c[i]} : cb_of'[n] = cb_of[n]
                        /\ \A k \in Keys : Listed(listeners', links', k) =
                              IF k = e THEN RemoveNode(c, i)
                              ELSE Listed(listeners, links, k)
  <1> DEFINE o == op[t]
             e == o.event
             c == Listed(listeners, links, e)
             h == pc_map_get(listeners, e)
             C == Queues(listeners, links)
             l == FirstHit(o)
             q == Unlinked(l)
  <1>1. e \in Keys /\ o.cb \in Cbs
    <2>1. op[t] \in [kind : {"add", "remove"}, event : Events, cb : Cbs]
      BY DEF RemoveListener, ListenersInv, Typed
    <2>2. QED
      BY <2>1 DEF Events
  <1>2. Store(listeners, links, used, C)
    BY DEF ListenersInv, Kept
  <1>3. Found(listeners, e) /\ WellFormed(listeners, Heads) /\ links \in Links
    BY <1>2 DEF RemoveListener, Store
  <1>4. \/ /\ ~ngx_queue_empty(q, h) /\ Free(q, l) /\ listeners' = listeners
        \/ /\ ngx_queue_empty(q, h) /\ Free(q, l \cup {h})
           /\ listeners' = pc_map_del(listeners, e)
    BY DEF RemoveListener
  <1>5. /\ h \in Heads /\ h \in Values(listeners) /\ Has(listeners, e, h)
        /\ c = C[h]
    BY <1>1, <1>2, <1>3, GetIsValue, ListedIs
  <1>6. Ring(links, h, c) /\ c # <<>> /\ c \in Seq(Items) /\ Len(c) \in Nat
        /\ DOMAIN c = 1 .. Len(c)
    BY <1>2, <1>5, RingTypes DEF Store
  <1>7. \/ /\ \A j \in DOMAIN c : cb_of[c[j]] # o.cb
           /\ l = {}
        \/ \E i \in DOMAIN c :
              /\ cb_of[c[i]] = o.cb /\ l = {c[i]}
              /\ \A j \in DOMAIN c : cb_of[c[j]] = o.cb => i <= j
    BY <1>1, <1>3, FirstHitIs
  <1> HIDE DEF C, l
  <1>8. CASE (\A j \in DOMAIN c : cb_of[c[j]] # o.cb) /\ l = {}
    <2>1. q = links
      BY <1>8 DEF Unlinked
    <2>2. ~ngx_queue_empty(links, h)
      BY <1>5, <1>6, EmptyRing
    <2>3. Free(links, {}) /\ listeners' = listeners
      BY <1>4, <1>8, <2>1, <2>2
    <2>4. links' = Freed(links, {}) /\ used' = used \ {}
          /\ cb_of' = [n \in Items |-> cb_of[n]]
      BY <2>3 DEF Free, Freed
    <2>5. links' = links /\ used' = used /\ cb_of' = cb_of
      BY <1>3, <2>4, FreedNothing DEF ListenersInv, Typed
    <2>6. Kept'
      BY <1>2, <2>3, <2>5 DEF Kept, C
    <2>7. QED
      BY <1>1, <1>8, <2>3, <2>5, <2>6
  <1>9. CASE \E i \in DOMAIN c :
                /\ cb_of[c[i]] = o.cb /\ l = {c[i]}
                /\ \A j \in DOMAIN c : cb_of[c[j]] = o.cb => i <= j
    <2>1. PICK i \in DOMAIN c :
             /\ cb_of[c[i]] = o.cb /\ l = {c[i]}
             /\ \A j \in DOMAIN c : cb_of[c[j]] = o.cb => i <= j
      BY <1>9
    <2> DEFINE x == c[i]
               r == ngx_queue_remove(links, x)
               d == RemoveNode(c, i)
    <2>2. i \in 1 .. Len(c) /\ x \in Items
      BY <1>6
    <2>3. Ring(r, h, d) /\ pc_listener_destroy(r, x) = r
      BY <1>3, <1>5, <1>6, <2>2, RemoveRing
    <2> HIDE DEF x
    <2>4. q = r
      <3>1. (CHOOSE y \in {x} : TRUE) = x /\ l # {} /\ l = {x}
        BY <2>1 DEF x
      <3>2. q = pc_listener_destroy(ngx_queue_remove(links, x), x)
        BY <3>1 DEF Unlinked
      <3>3. QED
        BY <2>3, <3>2
    <2> HIDE DEF q, r, d
    <2>5. ngx_queue_empty(q, h) <=> d = <<>>
      BY <1>5, <2>3, <2>4, EmptyRing
    <2>6. \A n \in Items \ {x} : cb_of'[n] = cb_of[n]
      <3>1. Free(q, {x}) \/ Free(q, {x} \cup {h})
        BY <1>4, <2>1 DEF x
      <3>2. h \notin Items
        BY <1>5, <1>6, RingTypes
      <3>3. QED
        BY <3>1, <3>2 DEF Free
    <2>7. CASE d # <<>>
      <3>1. Free(q, {x}) /\ listeners' = listeners
        BY <1>4, <2>1, <2>5, <2>7 DEF x
      <3>2. links' = Freed(r, {x}) /\ used' = used \ {x}
        BY <2>4, <3>1 DEF Free, Freed
      <3>3. Store(listeners, Freed(r, {x}), used \ {x}, [C EXCEPT ![h] = d])
        BY <1>2, <1>5, <2>2, <2>7, StoreRemove DEF x, r, d
      <3>4. Kept'
        <4>1. Store(listeners', links', used', [C EXCEPT ![h] = d])
          BY <3>1, <3>2, <3>3
        <4>2. QED
          BY <4>1, StoreIsQueues DEF Kept
      <3>5. ASSUME NEW k \in Keys
            PROVE  Listed(listeners, links', k) =
                      IF k = e THEN d ELSE Listed(listeners, links, k)
        <4>1. Listed(listeners, Freed(r, {x}), k) =
                 IF k = e THEN d ELSE Listed(listeners, links, k)
          BY <1>1, <1>2, <1>3, <3>3, ListedExcept
        <4>2. QED
          BY <3>2, <4>1
      <3>6. QED
        BY <1>1, <2>1, <2>6, <3>1, <3>4, <3>5 DEF x, d
    <2>8. CASE d = <<>>
      <3> DEFINE s == pc_map_del(listeners, e)
      <3>1. Free(q, {x, h}) /\ listeners' = s
        <4>1. {x} \cup {h} = {x, h}
          OBVIOUS
        <4>2. QED
          BY <1>4, <2>1, <2>5, <2>8, <4>1 DEF x
      <3>2. links' = Freed(r, {x, h}) /\ used' = used \ {x, h}
        BY <2>4, <3>1 DEF Free, Freed
      <3>3. Store(s, Freed(r, {x, h}), used \ {x, h}, C)
        BY <1>1, <1>2, <1>5, <2>2, <2>8, StoreEmpty DEF x, r, d
      <3>4. Kept'
        <4>1. Store(listeners', links', used', C)
          BY <3>1, <3>2, <3>3
        <4>2. QED
          BY <4>1, StoreIsQueues DEF Kept
      <3>5. ~Found(s, e)
        BY <1>1, <1>3, <1>5, MapOperations
      <3>6. \A k \in Keys \ {e} :
               /\ Found(s, k) <=> Found(listeners, k)
               /\ Found(listeners, k) =>
                     pc_map_get(s, k) = pc_map_get(listeners, k)
        BY <1>1, <1>3, <1>5, MapOperations
      <3> HIDE DEF s
      <3>7. ASSUME NEW k \in Keys
            PROVE  Listed(s, links', k) =
                      IF k = e THEN d ELSE Listed(listeners, links, k)
        <4>1. Listed(s, links', k) =
                 IF Found(s, k) THEN C[pc_map_get(s, k)] ELSE <<>>
          BY <3>2, <3>3, ListedIs
        <4>2. Listed(listeners, links, k) =
                 IF Found(listeners, k) THEN C[pc_map_get(listeners, k)]
                 ELSE <<>>
          BY <1>2, ListedIs
        <4>3. QED
          BY <2>8, <3>5, <3>6, <4>1, <4>2
      <3>8. QED
        BY <1>1, <2>1, <2>6, <3>1, <3>4, <3>7 DEF x, d, s
    <2>9. QED
      BY <2>7, <2>8
  <1>10. QED
    BY <1>7, <1>8, <1>9

-----------------------------------------------------------------------------
(* The invariant is inductive.                                             *)

\* The heap as pc_add_listener, pc_emit_event and pc__release_listeners see
\* it: the queue of a head in the map is a ring.
LEMMA KeptRings ==
    ASSUME Kept, NEW h \in Values(listeners)
    PROVE  /\ h \in Heads /\ links \in Links
           /\ Ring(links, h, Chain(links, h)) /\ Chain(links, h) # <<>>
           /\ Released(h) = RingNodes(h, Chain(links, h))
  <1>1. h \in Heads /\ links \in Links
    BY ValuesTyped DEF Kept, Store
  <1>2. Queues(listeners, links)[h] = Chain(links, h)
    BY <1>1 DEF Queues
  <1>3. Ring(links, h, Chain(links, h)) /\ Chain(links, h) # <<>>
    BY <1>2 DEF Kept, Store
  <1>4. DOMAIN Chain(links, h) = 1 .. Len(Chain(links, h))
    BY <1>1, <1>3, RingTypes
  <1>5. QED
    BY <1>1, <1>3, <1>4 DEF Released, RingNodes

\* No event has a queue, no block is allocated.
LEMMA EmptyStore ==
    ASSUME NEW q \in Links
    PROVE  Store(pc_map_init, q, {}, Queues(pc_map_init, q))
  <1>1. /\ WellFormed(pc_map_init, Heads)
        /\ \A k \in Keys : \A v : ~Has(pc_map_init, k, v)
    BY InitHasNone
  <1>2. Values(pc_map_init) = {}
    BY <1>1, ValuesAreHad
  <1>3. Queues(pc_map_init, q) \in [Heads -> Seq(Items)]
    BY <1>2 DEF Queues
  <1>4. QED
    BY <1>1, <1>2, <1>3 DEF Store

\* A new client.
LEMMA ListenersInit == Init => ListenersInv
  <1> SUFFICES ASSUME Init PROVE ListenersInv
    OBVIOUS
  <1>1. AnyCb \in Cbs
    BY ListenersAssumption DEF AnyCb
  <1>2. Typed
    BY <1>1 DEF Init, Typed
  <1>3. Locked
    BY ListenersAssumption DEF Init, Locked, Busy
  <1>4. links \in Links
    BY DEF Init, Links
  <1>5. Kept
    BY <1>4, EmptyStore DEF Init, Kept
  <1>6. Cursor
    BY DEF Init, Cursor
  <1>7. QED
    BY <1>2, <1>3, <1>5, <1>6 DEF ListenersInv

\* What a call leaves behind when it returns.
LEMMA UnlockStep ==
    ASSUME ListenersInv, NEW t \in Threads, pc[t] \in Busy, Unlock(t)
    PROVE  /\ pc' \in [Threads -> {"idle", "lock_add"} \cup Busy]
           /\ op' \in [Threads -> Ops \cup {NoOp}]
           /\ head' \in [Threads -> Heads \cup {NULL}]
           /\ item' \in [Threads -> Nodes \cup {NULL}]
           /\ mutex' \in Threads \cup {NULL}
           /\ \A s \in Threads : /\ pc'[s] \in {"idle", "lock_add"}
                                 /\ head'[s] = NULL /\ item'[s] = NULL
           /\ Locked'
  <1>1. /\ mutex = t /\ mutex' = NULL
        /\ pc' = [pc EXCEPT ![t] = "idle"] /\ op' = [op EXCEPT ![t] = NoOp]
        /\ head' = [head EXCEPT ![t] = NULL] /\ item' = [item EXCEPT ![t] = NULL]
    BY DEF Unlock, ListenersInv, Locked
  <1>2. /\ pc \in [Threads -> {"idle", "lock_add"} \cup Busy]
        /\ op \in [Threads -> Ops \cup {NoOp}]
        /\ head \in [Threads -> Heads \cup {NULL}]
        /\ item \in [Threads -> Nodes \cup {NULL}]
    BY DEF ListenersInv, Typed
  <1>3. ASSUME NEW s \in Threads, s # t
        PROVE  /\ pc[s] \notin Busy /\ pc[s] \notin {"loop", "cb", "stuck"}
               /\ head[s] = NULL /\ item[s] = NULL
    BY <1>1, <1>3 DEF ListenersInv, Locked, Cursor, Busy
  <1>4. /\ pc' \in [Threads -> {"idle", "lock_add"} \cup Busy]
        /\ op' \in [Threads -> Ops \cup {NoOp}]
        /\ head' \in [Threads -> Heads \cup {NULL}]
        /\ item' \in [Threads -> Nodes \cup {NULL}]
    BY <1>1, <1>2
  <1>5. ASSUME NEW s \in Threads
        PROVE  pc'[s] \in {"idle", "lock_add"} /\ head'[s] = NULL
               /\ item'[s] = NULL
    BY <1>1, <1>2, <1>3
  <1>6. Locked'
    BY <1>1, <1>5, ListenersAssumption DEF Locked, Busy
  <1>7. QED
    BY <1>1, <1>4, <1>5, <1>6

\* A call that returns preserves everything but, perhaps, the heap.
LEMMA ReturnStep ==
    ASSUME ListenersInv, NEW t \in Threads, pc[t] \in Busy, Unlock(t),
           closed' = closed, freed' = freed, cb_of' \in [Items -> Cbs]
    PROVE  Typed' /\ Locked' /\ Cursor'
  <1>1. /\ pc' \in [Threads -> {"idle", "lock_add"} \cup Busy]
        /\ op' \in [Threads -> Ops \cup {NoOp}]
        /\ head' \in [Threads -> Heads \cup {NULL}]
        /\ item' \in [Threads -> Nodes \cup {NULL}]
        /\ mutex' \in Threads \cup {NULL} /\ Locked'
    BY UnlockStep
  <1>2. \A s \in Threads : /\ pc'[s] \in {"idle", "lock_add"}
                           /\ head'[s] = NULL /\ item'[s] = NULL
    BY UnlockStep
  <1>3. closed' \in BOOLEAN /\ freed' \in BOOLEAN
    BY DEF ListenersInv, Typed
  <1>4. \A s \in Threads :
           pc'[s] \notin {"add", "remove", "emit", "loop", "cb", "stuck"}
    BY <1>2
  <1>5. Typed'
    BY <1>1, <1>3, <1>4 DEF Typed
  <1>6. Cursor'
    BY <1>2, <1>4 DEF Cursor
  <1>7. QED
    BY <1>1, <1>5, <1>6

\* pc_emit_event at the i-th place of its queue.
LEMMA CursorAt ==
    ASSUME ListenersInv, NEW t \in Threads, pc[t] \in {"loop", "cb", "stuck"}
    PROVE  LET h == head[t]
               c == Chain(links, h)
           IN  /\ h \in Values(listeners) /\ h \in Heads /\ h # NULL
               /\ Ring(links, h, c) /\ c # <<>> /\ Len(c) \in Nat
               /\ op[t].event \in Keys
               /\ h = pc_map_get(listeners, op[t].event)
               /\ Found(listeners, op[t].event)
               /\ \E i \in 1 .. Len(c) + 1 :
                     /\ item[t] = At(h, c, i)
                     /\ pc[t] # "loop" => i \in 1 .. Len(c)
                     /\ item[t] # h <=> i \in 1 .. Len(c)
  <1> DEFINE h == head[t]
             c == Chain(links, h)
  <1>1. op[t].event \in Keys
    BY DEF ListenersInv, Typed, Events
  <1>2. /\ Found(listeners, op[t].event)
        /\ h = pc_map_get(listeners, op[t].event)
        /\ \E i \in 1 .. Len(c) + (IF pc[t] = "loop" THEN 1 ELSE 0) :
              item[t] = At(h, c, i)
    BY DEF ListenersInv, Cursor
  <1>3. h \in Values(listeners) /\ Kept
    BY <1>1, <1>2, GetIsValue DEF ListenersInv, Kept, Store
  <1>4. h \in Heads /\ Ring(links, h, c) /\ c # <<>>
    BY <1>3, KeptRings
  <1>5. Len(c) \in Nat /\ \A i \in 1 .. Len(c) : c[i] # h
    BY <1>4, RingTypes
  <1>6. h # NULL
    BY <1>4, ListenersAssumption
  <1> HIDE DEF c
  <1>7. PICK i \in 1 .. Len(c) + (IF pc[t] = "loop" THEN 1 ELSE 0) :
           item[t] = At(h, c, i)
    BY <1>2
  <1>8. i \in 1 .. Len(c) + 1 /\ (pc[t] # "loop" => i \in 1 .. Len(c))
    BY <1>5
  <1>9. item[t] # h <=> i \in 1 .. Len(c)
    BY <1>5, <1>7 DEF At
  <1>10. QED
    BY <1>1, <1>2, <1>3, <1>4, <1>5, <1>6, <1>7, <1>8, <1>9 DEF c

\* A thread goes on inside pc_emit_event: it keeps the mutex, and moves to the
\* i-th place of its queue.
LEMMA EmitGoesOn ==
    ASSUME ListenersInv, NEW t \in Threads,
           pc[t] \in {"emit", "loop", "cb"}, NEW p \in {"loop", "cb", "stuck"},
           pc' = [pc EXCEPT ![t] = p], UNCHANGED <<closed, mutex, op, freed>>,
           UNCHANGED heap, NEW h \in Heads, NEW x \in Nodes,
           head' = [head EXCEPT ![t] = h], item' = [item EXCEPT ![t] = x],
           Found(listeners, op[t].event),
           h = pc_map_get(listeners, op[t].event),
           \E i \in 1 .. Len(Chain(links, h)) + (IF p = "loop" THEN 1 ELSE 0) :
               x = At(h, Chain(links, h), i)
    PROVE  ListenersInv'
  <1>1. /\ listeners' = listeners /\ links' = links /\ used' = used
        /\ cb_of' = cb_of
    BY DEF heap
  <1>2. Kept'
    BY <1>1 DEF ListenersInv, Kept
  <1>3. pc'[t] = p /\ \A s \in Threads : s # t => pc'[s] = pc[s]
    BY DEF ListenersInv, Typed
  <1>4. op[t] \in [kind : {"emit"}, event : Events]
    BY DEF ListenersInv, Typed
  <1>5. Typed'
    <2>1. pc' \in [Threads -> {"idle", "lock_add"} \cup Busy]
      BY DEF ListenersInv, Typed, Busy
    <2>2. head' \in [Threads -> Heads \cup {NULL}]
          /\ item' \in [Threads -> Nodes \cup {NULL}]
      BY DEF ListenersInv, Typed
    <2>3. closed' \in BOOLEAN /\ freed' \in BOOLEAN
      BY DEF ListenersInv, Typed
    <2>4. /\ cb_of' \in [Items -> Cbs] /\ op' \in [Threads -> Ops \cup {NoOp}]
          /\ mutex' \in Threads \cup {NULL}
      BY <1>1 DEF ListenersInv, Typed
    <2>5. \A s \in Threads :
             /\ pc'[s] \in {"add", "remove"} =>
                   op'[s] \in [kind : {"add", "remove"}, event : Events, cb : Cbs]
             /\ pc'[s] \in {"emit", "loop", "cb", "stuck"} =>
                   op'[s] \in [kind : {"emit"}, event : Events]
      BY <1>3, <1>4 DEF ListenersInv, Typed
    <2>6. QED
      BY <2>1, <2>2, <2>3, <2>4, <2>5 DEF Typed
  <1>6. Locked'
    BY <1>3 DEF ListenersInv, Locked, Busy
  <1>7. Cursor'
    <2>1. ASSUME NEW s \in Threads, s # t
          PROVE  head'[s] = head[s] /\ item'[s] = item[s] /\ op'[s] = op[s]
      BY <2>1 DEF ListenersInv, Typed
    <2>2. head'[t] = h /\ item'[t] = x
      BY DEF ListenersInv, Typed
    <2>3. QED
      BY <1>1, <1>3, <2>1, <2>2 DEF ListenersInv, Cursor
  <1>8. QED
    BY <1>2, <1>5, <1>6, <1>7 DEF ListenersInv

\* A return that leaves the heap as it was.
LEMMA QuietReturn ==
    ASSUME ListenersInv, NEW t \in Threads, pc[t] \in Busy, Unlock(t),
           UNCHANGED <<closed, heap, freed>>
    PROVE  ListenersInv'
  <1>1. /\ listeners' = listeners /\ links' = links /\ used' = used
        /\ cb_of' = cb_of /\ closed' = closed /\ freed' = freed
    BY DEF heap
  <1>2. cb_of' \in [Items -> Cbs]
    BY <1>1 DEF ListenersInv, Typed
  <1>3. Kept'
    BY <1>1 DEF ListenersInv, Kept
  <1>4. Typed' /\ Locked' /\ Cursor'
    BY <1>1, <1>2, ReturnStep
  <1>5. QED
    BY <1>3, <1>4 DEF ListenersInv

\* Each step of a call that holds the mutex.
LEMMA ThreadNext ==
    ASSUME ListenersInv, NEW t \in Threads, ThreadStep(t)
    PROVE  ListenersInv'
  <1>1. CASE AddListener(t)
    <2>1. pc[t] \in Busy /\ Unlock(t) /\ closed' = closed /\ freed' = freed
      BY <1>1 DEF AddListener, Busy
    <2>2. Kept' /\ malloc(Items) \in Items
          /\ cb_of' = [cb_of EXCEPT ![malloc(Items)] = op[t].cb]
      BY <1>1, AddStep
    <2>3. op[t] \in [kind : {"add", "remove"}, event : Events, cb : Cbs]
      BY <1>1 DEF AddListener, ListenersInv, Typed
    <2>4. cb_of' \in [Items -> Cbs]
      BY <2>2, <2>3 DEF ListenersInv, Typed
    <2>5. QED
      BY <2>1, <2>2, <2>4, ReturnStep DEF ListenersInv
  <1>2. CASE AddFails(t)
    BY <1>2, QuietReturn DEF AddFails, Busy
  <1>3. CASE RemoveNothing(t)
    BY <1>3, QuietReturn DEF RemoveNothing, Busy
  <1>4. CASE RemoveListener(t)
    <2>1. pc[t] \in Busy /\ Unlock(t) /\ closed' = closed /\ freed' = freed
      BY <1>4 DEF RemoveListener, Busy
    <2>2. Kept'
      BY <1>4, RemoveStep
    <2>3. cb_of' \in [Items -> Cbs]
      <3>1. \E q, S : Free(q, S)
        BY <1>4 DEF RemoveListener
      <3>2. AnyCb \in Cbs
        BY ListenersAssumption DEF AnyCb
      <3>3. QED
        BY <3>1, <3>2 DEF Free, ListenersInv, Typed
    <2>4. QED
      BY <2>1, <2>2, <2>3, ReturnStep DEF ListenersInv
  <1>5. CASE EmitNothing(t)
    BY <1>5, QuietReturn DEF EmitNothing, Busy
  <1>6. CASE EmitStart(t)
    <2> DEFINE e == op[t].event
               h == pc_map_get(listeners, e)
               c == Chain(links, h)
    <2>1. Found(listeners, e) /\ e \in Keys
      BY <1>6 DEF EmitStart, ListenersInv, Typed, Events
    <2>2. h \in Values(listeners) /\ Kept
      BY <2>1, GetIsValue DEF ListenersInv, Kept, Store
    <2>3. h \in Heads /\ links \in Links /\ Ring(links, h, c)
      BY <2>2, KeptRings
    <2>4. Len(c) \in Nat /\ h \in Nodes
      BY <2>3, RingTypes
    <2>5. links.next[h] = At(h, c, 1) /\ links.next[h] \in Nodes
      <3>1. At(h, c, 0) = h
        BY <2>4 DEF At
      <3>2. links.next[At(h, c, 0)] = At(h, c, 0 + 1)
        BY <2>3, <2>4 DEF Ring
      <3>3. QED
        BY <2>3, <2>4, <3>1, <3>2 DEF Links
    <2>6. 1 \in 1 .. Len(c) + (IF "loop" = "loop" THEN 1 ELSE 0)
      BY <2>4
    <2> DEFINE x == links.next[h]
    <2>7. /\ pc[t] \in {"emit", "loop", "cb"} /\ pc' = [pc EXCEPT ![t] = "loop"]
          /\ UNCHANGED <<closed, mutex, op, freed>> /\ UNCHANGED heap
          /\ head' = [head EXCEPT ![t] = h] /\ item' = [item EXCEPT ![t] = x]
      BY <1>6 DEF EmitStart
    <2>8. x \in Nodes
          /\ \E i \in 1 .. Len(c) + (IF "loop" = "loop" THEN 1 ELSE 0) :
                x = At(h, c, i)
      BY <2>5, <2>6
    <2> HIDE DEF x
    <2>9. QED
      BY <2>1, <2>3, <2>7, <2>8, EmitGoesOn
  <1>7. CASE EmitCall(t)
    <2> DEFINE h == head[t]
               c == Chain(links, h)
               x == item[t]
    <2>1. pc[t] = "loop" /\ x # h
      BY <1>7 DEF EmitCall
    <2>2. /\ h \in Heads /\ h = pc_map_get(listeners, op[t].event)
          /\ Found(listeners, op[t].event) /\ Ring(links, h, c)
          /\ Len(c) \in Nat
      BY <2>1, CursorAt
    <2>3. PICK i \in 1 .. Len(c) + 1 : x = At(h, c, i) /\ i \in 1 .. Len(c)
      BY <2>1, CursorAt
    <2>4. i \in 1 .. Len(c) + (IF "cb" = "loop" THEN 1 ELSE 0)
      BY <2>2, <2>3
    <2>5. x \in Nodes
      BY <2>2, <2>3, RingTypes DEF At
    <2>6. head' = [head EXCEPT ![t] = h] /\ item' = [item EXCEPT ![t] = x]
      BY <1>7 DEF EmitCall, ListenersInv, Typed
    <2>7. /\ pc[t] \in {"emit", "loop", "cb"} /\ pc' = [pc EXCEPT ![t] = "cb"]
          /\ UNCHANGED <<closed, mutex, op, freed>> /\ UNCHANGED heap
      BY <1>7 DEF EmitCall
    <2>8. \E j \in 1 .. Len(c) + (IF "cb" = "loop" THEN 1 ELSE 0) :
             x = At(h, c, j)
      BY <2>3, <2>4
    <2> HIDE DEF h, x
    <2>9. QED
      BY <2>2, <2>5, <2>6, <2>7, <2>8, EmitGoesOn
  <1>8. CASE EmitNext(t)
    <2> DEFINE h == head[t]
               c == Chain(links, h)
               x == links.next[item[t]]
    <2>1. pc[t] = "cb"
      BY <1>8 DEF EmitNext
    <2>2. /\ h \in Heads /\ h = pc_map_get(listeners, op[t].event)
          /\ Found(listeners, op[t].event) /\ Ring(links, h, c)
          /\ Len(c) \in Nat
      BY <2>1, CursorAt
    <2>3. PICK i \in 1 .. Len(c) + 1 :
             item[t] = At(h, c, i) /\ i \in 1 .. Len(c)
      BY <2>1, CursorAt
    <2>4. i \in 0 .. Len(c) /\ i + 1 \in 0 .. Len(c) + 1
          /\ i + 1 \in 1 .. Len(c) + (IF "loop" = "loop" THEN 1 ELSE 0)
      BY <2>2, <2>3
    <2>5. x = At(h, c, i + 1)
      BY <2>2, <2>3, <2>4 DEF Ring
    <2>6. x \in Nodes
      BY <2>2, <2>4, <2>5, RingTypes
    <2>7. head' = [head EXCEPT ![t] = h] /\ item' = [item EXCEPT ![t] = x]
      BY <1>8 DEF EmitNext, ListenersInv, Typed
    <2>8. /\ pc[t] \in {"emit", "loop", "cb"} /\ pc' = [pc EXCEPT ![t] = "loop"]
          /\ UNCHANGED <<closed, mutex, op, freed>> /\ UNCHANGED heap
      BY <1>8 DEF EmitNext
    <2>9. \E j \in 1 .. Len(c) + (IF "loop" = "loop" THEN 1 ELSE 0) :
             x = At(h, c, j)
      BY <2>4, <2>5
    <2> HIDE DEF h, x
    <2>10. QED
      BY <2>2, <2>6, <2>7, <2>8, <2>9, EmitGoesOn
  <1>9. CASE CallbackReenters(t)
    <2> DEFINE h == head[t]
               c == Chain(links, h)
               x == item[t]
    <2>1. pc[t] = "cb"
      BY <1>9 DEF CallbackReenters
    <2>2. /\ h \in Heads /\ h = pc_map_get(listeners, op[t].event)
          /\ Found(listeners, op[t].event) /\ Ring(links, h, c)
          /\ Len(c) \in Nat
      BY <2>1, CursorAt
    <2>3. PICK i \in 1 .. Len(c) + 1 : x = At(h, c, i) /\ i \in 1 .. Len(c)
      BY <2>1, CursorAt
    <2>4. i \in 1 .. Len(c) + (IF "stuck" = "loop" THEN 1 ELSE 0)
      BY <2>2, <2>3
    <2>5. x \in Nodes
      BY <2>2, <2>3, RingTypes DEF At
    <2>6. head' = [head EXCEPT ![t] = h] /\ item' = [item EXCEPT ![t] = x]
      BY <1>9 DEF CallbackReenters, ListenersInv, Typed
    <2>7. /\ pc[t] \in {"emit", "loop", "cb"} /\ pc' = [pc EXCEPT ![t] = "stuck"]
          /\ UNCHANGED <<closed, mutex, op, freed>> /\ UNCHANGED heap
      BY <1>9 DEF CallbackReenters
    <2>8. \E j \in 1 .. Len(c) + (IF "stuck" = "loop" THEN 1 ELSE 0) :
             x = At(h, c, j)
      BY <2>3, <2>4
    <2> HIDE DEF h, x
    <2>9. QED
      BY <2>2, <2>5, <2>6, <2>7, <2>8, EmitGoesOn
  <1>10. CASE EmitDone(t)
    BY <1>10, QuietReturn DEF EmitDone, Busy
  <1>11. QED
    BY <1>1, <1>2, <1>3, <1>4, <1>5, <1>6, <1>7, <1>8, <1>9, <1>10
       DEF ThreadStep

\* A call begins: it has, or waits for, the mutex.
LEMMA CallNext ==
    ASSUME ListenersInv, NEW t \in Threads,
           CallAdd(t) \/ \E o \in Ops : Lock(t, o)
    PROVE  ListenersInv'
  <1>1. /\ listeners' = listeners /\ links' = links /\ used' = used
        /\ cb_of' = cb_of /\ closed' = closed /\ freed' = freed
        /\ head' = head /\ item' = item
    BY DEF CallAdd, Lock, heap
  <1>2. Kept'
    BY <1>1 DEF ListenersInv, Kept
  <1>3. /\ pc[t] \in {"idle", "lock_add"}
        /\ \E p \in {"lock_add", "add", "remove", "emit"} :
              pc' = [pc EXCEPT ![t] = p]
    BY DEF CallAdd, Lock, Ops
  <1>4. PICK p \in {"lock_add", "add", "remove", "emit"} :
           pc' = [pc EXCEPT ![t] = p]
    BY <1>3
  <1>5. pc'[t] = p /\ \A s \in Threads : s # t => pc'[s] = pc[s]
    BY <1>4 DEF ListenersInv, Typed
  <1>6. Typed'
    <2>1. pc' \in [Threads -> {"idle", "lock_add"} \cup Busy]
      BY <1>4 DEF ListenersInv, Typed, Busy
    <2>2. op' \in [Threads -> Ops \cup {NoOp}] /\ mutex' \in Threads \cup {NULL}
      BY DEF ListenersInv, Typed, CallAdd, Lock
    <2>3. closed' \in BOOLEAN /\ freed' \in BOOLEAN
      BY <1>1 DEF ListenersInv, Typed
    <2>4. \A s \in Threads : s # t => op'[s] = op[s]
      BY DEF ListenersInv, Typed, CallAdd, Lock
    <2>5. /\ pc'[t] \in {"add", "remove"} =>
                op'[t] \in [kind : {"add", "remove"}, event : Events, cb : Cbs]
          /\ pc'[t] \in {"emit", "loop", "cb", "stuck"} =>
                op'[t] \in [kind : {"emit"}, event : Events]
      <3>1. CASE CallAdd(t)
        BY <3>1 DEF CallAdd, ListenersInv, Typed
      <3>2. ASSUME NEW o \in Ops, Lock(t, o)
            PROVE  /\ pc'[t] \in {"add", "remove"} =>
                         op'[t] \in [kind : {"add", "remove"}, event : Events,
                                     cb : Cbs]
                   /\ pc'[t] \in {"emit", "loop", "cb", "stuck"} =>
                         op'[t] \in [kind : {"emit"}, event : Events]
        <4>1. pc'[t] = o.kind /\ op'[t] = o
          BY <3>2 DEF Lock, ListenersInv, Typed
        <4>2. \/ o \in [kind : {"add", "remove"}, event : Events, cb : Cbs]
              \/ o \in [kind : {"emit"}, event : Events]
          BY DEF Ops
        <4>3. QED
          BY <4>1, <4>2
      <3>3. QED
        BY <3>1, <3>2
    <2>6. QED
      BY <1>1, <1>5, <2>1, <2>2, <2>3, <2>4, <2>5 DEF ListenersInv, Typed
  <1>7. Locked'
    <2>1. CASE CallAdd(t)
      BY <2>1, ListenersAssumption DEF CallAdd, ListenersInv, Locked, Typed, Busy
    <2>2. ASSUME NEW o \in Ops, Lock(t, o) PROVE Locked'
      <3>1. /\ mutex = NULL /\ mutex' = t /\ pc'[t] = o.kind
            /\ o.kind \in Busy
        BY <2>2 DEF Lock, ListenersInv, Typed, Ops, Busy
      <3>2. \A s \in Threads : pc[s] \notin Busy
        BY <3>1, ListenersAssumption DEF ListenersInv, Locked
      <3>3. QED
        BY <1>5, <3>1, <3>2 DEF Locked
    <2>3. QED
      BY <2>1, <2>2
  <1>8. Cursor'
    <2>1. head[t] = NULL /\ item[t] = NULL
      BY <1>3 DEF ListenersInv, Cursor
    <2>2. pc'[t] \notin {"loop", "cb", "stuck"}
      BY <1>5
    <2>3. ASSUME NEW s \in Threads, s # t PROVE op'[s] = op[s]
      BY <2>3 DEF ListenersInv, Typed, CallAdd, Lock
    <2>4. QED
      BY <1>1, <1>5, <2>1, <2>2, <2>3 DEF ListenersInv, Cursor
  <1>9. QED
    BY <1>2, <1>6, <1>7, <1>8 DEF ListenersInv

\* pc__client_clear frees the blocks of every queue: no other is allocated.
LEMMA DestroyNext ==
    ASSUME ListenersInv, Destroy
    PROVE  /\ ListenersInv' /\ used' = {} /\ listeners' = pc_map_init
           /\ \A t \in Threads : pc[t] = "idle"
  <1> DEFINE S == UNION {Released(h) : h \in Values(listeners)}
  <1>1. Kept /\ links \in Links
    BY DEF ListenersInv, Kept, Store
  <1>2. /\ Free(links, S) /\ listeners' = pc_map_init /\ freed' = TRUE
        /\ UNCHANGED <<closed, mutex, pc, op, head, item>>
        /\ \A t \in Threads : pc[t] = "idle"
    BY DEF Destroy
  <1>3. used \subseteq S
    <2>1. ASSUME NEW n \in used PROVE n \in S
      <3>1. PICK h \in Values(listeners) :
               n \in RingNodes(h, Queues(listeners, links)[h])
        BY <1>1 DEF Kept, Store
      <3>2. h \in Heads /\ Released(h) = RingNodes(h, Chain(links, h))
        BY <1>1, KeptRings
      <3>3. Queues(listeners, links)[h] = Chain(links, h)
        BY <3>2 DEF Queues
      <3>4. QED
        BY <3>1, <3>2, <3>3
    <2>2. QED
      BY <2>1
  <1> HIDE DEF S
  <1>4. links' = Freed(links, S) /\ used' = used \ S
    BY <1>2 DEF Free, Freed
  <1>5. links' \in Links /\ used' = {}
    BY <1>1, <1>3, <1>4, FreedIs
  <1>6. Kept'
    BY <1>2, <1>5, EmptyStore DEF Kept
  <1>7. AnyCb \in Cbs
    BY ListenersAssumption DEF AnyCb
  <1>8. cb_of' \in [Items -> Cbs]
    BY <1>2, <1>7 DEF Free, ListenersInv, Typed
  <1>9. closed' \in BOOLEAN /\ freed' \in BOOLEAN
    BY <1>2 DEF ListenersInv, Typed
  <1>10. Typed' /\ Locked'
    BY <1>2, <1>8, <1>9 DEF ListenersInv, Typed, Locked
  <1>11. Cursor'
    BY <1>2 DEF ListenersInv, Cursor
  <1>12. QED
    BY <1>2, <1>5, <1>6, <1>10, <1>11 DEF ListenersInv

\* Nothing but the flag changes when the client is closed.
LEMMA CloseNext ==
    ASSUME ListenersInv, Close \/ UNCHANGED vars
    PROVE  ListenersInv'
  <1>1. /\ listeners' = listeners /\ links' = links /\ used' = used
        /\ cb_of' = cb_of /\ mutex' = mutex /\ pc' = pc /\ op' = op
        /\ head' = head /\ item' = item /\ freed' = freed
    BY DEF Close, vars, heap
  <1>2. closed' \in BOOLEAN /\ freed' \in BOOLEAN
    BY DEF Close, vars, ListenersInv, Typed
  <1>3. QED
    BY <1>1, <1>2 DEF ListenersInv, Typed, Locked, Kept, Cursor

\* The inductive invariant holds, for every number of threads, events,
\* callbacks and blocks.
THEOREM ListenersInvariant == Spec => []ListenersInv
  <1>1. ListenersInv /\ [Next]_vars => ListenersInv'
    BY ThreadNext, CallNext, DestroyNext, CloseNext DEF Next
  <1>2. QED
    BY <1>1, ListenersInit, PTL DEF Spec
-----------------------------------------------------------------------------
(* What follows.                                                           *)

\* At most one thread is between lock and unlock, and every pointer points to
\* a block.
THEOREM ListenersTypes == Spec => []TypeOK
  <1>1. ListenersInv => TypeOK
    <2> SUFFICES ASSUME ListenersInv PROVE TypeOK
      OBVIOUS
    <2>1. WellFormed(listeners, Heads) /\ links \in Links
      BY DEF ListenersInv, Kept, Store
    <2>2. \A b \in Buckets : \A i \in DOMAIN listeners[b] :
             listeners[b][i] \in Pair(Heads)
      BY <2>1, QueueOfMap DEF WellFormed
    <2>3. used \subseteq Nodes
      <3>1. ASSUME NEW n \in used PROVE n \in Nodes
        <4>1. PICK h \in Values(listeners) :
                 n \in RingNodes(h, Queues(listeners, links)[h])
          BY DEF ListenersInv, Kept, Store
        <4>2. h \in Heads /\ Ring(links, h, Queues(listeners, links)[h])
          BY ValuesTyped DEF ListenersInv, Kept, Store
        <4>3. QED
          BY <4>1, <4>2, RingTypes
      <3>2. QED
        BY <3>1
    <2>4. Inside = IF mutex = NULL THEN {} ELSE {mutex}
      BY ListenersAssumption DEF ListenersInv, Locked, Typed, Inside, Busy
    <2>5. closed \in BOOLEAN /\ freed \in BOOLEAN
      BY DEF ListenersInv, Typed
    <2>6. QED
      BY <2>1, <2>2, <2>3, <2>4, <2>5 DEF TypeOK, ListenersInv, Typed, Links
  <1>2. QED
    BY <1>1, ListenersInvariant, PTL

\* Every queue stays a ring of its own allocated blocks, whatever is added,
\* removed and freed, although pc_remove_listener unlinks a node twice.
THEOREM QueuesStayRings == Spec => []QueuesWellFormed
  <1>1. ListenersInv => QueuesWellFormed
    <2> SUFFICES ASSUME ListenersInv PROVE QueuesWellFormed
      OBVIOUS
    <2>1. Kept
      BY DEF ListenersInv
    <2>2. ASSUME NEW h \in Values(listeners)
          PROVE  /\ h \in Heads /\ Queues(listeners, links)[h] = Chain(links, h)
                 /\ Ring(links, h, Chain(links, h)) /\ Chain(links, h) # <<>>
                 /\ Released(h) = RingNodes(h, Chain(links, h))
      BY <2>1, KeptRings DEF Queues
    <2>3. ASSUME NEW h \in Values(listeners)
          PROVE  ~ngx_queue_empty(links, h) /\ Released(h) \subseteq used
      <3>1. ~ngx_queue_empty(links, h)
        BY <2>2, EmptyRing
      <3>2. Released(h) \subseteq used
        BY <2>1, <2>2 DEF Kept, Store
      <3>3. QED
        BY <3>1, <3>2
    <2>4. ASSUME NEW h \in Values(listeners), NEW n \in Released(h)
          PROVE  links.prev[links.next[n]] = n
      <3> DEFINE c == Chain(links, h)
      <3>1. h \in Heads /\ Ring(links, h, c) /\ n \in RingNodes(h, c)
        BY <2>2, <2>4
      <3>2. Len(c) \in Nat
        BY <3>1, RingTypes
      <3> HIDE DEF c
      <3>3. \E i \in 0 .. Len(c) : n = At(h, c, i)
        <4>1. CASE n = h
          <5>1. 0 \in 0 .. Len(c) /\ At(h, c, 0) = h
            BY <3>2 DEF At
          <5>2. QED
            BY <4>1, <5>1
        <4>2. CASE n # h
          <5>1. PICK i \in 1 .. Len(c) : n = c[i]
            BY <3>1, <4>2 DEF RingNodes
          <5>2. i \in 0 .. Len(c) /\ n = At(h, c, i)
            BY <3>2, <5>1 DEF At
          <5>3. QED
            BY <5>2
        <4>3. QED
          BY <4>1, <4>2
      <3>4. QED
        BY <3>1, <3>3 DEF Ring
    <2>5. ASSUME NEW h \in Values(listeners), NEW k \in Values(listeners), h # k
          PROVE  Released(h) \cap Released(k) = {}
      BY <2>1, <2>2, <2>5 DEF Kept, Store
    <2>6. QED
      BY <2>3, <2>4, <2>5 DEF QueuesWellFormed
  <1>2. QED
    BY <1>1, ListenersInvariant, PTL

\* The allocated blocks are those reachable from the map: no listener and no
\* head is ever lost, so destroying the client frees them all.
THEOREM NothingIsLeaked == Spec => []NothingLeaked
  <1>1. ListenersInv => NothingLeaked
    <2> SUFFICES ASSUME ListenersInv PROVE NothingLeaked
      OBVIOUS
    <2>1. Kept
      BY DEF ListenersInv
    <2>2. ASSUME NEW h \in Values(listeners)
          PROVE  Released(h) = RingNodes(h, Queues(listeners, links)[h])
      BY <2>1, KeptRings DEF Queues
    <2>3. \A n : n \in used <=> \E h \in Values(listeners) : n \in Released(h)
      BY <2>1, <2>2 DEF Kept, Store
    <2>4. QED
      BY <2>3 DEF NothingLeaked
  <1>2. QED
    BY <1>1, ListenersInvariant, PTL

-----------------------------------------------------------------------------
(* The pointers implement the registry of callbacks.                       *)

\* The callbacks of the listeners c, and those from the i-th on.
Calls(c, f) == [i \in 1 .. Len(c) |-> f[c[i]]]
From(c, f, i) == [j \in 1 .. Len(c) - i + 1 |-> f[c[i + j - 1]]]

\* What the registry has for an event are the callbacks of its queue.
LEMMA CallsListed ==
    ASSUME NEW m, NEW q, NEW u, NEW C, Store(m, q, u, C), NEW e \in Keys, NEW f
    PROVE  (IF Found(m, e)
            THEN LET c == Chain(q, pc_map_get(m, e)) IN [i \in DOMAIN c |-> f[c[i]]]
            ELSE <<>>) = Calls(Listed(m, q, e), f)
  <1>1. Listed(m, q, e) \in Seq(Items)
    BY ListedIs
  <1>2. DOMAIN Listed(m, q, e) = 1 .. Len(Listed(m, q, e))
    BY <1>1
  <1>3. CASE Found(m, e)
    BY <1>2, <1>3 DEF Listed, Calls
  <1>4. CASE ~Found(m, e)
    <2>1. Calls(<<>>, f) = <<>>
      BY DEF Calls
    <2>2. QED
      BY <1>4, <2>1 DEF Listed
  <1>5. QED
    BY <1>3, <1>4

\* What the registry has before ...
LEMMA RegisteredIs ==
    ASSUME Kept
    PROVE  Registered = [e \in Keys |-> Calls(Listed(listeners, links, e), cb_of)]
  BY CallsListed DEF Kept, Registered, Events

\* ... and after a step.
LEMMA RegisteredNext ==
    ASSUME Kept'
    PROVE  Registered' =
              [e \in Keys |-> Calls(Listed(listeners', links', e), cb_of')]
  BY CallsListed DEF Kept, Registered, Events

\* A listener has one place in its queue.
LEMMA PlaceIs ==
    ASSUME NEW q, NEW h \in Heads, NEW c, Ring(q, h, c), NEW i \in 1 .. Len(c)
    PROVE  (CHOOSE k \in DOMAIN c : c[k] = c[i]) = i
  <1>1. DOMAIN c = 1 .. Len(c)
    BY RingTypes
  <1>2. \A k \in DOMAIN c : c[k] = c[i] => k = i
    BY <1>1 DEF Ring
  <1>3. QED
    BY <1>1, <1>2

\* What a thread with the local variables h and x owes.
OwedAt(q, f, h, x) ==
    IF h = NULL \/ x = h THEN <<>>
    ELSE LET c == Chain(q, h)
             at == CHOOSE i \in DOMAIN c : c[i] = x
         IN  [i \in 1 .. Len(c) - at + 1 |-> f[c[at + i - 1]]]

\* The same, of the variables of a thread before and after a step.
LEMMA OwedIsOwedAt ==
    ASSUME NEW t \in Threads
    PROVE  /\ Owed(t) = OwedAt(links, cb_of, head[t], item[t])
           /\ Owed(t)' = OwedAt(links', cb_of', head'[t], item'[t])
  BY DEF Owed, OwedAt

\* pc_emit_event at the i-th place owes the callbacks from there on.
LEMMA OwedFrom ==
    ASSUME NEW q, NEW f, NEW h \in Heads, Ring(q, h, Chain(q, h)),
           NEW i \in 1 .. Len(Chain(q, h)) + 1
    PROVE  LET c == Chain(q, h)
           IN  OwedAt(q, f, h, At(h, c, i)) =
                  IF i \in 1 .. Len(c) THEN From(c, f, i) ELSE <<>>
  <1> DEFINE c == Chain(q, h)
             x == At(h, c, i)
  <1>1. h # NULL /\ \A j \in 1 .. Len(c) : c[j] # h
    BY RingTypes, ListenersAssumption
  <1>2. CASE i \in 1 .. Len(c)
    <2>1. x = c[i] /\ x # h
      BY <1>1, <1>2 DEF At
    <2> DEFINE at == CHOOSE k \in DOMAIN c : c[k] = x
    <2>2. at = i
      BY <1>2, <2>1, PlaceIs
    <2>3. OwedAt(q, f, h, x) = [j \in 1 .. Len(c) - at + 1 |-> f[c[at + j - 1]]]
      BY <1>1, <2>1 DEF OwedAt
    <2> HIDE DEF at
    <2>4. OwedAt(q, f, h, x) = From(c, f, i)
      BY <2>2, <2>3 DEF From
    <2>5. QED
      BY <1>2, <2>4
  <1>3. CASE i \notin 1 .. Len(c)
    <2>1. x = h
      BY <1>3 DEF At
    <2>2. QED
      BY <1>3, <2>1 DEF OwedAt
  <1>4. QED
    BY <1>2, <1>3

\* While a thread is inside add, remove or the beginning of emit, no event is
\* being handed out.
LEMMA QuietBefore ==
    ASSUME ListenersInv, NEW t \in Threads, pc[t] \in {"add", "remove", "emit"}
    PROVE  \A s \in Threads : Owed(s) = <<>>
  <1>1. ASSUME NEW s \in Threads PROVE head[s] = NULL
    <2>1. pc[s] \notin {"loop", "cb", "stuck"}
      BY DEF ListenersInv, Locked, Busy
    <2>2. QED
      BY <2>1 DEF ListenersInv, Cursor
  <1>2. QED
    BY <1>1 DEF Owed

\* The same once it has returned.
LEMMA QuietAfter ==
    ASSUME ListenersInv, NEW t \in Threads, pc[t] \in Busy, Unlock(t)
    PROVE  \A s \in Threads : Owed(s)' = <<>>
  BY UnlockStep DEF Owed

\* The listeners of an event differ from one another and from those of another
\* event.
LEMMA ListedApart ==
    ASSUME NEW m, NEW q, NEW u, NEW C, Store(m, q, u, C), NEW e \in Keys,
           NEW i \in 1 .. Len(Listed(m, q, e)), NEW k \in Keys,
           NEW j \in 1 .. Len(Listed(m, q, k)),
           Listed(m, q, e)[i] = Listed(m, q, k)[j]
    PROVE  e = k /\ i = j
  <1>1. Found(m, e) /\ Found(m, k)
    BY DEF Listed
  <1> DEFINE g == pc_map_get(m, e)
             h == pc_map_get(m, k)
  <1>2. g \in Values(m) /\ h \in Values(m) /\ g \in Heads
    BY <1>1, GetIsValue DEF Store
  <1>3. Listed(m, q, e) = C[g] /\ Listed(m, q, k) = C[h]
    BY <1>1, ListedIs
  <1>4. C[g][i] \in RingNodes(g, C[g]) /\ C[h][j] \in RingNodes(h, C[h])
    BY <1>3 DEF RingNodes
  <1>5. g = h
    BY <1>2, <1>3, <1>4 DEF Store
  <1>6. e = k
    BY <1>1, <1>5, HeadsDiffer
  <1>7. Ring(q, g, C[g])
    BY <1>2 DEF Store
  <1>8. QED
    BY <1>3, <1>5, <1>6, <1>7 DEF Ring

\* A callback is seen through its block only.
LEMMA CallsAlike ==
    ASSUME NEW c, NEW f, NEW g, \A i \in 1 .. Len(c) : f[c[i]] = g[c[i]]
    PROVE  Calls(c, f) = Calls(c, g)
  BY DEF Calls

\* pc_add_listener registers the callback behind the others.
LEMMA AddIsRegAdd ==
    ASSUME ListenersInv, NEW t \in Threads, AddListener(t), Kept'
    PROVE  Registry!RegNext
  <1> DEFINE e == op[t].event
             l == malloc(Items)
             cb == op[t].cb
             c == Listed(listeners, links, e)
  <1>1. /\ e \in Keys /\ l \in Items /\ l \notin used
        /\ cb_of' = [cb_of EXCEPT ![l] = cb]
        /\ \A k \in Keys : Listed(listeners', links', k) =
              IF k = e THEN Append(c, l) ELSE Listed(listeners, links, k)
    BY AddStep
  <1>2. cb \in Cbs /\ cb_of \in [Items -> Cbs]
    <2>1. op[t] \in [kind : {"add", "remove"}, event : Events, cb : Cbs]
      BY DEF AddListener, ListenersInv, Typed
    <2>2. QED
      BY <2>1 DEF ListenersInv, Typed
  <1>3. Store(listeners, links, used, Queues(listeners, links))
    BY DEF ListenersInv, Kept
  <1> HIDE DEF l
  <1>4. ASSUME NEW k \in Keys
        PROVE  Calls(Listed(listeners, links, k), cb_of') =
                  Calls(Listed(listeners, links, k), cb_of)
    <2> DEFINE d == Listed(listeners, links, k)
    <2>1. d \in Seq(Items) /\ \A i \in 1 .. Len(d) : d[i] \in used
      BY <1>3, ListedIs
    <2> HIDE DEF d
    <2>2. \A i \in 1 .. Len(d) : d[i] \in Items /\ d[i] # l
      BY <1>1, <2>1
    <2>3. \A i \in 1 .. Len(d) : cb_of'[d[i]] = cb_of[d[i]]
      BY <1>1, <1>2, <2>2
    <2>4. Calls(d, cb_of') = Calls(d, cb_of)
      BY <2>3, CallsAlike
    <2>5. QED
      BY <2>4 DEF d
  <1>5. c \in Seq(Items)
    BY <1>1, <1>3, ListedIs
  <1> HIDE DEF c
  <1>6. Calls(Append(c, l), cb_of') = Append(Calls(c, cb_of'), cb)
    <2>1. /\ Len(Append(c, l)) = Len(c) + 1 /\ Len(c) \in Nat
          /\ \A i \in 1 .. Len(c) + 1 :
                Append(c, l)[i] = IF i <= Len(c) THEN c[i] ELSE l
      BY <1>1, <1>5
    <2>2. cb_of'[l] = cb
      BY <1>1, <1>2
    <2>3. Len(Calls(c, cb_of')) = Len(c)
      BY <2>1 DEF Calls
    <2>4. QED
      BY <2>1, <2>2, <2>3 DEF Calls
  <1>7. Registered = [k \in Keys |-> Calls(Listed(listeners, links, k), cb_of)]
    BY RegisteredIs DEF ListenersInv
  <1>8. Registered' =
           [k \in Keys |-> Calls(Listed(listeners', links', k), cb_of')]
    BY RegisteredNext
  <1>9. Calls(c, cb_of') = Calls(c, cb_of) /\ Registered[e] = Calls(c, cb_of)
    BY <1>1, <1>4, <1>7 DEF c
  <1>10. Registered' = [Registered EXCEPT ![e] = Append(Registered[e], cb)]
    <2>1. ASSUME NEW k \in Keys
          PROVE  Calls(Listed(listeners', links', k), cb_of') =
                    IF k = e THEN Append(Registered[e], cb) ELSE Registered[k]
      <3>1. CASE k = e
        <4>1. Listed(listeners', links', k) = Append(c, l)
          BY <1>1, <3>1
        <4>2. QED
          BY <1>6, <1>9, <3>1, <4>1
      <3>2. CASE k # e
        <4>1. Listed(listeners', links', k) = Listed(listeners, links, k)
          BY <1>1, <3>2
        <4>2. Registered[k] = Calls(Listed(listeners, links, k), cb_of)
          BY <1>7
        <4>3. QED
          BY <1>4, <3>2, <4>1, <4>2
      <3>3. QED
        BY <3>1, <3>2
    <2> DEFINE R == Registered
               S == Registered'
    <2>2. /\ R = [k \in Keys |-> R[k]]
          /\ S = [k \in Keys |-> IF k = e THEN Append(R[e], cb) ELSE R[k]]
      BY <1>7, <1>8, <2>1
    <2> HIDE DEF R, S
    <2>3. S = [R EXCEPT ![e] = Append(R[e], cb)]
      BY <2>2
    <2>4. QED
      BY <2>3 DEF R, S
  <1>11. \A s \in Threads : Owed(s) = <<>> /\ Owed(s)' = <<>>
    BY QuietBefore, QuietAfter DEF AddListener, Busy
  <1>12. Registry!RegAdd(e, cb)
    BY <1>10, <1>11 DEF Registry!RegAdd, Registry!Quiet
  <1>13. QED
    BY <1>1, <1>2, <1>12 DEF Registry!RegNext, Events

\* The oldest registration of a callback, and the registry without it.
LEMMA CallsRemoved ==
    ASSUME NEW c \in Seq(Items), NEW i \in DOMAIN c, NEW f, NEW g, NEW cb,
           f[c[i]] = cb, \A j \in DOMAIN c : f[c[j]] = cb => i <= j,
           \A j \in DOMAIN c : j # i => g[c[j]] = f[c[j]]
    PROVE  LET r == Calls(c, f)
           IN  /\ i \in DOMAIN r /\ r[i] = cb
               /\ Calls(RemoveNode(c, i), g) =
                     Registry!Without(r, Registry!Oldest(r, cb))
  <1> DEFINE r == Calls(c, f)
             d == RemoveNode(c, i)
  <1>1. Len(c) \in Nat /\ DOMAIN c = 1 .. Len(c) /\ i \in 1 .. Len(c)
    OBVIOUS
  <1>2. DOMAIN r = 1 .. Len(c) /\ Len(r) = Len(c)
        /\ \A j \in 1 .. Len(c) : r[j] = f[c[j]]
    BY <1>1 DEF Calls
  <1>3. Len(d) = Len(c) - 1
        /\ \A j \in 1 .. Len(c) - 1 : d[j] = c[IF j < i THEN j ELSE j + 1]
    BY RemoveNodeIs
  <1> HIDE DEF r, d
  <1>4. Registry!Oldest(r, cb) = i
    <2>1. r[i] = cb /\ \A j \in DOMAIN r : r[j] = cb => i <= j
      BY <1>1, <1>2
    <2>2. \A k \in DOMAIN r :
             (r[k] = cb /\ \A j \in DOMAIN r : r[j] = cb => k <= j) => k = i
      BY <1>1, <1>2, <2>1
    <2>3. QED
      BY <1>1, <1>2, <2>1, <2>2 DEF Registry!Oldest
  <1>5. \A j \in 1 .. Len(c) - 1 :
           g[d[j]] = IF j < i THEN r[j] ELSE r[j + 1]
    <2> SUFFICES ASSUME NEW j \in 1 .. Len(c) - 1
                 PROVE  g[d[j]] = IF j < i THEN r[j] ELSE r[j + 1]
      OBVIOUS
    <2>1. CASE j < i
      <3>1. d[j] = c[j] /\ j \in 1 .. Len(c) /\ j # i
        BY <1>1, <1>3, <2>1
      <3>2. QED
        BY <1>1, <1>2, <2>1, <3>1
    <2>2. CASE ~(j < i)
      <3>1. d[j] = c[j + 1] /\ j + 1 \in 1 .. Len(c) /\ j + 1 # i
        BY <1>1, <1>3, <2>2
      <3>2. QED
        BY <1>1, <1>2, <2>2, <3>1
    <2>3. QED
      BY <2>1, <2>2
  <1>6. Calls(d, g) = [j \in 1 .. Len(c) - 1 |-> g[d[j]]]
    BY <1>3 DEF Calls
  <1>7. Calls(d, g) =
           [j \in 1 .. Len(r) - 1 |-> IF j < i THEN r[j] ELSE r[j + 1]]
    BY <1>2, <1>5, <1>6
  <1>8. Calls(d, g) = Registry!Without(r, i)
    BY <1>7 DEF Registry!Without
  <1>9. QED
    BY <1>1, <1>2, <1>4, <1>8 DEF r, d

\* pc_remove_listener takes the oldest registration of the callback, if the
\* event has one.
LEMMA RemoveIsRegRemove ==
    ASSUME ListenersInv, NEW t \in Threads, RemoveListener(t), Kept'
    PROVE  Registry!RegNext \/ UNCHANGED Registry!regVars
  <1> DEFINE e == op[t].event
             cb == op[t].cb
             c == Listed(listeners, links, e)
  <1>1. cb \in Cbs /\ e \in Keys
    <2>1. op[t] \in [kind : {"add", "remove"}, event : Events, cb : Cbs]
      BY DEF RemoveListener, ListenersInv, Typed
    <2>2. QED
      BY <2>1 DEF Events
  <1>2. Store(listeners, links, used, Queues(listeners, links))
    BY DEF ListenersInv, Kept
  <1>3. Registered = [k \in Keys |-> Calls(Listed(listeners, links, k), cb_of)]
    BY RegisteredIs DEF ListenersInv
  <1>4. Registered' =
           [k \in Keys |-> Calls(Listed(listeners', links', k), cb_of')]
    BY RegisteredNext
  <1>5. \A s \in Threads : Owed(s) = <<>> /\ Owed(s)' = <<>>
    BY QuietBefore, QuietAfter DEF RemoveListener, Busy
  <1>6. [s \in Threads |-> Owed(s)]' = [s \in Threads |-> Owed(s)]
    BY <1>5
  <1>7. c \in Seq(Items) /\ DOMAIN c = 1 .. Len(c)
    BY <1>1, <1>2, ListedIs
  <1>8. CASE links' = links /\ listeners' = listeners /\ cb_of' = cb_of
    <2>1. Registered' = Registered
      BY <1>3, <1>4, <1>8
    <2>2. QED
      BY <1>6, <2>1 DEF Registry!regVars
  <1>9. ASSUME NEW i \in DOMAIN c, cb_of[c[i]] = cb,
               \A j \in DOMAIN c : cb_of[c[j]] = cb => i <= j,
               \A n \in Items \ {c[i]} : cb_of'[n] = cb_of[n],
               \A k \in Keys : Listed(listeners', links', k) =
                  IF k = e THEN RemoveNode(c, i) ELSE Listed(listeners, links, k)
        PROVE  Registry!RegNext
    <2>1. ASSUME NEW k \in Keys, NEW j \in 1 .. Len(Listed(listeners, links, k)),
                 k # e \/ j # i
          PROVE  cb_of'[Listed(listeners, links, k)[j]] =
                    cb_of[Listed(listeners, links, k)[j]]
      <3> DEFINE d == Listed(listeners, links, k)
      <3>1. d \in Seq(Items)
        BY <1>2, ListedIs
      <3>2. d[j] \in Items
        BY <3>1
      <3>3. d[j] # c[i]
        BY <1>1, <1>2, <1>7, <2>1, ListedApart
      <3>4. QED
        BY <1>9, <3>2, <3>3
    <2>2. \A j \in DOMAIN c : j # i => cb_of'[c[j]] = cb_of[c[j]]
      BY <1>1, <1>7, <2>1
    <2> DEFINE r == Calls(c, cb_of)
               s == Registry!Without(r, Registry!Oldest(r, cb))
    <2> HIDE DEF c, cb
    <2>3. /\ i \in DOMAIN r /\ r[i] = cb
          /\ Calls(RemoveNode(c, i), cb_of') = s
      BY <1>7, <1>9, <2>2, CallsRemoved
    <2> HIDE DEF r, s
    <2>4. ASSUME NEW k \in Keys
          PROVE  Calls(Listed(listeners', links', k), cb_of') =
                    IF k = e THEN s ELSE Registered[k]
      <3>1. CASE k = e
        <4>1. Listed(listeners', links', k) = RemoveNode(c, i)
          BY <1>9, <3>1
        <4>2. QED
          BY <2>3, <3>1, <4>1
      <3>2. CASE k # e
        <4> DEFINE d == Listed(listeners, links, k)
        <4>1. Listed(listeners', links', k) = d
          BY <1>9, <3>2
        <4>2. \A j \in 1 .. Len(d) : cb_of'[d[j]] = cb_of[d[j]]
          BY <2>1, <3>2
        <4>3. Registered[k] = Calls(d, cb_of)
          BY <1>3
        <4> HIDE DEF d
        <4>4. Calls(d, cb_of') = Calls(d, cb_of)
          BY <4>2, CallsAlike
        <4>5. QED
          BY <3>2, <4>1, <4>3, <4>4
      <3>3. QED
        BY <3>1, <3>2
    <2>5. Registered[e] = r
      BY <1>1, <1>3 DEF r, c
    <2> DEFINE R == Registered
               S == Registered'
    <2>6. /\ R = [k \in Keys |-> R[k]]
          /\ S = [k \in Keys |-> IF k = e THEN s ELSE R[k]]
      BY <1>3, <1>4, <2>4
    <2> HIDE DEF R, S
    <2>7. S = [R EXCEPT ![e] = s]
      BY <2>6
    <2>8. /\ \E j \in DOMAIN Registered[e] : Registered[e][j] = cb
          /\ Registered' = [Registered EXCEPT ![e] =
                Registry!Without(Registered[e], Registry!Oldest(Registered[e], cb))]
      BY <2>3, <2>5, <2>7 DEF R, S, s
    <2>9. Registry!RegRemove(e, cb)
      BY <1>5, <1>6, <2>8 DEF Registry!RegRemove, Registry!Quiet
    <2>10. QED
      BY <1>1, <2>9 DEF Registry!RegNext, Events
  <1>10. \/ links' = links /\ listeners' = listeners /\ cb_of' = cb_of
         \/ \E i \in DOMAIN c :
               /\ cb_of[c[i]] = cb
               /\ \A j \in DOMAIN c : cb_of[c[j]] = cb => i <= j
               /\ \A n \in Items \ {c[i]} : cb_of'[n] = cb_of[n]
               /\ \A k \in Keys : Listed(listeners', links', k) =
                     IF k = e THEN RemoveNode(c, i)
                     ELSE Listed(listeners, links, k)
    BY RemoveStep
  <1>11. QED
    BY <1>8, <1>9, <1>10

\* A step that leaves the heap alone leaves the registered callbacks alone.
LEMMA SameRegistered ==
    ASSUME UNCHANGED heap
    PROVE  Registered' = Registered
  BY DEF heap, Registered

\* A step that leaves the heap and the cursors alone is none of the registry's.
LEMMA SameRegistry ==
    ASSUME UNCHANGED heap, UNCHANGED <<head, item>>
    PROVE  UNCHANGED Registry!regVars
  <1>1. Registered' = Registered
    BY SameRegistered
  <1>2. \A t \in Threads : Owed(t)' = Owed(t)
    BY OwedIsOwedAt DEF heap
  <1>3. [t \in Threads |-> Owed(t)]' = [t \in Threads |-> Owed(t)]
    BY <1>2
  <1>4. QED
    BY <1>1, <1>3 DEF Registry!regVars

\* A call that returns without having touched the heap, and without owing a
\* callback, is none either.
LEMMA ReturnIsNothing ==
    ASSUME ListenersInv, NEW t \in Threads, pc[t] \in Busy, Unlock(t),
           UNCHANGED heap, \A s \in Threads : Owed(s) = <<>>
    PROVE  UNCHANGED Registry!regVars
  <1>1. Registered' = Registered
    BY SameRegistered
  <1>2. \A s \in Threads : Owed(s)' = <<>>
    BY QuietAfter
  <1>3. [s \in Threads |-> Owed(s)]' = [s \in Threads |-> Owed(s)]
    BY <1>2
  <1>4. QED
    BY <1>1, <1>3 DEF Registry!regVars

\* The thread in pc_emit_event is the only one.
LEMMA OthersOweNothing ==
    ASSUME ListenersInv, NEW t \in Threads, pc[t] \in Busy,
           NEW s \in Threads, s # t
    PROVE  head[s] = NULL /\ Owed(s) = <<>>
  <1>1. pc[s] \notin {"loop", "cb", "stuck"}
    BY DEF ListenersInv, Locked, Busy
  <1>2. head[s] = NULL
    BY <1>1 DEF ListenersInv, Cursor
  <1>3. QED
    BY <1>2 DEF Owed

\* The function of what each thread owes, when one thread moves.
LEMMA OneOwes ==
    ASSUME ListenersInv, NEW t \in Threads, pc[t] \in Busy,
           \A s \in Threads \ {t} : head'[s] = head[s],
           NEW r, Owed(t)' = r
    PROVE  [s \in Threads |-> Owed(s)]' =
              [[s \in Threads |-> Owed(s)] EXCEPT ![t] = r]
  <1>1. \A s \in Threads \ {t} : Owed(s)' = Owed(s)
    <2> SUFFICES ASSUME NEW s \in Threads \ {t} PROVE Owed(s)' = Owed(s)
      OBVIOUS
    <2>1. head[s] = NULL /\ Owed(s) = <<>>
      BY OthersOweNothing
    <2>2. head'[s] = NULL
      BY <2>1
    <2>3. Owed(s)' = <<>>
      BY <2>2 DEF Owed
    <2>4. QED
      BY <2>1, <2>3
  <1>2. QED
    BY <1>1

\* The first step of pc_emit_event owes every callback of the event, the
\* oldest first.
LEMMA EmitIsRegEmit ==
    ASSUME ListenersInv, NEW t \in Threads, EmitStart(t)
    PROVE  Registry!RegNext
  <1> DEFINE e == op[t].event
             h == pc_map_get(listeners, e)
             c == Chain(links, h)
  <1>1. /\ pc[t] = "emit" /\ Found(listeners, e) /\ UNCHANGED heap
        /\ head' = [head EXCEPT ![t] = h]
        /\ item' = [item EXCEPT ![t] = links.next[h]]
    BY DEF EmitStart
  <1>2. e \in Keys
    BY <1>1 DEF ListenersInv, Typed, Events
  <1>3. h \in Values(listeners) /\ Kept
    BY <1>1, <1>2, GetIsValue DEF ListenersInv, Kept, Store
  <1>4. h \in Heads /\ Ring(links, h, c) /\ c # <<>>
    BY <1>3, KeptRings
  <1>5. Len(c) \in Nat /\ c \in Seq(Items)
    BY <1>4, RingTypes
  <1>6. Len(c) >= 1
    BY <1>4, <1>5, EmptySeq
  <1>7. links.next[h] = At(h, c, 1)
    <2>1. At(h, c, 0) = h
      BY <1>5 DEF At
    <2>2. 0 \in 0 .. Len(c) /\ 0 + 1 = 1
      BY <1>5
    <2>3. links.next[At(h, c, 0)] = At(h, c, 0 + 1)
      BY <1>4, <2>2 DEF Ring
    <2>4. QED
      BY <2>1, <2>2, <2>3
  <1>8. head'[t] = h /\ item'[t] = At(h, c, 1)
        /\ \A s \in Threads \ {t} : head'[s] = head[s]
    BY <1>1, <1>7 DEF ListenersInv, Typed
  <1>9. links' = links /\ cb_of' = cb_of
    BY <1>1 DEF heap
  <1>10. 1 \in 1 .. Len(c) /\ 1 \in 1 .. Len(c) + 1
    BY <1>5, <1>6
  <1>11. Owed(t)' = From(c, cb_of, 1)
    <2>1. OwedAt(links, cb_of, h, At(h, c, 1)) =
             IF 1 \in 1 .. Len(c) THEN From(c, cb_of, 1) ELSE <<>>
      BY <1>4, <1>10, OwedFrom
    <2>2. Owed(t)' = OwedAt(links', cb_of', head'[t], item'[t])
      BY OwedIsOwedAt
    <2>3. QED
      BY <1>8, <1>9, <1>10, <2>1, <2>2
  <1>12. From(c, cb_of, 1) = Calls(c, cb_of)
    <2> HIDE DEF c
    <2>1. Len(c) - 1 + 1 = Len(c) /\ \A j \in 1 .. Len(c) : 1 + j - 1 = j
      BY <1>5
    <2>2. QED
      BY <2>1 DEF From, Calls
  <1>13. Registered[e] = Calls(c, cb_of)
    <2>1. Registered = [k \in Keys |-> Calls(Listed(listeners, links, k), cb_of)]
      BY RegisteredIs DEF ListenersInv
    <2>2. QED
      BY <1>1, <1>2, <2>1 DEF Listed
  <1>14. [s \in Threads |-> Owed(s)]' =
            [[s \in Threads |-> Owed(s)] EXCEPT ![t] = Registered[e]]
    <2> DEFINE r == Registered[e]
    <2>1. Owed(t)' = r
      BY <1>11, <1>12, <1>13
    <2> HIDE DEF r
    <2>2. [s \in Threads |-> Owed(s)]' =
             [[s \in Threads |-> Owed(s)] EXCEPT ![t] = r]
      BY <1>1, <1>8, <2>1, OneOwes DEF Busy
    <2>3. QED
      BY <2>2 DEF r
  <1>15. Registered' = Registered
    BY <1>1, SameRegistered
  <1>16. \A s \in Threads : Owed(s) = <<>>
    BY <1>1, QuietBefore
  <1>17. Registry!RegEmit(t, e)
    BY <1>14, <1>15, <1>16 DEF Registry!RegEmit, Registry!Quiet
  <1>18. QED
    BY <1>2, <1>17 DEF Registry!RegNext, Events

\* When a callback has returned, pc_emit_event owes the ones behind it.
LEMMA NextIsRegCall ==
    ASSUME ListenersInv, NEW t \in Threads, EmitNext(t)
    PROVE  Registry!RegNext
  <1> DEFINE h == head[t]
             c == Chain(links, h)
  <1>1. /\ pc[t] = "cb" /\ UNCHANGED heap /\ head' = head
        /\ item' = [item EXCEPT ![t] = links.next[item[t]]]
    BY DEF EmitNext
  <1>2. h \in Heads /\ Ring(links, h, c) /\ Len(c) \in Nat
    BY <1>1, CursorAt
  <1>3. PICK i \in 1 .. Len(c) + 1 : item[t] = At(h, c, i) /\ i \in 1 .. Len(c)
    BY <1>1, CursorAt
  <1>4. i \in 0 .. Len(c) /\ i + 1 \in 1 .. Len(c) + 1 /\ i \in Nat
    BY <1>2, <1>3
  <1>5. links.next[item[t]] = At(h, c, i + 1)
    BY <1>2, <1>3, <1>4 DEF Ring
  <1>6. item'[t] = At(h, c, i + 1) /\ head'[t] = h
    BY <1>1, <1>5 DEF ListenersInv, Typed
  <1>7. links' = links /\ cb_of' = cb_of
    BY <1>1 DEF heap
  <1>8. Owed(t) = From(c, cb_of, i)
    <2>1. OwedAt(links, cb_of, h, At(h, c, i)) =
             IF i \in 1 .. Len(c) THEN From(c, cb_of, i) ELSE <<>>
      BY <1>2, OwedFrom
    <2>2. QED
      BY <1>3, <2>1, OwedIsOwedAt
  <1>9. Owed(t)' = IF i + 1 \in 1 .. Len(c) THEN From(c, cb_of, i + 1) ELSE <<>>
    <2> DEFINE k == i + 1
    <2>1. k \in 1 .. Len(c) + 1
      BY <1>4
    <2> HIDE DEF k
    <2>2. OwedAt(links, cb_of, h, At(h, c, k)) =
             IF k \in 1 .. Len(c) THEN From(c, cb_of, k) ELSE <<>>
      BY <1>2, <2>1, OwedFrom
    <2>3. Owed(t)' = OwedAt(links', cb_of', head'[t], item'[t])
      BY OwedIsOwedAt
    <2>4. QED
      BY <1>6, <1>7, <2>2, <2>3 DEF k
  <1> HIDE DEF c, h
  <1>10. From(c, cb_of, i) # <<>>
         /\ Owed(t)' = Tail(From(c, cb_of, i))
    <2> DEFINE r == From(c, cb_of, i)
               m == Len(c) - i + 1
    <2>1. m \in Nat /\ m >= 1
      BY <1>2, <1>3
    <2>2. DOMAIN r = 1 .. m /\ \A j \in 1 .. m : r[j] = cb_of[c[i + j - 1]]
      BY DEF From
    <2>3. r = [j \in 1 .. m |-> r[j]]
      BY <2>2 DEF From
    <2> HIDE DEF r
    <2>4. r # <<>> /\ Len(r) = m
      BY <2>1, <2>3
    <2>5. Tail(r) = [j \in 1 .. m - 1 |-> r[j + 1]]
      BY <2>1, <2>3, <2>4
    <2>6. Tail(r) = [j \in 1 .. m - 1 |-> cb_of[c[i + 1 + j - 1]]]
      <3>1. \A j \in 1 .. m - 1 : r[j + 1] = cb_of[c[i + 1 + j - 1]]
        <4> SUFFICES ASSUME NEW j \in 1 .. m - 1
                     PROVE  r[j + 1] = cb_of[c[i + 1 + j - 1]]
          OBVIOUS
        <4>1. j + 1 \in 1 .. m /\ i + (j + 1) - 1 = i + 1 + j - 1
          BY <1>4, <2>1
        <4>2. r[j + 1] = cb_of[c[i + (j + 1) - 1]]
          BY <2>2, <4>1
        <4>3. QED
          BY <4>1, <4>2
      <3>2. QED
        BY <2>5, <3>1
    <2>7. CASE i + 1 \in 1 .. Len(c)
      <3>1. m - 1 = Len(c) - (i + 1) + 1
        BY <1>2, <1>4
      <3>2. Tail(r) = From(c, cb_of, i + 1)
        BY <2>6, <3>1 DEF From
      <3>3. QED
        BY <1>9, <2>4, <2>7, <3>2 DEF r
    <2>8. CASE i + 1 \notin 1 .. Len(c)
      <3>1. m - 1 = 0
        BY <1>2, <1>3, <1>4, <2>8
      <3>2. Tail(r) = <<>>
        BY <2>5, <3>1
      <3>3. QED
        BY <1>9, <2>4, <2>8, <3>2 DEF r
    <2>9. QED
      BY <2>7, <2>8
  <1>11. Owed(t) # <<>> /\ Owed(t)' = Tail(Owed(t))
    BY <1>8, <1>10
  <1>12. [s \in Threads |-> Owed(s)]' =
            [[s \in Threads |-> Owed(s)] EXCEPT ![t] = Tail(Owed(t))]
    <2> DEFINE r == Tail(Owed(t))
    <2>1. Owed(t)' = r
      BY <1>11
    <2> HIDE DEF r
    <2>2. [s \in Threads |-> Owed(s)]' =
             [[s \in Threads |-> Owed(s)] EXCEPT ![t] = r]
      BY <1>1, <2>1, OneOwes DEF Busy
    <2>3. QED
      BY <2>2 DEF r
  <1>13. Registered' = Registered
    BY <1>1, SameRegistered
  <1>14. Registry!RegCall(t)
    BY <1>11, <1>12, <1>13 DEF Registry!RegCall
  <1>15. QED
    BY <1>14 DEF Registry!RegNext

\* pc_emit_event returns at the end of its queue, which is not empty.
LEMMA DoneOwesNothing ==
    ASSUME ListenersInv, NEW t \in Threads, EmitDone(t)
    PROVE  \A s \in Threads : Owed(s) = <<>>
  <1>1. pc[t] = "loop" /\ (item[t] = head[t] \/ ngx_queue_empty(links, head[t]))
    BY DEF EmitDone
  <1>2. /\ head[t] \in Heads /\ Ring(links, head[t], Chain(links, head[t]))
        /\ Chain(links, head[t]) # <<>>
    BY <1>1, CursorAt
  <1>3. item[t] = head[t]
    BY <1>1, <1>2, EmptyRing
  <1>4. Owed(t) = <<>>
    BY <1>3 DEF Owed
  <1>5. QED
    BY <1>1, <1>4, OthersOweNothing DEF Busy

\* pc__client_clear clears the registry.
LEMMA DestroyIsRegClear ==
    ASSUME ListenersInv, Destroy
    PROVE  Registry!RegNext
  <1>1. listeners' = pc_map_init /\ head' = head
        /\ \A t \in Threads : pc[t] = "idle"
    BY DestroyNext DEF Destroy
  <1>2. \A t \in Threads : head[t] = NULL
    BY <1>1 DEF ListenersInv, Cursor
  <1>3. \A t \in Threads : Owed(t) = <<>> /\ Owed(t)' = <<>>
    BY <1>1, <1>2 DEF Owed
  <1>4. [t \in Threads |-> Owed(t)]' = [t \in Threads |-> Owed(t)]
    BY <1>3
  <1>5. \A e \in Keys : ~Found(pc_map_init, e)
    BY InitHasNone, FoundIsHas
  <1>6. Registered' = [e \in Keys |-> <<>>]
    BY <1>1, <1>5 DEF Registered, Events
  <1>7. Registry!RegClear
    BY <1>3, <1>4, <1>6 DEF Registry!RegClear, Registry!Quiet, Events
  <1>8. QED
    BY <1>7 DEF Registry!RegNext

\* Every step is one of the registry, or none.
LEMMA StepIsRegistry ==
    ASSUME ListenersInv, ListenersInv', [Next]_vars
    PROVE  [Registry!RegNext]_(Registry!regVars)
  <1>1. ASSUME NEW t \in Threads, ThreadStep(t)
        PROVE  Registry!RegNext \/ UNCHANGED Registry!regVars
    <2>1. CASE AddListener(t)
      BY <2>1, AddIsRegAdd DEF ListenersInv
    <2>2. CASE RemoveListener(t)
      BY <2>2, RemoveIsRegRemove DEF ListenersInv
    <2>3. CASE AddFails(t) \/ RemoveNothing(t) \/ EmitNothing(t)
      <3>1. pc[t] \in {"add", "remove", "emit"} /\ Unlock(t) /\ UNCHANGED heap
        BY <2>3 DEF AddFails, RemoveNothing, EmitNothing
      <3>2. \A s \in Threads : Owed(s) = <<>>
        BY <3>1, QuietBefore
      <3>3. QED
        BY <3>1, <3>2, ReturnIsNothing DEF Busy
    <2>4. CASE EmitStart(t)
      BY <2>4, EmitIsRegEmit
    <2>5. CASE EmitCall(t) \/ CallbackReenters(t)
      BY <2>5, SameRegistry DEF EmitCall, CallbackReenters
    <2>6. CASE EmitDone(t)
      <3>1. pc[t] \in Busy /\ Unlock(t) /\ UNCHANGED heap
        BY <2>6 DEF EmitDone, Busy
      <3>2. QED
        BY <2>6, <3>1, DoneOwesNothing, ReturnIsNothing
    <2>7. CASE EmitNext(t)
      BY <2>7, NextIsRegCall
    <2>8. QED
      BY <1>1, <2>1, <2>2, <2>3, <2>4, <2>5, <2>6, <2>7 DEF ThreadStep
  <1>2. ASSUME NEW t \in Threads, CallAdd(t) \/ \E o \in Ops : Lock(t, o)
        PROVE  UNCHANGED Registry!regVars
    <2>1. UNCHANGED heap /\ UNCHANGED <<head, item>>
      BY <1>2 DEF CallAdd, Lock
    <2>2. QED
      BY <2>1, SameRegistry
  <1>3. CASE Close \/ UNCHANGED vars
    <2>1. UNCHANGED heap /\ UNCHANGED <<head, item>>
      BY <1>3 DEF Close, vars, heap
    <2>2. QED
      BY <2>1, SameRegistry
  <1>4. CASE Destroy
    BY <1>4, DestroyIsRegClear
  <1>5. QED
    BY <1>1, <1>2, <1>3, <1>4 DEF Next

\* The map, the queues and listener_mutex implement the registry of callbacks:
\* for every event the callbacks in the order they were added; an event is
\* handed to exactly those registered when it is emitted, each once, and no
\* add, remove or destroy gets in between.
THEOREM ListenersImplementRegistry == Spec => ImplementsRegistry
  <1>1. Init => Registry!RegInit
    <2> SUFFICES ASSUME Init PROVE Registry!RegInit
      OBVIOUS
    <2>1. \A t \in Threads : Owed(t) = <<>>
      BY DEF Init, Owed
    <2>2. \A e \in Keys : ~Found(listeners, e)
      BY InitHasNone, FoundIsHas DEF Init
    <2>3. QED
      BY <2>1, <2>2 DEF Registry!RegInit, Registered, Events
  <1>2. ListenersInv /\ ListenersInv' /\ [Next]_vars
           => [Registry!RegNext]_(Registry!regVars)
    BY StepIsRegistry
  <1>3. QED
    BY <1>1, <1>2, ListenersInvariant, PTL
       DEF Spec, ImplementsRegistry, Registry!RegSpec

=============================================================================
