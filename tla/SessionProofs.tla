---------------------------- MODULE SessionProofs ----------------------------
(***************************************************************************)
(* Proofs about Session and SessionMessages, for every set of servers,     *)
(* versions, directories and back-off configurations, and for all messages *)
(* and definitions: from the round trip of the protobuf codec to what      *)
(* arrives of a message over any number of connections.                    *)
(***************************************************************************)
EXTENDS PbCodecProofs
-----------------------------------------------------------------------------
(* The reconnect delay.                                                    *)

\* The powers of two up to the n-th.
Doubling(g, n) ==
    /\ g \in [0 .. n -> Nat] /\ g[0] = 1
    /\ \A i \in 1 .. n : g[i] = 2 * g[i - 1]

\* They exist: the least n for which they did not would have a predecessor.
LEMMA DoublingExists == \A n \in Nat : \E g : Doubling(g, n)
  <1> DEFINE T == {n \in Nat : ~\E g : Doubling(g, n)}
  <1>1. SUFFICES ASSUME T # {} PROVE FALSE
    OBVIOUS
  <1>2. PICK n \in T : \A m \in T : n <= m
    BY <1>1, LeastNatural
  <1>3. CASE n = 0
    <2>1. Doubling([i \in 0 .. 0 |-> 1], 0)
      BY DEF Doubling
    <2>2. QED
      BY <1>2, <1>3, <2>1
  <1>4. CASE n # 0
    <2>1. n - 1 \in Nat /\ n - 1 \notin T
      BY <1>2, <1>4
    <2>2. PICK g : Doubling(g, n - 1)
      BY <2>1
    <2> DEFINE f == [i \in 0 .. n |-> IF i = n THEN 2 * g[n - 1] ELSE g[i]]
    <2>3. g \in [0 .. n - 1 -> Nat] /\ g[0] = 1
          /\ \A i \in 1 .. n - 1 : g[i] = 2 * g[i - 1]
      BY <2>2 DEF Doubling
    <2>4. \A i \in 0 .. n : (IF i = n THEN 2 * g[n - 1] ELSE g[i]) \in Nat
      BY <2>1, <2>3
    <2>5. f \in [0 .. n -> Nat]
      BY <2>4
    <2>6. f[0] = 1
      BY <1>4, <2>1, <2>3
    <2>7. ASSUME NEW i \in 1 .. n PROVE f[i] = 2 * f[i - 1]
      <3>1. i - 1 \in 0 .. n /\ i \in 0 .. n /\ i - 1 # n
        BY <2>1
      <3>2. f[i - 1] = g[i - 1]
        BY <3>1
      <3>3. CASE i = n
        BY <3>1, <3>2, <3>3
      <3>4. CASE i # n
        <4>1. i \in 1 .. n - 1
          BY <2>1, <3>4
        <4>2. QED
          BY <2>3, <3>1, <3>2, <3>4, <4>1
      <3>5. QED
        BY <3>3, <3>4
    <2> HIDE DEF f
    <2>8. Doubling(f, n)
      BY <2>5, <2>6, <2>7 DEF Doubling
    <2>9. QED
      BY <1>2, <2>8
  <1>5. QED
    BY <1>3, <1>4

\* ... and any two agree.
LEMMA DoublingUnique ==
    ASSUME NEW m \in Nat, NEW n \in Nat, NEW f, NEW g,
           Doubling(f, m), Doubling(g, n), NEW k \in Nat, k <= m, k <= n
    PROVE  f[k] = g[k]
  <1> DEFINE T == {i \in Nat : i <= m /\ i <= n /\ f[i] # g[i]}
  <1>1. SUFFICES ASSUME T # {} PROVE FALSE
    OBVIOUS
  <1>2. PICK i \in T : \A j \in T : i <= j
    BY <1>1, LeastNatural
  <1>3. i # 0
    BY <1>2 DEF Doubling
  <1>4. i - 1 \in Nat /\ i - 1 \notin T /\ i \in 1 .. m /\ i \in 1 .. n
    BY <1>2, <1>3
  <1>5. f[i - 1] = g[i - 1]
    BY <1>2, <1>4
  <1>6. f[i] = 2 * f[i - 1] /\ g[i] = 2 * g[i - 1]
    BY <1>4 DEF Doubling
  <1>7. QED
    BY <1>2, <1>5, <1>6

\* What 1 << n is.
LEMMA ShiftIs ==
    /\ ShiftedOne[0] = 1
    /\ \A n \in Nat : ShiftedOne[n + 1] = 2 * ShiftedOne[n]
    /\ \A n \in Nat : ShiftedOne[n] \in Nat /\ ShiftedOne[n] >= 1
  <1> DEFINE upto(n) == CHOOSE g : Doubling(g, n)
             f == [n \in Nat |-> upto(n)[n]]
  <1>1. \A n \in Nat : Doubling(upto(n), n)
    BY DoublingExists
  <1>2. f[0] = 1
    BY <1>1 DEF Doubling
  <1>3. \A n \in Nat : f[n] \in Nat
    BY <1>1 DEF Doubling
  <1>4. ASSUME NEW n \in Nat \ {0} PROVE f[n] = 2 * f[n - 1]
    <2>1. n - 1 \in Nat /\ n \in 1 .. n
      OBVIOUS
    <2>2. upto(n)[n] = 2 * upto(n)[n - 1]
      BY <1>1, <2>1 DEF Doubling
    <2>3. upto(n)[n - 1] = upto(n - 1)[n - 1]
      BY <1>1, <2>1, DoublingUnique
    <2>4. QED
      BY <2>1, <2>2, <2>3
  <1> HIDE DEF f
  <1>5. f = [n \in Nat |-> IF n = 0 THEN 1 ELSE 2 * f[n - 1]]
    <2>1. f = [n \in Nat |-> f[n]]
      BY DEF f
    <2>2. QED
      BY <1>2, <1>4, <2>1
  <1>6. \E h : h = [n \in Nat |-> IF n = 0 THEN 1 ELSE 2 * h[n - 1]]
    BY <1>5
  <1>7. ShiftedOne = [n \in Nat |-> IF n = 0 THEN 1 ELSE 2 * ShiftedOne[n - 1]]
    BY <1>6 DEF ShiftedOne
  <1> DEFINE T == {n \in Nat : ~(ShiftedOne[n] \in Nat /\ ShiftedOne[n] >= 1)}
  <1>8. ASSUME T # {} PROVE FALSE
    <2>1. PICK n \in T : \A m \in T : n <= m
      BY <1>8, LeastNatural
    <2>2. n # 0
      BY <1>7, <2>1
    <2>3. n - 1 \in Nat /\ n - 1 \notin T
      BY <2>1, <2>2
    <2>4. ShiftedOne[n] = 2 * ShiftedOne[n - 1]
      BY <1>7, <2>1, <2>2
    <2>5. QED
      BY <2>1, <2>3, <2>4
  <1>9. \A n \in Nat : ShiftedOne[n] \in Nat /\ ShiftedOne[n] >= 1
    BY <1>8
  <1>10. \A n \in Nat : ShiftedOne[n + 1] = 2 * ShiftedOne[n]
    BY <1>7
  <1>11. QED
    BY <1>7, <1>9, <1>10

\* A configuration that pc_client_new_with_reconnect accepts.
Accepted(c) ==
    /\ c.delay \in Int /\ c.delay_max \in Int /\ c.exp_backoff \in BOOLEAN
    /\ GoodConfig(c)

\* The number of attempts after which the delay is the greatest.
LEMMA IncrIs ==
    ASSUME NEW c, Accepted(c)
    PROVE  max_reconnects_incr(c) \in Int
  <1>1. IntLog(c) \in Int
    <2> DEFINE above == {k \in DOMAIN Powers : RatioAbove(c, Powers[k])}
    <2>1. PICK n \in Int : DOMAIN Powers = 1 .. n
      <3>1. DOMAIN Powers = 1 .. 13
        BY DEF Powers
      <3>2. QED
        BY <3>1
    <2>2. IsFiniteSet(above)
      <3>1. IsFiniteSet(1 .. n)
        BY FS_Interval
      <3>2. above \subseteq 1 .. n
        BY <2>1
      <3> HIDE DEF above
      <3>3. QED
        BY <3>1, <3>2, FS_Subset
    <2>3. Cardinality(above) \in Nat
      BY <2>2, FS_CardinalityType
    <2>4. QED
      BY <2>3 DEF IntLog
  <1>2. (IntLog(c) * 1000000) \div 693147 + 1 \in Int
    BY <1>1
  <1>3. c.delay_max \div c.delay + 1 \in Int
    BY DEF Accepted, GoodConfig
  <1>4. QED
    BY <1>2, <1>3 DEF max_reconnects_incr

\* The base delay is positive and bounded, not below the one configured unless
\* that is above the greatest, and it does not shrink with the attempts.
LEMMA BaseDelayIs ==
    ASSUME NEW c, Accepted(c), NEW r \in Nat \ {0}
    PROVE  /\ BaseDelay(c, r) \in 1 .. c.delay_max
           /\ BaseDelay(c, r) >= c.delay \/ BaseDelay(c, r) = c.delay_max
           /\ BaseDelay(c, r) <= BaseDelay(c, r + 1)
  <1> DEFINE D == c.delay
             M == c.delay_max
             I == max_reconnects_incr(c)
             raw(n) == IF c.exp_backoff THEN D * ShiftedOne[n] ELSE D * n
             cut(x) == IF x > M THEN M ELSE x
  <1>1. D \in Int /\ D > 0 /\ M \in Int /\ M > 0 /\ I \in Int
    BY IncrIs DEF Accepted, GoodConfig
  <1>2. \A n \in Nat : BaseDelay(c, n) = IF n >= I THEN M ELSE cut(raw(n))
    BY <1>1 DEF BaseDelay
  <1>3. \A n \in Nat \ {0} :
           raw(n) \in Int /\ raw(n) >= D /\ raw(n) <= raw(n + 1)
    <2> SUFFICES ASSUME NEW n \in Nat \ {0}
                 PROVE  raw(n) \in Int /\ raw(n) >= D /\ raw(n) <= raw(n + 1)
      OBVIOUS
    <2> DEFINE k == IF c.exp_backoff THEN ShiftedOne[n] ELSE n
               l == IF c.exp_backoff THEN ShiftedOne[n + 1] ELSE n + 1
    <2>1. k \in Nat /\ l \in Nat /\ k >= 1 /\ k <= l
      BY ShiftIs
    <2>2. raw(n) = D * k /\ raw(n + 1) = D * l
      OBVIOUS
    <2> HIDE DEF k, l, raw, D
    <2>3. D * k \in Int /\ D * k >= D * 1 /\ D * k <= D * l
      BY <1>1, <2>1
    <2>4. QED
      BY <1>1, <2>2, <2>3
  <1> HIDE DEF raw, D, M, I
  <1>4. r \in Nat /\ r + 1 \in Nat \ {0}
    OBVIOUS
  <1>5. BaseDelay(c, r) = IF r >= I THEN M ELSE cut(raw(r))
    BY <1>2, <1>4
  <1>6. BaseDelay(c, r + 1) = IF r + 1 >= I THEN M ELSE cut(raw(r + 1))
    BY <1>2, <1>4
  <1>7. /\ raw(r) \in Int /\ raw(r) >= D /\ raw(r) <= raw(r + 1)
        /\ raw(r + 1) \in Int
    BY <1>3, <1>4
  <1>8. BaseDelay(c, r) \in 1 .. M
    BY <1>1, <1>5, <1>7
  <1>9. BaseDelay(c, r) >= D \/ BaseDelay(c, r) = M
    BY <1>1, <1>5, <1>7
  <1>10. BaseDelay(c, r) <= BaseDelay(c, r + 1)
    BY <1>1, <1>4, <1>5, <1>6, <1>7
  <1>11. QED
    BY <1>8, <1>9, <1>10 DEF D, M
-----------------------------------------------------------------------------
(* The inductive invariant.                                                *)

\* The base delay is that of the last attempt.
Delayed ==
    /\ Accepted(cfg)
    /\ base = IF reconnects = 0 THEN 0 ELSE BaseDelay(cfg, reconnects)

\* While the client waits or connects it has the definitions of the version it will
\* announce, or none; while it dumps, those of the peer; and then as
\* DefinitionsInSync says.
InStep ==
    /\ st \in {"down", "connect", "asked"} =>
          client_protos \in {NULL, proto_ver} /\ server_protos \in {NULL, proto_ver}
    /\ st = "dump" =>
          client_protos = peer.version /\ server_protos = peer.version
    /\ st \in {"acked", "up"} /\ FilesAgree
          /\ proto_ver \in {NULL, pc__load_file("version")} =>
          client_protos = peer.version /\ server_protos = peer.version

\* What is still to be dumped.
Dumping ==
    dumps \in {<<>>, <<"client">>, <<"server", "client">>,
               <<"version", "server", "client">>}

\* The inductive invariant.
SessionInv == TypeOK /\ Delayed /\ InStep /\ Dumping
-----------------------------------------------------------------------------
(* The invariant is inductive.                                             *)

\* The types of the constants.
LEMMA PeerIs ==
    ASSUME NEW p \in Peers
    PROVE  /\ p.version \in Versions \cup {NULL}
           /\ \A r \in DOMAIN p.dict : p.dict[r] \in Nat
  <1>1. RouteCodes \subseteq Nat
    BY SMT DEF RouteCodes
  <1>2. QED
    BY <1>1, SessionAssumption

\* A new client, with the files the application shipped.
LEMMA SessionInit == Init => SessionInv
  <1> SUFFICES ASSUME Init PROVE SessionInv
    OBVIOUS
  <1>1. Accepted(cfg)
    BY SessionAssumption DEF Init, Accepted
  <1>2. Delayed
    BY <1>1 DEF Init, Delayed
  <1>3. files \in [Places -> [Files -> Versions \cup {NULL}]]
    BY SessionAssumption DEF Init
  <1>4. MaxReconnects \in Nat
    BY SessionAssumption
  <1>5. TypeOK
    <2>1. /\ DOMAIN route_to_code = {} /\ DOMAIN code_to_route = {}
          /\ requests = {}
      BY DEF Init
    <2> reconnecting \in BOOLEAN
      BY DEF Init
    <2>2. /\ reconnects \in 0 .. MaxReconnects /\ base \in 0 .. cfg.delay_max
          /\ delay \in 0 .. 2 * cfg.delay_max - 1
      BY <1>1, <1>4 DEF Init, Accepted, GoodConfig
    <2>3. QED
      BY <1>3, <2>1, <2>2 DEF Init, TypeOK
  <1>6. InStep /\ Dumping
    BY DEF Init, InStep, Dumping
  <1>7. QED
    BY <1>2, <1>5, <1>6 DEF SessionInv

\* pc__client_reconnect: the next attempt is counted and its delay computed.
LEMMA ReconnectStep ==
    ASSUME SessionInv, pc__client_reconnect
    PROVE  /\ Delayed' /\ base' >= base /\ base' \in 1 .. cfg.delay_max
           /\ base' >= cfg.delay \/ base' = cfg.delay_max
           /\ delay' >= base' /\ delay' < 2 * base'
           /\ delay' \in 1 .. 2 * cfg.delay_max - 1
           /\ reconnects' \in 1 .. MaxReconnects
  <1> DEFINE n == reconnects + 1
  <1>1. /\ Accepted(cfg) /\ cfg' = cfg /\ reconnects' = n
        /\ base' = BaseDelay(cfg, n) /\ delay' \in Jittered(base')
    BY DEF pc__client_reconnect, SessionInv, Delayed
  <1>2. /\ reconnects \in Nat /\ reconnects < MaxReconnects
        /\ MaxReconnects \in Nat /\ n \in Nat \ {0}
    BY SessionAssumption DEF pc__client_reconnect, SessionInv, TypeOK
  <1>3. /\ BaseDelay(cfg, n) \in 1 .. cfg.delay_max
        /\ BaseDelay(cfg, n) >= cfg.delay \/ BaseDelay(cfg, n) = cfg.delay_max
    BY <1>1, <1>2, BaseDelayIs
  <1>4. base' >= base
    <2>1. CASE reconnects = 0
      BY <1>1, <1>3, <2>1 DEF SessionInv, Delayed, Accepted
    <2>2. CASE reconnects # 0
      <3>1. reconnects \in Nat \ {0}
        BY <1>2, <2>2
      <3>2. BaseDelay(cfg, reconnects) <= BaseDelay(cfg, n)
        BY <1>1, <3>1, BaseDelayIs
      <3>3. base \in Int /\ base' \in Int
        BY <1>1, <1>3 DEF SessionInv, TypeOK
      <3>4. base = BaseDelay(cfg, reconnects)
        BY <2>2 DEF SessionInv, Delayed
      <3>5. QED
        BY <1>1, <3>2, <3>3, <3>4
    <2>3. QED
      BY <2>1, <2>2
  <1>5. n # 0 /\ n \in 1 .. MaxReconnects
    BY <1>2
  <1>6. Delayed'
    BY <1>1, <1>5 DEF Delayed
  <1> DEFINE b == base'
             M == cfg.delay_max
  <1>7. b \in 1 .. M /\ M \in Int
    BY <1>1, <1>3 DEF Accepted
  <1>8. delay' \in {b, 2 * b - 1}
    BY <1>1 DEF Jittered
  <1> HIDE DEF b, M
  <1>9. delay' >= b /\ delay' < 2 * b /\ delay' \in 1 .. 2 * M - 1
    BY <1>7, <1>8
  <1>10. QED
    BY <1>1, <1>3, <1>4, <1>5, <1>6, <1>7, <1>9 DEF b, M

\* ... and the definitions are dropped, but not their version.
LEMMA ReconnectNext ==
    ASSUME SessionInv, pc__client_reconnect, st # "dump"
    PROVE  SessionInv'
  <1>1. /\ st' = "down" /\ reconnecting' = TRUE /\ requests' = {}
        /\ client_protos' = NULL /\ server_protos' = NULL
        /\ route_to_code' = <<>> /\ code_to_route' = <<>>
        /\ cfg' = cfg /\ proto_ver' = proto_ver /\ dumps' = dumps
        /\ dirs' = dirs /\ files' = files /\ peer' = peer
    BY DEF pc__client_reconnect, disk
  <1>2. /\ Delayed' /\ base' \in 1 .. cfg.delay_max
        /\ delay' \in 1 .. 2 * cfg.delay_max - 1
        /\ reconnects' \in 1 .. MaxReconnects
    BY ReconnectStep
  <1>3. dumps = <<>>
    BY DEF SessionInv, TypeOK
  <1>4. /\ base' \in 0 .. cfg.delay_max /\ delay' \in 0 .. 2 * cfg.delay_max - 1
        /\ reconnects' \in 0 .. MaxReconnects
    <2>1. cfg.delay_max \in Int /\ MaxReconnects \in Nat
      BY SessionAssumption DEF SessionInv, Delayed, Accepted
    <2>2. QED
      BY <1>2, <2>1
  <1>5. DOMAIN route_to_code' = {} /\ DOMAIN code_to_route' = {}
    BY <1>1
  <1>6. TypeOK'
    BY <1>1, <1>3, <1>4, <1>5 DEF SessionInv, TypeOK
  <1>7. InStep' /\ Dumping'
    BY <1>1 DEF InStep, SessionInv, Dumping
  <1>8. QED
    BY <1>2, <1>6, <1>7 DEF SessionInv

\* A step that leaves the back-off alone, but for the flag.
LEMMA SameDelay ==
    ASSUME SessionInv, cfg' = cfg, reconnects' = reconnects, base' = base
    PROVE  Delayed'
  BY DEF SessionInv, Delayed

\* The dictionary of the peer.
LEMMA DictStep ==
    ASSUME SessionInv, SetDict
    PROVE  /\ \A r \in DOMAIN route_to_code' : route_to_code'[r] \in Nat
           /\ \A c \in DOMAIN code_to_route' :
                 code_to_route'[c] \in DOMAIN route_to_code'
  <1>1. CASE peer.dict = <<>>
    BY <1>1 DEF SetDict, dict, SessionInv, TypeOK
  <1>2. CASE peer.dict # <<>>
    <2>1. route_to_code' = peer.dict /\ code_to_route' \in CodeToRoute(peer.dict)
      BY <1>2 DEF SetDict
    <2>2. peer \in Peers
      BY DEF SessionInv, TypeOK
    <2>3. QED
      BY <2>1, <2>2, PeerIs DEF CodeToRoute
  <1>3. QED
    BY <1>1, <1>2

\* The process starts and ends, the servers change, the timer fires.
LEMMA ProcessNext ==
    ASSUME SessionInv,
           \/ \E v \in Versions \cup {NULL} : Start(v)
           \/ Crash \/ PeerChanges \/ TimerFires
    PROVE  SessionInv'
  <1>1. ASSUME NEW v \in Versions \cup {NULL}, Start(v) PROVE SessionInv'
    <2>1. /\ st = "none" /\ st' = "connect"
          /\ proto_ver' = v /\ client_protos' = v /\ server_protos' = v
          /\ cfg' = cfg /\ reconnecting' = reconnecting
          /\ reconnects' = reconnects /\ base' = base /\ delay' = delay
          /\ route_to_code' = route_to_code /\ code_to_route' = code_to_route
          /\ dumps' = dumps /\ dirs' = dirs /\ files' = files /\ peer' = peer
          /\ requests' = requests
      BY <1>1 DEF Start, backoff, dict, disk
    <2>2. Delayed'
      BY <2>1, SameDelay
    <2>3. TypeOK'
      BY <2>1 DEF SessionInv, TypeOK
    <2>4. InStep' /\ Dumping'
      BY <2>1 DEF InStep, SessionInv, Dumping
    <2>5. QED
      BY <2>2, <2>3, <2>4 DEF SessionInv
  <1>2. CASE Crash
    <2>1. /\ st' = "none" /\ reconnecting' = FALSE /\ reconnects' = 0
          /\ base' = 0 /\ delay' = 0
          /\ proto_ver' = NULL /\ client_protos' = NULL /\ server_protos' = NULL
          /\ DOMAIN route_to_code' = {} /\ DOMAIN code_to_route' = {}
          /\ dumps' = <<>> /\ requests' = {}
          /\ cfg' = cfg /\ dirs' = dirs /\ peer' = peer
      BY <1>2 DEF Crash
    <2>2. files' \in [Places -> [Files -> Versions \cup {NULL}]]
      <3>1. CASE files' = files
        BY <3>1 DEF SessionInv, TypeOK
      <3>2. CASE dumps # <<>>
                 /\ files' = [files EXCEPT ![dirs.write][Head(dumps)] = NULL]
        BY <3>2 DEF SessionInv, TypeOK
      <3>3. QED
        BY <1>2, <3>1, <3>2 DEF Crash
    <2>3. /\ Accepted(cfg) /\ 0 \in 0 .. cfg.delay_max
          /\ 0 \in 0 .. 2 * cfg.delay_max - 1 /\ 0 \in 0 .. MaxReconnects
      BY SessionAssumption DEF SessionInv, Delayed, Accepted, GoodConfig
    <2>4. TypeOK'
      BY <2>1, <2>2, <2>3 DEF SessionInv, TypeOK
    <2>5. Delayed' /\ InStep' /\ Dumping'
      BY <2>1, <2>3 DEF Delayed, InStep, Dumping
    <2>6. QED
      BY <2>4, <2>5 DEF SessionInv
  <1>3. CASE PeerChanges
    <2>1. /\ st \in {"none", "down"} /\ st' = st /\ peer' \in Peers
          /\ proto_ver' = proto_ver /\ client_protos' = client_protos
          /\ server_protos' = server_protos
          /\ cfg' = cfg /\ reconnecting' = reconnecting
          /\ reconnects' = reconnects /\ base' = base /\ delay' = delay
          /\ route_to_code' = route_to_code /\ code_to_route' = code_to_route
          /\ dumps' = dumps /\ dirs' = dirs /\ files' = files
          /\ requests' = requests
      BY <1>3 DEF PeerChanges, backoff, protos, dict, disk
    <2>2. Delayed'
      BY <2>1, SameDelay
    <2>3. TypeOK'
      BY <2>1 DEF SessionInv, TypeOK
    <2>4. InStep' /\ Dumping'
      BY <2>1 DEF InStep, SessionInv, Dumping
    <2>5. QED
      BY <2>2, <2>3, <2>4 DEF SessionInv
  <1>4. CASE TimerFires
    <2>1. /\ st = "down" /\ st' = "connect" /\ delay' = 0
          /\ proto_ver' = proto_ver /\ client_protos' = client_protos
          /\ server_protos' = server_protos
          /\ cfg' = cfg /\ reconnecting' = reconnecting
          /\ reconnects' = reconnects /\ base' = base
          /\ route_to_code' = route_to_code /\ code_to_route' = code_to_route
          /\ dumps' = dumps /\ dirs' = dirs /\ files' = files /\ peer' = peer
          /\ requests' = requests
      BY <1>4 DEF TimerFires, protos, dict, disk
    <2>2. Delayed'
      BY <2>1, SameDelay
    <2>3. 0 \in 0 .. 2 * cfg.delay_max - 1
      BY DEF SessionInv, Delayed, Accepted, GoodConfig
    <2>4. TypeOK'
      BY <2>1, <2>3 DEF SessionInv, TypeOK
    <2>5. InStep' /\ Dumping'
      BY <2>1 DEF InStep, SessionInv, Dumping
    <2>6. QED
      BY <2>2, <2>4, <2>5 DEF SessionInv
  <1>5. QED
    BY <1>1, <1>2, <1>3, <1>4

\* The version the peer is told.
LEMMA RequestNext ==
    ASSUME SessionInv, HandshakeReq
    PROVE  SessionInv'
  <1> DEFINE v == files[dirs.read]["version"]
  <1>1. /\ st = "connect" /\ st' = "asked"
        /\ proto_ver' = IF proto_ver = NULL THEN v ELSE proto_ver
        /\ client_protos' = client_protos /\ server_protos' = server_protos
        /\ cfg' = cfg /\ reconnecting' = reconnecting
        /\ reconnects' = reconnects /\ base' = base /\ delay' = delay
        /\ route_to_code' = route_to_code /\ code_to_route' = code_to_route
        /\ dumps' = dumps /\ dirs' = dirs /\ files' = files /\ peer' = peer
        /\ requests' = requests
    BY DEF HandshakeReq, pc__load_file, backoff, dict, disk
  <1>2. v \in Versions \cup {NULL}
    <2>1. dirs.read \in Places
      BY DEF SessionInv, TypeOK, Places
    <2>2. QED
      BY <2>1 DEF SessionInv, TypeOK, Files
  <1>3. Delayed'
    BY <1>1, SameDelay
  <1>4. TypeOK'
    BY <1>1, <1>2 DEF SessionInv, TypeOK
  <1>5. InStep' /\ Dumping'
    BY <1>1 DEF InStep, SessionInv, Dumping
  <1>6. QED
    BY <1>3, <1>4, <1>5 DEF SessionInv

\* The response of the peer: no definitions, those of the files, or new ones.
LEMMA ResponseNext ==
    ASSUME SessionInv,
           HandshakeNoProto \/ HandshakeSameVersion \/ HandshakeNewProtos
    PROVE  SessionInv'
  <1>1. /\ st = "asked" /\ SetDict
        /\ cfg' = cfg /\ reconnecting' = reconnecting
        /\ reconnects' = reconnects /\ base' = base /\ delay' = delay
        /\ dirs' = dirs /\ files' = files /\ peer' = peer
        /\ requests' = requests
    BY DEF HandshakeNoProto, HandshakeSameVersion, HandshakeNewProtos,
           backoff, disk
  <1>2. dumps = <<>> /\ peer.version \in Versions \cup {NULL}
    BY <1>1, PeerIs DEF SessionInv, TypeOK
  <1>3. Delayed'
    BY <1>1, SameDelay
  <1>4. /\ \A r \in DOMAIN route_to_code' : route_to_code'[r] \in Nat
        /\ \A c \in DOMAIN code_to_route' :
              code_to_route'[c] \in DOMAIN route_to_code'
    BY <1>1, DictStep
  <1>5. CASE HandshakeNoProto
    <2>1. /\ st' = "acked" /\ peer.version = NULL /\ dumps' = dumps
          /\ proto_ver' = NULL /\ client_protos' = NULL /\ server_protos' = NULL
      BY <1>5 DEF HandshakeNoProto
    <2>2. TypeOK'
      BY <1>1, <1>2, <1>4, <2>1 DEF SessionInv, TypeOK
    <2>3. InStep' /\ Dumping'
      BY <1>1, <2>1 DEF InStep, SessionInv, Dumping
    <2>4. QED
      BY <1>3, <2>2, <2>3 DEF SessionInv
  <1>6. CASE HandshakeSameVersion
    <2> DEFINE f == files[dirs.read]
    <2>1. /\ st' = "acked" /\ peer.version # NULL /\ peer.version = proto_ver
          /\ proto_ver' = proto_ver /\ dumps' = dumps
          /\ server_protos' = IF server_protos = NULL THEN f["server"]
                              ELSE server_protos
          /\ client_protos' = IF client_protos = NULL THEN f["client"]
                              ELSE client_protos
      BY <1>6 DEF HandshakeSameVersion, LoadMissing, pc__load_file
    <2>2. f \in [Files -> Versions \cup {NULL}]
      <3>1. dirs.read \in Places
        BY DEF SessionInv, TypeOK, Places
      <3>2. QED
        BY <3>1 DEF SessionInv, TypeOK
    <2>3. TypeOK'
      BY <1>1, <1>2, <1>4, <2>1, <2>2 DEF SessionInv, TypeOK, Files
    <2>4. FilesAgree' /\ proto_ver' \in {NULL, pc__load_file("version")'} =>
             f["server"] = peer.version /\ f["client"] = peer.version
      BY <1>1, <2>1 DEF FilesAgree, pc__load_file, Files
    <2>5. client_protos \in {NULL, proto_ver} /\ server_protos \in {NULL, proto_ver}
      BY <1>1 DEF SessionInv, InStep
    <2>6. InStep'
      BY <1>1, <2>1, <2>4, <2>5 DEF InStep
    <2>7. Dumping'
      BY <2>1 DEF SessionInv, Dumping
    <2>8. QED
      BY <1>3, <2>3, <2>6, <2>7 DEF SessionInv
  <1>7. CASE HandshakeNewProtos
    <2>1. /\ st' = "dump" /\ proto_ver' = proto_ver
          /\ server_protos' = peer.version /\ client_protos' = peer.version
          /\ dumps' = <<"version", "server", "client">>
      BY <1>7 DEF HandshakeNewProtos
    <2>2. dumps' # <<>>
      BY <2>1
    <2>3. TypeOK'
      BY <1>1, <1>2, <1>4, <2>1, <2>2 DEF SessionInv, TypeOK
    <2>4. InStep' /\ Dumping'
      BY <1>1, <2>1 DEF InStep, Dumping
    <2>5. QED
      BY <1>3, <2>3, <2>4 DEF SessionInv
  <1>8. QED
    BY <1>5, <1>6, <1>7

\* A dump, lost or not.
LEMMA DumpNext ==
    ASSUME SessionInv, DumpFile
    PROVE  SessionInv'
  <1>1. /\ st = "dump" /\ dumps' = Tail(dumps)
        /\ st' = (IF dumps' = <<>> THEN "acked" ELSE "dump")
        /\ files' \in {files, [files EXCEPT ![dirs.write][Head(dumps)] = peer.version]}
        /\ proto_ver' = proto_ver /\ client_protos' = client_protos
        /\ server_protos' = server_protos
        /\ cfg' = cfg /\ reconnecting' = reconnecting
        /\ reconnects' = reconnects /\ base' = base /\ delay' = delay
        /\ route_to_code' = route_to_code /\ code_to_route' = code_to_route
        /\ dirs' = dirs /\ peer' = peer /\ requests' = requests
    BY DEF DumpFile, pc__dump_file, backoff, protos, dict
  <1>2. dumps # <<>>
    BY <1>1 DEF SessionInv, TypeOK
  <1>3. Dumping'
    <2>1. \/ dumps = <<"client">> \/ dumps = <<"server", "client">>
          \/ dumps = <<"version", "server", "client">>
      BY <1>2 DEF SessionInv, Dumping
    <2>2. CASE dumps = <<"client">>
      BY <1>1, <2>2 DEF Dumping
    <2>3. CASE dumps = <<"server", "client">>
      <3>1. Tail(dumps) = <<"client">>
        BY <2>3
      <3>2. QED
        BY <1>1, <3>1 DEF Dumping
    <2>4. CASE dumps = <<"version", "server", "client">>
      <3>1. Tail(dumps) = <<"server", "client">>
        BY <2>4
      <3>2. QED
        BY <1>1, <3>1 DEF Dumping
    <2>5. QED
      BY <2>1, <2>2, <2>3, <2>4
  <1>4. files' \in [Places -> [Files -> Versions \cup {NULL}]]
    <2>1. peer.version \in Versions \cup {NULL}
      BY PeerIs DEF SessionInv, TypeOK
    <2>2. QED
      BY <1>1, <2>1, SMTT(30) DEF SessionInv, TypeOK
  <1>5. Delayed'
    BY <1>1, SameDelay
  <1>6. TypeOK'
    BY <1>1, <1>4 DEF SessionInv, TypeOK
  <1>7. InStep'
    BY <1>1 DEF InStep, SessionInv
  <1>8. QED
    BY <1>3, <1>5, <1>6, <1>7 DEF SessionInv

\* The handshake is complete.
LEMMA AckNext ==
    ASSUME SessionInv, AckWritten
    PROVE  SessionInv'
  <1>1. /\ st = "acked" /\ st' = "up" /\ reconnecting' = FALSE
        /\ reconnects' = 0 /\ base' = 0
        /\ proto_ver' = proto_ver /\ client_protos' = client_protos
        /\ server_protos' = server_protos /\ cfg' = cfg /\ delay' = delay
        /\ route_to_code' = route_to_code /\ code_to_route' = code_to_route
        /\ dumps' = dumps /\ dirs' = dirs /\ files' = files /\ peer' = peer
        /\ requests' = requests
    BY DEF AckWritten, protos, dict, disk
  <1>2. /\ Accepted(cfg) /\ 0 \in 0 .. cfg.delay_max /\ 0 \in 0 .. MaxReconnects
    BY SessionAssumption DEF SessionInv, Delayed, Accepted, GoodConfig
  <1>3. Delayed'
    BY <1>1, <1>2 DEF Delayed
  <1>4. TypeOK'
    BY <1>1, <1>2 DEF SessionInv, TypeOK
  <1>5. InStep' /\ Dumping'
    BY <1>1 DEF InStep, SessionInv, Dumping, FilesAgree, pc__load_file
  <1>6. QED
    BY <1>3, <1>4, <1>5 DEF SessionInv

\* A message, in either direction, changes the requests that wait.
LEMMA MessageNext ==
    ASSUME SessionInv, st' = st, UNCHANGED <<backoff, protos, dict, dumps, disk, peer>>,
           \A q \in requests' : q.id > 0
    PROVE  SessionInv'
  <1>1. /\ proto_ver' = proto_ver /\ client_protos' = client_protos
        /\ server_protos' = server_protos
        /\ cfg' = cfg /\ reconnecting' = reconnecting
        /\ reconnects' = reconnects /\ base' = base /\ delay' = delay
        /\ route_to_code' = route_to_code /\ code_to_route' = code_to_route
        /\ dumps' = dumps /\ dirs' = dirs /\ files' = files /\ peer' = peer
    BY DEF backoff, protos, dict, disk
  <1>2. Delayed'
    BY <1>1, SameDelay
  <1>3. TypeOK'
    BY <1>1 DEF SessionInv, TypeOK
  <1>4. InStep' /\ Dumping'
    BY <1>1 DEF InStep, SessionInv, Dumping, FilesAgree, pc__load_file
  <1>5. QED
    BY <1>2, <1>3, <1>4 DEF SessionInv

\* What pc_request and pc_notify send.
LEMMA SendNext ==
    ASSUME SessionInv, NEW m \in ClientMsgs, ClientSends(m)
    PROVE  SessionInv'
  <1>1. /\ st' = st /\ UNCHANGED <<backoff, protos, dict, dumps, disk, peer>>
        /\ requests' = IF m.id = 0 THEN requests
                       ELSE requests \cup {[id |-> m.id, route |-> m.route]}
    BY DEF ClientSends
  <1>2. m.id \in Nat
    BY SessionAssumption
  <1>3. \A q \in requests' : q.id > 0
    BY <1>1, <1>2 DEF SessionInv, TypeOK
  <1>4. QED
    BY <1>1, <1>3, MessageNext

\* What pc__data does with a message: it is used, or the client is stopped.
LEMMA DataNext ==
    ASSUME SessionInv, st = "up", NEW sent, NEW got, Data(sent, got)
    PROVE  SessionInv'
  <1>1. CASE pc__client_reconnect
    BY <1>1, ReconnectNext
  <1>2. CASE /\ requests' = {q \in requests : q.id # sent.id}
             /\ UNCHANGED <<st, backoff, protos, dict, dumps, disk, peer>>
    <2>1. \A q \in requests' : q.id > 0
      BY <1>2 DEF SessionInv, TypeOK
    <2>2. QED
      BY <1>2, <2>1, MessageNext
  <1>3. QED
    BY <1>1, <1>2 DEF Data

\* The inductive invariant holds.
THEOREM SessionInvariant == Spec => []SessionInv
  <1>1. SessionInv /\ [Next]_vars => SessionInv'
    <2> SUFFICES ASSUME SessionInv, [Next]_vars PROVE SessionInv'
      OBVIOUS
    <2>1. CASE Lost \/ AttemptFails
      BY <2>1, ReconnectNext DEF Lost, AttemptFails
    <2>2. ASSUME NEW m \in PeerMsgs, PeerPushes(m) \/ PeerAnswers(m)
          PROVE  SessionInv'
      BY <2>2, DataNext DEF PeerPushes, PeerAnswers, Receives
    <2>3. CASE UNCHANGED vars
      <3>1. st' = st /\ UNCHANGED <<backoff, protos, dict, dumps, disk, peer>>
            /\ requests' = requests
        BY <2>3 DEF vars, backoff, protos, dict, disk
      <3>2. QED
        BY <3>1, MessageNext DEF SessionInv, TypeOK
    <2>4. QED
      BY <2>1, <2>2, <2>3, ProcessNext, RequestNext, ResponseNext, DumpNext,
         AckNext, SendNext DEF Next
  <1>2. QED
    BY <1>1, SessionInit, PTL DEF Spec
-----------------------------------------------------------------------------
(* What follows.                                                           *)

\* The fields of the client, the files and the delay have their types: the
\* delay stays below twice the greatest one, and rand() % delay never divides
\* by zero.
THEOREM SessionTypes == Spec => []TypeOK
  <1>1. SessionInv => TypeOK
    BY DEF SessionInv
  <1>2. QED
    BY <1>1, SessionInvariant, PTL

\* A working client encodes and parses with the definitions of its peer, over
\* any number of connections, processes and servers, unless a dump was lost or
\* the version in memory is not that of the files.
THEOREM DefinitionsAgree == Spec => []DefinitionsInSync
  <1>1. SessionInv => DefinitionsInSync
    BY DEF SessionInv, InStep, DefinitionsInSync
  <1>2. QED
    BY <1>1, SessionInvariant, PTL

\* pc__client_reconnect: for every configuration, the base delay never shrinks
\* from one failed attempt to the next, stays between the configured one and the
\* greatest, and bounds the delay: the base at least, less than twice the base.
THEOREM BaseDelaysGrow == Spec => BaseDelayGrows
  <1> DEFINE Step == reconnects' > reconnects =>
                        /\ base' >= base /\ base' <= cfg.delay_max
                        /\ base' >= cfg.delay \/ base' = cfg.delay_max
                        /\ delay' >= base' /\ delay' < 2 * base'
  <1>1. SessionInv /\ [Next]_vars => [Step]_vars
    <2> SUFFICES ASSUME SessionInv, [Next]_vars PROVE Step
      OBVIOUS
    <2>1. CASE pc__client_reconnect
      <3>1. /\ base' >= base /\ base' \in 1 .. cfg.delay_max
            /\ base' >= cfg.delay \/ base' = cfg.delay_max
            /\ delay' >= base' /\ delay' < 2 * base'
        BY <2>1, ReconnectStep
      <3>2. cfg.delay_max \in Int
        BY DEF SessionInv, Delayed, Accepted
      <3>3. QED
        BY <3>1, <3>2
    <2>2. CASE reconnects' = reconnects \/ reconnects' = 0
      <3>1. reconnects \in Nat
        BY SessionAssumption DEF SessionInv, TypeOK
      <3>2. QED
        BY <2>2, <3>1
    <2>3. pc__client_reconnect \/ reconnects' = reconnects \/ reconnects' = 0
      BY DEF Next, vars, Start, Crash, PeerChanges, Lost, AttemptFails,
             TimerFires, HandshakeReq, HandshakeNoProto, HandshakeSameVersion,
             HandshakeNewProtos, DumpFile, AckWritten, ClientSends, PeerPushes,
             PeerAnswers, Receives, Data, backoff
    <2>4. QED
      BY <2>1, <2>2, <2>3
  <1>2. QED
    BY <1>1, SessionInvariant, PTL DEF Spec, BaseDelayGrows
-----------------------------------------------------------------------------
(* The header and the body of a message.                                   *)

\* An id is read back from its groups of seven bits.
LEMMA IdReadsBack ==
    ASSUME NEW id \in 0 .. MaxInt
    PROVE  /\ DecodeId(pc__msg_encode_id(id)) = id
           /\ pc__msg_encode_id(id) # <<>>
  <1>1. id \in 0 .. 2 * MaxInt + 1 /\ id \in Nat
    BY MaxIntIs
  <1> DEFINE e == pb_encode_varint(id)
  <1>2. e \in Bytes /\ Len(e) >= 1
    BY <1>1, VarintBytes
  <1>3. pb_decode_varint(e \o <<>>) = Read(id, <<>>)
    BY <1>1, VarintReadsBack, Nothing
  <1> HIDE DEF e
  <1>4. e \o <<>> = e /\ e # <<>>
    BY <1>2, Nothing
  <1>5. pb_decode_varint(e) = Read(id, <<>>)
    BY <1>3, <1>4, Zenon
  <1>6. pb_decode_varint(e).val = id
    BY <1>5 DEF Read
  <1>7. QED
    BY <1>4, <1>6 DEF DecodeId, pc__msg_encode_id, e

\* The two bytes of a route code.
LEMMA CodeReadsBack ==
    ASSUME NEW c \in RouteCodes
    PROVE  256 * ((c \div 256) % 256) + (c % 256) = c
  <1> DEFINE h == c \div 256
  <1>1. c \in Int /\ 0 <= c /\ c < 256 * 256
    BY SMTT(30) DEF RouteCodes
  <1>2. h \in Int /\ 256 * h + (c % 256) = c /\ c % 256 \in 0 .. 255
    BY <1>1
  <1> HIDE DEF h
  <1>3. 0 <= h /\ h < 256
    BY <1>1, <1>2
  <1>4. h % 256 = h
    BY <1>2, <1>3
  <1>5. QED
    BY <1>2, <1>4 DEF h

\* The route of a message goes out as a code or as a string.
Coded(codes, route) == route \in DOMAIN codes /\ codes[route] > 0

\* What is in the header, and that the body follows it.
Header(w, codes, id, type, route, body) ==
    /\ w.body = body /\ w.id = IdBytes(type, id)
    /\ w.flag \div 2 = type
    /\ w.flag % 2 = (IF Coded(codes, route) THEN 1 ELSE 0)
    /\ Coded(codes, route) => Code(w) = codes[route]
    /\ ~Coded(codes, route) => w.str = route /\ w.len = RouteLen[route]

\* A dictionary of codes that fit.
Codes(codes) == \A r \in DOMAIN codes : codes[r] \in RouteCodes

\* What EncodeMessage writes.
LEMMA HeaderIs ==
    ASSUME NEW codes, NEW id, NEW type \in 0 .. 3, NEW body,
           NEW route \in DOMAIN RouteLen, Codes(codes)
    PROVE  Header(EncodeMessage(codes, id, type, route, body),
                  codes, id, type, route, body)
  <1> DEFINE w == EncodeMessage(codes, id, type, route, body)
  <1>1. CASE Coded(codes, route)
    <2> DEFINE c == codes[route]
    <2>1. w = pc_msg_encode_code(id, type, c, body)
      BY <1>1 DEF EncodeMessage, Coded
    <2>2. c \in RouteCodes
      BY <1>1 DEF Coded, Codes
    <2> HIDE DEF c, w
    <2>3. /\ w.body = body /\ w.id = IdBytes(type, id) /\ w.flag = 2 * type + 1
          /\ w.code = <<(c \div 256) % 256, c % 256>>
      BY <2>1 DEF pc_msg_encode_code
    <2>4. w.flag \div 2 = type /\ w.flag % 2 = 1
      BY <2>3
    <2>5. Code(w) = c
      <3>1. w.code[1] = (c \div 256) % 256 /\ w.code[2] = c % 256
        BY <2>3
      <3>2. Code(w) = 256 * ((c \div 256) % 256) + (c % 256)
        BY <3>1 DEF Code
      <3>3. QED
        BY <2>2, <3>2, CodeReadsBack
    <2>6. QED
      BY <1>1, <2>3, <2>4, <2>5 DEF c, w, Header
  <1>2. CASE ~Coded(codes, route)
    <2>1. w = pc_msg_encode_route(id, type, route, body)
      BY <1>2 DEF EncodeMessage, Coded
    <2>2. RouteLen[route] \in 1 .. 254
      BY MsgAssumption
    <2> HIDE DEF w
    <2>3. /\ w.body = body /\ w.id = IdBytes(type, id) /\ w.flag = 2 * type
          /\ w.str = route /\ w.len = RouteLen[route] % 256
      BY <2>1 DEF pc_msg_encode_route
    <2>4. w.flag \div 2 = type /\ w.flag % 2 = 0 /\ w.len = RouteLen[route]
      BY <2>2, <2>3
    <2>5. QED
      BY <1>2, <2>3, <2>4 DEF w, Header
  <1>3. QED
    BY <1>1, <1>2

\* A message whose route is known is parsed as its body is.
LEMMA OneRoute ==
    ASSUME NEW raw, NEW routes, NEW route, routes = {route}, NEW gp
    PROVE  ParseAs(raw, routes, gp) =
               WithBody(raw, route, ParseBody(raw.body, gp, route))
  <1>1. routes # {}
    OBVIOUS
  <1>2. (CHOOSE r \in routes : TRUE) = route
    <2>1. (CHOOSE r \in routes : TRUE) \in routes
      OBVIOUS
    <2>2. QED
      BY <2>1
  <1>3. QED
    BY <1>1, <1>2 DEF ParseAs

\* The body of a route that is not defined is JSON, and arrives as such.
LEMMA JsonBody ==
    ASSUME NEW gp, NEW route, route \notin DOMAIN gp.routes, NEW obj
    PROVE  ParseBody([json |-> obj], gp, route) = [ok |-> TRUE, objs |-> {obj}]
  <1> DEFINE b == [json |-> obj]
  <1>1. DOMAIN b = {"json"} /\ b.json = obj
    OBVIOUS
  <1>2. DOMAIN [pb |-> <<>>] = {"pb"}
    OBVIOUS
  <1>3. {"json"} # {"pb"}
    OBVIOUS
  <1>4. b # [pb |-> <<>>] /\ ~IsPb(b)
    BY <1>1, <1>2, <1>3 DEF IsPb
  <1> HIDE DEF b
  <1>5. ParseBody(b, gp, route) = [ok |-> TRUE, objs |-> {b.json}]
    BY <1>4 DEF ParseBody
  <1>6. QED
    BY <1>1, <1>5 DEF b

\* A body of no bytes is no body.
LEMMA NoBody ==
    ASSUME NEW gp, NEW route
    PROVE  ParseBody([pb |-> <<>>], gp, route) = [ok |-> TRUE, objs |-> {}]
  BY DEF ParseBody

\* The body that should arrive of a message of Nested.
BodyOf(x) ==
    {o \in {Carried(Protos(x.version), x.def, x.obj)} :
       \E k \in DOMAIN x.obj : Written(x.def.fields[k], x.obj[k])}

\* A protobuf body of which nothing is cut off arrives.
LEMMA PbBody ==
    ASSUME NEW x \in Nested, NEW route, route \in DOMAIN Protos(x.version).routes,
           x.def = Protos(x.version).routes[route],
           KeysKnown(Protos(x.version), x.def, x.obj)
    PROVE  LET gp == Protos(x.version)
               r == pb_encode(gp, x.def, x.obj)
           IN  /\ r.ok
               /\ ParseBody([pb |-> r.bytes], gp, route) =
                     [ok |-> TRUE, objs |-> BodyOf(x)]
  <1> DEFINE gp == Protos(x.version)
             r == pb_encode(gp, x.def, x.obj)
             c == Carried(gp, x.def, x.obj)
             some == \E k \in DOMAIN x.obj : Written(x.def.fields[k], x.obj[k])
             b == [pb |-> r.bytes]
  <1>1. /\ r.ok /\ pb_decode(r.bytes, gp, x.def) = Read(c, <<>>)
        /\ r.bytes # <<>> <=> some
    BY MessagesRoundTrip DEF RoundTrip
  <1>2. BodyOf(x) = IF some THEN {c} ELSE {}
    BY DEF BodyOf
  <1>3. IsPb(b) /\ b.pb = r.bytes
    BY DEF IsPb
  <1>4. gp.routes[route] = x.def /\ route \in DOMAIN gp.routes
    OBVIOUS
  <1> HIDE DEF gp, r, c, some, b
  <1>5. CASE r.bytes = <<>>
    <2>1. b = [pb |-> <<>>]
      BY <1>5 DEF b
    <2>2. QED
      BY <1>1, <1>2, <1>5, <2>1, NoBody DEF b, gp, r
  <1>6. CASE r.bytes # <<>>
    <2>1. b # [pb |-> <<>>]
      BY <1>3, <1>6
    <2>2. pc__pb_decode(b.pb, gp, gp.routes[route]) = Read(c, <<>>)
      BY <1>1, <1>3, <1>4 DEF pc__pb_decode
    <2>3. Parsed(Read(c, <<>>)) = [ok |-> TRUE, objs |-> {c}]
      BY DEF Parsed, Read
    <2>4. ParseBody(b, gp, route) = [ok |-> TRUE, objs |-> {c}]
      BY <1>3, <1>4, <2>1, <2>2, <2>3 DEF ParseBody
    <2>5. QED
      BY <1>1, <1>2, <1>6, <2>4 DEF b, gp, r
  <1>7. QED
    BY <1>5, <1>6
-----------------------------------------------------------------------------
(* Messages between a client and a server p whose definitions it has.      *)

\* Known, Body, Wide and Resolvable, if p is the peer.
KnownBy(p, m) ==
    m.route \in DOMAIN Protos(p.version).routes =>
        KeysKnown(Protos(p.version), Protos(p.version).routes[m.route], m.obj)

BodyFor(p, m) ==
    LET gp == Protos(p.version)
        def == gp.routes[m.route]
    IN  IF m.route \notin DOMAIN gp.routes THEN {m.obj}
        ELSE {o \in {Carried(gp, def, m.obj)} :
                \E k \in DOMAIN m.obj : Written(def.fields[k], m.obj[k])}

WideFor(p, m) ==
    LET gp == Protos(p.version)
    IN  m.route \in DOMAIN gp.routes /\ Wide(gp, gp.routes[m.route], m.obj)

ResolvableOf(p, route) ==
    IF Coded(p.dict, route)
    THEN \A r \in DOMAIN p.dict \ {route} : p.dict[r] % 256 # p.dict[route] % 256
    ELSE RouteLen[route] < 128

\* The body of a route that is defined is that of a message of Nested.
LEMMA InNested ==
    ASSUME NEW p \in Peers, NEW m \in ClientMsgs \cup PeerMsgs,
           m.route \in DOMAIN Protos(p.version).routes
    PROVE  \E x \in Nested : /\ x.version = p.version /\ x.obj = m.obj
                             /\ x.def = Protos(x.version).routes[m.route]
                             /\ BodyOf(x) = BodyFor(p, m)
  <1>1. PICK x \in Nested : /\ x.version = p.version /\ x.obj = m.obj
                            /\ x.def = Protos(p.version).routes[m.route]
    BY MessagesAssumption DEF SentAs
  <1>2. BodyOf(x) = BodyFor(p, m)
    BY <1>1 DEF BodyOf, BodyFor
  <1>3. QED
    BY <1>1, <1>2

\* What p makes of a body of the client: that of which all can be carried, or
\* none, for want of a definition or of room.
LEMMA SentBody ==
    ASSUME NEW p \in Peers, NEW m \in ClientMsgs
    PROVE  LET gp == Protos(p.version)
               b == ParseBody(EncodeBody(gp, m.route, m.obj), gp, m.route)
           IN  /\ b.ok
               /\ b.objs = {} \/ (KnownBy(p, m) /\ b.objs = BodyFor(p, m))
               /\ KnownBy(p, m) => b.objs = BodyFor(p, m) \/ WideFor(p, m)
  <1> DEFINE gp == Protos(p.version)
             body == EncodeBody(gp, m.route, m.obj)
             b == ParseBody(body, gp, m.route)
  <1>1. CASE m.route \notin DOMAIN gp.routes
    <2>1. body = [json |-> m.obj]
      BY <1>1 DEF EncodeBody
    <2> HIDE DEF body
    <2>2. b = [ok |-> TRUE, objs |-> {m.obj}]
      BY <1>1, <2>1, JsonBody
    <2>3. BodyFor(p, m) = {m.obj} /\ KnownBy(p, m)
      BY <1>1 DEF BodyFor, KnownBy
    <2> HIDE DEF b
    <2>4. QED
      BY <2>2, <2>3 DEF b, body
  <1>2. CASE m.route \in DOMAIN gp.routes
    <2>1. PICK x \in Nested : /\ x.version = p.version /\ x.obj = m.obj
                              /\ x.def = gp.routes[m.route]
                              /\ BodyOf(x) = BodyFor(p, m)
      BY <1>2, InNested
    <2> DEFINE r == pb_encode(gp, x.def, x.obj)
               n == JsonLen(Obj(m.obj)) * PC_PB_EVAL_FACTOR
    <2>2. body = [pb |-> BytesOf(Bounded(n, r))]
      BY <1>2, <2>1 DEF EncodeBody, pc__pb_encode, pc_pb_encode
    <2> HIDE DEF body, n
    <2>3. CASE r.ok /\ Len(r.bytes) <= n
      <3>1. body = [pb |-> r.bytes]
        BY <2>2, <2>3 DEF Bounded, BytesOf
      <3>2. KeysKnown(gp, x.def, x.obj)
        BY <2>1, <2>3, MessagesRoundTrip DEF RoundTrip
      <3>3. b = [ok |-> TRUE, objs |-> BodyOf(x)]
        BY <1>2, <2>1, <3>1, <3>2, PbBody
      <3>4. KnownBy(p, m)
        BY <2>1, <3>2 DEF KnownBy
      <3> HIDE DEF b
      <3>5. QED
        BY <2>1, <3>3, <3>4 DEF b, body
    <2>4. CASE ~(r.ok /\ Len(r.bytes) <= n)
      <3>1. body = [pb |-> <<>>]
        BY <2>2, <2>4 DEF Bounded, BytesOf, Fail
      <3>2. b = [ok |-> TRUE, objs |-> {}]
        BY <3>1, NoBody
      <3>3. KnownBy(p, m) => WideFor(p, m)
        <4>1. SUFFICES ASSUME KnownBy(p, m), ~WideFor(p, m) PROVE FALSE
          OBVIOUS
        <4>2. KeysKnown(gp, x.def, x.obj) /\ ~Wide(gp, x.def, x.obj)
          BY <1>2, <2>1, <4>1 DEF KnownBy, WideFor
        <4>3. r.ok /\ r.bytes \in Bytes
          BY <2>1, <4>2, MessagesRoundTrip DEF RoundTrip
        <4> DEFINE text == JsonLen(Obj(x.obj))
        <4>4. text \in Nat /\ Len(r.bytes) + 4 <= 2 * text
          BY <2>1, <4>2, RoomEnough DEF Roomy
        <4>5. n = text * 2
          BY <2>1 DEF n, PC_PB_EVAL_FACTOR
        <4>6. Len(r.bytes) \in Nat
          BY <4>3, Nothing
        <4> HIDE DEF r, text
        <4>7. Len(r.bytes) <= n
          BY <4>4, <4>5, <4>6
        <4>8. QED
          BY <2>4, <4>3, <4>7
      <3> HIDE DEF b
      <3>4. QED
        BY <3>2, <3>3 DEF b, body
    <2>5. QED
      BY <2>3, <2>4
  <1>3. QED
    BY <1>1, <1>2

\* What the client makes of a body of p, which knows its own definitions.
LEMMA PeerBody ==
    ASSUME NEW p \in Peers, NEW m \in PeerMsgs
    PROVE  LET gp == Protos(p.version)
           IN  ParseBody(IF m.route \in DOMAIN gp.routes
                         THEN [pb |-> pb_encode(gp, gp.routes[m.route], m.obj).bytes]
                         ELSE [json |-> m.obj], gp, m.route) =
                   [ok |-> TRUE, objs |-> BodyFor(p, m)]
  <1> DEFINE gp == Protos(p.version)
  <1>1. CASE m.route \notin DOMAIN gp.routes
    <2>1. BodyFor(p, m) = {m.obj}
      BY <1>1 DEF BodyFor
    <2>2. QED
      BY <1>1, <2>1, JsonBody
  <1>2. CASE m.route \in DOMAIN gp.routes
    <2>1. PICK x \in Nested : /\ x.version = p.version /\ x.obj = m.obj
                              /\ x.def = gp.routes[m.route]
                              /\ BodyOf(x) = BodyFor(p, m)
      BY <1>2, InNested
    <2>2. KeysKnown(gp, x.def, x.obj)
      BY <1>2, <2>1, MessagesAssumption
    <2>3. ParseBody([pb |-> pb_encode(gp, x.def, x.obj).bytes], gp, m.route) =
             [ok |-> TRUE, objs |-> BodyOf(x)]
      BY <1>2, <2>1, <2>2, PbBody
    <2>4. QED
      BY <1>2, <2>1, <2>3
  <1>3. QED
    BY <1>1, <1>2

\* The dictionary of p: its codes are of two bytes and its routes are told
\* apart by them.
LEMMA CodesOf ==
    ASSUME NEW p \in Peers
    PROVE  /\ \A r \in DOMAIN p.dict : p.dict[r] \in RouteCodes
           /\ \A r, q \in DOMAIN p.dict : p.dict[r] = p.dict[q] => r = q
  BY SessionAssumption

\* What p makes of a message of the client.
LEMMA ClientArrives ==
    ASSUME NEW p \in Peers, NEW m \in ClientMsgs
    PROVE  LET gp == Protos(p.version)
               got == PeerParse(p.dict, gp, pc__default_msg_encode_cb(
                                    p.dict, gp, m.id, m.route, m.obj))
           IN  /\ got.ok /\ got.id = m.id /\ got.route = m.route
               /\ got.body = {} \/ (KnownBy(p, m) /\ got.body = BodyFor(p, m))
               /\ KnownBy(p, m) => got.body = BodyFor(p, m) \/ WideFor(p, m)
  <1> DEFINE gp == Protos(p.version)
             type == IF m.id = 0 THEN PC_MSG_NOTIFY ELSE PC_MSG_REQUEST
             body == EncodeBody(gp, m.route, m.obj)
             w == EncodeMessage(p.dict, m.id, type, m.route, body)
             b == ParseBody(body, gp, m.route)
             id == IF w.id = <<>> THEN 0 ELSE DecodeId(w.id)
             raw == [id |-> id, body |-> w.body]
             routes == IF w.flag % 2 = 1 THEN {r \in DOMAIN p.dict : p.dict[r] = Code(w)}
                       ELSE {w.str}
             got == PeerParse(p.dict, gp, w)
  <1>1. m.id \in 0 .. MaxInt /\ m.route \in DOMAIN RouteLen
    BY SessionAssumption
  <1>2. pc__default_msg_encode_cb(p.dict, gp, m.id, m.route, m.obj) = w
    BY DEF pc__default_msg_encode_cb
  <1>3. got = ParseAs(raw, routes, gp)
    BY DEF PeerParse
  <1>4. /\ b.ok
        /\ b.objs = {} \/ (KnownBy(p, m) /\ b.objs = BodyFor(p, m))
        /\ KnownBy(p, m) => b.objs = BodyFor(p, m) \/ WideFor(p, m)
    BY SentBody
  <1>5. type \in 0 .. 3
    BY DEF PC_MSG_NOTIFY, PC_MSG_REQUEST
  <1>6. PC_MSG_HAS_ID(type) <=> m.id # 0
    BY DEF PC_MSG_HAS_ID, PC_MSG_NOTIFY, PC_MSG_REQUEST, PC_MSG_RESPONSE
  <1> HIDE DEF body, type
  <1>7. /\ w.body = body /\ w.id = IdBytes(type, m.id)
        /\ w.flag % 2 = (IF Coded(p.dict, m.route) THEN 1 ELSE 0)
        /\ Coded(p.dict, m.route) => Code(w) = p.dict[m.route]
        /\ ~Coded(p.dict, m.route) => w.str = m.route
    <2>1. Codes(p.dict)
      BY CodesOf DEF Codes
    <2>2. Header(w, p.dict, m.id, type, m.route, body)
      BY <1>1, <1>5, <2>1, HeaderIs
    <2>3. QED
      BY <2>2 DEF Header
  <1> HIDE DEF w, b
  <1>8. id = m.id
    <2>1. CASE m.id = 0
      BY <1>6, <1>7, <2>1 DEF IdBytes
    <2>2. CASE m.id # 0
      <3>1. w.id = pc__msg_encode_id(m.id)
        BY <1>6, <1>7, <2>2 DEF IdBytes
      <3>2. QED
        BY <1>1, <3>1, IdReadsBack
    <2>3. QED
      BY <2>1, <2>2
  <1>9. routes = {m.route}
    <2>1. CASE Coded(p.dict, m.route)
      <3>1. m.route \in DOMAIN p.dict /\ w.flag % 2 = 1 /\ Code(w) = p.dict[m.route]
        BY <1>7, <2>1 DEF Coded
      <3>2. \A r \in DOMAIN p.dict : p.dict[r] = Code(w) <=> r = m.route
        BY <3>1, CodesOf
      <3>3. QED
        BY <3>1, <3>2
    <2>2. CASE ~Coded(p.dict, m.route)
      BY <1>7, <2>2
    <2>3. QED
      BY <2>1, <2>2
  <1>10. raw.id = m.id /\ raw.body = body
    BY <1>7, <1>8
  <1> HIDE DEF routes, raw, id
  <1>11. got = WithBody(raw, m.route, b)
    BY <1>3, <1>9, <1>10, OneRoute DEF b
  <1>12. /\ got.ok /\ got.id = m.id /\ got.route = m.route /\ got.body = b.objs
    BY <1>4, <1>10, <1>11 DEF WithBody, Message
  <1> HIDE DEF got
  <1>13. QED
    BY <1>2, <1>4, <1>12 DEF got

\* A dictionary of low bytes leads back to routes of p with these low bytes.
LeadsBack(low, p) ==
    /\ DOMAIN low = {p.dict[r] % 256 : r \in DOMAIN p.dict}
    /\ \A c \in DOMAIN low : low[c] \in DOMAIN p.dict /\ p.dict[low[c]] % 256 = c

\* The routes a message may have.
RoutesOf(raw, low, reqs) ==
    IF ~PC_MSG_HAS_ROUTE(raw.type)
    THEN {q.route : q \in {q \in reqs : q.id = raw.id}}
    ELSE IF raw.compressRoute THEN pc__resolve_dictionary(low, raw.route_code)
    ELSE {raw.route_str}

\* What pc__default_msg_parse_cb makes of a message that pc_msg_decode accepts
\* and whose route it finds.
LEMMA ParsedAs ==
    ASSUME NEW low, NEW gp, NEW reqs, NEW w, NEW route, NEW objs, NEW raw,
           raw = pc_msg_decode(w), raw.ok, RoutesOf(raw, low, reqs) = {route},
           ParseBody(raw.body, gp, route) = [ok |-> TRUE, objs |-> objs]
    PROVE  pc__default_msg_parse_cb(low, gp, reqs, w) = Message(raw.id, route, objs)
  <1> DEFINE routes == RoutesOf(raw, low, reqs)
             b == ParseBody(raw.body, gp, route)
  <1>1. pc__default_msg_parse_cb(low, gp, reqs, w) = ParseAs(raw, routes, gp)
    BY DEF pc__default_msg_parse_cb, RoutesOf
  <1>2. ParseAs(raw, routes, gp) = WithBody(raw, route, b)
    BY OneRoute
  <1>3. b.ok /\ b.objs = objs
    OBVIOUS
  <1> HIDE DEF b, routes
  <1>4. WithBody(raw, route, b) = Message(raw.id, route, objs)
    BY <1>3 DEF WithBody
  <1>5. QED
    BY <1>1, <1>2, <1>4

\* A push of p arrives if the client can resolve its route.
LEMMA PushArrives ==
    ASSUME NEW p \in Peers, NEW m \in PeerMsgs, NEW reqs, NEW low,
           LeadsBack(low, p), ResolvableOf(p, m.route)
    PROVE  LET gp == Protos(p.version)
           IN  pc__default_msg_parse_cb(low, gp, reqs,
                   PeerEncode(p.dict, gp, 0, m.route, m.obj)) =
                       Message(0, m.route, BodyFor(p, m))
  <1> DEFINE gp == Protos(p.version)
             body == IF m.route \in DOMAIN gp.routes
                     THEN [pb |-> pb_encode(gp, gp.routes[m.route], m.obj).bytes]
                     ELSE [json |-> m.obj]
             w == EncodeMessage(p.dict, 0, 3, m.route, body)
             raw == pc_msg_decode(w)
  <1>1. PeerEncode(p.dict, gp, 0, m.route, m.obj) = w
    BY DEF PeerEncode, PC_MSG_PUSH, PC_MSG_RESPONSE, PC_MSG_HAS_ROUTE
  <1>2. m.route \in DOMAIN RouteLen /\ RouteLen[m.route] \in 1 .. 254
    BY SessionAssumption, MsgAssumption
  <1>3. ParseBody(body, gp, m.route) = [ok |-> TRUE, objs |-> BodyFor(p, m)]
    BY PeerBody
  <1> HIDE DEF body
  <1>4. Header(w, p.dict, 0, 3, m.route, body)
    <2>1. Codes(p.dict)
      BY CodesOf DEF Codes
    <2>2. 3 \in 0 .. 3
      OBVIOUS
    <2>3. QED
      BY <1>2, <2>1, <2>2, HeaderIs
  <1> HIDE DEF w
  <1>5. /\ w.flag \div 2 = 3 /\ w.body = body
        /\ w.flag % 2 = (IF Coded(p.dict, m.route) THEN 1 ELSE 0)
        /\ Coded(p.dict, m.route) => Code(w) = p.dict[m.route]
        /\ ~Coded(p.dict, m.route) => w.str = m.route /\ w.len = RouteLen[m.route]
    BY <1>4 DEF Header
  <1>6. ~Coded(p.dict, m.route) => ~(w.len >= 128)
    BY <1>2, <1>5 DEF ResolvableOf
  <1>7. /\ raw.ok /\ raw.type = 3 /\ raw.id = 0 /\ raw.body = body
        /\ raw.compressRoute <=> Coded(p.dict, m.route)
        /\ Coded(p.dict, m.route) => raw.route_code = p.dict[m.route]
        /\ ~Coded(p.dict, m.route) => raw.route_str = m.route
    <2>1. PC_MSG_VALIDATE(3) /\ ~PC_MSG_HAS_ID(3)
      BY DEF PC_MSG_VALIDATE, PC_MSG_HAS_ID, PC_MSG_REQUEST, PC_MSG_RESPONSE
    <2>2. w.flag % 2 = 1 <=> Coded(p.dict, m.route)
      BY <1>5
    <2>3. pc_msg_decode(w) =
            [ok |-> TRUE, type |-> 3, id |-> 0,
             compressRoute |-> w.flag % 2 = 1,
             route_code |-> IF w.flag % 2 = 1 THEN Code(w) ELSE 0,
             route_str |-> w.str, body |-> w.body]
      BY <1>5, <1>6, <2>1, <2>2 DEF pc_msg_decode
    <2>4. /\ raw.ok /\ raw.type = 3 /\ raw.id = 0 /\ raw.body = w.body
          /\ raw.route_code = (IF w.flag % 2 = 1 THEN Code(w) ELSE 0)
          /\ raw.route_str = w.str
      BY <2>3
    <2>5. IF w.flag % 2 = 1 THEN raw.compressRoute ELSE ~raw.compressRoute
      <3>1. CASE w.flag % 2 = 1
        <4>1. (w.flag % 2 = 1) = TRUE
          BY <3>1
        <4>2. pc_msg_decode(w) =
                [ok |-> TRUE, type |-> 3, id |-> 0, compressRoute |-> TRUE,
                 route_code |-> Code(w), route_str |-> w.str, body |-> w.body]
          BY <2>3, <3>1, <4>1
        <4>3. QED
          BY <3>1, <4>2
      <3>2. CASE ~(w.flag % 2 = 1)
        <4>1. (w.flag % 2 = 1) = FALSE
          BY <3>2
        <4>2. pc_msg_decode(w) =
                [ok |-> TRUE, type |-> 3, id |-> 0, compressRoute |-> FALSE,
                 route_code |-> 0, route_str |-> w.str, body |-> w.body]
          BY <2>3, <3>2, <4>1
        <4>3. QED
          BY <3>2, <4>2
      <3>3. QED
        BY <3>1, <3>2
    <2> HIDE DEF raw
    <2>6. QED
      BY <1>5, <2>2, <2>4, <2>5
  <1>8. PC_MSG_HAS_ROUTE(3)
    BY DEF PC_MSG_HAS_ROUTE, PC_MSG_RESPONSE
  <1> HIDE DEF raw
  <1>9. Coded(p.dict, m.route) =>
           pc__resolve_dictionary(low, p.dict[m.route]) = {m.route}
    <2> SUFFICES ASSUME Coded(p.dict, m.route)
                 PROVE  pc__resolve_dictionary(low, p.dict[m.route]) = {m.route}
      OBVIOUS
    <2> DEFINE c == p.dict[m.route] % 256
    <2>1. m.route \in DOMAIN p.dict
      BY DEF Coded
    <2>2. c \in DOMAIN low
      BY <2>1 DEF LeadsBack
    <2>3. low[c] \in DOMAIN p.dict /\ p.dict[low[c]] % 256 = c
      BY <2>2 DEF LeadsBack
    <2>4. \A r \in DOMAIN p.dict \ {m.route} : p.dict[r] % 256 # c
      BY DEF ResolvableOf
    <2> HIDE DEF c
    <2>5. low[c] = m.route
      BY <2>3, <2>4
    <2>6. QED
      BY <2>2, <2>5 DEF pc__resolve_dictionary, c
  <1>10. RoutesOf(raw, low, reqs) = {m.route}
    BY <1>7, <1>8, <1>9 DEF RoutesOf
  <1>11. pc__default_msg_parse_cb(low, gp, reqs, w) = Message(0, m.route, BodyFor(p, m))
    <2>1. raw = pc_msg_decode(w)
      BY DEF raw
    <2>2. ParseBody(raw.body, gp, m.route) = [ok |-> TRUE, objs |-> BodyFor(p, m)]
      BY <1>3, <1>7
    <2>3. raw.ok /\ raw.id = 0
      BY <1>7
    <2> HIDE DEF gp
    <2>4. QED
      BY <1>10, <2>1, <2>2, <2>3, ParsedAs
  <1>12. QED
    BY <1>1, <1>11

\* An answer of p arrives if one request waits under its id.
LEMMA AnswerArrives ==
    ASSUME NEW p \in Peers, NEW m \in PeerMsgs, NEW reqs, NEW low,
           NEW q \in reqs, q.route = m.route, q.id \in 1 .. MaxInt,
           \A a, b \in reqs : a = b
    PROVE  LET gp == Protos(p.version)
           IN  pc__default_msg_parse_cb(low, gp, reqs,
                   PeerEncode(p.dict, gp, q.id, m.route, m.obj)) =
                       Message(q.id, m.route, BodyFor(p, m))
  <1> DEFINE gp == Protos(p.version)
             body == IF m.route \in DOMAIN gp.routes
                     THEN [pb |-> pb_encode(gp, gp.routes[m.route], m.obj).bytes]
                     ELSE [json |-> m.obj]
             w == [pc_msg_encode_route(q.id, 2, m.route, body) EXCEPT
                      !.len = 0, !.str = NoRoute]
             raw == pc_msg_decode(w)
  <1>1. q.id # 0 /\ q.id \in 0 .. MaxInt
    BY MaxIntIs
  <1>2. PeerEncode(p.dict, gp, q.id, m.route, m.obj) = w
    BY <1>1 DEF PeerEncode, PC_MSG_PUSH, PC_MSG_RESPONSE, PC_MSG_HAS_ROUTE
  <1>3. ParseBody(body, gp, m.route) = [ok |-> TRUE, objs |-> BodyFor(p, m)]
    BY PeerBody
  <1> HIDE DEF body
  <1>4. w.flag = 2 * 2 /\ w.body = body /\ w.id = IdBytes(2, q.id)
    BY DEF pc_msg_encode_route
  <1> HIDE DEF w
  <1>5. w.flag \div 2 = 2 /\ w.flag % 2 = 0
    BY <1>4
  <1>6. PC_MSG_HAS_ID(2) /\ ~PC_MSG_HAS_ROUTE(2) /\ PC_MSG_VALIDATE(2)
    BY DEF PC_MSG_HAS_ID, PC_MSG_HAS_ROUTE, PC_MSG_VALIDATE, PC_MSG_RESPONSE
  <1>7. DecodeId(w.id) = q.id
    BY <1>1, <1>4, <1>6, IdReadsBack DEF IdBytes
  <1>8. raw.ok /\ raw.type = 2 /\ raw.id = q.id /\ raw.body = body
    BY <1>4, <1>5, <1>6, <1>7 DEF pc_msg_decode
  <1> HIDE DEF raw
  <1>9. {a.route : a \in {a \in reqs : a.id = raw.id}} = {m.route}
    BY <1>8
  <1>10. RoutesOf(raw, low, reqs) = {m.route}
    BY <1>6, <1>8, <1>9 DEF RoutesOf
  <1>11. pc__default_msg_parse_cb(low, gp, reqs, w) =
            Message(q.id, m.route, BodyFor(p, m))
    <2>1. raw = pc_msg_decode(w)
      BY DEF raw
    <2>2. ParseBody(raw.body, gp, m.route) = [ok |-> TRUE, objs |-> BodyFor(p, m)]
      BY <1>3, <1>8
    <2>3. raw.ok /\ raw.id = q.id
      BY <1>8
    <2> HIDE DEF gp
    <2>4. QED
      BY <1>10, <2>1, <2>2, <2>3, ParsedAs
  <1>12. QED
    BY <1>2, <1>11
-----------------------------------------------------------------------------
(* The messages of a session.                                              *)

\* A client that has had the answer to its handshake has the dictionary of its
\* peer; until then it has none.
Dictionary ==
    IF st \in {"dump", "acked", "up"}
    THEN route_to_code = peer.dict /\ LeadsBack(code_to_route, peer)
    ELSE route_to_code = <<>> /\ code_to_route = <<>>

\* Requests wait only on a connection, and one at a time.
Waiting ==
    /\ st # "up" \/ last = NoMsg => requests = {}
    /\ \A q, p \in requests : q = p
    /\ \A q \in requests : q.id \in 1 .. MaxInt

\* The inductive invariant, with SessionInv.
MessagesInv ==
    /\ Dictionary /\ Waiting
    /\ ClientMessageArrives /\ EmptyBodyExplained /\ PeerMessageArrives

\* No message has just been sent.
LEMMA NothingSent ==
    ASSUME last' = NoMsg
    PROVE  ClientMessageArrives' /\ EmptyBodyExplained' /\ PeerMessageArrives'
  <1>1. last'.way = "none"
    BY DEF NoMsg
  <1>2. QED
    BY <1>1 DEF ClientMessageArrives, EmptyBodyExplained, PeerMessageArrives

\* The dictionary of an answer to a handshake.
LEMMA DictionarySet ==
    ASSUME SetDict, route_to_code = <<>>, code_to_route = <<>>
    PROVE  route_to_code' = peer.dict /\ LeadsBack(code_to_route', peer)
  <1>1. CASE peer.dict = <<>>
    <2>1. route_to_code' = <<>> /\ code_to_route' = <<>>
      BY <1>1 DEF SetDict, dict
    <2>2. DOMAIN peer.dict = {} /\ DOMAIN code_to_route' = {}
      BY <1>1, <2>1
    <2>3. {peer.dict[r] % 256 : r \in DOMAIN peer.dict} = {}
      BY <2>2
    <2>4. LeadsBack(code_to_route', peer)
      BY <2>2, <2>3 DEF LeadsBack
    <2>5. QED
      BY <1>1, <2>1, <2>4
  <1>2. CASE peer.dict # <<>>
    <2> DEFINE low == {peer.dict[r] % 256 : r \in DOMAIN peer.dict}
    <2>1. /\ route_to_code' = peer.dict
          /\ code_to_route' \in [low -> DOMAIN peer.dict]
          /\ \A c \in low : peer.dict[code_to_route'[c]] % 256 = c
      BY <1>2 DEF SetDict, CodeToRoute
    <2>2. DOMAIN code_to_route' = low
          /\ \A c \in low : code_to_route'[c] \in DOMAIN peer.dict
      BY <2>1
    <2>3. QED
      BY <2>1, <2>2 DEF LeadsBack
  <1>3. QED
    BY <1>1, <1>2

\* A connection that is given up leaves neither dictionary nor requests.
LEMMA GivenUp ==
    ASSUME st' \notin {"dump", "acked", "up"}, requests' = {},
           route_to_code' = <<>>, code_to_route' = <<>>
    PROVE  Dictionary' /\ Waiting'
  <1>1. st' # "up"
    OBVIOUS
  <1>2. QED
    BY <1>1 DEF Dictionary, Waiting

\* The steps that send no message.
LEMMA QuietNext ==
    ASSUME SessionInv, MessagesInv,
           \/ \E v \in Versions \cup {NULL} : Start(v)
           \/ Crash \/ PeerChanges \/ Lost \/ AttemptFails \/ TimerFires
           \/ HandshakeReq
           \/ HandshakeNoProto \/ HandshakeSameVersion \/ HandshakeNewProtos
           \/ DumpFile \/ AckWritten
    PROVE  MessagesInv'
  <1>1. last' = NoMsg
    BY DEF Start, Crash, PeerChanges, Lost, AttemptFails, TimerFires,
           HandshakeReq, HandshakeNoProto, HandshakeSameVersion,
           HandshakeNewProtos, DumpFile, AckWritten
  <1>2. st # "up" => requests = {}
    BY DEF MessagesInv, Waiting
  <1>3. Dictionary
    BY DEF MessagesInv
  <1>4. CASE Crash \/ Lost \/ AttemptFails
    <2>1. /\ st' \in {"none", "down"} /\ requests' = {}
          /\ route_to_code' = <<>> /\ code_to_route' = <<>>
      BY <1>4 DEF Crash, Lost, AttemptFails, pc__client_reconnect
    <2>2. Dictionary' /\ Waiting'
      BY <2>1, GivenUp
    <2>3. QED
      BY <1>1, <2>2, NothingSent DEF MessagesInv
  <1>5. CASE \/ \E v \in Versions \cup {NULL} : Start(v)
             \/ PeerChanges \/ TimerFires \/ HandshakeReq
    <2>1. /\ st \in {"none", "connect", "down"}
          /\ st' \in {"none", "connect", "asked", "down"}
          /\ requests' = requests
          /\ route_to_code' = route_to_code /\ code_to_route' = code_to_route
      BY <1>5 DEF Start, PeerChanges, TimerFires, HandshakeReq, dict
    <2>2. requests' = {} /\ route_to_code' = <<>> /\ code_to_route' = <<>>
      BY <1>2, <1>3, <2>1 DEF Dictionary
    <2>3. Dictionary' /\ Waiting'
      BY <2>1, <2>2, GivenUp
    <2>4. QED
      BY <1>1, <2>3, NothingSent DEF MessagesInv
  <1>6. CASE HandshakeNoProto \/ HandshakeSameVersion \/ HandshakeNewProtos
    <2>1. /\ st = "asked" /\ st' \in {"dump", "acked"} /\ SetDict
          /\ requests' = requests /\ peer' = peer
      BY <1>6 DEF HandshakeNoProto, HandshakeSameVersion, HandshakeNewProtos
    <2>2. route_to_code = <<>> /\ code_to_route = <<>> /\ requests = {}
      BY <1>2, <1>3, <2>1 DEF Dictionary
    <2>3. route_to_code' = peer.dict /\ LeadsBack(code_to_route', peer)
      BY <2>1, <2>2, DictionarySet
    <2>4. Dictionary'
      BY <2>1, <2>3 DEF Dictionary
    <2>5. Waiting'
      BY <2>1, <2>2 DEF Waiting
    <2>6. QED
      BY <1>1, <2>4, <2>5, NothingSent DEF MessagesInv
  <1>7. CASE DumpFile \/ AckWritten
    <2>1. /\ st \in {"dump", "acked"} /\ st' \in {"dump", "acked", "up"}
          /\ requests' = requests /\ peer' = peer
          /\ route_to_code' = route_to_code /\ code_to_route' = code_to_route
      BY <1>7 DEF DumpFile, AckWritten, dict
    <2>2. requests' = {}
      BY <1>2, <2>1
    <2>3. Dictionary'
      BY <1>3, <2>1 DEF Dictionary
    <2>4. Waiting'
      BY <2>2 DEF Waiting
    <2>5. QED
      BY <1>1, <2>3, <2>4, NothingSent DEF MessagesInv
  <1>8. QED
    BY <1>4, <1>5, <1>6, <1>7

\* A message of the client.
LEMMA ClientNext ==
    ASSUME SessionInv, MessagesInv, NEW m \in ClientMsgs, ClientSends(m)
    PROVE  MessagesInv'
  <1> DEFINE got == PeerParse(peer.dict, Protos(peer.version),
                       pc__default_msg_encode_cb(route_to_code,
                           Protos(client_protos), m.id, m.route, m.obj))
  <1>1. /\ st = "up" /\ last = NoMsg /\ st' = st /\ peer' = peer
        /\ route_to_code' = route_to_code /\ code_to_route' = code_to_route
        /\ requests' = IF m.id = 0 THEN requests
                       ELSE requests \cup {[id |-> m.id, route |-> m.route]}
    BY DEF ClientSends, dict
  <1>2. last' = [way |-> "out", sync |-> client_protos = peer.version,
                 sent |-> m, got |-> got]
    BY DEF ClientSends
  <1>3. peer \in Peers /\ m.id \in 0 .. MaxInt
    BY SessionAssumption DEF SessionInv, TypeOK
  <1>4. Dictionary'
    BY <1>1 DEF MessagesInv, Dictionary
  <1>5. Waiting'
    <2>1. requests = {}
      BY <1>1 DEF MessagesInv, Waiting
    <2>2. last'.way = "out" /\ NoMsg.way = "none"
      BY <1>2 DEF NoMsg
    <2>3. m.id # 0 => m.id \in 1 .. MaxInt
      BY <1>3, MaxIntIs
    <2>4. /\ \A q, p \in requests' : q = p
          /\ \A q \in requests' : q.id \in 1 .. MaxInt
      BY <1>1, <2>1, <2>3
    <2>5. st' = "up" /\ last' # NoMsg
      BY <1>1, <2>2
    <2>6. QED
      BY <2>4, <2>5 DEF Waiting
  <1>6. ClientMessageArrives' /\ EmptyBodyExplained'
    <2>1. CASE client_protos = peer.version
      <3>1. route_to_code = peer.dict
        BY <1>1 DEF MessagesInv, Dictionary
      <3>2. got = PeerParse(peer.dict, Protos(peer.version),
                     pc__default_msg_encode_cb(peer.dict, Protos(peer.version),
                                               m.id, m.route, m.obj))
        BY <2>1, <3>1
      <3>3. /\ got.ok /\ got.id = m.id /\ got.route = m.route
            /\ got.body = {} \/ (KnownBy(peer, m) /\ got.body = BodyFor(peer, m))
            /\ KnownBy(peer, m) => got.body = BodyFor(peer, m) \/ WideFor(peer, m)
        BY <1>3, <3>2, ClientArrives
      <3>4. last'.sent = m /\ last'.got = got
        BY <1>2
      <3>5. Known(m)' <=> KnownBy(peer, m)
        BY <1>1 DEF Known, InProtos, DefOf, KnownBy
      <3>6. Body(m)' = BodyFor(peer, m)
        BY <1>1 DEF Body, InProtos, DefOf, BodyFor
      <3>7. (/\ InProtos(m.route)
             /\ Wide(Protos(peer.version), DefOf(m.route), m.obj))' <=> WideFor(peer, m)
        BY <1>1 DEF InProtos, DefOf, WideFor
      <3> HIDE DEF got
      <3>8. ClientMessageArrives'
        BY <3>3, <3>4, <3>5, <3>6 DEF ClientMessageArrives
      <3>9. EmptyBodyExplained'
        BY <3>3, <3>4, <3>5, <3>6, <3>7 DEF EmptyBodyExplained
      <3>10. QED
        BY <3>8, <3>9
    <2>2. CASE client_protos # peer.version
      <3>1. ~last'.sync
        BY <1>2, <2>2
      <3>2. QED
        BY <3>1 DEF ClientMessageArrives, EmptyBodyExplained
    <2>3. QED
      BY <2>1, <2>2
  <1>7. PeerMessageArrives'
    <2>1. last'.way = "out"
      BY <1>2
    <2>2. QED
      BY <2>1 DEF PeerMessageArrives
  <1>8. QED
    BY <1>4, <1>5, <1>6, <1>7 DEF MessagesInv

\* What pc__data does with a message, if it is what it should be.
LEMMA DataArrives ==
    ASSUME SessionInv, MessagesInv, st = "up", NEW sent, NEW got, Data(sent, got),
           server_protos = peer.version
               /\ (sent.id > 0 \/ ResolvableOf(peer, sent.route)) =>
               got = Message(sent.id, sent.route, BodyFor(peer, sent))
    PROVE  MessagesInv'
  <1>1. last' = [way |-> "in", sync |-> server_protos = peer.version,
                 sent |-> sent, got |-> got]
    BY DEF Data
  <1>2. peer' = peer
    BY DEF Data, pc__client_reconnect
  <1>3. Dictionary' /\ Waiting'
    <2>1. CASE pc__client_reconnect
      <3>1. /\ st' \notin {"dump", "acked", "up"} /\ requests' = {}
            /\ route_to_code' = <<>> /\ code_to_route' = <<>>
        BY <2>1 DEF pc__client_reconnect
      <3>2. QED
        BY <3>1, GivenUp
    <2>2. CASE /\ requests' = {q \in requests : q.id # sent.id}
               /\ UNCHANGED <<st, backoff, protos, dict, dumps, disk, peer>>
      <3>1. /\ st' = st /\ requests' \subseteq requests
            /\ route_to_code' = route_to_code /\ code_to_route' = code_to_route
        BY <2>2 DEF dict
      <3>2. Dictionary'
        BY <1>2, <3>1 DEF MessagesInv, Dictionary
      <3>3. last'.way = "in" /\ NoMsg.way = "none"
        BY <1>1 DEF NoMsg
      <3>4. st' = "up" /\ last' # NoMsg
        BY <3>1, <3>3
      <3>5. Waiting'
        BY <3>1, <3>4 DEF MessagesInv, Waiting
      <3>6. QED
        BY <3>2, <3>5
    <2>3. QED
      BY <2>1, <2>2 DEF Data
  <1>4. ClientMessageArrives' /\ EmptyBodyExplained'
    <2>1. last'.way = "in"
      BY <1>1
    <2>2. QED
      BY <2>1 DEF ClientMessageArrives, EmptyBodyExplained
  <1>5. PeerMessageArrives'
    <2>1. CASE server_protos = peer.version
      <3>1. last'.sent = sent /\ last'.got = got
        BY <1>1
      <3>2. Resolvable(sent.route)' <=> ResolvableOf(peer, sent.route)
        BY <1>2 DEF Resolvable, ResolvableOf, Coded
      <3>3. Body(sent)' = BodyFor(peer, sent)
        BY <1>2 DEF Body, InProtos, DefOf, BodyFor
      <3>4. QED
        BY <2>1, <3>1, <3>2, <3>3 DEF PeerMessageArrives
    <2>2. CASE server_protos # peer.version
      <3>1. ~last'.sync
        BY <1>1, <2>2
      <3>2. QED
        BY <3>1 DEF PeerMessageArrives
    <2>3. QED
      BY <2>1, <2>2
  <1>6. QED
    BY <1>3, <1>4, <1>5 DEF MessagesInv

\* A message of the peer, a push or an answer.
LEMMA PeerNext ==
    ASSUME SessionInv, MessagesInv, NEW m \in PeerMsgs,
           PeerPushes(m) \/ PeerAnswers(m)
    PROVE  MessagesInv'
  <1> DEFINE sent(id) == [id |-> id, route |-> m.route, obj |-> m.obj]
             got(id) == pc__default_msg_parse_cb(code_to_route,
                            Protos(server_protos), requests,
                            PeerEncode(peer.dict, Protos(peer.version),
                                       id, m.route, m.obj))
  <1>1. st = "up" /\ peer \in Peers
    BY DEF PeerPushes, PeerAnswers, SessionInv, TypeOK
  <1>2. LeadsBack(code_to_route, peer)
    BY <1>1 DEF MessagesInv, Dictionary
  <1>3. \A id : /\ sent(id).id = id /\ sent(id).route = m.route
                /\ BodyFor(peer, sent(id)) = BodyFor(peer, m)
    BY DEF BodyFor
  <1>4. CASE PeerPushes(m)
    <2>1. Data(sent(0), got(0))
      BY <1>4 DEF PeerPushes, Receives
    <2>2. ASSUME server_protos = peer.version, ResolvableOf(peer, m.route)
          PROVE  got(0) = Message(0, m.route, BodyFor(peer, m))
      BY <1>1, <1>2, <2>2, PushArrives
    <2>3. sent(0).id = 0 /\ sent(0).route = m.route
          /\ BodyFor(peer, sent(0)) = BodyFor(peer, m)
      BY <1>3
    <2> HIDE DEF sent, got
    <2>4. server_protos = peer.version
             /\ (sent(0).id > 0 \/ ResolvableOf(peer, sent(0).route)) =>
             got(0) = Message(sent(0).id, sent(0).route, BodyFor(peer, sent(0)))
      BY <2>2, <2>3
    <2>5. QED
      BY <1>1, <2>1, <2>4, DataArrives
  <1>5. CASE PeerAnswers(m)
    <2>1. PICK q \in requests : q.route = m.route /\ Data(sent(q.id), got(q.id))
      BY <1>5 DEF PeerAnswers, Receives
    <2>2. q.id \in 1 .. MaxInt /\ \A a, b \in requests : a = b
      BY DEF MessagesInv, Waiting
    <2>3. ASSUME server_protos = peer.version
          PROVE  got(q.id) = Message(q.id, m.route, BodyFor(peer, m))
      BY <1>1, <2>1, <2>2, <2>3, AnswerArrives
    <2>4. sent(q.id).id = q.id /\ sent(q.id).route = m.route
          /\ BodyFor(peer, sent(q.id)) = BodyFor(peer, m)
      BY <1>3
    <2> HIDE DEF sent, got
    <2>5. server_protos = peer.version
             /\ (sent(q.id).id > 0 \/ ResolvableOf(peer, sent(q.id).route)) =>
             got(q.id) = Message(sent(q.id).id, sent(q.id).route,
                                 BodyFor(peer, sent(q.id)))
      BY <2>3, <2>4
    <2>6. QED
      BY <1>1, <2>1, <2>5, DataArrives
  <1>6. QED
    BY <1>4, <1>5

\* The dictionary, the requests that wait and what has arrived of the last
\* message are as they should be.
THEOREM MessagesInvariant == Spec => []MessagesInv
  <1>1. Init => MessagesInv
    <2> SUFFICES ASSUME Init PROVE MessagesInv
      OBVIOUS
    <2>1. Dictionary /\ Waiting
      BY DEF Init, Dictionary, Waiting
    <2>2. last.way = "none"
      BY DEF Init, NoMsg
    <2>3. QED
      BY <2>1, <2>2 DEF MessagesInv, ClientMessageArrives, EmptyBodyExplained,
                        PeerMessageArrives
  <1>2. SessionInv /\ MessagesInv /\ [Next]_vars => MessagesInv'
    <2> SUFFICES ASSUME SessionInv, MessagesInv, [Next]_vars PROVE MessagesInv'
      OBVIOUS
    <2>1. CASE UNCHANGED vars
      <3>1. /\ st' = st /\ peer' = peer /\ requests' = requests /\ last' = last
            /\ route_to_code' = route_to_code /\ code_to_route' = code_to_route
        BY <2>1 DEF vars
      <3>2. Dictionary' /\ Waiting'
        BY <3>1 DEF MessagesInv, Dictionary, Waiting
      <3>3. ClientMessageArrives'
        BY <3>1 DEF MessagesInv, ClientMessageArrives, Known, Body, InProtos, DefOf
      <3>4. PeerMessageArrives'
        BY <3>1 DEF MessagesInv, PeerMessageArrives, Resolvable, Body, InProtos, DefOf
      <3>5. EmptyBodyExplained'
        BY <3>1 DEF MessagesInv, EmptyBodyExplained, Known, Body, InProtos, DefOf
      <3>6. QED
        BY <3>2, <3>3, <3>4, <3>5 DEF MessagesInv
    <2>2. QED
      BY <2>1, QuietNext, ClientNext, PeerNext DEF Next
  <1>3. QED
    BY <1>1, <1>2, SessionInvariant, PTL DEF Spec

\* protocol.c, message.c, pb-encode.c: whatever a client sends with the
\* definitions of its peer arrives under its route and its id, with all that
\* the definitions can carry of it, or without a body; after any number of
\* connections, servers and handshakes.
THEOREM ClientMessagesArrive == Spec => []ClientMessageArrives
  <1>1. MessagesInv => ClientMessageArrives
    BY DEF MessagesInv
  <1>2. QED
    BY <1>1, MessagesInvariant, PTL

\* msg-pb.c: a client's message arrives without the body that it should have only
\* if a key in it is not defined, or if it has an array of two doubles or more or
\* a tag of more than two bytes, for which the buffer may be too short.
THEOREM EmptyBodiesExplained == Spec => []EmptyBodyExplained
  <1>1. MessagesInv => EmptyBodyExplained
    BY DEF MessagesInv
  <1>2. QED
    BY <1>1, MessagesInvariant, PTL

\* protocol.c, message.c, pb-decode.c: every push and every answer of a peer
\* whose definitions the client has arrives as it was sent, if the client can
\* resolve its route.
THEOREM PeerMessagesArrive == Spec => []PeerMessageArrives
  <1>1. MessagesInv => PeerMessageArrives
    BY DEF MessagesInv
  <1>2. QED
    BY <1>1, MessagesInvariant, PTL
=============================================================================
