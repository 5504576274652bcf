--------------------------- MODULE RequestsProofs ---------------------------
(***************************************************************************)
(* Proofs about Requests, for every number of callers and connections,     *)
(* every width of the id and every hash function.  The map is spoken of    *)
(* only through Has and the lemmas of PcMapProofs.                         *)
(***************************************************************************)
EXTENDS Requests, PcMapProofs

(* The inductive invariant, part by part.                                  *)

\* The types, with the contents of the queues and of the map.
Typed ==
    /\ TypeOK
    /\ writes \in Seq(Calls)
    /\ told \in [Calls -> Seq(Results)]
    /\ WellFormed(requests, Reqs)

\* Where a call is: a call on its way has a transport; a call that has not
\* returned 0, and one whose async handle is not handled, has been told
\* nothing; the peer answers only what was written.
Placed ==
    /\ \A c \in Calls : pc[c] \in {"send", "ok"} => req_tp[c] # NULL
    /\ \A c \in Calls : pc[c] # "ok" => told[c] = <<>>
    /\ \A c \in async : pc[c] = "ok" /\ told[c] = <<>>
    /\ \A r \in wire : pc[r] = "ok"

\* A call is written at most once, after its async handle.
Queued ==
    /\ \A i \in DOMAIN writes : pc[writes[i]] = "ok" /\ writes[i] \notin async
    /\ \A i, j \in DOMAIN writes : writes[i] = writes[j] => i = j

\* A request is in the map under its own id, after its async handle.
Mapped ==
    \A k \in Keys, r \in Reqs :
        Has(requests, k, r) => id[r] = k /\ pc[r] = "ok" /\ r \notin async

\* One transport is in use, and the next one only when the last is freed; the
\* worker leaves its loop when nothing is left to do.
Connected ==
    /\ \A d \in Conns : /\ tp[d] = "WORKING" => transport = d
                        /\ tp[d] = "CLOSED" => transport = NULL
    /\ transport # NULL => tp[transport] = "WORKING"
    /\ \A d, e \in Conns : e < d /\ tp[e] = "none" => tp[d] = "none"
    /\ state = "CLOSED" => handles = "closed"
    /\ handles = "closed" \/ feeding => transport = NULL
    /\ worker \in {"done", "freed"} => /\ state = "CLOSED" /\ ~feeding
                                      /\ async = {} /\ writes = <<>>
    /\ worker = "freed" => fault = "none"

\* pc__client_reconnect_reset and pc__client_clear leave nothing in the map.
Cleared ==
    (transport = NULL /\ state # "CLOSED") \/ worker \in {"freed", "cut"} =>
        \A k \in Keys, r \in Reqs : ~Has(requests, k, r)

\* While a response can come, no request in the map has been told anything.
Untold ==
    feeding \/ transport # NULL =>
        \A k \in Keys, r \in Reqs : Has(requests, k, r) => told[r] = <<>>

\* A notify whose handle is handled is being written or has been told, once.
NotesTold ==
    \A n \in Notes :
        /\ Len(told[n]) <= 1
        /\ \A i \in DOMAIN writes : writes[i] = n => told[n] = <<>>
        /\ pc[n] = "ok" /\ n \notin async /\ told[n] = <<>>
              => \E i \in DOMAIN writes : writes[i] = n

\* A request that was told 0 without an answer is nowhere any more.
OkAlone ==
    \A r \in Reqs : (\E i \in DOMAIN told[r] : told[r][i] = <<"ok">>) =>
        /\ tp[req_tp[r]] \in {"CLOSED", "freed"}
        /\ Len(told[r]) = 1
        /\ r \notin async
        /\ \A i \in DOMAIN writes : writes[i] # r
        /\ \A k \in Keys : ~Has(requests, k, r)

\* An answer goes to a request with the id of the one it answers.
SameId ==
    \A r, s \in Reqs : \A i \in DOMAIN told[s] :
        told[s][i] = <<"resp", r>> =>
            pc[r] = "ok" /\ pc[s] = "ok" /\ id[s] = id[r]

\* No other call that returned 0 has the id of r.
Alone(r) == \A s \in Reqs \ {r} : pc[s] = "ok" => id[s] # id[r]

\* A request that is written, not told and alone with its id is in the map.
Remembered ==
    fault = "none" => \A r \in Reqs :
        pc[r] = "ok" /\ r \notin async /\ told[r] = <<>> /\ Alone(r)
            => Has(requests, id[r], r)

\* The inductive invariant.
RequestsInv ==
    /\ Typed /\ Placed /\ Queued /\ Mapped /\ Connected
    /\ Cleared /\ Untold /\ NotesTold /\ OkAlone /\ SameId
    /\ ErrorIsFinal /\ Remembered

(* Telling callers, the queue of writes.                                   *)

\* A callback that is called is told one thing more; the others, nothing.
LEMMA TellIs ==
    ASSUME told \in [Calls -> Seq(Results)], NEW S, NEW x \in Results,
           Tell(S, x)
    PROVE  /\ told' \in [Calls -> Seq(Results)]
           /\ \A c \in Calls : c \notin S => told'[c] = told[c]
           /\ \A c \in Calls : c \in S =>
                 /\ told'[c] # <<>>
                 /\ Len(told'[c]) = Len(told[c]) + 1
                 /\ \A i \in DOMAIN told[c] : told'[c][i] = told[c][i]
                 /\ \A i \in DOMAIN told'[c] :
                       i \in DOMAIN told[c] \/ told'[c][i] = x
                 /\ DOMAIN told'[c] = 1 .. Len(told[c]) + 1
                 /\ told'[c][Len(told[c]) + 1] = x
  <1>1. \A c \in Calls : told'[c] = IF c \in S THEN Append(told[c], x)
                                    ELSE told[c]
    BY DEF Tell
  <1>2. ASSUME NEW c \in Calls
        PROVE  /\ Append(told[c], x) \in Seq(Results)
               /\ Append(told[c], x) # <<>>
               /\ Len(Append(told[c], x)) = Len(told[c]) + 1
               /\ DOMAIN Append(told[c], x) = 1 .. Len(told[c]) + 1
               /\ \A i \in DOMAIN told[c] : Append(told[c], x)[i] = told[c][i]
               /\ Append(told[c], x)[Len(told[c]) + 1] = x
               /\ DOMAIN told[c] = 1 .. Len(told[c]) /\ Len(told[c]) \in Nat
    <2>1. told[c] \in Seq(Results)
      OBVIOUS
    <2>2. QED
      BY <2>1, SMTT(30)
  <1>3. told' \in [Calls -> Seq(Results)]
    BY <1>2 DEF Tell
  <1>4. \A c \in Calls : \A i \in 1 .. Len(told[c]) + 1 :
           i \in DOMAIN told[c] \/ i = Len(told[c]) + 1
    BY <1>2
  <1>5. QED
    BY <1>1, <1>2, <1>3, <1>4

\* Whatever can be told.
LEMMA ResultsAre ==
    /\ <<"ok">> \in Results /\ <<"err">> \in Results
    /\ \A r \in Reqs : <<"resp", r>> \in Results
    /\ <<"ok">> # <<"err">>
    /\ \A r \in Reqs : <<"resp", r>> # <<"ok">> /\ <<"resp", r>> # <<"err">>
    /\ \A r, s \in Reqs : <<"resp", r>> = <<"resp", s>> => r = s
  <1>1. /\ <<"ok">> \in Results /\ <<"err">> \in Results
        /\ \A r \in Reqs : <<"resp", r>> \in Results
    BY DEF Results
  <1>2. <<"ok">> # <<"err">>
    OBVIOUS
  <1>3. ASSUME NEW r \in Reqs
        PROVE  <<"resp", r>> # <<"ok">> /\ <<"resp", r>> # <<"err">>
    <2>1. Len(<<"resp", r>>) = 2 /\ Len(<<"ok">>) = 1 /\ Len(<<"err">>) = 1
      OBVIOUS
    <2>2. QED
      BY <2>1
  <1>4. \A r, s \in Reqs : <<"resp", r>> = <<"resp", s>> => r = s
    OBVIOUS
  <1>5. QED
    BY <1>1, <1>2, <1>3, <1>4

\* The write at the head is called back: the others keep their order.
LEMMA TailIs ==
    ASSUME NEW S, NEW q \in Seq(S), q # <<>>
    PROVE  /\ Head(q) \in S /\ Head(q) = q[1] /\ 1 \in DOMAIN q
           /\ Tail(q) \in Seq(S)
           /\ \A i \in DOMAIN Tail(q) :
                 i + 1 \in DOMAIN q /\ i + 1 # 1 /\ Tail(q)[i] = q[i + 1]
           /\ \A i \in DOMAIN q : i = 1 \/ (i - 1 \in DOMAIN Tail(q)
                                            /\ Tail(q)[i - 1] = q[i])
           /\ \A i, j \in DOMAIN Tail(q) : i + 1 = j + 1 => i = j
  OBVIOUS

\* The write at the end: the others stay where they are.
LEMMA AppendIs ==
    ASSUME NEW S, NEW q \in Seq(S), NEW c \in S
    PROVE  /\ Append(q, c) \in Seq(S) /\ Len(q) \in Nat
           /\ DOMAIN q = 1 .. Len(q)
           /\ DOMAIN Append(q, c) = 1 .. Len(q) + 1
           /\ \A i \in DOMAIN q : Append(q, c)[i] = q[i]
           /\ Append(q, c)[Len(q) + 1] = c
           /\ \A i \in 1 .. Len(q) + 1 : i \in DOMAIN q \/ i = Len(q) + 1
  OBVIOUS

(* A stop, from wherever pc_client_stop is called.                         *)

Stopping == ConnectionLost \/ PackageRefused \/ \E r \in Reqs : ResponseUnknown(r)

\* It resets the client, closes it or returns at once; it is called with a
\* connection or with the rest of its last chunk.
LEMMA StopIs ==
    ASSUME Stopping
    PROVE  /\ UNCHANGED <<enable_reconnect, worker, caller, async, writes, fault>>
           /\ Alive /\ worker = "loop" /\ (feeding \/ transport # NULL)
           /\ \A r : r \in wire' => r \in wire
           /\ \/ \E infeed \in BOOLEAN : Reset(infeed)
              \/ \E infeed \in BOOLEAN : Close(infeed)
              \/ UNCHANGED <<state, stops, transport, tp, feeding, requests, told>>
  <1>1. CASE ConnectionLost
    BY <1>1 DEF ConnectionLost, InLoop, Reset, Close, DestroyTransport
  <1>2. CASE PackageRefused
    BY <1>2 DEF PackageRefused, StopInFeed, Reset, Close, DestroyTransport
  <1>3. ASSUME NEW r \in Reqs, ResponseUnknown(r)
        PROVE  /\ UNCHANGED <<enable_reconnect, worker, caller, async, writes, fault>>
               /\ Alive /\ worker = "loop" /\ (feeding \/ transport # NULL)
               /\ \A q : q \in wire' => q \in wire
               /\ \/ \E infeed \in BOOLEAN : Reset(infeed)
                  \/ \E infeed \in BOOLEAN : Close(infeed)
                  \/ UNCHANGED <<state, stops, transport, tp, feeding, requests, told>>
    BY <1>3 DEF ResponseUnknown, Receiving, StopInFeed, Reset, Close,
                DestroyTransport
  <1>4. QED
    BY <1>1, <1>2, <1>3 DEF Stopping

(* Types.                                                                  *)

\* The values of a well-formed map, the queue and the history have the types
\* that TypeOK asks for.
LEMMA DataTypes ==
    ASSUME NEW m, WellFormed(m, Reqs), NEW w \in Seq(Calls),
           NEW t \in [Calls -> Seq(Results)]
    PROVE  /\ \A r \in Values(m) : r \in Reqs
           /\ \A i \in DOMAIN w : w[i] \in Calls
           /\ \A c \in Calls : \A i \in DOMAIN t[c] : t[c][i] \in Results
  <1>1. \A r \in Values(m) : r \in Reqs
    BY ValuesAreHad, HasValue
  <1>2. \A c \in Calls : t[c] \in Seq(Results)
    OBVIOUS
  <1>3. \A c \in Calls : \A i \in DOMAIN t[c] : t[c][i] \in Results
    BY <1>2
  <1>4. QED
    BY <1>1, <1>3

\* The bounded counter keeps its width.
LEMMA IdWidth ==
    ASSUME NEW n \in Ids
    PROVE  (n + 1) % IdModulus \in Ids
  BY RequestsAssumption, Z3 DEF Ids

\* The initial state.
LEMMA TypedInit == Init => Typed
  <1> SUFFICES ASSUME Init PROVE Typed
    OBVIOUS
  <1>1. WellFormed(requests, Reqs)
    <2> DEFINE first == [key |-> FirstId, value |-> CHOOSE r \in Older : TRUE]
    <2>1. FirstId \in Keys /\ Keys = Ids /\ Older \subseteq Reqs
      BY RequestsAssumption DEF Ids
    <2>2. CASE Older = {}
      <3>1. requests = pc_map_init
        BY <2>2 DEF Init, pc_map_init
      <3>2. QED
        BY <3>1, InitHasNone
    <2>3. CASE Older # {}
      <3>1. first \in Pair(Reqs) /\ first.key = FirstId
        BY <2>1, <2>3 DEF Pair
      <3> HIDE DEF first
      <3>2. \A b \in Buckets : requests[b] = IF b = bucket(FirstId)
                                             THEN <<first>> ELSE <<>>
        BY <2>3 DEF Init, first
      <3>3. requests \in Map(Reqs)
        <4>1. <<first>> \in Seq(Pair(Reqs)) /\ <<>> \in Seq(Pair(Reqs))
          BY <3>1
        <4>2. requests = [b \in Buckets |-> IF b = bucket(FirstId)
                                            THEN <<first>> ELSE <<>>]
          BY <2>3 DEF Init, first
        <4>3. QED
          BY <4>1, <4>2 DEF Map
      <3>4. QED
        BY <3>1, <3>2, <3>3 DEF WellFormed
    <2>4. QED
      BY <2>2, <2>3
  <1>2. writes \in Seq(Calls) /\ told \in [Calls -> Seq(Results)]
    BY DEF Init
  <1>3. TypeOK
    <2>1. /\ \A r \in Values(requests) : r \in Reqs
          /\ \A i \in DOMAIN writes : writes[i] \in Calls
          /\ \A c \in Calls : \A i \in DOMAIN told[c] : told[c][i] \in Results
      BY <1>1, <1>2, DataTypes
    <2>2. /\ enable_reconnect \in BOOLEAN /\ feeding \in BOOLEAN
          /\ state = "WORKING" /\ worker = "loop" /\ fault = "none"
          /\ reconnecting = 0 /\ handles = "open"
          /\ async \subseteq Calls /\ wire \subseteq Reqs
      BY RequestsAssumption DEF Init, Calls
    <2>3. transport \in Conns \cup {NULL} /\ 0 \in Ids /\ FirstId \in Ids
      BY RequestsAssumption DEF Init, Conns, Ids
    <2>4. tp \in [Conns -> {"none", "WORKING", "CLOSED", "freed"}]
      BY DEF Init
    <2>5. /\ pc__req_id \in Ids /\ reg \in [Calls -> Ids]
          /\ id \in [Calls -> Ids]
          /\ pc \in [Calls -> {"none", "store", "load", "send", "ok", "error"}]
      BY <2>3 DEF Init
    <2>6. req_tp \in [Calls -> Conns \cup {NULL}]
      BY <2>3 DEF Init
    <2>7. QED
      BY <2>1, <2>2, <2>3, <2>4, <2>5, <2>6 DEF TypeOK
  <1>4. QED
    BY <1>1, <1>2, <1>3 DEF Typed

\* The queue of writes, what callbacks were told, and the map keep their form.
LEMMA DataNext ==
    ASSUME Typed, [Next]_vars
    PROVE  /\ writes' \in Seq(Calls)
           /\ told' \in [Calls -> Seq(Results)]
           /\ WellFormed(requests', Reqs)
  <1> DEFINE Data == /\ writes \in Seq(Calls)
                     /\ told \in [Calls -> Seq(Results)]
                     /\ WellFormed(requests, Reqs)
  <1>1. Data
    BY DEF Typed
  <1>2. \A c \in Calls : id[c] \in Keys
    BY RequestsAssumption DEF Typed, TypeOK, Ids
  <1>3. ASSUME NEW infeed \in BOOLEAN, Reset(infeed)
        PROVE  told' \in [Calls -> Seq(Results)] /\ WellFormed(requests', Reqs)
    BY <1>1, <1>3, TellIs, ResultsAre, InitHasNone DEF Reset
  <1>4. ASSUME NEW infeed \in BOOLEAN, Reset(infeed), UNCHANGED writes
        PROVE  Data'
    BY <1>1, <1>3, <1>4
  <1> USE <1>1 DEF conn, stops, caller, net
  <1>5. CASE CallerStep
    <2>1. ASSUME NEW c \in Calls, Begin(c) PROVE Data'
      BY <2>1 DEF Begin, Alive, Goes
    <2>2. ASSUME NEW r \in Reqs, StoreCounter(r) PROVE Data'
      BY <2>2 DEF StoreCounter, Alive, Goes
    <2>3. ASSUME NEW c \in Calls, LoadTransport(c) PROVE Data'
      BY <2>3 DEF LoadTransport, Alive, Goes
    <2>4. ASSUME NEW c \in Calls, SendAsync(c) PROVE Data'
      BY <2>4 DEF SendAsync, Alive, Goes
    <2>5. QED
      BY <1>5, <2>1, <2>2, <2>3, <2>4 DEF CallerStep
  <1>6. CASE WorkerStep
    <2>1. ASSUME NEW c \in Calls, AsyncFreed(c) PROVE Data'
      BY <2>1 DEF AsyncFreed, InLoop, Alive
    <2>2. ASSUME NEW c \in Calls, AsyncClosed(c) PROVE Data'
      BY <2>2, TellIs, ResultsAre DEF AsyncClosed
    <2>3. ASSUME NEW c \in Calls, AsyncError(c) PROVE Data'
      BY <2>3, TellIs, ResultsAre DEF AsyncError
    <2>4. ASSUME NEW c \in Calls, WriteNotify(c) PROVE Data'
      BY <2>4, AppendIs DEF WriteNotify
    <2>5. ASSUME NEW r \in Reqs, WriteRequest(r) PROVE Data'
      <3>1. writes' \in Seq(Calls)
        BY <2>5, AppendIs DEF WriteRequest, Calls
      <3>2. CASE pc_map_set_hangs(requests, id[r])
        BY <2>5, <3>1, <3>2 DEF WriteRequest
      <3>3. CASE ~pc_map_set_hangs(requests, id[r])
        <4>1. WellFormed(requests', Reqs)
          BY <2>5, <1>2, <3>3, SetHas DEF WriteRequest, Calls
        <4>2. told' \in [Calls -> Seq(Results)]
          BY <2>5, <3>3, TellIs, ResultsAre DEF WriteRequest
        <4>3. QED
          BY <3>1, <4>1, <4>2
      <3>4. QED
        BY <3>2, <3>3
    <2>6. CASE WriteDone
      BY <2>6, TellIs, ResultsAre, TailIs DEF WriteDone
    <2>7. CASE WriteFailed
      <3>1. writes' \in Seq(Calls) /\ Head(writes) \in Calls
        BY <2>7, TailIs DEF WriteFailed
      <3>2. WellFormed(requests', Reqs)
        BY <2>7, <1>2, <3>1, DelHas DEF WriteFailed
      <3>3. told' \in [Calls -> Seq(Results)]
        BY <2>7, TellIs, ResultsAre DEF WriteFailed
      <3>4. QED
        BY <3>1, <3>2, <3>3
    <2>8. CASE WriteCancelled
      BY <2>8, TellIs, ResultsAre, TailIs DEF WriteCancelled
    <2>9. ASSUME NEW c \in Conns, TransportFreed(c) PROVE Data'
      BY <2>9 DEF TransportFreed, InLoop, Alive
    <2>10. CASE FeedReturns
      BY <2>10 DEF FeedReturns, Alive
    <2>11. CASE CloseUnconnected
      BY <2>11 DEF CloseUnconnected, InLoop, Alive
    <2>12. CASE LoopExit
      BY <2>12 DEF LoopExit, InLoop, Alive
    <2>13. QED
      BY <1>6, <2>1, <2>2, <2>3, <2>4, <2>5, <2>6, <2>7, <2>8, <2>9, <2>10,
         <2>11, <2>12 DEF WorkerStep
  <1>7. CASE Environment
    <2>1. CASE Stopping
      <3>1. ASSUME NEW infeed \in BOOLEAN, Close(infeed) PROVE Data'
        BY <2>1, <3>1, StopIs DEF Close
      <3>2. CASE UNCHANGED <<requests, told>>
        BY <2>1, <3>2, StopIs
      <3>3. QED
        BY <2>1, <1>4, <3>1, <3>2, StopIs
    <2>2. CASE Disconnect
      BY <2>2 DEF Disconnect, Alive
    <2>3. ASSUME NEW c \in Conns, Reconnect(c) PROVE Data'
      BY <2>3 DEF Reconnect, InLoop, Alive
    <2>4. CASE HandshakeDone
      BY <2>4 DEF HandshakeDone, InLoop, Alive
    <2>5. ASSUME NEW r \in Reqs, Response(r) PROVE Data'
      <3>1. WellFormed(requests', Reqs)
        BY <2>5, <1>2, DelHas DEF Response, Calls
      <3>2. told' \in [Calls -> Seq(Results)]
        BY <2>5, TellIs, ResultsAre DEF Response
      <3>3. QED
        BY <2>5, <3>1, <3>2 DEF Response
    <2>6. CASE Destroy
      BY <2>6, TellIs, ResultsAre, InitHasNone DEF Destroy
    <2>7. QED
      BY <1>7, <2>1, <2>2, <2>3, <2>4, <2>5, <2>6 DEF Environment, Stopping
  <1>8. CASE UNCHANGED vars
    BY <1>8 DEF vars
  <1>9. QED
    BY <1>5, <1>6, <1>7, <1>8 DEF Next

\* Every step of a caller and of the worker keeps the types.
LEMMA TypedNext ==
    ASSUME Typed, [Next]_vars
    PROVE  Typed'
  <1>1. /\ writes' \in Seq(Calls)
        /\ told' \in [Calls -> Seq(Results)]
        /\ WellFormed(requests', Reqs)
    BY DataNext
  <1>2. /\ \A r \in Values(requests') : r \in Reqs
        /\ \A i \in DOMAIN writes' : writes'[i] \in Calls
        /\ \A c \in Calls : \A i \in DOMAIN told'[c] : told'[c][i] \in Results
    BY <1>1, DataTypes
  <1>3. SUFFICES TypeOK'
    BY <1>1 DEF Typed
  <1>4. TypeOK
    BY DEF Typed
  <1> USE <1>2, <1>4, RequestsAssumption
      DEF TypeOK, Calls, Conns, NULL, conn, stops, caller, net
  <1>5. CASE CallerStep
    <2>1. ASSUME NEW c \in Calls, Begin(c) PROVE TypeOK'
      BY <2>1 DEF Begin, Alive, Goes
    <2>2. ASSUME NEW r \in Reqs, StoreCounter(r) PROVE TypeOK'
      <3>1. (reg[r] + 1) % IdModulus \in Ids /\ 0 \in Ids
        <4>1. reg[r] \in Ids
          OBVIOUS
        <4>2. 0 \in Ids
          BY DEF Ids
        <4>3. QED
          BY <4>1, <4>2, IdWidth
      <3>2. QED
        BY <2>2, <3>1 DEF StoreCounter, Goes
    <2>3. ASSUME NEW c \in Calls, LoadTransport(c) PROVE TypeOK'
      BY <2>3 DEF LoadTransport, Alive, Goes
    <2>4. ASSUME NEW c \in Calls, SendAsync(c) PROVE TypeOK'
      BY <2>4 DEF SendAsync, Alive, Goes
    <2>5. QED
      BY <1>5, <2>1, <2>2, <2>3, <2>4 DEF CallerStep
  <1>6. CASE WorkerStep
    <2>1. ASSUME NEW c \in Calls, AsyncFreed(c) PROVE TypeOK'
      BY <2>1 DEF AsyncFreed, InLoop, Alive
    <2>2. ASSUME NEW c \in Calls, AsyncClosed(c) PROVE TypeOK'
      BY <2>2 DEF AsyncClosed, InLoop, Alive
    <2>3. ASSUME NEW c \in Calls, AsyncError(c) PROVE TypeOK'
      BY <2>3 DEF AsyncError, InLoop, Alive
    <2>4. ASSUME NEW c \in Calls, WriteNotify(c) PROVE TypeOK'
      BY <2>4 DEF WriteNotify, InLoop, Alive
    <2>5. ASSUME NEW r \in Reqs, WriteRequest(r) PROVE TypeOK'
      BY <2>5 DEF WriteRequest, InLoop, Alive
    <2>6. CASE WriteDone
      BY <2>6 DEF WriteDone, InLoop, Alive
    <2>7. CASE WriteFailed
      BY <2>7 DEF WriteFailed, InLoop, Alive
    <2>8. CASE WriteCancelled
      BY <2>8 DEF WriteCancelled, InLoop, Alive
    <2>9. ASSUME NEW c \in Conns, TransportFreed(c) PROVE TypeOK'
      BY <2>9 DEF TransportFreed, InLoop, Alive
    <2>10. CASE FeedReturns
      BY <2>10 DEF FeedReturns, Alive
    <2>11. CASE CloseUnconnected
      BY <2>11 DEF CloseUnconnected, InLoop, Alive
    <2>12. CASE LoopExit
      BY <2>12 DEF LoopExit, InLoop, Alive
    <2>13. QED
      BY <1>6, <2>1, <2>2, <2>3, <2>4, <2>5, <2>6, <2>7, <2>8, <2>9, <2>10,
         <2>11, <2>12 DEF WorkerStep
  <1>7. CASE Environment
    <2>1. CASE Stopping
      BY <2>1, StopIs DEF Reset, Close, DestroyTransport
    <2>2. CASE Disconnect
      BY <2>2 DEF Disconnect, Alive
    <2>3. ASSUME NEW c \in Conns, Reconnect(c) PROVE TypeOK'
      BY <2>3 DEF Reconnect, InLoop, Alive
    <2>4. CASE HandshakeDone
      BY <2>4 DEF HandshakeDone, InLoop, Alive
    <2>5. ASSUME NEW r \in Reqs, Response(r) PROVE TypeOK'
      BY <2>5 DEF Response, Receiving, Alive
    <2>6. CASE Destroy
      BY <2>6 DEF Destroy, Alive
    <2>7. QED
      BY <1>7, <2>1, <2>2, <2>3, <2>4, <2>5, <2>6 DEF Environment, Stopping
  <1>8. CASE UNCHANGED vars
    BY <1>8 DEF vars
  <1>9. QED
    BY <1>5, <1>6, <1>7, <1>8 DEF Next

-----------------------------------------------------------------------------
(* What one step does to a call, to the writes, to the map and to what     *)
(* callbacks are told.                                                     *)

\* A call that returned 0 keeps its id and its transport; a call gets an async
\* handle when it returns 0; the peer sees what comes from an async handle.
LEMMA CallStep ==
    ASSUME Typed, Placed, [Next]_vars
    PROVE  /\ \A c \in Calls : pc[c] = "ok" =>
                 pc'[c] = "ok" /\ id'[c] = id[c] /\ req_tp'[c] = req_tp[c]
           /\ \A c \in Calls : pc'[c] = "ok" => pc[c] = "ok" \/ c \in async'
           /\ \A c \in async' : c \in async \/ (pc[c] = "send" /\ pc'[c] = "ok")
           /\ \A r \in wire' : r \in wire \/ r \in async
           /\ \A c \in Calls : pc'[c] \in {"send", "ok"} => req_tp'[c] # NULL
  <1> DEFINE Call ==
        /\ \A c \in Calls : pc[c] = "ok" =>
              pc'[c] = "ok" /\ id'[c] = id[c] /\ req_tp'[c] = req_tp[c]
        /\ \A c \in Calls : pc'[c] = "ok" => pc[c] = "ok" \/ c \in async'
        /\ \A c \in async' : c \in async \/ (pc[c] = "send" /\ pc'[c] = "ok")
        /\ \A r \in wire' : r \in wire \/ r \in async
        /\ \A c \in Calls : pc'[c] \in {"send", "ok"} => req_tp'[c] # NULL
  <1>1. /\ pc \in [Calls -> {"none", "store", "load", "send", "ok", "error"}]
        /\ id \in [Calls -> Ids] /\ req_tp \in [Calls -> Conns \cup {NULL}]
        /\ Reqs \subseteq Calls /\ async \subseteq Calls
    BY DEF Typed, TypeOK, Calls
  <1>2. \A c \in Calls : pc[c] \in {"send", "ok"} => req_tp[c] # NULL
    BY DEF Placed
  <1> USE <1>1, <1>2 DEF conn, stops, caller, net
  <1>3. CASE CallerStep
    <2>1. ASSUME NEW c \in Calls, Begin(c) PROVE Call
      BY <2>1 DEF Begin, Alive, Goes
    <2>2. ASSUME NEW r \in Reqs, StoreCounter(r) PROVE Call
      BY <2>2 DEF StoreCounter, Alive, Goes
    <2>3. ASSUME NEW c \in Calls, LoadTransport(c) PROVE Call
      BY <2>3 DEF LoadTransport, Alive, Goes
    <2>4. ASSUME NEW c \in Calls, SendAsync(c) PROVE Call
      BY <2>4 DEF SendAsync, Alive, Goes
    <2>5. QED
      BY <1>3, <2>1, <2>2, <2>3, <2>4 DEF CallerStep
  <1>4. CASE WorkerStep
    <2>1. ASSUME NEW c \in Calls, AsyncFreed(c) PROVE Call
      BY <2>1 DEF AsyncFreed, InLoop, Alive
    <2>2. ASSUME NEW c \in Calls, AsyncClosed(c) PROVE Call
      BY <2>2 DEF AsyncClosed, InLoop, Alive
    <2>3. ASSUME NEW c \in Calls, AsyncError(c) PROVE Call
      BY <2>3 DEF AsyncError, InLoop, Alive
    <2>4. ASSUME NEW c \in Calls, WriteNotify(c) PROVE Call
      BY <2>4 DEF WriteNotify, InLoop, Alive
    <2>5. ASSUME NEW r \in Reqs, WriteRequest(r) PROVE Call
      BY <2>5 DEF WriteRequest, InLoop, Alive
    <2>6. CASE WriteDone
      BY <2>6 DEF WriteDone, InLoop, Alive
    <2>7. CASE WriteFailed
      BY <2>7 DEF WriteFailed, InLoop, Alive
    <2>8. CASE WriteCancelled
      BY <2>8 DEF WriteCancelled, InLoop, Alive
    <2>9. ASSUME NEW c \in Conns, TransportFreed(c) PROVE Call
      BY <2>9 DEF TransportFreed, InLoop, Alive
    <2>10. CASE FeedReturns
      BY <2>10 DEF FeedReturns, Alive
    <2>11. CASE CloseUnconnected
      BY <2>11 DEF CloseUnconnected, InLoop, Alive
    <2>12. CASE LoopExit
      BY <2>12 DEF LoopExit, InLoop, Alive
    <2>13. QED
      BY <1>4, <2>1, <2>2, <2>3, <2>4, <2>5, <2>6, <2>7, <2>8, <2>9, <2>10,
         <2>11, <2>12 DEF WorkerStep
  <1>5. CASE Environment
    <2>1. CASE Stopping
      BY <2>1, StopIs
    <2>2. CASE Disconnect
      BY <2>2 DEF Disconnect, Alive
    <2>3. ASSUME NEW c \in Conns, Reconnect(c) PROVE Call
      BY <2>3 DEF Reconnect, InLoop, Alive
    <2>4. CASE HandshakeDone
      BY <2>4 DEF HandshakeDone, InLoop, Alive
    <2>5. ASSUME NEW r \in Reqs, Response(r) PROVE Call
      BY <2>5 DEF Response, Receiving, Alive
    <2>6. CASE Destroy
      BY <2>6 DEF Destroy, Alive
    <2>7. QED
      BY <1>5, <2>1, <2>2, <2>3, <2>4, <2>5, <2>6 DEF Environment, Stopping
  <1>6. CASE UNCHANGED vars
    BY <1>6 DEF vars
  <1>7. QED
    BY <1>3, <1>4, <1>5, <1>6 DEF Next

\* The queue of writes: a call whose async handle is handled is put at its
\* end, or the write at its head is called back, and a notify is then told.
LEMMA QueueStep ==
    ASSUME Typed, [Next]_vars
    PROVE  \/ writes' = writes
           \/ \E c \in async : /\ writes' = Append(writes, c)
                               /\ async' = async \ {c}
           \/ /\ writes # <<>> /\ writes' = Tail(writes) /\ async' = async
              /\ Head(writes) \in Notes => told'[Head(writes)] # <<>>
  <1> DEFINE Queue ==
        \/ writes' = writes
        \/ \E c \in async : /\ writes' = Append(writes, c)
                            /\ async' = async \ {c}
        \/ /\ writes # <<>> /\ writes' = Tail(writes) /\ async' = async
           /\ Head(writes) \in Notes => told'[Head(writes)] # <<>>
  <1>1. told \in [Calls -> Seq(Results)] /\ writes \in Seq(Calls)
    BY DEF Typed
  <1> USE DEF conn, stops, caller, net
  <1>2. CASE CallerStep
    <2>1. ASSUME NEW c \in Calls, Begin(c) PROVE Queue
      BY <2>1 DEF Begin, Alive, Goes
    <2>2. ASSUME NEW r \in Reqs, StoreCounter(r) PROVE Queue
      BY <2>2 DEF StoreCounter, Alive, Goes
    <2>3. ASSUME NEW c \in Calls, LoadTransport(c) PROVE Queue
      BY <2>3 DEF LoadTransport, Alive, Goes
    <2>4. ASSUME NEW c \in Calls, SendAsync(c) PROVE Queue
      BY <2>4 DEF SendAsync, Alive, Goes
    <2>5. QED
      BY <1>2, <2>1, <2>2, <2>3, <2>4 DEF CallerStep
  <1>3. CASE WorkerStep
    <2>1. ASSUME NEW c \in Calls, AsyncFreed(c) PROVE Queue
      BY <2>1 DEF AsyncFreed, InLoop, Alive
    <2>2. ASSUME NEW c \in Calls, AsyncClosed(c) PROVE Queue
      BY <2>2 DEF AsyncClosed, InLoop, Alive
    <2>3. ASSUME NEW c \in Calls, AsyncError(c) PROVE Queue
      BY <2>3 DEF AsyncError, InLoop, Alive
    <2>4. ASSUME NEW c \in Calls, WriteNotify(c) PROVE Queue
      BY <2>4 DEF WriteNotify, InLoop, Alive
    <2>5. ASSUME NEW r \in Reqs, WriteRequest(r) PROVE Queue
      BY <2>5 DEF WriteRequest, InLoop, Alive
    <2>6. CASE WriteDone
      BY <2>6, <1>1, TellIs, TailIs, ResultsAre DEF WriteDone
    <2>7. CASE WriteFailed
      BY <2>7, <1>1, TellIs, TailIs, ResultsAre DEF WriteFailed
    <2>8. CASE WriteCancelled
      BY <2>8, <1>1, TellIs, TailIs, ResultsAre DEF WriteCancelled
    <2>9. ASSUME NEW c \in Conns, TransportFreed(c) PROVE Queue
      BY <2>9 DEF TransportFreed, InLoop, Alive
    <2>10. CASE FeedReturns
      BY <2>10 DEF FeedReturns, Alive
    <2>11. CASE CloseUnconnected
      BY <2>11 DEF CloseUnconnected, InLoop, Alive
    <2>12. CASE LoopExit
      BY <2>12 DEF LoopExit, InLoop, Alive
    <2>13. QED
      BY <1>3, <2>1, <2>2, <2>3, <2>4, <2>5, <2>6, <2>7, <2>8, <2>9, <2>10,
         <2>11, <2>12 DEF WorkerStep
  <1>4. CASE Environment
    <2>1. CASE Stopping
      BY <2>1, StopIs
    <2>2. CASE Disconnect
      BY <2>2 DEF Disconnect, Alive
    <2>3. ASSUME NEW c \in Conns, Reconnect(c) PROVE Queue
      BY <2>3 DEF Reconnect, InLoop, Alive
    <2>4. CASE HandshakeDone
      BY <2>4 DEF HandshakeDone, InLoop, Alive
    <2>5. ASSUME NEW r \in Reqs, Response(r) PROVE Queue
      BY <2>5 DEF Response, Receiving, Alive
    <2>6. CASE Destroy
      BY <2>6 DEF Destroy, Alive
    <2>7. QED
      BY <1>4, <2>1, <2>2, <2>3, <2>4, <2>5, <2>6 DEF Environment, Stopping
  <1>5. CASE UNCHANGED vars
    BY <1>5 DEF vars
  <1>6. QED
    BY <1>2, <1>3, <1>4, <1>5 DEF Next

\* The transports: one in use at a time, none when the client is closed.
LEMMA ConnectedNext ==
    ASSUME Typed, Placed, Connected, [Next]_vars
    PROVE  Connected'
  <1>1. /\ transport \in Conns \cup {NULL} /\ Conns = 1 .. MaxConns /\ NULL = 0
        /\ tp \in [Conns -> {"none", "WORKING", "CLOSED", "freed"}]
        /\ req_tp \in [Calls -> Conns \cup {NULL}] /\ MaxConns \in Nat
        /\ async \subseteq Calls /\ feeding \in BOOLEAN
        /\ worker \in {"loop", "done", "freed", "cut"} /\ writes \in Seq(Calls)
    BY RequestsAssumption DEF Typed, TypeOK, Conns, NULL
  <1>2. \A c \in Calls : pc[c] = "send" => req_tp[c] \in Conns
    BY <1>1 DEF Placed
  <1>3. Connected
    OBVIOUS
  <1>4. ASSUME worker = "loop", worker' = worker, transport # NULL,
               transport' = NULL, tp' = [tp EXCEPT ![transport] = "CLOSED"],
               state' = "CLOSED" => handles' = "closed"
        PROVE  Connected'
    <2>1. \A d \in Conns : tp'[d] = IF d = transport THEN "CLOSED" ELSE tp[d]
      BY <1>1, <1>4
    <2>2. \A d \in Conns : tp'[d] = "WORKING" => transport' = d
      BY <1>1, <1>3, <1>4, <2>1 DEF Connected
    <2>3. \A d, e \in Conns : e < d /\ tp'[e] = "none" => tp'[d] = "none"
      BY <1>1, <1>3, <1>4, <2>1 DEF Connected
    <2>4. QED
      BY <1>4, <2>2, <2>3 DEF Connected
  <1> USE <1>1, <1>2, <1>3 DEF Connected, conn, stops, caller, net
  <1>5. CASE CallerStep
    <2>1. ASSUME NEW c \in Calls, Begin(c) PROVE Connected'
      BY <2>1 DEF Begin, Alive, Goes
    <2>2. ASSUME NEW r \in Reqs, StoreCounter(r) PROVE Connected'
      BY <2>2 DEF StoreCounter, Alive, Goes
    <2>3. ASSUME NEW c \in Calls, LoadTransport(c) PROVE Connected'
      BY <2>3 DEF LoadTransport, Alive, Goes
    <2>4. ASSUME NEW c \in Calls, SendAsync(c) PROVE Connected'
      BY <2>4 DEF SendAsync, Alive, Goes
    <2>5. QED
      BY <1>5, <2>1, <2>2, <2>3, <2>4 DEF CallerStep
  <1>6. CASE WorkerStep
    <2>1. ASSUME NEW c \in Calls, AsyncFreed(c) PROVE Connected'
      BY <2>1 DEF AsyncFreed, InLoop, Alive
    <2>2. ASSUME NEW c \in Calls, AsyncClosed(c) PROVE Connected'
      BY <2>2 DEF AsyncClosed, InLoop, Alive
    <2>3. ASSUME NEW c \in Calls, AsyncError(c) PROVE Connected'
      BY <2>3 DEF AsyncError, InLoop, Alive
    <2>4. ASSUME NEW c \in Calls, WriteNotify(c) PROVE Connected'
      BY <2>4 DEF WriteNotify, InLoop, Alive
    <2>5. ASSUME NEW r \in Reqs, WriteRequest(r) PROVE Connected'
      BY <2>5 DEF WriteRequest, InLoop, Alive
    <2>6. CASE WriteDone
      BY <2>6 DEF WriteDone, InLoop, Alive
    <2>7. CASE WriteFailed
      BY <2>7 DEF WriteFailed, InLoop, Alive
    <2>8. CASE WriteCancelled
      BY <2>8 DEF WriteCancelled, InLoop, Alive
    <2>9. ASSUME NEW c \in Conns, TransportFreed(c) PROVE Connected'
      BY <2>9 DEF TransportFreed, InLoop, Alive
    <2>10. CASE FeedReturns
      BY <2>10 DEF FeedReturns, Alive
    <2>11. CASE CloseUnconnected
      BY <2>11 DEF CloseUnconnected, InLoop, Alive
    <2>12. CASE LoopExit
      BY <2>12 DEF LoopExit, InLoop, Alive
    <2>13. QED
      BY <1>6, <2>1, <2>2, <2>3, <2>4, <2>5, <2>6, <2>7, <2>8, <2>9, <2>10,
         <2>11, <2>12 DEF WorkerStep
  <1>7. CASE Environment
    <2>1. CASE Stopping
      BY <2>1, <1>4, StopIs DEF Reset, Close, DestroyTransport
    <2>2. CASE Disconnect
      BY <2>2 DEF Disconnect, Alive
    <2>3. ASSUME NEW c \in Conns, Reconnect(c) PROVE Connected'
      BY <2>3 DEF Reconnect, InLoop, Alive
    <2>4. CASE HandshakeDone
      BY <2>4 DEF HandshakeDone, InLoop, Alive
    <2>5. ASSUME NEW r \in Reqs, Response(r) PROVE Connected'
      BY <2>5 DEF Response, Receiving, Alive
    <2>6. CASE Destroy
      BY <2>6 DEF Destroy, Alive
    <2>7. QED
      BY <1>7, <2>1, <2>2, <2>3, <2>4, <2>5, <2>6 DEF Environment, Stopping
  <1>8. CASE UNCHANGED vars
    BY <1>8 DEF vars
  <1>9. QED
    BY <1>5, <1>6, <1>7, <1>8 DEF Next

\* pc_client_destroy has freed the client.
Gone == worker \in {"freed", "cut"}

\* What a step does to the connection: a closed client stays closed or is
\* reset, a transport is never taken back into use, a fault is not undone; what
\* is lost without closing the client is lost by a reset, and the next
\* connection starts where that reset left the client.
LEMMA ConnectionStep ==
    ASSUME Typed, Connected, [Next]_vars
    PROVE  /\ state = "CLOSED" => state' = "CLOSED" \/ requests' = pc_map_init
           /\ \A d \in Conns : tp[d] \in {"CLOSED", "freed"} =>
                 tp'[d] \in {"CLOSED", "freed"}
           /\ fault' = "none" => fault = "none"
           /\ transport # NULL /\ transport' = NULL /\ state' # "CLOSED"
                 => requests' = pc_map_init
           /\ ~Gone /\ Gone' => requests' = pc_map_init
           /\ Gone => Gone' /\ requests' = requests
           /\ feeding' \/ transport' # NULL =>
                 \/ feeding \/ transport # NULL
                 \/ transport = NULL /\ state # "CLOSED" /\ requests' = requests
  <1> DEFINE Step ==
        /\ state = "CLOSED" => state' = "CLOSED" \/ requests' = pc_map_init
        /\ \A d \in Conns : tp[d] \in {"CLOSED", "freed"} =>
              tp'[d] \in {"CLOSED", "freed"}
        /\ fault' = "none" => fault = "none"
        /\ transport # NULL /\ transport' = NULL /\ state' # "CLOSED"
              => requests' = pc_map_init
        /\ ~Gone /\ Gone' => requests' = pc_map_init
        /\ Gone => Gone' /\ requests' = requests
        /\ feeding' \/ transport' # NULL =>
              \/ feeding \/ transport # NULL
              \/ transport = NULL /\ state # "CLOSED" /\ requests' = requests
  <1>1. /\ transport \in Conns \cup {NULL} /\ NULL \notin Conns
        /\ tp \in [Conns -> {"none", "WORKING", "CLOSED", "freed"}]
        /\ feeding \in BOOLEAN
    BY RequestsAssumption DEF Typed, TypeOK, Conns, NULL
  <1>2. state = "CLOSED" => transport = NULL /\ handles = "closed"
    BY DEF Connected
  <1> USE <1>1, <1>2 DEF Gone, conn, stops, caller, net
  <1>3. CASE CallerStep
    <2>1. ASSUME NEW c \in Calls, Begin(c) PROVE Step
      BY <2>1 DEF Begin, Alive, Goes
    <2>2. ASSUME NEW r \in Reqs, StoreCounter(r) PROVE Step
      BY <2>2 DEF StoreCounter, Alive, Goes
    <2>3. ASSUME NEW c \in Calls, LoadTransport(c) PROVE Step
      BY <2>3 DEF LoadTransport, Alive, Goes
    <2>4. ASSUME NEW c \in Calls, SendAsync(c) PROVE Step
      BY <2>4 DEF SendAsync, Alive, Goes
    <2>5. QED
      BY <1>3, <2>1, <2>2, <2>3, <2>4 DEF CallerStep
  <1>4. CASE WorkerStep
    <2>1. ASSUME NEW c \in Calls, AsyncFreed(c) PROVE Step
      BY <2>1 DEF AsyncFreed, InLoop, Alive
    <2>2. ASSUME NEW c \in Calls, AsyncClosed(c) PROVE Step
      BY <2>2 DEF AsyncClosed, InLoop, Alive
    <2>3. ASSUME NEW c \in Calls, AsyncError(c) PROVE Step
      BY <2>3 DEF AsyncError, InLoop, Alive
    <2>4. ASSUME NEW c \in Calls, WriteNotify(c) PROVE Step
      BY <2>4 DEF WriteNotify, InLoop, Alive
    <2>5. ASSUME NEW r \in Reqs, WriteRequest(r) PROVE Step
      BY <2>5 DEF WriteRequest, InLoop, Alive
    <2>6. CASE WriteDone
      BY <2>6 DEF WriteDone, InLoop, Alive
    <2>7. CASE WriteFailed
      BY <2>7 DEF WriteFailed, InLoop, Alive
    <2>8. CASE WriteCancelled
      BY <2>8 DEF WriteCancelled, InLoop, Alive
    <2>9. ASSUME NEW c \in Conns, TransportFreed(c) PROVE Step
      BY <2>9 DEF TransportFreed, InLoop, Alive
    <2>10. CASE FeedReturns
      BY <2>10 DEF FeedReturns, Alive
    <2>11. CASE CloseUnconnected
      BY <2>11 DEF CloseUnconnected, InLoop, Alive
    <2>12. CASE LoopExit
      BY <2>12 DEF LoopExit, InLoop, Alive
    <2>13. QED
      BY <1>4, <2>1, <2>2, <2>3, <2>4, <2>5, <2>6, <2>7, <2>8, <2>9, <2>10,
         <2>11, <2>12 DEF WorkerStep
  <1>5. CASE Environment
    <2>1. CASE Stopping
      <3>1. ASSUME NEW infeed \in BOOLEAN, Reset(infeed) PROVE Step
        BY <2>1, <3>1, StopIs DEF Reset, DestroyTransport
      <3>2. ASSUME NEW infeed \in BOOLEAN, Close(infeed) PROVE Step
        BY <2>1, <3>2, StopIs DEF Close, DestroyTransport
      <3>3. CASE UNCHANGED <<state, stops, transport, tp, feeding, requests, told>>
        BY <2>1, <3>3, StopIs
      <3>4. QED
        BY <2>1, <3>1, <3>2, <3>3, StopIs
    <2>2. CASE Disconnect
      BY <2>2 DEF Disconnect, Alive
    <2>3. ASSUME NEW c \in Conns, Reconnect(c) PROVE Step
      BY <2>3 DEF Reconnect, InLoop, Alive
    <2>4. CASE HandshakeDone
      BY <2>4 DEF HandshakeDone, InLoop, Alive
    <2>5. ASSUME NEW r \in Reqs, Response(r) PROVE Step
      BY <2>5 DEF Response, Receiving, Alive
    <2>6. CASE Destroy
      BY <2>6 DEF Destroy, Alive
    <2>7. QED
      BY <1>5, <2>1, <2>2, <2>3, <2>4, <2>5, <2>6 DEF Environment, Stopping
  <1>6. CASE UNCHANGED vars
    BY <1>6 DEF vars
  <1>7. QED
    BY <1>3, <1>4, <1>5, <1>6 DEF Next

\* A request enters the map under its id, from an async handle, and only while
\* there is a connection.
LEMMA MapGains ==
    ASSUME Typed, Placed, Connected, [Next]_vars
    PROVE  \A k \in Keys : \A v : Has(requests', k, v) =>
              \/ Has(requests, k, v)
              \/ /\ v \in async \cap Reqs /\ v \notin async' /\ k = id[v]
                 /\ transport # NULL /\ transport' = transport
                 /\ worker = "loop" /\ worker' = worker
  <1> DEFINE Gain ==
        \A k \in Keys : \A v : Has(requests', k, v) =>
           \/ Has(requests, k, v)
           \/ /\ v \in async \cap Reqs /\ v \notin async' /\ k = id[v]
              /\ transport # NULL /\ transport' = transport
              /\ worker = "loop" /\ worker' = worker
  <1>1. /\ req_tp \in [Calls -> Conns \cup {NULL}] /\ NULL \notin Conns
        /\ async \subseteq Calls /\ writes \in Seq(Calls)
        /\ \A c \in Calls : id[c] \in Keys
        /\ WellFormed(requests, Reqs)
    BY RequestsAssumption DEF Typed, TypeOK, Conns, NULL, Ids
  <1> USE DEF conn, stops, caller, net
  <1>2. CASE CallerStep
    <2>1. ASSUME NEW c \in Calls, Begin(c) PROVE Gain
      BY <2>1 DEF Begin
    <2>2. ASSUME NEW r \in Reqs, StoreCounter(r) PROVE Gain
      BY <2>2 DEF StoreCounter
    <2>3. ASSUME NEW c \in Calls, LoadTransport(c) PROVE Gain
      BY <2>3 DEF LoadTransport
    <2>4. ASSUME NEW c \in Calls, SendAsync(c) PROVE Gain
      BY <2>4 DEF SendAsync
    <2>5. QED
      BY <1>2, <2>1, <2>2, <2>3, <2>4 DEF CallerStep
  <1>3. CASE WorkerStep
    <2>1. ASSUME NEW c \in Calls, AsyncFreed(c) PROVE Gain
      BY <2>1 DEF AsyncFreed
    <2>2. ASSUME NEW c \in Calls, AsyncClosed(c) PROVE Gain
      BY <2>2 DEF AsyncClosed
    <2>3. ASSUME NEW c \in Calls, AsyncError(c) PROVE Gain
      BY <2>3 DEF AsyncError
    <2>4. ASSUME NEW c \in Calls, WriteNotify(c) PROVE Gain
      BY <2>4 DEF WriteNotify
    <2>5. ASSUME NEW r \in Reqs, WriteRequest(r) PROVE Gain
      <3>1. tp[req_tp[r]] = "WORKING" /\ req_tp[r] \in Conns
        BY <2>5, <1>1 DEF WriteRequest, Calls, Placed
      <3>2. transport # NULL /\ transport' = transport
        BY <2>5, <1>1, <3>1 DEF WriteRequest, Connected
      <3>3. CASE requests' = requests
        BY <3>3
      <3>4. CASE requests' = pc_map_set(requests, id[r], r)
        <4>1. \A k \in Keys : \A v : Has(requests', k, v) <=>
                 IF k = id[r] THEN v = r ELSE Has(requests, k, v)
          BY <1>1, <3>4, SetHas DEF Calls
        <4>2. r \in async \cap Reqs /\ r \notin async' /\ worker = "loop"
                /\ worker' = worker
          BY <2>5 DEF WriteRequest, InLoop
        <4>3. QED
          BY <3>2, <4>1, <4>2
      <3>5. QED
        BY <2>5, <3>3, <3>4 DEF WriteRequest
    <2>6. CASE WriteDone
      BY <2>6 DEF WriteDone
    <2>7. CASE WriteFailed
      <3>1. Head(writes) \in Calls
        BY <2>7, <1>1, TailIs DEF WriteFailed
      <3>2. QED
        BY <2>7, <1>1, <3>1, DelHas DEF WriteFailed
    <2>8. CASE WriteCancelled
      BY <2>8 DEF WriteCancelled
    <2>9. ASSUME NEW c \in Conns, TransportFreed(c) PROVE Gain
      BY <2>9 DEF TransportFreed
    <2>10. CASE FeedReturns
      BY <2>10 DEF FeedReturns
    <2>11. CASE CloseUnconnected
      BY <2>11 DEF CloseUnconnected
    <2>12. CASE LoopExit
      BY <2>12 DEF LoopExit
    <2>13. QED
      BY <1>3, <2>1, <2>2, <2>3, <2>4, <2>5, <2>6, <2>7, <2>8, <2>9, <2>10,
         <2>11, <2>12 DEF WorkerStep
  <1>4. CASE Environment
    <2>1. CASE Stopping
      BY <2>1, StopIs, InitHasNone DEF Reset, Close
    <2>2. CASE Disconnect
      BY <2>2 DEF Disconnect
    <2>3. ASSUME NEW c \in Conns, Reconnect(c) PROVE Gain
      BY <2>3 DEF Reconnect
    <2>4. CASE HandshakeDone
      BY <2>4 DEF HandshakeDone
    <2>5. ASSUME NEW r \in Reqs, Response(r) PROVE Gain
      BY <2>5, <1>1, DelHas DEF Response, Calls
    <2>6. CASE Destroy
      BY <2>6, InitHasNone DEF Destroy
    <2>7. QED
      BY <1>4, <2>1, <2>2, <2>3, <2>4, <2>5, <2>6 DEF Environment, Stopping
  <1>5. CASE UNCHANGED vars
    BY <1>5 DEF vars
  <1>6. QED
    BY <1>2, <1>3, <1>4, <1>5 DEF Next

\* A request leaves the map only when it is told, or when the write of another
\* request with its id fails.
LEMMA MapLoses ==
    ASSUME Typed, Queued, [Next]_vars
    PROVE  \A k \in Keys : \A v \in Reqs :
              Has(requests, k, v) /\ ~Has(requests', k, v) =>
                 \/ told'[v] # <<>>
                 \/ \E s \in Reqs \ {v} : pc[s] = "ok" /\ id[s] = k
  <1> DEFINE Loss ==
        \A k \in Keys : \A v \in Reqs :
           Has(requests, k, v) /\ ~Has(requests', k, v) =>
              \/ told'[v] # <<>>
              \/ \E s \in Reqs \ {v} : pc[s] = "ok" /\ id[s] = k
  <1>1. /\ told \in [Calls -> Seq(Results)] /\ writes \in Seq(Calls)
        /\ \A c \in Calls : id[c] \in Keys
        /\ WellFormed(requests, Reqs)
    BY RequestsAssumption DEF Typed, TypeOK, Ids
  <1>2. ASSUME Tell(Values(requests), <<"err">>) PROVE Loss
    <2>1. \A k \in Keys : \A v \in Reqs :
             Has(requests, k, v) => v \in Values(requests)
      BY <1>1, ValuesAreHad
    <2>2. \A v \in Calls : v \in Values(requests) => told'[v] # <<>>
      BY <1>1, <1>2, TellIs, ResultsAre
    <2>3. QED
      BY <2>1, <2>2 DEF Calls
  <1> USE DEF conn, stops, caller, net
  <1>3. CASE CallerStep
    <2>1. ASSUME NEW c \in Calls, Begin(c) PROVE Loss
      BY <2>1 DEF Begin
    <2>2. ASSUME NEW r \in Reqs, StoreCounter(r) PROVE Loss
      BY <2>2 DEF StoreCounter
    <2>3. ASSUME NEW c \in Calls, LoadTransport(c) PROVE Loss
      BY <2>3 DEF LoadTransport
    <2>4. ASSUME NEW c \in Calls, SendAsync(c) PROVE Loss
      BY <2>4 DEF SendAsync
    <2>5. QED
      BY <1>3, <2>1, <2>2, <2>3, <2>4 DEF CallerStep
  <1>4. CASE WorkerStep
    <2>1. ASSUME NEW c \in Calls, AsyncFreed(c) PROVE Loss
      BY <2>1 DEF AsyncFreed
    <2>2. ASSUME NEW c \in Calls, AsyncClosed(c) PROVE Loss
      BY <2>2 DEF AsyncClosed
    <2>3. ASSUME NEW c \in Calls, AsyncError(c) PROVE Loss
      BY <2>3 DEF AsyncError
    <2>4. ASSUME NEW c \in Calls, WriteNotify(c) PROVE Loss
      BY <2>4 DEF WriteNotify
    <2>5. ASSUME NEW r \in Reqs, WriteRequest(r) PROVE Loss
      <3>1. CASE requests' = requests
        BY <3>1
      <3>2. CASE requests' # requests
        <4>1. /\ requests' = pc_map_set(requests, id[r], r)
              /\ Tell(IF Found(requests, id[r])
                      THEN {pc_map_get(requests, id[r])} ELSE {}, <<"err">>)
          BY <2>5, <3>2 DEF WriteRequest
        <4>2. \A k \in Keys : \A v : Has(requests', k, v) <=>
                 IF k = id[r] THEN v = r ELSE Has(requests, k, v)
          BY <1>1, <4>1, SetHas DEF Calls
        <4>3. ASSUME NEW k \in Keys, NEW v \in Reqs, Has(requests, k, v),
                     ~Has(requests', k, v)
              PROVE  told'[v] # <<>>
          <5>1. k = id[r]
            BY <4>2, <4>3
          <5>2. Found(requests, id[r])
            BY <4>3, <5>1, FoundIsHas
          <5>3. Has(requests, id[r], pc_map_get(requests, id[r]))
            BY <1>1, <4>3, <5>1, <5>2, GetIsHas
          <5>4. pc_map_get(requests, id[r]) = v
            BY <1>1, <4>3, <5>1, <5>3, HasOne
          <5>5. QED
            BY <1>1, <4>1, <5>2, <5>4, TellIs, ResultsAre DEF Calls
        <4>4. QED
          BY <4>3
      <3>3. QED
        BY <3>1, <3>2
    <2>6. CASE WriteDone
      BY <2>6 DEF WriteDone
    <2>7. CASE WriteFailed
      <3> DEFINE c == Head(writes)
      <3>1. c \in Calls /\ c = writes[1] /\ 1 \in DOMAIN writes
        BY <2>7, <1>1, TailIs DEF WriteFailed
      <3>2. told'[c] # <<>> /\ pc[c] = "ok"
        BY <2>7, <1>1, <3>1, TellIs, ResultsAre DEF WriteFailed, Queued
      <3>3. CASE c \in Reqs
        <4>1. \A k \in Keys : \A v : Has(requests', k, v) <=>
                 k # id[c] /\ Has(requests, k, v)
          BY <2>7, <1>1, <3>1, <3>3, DelHas DEF WriteFailed
        <4>2. QED
          BY <3>2, <3>3, <4>1
      <3>4. CASE c \notin Reqs
        BY <2>7, <3>4 DEF WriteFailed
      <3>5. QED
        BY <3>3, <3>4
    <2>8. CASE WriteCancelled
      BY <2>8 DEF WriteCancelled
    <2>9. ASSUME NEW c \in Conns, TransportFreed(c) PROVE Loss
      BY <2>9 DEF TransportFreed
    <2>10. CASE FeedReturns
      BY <2>10 DEF FeedReturns
    <2>11. CASE CloseUnconnected
      BY <2>11 DEF CloseUnconnected
    <2>12. CASE LoopExit
      BY <2>12 DEF LoopExit
    <2>13. QED
      BY <1>4, <2>1, <2>2, <2>3, <2>4, <2>5, <2>6, <2>7, <2>8, <2>9, <2>10,
         <2>11, <2>12 DEF WorkerStep
  <1>5. CASE Environment
    <2>1. CASE Stopping
      BY <2>1, <1>2, StopIs DEF Reset, Close
    <2>2. CASE Disconnect
      BY <2>2 DEF Disconnect
    <2>3. ASSUME NEW c \in Conns, Reconnect(c) PROVE Loss
      BY <2>3 DEF Reconnect
    <2>4. CASE HandshakeDone
      BY <2>4 DEF HandshakeDone
    <2>5. ASSUME NEW r \in Reqs, Response(r) PROVE Loss
      <3>1. id[r] \in Keys /\ Found(requests, id[r])
        BY <2>5, <1>1 DEF Response, Calls
      <3>2. /\ Has(requests, id[r], pc_map_get(requests, id[r]))
            /\ pc_map_get(requests, id[r]) \in Reqs
        BY <1>1, <3>1, GetIsHas
      <3>3. told'[pc_map_get(requests, id[r])] # <<>>
        BY <2>5, <1>1, <3>2, TellIs, ResultsAre DEF Response, Calls
      <3>4. \A k \in Keys : \A v : Has(requests', k, v) <=>
               k # id[r] /\ Has(requests, k, v)
        BY <2>5, <1>1, <3>1, DelHas DEF Response
      <3>5. \A v : Has(requests, id[r], v) =>
               v = pc_map_get(requests, id[r])
        BY <1>1, <3>1, <3>2, HasOne
      <3>6. QED
        BY <3>3, <3>4, <3>5
    <2>6. CASE Destroy
      BY <2>6, <1>2 DEF Destroy
    <2>7. QED
      BY <1>5, <2>1, <2>2, <2>3, <2>4, <2>5, <2>6 DEF Environment, Stopping
  <1>6. CASE UNCHANGED vars
    BY <1>6 DEF vars
  <1>7. QED
    BY <1>3, <1>4, <1>5, <1>6 DEF Next

\* A call whose async handle is handled is told, or is being written; a
\* request is then in the map under its id, unless the set never returned.
LEMMA HandleStep ==
    ASSUME Typed, [Next]_vars
    PROVE  \A c \in async : c \notin async' =>
              \/ told'[c] # <<>>
              \/ /\ \E i \in DOMAIN writes' : writes'[i] = c
                 /\ c \in Reqs => fault' # "none" \/ Has(requests', id[c], c)
  <1> DEFINE Handle ==
        \A c \in async : c \notin async' =>
           \/ told'[c] # <<>>
           \/ /\ \E i \in DOMAIN writes' : writes'[i] = c
              /\ c \in Reqs => fault' # "none" \/ Has(requests', id[c], c)
  <1>1. /\ told \in [Calls -> Seq(Results)] /\ writes \in Seq(Calls)
        /\ \A c \in Calls : id[c] \in Keys
        /\ WellFormed(requests, Reqs) /\ Reqs \cap Notes = {}
    BY RequestsAssumption DEF Typed, TypeOK, Ids
  <1> USE DEF conn, stops, caller, net
  <1>2. CASE CallerStep
    <2>1. ASSUME NEW c \in Calls, Begin(c) PROVE Handle
      BY <2>1 DEF Begin
    <2>2. ASSUME NEW r \in Reqs, StoreCounter(r) PROVE Handle
      BY <2>2 DEF StoreCounter
    <2>3. ASSUME NEW c \in Calls, LoadTransport(c) PROVE Handle
      BY <2>3 DEF LoadTransport
    <2>4. ASSUME NEW c \in Calls, SendAsync(c) PROVE Handle
      BY <2>4 DEF SendAsync
    <2>5. QED
      BY <1>2, <2>1, <2>2, <2>3, <2>4 DEF CallerStep
  <1>3. CASE WorkerStep
    <2>1. ASSUME NEW c \in Calls, AsyncFreed(c) PROVE Handle
      BY <2>1 DEF AsyncFreed
    <2>2. ASSUME NEW c \in Calls, AsyncClosed(c) PROVE Handle
      BY <2>2, <1>1, TellIs, ResultsAre DEF AsyncClosed
    <2>3. ASSUME NEW c \in Calls, AsyncError(c) PROVE Handle
      BY <2>3, <1>1, TellIs, ResultsAre DEF AsyncError
    <2>4. ASSUME NEW c \in Calls, WriteNotify(c) PROVE Handle
      <3>1. \E i \in DOMAIN writes' : writes'[i] = c
        <4>1. Len(writes) + 1 \in DOMAIN writes' /\ writes'[Len(writes) + 1] = c
          BY <2>4, <1>1, AppendIs DEF WriteNotify
        <4>2. QED
          BY <4>1
      <3>2. QED
        BY <2>4, <1>1, <3>1 DEF WriteNotify
    <2>5. ASSUME NEW r \in Reqs, WriteRequest(r) PROVE Handle
      <3>1. \E i \in DOMAIN writes' : writes'[i] = r
        <4>1. Len(writes) + 1 \in DOMAIN writes' /\ writes'[Len(writes) + 1] = r
          BY <2>5, <1>1, AppendIs DEF WriteRequest, Calls
        <4>2. QED
          BY <4>1
      <3>2. CASE fault' # "none"
        BY <2>5, <3>1, <3>2 DEF WriteRequest
      <3>3. CASE fault' = "none"
        <4>1. requests' = pc_map_set(requests, id[r], r)
          BY <2>5, <3>3 DEF WriteRequest
        <4>2. Has(requests', id[r], r)
          BY <1>1, <4>1, SetHas DEF Calls
        <4>3. QED
          BY <2>5, <3>1, <4>2 DEF WriteRequest
      <3>4. QED
        BY <3>2, <3>3
    <2>6. CASE WriteDone
      BY <2>6 DEF WriteDone
    <2>7. CASE WriteFailed
      BY <2>7 DEF WriteFailed
    <2>8. CASE WriteCancelled
      BY <2>8 DEF WriteCancelled
    <2>9. ASSUME NEW c \in Conns, TransportFreed(c) PROVE Handle
      BY <2>9 DEF TransportFreed
    <2>10. CASE FeedReturns
      BY <2>10 DEF FeedReturns
    <2>11. CASE CloseUnconnected
      BY <2>11 DEF CloseUnconnected
    <2>12. CASE LoopExit
      BY <2>12 DEF LoopExit
    <2>13. QED
      BY <1>3, <2>1, <2>2, <2>3, <2>4, <2>5, <2>6, <2>7, <2>8, <2>9, <2>10,
         <2>11, <2>12 DEF WorkerStep
  <1>4. CASE Environment
    <2>1. CASE Stopping
      BY <2>1, StopIs
    <2>2. CASE Disconnect
      BY <2>2 DEF Disconnect
    <2>3. ASSUME NEW c \in Conns, Reconnect(c) PROVE Handle
      BY <2>3 DEF Reconnect
    <2>4. CASE HandshakeDone
      BY <2>4 DEF HandshakeDone
    <2>5. ASSUME NEW r \in Reqs, Response(r) PROVE Handle
      BY <2>5 DEF Response
    <2>6. CASE Destroy
      BY <2>6 DEF Destroy
    <2>7. QED
      BY <1>4, <2>1, <2>2, <2>3, <2>4, <2>5, <2>6 DEF Environment, Stopping
  <1>5. CASE UNCHANGED vars
    BY <1>5 DEF vars
  <1>6. QED
    BY <1>2, <1>3, <1>4, <1>5 DEF Next

\* The callback of c is called with x.
CalledBack(c, x) ==
    /\ told'[c] # <<>>
    /\ Len(told'[c]) = Len(told[c]) + 1
    /\ \A i \in DOMAIN told[c] : told'[c][i] = told[c][i]
    /\ \A i \in DOMAIN told'[c] : i \in DOMAIN told[c] \/ told'[c][i] = x
    /\ DOMAIN told'[c] = 1 .. Len(told[c]) + 1
    /\ told'[c][Len(told[c]) + 1] = x

\* The step handles the async handle of c, and does not write c.
Dropped(c) == /\ c \in async /\ c \notin async'
              /\ UNCHANGED <<writes, requests>>

\* The step calls the write of c back.
WriteReturned(c) == /\ writes # <<>> /\ c = Head(writes)
                    /\ writes' = Tail(writes) /\ async' = async

\* The step takes c out of the map.
TakenOut(c) == /\ \E k \in Keys : Has(requests, k, c)
               /\ \A k \in Keys : ~Has(requests', k, c)

\* Why a callback is called, and with what.
Reason(c) ==
    \/ told'[c] = told[c]
    \/ Dropped(c) /\ CalledBack(c, <<"ok">>) /\ tp[req_tp[c]] = "CLOSED"
    \/ Dropped(c) /\ CalledBack(c, <<"err">>)
    \/ WriteReturned(c) /\ c \in Notes /\ CalledBack(c, <<"ok">>)
    \/ /\ WriteReturned(c) /\ CalledBack(c, <<"err">>)
       /\ feeding \/ transport # NULL =>
             \A k \in Keys : ~Has(requests', k, c)
    \/ TakenOut(c) /\ CalledBack(c, <<"err">>)
    \/ /\ feeding \/ transport # NULL
       /\ \E r \in wire : /\ Has(requests, id[r], c) /\ TakenOut(c)
                          /\ CalledBack(c, <<"resp", r>>)

\* Every callback is called for one of these reasons.
LEMMA ToldStep ==
    ASSUME Typed, Placed, Queued, Mapped, Connected, [Next]_vars
    PROVE  \A c \in Calls : Reason(c)
  <1> DEFINE Reasons == \A c \in Calls : Reason(c)
  <1>1. /\ told \in [Calls -> Seq(Results)] /\ writes \in Seq(Calls)
        /\ req_tp \in [Calls -> Conns \cup {NULL}] /\ async \subseteq Calls
        /\ \A c \in Calls : id[c] \in Keys
        /\ WellFormed(requests, Reqs) /\ Reqs \subseteq Calls
    BY RequestsAssumption DEF Typed, TypeOK, Ids, Calls
  <1>2. ASSUME NEW S, NEW x \in Results, NEW c \in Calls, Tell(S, x), c \in S
        PROVE  CalledBack(c, x)
    BY <1>1, <1>2, TellIs DEF CalledBack
  <1>3. ASSUME Tell(Values(requests), <<"err">>), requests' = pc_map_init
        PROVE  Reasons
    <2>1. ASSUME NEW c \in Calls, c \in Values(requests) PROVE Reason(c)
      <3>1. TakenOut(c)
        BY <1>1, <1>3, <2>1, ValuesAreHad, InitHasNone DEF TakenOut
      <3>2. CalledBack(c, <<"err">>)
        BY <1>2, <1>3, <2>1, ResultsAre
      <3>3. QED
        BY <3>1, <3>2 DEF Reason
    <2>2. ASSUME NEW c \in Calls, c \notin Values(requests) PROVE Reason(c)
      BY <1>1, <1>3, <2>2, TellIs, ResultsAre DEF Reason
    <2>3. QED
      BY <2>1, <2>2
  <1> USE DEF Reason, conn, stops, caller, net
  <1>4. CASE CallerStep
    <2>1. ASSUME NEW c \in Calls, Begin(c) PROVE Reasons
      BY <2>1 DEF Begin
    <2>2. ASSUME NEW r \in Reqs, StoreCounter(r) PROVE Reasons
      BY <2>2 DEF StoreCounter
    <2>3. ASSUME NEW c \in Calls, LoadTransport(c) PROVE Reasons
      BY <2>3 DEF LoadTransport
    <2>4. ASSUME NEW c \in Calls, SendAsync(c) PROVE Reasons
      BY <2>4 DEF SendAsync
    <2>5. QED
      BY <1>4, <2>1, <2>2, <2>3, <2>4 DEF CallerStep
  <1>5. CASE WorkerStep
    <2>1. ASSUME NEW c \in Calls, AsyncFreed(c) PROVE Reasons
      BY <2>1 DEF AsyncFreed
    <2>2. ASSUME NEW c \in Calls, AsyncClosed(c) PROVE Reasons
      <3>1. \A d \in Calls : d # c => told'[d] = told[d]
        BY <2>2, <1>1, TellIs, ResultsAre DEF AsyncClosed
      <3>2. CalledBack(c, <<"ok">>)
        BY <2>2, <1>1, <1>2, ResultsAre DEF AsyncClosed
      <3>3. Dropped(c) /\ tp[req_tp[c]] = "CLOSED"
        BY <2>2 DEF AsyncClosed, Dropped
      <3>4. QED
        BY <3>1, <3>2, <3>3
    <2>3. ASSUME NEW c \in Calls, AsyncError(c) PROVE Reasons
      <3>1. \A d \in Calls : d # c => told'[d] = told[d]
        BY <2>3, <1>1, TellIs, ResultsAre DEF AsyncError
      <3>2. CalledBack(c, <<"err">>)
        BY <2>3, <1>1, <1>2, ResultsAre DEF AsyncError
      <3>3. Dropped(c)
        BY <2>3 DEF AsyncError, Dropped
      <3>4. QED
        BY <3>1, <3>2, <3>3
    <2>4. ASSUME NEW c \in Calls, WriteNotify(c) PROVE Reasons
      BY <2>4 DEF WriteNotify
    <2>5. ASSUME NEW r \in Reqs, WriteRequest(r) PROVE Reasons
      <3>1. CASE told' = told
        BY <3>1
      <3>2. CASE told' # told
        <4> DEFINE v == pc_map_get(requests, id[r])
        <4>1. /\ requests' = pc_map_set(requests, id[r], r)
              /\ Tell(IF Found(requests, id[r]) THEN {v} ELSE {}, <<"err">>)
              /\ r \in async /\ id[r] \in Keys
          BY <2>5, <1>1, <3>2 DEF WriteRequest, Calls
        <4>2. CASE ~Found(requests, id[r])
          BY <1>1, <4>1, <4>2, TellIs, ResultsAre
        <4>3. CASE Found(requests, id[r])
          <5>1. Has(requests, id[r], v) /\ v \in Reqs
            BY <1>1, <4>1, <4>3, GetIsHas
          <5> HIDE DEF v
          <5>2. Tell({v}, <<"err">>)
            BY <4>1, <4>3
          <5>3. \A d \in Calls : d # v => told'[d] = told[d]
            BY <1>1, <5>2, TellIs, ResultsAre
          <5>4. CalledBack(v, <<"err">>)
            BY <1>2, <5>1, <5>2, ResultsAre DEF Calls
          <5>5. id[v] = id[r] /\ v # r
            BY <4>1, <5>1 DEF Mapped
          <5>6. \A k \in Keys : ~Has(requests', k, v)
            <6>1. \A k \in Keys : Has(requests', k, v) <=>
                     IF k = id[r] THEN v = r ELSE Has(requests, k, v)
              BY <1>1, <4>1, SetHas
            <6>2. QED
              BY <5>1, <5>5, <6>1 DEF Mapped
          <5>7. QED
            BY <4>1, <5>1, <5>3, <5>4, <5>6 DEF TakenOut
        <4>4. QED
          BY <4>2, <4>3
      <3>3. QED
        BY <3>1, <3>2
    <2>6. CASE WriteDone
      <3> DEFINE c == Head(writes)
      <3>1. c \in Calls
        BY <2>6, <1>1, TailIs DEF WriteDone
      <3>2. WriteReturned(c)
        BY <2>6 DEF WriteDone, WriteReturned
      <3>3. Tell({c} \cap Notes, <<"ok">>)
        BY <2>6 DEF WriteDone
      <3> HIDE DEF c
      <3>4. \A d \in Calls : d \notin {c} \cap Notes => told'[d] = told[d]
        BY <1>1, <3>3, TellIs, ResultsAre
      <3>5. CASE c \in Notes
        <4>1. CalledBack(c, <<"ok">>)
          BY <1>2, <3>1, <3>3, <3>5, ResultsAre
        <4>2. QED
          BY <3>2, <3>4, <3>5, <4>1
      <3>6. CASE c \notin Notes
        BY <3>4, <3>6
      <3>7. QED
        BY <3>5, <3>6
    <2>7. CASE WriteFailed
      <3> DEFINE c == Head(writes)
      <3>1. c \in Calls
        BY <2>7, <1>1, TailIs DEF WriteFailed
      <3>2. WriteReturned(c)
        BY <2>7 DEF WriteFailed, WriteReturned
      <3>3. Tell({c}, <<"err">>)
        BY <2>7 DEF WriteFailed
      <3>4. \A k \in Keys : ~Has(requests', k, c)
        <4>1. CASE c \in Reqs
          <5>1. \A k \in Keys : Has(requests', k, c) <=>
                   k # id[c] /\ Has(requests, k, c)
            BY <2>7, <1>1, <3>1, <4>1, DelHas DEF WriteFailed
          <5>2. QED
            BY <4>1, <5>1 DEF Mapped
        <4>2. CASE c \notin Reqs
          BY <2>7, <1>1, <4>2, HasValue DEF WriteFailed
        <4>3. QED
          BY <4>1, <4>2
      <3> HIDE DEF c
      <3>5. \A d \in Calls : d # c => told'[d] = told[d]
        BY <1>1, <3>3, TellIs, ResultsAre
      <3>6. CalledBack(c, <<"err">>)
        BY <1>2, <3>1, <3>3, ResultsAre
      <3>7. QED
        BY <3>2, <3>4, <3>5, <3>6
    <2>8. CASE WriteCancelled
      <3> DEFINE c == Head(writes)
      <3>1. c \in Calls /\ c = writes[1] /\ 1 \in DOMAIN writes
        BY <2>8, <1>1, TailIs DEF WriteCancelled
      <3>2. WriteReturned(c)
        BY <2>8 DEF WriteCancelled, WriteReturned
      <3>3. Tell({c}, <<"err">>)
        BY <2>8 DEF WriteCancelled
      <3>4. ~feeding /\ transport = NULL
        <4>1. req_tp[c] \in Conns
          BY <1>1, <3>1 DEF Placed, Queued
        <4>2. QED
          BY <2>8, <4>1 DEF WriteCancelled, InLoop, Connected
      <3> HIDE DEF c
      <3>5. \A d \in Calls : d # c => told'[d] = told[d]
        BY <1>1, <3>3, TellIs, ResultsAre
      <3>6. CalledBack(c, <<"err">>)
        BY <1>2, <3>1, <3>3, ResultsAre
      <3>7. QED
        BY <3>2, <3>4, <3>5, <3>6
    <2>9. ASSUME NEW c \in Conns, TransportFreed(c) PROVE Reasons
      BY <2>9 DEF TransportFreed
    <2>10. CASE FeedReturns
      BY <2>10 DEF FeedReturns
    <2>11. CASE CloseUnconnected
      BY <2>11 DEF CloseUnconnected
    <2>12. CASE LoopExit
      BY <2>12 DEF LoopExit
    <2>13. QED
      BY <1>5, <2>1, <2>2, <2>3, <2>4, <2>5, <2>6, <2>7, <2>8, <2>9, <2>10,
         <2>11, <2>12 DEF WorkerStep
  <1>6. CASE Environment
    <2>1. CASE Stopping
      BY <2>1, <1>3, StopIs DEF Reset, Close
    <2>2. CASE Disconnect
      BY <2>2 DEF Disconnect
    <2>3. ASSUME NEW c \in Conns, Reconnect(c) PROVE Reasons
      BY <2>3 DEF Reconnect
    <2>4. CASE HandshakeDone
      BY <2>4 DEF HandshakeDone
    <2>5. ASSUME NEW r \in Reqs, Response(r) PROVE Reasons
      <3> DEFINE v == pc_map_get(requests, id[r])
      <3>1. id[r] \in Keys /\ Found(requests, id[r]) /\ r \in wire
        BY <2>5, <1>1 DEF Response, Calls
      <3>2. Has(requests, id[r], v) /\ v \in Reqs
        BY <1>1, <3>1, GetIsHas
      <3>3. Tell({v}, <<"resp", r>>)
        BY <2>5 DEF Response
      <3> HIDE DEF v
      <3>4. \A d \in Calls : d # v => told'[d] = told[d]
        BY <1>1, <3>3, TellIs, ResultsAre
      <3>5. CalledBack(v, <<"resp", r>>)
        BY <1>2, <3>2, <3>3, ResultsAre DEF Calls
      <3>6. \A k \in Keys : ~Has(requests', k, v)
        <4>1. \A k \in Keys : Has(requests', k, v) <=>
                 k # id[r] /\ Has(requests, k, v)
          BY <2>5, <1>1, <3>1, DelHas DEF Response
        <4>2. QED
          BY <3>1, <3>2, <4>1 DEF Mapped
      <3>7. feeding \/ transport # NULL
        BY <2>5 DEF Response, Receiving
      <3>8. TakenOut(v)
        BY <3>1, <3>2, <3>6 DEF TakenOut
      <3>9. QED
        BY <3>1, <3>2, <3>4, <3>5, <3>7, <3>8
    <2>6. CASE Destroy
      BY <2>6, <1>3 DEF Destroy
    <2>7. QED
      BY <1>6, <2>1, <2>2, <2>3, <2>4, <2>5, <2>6 DEF Environment, Stopping
  <1>7. CASE UNCHANGED vars
    BY <1>7 DEF vars
  <1>8. QED
    BY <1>4, <1>5, <1>6, <1>7 DEF Next

-----------------------------------------------------------------------------
(* Every part of the invariant is kept.                                    *)

\* The initial state: at most one request waits, under its own id.
LEMMA RequestsInit == Init => RequestsInv
  <1> SUFFICES ASSUME Init PROVE RequestsInv
    OBVIOUS
  <1>1. Typed
    BY TypedInit
  <1>2. /\ \A c \in Calls : told[c] = <<>> /\ DOMAIN told[c] = {}
        /\ async = {} /\ writes = <<>> /\ wire = Older /\ DOMAIN writes = {}
        /\ Older \subseteq Reqs /\ Reqs \subseteq Calls /\ Notes \subseteq Calls
        /\ Reqs \cap Notes = {} /\ FirstId \in Keys
        /\ \A c \in Calls : pc[c] = IF c \in Older THEN "ok" ELSE "none"
        /\ \A c \in Calls : req_tp[c] = IF c \in Older THEN 1 ELSE NULL
        /\ \A c \in Calls : id[c] = IF c \in Older THEN FirstId ELSE 0
    BY RequestsAssumption DEF Init, Calls
  <1>3. \A r, s \in Older : r = s
    BY RequestsAssumption
  <1>4. /\ transport = 1 /\ transport # NULL /\ feeding = FALSE
        /\ state = "WORKING" /\ worker = "loop" /\ fault = "none"
        /\ handles = "open" /\ 1 \in Conns
        /\ \A d \in Conns : tp[d] = IF d = 1 THEN "WORKING" ELSE "none"
    BY RequestsAssumption DEF Init, Conns, NULL
  <1>5. \A k \in Keys : \A v : Has(requests, k, v) <=>
           k = FirstId /\ v \in Older
    <2> DEFINE old == CHOOSE r \in Older : TRUE
               first == [key |-> FirstId, value |-> old]
    <2>1. \A v : v \in Older <=> Older # {} /\ v = old
      BY <1>3
    <2>2. first.key = FirstId /\ first.value = old
      OBVIOUS
    <2>3. \A b \in Buckets : requests[b] = IF Older # {} /\ b = bucket(FirstId)
                                           THEN <<first>> ELSE <<>>
      BY DEF Init
    <2> HIDE DEF first, old
    <2>4. ASSUME NEW k \in Keys, NEW v
          PROVE  Has(requests, k, v) <=> k = FirstId /\ v \in Older
      <3>1. bucket(k) \in Buckets
        BY BucketOfKey
      <3>2. CASE Older # {} /\ bucket(k) = bucket(FirstId)
        <4>1. requests[bucket(k)] = <<first>>
          BY <2>3, <3>1, <3>2
        <4>2. Has(requests, k, v) <=> first.key = k /\ first.value = v
          BY <4>1 DEF Has
        <4>3. QED
          BY <2>1, <2>2, <3>2, <4>2
      <3>3. CASE ~(Older # {} /\ bucket(k) = bucket(FirstId))
        <4>1. requests[bucket(k)] = <<>>
          BY <2>3, <3>1, <3>3
        <4>2. ~Has(requests, k, v)
          BY <4>1 DEF Has
        <4>3. QED
          BY <3>3, <4>2
      <3>4. QED
        BY <3>2, <3>3
    <2>5. QED
      BY <2>4
  <1>6. Placed /\ Queued
    BY <1>2 DEF Placed, Queued, NULL
  <1>7. Mapped
    BY <1>2, <1>5 DEF Mapped
  <1>8. Connected
    BY <1>2, <1>4, RequestsAssumption DEF Connected, Conns, NULL
  <1>9. Cleared /\ Untold
    BY <1>2, <1>4 DEF Cleared, Untold
  <1>10. NotesTold
    <2>1. \A n \in Notes : Len(told[n]) <= 1
      BY <1>2
    <2>2. QED
      BY <1>2, <2>1 DEF NotesTold
  <1>11. OkAlone /\ SameId /\ ErrorIsFinal
    BY <1>2 DEF OkAlone, SameId, ErrorIsFinal
  <1>12. Remembered
    BY <1>2, <1>5 DEF Remembered
  <1>13. QED
    BY <1>1, <1>6, <1>7, <1>8, <1>9, <1>10, <1>11, <1>12 DEF RequestsInv

\* Where a call is.
LEMMA PlacedNext ==
    ASSUME RequestsInv, [Next]_vars
    PROVE  Placed'
  <1> USE DEF RequestsInv
  <1>1. /\ async' \subseteq Calls /\ wire \subseteq Reqs /\ async \subseteq Calls
        /\ writes \in Seq(Calls) /\ Reqs \subseteq Calls
        /\ WellFormed(requests, Reqs)
    BY TypedNext DEF Typed, TypeOK, Calls
  <1>2. /\ \A c \in Calls : pc[c] = "ok" => pc'[c] = "ok"
        /\ \A c \in async' : c \in async \/ (pc[c] = "send" /\ pc'[c] = "ok")
        /\ \A r \in wire' : r \in wire \/ r \in async
        /\ \A c \in Calls : pc'[c] \in {"send", "ok"} => req_tp'[c] # NULL
    BY CallStep
  <1>3. \A c \in Calls : told'[c] # told[c] => pc[c] = "ok" /\ c \notin async'
    <2> SUFFICES ASSUME NEW c \in Calls, told'[c] # told[c]
                 PROVE  pc[c] = "ok" /\ c \notin async'
      OBVIOUS
    <2>1. Dropped(c) \/ WriteReturned(c) \/ \E k \in Keys : Has(requests, k, c)
      BY ToldStep DEF Reason, TakenOut
    <2>2. CASE Dropped(c)
      BY <2>2 DEF Dropped, Placed
    <2>3. CASE WriteReturned(c)
      <3>1. c = writes[1] /\ 1 \in DOMAIN writes
        BY <1>1, <2>3, TailIs DEF WriteReturned
      <3>2. QED
        BY <2>3, <3>1 DEF WriteReturned, Queued
    <2>4. CASE \E k \in Keys : Has(requests, k, c)
      <3>1. c \in Reqs
        BY <1>1, <2>4, HasValue
      <3>2. pc[c] = "ok" /\ c \notin async
        BY <2>4, <3>1 DEF Mapped
      <3>3. QED
        BY <1>2, <3>2
    <2>5. QED
      BY <2>1, <2>2, <2>3, <2>4
  <1>4. \A c \in Calls : pc'[c] # "ok" => told'[c] = <<>>
    BY <1>2, <1>3 DEF Placed
  <1>5. \A c \in async' : pc'[c] = "ok" /\ told'[c] = <<>>
    <2> SUFFICES ASSUME NEW c \in async' PROVE pc'[c] = "ok" /\ told'[c] = <<>>
      OBVIOUS
    <2>1. c \in Calls /\ told'[c] = told[c]
      BY <1>1, <1>3
    <2>2. QED
      BY <1>2, <2>1 DEF Placed
  <1>6. \A r \in wire' : pc'[r] = "ok"
    BY <1>1, <1>2 DEF Placed
  <1>7. QED
    BY <1>2, <1>4, <1>5, <1>6 DEF Placed

\* A write is queued once: what joins the queue has left the async handles.
LEMMA QueuedNext ==
    ASSUME RequestsInv, [Next]_vars
    PROVE  Queued'
  <1> USE DEF RequestsInv
  <1>1. writes \in Seq(Calls) /\ async \subseteq Calls
    BY DEF Typed, TypeOK
  <1>2. /\ \A c \in Calls : pc[c] = "ok" => pc'[c] = "ok"
        /\ \A c \in async' : c \in async \/ pc[c] = "send"
    BY CallStep
  <1>3. /\ \A i \in DOMAIN writes : writes[i] \in Calls
        /\ \A i \in DOMAIN writes : pc'[writes[i]] = "ok"
        /\ \A i \in DOMAIN writes : writes[i] \notin async'
    BY <1>1, <1>2 DEF Queued
  <1>4. CASE writes' = writes
    BY <1>3, <1>4 DEF Queued
  <1>5. ASSUME NEW c \in async, writes' = Append(writes, c), async' = async \ {c}
        PROVE  Queued'
    <2>1. /\ DOMAIN writes = 1 .. Len(writes) /\ Len(writes) \in Nat
          /\ DOMAIN writes' = 1 .. Len(writes) + 1
          /\ \A i \in DOMAIN writes : writes'[i] = writes[i]
          /\ writes'[Len(writes) + 1] = c
          /\ \A i \in 1 .. Len(writes) + 1 :
                i \in DOMAIN writes \/ i = Len(writes) + 1
      BY <1>1, <1>5, AppendIs
    <2>2. pc'[c] = "ok" /\ c \notin async' /\ \A i \in DOMAIN writes : writes[i] # c
      BY <1>1, <1>2, <1>5 DEF Placed, Queued
    <2>3. \A i \in DOMAIN writes' : pc'[writes'[i]] = "ok" /\ writes'[i] \notin async'
      BY <1>3, <2>1, <2>2
    <2>4. \A i, j \in DOMAIN writes' : writes'[i] = writes'[j] => i = j
      BY <2>1, <2>2 DEF Queued
    <2>5. QED
      BY <2>3, <2>4 DEF Queued
  <1>6. CASE writes # <<>> /\ writes' = Tail(writes) /\ async' = async
    <2>1. /\ \A i \in DOMAIN writes' :
                i + 1 \in DOMAIN writes /\ writes'[i] = writes[i + 1]
          /\ \A i, j \in DOMAIN writes' : i + 1 = j + 1 => i = j
      BY <1>1, <1>6, TailIs
    <2>2. QED
      BY <1>3, <2>1 DEF Queued
  <1>7. QED
    BY <1>4, <1>5, <1>6, QueueStep

\* The map: what enters has left the async handles, under its id.
LEMMA MappedNext ==
    ASSUME RequestsInv, [Next]_vars
    PROVE  Mapped'
  <1> USE DEF RequestsInv
  <1>1. async \subseteq Calls /\ Reqs \subseteq Calls
    BY DEF Typed, TypeOK, Calls
  <1>2. /\ \A c \in Calls : pc[c] = "ok" => pc'[c] = "ok" /\ id'[c] = id[c]
        /\ \A c \in async' : c \in async \/ pc[c] = "send"
    BY CallStep
  <1>3. ASSUME NEW k \in Keys, NEW r \in Reqs, Has(requests', k, r)
        PROVE  id'[r] = k /\ pc'[r] = "ok" /\ r \notin async'
    <2>1. CASE Has(requests, k, r)
      <3>1. id[r] = k /\ pc[r] = "ok" /\ r \notin async
        BY <2>1 DEF Mapped
      <3>2. QED
        BY <1>1, <1>2, <3>1
    <2>2. CASE r \in async /\ r \notin async' /\ k = id[r]
      BY <1>1, <1>2, <2>2 DEF Placed
    <2>3. QED
      BY <1>3, <2>1, <2>2, MapGains
  <1>4. QED
    BY <1>3 DEF Mapped

\* A reset and the end of the client empty the map, and nothing enters it
\* while there is no connection.
LEMMA ClearedNext ==
    ASSUME RequestsInv, [Next]_vars
    PROVE  Cleared'
  <1> USE DEF RequestsInv
  <1> SUFFICES ASSUME (transport' = NULL /\ state' # "CLOSED") \/ Gone',
                      NEW k \in Keys, NEW r \in Reqs, Has(requests', k, r)
               PROVE  FALSE
    BY DEF Cleared, Gone
  <1>1. requests' # pc_map_init
    BY InitHasNone
  <1>2. /\ state = "CLOSED" => state' = "CLOSED" \/ requests' = pc_map_init
        /\ transport # NULL /\ transport' = NULL /\ state' # "CLOSED"
              => requests' = pc_map_init
        /\ ~Gone /\ Gone' => requests' = pc_map_init
        /\ Gone => Gone' /\ requests' = requests
    BY ConnectionStep
  <1>3. Has(requests, k, r) \/ (transport # NULL /\ transport' = transport
                                /\ worker = "loop" /\ worker' = worker)
    BY MapGains
  <1>4. CASE Gone'
    BY <1>1, <1>2, <1>3, <1>4 DEF Cleared, Gone
  <1>5. CASE transport' = NULL /\ state' # "CLOSED"
    BY <1>1, <1>2, <1>3, <1>5 DEF Cleared
  <1>6. QED
    BY <1>4, <1>5

\* A call that the write queue holds was there before, or had a handle.
LEMMA QueueOrigin ==
    ASSUME Typed, [Next]_vars, NEW i \in DOMAIN writes'
    PROVE  \/ writes'[i] \in async /\ writes'[i] \notin async'
           \/ /\ \E j \in DOMAIN writes : writes[j] = writes'[i]
              /\ ~(writes' # writes /\ async' = async)
           \/ /\ writes # <<>> /\ writes' = Tail(writes)
              /\ i + 1 \in DOMAIN writes /\ writes[i + 1] = writes'[i]
              /\ i + 1 # 1
  <1>1. writes \in Seq(Calls) /\ async \subseteq Calls
    BY DEF Typed, TypeOK
  <1>2. CASE writes' = writes
    BY <1>2
  <1>3. ASSUME NEW c \in async, writes' = Append(writes, c), async' = async \ {c}
        PROVE  \/ writes'[i] \in async /\ writes'[i] \notin async'
               \/ /\ \E j \in DOMAIN writes : writes[j] = writes'[i]
                  /\ async' # async
    BY <1>1, <1>3, AppendIs
  <1>4. CASE writes # <<>> /\ writes' = Tail(writes)
    BY <1>1, <1>4, TailIs
  <1>5. QED
    BY <1>2, <1>3, <1>4, QueueStep

\* While a response can come, who is told leaves the map with that step.
LEMMA UntoldNext ==
    ASSUME RequestsInv, [Next]_vars
    PROVE  Untold'
  <1> USE DEF RequestsInv
  <1> SUFFICES ASSUME feeding' \/ transport' # NULL,
                      NEW k \in Keys, NEW r \in Reqs, Has(requests', k, r)
               PROVE  told'[r] = <<>>
    BY DEF Untold
  <1>1. r \in Calls /\ r \notin Notes
    BY RequestsAssumption DEF Calls
  <1>2. Has(requests, k, r) \/ (r \in async /\ transport # NULL)
    BY MapGains
  <1>3. feeding \/ transport # NULL
    <2>1. CASE r \in async /\ transport # NULL
      BY <2>1
    <2>2. CASE Has(requests, k, r)
      <3>1. ~(transport = NULL /\ state # "CLOSED")
        BY <2>2 DEF Cleared
      <3>2. QED
        BY <3>1, ConnectionStep
    <2>3. QED
      BY <1>2, <2>1, <2>2
  <1>4. told[r] = <<>>
    BY <1>2, <1>3 DEF Untold, Placed
  <1>5. told'[r] = told[r]
    <2>1. ~TakenOut(r)
      BY DEF TakenOut
    <2>2. ASSUME Dropped(r) PROVE FALSE
      <3>1. Has(requests, k, r) /\ r \in async
        BY <2>2 DEF Dropped
      <3>2. QED
        BY <3>1 DEF Mapped
    <2>3. QED
      BY <1>1, <1>3, <2>1, <2>2, ToldStep DEF Reason
  <1>6. QED
    BY <1>4, <1>5

\* A notify is told once, by its handle or by its write.
LEMMA NotesToldNext ==
    ASSUME RequestsInv, [Next]_vars
    PROVE  NotesTold'
  <1> USE DEF RequestsInv
  <1> SUFFICES ASSUME NEW n \in Notes
               PROVE  /\ Len(told'[n]) <= 1
                      /\ \A i \in DOMAIN writes' :
                            writes'[i] = n => told'[n] = <<>>
                      /\ pc'[n] = "ok" /\ n \notin async' /\ told'[n] = <<>>
                            => \E i \in DOMAIN writes' : writes'[i] = n
    BY DEF NotesTold
  <1>1. /\ n \in Calls /\ n \notin Reqs /\ writes \in Seq(Calls)
        /\ told[n] \in Seq(Results) /\ WellFormed(requests, Reqs)
        /\ Len(<<>>) = 0
    BY RequestsAssumption DEF Typed, Calls
  <1>2. \/ told'[n] = told[n]
        \/ /\ Dropped(n) \/ WriteReturned(n)
           /\ told'[n] # <<>> /\ Len(told'[n]) = Len(told[n]) + 1
    <2>1. \A k \in Keys : ~Has(requests, k, n)
      BY <1>1, HasValue
    <2>2. QED
      BY <1>1, <2>1, ToldStep DEF Reason, TakenOut, CalledBack
  <1>3. Dropped(n) => told[n] = <<>>
    BY DEF Dropped, Placed
  <1>4. WriteReturned(n) => n = writes[1] /\ 1 \in DOMAIN writes
    BY <1>1, TailIs DEF WriteReturned
  <1>5. WriteReturned(n) => told[n] = <<>>
    BY <1>4 DEF NotesTold
  <1>6. Len(told'[n]) <= 1
    BY <1>1, <1>2, <1>3, <1>5 DEF NotesTold
  <1>7. ASSUME NEW i \in DOMAIN writes', writes'[i] = n
        PROVE  told'[n] = <<>>
    <2>1. told[n] = <<>>
      BY <1>7, QueueOrigin DEF Placed, NotesTold
    <2>2. ~Dropped(n)
      BY <1>7 DEF Dropped, Queued
    <2>3. ASSUME WriteReturned(n) PROVE FALSE
      <3>1. writes # writes' /\ async' = async
        <4>1. Len(Tail(writes)) # Len(writes)
          BY <1>1, <2>3 DEF WriteReturned
        <4>2. QED
          BY <2>3, <4>1 DEF WriteReturned
      <3>2. i + 1 \in DOMAIN writes /\ writes[i + 1] = n /\ i + 1 # 1
        BY <1>7, <3>1, QueueOrigin
      <3>3. QED
        BY <1>4, <2>3, <3>2 DEF Queued
    <2>4. QED
      BY <1>2, <2>1, <2>2, <2>3
  <1>8. ASSUME pc'[n] = "ok", n \notin async', told'[n] = <<>>
        PROVE  \E i \in DOMAIN writes' : writes'[i] = n
    <2>1. told[n] = <<>> /\ pc[n] = "ok"
      BY <1>1, <1>2, <1>8, CallStep
    <2>2. CASE n \in async
      BY <1>8, <2>2, HandleStep
    <2>3. CASE n \notin async
      <3>1. PICK j \in DOMAIN writes : writes[j] = n
        BY <2>1, <2>3 DEF NotesTold
      <3>2. CASE writes' = writes
        BY <3>1, <3>2
      <3>3. ASSUME NEW c \in Calls, writes' = Append(writes, c)
            PROVE  \E i \in DOMAIN writes' : writes'[i] = n
        <4>1. j \in DOMAIN writes' /\ writes'[j] = writes[j]
          BY <1>1, <3>3, AppendIs
        <4>2. QED
          BY <3>1, <4>1
      <3>4. CASE writes # <<>> /\ writes' = Tail(writes)
                   /\ (Head(writes) \in Notes => told'[Head(writes)] # <<>>)
        <4>1. j = 1 \/ (j - 1 \in DOMAIN writes' /\ writes'[j - 1] = n)
          BY <1>1, <3>1, <3>4, TailIs
        <4>2. j # 1
          BY <1>1, <1>8, <3>1, <3>4, TailIs
        <4>3. QED
          BY <4>1, <4>2
      <3>5. async \subseteq Calls
        BY DEF Typed, TypeOK
      <3>6. QED
        BY <3>2, <3>3, <3>4, <3>5, QueueStep
    <2>4. QED
      BY <2>2, <2>3
  <1>9. QED
    BY <1>6, <1>7, <1>8

\* Status 0 without an answer comes from an async handle, to a request that
\* has been told nothing and is neither written nor in the map.
LEMMA OkAloneNext ==
    ASSUME RequestsInv, [Next]_vars
    PROVE  OkAlone'
  <1> USE DEF RequestsInv
  <1> SUFFICES ASSUME NEW r \in Reqs, NEW i \in DOMAIN told'[r],
                      told'[r][i] = <<"ok">>
               PROVE  /\ tp'[req_tp'[r]] \in {"CLOSED", "freed"}
                      /\ Len(told'[r]) = 1
                      /\ r \notin async'
                      /\ \A j \in DOMAIN writes' : writes'[j] # r
                      /\ \A k \in Keys : ~Has(requests', k, r)
    BY DEF OkAlone
  <1>1. /\ r \in Calls /\ r \notin Notes /\ writes \in Seq(Calls)
        /\ told[r] \in Seq(Results) /\ Len(<<>>) = 0
        /\ req_tp[r] \in Conns \cup {NULL}
    BY RequestsAssumption DEF Typed, TypeOK, Calls
  <1>2. /\ \A d \in Conns : tp[d] \in {"CLOSED", "freed"} =>
              tp'[d] \in {"CLOSED", "freed"}
        /\ pc[r] = "ok" => req_tp'[r] = req_tp[r]
    BY <1>1, ConnectionStep, CallStep
  <1>3. CASE Dropped(r)
    <2>1. pc[r] = "ok" /\ told[r] = <<>> /\ req_tp[r] \in Conns
      BY <1>1, <1>3 DEF Dropped, Placed
    <2>2. told'[r] # told[r]
      BY <2>1
    <2>3. /\ \A j \in DOMAIN writes : writes[j] # r
          /\ \A k \in Keys : ~Has(requests, k, r)
      BY <1>3 DEF Dropped, Queued, Mapped
    <2>4. ~TakenOut(r) /\ ~WriteReturned(r)
      <3>1. ~TakenOut(r)
        BY <2>3 DEF TakenOut
      <3>2. WriteReturned(r) => r = writes[1] /\ 1 \in DOMAIN writes
        BY <1>1, TailIs DEF WriteReturned
      <3>3. QED
        BY <2>3, <3>1, <3>2
    <2>5. \/ CalledBack(r, <<"ok">>) /\ tp[req_tp[r]] = "CLOSED"
          \/ CalledBack(r, <<"err">>)
      BY <1>1, <2>2, <2>4, ToldStep DEF Reason
    <2>6. DOMAIN told[r] = {}
      BY <2>1
    <2>7. CalledBack(r, <<"ok">>) /\ tp[req_tp[r]] = "CLOSED"
      BY <2>5, <2>6, ResultsAre DEF CalledBack
    <2>8. Len(told'[r]) = 1
      BY <1>1, <2>1, <2>7 DEF CalledBack
    <2>9. QED
      BY <1>2, <1>3, <2>1, <2>3, <2>7, <2>8 DEF Dropped
  <1>4. CASE ~Dropped(r)
    <2>1. \/ told'[r] = told[r]
          \/ \E x : CalledBack(r, x) /\ x # <<"ok">>
                    /\ (WriteReturned(r) \/ TakenOut(r))
      <3>1. wire \subseteq Reqs
        BY DEF Typed, TypeOK
      <3>2. QED
        BY <1>1, <1>4, <3>1, ToldStep, ResultsAre DEF Reason
    <2>2. i \in DOMAIN told[r] /\ told[r][i] = <<"ok">>
      BY <2>1 DEF CalledBack
    <2>3. /\ tp[req_tp[r]] \in {"CLOSED", "freed"} /\ Len(told[r]) = 1
          /\ r \notin async
          /\ \A j \in DOMAIN writes : writes[j] # r
          /\ \A k \in Keys : ~Has(requests, k, r)
      BY <2>2 DEF OkAlone
    <2>4. told'[r] = told[r]
      <3>1. WriteReturned(r) => r = writes[1] /\ 1 \in DOMAIN writes
        BY <1>1, TailIs DEF WriteReturned
      <3>2. QED
        BY <2>1, <2>3, <3>1 DEF TakenOut
    <2>5. pc[r] = "ok" /\ req_tp[r] \in Conns
      <3>1. told[r] # <<>>
        BY <2>2
      <3>2. QED
        BY <1>1, <3>1 DEF Placed
    <2>6. r \notin async'
      BY <2>3, <2>5, CallStep
    <2>7. \A j \in DOMAIN writes' : writes'[j] # r
      BY <2>3, QueueOrigin
    <2>8. \A k \in Keys : ~Has(requests', k, r)
      BY <2>3, MapGains
    <2>9. QED
      BY <1>2, <2>3, <2>4, <2>5, <2>6, <2>7, <2>8
  <1>5. QED
    BY <1>3, <1>4

\* An answer goes to the request that has the id of the one it answers.
LEMMA SameIdNext ==
    ASSUME RequestsInv, [Next]_vars
    PROVE  SameId'
  <1> USE DEF RequestsInv
  <1> SUFFICES ASSUME NEW r \in Reqs, NEW s \in Reqs, NEW i \in DOMAIN told'[s],
                      told'[s][i] = <<"resp", r>>
               PROVE  pc'[r] = "ok" /\ pc'[s] = "ok" /\ id'[s] = id'[r]
    BY DEF SameId
  <1>1. /\ r \in Calls /\ s \in Calls /\ wire \subseteq Reqs
        /\ \A c \in Calls : id[c] \in Keys
    BY RequestsAssumption DEF Typed, TypeOK, Calls, Ids
  <1>2. SUFFICES pc[r] = "ok" /\ pc[s] = "ok" /\ id[s] = id[r]
    BY <1>1, CallStep
  <1>3. CASE i \in DOMAIN told[s] /\ told[s][i] = told'[s][i]
    BY <1>3 DEF SameId
  <1>4. CASE ~(i \in DOMAIN told[s] /\ told[s][i] = told'[s][i])
    <2>1. ~(told'[s] = told[s])
      BY <1>4
    <2>2. \A x : CalledBack(s, x) => x = <<"resp", r>>
      BY <1>4 DEF CalledBack
    <2>3. PICK t \in wire : Has(requests, id[t], s) /\ CalledBack(s, <<"resp", t>>)
      BY <1>1, <2>1, <2>2, ToldStep, ResultsAre DEF Reason
    <2>4. t = r
      BY <1>1, <2>2, <2>3, ResultsAre
    <2>5. QED
      BY <1>1, <2>3, <2>4 DEF Mapped, Placed
  <1>5. QED
    BY <1>3, <1>4

\* What is not an error is told to a request that has been told nothing.
LEMMA ErrorIsFinalNext ==
    ASSUME RequestsInv, [Next]_vars
    PROVE  ErrorIsFinal'
  <1> USE DEF RequestsInv
  <1> SUFFICES ASSUME NEW r \in Reqs, NEW i \in DOMAIN told'[r],
                      NEW j \in DOMAIN told'[r], i < j, told'[r][i] = <<"err">>
               PROVE  told'[r][j] = <<"err">>
    BY DEF ErrorIsFinal
  <1>1. /\ r \in Calls /\ r \notin Notes /\ told[r] \in Seq(Results)
        /\ wire \subseteq Reqs /\ \A c \in Calls : id[c] \in Keys
    BY RequestsAssumption DEF Typed, TypeOK, Calls, Ids
  <1>2. CASE told'[r] = told[r]
    BY <1>2 DEF ErrorIsFinal
  <1>3. CASE CalledBack(r, <<"err">>)
    <2>1. CASE j \in DOMAIN told[r]
      <3>1. /\ DOMAIN told[r] = 1 .. Len(told[r]) /\ Len(told[r]) \in Nat
            /\ i \in 1 .. Len(told[r]) + 1
        BY <1>1, <1>3 DEF CalledBack
      <3>2. i \in DOMAIN told[r]
        BY <2>1, <3>1
      <3>3. told'[r][i] = told[r][i] /\ told'[r][j] = told[r][j]
        BY <1>3, <2>1, <3>2 DEF CalledBack
      <3>4. QED
        BY <2>1, <3>2, <3>3 DEF ErrorIsFinal
    <2>2. CASE j \notin DOMAIN told[r]
      BY <1>3, <2>2 DEF CalledBack
    <2>3. QED
      BY <2>1, <2>2
  <1>4. ASSUME NEW x, CalledBack(r, x), told[r] = <<>>
        PROVE  told'[r][j] = <<"err">>
    <2>1. DOMAIN told'[r] = 1 .. 1
      BY <1>4 DEF CalledBack
    <2>2. QED
      BY <2>1
  <1>5. Dropped(r) => told[r] = <<>>
    BY DEF Dropped, Placed
  <1>6. (feeding \/ transport # NULL) /\ (\E k \in Keys : Has(requests, k, r))
          => told[r] = <<>>
    BY DEF Untold
  <1>7. QED
    BY <1>1, <1>2, <1>3, <1>4, <1>5, <1>6, ToldStep DEF Reason, TakenOut

\* A request that waits alone with its id stays in the map until it is told.
LEMMA RememberedNext ==
    ASSUME RequestsInv, [Next]_vars
    PROVE  Remembered'
  <1> USE DEF RequestsInv
  <1> SUFFICES ASSUME fault' = "none", NEW r \in Reqs, pc'[r] = "ok",
                      r \notin async', told'[r] = <<>>, Alone(r)'
               PROVE  Has(requests', id'[r], r)
    BY DEF Remembered
  <1>1. /\ Reqs \subseteq Calls /\ r \in Calls
        /\ \A c \in Calls : id[c] \in Keys
    BY RequestsAssumption DEF Typed, TypeOK, Calls, Ids
  <1>2. pc[r] = "ok" /\ fault = "none" /\ id'[r] = id[r]
    BY <1>1, CallStep, ConnectionStep
  <1>3. told[r] = <<>>
    <2>1. \A x : ~CalledBack(r, x)
      BY DEF CalledBack
    <2>2. QED
      BY <1>1, <2>1, ToldStep DEF Reason
  <1>4. \A s \in Reqs \ {r} : pc[s] = "ok" => id[s] # id[r]
    BY <1>1, <1>2, CallStep DEF Alone
  <1>5. CASE r \in async
    BY <1>2, <1>5, HandleStep
  <1>6. CASE r \notin async
    <2>1. Has(requests, id[r], r)
      BY <1>2, <1>3, <1>4, <1>6 DEF Remembered, Alone
    <2>2. QED
      BY <1>1, <1>2, <1>4, <2>1, MapLoses
  <1>7. QED
    BY <1>5, <1>6
-----------------------------------------------------------------------------
(* The theorems.                                                           *)

\* Callers, handles, writes, the map and the history stay consistent through
\* every interleaving of callers and worker, every lost connection, reconnect,
\* disconnect and destroy.
THEOREM RequestsInvariant == Spec => []RequestsInv
  <1>1. RequestsInv /\ [Next]_vars => RequestsInv'
    <2> SUFFICES ASSUME RequestsInv, [Next]_vars PROVE RequestsInv'
      OBVIOUS
    <2>1. Typed' /\ Connected'
      BY TypedNext, ConnectedNext DEF RequestsInv
    <2>2. Placed' /\ Queued' /\ Mapped' /\ Cleared'
      BY PlacedNext, QueuedNext, MappedNext, ClearedNext
    <2>3. Untold' /\ NotesTold' /\ OkAlone'
      BY UntoldNext, NotesToldNext, OkAloneNext
    <2>4. SameId' /\ ErrorIsFinal' /\ Remembered'
      BY SameIdNext, ErrorIsFinalNext, RememberedNext
    <2>5. QED
      BY <2>1, <2>2, <2>3, <2>4 DEF RequestsInv
  <1>2. QED
    BY <1>1, RequestsInit, PTL DEF Spec

\* Every variable of the request path keeps its type.
THEOREM RequestsTypes == Spec => []TypeOK
  BY RequestsInvariant, PTL DEF RequestsInv, Typed

\* pc__on_notify, pc__notify, pc__async_write_cb: between them they call a
\* notify's callback at most once.
THEOREM NotifyOnce == Spec => []NotifyToldOnce
  <1>1. RequestsInv => NotifyToldOnce
    BY DEF RequestsInv, NotesTold, NotifyToldOnce
  <1>2. QED
    BY <1>1, RequestsInvariant, PTL

\* pc__process_response, pc__on_request, pc__client_reconnect_reset: no answer
\* is given to a request that has been told an error.
THEOREM ErrorsAreFinal == Spec => []ErrorIsFinal
  BY RequestsInvariant, PTL DEF RequestsInv

\* pc__async_write_cb: status 0 without an answer means that the transport was
\* closed before the worker came to the call, and is the only callback.
THEOREM OkMeansClosed == Spec => []OkWithoutAnswer
  <1>1. RequestsInv => OkWithoutAnswer
    BY DEF RequestsInv, OkAlone, OkWithoutAnswer
  <1>2. QED
    BY <1>1, RequestsInvariant, PTL

\* pc__process_response: as long as the counter that is not protected has given
\* an id to no other call, no other request gets the answer.
THEOREM AnswersAreOwn == Spec => []ResponseIsOwn
  <1>1. RequestsInv => ResponseIsOwn
    BY DEF RequestsInv, SameId, ResponseIsOwn, UniqueId
  <1>2. QED
    BY <1>1, RequestsInvariant, PTL

\* client->requests: on a live connection the map holds the requests that were
\* written and wait, and no others.
THEOREM MapHoldsWaiting == Spec => []MapIsWaiting
  <1>1. RequestsInv => MapIsWaiting
    <2> SUFFICES ASSUME RequestsInv, fault = "none", transport # NULL,
                        \A r \in Reqs : UniqueId(r)
                 PROVE  /\ \A r \in Values(requests) : told[r] = <<>>
                        /\ \A r \in Written \cap Reqs :
                              told[r] = <<>> =>
                                 /\ Found(requests, id[r])
                                 /\ pc_map_get(requests, id[r]) = r
      BY DEF MapIsWaiting
    <2>1. WellFormed(requests, Reqs) /\ \A c \in Calls : id[c] \in Keys
      BY RequestsAssumption DEF RequestsInv, Typed, TypeOK, Ids
    <2>2. \A r \in Values(requests) : told[r] = <<>>
      BY <2>1, ValuesAreHad, HasValue DEF RequestsInv, Untold
    <2>3. ASSUME NEW r \in Written \cap Reqs, told[r] = <<>>
          PROVE  Found(requests, id[r]) /\ pc_map_get(requests, id[r]) = r
      <3>1. Alone(r)
        BY DEF Alone, UniqueId
      <3>2. Has(requests, id[r], r) /\ id[r] \in Keys
        BY <2>1, <2>3, <3>1 DEF RequestsInv, Remembered, Written
      <3>3. Found(requests, id[r])
        BY <3>2, FoundIsHas
      <3>4. QED
        BY <2>1, <3>2, <3>3, GetIsHas, HasOne
    <2>4. QED
      BY <2>2, <2>3
  <1>2. QED
    BY <1>1, RequestsInvariant, PTL

\* pc__client_clear: when a client whose worker has ended is freed, every call
\* that returned 0, and whose id is its own, has had its callback.  (A client
\* freed under a running worker forgets calls: the run of NoneCutOff.)
THEOREM EveryCallTold == Spec => []NoneForgotten
  <1>1. RequestsInv => NoneForgotten
    <2> SUFFICES ASSUME RequestsInv, worker = "freed", NEW c \in Calls,
                        pc[c] = "ok", c \in Reqs => UniqueId(c), told[c] = <<>>
                 PROVE  FALSE
      BY DEF NoneForgotten, AllTold
    <2>1. fault = "none" /\ async = {} /\ writes = <<>>
      BY DEF RequestsInv, Connected
    <2>2. CASE c \in Notes
      BY <2>1, <2>2 DEF RequestsInv, NotesTold
    <2>3. CASE c \in Reqs
      <3>1. Alone(c)
        BY <2>3 DEF Alone, UniqueId
      <3>2. Has(requests, id[c], c) /\ id[c] \in Keys
        BY <2>1, <2>3, <3>1, RequestsAssumption
           DEF RequestsInv, Remembered, Typed, TypeOK, Ids
      <3>3. QED
        BY <2>3, <3>2 DEF RequestsInv, Cleared
    <2>4. QED
      BY <2>2, <2>3 DEF Calls
  <1>2. QED
    BY <1>1, RequestsInvariant, PTL

\* Two calls that returned 0 have one id.
TwinIds ==
    \E r, s \in Reqs : r # s /\ pc[r] = "ok" /\ pc[s] = "ok" /\ id[r] = id[s]

\* pc_map_set, called by pc__request: the loop that never ends is met only if
\* the counter that is not protected, or its wrap, gave one id to two requests.
HangNeedsTwins == fault = "endless_set" => TwinIds

\* Only pc__request can meet it, and then another request has the id.
LEMMA HangStep ==
    ASSUME RequestsInv, [Next]_vars
    PROVE  fault' = fault \/ fault' # "endless_set" \/ TwinIds
  <1> USE DEF RequestsInv
  <1> DEFINE Hang == fault' = fault \/ fault' # "endless_set" \/ TwinIds
  <1>1. /\ \A r \in Reqs : id[r] \in Keys
        /\ WellFormed(requests, Reqs)
    BY RequestsAssumption DEF Typed, TypeOK, Ids, Calls
  <1> USE DEF TwinIds, conn, stops, caller, net
  <1>2. CASE CallerStep
    <2>1. ASSUME NEW c \in Calls, Begin(c) PROVE Hang
      BY <2>1 DEF Begin
    <2>2. ASSUME NEW r \in Reqs, StoreCounter(r) PROVE Hang
      BY <2>2 DEF StoreCounter
    <2>3. ASSUME NEW c \in Calls, LoadTransport(c) PROVE Hang
      BY <2>3 DEF LoadTransport
    <2>4. ASSUME NEW c \in Calls, SendAsync(c) PROVE Hang
      BY <2>4 DEF SendAsync
    <2>5. QED
      BY <1>2, <2>1, <2>2, <2>3, <2>4 DEF CallerStep
  <1>3. CASE WorkerStep
    <2>1. ASSUME NEW c \in Calls, AsyncFreed(c) PROVE Hang
      BY <2>1 DEF AsyncFreed
    <2>2. ASSUME NEW c \in Calls, AsyncClosed(c) PROVE Hang
      BY <2>2 DEF AsyncClosed
    <2>3. ASSUME NEW c \in Calls, AsyncError(c) PROVE Hang
      BY <2>3 DEF AsyncError
    <2>4. ASSUME NEW c \in Calls, WriteNotify(c) PROVE Hang
      BY <2>4 DEF WriteNotify
    <2>5. ASSUME NEW r \in Reqs, WriteRequest(r) PROVE Hang
      <3>1. CASE fault' = fault
        BY <3>1
      <3>2. CASE fault' # fault
        <4>1. Found(requests, id[r]) /\ id[r] \in Keys /\ r \in async
          BY <2>5, <1>1, <3>2 DEF WriteRequest, pc_map_set_hangs
        <4>2. PICK s \in Reqs : Has(requests, id[r], s)
          BY <1>1, <4>1, GetIsHas
        <4>3. s # r /\ pc[s] = "ok" /\ id[s] = id[r] /\ pc[r] = "ok"
          BY <4>1, <4>2 DEF Mapped, Placed
        <4>4. QED
          BY <4>3
      <3>3. QED
        BY <3>1, <3>2
    <2>6. CASE WriteDone
      BY <2>6 DEF WriteDone
    <2>7. CASE WriteFailed
      BY <2>7 DEF WriteFailed
    <2>8. CASE WriteCancelled
      BY <2>8 DEF WriteCancelled
    <2>9. ASSUME NEW c \in Conns, TransportFreed(c) PROVE Hang
      BY <2>9 DEF TransportFreed
    <2>10. CASE FeedReturns
      BY <2>10 DEF FeedReturns
    <2>11. CASE CloseUnconnected
      BY <2>11 DEF CloseUnconnected
    <2>12. CASE LoopExit
      BY <2>12 DEF LoopExit
    <2>13. QED
      BY <1>3, <2>1, <2>2, <2>3, <2>4, <2>5, <2>6, <2>7, <2>8, <2>9, <2>10,
         <2>11, <2>12 DEF WorkerStep
  <1>4. CASE Environment
    <2>1. CASE Stopping
      BY <2>1, StopIs
    <2>2. CASE Disconnect
      BY <2>2 DEF Disconnect
    <2>3. ASSUME NEW c \in Conns, Reconnect(c) PROVE Hang
      BY <2>3 DEF Reconnect
    <2>4. CASE HandshakeDone
      BY <2>4 DEF HandshakeDone
    <2>5. ASSUME NEW r \in Reqs, Response(r) PROVE Hang
      BY <2>5 DEF Response
    <2>6. CASE Destroy
      BY <2>6 DEF Destroy
    <2>7. QED
      BY <1>4, <2>1, <2>2, <2>3, <2>4, <2>5, <2>6 DEF Environment, Stopping
  <1>5. CASE UNCHANGED vars
    BY <1>5 DEF vars
  <1>6. QED
    BY <1>2, <1>3, <1>4, <1>5 DEF Next

\* pc__request never loops in pc_map_set while every id is its own.
THEOREM HangOnlyOnTwins == Spec => []HangNeedsTwins
  <1>1. Init => HangNeedsTwins
    BY DEF Init, HangNeedsTwins
  <1>2. ASSUME RequestsInv, HangNeedsTwins, [Next]_vars
        PROVE  HangNeedsTwins'
    <2>1. TwinIds => TwinIds'
      <3>1. \A c \in Reqs : pc[c] = "ok" => pc'[c] = "ok" /\ id'[c] = id[c]
        BY <1>2, CallStep DEF RequestsInv, Calls
      <3>2. QED
        BY <3>1 DEF TwinIds
    <2>2. QED
      BY <1>2, <2>1, HangStep DEF HangNeedsTwins
  <1>3. QED
    BY <1>1, <1>2, RequestsInvariant, PTL DEF Spec
=============================================================================
