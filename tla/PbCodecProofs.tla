---------------------------- MODULE PbCodecProofs ----------------------------
(***************************************************************************)
(* Proofs about the protobuf codec (pb-encode.c, pb-decode.c, pb-util.c):  *)
(* what it writes of a number, a string, a field, an array or a message is *)
(* what it reads back, whatever follows in the stream, as far as the       *)
(* definitions can carry it.  For all definitions, and for all messages    *)
(* however many keys and elements they have and however deep they nest.    *)
(*                                                                         *)
(* The argument.  The prover has no induction, so each recursive function  *)
(* is shown to exist by a least counterexample (LeastNatural) and each     *)
(* loop likewise: of the streams that were joined the n-th tail is read    *)
(* when n of them are gone (Tails, Reached), and of the messages that are  *)
(* not read back one of the least depth has only others in it that are     *)
(* (Below), so that it is read back itself.  The same argument shows that  *)
(* a message takes less than twice the room of its JSON text (Roomy),      *)
(* which is the room that pc__pb_encode has for it.                        *)
(***************************************************************************)
EXTENDS SessionMessages, SequenceTheorems, FiniteSetTheorems,
        WellFoundedInduction, TLAPS
-----------------------------------------------------------------------------
(* Streams and numbers.                                                    *)

\* Every set of naturals that is not empty has a least element.
LEMMA LeastNatural ==
    ASSUME NEW T \in SUBSET Nat, T # {}
    PROVE  \E x \in T : \A y \in T : x <= y
  <1>1. PICK x \in T : \A y \in T : ~(<<y, x>> \in OpToRel(<, Nat))
    BY NatLessThanWellFounded, WFMin
  <1>2. ASSUME NEW y \in T PROVE x <= y
    <2>1. ~(<<y, x>> \in {ss \in Nat \X Nat : ss[1] < ss[2]})
      BY <1>1 DEF OpToRel
    <2>2. QED
      BY <2>1
  <1>3. QED
    BY <1>2

Bytes == Seq(Int)

\* Two streams, one after the other.
LEMMA Joins ==
    ASSUME NEW s \in Bytes, NEW t \in Bytes
    PROVE  /\ s \o t \in Bytes /\ Len(s \o t) = Len(s) + Len(t)
           /\ Len(s) \in Nat /\ Len(t) \in Nat
           /\ \A i \in 1 .. Len(s) : (s \o t)[i] = s[i]
           /\ \A i \in 1 .. Len(t) : (s \o t)[Len(s) + i] = t[i]
           /\ After(s \o t, Len(s)) = t
           /\ SubSeq(s \o t, 1, Len(s)) = s
  <1>1. /\ s \o t \in Bytes /\ Len(s \o t) = Len(s) + Len(t)
        /\ \A i \in 1 .. Len(s) + Len(t) :
              (s \o t)[i] = IF i <= Len(s) THEN s[i] ELSE t[i - Len(s)]
        /\ Len(s) \in Nat /\ Len(t) \in Nat
    BY ConcatProperties, LenProperties DEF Bytes
  <1>2. /\ \A i \in 1 .. Len(s) : (s \o t)[i] = s[i]
        /\ \A i \in 1 .. Len(t) : (s \o t)[Len(s) + i] = t[i]
    BY <1>1
  <1> DEFINE u == s \o t
  <1> HIDE DEF u
  <1>3. u \in Seq(Int) /\ Len(u) = Len(s) + Len(t)
    BY <1>1 DEF u, Bytes
  <1>4. \A i \in 1 .. Len(u) : u[i] \in Int
    BY <1>3, ElementOfSeq
  <1>5. After(u, Len(s)) = t
    <2> DEFINE a == SubSeq(u, Len(s) + 1, Len(u))
    <2>1. \A i \in Len(s) + 1 .. Len(u) : u[i] \in Int
      BY <1>1, <1>3, <1>4
    <2>2. /\ a \in Seq(Int)
          /\ Len(a) = IF Len(s) + 1 <= Len(u) THEN Len(u) - (Len(s) + 1) + 1 ELSE 0
          /\ \A i \in 1 .. Len(u) - (Len(s) + 1) + 1 : a[i] = u[Len(s) + 1 + i - 1]
      BY <1>1, <1>3, <2>1, SubSeqProperties
    <2> HIDE DEF a
    <2>3. Len(a) = Len(t)
      BY <1>1, <1>3, <2>2
    <2>4. \A i \in 1 .. Len(a) : a[i] = t[i]
      <3>1. ASSUME NEW i \in 1 .. Len(a) PROVE a[i] = t[i]
        <4>1. i \in 1 .. Len(u) - (Len(s) + 1) + 1 /\ Len(s) + 1 + i - 1 = Len(s) + i
              /\ i \in 1 .. Len(t)
          BY <1>1, <1>3, <2>3
        <4>2. a[i] = u[Len(s) + i]
          BY <2>2, <4>1
        <4>3. QED
          BY <1>2, <4>1, <4>2 DEF u
      <3>2. QED
        BY <3>1
    <2>5. a = t
      BY <2>2, <2>3, <2>4, SeqEqual DEF Bytes
    <2>6. QED
      BY <2>5 DEF After, a
  <1>6. SubSeq(u, 1, Len(s)) = s
    <2> DEFINE a == SubSeq(u, 1, Len(s))
    <2>1. \A i \in 1 .. Len(s) : u[i] \in Int
      BY <1>1, <1>3, <1>4
    <2>2. /\ a \in Seq(Int)
          /\ Len(a) = IF 1 <= Len(s) THEN Len(s) - 1 + 1 ELSE 0
          /\ \A i \in 1 .. Len(s) - 1 + 1 : a[i] = u[1 + i - 1]
      BY <1>1, <1>3, <2>1, SubSeqProperties
    <2> HIDE DEF a
    <2>3. Len(a) = Len(s)
      BY <1>1, <2>2
    <2>4. \A i \in 1 .. Len(a) : a[i] = s[i]
      <3>1. ASSUME NEW i \in 1 .. Len(a) PROVE a[i] = s[i]
        <4>1. i \in 1 .. Len(s) - 1 + 1 /\ 1 + i - 1 = i /\ i \in 1 .. Len(s)
          BY <1>1, <2>3
        <4>2. a[i] = u[i]
          BY <2>2, <4>1
        <4>3. QED
          BY <1>2, <4>1, <4>2 DEF u
      <3>2. QED
        BY <3>1
    <2>5. a = s
      BY <2>2, <2>3, <2>4, SeqEqual DEF Bytes
    <2>6. QED
      BY <2>5 DEF a
  <1>7. QED
    BY <1>1, <1>2, <1>5, <1>6 DEF u

\* The rest of a stream after n bytes.
LEMMA AfterIs ==
    ASSUME NEW s \in Bytes, NEW n \in 0 .. Len(s)
    PROVE  /\ After(s, n) \in Bytes /\ Len(After(s, n)) = Len(s) - n
           /\ \A i \in 1 .. Len(s) - n : After(s, n)[i] = s[n + i]
  <1> DEFINE a == SubSeq(s, n + 1, Len(s))
  <1>1. Len(s) \in Nat /\ n \in Nat /\ \A i \in 1 .. Len(s) : s[i] \in Int
    BY LenProperties, ElementOfSeq DEF Bytes
  <1>2. \A i \in n + 1 .. Len(s) : s[i] \in Int
    BY <1>1
  <1>3. /\ a \in Seq(Int)
        /\ Len(a) = IF n + 1 <= Len(s) THEN Len(s) - (n + 1) + 1 ELSE 0
        /\ \A i \in 1 .. Len(s) - (n + 1) + 1 : a[i] = s[n + 1 + i - 1]
    BY <1>1, <1>2, SubSeqProperties
  <1> HIDE DEF a
  <1>4. Len(a) = Len(s) - n
    BY <1>1, <1>3
  <1>5. ASSUME NEW i \in 1 .. Len(s) - n PROVE a[i] = s[n + i]
    <2>1. i \in 1 .. Len(s) - (n + 1) + 1 /\ n + 1 + i - 1 = n + i
      BY <1>1
    <2>2. QED
      BY <1>3, <2>1
  <1>6. QED
    BY <1>3, <1>4, <1>5 DEF a, After, Bytes
-----------------------------------------------------------------------------
(* Varints.                                                                *)

\* The low seven bits of a number and the others.
LEMMA Groups ==
    ASSUME NEW v \in Nat
    PROVE  /\ v % 128 \in 0 .. 127 /\ v \div 128 \in Nat
           /\ v = 128 * (v \div 128) + (v % 128)
           /\ v >= 128 => v \div 128 < v /\ v \div 128 >= 1
           /\ ((v % 128) + 128) % 128 = v % 128
  OBVIOUS

\* The varints of the numbers up to n.
VarintsTo(g, n) ==
    /\ g \in [0 .. n -> Bytes]
    /\ \A v \in 0 .. n :
          g[v] = IF v < 128 THEN <<v>>
                 ELSE <<(v % 128) + 128>> \o g[v \div 128]

\* A stream of one byte.
LEMMA OneByte == \A b \in Int : <<b>> \in Bytes /\ Len(<<b>>) = 1 /\ <<b>>[1] = b
  BY DEF Bytes

\* They exist: the least n for which they did not would have a predecessor.
LEMMA VarintsExist == \A n \in Nat : \E g : VarintsTo(g, n)
  <1> DEFINE T == {n \in Nat : ~\E g : VarintsTo(g, n)}
  <1>1. SUFFICES ASSUME T # {} PROVE FALSE
    OBVIOUS
  <1>2. PICK n \in T : \A m \in T : n <= m
    BY <1>1, LeastNatural
  <1>3. CASE n = 0
    <2> DEFINE f == [v \in 0 .. 0 |-> <<0>>]
    <2>1. f \in [0 .. 0 -> Bytes]
      BY OneByte
    <2>2. ASSUME NEW v \in 0 .. 0 PROVE v < 128 /\ f[v] = <<v>>
      OBVIOUS
    <2>3. VarintsTo(f, 0)
      BY <2>1, <2>2 DEF VarintsTo
    <2>4. QED
      BY <1>2, <1>3, <2>3
  <1>4. CASE n # 0
    <2>1. n - 1 \in Nat /\ n - 1 \notin T
      BY <1>2, <1>4
    <2>2. PICK g : VarintsTo(g, n - 1)
      BY <2>1
    <2> DEFINE top == IF n < 128 THEN <<n>>
                      ELSE <<(n % 128) + 128>> \o g[n \div 128]
               f == [v \in 0 .. n |-> IF v = n THEN top ELSE g[v]]
    <2>3. /\ g \in [0 .. n - 1 -> Bytes]
          /\ \A v \in 0 .. n - 1 :
                g[v] = IF v < 128 THEN <<v>>
                       ELSE <<(v % 128) + 128>> \o g[v \div 128]
      BY <2>2 DEF VarintsTo
    <2>4. top \in Bytes
      <3>1. CASE n < 128
        BY <3>1, OneByte
      <3>2. CASE ~(n < 128)
        <4>1. n \div 128 \in 0 .. n - 1 /\ (n % 128) + 128 \in Int
          BY <3>2, Groups
        <4>2. g[n \div 128] \in Bytes /\ <<(n % 128) + 128>> \in Bytes
          BY <2>3, <4>1, OneByte
        <4>3. QED
          BY <3>2, <4>2, Joins
      <3>3. QED
        BY <3>1, <3>2
    <2> HIDE DEF top
    <2>5. f \in [0 .. n -> Bytes]
      <3>1. \A v \in 0 .. n : (IF v = n THEN top ELSE g[v]) \in Bytes
        BY <2>1, <2>3, <2>4
      <3>2. QED
        BY <3>1
    <2>6. ASSUME NEW v \in 0 .. n
          PROVE  f[v] = IF v < 128 THEN <<v>>
                        ELSE <<(v % 128) + 128>> \o f[v \div 128]
      <3>1. CASE v < 128
        <4>1. CASE v = n
          BY <3>1, <4>1 DEF top
        <4>2. CASE v # n
          <5>1. v \in 0 .. n - 1 /\ f[v] = g[v]
            BY <2>1, <4>2
          <5>2. QED
            BY <2>3, <3>1, <5>1
        <4>3. QED
          BY <4>1, <4>2
      <3>2. CASE ~(v < 128)
        <4>1. v \div 128 \in 0 .. n /\ v \div 128 # n
          BY <3>2, Groups
        <4>2. f[v \div 128] = g[v \div 128]
          BY <4>1
        <4>3. CASE v = n
          BY <3>2, <4>2, <4>3 DEF top
        <4>4. CASE v # n
          <5>1. v \in 0 .. n - 1 /\ f[v] = g[v]
            BY <2>1, <4>4
          <5>2. QED
            BY <2>3, <3>2, <4>2, <5>1, SMTT(30)
        <4>5. QED
          BY <4>3, <4>4
      <3>3. QED
        BY <3>1, <3>2
    <2> HIDE DEF f
    <2>7. VarintsTo(f, n)
      BY <2>5, <2>6 DEF VarintsTo
    <2>8. QED
      BY <1>2, <2>7
  <1>5. QED
    BY <1>3, <1>4

\* ... and any two agree.
LEMMA VarintsAgree ==
    ASSUME NEW m \in Nat, NEW n \in Nat, NEW f, NEW g,
           VarintsTo(f, m), VarintsTo(g, n), NEW k \in Nat, k <= m, k <= n
    PROVE  f[k] = g[k]
  <1> DEFINE T == {v \in Nat : v <= m /\ v <= n /\ f[v] # g[v]}
  <1>1. SUFFICES ASSUME T # {} PROVE FALSE
    OBVIOUS
  <1>2. PICK v \in T : \A w \in T : v <= w
    BY <1>1, LeastNatural
  <1>3. v \in 0 .. m /\ v \in 0 .. n
    BY <1>2
  <1>4. /\ f[v] = IF v < 128 THEN <<v>> ELSE <<(v % 128) + 128>> \o f[v \div 128]
        /\ g[v] = IF v < 128 THEN <<v>> ELSE <<(v % 128) + 128>> \o g[v \div 128]
    BY <1>3 DEF VarintsTo
  <1>5. v >= 128
    BY <1>2, <1>4
  <1>6. v \div 128 \in Nat /\ v \div 128 < v
    BY <1>2, <1>5, Groups
  <1>7. v \div 128 \notin T
    BY <1>2, <1>6
  <1>8. f[v \div 128] = g[v \div 128]
    BY <1>3, <1>6, <1>7
  <1>9. QED
    BY <1>2, <1>4, <1>8

\* What pb_encode_varint writes.
LEMMA VarintIs ==
    ASSUME NEW v \in Nat
    PROVE  /\ pb_encode_varint(v) \in Bytes
           /\ pb_encode_varint(v) =
                 IF v < 128 THEN <<v>>
                 ELSE <<(v % 128) + 128>> \o pb_encode_varint(v \div 128)
           /\ Len(pb_encode_varint(v)) >= 1
  <1> DEFINE upto(n) == CHOOSE g : VarintsTo(g, n)
             f == [n \in Nat |-> upto(n)[n]]
  <1>1. \A n \in Nat : VarintsTo(upto(n), n)
    BY VarintsExist
  <1> HIDE DEF upto
  <1>2. ASSUME NEW n \in Nat PROVE upto(n)[n] \in Bytes
    <2>1. n \in 0 .. n
      OBVIOUS
    <2>2. QED
      BY <1>1, <2>1 DEF VarintsTo
  <1>3. ASSUME NEW n \in Nat
        PROVE  f[n] = IF n < 128 THEN <<n>> ELSE <<(n % 128) + 128>> \o f[n \div 128]
    <2>1. n \in 0 .. n /\ f[n] = upto(n)[n]
      OBVIOUS
    <2>2. upto(n)[n] = IF n < 128 THEN <<n>>
                       ELSE <<(n % 128) + 128>> \o upto(n)[n \div 128]
      BY <1>1, <2>1 DEF VarintsTo
    <2>3. CASE n < 128
      BY <2>1, <2>2, <2>3
    <2>4. CASE ~(n < 128)
      <3>1. n \div 128 \in Nat /\ n \div 128 <= n
        BY <2>4, Groups
      <3>2. upto(n)[n \div 128] = upto(n \div 128)[n \div 128]
        BY <1>1, <3>1, VarintsAgree
      <3>3. f[n \div 128] = upto(n \div 128)[n \div 128]
        BY <3>1
      <3> HIDE DEF f
      <3>4. QED
        BY <2>1, <2>2, <2>4, <3>1, <3>2, <3>3
    <2>5. QED
      BY <2>3, <2>4
  <1>4. \A n \in Nat : f[n] \in Bytes
    BY <1>2
  <1>5. f = [n \in Nat |-> f[n]]
    OBVIOUS
  <1> HIDE DEF f
  <1>6. f = [value \in Nat |-> IF value < 128 THEN <<value>>
                 ELSE <<(value % 128) + 128>> \o f[value \div 128]]
    BY <1>3, <1>5
  <1>7. \E h : h = [value \in Nat |-> IF value < 128 THEN <<value>>
                 ELSE <<(value % 128) + 128>> \o h[value \div 128]]
    BY <1>6
  <1>8. VarintOf = [value \in Nat |-> IF value < 128 THEN <<value>>
                 ELSE <<(value % 128) + 128>> \o VarintOf[value \div 128]]
    BY <1>7 DEF VarintOf
  <1> DEFINE T == {n \in Nat : ~(VarintOf[n] \in Bytes /\ Len(VarintOf[n]) >= 1)}
  <1>9. ASSUME T # {} PROVE FALSE
    <2>1. PICK n \in T : \A m \in T : n <= m
      BY <1>9, LeastNatural
    <2>2. VarintOf[n] = IF n < 128 THEN <<n>>
                        ELSE <<(n % 128) + 128>> \o VarintOf[n \div 128]
      BY <1>8, <2>1
    <2>3. CASE n < 128
      <3>1. VarintOf[n] = <<n>>
        BY <2>2, <2>3
      <3>2. <<n>> \in Bytes /\ Len(<<n>>) = 1
        BY <2>1, OneByte
      <3>3. VarintOf[n] \in Bytes /\ Len(VarintOf[n]) = 1
        BY <3>1, <3>2, Zenon
      <3>4. QED
        BY <2>1, <3>3
    <2>4. CASE ~(n < 128)
      <3>1. n \div 128 \in Nat /\ n \div 128 < n /\ (n % 128) + 128 \in Int
        BY <2>1, <2>4, Groups
      <3>2. n \div 128 \notin T
        BY <2>1, <3>1
      <3>3. VarintOf[n \div 128] \in Bytes /\ Len(VarintOf[n \div 128]) >= 1
        BY <3>1, <3>2
      <3>4. <<(n % 128) + 128>> \in Bytes /\ Len(<<(n % 128) + 128>>) = 1
        BY <3>1, OneByte
      <3>5. VarintOf[n] = <<(n % 128) + 128>> \o VarintOf[n \div 128]
        BY <2>2, <2>4
      <3>6. VarintOf[n] \in Bytes /\ Len(VarintOf[n]) = 1 + Len(VarintOf[n \div 128])
            /\ Len(VarintOf[n \div 128]) \in Nat
        BY <3>3, <3>4, <3>5, Joins
      <3>7. QED
        BY <2>1, <3>3, <3>6
    <2>5. QED
      BY <2>3, <2>4
  <1>10. VarintOf[v] \in Bytes /\ Len(VarintOf[v]) >= 1
    BY <1>9
  <1>11. v \div 128 \in Nat
    BY Groups
  <1>12. QED
    BY <1>8, <1>10, <1>11 DEF pb_encode_varint

\* What is read after n bytes, if f says what is read after more.
ReadFrom(s, f, n) ==
    IF n = 10 \/ n >= Len(s) THEN ReadFails(After(s, n))
    ELSE IF s[n + 1] < 128 THEN Read(s[n + 1], After(s, n + 1))
    ELSE With(f[n + 1], LAMBDA more, rest :
              Read((s[n + 1] % 128) + 128 * more, rest))

\* The recursive definition of VarintFrom defines a function.
LEMMA FromExists ==
    ASSUME NEW s
    PROVE  \E f : f = [n \in 0 .. 10 |-> ReadFrom(s, f, n)]
  <1> DEFINE E(j) == \E f : f = [n \in 10 - j .. 10 |-> ReadFrom(s, f, n)]
             T == {j \in Nat : j <= 10 /\ ~E(j)}
  <1>1. SUFFICES ASSUME T # {} PROVE FALSE
    <2>1. E(10)
      <3>1. 10 \notin T
        BY <1>1
      <3>2. QED
        BY <3>1
    <2>2. QED
      BY <2>1
  <1>2. PICK j \in T : \A i \in T : j <= i
    BY <1>1, LeastNatural
  <1>3. CASE j = 0
    <2> DEFINE f == [n \in 10 - j .. 10 |-> ReadFrom(s, <<>>, n)]
    <2>1. ASSUME NEW n \in 10 - j .. 10 PROVE ReadFrom(s, f, n) = ReadFrom(s, <<>>, n)
      <3>1. n = 10
        BY <1>3
      <3>2. QED
        BY <3>1 DEF ReadFrom, With
    <2>2. f = [n \in 10 - j .. 10 |-> ReadFrom(s, f, n)]
      BY <2>1
    <2>3. QED
      BY <1>2, <2>2
  <1>4. CASE j # 0
    <2>1. j \in 1 .. 10 /\ j - 1 \in Nat /\ j - 1 \notin T /\ 10 - (j - 1) = 10 - j + 1
      BY <1>2, <1>4
    <2>2. PICK g : g = [n \in 10 - (j - 1) .. 10 |-> ReadFrom(s, g, n)]
      BY <2>1
    <2> DEFINE f == [n \in 10 - j .. 10 |-> IF n = 10 - j THEN ReadFrom(s, g, n) ELSE g[n]]
    <2>3. ASSUME NEW n \in 10 - j .. 10 PROVE ReadFrom(s, f, n) = ReadFrom(s, g, n)
      <3>1. CASE n = 10
        BY <3>1 DEF ReadFrom, With
      <3>2. CASE n # 10
        <4>1. n + 1 \in 10 - j .. 10 /\ n + 1 # 10 - j
          BY <2>1, <3>2
        <4>2. f[n + 1] = g[n + 1]
          BY <4>1
        <4> HIDE DEF f
        <4>3. QED
          BY <4>2 DEF ReadFrom, With
      <3>3. QED
        BY <3>1, <3>2
    <2>4. ASSUME NEW n \in 10 - j .. 10, n # 10 - j PROVE g[n] = ReadFrom(s, g, n)
      <3>1. n \in 10 - (j - 1) .. 10
        BY <2>1, <2>4
      <3>2. QED
        BY <2>2, <3>1
    <2>5. ASSUME NEW n \in 10 - j .. 10 PROVE f[n] = ReadFrom(s, f, n)
      <3>1. f[n] = ReadFrom(s, g, n)
        BY <2>4
      <3> HIDE DEF f
      <3>2. QED
        BY <2>3, <3>1
    <2>6. f = [n \in 10 - j .. 10 |-> f[n]]
      OBVIOUS
    <2> HIDE DEF f
    <2>7. f = [n \in 10 - j .. 10 |-> ReadFrom(s, f, n)]
      BY <2>5, <2>6
    <2>8. QED
      BY <1>2, <2>7
  <1>5. QED
    BY <1>3, <1>4

\* What pb_decode_varint reads after n bytes.
LEMMA FromIs ==
    ASSUME NEW s
    PROVE  VarintFrom(s) = [n \in 0 .. 10 |-> ReadFrom(s, VarintFrom(s), n)]
  <1>1. \E f : f = [n \in 0 .. 10 |->
          IF n = 10 \/ n >= Len(s) THEN ReadFails(After(s, n))
          ELSE IF s[n + 1] < 128 THEN Read(s[n + 1], After(s, n + 1))
          ELSE With(f[n + 1], LAMBDA more, rest :
                    Read((s[n + 1] % 128) + 128 * more, rest))]
    BY FromExists DEF ReadFrom, With
  <1>2. QED
    BY <1>1 DEF VarintFrom, ReadFrom, With

\* A stream whose rest after n bytes is one byte and t.
LEMMA NextByte ==
    ASSUME NEW s \in Bytes, NEW n \in Nat, n <= Len(s), NEW c \in Int, NEW t \in Bytes,
           After(s, n) = <<c>> \o t
    PROVE  n < Len(s) /\ s[n + 1] = c /\ After(s, n + 1) = t
  <1> DEFINE h == <<c>>
  <1>1. h \in Bytes /\ Len(h) = 1 /\ h[1] = c
    BY OneByte
  <1>2. After(s, n) = h \o t
    OBVIOUS
  <1> HIDE DEF h
  <1>3. n \in 0 .. Len(s) /\ Len(s) \in Nat
    BY LenProperties DEF Bytes
  <1>4. /\ Len(After(s, n)) = Len(s) - n
        /\ \A i \in 1 .. Len(s) - n : After(s, n)[i] = s[n + i]
    BY <1>3, AfterIs
  <1>5. /\ Len(h \o t) = Len(h) + Len(t) /\ Len(t) \in Nat
        /\ \A i \in 1 .. Len(h) : (h \o t)[i] = h[i]
        /\ \A i \in 1 .. Len(t) : (h \o t)[Len(h) + i] = t[i]
    BY <1>1, Joins
  <1>6. /\ Len(h \o t) = 1 + Len(t) /\ (h \o t)[1] = c
        /\ \A i \in 1 .. Len(t) : (h \o t)[1 + i] = t[i]
    BY <1>1, <1>5
  <1>7. Len(s) - n = 1 + Len(t) /\ s[n + 1] = c
    <2>1. Len(s) - n = 1 + Len(t)
      BY <1>2, <1>4, <1>6, Zenon
    <2>2. 1 \in 1 .. Len(s) - n
      BY <1>5, <2>1
    <2>3. After(s, n)[1] = c
      BY <1>2, <1>6, Zenon
    <2>4. After(s, n)[1] = s[n + 1]
      BY <1>4, <2>2, Zenon
    <2>5. QED
      BY <2>1, <2>3, <2>4
  <1>8. n + 1 \in 0 .. Len(s) /\ n < Len(s)
    BY <1>3, <1>5, <1>7
  <1>9. /\ After(s, n + 1) \in Bytes /\ Len(After(s, n + 1)) = Len(s) - (n + 1)
        /\ \A i \in 1 .. Len(s) - (n + 1) : After(s, n + 1)[i] = s[(n + 1) + i]
    BY <1>8, AfterIs
  <1>10. ASSUME NEW i \in 1 .. Len(t) PROVE After(s, n + 1)[i] = t[i]
    <2>1. i \in 1 .. Len(s) - (n + 1) /\ 1 + i \in 1 .. Len(s) - n
          /\ (n + 1) + i = n + (1 + i)
      <3>1. Len(t) \in Nat /\ n \in Nat /\ Len(s) \in Nat /\ Len(s) - n = 1 + Len(t)
        BY <1>3, <1>5, <1>7
      <3>2. QED
        BY <3>1
    <2> DEFINE j == 1 + i
    <2>2. s[n + j] = (h \o t)[j] /\ j = 1 + i
      <3>1. j \in 1 .. Len(s) - n
        BY <2>1
      <3> HIDE DEF j
      <3>2. After(s, n)[j] = s[n + j]
        BY <1>4, <3>1, Zenon
      <3>3. QED
        BY <1>2, <3>2, Zenon DEF j
    <2>3. QED
      BY <1>6, <1>9, <2>1, <2>2
  <1>11. Len(After(s, n + 1)) = Len(t)
    BY <1>3, <1>5, <1>7, <1>9
  <1>12. After(s, n + 1) = t
    BY <1>9, <1>10, <1>11, SeqEqual DEF Bytes
  <1>13. QED
    BY <1>7, <1>8, <1>12

\* The numbers below b are read back after n bytes.
ReadsBack(b, n) ==
    \A v \in Nat : v < b => \A s, t \in Bytes :
        n <= Len(s) /\ After(s, n) = pb_encode_varint(v) \o t =>
            VarintFrom(s)[n] = Read(v, t)

\* The last group of seven bits.
LEMMA OneGroup ==
    ASSUME NEW n \in 0 .. 9 PROVE ReadsBack(128, n)
  <1> SUFFICES ASSUME NEW v \in Nat, v < 128, NEW s \in Bytes, NEW t \in Bytes,
                      n <= Len(s), After(s, n) = pb_encode_varint(v) \o t
               PROVE  VarintFrom(s)[n] = Read(v, t)
    BY DEF ReadsBack
  <1>1. pb_encode_varint(v) = <<v>>
    BY VarintIs
  <1>2. n \in Nat /\ v \in Int /\ n \in 0 .. 10
    OBVIOUS
  <1>3. n < Len(s) /\ s[n + 1] = v /\ After(s, n + 1) = t
    BY <1>1, <1>2, NextByte
  <1>4. VarintFrom(s)[n] = ReadFrom(s, VarintFrom(s), n)
    BY <1>2, FromIs
  <1>5. n # 10 /\ ~(n >= Len(s)) /\ s[n + 1] < 128
    BY <1>3, LenProperties DEF Bytes
  <1>6. QED
    BY <1>3, <1>4, <1>5 DEF ReadFrom, With

\* If those below b are after n + 1 bytes, those below 128 * b are after n.
LEMMA MoreGroups ==
    ASSUME NEW b \in Nat, NEW n \in 0 .. 8, ReadsBack(b, n + 1)
    PROVE  ReadsBack(128 * b, n)
  <1> SUFFICES ASSUME NEW v \in Nat, v < 128 * b, NEW s \in Bytes, NEW t \in Bytes,
                      n <= Len(s), After(s, n) = pb_encode_varint(v) \o t
               PROVE  VarintFrom(s)[n] = Read(v, t)
    BY DEF ReadsBack
  <1>1. CASE v < 128
    <2>1. ReadsBack(128, n)
      BY OneGroup
    <2>2. QED
      BY <1>1, <2>1, Zenon DEF ReadsBack
  <1>2. CASE ~(v < 128)
    <2> DEFINE w == v \div 128
               c == (v % 128) + 128
               e == pb_encode_varint(w)
    <2>1. /\ w \in Nat /\ c \in Int /\ ~(c < 128) /\ (c % 128) + 128 * w = v /\ w < b
      BY Groups
    <2>2. pb_encode_varint(v) = <<c>> \o e /\ e \in Bytes
      BY <1>2, <2>1, VarintIs
    <2> HIDE DEF w, c, e
    <2>3. n \in Nat /\ n \in 0 .. 10 /\ n + 1 \in Nat
      OBVIOUS
    <2>4. After(s, n) = <<c>> \o (e \o t) /\ e \o t \in Bytes
      <3>1. <<c>> \in Seq(Int) /\ e \in Seq(Int) /\ t \in Seq(Int)
        BY <2>1, <2>2, OneByte DEF Bytes
      <3>2. (<<c>> \o e) \o t = <<c>> \o (e \o t)
        BY <3>1, ConcatAssociative, SMTT(30)
      <3>3. e \o t \in Bytes
        BY <2>2, Joins
      <3>4. QED
        BY <2>2, <3>2, <3>3
    <2>5. n < Len(s) /\ s[n + 1] = c /\ After(s, n + 1) = e \o t
      <3> DEFINE u == e \o t
      <3>1. u \in Bytes /\ After(s, n) = <<c>> \o u
        BY <2>4
      <3> HIDE DEF u
      <3>2. n < Len(s) /\ s[n + 1] = c /\ After(s, n + 1) = u
        BY <2>1, <2>3, <3>1, NextByte
      <3>3. QED
        BY <3>2 DEF u
    <2>6. Len(s) \in Nat
      BY LenProperties DEF Bytes
    <2>7. n + 1 <= Len(s) /\ n # 10 /\ ~(n >= Len(s)) /\ ~(s[n + 1] < 128)
      BY <2>1, <2>5, <2>6
    <2>8. VarintFrom(s)[n + 1] = Read(w, t)
      <3>1. After(s, n + 1) = pb_encode_varint(w) \o t
        BY <2>5 DEF e
      <3>2. QED
        BY <2>1, <2>7, <3>1, ZenonT(30) DEF ReadsBack
    <2>9. VarintFrom(s)[n] = ReadFrom(s, VarintFrom(s), n)
      BY <2>3, FromIs
    <2>10. /\ VarintFrom(s)[n + 1].ok /\ VarintFrom(s)[n + 1].val = w
           /\ VarintFrom(s)[n + 1].rest = t
      BY <2>8 DEF Read
    <2>11. VarintFrom(s)[n] = Read((c % 128) + 128 * w, t)
      BY <2>5, <2>7, <2>9, <2>10 DEF ReadFrom, With
    <2>12. QED
      BY <2>1, <2>11
  <1>3. QED
    BY <1>1, <1>2

\* Five groups of seven bits hold every number that is written.
LEMMA MaxIntIs == MaxInt \in Nat /\ 2 * MaxInt + 1 < 128 * (128 * (128 * (128 * 128)))
  BY SMT DEF MaxInt

\* A package is not too long for an int, nor for four groups of seven bits.
LEMMA PackageFits ==
    /\ PC_PKG_MAX_BODY_BYTES \in Nat /\ PC_PKG_MAX_BODY_BYTES <= MaxInt
    /\ PC_PKG_MAX_BODY_BYTES < 128 * (128 * (128 * 128))
  BY SMT DEF PC_PKG_MAX_BODY_BYTES, MaxInt

\* Every number of 32 bits that pb_encode_varint writes is read back, and the
\* stream goes on behind it.
THEOREM VarintReadsBack ==
    ASSUME NEW v \in 0 .. 2 * MaxInt + 1, NEW t \in Bytes
    PROVE  pb_decode_varint(pb_encode_varint(v) \o t) = Read(v, t)
  <1> DEFINE b2 == 128 * 128
             b3 == 128 * b2
             b4 == 128 * b3
             b5 == 128 * b4
  <1>0. /\ b2 \in Nat /\ b3 \in Nat /\ b4 \in Nat /\ b5 \in Nat
        /\ v \in Nat /\ v < b5
    <2>1. b5 = 128 * (128 * (128 * (128 * 128)))
      OBVIOUS
    <2>2. b2 \in Nat
      OBVIOUS
    <2> HIDE DEF b2
    <2>3. b3 \in Nat
      BY <2>2
    <2> HIDE DEF b3
    <2>4. b4 \in Nat
      BY <2>3
    <2> HIDE DEF b4
    <2>5. b5 \in Nat
      BY <2>4
    <2> HIDE DEF b5
    <2>6. MaxInt \in Nat /\ 2 * MaxInt + 1 < b5
      BY <2>1, MaxIntIs
    <2>7. QED
      BY <2>2, <2>3, <2>4, <2>5, <2>6
  <1>2. ReadsBack(128, 4)
    BY OneGroup
  <1>3. 3 + 1 = 4 /\ 2 + 1 = 3 /\ 1 + 1 = 2 /\ 0 + 1 = 1
    OBVIOUS
  <1>4. ReadsBack(b2, 3)
    BY <1>2, <1>3, MoreGroups
  <1> HIDE DEF b2
  <1>5. ReadsBack(b3, 2)
    BY <1>0, <1>3, <1>4, MoreGroups
  <1> HIDE DEF b3
  <1>6. ReadsBack(b4, 1)
    BY <1>0, <1>3, <1>5, MoreGroups
  <1> HIDE DEF b4
  <1>7. ReadsBack(b5, 0)
    BY <1>0, <1>3, <1>6, MoreGroups
  <1> HIDE DEF b5
  <1> DEFINE s == pb_encode_varint(v) \o t
  <1>8. s \in Bytes
    BY <1>0, VarintIs, Joins
  <1>9. 0 <= Len(s) /\ After(s, 0) = s
    <2>1. Len(s) \in Nat
      BY <1>8, LenProperties DEF Bytes
    <2>2. 0 + 1 = 1
      OBVIOUS
    <2>3. SubSeq(s, 0 + 1, Len(s)) = s
      BY <1>8, <2>2, SubSeqFull DEF Bytes
    <2>4. QED
      BY <2>1, <2>3 DEF After
  <1>10. VarintFrom(s)[0] = Read(v, t)
    BY <1>0, <1>7, <1>8, <1>9, Zenon DEF ReadsBack
  <1>11. QED
    BY <1>10 DEF pb_decode_varint
-----------------------------------------------------------------------------
(* The other primitives.                                                   *)

\* Three streams, one after the other.
LEMMA Assoc ==
    ASSUME NEW a \in Bytes, NEW b \in Bytes, NEW c \in Bytes
    PROVE  (a \o b) \o c = a \o (b \o c)
  BY ConcatAssociative DEF Bytes

\* A stream and the empty one.
LEMMA Nothing ==
    /\ <<>> \in Bytes /\ Len(<<>>) = 0
    /\ \A s \in Bytes : s \o <<>> = s /\ <<>> \o s = s
                        /\ Len(s) \in Nat /\ (s # <<>> <=> Len(s) > 0)
  <1>1. <<>> \in Bytes /\ Len(<<>>) = 0
    BY EmptySeq DEF Bytes
  <1>2. ASSUME NEW s \in Bytes
        PROVE  s \o <<>> = s /\ <<>> \o s = s
               /\ Len(s) \in Nat /\ (s # <<>> <=> Len(s) > 0)
    BY ConcatEmptySeq, LenProperties, EmptySeq DEF Bytes
  <1>3. QED
    BY <1>1, <1>2

\* pb_encode_varint writes one byte at least.
LEMMA VarintBytes ==
    ASSUME NEW v \in Nat
    PROVE  pb_encode_varint(v) \in Bytes /\ Len(pb_encode_varint(v)) >= 1
  BY VarintIs

\* The number whose varint pb_encode_svarint writes.
Zigzag(n) == IF n < 0 THEN -2 * n - 1 ELSE 2 * n

\* It is a number of 32 bits, from which n can be told.
LEMMA ZigzagIs ==
    ASSUME NEW n \in Int, -MaxInt <= n, n <= MaxInt
    PROVE  /\ Zigzag(n) \in 0 .. 2 * MaxInt + 1
           /\ n = IF Zigzag(n) % 2 = 1 THEN -((Zigzag(n) + 1) \div 2)
                  ELSE Zigzag(n) \div 2
  <1>1. MaxInt \in Nat
    BY MaxIntIs
  <1>2. CASE n < 0
    <2>1. Zigzag(n) = -2 * n - 1
      BY <1>2 DEF Zigzag
    <2>2. Zigzag(n) % 2 = 1 /\ (Zigzag(n) + 1) \div 2 = -n
      BY <2>1, <1>2
    <2>3. QED
      BY <1>1, <1>2, <2>1, <2>2
  <1>3. CASE ~(n < 0)
    <2>1. Zigzag(n) = 2 * n
      BY <1>3 DEF Zigzag
    <2>2. Zigzag(n) % 2 = 0 /\ Zigzag(n) \div 2 = n
      BY <2>1, <1>3
    <2>3. QED
      BY <1>1, <1>3, <2>1, <2>2
  <1>4. QED
    BY <1>2, <1>3

\* Every signed number that pb_encode_svarint writes is read back.
LEMMA SvarintReadsBack ==
    ASSUME NEW n \in Int, -MaxInt <= n, n <= MaxInt, NEW t \in Bytes
    PROVE  /\ pb_encode_svarint(n) \in Bytes /\ Len(pb_encode_svarint(n)) >= 1
           /\ pb_decode_svarint(pb_encode_svarint(n) \o t) = Read(n, t)
  <1> DEFINE z == Zigzag(n)
  <1>1. /\ z \in 0 .. 2 * MaxInt + 1
        /\ n = IF z % 2 = 1 THEN -((z + 1) \div 2) ELSE z \div 2
    BY ZigzagIs
  <1>2. pb_encode_svarint(n) = pb_encode_varint(z)
    BY DEF pb_encode_svarint, Zigzag
  <1> HIDE DEF z
  <1>3. z \in Nat
    BY <1>1
  <1> DEFINE r == pb_decode_varint(pb_encode_varint(z) \o t)
  <1>4. r = Read(z, t)
    BY <1>1, VarintReadsBack
  <1>5. r.ok /\ r.val = z /\ r.rest = t
    BY <1>4 DEF Read
  <1> HIDE DEF r
  <1>6. (IF r.ok THEN Read(IF r.val % 2 = 1 THEN -((r.val + 1) \div 2)
                           ELSE r.val \div 2, r.rest) ELSE r) = Read(n, t)
    BY <1>1, <1>5
  <1>7. pb_decode_svarint(pb_encode_svarint(n) \o t) = Read(n, t)
    BY <1>2, <1>6 DEF pb_decode_svarint, With, r
  <1>8. QED
    BY <1>2, <1>3, <1>7, VarintBytes

\* The first bytes of a stream.
LEMMA ReadsPart ==
    ASSUME NEW s \in Bytes, NEW t \in Bytes
    PROVE  pb_read(s \o t, Len(s)) = Read(s, t)
  <1>1. /\ Len(s \o t) = Len(s) + Len(t) /\ Len(s) \in Nat /\ Len(t) \in Nat
        /\ After(s \o t, Len(s)) = t /\ SubSeq(s \o t, 1, Len(s)) = s
    BY Joins
  <1>2. ~(Len(s \o t) < Len(s))
    BY <1>1
  <1>3. QED
    BY <1>1, <1>2 DEF pb_read

\* A string is read back by its length.
LEMMA StringReadsBack ==
    ASSUME NEW s \in Bytes, Len(s) <= MaxInt, NEW t \in Bytes
    PROVE  /\ pb_encode_string(s) \in Bytes /\ Len(pb_encode_string(s)) >= 1
           /\ pb_decode_varint(pb_encode_string(s) \o t) = Read(Len(s), s \o t)
           /\ pb_decode_string(pb_encode_string(s) \o t) = Read(s, t)
  <1> DEFINE e == pb_encode_varint(Len(s))
  <1>1. Len(s) \in Nat /\ Len(s) \in 0 .. 2 * MaxInt + 1
    BY MaxIntIs, Nothing
  <1>2. e \in Bytes /\ Len(e) >= 1
    BY <1>1, VarintBytes
  <1>3. pb_encode_string(s) = e \o s
    BY DEF pb_encode_string
  <1>4. s \o t \in Bytes /\ e \o s \in Bytes /\ Len(e \o s) >= 1
    BY <1>1, <1>2, Joins
  <1>5. (e \o s) \o t = e \o (s \o t)
    BY <1>2, Assoc
  <1>6. pb_decode_varint(e \o (s \o t)) = Read(Len(s), s \o t)
    BY <1>1, <1>4, VarintReadsBack
  <1> HIDE DEF e
  <1> DEFINE r == pb_decode_varint(pb_encode_string(s) \o t)
  <1>7. r = Read(Len(s), s \o t)
    BY <1>3, <1>5, <1>6
  <1>8. r.ok /\ r.val = Len(s) /\ r.rest = s \o t
    BY <1>7 DEF Read
  <1> HIDE DEF r
  <1>9. (IF r.ok THEN pb_read(r.rest, r.val) ELSE r) = Read(s, t)
    BY <1>8, ReadsPart
  <1>10. pb_decode_string(pb_encode_string(s) \o t) = Read(s, t)
    BY <1>9 DEF pb_decode_string, With, r
  <1>11. QED
    BY <1>3, <1>4, <1>7, <1>10 DEF r

\* The bytes of a float or a double.
LEMMA FixedReadsBack ==
    ASSUME NEW n \in Int, NEW w \in {4, 8}, NEW t \in Bytes
    PROVE  /\ pb_encode_fixed(n, w) \in Bytes /\ Len(pb_encode_fixed(n, w)) >= 1
           /\ pb_decode_fixed(pb_encode_fixed(n, w) \o t, w) = Read(<<Num(n)>>, t)
  <1> DEFINE e == pb_encode_fixed(n, w)
  <1>1. e \in Bytes /\ Len(e) = w /\ e[1] = n
    BY DEF pb_encode_fixed, Bytes
  <1> HIDE DEF e
  <1> DEFINE r == pb_read(e \o t, w)
  <1>2. r = Read(e, t)
    BY <1>1, ReadsPart
  <1>3. r.ok /\ r.val[1] = n /\ r.rest = t
    BY <1>1, <1>2 DEF Read
  <1> HIDE DEF r
  <1>4. (IF r.ok THEN Read(<<Num(r.val[1])>>, r.rest) ELSE r) = Read(<<Num(n)>>, t)
    BY <1>3
  <1>5. pb_decode_fixed(e \o t, w) = Read(<<Num(n)>>, t)
    BY <1>4 DEF pb_decode_fixed, Value, With, r
  <1>6. QED
    BY <1>1, <1>5 DEF e

\* The tag of a field.
LEMMA TagReadsBack ==
    ASSUME NEW field, field.tag \in 1 .. MaxInt \div 8 - 1, NEW t \in Bytes
    PROVE  LET e == pb_encode_tag_for_field(field)
           IN  /\ e.ok /\ e.bytes \in Bytes /\ Len(e.bytes) >= 1
               /\ pb_decode_tag(e.bytes \o t) = Read(field.tag, t)
  <1> DEFINE c == pb__get_constant_type(field.type)
             v == c + 8 * field.tag
             e == pb_encode_tag_for_field(field)
  <1>1. c \in 0 .. 7
    BY DEF pb__get_constant_type
  <1>2. e.ok /\ e.bytes = pb_encode_varint(v)
    BY DEF pb_encode_tag_for_field, Ok
  <1> HIDE DEF c
  <1>3. MaxInt \in Nat /\ field.tag \in Nat /\ field.tag >= 1 /\ 8 * (field.tag + 1) <= MaxInt
    <2>1. MaxInt \in Nat
      BY MaxIntIs
    <2>2. 8 * (MaxInt \div 8) <= MaxInt /\ MaxInt \div 8 \in Nat
      BY <2>1
    <2>3. QED
      BY <2>1, <2>2
  <1>4. v \in 0 .. 2 * MaxInt + 1 /\ v # 0 /\ v \div 8 = field.tag /\ v \in Nat
    BY <1>1, <1>3
  <1> HIDE DEF v
  <1> DEFINE r == pb_decode_varint(e.bytes \o t)
  <1>5. r = Read(v, t)
    BY <1>2, <1>4, VarintReadsBack
  <1>6. r.ok /\ r.val = v /\ r.rest = t
    BY <1>5 DEF Read
  <1> HIDE DEF r
  <1>7. pb_decode_tag(e.bytes \o t) = Read(field.tag, t)
    <2>1. (IF r.ok /\ r.val # 0 THEN Read(r.val \div 8, r.rest)
           ELSE [ok |-> FALSE, eof |-> r.ok \/ r.rest = <<>>, rest |-> r.rest])
             = Read(field.tag, t)
      BY <1>4, <1>6
    <2>2. QED
      BY <2>1 DEF pb_decode_tag, r
  <1>8. QED
    BY <1>2, <1>4, <1>7, VarintBytes
-----------------------------------------------------------------------------
(* The recursive functions of the codec.                                   *)

\* The recursive definition of Joined defines a function.
LEMMA JoinedExist ==
    ASSUME NEW ss, NEW N \in Nat
    PROVE  \E f : f = [n \in 0 .. N |-> IF n = 0 THEN <<>> ELSE f[n - 1] \o ss[n]]
  <1> DEFINE E(j) == \E f : f = [n \in 0 .. j |->
                                   IF n = 0 THEN <<>> ELSE f[n - 1] \o ss[n]]
             T == {j \in Nat : ~E(j)}
  <1>1. SUFFICES ASSUME T # {} PROVE FALSE
    <2>1. N \notin T
      BY <1>1
    <2>2. QED
      BY <2>1
  <1>2. PICK j \in T : \A i \in T : j <= i
    BY <1>1, LeastNatural
  <1>3. j # 0
    <2>1. SUFFICES E(0)
      BY <1>2
    <2> DEFINE f == [n \in 0 .. 0 |-> <<>>]
    <2>2. f = [n \in 0 .. 0 |-> IF n = 0 THEN <<>> ELSE f[n - 1] \o ss[n]]
      OBVIOUS
    <2>3. QED
      BY <2>2
  <1>4. j - 1 \in Nat /\ j - 1 \notin T
    <2>1. j \in Nat
      BY <1>2
    <2>2. j - 1 \in Nat /\ ~(j <= j - 1)
      BY <1>3, <2>1
    <2> HIDE DEF T
    <2>3. QED
      BY <1>2, <2>2
  <1>5. PICK g : g = [n \in 0 .. j - 1 |-> IF n = 0 THEN <<>> ELSE g[n - 1] \o ss[n]]
    BY <1>4
  <1> DEFINE f == [n \in 0 .. j |-> IF n = j THEN g[j - 1] \o ss[j] ELSE g[n]]
  <1>6. ASSUME NEW n \in 0 .. j
        PROVE  f[n] = IF n = 0 THEN <<>> ELSE f[n - 1] \o ss[n]
    <2>1. CASE n = j
      <3>0. f[n] = g[j - 1] \o ss[j]
        BY <2>1
      <3>1. n - 1 \in 0 .. j /\ n - 1 # j /\ n # 0
        BY <1>3, <2>1
      <3>2. f[n - 1] = g[j - 1]
        BY <2>1, <3>1
      <3> HIDE DEF f
      <3>3. QED
        BY <2>1, <3>0, <3>1, <3>2
    <2>2. CASE n # j
      <3>1. n \in 0 .. j - 1 /\ f[n] = g[n]
        BY <2>2
      <3>2. g[n] = IF n = 0 THEN <<>> ELSE g[n - 1] \o ss[n]
        BY <1>5, <3>1
      <3>3. CASE n = 0
        BY <3>1, <3>2, <3>3
      <3>4. CASE n # 0
        <4>1. n - 1 \in 0 .. j /\ n - 1 # j
          BY <3>1, <3>4
        <4>2. f[n - 1] = g[n - 1]
          BY <4>1
        <4> HIDE DEF f
        <4>3. QED
          BY <3>1, <3>2, <3>4, <4>2
      <3>5. QED
        BY <3>3, <3>4
    <2>3. QED
      BY <2>1, <2>2
  <1>7. f = [n \in 0 .. j |-> f[n]]
    OBVIOUS
  <1> HIDE DEF f
  <1>8. f = [n \in 0 .. j |-> IF n = 0 THEN <<>> ELSE f[n - 1] \o ss[n]]
    BY <1>6, <1>7
  <1>9. QED
    BY <1>2, <1>8

\* An element after those of r.
OneMore(r, g, def, field) ==
    With(r, LAMBDA a, rest :
         With(pb_decode_proto(rest, g, def, field),
              LAMBDA v, more : Read(a \o v, more)))

\* The streams that are joined, one by one.
LEMMA JoinedIs ==
    ASSUME NEW ss, Len(ss) \in Nat
    PROVE  /\ Joined(ss)[0] = <<>>
           /\ \A n \in 1 .. Len(ss) : Joined(ss)[n] = Joined(ss)[n - 1] \o ss[n]
  <1>1. \E f : f = [n \in 0 .. Len(ss) |-> IF n = 0 THEN <<>> ELSE f[n - 1] \o ss[n]]
    BY JoinedExist
  <1>2. Joined(ss) = [n \in 0 .. Len(ss) |->
                        IF n = 0 THEN <<>> ELSE Joined(ss)[n - 1] \o ss[n]]
    BY <1>1 DEF Joined
  <1> DEFINE f == Joined(ss)
  <1> HIDE DEF f
  <1>3. f = [n \in 0 .. Len(ss) |-> IF n = 0 THEN <<>> ELSE f[n - 1] \o ss[n]]
    BY <1>2 DEF f
  <1>4. f[0] = <<>>
    BY <1>3, SMTT(30)
  <1>5. ASSUME NEW n \in 1 .. Len(ss) PROVE f[n] = f[n - 1] \o ss[n]
    <2>1. n \in 0 .. Len(ss) /\ n # 0
      OBVIOUS
    <2>2. QED
      BY <1>3, <2>1, ZenonT(30)
  <1>6. QED
    BY <1>4, <1>5 DEF f

\* The elements of a packed array, one by one.
LEMMA ElementsAre ==
    ASSUME NEW s, NEW gp, NEW def, NEW field, NEW size \in Nat, NEW array
    PROVE  LET f == Elements(s, gp, def, field, size, array)
           IN  /\ f[0] = Read(array, s)
               /\ \A n \in 1 .. size : f[n] = OneMore(f[n - 1], gp, def, field)
  <1> DEFINE h == Elements(s, gp, def, field, size, array)
  <1>1. \E f : f = [n \in 0 .. size |->
                      IF n = 0 THEN Read(array, s) ELSE OneMore(f[n - 1], gp, def, field)]
    <2> DEFINE E(j) == \E f : f = [n \in 0 .. j |->
                                     IF n = 0 THEN Read(array, s) ELSE OneMore(f[n - 1], gp, def, field)]
               T == {j \in Nat : ~E(j)}
    <2>1. SUFFICES ASSUME T # {} PROVE FALSE
      <3>1. size \notin T
        BY <2>1
      <3>2. QED
        BY <3>1
    <2>2. PICK j \in T : \A i \in T : j <= i
      BY <2>1, LeastNatural
    <2>3. j # 0
      <3>1. SUFFICES E(0)
        BY <2>2
      <3> DEFINE f == [n \in 0 .. 0 |-> Read(array, s)]
      <3>2. f = [n \in 0 .. 0 |-> IF n = 0 THEN Read(array, s) ELSE OneMore(f[n - 1], gp, def, field)]
        OBVIOUS
      <3>3. QED
        BY <3>2
    <2>4. j - 1 \in Nat /\ j - 1 \notin T
      <3>1. j \in Nat
        BY <2>2
      <3>2. j - 1 \in Nat /\ ~(j <= j - 1)
        BY <2>3, <3>1
      <3> HIDE DEF T
      <3>3. QED
        BY <2>2, <3>2
    <2>5. PICK g : g = [n \in 0 .. j - 1 |-> IF n = 0 THEN Read(array, s) ELSE OneMore(g[n - 1], gp, def, field)]
      BY <2>4
    <2> DEFINE f == [n \in 0 .. j |-> IF n = j THEN OneMore(g[j - 1], gp, def, field) ELSE g[n]]
    <2>6. ASSUME NEW n \in 0 .. j
          PROVE  f[n] = IF n = 0 THEN Read(array, s) ELSE OneMore(f[n - 1], gp, def, field)
      <3>1. CASE n = j
        <4>0. f[n] = OneMore(g[j - 1], gp, def, field)
          BY <3>1
        <4>1. n - 1 \in 0 .. j /\ n - 1 # j /\ n # 0
          BY <2>3, <3>1
        <4>2. f[n - 1] = g[j - 1]
          BY <3>1, <4>1
        <4> HIDE DEF f
        <4>3. QED
          BY <3>1, <4>0, <4>1, <4>2
      <3>2. CASE n # j
        <4>1. n \in 0 .. j - 1 /\ f[n] = g[n]
          BY <3>2
        <4>2. g[n] = IF n = 0 THEN Read(array, s) ELSE OneMore(g[n - 1], gp, def, field)
          BY <2>5, <4>1
        <4>3. CASE n = 0
          BY <4>1, <4>2, <4>3
        <4>4. CASE n # 0
          <5>1. n - 1 \in 0 .. j /\ n - 1 # j
            BY <4>1, <4>4
          <5>2. f[n - 1] = g[n - 1]
            BY <5>1
          <5> HIDE DEF f
          <5>3. QED
            BY <4>1, <4>2, <4>4, <5>2
        <4>5. QED
          BY <4>3, <4>4
      <3>3. QED
        BY <3>1, <3>2
    <2>7. f = [n \in 0 .. j |-> f[n]]
      OBVIOUS
    <2> HIDE DEF f
    <2>8. f = [n \in 0 .. j |-> IF n = 0 THEN Read(array, s) ELSE OneMore(f[n - 1], gp, def, field)]
      BY <2>6, <2>7
    <2>9. QED
      BY <2>2, <2>8
  <1>2. \E f : f = [n \in 0 .. size |->
                      IF n = 0 THEN Read(array, s)
                      ELSE With(f[n - 1], LAMBDA a, rest :
                             With(pb_decode_proto(rest, gp, def, field),
                                  LAMBDA v, more : Read(a \o v, more)))]
    BY <1>1 DEF OneMore, With
  <1>3. Elements(s, gp, def, field, size, array) = [n \in 0 .. size |->
                      IF n = 0 THEN Read(array, s)
                      ELSE With(Elements(s, gp, def, field, size, array)[n - 1],
                             LAMBDA a, rest :
                             With(pb_decode_proto(rest, gp, def, field),
                                  LAMBDA v, more : Read(a \o v, more)))]
    BY <1>2 DEF Elements, With
  <1> HIDE DEF h
  <1>4. h = [n \in 0 .. size |->
               IF n = 0 THEN Read(array, s) ELSE OneMore(h[n - 1], gp, def, field)]
    BY <1>3 DEF h, OneMore, With
  <1>5. h[0] = Read(array, s)
        /\ \A n \in 1 .. size : h[n] = OneMore(h[n - 1], gp, def, field)
    BY <1>4
  <1>6. QED
    BY <1>5 DEF h

\* The turns of the loop of pb_decode, one by one.
LEMMA TurnsAre ==
    ASSUME NEW s, NEW gp, NEW def, Len(s) \in Nat
    PROVE  LET f == Turns(s, gp, def)
           IN  /\ f[0] = GoOn(Read(NoFields, s))
               /\ \A n \in 1 .. Len(s) : f[n] = DecodeNext(f[n - 1], gp, def)
  <1> DEFINE h == Turns(s, gp, def)
  <1>1. \E f : f = [n \in 0 .. Len(s) |->
                      IF n = 0 THEN GoOn(Read(NoFields, s)) ELSE DecodeNext(f[n - 1], gp, def)]
    <2> DEFINE E(j) == \E f : f = [n \in 0 .. j |->
                                     IF n = 0 THEN GoOn(Read(NoFields, s)) ELSE DecodeNext(f[n - 1], gp, def)]
               T == {j \in Nat : ~E(j)}
    <2>1. SUFFICES ASSUME T # {} PROVE FALSE
      <3>1. Len(s) \notin T
        BY <2>1
      <3>2. QED
        BY <3>1
    <2>2. PICK j \in T : \A i \in T : j <= i
      BY <2>1, LeastNatural
    <2>3. j # 0
      <3>1. SUFFICES E(0)
        BY <2>2
      <3> DEFINE f == [n \in 0 .. 0 |-> GoOn(Read(NoFields, s))]
      <3>2. f = [n \in 0 .. 0 |-> IF n = 0 THEN GoOn(Read(NoFields, s)) ELSE DecodeNext(f[n - 1], gp, def)]
        OBVIOUS
      <3>3. QED
        BY <3>2
    <2>4. j - 1 \in Nat /\ j - 1 \notin T
      <3>1. j \in Nat
        BY <2>2
      <3>2. j - 1 \in Nat /\ ~(j <= j - 1)
        BY <2>3, <3>1
      <3> HIDE DEF T
      <3>3. QED
        BY <2>2, <3>2
    <2>5. PICK g : g = [n \in 0 .. j - 1 |-> IF n = 0 THEN GoOn(Read(NoFields, s)) ELSE DecodeNext(g[n - 1], gp, def)]
      BY <2>4
    <2> DEFINE f == [n \in 0 .. j |-> IF n = j THEN DecodeNext(g[j - 1], gp, def) ELSE g[n]]
    <2>6. ASSUME NEW n \in 0 .. j
          PROVE  f[n] = IF n = 0 THEN GoOn(Read(NoFields, s)) ELSE DecodeNext(f[n - 1], gp, def)
      <3>1. CASE n = j
        <4>0. f[n] = DecodeNext(g[j - 1], gp, def)
          BY <3>1
        <4>1. n - 1 \in 0 .. j /\ n - 1 # j /\ n # 0
          BY <2>3, <3>1
        <4>2. f[n - 1] = g[j - 1]
          BY <3>1, <4>1
        <4> HIDE DEF f
        <4>3. QED
          BY <3>1, <4>0, <4>1, <4>2
      <3>2. CASE n # j
        <4>1. n \in 0 .. j - 1 /\ f[n] = g[n]
          BY <3>2
        <4>2. g[n] = IF n = 0 THEN GoOn(Read(NoFields, s)) ELSE DecodeNext(g[n - 1], gp, def)
          BY <2>5, <4>1
        <4>3. CASE n = 0
          BY <4>1, <4>2, <4>3
        <4>4. CASE n # 0
          <5>1. n - 1 \in 0 .. j /\ n - 1 # j
            BY <4>1, <4>4
          <5>2. f[n - 1] = g[n - 1]
            BY <5>1
          <5> HIDE DEF f
          <5>3. QED
            BY <4>1, <4>2, <4>4, <5>2
        <4>5. QED
          BY <4>3, <4>4
      <3>3. QED
        BY <3>1, <3>2
    <2>7. f = [n \in 0 .. j |-> f[n]]
      OBVIOUS
    <2> HIDE DEF f
    <2>8. f = [n \in 0 .. j |-> IF n = 0 THEN GoOn(Read(NoFields, s)) ELSE DecodeNext(f[n - 1], gp, def)]
      BY <2>6, <2>7
    <2>9. QED
      BY <2>2, <2>8
  <1>2. Turns(s, gp, def) = [n \in 0 .. Len(s) |->
               IF n = 0 THEN GoOn(Read(NoFields, s))
               ELSE DecodeNext(Turns(s, gp, def)[n - 1], gp, def)]
    BY <1>1 DEF Turns
  <1> HIDE DEF h
  <1>3. h = [n \in 0 .. Len(s) |->
               IF n = 0 THEN GoOn(Read(NoFields, s)) ELSE DecodeNext(h[n - 1], gp, def)]
    BY <1>2 DEF h
  <1>4. h[0] = GoOn(Read(NoFields, s))
        /\ \A n \in 1 .. Len(s) : h[n] = DecodeNext(h[n - 1], gp, def)
    BY <1>3
  <1>5. QED
    BY <1>4 DEF h

\* Every key is visited, and only once.
LEMMA VisitedIs ==
    ASSUME NEW keys, IsFiniteSet(keys)
    PROVE  LET q == Visited(keys)
           IN  /\ Cardinality(keys) \in Nat
               /\ q \in [1 .. Cardinality(keys) -> keys]
               /\ \A k \in keys : \E i \in 1 .. Cardinality(keys) : q[i] = k
               /\ \A i, j \in 1 .. Cardinality(keys) : q[i] = q[j] => i = j
  <1> DEFINE N == Cardinality(keys)
             Once(q) == \A k \in keys : \E i \in DOMAIN q :
                            \A j \in DOMAIN q : q[j] = k <=> j = i
  <1>1. N \in Nat
    BY FS_CardinalityType
  <1>2. PICK f : f \in Bijection(1 .. N, keys)
    <2>1. IsFiniteSet(1 .. N) /\ Cardinality(1 .. N) = N
      BY <1>1, FS_Interval
    <2>2. ExistsBijection(1 .. N, keys)
      BY <2>1, FS_SameCardinalityBij
    <2>3. QED
      BY <2>2 DEF ExistsBijection
  <1> HIDE DEF N
  <1>3. /\ f \in [1 .. N -> keys]
        /\ \A k \in keys : \E i \in 1 .. N : f[i] = k
        /\ \A i, j \in 1 .. N : f[i] = f[j] => i = j
    BY <1>2 DEF Bijection, Injection, Surjection, IsInjective
  <1>4. Once(f)
    BY <1>3
  <1>5. \E q \in [1 .. N -> keys] : Once(q)
    BY <1>3, <1>4
  <1> DEFINE q == CHOOSE q \in [1 .. N -> keys] : Once(q)
  <1>6. q \in [1 .. N -> keys] /\ Once(q)
    BY <1>5
  <1>7. Visited(keys) = q
    BY DEF Visited, N
  <1> HIDE DEF q
  <1>8. \A k \in keys : \E i \in 1 .. N : q[i] = k
    BY <1>6
  <1>9. ASSUME NEW i \in 1 .. N, NEW j \in 1 .. N, q[i] = q[j] PROVE i = j
    BY <1>6, <1>9
  <1>10. QED
    BY <1>1, <1>6, <1>7, <1>8, <1>9 DEF N
-----------------------------------------------------------------------------
(* Streams that are joined.                                                *)

\* What Joined makes of the streams bs, from its end: Tails(N, bs, U) says that
\* U[n] is what follows the first n of them.
Tails(N, bs, U) ==
    /\ U \in [0 .. N -> Bytes]
    /\ U[N] = <<>>
    /\ \A n \in 1 .. N : U[n - 1] = bs[n] \o U[n]

\* The streams that are joined have tails, of which the first is the whole.
LEMMA JoinedTails ==
    ASSUME NEW N \in Nat, NEW bs \in [1 .. N -> Bytes], Len(bs) = N
    PROVE  /\ Joined(bs)[N] \in Bytes
           /\ \E U : Tails(N, bs, U) /\ U[0] = Joined(bs)[N]
  <1> DEFINE J == Joined(bs)
  <1>1. J[0] = <<>> /\ \A n \in 1 .. N : J[n] = J[n - 1] \o bs[n]
    BY JoinedIs
  <1> HIDE DEF J
  <1>2. \A n \in 0 .. N : J[n] \in Bytes
    <2> DEFINE T == {n \in Nat : n <= N /\ J[n] \notin Bytes}
    <2>1. SUFFICES ASSUME T # {} PROVE FALSE
      OBVIOUS
    <2>2. PICK n \in T : \A m \in T : n <= m
      BY <2>1, LeastNatural
    <2>3. n # 0
      BY <1>1, <2>2, Nothing
    <2>4. n \in 1 .. N /\ n - 1 \in Nat /\ n - 1 \notin T
      BY <2>2, <2>3
    <2>5. J[n - 1] \in Bytes /\ bs[n] \in Bytes /\ J[n] = J[n - 1] \o bs[n]
      BY <1>1, <2>4
    <2>6. J[n] \in Bytes
      BY <2>5, Joins
    <2>7. QED
      BY <2>2, <2>6
  <1>3. \A n \in 0 .. N : \E t \in Bytes : J[N] = J[n] \o t
    <2> DEFINE T == {j \in Nat : j <= N /\ ~\E t \in Bytes : J[N] = J[N - j] \o t}
    <2>1. SUFFICES ASSUME T # {} PROVE FALSE
      <3> SUFFICES ASSUME NEW n \in 0 .. N PROVE \E t \in Bytes : J[N] = J[n] \o t
        OBVIOUS
      <3>1. N - n \in Nat /\ N - n <= N /\ N - (N - n) = n
        OBVIOUS
      <3>2. N - n \notin T
        BY <2>1
      <3>3. QED
        BY <3>1, <3>2
    <2>2. PICK j \in T : \A m \in T : j <= m
      BY <2>1, LeastNatural
    <2>3. j # 0
      <3>1. J[N] = J[N] \o <<>> /\ <<>> \in Bytes
        BY <1>2, Nothing
      <3>2. N - 0 = N
        OBVIOUS
      <3>3. QED
        BY <2>2, <3>1, <3>2
    <2>4. j - 1 \in Nat /\ j - 1 <= N /\ j - 1 \notin T
      <3>1. j \in Nat /\ j <= N
        BY <2>2
      <3>2. j - 1 \in Nat /\ j - 1 <= N /\ ~(j <= j - 1)
        BY <2>3, <3>1
      <3> HIDE DEF T
      <3>3. QED
        BY <2>2, <3>2
    <2>5. PICK t \in Bytes : J[N] = J[N - (j - 1)] \o t
      BY <2>4
    <2> DEFINE n == N - (j - 1)
    <2>6. n \in 1 .. N /\ n - 1 = N - j /\ n - 1 \in 0 .. N
      BY <2>2, <2>3
    <2> HIDE DEF n
    <2>7. J[n] = J[n - 1] \o bs[n] /\ J[n - 1] \in Bytes /\ bs[n] \in Bytes
      BY <1>1, <1>2, <2>6
    <2>8. J[N] = J[n - 1] \o (bs[n] \o t)
      <3>1. J[N] = J[n] \o t
        BY <2>5 DEF n
      <3>2. (J[n - 1] \o bs[n]) \o t = J[n - 1] \o (bs[n] \o t)
        BY <2>7, Assoc
      <3>3. QED
        BY <2>7, <3>1, <3>2, Zenon
    <2>9. bs[n] \o t \in Bytes
      BY <2>7, Joins
    <2>10. QED
      BY <2>2, <2>6, <2>8, <2>9
  <1> DEFINE U == [n \in 0 .. N |-> After(J[N], Len(J[n]))]
  <1>4. ASSUME NEW n \in 0 .. N, NEW t \in Bytes, J[N] = J[n] \o t PROVE U[n] = t
    <2>1. J[n] \in Bytes
      BY <1>2
    <2>2. After(J[n] \o t, Len(J[n])) = t
      BY <2>1, Joins
    <2>3. QED
      BY <1>4, <2>2
  <1> HIDE DEF U
  <1>5. \A n \in 0 .. N : U[n] \in Bytes /\ J[N] = J[n] \o U[n]
    BY <1>3, <1>4
  <1>6. U \in [0 .. N -> Bytes]
    <2>1. U = [n \in 0 .. N |-> U[n]]
      BY DEF U
    <2>2. QED
      BY <1>5, <2>1
  <1>7. U[N] = <<>>
    <2>1. N \in 0 .. N /\ J[N] = J[N] \o <<>> /\ <<>> \in Bytes
      BY <1>2, Nothing
    <2>2. QED
      BY <1>4, <2>1
  <1>8. U[0] = J[N]
    <2>1. 0 \in 0 .. N /\ J[N] \in Bytes
      BY <1>2
    <2>2. J[N] = J[0] \o J[N]
      BY <1>1, <2>1, Nothing
    <2>3. QED
      BY <1>4, <2>1, <2>2
  <1>9. ASSUME NEW n \in 1 .. N PROVE U[n - 1] = bs[n] \o U[n]
    <2>1. n - 1 \in 0 .. N /\ n \in 0 .. N
      OBVIOUS
    <2>2. J[n - 1] \in Bytes /\ bs[n] \in Bytes /\ U[n] \in Bytes
      BY <1>2, <1>5, <2>1
    <2>3. J[N] = J[n] \o U[n] /\ J[n] = J[n - 1] \o bs[n]
      BY <1>1, <1>5, <2>1
    <2>4. J[N] = J[n - 1] \o (bs[n] \o U[n])
      <3>1. (J[n - 1] \o bs[n]) \o U[n] = J[n - 1] \o (bs[n] \o U[n])
        BY <2>2, Assoc
      <3>2. QED
        BY <2>3, <3>1, Zenon
    <2>5. bs[n] \o U[n] \in Bytes
      BY <2>2, Joins
    <2>6. QED
      BY <1>4, <2>1, <2>4, <2>5
  <1>10. J[N] \in Bytes
    BY <1>2
  <1>11. QED
    BY <1>6, <1>7, <1>8, <1>9, <1>10 DEF Tails, J

\* Writes that all succeed.
LEMMA AllSucceed ==
    ASSUME NEW N \in Nat, NEW rs, DOMAIN rs = 1 .. N, Len(rs) = N,
           \A i \in 1 .. N : rs[i].ok /\ rs[i].bytes \in Bytes
    PROVE  /\ All(rs).ok /\ All(rs).bytes \in Bytes
           /\ \E U : /\ Tails(N, [i \in 1 .. N |-> rs[i].bytes], U)
                     /\ U[0] = All(rs).bytes
  <1> DEFINE bs == [i \in 1 .. N |-> rs[i].bytes]
  <1>1. bs \in [1 .. N -> Bytes] /\ Len(bs) = N
    OBVIOUS
  <1>2. All(rs) = Ok(Joined(bs)[N])
    BY DEF All
  <1>3. All(rs).ok /\ All(rs).bytes = Joined(bs)[N]
    BY <1>2 DEF Ok
  <1> HIDE DEF bs
  <1>4. /\ Joined(bs)[N] \in Bytes
        /\ \E U : Tails(N, bs, U) /\ U[0] = Joined(bs)[N]
    BY <1>1, JoinedTails
  <1>5. PICK U : Tails(N, bs, U) /\ U[0] = Joined(bs)[N]
    BY <1>4
  <1>6. QED
    BY <1>3, <1>4, <1>5 DEF bs

\* ... and of which one does not.
LEMMA AllFail ==
    ASSUME NEW rs, NEW i \in DOMAIN rs, ~rs[i].ok
    PROVE  ~All(rs).ok
  BY DEF All, Fail

\* Two writes.
LEMMA ThenSucceeds ==
    ASSUME NEW a, NEW b, a.ok, b.ok, a.bytes \in Bytes, b.bytes \in Bytes
    PROVE  /\ Then(a, b).ok /\ Then(a, b).bytes = a.bytes \o b.bytes
           /\ Then(a, b).bytes \in Bytes
  BY Joins DEF Then, Ok

\* ... of which one fails.
LEMMA ThenFails ==
    ASSUME NEW a, NEW b, ~b.ok
    PROVE  ~Then(a, b).ok
  BY DEF Then, Fail

\* The first tail is empty only if everything is.
LEMMA NothingJoined ==
    ASSUME NEW N \in Nat, NEW bs \in [1 .. N -> Bytes], NEW U, Tails(N, bs, U)
    PROVE  U[0] = <<>> <=> \A n \in 1 .. N : bs[n] = <<>>
  <1>0. \A n \in 1 .. N : /\ U[n - 1] = bs[n] \o U[n]
                          /\ bs[n] \in Bytes /\ U[n] \in Bytes /\ U[n - 1] \in Bytes
    <2> SUFFICES ASSUME NEW n \in 1 .. N
                 PROVE  /\ U[n - 1] = bs[n] \o U[n]
                        /\ bs[n] \in Bytes /\ U[n] \in Bytes /\ U[n - 1] \in Bytes
      OBVIOUS
    <2>1. n \in 0 .. N /\ n - 1 \in 0 .. N
      OBVIOUS
    <2>2. QED
      BY <2>1 DEF Tails
  <1>1. ASSUME NEW n \in 1 .. N
        PROVE  U[n - 1] = <<>> <=> bs[n] = <<>> /\ U[n] = <<>>
    <2>1. /\ U[n - 1] = bs[n] \o U[n]
          /\ bs[n] \in Bytes /\ U[n] \in Bytes /\ U[n - 1] \in Bytes
      BY <1>0
    <2>2. Len(U[n - 1]) = Len(bs[n]) + Len(U[n]) /\ Len(bs[n]) \in Nat /\ Len(U[n]) \in Nat
      BY <2>1, Joins
    <2>3. /\ U[n - 1] # <<>> <=> Len(U[n - 1]) > 0
          /\ U[n] # <<>> <=> Len(U[n]) > 0
          /\ bs[n] # <<>> <=> Len(bs[n]) > 0
      BY <2>1, Nothing
    <2>4. QED
      BY <2>2, <2>3
  <1>2. ASSUME U[0] = <<>> PROVE \A n \in 0 .. N : U[n] = <<>>
    <2> DEFINE T == {n \in Nat : n <= N /\ U[n] # <<>>}
    <2>1. SUFFICES ASSUME T # {} PROVE FALSE
      OBVIOUS
    <2>2. PICK n \in T : \A m \in T : n <= m
      BY <2>1, LeastNatural
    <2>3. n \in 1 .. N /\ n - 1 \in Nat /\ n - 1 \notin T
      BY <1>2, <2>2
    <2>4. U[n - 1] = <<>>
      BY <2>3
    <2>5. QED
      BY <1>1, <2>2, <2>3, <2>4
  <1>3. ASSUME \A n \in 1 .. N : bs[n] = <<>> PROVE U[0] = <<>>
    <2> DEFINE T == {j \in Nat : j <= N /\ U[N - j] # <<>>}
    <2>1. SUFFICES ASSUME T # {} PROVE FALSE
      <3>1. N \notin T /\ N - N = 0
        BY <2>1
      <3>2. QED
        BY <3>1
    <2>2. PICK j \in T : \A m \in T : j <= m
      BY <2>1, LeastNatural
    <2>3. j # 0
      <3>1. U[N - 0] = <<>>
        BY DEF Tails
      <3>2. QED
        BY <2>2, <3>1
    <2> DEFINE n == N - (j - 1)
    <2>4. j - 1 \in Nat /\ j - 1 \notin T /\ n \in 1 .. N /\ n - 1 = N - j
      BY <2>2, <2>3
    <2>5. U[n] = <<>>
      BY <2>4
    <2> HIDE DEF n
    <2>6. U[n - 1] = <<>>
      BY <1>1, <1>3, <2>4, <2>5
    <2>7. QED
      BY <2>2, <2>4, <2>6
  <1>4. ASSUME \A n \in 0 .. N : U[n] = <<>>, NEW n \in 1 .. N PROVE bs[n] = <<>>
    <2>1. n - 1 \in 0 .. N
      OBVIOUS
    <2>2. QED
      BY <1>1, <1>4, <2>1
  <1>5. QED
    BY <1>2, <1>3, <1>4
-----------------------------------------------------------------------------
(* Values.                                                                 *)

\* A message is written if its keys are known, and read back as far as it is
\* carried.
RoundTrip(x) ==
    LET g == Protos(x.version)
        r == pb_encode(g, x.def, x.obj)
    IN  IF KeysKnown(g, x.def, x.obj)
        THEN /\ r.ok /\ r.bytes \in Bytes
             /\ pb_decode(r.bytes, g, x.def) = Read(Carried(g, x.def, x.obj), <<>>)
             /\ r.bytes # <<>> <=>
                   \E k \in DOMAIN x.obj : Written(x.def.fields[k], x.obj[k])
        ELSE ~r.ok

\* The messages in x are.
Below(x) == \A y \in Nested : y.depth < x.depth => RoundTrip(y)

\* The keys of a message in x are known.
KnownValue(x, field, v) ==
    ~pb__get_type(field.type) /\ x.def.has_messages =>
        \A d \in SubDef(Protos(x.version), x.def, field.type) :
            known_sub(Protos(x.version), d, v.obj)

\* What is read of a value: nothing if it is a message without __messages.
ReadAs(x, field, v) ==
    IF pb__get_type(field.type) \/ x.def.has_messages
    THEN <<CarriedValue(Protos(x.version), x.def, field, v)>> ELSE <<>>

\* The definition of a message field, if there is one.
LEMMA SubDefOne ==
    ASSUME NEW g, NEW def, NEW type, SubDef(g, def, type) # {}
    PROVE  \A d \in SubDef(g, def, type) :
              d = CHOOSE e \in SubDef(g, def, type) : TRUE
  <1> DEFINE S == SubDef(g, def, type)
  <1>1. \A d, e \in S : d = e
    BY DEF SubDef
  <1>2. (CHOOSE e \in S : TRUE) \in S
    OBVIOUS
  <1>3. QED
    BY <1>1, <1>2

\* A value of a field that is a message under a definition with __messages.
LEMMA InnerMessage ==
    ASSUME NEW x \in Nested, NEW field, NEW v, ValueTyped(x, field, v),
           ~pb__get_type(field.type), x.def.has_messages, Below(x)
    PROVE  LET g == Protos(x.version)
               d == CHOOSE e \in SubDef(g, x.def, field.type) : TRUE
           IN  /\ SubDef(g, x.def, field.type) # {}
               /\ \E y \in Nested : /\ y.version = x.version /\ y.obj = v.obj
                                    /\ y.def = d /\ RoundTrip(y)
               /\ KnownValue(x, field, v) <=> known_sub(g, d, v.obj)
  <1> DEFINE g == Protos(x.version)
             S == SubDef(g, x.def, field.type)
             d == CHOOSE e \in S : TRUE
  <1>1. field.type \notin {"uInt32", "int32", "sInt32", "float", "double", "string"}
    BY DEF pb__get_type, Varints
  <1>2. /\ S # {}
        /\ \E y \in Nested : /\ y.version = x.version /\ y.obj = v.obj
                             /\ y.def = d /\ y.depth < x.depth
    BY <1>1 DEF ValueTyped
  <1>3. \A e \in S : e = d
    BY <1>2, SubDefOne
  <1>4. d \in S
    BY <1>2
  <1> HIDE DEF S, d, g
  <1>5. KnownValue(x, field, v) <=> known_sub(g, d, v.obj)
    <2>1. KnownValue(x, field, v) <=> \A e \in S : known_sub(g, e, v.obj)
      BY DEF KnownValue, S, g
    <2>2. (\A e \in S : known_sub(g, e, v.obj)) <=> known_sub(g, d, v.obj)
      BY <1>3, <1>4
    <2>3. QED
      BY <2>1, <2>2
  <1>6. \E y \in Nested : /\ y.version = x.version /\ y.obj = v.obj
                          /\ y.def = d /\ RoundTrip(y)
    BY <1>2 DEF Below
  <1>7. QED
    BY <1>2, <1>5, <1>6 DEF S, d, g

\* How a message in a message is read back.
LEMMA SubmessageReadsBack ==
    ASSUME NEW g, NEW d, NEW b \in Bytes, Len(b) <= MaxInt, NEW obj, NEW t \in Bytes,
           decode_sub(b, g, d) = Read(obj, <<>>)
    PROVE  pb_decode_submessage(pb_encode_string(b) \o t, g, d) = Read(Obj(obj), t)
  <1> DEFINE r == pb_decode_varint(pb_encode_string(b) \o t)
             u == b \o t
  <1>1. r = Read(Len(b), u)
    BY StringReadsBack
  <1>2. r.ok /\ r.val = Len(b) /\ r.rest = u
    BY <1>1 DEF Read
  <1>3. /\ Len(u) = Len(b) + Len(t) /\ Len(b) \in Nat /\ Len(t) \in Nat
        /\ After(u, Len(b)) = t /\ SubSeq(u, 1, Len(b)) = b
    BY Joins
  <1> DEFINE q == decode_sub(SubSeq(u, 1, Len(b)), g, d)
  <1>4. q = Read(obj, <<>>)
    BY <1>3
  <1>5. q.ok /\ q.val = obj /\ q.rest = <<>>
    BY <1>4 DEF Read
  <1> HIDE DEF r, u
  <1>6. Len(q.rest) = 0
    BY <1>5, Nothing
  <1> HIDE DEF q
  <1>7. SubSeq(u, Len(b) - Len(q.rest) + 1, Len(u) - Len(q.rest)) = t
    <2>1. Len(b) - Len(q.rest) + 1 = Len(b) + 1 /\ Len(u) - Len(q.rest) = Len(u)
      BY <1>3, <1>6
    <2>2. QED
      BY <1>3, <2>1 DEF After
  <1>8. ~(Len(u) < Len(b))
    BY <1>3
  <1>9. (IF Len(u) < Len(b) THEN ReadFails(u)
         ELSE IF q.ok
         THEN Read(Obj(q.val), SubSeq(u, Len(b) - Len(q.rest) + 1, Len(u) - Len(q.rest)))
         ELSE q) = Read(Obj(obj), t)
    BY <1>5, <1>7, <1>8
  <1>10. pb_decode_submessage(pb_encode_string(b) \o t, g, d) =
           IF r.ok
           THEN IF Len(r.rest) < r.val THEN ReadFails(r.rest)
                ELSE With(decode_sub(SubSeq(r.rest, 1, r.val), g, d),
                          LAMBDA obj2, left :
                          Read(Obj(obj2), SubSeq(r.rest, r.val - Len(left) + 1,
                                                 Len(r.rest) - Len(left))))
           ELSE r
    BY DEF pb_decode_submessage, With, r
  <1>11. pb_decode_submessage(pb_encode_string(b) \o t, g, d) =
           IF Len(u) < Len(b) THEN ReadFails(u)
           ELSE IF q.ok
           THEN Read(Obj(q.val), SubSeq(u, Len(b) - Len(q.rest) + 1, Len(u) - Len(q.rest)))
           ELSE q
    BY <1>2, <1>10 DEF With, q
  <1>12. QED
    BY <1>9, <1>11

\* A value that is a message, of a definition with __messages.
LEMMA MessageValue ==
    ASSUME NEW x \in Nested, NEW field, NEW v, ValueTyped(x, field, v),
           ~pb__get_type(field.type), x.def.has_messages, Below(x), NEW t \in Bytes
    PROVE  LET g == Protos(x.version)
               r == pb_encode_proto(g, x.def, field, v)
           IN  IF KnownValue(x, field, v)
               THEN /\ r.ok /\ r.bytes \in Bytes
                    /\ pb_decode_proto(r.bytes \o t, g, x.def, field) =
                          Read(ReadAs(x, field, v), t)
               ELSE ~r.ok
  <1> DEFINE g == Protos(x.version)
             S == SubDef(g, x.def, field.type)
             d == CHOOSE e \in S : TRUE
             r == pb_encode_proto(g, x.def, field, v)
  <1>1. /\ S # {}
        /\ \E y \in Nested : /\ y.version = x.version /\ y.obj = v.obj
                             /\ y.def = d /\ RoundTrip(y)
        /\ KnownValue(x, field, v) <=> known_sub(g, d, v.obj)
    BY InnerMessage
  <1>2. PICK y \in Nested : y.version = x.version /\ y.obj = v.obj /\ y.def = d /\ RoundTrip(y)
    BY <1>1
  <1> DEFINE e == pb_encode(g, d, v.obj)
  <1>3. field.type \notin {"uInt32", "int32", "sInt32", "float", "double", "string"}
    BY DEF pb__get_type, Varints
  <1>4. r = pb_encode_submessage(g, d, v)
    BY <1>1, <1>3 DEF pb_encode_proto
  <1>5. \A s : pb_decode_proto(s, g, x.def, field) =
                 Value(pb_decode_submessage(s, g, d), LAMBDA o : o)
    BY <1>1, <1>3 DEF pb_decode_proto, Value, With
  <1>6. ReadAs(x, field, v) = <<Obj(carried_sub(g, d, v.obj))>>
    BY DEF ReadAs, CarriedValue
  <1> HIDE DEF d, g
  <1>7. MessageTyped(y) /\ CallsItself(y)
    BY MessagesAssumption
  <1>8. /\ encode_sub(g, d, v.obj) = e
        /\ e.ok => decode_sub(e.bytes, g, d) = pb_decode(e.bytes, g, d)
        /\ known_sub(g, d, v.obj) = KeysKnown(g, d, v.obj)
        /\ KeysKnown(g, d, v.obj) => carried_sub(g, d, v.obj) = Carried(g, d, v.obj)
    BY <1>2, <1>7 DEF CallsItself, g
  <1>9. ASSUME e.ok, e.bytes \in Bytes PROVE Len(e.bytes) <= MaxInt
    <2>1. Len(e.bytes) < PC_PKG_MAX_BODY_BYTES /\ Len(e.bytes) \in Nat
      BY <1>2, <1>7, <1>9, Nothing DEF MessageTyped, g
    <2>2. QED
      BY <2>1, PackageFits, MaxIntIs
  <1>10. IF KeysKnown(g, d, v.obj)
         THEN /\ e.ok /\ e.bytes \in Bytes
              /\ pb_decode(e.bytes, g, d) = Read(Carried(g, d, v.obj), <<>>)
         ELSE ~e.ok
    BY <1>2 DEF RoundTrip, g
  <1> HIDE DEF e
  <1>11. r = IF e.ok THEN Ok(pb_encode_string(e.bytes)) ELSE Fail
    BY <1>4, <1>8 DEF pb_encode_submessage, Prefixed
  <1>12. CASE ~KnownValue(x, field, v)
    <2>1. ~e.ok
      BY <1>1, <1>8, <1>10, <1>12 DEF g, d
    <2>2. ~r.ok
      BY <1>11, <2>1 DEF Fail
    <2>3. QED
      BY <1>12, <2>2 DEF g
  <1>13. CASE KnownValue(x, field, v)
    <2>1. KeysKnown(g, d, v.obj)
      BY <1>1, <1>8, <1>13 DEF g, d
    <2>2. /\ e.ok /\ e.bytes \in Bytes /\ Len(e.bytes) <= MaxInt
          /\ decode_sub(e.bytes, g, d) = Read(Carried(g, d, v.obj), <<>>)
          /\ carried_sub(g, d, v.obj) = Carried(g, d, v.obj)
      BY <1>8, <1>9, <1>10, <2>1
    <2>3. r.ok /\ r.bytes = pb_encode_string(e.bytes)
      BY <1>11, <2>2 DEF Ok
    <2>4. r.bytes \in Bytes
      BY <2>2, <2>3, StringReadsBack
    <2> DEFINE o == Carried(g, d, v.obj)
               p == pb_decode_submessage(pb_encode_string(e.bytes) \o t, g, d)
    <2> HIDE DEF o
    <2>5. p = Read(Obj(o), t)
      BY <2>2, SubmessageReadsBack DEF o
    <2>6. p.ok /\ p.val = Obj(o) /\ p.rest = t
      BY <2>5 DEF Read
    <2>7. pb_decode_proto(r.bytes \o t, g, x.def, field) =
             IF p.ok THEN Read(<<p.val>>, p.rest) ELSE p
      BY <1>5, <2>3 DEF Value, With
    <2>8. pb_decode_proto(r.bytes \o t, g, x.def, field) = Read(<<Obj(o)>>, t)
      BY <2>6, <2>7
    <2>9. ReadAs(x, field, v) = <<Obj(o)>>
      BY <1>6, <2>2 DEF o
    <2>10. QED
      BY <1>13, <2>3, <2>4, <2>8, <2>9 DEF g
  <1>14. QED
    BY <1>12, <1>13

\* What pb_encode_proto writes of a value is read back as far as it is carried;
\* a value with a key that is not known is not written.
LEMMA ValueReadsBack ==
    ASSUME NEW x \in Nested, NEW field, NEW v, ValueTyped(x, field, v),
           Below(x), NEW t \in Bytes
    PROVE  LET g == Protos(x.version)
               r == pb_encode_proto(g, x.def, field, v)
           IN  IF KnownValue(x, field, v)
               THEN /\ r.ok /\ r.bytes \in Bytes
                    /\ pb_decode_proto(r.bytes \o t, g, x.def, field) =
                          Read(ReadAs(x, field, v), t)
               ELSE ~r.ok
  <1> DEFINE g == Protos(x.version)
             r == pb_encode_proto(g, x.def, field, v)
             p == pb_decode_proto(r.bytes \o t, g, x.def, field)
  <1> HIDE DEF g
  <1> USE DEF Ok
  <1>1. ASSUME pb__get_type(field.type)
        PROVE  KnownValue(x, field, v) /\ ReadAs(x, field, v) = <<v>>
    BY <1>1 DEF KnownValue, ReadAs, CarriedValue
  <1>2. CASE field.type = "uInt32"
    <2>1. v = Num(v.num) /\ v.num \in 0 .. MaxInt
      BY <1>2 DEF ValueTyped, Number
    <2> DEFINE n == v.num
               b == pb_encode_varint(n)
               q == pb_decode_varint(b \o t)
    <2>2. r = Ok(b)
      BY <1>2 DEF pb_encode_proto
    <2>3. n \in Nat /\ n \in 0 .. 2 * MaxInt + 1
      BY <2>1, MaxIntIs
    <2> HIDE DEF n
    <2>4. b \in Bytes /\ q = Read(n, t)
      BY <2>3, VarintBytes, VarintReadsBack
    <2>5. q.ok /\ q.val = n /\ q.rest = t
      BY <2>4 DEF Read
    <2>6. p = IF q.ok THEN Read(<<Num(q.val)>>, q.rest) ELSE q
      BY <1>2, <2>2 DEF pb_decode_proto, Value, With
    <2> HIDE DEF q
    <2>7. p = Read(<<v>>, t)
      BY <2>1, <2>5, <2>6 DEF n
    <2>8. QED
      BY <1>1, <1>2, <2>2, <2>4, <2>7 DEF pb__get_type, Varints, g
  <1>3. CASE field.type \in {"int32", "sInt32"}
    <2>1. v = Num(v.num) /\ v.num \in -MaxInt .. MaxInt
      BY <1>3 DEF ValueTyped, Number
    <2> DEFINE n == v.num
               b == pb_encode_svarint(n)
               q == pb_decode_svarint(b \o t)
    <2>2. r = Ok(b)
      BY <1>3 DEF pb_encode_proto
    <2>3. n \in Int /\ -MaxInt <= n /\ n <= MaxInt
      BY <2>1, MaxIntIs
    <2> HIDE DEF n
    <2>4. b \in Bytes /\ q = Read(n, t)
      BY <2>3, SvarintReadsBack
    <2>5. q.ok /\ q.val = n /\ q.rest = t
      BY <2>4 DEF Read
    <2>6. p = IF q.ok THEN Read(<<Num(q.val)>>, q.rest) ELSE q
      BY <1>3, <2>2 DEF pb_decode_proto, Value, With
    <2> HIDE DEF q
    <2>7. p = Read(<<v>>, t)
      BY <2>1, <2>5, <2>6 DEF n
    <2>8. QED
      BY <1>1, <1>3, <2>2, <2>4, <2>7 DEF pb__get_type, Varints, g
  <1>4. CASE field.type = "float"
    <2>1. v = Num(v.num) /\ v.num \in Int
      BY <1>4 DEF ValueTyped, Number
    <2>2. r = Ok(pb_encode_fixed(v.num, 4))
      BY <1>4 DEF pb_encode_proto
    <2>3. p = pb_decode_fixed(r.bytes \o t, 4)
      BY <1>4 DEF pb_decode_proto
    <2>4. r.ok /\ r.bytes = pb_encode_fixed(v.num, 4)
      BY <2>2
    <2> HIDE DEF r, p
    <2>5. r.bytes \in Bytes /\ p = Read(<<Num(v.num)>>, t)
      BY <2>1, <2>3, <2>4, FixedReadsBack
    <2>6. p = Read(<<v>>, t)
      BY <2>1, <2>5
    <2>7. QED
      BY <1>1, <1>4, <2>4, <2>5, <2>6 DEF pb__get_type, Varints, g, r, p
  <1>5. CASE field.type = "double"
    <2>1. v = Num(v.num) /\ v.num \in Int
      BY <1>5 DEF ValueTyped, Number
    <2>2. r = Ok(pb_encode_fixed(v.num, 8))
      BY <1>5 DEF pb_encode_proto
    <2>3. p = pb_decode_fixed(r.bytes \o t, 8)
      BY <1>5 DEF pb_decode_proto
    <2>4. r.ok /\ r.bytes = pb_encode_fixed(v.num, 8)
      BY <2>2
    <2> HIDE DEF r, p
    <2>5. r.bytes \in Bytes /\ p = Read(<<Num(v.num)>>, t)
      BY <2>1, <2>3, <2>4, FixedReadsBack
    <2>6. p = Read(<<v>>, t)
      BY <2>1, <2>5
    <2>7. QED
      BY <1>1, <1>5, <2>4, <2>5, <2>6 DEF pb__get_type, Varints, g, r, p
  <1>6. CASE field.type = "string"
    <2>1. v = Str(v.str) /\ v.str \in Bytes /\ Len(v.str) <= MaxInt
      BY <1>6 DEF ValueTyped, Bytes
    <2> DEFINE s == v.str
               b == pb_encode_string(s)
               q == pb_decode_string(b \o t)
    <2>2. r = Ok(b)
      BY <1>6 DEF pb_encode_proto
    <2>3. s \in Bytes /\ Len(s) <= MaxInt
      BY <2>1
    <2> HIDE DEF s
    <2>4. b \in Bytes /\ q = Read(s, t)
      BY <2>3, StringReadsBack
    <2>5. q.ok /\ q.val = s /\ q.rest = t
      BY <2>4 DEF Read
    <2>6. p = IF q.ok THEN Read(<<Str(q.val)>>, q.rest) ELSE q
      BY <1>6, <2>2 DEF pb_decode_proto, Value, With
    <2> HIDE DEF q
    <2>7. p = Read(<<v>>, t)
      BY <2>1, <2>5, <2>6 DEF s
    <2>8. QED
      BY <1>1, <1>6, <2>2, <2>4, <2>7 DEF pb__get_type, Varints, g
  <1>7. CASE ~pb__get_type(field.type) /\ x.def.has_messages
    BY <1>7, MessageValue DEF g
  <1>8. CASE ~pb__get_type(field.type) /\ ~x.def.has_messages
    <2>1. field.type \notin {"uInt32", "int32", "sInt32", "float", "double", "string"}
      BY <1>8 DEF pb__get_type, Varints
    <2>2. r = Ok(<<>>)
      BY <1>8, <2>1 DEF pb_encode_proto
    <2>3. \A s : pb_decode_proto(s, g, x.def, field) = Read(<<>>, s)
      BY <1>8, <2>1 DEF pb_decode_proto
    <2>4. r.ok /\ r.bytes = <<>>
      BY <2>2
    <2> HIDE DEF r
    <2>5. r.bytes \in Bytes /\ r.bytes \o t = t
      BY <2>4, Nothing
    <2>6. p = Read(<<>>, t)
      BY <2>3, <2>5
    <2>7. KnownValue(x, field, v) /\ ReadAs(x, field, v) = <<>>
      BY <1>8 DEF KnownValue, ReadAs
    <2>8. QED
      BY <2>4, <2>5, <2>6, <2>7 DEF g, r
  <1>9. QED
    BY <1>2, <1>3, <1>4, <1>5, <1>6, <1>7, <1>8 DEF pb__get_type, Varints
-----------------------------------------------------------------------------
(* Fields.                                                                 *)

\* The loop of pb_decode gets to where it has read res, and has rest to read.
Reached(s, g, def, res, rest) ==
    \E n \in 0 .. Len(s) :
        /\ Len(rest) <= Len(s) - n
        /\ Turns(s, g, def)[n] = GoOn(Read(res, rest))

\* One turn.
LEMMA OneTurn ==
    ASSUME NEW s \in Bytes, NEW g, NEW def, DefTyped(def), NEW k \in DOMAIN def.fields,
           NEW a \in Bytes, NEW res, NEW res2, NEW rest \in Bytes, Len(rest) <= Len(a),
           Reached(s, g, def, res, pb_encode_tag_for_field(def.fields[k]).bytes \o a),
           DecodeField(a, g, def, k, res) = Read(res2, rest)
    PROVE  Reached(s, g, def, res2, rest)
  <1> DEFINE field == def.fields[k]
             tb == pb_encode_tag_for_field(field).bytes
             f == Turns(s, g, def)
  <1>1. field.tag \in 1 .. MaxInt \div 8 - 1
    BY DEF DefTyped
  <1>2. \A l \in DOMAIN def.fields : def.fields[l].tag = field.tag => l = k
    BY DEF DefTyped
  <1> HIDE DEF field
  <1>3. tb \in Bytes /\ Len(tb) >= 1 /\ pb_decode_tag(tb \o a) = Read(field.tag, a)
    BY <1>1, TagReadsBack
  <1>4. PICK n \in 0 .. Len(s) : /\ Len(tb \o a) <= Len(s) - n
                                 /\ f[n] = GoOn(Read(res, tb \o a))
    BY DEF Reached, field
  <1> HIDE DEF tb
  <1>5. /\ Len(tb \o a) = Len(tb) + Len(a) /\ Len(tb) \in Nat /\ Len(a) \in Nat
        /\ tb \o a \in Bytes /\ Len(s) \in Nat /\ Len(rest) \in Nat
    BY <1>3, Joins, Nothing
  <1>6. n + 1 \in 1 .. Len(s) /\ Len(rest) <= Len(s) - (n + 1) /\ (n + 1) - 1 = n
    BY <1>3, <1>4, <1>5
  <1>7. \A m \in 1 .. Len(s) : f[m] = DecodeNext(f[m - 1], g, def)
    BY <1>5, TurnsAre
  <1> HIDE DEF f
  <1>8. f[n + 1] = DecodeNext(f[n], g, def)
    BY <1>6, <1>7
  <1>9. tb \o a # <<>>
    <2>1. Len(tb \o a) > 0
      BY <1>3, <1>5
    <2>2. QED
      BY <1>5, <2>1, Nothing
  <1> DEFINE u == tb \o a
  <1> HIDE DEF u
  <1>10. f[n].more /\ f[n].read.val = res /\ f[n].read.rest = u
    <2>1. f[n] = GoOn(Read(res, u)) /\ u # <<>>
      BY <1>4, <1>9 DEF u
    <2> DEFINE r1 == Read(res, u)
    <2>2. r1.ok = TRUE /\ r1.val = res /\ r1.rest = u
      BY DEF Read
    <2>3. f[n] = GoOn(r1)
      BY <2>1
    <2> HIDE DEF r1
    <2>4. (r1.ok /\ r1.rest # <<>>) = TRUE
      BY <2>1, <2>2
    <2>5. f[n] = [read |-> r1, more |-> TRUE]
      BY <2>3, <2>4 DEF GoOn
    <2>6. QED
      BY <2>2, <2>5
  <1> DEFINE q == pb_decode_tag(u)
             names == {l \in DOMAIN def.fields : def.fields[l].tag = q.val}
  <1>11. q.ok /\ q.val = field.tag /\ q.rest = a
    BY <1>3 DEF Read, u
  <1> HIDE DEF q
  <1>12. k \in names
    BY <1>11 DEF field
  <1>13. \A l \in names : l = k
    BY <1>2, <1>11
  <1>14. names # {} /\ (CHOOSE l \in names : TRUE) = k
    BY <1>12, <1>13
  <1> HIDE DEF names
  <1>15. DecodeNext(f[n], g, def) = GoOn(DecodeField(a, g, def, k, res))
    <2>1. DecodeNext(f[n], g, def) =
            IF ~q.ok THEN End(IF q.eof THEN Read(res, q.rest) ELSE q)
            ELSE IF names = {} THEN End(ReadFails(q.rest))
            ELSE GoOn(DecodeField(q.rest, g, def, CHOOSE l \in names : TRUE, res))
      BY <1>10 DEF DecodeNext, q, names
    <2>2. QED
      BY <1>11, <1>14, <2>1
  <1>16. f[n + 1] = GoOn(Read(res2, rest)) /\ n + 1 \in 0 .. Len(s)
    BY <1>6, <1>8, <1>15
  <1>17. QED
    BY <1>6, <1>16 DEF Reached, f

\* When nothing is left to read, the loop has ended.
LEMMA AllRead ==
    ASSUME NEW s \in Bytes, NEW g, NEW def, NEW res, Reached(s, g, def, res, <<>>)
    PROVE  pb_decode(s, g, def) = Read(res, <<>>)
  <1> DEFINE f == Turns(s, g, def)
             last1 == GoOn(Read(res, <<>>))
  <1>0. Len(s) \in Nat
    BY Nothing
  <1>1. PICK n \in 0 .. Len(s) : f[n] = last1
    BY DEF Reached
  <1>2. \A m \in 1 .. Len(s) : f[m] = DecodeNext(f[m - 1], g, def)
    BY <1>0, TurnsAre
  <1>3. DecodeNext(last1, g, def) = last1 /\ last1.read = Read(res, <<>>)
    BY DEF DecodeNext, GoOn, Read
  <1> HIDE DEF f, last1
  <1> DEFINE T == {m \in Nat : n <= m /\ m <= Len(s) /\ f[m] # last1}
  <1>4. T = {}
    <2>1. SUFFICES ASSUME T # {} PROVE FALSE
      OBVIOUS
    <2>2. PICK m \in T : \A j \in T : m <= j
      BY <2>1, LeastNatural
    <2>3. m # n
      BY <1>1, <2>2
    <2>4. m \in 1 .. Len(s) /\ m - 1 \in Nat /\ n <= m - 1 /\ m - 1 <= Len(s) /\ ~(m <= m - 1)
      BY <1>0, <2>2, <2>3
    <2>5. m - 1 \notin T
      BY <2>2, <2>4
    <2>6. f[m - 1] = last1
      BY <2>4, <2>5
    <2>7. f[m] = last1
      BY <1>2, <1>3, <2>4, <2>6
    <2>8. QED
      BY <2>2, <2>7
  <1>5. f[Len(s)] = last1
    <2>1. Len(s) \notin T
      BY <1>4
    <2>2. QED
      BY <1>0, <2>1
  <1>6. pb_decode(s, g, def) = f[Len(s)].read
    BY DEF pb_decode, f
  <1>7. QED
    BY <1>3, <1>5, <1>6

\* The keys of the messages in a field are known.
KnownField(x, field, v) ==
    IF field.option # "repeated" THEN KnownValue(x, field, v)
    ELSE IsArr(v) => \A i \in DOMAIN v.arr : KnownValue(x, field, v.arr[i])

\* What is read so far, and a field.
AndField(x, k, res) ==
    IF Kept(x.def, x.def.fields[k], x.obj[k])
    THEN Set(res, k, CarriedField(Protos(x.version), x.def, x.def.fields[k], x.obj[k]))
    ELSE res

\* A field that is not repeated takes one turn.
LEMMA SingleReached ==
    ASSUME NEW x \in Nested, Below(x), NEW k \in DOMAIN x.obj,
           k \in DOMAIN x.def.fields, x.def.fields[k].option # "repeated",
           KnownField(x, x.def.fields[k], x.obj[k])
    PROVE  LET g == Protos(x.version)
               r == EncodeField(g, x.def, k, x.obj[k])
           IN  /\ r.ok /\ r.bytes \in Bytes /\ r.bytes # <<>>
               /\ \A s, t \in Bytes : \A res :
                     Reached(s, g, x.def, res, r.bytes \o t) =>
                         Reached(s, g, x.def, AndField(x, k, res), t)
  <1> DEFINE g == Protos(x.version)
             field == x.def.fields[k]
             v == x.obj[k]
             r == EncodeField(g, x.def, k, v)
             tag == pb_encode_tag_for_field(field)
             e == pb_encode_proto(g, x.def, field, v)
  <1>1. DefTyped(x.def) /\ FieldTyped(x, field, v)
    BY MessagesAssumption DEF MessageTyped
  <1>2. ValueTyped(x, field, v) /\ KnownValue(x, field, v)
    BY <1>1 DEF FieldTyped, KnownField
  <1>3. field.tag \in 1 .. MaxInt \div 8 - 1
    BY <1>1 DEF DefTyped
  <1>4. r = Then(tag, e)
    BY DEF EncodeField
  <1>5. Kept(x.def, field, v) = (pb__get_type(field.type) \/ x.def.has_messages)
    BY DEF Kept, Written
  <1>6. CarriedField(g, x.def, field, v) = CarriedValue(g, x.def, field, v)
    BY DEF CarriedField
  <1>7. \A res, a : DecodeField(a, g, x.def, k, res) = DecodeSingle(a, g, x.def, k, res)
    BY DEF DecodeField
  <1>8. \A res : AndField(x, k, res) =
           IF pb__get_type(field.type) \/ x.def.has_messages
           THEN Set(res, k, CarriedValue(g, x.def, field, v)) ELSE res
    BY <1>5, <1>6 DEF AndField
  <1>9. ReadAs(x, field, v) = IF pb__get_type(field.type) \/ x.def.has_messages
           THEN <<CarriedValue(g, x.def, field, v)>> ELSE <<>>
    BY DEF ReadAs
  <1> HIDE DEF field, v, g
  <1>10. tag.ok /\ tag.bytes \in Bytes /\ Len(tag.bytes) >= 1
    BY <1>3, TagReadsBack, Nothing
  <1>11. e.ok /\ e.bytes \in Bytes
    BY <1>2, ValueReadsBack, Nothing DEF g
  <1>12. \A t \in Bytes : pb_decode_proto(e.bytes \o t, g, x.def, field) =
                            Read(ReadAs(x, field, v), t)
    BY <1>2, ValueReadsBack DEF g
  <1> HIDE DEF tag, e
  <1>13. r.ok /\ r.bytes = tag.bytes \o e.bytes /\ r.bytes \in Bytes
    BY <1>4, <1>10, <1>11, ThenSucceeds
  <1> HIDE DEF r
  <1>14. r.bytes # <<>>
    <2>0. /\ Len(tag.bytes \o e.bytes) = Len(tag.bytes) + Len(e.bytes)
          /\ Len(tag.bytes) \in Nat /\ Len(e.bytes) \in Nat
      BY <1>10, <1>11, Joins
    <2>1. Len(r.bytes) = Len(tag.bytes) + Len(e.bytes)
      BY <1>13, <2>0, Zenon
    <2> DEFINE m == Len(tag.bytes)
               n == Len(e.bytes)
    <2>2. Len(r.bytes) > 0
      <3>1. m \in Nat /\ m >= 1 /\ n \in Nat /\ Len(r.bytes) = m + n
        BY <1>10, <2>0, <2>1
      <3> HIDE DEF m, n
      <3>2. QED
        BY <3>1
    <2>3. QED
      BY <1>13, <2>2, Nothing
  <1>15. ASSUME NEW s \in Bytes, NEW t \in Bytes, NEW res,
                Reached(s, g, x.def, res, r.bytes \o t)
         PROVE  Reached(s, g, x.def, AndField(x, k, res), t)
    <2> DEFINE a == e.bytes \o t
               p == pb_decode_proto(a, g, x.def, field)
    <2>1. a \in Bytes /\ Len(a) = Len(e.bytes) + Len(t) /\ Len(e.bytes) \in Nat /\ Len(t) \in Nat
      BY <1>11, Joins
    <2>2. r.bytes \o t = tag.bytes \o a
      <3>1. (tag.bytes \o e.bytes) \o t = tag.bytes \o (e.bytes \o t)
        BY <1>10, <1>11, Assoc
      <3>2. QED
        BY <1>13, <3>1, Zenon
    <2>3. p = Read(ReadAs(x, field, v), t)
      BY <1>12
    <2>4. p.ok /\ p.val = ReadAs(x, field, v) /\ p.rest = t
      BY <2>3 DEF Read
    <2> HIDE DEF a
    <2>5. DecodeSingle(a, g, x.def, k, res) =
            IF p.ok THEN Read(IF p.val = <<>> THEN res ELSE Set(res, k, p.val[1]), p.rest)
            ELSE p
      BY DEF DecodeSingle, With, field
    <2> HIDE DEF p
    <2>6. DecodeSingle(a, g, x.def, k, res) = Read(AndField(x, k, res), t)
      <3>1. CASE pb__get_type(field.type) \/ x.def.has_messages
        <4> DEFINE c == CarriedValue(g, x.def, field, v)
        <4> HIDE DEF c
        <4>1. p.val = <<c>> /\ AndField(x, k, res) = Set(res, k, c)
          BY <1>8, <1>9, <2>4, <3>1 DEF c
        <4>2. p.val # <<>> /\ p.val[1] = c
          BY <4>1
        <4>3. QED
          BY <2>4, <2>5, <4>1, <4>2
      <3>2. CASE ~(pb__get_type(field.type) \/ x.def.has_messages)
        <4>1. p.val = <<>> /\ AndField(x, k, res) = res
          BY <1>8, <1>9, <2>4, <3>2
        <4>2. QED
          BY <2>4, <2>5, <4>1
      <3>3. QED
        BY <3>1, <3>2
    <2>7. DecodeField(a, g, x.def, k, res) = Read(AndField(x, k, res), t)
      BY <1>7, <2>6
    <2>8. Len(t) <= Len(a)
      BY <2>1
    <2>9. Reached(s, g, x.def, res, pb_encode_tag_for_field(x.def.fields[k]).bytes \o a)
      BY <1>15, <2>2 DEF tag, field
    <2>10. QED
      BY <1>1, <2>1, <2>7, <2>8, <2>9, OneTurn
  <1>16. QED
    BY <1>13, <1>14, <1>15 DEF g, v, r
-----------------------------------------------------------------------------
(* Arrays.                                                                 *)

\* The first i of the values of C.
Firsts(C, i) == [j \in 1 .. i |-> C[j]]

\* The first values, and one more.
LEMMA FirstsGrow ==
    ASSUME NEW C, NEW i \in Nat
    PROVE  /\ Firsts(C, 0) = <<>>
           /\ Firsts(C, i) \o <<C[i + 1]>> = Firsts(C, i + 1)
  <1> DEFINE S == {C[j] : j \in 1 .. i + 1}
             a == Firsts(C, i)
             b == <<C[i + 1]>>
             c == Firsts(C, i + 1)
  <1>1. \A j \in 1 .. i + 1 : C[j] \in S
    OBVIOUS
  <1> HIDE DEF S
  <1>2. /\ a \in Seq(S) /\ Len(a) = i /\ \A j \in 1 .. i : a[j] = C[j]
        /\ c \in Seq(S) /\ Len(c) = i + 1 /\ \A j \in 1 .. i + 1 : c[j] = C[j]
    BY <1>1 DEF Firsts
  <1>3. b \in Seq(S) /\ Len(b) = 1 /\ b[1] = C[i + 1]
    BY <1>1
  <1> HIDE DEF a, b, c
  <1>4. /\ a \o b \in Seq(S) /\ Len(a \o b) = Len(a) + Len(b)
        /\ \A j \in 1 .. Len(a) + Len(b) :
              (a \o b)[j] = IF j <= Len(a) THEN a[j] ELSE b[j - Len(a)]
    BY <1>2, <1>3, ConcatProperties
  <1>5. Len(a \o b) = i + 1
    BY <1>2, <1>3, <1>4
  <1>6. ASSUME NEW j \in 1 .. i + 1 PROVE (a \o b)[j] = c[j]
    <2>1. (a \o b)[j] = IF j <= i THEN a[j] ELSE b[j - i]
      BY <1>2, <1>3, <1>4
    <2>2. CASE j <= i
      BY <1>2, <2>1, <2>2
    <2>3. CASE ~(j <= i)
      <3>1. j = i + 1 /\ j - i = 1
        BY <2>3
      <3>2. QED
        BY <1>2, <1>3, <2>1, <2>3, <3>1
    <2>4. QED
      BY <2>2, <2>3
  <1>7. a \o b = c
    BY <1>2, <1>4, <1>5, <1>6, SeqEqual
  <1>8. Firsts(C, 0) = <<>>
    BY DEF Firsts
  <1>9. QED
    BY <1>7, <1>8 DEF a, b, c

\* The values that are carried of an array.
CarriedAll(x, field, arr) ==
    [i \in DOMAIN arr |-> CarriedValue(Protos(x.version), x.def, field, arr[i])]

\* The array of a repeated field.
LEMMA ArrayTyped ==
    ASSUME NEW x \in Nested, NEW k \in DOMAIN x.obj, k \in DOMAIN x.def.fields,
           x.def.fields[k].option = "repeated", IsArr(x.obj[k])
    PROVE  LET field == x.def.fields[k]
               arr == x.obj[k].arr
               L == Len(arr)
           IN  /\ DefTyped(x.def) /\ field.tag \in 1 .. MaxInt \div 8 - 1
               /\ L \in Nat /\ L <= MaxInt /\ DOMAIN arr = 1 .. L
               /\ \A i \in 1 .. L : ValueTyped(x, field, arr[i])
               /\ arr = <<>> <=> L = 0
               /\ CarriedAll(x, field, arr) = Firsts(CarriedAll(x, field, arr), L)
               /\ CarriedField(Protos(x.version), x.def, field, x.obj[k])
                     = Arr(CarriedAll(x, field, arr))
  <1> DEFINE field == x.def.fields[k]
             v == x.obj[k]
             arr == v.arr
             L == Len(arr)
             S == {arr[i] : i \in DOMAIN arr}
  <1>1. DefTyped(x.def) /\ FieldTyped(x, field, v)
    BY MessagesAssumption DEF MessageTyped
  <1>2. /\ arr \in Seq(S) /\ L <= MaxInt
        /\ \A i \in DOMAIN arr : ValueTyped(x, field, arr[i])
    BY <1>1 DEF FieldTyped
  <1>3. field.tag \in 1 .. MaxInt \div 8 - 1
    BY <1>1 DEF DefTyped
  <1>4. CarriedField(Protos(x.version), x.def, field, v) = Arr(CarriedAll(x, field, arr))
    BY DEF CarriedField, CarriedAll
  <1> HIDE DEF arr, field, S
  <1>5. L \in Nat /\ DOMAIN arr = 1 .. L
    BY <1>2, LenProperties
  <1>6. arr = <<>> <=> L = 0
    BY <1>2, EmptySeq
  <1>7. CarriedAll(x, field, arr) = Firsts(CarriedAll(x, field, arr), L)
    BY <1>5 DEF CarriedAll, Firsts
  <1>8. QED
    BY <1>1, <1>2, <1>3, <1>4, <1>5, <1>6, <1>7 DEF arr, field

\* The elements of a packed array, one after the other.
LEMMA ElementsReadBack ==
    ASSUME NEW x \in Nested, Below(x), NEW field, NEW arr, NEW L \in Nat, Len(arr) = L,
           DOMAIN arr = 1 .. L, Packed(field.type),
           \A i \in 1 .. L : ValueTyped(x, field, arr[i])
    PROVE  LET g == Protos(x.version)
               r == EncodeElements(g, x.def, field, arr)
           IN  /\ r.ok /\ r.bytes \in Bytes
               /\ \A t \in Bytes :
                     DecodeElements(r.bytes \o t, g, x.def, field, L, <<>>) =
                         Read(Firsts(CarriedAll(x, field, arr), L), t)
  <1> DEFINE g == Protos(x.version)
             def == x.def
             e(i) == pb_encode_proto(g, def, field, arr[i])
             rs == [i \in 1 .. L |-> e(i)]
             C == CarriedAll(x, field, arr)
             r == EncodeElements(g, def, field, arr)
  <1>1. r = All(rs)
    BY DEF EncodeElements, EncodeElement
  <1>2. pb__get_type(field.type)
    BY DEF Packed
  <1>3. ASSUME NEW i \in 1 .. L
        PROVE  /\ e(i).ok /\ e(i).bytes \in Bytes
               /\ \A t \in Bytes : pb_decode_proto(e(i).bytes \o t, g, def, field)
                                     = Read(<<C[i]>>, t)
    <2>1. KnownValue(x, field, arr[i]) /\ ValueTyped(x, field, arr[i])
      BY <1>2 DEF KnownValue
    <2>2. ReadAs(x, field, arr[i]) = <<C[i]>>
      BY <1>2 DEF ReadAs, CarriedAll
    <2>3. e(i).ok /\ e(i).bytes \in Bytes
      BY <2>1, ValueReadsBack, Nothing
    <2>4. \A t \in Bytes : pb_decode_proto(e(i).bytes \o t, g, def, field)
                             = Read(ReadAs(x, field, arr[i]), t)
      BY <2>1, ValueReadsBack
    <2>5. QED
      BY <2>2, <2>3, <2>4, Zenon
  <1> HIDE DEF e, g, def, C
  <1>4. DOMAIN rs = 1 .. L /\ Len(rs) = L /\ \A i \in 1 .. L : rs[i] = e(i)
    OBVIOUS
  <1> HIDE DEF rs
  <1>5. \A i \in 1 .. L : rs[i].ok /\ rs[i].bytes \in Bytes
    BY <1>3, <1>4
  <1> DEFINE bs == [i \in 1 .. L |-> rs[i].bytes]
  <1>6. /\ All(rs).ok /\ All(rs).bytes \in Bytes
        /\ \E U : Tails(L, bs, U) /\ U[0] = All(rs).bytes
    BY <1>4, <1>5, AllSucceed
  <1>7. \A i \in 1 .. L : bs[i] = e(i).bytes
    BY <1>4
  <1> HIDE DEF bs
  <1>8. PICK U : Tails(L, bs, U) /\ U[0] = All(rs).bytes
    BY <1>6
  <1>9. ASSUME NEW t \in Bytes
        PROVE  DecodeElements(r.bytes \o t, g, def, field, L, <<>>) = Read(Firsts(C, L), t)
    <2> DEFINE h == Elements(r.bytes \o t, g, def, field, L, <<>>)
               T == {n \in Nat : n <= L /\ h[n] # Read(Firsts(C, n), U[n] \o t)}
    <2>1. h[0] = Read(<<>>, r.bytes \o t)
          /\ \A n \in 1 .. L : h[n] = OneMore(h[n - 1], g, def, field)
      BY ElementsAre
    <2> HIDE DEF h
    <2>2. ASSUME T # {} PROVE FALSE
      <3>1. PICK n \in T : \A m \in T : n <= m
        BY <2>2, LeastNatural
      <3>2. n # 0
        <4>1. Firsts(C, 0) = <<>> /\ U[0] = r.bytes
          BY <1>1, <1>8, FirstsGrow
        <4>2. h[0] = Read(Firsts(C, 0), U[0] \o t)
          BY <2>1, <4>1, Zenon
        <4>3. QED
          BY <3>1, <4>2
      <3>3. n \in 1 .. L /\ n - 1 \in Nat /\ n - 1 <= L /\ n \in 0 .. L /\ (n - 1) + 1 = n
            /\ ~(n <= n - 1)
        BY <3>1, <3>2
      <3>4. n - 1 \notin T
        BY <3>1, <3>3
      <3>5. h[n - 1] = Read(Firsts(C, n - 1), U[n - 1] \o t)
        BY <3>3, <3>4
      <3> DEFINE w == U[n] \o t
                 a == Firsts(C, n - 1)
                 q == pb_decode_proto(U[n - 1] \o t, g, def, field)
      <3>6. U[n] \in Bytes /\ U[n - 1] = e(n).bytes \o U[n] /\ e(n).bytes \in Bytes
        BY <1>3, <1>7, <1>8, <3>3 DEF Tails
      <3>7. U[n - 1] \o t = e(n).bytes \o w /\ w \in Bytes
        <4>1. (e(n).bytes \o U[n]) \o t = e(n).bytes \o (U[n] \o t)
          BY <3>6, Assoc
        <4>2. w \in Bytes
          BY <3>6, Joins
        <4>3. QED
          BY <3>6, <4>1, <4>2, Zenon
      <3> HIDE DEF w
      <3>8. q = Read(<<C[n]>>, w)
        BY <1>3, <3>3, <3>7
      <3>9. q.ok /\ q.val = <<C[n]>> /\ q.rest = w
        BY <3>8 DEF Read
      <3> DEFINE hp == h[n - 1]
      <3>10. hp.ok /\ hp.val = a /\ hp.rest = U[n - 1] \o t
        BY <3>5 DEF Read
      <3> HIDE DEF hp, a
      <3>11. OneMore(hp, g, def, field) =
               IF hp.ok
               THEN With(pb_decode_proto(hp.rest, g, def, field),
                         LAMBDA v, more : Read(hp.val \o v, more))
               ELSE hp
        BY DEF OneMore, With
      <3>12. OneMore(hp, g, def, field) =
               IF q.ok THEN Read(a \o q.val, q.rest) ELSE q
        BY <3>10, <3>11 DEF With
      <3> HIDE DEF q
      <3>13. OneMore(hp, g, def, field) = Read(a \o <<C[n]>>, w)
        BY <3>9, <3>12, Zenon
      <3>14. a \o <<C[n]>> = Firsts(C, n)
        BY <3>3, FirstsGrow DEF a
      <3>15. h[n] = Read(Firsts(C, n), w)
        BY <2>1, <3>3, <3>13, <3>14 DEF hp
      <3>16. QED
        BY <3>1, <3>15 DEF w
    <2>3. h[L] = Read(Firsts(C, L), U[L] \o t)
      <3>1. L \notin T
        BY <2>2
      <3>2. QED
        BY <3>1
    <2>4. U[L] \o t = t
      BY <1>8, Nothing DEF Tails
    <2>5. QED
      BY <2>3, <2>4, Zenon DEF DecodeElements, h
  <1>10. QED
    BY <1>1, <1>6, <1>9 DEF g, def, C

\* A packed array takes one turn.
LEMMA PackedReached ==
    ASSUME NEW x \in Nested, Below(x), NEW k \in DOMAIN x.obj,
           k \in DOMAIN x.def.fields, x.def.fields[k].option = "repeated",
           IsArr(x.obj[k]), Packed(x.def.fields[k].type)
    PROVE  LET g == Protos(x.version)
               r == EncodeField(g, x.def, k, x.obj[k])
           IN  /\ r.ok /\ r.bytes \in Bytes /\ r.bytes # <<>>
               /\ \A s, t \in Bytes : \A res :
                     k \notin DOMAIN res /\ Reached(s, g, x.def, res, r.bytes \o t) =>
                         Reached(s, g, x.def, AndField(x, k, res), t)
  <1> DEFINE g == Protos(x.version)
             def == x.def
             field == def.fields[k]
             v == x.obj[k]
             arr == v.arr
             L == Len(arr)
             C == CarriedAll(x, field, arr)
             r == EncodeField(g, def, k, v)
             tag == pb_encode_tag_for_field(field)
             size == pb_encode_varint(L)
             es == EncodeElements(g, def, field, arr)
  <1>1. /\ DefTyped(def) /\ field.tag \in 1 .. MaxInt \div 8 - 1
        /\ L \in Nat /\ L <= MaxInt /\ DOMAIN arr = 1 .. L
        /\ \A i \in 1 .. L : ValueTyped(x, field, arr[i])
        /\ C = Firsts(C, L)
        /\ CarriedField(g, def, field, v) = Arr(C)
    BY ArrayTyped
  <1>2. r = Then(Then(tag, Ok(size)), es)
    BY DEF EncodeField, pb_encode_array
  <1>3. \A res : AndField(x, k, res) = Set(res, k, Arr(C))
    BY <1>1 DEF AndField, Kept, Written
  <1>4. \A res, a : DecodeField(a, g, def, k, res) = DecodeRepeated(a, g, def, k, res)
    BY DEF DecodeField
  <1>5. \A res, a : k \notin DOMAIN res => pb_decode_array(a, g, def, k, res) =
                      With(pb_decode_varint(a), LAMBDA n, rest :
                           DecodeElements(rest, g, def, field, n, <<>>))
    BY DEF pb_decode_array, ArrayAt, With
  <1> HIDE DEF arr, field, g, def, C
  <1>6. tag.ok /\ tag.bytes \in Bytes /\ Len(tag.bytes) >= 1
    BY <1>1, TagReadsBack, Nothing
  <1>7. size \in Bytes
    BY <1>1, VarintBytes
  <1>8. /\ es.ok /\ es.bytes \in Bytes
        /\ \A t \in Bytes : DecodeElements(es.bytes \o t, g, def, field, L, <<>>) = Read(C, t)
    <2>1. Packed(field.type)
      BY DEF field, def
    <2>2. /\ es.ok /\ es.bytes \in Bytes
          /\ \A t \in Bytes : DecodeElements(es.bytes \o t, g, def, field, L, <<>>)
                                 = Read(Firsts(C, L), t)
      BY <1>1, <2>1, ElementsReadBack DEF g, def, C
    <2>3. QED
      BY <1>1, <2>2, Zenon
  <1>9. L \in 0 .. 2 * MaxInt + 1
    BY <1>1, MaxIntIs
  <1> HIDE DEF tag, size, es, L
  <1> DEFINE sz == Ok(size)
             hd == Then(tag, sz)
  <1>10. hd.ok /\ hd.bytes = tag.bytes \o size /\ hd.bytes \in Bytes
    <2>1. sz.ok /\ sz.bytes = size /\ sz.bytes \in Bytes
      BY <1>7 DEF Ok
    <2> HIDE DEF sz
    <2>2. hd.ok /\ hd.bytes = tag.bytes \o sz.bytes /\ hd.bytes \in Bytes
      BY <1>6, <2>1, ThenSucceeds
    <2>3. QED
      BY <2>1, <2>2, Zenon
  <1>11. r = Then(hd, es)
    BY <1>2
  <1> HIDE DEF hd, r
  <1>12. r.ok /\ r.bytes = hd.bytes \o es.bytes /\ r.bytes \in Bytes
    BY <1>8, <1>10, <1>11, ThenSucceeds
  <1>13. ASSUME NEW t \in Bytes
         PROVE  /\ size \o (es.bytes \o t) \in Bytes /\ es.bytes \o t \in Bytes
                /\ r.bytes \o t = tag.bytes \o (size \o (es.bytes \o t))
    <2> DEFINE u == es.bytes \o t
    <2>1. u \in Bytes
      BY <1>8, Joins
    <2>2. (hd.bytes \o es.bytes) \o t = hd.bytes \o u
      BY <1>8, <1>10, Assoc
    <2> HIDE DEF u
    <2>3. (tag.bytes \o size) \o u = tag.bytes \o (size \o u) /\ size \o u \in Bytes
      <3>1. (tag.bytes \o size) \o u = tag.bytes \o (size \o u)
        BY <1>6, <1>7, <2>1, Assoc
      <3>2. size \o u \in Bytes
        BY <1>7, <2>1, Joins
      <3>3. QED
        BY <3>1, <3>2
    <2>4. r.bytes \o t = tag.bytes \o (size \o u)
      BY <1>10, <1>12, <2>2, <2>3, Zenon
    <2>5. QED
      BY <2>1, <2>3, <2>4 DEF u
  <1>14. r.bytes # <<>>
    <2> DEFINE u == size \o (es.bytes \o <<>>)
               m == Len(tag.bytes)
               n == Len(u)
    <2>1. u \in Bytes /\ r.bytes \o <<>> = tag.bytes \o u
      BY <1>13, Nothing
    <2> HIDE DEF u
    <2>2. r.bytes = tag.bytes \o u
      BY <1>12, <2>1, Nothing
    <2>3. Len(tag.bytes \o u) = m + n /\ m \in Nat /\ n \in Nat /\ m >= 1
      BY <1>6, <2>1, Joins
    <2>4. Len(r.bytes) = m + n
      BY <2>2, <2>3, Zenon
    <2> HIDE DEF m, n
    <2>5. Len(r.bytes) > 0
      BY <2>3, <2>4
    <2>6. QED
      BY <1>12, <2>5, Nothing
  <1>15. ASSUME NEW s \in Bytes, NEW t \in Bytes, NEW res, k \notin DOMAIN res,
                Reached(s, g, def, res, r.bytes \o t)
         PROVE  Reached(s, g, def, AndField(x, k, res), t)
    <2> DEFINE u == es.bytes \o t
               a == size \o u
               q == pb_decode_varint(a)
    <2>1. u \in Bytes /\ a \in Bytes /\ r.bytes \o t = tag.bytes \o a
      BY <1>13
    <2>2. Len(t) <= Len(a)
      <3>1. /\ Len(u) = Len(es.bytes) + Len(t) /\ Len(es.bytes) \in Nat /\ Len(t) \in Nat
            /\ Len(a) = Len(size) + Len(u) /\ Len(size) \in Nat
        BY <1>7, <1>8, <2>1, Joins
      <3>2. QED
        BY <3>1
    <2>3. DecodeElements(u, g, def, field, L, <<>>) = Read(C, t)
      BY <1>8
    <2> HIDE DEF u
    <2>4. q = Read(L, u)
      BY <1>9, <2>1, VarintReadsBack DEF size
    <2>5. q.ok /\ q.val = L /\ q.rest = u
      BY <2>4 DEF Read
    <2> HIDE DEF a
    <2> DEFINE p == pb_decode_array(a, g, def, k, res)
    <2>6. p = IF q.ok THEN DecodeElements(q.rest, g, def, field, q.val, <<>>) ELSE q
      BY <1>5, <1>15 DEF With
    <2> HIDE DEF q
    <2>7. p = Read(C, t)
      BY <2>3, <2>5, <2>6
    <2>8. p.ok /\ p.val = C /\ p.rest = t
      BY <2>7 DEF Read
    <2>9. DecodeRepeated(a, g, def, k, res) =
            IF p.ok THEN Read(Set(res, k, Arr(p.val)), p.rest) ELSE p
      BY DEF DecodeRepeated, With
    <2> HIDE DEF p
    <2>10. DecodeField(a, g, def, k, res) = Read(AndField(x, k, res), t)
      BY <1>3, <1>4, <2>8, <2>9
    <2>11. Reached(s, g, def, res, pb_encode_tag_for_field(def.fields[k]).bytes \o a)
      BY <1>15, <2>1 DEF tag, field
    <2>12. k \in DOMAIN def.fields
      BY DEF def
    <2>13. QED
      BY <1>1, <2>1, <2>2, <2>10, <2>11, <2>12, OneTurn
  <1>16. QED
    BY <1>12, <1>14, <1>15 DEF g, def, r

\* The values of a key that are set one after the other.
LEMMA SetTwice ==
    ASSUME NEW res, NEW k, NEW a, NEW b
    PROVE  Set(Set(res, k, a), k, b) = Set(res, k, b)
  <1>1. DOMAIN Set(res, k, a) = DOMAIN res \cup {k}
        /\ \A l \in DOMAIN res : l # k => Set(res, k, a)[l] = res[l]
    BY DEF Set
  <1> DEFINE f == Set(res, k, a)
  <1> HIDE DEF f
  <1>2. DOMAIN f \cup {k} = DOMAIN res \cup {k}
        /\ \A l \in DOMAIN res : l # k => f[l] = res[l]
    BY <1>1 DEF f
  <1>3. [l \in DOMAIN f \cup {k} |-> IF l = k THEN b ELSE f[l]] =
        [l \in DOMAIN res \cup {k} |-> IF l = k THEN b ELSE res[l]]
    BY <1>2
  <1>4. QED
    BY <1>3 DEF Set, f

\* An element of an array that is not packed takes one turn.
LEMMA ElementTurn ==
    ASSUME NEW x \in Nested, Below(x), NEW k \in DOMAIN x.def.fields,
           x.def.fields[k].option = "repeated", ~Packed(x.def.fields[k].type),
           DefTyped(x.def), NEW v, ValueTyped(x, x.def.fields[k], v),
           KnownValue(x, x.def.fields[k], v)
    PROVE  LET g == Protos(x.version)
               r == EncodeElement(g, x.def, x.def.fields[k], v)
               c == CarriedValue(g, x.def, x.def.fields[k], v)
           IN  /\ r.ok /\ r.bytes \in Bytes /\ r.bytes # <<>>
               /\ \A s, w \in Bytes : \A res :
                     Reached(s, g, x.def, res, r.bytes \o w) =>
                         Reached(s, g, x.def,
                                 Set(res, k, Arr(ArrayAt(res, k) \o <<c>>)), w)
  <1> DEFINE g == Protos(x.version)
             def == x.def
             field == def.fields[k]
             c == CarriedValue(g, def, field, v)
             tag == pb_encode_tag_for_field(field)
             e == pb_encode_proto(g, def, field, v)
             r == EncodeElement(g, def, field, v)
  <1>1. field.tag \in 1 .. MaxInt \div 8 - 1
    BY DEF DefTyped
  <1>2. r = Then(tag, e)
    BY DEF EncodeElement
  <1>3. \A res, a : DecodeField(a, g, def, k, res) = DecodeRepeated(a, g, def, k, res)
    BY DEF DecodeField
  <1>4. \A res, a : pb_decode_array(a, g, def, k, res) =
           With(pb_decode_proto(a, g, def, field), LAMBDA y, rest :
                Read(ArrayAt(res, k) \o (IF y = <<>> THEN <<Obj(NoFields)>> ELSE y), rest))
    BY DEF pb_decode_array, With
  <1>5. (IF ReadAs(x, field, v) = <<>> THEN <<Obj(NoFields)>> ELSE ReadAs(x, field, v)) = <<c>>
    <2>1. CASE pb__get_type(field.type) \/ def.has_messages
      <3>1. ReadAs(x, field, v) = <<c>>
        BY <2>1 DEF ReadAs
      <3> HIDE DEF c
      <3>2. <<c>> # <<>>
        OBVIOUS
      <3>3. QED
        BY <3>1, <3>2
    <2>2. CASE ~(pb__get_type(field.type) \/ def.has_messages)
      BY <2>2 DEF ReadAs, CarriedValue
    <2>3. QED
      BY <2>1, <2>2
  <1> HIDE DEF field, g, def, c
  <1>6. tag.ok /\ tag.bytes \in Bytes /\ Len(tag.bytes) >= 1
    BY <1>1, TagReadsBack, Nothing
  <1>7. e.ok /\ e.bytes \in Bytes
    BY ValueReadsBack, Nothing DEF g, def, field
  <1>8. \A w \in Bytes : pb_decode_proto(e.bytes \o w, g, def, field) =
                            Read(ReadAs(x, field, v), w)
    BY ValueReadsBack DEF g, def, field
  <1> HIDE DEF tag, e
  <1>9. r.ok /\ r.bytes = tag.bytes \o e.bytes /\ r.bytes \in Bytes
    <2>1. r = Then(tag, e)
      BY <1>2
    <2>2. Then(tag, e).ok /\ Then(tag, e).bytes = tag.bytes \o e.bytes
      BY <1>6, <1>7, ThenSucceeds
    <2>3. tag.bytes \o e.bytes \in Bytes
      BY <1>6, <1>7, Joins
    <2> HIDE DEF r
    <2>4. QED
      BY <2>1, <2>2, <2>3, Zenon
  <1> HIDE DEF r
  <1>10. r.bytes # <<>>
    <2> DEFINE m == Len(tag.bytes)
               n == Len(e.bytes)
    <2>1. Len(tag.bytes \o e.bytes) = m + n /\ m \in Nat /\ n \in Nat /\ m >= 1
      BY <1>6, <1>7, Joins
    <2>2. Len(r.bytes) = m + n
      BY <1>9, <2>1, Zenon
    <2> HIDE DEF m, n
    <2>3. Len(r.bytes) > 0
      BY <2>1, <2>2
    <2>4. QED
      BY <1>9, <2>3, Nothing
  <1>11. ASSUME NEW s \in Bytes, NEW w \in Bytes, NEW res,
                Reached(s, g, def, res, r.bytes \o w)
         PROVE  Reached(s, g, def, Set(res, k, Arr(ArrayAt(res, k) \o <<c>>)), w)
    <2> DEFINE a == e.bytes \o w
               q == pb_decode_proto(a, g, def, field)
               p == pb_decode_array(a, g, def, k, res)
               all == ArrayAt(res, k) \o <<c>>
    <2>1. a \in Bytes /\ Len(a) = Len(e.bytes) + Len(w) /\ Len(e.bytes) \in Nat /\ Len(w) \in Nat
      BY <1>7, Joins
    <2>2. r.bytes \o w = tag.bytes \o a
      <3>1. (tag.bytes \o e.bytes) \o w = tag.bytes \o (e.bytes \o w)
        BY <1>6, <1>7, Assoc
      <3>2. QED
        BY <1>9, <3>1, Zenon
    <2>3. q = Read(ReadAs(x, field, v), w)
      BY <1>8
    <2>4. q.ok /\ q.val = ReadAs(x, field, v) /\ q.rest = w
      BY <2>3 DEF Read
    <2> HIDE DEF a
    <2>5. p = IF q.ok
              THEN Read(ArrayAt(res, k) \o (IF q.val = <<>> THEN <<Obj(NoFields)>>
                                            ELSE q.val), q.rest)
              ELSE q
      BY <1>4 DEF With
    <2> HIDE DEF q
    <2>6. (IF q.val = <<>> THEN <<Obj(NoFields)>> ELSE q.val) = <<c>>
      BY <1>5, <2>4, Zenon
    <2>7. p = Read(all, w)
      BY <2>4, <2>5, <2>6, Zenon
    <2> HIDE DEF all
    <2>8. p.ok /\ p.val = all /\ p.rest = w
      BY <2>7 DEF Read
    <2>9. DecodeRepeated(a, g, def, k, res) =
            IF p.ok THEN Read(Set(res, k, Arr(p.val)), p.rest) ELSE p
      BY DEF DecodeRepeated, With
    <2> HIDE DEF p
    <2>10. DecodeField(a, g, def, k, res) = Read(Set(res, k, Arr(all)), w)
      BY <1>3, <2>8, <2>9
    <2>11. Reached(s, g, def, res, pb_encode_tag_for_field(def.fields[k]).bytes \o a)
      BY <1>11, <2>2 DEF tag, field
    <2>12. k \in DOMAIN def.fields /\ DefTyped(def) /\ Len(w) <= Len(a)
      BY <2>1 DEF def
    <2>13. Reached(s, g, def, Set(res, k, Arr(all)), w)
      BY <2>1, <2>10, <2>11, <2>12, OneTurn
    <2>14. QED
      BY <2>13 DEF all
  <1>12. QED
    BY <1>9, <1>10, <1>11 DEF g, def, field, c, r

\* An array that is not packed takes one turn for every element.
LEMMA UnpackedReached ==
    ASSUME NEW x \in Nested, Below(x), NEW k \in DOMAIN x.obj,
           k \in DOMAIN x.def.fields, x.def.fields[k].option = "repeated",
           IsArr(x.obj[k]), ~Packed(x.def.fields[k].type),
           KnownField(x, x.def.fields[k], x.obj[k])
    PROVE  LET g == Protos(x.version)
               r == EncodeField(g, x.def, k, x.obj[k])
           IN  /\ r.ok /\ r.bytes \in Bytes
               /\ r.bytes # <<>> <=> x.obj[k].arr # <<>>
               /\ \A s, t \in Bytes : \A res :
                     k \notin DOMAIN res /\ Reached(s, g, x.def, res, r.bytes \o t) =>
                         Reached(s, g, x.def, AndField(x, k, res), t)
  <1> DEFINE g == Protos(x.version)
             def == x.def
             field == def.fields[k]
             v == x.obj[k]
             arr == v.arr
             L == Len(arr)
             C == CarriedAll(x, field, arr)
             r == EncodeField(g, def, k, v)
             e(i) == EncodeElement(g, def, field, arr[i])
             rs == [i \in 1 .. L |-> e(i)]
  <1>1. /\ DefTyped(def) /\ L \in Nat /\ DOMAIN arr = 1 .. L
        /\ \A i \in 1 .. L : ValueTyped(x, field, arr[i])
        /\ C = Firsts(C, L) /\ (arr = <<>> <=> L = 0)
        /\ CarriedField(g, def, field, v) = Arr(C)
    BY ArrayTyped
  <1>2. r = All(rs)
    BY <1>1 DEF EncodeField, pb_encode_array, EncodeElements
  <1>3. \A res : AndField(x, k, res) = IF L = 0 THEN res ELSE Set(res, k, Arr(C))
    BY <1>1 DEF AndField, Kept, Written
  <1>4. \A i \in 1 .. L : KnownValue(x, field, arr[i])
    BY <1>1 DEF KnownField
  <1>5. \A i \in 1 .. L : C[i] = CarriedValue(g, def, field, arr[i])
    BY <1>1 DEF CarriedAll
  <1>6. ~Packed(field.type) /\ field.option = "repeated"
    OBVIOUS
  <1> HIDE DEF arr, C, L
  <1>7. ASSUME NEW i \in 1 .. L
        PROVE  /\ e(i).ok /\ e(i).bytes \in Bytes /\ e(i).bytes # <<>>
               /\ \A s, w \in Bytes : \A res :
                     Reached(s, g, def, res, e(i).bytes \o w) =>
                         Reached(s, g, def, Set(res, k, Arr(ArrayAt(res, k) \o <<C[i]>>)), w)
    <2> DEFINE y == arr[i]
               c == CarriedValue(g, def, field, y)
    <2>1. ValueTyped(x, field, y) /\ KnownValue(x, field, y) /\ C[i] = c
      BY <1>1, <1>4, <1>5
    <2> HIDE DEF y
    <2>2. /\ EncodeElement(g, def, field, y).ok
          /\ EncodeElement(g, def, field, y).bytes \in Bytes
          /\ EncodeElement(g, def, field, y).bytes # <<>>
          /\ \A s, w \in Bytes : \A res :
                Reached(s, g, def, res, EncodeElement(g, def, field, y).bytes \o w) =>
                    Reached(s, g, def, Set(res, k, Arr(ArrayAt(res, k) \o <<c>>)), w)
      BY <1>1, <1>6, <2>1, ElementTurn
    <2>3. QED
      BY <2>1, <2>2, Zenon DEF y
  <1> HIDE DEF e, g, def, field
  <1>8. DOMAIN rs = 1 .. L /\ Len(rs) = L /\ \A i \in 1 .. L : rs[i] = e(i)
    BY <1>1
  <1> HIDE DEF rs
  <1>9. \A i \in 1 .. L : rs[i].ok /\ rs[i].bytes \in Bytes
    BY <1>7, <1>8
  <1> DEFINE bs == [i \in 1 .. L |-> rs[i].bytes]
  <1>10. /\ All(rs).ok /\ All(rs).bytes \in Bytes
         /\ \E U : Tails(L, bs, U) /\ U[0] = All(rs).bytes
    BY <1>1, <1>8, <1>9, AllSucceed
  <1>11. \A i \in 1 .. L : bs[i] = e(i).bytes
    BY <1>8
  <1>12. bs \in [1 .. L -> Bytes]
    BY <1>9
  <1> HIDE DEF bs
  <1>13. PICK U : Tails(L, bs, U) /\ U[0] = All(rs).bytes
    BY <1>10
  <1>14. r.bytes # <<>> <=> arr # <<>>
    <2>1. U[0] = <<>> <=> \A n \in 1 .. L : bs[n] = <<>>
      BY <1>1, <1>12, <1>13, NothingJoined
    <2>2. \A n \in 1 .. L : bs[n] # <<>>
      BY <1>7, <1>11
    <2>3. L # 0 => 1 \in 1 .. L
      BY <1>1
    <2>4. L = 0 => 1 .. L = {}
      OBVIOUS
    <2>5. U[0] = <<>> <=> L = 0
      BY <2>1, <2>2, <2>3, <2>4
    <2>6. QED
      BY <1>1, <1>2, <1>13, <2>5
  <1>15. ASSUME NEW s \in Bytes, NEW t \in Bytes, NEW res, k \notin DOMAIN res,
                Reached(s, g, def, res, r.bytes \o t)
         PROVE  Reached(s, g, def, AndField(x, k, res), t)
    <2> DEFINE ResAt(n) == IF n = 0 THEN res ELSE Set(res, k, Arr(Firsts(C, n)))
               T == {n \in Nat : n <= L /\ ~Reached(s, g, def, ResAt(n), U[n] \o t)}
    <2>1. ASSUME T # {} PROVE FALSE
      <3>1. PICK n \in T : \A m \in T : n <= m
        BY <2>1, LeastNatural
      <3>2. n # 0
        <4>1. U[0] = r.bytes /\ ResAt(0) = res
          BY <1>2, <1>13
        <4>2. Reached(s, g, def, ResAt(0), U[0] \o t)
          BY <1>15, <4>1, Zenon
        <4> HIDE DEF ResAt
        <4>3. QED
          BY <3>1, <4>2
      <3>3. n \in 1 .. L /\ n - 1 \in Nat /\ n - 1 <= L /\ n \in 0 .. L /\ (n - 1) + 1 = n
            /\ ~(n <= n - 1)
        BY <1>1, <3>1, <3>2
      <3>4. n - 1 \notin T
        BY <3>1, <3>3
      <3> DEFINE prev == ResAt(n - 1)
                 w == U[n] \o t
      <3>5. Reached(s, g, def, prev, U[n - 1] \o t)
        BY <3>3, <3>4
      <3>6. ArrayAt(prev, k) = Firsts(C, n - 1)
        <4>1. CASE n - 1 = 0
          <5>1. prev = res /\ Firsts(C, n - 1) = <<>>
            BY <4>1, FirstsGrow
          <5>2. QED
            BY <1>15, <5>1 DEF ArrayAt
        <4>2. CASE n - 1 # 0
          <5> DEFINE y == Firsts(C, n - 1)
          <5> HIDE DEF y
          <5>1. prev = Set(res, k, Arr(y))
            BY <4>2 DEF y
          <5>2. k \in DOMAIN prev /\ prev[k] = Arr(y)
            BY <5>1 DEF Set
          <5>3. prev[k].arr = y
            BY <5>2 DEF Arr
          <5>4. QED
            BY <5>2, <5>3 DEF ArrayAt, y
        <4>3. QED
          BY <4>1, <4>2
      <3>7. \A a : Set(prev, k, a) = Set(res, k, a)
        BY SetTwice
      <3> HIDE DEF prev
      <3>8. U[n] \in Bytes /\ U[n - 1] = e(n).bytes \o U[n] /\ e(n).bytes \in Bytes
        BY <1>7, <1>11, <1>13, <3>3 DEF Tails
      <3>9. U[n - 1] \o t = e(n).bytes \o w /\ w \in Bytes
        <4>1. (e(n).bytes \o U[n]) \o t = e(n).bytes \o (U[n] \o t)
          BY <3>8, Assoc
        <4>2. w \in Bytes
          BY <3>8, Joins
        <4>3. QED
          BY <3>8, <4>1, <4>2, Zenon
      <3> HIDE DEF w
      <3>10. Reached(s, g, def, prev, e(n).bytes \o w)
        BY <3>5, <3>9, Zenon
      <3>11. Reached(s, g, def, Set(prev, k, Arr(ArrayAt(prev, k) \o <<C[n]>>)), w)
        BY <1>7, <3>3, <3>9, <3>10, Zenon
      <3>12. Firsts(C, n - 1) \o <<C[n]>> = Firsts(C, n)
        BY <3>3, FirstsGrow
      <3>13. Reached(s, g, def, Set(res, k, Arr(Firsts(C, n))), w)
        BY <3>6, <3>7, <3>11, <3>12, Zenon
      <3>14. ResAt(n) = Set(res, k, Arr(Firsts(C, n)))
        BY <3>2
      <3>15. Reached(s, g, def, ResAt(n), U[n] \o t)
        BY <3>13, <3>14, Zenon DEF w
      <3> HIDE DEF ResAt
      <3>16. QED
        BY <3>1, <3>15
    <2>2. Reached(s, g, def, ResAt(L), U[L] \o t)
      <3>1. L \notin T
        BY <2>1
      <3> HIDE DEF ResAt
      <3>2. QED
        BY <1>1, <3>1
    <2>3. U[L] \o t = t
      BY <1>13, Nothing DEF Tails
    <2>4. ResAt(L) = AndField(x, k, res)
      BY <1>1, <1>3, Zenon
    <2>5. QED
      BY <2>2, <2>3, <2>4, Zenon
  <1>16. QED
    BY <1>2, <1>10, <1>14, <1>15 DEF g, def, arr
-----------------------------------------------------------------------------
(* Objects.                                                                *)

\* What pb_encode writes for a key is read back under it.
LEMMA FieldReached ==
    ASSUME NEW x \in Nested, Below(x), NEW k \in DOMAIN x.obj,
           k \in DOMAIN x.def.fields, KnownField(x, x.def.fields[k], x.obj[k])
    PROVE  LET g == Protos(x.version)
               r == EncodeField(g, x.def, k, x.obj[k])
           IN  /\ r.ok /\ r.bytes \in Bytes
               /\ r.bytes # <<>> <=> Written(x.def.fields[k], x.obj[k])
               /\ \A s, t \in Bytes : \A res :
                     k \notin DOMAIN res /\ Reached(s, g, x.def, res, r.bytes \o t) =>
                         Reached(s, g, x.def, AndField(x, k, res), t)
  <1> DEFINE g == Protos(x.version)
             field == x.def.fields[k]
             v == x.obj[k]
             r == EncodeField(g, x.def, k, v)
  <1>1. CASE field.option # "repeated"
    <2>1. Written(field, v)
      BY <1>1 DEF Written
    <2>2. QED
      BY <1>1, <2>1, SingleReached
  <1>2. CASE field.option = "repeated" /\ IsArr(v) /\ Packed(field.type)
    <2>1. Written(field, v)
      BY <1>2 DEF Written
    <2>2. QED
      BY <1>2, <2>1, PackedReached
  <1>3. CASE field.option = "repeated" /\ IsArr(v) /\ ~Packed(field.type)
    <2>1. Written(field, v) <=> v.arr # <<>>
      BY <1>3 DEF Written
    <2>2. QED
      BY <1>3, <2>1, UnpackedReached
  <1>4. CASE field.option = "repeated" /\ ~IsArr(v)
    <2>1. r = Ok(<<>>)
      BY <1>4 DEF EncodeField
    <2>2. r.ok /\ r.bytes = <<>> /\ r.bytes \in Bytes
      BY <2>1, Nothing DEF Ok
    <2>3. ~Written(field, v)
      BY <1>4 DEF Written
    <2>4. \A res : AndField(x, k, res) = res
      BY <2>3 DEF AndField, Kept
    <2> HIDE DEF r
    <2>5. \A t \in Bytes : r.bytes \o t = t
      BY <2>2, Nothing
    <2>6. \A s, t \in Bytes : \A res :
             k \notin DOMAIN res /\ Reached(s, g, x.def, res, r.bytes \o t) =>
                 Reached(s, g, x.def, AndField(x, k, res), t)
      BY <2>4, <2>5, Zenon
    <2>7. QED
      BY <2>2, <2>3, <2>6 DEF r
  <1>5. QED
    BY <1>1, <1>2, <1>3, <1>4

\* A key that is not known, or that has one in its messages, is not written.
LEMMA FieldFails ==
    ASSUME NEW x \in Nested, Below(x), NEW k \in DOMAIN x.obj,
           ~(k \in DOMAIN x.def.fields /\ KnownField(x, x.def.fields[k], x.obj[k]))
    PROVE  ~EncodeField(Protos(x.version), x.def, k, x.obj[k]).ok
  <1> DEFINE g == Protos(x.version)
             field == x.def.fields[k]
             v == x.obj[k]
             r == EncodeField(g, x.def, k, v)
  <1>1. CASE k \notin DOMAIN x.def.fields
    BY <1>1 DEF EncodeField, Fail
  <1>2. CASE k \in DOMAIN x.def.fields /\ field.option # "repeated"
    <2>1. FieldTyped(x, field, v)
      BY <1>2, MessagesAssumption DEF MessageTyped
    <2>2. ValueTyped(x, field, v) /\ ~KnownValue(x, field, v)
      BY <1>2, <2>1 DEF FieldTyped, KnownField
    <2>3. ~pb_encode_proto(g, x.def, field, v).ok
      BY <2>2, ValueReadsBack, Nothing
    <2>4. r = Then(pb_encode_tag_for_field(field), pb_encode_proto(g, x.def, field, v))
      BY <1>2 DEF EncodeField
    <2>5. QED
      BY <2>3, <2>4, ThenFails
  <1>3. CASE k \in DOMAIN x.def.fields /\ field.option = "repeated"
    <2>1. IsArr(v) /\ \E i \in DOMAIN v.arr : ~KnownValue(x, field, v.arr[i])
      BY <1>3 DEF KnownField
    <2>2. PICK i \in DOMAIN v.arr : ~KnownValue(x, field, v.arr[i])
      BY <2>1
    <2>3. ~Packed(field.type)
      BY <2>2 DEF KnownValue, Packed
    <2>4. FieldTyped(x, field, v)
      BY <1>3, MessagesAssumption DEF MessageTyped
    <2>5. ValueTyped(x, field, v.arr[i])
      BY <1>3, <2>1, <2>4 DEF FieldTyped
    <2> DEFINE y == v.arr[i]
               rs == [j \in DOMAIN v.arr |-> EncodeElement(g, x.def, field, v.arr[j])]
    <2>6. ~pb_encode_proto(g, x.def, field, y).ok
      BY <2>2, <2>5, ValueReadsBack, Nothing
    <2>7. EncodeElement(g, x.def, field, y) =
             Then(pb_encode_tag_for_field(field), pb_encode_proto(g, x.def, field, y))
      BY <2>3 DEF EncodeElement
    <2>8. ~EncodeElement(g, x.def, field, y).ok
      BY <2>6, <2>7, ThenFails
    <2>9. rs[i] = EncodeElement(g, x.def, field, y) /\ i \in DOMAIN rs
      OBVIOUS
    <2>10. r = All(rs)
      BY <1>3, <2>1, <2>3 DEF EncodeField, pb_encode_array, EncodeElements
    <2> HIDE DEF rs
    <2>11. QED
      BY <2>8, <2>9, <2>10, AllFail
  <1>4. QED
    BY <1>1, <1>2, <1>3

\* The keys of a message are known if those of its fields are.
LEMMA KeysKnownIs ==
    ASSUME NEW x \in Nested
    PROVE  KeysKnown(Protos(x.version), x.def, x.obj) <=>
             \A k \in DOMAIN x.obj : /\ k \in DOMAIN x.def.fields
                                     /\ KnownField(x, x.def.fields[k], x.obj[k])
  <1> DEFINE g == Protos(x.version)
             def == x.def
  <1> HIDE DEF g
  <1>1. ASSUME NEW k \in DOMAIN x.obj, k \in DOMAIN def.fields
        PROVE  KnownField(x, def.fields[k], x.obj[k]) <=>
                 \A o \in Inner(def, def.fields[k], x.obj[k]) :
                     \A d \in SubDef(g, def, def.fields[k].type) : known_sub(g, d, o)
    <2> DEFINE field == def.fields[k]
               v == x.obj[k]
               S == SubDef(g, def, field.type)
               K(o) == \A d \in S : known_sub(g, d, o)
    <2> HIDE DEF field, v, S, def
    <2>1. \A y : KnownValue(x, field, y) <=>
                   (~pb__get_type(field.type) /\ def.has_messages => K(y.obj))
      BY DEF KnownValue, S, g, def
    <2> HIDE DEF K
    <2>2. CASE pb__get_type(field.type) \/ ~def.has_messages
      <3>1. Inner(def, field, v) = {}
        BY <2>2 DEF Inner
      <3>2. KnownField(x, field, v)
        BY <2>1, <2>2 DEF KnownField
      <3>3. QED
        BY <3>1, <3>2 DEF field, v
    <2>3. CASE ~pb__get_type(field.type) /\ def.has_messages
      <3>1. \A y : KnownValue(x, field, y) <=> K(y.obj)
        BY <2>1, <2>3
      <3>2. KnownField(x, field, v) <=> \A o \in Inner(def, field, v) : K(o)
        <4>1. CASE field.option # "repeated"
          BY <2>3, <3>1, <4>1 DEF KnownField, Inner
        <4>2. CASE field.option = "repeated" /\ ~IsArr(v)
          BY <2>3, <3>1, <4>2 DEF KnownField, Inner
        <4>3. CASE field.option = "repeated" /\ IsArr(v)
          <5>1. Inner(def, field, v) = {v.arr[i].obj : i \in DOMAIN v.arr}
            BY <2>3, <4>3 DEF Inner
          <5>2. KnownField(x, field, v) <=> \A i \in DOMAIN v.arr : K(v.arr[i].obj)
            BY <3>1, <4>3 DEF KnownField
          <5>3. QED
            BY <5>1, <5>2
        <4>4. QED
          BY <4>1, <4>2, <4>3
      <3>3. QED
        BY <3>2 DEF K, S, field, v
    <2>4. QED
      BY <2>2, <2>3
  <1>2. QED
    BY <1>1 DEF KeysKnown, g
-----------------------------------------------------------------------------
(* Messages.                                                               *)

\* What is carried of the keys among q[1], ..., q[i].
CarriedTo(x, q, i) ==
    [k \in {k \in DOMAIN x.obj : /\ Kept(x.def, x.def.fields[k], x.obj[k])
                                 /\ \E j \in 1 .. i : q[j] = k} |->
        CarriedField(Protos(x.version), x.def, x.def.fields[k], x.obj[k])]

\* The keys of x, none of them twice.
KeysOnce(x, N, q) ==
    /\ N \in Nat /\ q \in [1 .. N -> DOMAIN x.obj]
    /\ \A i, j \in 1 .. N : q[i] = q[j] => i = j

\* What is carried of one key more.
LEMMA CarriedGrows ==
    ASSUME NEW x, NEW N, NEW q, KeysOnce(x, N, q), NEW n \in 1 .. N
    PROVE  /\ CarriedTo(x, q, 0) = NoFields
           /\ q[n] \notin DOMAIN CarriedTo(x, q, n - 1)
           /\ AndField(x, q[n], CarriedTo(x, q, n - 1)) = CarriedTo(x, q, n)
  <1> DEFINE kept(k) == Kept(x.def, x.def.fields[k], x.obj[k])
             cf(k) == CarriedField(Protos(x.version), x.def, x.def.fields[k], x.obj[k])
             O == DOMAIN x.obj
             D(i) == {k \in O : kept(k) /\ \E j \in 1 .. i : q[j] = k}
  <1>0. /\ N \in Nat /\ q \in [1 .. N -> DOMAIN x.obj]
        /\ \A i, j \in 1 .. N : q[i] = q[j] => i = j
    BY DEF KeysOnce
  <1>1. \A i : CarriedTo(x, q, i) = [k \in D(i) |-> cf(k)]
    BY DEF CarriedTo
  <1>2. \A k, res : AndField(x, k, res) = IF kept(k) THEN Set(res, k, cf(k)) ELSE res
    BY DEF AndField
  <1> HIDE DEF kept, cf
  <1>3. CarriedTo(x, q, 0) = NoFields
    <2>1. D(0) = {}
      OBVIOUS
    <2> HIDE DEF D
    <2>2. [k \in D(0) |-> cf(k)] = [k \in {} |-> {}]
      BY <2>1
    <2>3. QED
      BY <1>1, <2>2 DEF NoFields
  <1> DEFINE p == q[n]
  <1>4. p \in O
    BY <1>0
  <1>5. p \notin D(n - 1)
    <2>1. SUFFICES ASSUME NEW j \in 1 .. n - 1, q[j] = q[n] PROVE FALSE
      OBVIOUS
    <2>2. j \in 1 .. N /\ j # n
      BY <1>0
    <2>3. QED
      BY <1>0, <2>1, <2>2
  <1>6. D(n) = IF kept(p) THEN D(n - 1) \cup {p} ELSE D(n - 1)
    <2>1. \A k : (\E j \in 1 .. n : q[j] = k) <=> (\E j \in 1 .. n - 1 : q[j] = k) \/ k = p
      <3>1. 1 .. n = (1 .. n - 1) \cup {n}
        BY <1>0
      <3>2. QED
        BY <3>1
    <2>2. QED
      BY <1>4, <2>1
  <1> HIDE DEF D, p
  <1>7. p \notin DOMAIN CarriedTo(x, q, n - 1)
    BY <1>1, <1>5
  <1> DEFINE E == D(n - 1)
             F == D(n)
             a == [k \in E |-> cf(k)]
             b == [k \in F |-> cf(k)]
  <1>8. CarriedTo(x, q, n - 1) = a /\ CarriedTo(x, q, n) = b
    BY <1>1
  <1> HIDE DEF E, F
  <1>9. CASE kept(p)
    <2>1. F = E \cup {p} /\ p \notin E
      BY <1>5, <1>6, <1>9 DEF E, F
    <2>2. Set(a, p, cf(p)) = b
      BY <2>1 DEF Set
    <2>3. AndField(x, p, a) = Set(a, p, cf(p))
      BY <1>2, <1>9
    <2>4. QED
      BY <1>3, <1>7, <1>8, <2>2, <2>3 DEF p
  <1>10. CASE ~kept(p)
    <2>1. F = E
      BY <1>6, <1>10 DEF E, F
    <2>2. a = b
      BY <2>1
    <2>3. AndField(x, p, a) = a
      BY <1>2, <1>10
    <2>4. QED
      BY <1>3, <1>7, <1>8, <2>2, <2>3 DEF p
  <1>11. QED
    BY <1>9, <1>10

\* pb_encode and pb_decode of a message, if those of the messages in it are.
LEMMA MessageRoundTrip ==
    ASSUME NEW x \in Nested, Below(x)
    PROVE  RoundTrip(x)
  <1> DEFINE g == Protos(x.version)
             def == x.def
             obj == x.obj
             O == DOMAIN obj
             N == Cardinality(O)
             q == Visited(O)
             e(i) == EncodeField(g, def, q[i], obj[q[i]])
             rs == [i \in 1 .. N |-> e(i)]
             r == pb_encode(g, def, obj)
             C == Carried(g, def, obj)
  <1>1. IsFiniteSet(O)
    BY MessagesAssumption DEF MessageTyped
  <1>2. /\ N \in Nat /\ q \in [1 .. N -> O]
        /\ \A k \in O : \E i \in 1 .. N : q[i] = k
        /\ \A i, j \in 1 .. N : q[i] = q[j] => i = j
    BY <1>1, VisitedIs
  <1>3. r = All(rs)
    BY <1>2 DEF pb_encode
  <1>4. DOMAIN rs = 1 .. N /\ Len(rs) = N /\ \A i \in 1 .. N : rs[i] = e(i)
    BY <1>2
  <1>5. CASE ~KeysKnown(g, def, obj)
    <2>1. PICK k \in O : ~(k \in DOMAIN def.fields /\ KnownField(x, def.fields[k], obj[k]))
      BY <1>5, KeysKnownIs
    <2>2. PICK i \in 1 .. N : q[i] = k
      BY <1>2
    <2>3. ~EncodeField(g, def, k, obj[k]).ok
      BY <2>1, FieldFails
    <2> HIDE DEF q, rs, N
    <2>4. ~rs[i].ok /\ i \in DOMAIN rs
      BY <1>4, <2>2, <2>3
    <2>5. ~r.ok
      BY <1>3, <2>4, AllFail
    <2>6. QED
      BY <1>5, <2>5 DEF RoundTrip
  <1>6. CASE KeysKnown(g, def, obj)
    <2>1. \A k \in O : k \in DOMAIN def.fields /\ KnownField(x, def.fields[k], obj[k])
      BY <1>6, KeysKnownIs
    <2>2. ASSUME NEW i \in 1 .. N
          PROVE  /\ e(i).ok /\ e(i).bytes \in Bytes
                 /\ e(i).bytes # <<>> <=> Written(def.fields[q[i]], obj[q[i]])
                 /\ \A s, t \in Bytes : \A res :
                       q[i] \notin DOMAIN res /\ Reached(s, g, def, res, e(i).bytes \o t) =>
                           Reached(s, g, def, AndField(x, q[i], res), t)
      <3> DEFINE k == q[i]
      <3>1. k \in O
        BY <1>2
      <3> HIDE DEF k
      <3>2. k \in DOMAIN def.fields /\ KnownField(x, def.fields[k], obj[k])
        BY <2>1, <3>1
      <3> DEFINE ek == EncodeField(g, def, k, obj[k])
      <3>3. /\ ek.ok /\ ek.bytes \in Bytes
            /\ ek.bytes # <<>> <=> Written(def.fields[k], obj[k])
            /\ \A s, t \in Bytes : \A res :
                  k \notin DOMAIN res /\ Reached(s, g, def, res, ek.bytes \o t) =>
                      Reached(s, g, def, AndField(x, k, res), t)
        BY <3>1, <3>2, FieldReached
      <3>4. QED
        BY <3>3 DEF k
    <2> HIDE DEF e, q, rs, N, g, def
    <2>3. \A i \in 1 .. N : rs[i].ok /\ rs[i].bytes \in Bytes
      BY <1>4, <2>2
    <2> DEFINE bs == [i \in 1 .. N |-> rs[i].bytes]
    <2>4. /\ All(rs).ok /\ All(rs).bytes \in Bytes
          /\ \E U : Tails(N, bs, U) /\ U[0] = All(rs).bytes
      BY <1>2, <1>4, <2>3, AllSucceed
    <2>5. \A i \in 1 .. N : bs[i] = e(i).bytes
      BY <1>4
    <2>6. bs \in [1 .. N -> Bytes]
      BY <2>3
    <2> HIDE DEF bs
    <2>7. PICK U : Tails(N, bs, U) /\ U[0] = All(rs).bytes
      BY <2>4
    <2> DEFINE s == r.bytes
    <2>8. r.ok /\ s \in Bytes /\ U[0] = s
      BY <1>3, <2>4, <2>7
    <2> HIDE DEF r
    <2>9. s # <<>> <=> \E k \in O : Written(def.fields[k], obj[k])
      <3>1. U[0] = <<>> <=> \A n \in 1 .. N : bs[n] = <<>>
        BY <1>2, <2>6, <2>7, NothingJoined
      <3>2. \A n \in 1 .. N : bs[n] # <<>> <=> Written(def.fields[q[n]], obj[q[n]])
        BY <2>2, <2>5
      <3>3. s # <<>> <=> \E n \in 1 .. N : Written(def.fields[q[n]], obj[q[n]])
        BY <2>8, <3>1, <3>2
      <3>4. \A n \in 1 .. N : q[n] \in O
        BY <1>2
      <3>5. QED
        BY <1>2, <3>3, <3>4
    <2> HIDE DEF s
    <2> DEFINE T == {n \in Nat : n <= N /\ ~Reached(s, g, def, CarriedTo(x, q, n), U[n])}
    <2>10. ASSUME T # {} PROVE FALSE
      <3>1. PICK n \in T : \A m \in T : n <= m
        BY <2>10, LeastNatural
      <3>2. n # 0
        <4>1. Turns(s, g, def)[0] = GoOn(Read(NoFields, s))
          BY <2>8, Nothing, TurnsAre
        <4>2. 0 \in 0 .. Len(s) /\ Len(s) <= Len(s) - 0
          BY <2>8, Nothing
        <4>3. Reached(s, g, def, NoFields, s)
          BY <4>1, <4>2 DEF Reached
        <4>4. CarriedTo(x, q, 0) = NoFields
          BY DEF CarriedTo, NoFields
        <4>5. Reached(s, g, def, CarriedTo(x, q, 0), U[0])
          BY <2>8, <4>3, <4>4, Zenon
        <4>6. QED
          BY <3>1, <4>5
      <3>3. n \in 1 .. N /\ n - 1 \in Nat /\ n - 1 <= N /\ n \in 0 .. N /\ ~(n <= n - 1)
        BY <1>2, <3>1, <3>2
      <3>4. n - 1 \notin T
        BY <3>1, <3>3
      <3>5. Reached(s, g, def, CarriedTo(x, q, n - 1), U[n - 1])
        BY <3>3, <3>4
      <3>6. U[n] \in Bytes /\ U[n - 1] = e(n).bytes \o U[n]
        BY <2>5, <2>7, <3>3 DEF Tails
      <3>7. /\ q[n] \notin DOMAIN CarriedTo(x, q, n - 1)
            /\ AndField(x, q[n], CarriedTo(x, q, n - 1)) = CarriedTo(x, q, n)
        <4>1. KeysOnce(x, N, q)
          BY <1>2 DEF KeysOnce
        <4>2. QED
          BY <3>3, <4>1, CarriedGrows
      <3>8. Reached(s, g, def, CarriedTo(x, q, n - 1), e(n).bytes \o U[n])
        BY <3>5, <3>6, Zenon
      <3>9. Reached(s, g, def, AndField(x, q[n], CarriedTo(x, q, n - 1)), U[n])
        BY <2>2, <2>8, <3>3, <3>6, <3>7, <3>8, Zenon
      <3>10. Reached(s, g, def, CarriedTo(x, q, n), U[n])
        BY <3>7, <3>9, Zenon
      <3>11. QED
        BY <3>1, <3>10
    <2>11. Reached(s, g, def, CarriedTo(x, q, N), U[N])
      <3>1. N \notin T
        BY <2>10
      <3>2. QED
        BY <1>2, <3>1
    <2>12. CarriedTo(x, q, N) = C
      <3>1. {k \in O : Kept(def, def.fields[k], obj[k]) /\ \E j \in 1 .. N : q[j] = k}
              = {k \in O : Kept(def, def.fields[k], obj[k])}
        BY <1>2
      <3>2. QED
        BY <3>1, Zenon DEF CarriedTo, Carried, g, def
    <2>13. Reached(s, g, def, C, <<>>)
      BY <2>7, <2>11, <2>12, Zenon DEF Tails
    <2>14. pb_decode(s, g, def) = Read(C, <<>>)
      BY <2>8, <2>13, AllRead
    <2>15. QED
      BY <1>6, <2>8, <2>9, <2>14 DEF RoundTrip, r, s, g, def
  <1>7. QED
    BY <1>5, <1>6

\* pb-encode.c and pb-decode.c: every message, at every depth, is written exactly
\* if all of its keys are defined, and what is written is read back, whole, as
\* what the definitions can carry of the message.
THEOREM MessagesRoundTrip == \A x \in Nested : RoundTrip(x)
  <1> DEFINE T == {d \in Nat : \E x \in Nested : x.depth = d /\ ~RoundTrip(x)}
  <1>1. \A x \in Nested : x.depth \in Nat
    BY MessagesAssumption DEF MessageTyped
  <1>2. ASSUME T # {} PROVE FALSE
    <2>1. PICK d \in T : \A c \in T : d <= c
      BY <1>2, LeastNatural
    <2>2. PICK x \in Nested : x.depth = d /\ ~RoundTrip(x)
      BY <2>1
    <2>3. ASSUME NEW y \in Nested, y.depth < x.depth PROVE RoundTrip(y)
      <3>1. y.depth \in Nat /\ ~(d <= y.depth)
        BY <1>1, <2>1, <2>2, <2>3
      <3>2. y.depth \notin T
        BY <2>1, <3>1
      <3>3. QED
        BY <3>1, <3>2
    <2>4. Below(x)
      BY <2>3 DEF Below
    <2>5. QED
      BY <2>2, <2>4, MessageRoundTrip
  <1>3. QED
    BY <1>1, <1>2
-----------------------------------------------------------------------------
(* The length of the text.                                                 *)

\* All but the last digit of a number.
LEMMA Tens ==
    ASSUME NEW v \in Nat
    PROVE  v \div 10 \in Nat /\ (v >= 10 => v \div 10 < v)
  OBVIOUS

\* The digits of the numbers up to n.
DigitsTo(g, n) ==
    /\ g \in [0 .. n -> Nat]
    /\ \A v \in 0 .. n : g[v] = IF v < 10 THEN 1 ELSE 1 + g[v \div 10]

\* They exist: the least n for which they did not would have a predecessor.
LEMMA DigitsExist == \A n \in Nat : \E g : DigitsTo(g, n)
  <1> DEFINE T == {n \in Nat : ~\E g : DigitsTo(g, n)}
  <1>1. SUFFICES ASSUME T # {} PROVE FALSE
    OBVIOUS
  <1>2. PICK n \in T : \A m \in T : n <= m
    BY <1>1, LeastNatural
  <1>3. CASE n = 0
    <2> DEFINE f == [v \in 0 .. 0 |-> 1]
    <2>1. DigitsTo(f, 0)
      BY DEF DigitsTo
    <2>2. QED
      BY <1>2, <1>3, <2>1
  <1>4. CASE n # 0
    <2>1. n - 1 \in Nat /\ n - 1 \notin T
      BY <1>2, <1>4
    <2>2. PICK g : DigitsTo(g, n - 1)
      BY <2>1
    <2> DEFINE top == IF n < 10 THEN 1 ELSE 1 + g[n \div 10]
               f == [v \in 0 .. n |-> IF v = n THEN top ELSE g[v]]
    <2>3. /\ g \in [0 .. n - 1 -> Nat]
          /\ \A v \in 0 .. n - 1 : g[v] = IF v < 10 THEN 1 ELSE 1 + g[v \div 10]
      BY <2>2 DEF DigitsTo
    <2>4. top \in Nat
      <3>1. CASE n < 10
        BY <3>1
      <3>2. CASE ~(n < 10)
        <4>1. n \div 10 \in 0 .. n - 1
          BY <3>2, Tens
        <4>2. g[n \div 10] \in Nat
          BY <2>3, <4>1
        <4>3. QED
          BY <3>2, <4>2
      <3>3. QED
        BY <3>1, <3>2
    <2> HIDE DEF top
    <2>5. f \in [0 .. n -> Nat]
      <3>1. \A v \in 0 .. n : (IF v = n THEN top ELSE g[v]) \in Nat
        BY <2>1, <2>3, <2>4
      <3>2. QED
        BY <3>1
    <2>6. ASSUME NEW v \in 0 .. n
          PROVE  f[v] = IF v < 10 THEN 1 ELSE 1 + f[v \div 10]
      <3>1. f[v] = IF v = n THEN top ELSE g[v]
        OBVIOUS
      <3>2. ~(v < 10) => f[v \div 10] = g[v \div 10]
        <4>1. ~(v < 10) => v \div 10 \in 0 .. n /\ v \div 10 # n
          BY Tens
        <4>2. QED
          BY <4>1
      <3>3. v # n => g[v] = IF v < 10 THEN 1 ELSE 1 + g[v \div 10]
        BY <2>1, <2>3
      <3> HIDE DEF f
      <3>4. CASE v = n
        BY <3>1, <3>2, <3>4 DEF top
      <3>5. CASE v # n
        BY <3>1, <3>2, <3>3, <3>5
      <3>6. QED
        BY <3>4, <3>5
    <2> HIDE DEF f
    <2>7. DigitsTo(f, n)
      BY <2>5, <2>6 DEF DigitsTo
    <2>8. QED
      BY <1>2, <2>7
  <1>5. QED
    BY <1>3, <1>4

\* ... and any two agree.
LEMMA DigitsAgree ==
    ASSUME NEW m \in Nat, NEW n \in Nat, NEW f, NEW g,
           DigitsTo(f, m), DigitsTo(g, n), NEW k \in Nat, k <= m, k <= n
    PROVE  f[k] = g[k]
  <1> DEFINE T == {v \in Nat : v <= m /\ v <= n /\ f[v] # g[v]}
  <1>1. SUFFICES ASSUME T # {} PROVE FALSE
    OBVIOUS
  <1>2. PICK v \in T : \A w \in T : v <= w
    BY <1>1, LeastNatural
  <1>3. v \in 0 .. m /\ v \in 0 .. n
    BY <1>2
  <1>4. /\ f[v] = IF v < 10 THEN 1 ELSE 1 + f[v \div 10]
        /\ g[v] = IF v < 10 THEN 1 ELSE 1 + g[v \div 10]
    BY <1>3 DEF DigitsTo
  <1>5. v >= 10
    BY <1>2, <1>4
  <1>6. v \div 10 \in Nat /\ v \div 10 < v
    BY <1>2, <1>5, Tens
  <1>7. v \div 10 \notin T
    BY <1>2, <1>6
  <1>8. f[v \div 10] = g[v \div 10]
    BY <1>3, <1>6, <1>7
  <1>9. QED
    BY <1>2, <1>4, <1>8

\* A number has one digit at least, and two if it is not below ten.
LEMMA DigitsAre ==
    ASSUME NEW v \in Nat
    PROVE  Digits[v] \in Nat /\ Digits[v] >= 1 /\ (v >= 10 => Digits[v] >= 2)
  <1> DEFINE upto(n) == CHOOSE g : DigitsTo(g, n)
             f == [n \in Nat |-> upto(n)[n]]
  <1>1. \A n \in Nat : DigitsTo(upto(n), n)
    BY DigitsExist
  <1> HIDE DEF upto
  <1>2. ASSUME NEW n \in Nat PROVE upto(n)[n] \in Nat
    <2>1. n \in 0 .. n
      OBVIOUS
    <2>2. QED
      BY <1>1, <2>1 DEF DigitsTo
  <1>3. ASSUME NEW n \in Nat PROVE f[n] = IF n < 10 THEN 1 ELSE 1 + f[n \div 10]
    <2>1. n \in 0 .. n /\ f[n] = upto(n)[n]
      OBVIOUS
    <2>2. upto(n)[n] = IF n < 10 THEN 1 ELSE 1 + upto(n)[n \div 10]
      BY <1>1, <2>1 DEF DigitsTo
    <2>3. CASE n < 10
      BY <2>1, <2>2, <2>3
    <2>4. CASE ~(n < 10)
      <3>1. n \div 10 \in Nat /\ n \div 10 <= n
        BY <2>4, Tens
      <3>2. upto(n)[n \div 10] = upto(n \div 10)[n \div 10]
        BY <1>1, <3>1, DigitsAgree
      <3>3. f[n \div 10] = upto(n \div 10)[n \div 10]
        BY <3>1
      <3> HIDE DEF f
      <3>4. QED
        BY <2>1, <2>2, <2>4, <3>2, <3>3
    <2>5. QED
      BY <2>3, <2>4
  <1>4. \A n \in Nat : f[n] \in Nat
    BY <1>2
  <1>5. f = [n \in Nat |-> f[n]]
    OBVIOUS
  <1> HIDE DEF f
  <1>6. f = [n \in Nat |-> IF n < 10 THEN 1 ELSE 1 + f[n \div 10]]
    BY <1>3, <1>5
  <1>7. \E h : h = [n \in Nat |-> IF n < 10 THEN 1 ELSE 1 + h[n \div 10]]
    BY <1>6
  <1>8. Digits = [n \in Nat |-> IF n < 10 THEN 1 ELSE 1 + Digits[n \div 10]]
    BY <1>7 DEF Digits
  <1> DEFINE T == {n \in Nat : ~(Digits[n] \in Nat /\ Digits[n] >= 1)}
  <1>9. ASSUME T # {} PROVE FALSE
    <2>1. PICK n \in T : \A m \in T : n <= m
      BY <1>9, LeastNatural
    <2>2. Digits[n] = IF n < 10 THEN 1 ELSE 1 + Digits[n \div 10]
      BY <1>8, <2>1
    <2>3. ~(n < 10)
      BY <2>1, <2>2
    <2>4. n \div 10 \in Nat /\ n \div 10 < n
      BY <2>1, <2>3, Tens
    <2>5. n \div 10 \notin T
      BY <2>1, <2>4
    <2>6. Digits[n \div 10] \in Nat /\ Digits[n \div 10] >= 1
      BY <2>4, <2>5
    <2>7. QED
      BY <2>1, <2>2, <2>3, <2>6
  <1>10. \A n \in Nat : Digits[n] \in Nat /\ Digits[n] >= 1
    BY <1>9
  <1>11. Digits[v] = IF v < 10 THEN 1 ELSE 1 + Digits[v \div 10]
    BY <1>8
  <1>12. QED
    BY <1>10, <1>11, Tens

\* The recursive definition of Sums defines a function.
LEMMA SumsExist ==
    ASSUME NEW ss, NEW N \in Nat
    PROVE  \E f : f = [n \in 0 .. N |-> IF n = 0 THEN 0 ELSE f[n - 1] + ss[n]]
  <1> DEFINE E(j) == \E f : f = [n \in 0 .. j |->
                                   IF n = 0 THEN 0 ELSE f[n - 1] + ss[n]]
             T == {j \in Nat : ~E(j)}
  <1>1. SUFFICES ASSUME T # {} PROVE FALSE
    <2>1. N \notin T
      BY <1>1
    <2>2. QED
      BY <2>1
  <1>2. PICK j \in T : \A i \in T : j <= i
    BY <1>1, LeastNatural
  <1>3. j # 0
    <2>1. SUFFICES E(0)
      BY <1>2
    <2> DEFINE f == [n \in 0 .. 0 |-> 0]
    <2>2. f = [n \in 0 .. 0 |-> IF n = 0 THEN 0 ELSE f[n - 1] + ss[n]]
      OBVIOUS
    <2>3. QED
      BY <2>2
  <1>4. j - 1 \in Nat /\ j - 1 \notin T
    <2>1. j \in Nat
      BY <1>2
    <2>2. j - 1 \in Nat /\ ~(j <= j - 1)
      BY <1>3, <2>1
    <2> HIDE DEF T
    <2>3. QED
      BY <1>2, <2>2
  <1>5. PICK g : g = [n \in 0 .. j - 1 |-> IF n = 0 THEN 0 ELSE g[n - 1] + ss[n]]
    BY <1>4
  <1> DEFINE f == [n \in 0 .. j |-> IF n = j THEN g[j - 1] + ss[j] ELSE g[n]]
  <1>6. ASSUME NEW n \in 0 .. j
        PROVE  f[n] = IF n = 0 THEN 0 ELSE f[n - 1] + ss[n]
    <2>1. CASE n = j
      <3>0. f[n] = g[j - 1] + ss[j]
        BY <2>1
      <3>1. n - 1 \in 0 .. j /\ n - 1 # j /\ n # 0
        BY <1>3, <2>1
      <3>2. f[n - 1] = g[j - 1]
        BY <2>1, <3>1
      <3> HIDE DEF f
      <3>3. QED
        BY <2>1, <3>0, <3>1, <3>2
    <2>2. CASE n # j
      <3>1. n \in 0 .. j - 1 /\ f[n] = g[n]
        BY <2>2
      <3>2. g[n] = IF n = 0 THEN 0 ELSE g[n - 1] + ss[n]
        BY <1>5, <3>1
      <3>3. CASE n = 0
        BY <3>1, <3>2, <3>3
      <3>4. CASE n # 0
        <4>1. n - 1 \in 0 .. j /\ n - 1 # j
          BY <3>1, <3>4
        <4>2. f[n - 1] = g[n - 1]
          BY <4>1
        <4> HIDE DEF f
        <4>3. QED
          BY <3>1, <3>2, <3>4, <4>2
      <3>5. QED
        BY <3>3, <3>4
    <2>3. QED
      BY <2>1, <2>2
  <1>7. f = [n \in 0 .. j |-> f[n]]
    OBVIOUS
  <1> HIDE DEF f
  <1>8. f = [n \in 0 .. j |-> IF n = 0 THEN 0 ELSE f[n - 1] + ss[n]]
    BY <1>6, <1>7
  <1>9. QED
    BY <1>2, <1>8

\* The sums, one by one.
LEMMA SumsIs ==
    ASSUME NEW ss, Len(ss) \in Nat
    PROVE  /\ Sums(ss)[0] = 0
           /\ \A n \in 1 .. Len(ss) : Sums(ss)[n] = Sums(ss)[n - 1] + ss[n]
  <1>1. \E f : f = [n \in 0 .. Len(ss) |-> IF n = 0 THEN 0 ELSE f[n - 1] + ss[n]]
    BY SumsExist
  <1>2. Sums(ss) = [n \in 0 .. Len(ss) |->
                        IF n = 0 THEN 0 ELSE Sums(ss)[n - 1] + ss[n]]
    BY <1>1 DEF Sums
  <1> DEFINE f == Sums(ss)
  <1> HIDE DEF f
  <1>3. f = [n \in 0 .. Len(ss) |-> IF n = 0 THEN 0 ELSE f[n - 1] + ss[n]]
    BY <1>2 DEF f
  <1>4. f[0] = 0
    BY <1>3, SMTT(30)
  <1>5. ASSUME NEW n \in 1 .. Len(ss) PROVE f[n] = f[n - 1] + ss[n]
    <2>1. n \in 0 .. Len(ss) /\ n # 0
      OBVIOUS
    <2>2. QED
      BY <1>3, <2>1, SMTT(30)
  <1>6. QED
    BY <1>4, <1>5 DEF f
-----------------------------------------------------------------------------
(* The room that a message takes, and that of its text.                    *)

\* Streams of which each is within twice a length, with c bytes to spare, are
\* together within twice the sum, with c bytes to spare if there is one.
LEMMA JoinedFits ==
    ASSUME NEW N \in Nat, NEW bs \in [1 .. N -> Bytes], Len(bs) = N,
           NEW ls \in [1 .. N -> Nat], Len(ls) = N, NEW c \in Nat,
           \A i \in 1 .. N : Len(bs[i]) + c <= 2 * ls[i]
    PROVE  /\ Sums(ls)[N] \in Nat /\ Joined(bs)[N] \in Bytes
           /\ N = 0 => Len(Joined(bs)[N]) = 0
           /\ N > 0 => Len(Joined(bs)[N]) + c <= 2 * Sums(ls)[N]
  <1> DEFINE J == Joined(bs)
             S == Sums(ls)
             P(n) == /\ S[n] \in Nat /\ J[n] \in Bytes
                     /\ n = 0 => Len(J[n]) = 0
                     /\ n > 0 => Len(J[n]) + c <= 2 * S[n]
                     /\ Len(J[n]) <= 2 * S[n]
             T == {n \in Nat : n <= N /\ ~P(n)}
  <1>1. J[0] = <<>> /\ \A n \in 1 .. N : J[n] = J[n - 1] \o bs[n]
    BY JoinedIs
  <1>2. S[0] = 0 /\ \A n \in 1 .. N : S[n] = S[n - 1] + ls[n]
    BY SumsIs
  <1> HIDE DEF J, S
  <1>3. ASSUME T # {} PROVE FALSE
    <2>1. PICK n \in T : \A m \in T : n <= m
      BY <1>3, LeastNatural
    <2>2. n # 0
      <3>1. J[0] \in Bytes /\ Len(J[0]) = 0
        BY <1>1, Nothing
      <3>2. QED
        BY <1>2, <2>1, <3>1
    <2>3. n \in 1 .. N /\ n - 1 \in Nat /\ n - 1 <= N /\ ~(n <= n - 1) /\ n \in Nat /\ n > 0
      BY <2>1, <2>2
    <2>4. n - 1 \notin T
      BY <2>1, <2>3
    <2>5. P(n - 1)
      BY <2>3, <2>4
    <2> DEFINE j == J[n - 1]
               b == bs[n]
               s == S[n - 1]
               l == ls[n]
    <2>6. j \in Bytes /\ b \in Bytes /\ J[n] = j \o b /\ Len(j) <= 2 * s
          /\ s \in Nat /\ l \in Nat /\ S[n] = s + l /\ Len(b) + c <= 2 * l
      BY <1>1, <1>2, <2>3, <2>5
    <2> HIDE DEF j, b, s, l
    <2>7. /\ J[n] \in Bytes /\ Len(J[n]) = Len(j) + Len(b)
          /\ Len(j) \in Nat /\ Len(b) \in Nat
      BY <2>6, Joins
    <2>8. P(n)
      BY <2>3, <2>6, <2>7, SMTT(30)
    <2>9. QED
      BY <2>1, <2>8
  <1>4. P(N)
    <2>1. N \notin T
      BY <1>3
    <2>2. QED
      BY <2>1
  <1>5. QED
    BY <1>4 DEF J, S

\* Numbers below b take n bytes at most.
Within(b, n) == \A w \in Nat : w < b => Len(pb_encode_varint(w)) <= n

\* One byte more than the bits above the lowest seven take.
LEMMA OneMoreByte ==
    ASSUME NEW b \in Nat, NEW n \in Nat, n >= 1, Within(b, n)
    PROVE  Within(128 * b, n + 1)
  <1> SUFFICES ASSUME NEW v \in Nat, v < 128 * b
               PROVE  Len(pb_encode_varint(v)) <= n + 1
    BY DEF Within
  <1>1. CASE v < 128
    <2>1. pb_encode_varint(v) = <<v>>
      BY <1>1, VarintIs
    <2>2. Len(<<v>>) = 1
      BY OneByte
    <2>3. QED
      BY <2>1, <2>2
  <1>2. CASE ~(v < 128)
    <2> DEFINE w == v \div 128
               h == <<(v % 128) + 128>>
               e == pb_encode_varint(w)
    <2>1. v % 128 \in 0 .. 127 /\ w \in Nat /\ v = 128 * w + (v % 128)
      BY Groups
    <2>2. w < b
      BY <2>1
    <2>3. pb_encode_varint(v) = h \o e
      BY <1>2, VarintIs
    <2>4. h \in Bytes /\ Len(h) = 1
      BY <2>1, OneByte
    <2> HIDE DEF w, h
    <2>5. e \in Bytes /\ Len(e) <= n
      BY <2>1, <2>2, VarintBytes DEF Within
    <2> HIDE DEF e
    <2>6. Len(h \o e) = Len(h) + Len(e) /\ Len(e) \in Nat
      BY <2>4, <2>5, Joins
    <2>7. QED
      BY <2>3, <2>4, <2>5, <2>6
  <1>3. QED
    BY <1>1, <1>2

\* How many bytes a varint takes.
LEMMA VarintLens ==
    ASSUME NEW v \in Nat
    PROVE  /\ Len(pb_encode_varint(v)) \in Nat
           /\ v < 128 => Len(pb_encode_varint(v)) = 1
           /\ v < 128 * 128 => Len(pb_encode_varint(v)) <= 2
           /\ v < PC_PKG_MAX_BODY_BYTES => Len(pb_encode_varint(v)) <= 4
           /\ v <= 2 * MaxInt + 1 => Len(pb_encode_varint(v)) <= 5
  <1> DEFINE b2 == 128 * 128
             b3 == 128 * b2
             b4 == 128 * b3
             b5 == 128 * b4
  <1>0. b2 \in Nat /\ b3 \in Nat /\ b4 \in Nat /\ b5 \in Nat
    OBVIOUS
  <1>1. ASSUME NEW w \in Nat, w < 128
        PROVE  Len(pb_encode_varint(w)) = 1
    <2>1. pb_encode_varint(w) = <<w>>
      BY <1>1, VarintIs
    <2>2. Len(<<w>>) = 1
      BY OneByte
    <2>3. QED
      BY <2>1, <2>2
  <1>2. Within(128, 1)
    <2> SUFFICES ASSUME NEW w \in Nat, w < 128
                 PROVE  Len(pb_encode_varint(w)) <= 1
      BY DEF Within
    <2>1. Len(pb_encode_varint(w)) = 1
      BY <1>1
    <2>2. QED
      BY <2>1
  <1> HIDE DEF b2, b3, b4, b5
  <1>3. Within(b2, 2)
    <2>1. Within(128 * 128, 1 + 1)
      BY <1>2, OneMoreByte
    <2>2. QED
      BY <2>1 DEF b2
  <1>4. Within(b3, 3)
    <2>1. Within(128 * b2, 2 + 1)
      BY <1>0, <1>3, OneMoreByte
    <2>2. QED
      BY <2>1 DEF b3
  <1>5. Within(b4, 4)
    <2>1. Within(128 * b3, 3 + 1)
      BY <1>0, <1>4, OneMoreByte
    <2>2. QED
      BY <2>1 DEF b4
  <1>6. Within(b5, 5)
    <2>1. Within(128 * b4, 4 + 1)
      BY <1>0, <1>5, OneMoreByte
    <2>2. QED
      BY <2>1 DEF b5
  <1>7. PC_PKG_MAX_BODY_BYTES \in Nat /\ PC_PKG_MAX_BODY_BYTES < b4
    BY PackageFits DEF b4, b3, b2
  <1>8. 2 * MaxInt + 1 \in Nat /\ 2 * MaxInt + 1 < b5
    BY MaxIntIs DEF b5, b4, b3, b2
  <1>9. v < PC_PKG_MAX_BODY_BYTES => v < b4
    BY <1>0, <1>7
  <1>10. v <= 2 * MaxInt + 1 => v < b5
    BY <1>0, <1>8
  <1>11. Len(pb_encode_varint(v)) \in Nat
    BY VarintBytes, Nothing
  <1>12. v < 128 * 128 => Len(pb_encode_varint(v)) <= 2
    BY <1>3 DEF Within, b2
  <1>13. QED
    BY <1>1, <1>5, <1>6, <1>9, <1>10, <1>11, <1>12 DEF Within

\* A tag below 2048 takes two bytes at most.
LEMMA TagLen ==
    ASSUME NEW field, field.tag \in 1 .. MaxInt \div 8 - 1, field.tag < 2048
    PROVE  LET e == pb_encode_tag_for_field(field)
           IN  e.ok /\ e.bytes \in Bytes /\ Len(e.bytes) \in Nat /\ Len(e.bytes) <= 2
  <1> DEFINE c == pb__get_constant_type(field.type)
             v == c + 8 * field.tag
             e == pb_encode_tag_for_field(field)
  <1>1. c \in 0 .. 5
    BY DEF pb__get_constant_type
  <1>2. e.ok /\ e.bytes = pb_encode_varint(v)
    BY DEF pb_encode_tag_for_field, Ok
  <1> HIDE DEF c
  <1>3. field.tag \in Nat
    BY MaxIntIs
  <1>4. v \in Nat /\ v < 128 * 128
    BY <1>1, <1>3
  <1> HIDE DEF v
  <1>5. QED
    BY <1>2, <1>4, VarintLens, VarintBytes

\* The text of a number.
LEMMA NumberText ==
    ASSUME NEW n \in Int
    PROVE  /\ NumberLen(n) \in Nat /\ NumberLen(n) >= 1
           /\ n < 0 \/ n >= 10 => NumberLen(n) >= 2
  <1>1. CASE n < 0
    <2>1. -n \in Nat /\ NumberLen(n) = 1 + Digits[-n]
      BY <1>1 DEF NumberLen
    <2>2. Digits[-n] \in Nat /\ Digits[-n] >= 1
      BY <2>1, DigitsAre
    <2>3. QED
      BY <2>1, <2>2
  <1>2. CASE ~(n < 0)
    <2>1. n \in Nat /\ NumberLen(n) = Digits[n]
      BY <1>2 DEF NumberLen
    <2>2. QED
      BY <1>2, <2>1, DigitsAre
  <1>3. QED
    BY <1>1, <1>2

\* The text of the values of JSON, by their kinds.
LEMMA TextIs ==
    ASSUME NEW v
    PROVE  /\ v = Num(v.num) => JsonLen(v) = NumberLen(v.num)
           /\ v = Str(v.str) => JsonLen(v) = 2 + Len(v.str)
           /\ v = Arr(v.arr) => JsonLen(v) =
                 Bracketed([i \in DOMAIN v.arr |-> json_sub(v.arr[i]) + 1])
  <1>1. CASE v = Num(v.num)
    <2>1. DOMAIN v = {"num"}
      BY <1>1 DEF Num
    <2>2. JsonLen(v) = NumberLen(v.num)
      BY <2>1 DEF JsonLen
    <2>3. v # Str(v.str) /\ v # Arr(v.arr)
      BY <2>1 DEF Str, Arr
    <2>4. QED
      BY <2>2, <2>3
  <1>2. CASE v = Str(v.str)
    <2>1. DOMAIN v = {"str"}
      BY <1>2 DEF Str
    <2>2. JsonLen(v) = 2 + Len(v.str)
      BY <2>1 DEF JsonLen
    <2>3. v # Num(v.num) /\ v # Arr(v.arr)
      BY <2>1 DEF Num, Arr
    <2>4. QED
      BY <2>2, <2>3
  <1>3. CASE v = Arr(v.arr)
    <2>1. DOMAIN v = {"arr"}
      BY <1>3 DEF Arr
    <2>2. JsonLen(v) = Bracketed([i \in DOMAIN v.arr |-> json_sub(v.arr[i]) + 1])
      BY <2>1 DEF JsonLen
    <2>3. v # Num(v.num) /\ v # Str(v.str)
      BY <2>1 DEF Num, Str
    <2>4. QED
      BY <2>2, <2>3
  <1>4. QED
    BY <1>1, <1>2, <1>3

\* What is written of a message is shorter than twice its text, by the four
\* bytes that its length takes in another message.
Roomy(x) ==
    LET g == Protos(x.version)
        text == JsonLen(Obj(x.obj))
    IN  KeysKnown(g, x.def, x.obj) /\ ~Wide(g, x.def, x.obj) =>
            text \in Nat /\ Len(pb_encode(g, x.def, x.obj).bytes) + 4 <= 2 * text

\* The messages in x are.
RoomyBelow(x) == \A y \in Nested : y.depth < x.depth => Roomy(y)

\* A message in x that is not wide.
NarrowValue(x, field, v) ==
    ~pb__get_type(field.type) /\ x.def.has_messages =>
        \A d \in SubDef(Protos(x.version), x.def, field.type) :
            ~wide_sub(Protos(x.version), d, v.obj)

\* The room of a value, by that of its text.
Room(type, n) ==
    IF type = "double" THEN 8
    ELSE IF Packed(type) THEN 2 * n + 2
    ELSE 2 * n

\* The varint of a number takes one byte if the number has one digit.
LEMMA VarintRoom ==
    ASSUME NEW n \in Int, NEW z \in Nat, z <= 2 * MaxInt + 1,
           n >= 0 /\ n < 10 => z < 128
    PROVE  Len(pb_encode_varint(z)) <= 2 * NumberLen(n) + 2
  <1> DEFINE l == Len(pb_encode_varint(z))
             t == NumberLen(n)
  <1>1. l \in Nat /\ l <= 5 /\ (z < 128 => l = 1)
    BY VarintLens
  <1>2. t \in Nat /\ t >= 1 /\ (n < 0 \/ n >= 10 => t >= 2)
    BY NumberText
  <1> HIDE DEF l, t
  <1>3. l <= 2 * t + 2
    BY <1>1, <1>2
  <1>4. QED
    BY <1>3 DEF l, t

\* A message in a message.
LEMMA MessageRoom ==
    ASSUME NEW x \in Nested, NEW field, NEW v, ValueTyped(x, field, v),
           ~pb__get_type(field.type), x.def.has_messages, RoomyBelow(x),
           KnownValue(x, field, v), NarrowValue(x, field, v),
           json_sub(v) = JsonLen(v), json_sub(v) \in Nat
    PROVE  Len(pb_encode_proto(Protos(x.version), x.def, field, v).bytes)
              <= 2 * json_sub(v)
  <1> DEFINE g == Protos(x.version)
             S == SubDef(g, x.def, field.type)
             d == CHOOSE e \in S : TRUE
             p == pb_encode_proto(g, x.def, field, v)
  <1>1. field.type \notin {"uInt32", "int32", "sInt32", "float", "double", "string"}
    BY DEF pb__get_type, Varints
  <1>2. /\ S # {} /\ v = Obj(v.obj)
        /\ \E y \in Nested : /\ y.version = x.version /\ y.obj = v.obj
                             /\ y.def = d /\ y.depth < x.depth
    BY <1>1 DEF ValueTyped
  <1>3. PICK y \in Nested : /\ y.version = x.version /\ y.obj = v.obj
                            /\ y.def = d /\ y.depth < x.depth
    BY <1>2
  <1>4. d \in S
    BY <1>2
  <1>5. known_sub(g, d, v.obj)
    BY <1>4 DEF KnownValue
  <1>6. ~wide_sub(g, d, v.obj)
    BY <1>4 DEF NarrowValue
  <1> HIDE DEF S, d
  <1> DEFINE r == pb_encode(g, y.def, y.obj)
  <1>7. /\ encode_sub(g, y.def, y.obj) = r
        /\ known_sub(g, y.def, y.obj) = KeysKnown(g, y.def, y.obj)
        /\ wide_sub(g, y.def, y.obj) = Wide(g, y.def, y.obj)
    BY <1>3, MessagesAssumption DEF CallsItself
  <1>8. KeysKnown(g, y.def, y.obj) /\ ~Wide(g, y.def, y.obj)
    BY <1>3, <1>5, <1>6, <1>7
  <1>9. r.ok /\ r.bytes \in Bytes
    BY <1>3, <1>8, MessagesRoundTrip DEF RoundTrip
  <1>10. Len(r.bytes) + 4 <= 2 * JsonLen(Obj(y.obj))
    BY <1>3, <1>8 DEF RoomyBelow, Roomy
  <1>11. Len(r.bytes) < PC_PKG_MAX_BODY_BYTES
    BY <1>3, <1>9, MessagesAssumption DEF MessageTyped
  <1>12. p = Prefixed(r)
    BY <1>1, <1>2, <1>3, <1>7 DEF pb_encode_proto, pb_encode_submessage, S, d
  <1>13. JsonLen(Obj(y.obj)) = json_sub(v)
    BY <1>2, <1>3
  <1> HIDE DEF r, p
  <1> DEFINE b == r.bytes
             h == pb_encode_varint(Len(b))
  <1>14. p.bytes = h \o b
    BY <1>9, <1>12 DEF Prefixed, Ok, pb_encode_string
  <1> HIDE DEF b
  <1>15. b \in Bytes /\ Len(b) \in Nat
    BY <1>9, Nothing DEF b
  <1>16. h \in Bytes /\ Len(h) <= 4 /\ Len(h) \in Nat
    BY <1>11, <1>15, VarintBytes, VarintLens DEF b
  <1> HIDE DEF h
  <1>17. Len(p.bytes) = Len(h) + Len(b)
    BY <1>14, <1>15, <1>16, Joins
  <1>18. QED
    BY <1>10, <1>13, <1>15, <1>16, <1>17 DEF b, p, g

\* One value.
LEMMA ValueRoom ==
    ASSUME NEW x \in Nested, NEW field, NEW v, ValueTyped(x, field, v), RoomyBelow(x),
           KnownValue(x, field, v), NarrowValue(x, field, v),
           json_sub(v) = JsonLen(v), json_sub(v) \in Nat
    PROVE  LET r == pb_encode_proto(Protos(x.version), x.def, field, v)
           IN  /\ r.ok /\ r.bytes \in Bytes /\ Len(r.bytes) \in Nat
               /\ Len(r.bytes) <= Room(field.type, json_sub(v))
               /\ Packed(field.type) => json_sub(v) >= 1
  <1> DEFINE g == Protos(x.version)
             r == pb_encode_proto(g, x.def, field, v)
             n == json_sub(v)
             type == field.type
  <1> HIDE DEF g
  <1>0. r.ok /\ r.bytes \in Bytes /\ Len(r.bytes) \in Nat
    <2>1. Below(x)
      BY MessagesRoundTrip DEF Below
    <2>2. r.ok /\ r.bytes \in Bytes
      BY <2>1, ValueReadsBack, Nothing DEF g
    <2>3. QED
      BY <2>2, Nothing
  <1>1. Number(v) => v.num \in Int /\ n = NumberLen(v.num) /\ n >= 1
    <2>1. Number(v) => v = Num(v.num) /\ v.num \in Int
      BY DEF Number
    <2>2. QED
      BY <2>1, TextIs, NumberText
  <1>2. CASE type = "uInt32"
    <2> DEFINE z == v.num
    <2>1. Number(v) /\ z \in 0 .. MaxInt
      BY <1>2 DEF ValueTyped
    <2>2. r.bytes = pb_encode_varint(z)
      BY <1>2 DEF pb_encode_proto, Ok
    <2> HIDE DEF z
    <2>3. z \in Int /\ z \in Nat /\ z <= 2 * MaxInt + 1 /\ (z >= 0 /\ z < 10 => z < 128)
      BY <2>1, MaxIntIs
    <2>4. Len(pb_encode_varint(z)) <= 2 * NumberLen(z) + 2
      BY <2>3, VarintRoom
    <2>5. Packed(type) /\ type # "double"
      BY <1>2 DEF Packed, pb__get_type, Varints
    <2> HIDE DEF r
    <2>6. Len(r.bytes) <= 2 * n + 2 /\ n >= 1
      BY <1>1, <2>1, <2>2, <2>4 DEF z
    <2>7. QED
      BY <1>0, <2>5, <2>6 DEF Room, r, g
  <1>3. CASE type \in {"int32", "sInt32"}
    <2> DEFINE m == v.num
               z == Zigzag(m)
    <2>1. Number(v) /\ m \in -MaxInt .. MaxInt
      BY <1>3 DEF ValueTyped
    <2>2. r.bytes = pb_encode_varint(z)
      BY <1>3 DEF pb_encode_proto, Ok, pb_encode_svarint, Zigzag
    <2> HIDE DEF m
    <2>3. m \in Int /\ -MaxInt <= m /\ m <= MaxInt
      BY <2>1, MaxIntIs
    <2>4. z \in 0 .. 2 * MaxInt + 1
      BY <2>3, ZigzagIs
    <2>5. m >= 0 /\ m < 10 => z < 128
      BY <2>3 DEF Zigzag
    <2>6. z \in Nat /\ z <= 2 * MaxInt + 1
      BY <2>4, MaxIntIs
    <2> HIDE DEF z
    <2>7. Len(pb_encode_varint(z)) <= 2 * NumberLen(m) + 2
      BY <2>3, <2>5, <2>6, VarintRoom
    <2>8. Packed(type) /\ type # "double"
      BY <1>3 DEF Packed, pb__get_type, Varints
    <2> HIDE DEF r
    <2>9. Len(r.bytes) <= 2 * n + 2 /\ n >= 1
      BY <1>1, <2>1, <2>2, <2>7 DEF m
    <2>10. QED
      BY <1>0, <2>8, <2>9 DEF Room, r, g
  <1>4. CASE type \in {"float", "double"}
    <2> DEFINE w == IF type = "float" THEN 4 ELSE 8
    <2>1. Number(v)
      BY <1>4 DEF ValueTyped
    <2>2. r.bytes = pb_encode_fixed(v.num, w)
      BY <1>4 DEF pb_encode_proto, Ok
    <2>3. Len(r.bytes) = w
      BY <2>2 DEF pb_encode_fixed
    <2>4. Packed(type)
      BY <1>4 DEF Packed, pb__get_type, Varints
    <2> HIDE DEF r
    <2>5. QED
      BY <1>0, <1>1, <1>4, <2>1, <2>3, <2>4 DEF Room, r, g
  <1>5. CASE type = "string"
    <2> DEFINE s == v.str
               h == pb_encode_varint(Len(s))
    <2>1. v = Str(v.str) /\ s \in Bytes /\ Len(s) <= MaxInt
      BY <1>5 DEF ValueTyped, Bytes
    <2>2. r.bytes = h \o s
      BY <1>5 DEF pb_encode_proto, Ok, pb_encode_string
    <2>3. n = 2 + Len(s)
      BY <2>1, TextIs
    <2> HIDE DEF s
    <2>4. Len(s) \in Nat /\ Len(s) <= 2 * MaxInt + 1
      BY <2>1, Nothing, MaxIntIs
    <2>5. h \in Bytes /\ Len(h) \in Nat /\ Len(h) <= 5 /\ (Len(s) < 128 => Len(h) = 1)
      BY <2>4, VarintBytes, VarintLens
    <2> HIDE DEF h, r
    <2>6. Len(r.bytes) = Len(h) + Len(s)
      BY <2>1, <2>2, <2>5, Joins
    <2>7. Len(r.bytes) <= 2 * n
      <3>1. \A a, c \in Nat : c <= 5 /\ (a < 128 => c = 1) => c + a <= 2 * (2 + a)
        OBVIOUS
      <3>2. Len(h) + Len(s) <= 2 * (2 + Len(s))
        BY <2>4, <2>5, <3>1
      <3>3. QED
        BY <2>3, <2>6, <3>2
    <2>8. ~Packed(type) /\ type # "double"
      BY <1>5 DEF Packed
    <2>9. QED
      BY <1>0, <2>7, <2>8 DEF Room, r, g
  <1>6. CASE ~pb__get_type(type)
    <2>1. type \notin {"uInt32", "int32", "sInt32", "float", "double", "string"}
      BY <1>6 DEF pb__get_type, Varints
    <2>2. Room(type, n) = 2 * n /\ ~Packed(type)
      BY <1>6, <2>1 DEF Room, Packed
    <2>3. CASE x.def.has_messages
      <3>1. Len(r.bytes) <= 2 * n
        BY <1>6, <2>3, MessageRoom DEF g
      <3>2. QED
        BY <1>0, <2>2, <3>1 DEF g
    <2>4. CASE ~x.def.has_messages
      <3>1. r = Ok(<<>>)
        BY <2>1, <2>4 DEF pb_encode_proto
      <3>2. Len(r.bytes) = 0
        BY <3>1, Nothing DEF Ok
      <3> HIDE DEF r
      <3>3. Len(r.bytes) <= 2 * n
        BY <3>2
      <3>4. QED
        BY <1>0, <2>2, <3>3 DEF r, g
    <2>5. QED
      BY <2>3, <2>4
  <1>7. QED
    BY <1>2, <1>3, <1>4, <1>5, <1>6 DEF pb__get_type, Varints

\* Writes within twice the lengths, with c bytes to spare.
Fits(rs, ls, N, c) ==
    \A i \in 1 .. N : /\ rs[i].ok /\ rs[i].bytes \in Bytes
                      /\ Len(rs[i].bytes) + c <= 2 * ls[i]

\* Any number of writes, each within twice the length of an item of what is
\* between brackets.
LEMMA AllFits ==
    ASSUME NEW N \in Nat, NEW rs, DOMAIN rs = 1 .. N, Len(rs) = N,
           NEW ls \in [1 .. N -> Nat], Len(ls) = N, NEW c \in 0 .. 2,
           Fits(rs, ls, N, c)
    PROVE  /\ All(rs).ok /\ All(rs).bytes \in Bytes /\ Bracketed(ls) \in Nat
           /\ Len(All(rs).bytes) \in Nat
           /\ Len(All(rs).bytes) + c + 2 <= 2 * Bracketed(ls)
  <1> DEFINE bs == [i \in 1 .. N |-> rs[i].bytes]
             J == Joined(bs)[N]
             S == Sums(ls)[N]
  <1>1. /\ bs \in [1 .. N -> Bytes] /\ Len(bs) = N
        /\ \A i \in 1 .. N : Len(bs[i]) + c <= 2 * ls[i]
    BY DEF Fits
  <1>2. All(rs) = Ok(J)
    BY DEF All, Fits
  <1>3. All(rs).ok /\ All(rs).bytes = J
    BY <1>2 DEF Ok
  <1> HIDE DEF bs
  <1>4. /\ S \in Nat /\ J \in Bytes
        /\ N = 0 => Len(J) = 0
        /\ N > 0 => Len(J) + c <= 2 * S
    <2>1. c \in Nat
      OBVIOUS
    <2>2. QED
      BY <1>1, <2>1, JoinedFits
  <1>5. Bracketed(ls) = IF N = 0 THEN 2 ELSE 1 + S
    BY DEF Bracketed
  <1>6. Len(J) \in Nat
    BY <1>4, Nothing
  <1> HIDE DEF J, S
  <1> DEFINE B == Bracketed(ls)
  <1> HIDE DEF B
  <1>7. B = IF N = 0 THEN 2 ELSE 1 + S
    BY <1>5 DEF B
  <1>8. B \in Nat /\ Len(J) + c + 2 <= 2 * B
    <2>1. CASE N = 0
      BY <1>4, <1>6, <1>7, <2>1
    <2>2. CASE N # 0
      <3>1. N > 0 /\ B = 1 + S
        BY <1>7, <2>2
      <3>2. QED
        BY <1>4, <1>6, <3>1
    <2>3. QED
      BY <2>1, <2>2
  <1>9. QED
    BY <1>3, <1>4, <1>6, <1>8 DEF B

\* One item, at most, between brackets.
LEMMA OneItem ==
    ASSUME NEW N \in 0 .. 1, NEW ls \in [1 .. N -> Nat], Len(ls) = N,
           \A i \in 1 .. N : ls[i] >= 1
    PROVE  Bracketed(ls) \in Nat /\ Bracketed(ls) >= 2
           /\ (N = 1 => Bracketed(ls) = 1 + ls[1])
  <1>1. CASE N = 0
    BY <1>1 DEF Bracketed
  <1>2. CASE N = 1
    <2> DEFINE S == Sums(ls)
    <2>1. S[0] = 0 /\ \A n \in 1 .. N : S[n] = S[n - 1] + ls[n]
      BY SumsIs
    <2>2. Bracketed(ls) = 1 + S[N]
      BY <1>2 DEF Bracketed
    <2> HIDE DEF S
    <2>3. ls[1] \in Nat /\ ls[1] >= 1
      BY <1>2
    <2>4. 1 \in 1 .. N
      BY <1>2
    <2>5. S[1] = S[1 - 1] + ls[1]
      BY <2>1, <2>4
    <2>6. S[1 - 1] = 0
      BY <2>1
    <2>7. S[N] = ls[1]
      BY <1>2, <2>3, <2>5, <2>6
    <2>8. QED
      BY <2>2, <2>3, <2>7
  <1>3. QED
    BY <1>1, <1>2

\* A value under a key that is not wide.
NarrowField(x, field, v) ==
    /\ field.tag < 2048
    /\ ~(field.type = "double" /\ IsArr(v) /\ Len(v.arr) > 1)
    /\ IF field.option # "repeated" THEN NarrowValue(x, field, v)
       ELSE IsArr(v) => \A i \in DOMAIN v.arr : NarrowValue(x, field, v.arr[i])

\* An object is not wide if none of its fields is.
LEMMA NarrowIs ==
    ASSUME NEW x \in Nested, ~Wide(Protos(x.version), x.def, x.obj),
           NEW k \in DOMAIN x.obj, k \in DOMAIN x.def.fields
    PROVE  NarrowField(x, x.def.fields[k], x.obj[k])
  <1> DEFINE g == Protos(x.version)
             def == x.def
             field == def.fields[k]
             v == x.obj[k]
             S == SubDef(g, def, field.type)
             W(o) == \A d \in S : ~wide_sub(g, d, o)
  <1>1. field.tag \in Nat
    <2>1. field.tag \in 1 .. MaxInt \div 8 - 1
      BY MessagesAssumption DEF MessageTyped, DefTyped
    <2>2. QED
      BY <2>1, MaxIntIs
  <1>2. /\ ~(field.tag >= 2048)
        /\ ~(field.type = "double" /\ IsArr(v) /\ Len(v.arr) > 1)
        /\ \A o \in Inner(def, field, v) : W(o)
    BY DEF Wide
  <1>3. \A y : NarrowValue(x, field, y) <=>
                 (~pb__get_type(field.type) /\ def.has_messages => W(y.obj))
    BY DEF NarrowValue
  <1> HIDE DEF W, S, g, field, v, def
  <1>4. field.tag < 2048
    BY <1>1, <1>2
  <1>5. IF field.option # "repeated" THEN NarrowValue(x, field, v)
        ELSE IsArr(v) => \A i \in DOMAIN v.arr : NarrowValue(x, field, v.arr[i])
    <2>1. CASE pb__get_type(field.type) \/ ~def.has_messages
      BY <1>3, <2>1
    <2>2. CASE ~pb__get_type(field.type) /\ def.has_messages
      <3>1. \A y : NarrowValue(x, field, y) <=> W(y.obj)
        BY <1>3, <2>2
      <3>2. CASE field.option # "repeated"
        <4>1. v.obj \in Inner(def, field, v)
          BY <2>2, <3>2 DEF Inner
        <4>2. QED
          BY <1>2, <3>1, <3>2, <4>1
      <3>3. CASE field.option = "repeated" /\ IsArr(v)
        <4>1. \A i \in DOMAIN v.arr : v.arr[i].obj \in Inner(def, field, v)
          BY <2>2, <3>3 DEF Inner
        <4>2. QED
          BY <1>2, <3>1, <3>3, <4>1
      <3>4. CASE field.option = "repeated" /\ ~IsArr(v)
        BY <3>4
      <3>5. QED
        BY <3>2, <3>3, <3>4
    <2>3. QED
      BY <2>1, <2>2
  <1>6. NarrowField(x, field, v)
    BY <1>2, <1>4, <1>5 DEF NarrowField
  <1>7. QED
    BY <1>6 DEF field, v, def

\* What is under a key takes two bytes at most for each character of the text of
\* the value, and for four more.
KeyRoom(x, k) ==
    LET r == EncodeField(Protos(x.version), x.def, k, x.obj[k])
    IN  /\ r.ok /\ r.bytes \in Bytes /\ Len(r.bytes) \in Nat
        /\ Len(r.bytes) <= 2 * (json_sub(x.obj[k]) + 4)

\* A key of a message that is not wide.
NarrowKey(x, k) ==
    /\ k \in DOMAIN x.obj /\ k \in DOMAIN x.def.fields
    /\ KnownField(x, x.def.fields[k], x.obj[k])
    /\ NarrowField(x, x.def.fields[k], x.obj[k])

\* A field that is not repeated.
LEMMA SingleRoom ==
    ASSUME NEW x \in Nested, RoomyBelow(x), NEW k, NarrowKey(x, k),
           x.def.fields[k].option # "repeated"
    PROVE  KeyRoom(x, k)
  <1> DEFINE g == Protos(x.version)
             field == x.def.fields[k]
             v == x.obj[k]
             n == json_sub(v)
             tag == pb_encode_tag_for_field(field)
             e == pb_encode_proto(g, x.def, field, v)
             r == EncodeField(g, x.def, k, v)
  <1>0. k \in DOMAIN x.obj /\ k \in DOMAIN x.def.fields
    BY DEF NarrowKey
  <1>1. FieldTyped(x, field, v) /\ field.tag \in 1 .. MaxInt \div 8 - 1 /\ TextOf(v)
    BY <1>0, MessagesAssumption DEF MessageTyped, CallsItself, DefTyped
  <1>2. /\ ValueTyped(x, field, v) /\ KnownValue(x, field, v)
        /\ NarrowValue(x, field, v) /\ field.tag < 2048
    BY <1>1 DEF FieldTyped, NarrowKey, KnownField, NarrowField
  <1>3. n = JsonLen(v) /\ n \in Nat
    BY <1>1 DEF TextOf
  <1>4. r = Then(tag, e)
    BY <1>0 DEF EncodeField
  <1>5. /\ e.ok /\ e.bytes \in Bytes /\ Len(e.bytes) \in Nat
        /\ Len(e.bytes) <= Room(field.type, n)
        /\ Packed(field.type) => n >= 1
    BY <1>2, <1>3, ValueRoom
  <1>6. tag.ok /\ tag.bytes \in Bytes /\ Len(tag.bytes) \in Nat /\ Len(tag.bytes) <= 2
    BY <1>1, <1>2, TagLen
  <1>7. Room(field.type, n) \in Nat /\ Room(field.type, n) <= 2 * n + 6
    <2>1. CASE field.type = "double"
      <3>1. Packed(field.type)
        BY <2>1 DEF Packed, pb__get_type
      <3> HIDE DEF n
      <3>2. QED
        BY <1>3, <1>5, <2>1, <3>1 DEF Room
    <2>2. CASE field.type # "double"
      <3> HIDE DEF n
      <3>1. QED
        BY <1>3, <2>2 DEF Room
    <2>3. QED
      BY <2>1, <2>2
  <1> HIDE DEF tag, e, r, n, field
  <1>8. r.ok /\ r.bytes = tag.bytes \o e.bytes /\ r.bytes \in Bytes
    BY <1>4, <1>5, <1>6, ThenSucceeds
  <1>9. Len(r.bytes) = Len(tag.bytes) + Len(e.bytes)
    BY <1>5, <1>6, <1>8, Joins
  <1>10. Len(r.bytes) \in Nat /\ Len(r.bytes) <= 2 * (n + 4)
    <2>1. \A a, b, c \in Nat : a <= 2 /\ b <= c /\ c <= 2 * n + 6 =>
                               a + b \in Nat /\ a + b <= 2 * (n + 4)
      BY <1>3
    <2>2. QED
      BY <1>5, <1>6, <1>7, <1>9, <2>1
  <1>11. QED
    BY <1>8, <1>10 DEF KeyRoom, r, n

\* An array under a key, its elements and its text.
LEMMA ArrayText ==
    ASSUME NEW x \in Nested, RoomyBelow(x), NEW k, NarrowKey(x, k),
           x.def.fields[k].option = "repeated", IsArr(x.obj[k])
    PROVE  LET g == Protos(x.version)
               field == x.def.fields[k]
               v == x.obj[k]
               arr == v.arr
               L == Len(arr)
               ls == [i \in 1 .. L |-> json_sub(arr[i]) + 1]
           IN  /\ L \in Nat /\ L <= MaxInt /\ DOMAIN arr = 1 .. L
               /\ field.tag \in 1 .. MaxInt \div 8 - 1 /\ field.tag < 2048
               /\ field.type = "double" => L <= 1
               /\ json_sub(v) = Bracketed(ls) /\ json_sub(v) \in Nat
               /\ \A i \in 1 .. L :
                     LET e == pb_encode_proto(g, x.def, field, arr[i])
                         n == json_sub(arr[i])
                     IN  /\ n \in Nat
                         /\ e.ok /\ e.bytes \in Bytes /\ Len(e.bytes) \in Nat
                         /\ Len(e.bytes) <= Room(field.type, n)
                         /\ Packed(field.type) => n >= 1
  <1> DEFINE g == Protos(x.version)
             field == x.def.fields[k]
             v == x.obj[k]
             arr == v.arr
             L == Len(arr)
             ls == [i \in 1 .. L |-> json_sub(arr[i]) + 1]
  <1>0. k \in DOMAIN x.obj /\ k \in DOMAIN x.def.fields
    BY DEF NarrowKey
  <1>1. FieldTyped(x, field, v) /\ TextOf(v)
    BY <1>0, MessagesAssumption DEF MessageTyped, CallsItself
  <1>2. /\ L \in Nat /\ L <= MaxInt /\ DOMAIN arr = 1 .. L
        /\ field.tag \in 1 .. MaxInt \div 8 - 1
        /\ \A i \in 1 .. L : ValueTyped(x, field, arr[i])
    BY <1>0, ArrayTyped
  <1>3. v = Arr(v.arr)
    BY <1>1 DEF FieldTyped
  <1>4. /\ json_sub(v) = JsonLen(v) /\ json_sub(v) \in Nat
        /\ \A i \in 1 .. L : /\ json_sub(arr[i]) = JsonLen(arr[i])
                             /\ json_sub(arr[i]) \in Nat
    BY <1>1, <1>2 DEF TextOf
  <1>5. JsonLen(v) = Bracketed([i \in DOMAIN v.arr |-> json_sub(v.arr[i]) + 1])
    BY <1>3, TextIs
  <1>6. json_sub(v) = Bracketed(ls)
    BY <1>2, <1>4, <1>5
  <1>7. /\ field.tag < 2048
        /\ field.type = "double" => ~(L > 1)
        /\ \A i \in 1 .. L : KnownValue(x, field, arr[i]) /\ NarrowValue(x, field, arr[i])
    BY <1>2 DEF NarrowKey, NarrowField, KnownField
  <1> HIDE DEF arr, field, ls
  <1>8. field.type = "double" => L <= 1
    BY <1>2, <1>7
  <1>9. ASSUME NEW i \in 1 .. L
        PROVE  LET e == pb_encode_proto(g, x.def, field, arr[i])
                   n == json_sub(arr[i])
               IN  /\ n \in Nat
                   /\ e.ok /\ e.bytes \in Bytes /\ Len(e.bytes) \in Nat
                   /\ Len(e.bytes) <= Room(field.type, n)
                   /\ Packed(field.type) => n >= 1
    BY <1>2, <1>4, <1>7, ValueRoom
  <1>10. QED
    BY <1>2, <1>4, <1>6, <1>7, <1>8, <1>9, SMTT(30) DEF arr, field, ls

\* A packed array.
LEMMA PackedRoom ==
    ASSUME NEW x \in Nested, RoomyBelow(x), NEW k, NarrowKey(x, k),
           x.def.fields[k].option = "repeated", IsArr(x.obj[k]),
           Packed(x.def.fields[k].type)
    PROVE  KeyRoom(x, k)
  <1> DEFINE g == Protos(x.version)
             field == x.def.fields[k]
             v == x.obj[k]
             arr == v.arr
             L == Len(arr)
             ls == [i \in 1 .. L |-> json_sub(arr[i]) + 1]
             B == json_sub(v)
             p(i) == pb_encode_proto(g, x.def, field, arr[i])
             rs == [i \in 1 .. L |-> p(i)]
             tag == pb_encode_tag_for_field(field)
             h == pb_encode_varint(L)
             r == EncodeField(g, x.def, k, v)
  <1>1. /\ L \in Nat /\ L <= MaxInt /\ DOMAIN arr = 1 .. L
        /\ field.tag \in 1 .. MaxInt \div 8 - 1 /\ field.tag < 2048
        /\ field.type = "double" => L <= 1
        /\ B = Bracketed(ls) /\ B \in Nat
        /\ \A i \in 1 .. L :
              /\ json_sub(arr[i]) \in Nat /\ json_sub(arr[i]) >= 1
              /\ p(i).ok /\ p(i).bytes \in Bytes /\ Len(p(i).bytes) \in Nat
              /\ Len(p(i).bytes) <= Room(field.type, json_sub(arr[i]))
    BY ArrayText, SMTT(30)
  <1>2. r = Then(Then(tag, Ok(h)), All(rs))
    <2>1. EncodeElements(g, x.def, field, arr) = All(rs)
      BY <1>1, SMTT(30) DEF EncodeElements, EncodeElement
    <2>2. k \in DOMAIN x.def.fields
      BY DEF NarrowKey
    <2>3. QED
      BY <2>1, <2>2 DEF EncodeField, pb_encode_array
  <1>3. Packed(field.type)
    OBVIOUS
  <1> HIDE DEF field, arr, p, r, B
  <1>4. tag.ok /\ tag.bytes \in Bytes /\ Len(tag.bytes) \in Nat /\ Len(tag.bytes) <= 2
    BY <1>1, TagLen
  <1>5. h \in Bytes /\ Len(h) \in Nat /\ Len(h) <= 5 /\ (L < 128 => Len(h) = 1)
    <2>1. L \in Nat /\ L <= 2 * MaxInt + 1
      BY <1>1, MaxIntIs
    <2>2. QED
      BY <2>1, VarintLens, VarintBytes
  <1>6. DOMAIN rs = 1 .. L /\ Len(rs) = L /\ \A i \in 1 .. L : rs[i] = p(i)
    BY <1>1
  <1>7. ls \in [1 .. L -> Nat] /\ Len(ls) = L /\ \A i \in 1 .. L : ls[i] = json_sub(arr[i]) + 1
    BY <1>1
  <1> HIDE DEF L, ls, rs, tag, h
  <1> DEFINE es == All(rs)
  <1>8. /\ es.ok /\ es.bytes \in Bytes /\ Len(es.bytes) \in Nat
        /\ Len(h) + Len(es.bytes) <= 2 * B + 5
    <2>1. CASE field.type # "double"
      <3>1. ASSUME NEW i \in 1 .. L
            PROVE  /\ rs[i].ok /\ rs[i].bytes \in Bytes
                   /\ Len(rs[i].bytes) + 0 <= 2 * ls[i]
        <4> DEFINE n == json_sub(arr[i])
                   l == Len(rs[i].bytes)
        <4>1. /\ rs[i].ok /\ rs[i].bytes \in Bytes /\ l \in Nat
              /\ n \in Nat /\ l <= Room(field.type, n) /\ ls[i] = n + 1
          BY <1>1, <1>6, <1>7
        <4>2. Room(field.type, n) = 2 * n + 2
          BY <1>3, <2>1 DEF Room
        <4> HIDE DEF n, l
        <4>3. l + 0 <= 2 * ls[i]
          BY <4>1, <4>2
        <4>4. QED
          BY <4>1, <4>3 DEF l
      <3>2. /\ es.ok /\ es.bytes \in Bytes /\ Len(es.bytes) \in Nat
            /\ Len(es.bytes) + 0 + 2 <= 2 * Bracketed(ls)
        <4>1. 0 \in 0 .. 2
          OBVIOUS
        <4>2. Fits(rs, ls, L, 0)
          BY <3>1 DEF Fits
        <4>3. L \in Nat
          BY <1>1
        <4>4. QED
          BY <1>6, <1>7, <4>1, <4>2, <4>3, AllFits
      <3> HIDE DEF es
      <3>3. Len(es.bytes) + 0 + 2 <= 2 * B
        BY <1>1, <3>2
      <3>4. \A a, b \in Nat : a <= 5 /\ b + 0 + 2 <= 2 * B => a + b <= 2 * B + 5
        BY <1>1
      <3>5. QED
        BY <1>5, <3>2, <3>3, <3>4
    <2>2. CASE field.type = "double"
      <3> DEFINE fs == [i \in 1 .. L |-> 4]
      <3>1. L \in 0 .. 1 /\ Len(h) = 1
        BY <1>1, <1>5, <2>2
      <3>2. fs \in [1 .. L -> Nat] /\ Len(fs) = L /\ \A i \in 1 .. L : fs[i] = 4
        BY <1>1
      <3> HIDE DEF fs
      <3>3. ASSUME NEW i \in 1 .. L
            PROVE  /\ rs[i].ok /\ rs[i].bytes \in Bytes
                   /\ Len(rs[i].bytes) + 0 <= 2 * fs[i]
        <4>1. /\ rs[i].ok /\ rs[i].bytes \in Bytes /\ Len(rs[i].bytes) \in Nat
              /\ Len(rs[i].bytes) <= Room(field.type, json_sub(arr[i]))
          BY <1>1, <1>6
        <4>2. Room(field.type, json_sub(arr[i])) = 8
          BY <2>2 DEF Room
        <4>3. QED
          BY <3>2, <4>1, <4>2
      <3>4. /\ es.ok /\ es.bytes \in Bytes /\ Len(es.bytes) \in Nat
            /\ Len(es.bytes) + 0 + 2 <= 2 * Bracketed(fs)
        <4>1. 0 \in 0 .. 2
          OBVIOUS
        <4>2. Fits(rs, fs, L, 0)
          BY <3>3 DEF Fits
        <4>3. L \in Nat
          BY <1>1
        <4>4. QED
          BY <1>6, <3>2, <4>1, <4>2, <4>3, AllFits
      <3>5. Bracketed(fs) \in Nat /\ Bracketed(fs) <= 5
        <4>1. CASE L = 0
          BY <3>2, <4>1 DEF Bracketed
        <4>2. CASE L = 1
          <5>1. \A i \in 1 .. L : fs[i] >= 1
            BY <3>2
          <5>2. Bracketed(fs) \in Nat /\ Bracketed(fs) = 1 + fs[1]
            BY <3>1, <3>2, <4>2, <5>1, OneItem
          <5>3. fs[1] = 4
            BY <3>2, <4>2
          <5>4. QED
            BY <5>2, <5>3
        <4>3. QED
          BY <3>1, <4>1, <4>2
      <3>6. B >= 2
        <4>1. \A i \in 1 .. L : ls[i] >= 1
          BY <1>1, <1>7
        <4>2. Bracketed(ls) >= 2
          BY <1>7, <3>1, <4>1, OneItem
        <4>3. QED
          BY <1>1, <4>2
      <3> HIDE DEF es
      <3>7. QED
        BY <1>1, <3>1, <3>4, <3>5, <3>6
    <2>3. QED
      BY <2>1, <2>2
  <1> HIDE DEF es
  <1> DEFINE a == Ok(h)
             b == Then(tag, a)
  <1>9. a.ok /\ a.bytes = h
    BY DEF Ok
  <1> HIDE DEF a
  <1>10. b.ok /\ b.bytes \in Bytes /\ b.bytes = tag.bytes \o h
    BY <1>4, <1>5, <1>9, ThenSucceeds
  <1>11. Len(b.bytes) = Len(tag.bytes) + Len(h)
    BY <1>4, <1>5, <1>10, Joins
  <1>12. r = Then(b, es)
    BY <1>2 DEF a, b, es
  <1> HIDE DEF b
  <1>13. r.ok /\ r.bytes \in Bytes /\ r.bytes = b.bytes \o es.bytes
    BY <1>8, <1>10, <1>12, ThenSucceeds
  <1>14. Len(r.bytes) = Len(b.bytes) + Len(es.bytes)
    BY <1>8, <1>10, <1>13, Joins
  <1>15. Len(r.bytes) \in Nat /\ Len(r.bytes) <= 2 * (B + 4)
    <2>1. \A m, c, d \in Nat : m <= 2 /\ c + d <= 2 * B + 5 =>
                               (m + c) + d \in Nat /\ (m + c) + d <= 2 * (B + 4)
      BY <1>1
    <2>2. QED
      BY <1>4, <1>5, <1>8, <1>11, <1>14, <2>1
  <1>16. QED
    BY <1>13, <1>15 DEF KeyRoom, r, B

\* An array that is not packed: a tag before each element.
LEMMA UnpackedRoom ==
    ASSUME NEW x \in Nested, RoomyBelow(x), NEW k, NarrowKey(x, k),
           x.def.fields[k].option = "repeated", IsArr(x.obj[k]),
           ~Packed(x.def.fields[k].type)
    PROVE  KeyRoom(x, k)
  <1> DEFINE g == Protos(x.version)
             field == x.def.fields[k]
             v == x.obj[k]
             arr == v.arr
             L == Len(arr)
             ls == [i \in 1 .. L |-> json_sub(arr[i]) + 1]
             B == json_sub(v)
             p(i) == pb_encode_proto(g, x.def, field, arr[i])
             tag == pb_encode_tag_for_field(field)
             rs == [i \in 1 .. L |-> Then(tag, p(i))]
             r == EncodeField(g, x.def, k, v)
  <1>1. /\ L \in Nat /\ L <= MaxInt /\ DOMAIN arr = 1 .. L
        /\ field.tag \in 1 .. MaxInt \div 8 - 1 /\ field.tag < 2048
        /\ B = Bracketed(ls) /\ B \in Nat
        /\ \A i \in 1 .. L :
              /\ json_sub(arr[i]) \in Nat
              /\ p(i).ok /\ p(i).bytes \in Bytes /\ Len(p(i).bytes) \in Nat
              /\ Len(p(i).bytes) <= Room(field.type, json_sub(arr[i]))
    BY ArrayText
  <1>2. r = All(rs)
    <2>1. EncodeElements(g, x.def, field, arr) = All(rs)
      BY <1>1 DEF EncodeElements, EncodeElement
    <2>2. k \in DOMAIN x.def.fields
      BY DEF NarrowKey
    <2>3. QED
      BY <2>1, <2>2 DEF EncodeField, pb_encode_array
  <1>3. ~Packed(field.type) /\ field.type # "double"
    BY DEF Packed, pb__get_type
  <1> HIDE DEF field, arr, p, r, B
  <1>4. tag.ok /\ tag.bytes \in Bytes /\ Len(tag.bytes) \in Nat /\ Len(tag.bytes) <= 2
    BY <1>1, TagLen
  <1>5. DOMAIN rs = 1 .. L /\ Len(rs) = L /\ \A i \in 1 .. L : rs[i] = Then(tag, p(i))
    BY <1>1
  <1>6. ls \in [1 .. L -> Nat] /\ Len(ls) = L /\ \A i \in 1 .. L : ls[i] = json_sub(arr[i]) + 1
    BY <1>1
  <1> HIDE DEF L, ls, rs, tag
  <1>7. ASSUME NEW i \in 1 .. L
        PROVE  /\ rs[i].ok /\ rs[i].bytes \in Bytes
               /\ Len(rs[i].bytes) + 0 <= 2 * ls[i]
    <2> DEFINE n == json_sub(arr[i])
               e == p(i)
               w == Then(tag, e)
    <2>1. /\ e.ok /\ e.bytes \in Bytes /\ Len(e.bytes) \in Nat
          /\ n \in Nat /\ Len(e.bytes) <= Room(field.type, n)
          /\ ls[i] = n + 1 /\ rs[i] = w
      BY <1>1, <1>5, <1>6
    <2>2. Room(field.type, n) = 2 * n
      BY <1>3 DEF Room
    <2> HIDE DEF n, e
    <2>3. w.ok /\ w.bytes \in Bytes /\ w.bytes = tag.bytes \o e.bytes
      BY <1>4, <2>1, ThenSucceeds
    <2> HIDE DEF w
    <2>4. Len(w.bytes) = Len(tag.bytes) + Len(e.bytes)
      BY <1>4, <2>1, <2>3, Joins
    <2>5. \A a, b \in Nat : a <= 2 /\ b <= 2 * n => a + b + 0 <= 2 * (n + 1)
      BY <2>1
    <2>6. Len(w.bytes) + 0 <= 2 * (n + 1)
      BY <1>4, <2>1, <2>2, <2>4, <2>5
    <2>7. QED
      BY <2>1, <2>3, <2>6
  <1>8. /\ r.ok /\ r.bytes \in Bytes /\ Len(r.bytes) \in Nat
        /\ Len(r.bytes) + 0 + 2 <= 2 * B
    <2>1. 0 \in 0 .. 2
      OBVIOUS
    <2>2. Fits(rs, ls, L, 0)
      BY <1>7 DEF Fits
    <2>3. L \in Nat
      BY <1>1
    <2>4. /\ All(rs).ok /\ All(rs).bytes \in Bytes /\ Len(All(rs).bytes) \in Nat
          /\ Len(All(rs).bytes) + 0 + 2 <= 2 * Bracketed(ls)
      BY <1>5, <1>6, <2>1, <2>2, <2>3, AllFits
    <2>5. QED
      BY <1>1, <1>2, <2>4
  <1>9. \A a \in Nat : a + 0 + 2 <= 2 * B => a <= 2 * (B + 4)
    BY <1>1
  <1>10. QED
    BY <1>8, <1>9 DEF KeyRoom, r, B

\* What is under a key.
LEMMA FieldRoom ==
    ASSUME NEW x \in Nested, RoomyBelow(x), NEW k, NarrowKey(x, k)
    PROVE  KeyRoom(x, k)
  <1> DEFINE g == Protos(x.version)
             field == x.def.fields[k]
             v == x.obj[k]
             n == json_sub(v)
             r == EncodeField(g, x.def, k, v)
  <1>1. CASE field.option # "repeated"
    BY <1>1, SingleRoom
  <1>2. CASE field.option = "repeated" /\ IsArr(v) /\ Packed(field.type)
    BY <1>2, PackedRoom
  <1>3. CASE field.option = "repeated" /\ IsArr(v) /\ ~Packed(field.type)
    BY <1>3, UnpackedRoom
  <1>4. CASE field.option = "repeated" /\ ~IsArr(v)
    <2>1. k \in DOMAIN x.obj /\ k \in DOMAIN x.def.fields
      BY DEF NarrowKey
    <2>2. r = Ok(<<>>)
      BY <1>4, <2>1 DEF EncodeField
    <2>3. r.ok /\ r.bytes = <<>>
      BY <2>2 DEF Ok
    <2>4. n \in Nat
      BY <2>1, MessagesAssumption DEF CallsItself, TextOf
    <2> HIDE DEF r, n
    <2>5. r.bytes \in Bytes /\ Len(r.bytes) = 0
      BY <2>3, Nothing
    <2>6. Len(r.bytes) \in Nat /\ Len(r.bytes) <= 2 * (n + 4)
      BY <2>4, <2>5
    <2>7. QED
      BY <2>3, <2>5, <2>6 DEF KeyRoom, r, n
  <1>5. QED
    BY <1>1, <1>2, <1>3, <1>4

\* A message, if those in it are.
LEMMA ObjectRoom ==
    ASSUME NEW x \in Nested, RoomyBelow(x)
    PROVE  Roomy(x)
  <1> DEFINE g == Protos(x.version)
             def == x.def
             obj == x.obj
             O == DOMAIN obj
             N == Cardinality(O)
             q == Visited(O)
             e(i) == EncodeField(g, def, q[i], obj[q[i]])
             rs == [i \in 1 .. N |-> e(i)]
             t(i) == json_sub(obj[q[i]])
             ls == [i \in 1 .. N |-> KeyLen + 3 + t(i) + 1]
             r == pb_encode(g, def, obj)
             text == JsonLen(Obj(obj))
  <1>1. SUFFICES ASSUME KeysKnown(g, def, obj), ~Wide(g, def, obj)
                 PROVE  text \in Nat /\ Len(r.bytes) + 4 <= 2 * text
    BY DEF Roomy
  <1>2. IsFiniteSet(O)
    BY MessagesAssumption DEF MessageTyped
  <1>3. N \in Nat /\ q \in [1 .. N -> O]
    BY <1>2, VisitedIs
  <1>4. r = All(rs)
    BY <1>3 DEF pb_encode
  <1>5. text = Bracketed(ls)
    <2>1. DOMAIN Obj(obj) = {"obj"} /\ Obj(obj).obj = obj
      BY DEF Obj
    <2>2. JsonLen(Obj(obj)) = Bracketed([i \in DOMAIN q |->
                                KeyLen + 3 + json_sub(obj[q[i]]) + 1])
      BY <2>1 DEF JsonLen
    <2>3. DOMAIN q = 1 .. N
      BY <1>3
    <2>4. QED
      BY <2>2, <2>3
  <1>6. ASSUME NEW i \in 1 .. N
        PROVE  /\ e(i).ok /\ e(i).bytes \in Bytes /\ Len(e(i).bytes) \in Nat
               /\ t(i) \in Nat /\ Len(e(i).bytes) <= 2 * (t(i) + 4)
    <2> DEFINE k == q[i]
    <2>1. k \in O
      BY <1>3
    <2> HIDE DEF k
    <2>2. k \in DOMAIN def.fields /\ KnownField(x, def.fields[k], obj[k])
      BY <1>1, <2>1, KeysKnownIs
    <2>3. NarrowField(x, def.fields[k], obj[k])
      BY <1>1, <2>1, <2>2, NarrowIs
    <2>4. KeyRoom(x, k)
      BY <2>1, <2>2, <2>3, FieldRoom DEF NarrowKey
    <2>5. json_sub(obj[k]) \in Nat
      BY <2>1, MessagesAssumption DEF CallsItself, TextOf
    <2>6. QED
      BY <2>4, <2>5 DEF KeyRoom, k
  <1>7. KeyLen \in Nat /\ KeyLen >= 1
    BY JsonAssumption
  <1> HIDE DEF e, t, N, q, r, text
  <1>8. DOMAIN rs = 1 .. N /\ Len(rs) = N /\ \A i \in 1 .. N : rs[i] = e(i)
    BY <1>3
  <1>9. ls \in [1 .. N -> Nat] /\ Len(ls) = N
        /\ \A i \in 1 .. N : ls[i] = KeyLen + 3 + t(i) + 1
    <2>1. \A i \in 1 .. N : KeyLen + 3 + t(i) + 1 \in Nat
      BY <1>6, <1>7
    <2>2. QED
      BY <1>3, <2>1
  <1> HIDE DEF rs, ls
  <1>10. Fits(rs, ls, N, 2)
    <2> SUFFICES ASSUME NEW i \in 1 .. N
                 PROVE  /\ rs[i].ok /\ rs[i].bytes \in Bytes
                        /\ Len(rs[i].bytes) + 2 <= 2 * ls[i]
      BY DEF Fits
    <2>1. \A a, b \in Nat : a <= 2 * (b + 4) => a + 2 <= 2 * (KeyLen + 3 + b + 1)
      BY <1>7
    <2>2. QED
      BY <1>6, <1>8, <1>9, <2>1
  <1>11. /\ All(rs).ok /\ Bracketed(ls) \in Nat /\ Len(All(rs).bytes) \in Nat
         /\ Len(All(rs).bytes) + 2 + 2 <= 2 * Bracketed(ls)
    <2>1. 2 \in 0 .. 2
      OBVIOUS
    <2>2. QED
      BY <1>3, <1>8, <1>9, <1>10, <2>1, AllFits
  <1>12. text \in Nat /\ Len(r.bytes) \in Nat /\ Len(r.bytes) + 2 + 2 <= 2 * text
    BY <1>4, <1>5, <1>11
  <1>13. QED
    BY <1>12

\* msg-pb.c: the buffer of twice the length of the JSON text has room for every
\* message whose keys are defined, at every depth, if no array of doubles in it
\* has two elements or more and no tag takes more than two bytes.
THEOREM RoomEnough == \A x \in Nested : Roomy(x)
  <1> DEFINE T == {d \in Nat : \E x \in Nested : x.depth = d /\ ~Roomy(x)}
  <1>1. \A x \in Nested : x.depth \in Nat
    BY MessagesAssumption DEF MessageTyped
  <1>2. ASSUME T # {} PROVE FALSE
    <2>1. PICK d \in T : \A c \in T : d <= c
      BY <1>2, LeastNatural
    <2>2. PICK x \in Nested : x.depth = d /\ ~Roomy(x)
      BY <2>1
    <2>3. ASSUME NEW y \in Nested, y.depth < x.depth PROVE Roomy(y)
      <3>1. y.depth \in Nat /\ ~(d <= y.depth)
        BY <1>1, <2>1, <2>2, <2>3
      <3>2. y.depth \notin T
        BY <2>1, <3>1
      <3>3. QED
        BY <3>1, <3>2
    <2>4. RoomyBelow(x)
      BY <2>3 DEF RoomyBelow
    <2>5. QED
      BY <2>2, <2>4, ObjectRoom
  <1>3. QED
    BY <1>1, <1>2
=============================================================================
