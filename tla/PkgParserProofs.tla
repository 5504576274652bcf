-------------------------- MODULE PkgParserProofs --------------------------
(***************************************************************************)
(* Proofs about PkgParser, for every radix, every set of packages and      *)
(* every number of packages sent.                                          *)
(***************************************************************************)
EXTENDS PkgParser, SequenceTheorems, TLAPS

(* The length field.                                                       *)

\* Division with remainder by the radix.
LEMMA DivMod ==
    ASSUME NEW a \in Nat
    PROVE  /\ a \div Base \in Nat
           /\ a % Base \in Byte
           /\ a = (a \div Base) * Base + (a % Base)
  BY ParserAssumption, Z3 DEF Byte

\* Dividing by the radix takes one factor off an upper bound.
LEMMA DivBound ==
    ASSUME NEW a \in Nat, NEW b \in Nat, a < b * Base
    PROVE  a \div Base < b
  <1> DEFINE q == a \div Base
  <1>1. q \in Nat /\ q * Base <= a
    BY DivMod, ParserAssumption DEF Byte
  <1>2. ASSUME q >= b PROVE FALSE
    <2>1. q * Base >= b * Base
      BY <1>1, <1>2, ParserAssumption, Z3
    <2>2. QED
      BY <1>1, <2>1, ParserAssumption, Z3
  <1>3. QED
    BY <1>1, <1>2

\* pc__pkg_head computes from the head that pc_pkg_encode wrote the length of
\* the body, for every length that pc_pkg_encode accepts.
LEMMA LengthField ==
    ASSUME NEW len \in Nat, len < MaxBodyBytes
    PROVE  (LenByte(len, 2) * Base + LenByte(len, 3)) * Base + LenByte(len, 4)
             = len
  <1> DEFINE q == len \div Base
             s == q \div Base
  <1>1. q \in Nat /\ len = q * Base + (len % Base) /\ len % Base \in Byte
    BY DivMod
  <1>2. s \in Nat /\ q = s * Base + (q % Base) /\ q % Base \in Byte
    BY <1>1, DivMod
  <1>3. q < Base * Base
    <2>1. Base * Base \in Nat
      BY ParserAssumption, Z3
    <2>2. len < (Base * Base) * Base
      BY ParserAssumption, Z3 DEF MaxBodyBytes
    <2>3. QED
      BY <2>1, <2>2, DivBound
  <1>4. s < Base
    BY <1>1, <1>3, ParserAssumption, DivBound
  <1>5. s % Base = s
    BY <1>2, <1>4, ParserAssumption, Z3
  <1>6. LenByte(len, 2) = s /\ LenByte(len, 3) = q % Base
          /\ LenByte(len, 4) = len % Base
    BY <1>5 DEF LenByte
  <1> HIDE DEF q, s
  <1>7. LenByte(len, 2) * Base + LenByte(len, 3) = q
    BY <1>2, <1>6
  <1>8. QED
    BY <1>1, <1>6, <1>7
-----------------------------------------------------------------------------
(* Sequences of bytes.                                                     *)

\* The bytes of one sequence, then those of the other.
LEMMA JoinBytes ==
    ASSUME NEW s \in Seq(Byte), NEW t \in Seq(Byte)
    PROVE  /\ Len(s \o t) = Len(s) + Len(t)
           /\ \A k \in 1 .. Len(s) : (s \o t)[k] = s[k]
           /\ \A j \in 1 .. Len(t) : (s \o t)[Len(s) + j] = t[j]
  OBVIOUS

\* What memcpy does to a buffer that holds the bytes of the stream from base
\* on: it then holds n more of them.
LEMMA Extend ==
    ASSUME NEW s \in Seq(Byte), NEW buf \in Seq(Byte), NEW n \in Nat,
           NEW p \in Nat, p + n <= Len(s)
    PROVE  LET b == buf \o SubSeq(s, p + 1, p + n)
           IN  /\ b \in Seq(Byte)
               /\ Len(b) = Len(buf) + n
               /\ \A j \in 1 .. Len(buf) : b[j] = buf[j]
               /\ \A j \in 1 .. n : b[Len(buf) + j] = s[p + j]
  <1> DEFINE t == SubSeq(s, p + 1, p + n)
  <1>1. t \in Seq(Byte) /\ Len(t) = n
    OBVIOUS
  <1>2. \A j \in 1 .. n : t[j] = s[p + j]
    OBVIOUS
  <1> HIDE DEF t
  <1>3. /\ Len(buf \o t) = Len(buf) + Len(t)
        /\ \A k \in 1 .. Len(buf) : (buf \o t)[k] = buf[k]
        /\ \A j \in 1 .. Len(t) : (buf \o t)[Len(buf) + j] = t[j]
    BY <1>1, JoinBytes
  <1>4. buf \o t \in Seq(Byte)
    BY <1>1
  <1>5. /\ buf \o t \in Seq(Byte)
        /\ Len(buf \o t) = Len(buf) + n
        /\ \A j \in 1 .. Len(buf) : (buf \o t)[j] = buf[j]
        /\ \A j \in 1 .. n : (buf \o t)[Len(buf) + j] = s[p + j]
    BY <1>1, <1>2, <1>3, <1>4
  <1>6. QED
    BY <1>5, Zenon DEF t

\* A buffer that holds the bytes of the stream from base on still does when
\* the bytes that follow are copied to its end.
LEMMA ExtendFrom ==
    ASSUME NEW s \in Seq(Byte), NEW buf \in Seq(Byte), NEW n \in Nat,
           NEW base \in Nat, NEW p \in Nat, p + n <= Len(s),
           p = base + Len(buf),
           \A j \in 1 .. Len(buf) : buf[j] = s[base + j]
    PROVE  LET b == buf \o SubSeq(s, p + 1, p + n)
           IN  \A j \in 1 .. Len(b) : b[j] = s[base + j]
  <1> DEFINE b == buf \o SubSeq(s, p + 1, p + n)
  <1> HIDE DEF b
  <1>1. /\ Len(b) = Len(buf) + n
        /\ \A j \in 1 .. Len(buf) : b[j] = buf[j]
        /\ \A j \in 1 .. n : b[Len(buf) + j] = s[p + j]
    <2>1. p + n <= Len(s)
      OBVIOUS
    <2>2. QED
      BY <2>1, Extend, SMTT(30) DEF b
  <1>2. Len(buf) \in Nat
    OBVIOUS
  <1>3. ASSUME NEW j \in 1 .. Len(b) PROVE b[j] = s[base + j]
    <2>1. CASE j <= Len(buf)
      BY <1>1, <1>2, <2>1
    <2>2. CASE j > Len(buf)
      <3>1. j - Len(buf) \in 1 .. n
        BY <1>1, <1>2, <2>2
      <3>2. b[Len(buf) + (j - Len(buf))] = s[p + (j - Len(buf))]
        BY <1>1, <3>1
      <3>3. Len(buf) + (j - Len(buf)) = j /\ p + (j - Len(buf)) = base + j
        BY <1>2
      <3>4. QED
        BY <3>2, <3>3
    <2>3. QED
      BY <1>1, <1>2, <2>1, <2>2
  <1>4. QED
    BY <1>3 DEF b

\* pc_pkg_encode writes bytes: four for the head, then the body.
LEMMA EncodeBytes ==
    ASSUME NEW p \in Packages
    PROVE  /\ pkg_encode(p) \in Seq(Byte)
           /\ Len(pkg_encode(p)) = HeadBytes + Len(p.body)
  <1>1. p.type \in Byte /\ p.body \in Seq(Byte)
    BY ParserAssumption DEF Packages
  <1>2. \A i \in 2 .. 4 : LenByte(Len(p.body), i) \in Byte
    BY <1>1, DivMod DEF LenByte
  <1>3. \A i \in 1 .. (HeadBytes + Len(p.body)) : pkg_encode(p)[i] \in Byte
    BY <1>1, <1>2 DEF pkg_encode, HeadBytes
  <1>4. HeadBytes + Len(p.body) \in Nat
    BY <1>1 DEF HeadBytes
  <1>5. pkg_encode(p) \in [1 .. (HeadBytes + Len(p.body)) -> Byte]
    BY <1>3 DEF pkg_encode
  <1>6. pkg_encode(p) \in Seq(Byte)
    BY <1>4, <1>5, SeqDef
  <1>7. QED
    BY <1>4, <1>5, <1>6, LenProperties

\* Adding the size of a package to an offset.
LEMMA Offset ==
    ASSUME NEW a \in Nat, NEW b \in Nat
    PROVE  /\ a + HeadBytes + b \in Nat
           /\ a + HeadBytes + b = a + (HeadBytes + b)
           /\ a + HeadBytes + b > a
           /\ \A j \in 1 .. (HeadBytes + b) :
                 j \in Nat /\ a + j \in 1 .. (a + HeadBytes + b)
  BY DEF HeadBytes
-----------------------------------------------------------------------------
(* The inductive invariant.                                                *)

\* The parser's fields agree with each other on every connection.
Shape ==
    /\ state = "HEAD" => pkg_buf = <<>>
    /\ state = "BODY" => /\ Len(head_buf) = HeadBytes
                         /\ pkg_size = head_len(head_buf)
    /\ pc = "body" => state = "BODY"
    /\ state = "CLOSED" => tp = "CLOSED" /\ pc = "idle"

\* The stream is the peer's packages, encoded one after the other; bound[i]
\* is where package i begins.
Framed ==
    /\ Len(bound) = Len(sent) + 1
    /\ bound[1] = 0
    /\ bound[Len(sent) + 1] = Len(stream)
    /\ \A i \in 1 .. Len(sent) :
          /\ Len(sent[i].body) < MaxBodyBytes
          /\ bound[i + 1] = bound[i] + HeadBytes + Len(sent[i].body)
          /\ bound[i + 1] <= Len(stream)
          /\ \A j \in 1 .. (HeadBytes + Len(sent[i].body)) :
                stream[bound[i] + j] = pkg_encode(sent[i])[j]

\* Bytes may still reach the parser.
Feeding == tp = "WORKING" \/ pc # "idle"

\* Where the package that is being collected begins.
Start == bound[Len(delivered) + 1]

\* The parser is in step with the peer: its buffers hold the bytes from the
\* border of the package it is at up to pos.
InStep ==
    /\ Len(delivered) <= Len(sent)
    /\ pos = Start + Len(head_buf) + Len(pkg_buf)
    /\ \A j \in 1 .. Len(head_buf) : head_buf[j] = stream[Start + j]
    /\ \A j \in 1 .. Len(pkg_buf) : pkg_buf[j] = stream[Start + HeadBytes + j]

StaysInStep == (stale = 0 /\ Feeding) => InStep

\* A chunk is used up before the next one is read, and a client stopped with
\* nothing unread leaves an empty head buffer.
Aligned ==
    /\ pc = "idle" => pos = lim
    /\ (tp = "CLOSED" /\ cut = 0 /\ state # "CLOSED")
          => head_buf = <<>> /\ pos = lim

\* The head after pc__pkg_head has copied what the chunk still holds of it.
HeadLen == MinOf(HeadBytes - Len(head_buf), lim - pos)
HeadNow == head_buf \o SubSeq(stream, pos + 1, pos + HeadLen)

\* What pc__pkg_head puts into head_buf.
LEMMA HeadCopied ==
    ASSUME TypeOK
    PROVE  /\ HeadLen \in Nat /\ pos + HeadLen <= lim
           /\ HeadNow \in Seq(Byte)
           /\ Len(HeadNow) = Len(head_buf) + HeadLen
           /\ Len(HeadNow) <= HeadBytes
           /\ \A j \in 1 .. Len(head_buf) : HeadNow[j] = head_buf[j]
           /\ \A j \in 1 .. HeadLen : HeadNow[Len(head_buf) + j] = stream[pos + j]
  <1>1. /\ HeadLen \in Nat /\ pos + HeadLen <= lim
        /\ Len(head_buf) + HeadLen <= HeadBytes
    BY DEF TypeOK, HeadLen, MinOf, HeadBytes
  <1>2. /\ pos + HeadLen <= Len(stream)
        /\ stream \in Seq(Byte) /\ head_buf \in Seq(Byte) /\ pos \in Nat
    BY <1>1 DEF TypeOK
  <1>3. QED
    BY <1>1, <1>2, Extend DEF HeadNow

\* What pc__pkg_body puts into pkg_buf.
LEMMA BodyCopied ==
    ASSUME TypeOK
    PROVE  /\ BodyLen \in Nat /\ pos + BodyLen <= lim
           /\ BodyNow \in Seq(Byte)
           /\ Len(BodyNow) = Len(pkg_buf) + BodyLen
           /\ Len(BodyNow) <= pkg_size
           /\ \A j \in 1 .. Len(pkg_buf) : BodyNow[j] = pkg_buf[j]
           /\ \A j \in 1 .. BodyLen : BodyNow[Len(pkg_buf) + j] = stream[pos + j]
  <1>1. /\ BodyLen \in Nat /\ pos + BodyLen <= lim
        /\ Len(pkg_buf) + BodyLen <= pkg_size
    BY DEF TypeOK, BodyLen, MinOf
  <1>2. /\ pos + BodyLen <= Len(stream)
        /\ stream \in Seq(Byte) /\ pkg_buf \in Seq(Byte) /\ pos \in Nat
    BY <1>1 DEF TypeOK
  <1>3. QED
    BY <1>1, <1>2, Extend DEF BodyNow

\* The length in a head is a number.
LEMMA HeadLenNat ==
    ASSUME NEW h \in Seq(Byte), Len(h) = HeadBytes
    PROVE  head_len(h) \in Nat
  <1> \A i \in 1 .. 4 : h[i] \in Byte
    BY ElementOfSeq DEF HeadBytes
  <1>1. h[2] \in Nat /\ h[3] \in Nat /\ h[4] \in Nat /\ Base \in Nat
    BY ParserAssumption DEF Byte
  <1>2. h[2] * Base \in Nat
    BY <1>1
  <1>3. (h[2] * Base + h[3]) * Base \in Nat
    BY <1>1, <1>2
  <1>4. QED
    BY <1>1, <1>3 DEF head_len

\* pc__pkg_head when the chunk ends or the body buffer is allocated, said with
\* HeadNow.
LEMMA FeedHeadIs ==
    ASSUME FeedHead
    PROVE  /\ pc = "feed" /\ pos < lim /\ state = "HEAD"
           /\ pos' = pos + HeadLen /\ head_buf' = HeadNow
           /\ IF Len(HeadNow) = HeadBytes
              THEN /\ state' = "BODY"
                   /\ pkg_size' = head_len(HeadNow)
                   /\ pc' = "body"
              ELSE UNCHANGED <<state, pkg_size, pc>>
           /\ UNCHANGED <<peerVars, lim, pkg_buf, delivered, tp, cut, stale>>
  BY DEF FeedHead, HeadNow, HeadLen

\* pc__pkg_head when the body buffer cannot be allocated.
LEMMA NoMemoryIs ==
    ASSUME FeedHeadNoMemory
    PROVE  /\ pc = "feed" /\ pos < lim /\ state = "HEAD"
           /\ ParserReset
           /\ pos' = lim /\ pc' = "idle" /\ tp' = "CLOSED"
           /\ UNCHANGED <<peerVars, lim, delivered, cut, stale>>
  BY DEF FeedHeadNoMemory

\* The same when pc_client_stop returns at once, said with HeadNow.
LEMMA NoMemoryIgnoredIs ==
    ASSUME FeedHeadNoMemoryIgnored
    PROVE  /\ pc = "feed" /\ pos < lim /\ state = "HEAD"
           /\ head_buf' = HeadNow
           /\ stale' = IF pos + HeadLen < lim THEN 1 ELSE stale
           /\ pos' = lim /\ pc' = "idle"
           /\ UNCHANGED <<peerVars, lim, state, pkg_buf, pkg_size, delivered,
                          tp, cut>>
  BY DEF FeedHeadNoMemoryIgnored, HeadNow, HeadLen

\* The initial state.
LEMMA ParserInit ==
    Init => TypeOK /\ Shape /\ Framed /\ StaysInStep /\ Aligned
              /\ DeliveredPrefix
  BY DEF Init, TypeOK, Shape, Framed, StaysInStep, InStep, Start, Aligned,
         DeliveredPrefix, HeadBytes

\* Types and shape: the offsets stay inside the buffers.
LEMMA TypeNext ==
    ASSUME TypeOK, Shape, [Next]_vars
    PROVE  (TypeOK /\ Shape)'
  <1> USE DEF TypeOK, Shape, peerVars, parserVars
  <1>1. ASSUME NEW p \in Packages, Send(p) PROVE (TypeOK /\ Shape)'
    <2>1. stream' \in Seq(Byte) /\ Len(stream') >= Len(stream)
      BY <1>1, EncodeBytes DEF Send, HeadBytes
    <2>2. Len(stream) + HeadBytes + Len(p.body) \in Nat
      BY ParserAssumption DEF HeadBytes, Packages
    <2>3. QED
      BY <1>1, <2>1, <2>2 DEF Send
  <1>2. CASE ReadSome
    BY <1>2 DEF ReadSome, Read
  <1>3. CASE FeedStep
    <2>1. CASE FeedHead
      <3>1. /\ pos' = pos + HeadLen /\ head_buf' = HeadNow
            /\ UNCHANGED <<peerVars, lim, pkg_buf, delivered, tp, cut, stale>>
            /\ pkg_buf = <<>> /\ pc = "feed" /\ state = "HEAD"
        BY <2>1, FeedHeadIs
      <3>2. /\ HeadLen \in Nat /\ pos + HeadLen <= lim
            /\ HeadNow \in Seq(Byte) /\ Len(HeadNow) <= HeadBytes
        BY HeadCopied
      <3>3. CASE Len(HeadNow) = HeadBytes
        <4>1. /\ state' = "BODY" /\ pc' = "body"
              /\ pkg_size' = head_len(HeadNow) /\ head_len(HeadNow) \in Nat
          BY <2>1, <3>2, <3>3, FeedHeadIs, HeadLenNat
        <4>2. QED
          BY <3>1, <3>2, <3>3, <4>1
      <3>4. CASE Len(HeadNow) # HeadBytes
        <4>1. UNCHANGED <<state, pkg_size, pc>>
          BY <2>1, <3>4, FeedHeadIs
        <4>2. QED
          BY <3>1, <3>2, <4>1
      <3>5. QED
        BY <3>3, <3>4
    <2>2. CASE FeedHeadNoMemory
      <3>1. /\ pos' = lim /\ pc' = "idle" /\ tp' = "CLOSED"
            /\ UNCHANGED <<peerVars, lim, delivered, cut, stale>>
        BY <2>2, NoMemoryIs
      <3>2. ParserReset
        BY <2>2, NoMemoryIs
      <3>3. QED
        BY <3>1, <3>2 DEF ParserReset, HeadBytes
    <2>6. CASE FeedHeadNoMemoryIgnored
      <3>1. /\ state = "HEAD" /\ head_buf' = HeadNow
            /\ pos' = lim /\ pc' = "idle" /\ stale' \in {0, 1}
            /\ UNCHANGED <<peerVars, lim, state, pkg_buf, pkg_size, delivered,
                           tp, cut>>
        BY <2>6, NoMemoryIgnoredIs
      <3>2. QED
        BY <3>1, HeadCopied
    <2>3. CASE FeedBodyMore
      <3>1. state = "BODY" /\ pos' = pos + BodyLen /\ pkg_buf' = BodyNow
              /\ pc' = "feed"
        BY <2>3 DEF FeedBodyMore, AtBody
      <3>2. UNCHANGED <<peerVars, lim, state, head_buf, pkg_size, delivered,
                        tp, cut, stale>>
        BY <2>3 DEF FeedBodyMore
      <3>3. QED
        BY <3>1, <3>2, BodyCopied
    <2>4. ASSUME FeedBodyDone \/ FeedBodyStop PROVE (TypeOK /\ Shape)'
      <3>1. head_buf[1] \in Byte
        BY <2>4, ElementOfSeq DEF FeedBodyDone, FeedBodyStop, AtBody, HeadBytes
      <3>2. [type |-> head_buf[1], body |-> BodyNow]
              \in [type : Byte, body : Seq(Byte)]
        BY <3>1, BodyCopied
      <3>3. delivered' \in Seq([type : Byte, body : Seq(Byte)])
        <4>1. delivered' = Append(delivered,
                                  [type |-> head_buf[1], body |-> BodyNow])
          BY <2>4 DEF FeedBodyDone, FeedBodyStop
        <4>2. delivered \in Seq([type : Byte, body : Seq(Byte)])
          OBVIOUS
        <4>3. QED
          BY <4>1, <4>2, <3>2, AppendProperties
      <3>4. /\ pos' = pos + BodyLen /\ ParserReset /\ pc' = "feed"
            /\ tp' \in {"WORKING", "CLOSED"} /\ cut' \in {0, 1}
            /\ UNCHANGED <<peerVars, lim, stale>>
        BY <2>4 DEF FeedBodyDone, FeedBodyStop
      <3>5. BodyLen \in Nat /\ pos + BodyLen <= lim
        BY BodyCopied
      <3>6. /\ state' = "HEAD" /\ pkg_size' = 0
            /\ head_buf' = <<>> /\ head_buf' \in Seq(Byte)
            /\ Len(head_buf') = 0 /\ 0 <= HeadBytes
            /\ pkg_buf' = <<>> /\ pkg_buf' \in Seq(Byte) /\ Len(pkg_buf') = 0
        BY <3>4 DEF ParserReset, HeadBytes
      <3>7. QED
        BY <3>3, <3>4, <3>5, <3>6
    <2>5. CASE FeedReturn
      BY <2>5 DEF FeedReturn
    <2>7. QED
      BY <1>3, <2>1, <2>2, <2>3, <2>4, <2>5, <2>6 DEF FeedStep
  <1>4. CASE Stop
    BY <1>4 DEF Stop, ParserReset, HeadBytes
  <1>5. CASE Connect
    BY <1>5 DEF Connect
  <1>6. CASE Close
    BY <1>6 DEF Close
  <1>7. CASE UNCHANGED vars
    BY <1>7 DEF vars
  <1>8. QED
    BY <1>1, <1>2, <1>3, <1>4, <1>5, <1>6, <1>7 DEF Next

\* What sending a package appends.
LEMMA SendIs ==
    ASSUME TypeOK, Framed, NEW p \in Packages, Send(p)
    PROVE  /\ Len(sent') = Len(sent) + 1
           /\ \A i \in 1 .. Len(sent) : sent'[i] = sent[i]
           /\ sent'[Len(sent) + 1] = p
           /\ Len(bound') = Len(bound) + 1
           /\ \A i \in 1 .. (Len(sent) + 1) : bound'[i] = bound[i]
           /\ bound'[Len(sent) + 2] = Len(stream) + HeadBytes + Len(p.body)
           /\ Len(stream') = Len(stream) + HeadBytes + Len(p.body)
           /\ \A k \in 1 .. Len(stream) : stream'[k] = stream[k]
           /\ \A j \in 1 .. (HeadBytes + Len(p.body)) :
                 stream'[Len(stream) + j] = pkg_encode(p)[j]
  <1>1. /\ sent \in Seq(Packages) /\ bound \in Seq(Nat) /\ stream \in Seq(Byte)
        /\ Len(bound) = Len(sent) + 1
    BY DEF TypeOK, Framed
  <1>2. p.body \in Seq(Byte)
    BY ParserAssumption DEF Packages
  <1>3. /\ Len(stream) \in Nat /\ Len(p.body) \in Nat
        /\ Len(stream) + HeadBytes + Len(p.body) \in Nat
    <2>1. Len(stream) \in Nat
      BY <1>1
    <2>2. Len(p.body) \in Nat
      BY <1>2
    <2>3. QED
      BY <2>1, <2>2, Offset
  <1>4. sent' = Append(sent, p)
    BY DEF Send
  <1>5. bound' = Append(bound, Len(stream) + HeadBytes + Len(p.body))
    BY DEF Send
  <1>6. stream' = stream \o pkg_encode(p)
    BY DEF Send
  <1>7. /\ Len(sent') = Len(sent) + 1
        /\ \A i \in 1 .. Len(sent) : sent'[i] = sent[i]
        /\ sent'[Len(sent) + 1] = p
    BY <1>1, <1>4, AppendProperties
  <1>8. /\ Len(bound') = Len(bound) + 1
        /\ \A i \in 1 .. (Len(sent) + 1) : bound'[i] = bound[i]
        /\ bound'[Len(sent) + 2] = Len(stream) + HeadBytes + Len(p.body)
    <2>1. Len(bound) + 1 = Len(sent) + 2
      BY <1>1
    <2>2. QED
      BY <1>1, <1>3, <1>5, <2>1, AppendProperties
  <1>9. /\ Len(stream') = Len(stream) + HeadBytes + Len(p.body)
        /\ \A k \in 1 .. Len(stream) : stream'[k] = stream[k]
        /\ \A j \in 1 .. (HeadBytes + Len(p.body)) :
              stream'[Len(stream) + j] = pkg_encode(p)[j]
    <2>1. /\ pkg_encode(p) \in Seq(Byte)
          /\ Len(pkg_encode(p)) = HeadBytes + Len(p.body)
      BY EncodeBytes
    <2>2. /\ Len(stream') = Len(stream) + Len(pkg_encode(p))
          /\ \A k \in 1 .. Len(stream) : stream'[k] = stream[k]
          /\ \A j \in 1 .. Len(pkg_encode(p)) :
                stream'[Len(stream) + j] = pkg_encode(p)[j]
      <3> DEFINE e == pkg_encode(p)
      <3>1. stream' = stream \o e /\ stream \in Seq(Byte) /\ e \in Seq(Byte)
        BY <1>1, <1>6, <2>1
      <3> HIDE DEF e
      <3>2. /\ Len(stream') = Len(stream) + Len(e)
            /\ \A k \in 1 .. Len(stream) : stream'[k] = stream[k]
            /\ \A j \in 1 .. Len(e) : stream'[Len(stream) + j] = e[j]
        BY <3>1, JoinBytes
      <3>3. QED
        BY <3>2 DEF e
    <2>3. Len(stream) + (HeadBytes + Len(p.body))
            = Len(stream) + HeadBytes + Len(p.body)
      BY <1>3, Offset
    <2>4. QED
      BY <2>1, <2>2, <2>3, Zenon
  <1>10. QED
    BY <1>7, <1>8, <1>9

\* The borders of the packages in the stream.
LEMMA FramedNext ==
    ASSUME TypeOK, Framed, [Next]_vars
    PROVE  Framed'
  <1>1. ASSUME NEW p \in Packages, Send(p) PROVE Framed'
    <2>1. /\ Len(sent) \in Nat /\ Len(stream) \in Nat
          /\ \A i \in 1 .. (Len(sent) + 1) : bound[i] \in Nat
      <3>1. /\ sent \in Seq(Packages) /\ stream \in Seq(Byte)
            /\ bound \in Seq(Nat) /\ Len(bound) = Len(sent) + 1
        BY DEF TypeOK, Framed
      <3>2. QED
        BY <3>1, LenProperties, ElementOfSeq
    <2>2. /\ Len(p.body) \in Nat /\ Len(p.body) < MaxBodyBytes
      BY <1>1, ParserAssumption DEF Send, Packages
    <2>3. Len(bound') = Len(sent') + 1 /\ bound'[1] = 0
            /\ bound'[Len(sent') + 1] = Len(stream')
      BY <1>1, <2>1, SendIs DEF Framed
    <2>4. ASSUME NEW i \in 1 .. Len(sent')
          PROVE  /\ Len(sent'[i].body) < MaxBodyBytes
                 /\ bound'[i + 1] = bound'[i] + HeadBytes + Len(sent'[i].body)
                 /\ bound'[i + 1] <= Len(stream')
                 /\ \A j \in 1 .. (HeadBytes + Len(sent'[i].body)) :
                       stream'[bound'[i] + j] = pkg_encode(sent'[i])[j]
      <3>1. CASE i <= Len(sent)
        <4>1. i \in 1 .. Len(sent) /\ i + 1 \in 1 .. (Len(sent) + 1)
                /\ i \in 1 .. (Len(sent) + 1)
          BY <2>1, <3>1
        <4>2. /\ sent'[i] = sent[i] /\ bound'[i] = bound[i]
              /\ bound'[i + 1] = bound[i + 1]
          BY <1>1, <4>1, SendIs
        <4>3. Len(sent[i].body) \in Nat
          <5>1. sent[i] \in Packages
            BY <4>1, ElementOfSeq DEF TypeOK
          <5>2. sent[i].body \in Seq(Byte)
            BY <5>1, ParserAssumption DEF Packages
          <5>3. QED
            BY <5>2, LenProperties
        <4>4. ASSUME NEW j \in 1 .. (HeadBytes + Len(sent[i].body))
              PROVE  bound[i] + j \in 1 .. Len(stream)
          <5>1. /\ bound[i] \in Nat
                /\ bound[i + 1] = bound[i] + HeadBytes + Len(sent[i].body)
                /\ bound[i + 1] <= Len(stream)
            BY <2>1, <4>1 DEF Framed
          <5>2. /\ bound[i + 1] \in Nat
                /\ bound[i] + j \in 1 .. bound[i + 1]
            BY <4>3, <5>1, Offset
          <5>3. QED
            BY <2>1, <5>1, <5>2
        <4>5. /\ Len(sent[i].body) < MaxBodyBytes
              /\ bound[i + 1] = bound[i] + HeadBytes + Len(sent[i].body)
              /\ bound[i + 1] <= Len(stream)
              /\ \A j \in 1 .. (HeadBytes + Len(sent[i].body)) :
                    stream[bound[i] + j] = pkg_encode(sent[i])[j]
          BY <4>1 DEF Framed
        <4>6. \A j \in 1 .. (HeadBytes + Len(sent[i].body)) :
                 stream'[bound[i] + j] = stream[bound[i] + j]
          BY <1>1, <4>4, SendIs
        <4>7. bound[i + 1] \in Nat /\ Len(stream') >= Len(stream)
                /\ Len(stream') \in Nat
          <5>1. Len(stream') = Len(stream) + HeadBytes + Len(p.body)
            BY <1>1, SendIs
          <5>2. bound[i + 1] \in Nat
            BY <2>1, <4>1
          <5>3. /\ Len(stream) + HeadBytes + Len(p.body) \in Nat
                /\ Len(stream) + HeadBytes + Len(p.body) > Len(stream)
            BY <2>1, <2>2, Offset
          <5>4. QED
            BY <2>1, <5>1, <5>2, <5>3
        <4>8. QED
          BY <2>1, <4>2, <4>5, <4>6, <4>7
      <3>2. CASE i = Len(sent) + 1
        <4>1. /\ sent'[i] = p /\ bound'[i] = Len(stream)
              /\ bound'[i + 1] = Len(stream) + HeadBytes + Len(p.body)
              /\ Len(stream') = Len(stream) + HeadBytes + Len(p.body)
          BY <1>1, <2>1, <3>2, SendIs DEF Framed
        <4>2. \A j \in 1 .. (HeadBytes + Len(p.body)) :
                 stream'[Len(stream) + j] = pkg_encode(p)[j]
          BY <1>1, SendIs
        <4>3. Len(stream) + HeadBytes + Len(p.body) \in Nat
          BY <2>1, <2>2, Offset
        <4>4. QED
          BY <2>2, <4>1, <4>2, <4>3
      <3>3. QED
        BY <1>1, <2>1, <3>1, <3>2, SendIs
    <2>5. QED
      BY <2>3, <2>4 DEF Framed
  <1>2. CASE Connect
    BY <1>2 DEF Connect, Framed
  <1>3. CASE UNCHANGED peerVars
    BY <1>3 DEF peerVars, Framed
  <1>4. QED
    BY <1>1, <1>2, <1>3
       DEF Next, ReadSome, Read, FeedStep, FeedHead, FeedHeadNoMemory,
           FeedHeadNoMemoryIgnored,
           FeedBodyMore, FeedBodyDone, FeedBodyStop, FeedReturn, Stop, Close,
           vars, peerVars

\* A body is collected only on a live connection, or on the bytes left of a
\* chunk in which the client was stopped.
LEMMA BodyWorking ==
    ASSUME Shape, Aligned, AtBody
    PROVE  ~(tp = "CLOSED" /\ cut = 0)
  <1>1. state = "BODY" /\ Len(head_buf) = 4
    BY DEF AtBody, Shape, HeadBytes
  <1>2. head_buf # <<>>
    BY <1>1
  <1>3. QED
    BY <1>1, <1>2 DEF Aligned

\* A chunk is used up before the next is read, and a stop leaves the head
\* buffer empty unless bytes of the chunk are left.
LEMMA AlignedNext ==
    ASSUME TypeOK, Shape, Aligned, [Next]_vars
    PROVE  Aligned'
  <1> USE DEF Aligned, peerVars, parserVars
  <1>1. ASSUME NEW p \in Packages, Send(p) PROVE Aligned'
    BY <1>1 DEF Send
  <1>2. CASE ReadSome
    BY <1>2 DEF ReadSome, Read
  <1>3. CASE FeedHead
    BY <1>3, FeedHeadIs DEF TypeOK
  <1>4. CASE FeedHeadNoMemory
    BY <1>4, NoMemoryIs DEF TypeOK, ParserReset
  <1>15. CASE FeedHeadNoMemoryIgnored
    BY <1>15, NoMemoryIgnoredIs DEF TypeOK
  <1>5. CASE FeedBodyMore
    <2>1. AtBody /\ pc' = "feed" /\ UNCHANGED <<state, tp, cut>>
      BY <1>5 DEF FeedBodyMore
    <2>2. QED
      BY <2>1, BodyWorking
  <1>6. CASE FeedBodyDone
    <2>1. AtBody /\ pc' = "feed" /\ UNCHANGED <<tp, cut>>
      BY <1>6 DEF FeedBodyDone
    <2>2. QED
      BY <2>1, BodyWorking
  <1>7. CASE FeedBodyStop
    <2>1. /\ pos' = pos + BodyLen /\ pos + BodyLen <= lim /\ BodyLen \in Nat
          /\ lim' = lim /\ head_buf' = <<>> /\ pc' = "feed"
          /\ cut' = IF pos + BodyLen < lim THEN 1 ELSE 0
      BY <1>7, BodyCopied DEF FeedBodyStop, ParserReset
    <2>2. pos \in Nat /\ lim \in Nat
      BY DEF TypeOK
    <2>3. QED
      BY <2>1, <2>2
  <1>8. CASE FeedReturn
    BY <1>8 DEF FeedReturn
  <1>9. CASE Stop
    BY <1>9 DEF Stop, ParserReset
  <1>10. CASE Connect
    BY <1>10 DEF Connect
  <1>11. CASE Close
    BY <1>11 DEF Close
  <1>12. CASE UNCHANGED vars
    BY <1>12 DEF vars
  <1>13. QED
    BY <1>1, <1>2, <1>3, <1>4, <1>5, <1>6, <1>7, <1>8, <1>9, <1>10, <1>11,
       <1>12, <1>15 DEF Next, FeedStep

\* The package that pc__pkg_body hands to the callback is the one the peer
\* sent next, and the parser has then consumed exactly its bytes.
LEMMA PackageDone ==
    ASSUME TypeOK, Shape, Framed, InStep, AtBody,
           Len(pkg_buf) + BodyLen = pkg_size
    PROVE  /\ Len(delivered) + 1 <= Len(sent)
           /\ [type |-> head_buf[1], body |-> BodyNow]
                 = sent[Len(delivered) + 1]
           /\ pos + BodyLen = bound[Len(delivered) + 2]
  <1> DEFINE d == Len(delivered)
             m == sent[d + 1]
  <1>1. /\ d \in Nat /\ Len(sent) \in Nat /\ Len(stream) \in Nat
        /\ Len(pkg_buf) \in Nat /\ Len(bound) = Len(sent) + 1
        /\ bound \in Seq(Nat) /\ sent \in Seq(Packages)
        /\ pos \in Nat /\ pos <= Len(stream) /\ lim \in Nat
        /\ stream \in Seq(Byte) /\ pkg_buf \in Seq(Byte)
    BY DEF TypeOK, Framed
  <1>2. /\ d <= Len(sent) /\ Len(head_buf) = 4
        /\ pkg_size = head_len(head_buf)
        /\ pos = bound[d + 1] + 4 + Len(pkg_buf)
        /\ \A j \in 1 .. 4 : head_buf[j] = stream[bound[d + 1] + j]
        /\ \A j \in 1 .. Len(pkg_buf) :
              pkg_buf[j] = stream[(bound[d + 1] + 4) + j]
    BY DEF InStep, Start, AtBody, Shape, HeadBytes
  <1>3. bound[d + 1] \in Nat
    <2>1. d + 1 \in 1 .. Len(bound)
      BY <1>1, <1>2
    <2>2. QED
      BY <1>1, <2>1, ElementOfSeq
  <1>4. d + 1 <= Len(sent)
    <2>1. CASE d = Len(sent)
      <3>1. bound[d + 1] = Len(stream)
        BY <2>1 DEF Framed
      <3>2. QED
        BY <1>1, <1>2, <3>1
    <2>2. QED
      BY <1>1, <1>2, <2>1
  <1>5. d + 1 \in 1 .. Len(sent) /\ (d + 1) + 1 = d + 2
    BY <1>1, <1>4
  <1>6. m \in Packages
    BY <1>1, <1>5, ElementOfSeq
  <1>7. /\ m.type \in Byte /\ m.body \in Seq(Byte) /\ Len(m.body) \in Nat
        /\ m = [type |-> m.type, body |-> m.body]
    BY <1>6, ParserAssumption DEF Packages
  <1>8. /\ Len(m.body) < MaxBodyBytes
        /\ bound[d + 2] = bound[d + 1] + 4 + Len(m.body)
        /\ \A j \in 1 .. (4 + Len(m.body)) :
              stream[bound[d + 1] + j] = pkg_encode(m)[j]
    BY <1>5 DEF Framed, HeadBytes
  <1>9. \A j \in 1 .. 4 : j \in 1 .. (4 + Len(m.body))
    BY <1>7
  <1>10. \A j \in 1 .. 4 : head_buf[j] = pkg_encode(m)[j]
    BY <1>2, <1>8, <1>9
  <1>11. /\ pkg_encode(m)[1] = m.type
         /\ \A i \in 2 .. 4 : pkg_encode(m)[i] = LenByte(Len(m.body), i)
    <2>1. /\ 1 \in 1 .. (HeadBytes + Len(m.body))
          /\ \A i \in 2 .. 4 : i \in 1 .. (HeadBytes + Len(m.body))
      BY <1>7 DEF HeadBytes
    <2> HIDE DEF m
    <2>2. QED
      BY <2>1 DEF pkg_encode, HeadBytes
  <1>12. pkg_size = Len(m.body)
    <2>1. /\ head_buf[2] = LenByte(Len(m.body), 2)
          /\ head_buf[3] = LenByte(Len(m.body), 3)
          /\ head_buf[4] = LenByte(Len(m.body), 4)
      BY <1>10, <1>11
    <2>2. QED
      BY <1>2, <1>7, <1>8, <2>1, LengthField DEF head_len
  <1>13. BodyLen \in Nat /\ pos + BodyLen <= lim /\ BodyNow \in Seq(Byte)
           /\ Len(BodyNow) = Len(m.body) /\ lim <= Len(stream)
    BY <1>12, BodyCopied DEF TypeOK
  <1>14. \A j \in 1 .. Len(BodyNow) : BodyNow[j] = stream[(bound[d + 1] + 4) + j]
    <2>1. /\ bound[d + 1] + 4 \in Nat /\ pos + BodyLen <= Len(stream)
          /\ pos = (bound[d + 1] + 4) + Len(pkg_buf)
      <3> DEFINE base == bound[d + 1]
      <3>1. pos = base + 4 + Len(pkg_buf) /\ base \in Nat
        BY <1>2, <1>3
      <3>2. pos + BodyLen <= Len(stream)
        BY <1>1, <1>13
      <3> HIDE DEF base
      <3>3. base + 4 \in Nat /\ pos = (base + 4) + Len(pkg_buf)
        BY <1>1, <3>1
      <3>4. QED
        BY <3>2, <3>3 DEF base
    <2>2. \A j \in 1 .. Len(pkg_buf) :
             pkg_buf[j] = stream[(bound[d + 1] + 4) + j]
      BY <1>2
    <2>3. stream \in Seq(Byte) /\ pkg_buf \in Seq(Byte) /\ pos \in Nat
            /\ BodyLen \in Nat
      BY <1>1, <1>13
    <2> DEFINE base == bound[d + 1] + 4
    <2> HIDE DEF base
    <2>4. /\ base \in Nat /\ pos + BodyLen <= Len(stream)
          /\ pos = base + Len(pkg_buf)
          /\ \A j \in 1 .. Len(pkg_buf) : pkg_buf[j] = stream[base + j]
      BY <2>1, <2>2 DEF base
    <2>5. \A j \in 1 .. Len(BodyNow) : BodyNow[j] = stream[base + j]
      BY <2>3, <2>4, ExtendFrom DEF BodyNow
    <2>6. QED
      BY <2>5 DEF base
  <1>15. ASSUME NEW j \in 1 .. Len(m.body) PROVE BodyNow[j] = m.body[j]
    <2>1. /\ 4 + j \in 1 .. (4 + Len(m.body))
          /\ (bound[d + 1] + 4) + j = bound[d + 1] + (4 + j)
      <3> DEFINE base == bound[d + 1]
                 L == Len(m.body)
      <3>1. base \in Nat /\ L \in Nat /\ j \in 1 .. L
        BY <1>3, <1>7
      <3> HIDE DEF base, L
      <3>2. 4 + j \in 1 .. (4 + L) /\ (base + 4) + j = base + (4 + j)
        BY <3>1
      <3>3. QED
        BY <3>2 DEF base, L
    <2>2. BodyNow[j] = pkg_encode(m)[4 + j]
      BY <1>8, <1>13, <1>14, <2>1
    <2>3. pkg_encode(m)[4 + j] = m.body[j]
      <3>1. 4 + j # 1 /\ ~(4 + j <= 4) /\ (4 + j) - 4 = j
        BY <1>7
      <3> HIDE DEF m
      <3>2. QED
        BY <2>1, <3>1 DEF pkg_encode, HeadBytes
    <2>4. QED
      BY <2>2, <2>3
  <1>16. BodyNow = m.body
    BY <1>7, <1>13, <1>15, SeqEqual
  <1>17. [type |-> head_buf[1], body |-> BodyNow] = m
    <2>1. head_buf[1] = m.type
      BY <1>10, <1>11
    <2>2. QED
      BY <1>7, <1>16, <2>1
  <1>18. pos + BodyLen = bound[d + 2]
    <2> DEFINE b == bound[d + 1]
               c == bound[d + 2]
               L == Len(m.body)
    <2>1. /\ b \in Nat /\ pos = b + 4 + Len(pkg_buf) /\ c = b + 4 + L
          /\ L \in Nat /\ Len(pkg_buf) + BodyLen = L
      BY <1>2, <1>3, <1>7, <1>8, <1>12
    <2>2. Len(pkg_buf) \in Nat /\ BodyLen \in Nat
      BY <1>1, <1>13
    <2> HIDE DEF b, c, L
    <2>3. pos + BodyLen = c
      BY <2>1, <2>2
    <2>4. QED
      BY <2>3 DEF c
  <1>19. QED
    BY <1>4, <1>17, <1>18

\* The allocation fails with the chunk at its end: nothing is lost.
IgnoredAtEnd == FeedHeadNoMemoryIgnored /\ pos + HeadLen >= lim

\* A step of the parser that leaves delivered alone keeps it in step.
LEMMA CollectNext ==
    ASSUME TypeOK, Shape, Framed, InStep,
           FeedHead \/ FeedBodyMore \/ IgnoredAtEnd
    PROVE  InStep'
  <1> DEFINE b == bound[Len(delivered) + 1]
  <1>1. UNCHANGED <<sent, stream, bound, delivered>>
    BY FeedHeadIs, NoMemoryIgnoredIs DEF FeedBodyMore, IgnoredAtEnd, peerVars
  <1>2. /\ Len(delivered) <= Len(sent)
        /\ pos = b + Len(head_buf) + Len(pkg_buf)
        /\ \A j \in 1 .. Len(head_buf) : head_buf[j] = stream[b + j]
        /\ \A j \in 1 .. Len(pkg_buf) :
              pkg_buf[j] = stream[(b + HeadBytes) + j]
    BY DEF InStep, Start
  <1>3. b \in Nat
    <2>1. /\ bound \in Seq(Nat) /\ Len(bound) = Len(sent) + 1
          /\ Len(delivered) \in Nat /\ Len(sent) \in Nat
      BY DEF TypeOK, Framed
    <2>2. Len(delivered) + 1 \in 1 .. Len(bound)
      BY <1>2, <2>1
    <2>3. QED
      BY <2>1, <2>2, ElementOfSeq
  <1>4. /\ stream \in Seq(Byte) /\ head_buf \in Seq(Byte)
        /\ pkg_buf \in Seq(Byte) /\ pos \in Nat /\ lim \in Nat
        /\ lim <= Len(stream) /\ Len(stream) \in Nat
        /\ Len(head_buf) \in Nat /\ Len(pkg_buf) \in Nat
    BY DEF TypeOK
  <1>5. b' = b
    BY <1>1
  <1> HIDE DEF b
  <1>6. SUFFICES
          /\ pos' = b + Len(head_buf') + Len(pkg_buf')
          /\ \A j \in 1 .. Len(head_buf') : head_buf'[j] = stream[b + j]
          /\ \A j \in 1 .. Len(pkg_buf') :
                pkg_buf'[j] = stream[(b + HeadBytes) + j]
    BY <1>1, <1>2 DEF InStep, Start, b
  <1>7. CASE FeedHead \/ IgnoredAtEnd
    <2>1. /\ pkg_buf = <<>> /\ pkg_buf' = <<>> /\ head_buf' = HeadNow
          /\ pos' = pos + HeadLen
      <3>1. HeadLen \in Nat /\ pos + HeadLen <= lim
        BY HeadCopied
      <3>2. QED
        BY <1>4, <1>7, <3>1, FeedHeadIs, NoMemoryIgnoredIs
           DEF Shape, IgnoredAtEnd
    <2>2. /\ HeadLen \in Nat /\ pos + HeadLen <= lim
          /\ Len(HeadNow) = Len(head_buf) + HeadLen
          /\ Len(HeadNow) <= HeadBytes
      BY HeadCopied
    <2>3. pos = b + Len(head_buf) /\ pos + HeadLen <= Len(stream)
      BY <1>2, <1>3, <1>4, <2>1, <2>2
    <2>4. \A j \in 1 .. Len(HeadNow) : HeadNow[j] = stream[b + j]
      <3>1. /\ stream \in Seq(Byte) /\ head_buf \in Seq(Byte)
            /\ HeadLen \in Nat /\ b \in Nat /\ pos \in Nat
            /\ pos + HeadLen <= Len(stream) /\ pos = b + Len(head_buf)
            /\ \A j \in 1 .. Len(head_buf) : head_buf[j] = stream[b + j]
        BY <1>2, <1>3, <1>4, <2>2, <2>3
      <3>2. QED
        BY <3>1, ExtendFrom DEF HeadNow
    <2>5. pos' = b + Len(head_buf') + Len(pkg_buf')
      BY <1>3, <1>4, <2>1, <2>2, <2>3
    <2>6. QED
      BY <2>1, <2>4, <2>5
  <1>8. CASE FeedBodyMore
    <2>1. /\ state = "BODY" /\ state' = "BODY" /\ head_buf' = head_buf
          /\ pkg_buf' = BodyNow /\ pos' = pos + BodyLen
          /\ Len(head_buf) = HeadBytes
      BY <1>8 DEF FeedBodyMore, AtBody, Shape
    <2>2. /\ BodyLen \in Nat /\ pos + BodyLen <= lim
          /\ Len(BodyNow) = Len(pkg_buf) + BodyLen
      BY BodyCopied
    <2> DEFINE c == b + HeadBytes
    <2>3. c \in Nat
      BY <1>3 DEF HeadBytes
    <2>4. pos = c + Len(pkg_buf) /\ pos + BodyLen <= Len(stream)
      BY <1>2, <1>4, <2>1, <2>2
    <2>5. \A j \in 1 .. Len(pkg_buf) : pkg_buf[j] = stream[c + j]
      BY <1>2
    <2> HIDE DEF c
    <2>6. \A j \in 1 .. Len(BodyNow) : BodyNow[j] = stream[c + j]
      BY <1>4, <2>2, <2>3, <2>4, <2>5, ExtendFrom DEF BodyNow
    <2>7. pos' = c + Len(BodyNow)
      BY <1>4, <2>1, <2>2, <2>3, <2>4
    <2>8. QED
      BY <1>2, <2>1, <2>6, <2>7 DEF c
  <1>9. QED
    BY <1>7, <1>8

\* A step that hands a package to the callback keeps the parser in step.
LEMMA DeliverNext ==
    ASSUME TypeOK, Shape, Framed, InStep, DeliveredPrefix,
           FeedBodyDone \/ FeedBodyStop
    PROVE  InStep' /\ (stale = 0 => DeliveredPrefix')
  <1> DEFINE m == [type |-> head_buf[1], body |-> BodyNow]
  <1>1. /\ AtBody /\ Len(pkg_buf) + BodyLen = pkg_size
        /\ pos' = pos + BodyLen
        /\ delivered' = Append(delivered, m)
        /\ state' = "HEAD" /\ head_buf' = <<>> /\ pkg_buf' = <<>>
        /\ UNCHANGED <<sent, stream, bound, stale>>
    BY DEF FeedBodyDone, FeedBodyStop, ParserReset, peerVars
  <1>2. /\ Len(delivered) + 1 <= Len(sent)
        /\ m = sent[Len(delivered) + 1]
        /\ pos + BodyLen = bound[Len(delivered) + 2]
    BY <1>1, PackageDone
  <1>3. pos \in Nat /\ BodyLen \in Nat
    BY BodyCopied DEF TypeOK
  <1>4. delivered \in Seq([type : Byte, body : Seq(Byte)])
          /\ Len(delivered) \in Nat /\ Len(sent) \in Nat
    BY DEF TypeOK
  <1>5. m \in [type : Byte, body : Seq(Byte)]
    <2>1. head_buf[1] \in Byte
      <3>1. head_buf \in Seq(Byte) /\ Len(head_buf) = 4
        BY <1>1 DEF TypeOK, AtBody, Shape, HeadBytes
      <3>2. QED
        BY <3>1, ElementOfSeq
    <2>2. QED
      BY <2>1, BodyCopied
  <1> HIDE DEF m
  <1>6. /\ Len(delivered') = Len(delivered) + 1
        /\ delivered'[Len(delivered) + 1] = m
        /\ \A i \in 1 .. Len(delivered) : delivered'[i] = delivered[i]
    BY <1>1, <1>4, <1>5, AppendProperties
  <1>7. InStep'
    <2>1. Start' = bound[Len(delivered) + 2]
      BY <1>1, <1>4, <1>6 DEF Start
    <2>2. pos' = Start' + 0 + 0
      BY <1>1, <1>2, <1>3, <2>1
    <2>3. Len(head_buf') = 0 /\ Len(pkg_buf') = 0
      BY <1>1
    <2>4. QED
      BY <1>1, <1>2, <1>6, <2>2, <2>3 DEF InStep, HeadBytes
  <1>8. ASSUME stale = 0 PROVE DeliveredPrefix'
    <2>1. \A i \in 1 .. Len(delivered) : delivered[i] = sent[i]
      BY <1>8 DEF DeliveredPrefix
    <2>2. ASSUME NEW i \in 1 .. Len(delivered') PROVE delivered'[i] = sent'[i]
      <3>1. CASE i \in 1 .. Len(delivered)
        BY <1>1, <1>6, <2>1, <3>1
      <3>2. CASE i = Len(delivered) + 1
        BY <1>1, <1>2, <1>6, <3>2
      <3>3. QED
        BY <1>4, <1>6, <3>1, <3>2
    <2>3. QED
      BY <1>1, <1>2, <1>6, <2>2 DEF DeliveredPrefix
  <1>9. QED
    BY <1>7, <1>8

\* A package more on the stream does not disturb what has been collected.
LEMMA SendInStep ==
    ASSUME TypeOK, Shape, Framed, InStep, tp = "WORKING",
           NEW p \in Packages, Send(p)
    PROVE  InStep'
  <1> DEFINE b == bound[Len(delivered) + 1]
  <1>1. UNCHANGED <<pos, lim, state, head_buf, pkg_buf, delivered>>
    BY DEF Send, parserVars
  <1>2. /\ Len(delivered) \in Nat /\ Len(sent) \in Nat
        /\ Len(delivered) <= Len(sent) /\ pos \in Nat
        /\ Len(head_buf) \in Nat /\ Len(pkg_buf) \in Nat
        /\ pos <= Len(stream) /\ Len(stream) \in Nat
        /\ bound \in Seq(Nat) /\ Len(bound) = Len(sent) + 1
    BY DEF TypeOK, Framed, InStep
  <1>3. Len(delivered) + 1 \in 1 .. (Len(sent) + 1)
    BY <1>2
  <1>4. b \in Nat /\ Start' = b /\ Start = b
    BY <1>1, <1>2, <1>3, SendIs, ElementOfSeq DEF Start
  <1>5. /\ pos = b + Len(head_buf) + Len(pkg_buf)
        /\ \A j \in 1 .. Len(head_buf) : head_buf[j] = stream[b + j]
        /\ \A j \in 1 .. Len(pkg_buf) :
              pkg_buf[j] = stream[b + HeadBytes + j]
    BY DEF InStep, Start
  <1>6. pkg_buf = <<>> \/ Len(head_buf) = HeadBytes
    BY DEF Shape, TypeOK
  <1> HIDE DEF b
  <1>7. ASSUME NEW j \in 1 .. Len(head_buf) PROVE stream'[b + j] = stream[b + j]
    <2>1. b + j \in 1 .. Len(stream)
      BY <1>2, <1>4, <1>5
    <2>2. QED
      BY <2>1, SendIs
  <1>8. ASSUME NEW j \in 1 .. Len(pkg_buf)
        PROVE  stream'[b + HeadBytes + j] = stream[b + HeadBytes + j]
    <2>1. Len(head_buf) = HeadBytes
      BY <1>6
    <2>2. b + HeadBytes + j \in 1 .. Len(stream)
      BY <1>2, <1>4, <1>5, <2>1
    <2>3. QED
      BY <2>2, SendIs
  <1>9. Len(delivered) <= Len(sent')
    BY <1>2, SendIs
  <1>10. QED
    BY <1>1, <1>4, <1>5, <1>7, <1>8, <1>9 DEF InStep

\* Every step keeps the parser in step with the peer, and what it has handed
\* to the callback a prefix of what the peer sent.
LEMMA InStepNext ==
    ASSUME TypeOK, Shape, Framed, StaysInStep, DeliveredPrefix, [Next]_vars
    PROVE  StaysInStep' /\ DeliveredPrefix'
  <1> DEFINE Goal == StaysInStep' /\ DeliveredPrefix'
  <1>1. ASSUME NEW p \in Packages, Send(p) PROVE Goal
    <2>1. tp = "WORKING" /\ UNCHANGED <<delivered, stale>>
      BY <1>1 DEF Send
    <2>2. StaysInStep'
      BY <1>1, <2>1, SendInStep DEF StaysInStep, Feeding
    <2>3. /\ Len(delivered) \in Nat /\ Len(sent) \in Nat
          /\ Len(sent') = Len(sent) + 1
          /\ \A i \in 1 .. Len(sent) : sent'[i] = sent[i]
      <3>1. Len(delivered) \in Nat /\ Len(sent) \in Nat
        BY DEF TypeOK
      <3>2. QED
        BY <1>1, <3>1, SendIs
    <2>4. DeliveredPrefix'
      BY <2>1, <2>3 DEF DeliveredPrefix
    <2>5. QED
      BY <2>2, <2>4
  <1>2. ASSUME FeedHead \/ FeedBodyMore PROVE Goal
    <2>1. pc # "idle" /\ UNCHANGED <<stale, delivered, sent>>
      BY <1>2, FeedHeadIs DEF FeedBodyMore, AtBody, peerVars
    <2>2. QED
      BY <1>2, <2>1, CollectNext DEF StaysInStep, Feeding, DeliveredPrefix
  <1>3. ASSUME FeedBodyDone \/ FeedBodyStop PROVE Goal
    <2>1. pc # "idle" /\ stale' = stale
      BY <1>3 DEF FeedBodyDone, FeedBodyStop, AtBody
    <2>2. CASE stale = 0
      BY <1>3, <2>1, <2>2, DeliverNext DEF StaysInStep, Feeding
    <2>3. CASE stale # 0
      BY <2>1, <2>3 DEF StaysInStep, DeliveredPrefix
    <2>4. QED
      BY <2>2, <2>3
  <1>4. CASE Connect
    <2>1. /\ tp = "CLOSED" /\ state # "CLOSED"
          /\ sent' = <<>> /\ stream' = <<>> /\ bound' = <<0>>
          /\ pos' = 0 /\ delivered' = <<>>
          /\ stale' = IF head_buf = <<>> THEN 0 ELSE 1
          /\ UNCHANGED <<state, head_buf, pkg_buf>>
      BY <1>4 DEF Connect, parserVars
    <2>2. ASSUME stale' = 0 PROVE InStep'
      <3>1. head_buf = <<>> /\ Len(head_buf) = 0
        BY <2>1, <2>2
      <3>2. state = "HEAD" /\ pkg_buf = <<>>
        BY <2>1, <3>1 DEF TypeOK, Shape, HeadBytes
      <3>3. QED
        BY <2>1, <3>1, <3>2 DEF InStep, Start, HeadBytes
    <2>3. QED
      BY <2>1, <2>2 DEF StaysInStep, DeliveredPrefix
  <1>5. ASSUME Stop \/ Close \/ FeedHeadNoMemory PROVE Goal
    <2>1. tp' = "CLOSED" /\ pc' = "idle"
      BY <1>5, NoMemoryIs DEF Stop, Close, TypeOK
    <2>2. UNCHANGED <<stale, delivered, sent>>
      BY <1>5, NoMemoryIs DEF Stop, Close, peerVars
    <2>3. QED
      BY <2>1, <2>2 DEF StaysInStep, Feeding, DeliveredPrefix
  <1>8. CASE FeedHeadNoMemoryIgnored
    <2>1. /\ pc # "idle" /\ UNCHANGED <<delivered, sent>>
          /\ stale' = IF pos + HeadLen < lim THEN 1 ELSE stale
      BY <1>8, NoMemoryIgnoredIs DEF peerVars
    <2>2. pos + HeadLen \in Nat /\ lim \in Nat
      BY HeadCopied DEF TypeOK
    <2>3. CASE stale' = 0
      <3>1. stale = 0 /\ pos + HeadLen >= lim
        BY <2>1, <2>2, <2>3
      <3>2. QED
        BY <1>8, <2>1, <3>1, CollectNext
           DEF IgnoredAtEnd, StaysInStep, Feeding, DeliveredPrefix
    <2>4. CASE stale' # 0
      BY <2>4 DEF StaysInStep, DeliveredPrefix
    <2>5. QED
      BY <2>3, <2>4
  <1>6. ASSUME ReadSome \/ FeedReturn \/ UNCHANGED vars PROVE Goal
    <2>1. /\ UNCHANGED <<peerVars, pos, parserVars, delivered, tp, stale>>
          /\ Feeding' => Feeding
      BY <1>6 DEF ReadSome, Read, FeedReturn, vars, peerVars, parserVars,
                  Feeding
    <2>2. QED
      BY <2>1 DEF StaysInStep, InStep, Start, DeliveredPrefix, peerVars,
                  parserVars
  <1>7. QED
    BY <1>1, <1>2, <1>3, <1>4, <1>5, <1>6, <1>8 DEF Next, FeedStep
-----------------------------------------------------------------------------
(* The theorems.                                                           *)

\* The inductive invariant of the parser.
ParserInv ==
    TypeOK /\ Shape /\ Framed /\ StaysInStep /\ Aligned /\ DeliveredPrefix

\* The parser's fields, the framing of the stream and what was delivered obey
\* the inductive invariant in every behaviour of pc_pkg_parser_feed.
THEOREM ParserInvariant == Spec => []ParserInv
  <1>1. Init => ParserInv
    BY ParserInit DEF ParserInv
  <1>2. ParserInv /\ [Next]_vars => ParserInv'
    BY TypeNext, FramedNext, InStepNext, AlignedNext DEF ParserInv
  <1>3. QED
    BY <1>1, <1>2, PTL DEF Spec

\* Every variable keeps its type: head_offset and pkg_offset stay inside the
\* buffers, and feed never reads past the chunk, for every input.
THEOREM ParserTypes == Spec => []TypeOK
  BY ParserInvariant, PTL DEF ParserInv

\* On a connection that began at a package boundary, pc__pkg_cb gets a prefix
\* of what the peer encoded, for every radix, package and way of chunking.
THEOREM ParserDelivers == Spec => []DeliveredPrefix
  BY ParserInvariant, PTL DEF ParserInv

\* A client stopped with no byte of its chunk unread leaves the parser at a
\* package boundary for the next connection.
THEOREM ParserAligned == Spec => []AlignedUnlessCut
  <1>1. ParserInv => AlignedUnlessCut
    BY DEF ParserInv, Aligned, AlignedUnlessCut
  <1>2. QED
    BY <1>1, ParserInvariant, PTL
-----------------------------------------------------------------------------
(* The refinement: the parser implements the reliable package stream.      *)

\* Handing a package to the callback is one Deliver of the package stream, or
\* one Garble on a connection that began out of step.
LEMMA DeliverIsStream ==
    ASSUME ParserInv, FeedBodyDone \/ FeedBodyStop
    PROVE  Stream!Deliver \/ Stream!Garble
  <1> DEFINE m == [type |-> head_buf[1], body |-> BodyNow]
  <1> USE DEF ParserInv
  <1>1. /\ AtBody /\ Len(pkg_buf) + BodyLen = pkg_size
        /\ delivered' = Append(delivered, m)
        /\ UNCHANGED <<sent, stale>>
    BY DEF FeedBodyDone, FeedBodyStop, peerVars
  <1>2. /\ delivered \in Seq([type : Byte, body : Seq(Byte)])
        /\ Len(delivered) \in Nat /\ Len(sent) \in Nat
    BY DEF TypeOK
  <1>3. CASE stale = 0
    <2>1. InStep
      BY <1>1, <1>3 DEF StaysInStep, Feeding, AtBody
    <2>2. Len(delivered) + 1 <= Len(sent) /\ m = sent[Len(delivered) + 1]
      BY <1>1, <2>1, PackageDone
    <2>3. Len(delivered) < Len(sent)
      BY <1>2, <2>2
    <2>4. QED
      BY <1>1, <1>3, <2>2, <2>3 DEF Stream!Deliver
  <1>4. CASE stale # 0
    <2>1. head_buf \in Seq(Byte) /\ Len(head_buf) = 4
      BY <1>1 DEF TypeOK, AtBody, Shape, HeadBytes
    <2>2. head_buf[1] \in Byte
      BY <2>1, ElementOfSeq
    <2>3. m \in [type : Byte, body : Seq(Byte)]
      BY <2>2, BodyCopied
    <2> HIDE DEF m
    <2>4. /\ Len(delivered') = Len(delivered) + 1
          /\ SubSeq(delivered', 1, Len(delivered)) = delivered
      BY <1>1, <1>2, <2>3
    <2>5. QED
      BY <1>1, <1>4, <2>4 DEF Stream!Garble
  <1>5. QED
    BY <1>3, <1>4

\* Every step of the parser is a step of the package stream or changes nothing
\* the stream can see.
LEMMA StepIsStream ==
    ASSUME ParserInv, [Next]_vars
    PROVE  [Stream!Next]_(Stream!vars)
  <1>1. ASSUME NEW p \in Packages, Send(p) PROVE Stream!Next
    BY <1>1 DEF Send, Stream!Next, Stream!Send
  <1>2. ASSUME FeedBodyDone \/ FeedBodyStop PROVE Stream!Next
    BY <1>2, DeliverIsStream DEF Stream!Next
  <1>3. CASE Connect
    BY <1>3 DEF Connect, Stream!Next, Stream!Connect
  <1>4. ASSUME \/ ReadSome \/ FeedHead \/ FeedHeadNoMemory \/ FeedBodyMore
               \/ FeedReturn \/ Stop \/ Close \/ UNCHANGED vars
        PROVE  UNCHANGED Stream!vars
    BY <1>4, FeedHeadIs, NoMemoryIs
       DEF ReadSome, Read, FeedBodyMore, FeedReturn, Stop, Close, vars,
           peerVars, Stream!vars
  <1>5. CASE FeedHeadNoMemoryIgnored
    <2>1. UNCHANGED <<sent, delivered>> /\ stale' \in {1, stale}
      BY <1>5, NoMemoryIgnoredIs DEF peerVars
    <2>2. CASE stale' = stale
      BY <2>1, <2>2 DEF Stream!vars
    <2>3. CASE stale' = 1
      BY <2>1, <2>3 DEF Stream!Next, Stream!Lose
    <2>4. QED
      BY <2>1, <2>2, <2>3
  <1>6. QED
    BY <1>1, <1>2, <1>3, <1>4, <1>5 DEF Next, FeedStep

\* pc_pkg_parser_feed, fed by TCP with chunks of any size, implements the
\* reliable package stream: whole packages, each once, in order.
THEOREM ParserImplementsStream == Spec => ImplementsStream
  <1>1. Init => Stream!Init
    BY DEF Init, Stream!Init
  <1>2. ParserInv /\ [Next]_vars => [Stream!Next]_(Stream!vars)
    BY StepIsStream
  <1>3. QED
    BY <1>1, <1>2, ParserInvariant, PTL DEF Spec, ImplementsStream, Stream!Spec
=============================================================================
