----------------------------- MODULE PkgParser -----------------------------
(***************************************************************************)
(* The package parser of src/src/package.c, fed by the TCP read callback   *)
(* of src/src/transport.c with chunks of the peer's byte stream.           *)
(*                                                                         *)
(* A package is a four-byte head (type, then a three-byte big-endian body  *)
(* length) and a body.  The peer's packages are encoded with               *)
(* pc_pkg_encode onto a byte stream; TCP hands arbitrary non-empty chunks  *)
(* of it to pc_pkg_parser_feed, whose loop is one action per half          *)
(* iteration (pc__pkg_head, pc__pkg_body).  The radix of a byte is a       *)
(* parameter: it is 256 in the code, and a small one makes TLC carry into  *)
(* every length byte.                                                      *)
(*                                                                         *)
(* The client reconnects with the same parser object.  It is reset when    *)
(* the client is stopped (pc__client_reconnect_reset), which may be inside *)
(* the package callback, with bytes of the current chunk still unread.     *)
(***************************************************************************)
EXTENDS Integers, Sequences

CONSTANTS
    Base,                \* number of byte values (256)
    Types,               \* package types the peer uses
    Bodies,              \* package bodies the peer uses
    MaxSent              \* bound: packages sent on one connection

Byte == 0 .. (Base - 1)

ASSUME ParserAssumption ==
    /\ Base \in Nat /\ Base > 1
    /\ Types \subseteq Byte
    /\ Bodies \subseteq Seq(Byte)
    /\ MaxSent \in Nat

VARIABLES
    sent,                \* history: packages encoded on this connection
    stream,              \* the bytes of this connection, first to last
    bound,               \* bound[i]: bytes of the stream before package i
    pos,                 \* bytes of the stream the parser has consumed
    lim,                 \* end of the chunk being fed (offset = nread)
    pc,                  \* where pc_pkg_parser_feed is
    state,               \* parser->state
    head_buf,            \* head bytes collected; head_offset is its length
    pkg_buf,             \* body bytes collected; pkg_offset is its length
    pkg_size,            \* parser->pkg_size
    delivered,           \* packages handed to parser->cb on this connection
    tp,                  \* transport->state, "WORKING" or "CLOSED"
    cut,                 \* history, 1: stopped in a callback, bytes unread
    stale                \* history, 1: this connection began off a package
                         \* boundary, or bytes of it have been freed unread

peerVars   == <<sent, stream, bound>>
parserVars == <<state, head_buf, pkg_buf, pkg_size>>
vars == <<sent, stream, bound, pos, lim, pc, state, head_buf, pkg_buf,
          pkg_size, delivered, tp, cut, stale>>

Packages == [type : Types, body : Bodies]

HeadBytes    == 4                      \* PC_PKG_HEAD_BYTES
MaxBodyBytes == Base * Base * Base     \* PC_PKG_MAX_BODY_BYTES

MinOf(a, b) == IF a < b THEN a ELSE b
-----------------------------------------------------------------------------
(* The wire format.                                                        *)

\* Byte i of the head of a package with a body of len bytes, i in 2 .. 4.
LenByte(len, i) ==
    IF i = 4 THEN len % Base
    ELSE IF i = 3 THEN (len \div Base) % Base
    ELSE ((len \div Base) \div Base) % Base

\* A little-endian length field.
LenByteSwapped(len, i) ==
    IF i = 2 THEN len % Base
    ELSE IF i = 3 THEN (len \div Base) % Base
    ELSE ((len \div Base) \div Base) % Base

\* pc_pkg_encode with the head bytes of the length in the wrong order.
pkg_encode_swapped(p) ==
    [i \in 1 .. (HeadBytes + Len(p.body)) |->
        IF i = 1 THEN p.type
        ELSE IF i <= HeadBytes THEN LenByteSwapped(Len(p.body), i)
        ELSE p.body[i - HeadBytes]]

pkg_encode(p) ==
    [i \in 1 .. (HeadBytes + Len(p.body)) |->
        IF i = 1 THEN p.type
        ELSE IF i <= HeadBytes THEN LenByte(Len(p.body), i)
        ELSE p.body[i - HeadBytes]]

head_len(h) == (h[2] * Base + h[3]) * Base + h[4]
-----------------------------------------------------------------------------
\* pc_pkg_parser_reset: back to waiting for the first head byte.
ParserReset ==
    /\ state' = "HEAD"
    /\ head_buf' = <<>>
    /\ pkg_buf' = <<>>
    /\ pkg_size' = 0

Init ==
    /\ sent = <<>> /\ stream = <<>> /\ bound = <<0>>
    /\ pos = 0 /\ lim = 0 /\ pc = "idle"
    /\ state = "HEAD" /\ head_buf = <<>> /\ pkg_buf = <<>> /\ pkg_size = 0
    /\ delivered = <<>>
    /\ tp = "WORKING" /\ cut = 0 /\ stale = 0

\* The peer encodes a package; one whose length does not fit is refused.
Send(p) ==
    /\ tp = "WORKING"
    /\ Len(sent) < MaxSent
    /\ Len(p.body) < MaxBodyBytes
    /\ sent' = Append(sent, p)
    /\ stream' = stream \o pkg_encode(p)
    /\ bound' = Append(bound, Len(stream) + HeadBytes + Len(p.body))
    /\ UNCHANGED <<pos, lim, pc, parserVars, delivered, tp, cut, stale>>

\* pc_tp_on_tcp_read with nread = n bytes: feed is called.
Read(n) ==
    /\ pc = "idle" /\ tp = "WORKING"
    /\ lim' = pos + n
    /\ pc' = "feed"
    /\ UNCHANGED <<peerVars, pos, parserVars, delivered, tp, cut, stale>>

\* pc__pkg_head that keeps a completed head from switching to the body when
\* the chunk ends with it.
FeedHeadNoEmpty ==
    /\ pc = "feed" /\ pos < lim /\ state = "HEAD"
    /\ LET len  == MinOf(HeadBytes - Len(head_buf), lim - pos)
           head == head_buf \o SubSeq(stream, pos + 1, pos + len)
       IN  /\ pos' = pos + len
           /\ head_buf' = head
           /\ IF Len(head) = HeadBytes
              THEN /\ state' = "BODY"
                   /\ pkg_size' = head_len(head)
              ELSE UNCHANGED <<state, pkg_size>>
           /\ pc' = "feed"
    /\ UNCHANGED <<peerVars, lim, pkg_buf, delivered, tp, cut, stale>>

\* pc__pkg_head: collect head bytes; a complete head allocates the body
\* buffer and, in the same iteration of the loop, goes on with the body.
FeedHead ==
    /\ pc = "feed" /\ pos < lim /\ state = "HEAD"
    /\ LET len  == MinOf(HeadBytes - Len(head_buf), lim - pos)
           head == head_buf \o SubSeq(stream, pos + 1, pos + len)
       IN  /\ pos' = pos + len
           /\ head_buf' = head
           /\ IF Len(head) = HeadBytes
              THEN /\ state' = "BODY"
                   /\ pkg_size' = head_len(head)
                   /\ pc' = "body"
              ELSE UNCHANGED <<state, pkg_size, pc>>
    /\ UNCHANGED <<peerVars, lim, pkg_buf, delivered, tp, cut, stale>>

\* pc__pkg_head when the body buffer cannot be allocated: feed returns -1,
\* pc_client_on_tcp_read stops the client, which resets the parser, and the
\* rest of the chunk is freed.
FeedHeadNoMemory ==
    /\ pc = "feed" /\ pos < lim /\ state = "HEAD"
    /\ LET len  == MinOf(HeadBytes - Len(head_buf), lim - pos)
           head == head_buf \o SubSeq(stream, pos + 1, pos + len)
       IN  Len(head) = HeadBytes /\ head_len(head) > 0
    /\ ParserReset
    /\ pos' = lim
    /\ pc' = "idle"
    /\ tp' = "CLOSED"
    /\ UNCHANGED <<peerVars, lim, delivered, cut, stale>>

\* The same while client->reconnecting is set, which it also is throughout a
\* reconnect attempt: pc_client_stop returns at once.  The transport stays as
\* it is, WORKING or stopped, and the complete head stays in the buffer, but
\* the rest of the chunk is freed all the same.
FeedHeadNoMemoryIgnored ==
    /\ pc = "feed" /\ pos < lim /\ state = "HEAD"
    /\ LET len  == MinOf(HeadBytes - Len(head_buf), lim - pos)
           head == head_buf \o SubSeq(stream, pos + 1, pos + len)
       IN  /\ Len(head) = HeadBytes /\ head_len(head) > 0
           /\ head_buf' = head
           /\ stale' = IF pos + len < lim THEN 1 ELSE stale
    /\ pos' = lim
    /\ pc' = "idle"
    /\ UNCHANGED <<peerVars, lim, state, pkg_buf, pkg_size, delivered, tp,
                   cut>>

\* The body stage is reached at the loop's top, with bytes left, or straight
\* after the head, with bytes left or not.
AtBody == state = "BODY" /\ (pc = "body" \/ (pc = "feed" /\ pos < lim))

\* The first bytes of the body this chunk still holds.
BodyLen == MinOf(pkg_size - Len(pkg_buf), lim - pos)
BodyNow == pkg_buf \o SubSeq(stream, pos + 1, pos + BodyLen)

\* The rest of the chunk is copied whatever the size of the body.
FeedBodyMoreOverrun ==
    /\ AtBody
    /\ Len(pkg_buf) + (lim - pos) # pkg_size
    /\ pos' = lim
    /\ pkg_buf' = pkg_buf \o SubSeq(stream, pos + 1, lim)
    /\ pc' = "feed"
    /\ UNCHANGED <<peerVars, lim, state, head_buf, pkg_size, delivered, tp,
                   cut, stale>>

\* pc__pkg_body when the package is not complete yet.
FeedBodyMore ==
    /\ AtBody
    /\ Len(pkg_buf) + BodyLen < pkg_size
    /\ pos' = pos + BodyLen
    /\ pkg_buf' = BodyNow
    /\ pc' = "feed"
    /\ UNCHANGED <<peerVars, lim, state, head_buf, pkg_size, delivered, tp,
                   cut, stale>>

\* The reset after the callback forgets head_offset.
FeedBodyDoneKeepHead ==
    /\ AtBody
    /\ Len(pkg_buf) + BodyLen = pkg_size
    /\ pos' = pos + BodyLen
    /\ delivered' = Append(delivered, [type |-> head_buf[1], body |-> BodyNow])
    /\ state' = "HEAD" /\ pkg_buf' = <<>> /\ pkg_size' = 0
    /\ pc' = "feed"
    /\ UNCHANGED <<peerVars, head_buf, lim, tp, cut, stale>>

\* pc__pkg_body when the package is complete: the callback runs, then the
\* parser is reset.
FeedBodyDone ==
    /\ AtBody
    /\ Len(pkg_buf) + BodyLen = pkg_size
    /\ pos' = pos + BodyLen
    /\ delivered' = Append(delivered, [type |-> head_buf[1], body |-> BodyNow])
    /\ ParserReset
    /\ pc' = "feed"
    /\ UNCHANGED <<peerVars, lim, tp, cut, stale>>

\* The same, and pc__pkg_cb stops the client (a bad package, or the user's
\* callback does): the transport is closed and the parser reset, but the loop
\* of pc_pkg_parser_feed goes on with what is left of the chunk.
FeedBodyStop ==
    /\ tp = "WORKING"
    /\ AtBody
    /\ Len(pkg_buf) + BodyLen = pkg_size
    /\ pos' = pos + BodyLen
    /\ delivered' = Append(delivered, [type |-> head_buf[1], body |-> BodyNow])
    /\ ParserReset
    /\ pc' = "feed"
    /\ tp' = "CLOSED"
    /\ cut' = IF pos + BodyLen < lim THEN 1 ELSE 0
    /\ UNCHANGED <<peerVars, lim, stale>>

\* The while loop is over: feed returns 0.
FeedReturn ==
    /\ pc = "feed" /\ pos = lim
    /\ pc' = "idle"
    /\ UNCHANGED <<peerVars, pos, lim, parserVars, delivered, tp, cut, stale>>

\* The stop leaves the parser as it is.
StopNoReset ==
    /\ pc = "idle" /\ tp = "WORKING"
    /\ tp' = "CLOSED"
    /\ UNCHANGED <<peerVars, pos, lim, pc, parserVars, delivered, cut, stale>>

\* pc_client_stop between two reads (end of file, timeout): reset while the
\* parser is not in use.
Stop ==
    /\ pc = "idle" /\ tp = "WORKING"
    /\ tp' = "CLOSED"
    /\ ParserReset
    /\ UNCHANGED <<peerVars, pos, lim, pc, delivered, cut, stale>>

\* A reconnect: a new transport and a new byte stream for the same parser.
Connect ==
    /\ pc = "idle" /\ tp = "CLOSED" /\ state # "CLOSED"
    /\ sent' = <<>> /\ stream' = <<>> /\ bound' = <<0>>
    /\ pos' = 0 /\ lim' = 0
    /\ delivered' = <<>>
    /\ tp' = "WORKING"
    /\ cut' = 0
    /\ stale' = IF head_buf = <<>> THEN 0 ELSE 1
    /\ UNCHANGED <<pc, parserVars>>

\* pc_pkg_parser_close, from pc__client_clear.
Close ==
    /\ pc = "idle" /\ tp = "CLOSED" /\ state # "CLOSED"
    /\ state' = "CLOSED"
    /\ pkg_buf' = <<>>
    /\ UNCHANGED <<peerVars, pos, lim, pc, head_buf, pkg_size, delivered, tp,
                   cut, stale>>

ReadSome == \E n \in 1 .. (Len(stream) - pos) : Read(n)

FeedStep ==
    \/ FeedHead
    \/ FeedHeadNoMemory
    \/ FeedHeadNoMemoryIgnored
    \/ FeedBodyMore
    \/ FeedBodyDone
    \/ FeedBodyStop
    \/ FeedReturn

Next ==
    \/ \E p \in Packages : Send(p)
    \/ ReadSome
    \/ FeedStep
    \/ Stop
    \/ Connect
    \/ Close

Spec == Init /\ [][Next]_vars

\* TCP eventually hands over what has arrived, and the worker thread does not
\* stop inside pc_pkg_parser_feed.
FairSpec == Spec /\ WF_vars(ReadSome) /\ WF_vars(FeedStep)
-----------------------------------------------------------------------------
(* Properties.                                                             *)

\* Every variable has its type.  Models pc_pkg_parser_t: the offsets never
\* run past the buffers they index.
TypeOK ==
    /\ sent \in Seq(Packages)
    /\ stream \in Seq(Byte)
    /\ bound \in Seq(Nat)
    /\ pos \in Nat /\ lim \in Nat /\ pos <= lim /\ lim <= Len(stream)
    /\ pc \in {"idle", "feed", "body"}
    /\ state \in {"HEAD", "BODY", "CLOSED"}
    /\ head_buf \in Seq(Byte) /\ Len(head_buf) <= HeadBytes
    /\ pkg_buf \in Seq(Byte)
    /\ pkg_size \in Nat
    /\ Len(pkg_buf) <= pkg_size
    /\ delivered \in Seq([type : Byte, body : Seq(Byte)])
    /\ tp \in {"WORKING", "CLOSED"} /\ cut \in {0, 1} /\ stale \in {0, 1}

\* On a connection that began at a package boundary, and of which no bytes were
\* freed unread, the packages handed to the callback are a prefix of the
\* packages the peer sent, whatever the chunks: pc_pkg_parser_feed neither
\* loses, splits, merges nor reorders.
DeliveredPrefix ==
    stale = 0 =>
        /\ Len(delivered) <= Len(sent)
        /\ \A i \in 1 .. Len(delivered) : delivered[i] = sent[i]

\* A stopped client leaves its parser at a package boundary for the next
\* connection, unless it was stopped inside a package callback while the
\* chunk still held bytes: those are parsed after the reset.
AlignedUnlessCut ==
    (tp = "CLOSED" /\ pc = "idle" /\ state # "CLOSED" /\ cut = 0)
        => head_buf = <<>>

\* Once the transport has stopped, no package read from it is handed to the
\* callback any more: transport.c:87 says such data is discarded.
NoDeliveryAfterStop ==
    [][(tp = "CLOSED" /\ tp' = "CLOSED") => delivered' = delivered]_vars

\* The parser with its byte stream implements the reliable package stream.
Stream == INSTANCE PkgStream WITH clean <- (stale = 0)

ImplementsStream == Stream!Spec

\* A package sent on a clean connection is handed to the callback unless the
\* client is stopped or a chunk is given up for lack of memory first: no
\* chunking leaves a complete package unparsed.
EventuallyDelivered ==
    \A i \in 1 .. MaxSent :
        (Len(sent) >= i /\ stale = 0)
            ~> (Len(delivered) >= i \/ tp = "CLOSED" \/ stale = 1)
=============================================================================
