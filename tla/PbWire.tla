------------------------------- MODULE PbWire -------------------------------
(***************************************************************************)
(* What the protobuf codec and the message header are made of: varints,    *)
(* fixed-width numbers, strings and the tags of fields, as pb-encode.c     *)
(* writes and pb-decode.c reads them.                                      *)
(*                                                                         *)
(* A stream is the sequence of its bytes.  A write gives the bytes it      *)
(* appends; a read gives its value and the rest of the stream.             *)
(***************************************************************************)
EXTENDS Integers, Sequences

MaxInt == 2147483647

Fail == [ok |-> FALSE]
Ok(b) == [ok |-> TRUE, bytes |-> b]

Varints == {"uInt32", "int32", "sInt32"}

\* The types pb__get_type knows; any other names a message.
pb__get_type(type) == type \in Varints \cup {"float", "double", "string"}

\* Repeated fields of these types are packed.
Packed(type) == pb__get_type(type) /\ type # "string"

pb__get_constant_type(type) ==
    IF type \in Varints THEN 0
    ELSE IF type = "double" THEN 1
    ELSE IF type = "float" THEN 5
    ELSE 2
-----------------------------------------------------------------------------
(* Writing.                                                                *)

\* Seven bits to a byte, the low ones first; all bytes but the last have the
\* eighth bit set.
VarintOf[value \in Nat] ==
    IF value < 128 THEN <<value>>
    ELSE <<(value % 128) + 128>> \o VarintOf[value \div 128]

pb_encode_varint(value) == VarintOf[value]

\* Negative numbers are not complemented.
SvarintUncomplemented(value) ==
    pb_encode_varint(IF value < 0 THEN -2 * value ELSE 2 * value)

\* ~(value << 1) of a negative number is -2 * value - 1.
pb_encode_svarint(value) ==
    pb_encode_varint(IF value < 0 THEN -2 * value - 1 ELSE 2 * value)

\* The bytes of a float or a double are copied; which they are is immaterial.
pb_encode_fixed(value, width) ==
    [i \in 1 .. width |-> IF i = 1 THEN value ELSE 0]

pb_encode_string(s) == pb_encode_varint(Len(s)) \o s

pb_encode_tag_for_field(field) ==
    Ok(pb_encode_varint(pb__get_constant_type(field.type) + 8 * field.tag))
-----------------------------------------------------------------------------
(* Reading.                                                                *)

Read(v, rest) == [ok |-> TRUE, val |-> v, rest |-> rest]
ReadFails(rest) == [ok |-> FALSE, rest |-> rest]

\* What follows a read that succeeds is given its value and the rest.
With(r, F(_, _)) == IF r.ok THEN F(r.val, r.rest) ELSE r

\* The stream after its first n bytes.
After(s, n) == SubSeq(s, n + 1, Len(s))

\* The first count bytes.
pb_read(s, count) ==
    IF Len(s) < count THEN ReadFails(s)
    ELSE Read(SubSeq(s, 1, count), After(s, count))

\* The groups of seven bits from the one after the n-th on, ten at most.
VarintFrom(s) ==
    LET from[n \in 0 .. 10] ==
          IF n = 10 \/ n >= Len(s) THEN ReadFails(After(s, n))
          ELSE IF s[n + 1] < 128 THEN Read(s[n + 1], After(s, n + 1))
          ELSE With(from[n + 1], LAMBDA more, rest :
                    Read((s[n + 1] % 128) + 128 * more, rest))
    IN  from

pb_decode_varint(s) == VarintFrom(s)[0]

pb_decode_svarint(s) ==
    With(pb_decode_varint(s), LAMBDA v, rest :
         Read(IF v % 2 = 1 THEN -((v + 1) \div 2) ELSE v \div 2, rest))

pb_decode_string(s) ==
    With(pb_decode_varint(s), LAMBDA size, rest : pb_read(rest, size))

\* The number of the next field.  A zero ends the message, and so does a tag that
\* is cut off by the end.
pb_decode_tag(s) ==
    LET t == pb_decode_varint(s)
    IN  IF t.ok /\ t.val # 0 THEN Read(t.val \div 8, t.rest)
        ELSE [ok |-> FALSE, eof |-> t.ok \/ t.rest = <<>>, rest |-> t.rest]
=============================================================================
