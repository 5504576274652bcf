------------------------------- MODULE PbCodec -------------------------------
(***************************************************************************)
(* The protobuf codec: pb-encode.c, pb-decode.c, pb-util.c, msg-pb.c.      *)
(*                                                                         *)
(* A message definition has `fields`, by key, with the option, type and    *)
(* tag of each, and `messages`, its own __messages (has_messages says      *)
(* whether there is such an object).  The definitions of a side, gprotos,  *)
(* have `routes` and `messages`, the latter for its entries "message X".   *)
(* __tags is the inverse of the tags of the fields.                        *)
(*                                                                         *)
(* pb_encode and pb_decode call themselves for a message in a message.     *)
(* These calls are the parameters encode_sub and decode_sub, to which a    *)
(* configuration gives pb_encode and pb_decode; so no operator here is     *)
(* recursive, and the proofs take the two equations as a hypothesis.       *)
(***************************************************************************)
EXTENDS PbWire, JsonText

CONSTANTS
    encode_sub(_, _, _),     \* pb_encode, of a message in a message
    decode_sub(_, _, _)      \* pb_decode, of a message in a message

PC_PB_EVAL_FACTOR == 2

\* The definition of a message type: the message's own, then the global one.
SubDef(gprotos, def, type) ==
    IF type \in DOMAIN def.messages THEN {def.messages[type]}
    ELSE IF type \in DOMAIN gprotos.messages THEN {gprotos.messages[type]}
    ELSE {}
-----------------------------------------------------------------------------
(* Encoding.  The streams only ever append, so a bounded stream refuses a  *)
(* message exactly if all of it is longer than the bound: pc_pb_encode     *)
(* compares the lengths once.                                              *)

\* The first n of the sequences, one after the other.
Joined(ss) ==
    LET upto[n \in 0 .. Len(ss)] == IF n = 0 THEN <<>> ELSE upto[n - 1] \o ss[n]
    IN  upto

\* Two writes in order, if both succeed ...
Then(a, b) == IF a.ok /\ b.ok THEN Ok(a.bytes \o b.bytes) ELSE Fail

\* ... and any number of them.
All(rs) ==
    IF \A i \in DOMAIN rs : rs[i].ok
    THEN Ok(Joined([i \in DOMAIN rs |-> rs[i].bytes])[Len(rs)])
    ELSE Fail

\* The length of a message, then the message.
Prefixed(sub) ==
    IF sub.ok THEN Ok(pb_encode_string(sub.bytes)) ELSE Fail

pb_encode_submessage(gprotos, def, value) ==
    Prefixed(encode_sub(gprotos, def, value.obj))

\* One value.  A message type is written only under a definition that has
\* __messages; without it nothing follows the tag.
pb_encode_proto(gprotos, def, field, value) ==
    CASE field.type = "uInt32"           -> Ok(pb_encode_varint(value.num))
      [] field.type \in {"int32", "sInt32"} -> Ok(pb_encode_svarint(value.num))
      [] field.type = "float"            -> Ok(pb_encode_fixed(value.num, 4))
      [] field.type = "double"           -> Ok(pb_encode_fixed(value.num, 8))
      [] field.type = "string"           -> Ok(pb_encode_string(value.str))
      [] OTHER ->
           LET sub == SubDef(gprotos, def, field.type)
           IN  IF ~def.has_messages THEN Ok(<<>>)
               ELSE IF sub = {} THEN Fail
               ELSE pb_encode_submessage(gprotos, CHOOSE d \in sub : TRUE, value)

EncodeElement(gprotos, def, field, value) ==
    IF Packed(field.type) THEN pb_encode_proto(gprotos, def, field, value)
    ELSE Then(pb_encode_tag_for_field(field),
              pb_encode_proto(gprotos, def, field, value))

EncodeElements(gprotos, def, field, array) ==
    All([i \in DOMAIN array |-> EncodeElement(gprotos, def, field, array[i])])

\* Numbers: tag, how many, all of them; the rest: a tag before each.
pb_encode_array(gprotos, def, field, array) ==
    IF Packed(field.type)
    THEN Then(Then(pb_encode_tag_for_field(field),
                   Ok(pb_encode_varint(Len(array)))),
              EncodeElements(gprotos, def, field, array))
    ELSE EncodeElements(gprotos, def, field, array)

\* What one key adds.  A repeated field that is given no array is left out; a
\* key that the definition does not know makes the message fail.
EncodeField(gprotos, def, key, value) ==
    IF key \notin DOMAIN def.fields THEN Fail
    ELSE LET field == def.fields[key]
         IN  IF field.option # "repeated"
             THEN Then(pb_encode_tag_for_field(field),
                       pb_encode_proto(gprotos, def, field, value))
             ELSE IF IsArr(value)
             THEN pb_encode_array(gprotos, def, field, value.arr)
             ELSE Ok(<<>>)

pb_encode(gprotos, def, obj) ==
    LET keys == Visited(DOMAIN obj)
    IN  All([i \in DOMAIN keys |->
               EncodeField(gprotos, def, keys[i], obj[keys[i]])])

\* pb_write refuses what does not fit.
Bounded(max_size, all) == IF all.ok /\ Len(all.bytes) <= max_size THEN all ELSE Fail

pc_pb_encode(max_size, gprotos, def, obj) ==
    Bounded(max_size, pb_encode(gprotos, def, obj))
-----------------------------------------------------------------------------
(* Decoding.                                                               *)

\* The submessage is read from a substream of the given length.  The stream
\* goes on where the substream has stopped.
pb_decode_submessage(s, gprotos, def) ==
    With(pb_decode_varint(s), LAMBDA size, rest :
         IF Len(rest) < size THEN ReadFails(rest)
         ELSE With(decode_sub(SubSeq(rest, 1, size), gprotos, def),
                   LAMBDA obj, left :
                   Read(Obj(obj), SubSeq(rest, size - Len(left) + 1,
                                         Len(rest) - Len(left)))))

\* A read as a sequence of one JSON value.
Value(r, F(_)) == With(r, LAMBDA v, rest : Read(<<F(v)>>, rest))

pb_decode_fixed(s, width) == Value(pb_read(s, width), LAMBDA b : Num(b[1]))

\* One value, or none if the definition has no __messages.
pb_decode_proto(s, gprotos, def, field) ==
    CASE field.type = "uInt32"           -> Value(pb_decode_varint(s), Num)
      [] field.type \in {"int32", "sInt32"} -> Value(pb_decode_svarint(s), Num)
      [] field.type = "float"            -> pb_decode_fixed(s, 4)
      [] field.type = "double"           -> pb_decode_fixed(s, 8)
      [] field.type = "string"           -> Value(pb_decode_string(s), Str)
      [] OTHER ->
           LET sub == SubDef(gprotos, def, field.type)
           IN  IF ~def.has_messages THEN Read(<<>>, s)
               ELSE IF sub = {} THEN ReadFails(s)
               ELSE Value(pb_decode_submessage(s, gprotos,
                              CHOOSE d \in sub : TRUE), LAMBDA o : o)

\* The elements after those of the array, by how many have been read.
Elements(s, gprotos, def, field, size, array) ==
    LET read[n \in 0 .. size] ==
          IF n = 0 THEN Read(array, s)
          ELSE With(read[n - 1], LAMBDA a, rest :
                    With(pb_decode_proto(rest, gprotos, def, field),
                         LAMBDA v, more : Read(a \o v, more)))
    IN  read

DecodeElements(s, gprotos, def, field, size, array) ==
    Elements(s, gprotos, def, field, size, array)[size]

\* The array that the key has so far; a new one starts empty.
ArrayAt(result, key) == IF key \in DOMAIN result THEN result[key].arr ELSE <<>>

\* Every element starts a new array.
DecodeArrayAnew(s, gprotos, def, key, result) ==
    LET field == def.fields[key]
    IN  IF Packed(field.type)
        THEN With(pb_decode_varint(s), LAMBDA size, rest :
                  DecodeElements(rest, gprotos, def, field, size, <<>>))
        ELSE pb_decode_proto(s, gprotos, def, field)

\* The array after what follows the tag of a repeated field: all elements of a
\* packed one, else one element; a message without __messages is {}.
pb_decode_array(s, gprotos, def, key, result) ==
    LET field == def.fields[key]
        array == ArrayAt(result, key)
    IN  IF Packed(field.type)
        THEN With(pb_decode_varint(s), LAMBDA size, rest :
                  DecodeElements(rest, gprotos, def, field, size, array))
        ELSE With(pb_decode_proto(s, gprotos, def, field), LAMBDA v, rest :
                  Read(array \o (IF v = <<>> THEN <<Obj(NoFields)>> ELSE v), rest))

Set(result, key, value) ==
    [k \in DOMAIN result \cup {key} |-> IF k = key THEN value ELSE result[k]]

\* A value of a single field, set under its key if there is one.
DecodeSingle(s, gprotos, def, key, result) ==
    With(pb_decode_proto(s, gprotos, def, def.fields[key]), LAMBDA v, rest :
         Read(IF v = <<>> THEN result ELSE Set(result, key, v[1]), rest))

DecodeRepeated(s, gprotos, def, key, result) ==
    With(pb_decode_array(s, gprotos, def, key, result), LAMBDA array, rest :
         Read(Set(result, key, Arr(array)), rest))

DecodeField(s, gprotos, def, key, result) ==
    IF def.fields[key].option = "repeated"
    THEN DecodeRepeated(s, gprotos, def, key, result)
    ELSE DecodeSingle(s, gprotos, def, key, result)

\* The loop over the fields goes on while the stream has bytes, and ends.
GoOn(r) == [read |-> r, more |-> r.ok /\ r.rest # <<>>]
End(r)  == [read |-> r, more |-> FALSE]

\* One field; one that nobody defines is an error.
DecodeNext(turn, gprotos, def) ==
    IF ~turn.more THEN turn
    ELSE LET obj == turn.read.val
             t == pb_decode_tag(turn.read.rest)
             names == {k \in DOMAIN def.fields : def.fields[k].tag = t.val}
         IN  IF ~t.ok THEN End(IF t.eof THEN Read(obj, t.rest) ELSE t)
             ELSE IF names = {} THEN End(ReadFails(t.rest))
             ELSE GoOn(DecodeField(t.rest, gprotos, def,
                                   CHOOSE k \in names : TRUE, obj))

\* The turns of the loop: each takes one byte at least.
Turns(s, gprotos, def) ==
    LET turn[n \in 0 .. Len(s)] ==
          IF n = 0 THEN GoOn(Read(NoFields, s))
          ELSE DecodeNext(turn[n - 1], gprotos, def)
    IN  turn

pb_decode(s, gprotos, def) == Turns(s, gprotos, def)[Len(s)].read
-----------------------------------------------------------------------------
(* msg-pb.c.  The buffer is sized by the length of the JSON text.          *)

BytesOf(r) == IF r.ok THEN r.bytes ELSE <<>>

\* pc__pb_encode.  A message that cannot be encoded leaves the length at 0.
pc__pb_encode(obj, gprotos, def) ==
    BytesOf(pc_pb_encode(JsonLen(Obj(obj)) * PC_PB_EVAL_FACTOR, gprotos, def, obj))

pc__pb_decode(bytes, gprotos, def) == pb_decode(bytes, gprotos, def)
=============================================================================
