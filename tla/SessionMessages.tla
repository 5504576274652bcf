--------------------------- MODULE SessionMessages ---------------------------
(***************************************************************************)
(* What the messages of a session ensure: those of the client reach its    *)
(* peer and those of the peer the client, as far as the definitions can    *)
(* carry them.  carried_sub, known_sub and wide_sub are to Carried,        *)
(* KeysKnown and Wide what encode_sub is to pb_encode.                     *)
(***************************************************************************)
EXTENDS Session

CONSTANTS
    carried_sub(_, _, _),    \* Carried, of a message in a message
    known_sub(_, _, _),      \* KeysKnown, of a message in a message
    wide_sub(_, _, _),       \* Wide, of a message in a message
    Nested                   \* the messages that are sent and those in them: the
                             \* version, definition, object and depth of each

\* What a definition can carry of a value of one of its fields ...
CarriedValue(g, def, field, v) ==
    IF pb__get_type(field.type) THEN v
    ELSE IF ~def.has_messages THEN Obj(NoFields)
    ELSE Obj(carried_sub(g, CHOOSE d \in SubDef(g, def, field.type) : TRUE, v.obj))

\* ... under one of its keys ...
CarriedField(g, def, field, v) ==
    IF field.option # "repeated" THEN CarriedValue(g, def, field, v)
    ELSE Arr([i \in DOMAIN v.arr |-> CarriedValue(g, def, field, v.arr[i])])

\* ... if it writes anything: not for a repeated field that is no array, nor for
\* an array that is empty unless it is packed ...
Written(field, v) ==
    field.option = "repeated" => IsArr(v) /\ (Packed(field.type) \/ v.arr # <<>>)

\* ... more than the tag of a message it has no __messages for ...
Kept(def, field, v) ==
    /\ Written(field, v)
    /\ field.option = "repeated" \/ pb__get_type(field.type) \/ def.has_messages

\* ... and of an object.
Carried(g, def, obj) ==
    [k \in {k \in DOMAIN obj : Kept(def, def.fields[k], obj[k])} |->
        CarriedField(g, def, def.fields[k], obj[k])]

\* The messages in a value.
Inner(def, field, v) ==
    IF pb__get_type(field.type) \/ ~def.has_messages THEN {}
    ELSE IF field.option # "repeated" THEN {v.obj}
    ELSE IF IsArr(v) THEN {v.arr[i].obj : i \in DOMAIN v.arr}
    ELSE {}

\* Every key of the object, and of the messages in it, is defined.
KeysKnown(g, def, obj) ==
    \A k \in DOMAIN obj :
        /\ k \in DOMAIN def.fields
        /\ \A o \in Inner(def, def.fields[k], obj[k]) :
              \A d \in SubDef(g, def, def.fields[k].type) : known_sub(g, d, o)

\* An object that may take more than twice the room of its text: it, or a message
\* in it, has an array of two doubles or more, or a tag of more than two bytes.
Wide(g, def, obj) ==
    \E k \in DOMAIN obj \cap DOMAIN def.fields :
        \/ def.fields[k].tag >= 2048
        \/ def.fields[k].type = "double" /\ IsArr(obj[k]) /\ Len(obj[k].arr) > 1
        \/ \E o \in Inner(def, def.fields[k], obj[k]) :
              \E d \in SubDef(g, def, def.fields[k].type) : wide_sub(g, d, o)

\* The limit of pc_pkg_encode.
PC_PKG_MAX_BODY_BYTES == 16777216
-----------------------------------------------------------------------------
(* The messages the application and the peer may send.                     *)

\* Tags are positive and lead back to their fields; with the type in their
\* lowest bits they are ints.
DefTyped(def) ==
    /\ \A k \in DOMAIN def.fields : def.fields[k].tag \in 1 .. MaxInt \div 8 - 1
    /\ \A k, l \in DOMAIN def.fields :
          def.fields[k].tag = def.fields[l].tag => k = l

Number(v) == v = Num(v.num) /\ v.num \in Int

\* A value of a field, in a message of that version and depth.
ValueTyped(x, field, v) ==
    CASE field.type = "uInt32"  -> Number(v) /\ v.num \in 0 .. MaxInt
      [] field.type \in {"int32", "sInt32"} ->
            Number(v) /\ v.num \in -MaxInt .. MaxInt
      [] field.type \in {"float", "double"} -> Number(v)
      [] field.type = "string"  ->
            v = Str(v.str) /\ v.str \in Seq(Int) /\ Len(v.str) <= MaxInt
      [] OTHER -> x.def.has_messages =>
            LET sub == SubDef(Protos(x.version), x.def, field.type)
            IN  /\ v = Obj(v.obj) /\ sub # {}
                /\ \E y \in Nested : /\ y.version = x.version /\ y.obj = v.obj
                                     /\ y.def = CHOOSE d \in sub : TRUE
                                     /\ y.depth < x.depth

\* What is under a key that is defined.  A repeated field may be given what is
\* not an array.
FieldTyped(x, field, v) ==
    IF field.option # "repeated" THEN ValueTyped(x, field, v)
    ELSE IsArr(v) => /\ v = Arr(v.arr)
                     /\ v.arr \in Seq({v.arr[i] : i \in DOMAIN v.arr})
                     /\ Len(v.arr) <= MaxInt
                     /\ \A i \in DOMAIN v.arr : ValueTyped(x, field, v.arr[i])

\* The lengths of the values under a key are those of their text.
TextOf(v) ==
    /\ json_sub(v) = JsonLen(v) /\ json_sub(v) \in Nat
    /\ IsArr(v) => \A i \in DOMAIN v.arr : /\ json_sub(v.arr[i]) = JsonLen(v.arr[i])
                                           /\ json_sub(v.arr[i]) \in Nat

\* Messages nest finitely deep, and are not longer than a package may be.
MessageTyped(x) ==
    /\ x.depth \in Nat
    /\ IsFiniteSet(DOMAIN x.obj)
    /\ DefTyped(x.def)
    /\ \A k \in DOMAIN x.obj \cap DOMAIN x.def.fields :
          FieldTyped(x, x.def.fields[k], x.obj[k])
    /\ LET r == pb_encode(Protos(x.version), x.def, x.obj)
       IN  r.ok => Len(r.bytes) < PC_PKG_MAX_BODY_BYTES

\* A message is among them if a peer of that version has its route defined.
SentAs(m, v) ==
    m.route \in DOMAIN Protos(v).routes =>
        \E x \in Nested : /\ x.version = v /\ x.obj = m.obj
                          /\ x.def = Protos(v).routes[m.route]

\* The calls for a message in a message are those of the codec.
CallsItself(x) ==
    LET g == Protos(x.version)
        r == pb_encode(g, x.def, x.obj)
    IN  /\ encode_sub(g, x.def, x.obj) = r
        /\ r.ok => decode_sub(r.bytes, g, x.def) = pb_decode(r.bytes, g, x.def)
        /\ known_sub(g, x.def, x.obj) = KeysKnown(g, x.def, x.obj)
        /\ KeysKnown(g, x.def, x.obj) =>
              carried_sub(g, x.def, x.obj) = Carried(g, x.def, x.obj)
        /\ wide_sub(g, x.def, x.obj) = Wide(g, x.def, x.obj)
        /\ \A k \in DOMAIN x.obj : TextOf(x.obj[k])

\* The peer knows its own definitions.
ASSUME MessagesAssumption ==
    /\ \A x \in Nested : MessageTyped(x) /\ CallsItself(x)
    /\ \A p \in Peers :
          /\ \A m \in ClientMsgs \cup PeerMsgs : SentAs(m, p.version)
          /\ \A m \in PeerMsgs :
                m.route \in DOMAIN Protos(p.version).routes =>
                    KeysKnown(Protos(p.version), Protos(p.version).routes[m.route], m.obj)
-----------------------------------------------------------------------------
(* Properties.                                                             *)

InProtos(route) == route \in DOMAIN Protos(peer.version).routes
DefOf(route)    == Protos(peer.version).routes[route]

Known(m)  == InProtos(m.route) =>
                 KeysKnown(Protos(peer.version), DefOf(m.route), m.obj)

\* The body that should arrive; a body of no bytes is no body.
Body(m) ==
    IF ~InProtos(m.route) THEN {m.obj}
    ELSE {o \in {Carried(Protos(peer.version), DefOf(m.route), m.obj)} :
            \E k \in DOMAIN m.obj : Written(DefOf(m.route).fields[k], m.obj[k])}

\* message.c, protocol.c, pb-encode.c: what a client sends with the definitions
\* of its peer arrives under its route and id, with all of its body that the
\* definitions can carry, or without a body.
ClientMessageArrives ==
    last.way = "out" /\ last.sync =>
        /\ last.got.ok /\ last.got.id = last.sent.id
        /\ last.got.route = last.sent.route
        /\ last.got.body = {} \/ (Known(last.sent) /\ last.got.body = Body(last.sent))

\* "encode result, buf.len = -1 for error" (include/pomelo.h:184; so says
\* message.h:138 of pc__pb_encode): a message that cannot be encoded is refused,
\* and not sent without its body.
FailedEncodeIsNotSent ==
    last.way = "out" /\ last.sync /\ last.got.body = {} =>
        Known(last.sent) /\ Body(last.sent) = {}

\* msg-pb.c: a body is lost, silently, only if a key is not defined or if the
\* buffer of twice the length of the JSON text is too short, which takes an
\* array of doubles or a tag of more than two bytes.
EmptyBodyExplained ==
    last.way = "out" /\ last.sync /\ Known(last.sent) =>
        \/ last.got.body = Body(last.sent)
        \/ /\ InProtos(last.sent.route)
           /\ Wide(Protos(peer.version), DefOf(last.sent.route), last.sent.obj)

\* The routes the client can resolve: short ones, or codes with a low byte of
\* their own.
Resolvable(route) ==
    IF route \in DOMAIN peer.dict /\ peer.dict[route] > 0
    THEN \A r \in DOMAIN peer.dict \ {route} :
            peer.dict[r] % 256 # peer.dict[route] % 256
    ELSE RouteLen[route] < 128

\* message.c, protocol.c, pb-decode.c: pushes and answers of a peer whose
\* definitions the client has arrive as they were sent, whatever their id; an
\* answer does not even need a route that the client can resolve.
PeerMessageArrives ==
    last.way = "in" /\ last.sync /\ (last.sent.id > 0 \/ Resolvable(last.sent.route)) =>
        last.got = Message(last.sent.id, last.sent.route, Body(last.sent))
=============================================================================
