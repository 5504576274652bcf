------------------------------ MODULE MsgCodec ------------------------------
(***************************************************************************)
(* The message layer: message.c, msg-json.c and the parse and encode       *)
(* callbacks of protocol.c.                                                *)
(*                                                                         *)
(* A message on the wire keeps the parts of its header apart: the flag     *)
(* byte, the bytes of the id, then either the two bytes of a route code or *)
(* the length byte and the route.  The body is protobuf bytes or JSON; a   *)
(* body of no bytes is [pb |-> <<>>].  A dictionary that is NULL has no    *)
(* routes, and so have definitions that are NULL.                          *)
(***************************************************************************)
EXTENDS PbCodec

CONSTANT RouteLen        \* length of every route

ASSUME MsgAssumption ==
    \A r \in DOMAIN RouteLen : RouteLen[r] \in 1 .. 254

PC_MSG_REQUEST  == 0
PC_MSG_NOTIFY   == 1
PC_MSG_RESPONSE == 2
PC_MSG_PUSH     == 3

PC_MSG_HAS_ID(type)    == type \in {PC_MSG_REQUEST, PC_MSG_RESPONSE}
PC_MSG_HAS_ROUTE(type) == type # PC_MSG_RESPONSE
PC_MSG_VALIDATE(type)  == type \in 0 .. 3

NoRoute == "no route"

\* The groups of seven bits of an id are those of a varint.
pc__msg_encode_id(id) == pb_encode_varint(id)
DecodeId(bytes) == pb_decode_varint(bytes).val

IdBytes(type, id) == IF PC_MSG_HAS_ID(type) THEN pc__msg_encode_id(id) ELSE <<>>

pc_msg_encode_route(id, type, route, body) ==
    [flag |-> 2 * type, id |-> IdBytes(type, id), code |-> <<>>,
     len |-> RouteLen[route] % 256, str |-> route, body |-> body]

pc_msg_encode_code(id, type, code, body) ==
    [flag |-> 2 * type + 1, id |-> IdBytes(type, id),
     code |-> <<(code \div 256) % 256, code % 256>>,
     len |-> 0, str |-> NoRoute, body |-> body]

\* The codes that two bytes hold.
RouteCodes == 0 .. 65535

Code(w) == 256 * w.code[1] + w.code[2]

\* The length byte of a route is read as a signed char, so one of 128 and more
\* is taken for a length that cannot be allocated.
pc_msg_decode(w) ==
    LET type == w.flag \div 2
        compress == w.flag % 2 = 1
    IN  IF \/ ~PC_MSG_VALIDATE(type)
           \/ PC_MSG_HAS_ROUTE(type) /\ ~compress /\ w.len >= 128
        THEN Fail
        ELSE [ok |-> TRUE, type |-> type,
              id |-> IF PC_MSG_HAS_ID(type) THEN DecodeId(w.id) ELSE 0,
              compressRoute |-> compress,
              route_code |-> IF compress THEN Code(w) ELSE 0,
              route_str |-> w.str, body |-> w.body]

\* The routes of a code: none, or the one code_to_route has for its low byte.
pc__resolve_dictionary(code_to_route, code) ==
    IF code % 256 \in DOMAIN code_to_route THEN {code_to_route[code % 256]}
    ELSE {}

\* A message with its id, its route and its body: the set of one object, or {}.
Message(id, route, objs) == [ok |-> TRUE, id |-> id, route |-> route, body |-> objs]

IsPb(body) == DOMAIN body = {"pb"}

Parsed(r) == IF r.ok THEN [ok |-> TRUE, objs |-> {r.val}] ELSE Fail

\* The body, read by the definition of the route, or as JSON.
ParseBody(body, protos, route) ==
    IF body = [pb |-> <<>>] THEN [ok |-> TRUE, objs |-> {}]
    ELSE IF route \in DOMAIN protos.routes
    THEN IF ~IsPb(body) THEN Fail
         ELSE Parsed(pc__pb_decode(body.pb, protos, protos.routes[route]))
    ELSE IF IsPb(body) THEN Fail
    ELSE [ok |-> TRUE, objs |-> {body.json}]

WithBody(raw, route, parsed) ==
    IF parsed.ok THEN Message(raw.id, route, parsed.objs) ELSE Fail

\* The message, once the routes it may have are known.
ParseAs(raw, routes, protos) ==
    IF routes = {} THEN Fail
    ELSE LET route == CHOOSE r \in routes : TRUE
         IN  WithBody(raw, route, ParseBody(raw.body, protos, route))

\* pc__default_msg_parse_cb.  The route of a response is that of the request
\* that waits under its id.
pc__default_msg_parse_cb(code_to_route, server_protos, requests, w) ==
    LET raw == pc_msg_decode(w)
    IN  IF ~raw.ok THEN Fail
        ELSE ParseAs(raw,
                 IF ~PC_MSG_HAS_ROUTE(raw.type)
                 THEN {q.route : q \in {q \in requests : q.id = raw.id}}
                 ELSE IF raw.compressRoute
                 THEN pc__resolve_dictionary(code_to_route, raw.route_code)
                 ELSE {raw.route_str},
                 server_protos)

\* The body, by the definition of the route or as JSON.  The error of
\* pc__pb_encode is not seen: its length is 0 and not -1.
EncodeBody(protos, route, obj) ==
    IF route \in DOMAIN protos.routes
    THEN [pb |-> pc__pb_encode(obj, protos, protos.routes[route])]
    ELSE [json |-> obj]

\* The route goes out as its code if that is positive, else as a string.
EncodeMessage(dict, id, type, route, body) ==
    IF route \in DOMAIN dict /\ dict[route] > 0
    THEN pc_msg_encode_code(id, type, dict[route], body)
    ELSE pc_msg_encode_route(id, type, route, body)

pc__default_msg_encode_cb(route_to_code, client_protos, reqId, route, obj) ==
    EncodeMessage(route_to_code, reqId,
                  IF reqId = 0 THEN PC_MSG_NOTIFY ELSE PC_MSG_REQUEST,
                  route, EncodeBody(client_protos, route, obj))
-----------------------------------------------------------------------------
(* The peer (external): it writes the same format, its buffers grow, it    *)
(* reads a route's length as a byte and knows its codes in full.           *)

PeerEncode(dict, protos, id, route, obj) ==
    LET type == IF id = 0 THEN PC_MSG_PUSH ELSE PC_MSG_RESPONSE
        body == IF route \in DOMAIN protos.routes
                THEN [pb |-> pb_encode(protos, protos.routes[route], obj).bytes]
                ELSE [json |-> obj]
    IN  IF PC_MSG_HAS_ROUTE(type) THEN EncodeMessage(dict, id, type, route, body)
        ELSE [pc_msg_encode_route(id, type, route, body) EXCEPT
                 !.len = 0, !.str = NoRoute]

PeerParse(dict, protos, w) ==
    LET id == IF w.id = <<>> THEN 0 ELSE DecodeId(w.id)
        raw == [id |-> id, body |-> w.body]
    IN  ParseAs(raw, IF w.flag % 2 = 1 THEN {r \in DOMAIN dict : dict[r] = Code(w)}
                     ELSE {w.str},
                protos)
=============================================================================
