------------------------------- MODULE Session -------------------------------
(***************************************************************************)
(* What a client knows about its peer, over many connections: the route    *)
(* dictionary, the protobuf definitions and their version, in memory and   *)
(* in the three files they are dumped to; the handshake that sets them,    *)
(* the reconnect that drops them, with its back-off; and the messages that *)
(* are encoded and parsed with them (pkg-handshake.c, client.c,            *)
(* protocol.c).  The process may end at any moment, also between two of    *)
(* the dumps, and start again with the files it left.                      *)
(*                                                                         *)
(* Definitions are named by the version they belong to.  A handler is one  *)
(* step, except that every file is written in a step of its own.           *)
(***************************************************************************)
EXTENDS Backoff, MsgCodec

CONSTANTS
    Defs,                \* the definitions of every version
    Peers,               \* servers: the version they use or NULL, and their
                         \* dictionary, empty if they have none
    Configs,             \* arguments of pc_client_new_with_reconnect
    Dirs,                \* where files are read and written
    Shipped,             \* contents the files may have at first
    ClientMsgs,          \* what pc_request (id > 0) and pc_notify are given
    PeerMsgs,            \* what the peer sends: pushes and answers
    MaxReconnects        \* attempts in a row (bound)

NULL     == 0
Versions == DOMAIN Defs
Files    == {"version", "server", "client"}
Places   == UNION {{d.read, d.write} : d \in Dirs}

ASSUME SessionAssumption ==
    /\ Versions \subseteq Nat \ {NULL}
    /\ \A p \in Peers :
          /\ p.version \in Versions \cup {NULL}
          /\ \A r \in DOMAIN p.dict : p.dict[r] \in RouteCodes
          /\ \A r, q \in DOMAIN p.dict : p.dict[r] = p.dict[q] => r = q
    /\ \A c \in Configs : /\ c.delay \in Int /\ c.delay_max \in Int
                           /\ c.exp_backoff \in BOOLEAN /\ DelayFitsInt(c)
    /\ Shipped \subseteq [Files -> Versions \cup {NULL}]
    /\ \A m \in ClientMsgs : m.id \in 0 .. MaxInt
    /\ \A m \in ClientMsgs \cup PeerMsgs : m.route \in DOMAIN RouteLen
    /\ MaxReconnects \in Nat

VARIABLES
    st,                  \* "none" (no process), "connect", "asked", "dump",
                         \* "acked", "up", "down" (the reconnect timer runs)
    cfg,                 \* reconnect_delay, reconnect_delay_max, backoff
    reconnecting, reconnects,
    base, delay,         \* of the last reconnect; delay while the timer runs
    proto_ver, client_protos, server_protos,
    route_to_code, code_to_route,
    dumps,               \* the files still to be dumped by the handshake
    dirs, files,         \* proto_read_dir, proto_write_dir and their files
    peer,                \* the server that is connected to, or will be
    requests,            \* client->requests
    last                 \* history: the last message and what arrived of it

vars == <<st, cfg, reconnecting, reconnects, base, delay, proto_ver,
          client_protos, server_protos, route_to_code, code_to_route, dumps,
          dirs, files, peer, requests, last>>

backoff == <<cfg, reconnecting, reconnects, base, delay>>
protos  == <<proto_ver, client_protos, server_protos>>
dict    == <<route_to_code, code_to_route>>
disk    == <<dirs, files>>

NoMsg == [way |-> "none"]

\* Definitions that are NULL have no routes.
NoProtos == [routes |-> <<>>, messages |-> <<>>]

Protos(v) == IF v = NULL THEN NoProtos ELSE Defs[v]

TypeOK ==
    /\ st \in {"none", "connect", "asked", "dump", "acked", "up", "down"}
    /\ cfg \in Configs /\ reconnecting \in BOOLEAN
    /\ reconnects \in 0 .. MaxReconnects
    /\ base \in 0 .. cfg.delay_max
    /\ delay \in 0 .. 2 * cfg.delay_max - 1
    /\ proto_ver \in Versions \cup {NULL}
    /\ client_protos \in Versions \cup {NULL}
    /\ server_protos \in Versions \cup {NULL}
    /\ \A r \in DOMAIN route_to_code : route_to_code[r] \in Nat
    /\ \A c \in DOMAIN code_to_route : code_to_route[c] \in DOMAIN route_to_code
    /\ dirs \in Dirs /\ files \in [Places -> [Files -> Versions \cup {NULL}]]
    /\ peer \in Peers
    /\ \A q \in requests : q.id > 0
    /\ (st = "dump") = (dumps # <<>>)

Init ==
    /\ st = "none" /\ dirs \in Dirs /\ peer \in Peers
    /\ files \in [Places -> Shipped]
    /\ cfg \in {c \in Configs : GoodConfig(c)}
    /\ reconnecting = FALSE /\ reconnects = 0 /\ base = 0 /\ delay = 0
    /\ proto_ver = NULL /\ client_protos = NULL /\ server_protos = NULL
    /\ route_to_code = <<>> /\ code_to_route = <<>>
    /\ dumps = <<>> /\ requests = {} /\ last = NoMsg
-----------------------------------------------------------------------------
(* The process.                                                            *)

\* pc_client_new_with_reconnect, then pc_proto_copy if the application has
\* the definitions of version v (v # NULL), then pc_client_connect.
Start(v) ==
    /\ st = "none"
    /\ st' = "connect"
    /\ proto_ver' = v /\ client_protos' = v /\ server_protos' = v
    /\ last' = NoMsg
    /\ UNCHANGED <<backoff, dict, dumps, disk, peer, requests>>

\* The process ends.  The file that is being written may have been truncated.
Crash ==
    /\ st # "none"
    /\ st' = "none"
    /\ reconnecting' = FALSE /\ reconnects' = 0 /\ base' = 0 /\ delay' = 0
    /\ proto_ver' = NULL /\ client_protos' = NULL /\ server_protos' = NULL
    /\ route_to_code' = <<>> /\ code_to_route' = <<>>
    /\ dumps' = <<>> /\ requests' = {} /\ last' = NoMsg
    /\ \/ UNCHANGED files
       \/ dumps # <<>> /\ files' = [files EXCEPT ![dirs.write][Head(dumps)] = NULL]
    /\ UNCHANGED <<cfg, dirs, peer>>

\* The servers are updated, or the next connection meets another one.
PeerChanges ==
    /\ st \in {"none", "down"}
    /\ peer' \in Peers
    /\ last' = NoMsg
    /\ UNCHANGED <<st, backoff, protos, dict, dumps, disk, requests>>
-----------------------------------------------------------------------------
(* Reconnecting.                                                           *)

\* pc__client_reconnect, with pc__client_reconnect_reset: the version stays.
pc__client_reconnect ==
    /\ reconnects < MaxReconnects
    /\ st' = "down"
    /\ reconnecting' = TRUE
    /\ client_protos' = NULL /\ server_protos' = NULL
    /\ route_to_code' = <<>> /\ code_to_route' = <<>>
    /\ requests' = {}
    /\ reconnects' = reconnects + 1
    /\ base' = BaseDelay(cfg, reconnects + 1)
    /\ delay' \in Jittered(BaseDelay(cfg, reconnects + 1))
    /\ UNCHANGED <<cfg, proto_ver, dumps, disk, peer>>

\* The connection is lost, or the peer refuses the handshake: pc_client_stop.
\* It does nothing while a reconnect is under way.
Lost ==
    /\ st \in {"asked", "acked", "up"} /\ ~reconnecting
    /\ pc__client_reconnect
    /\ last' = NoMsg

\* The attempt to connect fails, or a write of the handshake does: the
\* callback of the connect request ends the reconnect and stops the client.
AttemptFails ==
    /\ st \in {"connect", "asked", "acked"}
    /\ pc__client_reconnect
    /\ last' = NoMsg

\* pc__client_reconnect_timer_cb.
TimerFires ==
    /\ st = "down"
    /\ st' = "connect"
    /\ delay' = 0
    /\ last' = NoMsg
    /\ UNCHANGED <<cfg, reconnecting, reconnects, base, protos, dict, dumps,
                   disk, peer, requests>>
-----------------------------------------------------------------------------
(* The handshake.                                                          *)

\* The file of that name in the directory for reading, NULL if it cannot be
\* loaded; and the directory for writing after it has been dumped.  With
\* proto_write_dir set, the path that is written is under proto_read_dir.
pc__load_file(name) == files[dirs.read][name]
pc__dump_file(name, v) == [files EXCEPT ![dirs.write][name] = v]

\* pc__handshake_req tells the peer the version it has, from memory or file.
HandshakeReq ==
    /\ st = "connect"
    /\ st' = "asked"
    /\ proto_ver' = IF proto_ver = NULL THEN pc__load_file("version") ELSE proto_ver
    /\ last' = NoMsg
    /\ UNCHANGED <<backoff, client_protos, server_protos, dict, dumps, disk,
                   peer, requests>>

\* The maps from the low bytes of the codes back to the routes; where two codes
\* share one, the order in which jansson visits them decides.
CodeToRoute(d) ==
    LET low == {d[r] % 256 : r \in DOMAIN d}
    IN  {f \in [low -> DOMAIN d] : \A c \in low : d[f[c]] % 256 = c}

\* pc__handshake_resp sets the dictionary, if the peer has one ...
SetDict ==
    IF peer.dict = <<>> THEN UNCHANGED dict
    ELSE route_to_code' = peer.dict /\ code_to_route' \in CodeToRoute(peer.dict)

\* Only the definitions of the server are loaded.
LoadServerOnly ==
    /\ server_protos' = IF server_protos = NULL THEN pc__load_file("server")
                        ELSE server_protos
    /\ UNCHANGED client_protos

LoadMissing ==
    /\ server_protos' = IF server_protos = NULL THEN pc__load_file("server")
                        ELSE server_protos
    /\ client_protos' = IF client_protos = NULL THEN pc__load_file("client")
                        ELSE client_protos

\* ... and the definitions: none, if the peer does not use protobuf;
HandshakeNoProto ==
    /\ st = "asked" /\ peer.version = NULL
    /\ st' = "acked"
    /\ SetDict
    /\ proto_ver' = NULL /\ client_protos' = NULL /\ server_protos' = NULL
    /\ last' = NoMsg
    /\ UNCHANGED <<backoff, dumps, disk, peer, requests>>

\* the files, if the peer has sent none because it has the version it was told;
HandshakeSameVersion ==
    /\ st = "asked" /\ peer.version # NULL /\ peer.version = proto_ver
    /\ st' = "acked"
    /\ SetDict
    /\ LoadMissing
    /\ last' = NoMsg
    /\ UNCHANGED <<backoff, proto_ver, dumps, disk, peer, requests>>

\* or the ones it has sent, which are dumped; proto_ver stays what it was.
HandshakeNewProtos ==
    /\ st = "asked" /\ peer.version \notin {NULL, proto_ver}
    /\ st' = "dump"
    /\ SetDict
    /\ server_protos' = peer.version /\ client_protos' = peer.version
    /\ dumps' = <<"version", "server", "client">>
    /\ last' = NoMsg
    /\ UNCHANGED <<backoff, proto_ver, disk, peer, requests>>

\* A dump, which may fail unnoticed; after the last one the ack is written.
DumpFile ==
    /\ st = "dump"
    /\ files' \in {files, pc__dump_file(Head(dumps), peer.version)}
    /\ dumps' = Tail(dumps)
    /\ st' = IF Tail(dumps) = <<>> THEN "acked" ELSE "dump"
    /\ last' = NoMsg
    /\ UNCHANGED <<backoff, protos, dict, dirs, peer, requests>>

\* pc__handshake_ack_cb and pc__client_reconnected_cb.
AckWritten ==
    /\ st = "acked"
    /\ st' = "up"
    /\ reconnecting' = FALSE /\ reconnects' = 0 /\ base' = 0
    /\ last' = NoMsg
    /\ UNCHANGED <<cfg, delay, protos, dict, dumps, disk, peer, requests>>
-----------------------------------------------------------------------------
(* Messages.  A message is encoded, sent and parsed in one step, and not   *)
(* followed by another: parsing one leaves nothing behind for the next.    *)

\* m of pc_request or pc_notify, and what the peer makes of it.
ClientSends(m) ==
    /\ st = "up" /\ last = NoMsg
    /\ LET w == pc__default_msg_encode_cb(route_to_code, Protos(client_protos),
                                          m.id, m.route, m.obj)
       IN  last' = [way |-> "out", sync |-> client_protos = peer.version,
                    sent |-> m, got |-> PeerParse(peer.dict, Protos(peer.version), w)]
    /\ requests' = IF m.id = 0 THEN requests
                   ELSE requests \cup {[id |-> m.id, route |-> m.route]}
    /\ UNCHANGED <<st, backoff, protos, dict, dumps, disk, peer>>

\* What pc__data does with the message it has parsed, or has not.  A message
\* that cannot be parsed stops the client.
Data(sent, got) ==
    /\ last' = [way |-> "in", sync |-> server_protos = peer.version,
                sent |-> sent, got |-> got]
    /\ \/ /\ got.ok
          /\ requests' = {q \in requests : q.id # sent.id}
          /\ UNCHANGED <<st, backoff, protos, dict, dumps, disk, peer>>
       \/ /\ ~got.ok
          /\ pc__client_reconnect

\* m of the peer under an id (0 for a push), and what the client makes of it.
Receives(m, id) ==
    Data([id |-> id, route |-> m.route, obj |-> m.obj],
         pc__default_msg_parse_cb(code_to_route, Protos(server_protos), requests,
             PeerEncode(peer.dict, Protos(peer.version), id, m.route, m.obj)))

PeerPushes(m) ==
    /\ st = "up" /\ last = NoMsg
    /\ Receives(m, 0)

PeerAnswers(m) ==
    /\ st = "up"
    /\ \E q \in requests : q.route = m.route /\ Receives(m, q.id)
-----------------------------------------------------------------------------
Next ==
    \/ \E v \in Versions \cup {NULL} : Start(v)
    \/ Crash \/ PeerChanges
    \/ Lost \/ AttemptFails \/ TimerFires
    \/ HandshakeReq
    \/ HandshakeNoProto \/ HandshakeSameVersion \/ HandshakeNewProtos
    \/ DumpFile \/ AckWritten
    \/ \E m \in ClientMsgs : ClientSends(m)
    \/ \E m \in PeerMsgs : PeerPushes(m) \/ PeerAnswers(m)

Spec == Init /\ [][Next]_vars
-----------------------------------------------------------------------------
(* Properties.                                                             *)

\* The three files that are read belong together.
FilesAgree ==
    \A f \in Files : files[dirs.read][f] = files[dirs.read]["version"]

\* pkg-handshake.c: a working client encodes and parses with the definitions
\* of its peer.  Two things are excepted: files of which a dump was lost, and a
\* version in memory that is not that of the files, because newer definitions
\* were dumped since or the application brought its own.
DefinitionsInSync ==
    st = "up" /\ FilesAgree /\ proto_ver \in {NULL, pc__load_file("version")}
        => client_protos = peer.version /\ server_protos = peer.version

\* client.c: from one failed attempt to the next the base delay does not shrink,
\* also where the formula gives way to the greatest delay, at an attempt that
\* an integer logarithm chooses; it is never 0, so rand() has a modulus, and
\* the delay is less than twice the base.  (The delay itself may shrink: the
\* random part is as large as the base.)
BaseDelayGrows ==
    [][reconnects' > reconnects =>
         /\ base' >= base /\ base' <= cfg.delay_max
         /\ base' >= cfg.delay \/ base' = cfg.delay_max
         /\ delay' >= base' /\ delay' < 2 * base']_vars

\* "2, 4, 8, 16, 30, 30 seconds..." (include/pomelo.h:358-360): the delay before
\* the n-th attempt in a row.
Documented(c, n) ==
    LET d == IF c.exp_backoff THEN c.delay * ShiftedOne[n - 1] ELSE c.delay * n
    IN  IF d > c.delay_max THEN c.delay_max ELSE d

\* The reconnect timer is started with the documented delay.
DelayAsDocumented == st = "down" => delay = Documented(cfg, reconnects)
=============================================================================
