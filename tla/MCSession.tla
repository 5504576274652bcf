----------------------------- MODULE MCSession -----------------------------
(* The instance of Session that TLC checks.                                *)
EXTENDS SessionMessages

Field(option, type, tag) == [option |-> option, type |-> type, tag |-> tag]
Def(fields) == [fields |-> fields, messages |-> <<>>, has_messages |-> FALSE]

Point == Def([x |-> Field("required", "sInt32", 1)])

\* The same keys in both versions, under other tags; in version 2 the message
\* is a global one, and the tag of b takes two bytes.  With the definitions of
\* the wrong version strings are read as packed arrays and numbers as lengths of
\* strings; no number as the size of a packed array, since an array is read by a
\* recursion as deep as its size, which TLC's stack bounds.
Chat1 == [Def([a |-> Field("required", "uInt32", 1),
               b |-> Field("repeated", "int32", 3),
               s |-> Field("optional", "string", 2),
               m |-> Field("repeated", "Point", 4),
               o |-> Field("optional", "Point", 5),
               t |-> Field("repeated", "string", 6)])
          EXCEPT !.messages = [Point |-> Point], !.has_messages = TRUE]
Chat2 == [Def([a |-> Field("required", "uInt32", 2),
               b |-> Field("repeated", "int32", 16),
               s |-> Field("optional", "string", 1),
               m |-> Field("repeated", "Point", 5),
               o |-> Field("optional", "Point", 4),
               t |-> Field("repeated", "string", 3)])
          EXCEPT !.has_messages = TRUE]

\* No __messages: p cannot be carried.
Move(tag) == Def([d |-> Field("repeated", "double", tag),
                  f |-> Field("optional", "float", tag + 1),
                  p |-> Field("optional", "Point", tag + 2),
                  g |-> Field("optional", "double", 2047)])

MCDefs ==
    <<[routes |-> [chat |-> Chat1, move |-> Move(1)], messages |-> <<>>],
      [routes |-> [chat |-> Chat2, move |-> Move(3)],
       messages |-> [Point |-> Point]]>>

MCRouteLen == [chat |-> 4, move |-> 4, zero |-> 4, edge |-> 127, long |-> 128]

\* In the second dictionary two codes have the same low byte.
MCPeers ==
    {[version |-> 1, dict |-> [chat |-> 1, move |-> 258, zero |-> 0]],
     [version |-> 2, dict |-> [chat |-> 1, move |-> 257, zero |-> 2]],
     [version |-> NULL, dict |-> <<>>]}

MCConfigs ==
    {[delay |-> 2, delay_max |-> 5, exp_backoff |-> FALSE],
     [delay |-> 2, delay_max |-> 30, exp_backoff |-> TRUE],
     [delay |-> 1, delay_max |-> 300, exp_backoff |-> TRUE],
     [delay |-> 5, delay_max |-> 3, exp_backoff |-> TRUE],
     [delay |-> 0, delay_max |-> 3, exp_backoff |-> FALSE]}

\* The example of include/pomelo.h:358.
MCDocumented == {[delay |-> 2, delay_max |-> 30, exp_backoff |-> TRUE]}

\* Files are read where they are written; or only proto_read_dir is set.
MCDirs ==
    {[read |-> "cwd", write |-> "cwd"], [read |-> "dir", write |-> "cwd"]}

MCShipped == {[f \in Files |-> NULL], [f \in Files |-> 1]}

N(S) == Arr([i \in DOMAIN S |-> Num(S[i])])
X(n) == Obj([x |-> Num(n)])

ChatBodies ==
    {[a |-> Num(0)],
     [a |-> Num(130), b |-> N(<<-1, 0, 64, -65>>)],
     [s |-> Str(<<104, 105>>), t |-> Arr(<<Str(<<>>), Str(<<65>>)>>)],
     [m |-> Arr(<<X(-3), X(100)>>), o |-> X(-64)],
     [b |-> N(<<>>), t |-> N(<<>>), m |-> N(<<>>)],
     [t |-> N(<<>>)]}

MoveBodies ==
    {[d |-> N(<<1, 2, 3>>), f |-> Num(7)], [f |-> Num(1), p |-> X(1)],
     [p |-> X(1)], [g |-> Num(1), f |-> Num(2)]}

\* A key nobody defines, at both depths; no array; an array of doubles that
\* does not fit.
OddBodies ==
    {[route |-> "chat", obj |-> [z |-> Num(1)]],
     [route |-> "chat", obj |-> [m |-> Arr(<<Obj([y |-> Num(1)])>>)]],
     [route |-> "chat", obj |-> [t |-> Num(1), a |-> Num(2)]],
     [route |-> "move", obj |-> [d |-> N(<<1, 2, 3, 4>>)]]}

Good ==
    {[route |-> "chat", obj |-> b] : b \in ChatBodies}
        \cup {[route |-> "move", obj |-> b] : b \in MoveBodies}
        \cup {[route |-> r, obj |-> [a |-> Num(1)]] : r \in {"zero", "edge", "long"}}

MCClientMsgs ==
    {[id |-> 0, route |-> m.route, obj |-> m.obj] : m \in Good \cup OddBodies}
        \cup {[id |-> i, route |-> "chat", obj |-> [a |-> Num(1)]] : i \in {1, 127, 128}}
        \cup {[id |-> 16384, route |-> r, obj |-> [a |-> Num(1)]] : r \in {"zero", "long"}}

MCPeerMsgs == Good

\* The points, in all versions, and the messages they are in.
MCNested ==
    {[version |-> v, def |-> Point, obj |-> o, depth |-> 0] :
        v \in DOMAIN MCDefs,
        o \in {X(n).obj : n \in {-3, 100, -64, 1}} \cup {[y |-> Num(1)]}}
    \cup UNION {{[version |-> v, def |-> MCDefs[v].routes[m.route],
                  obj |-> m.obj, depth |-> 1] :
                    m \in {m \in Good \cup OddBodies :
                             m.route \in DOMAIN MCDefs[v].routes}}
                : v \in DOMAIN MCDefs}
    \cup {[version |-> v, def |-> MCDefs[v].routes["chat"],
           obj |-> [a |-> Num(1)], depth |-> 0] : v \in DOMAIN MCDefs}

\* The recursion, closed: the calls for a message in a message are those of the
\* codec. (TLC's coverage statistics would unfold them without end, but do not
\* look into a LET.)
MCEncode(g, def, obj)  == LET r == pb_encode(g, def, obj) IN r
MCDecode(bs, g, def)   == LET r == pb_decode(bs, g, def) IN r
MCJsonLen(v)           == LET n == JsonLen(v) IN n
MCCarried(g, def, obj) == LET o == Carried(g, def, obj) IN o
MCKnown(g, def, obj)   == LET b == KeysKnown(g, def, obj) IN b
MCWide(g, def, obj)    == LET b == Wide(g, def, obj) IN b
=============================================================================
