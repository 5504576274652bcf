----------------------------- MODULE PkgStream -----------------------------
(***************************************************************************)
(* What the package layer of libpomelo promises to the layers above it: on *)
(* a connection that starts cleanly, the packages handed to pc_pkg_cb are  *)
(* the packages the peer sent, each once, whole and in order, however TCP  *)
(* cut the bytes into chunks.  On a connection that starts with the parser *)
(* in the middle of a package, and once bytes have been given up unread,   *)
(* nothing is promised about what is handed over.  PkgParser implements    *)
(* this specification.                                                     *)
(***************************************************************************)
EXTENDS Naturals, Sequences

CONSTANT Packages        \* the packages a peer may send

VARIABLES
    sent,                \* packages sent on the current connection
    delivered,           \* packages handed to the callback on it
    clean                \* the connection began at a package boundary and has
                         \* lost nothing since

vars == <<sent, delivered, clean>>

Init ==
    /\ sent = <<>>
    /\ delivered = <<>>
    /\ clean = TRUE

Send(p) ==
    /\ sent' = Append(sent, p)
    /\ UNCHANGED <<delivered, clean>>

Deliver ==
    /\ clean
    /\ Len(delivered) < Len(sent)
    /\ delivered' = Append(delivered, sent[Len(delivered) + 1])
    /\ UNCHANGED <<sent, clean>>

\* Out of step with the peer: some package is handed over, no matter which.
Garble ==
    /\ ~clean
    /\ Len(delivered') = Len(delivered) + 1
    /\ SubSeq(delivered', 1, Len(delivered)) = delivered
    /\ UNCHANGED <<sent, clean>>

\* Bytes are given up unread.
Lose ==
    /\ clean' = FALSE
    /\ UNCHANGED <<sent, delivered>>

Connect ==
    /\ sent' = <<>>
    /\ delivered' = <<>>
    /\ clean' \in BOOLEAN

Next ==
    \/ \E p \in Packages : Send(p)
    \/ Deliver
    \/ Garble
    \/ Lose
    \/ Connect

Spec == Init /\ [][Next]_vars
=============================================================================
