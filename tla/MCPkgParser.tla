---------------------------- MODULE MCPkgParser ----------------------------
(***************************************************************************)
(* A small instance of PkgParser: two byte values, so that three length    *)
(* bytes count up to seven and a body of eight bytes is one too long.      *)
(***************************************************************************)
EXTENDS PkgParser

MCTypes  == {1}
MCBodies == {<<>>, <<1>>, <<0, 1, 1>>, <<0, 0, 0, 0, 0, 0, 0, 0>>}
=============================================================================
