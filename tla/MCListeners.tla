---------------------------- MODULE MCListeners ----------------------------
(* The instance of Listeners that TLC checks.                              *)
EXTENDS Listeners

\* Both events share a bucket.
MCHash == [e \in Keys |-> 0]
=============================================================================
