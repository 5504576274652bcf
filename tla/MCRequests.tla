----------------------------- MODULE MCRequests -----------------------------
(* The instance of Requests that TLC checks.                               *)
EXTENDS Requests

\* With two buckets, the ids 0, 1 and 3 share one.
MCHash == [i \in Ids |-> IF i = 2 THEN 1 ELSE 0]
=============================================================================
