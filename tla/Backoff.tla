------------------------------- MODULE Backoff -------------------------------
(***************************************************************************)
(* How long a client waits before it connects again (src/src/client.c).  A *)
(* configuration c is what pc_client_new_with_reconnect was given: delay,  *)
(* delay_max (seconds) and exp_backoff.                                    *)
(***************************************************************************)
EXTENDS Integers, Sequences, FiniteSets

\* The arguments that are not refused.
GoodConfig(c) == c.delay > 0 /\ c.delay_max > 0

\* The timer is started with the delay in milliseconds, an int; it may be
\* almost twice delay_max.
DelayFitsInt(c) == c.delay_max <= 2147483647 \div 2000

\* The powers of e up to the greatest of those, as whole part and millionths.
Powers == << <<2, 718282>>, <<7, 389056>>, <<20, 85537>>, <<54, 598150>>,
             <<148, 413159>>, <<403, 428793>>, <<1096, 633158>>,
             <<2980, 957987>>, <<8103, 83928>>, <<22026, 465795>>,
             <<59874, 141715>>, <<162754, 791419>>, <<442413, 392009>> >>

\* delay_max / delay > p.
RatioAbove(c, p) ==
    LET q == c.delay_max \div c.delay
        r == c.delay_max % c.delay
    IN  q > p[1] \/ (q = p[1] /\ r * 1000000 > p[2] * c.delay)

\* (int)log(1.0 * delay_max / delay): as many powers of e are below the ratio.
\* Below 1 the logarithm is negative, and no count below 1 differs from 1.
IntLog(c) == Cardinality({k \in DOMAIN Powers : RatioAbove(c, Powers[k])})

\* max_reconnects_incr: the integer logarithm is what is divided by log(2.0).
max_reconnects_incr(c) ==
    IF c.exp_backoff
    THEN (IntLog(c) * 1000000) \div 693147 + 1
    ELSE c.delay_max \div c.delay + 1

\* 1 << n.
ShiftedOne[n \in Nat] == IF n = 0 THEN 1 ELSE 2 * ShiftedOne[n - 1]

\* The exponent starts at 0.
DelayFromZero(c, reconnects) ==
    LET d == IF reconnects >= max_reconnects_incr(c) THEN c.delay_max
             ELSE IF c.exp_backoff THEN c.delay * ShiftedOne[reconnects - 1]
             ELSE c.delay * (reconnects - 1)
    IN  IF d > c.delay_max THEN c.delay_max ELSE d

\* The delay before the random part is added.
BaseDelay(c, reconnects) ==
    LET d == IF reconnects >= max_reconnects_incr(c) THEN c.delay_max
             ELSE IF c.exp_backoff THEN c.delay * ShiftedOne[reconnects]
             ELSE c.delay * reconnects
    IN  IF d > c.delay_max THEN c.delay_max ELSE d

\* Up to and including twice the base.
JitteredLoosely(base) == {base, 2 * base}

\* rand() % delay + delay; the least and the greatest stand for all.
Jittered(base) == {base, 2 * base - 1}
=============================================================================
