---------------------------- MODULE TokenBucket -----------------------------
(***************************************************************************)
(* What the rate limiter promises: buckets that are charged one packet at a  *)
(* time, each at a moment not before the last, with what was earned between. *)
(* No CPUs, no compare-and-swap, no 32-bit clock.                           *)
(***************************************************************************)
EXTENDS Integers

CONSTANTS
    Element,     \* buckets there is memory for
    One,         \* a packet's worth
    burst,       \* what a bucket holds at most
    refill,      \* earned per tick
    Turn         \* after that many ticks the clock of the code is at the same value

VARIABLES
    time,
    bucket       \* element -> [ts, tokens]

bucket_vars == <<time, bucket>>

Capped(n) == IF n < burst THEN n ELSE burst

\* What a bucket can hold at a later moment: what it earned, exactly, as long as
\* the clock has not gone round; anything up to the burst when it has.
Balance(b, now) ==
    IF now \div Turn = b.ts \div Turn THEN {Capped(b.tokens + refill * (now - b.ts))}
    ELSE b.tokens .. burst

\* A packet is charged to the bucket as it is, at a moment since the last charge.
Charge(e) ==
    \E now \in bucket[e].ts .. time : \E held \in Balance(bucket[e], now) :
        /\ held >= One
        /\ bucket' = [bucket EXCEPT ![e] = [ts |-> now, tokens |-> held - One]]
        /\ UNCHANGED time

\* A source gets a bucket, full but for its first packet; another may lose its own.
Open(e) ==
    \E now \in 0 .. time :
        /\ bucket' = [bucket EXCEPT ![e] = [ts |-> now, tokens |-> burst - One]]
        /\ UNCHANGED time

Pass == time' = time + 1 /\ UNCHANGED bucket

BucketInit == time = 0 /\ bucket = [e \in Element |-> [ts |-> 0, tokens |-> 0]]

BucketNext == Pass \/ \E e \in Element : Charge(e) \/ Open(e)

BucketSpec == BucketInit /\ [][BucketNext]_bucket_vars
=============================================================================
