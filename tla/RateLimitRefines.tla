-------------------------- MODULE RateLimitRefines --------------------------
(***************************************************************************)
(* RateLimit implements TokenBucket: a successful compare-and-swap, and it   *)
(* alone, is a charge.                                                      *)
(***************************************************************************)
EXTENDS RateLimit

B == INSTANCE TokenBucket WITH burst <- rl_burst, refill <- rl_refill, Turn <- Wrap

\* docs/design/28: "the timestamp is sampled after the state it measures", so that
\* a charge is never dated before the one it follows.  However many CPUs race for a
\* bucket, through retries, eviction and pointers to replaced buckets, its history
\* is that of charges one after the other; none is lost, counted twice or dated back.
ImplementsTokenBucket == B!BucketSpec
=============================================================================
