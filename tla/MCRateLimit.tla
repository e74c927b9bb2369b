---------------------------- MODULE MCRateLimit -----------------------------
(***************************************************************************)
(* Small instances of the rate limiter.                                     *)
(***************************************************************************)
EXTENDS RateLimitRefines, TLC

CONSTANTS c1, c2, c3

\* CPUs are interchangeable.
AnyCPU == Permutations(CPU)
=============================================================================
