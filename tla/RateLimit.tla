----------------------------- MODULE RateLimit ------------------------------
(***************************************************************************)
(* The rate limiter of the datapath, bpf/ratelimit.c: one token bucket per  *)
(* source, packed in one word of an LRU hash map and updated by            *)
(* compare-and-swap from every CPU that receives a packet of that source.   *)
(*                                                                         *)
(* Each access to shared memory and each reading of the clock is a step of  *)
(* its own.  The map is the kernel's (external): an element found by a      *)
(* lookup may be taken for another key while its pointer is still in use.   *)
(*                                                                         *)
(* Time is the full tick count; the code sees it modulo Wrap (2^32), and    *)
(* Word is the part of a bucket it can compare.                             *)
(***************************************************************************)
EXTENDS Integers, FiniteSets

CONSTANTS
    CPU, Source, Element,
    NoElement,        \* no bucket: a lookup that missed
    One,              \* MARLIN_RL_ONE_TOKEN
    rl_burst,         \* capacity of a bucket, scaled
    rl_refill,        \* scaled tokens per tick
    RL_CAS_RETRIES,   \* attempts of the compare-and-swap
    Wrap,             \* 2^32 ticks: about 52 days
    MaxTime,          \* bound: ticks in a behaviour
    MaxPackets        \* bound: packets in a behaviour

ASSUME RateLimitAssumption ==
    /\ One \in Nat \ {0} /\ rl_refill \in Nat
    /\ rl_burst \in Nat /\ rl_burst >= One          \* conf_check(): at least one packet
    /\ RL_CAS_RETRIES \in Nat \ {0} /\ Wrap \in Nat \ {0}
    /\ MaxTime \in Nat /\ MaxPackets \in Nat
    /\ NoElement \notin Element

VARIABLES
    time,        \* ticks since boot
    bucket_of,   \* source -> element of the map, or NoElement
    bucket,      \* element -> [ts, tokens]: struct rl_bucket, ts in full
    cpu,         \* cpu -> the locals of marlin_ratelimit()
    packets,     \* packets so far
    account,     \* history: element -> [born, spent] of its present bucket
    exhausted,   \* history: cpu -> packets admitted because the retries ran out
    others       \* history: cpu -> buckets written by other CPUs

vars == <<time, bucket_of, bucket, cpu, packets, account, exhausted, others>>

\* What one compare-and-swap compares.
Word(b) == <<b.ts % Wrap, b.tokens>>

Least(m, n) == IF m < n THEN m ELSE n

\* Mutated form of Refill: a negative elapsed time refills nothing.
RefillClamped(ts, now) ==
    LET elapsed == (now % Wrap) - (ts % Wrap)
    IN IF elapsed < 0 THEN 0 ELSE Least(elapsed * rl_refill, rl_burst)

\* rl_spend(): the refill since ts; a clock that went round fills the bucket.
Refill(ts, now) ==
    LET elapsed == (now % Wrap) - (ts % Wrap)
    IN IF elapsed < 0 THEN rl_burst ELSE Least(elapsed * rl_refill, rl_burst)

Tokens(b, now) == Least(b.tokens + Refill(b.ts, now), rl_burst)

\* Mutated form of Spend: the tokens left are not capped at the burst.
SpendUncapped(b, now) == [ts |-> now, tokens |-> b.tokens + Refill(b.ts, now) - One]

\* rl_spend(): the bucket after a packet.
Spend(b, now) == [ts |-> now, tokens |-> Tokens(b, now) - One]

Idle == [pc |-> "idle"]

\* Done with the packet.
Return(c) == cpu' = [cpu EXCEPT ![c] = Idle]

\* A write by c, seen from the other CPUs.
WrittenBy(c) == others' = [d \in CPU |-> IF d = c THEN others[d] ELSE others[d] + 1]

(***************************************************************************)
(* marlin_ratelimit().                                                      *)
(***************************************************************************)

\* A metered packet of source s arrives: bpf_map_lookup_elem().
Lookup(c, s) ==
    /\ cpu[c].pc = "idle"
    /\ packets < MaxPackets
    /\ packets' = packets + 1
    /\ cpu' = [cpu EXCEPT ![c] =
                  IF bucket_of[s] = NoElement
                  THEN [pc |-> "miss", src |-> s]
                  ELSE [pc |-> "load", ptr |-> bucket_of[s]]]
    /\ UNCHANGED <<time, bucket_of, bucket, account, exhausted, others>>

\* A miss reads the clock and spends from a full bucket ...
Fresh(c) ==
    /\ cpu[c].pc = "miss"
    /\ cpu' = [cpu EXCEPT ![c] = [pc |-> "insert", src |-> cpu[c].src,
                                  fresh |-> Spend([ts |-> time, tokens |-> rl_burst], time)]]
    /\ UNCHANGED <<time, bucket_of, bucket, packets, account, exhausted, others>>

\* ... and stores it under the source, whatever is there by now.  The element
\* may be one that another source's bucket is evicted from.
Insert(c) ==
    /\ cpu[c].pc = "insert"
    /\ \E e \in Element :
          /\ bucket' = [bucket EXCEPT ![e] = cpu[c].fresh]
          /\ bucket_of' = [s \in Source |-> IF s = cpu[c].src THEN e
                                            ELSE IF bucket_of[s] = e THEN NoElement
                                            ELSE bucket_of[s]]
          /\ account' = [account EXCEPT ![e] = [born |-> cpu[c].fresh.ts, spent |-> 1]]
    /\ WrittenBy(c)
    /\ Return(c)
    /\ UNCHANGED <<time, packets, exhausted>>

\* bpf_map_update_elem() fails: the packet is admitted all the same.
InsertFails(c) ==
    /\ cpu[c].pc = "insert"
    /\ Return(c)
    /\ UNCHANGED <<time, bucket_of, bucket, packets, account, exhausted, others>>

\* READ_ONCE(bucket->state).
Load(c) ==
    /\ cpu[c].pc = "load"
    /\ cpu' = [cpu EXCEPT ![c] = [pc |-> "clock", ptr |-> cpu[c].ptr,
                                  old |-> bucket[cpu[c].ptr], retry |-> 0]]
    /\ UNCHANGED <<time, bucket_of, bucket, packets, account, exhausted, others>>

\* The clock is read after the state it is compared with.
Clock(c) ==
    /\ cpu[c].pc = "clock"
    /\ cpu' = [cpu EXCEPT ![c] = [pc |-> "cas", ptr |-> cpu[c].ptr,
                                  old |-> cpu[c].old, retry |-> cpu[c].retry, now |-> time]]
    /\ UNCHANGED <<time, bucket_of, bucket, packets, account, exhausted, others>>

Affordable(c) == Tokens(cpu[c].old, cpu[c].now) >= One

Unchanged(c) == Word(bucket[cpu[c].ptr]) = Word(cpu[c].old)

\* Over the rate: dropped, the bucket left alone.
Drop(c) ==
    /\ cpu[c].pc = "cas"
    /\ ~Affordable(c)
    /\ Return(c)
    /\ UNCHANGED <<time, bucket_of, bucket, packets, account, exhausted, others>>

\* The compare-and-swap succeeds: admitted.
Win(c) ==
    /\ cpu[c].pc = "cas"
    /\ Affordable(c)
    /\ Unchanged(c)
    /\ bucket' = [bucket EXCEPT ![cpu[c].ptr] = Spend(cpu[c].old, cpu[c].now)]
    /\ account' = [account EXCEPT ![cpu[c].ptr].spent = @ + 1]
    /\ WrittenBy(c)
    /\ Return(c)
    /\ UNCHANGED <<time, bucket_of, packets, exhausted>>

\* Mutated form of LoseRetry: the time of the first attempt is used again.
LoseRetryStaleClock(c) ==
    /\ cpu[c].pc = "cas"
    /\ Affordable(c)
    /\ ~Unchanged(c)
    /\ cpu[c].retry + 1 < RL_CAS_RETRIES
    /\ cpu' = [cpu EXCEPT ![c].old = bucket[cpu[c].ptr], ![c].retry = @ + 1]
    /\ UNCHANGED <<time, bucket_of, bucket, packets, account, exhausted, others>>

\* It fails: go on from the value found there, with a new reading of the clock.
LoseRetry(c) ==
    /\ cpu[c].pc = "cas"
    /\ Affordable(c)
    /\ ~Unchanged(c)
    /\ cpu[c].retry + 1 < RL_CAS_RETRIES
    /\ cpu' = [cpu EXCEPT ![c] = [pc |-> "clock", ptr |-> cpu[c].ptr,
                                  old |-> bucket[cpu[c].ptr], retry |-> cpu[c].retry + 1]]
    /\ UNCHANGED <<time, bucket_of, bucket, packets, account, exhausted, others>>

\* Mutated form of LoseLast: one attempt only.
LoseFirst(c) ==
    /\ cpu[c].pc = "cas"
    /\ Affordable(c)
    /\ ~Unchanged(c)
    /\ exhausted' = [exhausted EXCEPT ![c] = @ + 1]
    /\ Return(c)
    /\ UNCHANGED <<time, bucket_of, bucket, packets, account, others>>

\* It fails for the last time: admitted, and counted as rl_cas_exhausted.
LoseLast(c) ==
    /\ cpu[c].pc = "cas"
    /\ Affordable(c)
    /\ ~Unchanged(c)
    /\ cpu[c].retry + 1 >= RL_CAS_RETRIES
    /\ exhausted' = [exhausted EXCEPT ![c] = @ + 1]
    /\ Return(c)
    /\ UNCHANGED <<time, bucket_of, bucket, packets, account, others>>

\* The clock ticks.  A packet takes far less than a tick, so that none is under
\* way when the state it loaded is exactly one turn of the clock old (a new bucket
\* could then pass for the one it loaded).
Tick ==
    /\ time < MaxTime
    /\ \A c \in CPU : cpu[c].pc \in {"clock", "cas"} => time + 1 - cpu[c].old.ts < Wrap
    /\ time' = time + 1
    /\ UNCHANGED <<bucket_of, bucket, cpu, packets, account, exhausted, others>>

Init ==
    /\ time = 0
    /\ bucket_of = [s \in Source |-> NoElement]
    /\ bucket = [e \in Element |-> [ts |-> 0, tokens |-> 0]]
    /\ cpu = [c \in CPU |-> Idle]
    /\ packets = 0
    /\ account = [e \in Element |-> [born |-> 0, spent |-> 0]]
    /\ exhausted = [c \in CPU |-> 0]
    /\ others = [c \in CPU |-> 0]

Next ==
    \/ \E c \in CPU :
          \/ \E s \in Source : Lookup(c, s)
          \/ Fresh(c) \/ Insert(c) \/ InsertFails(c)
          \/ Load(c) \/ Clock(c) \/ Drop(c) \/ Win(c) \/ LoseRetry(c) \/ LoseLast(c)
    \/ Tick

Spec == Init /\ [][Next]_vars

(***************************************************************************)
(* Properties.                                                              *)
(***************************************************************************)

\* How often the 32-bit clock went round in a bucket's life.
Wraps(e) == (bucket[e].ts \div Wrap) - (account[e].born \div Wrap)

\* docs/design/28: "every negative value reaching spend() is the wrap ... and may
\* resync to full without granting a contending source an extra burst".  However
\* the CPUs interleave, and even through a pointer to a bucket that was replaced,
\* what is spent from a bucket is at most its burst, its refill since it was
\* created, and one more burst per turn of the clock.
WithinBudget ==
    \A e \in Element :
        account[e].spent * One + bucket[e].tokens
            <= rl_burst * (1 + Wraps(e)) + rl_refill * (bucket[e].ts - account[e].born)

\* docs/design/28: "Retry exhaustion requires RL_CAS_RETRIES competing exchanges to
\* succeed in between".  Of the packets a CPU handles, at most one in RL_CAS_RETRIES
\* writes of the other CPUs is admitted without a token.
ExhaustionPaid == \A c \in CPU : RL_CAS_RETRIES * exhausted[c] <= others[c]

\* docs/design/28: a source over its rate "recovers without intervention", and a
\* stale future timestamp must not keep it dropped until the clock catches up.  A
\* packet is dropped only if the ticks that really passed since the bucket was
\* last written earn less than a token (gaps of a whole turn of the clock aside).
NoLockout ==
    \A c \in CPU :
        cpu[c].pc = "cas" /\ ~Affordable(c) /\ cpu[c].now - cpu[c].old.ts < Wrap =>
            cpu[c].old.tokens + rl_refill * (cpu[c].now - cpu[c].old.ts) < One

\* A bucket never holds the burst itself after a packet was charged to it, and no
\* bucket is newer than the clock.
TypeOK ==
    /\ time \in 0 .. MaxTime /\ packets \in 0 .. MaxPackets
    /\ bucket_of \in [Source -> Element \cup {NoElement}]
    /\ bucket \in [Element -> [ts : 0 .. time, tokens : 0 .. (rl_burst - One)]]
    /\ \A c \in CPU : cpu[c].pc \in {"idle", "miss", "insert", "load", "clock", "cas"}
=============================================================================
