-------------------------- MODULE RateLimitProofs ---------------------------
(***************************************************************************)
(* Proofs about RateLimit: what the retries cost, what a bucket gives away,  *)
(* and that it implements TokenBucket, for any number of CPUs and sources.  *)
(***************************************************************************)
EXTENDS RateLimitRefines, TLAPS

\* c has loaded a state and not yet finished with it.
Holding(c) == cpu[c].pc \in {"clock", "cas"}

\* Attempts the packet under way has lost, and whether it is bound to lose the
\* present one as well.
Lost(c) == IF Holding(c) THEN cpu[c].retry ELSE 0
Doomed(c) == IF Holding(c) /\ ~Unchanged(c) THEN 1 ELSE 0

(***************************************************************************)
(* The inductive invariant: every lost attempt, and the one that is bound   *)
(* to be lost, has its own write by another CPU.                            *)
(***************************************************************************)
Paid ==
    \A c \in CPU : RL_CAS_RETRIES * exhausted[c] + Lost(c) + Doomed(c) <= others[c]

PaidTypes ==
    /\ cpu = [c \in CPU |-> cpu[c]]
    /\ exhausted \in [CPU -> Nat] /\ others \in [CPU -> Nat]
    /\ \A c \in CPU : Holding(c) => cpu[c].retry \in 0 .. (RL_CAS_RETRIES - 1)

PaidInv == PaidTypes /\ Paid

\* Types of the terms of the account.
LEMMA Counts ==
    ASSUME PaidTypes, NEW c \in CPU
    PROVE  /\ RL_CAS_RETRIES * exhausted[c] \in Nat /\ exhausted[c] \in Nat /\ others[c] \in Nat
           /\ Lost(c) \in Nat /\ Doomed(c) \in {0, 1}
           /\ RL_CAS_RETRIES * (exhausted[c] + 1) = RL_CAS_RETRIES * exhausted[c] + RL_CAS_RETRIES
<1>1. /\ exhausted[c] \in Nat /\ others[c] \in Nat /\ RL_CAS_RETRIES \in Nat
      /\ Lost(c) \in Nat /\ Doomed(c) \in {0, 1}
  BY RateLimitAssumption DEF PaidTypes, Lost, Doomed
<1>2. \A x, y \in Nat : x * y \in Nat /\ x * (y + 1) = x * y + x
  OBVIOUS
<1> QED
  BY <1>1, <1>2

\* A step of CPU c that writes no bucket and leaves every count alone.
LEMMA PaidLocal ==
    ASSUME PaidInv, NEW c \in CPU, NEW local, cpu' = [cpu EXCEPT ![c] = local],
           UNCHANGED <<bucket, exhausted, others>>,
           Holding(c)' => local.retry \in 0 .. (RL_CAS_RETRIES - 1),
           Lost(c)' + Doomed(c)' <= Lost(c) + Doomed(c)
    PROVE  PaidInv'
<1> USE DEF PaidInv
<1>1. /\ cpu' = [d \in CPU |-> cpu'[d]]
      /\ cpu'[c] = local
      /\ \A d \in CPU \ {c} : cpu'[d] = cpu[d]
  BY DEF PaidTypes
<1>2. PaidTypes'
  BY <1>1 DEF PaidTypes, Holding
<1>3. \A d \in CPU \ {c} : Lost(d)' = Lost(d) /\ Doomed(d)' = Doomed(d)
  BY <1>1 DEF Lost, Doomed, Holding, Unchanged
<1>4. ASSUME NEW d \in CPU
      PROVE  (RL_CAS_RETRIES * exhausted[d] + Lost(d) + Doomed(d) <= others[d])'
  <2>1. /\ RL_CAS_RETRIES * exhausted[d] \in Nat /\ others[d] \in Nat
        /\ Lost(d) \in Nat /\ Doomed(d) \in Nat
    BY Counts
  <2>2. (Lost(d) \in Nat /\ Doomed(d) \in {0, 1})'
    BY <1>2, RateLimitAssumption DEF PaidTypes, Lost, Doomed
  <2>3. Lost(d)' + Doomed(d)' <= Lost(d) + Doomed(d)
    BY <1>3, <2>1
  <2>4. RL_CAS_RETRIES * exhausted[d] + Lost(d) + Doomed(d) <= others[d]
    BY DEF Paid
  <2>5. exhausted'[d] = exhausted[d] /\ others'[d] = others[d]
    OBVIOUS
  <2> QED
    BY <2>1, <2>2, <2>3, <2>4, <2>5
<1> QED
  BY <1>2, <1>4 DEF Paid

\* A step of CPU c that ends its packet by writing a bucket.
LEMMA PaidWrite ==
    ASSUME PaidInv, NEW c \in CPU, Return(c), WrittenBy(c), UNCHANGED exhausted
    PROVE  PaidInv'
<1> USE DEF PaidInv
<1>1. /\ cpu' = [d \in CPU |-> cpu'[d]]
      /\ cpu'[c] = Idle
      /\ \A d \in CPU \ {c} : cpu'[d] = cpu[d]
  BY DEF PaidTypes, Return
<1>2. /\ others' \in [CPU -> Nat] /\ others'[c] = others[c]
      /\ \A d \in CPU \ {c} : others'[d] = others[d] + 1
  BY DEF PaidTypes, WrittenBy
<1>3. PaidTypes'
  BY <1>1, <1>2 DEF PaidTypes, Holding, Idle
<1>4. Lost(c)' = 0 /\ Doomed(c)' = 0
  BY <1>1 DEF Lost, Doomed, Holding, Idle
<1>5. \A d \in CPU \ {c} : Lost(d)' = Lost(d)
  BY <1>1 DEF Lost, Holding
<1>6. ASSUME NEW d \in CPU
      PROVE  (RL_CAS_RETRIES * exhausted[d] + Lost(d) + Doomed(d) <= others[d])'
  <2>1. /\ RL_CAS_RETRIES * exhausted[d] \in Nat /\ others[d] \in Nat
        /\ Lost(d) \in Nat /\ Doomed(d) \in Nat
    BY Counts
  <2>2. Doomed(d)' \in {0, 1}
    BY DEF Doomed
  <2>3. RL_CAS_RETRIES * exhausted[d] + Lost(d) + Doomed(d) <= others[d]
    BY DEF Paid
  <2>4. exhausted'[d] = exhausted[d]
    OBVIOUS
  <2> QED
    BY <1>2, <1>4, <1>5, <2>1, <2>2, <2>3, <2>4
<1> QED
  BY <1>3, <1>6 DEF Paid

\* The last attempt of CPU c is lost.
LEMMA PaidLast ==
    ASSUME PaidInv, NEW c \in CPU, LoseLast(c)
    PROVE  PaidInv'
<1> USE DEF PaidInv
<1>1. /\ cpu' = [d \in CPU |-> cpu'[d]]
      /\ cpu'[c] = Idle
      /\ \A d \in CPU \ {c} : cpu'[d] = cpu[d]
  BY DEF PaidTypes, Return, LoseLast
<1>2. /\ exhausted' \in [CPU -> Nat] /\ exhausted'[c] = exhausted[c] + 1
      /\ \A d \in CPU \ {c} : exhausted'[d] = exhausted[d]
      /\ others' = others /\ bucket' = bucket
  BY DEF PaidTypes, LoseLast
<1>3. PaidTypes'
  BY <1>1, <1>2 DEF PaidTypes, Holding, Idle
<1>4. \A d \in CPU \ {c} : Lost(d)' = Lost(d) /\ Doomed(d)' = Doomed(d)
  BY <1>1, <1>2 DEF Lost, Doomed, Holding, Unchanged
<1>5. Lost(c)' = 0 /\ Doomed(c)' = 0
  BY <1>1 DEF Lost, Doomed, Holding, Idle
<1>6. Lost(c) + 1 = RL_CAS_RETRIES /\ Doomed(c) = 1
  BY RateLimitAssumption DEF LoseLast, Lost, Doomed, Holding, PaidTypes
<1>7. ASSUME NEW d \in CPU
      PROVE  (RL_CAS_RETRIES * exhausted[d] + Lost(d) + Doomed(d) <= others[d])'
  <2>1. /\ RL_CAS_RETRIES * exhausted[d] \in Nat /\ others[d] \in Nat
        /\ Lost(d) \in Nat /\ Doomed(d) \in Nat
        /\ RL_CAS_RETRIES * (exhausted[d] + 1) = RL_CAS_RETRIES * exhausted[d] + RL_CAS_RETRIES
    BY Counts
  <2>2. RL_CAS_RETRIES * exhausted[d] + Lost(d) + Doomed(d) <= others[d]
    BY DEF Paid
  <2>3. CASE d = c
    <3>1. RL_CAS_RETRIES * exhausted'[d] = RL_CAS_RETRIES * exhausted[d] + RL_CAS_RETRIES
      BY <1>2, <2>1, <2>3
    <3> QED
      BY <1>2, <1>5, <1>6, <2>1, <2>2, <2>3, <3>1
  <2>4. CASE d # c
    BY <1>2, <1>4, <2>2, <2>4
  <2> QED
    BY <2>3, <2>4
<1> QED
  BY <1>3, <1>7 DEF Paid

\* The account of the retries holds initially.
LEMMA PaidInit == Init => PaidInv
<1> SUFFICES ASSUME Init PROVE PaidInv
  OBVIOUS
<1>1. \A c \in CPU : ~Holding(c)
  BY DEF Init, Idle, Holding
<1>2. PaidTypes
  BY <1>1 DEF Init, PaidTypes
<1>3. \A c \in CPU : RL_CAS_RETRIES * exhausted[c] = 0 /\ others[c] = 0
  BY RateLimitAssumption DEF Init
<1> QED
  BY <1>1, <1>2, <1>3 DEF PaidInv, Paid, Lost, Doomed

\* It is kept by every step.
LEMMA PaidStep ==
    ASSUME PaidInv, [Next]_vars
    PROVE  PaidInv'
<1> USE DEF PaidInv
<1>1. ASSUME NEW c \in CPU, NEW s \in Source, Lookup(c, s) PROVE PaidInv'
  <2> DEFINE local == IF bucket_of[s] = NoElement THEN [pc |-> "miss", src |-> s]
                      ELSE [pc |-> "load", ptr |-> bucket_of[s]]
  <2>1. cpu' = [cpu EXCEPT ![c] = local] /\ local.pc \in {"miss", "load"}
    BY <1>1 DEF Lookup
  <2> HIDE DEF local
  <2>2. ~Holding(c)'
    BY <2>1 DEF Holding, PaidTypes
  <2>3. Lost(c)' + Doomed(c)' <= Lost(c) + Doomed(c)
    BY <2>2, Counts DEF Lost, Doomed
  <2> QED
    BY <1>1, <2>1, <2>2, <2>3, PaidLocal DEF Lookup
<1>2. ASSUME NEW c \in CPU, Fresh(c) PROVE PaidInv'
  <2> DEFINE local == [pc |-> "insert", src |-> cpu[c].src,
                       fresh |-> Spend([ts |-> time, tokens |-> rl_burst], time)]
  <2>1. cpu' = [cpu EXCEPT ![c] = local] /\ local.pc = "insert"
    BY <1>2 DEF Fresh
  <2> HIDE DEF local
  <2>2. ~Holding(c)'
    BY <2>1 DEF Holding, PaidTypes
  <2>3. Lost(c)' + Doomed(c)' <= Lost(c) + Doomed(c)
    BY <2>2, Counts DEF Lost, Doomed
  <2> QED
    BY <1>2, <2>1, <2>2, <2>3, PaidLocal DEF Fresh
<1>3. ASSUME NEW c \in CPU, Insert(c) \/ Win(c) PROVE PaidInv'
  BY <1>3, PaidWrite DEF Insert, Win
<1>4. ASSUME NEW c \in CPU, InsertFails(c) \/ Drop(c) PROVE PaidInv'
  <2>1. ~Holding(c)'
    BY <1>4 DEF InsertFails, Drop, Return, Idle, Holding, PaidTypes
  <2>2. Lost(c)' + Doomed(c)' <= Lost(c) + Doomed(c)
    BY <2>1, Counts DEF Lost, Doomed
  <2> QED
    BY <1>4, <2>1, <2>2, PaidLocal DEF InsertFails, Drop, Return
<1>5. ASSUME NEW c \in CPU, Load(c) PROVE PaidInv'
  <2> DEFINE local == [pc |-> "clock", ptr |-> cpu[c].ptr, old |-> bucket[cpu[c].ptr], retry |-> 0]
  <2>1. /\ cpu' = [cpu EXCEPT ![c] = local] /\ cpu'[c] = local /\ local.pc = "clock"
        /\ local.retry = 0 /\ local.old = bucket[local.ptr]
    BY <1>5 DEF Load, PaidTypes
  <2> HIDE DEF local
  <2>2. Lost(c)' = 0 /\ Doomed(c)' = 0
    BY <1>5, <2>1 DEF Lost, Doomed, Holding, Unchanged, Load
  <2>3. Lost(c)' + Doomed(c)' <= Lost(c) + Doomed(c)
    BY <2>2, Counts
  <2>4. local.retry \in 0 .. (RL_CAS_RETRIES - 1)
    BY <2>1, RateLimitAssumption
  <2> QED
    BY <1>5, <2>1, <2>3, <2>4, PaidLocal DEF Load
<1>6. ASSUME NEW c \in CPU, Clock(c) PROVE PaidInv'
  <2> DEFINE local == [pc |-> "cas", ptr |-> cpu[c].ptr, old |-> cpu[c].old,
                       retry |-> cpu[c].retry, now |-> time]
  <2>1. /\ cpu' = [cpu EXCEPT ![c] = local] /\ cpu'[c] = local /\ local.pc = "cas"
        /\ local.retry = cpu[c].retry /\ local.old = cpu[c].old /\ local.ptr = cpu[c].ptr
    BY <1>6 DEF Clock, PaidTypes
  <2> HIDE DEF local
  <2>2. cpu[c].pc = "clock" /\ bucket' = bucket /\ Holding(c) /\ Holding(c)'
    BY <1>6, <2>1 DEF Clock, Holding
  <2>3. Lost(c)' = Lost(c) /\ Doomed(c)' = Doomed(c)
    BY <2>1, <2>2 DEF Lost, Doomed, Unchanged
  <2>4. Lost(c)' + Doomed(c)' <= Lost(c) + Doomed(c)
    BY <2>3, Counts
  <2>5. local.retry \in 0 .. (RL_CAS_RETRIES - 1)
    BY <2>1, <2>2 DEF PaidTypes
  <2> QED
    BY <1>6, <2>1, <2>4, <2>5, PaidLocal DEF Clock
<1>7. ASSUME NEW c \in CPU, LoseRetry(c) PROVE PaidInv'
  <2> DEFINE local == [pc |-> "clock", ptr |-> cpu[c].ptr, old |-> bucket[cpu[c].ptr],
                       retry |-> cpu[c].retry + 1]
  <2>1. /\ cpu' = [cpu EXCEPT ![c] = local] /\ cpu'[c] = local /\ local.pc = "clock"
        /\ local.retry = cpu[c].retry + 1 /\ local.old = bucket[local.ptr]
    BY <1>7 DEF LoseRetry, PaidTypes
  <2> HIDE DEF local
  <2>2. /\ cpu[c].pc = "cas" /\ bucket' = bucket /\ Holding(c) /\ Holding(c)' /\ ~Unchanged(c)
        /\ cpu[c].retry + 1 < RL_CAS_RETRIES
    BY <1>7, <2>1 DEF LoseRetry, Holding
  <2>3. cpu[c].retry \in Nat
    BY <2>2 DEF PaidTypes
  <2>4. Lost(c) = cpu[c].retry /\ Doomed(c) = 1 /\ Lost(c)' = cpu[c].retry + 1 /\ Doomed(c)' = 0
    BY <2>1, <2>2 DEF Lost, Doomed, Unchanged
  <2>5. local.retry \in 0 .. (RL_CAS_RETRIES - 1)
    BY <2>1, <2>2, <2>3, RateLimitAssumption
  <2>6. Lost(c)' + Doomed(c)' <= Lost(c) + Doomed(c)
    BY <2>3, <2>4
  <2> QED
    BY <1>7, <2>1, <2>5, <2>6, PaidLocal DEF LoseRetry
<1>8. ASSUME UNCHANGED <<bucket, cpu, exhausted, others>> PROVE PaidInv'
  <2>1. \A c \in CPU : Lost(c)' = Lost(c) /\ Doomed(c)' = Doomed(c) /\ Holding(c)' = Holding(c)
    BY <1>8 DEF Lost, Doomed, Holding, Unchanged
  <2> QED
    BY <1>8, <2>1 DEF PaidTypes, Paid
<1>9. CASE Tick
  BY <1>8, <1>9 DEF Tick
<1>10. CASE UNCHANGED vars
  BY <1>8, <1>10 DEF vars
<1> QED
  BY <1>1, <1>2, <1>3, <1>4, <1>5, <1>6, <1>7, <1>9, <1>10, PaidLast DEF Next

(***************************************************************************)
(* The clock and what a bucket earns by it.                                 *)
(***************************************************************************)

\* Facts about products by a constant.
LEMMA Product ==
    ASSUME NEW k \in Nat
    PROVE  /\ \A x \in Nat : k * x \in Nat /\ x * k = k * x
           /\ \A x, y \in Int : k * (x + y) = k * x + k * y /\ k * (x - y) = k * x - k * y
           /\ \A x, y \in Nat : x <= y => k * x <= k * y
           /\ k * 0 = 0 /\ k * 1 = k
<1>1. \A x \in Nat : k * x \in Nat /\ x * k = k * x
  OBVIOUS
<1>2. \A x, y \in Int : k * (x + y) = k * x + k * y /\ k * (x - y) = k * x - k * y
  OBVIOUS
<1>3. \A x, y \in Nat : x <= y => k * x <= k * y
  OBVIOUS
<1> QED
  BY <1>1, <1>2, <1>3

\* A moment is a turn of the clock and what the code sees of it.
LEMMA Turns ==
    ASSUME NEW n \in Nat
    PROVE  /\ n \div Wrap \in Nat /\ n % Wrap \in 0 .. (Wrap - 1)
           /\ n = Wrap * (n \div Wrap) + (n % Wrap)
BY RateLimitAssumption

\* The clock read modulo Wrap: later within a turn is larger, a turn later is smaller.
LEMMA TurnsInOrder ==
    ASSUME NEW m \in Nat, NEW n \in Nat, m <= n
    PROVE  /\ m \div Wrap <= n \div Wrap
           /\ m \div Wrap = n \div Wrap => (n % Wrap) - (m % Wrap) = n - m
           /\ m \div Wrap # n \div Wrap /\ n - m < Wrap => (n % Wrap) - (m % Wrap) < 0
           /\ m % Wrap = n % Wrap /\ n - m < Wrap => m = n
<1> DEFINE a == m \div Wrap
           b == n \div Wrap
           r == m % Wrap
           s == n % Wrap
<1>1. /\ a \in Nat /\ r \in 0 .. (Wrap - 1) /\ m = Wrap * a + r
      /\ b \in Nat /\ s \in 0 .. (Wrap - 1) /\ n = Wrap * b + s
      /\ Wrap \in Nat \ {0}
  BY Turns, RateLimitAssumption
<1> HIDE DEF a, b, r, s
<1>2. /\ Wrap * a \in Nat /\ Wrap * b \in Nat
      /\ a < b => Wrap * a + Wrap <= Wrap * b
      /\ b < a => Wrap * b + Wrap <= Wrap * a
      /\ a + 1 < b => Wrap * a + 2 * Wrap <= Wrap * b
  <2>1. \A x, y \in Nat : x < y => Wrap * x + Wrap <= Wrap * y
    <3> SUFFICES ASSUME NEW x \in Nat, NEW y \in Nat, x < y PROVE Wrap * x + Wrap <= Wrap * y
      OBVIOUS
    <3>1. x + 1 <= y /\ x + 1 \in Nat
      OBVIOUS
    <3>2. Wrap * (x + 1) <= Wrap * y /\ Wrap * (x + 1) = Wrap * x + Wrap * 1 /\ Wrap * 1 = Wrap
      BY <1>1, <3>1, Product
    <3> QED
      BY <3>2
  <2>2. a + 1 < b => Wrap * (a + 1) + Wrap <= Wrap * b
    BY <1>1, <2>1
  <2>3. Wrap * (a + 1) = Wrap * a + Wrap * 1 /\ Wrap * 1 = Wrap
    BY <1>1, Product
  <2>4. Wrap * a \in Nat /\ Wrap * b \in Nat
    BY <1>1, Product
  <2> QED
    BY <1>1, <2>1, <2>2, <2>3, <2>4
<1>3. a <= b
  BY <1>1, <1>2
<1>4. a = b => s - r = n - m
  BY <1>1, <1>2
<1>5. a # b /\ n - m < Wrap => s - r < 0
  BY <1>1, <1>2, <1>3
<1>6. r = s /\ n - m < Wrap => m = n
  BY <1>1, <1>2, <1>3
<1> QED
  BY <1>3, <1>4, <1>5, <1>6 DEF a, b, r, s

\* rl_spend() on a bucket charged before: it gives nothing away within a turn of the
\* clock, at most a burst for each turn, and withholds nothing that was earned.
LEMMA Earned ==
    ASSUME NEW b \in [ts : Nat, tokens : 0 .. rl_burst], NEW now \in Nat, b.ts <= now
    PROVE  /\ Tokens(b, now) \in b.tokens .. rl_burst
           /\ b.ts \div Wrap = now \div Wrap =>
                 Tokens(b, now) = Least(b.tokens + rl_refill * (now - b.ts), rl_burst)
           /\ b.ts \div Wrap # now \div Wrap /\ now - b.ts < Wrap => Tokens(b, now) = rl_burst
           /\ Tokens(b, now) - b.tokens
                 <= rl_burst * ((now \div Wrap) - (b.ts \div Wrap)) + rl_refill * (now - b.ts)
<1> DEFINE elapsed == (now % Wrap) - (b.ts % Wrap)
           turns == (now \div Wrap) - (b.ts \div Wrap)
<1>1. /\ elapsed \in Int /\ turns \in Nat /\ now - b.ts \in Nat
      /\ turns = 0 => elapsed = now - b.ts
      /\ turns # 0 /\ now - b.ts < Wrap => elapsed < 0
      /\ turns = 0 <=> b.ts \div Wrap = now \div Wrap
  <2>1. b.ts \in Nat /\ b.ts \div Wrap \in Nat /\ now \div Wrap \in Nat
        /\ b.ts % Wrap \in Int /\ now % Wrap \in Int
    BY Turns
  <2> QED
    BY <2>1, TurnsInOrder
<1>2. rl_burst \in Nat /\ rl_refill \in Nat /\ b.tokens \in 0 .. rl_burst
  BY RateLimitAssumption
<1>3. Tokens(b, now) = Least(b.tokens + (IF elapsed < 0 THEN rl_burst
                                         ELSE Least(elapsed * rl_refill, rl_burst)), rl_burst)
  BY DEF Tokens, Refill
<1> HIDE DEF elapsed, turns
<1>4. elapsed >= 0 => elapsed * rl_refill \in Nat /\ elapsed * rl_refill = rl_refill * elapsed
  BY <1>1, <1>2, Product
<1>5. Tokens(b, now) \in b.tokens .. rl_burst
  BY <1>1, <1>2, <1>3, <1>4 DEF Least
<1>6. turns = 0 => Tokens(b, now) = Least(b.tokens + rl_refill * (now - b.ts), rl_burst)
  BY <1>1, <1>2, <1>3, <1>4 DEF Least
<1>7. turns # 0 /\ now - b.ts < Wrap => Tokens(b, now) = rl_burst
  BY <1>1, <1>2, <1>3 DEF Least
<1>8. Tokens(b, now) - b.tokens <= rl_burst * turns + rl_refill * (now - b.ts)
  <2>1. rl_refill * (now - b.ts) \in Nat /\ rl_burst * turns \in Nat
        /\ rl_burst * 0 = 0
        /\ (turns # 0 => rl_burst <= rl_burst * turns)
    <3>1. turns # 0 => 1 <= turns
      BY <1>1
    <3> QED
      BY <1>1, <1>2, <3>1, Product
  <2>2. CASE turns = 0
    BY <1>1, <1>2, <1>6, <2>1, <2>2 DEF Least
  <2>3. CASE turns # 0
    BY <1>2, <1>5, <2>1, <2>3
  <2> QED
    BY <2>2, <2>3
<1> QED
  BY <1>1, <1>5, <1>6, <1>7, <1>8 DEF turns

\* The compare-and-swap compares all that rl_spend() looks at.
LEMMA SameWord ==
    ASSUME NEW a, NEW b, Word(a) = Word(b), NEW now
    PROVE  a.ts % Wrap = b.ts % Wrap /\ Tokens(a, now) = Tokens(b, now)
<1>1. a.ts % Wrap = b.ts % Wrap /\ a.tokens = b.tokens
  BY DEF Word
<1> QED
  BY <1>1 DEF Tokens, Refill

(***************************************************************************)
(* The invariant about what the CPUs hold.                                  *)
(***************************************************************************)

Charged == [ts : 0 .. time, tokens : 0 .. (rl_burst - One)]

\* The state a CPU goes by was a bucket, and the clock was read after it: not one
\* turn of the clock ago, or just now.
InHand(c) ==
    /\ cpu[c].pc \in {"idle", "miss", "insert", "load", "clock", "cas"}
    /\ cpu[c].pc \in {"miss", "insert"} => cpu[c].src \in Source
    /\ cpu[c].pc = "insert" =>
          cpu[c].fresh \in Charged /\ cpu[c].fresh.tokens = rl_burst - One
    /\ cpu[c].pc \in {"load", "clock", "cas"} => cpu[c].ptr \in Element
    /\ cpu[c].pc \in {"clock", "cas"} => cpu[c].old \in Charged
    /\ cpu[c].pc = "cas" =>
          /\ cpu[c].now \in cpu[c].old.ts .. time
          /\ cpu[c].now = time \/ time - cpu[c].old.ts < Wrap

HandInv ==
    /\ TypeOK
    /\ cpu = [c \in CPU |-> cpu[c]]
    /\ account \in [Element -> [born : Nat, spent : Nat]]
    /\ \A c \in CPU : InHand(c)

\* A step of one CPU that leaves the clock and the buckets alone.
LEMMA HandLocal ==
    ASSUME HandInv, NEW c \in CPU, NEW local, cpu' = [cpu EXCEPT ![c] = local],
           UNCHANGED <<time, bucket_of, bucket, account>>,
           packets' \in 0 .. MaxPackets, InHand(c)'
    PROVE  HandInv'
<1>1. \A d \in CPU \ {c} : cpu'[d] = cpu[d]
  BY DEF HandInv
<1>2. \A d \in CPU : InHand(d)'
  BY <1>1 DEF HandInv, InHand, Charged
<1>3. cpu' = [d \in CPU |-> cpu'[d]]
  BY DEF HandInv
<1>4. TypeOK'
  BY <1>2 DEF HandInv, TypeOK, InHand
<1> QED
  BY <1>2, <1>3, <1>4 DEF HandInv

\* A packet of c ends with a bucket written.
LEMMA HandWrite ==
    ASSUME HandInv, NEW c \in CPU, Return(c), UNCHANGED <<time, packets>>,
           NEW e \in Element, NEW b \in Charged, bucket' = [bucket EXCEPT ![e] = b],
           bucket_of' \in [Source -> Element \cup {NoElement}],
           account' \in [Element -> [born : Nat, spent : Nat]]
    PROVE  HandInv'
<1>1. /\ cpu' = [d \in CPU |-> cpu'[d]] /\ cpu'[c].pc = "idle"
      /\ \A d \in CPU \ {c} : cpu'[d] = cpu[d]
  BY DEF HandInv, Return, Idle
<1>2. \A d \in CPU : InHand(d)'
  <2>1. InHand(c)'
    BY <1>1 DEF InHand
  <2>2. \A d \in CPU \ {c} : InHand(d)'
    BY <1>1 DEF HandInv, InHand, Charged
  <2> QED
    BY <2>1, <2>2
<1>3. bucket' \in [Element -> Charged']
  BY DEF HandInv, TypeOK, Charged
<1>4. TypeOK'
  BY <1>2, <1>3 DEF HandInv, TypeOK, InHand, Charged
<1> QED
  BY <1>1, <1>2, <1>4 DEF HandInv

\* A tick makes no bucket newer, and the clock readings in hand stay good.
LEMMA HandTick ==
    ASSUME HandInv, Tick
    PROVE  HandInv'
<1>1. time \in Nat /\ time' = time + 1 /\ time' \in 0 .. MaxTime
  BY RateLimitAssumption DEF HandInv, TypeOK, Tick
<1>2. \A b \in Charged : b \in Charged'
  BY <1>1 DEF Charged
<1>3. UNCHANGED <<bucket_of, bucket, cpu, packets, account>>
  BY DEF Tick
<1>4. \A c \in CPU : InHand(c)'
  <2> SUFFICES ASSUME NEW c \in CPU PROVE InHand(c)'
    OBVIOUS
  <2>1. InHand(c)
    BY DEF HandInv
  <2>2. cpu[c].pc = "cas" => /\ cpu[c].now \in cpu[c].old.ts .. time'
                            /\ time' - cpu[c].old.ts < Wrap
    BY <1>1, <2>1 DEF InHand, Charged, Tick
  <2> QED
    BY <1>2, <1>3, <2>1, <2>2 DEF InHand
<1>5. bucket' \in [Element -> Charged']
  BY <1>2, <1>3 DEF HandInv, TypeOK, Charged
<1>6. TypeOK'
  BY <1>1, <1>3, <1>4, <1>5 DEF HandInv, TypeOK, InHand, Charged
<1> QED
  BY <1>3, <1>4, <1>6 DEF HandInv

\* What a CPU that missed stores is a full bucket less one packet.
LEMMA SpendFresh ==
    ASSUME HandInv
    PROVE  Spend([ts |-> time, tokens |-> rl_burst], time) = [ts |-> time, tokens |-> rl_burst - One]
<1>1. time \in Nat /\ rl_burst \in Nat
  BY RateLimitAssumption DEF HandInv, TypeOK
<1> DEFINE b == [ts |-> time, tokens |-> rl_burst]
<1>2. b \in [ts : Nat, tokens : 0 .. rl_burst] /\ b.ts = time /\ b.tokens = rl_burst
  BY <1>1
<1>3. Tokens(b, time) \in b.tokens .. rl_burst
  BY <1>1, <1>2, Earned
<1>4. Tokens(b, time) = rl_burst
  BY <1>1, <1>2, <1>3
<1> QED
  BY <1>4 DEF Spend

\* A winning compare-and-swap charges the bucket as it is, at a moment that is not
\* before its last charge, although the code compares 32 bits of the time only.
LEMMA WinCharges ==
    ASSUME HandInv, NEW c \in CPU, Win(c)
    PROVE  LET e == cpu[c].ptr  now == cpu[c].now
           IN /\ e \in Element /\ bucket[e] \in Charged
              /\ now \in bucket[e].ts .. time
              /\ Tokens(bucket[e], now) >= One
              /\ bucket' = [bucket EXCEPT ![e] = [ts |-> now, tokens |-> Tokens(bucket[e], now) - One]]
<1> DEFINE e == cpu[c].ptr
           now == cpu[c].now
           old == cpu[c].old
<1>1. /\ e \in Element /\ old \in Charged /\ bucket[e] \in Charged /\ time \in Nat
      /\ now \in old.ts .. time /\ (now = time \/ time - old.ts < Wrap)
  BY DEF HandInv, InHand, Win, TypeOK, Charged
<1>2. /\ bucket[e].ts % Wrap = old.ts % Wrap /\ Tokens(bucket[e], now) = Tokens(old, now)
      /\ Tokens(old, now) >= One
      /\ bucket' = [bucket EXCEPT ![e] = [ts |-> now, tokens |-> Tokens(old, now) - One]]
  BY SameWord DEF Win, Unchanged, Affordable, Spend
<1> HIDE DEF e, now, old
<1>3. /\ old.ts \in Nat /\ bucket[e].ts \in Nat /\ bucket[e].ts <= time
  BY <1>1 DEF Charged
<1>4. bucket[e].ts <= now
  <2>1. CASE now = time
    BY <1>3, <2>1
  <2>2. CASE time - old.ts < Wrap /\ old.ts < bucket[e].ts
    <3>1. bucket[e].ts - old.ts < Wrap /\ old.ts <= bucket[e].ts
      BY <1>1, <1>3, <2>2, RateLimitAssumption
    <3> QED
      BY <1>2, <1>3, <2>2, <3>1, TurnsInOrder
  <2>3. CASE bucket[e].ts <= old.ts
    BY <1>1, <1>3, <2>3
  <2> QED
    BY <1>1, <1>3, <2>1, <2>2, <2>3
<1>5. now \in bucket[e].ts .. time
  BY <1>1, <1>3, <1>4
<1> QED
  BY <1>1, <1>2, <1>5 DEF e, now, old

\* What Win leaves in the bucket.
LEMMA WinLeaves ==
    ASSUME HandInv, NEW c \in CPU, Win(c)
    PROVE  [ts |-> cpu[c].now, tokens |-> Tokens(bucket[cpu[c].ptr], cpu[c].now) - One] \in Charged
<1>0. PICK e, now : e = cpu[c].ptr /\ now = cpu[c].now
  OBVIOUS
<1>1. /\ bucket[e] \in Charged /\ now \in bucket[e].ts .. time /\ Tokens(bucket[e], now) >= One
  BY <1>0, WinCharges
<1>2. /\ bucket[e] \in [ts : Nat, tokens : 0 .. rl_burst]
      /\ bucket[e].ts \in Nat /\ now \in Nat /\ bucket[e].ts <= now /\ now <= time
  BY <1>1, RateLimitAssumption DEF Charged, HandInv, TypeOK
<1>3. Tokens(bucket[e], now) \in bucket[e].tokens .. rl_burst
  BY <1>2, Earned
<1>4. Tokens(bucket[e], now) - One \in 0 .. (rl_burst - One)
  BY <1>1, <1>2, <1>3, RateLimitAssumption
<1> QED
  BY <1>0, <1>1, <1>2, <1>4 DEF Charged

\* The invariant of the buckets holds initially.
LEMMA HandInit == Init => HandInv
<1> SUFFICES ASSUME Init PROVE HandInv
  OBVIOUS
<1>1. \A c \in CPU : cpu[c].pc = "idle"
  BY DEF Init, Idle
<1>2. TypeOK
  BY <1>1, RateLimitAssumption DEF Init, TypeOK
<1>3. \A c \in CPU : InHand(c)
  BY <1>1 DEF InHand
<1> QED
  BY <1>2, <1>3 DEF Init, HandInv

\* It is kept by every step.
LEMMA HandStep ==
    ASSUME HandInv, [Next]_vars
    PROVE  HandInv'
<1>1. /\ cpu = [c \in CPU |-> cpu[c]] /\ packets \in 0 .. MaxPackets /\ time \in Nat
      /\ bucket \in [Element -> Charged]
      /\ \A c \in CPU : InHand(c)
  BY RateLimitAssumption DEF HandInv, TypeOK, Charged
<1>2. ASSUME NEW c \in CPU, NEW s \in Source, Lookup(c, s) PROVE HandInv'
  <2> DEFINE local == IF bucket_of[s] = NoElement THEN [pc |-> "miss", src |-> s]
                      ELSE [pc |-> "load", ptr |-> bucket_of[s]]
  <2>1. cpu' = [cpu EXCEPT ![c] = local] /\ cpu'[c] = local /\ packets' \in 0 .. MaxPackets
    BY <1>1, <1>2, RateLimitAssumption DEF Lookup
  <2>2. \/ local.pc = "miss" /\ local.src = s
        \/ local.pc = "load" /\ local.ptr \in Element
    BY DEF HandInv, TypeOK
  <2> HIDE DEF local
  <2>3. InHand(c)'
    BY <2>1, <2>2 DEF InHand
  <2> QED
    BY <1>2, <2>1, <2>3, HandLocal DEF Lookup
<1>3. ASSUME NEW c \in CPU, Fresh(c) PROVE HandInv'
  <2> DEFINE local == [pc |-> "insert", src |-> cpu[c].src,
                       fresh |-> Spend([ts |-> time, tokens |-> rl_burst], time)]
  <2>1. cpu' = [cpu EXCEPT ![c] = local] /\ cpu'[c] = local
    BY <1>1, <1>3 DEF Fresh
  <2>2. /\ local.pc = "insert" /\ local.src \in Source
        /\ local.fresh = [ts |-> time, tokens |-> rl_burst - One]
    BY <1>1, <1>3, SpendFresh DEF Fresh, InHand
  <2> HIDE DEF local
  <2>3. local.fresh \in Charged /\ local.fresh.tokens = rl_burst - One /\ Charged' = Charged
    BY <1>1, <1>3, <2>2, RateLimitAssumption DEF Charged, Fresh
  <2>4. InHand(c)'
    BY <2>1, <2>2, <2>3 DEF InHand
  <2> QED
    BY <1>1, <1>3, <2>1, <2>4, HandLocal DEF Fresh
<1>4. ASSUME NEW c \in CPU, Insert(c) PROVE HandInv'
  <2>1. PICK e \in Element :
            /\ bucket' = [bucket EXCEPT ![e] = cpu[c].fresh]
            /\ bucket_of' = [s \in Source |-> IF s = cpu[c].src THEN e
                                              ELSE IF bucket_of[s] = e THEN NoElement
                                              ELSE bucket_of[s]]
            /\ account' = [account EXCEPT ![e] = [born |-> cpu[c].fresh.ts, spent |-> 1]]
    BY <1>4 DEF Insert
  <2>2. cpu[c].fresh \in Charged /\ cpu[c].fresh.ts \in Nat
    BY <1>1, <1>4 DEF Insert, InHand, Charged
  <2>3. /\ bucket_of' \in [Source -> Element \cup {NoElement}]
        /\ account' \in [Element -> [born : Nat, spent : Nat]]
    BY <2>1, <2>2 DEF HandInv, TypeOK
  <2> QED
    BY <1>4, <2>1, <2>2, <2>3, HandWrite DEF Insert
<1>5. ASSUME NEW c \in CPU, InsertFails(c) \/ Drop(c) \/ LoseLast(c) PROVE HandInv'
  <2>1. InHand(c)'
    BY <1>1, <1>5 DEF InsertFails, Drop, LoseLast, Return, Idle, InHand
  <2> QED
    BY <1>1, <1>5, <2>1, HandLocal DEF InsertFails, Drop, LoseLast, Return
<1>6. ASSUME NEW c \in CPU, Load(c) PROVE HandInv'
  <2> DEFINE local == [pc |-> "clock", ptr |-> cpu[c].ptr, old |-> bucket[cpu[c].ptr], retry |-> 0]
  <2>1. /\ cpu' = [cpu EXCEPT ![c] = local] /\ cpu'[c] = local
        /\ local.pc = "clock" /\ local.ptr \in Element /\ local.old \in Charged
    BY <1>1, <1>6 DEF Load, InHand
  <2> HIDE DEF local
  <2>2. InHand(c)'
    BY <1>6, <2>1 DEF InHand, Load, Charged
  <2> QED
    BY <1>1, <1>6, <2>1, <2>2, HandLocal DEF Load
<1>7. ASSUME NEW c \in CPU, Clock(c) PROVE HandInv'
  <2> DEFINE local == [pc |-> "cas", ptr |-> cpu[c].ptr, old |-> cpu[c].old,
                       retry |-> cpu[c].retry, now |-> time]
  <2>1. /\ cpu' = [cpu EXCEPT ![c] = local] /\ cpu'[c] = local
        /\ local.pc = "cas" /\ local.ptr \in Element /\ local.old \in Charged /\ local.now = time
    BY <1>1, <1>7 DEF Clock, InHand
  <2> HIDE DEF local
  <2>2. local.now \in local.old.ts .. time
    BY <1>1, <2>1 DEF Charged
  <2>3. InHand(c)'
    BY <1>7, <2>1, <2>2 DEF InHand, Clock, Charged
  <2> QED
    BY <1>1, <1>7, <2>1, <2>3, HandLocal DEF Clock
<1>8. ASSUME NEW c \in CPU, LoseRetry(c) PROVE HandInv'
  <2> DEFINE local == [pc |-> "clock", ptr |-> cpu[c].ptr, old |-> bucket[cpu[c].ptr],
                       retry |-> cpu[c].retry + 1]
  <2>1. /\ cpu' = [cpu EXCEPT ![c] = local] /\ cpu'[c] = local
        /\ local.pc = "clock" /\ local.ptr \in Element /\ local.old \in Charged
    BY <1>1, <1>8 DEF LoseRetry, InHand
  <2> HIDE DEF local
  <2>2. InHand(c)'
    BY <1>8, <2>1 DEF InHand, LoseRetry, Charged
  <2> QED
    BY <1>1, <1>8, <2>1, <2>2, HandLocal DEF LoseRetry
<1>9. ASSUME NEW c \in CPU, Win(c) PROVE HandInv'
  <2> DEFINE b == [ts |-> cpu[c].now, tokens |-> Tokens(bucket[cpu[c].ptr], cpu[c].now) - One]
  <2>1. /\ cpu[c].ptr \in Element /\ bucket' = [bucket EXCEPT ![cpu[c].ptr] = b] /\ b \in Charged
    BY <1>9, WinCharges, WinLeaves
  <2> HIDE DEF b
  <2>2. account' \in [Element -> [born : Nat, spent : Nat]]
    BY <1>9, <2>1 DEF Win, HandInv
  <2> QED
    BY <1>9, <2>1, <2>2, HandWrite DEF Win, HandInv, TypeOK
<1>10. CASE UNCHANGED vars
  BY <1>10 DEF HandInv, TypeOK, InHand, Charged, vars
<1> QED
  BY <1>2, <1>3, <1>4, <1>5, <1>6, <1>7, <1>8, <1>9, <1>10, HandTick DEF Next

\* The bucket of an element is replaced by a write of one CPU, or stays.
LEMMA BucketStep ==
    ASSUME HandInv, [Next]_vars
    PROVE  \/ UNCHANGED <<bucket, account>>
           \/ \E c \in CPU : Insert(c) \/ Win(c)
BY DEF Next, Lookup, Fresh, InsertFails, Load, Clock, Drop, LoseRetry, LoseLast, Tick, vars

\* Only a successful compare-and-swap spends, and it stays within the budget.
LEMMA BudgetStep ==
    ASSUME HandInv, WithinBudget, [Next]_vars
    PROVE  WithinBudget'
<1>1. CASE UNCHANGED <<bucket, account>>
  BY <1>1 DEF WithinBudget, Wraps
<1>2. ASSUME NEW c \in CPU, Insert(c) PROVE WithinBudget'
  <2>1. PICK e \in Element :
            /\ bucket' = [bucket EXCEPT ![e] = cpu[c].fresh]
            /\ account' = [account EXCEPT ![e] = [born |-> cpu[c].fresh.ts, spent |-> 1]]
    BY <1>2 DEF Insert
  <2>2. /\ cpu[c].fresh.ts \in Nat /\ cpu[c].fresh.tokens = rl_burst - One
        /\ bucket'[e] = cpu[c].fresh
        /\ account'[e] = [born |-> cpu[c].fresh.ts, spent |-> 1]
        /\ \A d \in Element \ {e} : bucket'[d] = bucket[d] /\ account'[d] = account[d]
    BY <1>2, <2>1 DEF Insert, InHand, Charged, HandInv, TypeOK
  <2>3. cpu[c].fresh.ts \div Wrap \in Nat
    BY <2>2, Turns
  <2>4. (account[e].spent * One + bucket[e].tokens
            <= rl_burst * (1 + Wraps(e)) + rl_refill * (bucket[e].ts - account[e].born))'
    <3>1. Wraps(e)' = 0 /\ account'[e].spent = 1 /\ bucket'[e].ts - account'[e].born = 0
      BY <2>2, <2>3 DEF Wraps
    <3>2. 1 * One = One /\ rl_burst * (1 + 0) = rl_burst /\ rl_refill * 0 = 0 /\ One \in Nat /\ rl_burst \in Nat
      BY RateLimitAssumption
    <3> QED
      BY <2>2, <3>1, <3>2
  <2> QED
    BY <2>2, <2>4 DEF WithinBudget, Wraps
<1>3. ASSUME NEW c \in CPU, Win(c) PROVE WithinBudget'
  <2>0. PICK e \in Element, now \in Nat : e = cpu[c].ptr /\ now = cpu[c].now
    BY <1>3, RateLimitAssumption DEF Win, HandInv, InHand, Charged, TypeOK
  <2> DEFINE b == bucket[e]
  <2>1. /\ b \in Charged /\ now \in b.ts .. time
        /\ bucket' = [bucket EXCEPT ![e] = [ts |-> now, tokens |-> Tokens(b, now) - One]]
        /\ account' = [account EXCEPT ![e].spent = @ + 1]
    BY <1>3, <2>0, WinCharges DEF Win
  <2>2. /\ bucket'[e] = [ts |-> now, tokens |-> Tokens(b, now) - One]
        /\ account'[e].spent = account[e].spent + 1 /\ account'[e].born = account[e].born
        /\ account[e].spent \in Nat /\ account[e].born \in Nat
        /\ \A d \in Element \ {e} : bucket'[d] = bucket[d] /\ account'[d] = account[d]
    BY <2>1 DEF HandInv, TypeOK
  <2>3. /\ b \in [ts : Nat, tokens : 0 .. rl_burst] /\ now \in Nat /\ b.ts \in Nat /\ b.ts <= now
        /\ b.tokens \in Nat /\ One \in Nat /\ rl_burst \in Nat /\ rl_refill \in Nat
    BY <2>1, RateLimitAssumption DEF Charged
  <2>4. /\ Tokens(b, now) \in b.tokens .. rl_burst
        /\ Tokens(b, now) - b.tokens
              <= rl_burst * ((now \div Wrap) - (b.ts \div Wrap)) + rl_refill * (now - b.ts)
    BY <2>3, Earned
  <2>5. account[e].spent * One + b.tokens
            <= rl_burst * (1 + ((b.ts \div Wrap) - (account[e].born \div Wrap)))
                 + rl_refill * (b.ts - account[e].born)
    BY <2>1 DEF WithinBudget, Wraps
  <2> HIDE DEF b
  <2>6. (account[e].spent * One + bucket[e].tokens
            <= rl_burst * (1 + Wraps(e)) + rl_refill * (bucket[e].ts - account[e].born))'
    <3> DEFINE t0 == account[e].born \div Wrap
               t1 == b.ts \div Wrap
               t2 == now \div Wrap
               n == account[e].spent
               born == account[e].born
    <3>1. t0 \in Nat /\ t1 \in Nat /\ t2 \in Nat /\ n \in Nat /\ born \in Nat
      BY <2>2, <2>3, Turns
    <3> HIDE DEF t0, t1, t2, n, born
    <3>2. (n + 1) * One = n * One + One /\ n * One \in Nat
      BY <2>3, <3>1, Product
    <3>3. rl_burst * (1 + (t2 - t0)) = rl_burst * (1 + (t1 - t0)) + rl_burst * (t2 - t1)
      <4>1. 1 + (t2 - t0) = (1 + (t1 - t0)) + (t2 - t1) /\ 1 + (t1 - t0) \in Int /\ t2 - t1 \in Int
        BY <3>1
      <4> QED
        BY <2>3, <4>1, Product
    <3>4. rl_refill * (now - born) = rl_refill * (b.ts - born) + rl_refill * (now - b.ts)
      <4>1. now - born = (b.ts - born) + (now - b.ts) /\ b.ts - born \in Int /\ now - b.ts \in Int
        BY <2>3, <3>1
      <4> QED
        BY <2>3, <4>1, Product
    <3>5. n * One + b.tokens <= rl_burst * (1 + (t1 - t0)) + rl_refill * (b.ts - born)
      BY <2>5 DEF t0, t1, n, born
    <3>6. Tokens(b, now) - b.tokens <= rl_burst * (t2 - t1) + rl_refill * (now - b.ts)
      BY <2>4 DEF t1, t2
    <3>7. \A x, y \in Int : rl_burst * (x - y) \in Int /\ rl_burst * (1 + (x - y)) \in Int /\ rl_refill * (x - y) \in Int
      BY <2>3
    <3>8. (n + 1) * One + (Tokens(b, now) - One) <= rl_burst * (1 + (t2 - t0)) + rl_refill * (now - born)
      <4> DEFINE p1 == rl_burst * (1 + (t1 - t0))
                 p2 == rl_burst * (t2 - t1)
                 q1 == rl_refill * (b.ts - born)
                 q2 == rl_refill * (now - b.ts)
                 spent == n * One
      <4>1. p1 \in Int /\ p2 \in Int /\ q1 \in Int /\ q2 \in Int /\ spent \in Int
        BY <2>3, <3>1, <3>2, <3>7
      <4>2. spent + b.tokens <= p1 + q1 /\ Tokens(b, now) - b.tokens <= p2 + q2
        BY <3>5, <3>6
      <4>3. Tokens(b, now) \in Int
        BY <2>3, <2>4
      <4> HIDE DEF p1, p2, q1, q2, spent
      <4>4. (spent + One) + (Tokens(b, now) - One) <= (p1 + p2) + (q1 + q2)
        BY <2>3, <4>1, <4>2, <4>3
      <4> QED
        BY <3>2, <3>3, <3>4, <4>4 DEF p1, p2, q1, q2, spent
    <3>9. /\ Wraps(e)' = t2 - t0 /\ bucket'[e].ts = now /\ bucket'[e].tokens = Tokens(b, now) - One
          /\ account'[e].spent = n + 1 /\ account'[e].born = born
      BY <2>2 DEF Wraps, t0, t2, n, born
    <3> QED
      BY <3>8, <3>9
  <2> QED
    BY <2>1, <2>2, <2>6 DEF WithinBudget, Wraps
<1> QED
  BY <1>1, <1>2, <1>3, BucketStep

\* A packet is dropped only if too little was earned.
LEMMA DropsPoor ==
    ASSUME HandInv
    PROVE  NoLockout
<1> SUFFICES ASSUME NEW c \in CPU, cpu[c].pc = "cas", ~Affordable(c), cpu[c].now - cpu[c].old.ts < Wrap
             PROVE  cpu[c].old.tokens + rl_refill * (cpu[c].now - cpu[c].old.ts) < One
  BY DEF NoLockout
<1>1. PICK b, now : b = cpu[c].old /\ now = cpu[c].now
  OBVIOUS
<1>2. /\ b \in [ts : Nat, tokens : 0 .. rl_burst] /\ b.tokens \in Nat
      /\ now \in Nat /\ b.ts \in Nat /\ b.ts <= now /\ now - b.ts < Wrap
  BY <1>1, RateLimitAssumption DEF HandInv, InHand, Charged, TypeOK
<1>3. Tokens(b, now) < One /\ One \in Nat /\ rl_burst \in Nat /\ One <= rl_burst
  <2>1. Tokens(b, now) \in b.tokens .. rl_burst
    BY <1>2, Earned
  <2> QED
    BY <1>1, <1>2, <2>1, RateLimitAssumption DEF Affordable
<1>4. b.ts \div Wrap = now \div Wrap
  BY <1>2, <1>3, Earned
<1>5. Tokens(b, now) = Least(b.tokens + rl_refill * (now - b.ts), rl_burst)
  BY <1>2, <1>4, Earned
<1>6. rl_refill * (now - b.ts) \in Nat
  BY <1>2, Product, RateLimitAssumption
<1> QED
  BY <1>1, <1>2, <1>3, <1>5, <1>6 DEF Least

\* Every step is a charge, a new bucket, a tick, or nothing to the abstract buckets.
LEMMA StepRefines ==
    ASSUME HandInv, [Next]_vars
    PROVE  [B!BucketNext]_(B!bucket_vars)
<1>1. CASE UNCHANGED <<time, bucket>>
  BY <1>1 DEF B!bucket_vars
<1>2. CASE Tick
  BY <1>2 DEF Tick, B!BucketNext, B!Pass
<1>3. ASSUME NEW c \in CPU, Insert(c) PROVE B!BucketNext
  <2>1. PICK e \in Element : bucket' = [bucket EXCEPT ![e] = cpu[c].fresh]
    BY <1>3 DEF Insert
  <2>2. cpu[c].fresh \in Charged /\ cpu[c].fresh.tokens = rl_burst - One
    BY <1>3 DEF Insert, HandInv, InHand
  <2>3. /\ cpu[c].fresh.ts \in 0 .. time
        /\ cpu[c].fresh = [ts |-> cpu[c].fresh.ts, tokens |-> rl_burst - One]
    BY <2>2 DEF Charged
  <2>4. B!Open(e)
    BY <1>3, <2>1, <2>3 DEF B!Open, Insert
  <2> QED
    BY <2>4 DEF B!BucketNext
<1>4. ASSUME NEW c \in CPU, Win(c) PROVE B!BucketNext
  <2>1. PICK e \in Element, now \in Nat : e = cpu[c].ptr /\ now = cpu[c].now
    BY <1>4, RateLimitAssumption DEF Win, HandInv, InHand, Charged, TypeOK
  <2>2. /\ bucket[e] \in Charged /\ now \in bucket[e].ts .. time /\ Tokens(bucket[e], now) >= One
        /\ bucket' = [bucket EXCEPT ![e] = [ts |-> now, tokens |-> Tokens(bucket[e], now) - One]]
    BY <1>4, <2>1, WinCharges
  <2>3. /\ bucket[e] \in [ts : Nat, tokens : 0 .. rl_burst] /\ bucket[e].ts <= now
        /\ now \in Nat
    BY <2>2, RateLimitAssumption DEF Charged, HandInv, TypeOK
  <2>4. Tokens(bucket[e], now) \in B!Balance(bucket[e], now)
    <3>1. CASE bucket[e].ts \div Wrap = now \div Wrap
      <4>1. Tokens(bucket[e], now) = Least(bucket[e].tokens + rl_refill * (now - bucket[e].ts), rl_burst)
        BY <2>3, <3>1, Earned
      <4> QED
        BY <3>1, <4>1 DEF B!Balance, B!Capped, Least
    <3>2. CASE bucket[e].ts \div Wrap # now \div Wrap
      <4>1. Tokens(bucket[e], now) \in bucket[e].tokens .. rl_burst
        BY <2>3, Earned
      <4> QED
        BY <3>2, <4>1 DEF B!Balance
    <3> QED
      BY <3>1, <3>2
  <2>5. B!Charge(e)
    BY <1>4, <2>2, <2>4 DEF B!Charge, Win
  <2> QED
    BY <2>5 DEF B!BucketNext
<1> QED
  BY <1>1, <1>2, <1>3, <1>4
  DEF Next, Lookup, Fresh, InsertFails, Load, Clock, Drop, LoseRetry, LoseLast, vars

(***************************************************************************)
(* Theorems.                                                                *)
(***************************************************************************)

\* However many CPUs contend for a bucket, each packet marlin_ratelimit() admits
\* because its retries ran out costs RL_CAS_RETRIES writes of other CPUs.
THEOREM ExhaustionIsPaid == Spec => []ExhaustionPaid
<1>1. PaidInv => ExhaustionPaid
  <2> SUFFICES ASSUME PaidInv, NEW c \in CPU PROVE RL_CAS_RETRIES * exhausted[c] <= others[c]
    BY DEF ExhaustionPaid
  <2> QED
    BY Counts DEF PaidInv, Paid
<1>2. PaidInv /\ [Next]_vars => PaidInv'
  BY PaidStep
<1> QED
  BY <1>1, <1>2, PaidInit, PTL DEF Spec

\* Whatever the CPUs do to it, a bucket holds less than its burst after a charge and
\* is never dated in the future; every CPU knows what it holds.
THEOREM BucketsSound == Spec => []HandInv
<1>1. HandInv /\ [Next]_vars => HandInv'
  BY HandStep
<1> QED
  BY <1>1, HandInit, PTL DEF Spec

\* The part of it a run checks.
THEOREM LimiterTypeOK == Spec => []TypeOK
<1>1. HandInv => TypeOK
  BY DEF HandInv
<1> QED
  BY <1>1, BucketsSound, PTL

\* rl_spend() and the compare-and-swap of marlin_ratelimit() together: no interleaving
\* of any number of CPUs, and no reuse of an element under a stale pointer, lets a
\* source spend more than its burst, its refill and a burst per turn of the clock.
THEOREM NeverOverspent == Spec => []WithinBudget
<1>1. Init => WithinBudget
  <2> SUFFICES ASSUME Init, NEW e \in Element
               PROVE  account[e].spent * One + bucket[e].tokens
                         <= rl_burst * (1 + Wraps(e)) + rl_refill * (bucket[e].ts - account[e].born)
    BY DEF WithinBudget
  <2>1. account[e].spent = 0 /\ account[e].born = 0 /\ bucket[e].ts = 0 /\ bucket[e].tokens = 0
    BY DEF Init
  <2>2. Wraps(e) = 0
    <3>1. 0 \div Wrap \in Nat
      BY Turns
    <3> QED
      BY <2>1, <3>1 DEF Wraps
  <2>3. rl_burst * (1 + 0) = rl_burst /\ rl_refill * (0 - 0) = 0 /\ 0 * One = 0 /\ rl_burst \in Nat
    BY RateLimitAssumption
  <2> QED
    BY <2>1, <2>2, <2>3
<1>2. HandInv /\ WithinBudget /\ [Next]_vars => WithinBudget'
  BY BudgetStep
<1> QED
  BY <1>1, <1>2, BucketsSound, PTL DEF Spec

\* The resynchronisation of rl_spend() after the 32-bit clock went round never keeps
\* a source dropped that really earned a token.
THEOREM NeverLockedOut == Spec => []NoLockout
<1>1. HandInv => NoLockout
  BY DropsPoor
<1> QED
  BY <1>1, BucketsSound, PTL

\* marlin_ratelimit() on any number of CPUs implements buckets charged one packet at
\* a time: initial states and steps map to those of TokenBucket.
THEOREM LimiterRefines == Spec => ImplementsTokenBucket
<1>1. Init => B!BucketInit
  BY DEF Init, B!BucketInit
<1>2. HandInv /\ [Next]_vars => [B!BucketNext]_(B!bucket_vars)
  BY StepRefines
<1> QED
  BY <1>1, <1>2, BucketsSound, PTL DEF Spec, ImplementsTokenBucket, B!BucketSpec
=============================================================================
