SPECIFICATION Spec
SYMMETRY AnyCPU
CONSTANTS
    c1 = c1
    c2 = c2
    c3 = c3
    NoElement = NoElement
    CPU = {c1, c2, c3}
    Source = {1, 2}
    Element = {1, 2}
    One = 2
    rl_burst = 5
    rl_refill = 1
    RL_CAS_RETRIES = 2
    Wrap = 3
    MaxTime = 3
    MaxPackets = 5
CHECK_DEADLOCK FALSE
INVARIANTS TypeOK WithinBudget NoLockout ExhaustionPaid
PROPERTIES ImplementsTokenBucket
