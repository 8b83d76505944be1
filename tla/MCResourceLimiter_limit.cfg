SPECIFICATION LimiterSpec
CONSTANTS
    Callers = {c1, c2, c3, c4, c5}
    max_in_flight <- MCLimit
    U32 <- MCU32
INVARIANTS
    LimitKept
    CounterBounded
