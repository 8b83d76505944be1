CONSTANTS
    Operations = {o1, o2}
    Threads = {t1, t2}
    Free = free
    MaxResults = 1
    MaxCalls = 4
SPECIFICATION Spec
CHECK_DEADLOCK FALSE
INVARIANTS OwnCompletion HandedOverOnce SpansConsumed
PROPERTIES CallsReturn
