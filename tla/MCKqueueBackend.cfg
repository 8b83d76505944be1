CONSTANTS
    Fds = {f1, f2}
    Workers = {w1, w2}
    EventArraySize = 2
    U32 = 16
    KeventFails = TRUE
    MaxFlows = 3
SPECIFICATION Spec
CHECK_DEADLOCK FALSE
INVARIANTS AccountExact ContextsOwned
PROPERTIES ImplementsBackend FlowsServed CallsReturn
