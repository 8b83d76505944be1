CONSTANTS
    Files = {file}
    Sockets = {sock}
    MaxCompletions = 2
    U32 = 8
    PortFails = TRUE
    MaxBufs = 2
    MaxFlows = 2
SPECIFICATION Spec
CHECK_DEADLOCK FALSE
INVARIANTS AccountExact ResourcesOwned
PROPERTIES ImplementsBackend Progress
