SPECIFICATION Spec
CONSTANTS
    Threads = {t1, t2, t3}
    Capacity = 2
    Aligned <- MCAligned
    GpuPtrs = {11, 12}
    MaxCalls = 3
\* Once the pool is dropped nothing is left to do.
CHECK_DEADLOCK FALSE
INVARIANTS
    SlotsOwned
    StatsExact
    QuietScanFinds
    GpuMemoryOwned
PROPERTIES
    CallsReturn
