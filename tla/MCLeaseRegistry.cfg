SPECIFICATION LeaseSpec
CONSTANTS
    AddrMax = 5
    Ops = {o1, o2, o3}
SYMMETRY Symmetric
INVARIANTS
    NoOverlap
    LeaseCovered
    CountExact
    LookupComplete
