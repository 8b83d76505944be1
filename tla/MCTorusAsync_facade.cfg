SPECIFICATION ParkingSpec
CONSTANTS
    Futures = {f1, f2}
    Outcomes <- MCOutcomes
    SubmitErrors <- MCSubmitErrors
    NoValue = NoValue
INVARIANTS
    CompletionConserved
    RegistryClean
    NoLostWakeup
PROPERTIES
    ImplementsAsyncIo
    RepolledTaskServed
