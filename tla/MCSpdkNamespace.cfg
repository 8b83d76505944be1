SPECIFICATION Spec
CONSTANTS
    Threads = {t1, t2}
    Count = 2
    NoBuffer = NoBuffer
INVARIANTS
    DeviceInsideCall
    Conserved
    AnswerFaithful
PROPERTIES
    CommandsReturn
