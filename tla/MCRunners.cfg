CONSTANTS
    Edges = {e1, e2, e3}
    Parallelism = 1
    JobSlots = 2
    ChanCap = 1
SPECIFICATION FairSpec
INVARIANTS
    TypeOK
    NoMissedWakeup
    ActiveIsUnreported
    OutstandingBounded
PROPERTIES
    ImplementsCommandRunner
    EveryCommandReported
