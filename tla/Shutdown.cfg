SPECIFICATION FairSpec
CONSTANTS
    Message = {m1, m2}
    Job = {j1}
    MaxFailures = 2
INVARIANTS
    TypeOK
    NothingLost
    ClosesAfterDrain
PROPERTIES
    ShutdownEnds
CHECK_DEADLOCK FALSE
