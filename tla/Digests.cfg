SPECIFICATION FairSpec
CONSTANTS
    a1 = a1
    e1 = e1
    e2 = e2
    Worker = {w1, w2}
    NoWorker = NoWorker
    Account = {a1}
    Address = {e1, e2}
    OwnerOf <- MCOwnerOf
    MaxTick = 2
    MaxDisruptions = 1
    MaxInterruptions = 1
INVARIANTS
    TypeOK
    MailsAccountedFor
    RecordsTrue
PROPERTIES
    EveryoneMailed
CHECK_DEADLOCK FALSE
