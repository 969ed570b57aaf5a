SPECIFICATION FairSpec
CONSTANTS
    a1 = a1
    a2 = a2
    k = k
    Row = {a1, a2}
    Key = {k}
    NoKey = NoKey
    Token = {t1, t2, t3}
    NoToken = NoToken
    Inbox = {}
    NoInbox = NoInbox
    Sends <- OneKey
    Worker = {w1}
    NoWorker = NoWorker
    NoRow = NoRow
    Concurrency = 2
    Lease = 3
    MaxWait = 1
    MaxSequence = 2
    MaxAttempts = 2
    MaxFaults = 1
    MayReplay = {a1}
PROPERTIES
    EverySettles
    KeepsPromise
CHECK_DEADLOCK FALSE
