SPECIFICATION FairSpec
CONSTANTS
    f1 = f1
    f2 = f2
    d1 = d1
    d2 = d2
    d3 = d3
    ko = ko
    ki = ki
    i1 = i1
    i2 = i2
    Row = {f1, d1, d2}
    Fanout = {f1}
    Key = {ko, ki}
    NoKey = NoKey
    Token = {t1, t2}
    NoToken = NoToken
    Inbox = {i1, i2}
    NoInbox = NoInbox
    Recipients = {i1, i2}
    InboxKey <- MCInboxKey
    Sends <- OneFanout
    Worker = {w1}
    NoWorker = NoWorker
    NoRow = NoRow
    Lease = 2
    MaxWait = 1
    MaxSequence = 2
    MaxAttempts = 2
    MaxFaults = 1
    MaxMissed = 0
    MayReplay = {}
    MayPrune = {}
    MayLag = {}
INVARIANTS
    FanoutOnce
PROPERTIES
    EverySettles
CHECK_DEADLOCK FALSE
