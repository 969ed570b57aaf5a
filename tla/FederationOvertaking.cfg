SPECIFICATION Spec
CONSTANTS
    f1 = f1
    f2 = f2
    d1 = d1
    d2 = d2
    d3 = d3
    ko = ko
    ki = ki
    i1 = i1
    i2 = i2
    Row = {f1, d1, d2}
    Fanout = {f1}
    Key = {ko, ki}
    NoKey = NoKey
    Token = {t1, t2}
    NoToken = NoToken
    Inbox = {i1}
    NoInbox = NoInbox
    Recipients = {i1}
    InboxKey <- MCInboxKey
    Sends <- MixedSends
    Worker = {w1, w2}
    NoWorker = NoWorker
    NoRow = NoRow
    Lease = 2
    MaxWait = 1
    MaxSequence = 2
    MaxAttempts = 2
    MaxFaults = 0
    MaxMissed = 0
    MayReplay = {}
    MayPrune = {}
    MayLag = {f1}
SYMMETRY Symmetry
INVARIANTS
    NoOvertaking
CHECK_DEADLOCK FALSE
