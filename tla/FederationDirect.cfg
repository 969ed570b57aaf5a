SPECIFICATION Spec
CONSTANTS
    f1 = f1
    f2 = f2
    d1 = d1
    d2 = d2
    d3 = d3
    ko = ko
    ki = ki
    i1 = i1
    i2 = i2
    Row = {d1, d2}
    Fanout = {}
    Key = {ko, ki}
    NoKey = NoKey
    Token = {t1, t2, t3}
    NoToken = NoToken
    Inbox = {i1}
    NoInbox = NoInbox
    Recipients = {i1}
    InboxKey <- MCInboxKey
    Sends <- DirectSends
    Worker = {w1, w2}
    NoWorker = NoWorker
    NoRow = NoRow
    Lease = 3
    MaxWait = 1
    MaxSequence = 2
    MaxAttempts = 2
    MaxFaults = 1
    MaxMissed = 1
    MayReplay = {d1}
    MayPrune = {d1}
    MayLag = {f1}
SYMMETRY Symmetry
INVARIANTS
    TypeOK
    CompletedWasSent
    AttemptBudget
    HeartbeatProtects
    ArticleAgrees
PROPERTIES
    KeepsPromise
    LeaseNotStolen
    CompletedIsFinal
CHECK_DEADLOCK FALSE
