SPECIFICATION FairSpec
CONSTANTS
    a1 = a1
    a2 = a2
    l1 = l1
    l2 = l2
    Actor = {a1, a2}
    NoActor = NoActor
    Link = {l1, l2}
    SharedBy <- TwoActors
    Bonus = {1}
    ChunkSize = 1
    Drain = {p1, p2}
    Refresher = {r1}
    Recent = {l2}
    Lease = 2
    MaxChanges = 2
    MaxFaults = 1
    MaxStalls = 1
INVARIANTS
    TypeOK
    OneDrainPerActor
PROPERTIES
    DeletedWhenRescored
    QueueDrains
CHECK_DEADLOCK FALSE
