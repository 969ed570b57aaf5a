SPECIFICATION Spec
CONSTANTS
    a1 = a1
    a2 = a2
    l1 = l1
    l2 = l2
    Actor = {a1, a2}
    NoActor = NoActor
    Link = {l1, l2}
    SharedBy <- TwoActors
    Bonus = {1, 2}
    ChunkSize = 1
    Drain = {p1, p2}
    Refresher = {}
    Recent = {}
    Lease = 2
    MaxChanges = 2
    MaxFaults = 0
    MaxStalls = 0
SYMMETRY Symmetry
INVARIANTS
    NoStaleBonus
CHECK_DEADLOCK FALSE
