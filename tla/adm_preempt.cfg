SPECIFICATION FairSpec
CONSTANTS
    r1 = r1
    r2 = r2
    r3 = r3
    p1 = p1
    p2 = p2
    a = a
    b = b
    Requests = {r1, r2, r3}
    Ports = {p1, p2}
    PortOf <- TwoPorts
    Groups = {a}
    MaxSlots <- OneSlot
    Priority <- CrownP1
    Preemptible = {p1, p2}
    PreemptEnabled = TRUE
    StickyOn = TRUE
    Paused = {}
    SpillTo <- NoSpill
    SpillLimit = 0
    CloudBackup = {}
    PoolPorts = {}
    PoolRows <- NoTargets
    RescueTo <- NoTargets
    RescueLimit = 0
    PortRemoval = FALSE
INVARIANTS HandOver CrownSafe
PROPERTIES QueueBound NoOvertaking Served
