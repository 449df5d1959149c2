SPECIFICATION FairSpec
CONSTANTS
    r1 = r1
    r2 = r2
    r3 = r3
    p1 = p1
    p2 = p2
    a = a
    b = b
    Requests = {r1, r2}
    Ports = {p1, p2}
    PortOf <- TwoPorts
    Groups = {a}
    MaxSlots <- OneSlot
    Priority <- Plain
    Preemptible = {p1, p2}
    PreemptEnabled = FALSE
    StickyOn = FALSE
    Paused = {p2}
    SpillTo <- NoSpill
    SpillLimit = 0
    CloudBackup = {p1, p2}
    PoolPorts = {p1}
    PoolRows <- PoolOfA
    RescueTo <- RescueToA
    RescueLimit = 1
    PortRemoval = TRUE
INVARIANTS NoResidue
PROPERTY Served
