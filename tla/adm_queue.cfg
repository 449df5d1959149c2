SPECIFICATION Spec
CONSTANTS
    r1 = r1
    r2 = r2
    r3 = r3
    p1 = p1
    p2 = p2
    a = a
    b = b
    Requests = {r1, r2, r3}
    Ports = {p1, p2}
    PortOf <- TwoPorts
    Groups = {a, b}
    MaxSlots <- TwoSlotsOfB
    Priority <- Plain
    Preemptible = {p1, p2}
    PreemptEnabled = FALSE
    StickyOn = TRUE
    Paused = {}
    SpillTo <- SpillA
    SpillLimit = 1
    CloudBackup = {}
    PoolPorts = {}
    PoolRows <- NoTargets
    RescueTo <- NoTargets
    RescueLimit = 0
    PortRemoval = FALSE
SYMMETRY SamePort
INVARIANTS TypeOK HolderCounted NoPhantom
PROPERTY ImplementsSlots
