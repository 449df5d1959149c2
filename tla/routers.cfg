SPECIFICATION FairSpec
CONSTANTS
    Pages = {p1, p2}
    Painter = p1
    Edits = {e1, e2, e3}
    RouteEdits = {e2, e3}
    PortEdits = {e2}
    Stops = {k1}
    Slots = {1, 2}
    MaxStrokes = 2
    MaxOps = 3
    None = None
INVARIANTS TypeOK NoLostEdit
PROPERTIES GridForward ChangesEnd
CHECK_DEADLOCK FALSE
