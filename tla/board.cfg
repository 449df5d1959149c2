SPECIFICATION FairSpec
CONSTANTS
    Lists = {l1, l2}
    Orders = {o1, o2}
    Seen = {l1, l2}
    Rows = TRUE
    Slots = {1, 2}
    MaxOps = 3
    Nothing = Nothing
INVARIANTS TypeOK OrderKept ScreenOwed
PROPERTIES HeldStill ScreenSettles
