SPECIFICATION FairSpec
CONSTANTS
    f = f
    Nothing = Nothing
    Jobs = {1, 2}
    Files = {f}
    FileOf <- TwoMoves
    Slots = {1, 2}
    MaxOps = 3
INVARIANT TypeOK
PROPERTIES NoOlderTree TreeFollows
CHECK_DEADLOCK FALSE
