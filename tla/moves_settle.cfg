SPECIFICATION Spec
CONSTANTS
    j1 = j1
    j2 = j2
    NoJob = NoJob
    Jobs = {j1, j2}
    Items = {1}
    Files = {11}
    JobItems <- SameItem
    ItemFiles <- OneFile
    Folders = {}
    Late = {}
    Odd = {}
    ToLibrary = TRUE
    Taken = {}
    MaxFaults = 1
INVARIANT NoFileLost
CHECK_DEADLOCK FALSE
