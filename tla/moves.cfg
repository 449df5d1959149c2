SPECIFICATION FairSpec
CONSTANTS
    j1 = j1
    j2 = j2
    NoJob = NoJob
    Jobs = {j1}
    Items = {1, 2}
    Files = {11, 12, 21, 22, 23}
    JobItems <- OneJob
    ItemFiles <- GroupAndFolder
    Folders = {2}
    Late = {22, 23}
    Odd = {23}
    ToLibrary = TRUE
    Taken = {21}
    MaxFaults = 2
INVARIANTS TypeOK NoFileLost DoneIsMoved PromiseSafe
PROPERTIES JobsEnd ImplementsJobs
CHECK_DEADLOCK FALSE
