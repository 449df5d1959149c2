SPECIFICATION FairSpec
CONSTANTS
    Callers = {c1, c2}
    Accounts = {x}
    Keys = {k1}
    NoKey = NoKey
    MaxTokens = 2
    Restores = TRUE
    Lossy = TRUE
    Crashes = TRUE
INVARIANTS TypeOK OneRenewal
PROPERTIES Returns
