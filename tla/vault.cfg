SPECIFICATION Spec
CONSTANTS
    Callers = {c1, c2, c3}
    Accounts = {x, y}
    Keys = {k1}
    NoKey = NoKey
    MaxTokens = 3
    Restores = FALSE
    Lossy = FALSE
    Crashes = FALSE
SYMMETRY Alike
INVARIANTS TokenKept
PROPERTIES NotResurrected ImplementsDoc
