SPECIFICATION MCSpec
CONSTANTS
    D = D
    S = S
    X = X
    agreed = agreed
    other = other
    NoTip = NoTip
    NoState = NoState
    NoBranch = NoBranch
    NoRoot = NoRoot
    NoTarget = NoTarget
    MaxTip = 2
    MaxChanges = 2
    Def = D
    DefaultBranch = agreed
    Checkouts <- MCCheckouts
    Paths <- MCPaths
    Inside <- MCInside
    Branches <- MCBranches
INVARIANTS
    StatePullIsAuthorized
    SuccessBelongsToTarget
    OutcomeIsTrue
PROPERTIES
    PillMatchesObservations
    SyncEnds
