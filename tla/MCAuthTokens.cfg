\* Two requests, with failures of Redis and of the process.
SPECIFICATION Spec
CONSTANTS
    Null = Null
    r1 = r1
    r2 = r2
    Users = {alice}
    Requests = {r1, r2}
    AccessLife = 1
    RefreshLife = 2
    Failures = TRUE
    MaxTime = 1
    MaxTokens = 3
VIEW InProgress
SYMMETRY Symmetry
INVARIANTS
    TypeOK
    RevocationHolds
PROPERTIES
    LogoutRevokes
    OnlyTwinsRevoked
