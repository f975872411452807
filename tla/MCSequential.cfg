\* All the routes, one request at a time.
SPECIFICATION Spec
CONSTANTS
    Null = Null
    u1 = u1
    u2 = u2
    u3 = u3
    ghost = ghost
    w1 = w1
    w2 = w2
    q1 = q1
    q2 = q2
    Users <- TwoUsers
    UserIds <- TwoIds
    WorkspaceIds = {w1, w2}
    Names = {n1}
    small = small
    capital = capital
    LabelName <- TwoSpellings
    LowerCase <- Lowered2
    Requests = {q1}
    Ops <- AllRoutes
    MaxRows = 3
VIEW InProgress
SYMMETRY Users2
INVARIANTS
    LabelNamesUnique
PROPERTIES
    OwnerRoleKept
