\* Two requests interleave on the member routes of one workspace.
SPECIFICATION Spec
CONSTANTS
    Null = Null
    u1 = u1
    u2 = u2
    u3 = u3
    ghost = ghost
    w1 = w1
    w2 = w2
    q1 = q1
    q2 = q2
    Users <- TwoUsers
    UserIds <- TwoIds
    WorkspaceIds = {w1}
    Names = {n1}
    small = small
    capital = capital
    LabelName <- OneName
    LowerCase <- Lowered1
    Requests = {q1, q2}
    Ops <- AllRoutes
    MaxRows = 3
VIEW InProgress
SYMMETRY RequestsUsers2
INVARIANTS
    TypeOK
    OwnerStaysOwner
    OneRolePerMember
    NoOrphanRows
PROPERTIES
    ImplementsMembership
