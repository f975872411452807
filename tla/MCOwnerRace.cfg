\* Changing the role of a member while the row changes hands.
SPECIFICATION Spec
CONSTANTS
    Null = Null
    u1 = u1
    u2 = u2
    u3 = u3
    ghost = ghost
    w1 = w1
    w2 = w2
    q1 = q1
    q2 = q2
    Users <- ThreeUsers
    UserIds <- ThreeIds
    WorkspaceIds = {w1}
    Names = {n1}
    small = small
    capital = capital
    LabelName <- OneName
    LowerCase <- Lowered1
    Requests = {q1, q2}
    Ops <- RoleRoutes
    MaxRows = 3
VIEW InProgress
SYMMETRY RequestsUsers3
PROPERTIES
    OwnerRoleKept
