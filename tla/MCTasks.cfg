\* All the routes, two requests, two workspaces.
SPECIFICATION Spec
CONSTANTS
    Null = Null
    u1 = u1
    u2 = u2
    ghost = ghost
    w1 = w1
    w2 = w2
    p1 = p1
    l1 = l1
    l2 = l2
    c1 = c1
    c2 = c2
    q1 = q1
    q2 = q2
    Users = {u1, u2}
    UserIds = {u2, ghost}
    Workspaces = {w1, w2}
    Projects = {p1}
    Labels = {l1, l2}
    Home <- Homes
    Contents = {c1, c2}
    Grants <- Roles
    Requests = {q1, q2}
    RouteSets <- Themes
    MaxTasks = 1
    MaxRows = 2
SYMMETRY Symmetry
VIEW InProgress
INVARIANTS
    TypeOK
    NoDanglingRows
    OneAttachment
    LabelsAtHome
    AssignmentsInHand
PROPERTIES
    OnlyNamedColumns
    WritesWhereAdmitted
    ImplementsBoard
