\* A reader stores its list while a writer purges.
SPECIFICATION Spec
CONSTANTS
    Null = Null
    p1 = p1
    k1 = k1
    k2 = k2
    r1 = r1
    r2 = r2
    Projects = {p1}
    Queries = {k1}
    Requests = {r1, r2}
    Ops <- AllRoutes
    Failures = FALSE
    MaxVersion = 1
    MaxPeople = 0
SYMMETRY Symmetry
PROPERTIES
    PurgeLeavesNothingOlder
