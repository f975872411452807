\* Readers, writers and failures interleave on two keys of one project; the time
\* to live repairs whatever went wrong.
SPECIFICATION FairSpec
CONSTANTS
    Null = Null
    p1 = p1
    k1 = k1
    k2 = k2
    r1 = r1
    r2 = r2
    Projects = {p1}
    Queries = {k1, k2}
    Requests = {r1, r2}
    Ops <- AllRoutes
    Failures = TRUE
    MaxVersion = 1
    MaxPeople = 1
INVARIANTS
    TypeOK
    StaleHasCause
PROPERTIES
    EventuallyCoherent
