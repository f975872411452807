\* Two registrations or profile changes at a time, two users.
SPECIFICATION Spec
CONSTANTS
    Null = Null
    small = small
    capital = capital
    other = other
    n1 = n1
    n2 = n2
    h1 = h1
    h2 = h2
    q1 = q1
    q2 = q2
    Spellings = {small, capital, other}
    EmailStr <- Normalized
    Names = {n1, n2}
    Passwords = {h1, h2}
    Requests = {q1, q2}
    MaxUsers = 2
SYMMETRY Symmetry
VIEW InProgress
INVARIANTS
    TypeOK
    OneAccountPerEmail
PROPERTY
    OnlyNamedColumns
