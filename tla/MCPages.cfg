\* Five tasks, pages of one to three, four changes during the walk.
SPECIFICATION Spec
CONSTANTS
    Null = Null
    t1 = t1
    t2 = t2
    t3 = t3
    t4 = t4
    t5 = t5
    Tasks = {t1, t2, t3, t4, t5}
    Limits = {1, 2, 3}
    MaxChanges = 4
SYMMETRY Symmetry
CHECK_DEADLOCK FALSE
INVARIANTS
    TypeOK
    PagesHoldTotal
    OnlyLeavingHides
    OnlyEnteringRepeats
