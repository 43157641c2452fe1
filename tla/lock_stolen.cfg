SPECIFICATION Spec
CONSTANTS
    c1 = c1
    c2 = c2
    c3 = c3
    NoLock = NoLock
    Clients = {c1, c2, c3}
    Owners = {c1, c2, c3}
    Owner <- SharedOwner
    StaleAfter = 1
    MaxTime = 3
    MayCrash = {c1}
INVARIANTS FreshHoldersExclude
CHECK_DEADLOCK FALSE
