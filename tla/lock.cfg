SPECIFICATION FairSpec
CONSTANTS
    c1 = c1
    c2 = c2
    c3 = c3
    NoLock = NoLock
    Clients = {c1, c2, c3}
    Owners = {c1, c2, c3}
    Owner <- SharedOwner
    StaleAfter = 1
    MaxTime = 4
    MayCrash = {c1, c3}
INVARIANTS TypeOK MutualExclusion
PROPERTIES ReleaseIsOwn ExpiredLockYields
CHECK_DEADLOCK FALSE
