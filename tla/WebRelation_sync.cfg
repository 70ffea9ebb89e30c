CONSTANTS
    a1 = a1
    a2 = a2
    w1 = w1
    w2 = w2
    c1 = c1
    c2 = c2
    Was = {a1, a2}
    Jeus = {a1}
    Webs = {w1, w2}
    Conns = {c1, c2}
    Owner <- MCOwner
    Confs <- MCConfs
    Sync = Sync
    MaxTx = 2
    MaxEdits = 1
SPECIFICATION Spec
INVARIANTS
    SyncedIsExact
    SyncedFlags
    FreshIsLinked
    StoredOnce
PROPERTY IsolatedStays
CHECK_DEADLOCK FALSE
