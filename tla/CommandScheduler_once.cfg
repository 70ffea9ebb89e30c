SPECIFICATION FairSpec
CONSTANTS
    once = once
    cyclic = cyclic
    batch = batch
    Commands = {once}
    Server = {}
    Kind <- OnceKind
    ExeAt <- OnceExe
    StopAt <- OnceStop
    Cycle = 1
    Grace = 0
    Workers = {"w1"}
    MaxTime = 3
    MaxCrash = 2
INVARIANT OnceUnlessHalfway
PROPERTY OnetimeFires
CHECK_DEADLOCK FALSE
