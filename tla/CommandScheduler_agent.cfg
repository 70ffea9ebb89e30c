SPECIFICATION Spec
CONSTANTS
    once = once
    cyclic = cyclic
    batch = batch
    Commands = {cyclic, batch}
    Server = {batch}
    Kind <- CyclicKind
    ExeAt <- CyclicExe
    StopAt <- CyclicStop
    Cycle = 1
    Grace = 0
    Workers = {"w1"}
    MaxTime = 3
    MaxCrash = 1
INVARIANTS
    FinishedIsOver
    AheadHasJob
PROPERTIES
    CancelIsFinal
    ImplementsLife
CONSTRAINTS
    BatchFirst
    BatchStays
    OneEdit
CHECK_DEADLOCK FALSE
