SPECIFICATION Spec
CONSTANTS
    a1 = a1
    c1 = c1
    c2 = c2
    Agents = {a1}
    Commands = {c1, c2}
    Mqtt = {c1}
    Scheduled = {c2}
    Targets <- MCTargets
    Paths <- OnePath
    MaxSeq = 2
    Requests = {1}
    ResultKeys = {"file"}
    MaxCrash = 1
INVARIANTS
    PushedAreCommitted
    FinishedIffReported
    NoRunBehindOutstanding
PROPERTIES
    ImplementsLedger
CHECK_DEADLOCK FALSE
