SPECIFICATION FairSpec
CONSTANTS
    a1 = a1
    c1 = c1
    c2 = c2
    Agents = {a1}
    Commands = {c1}
    Mqtt = {c1}
    Scheduled = {}
    Targets <- OnlyC1
    Paths <- PathOfC1
    MaxSeq = 1
    Requests = {1, 2}
    ResultKeys = {"file"}
    MaxCrash = 1
INVARIANTS
    LostOnlyInWindow
    PolledOncePerRequest
PROPERTIES
    OnlyForward
    CreateIsTaken
CHECK_DEADLOCK FALSE
