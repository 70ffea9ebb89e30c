SPECIFICATION FairSpec
CONSTANTS
    r1 = r1
    r2 = r2
    r3 = r3
    v1 = v1
    v2 = v2
    v3 = v3
    s1 = s1
    s2 = s2
    d1 = d1
    d2 = d2
    a1 = a1
    c1 = c1
    k1 = k1
    hostA = hostA
    hostB = hostB
    NoVersion = NoVersion
    NoOne = NoOne
    Instances = {s1, s2}
    Sources = {d1, d2}
    Apps = {a1}
    Clusters = {k1}
    Conns = {c1}
    Results = {r1, r2}
    Sent <- SentTwo
    From <- FromTwo
    Hosts = {hostA}
    Versions = {v1, v2}
    Config <- UpgradeConfig
    Handlers = {"h1", "h2"}
    MaxChain = 2
INVARIANTS
    InstancesFollow
    HistoryComplete
    NoOrphans
    LinksFollow
PROPERTIES
    SettledStays
    RunEnds
    ImplementsSerial
CHECK_DEADLOCK FALSE
