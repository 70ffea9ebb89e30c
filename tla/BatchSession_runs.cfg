SPECIFICATION FairSpec
CONSTANTS
    d1 = d1
    d2 = d2
    p1 = p1
    p2 = p2
    r1 = r1
    None = None
    Domains = {d1, d2}
    Pool = {p1}
    Requests = {r1}
    MaxText = 2
    MaxRuns = 2
INVARIANTS
    RevertsOnlyInWindow
    ReportIsStored
PROPERTIES
    LockedIsReleased
