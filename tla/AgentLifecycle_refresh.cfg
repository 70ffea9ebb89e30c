CONSTANTS
    a1 = a1
    a2 = a2
    Agents = {a1, a2}
    Life = 4
    Ahead = 2
    First = 2
SPECIFICATION Spec
SYMMETRY Symmetry
INVARIANTS
    TokenOutlastsFailures
    DateNotLater
    OneRefreshWaits
    DateOutlastsFailures
