SPECIFICATION Spec
CONSTANTS
    Ids = {i1, i2}
    Names = {n1, n2, n3}
    Emails = {e1, e2, e3}
    Slots = {s1, s2, s3}
    MaxMoved = 1
    NoEmail = NoEmail
    NoUser = NoUser
    NoRow = NoRow
    Local = Local
INVARIANTS
    CleanSyncMirrors
    OneUserPerRow
PROPERTIES
    DeactivatesOnlyGone
    RefusedUntouched
    ImplementsAtomic
SYMMETRY Alike
