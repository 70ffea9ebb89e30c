SPECIFICATION Spec
CONSTANTS
    Ids = {i1, i2}
    Names = {n1, n2}
    Emails = {e1, e2}
    Slots = {s1, s2, s3}
    MaxMoved = 1
    NoEmail = NoEmail
    NoUser = NoUser
    NoRow = NoRow
    Local = Local
INVARIANT ReportedIsStored
SYMMETRY Alike
CHECK_DEADLOCK FALSE
