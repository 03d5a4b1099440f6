SPECIFICATION Spec
CONSTANTS
    Ids = {i1, i2}
    Dialog = Dialog
    Cancelled = Cancelled
    NoTab = NoTab
    MaxSaid = 1
    Cap = 2
SYMMETRY Interchangeable
CHECK_DEADLOCK FALSE
INVARIANT NoOrphans
