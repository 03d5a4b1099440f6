SPECIFICATION Spec
CONSTANTS
    Ids = {i1, i2}
    Dialog = Dialog
    Cancelled = Cancelled
    NoTab = NoTab
    MaxSaid = 3
    Cap = 3
SYMMETRY Interchangeable
CHECK_DEADLOCK FALSE
INVARIANT ScreenIsOutput
INVARIANT DownIsTrue
INVARIANT Accounted
INVARIANT ClosedLetGo
