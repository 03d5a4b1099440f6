SPECIFICATION Spec
CONSTANTS
    Transfer = {t1, t2}
    Place = {p, d}
    DragPlace = {d}
    Pieces = 2
    MaxFiles = 2
    None = None
    Old = Old
    Hole = Hole
    Removed = Removed
CHECK_DEADLOCK FALSE
INVARIANT NotHalfWritten
