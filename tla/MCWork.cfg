SPECIFICATION MCSpec
CONSTANTS
    Target = {x1}
    Command = {d1, d2}
    Setting = {writable, readOnly}
    Gone = Gone
    Transfer = {f1, f2}
    Place = {here, dragged}
    DragPlace = {dragged}
    Pieces = 2
    MaxFiles = 2
    Removed = Removed
    Hole = Hole
    Op = {o1, o2}
    Name = {"data.zip", "data-1.zip", "data", "data-1"}
    Archive = "data.zip"
    Candidates <- MCCandidates
    Tunnel = {t1, t2}
    Port = {p1, p2}
    Caller = {c1, c2}
    None = None
    User = User
    Project = {pa, pb}
    Run = {r1, r2}
    Old = Old
SYMMETRY Interchangeable
CHECK_DEADLOCK FALSE
INVARIANT SettingsKept
INVARIANT OffMeansOff
INVARIANT WholeOrNothing
INVARIANT CancelUndoes
INVARIANT TunnelsStand
INVARIANT GateHolds
PROPERTY OthersSpared
PROPERTY DiscardHolds
