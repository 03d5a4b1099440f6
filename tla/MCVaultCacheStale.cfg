SPECIFICATION Spec
CONSTANTS
    Secrets = {s1}
    Values = {a, b}
    Shares = {}
    MaxLate = 0
    NoRow = NoRow
    NoCache = NoCache
    Empty = Empty
    NoFile = NoFile
    Idle = Idle
    Resting = Resting
    Unsure = Unsure
INVARIANT OwnWriteSeen
