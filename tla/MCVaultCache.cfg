SPECIFICATION Spec
CONSTANTS
    Secrets = {s1}
    Values = {a}
    Shares = {x1}
    MaxLate = 1
    NoRow = NoRow
    NoCache = NoCache
    Empty = Empty
    NoFile = NoFile
    Idle = Idle
    Resting = Resting
    Unsure = Unsure
INVARIANT DiskMatches
INVARIANT GoneStaysGone
PROPERTY RemovalKeepsOut
PROPERTY Implements
INVARIANT OnlyAccepted
INVARIANT OwnWriteKept
