SPECIFICATION FairSpec
CONSTANTS
    Secrets = {s1}
    Values = {a}
    Shares = {}
    MaxLate = 0
    NoRow = NoRow
    NoCache = NoCache
    Empty = Empty
    NoFile = NoFile
    Idle = Idle
    Resting = Resting
    Unsure = Unsure
PROPERTY CatchesUp
