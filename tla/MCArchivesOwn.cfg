SPECIFICATION Spec
CONSTANTS
    Op = {o1, o2}
    Name = {"data.zip", "data-1.zip", "data", "data-1"}
    Archive = "data.zip"
    Candidates <- MCCandidates
    None = None
    User = User
CHECK_DEADLOCK FALSE
PROPERTY RemovesOwn
