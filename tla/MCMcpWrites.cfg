SPECIFICATION MCSpec
CONSTANTS
    s1 = s1
    c1 = c1
    writer = writer
    Follow = Follow
    Unshared = Unshared
    Never = Never
    NoCall = NoCall
    Sessions = {s1}
    Calls = {c1}
    Agents = {writer}
    Writers = {writer}
    UsedModes = {"ask", "auto"}
    UsedDangers <- AllDangers
    MaxSeq = 1
    MaxChunks = 1
    Shares = 2
    Tabs = {"t1", "t2"}
    Choices <- MCChoices
    None = None
CONSTRAINT Apart
INVARIANT ForgottenWithSharing
INVARIANT SharesApart
PROPERTY UnaskedOnlyIfOpen
PROPERTY GateSeesSharing
