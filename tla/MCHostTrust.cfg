SPECIFICATION Spec
CONSTANTS
    direct = direct
    jumped = jumped
    web = web
    jump = jump
    Attempts = {direct, jumped}
    Hosts = {web, jump}
    Keys = {k1, k2}
    Rsa = {k2}
    NoKey = NoKey
    Hops <- MCHops
    Policies <- MCPolicies
    Limit = 2
    MaxQuestions = 1
CHECK_DEADLOCK FALSE
INVARIANT OnlyVouched
INVARIANT Remembered
PROPERTY LinesStay
PROPERTY AttemptsEnd
