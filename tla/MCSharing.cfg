SPECIFICATION MCSpec
CONSTANTS
    Operation = {o1, o2}
    Account = {a}
    None = None
    MaxTyped = 2
    MaxForgets = 1
    MaxCalls = 1
    MaxAttempts = 2
    Path = {"cm"}
    Server = {"web", "mail"}
    Conn = {k1, k2}
    Session = {s1, s2}
    Plans <- MCPlans
CHECK_DEADLOCK FALSE
PROPERTY SharedRightly
PROPERTY AskedOnce
