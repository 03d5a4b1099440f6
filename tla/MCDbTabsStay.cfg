SPECIFICATION Spec
CONSTANTS
    Tabs = {t1, t2}
    Calls = {c1, c2}
    Job = job
    Connections = {k1, k2}
    Nothing = Nothing
    Together = 2
    Statements = 1
CHECK_DEADLOCK FALSE
INVARIANT TransactionsStay
