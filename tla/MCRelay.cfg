SPECIFICATION MCSpec
CONSTANTS
    MaxChunks = 2
    ShellChunks = 1
    Window = 1
    Buffer = 2
    Queue = 1
    Socket = 1
    Wire = 2
    Key = {"k1", "k2", "k3"}
    Logins <- MCLogins
    MaxRounds = 2
    None = None
CHECK_DEADLOCK FALSE
INVARIANT AsksSparingly
PROPERTY Carried
