SPECIFICATION Spec
CONSTANTS
    Uuids = {u1, u2}
    Keys = {k1, k2}
    Seals = {h1, s1}
    PlatformSeals = {h1}
    Tasks = {t1}
    Vaults = {v1}
    NoFile = NoFile
    TornFile = TornFile
    NoUnlockers = NoUnlockers
    Locked = Locked
    NoUuid = NoUuid
    Idle = Idle
    MaxBackups = 0
CONSTRAINT BackupBound
SYMMETRY Interchangeable
INVARIANT KeyMatchesFile
INVARIANT LockHolds
PROPERTY OnlyUserOpens
