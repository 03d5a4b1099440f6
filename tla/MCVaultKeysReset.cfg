SPECIFICATION Spec
CONSTANTS
    Uuids = {u1}
    Keys = {k1}
    Seals = {h1}
    PlatformSeals = {h1}
    Tasks = {t1}
    Vaults = {v1}
    NoFile = NoFile
    TornFile = TornFile
    NoUnlockers = NoUnlockers
    Locked = Locked
    NoUuid = NoUuid
    Idle = Idle
    MaxBackups = 0
CONSTRAINT BackupBound
SYMMETRY Interchangeable
INVARIANT ResetForgets
