SPECIFICATION Spec
CONSTANTS
    Uuids = {u1}
    Keys = {k1}
    Seals = {h1, s1}
    PlatformSeals = {h1}
    Tasks = {t1, t2}
    Vaults = {}
    NoFile = NoFile
    TornFile = TornFile
    NoUnlockers = NoUnlockers
    Locked = Locked
    NoUuid = NoUuid
    Idle = Idle
    MaxBackups = 1
CONSTRAINT BackupBound
SYMMETRY Interchangeable
INVARIANT PasswordBehindDevice
INVARIANT NeverNeither
