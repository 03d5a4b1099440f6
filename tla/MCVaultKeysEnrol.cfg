SPECIFICATION Spec
CONSTANTS
    Uuids = {u1}
    Keys = {k1}
    Seals = {s1, s2}
    PlatformSeals = {}
    Tasks = {t1, t2}
    Vaults = {}
    NoFile = NoFile
    TornFile = TornFile
    NoUnlockers = NoUnlockers
    Locked = Locked
    NoUuid = NoUuid
    Idle = Idle
    MaxBackups = 0
CONSTRAINT BackupBound
SYMMETRY Interchangeable
PROPERTY TurningOnKeepsOthers
