SPECIFICATION BackupSpec
CONSTANTS
    MaxBackups = 2
    Retain = 1
    MaxRestores = 1
    MaxBoots = 2
    DbMayFail = TRUE
INVARIANTS
    BackupSound
PROPERTIES
    KeepsNewest
    RunningEnds
CHECK_DEADLOCK FALSE
