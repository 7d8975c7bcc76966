SPECIFICATION RestoreSpec
CONSTANTS
    Upload = {u1, u2, u3}
    NoUpload = NoUpload
    Valid = {u1, u2}
    Old = Old
    MaxTime = 2
    MaxStops = 3
    FilesMayFail = TRUE
INVARIANTS
    RestoreSound
    OldSurvives
PROPERTIES
    Boots
CHECK_DEADLOCK FALSE
