SPECIFICATION ImportSpec
CONSTANTS
  Client = {c1, c2}
  Group = {g1}
  Storeless = {}
  MaxRevision = 1
  MaxBatches = 2
  MaxUploads = 2
INVARIANTS ImportSound
PROPERTIES RetryRepeatsNothing DiskReclaimed
CHECK_DEADLOCK FALSE
