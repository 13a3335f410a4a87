SPECIFICATION Spec
CONSTANTS
  MaxMessages = 2
  MaxRows = 3
  MaxAttempts = 2
  Drainers = {"tick", "flush"}
  MaxFaults = 0
  SavedAs = {"public"}
INVARIANT RewindReachesRecordare
CHECK_DEADLOCK FALSE
