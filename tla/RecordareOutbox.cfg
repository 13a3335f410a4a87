SPECIFICATION FairSpec
CONSTANTS
  MaxMessages = 2
  MaxRows = 3
  MaxAttempts = 2
  Drainers = {"tick", "flush"}
  MaxFaults = 1
  SavedAs = {"public"}
INVARIANTS TypeOK DeletionQueued PrivacyQueued IngestQueued RestInStep
PROPERTY Settles
CHECK_DEADLOCK FALSE
