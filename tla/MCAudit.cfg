SPECIFICATION AuditSpec
CONSTANTS
  Places = {"root", "a", "*", ""}
  Asked <- SomeResources
  Ids = {1}
  Writers = {w1, w2}
  StreamAge = 1
  Retention = 1
  MaxAge = 2
  MaxFaults = 2
  None = None
CHECK_DEADLOCK FALSE
INVARIANTS
  AuditTypeOK
  AllowedIsTrue
  AckedIsStored
PROPERTIES
  RecordReachesTable
  RetentionIsKept
