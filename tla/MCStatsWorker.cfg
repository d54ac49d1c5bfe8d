SPECIFICATION StatsSpec
CONSTANTS
  r1 = r1
  None = None
  MaxMsgs = 2
  Kinds <- SomeKinds
  Replicas <- OneReplica
  HourLength = 2
  Retention = 0
  MaxDeliver = 2
  MaxTime = 1
  MaxFaults = 2
  Spans <- SomeSpans
  Pages <- SomePages
CHECK_DEADLOCK FALSE
INVARIANTS
  StatsTypeOK
  CountsEveryEvent
  AckedIsFiled
  ReportIsFaithful
PROPERTIES
  EveryStatSettles
