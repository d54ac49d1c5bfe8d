SPECIFICATION MCSpec
CONSTANTS
  d1 = d1
  d2 = d2
  c1 = c1
  c2 = c2
  Deliveries <- TwoDeliveries
  Hosts <- SomeHosts
  MaxAttempts = 2
  DialTimeout = 1
  TotalTimeout = 8
  GuardTTL = 240
  Conns <- TwoConns
  Notices <- SomeNotices
  MaxRecipients = 2
CHECK_DEADLOCK FALSE
INVARIANTS
  VerdictIsEarned
  SendWithinGuard
  NoticeIsAttributed
PROPERTIES
  SendEnds
