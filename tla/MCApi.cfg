SPECIFICATION ApiSpec
CONSTANTS
  Names = {"a", "b"}
  KeyIds = {"k"}
  TemplateIds = {"t1", "t2", "t3", "t4", "t5"}
  MaxTemplates = 1
  Requests = {q1, q2}
  None = None
  Hosts = {"a", "b", "p", ""}
  Parents <- ParentOfA
  Stated = {"unspecified", "full", "unreadable"}
  Recipients = {r1}
  Expiries = {"ahead"}
  Retuned = {"a"}
  Senders = {q1}
CHECK_DEADLOCK FALSE
INVARIANTS
  ApiTypeOK
  TenantIsolation
  BatchUnderOneCeiling
  AnswerIsTrue
PROPERTIES
  DeactivationIsFinal
  RequestsAreAnswered
