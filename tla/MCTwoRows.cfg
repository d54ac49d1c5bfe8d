SPECIFICATION Spec
CONSTANTS
  r1 = r1
  r2 = r2
  k1 = k1
  k2 = k2
  d1 = d1
  d2 = d2
  v1 = v1
  v2 = v2
  w1 = w1
  Rows <- TwoRows
  Keys <- TwoKeys
  KeyOf <- KeyOfTwo
  ValidKeys <- OneKey
  Dispatchers <- OneDispatcher
  Validators <- OneValidator
  Workers <- OneWorker
  Seqs <- OneSeq
  Base = 1
  MinDelay = 1
  Window = 2
  Width = 8
  MaxAttempts = 1
  MaxLead = 0
  Horizon = 2
  PageSize = 2
  SendStrand = 0
  ValidateStrand = 0
  ValidateTimeout = 0
  MaxPending = 1
  MaxFaults = 0
  TTL = 0
  Prompt = TRUE
  StatsReach = TRUE
PROPERTIES
  AtLeastOneAttempt
