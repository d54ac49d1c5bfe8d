SPECIFICATION ProcessSpec
CONSTANTS
  Files <- Installations
  Pods <- ThePods
  MaxJobs = 1
  Attempts = 2
CHECK_DEADLOCK FALSE
INVARIANTS
  ProcessTypeOK
  ClosesWhatItMade
  SendsFinishFirst
  StoppedByItsOwn
PROPERTIES
  StopsAsOne
