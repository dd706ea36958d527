\* Ids are reused after a clearing.
CONSTANTS
  Workers = {w1, w2}
  Clients = {a}
  Types = {"extract"}
  MaxAttempts = 2
  MaxJobs = 2
  MaxLosses = 0
  MaxClears = 1
SPECIFICATION Spec
CHECK_DEADLOCK FALSE
PROPERTIES
  OwnHistory
