\* Everything at once: the real max_attempts, extractions and translations
\* queued by both kinds of callers, a lost process, a clearing.  It stops when
\* the bound on jobs is reached and all are done.
CONSTANTS
  Workers = {w1, w2}
  Clients = {a, b}
  Types = {"extract", "translate"}
  MaxAttempts = 3
  MaxJobs = 2
  MaxLosses = 1
  MaxClears = 1
SPECIFICATION FairSpec
CHECK_DEADLOCK FALSE
INVARIANTS
  OneHolder
  Accounted
  AtMostMaxAttempts
PROPERTIES
  FreshBeforeRetry
  DeliversAsPromised
  EveryJobSettles
