\* The last extractions finish before the crawl job has marked the source.
CONSTANTS
  Workers = {w1, w2}
  Prompts = {p1}
  Jobs = {1, 2}
  MaxAttempts = 2
  AdminOps = {"create"}
  MaxOps = 1
  MaxFaults = 0
SPECIFICATION Spec
CHECK_DEADLOCK FALSE
INVARIANTS
  DoneMeansCompleted
