\* Two workers, one fault, a repair of any sort or a cleared queue after the
\* creation.  It stops when the bounds on requests and jobs are reached.
CONSTANTS
  Workers = {w1, w2}
  Prompts = {p1, p2}
  Jobs = {j1, j2, j3, j4, j5}
  MaxAttempts = 2
  AdminOps = {"create", "re_extract", "retry_pending", "retry_failed",
              "retry_extracting", "cleanup_stuck", "clear_jobs"}
  MaxOps = 2
  MaxFaults = 1
SPECIFICATION Spec
SYMMETRY Symmetry
CHECK_DEADLOCK FALSE
INVARIANTS
  TypeOK
  ExtractJobsHaveMarkdown
  CompletedHasAllRows
  WorkIsOwned
