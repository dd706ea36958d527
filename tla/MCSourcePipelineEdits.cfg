\* One worker, nothing cut short: re-extraction of everything, deletion,
\* switched prompts and cleaning up in any order.  Seven jobs are as many as
\* three requests can bring about, so that no request is refused for want of a
\* number.  It stops when the bound on requests is reached.
CONSTANTS
  Workers = {w1}
  Prompts = {p1, p2}
  Jobs = {1, 2, 3, 4, 5, 6, 7}
  MaxAttempts = 2
  AdminOps = {"create", "re_extract_all", "delete", "toggle_prompt",
              "cleanup_stuck"}
  MaxOps = 3
  MaxFaults = 0
SPECIFICATION FairSpec
ACTION_CONSTRAINT InOrder
CHECK_DEADLOCK FALSE
INVARIANTS
  NoOrphanRows
  AllReExtracted
PROPERTIES
  SourceSettles
