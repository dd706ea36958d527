\* Two sources that are edited, revalidated, generated, translated and
\* published at the same time.  It stops when the bounds on requests and jobs
\* are reached.
CONSTANTS
  Sources = {s1, s2}
  Fields = {f}
  Translatable = {f}
  Tasks = {t1, t2}
  Jobs = {j1, j2}
  MaxAttempts = 2
  AdminOps = {"edit", "re_extract", "revalidate_source", "revalidate_all",
    "revalidate_missing", "regenerate", "generate_all", "regenerate_all",
    "write_profile", "delete_profile", "publish", "unpublish", "publish_all",
    "queue_translations", "queue_all_translations", "translate_profiles",
    "translate_source", "translate_pending", "generate_english"}
  MaxOps = 3
  MaxFaults = 1
SPECIFICATION PSpec
SYMMETRY Symmetry
CHECK_DEADLOCK FALSE
INVARIANTS
  TypeOK
  OnlyApprovedPublished
  EditKept
  RegenerationRestores
