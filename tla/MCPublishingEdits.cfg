\* One source, a revalidation of the missing values and an edit meanwhile.  It
\* stops when the bound on requests is reached.
CONSTANTS
  Sources = {s1}
  Fields = {f}
  Translatable = {f}
  Tasks = {t1}
  Jobs = {j1}
  MaxAttempts = 2
  AdminOps = {"edit", "revalidate_missing"}
  MaxOps = 2
  MaxFaults = 0
SPECIFICATION PSpec
CHECK_DEADLOCK FALSE
PROPERTIES
  EditsSurvive
