\* Two institutions, three spellings of two names, and one extraction that is
\* corrected, validated again or extracted anew while two auto-links run.  It
\* stops when the bound on requests is reached.
CONSTANTS
  tu = tu
  TU = TU
  hu = hu
  Sources = {s1}
  Fields = {f}
  Translatable = {}
  Tasks = {t1, t2}
  Jobs = {}
  MaxAttempts = 1
  AdminOps = {"edit", "re_extract", "revalidate_all", "create_entity",
    "update_entity", "delete_entity", "add_variant", "delete_variant",
    "auto_link"}
  MaxOps = 4
  MaxFaults = 0
  Entities = {e1, e2}
  Names = {tu, TU, hu}
  Lower <- MCLower
  EntityFields = {f}
SPECIFICATION Spec
SYMMETRY Symmetry
CHECK_DEADLOCK FALSE
INVARIANTS
  EntityTypeOK
  LinkedByName
  UndisturbedLinksAll
