\* Two runs that may overlap, be cut off or be refused, while two profiles are
\* translated, published and withdrawn, and their sources gain, lose and change
\* a category that is switched; one more than fits would be one page over the
\* limit.  What a page says plays no part here, so there are no fields.  It
\* stops when the bound on requests is reached.
CONSTANTS
  Sources = {s1, s2}
  Fields = {}
  Translatable = {}
  Tasks = {t1}
  Jobs = {j1}
  Categories = {c1}
  Runs = {r1, r2}
  PageLimit = 1
  MaxAttempts = 1
  AdminOps = {"publish", "unpublish", "re_extract", "generate_english",
    "generate_site", "generate_english_site", "update_source",
    "update_category", "delete_category"}
  MaxOps = 3
  MaxFaults = 1
SPECIFICATION Spec
SYMMETRY Symmetry
CHECK_DEADLOCK FALSE
INVARIANTS
  SiteTypeOK
  FullRunIsExact
  OwnOutputClearable
PROPERTIES
  ForeignKept
