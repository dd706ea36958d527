\* The job of a prompt that the YAML file of category c defines, with one more
\* prompt or none at first; or process_source() with any list of three prompts
\* and any graph of dependencies.  Jobs share nothing but the catalogue, so one
\* is enough.  It stops when the job and the requests are done.
CONSTANTS
  p = p
  q = q
  o = o
  c = c
  Prompts = {p, q, o}
  Jobs = {p}
  Categories = {c, d}
  File <- MCFile
  MaxRetries = {1, 3}
  Default = 3
  MaxOps = 2
  MaxAttempts = 2
  BackoffBase = 2
  MaxBackoff = 1
  Required = 6
SPECIFICATION Spec
CHECK_DEADLOCK FALSE
SYMMETRY OtherSymmetry
INVARIANTS
  TypeOK
  WavesAreLevels
  ConfidentMeansValidated
  JobBounded
