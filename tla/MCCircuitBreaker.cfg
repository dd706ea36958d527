\* Three callers, so that a stale call can be out next to two probes.
CONSTANTS
  Callers = {c1, c2, c3}
  Threshold = 2
  Timeout = 2
  CallTimeout = 2
  CountCap = 3
SPECIFICATION FairSpec
INVARIANTS
  StateAgrees
  NeverWedged
  NoCallInPause
  OnlyProbesWhileHalfOpen
PROPERTIES
  RecoversWithBackend
  CutsOffDeadBackend
