SPECIFICATION Spec
CONSTANTS
  a = a
  b = b
  c = c
  s = s
  MaxRunners = 3
  Mutexes = {a, b, c}
  Semaphores = {s}
  SemCount = 0
  Programs <- FoundPrograms
INVARIANTS TypeOK DepthZeroNeverRestored EveryOutcomeFound
PROPERTIES NoTraceTwice
\* The search ends.
CHECK_DEADLOCK FALSE
