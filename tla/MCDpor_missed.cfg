SPECIFICATION Spec
CONSTANTS
  a = a
  b = b
  c = c
  s = s
  MaxRunners = 3
  Mutexes = {a, b, c}
  Semaphores = {s}
  SemCount = 0
  Programs <- MissedPrograms
INVARIANTS EveryOutcomeFound
\* The search ends.
CHECK_DEADLOCK FALSE
