SPECIFICATION FairSpec
CONSTANTS
  Threads = {t0, t1}
  Main = t0
  NoMailbox = none
  MaxOps <- MCMaxOps
  MaxNoise = 1
  MaxRestarts = 1
  DirectChild = TRUE
  Deaths = {"signal"}
INVARIANTS TypeOK SingleStep ModelMatchesBranch NoLostWakeup
PROPERTIES LockStepSpec RoundEnds DeathNoticed
CHECK_DEADLOCK FALSE
