SPECIFICATION FairSpec
CONSTANTS
  main = main
  t1 = t1
  t2 = t2
  mutex = mutex
  sem = sem
  cond = cond
  Threads <- MCThreads
  Main = main
  Mutexes = {mutex}
  Sems = {sem}
  Conds = {cond}
  Programs <- MCPrograms
  NoThread = none
  NoOp = noop
INVARIANTS TypeOK ThreadsRestored SemaphoresRestored MutexesRestored NoPhantomLock NoWaiterForgotten
PROPERTIES BarrierPasses
CHECK_DEADLOCK FALSE
