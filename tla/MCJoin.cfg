SPECIFICATION FairSpec
CONSTANTS
  main = main
  t1 = t1
  t2 = t2
  Threads <- MCThreads
  Main = main
  NoThread = none
  Joins <- MCJoins
INVARIANTS TypeOK LivesUntilJoined JoinWaits
PROPERTY RoundsEnd
CHECK_DEADLOCK FALSE
