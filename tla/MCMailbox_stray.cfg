SPECIFICATION FairSpec
CONSTANTS
  Threads = {t0, t1}
  Main = t0
  NoMailbox = none
  MaxOps <- MCMaxOps
  MaxNoise = 0
  MaxRestarts = 1
  DirectChild = TRUE
  Deaths = {}
INVARIANT AnswersAreReal
CHECK_DEADLOCK FALSE
