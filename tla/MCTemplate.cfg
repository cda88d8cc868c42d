SPECIFICATION FairSpec
CONSTANTS
  Sources = {"fork", "mtf", "dmtcp"}
  MaxBranches = 3
  Faults = {"fork", "exec", "template", "branch"}
INVARIANTS TypeOK OneBranch HandleIsFresh DeathIsReal StateSentOnce
PROPERTY CreationEnds
CHECK_DEADLOCK FALSE
