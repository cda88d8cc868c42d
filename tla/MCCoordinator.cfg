SPECIFICATION FairSpec
CONSTANTS
  m1 = m1
  m2 = m2
  m3 = m3
  s1 = s1
  s2 = s2
  Mutexes = {m1, m2, m3}
  StaticMutexes = {m1, m2}
  Semaphores = {s1}
  SemCount = 0
  MaxRunners = 3
  Programs <- MainCreatesAll
  CodeOf <- MCCodeOf
  HandleOf <- MCHandleOf
  FirstOp <- MCFirstOp
  LiveIn <- MCLiveIn
  NoOp = NoOp
  MaxDepth = 18
INVARIANTS TypeOK ModelMatchesProcess DeadlockIsReal HandlesRemainValid AbnormalEndReported
PROPERTIES Terminates
CHECK_DEADLOCK FALSE
