SPECIFICATION Spec
CONSTANTS
  Threads = {t1, t2}
  NoThread = none
  Restored = {t1}
  MaxSignals = 2
PROPERTY WakeRemovesAll
CHECK_DEADLOCK FALSE
