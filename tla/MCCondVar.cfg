SPECIFICATION Spec
CONSTANTS
  Threads = {t1, t2, t3, t4}
  NoThread = none
  Restored = {t1}
  MaxSignals = 3
SYMMETRY Symmetry
INVARIANTS TypeOK NoStaleWakeup NoSleeperStranded OthersUnharmed
PROPERTIES WakeForgets SleepersSpec
CHECK_DEADLOCK FALSE
