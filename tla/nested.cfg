SPECIFICATION FairSpec
CONSTANTS
  t1 = t1
  t2 = t2
  Timer = {t1, t2}
  Depth = 2
  Delays = {2}
  Deadlines = {1}
  Shifts = {0, 1}
  MaxTime = 2
  MaxOffset = 1
INVARIANTS
  TypeOK
  PendingIsKept
PROPERTIES
  DueTimersFire
CHECK_DEADLOCK FALSE
