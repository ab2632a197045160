SPECIFICATION FairSpec
CONSTANTS
  t1 = t1
  t2 = t2
  f = f
  q = q
  x = x
  None = None
  Task = {t1, t2}
  Future = {f, q, x}
  LoopOf <- Loops
INVARIANTS
  TypeOK
  StepOrWait
  NoStaleWakeup
  OwedCancelIsCarried
PROPERTIES
  CancelIsHeard
  ImplementsCoroutines
CHECK_DEADLOCK FALSE
