SPECIFICATION Spec
CONSTANTS
  t1 = t1
  t2 = t2
  f = f
  q = q
  x = x
  None = None
  Task = {t1}
  Future = {f, q}
  LoopOf <- Loops
INVARIANT ResumedOnProxy
CHECK_DEADLOCK FALSE
