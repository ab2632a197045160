SPECIFICATION Spec
CONSTANTS
  h1 = h1
  h2 = h2
  h3 = h3
  Handle = {h1, h2}
  ThreadHandle = {}
  Key <- OneKey
  Delays = {1}
  Deadlines = {2}
  Shifts <- Forward
  MaxTime = 2
  MaxOffset = 1
INVARIANT SweptNeverPending
