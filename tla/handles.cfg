SPECIFICATION Spec
CONSTANTS
  h1 = h1
  h2 = h2
  h3 = h3
  Handle = {h1, h2, h3}
  ThreadHandle = {h3}
  Key <- OwnKeys
  Delays = {1}
  Deadlines = {1}
  Shifts <- BackAndForth
  MaxTime = 1
  MaxOffset = 1
INVARIANTS
  TypeOK
  PendingIsTracked
  TrackedIsLive
  CancelledIsDead
  CalledAtMostOnce
  SweptNeverPending
  LaterKeepsDeadline
  PoppedIsDue
SYMMETRY LoopThread
