SPECIFICATION FairSpec
CONSTANTS
  a = a
  d = d
  w = w
  None = None
  Transport = {a, d, w}
  Below <- MCBelow
  Abortable = {a, w}
  Faulty = {d}
  Calls = 2
  Generations <- MCGenerations
INVARIANTS
  TypeOK
  LostAtReturn
  CancelledOnlyIfAsked
PROPERTIES
  WaitEnds
CHECK_DEADLOCK FALSE
