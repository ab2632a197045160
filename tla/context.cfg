SPECIFICATION ContextFairSpec
CONSTANTS
  Job = {j1}
  Own = {p1}
  User = {p2}
  Call = {exit, s1}
  NeedsLoop = {j1}
  Faulty = {p2}
  None = None
  Exit = exit
  Setting = {debug}
INVARIANTS
  ContextTypeOK
  NoWorkAfterShutdown
  JoinIsShort
  SoleShutdownSucceeds
  MadeExecutorsEnd
  ExitIsClean
PROPERTIES
  ShutdownEnds
CHECK_DEADLOCK FALSE
