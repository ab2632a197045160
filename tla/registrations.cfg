SPECIFICATION Spec
CONSTANTS
  p1 = p1
  p2 = p2
  r1 = r1
  r2 = r2
  s1 = s1
  Proxy = {p1, p2}
  Slot = {r1, r2, s1}
  SignalSlot = {s1}
  Parent = Parent
  Nobody = Nobody
  MaxCalls = 1
INVARIANTS
  TypeOK
  OwnerKnows
  CleanOwnsNothing
SYMMETRY Symmetric
