SPECIFICATION FairSpec
CONSTANTS
  ta = ta
  tb = tb
  tc = tc
  sv = sv
  si = si
  ac = ac
  tr = tr
  sg = sg
  rd = rd
  wr = wr
  hd = hd
  he = he
  None = None
  Resource = {ta, tb, si, ac, tr, hd, he}
  ClassOf <- Classes
  ServerOf <- Servers
  Idle = {si}
  Early = {ta, tb, si, ac, tr, hd}
  Late = {tb, tr, he}
  Faulty = {ta, tr}
  Stubborn = {tb}
  Slow = {tr}
  Abortable = {tr}
  Key <- Keys
INVARIANTS
  TypeOK
  ReleasedAtReturn
  RootIsSpared
PROPERTIES
  Terminates
CHECK_DEADLOCK FALSE
