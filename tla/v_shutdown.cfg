SPECIFICATION Spec
CONSTANTS
  ta = ta
  tb = tb
  tc = tc
  sv = sv
  si = si
  ac = ac
  tr = tr
  sg = sg
  rd = rd
  wr = wr
  hd = hd
  he = he
  None = None
  Resource = {ta, sv}
  ClassOf <- Classes
  ServerOf <- Servers
  Idle = {}
  Early = {ta, sv}
  Late = {}
  Faulty = {}
  Stubborn = {}
  Slow = {}
  Abortable = {}
  Key <- Keys
INVARIANT EverythingReleased
CHECK_DEADLOCK FALSE
