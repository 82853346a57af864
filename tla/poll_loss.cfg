SPECIFICATION Spec
CONSTANTS
  p1 = p1
  p2 = p2
  l1 = l1
  l2 = l2
  l3 = l3
  m1 = m1
  m2 = m2
  Message = {m1, m2}
  Listener = {l1, l2, l3}
  NoListener = NoListener
  Poll = {p1, p2}
  NoPoll = NoPoll
  Capacity = 2
  MaxTalkers = 1
  MaxSwitches = 1
  MaxRefreshes = 0
  MaxBreaks = 1
SYMMETRY Objects
INVARIANTS
  TypeOK
  
PROPERTIES
  LossExplained
