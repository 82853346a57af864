SPECIFICATION FairSpec
CONSTANTS
  p1 = p1
  p2 = p2
  l1 = l1
  l2 = l2
  l3 = l3
  m1 = m1
  m2 = m2
  Message = {m1, m2}
  Listener = {l1, l2}
  NoListener = NoListener
  Poll = {p1, p2}
  NoPoll = NoPoll
  Capacity = 1
  MaxTalkers = 2
  MaxSwitches = 0
  MaxRefreshes = 1
  MaxBreaks = 0
PROPERTIES
  LossExplained
  PollsAnswered
  LazyDelivered
