SPECIFICATION Spec
CONSTANTS
  topic = topic
  reply = reply
  reply2 = reply2
  other = other
  NoRef = NoRef
  Timer = timer
  t1 = t1
  Message = {topic, reply, reply2, other}
  RefOf <- MCRefOf
  Rows <- TwoTopics
  Unknown = {}
  Thread = {t1}
  SizeLimit = 1
  TryMaxTimes = 2
  MaxOps = 4
  MaxCalls = 1
INVARIANTS
  ChainComplete
  BackRefAccounts
  LRUExact
  InUseIsCached
  
CHECK_DEADLOCK FALSE
