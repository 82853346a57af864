SPECIFICATION FairSpec
CONSTANTS
  topic = topic
  reply = reply
  reply2 = reply2
  other = other
  NoRef = NoRef
  Timer = timer
  t1 = t1
  t2 = t2
  u = u
  Message = {topic}
  RefOf <- MCRefOf
  Rows <- TopicRow
  Unknown = {u}
  Thread = {t1, t2}
  SizeLimit = 9
  TryMaxTimes = 2
  MaxOps = 1
  MaxCalls = 2
PROPERTIES
  GetReturns
CHECK_DEADLOCK FALSE
