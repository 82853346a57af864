SPECIFICATION FairSpec
CONSTANTS
  topic = topic
  reply = reply
  reply2 = reply2
  other = other
  NoRef = NoRef
  Timer = timer
  t1 = t1
  t2 = t2
  Message = {topic, reply, reply2}
  RefOf <- MCRefOf
  Rows <- TopicAndReply
  Unknown = {}
  Thread = {t1, t2}
  SizeLimit = 9
  TryMaxTimes = 2
  MaxOps = 1
  MaxCalls = 3
INVARIANTS
  TypeOK
  ChainComplete
  OneRecordEach
  BackRefAccounts

  
CHECK_DEADLOCK FALSE
