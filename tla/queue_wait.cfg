SPECIFICATION FairSpec
CONSTANTS
  topic = topic
  vote = vote
  vote2 = vote2
  reply = reply
  reply2 = reply2
  ann = ann
  bob = bob
  NoRef = NoRef
  Deleted = Deleted
  NoMessage = NoMessage
  f1 = f1
  s1 = s1
  s2 = s2
  Message = {topic, reply}
  RefOf <- MCRefOf
  SenderOf <- MCSenderOf
  VoteOfMe <- MCVotes
  Preload <- NoPreload
  Flusher = {f1}
  Stopper = {s1, s2}
  Listener = {}
  Deletable = {}
  BatchNumber = 1
  GiveUpAfter = 0
  MaxBusy = 0
INVARIANTS
  FinalRunDrains
PROPERTIES
  WaitersReturn
  QueueIsServed
CHECK_DEADLOCK FALSE
