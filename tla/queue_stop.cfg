SPECIFICATION Spec
CONSTANTS
  topic = topic
  vote = vote
  vote2 = vote2
  reply = reply
  reply2 = reply2
  ann = ann
  bob = bob
  NoRef = NoRef
  Deleted = Deleted
  NoMessage = NoMessage
  s1 = s1
  Message = {topic}
  RefOf <- MCRefOf
  SenderOf <- MCSenderOf
  VoteOfMe <- MCVotes
  Preload <- NoPreload
  Flusher = {}
  Stopper = {s1}
  Listener = {}
  Deletable = {}
  BatchNumber = 1
  GiveUpAfter = 0
  MaxBusy = 0
INVARIANTS
  StopSavesAll
CHECK_DEADLOCK FALSE
