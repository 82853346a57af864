SPECIFICATION Spec
CONSTANTS
  topic = topic
  vote = vote
  vote2 = vote2
  reply = reply
  reply2 = reply2
  ann = ann
  bob = bob
  NoRef = NoRef
  Deleted = Deleted
  NoMessage = NoMessage
  l1 = l1
  Message = {topic, vote, reply, reply2}
  RefOf <- MCRefOf
  SenderOf <- MCSenderOf
  VoteOfMe <- MCVotes
  Preload <- TopicPreloaded
  Flusher = {}
  Stopper = {}
  Listener = {l1}
  Deletable = {topic, reply}
  BatchNumber = 2
  GiveUpAfter = 0
  MaxBusy = 1
INVARIANTS
  TypeOK
  AcceptedInOnePlace
  PinsCoverReleases
  SavedOrExplained
  NoDanglingReference
  NoSegmentedHistory
PROPERTIES
  WriteBehindSpec
