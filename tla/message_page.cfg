SPECIFICATION FairSpec
CONSTANTS
  o1 = o1
  Once = {o1}
  MaxPosted = 4
  MaxErrors = 1
  maxKeep = 3
  DisplayLimit = 2
INVARIANTS
  TypeOK
  UnreadCovers
  ChatShowsAll
PROPERTIES
  AppendKeepsNewest
  LoadingEnds
