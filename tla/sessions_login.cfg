SPECIFICATION Spec
CONSTANTS
  s1 = s1
  s2 = s2
  i1 = i1
  i2 = i2
  i3 = i3
  ann = ann
  bob = bob
  x = x
  y = y
  NoName = NoName
  NoUser = NoUser
  Id = {i1, i2, i3}
  Name = {ann, bob, x, y}
  Suffixed <- MCSuffixed
  Session = {s1, s2}
  Submitted <- MCSubmitted
  Talker = {i1, i3}
  TryTimes = 2
  MaxFailures = 1
SYMMETRY Suffixes
INVARIANTS
  TypeOK
  stateConsist
  SettledUserOnline
  SettledUserStored
PROPERTIES
  DirectorySpec
