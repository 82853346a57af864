SPECIFICATION Spec
CONSTANTS
  u1 = u1
  u2 = u2
  u3 = u3
  s1 = s1
  s2 = s2
  t1 = t1
  r1 = r1
  r2 = r2
  User = {u1, u2, u3}
  Session = {s1, s2}
  Topic = {t1}
  Author <- MCAuthor
  OwnIdentity <- MCOwnIdentity
  Request = {r1, r2}
  NoOne = NoOne
  MaxLogins = 1
  MaxFaults = 1
SYMMETRY Requests
INVARIANTS
  TypeOK
  CountedOnce
PROPERTIES
  VotedIsRemembered
  VotedIsTrue
