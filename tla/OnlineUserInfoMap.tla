-------------------------- MODULE OnlineUserInfoMap --------------------------
(* runtime/OnlineUserInfoMap.java: the users that are online, as a map from *)
(* id to name and, beside it, the set of names taken.  Every operation runs *)
(* under one lock, so each is one atomic relation between the two fields    *)
(* before and after it and the result it returns.                           *)

CONSTANTS
  Id,             \* idBytes of users
  Name,           \* user names
  NoName,         \* the map has no entry
  Suffixed        \* Suffixed[n]: the names n + Utility.randomSuffix() can be

ASSUME SuffixedAssumption == /\ NoName \notin Name
                             /\ Suffixed \in [Name -> SUBSET Name]

VARIABLES
  idMapInfo,      \* idMapInfo[id]: the name under which id is online
  userNames       \* the names taken

mapVars == <<idMapInfo, userNames>>

User == [id : Id, name : Name]

\* LoginResult: the user actually logged in, or one of two failures; an
\* exception (no such id to update) is a third.
IdClash == [failure |-> "id clash"]
NameFull == [failure |-> "name full"]
Thrown == [failure |-> "exception"]
LoginResult == User \cup {IdClash, NameFull}

Online(id) == idMapInfo[id] # NoName
OnlineAs(u) == idMapInfo[u.id] = u.name

MapTypeOK == /\ idMapInfo \in [Id -> Name \cup {NoName}]
             /\ userNames \subseteq Name
MapInit == /\ idMapInfo = [id \in Id |-> NoName]
           /\ userNames = {}

NameTaken_Unchecked(u) == FALSE   \* mutant
NameTaken(u) == u.name \in userNames

Insert(u) ==
  /\ idMapInfo' = [idMapInfo EXCEPT ![u.id] = u.name]
  /\ userNames' = userNames \cup {u.name}

\* A hundred random suffixes are drawn: one that is free is taken; all of
\* them may be taken names as soon as one suffixed name is taken.
DrawFree(u, r) ==
  \E n \in Suffixed[u.name] \ userNames : r = [u EXCEPT !.name = n]
DrawFails(u) == Suffixed[u.name] \cap userNames # {}

\* The same user again is accepted, an id online under another name is a
\* clash, a taken name gets a suffix.
putUserInfo(u, r) ==
  \/ /\ Online(u.id)
     /\ r = IF OnlineAs(u) THEN u ELSE IdClash
     /\ UNCHANGED mapVars
  \/ /\ ~Online(u.id)
     /\ \/ ~NameTaken(u) /\ r = u
        \/ NameTaken(u) /\ DrawFree(u, r)
     /\ Insert(r)
  \/ /\ ~Online(u.id) /\ NameTaken(u) /\ DrawFails(u)
     /\ r = NameFull
     /\ UNCHANGED mapVars

\* Only the exact user, id and name, is removed.
weakSame_IdOnly(u) == Online(u.id)   \* mutant
weakSame(u) == OnlineAs(u)

remove(u) ==
  IF weakSame(u)
  THEN /\ idMapInfo' = [idMapInfo EXCEPT ![u.id] = NoName]
       /\ userNames' = userNames \ {u.name}
  ELSE UNCHANGED mapVars

\* The name a rename gives back.
GivenBack_Kept(id) == {}   \* mutant
GivenBack(id) == {idMapInfo[id]}

\* The key is looked up before the lock is taken and again under it; either
\* way a missing key throws and changes nothing, so the lookups are one step.
updateUserInfo(u, r) ==
  LET clash == ~OnlineAs(u) /\ NameTaken(u) IN
  \/ /\ ~Online(u.id)
     /\ r = Thrown
     /\ UNCHANGED mapVars
  \/ /\ Online(u.id)
     /\ \/ ~clash /\ r = u
        \/ clash /\ DrawFree(u, r)
     /\ idMapInfo' = [idMapInfo EXCEPT ![u.id] = r.name]
     /\ userNames' = (userNames \ GivenBack(u.id)) \cup {r.name}
  \/ /\ Online(u.id) /\ clash /\ DrawFails(u)
     /\ r = NameFull
     /\ UNCHANGED mapVars

MapNext == \E u \in User : \/ \E r \in LoginResult \cup {Thrown} :
                                putUserInfo(u, r) \/ updateUserInfo(u, r)
                           \/ remove(u)

-----------------------------------------------------------------------------
\* stateConsist: the names taken are exactly the names of the users online,
\* and there are as many of them, so no two users online share a name.  The
\* index is kept by hand in five places, and putUserInfo and updateUserInfo
\* trust it to tell whether a name is free.
stateConsist ==
  /\ userNames = {idMapInfo[id] : id \in {i \in Id : Online(i)}}
  /\ \A i, j \in Id : Online(i) /\ idMapInfo[i] = idMapInfo[j] => i = j

\* The map keeps the promise of the abstract directory of names.
Directory == INSTANCE NameDirectory WITH who <- idMapInfo
DirectorySpec == Directory!Spec
=============================================================================
