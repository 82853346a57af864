----------------------- MODULE OnlineUserInfoMap_proofs -----------------------
(* What each operation of the map of online users does to it, for any ids,  *)
(* names and suffixes.  Sessions_proofs builds on these lemmas.             *)
EXTENDS OnlineUserInfoMap, TLAPS

\* The state the operations start from and leave.
MapOK == MapTypeOK /\ stateConsist

\* A failure is not a user: its record has another field.
LEMMA FailuresAreNotUsers ==
  IdClash \notin User /\ NameFull \notin User /\ Thrown \notin User
<1>1. \A u \in User : DOMAIN u = {"id", "name"}
  BY DEF User
<1>2. /\ DOMAIN IdClash = {"failure"}
      /\ DOMAIN NameFull = {"failure"}
      /\ DOMAIN Thrown = {"failure"}
  BY DEF IdClash, NameFull, Thrown
<1>3. "id" # "failure"
  OBVIOUS
<1>4. QED
  BY <1>1, <1>2, <1>3

\* Putting a free name under an id keeps the index exact.
LEMMA SetKeepsMapOK ==
  ASSUME MapOK, NEW id \in Id, NEW name \in Name,
         \A i \in Id : i # id => idMapInfo[i] # name,
         idMapInfo' = [idMapInfo EXCEPT ![id] = name],
         userNames' = (userNames \ {idMapInfo[id]}) \cup {name}
  PROVE  MapOK'
<1> USE SuffixedAssumption DEF MapOK, MapTypeOK, stateConsist, Online
<1>1. MapTypeOK'
  OBVIOUS
<1>2. userNames' \subseteq {idMapInfo'[i] : i \in {j \in Id : Online(j)'}}
  OBVIOUS
<1>3. {idMapInfo'[i] : i \in {j \in Id : Online(j)'}} \subseteq userNames'
  OBVIOUS
<1>4. \A i, j \in Id : Online(i)' /\ idMapInfo'[i] = idMapInfo'[j] => i = j
  OBVIOUS
<1>5. QED
  BY <1>1, <1>2, <1>3, <1>4

\* A name that is not in the index belongs to no id.
LEMMA IndexIsExact ==
  ASSUME MapOK, NEW id \in Id, NEW name \in Name
  PROVE  /\ name \notin userNames => idMapInfo[id] # name
         /\ idMapInfo[id] = NoName => idMapInfo[id] \notin userNames
BY SuffixedAssumption DEF MapOK, MapTypeOK, stateConsist, Online

\* What any operation may do to the map on behalf of id: a step of the
\* abstract directory, or nothing, that leaves other ids alone.
MapStep(id) ==
  /\ MapOK'
  /\ Directory!Next \/ UNCHANGED idMapInfo
  /\ \A i \in Id \ {id} : idMapInfo'[i] = idMapInfo[i]

\* putUserInfo: a success is the user itself or the user under a suffixed
\* name, and it is online as such afterwards.
LEMMA PutStep ==
  ASSUME MapOK, NEW u \in User, NEW r, putUserInfo(u, r)
  PROVE  /\ MapStep(u.id)
         /\ r \in User => /\ r = u \/ (r.id = u.id /\ r.name \in Suffixed[u.name])
                          /\ OnlineAs(r)'
<1> u.id \in Id /\ u.name \in Name
  BY DEF User
<1>1. CASE UNCHANGED mapVars /\ (r \in User => r = u /\ OnlineAs(u))
  BY <1>1 DEF MapStep, MapOK, MapTypeOK, stateConsist, Online, OnlineAs, mapVars
<1>2. CASE /\ ~Online(u.id)
           /\ \/ ~NameTaken(u) /\ r = u
              \/ NameTaken(u) /\ DrawFree(u, r)
           /\ Insert(r)
  <2>1. /\ r \in User /\ r.id = u.id /\ r.name \notin userNames
        /\ r = u \/ r.name \in Suffixed[u.name]
    BY <1>2, SuffixedAssumption DEF DrawFree, NameTaken, User
  <2>2. r.id \in Id /\ r.name \in Name
    BY <2>1 DEF User
  <2>3. \A i \in Id : idMapInfo[i] # r.name
    BY <2>1, <2>2, IndexIsExact
  <2>4. /\ idMapInfo' = [idMapInfo EXCEPT ![r.id] = r.name]
        /\ userNames' = (userNames \ {idMapInfo[r.id]}) \cup {r.name}
    BY <1>2, <2>1, <2>2, IndexIsExact DEF Insert, Online
  <2>5. MapOK'
    BY <2>2, <2>3, <2>4, SetKeepsMapOK
  <2>6. Directory!Enter(r.id, r.name)
    BY <1>2, <2>1, <2>3, <2>4 DEF Directory!Enter, Directory!Free, Online
  <2>7. Directory!Next
    BY <2>2, <2>6 DEF Directory!Next
  <2>8. QED
    BY <2>1, <2>2, <2>4, <2>5, <2>7 DEF MapStep, OnlineAs, MapOK, MapTypeOK
<1>3. QED
  BY <1>1, <1>2, FailuresAreNotUsers DEF putUserInfo

LEMMA RemoveStep ==
  ASSUME MapOK, NEW u \in User, remove(u)
  PROVE  /\ MapStep(u.id)
         /\ ~OnlineAs(u) => UNCHANGED mapVars
<1> u.id \in Id /\ u.name \in Name
  BY DEF User
<1>1. CASE ~OnlineAs(u)
  BY <1>1 DEF remove, weakSame, MapStep, MapOK, MapTypeOK, stateConsist, Online, mapVars
<1>2. CASE OnlineAs(u)
  <2>1. /\ idMapInfo' = [idMapInfo EXCEPT ![u.id] = NoName]
        /\ userNames' = userNames \ {u.name}
        /\ idMapInfo[u.id] = u.name
    BY <1>2 DEF remove, weakSame, OnlineAs
  <2> USE SuffixedAssumption DEF MapOK, MapTypeOK, stateConsist, Online
  <2>2. MapTypeOK'
    BY <2>1
  <2>3. userNames' \subseteq {idMapInfo'[i] : i \in {j \in Id : Online(j)'}}
    BY <2>1
  <2>4. {idMapInfo'[i] : i \in {j \in Id : Online(j)'}} \subseteq userNames'
    BY <2>1
  <2>5. \A i, j \in Id : Online(i)' /\ idMapInfo'[i] = idMapInfo'[j] => i = j
    BY <2>1
  <2>6. Directory!Next
    BY <2>1 DEF Directory!Next, Directory!Leave
  <2>7. QED
    BY <1>2, <2>1, <2>2, <2>3, <2>4, <2>5, <2>6 DEF MapStep
<1>3. QED
  BY <1>1, <1>2

LEMMA UpdateStep ==
  ASSUME MapOK, NEW u \in User, NEW r, updateUserInfo(u, r)
  PROVE  /\ MapStep(u.id)
         /\ r \in User => /\ r = u \/ (r.id = u.id /\ r.name \in Suffixed[u.name])
                          /\ OnlineAs(r)'
<1> u.id \in Id /\ u.name \in Name
  BY DEF User
<1> DEFINE clash == ~OnlineAs(u) /\ NameTaken(u)
<1>1. CASE UNCHANGED mapVars /\ r \notin User
  BY <1>1 DEF MapStep, MapOK, MapTypeOK, stateConsist, Online, mapVars
<1>2. CASE /\ Online(u.id)
           /\ \/ ~clash /\ r = u
              \/ clash /\ DrawFree(u, r)
           /\ idMapInfo' = [idMapInfo EXCEPT ![u.id] = r.name]
           /\ userNames' = (userNames \ GivenBack(u.id)) \cup {r.name}
  <2>1. /\ r \in User /\ r.id = u.id
        /\ r = u \/ r.name \in Suffixed[u.name]
        /\ (OnlineAs(u) /\ r = u) \/ r.name \notin userNames
    BY <1>2, SuffixedAssumption DEF DrawFree, NameTaken, User
  <2>2. r.id \in Id /\ r.name \in Name
    BY <2>1 DEF User
  <2>3. \A i \in Id : i # r.id => idMapInfo[i] # r.name
    <3>1. CASE OnlineAs(u) /\ r = u
      BY <1>2, <3>1 DEF OnlineAs, MapOK, stateConsist
    <3>2. CASE r.name \notin userNames
      BY <2>2, <3>2, IndexIsExact
    <3>3. QED
      BY <2>1, <3>1, <3>2
  <2>4. /\ idMapInfo' = [idMapInfo EXCEPT ![r.id] = r.name]
        /\ userNames' = (userNames \ {idMapInfo[r.id]}) \cup {r.name}
    BY <1>2, <2>1 DEF GivenBack
  <2>5. MapOK'
    BY <2>2, <2>3, <2>4, SetKeepsMapOK
  <2>6. Directory!Rename(r.id, r.name) \/ UNCHANGED idMapInfo
    <3>1. CASE OnlineAs(u) /\ r = u
      BY <2>4, <3>1 DEF OnlineAs, MapOK, MapTypeOK
    <3>2. CASE r.name \notin userNames
      <4>1. \A i \in Id : idMapInfo[i] # r.name
        BY <2>2, <3>2, IndexIsExact
      <4>2. QED
        BY <1>2, <2>1, <2>4, <4>1
        DEF Directory!Rename, Directory!Free, Online
    <3>3. QED
      BY <2>1, <3>1, <3>2
  <2>7. Directory!Next \/ UNCHANGED idMapInfo
    BY <2>2, <2>6 DEF Directory!Next
  <2>8. QED
    BY <2>1, <2>2, <2>4, <2>5, <2>7 DEF MapStep, OnlineAs, MapOK, MapTypeOK
<1>3. QED
  BY <1>1, <1>2, FailuresAreNotUsers DEF updateUserInfo
=============================================================================
