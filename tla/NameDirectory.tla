--------------------------- MODULE NameDirectory ---------------------------
(* What the map of online users promises: at any time each user id is      *)
(* either offline or online under one name, and no two online ids share a  *)
(* name.  It says nothing of the index of names or of the retries by which *)
(* OnlineUserInfoMap keeps that promise.                                    *)

CONSTANTS Id, Name, NoName   \* NoName is not in Name

VARIABLE who      \* the name each id is online under, NoName when offline

Free(name) == \A id \in Id : who[id] # name

Enter(id, name) ==
  /\ who[id] = NoName
  /\ Free(name)
  /\ who' = [who EXCEPT ![id] = name]

Rename(id, name) ==
  /\ who[id] # NoName
  /\ Free(name)
  /\ who' = [who EXCEPT ![id] = name]

Leave(id) == who' = [who EXCEPT ![id] = NoName]

Init == who = [id \in Id |-> NoName]
Next == \E id \in Id : \/ \E name \in Name : Enter(id, name) \/ Rename(id, name)
                       \/ Leave(id)
Spec == Init /\ [][Next]_who
=============================================================================
