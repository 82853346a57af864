--------------------------- MODULE Sessions_proofs ---------------------------
(* Theorems about Sessions, for any sessions, ids, names, suffixes and      *)
(* number of tries.                                                          *)
EXTENDS Sessions, OnlineUserInfoMap_proofs

-----------------------------------------------------------------------------
(* Types and the index of names.                                             *)

\* What a login or a logout of s carries at each of its stages.
Carries(s) ==
  /\ login[s].at \in {"enter", "put", "save"} => login[s].saves < TryTimes
  /\ login[s].at # "idle" => login[s].new \in User
  /\ login[s].at \in {"save", "free", "reput"} => login[s].try \in User
  /\ logout[s].at = "enter" => loginedUser[s] # NoUser
  /\ logout[s].at = "remove" => logout[s].user \in User

\* TypeOK but for the map of online users, and what requests carry.
RequestsOK ==
  /\ users \in [Id -> Name \cup {NoName}]
  /\ senders \subseteq Talker
  /\ http \in [Session -> HttpState]
  /\ loginedUser \in [Session -> User \cup {NoUser}]
  /\ login \in [Session -> [at : LoginStage, new : User \cup {NoUser},
                            try : User \cup {NoUser}, saves : 0 .. TryTimes]]
  /\ logout \in [Session -> [at : {"idle", "enter", "remove"},
                             user : User \cup {NoUser}]]
  /\ carriedOut \in [Session -> BOOLEAN]
  /\ failures \in 0 .. MaxFailures
  /\ \A s \in Session : Carries(s)

BasicInv == MapOK /\ RequestsOK

LEMMA BasicInit == Init => BasicInv
<1> SUFFICES ASSUME Init PROVE BasicInv
  OBVIOUS
<1>1. MapOK
  BY SuffixedAssumption
  DEF Init, MapInit, MapOK, MapTypeOK, stateConsist, Online
<1>2. RequestsOK
  BY SessionsAssumption
  DEF Init, RequestsOK, Carries, NoLogin, NoLogout, HttpState, LoginStage
<1>3. QED
  BY <1>1, <1>2 DEF BasicInv

\* A login that ends with an error.
LEMMA FailBasic ==
  ASSUME RequestsOK, NEW s \in Session, Fail(s), UNCHANGED <<users, senders>>,
         failures' \in 0 .. MaxFailures
  PROVE  RequestsOK'
BY SessionsAssumption DEF Fail, RequestsOK, Carries, NoLogin, LoginStage

\* A login that goes on, or fails, with the answer of the map.
LEMMA ProceedBasic ==
  ASSUME RequestsOK, NEW s \in Session, NEW r, Proceed(s, r, "save"),
         login[s].new \in User, login[s].saves < TryTimes,
         UNCHANGED <<users, senders, failures>>
  PROVE  RequestsOK'
<1>1. CASE r \in User
  <2>1. login' = [login EXCEPT ![s] = [login[s] EXCEPT !.at = "save", !.try = r]]
    BY <1>1 DEF Proceed, RequestsOK
  <2>2. UNCHANGED <<http, loginedUser, logout, carriedOut>>
    BY <1>1 DEF Proceed, sessionVars
  <2>3. [login[s] EXCEPT !.at = "save", !.try = r]
          \in [at : LoginStage, new : User \cup {NoUser},
              try : User \cup {NoUser}, saves : 0 .. TryTimes]
    <3>1. /\ login[s] \in [at : LoginStage, new : User \cup {NoUser},
                           try : User \cup {NoUser}, saves : 0 .. TryTimes]
          /\ "save" \in LoginStage
          /\ r \in User \cup {NoUser}
      BY <1>1 DEF RequestsOK, LoginStage
    <3>2. QED
      BY <3>1
  <2>4. \A t \in Session : Carries(t)'
    <3>1. CASE logout[s].at = "enter" => loginedUser[s] # NoUser
      BY <1>1, <2>1, <2>2 DEF RequestsOK, Carries
    <3>2. QED
      BY <3>1 DEF RequestsOK, Carries
  <2>5. QED
    BY <2>1, <2>2, <2>3, <2>4 DEF RequestsOK
<1>2. CASE r \notin User
  <2>1. Fail(s)
    BY <1>2 DEF Proceed
  <2>2. failures' \in 0 .. MaxFailures
    BY DEF RequestsOK
  <2>3. QED
    BY <2>1, <2>2, FailBasic
<1>3. QED
  BY <1>1, <1>2

\* What one step does to the map of online users.
DirectoryStep == Directory!Next \/ UNCHANGED idMapInfo

LEMMA MapUntouched ==
  ASSUME MapOK, UNCHANGED mapVars
  PROVE  MapOK' /\ DirectoryStep
BY DEF MapOK, MapTypeOK, stateConsist, Online, mapVars, DirectoryStep

LEMMA LoginBasic ==
  ASSUME BasicInv, NEW s \in Session, LoginStep(s)
  PROVE  BasicInv' /\ DirectoryStep
<1> USE DEF BasicInv
<1>1. CASE LoginFirst(s)
  <2>1. PICK r \in LoginResult :
          putUserInfo(login[s].new, r) /\ Proceed(s, r, "save")
    BY <1>1 DEF LoginFirst
  <2>2. login[s].new \in User /\ login[s].saves < TryTimes
    BY <1>1 DEF LoginFirst, At, RequestsOK, Carries
  <2>3. MapOK' /\ DirectoryStep
    BY <2>1, <2>2, PutStep DEF MapStep, DirectoryStep
  <2>4. RequestsOK'
    BY <1>1, <2>1, <2>2, ProceedBasic DEF LoginFirst
  <2>5. QED
    BY <2>3, <2>4
<1>2. CASE LoginUnchanged(s)
  <2>1. RequestsOK'
    BY <1>2, SessionsAssumption
    DEF LoginUnchanged, Answer, Recorded, At, RequestsOK, Carries, NoLogin, LoginStage
  <2>2. QED
    BY <1>2, <2>1, MapUntouched DEF LoginUnchanged
<1>3. CASE LoginRename(s)
  <2>1. PICK r \in LoginResult \cup {Thrown} :
          updateUserInfo(login[s].new, r) /\ Proceed(s, r, "save")
    BY <1>3 DEF LoginRename
  <2>2. login[s].new \in User /\ login[s].saves < TryTimes
    BY <1>3 DEF LoginRename, At, RequestsOK, Carries
  <2>3. MapOK' /\ DirectoryStep
    BY <2>1, <2>2, UpdateStep DEF MapStep, DirectoryStep
  <2>4. RequestsOK'
    BY <1>3, <2>1, <2>2, ProceedBasic DEF LoginRename
  <2>5. QED
    BY <2>3, <2>4
<1>4. CASE LoginOther(s)
  <2>1. loginedUser[s] \in User
    BY <1>4 DEF LoginOther, RequestsOK
  <2>2. MapOK' /\ DirectoryStep
    BY <1>4, <2>1, RemoveStep DEF LoginOther, MapStep, DirectoryStep
  <2>3. RequestsOK'
    BY SMTT(20), <1>4, SessionsAssumption
    DEF LoginOther, At, RequestsOK, Carries, sessionVars, LoginStage
  <2>4. QED
    BY <2>2, <2>3
<1>5. CASE LoginPut(s)
  <2>1. PICK r \in LoginResult :
          putUserInfo(login[s].new, r) /\ Proceed(s, r, "save")
    BY <1>5 DEF LoginPut
  <2>2. login[s].new \in User /\ login[s].saves < TryTimes
    BY <1>5 DEF LoginPut, At, RequestsOK, Carries
  <2>3. MapOK' /\ DirectoryStep
    BY <2>1, <2>2, PutStep DEF MapStep, DirectoryStep
  <2>4. RequestsOK'
    BY <1>5, <2>1, <2>2, ProceedBasic DEF LoginPut
  <2>5. QED
    BY <2>3, <2>4
<1>6. CASE LoginSave(s)
  <2>1. CASE Clashing(SavedAs(s)) \cap senders = {}
    <3>1. login[s].try \in User
      BY <1>6 DEF LoginSave, At, RequestsOK, Carries
    <3>2. login[s].try.name \in Name
      BY <3>1 DEF User
    <3>3. users' \in [Id -> Name \cup {NoName}]
      BY <1>6, <2>1, <3>2 DEF LoginSave, ReplaceRows, SavedAs, RequestsOK
    <3>4. /\ loginedUser' = [loginedUser EXCEPT ![s] = login[s].try]
          /\ login' = [login EXCEPT ![s] = NoLogin]
          /\ carriedOut' = [carriedOut EXCEPT ![s] = TRUE]
          /\ UNCHANGED <<http, logout, senders, failures>>
      BY <1>6, <2>1 DEF LoginSave, Succeed, Answer, Recorded
    <3>5. RequestsOK'
      BY <3>1, <3>3, <3>4, SessionsAssumption
      DEF RequestsOK, Carries, NoLogin, LoginStage
    <3>6. QED
      BY <1>6, <3>5, MapUntouched DEF LoginSave
  <2>2. CASE Clashing(SavedAs(s)) \cap senders # {}
    <3>1. RequestsOK'
      BY <1>6, <2>2, SessionsAssumption
      DEF LoginSave, At, RequestsOK, Carries, sessionVars, LoginStage
    <3>2. QED
      BY <1>6, <3>1, MapUntouched DEF LoginSave
  <2>3. QED
    BY <2>1, <2>2
<1>7. CASE LoginSaveFails(s)
  <2>1. failures' \in 0 .. MaxFailures
    BY <1>7, SessionsAssumption DEF LoginSaveFails, RequestsOK
  <2>2. CASE Fail(s)
    BY <1>7, <2>1, <2>2, FailBasic, MapUntouched DEF LoginSaveFails
  <2>3. CASE ~Fail(s)
    <3>1. RequestsOK'
      BY <1>7, <2>1, <2>3, SessionsAssumption
      DEF LoginSaveFails, At, RequestsOK, Carries, sessionVars, LoginStage
    <3>2. QED
      BY <1>7, <3>1, MapUntouched DEF LoginSaveFails
  <2>4. QED
    BY <2>2, <2>3
<1>8. CASE LoginFree(s)
  <2>1. login[s].try \in User
    BY <1>8 DEF LoginFree, At, RequestsOK, Carries
  <2>2. MapOK' /\ DirectoryStep
    BY <1>8, <2>1, RemoveStep DEF LoginFree, MapStep, DirectoryStep
  <2>3. RequestsOK'
    BY SMTT(20), <1>8, SessionsAssumption
    DEF LoginFree, At, RequestsOK, Carries, sessionVars, LoginStage
  <2>4. QED
    BY <2>2, <2>3
<1>9. CASE LoginReput(s)
  <2>1. PICK n \in Suffixed[login[s].new.name], r \in LoginResult :
          /\ putUserInfo([login[s].try EXCEPT !.name = n], r)
          /\ IF LastTry(s) THEN Fail(s) ELSE Proceed(s, r, "save")
    BY <1>9 DEF LoginReput
  <2>2. login[s].new \in User /\ login[s].try \in User
    BY <1>9 DEF LoginReput, At, RequestsOK, Carries
  <2>3. n \in Name
    BY <2>2, SuffixedAssumption DEF User
  <2>4. [login[s].try EXCEPT !.name = n] \in User
    BY <2>2, <2>3 DEF User
  <2>5. MapOK' /\ DirectoryStep
    BY <2>1, <2>4, PutStep DEF MapStep, DirectoryStep
  <2>6. UNCHANGED <<users, senders, failures>> /\ failures \in 0 .. MaxFailures
    BY <1>9 DEF LoginReput, RequestsOK
  <2>7. CASE LastTry(s)
    BY <2>1, <2>5, <2>6, <2>7, FailBasic
  <2>8. CASE ~LastTry(s)
    <3>1. login[s].saves < TryTimes
      BY <2>8, SessionsAssumption DEF LastTry, RequestsOK
    <3>2. QED
      BY <2>1, <2>2, <2>5, <2>6, <2>8, <3>1, ProceedBasic
  <2>9. QED
    BY <2>7, <2>8
<1>10. QED
  BY <1>1, <1>2, <1>3, <1>4, <1>5, <1>6, <1>7, <1>8, <1>9 DEF LoginStep

LEMMA BasicStep ==
  ASSUME BasicInv, [Next]_vars
  PROVE  BasicInv' /\ DirectoryStep
<1> USE DEF BasicInv
<1>1. CASE UNCHANGED vars
  <2>1. RequestsOK'
    BY <1>1 DEF vars, RequestsOK, Carries
  <2>2. QED
    BY <1>1, <2>1, MapUntouched DEF vars, mapVars
<1>2. ASSUME NEW s \in Session, NEW u \in Submitted[s], LoginRequest(s, u)
      PROVE  BasicInv' /\ DirectoryStep
  <2>1. u \in User
    BY SessionsAssumption
  <2>2. login' = [login EXCEPT ![s] = [at |-> "enter", new |-> u,
                                       try |-> NoUser, saves |-> 0]]
    BY <1>2 DEF LoginRequest
  <2>3. UNCHANGED <<users, senders, http, loginedUser, logout, carriedOut, failures>>
    BY <1>2 DEF LoginRequest, sessionVars
  <2>4. RequestsOK'
    BY <2>1, <2>2, <2>3, SessionsAssumption DEF RequestsOK, Carries, LoginStage
  <2>5. QED
    BY <1>2, <2>4, MapUntouched DEF LoginRequest
<1>3. ASSUME NEW s \in Session, LoginStep(s)
      PROVE  BasicInv' /\ DirectoryStep
  BY <1>3, LoginBasic
<1>4. ASSUME NEW s \in Session, LogoutRequest(s)
      PROVE  BasicInv' /\ DirectoryStep
  <2>1. RequestsOK'
    BY <1>4 DEF LogoutRequest, RequestsOK, Carries
  <2>2. QED
    BY <1>4, <2>1, MapUntouched DEF LogoutRequest
<1>5. ASSUME NEW s \in Session, LogoutEnter(s)
      PROVE  BasicInv' /\ DirectoryStep
  <2>1. loginedUser[s] \in User
    BY <1>5 DEF LogoutEnter, RequestsOK, Carries
  <2>2. RequestsOK'
    BY <1>5, <2>1 DEF LogoutEnter, RequestsOK, Carries, HttpState
  <2>3. QED
    BY <1>5, <2>2, MapUntouched DEF LogoutEnter
<1>6. ASSUME NEW s \in Session, Expire(s)
      PROVE  BasicInv' /\ DirectoryStep
  <2>1. RequestsOK'
    <3>1. CASE http[s] = "open" /\ loginedUser[s] # NoUser
      BY <1>6, <3>1 DEF Expire, RequestsOK, Carries, HttpState
    <3>2. CASE ~(http[s] = "open" /\ loginedUser[s] # NoUser)
      BY <1>6, <3>2 DEF Expire, RequestsOK, Carries, HttpState
    <3>3. QED
      BY <3>1, <3>2
  <2>2. QED
    BY <1>6, <2>1, MapUntouched DEF Expire
<1>7. ASSUME NEW s \in Session, SessionCreated(s)
      PROVE  BasicInv' /\ DirectoryStep
  <2>1. RequestsOK'
    BY <1>7 DEF SessionCreated, RequestsOK, Carries, HttpState
  <2>2. QED
    BY <1>7, <2>1, MapUntouched DEF SessionCreated
<1>8. ASSUME NEW s \in Session, LogoutRemove(s)
      PROVE  BasicInv' /\ DirectoryStep
  <2>1. logout[s].user \in User
    BY <1>8 DEF LogoutRemove, RequestsOK, Carries
  <2>2. MapOK' /\ DirectoryStep
    BY <1>8, <2>1, RemoveStep DEF LogoutRemove, MapStep, DirectoryStep
  <2>3. RequestsOK'
    BY <1>8 DEF LogoutRemove, RequestsOK, Carries, NoLogout
  <2>4. QED
    BY <2>2, <2>3
<1>9. ASSUME NEW s \in Session, StoreMessage(s)
      PROVE  BasicInv' /\ DirectoryStep
  <2>1. RequestsOK'
    BY <1>9 DEF StoreMessage, RequestsOK, Carries
  <2>2. QED
    BY <1>9, <2>1, MapUntouched DEF StoreMessage
<1>10. ASSUME NEW id \in Id, DeleteMessages(id)
       PROVE  BasicInv' /\ DirectoryStep
  <2>1. RequestsOK'
    BY <1>10 DEF DeleteMessages, RequestsOK, Carries
  <2>2. QED
    BY <1>10, <2>1, MapUntouched DEF DeleteMessages
<1>11. QED
  BY <1>1, <1>2, <1>3, <1>4, <1>5, <1>6, <1>7, <1>8, <1>9, <1>10
  DEF Next, LogoutStep

LEMMA BasicAlways == Spec => []BasicInv
<1>1. BasicInv /\ [Next]_vars => BasicInv'
  BY BasicStep
<1>2. QED
  BY BasicInit, <1>1, PTL DEF Spec

\* TypeOK: every request carries what its next step needs, and no login tries
\* more often than DATA_STORE_SAVE_TRY_TIMES.
THEOREM TypeCorrect == Spec => []TypeOK
<1>1. BasicInv => TypeOK
  BY DEF BasicInv, MapOK, RequestsOK, TypeOK
<1>2. QED
  BY BasicAlways, <1>1, PTL

\* stateConsist: however logins, logouts and expiries interleave, the set of
\* names taken is exact and no two users online share a name.
THEOREM IndexOfNamesConsistent == Spec => []stateConsist
<1>1. BasicInv => stateConsist
  BY DEF BasicInv, MapOK
<1>2. QED
  BY BasicAlways, <1>1, PTL

\* The sessions as a whole keep the promise of the abstract directory of names.
THEOREM ImplementsDirectory == Spec => DirectorySpec
<1>1. Init => Directory!Init
  BY DEF Init, MapInit, Directory!Init
<1>2. BasicInv /\ [Next]_vars => [Directory!Next]_idMapInfo
  BY BasicStep DEF DirectoryStep
<1>3. QED
  BY BasicAlways, <1>1, <1>2, PTL DEF Spec, DirectorySpec, Directory!Spec

-----------------------------------------------------------------------------
(* A settled user is online and stored, when browsers have their own ids.    *)
(*                                                                           *)
(* The invariant says of each session that its requests only ever name       *)
(* users of its own ids; that a user about to be saved is online under that  *)
(* name, which no logout of the session can take away; and that the user of  *)
(* an open session is online and stored unless a login is past its first     *)
(* step.  Another session cannot disturb that: it moves only its own ids in  *)
(* the map, and a row it replaces for its name is, because names online are  *)
(* distinct, never the row of a user online under that name.                 *)

\* The users session s can be: one it submitted, or an id of its own under a
\* drawn name.
Reach(s) == {u \in User : /\ u.id \in IdsOf(s)
                          /\ u \in Submitted[s] \/ u.name \in DrawnNames}

Quiet(s) == http[s] = "open" /\ carriedOut[s] /\ login[s].at \in {"idle", "enter"}

SessionOK(s) ==
  /\ loginedUser[s] # NoUser => loginedUser[s] \in Reach(s)
  /\ login[s].at # "idle" => login[s].new \in Submitted[s]
  /\ login[s].at \in {"save", "free", "reput"} => login[s].try \in Reach(s)
  /\ login[s].at = "save" => /\ OnlineAs(login[s].try)
                             /\ login[s].try # loginedUser[s]
  /\ logout[s].at = "remove" => /\ http[s] # "open"
                                /\ logout[s].user \in Reach(s)
                                /\ \/ login[s].at = "idle"
                                   \/ logout[s].user = loginedUser[s]
  /\ Quiet(s) => /\ loginedUser[s] # NoUser
                 /\ OnlineAs(loginedUser[s])
                 /\ users[loginedUser[s].id] = loginedUser[s].name

SettledInv == BasicInv /\ \A s \in Session : SessionOK(s)

\* What a step of session s leaves alone of session t.
SessionKept(t) ==
  /\ loginedUser'[t] = loginedUser[t] /\ login'[t] = login[t]
  /\ http'[t] = http[t] /\ logout'[t] = logout[t]
  /\ carriedOut'[t] = carriedOut[t]
Keeps(t) ==
  /\ SessionKept(t)
  /\ \A i \in IdsOf(t) : /\ idMapInfo'[i] = idMapInfo[i]
                         /\ users'[i] = users[i] \/ idMapInfo[i] # users[i]

LEMMA ReachIsOwn ==
  ASSUME NEW s \in Session, NEW u \in Reach(s)
  PROVE  u \in User /\ u.id \in IdsOf(s) /\ u.id \in Id /\ u.name \in Name
BY DEF Reach, User

LEMMA KeptSession ==
  ASSUME NEW t \in Session, SessionOK(t), Keeps(t)
  PROVE  SessionOK(t)'
<1>1. /\ login[t].at = "save" => login[t].try.id \in IdsOf(t)
      /\ Quiet(t) => loginedUser[t].id \in IdsOf(t)
  BY ReachIsOwn DEF SessionOK
<1>2. login[t].at = "save" => OnlineAs(login[t].try)'
  BY <1>1 DEF SessionOK, Keeps, SessionKept, OnlineAs
<1>3. Quiet(t)' <=> Quiet(t)
  BY DEF Keeps, SessionKept, Quiet
<1>4. Quiet(t) => /\ OnlineAs(loginedUser[t])'
                  /\ users'[loginedUser'[t].id] = loginedUser'[t].name
  BY <1>1 DEF SessionOK, Keeps, SessionKept, OnlineAs
<1>5. QED
  BY <1>2, <1>3, <1>4 DEF SessionOK, Keeps, SessionKept, Reach, OnlineAs

\* A step for id of session s is none of the business of session t.
LEMMA OtherIds ==
  ASSUME OwnIdentity, NEW s \in Session, NEW t \in Session, s # t,
         NEW id \in IdsOf(s), MapStep(id)
  PROVE  \A i \in IdsOf(t) : idMapInfo'[i] = idMapInfo[i]
<1>1. \A i \in IdsOf(t) : i \in Id /\ i # id
  BY SessionsAssumption DEF OwnIdentity, IdsOf, User
<1>2. QED
  BY <1>1 DEF MapStep

\* What the map gives to a login of s for one of its own users is one too.
LEMMA OutcomeIsOwn ==
  ASSUME OwnIdentity, NEW s \in Session, NEW u \in Reach(s), NEW r \in User,
         r = u \/ (r.id = u.id /\ r.name \in Suffixed[u.name])
  PROVE  r \in Reach(s)
<1>1. u.name \in Name
  BY ReachIsOwn
<1>2. QED
  BY <1>1 DEF Reach, DrawnNames

LEMMA SubmittedIsOwn ==
  ASSUME NEW s \in Session, NEW u \in Submitted[s]
  PROVE  u \in Reach(s)
BY SessionsAssumption DEF Reach, IdsOf

\* The step of s itself: a login that ends with an error.
LEMMA FailSession ==
  ASSUME SettledInv, NEW s \in Session, Fail(s)
  PROVE  SessionOK(s)' /\ \A t \in Session \ {s} : SessionKept(t)
<1> USE DEF SettledInv, BasicInv, RequestsOK
<1>1. /\ carriedOut' = [carriedOut EXCEPT ![s] = FALSE]
      /\ login' = [login EXCEPT ![s] = NoLogin]
      /\ UNCHANGED <<http, loginedUser, logout>>
  BY DEF Fail
<1>2. SessionOK(s)'
  BY <1>1 DEF SessionOK, Reach, Quiet, NoLogin
<1>3. QED
  BY <1>1, <1>2 DEF SessionKept

\* The step of s itself: a login that goes on to be saved, or fails.
LEMMA ProceedSession ==
  ASSUME SettledInv, NEW s \in Session, NEW r, Proceed(s, r, "save"),
         login[s].at # "idle",
         r \in User => r \in Reach(s) /\ OnlineAs(r)',
         UNCHANGED users
  PROVE  SessionOK(s)' /\ \A t \in Session \ {s} : SessionKept(t)
<1> USE DEF SettledInv, BasicInv, RequestsOK
<1>1. CASE r \in User
  <2>1. login' = [login EXCEPT ![s] = [login[s] EXCEPT !.at = "save", !.try = r]]
    BY <1>1 DEF Proceed
  <2>2. UNCHANGED <<http, loginedUser, logout, carriedOut>> /\ r # loginedUser[s]
    BY <1>1 DEF Proceed, sessionVars
  <2>3. /\ login'[s].at = "save" /\ login'[s].try = r /\ login'[s].new = login[s].new
        /\ r \in Reach(s) /\ OnlineAs(r)'
    BY <1>1, <2>1
  <2>4. SessionOK(s)'
    BY <2>2, <2>3 DEF SessionOK, Reach, Quiet, OnlineAs
  <2>5. QED
    BY <2>1, <2>2, <2>4 DEF SessionKept
<1>2. CASE r \notin User
  BY <1>2, FailSession DEF Proceed
<1>3. QED
  BY <1>1, <1>2

\* What the map has done for s, with the rest of s, makes the whole step.
LEMMA MapStepOfSession ==
  ASSUME OwnIdentity, SettledInv, NEW s \in Session, NEW id \in IdsOf(s),
         MapStep(id), UNCHANGED users, SessionOK(s)',
         \A t \in Session \ {s} : SessionKept(t)
  PROVE  \A t \in Session : SessionOK(t)'
<1> SUFFICES ASSUME NEW t \in Session, t # s PROVE SessionOK(t)'
  OBVIOUS
<1>1. Keeps(t)
  BY OtherIds DEF Keeps
<1>2. QED
  BY <1>1, KeptSession DEF SettledInv

\* A step that does not touch the map, nor the rows.
LEMMA QuietStepOfSession ==
  ASSUME SettledInv, NEW s \in Session, UNCHANGED <<mapVars, users>>,
         SessionOK(s)', \A t \in Session \ {s} : SessionKept(t)
  PROVE  \A t \in Session : SessionOK(t)'
<1> SUFFICES ASSUME NEW t \in Session, t # s PROVE SessionOK(t)'
  OBVIOUS
<1>1. Keeps(t)
  BY DEF Keeps, mapVars
<1>2. QED
  BY <1>1, KeptSession DEF SettledInv

LEMMA LoginSettled ==
  ASSUME OwnIdentity, SettledInv, NEW s \in Session, LoginStep(s)
  PROVE  \A t \in Session : SessionOK(t)'
<1> USE DEF SettledInv, BasicInv
<1>1. CASE LoginFirst(s) \/ LoginPut(s)
  <2>1. PICK r \in LoginResult :
          putUserInfo(login[s].new, r) /\ Proceed(s, r, "save")
    BY <1>1 DEF LoginFirst, LoginPut
  <2>2. login[s].at # "idle" /\ UNCHANGED users
    BY <1>1 DEF LoginFirst, LoginPut, At
  <2>3. login[s].new \in Reach(s) /\ login[s].new \in User /\ login[s].new.id \in IdsOf(s)
    BY <2>2, SubmittedIsOwn, ReachIsOwn DEF SessionOK
  <2>4. /\ MapStep(login[s].new.id)
        /\ r \in User => r \in Reach(s) /\ OnlineAs(r)'
    BY <2>1, <2>3, PutStep, OutcomeIsOwn
  <2>5. SessionOK(s)' /\ \A t \in Session \ {s} : SessionKept(t)
    BY <2>1, <2>2, <2>4, ProceedSession
  <2>6. QED
    BY <2>2, <2>3, <2>4, <2>5, MapStepOfSession
<1>2. CASE LoginUnchanged(s)
  <2>1. /\ login[s].at = "enter" /\ loginedUser[s] # NoUser
        /\ loginedUser[s].name = login[s].new.name
        /\ loginedUser' = [loginedUser EXCEPT ![s] = login[s].new]
        /\ login' = [login EXCEPT ![s] = NoLogin]
        /\ UNCHANGED <<mapVars, users, http, logout, carriedOut>>
    BY <1>2 DEF LoginUnchanged, At, equals, Answer, Recorded
  <2>2. login[s].new \in Submitted[s] /\ loginedUser[s] \in Reach(s)
    BY <2>1 DEF SessionOK
  <2>3. loginedUser[s] \in Submitted[s]
    BY <2>1, <2>2 DEF OwnIdentity, Reach
  <2>4. loginedUser[s] = login[s].new
    <3>1. loginedUser[s].id = login[s].new.id
      BY <2>1, <2>2, <2>3 DEF OwnIdentity
    <3>2. loginedUser[s] \in User /\ login[s].new \in User
      BY <2>2, <2>3, SessionsAssumption
    <3>3. QED
      BY <2>1, <3>1, <3>2 DEF User
  <2>5. UNCHANGED loginedUser
    BY <2>1, <2>4 DEF RequestsOK
  <2>6. /\ login'[s] = NoLogin
        /\ \A t \in Session \ {s} : SessionKept(t)
    BY <2>1, <2>5 DEF RequestsOK, SessionKept
  <2>7. SessionOK(s)'
    BY <2>1, <2>5, <2>6 DEF SessionOK, Reach, Quiet, NoLogin, OnlineAs, mapVars
  <2>8. QED
    BY <2>1, <2>6, <2>7, QuietStepOfSession
<1>3. CASE LoginRename(s)
  <2>1. PICK r \in LoginResult \cup {Thrown} :
          updateUserInfo(login[s].new, r) /\ Proceed(s, r, "save")
    BY <1>3 DEF LoginRename
  <2>2. login[s].at # "idle" /\ UNCHANGED users
    BY <1>3 DEF LoginRename, At
  <2>3. login[s].new \in Reach(s) /\ login[s].new \in User /\ login[s].new.id \in IdsOf(s)
    BY <2>2, SubmittedIsOwn, ReachIsOwn DEF SessionOK
  <2>4. /\ MapStep(login[s].new.id)
        /\ r \in User => r \in Reach(s) /\ OnlineAs(r)'
    BY <2>1, <2>3, UpdateStep, OutcomeIsOwn
  <2>5. SessionOK(s)' /\ \A t \in Session \ {s} : SessionKept(t)
    BY <2>1, <2>2, <2>4, ProceedSession
  <2>6. QED
    BY <2>2, <2>3, <2>4, <2>5, MapStepOfSession
<1>4. CASE LoginOther(s)
  <2>1. /\ login[s].at = "enter" /\ loginedUser[s] # NoUser
        /\ remove(loginedUser[s])
        /\ login' = [login EXCEPT ![s].at = "put"]
        /\ UNCHANGED <<users, http, loginedUser, logout, carriedOut>>
    BY <1>4 DEF LoginOther, At, sessionVars
  <2>2. loginedUser[s] \in User /\ loginedUser[s].id \in IdsOf(s)
    BY <2>1, ReachIsOwn DEF SessionOK
  <2>3. MapStep(loginedUser[s].id)
    BY <2>1, <2>2, RemoveStep
  <2>4. /\ login'[s].at = "put" /\ login'[s].new = login[s].new
        /\ \A t \in Session \ {s} : SessionKept(t)
    BY <2>1 DEF RequestsOK, SessionKept
  <2>5. SessionOK(s)'
    BY <2>1, <2>4 DEF SessionOK, Reach, Quiet
  <2>6. QED
    BY <2>1, <2>2, <2>3, <2>4, <2>5, MapStepOfSession
<1>5. CASE LoginSave(s)
  <2>1. login[s].at = "save" /\ OnlineAs(login[s].try) /\ login[s].try \in Reach(s)
    BY <1>5 DEF LoginSave, At, SessionOK
  <2>2. UNCHANGED mapVars
    BY <1>5 DEF LoginSave
  <2>3. CASE Clashing(SavedAs(s)) \cap senders = {}
    <3> DEFINE u == login[s].try
    <3>1. /\ ReplaceRows(u)
          /\ loginedUser' = [loginedUser EXCEPT ![s] = u]
          /\ login' = [login EXCEPT ![s] = NoLogin]
          /\ carriedOut' = [carriedOut EXCEPT ![s] = TRUE]
          /\ UNCHANGED <<http, logout>>
      BY <1>5, <2>3 DEF LoginSave, SavedAs, Succeed, Answer, Recorded
    <3>2. u \in User /\ u.id \in IdsOf(s) /\ u.id \in Id
      BY <2>1, ReachIsOwn
    <3>3. users'[u.id] = u.name
      BY <3>1, <3>2 DEF ReplaceRows, Clashing
    <3>4. \A i \in Id \ {u.id} : users'[i] = users[i] \/ idMapInfo[i] # users[i]
      <4>1. SUFFICES ASSUME NEW i \in Id, i # u.id, i \in Clashing(u)
                     PROVE  idMapInfo[i] # users[i]
        BY <3>1 DEF ReplaceRows
      <4>2. users[i] = u.name /\ idMapInfo[u.id] = u.name /\ u.name # NoName
        BY <2>1, <3>2, <4>1, SuffixedAssumption DEF Clashing, OnlineAs, User
      <4>3. QED
        BY <3>2, <4>1, <4>2 DEF MapOK, stateConsist, Online
    <3>5. /\ loginedUser'[s] = u /\ login'[s] = NoLogin
          /\ \A t \in Session \ {s} : SessionKept(t)
      BY <3>1 DEF RequestsOK, SessionKept
    <3>6. u \in Reach(s) /\ u # NoUser /\ idMapInfo'[u.id] = u.name
      BY <2>1, <2>2, <3>2, SessionsAssumption DEF OnlineAs, mapVars
    <3>7. SessionOK(s)'
      BY <3>1, <3>3, <3>5, <3>6 DEF SessionOK, Reach, Quiet, NoLogin, OnlineAs
    <3>8. ASSUME NEW t \in Session, t # s PROVE SessionOK(t)'
      <4>1. \A i \in IdsOf(t) : i \in Id /\ i # u.id
        BY <3>2, <3>8, SessionsAssumption DEF OwnIdentity, IdsOf, User
      <4>2. Keeps(t)
        BY <2>2, <3>4, <3>5, <3>8, <4>1 DEF Keeps, mapVars
      <4>3. QED
        BY <4>2, KeptSession
    <3>9. QED
      BY <3>7, <3>8
  <2>4. CASE Clashing(SavedAs(s)) \cap senders # {}
    <3>1. /\ login' = [login EXCEPT ![s].at = "free", ![s].saves = @ + 1]
          /\ UNCHANGED <<users, http, loginedUser, logout, carriedOut>>
      BY <1>5, <2>4 DEF LoginSave, sessionVars
    <3>2. /\ login'[s].at = "free" /\ login'[s].new = login[s].new
          /\ login'[s].try = login[s].try
          /\ \A t \in Session \ {s} : SessionKept(t)
      BY <3>1 DEF RequestsOK, SessionKept
    <3>3. SessionOK(s)'
      BY <2>1, <3>1, <3>2 DEF SessionOK, Reach, Quiet
    <3>4. QED
      BY <2>2, <3>1, <3>2, <3>3, QuietStepOfSession
  <2>5. QED
    BY <2>3, <2>4
<1>6. CASE LoginSaveFails(s)
  <2>1. login[s].at = "save" /\ UNCHANGED <<mapVars, users>>
    BY <1>6 DEF LoginSaveFails, At
  <2>2. CASE Fail(s)
    BY <2>1, <2>2, FailSession, QuietStepOfSession
  <2>3. CASE ~Fail(s)
    <3>1. /\ login' = [login EXCEPT ![s].at = "free", ![s].saves = @ + 1]
          /\ UNCHANGED <<http, loginedUser, logout, carriedOut>>
      BY <1>6, <2>3 DEF LoginSaveFails, sessionVars
    <3>2. /\ login'[s].at = "free" /\ login'[s].new = login[s].new
          /\ login'[s].try = login[s].try
          /\ \A t \in Session \ {s} : SessionKept(t)
      BY <3>1 DEF RequestsOK, SessionKept
    <3>3. SessionOK(s)'
      BY <2>1, <3>1, <3>2 DEF SessionOK, Reach, Quiet
    <3>4. QED
      BY <2>1, <3>2, <3>3, QuietStepOfSession
  <2>4. QED
    BY <2>2, <2>3
<1>7. CASE LoginFree(s)
  <2>1. /\ login[s].at = "free" /\ remove(login[s].try)
        /\ login' = [login EXCEPT ![s].at = "reput"]
        /\ UNCHANGED <<users, http, loginedUser, logout, carriedOut>>
    BY <1>7 DEF LoginFree, At, sessionVars
  <2>2. login[s].try \in User /\ login[s].try.id \in IdsOf(s)
    BY <2>1, ReachIsOwn DEF SessionOK
  <2>3. MapStep(login[s].try.id)
    BY <2>1, <2>2, RemoveStep
  <2>4. /\ login'[s].at = "reput" /\ login'[s].new = login[s].new
        /\ login'[s].try = login[s].try
        /\ \A t \in Session \ {s} : SessionKept(t)
    BY <2>1 DEF RequestsOK, SessionKept
  <2>5. SessionOK(s)'
    BY <2>1, <2>4 DEF SessionOK, Reach, Quiet
  <2>6. QED
    BY <2>1, <2>2, <2>3, <2>4, <2>5, MapStepOfSession
<1>8. CASE LoginReput(s)
  <2>1. PICK n \in Suffixed[login[s].new.name], r \in LoginResult :
          /\ putUserInfo([login[s].try EXCEPT !.name = n], r)
          /\ IF LastTry(s) THEN Fail(s) ELSE Proceed(s, r, "save")
    BY <1>8 DEF LoginReput
  <2> DEFINE u == [login[s].try EXCEPT !.name = n]
  <2>2. /\ login[s].at = "reput" /\ UNCHANGED users
        /\ login[s].new \in User /\ login[s].try \in Reach(s)
    BY <1>8 DEF LoginReput, At, SessionOK, RequestsOK, Carries
  <2>3. n \in Name /\ n \in DrawnNames
    BY <2>2, SuffixedAssumption DEF User, DrawnNames
  <2>4. u \in User /\ u.id \in IdsOf(s) /\ u.name = n
    BY <2>2, <2>3, ReachIsOwn DEF User
  <2>5. u \in Reach(s)
    BY <2>3, <2>4 DEF Reach
  <2>6. /\ MapStep(u.id)
        /\ r \in User => r \in Reach(s) /\ OnlineAs(r)'
    BY <2>1, <2>4, <2>5, PutStep, OutcomeIsOwn
  <2>7. SessionOK(s)' /\ \A t \in Session \ {s} : SessionKept(t)
    <3>1. CASE LastTry(s)
      BY <2>1, <3>1, FailSession
    <3>2. CASE ~LastTry(s)
      BY <2>1, <2>2, <2>6, <3>2, ProceedSession
    <3>3. QED
      BY <3>1, <3>2
  <2>8. QED
    BY <2>2, <2>4, <2>6, <2>7, MapStepOfSession
<1>9. QED
  BY <1>1, <1>2, <1>3, <1>4, <1>5, <1>6, <1>7, <1>8 DEF LoginStep

LEMMA SettledStep ==
  ASSUME OwnIdentity, SettledInv, [Next]_vars
  PROVE  SettledInv'
<1> USE DEF SettledInv, BasicInv
<1> SUFFICES \A t \in Session : SessionOK(t)'
  BY BasicStep
<1>1. CASE UNCHANGED vars
  BY <1>1 DEF vars, SessionOK, Reach, Quiet, OnlineAs
<1>2. ASSUME NEW s \in Session, NEW u \in Submitted[s], LoginRequest(s, u)
      PROVE  \A t \in Session : SessionOK(t)'
  <2>1. /\ login[s].at = "idle" /\ http[s] = "open"
        /\ login' = [login EXCEPT ![s] = [at |-> "enter", new |-> u,
                                         try |-> NoUser, saves |-> 0]]
        /\ UNCHANGED <<mapVars, users, http, loginedUser, logout, carriedOut>>
    BY <1>2 DEF LoginRequest, At, sessionVars
  <2>2. /\ login'[s].at = "enter" /\ login'[s].new = u
        /\ \A t \in Session \ {s} : SessionKept(t)
    BY <2>1 DEF RequestsOK, SessionKept
  <2>3. SessionOK(s)'
    BY <2>1, <2>2 DEF SessionOK, Reach, Quiet, OnlineAs, mapVars
  <2>4. QED
    BY <2>1, <2>2, <2>3, QuietStepOfSession
<1>3. ASSUME NEW s \in Session, LoginStep(s)
      PROVE  \A t \in Session : SessionOK(t)'
  BY <1>3, LoginSettled
<1>4. ASSUME NEW s \in Session, LogoutRequest(s)
      PROVE  \A t \in Session : SessionOK(t)'
  <2>1. /\ logout' = [logout EXCEPT ![s].at = "enter"]
        /\ UNCHANGED <<mapVars, users, http, loginedUser, login, carriedOut>>
    BY <1>4 DEF LogoutRequest
  <2>2. logout'[s].at = "enter" /\ \A t \in Session \ {s} : SessionKept(t)
    BY <2>1 DEF RequestsOK, SessionKept
  <2>3. SessionOK(s)'
    BY <2>1, <2>2 DEF SessionOK, Reach, Quiet, OnlineAs, mapVars
  <2>4. QED
    BY <2>1, <2>2, <2>3, QuietStepOfSession
<1>5. ASSUME NEW s \in Session, LogoutEnter(s)
      PROVE  \A t \in Session : SessionOK(t)'
  <2>1. /\ logout[s].at = "enter"
        /\ logout' = [logout EXCEPT ![s] = [at |-> "remove", user |-> loginedUser[s]]]
        /\ http' = [http EXCEPT ![s] = "removed"]
        /\ UNCHANGED <<mapVars, users, loginedUser, login, carriedOut>>
    BY <1>5 DEF LogoutEnter
  <2>2. /\ http'[s] = "removed" /\ logout'[s].user = loginedUser[s]
        /\ \A t \in Session \ {s} : SessionKept(t)
    BY <2>1 DEF RequestsOK, SessionKept
  <2>3. loginedUser[s] \in Reach(s)
    BY <2>1 DEF RequestsOK, Carries, SessionOK
  <2>4. SessionOK(s)'
    BY <2>1, <2>2, <2>3 DEF SessionOK, Reach, Quiet, OnlineAs, mapVars
  <2>5. QED
    BY <2>1, <2>2, <2>4, QuietStepOfSession
<1>6. ASSUME NEW s \in Session, Expire(s)
      PROVE  \A t \in Session : SessionOK(t)'
  <2>1. /\ logout[s].at = "idle" /\ login[s].at = "idle"
        /\ http' = [http EXCEPT ![s] = "destroyed"]
        /\ UNCHANGED <<mapVars, users, loginedUser, login, carriedOut>>
    BY <1>6 DEF Expire, At
  <2>2. CASE http[s] = "open" /\ loginedUser[s] # NoUser
    <3>1. logout' = [logout EXCEPT ![s] = [at |-> "remove", user |-> loginedUser[s]]]
      BY <1>6, <2>2 DEF Expire
    <3>2. /\ http'[s] = "destroyed" /\ logout'[s].user = loginedUser[s]
          /\ \A t \in Session \ {s} : SessionKept(t)
      BY <2>1, <3>1 DEF RequestsOK, SessionKept
    <3>3. SessionOK(s)'
      BY <2>1, <2>2, <3>1, <3>2 DEF SessionOK, Reach, Quiet, OnlineAs, mapVars
    <3>4. QED
      BY <2>1, <3>2, <3>3, QuietStepOfSession
  <2>3. CASE ~(http[s] = "open" /\ loginedUser[s] # NoUser)
    <3>1. UNCHANGED logout
      BY <1>6, <2>3 DEF Expire
    <3>2. http'[s] = "destroyed" /\ \A t \in Session \ {s} : SessionKept(t)
      BY <2>1, <3>1 DEF RequestsOK, SessionKept
    <3>3. SessionOK(s)'
      BY <2>1, <3>1, <3>2 DEF SessionOK, Reach, Quiet, OnlineAs, mapVars
    <3>4. QED
      BY <2>1, <3>2, <3>3, QuietStepOfSession
  <2>4. QED
    BY <2>2, <2>3
<1>7. ASSUME NEW s \in Session, SessionCreated(s)
      PROVE  \A t \in Session : SessionOK(t)'
  <2>1. /\ logout[s].at = "idle"
        /\ http' = [http EXCEPT ![s] = "open"]
        /\ loginedUser' = [loginedUser EXCEPT ![s] = NoUser]
        /\ carriedOut' = [carriedOut EXCEPT ![s] = FALSE]
        /\ UNCHANGED <<mapVars, users, login, logout>>
    BY <1>7 DEF SessionCreated
  <2>2. /\ ~carriedOut'[s] /\ loginedUser'[s] = NoUser
        /\ \A t \in Session \ {s} : SessionKept(t)
    BY <2>1 DEF RequestsOK, SessionKept
  <2>3. login[s].at = "save" => login[s].try # NoUser
    BY ReachIsOwn, SessionsAssumption DEF SessionOK
  <2>4. SessionOK(s)'
    BY <2>1, <2>2, <2>3 DEF SessionOK, Reach, Quiet, OnlineAs, mapVars
  <2>5. QED
    BY <2>1, <2>2, <2>4, QuietStepOfSession
<1>8. ASSUME NEW s \in Session, LogoutRemove(s)
      PROVE  \A t \in Session : SessionOK(t)'
  <2> DEFINE u == logout[s].user
  <2>1. /\ logout[s].at = "remove" /\ remove(u)
        /\ logout' = [logout EXCEPT ![s] = NoLogout]
        /\ UNCHANGED <<users, http, loginedUser, login, carriedOut>>
    BY <1>8 DEF LogoutRemove
  <2>2. /\ u \in Reach(s) /\ http[s] # "open"
        /\ login[s].at = "idle" \/ u = loginedUser[s]
    BY <2>1 DEF SessionOK
  <2>3. u \in User /\ u.id \in IdsOf(s)
    BY <2>2, ReachIsOwn
  <2>4. MapStep(u.id) /\ (~OnlineAs(u) => UNCHANGED mapVars)
    BY <2>1, <2>3, RemoveStep
  <2>5. logout'[s].at = "idle" /\ \A t \in Session \ {s} : SessionKept(t)
    BY <2>1 DEF RequestsOK, SessionKept, NoLogout
  <2>6. login[s].at = "save" => OnlineAs(login[s].try)'
    <3>1. SUFFICES ASSUME login[s].at = "save" PROVE OnlineAs(login[s].try)'
      OBVIOUS
    <3>2. /\ login[s].try \in User /\ OnlineAs(login[s].try)
          /\ login[s].try # u /\ login[s].try.id \in Id
      BY <2>2, <3>1, ReachIsOwn DEF SessionOK
    <3>3. CASE OnlineAs(u)
      <4>1. login[s].try.id # u.id
        BY <2>3, <3>2, <3>3 DEF OnlineAs, User
      <4>2. QED
        BY <2>1, <2>4, <3>2, <4>1 DEF MapStep, OnlineAs
    <3>4. CASE ~OnlineAs(u)
      BY <2>1, <2>4, <3>2, <3>4 DEF OnlineAs, mapVars
    <3>5. QED
      BY <3>3, <3>4
  <2>7. SessionOK(s)'
    BY <2>1, <2>2, <2>5, <2>6 DEF SessionOK, Reach, Quiet
  <2>8. QED
    BY <2>1, <2>3, <2>4, <2>5, <2>7, MapStepOfSession
<1>9. ASSUME NEW s \in Session, StoreMessage(s)
      PROVE  \A t \in Session : SessionOK(t)'
  BY <1>9 DEF StoreMessage, SessionOK, Reach, Quiet, OnlineAs, mapVars
<1>10. ASSUME NEW id \in Id, DeleteMessages(id)
       PROVE  \A t \in Session : SessionOK(t)'
  BY <1>10 DEF DeleteMessages, SessionOK, Reach, Quiet, OnlineAs, mapVars
<1>11. QED
  BY <1>1, <1>2, <1>3, <1>4, <1>5, <1>6, <1>7, <1>8, <1>9, <1>10
  DEF Next, LogoutStep

LEMMA SettledAlways ==
  ASSUME OwnIdentity
  PROVE  Spec => []SettledInv
<1>1. Init => SettledInv
  <2> SUFFICES ASSUME Init PROVE \A s \in Session : SessionOK(s)
    BY BasicInit DEF SettledInv
  <2>1. QED
    BY DEF Init, SessionOK, Quiet, NoLogin, NoLogout
<1>2. SettledInv /\ [Next]_vars => SettledInv'
  BY SettledStep
<1>3. QED
  BY <1>1, <1>2, PTL DEF Spec

\* SettledUserOnline: if browsers have ids of their own, no interleaving of
\* logins, failed saves, logouts and expiries takes a user offline, or renames
\* the user, whose session was told that the login succeeded.
THEOREM SettledUsersAreOnline ==
  ASSUME OwnIdentity
  PROVE  Spec => []SettledUserOnline
<1>1. SettledInv => SettledUserOnline
  BY DEF SettledInv, SessionOK, SettledUserOnline, Settled, Quiet, At
<1>2. QED
  BY SettledAlways, <1>1, PTL

\* SettledUserStored: nor does the INSERT OR REPLACE of another user's row
\* ever delete the row of such a user.
THEOREM SettledUsersAreStored ==
  ASSUME OwnIdentity
  PROVE  Spec => []SettledUserStored
<1>1. SettledInv => SettledUserStored
  BY DEF SettledInv, SessionOK, SettledUserStored, Settled, Quiet, At
<1>2. QED
  BY SettledAlways, <1>1, PTL
=============================================================================
