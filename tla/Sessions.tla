------------------------------ MODULE Sessions ------------------------------
(* HTTP sessions logging in and out, renaming and expiring, against the map *)
(* of online users (OnlineUserInfoMap) and the user table of the data       *)
(* store, through ClientUserInfoService and UserCache.  A login of one      *)
(* session holds that session's data; nothing else orders the requests, so  *)
(* the steps of a login interleave with every other session's and with a    *)
(* logout of its own.                                                       *)
EXTENDS OnlineUserInfoMap, Naturals

CONSTANTS
  Session,        \* HTTP sessions
  Submitted,      \* Submitted[s]: the users the browser of s may log in as
  Talker,         \* the ids that send messages
  NoUser,         \* no user is logged in
  TryTimes,       \* DATA_STORE_SAVE_TRY_TIMES
  MaxFailures     \* bound: saves that fail for busy or other storage errors

ASSUME SessionsAssumption == /\ Submitted \in [Session -> SUBSET User]
                             /\ Talker \subseteq Id
                             /\ NoUser \notin User
                             /\ TryTimes \in Nat \ {0}
                             /\ MaxFailures \in Nat

VARIABLES
  users,          \* CLIENT_USER_INFO: users[id] is the row's USER_NAME
  senders,        \* ids that messages in the message table refer to
  http,           \* http[s]: the HttpSession and its SessionUserData attribute
  loginedUser,    \* loginedUser[s]: SessionUserData.loginedUser
  login,          \* login[s]: the login request running on s
  logout,         \* logout[s]: the logout or expiry running on s
  carriedOut,     \* carriedOut[s]: the last login that was tried succeeded
  failures        \* saves that have failed so far

vars == <<idMapInfo, userNames, users, senders, http, loginedUser,
          login, logout, carriedOut, failures>>
sessionVars == <<http, loginedUser, logout, carriedOut>>

\* "removed": a logout has removed the attribute; "destroyed": expired.
HttpState == {"open", "removed", "destroyed"}
\* Where a login is: about to enter the session's lock, then inside it about
\* to put the user online, save it, take it offline again, or put a new name.
LoginStage == {"idle", "enter", "put", "save", "free", "reput"}

TypeOK ==
  /\ MapTypeOK
  /\ users \in [Id -> Name \cup {NoName}]
  /\ senders \subseteq Talker
  /\ http \in [Session -> HttpState]
  /\ loginedUser \in [Session -> User \cup {NoUser}]
  /\ login \in [Session -> [at : LoginStage, new : User \cup {NoUser},
                            try : User \cup {NoUser}, saves : 0 .. TryTimes]]
  /\ logout \in [Session -> [at : {"idle", "enter", "remove"},
                             user : User \cup {NoUser}]]
  /\ carriedOut \in [Session -> BOOLEAN]
  /\ failures \in 0 .. MaxFailures

NoLogin == [at |-> "idle", new |-> NoUser, try |-> NoUser, saves |-> 0]
NoLogout == [at |-> "idle", user |-> NoUser]

Init ==
  /\ MapInit
  /\ users = [id \in Id |-> NoName]
  /\ senders = {}
  /\ http = [s \in Session |-> "open"]
  /\ loginedUser = [s \in Session |-> NoUser]
  /\ login = [s \in Session |-> NoLogin]
  /\ logout = [s \in Session |-> NoLogout]
  /\ carriedOut = [s \in Session |-> FALSE]
  /\ failures = 0

-----------------------------------------------------------------------------
(* How a login ends.                                                        *)

\* The answer is a success: the session's user becomes the one logged in.
Recorded_AsAsked(s, u) == login[s].new   \* mutant
Recorded(s, u) == u

Answer(s, u) ==
  /\ loginedUser' = [loginedUser EXCEPT ![s] = Recorded(s, u)]
  /\ login' = [login EXCEPT ![s] = NoLogin]
  /\ UNCHANGED <<http, logout>>

Succeed(s, u) ==
  /\ Answer(s, u)
  /\ carriedOut' = [carriedOut EXCEPT ![s] = TRUE]

\* The answer is an error: the session keeps the user it had, even if this
\* login has already logged that user out.
Fail(s) ==
  /\ carriedOut' = [carriedOut EXCEPT ![s] = FALSE]
  /\ login' = [login EXCEPT ![s] = NoLogin]
  /\ UNCHANGED <<http, loginedUser, logout>>

\* Going on with the user the map of online users gave, or failing.  A suffix
\* drawn at random is taken never to repeat the one the session's user has.
Proceed(s, r, stage) ==
  IF r \in User
  THEN /\ r # loginedUser[s]
       /\ login' = [login EXCEPT ![s].at = stage, ![s].try = r]
       /\ UNCHANGED sessionVars
  ELSE Fail(s)

-----------------------------------------------------------------------------
(* LoginServlet, ClientUserInfoService.login and UserCache.                  *)

At(s, stage) == login[s].at = stage

\* The request finds the session's data and waits for its lock.
LoginRequest(s, u) ==
  /\ At(s, "idle") /\ http[s] = "open"
  /\ login' = [login EXCEPT ![s] = [at |-> "enter", new |-> u, try |-> NoUser,
                                     saves |-> 0]]
  /\ UNCHANGED <<mapVars, users, senders, sessionVars, failures>>

\* ClientUserInfo.equals: the same name (the other fields it compares are the
\* same for all users here); ids are not compared.
equals(u, v) == u.name = v.name

LoginFirst(s) ==
  /\ At(s, "enter") /\ loginedUser[s] = NoUser
  /\ \E r \in LoginResult : putUserInfo(login[s].new, r) /\ Proceed(s, r, "save")
  /\ UNCHANGED <<users, senders, failures>>

LoginUnchanged(s) ==
  /\ At(s, "enter") /\ loginedUser[s] # NoUser
  /\ equals(loginedUser[s], login[s].new)
  /\ Answer(s, login[s].new)
  /\ UNCHANGED <<mapVars, users, senders, carriedOut, failures>>

LoginRename(s) ==
  /\ At(s, "enter") /\ loginedUser[s] # NoUser
  /\ ~equals(loginedUser[s], login[s].new)
  /\ loginedUser[s].id = login[s].new.id
  /\ \E r \in LoginResult \cup {Thrown} :
       updateUserInfo(login[s].new, r) /\ Proceed(s, r, "save")
  /\ UNCHANGED <<users, senders, failures>>

\* A different user: the old one is logged out before the new one is tried.
LoginOther(s) ==
  /\ At(s, "enter") /\ loginedUser[s] # NoUser
  /\ ~equals(loginedUser[s], login[s].new)
  /\ loginedUser[s].id # login[s].new.id
  /\ remove(loginedUser[s])
  /\ login' = [login EXCEPT ![s].at = "put"]
  /\ UNCHANGED <<users, senders, sessionVars, failures>>

LoginPut(s) ==
  /\ At(s, "put")
  /\ \E r \in LoginResult : putUserInfo(login[s].new, r) /\ Proceed(s, r, "save")
  /\ UNCHANGED <<users, senders, failures>>

\* INSERT OR REPLACE: the row of the same id, and any other row of the same
\* name, gives way to the new one.
Clashing(u) == {id \in Id \ {u.id} : users[id] = u.name}
ReplaceRows(u) ==
  users' = [id \in Id |-> CASE id = u.id -> u.name
                            [] id \in Clashing(u) -> NoName
                            [] OTHER -> users[id]]

\* The user that is saved is the one the map of online users gave.
SavedAs_Asked(s) == login[s].new   \* mutant
SavedAs(s) == login[s].try

\* The statement is refused when a row to go is one that messages refer to.
LoginSave(s) ==
  /\ At(s, "save")
  /\ IF Clashing(SavedAs(s)) \cap senders = {}
     THEN ReplaceRows(SavedAs(s)) /\ Succeed(s, login[s].try)
     ELSE /\ login' = [login EXCEPT ![s].at = "free", ![s].saves = @ + 1]
          /\ UNCHANGED <<users, sessionVars>>
  /\ UNCHANGED <<mapVars, senders, failures>>

\* A busy store ends the login with an exception, the user left online;
\* another storage error counts as refused.
LoginSaveFails(s) ==
  /\ At(s, "save")
  /\ failures < MaxFailures /\ failures' = failures + 1
  /\ \/ Fail(s)
     \/ /\ login' = [login EXCEPT ![s].at = "free", ![s].saves = @ + 1]
        /\ UNCHANGED sessionVars
  /\ UNCHANGED <<mapVars, users, senders>>

LoginFree(s) ==
  /\ At(s, "free")
  /\ remove(login[s].try)
  /\ login' = [login EXCEPT ![s].at = "reput"]
  /\ UNCHANGED <<users, senders, sessionVars, failures>>

LastTry_OffByOne(s) == login[s].saves > TryTimes   \* mutant
LastTry(s) == login[s].saves >= TryTimes

\* After the last try the new name stays online and the login fails.
LoginReput(s) ==
  /\ At(s, "reput")
  /\ \E n \in Suffixed[login[s].new.name], r \in LoginResult :
       /\ putUserInfo([login[s].try EXCEPT !.name = n], r)
       /\ IF LastTry(s) THEN Fail(s) ELSE Proceed(s, r, "save")
  /\ UNCHANGED <<users, senders, failures>>

-----------------------------------------------------------------------------
(* LogoutServlet and SessionUserCleanListener.                               *)

\* The session filter looks for a user under the lock of the session's data;
\* the servlet, later, reads it without the lock.
Unlocked(s) == login[s].at \in {"idle", "enter"}

LogoutRequest(s) ==
  /\ logout[s].at = "idle" /\ http[s] = "open"
  /\ Unlocked(s) /\ loginedUser[s] # NoUser
  /\ logout' = [logout EXCEPT ![s].at = "enter"]
  /\ UNCHANGED <<mapVars, users, senders, http, loginedUser, login,
                 carriedOut, failures>>

\* The attribute is removed first, then the user that was read is logged out.
LogoutEnter(s) ==
  /\ logout[s].at = "enter"
  /\ logout' = [logout EXCEPT ![s] = [at |-> "remove", user |-> loginedUser[s]]]
  /\ http' = [http EXCEPT ![s] = "removed"]
  /\ UNCHANGED <<mapVars, users, senders, loginedUser, login, carriedOut,
                 failures>>

\* A session expires when it has been idle: no request of it is running.  Its
\* listener fails on a session whose attribute a logout removed.
Expire(s) ==
  /\ logout[s].at = "idle" /\ At(s, "idle") /\ http[s] # "destroyed"
  /\ http' = [http EXCEPT ![s] = "destroyed"]
  /\ logout' = IF http[s] = "open" /\ loginedUser[s] # NoUser
               THEN [logout EXCEPT ![s] = [at |-> "remove", user |-> loginedUser[s]]]
               ELSE logout
  /\ UNCHANGED <<mapVars, users, senders, loginedUser, login, carriedOut,
                 failures>>

\* The browser opens its next session once the last one has been cleaned up:
\* no user is in two sessions at a time unless two browsers submit it.
SessionCreated(s) ==
  /\ http[s] = "destroyed" /\ logout[s].at = "idle"
  /\ http' = [http EXCEPT ![s] = "open"]
  /\ loginedUser' = [loginedUser EXCEPT ![s] = NoUser]
  /\ carriedOut' = [carriedOut EXCEPT ![s] = FALSE]
  /\ UNCHANGED <<mapVars, users, senders, login, logout, failures>>

LogoutRemove(s) ==
  /\ logout[s].at = "remove"
  /\ remove(logout[s].user)
  /\ logout' = [logout EXCEPT ![s] = NoLogout]
  /\ UNCHANGED <<users, senders, http, loginedUser, login, carriedOut,
                 failures>>

-----------------------------------------------------------------------------
(* What a logged-in session does that the user table and later logins see.  *)

\* A message a session sent, now or earlier, reaches the message table, which
\* refuses it when its sender has no row.
StoreMessage(s) ==
  /\ loginedUser[s] # NoUser /\ loginedUser[s].id \in Talker
  /\ users[loginedUser[s].id] # NoName
  /\ senders' = senders \cup {loginedUser[s].id}
  /\ UNCHANGED <<mapVars, users, http, loginedUser, login, logout,
                 carriedOut, failures>>

\* The last message of a user is deleted.
DeleteMessages(id) ==
  /\ id \in senders
  /\ senders' = senders \ {id}
  /\ UNCHANGED <<mapVars, users, http, loginedUser, login, logout,
                 carriedOut, failures>>

LoginStep(s) ==
  \/ LoginFirst(s) \/ LoginUnchanged(s) \/ LoginRename(s) \/ LoginOther(s)
  \/ LoginPut(s) \/ LoginSave(s) \/ LoginSaveFails(s) \/ LoginFree(s)
  \/ LoginReput(s)
LogoutStep(s) == LogoutEnter(s) \/ LogoutRemove(s)

Next ==
  \/ \E s \in Session :
       \/ \E u \in Submitted[s] : LoginRequest(s, u)
       \/ LoginStep(s)
       \/ LogoutRequest(s) \/ LogoutStep(s) \/ Expire(s)
       \/ SessionCreated(s)
       \/ StoreMessage(s)
  \/ \E id \in Id : DeleteMessages(id)

Spec == Init /\ [][Next]_vars

-----------------------------------------------------------------------------
\* Browsers have ids of their own: no two of them submit one id, one that
\* submits a name again does so with the same id (the id is a digest of the
\* name and a password), and nobody asks for a name with a suffix drawn.
IdsOf(s) == {u.id : u \in Submitted[s]}
DrawnNames == UNION {Suffixed[n] : n \in Name}
OwnIdentity ==
  /\ \A s, t \in Session : s # t => IdsOf(s) \cap IdsOf(t) = {}
  /\ \A s \in Session : \A u, v \in Submitted[s] : u.name = v.name => u.id = v.id
  /\ \A s \in Session : \A u \in Submitted[s] : u.name \notin DrawnNames

\* A session is settled when nothing is under way on it and the last login
\* it tried succeeded (one answered as "no change" tries nothing).
Settled(s) == /\ http[s] = "open" /\ carriedOut[s]
              /\ At(s, "idle") /\ logout[s].at = "idle"

\* A user told that the login succeeded is online, under the very name the
\* answer carried, whatever the other sessions do meanwhile: no rename, failed
\* save, logout or expiry elsewhere takes the user offline.
SettledUserOnline == \A s \in Session : Settled(s) => OnlineAs(loginedUser[s])

\* That user has a row in the user table under the same name: a save that
\* replaces the row of another user with the same name never hits a user who
\* is online, because the name was first taken in the map of online users.
SettledUserStored ==
  \A s \in Session : Settled(s) => users[loginedUser[s].id] = loginedUser[s].name
=============================================================================
