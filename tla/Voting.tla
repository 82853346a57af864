------------------------------- MODULE Voting -------------------------------
(* Votes and their topics: TalkServlet tests under the lock of the session  *)
(* whether its user may vote, MemoryMessageCache.save tests it again, and   *)
(* ProtectedMessageFilter asks the data store who has voted while the votes *)
(* are still on their way to it.                                            *)
EXTENDS Naturals, FiniteSets

CONSTANTS
  User, Session, Topic,
  Author,         \* Author[t]: a topic's identifier contains its sender
  OwnIdentity,    \* OwnIdentity[s]: the users the browser of s logs in as
  Request,        \* threads in TalkServlet.talk
  NoOne,
  MaxLogins,      \* bound: logins after the first
  MaxFaults       \* bound: inserts of votes that meet a busy store, and restarts

\* Browsers do not share identities (Sessions has the same assumption).
ASSUME VotingAssumption ==
  /\ Author \in [Topic -> User]
  /\ OwnIdentity \in [Session -> (SUBSET User) \ {{}}]
  /\ \A s1, s2 \in Session : s1 # s2 => OwnIdentity[s1] \cap OwnIdentity[s2] = {}
  /\ NoOne \notin User \cup Session \cup Topic
  /\ {MaxLogins, MaxFaults} \subseteq Nat

Vote == User \X Topic   \* the identifier of a vote is its sender and its topic

VARIABLES
  loginedUser,    \* loginedUser[s]
  voteInfo,       \* voteInfo[s][t]: "unknown" stands for no entry
  request,        \* request[r]: where talk is; from "cache" on in the lock of s
  missed,         \* <<s, t, same>>: filters that found no entry of t in s; same:
                  \* s still has the ClientUserInfo object it had then
  cachedTopics, cachedVotes,
  results,        \* results[t][u]: times the vote of u is counted in the cache
  pins,           \* references of t taken by votes, not yet released
  unsavedTopics, unsavedVotes, updateQueue,
  topicRows, voteRows,
  rowResults,     \* rowResults[t][u]: the same in the row of t
  lost,           \* votes that were logged as not saved
  logins, restarts

sessionVars == <<loginedUser, voteInfo, missed>>
cacheVars == <<cachedTopics, cachedVotes, results, pins>>
queueVars == <<unsavedTopics, unsavedVotes, updateQueue>>
storeVars == <<topicRows, voteRows, rowResults, lost>>
boundVars == <<logins, restarts>>
vars == <<sessionVars, request, cacheVars, queueVars, storeVars, boundVars>>

Stage == {"idle", "sender", "cache", "exist", "count", "add", "addTopic", "record"}

TypeOK ==
  /\ loginedUser \in [Session -> User]
  /\ voteInfo \in [Session -> [Topic -> {"unknown", "notVoted", "voted"}]]
  /\ request \in [Request -> [at : Stage, kind : {"vote", "topic"},
                              session : Session \cup {NoOne},
                              sender : User \cup {NoOne},
                              topic : Topic \cup {NoOne}]]
  /\ missed \subseteq Session \X Topic \X BOOLEAN
  /\ cachedTopics \subseteq Topic /\ cachedVotes \subseteq Vote
  /\ results \in [Topic -> [User -> Nat]] /\ rowResults \in [Topic -> [User -> Nat]]
  /\ pins \in [Topic -> Nat]
  /\ unsavedTopics \subseteq cachedTopics /\ unsavedVotes \subseteq cachedVotes
  /\ updateQueue \subseteq cachedTopics
  /\ topicRows \subseteq Topic /\ voteRows \subseteq Vote /\ lost \subseteq Vote
  /\ logins \in 0 .. MaxLogins /\ restarts \in 0 .. MaxFaults

-----------------------------------------------------------------------------
NoCount == [u \in User |-> 0]
NoInfo == [t \in Topic |-> "unknown"]
Idle == [at |-> "idle", kind |-> "vote", session |-> NoOne, sender |-> NoOne,
         topic |-> NoOne]

Init ==
  /\ loginedUser \in {f \in [Session -> User] : \A s \in Session : f[s] \in OwnIdentity[s]}
  /\ voteInfo = [s \in Session |-> NoInfo] /\ missed = {}
  /\ request = [r \in Request |-> Idle]
  /\ cachedTopics = {} /\ cachedVotes = {}
  /\ results = [t \in Topic |-> NoCount] /\ rowResults = [t \in Topic |-> NoCount]
  /\ pins = [t \in Topic |-> 0]
  /\ unsavedTopics = {} /\ unsavedVotes = {} /\ updateQueue = {}
  /\ topicRows = {} /\ voteRows = {} /\ lost = {}
  /\ logins = 0 /\ restarts = 0

Inside(r) == request[r].at \notin {"idle", "sender"}
LockFree_Ignored(s) == TRUE   \* mutant
LockFree(s) == \A r \in Request : request[r].session = s => ~Inside(r)

To(r, stage) == request' = [request EXCEPT ![r].at = stage]
Answered(r) == request' = [request EXCEPT ![r] = Idle]
Note(s, t, info) == voteInfo' = [voteInfo EXCEPT ![s][t] = info]

MayFail == Cardinality(lost) + restarts < MaxFaults

MyVote(r) == <<request[r].sender, request[r].topic>>

-----------------------------------------------------------------------------
\* TalkServlet.talk.

\* The sender is set before the session is locked.
Talk(r, s, t) ==
  /\ request[r].at = "idle"
  /\ \E kind \in {"vote", "topic"} :
       /\ kind = "topic" => Author[t] = loginedUser[s]
       /\ request' = [request EXCEPT ![r] =
            [at |-> "sender", kind |-> kind, session |-> s,
             sender |-> loginedUser[s], topic |-> t]]
  /\ UNCHANGED <<sessionVars, cacheVars, queueVars, storeVars, boundVars>>

\* queryVoted for the user of the session.
StoreSaysVoted(s, t) == t \in topicRows /\ <<loginedUser[s], t>> \in voteRows

\* canVoteUnlocked: an entry decides, else the store.
CanVote(r) ==
  LET s == request[r].session
      t == request[r].topic
      next == IF request[r].kind = "vote" THEN "cache" ELSE "addTopic"
      info == voteInfo[s][t]
      allowed == \/ info = "unknown" /\ ~StoreSaysVoted(s, t)
                 \/ info = "notVoted" /\ request[r].kind = "vote"
  IN /\ request[r].at = "sender" /\ LockFree(s)
     /\ IF allowed THEN To(r, next) /\ UNCHANGED voteInfo
        ELSE /\ Answered(r)
             /\ IF info = "unknown" THEN Note(s, t, "voted") ELSE UNCHANGED voteInfo
     /\ UNCHANGED <<loginedUser, missed, cacheVars, queueVars, storeVars, boundVars>>

\* DuplicateMessageException, of a vote.
Duplicate(r) ==
  /\ Note(request[r].session, request[r].topic, "voted")
  /\ Answered(r)

\* MemoryMessageCache.save: is the vote in the cache?
CheckCache(r) ==
  /\ request[r].at = "cache"
  /\ \/ MyVote(r) \in cachedVotes /\ Duplicate(r)
     \/ MyVote(r) \notin cachedVotes /\ To(r, "exist") /\ UNCHANGED voteInfo
  /\ UNCHANGED <<loginedUser, missed, cacheVars, queueVars, storeVars, boundVars>>

\* Or in the store?
CheckStore_Skipped(r) ==   \* mutant: what is not in the cache is new
  /\ request[r].at = "exist"
  /\ To(r, "count")
  /\ UNCHANGED <<sessionVars, cacheVars, queueVars, storeVars, boundVars>>

CheckStore(r) ==
  /\ request[r].at = "exist"
  /\ \/ MyVote(r) \in voteRows /\ Duplicate(r)
     \/ MyVote(r) \notin voteRows /\ To(r, "count") /\ UNCHANGED voteInfo
  /\ UNCHANGED <<loginedUser, missed, cacheVars, queueVars, storeVars, boundVars>>

\* The topic as get finds or loads it, or BadReferenceException.
Loaded(t) == IF t \in cachedTopics THEN results[t] ELSE rowResults[t]

Pinned_Forgotten(t) == pins   \* mutant
Pinned(t) == [pins EXCEPT ![t] = @ + 1]

\* get of the topic, and setReferenceMessageLater counts the vote in it.
Count(r) ==
  LET t == request[r].topic
      u == request[r].sender
  IN /\ request[r].at = "count"
     /\ \/ /\ t \in cachedTopics \cup topicRows
           /\ cachedTopics' = cachedTopics \cup {t}
           /\ results' = [results EXCEPT ![t] = [Loaded(t) EXCEPT ![u] = @ + 1]]
           /\ pins' = Pinned(t)
           /\ To(r, "add")
        \/ /\ t \notin cachedTopics \cup topicRows
           /\ Answered(r)
           /\ UNCHANGED <<cachedTopics, results, pins>>
     /\ UNCHANGED <<cachedVotes, sessionVars, queueVars, storeVars, boundVars>>

\* recursiveAddAndGet and addUnsaved of the vote.
AddVote(r) ==
  /\ request[r].at = "add"
  /\ cachedVotes' = cachedVotes \cup {MyVote(r)}
  /\ unsavedVotes' = unsavedVotes \cup {MyVote(r)}
  /\ updateQueue' = updateQueue \cup {request[r].topic}
  /\ To(r, "record")
  /\ UNCHANGED <<cachedTopics, results, pins, unsavedTopics, sessionVars>>
  /\ UNCHANGED <<storeVars, boundVars>>

\* The same of a topic: it is not tested for a duplicate, and one that is not
\* in the cache starts with an empty count whatever its row says.
AddTopic(r) ==
  LET t == request[r].topic IN
  /\ request[r].at = "addTopic"
  /\ cachedTopics' = cachedTopics \cup {t}
  /\ results' = [results EXCEPT ![t] = IF t \in cachedTopics THEN @ ELSE NoCount]
  /\ unsavedTopics' = unsavedTopics \cup {t}
  /\ To(r, "record")
  /\ UNCHANGED <<cachedVotes, pins, unsavedVotes, updateQueue, sessionVars>>
  /\ UNCHANGED <<storeVars, boundVars>>

\* The answer, and what the session remembers.
Record(r) ==
  LET a == request[r] IN
  /\ a.at = "record"
  /\ Note(a.session, a.topic, IF a.kind = "vote" THEN "voted" ELSE "notVoted")
  /\ Answered(r)
  /\ UNCHANGED <<loginedUser, missed, cacheVars, queueVars, storeVars, boundVars>>

-----------------------------------------------------------------------------
\* ProtectedMessageFilter.filterWith, for a topic that others see: an entry
\* decides; without one the store is asked, later and under the lock.
FilterMiss(s, t) ==
  /\ t \in cachedTopics /\ Author[t] # loginedUser[s]
  /\ voteInfo[s][t] = "unknown"
  /\ missed' = missed \cup {<<s, t, TRUE>>}
  /\ UNCHANGED <<loginedUser, voteInfo, request, cacheVars, queueVars, storeVars>>
  /\ UNCHANGED boundVars

\* Every login gives the session another user object: the result is discarded.
FilterQuery(s, t, same) ==
  /\ <<s, t, same>> \in missed /\ LockFree(s)
  /\ missed' = missed \ {<<s, t, same>>}
  /\ \/ same /\ Note(s, t, IF <<loginedUser[s], t>> \in voteRows THEN "voted"
                                                                 ELSE "notVoted")
     \/ ~same /\ UNCHANGED voteInfo
  /\ UNCHANGED <<loginedUser, request, cacheVars, queueVars, storeVars, boundVars>>

ClearedInfo_Kept(s) == voteInfo   \* mutant
ClearedInfo(s) == [voteInfo EXCEPT ![s] = NoInfo]

\* LoginServlet, in the lock: every login of a user forgets the entries, the
\* test for another user compares an identifier with a user.
Login(s, u) ==
  /\ logins < MaxLogins /\ u \in OwnIdentity[s] /\ LockFree(s)
  /\ logins' = logins + 1
  /\ loginedUser' = [loginedUser EXCEPT ![s] = u]
  /\ voteInfo' = ClearedInfo(s)
  /\ missed' = {<<x[1], x[2], x[3] /\ x[1] # s>> : x \in missed}
  /\ UNCHANGED <<request, cacheVars, queueVars, storeVars, restarts>>

-----------------------------------------------------------------------------
\* The timer thread: messages in the order they came, so a topic first.

SaveTopic(t) ==
  /\ t \in unsavedTopics
  /\ unsavedTopics' = unsavedTopics \ {t}
  /\ topicRows' = topicRows \cup {t}   \* INSERT OR IGNORE
  /\ rowResults' = [rowResults EXCEPT ![t] = IF t \in topicRows THEN @ ELSE results[t]]
  /\ UNCHANGED <<unsavedVotes, updateQueue, voteRows, lost, sessionVars, request>>
  /\ UNCHANGED <<cacheVars, boundVars>>

SaveVote(v) ==
  /\ v \in unsavedVotes /\ v[2] \in topicRows
  /\ unsavedVotes' = unsavedVotes \ {v}
  /\ \/ voteRows' = voteRows \cup {v} /\ UNCHANGED lost
     \/ /\ MayFail
        /\ lost' = lost \cup {v} /\ UNCHANGED voteRows
  /\ UNCHANGED <<unsavedTopics, updateQueue, topicRows, rowResults, sessionVars>>
  /\ UNCHANGED <<request, cacheVars, boundVars>>

\* updateVoteTopicMessages: the statement is prepared and its parameters are
\* bound, but it is never executed.
UpdateVoteTopic(t) ==
  /\ t \in updateQueue
  /\ updateQueue' = updateQueue \ {t}
  /\ pins' = [pins EXCEPT ![t] = @ - 1]
  /\ UNCHANGED <<unsavedTopics, unsavedVotes, cachedTopics, cachedVotes, results>>
  /\ UNCHANGED <<storeVars, sessionVars, request, boundVars>>

\* A message that nothing refers to leaves the cache.
RecycleVote(v) ==
  /\ v \in cachedVotes \ unsavedVotes
  /\ cachedVotes' = cachedVotes \ {v}
  /\ UNCHANGED <<cachedTopics, results, pins, sessionVars, request, queueVars>>
  /\ UNCHANGED <<storeVars, boundVars>>

RecycleTopic(t) ==
  /\ t \in cachedTopics \ (unsavedTopics \cup updateQueue)
  /\ pins[t] = 0
  /\ \A v \in cachedVotes : v[2] # t
  /\ \A r \in Request : ~(request[r].topic = t /\ request[r].at = "record")
  /\ cachedTopics' = cachedTopics \ {t}
  /\ UNCHANGED <<cachedVotes, results, pins, sessionVars, request, queueVars>>
  /\ UNCHANGED <<storeVars, boundVars>>

\* The server stops, when all is saved, and starts with new sessions.
Restart ==
  /\ MayFail
  /\ \A r \in Request : request[r].at = "idle"
  /\ unsavedTopics = {} /\ unsavedVotes = {} /\ updateQueue = {}
  /\ restarts' = restarts + 1
  /\ voteInfo' = [s \in Session |-> NoInfo] /\ missed' = {}
  /\ cachedTopics' = {} /\ cachedVotes' = {}
  /\ pins' = [t \in Topic |-> 0]
  /\ UNCHANGED <<loginedUser, request, results, queueVars, storeVars, logins>>

TalkStep(r) ==
  \/ \E s \in Session, t \in Topic : Talk(r, s, t)
  \/ CanVote(r) \/ CheckCache(r) \/ CheckStore(r) \/ Count(r)
  \/ AddVote(r) \/ AddTopic(r) \/ Record(r)

TimerStep ==
  \/ \E t \in Topic : SaveTopic(t) \/ UpdateVoteTopic(t) \/ RecycleTopic(t)
  \/ \E v \in Vote : SaveVote(v) \/ RecycleVote(v)

Next ==
  \/ \E r \in Request : TalkStep(r)
  \/ \E s \in Session, t \in Topic : FilterMiss(s, t)
  \/ \E s \in Session, t \in Topic, same \in BOOLEAN : FilterQuery(s, t, same)
  \/ \E s \in Session, u \in User : Login(s, u)
  \/ TimerStep
  \/ Restart

Spec == Init /\ [][Next]_vars

-----------------------------------------------------------------------------
\* Properties.

Voted == cachedVotes \cup voteRows \cup lost

\* However its requests, logins and filters interleave, a user's vote is counted
\* at most once in a topic, unless the data store lost it: the tests of the
\* session, the cache and the store leave no gap between them (TalkServlet,
\* MemoryMessageCache.save).
CountedOnce ==
  \A u \in User, t \in Topic :
    t \in cachedTopics /\ <<u, t>> \notin lost => results[t][u] <= 1

\* A session forgets that its user has voted only with a login or a restart, or
\* when a filter that had looked before the vote asks the store before the vote
\* is saved.
VotedIsRemembered ==
  [][\A s \in Session, t \in Topic :
       voteInfo[s][t] = "voted" /\ voteInfo'[s][t] # "voted" =>
         \/ logins' # logins \/ restarts' # restarts
         \/ /\ <<s, t, TRUE>> \in missed \ missed'
            /\ <<loginedUser[s], t>> \notin voteRows]_vars

\* What a session remembers as voted, its user has voted, also after a change of
\* the user; except what its former user was voting while it logged in.
VotedIsTrue ==
  [][\A s \in Session, t \in Topic :
       /\ voteInfo'[s][t] = "voted"
       /\ voteInfo[s][t] # "voted" \/ loginedUser'[s] # loginedUser[s]
       => \/ <<loginedUser'[s], t>> \in Voted
          \/ \E r \in Request : /\ request[r].session = s /\ Inside(r)
                                /\ request[r].sender # loginedUser[s]]_vars

\* Once a vote has been answered and saved, whoever reads its topic sees it
\* counted (VoteTopicMessage: "vote result is saved as text next part").
SavedVoteCounts ==
  \A v \in voteRows : v[2] \in topicRows => Loaded(v[2])[v[1]] > 0
=============================================================================
