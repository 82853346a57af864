---------------------------- MODULE Voting_proofs ----------------------------
(* Theorems about Voting, for any users, sessions, topics and threads.       *)
EXTENDS Voting, FiniteSetTheorems, TLAPS

-----------------------------------------------------------------------------
(* The invariant of the types. The timer gives a pin back for every topic of *)
(* updateQueue: that the number of pins stays a natural number needs a count *)
(* of the requests that have pinned a topic and not yet queued it.           *)

RequestSet == [at : Stage, kind : {"vote", "topic"}, session : Session \cup {NoOne},
               sender : User \cup {NoOne}, topic : Topic \cup {NoOne}]

\* What a request carries from one stage to the next.
Carries(r) ==
  /\ request[r].at # "idle" => /\ request[r].session \in Session
                               /\ request[r].topic \in Topic
                               /\ request[r].sender \in OwnIdentity[request[r].session]
  /\ request[r].at \in {"cache", "exist", "count", "add"} => request[r].kind = "vote"
  /\ request[r].at = "addTopic" => request[r].kind = "topic"
  /\ request[r].at = "add" => request[r].topic \in cachedTopics

\* One request at a time is in the lock of a session.
OneInLock ==
  \A q, r \in Request :
    Inside(q) /\ Inside(r) /\ request[q].session = request[r].session => q = r

Adding(t) == {r \in Request : request[r].at = "add" /\ request[r].topic = t}
Queued(t) == IF t \in updateQueue THEN 1 ELSE 0

PinsCover ==
  \A t \in Topic : /\ IsFiniteSet(Adding(t))
                   /\ pins[t] >= Cardinality(Adding(t)) + Queued(t)

TypeInv ==
  /\ TypeOK
  /\ IsFiniteSet(lost)
  /\ \A s \in Session : loginedUser[s] \in OwnIdentity[s]
  /\ \A r \in Request : Carries(r)
  /\ OneInLock
  /\ PinsCover

\* What an action of a request does to the requests.
LEMMA ToFacts ==
  ASSUME TypeOK, NEW r \in Request, NEW stage \in Stage, To(r, stage)
  PROVE  /\ request' \in [Request -> RequestSet]
         /\ request'[r].at = stage
         /\ request'[r].kind = request[r].kind
         /\ request'[r].session = request[r].session
         /\ request'[r].sender = request[r].sender
         /\ request'[r].topic = request[r].topic
         /\ \A q \in Request : q # r => request'[q] = request[q]
BY DEF TypeOK, To, RequestSet

LEMMA AnsweredFacts ==
  ASSUME TypeOK, NEW r \in Request, Answered(r)
  PROVE  /\ request' \in [Request -> RequestSet]
         /\ request'[r] = Idle
         /\ request'[r].at = "idle"
         /\ \A q \in Request : q # r => request'[q] = request[q]
<1>1. Idle \in RequestSet /\ Idle.at = "idle"
  BY DEF Idle, RequestSet, Stage
<1>2. QED
  BY <1>1 DEF TypeOK, Answered, RequestSet

\* The types but for the requests.
RestOK ==
  /\ loginedUser \in [Session -> User]
  /\ voteInfo \in [Session -> [Topic -> {"unknown", "notVoted", "voted"}]]
  /\ missed \subseteq Session \X Topic \X BOOLEAN
  /\ cachedTopics \subseteq Topic /\ cachedVotes \subseteq Vote
  /\ results \in [Topic -> [User -> Nat]] /\ rowResults \in [Topic -> [User -> Nat]]
  /\ pins \in [Topic -> Nat]
  /\ unsavedTopics \subseteq cachedTopics /\ unsavedVotes \subseteq cachedVotes
  /\ updateQueue \subseteq cachedTopics
  /\ topicRows \subseteq Topic /\ voteRows \subseteq Vote /\ lost \subseteq Vote
  /\ logins \in 0 .. MaxLogins /\ restarts \in 0 .. MaxFaults

LEMMA TypeSplit ==
  /\ TypeOK <=> RestOK /\ request \in [Request -> RequestSet]
  /\ TypeOK' <=> RestOK' /\ request' \in [Request -> RequestSet]
BY DEF TypeOK, RestOK, RequestSet

\* A step that moves no request into or out of "add" and leaves the pins and
\* the topics to update alone keeps them covered.
LEMMA PinsUntouched ==
  ASSUME PinsCover, UNCHANGED <<pins, updateQueue>>,
         \A q \in Request :
           \/ request'[q] = request[q]
           \/ request'[q].at # "add" /\ request[q].at # "add"
  PROVE  PinsCover'
<1>1. ASSUME NEW t \in Topic PROVE Adding(t)' = Adding(t)
  BY <1>1 DEF Adding
<1>2. QED
  BY <1>1 DEF PinsCover, Queued

\* A step by which nobody enters a lock keeps its holders apart.
LEMMA LockUntouched ==
  ASSUME OneInLock,
         \A q \in Request :
           \/ ~Inside(q)'
           \/ Inside(q) /\ request'[q].session = request[q].session
  PROVE  OneInLock'
BY DEF OneInLock

LEMMA TypeInit == Init => TypeInv
<1> SUFFICES ASSUME Init PROVE TypeInv
  OBVIOUS
<1>1. request \in [Request -> RequestSet] /\ \A r \in Request : request[r].at = "idle"
  BY DEF Init, Idle, RequestSet, Stage
<1>2. RestOK
  BY VotingAssumption DEF Init, RestOK, NoInfo, NoCount
<1>3. \A r \in Request : Carries(r)
  BY <1>1 DEF Carries
<1>4. OneInLock
  BY <1>1 DEF OneInLock, Inside
<1>5. PinsCover
  <2>1. ASSUME NEW t \in Topic PROVE Adding(t) = {} /\ pins[t] = 0 /\ Queued(t) = 0
    BY <1>1 DEF Adding, Init, Queued
  <2>2. QED
    BY <2>1, FS_EmptySet DEF PinsCover
<1>6. IsFiniteSet(lost)
  BY FS_EmptySet DEF Init
<1>7. QED
  BY <1>1, <1>2, <1>3, <1>4, <1>5, <1>6, TypeSplit DEF TypeInv, Init

LEMMA TalkTypes ==
  ASSUME TypeInv, NEW r \in Request, NEW s \in Session, NEW t \in Topic, Talk(r, s, t)
  PROVE  TypeInv'
<1>1. PICK kind \in {"vote", "topic"} :
        request' = [request EXCEPT ![r] =
            [at |-> "sender", kind |-> kind, session |-> s,
             sender |-> loginedUser[s], topic |-> t]]
  BY DEF Talk
<1>2. request \in [Request -> RequestSet] /\ RestOK /\ request[r].at = "idle"
  BY TypeSplit DEF TypeInv, Talk
<1>3. request' \in [Request -> RequestSet]
  BY <1>1, <1>2 DEF RequestSet, RestOK, Stage
<1>4. /\ request'[r].at = "sender" /\ request'[r].session = s
      /\ request'[r].topic = t /\ request'[r].sender = loginedUser[s]
      /\ \A q \in Request : q # r => request'[q] = request[q]
  BY <1>1, <1>2
<1>5. RestOK' /\ IsFiniteSet(lost)' /\ cachedTopics' = cachedTopics
      /\ UNCHANGED <<pins, updateQueue, loginedUser>>
  BY <1>2
  DEF Talk, TypeInv, RestOK, sessionVars, cacheVars, queueVars, storeVars, boundVars
<1>6. \A q \in Request : Carries(q)'
  BY <1>4, <1>5 DEF TypeInv, Carries
<1>7. OneInLock'
  BY <1>4, LockUntouched DEF TypeInv, Inside
<1>8. PinsCover'
  BY <1>2, <1>4, <1>5, PinsUntouched DEF TypeInv
<1>9. QED
  BY <1>3, <1>5, <1>6, <1>7, <1>8, TypeSplit DEF TypeInv

\* A request that goes on to another stage, or is answered, and changes nothing
\* else that the invariant of the types counts on.
Apart == UNCHANGED <<loginedUser, cachedTopics, pins, updateQueue, lost>>

LEMMA MoveTypes ==
  ASSUME TypeInv, NEW r \in Request, NEW stage \in Stage \ {"idle", "add"},
         To(r, stage), request[r].at \notin {"idle", "add"},
         Inside(r) \/ LockFree(request[r].session),
         stage \in {"cache", "exist", "count"} => request[r].kind = "vote",
         stage = "addTopic" => request[r].kind = "topic",
         RestOK', Apart
  PROVE  TypeInv'
<1>1. /\ request' \in [Request -> RequestSet]
      /\ request'[r].at = stage /\ request'[r].kind = request[r].kind
      /\ request'[r].session = request[r].session
      /\ request'[r].topic = request[r].topic
      /\ request'[r].sender = request[r].sender
      /\ \A q \in Request : q # r => request'[q] = request[q]
  BY ToFacts DEF TypeInv
<1>2. \A q \in Request : Carries(q)'
  BY <1>1 DEF TypeInv, Carries, Apart
<1>3. OneInLock'
  BY <1>1 DEF TypeInv, OneInLock, LockFree, Inside
<1>4. PinsCover'
  BY <1>1, PinsUntouched DEF TypeInv, Apart
<1>5. QED
  BY <1>1, <1>2, <1>3, <1>4, TypeSplit DEF TypeInv, Apart

LEMMA AnswerTypes ==
  ASSUME TypeInv, NEW r \in Request, Answered(r), request[r].at # "add", RestOK', Apart
  PROVE  TypeInv'
<1>1. /\ request' \in [Request -> RequestSet]
      /\ request'[r].at = "idle"
      /\ \A q \in Request : q # r => request'[q] = request[q]
  BY AnsweredFacts DEF TypeInv
<1>2. \A q \in Request : Carries(q)'
  BY <1>1 DEF TypeInv, Carries, Apart
<1>3. OneInLock'
  BY <1>1, LockUntouched DEF TypeInv, Inside
<1>4. PinsCover'
  BY <1>1, PinsUntouched DEF TypeInv, Apart
<1>5. QED
  BY <1>1, <1>2, <1>3, <1>4, TypeSplit DEF TypeInv, Apart

\* The tests of a vote: under the lock of its session.
LEMMA TestTypes ==
  ASSUME TypeInv, NEW r \in Request, CanVote(r) \/ CheckCache(r) \/ CheckStore(r)
  PROVE  TypeInv'
<1> DEFINE s == request[r].session
           t == request[r].topic
<1>1. /\ RestOK /\ request[r].kind \in {"vote", "topic"}
      /\ request[r].at # "idle" /\ s \in Session /\ t \in Topic
  BY TypeSplit DEF TypeInv, Carries, TypeOK, CanVote, CheckCache, CheckStore
<1>2. /\ UNCHANGED <<loginedUser, missed, cacheVars, queueVars, storeVars, boundVars>>
      /\ UNCHANGED voteInfo \/ Note(s, t, "voted")
  BY DEF CanVote, CheckCache, CheckStore, Duplicate
<1>3. RestOK' /\ Apart
  <2>1. voteInfo' \in [Session -> [Topic -> {"unknown", "notVoted", "voted"}]]
    <3>1. CASE UNCHANGED voteInfo
      BY <1>1, <3>1 DEF RestOK
    <3>2. CASE Note(s, t, "voted")
      BY <1>1, <3>2 DEF RestOK, Note
    <3>3. QED
      BY <1>2, <3>1, <3>2
  <2>2. QED
    BY <1>1, <1>2, <2>1 DEF RestOK, Apart, cacheVars, queueVars, storeVars, boundVars
<1>4. CASE Answered(r)
  <2>1. request[r].at # "add"
    BY DEF CanVote, CheckCache, CheckStore
  <2>2. QED
    BY <1>3, <1>4, <2>1, AnswerTypes
<1>5. CASE ~Answered(r)
  <2>1. /\ LockFree(s) \/ Inside(r)
        /\ request[r].at \notin {"idle", "add"}
        /\ \E stage \in Stage \ {"idle", "add"} :
             /\ To(r, stage)
             /\ stage \in {"cache", "exist", "count"} => request[r].kind = "vote"
             /\ stage = "addTopic" => request[r].kind = "topic"
    <3>1. CASE CanVote(r)
      BY <1>1, <1>5, <3>1 DEF CanVote, Stage
    <3>2. CASE CheckCache(r)
      BY <1>5, <3>2 DEF CheckCache, Duplicate, TypeInv, Carries, Inside, Stage
    <3>3. CASE CheckStore(r)
      BY <1>5, <3>3 DEF CheckStore, Duplicate, TypeInv, Carries, Inside, Stage
    <3>4. QED
      BY <3>1, <3>2, <3>3
  <2>2. QED
    BY <1>3, <2>1, MoveTypes
<1>6. QED
  BY <1>4, <1>5

LEMMA RecordTypes ==
  ASSUME TypeInv, NEW r \in Request, Record(r)
  PROVE  TypeInv'
<1>1. /\ RestOK /\ request[r].session \in Session /\ request[r].topic \in Topic
      /\ request[r].at = "record"
  BY TypeSplit DEF TypeInv, Carries, Record
<1>2. RestOK' /\ Apart
  BY <1>1 DEF Record, Note, RestOK, Apart, cacheVars, queueVars, storeVars, boundVars
<1>3. QED
  BY <1>1, <1>2, AnswerTypes DEF Record

\* The pin is taken with the step to "add", and covers it.
LEMMA CountTypes ==
  ASSUME TypeInv, NEW r \in Request, Count(r)
  PROVE  TypeInv'
<1> DEFINE t == request[r].topic
           u == request[r].sender
<1>1. /\ request[r].at = "count" /\ RestOK /\ t \in Topic
      /\ request[r].session \in Session /\ u \in User
      /\ UNCHANGED <<cachedVotes, sessionVars, queueVars, storeVars, boundVars>>
  BY TypeSplit, VotingAssumption DEF TypeInv, Carries, Count
<1>2. CASE t \notin cachedTopics \cup topicRows
  <2>1. Answered(r) /\ UNCHANGED <<cachedTopics, results, pins>>
    BY <1>2 DEF Count
  <2>2. RestOK' /\ Apart
    BY <1>1, <2>1
    DEF RestOK, Apart, sessionVars, queueVars, storeVars, boundVars
  <2>3. QED
    BY <1>1, <2>1, <2>2, AnswerTypes
<1>3. CASE t \in cachedTopics \cup topicRows
  <2>1. /\ cachedTopics' = cachedTopics \cup {t}
        /\ results' = [results EXCEPT ![t] = [Loaded(t) EXCEPT ![u] = @ + 1]]
        /\ pins' = [pins EXCEPT ![t] = @ + 1]
        /\ To(r, "add")
    BY <1>3 DEF Count, Pinned
  <2>2. /\ request' \in [Request -> RequestSet]
        /\ request'[r].at = "add" /\ request'[r].kind = request[r].kind
        /\ request'[r].session = request[r].session
        /\ request'[r].topic = t /\ request'[r].sender = u
        /\ \A q \in Request : q # r => request'[q] = request[q]
    BY <2>1, ToFacts DEF TypeInv, Stage
  <2>3. Loaded(t) \in [User -> Nat]
    BY <1>1 DEF Loaded, RestOK
  <2>4. [Loaded(t) EXCEPT ![u] = @ + 1] \in [User -> Nat]
    BY <1>1, <2>3
  <2>5. RestOK'
    BY <1>1, <2>1, <2>4
    DEF RestOK, sessionVars, queueVars, storeVars, boundVars
  <2>6. \A q \in Request : Carries(q)'
    BY <1>1, <2>1, <2>2 DEF TypeInv, Carries
  <2>7. OneInLock'
    BY <1>1, <2>2, LockUntouched DEF TypeInv, Inside
  <2>8. PinsCover'
    <3>1. ASSUME NEW x \in Topic
          PROVE  /\ IsFiniteSet(Adding(x)')
                 /\ pins'[x] >= Cardinality(Adding(x)') + Queued(x)'
      <4>1. /\ IsFiniteSet(Adding(x)) /\ Cardinality(Adding(x)) \in Nat
            /\ pins[x] \in Nat /\ Queued(x)' = Queued(x) /\ Queued(x) \in Nat
            /\ pins[x] >= Cardinality(Adding(x)) + Queued(x)
        BY <1>1, FS_CardinalityType DEF TypeInv, PinsCover, RestOK, Queued, queueVars
      <4>2. CASE x # t
        <5>1. Adding(x)' = Adding(x) /\ pins'[x] = pins[x]
          BY <1>1, <2>1, <2>2, <4>2 DEF Adding, RestOK
        <5>2. QED
          BY <4>1, <5>1
      <4>3. CASE x = t
        <5>1. Adding(x)' = Adding(x) \cup {r} /\ r \notin Adding(x)
          BY <1>1, <2>2, <4>3 DEF Adding
        <5>2. /\ IsFiniteSet(Adding(x)')
              /\ Cardinality(Adding(x)') = Cardinality(Adding(x)) + 1
          BY <4>1, <5>1, FS_AddElement
        <5>3. pins'[x] = pins[x] + 1
          BY <1>1, <2>1, <4>3 DEF RestOK
        <5>4. QED
          BY <4>1, <5>2, <5>3
      <4>4. QED
        BY <4>2, <4>3
    <3>2. QED
      BY <3>1 DEF PinsCover
  <2>9. QED
    BY <1>1, <2>2, <2>5, <2>6, <2>7, <2>8, TypeSplit
    DEF TypeInv, sessionVars, storeVars
<1>4. QED
  BY <1>2, <1>3

\* The pin passes from the request to updateQueue.
LEMMA AddVoteTypes ==
  ASSUME TypeInv, NEW r \in Request, AddVote(r)
  PROVE  TypeInv'
<1> DEFINE t == request[r].topic
<1>1. /\ request[r].at = "add" /\ RestOK /\ t \in cachedTopics /\ MyVote(r) \in Vote
      /\ cachedVotes' = cachedVotes \cup {MyVote(r)}
      /\ unsavedVotes' = unsavedVotes \cup {MyVote(r)}
      /\ updateQueue' = updateQueue \cup {t}
      /\ To(r, "record")
      /\ UNCHANGED <<cachedTopics, results, pins, unsavedTopics, sessionVars>>
      /\ UNCHANGED <<storeVars, boundVars>>
  BY TypeSplit, VotingAssumption DEF TypeInv, Carries, AddVote, MyVote, Vote
<1>2. /\ request' \in [Request -> RequestSet]
      /\ request'[r].at = "record" /\ request'[r].session = request[r].session
      /\ request'[r].topic = t /\ request'[r].sender = request[r].sender
      /\ \A q \in Request : q # r => request'[q] = request[q]
  BY <1>1, ToFacts DEF TypeInv, Stage
<1>3. RestOK'
  BY <1>1 DEF RestOK, sessionVars, storeVars, boundVars
<1>4. \A q \in Request : Carries(q)'
  BY <1>1, <1>2 DEF TypeInv, Carries
<1>5. OneInLock'
  BY <1>1, <1>2, LockUntouched DEF TypeInv, Inside
<1>6. PinsCover'
  <2>1. ASSUME NEW x \in Topic
        PROVE  /\ IsFiniteSet(Adding(x)')
               /\ pins'[x] >= Cardinality(Adding(x)') + Queued(x)'
    <3>1. /\ IsFiniteSet(Adding(x)) /\ Cardinality(Adding(x)) \in Nat
          /\ pins'[x] = pins[x] /\ pins[x] \in Nat
          /\ pins[x] >= Cardinality(Adding(x)) + Queued(x)
      BY <1>1, FS_CardinalityType DEF TypeInv, PinsCover, RestOK
    <3>2. CASE x # t
      <4>1. Adding(x)' = Adding(x) /\ Queued(x)' = Queued(x)
        BY <1>1, <1>2, <3>2 DEF Adding, Queued
      <4>2. QED
        BY <3>1, <4>1
    <3>3. CASE x = t
      <4>1. Adding(x)' = Adding(x) \ {r} /\ r \in Adding(x)
        BY <1>1, <1>2, <3>3 DEF Adding
      <4>2. /\ IsFiniteSet(Adding(x)')
            /\ Cardinality(Adding(x)') = Cardinality(Adding(x)) - 1
        BY <3>1, <4>1, FS_RemoveElement
      <4>3. Queued(x)' \in {0, 1} /\ Queued(x) \in {0, 1}
        BY DEF Queued
      <4>4. QED
        BY <3>1, <4>2, <4>3
    <3>4. QED
      BY <3>2, <3>3
  <2>2. QED
    BY <2>1 DEF PinsCover
<1>7. QED
  BY <1>1, <1>2, <1>3, <1>4, <1>5, <1>6, TypeSplit DEF TypeInv, sessionVars, storeVars

LEMMA AddTopicTypes ==
  ASSUME TypeInv, NEW r \in Request, AddTopic(r)
  PROVE  TypeInv'
<1> DEFINE t == request[r].topic
<1>1. /\ request[r].at = "addTopic" /\ RestOK /\ t \in Topic
      /\ To(r, "record")
      /\ cachedTopics' = cachedTopics \cup {t}
  BY TypeSplit DEF TypeInv, Carries, AddTopic
<1>2. /\ request' \in [Request -> RequestSet]
      /\ request'[r].at = "record" /\ request'[r].session = request[r].session
      /\ request'[r].topic = t /\ request'[r].sender = request[r].sender
      /\ \A q \in Request : q # r => request'[q] = request[q]
  BY <1>1, ToFacts DEF TypeInv, Stage
<1>3. results' \in [Topic -> [User -> Nat]]
  BY <1>1 DEF AddTopic, RestOK, NoCount
<1>4. RestOK'
  BY <1>1, <1>3 DEF AddTopic, RestOK, sessionVars, storeVars, boundVars
<1>5. \A q \in Request : Carries(q)'
  BY <1>1, <1>2 DEF TypeInv, Carries
<1>6. OneInLock'
  BY <1>1, <1>2, LockUntouched DEF TypeInv, Inside
<1>7. PinsCover'
  BY <1>1, <1>2, PinsUntouched DEF TypeInv, AddTopic
<1>8. QED
  BY <1>2, <1>4, <1>5, <1>6, <1>7, TypeSplit
  DEF TypeInv, AddTopic, sessionVars, storeVars

\* The steps that are not of a request: its stage stays as it is.
LEMMA QuietTypes ==
  ASSUME TypeInv, UNCHANGED request, RestOK', IsFiniteSet(lost'),
         \A s \in Session : loginedUser'[s] \in OwnIdentity[s],
         \A q \in Request : request[q].at = "add" => request[q].topic \in cachedTopics',
         PinsCover'
  PROVE  TypeInv'
<1>1. \A q \in Request : Carries(q)'
  BY DEF TypeInv, Carries
<1>2. OneInLock'
  BY DEF TypeInv, OneInLock, Inside
<1>3. request' \in [Request -> RequestSet]
  BY TypeSplit DEF TypeInv
<1>4. QED
  BY <1>1, <1>2, <1>3, TypeSplit DEF TypeInv

\* ProtectedMessageFilter and LoginServlet.
LEMMA SessionTypes ==
  ASSUME TypeInv, NEW s \in Session,
         \/ \E t \in Topic : FilterMiss(s, t)
         \/ \E t \in Topic, same \in BOOLEAN : FilterQuery(s, t, same)
         \/ \E u \in User : Login(s, u)
  PROVE  TypeInv'
<1>1. RestOK /\ UNCHANGED <<request, cacheVars, queueVars, storeVars, restarts>>
  BY TypeSplit DEF TypeInv, FilterMiss, FilterQuery, Login, boundVars
<1>2. PinsCover'
  BY <1>1, PinsUntouched DEF TypeInv, cacheVars, queueVars
<1>3. \A q \in Request : request[q].at = "add" => request[q].topic \in cachedTopics'
  BY <1>1 DEF TypeInv, Carries, cacheVars
<1>4. ASSUME NEW t \in Topic, FilterMiss(s, t)
      PROVE  TypeInv'
  <2>1. missed' \subseteq Session \X Topic \X BOOLEAN
    <3>1. missed' = missed \cup {<<s, t, TRUE>>} /\ missed \subseteq Session \X Topic \X BOOLEAN
      BY <1>1, <1>4 DEF FilterMiss, RestOK
    <3>2. <<s, t, TRUE>> \in Session \X Topic \X BOOLEAN
      BY Zenon
    <3>3. QED
      BY <3>1, <3>2
  <2>2. RestOK'
    BY <1>1, <1>4, <2>1
    DEF FilterMiss, RestOK, cacheVars, queueVars, storeVars, boundVars
  <2>3. QED
    BY <1>1, <1>2, <1>3, <1>4, <2>2, QuietTypes DEF FilterMiss, TypeInv, storeVars
<1>5. ASSUME NEW t \in Topic, NEW same \in BOOLEAN, FilterQuery(s, t, same)
      PROVE  TypeInv'
  <2>1. missed' \subseteq Session \X Topic \X BOOLEAN
    BY <1>1, <1>5 DEF FilterQuery, RestOK
  <2>2. voteInfo' \in [Session -> [Topic -> {"unknown", "notVoted", "voted"}]]
    <3>1. CASE UNCHANGED voteInfo
      BY <1>1, <3>1 DEF RestOK
    <3>2. CASE \E info \in {"voted", "notVoted"} : Note(s, t, info)
      BY <1>1, <3>2 DEF RestOK, Note
    <3>3. QED
      BY <1>5, <3>1, <3>2 DEF FilterQuery
  <2>3. RestOK'
    BY <1>1, <1>5, <2>1, <2>2
    DEF FilterQuery, RestOK, cacheVars, queueVars, storeVars, boundVars
  <2>4. QED
    BY <1>1, <1>2, <1>3, <1>5, <2>3, QuietTypes DEF FilterQuery, TypeInv, storeVars
<1>6. ASSUME NEW u \in User, Login(s, u)
      PROVE  TypeInv'
  <2>1. missed' \subseteq Session \X Topic \X BOOLEAN
    <3>1. missed' = {<<x[1], x[2], x[3] /\ x[1] # s>> : x \in missed}
      BY <1>6 DEF Login
    <3>2. \A x \in missed : /\ x[1] \in Session /\ x[2] \in Topic
                            /\ (x[3] /\ x[1] # s) \in BOOLEAN
      BY <1>1 DEF RestOK
    <3>3. \A x \in missed : <<x[1], x[2], x[3] /\ x[1] # s>> \in Session \X Topic \X BOOLEAN
      BY <3>2, Zenon
    <3>4. QED
      BY <3>1, <3>3, Zenon
  <2>2. voteInfo' \in [Session -> [Topic -> {"unknown", "notVoted", "voted"}]]
    BY <1>1, <1>6 DEF Login, ClearedInfo, NoInfo, RestOK
  <2>3. loginedUser' \in [Session -> User] /\ logins' \in 0 .. MaxLogins
        /\ \A x \in Session : loginedUser'[x] \in OwnIdentity[x]
    BY <1>1, <1>6, VotingAssumption DEF Login, RestOK, TypeInv
  <2>4. RestOK'
    BY <1>1, <2>1, <2>2, <2>3 DEF RestOK, cacheVars, queueVars, storeVars
  <2>5. QED
    BY <1>1, <1>2, <1>3, <2>3, <2>4, QuietTypes DEF TypeInv, storeVars
<1>7. QED
  BY <1>4, <1>5, <1>6

\* The timer thread and the restart.
LEMMA TimerTypes ==
  ASSUME TypeInv, TimerStep
  PROVE  TypeInv'
<1>1. RestOK /\ UNCHANGED <<request, sessionVars, results, boundVars>>
  BY TypeSplit
  DEF TypeInv, TimerStep, SaveTopic, UpdateVoteTopic, RecycleTopic, SaveVote, RecycleVote,
      cacheVars, storeVars
<1>2. \A s \in Session : loginedUser'[s] \in OwnIdentity[s]
  BY <1>1 DEF TypeInv, sessionVars
<1>3. ASSUME NEW t \in Topic, SaveTopic(t)
      PROVE  TypeInv'
  <2>1. rowResults' \in [Topic -> [User -> Nat]]
    BY <1>1, <1>3 DEF SaveTopic, RestOK
  <2>2. RestOK' /\ IsFiniteSet(lost')
    BY <1>1, <1>3, <2>1 DEF SaveTopic, RestOK, TypeInv, sessionVars, cacheVars, boundVars
  <2>3. PinsCover'
    BY <1>3, PinsUntouched DEF SaveTopic, TypeInv, cacheVars
  <2>4. QED
    BY <1>1, <1>2, <1>3, <2>2, <2>3, QuietTypes
    DEF SaveTopic, TypeInv, Carries, cacheVars
<1>4. ASSUME NEW v \in Vote, SaveVote(v)
      PROVE  TypeInv'
  <2>1. RestOK'
    BY <1>1, <1>4 DEF SaveVote, RestOK, sessionVars, cacheVars, boundVars
  <2>2. PinsCover'
    BY <1>4, PinsUntouched DEF SaveVote, TypeInv, cacheVars
  <2>3. IsFiniteSet(lost')
    BY <1>4, FS_AddElement DEF SaveVote, TypeInv
  <2>4. QED
    BY <1>1, <1>2, <1>4, <2>1, <2>2, <2>3, QuietTypes
    DEF SaveVote, TypeInv, Carries, cacheVars
<1>5. ASSUME NEW t \in Topic, UpdateVoteTopic(t)
      PROVE  TypeInv'
  <2>1. /\ updateQueue' = updateQueue \ {t} /\ t \in updateQueue
        /\ pins' = [pins EXCEPT ![t] = @ - 1]
        /\ UNCHANGED <<unsavedTopics, unsavedVotes, cachedTopics, cachedVotes, results>>
        /\ UNCHANGED <<storeVars, sessionVars, request, boundVars>>
    BY <1>5 DEF UpdateVoteTopic
  <2>2. ASSUME NEW x \in Topic
        PROVE  /\ IsFiniteSet(Adding(x)') /\ pins'[x] \in Nat
               /\ pins'[x] >= Cardinality(Adding(x)') + Queued(x)'
    <3>1. /\ IsFiniteSet(Adding(x)) /\ Cardinality(Adding(x)) \in Nat
          /\ pins[x] \in Nat /\ Adding(x)' = Adding(x)
          /\ pins[x] >= Cardinality(Adding(x)) + Queued(x)
      BY <1>1, <2>1, FS_CardinalityType DEF TypeInv, PinsCover, RestOK, Adding
    <3>2. CASE x # t
      BY <1>1, <2>1, <3>1, <3>2 DEF Queued, RestOK
    <3>3. CASE x = t
      <4>1. Queued(x) = 1 /\ Queued(x)' = 0 /\ pins'[x] = pins[x] - 1
        BY <1>1, <2>1, <3>3 DEF Queued, RestOK
      <4>2. QED
        BY <3>1, <4>1
    <3>4. QED
      BY <3>2, <3>3
  <2>3. pins' \in [Topic -> Nat]
    BY <1>1, <2>1, <2>2 DEF RestOK
  <2>4. RestOK'
    BY <1>1, <2>1, <2>3 DEF RestOK, sessionVars, storeVars, boundVars
  <2>5. PinsCover'
    BY <2>2 DEF PinsCover
  <2>6. QED
    BY <1>1, <1>2, <2>1, <2>4, <2>5, QuietTypes DEF TypeInv, Carries, storeVars
<1>6. ASSUME NEW v \in Vote, RecycleVote(v)
      PROVE  TypeInv'
  <2>1. RestOK'
    BY <1>1, <1>6 DEF RecycleVote, RestOK, sessionVars, queueVars, storeVars, boundVars
  <2>2. PinsCover'
    BY <1>6, PinsUntouched DEF RecycleVote, TypeInv, queueVars
  <2>3. QED
    BY <1>1, <1>2, <1>6, <2>1, <2>2, QuietTypes
    DEF RecycleVote, TypeInv, Carries, storeVars
<1>7. ASSUME NEW t \in Topic, RecycleTopic(t)
      PROVE  TypeInv'
  <2>1. RestOK'
    BY <1>1, <1>7 DEF RecycleTopic, RestOK, sessionVars, queueVars, storeVars, boundVars
  <2>2. PinsCover'
    BY <1>7, PinsUntouched DEF RecycleTopic, TypeInv, queueVars
  <2>3. Adding(t) = {}
    <3>1. /\ IsFiniteSet(Adding(t)) /\ Cardinality(Adding(t)) \in Nat
          /\ pins[t] >= Cardinality(Adding(t)) + Queued(t) /\ Queued(t) \in {0, 1}
      BY FS_CardinalityType DEF TypeInv, PinsCover, Queued
    <3>2. Cardinality(Adding(t)) = 0
      BY <1>7, <3>1 DEF RecycleTopic
    <3>3. QED
      BY <3>1, <3>2, FS_EmptySet
  <2>4. \A q \in Request : request[q].at = "add" => request[q].topic \in cachedTopics'
    BY <1>7, <2>3 DEF RecycleTopic, Adding, TypeInv, Carries
  <2>5. QED
    BY <1>1, <1>2, <1>7, <2>1, <2>2, <2>4, QuietTypes DEF RecycleTopic, TypeInv, storeVars
<1>8. QED
  BY <1>3, <1>4, <1>5, <1>6, <1>7 DEF TimerStep

LEMMA RestartTypes ==
  ASSUME TypeInv, Restart
  PROVE  TypeInv'
<1>1. RestOK
  BY TypeSplit DEF TypeInv
<1>2. restarts' \in 0 .. MaxFaults
  <2>1. Cardinality(lost) \in Nat /\ restarts \in Nat /\ MaxFaults \in Nat
    BY <1>1, FS_CardinalityType, VotingAssumption DEF TypeInv, RestOK
  <2>2. QED
    BY <2>1 DEF Restart, MayFail
<1>3. RestOK'
  BY <1>1, <1>2 DEF Restart, RestOK, NoInfo, queueVars, storeVars
<1>4. PinsCover'
  <2>1. ASSUME NEW t \in Topic
        PROVE  Adding(t)' = {} /\ pins'[t] = 0 /\ Queued(t)' = 0
    BY DEF Restart, Adding, Queued, queueVars
  <2>2. QED
    BY <2>1, FS_EmptySet DEF PinsCover
<1>5. QED
  BY <1>3, <1>4, QuietTypes DEF Restart, TypeInv, storeVars

LEMMA TypeStep ==
  ASSUME TypeInv, [Next]_vars
  PROVE  TypeInv'
<1>1. ASSUME NEW r \in Request, TalkStep(r)
      PROVE  TypeInv'
  BY <1>1, TalkTypes, TestTypes, CountTypes, AddVoteTypes, AddTopicTypes, RecordTypes
  DEF TalkStep
<1>2. CASE UNCHANGED vars
  <2>1. UNCHANGED <<request, sessionVars, cacheVars, queueVars, storeVars, boundVars>>
    BY <1>2 DEF vars
  <2>2. RestOK'
    BY <2>1, TypeSplit
    DEF TypeInv, RestOK, sessionVars, cacheVars, queueVars, storeVars, boundVars
  <2>3. PinsCover'
    BY <2>1, PinsUntouched DEF TypeInv, cacheVars, queueVars
  <2>4. QED
    BY <2>1, <2>2, <2>3, QuietTypes
    DEF TypeInv, Carries, sessionVars, cacheVars, storeVars
<1>3. QED
  BY <1>1, <1>2, SessionTypes, TimerTypes, RestartTypes DEF Next

\* The state of the votes keeps its types: no pin of a topic is given back that
\* was not taken, and whatever waits to be saved or updated is in the cache.
THEOREM VotingTypeCorrect == Spec => []TypeOK
<1>1. Spec => []TypeInv
  BY TypeInit, TypeStep, PTL DEF Spec
<1>2. TypeInv => TypeOK
  BY DEF TypeInv
<1>3. QED
  BY <1>1, <1>2, PTL

-----------------------------------------------------------------------------
(* The invariant of the tally.                                               *)

\* The vote of u in t is on its way to the cache, in the cache or saved.
Cast(u, t) ==
  \/ <<u, t>> \in cachedVotes \cup voteRows
  \/ \E r \in Request : request[r].at = "add" /\ MyVote(r) = <<u, t>>

\* A count of votes has each vote once at most, and only the votes cast.
Fair(u, t, count) == count \in {0, 1} /\ (count = 1 => Cast(u, t))

\* What the tests of the cache and of the store have found still holds when the
\* vote is counted, and what has been cast is not forgotten before the answer.
Tested(r) ==
  /\ request[r].at \in {"exist", "count"} => MyVote(r) \notin cachedVotes
  /\ request[r].at = "count" => MyVote(r) \notin voteRows
  /\ request[r].at = "record" /\ request[r].kind = "vote" => MyVote(r) \in Voted
  /\ request[r].at \in {"addTopic", "record"} /\ request[r].kind = "topic" =>
       voteInfo[request[r].session][request[r].topic] = "unknown"

CachedIsKept == cachedVotes \subseteq unsavedVotes \cup voteRows \cup lost

TallyFair ==
  \A u \in User, t \in Topic : <<u, t>> \notin lost =>
    /\ t \in cachedTopics => Fair(u, t, results[t][u])
    /\ t \in topicRows => Fair(u, t, rowResults[t][u])

TallyInv ==
  /\ \A r \in Request : Tested(r)
  /\ CachedIsKept
  /\ TallyFair

LEMMA TallyInit == Init => TallyInv
<1> SUFFICES ASSUME Init PROVE TallyInv
  OBVIOUS
<1>1. \A r \in Request : request[r].at = "idle"
  BY DEF Init, Idle
<1>2. QED
  BY <1>1 DEF Init, TallyInv, Tested, CachedIsKept, TallyFair

\* Two requests in their locks never cast the same vote: it has one sender, and
\* browsers do not share identities.
LEMMA SameVoteSameRequest ==
  ASSUME TypeInv, NEW q \in Request, NEW r \in Request, Inside(q), Inside(r),
         MyVote(q) = MyVote(r)
  PROVE  q = r
<1>1. request[q].sender = request[r].sender
  BY DEF MyVote
<1>2. /\ request[q].session \in Session /\ request[r].session \in Session
      /\ request[q].sender \in OwnIdentity[request[q].session]
      /\ request[r].sender \in OwnIdentity[request[r].session]
  BY DEF TypeInv, Carries, Inside
<1>3. request[q].session = request[r].session
  BY <1>1, <1>2, VotingAssumption
<1>4. QED
  BY <1>3 DEF TypeInv, OneInLock

\* What a step has to leave alone for a request that does not move.
LEMMA OthersTested ==
  ASSUME NEW q \in Request, Tested(q), request'[q] = request[q],
         Inside(q) =>
           /\ voteInfo'[request[q].session][request[q].topic]
                = voteInfo[request[q].session][request[q].topic]
           /\ MyVote(q) \in cachedVotes' => MyVote(q) \in cachedVotes
           /\ MyVote(q) \in voteRows' \ voteRows => MyVote(q) \in cachedVotes
           /\ MyVote(q) \in Voted => MyVote(q) \in Voted'
  PROVE  Tested(q)'
BY DEF Tested, Inside, MyVote

\* A count stays fair while the votes cast stay cast, or get lost.
LEMMA TallyUntouched ==
  ASSUME TallyFair, UNCHANGED <<results, rowResults>>,
         lost \subseteq lost', cachedTopics' \subseteq cachedTopics,
         topicRows' \subseteq topicRows,
         \A u \in User, t \in Topic : Cast(u, t) /\ <<u, t>> \notin lost' => Cast(u, t)'
  PROVE  TallyFair'
BY DEF TallyFair, Fair

\* A step of a request elsewhere than at "add" takes no vote back.
LEMMA CastStays ==
  ASSUME cachedVotes \subseteq cachedVotes', voteRows \subseteq voteRows',
         \A q \in Request : request[q].at = "add" => request'[q] = request[q]
  PROVE  \A u \in User, t \in Topic : Cast(u, t) => Cast(u, t)'
BY DEF Cast, MyVote

LEMMA TalkTally ==
  ASSUME TypeInv, TallyInv, NEW r \in Request, NEW s \in Session, NEW t \in Topic,
         Talk(r, s, t)
  PROVE  TallyInv'
<1>1. /\ request'[r].at = "sender"
      /\ \A q \in Request : q # r => request'[q] = request[q]
      /\ UNCHANGED <<voteInfo, cachedVotes, cachedTopics, results, voteRows, lost>>
      /\ UNCHANGED <<rowResults, topicRows, unsavedVotes>>
  BY DEF Talk, TypeInv, TypeOK, sessionVars, cacheVars, queueVars, storeVars
<1>2. \A q \in Request : Tested(q)'
  <2>1. Tested(r)'
    BY <1>1 DEF Tested
  <2>2. ASSUME NEW q \in Request, q # r PROVE Tested(q)'
    BY <1>1, <2>2, OthersTested DEF TallyInv, Voted
  <2>3. QED
    BY <2>1, <2>2
<1>3. TallyFair'
  BY <1>1, CastStays, TallyUntouched DEF TallyInv, Talk
<1>4. QED
  BY <1>1, <1>2, <1>3 DEF TallyInv, CachedIsKept

\* A note on a topic, for a request that is in the lock or just gets it, touches
\* no other request in a lock.
LEMMA NoteTouchesOnlyIts ==
  ASSUME TypeInv, NEW r \in Request, request[r].at # "idle",
         Inside(r) \/ LockFree(request[r].session),
         NEW info, Note(request[r].session, request[r].topic, info),
         NEW q \in Request, q # r, Inside(q)
  PROVE  voteInfo'[request[q].session] = voteInfo[request[q].session]
<1>1. request[q].session # request[r].session
  BY DEF TypeInv, OneInLock, LockFree
<1>2. request[q].session \in Session
  BY DEF TypeInv, Carries, Inside
<1>3. QED
  BY <1>1, <1>2 DEF Note, TypeInv, TypeOK

LEMMA TestTally ==
  ASSUME TypeInv, TallyInv, NEW r \in Request,
         CanVote(r) \/ CheckCache(r) \/ CheckStore(r) \/ Record(r)
  PROVE  TallyInv'
<1>1. /\ request[r].at \in {"sender", "cache", "exist", "record"}
      /\ Inside(r) \/ LockFree(request[r].session)
      /\ UNCHANGED <<cachedVotes, cachedTopics, results, voteRows, lost>>
      /\ UNCHANGED <<rowResults, topicRows, unsavedVotes>>
      /\ \/ UNCHANGED voteInfo
         \/ \E info \in {"voted", "notVoted"} :
              Note(request[r].session, request[r].topic, info)
  BY DEF CanVote, CheckCache, CheckStore, Record, Duplicate, Inside,
         cacheVars, queueVars, storeVars
<1>2. /\ \A q \in Request : q # r => request'[q] = request[q]
      /\ \/ request'[r].at = "idle"
         \/ /\ UNCHANGED voteInfo /\ MyVote(r)' = MyVote(r)
            /\ request'[r].kind = request[r].kind
            /\ request'[r].session = request[r].session
            /\ request'[r].topic = request[r].topic
            /\ \/ CanVote(r) /\ request'[r].at \in {"cache", "addTopic"}
               \/ CheckCache(r) /\ request'[r].at = "exist"
               \/ CheckStore(r) /\ request'[r].at = "count"
  <2>1. CASE Answered(r)
    BY <2>1, AnsweredFacts DEF TypeInv
  <2>2. CASE ~Answered(r)
    <3>1. \E stage \in {"cache", "addTopic", "exist", "count"} :
            /\ To(r, stage) /\ UNCHANGED voteInfo
            /\ \/ CanVote(r) /\ stage \in {"cache", "addTopic"}
               \/ CheckCache(r) /\ stage = "exist"
               \/ CheckStore(r) /\ stage = "count"
      BY <2>2 DEF CanVote, CheckCache, CheckStore, Record, Duplicate
    <3>2. QED
      BY <3>1, ToFacts DEF TypeInv, Stage, MyVote
  <2>3. QED
    BY <2>1, <2>2
<1>3. Tested(r)'
  <2>1. CASE request'[r].at = "idle"
    BY <2>1 DEF Tested
  <2>2. CASE CanVote(r) /\ request'[r].at = "cache"
    BY <2>2 DEF Tested
  <2>3. CASE CanVote(r) /\ request'[r].at = "addTopic"
    <3>1. /\ request[r].kind = "topic"
          /\ voteInfo[request[r].session][request[r].topic] = "unknown"
      <4>1. ~Answered(r)
        BY <2>3, AnsweredFacts DEF TypeInv
      <4>2. /\ To(r, IF request[r].kind = "vote" THEN "cache" ELSE "addTopic")
            /\ \/ voteInfo[request[r].session][request[r].topic] = "unknown"
               \/ request[r].kind = "vote"
        BY <2>3, <4>1 DEF CanVote
      <4>3. request[r].kind # "vote"
        BY <2>3, <4>2, ToFacts DEF TypeInv, Stage
      <4>4. QED
        BY <4>2, <4>3 DEF TypeInv, TypeOK
    <3>2. QED
      BY <1>2, <2>3, <3>1 DEF Tested
  <2>4. CASE CheckCache(r) /\ request'[r].at = "exist"
    <3>1. MyVote(r) \notin cachedVotes
      BY <2>4, AnsweredFacts DEF CheckCache, Duplicate, TypeInv
    <3>2. QED
      BY <1>1, <1>2, <2>4, <3>1 DEF Tested
  <2>5. CASE CheckStore(r) /\ request'[r].at = "count"
    <3>1. MyVote(r) \notin voteRows
      BY <2>5, AnsweredFacts DEF CheckStore, Duplicate, TypeInv
    <3>2. MyVote(r) \notin cachedVotes
      BY <2>5 DEF CheckStore, TallyInv, Tested
    <3>3. QED
      BY <1>1, <1>2, <2>5, <3>1, <3>2 DEF Tested
  <2>6. QED
    BY <1>2, <2>1, <2>2, <2>3, <2>4, <2>5
<1>4. ASSUME NEW q \in Request, q # r PROVE Tested(q)'
  <2>1. Inside(q) => voteInfo'[request[q].session] = voteInfo[request[q].session]
    BY <1>1, <1>4, NoteTouchesOnlyIts
  <2>2. QED
    BY <1>1, <1>2, <1>4, <2>1, OthersTested DEF TallyInv, Voted
<1>5. TallyFair'
  BY <1>1, <1>2, CastStays, TallyUntouched DEF TallyInv
<1>6. QED
  BY <1>1, <1>3, <1>4, <1>5 DEF TallyInv, CachedIsKept

\* The vote is counted for the first time: it is not cast yet.
LEMMA CountTally ==
  ASSUME TypeInv, TallyInv, NEW r \in Request, Count(r)
  PROVE  TallyInv'
<1>1. /\ request[r].at = "count" /\ Inside(r)
      /\ UNCHANGED <<cachedVotes, unsavedVotes, voteRows, lost, voteInfo>>
      /\ UNCHANGED <<topicRows, rowResults>>
  BY DEF Count, Inside, sessionVars, queueVars, storeVars
<1> PICK t \in Topic, u \in User : t = request[r].topic /\ u = request[r].sender
  BY <1>1, VotingAssumption DEF TypeInv, TypeOK, Carries
<1>2. /\ \A q \in Request : q # r => request'[q] = request[q]
      /\ request'[r].at \in {"idle", "add"}
      /\ request'[r].at = "add" => MyVote(r)' = MyVote(r)
  <2>1. CASE Answered(r)
    BY <2>1, AnsweredFacts DEF TypeInv
  <2>2. CASE To(r, "add")
    BY <2>2, ToFacts DEF TypeInv, Stage, MyVote
  <2>3. QED
    BY <2>1, <2>2 DEF Count
<1>3. \A q \in Request : Tested(q)'
  <2>1. Tested(r)'
    BY <1>2 DEF Tested
  <2>2. ASSUME NEW q \in Request, q # r PROVE Tested(q)'
    BY <1>1, <1>2, <2>2, OthersTested DEF TallyInv, Voted
  <2>3. QED
    BY <2>1, <2>2
<1>4. \A x \in User, y \in Topic : Cast(x, y) => Cast(x, y)'
  BY <1>1, <1>2, CastStays
<1>5. TallyFair'
  <2>1. CASE t \notin cachedTopics \cup topicRows
    BY <1>1, <1>4, <2>1, TallyUntouched DEF Count, TallyInv
  <2>2. CASE t \in cachedTopics \cup topicRows
    <3>1. /\ cachedTopics' = cachedTopics \cup {t}
          /\ results' = [results EXCEPT ![t] = [Loaded(t) EXCEPT ![u] = @ + 1]]
          /\ To(r, "add")
      BY <2>2 DEF Count
    <3>2. ~Cast(u, t)
      <4>1. <<u, t>> = MyVote(r)
        BY DEF MyVote
      <4>2. ASSUME NEW q \in Request, request[q].at = "add", MyVote(q) = MyVote(r)
            PROVE  FALSE
        BY <1>1, <4>2, SameVoteSameRequest DEF Inside
      <4>3. MyVote(r) \notin cachedVotes \cup voteRows
        BY <1>1 DEF TallyInv, Tested
      <4>4. QED
        BY <4>1, <4>2, <4>3 DEF Cast
    <3>3. Cast(u, t)'
      <4>1. request'[r].at = "add" /\ MyVote(r)' = <<u, t>>
        BY <1>2, <3>1, ToFacts DEF TypeInv, Stage, MyVote
      <4>2. QED
        BY <4>1 DEF Cast
    <3>4. Loaded(t) \in [User -> Nat]
      BY <1>1 DEF Loaded, TypeInv, TypeOK
    <3>5. ASSUME NEW x \in User, NEW y \in Topic, <<x, y>> \notin lost'
          PROVE  /\ y \in cachedTopics' => Fair(x, y, results[y][x])'
                 /\ y \in topicRows' => Fair(x, y, rowResults[y][x])'
      <4>1. y \in topicRows' => Fair(x, y, rowResults[y][x])'
        BY <1>1, <1>4, <3>5 DEF TallyInv, TallyFair, Fair
      <4>2. CASE y # t
        <5>1. results'[y] = results[y] /\ (y \in cachedTopics' => y \in cachedTopics)
          BY <3>1, <4>2 DEF TypeInv, TypeOK
        <5>2. QED
          BY <1>1, <1>4, <3>5, <4>1, <5>1 DEF TallyInv, TallyFair, Fair
      <4>3. CASE y = t
        <5>1. Fair(x, y, Loaded(t)[x])
          BY <1>1, <2>2, <3>5, <4>3 DEF Loaded, TallyInv, TallyFair
        <5>2. /\ results'[t] = [Loaded(t) EXCEPT ![u] = @ + 1]
              /\ x # u => results'[t][x] = Loaded(t)[x]
              /\ results'[t][u] = Loaded(t)[u] + 1
          BY <1>1, <3>1, <3>4 DEF TypeInv, TypeOK
        <5>3. CASE x # u
          BY <1>4, <4>1, <4>3, <5>1, <5>2, <5>3 DEF Fair
        <5>4. CASE x = u
          <6>1. Loaded(t)[u] = 0
            BY <3>2, <4>3, <5>1, <5>4 DEF Fair
          <6>2. QED
            BY <3>3, <4>1, <4>3, <5>2, <5>4, <6>1 DEF Fair
        <5>5. QED
          BY <5>3, <5>4
      <4>4. QED
        BY <4>2, <4>3
    <3>6. QED
      BY <3>5 DEF TallyFair
  <2>3. QED
    BY <2>1, <2>2
<1>6. QED
  BY <1>1, <1>3, <1>5 DEF TallyInv, CachedIsKept

\* The vote passes from its request to the cache.
LEMMA AddVoteTally ==
  ASSUME TypeInv, TallyInv, NEW r \in Request, AddVote(r)
  PROVE  TallyInv'
<1>1. /\ request[r].at = "add" /\ Inside(r)
      /\ cachedVotes' = cachedVotes \cup {MyVote(r)}
      /\ unsavedVotes' = unsavedVotes \cup {MyVote(r)}
      /\ UNCHANGED <<cachedTopics, results, voteInfo, topicRows, voteRows>>
      /\ UNCHANGED <<rowResults, lost>>
  BY DEF AddVote, Inside, sessionVars, storeVars
<1>2. /\ \A q \in Request : q # r => request'[q] = request[q]
      /\ request'[r].at = "record" /\ MyVote(r)' = MyVote(r)
      /\ request'[r].kind = "vote"
  BY ToFacts DEF AddVote, TypeInv, Stage, MyVote, Carries
<1>3. \A q \in Request : Tested(q)'
  <2>1. Tested(r)'
    BY <1>1, <1>2 DEF Tested, Voted
  <2>2. ASSUME NEW q \in Request, q # r PROVE Tested(q)'
    <3>1. Inside(q) => MyVote(q) # MyVote(r)
      BY <1>1, <2>2, SameVoteSameRequest
    <3>2. QED
      BY <1>1, <1>2, <2>2, <3>1, OthersTested DEF TallyInv, Voted
  <2>3. QED
    BY <2>1, <2>2
<1>4. \A x \in User, y \in Topic : Cast(x, y) => Cast(x, y)'
  BY <1>1, <1>2 DEF Cast, MyVote
<1>5. TallyFair'
  BY <1>1, <1>4, TallyUntouched DEF TallyInv
<1>6. CachedIsKept'
  BY <1>1 DEF TallyInv, CachedIsKept
<1>7. QED
  BY <1>3, <1>5, <1>6 DEF TallyInv

LEMMA AddTopicTally ==
  ASSUME TypeInv, TallyInv, NEW r \in Request, AddTopic(r)
  PROVE  TallyInv'
<1> DEFINE t == request[r].topic
<1>1. /\ request[r].at = "addTopic" /\ request[r].kind = "topic" /\ t \in Topic
      /\ cachedTopics' = cachedTopics \cup {t}
      /\ results' = [results EXCEPT ![t] = IF t \in cachedTopics THEN @ ELSE NoCount]
      /\ UNCHANGED <<cachedVotes, unsavedVotes, voteInfo, topicRows, voteRows>>
      /\ UNCHANGED <<rowResults, lost>>
  BY DEF AddTopic, TypeInv, Carries, sessionVars, storeVars
<1>2. /\ \A q \in Request : q # r => request'[q] = request[q]
      /\ request'[r].at = "record" /\ request'[r].kind = "topic"
      /\ request'[r].session = request[r].session /\ request'[r].topic = t
  BY <1>1, ToFacts DEF AddTopic, TypeInv, Stage
<1>3. \A q \in Request : Tested(q)'
  <2>1. Tested(r)'
    BY <1>1, <1>2 DEF TallyInv, Tested
  <2>2. ASSUME NEW q \in Request, q # r PROVE Tested(q)'
    BY <1>1, <1>2, <2>2, OthersTested DEF TallyInv, Voted
  <2>3. QED
    BY <2>1, <2>2
<1>4. \A x \in User, y \in Topic : Cast(x, y) => Cast(x, y)'
  BY <1>1, <1>2, CastStays
<1>5. ASSUME NEW x \in User, NEW y \in Topic, <<x, y>> \notin lost'
      PROVE  /\ y \in cachedTopics' => Fair(x, y, results[y][x])'
             /\ y \in topicRows' => Fair(x, y, rowResults[y][x])'
  <2>1. y \in topicRows' => Fair(x, y, rowResults[y][x])'
    BY <1>1, <1>4, <1>5 DEF TallyInv, TallyFair, Fair
  <2>2. CASE y \in cachedTopics
    <3>1. results'[y] = results[y]
      BY <1>1, <2>2 DEF TypeInv, TypeOK
    <3>2. QED
      BY <1>1, <1>4, <1>5, <2>1, <2>2, <3>1 DEF TallyInv, TallyFair, Fair
  <2>3. CASE y \notin cachedTopics
    <3>1. y = t => results'[y][x] = 0
      BY <1>1, <2>3 DEF TypeInv, TypeOK, NoCount
    <3>2. QED
      BY <1>1, <2>1, <2>3, <3>1 DEF Fair
  <2>4. QED
    BY <2>2, <2>3
<1>6. QED
  BY <1>1, <1>3, <1>5 DEF TallyInv, TallyFair, CachedIsKept

\* ProtectedMessageFilter and LoginServlet change what a session remembers only
\* while nobody is in its lock.
LEMMA SessionTally ==
  ASSUME TypeInv, TallyInv, NEW s \in Session,
         \/ \E t \in Topic : FilterMiss(s, t)
         \/ \E t \in Topic, same \in BOOLEAN : FilterQuery(s, t, same)
         \/ \E u \in User : Login(s, u)
  PROVE  TallyInv'
<1>1. UNCHANGED <<request, cacheVars, queueVars, storeVars>>
  BY DEF FilterMiss, FilterQuery, Login
<1>2. \/ UNCHANGED voteInfo
      \/ LockFree(s) /\ \A x \in Session : x # s => voteInfo'[x] = voteInfo[x]
  BY DEF FilterMiss, FilterQuery, Login, Note, ClearedInfo, TypeInv, TypeOK
<1>3. ASSUME NEW q \in Request PROVE Tested(q)'
  <2>1. Inside(q) => voteInfo'[request[q].session] = voteInfo[request[q].session]
    BY <1>2 DEF LockFree, TypeInv, Carries, Inside
  <2>2. QED
    BY <1>1, <2>1, OthersTested DEF TallyInv, Voted, cacheVars, storeVars
<1>4. TallyFair'
  BY <1>1, CastStays, TallyUntouched DEF TallyInv, cacheVars, storeVars
<1>5. QED
  BY <1>1, <1>3, <1>4 DEF TallyInv, CachedIsKept, cacheVars, queueVars, storeVars

\* A vote that is saved was cached, and one that leaves the cache was saved or
\* lost.
LEMMA TimerTally ==
  ASSUME TypeInv, TallyInv, TimerStep
  PROVE  TallyInv'
<1>1. UNCHANGED <<request, voteInfo, results>>
  BY DEF TimerStep, SaveTopic, UpdateVoteTopic, RecycleTopic, SaveVote, RecycleVote,
         sessionVars, cacheVars
<1>2. /\ cachedVotes' \subseteq cachedVotes /\ lost \subseteq lost'
      /\ voteRows \subseteq voteRows' /\ voteRows' \ voteRows \subseteq cachedVotes
      /\ Voted \subseteq Voted' /\ CachedIsKept'
      /\ cachedTopics' \subseteq cachedTopics
  <2>1. CASE \E t \in Topic : SaveTopic(t) \/ UpdateVoteTopic(t) \/ RecycleTopic(t)
    BY <2>1
    DEF SaveTopic, UpdateVoteTopic, RecycleTopic, TallyInv, CachedIsKept, Voted,
        cacheVars, queueVars, storeVars
  <2>2. CASE \E v \in Vote : SaveVote(v)
    BY <2>2 DEF SaveVote, TypeInv, TypeOK, TallyInv, CachedIsKept, Voted, cacheVars
  <2>3. CASE \E v \in Vote : RecycleVote(v)
    BY <2>3 DEF RecycleVote, TallyInv, CachedIsKept, Voted, queueVars, storeVars
  <2>4. QED
    BY <2>1, <2>2, <2>3 DEF TimerStep
<1>3. ASSUME NEW q \in Request PROVE Tested(q)'
  BY <1>1, <1>2, OthersTested DEF TallyInv
<1>4. ASSUME NEW u \in User, NEW t \in Topic, Cast(u, t), <<u, t>> \notin lost'
      PROVE  Cast(u, t)'
  <2>1. <<u, t>> \in cachedVotes => <<u, t>> \in cachedVotes' \cup voteRows'
    <3>1. CASE \E v \in Vote : RecycleVote(v)
      BY <1>4, <3>1 DEF RecycleVote, TallyInv, CachedIsKept, storeVars
    <3>2. CASE ~\E v \in Vote : RecycleVote(v)
      BY <3>2
      DEF TimerStep, SaveTopic, UpdateVoteTopic, RecycleTopic, SaveVote, cacheVars
    <3>3. QED
      BY <3>1, <3>2
  <2>2. QED
    BY <1>1, <1>2, <1>4, <2>1 DEF Cast, MyVote
<1>5. TallyFair'
  <2>1. CASE \E t \in Topic : SaveTopic(t)
    <3>1. PICK t \in Topic : SaveTopic(t)
      BY <2>1
    <3>2. /\ t \in cachedTopics /\ UNCHANGED <<cachedTopics, lost>>
          /\ topicRows' = topicRows \cup {t}
          /\ rowResults' = [rowResults EXCEPT ![t] = IF t \in topicRows THEN @ ELSE results[t]]
      BY <3>1 DEF SaveTopic, TypeInv, TypeOK, cacheVars
    <3>3. ASSUME NEW u \in User, NEW x \in Topic, <<u, x>> \notin lost'
          PROVE  /\ x \in cachedTopics' => Fair(u, x, results[x][u])'
                 /\ x \in topicRows' => Fair(u, x, rowResults[x][u])'
      <4>1. x \in cachedTopics' => Fair(u, x, results[x][u])'
        BY <1>1, <1>4, <3>2, <3>3 DEF TallyInv, TallyFair, Fair
      <4>2. CASE x \in topicRows
        <5>1. rowResults'[x] = rowResults[x]
          BY <3>2, <4>2 DEF TypeInv, TypeOK
        <5>2. QED
          BY <1>4, <3>2, <3>3, <4>1, <4>2, <5>1 DEF TallyInv, TallyFair, Fair
      <4>3. CASE x \notin topicRows
        <5>1. x \in topicRows' => x = t /\ rowResults'[x] = results[x]
          BY <3>2, <4>3 DEF TypeInv, TypeOK
        <5>2. QED
          BY <1>1, <3>2, <4>1, <5>1
      <4>4. QED
        BY <4>2, <4>3
    <3>4. QED
      BY <3>3 DEF TallyFair
  <2>2. CASE ~\E t \in Topic : SaveTopic(t)
    <3>1. UNCHANGED <<topicRows, rowResults>>
      BY <2>2 DEF TimerStep, UpdateVoteTopic, RecycleTopic, SaveVote, RecycleVote, storeVars
    <3>2. QED
      BY <1>1, <1>2, <1>4, <3>1, TallyUntouched DEF TallyInv
  <2>3. QED
    BY <2>1, <2>2
<1>6. QED
  BY <1>2, <1>3, <1>5 DEF TallyInv

\* A restart finds every vote that was cached saved or lost.
LEMMA RestartTally ==
  ASSUME TypeInv, TallyInv, Restart
  PROVE  TallyInv'
<1>1. /\ \A r \in Request : request[r].at = "idle"
      /\ unsavedVotes = {} /\ cachedTopics' = {} /\ cachedVotes' = {}
      /\ UNCHANGED <<request, results, topicRows, voteRows, rowResults, lost>>
  BY DEF Restart, storeVars
<1>2. \A q \in Request : Tested(q)'
  BY <1>1 DEF Tested
<1>3. \A u \in User, t \in Topic : Cast(u, t) /\ <<u, t>> \notin lost' => Cast(u, t)'
  BY <1>1 DEF Cast, TallyInv, CachedIsKept
<1>4. TallyFair'
  BY <1>1, <1>3, TallyUntouched DEF TallyInv
<1>5. QED
  BY <1>1, <1>2, <1>4 DEF TallyInv, CachedIsKept

LEMMA TallyStep ==
  ASSUME TypeInv, TallyInv, [Next]_vars
  PROVE  TallyInv'
<1>1. ASSUME NEW r \in Request, TalkStep(r)
      PROVE  TallyInv'
  BY <1>1, TalkTally, TestTally, CountTally, AddVoteTally, AddTopicTally DEF TalkStep
<1>2. CASE UNCHANGED vars
  BY <1>2
  DEF vars, sessionVars, cacheVars, queueVars, storeVars, TallyInv, Tested, MyVote, Voted,
      CachedIsKept, TallyFair, Fair, Cast
<1>3. QED
  BY <1>1, <1>2, SessionTally, TimerTally, RestartTally DEF Next

LEMMA VotesInvariant == Spec => [](TypeInv /\ TallyInv)
BY TypeInit, TypeStep, TallyInit, TallyStep, PTL DEF Spec

\* No interleaving of talk, filters, logins, the timer and restarts lets a vote
\* be counted twice: the cache and then the store are asked in the lock of the
\* session, and a vote leaves the cache only for the store.
THEOREM EachVoteCountedOnce == Spec => []CountedOnce
<1>1. TypeInv /\ TallyInv => CountedOnce
  BY SMTT(20) DEF TypeInv, TypeOK, TallyInv, TallyFair, Fair, CountedOnce
<1>2. QED
  BY <1>1, VotesInvariant, PTL

\* That the user has voted is forgotten by a login, a restart or a filter that
\* looked before the vote, and by nothing else: a request that writes a topic in
\* the lock found no entry, and no entry appears before its answer.
THEOREM VotesAreRemembered == Spec => VotedIsRemembered
<1> DEFINE Forgets(s, t) == voteInfo[s][t] = "voted" /\ voteInfo'[s][t] # "voted"
           Excused(s, t) ==
             \/ logins' # logins \/ restarts' # restarts
             \/ <<s, t, TRUE>> \in missed \ missed' /\ <<loginedUser[s], t>> \notin voteRows
<1>1. ASSUME TypeInv, TallyInv, [Next]_vars,
             NEW s \in Session, NEW t \in Topic, Forgets(s, t)
      PROVE  Excused(s, t)
  <2>1. ASSUME NEW r \in Request, TalkStep(r) PROVE FALSE
    <3>1. UNCHANGED voteInfo \/ \E x \in Session, y \in Topic : Note(x, y, "voted")
      <4>1. CASE \E x \in Session, y \in Topic : Talk(r, x, y)
        BY <4>1 DEF Talk, sessionVars
      <4>2. CASE CanVote(r) \/ CheckCache(r) \/ CheckStore(r)
        <5>1. request[r].session \in Session /\ request[r].topic \in Topic
          BY <1>1, <4>2 DEF CanVote, CheckCache, CheckStore, TypeInv, Carries
        <5>2. UNCHANGED voteInfo \/ Note(request[r].session, request[r].topic, "voted")
          BY <4>2 DEF CanVote, CheckCache, CheckStore, Duplicate
        <5>3. QED
          BY <5>1, <5>2
      <4>3. CASE Count(r) \/ AddVote(r) \/ AddTopic(r)
        BY <4>3 DEF Count, AddVote, AddTopic, sessionVars
      <4>4. CASE Record(r)
        <5>1. /\ request[r].session \in Session /\ request[r].topic \in Topic
              /\ request[r].kind # "vote" =>
                   voteInfo[request[r].session][request[r].topic] = "unknown"
          BY <1>1, <4>4 DEF Record, TallyInv, Tested, TypeInv, TypeOK, Carries
        <5>2. Note(request[r].session, request[r].topic,
                   IF request[r].kind = "vote" THEN "voted" ELSE "notVoted")
          BY <4>4 DEF Record
        <5>3. CASE request[r].kind = "vote"
          BY <5>1, <5>2, <5>3
        <5>4. CASE request[r].kind # "vote"
          BY <1>1, <5>1, <5>2, <5>4 DEF Note, TypeInv, TypeOK
        <5>5. QED
          BY <5>3, <5>4
      <4>5. QED
        BY <2>1, <4>1, <4>2, <4>3, <4>4 DEF TalkStep
    <3>2. PICK x \in Session, y \in Topic : Note(x, y, "voted")
      BY <1>1, <3>1
    <3>3. voteInfo'[s][t] \in {voteInfo[s][t], "voted"}
      BY <3>2 DEF Note, TypeInv, TypeOK
    <3>4. QED
      BY <1>1, <3>3
  <2>2. ASSUME NEW x \in Session, NEW y \in Topic, NEW same \in BOOLEAN,
               FilterQuery(x, y, same)
        PROVE  Excused(s, t)
    <3>1. voteInfo' # voteInfo
      BY <1>1
    <3>2. same = TRUE
      BY <2>2, <3>1 DEF FilterQuery
    <3>3. Note(x, y, IF <<loginedUser[x], y>> \in voteRows THEN "voted" ELSE "notVoted")
      BY <2>2, <3>1 DEF FilterQuery
    <3>4. x = s /\ y = t /\ <<loginedUser[x], y>> \notin voteRows
      BY <1>1, <3>3 DEF Note, TypeInv, TypeOK
    <3>5. <<s, t, TRUE>> \in missed \ missed'
      BY <2>2, <3>2, <3>4 DEF FilterQuery
    <3>6. QED
      BY <3>4, <3>5
  <2>3. ASSUME NEW x \in Session, NEW u \in User, Login(x, u)
        PROVE  Excused(s, t)
    <3>1. logins \in Nat /\ logins' = logins + 1
      BY <1>1, <2>3, VotingAssumption DEF Login, TypeInv, TypeOK
    <3>2. QED
      BY <3>1
  <2>4. CASE Restart
    BY <1>1, <2>4 DEF Restart, TypeInv, TypeOK
  <2>5. CASE UNCHANGED voteInfo
    BY <1>1, <2>5
  <2>6. UNCHANGED voteInfo \/ ~(UNCHANGED vars \/ TimerStep
                                 \/ \E x \in Session, y \in Topic : FilterMiss(x, y))
    BY DEF vars, sessionVars, TimerStep, SaveTopic, UpdateVoteTopic, RecycleTopic,
           SaveVote, RecycleVote, FilterMiss
  <2>7. QED
    BY <1>1, <2>1, <2>2, <2>3, <2>4, <2>5, <2>6 DEF Next
<1>2. TypeInv /\ TallyInv /\ [Next]_vars =>
        [\A s \in Session, t \in Topic :
           voteInfo[s][t] = "voted" /\ voteInfo'[s][t] # "voted" =>
             \/ logins' # logins \/ restarts' # restarts
             \/ /\ <<s, t, TRUE>> \in missed \ missed'
                /\ <<loginedUser[s], t>> \notin voteRows]_vars
  BY <1>1
<1>3. QED
  BY <1>2, VotesInvariant, PTL DEF Spec, VotedIsRemembered

\* Whoever a session remembers as having voted has voted: the entry comes from a
\* row, from the cache or from an answered vote, and a login clears it.
THEOREM RememberedVotesAreTrue == Spec => VotedIsTrue
<1> DEFINE Marks(s, t) ==
             /\ voteInfo'[s][t] = "voted"
             /\ voteInfo[s][t] # "voted" \/ loginedUser'[s] # loginedUser[s]
           True(s, t) ==
             \/ <<loginedUser'[s], t>> \in Voted
             \/ \E r \in Request : /\ request[r].session = s /\ Inside(r)
                                   /\ request[r].sender # loginedUser[s]
<1>1. ASSUME TypeInv, TallyInv, [Next]_vars,
             NEW s \in Session, NEW t \in Topic, Marks(s, t)
      PROVE  True(s, t)
  <2>1. ASSUME NEW r \in Request, TalkStep(r) PROVE True(s, t)
    <3>1. CASE \E x \in Session, y \in Topic : Talk(r, x, y)
      BY <1>1, <3>1 DEF Talk, sessionVars
    <3>2. CASE Count(r) \/ AddVote(r) \/ AddTopic(r)
      BY <1>1, <3>2 DEF Count, AddVote, AddTopic, sessionVars
    <3>3. CASE CanVote(r) \/ CheckCache(r) \/ CheckStore(r) \/ Record(r)
      <4>1. /\ UNCHANGED loginedUser
            /\ request[r].session \in Session /\ request[r].topic \in Topic
        BY <3>3, <1>1
        DEF CanVote, CheckCache, CheckStore, Record, TypeInv, Carries
      <4>2. \E info \in {"voted", "notVoted"} :
              Note(request[r].session, request[r].topic, info)
        BY <1>1, <3>3, <4>1 DEF CanVote, CheckCache, CheckStore, Record, Duplicate
      <4>3. Note(request[r].session, request[r].topic, "voted")
            /\ request[r].session = s /\ request[r].topic = t
        <5>1. PICK info \in {"voted", "notVoted"} :
                voteInfo' = [voteInfo EXCEPT ![request[r].session][request[r].topic] = info]
          BY <4>2 DEF Note
        <5>2. voteInfo'[s][t] = "voted" /\ voteInfo[s][t] # "voted"
          BY <1>1, <4>1
        <5>3. request[r].session = s /\ request[r].topic = t /\ info = "voted"
          BY <4>1, <5>1, <5>2, <1>1 DEF TypeInv, TypeOK
        <5>4. QED
          BY <5>1, <5>3 DEF Note
      <4>4. CASE CanVote(r)
        <5>1. StoreSaysVoted(s, t)
          BY <1>1, <4>1, <4>3, <4>4 DEF CanVote, TypeInv, TypeOK
        <5>2. QED
          BY <4>1, <5>1 DEF StoreSaysVoted, Voted
      <4>5. CASE ~CanVote(r)
        <5>1. Inside(r) /\ MyVote(r) \in Voted
          <6>1. CASE CheckCache(r)
            BY <1>1, <4>1, <6>1 DEF CheckCache, Voted, Inside
          <6>2. CASE CheckStore(r)
            BY <1>1, <4>1, <6>2 DEF CheckStore, Voted, Inside
          <6>3. CASE Record(r)
            <7>1. request[r].kind = "vote"
              BY <1>1, <4>1, <4>3, <6>3 DEF Record, Note, TypeInv, TypeOK
            <7>2. QED
              BY <1>1, <6>3, <7>1 DEF Record, TallyInv, Tested, Inside
          <6>4. QED
            BY <3>3, <4>5, <6>1, <6>2, <6>3
        <5>2. CASE request[r].sender = loginedUser[s]
          BY <4>1, <4>3, <5>1, <5>2 DEF MyVote
        <5>3. CASE request[r].sender # loginedUser[s]
          BY <4>3, <5>1, <5>3
        <5>4. QED
          BY <5>2, <5>3
      <4>6. QED
        BY <4>4, <4>5
    <3>4. QED
      BY <2>1, <3>1, <3>2, <3>3 DEF TalkStep
  <2>2. ASSUME NEW x \in Session, NEW y \in Topic, NEW same \in BOOLEAN,
               FilterQuery(x, y, same)
        PROVE  True(s, t)
    <3>1. UNCHANGED loginedUser /\ voteInfo' # voteInfo
      BY <1>1, <2>2 DEF FilterQuery
    <3>2. Note(x, y, IF <<loginedUser[x], y>> \in voteRows THEN "voted" ELSE "notVoted")
      BY <2>2, <3>1 DEF FilterQuery
    <3>3. x = s /\ y = t /\ <<loginedUser[x], y>> \in voteRows
      BY <1>1, <3>1, <3>2 DEF Note, TypeInv, TypeOK
    <3>4. QED
      BY <3>1, <3>3 DEF Voted
  <2>3. ASSUME NEW x \in Session, NEW u \in User, Login(x, u)
        PROVE  FALSE
    <3>1. /\ voteInfo' = [voteInfo EXCEPT ![x] = NoInfo]
          /\ loginedUser' = [loginedUser EXCEPT ![x] = u]
      BY <2>3 DEF Login, ClearedInfo
    <3>2. CASE x = s
      BY <1>1, <3>1, <3>2 DEF NoInfo, TypeInv, TypeOK
    <3>3. CASE x # s
      BY <1>1, <3>1, <3>3 DEF TypeInv, TypeOK
    <3>4. QED
      BY <3>2, <3>3
  <2>4. CASE Restart
    BY <1>1, <2>4 DEF Restart, NoInfo
  <2>5. CASE \/ UNCHANGED vars \/ TimerStep
             \/ \E x \in Session, y \in Topic : FilterMiss(x, y)
    <3>1. UNCHANGED <<voteInfo, loginedUser>>
      BY <2>5 DEF vars, sessionVars, TimerStep, SaveTopic, UpdateVoteTopic,
                  RecycleTopic, SaveVote, RecycleVote, FilterMiss
    <3>2. QED
      BY <1>1, <3>1
  <2>6. QED
    BY <1>1, <2>1, <2>2, <2>3, <2>4, <2>5 DEF Next
<1>2. TypeInv /\ TallyInv /\ [Next]_vars =>
        [\A s \in Session, t \in Topic :
           /\ voteInfo'[s][t] = "voted"
           /\ voteInfo[s][t] # "voted" \/ loginedUser'[s] # loginedUser[s]
           => \/ <<loginedUser'[s], t>> \in Voted
              \/ \E r \in Request : /\ request[r].session = s /\ Inside(r)
                                    /\ request[r].sender # loginedUser[s]]_vars
  BY <1>1
<1>3. QED
  BY <1>2, VotesInvariant, PTL DEF Spec, VotedIsTrue
==============================================================================
