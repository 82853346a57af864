------------------------ MODULE BrowserPolling_proofs ------------------------
(* Theorems about BrowserPolling, for any messages, listeners, polls and     *)
(* capacity of a listener's queue.                                           *)
EXTENDS BrowserPolling, QueueLemmas

-----------------------------------------------------------------------------
(* The invariant: what a request carries at each stage, and in which state   *)
(* its continuation then is.                                                 *)

HasListener(p) ==
  /\ poll[p].at \in {"fill", "drain", "refresh", "switch", "flushOld", "unregister",
                     "attach", "suspend", "reject", "conclude"} =>
       poll[p].listener \in Listener
  /\ poll[p].at \notin {"idle", "sent", "first"} => current \in Listener
  /\ poll[p].at \in {"flushOld", "unregister"} => poll[p].listener # current

\* A continuation is suspended from suspend() to its resumption, and gets a
\* result from nobody but who resumes it.
InStep(p) ==
  /\ CASE poll[p].at = "handled" -> continuation[p].state \in {"started", "redispatching"}
       [] poll[p].at = "waiting" -> continuation[p].state \in {"waiting", "redispatch"}
       [] OTHER -> continuation[p].state \in {"dispatched", "redispatched"}
  /\ continuation[p].state \in {"started", "waiting"} => continuation[p].result = <<>>

PollInv ==
  /\ TypeOK
  /\ \A p \in Poll : HasListener(p) /\ InStep(p)
  /\ \A m \in Message : talk[m].at = "added" => talk[m].to \in Listener
  /\ CurrentIsRegistered

-----------------------------------------------------------------------------
(* Types, variable by variable.                                              *)

ObjectSet == [pollType : {"LAZY", "EAGER"}, queue : Seq(Message),
              continuation : Poll \cup {NoPoll}]
ContinuationSet == [state : ContinuationState, expired : BOOLEAN, result : Seq(Message)]
RequestSet == [at : PollStage, type : PollType, loop : BOOLEAN,
               listener : Listener \cup {NoListener}, toPush : Seq(Message)]
TalkSet == [at : TalkStage, to : Listener \cup {NoListener},
            owed : SUBSET Listener, visited : SUBSET Listener]

ObjectsOK == /\ object \in [Listener -> ObjectSet]
             /\ \A l \in Listener : Len(object[l].queue) <= Capacity
ContinuationsOK == continuation \in [Poll -> ContinuationSet]
RequestsOK == poll \in [Poll -> RequestSet]
TalkOK == /\ talk \in [Message -> TalkSet]
          /\ \A m \in Message : talk[m].at = "added" => talk[m].to \in Listener
PageOK == /\ currentMode \in {"LAZY", "EAGER"} /\ next \in {"HISTORY", "currentMode"}
          /\ switches \in 0 .. MaxSwitches /\ refreshes \in 0 .. MaxRefreshes
          /\ breaks \in 0 .. MaxBreaks

PartsOK == /\ recent \in Seq(Message) /\ listeners \subseteq Listener
           /\ current \in Listener \cup {NoListener}
           /\ ObjectsOK /\ ContinuationsOK /\ RequestsOK /\ TalkOK /\ PageOK

LEMMA PollInvParts ==
  /\ PollInv <=> /\ PartsOK /\ CurrentIsRegistered
                 /\ \A p \in Poll : HasListener(p) /\ InStep(p)
  /\ PollInv' <=> /\ PartsOK' /\ CurrentIsRegistered'
                  /\ \A p \in Poll : HasListener(p)' /\ InStep(p)'
<1>1. TypeOK /\ (\A m \in Message : talk[m].at = "added" => talk[m].to \in Listener)
        <=> PartsOK
  BY DEF TypeOK, PollTypeOK, ListenerTypeOK, PartsOK, ObjectsOK, ContinuationsOK,
         RequestsOK, TalkOK, PageOK, ObjectSet, ContinuationSet, RequestSet, TalkSet
<1>2. TypeOK' /\ (\A m \in Message : talk'[m].at = "added" => talk'[m].to \in Listener)
        <=> PartsOK'
  BY DEF TypeOK, PollTypeOK, ListenerTypeOK, PartsOK, ObjectsOK, ContinuationsOK,
         RequestsOK, TalkOK, PageOK, ObjectSet, ContinuationSet, RequestSet, TalkSet
<1>3. QED
  BY <1>1, <1>2 DEF PollInv

-----------------------------------------------------------------------------
(* What the operations on one request, queue or listener do.                 *)

LEMMA ToFacts ==
  ASSUME RequestsOK, NEW p \in Poll, NEW s \in PollStage, To(p, s)
  PROVE  /\ RequestsOK'
         /\ poll'[p].at = s /\ poll'[p].listener = poll[p].listener
         /\ poll'[p].toPush = poll[p].toPush
         /\ \A q \in Poll : q # p => poll'[q] = poll[q]
BY DEF RequestsOK, RequestSet, To

LEMMA AnsweredFacts ==
  ASSUME RequestsOK, NEW p \in Poll, Answered(p)
  PROVE  /\ RequestsOK'
         /\ poll'[p].at = "idle" /\ poll'[p].toPush = <<>>
         /\ \A q \in Poll : q # p => poll'[q] = poll[q]
<1>1. /\ NoRequest \in RequestSet
      /\ NoRequest.at = "idle" /\ NoRequest.toPush = <<>>
  BY DEF NoRequest, RequestSet, PollStage, PollType
<1>2. QED
  BY <1>1 DEF RequestsOK, Answered

\* A queue takes one message more: from a full one the oldest goes.
LEMMA AppendToQueue ==
  ASSUME NEW queue \in Seq(Message), Len(queue) <= Capacity, NEW m \in Message
  PROVE  /\ Append(MakeRoom(queue), m) \in Seq(Message)
         /\ Len(Append(MakeRoom(queue), m)) <= Capacity
         /\ m \in Range(Append(MakeRoom(queue), m))
         /\ \A x \in Range(queue) :
              \/ x \in Range(Append(MakeRoom(queue), m))
              \/ Len(queue) = Capacity /\ x = Head(queue)
<1>1. Capacity \in Nat \ {0} /\ Len(queue) \in Nat
  BY ListenerAssumption, LenProperties
<1>2. CASE Len(queue) = Capacity
  <2>1. queue # <<>> /\ MakeRoom(queue) = Tail(queue)
    BY <1>1, <1>2 DEF MakeRoom
  <2>2. /\ Tail(queue) \in Seq(Message) /\ Len(Tail(queue)) = Len(queue) - 1
        /\ Range(queue) = Range(Tail(queue)) \cup {Head(queue)}
    BY <2>1, TailRange
  <2>3. /\ Append(Tail(queue), m) \in Seq(Message)
        /\ Len(Append(Tail(queue), m)) = Len(Tail(queue)) + 1
        /\ Range(Append(Tail(queue), m)) = Range(Tail(queue)) \cup {m}
    <3> DEFINE rest == Tail(queue)
    <3>1. rest \in Seq(Message)
      BY <2>2
    <3> HIDE DEF rest
    <3>2. /\ Append(rest, m) \in Seq(Message)
          /\ Len(Append(rest, m)) = Len(rest) + 1
          /\ Range(Append(rest, m)) = Range(rest) \cup {m}
      BY <3>1, AppendRange
    <3>3. QED
      BY <3>2 DEF rest
  <2>4. QED
    BY <1>1, <1>2, <2>1, <2>2, <2>3
<1>3. CASE Len(queue) # Capacity
  <2>1. MakeRoom(queue) = queue
    BY <1>3 DEF MakeRoom
  <2>2. /\ Append(queue, m) \in Seq(Message)
        /\ Len(Append(queue, m)) = Len(queue) + 1
        /\ Range(Append(queue, m)) = Range(queue) \cup {m}
    BY AppendRange
  <2>3. QED
    BY <1>1, <1>3, <2>1, <2>2
<1>4. QED
  BY <1>2, <1>3

LEMMA EmptyQueue == /\ <<>> \in Seq(Message) /\ Range(<<>>) = {}
                    /\ Len(<<>>) = 0 /\ Len(<<>>) <= Capacity
BY ListenerAssumption DEF Range

LEMMA SetQueue ==
  ASSUME ObjectsOK, NEW l \in Listener, NEW queue \in Seq(Message), Len(queue) <= Capacity,
         object' = [object EXCEPT ![l].queue = queue]
  PROVE  /\ ObjectsOK'
         /\ object'[l].queue = queue /\ object'[l].continuation = object[l].continuation
         /\ \A x \in Listener : x # l => object'[x] = object[x]
BY DEF ObjectsOK, ObjectSet

\* A flush hands the queue to the poll that waits, and resumes it.
Flushed(q) == /\ q \in Poll /\ IsSuspended(q)
              /\ poll[q].at \in {"handled", "waiting"}
              /\ \A x \in Poll : x # q => continuation'[x] = continuation[x]
              /\ continuation'[q].state =
                   IF poll[q].at = "waiting" THEN "redispatch" ELSE "redispatching"

LEMMA DoFlushFacts ==
  ASSUME PollInv, NEW l \in Listener, InPollingState(l), NEW queue \in Seq(Message),
         DoFlush(l, queue)
  PROVE  /\ ObjectsOK' /\ ContinuationsOK'
         /\ object'[l].queue = <<>>
         /\ \A x \in Listener : x # l => object'[x] = object[x]
         /\ \E q \in Poll : /\ Flushed(q) /\ continuation'[q].result = queue
                            /\ q = object[l].continuation
<1> USE PollInvParts
<1>1. PICK q \in Poll : q = object[l].continuation
  BY DEF InPollingState, PartsOK, ObjectsOK, ObjectSet
<1>2. IsSuspended(q)
  BY <1>1 DEF InPollingState
<1>3. poll[q].at \in {"handled", "waiting"}
  BY <1>2 DEF IsSuspended, InStep
<1>4. (continuation[q].state = "waiting") <=> (poll[q].at = "waiting")
  BY <1>2, <1>3 DEF IsSuspended, InStep
<1>5. /\ object' = [object EXCEPT ![l].queue = <<>>]
      /\ continuation' = [continuation EXCEPT ![q].result = queue, ![q].state =
           IF continuation[q].state = "waiting" THEN "redispatch" ELSE "redispatching"]
  BY <1>1 DEF DoFlush
<1>6. /\ ObjectsOK' /\ object'[l].queue = <<>>
      /\ \A x \in Listener : x # l => object'[x] = object[x]
  BY <1>5, EmptyQueue, SetQueue DEF PartsOK
<1>7. /\ ContinuationsOK' /\ continuation'[q].result = queue
      /\ \A x \in Poll : x # q => continuation'[x] = continuation[x]
      /\ continuation'[q].state =
           IF continuation[q].state = "waiting" THEN "redispatch" ELSE "redispatching"
  BY ZenonT(40), <1>5 DEF PartsOK, ContinuationsOK, ContinuationSet, ContinuationState
<1>8. QED
  BY <1>1, <1>2, <1>3, <1>4, <1>6, <1>7 DEF Flushed

LEMMA DetachFacts ==
  ASSUME PollInv, NEW l \in Listener, Detach(l)
  PROVE  /\ ObjectsOK' /\ ContinuationsOK'
         /\ \A x \in Listener : x # l => object'[x] = object[x]
         /\ \/ /\ ~InPollingState(l) /\ UNCHANGED continuation
               /\ object'[l].queue = object[l].queue
            \/ /\ InPollingState(l) /\ object'[l].queue = <<>>
               /\ \E q \in Poll : /\ Flushed(q) /\ q = object[l].continuation
                                  /\ continuation'[q].result = object[l].queue
<1>1. CASE InPollingState(l)
  <2>1. object[l].queue \in Seq(Message)
    BY PollInvParts DEF PartsOK, ObjectsOK, ObjectSet
  <2>2. QED
    BY <1>1, <2>1, DoFlushFacts DEF Detach
<1>2. CASE ~InPollingState(l)
  <2>1. object' = [object EXCEPT ![l].continuation = NoPoll] /\ UNCHANGED continuation
    BY <1>2 DEF Detach
  <2>2. QED
    BY ZenonT(40), <1>2, <2>1, PollInvParts
    DEF PartsOK, ObjectsOK, ObjectSet, ContinuationsOK
<1>3. QED
  BY <1>1, <1>2

\* Whoever flushes leaves every other continuation in step with its request.
LEMMA StaysInStep ==
  ASSUME PollInv, UNCHANGED continuation \/ \E q \in Poll : Flushed(q),
         \A q \in Poll : \/ poll'[q].at = poll[q].at
                         \/ {poll[q].at, poll'[q].at} \cap {"handled", "waiting"} = {}
  PROVE  \A q \in Poll : InStep(q)'
<1>1. ASSUME NEW q \in Poll, continuation'[q] = continuation[q]
      PROVE  InStep(q)'
  BY <1>1, PollInvParts DEF InStep
<1>2. ASSUME NEW q \in Poll, Flushed(q)
      PROVE  InStep(q)'
  BY <1>2, PollInvParts DEF InStep, Flushed
<1>3. QED
  BY <1>1, <1>2 DEF Flushed

\* A step of request p that leaves the set of listeners alone.
LEMMA ServePreserves ==
  ASSUME PollInv, NEW p \in Poll,
         UNCHANGED <<recent, listeners, talk, current, pageVars>>,
         ObjectsOK', ContinuationsOK', RequestsOK',
         \A q \in Poll : q # p => poll'[q] = poll[q],
         HasListener(p)', \A q \in Poll : InStep(q)'
  PROVE  PollInv'
<1>1. PartsOK'
  BY PollInvParts DEF PartsOK, TalkOK, PageOK, pageVars
<1>2. \A q \in Poll : HasListener(q)'
  BY PollInvParts DEF HasListener
<1>3. QED
  BY <1>1, <1>2, PollInvParts DEF CurrentIsRegistered

LEMMA ArriveInv ==
  ASSUME PollInv, NEW p \in Poll, Arrive(p), UNCHANGED pageVars
  PROVE  PollInv'
<1>1. /\ poll[p].at = "sent" /\ PartsOK
      /\ UNCHANGED <<recent, listeners, object, continuation, talk, current>>
  BY PollInvParts DEF Arrive
<1>2. RequestsOK' /\ HasListener(p)' /\ poll'[p].at \notin {"handled", "waiting"}
      /\ \A q \in Poll : q # p => poll'[q] = poll[q]
  <2>1. CASE Answered(p)
    BY <1>1, <2>1, AnsweredFacts DEF PartsOK, HasListener
  <2>2. CASE ~Answered(p)
    <3> DEFINE s == IF current = NoListener THEN "first"
                    ELSE CASE poll[p].type = "REFRESH" -> "refresh"
                           [] poll[p].type = object[current].pollType -> "attach"
                           [] OTHER -> "switch"
    <3>1. poll' = [poll EXCEPT ![p].listener = current, ![p].at = s]
      BY <2>2 DEF Arrive
    <3>2. /\ s \in {"first", "refresh", "attach", "switch"}
          /\ s # "first" => current # NoListener
      <4>1. CASE current = NoListener
        BY <4>1
      <4>2. CASE poll[p].type = "REFRESH"
        BY <4>2
      <4>3. CASE poll[p].type # "REFRESH" /\ poll[p].type = object[current].pollType
        BY <4>3
      <4>4. CASE poll[p].type # "REFRESH" /\ poll[p].type # object[current].pollType
        BY <4>4
      <4>5. QED
        BY <4>1, <4>2, <4>3, <4>4
    <3> HIDE DEF s
    <3>3. /\ RequestsOK' /\ poll'[p].at = s /\ poll'[p].listener = current
          /\ \A q \in Poll : q # p => poll'[q] = poll[q]
      BY <1>1, <3>1, <3>2 DEF PartsOK, RequestsOK, RequestSet, PollStage
    <3>4. s # "first" => current \in Listener
      BY <1>1, <3>2 DEF PartsOK
    <3>5. QED
      BY <1>1, <3>2, <3>3, <3>4 DEF HasListener
  <2>3. QED
    BY <2>1, <2>2
<1>3. ObjectsOK' /\ ContinuationsOK'
  BY <1>1 DEF PartsOK, ObjectsOK, ContinuationsOK
<1>4. \A q \in Poll : InStep(q)'
  BY <1>1, <1>2, StaysInStep
<1>5. QED
  BY <1>1, <1>2, <1>3, <1>4, ServePreserves

LEMMA PushLatestInv ==
  ASSUME PollInv, NEW p \in Poll, PushLatest(p), UNCHANGED pageVars
  PROVE  PollInv'
<1> DEFINE l == poll[p].listener
           queue == Append(MakeRoom(object[l].queue), Head(poll[p].toPush))
<1>1. /\ poll[p].at = "fill" /\ poll[p].toPush # <<>> /\ PartsOK
      /\ l \in Listener /\ current \in Listener
      /\ UNCHANGED <<recent, listeners, talk, current>>
  BY PollInvParts DEF PushLatest, HasListener
<1>2. poll[p].toPush \in Seq(Message) /\ object[l].queue \in Seq(Message)
      /\ Len(object[l].queue) <= Capacity
  BY <1>1 DEF PartsOK, RequestsOK, RequestSet, ObjectsOK, ObjectSet
<1>3. Head(poll[p].toPush) \in Message /\ Tail(poll[p].toPush) \in Seq(Message)
  BY <1>1, <1>2
<1>4. queue \in Seq(Message) /\ Len(queue) <= Capacity
  BY <1>2, <1>3, AppendToQueue
<1>5. /\ ObjectsOK' /\ ContinuationsOK'
      /\ UNCHANGED continuation \/ \E q \in Poll : Flushed(q)
  <2>1. CASE InPollingState(l) /\ DoFlush(l, queue)
    BY <1>1, <1>4, <2>1, DoFlushFacts
  <2>2. CASE object' = [object EXCEPT ![l].queue = queue] /\ UNCHANGED continuation
    BY <1>1, <1>4, <2>2, SetQueue DEF PartsOK, ContinuationsOK
  <2>3. QED
    BY <2>1, <2>2 DEF PushLatest
<1>6. /\ RequestsOK' /\ poll'[p].at \in {"idle", "fill"}
      /\ poll'[p].at = "fill" => poll'[p].listener \in Listener
      /\ \A q \in Poll : q # p => poll'[q] = poll[q]
  <2>1. CASE Answered(p)
    BY <1>1, <2>1, AnsweredFacts DEF PartsOK
  <2>2. CASE poll' = [poll EXCEPT ![p].toPush = Tail(@)]
    BY <1>1, <1>3, <2>2 DEF PartsOK, RequestsOK, RequestSet
  <2>3. QED
    BY <2>1, <2>2 DEF PushLatest
<1>7. HasListener(p)'
  BY <1>1, <1>6 DEF HasListener
<1>8. \A q \in Poll : InStep(q)'
  BY <1>1, <1>5, <1>6, StaysInStep
<1>9. QED
  BY <1>1, <1>5, <1>6, <1>7, <1>8, ServePreserves

LEMMA DrainInv ==
  ASSUME PollInv, NEW p \in Poll, Drain(p), UNCHANGED pageVars
  PROVE  PollInv'
<1>1. /\ poll[p].at \in {"fill", "drain"} /\ PartsOK /\ poll[p].listener \in Listener
      /\ UNCHANGED <<recent, listeners, continuation, talk, current>>
  BY PollInvParts DEF Drain, HasListener
<1>2. ObjectsOK' /\ ContinuationsOK'
  BY <1>1, EmptyQueue, SetQueue DEF Drain, PollAll, PartsOK, ContinuationsOK
<1>3. /\ RequestsOK' /\ poll'[p].at = "idle"
      /\ \A q \in Poll : q # p => poll'[q] = poll[q]
  BY <1>1, AnsweredFacts DEF Drain, PartsOK
<1>4. \A q \in Poll : InStep(q)'
  BY <1>1, <1>3, StaysInStep
<1>5. QED
  BY <1>1, <1>2, <1>3, <1>4, ServePreserves DEF HasListener

\* The steps that detach who waits on a listener: Refresh, FlushOld, DetachSelf
\* and RejectOverlap.
LEMMA DetachInv ==
  ASSUME PollInv, NEW p \in Poll, NEW l \in Listener, Detach(l), UNCHANGED pageVars,
         poll[p].at \in {"refresh", "flushOld", "detach", "reject"},
         \/ Answered(p)
         \/ \E s \in {"drain", "unregister", "conclude"} :
              /\ poll' = [poll EXCEPT ![p].at = s, ![p].listener = l]
              /\ s = "unregister" => poll[p].at = "flushOld" /\ l = poll[p].listener,
         UNCHANGED <<recent, listeners, talk, current>>
  PROVE  PollInv'
<1>1. PartsOK /\ current \in Listener /\ HasListener(p)
  BY PollInvParts DEF HasListener
<1>2. /\ ObjectsOK' /\ ContinuationsOK'
      /\ UNCHANGED continuation \/ \E q \in Poll : Flushed(q)
  BY DetachFacts
<1> DEFINE Goes == /\ RequestsOK' /\ HasListener(p)'
                   /\ poll'[p].at \notin {"handled", "waiting"}
                   /\ \A q \in Poll : q # p => poll'[q] = poll[q]
<1>3. Goes
  <2>1. CASE Answered(p)
    BY <1>1, <2>1, AnsweredFacts DEF PartsOK, HasListener
  <2>2. ASSUME NEW s \in {"drain", "unregister", "conclude"},
               poll' = [poll EXCEPT ![p].at = s, ![p].listener = l],
               s = "unregister" => poll[p].at = "flushOld" /\ l = poll[p].listener
        PROVE  Goes
    <3>1. /\ RequestsOK' /\ poll'[p].at = s /\ poll'[p].listener = l
          /\ \A q \in Poll : q # p => poll'[q] = poll[q]
      BY <1>1, <2>2 DEF PartsOK, RequestsOK, RequestSet, PollStage
    <3>2. HasListener(p)'
      BY <1>1, <2>2, <3>1 DEF HasListener
    <3>3. QED
      BY <3>1, <3>2
  <2>3. QED
    BY <2>1, <2>2
<1>4. \A q \in Poll : InStep(q)'
  BY <1>2, <1>3, StaysInStep
<1>5. QED
  BY <1>2, <1>3, <1>4, ServePreserves

LEMMA AttachInv ==
  ASSUME PollInv, NEW p \in Poll, AttachPoll(p), UNCHANGED pageVars
  PROVE  PollInv'
<1> DEFINE l == poll[p].listener
<1>1. /\ poll[p].at = "attach" /\ PartsOK /\ HasListener(p) /\ l \in Listener
      /\ UNCHANGED <<recent, listeners, continuation, talk, current>>
  BY PollInvParts DEF AttachPoll, HasListener
<1>2. ObjectsOK' /\ ContinuationsOK'
  BY <1>1 DEF AttachPoll, Attach, PartsOK, ObjectsOK, ObjectSet, ContinuationsOK
<1>3. /\ RequestsOK' /\ poll'[p].at \in {"suspend", "reject"}
      /\ poll'[p].listener = poll[p].listener
      /\ \A q \in Poll : q # p => poll'[q] = poll[q]
  BY <1>1, ToFacts DEF AttachPoll, PartsOK, PollStage
<1>4. \A q \in Poll : InStep(q)'
  BY <1>1, <1>3, StaysInStep
<1>5. HasListener(p)'
  BY <1>1, <1>3 DEF HasListener
<1>6. QED
  BY <1>1, <1>2, <1>3, <1>4, <1>5, ServePreserves

\* suspend(), and what the container does with the continuation until the poll
\* is dispatched again.
LEMMA ContinuationInv ==
  ASSUME PollInv, NEW p \in Poll, UNCHANGED pageVars,
         Suspend(p) \/ Unhandle(p) \/ Expire(p) \/ Redispatch(p)
  PROVE  PollInv'
<1>1. /\ PartsOK /\ HasListener(p) /\ InStep(p) /\ current \in Listener
      /\ UNCHANGED <<recent, listeners, object, talk, current>>
  BY PollInvParts DEF Suspend, Unhandle, Expire, Redispatch, HasListener
<1>2. continuation[p] \in ContinuationSet /\ poll[p] \in RequestSet
  BY <1>1 DEF PartsOK, ContinuationsOK, RequestsOK
<1> DEFINE Goes == /\ continuation' \in [Poll -> ContinuationSet]
                   /\ \A q \in Poll : q # p => continuation'[q] = continuation[q]
                   /\ InStep(p)'
                   /\ RequestsOK' /\ HasListener(p)'
                   /\ \A q \in Poll : q # p => poll'[q] = poll[q]
<1>3. ASSUME Suspend(p) PROVE Goes
  <2>1. [NewContinuation EXCEPT !.state = "started"] \in ContinuationSet
    BY EmptyQueue DEF NewContinuation, ContinuationSet, ContinuationState
  <2>2. /\ continuation'[p].state = "started" /\ continuation'[p].result = <<>>
        /\ continuation' \in [Poll -> ContinuationSet]
        /\ \A q \in Poll : q # p => continuation'[q] = continuation[q]
    BY <1>1, <1>3, <2>1 DEF Suspend, PartsOK, ContinuationsOK, NewContinuation
  <2>3. /\ RequestsOK' /\ poll'[p].at = "handled"
        /\ \A q \in Poll : q # p => poll'[q] = poll[q]
    BY <1>1, <1>3, ToFacts DEF Suspend, PartsOK, PollStage
  <2>4. QED
    BY <1>1, <2>2, <2>3 DEF InStep, HasListener
<1>4. ASSUME Unhandle(p) PROVE Goes
  <2> DEFINE resumed == continuation[p].state = "redispatching"
  <2>1. /\ continuation' \in [Poll -> ContinuationSet]
        /\ continuation'[p].state = IF resumed THEN "redispatched" ELSE "waiting"
        /\ continuation'[p].result = continuation[p].result
        /\ \A q \in Poll : q # p => continuation'[q] = continuation[q]
    BY <1>1, <1>4
    DEF Unhandle, PartsOK, ContinuationsOK, ContinuationSet, ContinuationState
  <2>2. /\ RequestsOK' /\ poll'[p].at = IF resumed THEN "detach" ELSE "waiting"
        /\ \A q \in Poll : q # p => poll'[q] = poll[q]
    BY <1>1, <1>4, ToFacts DEF Unhandle, PartsOK, PollStage
  <2>3. InStep(p)'
    BY <1>1, <1>4, <2>1, <2>2 DEF InStep, Unhandle
  <2>4. HasListener(p)'
    BY <1>1, <2>2 DEF HasListener
  <2>5. QED
    BY <2>1, <2>2, <2>3, <2>4
<1>5. ASSUME Expire(p) PROVE Goes
  <2>1. \/ continuation' = [continuation EXCEPT ![p].state = "redispatch"]
        \/ continuation' = [continuation EXCEPT ![p].expired = TRUE]
    BY <1>1, <1>5 DEF Expire, PartsOK, ContinuationsOK
  <2>2. /\ continuation' \in [Poll -> ContinuationSet]
        /\ continuation'[p].state \in {"waiting", "redispatch"}
        /\ continuation'[p].result = continuation[p].result
        /\ \A q \in Poll : q # p => continuation'[q] = continuation[q]
    <3>1. CASE continuation' = [continuation EXCEPT ![p].state = "redispatch"]
      BY <1>1, <3>1 DEF PartsOK, ContinuationsOK, ContinuationSet, ContinuationState
    <3>2. CASE continuation' = [continuation EXCEPT ![p].expired = TRUE]
      BY ZenonT(40), <1>1, <1>5, <3>2 DEF Expire, PartsOK, ContinuationsOK, ContinuationSet
    <3>3. QED
      BY <2>1, <3>1, <3>2
  <2>3. QED
    BY <1>1, <1>5, <2>2 DEF Expire, InStep, HasListener, PartsOK, RequestsOK
<1>6. ASSUME Redispatch(p) PROVE Goes
  <2>1. /\ continuation' \in [Poll -> ContinuationSet]
        /\ continuation'[p].state = "redispatched"
        /\ \A q \in Poll : q # p => continuation'[q] = continuation[q]
    BY <1>1, <1>6
    DEF Redispatch, PartsOK, ContinuationsOK, ContinuationSet, ContinuationState
  <2>2. /\ RequestsOK' /\ poll'[p].at = "detach"
        /\ \A q \in Poll : q # p => poll'[q] = poll[q]
    BY <1>1, <1>6, ToFacts DEF Redispatch, PartsOK, PollStage
  <2>3. QED
    BY <1>1, <2>1, <2>2 DEF InStep, HasListener
<1>7. Goes
  BY <1>3, <1>4, <1>5, <1>6
<1>8. \A q \in Poll : InStep(q)'
  BY <1>7, PollInvParts DEF InStep
<1>9. ObjectsOK' /\ ContinuationsOK'
  BY <1>1, <1>7 DEF PartsOK, ObjectsOK, ContinuationsOK
<1>10. QED
  BY <1>1, <1>7, <1>8, <1>9, ServePreserves

LEMMA ConcludeInv ==
  ASSUME PollInv, NEW p \in Poll, Conclude(p), UNCHANGED pageVars
  PROVE  PollInv'
<1>1. /\ poll[p].at = "conclude" /\ PartsOK /\ poll[p].listener \in Listener
      /\ continuation' = [continuation EXCEPT ![p] = NewContinuation] /\ Answered(p)
      /\ UNCHANGED <<recent, listeners, talk, current>>
  BY PollInvParts DEF Conclude, HasListener
<1>2. ObjectsOK'
  BY <1>1, EmptyQueue, SetQueue DEF Conclude, PollAll, PartsOK, ObjectsOK
<1>3. /\ ContinuationsOK' /\ continuation'[p].state = "dispatched"
      /\ continuation'[p].result = <<>>
      /\ \A q \in Poll : q # p => continuation'[q] = continuation[q]
  BY <1>1, EmptyQueue
  DEF NewContinuation, PartsOK, ContinuationsOK, ContinuationSet, ContinuationState
<1>4. /\ RequestsOK' /\ poll'[p].at = "idle"
      /\ \A q \in Poll : q # p => poll'[q] = poll[q]
  BY <1>1, AnsweredFacts DEF PartsOK
<1>5. \A q \in Poll : InStep(q)'
  BY <1>3, <1>4, PollInvParts DEF InStep
<1>6. QED
  BY <1>1, <1>2, <1>3, <1>4, <1>5, ServePreserves DEF HasListener

\* A listener in nobody's hands is registered as the session's.
LEMMA CreateFacts ==
  ASSUME PollInv, NEW l \in Listener, NEW p \in Poll, NEW c \in Poll \cup {NoPoll},
         Create(l, p, c)
  PROVE  /\ ObjectsOK' /\ TalkOK' /\ listeners' = listeners \cup {l} /\ current' = l
         /\ l \notin listeners /\ recent' = recent
         /\ object'[l].queue = <<>>
         /\ \A x \in Listener : x # l => object'[x] = object[x]
         /\ \A q \in Poll : poll[q].listener # l
<1>1. PartsOK
  BY PollInvParts
<1>2. PICK t \in {"EAGER", "LAZY"} :
        CreateByType(poll[p].type) = [pollType |-> t, queue |-> <<>>, continuation |-> NoPoll]
  <2>1. CASE poll[p].type = "EAGER"
    BY <2>1 DEF CreateByType
  <2>2. CASE poll[p].type # "EAGER"
    BY <2>2 DEF CreateByType
  <2>3. QED
    BY <2>1, <2>2
<1>3. object' = [object EXCEPT ![l] = [pollType |-> t, queue |-> <<>>, continuation |-> c]]
  <2>1. object' = [object EXCEPT ![l] = [CreateByType(poll[p].type) EXCEPT !.continuation = c]]
    BY DEF Create
  <2>2. [CreateByType(poll[p].type) EXCEPT !.continuation = c]
          = [pollType |-> t, queue |-> <<>>, continuation |-> c]
    BY <1>2
  <2>3. QED
    BY <2>1, <2>2
<1>4. ObjectsOK' /\ object'[l].queue = <<>>
  BY <1>1, <1>3, EmptyQueue DEF PartsOK, ObjectsOK, ObjectSet
<1>5. TalkOK'
  BY <1>1 DEF Create, PartsOK, TalkOK, TalkSet
<1>6. QED
  BY <1>1, <1>3, <1>4, <1>5 DEF Create, Unused, PartsOK, ObjectsOK

LEMMA NewListenerInv ==
  ASSUME PollInv, NEW p \in Poll, UNCHANGED pageVars,
         FirstTimeQueryAll(p) \/ SwitchListener(p)
  PROVE  PollInv'
<1>1. PICK l \in Listener, c \in Poll \cup {NoPoll} : Create(l, p, c)
  BY DEF FirstTimeQueryAll, SwitchListener
<1>2. /\ ObjectsOK' /\ TalkOK' /\ listeners' = listeners \cup {l} /\ current' = l
      /\ \A q \in Poll : poll[q].listener # l
      /\ recent' = recent /\ UNCHANGED continuation /\ PartsOK
  BY <1>1, CreateFacts, PollInvParts DEF FirstTimeQueryAll, SwitchListener
<1>3. /\ RequestsOK' /\ poll'[p].at \notin {"handled", "waiting"} /\ HasListener(p)'
      /\ \A q \in Poll : q # p => poll'[q] = poll[q]
  <2>1. CASE FirstTimeQueryAll(p)
    <3>1. PICK x \in Listener :
            poll' = [poll EXCEPT ![p].at = "fill", ![p].listener = x, ![p].toPush = recent]
      BY <2>1 DEF FirstTimeQueryAll
    <3>2. /\ RequestsOK' /\ poll'[p].at = "fill" /\ poll'[p].listener = x
          /\ \A q \in Poll : q # p => poll'[q] = poll[q]
      BY ZenonT(40), <1>2, <3>1 DEF PartsOK, RequestsOK, RequestSet, PollStage
    <3>3. QED
      BY <1>2, <3>2 DEF HasListener
  <2>2. CASE SwitchListener(p)
    <3>1. /\ RequestsOK' /\ poll'[p].at = "flushOld"
          /\ poll'[p].listener = poll[p].listener
          /\ \A q \in Poll : q # p => poll'[q] = poll[q]
      BY <1>2, <2>2, ToFacts DEF SwitchListener, PartsOK, PollStage
    <3>2. poll[p].listener \in Listener
      BY <2>2, PollInvParts DEF SwitchListener, HasListener
    <3>3. QED
      BY <1>2, <3>1, <3>2 DEF HasListener
  <2>3. QED
    BY <2>1, <2>2
<1>4. poll[p].at \notin {"handled", "waiting"}
  BY DEF FirstTimeQueryAll, SwitchListener
<1>5. \A q \in Poll : InStep(q)'
  BY <1>2, <1>3, <1>4, StaysInStep
<1>6. \A q \in Poll : HasListener(q)'
  <2>1. ASSUME NEW q \in Poll, q # p PROVE HasListener(q)'
    BY <1>2, <1>3, <2>1, PollInvParts DEF HasListener
  <2>2. QED
    BY <1>3, <2>1
<1>7. PartsOK' /\ CurrentIsRegistered'
  BY <1>2, <1>3 DEF PartsOK, ContinuationsOK, PageOK, pageVars, CurrentIsRegistered
<1>8. QED
  BY <1>5, <1>6, <1>7, PollInvParts

LEMMA UnregisterInv ==
  ASSUME PollInv, NEW p \in Poll, UnregisterOld(p), UNCHANGED pageVars
  PROVE  PollInv'
<1>1. /\ poll[p].at = "unregister" /\ PartsOK /\ poll[p].listener # current
      /\ listeners' = listeners \ {poll[p].listener}
      /\ UNCHANGED <<recent, object, continuation, talk, current>>
  BY PollInvParts DEF UnregisterOld, HasListener
<1>2. /\ RequestsOK' /\ poll'[p].at = "idle"
      /\ \A q \in Poll : q # p => poll'[q] = poll[q]
  BY <1>1, AnsweredFacts DEF PartsOK, UnregisterOld
<1>3. \A q \in Poll : InStep(q)'
  BY <1>1, <1>2, StaysInStep
<1>4. \A q \in Poll : HasListener(q)'
  BY <1>1, <1>2, PollInvParts DEF HasListener
<1>5. PartsOK' /\ CurrentIsRegistered'
  BY <1>1, <1>2, PollInvParts
  DEF PartsOK, ObjectsOK, ContinuationsOK, TalkOK, PageOK, pageVars, CurrentIsRegistered
<1>6. QED
  BY <1>3, <1>4, <1>5, PollInvParts

LEMMA ServeInv ==
  ASSUME PollInv, NEW p \in Poll, Serve(p)
  PROVE  PollInv'
<1>1. ServeStep(p) /\ UNCHANGED pageVars
  BY DEF Serve
<1>2. HasListener(p)
  BY PollInvParts
<1>3. CASE Refresh(p)
  <2>1. poll[p].listener \in Listener
    BY <1>2, <1>3 DEF HasListener, Refresh
  <2>2. QED
    BY <1>1, <1>3, <2>1, DetachInv DEF Refresh, DetachThen
<1>4. CASE FlushOld(p)
  <2>1. poll[p].listener \in Listener
    BY <1>2, <1>4 DEF HasListener, FlushOld
  <2>2. QED
    BY <1>1, <1>4, <2>1, DetachInv DEF FlushOld, DetachThen
<1>5. CASE DetachSelf(p)
  <2>1. current \in Listener
    BY <1>2, <1>5 DEF HasListener, DetachSelf
  <2>2. QED
    BY <1>1, <1>5, <2>1, DetachInv DEF DetachSelf, DetachThen
<1>6. CASE RejectOverlap(p)
  <2>1. poll[p].listener \in Listener
    BY <1>2, <1>6 DEF HasListener, RejectOverlap
  <2>2. QED
    BY <1>1, <1>6, <2>1, DetachInv DEF RejectOverlap
<1>7. QED
  BY <1>1, <1>3, <1>4, <1>5, <1>6, ArriveInv, PushLatestInv, DrainInv, AttachInv,
     ContinuationInv, ConcludeInv, NewListenerInv, UnregisterInv
  DEF ServeStep

\* The threads that store and push messages.
LEMMA TalkerPreserves ==
  ASSUME PollInv, UNCHANGED <<listeners, current, poll, pageVars>>,
         recent' \in Seq(Message), TalkOK', ObjectsOK', ContinuationsOK',
         UNCHANGED continuation \/ \E q \in Poll : Flushed(q)
  PROVE  PollInv'
<1>1. PartsOK' /\ CurrentIsRegistered'
  BY PollInvParts DEF PartsOK, RequestsOK, PageOK, pageVars, CurrentIsRegistered
<1>2. \A q \in Poll : InStep(q)'
  BY StaysInStep
<1>3. \A q \in Poll : HasListener(q)'
  BY PollInvParts DEF HasListener
<1>4. QED
  BY <1>1, <1>2, <1>3, PollInvParts

LEMMA SaveInv ==
  ASSUME PollInv, NEW m \in Message, Talk(m)
  PROVE  PollInv'
<1>1. /\ Save(m) /\ PartsOK
      /\ UNCHANGED <<listeners, object, continuation, current, poll, pageVars>>
  BY PollInvParts DEF Talk, Save
<1>2. recent' \in Seq(Message)
  BY <1>1 DEF Save, PartsOK
<1>3. TalkOK'
  BY <1>1 DEF Save, PartsOK, TalkOK, TalkSet, TalkStage
<1>4. ObjectsOK' /\ ContinuationsOK'
  BY <1>1 DEF PartsOK, ObjectsOK, ContinuationsOK
<1>5. QED
  BY <1>1, <1>2, <1>3, <1>4, TalkerPreserves

LEMMA PushInv ==
  ASSUME PollInv, NEW m \in Message, Push(m)
  PROVE  PollInv'
<1>1. /\ PushStep(m) /\ PartsOK /\ recent' \in Seq(Message)
      /\ UNCHANGED <<recent, listeners, current, poll, pageVars>>
  BY PollInvParts
  DEF Push, PushStep, PushMessage, Add, FlushAdded, Pushed, PartsOK
<1>2. PushFailed \in TalkSet /\ PushFailed.at = "failed"
  BY DEF PushFailed, TalkSet, TalkStage
<1> DEFINE Goes == /\ TalkOK' /\ ObjectsOK' /\ ContinuationsOK'
                   /\ UNCHANGED continuation \/ \E q \in Poll : Flushed(q)
<1>3. ASSUME PushMessage(m) \/ Pushed(m) PROVE Goes
  <2>1. UNCHANGED <<object, continuation>>
    BY <1>3 DEF PushMessage, Pushed
  <2>2. TalkOK'
    <3>1. CASE PushMessage(m)
      BY ZenonT(40), <1>1, <3>1 DEF PushMessage, PartsOK, TalkOK, TalkSet, TalkStage
    <3>2. CASE Pushed(m)
      BY ZenonT(40), <1>1, <3>2 DEF Pushed, PartsOK, TalkOK, TalkSet, TalkStage
    <3>3. QED
      BY <1>3, <3>1, <3>2
  <2>3. QED
    BY <1>1, <2>1, <2>2 DEF PartsOK, ObjectsOK, ContinuationsOK
<1>4. ASSUME NEW l \in Listener, Add(m, l) PROVE Goes
  <2> DEFINE queue == Append(MakeRoom(object[l].queue), m)
  <2>1. queue \in Seq(Message) /\ Len(queue) <= Capacity
    BY <1>1, AppendToQueue DEF PartsOK, ObjectsOK, ObjectSet
  <2>2. CASE /\ object' = [object EXCEPT ![l].queue = queue]
             /\ talk' = [talk EXCEPT ![m].at = "added", ![m].to = l,
                                     ![m].visited = @ \cup {l}]
    <3>1. ObjectsOK'
      BY <1>1, <2>1, <2>2, SetQueue DEF PartsOK
    <3>2. TalkOK'
      <4>1. talk \in [Message -> TalkSet] /\ TalkOK
        BY <1>1 DEF PartsOK, TalkOK
      <4> DEFINE said == [talk[m] EXCEPT !.at = "added", !.to = l,
                                        !.visited = @ \cup {l}]
      <4>2. talk' = [talk EXCEPT ![m] = said]
        BY <2>2, <4>1 DEF TalkSet
      <4>3. said \in TalkSet /\ said.to \in Listener
        BY <4>1 DEF TalkSet, TalkStage
      <4> HIDE DEF said
      <4>4. QED
        BY <4>1, <4>2, <4>3 DEF TalkOK
    <3>3. QED
      BY <1>1, <1>4, <3>1, <3>2 DEF Add, PartsOK, ContinuationsOK
  <2>3. CASE talk' = [talk EXCEPT ![m] = PushFailed] /\ UNCHANGED object
    BY <1>1, <1>2, <1>4, <2>3
    DEF Add, PartsOK, TalkOK, ObjectsOK, ContinuationsOK
  <2>4. QED
    BY <1>4, <2>2, <2>3 DEF Add
<1>5. ASSUME FlushAdded(m) PROVE Goes
  <2> DEFINE l == talk[m].to
  <2>1. l \in Listener /\ object[l].queue \in Seq(Message)
    BY <1>1, <1>5 DEF FlushAdded, PartsOK, TalkOK, ObjectsOK, ObjectSet
  <2>2. TalkOK'
    <3>1. \/ talk' = [talk EXCEPT ![m] = PushFailed]
          \/ talk' = [talk EXCEPT ![m] = [@ EXCEPT !.at = "visit", !.to = NoListener]]
      BY <1>5 DEF FlushAdded
    <3>2. CASE talk' = [talk EXCEPT ![m] = PushFailed]
      BY <1>1, <1>2, <3>2 DEF PartsOK, TalkOK
    <3>3. CASE talk' = [talk EXCEPT ![m] = [@ EXCEPT !.at = "visit", !.to = NoListener]]
      BY ZenonT(40), <1>1, <3>3 DEF PartsOK, TalkOK, TalkSet, TalkStage
    <3>4. QED
      BY <3>1, <3>2, <3>3
  <2>3. CASE InPollingState(l) /\ DoFlush(l, object[l].queue)
    BY <2>1, <2>2, <2>3, DoFlushFacts
  <2>4. CASE UNCHANGED <<object, continuation>>
    BY <1>1, <2>2, <2>4 DEF PartsOK, ObjectsOK, ContinuationsOK
  <2>5. QED
    BY <1>5, <2>3, <2>4 DEF FlushAdded
<1>6. QED
  BY <1>1, <1>3, <1>4, <1>5, TalkerPreserves DEF PushStep

\* The page, and the end of the session: requests come, and go on for nobody.
LEMMA SendFacts ==
  ASSUME RequestsOK, NEW p \in Poll, NEW type \in PollType, NEW loop \in BOOLEAN,
         Send(p, type, loop)
  PROVE  /\ RequestsOK' /\ poll[p].at = "idle" /\ poll'[p].at = "sent"
         /\ \A q \in Poll : q # p => poll'[q] = poll[q]
<1> DEFINE sent == [NoRequest EXCEPT !.at = "sent", !.type = type, !.loop = loop]
<1>1. NoRequest \in RequestSet
  BY DEF NoRequest, RequestSet, PollStage, PollType
<1>2. sent \in RequestSet /\ sent.at = "sent"
  BY <1>1 DEF RequestSet, PollStage
<1> HIDE DEF sent
<1>3. poll[p].at = "idle" /\ poll' = [poll EXCEPT ![p] = sent]
  BY DEF Send, sent
<1>4. QED
  BY <1>2, <1>3 DEF RequestsOK

LEMMA PageInv ==
  ASSUME PollInv, NEW p \in Poll,
         LoopPoll(p) \/ RefreshPoll(p) \/ PollSwitch(p) \/ Break(p)
  PROVE  PollInv'
<1>1. PartsOK /\ UNCHANGED serverVars
  BY PollInvParts DEF LoopPoll, RefreshPoll, PollSwitch, Break
<1>2. /\ RequestsOK' /\ PageOK'
      /\ \A q \in Poll : \/ /\ poll'[q].at = poll[q].at
                            /\ poll'[q].listener = poll[q].listener
                         \/ poll[q].at = "idle" /\ poll'[q].at = "sent"
  <2>1. CASE LoopPoll(p)
    <3>1. PICK type \in PollType : Send(p, type, TRUE)
      BY <1>1, <2>1 DEF LoopPoll, PartsOK, PageOK, PollType
    <3>2. QED
      BY <1>1, <2>1, <3>1, SendFacts DEF LoopPoll, PartsOK, PageOK
  <2>2. CASE RefreshPoll(p)
    <3>1. "REFRESH" \in PollType /\ FALSE \in BOOLEAN
      BY DEF PollType
    <3>2. RequestsOK' /\ poll[p].at = "idle" /\ poll'[p].at = "sent"
          /\ \A q \in Poll : q # p => poll'[q] = poll[q]
      BY <1>1, <2>2, <3>1, SendFacts DEF RefreshPoll, PartsOK
    <3>3. PageOK'
      BY <1>1, <2>2, BrowserAssumption DEF RefreshPoll, PartsOK, PageOK
    <3>4. QED
      BY <3>2, <3>3
  <2>3. CASE PollSwitch(p)
    <3>1. "EAGER" \in PollType /\ FALSE \in BOOLEAN
      BY DEF PollType
    <3>2. PageOK'
      <4>1. /\ currentMode' \in {"LAZY", "EAGER"} /\ switches' = switches + 1
            /\ switches < MaxSwitches /\ UNCHANGED <<next, refreshes, breaks>>
        BY <2>3 DEF PollSwitch
      <4>2. QED
        BY <1>1, <4>1, BrowserAssumption DEF PartsOK, PageOK
    <3>3. CASE Send(p, "EAGER", FALSE)
      <4>1. RequestsOK' /\ poll[p].at = "idle" /\ poll'[p].at = "sent"
            /\ \A q \in Poll : q # p => poll'[q] = poll[q]
        BY <1>1, <3>1, <3>3, SendFacts DEF PartsOK
      <4>2. QED
        BY <3>2, <4>1
    <3>4. CASE UNCHANGED poll
      BY <1>1, <3>2, <3>4 DEF PartsOK, RequestsOK
    <3>5. QED
      BY <2>3, <3>3, <3>4 DEF PollSwitch
  <2>4. CASE Break(p)
    <3>1. RequestsOK' /\ \A q \in Poll : /\ poll'[q].at = poll[q].at
                                         /\ poll'[q].listener = poll[q].listener
      BY <1>1, <2>4 DEF Break, PartsOK, RequestsOK, RequestSet
    <3>2. PageOK'
      BY <1>1, <2>4, BrowserAssumption DEF Break, PartsOK, PageOK
    <3>3. QED
      BY <3>1, <3>2
  <2>5. QED
    BY <2>1, <2>2, <2>3, <2>4
<1>3. \A q \in Poll : HasListener(q)' /\ InStep(q)'
  BY <1>1, <1>2, PollInvParts DEF HasListener, InStep, serverVars
<1>4. PartsOK' /\ CurrentIsRegistered'
  BY <1>1, <1>2, PollInvParts
  DEF PartsOK, ObjectsOK, ContinuationsOK, TalkOK, serverVars, CurrentIsRegistered
<1>5. QED
  BY <1>3, <1>4, PollInvParts

LEMMA LoseSessionInv ==
  ASSUME PollInv, LoseSession
  PROVE  PollInv'
<1>1. /\ PartsOK /\ \A q \in Poll : poll[q].at = "idle"
      /\ listeners' = listeners \ {current} /\ current' = NoListener
      /\ UNCHANGED <<recent, object, continuation, talk, poll>>
  BY PollInvParts DEF LoseSession, SessionDestroyed
<1>2. PageOK'
  BY <1>1, BrowserAssumption DEF LoseSession, PartsOK, PageOK
<1>3. \A q \in Poll : HasListener(q)' /\ InStep(q)'
  BY <1>1, PollInvParts DEF HasListener, InStep
<1>4. PartsOK' /\ CurrentIsRegistered'
  BY <1>1, <1>2
  DEF PartsOK, ObjectsOK, ContinuationsOK, RequestsOK, TalkOK, CurrentIsRegistered
<1>5. QED
  BY <1>3, <1>4, PollInvParts

LEMMA PollInvInit == Init => PollInv
<1> SUFFICES ASSUME Init PROVE PollInv
  OBVIOUS
<1>1. /\ NoRequest \in RequestSet /\ NoRequest.at = "idle"
      /\ NewContinuation \in ContinuationSet /\ NewContinuation.state = "dispatched"
      /\ CreateByType("LAZY") \in ObjectSet /\ Len(CreateByType("LAZY").queue) <= Capacity
  BY EmptyQueue
  DEF NoRequest, RequestSet, PollStage, PollType, NewContinuation, ContinuationSet,
      ContinuationState, CreateByType, ObjectSet
<1>2. PartsOK
  BY <1>1, BrowserAssumption, ListenerAssumption
  DEF Init, PollInit, ListenerInit, PartsOK, ObjectsOK, ContinuationsOK, RequestsOK,
      TalkOK, TalkSet, TalkStage, PageOK
<1>3. \A p \in Poll : HasListener(p) /\ InStep(p)
  BY <1>1 DEF Init, PollInit, ListenerInit, HasListener, InStep
<1>4. CurrentIsRegistered
  BY DEF Init, PollInit, CurrentIsRegistered
<1>5. QED
  BY <1>2, <1>3, <1>4, PollInvParts

LEMMA PollInvStep ==
  ASSUME PollInv, [Next]_vars
  PROVE  PollInv'
<1>1. CASE UNCHANGED vars
  BY <1>1, PollInvParts
  DEF vars, serverVars, pageVars, PartsOK, ObjectsOK, ContinuationsOK, RequestsOK, TalkOK,
      PageOK, HasListener, InStep, CurrentIsRegistered
<1>2. QED
  BY <1>1, PageInv, ServeInv, SaveInv, PushInv, LoseSessionInv DEF Next

LEMMA PollInvariant == Spec => []PollInv
BY PollInvInit, PollInvStep, PTL DEF Spec

\* The polls and the listeners keep their types: no queue outgrows its capacity,
\* and no stage of a request finds its session without listener.
THEOREM PollingTypeCorrect == Spec => []TypeOK
<1>1. PollInv => TypeOK
  BY DEF PollInv
<1>2. QED
  BY <1>1, PollInvariant, PTL

\* The session's listener is registered, however polls overlap: a switch
\* registers the new listener before it gives up the old one, and gives up the
\* one it found, not the one the session has by then.
THEOREM CurrentAlwaysRegistered == Spec => []CurrentIsRegistered
<1>1. PollInv => CurrentIsRegistered
  BY DEF PollInv
<1>2. QED
  BY <1>1, PollInvariant, PTL

-----------------------------------------------------------------------------
(* No message is lost on the server but in the ways that Forgotten names.    *)

Answering(m) == \E p \in Poll : m \in Carried(p) /\ poll'[p].at = "idle"

LEMMA HeldCases ==
  /\ \A m : m \in Held <=> \/ \E l \in listeners : m \in Range(object[l].queue)
                           \/ \E p \in Holding : m \in Range(continuation[p].result)
  /\ \A m : m \in Held' <=>
       \/ \E l \in listeners' : m \in Range(object'[l].queue)
       \/ \E p \in Holding' : m \in Range(continuation'[p].result)
BY DEF Held

\* A step that leaves the queues and the results where they are.
LEMMA UntouchedHeld ==
  ASSUME \A l \in listeners : l \in listeners' /\ object'[l].queue = object[l].queue,
         \A p \in Holding : /\ p \in Holding'
                            /\ continuation'[p].result = continuation[p].result
  PROVE  Held \subseteq Held'
BY HeldCases

\* A step that puts a queue into l, or hands it to the poll that waits there: a
\* result that is overwritten was given to a poll that had been resumed.
LEMMA FlushExplains ==
  ASSUME PollInv, NEW l \in Listener, NEW queue, NEW m \in Held, UNCHANGED listeners,
         \A x \in Listener : x # l => object'[x] = object[x],
         \A p \in Holding :
           p \in Holding' \/ (m \in Range(continuation[p].result) => Forgotten(m)),
         \/ UNCHANGED continuation /\ object'[l].queue = queue
         \/ \E q \in Poll : /\ Flushed(q) /\ continuation'[q].result = queue
                            /\ poll'[q].at = poll[q].at,
         l \in listeners /\ m \in Range(object[l].queue)
           => m \in Range(queue) \/ Forgotten(m)
  PROVE  m \in Held' \/ Forgotten(m)
<1>1. ASSUME NEW q \in Poll, Flushed(q), continuation'[q].result = queue,
             poll'[q].at = poll[q].at
      PROVE  m \in Held' \/ Forgotten(m)
  <2>1. q \in Holding' /\ \A x \in Poll : x # q => continuation'[x] = continuation[x]
    BY <1>1 DEF Flushed, Holding
  <2>2. m \in Range(continuation[q].result) => Forgotten(m)
    <3>1. continuation[q].state \in {"started", "waiting"}
            => Range(continuation[q].result) = {}
      BY EmptyQueue, PollInvParts DEF InStep
    <3>2. continuation[q].state \in {"started", "redispatching", "waiting"}
      BY <1>1 DEF Flushed, IsSuspended
    <3>3. QED
      BY <3>1, <3>2 DEF Forgotten
  <2>3. CASE l \in listeners /\ m \in Range(object[l].queue)
    BY <1>1, <2>1, <2>3, HeldCases
  <2>4. ASSUME NEW x \in listeners, x # l, m \in Range(object[x].queue)
        PROVE  m \in Held'
    <3>1. x \in Listener /\ x \in listeners'
      BY PollInvParts DEF PartsOK
    <3>2. QED
      BY <2>4, <3>1, HeldCases
  <2>5. ASSUME NEW p \in Holding, m \in Range(continuation[p].result)
        PROVE  m \in Held' \/ Forgotten(m)
    <3>1. CASE p = q
      BY <2>2, <2>5, <3>1
    <3>2. CASE p # q
      BY <2>1, <2>5, <3>2, HeldCases DEF Holding
    <3>3. QED
      BY <3>1, <3>2
  <2>6. QED
    BY <2>3, <2>4, <2>5, HeldCases
<1>2. ASSUME UNCHANGED continuation, object'[l].queue = queue
      PROVE  m \in Held' \/ Forgotten(m)
  <2>1. ASSUME NEW x \in listeners, m \in Range(object[x].queue)
        PROVE  m \in Held' \/ Forgotten(m)
    <3>1. x \in Listener /\ x \in listeners'
      BY PollInvParts DEF PartsOK
    <3>2. CASE x = l
      BY <1>2, <2>1, <3>1, <3>2, HeldCases
    <3>3. CASE x # l
      BY <2>1, <3>1, <3>3, HeldCases
    <3>4. QED
      BY <3>2, <3>3
  <2>2. ASSUME NEW p \in Holding, m \in Range(continuation[p].result)
        PROVE  m \in Held' \/ Forgotten(m)
    BY <1>2, <2>2, HeldCases
  <2>3. QED
    BY <2>1, <2>2, HeldCases
<1>3. QED
  BY <1>1, <1>2

LEMMA DetachExplains ==
  ASSUME PollInv, NEW l \in Listener, Detach(l), UNCHANGED listeners, NEW m \in Held,
         NEW p \in Poll, poll[p].at \notin {"handled", "waiting"},
         \A q \in Poll : q # p => poll'[q] = poll[q],
         p \in Holding =>
           poll'[p].at = "conclude" \/ (m \in Range(continuation[p].result) => Forgotten(m))
  PROVE  m \in Held' \/ Forgotten(m)
<1>1. \A q \in Holding :
        q \in Holding' \/ (m \in Range(continuation[q].result) => Forgotten(m))
  BY DEF Holding
<1>2. \A x \in Listener : x # l => object'[x] = object[x]
  BY DetachFacts
<1>3. \/ UNCHANGED continuation /\ object'[l].queue = object[l].queue
      \/ \E q \in Poll : /\ Flushed(q) /\ continuation'[q].result = object[l].queue
                         /\ poll'[q].at = poll[q].at
  BY DetachFacts DEF Flushed
<1>4. QED
  BY <1>1, <1>2, <1>3, FlushExplains

Explained(m) == m \in Held' \/ Forgotten(m) \/ Answering(m)

LEMMA DetachesExplained ==
  ASSUME PollInv, NEW p \in Poll, NEW m \in Held,
         Refresh(p) \/ FlushOld(p) \/ DetachSelf(p) \/ RejectOverlap(p)
  PROVE  Explained(m)
<1>1. PartsOK /\ HasListener(p) /\ UNCHANGED listeners
  BY PollInvParts DEF Refresh, FlushOld, DetachSelf, RejectOverlap, DetachThen
<1>2. PICK l \in Listener :
        /\ Detach(l)
        /\ poll[p].at = "detach" => l = current
        /\ \/ Answered(p) /\ (poll[p].at = "detach" => DetachThrows(l))
           \/ \E s \in PollStage :
                /\ poll' = [poll EXCEPT ![p].at = s, ![p].listener = l]
                /\ poll[p].at = "detach" => s = "conclude"
  BY <1>1
  DEF Refresh, FlushOld, DetachSelf, RejectOverlap, DetachThen, HasListener, PollStage
<1>3. poll[p].at \in {"refresh", "flushOld", "detach", "reject"}
  BY DEF Refresh, FlushOld, DetachSelf, RejectOverlap
<1>4. /\ \A q \in Poll : q # p => poll'[q] = poll[q]
      /\ poll[p].at = "detach" => poll'[p].at = "conclude" \/ DetachThrows(current)
  <2>1. CASE Answered(p) /\ (poll[p].at = "detach" => DetachThrows(l))
    BY <1>1, <1>2, <2>1, AnsweredFacts DEF PartsOK
  <2>2. CASE \E s \in PollStage :
               /\ poll' = [poll EXCEPT ![p].at = s, ![p].listener = l]
               /\ poll[p].at = "detach" => s = "conclude"
    BY <1>1, <2>2 DEF PartsOK, RequestsOK, RequestSet
  <2>3. QED
    BY <1>2, <2>1, <2>2
<1>5. p \in Holding =>
        poll'[p].at = "conclude" \/ (m \in Range(continuation[p].result) => Forgotten(m))
  BY <1>3, <1>4 DEF Holding, Forgotten
<1>6. QED
  BY <1>1, <1>2, <1>3, <1>4, <1>5, DetachExplains DEF Explained

\* What an answer takes along: the queue that is drained, or the result.
LEMMA AnswersExplained ==
  ASSUME PollInv, NEW p \in Poll, NEW m \in Held, Drain(p) \/ Conclude(p)
  PROVE  Explained(m)
<1> DEFINE l == poll[p].listener
<1>1. /\ PartsOK /\ l \in Listener /\ UNCHANGED listeners
      /\ poll[p].at \in {"fill", "drain", "conclude"} /\ Answered(p)
  BY PollInvParts DEF Drain, Conclude, HasListener
<1>2. poll'[p].at = "idle" /\ \A q \in Poll : q # p => poll'[q] = poll[q]
  BY <1>1, AnsweredFacts DEF PartsOK
<1>3. \A q \in Poll : q # p => continuation'[q] = continuation[q]
  BY <1>1 DEF Drain, Conclude, PartsOK, ContinuationsOK
<1>4. \A x \in Listener : x # l => object'[x] = object[x]
  BY <1>1 DEF Drain, Conclude, PollAll, PartsOK, ObjectsOK
<1>5. ASSUME m \in Range(object[l].queue), object' # object
      PROVE  Answering(m)
  <2>1. m \in Carried(p)
    <3>1. CASE Drain(p)
      BY <1>5, <3>1 DEF Drain, Carried
    <3>2. CASE Conclude(p)
      BY <1>5, <3>2 DEF Conclude, Carried
    <3>3. QED
      BY <3>1, <3>2
  <2>2. QED
    BY <1>2, <2>1 DEF Answering
<1>6. ASSUME p \in Holding, m \in Range(continuation[p].result)
      PROVE  Explained(m)
  <2>1. poll[p].at = "conclude"
    BY <1>1, <1>6 DEF Holding
  <2>2. CASE continuation[p].expired
    BY <1>6, <2>1, <2>2 DEF Forgotten, Explained
  <2>3. CASE ~continuation[p].expired
    <3>1. m \in Carried(p)
      BY <1>6, <2>1, <2>3 DEF Carried
    <3>2. QED
      BY <1>2, <3>1 DEF Answering, Explained
  <2>4. QED
    BY <2>2, <2>3
<1>7. ASSUME NEW q \in Holding, q # p, m \in Range(continuation[q].result)
      PROVE  m \in Held'
  <2>1. q \in Holding' /\ continuation'[q] = continuation[q]
    BY <1>2, <1>3, <1>7 DEF Holding
  <2>2. QED
    BY <1>7, <2>1, HeldCases
<1>8. ASSUME NEW x \in listeners, m \in Range(object[x].queue)
      PROVE  m \in Held' \/ Answering(m)
  <2>1. x \in Listener /\ x \in listeners'
    BY <1>1 DEF PartsOK
  <2>2. CASE object'[x] = object[x]
    BY <1>8, <2>1, <2>2, HeldCases
  <2>3. CASE object'[x] # object[x]
    BY <1>4, <1>5, <1>8, <2>1, <2>3
  <2>4. QED
    BY <2>2, <2>3
<1>9. QED
  BY <1>6, <1>7, <1>8, HeldCases DEF Explained

\* A queue that takes a message, from the thread that talks it or from the poll
\* that pushes the latest: the head of a full queue goes.
LEMMA AddsExplained ==
  ASSUME PollInv, NEW m \in Held,
         (\E n \in Message : Push(n)) \/ (\E p \in Poll : PushLatest(p))
  PROVE  Explained(m)
<1>1. PartsOK /\ UNCHANGED listeners
  BY PollInvParts DEF Push, PushStep, PushMessage, Add, FlushAdded, Pushed, PushLatest
<1>2. ASSUME NEW n \in Message, NEW l \in Listener, Add(n, l), UNCHANGED poll
      PROVE  Explained(m)
  <2> DEFINE queue == Append(MakeRoom(object[l].queue), n)
  <2>1. CASE UNCHANGED <<object, poll>>
    BY <1>1, <1>2, <2>1, UntouchedHeld DEF Add, Explained, Holding
  <2>2. CASE /\ object' = [object EXCEPT ![l].queue = queue] /\ UNCHANGED poll
             /\ talk' = [talk EXCEPT ![n].at = "added", ![n].to = l,
                                     ![n].visited = @ \cup {l}]
    <3>1. /\ queue \in Seq(Message) /\ Len(queue) <= Capacity
          /\ \A x \in Range(object[l].queue) :
               \/ x \in Range(queue)
               \/ Len(object[l].queue) = Capacity /\ x = Head(object[l].queue)
      BY <1>1, AppendToQueue DEF PartsOK, ObjectsOK, ObjectSet
    <3> HIDE DEF queue
    <3>2. talk[n].at = "visit" /\ talk'[n].to = l
      BY <1>1, <1>2, <2>2 DEF Add, PartsOK, TalkOK, TalkSet
    <3>3. l \in listeners /\ m \in Range(object[l].queue)
            => m \in Range(queue) \/ Forgotten(m)
      BY <3>1, <3>2 DEF Forgotten, AddedTo
    <3>4. object'[l].queue = queue /\ \A x \in Listener : x # l => object'[x] = object[x]
      BY <1>1, <2>2, <3>1, SetQueue DEF PartsOK
    <3>5. QED
      BY <1>1, <1>2, <2>2, <3>3, <3>4, FlushExplains DEF Add, Explained, Holding
  <2>3. QED
    BY <1>2, <2>1, <2>2 DEF Add
<1>3. ASSUME NEW n \in Message, FlushAdded(n), UNCHANGED poll
      PROVE  Explained(m)
  <2> DEFINE l == talk[n].to
             queue == object[l].queue
  <2>1. l \in Listener /\ queue \in Seq(Message)
    BY <1>1, <1>3 DEF FlushAdded, PartsOK, TalkOK, ObjectsOK, ObjectSet
  <2>2. CASE InPollingState(l) /\ DoFlush(l, queue)
    <3>1. /\ \A x \in Listener : x # l => object'[x] = object[x]
          /\ \E q \in Poll : Flushed(q) /\ continuation'[q].result = queue
      BY <2>1, <2>2, DoFlushFacts
    <3>2. QED
      BY <1>1, <1>3, <2>1, <3>1, FlushExplains DEF Explained, Holding
  <2>3. CASE UNCHANGED <<object, continuation>>
    BY <1>1, <1>3, <2>3, UntouchedHeld DEF Explained, Holding
  <2>4. QED
    BY <1>3, <2>2, <2>3 DEF FlushAdded
<1>4. ASSUME NEW n \in Message, PushMessage(n) \/ Pushed(n), UNCHANGED poll
      PROVE  Explained(m)
  BY <1>4, UntouchedHeld DEF PushMessage, Pushed, Explained, Holding
<1>5. ASSUME NEW p \in Poll, PushLatest(p)
      PROVE  Explained(m)
  <2> DEFINE l == poll[p].listener
             queue == Append(MakeRoom(object[l].queue), Head(poll[p].toPush))
  <2>1. /\ poll[p].at = "fill" /\ poll[p].toPush # <<>> /\ l \in Listener
        /\ poll[p].toPush \in Seq(Message)
    BY <1>1, <1>5, PollInvParts DEF PushLatest, HasListener, PartsOK, RequestsOK, RequestSet
  <2>2. Head(poll[p].toPush) \in Message
    BY <2>1
  <2>3. /\ queue \in Seq(Message) /\ Len(queue) <= Capacity
        /\ \A x \in Range(object[l].queue) :
             \/ x \in Range(queue)
             \/ Len(object[l].queue) = Capacity /\ x = Head(object[l].queue)
    BY <1>1, <2>1, <2>2, AppendToQueue DEF PartsOK, ObjectsOK, ObjectSet
  <2>4. /\ poll'[p].toPush # poll[p].toPush
        /\ \A q \in Poll : q # p => poll'[q] = poll[q]
    <3>1. Tail(poll[p].toPush) # poll[p].toPush
      <4>1. /\ Len(poll[p].toPush) \in Nat
            /\ Len(Tail(poll[p].toPush)) = Len(poll[p].toPush) - 1
        BY <2>1
      <4>2. Len(Tail(poll[p].toPush)) # Len(poll[p].toPush)
        BY <4>1
      <4>3. QED
        BY <4>2, Zenon
    <3>2. QED
      BY SMTT(20), <1>1, <1>5, <2>1, <3>1, AnsweredFacts DEF PushLatest, PartsOK, RequestsOK, RequestSet
  <2>5. l \in listeners /\ m \in Range(object[l].queue)
          => m \in Range(queue) \/ Forgotten(m)
    BY <2>1, <2>3, <2>4 DEF Forgotten, AddedTo
  <2>6. \A q \in Holding : q \in Holding'
    BY <2>1, <2>4 DEF Holding
  <2>7. CASE InPollingState(l) /\ DoFlush(l, queue)
    <3>1. /\ \A x \in Listener : x # l => object'[x] = object[x]
          /\ \E q \in Poll : Flushed(q) /\ continuation'[q].result = queue
      BY <2>1, <2>3, <2>7, DoFlushFacts
    <3>2. \E q \in Poll : /\ Flushed(q) /\ continuation'[q].result = queue
                          /\ poll'[q].at = poll[q].at
      BY <2>1, <2>4, <3>1 DEF Flushed
    <3>3. QED
      BY <1>1, <2>1, <2>5, <2>6, <3>1, <3>2, FlushExplains DEF Explained
  <2>8. CASE object' = [object EXCEPT ![l].queue = queue] /\ UNCHANGED continuation
    <3>1. object'[l].queue = queue /\ \A x \in Listener : x # l => object'[x] = object[x]
      BY <1>1, <2>1, <2>3, <2>8, SetQueue DEF PartsOK
    <3>2. QED
      BY <1>1, <2>1, <2>5, <2>6, <2>8, <3>1, FlushExplains DEF Explained
  <2>9. QED
    BY <1>5, <2>7, <2>8 DEF PushLatest
<1>6. QED
  BY <1>2, <1>3, <1>4, <1>5 DEF Push, PushStep

\* The steps that move no message: a request goes on, its continuation is not
\* suspended before, or keeps its result.
LEMMA MovesExplained ==
  ASSUME PollInv, NEW p \in Poll, NEW m \in Held,
         \/ Arrive(p) \/ AttachPoll(p) \/ Suspend(p) \/ Unhandle(p) \/ Expire(p)
         \/ Redispatch(p)
  PROVE  Explained(m)
<1>1. PartsOK /\ UNCHANGED listeners
  BY PollInvParts DEF Arrive, AttachPoll, Suspend, Unhandle, Expire, Redispatch
<1>2. \A l \in listeners : l \in listeners' /\ object'[l].queue = object[l].queue
  BY <1>1
  DEF Arrive, AttachPoll, Attach, Suspend, Unhandle, Expire, Redispatch, PartsOK,
      ObjectsOK, ObjectSet
<1>3. \A q \in Poll : q # p => poll'[q] = poll[q] /\ continuation'[q] = continuation[q]
  BY <1>1
  DEF Arrive, Answered, AttachPoll, Suspend, Unhandle, Expire, Redispatch, To, PartsOK,
      RequestsOK, ContinuationsOK
<1>4. p \in Holding => p \in Holding' /\ continuation'[p].result = continuation[p].result
  <2>1. CASE Arrive(p) \/ AttachPoll(p) \/ Suspend(p)
    BY <2>1 DEF Arrive, AttachPoll, Suspend, Holding
  <2>2. CASE Unhandle(p)
    BY <1>1, <2>2, ToFacts
    DEF Unhandle, PartsOK, ContinuationsOK, ContinuationSet, Holding, PollStage
  <2>3. CASE Expire(p)
    BY <1>1, <2>3 DEF Expire, PartsOK, ContinuationsOK, ContinuationSet, Holding
  <2>4. CASE Redispatch(p)
    BY <1>1, <2>4, ToFacts
    DEF Redispatch, PartsOK, ContinuationsOK, ContinuationSet, Holding, PollStage
  <2>5. QED
    BY <2>1, <2>2, <2>3, <2>4
<1>5. QED
  BY <1>2, <1>3, <1>4, UntouchedHeld DEF Explained, Holding

LEMMA ListenersExplained ==
  ASSUME PollInv, NEW p \in Poll, NEW m \in Held,
         FirstTimeQueryAll(p) \/ SwitchListener(p) \/ UnregisterOld(p)
  PROVE  Explained(m)
<1>1. PartsOK /\ UNCHANGED continuation /\ p \notin Holding
  BY PollInvParts DEF FirstTimeQueryAll, SwitchListener, UnregisterOld, Holding
<1>2. \A q \in Poll : q # p => poll'[q] = poll[q]
  BY <1>1
  DEF FirstTimeQueryAll, SwitchListener, UnregisterOld, To, Answered, PartsOK, RequestsOK
<1>3. \A q \in Holding : q \in Holding' /\ continuation'[q].result = continuation[q].result
  BY <1>1, <1>2 DEF Holding
<1>4. CASE FirstTimeQueryAll(p) \/ SwitchListener(p)
  <2>1. PICK l \in Listener, c \in Poll \cup {NoPoll} : Create(l, p, c)
    BY <1>4 DEF FirstTimeQueryAll, SwitchListener
  <2>2. \A x \in listeners : x \in listeners' /\ object'[x].queue = object[x].queue
    BY <1>1, <2>1, CreateFacts DEF PartsOK
  <2>3. QED
    BY <1>3, <2>2, UntouchedHeld DEF Explained
<1>5. CASE UnregisterOld(p)
  <2>1. /\ poll[p].at = "unregister" /\ UNCHANGED object
        /\ listeners' = listeners \ {poll[p].listener}
    BY <1>5 DEF UnregisterOld
  <2>2. CASE m \in Range(object[poll[p].listener].queue)
    BY <2>1, <2>2 DEF Forgotten, Explained
  <2>3. CASE m \notin Range(object[poll[p].listener].queue)
    BY <1>3, <2>1, <2>3, HeldCases DEF Explained
  <2>4. QED
    BY <2>2, <2>3
<1>6. QED
  BY <1>4, <1>5

\* The page and the talkers' storing leave the server's queues alone.
LEMMA PageExplained ==
  ASSUME PollInv, NEW m \in Held,
         \/ \E p \in Poll : LoopPoll(p) \/ RefreshPoll(p) \/ PollSwitch(p) \/ Break(p)
         \/ \E n \in Message : Talk(n)
         \/ UNCHANGED vars
  PROVE  Explained(m)
<1>1. /\ UNCHANGED <<listeners, object, continuation>> /\ RequestsOK
  BY PollInvParts
  DEF LoopPoll, RefreshPoll, PollSwitch, Break, Talk, Save, vars, serverVars, PartsOK
<1>2. \A q \in Poll : poll[q].at = "idle" \/ poll'[q].at = poll[q].at
  BY <1>1
  DEF LoopPoll, RefreshPoll, PollSwitch, Break, Send, Talk, vars, RequestsOK, RequestSet
<1>3. QED
  BY <1>1, <1>2, UntouchedHeld DEF Explained, Holding

LEMMA StepExplained ==
  ASSUME PollInv, [Next]_vars, NEW m \in Held
  PROVE  Explained(m)
<1>1. CASE LoseSession
  BY <1>1 DEF LoseSession, SessionDestroyed, Forgotten, Explained
<1>2. CASE \E p \in Poll : Serve(p)
  BY <1>2, DetachesExplained, AnswersExplained, AddsExplained, MovesExplained,
     ListenersExplained DEF Serve, ServeStep
<1>3. QED
  BY <1>1, <1>2, AddsExplained, PageExplained DEF Next

\* Whatever the server holds for the session leaves it with an answer, or in one
\* of the ways that Forgotten lists; no step of any thread loses a message in
\* another way, for any number of polls, talkers and listeners.
THEOREM LossesAreExplained == Spec => LossExplained
<1>1. PollInv /\ [Next]_vars =>
        [\A m \in Held : m \in Held' \/ Forgotten(m)
           \/ \E p \in Poll : m \in Carried(p) /\ poll'[p].at = "idle"]_vars
  BY StepExplained DEF Explained, Answering
<1>2. QED
  BY <1>1, PollInvariant, PTL DEF Spec, LossExplained

==============================================================================
