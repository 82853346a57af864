--------------------- MODULE UnsavedMessageQueue_proofs ---------------------
(***************************************************************************)
(* Proofs about UnsavedMessageQueue, for every set of messages, threads and *)
(* every bound.                                                            *)
(***************************************************************************)
EXTENDS UnsavedMessageQueue, QueueLemmas, FiniteSetTheorems

---------------------------------------------------------------------------
(* The table: each statement keeps its type and its foreign key.            *)

LEMMA TableType ==
  \A t : t \in Table <=> /\ DOMAIN t \subseteq Message
                         /\ t \in [DOMAIN t -> Message \cup {NoRef, Deleted}]
BY DEF Table

\* INSERT OR IGNORE: the reference of the new row resolves, because a row
\* whose parent is missing is ignored.
LEMMA InsertRowKeeps ==
  ASSUME NEW t \in Table, NEW m \in Message
  PROVE  /\ InsertRow(t, m) \in Table
         /\ ReferencesResolve(t) => ReferencesResolve(InsertRow(t, m))
<1>1. CASE Insertable(t, m)
  <2> DEFINE u == InsertRow(t, m)
  <2>1. u = [x \in DOMAIN t \cup {m} |-> IF x = m THEN RefOf[m] ELSE t[x]]
    BY <1>1 DEF InsertRow
  <2>2. RefOf[m] \in DOMAIN t \cup {NoRef} /\ RefOf[m] \in Message \cup {NoRef}
    BY <1>1, TableAssumption DEF Insertable
  <2>3. u \in Table
    BY <2>1, <2>2, TableType
  <2>4. ReferencesResolve(t) => ReferencesResolve(u)
    BY <2>1, <2>2 DEF ReferencesResolve
  <2> QED BY <2>3, <2>4
<1>2. CASE ~Insertable(t, m)
  BY <1>2 DEF InsertRow
<1> QED BY <1>1, <1>2

LEMMA RedirectKeeps ==
  ASSUME NEW t \in Table, NEW m \in Message
  PROVE  /\ RedirectReplies(t, m) \in Table
         /\ DOMAIN RedirectReplies(t, m) = DOMAIN t
         /\ ReferencesResolve(t) => ReferencesResolve(RedirectReplies(t, m))
BY TableType DEF RedirectReplies, ReferencesResolve, Children

\* The row goes with the rows that refer to it; no row refers to one of those,
\* or the statement would have failed.
LEMMA DeleteRowKeeps ==
  ASSUME NEW t \in Table, NEW m \in Message
  PROVE  /\ DeleteRow(t, m) \in Table
         /\ ReferencesResolve(t) /\ ~DeleteBreaksForeignKey(t, m)
              => ReferencesResolve(DeleteRow(t, m))
<1> DEFINE gone == {m} \cup Children(t, m)
           u == DeleteRow(t, m)
<1>1. u = [x \in DOMAIN t \ gone |-> t[x]]
  BY DEF DeleteRow, Restrict
<1>2. u \in Table
  <2>1. DOMAIN u \subseteq DOMAIN t /\ \A x \in DOMAIN u : u[x] = t[x]
    BY <1>1
  <2>2. u \in [DOMAIN u -> Message \cup {NoRef, Deleted}]
    BY <1>1, <2>1, TableType
  <2> QED BY <2>1, <2>2, TableType
<1>3. ASSUME ReferencesResolve(t), ~DeleteBreaksForeignKey(t, m),
             NEW x \in DOMAIN u
      PROVE  u[x] \in DOMAIN u \cup {NoRef, Deleted}
  <2>1. x \in DOMAIN t /\ x \notin gone /\ u[x] = t[x]
    BY <1>1
  <2>2. t[x] # m
    BY <2>1 DEF Children
  <2>3. t[x] \notin Children(t, m)
    <3>1. x \in Children(t, t[x])
      BY <2>1 DEF Children
    <3> QED BY <3>1, <1>3 DEF DeleteBreaksForeignKey
  <2>4. t[x] \in DOMAIN t \cup {NoRef, Deleted}
    BY <2>1, <1>3 DEF ReferencesResolve
  <2> QED BY <1>1, <2>1, <2>2, <2>3, <2>4
<1> QED BY <1>2, <1>3 DEF ReferencesResolve
---------------------------------------------------------------------------
(* Types.  A message in the timer thread's hands means that the thread is in *)
(* the loop of batchSave and that the batch is not full: without this, rolled *)
(* could pass BatchNumber.                                                  *)

RotatingInBatch ==
  rotating # NoMessage => timer.pc = "rotate" /\ timer.rolled < BatchNumber

TypeInv == TypeOK /\ RotatingInBatch

LEMMA TypeInit == Init => TypeInv
<1> SUFFICES ASSUME Init PROVE TypeInv
  OBVIOUS
<1>1. Reverse(Preload) \in Seq(Message)
  BY QueueAssumption DEF Reverse
<1>2. Range(Preload) \subseteq Message
  BY QueueAssumption, RangeOfSeq
<1>5. talker \in [Message -> TalkerState]
  BY DEF Init, TalkerState
<1>6. deleter \in [Message -> DeleterState] /\ waiter \in [Waiter -> WaiterState]
  BY DEF Init, DeleterState, WaiterState
<1>7. snapshot \in [Listener -> [state : ListenerState, messages : Seq(Message)]]
  BY EmptySeq DEF Init, ListenerState
<1>3. table \in Table
  BY <1>2, TableType, TableAssumption DEF Init
<1>4. timer \in TimerState
  BY QueueAssumption DEF Init, Resting, TimerState
<1>8. TypeOK
  <2>1. /\ unsavedQueue \in Seq(Message) /\ savedQueue \in Seq(Message)
        /\ toSave \in Seq(Message) /\ toRelease \in Seq(Message)
        /\ order \in Seq(Message)
    BY <1>1, EmptySeq DEF Init
  <2>2. /\ tasks \in [{"flush", "final"} -> Nat]
        /\ pins \in [Message -> Int]
        /\ owed \in [Waiter -> SUBSET Message]
    BY DEF Init
  <2>3. /\ updateQueue \subseteq Message /\ stopped \in BOOLEAN
        /\ flushed \in BOOLEAN /\ unionLock \in {"free", "timer"} \cup Listener
        /\ rotating \in Message \cup {NoMessage}
        /\ continuationTimeout \in Nat /\ losingMessages \in Nat
        /\ invalid \subseteq Message /\ busy \in Nat
        /\ attempted \subseteq Message /\ missed \subseteq Message
        /\ thrown \subseteq Message /\ removed \subseteq Message
    BY <1>2 DEF Init
  <2> QED BY <1>3, <1>4, <1>5, <1>6, <1>7, <2>1, <2>2, <2>3 DEF TypeOK
<1> QED BY <1>8 DEF Init, TypeInv, RotatingInBatch

\* Moving the timer thread to another statement changes nothing else of it.
LEMMA GoToType ==
  ASSUME timer \in TimerState,
         NEW pc \in {"idle", "poll", "rotate", "save", "release", "clock",
                    "votes", "update", "notify", "cancelled"},
         GoTo(pc)
  PROVE  /\ timer' \in TimerState
         /\ timer'.pc = pc
         /\ timer'.rolled = timer.rolled
         /\ timer'.task = timer.task
BY DEF GoTo, TimerState

LEMMA PendingType ==
  TypeOK => Pending \subseteq Message
BY RangeOfSeq DEF TypeOK, Pending, Hands

\* Both ways a thread may go in flushAndWait and stop.
LEMMA WaitType ==
  ASSUME TypeOK, NEW w \in Waiter, NEW task \in {"flush", "final"},
         StartWaiting(w, task) \/ ReturnAtOnce(w)
  PROVE  /\ waiter' \in [Waiter -> WaiterState]
         /\ flushed' \in BOOLEAN
         /\ tasks' \in [{"flush", "final"} -> Nat]
         /\ owed' \in [Waiter -> SUBSET Message]
<1>1. CASE StartWaiting(w, task)
  <2>1. waiter' \in [Waiter -> WaiterState] /\ flushed' \in BOOLEAN
    BY <1>1 DEF StartWaiting, TypeOK, WaiterState
  <2>2. tasks' \in [{"flush", "final"} -> Nat]
    BY <1>1 DEF StartWaiting, TypeOK
  <2>3. owed' \in [Waiter -> SUBSET Message]
    BY <1>1, PendingType DEF StartWaiting, TypeOK
  <2> QED BY <2>1, <2>2, <2>3
<1>2. CASE ReturnAtOnce(w)
  BY <1>2 DEF ReturnAtOnce, TypeOK, WaiterState
<1> QED BY <1>1, <1>2

LEMMA TypeStep == TypeInv /\ [Next]_vars => TypeInv'
<1> SUFFICES ASSUME TypeInv, [Next]_vars PROVE TypeInv'
  OBVIOUS
<1> USE DEF TypeInv, TypeOK, RotatingInBatch, queueVars, batchVars, lateVars,
            timerVars, waitVars, storeVars, clientVars, fateVars, historyVars
<1>1. ASSUME NEW m \in Message, CacheMessage(m) PROVE TypeInv'
  BY SMTT(20), <1>1
     DEF CacheMessage, TalkerState
<1>2. ASSUME NEW m \in Message, CheckStopped(m) PROVE TypeInv'
  BY <1>2
     DEF CheckStopped, TalkerState
<1>3. ASSUME NEW m \in Message, RequestUpdate(m) PROVE TypeInv'
  BY <1>3, QueueAssumption, TableAssumption
     DEF RequestUpdate, TalkerState
<1>4. ASSUME NEW m \in Message, Enqueue(m) PROVE TypeInv'
  BY <1>4
     DEF Enqueue, Added, TalkerState
<1>5. ASSUME NEW m \in Message, DeleteUnsaved(m) PROVE TypeInv'
  <2>1. unsavedQueue' \in Seq(Message) /\ removed' \subseteq Message
    <3>1. CASE m \notin Range(unsavedQueue) /\ UNCHANGED <<unsavedQueue, removed>>
      BY <3>1
    <3>2. CASE \E i \in DOMAIN unsavedQueue :
                 /\ unsavedQueue' = RemoveAt(unsavedQueue, i)
                 /\ removed' = removed \cup {m}
      BY <3>2, RemoveAtRange, LenProperties
    <3> QED BY <1>5, <3>1, <3>2 DEF DeleteUnsaved
  <2> QED BY <1>5, <2>1 DEF DeleteUnsaved, DeleterState
<1>6. ASSUME NEW m \in Message, DeleteStored(m) PROVE TypeInv'
  <2>1. table' \in Table
    <3> DEFINE redirected == RedirectReplies(table, m)
    <3>1. redirected \in Table
      BY RedirectKeeps
    <3>2. DeleteRow(redirected, m) \in Table
      BY <3>1, DeleteRowKeeps
    <3>3. table' \in {redirected, DeleteRow(redirected, m), table}
      BY <1>6 DEF DeleteStored
    <3> QED BY <3>1, <3>2, <3>3
  <2>2. deleter' \in [Message -> DeleterState]
    BY <1>6 DEF DeleteStored, DeleterState
  <2> QED BY <1>6, <2>1, <2>2 DEF DeleteStored
<1>7. ASSUME NEW m \in Message, InvalidMessage(m) PROVE TypeInv'
  BY <1>7
     DEF InvalidMessage, DeleterState
<1>8. ASSUME NEW task \in {"periodic", "flush", "final"}, StartRun(task) PROVE TypeInv'
  BY <1>8, QueueAssumption
     DEF StartRun, Due, At, TimerState
<1>9. ASSUME EnterBatch PROVE TypeInv'
  <2>1. timer' \in TimerState /\ rotating = NoMessage
    <3>1. rotating = NoMessage /\ 0 \in 0..BatchNumber
      BY <1>9, QueueAssumption DEF EnterBatch, At
    <3>2. timer' = [timer EXCEPT !.pc = "rotate", !.rolled = 0]
      BY <1>9 DEF EnterBatch
    <3> QED BY <3>1, <3>2 DEF TimerState
  <2> QED BY <1>9, <2>1 DEF EnterBatch
<1>10. ASSUME PollUnsaved PROVE TypeInv'
  BY <1>10, HeadTailProperties
     DEF PollUnsaved, Polled, At
<1>11. ASSUME Roll PROVE TypeInv'
  <2>1. timer' \in TimerState /\ rotating \in Message
    <3>1. rotating \in Message /\ timer.rolled + 1 \in 0..BatchNumber
      BY SMTT(20), <1>11, QueueAssumption DEF Roll, At, TimerState
    <3>2. timer' = [timer EXCEPT !.rolled = timer.rolled + 1]
      BY <1>11 DEF Roll
    <3> QED BY <3>1, <3>2 DEF TimerState
  <2>2. savedQueue' \in Seq(Message) /\ toSave' \in Seq(Message)
    BY <1>11, <2>1, HeadTailProperties, AppendProperties, EmptySeq
       DEF Roll, Batched
  <2> QED BY <1>11, <2>1, <2>2 DEF Roll
<1>12. ASSUME LeaveBatch PROVE TypeInv'
  BY <1>12
     DEF LeaveBatch, At, GoTo, TimerState
<1>13. ASSUME NEW isBusy \in BOOLEAN, SaveRow(isBusy) PROVE TypeInv'
  BY SMTT(20), <1>13, InsertRowKeeps, HeadTailProperties
     DEF SaveRow, At
<1>14. ASSUME EndSave PROVE TypeInv'
  BY <1>14
     DEF EndSave, At, GoTo, TimerState
<1>15. ASSUME ReleaseSaved PROVE TypeInv'
  BY SMTT(20), <1>15, HeadTailProperties
     DEF ReleaseSaved, At
<1>16. ASSUME NEW t \in 0..2, ReadClock(t) PROVE TypeInv'
  BY <1>16
     DEF ReadClock, At, TimerState
<1>17. ASSUME BatchInTime PROVE TypeInv'
  BY <1>17
     DEF BatchInTime, At, GoTo, TimerState
<1>18. ASSUME BatchLate PROVE TypeInv'
  <2>1. timer' \in TimerState /\ rotating = NoMessage
    BY <1>18, GoToType DEF BatchLate, At
  <2> QED BY <1>18, <2>1 DEF BatchLate
<1>19. ASSUME GiveUp PROVE TypeInv'
  <2>1. timer' \in TimerState /\ rotating = NoMessage
    BY <1>19, GoToType DEF GiveUp, At
  <2>2. Range(unsavedQueue) \subseteq Message /\ Len(unsavedQueue) \in Nat
    BY RangeOfSeq, LenProperties
  <2> QED BY <1>19, <2>1, <2>2, EmptySeq DEF GiveUp
<1>20. ASSUME UpdateVotes PROVE TypeInv'
  <2>1. timer' \in TimerState /\ rotating = NoMessage
    BY <1>20, GoToType DEF UpdateVotes, At
  <2>2. pins' \in [Message -> Int] /\ updateQueue' \subseteq Message
    BY <1>20 DEF UpdateVotes
  <2> QED BY <1>20, <2>1, <2>2 DEF UpdateVotes
<1>21. ASSUME NotifyWaiters PROVE TypeInv'
  <2>1. timer' \in TimerState /\ rotating = NoMessage
    <3>1. rotating = NoMessage
      BY <1>21 DEF NotifyWaiters, At
    <3>2. Resting \in TimerState
      BY QueueAssumption DEF Resting, TimerState
    <3>3. [timer EXCEPT !.pc = "cancelled"] \in TimerState
      BY DEF TimerState
    <3> QED BY <1>21, <3>1, <3>2, <3>3 DEF NotifyWaiters
  <2>2. waiter' \in [Waiter -> WaiterState]
    BY <1>21 DEF NotifyWaiters, WaiterState
  <2> QED BY <1>21, <2>1, <2>2 DEF NotifyWaiters
<1>22. ASSUME NEW w \in Flusher, FlushAndWait(w) PROVE TypeInv'
  <2> QED BY <1>22, WaitType DEF FlushAndWait, Waiter
<1>23. ASSUME NEW w \in Stopper, Stop(w) PROVE TypeInv'
  <2> QED BY <1>23, WaitType DEF Stop, Waiter
<1>24. ASSUME NEW l \in Listener, PushSaved(l) PROVE TypeInv'
  BY <1>24
     DEF PushSaved, ListenerState
<1>25. ASSUME NEW l \in Listener, PushUnsaved(l) PROVE TypeInv'
  BY <1>25
     DEF PushUnsaved, ListenerState
<1>26. CASE UNCHANGED vars
  BY <1>26 DEF vars
<1> QED
  BY <1>1, <1>2, <1>3, <1>4, <1>5, <1>6, <1>7, <1>8, <1>9, <1>10,
     <1>11, <1>12, <1>13, <1>14, <1>15, <1>16, <1>17, <1>18,
     <1>19, <1>20, <1>21, <1>22, <1>23, <1>24, <1>25, <1>26
     DEF Next, Talk, Delete, StartTask, TimerStep, Push

\* Every variable always has a value of its type, whatever the interleaving of
\* request threads, timer, waiters and listeners.
THEOREM TypeCorrect == Spec => []TypeOK
<1>1. TypeInv => TypeOK
  BY DEF TypeInv
<1> QED BY <1>1, TypeInit, TypeStep, PTL DEF Spec

---------------------------------------------------------------------------
(* The foreign key.                                                        *)

LEMMA ReferenceStep ==
  TypeInv /\ NoDanglingReference /\ [Next]_vars => NoDanglingReference'
<1> SUFFICES ASSUME TypeInv, NoDanglingReference, [Next]_vars
             PROVE  NoDanglingReference'
  OBVIOUS
<1> USE DEF NoDanglingReference
<1>1. table \in Table /\ toSave \in Seq(Message)
  BY DEF TypeInv, TypeOK
<1>2. ASSUME UNCHANGED table PROVE NoDanglingReference'
  BY <1>2
<1>3. ASSUME NEW isBusy \in BOOLEAN, SaveRow(isBusy) PROVE NoDanglingReference'
  <2>1. Head(toSave) \in Message
    BY <1>1, <1>3, HeadTailProperties DEF SaveRow
  <2> QED BY <1>1, <1>3, <2>1, InsertRowKeeps DEF SaveRow
<1>4. ASSUME NEW m \in Message, DeleteStored(m) PROVE NoDanglingReference'
  <2> DEFINE redirected == RedirectReplies(table, m)
  <2>1. redirected \in Table /\ ReferencesResolve(redirected)
    BY <1>1, RedirectKeeps
  <2>2. ~DeleteBreaksForeignKey(redirected, m)
          => ReferencesResolve(DeleteRow(redirected, m))
    BY <2>1, DeleteRowKeeps
  <2> QED BY <1>4, <2>1, <2>2 DEF DeleteStored
<1>5. [Next]_vars =>
        \/ UNCHANGED table
        \/ \E isBusy \in BOOLEAN : SaveRow(isBusy)
        \/ \E m \in Message : DeleteStored(m)
  BY DEF Next, Talk, Delete, StartTask, TimerStep, Push, CacheMessage,
     CheckStopped, RequestUpdate, Enqueue, StartRun, EnterBatch, PollUnsaved,
     Roll, LeaveBatch, EndSave, ReleaseSaved, ReadClock, BatchInTime, BatchLate,
     GiveUp, UpdateVotes, NotifyWaiters, FlushAndWait, Stop, DeleteUnsaved,
     InvalidMessage, PushSaved, PushUnsaved, vars, storeVars
<1> QED BY <1>2, <1>3, <1>4, <1>5

\* Whatever is inserted, lost and deleted, in whatever order, no row of the
\* table refers to a row that is not there.
THEOREM ReferencesAlwaysResolve == Spec => []NoDanglingReference
<1>1. Init => NoDanglingReference
  <2> SUFFICES ASSUME Init, NEW m \in Range(Preload)
               PROVE  RefOf[m] \in Range(Preload) \cup {NoRef}
    BY DEF Init, NoDanglingReference, ReferencesResolve
  <2>1. PICK i \in DOMAIN Preload : m = Preload[i]
    BY DEF Range
  <2> QED BY <2>1, QueueAssumption
<1> QED BY <1>1, TypeInit, TypeStep, ReferenceStep, PTL DEF Spec
---------------------------------------------------------------------------
(* One place for every accepted message.                                   *)

OnePlaceInv == TypeInv /\ AcceptedInOnePlace

LEMMA OnePlaceStep ==
  OnePlaceInv /\ [Next]_vars => AcceptedInOnePlace'
<1> SUFFICES ASSUME TypeInv, AcceptedInOnePlace, [Next]_vars
             PROVE  AcceptedInOnePlace'
  BY DEF OnePlaceInv
<1> DEFINE placeVars == <<unsavedQueue, toSave, rotating, attempted, thrown,
                          removed>>
           acceptedNow == {m \in Message : talker[m] = "accepted"}
<1>1. /\ unsavedQueue \in Seq(Message) /\ toSave \in Seq(Message)
      /\ rotating \in Message \cup {NoMessage} /\ NoMessage \notin Message
      /\ talker \in [Message -> TalkerState]
  BY QueueAssumption DEF TypeInv, TypeOK
<1>2. ASSUME UNCHANGED placeVars, acceptedNow' = acceptedNow
      PROVE  AcceptedInOnePlace'
  BY <1>2 DEF AcceptedInOnePlace, Pending, Hands
<1>3. ASSUME NEW m \in Message, Enqueue(m) PROVE AcceptedInOnePlace'
  <2>1. m \notin acceptedNow /\ acceptedNow' = acceptedNow \cup {m}
    BY <1>1, <1>3 DEF Enqueue
  <2>2. m \notin Pending \cup attempted \cup thrown \cup removed
    BY <2>1 DEF AcceptedInOnePlace
  <2>3. IsInjective(unsavedQueue') /\ Range(unsavedQueue') = Range(unsavedQueue) \cup {m}
    BY <1>1, <1>3, <2>2, AppendRange DEF Enqueue, Added, Pending, AcceptedInOnePlace
  <2> QED BY <1>3, <2>1, <2>2, <2>3
          DEF Enqueue, AcceptedInOnePlace, Pending, Hands, timerVars, batchVars, fateVars
<1>4. ASSUME PollUnsaved PROVE AcceptedInOnePlace'
  <2>1. /\ IsInjective(unsavedQueue')
        /\ rotating' \notin Range(unsavedQueue')
        /\ Range(unsavedQueue) = Range(unsavedQueue') \cup {rotating'}
        /\ rotating = NoMessage /\ rotating' \in Message
    BY <1>1, <1>4, TailRange, HeadTailProperties
       DEF PollUnsaved, Polled, AcceptedInOnePlace
  <2>2. acceptedNow' = acceptedNow
    BY <1>4 DEF PollUnsaved, clientVars
  <2> QED BY <1>1, <1>4, <2>1, <2>2
          DEF PollUnsaved, AcceptedInOnePlace, Pending, Hands, historyVars, fateVars
<1>5. ASSUME Roll PROVE AcceptedInOnePlace'
  <2>1. /\ rotating \in Message /\ rotating' = NoMessage
        /\ IsInjective(toSave') /\ Range(toSave') = Range(toSave) \cup {rotating}
    BY <1>1, <1>5, AppendRange DEF Roll, Batched, AcceptedInOnePlace
  <2>2. acceptedNow' = acceptedNow
    BY <1>5 DEF Roll, clientVars
  <2>3. Hands' = Hands /\ NoMessage \notin Range(toSave')
    BY <1>1, <2>1, RangeOfSeq DEF Hands
  <2> QED BY <1>5, <2>1, <2>2, <2>3
          DEF Roll, AcceptedInOnePlace, Pending, historyVars, fateVars
<1>6. ASSUME NEW isBusy \in BOOLEAN, SaveRow(isBusy) PROVE AcceptedInOnePlace'
  <2>1. /\ IsInjective(toSave')
        /\ Head(toSave) \notin Range(toSave')
        /\ Range(toSave) = Range(toSave') \cup {Head(toSave)}
    BY <1>1, <1>6, TailRange DEF SaveRow, AcceptedInOnePlace
  <2>2. acceptedNow' = acceptedNow
    BY <1>6 DEF SaveRow, clientVars
  <2> QED BY <1>1, <1>6, <2>1, <2>2, RangeOfSeq
          DEF SaveRow, AcceptedInOnePlace, Pending, Hands, queueVars
<1>7. ASSUME GiveUp PROVE AcceptedInOnePlace'
  <2>1. unsavedQueue' = <<>> /\ Range(unsavedQueue') = {}
        /\ IsInjective(unsavedQueue')
    BY <1>7 DEF GiveUp, Range, IsInjective
  <2>2. acceptedNow' = acceptedNow
    BY <1>7 DEF GiveUp, clientVars
  <2> QED BY <1>7, <2>1, <2>2
          DEF GiveUp, AcceptedInOnePlace, Pending, Hands, batchVars
<1>8. ASSUME NEW m \in Message, DeleteUnsaved(m) PROVE AcceptedInOnePlace'
  <2>1. acceptedNow' = acceptedNow
    BY <1>8 DEF DeleteUnsaved
  <2>2. CASE UNCHANGED <<unsavedQueue, removed>>
    BY <1>8, <2>1, <2>2, <1>2 DEF DeleteUnsaved, timerVars, batchVars
  <2>3. CASE \E i \in DOMAIN unsavedQueue :
               /\ unsavedQueue[i] = m
               /\ unsavedQueue' = RemoveAt(unsavedQueue, i)
               /\ removed' = removed \cup {m}
    <3>1. /\ IsInjective(unsavedQueue')
          /\ Range(unsavedQueue') = Range(unsavedQueue) \ {m}
          /\ m \in Range(unsavedQueue)
      <4>1. PICK i \in 1..Len(unsavedQueue) :
                 /\ unsavedQueue[i] = m
                 /\ unsavedQueue' = RemoveAt(unsavedQueue, i)
        BY <1>1, <2>3, LenProperties
      <4>2. IsInjective(unsavedQueue)
        BY DEF AcceptedInOnePlace
      <4>3. m \in Range(unsavedQueue)
        BY <1>1, <4>1, LenProperties DEF Range
      <4> QED BY <1>1, <4>1, <4>2, <4>3, RemoveAtRange
    <3> QED BY <1>8, <2>1, <2>3, <3>1
            DEF DeleteUnsaved, AcceptedInOnePlace, Pending, Hands, timerVars, batchVars
  <2> QED BY <1>8, <2>2, <2>3 DEF DeleteUnsaved
<1>9. ASSUME NEW m \in Message,
             CacheMessage(m) \/ CheckStopped(m) \/ RequestUpdate(m)
      PROVE  AcceptedInOnePlace'
  <2>1. acceptedNow' = acceptedNow
    BY <1>1, <1>9 DEF CacheMessage, CheckStopped, RequestUpdate
  <2>2. UNCHANGED placeVars
    BY <1>9 DEF CacheMessage, CheckStopped, RequestUpdate, queueVars, timerVars,
                batchVars, historyVars, fateVars
  <2> QED BY <1>2, <2>1, <2>2
<1>10. \/ UNCHANGED <<placeVars, talker>>
       \/ \E m \in Message : \/ CacheMessage(m) \/ CheckStopped(m)
                             \/ RequestUpdate(m) \/ Enqueue(m) \/ DeleteUnsaved(m)
       \/ \E isBusy \in BOOLEAN : SaveRow(isBusy)
       \/ PollUnsaved \/ Roll \/ GiveUp
  BY DEF Next, Talk, Delete, StartTask, TimerStep, Push, StartRun, EnterBatch,
     LeaveBatch, EndSave, ReleaseSaved, ReadClock, BatchInTime, BatchLate,
     UpdateVotes, NotifyWaiters, FlushAndWait, Stop, DeleteStored,
     InvalidMessage, PushSaved, PushUnsaved, vars, queueVars, timerVars,
     batchVars, clientVars, historyVars, fateVars
<1> QED BY <1>2, <1>3, <1>4, <1>5, <1>6, <1>7, <1>8, <1>9, <1>10

\* No accepted message is lost or duplicated on its way from the request
\* thread through the timer thread to the data store.
THEOREM AcceptedAlwaysInOnePlace == Spec => []AcceptedInOnePlace
<1>1. Init => AcceptedInOnePlace
  <2> SUFFICES ASSUME Init PROVE AcceptedInOnePlace
    OBVIOUS
  <2>1. Range(<<>>) = {} /\ IsInjective(<<>>)
    BY DEF Range, IsInjective
  <2>2. Pending = {} /\ Hands = {}
    BY <2>1 DEF Init, Pending, Hands
  <2>3. {m \in Message : talker[m] = "accepted"} = Range(Preload)
    BY QueueAssumption, RangeOfSeq DEF Init
  <2>4. rotating \notin Range(toSave)
    BY <2>1 DEF Init
  <2> QED BY <2>1, <2>2, <2>3, <2>4 DEF Init, AcceptedInOnePlace
<1>2. Init => OnePlaceInv
  BY <1>1, TypeInit DEF OnePlaceInv
<1>3. OnePlaceInv /\ [Next]_vars => OnePlaceInv'
  BY OnePlaceStep, TypeStep DEF OnePlaceInv
<1>4. OnePlaceInv => AcceptedInOnePlace
  BY DEF OnePlaceInv
<1> QED BY <1>2, <1>3, <1>4, PTL DEF Spec
---------------------------------------------------------------------------
(* The batch and the monitor: between two batches nothing is in the timer   *)
(* thread's hands, and whoever is inside a unionLock section owns it.        *)

BatchAt ==
  /\ timer.pc \notin {"rotate", "save"} => toSave = <<>>
  /\ timer.pc \notin {"save", "release"} => toRelease = <<>>

LockHeld ==
  /\ timer.pc = "rotate" <=> unionLock = "timer"
  /\ \A l \in Listener : snapshot[l].state = "saved" <=> unionLock = l

BatchInv == TypeInv /\ BatchAt /\ LockHeld

LEMMA BatchInit == Init => BatchAt /\ LockHeld
BY QueueAssumption DEF Init, BatchAt, LockHeld, Resting

LEMMA BatchStep == BatchInv /\ [Next]_vars => BatchAt' /\ LockHeld'
<1> SUFFICES ASSUME TypeInv, BatchAt, LockHeld, [Next]_vars
             PROVE  BatchAt' /\ LockHeld'
  BY DEF BatchInv
<1> DEFINE lockVars == <<toSave, toRelease, unionLock, snapshot>>
           Goal == BatchAt' /\ LockHeld'
<1>1. /\ timer \in TimerState
      /\ snapshot \in [Listener -> [state : ListenerState, messages : Seq(Message)]]
      /\ "timer" \notin Listener /\ "free" \notin Listener
  BY QueueAssumption DEF TypeInv, TypeOK
<1>2. ASSUME UNCHANGED <<lockVars, timer>> PROVE Goal
  BY <1>2 DEF BatchAt, LockHeld
<1>3. ASSUME UNCHANGED lockVars,
             timer.pc \notin {"rotate", "save", "release"},
             timer'.pc \notin {"rotate", "save", "release"}
      PROVE  Goal
  BY <1>3 DEF BatchAt, LockHeld
<1>4. CASE EnterBatch
  BY <1>1, <1>4
  DEF EnterBatch, UnionLockFree, At, TimerState, BatchAt, LockHeld, batchVars, clientVars
<1>5. CASE LeaveBatch
  BY <1>1, <1>5
  DEF LeaveBatch, At, GoTo, TimerState, BatchAt, LockHeld, batchVars, clientVars
<1>6. CASE \E isBusy \in BOOLEAN : SaveRow(isBusy)
  BY <1>1, <1>6 DEF SaveRow, At, BatchAt, LockHeld, clientVars
<1>7. CASE EndSave
  BY <1>1, <1>7
  DEF EndSave, At, GoTo, TimerState, BatchAt, LockHeld, batchVars, clientVars
<1>8. CASE ReleaseSaved
  BY <1>1, <1>8 DEF ReleaseSaved, At, BatchAt, LockHeld, clientVars
<1>9. CASE Roll \/ PollUnsaved
  BY <1>1, <1>9
  DEF Roll, PollUnsaved, At, TimerState, BatchAt, LockHeld, clientVars
<1>10. ASSUME NEW t \in 0..2, ReadClock(t) PROVE Goal
  BY <1>1, <1>10
  DEF ReadClock, At, TimerState, BatchAt, LockHeld, batchVars, clientVars
<1>11. ASSUME NEW l \in Listener, PushSaved(l) PROVE Goal
  BY <1>1, <1>11
  DEF PushSaved, UnionLockFree, BatchAt, LockHeld, timerVars, batchVars, ListenerState
<1>12. ASSUME NEW l \in Listener, PushUnsaved(l) PROVE Goal
  BY <1>1, <1>12 DEF PushUnsaved, BatchAt, LockHeld, timerVars, batchVars, ListenerState
<1>13. CASE StartTask \/ BatchInTime \/ BatchLate \/ GiveUp \/ UpdateVotes \/ NotifyWaiters
  <2>1. timer.pc \notin {"rotate", "save", "release"}
    BY <1>13
    DEF StartTask, StartRun, BatchInTime, BatchLate, GiveUp, UpdateVotes, NotifyWaiters, At
  <2>2. timer'.pc \notin {"rotate", "save", "release"}
    BY <1>1, <1>13
    DEF StartTask, StartRun, BatchInTime, BatchLate, GiveUp, UpdateVotes, NotifyWaiters,
        GoTo, TimerState, Resting
  <2>3. UNCHANGED lockVars
    BY <1>13
    DEF StartTask, StartRun, BatchInTime, BatchLate, GiveUp, UpdateVotes, NotifyWaiters,
        batchVars, clientVars
  <2> QED BY <1>3, <2>1, <2>2, <2>3
<1>14. \/ UNCHANGED <<lockVars, timer>>
       \/ EnterBatch \/ LeaveBatch \/ EndSave \/ ReleaseSaved \/ Roll \/ PollUnsaved
       \/ \E isBusy \in BOOLEAN : SaveRow(isBusy)
       \/ \E t \in 0..2 : ReadClock(t)
       \/ \E l \in Listener : PushSaved(l) \/ PushUnsaved(l)
       \/ StartTask \/ BatchInTime \/ BatchLate \/ GiveUp \/ UpdateVotes \/ NotifyWaiters
  BY DEF Next, Talk, Delete, TimerStep, Push, CacheMessage, CheckStopped,
     RequestUpdate, Enqueue, FlushAndWait, Stop, DeleteUnsaved, DeleteStored,
     InvalidMessage, vars, timerVars, batchVars, clientVars
<1> QED BY <1>2, <1>4, <1>5, <1>6, <1>7, <1>8, <1>9, <1>10, <1>11, <1>12, <1>13, <1>14

LEMMA BatchInvariant == Spec => []BatchInv
<1>1. Init => BatchInv
  BY BatchInit, TypeInit DEF BatchInv
<1>2. BatchInv /\ [Next]_vars => BatchInv'
  BY BatchStep, TypeStep DEF BatchInv
<1> QED BY <1>1, <1>2, PTL DEF Spec
---------------------------------------------------------------------------
(* The order of acceptance: every queue on the way keeps it, each message is *)
(* behind the one it refers to, and what the two queues hold are the newest. *)

Accepted == {m \in Message : talker[m] = "accepted"}
Older == {p \in Message \X Message : Precedes(order, p[1], p[2])}
Rotating == {rotating} \ {NoMessage}
Recent == Range(savedQueue) \cup Rotating \cup Range(unsavedQueue)

OrderOfAcceptance == IsInjective(order) /\ Range(order) = Accepted

QueuesInOrder ==
  /\ InOrder(savedQueue, Older) /\ InOrder(toSave, Older) /\ InOrder(unsavedQueue, Older)
  /\ \A x \in Range(savedQueue) \cup Range(toSave), y \in Rotating \cup Range(unsavedQueue) :
       <<x, y>> \in Older
  /\ \A x \in Rotating, y \in Range(unsavedQueue) : <<x, y>> \in Older
  /\ Range(savedQueue) \subseteq Accepted

RecentIsNewest ==
  \A x, y : <<x, y>> \in Older /\ x \in Recent => y \in Recent \cup removed \cup thrown

ParentsOlder ==
  /\ \A m \in Message : talker[m] # "idle" /\ RefOf[m] # NoRef => RefOf[m] \in Accepted
  /\ \A m \in Pending : RefOf[m] # NoRef => <<RefOf[m], m>> \in Older

OrderParts == OrderOfAcceptance /\ QueuesInOrder /\ RecentIsNewest /\ ParentsOlder
OrderInv == BatchInv /\ AcceptedInOnePlace /\ OrderParts

LEMMA OlderIsPrecedes ==
  /\ \A x, y : <<x, y>> \in Older <=> x \in Message /\ y \in Message /\ Precedes(order, x, y)
  /\ \A x, y : <<x, y>> \in Older' <=> x \in Message /\ y \in Message /\ Precedes(order', x, y)
BY DEF Older

\* An accepted message is older than those accepted after it, and no other.
LEMMA OlderIsStrict ==
  ASSUME TypeOK, OrderOfAcceptance, NEW x, NEW y, <<x, y>> \in Older
  PROVE  x \in Accepted /\ y \in Accepted /\ x # y /\ <<y, x>> \notin Older
<1>1. order \in Seq(Message) /\ IsInjective(order) /\ Range(order) = Accepted
  BY DEF TypeOK, OrderOfAcceptance
<1>2. Precedes(order, x, y)
  BY OlderIsPrecedes
<1> QED BY <1>1, <1>2, PrecedesIsStrict, OlderIsPrecedes

LEMMA PlaceFacts ==
  ASSUME TypeOK, AcceptedInOnePlace
  PROVE  /\ Pending = Range(toSave) \cup Rotating \cup Range(unsavedQueue)
         /\ Pending \subseteq Accepted /\ Accepted \subseteq Message
BY DEF AcceptedInOnePlace, Pending, Hands, Rotating, Accepted

LEMMA EnqueueKeepsOrder ==
  ASSUME OrderInv, NEW m \in Message, Enqueue(m)
  PROVE  OrderParts'
<1>1. /\ TypeOK /\ AcceptedInOnePlace /\ order \in Seq(Message)
      /\ unsavedQueue \in Seq(Message) /\ toSave \in Seq(Message)
      /\ savedQueue \in Seq(Message) /\ talker \in [Message -> TalkerState]
  BY DEF OrderInv, BatchInv, TypeInv, TypeOK
<1>2. /\ UNCHANGED <<savedQueue, toSave, rotating, removed, thrown>>
      /\ unsavedQueue' = Append(unsavedQueue, m) /\ order' = Append(order, m)
      /\ m \notin Accepted /\ Accepted' = Accepted \cup {m}
      /\ talker[m] # "idle"
  BY <1>1
  DEF Enqueue, Added, timerVars, batchVars, fateVars, Accepted
<1>3. /\ \A x, y : <<x, y>> \in Older' <=> <<x, y>> \in Older \/ (x \in Accepted /\ y = m)
      /\ Range(order') = Range(order) \cup {m} /\ IsInjective(order')
  <2>1. Range(order) = Accepted /\ IsInjective(order)
    BY DEF OrderInv, OrderParts, OrderOfAcceptance
  <2>2. /\ Range(Append(order, m)) = Range(order) \cup {m}
        /\ IsInjective(Append(order, m))
    BY <1>1, <1>2, <2>1, AppendRange
  <2>3. \A x, y : Precedes(order', x, y) <=> Precedes(order, x, y) \/ (x \in Accepted /\ y = m)
    BY <1>1, <1>2, <2>1, PrecedesAppend
  <2> QED BY <1>2, <2>2, <2>3, OlderIsPrecedes DEF Accepted
<1>4. Older \subseteq Older'
  BY <1>3 DEF Older
<1>5. Range(unsavedQueue') = Range(unsavedQueue) \cup {m} /\ Rotating' = Rotating
  BY <1>1, <1>2, AppendRange DEF Rotating
<1>6. OrderOfAcceptance'
  BY <1>2, <1>3 DEF OrderInv, OrderParts, OrderOfAcceptance
<1>7. QueuesInOrder'
  <2>1. /\ InOrder(savedQueue, Older') /\ InOrder(toSave, Older')
        /\ InOrder(unsavedQueue, Older')
    BY <1>4, InOrderMonotonic DEF OrderInv, OrderParts, QueuesInOrder
  <2>2. /\ Pending \subseteq Accepted /\ Range(savedQueue) \subseteq Accepted
        /\ Pending = Range(toSave) \cup Rotating \cup Range(unsavedQueue)
    BY <1>1, PlaceFacts DEF OrderInv, OrderParts, QueuesInOrder
  <2>3. InOrder(unsavedQueue', Older')
    BY <1>1, <1>2, <1>3, <2>1, <2>2, AppendInOrder
  <2>4. \A x \in Range(savedQueue') \cup Range(toSave'),
          y \in Rotating' \cup Range(unsavedQueue') : <<x, y>> \in Older'
    BY <1>2, <1>3, <1>5, <2>2 DEF OrderInv, OrderParts, QueuesInOrder
  <2>5. \A x \in Rotating', y \in Range(unsavedQueue') : <<x, y>> \in Older'
    BY <1>3, <1>5, <2>2 DEF OrderInv, OrderParts, QueuesInOrder
  <2> QED BY <1>2, <2>1, <2>2, <2>3, <2>4, <2>5 DEF QueuesInOrder
<1>8. RecentIsNewest'
  <2>1. Recent' = Recent \cup {m}
    BY <1>2, <1>5 DEF Recent
  <2>2. m \notin Recent
    BY <1>1, <1>2, PlaceFacts DEF OrderInv, OrderParts, QueuesInOrder, Recent
  <2>3. \A x, y : <<x, y>> \in Older => x \in Accepted
    BY <1>1, OlderIsStrict DEF OrderInv, OrderParts
  <2> QED BY <1>2, <1>3, <2>1, <2>2, <2>3 DEF OrderInv, OrderParts, RecentIsNewest
<1>9. ParentsOlder'
  <2>1. Pending' = Pending \cup {m}
    BY <1>2, <1>5 DEF Pending, Hands
  <2>2. RefOf[m] # NoRef => RefOf[m] \in Accepted
    BY <1>2 DEF OrderInv, OrderParts, ParentsOlder
  <2>3. \A x \in Message : talker'[x] # "idle" => talker[x] # "idle"
    BY <1>1 DEF Enqueue
  <2>4. \A x \in Message : talker'[x] # "idle" /\ RefOf[x] # NoRef => RefOf[x] \in Accepted'
    BY <1>2, <2>3 DEF OrderInv, OrderParts, ParentsOlder
  <2>5. \A x \in Pending' : RefOf[x] # NoRef => <<RefOf[x], x>> \in Older'
    BY <1>3, <2>1, <2>2 DEF OrderInv, OrderParts, ParentsOlder
  <2> QED BY <2>4, <2>5 DEF ParentsOlder
<1> QED BY <1>6, <1>7, <1>8, <1>9 DEF OrderParts

LEMMA OrderStays ==
  ASSUME OrderInv, UNCHANGED <<order, talker>>, Pending' \subseteq Pending
  PROVE  OrderOfAcceptance' /\ ParentsOlder' /\ Older' = Older /\ Accepted' = Accepted
<1>1. Older' = Older /\ Accepted' = Accepted
  BY DEF Older, Accepted
<1> QED
  BY <1>1 DEF OrderInv, OrderParts, OrderOfAcceptance, ParentsOlder

LEMMA PollKeepsOrder ==
  ASSUME OrderInv, PollUnsaved
  PROVE  OrderParts'
<1>1. /\ TypeOK /\ unsavedQueue \in Seq(Message) /\ unsavedQueue # <<>>
      /\ unsavedQueue' = Tail(unsavedQueue) /\ rotating' = Head(unsavedQueue)
      /\ rotating = NoMessage /\ NoMessage \notin Message
      /\ UNCHANGED <<savedQueue, toSave, order, talker, removed, thrown>>
  BY QueueAssumption
  DEF OrderInv, BatchInv, TypeInv, TypeOK, PollUnsaved, Polled, clientVars, historyVars,
      fateVars
<1>2. /\ Head(unsavedQueue) \in Message
      /\ Range(unsavedQueue) = Range(unsavedQueue') \cup {Head(unsavedQueue)}
  BY <1>1, TailRange, HeadTailProperties
<1>3. Rotating = {} /\ Rotating' = {Head(unsavedQueue)}
  BY <1>1, <1>2 DEF Rotating
<1>4. Pending' = Pending /\ Recent' = Recent
  BY <1>1, <1>2, <1>3 DEF Pending, Hands, Recent, Rotating
<1>5. OrderOfAcceptance' /\ ParentsOlder' /\ Older' = Older /\ Accepted' = Accepted
  BY <1>1, <1>4, OrderStays
<1>6. QueuesInOrder'
  <2>1. /\ InOrder(unsavedQueue', Older)
        /\ \A x \in Range(unsavedQueue') : <<Head(unsavedQueue), x>> \in Older
    BY <1>1, TailInOrder DEF OrderInv, OrderParts, QueuesInOrder
  <2>2. \A x \in Rotating', y \in Range(unsavedQueue') : <<x, y>> \in Older
    BY <1>3, <2>1
  <2>3. Rotating' \cup Range(unsavedQueue') = Rotating \cup Range(unsavedQueue)
    BY <1>2, <1>3
  <2> QED BY <1>1, <1>5, <2>1, <2>2, <2>3 DEF OrderInv, OrderParts, QueuesInOrder
<1>7. RecentIsNewest'
  BY <1>1, <1>4, <1>5 DEF OrderInv, OrderParts, RecentIsNewest
<1> QED BY <1>5, <1>6, <1>7 DEF OrderParts

\* The message that savedQueue gives up is older than all that are kept.
LEMMA RollKeepsOrder ==
  ASSUME OrderInv, Roll
  PROVE  OrderParts'
<1> DEFINE rest == IF savedQueue = <<>> THEN <<>> ELSE Tail(savedQueue)
<1>1. /\ TypeOK /\ savedQueue \in Seq(Message) /\ toSave \in Seq(Message)
      /\ rotating \in Message /\ rotating' = NoMessage /\ NoMessage \notin Message
      /\ savedQueue' = Append(rest, rotating) /\ toSave' = Append(toSave, rotating)
      /\ UNCHANGED <<unsavedQueue, order, talker, removed, thrown>>
  BY QueueAssumption
  DEF OrderInv, BatchInv, TypeInv, TypeOK, Roll, Batched, clientVars, historyVars, fateVars
<1>2. Rotating = {rotating} /\ Rotating' = {}
  BY <1>1 DEF Rotating
<1>3. Range(toSave') = Range(toSave) \cup {rotating}
  BY <1>1, AppendRange
<1>4. Pending' = Pending
  BY <1>1, <1>2, <1>3 DEF Pending, Hands, Rotating
<1>5. OrderOfAcceptance' /\ ParentsOlder' /\ Older' = Older /\ Accepted' = Accepted
  BY <1>1, <1>4, OrderStays
<1>6. /\ rest \in Seq(Message) /\ InOrder(rest, Older)
      /\ Range(rest) \subseteq Range(savedQueue)
      /\ \A x \in Range(savedQueue) :
           x \in Range(rest) \/ \A y \in Range(rest) : <<x, y>> \in Older
  <2>1. CASE savedQueue = <<>>
    BY <1>1, <2>1, InOrderEmpty, EmptySeq
  <2>2. CASE savedQueue # <<>>
    <3>1. /\ Tail(savedQueue) \in Seq(Message)
          /\ Range(savedQueue) = Range(Tail(savedQueue)) \cup {Head(savedQueue)}
      BY <1>1, <2>2, TailRange
    <3>2. /\ InOrder(Tail(savedQueue), Older)
          /\ \A x \in Range(Tail(savedQueue)) : <<Head(savedQueue), x>> \in Older
      BY <1>1, <2>2, TailInOrder DEF OrderInv, OrderParts, QueuesInOrder
    <3> QED BY <2>2, <3>1, <3>2
  <2> QED BY <2>1, <2>2
<1> HIDE DEF rest
<1>7. Range(savedQueue') = Range(rest) \cup {rotating}
  BY <1>1, <1>6, AppendRange
<1>8. rotating \in Accepted
  BY <1>1, <1>2, PlaceFacts DEF OrderInv
<1>9. QueuesInOrder'
  <2>1. \A x \in Range(savedQueue) \cup Range(toSave) : <<x, rotating>> \in Older
    BY <1>2 DEF OrderInv, OrderParts, QueuesInOrder
  <2>2. InOrder(savedQueue', Older)
    BY <1>1, <1>6, <2>1, AppendInOrder
  <2>3. InOrder(toSave', Older)
    BY <1>1, <2>1, AppendInOrder DEF OrderInv, OrderParts, QueuesInOrder
  <2>4. \A x \in Range(savedQueue') \cup Range(toSave'), y \in Range(unsavedQueue') :
          <<x, y>> \in Older
    BY <1>1, <1>2, <1>3, <1>6, <1>7 DEF OrderInv, OrderParts, QueuesInOrder
  <2>5. Range(savedQueue') \subseteq Accepted
    BY <1>6, <1>7, <1>8 DEF OrderInv, OrderParts, QueuesInOrder
  <2> QED BY <1>1, <1>2, <1>5, <2>2, <2>3, <2>4, <2>5
          DEF OrderInv, OrderParts, QueuesInOrder
<1>10. RecentIsNewest'
  <2>1. Recent' = Range(rest) \cup {rotating} \cup Range(unsavedQueue)
    BY <1>1, <1>2, <1>7 DEF Recent
  <2>2. Recent = Range(savedQueue) \cup {rotating} \cup Range(unsavedQueue)
    BY <1>2 DEF Recent
  <2>3. ASSUME NEW y \in Recent \ Recent', NEW x \in Recent' PROVE <<y, x>> \in Older
    <3>1. y \in Range(savedQueue) \ Range(rest)
      BY <2>1, <2>2
    <3>2. CASE x \in Range(rest)
      BY <1>6, <3>1, <3>2
    <3>3. CASE x \in Rotating \cup Range(unsavedQueue)
      BY <3>1, <3>3 DEF OrderInv, OrderParts, QueuesInOrder
    <3> QED BY <1>2, <2>1, <3>2, <3>3
  <2>4. ASSUME NEW x, NEW y, <<x, y>> \in Older, x \in Recent'
        PROVE  y \in Recent' \cup removed \cup thrown
    <3>1. x \in Recent
      BY <1>6, <2>1, <2>2, <2>4
    <3>2. y \in Recent \cup removed \cup thrown
      BY <2>4, <3>1 DEF OrderInv, OrderParts, RecentIsNewest
    <3>3. <<y, x>> \notin Older
      BY <1>1, <2>4, OlderIsStrict DEF OrderInv, OrderParts
    <3> QED BY <2>3, <2>4, <3>2, <3>3
  <2> QED BY <1>1, <1>5, <2>4 DEF RecentIsNewest
<1> QED BY <1>5, <1>9, <1>10 DEF OrderParts

\* Messages that leave the queues on the way, and do not come back: handed to
\* the data store, thrown away, or deleted by their author.
LEMMA LeavingKeepsOrder ==
  ASSUME OrderInv, UNCHANGED <<order, talker, savedQueue, rotating>>,
         InOrder(toSave', Older), Range(toSave') \subseteq Range(toSave),
         InOrder(unsavedQueue', Older), Range(unsavedQueue') \subseteq Range(unsavedQueue),
         Range(unsavedQueue) \cup removed \cup thrown
           \subseteq Range(unsavedQueue') \cup removed' \cup thrown'
  PROVE  OrderParts'
<1>1. Rotating' = Rotating /\ Pending' \subseteq Pending
  BY DEF Rotating, Pending, Hands
<1>2. OrderOfAcceptance' /\ ParentsOlder' /\ Older' = Older /\ Accepted' = Accepted
  BY <1>1, OrderStays
<1>3. QueuesInOrder'
  BY <1>1, <1>2 DEF OrderInv, OrderParts, QueuesInOrder
<1>4. RecentIsNewest'
  <2>1. Recent' \subseteq Recent
    BY <1>1 DEF Recent
  <2>2. Recent \cup removed \cup thrown \subseteq Recent' \cup removed' \cup thrown'
    BY <1>1 DEF Recent
  <2> QED BY <1>2, <2>1, <2>2 DEF OrderInv, OrderParts, RecentIsNewest
<1> QED BY <1>2, <1>3, <1>4 DEF OrderParts

LEMMA OrderStep == OrderInv /\ [Next]_vars => OrderParts'
<1> SUFFICES ASSUME OrderInv, [Next]_vars PROVE OrderParts'
  OBVIOUS
<1> DEFINE onTheWay == <<unsavedQueue, toSave, savedQueue, rotating>>
<1>1. /\ TypeOK /\ toSave \in Seq(Message) /\ unsavedQueue \in Seq(Message)
      /\ talker \in [Message -> TalkerState]
      /\ InOrder(toSave, Older) /\ InOrder(unsavedQueue, Older)
  BY DEF OrderInv, BatchInv, TypeInv, TypeOK, OrderParts, QueuesInOrder
<1>2. CASE UNCHANGED <<onTheWay, order, talker, removed, thrown>>
  BY <1>1, <1>2, LeavingKeepsOrder
<1>3. ASSUME NEW m \in Message,
             CacheMessage(m) \/ CheckStopped(m) \/ RequestUpdate(m)
      PROVE  OrderParts'
  <2>1. UNCHANGED <<onTheWay, order, removed, thrown>>
    BY <1>3
    DEF CacheMessage, CheckStopped, RequestUpdate, queueVars, timerVars, batchVars,
        historyVars, fateVars
  <2>2. Accepted' = Accepted
    BY <1>1, <1>3 DEF CacheMessage, CheckStopped, RequestUpdate, Accepted
  <2>3. Older' = Older /\ Pending' = Pending /\ Rotating' = Rotating /\ Recent' = Recent
    BY <2>1 DEF Older, Pending, Hands, Rotating, Recent
  <2>4. \A x \in Message :
          talker'[x] # "idle" => \/ talker[x] # "idle"
                                 \/ RefOf[x] # NoRef => RefOf[x] \in Accepted
    BY <1>1, <1>3, TableAssumption DEF CacheMessage, CheckStopped, RequestUpdate, Accepted
  <2>5. ParentsOlder'
    BY <2>2, <2>3, <2>4 DEF OrderInv, OrderParts, ParentsOlder
  <2> QED BY <2>1, <2>2, <2>3, <2>5
          DEF OrderInv, OrderParts, OrderOfAcceptance, QueuesInOrder, RecentIsNewest
<1>4. ASSUME NEW isBusy \in BOOLEAN, SaveRow(isBusy) PROVE OrderParts'
  <2>1. toSave # <<>> /\ toSave' = Tail(toSave)
        /\ UNCHANGED <<order, talker, savedQueue, rotating, unsavedQueue, removed, thrown>>
    BY <1>4 DEF SaveRow, queueVars, clientVars
  <2>2. InOrder(toSave', Older) /\ Range(toSave') \subseteq Range(toSave)
    BY <1>1, <2>1, TailInOrder, TailRange
  <2> QED BY <1>1, <2>1, <2>2, LeavingKeepsOrder
<1>5. CASE GiveUp
  <2>1. /\ unsavedQueue' = <<>> /\ thrown' = thrown \cup Range(unsavedQueue)
        /\ UNCHANGED <<order, talker, savedQueue, rotating, toSave, removed>>
    BY <1>5 DEF GiveUp, batchVars, clientVars
  <2>2. InOrder(unsavedQueue', Older) /\ Range(unsavedQueue') = {}
    BY <2>1, InOrderEmpty DEF Range
  <2> QED BY <1>1, <2>1, <2>2, LeavingKeepsOrder
<1>6. ASSUME NEW m \in Message, DeleteUnsaved(m) PROVE OrderParts'
  <2>1. UNCHANGED <<order, talker, savedQueue, rotating, toSave, thrown>>
    BY <1>6 DEF DeleteUnsaved, timerVars, batchVars
  <2>2. CASE UNCHANGED <<unsavedQueue, removed>>
    BY <1>2, <2>1, <2>2
  <2>3. CASE \E i \in DOMAIN unsavedQueue :
               /\ unsavedQueue[i] = m
               /\ unsavedQueue' = RemoveAt(unsavedQueue, i)
               /\ removed' = removed \cup {m}
    <3>1. PICK i \in 1..Len(unsavedQueue) :
                 /\ unsavedQueue[i] = m
                 /\ unsavedQueue' = RemoveAt(unsavedQueue, i)
                 /\ removed' = removed \cup {m}
      BY <1>1, <2>3, LenProperties
    <3>2. /\ InOrder(unsavedQueue', Older)
          /\ Range(unsavedQueue') \subseteq Range(unsavedQueue)
      BY <1>1, <3>1, RemoveAtInOrder
    <3>3. Range(unsavedQueue') = Range(unsavedQueue) \ {m}
      BY <1>1, <3>1, RemoveAtRange DEF OrderInv, AcceptedInOnePlace
    <3> QED BY <1>1, <2>1, <3>1, <3>2, <3>3, LeavingKeepsOrder
  <2> QED BY <1>6, <2>2, <2>3 DEF DeleteUnsaved
<1>7. \/ UNCHANGED <<onTheWay, order, talker, removed, thrown>>
      \/ \E m \in Message : \/ CacheMessage(m) \/ CheckStopped(m)
                            \/ RequestUpdate(m) \/ Enqueue(m) \/ DeleteUnsaved(m)
      \/ \E isBusy \in BOOLEAN : SaveRow(isBusy)
      \/ PollUnsaved \/ Roll \/ GiveUp
  BY DEF Next, Talk, Delete, StartTask, TimerStep, Push, StartRun, EnterBatch,
     LeaveBatch, EndSave, ReleaseSaved, ReadClock, BatchInTime, BatchLate,
     UpdateVotes, NotifyWaiters, FlushAndWait, Stop, DeleteStored,
     InvalidMessage, PushSaved, PushUnsaved, vars, queueVars, timerVars,
     batchVars, clientVars, historyVars, fateVars
<1> QED BY <1>2, <1>3, <1>4, <1>5, <1>6, <1>7, EnqueueKeepsOrder, PollKeepsOrder,
           RollKeepsOrder

\* What is read back at start is accepted and saved, in whatever order.
LEMMA OrderInit == Init => OrderParts
<1> SUFFICES ASSUME Init PROVE OrderParts
  OBVIOUS
<1>1. /\ order = Reverse(Preload) /\ savedQueue = order /\ Preload \in Seq(Message)
      /\ unsavedQueue = <<>> /\ toSave = <<>> /\ rotating = NoMessage
  BY QueueAssumption DEF Init
<1>2. Range(<<>>) = {} /\ Rotating = {} /\ Pending = {} /\ Recent = Range(order)
  BY <1>1 DEF Range, Rotating, Pending, Hands, Recent
<1>3. /\ order \in Seq(Message) /\ IsInjective(order) /\ Range(order) = Range(Preload)
  BY <1>1, ReverseRange, QueueAssumption
<1>4. Accepted = Range(Preload)
  BY <1>1, QueueAssumption, RangeOfSeq DEF Init, Accepted
<1>5. OrderOfAcceptance
  BY <1>3, <1>4 DEF OrderOfAcceptance
<1>6. QueuesInOrder
  <2>1. InOrder(order, Older)
    BY <1>3, InOrderOfItself, OlderIsPrecedes
  <2> QED BY <1>1, <1>2, <1>3, <1>4, <2>1, InOrderEmpty DEF QueuesInOrder
<1>7. RecentIsNewest
  BY <1>2, <1>3, PrecedesIsStrict, OlderIsPrecedes DEF RecentIsNewest
<1>8. ParentsOlder
  <2>1. \A m \in Message : talker[m] # "idle" => m \in Range(Preload)
    BY DEF Init
  <2>2. \A m \in Range(Preload) : RefOf[m] # NoRef => RefOf[m] \in Range(Preload)
    BY QueueAssumption DEF Range
  <2> QED BY <1>2, <1>4, <2>1, <2>2 DEF ParentsOlder
<1> QED BY <1>5, <1>6, <1>7, <1>8 DEF OrderParts

LEMMA AcceptedPlaceInvariant == Spec => [](TypeInv /\ AcceptedInOnePlace)
BY AcceptedAlwaysInOnePlace, TypeInit, TypeStep, PTL DEF Spec

LEMMA OrderInvariant == Spec => []OrderInv
<1>1. Init /\ AcceptedInOnePlace => OrderInv
  BY BatchInit, TypeInit, OrderInit DEF OrderInv, BatchInv
<1>2. OrderInv /\ AcceptedInOnePlace' /\ [Next]_vars => OrderInv'
  BY OrderStep, BatchStep, TypeStep DEF OrderInv, BatchInv
<1> QED BY <1>1, <1>2, AcceptedPlaceInvariant, PTL DEF Spec
---------------------------------------------------------------------------
(* What a listener is given.                                                *)

SnapshotsUnbroken ==
  \A l \in Listener :
    /\ snapshot[l].state = "saved" => snapshot[l].messages = savedQueue
    /\ snapshot[l].state = "done" =>
         /\ Range(snapshot[l].messages) \subseteq Accepted
         /\ \A x, y, z : /\ <<x, y>> \in Older /\ <<y, z>> \in Older
                         /\ x \in Range(snapshot[l].messages)
                         /\ z \in Range(snapshot[l].messages)
                         => y \in Range(snapshot[l].messages) \cup removed \cup thrown

LEMMA SnapshotStep ==
  OrderInv /\ OrderInv' /\ SnapshotsUnbroken /\ [Next]_vars => SnapshotsUnbroken'
<1> SUFFICES ASSUME OrderInv, OrderInv', SnapshotsUnbroken, [Next]_vars
             PROVE  SnapshotsUnbroken'
  OBVIOUS
<1>1. /\ TypeOK /\ savedQueue \in Seq(Message) /\ unsavedQueue \in Seq(Message)
      /\ snapshot \in [Listener -> [state : ListenerState, messages : Seq(Message)]]
      /\ "timer" \notin Listener /\ LockHeld /\ RotatingInBatch
  BY QueueAssumption DEF OrderInv, BatchInv, TypeInv, TypeOK
<1> DEFINE grows == /\ removed \subseteq removed' /\ thrown \subseteq thrown'
                    /\ Accepted \subseteq Accepted'
<1>2. grows
  BY <1>1
  DEF TypeOK, Accepted, Next, Talk, Delete, StartTask, TimerStep, Push, CacheMessage,
      CheckStopped, RequestUpdate, Enqueue, StartRun, EnterBatch, PollUnsaved, Roll,
      LeaveBatch, SaveRow, EndSave, ReleaseSaved, ReadClock, BatchInTime, BatchLate,
      GiveUp, UpdateVotes, NotifyWaiters, FlushAndWait, Stop, DeleteUnsaved,
      DeleteStored, InvalidMessage, PushSaved, PushUnsaved, vars, queueVars, timerVars,
      batchVars, clientVars, historyVars, fateVars
\* Older grows at its new end only.
<1>3. \A x, y : <<x, y>> \in Older' /\ y \in Accepted => <<x, y>> \in Older
  <2>1. ASSUME NEW m \in Message, Enqueue(m)
        PROVE  \A x, y : <<x, y>> \in Older' /\ y \in Accepted => <<x, y>> \in Older
    <3>1. order \in Seq(Message) /\ order' = Append(order, m) /\ m \notin Accepted
      BY <1>1, <2>1 DEF TypeOK, Enqueue, Accepted
    <3> QED BY <3>1, PrecedesAppend, OlderIsPrecedes
  <2>2. CASE UNCHANGED order
    BY <2>2 DEF Older
  <2>3. UNCHANGED order \/ \E m \in Message : Enqueue(m)
    BY DEF Next, Talk, Delete, StartTask, TimerStep, Push, CacheMessage,
      CheckStopped, RequestUpdate, StartRun, EnterBatch, PollUnsaved, Roll,
      LeaveBatch, SaveRow, EndSave, ReleaseSaved, ReadClock, BatchInTime, BatchLate,
      GiveUp, UpdateVotes, NotifyWaiters, FlushAndWait, Stop, DeleteUnsaved,
      DeleteStored, InvalidMessage, PushSaved, PushUnsaved, vars, historyVars, fateVars
  <2> QED BY <2>1, <2>2, <2>3
<1>4. ASSUME NEW l \in Listener, snapshot'[l] = snapshot[l], snapshot[l].state = "done",
             NEW x, NEW y, NEW z, <<x, y>> \in Older', <<y, z>> \in Older',
             x \in Range(snapshot[l].messages), z \in Range(snapshot[l].messages)
      PROVE  y \in Range(snapshot[l].messages) \cup removed' \cup thrown'
  <2>1. z \in Accepted
    BY <1>4 DEF SnapshotsUnbroken
  <2>2. <<y, z>> \in Older
    BY <1>3, <1>4, <2>1
  <2>3. y \in Accepted
    BY <1>1, <2>2, OlderIsStrict DEF OrderInv, OrderParts
  <2>4. <<x, y>> \in Older
    BY <1>3, <1>4, <2>3
  <2> QED BY <1>2, <1>4, <2>2, <2>4 DEF SnapshotsUnbroken
<1>5. CASE UNCHANGED snapshot
  <2>1. ASSUME NEW l \in Listener, snapshot[l].state = "saved"
        PROVE  snapshot[l].messages = savedQueue'
    <3>1. timer.pc # "rotate"
      BY <1>1, <2>1 DEF LockHeld
    <3>2. savedQueue' = savedQueue
      BY <3>1
      DEF Next, Talk, Delete, StartTask, TimerStep, Push, CacheMessage, CheckStopped,
          RequestUpdate, Enqueue, StartRun, EnterBatch, PollUnsaved, Roll, LeaveBatch,
          SaveRow, EndSave, ReleaseSaved, ReadClock, BatchInTime, BatchLate, GiveUp,
          UpdateVotes, NotifyWaiters, FlushAndWait, Stop, DeleteUnsaved, DeleteStored,
          InvalidMessage, PushSaved, PushUnsaved, vars, queueVars, At
    <3> QED BY <2>1, <3>2 DEF SnapshotsUnbroken
  <2>2. ASSUME NEW l \in Listener, snapshot[l].state = "done"
        PROVE  Range(snapshot[l].messages) \subseteq Accepted'
    BY <1>2, <2>2 DEF SnapshotsUnbroken
  <2> QED BY <1>4, <1>5, <2>1, <2>2 DEF SnapshotsUnbroken
<1>6. ASSUME NEW k \in Listener, PushSaved(k) PROVE SnapshotsUnbroken'
  <2>1. /\ snapshot'[k].state = "saved" /\ snapshot'[k].messages = savedQueue
        /\ savedQueue' = savedQueue /\ \A l \in Listener : l # k => snapshot'[l] = snapshot[l]
    BY <1>1, <1>6 DEF PushSaved, queueVars
  <2>2. \A l \in Listener : l # k /\ snapshot'[l].state = "done" =>
          Range(snapshot'[l].messages) \subseteq Accepted'
    BY <1>2, <2>1 DEF SnapshotsUnbroken
  <2> QED BY <1>4, <2>1, <2>2 DEF SnapshotsUnbroken
<1>7. ASSUME NEW k \in Listener, PushUnsaved(k) PROVE SnapshotsUnbroken'
  <2>1. /\ snapshot[k].state = "saved" /\ snapshot'[k].state = "done"
        /\ snapshot'[k].messages = snapshot[k].messages \o unsavedQueue
        /\ \A l \in Listener : l # k => snapshot'[l] = snapshot[l]
        /\ UNCHANGED <<savedQueue, unsavedQueue, order, talker, rotating, removed, thrown>>
    BY <1>1, <1>7 DEF PushUnsaved, queueVars, timerVars, batchVars, historyVars, fateVars
  <2>2. Rotating = {}
    BY <1>1, <2>1 DEF LockHeld, RotatingInBatch, Rotating
  <2>3. Range(snapshot'[k].messages) = Recent
    BY <1>1, <2>1, <2>2, RangeConcatenation DEF SnapshotsUnbroken, Recent
  <2>4. Recent \subseteq Accepted
    BY <1>1, PlaceFacts DEF OrderInv, OrderParts, QueuesInOrder, Recent
  <2>5. Older' = Older /\ Accepted' = Accepted
    BY <2>1 DEF Older, Accepted
  <2>6. \A x, y : <<x, y>> \in Older /\ x \in Recent => y \in Recent \cup removed \cup thrown
    BY DEF OrderInv, OrderParts, RecentIsNewest
  <2>7. \A l \in Listener : l # k /\ snapshot'[l].state = "done" =>
          Range(snapshot'[l].messages) \subseteq Accepted'
    BY <1>2, <2>1 DEF SnapshotsUnbroken
  <2> QED BY <1>4, <2>1, <2>3, <2>4, <2>5, <2>6, <2>7 DEF SnapshotsUnbroken
<1>8. UNCHANGED snapshot \/ \E l \in Listener : PushSaved(l) \/ PushUnsaved(l)
  BY DEF Next, Talk, Delete, StartTask, TimerStep, Push, CacheMessage, CheckStopped,
         RequestUpdate, Enqueue, StartRun, EnterBatch, PollUnsaved, Roll, LeaveBatch,
         SaveRow, EndSave, ReleaseSaved, ReadClock, BatchInTime, BatchLate, GiveUp,
         UpdateVotes, NotifyWaiters, FlushAndWait, Stop, DeleteUnsaved, DeleteStored,
         InvalidMessage, vars, clientVars
<1> QED BY <1>5, <1>6, <1>7, <1>8

\* Between the oldest and the newest message a new listener is given no accepted
\* message is missing, though the timer thread moves messages from one queue to
\* the other while the listener waits for the monitor, and throws them away
\* without it.
THEOREM HistoryIsUnbroken == Spec => []NoSegmentedHistory
<1>1. Init => SnapshotsUnbroken
  BY DEF Init, SnapshotsUnbroken
<1>2. OrderInv /\ SnapshotsUnbroken => NoSegmentedHistory
  <2> SUFFICES ASSUME OrderInv, SnapshotsUnbroken, NEW l \in Listener,
                      NEW i \in DOMAIN order, NEW j \in DOMAIN order, NEW k \in DOMAIN order,
                      snapshot[l].state = "done", i < j, j < k,
                      {order[i], order[k]} \subseteq Range(snapshot[l].messages)
               PROVE  order[j] \in Range(snapshot[l].messages) \cup removed \cup thrown
    BY DEF NoSegmentedHistory
  <2>1. \A n \in DOMAIN order : order[n] \in Message
    BY LenProperties DEF OrderInv, BatchInv, TypeInv, TypeOK
  <2>2. <<order[i], order[j]>> \in Older /\ <<order[j], order[k]>> \in Older
    BY <2>1, OlderIsPrecedes DEF Precedes
  <2> QED BY <2>2 DEF SnapshotsUnbroken
<1> QED BY <1>1, <1>2, SnapshotStep, OrderInvariant, PTL DEF Spec
---------------------------------------------------------------------------
(* What becomes of a message that was handed to the data store.             *)

RowsAsSaved ==
  /\ DOMAIN table \subseteq attempted
  /\ \A m \in DOMAIN table : table[m] \in {RefOf[m], Deleted}

SavedInv == OrderInv /\ NoDanglingReference /\ RowsAsSaved /\ SavedOrExplained

\* The parent of the next message to save has gone before it: the message is
\* the oldest of those that wait, and its parent is older still.
LEMMA ParentIsGone ==
  ASSUME OrderInv, toSave # <<>>, RefOf[Head(toSave)] # NoRef
  PROVE  /\ RefOf[Head(toSave)] \in attempted \cup thrown \cup removed
         /\ RefOf[Head(toSave)] # Head(toSave)
<1> DEFINE h == Head(toSave)
<1>1. /\ TypeOK /\ AcceptedInOnePlace /\ toSave \in Seq(Message) /\ QueuesInOrder
      /\ OrderOfAcceptance
  BY DEF OrderInv, BatchInv, TypeInv, TypeOK, OrderParts
<1>2. /\ h \in Range(toSave) /\ Range(toSave) = Range(Tail(toSave)) \cup {h}
      /\ \A x \in Range(Tail(toSave)) : <<h, x>> \in Older
  BY <1>1, TailRange, TailInOrder DEF QueuesInOrder
<1>3. \A x \in Pending : x = h \/ <<h, x>> \in Older
  BY <1>1, <1>2, PlaceFacts DEF QueuesInOrder
<1>4. <<RefOf[h], h>> \in Older
  BY <1>1, <1>2, PlaceFacts DEF OrderInv, OrderParts, ParentsOlder
<1>5. RefOf[h] \in Accepted /\ RefOf[h] # h /\ <<h, RefOf[h]>> \notin Older
  BY <1>1, <1>4, OlderIsStrict
<1> QED BY <1>1, <1>3, <1>5 DEF AcceptedInOnePlace, Accepted

LEMMA SaveRowExplained ==
  ASSUME SavedInv, NEW isBusy \in BOOLEAN, SaveRow(isBusy)
  PROVE  RowsAsSaved' /\ SavedOrExplained'
<1> DEFINE h == Head(toSave)
<1>1. /\ TypeOK /\ toSave \in Seq(Message) /\ toSave # <<>> /\ h \in Message
      /\ attempted' = attempted \cup {h}
      /\ table' = IF isBusy THEN table ELSE InsertRow(table, h)
      /\ missed' = IF isBusy THEN missed \cup {h} ELSE missed
      /\ UNCHANGED <<thrown, removed, deleter>>
  BY HeadTailProperties
  DEF SavedInv, OrderInv, BatchInv, TypeInv, TypeOK, SaveRow, clientVars
<1>2. h \notin attempted
  <2>1. h \in Range(toSave)
    BY <1>1, TailRange
  <2> QED BY <2>1 DEF SavedInv, OrderInv, AcceptedInOnePlace, Pending, Hands
<1>3. /\ DOMAIN table \subseteq DOMAIN table' /\ DOMAIN table' \subseteq DOMAIN table \cup {h}
      /\ \A x \in DOMAIN table : table'[x] = table[x]
      /\ h \in DOMAIN table' => table'[h] = RefOf[h]
      /\ h \notin DOMAIN table' => \/ h \in missed'
                                   \/ RefOf[h] # NoRef /\ RefOf[h] \notin DOMAIN table
  <2>1. h \notin DOMAIN table
    BY <1>2 DEF SavedInv, RowsAsSaved
  <2>2. CASE table' = table
    BY <1>1, <2>1, <2>2 DEF InsertRow, Insertable
  <2>3. CASE table' # table
    <3>1. table' = [x \in DOMAIN table \cup {h} |-> IF x = h THEN RefOf[h] ELSE table[x]]
      BY <1>1, <2>3 DEF InsertRow
    <3> QED BY <2>1, <3>1
  <2> QED BY <2>2, <2>3
<1>4. RowsAsSaved'
  BY <1>1, <1>3 DEF SavedInv, RowsAsSaved
<1>5. ASSUME NEW m \in attempted' \ DOMAIN table'
      PROVE  \/ m \in missed'
             \/ deleter'[m] \in {"invalidate", "yes"}
             \/ RefOf[m] # NoRef /\ RefOf[m] \in thrown' \cup removed'
                                                  \cup (attempted' \ DOMAIN table')
  <2>1. CASE m = h
    <3>1. CASE h \in missed'
      BY <2>1, <3>1
    <3>2. CASE RefOf[h] # NoRef /\ RefOf[h] \notin DOMAIN table
      <4>1. RefOf[h] \in attempted \cup thrown \cup removed /\ RefOf[h] # h
        BY <1>1, <3>2, ParentIsGone DEF SavedInv
      <4> QED BY <1>1, <1>3, <2>1, <3>2, <4>1
    <3> QED BY <1>3, <1>5, <2>1, <3>1, <3>2
  <2>2. CASE m # h
    <3>1. m \in attempted \ DOMAIN table
      BY <1>1, <1>3, <1>5, <2>2
    <3>2. \A x \in attempted \ DOMAIN table : x \in attempted' \ DOMAIN table'
      BY <1>1, <1>2, <1>3
    <3>3. \/ m \in missed
          \/ deleter[m] \in {"invalidate", "yes"}
          \/ RefOf[m] # NoRef /\ RefOf[m] \in thrown \cup removed
                                               \cup (attempted \ DOMAIN table)
      BY <3>1 DEF SavedInv, SavedOrExplained
    <3> QED BY <1>1, <3>2, <3>3
  <2> QED BY <2>1, <2>2
<1> QED BY <1>4, <1>5 DEF SavedOrExplained

\* The rows that go with a deleted one refer to it, and referred to it from the
\* start: they have the deletion for an explanation.
LEMMA DeleteExplained ==
  ASSUME SavedInv, NEW m \in Message, DeleteStored(m)
  PROVE  RowsAsSaved' /\ SavedOrExplained'
<1> DEFINE redirected == RedirectReplies(table, m)
<1>1. /\ table \in Table /\ deleter \in [Message -> DeleterState] /\ deleter[m] = "store"
      /\ UNCHANGED <<attempted, missed, thrown, removed>>
      /\ table' \in {table, redirected, DeleteRow(redirected, m)}
      /\ table' = table \/ (m \in DOMAIN table => deleter'[m] = "invalidate")
      /\ deleter'[m] \in {"invalidate", "no"}
      /\ \A x \in Message : x # m => deleter'[x] = deleter[x]
      /\ m # NoRef /\ m # Deleted
  BY TableAssumption
  DEF SavedInv, OrderInv, BatchInv, TypeInv, TypeOK, DeleteStored, historyVars, fateVars
<1>2. /\ DOMAIN redirected = DOMAIN table
      /\ \A x \in DOMAIN table : redirected[x] \in {table[x], Deleted}
  BY DEF RedirectReplies
<1> HIDE DEF redirected
<1>3. /\ DOMAIN table' \subseteq DOMAIN table
      /\ \A x \in DOMAIN table' : table'[x] \in {table[x], Deleted}
      /\ \A x \in DOMAIN table \ DOMAIN table' :
           m \notin DOMAIN table' /\ table' # table /\ (x = m \/ table[x] = m)
  <2>1. CASE table' \in {table, redirected}
    BY <1>2, <2>1
  <2>2. CASE table' = DeleteRow(redirected, m) /\ table' # table
    <3>1. table' = [x \in DOMAIN table \ ({m} \cup Children(redirected, m)) |-> redirected[x]]
      BY <1>2, <2>2 DEF DeleteRow, Restrict
    <3> QED BY <1>1, <1>2, <2>2, <3>1 DEF Children
  <2> QED BY <1>1, <2>1, <2>2
<1>4. RowsAsSaved'
  BY <1>1, <1>3 DEF SavedInv, RowsAsSaved
<1>5. ASSUME NEW x \in attempted \ DOMAIN table'
      PROVE  \/ x \in missed
             \/ deleter'[x] \in {"invalidate", "yes"}
             \/ RefOf[x] # NoRef /\ RefOf[x] \in thrown \cup removed
                                                  \cup (attempted \ DOMAIN table')
  <2>1. CASE x \notin DOMAIN table
    <3>1. \/ x \in missed
          \/ deleter[x] \in {"invalidate", "yes"}
          \/ RefOf[x] # NoRef /\ RefOf[x] \in thrown \cup removed
                                               \cup (attempted \ DOMAIN table)
      BY <1>5, <2>1 DEF SavedInv, SavedOrExplained
    <3>2. x \in Message
      BY <1>5 DEF SavedInv, OrderInv, BatchInv, TypeInv, TypeOK
    <3> QED BY <1>1, <1>3, <3>1, <3>2
  <2>2. CASE x = m /\ x \in DOMAIN table
    BY <1>1, <1>3, <1>5, <2>2
  <2>3. CASE x # m /\ x \in DOMAIN table
    <3>1. table[x] = m /\ m \notin DOMAIN table' /\ table[x] \in {RefOf[x], Deleted}
      BY <1>3, <1>5, <2>3 DEF SavedInv, RowsAsSaved
    <3>2. RefOf[x] = m
      BY <1>1, <3>1
    <3>3. m \in DOMAIN table
      BY <1>1, <2>3, <3>1 DEF SavedInv, NoDanglingReference, ReferencesResolve
    <3> QED BY <1>1, <3>1, <3>2, <3>3 DEF SavedInv, RowsAsSaved
  <2> QED BY <2>1, <2>2, <2>3
<1> QED BY <1>1, <1>4, <1>5 DEF SavedOrExplained

LEMMA SavedStep == SavedInv /\ [Next]_vars => RowsAsSaved' /\ SavedOrExplained'
<1> SUFFICES ASSUME SavedInv, [Next]_vars PROVE RowsAsSaved' /\ SavedOrExplained'
  OBVIOUS
<1>1. deleter \in [Message -> DeleterState] /\ attempted \subseteq Message
  BY DEF SavedInv, OrderInv, BatchInv, TypeInv, TypeOK
<1>2. ASSUME UNCHANGED <<table, attempted, missed>>, thrown \subseteq thrown',
             removed \subseteq removed',
             \A m \in Message : deleter[m] \in {"invalidate", "yes"} =>
                                deleter'[m] \in {"invalidate", "yes"}
      PROVE  RowsAsSaved' /\ SavedOrExplained'
  BY <1>1, <1>2 DEF SavedInv, RowsAsSaved, SavedOrExplained
<1>3. ASSUME NEW m \in Message, DeleteUnsaved(m) \/ InvalidMessage(m)
      PROVE  RowsAsSaved' /\ SavedOrExplained'
  <2>1. UNCHANGED <<table, attempted, missed, thrown>> /\ removed \subseteq removed'
    BY <1>3 DEF DeleteUnsaved, InvalidMessage, storeVars, historyVars, fateVars
  <2>2. \A x \in Message : deleter[x] \in {"invalidate", "yes"} =>
                           deleter'[x] \in {"invalidate", "yes"}
    BY <1>1, <1>3 DEF DeleteUnsaved, InvalidMessage
  <2> QED BY <1>2, <2>1, <2>2
<1>4. CASE GiveUp
  BY <1>2, <1>4 DEF GiveUp, storeVars, clientVars
<1>5. CASE UNCHANGED <<table, fateVars, deleter>>
  BY <1>2, <1>5 DEF fateVars
<1>6. \/ UNCHANGED <<table, fateVars, deleter>>
      \/ \E m \in Message : DeleteUnsaved(m) \/ DeleteStored(m) \/ InvalidMessage(m)
      \/ \E isBusy \in BOOLEAN : SaveRow(isBusy)
      \/ GiveUp
  BY DEF Next, Talk, Delete, StartTask, TimerStep, Push, CacheMessage, CheckStopped,
     RequestUpdate, Enqueue, StartRun, EnterBatch, PollUnsaved, Roll, LeaveBatch,
     EndSave, ReleaseSaved, ReadClock, BatchInTime, BatchLate, UpdateVotes,
     NotifyWaiters, FlushAndWait, Stop, PushSaved, PushUnsaved, vars, storeVars,
     clientVars, historyVars
<1> QED BY <1>3, <1>4, <1>5, <1>6, SaveRowExplained, DeleteExplained

\* A message handed to the data store has its row, unless the store was busy,
\* its author deleted it, or the message it refers to has none: the batches of
\* the timer thread never bring a reply to the table before its parent.
THEOREM SavedOrItIsKnownWhy == Spec => []SavedOrExplained
<1>1. Init => RowsAsSaved /\ SavedOrExplained
  BY DEF Init, RowsAsSaved, SavedOrExplained
<1>2. OrderInv /\ NoDanglingReference /\ RowsAsSaved /\ SavedOrExplained => SavedInv
  BY DEF SavedInv
<1> QED BY <1>1, <1>2, SavedStep, OrderInvariant, ReferencesAlwaysResolve, PTL DEF Spec
---------------------------------------------------------------------------
(* The pins.  A vote holds its topic from save() on, and the timer gives back *)
(* one pin for a topic however many votes have asked for its update: that it *)
(* never gives back more needs a count of the votes that have not asked yet. *)

Asking(t) == {v \in VoteOfMe : RefOf[v] = t /\ talker[v] \in {"cached", "passed"}}

\* The pins on m that someone will still give back, or may hand on.
Needed(m) == Occurs(m, Pending \cup Range(toRelease)) + Occurs(m, updateQueue)
             + Occurs(talker[m], {"cached", "passed", "voted"})

PinsCover == \A m \in Message : /\ IsFiniteSet(Asking(m))
                                /\ pins[m] >= Needed(m) + Cardinality(Asking(m))

ReleasedOnce == IsInjective(toRelease) /\ Range(toRelease) \subseteq attempted

PinInv == TypeInv /\ AcceptedInOnePlace /\ PinsCover /\ ReleasedOnce

LEMMA OccursType == \A x, S : Occurs(x, S) \in {0, 1} /\ (Occurs(x, S) = 1 <=> x \in S)
BY DEF Occurs

LEMMA ReleasedOnceStep == PinInv /\ [Next]_vars => ReleasedOnce'
<1> SUFFICES ASSUME PinInv, [Next]_vars PROVE ReleasedOnce'
  OBVIOUS
<1>1. /\ toRelease \in Seq(Message) /\ toSave \in Seq(Message) /\ AcceptedInOnePlace
  BY DEF PinInv, TypeInv, TypeOK
<1>2. ASSUME NEW isBusy \in BOOLEAN, SaveRow(isBusy) PROVE ReleasedOnce'
  <2>1. /\ toSave # <<>> /\ toRelease' = Append(toRelease, Head(toSave))
        /\ attempted' = attempted \cup {Head(toSave)}
    BY <1>2 DEF SaveRow
  <2>2. Head(toSave) \in Message /\ Head(toSave) \notin Range(toRelease)
    <3>1. Head(toSave) \in Range(toSave) /\ Head(toSave) \in Message
      BY <1>1, <2>1, TailRange, HeadTailProperties
    <3> QED BY <1>1, <3>1 DEF AcceptedInOnePlace, Pending, Hands, PinInv, ReleasedOnce
  <2> QED BY <1>1, <2>1, <2>2, AppendRange DEF PinInv, ReleasedOnce
<1>3. CASE ReleaseSaved
  BY <1>1, <1>3, TailRange DEF ReleaseSaved, historyVars, fateVars, PinInv, ReleasedOnce
<1>4. \/ UNCHANGED <<toRelease, attempted>>
      \/ ReleaseSaved
      \/ \E isBusy \in BOOLEAN : SaveRow(isBusy)
  BY DEF Next, Talk, Delete, StartTask, TimerStep, Push, CacheMessage, CheckStopped,
     RequestUpdate, Enqueue, StartRun, EnterBatch, PollUnsaved, Roll, LeaveBatch,
     EndSave, ReadClock, BatchInTime, BatchLate, GiveUp, UpdateVotes, NotifyWaiters,
     FlushAndWait, Stop, DeleteUnsaved, DeleteStored, InvalidMessage, PushSaved,
     PushUnsaved, vars, timerVars, batchVars, historyVars, fateVars
<1> QED BY <1>2, <1>3, <1>4 DEF PinInv, ReleasedOnce

\* The request thread: the pins of save() pass to the queue and to the update.
LEMMA TalkKeepsPins ==
  ASSUME PinInv, NEW m \in Message,
         CacheMessage(m) \/ CheckStopped(m) \/ RequestUpdate(m) \/ Enqueue(m)
  PROVE  PinsCover'
<1>1. /\ talker \in [Message -> TalkerState] /\ pins \in [Message -> Int]
      /\ unsavedQueue \in Seq(Message) /\ VoteOfMe \subseteq Message
      /\ \A v \in VoteOfMe : RefOf[v] \in Message \ VoteOfMe
  BY QueueAssumption DEF PinInv, TypeInv, TypeOK
<1>2. /\ \A x \in Message : x # m => talker'[x] = talker[x]
      /\ UNCHANGED <<toRelease, toSave, rotating>>
  BY <1>1
  DEF CacheMessage, CheckStopped, RequestUpdate, Enqueue, timerVars, batchVars
<1>3. ASSUME NEW x \in Message
      PROVE  /\ IsFiniteSet(Asking(x)) /\ Cardinality(Asking(x)) \in Nat
             /\ pins[x] \in Int /\ Needed(x) \in 0..3
             /\ pins[x] >= Needed(x) + Cardinality(Asking(x))
             /\ Needed(x) = Occurs(x, Pending \cup Range(toRelease)) + Occurs(x, updateQueue)
                            + Occurs(talker[x], {"cached", "passed", "voted"})
             /\ Needed(x)' = Occurs(x, Pending' \cup Range(toRelease'))
                             + Occurs(x, updateQueue')
                             + Occurs(talker'[x], {"cached", "passed", "voted"})
  <2>1. /\ Needed(x) = Occurs(x, Pending \cup Range(toRelease)) + Occurs(x, updateQueue)
                       + Occurs(talker[x], {"cached", "passed", "voted"})
        /\ Needed(x)' = Occurs(x, Pending' \cup Range(toRelease'))
                        + Occurs(x, updateQueue')
                        + Occurs(talker'[x], {"cached", "passed", "voted"})
    BY DEF Needed
  <2>2. /\ IsFiniteSet(Asking(x)) /\ pins[x] >= Needed(x) + Cardinality(Asking(x))
    BY DEF PinInv, PinsCover
  <2>3. Needed(x) \in 0..3
    <3>1. /\ Occurs(x, Pending \cup Range(toRelease)) \in {0, 1}
          /\ Occurs(x, updateQueue) \in {0, 1}
          /\ Occurs(talker[x], {"cached", "passed", "voted"}) \in {0, 1}
      BY OccursType
    <3> QED BY <2>1, <3>1
  <2>4. Cardinality(Asking(x)) \in Nat
    BY <2>2, FS_CardinalityType
  <2> QED BY <1>1, <2>1, <2>2, <2>3, <2>4
<1>4. \A x \in Message : /\ m \notin Asking(x) /\ m \notin Asking(x)' => Asking(x)' = Asking(x)
                         /\ m \in Asking(x)' => Asking(x)' = Asking(x) \cup {m}
                         /\ m \notin Asking(x)' => Asking(x)' = Asking(x) \ {m}
  BY <1>1, <1>2 DEF Asking
<1>5. CASE CacheMessage(m)
  <2>1. /\ talker[m] = "idle" /\ talker'[m] = "cached"
        /\ Pending' = Pending /\ UNCHANGED updateQueue
        /\ \A x \in Message : pins'[x] = IF x \in Holds(m) THEN pins[x] + 1 ELSE pins[x]
    BY <1>1, <1>5 DEF CacheMessage, queueVars, timerVars, batchVars, Pending, Hands
  <2>2. ASSUME NEW x \in Message
        PROVE  IsFiniteSet(Asking(x)') /\ pins'[x] >= Needed(x)' + Cardinality(Asking(x)')
    <3>1. CASE x = m
      <4>1. Asking(x)' = Asking(x)
        BY <1>1, <1>4, <3>1 DEF Asking
      <4>2. Needed(x)' = Needed(x) + 1
        BY <1>2, <1>3, <2>1, <3>1, OccursType
      <4> QED BY <1>3, <2>1, <3>1, <4>1, <4>2 DEF Holds
    <3>2. CASE x # m /\ m \in VoteOfMe /\ RefOf[m] = x
      <4>1. Asking(x)' = Asking(x) \cup {m} /\ m \notin Asking(x)
        BY <1>1, <1>4, <2>1, <3>2 DEF Asking
      <4>2. IsFiniteSet(Asking(x)') /\ Cardinality(Asking(x)') = Cardinality(Asking(x)) + 1
        BY <1>3, <4>1, FS_AddElement
      <4>3. Needed(x)' = Needed(x)
        BY <1>2, <1>3, <2>1, <3>2, OccursType
      <4> QED BY <1>3, <2>1, <3>2, <4>2, <4>3 DEF Holds
    <3>3. CASE x # m /\ ~(m \in VoteOfMe /\ RefOf[m] = x)
      <4>1. Asking(x)' = Asking(x)
        BY <1>4, <3>3 DEF Asking
      <4>2. Needed(x)' = Needed(x)
        BY <1>2, <1>3, <2>1, <3>3, OccursType
      <4> QED BY <1>3, <2>1, <3>3, <4>1, <4>2 DEF Holds
    <3> QED BY <3>1, <3>2, <3>3
  <2> QED BY <2>2 DEF PinsCover
<1>6. CASE CheckStopped(m)
  <2>1. /\ talker[m] = "cached" /\ talker'[m] \in {"refused", "passed"}
        /\ Pending' = Pending /\ UNCHANGED <<updateQueue, pins>>
    BY <1>1, <1>6 DEF CheckStopped, queueVars, timerVars, batchVars, Pending, Hands
  <2>2. ASSUME NEW x \in Message
        PROVE  IsFiniteSet(Asking(x)') /\ pins'[x] >= Needed(x)' + Cardinality(Asking(x)')
    <3>1. Needed(x)' <= Needed(x) /\ Needed(x)' \in Nat
      BY <1>2, <1>3, <2>1, OccursType
    <3>2. Asking(x)' = Asking(x) \/ (m \in Asking(x) /\ Asking(x)' = Asking(x) \ {m})
      BY <1>4, <2>1 DEF Asking
    <3>3. /\ IsFiniteSet(Asking(x)') /\ Cardinality(Asking(x)') \in Nat
          /\ Cardinality(Asking(x)') <= Cardinality(Asking(x))
      <4>1. CASE Asking(x)' = Asking(x)
        BY <1>3, <4>1
      <4>2. CASE m \in Asking(x) /\ Asking(x)' = Asking(x) \ {m}
        <5>1. /\ IsFiniteSet(Asking(x) \ {m})
              /\ Cardinality(Asking(x) \ {m}) = Cardinality(Asking(x)) - 1
          BY <1>3, <4>2, FS_RemoveElement
        <5>2. Cardinality(Asking(x)') \in Nat
          BY <4>2, <5>1, FS_CardinalityType
        <5> QED BY <1>3, <4>2, <5>1, <5>2
      <4> QED BY <3>2, <4>1, <4>2
    <3> QED BY <1>3, <2>1, <3>1, <3>3
  <2> QED BY <2>2 DEF PinsCover
<1>7. CASE RequestUpdate(m)
  <2>1. /\ talker[m] = "passed" /\ talker'[m] = "voted" /\ m \in VoteOfMe
        /\ Pending' = Pending /\ updateQueue' = updateQueue \cup {RefOf[m]} /\ UNCHANGED pins
    BY <1>1, <1>7 DEF RequestUpdate, queueVars, timerVars, batchVars, Pending, Hands
  <2>2. ASSUME NEW x \in Message
        PROVE  IsFiniteSet(Asking(x)') /\ pins'[x] >= Needed(x)' + Cardinality(Asking(x)')
    <3>1. CASE RefOf[m] = x
      <4>1. m \in Asking(x) /\ Asking(x)' = Asking(x) \ {m}
        BY <1>4, <2>1, <3>1 DEF Asking
      <4>2. IsFiniteSet(Asking(x)') /\ Cardinality(Asking(x)') = Cardinality(Asking(x)) - 1
        BY <1>3, <4>1, FS_RemoveElement
      <4>3. Needed(x)' <= Needed(x) + 1 /\ Needed(x)' \in Nat
        BY <1>2, <1>3, <2>1, <3>1, OccursType
      <4> QED BY <1>3, <2>1, <4>2, <4>3
    <3>2. CASE RefOf[m] # x
      <4>1. Asking(x)' = Asking(x)
        BY <1>4, <3>2 DEF Asking
      <4>2. Needed(x)' = Needed(x)
        BY <1>2, <1>3, <2>1, <3>2, OccursType
      <4> QED BY <1>3, <2>1, <4>1, <4>2
    <3> QED BY <3>1, <3>2
  <2> QED BY <2>2 DEF PinsCover
<1>8. CASE Enqueue(m)
  <2>1. /\ talker[m] = (IF m \in VoteOfMe THEN "voted" ELSE "passed")
        /\ talker'[m] = "accepted" /\ UNCHANGED <<updateQueue, pins>>
        /\ unsavedQueue' = Append(unsavedQueue, m)
    BY <1>1, <1>8 DEF Enqueue, Added, queueVars
  <2>2. Pending' = Pending \cup {m}
    BY <1>1, <1>2, <2>1, AppendRange DEF Pending, Hands
  <2>3. ASSUME NEW x \in Message
        PROVE  IsFiniteSet(Asking(x)') /\ pins'[x] >= Needed(x)' + Cardinality(Asking(x)')
    <3>1. Asking(x)' = Asking(x)
      BY <1>4, <2>1 DEF Asking
    <3>2. Needed(x)' <= Needed(x) /\ Needed(x)' \in Nat
      BY <1>2, <1>3, <2>1, <2>2, OccursType
    <3> QED BY <1>3, <2>1, <3>1, <3>2
  <2> QED BY <2>3 DEF PinsCover
<1> QED BY <1>5, <1>6, <1>7, <1>8

\* Only Enqueue brings a message to the queue, and nothing comes back from the
\* data store: every other step moves messages on, or takes them away.
LEMMA OnlyEnqueueAdds ==
  ASSUME TypeInv, AcceptedInOnePlace, [Next]_vars, \A m \in Message : ~Enqueue(m)
  PROVE  /\ Range(unsavedQueue') \subseteq Range(unsavedQueue)
         /\ Pending' \subseteq Pending
         /\ Pending' \cup Range(toRelease') \subseteq Pending \cup Range(toRelease)
<1> DEFINE Goal == /\ Range(unsavedQueue') \subseteq Range(unsavedQueue)
                   /\ Pending' \subseteq Pending
                   /\ Pending' \cup Range(toRelease')
                        \subseteq Pending \cup Range(toRelease)
<1>1. /\ unsavedQueue \in Seq(Message) /\ toSave \in Seq(Message)
      /\ toRelease \in Seq(Message)
      /\ rotating \in Message \cup {NoMessage} /\ NoMessage \notin Message
      /\ IsInjective(unsavedQueue)
  BY QueueAssumption DEF TypeInv, TypeOK, AcceptedInOnePlace
<1>2. CASE PollUnsaved
  <2>1. /\ Range(unsavedQueue) = Range(unsavedQueue') \cup {rotating'}
        /\ UNCHANGED <<toSave, toRelease>>
    BY <1>1, <1>2, TailRange DEF PollUnsaved, Polled
  <2> QED BY <2>1 DEF Pending, Hands
<1>3. CASE Roll
  <2>1. /\ rotating \in Message /\ rotating' = NoMessage
        /\ Range(toSave') = Range(toSave) \cup {rotating}
        /\ UNCHANGED <<unsavedQueue, toRelease>>
    BY <1>1, <1>3, AppendRange DEF Roll, Batched
  <2> QED BY <1>1, <2>1 DEF Pending, Hands
<1>4. ASSUME NEW isBusy \in BOOLEAN, SaveRow(isBusy) PROVE Goal
  <2>1. Head(toSave) \in Message
    BY <1>1, <1>4, HeadTailProperties DEF SaveRow
  <2>2. /\ Range(toSave) = Range(toSave') \cup {Head(toSave)}
        /\ Range(toRelease') = Range(toRelease) \cup {Head(toSave)}
        /\ UNCHANGED <<unsavedQueue, rotating>>
    BY <1>1, <1>4, <2>1, TailRange, AppendRange DEF SaveRow, queueVars
  <2> QED BY <2>2 DEF Pending, Hands
<1>5. CASE ReleaseSaved
  <2>1. /\ Range(toRelease') \subseteq Range(toRelease)
        /\ UNCHANGED <<unsavedQueue, toSave, rotating>>
    BY <1>1, <1>5, TailRange DEF ReleaseSaved, queueVars
  <2> QED BY <2>1 DEF Pending, Hands
<1>6. CASE GiveUp
  <2>1. Range(unsavedQueue') = {} /\ UNCHANGED <<toSave, rotating, toRelease>>
    BY <1>6 DEF GiveUp, batchVars, Range
  <2> QED BY <2>1 DEF Pending, Hands
<1>7. ASSUME NEW m \in Message, DeleteUnsaved(m) PROVE Goal
  <2>1. UNCHANGED <<toSave, rotating, toRelease>>
    BY <1>7 DEF DeleteUnsaved, timerVars, batchVars
  <2>2. Range(unsavedQueue') \subseteq Range(unsavedQueue)
    BY <1>1, <1>7, RemoveAtRange, LenProperties DEF DeleteUnsaved
  <2> QED BY <2>1, <2>2 DEF Pending, Hands
<1>8. CASE UNCHANGED <<unsavedQueue, toSave, rotating, toRelease>>
  BY <1>8 DEF Pending, Hands
<1>9. \/ UNCHANGED <<unsavedQueue, toSave, rotating, toRelease>>
      \/ PollUnsaved \/ Roll \/ ReleaseSaved \/ GiveUp
      \/ \E isBusy \in BOOLEAN : SaveRow(isBusy)
      \/ \E m \in Message : DeleteUnsaved(m)
  BY DEF Next, Talk, Delete, StartTask, TimerStep, Push, CacheMessage, CheckStopped,
     RequestUpdate, StartRun, EnterBatch, LeaveBatch, EndSave, ReadClock,
     BatchInTime, BatchLate, UpdateVotes, NotifyWaiters, FlushAndWait, Stop,
     DeleteStored, InvalidMessage, PushSaved, PushUnsaved, vars, queueVars,
     timerVars, batchVars
<1> QED BY <1>2, <1>3, <1>4, <1>5, <1>6, <1>7, <1>8, <1>9

\* The other threads: what is released next was held before.
LEMMA OthersKeepPins ==
  ASSUME PinInv, [Next]_vars,
         \A m \in Message : ~(\/ CacheMessage(m) \/ CheckStopped(m)
                              \/ RequestUpdate(m) \/ Enqueue(m))
  PROVE  PinsCover'
<1>1. /\ pins \in [Message -> Int] /\ toRelease \in Seq(Message)
      /\ AcceptedInOnePlace /\ TypeInv
  BY DEF PinInv, TypeInv, TypeOK
<1>2. UNCHANGED talker
  BY DEF Next, Talk, Delete, StartTask, TimerStep, Push, StartRun, EnterBatch,
     PollUnsaved, Roll, LeaveBatch, SaveRow, EndSave, ReleaseSaved, ReadClock,
     BatchInTime, BatchLate, GiveUp, UpdateVotes, NotifyWaiters, FlushAndWait, Stop,
     DeleteUnsaved, DeleteStored, InvalidMessage, PushSaved, PushUnsaved, vars,
     clientVars
<1>3. ASSUME NEW x \in Message
      PROVE  /\ IsFiniteSet(Asking(x)) /\ Cardinality(Asking(x)) \in Nat
             /\ Asking(x)' = Asking(x)
             /\ pins[x] \in Int
             /\ pins[x] >= Needed(x) + Cardinality(Asking(x))
  <2>1. /\ IsFiniteSet(Asking(x))
        /\ pins[x] >= Needed(x) + Cardinality(Asking(x))
    BY DEF PinInv, PinsCover
  <2> QED BY <1>1, <1>2, <2>1, FS_CardinalityType DEF Asking
<1>4. Pending' \cup Range(toRelease') \subseteq Pending \cup Range(toRelease)
  BY <1>1, OnlyEnqueueAdds
<1>5. SUFFICES ASSUME NEW x \in Message PROVE pins'[x] >= Needed(x)' + Cardinality(Asking(x))
  BY <1>3 DEF PinsCover
<1> DEFINE a == Occurs(x, Pending \cup Range(toRelease))
           b == Occurs(x, updateQueue)
           c == Occurs(talker[x], {"cached", "passed", "voted"})
<1>6. /\ a \in {0, 1} /\ b \in {0, 1} /\ c \in {0, 1}
      /\ a' \in {0, 1} /\ b' \in {0, 1} /\ a' <= a /\ c' = c
  BY <1>2, <1>4 DEF Occurs
<1>7. Needed(x) = a + b + c /\ Needed(x)' = a' + b' + c'
  BY DEF Needed
<1>8. CASE ReleaseSaved
  <2>1. UNCHANGED updateQueue /\ b' = b
    BY <1>8 DEF ReleaseSaved, queueVars
  <2>2. CASE x = Head(toRelease)
    <3>1. /\ x \in Range(toRelease) /\ x \notin Range(toRelease')
          /\ x \in attempted
      BY <1>1, <1>8, <2>2, TailRange DEF ReleaseSaved, PinInv, ReleasedOnce
    <3>2. Pending' = Pending
      BY <1>8 DEF ReleaseSaved, Pending, Hands, queueVars
    <3>3. x \notin Pending
      BY <3>1, <1>1 DEF AcceptedInOnePlace
    <3>4. a = 1 /\ a' = 0
      BY <3>1, <3>2, <3>3 DEF Occurs
    <3>5. pins'[x] = pins[x] - 1
      BY <1>1, <1>8, <2>2 DEF ReleaseSaved
    <3> QED BY <1>3, <1>6, <1>7, <2>1, <3>4, <3>5
  <2>3. CASE x # Head(toRelease)
    <3>1. pins'[x] = pins[x]
      BY <1>1, <1>8, <2>3 DEF ReleaseSaved
    <3> QED BY <1>3, <1>6, <1>7, <2>1, <3>1
  <2> QED BY <2>2, <2>3
<1>9. CASE UpdateVotes
  <2>1. b' = 0 /\ pins'[x] = pins[x] - b
    BY <1>3, <1>9 DEF UpdateVotes, Occurs
  <2> QED BY <1>3, <1>6, <1>7, <2>1
<1>10. CASE UNCHANGED <<pins, updateQueue>>
  <2>1. b' = b /\ pins'[x] = pins[x]
    BY <1>10
  <2> QED BY <1>3, <1>6, <1>7, <2>1
<1>11. ReleaseSaved \/ UpdateVotes \/ UNCHANGED <<pins, updateQueue>>
  BY DEF Next, Talk, Delete, StartTask, TimerStep, Push, StartRun, EnterBatch,
     PollUnsaved, Roll, LeaveBatch, SaveRow, EndSave, ReadClock, BatchInTime,
     BatchLate, GiveUp, NotifyWaiters, FlushAndWait, Stop, DeleteUnsaved,
     DeleteStored, InvalidMessage, PushSaved, PushUnsaved, vars, queueVars
<1> QED BY <1>8, <1>9, <1>10, <1>11

LEMMA PinInit == Init => PinsCover /\ ReleasedOnce
<1> SUFFICES ASSUME Init PROVE PinsCover /\ ReleasedOnce
  OBVIOUS
<1>1. toRelease = <<>> /\ Range(toRelease) = {} /\ IsInjective(toRelease)
  BY DEF Init, Range, IsInjective
<1>2. ASSUME NEW x \in Message
      PROVE  IsFiniteSet(Asking(x)) /\ pins[x] >= Needed(x) + Cardinality(Asking(x))
  <2>1. talker[x] \notin {"cached", "passed", "voted"}
    BY DEF Init
  <2>2. Asking(x) = {}
    BY QueueAssumption DEF Init, Asking
  <2>3. Pending = {} /\ updateQueue = {} /\ pins[x] = 0
    BY DEF Init, Pending, Hands, Range
  <2>4. Needed(x) = 0
    BY <1>1, <2>1, <2>3 DEF Needed, Occurs
  <2> QED BY <2>2, <2>3, <2>4, FS_EmptySet
<1> QED BY <1>1, <1>2 DEF PinsCover, ReleasedOnce

\* The queue gives back no pin it does not hold: a message is pinned in the
\* cache until it has been handed to the data store and released, and a vote
\* topic until its update, however many votes asked for the same one.
THEOREM NeverReleasedTooOften == Spec => []PinsCoverReleases
<1>1. PinInv /\ [Next]_vars => PinsCover'
  BY TalkKeepsPins, OthersKeepPins
<1>2. PinInv => PinsCoverReleases
  <2> SUFFICES ASSUME PinInv, NEW x \in Message PROVE pins[x] >= Needed(x)
    BY DEF PinsCoverReleases, Needed
  <2>1. /\ IsFiniteSet(Asking(x))
        /\ pins[x] >= Needed(x) + Cardinality(Asking(x)) /\ pins[x] \in Int
    BY DEF PinInv, PinsCover, TypeInv, TypeOK
  <2>2. Cardinality(Asking(x)) \in Nat
    BY <2>1, FS_CardinalityType
  <2>3. Needed(x) \in Int
    BY DEF Needed, Occurs
  <2> QED BY <2>1, <2>2, <2>3
<1>3. TypeInv /\ AcceptedInOnePlace /\ PinsCover /\ ReleasedOnce => PinInv
  BY DEF PinInv
<1> QED BY <1>1, <1>2, <1>3, PinInit, ReleasedOnceStep, AcceptedPlaceInvariant, PTL
        DEF Spec
---------------------------------------------------------------------------
(* The last run.  The test "the queue is empty" and the judgement of the run *)
(* are several statements apart: what links them is that a batch that was not *)
(* full has emptied the queue, and that what came later nobody in stop() owns. *)

OwedAccepted == \A w \in Waiter : owed[w] \subseteq Accepted

FinalIsScheduled ==
  tasks["final"] > 0 \/ timer.task = "final" \/ timer.pc = "cancelled" => stopped

\* After a batch that was not full nothing a caller of stop() waits for is left
\* in the queue.
LastBatchTaken ==
  /\ timer.task = "final" /\ timer.pc \in {"save", "release"}
  /\ timer.rolled < BatchNumber
  => \A w \in Stopper : owed[w] \cap Range(unsavedQueue) = {}

LastRunJudged ==
  \/ timer.task = "final" /\ timer.pc \in {"clock", "votes", "notify"}
  \/ timer.pc = "cancelled"
  => timer.usedTime = 2 \/ \A w \in Stopper : owed[w] \cap Pending = {}

StopParts == OwedAccepted /\ FinalIsScheduled /\ LastBatchTaken /\ LastRunJudged
StopInv == BatchInv /\ AcceptedInOnePlace /\ StopParts

LEMMA StopInit == Init => StopParts
BY DEF Init, Resting, StopParts, OwedAccepted, FinalIsScheduled, LastBatchTaken,
       LastRunJudged

LEMMA PendingIsAccepted == AcceptedInOnePlace => Pending \subseteq Accepted
BY DEF AcceptedInOnePlace, Accepted

\* A message accepted meanwhile is none of those a thread waits for.
LEMMA EnqueueKeepsStop ==
  ASSUME StopInv, NEW m \in Message, Enqueue(m) PROVE StopParts'
<1>1. /\ unsavedQueue \in Seq(Message) /\ talker \in [Message -> TalkerState]
      /\ Stopper \subseteq Waiter
  BY DEF StopInv, BatchInv, TypeInv, TypeOK, Waiter
<1>2. /\ m \notin Accepted /\ Accepted \subseteq Accepted'
      /\ UNCHANGED <<owed, tasks, timer, stopped, toSave, rotating>>
  BY <1>1 DEF Enqueue, Accepted, timerVars, batchVars, waitVars
<1>3. Range(unsavedQueue') = Range(unsavedQueue) \cup {m} /\ Pending' = Pending \cup {m}
  <2>1. Range(unsavedQueue') = Range(unsavedQueue) \cup {m}
    BY <1>1, AppendRange DEF Enqueue, Added
  <2> QED BY <1>2, <2>1 DEF Pending, Hands
<1>4. \A w \in Waiter : owed[w] \subseteq Accepted
  BY DEF StopInv, StopParts, OwedAccepted
<1>5. \A w \in Stopper : m \notin owed[w]
  BY <1>1, <1>2, <1>4
<1>6. OwedAccepted' /\ FinalIsScheduled'
  BY <1>2, <1>4 DEF StopInv, StopParts, OwedAccepted, FinalIsScheduled
<1>7. LastBatchTaken' /\ LastRunJudged'
  BY <1>2, <1>3, <1>5 DEF StopInv, StopParts, LastBatchTaken, LastRunJudged
<1> QED BY <1>6, <1>7 DEF StopParts

\* A thread that waits owns what is pending now; the first stop() schedules the
\* last run, so no last run has begun before it.
LEMMA WaitKeepsStop ==
  ASSUME StopInv, NEW w \in Waiter,
         (w \in Flusher /\ FlushAndWait(w)) \/ (w \in Stopper /\ Stop(w))
  PROVE  StopParts'
<1>1. /\ owed \in [Waiter -> SUBSET Message]
      /\ tasks \in [{"flush", "final"} -> Nat]
      /\ Stopper \subseteq Waiter /\ Flusher \cap Stopper = {}
      /\ Pending \subseteq Accepted
  BY PendingIsAccepted, QueueAssumption
  DEF StopInv, BatchInv, TypeInv, TypeOK, Waiter
<1>2. UNCHANGED <<timer, unsavedQueue, toSave, rotating, talker>>
  BY DEF FlushAndWait, Stop, queueVars, batchVars, clientVars
<1>3. Pending' = Pending /\ Accepted' = Accepted
  BY <1>2 DEF Pending, Hands, Accepted
<1>4. OwedAccepted /\ FinalIsScheduled /\ LastBatchTaken /\ LastRunJudged
  BY DEF StopInv, StopParts
<1>5. OwedAccepted'
  <2>1. owed' \in {owed, [owed EXCEPT ![w] = Pending]}
    BY DEF FlushAndWait, Stop, ReturnAtOnce, StartWaiting
  <2>2. \A x \in Waiter : owed'[x] \in {owed[x], Pending}
    BY <1>1, <2>1
  <2> QED BY <1>1, <1>3, <1>4, <2>2 DEF OwedAccepted
<1>6. CASE UNCHANGED <<owed, tasks>> /\ (stopped => stopped')
  BY <1>2, <1>3, <1>4, <1>5, <1>6
  DEF StopParts, FinalIsScheduled, LastBatchTaken, LastRunJudged
<1>7. CASE w \in Flusher /\ StartWaiting(w, "flush") /\ UNCHANGED stopped
  <2>1. \A x \in Stopper : owed'[x] = owed[x]
    BY <1>1, <1>7 DEF StartWaiting
  <2>2. tasks'["final"] = tasks["final"]
    BY <1>1, <1>7 DEF StartWaiting
  <2> QED BY <1>2, <1>3, <1>4, <1>5, <1>7, <2>1, <2>2
          DEF StopParts, FinalIsScheduled, LastBatchTaken, LastRunJudged
<1>8. CASE ~stopped /\ stopped'
  <2>1. timer'.task # "final" /\ timer'.pc # "cancelled"
    BY <1>2, <1>4, <1>8 DEF FinalIsScheduled
  <2> QED BY <1>5, <1>8, <2>1
          DEF StopParts, FinalIsScheduled, LastBatchTaken, LastRunJudged
<1> QED BY <1>6, <1>7, <1>8 DEF FlushAndWait, Stop, ReturnAtOnce

\* The statements of a run.
LEMMA RunKeepsStop ==
  ASSUME StopInv, StartTask \/ TimerStep, [Next]_vars PROVE StopParts'
<1>1. /\ timer \in TimerState /\ TypeInv /\ AcceptedInOnePlace /\ BatchAt
      /\ tasks \in [{"flush", "final"} -> Nat] /\ BatchNumber \in Nat
      /\ OwedAccepted /\ FinalIsScheduled /\ LastBatchTaken /\ LastRunJudged
  BY QueueAssumption DEF StopInv, StopParts, BatchInv, TypeInv, TypeOK
<1>1a. timer.pc \notin {"rotate", "save"} => Pending = Range(unsavedQueue)
  <2>1. Range(<<>>) = {}
    BY DEF Range
  <2> QED BY <1>1, <2>1 DEF TypeInv, RotatingInBatch, BatchAt, Pending, Hands
<1>2. UNCHANGED <<owed, stopped, talker>>
  BY DEF StartTask, TimerStep, StartRun, EnterBatch, PollUnsaved, Roll, LeaveBatch,
     SaveRow, EndSave, ReleaseSaved, ReadClock, BatchInTime, BatchLate, GiveUp,
     UpdateVotes, NotifyWaiters, historyVars, waitVars, clientVars
<1>3. /\ Range(unsavedQueue') \subseteq Range(unsavedQueue)
      /\ Pending' \subseteq Pending
  <2>1. ASSUME NEW m \in Message PROVE ~Enqueue(m)
    <3>1. talker \in [Message -> TalkerState]
      BY <1>1 DEF TypeInv, TypeOK
    <3> QED BY <1>2, <3>1 DEF Enqueue
  <2> QED BY <1>1, <2>1, OnlyEnqueueAdds
<1>4. OwedAccepted'
  BY <1>1, <1>2 DEF OwedAccepted, Accepted
<1>5. ASSUME UNCHANGED tasks, timer'.task = timer.task,
             timer'.pc = timer.pc, timer'.rolled = timer.rolled,
             timer'.usedTime = timer.usedTime
      PROVE  StopParts'
  BY <1>1, <1>2, <1>3, <1>4, <1>5
  DEF StopParts, FinalIsScheduled, LastBatchTaken, LastRunJudged
<1>6. ASSUME UNCHANGED tasks, timer'.task = timer.task,
             timer'.pc \in {"poll", "rotate"}
      PROVE  StopParts'
  BY <1>1, <1>2, <1>4, <1>6
  DEF StopParts, FinalIsScheduled, LastBatchTaken, LastRunJudged
<1>7. ASSUME NEW task \in {"periodic", "flush", "final"}, StartRun(task)
      PROVE  StopParts'
  <2>1. timer'.task = task /\ timer'.pc \in {"votes", "poll"}
    BY <1>7 DEF StartRun
  <2>2. FinalIsScheduled'
    <3>1. task = "final" => tasks["final"] > 0
      BY <1>7 DEF StartRun, Due
    <3>2. tasks'["final"] > 0 => tasks["final"] > 0
      BY <1>1, <1>7 DEF StartRun
    <3> QED BY <1>1, <1>2, <2>1, <3>1, <3>2 DEF FinalIsScheduled
  <2>3. CASE timer'.pc = "votes"
    <3>1. unsavedQueue = <<>> /\ timer.pc = "idle"
      BY <1>7, <2>3 DEF StartRun, NothingToSave, At
    <3>2. Pending = {}
      BY <1>1a, <3>1 DEF Range
    <3> QED BY <1>3, <1>4, <2>2, <2>3, <3>2 DEF StopParts, LastBatchTaken, LastRunJudged
  <2>4. CASE timer'.pc = "poll"
    BY <1>4, <2>2, <2>4 DEF StopParts, LastBatchTaken, LastRunJudged
  <2> QED BY <2>1, <2>3, <2>4
<1>8. CASE EnterBatch
  BY <1>1, <1>6, <1>8 DEF EnterBatch, TimerState
<1>9. CASE Roll
  <2>1. timer'.pc = "rotate" /\ timer'.task = timer.task /\ UNCHANGED tasks
    BY <1>1, <1>9 DEF Roll, TimerState, At
  <2> QED BY <1>6, <2>1
<1>10. CASE PollUnsaved \/ ReleaseSaved \/ \E isBusy \in BOOLEAN : SaveRow(isBusy)
  BY <1>5, <1>10 DEF PollUnsaved, ReleaseSaved, SaveRow
<1>11. CASE LeaveBatch
  <2>1. /\ timer'.pc = "save" /\ timer'.task = timer.task
        /\ timer'.rolled = timer.rolled /\ UNCHANGED tasks
        /\ timer.rolled = BatchNumber \/ unsavedQueue = <<>>
    BY <1>1, <1>11, GoToType DEF LeaveBatch
  <2>2. timer.rolled < BatchNumber => Range(unsavedQueue') = {}
    <3>1. Range(<<>>) = {}
      BY DEF Range
    <3> QED BY <1>1, <1>3, <2>1, <3>1 DEF TimerState
  <2> QED BY <1>1, <1>2, <1>4, <2>1, <2>2
          DEF StopParts, FinalIsScheduled, LastBatchTaken, LastRunJudged
<1>12. CASE EndSave
  <2>1. /\ timer'.pc = "release" /\ timer'.task = timer.task /\ timer.pc = "save"
        /\ timer'.rolled = timer.rolled /\ UNCHANGED tasks
    BY <1>1, <1>12, GoToType DEF EndSave, At
  <2> QED BY <1>1, <1>2, <1>3, <1>4, <2>1
          DEF StopParts, FinalIsScheduled, LastBatchTaken, LastRunJudged
<1>13. ASSUME NEW t \in 0..2, ReadClock(t) PROVE StopParts'
  <2>1. /\ timer'.task = timer.task /\ timer'.usedTime = t
        /\ timer'.pc = IF AnotherBatch(t) THEN "poll" ELSE "clock"
        /\ timer.pc = "release" /\ UNCHANGED tasks
    BY <1>1, <1>13 DEF ReadClock, TimerState, At
  <2>2. CASE AnotherBatch(t)
    BY <1>6, <2>1, <2>2
  <2>3. CASE ~AnotherBatch(t)
    <3>1. t = 2 \/ timer.rolled < BatchNumber
      BY <1>1, <2>3 DEF AnotherBatch, TimerState
    <3>2. Pending = Range(unsavedQueue)
      BY <1>1a, <2>1
    <3> QED BY <1>1, <1>2, <1>3, <1>4, <2>1, <2>3, <3>1, <3>2
            DEF StopParts, FinalIsScheduled, LastBatchTaken, LastRunJudged
  <2> QED BY <2>2, <2>3
<1>14. ASSUME UNCHANGED tasks, timer'.task = timer.task, timer'.usedTime = timer.usedTime,
              timer.pc \in {"clock", "votes", "notify"},
              timer'.pc \in {"votes", "notify", "cancelled"},
              timer'.pc = "cancelled" => timer.task = "final"
       PROVE  StopParts'
  BY <1>1, <1>2, <1>3, <1>4, <1>14
  DEF StopParts, FinalIsScheduled, LastBatchTaken, LastRunJudged
<1>15. CASE BatchInTime \/ BatchLate \/ GiveUp
  <2>1. /\ timer' = [timer EXCEPT !.pc = "votes"] /\ timer.pc = "clock"
        /\ UNCHANGED tasks
    BY <1>15 DEF BatchInTime, BatchLate, GiveUp, GoTo, At
  <2> QED BY <1>1, <1>14, <2>1 DEF TimerState
<1>16. CASE UpdateVotes
  <2>1. /\ timer' = [timer EXCEPT !.pc = "notify"] /\ timer.pc = "votes"
        /\ UNCHANGED tasks
    BY <1>16 DEF UpdateVotes, GoTo, At
  <2> QED BY <1>1, <1>14, <2>1 DEF TimerState
<1>17. CASE NotifyWaiters
  <2>1. CASE timer.task = "final"
    <3>1. /\ timer' = [timer EXCEPT !.pc = "cancelled"] /\ timer.pc = "notify"
          /\ UNCHANGED tasks
      BY <1>17, <2>1 DEF NotifyWaiters, At
    <3> QED BY <1>1, <1>14, <2>1, <3>1 DEF TimerState
  <2>2. CASE timer.task # "final"
    <3>1. timer'.task = "periodic" /\ timer'.pc = "idle" /\ UNCHANGED tasks
      BY <1>17, <2>2 DEF NotifyWaiters, Resting
    <3> QED BY <1>1, <1>2, <1>4, <3>1
            DEF StopParts, FinalIsScheduled, LastBatchTaken, LastRunJudged
  <2> QED BY <2>1, <2>2
<1> QED BY <1>7, <1>8, <1>9, <1>10, <1>11, <1>12, <1>13, <1>15, <1>16, <1>17
        DEF StartTask, TimerStep

LEMMA StopStep == StopInv /\ [Next]_vars => StopParts'
<1> SUFFICES ASSUME StopInv, [Next]_vars PROVE StopParts'
  OBVIOUS
<1>1. CASE \E m \in Message : Enqueue(m)
  BY <1>1, EnqueueKeepsStop
<1>2. CASE \/ \E w \in Flusher : FlushAndWait(w)
           \/ \E w \in Stopper : Stop(w)
  BY <1>2, WaitKeepsStop DEF Waiter
<1>3. CASE StartTask \/ TimerStep
  BY <1>3, RunKeepsStop
<1>4. CASE UNCHANGED <<owed, stopped, tasks, timer>> /\ \A m \in Message : ~Enqueue(m)
  <2>1. Range(unsavedQueue') \subseteq Range(unsavedQueue) /\ Pending' \subseteq Pending
    BY <1>4, OnlyEnqueueAdds DEF StopInv, BatchInv
  <2>2. Accepted \subseteq Accepted'
    <3>1. talker \in [Message -> TalkerState]
      BY DEF StopInv, BatchInv, TypeInv, TypeOK
    <3>2. \/ UNCHANGED talker
          \/ \E m \in Message : CacheMessage(m) \/ CheckStopped(m) \/ RequestUpdate(m)
      BY <1>4 DEF Next, Talk, Delete, StartTask, TimerStep, Push, StartRun, EnterBatch,
         PollUnsaved, Roll, LeaveBatch, SaveRow, EndSave, ReleaseSaved, ReadClock,
         BatchInTime, BatchLate, GiveUp, UpdateVotes, NotifyWaiters, FlushAndWait,
         Stop, DeleteUnsaved, DeleteStored, InvalidMessage, PushSaved, PushUnsaved,
         vars, clientVars
    <3> QED BY <3>1, <3>2 DEF Accepted, CacheMessage, CheckStopped, RequestUpdate
  <2> QED BY <1>4, <2>1, <2>2
          DEF StopInv, StopParts, OwedAccepted, FinalIsScheduled, LastBatchTaken,
              LastRunJudged
<1>5. \/ UNCHANGED <<owed, stopped, tasks, timer>>
      \/ StartTask \/ TimerStep
      \/ \E w \in Flusher : FlushAndWait(w)
      \/ \E w \in Stopper : Stop(w)
  BY DEF Next, Talk, Delete, Push, CacheMessage, CheckStopped, RequestUpdate, Enqueue,
     DeleteUnsaved, DeleteStored, InvalidMessage, PushSaved, PushUnsaved, vars,
     timerVars, waitVars, historyVars
<1> QED BY <1>1, <1>2, <1>3, <1>4, <1>5

\* When the timer is cancelled, what waited when stop() was called has been
\* saved or given up, unless the last run was cut short for being too late:
\* nothing accepted before the shutdown is left behind by a run in time.
THEOREM LastRunDrains == Spec => []FinalRunDrains
<1>1. BatchInv /\ AcceptedInOnePlace /\ StopParts => StopInv
  BY DEF StopInv
<1>2. StopParts => FinalRunDrains
  BY DEF StopParts, LastRunJudged, FinalRunDrains
<1> QED BY <1>1, <1>2, StopInit, StopStep, BatchInvariant, AcceptedPlaceInvariant, PTL
        DEF Spec
---------------------------------------------------------------------------
(* The queue implements WriteBehind: one line of waiting messages, whose     *)
(* front is the batch of the timer thread.                                   *)

InHand == toSave \o (IF rotating = NoMessage THEN <<>> ELSE <<rotating>>)
Line == InHand \o unsavedQueue

LEMMA LineType ==
  ASSUME TypeInv
  PROVE  InHand \in Seq(Message) /\ Line \in Seq(Message)
<1>1. /\ toSave \in Seq(Message) /\ unsavedQueue \in Seq(Message)
      /\ rotating = NoMessage \/ rotating \in Message
  BY DEF TypeInv, TypeOK
<1>2. (IF rotating = NoMessage THEN <<>> ELSE <<rotating>>) \in Seq(Message)
  BY <1>1, EmptySeq
<1> QED BY <1>1, <1>2, ConcatProperties DEF InHand, Line

\* With nothing being moved the batch is toSave.
LEMMA NothingRotates ==
  ASSUME TypeInv, rotating = NoMessage
  PROVE  InHand = toSave /\ Line = toSave \o unsavedQueue
BY ConcatEmptySeq DEF InHand, Line, TypeInv, TypeOK

LEMMA EnqueueAccepts ==
  ASSUME TypeInv, NEW m \in Message, Enqueue(m)
  PROVE  WB!Accept(m)
<1>1. Line' = Append(Line, m)
  <2>1. InHand' = InHand /\ unsavedQueue' = Append(unsavedQueue, m)
    BY DEF Enqueue, Added, InHand, timerVars, batchVars
  <2>2. InHand \in Seq(Message)
    BY LineType
  <2>3. unsavedQueue \in Seq(Message)
    BY DEF TypeInv, TypeOK
  <2> QED BY <2>1, <2>2, <2>3, AppendToBack DEF Line
<1>2. /\ m \notin Accepted /\ Accepted' = Accepted \cup {m} /\ UNCHANGED attempted
  BY DEF Enqueue, Accepted, TypeInv, TypeOK, fateVars
<1> QED BY <1>1, <1>2 DEF WB!Accept, Line, InHand, Accepted

\* Inside the timer thread's hands a message does not change its place.
LEMMA RotationStutters ==
  ASSUME TypeInv, PollUnsaved \/ Roll
  PROVE  Line' = Line
<1>1. /\ toSave \in Seq(Message) /\ unsavedQueue \in Seq(Message)
      /\ rotating \in Message \cup {NoMessage} /\ NoMessage \notin Message
  BY QueueAssumption DEF TypeInv, TypeOK
<1>2. CASE PollUnsaved
  <2>1. /\ unsavedQueue # <<>> /\ rotating = NoMessage
        /\ rotating' = Head(unsavedQueue) /\ unsavedQueue' = Tail(unsavedQueue)
        /\ toSave' = toSave
    BY <1>2 DEF PollUnsaved, Polled
  <2>2. rotating' # NoMessage
    BY <1>1, <2>1, HeadTailProperties
  <2>3. Line' = (toSave \o <<Head(unsavedQueue)>>) \o Tail(unsavedQueue)
    BY <2>1, <2>2 DEF Line, InHand
  <2> QED BY <1>1, <2>1, <2>3, HeadToFront, NothingRotates
<1>3. CASE Roll
  <2>1. /\ rotating \in Message /\ rotating # NoMessage /\ rotating' = NoMessage
        /\ toSave' = Append(toSave, rotating) /\ unsavedQueue' = unsavedQueue
    BY <1>1, <1>3 DEF Roll, Batched
  <2>2. Append(toSave, rotating) \in Seq(Message)
    BY <1>1, <2>1, AppendProperties
  <2>3. InHand' = Append(toSave, rotating)
    BY <2>1, <2>2, ConcatEmptySeq DEF InHand
  <2>4. InHand = Append(toSave, rotating)
    BY <1>1, <2>1, AppendIsConcat DEF InHand
  <2> QED BY <2>1, <2>3, <2>4 DEF Line
<1> QED BY <1>2, <1>3

LEMMA SaveRowHandsOver ==
  ASSUME TypeInv, NEW isBusy \in BOOLEAN, SaveRow(isBusy)
  PROVE  WB!HandOver
<1>1. /\ toSave \in Seq(Message) /\ unsavedQueue \in Seq(Message)
      /\ toSave # <<>> /\ toSave' = Tail(toSave)
      /\ attempted' = attempted \cup {Head(toSave)}
      /\ UNCHANGED <<unsavedQueue, rotating, talker>>
  BY DEF SaveRow, TypeInv, TypeOK, queueVars, clientVars
<1>2. rotating = NoMessage /\ rotating' = NoMessage
  BY <1>1 DEF SaveRow, At, TypeInv, RotatingInBatch
<1>3. Line = toSave \o unsavedQueue
  BY <1>2, NothingRotates
<1>4. Line' = Tail(toSave) \o unsavedQueue
  <2>1. Tail(toSave) \in Seq(Message)
    BY <1>1, HeadTailProperties
  <2> QED BY <1>1, <1>2, <2>1, ConcatEmptySeq DEF Line, InHand
<1>5. Line # <<>> /\ Head(Line) = Head(toSave) /\ Line' = Tail(Line)
  BY <1>1, <1>3, <1>4, TailOfFront
<1>6. Accepted' = Accepted
  BY <1>1 DEF Accepted
<1> QED BY <1>1, <1>5, <1>6 DEF WB!HandOver, Line, InHand, Accepted

\* At the judgement of a run the batch is empty: what is lost is the whole line.
LEMMA GiveUpLoses ==
  ASSUME BatchInv, GiveUp
  PROVE  WB!Lose(0) /\ 0 \in 0..Len(Line)
<1>1. /\ toSave = <<>> /\ toSave' = <<>> /\ unsavedQueue' = <<>>
      /\ rotating = NoMessage /\ rotating' = NoMessage
      /\ UNCHANGED <<attempted, talker>>
  BY DEF GiveUp, BatchInv, BatchAt, TypeInv, RotatingInBatch, At, batchVars, clientVars
<1>2. Line \in Seq(Message) /\ Line' = <<>>
  BY <1>1, LineType DEF BatchInv, Line, InHand
<1>3. Len(Line) \in Nat
  BY <1>2, LenProperties
<1>4. SubSeq(Line, 1, 0) = <<>>
  BY <1>2
<1>5. Accepted' = Accepted
  BY <1>1 DEF Accepted
<1> QED BY <1>1, <1>2, <1>3, <1>4, <1>5 DEF WB!Lose, Line, InHand, Accepted

LEMMA DeleteUnsavedWithdraws ==
  ASSUME TypeInv, NEW m \in Message, DeleteUnsaved(m)
  PROVE  \/ UNCHANGED Line
         \/ \E i \in DOMAIN Line : WB!Withdraw(i)
<1>1. /\ InHand \in Seq(Message) /\ Line \in Seq(Message)
      /\ unsavedQueue \in Seq(Message)
  BY LineType DEF TypeInv, TypeOK
<1>2. InHand' = InHand /\ UNCHANGED <<attempted, talker>>
  BY DEF DeleteUnsaved, InHand, timerVars, batchVars
<1>3. CASE UNCHANGED unsavedQueue
  BY <1>2, <1>3 DEF Line
<1>4. ASSUME NEW i \in DOMAIN unsavedQueue, unsavedQueue' = RemoveAt(unsavedQueue, i)
      PROVE  \E j \in DOMAIN Line : WB!Withdraw(j)
  <2>1. i \in 1..Len(unsavedQueue)
    BY <1>1, LenProperties
  <2>2. /\ Len(InHand) + i \in 1..Len(Line)
        /\ RemoveAt(Line, Len(InHand) + i) = InHand \o RemoveAt(unsavedQueue, i)
    BY <1>1, <2>1, RemoveAtBack DEF Line
  <2>3. Line' = RemoveAt(Line, Len(InHand) + i)
    BY <1>2, <1>4, <2>2 DEF Line
  <2>4. Len(InHand) + i \in DOMAIN Line
    BY <1>1, <2>2, LenProperties
  <2>5. Accepted' = Accepted
    BY <1>2 DEF Accepted
  <2>6. WB!Withdraw(Len(InHand) + i)
    BY <1>2, <2>3, <2>5 DEF WB!Withdraw, WB!RemoveAt, RemoveAt, Line, InHand, Accepted
  <2> QED BY <2>4, <2>6
<1> QED BY <1>3, <1>4 DEF DeleteUnsaved

\* The abstract variables.
lineVars == <<Line, attempted, Accepted>>

LEMMA LineStep ==
  ASSUME BatchInv, [Next]_vars
  PROVE  WB!Next \/ UNCHANGED lineVars
<1>1. TypeInv /\ talker \in [Message -> TalkerState]
  BY DEF BatchInv, TypeInv, TypeOK
<1>2. CASE \E m \in Message : Enqueue(m)
  BY <1>1, <1>2, EnqueueAccepts DEF WB!Next
<1>3. CASE PollUnsaved \/ Roll
  <2>1. UNCHANGED <<attempted, talker>>
    BY <1>3 DEF PollUnsaved, Roll, historyVars, fateVars, clientVars
  <2> QED BY <1>1, <1>3, <2>1, RotationStutters DEF lineVars, Accepted
<1>4. CASE \E isBusy \in BOOLEAN : SaveRow(isBusy)
  BY <1>1, <1>4, SaveRowHandsOver DEF WB!Next
<1>5. CASE GiveUp
  BY <1>5, GiveUpLoses DEF WB!Next, Line, InHand
<1>6. ASSUME NEW m \in Message, DeleteUnsaved(m) PROVE WB!Next \/ UNCHANGED lineVars
  <2>1. UNCHANGED <<attempted, talker>>
    BY <1>6 DEF DeleteUnsaved
  <2> QED BY <1>1, <1>6, <2>1, DeleteUnsavedWithdraws DEF WB!Next, Line, InHand, lineVars, Accepted
<1>7. CASE UNCHANGED <<toSave, rotating, unsavedQueue, attempted, Accepted>>
  BY <1>7 DEF lineVars, Line, InHand
<1>8. CASE \E m \in Message : CacheMessage(m) \/ CheckStopped(m) \/ RequestUpdate(m)
  <2>1. UNCHANGED <<toSave, rotating, unsavedQueue, attempted>>
    BY <1>8 DEF CacheMessage, CheckStopped, RequestUpdate, queueVars, timerVars,
                batchVars, historyVars, fateVars
  <2>2. Accepted' = Accepted
    BY <1>1, <1>8 DEF CacheMessage, CheckStopped, RequestUpdate, Accepted
  <2> QED BY <1>7, <2>1, <2>2
<1>9. CASE UNCHANGED <<toSave, rotating, unsavedQueue, attempted, talker>>
  BY <1>7, <1>9 DEF Accepted
<1>10. \/ UNCHANGED <<toSave, rotating, unsavedQueue, attempted, talker>>
       \/ \E m \in Message : CacheMessage(m) \/ CheckStopped(m) \/ RequestUpdate(m)
                             \/ Enqueue(m) \/ DeleteUnsaved(m)
       \/ PollUnsaved \/ Roll \/ GiveUp
       \/ \E isBusy \in BOOLEAN : SaveRow(isBusy)
  BY DEF Next, Talk, Delete, StartTask, TimerStep, Push, StartRun, EnterBatch,
     LeaveBatch, EndSave, ReleaseSaved, ReadClock, BatchInTime, BatchLate,
     UpdateVotes, NotifyWaiters, FlushAndWait, Stop, DeleteStored, InvalidMessage,
     PushSaved, PushUnsaved, vars, queueVars, timerVars, batchVars, clientVars,
     historyVars, fateVars
<1> QED BY <1>2, <1>3, <1>4, <1>5, <1>6, <1>8, <1>9, <1>10

LEMMA LineInit == Init => WB!Init
<1> SUFFICES ASSUME Init PROVE WB!Init
  OBVIOUS
<1>1. Line = <<>>
  BY DEF Init, Line, InHand
<1>2. Range(Preload) \subseteq Message
  BY QueueAssumption, RangeOfSeq
<1>3. Accepted = Range(Preload) /\ attempted = Range(Preload)
  BY <1>2 DEF Init, Accepted
<1> QED BY <1>1, <1>2, <1>3 DEF WB!Init, Line, InHand, Accepted

\* Threads, batches and locks together are a queue: messages are handed to the
\* data store from the head, in the order in which they were accepted, and the
\* only ways out besides are the author's and the late run's.
THEOREM QueueImplementsWriteBehind == Spec => WriteBehindSpec
<1> DEFINE v == <<toSave \o (IF rotating = NoMessage THEN <<>> ELSE <<rotating>>)
                         \o unsavedQueue,
                  attempted, {m \in Message : talker[m] = "accepted"}>>
<1>1. BatchInv /\ [Next]_vars => [WB!Next]_v
  BY LineStep DEF lineVars, Line, InHand, Accepted
<1> HIDE DEF v
<1>2. Spec => [][WB!Next]_v
  BY <1>1, BatchInvariant, PTL DEF Spec
<1>3. Spec => WB!Init
  BY LineInit DEF Spec
<1> QED BY <1>2, <1>3, PTL DEF WriteBehindSpec, WB!Spec, v
=============================================================================
