------------------------ MODULE UnsavedMessageQueue ------------------------
(***************************************************************************)
(* The write-behind queue between the message cache and the data store.    *)
(* Any number of request threads append messages to unsavedQueue; one      *)
(* Timer thread moves them in batches to the data store; other threads     *)
(* delete messages, ask for a flush, stop the queue or read its newest     *)
(* messages.  Each action is one step a thread takes between two accesses  *)
(* to shared state; the monitors unionLock and waitObject are modelled.    *)
(***************************************************************************)
EXTENDS MessageTable, Sequences, SequencesExt

CONSTANTS
  VoteOfMe,      \* the messages that are votes; each refers to a vote topic
  Preload,       \* the messages read back from the table at start
  Flusher,       \* threads that call flushAndWait, once each
  Stopper,       \* threads that call stop, once each
  Listener,      \* listeners that read the newest messages, once each
  Deletable,     \* the messages whose author deletes them, once each
  NoMessage,     \* "no message in the timer thread's hands"
  BatchNumber,   \* batchNumber: most messages saved in one transaction
  GiveUpAfter,   \* late runs in a row before the queue is thrown away
  MaxBusy        \* bound: how many inserts may meet a busy data store

ASSUME QueueAssumption ==
  /\ VoteOfMe \subseteq Message /\ Deletable \subseteq Message
  /\ \A v \in VoteOfMe : RefOf[v] \in Message \ VoteOfMe
  /\ Preload \in Seq(Message)
  /\ IsInjective(Preload)
  /\ \A i \in DOMAIN Preload :
       RefOf[Preload[i]] # NoRef => RefOf[Preload[i]] \in Range(Preload)
  /\ NoMessage \notin Message
  /\ BatchNumber \in Nat \ {0}
  /\ GiveUpAfter \in Nat
  /\ MaxBusy \in Nat
  /\ "timer" \notin Listener /\ "free" \notin Listener
  /\ Flusher \cap Stopper = {}

Waiter == Flusher \cup Stopper

VARIABLES
  unsavedQueue,        \* accepted, not yet polled by the timer thread
  savedQueue,          \* the newest polled message(s)
  updateQueue,         \* vote topics whose result has to be updated
  stopped,             \* stop() was called
  flushed,             \* a timer run has ended since flushed was last cleared
  unionLock,           \* owner of the monitor, or "free"
  timer,               \* what the Timer thread is doing, see TimerState
  tasks,               \* tasks scheduled on the Timer, by kind
  rotating,            \* polled from one queue, not yet added to the other
  toSave,              \* the batch: polled, not yet handed to the data store
  toRelease,           \* the batch: handed to the data store, not released
  continuationTimeout, \* late runs in a row
  losingMessages,      \* how many messages were thrown away
  talker,              \* progress of the thread that saves each message
  deleter,             \* progress of the thread that deletes each message
  waiter,              \* progress of the threads in flushAndWait and stop
  snapshot,            \* what each listener has been given
  pins,                \* back references this queue has still to release
  table,               \* the data store
  invalid,             \* messages shown as deleted by the cache
  busy                 \* inserts that met a busy data store so far

\* Variables no code has: they record what happened, for the properties.
VARIABLES
  order,               \* every message appended to unsavedQueue, in order
  attempted,           \* messages handed to the data store
  missed,              \* those of them that met a busy data store
  thrown,              \* messages thrown away by GiveUp
  removed,             \* messages deleteUnsaved took out of unsavedQueue
  owed                 \* what was waiting when each waiter started to wait

queueVars   == <<unsavedQueue, savedQueue, updateQueue>>
batchVars   == <<rotating, toSave, toRelease>>
lateVars    == <<continuationTimeout, losingMessages>>
timerVars   == <<timer, tasks, batchVars, lateVars>>
waitVars    == <<stopped, flushed, waiter>>
storeVars   == <<table, invalid, busy>>
clientVars  == <<talker, deleter, snapshot>>
fateVars    == <<attempted, missed, thrown, removed>>
historyVars == <<order, fateVars, owed>>
vars == <<queueVars, timerVars, waitVars, storeVars, clientVars, historyVars,
          unionLock, pins>>

TalkerState  == {"idle", "cached", "passed", "voted", "accepted", "refused"}
DeleterState == {"idle", "store", "invalidate", "yes", "no"}
WaiterState  == {"idle", "waiting", "returned"}
ListenerState == {"idle", "saved", "done"}
\* pc: the statement the thread is at; task: whose run() it executes; rolled:
\* the value batchSave returns; usedTime: 0 in time, 1 more than one period,
\* 2 two periods or more since the run was due.
TimerState ==
  [pc: {"idle", "poll", "rotate", "save", "release", "clock", "votes",
        "update", "notify", "cancelled"},
   task: {"periodic", "flush", "final"},
   rolled: 0..BatchNumber,
   usedTime: 0..2]

\* Between two runs nothing is kept but the fields of the queue.
Resting == [pc |-> "idle", task |-> "periodic", rolled |-> 0, usedTime |-> 0]

\* In the timer thread's hands on the way to the data store.
Hands == Range(toSave) \cup ({rotating} \ {NoMessage})
\* Accepted and not yet handed to the data store.
Pending == Range(unsavedQueue) \cup Hands
---------------------------------------------------------------------------
Init ==
  /\ unsavedQueue = <<>>
  /\ savedQueue = Reverse(Preload)
  /\ updateQueue = {}
  /\ stopped = FALSE
  /\ flushed = FALSE
  /\ unionLock = "free"
  /\ timer = Resting
  /\ tasks = [flush |-> 0, final |-> 0]
  /\ rotating = NoMessage
  /\ toSave = <<>>
  /\ toRelease = <<>>
  /\ continuationTimeout = 0
  /\ losingMessages = 0
  /\ talker = [m \in Message |->
                 IF m \in Range(Preload) THEN "accepted" ELSE "idle"]
  /\ deleter = [m \in Message |-> "idle"]
  /\ waiter = [w \in Waiter |-> "idle"]
  /\ snapshot = [l \in Listener |-> [state |-> "idle", messages |-> <<>>]]
  /\ pins = [m \in Message |-> 0]
  /\ table = [m \in Range(Preload) |-> RefOf[m]]
  /\ invalid = {}
  /\ busy = 0
  /\ order = Reverse(Preload)
  /\ attempted = Range(Preload)
  /\ missed = {}
  /\ thrown = {}
  /\ removed = {}
  /\ owed = [w \in Waiter |-> {}]
---------------------------------------------------------------------------
(* A request thread saves message m: MemoryMessageCache.save, then          *)
(* addUnsaved.                                                             *)

\* What save() holds for this queue: the message and, for a vote, its topic.
Holds_MessageOnly(m) == {m}   \* mutant: the topic of a vote is not held
Holds(m) == {m} \cup (IF m \in VoteOfMe THEN {RefOf[m]} ELSE {})

\* save() up to addUnsaved: the cache holds each of them with one back
\* reference.  A client learns of the message it refers to from the server,
\* after that message was accepted.
CacheMessage(m) ==
  /\ talker[m] = "idle"
  /\ RefOf[m] # NoRef => talker[RefOf[m]] = "accepted"
  /\ talker' = [talker EXCEPT ![m] = "cached"]
  /\ pins' = [x \in Message |-> IF x \in Holds(m) THEN pins[x] + 1 ELSE pins[x]]
  /\ UNCHANGED <<queueVars, timerVars, waitVars, storeVars, historyVars,
                 unionLock, deleter, snapshot>>

\* The test of the flag at the head of addUnsaved.
CheckStopped(m) ==
  /\ talker[m] = "cached"
  /\ talker' = [talker EXCEPT ![m] = IF stopped THEN "refused" ELSE "passed"]
  /\ UNCHANGED <<queueVars, timerVars, waitVars, storeVars, historyVars,
                 unionLock, deleter, snapshot, pins>>

\* A vote first asks for an update of its topic.
RequestUpdate(m) ==
  /\ talker[m] = "passed"
  /\ m \in VoteOfMe
  /\ updateQueue' = updateQueue \cup {RefOf[m]}
  /\ talker' = [talker EXCEPT ![m] = "voted"]
  /\ UNCHANGED <<timerVars, waitVars, storeVars, historyVars, unsavedQueue,
                 savedQueue, unionLock, deleter, snapshot, pins>>

\* unsavedQueue.add(m)
Added_AtHead(queue, m) == <<m>> \o queue   \* mutant: a stack
Added(queue, m) == Append(queue, m)

Enqueue(m) ==
  /\ talker[m] = IF m \in VoteOfMe THEN "voted" ELSE "passed"
  /\ unsavedQueue' = Added(unsavedQueue, m)
  /\ order' = Append(order, m)
  /\ talker' = [talker EXCEPT ![m] = "accepted"]
  /\ UNCHANGED <<timerVars, waitVars, storeVars, fateVars, savedQueue,
                 updateQueue, owed, unionLock, deleter, snapshot, pins>>
---------------------------------------------------------------------------
(* The Timer thread.  run() is saveUnsavedMessages, then                   *)
(* updateVoteTopicMessages, then the notification of the waiters.          *)

At(pc) == timer.pc = pc
GoTo(pc) == timer' = [timer EXCEPT !.pc = pc]

\* The periodic task is always due again; the others run once per schedule().
Due_Always(task) == TRUE   \* mutant: a task may run that nobody scheduled
Due(task) == task # "periodic" => tasks[task] > 0

\* run() skips the save when the queue is empty.
NothingToSave_OffByOne == Len(unsavedQueue) <= 1   \* mutant
NothingToSave == unsavedQueue = <<>>

\* The timer picks a due task.
StartRun(task) ==
  /\ At("idle")
  /\ Due(task)
  /\ tasks' = IF task = "periodic" THEN tasks
              ELSE [tasks EXCEPT ![task] = @ - 1]
  /\ timer' = [pc |-> IF NothingToSave THEN "votes" ELSE "poll",
               task |-> task, rolled |-> 0, usedTime |-> 0]
  /\ UNCHANGED <<queueVars, batchVars, lateVars, waitVars, storeVars,
                 clientVars, historyVars, unionLock, pins>>

\* synchronized (unionLock)
UnionLockFree_Unlocked == TRUE   \* mutant: the monitor is not entered
UnionLockFree == unionLock = "free"

EnterBatch ==
  /\ At("poll")
  /\ UnionLockFree
  /\ unionLock' = "timer"
  /\ timer' = [timer EXCEPT !.pc = "rotate", !.rolled = 0]
  /\ UNCHANGED <<queueVars, batchVars, lateVars, waitVars, storeVars,
                 clientVars, historyVars, tasks, pins>>

\* What poll() leaves in the queue.
Polled_Peek(queue) == queue   \* mutant: peek() in the place of poll()
Polled(queue) == Tail(queue)

PollUnsaved ==
  /\ At("rotate") /\ rotating = NoMessage
  /\ timer.rolled < BatchNumber
  /\ unsavedQueue # <<>>
  /\ rotating' = Head(unsavedQueue)
  /\ unsavedQueue' = Polled(unsavedQueue)
  /\ UNCHANGED <<lateVars, waitVars, storeVars, clientVars, historyVars,
                 savedQueue, updateQueue, timer, tasks, toSave, toRelease,
                 unionLock, pins>>

Batched_AtHead == <<rotating>> \o toSave   \* mutant: the batch is reversed
Batched == Append(toSave, rotating)

\* savedQueue.poll(); savedQueue.add(rotate); toSave.add(rotate)
Roll ==
  /\ At("rotate") /\ rotating # NoMessage
  /\ savedQueue' = Append(IF savedQueue = <<>> THEN <<>> ELSE Tail(savedQueue),
                          rotating)
  /\ toSave' = Batched
  /\ rotating' = NoMessage
  /\ timer' = [timer EXCEPT !.rolled = @ + 1]
  /\ UNCHANGED <<lateVars, waitVars, storeVars, clientVars, historyVars,
                 unsavedQueue, updateQueue, tasks, toRelease, unionLock,
                 pins>>

LeaveBatch ==
  /\ At("rotate") /\ rotating = NoMessage
  /\ timer.rolled = BatchNumber \/ unsavedQueue = <<>>
  /\ unionLock' = "free"
  /\ GoTo("save")
  /\ UNCHANGED <<queueVars, batchVars, lateVars, waitVars, storeVars,
                 clientVars, historyVars, tasks, pins>>

\* saveMessage(toSave), one row per step.  A busy data store loses the row:
\* the error is logged and the message counts as saved.
SaveRow(isBusy) ==
  /\ At("save") /\ toSave # <<>>
  /\ isBusy => busy < MaxBusy
  /\ busy' = IF isBusy THEN busy + 1 ELSE busy
  /\ table' = IF isBusy THEN table ELSE InsertRow(table, Head(toSave))
  /\ attempted' = attempted \cup {Head(toSave)}
  /\ missed' = IF isBusy THEN missed \cup {Head(toSave)} ELSE missed
  /\ toRelease' = Append(toRelease, Head(toSave))
  /\ toSave' = Tail(toSave)
  /\ UNCHANGED <<queueVars, lateVars, waitVars, clientVars, timer, tasks,
                 rotating, invalid, order, thrown, removed, owed, unionLock,
                 pins>>

\* Commit, and enter the loop that releases the batch.
EndSave ==
  /\ At("save") /\ toSave = <<>>
  /\ GoTo("release")
  /\ UNCHANGED <<queueVars, batchVars, lateVars, waitVars, storeVars,
                 clientVars, historyVars, tasks, unionLock, pins>>

ReleaseSaved ==
  /\ At("release") /\ toRelease # <<>>
  /\ pins' = [pins EXCEPT ![Head(toRelease)] = @ - 1]
  /\ toRelease' = Tail(toRelease)
  /\ UNCHANGED <<queueVars, lateVars, waitVars, storeVars, clientVars,
                 historyVars, timer, tasks, rotating, toSave, unionLock>>

\* Another batch while the last one was full and less than two periods have
\* passed.
AnotherBatch_Never(t) == FALSE   \* mutant: one batch a run
AnotherBatch(t) == timer.rolled = BatchNumber /\ t < 2

\* The clock is read after each batch; after the last one the run is judged.
ReadClock(t) ==
  /\ At("release") /\ toRelease = <<>>
  /\ t >= timer.usedTime
  /\ timer' = [timer EXCEPT !.usedTime = t,
                 !.pc = IF AnotherBatch(t) THEN "poll" ELSE "clock"]
  /\ UNCHANGED <<queueVars, batchVars, lateVars, waitVars, storeVars,
                 clientVars, historyVars, tasks, unionLock, pins>>

BatchInTime ==
  /\ At("clock") /\ timer.usedTime = 0
  /\ continuationTimeout' = 0
  /\ GoTo("votes")
  /\ UNCHANGED <<queueVars, batchVars, waitVars, storeVars, clientVars,
                 historyVars, tasks, losingMessages, unionLock, pins>>

BatchLate ==
  /\ At("clock") /\ timer.usedTime > 0
  /\ continuationTimeout <= GiveUpAfter
  /\ continuationTimeout' = continuationTimeout + 1
  /\ GoTo("votes")
  /\ UNCHANGED <<queueVars, batchVars, waitVars, storeVars, clientVars,
                 historyVars, tasks, losingMessages, unionLock, pins>>

\* Too many late runs: poll the queue until it is empty and forget what was in
\* it, without releasing it.  (continuationTimeout would grow on; it is left
\* at the value that already means "give up".)
GiveUp ==
  /\ At("clock") /\ timer.usedTime > 0
  /\ continuationTimeout > GiveUpAfter
  /\ losingMessages' = losingMessages + Len(unsavedQueue)
  /\ thrown' = thrown \cup Range(unsavedQueue)
  /\ unsavedQueue' = <<>>
  /\ GoTo("votes")
  /\ UNCHANGED <<batchVars, waitVars, storeVars, clientVars, savedQueue,
                 updateQueue, tasks, continuationTimeout, order, attempted,
                 missed, removed, owed, unionLock, pins>>

\* updateVoteTopicMessages: every topic asked for is taken out of updateQueue
\* and released once.  The statement that would store the result is bound but
\* never stepped, so no row changes.
UpdateVotes ==
  /\ At("votes")
  /\ updateQueue' = {}
  /\ pins' = [m \in Message |->
                IF m \in updateQueue THEN pins[m] - 1 ELSE pins[m]]
  /\ GoTo("notify")
  /\ UNCHANGED <<batchVars, lateVars, waitVars, storeVars, clientVars,
                 historyVars, unsavedQueue, savedQueue, tasks, unionLock>>

Waiting == {w \in Waiter : waiter[w] = "waiting"}

\* notifyAll()
Notified_One ==   \* mutant: notify()
  IF Waiting = {} THEN {} ELSE {CHOOSE w \in Waiting : TRUE}
Notified == Waiting

\* synchronized (waitObject): flushed = true, notifyAll; the task that stop()
\* scheduled then cancels the timer.
NotifyWaiters ==
  /\ At("notify")
  /\ flushed' = TRUE
  /\ waiter' = [w \in Waiter |->
                  IF w \in Notified THEN "returned" ELSE waiter[w]]
  /\ timer' = IF timer.task = "final"
              THEN [timer EXCEPT !.pc = "cancelled"] ELSE Resting
  /\ UNCHANGED <<queueVars, batchVars, lateVars, storeVars, clientVars,
                 historyVars, tasks, stopped, unionLock, pins>>
---------------------------------------------------------------------------
(* Threads that wait for the timer.  Both methods hold waitObject from the *)
(* test to the wait, and the timer needs it only in NotifyWaiters, so each *)
(* is one step.                                                            *)

StartWaiting(w, task) ==
  /\ waiter' = [waiter EXCEPT ![w] = "waiting"]
  /\ flushed' = FALSE
  /\ tasks' = [tasks EXCEPT ![task] = @ + 1]
  /\ owed' = [owed EXCEPT ![w] = Pending]

ReturnAtOnce(w) ==
  /\ waiter' = [waiter EXCEPT ![w] = "returned"]
  /\ UNCHANGED <<flushed, tasks, owed>>

FlushAndWait(w) ==
  /\ waiter[w] = "idle"
  /\ IF stopped THEN ReturnAtOnce(w) ELSE StartWaiting(w, "flush")
  /\ UNCHANGED <<queueVars, batchVars, lateVars, storeVars, clientVars,
                 fateVars, timer, stopped, order, unionLock, pins>>

Stop(w) ==
  /\ waiter[w] = "idle"
  /\ stopped' = TRUE
  /\ IF stopped THEN ReturnAtOnce(w) ELSE StartWaiting(w, "final")
  /\ UNCHANGED <<queueVars, batchVars, lateVars, storeVars, clientVars,
                 fateVars, timer, order, unionLock, pins>>
---------------------------------------------------------------------------
(* The author deletes message m: MemoryMessageCache.deleteMessage.         *)

\* deleteUnsaved, under unionLock.
DeleteUnsaved(m) ==
  /\ m \in Deletable
  /\ deleter[m] = "idle"
  /\ talker[m] = "accepted"
  /\ UnionLockFree
  /\ \/ \E i \in DOMAIN unsavedQueue :
          /\ unsavedQueue[i] = m
          /\ unsavedQueue' = RemoveAt(unsavedQueue, i)
          /\ removed' = removed \cup {m}
          /\ deleter' = [deleter EXCEPT ![m] = "yes"]
     \/ /\ m \notin Range(unsavedQueue)
        /\ deleter' = [deleter EXCEPT ![m] = "store"]
        /\ UNCHANGED <<unsavedQueue, removed>>
  /\ UNCHANGED <<timerVars, waitVars, storeVars, savedQueue, updateQueue,
                 order, attempted, missed, thrown, owed, unionLock, talker,
                 snapshot, pins>>

\* While the timer thread's transaction is writing the table is locked.
Writing == At("save") /\ toRelease # <<>>

\* delete(user, m, FALSE) finds a row: the two statements, the second of which
\* may fail on the foreign key.  Any failure is logged and answered "true".
DeleteStored(m) ==
  /\ deleter[m] = "store"
  /\ \/ /\ ~Writing
        /\ LET redirected == RedirectReplies(table, m) IN
             /\ table' = IF DeleteBreaksForeignKey(redirected, m)
                         THEN redirected ELSE DeleteRow(redirected, m)
             /\ deleter' = [deleter EXCEPT ![m] =
                              IF m \in DOMAIN table THEN "invalidate" ELSE "no"]
     \/ /\ Writing
        /\ deleter' = [deleter EXCEPT ![m] = "invalidate"]
        /\ UNCHANGED table
  /\ UNCHANGED <<queueVars, timerVars, waitVars, historyVars, invalid, busy,
                 unionLock, talker, snapshot, pins>>

InvalidMessage(m) ==
  /\ deleter[m] = "invalidate"
  /\ invalid' = invalid \cup {m}
  /\ deleter' = [deleter EXCEPT ![m] = "yes"]
  /\ UNCHANGED <<queueVars, timerVars, waitVars, historyVars, table, busy,
                 unionLock, talker, snapshot, pins>>
---------------------------------------------------------------------------
(* pushAllMessages gives a new listener both queues under unionLock.       *)

PushSaved(l) ==
  /\ snapshot[l].state = "idle"
  /\ UnionLockFree
  /\ unionLock' = l
  /\ snapshot' = [snapshot EXCEPT ![l] = [state |-> "saved",
                                          messages |-> savedQueue]]
  /\ UNCHANGED <<queueVars, timerVars, waitVars, storeVars, historyVars,
                 talker, deleter, pins>>

PushUnsaved(l) ==
  /\ snapshot[l].state = "saved"
  /\ unionLock' = "free"
  /\ snapshot' = [snapshot EXCEPT ![l] = [state |-> "done",
                    messages |-> snapshot[l].messages \o unsavedQueue]]
  /\ UNCHANGED <<queueVars, timerVars, waitVars, storeVars, historyVars,
                 talker, deleter, pins>>
---------------------------------------------------------------------------
Talk(m) == CacheMessage(m) \/ CheckStopped(m) \/ RequestUpdate(m) \/ Enqueue(m)
Delete(m) == DeleteUnsaved(m) \/ DeleteStored(m) \/ InvalidMessage(m)
Push(l) == PushSaved(l) \/ PushUnsaved(l)

StartTask == \E task \in {"periodic", "flush", "final"} : StartRun(task)

\* The timer thread, once a run has started.
TimerStep ==
  \/ EnterBatch \/ PollUnsaved \/ Roll \/ LeaveBatch
  \/ \E isBusy \in BOOLEAN : SaveRow(isBusy)
  \/ EndSave \/ ReleaseSaved
  \/ \E t \in 0..2 : ReadClock(t)
  \/ BatchInTime \/ BatchLate \/ GiveUp \/ UpdateVotes \/ NotifyWaiters

Next ==
  \/ \E m \in Message : Talk(m) \/ Delete(m)
  \/ StartTask
  \/ TimerStep
  \/ \E w \in Flusher : FlushAndWait(w)
  \/ \E w \in Stopper : Stop(w)
  \/ \E l \in Listener : Push(l)

Spec == Init /\ [][Next]_vars

\* The Timer runs its tasks and, once in run(), never blocks but for unionLock;
\* a listener that holds unionLock gives it back.  Request threads owe nothing.
Fairness ==
  /\ WF_vars(StartTask)
  /\ WF_vars(TimerStep)
  /\ \A l \in Listener : WF_vars(PushUnsaved(l))

FairSpec == Spec /\ Fairness
---------------------------------------------------------------------------
\* Every variable has values of its type.
TypeOK ==
  /\ unsavedQueue \in Seq(Message) /\ savedQueue \in Seq(Message)
  /\ updateQueue \subseteq Message
  /\ stopped \in BOOLEAN /\ flushed \in BOOLEAN
  /\ unionLock \in {"free", "timer"} \cup Listener
  /\ timer \in TimerState
  /\ tasks \in [{"flush", "final"} -> Nat]
  /\ rotating \in Message \cup {NoMessage}
  /\ toSave \in Seq(Message) /\ toRelease \in Seq(Message)
  /\ continuationTimeout \in Nat /\ losingMessages \in Nat
  /\ talker \in [Message -> TalkerState]
  /\ deleter \in [Message -> DeleterState]
  /\ waiter \in [Waiter -> WaiterState]
  /\ snapshot \in [Listener -> [state : ListenerState, messages : Seq(Message)]]
  /\ pins \in [Message -> Int]
  /\ table \in Table /\ invalid \subseteq Message /\ busy \in Nat
  /\ order \in Seq(Message)
  /\ attempted \subseteq Message /\ missed \subseteq Message
  /\ thrown \subseteq Message /\ removed \subseteq Message
  /\ owed \in [Waiter -> SUBSET Message]

\* A message addUnsaved accepted is at any time in exactly one place: waiting
\* in unsavedQueue, in the timer thread's hands, handed to the data store,
\* thrown away by a late run, or taken out by its author.  So no message is
\* saved twice, and none disappears between two threads.
AcceptedInOnePlace ==
  /\ IsInjective(unsavedQueue) /\ IsInjective(toSave)
  /\ rotating \notin Range(toSave)
  /\ Range(unsavedQueue) \cap Hands = {}
  /\ Pending \cap (attempted \cup thrown \cup removed) = {}
  /\ attempted \cap (thrown \cup removed) = {}
  /\ thrown \cap removed = {}
  /\ Pending \cup attempted \cup thrown \cup removed
       = {m \in Message : talker[m] = "accepted"}

Occurs(m, S) == IF m \in S THEN 1 ELSE 0

\* The queue never releases more than it holds: a message that waits to be
\* saved, or to be released after it, is pinned in the cache by a back
\* reference of its own, and a vote topic that waits for its update by another.
\* (An unpinned message could be recycled before any row of it exists.)
PinsCoverReleases ==
  \A m \in Message :
    pins[m] >= Occurs(m, Pending \cup Range(toRelease))
               + Occurs(m, updateQueue)
               + Occurs(talker[m], {"cached", "passed", "voted"})

\* A message handed to the data store is in the table, unless the store was
\* busy, its author deleted it, or the message it refers to is gone: replies
\* never overtake the message they refer to on their way to the table.
SavedOrExplained ==
  \A m \in attempted \ DOMAIN table :
    \/ m \in missed
    \/ deleter[m] \in {"invalidate", "yes"}
    \/ RefOf[m] # NoRef /\ RefOf[m] \in thrown \cup removed
                                         \cup (attempted \ DOMAIN table)

\* The foreign key of the table holds whatever is inserted and deleted.
NoDanglingReference == ReferencesResolve(table)

\* A new listener gets an unbroken stretch of the history: between the oldest
\* and the newest message it is given no accepted message is missing, but for
\* those that were deleted or thrown away.
NoSegmentedHistory ==
  \A l \in Listener : \A i, j, k \in DOMAIN order :
    /\ snapshot[l].state = "done"
    /\ i < j /\ j < k
    /\ {order[i], order[k]} \subseteq Range(snapshot[l].messages)
    => order[j] \in Range(snapshot[l].messages) \cup removed \cup thrown

\* When the timer is cancelled, everything that waited when stop() was called
\* has been handed to the data store or given up, unless the last run was cut
\* short because it was two periods late.
FinalRunDrains ==
  timer.pc = "cancelled" =>
    \/ timer.usedTime = 2
    \/ \A w \in Stopper : owed[w] \cap Pending = {}

\* A thread in flushAndWait() or stop() is woken in the end.
WaitersReturn ==
  \A w \in Waiter : waiter[w] = "waiting" ~> waiter[w] = "returned"

\* A message in unsavedQueue leaves it in the end, unless the timer has been
\* cancelled first.
QueueIsServed ==
  \A m \in Message :
    m \in Range(unsavedQueue)
      ~> m \notin Range(unsavedQueue) \/ timer.pc = "cancelled"
---------------------------------------------------------------------------
\* What the queue promises: a queue of accepted messages whose head is handed
\* over, see WriteBehind.  The batch of the timer thread is its front part.
WB == INSTANCE WriteBehind WITH
        Item <- Message,
        waiting <- toSave \o (IF rotating = NoMessage THEN <<>> ELSE <<rotating>>)
                          \o unsavedQueue,
        handed <- attempted,
        accepted <- {m \in Message : talker[m] = "accepted"}
WriteBehindSpec == WB!Spec
---------------------------------------------------------------------------
\* What the comment of stop() says: it "will block until saving complete".
\* What had been accepted when stop() was called is no longer waiting when it
\* returns.  (It is: a run that was already past the save wakes the caller.)
StopSavesAll ==
  \A w \in Stopper : waiter[w] = "returned" => owed[w] \cap Pending = {}
=============================================================================
