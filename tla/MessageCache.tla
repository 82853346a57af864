---------------------------- MODULE MessageCache ----------------------------
(***************************************************************************)
(* MemoryMessageCache: the runtime objects of messages, shared by the       *)
(* request threads and the timer thread of the unsaved queue.  A thread     *)
(* that reads, loads or recycles a message first puts a SlotLock for it     *)
(* into slotLocks; a thread that finds another's lock waits on it.  Records *)
(* count the back references to their message; a record without any is in   *)
(* LRUList and may be recycled.  One action is one access to shared state.  *)
(* Records and locks are heap objects, named by their index; 0 is null.     *)
(***************************************************************************)
EXTENDS Integers, Sequences, FiniteSetsExt, SequencesExt

CONSTANTS
  Message,
  NoRef,        \* "refers to no message"
  RefOf,        \* [Message -> Message \cup {NoRef}]
  Rows,         \* the messages in the data store at first, oldest first
  Unknown,      \* identifiers of no message, which a client may still ask for
  Thread,       \* request threads
  Timer,        \* the thread of UnsavedMessageQueue
  SizeLimit,    \* sizeLimit: records LRUList may hold
  TryMaxTimes,  \* TRY_MAX_TIMES: attempts of spinGet before it returns null
  MaxOps,       \* bound: calls each request thread starts
  MaxCalls      \* bound: calls under way at the same time

ASSUME CacheAssumption ==
  /\ RefOf \in [Message -> Message \cup {NoRef}]
  /\ NoRef \notin Message
  /\ Rows \in Seq(Message) /\ IsInjective(Rows)
  /\ \A k \in DOMAIN Rows : RefOf[Rows[k]] = NoRef
                              \/ \E j \in 1..(k - 1) : Rows[j] = RefOf[Rows[k]]
  /\ Unknown \cap Message = {}
  /\ Timer \notin Thread
  /\ SizeLimit \in Nat /\ TryMaxTimes \in Nat \ {0} /\ MaxOps \in Nat
  /\ MaxCalls \in Nat \ {0}

Identifier == Message \cup Unknown
Process == Thread \cup {Timer}
null == 0

VARIABLES
  cache,      \* [Identifier -> record or null]
  LRUList,    \* [serial -> message], a partial function
  slotLocks,  \* [Identifier -> lock or null]
  serial,     \* the last serial given out
  records,    \* every AccessRecord made: message, serial, backReference, ref
  locks,      \* every SlotLock put into slotLocks: lockState, accessRecord,
              \* alreadyInvalid
  th,         \* what each thread is doing, see ThreadState
  stored,     \* the rows of the data store
  unsaved,    \* saved to the cache, still in the unsaved queue
  ops         \* operations each request thread has started

vars == <<cache, LRUList, slotLocks, serial, records, locks, th, stored,
          unsaved, ops>>

\* Variables no operation on the slots and records changes.
callVars == <<stored, unsaved, ops>>

\* pc: the step the thread takes next.  op: the call it executes, on target.
\* id: the message the step is about.  outer: the frames of recursiveAddAndGet
\* that wait for id to be added, each with its lock.  lock: the lock the thread
\* put in, or waits on.  rec: the record it works on; serial: its new serial.
\* loaded: the bottom frame was called by tryGetAsLoad; stray: that frame found
\* the message in the cache, so the object it loaded is in no record.
\* exceeded: LRUexceeded; todo: what is left of recycle's copy of LRUList;
\* tries: of spinGet.
Idle == [pc |-> "idle", op |-> "none", target |-> NoRef, id |-> NoRef,
         outer |-> <<>>, lock |-> null, rec |-> null, serial |-> 0,
         loaded |-> FALSE, stray |-> FALSE, exceeded |-> FALSE, todo |-> {},
         tries |-> 0]

\* The records of the first n rows, which were queried and released before; the
\* other rows are older than what the cache was filled with at start.
WarmRecords(n) ==
  [k \in 1..n |->
     [message |-> Rows[k], serial |-> k,
      backReference |-> Cardinality({c \in 1..n : RefOf[Rows[c]] = Rows[k]}),
      ref |-> IF RefOf[Rows[k]] = NoRef THEN null
              ELSE CHOOSE j \in 1..n : Rows[j] = RefOf[Rows[k]]]]

Init ==
  /\ \E n \in 0..Len(Rows) :
       /\ records = WarmRecords(n)
       /\ serial = n
       /\ cache = [i \in Identifier |->
                     IF \E k \in 1..n : Rows[k] = i
                     THEN CHOOSE k \in 1..n : Rows[k] = i ELSE null]
       /\ LRUList = [k \in {x \in 1..n : records[x].backReference = 0} |-> Rows[k]]
       /\ Cardinality(DOMAIN LRUList) <= SizeLimit
  /\ slotLocks = [i \in Identifier |-> null]
  /\ locks = <<>>
  /\ th = [t \in Process |-> Idle]
  /\ stored = Range(Rows)
  /\ unsaved = {}
  /\ ops = [t \in Thread |-> 0]
---------------------------------------------------------------------------
(* Helpers.                                                                *)

At(t, pc) == th[t].pc = pc
Become(t, r) == th' = [th EXCEPT ![t] = r]
Goto(t, pc) == Become(t, [th[t] EXCEPT !.pc = pc])

\* putIfAbsent of a new lock: the thread goes on at mine when the slot was free
\* and otherwise at theirs, with the lock it found.
TakeSlot(t, state, record, mine, theirs) ==
  LET id == th[t].id IN
  IF slotLocks[id] = null
  THEN /\ locks' = Append(locks, [lockState |-> state, accessRecord |-> record,
                                  alreadyInvalid |-> FALSE])
       /\ slotLocks' = [slotLocks EXCEPT ![id] = Len(locks')]
       /\ Become(t, [th[t] EXCEPT !.pc = mine, !.lock = Len(locks')])
  ELSE /\ Become(t, [th[t] EXCEPT !.pc = theirs, !.lock = slotLocks[id]])
       /\ UNCHANGED <<locks, slotLocks>>

\* locks.remove(idBytes): whatever lock is in the slot.
FreeSlot_Forgotten(id) == UNCHANGED slotLocks   \* mutant
FreeSlot(id) == slotLocks' = [slotLocks EXCEPT ![id] = null]

AddBackRef(r, n) == records' = [records EXCEPT ![r].backReference = @ + n]

\* LRUList.remove(serial), LRUList.put(serial, id)
Unlist_Forgotten(s) == UNCHANGED LRUList   \* mutant
Unlist(s) == LRUList' = [k \in DOMAIN LRUList \ {s} |-> LRUList[k]]
Enlist(s, id) == LRUList' = [k \in DOMAIN LRUList \cup {s} |->
                               IF k = s THEN id ELSE LRUList[k]]

\* Other threads between lock() and unlock() of the monitor of the lock l.
Inside(t, l) ==
  {u \in Process \ {t} : th[u].lock = l /\ th[u].pc \in {"waitInc", "waitUnlist"}}

\* The thread is still in get(), not in the part of save() that adds the target.
Getting(t) == th[t].op = "query" \/ (th[t].op = "save" /\ th[t].id # th[t].target)

\* counter < TRY_MAX_TIMES
TryAgain_OffByOne(t) == th[t].tries + 1 <= TryMaxTimes   \* mutant
TryAgain(t) == th[t].tries + 1 < TryMaxTimes

\* recursiveAddAndGet or tryGetAsWait returned null.  An inner frame is tried
\* again; spinGet starts over, a number of times, and then returns null, which
\* its caller does not survive.
Retry(t) ==
  LET r == th[t] IN
  Become(t, IF ~(Getting(t) /\ r.outer = <<>>) THEN [r EXCEPT !.pc = "addSlot"]
            ELSE IF TryAgain(t)
                 THEN [r EXCEPT !.pc = "getSlot", !.tries = @ + 1]
                 ELSE Idle)

\* A frame returns record x: to the frame that waits for it, to the caller of
\* get(), or to save(), which then adds its target or hands it to the queue.
Deliver(t, x) ==
  LET r == th[t]
      frame == Last(r.outer) IN
  IF r.outer # <<>>
  THEN /\ Become(t, [r EXCEPT !.pc = "addPut", !.id = frame.id, !.lock = frame.lock,
                              !.outer = Front(r.outer), !.rec = x])
       /\ UNCHANGED unsaved
  ELSE IF r.op = "query"
  THEN Become(t, [r EXCEPT !.pc = "relRead", !.rec = x]) /\ UNCHANGED unsaved
  ELSE IF Getting(t)
  THEN /\ Become(t, [r EXCEPT !.pc = "addSlot", !.id = r.target, !.loaded = FALSE])
       /\ UNCHANGED unsaved
  ELSE Become(t, Idle) /\ unsaved' = unsaved \cup {r.target}
---------------------------------------------------------------------------
(* The calls a thread starts.                                              *)

Start(t, op, target, id, pc) ==
  /\ At(t, "idle")
  /\ Cardinality({u \in Process : ~At(u, "idle")}) < MaxCalls
  /\ Become(t, [Idle EXCEPT !.pc = pc, !.op = op, !.target = target, !.id = id])
  /\ UNCHANGED <<cache, LRUList, slotLocks, serial, records, locks>>

CountOp(t) == ops[t] < MaxOps /\ ops' = [ops EXCEPT ![t] = @ + 1]

\* queryDetail: get, then releaseMessage.  A client asks for a message that was
\* saved, or for one that never was.
Query(t, i) ==
  /\ i \in stored \cup unsaved \cup Unknown
  /\ CountOp(t)
  /\ Start(t, "query", i, i, "getSlot")
  /\ UNCHANGED <<stored, unsaved>>

\* save(m), once, by a client that has seen the message m refers to: get of that
\* message, then recursiveAddAndGet(m).
Save(t, m) ==
  /\ m \notin stored \cup unsaved
  /\ \A u \in Thread : th[u].op = "save" => th[u].target # m
  /\ RefOf[m] \in stored \cup unsaved \cup {NoRef}
  /\ CountOp(t)
  /\ IF RefOf[m] = NoRef THEN Start(t, "save", m, m, "addSlot")
                         ELSE Start(t, "save", m, RefOf[m], "getSlot")
  /\ UNCHANGED <<stored, unsaved>>

\* The timer thread has saved m and releases it.
Flush(m) ==
  /\ m \in unsaved
  /\ stored' = stored \cup {m}
  /\ unsaved' = unsaved \ {m}
  /\ Start(Timer, "flush", m, m, "relRead")
  /\ UNCHANGED ops
---------------------------------------------------------------------------
(* tryGetFromCache and increaseBackRef.                                    *)

GetSlot(t) ==
  /\ At(t, "getSlot")
  /\ TakeSlot(t, "Getting", null, "getRead", "waitEnter")
  /\ UNCHANGED <<cache, LRUList, serial, records, callVars>>

\* A miss gives the slot back without making the lock invalid; a hit shows the
\* record to the threads that have found the lock.
GetRead(t) ==
  LET r == cache[th[t].id] IN
  /\ At(t, "getRead")
  /\ \/ /\ r = null
        /\ FreeSlot(th[t].id)
        /\ Goto(t, "loadSlot")
        /\ UNCHANGED <<serial, locks>>
     \/ /\ r # null
        /\ serial' = serial + 1
        /\ locks' = [locks EXCEPT ![th[t].lock].accessRecord = r]
        /\ Become(t, [th[t] EXCEPT !.pc = "getInc", !.rec = r, !.serial = serial'])
        /\ UNCHANGED slotLocks
  /\ UNCHANGED <<cache, LRUList, records, callVars>>

\* The first back reference takes the record out of LRUList.
GetInc(t) ==
  /\ At(t, "getInc")
  /\ AddBackRef(th[t].rec, 1)
  /\ Goto(t, IF records[th[t].rec].backReference = 0 THEN "getUnlist" ELSE "getSerial")
  /\ UNCHANGED <<cache, LRUList, slotLocks, serial, locks, callVars>>

GetUnlist(t) ==
  /\ At(t, "getUnlist")
  /\ Unlist(records[th[t].rec].serial)
  /\ Goto(t, "getSerial")
  /\ UNCHANGED <<cache, slotLocks, serial, records, locks, callVars>>

GetSerial(t) ==
  /\ At(t, "getSerial")
  /\ records' = [records EXCEPT ![th[t].rec].serial = th[t].serial]
  /\ Goto(t, "invalidate")
  /\ UNCHANGED <<cache, LRUList, slotLocks, serial, locks, callVars>>
---------------------------------------------------------------------------
(* tryGetAsLoad and recursiveAddAndGet.                                    *)

LoadSlot(t) ==
  /\ At(t, "loadSlot")
  /\ TakeSlot(t, "Loading", null, "loadRow", "waitEnter")
  /\ UNCHANGED <<cache, LRUList, serial, records, callVars>>

\* loadWithDependency.  A message that is not in the data store makes get()
\* throw, and its lock stays in the slot.
LoadRow(t) ==
  /\ At(t, "loadRow")
  /\ Become(t, IF th[t].id \in stored
               THEN [th[t] EXCEPT !.pc = "addRead", !.loaded = TRUE] ELSE Idle)
  /\ UNCHANGED <<cache, LRUList, slotLocks, serial, records, locks, callVars>>

AddSlot(t) ==
  /\ At(t, "addSlot")
  /\ TakeSlot(t, "Loading", null, "addRead", "waitEnter")
  /\ UNCHANGED <<cache, LRUList, serial, records, callVars>>

Found_Unchecked(t) == null   \* mutant: what was loaded is put without a look
Found(t) == cache[th[t].id]

\* In the cache already, or first the message it refers to.
AddRead(t) ==
  LET r == th[t]
      found == Found(t) IN
  /\ At(t, "addRead")
  /\ \/ /\ found # null
        /\ locks' = [locks EXCEPT ![r.lock].accessRecord = found]
        /\ Become(t, [r EXCEPT !.pc = "addInc", !.rec = found,
                               !.stray = r.loaded /\ r.outer = <<>>])
     \/ /\ found = null /\ RefOf[r.id] # NoRef
        /\ Become(t, [r EXCEPT !.pc = "addSlot", !.id = RefOf[r.id],
                       !.outer = Append(@, [id |-> r.id, lock |-> r.lock])])
        /\ UNCHANGED locks
     \/ /\ found = null /\ RefOf[r.id] = NoRef
        /\ Become(t, [r EXCEPT !.pc = "addPut", !.rec = null])
        /\ UNCHANGED locks
  /\ UNCHANGED <<cache, LRUList, slotLocks, serial, records, callVars>>

CountReference_Forgotten(t) == UNCHANGED records   \* mutant
CountReference(t) == AddBackRef(th[t].rec, 1)

AddInc(t) ==
  /\ At(t, "addInc")
  /\ CountReference(t)
  /\ Goto(t, IF records[th[t].rec].backReference = 0 THEN "addUnlist" ELSE "invalidate")
  /\ UNCHANGED <<cache, LRUList, slotLocks, serial, locks, callVars>>

AddUnlist(t) ==
  /\ At(t, "addUnlist")
  /\ Unlist(records[th[t].rec].serial)
  /\ serial' = serial + 1
  /\ records' = [records EXCEPT ![th[t].rec].serial = serial']
  /\ Goto(t, "invalidate")
  /\ UNCHANGED <<cache, slotLocks, locks, callVars>>

\* replaceReferenceMessage(actualRef): the record of the message it refers to.
Reference_Loaded(t) == null   \* mutant: the loaded copy is kept
Reference(t) == th[t].rec

\* A new record, with one back reference: of the child it is added for, or of
\* the caller.
AddPut(t) ==
  LET new == Len(records) + 1 IN
  /\ At(t, "addPut")
  /\ serial' = serial + 1
  /\ records' = Append(records, [message |-> th[t].id, serial |-> serial',
                                 backReference |-> 1, ref |-> Reference(t)])
  /\ cache' = [cache EXCEPT ![th[t].id] = new]
  /\ locks' = [locks EXCEPT ![th[t].lock].accessRecord = new]
  /\ Become(t, [th[t] EXCEPT !.pc = "invalidate", !.rec = new])
  /\ UNCHANGED <<LRUList, slotLocks, callVars>>
---------------------------------------------------------------------------
(* removeSelfFromLocks.                                                    *)

\* The threads signalAll() wakes.
Signalled(l) == {u \in Process : At(u, "await") /\ th[u].lock = l}

\* Under the write lock: alreadyInvalid, then signalAll.
Invalidate(t) ==
  \E step \in {<<"invalidate", "unslot">>, <<"relInvalidate", "relUnslot">>,
               <<"recInvalidate", "recUnslot">>} :
    /\ At(t, step[1])
    /\ Inside(t, th[t].lock) = {}
    /\ locks' = [locks EXCEPT ![th[t].lock].alreadyInvalid = TRUE]
    /\ th' = [u \in Process |->
                IF u = t THEN [th[u] EXCEPT !.pc = step[2]]
                ELSE IF u \in Signalled(th[t].lock) THEN [th[u] EXCEPT !.pc = "woken"]
                ELSE th[u]]
    /\ UNCHANGED <<cache, LRUList, slotLocks, serial, records, callVars>>

\* tryGetAsLoad returns the object it has loaded, whatever the cache holds.
Unslot(t) ==
  /\ At(t, "unslot")
  /\ FreeSlot(th[t].id)
  /\ Deliver(t, IF th[t].stray /\ th[t].outer = <<>> THEN null ELSE th[t].rec)
  /\ UNCHANGED <<cache, LRUList, serial, records, locks, stored, ops>>
---------------------------------------------------------------------------
(* waitForGetting and tryGetAsWait.                                        *)

WaitEnter(t) ==
  LET l == locks[th[t].lock] IN
  /\ At(t, "waitEnter")
  /\ \/ /\ l.alreadyInvalid \/ (l.lockState = "Getting" /\ l.accessRecord = null)
        /\ Retry(t)
     \/ /\ ~l.alreadyInvalid /\ l.lockState = "Getting" /\ l.accessRecord # null
        /\ Become(t, [th[t] EXCEPT !.pc = "waitInc", !.rec = l.accessRecord])
     \/ /\ ~l.alreadyInvalid /\ l.lockState # "Getting"
        /\ Goto(t, "waitAwait")
  /\ UNCHANGED <<cache, LRUList, slotLocks, serial, records, locks, callVars>>

\* The read lock was given back before the write lock was taken: look again.
StillValid_Unchecked(l) == TRUE   \* mutant: without the second look
StillValid(l) == ~locks[l].alreadyInvalid

WaitAwait(t) ==
  /\ At(t, "waitAwait")
  /\ IF StillValid(th[t].lock) THEN Goto(t, "await") ELSE Retry(t)
  /\ UNCHANGED <<cache, LRUList, slotLocks, serial, records, locks, callVars>>

\* await() returns, with the write lock.  What was recycled is added again.
Woken(t) ==
  LET l == locks[th[t].lock] IN
  /\ At(t, "woken")
  /\ Inside(t, th[t].lock) = {}
  /\ Become(t, IF l.lockState = "Loading"
               THEN [th[t] EXCEPT !.pc = "waitInc", !.rec = l.accessRecord]
               ELSE [th[t] EXCEPT !.pc = "addSlot"])
  /\ UNCHANGED <<cache, LRUList, slotLocks, serial, records, locks, callVars>>

WaitInc(t) ==
  /\ At(t, "waitInc")
  /\ AddBackRef(th[t].rec, 1)
  /\ IF records[th[t].rec].backReference = 0
     THEN Goto(t, "waitUnlist") /\ UNCHANGED unsaved ELSE Deliver(t, th[t].rec)
  /\ UNCHANGED <<cache, LRUList, slotLocks, serial, locks, stored, ops>>

WaitUnlist(t) ==
  /\ At(t, "waitUnlist")
  /\ Unlist(records[th[t].rec].serial)
  /\ Deliver(t, th[t].rec)
  /\ UNCHANGED <<cache, slotLocks, serial, records, locks, stored, ops>>
---------------------------------------------------------------------------
(* releaseMessage.                                                         *)

\* Without a record the thread fails with a NullPointerException.
RelRead(t) ==
  LET r == cache[th[t].id] IN
  /\ At(t, "relRead")
  /\ Become(t, [th[t] EXCEPT !.pc = IF r = null THEN "failed" ELSE "relSlot", !.rec = r])
  /\ UNCHANGED <<cache, LRUList, slotLocks, serial, records, locks, callVars>>

RelSlot(t) ==
  /\ At(t, "relSlot")
  /\ TakeSlot(t, "Recycling", th[t].rec, "relDec", "relShare")
  /\ UNCHANGED <<cache, LRUList, serial, records, callVars>>

\* Another thread holds the slot: the record is not put into LRUList.
RelShare(t) ==
  /\ At(t, "relShare")
  /\ AddBackRef(th[t].rec, -1)
  /\ Become(t, Idle)
  /\ UNCHANGED <<cache, LRUList, slotLocks, serial, locks, callVars>>

LastReference_OffByOne(t) == records[th[t].rec].backReference <= 2   \* mutant
LastReference(t) == records[th[t].rec].backReference = 1

RelDec(t) ==
  /\ At(t, "relDec")
  /\ AddBackRef(th[t].rec, -1)
  /\ Goto(t, IF LastReference(t) THEN "relList" ELSE "relInvalidate")
  /\ UNCHANGED <<cache, LRUList, slotLocks, serial, locks, callVars>>

RelList(t) ==
  /\ At(t, "relList")
  /\ Enlist(records[th[t].rec].serial, th[t].id)
  /\ Become(t, [th[t] EXCEPT !.pc = "relInvalidate",
                 !.exceeded = Cardinality(DOMAIN LRUList') > SizeLimit])
  /\ UNCHANGED <<cache, slotLocks, serial, records, locks, callVars>>

RelUnslot(t) ==
  /\ At(t, "relUnslot")
  /\ FreeSlot(th[t].id)
  /\ Become(t, IF th[t].exceeded THEN [th[t] EXCEPT !.pc = "recCopy"] ELSE Idle)
  /\ UNCHANGED <<cache, LRUList, serial, records, locks, callVars>>
---------------------------------------------------------------------------
(* recycle.                                                                *)

\* The next entry to try, or none is left.
TryNext(t, todo) ==
  IF todo = {} THEN Idle ELSE [th[t] EXCEPT !.pc = "recSlot", !.todo = todo]

\* tempCopy
RecCopy(t) ==
  /\ At(t, "recCopy")
  /\ Become(t, TryNext(t, {[serial |-> s, id |-> LRUList[s]] : s \in DOMAIN LRUList}))
  /\ UNCHANGED <<cache, LRUList, slotLocks, serial, records, locks, callVars>>

\* Oldest entry first.  put, not putIfAbsent: a lock another thread holds is
\* overwritten, and the recycling one stays in the slot when the entry is skipped.
RecSlot(t) ==
  /\ At(t, "recSlot")
  /\ \E entry \in th[t].todo :
       LET found == cache[entry.id]
           skip == slotLocks[entry.id] # null IN
       /\ \A later \in th[t].todo : entry.serial <= later.serial
       /\ locks' = Append(locks, [lockState |-> "Recycling", alreadyInvalid |-> FALSE,
                                  accessRecord |-> IF skip THEN null ELSE found])
       /\ slotLocks' = [slotLocks EXCEPT ![entry.id] = Len(locks')]
       /\ Become(t, IF skip THEN TryNext(t, th[t].todo \ {entry})
                    ELSE [th[t] EXCEPT !.pc = IF found = null THEN "failed" ELSE "recUnlist",
                            !.id = entry.id, !.serial = entry.serial, !.rec = found,
                            !.lock = Len(locks')])
  /\ UNCHANGED <<cache, LRUList, serial, records, callVars>>

RecUnlist(t) ==
  /\ At(t, "recUnlist")
  /\ Unlist(th[t].serial)
  /\ Goto(t, "recDrop")
  /\ UNCHANGED <<cache, slotLocks, serial, records, locks, callVars>>

RecDrop(t) ==
  /\ At(t, "recDrop")
  /\ cache' = [cache EXCEPT ![th[t].id] = null]
  /\ Goto(t, "recInvalidate")
  /\ UNCHANGED <<LRUList, slotLocks, serial, records, locks, callVars>>

\* One message is recycled a call; then the one it refers to is released.
Released_Nothing(t) == Idle   \* mutant: the reference is never given back
Released(t) ==
  IF RefOf[th[t].id] = NoRef THEN Idle
  ELSE [th[t] EXCEPT !.pc = "relRead", !.id = RefOf[th[t].id], !.exceeded = FALSE]

RecUnslot(t) ==
  /\ At(t, "recUnslot")
  /\ FreeSlot(th[t].id)
  /\ Become(t, Released(t))
  /\ UNCHANGED <<cache, LRUList, serial, records, locks, callVars>>
---------------------------------------------------------------------------
Step(t) ==
  \/ GetSlot(t) \/ GetRead(t) \/ GetInc(t) \/ GetUnlist(t) \/ GetSerial(t)
  \/ LoadSlot(t) \/ LoadRow(t)
  \/ AddSlot(t) \/ AddRead(t) \/ AddInc(t) \/ AddUnlist(t) \/ AddPut(t)
  \/ Invalidate(t) \/ Unslot(t)
  \/ WaitEnter(t) \/ WaitAwait(t) \/ Woken(t) \/ WaitInc(t) \/ WaitUnlist(t)
  \/ RelRead(t) \/ RelSlot(t) \/ RelShare(t) \/ RelDec(t) \/ RelList(t)
  \/ RelUnslot(t)
  \/ RecCopy(t) \/ RecSlot(t) \/ RecUnlist(t) \/ RecDrop(t)
  \/ RecUnslot(t)

Next ==
  \/ \E t \in Thread : \/ \E i \in Identifier : Query(t, i)
                       \/ \E m \in Message : Save(t, m)
  \/ \E m \in Message : Flush(m)
  \/ \E t \in Process : Step(t)

Spec == Init /\ [][Next]_vars

\* A thread inside a call is scheduled; nobody has to call.
FairSpec == Spec /\ \A t \in Process : WF_vars(Step(t))
---------------------------------------------------------------------------
ThreadState ==
  [pc : {"idle", "getSlot", "getRead", "getInc", "getUnlist", "getSerial",
         "loadSlot", "loadRow", "addSlot", "addRead", "addInc", "addUnlist",
         "addPut", "invalidate", "unslot", "waitEnter", "waitAwait", "await",
         "woken", "waitInc", "waitUnlist", "relRead", "relSlot", "relShare",
         "relDec", "relList", "relInvalidate", "relUnslot", "recCopy",
         "recSlot", "recUnlist", "recDrop", "recInvalidate", "recUnslot",
         "failed"},
   op : {"none", "query", "save", "flush"},
   target : Identifier \cup {NoRef}, id : Identifier \cup {NoRef},
   outer : Seq([id : Message, lock : DOMAIN locks]),
   lock : {null} \cup DOMAIN locks, rec : {null} \cup DOMAIN records,
   serial : 0..serial, loaded : BOOLEAN, stray : BOOLEAN, exceeded : BOOLEAN,
   todo : SUBSET [serial : 1..serial, id : Message], tries : 0..(TryMaxTimes - 1)]

\* Every variable, and every field of records and locks, has its type.
TypeOK ==
  /\ cache \in [Identifier -> {null} \cup DOMAIN records]
  /\ DOMAIN LRUList \subseteq 1..serial /\ Range(LRUList) \subseteq Message
  /\ slotLocks \in [Identifier -> {null} \cup DOMAIN locks]
  /\ \A r \in Range(records) :
       r \in [message : Message, serial : 1..serial, backReference : Int,
              ref : {null} \cup DOMAIN records]
  /\ \A l \in Range(locks) :
       l \in [lockState : {"Getting", "Loading", "Recycling"},
              accessRecord : {null} \cup DOMAIN records, alreadyInvalid : BOOLEAN]
  /\ th \in [Process -> ThreadState]
  /\ stored \subseteq Message /\ unsaved \subseteq Message
  /\ ops \in [Thread -> 0..MaxOps]

Cached == {m \in Message : cache[m] # null}
BackRef(m) == records[cache[m]].backReference
Quiet == \A t \in Process : At(t, "idle")

\* Every message in the cache "is a complete chain": the message it refers to
\* is cached too, and is the very object its reference points to.
ChainComplete ==
  \A m \in Cached : RefOf[m] # NoRef =>
    /\ RefOf[m] \in Cached
    /\ records[cache[m]].ref = cache[RefOf[m]]

\* No message has two records while nothing is recycled: two threads that miss
\* it at the same time do not both load it into the cache.
OneRecordEach ==
  \A r, q \in DOMAIN records : records[r].message = records[q].message => r = q

\* When no call is under way, the back references of a message are those of the
\* cached messages that refer to it and of the unsaved queue, and one for each
\* reply ever saved: save() gets the reference, and nobody releases it.
BackRefAccounts ==
  Quiet => \A m \in Cached :
    BackRef(m) = Cardinality({c \in Cached : RefOf[c] = m})
                 + (IF m \in unsaved THEN 1 ELSE 0)
                 + Cardinality({c \in (stored \cup unsaved) \ Range(Rows) : RefOf[c] = m})

\* When no call is under way, LRUList holds the messages without back references,
\* once each and under the serial of their record, and no more than sizeLimit.
LRUExact ==
  Quiet =>
    /\ Cardinality(DOMAIN LRUList) <= SizeLimit
    /\ DOMAIN LRUList = {records[cache[m]].serial : m \in {x \in Cached : BackRef(x) = 0}}
    /\ \A s \in DOMAIN LRUList : LRUList[s] \in Cached
                                 /\ records[cache[LRUList[s]]].serial = s

\* A message whose only copy is the runtime one is not recycled, nor one that a
\* thread was given and has not released.
InUseIsCached ==
  /\ unsaved \subseteq Cached
  /\ \A t \in Process : At(t, "relRead") => th[t].id \in Cached
  /\ \A t \in Process : ~At(t, "failed")

\* No slot stays locked when no call is under way.
SlotsGivenBack ==
  Quiet => \A i \in Identifier : slotLocks[i] = null

\* A call returns, whoever else is at work on the same messages.
CallsReturn == \A t \in Process : ~At(t, "idle") ~> At(t, "idle")
---------------------------------------------------------------------------
\* What get() says: it throws when the data store has no such message.  (The
\* second thread that asks for it waits for ever on the lock of the first.)
GetReturns == \A t \in Thread : th[t].op = "query" ~> th[t].op # "query"
=============================================================================
