------------------------ MODULE MessageCache_proofs ------------------------
(***************************************************************************)
(* Theorems about MessageCache.  A lock belongs to one message for ever; a  *)
(* name for every lock says to which, and everything that holds the lock    *)
(* agrees.  While nothing is recycled the slot of a message has one owner,  *)
(* and only the owner puts the message into the cache.  With one call at a  *)
(* time, recycling included, the back references are a ledger that every    *)
(* step balances: what refers to a message, and what the thread holds.      *)
(***************************************************************************)
EXTENDS MessageCache, QueueLemmas, FiniteSetTheorems

\* The steps of get() and of the part of save() that adds the message.
Calling ==
  {"getSlot", "getRead", "getInc", "getUnlist", "getSerial", "loadSlot", "loadRow",
   "addSlot", "addRead", "addInc", "addUnlist", "addPut", "invalidate", "unslot",
   "waitEnter", "waitAwait", "await", "woken", "waitInc", "waitUnlist"}

\* The thread has put its lock into the slot of the message.
Owning ==
  {"getRead", "getInc", "getUnlist", "getSerial", "loadRow", "addRead", "addInc",
   "addUnlist", "addPut", "invalidate", "unslot", "relDec", "relList",
   "relInvalidate", "relUnslot", "recUnlist", "recDrop", "recInvalidate",
   "recUnslot"}

\* The thread has found another's lock.
Waiting == {"waitEnter", "waitAwait", "await", "woken", "waitInc", "waitUnlist"}

\* Steps that are only reached with an identifier that a message has.
OfMessage ==
  {"addSlot", "addRead", "addInc", "addUnlist", "addPut", "relSlot", "relShare",
   "relDec", "relList", "recUnlist", "recDrop", "recInvalidate", "recUnslot"}

PCs ==
  Calling \cup {"idle", "relRead", "relSlot", "relShare", "relDec", "relList",
                "relInvalidate", "relUnslot", "recCopy", "recSlot", "recUnlist",
                "recDrop", "recInvalidate", "recUnslot", "failed"}

\* ThreadState, for L locks, R records and serials up to n.
States(L, R, n) ==
  [pc : PCs, op : {"none", "query", "save", "flush"},
   target : Identifier \cup {NoRef}, id : Identifier \cup {NoRef},
   outer : Seq([id : Message, lock : 1..L]),
   lock : {null} \cup 1..L, rec : {null} \cup 1..R,
   serial : 0..n, loaded : BOOLEAN, stray : BOOLEAN, exceeded : BOOLEAN,
   todo : SUBSET [serial : 1..n, id : Message], tries : 0..(TryMaxTimes - 1)]

\* What a thread carries at each step.
Shape(r) ==
  /\ r.pc # "idle" => r.id \in Identifier
  /\ r.pc \in Calling => r.op \in {"query", "save"}
  /\ r.op = "save" => r.target \in Message
  /\ r.pc \in Owning \cup Waiting => r.lock # null
  /\ r.pc \in OfMessage => r.id \in Message
  /\ r.outer # <<>> => r.id \in Message
  /\ r.pc \in {"getInc", "getUnlist", "getSerial"} => r.serial # 0
  /\ r.pc \in {"relSlot", "relDec", "relList"} => r.rec # null
  /\ r.pc = "recSlot" => r.todo # {}

\* The thread and its frames hold locks of their own messages, and wait with
\* await() only where a message is loaded or recycled.
Named(r, lk, name) ==
  /\ r.pc \in Owning \cup Waiting => name[r.lock] = r.id
  /\ \A k \in 1..Len(r.outer) : name[r.outer[k].lock] = r.outer[k].id
  /\ r.pc \in {"waitAwait", "await", "woken"} => lk[r.lock].lockState # "Getting"

Fit(r, lk, name, R, n) ==
  r \in States(Len(lk), R, n) /\ Shape(r) /\ Named(r, lk, name)

RecordType(R, n) ==
  [message : Message, serial : 1..n, backReference : Int, ref : {null} \cup 1..R]

LockType(R) ==
  [lockState : {"Getting", "Loading", "Recycling"}, accessRecord : {null} \cup 1..R,
   alreadyInvalid : BOOLEAN]

\* The shared state, with what the steps rely on: only messages are in the cache.
HeapOK ==
  /\ serial \in Nat
  /\ records \in Seq(RecordType(Len(records), serial))
  /\ locks \in Seq(LockType(Len(records)))
  /\ cache \in [Identifier -> {null} \cup 1..Len(records)]
  /\ \A i \in Identifier : cache[i] # null => i \in Message
  /\ \A s \in DOMAIN LRUList : s \in 1..serial /\ LRUList[s] \in Message
  /\ slotLocks \in [Identifier -> {null} \cup 1..Len(locks)]

StoreOK ==
  /\ stored \subseteq Message /\ unsaved \subseteq Message
  /\ ops \in [Thread -> 0..MaxOps]

NamesOK(name) ==
  /\ name \in Seq(Identifier) /\ Len(name) = Len(locks)
  /\ \A i \in Identifier : slotLocks[i] # null => name[slotLocks[i]] = i
  /\ \A l \in 1..Len(locks) : locks[l].lockState = "Recycling" => name[l] \in Message

ThreadsOK(name) ==
  /\ DOMAIN th = Process /\ th = [t \in Process |-> th[t]]
  /\ \A t \in Process : Fit(th[t], locks, name, Len(records), serial)

TypedWith(name) == HeapOK /\ StoreOK /\ NamesOK(name) /\ ThreadsOK(name)

TypeInv == \E name : TypedWith(name)
---------------------------------------------------------------------------
(* One owner of a slot, while nothing is recycled.                          *)

NothingRecycled == \A t \in Process : ~At(t, "recCopy")

Recycling == {"recCopy", "recSlot", "recUnlist", "recDrop", "recInvalidate", "recUnslot"}

\* The steps of a thread that has the record of its message, and of one that has
\* shown it in its lock.
HasRecord ==
  {"getInc", "getUnlist", "getSerial", "addInc", "addUnlist", "invalidate", "unslot",
   "waitInc", "waitUnlist", "relSlot"}

HasShown ==
  {"getInc", "getUnlist", "getSerial", "addInc", "addUnlist", "invalidate",
   "relDec", "relList", "relInvalidate"}

\* Each message in the cache has one record, of a complete chain.
OneRecord ==
  /\ \A x \in 1..Len(records) : cache[records[x].message] = x
  /\ \A i \in Identifier : cache[i] # null => records[cache[i]].message = i
  /\ ChainComplete

\* A lock shows the record of its message, and shows one before it is invalid.
LocksShow(name) ==
  \A l \in 1..Len(locks) :
    /\ locks[l].accessRecord # null => locks[l].accessRecord = cache[name[l]]
    /\ locks[l].alreadyInvalid => locks[l].accessRecord # null

\* The frames of recursiveAddAndGet: each waits for the message it refers to.
Frames(r, ca, sl) ==
  /\ \A k \in 1..Len(r.outer) :
       /\ ca[r.outer[k].id] = null
       /\ sl[r.outer[k].id] = r.outer[k].lock
       /\ RefOf[r.outer[k].id] = IF k = Len(r.outer) THEN r.id ELSE r.outer[k + 1].id
       /\ r.pc \in Owning => r.outer[k].id # r.id
  /\ \A j, k \in 1..Len(r.outer) : j # k => r.outer[j].id # r.outer[k].id

\* What a thread owns and knows.
Owner(r, ca, sl, lk) ==
  /\ r.pc \notin Recycling
  /\ r.pc \in Owning => sl[r.id] = r.lock
  /\ r.pc \in HasRecord => r.rec # null /\ ca[r.id] = r.rec
  /\ r.pc \in HasShown => lk[r.lock].accessRecord # null
  /\ r.pc = "woken" => lk[r.lock].alreadyInvalid
  /\ r.pc = "addPut" =>
       /\ ca[r.id] = null
       /\ RefOf[r.id] # NoRef => r.rec # null /\ ca[RefOf[r.id]] = r.rec

\* The messages whose slots a thread owns.
Claims(r) ==
  {r.outer[k].id : k \in 1..Len(r.outer)} \cup (IF r.pc \in Owning THEN {r.id} ELSE {})

OwnedWith(name) ==
  /\ TypedWith(name) /\ OneRecord /\ LocksShow(name)
  /\ \A t \in Process : Owner(th[t], cache, slotLocks, locks)
                         /\ Frames(th[t], cache, slotLocks)
  /\ \A t, u \in Process : t # u => Claims(th[t]) \cap Claims(th[u]) = {}

OwnedInv == \E name : OwnedWith(name)
---------------------------------------------------------------------------
(* Facts about the heap.                                                    *)

Grows(lk, lk2, name, name2) ==
  /\ Len(lk) \in Nat /\ Len(lk2) \in Nat /\ Len(lk) <= Len(lk2)
  /\ \A l \in 1..Len(lk) : lk2[l].lockState = lk[l].lockState /\ name2[l] = name[l]

LEMMA StatesGrow ==
  ASSUME NEW L \in Nat, NEW L2 \in Nat, L <= L2, NEW R \in Nat, NEW R2 \in Nat, R <= R2,
         NEW n \in Nat, NEW n2 \in Nat, n <= n2
  PROVE  States(L, R, n) \subseteq States(L2, R2, n2)
<1>1. 1..L \subseteq 1..L2 /\ 1..R \subseteq 1..R2 /\ 0..n \subseteq 0..n2
      /\ 1..n \subseteq 1..n2
  OBVIOUS
<1>2. [id : Message, lock : 1..L] \subseteq [id : Message, lock : 1..L2]
  BY <1>1
<1>3. [serial : 1..n, id : Message] \subseteq [serial : 1..n2, id : Message]
  BY <1>1
<1>4. Seq([id : Message, lock : 1..L]) \subseteq Seq([id : Message, lock : 1..L2])
  BY <1>2, SeqMonotonic
<1>5. SUBSET [serial : 1..n, id : Message] \subseteq SUBSET [serial : 1..n2, id : Message]
  BY <1>3
<1> HIDE DEF PCs
<1> QED BY <1>1, <1>4, <1>5 DEF States, null

LEMMA FitGrows ==
  ASSUME NEW lk, NEW lk2, NEW name, NEW name2, Grows(lk, lk2, name, name2),
         NEW R \in Nat, NEW R2 \in Nat, R <= R2, NEW n \in Nat, NEW n2 \in Nat, n <= n2,
         NEW r, Fit(r, lk, name, R, n)
  PROVE  Fit(r, lk2, name2, R2, n2)
<1>1. r \in States(Len(lk2), R2, n2)
  BY StatesGrow DEF Fit, Grows
<1>2. r.lock \in {null} \cup 1..Len(lk) /\ r.outer \in Seq([id : Message, lock : 1..Len(lk)])
  BY DEF Fit, States
<1>3. \A k \in 1..Len(r.outer) : r.outer[k].lock \in 1..Len(lk)
  <2> DEFINE frames == r.outer
  <2>1. \A k \in 1..Len(frames) : frames[k] \in [id : Message, lock : 1..Len(lk)]
    BY <1>2, ElementOfSeq
  <2> QED BY <2>1
<1>4. r.pc \in Owning \cup Waiting => r.lock \in 1..Len(lk)
  BY <1>2 DEF Fit, Shape
<1>5. r.pc \in {"waitAwait", "await", "woken"} => r.pc \in Owning \cup Waiting
  BY DEF Waiting
<1>6. Named(r, lk2, name2)
  BY <1>3, <1>4, <1>5 DEF Fit, Named, Grows
<1> QED BY <1>1, <1>6 DEF Fit

LEMMA RecordsGrow ==
  ASSUME NEW R \in Nat, NEW R2 \in Nat, R <= R2, NEW n \in Nat, NEW n2 \in Nat, n <= n2
  PROVE  /\ Seq(RecordType(R, n)) \subseteq Seq(RecordType(R2, n2))
         /\ Seq(LockType(R)) \subseteq Seq(LockType(R2))
<1>1. 1..R \subseteq 1..R2 /\ 1..n \subseteq 1..n2
  OBVIOUS
<1>2. RecordType(R, n) \subseteq RecordType(R2, n2)
  BY <1>1 DEF RecordType
<1>3. LockType(R) \subseteq LockType(R2)
  BY <1>1 DEF LockType
<1> QED BY <1>2, <1>3, SeqMonotonic

\* A field of a record changes, or nothing when there is no record.
LEMMA ExceptRecord ==
  ASSUME NEW S, NEW recs \in Seq(S), NEW x \in {null} \cup 1..Len(recs), NEW new,
         x # null => new \in S
  PROVE  /\ [recs EXCEPT ![x] = new] \in Seq(S)
         /\ Len([recs EXCEPT ![x] = new]) = Len(recs)
         /\ \A j \in 1..Len(recs) :
              [recs EXCEPT ![x] = new][j] = IF j = x THEN new ELSE recs[j]
<1>1. CASE x = null
  <2>1. DOMAIN recs = 1..Len(recs) /\ Len(recs) \in Nat /\ recs = [i \in DOMAIN recs |-> recs[i]]
    BY LenProperties
  <2>2. [recs EXCEPT ![x] = new] = recs
    BY <1>1, <2>1 DEF null
  <2> QED BY <1>1, <2>1, <2>2 DEF null
<1>2. CASE x # null
  BY <1>2, ExceptSeq
<1> QED BY <1>1, <1>2

\* The lengths and elements that a step may rely on.
LEMMA HeapFacts ==
  ASSUME HeapOK
  PROVE  /\ Len(records) \in Nat /\ Len(locks) \in Nat /\ serial \in Nat
         /\ \A x \in 1..Len(records) : records[x] \in RecordType(Len(records), serial)
         /\ \A l \in 1..Len(locks) : locks[l] \in LockType(Len(records))
<1>1. records \in Seq(RecordType(Len(records), serial)) /\ locks \in Seq(LockType(Len(records)))
  BY DEF HeapOK
<1> QED BY <1>1, LenProperties, ElementOfSeq DEF HeapOK

LEMMA BackRefHeap ==
  ASSUME HeapOK, NEW x \in {null} \cup 1..Len(records), NEW n \in Int, AddBackRef(x, n),
         UNCHANGED <<cache, LRUList, slotLocks, serial, locks>>
  PROVE  /\ HeapOK' /\ Len(records') = Len(records)
         /\ \A y \in 1..Len(records) : /\ records'[y].message = records[y].message
                                       /\ records'[y].ref = records[y].ref
<1> DEFINE S == RecordType(Len(records), serial)
           new == [records[x] EXCEPT !.backReference = records[x].backReference + n]
<1>1. records \in Seq(S) /\ \A y \in 1..Len(records) : records[y] \in S
  BY HeapFacts DEF HeapOK
<1>2. x # null => new \in S /\ new.message = records[x].message /\ new.ref = records[x].ref
  <2> SUFFICES ASSUME x # null
               PROVE  new \in S /\ new.message = records[x].message /\ new.ref = records[x].ref
    OBVIOUS
  <2>1. records[x] \in S
    BY <1>1
  <2> QED BY <2>1 DEF RecordType
<1>3. records' = [records EXCEPT ![x] = new]
  BY DEF AddBackRef
<1> HIDE DEF S, new
<1>4. /\ records' \in Seq(S) /\ Len(records') = Len(records)
      /\ \A j \in 1..Len(records) : records'[j] = IF j = x THEN new ELSE records[j]
  BY <1>1, <1>2, <1>3, ExceptRecord
<1>5. HeapOK'
  BY <1>4 DEF HeapOK, S
<1> QED BY <1>2, <1>4, <1>5 DEF null

\* A record gets a serial, an old one or the next.
NewSerial(x, s) == records' = [records EXCEPT ![x].serial = s]

LEMMA SerialHeap ==
  ASSUME HeapOK, NEW x \in {null} \cup 1..Len(records), serial' \in Nat, serial <= serial',
         NEW s \in 1..serial', NewSerial(x, s),
         DOMAIN LRUList' \subseteq DOMAIN LRUList,
         \A k \in DOMAIN LRUList' : LRUList'[k] = LRUList[k],
         UNCHANGED <<cache, slotLocks, locks>>
  PROVE  /\ HeapOK' /\ Len(records') = Len(records)
         /\ \A y \in 1..Len(records) : /\ records'[y].message = records[y].message
                                       /\ records'[y].ref = records[y].ref
<1> DEFINE S == RecordType(Len(records), serial')
           new == [records[x] EXCEPT !.serial = s]
<1>1. records \in Seq(S)
  BY HeapFacts, RecordsGrow DEF HeapOK
<1>2. \A y \in 1..Len(records) : records[y] \in S
  BY <1>1, ElementOfSeq
<1>3. x # null => new \in S /\ new.message = records[x].message /\ new.ref = records[x].ref
  <2> SUFFICES ASSUME x # null
               PROVE  new \in S /\ new.message = records[x].message /\ new.ref = records[x].ref
    OBVIOUS
  <2>1. records[x] \in S
    BY <1>2
  <2> QED BY <2>1 DEF RecordType
<1>4. records' = [records EXCEPT ![x] = new]
  BY DEF NewSerial
<1> HIDE DEF S, new
<1>5. /\ records' \in Seq(S) /\ Len(records') = Len(records)
      /\ \A j \in 1..Len(records) : records'[j] = IF j = x THEN new ELSE records[j]
  BY <1>1, <1>3, <1>4, ExceptRecord
<1>6. \A k \in DOMAIN LRUList' : k \in 1..serial' /\ LRUList'[k] \in Message
  BY DEF HeapOK
<1>7. HeapOK'
  BY <1>5, <1>6 DEF HeapOK, S
<1> QED BY <1>3, <1>5, <1>7 DEF null

ShowRecord(l, x) == locks' = [locks EXCEPT ![l].accessRecord = x]
MakeInvalid(l) == locks' = [locks EXCEPT ![l].alreadyInvalid = TRUE]
PutLock(new, i) ==
  /\ locks' = Append(locks, new)
  /\ slotLocks' = [slotLocks EXCEPT ![i] = Len(locks')]

\* A lock shows a record, or becomes invalid; its state stays.
LEMMA LockChanges ==
  ASSUME NEW R \in Nat, locks \in Seq(LockType(R)), NEW l \in 1..Len(locks),
         NEW x \in {null} \cup 1..R, ShowRecord(l, x) \/ MakeInvalid(l)
  PROVE  /\ locks' \in Seq(LockType(R)) /\ Len(locks') = Len(locks)
         /\ \A k \in 1..Len(locks) :
              /\ locks'[k].lockState = locks[k].lockState
              /\ k # l => locks'[k] = locks[k]
         /\ ShowRecord(l, x) => /\ locks'[l].accessRecord = x
                                /\ locks'[l].alreadyInvalid = locks[l].alreadyInvalid
         /\ MakeInvalid(l) => /\ locks'[l].accessRecord = locks[l].accessRecord
                              /\ locks'[l].alreadyInvalid = TRUE
<1> DEFINE S == LockType(R)
           shown == [locks[l] EXCEPT !.accessRecord = x]
           made == [locks[l] EXCEPT !.alreadyInvalid = TRUE]
<1>1. locks[l] \in S
  BY ElementOfSeq
<1>2. /\ shown \in S /\ shown.lockState = locks[l].lockState
      /\ shown.accessRecord = x /\ shown.alreadyInvalid = locks[l].alreadyInvalid
      /\ made \in S /\ made.lockState = locks[l].lockState
      /\ made.accessRecord = locks[l].accessRecord /\ made.alreadyInvalid = TRUE
  BY <1>1 DEF LockType
<1>3. /\ ShowRecord(l, x) => locks' = [locks EXCEPT ![l] = shown]
      /\ MakeInvalid(l) => locks' = [locks EXCEPT ![l] = made]
  BY DEF ShowRecord, MakeInvalid
<1> HIDE DEF S, shown, made
<1>4. locks \in Seq(S)
  BY DEF S
<1>5. CASE ShowRecord(l, x)
  <2>1. /\ locks' \in Seq(S) /\ Len(locks') = Len(locks)
        /\ \A k \in 1..Len(locks) : locks'[k] = IF k = l THEN shown ELSE locks[k]
    BY <1>2, <1>3, <1>4, <1>5, ExceptSeq
  <2>2. MakeInvalid(l) => made = shown
    BY <1>3, <1>4, <1>5, ExceptSeq, <1>2, <2>1
  <2> QED BY <1>2, <1>5, <2>1, <2>2 DEF S
<1>6. CASE MakeInvalid(l)
  <2>1. /\ locks' \in Seq(S) /\ Len(locks') = Len(locks)
        /\ \A k \in 1..Len(locks) : locks'[k] = IF k = l THEN made ELSE locks[k]
    BY <1>2, <1>3, <1>4, <1>6, ExceptSeq
  <2>2. ShowRecord(l, x) => made = shown
    BY <1>3, <1>4, <1>6, ExceptSeq, <1>2, <2>1
  <2> QED BY <1>2, <1>6, <2>1, <2>2 DEF S
<1> QED BY <1>5, <1>6

LEMMA NewLock ==
  ASSUME HeapOK, NEW name, NamesOK(name), NEW i \in Identifier,
         NEW new \in LockType(Len(records)), new.lockState = "Recycling" => i \in Message,
         PutLock(new, i), UNCHANGED <<cache, LRUList, serial, records>>
  PROVE  /\ HeapOK' /\ Len(locks') = Len(locks) + 1
         /\ locks'[Len(locks')] = new
         /\ \A l \in 1..Len(locks) : locks'[l] = locks[l]
         /\ \A j \in Identifier : slotLocks'[j] = IF j = i THEN Len(locks') ELSE slotLocks[j]
         /\ \E name2 : /\ NamesOK(name2)' /\ Grows(locks, locks', name, name2)
                       /\ name2[Len(locks')] = i
<1> DEFINE S == LockType(Len(records))
<1>1. locks \in Seq(S) /\ Len(locks) \in Nat /\ name \in Seq(Identifier)
      /\ Len(name) = Len(locks)
  BY HeapFacts DEF HeapOK, NamesOK
<1> HIDE DEF S
<1>2. locks' = Append(locks, new) /\ new \in S
  BY DEF PutLock, S
<1>3. /\ locks' \in Seq(S) /\ Len(locks') = Len(locks) + 1
      /\ locks'[Len(locks) + 1] = new
      /\ \A l \in 1..Len(locks) : locks'[l] = locks[l]
  BY <1>1, <1>2, AppendProperties
<1>4. slotLocks \in [Identifier -> {null} \cup 1..Len(locks)]
  BY DEF HeapOK
<1>5. /\ slotLocks' \in [Identifier -> {null} \cup 1..Len(locks')]
      /\ \A j \in Identifier : slotLocks'[j] = IF j = i THEN Len(locks') ELSE slotLocks[j]
  BY <1>1, <1>3, <1>4 DEF PutLock
<1>6. HeapOK'
  BY <1>3, <1>5 DEF HeapOK, S
<1>7. PICK name2 : name2 = Append(name, i)
  OBVIOUS
<1>8. /\ name2 \in Seq(Identifier) /\ Len(name2) = Len(locks')
      /\ name2[Len(locks) + 1] = i
      /\ \A l \in 1..Len(locks) : name2[l] = name[l]
  BY <1>1, <1>3, <1>7, AppendProperties
<1>9. NamesOK(name2)'
  <2>1. ASSUME NEW j \in Identifier, slotLocks'[j] # null PROVE name2[slotLocks'[j]] = j
    <3>1. CASE j = i
      BY <1>3, <1>5, <1>8, <3>1
    <3>2. CASE j # i
      BY <1>4, <1>5, <1>8, <2>1, <3>2 DEF NamesOK
    <3> QED BY <3>1, <3>2
  <2>2. ASSUME NEW l \in 1..Len(locks'), locks'[l].lockState = "Recycling"
        PROVE  name2[l] \in Message
    <3>1. CASE l = Len(locks) + 1
      BY <1>3, <1>8, <2>2, <3>1
    <3>2. CASE l # Len(locks) + 1
      <4>1. l \in 1..Len(locks)
        BY <1>1, <1>3, <3>2
      <4> QED BY <1>3, <1>8, <2>2, <4>1 DEF NamesOK
    <3> QED BY <3>1, <3>2
  <2> QED BY <1>8, <2>1, <2>2 DEF NamesOK
<1>10. Grows(locks, locks', name, name2)
  BY <1>1, <1>3, <1>8 DEF Grows
<1> QED BY <1>3, <1>5, <1>6, <1>8, <1>9, <1>10

LEMMA FreedSlot ==
  ASSUME HeapOK, NEW name, NamesOK(name), NEW i \in Identifier, FreeSlot(i),
         UNCHANGED <<cache, LRUList, serial, records, locks>>
  PROVE  /\ HeapOK' /\ NamesOK(name)'
         /\ \A j \in Identifier : slotLocks'[j] = IF j = i THEN null ELSE slotLocks[j]
<1>1. slotLocks \in [Identifier -> {null} \cup 1..Len(locks)]
  BY DEF HeapOK
<1>2. /\ slotLocks' \in [Identifier -> {null} \cup 1..Len(locks)]
      /\ \A j \in Identifier : slotLocks'[j] = IF j = i THEN null ELSE slotLocks[j]
  BY <1>1 DEF FreeSlot
<1>3. HeapOK'
  BY <1>2 DEF HeapOK
<1>4. NamesOK(name)'
  BY <1>2 DEF NamesOK
<1> QED BY <1>2, <1>3, <1>4

\* What a thread becomes is fit for what it does; the others stay fit.
LEMMA ThreadStep ==
  ASSUME NEW name, ThreadsOK(name), HeapOK, NEW name2, Grows(locks, locks', name, name2),
         Len(records') \in Nat, Len(records) <= Len(records'),
         serial' \in Nat, serial <= serial', NEW t \in Process,
         NEW r, Become(t, r), Fit(r, locks', name2, Len(records'), serial')
  PROVE  ThreadsOK(name2)'
<1>1. DOMAIN th = Process /\ \A u \in Process : Fit(th[u], locks, name, Len(records), serial)
  BY DEF ThreadsOK
<1>2. th' = [th EXCEPT ![t] = r]
  BY DEF Become
<1>3. /\ DOMAIN th' = Process /\ th' = [u \in Process |-> th'[u]]
      /\ \A u \in Process : th'[u] = IF u = t THEN r ELSE th[u]
  BY <1>1, <1>2
<1>4. \A u \in Process : Fit(th[u], locks', name2, Len(records'), serial')
  BY <1>1, HeapFacts, FitGrows
<1>5. \A u \in Process : Fit(th'[u], locks', name2, Len(records'), serial')
  BY <1>3, <1>4
<1> QED BY <1>3, <1>5 DEF ThreadsOK
---------------------------------------------------------------------------
(* Every step keeps the types and the names of the locks.                   *)

StepOK(name) == \E name2 : TypedWith(name2)' /\ Grows(locks, locks', name, name2)

LEMMA SameLocks ==
  ASSUME HeapOK, NEW name, UNCHANGED locks
  PROVE  Grows(locks, locks', name, name)
BY HeapFacts DEF Grows

LEMMA Together ==
  ASSUME NEW name, TypedWith(name), NEW name2, Grows(locks, locks', name, name2),
         HeapOK', StoreOK', NamesOK(name2)',
         Len(records) <= Len(records'), serial <= serial', NEW t \in Process,
         NEW r, Become(t, r), Fit(r, locks', name2, Len(records'), serial')
  PROVE  StepOK(name)
<1>1. Len(records') \in Nat /\ serial' \in Nat
  <2>1. records' \in Seq(RecordType(Len(records'), serial')) /\ serial' \in Nat
    BY DEF HeapOK
  <2> QED BY <2>1, LenProperties
<1>2. ThreadsOK(name2)'
  BY <1>1, ThreadStep DEF TypedWith
<1> QED BY <1>2 DEF StepOK, TypedWith

\* A thread that stays with its message.
LEMMA FitSame ==
  ASSUME NEW r, NEW q, NEW lk, NEW name, NEW R, NEW n, Fit(r, lk, name, R, n),
         q \in States(Len(lk), R, n), r.pc # "idle",
         q.id = r.id, q.outer = r.outer, q.op = r.op, q.target = r.target,
         q.pc \in Calling => r.pc \in Calling,
         q.pc \in Owning \cup Waiting =>
           q.lock # null /\ (name[q.lock] = r.id \/ (q.lock = r.lock /\ r.pc \in Owning \cup Waiting)),
         q.pc \in OfMessage => r.pc \in OfMessage \/ r.id \in Message,
         q.pc \in {"waitAwait", "await", "woken"} => lk[q.lock].lockState # "Getting",
         q.pc \in {"getInc", "getUnlist", "getSerial"} => q.serial # 0,
         q.pc \in {"relSlot", "relDec", "relList"} => q.rec # null,
         q.pc = "recSlot" => q.todo # {}
  PROVE  Fit(q, lk, name, R, n)
<1> HIDE DEF Calling, Owning, Waiting, OfMessage, States
<1>1. Shape(r) /\ Named(r, lk, name)
  BY DEF Fit
<1>2. Shape(q)
  BY <1>1 DEF Shape
<1>3. Named(q, lk, name)
  BY <1>1 DEF Named
<1> QED BY <1>2, <1>3 DEF Fit

LEMMA FitIdle ==
  ASSUME NEW lk, NEW name, NEW R \in Nat, NEW n \in Nat
  PROVE  Fit(Idle, lk, name, R, n)
<1>1. <<>> \in Seq([id : Message, lock : 1..Len(lk)]) /\ Len(<<>>) = 0
  BY EmptySeq
<1>2. Idle \in States(Len(lk), R, n)
  BY <1>1, CacheAssumption DEF Idle, States, PCs, null
<1>3. Shape(Idle)
  BY DEF Idle, Shape, Calling, Owning, Waiting, OfMessage
<1>4. Named(Idle, lk, name)
  BY <1>1 DEF Idle, Named, Owning, Waiting
<1> QED BY <1>2, <1>3, <1>4 DEF Fit

\* What a step may rely on.
LEMMA ThreadFacts ==
  ASSUME NEW name, TypedWith(name), NEW t \in Process
  PROVE  /\ HeapOK /\ StoreOK /\ NamesOK(name) /\ ThreadsOK(name)
         /\ Len(records) \in Nat /\ Len(locks) \in Nat /\ serial \in Nat
         /\ Fit(th[t], locks, name, Len(records), serial)
         /\ th[t] \in States(Len(locks), Len(records), serial)
         /\ Shape(th[t]) /\ Named(th[t], locks, name)
BY HeapFacts DEF TypedWith, ThreadsOK, Fit

\* A thread that only goes on to its next step.
LEMMA FitGoto ==
  ASSUME NEW r, NEW lk, NEW name, NEW R, NEW n, Fit(r, lk, name, R, n), NEW pc \in PCs,
         r.pc # "idle",
         pc \in Calling => r.pc \in Calling,
         pc \in Owning \cup Waiting => r.pc \in Owning \cup Waiting,
         pc \in OfMessage => r.pc \in OfMessage \/ r.id \in Message,
         pc \in {"waitAwait", "await", "woken"} =>
           \/ r.pc \in {"waitAwait", "await", "woken"}
           \/ lk[r.lock].lockState # "Getting",
         pc \in {"getInc", "getUnlist", "getSerial"} =>
           r.pc \in {"getInc", "getUnlist", "getSerial"},
         pc \in {"relSlot", "relDec", "relList"} => r.pc \in {"relSlot", "relDec", "relList"},
         pc # "recSlot"
  PROVE  Fit([r EXCEPT !.pc = pc], lk, name, R, n)
<1> DEFINE q == [r EXCEPT !.pc = pc]
<1>1. r \in States(Len(lk), R, n) /\ Shape(r) /\ Named(r, lk, name)
  BY DEF Fit
<1>2. /\ q.pc = pc /\ q.op = r.op /\ q.target = r.target /\ q.id = r.id
      /\ q.outer = r.outer /\ q.lock = r.lock /\ q.rec = r.rec /\ q.serial = r.serial
      /\ q.todo = r.todo
  BY <1>1 DEF States
<1>3. q \in States(Len(lk), R, n)
  <2> HIDE DEF PCs
  <2> QED BY <1>1 DEF States
<1> HIDE DEF q
<1>4. Shape(q)
  <2> HIDE DEF Calling, Owning, Waiting, OfMessage
  <2> QED BY <1>1, <1>2 DEF Shape
<1>5. Named(q, lk, name)
  <2> HIDE DEF Owning, Waiting
  <2> QED BY <1>1, <1>2 DEF Named
<1> QED BY <1>3, <1>4, <1>5 DEF Fit, q

\* What each pc says of the thread, for the steps that use it.
LEMMA PCFacts ==
  ASSUME NEW r, NEW L, NEW R, NEW n, r \in States(L, R, n), Shape(r)
  PROVE  /\ r.pc # "idle" => r.id \in Identifier
         /\ r.pc \in Owning \cup Waiting => r.lock \in 1..L
         /\ r.rec \in {null} \cup 1..R
BY DEF States, Shape

\* putIfAbsent of a new lock.
LEMMA TakeSlotStep ==
  ASSUME NEW name, TypedWith(name), NEW t \in Process,
         NEW state \in {"Getting", "Loading", "Recycling"},
         NEW x \in {null} \cup 1..Len(records),
         NEW mine \in {"getRead", "loadRow", "addRead", "relDec"},
         NEW theirs \in {"waitEnter", "relShare"},
         th[t].pc # "idle", TakeSlot(t, state, x, mine, theirs),
         theirs = "waitEnter" => th[t].pc \in Calling /\ mine # "relDec",
         mine = "relDec" \/ th[t].pc \in Calling,
         mine = "addRead" \/ state = "Recycling" \/ mine = "relDec" \/ theirs = "relShare"
           => th[t].id \in Message,
         mine = "relDec" => th[t].rec # null,
         UNCHANGED <<cache, LRUList, serial, records, callVars>>
  PROVE  StepOK(name)
<1> DEFINE r == th[t]
           i == r.id
           new == [lockState |-> state, accessRecord |-> x, alreadyInvalid |-> FALSE]
<1>1. /\ HeapOK /\ StoreOK /\ NamesOK(name) /\ Fit(r, locks, name, Len(records), serial)
      /\ r \in States(Len(locks), Len(records), serial) /\ Shape(r)
      /\ Len(records) \in Nat /\ Len(locks) \in Nat /\ serial \in Nat
  BY ThreadFacts
<1>2. i \in Identifier
  BY <1>1 DEF Shape
<1>3. StoreOK'
  BY <1>1 DEF StoreOK, callVars
<1>4. CASE slotLocks[i] = null
  <2> DEFINE q == [r EXCEPT !.pc = mine, !.lock = Len(locks')]
  <2>1. PutLock(new, i) /\ Become(t, q)
    BY <1>4 DEF TakeSlot, PutLock
  <2>2. new \in LockType(Len(records)) /\ new.lockState = state
    BY DEF LockType
  <2>3. state = "Recycling" => i \in Message
    OBVIOUS
  <2> HIDE DEF new
  <2>4. /\ HeapOK' /\ Len(locks') = Len(locks) + 1
        /\ \E name2 : /\ NamesOK(name2)' /\ Grows(locks, locks', name, name2)
                      /\ name2[Len(locks')] = i
    BY <1>1, <1>2, <2>1, <2>2, <2>3, NewLock
  <2>5. PICK name2 : /\ NamesOK(name2)' /\ Grows(locks, locks', name, name2)
                     /\ name2[Len(locks')] = i
    BY <2>4
  <2>6. Fit(r, locks', name2, Len(records), serial)
    BY <1>1, <2>5, FitGrows
  <2>7. q \in States(Len(locks'), Len(records), serial)
    <3>1. r \in States(Len(locks'), Len(records), serial) /\ Len(locks') \in 1..Len(locks')
      BY <1>1, <2>4, <2>6 DEF Fit
    <3>2. mine \in PCs
      BY DEF PCs, Calling
    <3> HIDE DEF PCs
    <3> QED BY <3>1, <3>2 DEF States
  <2>8. /\ q.pc = mine /\ q.lock = Len(locks') /\ q.id = r.id /\ q.outer = r.outer
        /\ q.op = r.op /\ q.target = r.target /\ q.rec = r.rec
    BY <1>1 DEF States
  <2> HIDE DEF q
  <2>9. Fit(q, locks', name2, Len(records), serial)
    BY <1>1, <2>4, <2>5, <2>6, <2>7, <2>8, FitSame
       DEF Calling, Owning, Waiting, OfMessage, null
  <2> QED BY <1>1, <1>3, <2>1, <2>4, <2>5, <2>9, Together
<1>5. CASE slotLocks[i] # null
  <2> DEFINE q == [r EXCEPT !.pc = theirs, !.lock = slotLocks[i]]
  <2>1. UNCHANGED <<locks, slotLocks>> /\ Become(t, q)
    BY <1>5 DEF TakeSlot
  <2>2. slotLocks[i] \in 1..Len(locks) /\ name[slotLocks[i]] = i
    BY <1>1, <1>2, <1>5 DEF HeapOK, NamesOK
  <2>3. q \in States(Len(locks), Len(records), serial)
    BY ZenonT(40), <1>1, <2>2 DEF States, PCs, Calling
  <2>4. /\ q.pc = theirs /\ q.lock = slotLocks[i] /\ q.id = r.id /\ q.outer = r.outer
        /\ q.op = r.op /\ q.target = r.target /\ q.rec = r.rec
    BY <1>1 DEF States
  <2> HIDE DEF q
  <2>5. Fit(q, locks, name, Len(records), serial)
    BY <1>1, <2>2, <2>3, <2>4, <1>5, FitSame DEF Calling, Owning, Waiting, OfMessage
  <2>6. HeapOK' /\ NamesOK(name)' /\ Grows(locks, locks', name, name)
    BY <1>1, <2>1, SameLocks DEF HeapOK, NamesOK
  <2> QED BY <1>1, <1>3, <2>1, <2>5, <2>6, Together
<1> QED BY <1>4, <1>5

\* The heap, the locks and the store stay as they are.
LEMMA ThreadOnly ==
  ASSUME NEW name, TypedWith(name), NEW t \in Process, NEW q, Become(t, q),
         Fit(q, locks, name, Len(records), serial),
         UNCHANGED <<cache, LRUList, slotLocks, serial, records, locks, callVars>>
  PROVE  StepOK(name)
<1>1. /\ HeapOK /\ StoreOK /\ NamesOK(name)
      /\ Len(records) \in Nat /\ Len(locks) \in Nat /\ serial \in Nat
  BY ThreadFacts
<1>2. HeapOK' /\ StoreOK' /\ NamesOK(name)' /\ Grows(locks, locks', name, name)
  BY <1>1, SameLocks DEF HeapOK, StoreOK, NamesOK, callVars
<1> QED BY <1>1, <1>2, Together

LEMMA RetryStep ==
  ASSUME NEW name, TypedWith(name), NEW t \in Process,
         th[t].pc \in {"waitEnter", "waitAwait"}, Retry(t),
         UNCHANGED <<cache, LRUList, slotLocks, serial, records, locks, callVars>>
  PROVE  StepOK(name)
<1> DEFINE r == th[t]
           fit(q) == Fit(q, locks, name, Len(records), serial)
<1>1. /\ fit(r) /\ r \in States(Len(locks), Len(records), serial) /\ Shape(r)
      /\ Len(records) \in Nat /\ Len(locks) \in Nat /\ serial \in Nat
  BY ThreadFacts
<1>2. CASE ~(Getting(t) /\ r.outer = <<>>)
  <2> DEFINE q == [r EXCEPT !.pc = "addSlot"]
  <2>1. Become(t, q)
    BY <1>2 DEF Retry
  <2>2. r.id \in Message
    BY <1>1, <1>2 DEF Shape, Getting, Calling
  <2>3. fit(q)
    BY <1>1, <2>2, FitGoto DEF PCs, Calling, Owning, Waiting, OfMessage
  <2> QED BY <2>1, <2>3, ThreadOnly
<1>3. CASE Getting(t) /\ r.outer = <<>> /\ TryAgain(t)
  <2> DEFINE q == [r EXCEPT !.pc = "getSlot", !.tries = r.tries + 1]
  <2>1. Become(t, q)
    BY <1>3 DEF Retry
  <2>2. q \in States(Len(locks), Len(records), serial)
    <3>1. r.tries + 1 \in 0..(TryMaxTimes - 1)
      BY SMTT(20), <1>1, <1>3, CacheAssumption DEF States, TryAgain
    <3>2. "getSlot" \in PCs
      BY DEF PCs, Calling
    <3> HIDE DEF PCs
    <3> QED BY <1>1, <3>1, <3>2 DEF States
  <2>3. /\ q.pc = "getSlot" /\ q.id = r.id /\ q.outer = r.outer
        /\ q.op = r.op /\ q.target = r.target
    BY <1>1 DEF States
  <2> HIDE DEF q
  <2>4. fit(q)
    BY <1>1, <2>2, <2>3, FitSame DEF Calling, Owning, Waiting, OfMessage
  <2> QED BY <2>1, <2>4, ThreadOnly
<1>4. CASE Getting(t) /\ r.outer = <<>> /\ ~TryAgain(t)
  <2>1. Become(t, Idle)
    BY <1>4 DEF Retry
  <2> QED BY <1>1, <2>1, FitIdle, ThreadOnly
<1> QED BY <1>2, <1>3, <1>4

\* The last of a sequence and the rest of it.
LEMMA FrontFacts ==
  ASSUME NEW S, NEW frames \in Seq(S), frames # <<>>
  PROVE  /\ Len(frames) \in Nat /\ Len(frames) >= 1 /\ Last(frames) = frames[Len(frames)]
         /\ Last(frames) \in S
         /\ Front(frames) \in Seq(S) /\ Len(Front(frames)) = Len(frames) - 1
         /\ \A k \in 1..(Len(frames) - 1) : Front(frames)[k] = frames[k]
<1>1. Len(frames) \in Nat /\ Len(frames) >= 1
  BY EmptySeq, LenProperties
<1>2. Last(frames) = frames[Len(frames)] /\ Last(frames) \in S
  BY <1>1, ElementOfSeq DEF Last
<1>3. Front(frames) = SubSeq(frames, 1, Len(frames) - 1)
  BY DEF Front
<1>4. \A k \in 1..(Len(frames) - 1) : frames[k] \in S
  BY <1>1, ElementOfSeq
<1> DEFINE n == Len(frames) - 1
<1>5. n \in Nat /\ \A k \in 1..n : frames[k] \in S
  BY <1>1, <1>4
<1> HIDE DEF n
<1>6. /\ SubSeq(frames, 1, n) \in Seq(S)
      /\ Len(SubSeq(frames, 1, n)) = IF 1 <= n THEN n - 1 + 1 ELSE 0
      /\ \A k \in 1..(n - 1 + 1) : SubSeq(frames, 1, n)[k] = frames[1 + k - 1]
  BY <1>5, SubSeqProperties
<1>7. /\ Len(SubSeq(frames, 1, n)) = n
      /\ \A k \in 1..n : SubSeq(frames, 1, n)[k] = frames[k]
  BY <1>5, <1>6
<1> QED BY <1>1, <1>2, <1>3, <1>6, <1>7 DEF n

LEMMA DeliverStep ==
  ASSUME NEW name, TypedWith(name), NEW t \in Process,
         th[t].pc \in {"unslot", "waitInc", "waitUnlist"},
         NEW x \in {null} \cup 1..Len(records), Deliver(t, x),
         HeapOK', NamesOK(name)', Len(records') = Len(records),
         UNCHANGED <<serial, locks, stored, ops>>
  PROVE  StepOK(name)
<1> DEFINE r == th[t]
           fit(q) == Fit(q, locks, name, Len(records), serial)
<1>1. /\ HeapOK /\ StoreOK /\ fit(r) /\ r \in States(Len(locks), Len(records), serial)
      /\ Shape(r) /\ Named(r, locks, name)
      /\ Len(records) \in Nat /\ Len(locks) \in Nat /\ serial \in Nat
  BY ThreadFacts
<1>2. Grows(locks, locks', name, name)
  BY <1>1, SameLocks
<1>3. r.op \in {"query", "save"} /\ (r.op = "save" => r.target \in Message)
  BY <1>1 DEF Shape, Calling
<1>4. ASSUME NEW q, Become(t, q), fit(q), StoreOK' PROVE StepOK(name)
  BY <1>1, <1>2, <1>4, Together
<1>5. CASE r.outer # <<>>
  <2> DEFINE S == [id : Message, lock : 1..Len(locks)]
             frames == r.outer
             frame == Last(frames)
             q == [r EXCEPT !.pc = "addPut", !.id = frame.id, !.lock = frame.lock,
                            !.outer = Front(frames), !.rec = x]
  <2>1. Become(t, q) /\ UNCHANGED unsaved
    BY <1>5 DEF Deliver
  <2>2. frames \in Seq(S)
    BY <1>1 DEF States
  <2>3. /\ Len(frames) \in Nat /\ Len(frames) >= 1 /\ frame = frames[Len(frames)]
        /\ frame \in S
        /\ Front(frames) \in Seq(S) /\ Len(Front(frames)) = Len(frames) - 1
        /\ \A k \in 1..(Len(frames) - 1) : Front(frames)[k] = frames[k]
    <3> HIDE DEF S
    <3> QED BY <1>5, <2>2, FrontFacts
  <2>4. /\ name[frame.lock] = frame.id /\ frame.id \in Message
        /\ frame.lock \in 1..Len(locks)
        /\ \A k \in 1..(Len(frames) - 1) : name[frames[k].lock] = frames[k].id
    BY <1>1, <2>3 DEF Named
  <2> HIDE DEF frame
  <2>5. q \in States(Len(locks), Len(records), serial)
    <3>1. "addPut" \in PCs
      BY DEF PCs, Calling
    <3> HIDE DEF PCs, frames
    <3> QED BY ZenonT(40), <1>1, <2>3, <2>4, <3>1 DEF States, Identifier
  <2>6. /\ q.pc = "addPut" /\ q.id = frame.id /\ q.lock = frame.lock
        /\ q.outer = Front(frames) /\ q.op = r.op /\ q.target = r.target
    BY <1>1 DEF States
  <2> HIDE DEF q
  <2>7. Shape(q)
    BY <1>3, <2>4, <2>6 DEF Shape, Calling, Owning, Waiting, OfMessage, Identifier, null
  <2>8. Named(q, locks, name)
    <3> HIDE DEF frames
    <3>1. Len(q.outer) = Len(frames) - 1
          /\ \A k \in 1..Len(q.outer) : q.outer[k] = frames[k]
      BY <2>3, <2>6
    <3>2. \A k \in 1..Len(q.outer) : name[q.outer[k].lock] = q.outer[k].id
      BY <2>4, <3>1
    <3> QED BY <2>4, <2>6, <3>2 DEF Named
  <2> QED BY <1>1, <1>4, <2>1, <2>5, <2>7, <2>8 DEF Fit, StoreOK
<1>6. CASE r.outer = <<>> /\ r.op = "query"
  <2> DEFINE q == [r EXCEPT !.pc = "relRead", !.rec = x]
  <2>1. Become(t, q) /\ UNCHANGED unsaved
    BY <1>6 DEF Deliver
  <2>2. q \in States(Len(locks), Len(records), serial)
    BY <1>1 DEF States, PCs
  <2>3. /\ q.pc = "relRead" /\ q.id = r.id /\ q.outer = r.outer
        /\ q.op = r.op /\ q.target = r.target
    BY <1>1 DEF States
  <2> HIDE DEF q
  <2>4. fit(q)
    BY <1>1, <2>2, <2>3, FitSame DEF Calling, Owning, Waiting, OfMessage
  <2> QED BY <1>1, <1>4, <2>1, <2>4 DEF StoreOK
<1>7. CASE r.outer = <<>> /\ r.op # "query" /\ Getting(t)
  <2> DEFINE q == [r EXCEPT !.pc = "addSlot", !.id = r.target, !.loaded = FALSE]
  <2>1. Become(t, q) /\ UNCHANGED unsaved
    BY <1>7 DEF Deliver
  <2>2. q \in States(Len(locks), Len(records), serial)
    <3>1. "addSlot" \in PCs
      BY DEF PCs, Calling
    <3> HIDE DEF PCs
    <3> QED BY <1>1, <3>1 DEF States
  <2>3. /\ q.pc = "addSlot" /\ q.id = r.target /\ q.outer = <<>>
        /\ q.op = r.op /\ q.target = r.target
    BY <1>1, <1>7 DEF States
  <2> HIDE DEF q
  <2>4. Shape(q)
    BY <1>3, <1>7, <2>3 DEF Shape, Owning, Waiting, Identifier
  <2>5. Named(q, locks, name)
    BY <2>3, EmptySeq DEF Named, Owning, Waiting
  <2> QED BY <1>1, <1>4, <2>1, <2>2, <2>4, <2>5 DEF Fit, StoreOK
<1>8. CASE r.outer = <<>> /\ r.op # "query" /\ ~Getting(t)
  <2>1. Become(t, Idle) /\ unsaved' = unsaved \cup {r.target}
    BY <1>8 DEF Deliver
  <2>2. StoreOK'
    BY <1>1, <1>3, <1>8, <2>1 DEF StoreOK
  <2> QED BY <1>1, <1>4, <2>1, <2>2, FitIdle
<1> QED BY <1>5, <1>6, <1>7, <1>8

\* No lock changes and no slot.
LEMMA LocksStay ==
  ASSUME NEW name, TypedWith(name), NEW t \in Process, NEW q, Become(t, q),
         HeapOK', UNCHANGED <<locks, slotLocks, callVars>>,
         Len(records) <= Len(records'), serial <= serial',
         Fit(q, locks, name, Len(records'), serial')
  PROVE  StepOK(name)
<1>1. /\ HeapOK /\ StoreOK /\ NamesOK(name)
  BY ThreadFacts
<1>2. StoreOK' /\ NamesOK(name)' /\ Grows(locks, locks', name, name)
  BY <1>1, SameLocks DEF StoreOK, NamesOK, callVars
<1> QED BY <1>1, <1>2, Together

\* A lock changes, but not its state.
LEMMA LockStep ==
  ASSUME NEW name, TypedWith(name), NEW R \in Nat, Len(records) <= R,
         NEW l \in 1..Len(locks), NEW x \in {null} \cup 1..R,
         ShowRecord(l, x) \/ MakeInvalid(l), UNCHANGED slotLocks
  PROVE  /\ locks' \in Seq(LockType(R)) /\ Len(locks') = Len(locks)
         /\ NamesOK(name)' /\ Grows(locks, locks', name, name)
<1>1. /\ HeapOK /\ NamesOK(name) /\ Len(records) \in Nat /\ Len(locks) \in Nat
      /\ serial \in Nat
  BY HeapFacts DEF TypedWith
<1>2. locks \in Seq(LockType(R))
  BY <1>1, RecordsGrow DEF HeapOK
<1>3. /\ locks' \in Seq(LockType(R)) /\ Len(locks') = Len(locks)
      /\ \A k \in 1..Len(locks) : locks'[k].lockState = locks[k].lockState
  BY <1>2, LockChanges
<1>4. NamesOK(name)'
  BY <1>1, <1>3 DEF NamesOK
<1> QED BY <1>1, <1>3, <1>4 DEF Grows

LEMMA UnlistHeap ==
  ASSUME HeapOK, NEW s, Unlist(s), UNCHANGED <<cache, slotLocks, serial, records, locks>>
  PROVE  HeapOK'
BY DEF HeapOK, Unlist

LEMMA GetKeepsTypes ==
  ASSUME NEW name, TypedWith(name), NEW t \in Process,
         GetSlot(t) \/ GetRead(t) \/ GetInc(t) \/ GetUnlist(t) \/ GetSerial(t)
  PROVE  StepOK(name)
<1> DEFINE r == th[t]
           fit(q) == Fit(q, locks, name, Len(records), serial)
<1>1. /\ HeapOK /\ StoreOK /\ NamesOK(name) /\ fit(r)
      /\ r \in States(Len(locks), Len(records), serial) /\ Shape(r)
      /\ Len(records) \in Nat /\ Len(locks) \in Nat /\ serial \in Nat
  BY ThreadFacts
<1>2. /\ r.pc # "idle" => r.id \in Identifier
      /\ r.pc \in Owning \cup Waiting => r.lock \in 1..Len(locks)
      /\ r.rec \in {null} \cup 1..Len(records)
  BY <1>1, PCFacts
<1>3. CASE GetSlot(t)
  <2>1. TakeSlot(t, "Getting", null, "getRead", "waitEnter") /\ r.pc = "getSlot"
        /\ UNCHANGED <<cache, LRUList, serial, records, callVars>>
    BY <1>3 DEF GetSlot, At
  <2>2. r.pc # "idle" /\ r.pc \in Calling
    BY <2>1 DEF Calling
  <2> QED BY <1>1, <2>1, <2>2, TakeSlotStep
<1>4. CASE GetRead(t)
  <2>1. r.pc = "getRead" /\ r.id \in Identifier /\ r.lock \in 1..Len(locks)
        /\ UNCHANGED <<cache, LRUList, records, callVars>>
    BY <1>2, <1>4 DEF GetRead, At, Owning
  <2>2. CASE cache[r.id] = null
    <3> DEFINE q == [r EXCEPT !.pc = "loadSlot"]
    <3>1. FreeSlot(r.id) /\ Become(t, q) /\ UNCHANGED <<serial, locks>>
      BY <1>4, <2>2 DEF GetRead, Goto
    <3>2. fit(q)
      BY <1>1, <2>1, FitGoto DEF PCs, Calling, Owning, Waiting, OfMessage
    <3>3. HeapOK' /\ NamesOK(name)' /\ StoreOK'
      BY <1>1, <2>1, <3>1, FreedSlot DEF StoreOK, callVars
    <3>4. Grows(locks, locks', name, name)
      BY <1>1, <3>1, SameLocks
    <3> QED BY <1>1, <2>1, <3>1, <3>2, <3>3, <3>4, Together
  <2>3. CASE cache[r.id] # null
    <3> DEFINE x == cache[r.id]
               q == [r EXCEPT !.pc = "getInc", !.rec = x, !.serial = serial']
    <3>1. /\ serial' = serial + 1 /\ ShowRecord(r.lock, x) /\ UNCHANGED slotLocks
          /\ Become(t, q)
      BY <1>4, <2>3 DEF GetRead, ShowRecord
    <3>2. x \in 1..Len(records)
      BY <1>1, <2>1, <2>3 DEF HeapOK
    <3>3. /\ locks' \in Seq(LockType(Len(records))) /\ Len(locks') = Len(locks)
          /\ NamesOK(name)' /\ Grows(locks, locks', name, name)
      BY <1>1, <2>1, <3>1, <3>2, LockStep
    <3>4. HeapOK'
      <4>1. records \in Seq(RecordType(Len(records), serial'))
        BY SMTT(20), <1>1, <3>1, RecordsGrow DEF HeapOK
      <4> QED BY <1>1, <2>1, <3>1, <3>3, <4>1 DEF HeapOK
    <3>5. Fit(r, locks', name, Len(records), serial')
      <4>1. serial' \in Nat /\ serial <= serial' /\ Len(records) <= Len(records)
        BY <1>1, <3>1
      <4> QED BY <1>1, <3>3, <4>1, FitGrows
    <3>6. q \in States(Len(locks'), Len(records), serial')
      <4>1. "getInc" \in PCs /\ r \in States(Len(locks'), Len(records), serial')
            /\ serial' \in 0..serial'
        BY <1>1, <3>1, <3>5 DEF PCs, Calling, Fit
      <4> HIDE DEF PCs, x
      <4> QED BY <3>2, <4>1 DEF States
    <3>7. /\ q.pc = "getInc" /\ q.serial = serial' /\ q.id = r.id /\ q.outer = r.outer
          /\ q.lock = r.lock /\ q.op = r.op /\ q.target = r.target
      BY <1>1 DEF States
    <3> HIDE DEF q
    <3>8. Fit(q, locks', name, Len(records), serial')
      <4>1. serial' # 0
        BY <1>1, <3>1
      <4> QED BY <2>1, <3>5, <3>6, <3>7, <4>1, FitSame
              DEF Calling, Owning, Waiting, OfMessage, null
    <3> QED BY <1>1, <2>1, <3>1, <3>3, <3>4, <3>8, Together DEF StoreOK, callVars
  <2> QED BY <2>2, <2>3
<1>5. CASE GetInc(t)
  <2> DEFINE pc == IF records[r.rec].backReference = 0 THEN "getUnlist" ELSE "getSerial"
             q == [r EXCEPT !.pc = pc]
  <2>1. /\ r.pc = "getInc" /\ AddBackRef(r.rec, 1) /\ Become(t, q)
        /\ UNCHANGED <<cache, LRUList, slotLocks, serial, locks, callVars>>
    BY <1>5 DEF GetInc, At, Goto
  <2>2. HeapOK' /\ Len(records') = Len(records)
    <3>1. /\ HeapOK /\ r.rec \in {null} \cup 1..Len(records) /\ AddBackRef(r.rec, 1)
          /\ UNCHANGED <<cache, LRUList, slotLocks, serial, locks>>
      BY <1>1, <1>2, <2>1
    <3> QED BY <3>1, BackRefHeap
  <2>3. pc \in {"getUnlist", "getSerial"}
    OBVIOUS
  <2> HIDE DEF pc
  <2>4. fit(q)
    BY <1>1, <2>1, <2>3, FitGoto DEF PCs, Calling, Owning, Waiting, OfMessage
  <2> QED BY <1>1, <2>1, <2>2, <2>4, LocksStay
<1>6. CASE GetUnlist(t)
  <2> DEFINE q == [r EXCEPT !.pc = "getSerial"]
  <2>1. /\ r.pc = "getUnlist" /\ Unlist(records[r.rec].serial) /\ Become(t, q)
        /\ UNCHANGED <<cache, slotLocks, serial, records, locks, callVars>>
    BY <1>6 DEF GetUnlist, At, Goto
  <2>2. HeapOK'
    BY <1>1, <2>1, UnlistHeap
  <2>3. fit(q)
    BY <1>1, <2>1, FitGoto DEF PCs, Calling, Owning, Waiting, OfMessage
  <2> QED BY <1>1, <2>1, <2>2, <2>3, LocksStay
<1>7. CASE GetSerial(t)
  <2> DEFINE q == [r EXCEPT !.pc = "invalidate"]
  <2>1. /\ r.pc = "getSerial" /\ NewSerial(r.rec, r.serial) /\ Become(t, q)
        /\ UNCHANGED <<cache, LRUList, slotLocks, serial, locks, callVars>>
    BY <1>7 DEF GetSerial, At, Goto, NewSerial
  <2>2. r.serial \in 1..serial'
    BY <1>1, <2>1 DEF States, Shape
  <2>3. HeapOK' /\ Len(records') = Len(records)
    <3>1. /\ HeapOK /\ r.rec \in {null} \cup 1..Len(records) /\ NewSerial(r.rec, r.serial)
          /\ serial' \in Nat /\ serial <= serial' /\ LRUList' = LRUList
          /\ UNCHANGED <<cache, slotLocks, locks>>
      BY <1>1, <1>2, <2>1
    <3> QED BY <2>2, <3>1, SerialHeap
  <2>4. fit(q)
    BY <1>1, <2>1, FitGoto DEF PCs, Calling, Owning, Waiting, OfMessage
  <2> QED BY <1>1, <2>1, <2>3, <2>4, LocksStay
<1> QED BY <1>3, <1>4, <1>5, <1>6, <1>7

LEMMA AddKeepsTypes ==
  ASSUME NEW name, TypedWith(name), NEW t \in Process,
         LoadSlot(t) \/ LoadRow(t) \/ AddSlot(t) \/ AddInc(t) \/ AddUnlist(t)
  PROVE  StepOK(name)
<1> DEFINE r == th[t]
           fit(q) == Fit(q, locks, name, Len(records), serial)
<1>1. /\ HeapOK /\ StoreOK /\ NamesOK(name) /\ fit(r)
      /\ r \in States(Len(locks), Len(records), serial) /\ Shape(r)
      /\ Len(records) \in Nat /\ Len(locks) \in Nat /\ serial \in Nat
  BY ThreadFacts
<1>2. /\ r.pc # "idle" => r.id \in Identifier
      /\ r.pc \in Owning \cup Waiting => r.lock \in 1..Len(locks)
      /\ r.rec \in {null} \cup 1..Len(records)
  BY <1>1, PCFacts
<1>3. CASE LoadSlot(t)
  <2>1. TakeSlot(t, "Loading", null, "loadRow", "waitEnter") /\ r.pc = "loadSlot"
        /\ UNCHANGED <<cache, LRUList, serial, records, callVars>>
    BY <1>3 DEF LoadSlot, At
  <2>2. r.pc # "idle" /\ r.pc \in Calling
    BY <2>1 DEF Calling
  <2> QED BY <1>1, <2>1, <2>2, TakeSlotStep
<1>4. CASE LoadRow(t)
  <2> DEFINE q == [r EXCEPT !.pc = "addRead", !.loaded = TRUE]
  <2>1. r.pc = "loadRow" /\ Become(t, IF r.id \in stored THEN q ELSE Idle)
        /\ UNCHANGED <<cache, LRUList, slotLocks, serial, records, locks, callVars>>
    BY <1>4 DEF LoadRow, At
  <2>2. CASE r.id \in stored
    <3>1. q \in States(Len(locks), Len(records), serial)
      <4>1. "addRead" \in PCs
        BY DEF PCs, Calling
      <4> HIDE DEF PCs
      <4> QED BY <1>1, <4>1 DEF States
    <3>2. /\ q.pc = "addRead" /\ q.id = r.id /\ q.outer = r.outer /\ q.lock = r.lock
          /\ q.op = r.op /\ q.target = r.target
      BY <1>1 DEF States
    <3>3. r.id \in Message /\ Become(t, q)
      BY <1>1, <2>1, <2>2 DEF StoreOK
    <3> HIDE DEF q
    <3>4. fit(q)
      BY <1>1, <1>2, <2>1, <3>1, <3>2, <3>3, FitSame
         DEF Calling, Owning, Waiting, OfMessage, null
    <3> QED BY <2>1, <3>3, <3>4, ThreadOnly
  <2>3. CASE r.id \notin stored
    BY <1>1, <2>1, <2>3, FitIdle, ThreadOnly
  <2> QED BY <2>2, <2>3
<1>5. CASE AddSlot(t)
  <2>1. TakeSlot(t, "Loading", null, "addRead", "waitEnter") /\ r.pc = "addSlot"
        /\ UNCHANGED <<cache, LRUList, serial, records, callVars>>
    BY <1>5 DEF AddSlot, At
  <2>2. r.pc # "idle" /\ r.pc \in Calling /\ r.id \in Message
    BY <1>1, <2>1 DEF Calling, Shape, OfMessage
  <2> QED BY <1>1, <2>1, <2>2, TakeSlotStep
<1>6. CASE AddInc(t)
  <2> DEFINE pc == IF records[r.rec].backReference = 0 THEN "addUnlist" ELSE "invalidate"
             q == [r EXCEPT !.pc = pc]
  <2>1. /\ r.pc = "addInc" /\ AddBackRef(r.rec, 1) /\ Become(t, q)
        /\ UNCHANGED <<cache, LRUList, slotLocks, serial, locks, callVars>>
    BY <1>6 DEF AddInc, At, Goto, CountReference
  <2>2. HeapOK' /\ Len(records') = Len(records)
    <3>1. /\ HeapOK /\ r.rec \in {null} \cup 1..Len(records) /\ AddBackRef(r.rec, 1)
          /\ UNCHANGED <<cache, LRUList, slotLocks, serial, locks>>
      BY <1>1, <1>2, <2>1
    <3> QED BY <3>1, BackRefHeap
  <2>3. pc \in {"addUnlist", "invalidate"}
    OBVIOUS
  <2> HIDE DEF pc
  <2>4. fit(q)
    BY <1>1, <2>1, <2>3, FitGoto DEF PCs, Calling, Owning, Waiting, OfMessage
  <2> QED BY <1>1, <2>1, <2>2, <2>4, LocksStay
<1>7. CASE AddUnlist(t)
  <2> DEFINE q == [r EXCEPT !.pc = "invalidate"]
  <2>1. /\ r.pc = "addUnlist" /\ Unlist(records[r.rec].serial) /\ serial' = serial + 1
        /\ NewSerial(r.rec, serial') /\ Become(t, q)
        /\ UNCHANGED <<cache, slotLocks, locks, callVars>>
    BY <1>7 DEF AddUnlist, At, Goto, NewSerial
  <2>2. serial' \in 1..serial' /\ serial' \in Nat /\ serial <= serial'
    BY <1>1, <2>1
  <2>3. /\ DOMAIN LRUList' \subseteq DOMAIN LRUList
        /\ \A k \in DOMAIN LRUList' : LRUList'[k] = LRUList[k]
    BY <2>1 DEF Unlist
  <2>4. HeapOK' /\ Len(records') = Len(records)
    <3>1. /\ HeapOK /\ r.rec \in {null} \cup 1..Len(records) /\ NewSerial(r.rec, serial')
          /\ UNCHANGED <<cache, slotLocks, locks>>
      BY <1>1, <1>2, <2>1
    <3> QED BY <2>2, <2>3, <3>1, SerialHeap
  <2>5. fit(q)
    BY <1>1, <2>1, FitGoto DEF PCs, Calling, Owning, Waiting, OfMessage
  <2>6. Fit(q, locks, name, Len(records'), serial')
    <3> HIDE DEF q
    <3> QED BY <1>1, <2>1, <2>2, <2>4, <2>5, SameLocks, FitGrows
  <2> QED BY <1>1, <2>1, <2>2, <2>4, <2>6, LocksStay
<1> QED BY <1>3, <1>4, <1>5, <1>6, <1>7

\* In the cache already, or first the message it refers to.
LEMMA AddReadKeepsTypes ==
  ASSUME NEW name, TypedWith(name), NEW t \in Process, AddRead(t)
  PROVE  StepOK(name)
<1> DEFINE r == th[t]
           fit(q) == Fit(q, locks, name, Len(records), serial)
           x == cache[r.id]
<1>1. /\ HeapOK /\ StoreOK /\ NamesOK(name) /\ fit(r)
      /\ r \in States(Len(locks), Len(records), serial) /\ Shape(r)
      /\ Named(r, locks, name)
      /\ Len(records) \in Nat /\ Len(locks) \in Nat /\ serial \in Nat
  BY ThreadFacts
<1>2. /\ r.pc = "addRead" /\ r.id \in Message /\ r.id \in Identifier
      /\ r.lock \in 1..Len(locks) /\ r.op \in {"query", "save"}
      /\ (r.op = "save" => r.target \in Message)
      /\ UNCHANGED <<cache, LRUList, slotLocks, serial, records, callVars>>
  BY <1>1, PCFacts DEF AddRead, At, Shape, Owning, OfMessage, Calling
<1>3. CASE x # null
  <2> DEFINE q == [r EXCEPT !.pc = "addInc", !.rec = x,
                            !.stray = r.loaded /\ r.outer = <<>>]
  <2>1. ShowRecord(r.lock, x) /\ Become(t, q)
    BY <1>3 DEF AddRead, ShowRecord, Found
  <2>2. x \in 1..Len(records)
    BY <1>1, <1>2, <1>3 DEF HeapOK
  <2> HIDE DEF x
  <2>3. /\ locks' \in Seq(LockType(Len(records))) /\ Len(locks') = Len(locks)
        /\ NamesOK(name)' /\ Grows(locks, locks', name, name)
    BY <1>1, <1>2, <2>1, <2>2, LockStep
  <2>4. HeapOK'
    BY <1>1, <1>2, <2>3 DEF HeapOK
  <2>5. Fit(r, locks', name, Len(records), serial)
    BY <1>1, <2>3, FitGrows
  <2>6. q \in States(Len(locks'), Len(records), serial)
    <3>1. "addInc" \in PCs /\ r \in States(Len(locks'), Len(records), serial)
      BY <2>5 DEF PCs, Calling, Fit
    <3> HIDE DEF PCs
    <3> QED BY ZenonT(40), <2>2, <3>1 DEF States
  <2>7. /\ q.pc = "addInc" /\ q.id = r.id /\ q.outer = r.outer
        /\ q.lock = r.lock /\ q.op = r.op /\ q.target = r.target
    BY <1>1 DEF States
  <2> HIDE DEF q
  <2>8. Fit(q, locks', name, Len(records), serial)
    BY <1>2, <2>5, <2>6, <2>7, FitSame DEF Calling, Owning, Waiting, OfMessage, null
  <2> QED BY <1>1, <1>2, <2>1, <2>3, <2>4, <2>8, Together DEF StoreOK, callVars
<1>4. CASE x = null /\ RefOf[r.id] # NoRef
  <2> DEFINE S == [id : Message, lock : 1..Len(locks)]
             frame == [id |-> r.id, lock |-> r.lock]
             q == [r EXCEPT !.pc = "addSlot", !.id = RefOf[r.id],
                            !.outer = Append(r.outer, frame)]
  <2>1. UNCHANGED locks /\ Become(t, q)
    BY <1>4 DEF AddRead, Found
  <2>2. RefOf[r.id] \in Message
    BY <1>2, <1>4, CacheAssumption
  <2>3. r.outer \in Seq(S) /\ frame \in S /\ frame.id = r.id /\ frame.lock = r.lock
    BY <1>1, <1>2 DEF States
  <2> HIDE DEF frame, S
  <2>4. /\ Append(r.outer, frame) \in Seq(S) /\ Len(r.outer) \in Nat
        /\ Len(Append(r.outer, frame)) = Len(r.outer) + 1
        /\ Append(r.outer, frame)[Len(r.outer) + 1] = frame
        /\ \A k \in 1..Len(r.outer) : Append(r.outer, frame)[k] = r.outer[k]
    BY <2>3, AppendProperties, LenProperties
  <2>5. q \in States(Len(locks), Len(records), serial)
    <3>1. "addSlot" \in PCs
      BY DEF PCs, Calling
    <3> DEFINE to == RefOf[r.id]
               more == Append(r.outer, frame)
    <3>2. to \in Identifier \cup {NoRef} /\ more \in Seq([id : Message, lock : 1..Len(locks)])
      BY <2>2, <2>4 DEF S, Identifier
    <3> HIDE DEF PCs, to, more
    <3>3. [r EXCEPT !.pc = "addSlot", !.id = to, !.outer = more]
            \in States(Len(locks), Len(records), serial)
      BY <1>1, <3>1, <3>2 DEF States
    <3> QED BY <3>3 DEF to, more
  <2>6. /\ q.pc = "addSlot" /\ q.id = RefOf[r.id] /\ q.outer = Append(r.outer, frame)
        /\ q.op = r.op /\ q.target = r.target
    BY <1>1 DEF States
  <2> HIDE DEF q
  <2>7. Shape(q)
    BY <1>2, <2>2, <2>6 DEF Shape, Owning, Waiting, Identifier
  <2>8. Named(q, locks, name)
    <3>1. ASSUME NEW k \in 1..Len(q.outer) PROVE name[q.outer[k].lock] = q.outer[k].id
      <4>1. CASE k = Len(r.outer) + 1
        BY <1>1, <1>2, <2>3, <2>4, <2>6, <4>1 DEF Named, Owning
      <4>2. CASE k # Len(r.outer) + 1
        <5>1. k \in 1..Len(r.outer) /\ q.outer[k] = r.outer[k]
          BY <2>4, <2>6, <4>2
        <5> QED BY <1>1, <5>1 DEF Named
      <4> QED BY <4>1, <4>2
    <3> QED BY <2>6, <3>1 DEF Named, Owning, Waiting
  <2> QED BY <1>1, <1>2, <2>1, <2>5, <2>7, <2>8, ThreadOnly DEF Fit
<1>5. CASE x = null /\ RefOf[r.id] = NoRef
  <2> DEFINE q == [r EXCEPT !.pc = "addPut", !.rec = null]
  <2>1. UNCHANGED locks /\ Become(t, q)
    BY <1>5 DEF AddRead, Found
  <2>2. q \in States(Len(locks), Len(records), serial)
    <3>1. "addPut" \in PCs
      BY DEF PCs, Calling
    <3> HIDE DEF PCs
    <3> QED BY <1>1, <3>1 DEF States
  <2>3. /\ q.pc = "addPut" /\ q.id = r.id /\ q.outer = r.outer /\ q.lock = r.lock
        /\ q.op = r.op /\ q.target = r.target
    BY <1>1 DEF States
  <2> HIDE DEF q
  <2>4. fit(q)
    BY <1>1, <1>2, <2>2, <2>3, FitSame DEF Calling, Owning, Waiting, OfMessage, null
  <2> QED BY <1>1, <1>2, <2>1, <2>4, ThreadOnly
<1> QED BY <1>3, <1>4, <1>5

\* A new record.
LEMMA AddPutKeepsTypes ==
  ASSUME NEW name, TypedWith(name), NEW t \in Process, AddPut(t)
  PROVE  StepOK(name)
<1> DEFINE r == th[t]
           R == Len(records)
           rec == [message |-> r.id, serial |-> serial', backReference |-> 1, ref |-> r.rec]
           q == [r EXCEPT !.pc = "invalidate", !.rec = R + 1]
<1>1. /\ HeapOK /\ StoreOK /\ NamesOK(name) /\ Fit(r, locks, name, R, serial)
      /\ r \in States(Len(locks), R, serial) /\ Shape(r)
      /\ R \in Nat /\ Len(locks) \in Nat /\ serial \in Nat
  BY ThreadFacts
<1>2. /\ r.pc = "addPut" /\ r.id \in Message /\ r.id \in Identifier
      /\ r.lock \in 1..Len(locks) /\ r.rec \in {null} \cup 1..R
      /\ serial' = serial + 1 /\ records' = Append(records, rec)
      /\ cache' = [cache EXCEPT ![r.id] = R + 1]
      /\ ShowRecord(r.lock, R + 1) /\ Become(t, q)
      /\ UNCHANGED <<LRUList, slotLocks, callVars>>
  BY <1>1, PCFacts DEF AddPut, Reference, ShowRecord, At, Shape, Owning, OfMessage
<1> HIDE DEF R
<1>3. /\ R + 1 \in Nat /\ serial' \in Nat /\ R <= R + 1 /\ serial <= serial'
      /\ R + 1 \in 1..(R + 1)
  BY <1>1, <1>2
<1>4. records' \in Seq(RecordType(R + 1, serial')) /\ Len(records') = R + 1
  <2>1. records \in Seq(RecordType(R + 1, serial'))
    BY <1>1, <1>3, RecordsGrow DEF HeapOK, R
  <2>2. rec \in RecordType(R + 1, serial')
    BY <1>1, <1>2, <1>3 DEF RecordType
  <2> QED BY <1>2, <2>1, <2>2, AppendProperties DEF R
<1>5. /\ locks' \in Seq(LockType(R + 1)) /\ Len(locks') = Len(locks)
      /\ NamesOK(name)' /\ Grows(locks, locks', name, name)
  BY <1>1, <1>2, <1>3, LockStep DEF R
<1>6. /\ cache' \in [Identifier -> {null} \cup 1..(R + 1)]
      /\ \A i \in Identifier : cache'[i] # null => i \in Message
  <2>1. cache \in [Identifier -> {null} \cup 1..(R + 1)]
    BY <1>1, <1>3 DEF HeapOK, R
  <2> QED BY <1>1, <1>2, <1>3, <2>1 DEF HeapOK
<1>7. HeapOK'
  BY <1>1, <1>2, <1>3, <1>4, <1>5, <1>6 DEF HeapOK
<1>8. Fit(r, locks', name, R + 1, serial')
  BY <1>1, <1>3, <1>5, FitGrows
<1>9. q \in States(Len(locks'), R + 1, serial')
  <2>1. "invalidate" \in PCs /\ r \in States(Len(locks'), R + 1, serial')
    BY <1>8 DEF PCs, Calling, Fit
  <2> HIDE DEF PCs
  <2> QED BY <1>3, <2>1 DEF States
<1>10. /\ q.pc = "invalidate" /\ q.id = r.id /\ q.outer = r.outer /\ q.lock = r.lock
       /\ q.op = r.op /\ q.target = r.target
  BY <1>1 DEF States
<1> HIDE DEF q
<1>11. Fit(q, locks', name, R + 1, serial')
  BY <1>2, <1>8, <1>9, <1>10, FitSame DEF Calling, Owning, Waiting, OfMessage, null
<1>12. StoreOK'
  BY <1>1, <1>2 DEF StoreOK, callVars
<1> QED BY <1>2, <1>3, <1>4, <1>5, <1>7, <1>11, <1>12, Together DEF R

\* What the invalidating thread and the threads it wakes become.
AfterInvalidate(t, step, u) ==
  IF u = t THEN [th[u] EXCEPT !.pc = step[2]]
  ELSE IF u \in Signalled(th[t].lock) THEN [th[u] EXCEPT !.pc = "woken"]
  ELSE th[u]

Invalidating == {<<"invalidate", "unslot">>, <<"relInvalidate", "relUnslot">>,
                 <<"recInvalidate", "recUnslot">>}

LEMMA InvalidateKeepsTypes ==
  ASSUME NEW name, TypedWith(name), NEW t \in Process, Invalidate(t)
  PROVE  StepOK(name)
<1> DEFINE r == th[t]
           fit(q) == Fit(q, locks, name, Len(records), serial)
<1>1. /\ HeapOK /\ StoreOK /\ NamesOK(name) /\ fit(r)
      /\ r \in States(Len(locks), Len(records), serial) /\ Shape(r)
      /\ Named(r, locks, name)
      /\ Len(records) \in Nat /\ Len(locks) \in Nat /\ serial \in Nat
  BY ThreadFacts
<1>2. /\ r.pc # "idle" => r.id \in Identifier
      /\ r.pc \in Owning \cup Waiting => r.lock \in 1..Len(locks)
      /\ r.rec \in {null} \cup 1..Len(records)
  BY <1>1, PCFacts
<1>3. PICK step \in Invalidating :
        /\ r.pc = step[1] /\ MakeInvalid(r.lock)
        /\ th' = [u \in Process |-> AfterInvalidate(t, step, u)]
        /\ UNCHANGED <<cache, LRUList, slotLocks, serial, records, callVars>>
  BY DEF Invalidate, At, MakeInvalid, AfterInvalidate, Invalidating
<1>4. /\ step[1] \in {"invalidate", "relInvalidate", "recInvalidate"}
      /\ step[1] = "invalidate" => step[2] = "unslot"
      /\ step[1] = "relInvalidate" => step[2] = "relUnslot"
      /\ step[1] = "recInvalidate" => step[2] = "recUnslot"
  BY DEF Invalidating
<1>5. r.lock \in 1..Len(locks)
  BY <1>2, <1>3, <1>4 DEF Owning
<1>6. /\ locks' \in Seq(LockType(Len(records))) /\ Len(locks') = Len(locks)
      /\ NamesOK(name)' /\ Grows(locks, locks', name, name)
  BY <1>1, <1>3, <1>5, LockStep DEF null
<1>7. HeapOK' /\ StoreOK'
  BY <1>1, <1>3, <1>6 DEF HeapOK, StoreOK, callVars
<1>8. ASSUME NEW u \in Process PROVE Fit(th[u], locks', name, Len(records), serial)
  <2>1. Fit(th[u], locks, name, Len(records), serial)
    BY ThreadFacts
  <2> QED BY <1>1, <1>6, <2>1, FitGrows
<1>9. ASSUME NEW u \in Process
      PROVE  Fit(AfterInvalidate(t, step, u), locks', name, Len(records), serial)
  <2>1. CASE u = t
    <3>1. AfterInvalidate(t, step, u) = [r EXCEPT !.pc = step[2]]
      BY <2>1 DEF AfterInvalidate
    <3>2. Fit([r EXCEPT !.pc = step[2]], locks', name, Len(records), serial)
      BY <1>3, <1>4, <1>8, FitGoto DEF PCs, Calling, Owning, Waiting, OfMessage
    <3> QED BY <3>1, <3>2
  <2>2. CASE u # t /\ u \in Signalled(th[t].lock)
    <3>1. AfterInvalidate(t, step, u) = [th[u] EXCEPT !.pc = "woken"] /\ th[u].pc = "await"
      BY <2>2 DEF AfterInvalidate, Signalled, At
    <3>2. Fit([th[u] EXCEPT !.pc = "woken"], locks', name, Len(records), serial)
      BY <1>8, <3>1, FitGoto DEF PCs, Calling, Owning, Waiting, OfMessage
    <3> QED BY <3>1, <3>2
  <2>3. CASE u # t /\ u \notin Signalled(th[t].lock)
    BY <1>8, <2>3 DEF AfterInvalidate
  <2> QED BY <2>1, <2>2, <2>3
<1>10. ThreadsOK(name)'
  <2>1. DOMAIN th' = Process /\ th' = [u \in Process |-> th'[u]]
        /\ \A u \in Process : th'[u] = AfterInvalidate(t, step, u)
    BY <1>3
  <2> QED BY <1>3, <1>9, <2>1 DEF ThreadsOK
<1> QED BY <1>6, <1>7, <1>10 DEF StepOK, TypedWith

LEMMA WaitKeepsTypes ==
  ASSUME NEW name, TypedWith(name), NEW t \in Process,
         Unslot(t) \/ WaitEnter(t) \/ WaitAwait(t) \/ Woken(t) \/ WaitInc(t) \/ WaitUnlist(t)
  PROVE  StepOK(name)
<1> DEFINE r == th[t]
           fit(q) == Fit(q, locks, name, Len(records), serial)
<1>1. /\ HeapOK /\ StoreOK /\ NamesOK(name) /\ fit(r)
      /\ r \in States(Len(locks), Len(records), serial) /\ Shape(r)
      /\ Named(r, locks, name)
      /\ Len(records) \in Nat /\ Len(locks) \in Nat /\ serial \in Nat
  BY ThreadFacts
<1>2. /\ r.pc # "idle" => r.id \in Identifier
      /\ r.pc \in Owning \cup Waiting => r.lock \in 1..Len(locks)
      /\ r.rec \in {null} \cup 1..Len(records)
  BY <1>1, PCFacts
<1>3. CASE Unslot(t)
  <2> DEFINE x == IF r.stray /\ r.outer = <<>> THEN null ELSE r.rec
  <2>1. /\ r.pc = "unslot" /\ FreeSlot(r.id) /\ Deliver(t, x)
        /\ UNCHANGED <<cache, LRUList, serial, records, locks, stored, ops>>
    BY <1>3 DEF Unslot, At
  <2>2. x \in {null} \cup 1..Len(records) /\ r.id \in Identifier
    BY <1>2, <2>1
  <2> HIDE DEF x
  <2>3. HeapOK' /\ NamesOK(name)'
    BY <1>1, <2>1, <2>2, FreedSlot
  <2> QED BY <2>1, <2>2, <2>3, DeliverStep
<1>4. CASE WaitEnter(t)
  <2> DEFINE l == locks[r.lock]
  <2>1. r.pc = "waitEnter"
        /\ UNCHANGED <<cache, LRUList, slotLocks, serial, records, locks, callVars>>
    BY <1>4 DEF WaitEnter, At
  <2>2. r.lock \in 1..Len(locks) /\ l \in LockType(Len(records))
    BY <1>1, <1>2, <2>1, HeapFacts DEF Waiting
  <2>3. CASE l.alreadyInvalid \/ (l.lockState = "Getting" /\ l.accessRecord = null)
    <3>1. Retry(t)
      BY <1>4, <2>3 DEF WaitEnter
    <3> QED BY <2>1, <3>1, RetryStep
  <2>4. CASE ~l.alreadyInvalid /\ l.lockState = "Getting" /\ l.accessRecord # null
    <3> DEFINE x == l.accessRecord
               q == [r EXCEPT !.pc = "waitInc", !.rec = x]
    <3>1. Become(t, q)
      BY <1>4, <2>4 DEF WaitEnter
    <3>2. x \in {null} \cup 1..Len(records)
      BY <2>2 DEF LockType
    <3> HIDE DEF x
    <3>3. q \in States(Len(locks), Len(records), serial)
      <4>1. "waitInc" \in PCs
        BY DEF PCs, Calling
      <4> HIDE DEF PCs
      <4> QED BY <1>1, <3>2, <4>1 DEF States
    <3>4. /\ q.pc = "waitInc" /\ q.id = r.id /\ q.outer = r.outer /\ q.lock = r.lock
          /\ q.op = r.op /\ q.target = r.target
      BY <1>1 DEF States
    <3> HIDE DEF q
    <3>5. fit(q)
      BY <1>1, <2>1, <2>2, <3>3, <3>4, FitSame
         DEF Calling, Owning, Waiting, OfMessage, null
    <3> QED BY <2>1, <3>1, <3>5, ThreadOnly
  <2>5. CASE ~l.alreadyInvalid /\ l.lockState # "Getting"
    <3> DEFINE q == [r EXCEPT !.pc = "waitAwait"]
    <3>1. Become(t, q)
      BY <1>4, <2>5 DEF WaitEnter, Goto
    <3>2. fit(q)
      BY <1>1, <2>1, <2>5, FitGoto DEF PCs, Calling, Owning, Waiting, OfMessage
    <3> QED BY <2>1, <3>1, <3>2, ThreadOnly
  <2> QED BY <2>3, <2>4, <2>5
<1>5. CASE WaitAwait(t)
  <2> DEFINE q == [r EXCEPT !.pc = "await"]
  <2>1. r.pc = "waitAwait" /\ (Become(t, q) \/ Retry(t))
        /\ UNCHANGED <<cache, LRUList, slotLocks, serial, records, locks, callVars>>
    BY <1>5 DEF WaitAwait, At, Goto
  <2>2. fit(q)
    BY <1>1, <2>1, FitGoto DEF PCs, Calling, Owning, Waiting, OfMessage
  <2> QED BY <2>1, <2>2, RetryStep, ThreadOnly
<1>6. CASE Woken(t)
  <2> DEFINE l == locks[r.lock]
  <2>1. r.pc = "woken"
        /\ UNCHANGED <<cache, LRUList, slotLocks, serial, records, locks, callVars>>
    BY <1>6 DEF Woken, At
  <2>2. r.lock \in 1..Len(locks) /\ l \in LockType(Len(records))
    BY <1>1, <1>2, <2>1, HeapFacts DEF Waiting
  <2>3. CASE l.lockState = "Loading"
    <3> DEFINE x == l.accessRecord
               q == [r EXCEPT !.pc = "waitInc", !.rec = x]
    <3>1. Become(t, q)
      BY <1>6, <2>3 DEF Woken
    <3>2. x \in {null} \cup 1..Len(records)
      BY <2>2 DEF LockType
    <3> HIDE DEF x
    <3>3. q \in States(Len(locks), Len(records), serial)
      <4>1. "waitInc" \in PCs
        BY DEF PCs, Calling
      <4> HIDE DEF PCs
      <4> QED BY <1>1, <3>2, <4>1 DEF States
    <3>4. /\ q.pc = "waitInc" /\ q.id = r.id /\ q.outer = r.outer /\ q.lock = r.lock
          /\ q.op = r.op /\ q.target = r.target
      BY <1>1 DEF States
    <3> HIDE DEF q
    <3>5. fit(q)
      BY <1>1, <2>1, <2>2, <3>3, <3>4, FitSame
         DEF Calling, Owning, Waiting, OfMessage, null
    <3> QED BY <2>1, <3>1, <3>5, ThreadOnly
  <2>4. CASE l.lockState # "Loading"
    <3> DEFINE q == [r EXCEPT !.pc = "addSlot"]
    <3>1. Become(t, q)
      BY <1>6, <2>4 DEF Woken
    <3>2. r.id \in Message
      <4>1. l.lockState = "Recycling" /\ name[r.lock] = r.id
        BY <1>1, <2>1, <2>2, <2>4 DEF Named, LockType, Waiting
      <4> QED BY <1>1, <2>2, <4>1 DEF NamesOK
    <3>3. fit(q)
      BY <1>1, <2>1, <3>2, FitGoto DEF PCs, Calling, Owning, Waiting, OfMessage
    <3> QED BY <2>1, <3>1, <3>3, ThreadOnly
  <2> QED BY <2>3, <2>4
<1>7. CASE WaitInc(t)
  <2> DEFINE q == [r EXCEPT !.pc = "waitUnlist"]
  <2>1. /\ r.pc = "waitInc" /\ AddBackRef(r.rec, 1)
        /\ (Become(t, q) /\ UNCHANGED unsaved) \/ Deliver(t, r.rec)
        /\ UNCHANGED <<cache, LRUList, slotLocks, serial, locks, stored, ops>>
    BY <1>7 DEF WaitInc, At, Goto
  <2>2. HeapOK' /\ Len(records') = Len(records)
    <3>1. /\ HeapOK /\ r.rec \in {null} \cup 1..Len(records) /\ AddBackRef(r.rec, 1)
          /\ UNCHANGED <<cache, LRUList, slotLocks, serial, locks>>
      BY <1>1, <1>2, <2>1
    <3> QED BY <3>1, BackRefHeap
  <2>3. CASE Become(t, q) /\ UNCHANGED unsaved
    <3>1. fit(q)
      BY <1>1, <2>1, FitGoto DEF PCs, Calling, Owning, Waiting, OfMessage
    <3>2. UNCHANGED callVars
      BY <2>1, <2>3 DEF callVars
    <3> QED BY <1>1, <2>1, <2>2, <2>3, <3>1, <3>2, LocksStay
  <2>4. CASE Deliver(t, r.rec)
    <3>1. NamesOK(name)'
      BY <1>1, <2>1 DEF NamesOK
    <3> QED BY <1>2, <2>1, <2>2, <2>4, <3>1, DeliverStep
  <2> QED BY <2>1, <2>3, <2>4
<1>8. CASE WaitUnlist(t)
  <2>1. /\ r.pc = "waitUnlist" /\ Unlist(records[r.rec].serial) /\ Deliver(t, r.rec)
        /\ UNCHANGED <<cache, slotLocks, serial, records, locks, stored, ops>>
    BY <1>8 DEF WaitUnlist, At
  <2>2. HeapOK' /\ NamesOK(name)'
    BY <1>1, <2>1, UnlistHeap DEF NamesOK
  <2> QED BY <1>2, <2>1, <2>2, DeliverStep
<1> QED BY <1>3, <1>4, <1>5, <1>6, <1>7, <1>8

LEMMA ReleaseKeepsTypes ==
  ASSUME NEW name, TypedWith(name), NEW t \in Process,
         RelRead(t) \/ RelSlot(t) \/ RelShare(t) \/ RelDec(t) \/ RelList(t) \/ RelUnslot(t)
  PROVE  StepOK(name)
<1> DEFINE r == th[t]
           fit(q) == Fit(q, locks, name, Len(records), serial)
<1>1. /\ HeapOK /\ StoreOK /\ NamesOK(name) /\ fit(r)
      /\ r \in States(Len(locks), Len(records), serial) /\ Shape(r)
      /\ Named(r, locks, name)
      /\ Len(records) \in Nat /\ Len(locks) \in Nat /\ serial \in Nat
  BY ThreadFacts
<1>2. /\ r.pc # "idle" => r.id \in Identifier
      /\ r.pc \in Owning \cup Waiting => r.lock \in 1..Len(locks)
      /\ r.rec \in {null} \cup 1..Len(records)
  BY <1>1, PCFacts
<1>3. CASE RelRead(t)
  <2> DEFINE x == cache[r.id]
             pc == IF x = null THEN "failed" ELSE "relSlot"
             q == [r EXCEPT !.pc = pc, !.rec = x]
  <2>1. r.pc = "relRead" /\ Become(t, q)
        /\ UNCHANGED <<cache, LRUList, slotLocks, serial, records, locks, callVars>>
    BY <1>3 DEF RelRead, At
  <2>2. x \in {null} \cup 1..Len(records) /\ (x # null => r.id \in Message)
    BY <1>1, <1>2, <2>1 DEF HeapOK
  <2>3. pc \in {"failed", "relSlot"} /\ (pc = "relSlot" => x # null)
    OBVIOUS
  <2> HIDE DEF x, pc
  <2>4. q \in States(Len(locks), Len(records), serial)
    <3>1. pc \in PCs
      BY <2>3 DEF PCs
    <3> HIDE DEF PCs
    <3> QED BY <1>1, <2>2, <3>1 DEF States
  <2>5. /\ q.pc = pc /\ q.id = r.id /\ q.outer = r.outer /\ q.rec = x
        /\ q.op = r.op /\ q.target = r.target
    BY <1>1 DEF States
  <2> HIDE DEF q
  <2>6. fit(q)
    BY <1>1, <2>1, <2>2, <2>3, <2>4, <2>5, FitSame DEF Calling, Owning, Waiting, OfMessage
  <2> QED BY <2>1, <2>6, ThreadOnly
<1>4. CASE RelSlot(t)
  <2>1. TakeSlot(t, "Recycling", r.rec, "relDec", "relShare") /\ r.pc = "relSlot"
        /\ UNCHANGED <<cache, LRUList, serial, records, callVars>>
    BY <1>4 DEF RelSlot, At
  <2>2. r.pc # "idle" /\ r.id \in Message /\ r.rec # null
    BY <1>1, <2>1 DEF Shape, OfMessage
  <2> QED BY <1>1, <1>2, <2>1, <2>2, TakeSlotStep
<1>5. CASE RelShare(t) \/ RelDec(t)
  <2> DEFINE pc == IF LastReference(t) THEN "relList" ELSE "relInvalidate"
             q == IF r.pc = "relDec" THEN [r EXCEPT !.pc = pc] ELSE Idle
  <2>1. /\ r.pc \in {"relShare", "relDec"} /\ AddBackRef(r.rec, -1) /\ Become(t, q)
        /\ UNCHANGED <<cache, LRUList, slotLocks, serial, locks, callVars>>
    BY <1>5 DEF RelShare, RelDec, At, Goto
  <2>2. HeapOK' /\ Len(records') = Len(records)
    <3>1. /\ HeapOK /\ r.rec \in {null} \cup 1..Len(records) /\ AddBackRef(r.rec, -1)
          /\ -1 \in Int /\ UNCHANGED <<cache, LRUList, slotLocks, serial, locks>>
      BY <1>1, <1>2, <2>1
    <3> QED BY <3>1, BackRefHeap
  <2>3. pc \in {"relList", "relInvalidate"}
    OBVIOUS
  <2> HIDE DEF pc
  <2>4. fit(q)
    <3>1. CASE r.pc = "relDec"
      <4>1. fit([r EXCEPT !.pc = pc])
        BY <1>1, <2>3, <3>1, FitGoto DEF PCs, Calling, Owning, Waiting, OfMessage
      <4> QED BY <3>1, <4>1
    <3>2. CASE r.pc # "relDec"
      BY <1>1, <3>2, FitIdle
    <3> QED BY <3>1, <3>2
  <2> QED BY <1>1, <2>1, <2>2, <2>4, LocksStay
<1>6. CASE RelList(t)
  <2> DEFINE big == Cardinality(DOMAIN LRUList') > SizeLimit
             q == [r EXCEPT !.pc = "relInvalidate", !.exceeded = big]
  <2>1. /\ r.pc = "relList" /\ Enlist(records[r.rec].serial, r.id) /\ Become(t, q)
        /\ UNCHANGED <<cache, slotLocks, serial, records, locks, callVars>>
    BY <1>6 DEF RelList, At
  <2>2. r.rec \in 1..Len(records) /\ r.id \in Message
    BY <1>1, <1>2, <2>1 DEF Shape, OfMessage
  <2>3. records[r.rec].serial \in 1..serial
    BY <1>1, <2>2, HeapFacts DEF RecordType
  <2>4. HeapOK'
    BY <1>1, <2>1, <2>2, <2>3 DEF HeapOK, Enlist
  <2>5. big \in BOOLEAN
    OBVIOUS
  <2> HIDE DEF big
  <2>6. q \in States(Len(locks), Len(records), serial)
    <3>1. "relInvalidate" \in PCs
      BY DEF PCs
    <3> HIDE DEF PCs
    <3> QED BY <1>1, <2>5, <3>1 DEF States
  <2>7. /\ q.pc = "relInvalidate" /\ q.id = r.id /\ q.outer = r.outer /\ q.lock = r.lock
        /\ q.op = r.op /\ q.target = r.target
    BY <1>1 DEF States
  <2> HIDE DEF q
  <2>8. fit(q)
    BY <1>1, <1>2, <2>1, <2>6, <2>7, FitSame DEF Calling, Owning, Waiting, OfMessage, null
  <2> QED BY <1>1, <2>1, <2>4, <2>8, LocksStay
<1>7. CASE RelUnslot(t)
  <2> DEFINE q == IF r.exceeded THEN [r EXCEPT !.pc = "recCopy"] ELSE Idle
  <2>1. /\ r.pc = "relUnslot" /\ FreeSlot(r.id) /\ Become(t, q)
        /\ UNCHANGED <<cache, LRUList, serial, records, locks, callVars>>
    BY <1>7 DEF RelUnslot, At
  <2>2. fit(q)
    <3>1. fit([r EXCEPT !.pc = "recCopy"])
      BY <1>1, <2>1, FitGoto DEF PCs, Calling, Owning, Waiting, OfMessage
    <3> QED BY <1>1, <3>1, FitIdle
  <2>3. HeapOK' /\ NamesOK(name)' /\ Grows(locks, locks', name, name)
    BY <1>1, <1>2, <2>1, FreedSlot, SameLocks
  <2> QED BY <1>1, <2>1, <2>2, <2>3, Together DEF StoreOK, callVars
<1> QED BY <1>3, <1>4, <1>5, <1>6, <1>7

\* The thread goes on with the entries that are left, whatever the locks are.
LEMMA FitNext ==
  ASSUME NEW name, NEW lk, NEW R \in Nat, NEW n \in Nat, NEW t \in Process,
         Fit(th[t], lk, name, R, n), th[t].pc \in {"recCopy", "recSlot"},
         NEW todo \in SUBSET [serial : 1..n, id : Message]
  PROVE  Fit(TryNext(t, todo), lk, name, R, n)
<1> DEFINE r == th[t]
           q == [r EXCEPT !.pc = "recSlot", !.todo = todo]
<1>1. CASE todo = {}
  BY <1>1, FitIdle DEF TryNext
<1>2. CASE todo # {}
  <2>1. q \in States(Len(lk), R, n)
    <3>1. "recSlot" \in PCs
      BY DEF PCs
    <3> HIDE DEF PCs
    <3> QED BY <3>1 DEF States, Fit
  <2>2. /\ q.pc = "recSlot" /\ q.id = r.id /\ q.outer = r.outer /\ q.todo = todo
        /\ q.op = r.op /\ q.target = r.target
    BY DEF States, Fit
  <2> HIDE DEF q
  <2>3. Fit(q, lk, name, R, n)
    BY <1>2, <2>1, <2>2, FitSame DEF Calling, Owning, Waiting, OfMessage
  <2> QED BY <1>2, <2>3 DEF TryNext, q
<1> QED BY <1>1, <1>2

LEMMA RecycleKeepsTypes ==
  ASSUME NEW name, TypedWith(name), NEW t \in Process,
         RecCopy(t) \/ RecUnlist(t) \/ RecDrop(t) \/ RecUnslot(t)
  PROVE  StepOK(name)
<1> DEFINE r == th[t]
           fit(q) == Fit(q, locks, name, Len(records), serial)
<1>1. /\ HeapOK /\ StoreOK /\ NamesOK(name) /\ fit(r)
      /\ r \in States(Len(locks), Len(records), serial) /\ Shape(r)
      /\ Named(r, locks, name)
      /\ Len(records) \in Nat /\ Len(locks) \in Nat /\ serial \in Nat
  BY ThreadFacts
<1>2. /\ r.pc # "idle" => r.id \in Identifier
      /\ r.pc \in Owning \cup Waiting => r.lock \in 1..Len(locks)
      /\ r.rec \in {null} \cup 1..Len(records)
  BY <1>1, PCFacts
<1>3. CASE RecCopy(t)
  <2> DEFINE copy == {[serial |-> s, id |-> LRUList[s]] : s \in DOMAIN LRUList}
  <2>1. r.pc = "recCopy" /\ Become(t, TryNext(t, copy))
        /\ UNCHANGED <<cache, LRUList, slotLocks, serial, records, locks, callVars>>
    BY <1>3 DEF RecCopy, At
  <2>2. copy \in SUBSET [serial : 1..serial, id : Message]
    BY <1>1 DEF HeapOK
  <2> HIDE DEF copy
  <2>3. fit(TryNext(t, copy))
    BY <1>1, <2>1, <2>2, FitNext
  <2> QED BY <2>1, <2>3, ThreadOnly
<1>4. CASE RecUnlist(t)
  <2> DEFINE q == [r EXCEPT !.pc = "recDrop"]
  <2>1. /\ r.pc = "recUnlist" /\ Unlist(r.serial) /\ Become(t, q)
        /\ UNCHANGED <<cache, slotLocks, serial, records, locks, callVars>>
    BY <1>4 DEF RecUnlist, At, Goto
  <2>2. HeapOK'
    BY <1>1, <2>1, UnlistHeap
  <2>3. fit(q)
    BY <1>1, <2>1, FitGoto DEF PCs, Calling, Owning, Waiting, OfMessage
  <2> QED BY <1>1, <2>1, <2>2, <2>3, LocksStay
<1>5. CASE RecDrop(t)
  <2> DEFINE q == [r EXCEPT !.pc = "recInvalidate"]
  <2>1. /\ r.pc = "recDrop" /\ cache' = [cache EXCEPT ![r.id] = null] /\ Become(t, q)
        /\ UNCHANGED <<LRUList, slotLocks, serial, records, locks, callVars>>
    BY <1>5 DEF RecDrop, At, Goto
  <2>2. HeapOK'
    BY <1>1, <2>1 DEF HeapOK
  <2>3. fit(q)
    BY <1>1, <2>1, FitGoto DEF PCs, Calling, Owning, Waiting, OfMessage
  <2> QED BY <1>1, <2>1, <2>2, <2>3, LocksStay
<1>6. CASE RecUnslot(t)
  <2> DEFINE q == Released(t)
  <2>1. /\ r.pc = "recUnslot" /\ FreeSlot(r.id) /\ Become(t, q)
        /\ UNCHANGED <<cache, LRUList, serial, records, locks, callVars>>
    BY <1>6 DEF RecUnslot, At
  <2>2. fit(q)
    <3>1. CASE RefOf[r.id] = NoRef
      BY <1>1, <3>1, FitIdle DEF Released
    <3>2. CASE RefOf[r.id] # NoRef
      <4> DEFINE to == RefOf[r.id]
                 x == [r EXCEPT !.pc = "relRead", !.id = to, !.exceeded = FALSE]
      <4>1. to \in Message
        <5>1. r.id \in Message
          BY <1>1, <2>1 DEF Shape, OfMessage
        <5> QED BY <3>2, <5>1, CacheAssumption
      <4>2. Released(t) = x
        BY <3>2 DEF Released
      <4> HIDE DEF to
      <4>3. x \in States(Len(locks), Len(records), serial)
        <5>1. "relRead" \in PCs
          BY DEF PCs
        <5> HIDE DEF PCs
        <5> QED BY <1>1, <4>1, <5>1 DEF States, Identifier
      <4>4. x.pc = "relRead" /\ x.id = to /\ x.outer = r.outer /\ x.op = r.op
            /\ x.target = r.target
        BY <1>1 DEF States
      <4> HIDE DEF x
      <4>5. Shape(x) /\ Named(x, locks, name)
        BY <1>1, <4>1, <4>4
           DEF Shape, Named, Calling, Owning, Waiting, OfMessage, Identifier
      <4> QED BY <4>2, <4>3, <4>5 DEF Fit
    <3> QED BY <3>1, <3>2
  <2> HIDE DEF q
  <2>3. HeapOK' /\ NamesOK(name)' /\ Grows(locks, locks', name, name)
    BY <1>1, <1>2, <2>1, FreedSlot, SameLocks
  <2> QED BY <1>1, <2>1, <2>2, <2>3, Together DEF StoreOK, callVars
<1> QED BY <1>3, <1>4, <1>5, <1>6

\* An entry is skipped, or taken; its slot gets a new lock in both cases.
LEMMA RecSlotKeepsTypes ==
  ASSUME NEW name, TypedWith(name), NEW t \in Process, RecSlot(t)
  PROVE  StepOK(name)
<1> DEFINE r == th[t]
           fit(q) == Fit(q, locks, name, Len(records), serial)
<1>1. /\ HeapOK /\ StoreOK /\ NamesOK(name) /\ fit(r)
      /\ r \in States(Len(locks), Len(records), serial) /\ Shape(r)
      /\ Named(r, locks, name)
      /\ Len(records) \in Nat /\ Len(locks) \in Nat /\ serial \in Nat
  BY ThreadFacts
<1>2. /\ r.pc # "idle" => r.id \in Identifier
      /\ r.pc \in Owning \cup Waiting => r.lock \in 1..Len(locks)
      /\ r.rec \in {null} \cup 1..Len(records)
  BY <1>1, PCFacts
<1> DEFINE new(e) == [lockState |-> "Recycling", alreadyInvalid |-> FALSE,
                      accessRecord |-> IF slotLocks[e.id] # null THEN null ELSE cache[e.id]]
           taken(e) == [r EXCEPT !.pc = IF cache[e.id] = null THEN "failed" ELSE "recUnlist",
                                 !.id = e.id, !.serial = e.serial, !.rec = cache[e.id],
                                 !.lock = Len(locks')]
           next(e) == IF slotLocks[e.id] # null THEN TryNext(t, r.todo \ {e}) ELSE taken(e)
<1>3. r.pc = "recSlot" /\ UNCHANGED <<cache, LRUList, serial, records, callVars>>
  BY DEF RecSlot, At
<1>4. PICK e \in r.todo : PutLock(new(e), e.id) /\ Become(t, next(e))
  BY DEF RecSlot, PutLock
<1>5. /\ e.serial \in 1..serial /\ e.id \in Message /\ e.id \in Identifier
      /\ r.todo \ {e} \in SUBSET [serial : 1..serial, id : Message]
  BY <1>1 DEF States, Identifier
<1>6. cache[e.id] \in {null} \cup 1..Len(records)
  BY <1>1, <1>5 DEF HeapOK
<1>7. new(e) \in LockType(Len(records))
  BY <1>6 DEF LockType
<1>8. /\ HeapOK' /\ Len(locks') = Len(locks) + 1
      /\ \E name2 : /\ NamesOK(name2)' /\ Grows(locks, locks', name, name2)
                    /\ name2[Len(locks')] = e.id
  <2> HIDE DEF new
  <2> QED BY <1>1, <1>3, <1>4, <1>5, <1>7, NewLock
<1>9. PICK name2 : /\ NamesOK(name2)' /\ Grows(locks, locks', name, name2)
                   /\ name2[Len(locks')] = e.id
  BY <1>8
<1>10. Fit(r, locks', name2, Len(records), serial)
  BY <1>1, <1>9, FitGrows
<1>11. Fit(next(e), locks', name2, Len(records), serial)
  <2>1. CASE slotLocks[e.id] # null
    <3>1. Fit(TryNext(t, r.todo \ {e}), locks', name2, Len(records), serial)
      BY <1>1, <1>3, <1>5, <1>10, FitNext
    <3> QED BY <2>1, <3>1
  <2>2. CASE slotLocks[e.id] = null
    <3> DEFINE pc == IF cache[e.id] = null THEN "failed" ELSE "recUnlist"
               x == cache[e.id]
               i == e.id
               n == e.serial
               q == [r EXCEPT !.pc = pc, !.id = i, !.serial = n, !.rec = x,
                              !.lock = Len(locks')]
    <3>1. next(e) = q
      BY <2>2
    <3>2. /\ pc \in {"failed", "recUnlist"} /\ x \in {null} \cup 1..Len(records)
          /\ i \in Message /\ i \in Identifier /\ n \in 1..serial /\ n \in 0..serial
          /\ name2[Len(locks')] = i
          /\ Len(locks') \in 1..Len(locks') /\ Len(locks') # null
      BY <1>1, <1>5, <1>6, <1>8, <1>9 DEF null
    <3> HIDE DEF pc, x, i, n
    <3>3. q \in States(Len(locks'), Len(records), serial)
      <4>1. pc \in PCs /\ r \in States(Len(locks'), Len(records), serial)
        BY <1>10, <3>2 DEF PCs, Fit
      <4> HIDE DEF PCs
      <4> QED BY <3>2, <4>1 DEF States
    <3>4. /\ q.pc = pc /\ q.id = i /\ q.outer = r.outer /\ q.lock = Len(locks')
          /\ q.op = r.op /\ q.target = r.target
      BY <1>1 DEF States
    <3> HIDE DEF q
    <3>5. Shape(q)
      BY <1>1, <3>2, <3>4 DEF Shape, Calling, Owning, Waiting, OfMessage
    <3>6. Named(q, locks', name2)
      BY <1>10, <3>2, <3>4 DEF Named, Fit, Waiting
    <3> QED BY <3>1, <3>3, <3>5, <3>6 DEF Fit
  <2> QED BY <2>1, <2>2
<1>12. StoreOK'
  BY <1>1, <1>3 DEF StoreOK, callVars
<1> HIDE DEF next
<1> QED BY <1>1, <1>3, <1>4, <1>8, <1>9, <1>11, <1>12, Together

\* A call starts.
LEMMA StartKeepsTypes ==
  ASSUME NEW name, TypedWith(name)
  PROVE  /\ \A t \in Thread, i \in Identifier : Query(t, i) => StepOK(name)
         /\ \A t \in Thread, m \in Message : Save(t, m) => StepOK(name)
         /\ \A m \in Message : Flush(m) => StepOK(name)
<1> DEFINE started(op, target, id, pc) ==
             [Idle EXCEPT !.pc = pc, !.op = op, !.target = target, !.id = id]
<1>1. HeapOK /\ StoreOK /\ NamesOK(name) /\ Len(records) \in Nat /\ Len(locks) \in Nat
      /\ serial \in Nat
  BY HeapFacts DEF TypedWith
<1>2. ASSUME NEW op \in {"query", "save", "flush"}, NEW target \in Identifier,
             NEW id \in Identifier, NEW pc \in {"getSlot", "addSlot", "relRead"},
             pc = "relRead" \/ op # "flush",
             op = "save" => target \in Message, pc = "addSlot" => id \in Message,
             NEW t \in Process, Start(t, op, target, id, pc), StoreOK'
      PROVE  StepOK(name)
  <2> DEFINE q == started(op, target, id, pc)
  <2>1. Become(t, q) /\ UNCHANGED <<cache, LRUList, slotLocks, serial, records, locks>>
    BY <1>2 DEF Start
  <2>2. q \in States(Len(locks), Len(records), serial)
    <3>1. pc \in PCs
      BY DEF PCs, Calling
    <3>2. Idle \in States(Len(locks), Len(records), serial)
      BY <1>1, FitIdle DEF Fit
    <3> HIDE DEF PCs
    <3> QED BY <3>1, <3>2 DEF States
  <2>3. q.pc = pc /\ q.op = op /\ q.target = target /\ q.id = id /\ q.outer = <<>>
    BY DEF Idle
  <2> HIDE DEF q
  <2>4. Shape(q)
    BY <1>2, <2>3 DEF Shape, Calling, Owning, Waiting, OfMessage
  <2>5. Named(q, locks, name)
    BY <2>3, EmptySeq DEF Named, Owning, Waiting
  <2>6. HeapOK' /\ NamesOK(name)' /\ Grows(locks, locks', name, name)
    BY <1>1, <2>1, SameLocks DEF HeapOK, NamesOK
  <2> QED BY <1>1, <1>2, <2>1, <2>2, <2>4, <2>5, <2>6, Together DEF Fit
<1>3. ASSUME NEW t \in Thread, CountOp(t), UNCHANGED <<stored, unsaved>> PROVE StoreOK'
  <2>1. ops' \in [Thread -> 0..MaxOps]
    BY <1>1, <1>3, CacheAssumption DEF StoreOK, CountOp
  <2> QED BY <1>1, <1>3, <2>1 DEF StoreOK
<1>4. ASSUME NEW t \in Thread, NEW i \in Identifier, Query(t, i) PROVE StepOK(name)
  <2>1. Start(t, "query", i, i, "getSlot") /\ StoreOK' /\ t \in Process
    BY <1>3, <1>4 DEF Query, Process
  <2> QED BY <1>2, <2>1
<1>5. ASSUME NEW t \in Thread, NEW m \in Message, Save(t, m) PROVE StepOK(name)
  <2>1. StoreOK' /\ t \in Process /\ m \in Identifier
    BY <1>3, <1>5 DEF Save, Process, Identifier
  <2>2. CASE RefOf[m] = NoRef
    <3>1. Start(t, "save", m, m, "addSlot")
      BY <1>5, <2>2 DEF Save
    <3> QED BY <1>2, <2>1, <3>1
  <2>3. CASE RefOf[m] # NoRef
    <3>1. Start(t, "save", m, RefOf[m], "getSlot") /\ RefOf[m] \in Identifier
      BY <1>5, <2>3, CacheAssumption DEF Save, Identifier
    <3> QED BY <1>2, <2>1, <3>1
  <2> QED BY <2>2, <2>3
<1>6. ASSUME NEW m \in Message, Flush(m) PROVE StepOK(name)
  <2>1. Start(Timer, "flush", m, m, "relRead") /\ Timer \in Process /\ m \in Identifier
    BY <1>6 DEF Flush, Process, Identifier
  <2>2. StoreOK'
    BY <1>1, <1>6 DEF StoreOK, Flush
  <2> QED BY <1>2, <2>1, <2>2
<1> QED BY <1>4, <1>5, <1>6
---------------------------------------------------------------------------
(* The types hold always.                                                   *)

LEMMA WarmFacts ==
  ASSUME NEW n \in 0..Len(Rows)
  PROVE  /\ n \in Nat
         /\ \A k \in 1..n : Rows[k] \in Message
         /\ \A k \in 1..n : RefOf[Rows[k]] # NoRef =>
              \E j \in 1..n : Rows[j] = RefOf[Rows[k]]
         /\ \A j, k \in 1..n : Rows[j] = Rows[k] => j = k
         /\ WarmRecords(n) \in Seq(RecordType(n, n))
         /\ Len(WarmRecords(n)) = n
<1>1. /\ n \in Nat /\ DOMAIN Rows = 1..Len(Rows) /\ Len(Rows) \in Nat
      /\ \A k \in 1..n : k \in DOMAIN Rows /\ Rows[k] \in Message
  BY CacheAssumption, LenProperties, ElementOfSeq
<1>2. ASSUME NEW k \in 1..n, RefOf[Rows[k]] # NoRef
      PROVE  \E j \in 1..n : Rows[j] = RefOf[Rows[k]]
  <2>1. PICK j \in 1..(k - 1) : Rows[j] = RefOf[Rows[k]]
    BY <1>1, <1>2, CacheAssumption
  <2>2. j \in 1..n
    BY <1>1
  <2> QED BY <2>1, <2>2
<1>3. \A j, k \in 1..n : Rows[j] = Rows[k] => j = k
  BY <1>1, CacheAssumption DEF IsInjective
<1> DEFINE ref(k) == IF RefOf[Rows[k]] = NoRef THEN null
                     ELSE CHOOSE j \in 1..n : Rows[j] = RefOf[Rows[k]]
           children(k) == {c \in 1..n : RefOf[Rows[c]] = Rows[k]}
           warm(k) == [message |-> Rows[k], serial |-> k,
                       backReference |-> Cardinality(children(k)), ref |-> ref(k)]
<1>4. ASSUME NEW k \in 1..n PROVE warm(k) \in RecordType(n, n)
  <2>1. ref(k) \in {null} \cup 1..n
    BY <1>2
  <2>2. Cardinality(children(k)) \in Nat
    <3>1. IsFiniteSet(1..n)
      BY <1>1, FS_Interval
    <3>2. children(k) \subseteq 1..n
      OBVIOUS
    <3> QED BY <3>1, <3>2, FS_Subset, FS_CardinalityType
  <2> HIDE DEF ref, children
  <2> QED BY <1>1, <2>1, <2>2 DEF RecordType
<1>5. WarmRecords(n) = [k \in 1..n |-> warm(k)]
  BY DEF WarmRecords
<1> HIDE DEF warm
<1>6. WarmRecords(n) \in Seq(RecordType(n, n)) /\ Len(WarmRecords(n)) = n
  <2>1. [k \in 1..n |-> warm(k)] \in Seq(RecordType(n, n))
    BY <1>1, <1>4, IsASeq
  <2>2. DOMAIN WarmRecords(n) = 1..n
    BY <1>5
  <2> QED BY <1>1, <1>5, <2>1, <2>2, LenProperties
<1> QED BY <1>1, <1>2, <1>3, <1>6

LEMMA InitTypes == ASSUME Init PROVE TypedWith(<<>>)
<1>1. PICK n \in 0..Len(Rows) :
        /\ records = WarmRecords(n)
        /\ serial = n
        /\ cache = [i \in Identifier |->
                      IF \E k \in 1..n : Rows[k] = i
                      THEN CHOOSE k \in 1..n : Rows[k] = i ELSE null]
        /\ LRUList = [k \in {x \in 1..n : records[x].backReference = 0} |-> Rows[k]]
  BY DEF Init
<1>2. /\ slotLocks = [i \in Identifier |-> null] /\ locks = <<>>
      /\ th = [t \in Process |-> Idle] /\ stored = Range(Rows) /\ unsaved = {}
      /\ ops = [t \in Thread |-> 0]
  BY DEF Init
<1>3. /\ n \in Nat /\ \A k \in 1..n : Rows[k] \in Message
      /\ records \in Seq(RecordType(n, n)) /\ Len(records) = n
  BY <1>1, WarmFacts
<1>4. HeapOK
  <2>1. cache \in [Identifier -> {null} \cup 1..n]
    BY <1>1
  <2>2. \A i \in Identifier : cache[i] # null => i \in Message
    BY <1>1, <1>3
  <2>3. \A s \in DOMAIN LRUList : s \in 1..serial /\ LRUList[s] \in Message
    BY <1>1, <1>3
  <2>4. locks \in Seq(LockType(Len(records))) /\ Len(locks) = 0
    BY <1>2, EmptySeq
  <2>5. slotLocks \in [Identifier -> {null} \cup 1..Len(locks)]
    BY <1>2
  <2> QED BY <1>1, <1>3, <2>1, <2>2, <2>3, <2>4, <2>5 DEF HeapOK
<1>5. StoreOK
  <2>1. Range(Rows) \subseteq Message
    BY CacheAssumption, LenProperties, ElementOfSeq DEF Range
  <2> QED BY <1>2, <2>1, CacheAssumption DEF StoreOK
<1>6. NamesOK(<<>>)
  <2>1. <<>> \in Seq(Identifier) /\ Len(<<>>) = 0
    BY EmptySeq
  <2> QED BY <1>2, <2>1 DEF NamesOK
<1>7. ThreadsOK(<<>>)
  <2>1. Fit(Idle, locks, <<>>, Len(records), serial)
    BY <1>1, <1>3, FitIdle
  <2>2. DOMAIN th = Process /\ \A t \in Process : th[t] = Idle
    BY <1>2
  <2> QED BY <1>2, <2>1, <2>2 DEF ThreadsOK
<1> QED BY <1>4, <1>5, <1>6, <1>7 DEF TypedWith

LEMMA StepKeepsTypes ==
  ASSUME NEW name, TypedWith(name), [Next]_vars
  PROVE  StepOK(name)
<1>1. CASE UNCHANGED vars
  <2>1. TypedWith(name)'
    BY <1>1 DEF vars, TypedWith, HeapOK, StoreOK, NamesOK, ThreadsOK
  <2>2. Grows(locks, locks', name, name)
    BY <1>1, SameLocks DEF vars, TypedWith
  <2> QED BY <2>1, <2>2 DEF StepOK
<1>2. ASSUME NEW t \in Process, Step(t) PROVE StepOK(name)
  BY <1>2, GetKeepsTypes, AddKeepsTypes, AddReadKeepsTypes, AddPutKeepsTypes,
     InvalidateKeepsTypes, WaitKeepsTypes, ReleaseKeepsTypes, RecycleKeepsTypes,
     RecSlotKeepsTypes DEF Step
<1> QED BY <1>1, <1>2, StartKeepsTypes DEF Next

LEMMA TypedIsTypeOK == ASSUME TypeInv PROVE TypeOK
<1>1. PICK name : TypedWith(name)
  BY DEF TypeInv
<1>2. /\ HeapOK /\ StoreOK /\ ThreadsOK(name)
      /\ Len(records) \in Nat /\ Len(locks) \in Nat /\ serial \in Nat
      /\ \A x \in 1..Len(records) : records[x] \in RecordType(Len(records), serial)
      /\ \A l \in 1..Len(locks) : locks[l] \in LockType(Len(records))
  BY <1>1, HeapFacts DEF TypedWith
<1>3. DOMAIN records = 1..Len(records) /\ DOMAIN locks = 1..Len(locks)
  BY <1>2, LenProperties DEF HeapOK
<1>4. \A r \in Range(records) :
        r \in [message : Message, serial : 1..serial, backReference : Int,
               ref : {null} \cup DOMAIN records]
  BY <1>2, <1>3 DEF Range, RecordType
<1>5. \A l \in Range(locks) :
        l \in [lockState : {"Getting", "Loading", "Recycling"},
               accessRecord : {null} \cup DOMAIN records, alreadyInvalid : BOOLEAN]
  BY <1>2, <1>3 DEF Range, LockType
<1>6. States(Len(locks), Len(records), serial) \subseteq ThreadState
  <2> DEFINE D == DOMAIN locks
             E == DOMAIN records
  <2>1. D = 1..Len(locks) /\ E = 1..Len(records)
    BY <1>3
  <2> HIDE DEF D, E
  <2>2. ASSUME NEW pc \in PCs
        PROVE  pc \in {"idle", "getSlot", "getRead", "getInc", "getUnlist", "getSerial",
                       "loadSlot", "loadRow", "addSlot", "addRead", "addInc", "addUnlist",
                       "addPut", "invalidate", "unslot", "waitEnter", "waitAwait", "await",
                       "woken", "waitInc", "waitUnlist", "relRead", "relSlot", "relShare",
                       "relDec", "relList", "relInvalidate", "relUnslot", "recCopy",
                       "recSlot", "recUnlist", "recDrop", "recInvalidate", "recUnslot",
                       "failed"}
    BY DEF PCs, Calling
  <2> HIDE DEF PCs
  <2>3. ASSUME NEW r \in States(Len(locks), Len(records), serial)
        PROVE  r \in ThreadState
    BY <2>1, <2>2 DEF States, ThreadState, D, E
  <2> QED BY <2>3
<1>7. th \in [Process -> ThreadState]
  BY <1>2, <1>6 DEF ThreadsOK, Fit
<1>8. DOMAIN LRUList \subseteq 1..serial /\ Range(LRUList) \subseteq Message
  BY <1>2 DEF HeapOK, Range
<1> QED BY <1>2, <1>3, <1>4, <1>5, <1>7, <1>8 DEF TypeOK, HeapOK, StoreOK

LEMMA TypesAlways == Spec => []TypeInv
<1>1. Init => TypeInv
  BY InitTypes DEF TypeInv
<1>2. TypeInv /\ [Next]_vars => TypeInv'
  BY StepKeepsTypes DEF TypeInv, StepOK
<1> QED BY <1>1, <1>2, PTL DEF Spec

\* Every variable of the cache keeps its type, whoever recycles what: in
\* particular only messages get into the cache and into LRUList, though clients
\* ask for identifiers of no message, and every thread has at each step what the
\* step needs.
THEOREM CacheTypeCorrect == Spec => []TypeOK
<1>1. TypeInv => TypeOK
  BY TypedIsTypeOK
<1> QED BY <1>1, TypesAlways, PTL
---------------------------------------------------------------------------
(* One owner of a slot.                                                     *)

\* What a step may rely on.
LEMMA OwnedFacts ==
  ASSUME NEW name, OwnedWith(name), NEW t \in Process
  PROVE  /\ TypedWith(name) /\ OneRecord /\ LocksShow(name)
         /\ HeapOK /\ NamesOK(name)
         /\ Len(records) \in Nat /\ Len(locks) \in Nat
         /\ th[t] \in States(Len(locks), Len(records), serial)
         /\ Shape(th[t]) /\ Named(th[t], locks, name)
         /\ Owner(th[t], cache, slotLocks, locks) /\ Frames(th[t], cache, slotLocks)
BY ThreadFacts DEF OwnedWith

\* The owned slots are locked, and are slots of messages or identifiers.
LEMMA ClaimsLocked ==
  ASSUME NEW r, NEW ca, NEW sl, NEW lk, NEW L \in Nat, NEW R, NEW n,
         r \in States(L, R, n), Shape(r), Owner(r, ca, sl, lk), Frames(r, ca, sl)
  PROVE  /\ Len(r.outer) \in Nat
         /\ \A k \in 1..Len(r.outer) : /\ r.outer[k].id \in Message
                                       /\ r.outer[k].lock \in 1..L
         /\ \A i \in Claims(r) : i \in Identifier /\ sl[i] # null
<1> DEFINE S == [id : Message, lock : 1..L]
           frames == r.outer
<1>1. frames \in Seq(S)
  BY DEF States
<1>2. Len(frames) \in Nat /\ \A k \in 1..Len(frames) : frames[k] \in S
  BY <1>1, LenProperties, ElementOfSeq
<1>3. \A k \in 1..Len(frames) : frames[k].id \in Message /\ frames[k].lock \in 1..L
  BY <1>2
<1>4. r.pc \in Owning => r.id \in Identifier /\ sl[r.id] # null
  BY DEF Shape, Owner, Owning
<1>5. \A k \in 1..Len(frames) : sl[frames[k].id] # null
  BY SMTT(20), <1>3 DEF Frames, null
<1>6. \A i \in Claims(r) : i \in Identifier /\ sl[i] # null
  BY <1>3, <1>4, <1>5 DEF Claims, Identifier
<1> QED BY <1>2, <1>3, <1>6

\* A thread keeps what it owns and knows when its slots stay, what is cached
\* stays, and what the locks show stays.
LEMMA OwnerKept ==
  ASSUME NEW r, NEW ca, NEW sl, NEW lk, NEW ca2, NEW sl2, NEW lk2,
         NEW L \in Nat, NEW R, NEW n, r \in States(L, R, n), Shape(r),
         Owner(r, ca, sl, lk), Frames(r, ca, sl),
         \A i \in Claims(r) : sl2[i] = sl[i] /\ ca2[i] = ca[i],
         \A i \in Identifier : ca[i] # null => ca2[i] = ca[i],
         \A l \in 1..L : /\ lk[l].accessRecord # null => lk2[l].accessRecord # null
                         /\ lk[l].alreadyInvalid => lk2[l].alreadyInvalid
  PROVE  Owner(r, ca2, sl2, lk2) /\ Frames(r, ca2, sl2)
<1>1. /\ Len(r.outer) \in Nat
      /\ \A k \in 1..Len(r.outer) : r.outer[k].id \in Message /\ r.outer[k].lock \in 1..L
  BY ClaimsLocked
<1>2. /\ r.pc \in Owning => r.id \in Claims(r)
      /\ \A k \in 1..Len(r.outer) : r.outer[k].id \in Claims(r)
  BY DEF Claims
<1>3. Frames(r, ca2, sl2)
  BY <1>2 DEF Frames
<1>4. Owner(r, ca2, sl2, lk2)
  <2>1. /\ r.pc \in HasRecord => r.id \in Identifier
        /\ r.pc \in HasShown \cup {"woken"} => r.lock \in 1..L
        /\ r.pc = "addPut" => r.pc \in Owning /\ r.id \in Message
    BY DEF Shape, States, HasRecord, HasShown, Owning, Waiting, OfMessage
  <2>2. r.pc = "addPut" /\ RefOf[r.id] # NoRef => RefOf[r.id] \in Identifier
    BY <2>1, CacheAssumption DEF Identifier
  <2> QED BY <1>2, <2>1, <2>2 DEF Owner
<1> QED BY <1>3, <1>4

\* One thread changes; of the slots and the cache, at most what is at i, which
\* was its own or nobody's.
LEMMA OwnedTogether ==
  ASSUME NEW name, OwnedWith(name), NEW name2, TypedWith(name2)', NEW t \in Process,
         NEW q, Become(t, q), NEW i \in Identifier,
         i \in Claims(th[t]) \/ slotLocks[i] = null \/ UNCHANGED <<cache, slotLocks>>,
         \A j \in Identifier \ {i} : slotLocks'[j] = slotLocks[j] /\ cache'[j] = cache[j],
         \A j \in Identifier : cache[j] # null => cache'[j] = cache[j],
         \A l \in 1..Len(locks) :
           /\ locks[l].accessRecord # null => locks'[l].accessRecord # null
           /\ locks[l].alreadyInvalid => locks'[l].alreadyInvalid,
         Claims(q) \subseteq Claims(th[t]) \/
           (slotLocks[i] = null /\ Claims(q) \subseteq Claims(th[t]) \cup {i}),
         OneRecord', LocksShow(name2)',
         Owner(q, cache', slotLocks', locks'), Frames(q, cache', slotLocks')
  PROVE  OwnedInv'
<1>1. DOMAIN th = Process
  BY DEF OwnedWith, TypedWith, ThreadsOK
<1>2. \A u \in Process : th'[u] = IF u = t THEN q ELSE th[u]
  BY <1>1 DEF Become
<1>3. ASSUME NEW u \in Process, u # t
      PROVE  /\ Owner(th[u], cache', slotLocks', locks') /\ Frames(th[u], cache', slotLocks')
             /\ Claims(q) \cap Claims(th[u]) = {}
  <2>1. /\ th[u] \in States(Len(locks), Len(records), serial) /\ Shape(th[u])
        /\ Owner(th[u], cache, slotLocks, locks) /\ Frames(th[u], cache, slotLocks)
        /\ Len(locks) \in Nat /\ Claims(th[t]) \cap Claims(th[u]) = {}
    BY <1>3, OwnedFacts DEF OwnedWith
  <2>2. \A j \in Claims(th[u]) : j \in Identifier /\ slotLocks[j] # null
    BY <2>1, ClaimsLocked
  <2>3. \A j \in Claims(th[u]) : slotLocks'[j] = slotLocks[j] /\ cache'[j] = cache[j]
    BY <2>1, <2>2
  <2>4. Owner(th[u], cache', slotLocks', locks') /\ Frames(th[u], cache', slotLocks')
    BY <2>1, <2>3, OwnerKept
  <2>5. Claims(q) \cap Claims(th[u]) = {}
    BY <2>1, <2>2
  <2> QED BY <2>4, <2>5
<1>4. \A u \in Process : Owner(th'[u], cache', slotLocks', locks')
                          /\ Frames(th'[u], cache', slotLocks')
  BY <1>2, <1>3
<1>5. \A u, v \in Process : u # v => Claims(th'[u]) \cap Claims(th'[v]) = {}
  <2> SUFFICES ASSUME NEW u \in Process, NEW v \in Process, u # v
               PROVE  Claims(th'[u]) \cap Claims(th'[v]) = {}
    OBVIOUS
  <2>1. Claims(th[u]) \cap Claims(th[v]) = {}
    BY DEF OwnedWith
  <2> QED BY <1>2, <1>3, <2>1
<1> QED BY <1>4, <1>5 DEF OwnedInv, OwnedWith

\* The messages and references of the records stay.
RecordsKept ==
  /\ Len(records') = Len(records)
  /\ \A x \in 1..Len(records) : /\ records'[x].message = records[x].message
                                /\ records'[x].ref = records[x].ref

LEMMA OneRecordSame ==
  ASSUME HeapOK, OneRecord, RecordsKept, UNCHANGED cache
  PROVE  OneRecord'
<1>1. /\ \A i \in Identifier : cache[i] # null => cache[i] \in 1..Len(records)
      /\ \A i \in Cached : i \in Identifier /\ cache[i] # null
      /\ Cached' = Cached
  BY DEF HeapOK, Cached, Identifier
<1>2. \A x \in 1..Len(records') : cache'[records'[x].message] = x
  BY DEF OneRecord, RecordsKept
<1>3. \A i \in Identifier : cache'[i] # null => records'[cache'[i]].message = i
  BY <1>1 DEF OneRecord, RecordsKept
<1>4. ChainComplete'
  BY <1>1 DEF OneRecord, RecordsKept, ChainComplete
<1> QED BY <1>2, <1>3, <1>4 DEF OneRecord

LEMMA LocksShowSame ==
  ASSUME NEW name, LocksShow(name), NEW name2, Grows(locks, locks', name, name2),
         UNCHANGED <<cache, locks>>
  PROVE  LocksShow(name2)'
BY DEF LocksShow, Grows

LEMMA RecordsSame == ASSUME UNCHANGED records PROVE RecordsKept
BY DEF RecordsKept

\* One thread changes, and no slot, lock or cached record.
LEMMA OwnedOnly ==
  ASSUME NEW name, OwnedWith(name), NEW name2, TypedWith(name2)',
         Grows(locks, locks', name, name2), NEW t \in Process, NEW q, Become(t, q),
         NEW i \in Identifier, UNCHANGED <<cache, slotLocks, locks>>, RecordsKept,
         Claims(q) \subseteq Claims(th[t]),
         Owner(q, cache, slotLocks, locks), Frames(q, cache, slotLocks)
  PROVE  OwnedInv'
<1>1. OneRecord'
  BY OneRecordSame DEF OwnedWith, TypedWith
<1>2. LocksShow(name2)'
  BY LocksShowSame DEF OwnedWith
<1>3. Owner(q, cache', slotLocks', locks') /\ Frames(q, cache', slotLocks')
  OBVIOUS
<1> QED BY <1>1, <1>2, <1>3, OwnedTogether

\* A thread that stays with its message and its frames.
LEMMA StaysWith ==
  ASSUME NEW r, NEW q, q.id = r.id, q.outer = r.outer, NEW ca, NEW sl, Frames(r, ca, sl),
         q.pc \in Owning => r.pc \in Owning
  PROVE  Claims(q) \subseteq Claims(r) /\ Frames(q, ca, sl)
<1> HIDE DEF Owning
<1> QED BY DEF Claims, Frames

LEMMA IdleOwns ==
  ASSUME NEW ca, NEW sl, NEW lk
  PROVE  Claims(Idle) = {} /\ Owner(Idle, ca, sl, lk) /\ Frames(Idle, ca, sl)
<1>1. Idle.outer = <<>> /\ Idle.pc = "idle" /\ Len(<<>>) = 0
  BY EmptySeq DEF Idle
<1> QED BY <1>1 DEF Claims, Owner, Frames, Owning, Recycling, HasRecord, HasShown

\* A thread that goes on with its message, its lock and its record.
LEMMA OwnedGoto ==
  ASSUME NEW name, OwnedWith(name), NEW name2, TypedWith(name2)',
         Grows(locks, locks', name, name2), NEW t \in Process, NEW q, Become(t, q),
         UNCHANGED <<cache, slotLocks, locks>>, RecordsKept,
         q.id = th[t].id, q.outer = th[t].outer, th[t].pc # "idle",
         q.pc \in Owning => th[t].pc \in Owning,
         Owner(q, cache, slotLocks, locks)
  PROVE  OwnedInv'
<1>1. th[t].id \in Identifier /\ Frames(th[t], cache, slotLocks)
  BY OwnedFacts DEF Shape
<1>2. Claims(q) \subseteq Claims(th[t]) /\ Frames(q, cache, slotLocks)
  BY <1>1, StaysWith
<1> QED BY <1>1, <1>2, OwnedOnly

LEMMA OwnedIdle ==
  ASSUME NEW name, OwnedWith(name), NEW name2, TypedWith(name2)',
         Grows(locks, locks', name, name2), NEW t \in Process, Become(t, Idle),
         UNCHANGED <<cache, slotLocks, locks>>, RecordsKept, th[t].pc # "idle"
  PROVE  OwnedInv'
<1>1. th[t].id \in Identifier
  BY OwnedFacts DEF Shape
<1> QED BY <1>1, IdleOwns, OwnedOnly

\* A thread puts its lock into the free slot of its message, or finds another's.
LEMMA OwnedTake ==
  ASSUME NEW name, OwnedWith(name), NEW name2, TypedWith(name2)',
         Grows(locks, locks', name, name2), NEW t \in Process,
         NEW state, NEW x, NEW mine \in {"getRead", "loadRow", "addRead", "relDec"},
         NEW theirs \in {"waitEnter", "relShare"}, TakeSlot(t, state, x, mine, theirs),
         th[t].pc # "idle", th[t].pc \notin Owning, UNCHANGED <<cache, records>>,
         x # null => x = cache[th[t].id], mine = "relDec" => x # null
  PROVE  OwnedInv'
<1> DEFINE r == th[t]
           i == r.id
<1>1. /\ HeapOK /\ NamesOK(name) /\ Len(locks) \in Nat /\ OneRecord /\ LocksShow(name)
      /\ r \in States(Len(locks), Len(records), serial) /\ Shape(r)
      /\ Owner(r, cache, slotLocks, locks) /\ Frames(r, cache, slotLocks)
      /\ i \in Identifier /\ RecordsKept
  BY OwnedFacts, RecordsSame DEF Shape
<1>2. CASE slotLocks[i] # null
  <2> DEFINE q == [r EXCEPT !.pc = theirs, !.lock = slotLocks[i]]
  <2>1. UNCHANGED <<locks, slotLocks>> /\ Become(t, q)
    BY <1>2 DEF TakeSlot
  <2>2. q.pc = theirs /\ q.id = r.id /\ q.outer = r.outer
    BY <1>1 DEF States
  <2> HIDE DEF q
  <2>3. Owner(q, cache, slotLocks, locks) /\ q.pc \notin Owning
    BY <2>2 DEF Owner, Owning, Recycling, HasRecord, HasShown
  <2> QED BY <2>1, <2>2, <2>3, <1>1, OwnedGoto
<1>3. CASE slotLocks[i] = null
  <2> DEFINE q == [r EXCEPT !.pc = mine, !.lock = Len(locks')]
             lock == [lockState |-> state, accessRecord |-> x, alreadyInvalid |-> FALSE]
  <2>1. /\ locks' = Append(locks, lock) /\ Become(t, q)
        /\ slotLocks' = [slotLocks EXCEPT ![i] = Len(locks')]
    BY <1>3 DEF TakeSlot
  <2>2. q.pc = mine /\ q.id = r.id /\ q.outer = r.outer /\ q.lock = Len(locks')
    BY <1>1 DEF States
  <2>3. lock.accessRecord = x /\ lock.alreadyInvalid = FALSE
    OBVIOUS
  <2> HIDE DEF q, lock
  <2>4. /\ Len(locks') = Len(locks) + 1 /\ locks'[Len(locks')] = lock
        /\ \A l \in 1..Len(locks) : locks'[l] = locks[l]
    BY <1>1, <2>1, AppendProperties, LenProperties DEF HeapOK
  <2>5. \A j \in Identifier : slotLocks'[j] = IF j = i THEN Len(locks') ELSE slotLocks[j]
    BY <1>1, <2>1 DEF HeapOK
  <2>6. Len(locks') # null
    BY <1>1, <2>4 DEF null
  <2>7. LocksShow(name2)'
    <3>1. name2[Len(locks')] = i
      BY <1>1, <2>5, <2>6 DEF TypedWith, NamesOK
    <3>2. ASSUME NEW l \in 1..Len(locks')
          PROVE  /\ locks'[l].accessRecord # null => locks'[l].accessRecord = cache'[name2[l]]
                 /\ locks'[l].alreadyInvalid => locks'[l].accessRecord # null
      <4>1. CASE l = Len(locks')
        BY <2>3, <2>4, <3>1, <4>1
      <4>2. CASE l # Len(locks')
        <5>1. l \in 1..Len(locks) /\ locks'[l] = locks[l] /\ name2[l] = name[l]
          BY <1>1, <2>4, <4>2 DEF Grows
        <5> QED BY <1>1, <5>1 DEF LocksShow
      <4> QED BY <4>1, <4>2
    <3> QED BY <3>2 DEF LocksShow
  <2>8. \A k \in 1..Len(r.outer) : r.outer[k].id # i /\ r.outer[k].id \in Identifier
    <3>1. \A j \in Claims(r) : j \in Identifier /\ slotLocks[j] # null
      BY <1>1, ClaimsLocked
    <3>2. \A k \in 1..Len(r.outer) : r.outer[k].id \in Claims(r)
      BY DEF Claims
    <3> QED BY <1>3, <3>1, <3>2
  <2>9. Frames(q, cache', slotLocks')
    BY SMTT(20), <1>1, <2>2, <2>5, <2>8 DEF Frames
  <2>10. Owner(q, cache', slotLocks', locks')
    BY <1>1, <2>2, <2>3, <2>4, <2>5 DEF Owner, Recycling, HasRecord, HasShown
  <2>11. Claims(q) \subseteq Claims(r) \cup {i}
    BY <2>2 DEF Claims
  <2>12. OneRecord'
    BY <1>1, OneRecordSame
  <2>13. /\ \A j \in Identifier \ {i} : slotLocks'[j] = slotLocks[j] /\ cache'[j] = cache[j]
         /\ \A j \in Identifier : cache[j] # null => cache'[j] = cache[j]
    BY <2>5
  <2>14. \A l \in 1..Len(locks) :
           /\ locks[l].accessRecord # null => locks'[l].accessRecord # null
           /\ locks[l].alreadyInvalid => locks'[l].alreadyInvalid
    BY <2>4
  <2> QED BY <1>1, <1>3, <2>1, <2>7, <2>9, <2>10, <2>11, <2>12, <2>13, <2>14, OwnedTogether
<1> QED BY <1>2, <1>3

\* A thread gives its slot back.
LEMMA OwnedFree ==
  ASSUME NEW name, OwnedWith(name), NEW name2, TypedWith(name2)',
         Grows(locks, locks', name, name2), NEW t \in Process, NEW q, Become(t, q),
         th[t].pc \in Owning, FreeSlot(th[t].id), UNCHANGED <<cache, locks>>, RecordsKept,
         Claims(q) \subseteq Claims(th[t]), th[t].id \notin Claims(q),
         Owner(q, cache, slotLocks, locks), Frames(q, cache, slotLocks)
  PROVE  OwnedInv'
<1> DEFINE i == th[t].id
<1>1. HeapOK /\ i \in Identifier /\ OneRecord /\ LocksShow(name)
  BY OwnedFacts DEF Shape, Owning
<1>2. \A j : j # i => slotLocks'[j] = slotLocks[j]
  BY DEF FreeSlot
<1>3. i \in Claims(th[t])
  BY DEF Claims
<1>4. \A k \in 1..Len(q.outer) : q.outer[k].id # i
  BY DEF Claims
<1>5. q.pc \in Owning => q.id # i
  BY DEF Claims
<1>6. Owner(q, cache', slotLocks', locks') /\ Frames(q, cache', slotLocks')
  <2> HIDE DEF Owning, i
  <2> QED BY <1>2, <1>4, <1>5 DEF Owner, Frames
<1>7. OneRecord' /\ LocksShow(name2)'
  BY <1>1, OneRecordSame, LocksShowSame
<1> QED BY <1>1, <1>2, <1>3, <1>6, <1>7, OwnedTogether

\* A lock shows the record that is cached for its message.
LEMMA OwnedShow ==
  ASSUME NEW name, OwnedWith(name), NEW name2, TypedWith(name2)',
         Grows(locks, locks', name, name2), NEW t \in Process, NEW q, Become(t, q),
         th[t].pc \in Owning, ShowRecord(th[t].lock, cache[th[t].id]),
         cache[th[t].id] # null, UNCHANGED <<cache, slotLocks, records>>,
         q.pc \in {"getInc", "addInc"}, q.id = th[t].id, q.outer = th[t].outer,
         q.lock = th[t].lock, q.rec = cache[th[t].id]
  PROVE  OwnedInv'
<1> DEFINE r == th[t]
           i == r.id
<1>1. /\ HeapOK /\ i \in Identifier /\ OneRecord /\ LocksShow(name) /\ RecordsKept
      /\ Len(records) \in Nat /\ Len(locks) \in Nat /\ r.lock \in 1..Len(locks)
      /\ Owner(r, cache, slotLocks, locks) /\ Frames(r, cache, slotLocks)
      /\ name[r.lock] = i
  BY OwnedFacts, PCFacts, RecordsSame DEF Named, Owning
<1>2. /\ Len(locks') = Len(locks)
      /\ \A l \in 1..Len(locks) : l # r.lock => locks'[l] = locks[l]
      /\ locks'[r.lock].accessRecord = cache[i]
      /\ locks'[r.lock].alreadyInvalid = locks[r.lock].alreadyInvalid
  <2>1. locks \in Seq(LockType(Len(records))) /\ cache[i] \in {null} \cup 1..Len(records)
    BY <1>1 DEF HeapOK
  <2> QED BY <1>1, <2>1, LockChanges
<1>3. LocksShow(name2)'
  BY <1>1, <1>2 DEF LocksShow, Grows
<1>4. OneRecord'
  BY <1>1, OneRecordSame
<1>5. Claims(q) \subseteq Claims(r) /\ Frames(q, cache, slotLocks)
  BY <1>1, StaysWith
<1>6. Owner(q, cache, slotLocks, locks')
  BY <1>1, <1>2 DEF Owner, Owning, Recycling, HasRecord, HasShown
<1>7. \A l \in 1..Len(locks) :
        /\ locks[l].accessRecord # null => locks'[l].accessRecord # null
        /\ locks[l].alreadyInvalid => locks'[l].alreadyInvalid
  BY <1>2
<1> QED BY <1>1, <1>3, <1>4, <1>5, <1>6, <1>7, OwnedTogether

\* A frame returns its record: to the frame that waits for it, or to the caller.
LEMMA DeliverOwns ==
  ASSUME NEW name, OwnedWith(name), NEW t \in Process, NEW x, Deliver(t, x),
         th[t].pc \in {"unslot", "waitInc", "waitUnlist"},
         th[t].outer # <<>> => x = th[t].rec
  PROVE  \E q : /\ Become(t, q) /\ Owner(q, cache, slotLocks, locks)
                /\ Frames(q, cache, slotLocks)
                /\ Claims(q) \subseteq {th[t].outer[k].id : k \in 1..Len(th[t].outer)}
<1> DEFINE r == th[t]
           S == [id : Message, lock : 1..Len(locks)]
           frames == r.outer
<1>1. /\ Len(locks) \in Nat /\ r \in States(Len(locks), Len(records), serial)
      /\ Owner(r, cache, slotLocks, locks) /\ Frames(r, cache, slotLocks)
      /\ frames \in Seq(S)
  BY OwnedFacts DEF States
<1>2. r.rec # null /\ cache[r.id] = r.rec
  BY <1>1 DEF Owner, HasRecord
<1>3. CASE frames # <<>>
  <2> DEFINE frame == Last(frames)
             q == [r EXCEPT !.pc = "addPut", !.id = frame.id, !.lock = frame.lock,
                            !.outer = Front(frames), !.rec = x]
  <2>1. Become(t, q)
    BY <1>3 DEF Deliver
  <2>2. /\ q.pc = "addPut" /\ q.id = frame.id /\ q.lock = frame.lock
        /\ q.outer = Front(frames) /\ q.rec = r.rec
    BY <1>1, <1>3 DEF States
  <2>3. /\ Len(frames) \in Nat /\ Len(frames) >= 1 /\ frame = frames[Len(frames)]
        /\ Len(Front(frames)) = Len(frames) - 1
        /\ \A k \in 1..(Len(frames) - 1) : Front(frames)[k] = frames[k]
    <3> HIDE DEF S, frames
    <3> QED BY <1>1, <1>3, FrontFacts DEF frames
  <2> HIDE DEF q, frame, frames
  <2>9. /\ \A k \in 1..Len(frames) :
             /\ cache[frames[k].id] = null /\ slotLocks[frames[k].id] = frames[k].lock
             /\ k = Len(frames) => RefOf[frames[k].id] = r.id
             /\ k # Len(frames) => RefOf[frames[k].id] = frames[k + 1].id
        /\ \A j, k \in 1..Len(frames) : j # k => frames[j].id # frames[k].id
    BY <1>1 DEF Frames, frames
  <2>4. /\ cache[frame.id] = null /\ slotLocks[frame.id] = frame.lock
        /\ RefOf[frame.id] = r.id
    BY <2>9, <2>3
  <2>5. Owner(q, cache, slotLocks, locks)
    BY <1>2, <2>2, <2>4 DEF Owner, Recycling, HasRecord, HasShown
  <2>6. /\ Len(q.outer) = Len(frames) - 1
        /\ \A k \in 1..Len(q.outer) : q.outer[k] = frames[k] /\ k \in 1..Len(frames)
    BY <2>2, <2>3
  <2>7. Frames(q, cache, slotLocks)
    <3>1. ASSUME NEW k \in 1..Len(q.outer)
          PROVE  /\ cache[q.outer[k].id] = null
                 /\ slotLocks[q.outer[k].id] = q.outer[k].lock
                 /\ RefOf[q.outer[k].id] = IF k = Len(q.outer) THEN q.id ELSE q.outer[k + 1].id
                 /\ q.outer[k].id # q.id
      <4>1. /\ cache[frames[k].id] = null /\ slotLocks[frames[k].id] = frames[k].lock
            /\ RefOf[frames[k].id] = frames[k + 1].id
            /\ frames[k].id # frames[Len(frames)].id
        <5>1. k \in 1..Len(frames) /\ k # Len(frames) /\ Len(frames) \in 1..Len(frames)
          BY <2>3, <2>6
        <5> QED BY <2>9, <5>1
      <4>2. CASE k = Len(q.outer)
        <5>1. k + 1 = Len(frames)
          BY <2>3, <2>6, <4>2
        <5> QED BY <2>2, <2>3, <2>6, <4>1, <4>2, <5>1
      <4>3. CASE k # Len(q.outer)
        <5>1. k + 1 \in 1..Len(q.outer)
          BY <2>3, <2>6, <4>3
        <5> QED BY <2>2, <2>3, <2>6, <4>1, <4>3, <5>1
      <4> QED BY <4>2, <4>3
    <3>2. \A j, k \in 1..Len(q.outer) : j # k => q.outer[j].id # q.outer[k].id
      <4> SUFFICES ASSUME NEW j \in 1..Len(q.outer), NEW k \in 1..Len(q.outer), j # k
                   PROVE  q.outer[j].id # q.outer[k].id
        OBVIOUS
      <4> QED BY <2>9, <2>6
    <3> QED BY <3>1, <3>2 DEF Frames
  <2>8. Claims(q) \subseteq {frames[k].id : k \in 1..Len(frames)}
    BY <2>2, <2>3, <2>6 DEF Claims
  <2> QED BY <2>1, <2>5, <2>7, <2>8 DEF frames
<1>4. ASSUME NEW q, Become(t, q), q.outer = <<>>, q.pc \in {"relRead", "addSlot", "idle"}
      PROVE  /\ Owner(q, cache, slotLocks, locks) /\ Frames(q, cache, slotLocks)
             /\ Claims(q) = {}
  <2>1. Len(q.outer) = 0
    BY <1>4, EmptySeq
  <2> QED BY <1>4, <2>1 DEF Owner, Frames, Claims, Owning, Recycling, HasRecord, HasShown
<1>5. CASE frames = <<>>
  <2>1. PICK q : Become(t, q) /\ q.outer = <<>> /\ q.pc \in {"relRead", "addSlot", "idle"}
    <3>1. /\ [r EXCEPT !.pc = "relRead", !.rec = x].outer = <<>>
          /\ [r EXCEPT !.pc = "relRead", !.rec = x].pc = "relRead"
          /\ [r EXCEPT !.pc = "addSlot", !.id = r.target, !.loaded = FALSE].outer = <<>>
          /\ [r EXCEPT !.pc = "addSlot", !.id = r.target, !.loaded = FALSE].pc = "addSlot"
          /\ Idle.outer = <<>> /\ Idle.pc = "idle"
      BY <1>1, <1>5 DEF States, Idle
    <3> QED BY <1>5, <3>1 DEF Deliver
  <2> QED BY <1>4, <2>1
<1> QED BY <1>3, <1>5

\* A count or a serial is all that changes of a record.
LEMMA CountKept ==
  ASSUME HeapOK, NEW x \in {null} \cup 1..Len(records), NEW n \in Int, AddBackRef(x, n),
         UNCHANGED <<cache, LRUList, slotLocks, serial, locks>>
  PROVE  RecordsKept
BY BackRefHeap DEF RecordsKept

\* A step of a thread that has its slot and the record, up to removeSelfFromLocks.
LEMMA OwnedOn ==
  ASSUME NEW name, OwnedWith(name), NEW name2, TypedWith(name2)',
         Grows(locks, locks', name, name2), NEW t \in Process, NEW pc, Goto(t, pc),
         UNCHANGED <<cache, slotLocks, locks>>, RecordsKept,
         \/ /\ th[t].pc \in {"getInc", "getUnlist", "getSerial", "addInc", "addUnlist"}
            /\ pc \in {"getUnlist", "getSerial", "addUnlist", "invalidate"}
         \/ th[t].pc = "waitInc" /\ pc = "waitUnlist"
         \/ th[t].pc = "relDec" /\ pc \in {"relList", "relInvalidate"}
         \/ th[t].pc = "waitEnter" /\ pc = "waitAwait"
         \/ th[t].pc = "waitAwait" /\ pc = "await"
  PROVE  OwnedInv'
<1> DEFINE q == [th[t] EXCEPT !.pc = pc]
<1>1. th[t] \in States(Len(locks), Len(records), serial)
      /\ Owner(th[t], cache, slotLocks, locks)
  BY OwnedFacts
<1>2. /\ q.pc = pc /\ q.id = th[t].id /\ q.outer = th[t].outer /\ q.lock = th[t].lock
      /\ q.rec = th[t].rec
  BY <1>1 DEF States
<1>3. Become(t, q)
  BY DEF Goto
<1> HIDE DEF q
<1>4. Owner(q, cache, slotLocks, locks) /\ th[t].pc # "idle"
      /\ (q.pc \in Owning => th[t].pc \in Owning)
  BY <1>1, <1>2 DEF Owner, Owning, Recycling, HasRecord, HasShown
<1> QED BY <1>2, <1>3, <1>4, OwnedGoto

LEMMA GetKeepsOwned ==
  ASSUME NEW name, OwnedWith(name), NEW name2, TypedWith(name2)',
         Grows(locks, locks', name, name2), NEW t \in Process,
         GetSlot(t) \/ GetRead(t) \/ GetInc(t) \/ GetUnlist(t) \/ GetSerial(t)
  PROVE  OwnedInv'
<1> DEFINE r == th[t]
<1>1. /\ HeapOK /\ r \in States(Len(locks), Len(records), serial) /\ Shape(r)
      /\ Owner(r, cache, slotLocks, locks) /\ Frames(r, cache, slotLocks)
      /\ r.rec \in {null} \cup 1..Len(records)
  BY OwnedFacts DEF States
<1>2. CASE GetSlot(t)
  BY <1>2, OwnedTake DEF GetSlot, At, Owning
<1>3. CASE GetRead(t) /\ cache[r.id] = null
  <2> DEFINE q == [r EXCEPT !.pc = "loadSlot"]
  <2>1. Become(t, q) /\ FreeSlot(r.id) /\ UNCHANGED <<cache, records, locks>>
        /\ r.pc = "getRead"
    BY <1>3 DEF GetRead, Goto, At
  <2>2. q.pc = "loadSlot" /\ q.id = r.id /\ q.outer = r.outer
    BY <1>1 DEF States
  <2> HIDE DEF q
  <2>3. Owner(q, cache, slotLocks, locks) /\ q.pc \notin Owning /\ r.pc \in Owning
    BY <2>1, <2>2 DEF Owner, Owning, Recycling, HasRecord, HasShown
  <2>4. Claims(q) \subseteq Claims(r) /\ Frames(q, cache, slotLocks)
    BY <1>1, <2>2, <2>3, StaysWith
  <2>5. r.id \notin Claims(q)
    <3> HIDE DEF Owning
    <3> QED BY <1>1, <2>2, <2>3 DEF Claims, Frames
  <2> QED BY <2>1, <2>3, <2>4, <2>5, RecordsSame, OwnedFree
<1>4. CASE GetRead(t) /\ cache[r.id] # null
  <2> DEFINE x == cache[r.id]
             q == [r EXCEPT !.pc = "getInc", !.rec = x, !.serial = serial']
  <2>1. Become(t, q) /\ ShowRecord(r.lock, x) /\ UNCHANGED <<cache, slotLocks, records>>
        /\ r.pc = "getRead"
    BY <1>4 DEF GetRead, At, ShowRecord
  <2>2. q.pc = "getInc" /\ q.id = r.id /\ q.outer = r.outer /\ q.lock = r.lock /\ q.rec = x
    BY <1>1 DEF States
  <2> HIDE DEF q
  <2> QED BY <1>4, <2>1, <2>2, OwnedShow DEF Owning
<1>5. CASE GetInc(t)
  <2>1. RecordsKept
    BY <1>1, <1>5, CountKept DEF GetInc
  <2> QED BY <1>5, <2>1, OwnedOn DEF GetInc, At
<1>6. CASE GetUnlist(t)
  BY <1>6, OwnedOn, RecordsSame DEF GetUnlist, At
<1>7. CASE GetSerial(t)
  <2>1. /\ NewSerial(r.rec, r.serial) /\ r.serial \in 1..serial' /\ serial' \in Nat
        /\ serial <= serial' /\ UNCHANGED <<cache, LRUList, slotLocks, locks>>
    BY <1>1, <1>7 DEF GetSerial, At, NewSerial, HeapOK, States, Shape
  <2>2. RecordsKept
    BY <1>1, <2>1, SerialHeap DEF RecordsKept
  <2> QED BY <1>7, <2>2, OwnedOn DEF GetSerial, At
<1> QED BY <1>2, <1>3, <1>4, <1>5, <1>6, <1>7

LEMMA AddKeepsOwned ==
  ASSUME NEW name, OwnedWith(name), NEW name2, TypedWith(name2)',
         Grows(locks, locks', name, name2), NEW t \in Process,
         LoadSlot(t) \/ LoadRow(t) \/ AddSlot(t) \/ AddInc(t) \/ AddUnlist(t)
  PROVE  OwnedInv'
<1> DEFINE r == th[t]
<1>1. /\ HeapOK /\ r \in States(Len(locks), Len(records), serial) /\ Shape(r)
      /\ Owner(r, cache, slotLocks, locks) /\ Frames(r, cache, slotLocks)
      /\ r.rec \in {null} \cup 1..Len(records)
  BY OwnedFacts DEF States
<1>2. CASE LoadSlot(t)
  BY <1>2, OwnedTake DEF LoadSlot, At, Owning
<1>3. CASE AddSlot(t)
  BY <1>3, OwnedTake DEF AddSlot, At, Owning
<1>4. CASE LoadRow(t) /\ r.id \notin stored
  BY <1>4, OwnedIdle, RecordsSame DEF LoadRow, At
<1>5. CASE LoadRow(t) /\ r.id \in stored
  <2> DEFINE q == [r EXCEPT !.pc = "addRead", !.loaded = TRUE]
  <2>1. Become(t, q) /\ UNCHANGED <<cache, slotLocks, records, locks>> /\ r.pc = "loadRow"
    BY <1>5 DEF LoadRow, At
  <2>2. q.pc = "addRead" /\ q.id = r.id /\ q.outer = r.outer /\ q.lock = r.lock
    BY <1>1 DEF States
  <2> HIDE DEF q
  <2>3. Owner(q, cache, slotLocks, locks) /\ r.pc \in Owning
    BY <1>1, <2>1, <2>2 DEF Owner, Owning, Recycling, HasRecord, HasShown
  <2> QED BY <2>1, <2>2, <2>3, RecordsSame, OwnedGoto
<1>6. CASE AddInc(t)
  <2>1. RecordsKept
    BY <1>1, <1>6, CountKept DEF AddInc, CountReference
  <2> QED BY <1>6, <2>1, OwnedOn DEF AddInc, At
<1>7. CASE AddUnlist(t)
  <2>1. /\ NewSerial(r.rec, serial') /\ serial' \in 1..serial' /\ serial' \in Nat
        /\ serial <= serial' /\ UNCHANGED <<cache, slotLocks, locks>>
        /\ DOMAIN LRUList' \subseteq DOMAIN LRUList
        /\ \A k \in DOMAIN LRUList' : LRUList'[k] = LRUList[k]
    BY <1>1, <1>7 DEF AddUnlist, Unlist, NewSerial, HeapOK
  <2>2. RecordsKept
    BY <1>1, <2>1, SerialHeap DEF RecordsKept
  <2> QED BY <1>7, <2>2, OwnedOn DEF AddUnlist, At
<1> QED BY <1>2, <1>3, <1>4, <1>5, <1>6, <1>7

LEMMA AddReadKeepsOwned ==
  ASSUME NEW name, OwnedWith(name), NEW name2, TypedWith(name2)',
         Grows(locks, locks', name, name2), NEW t \in Process, AddRead(t)
  PROVE  OwnedInv'
<1> DEFINE r == th[t]
           x == cache[r.id]
<1>1. /\ r \in States(Len(locks), Len(records), serial) /\ Shape(r)
      /\ Owner(r, cache, slotLocks, locks) /\ Frames(r, cache, slotLocks)
      /\ r.pc = "addRead" /\ r.pc \in Owning /\ r.id \in Identifier
      /\ UNCHANGED <<cache, slotLocks, records>> /\ RecordsKept
  BY OwnedFacts, RecordsSame DEF AddRead, At, Shape, Owning
<1>2. CASE x # null
  <2> DEFINE q == [r EXCEPT !.pc = "addInc", !.rec = x,
                            !.stray = r.loaded /\ r.outer = <<>>]
  <2>1. ShowRecord(r.lock, x) /\ Become(t, q)
    BY <1>2 DEF AddRead, ShowRecord, Found
  <2>2. q.pc = "addInc" /\ q.id = r.id /\ q.outer = r.outer /\ q.lock = r.lock /\ q.rec = x
    BY <1>1 DEF States
  <2> HIDE DEF q
  <2> QED BY <1>1, <1>2, <2>1, <2>2, OwnedShow
<1>3. CASE x = null /\ RefOf[r.id] # NoRef
  <2> DEFINE S == [id : Message, lock : 1..Len(locks)]
             frame == [id |-> r.id, lock |-> r.lock]
             q == [r EXCEPT !.pc = "addSlot", !.id = RefOf[r.id],
                            !.outer = Append(r.outer, frame)]
  <2>1. UNCHANGED locks /\ Become(t, q)
    BY <1>3 DEF AddRead, Found
  <2>2. /\ r.outer \in Seq(S) /\ frame.id = r.id /\ frame.lock = r.lock
        /\ slotLocks[r.id] = r.lock
    BY <1>1 DEF States, Owner
  <2>3. q.pc = "addSlot" /\ q.id = RefOf[r.id] /\ q.outer = Append(r.outer, frame)
    BY <1>1 DEF States
  <2>4. /\ \A k \in 1..Len(r.outer) :
             /\ cache[r.outer[k].id] = null /\ slotLocks[r.outer[k].id] = r.outer[k].lock
             /\ k = Len(r.outer) => RefOf[r.outer[k].id] = r.id
             /\ k # Len(r.outer) => RefOf[r.outer[k].id] = r.outer[k + 1].id
             /\ r.outer[k].id # r.id
        /\ \A j, k \in 1..Len(r.outer) : j # k => r.outer[j].id # r.outer[k].id
    BY <1>1 DEF Frames
  <2> HIDE DEF S, frame, q
  <2>5. /\ Len(r.outer) \in Nat /\ Len(q.outer) = Len(r.outer) + 1
        /\ q.outer[Len(r.outer) + 1] = frame
        /\ \A k \in 1..Len(r.outer) : q.outer[k] = r.outer[k]
    <3>1. r.outer \in Seq(S \cup {frame}) /\ frame \in S \cup {frame}
      BY <2>2, SeqMonotonic
    <3> QED BY <2>3, <3>1, AppendProperties, LenProperties
  <2>6. r.id \in Claims(r) /\ \A k \in 1..Len(r.outer) : r.outer[k].id \in Claims(r)
    BY <1>1 DEF Claims
  <2>7. ASSUME NEW k \in 1..Len(q.outer)
        PROVE  /\ cache[q.outer[k].id] = null
               /\ slotLocks[q.outer[k].id] = q.outer[k].lock
               /\ RefOf[q.outer[k].id] = IF k = Len(q.outer) THEN q.id ELSE q.outer[k + 1].id
               /\ q.outer[k].id \in Claims(r)
    <3>1. CASE k = Len(r.outer) + 1
      <4>1. q.outer[k] = frame /\ k = Len(q.outer)
        BY <2>5, <3>1
      <4> QED BY <1>3, <2>2, <2>3, <2>6, <4>1
    <3>2. CASE k = Len(r.outer) /\ k \in 1..Len(r.outer)
      <4>1. /\ q.outer[k] = r.outer[k] /\ q.outer[k + 1] = frame /\ k # Len(q.outer)
            /\ RefOf[r.outer[k].id] = r.id
        BY <2>4, <2>5, <3>2
      <4> QED BY <2>2, <2>4, <2>6, <3>2, <4>1
    <3>3. CASE k # Len(r.outer) /\ k \in 1..Len(r.outer)
      <4>1. k + 1 \in 1..Len(r.outer) /\ k # Len(q.outer)
        BY <2>5, <3>3
      <4>2. q.outer[k] = r.outer[k] /\ q.outer[k + 1] = r.outer[k + 1]
        BY <2>5, <3>3, <4>1
      <4>3. RefOf[r.outer[k].id] = r.outer[k + 1].id
        BY <2>4, <3>3
      <4> QED BY <2>4, <2>6, <3>3, <4>1, <4>2, <4>3
    <3> QED BY <2>5, <3>1, <3>2, <3>3
  <2>8. ASSUME NEW j \in 1..Len(q.outer), NEW k \in 1..Len(q.outer), j # k
        PROVE  q.outer[j].id # q.outer[k].id
    <3>1. CASE j # Len(q.outer) /\ k # Len(q.outer)
      <4>1. j \in 1..Len(r.outer) /\ k \in 1..Len(r.outer)
        BY <2>5, <3>1
      <4>2. q.outer[j] = r.outer[j] /\ q.outer[k] = r.outer[k]
        BY <2>5, <4>1
      <4>3. r.outer[j].id # r.outer[k].id
        BY <2>4, <2>8, <4>1
      <4> QED BY <4>2, <4>3
    <3>2. CASE j # Len(q.outer) /\ k = Len(q.outer)
      <4>1. j \in 1..Len(r.outer) /\ q.outer[k] = frame
        BY <2>5, <3>2
      <4>2. q.outer[j] = r.outer[j] /\ r.outer[j].id # r.id
        BY <2>4, <2>5, <4>1
      <4> QED BY <2>2, <4>1, <4>2
    <3>3. CASE j = Len(q.outer) /\ k # Len(q.outer)
      <4>1. k \in 1..Len(r.outer) /\ q.outer[j] = frame
        BY <2>5, <3>3
      <4>2. q.outer[k] = r.outer[k] /\ r.outer[k].id # r.id
        BY <2>4, <2>5, <4>1
      <4> QED BY <2>2, <4>1, <4>2
    <3> QED BY <2>8, <3>1, <3>2, <3>3
  <2>9. q.pc \notin Owning /\ Owner(q, cache, slotLocks, locks)
    BY <2>3 DEF Owner, Owning, Recycling, HasRecord, HasShown
  <2>10. Frames(q, cache, slotLocks) /\ Claims(q) \subseteq Claims(r)
    <3> HIDE DEF r, Owning
    <3>1. Frames(q, cache, slotLocks)
      BY <2>7, <2>8, <2>9 DEF Frames
    <3>2. Claims(q) = {q.outer[k].id : k \in 1..Len(q.outer)}
      BY <2>9 DEF Claims
    <3> QED BY <2>7, <3>1, <3>2
  <2> QED BY <1>1, <2>1, <2>9, <2>10, OwnedOnly
<1>4. CASE x = null /\ RefOf[r.id] = NoRef
  <2> DEFINE q == [r EXCEPT !.pc = "addPut", !.rec = null]
  <2>1. UNCHANGED locks /\ Become(t, q)
    BY <1>4 DEF AddRead, Found
  <2>2. q.pc = "addPut" /\ q.id = r.id /\ q.outer = r.outer /\ q.lock = r.lock
    BY <1>1 DEF States
  <2> HIDE DEF q
  <2>3. Owner(q, cache, slotLocks, locks)
    BY <1>1, <1>4, <2>2 DEF Owner, Owning, Recycling, HasRecord, HasShown
  <2> QED BY <1>1, <2>1, <2>2, <2>3, OwnedGoto
<1> QED BY <1>2, <1>3, <1>4

LEMMA AddPutKeepsOwned ==
  ASSUME NEW name, OwnedWith(name), NEW name2, TypedWith(name2)',
         Grows(locks, locks', name, name2), NEW t \in Process, AddPut(t)
  PROVE  OwnedInv'
<1> DEFINE r == th[t]
           R == Len(records)
           i == r.id
           rec == [message |-> i, serial |-> serial', backReference |-> 1, ref |-> r.rec]
           q == [r EXCEPT !.pc = "invalidate", !.rec = R + 1]
<1>1. /\ HeapOK /\ NamesOK(name) /\ OneRecord /\ LocksShow(name)
      /\ r \in States(Len(locks), R, serial) /\ Shape(r) /\ name[r.lock] = i
      /\ Owner(r, cache, slotLocks, locks) /\ Frames(r, cache, slotLocks)
      /\ r.pc = "addPut" /\ i \in Message /\ i \in Identifier
      /\ R \in Nat /\ Len(locks) \in Nat /\ r.lock \in 1..Len(locks)
  BY OwnedFacts, PCFacts DEF AddPut, At, Shape, Owning, OfMessage, Named
<1>2. /\ records' = Append(records, rec) /\ cache' = [cache EXCEPT ![i] = R + 1]
      /\ ShowRecord(r.lock, R + 1) /\ Become(t, q) /\ UNCHANGED slotLocks
  BY DEF AddPut, Reference, ShowRecord
<1>3. /\ cache[i] = null /\ slotLocks[i] = r.lock
      /\ RefOf[i] # NoRef => r.rec # null /\ cache[RefOf[i]] = r.rec
  BY <1>1 DEF Owner, Owning
<1>4. /\ q.pc = "invalidate" /\ q.id = i /\ q.outer = r.outer /\ q.lock = r.lock
      /\ q.rec = R + 1
  BY <1>1 DEF States
<1>5. rec.message = i /\ rec.ref = r.rec
  OBVIOUS
<1> HIDE DEF q, rec, R
<1>6. /\ Len(records') = R + 1 /\ records'[R + 1] = rec
      /\ \A x \in 1..R : records'[x] = records[x] /\ records[x].message \in Message
  <2>1. /\ records \in Seq(RecordType(R, serial) \cup {rec})
        /\ \A x \in 1..R : records[x] \in RecordType(R, serial)
    BY <1>1, HeapFacts, SeqMonotonic DEF HeapOK, R
  <2>2. \A x \in 1..R : records[x].message \in Message
    BY <2>1 DEF RecordType
  <2> QED BY <1>1, <1>2, <2>1, <2>2, AppendProperties, LenProperties DEF R
<1>7. /\ \A j \in Identifier : cache'[j] = IF j = i THEN R + 1 ELSE cache[j]
      /\ \A j \in Identifier : cache[j] # null => cache[j] \in 1..R
      /\ R + 1 # null
  BY <1>1, <1>2 DEF HeapOK, R, null
<1>8. /\ Len(locks') = Len(locks)
      /\ \A l \in 1..Len(locks) : l # r.lock => locks'[l] = locks[l]
      /\ locks'[r.lock].accessRecord = R + 1
      /\ locks'[r.lock].alreadyInvalid = locks[r.lock].alreadyInvalid
  <2> DEFINE new == R + 1
  <2>1. locks \in Seq(LockType(new)) /\ new \in Nat /\ new \in {null} \cup 1..new
    BY <1>1, RecordsGrow DEF HeapOK, R
  <2>2. ShowRecord(r.lock, new) /\ r.lock \in 1..Len(locks)
    BY <1>1, <1>2
  <2> HIDE DEF new
  <2>3. /\ Len(locks') = Len(locks)
        /\ \A l \in 1..Len(locks) : l # r.lock => locks'[l] = locks[l]
        /\ locks'[r.lock].accessRecord = new
        /\ locks'[r.lock].alreadyInvalid = locks[r.lock].alreadyInvalid
    BY <2>1, <2>2, LockChanges
  <2> QED BY <2>3 DEF new
<1>9. OneRecord'
  <2>1. ASSUME NEW x \in 1..Len(records') PROVE cache'[records'[x].message] = x
    <3>1. CASE x = R + 1
      BY <1>1, <1>5, <1>6, <1>7, <3>1
    <3>2. CASE x \in 1..R
      <4>1. /\ records'[x] = records[x] /\ records[x].message \in Identifier
            /\ cache[records[x].message] = x /\ x # null
        BY <1>1, <1>6, <3>2 DEF OneRecord, R, Identifier, null
      <4> QED BY <1>3, <1>7, <4>1
    <3> QED BY <1>1, <1>6, <3>1, <3>2
  <2>2. ASSUME NEW j \in Identifier, cache'[j] # null PROVE records'[cache'[j]].message = j
    <3>1. CASE j = i
      BY <1>5, <1>6, <1>7, <3>1
    <3>2. CASE j # i
      <4>1. cache'[j] = cache[j] /\ cache[j] \in 1..R /\ records[cache[j]].message = j
        BY <1>1, <1>7, <2>2, <3>2 DEF OneRecord
      <4> QED BY <1>6, <4>1
    <3> QED BY <3>1, <3>2
  <2>3. ASSUME NEW m \in Cached', RefOf[m] # NoRef
        PROVE  RefOf[m] \in Cached' /\ records'[cache'[m]].ref = cache'[RefOf[m]]
    <3>1. /\ m \in Message /\ m \in Identifier /\ cache'[m] # null
          /\ RefOf[m] \in Message /\ RefOf[m] \in Identifier
      BY <2>3, CacheAssumption DEF Cached, Identifier
    <3>2. CASE m = i
      <4>1. r.rec # null /\ cache[RefOf[i]] = r.rec /\ RefOf[i] # i
        BY <1>3, <2>3, <3>2
      <4> QED BY <1>1, <1>5, <1>6, <1>7, <3>1, <3>2, <4>1 DEF Cached
    <3>3. CASE m # i
      <4>1. m \in Cached /\ cache'[m] = cache[m] /\ cache[m] \in 1..R
        BY <1>7, <3>1, <3>3 DEF Cached
      <4>2. /\ RefOf[m] \in Cached /\ cache[RefOf[m]] # null
            /\ records[cache[m]].ref = cache[RefOf[m]]
        BY <1>1, <2>3, <4>1 DEF OneRecord, ChainComplete, Cached
      <4>3. cache'[RefOf[m]] = cache[RefOf[m]]
        BY <1>3, <1>7, <3>1, <4>2
      <4> QED BY <1>6, <3>1, <4>1, <4>2, <4>3 DEF Cached
    <3> QED BY <3>2, <3>3
  <2> QED BY <2>1, <2>2, <2>3 DEF OneRecord, ChainComplete
<1>10. LocksShow(name2)'
  <2>1. ASSUME NEW l \in 1..Len(locks')
        PROVE  /\ locks'[l].accessRecord # null => locks'[l].accessRecord = cache'[name2[l]]
               /\ locks'[l].alreadyInvalid => locks'[l].accessRecord # null
    <3>1. l \in 1..Len(locks) /\ name2[l] = name[l]
      BY <1>8 DEF Grows
    <3>2. CASE l = r.lock
      BY <1>1, <1>7, <1>8, <3>1, <3>2
    <3>3. CASE l # r.lock
      <4>1. name[l] \in Identifier
        <5>1. name \in Seq(Identifier) /\ Len(name) = Len(locks)
          BY <1>1 DEF NamesOK
        <5> QED BY <3>1, <5>1, ElementOfSeq
      <4>2. /\ locks'[l] = locks[l]
            /\ locks[l].accessRecord # null => locks[l].accessRecord = cache[name[l]]
            /\ locks[l].alreadyInvalid => locks[l].accessRecord # null
        BY <1>1, <1>8, <3>1, <3>3 DEF LocksShow
      <4> QED BY <1>3, <1>7, <3>1, <4>1, <4>2
    <3> QED BY <3>2, <3>3
  <2> QED BY <2>1 DEF LocksShow
<1>11. Owner(q, cache', slotLocks', locks')
  BY <1>1, <1>2, <1>3, <1>4, <1>7, <1>8 DEF Owner, Recycling
<1>12. Claims(q) \subseteq Claims(r) /\ i \in Claims(r)
  BY <1>1, <1>4 DEF Claims, Owning
<1>13. Frames(q, cache', slotLocks')
  <2>1. \A k \in 1..Len(r.outer) : r.outer[k].id \in Identifier
    BY <1>1, ClaimsLocked DEF Identifier
  <2> QED BY <1>1, <1>2, <1>4, <1>7, <2>1 DEF Frames, Owning
<1>14. /\ \A j \in Identifier \ {i} : slotLocks'[j] = slotLocks[j] /\ cache'[j] = cache[j]
       /\ \A j \in Identifier : cache[j] # null => cache'[j] = cache[j]
  BY <1>2, <1>3, <1>7
<1>15. \A l \in 1..Len(locks) :
         /\ locks[l].accessRecord # null => locks'[l].accessRecord # null
         /\ locks[l].alreadyInvalid => locks'[l].alreadyInvalid
  BY <1>7, <1>8
<1> QED BY <1>1, <1>2, <1>9, <1>10, <1>11, <1>12, <1>13, <1>14, <1>15, OwnedTogether

LEMMA RetryKeepsOwned ==
  ASSUME NEW name, OwnedWith(name), NEW name2, TypedWith(name2)',
         Grows(locks, locks', name, name2), NEW t \in Process,
         th[t].pc \in {"waitEnter", "waitAwait"}, Retry(t),
         UNCHANGED <<cache, slotLocks, locks>>, RecordsKept
  PROVE  OwnedInv'
<1> DEFINE r == th[t]
<1>1. r \in States(Len(locks), Len(records), serial)
  BY OwnedFacts
<1>2. CASE Become(t, Idle)
  BY <1>2, OwnedIdle
<1>3. CASE \E q : /\ Become(t, q) /\ q.pc \in {"addSlot", "getSlot"}
                  /\ q.id = r.id /\ q.outer = r.outer
  <2>1. PICK q : /\ Become(t, q) /\ q.pc \in {"addSlot", "getSlot"}
                 /\ q.id = r.id /\ q.outer = r.outer
    BY <1>3
  <2>2. Owner(q, cache, slotLocks, locks) /\ q.pc \notin Owning
    BY <2>1 DEF Owner, Owning, Recycling, HasRecord, HasShown
  <2> QED BY <2>1, <2>2, OwnedGoto
<1>4. /\ [r EXCEPT !.pc = "addSlot"].pc = "addSlot"
      /\ [r EXCEPT !.pc = "addSlot"].id = r.id
      /\ [r EXCEPT !.pc = "addSlot"].outer = r.outer
      /\ [r EXCEPT !.pc = "getSlot", !.tries = r.tries + 1].pc = "getSlot"
      /\ [r EXCEPT !.pc = "getSlot", !.tries = r.tries + 1].id = r.id
      /\ [r EXCEPT !.pc = "getSlot", !.tries = r.tries + 1].outer = r.outer
  BY <1>1 DEF States
<1> QED BY <1>2, <1>3, <1>4 DEF Retry

LEMMA WaitKeepsOwned ==
  ASSUME NEW name, OwnedWith(name), NEW name2, TypedWith(name2)',
         Grows(locks, locks', name, name2), NEW t \in Process,
         Unslot(t) \/ WaitEnter(t) \/ WaitAwait(t) \/ Woken(t) \/ WaitInc(t) \/ WaitUnlist(t)
  PROVE  OwnedInv'
<1> DEFINE r == th[t]
           l == locks[r.lock]
<1>1. /\ HeapOK /\ r \in States(Len(locks), Len(records), serial) /\ Shape(r)
      /\ Owner(r, cache, slotLocks, locks) /\ Frames(r, cache, slotLocks)
      /\ r.rec \in {null} \cup 1..Len(records) /\ LocksShow(name)
  BY OwnedFacts DEF States
<1>2. r.pc \in Waiting => /\ r.lock \in 1..Len(locks) /\ name[r.lock] = r.id
                          /\ l.accessRecord # null => l.accessRecord = cache[r.id]
                          /\ l.alreadyInvalid => l.accessRecord # null
  BY <1>1, PCFacts, OwnedFacts DEF Named, LocksShow
<1>3. {r.outer[k].id : k \in 1..Len(r.outer)} \subseteq Claims(r)
      /\ (r.pc # "idle" => r.id \in Identifier)
  BY <1>1 DEF Claims, Shape
<1>4. CASE Unslot(t)
  <2>1. /\ r.pc = "unslot" /\ r.pc \in Owning /\ FreeSlot(r.id)
        /\ UNCHANGED <<cache, records, locks>>
    BY <1>4 DEF Unslot, At, Owning
  <2>2. PICK x : Deliver(t, x) /\ (r.outer # <<>> => x = r.rec)
    BY <1>4 DEF Unslot
  <2>3. PICK q : /\ Become(t, q) /\ Owner(q, cache, slotLocks, locks)
                 /\ Frames(q, cache, slotLocks)
                 /\ Claims(q) \subseteq {r.outer[k].id : k \in 1..Len(r.outer)}
    BY <2>1, <2>2, DeliverOwns
  <2>4. \A k \in 1..Len(r.outer) : r.outer[k].id # r.id
    BY <1>1, <2>1 DEF Frames
  <2>5. Claims(q) \subseteq Claims(r) /\ r.id \notin Claims(q)
    BY <1>3, <2>3, <2>4
  <2> QED BY <2>1, <2>3, <2>5, RecordsSame, OwnedFree
<1>5. CASE WaitEnter(t)
  <2>1. /\ r.pc = "waitEnter" /\ UNCHANGED <<cache, slotLocks, records, locks>>
        /\ RecordsKept
    BY <1>5, RecordsSame DEF WaitEnter, At
  <2>2. CASE Retry(t)
    BY <2>1, <2>2, RetryKeepsOwned
  <2>3. CASE l.accessRecord # null
             /\ Become(t, [r EXCEPT !.pc = "waitInc", !.rec = l.accessRecord])
    <3> DEFINE q == [r EXCEPT !.pc = "waitInc", !.rec = l.accessRecord]
    <3>1. q.pc = "waitInc" /\ q.id = r.id /\ q.outer = r.outer /\ q.rec = l.accessRecord
      BY <1>1 DEF States
    <3> HIDE DEF q
    <3>2. Owner(q, cache, slotLocks, locks) /\ q.pc \notin Owning
      BY <1>2, <2>1, <2>3, <3>1 DEF Owner, Owning, Recycling, HasRecord, HasShown, Waiting
    <3> QED BY <2>1, <2>3, <3>1, <3>2, OwnedGoto DEF q
  <2>4. CASE Goto(t, "waitAwait")
    BY <2>1, <2>4, OwnedOn
  <2> QED BY <1>5, <2>2, <2>3, <2>4 DEF WaitEnter
<1>6. CASE WaitAwait(t)
  <2>1. /\ r.pc = "waitAwait" /\ UNCHANGED <<cache, slotLocks, records, locks>>
        /\ RecordsKept
    BY <1>6, RecordsSame DEF WaitAwait, At
  <2>2. Retry(t) \/ Goto(t, "await")
    BY <1>6 DEF WaitAwait
  <2> QED BY <2>1, <2>2, RetryKeepsOwned, OwnedOn
<1>7. CASE Woken(t)
  <2>1. /\ r.pc = "woken" /\ UNCHANGED <<cache, slotLocks, records, locks>>
        /\ RecordsKept
    BY <1>7, RecordsSame DEF Woken, At
  <2>2. l.accessRecord # null /\ l.accessRecord = cache[r.id]
    BY <1>1, <1>2, <2>1 DEF Owner, Waiting
  <2>3. PICK q : /\ Become(t, q) /\ q.id = r.id /\ q.outer = r.outer
                 /\ q.pc = "addSlot" \/ (q.pc = "waitInc" /\ q.rec = l.accessRecord)
    <3>1. /\ [r EXCEPT !.pc = "waitInc", !.rec = l.accessRecord].id = r.id
          /\ [r EXCEPT !.pc = "waitInc", !.rec = l.accessRecord].outer = r.outer
          /\ [r EXCEPT !.pc = "waitInc", !.rec = l.accessRecord].pc = "waitInc"
          /\ [r EXCEPT !.pc = "waitInc", !.rec = l.accessRecord].rec = l.accessRecord
          /\ [r EXCEPT !.pc = "addSlot"].id = r.id
          /\ [r EXCEPT !.pc = "addSlot"].outer = r.outer
          /\ [r EXCEPT !.pc = "addSlot"].pc = "addSlot"
      BY <1>1 DEF States
    <3> QED BY <1>7, <3>1 DEF Woken
  <2>4. Owner(q, cache, slotLocks, locks) /\ q.pc \notin Owning
    BY <2>2, <2>3 DEF Owner, Owning, Recycling, HasRecord, HasShown
  <2> QED BY <2>1, <2>3, <2>4, OwnedGoto
<1>8. ASSUME NEW x, Deliver(t, x), x = r.rec, r.pc \in {"waitInc", "waitUnlist"},
             UNCHANGED <<cache, slotLocks, locks>>, RecordsKept
      PROVE  OwnedInv'
  <2>1. PICK q : /\ Become(t, q) /\ Owner(q, cache, slotLocks, locks)
                 /\ Frames(q, cache, slotLocks)
                 /\ Claims(q) \subseteq {r.outer[k].id : k \in 1..Len(r.outer)}
    BY <1>8, DeliverOwns
  <2>2. Claims(q) \subseteq Claims(r) /\ r.id \in Identifier
    BY <1>3, <1>8, <2>1
  <2> QED BY <1>8, <2>1, <2>2, OwnedOnly
<1>9. CASE WaitInc(t)
  <2>1. /\ r.pc = "waitInc" /\ UNCHANGED <<cache, slotLocks, locks>>
    BY <1>9 DEF WaitInc, At
  <2>2. RecordsKept
    BY <1>1, <1>9, CountKept DEF WaitInc
  <2>3. Goto(t, "waitUnlist") \/ Deliver(t, r.rec)
    BY <1>9 DEF WaitInc
  <2> QED BY <1>8, <2>1, <2>2, <2>3, OwnedOn
<1>10. CASE WaitUnlist(t)
  BY <1>8, <1>10, RecordsSame DEF WaitUnlist, At
<1> QED BY <1>4, <1>5, <1>6, <1>7, <1>9, <1>10

LEMMA InvalidateKeepsOwned ==
  ASSUME NEW name, OwnedWith(name), NEW name2, TypedWith(name2)',
         Grows(locks, locks', name, name2), NEW t \in Process, Invalidate(t)
  PROVE  OwnedInv'
<1> DEFINE r == th[t]
<1>1. /\ HeapOK /\ OneRecord /\ LocksShow(name) /\ Len(records) \in Nat /\ Len(locks) \in Nat
      /\ r \in States(Len(locks), Len(records), serial) /\ Shape(r)
      /\ Owner(r, cache, slotLocks, locks)
  BY OwnedFacts
<1>2. PICK step \in Invalidating :
        /\ r.pc = step[1] /\ MakeInvalid(r.lock)
        /\ th' = [u \in Process |-> AfterInvalidate(t, step, u)]
        /\ UNCHANGED <<cache, slotLocks, records>>
  BY DEF Invalidate, At, MakeInvalid, AfterInvalidate, Invalidating
<1>3. /\ step[1] \in {"invalidate", "relInvalidate"}
      /\ step[1] = "invalidate" => step[2] = "unslot"
      /\ step[1] = "relInvalidate" => step[2] = "relUnslot"
  BY <1>1, <1>2 DEF Invalidating, Owner, Recycling
<1>4. r.lock \in 1..Len(locks) /\ r.pc \in Owning /\ locks[r.lock].accessRecord # null
  BY <1>1, <1>2, <1>3, PCFacts DEF Owning, Owner, HasShown
<1>5. /\ Len(locks') = Len(locks)
      /\ \A l \in 1..Len(locks) : l # r.lock => locks'[l] = locks[l]
      /\ locks'[r.lock].accessRecord = locks[r.lock].accessRecord
      /\ locks'[r.lock].alreadyInvalid = TRUE
  <2>1. locks \in Seq(LockType(Len(records))) /\ null \in {null} \cup 1..Len(records)
    BY <1>1 DEF HeapOK
  <2> QED BY <1>1, <1>2, <1>4, <2>1, LockChanges
<1>6. \A l \in 1..Len(locks) :
        /\ locks[l].accessRecord # null => locks'[l].accessRecord # null
        /\ locks[l].alreadyInvalid => locks'[l].alreadyInvalid
  BY <1>5
<1>7. LocksShow(name2)'
  BY <1>1, <1>2, <1>4, <1>5 DEF LocksShow, Grows
<1>8. OneRecord'
  BY <1>1, <1>2, RecordsSame, OneRecordSame
<1>9. ASSUME NEW u \in Process
      PROVE  /\ Owner(AfterInvalidate(t, step, u), cache', slotLocks', locks')
             /\ Frames(AfterInvalidate(t, step, u), cache', slotLocks')
             /\ Claims(AfterInvalidate(t, step, u)) \subseteq Claims(th[u])
  <2>1. /\ th[u] \in States(Len(locks), Len(records), serial) /\ Shape(th[u])
        /\ Owner(th[u], cache, slotLocks, locks) /\ Frames(th[u], cache, slotLocks)
    BY OwnedFacts
  <2>2. Owner(th[u], cache', slotLocks', locks') /\ Frames(th[u], cache', slotLocks')
    BY <1>1, <1>2, <1>6, <2>1, OwnerKept
  <2>3. ASSUME NEW q, q = AfterInvalidate(t, step, u), q.id = th[u].id,
               q.outer = th[u].outer, q.pc \in Owning => th[u].pc \in Owning,
               Owner(q, cache', slotLocks', locks')
        PROVE  /\ Owner(AfterInvalidate(t, step, u), cache', slotLocks', locks')
               /\ Frames(AfterInvalidate(t, step, u), cache', slotLocks')
               /\ Claims(AfterInvalidate(t, step, u)) \subseteq Claims(th[u])
    BY <2>2, <2>3, StaysWith
  <2>4. CASE u = t
    <3> DEFINE q == [r EXCEPT !.pc = step[2]]
    <3>1. q = AfterInvalidate(t, step, u)
      BY <2>4 DEF AfterInvalidate
    <3>2. /\ q.pc = step[2] /\ q.id = r.id /\ q.outer = r.outer /\ q.lock = r.lock
          /\ q.rec = r.rec
      BY <1>1 DEF States
    <3> HIDE DEF q
    <3>3. Owner(q, cache', slotLocks', locks')
      BY <1>2, <1>3, <2>2, <2>4, <3>2 DEF Owner, Owning, Recycling, HasRecord, HasShown
    <3> QED BY <1>4, <2>3, <2>4, <3>1, <3>2, <3>3
  <2>5. CASE u # t /\ u \in Signalled(th[t].lock)
    <3> DEFINE q == [th[u] EXCEPT !.pc = "woken"]
    <3>1. q = AfterInvalidate(t, step, u) /\ th[u].lock = r.lock
      BY <2>5 DEF AfterInvalidate, Signalled
    <3>2. /\ q.pc = "woken" /\ q.id = th[u].id /\ q.outer = th[u].outer
          /\ q.lock = th[u].lock
      BY <2>1 DEF States
    <3> HIDE DEF q
    <3>3. Owner(q, cache', slotLocks', locks') /\ q.pc \notin Owning
      BY <1>5, <3>1, <3>2 DEF Owner, Owning, Recycling, HasRecord, HasShown
    <3> QED BY <2>3, <3>1, <3>2, <3>3
  <2>6. CASE u # t /\ u \notin Signalled(th[t].lock)
    BY <2>2, <2>6 DEF AfterInvalidate
  <2> QED BY <2>4, <2>5, <2>6
<1>10. \A u \in Process : th'[u] = AfterInvalidate(t, step, u)
  BY <1>2
<1>11. \A u, v \in Process : u # v => Claims(th'[u]) \cap Claims(th'[v]) = {}
  <2> SUFFICES ASSUME NEW u \in Process, NEW v \in Process, u # v
               PROVE  Claims(th'[u]) \cap Claims(th'[v]) = {}
    OBVIOUS
  <2>1. Claims(th[u]) \cap Claims(th[v]) = {}
    BY DEF OwnedWith
  <2>2. Claims(th'[u]) \subseteq Claims(th[u]) /\ Claims(th'[v]) \subseteq Claims(th[v])
    BY <1>9, <1>10
  <2> QED BY <2>1, <2>2
<1>12. \A u \in Process : Owner(th'[u], cache', slotLocks', locks')
                           /\ Frames(th'[u], cache', slotLocks')
  BY <1>9, <1>10
<1> QED BY <1>7, <1>8, <1>11, <1>12 DEF OwnedInv, OwnedWith

LEMMA ReleaseKeepsOwned ==
  ASSUME NEW name, OwnedWith(name), NEW name2, TypedWith(name2)',
         Grows(locks, locks', name, name2), NEW t \in Process, NothingRecycled',
         RelRead(t) \/ RelSlot(t) \/ RelShare(t) \/ RelDec(t) \/ RelList(t) \/ RelUnslot(t)
  PROVE  OwnedInv'
<1> DEFINE r == th[t]
<1>1. /\ HeapOK /\ r \in States(Len(locks), Len(records), serial) /\ Shape(r)
      /\ Owner(r, cache, slotLocks, locks) /\ Frames(r, cache, slotLocks)
      /\ r.rec \in {null} \cup 1..Len(records)
  BY OwnedFacts DEF States
<1>2. CASE RelRead(t)
  <2> DEFINE x == cache[r.id]
             q == [r EXCEPT !.pc = IF x = null THEN "failed" ELSE "relSlot", !.rec = x]
  <2>1. Become(t, q) /\ UNCHANGED <<cache, slotLocks, records, locks>> /\ r.pc = "relRead"
    BY <1>2 DEF RelRead, At
  <2>2. /\ q.pc = IF x = null THEN "failed" ELSE "relSlot"
        /\ q.id = r.id /\ q.outer = r.outer /\ q.rec = x
    BY <1>1 DEF States
  <2> HIDE DEF q
  <2>3. Owner(q, cache, slotLocks, locks) /\ q.pc \notin Owning
    BY <2>2 DEF Owner, Owning, Recycling, HasRecord, HasShown
  <2> QED BY <2>1, <2>2, <2>3, RecordsSame, OwnedGoto
<1>3. CASE RelSlot(t)
  <2>1. /\ r.pc = "relSlot" /\ UNCHANGED <<cache, records>>
        /\ TakeSlot(t, "Recycling", r.rec, "relDec", "relShare")
    BY <1>3 DEF RelSlot, At
  <2>2. r.pc \notin Owning /\ r.rec # null /\ r.rec = cache[r.id]
    BY <1>1, <2>1 DEF Owner, HasRecord, Owning
  <2> QED BY <2>1, <2>2, OwnedTake
<1>4. CASE RelShare(t)
  <2>1. RecordsKept
    BY <1>1, <1>4, CountKept DEF RelShare
  <2> QED BY <1>4, <2>1, OwnedIdle DEF RelShare, At
<1>5. CASE RelDec(t)
  <2>1. RecordsKept
    BY <1>1, <1>5, CountKept DEF RelDec
  <2> QED BY <1>5, <2>1, OwnedOn DEF RelDec, At
<1>6. CASE RelList(t)
  <2> DEFINE over == Cardinality(DOMAIN LRUList') > SizeLimit
             q == [r EXCEPT !.pc = "relInvalidate", !.exceeded = over]
  <2>1. Become(t, q) /\ UNCHANGED <<cache, slotLocks, records, locks>> /\ r.pc = "relList"
    BY <1>6 DEF RelList, At
  <2>2. /\ q.pc = "relInvalidate" /\ q.id = r.id /\ q.outer = r.outer /\ q.lock = r.lock
    BY <1>1 DEF States
  <2> HIDE DEF q
  <2>3. Owner(q, cache, slotLocks, locks) /\ r.pc \in Owning
    BY <1>1, <2>1, <2>2 DEF Owner, Owning, Recycling, HasRecord, HasShown
  <2> QED BY <2>1, <2>2, <2>3, RecordsSame, OwnedGoto
<1>7. CASE RelUnslot(t) /\ ~r.exceeded
  <2>1. /\ Become(t, Idle) /\ UNCHANGED <<cache, records, locks>> /\ FreeSlot(r.id)
        /\ r.pc \in Owning
    BY <1>7 DEF RelUnslot, At, Owning
  <2> QED BY <2>1, IdleOwns, RecordsSame, OwnedFree
<1>8. CASE RelUnslot(t) /\ r.exceeded
  <2>1. th' = [th EXCEPT ![t] = [r EXCEPT !.pc = "recCopy"]] /\ t \in DOMAIN th
    BY <1>8, OwnedFacts DEF RelUnslot, Become, TypedWith, ThreadsOK
  <2>2. th'[t].pc = "recCopy"
    BY <1>1, <2>1 DEF States
  <2> QED BY <2>2 DEF NothingRecycled, At
<1> QED BY <1>2, <1>3, <1>4, <1>5, <1>6, <1>7, <1>8

LEMMA StartKeepsOwned ==
  ASSUME NEW name, OwnedWith(name), NEW name2, TypedWith(name2)',
         Grows(locks, locks', name, name2), NEW t \in Process, NEW op, NEW target,
         NEW i \in Identifier, NEW pc \in {"getSlot", "addSlot", "relRead"},
         Start(t, op, target, i, pc)
  PROVE  OwnedInv'
<1> DEFINE q == [Idle EXCEPT !.pc = pc, !.op = op, !.target = target, !.id = i]
<1>1. Become(t, q) /\ UNCHANGED <<cache, slotLocks, records, locks>>
  BY DEF Start
<1>2. q.pc = pc /\ q.outer = <<>> /\ Len(q.outer) = 0
  BY EmptySeq DEF Idle
<1> HIDE DEF q
<1>3. /\ Owner(q, cache, slotLocks, locks) /\ Frames(q, cache, slotLocks)
      /\ Claims(q) \subseteq Claims(th[t])
  BY <1>2 DEF Owner, Frames, Claims, Owning, Recycling, HasRecord, HasShown
<1> QED BY <1>1, <1>3, RecordsSame, OwnedOnly

LEMMA InitOwned == ASSUME Init PROVE OwnedInv
<1>1. PICK n \in 0..Len(Rows) :
        /\ records = WarmRecords(n)
        /\ cache = [i \in Identifier |->
                      IF \E k \in 1..n : Rows[k] = i
                      THEN CHOOSE k \in 1..n : Rows[k] = i ELSE null]
  BY DEF Init
<1>2. locks = <<>> /\ th = [t \in Process |-> Idle] /\ Len(<<>>) = 0
  BY EmptySeq DEF Init
<1>3. /\ n \in Nat /\ Len(records) = n
      /\ \A k \in 1..n : Rows[k] \in Message /\ Rows[k] \in Identifier
      /\ \A k \in 1..n : RefOf[Rows[k]] # NoRef => \E j \in 1..n : Rows[j] = RefOf[Rows[k]]
      /\ \A j, k \in 1..n : Rows[j] = Rows[k] => j = k
  BY <1>1, WarmFacts DEF Identifier
<1>4. \A k \in 1..n :
        /\ records[k].message = Rows[k]
        /\ records[k].ref = IF RefOf[Rows[k]] = NoRef THEN null
                            ELSE CHOOSE j \in 1..n : Rows[j] = RefOf[Rows[k]]
  BY <1>1 DEF WarmRecords
<1>5. ASSUME NEW k \in 1..n PROVE cache[Rows[k]] = k
  <2>1. /\ cache[Rows[k]] = CHOOSE j \in 1..n : Rows[j] = Rows[k]
        /\ \E j \in 1..n : Rows[j] = Rows[k]
    BY <1>1, <1>3
  <2>2. (CHOOSE j \in 1..n : Rows[j] = Rows[k]) \in 1..n
        /\ Rows[CHOOSE j \in 1..n : Rows[j] = Rows[k]] = Rows[k]
    BY <2>1
  <2> QED BY <1>3, <2>1, <2>2
<1>6. ASSUME NEW i \in Identifier, cache[i] # null PROVE \E k \in 1..n : Rows[k] = i
  BY <1>1, <1>6
<1>7. ChainComplete
  <2>1. ASSUME NEW m \in Cached, RefOf[m] # NoRef
        PROVE  RefOf[m] \in Cached /\ records[cache[m]].ref = cache[RefOf[m]]
    <3>1. m \in Identifier /\ cache[m] # null
      BY DEF Cached, Identifier
    <3>2. PICK k \in 1..n : Rows[k] = m
      BY <1>6, <3>1
    <3>3. PICK j \in 1..n : Rows[j] = RefOf[m]
      BY <1>3, <2>1, <3>2
    <3>4. records[k].ref = CHOOSE x \in 1..n : Rows[x] = RefOf[m]
      BY <1>4, <2>1, <3>2
    <3>5. (CHOOSE x \in 1..n : Rows[x] = RefOf[m]) = j
      BY <1>3, <3>3
    <3>6. cache[m] = k /\ cache[RefOf[m]] = j
      BY <1>5, <3>2, <3>3
    <3>7. RefOf[m] \in Message /\ j # null
      BY <1>3, <3>3 DEF null
    <3> QED BY <3>4, <3>5, <3>6, <3>7 DEF Cached
  <2> QED BY <2>1 DEF ChainComplete
<1>8. OneRecord
  <2>1. ASSUME NEW i \in Identifier, cache[i] # null PROVE records[cache[i]].message = i
    <3>1. PICK k \in 1..n : Rows[k] = i
      BY <1>6, <2>1
    <3> QED BY <1>4, <1>5, <3>1
  <2> QED BY <1>3, <1>4, <1>5, <1>7, <2>1 DEF OneRecord
<1>9. LocksShow(<<>>)
  BY <1>2 DEF LocksShow
<1>10. \A t \in Process : /\ Owner(th[t], cache, slotLocks, locks)
                          /\ Frames(th[t], cache, slotLocks) /\ Claims(th[t]) = {}
  BY <1>2, IdleOwns
<1> QED BY <1>8, <1>9, <1>10, InitTypes DEF OwnedInv, OwnedWith

LEMMA StepKeepsOwned ==
  ASSUME OwnedInv, [Next]_vars, NothingRecycled'
  PROVE  OwnedInv'
<1>1. PICK name : OwnedWith(name)
  BY DEF OwnedInv
<1>2. PICK name2 : TypedWith(name2)' /\ Grows(locks, locks', name, name2)
  BY <1>1, StepKeepsTypes DEF OwnedWith, StepOK
<1>3. CASE UNCHANGED vars
  <2>1. UNCHANGED <<cache, slotLocks, locks, records, th>>
    BY <1>3 DEF vars
  <2>2. OneRecord' /\ LocksShow(name2)'
    BY <1>1, <1>2, <2>1, OneRecordSame, RecordsSame, LocksShowSame DEF OwnedWith, TypedWith
  <2> QED BY <1>1, <1>2, <2>1, <2>2 DEF OwnedInv, OwnedWith
<1>4. ASSUME NEW t \in Process, Step(t) PROVE OwnedInv'
  <2>1. th[t].pc \notin Recycling
    BY <1>1, OwnedFacts DEF Owner
  <2>2. ~(RecCopy(t) \/ RecSlot(t) \/ RecUnlist(t) \/ RecDrop(t) \/ RecUnslot(t))
    BY <2>1 DEF RecCopy, RecSlot, RecUnlist, RecDrop, RecUnslot, At, Recycling
  <2> QED BY <1>1, <1>2, <1>4, <2>2, GetKeepsOwned, AddKeepsOwned, AddReadKeepsOwned,
             AddPutKeepsOwned, InvalidateKeepsOwned, WaitKeepsOwned, ReleaseKeepsOwned
          DEF Step
<1>5. ASSUME NEW t \in Process, NEW op, NEW target, NEW i \in Identifier,
             NEW pc \in {"getSlot", "addSlot", "relRead"}, Start(t, op, target, i, pc)
      PROVE  OwnedInv'
  BY <1>1, <1>2, <1>5, StartKeepsOwned
<1>6. ASSUME NEW t \in Thread, NEW i \in Identifier, Query(t, i) PROVE OwnedInv'
  BY <1>5, <1>6 DEF Query, Process
<1>7. ASSUME NEW t \in Thread, NEW m \in Message, Save(t, m) PROVE OwnedInv'
  <2>1. t \in Process /\ m \in Identifier /\ (RefOf[m] # NoRef => RefOf[m] \in Identifier)
    BY CacheAssumption DEF Process, Identifier
  <2>2. \/ Start(t, "save", m, m, "addSlot")
        \/ RefOf[m] # NoRef /\ Start(t, "save", m, RefOf[m], "getSlot")
    BY <1>7 DEF Save
  <2> QED BY <1>5, <2>1, <2>2
<1>8. ASSUME NEW m \in Message, Flush(m) PROVE OwnedInv'
  BY <1>5, <1>8 DEF Flush, Process, Identifier
<1> QED BY <1>3, <1>4, <1>6, <1>7, <1>8 DEF Next

LEMMA OwnedAlways == Spec /\ []NothingRecycled => []OwnedInv
<1>1. Init => OwnedInv
  BY InitOwned
<1>2. OwnedInv /\ [Next]_vars /\ NothingRecycled' => OwnedInv'
  BY StepKeepsOwned
<1> QED BY <1>1, <1>2, PTL DEF Spec
---------------------------------------------------------------------------
(* Nothing is recycled while LRUList is within its limit.                   *)

WithinLimit == Cardinality(DOMAIN LRUList) <= SizeLimit

Unexceeded(r) == r.exceeded = FALSE /\ r.pc # "recCopy"

LEMMA StepStaysUnexceeded ==
  ASSUME NEW name, TypedWith(name), NEW t \in Process, Step(t), WithinLimit',
         \A u \in Process : Unexceeded(th[u])
  PROVE  \A u \in Process : Unexceeded(th'[u])
<1> DEFINE r == th[t]
<1>1. /\ DOMAIN th = Process /\ Unexceeded(r)
      /\ \A u \in Process : th[u] \in States(Len(locks), Len(records), serial)
  BY ThreadFacts DEF TypedWith, ThreadsOK
<1>2. Unexceeded(Idle)
  BY DEF Unexceeded, Idle
<1>3. ASSUME NEW q, Become(t, q), Unexceeded(q) PROVE \A u \in Process : Unexceeded(th'[u])
  BY <1>1, <1>3 DEF Become
<1>4. ASSUME NEW pc, Goto(t, pc), pc # "recCopy" PROVE \A u \in Process : Unexceeded(th'[u])
  <2>1. Unexceeded([r EXCEPT !.pc = pc])
    BY <1>1, <1>4 DEF States, Unexceeded
  <2> QED BY <1>3, <1>4, <2>1 DEF Goto
<1>5. ASSUME NEW state, NEW x, NEW mine \in {"getRead", "loadRow", "addRead", "relDec"},
             NEW theirs \in {"waitEnter", "relShare"}, TakeSlot(t, state, x, mine, theirs)
      PROVE  \A u \in Process : Unexceeded(th'[u])
  <2>1. /\ Unexceeded([r EXCEPT !.pc = mine, !.lock = Len(locks')])
        /\ Unexceeded([r EXCEPT !.pc = theirs, !.lock = slotLocks[r.id]])
    BY <1>1 DEF States, Unexceeded
  <2> QED BY <1>3, <1>5, <2>1 DEF TakeSlot
<1>6. CASE GetSlot(t) \/ LoadSlot(t) \/ AddSlot(t) \/ RelSlot(t)
  BY <1>5, <1>6 DEF GetSlot, LoadSlot, AddSlot, RelSlot
<1>7. CASE \/ GetInc(t) \/ GetUnlist(t) \/ GetSerial(t) \/ AddInc(t) \/ AddUnlist(t)
           \/ RelDec(t) \/ RecUnlist(t) \/ RecDrop(t)
  BY <1>4, <1>7 DEF GetInc, GetUnlist, GetSerial, AddInc, AddUnlist, RelDec, RecUnlist, RecDrop
<1>8. CASE GetRead(t)
  <2>1. Unexceeded([r EXCEPT !.pc = "getInc", !.rec = cache[r.id], !.serial = serial'])
    BY <1>1 DEF States, Unexceeded
  <2> QED BY <1>3, <1>4, <1>8, <2>1 DEF GetRead
<1>9. CASE LoadRow(t)
  <2>1. Unexceeded([r EXCEPT !.pc = "addRead", !.loaded = TRUE])
    BY <1>1 DEF States, Unexceeded
  <2> QED BY <1>2, <1>3, <1>9, <2>1 DEF LoadRow
<1>10. CASE AddRead(t)
  <2>1. /\ Unexceeded([r EXCEPT !.pc = "addInc", !.rec = Found(t),
                                !.stray = r.loaded /\ r.outer = <<>>])
        /\ Unexceeded([r EXCEPT !.pc = "addSlot", !.id = RefOf[r.id],
                  !.outer = Append(r.outer, [id |-> r.id, lock |-> r.lock])])
        /\ Unexceeded([r EXCEPT !.pc = "addPut", !.rec = null])
    BY <1>1 DEF States, Unexceeded
  <2> QED BY <1>3, <1>10, <2>1 DEF AddRead
<1>11. CASE AddPut(t)
  <2>1. Unexceeded([r EXCEPT !.pc = "invalidate", !.rec = Len(records) + 1])
    BY <1>1 DEF States, Unexceeded
  <2> QED BY <1>3, <1>11, <2>1 DEF AddPut
<1>12. CASE Invalidate(t)
  <2>1. PICK step \in Invalidating : th' = [u \in Process |-> AfterInvalidate(t, step, u)]
    BY <1>12 DEF Invalidate, AfterInvalidate, Invalidating
  <2>2. step[2] # "recCopy"
    BY DEF Invalidating
  <2> SUFFICES ASSUME NEW u \in Process PROVE Unexceeded(AfterInvalidate(t, step, u))
    BY <2>1
  <2>3. /\ Unexceeded(th[u]) /\ Unexceeded([th[u] EXCEPT !.pc = "woken"])
        /\ Unexceeded([th[u] EXCEPT !.pc = step[2]])
    BY <1>1, <2>2 DEF States, Unexceeded
  <2> QED BY <2>3 DEF AfterInvalidate
<1>13. ASSUME NEW x, Deliver(t, x) PROVE \A u \in Process : Unexceeded(th'[u])
  <2>1. /\ Unexceeded([r EXCEPT !.pc = "addPut", !.id = Last(r.outer).id,
                  !.lock = Last(r.outer).lock, !.outer = Front(r.outer), !.rec = x])
        /\ Unexceeded([r EXCEPT !.pc = "relRead", !.rec = x])
        /\ Unexceeded([r EXCEPT !.pc = "addSlot", !.id = r.target, !.loaded = FALSE])
    BY <1>1 DEF States, Unexceeded
  <2> QED BY <1>2, <1>3, <1>13, <2>1 DEF Deliver
<1>14. CASE Retry(t)
  <2>1. /\ Unexceeded([r EXCEPT !.pc = "addSlot"])
        /\ Unexceeded([r EXCEPT !.pc = "getSlot", !.tries = r.tries + 1])
    BY <1>1 DEF States, Unexceeded
  <2> QED BY <1>2, <1>3, <1>14, <2>1 DEF Retry
<1>15. CASE Unslot(t) \/ WaitInc(t) \/ WaitUnlist(t)
  BY <1>4, <1>13, <1>15 DEF Unslot, WaitInc, WaitUnlist
<1>16. CASE WaitEnter(t) \/ WaitAwait(t)
  <2>1. Unexceeded([r EXCEPT !.pc = "waitInc", !.rec = locks[r.lock].accessRecord])
    BY <1>1 DEF States, Unexceeded
  <2> QED BY <1>3, <1>4, <1>14, <1>16, <2>1 DEF WaitEnter, WaitAwait
<1>17. CASE Woken(t)
  <2>1. /\ Unexceeded([r EXCEPT !.pc = "waitInc", !.rec = locks[r.lock].accessRecord])
        /\ Unexceeded([r EXCEPT !.pc = "addSlot"])
    BY <1>1 DEF States, Unexceeded
  <2> QED BY <1>3, <1>17, <2>1 DEF Woken
<1>18. CASE RelRead(t)
  <2>1. Unexceeded([r EXCEPT !.pc = IF cache[r.id] = null THEN "failed" ELSE "relSlot",
                             !.rec = cache[r.id]])
    BY <1>1 DEF States, Unexceeded
  <2> QED BY <1>3, <1>18, <2>1 DEF RelRead
<1>19. CASE RelShare(t)
  BY <1>2, <1>3, <1>19 DEF RelShare
<1>20. CASE RelList(t)
  <2>1. (Cardinality(DOMAIN LRUList') > SizeLimit) = FALSE
    <3>1. Cardinality(DOMAIN LRUList') \in Nat
      <4>1. HeapOK'
        BY <1>20, StepKeepsTypes DEF Next, StepOK, TypedWith, Step
      <4>2. serial' \in Nat /\ DOMAIN LRUList' \subseteq 1..serial'
        BY <4>1 DEF HeapOK
      <4>3. IsFiniteSet(1..serial')
        BY <4>2, FS_Interval
      <4>4. IsFiniteSet(DOMAIN LRUList')
        BY <4>2, <4>3, FS_Subset
      <4> QED BY <4>4, FS_CardinalityType
    <3> QED BY <3>1, CacheAssumption DEF WithinLimit
  <2>2. Unexceeded([r EXCEPT !.pc = "relInvalidate", !.exceeded = FALSE])
    BY <1>1 DEF States, Unexceeded
  <2>3. Become(t, [r EXCEPT !.pc = "relInvalidate", !.exceeded = FALSE])
    BY <1>20, <2>1 DEF RelList
  <2> QED BY <1>3, <2>2, <2>3
<1>21. CASE RelUnslot(t)
  <2>1. Become(t, Idle)
    BY <1>1, <1>21 DEF RelUnslot, Unexceeded
  <2> QED BY <1>2, <1>3, <2>1
<1>22. CASE RecCopy(t)
  BY <1>1, <1>22 DEF RecCopy, At, Unexceeded
<1>23. ASSUME NEW todo PROVE Unexceeded(TryNext(t, todo))
  <2>1. Unexceeded([r EXCEPT !.pc = "recSlot", !.todo = todo])
    BY <1>1 DEF States, Unexceeded
  <2> QED BY <1>2, <2>1 DEF TryNext
<1>24. CASE RecSlot(t)
  <2>1. ASSUME NEW i, NEW n, NEW x
        PROVE  Unexceeded([r EXCEPT !.pc = IF x = null THEN "failed" ELSE "recUnlist",
                             !.id = i, !.serial = n, !.rec = x, !.lock = Len(locks')])
    BY <1>1 DEF States, Unexceeded
  <2> QED BY <1>3, <1>23, <1>24, <2>1 DEF RecSlot
<1>25. CASE RecUnslot(t)
  <2>1. Unexceeded([r EXCEPT !.pc = "relRead", !.id = RefOf[r.id], !.exceeded = FALSE])
    BY <1>1 DEF States, Unexceeded
  <2> QED BY <1>2, <1>3, <1>25, <2>1 DEF RecUnslot, Released
<1> QED BY <1>6, <1>7, <1>8, <1>9, <1>10, <1>11, <1>12, <1>15, <1>16, <1>17, <1>18, <1>19,
           <1>20, <1>21, <1>22, <1>24, <1>25 DEF Step

LEMMA NothingRecycledWithinLimit == Spec /\ []WithinLimit => []NothingRecycled
<1> DEFINE Inv == \A u \in Process : Unexceeded(th[u])
<1>1. Init => Inv
  BY DEF Init, Idle, Unexceeded
<1>2. ASSUME NEW t \in Process, NEW op, NEW target, NEW i, NEW pc, pc # "recCopy",
             Start(t, op, target, i, pc), TypeInv, Inv
      PROVE  Inv'
  <2>1. DOMAIN th = Process
    BY <1>2 DEF TypeInv, TypedWith, ThreadsOK
  <2>2. Unexceeded([Idle EXCEPT !.pc = pc, !.op = op, !.target = target, !.id = i])
    BY <1>2 DEF Unexceeded, Idle
  <2> QED BY <1>2, <2>1, <2>2 DEF Start, Become
<1>3. TypeInv /\ Inv /\ [Next]_vars /\ WithinLimit' => Inv'
  <2> SUFFICES ASSUME TypeInv, Inv, [Next]_vars, WithinLimit' PROVE Inv'
    OBVIOUS
  <2>1. CASE UNCHANGED vars
    BY <2>1 DEF vars
  <2>2. ASSUME NEW t \in Process, Step(t) PROVE Inv'
    BY <2>2, StepStaysUnexceeded DEF TypeInv
  <2>3. ASSUME NEW t \in Thread, NEW i \in Identifier, Query(t, i) PROVE Inv'
    BY <1>2, <2>3 DEF Query, Process
  <2>4. ASSUME NEW t \in Thread, NEW m \in Message, Save(t, m) PROVE Inv'
    BY <1>2, <2>4 DEF Save, Process
  <2>5. ASSUME NEW m \in Message, Flush(m) PROVE Inv'
    BY <1>2, <2>5 DEF Flush, Process
  <2> QED BY <2>1, <2>2, <2>3, <2>4, <2>5 DEF Next
<1>4. Inv => NothingRecycled
  BY DEF NothingRecycled, At, Unexceeded
<1> QED BY <1>1, <1>3, <1>4, TypesAlways, PTL DEF Spec

\* While LRUList is within its limit no message ever has two records, however
\* many threads miss it at the same time: only the owner of its slot puts it into
\* the cache, after a second look, and a thread that adds a message owns the slots
\* of all the messages that wait for it.
THEOREM OneObjectPerMessage == Spec /\ []WithinLimit => []OneRecordEach
<1>1. OwnedInv => OneRecordEach
  <2> SUFFICES ASSUME OwnedInv, NEW x \in DOMAIN records, NEW y \in DOMAIN records,
                      records[x].message = records[y].message
               PROVE  x = y
    BY DEF OneRecordEach
  <2>1. HeapOK /\ OneRecord
    BY DEF OwnedInv, OwnedWith, TypedWith
  <2>2. DOMAIN records = 1..Len(records)
    BY <2>1, LenProperties DEF HeapOK
  <2> QED BY <2>1, <2>2 DEF OneRecord
<1> QED BY <1>1, NothingRecycledWithinLimit, OwnedAlways, PTL

\* While LRUList is within its limit a cached message is a complete chain at every
\* moment, not only between calls: what it refers to is cached, and is the object
\* it points to, whichever thread added the one and whichever the other.
THEOREM ChainsAreComplete == Spec /\ []WithinLimit => []ChainComplete
<1>1. OwnedInv => ChainComplete
  BY DEF OwnedInv, OwnedWith, OneRecord
<1> QED BY <1>1, NothingRecycledWithinLimit, OwnedAlways, PTL
---------------------------------------------------------------------------
(* One call at a time, with recycling: the books of the cache.  The          *)
(* predicates take the state as arguments, the record of the thread first.   *)

\* No two calls overlap; all but t are in none.
OneCall == \A t, u \in Process : t # u => At(t, "idle") \/ At(u, "idle")
Alone(t) == \A u \in Process : u # t => At(u, "idle")

\* The message that a thread holds with a reference of its own: it has counted
\* it, and nothing that stays refers to the message yet, or any more.
Own(r) ==
  IF r.pc \in {"getUnlist", "getSerial", "addUnlist", "invalidate", "unslot", "relRead",
               "relSlot", "relDec"} THEN r.id
  ELSE IF r.pc \in {"addPut", "recInvalidate", "recUnslot"} THEN RefOf[r.id]
  ELSE NoRef

\* The message that save() has got, and will not release: it adds a message that
\* refers to it.
Bottom(r) == IF r.outer = <<>> THEN r.id ELSE r.outer[1].id
Adding(r) == r.pc \in Calling /\ r.op = "save" /\ Bottom(r) = r.target
Got(r) == IF Adding(r) THEN RefOf[r.target] ELSE NoRef

One(p) == IF p THEN 1 ELSE 0
Kids(m, S) == {c \in S : RefOf[c] = m}
CachedIn(ca) == {m \in Message : ca[m] # null}
Counted(m, ca, rs) == rs[ca[m]].backReference
SerialIn(m, ca, rs) == rs[ca[m]].serial
Saved(st, un) == (st \cup un) \ Range(Rows)
Refs(m, ca, st, un) ==
  Cardinality(Kids(m, CachedIn(ca))) + Cardinality(Kids(m, Saved(st, un))) + One(m \in un)

\* What the record of a message counts: the cached messages that refer to it, the
\* replies ever saved, the queue, and what the thread holds.
Ledger(own, got, ca, rs, st, un) ==
  \A m \in CachedIn(ca) : Counted(m, ca, rs) = Refs(m, ca, st, un) + One(own = m) + One(got = m)

\* LRUList has the messages that nothing refers to, but for the one on its way in
\* or out.
Leaving == {"getUnlist", "addUnlist"}
Absent == {"relList", "recDrop"}
Listed(r, ca, rs) ==
  {m \in CachedIn(ca) : \/ Counted(m, ca, rs) = 0 /\ ~(r.pc \in Absent /\ m = r.id)
                        \/ r.pc \in Leaving /\ m = r.id}
ListOf(S, lru, ca, rs) ==
  /\ \A s \in DOMAIN lru : lru[s] \in S /\ SerialIn(lru[s], ca, rs) = s
  /\ \A m \in S : SerialIn(m, ca, rs) \in DOMAIN lru /\ lru[SerialIn(m, ca, rs)] = m

\* Each cached message has a record and a serial of its own, and its chain; what
\* waits to be saved is cached, and what a saved reply refers to stays cached.
HeapSound(ca, rs, st, un) ==
  /\ IsFiniteSet(CachedIn(ca)) /\ IsFiniteSet(Saved(st, un))
  /\ Range(Rows) \subseteq st
  /\ \A m \in CachedIn(ca) : rs[ca[m]].message = m
  /\ \A m, n \in CachedIn(ca) : SerialIn(m, ca, rs) = SerialIn(n, ca, rs) => m = n
  /\ \A m \in CachedIn(ca) : RefOf[m] # NoRef =>
       RefOf[m] \in CachedIn(ca) /\ rs[ca[m]].ref = ca[RefOf[m]]
  /\ un \subseteq CachedIn(ca)
  /\ \A c \in Saved(st, un) : RefOf[c] # NoRef => RefOf[c] \in CachedIn(ca)

\* A slot that is taken is the thread's, or that of an identifier of no message;
\* its lock is that of a load under way, unless the thread is past it.
LoadLock(lock) == lock.lockState = "Loading" /\ ~lock.alreadyInvalid
SlotsSound(r, sl, lk) ==
  \A i \in Identifier : sl[i] # null =>
    /\ i \in Unknown \cup Claims(r)
    /\ \/ r.pc \in Owning \ {"loadRow", "addRead"} /\ i = r.id
       \/ LoadLock(lk[sl[i]])

Exceeding == {"relInvalidate", "relUnslot", "recCopy", "recSlot", "recUnlist"}
LimitKept(r, lru) ==
  LET n == Cardinality(DOMAIN lru) IN
  /\ IsFiniteSet(DOMAIN lru)
  /\ n <= SizeLimit + One(r.pc \in Exceeding)
  /\ r.pc \in {"relInvalidate", "relUnslot"} => r.exceeded = (n > SizeLimit)
  /\ r.pc \in Calling \cup {"relRead", "relSlot", "relDec", "relList"} => ~r.exceeded

\* The call: whether it seeks its target, and what a save may assume of it.
Seeking == {"getSlot", "getRead", "loadSlot", "loadRow"}
CallSound(r, st, un) ==
  /\ r.pc \notin Calling => r.outer = <<>>
  /\ r.pc \in Seeking => r.outer = <<>> /\ r.id \in st \cup un \cup Unknown
  /\ r.pc \in Calling /\ r.op = "save" =>
       /\ r.target \notin st \cup un
       /\ Bottom(r) # r.target =>
            Bottom(r) = RefOf[r.target] /\ RefOf[r.target] \in st \cup un

\* The step: what the thread knows of its message.
Knowing ==
  {"getInc", "getUnlist", "getSerial", "addInc", "addUnlist", "invalidate", "unslot",
   "relSlot", "relDec", "relList", "recUnlist", "recDrop"}
StepSound(r, ca, lru, sl, rs) ==
  /\ r.pc \notin {"failed", "woken", "waitInc", "waitUnlist", "relShare"}
  /\ r.pc \in Owning \cup Waiting => sl[r.id] = r.lock
  /\ r.pc \in {"loadSlot", "loadRow", "addPut"} => ca[r.id] = null
  /\ r.pc \in Knowing => r.id \in CachedIn(ca) /\ r.rec = ca[r.id]
  /\ r.pc = "relRead" => r.id \in CachedIn(ca)
  /\ Got(r) \in CachedIn(ca) \cup {NoRef}
  /\ r.pc = "addPut" /\ RefOf[r.id] # NoRef =>
       RefOf[r.id] \in CachedIn(ca) /\ r.rec = ca[RefOf[r.id]]
  /\ r.pc \in {"recInvalidate", "recUnslot"} /\ RefOf[r.id] # NoRef =>
       RefOf[r.id] \in CachedIn(ca)
  /\ r.pc \in {"getInc", "getUnlist", "getSerial"} =>
       \A m \in CachedIn(ca) : SerialIn(m, ca, rs) # r.serial
  /\ r.pc \in {"relList", "recUnlist", "recDrop"} => Counted(r.id, ca, rs) = 0
  /\ r.pc = "recUnlist" => r.serial = SerialIn(r.id, ca, rs)
  /\ r.pc = "recSlot" => r.todo = {[serial |-> s, id |-> lru[s]] : s \in DOMAIN lru}

Books(r, ca, lru, sl, rs, lk, st, un) ==
  /\ Ledger(Own(r), Got(r), ca, rs, st, un) /\ ListOf(Listed(r, ca, rs), lru, ca, rs)
  /\ HeapSound(ca, rs, st, un) /\ SlotsSound(r, sl, lk) /\ LimitKept(r, lru)
  /\ CallSound(r, st, un) /\ Frames(r, ca, sl) /\ StepSound(r, ca, lru, sl, rs)

BooksNow(t) == Books(th[t], cache, LRUList, slotLocks, records, locks, stored, unsaved)

CallInv == \E t \in Process : Alone(t) /\ BooksNow(t)
---------------------------------------------------------------------------
(* The ledger.                                                              *)

LEMMA KidsCount ==
  ASSUME NEW S, IsFiniteSet(S), NEW m
  PROVE  /\ IsFiniteSet(Kids(m, S)) /\ Cardinality(Kids(m, S)) \in Nat
         /\ Cardinality(Kids(m, S)) = 0 <=> \A c \in S : RefOf[c] # m
<1>1. Kids(m, S) \in SUBSET S
  BY DEF Kids
<1>2. IsFiniteSet(Kids(m, S))
  BY <1>1, FS_Subset
<1>3. Cardinality(Kids(m, S)) \in Nat /\ (Cardinality(Kids(m, S)) = 0 <=> Kids(m, S) = {})
  BY <1>2, FS_CardinalityType, FS_EmptySet
<1>4. Kids(m, S) = {} <=> \A c \in S : RefOf[c] # m
  BY DEF Kids
<1> QED BY <1>2, <1>3, <1>4

LEMMA KidAdded ==
  ASSUME NEW S, IsFiniteSet(S), NEW m, NEW x, x \notin S
  PROVE  Cardinality(Kids(m, S \cup {x})) = Cardinality(Kids(m, S)) + One(RefOf[x] = m)
<1>1. IsFiniteSet(Kids(m, S)) /\ Cardinality(Kids(m, S)) \in Nat
  BY KidsCount
<1>2. CASE RefOf[x] = m
  <2>1. Kids(m, S \cup {x}) = Kids(m, S) \cup {x} /\ x \notin Kids(m, S)
    BY <1>2 DEF Kids
  <2> QED BY <1>1, <1>2, <2>1, FS_AddElement DEF One
<1>3. CASE RefOf[x] # m
  <2>1. Kids(m, S \cup {x}) = Kids(m, S)
    BY <1>3 DEF Kids
  <2> QED BY <1>1, <1>3, <2>1 DEF One
<1> QED BY <1>2, <1>3

LEMMA KidRemoved ==
  ASSUME NEW S, IsFiniteSet(S), NEW m, NEW x \in S
  PROVE  Cardinality(Kids(m, S \ {x})) = Cardinality(Kids(m, S)) - One(RefOf[x] = m)
<1>1. IsFiniteSet(S \ {x}) /\ (S \ {x}) \cup {x} = S
  BY FS_RemoveElement
<1>2. Cardinality(Kids(m, S)) = Cardinality(Kids(m, S \ {x})) + One(RefOf[x] = m)
  BY <1>1, KidAdded
<1>3. Cardinality(Kids(m, S \ {x})) \in Nat
  BY <1>1, KidsCount
<1> QED BY <1>2, <1>3 DEF One

\* A message that nothing counts is referred to by nothing.
LEMMA Uncounted ==
  ASSUME NEW ca, NEW rs, NEW st, NEW un, HeapSound(ca, rs, st, un), NEW own, NEW got,
         Ledger(own, got, ca, rs, st, un), NEW m \in CachedIn(ca), Counted(m, ca, rs) = 0
  PROVE  /\ own # m /\ got # m /\ m \notin un
         /\ \A c \in CachedIn(ca) \cup Saved(st, un) : RefOf[c] # m
<1> DEFINE a == Cardinality(Kids(m, CachedIn(ca)))
           b == Cardinality(Kids(m, Saved(st, un)))
<1>1. /\ a \in Nat /\ b \in Nat
      /\ a = 0 <=> \A c \in CachedIn(ca) : RefOf[c] # m
      /\ b = 0 <=> \A c \in Saved(st, un) : RefOf[c] # m
  BY KidsCount DEF HeapSound
<1>2. a + b + One(m \in un) + One(own = m) + One(got = m) = 0
  BY DEF Ledger, Refs
<1> HIDE DEF a, b
<1>3. a = 0 /\ b = 0 /\ m \notin un /\ own # m /\ got # m
  BY <1>1, <1>2 DEF One
<1> QED BY <1>1, <1>3

LEMMA RefsType ==
  ASSUME NEW ca, NEW rs, NEW st, NEW un, HeapSound(ca, rs, st, un), NEW m
  PROVE  Refs(m, ca, st, un) \in Nat
<1>1. /\ Cardinality(Kids(m, CachedIn(ca))) \in Nat
      /\ Cardinality(Kids(m, Saved(st, un))) \in Nat
  BY KidsCount DEF HeapSound
<1> QED BY <1>1 DEF Refs, One

\* The thread counts a reference to one message, or gives one back.
LEMMA LedgerCounts ==
  ASSUME NEW ca, NEW rs, NEW st, NEW un, HeapSound(ca, rs, st, un), NEW own, NEW got,
         Ledger(own, got, ca, rs, st, un), NEW rs2, NEW own2, NEW x, NEW n \in Int,
         \A m \in CachedIn(ca) :
           Counted(m, ca, rs2) = Counted(m, ca, rs) + (IF m = x THEN n ELSE 0),
         \A m \in CachedIn(ca) :
           One(own2 = m) = One(own = m) + (IF m = x THEN n ELSE 0)
  PROVE  Ledger(own2, got, ca, rs2, st, un)
<1> SUFFICES ASSUME NEW m \in CachedIn(ca)
             PROVE  Counted(m, ca, rs2) = Refs(m, ca, st, un) + One(own2 = m) + One(got = m)
  BY DEF Ledger
<1>1. Refs(m, ca, st, un) \in Nat /\ One(own = m) \in Nat /\ One(got = m) \in Nat
      /\ One(own2 = m) \in Nat
  BY RefsType DEF One
<1>2. Counted(m, ca, rs) = Refs(m, ca, st, un) + One(own = m) + One(got = m)
  BY DEF Ledger
<1>3. /\ Counted(m, ca, rs2) = Counted(m, ca, rs) + (IF m = x THEN n ELSE 0)
      /\ One(own2 = m) = One(own = m) + (IF m = x THEN n ELSE 0)
  OBVIOUS
<1> QED BY <1>1, <1>2, <1>3
---------------------------------------------------------------------------
(* What a step leaves as it was.                                            *)

LEMMA CachedFacts ==
  ASSUME HeapOK, NEW m \in CachedIn(cache)
  PROVE  /\ m \in Identifier /\ m \in Message /\ cache[m] \in 1..Len(records)
         /\ Counted(m, cache, records) \in Int
         /\ SerialIn(m, cache, records) \in 1..serial
<1>1. m \in Identifier /\ m \in Message /\ cache[m] # null
  BY DEF CachedIn, Identifier
<1>2. cache[m] \in 1..Len(records)
  BY <1>1 DEF HeapOK
<1>3. records[cache[m]] \in RecordType(Len(records), serial)
  BY <1>2, HeapFacts
<1> QED BY <1>1, <1>2, <1>3 DEF RecordType, Counted, SerialIn

\* Only the count of one message changes.
LEMMA OneCounts ==
  ASSUME HeapOK, NEW st, NEW un, HeapSound(cache, records, st, un),
         NEW x \in CachedIn(cache), NEW n \in Int, AddBackRef(cache[x], n)
  PROVE  \A m \in CachedIn(cache) :
           /\ Counted(m, cache, records')
                = Counted(m, cache, records) + (IF m = x THEN n ELSE 0)
           /\ SerialIn(m, cache, records') = SerialIn(m, cache, records)
           /\ records'[cache[m]].message = records[cache[m]].message
           /\ records'[cache[m]].ref = records[cache[m]].ref
<1> DEFINE S == RecordType(Len(records), serial)
           y == cache[x]
           new == [records[y] EXCEPT !.backReference = records[y].backReference + n]
<1>1. records \in Seq(S) /\ y \in 1..Len(records) /\ records[y] \in S
  BY HeapFacts, CachedFacts DEF HeapOK
<1>2. /\ new \in S /\ new.message = records[y].message /\ new.ref = records[y].ref
      /\ new.serial = records[y].serial
      /\ new.backReference = records[y].backReference + n
  <2>1. records[y].backReference + n \in Int
    BY <1>1 DEF RecordType
  <2> HIDE DEF y
  <2>2. \A q \in S : \A k \in Int :
          LET z == [q EXCEPT !.backReference = k] IN
          /\ z \in S /\ z.message = q.message /\ z.serial = q.serial
          /\ z.backReference = k /\ z.ref = q.ref
    BY DEF RecordType
  <2> QED BY <1>1, <2>1, <2>2
<1>3. records' = [records EXCEPT ![y] = new]
  BY DEF AddBackRef
<1> HIDE DEF S, new
<1>4. \A j \in 1..Len(records) : records'[j] = IF j = y THEN new ELSE records[j]
  BY <1>1, <1>2, <1>3, ExceptRecord
<1>5. TAKE m \in CachedIn(cache)
<1>6. cache[m] \in 1..Len(records) /\ Counted(m, cache, records) \in Int
  BY CachedFacts
<1>7. cache[m] = y <=> m = x
  BY DEF HeapSound
<1> QED BY <1>2, <1>4, <1>6, <1>7 DEF Counted, SerialIn

\* Only the serial of one message changes.
LEMMA OneSerial ==
  ASSUME HeapOK, NEW st, NEW un, HeapSound(cache, records, st, un),
         NEW x \in CachedIn(cache), NEW s \in Nat \ {0}, NewSerial(cache[x], s)
  PROVE  \A m \in CachedIn(cache) :
           /\ Counted(m, cache, records') = Counted(m, cache, records)
           /\ SerialIn(m, cache, records') = IF m = x THEN s ELSE SerialIn(m, cache, records)
           /\ records'[cache[m]].message = records[cache[m]].message
           /\ records'[cache[m]].ref = records[cache[m]].ref
<1> DEFINE S == RecordType(Len(records), serial + s)
           y == cache[x]
           new == [records[y] EXCEPT !.serial = s]
<1>1. records \in Seq(S) /\ y \in 1..Len(records) /\ records[y] \in S
  <2>1. records \in Seq(S)
    BY HeapFacts, RecordsGrow DEF HeapOK
  <2> HIDE DEF S
  <2> QED BY <2>1, CachedFacts, ElementOfSeq
<1>2. /\ new \in S /\ new.message = records[y].message /\ new.ref = records[y].ref
      /\ new.serial = s /\ new.backReference = records[y].backReference
  <2>1. s \in 1..(serial + s)
    BY HeapFacts
  <2> HIDE DEF y
  <2>2. \A q \in S :
          LET z == [q EXCEPT !.serial = s] IN
          /\ z \in S /\ z.message = q.message /\ z.serial = s
          /\ z.backReference = q.backReference /\ z.ref = q.ref
    BY <2>1 DEF RecordType
  <2> QED BY <1>1, <2>2
<1>3. records' = [records EXCEPT ![y] = new]
  BY DEF NewSerial
<1> HIDE DEF S, new
<1>4. \A j \in 1..Len(records) : records'[j] = IF j = y THEN new ELSE records[j]
  BY <1>1, <1>2, <1>3, ExceptRecord
<1>5. TAKE m \in CachedIn(cache)
<1>6. cache[m] \in 1..Len(records)
  BY CachedFacts
<1>7. cache[m] = y <=> m = x
  BY DEF HeapSound
<1> QED BY <1>2, <1>4, <1>6, <1>7 DEF Counted, SerialIn

\* The records keep their messages and references, and different serials.
LEMMA HeapStays ==
  ASSUME NEW ca, NEW rs, NEW rs2, NEW st, NEW un, HeapSound(ca, rs, st, un),
         \A m \in CachedIn(ca) : /\ rs2[ca[m]].message = rs[ca[m]].message
                                 /\ rs2[ca[m]].ref = rs[ca[m]].ref,
         \A m, n \in CachedIn(ca) : SerialIn(m, ca, rs2) = SerialIn(n, ca, rs2) => m = n
  PROVE  HeapSound(ca, rs2, st, un)
<1> HIDE DEF SerialIn, CachedIn, Saved
<1> QED BY DEF HeapSound

LEMMA HeapCounted ==
  ASSUME NEW ca, NEW rs, NEW rs2, NEW st, NEW un, HeapSound(ca, rs, st, un),
         \A m \in CachedIn(ca) : /\ rs2[ca[m]].message = rs[ca[m]].message
                                 /\ rs2[ca[m]].ref = rs[ca[m]].ref
                                 /\ SerialIn(m, ca, rs2) = SerialIn(m, ca, rs)
  PROVE  HeapSound(ca, rs2, st, un)
<1> HIDE DEF SerialIn, CachedIn, Saved
<1> QED BY DEF HeapSound

\* LRUList when the serials of what is listed stay.
LEMMA ListStays ==
  ASSUME NEW S, NEW lru, NEW ca, NEW rs, ListOf(S, lru, ca, rs), NEW ca2, NEW rs2,
         \A m \in S : SerialIn(m, ca2, rs2) = SerialIn(m, ca, rs)
  PROVE  ListOf(S, lru, ca2, rs2)
BY DEF ListOf

LEMMA Unlisted ==
  ASSUME NEW S, NEW lru, NEW ca, NEW rs, ListOf(S, lru, ca, rs), NEW m \in S,
         NEW S2, S2 = S \ {m}, IsFiniteSet(DOMAIN lru), NEW lru2,
         DOMAIN lru2 = DOMAIN lru \ {SerialIn(m, ca, rs)},
         \A k \in DOMAIN lru2 : lru2[k] = lru[k]
  PROVE  /\ ListOf(S2, lru2, ca, rs)
         /\ IsFiniteSet(DOMAIN lru2)
         /\ Cardinality(DOMAIN lru2) = Cardinality(DOMAIN lru) - 1
<1> DEFINE s == SerialIn(m, ca, rs)
<1>1. s \in DOMAIN lru /\ lru[s] = m
  BY DEF ListOf
<1>2. DOMAIN lru2 = DOMAIN lru \ {s} /\ \A k \in DOMAIN lru2 : lru2[k] = lru[k]
  OBVIOUS
<1>3. IsFiniteSet(DOMAIN lru2) /\ Cardinality(DOMAIN lru2) = Cardinality(DOMAIN lru) - 1
  BY <1>1, <1>2, FS_RemoveElement
<1> HIDE DEF s
<1>4. ListOf(S2, lru2, ca, rs)
  <2>1. ASSUME NEW k \in DOMAIN lru2
        PROVE  lru2[k] \in S \ {m} /\ SerialIn(lru2[k], ca, rs) = k
    BY <1>2, <2>1 DEF ListOf, s
  <2>2. ASSUME NEW x \in S \ {m}
        PROVE  SerialIn(x, ca, rs) \in DOMAIN lru2 /\ lru2[SerialIn(x, ca, rs)] = x
    BY <1>1, <1>2 DEF ListOf
  <2> QED BY <2>1, <2>2 DEF ListOf
<1> QED BY <1>3, <1>4

LEMMA Enlisted ==
  ASSUME NEW S, NEW lru, NEW ca, NEW rs, ListOf(S, lru, ca, rs), NEW m, m \notin S,
         \A x \in S : SerialIn(x, ca, rs) # SerialIn(m, ca, rs),
         NEW S2, S2 = S \cup {m}, IsFiniteSet(DOMAIN lru), NEW lru2,
         DOMAIN lru2 = DOMAIN lru \cup {SerialIn(m, ca, rs)},
         \A k \in DOMAIN lru : lru2[k] = lru[k], lru2[SerialIn(m, ca, rs)] = m
  PROVE  /\ ListOf(S2, lru2, ca, rs)
         /\ IsFiniteSet(DOMAIN lru2)
         /\ Cardinality(DOMAIN lru2) = Cardinality(DOMAIN lru) + 1
<1> DEFINE s == SerialIn(m, ca, rs)
<1>1. s \notin DOMAIN lru
  BY DEF ListOf
<1>2. /\ DOMAIN lru2 = DOMAIN lru \cup {s}
      /\ \A k \in DOMAIN lru2 : lru2[k] = IF k = s THEN m ELSE lru[k]
  BY <1>1
<1>3. IsFiniteSet(DOMAIN lru2) /\ Cardinality(DOMAIN lru2) = Cardinality(DOMAIN lru) + 1
  BY <1>1, <1>2, FS_AddElement
<1> HIDE DEF s
<1>4. s = SerialIn(m, ca, rs)
  BY DEF s
<1>5. ListOf(S2, lru2, ca, rs)
  <2>1. ASSUME NEW k \in DOMAIN lru2
        PROVE  lru2[k] \in S \cup {m} /\ SerialIn(lru2[k], ca, rs) = k
    BY <1>2, <1>4 DEF ListOf
  <2>2. ASSUME NEW x \in S \cup {m}
        PROVE  SerialIn(x, ca, rs) \in DOMAIN lru2 /\ lru2[SerialIn(x, ca, rs)] = x
    BY <1>2, <1>4 DEF ListOf
  <2> QED BY <2>1, <2>2 DEF ListOf
<1> QED BY <1>3, <1>5

\* A message that the thread holds is counted.
LEMMA HeldCounts ==
  ASSUME NEW ca, NEW rs, NEW st, NEW un, HeapSound(ca, rs, st, un), NEW own, NEW got,
         Ledger(own, got, ca, rs, st, un), NEW m \in CachedIn(ca)
  PROVE  /\ Counted(m, ca, rs) \in Nat
         /\ own = m => Counted(m, ca, rs) >= 1
<1>1. Refs(m, ca, st, un) \in Nat /\ One(own = m) \in {0, 1} /\ One(got = m) \in {0, 1}
  BY RefsType DEF One
<1>2. Counted(m, ca, rs) = Refs(m, ca, st, un) + One(own = m) + One(got = m)
  BY DEF Ledger
<1>3. own = m => One(own = m) = 1
  BY DEF One
<1> QED BY <1>1, <1>2, <1>3

\* A lock in the slot of another message is another lock.
LEMMA NamesApart ==
  ASSUME NEW name, TypedWith(name), NEW t \in Process, th[t].pc \in Owning \cup Waiting,
         NEW i \in Identifier, i # th[t].id, slotLocks[i] # null
  PROVE  slotLocks[i] # th[t].lock
<1>1. name[slotLocks[i]] = i
  BY DEF TypedWith, NamesOK
<1>2. name[th[t].lock] = th[t].id
  BY ThreadFacts DEF Named
<1> QED BY <1>1, <1>2
---------------------------------------------------------------------------
(* The steps of get().                                                      *)

Same(q, r) == q.op = r.op /\ q.target = r.target /\ q.id = r.id /\ q.outer = r.outer

LEMMA Became ==
  ASSUME NEW name, TypedWith(name), NEW t \in Process, NEW q, Become(t, q)
  PROVE  th'[t] = q /\ \A u \in Process \ {t} : th'[u] = th[u]
BY DEF TypedWith, ThreadsOK, Become

LEMMA Went ==
  ASSUME NEW name, TypedWith(name), NEW t \in Process, NEW pc, Goto(t, pc)
  PROVE  /\ th'[t].pc = pc /\ Same(th'[t], th[t])
         /\ th'[t].lock = th[t].lock /\ th'[t].rec = th[t].rec
         /\ th'[t].serial = th[t].serial /\ th'[t].exceeded = th[t].exceeded
         /\ th'[t].todo = th[t].todo
<1>1. th'[t] = [th[t] EXCEPT !.pc = pc]
  BY Became DEF Goto
<1>2. th[t] \in States(Len(locks), Len(records), serial)
  BY ThreadFacts
<1> QED BY <1>1, <1>2 DEF States, Same

\* The call goes on.
LEMMA CallGoesOn ==
  ASSUME NEW r, NEW q, Same(q, r), q.pc \in Calling, r.pc \in Calling,
         q.pc \in Seeking => r.pc \in Seeking, NEW st, NEW un, CallSound(r, st, un)
  PROVE  CallSound(q, st, un) /\ Got(q) = Got(r)
<1> HIDE DEF Calling, Seeking
<1> QED BY DEF CallSound, Got, Adding, Bottom, Same

LEMMA CallIsOver ==
  ASSUME NEW r, NEW q, q.outer = r.outer, q.pc \notin Calling, r.pc \notin Calling,
         NEW st, NEW un, CallSound(r, st, un)
  PROVE  CallSound(q, st, un) /\ Got(q) = NoRef /\ Got(r) = NoRef
<1>1. Seeking \subseteq Calling
  BY DEF Seeking, Calling
<1> HIDE DEF Calling, Seeking
<1> QED BY <1>1 DEF CallSound, Got, Adding, Same

\* The thread keeps its slots, and their locks stay those of loads.
LEMMA SlotsStay ==
  ASSUME NEW r, NEW q, q.id = r.id, q.outer = r.outer, NEW sl, NEW lk, SlotsSound(r, sl, lk),
         r.pc \in Owning => q.pc \in Owning,
         r.pc \in Owning \ {"loadRow", "addRead"} => q.pc \in Owning \ {"loadRow", "addRead"},
         NEW lk2,
         \A i \in Identifier : sl[i] # null /\ LoadLock(lk[sl[i]]) => LoadLock(lk2[sl[i]])
  PROVE  SlotsSound(q, sl, lk2)
<1>1. Claims(r) \subseteq Claims(q)
  BY DEF Claims
<1> HIDE DEF Owning
<1> QED BY <1>1 DEF SlotsSound

\* What a step must show when no record, row or entry of LRUList changes.
LEMMA QuietBooks ==
  ASSUME NEW r, NEW q, NEW ca, NEW lru, NEW sl, NEW rs, NEW lk, NEW st, NEW un,
         Books(r, ca, lru, sl, rs, lk, st, un), Own(q) = Own(r), Got(q) = Got(r),
         r.pc \notin Leaving \cup Absent, q.pc \notin Leaving \cup Absent,
         NEW sl2, NEW lk2, SlotsSound(q, sl2, lk2), LimitKept(q, lru),
         CallSound(q, st, un), Frames(q, ca, sl2), StepSound(q, ca, lru, sl2, rs)
  PROVE  Books(q, ca, lru, sl2, rs, lk2, st, un)
<1>1. Listed(q, ca, rs) = Listed(r, ca, rs)
  BY DEF Listed
<1> QED BY <1>1 DEF Books

LEMMA BookFacts ==
  ASSUME NEW name, TypedWith(name), NEW t \in Process, BooksNow(t)
  PROVE  /\ HeapOK /\ NamesOK(name) /\ th[t] \in States(Len(locks), Len(records), serial)
         /\ Len(locks) \in Nat /\ Len(records) \in Nat /\ serial \in Nat
         /\ Shape(th[t]) /\ Named(th[t], locks, name)
         /\ Books(th[t], cache, LRUList, slotLocks, records, locks, stored, unsaved)
         /\ Ledger(Own(th[t]), Got(th[t]), cache, records, stored, unsaved)
         /\ ListOf(Listed(th[t], cache, records), LRUList, cache, records)
         /\ HeapSound(cache, records, stored, unsaved)
         /\ SlotsSound(th[t], slotLocks, locks) /\ LimitKept(th[t], LRUList)
         /\ CallSound(th[t], stored, unsaved) /\ Frames(th[t], cache, slotLocks)
         /\ StepSound(th[t], cache, LRUList, slotLocks, records)
BY ThreadFacts DEF BooksNow, Books

LEMMA TakeSlotBooks ==
  ASSUME NEW name, TypedWith(name), NEW t \in Process, BooksNow(t),
         NEW x \in {null} \cup 1..Len(records),
         \/ /\ th[t].pc = "getSlot"
            /\ TakeSlot(t, "Getting", x, "getRead", "waitEnter")
         \/ /\ th[t].pc = "loadSlot"
            /\ TakeSlot(t, "Loading", x, "loadRow", "waitEnter")
         \/ /\ th[t].pc = "addSlot"
            /\ TakeSlot(t, "Loading", x, "addRead", "waitEnter")
         \/ /\ th[t].pc = "relSlot"
            /\ TakeSlot(t, "Recycling", x, "relDec", "relShare"),
         UNCHANGED <<cache, LRUList, serial, records, stored, unsaved>>
  PROVE  BooksNow(t)'
<1> DEFINE r == th[t]
           q == th'[t]
<1>1. /\ r.id \in Identifier /\ r.pc \notin Owning \cup Waiting
      /\ r.pc = "relSlot" => r.id \in Message
  BY BookFacts DEF Shape, Owning, Waiting, OfMessage
<1>2. PICK state \in {"Getting", "Loading", "Recycling"},
           mine \in {"getRead", "loadRow", "addRead", "relDec"},
           theirs \in {"waitEnter", "relShare"} :
        /\ TakeSlot(t, state, x, mine, theirs)
        /\ r.pc = "getSlot" => mine = "getRead" /\ theirs = "waitEnter"
        /\ r.pc = "loadSlot" => mine = "loadRow" /\ state = "Loading" /\ theirs = "waitEnter"
        /\ r.pc = "addSlot" => mine = "addRead" /\ state = "Loading" /\ theirs = "waitEnter"
        /\ r.pc = "relSlot" => mine = "relDec" /\ theirs = "relShare"
        /\ r.pc \in {"getSlot", "loadSlot", "addSlot", "relSlot"}
        /\ state = "Recycling" => r.id \in Message
  BY <1>1
<1>3. r \in States(Len(locks), Len(records), serial) /\ LimitKept(r, LRUList)
  BY BookFacts
<1>4. CASE slotLocks[r.id] = null
  <2> DEFINE new == [lockState |-> state, accessRecord |-> x, alreadyInvalid |-> FALSE]
  <2>1. /\ PutLock(new, r.id) /\ new \in LockType(Len(records))
        /\ Become(t, [r EXCEPT !.pc = mine, !.lock = Len(locks')])
    BY <1>2, <1>4 DEF TakeSlot, PutLock, LockType
  <2>2. q.pc = mine /\ Same(q, r) /\ q.lock = Len(locks') /\ q.rec = r.rec
        /\ q.serial = r.serial /\ q.exceeded = r.exceeded /\ q.todo = r.todo
    <3>1. q = [r EXCEPT !.pc = mine, !.lock = Len(locks')]
      BY <2>1, Became
    <3> QED BY <1>3, <3>1 DEF States, Same
  <2>3. /\ locks'[Len(locks')] = new /\ \A l \in 1..Len(locks) : locks'[l] = locks[l]
        /\ \A j \in Identifier :
             slotLocks'[j] = IF j = r.id THEN Len(locks') ELSE slotLocks[j]
        /\ Len(locks') = Len(locks) + 1
    <3> HIDE DEF new
    <3>1. new.lockState = "Recycling" => r.id \in Message
      BY <1>2 DEF new
    <3> QED BY <1>1, <2>1, <3>1, BookFacts, NewLock
  <2>4. slotLocks \in [Identifier -> {null} \cup 1..Len(locks)] /\ Len(locks) \in Nat
    BY BookFacts DEF HeapOK
  <2>5. Own(q) = Own(r)
    BY <1>2, <2>2 DEF Own, Same
  <2>6. CallSound(q, stored, unsaved) /\ Got(q) = Got(r)
    <3>1. CallSound(r, stored, unsaved)
      BY BookFacts
    <3>2. CASE r.pc = "relSlot"
      BY <1>2, <2>2, <3>1, <3>2, CallIsOver DEF Calling, Same
    <3>3. CASE r.pc # "relSlot"
      <4>1. q.pc \in Calling /\ r.pc \in Calling /\ (q.pc \in Seeking => r.pc \in Seeking)
        BY <1>2, <2>2, <3>3 DEF Calling, Seeking
      <4> QED BY <2>2, <3>1, <4>1, CallGoesOn
    <3> QED BY <3>2, <3>3
  <2>7. SlotsSound(q, slotLocks', locks')
    <3> SUFFICES ASSUME NEW i \in Identifier, slotLocks'[i] # null
                 PROVE  /\ i \in Unknown \cup Claims(q)
                        /\ \/ q.pc \in Owning \ {"loadRow", "addRead"} /\ i = q.id
                           \/ LoadLock(locks'[slotLocks'[i]])
      BY DEF SlotsSound
    <3>1. mine \in Owning /\ q.id = r.id /\ q.outer = r.outer
      BY <2>2 DEF Owning, Same
    <3>2. CASE i = r.id
      <4>1. i \in Claims(q)
        BY <2>2, <3>1, <3>2 DEF Claims
      <4>2. mine \in {"loadRow", "addRead"} => LoadLock(new)
        BY <1>2 DEF LoadLock
      <4> QED BY <2>2, <2>3, <3>1, <3>2, <4>1, <4>2
    <3>3. CASE i # r.id
      <4>1. slotLocks'[i] = slotLocks[i] /\ slotLocks[i] \in 1..Len(locks)
        BY <2>3, <2>4, <3>3
      <4>2. i \in Unknown \cup Claims(r) /\ LoadLock(locks[slotLocks[i]])
        BY <1>1, <4>1, BookFacts DEF SlotsSound, null
      <4>3. Claims(r) \subseteq Claims(q)
        BY <1>1, <3>1 DEF Claims
      <4> QED BY <2>3, <4>1, <4>2, <4>3
    <3> QED BY <3>2, <3>3
  <2>8. Frames(q, cache, slotLocks')
    <3>1. Frames(r, cache, slotLocks) /\ r.outer \in Seq([id : Message, lock : 1..Len(locks)])
      BY BookFacts DEF States
    <3>2. \A k \in 1..Len(r.outer) : /\ r.outer[k].id \in Identifier
                                     /\ r.outer[k].lock \in 1..Len(locks)
      <4> DEFINE frames == r.outer
      <4>1. \A k \in 1..Len(frames) : frames[k] \in [id : Message, lock : 1..Len(locks)]
        BY <3>1, ElementOfSeq
      <4> QED BY <4>1 DEF Identifier
    <3>3. \A k \in 1..Len(r.outer) : r.outer[k].id # r.id
      <4>1. \A k \in 1..Len(r.outer) : slotLocks[r.outer[k].id] = r.outer[k].lock
        BY <3>1 DEF Frames
      <4> QED BY <1>4, <3>2, <4>1 DEF null
    <3>4. q.id = r.id /\ q.outer = r.outer
      BY <2>2 DEF Same
    <3>5. \A k \in 1..Len(r.outer) : slotLocks'[r.outer[k].id] = slotLocks[r.outer[k].id]
      BY <2>3, <3>2, <3>3
    <3> HIDE DEF r, q
    <3> QED BY <3>1, <3>3, <3>4, <3>5 DEF Frames
  <2>9. StepSound(q, cache, LRUList, slotLocks', records)
    <3>1. Got(q) \in CachedIn(cache) \cup {NoRef}
      BY <2>6, BookFacts DEF StepSound
    <3>2. StepSound(r, cache, LRUList, slotLocks, records)
      BY BookFacts
    <3> QED BY <1>1, <1>2, <2>2, <2>3, <3>1, <3>2 DEF StepSound, Same, Knowing
  <2>10. LimitKept(q, LRUList)
    BY <1>2, <1>3, <2>2 DEF LimitKept, Exceeding, Calling, One
  <2>11. r.pc \notin Leaving \cup Absent /\ q.pc \notin Leaving \cup Absent
    BY <1>2, <2>2 DEF Leaving, Absent
  <2> QED BY <2>5, <2>6, <2>7, <2>8, <2>9, <2>10, <2>11, QuietBooks, BookFacts DEF BooksNow
<1>5. CASE slotLocks[r.id] # null
  <2>1. r.pc # "relSlot"
    <3> SUFFICES ASSUME r.pc = "relSlot" PROVE FALSE
      OBVIOUS
    <3>1. r.outer = <<>> /\ r.id \in Message
      BY <1>1, BookFacts DEF CallSound, Calling
    <3>2. Claims(r) = {}
      BY <1>1, <3>1 DEF Claims
    <3> QED BY <1>1, <1>5, <3>1, <3>2, BookFacts, CacheAssumption DEF SlotsSound
  <2>2. /\ Become(t, [r EXCEPT !.pc = "waitEnter", !.lock = slotLocks[r.id]])
        /\ UNCHANGED <<locks, slotLocks>>
    BY <1>2, <1>5, <2>1 DEF TakeSlot
  <2>3. q.pc = "waitEnter" /\ Same(q, r) /\ q.lock = slotLocks[r.id]
        /\ q.exceeded = r.exceeded
    <3>1. q = [r EXCEPT !.pc = "waitEnter", !.lock = slotLocks[r.id]]
      BY <2>2, Became
    <3> QED BY <1>3, <3>1 DEF States, Same
  <2>4. Own(q) = Own(r)
    BY <1>2, <2>1, <2>3 DEF Own
  <2>5. CallSound(q, stored, unsaved) /\ Got(q) = Got(r)
    <3>1. q.pc \in Calling /\ r.pc \in Calling /\ (q.pc \in Seeking => r.pc \in Seeking)
      BY <1>2, <2>1, <2>3 DEF Calling, Seeking
    <3> QED BY <2>3, <3>1, CallGoesOn, BookFacts
  <2>6. SlotsSound(q, slotLocks, locks)
    <3>1. q.id = r.id /\ q.outer = r.outer
      BY <2>3 DEF Same
    <3> QED BY <1>1, <3>1, SlotsStay, BookFacts
  <2>7. Frames(q, cache, slotLocks)
    <3>1. q.pc \notin Owning
      BY <2>3 DEF Owning
    <3> QED BY <2>3, <3>1, StaysWith, BookFacts DEF Same
  <2>8. StepSound(q, cache, LRUList, slotLocks, records)
    <3>1. Got(q) \in CachedIn(cache) \cup {NoRef}
      BY <2>5, BookFacts DEF StepSound
    <3> QED BY <2>3, <3>1 DEF StepSound, Same, Knowing
  <2>9. LimitKept(q, LRUList)
    BY <1>2, <1>3, <2>1, <2>3 DEF LimitKept, Exceeding, Calling, One
  <2>10. r.pc \notin Leaving \cup Absent /\ q.pc \notin Leaving \cup Absent
    BY <1>2, <2>3 DEF Leaving, Absent
  <2> QED BY <2>2, <2>4, <2>5, <2>6, <2>7, <2>8, <2>9, <2>10, QuietBooks, BookFacts DEF BooksNow
<1> QED BY <1>4, <1>5

LEMMA GetReadBooks ==
  ASSUME NEW name, TypedWith(name), NEW t \in Process, BooksNow(t), GetRead(t)
  PROVE  BooksNow(t)'
<1> DEFINE r == th[t]
           q == th'[t]
<1>1. /\ r.pc = "getRead" /\ r.id \in Identifier /\ r.lock \in 1..Len(locks)
      /\ slotLocks[r.id] = r.lock
  BY BookFacts, PCFacts DEF GetRead, At, StepSound, Owning
<1>2. /\ Frames(r, cache, slotLocks) /\ SlotsSound(r, slotLocks, locks)
      /\ CallSound(r, stored, unsaved) /\ LimitKept(r, LRUList)
      /\ StepSound(r, cache, LRUList, slotLocks, records)
  BY BookFacts
<1>3. CASE cache[r.id] = null
  <2>1. /\ FreeSlot(r.id) /\ Goto(t, "loadSlot")
        /\ UNCHANGED <<cache, LRUList, serial, records, locks, stored, unsaved>>
    BY <1>3 DEF GetRead, callVars
  <2>2. q.pc = "loadSlot" /\ Same(q, r) /\ q.exceeded = r.exceeded
    BY <2>1, Went
  <2>3. \A j \in Identifier : slotLocks'[j] = IF j = r.id THEN null ELSE slotLocks[j]
    BY <1>1, <2>1, BookFacts, FreedSlot
  <2>4. CallSound(q, stored, unsaved) /\ Got(q) = Got(r)
    <3>1. q.pc \in Calling /\ r.pc \in Calling /\ r.pc \in Seeking
      BY <1>1, <2>2 DEF Calling, Seeking
    <3> QED BY <1>2, <2>2, <3>1, CallGoesOn
  <2>5. r.outer = <<>> /\ q.outer = <<>> /\ q.id = r.id
    BY <1>1, <1>2, <2>2 DEF CallSound, Seeking, Same
  <2>6. SlotsSound(q, slotLocks', locks)
    <3>1. Claims(r) = {r.id}
      BY <1>1, <2>5 DEF Claims, Owning
    <3> QED BY <1>2, <2>3, <3>1 DEF SlotsSound
  <2>7. Frames(q, cache, slotLocks')
    BY <2>5 DEF Frames
  <2>8. StepSound(q, cache, LRUList, slotLocks', records)
    BY <1>2, <1>3, <2>2, <2>4, <2>5 DEF StepSound, Knowing, Owning, Waiting
  <2>9. Own(q) = Own(r) /\ LimitKept(q, LRUList)
        /\ r.pc \notin Leaving \cup Absent /\ q.pc \notin Leaving \cup Absent
    BY <1>1, <1>2, <2>2 DEF Own, LimitKept, Exceeding, Calling, One, Leaving, Absent
  <2> QED BY <2>1, <2>4, <2>6, <2>7, <2>8, <2>9, QuietBooks, BookFacts DEF BooksNow
<1>4. CASE cache[r.id] # null
  <2>1. /\ serial' = serial + 1 /\ ShowRecord(r.lock, cache[r.id])
        /\ Become(t, [r EXCEPT !.pc = "getInc", !.rec = cache[r.id], !.serial = serial'])
        /\ UNCHANGED <<cache, LRUList, slotLocks, records, stored, unsaved>>
    BY <1>4 DEF GetRead, callVars, ShowRecord
  <2>2. /\ q.pc = "getInc" /\ Same(q, r) /\ q.exceeded = r.exceeded /\ q.lock = r.lock
        /\ q.rec = cache[r.id] /\ q.serial = serial + 1
    <3>1. q = [r EXCEPT !.pc = "getInc", !.rec = cache[r.id], !.serial = serial']
      BY <2>1, Became
    <3>2. r \in States(Len(locks), Len(records), serial)
      BY BookFacts
    <3> QED BY <2>1, <3>1, <3>2 DEF States, Same
  <2>3. /\ \A l \in 1..Len(locks) : LoadLock(locks[l]) => LoadLock(locks'[l])
        /\ r.id \in CachedIn(cache)
    <3>1. /\ cache[r.id] \in {null} \cup 1..Len(records) /\ r.id \in Message
          /\ locks \in Seq(LockType(Len(records))) /\ Len(records) \in Nat
      BY <1>1, <1>4, BookFacts DEF HeapOK
    <3>2. \A l \in 1..Len(locks) :
            /\ locks'[l].lockState = locks[l].lockState
            /\ locks'[l].alreadyInvalid = locks[l].alreadyInvalid
      BY <1>1, <2>1, <3>1, LockChanges
    <3> QED BY <1>4, <3>1, <3>2 DEF LoadLock, CachedIn
  <2>4. CallSound(q, stored, unsaved) /\ Got(q) = Got(r)
    <3>1. q.pc \in Calling /\ r.pc \in Calling /\ r.pc \in Seeking
      BY <1>1, <2>2 DEF Calling, Seeking
    <3> QED BY <1>2, <2>2, <3>1, CallGoesOn
  <2>5. SlotsSound(q, slotLocks, locks')
    <3>1. q.pc \in Owning \ {"loadRow", "addRead"} /\ q.id = r.id /\ q.outer = r.outer
      BY <2>2 DEF Owning, Same
    <3>2. \A i \in Identifier : slotLocks[i] # null => slotLocks[i] \in 1..Len(locks)
      BY BookFacts DEF HeapOK
    <3> QED BY <1>2, <2>3, <3>1, <3>2, SlotsStay
  <2>6. Frames(q, cache, slotLocks)
    <3>1. r.pc \in Owning
      BY <1>1 DEF Owning
    <3> QED BY <1>2, <2>2, <3>1, StaysWith DEF Same
  <2>7. \A m \in CachedIn(cache) : SerialIn(m, cache, records) # q.serial
    BY <2>2, BookFacts, CachedFacts
  <2>8. StepSound(q, cache, LRUList, slotLocks, records)
    BY <1>1, <1>2, <2>2, <2>3, <2>4, <2>7 DEF StepSound, Knowing, Same
  <2>9. Own(q) = Own(r) /\ LimitKept(q, LRUList)
        /\ r.pc \notin Leaving \cup Absent /\ q.pc \notin Leaving \cup Absent
    BY <1>1, <1>2, <2>2 DEF Own, LimitKept, Exceeding, Calling, One, Leaving, Absent
  <2> QED BY <2>1, <2>4, <2>5, <2>6, <2>8, <2>9, QuietBooks, BookFacts DEF BooksNow
<1> QED BY <1>3, <1>4

\* The first back reference is counted before the record leaves LRUList.
LEMMA IncBooks ==
  ASSUME NEW name, TypedWith(name), NEW t \in Process, BooksNow(t), GetInc(t) \/ AddInc(t)
  PROVE  BooksNow(t)'
<1> DEFINE r == th[t]
           q == th'[t]
<1>1. /\ r.pc \in {"getInc", "addInc"} /\ r.id \in CachedIn(cache) /\ r.rec = cache[r.id]
      /\ StepSound(r, cache, LRUList, slotLocks, records)
  BY BookFacts DEF GetInc, AddInc, At, StepSound, Knowing
<1>2. /\ AddBackRef(cache[r.id], 1)
      /\ UNCHANGED <<cache, LRUList, slotLocks, serial, locks, stored, unsaved>>
  BY <1>1 DEF GetInc, AddInc, CountReference, callVars
<1>3. PICK pc : /\ Goto(t, pc)
                /\ IF Counted(r.id, cache, records) = 0 THEN pc \in {"getUnlist", "addUnlist"}
                                                        ELSE pc \in {"getSerial", "invalidate"}
                /\ pc \in {"getUnlist", "getSerial"} => r.pc = "getInc"
  BY <1>1 DEF GetInc, AddInc, At, Counted
<1>4. /\ q.pc = pc /\ Same(q, r) /\ q.lock = r.lock /\ q.rec = r.rec
      /\ q.serial = r.serial /\ q.exceeded = r.exceeded
      /\ pc \in {"getUnlist", "addUnlist", "getSerial", "invalidate"}
  BY <1>3, Went
<1>5. \A m \in CachedIn(cache) :
        /\ Counted(m, cache, records')
             = Counted(m, cache, records) + (IF m = r.id THEN 1 ELSE 0)
        /\ SerialIn(m, cache, records') = SerialIn(m, cache, records)
        /\ records'[cache[m]].message = records[cache[m]].message
        /\ records'[cache[m]].ref = records[cache[m]].ref
  <2>1. HeapOK /\ HeapSound(cache, records, stored, unsaved)
    BY BookFacts
  <2> HIDE DEF r
  <2>2. 1 \in Int
    OBVIOUS
  <2> QED BY <1>1, <1>2, <2>1, <2>2, OneCounts
<1>6. CallSound(q, stored, unsaved) /\ Got(q) = Got(r)
  <2>1. q.pc \in Calling /\ r.pc \in Calling /\ q.pc \notin Seeking
    BY <1>1, <1>4 DEF Calling, Seeking
  <2> QED BY <1>4, <2>1, CallGoesOn, BookFacts
<1>7. Ledger(Own(q), Got(q), cache, records', stored, unsaved)
  <2>1. Own(r) = NoRef /\ Own(q) = r.id
    BY <1>1, <1>4 DEF Own, Same
  <2>2. \A m \in CachedIn(cache) :
          One(Own(q) = m) = One(Own(r) = m) + (IF m = r.id THEN 1 ELSE 0)
    BY <2>1, CacheAssumption DEF One, CachedIn
  <2>3. /\ HeapSound(cache, records, stored, unsaved)
        /\ Ledger(Own(r), Got(r), cache, records, stored, unsaved)
        /\ 1 \in Int
    BY BookFacts
  <2>4. \A m \in CachedIn(cache) :
          Counted(m, cache, records') = Counted(m, cache, records) + (IF m = r.id THEN 1 ELSE 0)
    BY <1>5
  <2> HIDE DEF q, r
  <2>5. Ledger(Own(q), Got(r), cache, records', stored, unsaved)
    BY <2>2, <2>3, <2>4, LedgerCounts
  <2> QED BY <1>6, <2>5
<1>8. HeapSound(cache, records', stored, unsaved)
  BY <1>5, HeapCounted, BookFacts
<1>9. ListOf(Listed(q, cache, records'), LRUList, cache, records')
  <2>1. \A m \in CachedIn(cache) : Counted(m, cache, records) \in Nat
    BY HeldCounts, BookFacts
  <2>2. Listed(r, cache, records) = {m \in CachedIn(cache) : Counted(m, cache, records) = 0}
    BY <1>1 DEF Listed, Leaving, Absent
  <2>3. Listed(q, cache, records')
          = {m \in CachedIn(cache) : \/ Counted(m, cache, records') = 0
                                     \/ q.pc \in Leaving /\ m = q.id}
    BY <1>4 DEF Listed, Absent
  <2>4. q.pc \in Leaving <=> Counted(r.id, cache, records) = 0
    BY <1>3, <1>4 DEF Leaving
  <2>5. Listed(q, cache, records') = Listed(r, cache, records)
    <3>1. q.id = r.id
      BY <1>4 DEF Same
    <3>2. ASSUME NEW m \in CachedIn(cache)
          PROVE  Counted(m, cache, records') = 0 \/ (q.pc \in Leaving /\ m = q.id)
                   <=> Counted(m, cache, records) = 0
      BY <1>5, <2>1, <2>4, <3>1
    <3> QED BY <2>2, <2>3, <3>2
  <2>6. \A m \in Listed(q, cache, records') :
          SerialIn(m, cache, records') = SerialIn(m, cache, records)
    BY <1>5, <2>3
  <2> QED BY <2>5, <2>6, ListStays, BookFacts
<1>10. SlotsSound(q, slotLocks, locks) /\ Frames(q, cache, slotLocks)
  <2>1. r.pc \in Owning /\ q.pc \in Owning \ {"loadRow", "addRead"}
    BY <1>1, <1>4 DEF Owning
  <2>2. q.id = r.id /\ q.outer = r.outer
    BY <1>4 DEF Same
  <2> QED BY <2>1, <2>2, SlotsStay, StaysWith, BookFacts
<1>11. StepSound(q, cache, LRUList, slotLocks, records')
  <2>1. slotLocks[r.id] = r.lock
    BY <1>1 DEF StepSound, Owning
  <2>2. pc \in {"getUnlist", "getSerial"} =>
          \A m \in CachedIn(cache) : SerialIn(m, cache, records') # r.serial
    BY <1>1, <1>3, <1>5 DEF StepSound
  <2> QED BY <1>1, <1>4, <1>6, <2>1, <2>2 DEF StepSound, Same
<1>12. LimitKept(q, LRUList)
  BY <1>1, <1>4, BookFacts DEF LimitKept, Exceeding, Calling, One
<1> QED BY <1>2, <1>6, <1>7, <1>8, <1>9, <1>10, <1>11, <1>12 DEF BooksNow, Books

\* The message leaves LRUList, and gets a new serial.
LEMMA GetUnlistBooks ==
  ASSUME NEW name, TypedWith(name), NEW t \in Process, BooksNow(t), GetUnlist(t)
  PROVE  BooksNow(t)'
<1> DEFINE r == th[t]
           q == th'[t]
<1>1. /\ r.pc = "getUnlist" /\ r.id \in CachedIn(cache) /\ r.rec = cache[r.id]
      /\ StepSound(r, cache, LRUList, slotLocks, records)
  BY BookFacts DEF GetUnlist, At, StepSound, Knowing
<1>2. /\ DOMAIN LRUList' = DOMAIN LRUList \ {SerialIn(r.id, cache, records)}
      /\ \A k \in DOMAIN LRUList' : LRUList'[k] = LRUList[k]
      /\ Goto(t, "getSerial")
      /\ UNCHANGED <<cache, slotLocks, serial, records, locks, stored, unsaved>>
  BY <1>1 DEF GetUnlist, Unlist, callVars, SerialIn
<1>3. /\ q.pc = "getSerial" /\ Same(q, r) /\ q.lock = r.lock /\ q.rec = r.rec
      /\ q.serial = r.serial /\ q.exceeded = r.exceeded
  BY <1>2, Went
<1>4. CallSound(q, stored, unsaved) /\ Got(q) = Got(r)
  <2>1. q.pc \in Calling /\ r.pc \in Calling /\ q.pc \notin Seeking
    BY <1>1, <1>3 DEF Calling, Seeking
  <2> QED BY <1>3, <2>1, CallGoesOn, BookFacts
<1>5. Own(q) = Own(r) /\ Own(r) = r.id
  BY <1>1, <1>3 DEF Own, Same
<1>6. Listed(q, cache, records) = Listed(r, cache, records) \ {r.id}
      /\ r.id \in Listed(r, cache, records)
  <2>1. Counted(r.id, cache, records) # 0
    BY <1>1, <1>5, HeldCounts, BookFacts
  <2> QED BY <1>1, <1>3, <2>1 DEF Listed, Leaving, Absent
<1>7. LimitKept(r, LRUList)
  BY BookFacts
<1>8. /\ ListOf(Listed(q, cache, records), LRUList', cache, records)
      /\ IsFiniteSet(DOMAIN LRUList')
      /\ Cardinality(DOMAIN LRUList') = Cardinality(DOMAIN LRUList) - 1
  <2> HIDE DEF q, r
  <2>1. ListOf(Listed(r, cache, records), LRUList, cache, records)
    BY BookFacts DEF r
  <2>2. IsFiniteSet(DOMAIN LRUList)
    BY <1>7 DEF LimitKept
  <2> QED BY <1>2, <1>6, <2>1, <2>2, Unlisted
<1>9. LimitKept(q, LRUList')
  <2>1. Cardinality(DOMAIN LRUList) \in Nat
    BY <1>7, FS_CardinalityType DEF LimitKept
  <2> QED BY <1>1, <1>3, <1>7, <1>8, <2>1, CacheAssumption
          DEF LimitKept, Exceeding, Calling, One
<1>10. SlotsSound(q, slotLocks, locks) /\ Frames(q, cache, slotLocks)
  <2>1. r.pc \in Owning /\ q.pc \in Owning \ {"loadRow", "addRead"}
    BY <1>1, <1>3 DEF Owning
  <2>2. q.id = r.id /\ q.outer = r.outer
    BY <1>3 DEF Same
  <2> QED BY <2>1, <2>2, SlotsStay, StaysWith, BookFacts
<1>11. StepSound(q, cache, LRUList', slotLocks, records)
  <2>1. slotLocks[r.id] = r.lock
    BY <1>1 DEF StepSound, Owning
  <2>2. \A m \in CachedIn(cache) : SerialIn(m, cache, records) # r.serial
    BY <1>1 DEF StepSound
  <2> QED BY <1>1, <1>3, <1>4, <2>1, <2>2 DEF StepSound, Same
<1> QED BY <1>2, <1>4, <1>5, <1>8, <1>9, <1>10, <1>11, BookFacts DEF BooksNow, Books

LEMMA GetSerialBooks ==
  ASSUME NEW name, TypedWith(name), NEW t \in Process, BooksNow(t), GetSerial(t)
  PROVE  BooksNow(t)'
<1> DEFINE r == th[t]
           q == th'[t]
<1>1. /\ r.pc = "getSerial" /\ r.id \in CachedIn(cache) /\ r.rec = cache[r.id]
      /\ StepSound(r, cache, LRUList, slotLocks, records)
      /\ r.serial \in Nat \ {0}
  <2>1. r.pc = "getSerial"
    BY DEF GetSerial, At
  <2>2. r.serial \in 0..serial /\ serial \in Nat /\ r.serial # 0
    BY <2>1, BookFacts DEF States, Shape
  <2> QED BY <2>1, <2>2, BookFacts DEF StepSound, Knowing
<1>2. /\ NewSerial(cache[r.id], r.serial) /\ Goto(t, "invalidate")
      /\ UNCHANGED <<cache, LRUList, slotLocks, serial, locks, stored, unsaved>>
  BY <1>1 DEF GetSerial, NewSerial, callVars
<1>3. /\ q.pc = "invalidate" /\ Same(q, r) /\ q.lock = r.lock /\ q.rec = r.rec
      /\ q.exceeded = r.exceeded
  BY <1>2, Went
<1>4. CallSound(q, stored, unsaved) /\ Got(q) = Got(r)
  <2>1. q.pc \in Calling /\ r.pc \in Calling /\ q.pc \notin Seeking
    BY <1>1, <1>3 DEF Calling, Seeking
  <2> QED BY <1>3, <2>1, CallGoesOn, BookFacts
<1>5. Own(q) = Own(r) /\ Own(r) = r.id
  BY <1>1, <1>3 DEF Own, Same
<1>6. \A m \in CachedIn(cache) :
        /\ Counted(m, cache, records') = Counted(m, cache, records)
        /\ SerialIn(m, cache, records')
             = IF m = r.id THEN r.serial ELSE SerialIn(m, cache, records)
        /\ records'[cache[m]].message = records[cache[m]].message
        /\ records'[cache[m]].ref = records[cache[m]].ref
  BY <1>1, <1>2, OneSerial, BookFacts
<1>7. \A m \in CachedIn(cache) : SerialIn(m, cache, records) # r.serial
  BY <1>1 DEF StepSound
<1>8. HeapSound(cache, records', stored, unsaved)
  <2>1. HeapSound(cache, records, stored, unsaved)
    BY BookFacts
  <2>2. \A m, n \in CachedIn(cache) :
          SerialIn(m, cache, records') = SerialIn(n, cache, records') => m = n
    BY <1>6, <1>7, <2>1 DEF HeapSound
  <2> QED BY <1>6, <2>1, <2>2, HeapStays
<1>9. Ledger(Own(q), Got(q), cache, records', stored, unsaved)
  BY <1>4, <1>5, <1>6, BookFacts DEF Ledger
<1>10. ListOf(Listed(q, cache, records'), LRUList, cache, records')
  <2>1. Counted(r.id, cache, records) # 0
    BY <1>1, <1>5, HeldCounts, BookFacts
  <2>2. /\ Listed(r, cache, records) = {m \in CachedIn(cache) : Counted(m, cache, records) = 0}
        /\ Listed(q, cache, records') = {m \in CachedIn(cache) : Counted(m, cache, records') = 0}
    BY <1>1, <1>3 DEF Listed, Leaving, Absent
  <2>3. Listed(q, cache, records') = Listed(r, cache, records)
    BY <1>6, <2>2
  <2>4. \A m \in Listed(r, cache, records) :
          SerialIn(m, cache, records') = SerialIn(m, cache, records)
    BY <1>6, <2>1, <2>2
  <2> QED BY <2>3, <2>4, ListStays, BookFacts
<1>11. SlotsSound(q, slotLocks, locks) /\ Frames(q, cache, slotLocks)
  <2>1. r.pc \in Owning /\ q.pc \in Owning \ {"loadRow", "addRead"}
    BY <1>1, <1>3 DEF Owning
  <2>2. q.id = r.id /\ q.outer = r.outer
    BY <1>3 DEF Same
  <2> QED BY <2>1, <2>2, SlotsStay, StaysWith, BookFacts
<1>12. StepSound(q, cache, LRUList, slotLocks, records')
  <2>1. slotLocks[r.id] = r.lock
    BY <1>1 DEF StepSound, Owning
  <2> QED BY <1>1, <1>3, <1>4, <2>1 DEF StepSound, Same
<1>13. LimitKept(q, LRUList)
  BY <1>1, <1>3, BookFacts DEF LimitKept, Exceeding, Calling, One
<1> QED BY <1>2, <1>4, <1>8, <1>9, <1>10, <1>11, <1>12, <1>13 DEF BooksNow, Books
---------------------------------------------------------------------------
(* The frames of recursiveAddAndGet.                                        *)

LEMMA FrameTypes ==
  ASSUME NEW name, TypedWith(name), NEW t \in Process
  PROVE  /\ th[t].outer \in Seq([id : Message, lock : 1..Len(locks)])
         /\ Len(th[t].outer) \in Nat
         /\ \A k \in 1..Len(th[t].outer) : /\ th[t].outer[k].id \in Message
                                           /\ th[t].outer[k].id \in Identifier
                                           /\ th[t].outer[k].lock \in 1..Len(locks)
<1> DEFINE frames == th[t].outer
<1>1. frames \in Seq([id : Message, lock : 1..Len(locks)])
  BY ThreadFacts DEF States
<1>2. Len(frames) \in Nat
      /\ \A k \in 1..Len(frames) : frames[k] \in [id : Message, lock : 1..Len(locks)]
  BY <1>1, ElementOfSeq, LenProperties
<1> QED BY <1>1, <1>2 DEF Identifier

\* The slots and the messages of the frames stay as they are.
LEMMA FramesElsewhere ==
  ASSUME NEW r, NEW ca, NEW sl, Frames(r, ca, sl), NEW ca2, NEW sl2,
         \A k \in 1..Len(r.outer) : /\ ca2[r.outer[k].id] = ca[r.outer[k].id]
                                    /\ sl2[r.outer[k].id] = sl[r.outer[k].id]
  PROVE  Frames(r, ca2, sl2)
<1> HIDE DEF Owning
<1> QED BY DEF Frames

LEMMA FramePushed ==
  ASSUME NEW r, NEW ca, NEW sl, Frames(r, ca, sl), r.pc \in Owning, ca[r.id] = null,
         NEW S, r.outer \in Seq(S), NEW frame \in S, frame.id = r.id, frame.lock = sl[r.id],
         NEW q, q.pc \notin Owning, q.id = RefOf[r.id], q.outer = Append(r.outer, frame)
  PROVE  Frames(q, ca, sl) /\ Claims(q) = Claims(r) /\ Bottom(q) = Bottom(r)
<1>1. /\ Len(r.outer) \in Nat /\ Len(q.outer) = Len(r.outer) + 1
      /\ q.outer[Len(r.outer) + 1] = frame
      /\ \A k \in 1..Len(r.outer) : q.outer[k] = r.outer[k]
      /\ q.outer # <<>> /\ (r.outer = <<>> <=> Len(r.outer) = 0)
  <2>1. q.outer # <<>>
    BY AppendProperties, LenProperties
  <2>2. r.outer = <<>> <=> Len(r.outer) = 0
    BY EmptySeq
  <2> QED BY <2>1, <2>2, AppendProperties, LenProperties
<1>2. /\ \A k \in 1..Len(r.outer) :
           /\ ca[r.outer[k].id] = null /\ sl[r.outer[k].id] = r.outer[k].lock
           /\ k = Len(r.outer) => RefOf[r.outer[k].id] = r.id
           /\ k # Len(r.outer) => RefOf[r.outer[k].id] = r.outer[k + 1].id
           /\ r.outer[k].id # r.id
      /\ \A j, k \in 1..Len(r.outer) : j # k => r.outer[j].id # r.outer[k].id
  BY DEF Frames
<1>3. Claims(q) = {q.outer[k].id : k \in 1..Len(q.outer)}
      /\ Claims(r) = {r.outer[k].id : k \in 1..Len(r.outer)} \cup {r.id}
  BY DEF Claims
<1>4. ASSUME NEW k \in 1..Len(q.outer)
      PROVE  /\ ca[q.outer[k].id] = null
             /\ sl[q.outer[k].id] = q.outer[k].lock
             /\ RefOf[q.outer[k].id] = IF k = Len(q.outer) THEN q.id ELSE q.outer[k + 1].id
             /\ q.outer[k].id \in Claims(r)
  <2>1. CASE k = Len(r.outer) + 1
    <3>1. q.outer[k] = frame /\ k = Len(q.outer)
      BY <1>1, <2>1
    <3> QED BY <1>3, <3>1
  <2>2. CASE k = Len(r.outer) /\ k \in 1..Len(r.outer)
    <3>1. /\ q.outer[k] = r.outer[k] /\ q.outer[k + 1] = frame /\ k # Len(q.outer)
          /\ RefOf[r.outer[k].id] = r.id
      BY <1>1, <1>2, <2>2
    <3> QED BY <1>2, <1>3, <2>2, <3>1
  <2>3. CASE k # Len(r.outer) /\ k \in 1..Len(r.outer)
    <3>1. k + 1 \in 1..Len(r.outer) /\ k # Len(q.outer)
      BY <1>1, <2>3
    <3>2. q.outer[k] = r.outer[k] /\ q.outer[k + 1] = r.outer[k + 1]
      BY <1>1, <2>3, <3>1
    <3>3. RefOf[r.outer[k].id] = r.outer[k + 1].id
      BY <1>2, <2>3
    <3> QED BY <1>2, <1>3, <2>3, <3>1, <3>2, <3>3
  <2> QED BY <1>1, <2>1, <2>2, <2>3
<1>5. ASSUME NEW j \in 1..Len(q.outer), NEW k \in 1..Len(q.outer), j # k
      PROVE  q.outer[j].id # q.outer[k].id
  <2>1. CASE j # Len(q.outer) /\ k # Len(q.outer)
    <3>1. j \in 1..Len(r.outer) /\ k \in 1..Len(r.outer)
      BY <1>1, <2>1
    <3> QED BY <1>1, <1>2, <1>5, <3>1
  <2>2. CASE j # Len(q.outer) /\ k = Len(q.outer)
    <3>1. j \in 1..Len(r.outer) /\ q.outer[k] = frame
      BY <1>1, <2>2
    <3> QED BY <1>1, <1>2, <3>1
  <2>3. CASE j = Len(q.outer) /\ k # Len(q.outer)
    <3>1. k \in 1..Len(r.outer) /\ q.outer[j] = frame
      BY <1>1, <2>3
    <3> QED BY <1>1, <1>2, <3>1
  <2> QED BY <1>5, <2>1, <2>2, <2>3
<1>6. Frames(q, ca, sl)
  <2> HIDE DEF Owning
  <2> QED BY <1>4, <1>5 DEF Frames
<1>7. Claims(q) = Claims(r)
  <2>1. \A k \in 1..Len(r.outer) : k \in 1..Len(q.outer) /\ q.outer[k] = r.outer[k]
    BY <1>1
  <2>2. Len(q.outer) \in 1..Len(q.outer) /\ q.outer[Len(q.outer)] = frame
    BY <1>1
  <2>3. Claims(r) \subseteq Claims(q)
    BY <1>3, <2>1, <2>2
  <2> QED BY <1>3, <1>4, <2>3
<1>8. Bottom(q) = Bottom(r)
  <2>1. CASE r.outer = <<>>
    BY <1>1, <2>1 DEF Bottom
  <2>2. CASE r.outer # <<>>
    <3>1. 1 \in 1..Len(r.outer)
      BY <1>1, <2>2
    <3> QED BY <1>1, <2>2, <3>1 DEF Bottom
  <2> QED BY <2>1, <2>2
<1> QED BY <1>6, <1>7, <1>8

LEMMA FramePopped ==
  ASSUME NEW r, NEW ca, NEW sl, Frames(r, ca, sl), NEW S, r.outer \in Seq(S),
         r.outer # <<>>, NEW q, q.id = Last(r.outer).id, q.outer = Front(r.outer)
  PROVE  /\ Frames(q, ca, sl) /\ Bottom(q) = Bottom(r)
         /\ ca[q.id] = null /\ sl[q.id] = Last(r.outer).lock /\ RefOf[q.id] = r.id
         /\ Claims(q) \subseteq {r.outer[k].id : k \in 1..Len(r.outer)}
         /\ q.pc \in Owning => {r.outer[k].id : k \in 1..Len(r.outer)} \subseteq Claims(q)
<1> DEFINE frames == r.outer
<1>1. /\ Len(frames) \in Nat /\ Len(frames) >= 1 /\ Last(frames) = frames[Len(frames)]
      /\ Len(Front(frames)) = Len(frames) - 1 /\ Front(frames) \in Seq(S)
      /\ \A k \in 1..(Len(frames) - 1) : Front(frames)[k] = frames[k]
  <2> HIDE DEF frames
  <2> QED BY FrontFacts DEF frames
<1> HIDE DEF frames
<1>2. /\ \A k \in 1..Len(frames) :
           /\ ca[frames[k].id] = null /\ sl[frames[k].id] = frames[k].lock
           /\ k = Len(frames) => RefOf[frames[k].id] = r.id
           /\ k # Len(frames) => RefOf[frames[k].id] = frames[k + 1].id
      /\ \A j, k \in 1..Len(frames) : j # k => frames[j].id # frames[k].id
  BY DEF Frames, frames
<1>3. /\ Len(frames) \in 1..Len(frames) /\ q.id = frames[Len(frames)].id
      /\ q.outer = Front(frames) /\ Last(frames).lock = frames[Len(frames)].lock
  BY <1>1 DEF frames
<1>4. /\ Len(q.outer) = Len(frames) - 1
      /\ \A k \in 1..Len(q.outer) : q.outer[k] = frames[k] /\ k \in 1..Len(frames)
  BY <1>1, <1>3
<1>5. ca[q.id] = null /\ sl[q.id] = Last(frames).lock /\ RefOf[q.id] = r.id
  BY <1>2, <1>3
<1>6. Frames(q, ca, sl)
  <2>1. ASSUME NEW k \in 1..Len(q.outer)
        PROVE  /\ ca[q.outer[k].id] = null
               /\ sl[q.outer[k].id] = q.outer[k].lock
               /\ RefOf[q.outer[k].id] = IF k = Len(q.outer) THEN q.id ELSE q.outer[k + 1].id
               /\ q.outer[k].id # q.id
    <3>1. /\ ca[frames[k].id] = null /\ sl[frames[k].id] = frames[k].lock
          /\ RefOf[frames[k].id] = frames[k + 1].id
          /\ frames[k].id # frames[Len(frames)].id
      <4>1. k \in 1..Len(frames) /\ k # Len(frames)
        BY <1>1, <1>4
      <4> QED BY <1>2, <1>3, <4>1
    <3>2. CASE k = Len(q.outer)
      <4>1. k + 1 = Len(frames)
        BY <1>1, <1>4, <3>2
      <4> QED BY <1>3, <1>4, <3>1, <3>2, <4>1
    <3>3. CASE k # Len(q.outer)
      <4>1. k + 1 \in 1..Len(q.outer)
        BY <1>1, <1>4, <3>3
      <4> QED BY <1>3, <1>4, <3>1, <3>3, <4>1
    <3> QED BY <3>2, <3>3
  <2>2. \A j, k \in 1..Len(q.outer) : j # k => q.outer[j].id # q.outer[k].id
    <3> SUFFICES ASSUME NEW j \in 1..Len(q.outer), NEW k \in 1..Len(q.outer), j # k
                 PROVE  q.outer[j].id # q.outer[k].id
      OBVIOUS
    <3> QED BY <1>2, <1>4
  <2> HIDE DEF Owning
  <2> QED BY <2>1, <2>2 DEF Frames
<1>7. /\ Claims(q) \subseteq {frames[k].id : k \in 1..Len(frames)}
      /\ q.pc \in Owning => {frames[k].id : k \in 1..Len(frames)} \subseteq Claims(q)
  <2>1. ASSUME NEW k \in 1..Len(frames), q.pc \in Owning PROVE frames[k].id \in Claims(q)
    <3>1. CASE k = Len(frames)
      BY <1>3, <2>1, <3>1 DEF Claims
    <3>2. CASE k # Len(frames)
      <4>1. k \in 1..Len(q.outer) /\ q.outer[k] = frames[k]
        BY <1>1, <1>4, <3>2
      <4> QED BY <4>1 DEF Claims
    <3> QED BY <3>1, <3>2
  <2> HIDE DEF Owning
  <2> QED BY <1>3, <1>4, <2>1 DEF Claims
<1>8. Bottom(q) = Bottom(r)
  <2>1. CASE Len(frames) = 1
    <3>1. q.outer = <<>>
      BY <1>1, <1>3, <1>4, <2>1, EmptySeq
    <3> QED BY <1>3, <2>1, <3>1 DEF Bottom, frames
  <2>2. CASE Len(frames) # 1
    <3>1. 1 \in 1..Len(q.outer)
      BY <1>1, <1>4, <2>2
    <3>2. q.outer # <<>> /\ q.outer[1] = frames[1]
      BY <1>3, <1>4, <3>1
    <3> QED BY <3>2 DEF Bottom, frames
  <2> QED BY <2>1, <2>2
<1> QED BY <1>5, <1>6, <1>7, <1>8 DEF frames
---------------------------------------------------------------------------
(* The steps that load and add.                                             *)

Unreferenced(ca, rs) == {m \in CachedIn(ca) : Counted(m, ca, rs) = 0}

\* What must hold when the call returns.
LEMMA IdleBooks ==
  ASSUME NEW ca, NEW lru, NEW sl, NEW rs, NEW lk, NEW st, NEW un,
         Ledger(NoRef, NoRef, ca, rs, st, un),
         ListOf(Unreferenced(ca, rs), lru, ca, rs), HeapSound(ca, rs, st, un),
         \A i \in Identifier : sl[i] # null => i \in Unknown /\ LoadLock(lk[sl[i]]),
         IsFiniteSet(DOMAIN lru), Cardinality(DOMAIN lru) <= SizeLimit
  PROVE  Books(Idle, ca, lru, sl, rs, lk, st, un)
<1>1. /\ Idle.pc = "idle" /\ Idle.outer = <<>> /\ Idle.op = "none" /\ Idle.exceeded = FALSE
      /\ Len(Idle.outer) = 0
  BY EmptySeq DEF Idle
<1>2. Own(Idle) = NoRef /\ Got(Idle) = NoRef
  BY <1>1 DEF Own, Got, Adding, Calling
<1>3. Listed(Idle, ca, rs) = Unreferenced(ca, rs)
  BY <1>1 DEF Listed, Leaving, Absent, Unreferenced
<1>4. SlotsSound(Idle, sl, lk)
  BY DEF SlotsSound
<1>5. LimitKept(Idle, lru)
  <2>1. Cardinality(DOMAIN lru) \in Nat
    BY FS_CardinalityType
  <2> QED BY <1>1, <2>1, CacheAssumption DEF LimitKept, Calling, Exceeding, One
<1>6. CallSound(Idle, st, un) /\ Frames(Idle, ca, sl)
  BY <1>1 DEF CallSound, Seeking, Calling, Frames
<1>7. StepSound(Idle, ca, lru, sl, rs)
  BY <1>1, <1>2 DEF StepSound, Knowing, Owning, Waiting
<1> QED BY <1>2, <1>3, <1>4, <1>5, <1>6, <1>7 DEF Books

LEMMA LoadRowBooks ==
  ASSUME NEW name, TypedWith(name), NEW t \in Process, BooksNow(t), LoadRow(t)
  PROVE  BooksNow(t)'
<1> DEFINE r == th[t]
           q == th'[t]
<1>1. /\ r.pc = "loadRow" /\ r \in States(Len(locks), Len(records), serial)
      /\ StepSound(r, cache, LRUList, slotLocks, records) /\ LimitKept(r, LRUList)
      /\ CallSound(r, stored, unsaved) /\ HeapSound(cache, records, stored, unsaved)
      /\ SlotsSound(r, slotLocks, locks)
      /\ UNCHANGED <<cache, LRUList, slotLocks, serial, records, locks, stored, unsaved>>
  BY BookFacts DEF LoadRow, At, callVars
<1>2. Own(r) = NoRef /\ r.outer = <<>> /\ cache[r.id] = null
  BY <1>1 DEF Own, CallSound, Seeking, StepSound
<1>3. CASE r.id \in stored
  <2>1. q = [r EXCEPT !.pc = "addRead", !.loaded = TRUE]
    BY <1>3, Became DEF LoadRow
  <2>2. /\ q.pc = "addRead" /\ Same(q, r) /\ q.exceeded = r.exceeded /\ q.lock = r.lock
    BY <1>1, <2>1 DEF States, Same
  <2>3. CallSound(q, stored, unsaved) /\ Got(q) = Got(r)
    <3>1. q.pc \in Calling /\ r.pc \in Calling /\ q.pc \notin Seeking
      BY <1>1, <2>2 DEF Calling, Seeking
    <3> QED BY <1>1, <2>2, <3>1, CallGoesOn
  <2>4. SlotsSound(q, slotLocks, locks) /\ Frames(q, cache, slotLocks)
    <3>1. r.pc \in Owning /\ q.pc \in Owning /\ r.pc \notin Owning \ {"loadRow", "addRead"}
      BY <1>1, <2>2 DEF Owning
    <3>2. q.id = r.id /\ q.outer = r.outer
      BY <2>2 DEF Same
    <3> QED BY <3>1, <3>2, SlotsStay, StaysWith, BookFacts
  <2>5. StepSound(q, cache, LRUList, slotLocks, records)
    BY <1>1, <2>2, <2>3 DEF StepSound, Same, Knowing, Owning
  <2>6. Own(q) = Own(r) /\ LimitKept(q, LRUList)
        /\ r.pc \notin Leaving \cup Absent /\ q.pc \notin Leaving \cup Absent
    BY <1>1, <1>2, <2>2 DEF Own, LimitKept, Exceeding, Calling, One, Leaving, Absent
  <2> QED BY <1>1, <2>3, <2>4, <2>5, <2>6, QuietBooks, BookFacts DEF BooksNow
<1>4. CASE r.id \notin stored
  <2>1. q = Idle
    BY <1>4, Became DEF LoadRow
  <2>2. r.id \in Unknown
    <3>1. r.id \in stored \cup unsaved \cup Unknown
      BY <1>1 DEF CallSound, Seeking
    <3>2. unsaved \subseteq CachedIn(cache)
      BY <1>1 DEF HeapSound
    <3> QED BY <1>2, <1>4, <3>1, <3>2 DEF CachedIn
  <2>3. Got(r) = NoRef
    <3> SUFFICES ASSUME Adding(r) PROVE FALSE
      BY DEF Got
    <3>1. r.target = r.id /\ r.target \in Message
      BY <1>2, BookFacts DEF Adding, Bottom, Shape
    <3> QED BY <2>2, <3>1, CacheAssumption
  <2>4. \A i \in Identifier : slotLocks[i] # null =>
          i \in Unknown /\ LoadLock(locks[slotLocks[i]])
    <3>1. Claims(r) \subseteq {r.id}
      <4>1. Len(r.outer) = 0
        BY <1>2, EmptySeq
      <4> QED BY <4>1 DEF Claims
    <3> QED BY <1>1, <2>2, <3>1 DEF SlotsSound
  <2>5. Listed(r, cache, records) = Unreferenced(cache, records)
    BY <1>1 DEF Listed, Leaving, Absent, Unreferenced
  <2>6. IsFiniteSet(DOMAIN LRUList) /\ Cardinality(DOMAIN LRUList) <= SizeLimit
    <3>1. Cardinality(DOMAIN LRUList) \in Nat
      BY <1>1, FS_CardinalityType DEF LimitKept
    <3> QED BY <1>1, <3>1, CacheAssumption DEF LimitKept, Exceeding, One
  <2> QED BY <1>1, <1>2, <2>1, <2>3, <2>4, <2>5, <2>6, IdleBooks, BookFacts DEF BooksNow
<1> QED BY <1>3, <1>4

LEMMA ShownLoads ==
  ASSUME NEW R \in Nat, locks \in Seq(LockType(R)), NEW l \in 1..Len(locks),
         NEW x \in {null} \cup 1..R, ShowRecord(l, x)
  PROVE  \A k \in 1..Len(locks) : LoadLock(locks[k]) => LoadLock(locks'[k])
<1>1. /\ \A k \in 1..Len(locks) : /\ locks'[k].lockState = locks[k].lockState
                                  /\ k # l => locks'[k] = locks[k]
      /\ locks'[l].alreadyInvalid = locks[l].alreadyInvalid
  BY LockChanges
<1> QED BY <1>1 DEF LoadLock

LEMMA AddReadBooks ==
  ASSUME NEW name, TypedWith(name), NEW t \in Process, BooksNow(t), AddRead(t)
  PROVE  BooksNow(t)'
<1> DEFINE r == th[t]
           q == th'[t]
<1>1. /\ r.pc = "addRead" /\ r \in States(Len(locks), Len(records), serial)
      /\ StepSound(r, cache, LRUList, slotLocks, records) /\ LimitKept(r, LRUList)
      /\ CallSound(r, stored, unsaved) /\ Frames(r, cache, slotLocks)
      /\ SlotsSound(r, slotLocks, locks) /\ r.id \in Message /\ r.id \in Identifier
      /\ UNCHANGED <<cache, LRUList, slotLocks, serial, records, stored, unsaved>>
  BY BookFacts DEF AddRead, At, callVars, Shape, OfMessage, Identifier
<1>2. Own(r) = NoRef /\ slotLocks[r.id] = r.lock /\ r.pc \in Owning /\ r.pc \in Calling
      /\ r.lock \in 1..Len(locks) /\ r.pc \notin Leaving \cup Absent
  <2>1. r.pc \in Owning
    BY <1>1 DEF Owning
  <2> QED BY <1>1, <2>1, BookFacts, PCFacts DEF Own, StepSound, Calling, Leaving, Absent
<1>3. CASE cache[r.id] # null
  <2>1. /\ ShowRecord(r.lock, cache[r.id])
        /\ q = [r EXCEPT !.pc = "addInc", !.rec = cache[r.id],
                         !.stray = r.loaded /\ r.outer = <<>>]
    BY <1>3, Became DEF AddRead, Found, ShowRecord
  <2>2. /\ q.pc = "addInc" /\ Same(q, r) /\ q.exceeded = r.exceeded /\ q.lock = r.lock
        /\ q.rec = cache[r.id]
    BY <1>1, <2>1 DEF States, Same
  <2>3. \A l \in 1..Len(locks) : LoadLock(locks[l]) => LoadLock(locks'[l])
    <3>1. /\ cache[r.id] \in {null} \cup 1..Len(records)
          /\ locks \in Seq(LockType(Len(records))) /\ Len(records) \in Nat
      BY <1>1, BookFacts DEF HeapOK
    <3> HIDE DEF r, q
    <3> QED BY <1>2, <2>1, <3>1, ShownLoads
  <2>4. CallSound(q, stored, unsaved) /\ Got(q) = Got(r)
    <3>1. q.pc \in Calling /\ q.pc \notin Seeking
      BY <2>2 DEF Calling, Seeking
    <3> QED BY <1>1, <1>2, <2>2, <3>1, CallGoesOn
  <2>5. SlotsSound(q, slotLocks, locks') /\ Frames(q, cache, slotLocks)
    <3>1. q.pc \in Owning \ {"loadRow", "addRead"} /\ q.id = r.id /\ q.outer = r.outer
      BY <2>2 DEF Owning, Same
    <3>2. \A i \in Identifier : slotLocks[i] # null => slotLocks[i] \in 1..Len(locks)
      BY BookFacts DEF HeapOK
    <3> QED BY <1>1, <1>2, <2>3, <3>1, <3>2, SlotsStay, StaysWith
  <2>6. StepSound(q, cache, LRUList, slotLocks, records)
    <3>1. r.id \in CachedIn(cache)
      BY <1>1, <1>3 DEF CachedIn
    <3> QED BY <1>1, <1>2, <2>2, <2>4, <3>1 DEF StepSound, Same
  <2>7. Own(q) = Own(r) /\ LimitKept(q, LRUList) /\ q.pc \notin Leaving \cup Absent
    BY <1>1, <1>2, <2>2 DEF Own, LimitKept, Exceeding, Calling, One, Leaving, Absent
  <2> QED BY <1>1, <1>2, <2>4, <2>5, <2>6, <2>7, QuietBooks, BookFacts DEF BooksNow
<1>4. CASE cache[r.id] = null /\ RefOf[r.id] # NoRef
  <2> DEFINE S == [id : Message, lock : 1..Len(locks)]
             frame == [id |-> r.id, lock |-> r.lock]
  <2>1. /\ UNCHANGED locks
        /\ q = [r EXCEPT !.pc = "addSlot", !.id = RefOf[r.id],
                         !.outer = Append(r.outer, frame)]
    BY <1>4, Became DEF AddRead, Found
  <2>2. /\ q.pc = "addSlot" /\ q.id = RefOf[r.id] /\ q.outer = Append(r.outer, frame)
        /\ q.op = r.op /\ q.target = r.target /\ q.exceeded = r.exceeded
    BY <1>1, <2>1 DEF States
  <2>3. r.outer \in Seq(S) /\ frame \in S /\ frame.id = r.id /\ frame.lock = slotLocks[r.id]
    BY <1>1, <1>2, FrameTypes
  <2> HIDE DEF S, frame
  <2>4. /\ Frames(q, cache, slotLocks) /\ Claims(q) = Claims(r) /\ Bottom(q) = Bottom(r)
        /\ q.pc \notin Owning \cup Waiting
    <3>1. q.pc \notin Owning \cup Waiting
      BY <2>2 DEF Owning, Waiting
    <3> HIDE DEF q, r
    <3> QED BY <1>1, <1>2, <1>4, <2>2, <2>3, <3>1, FramePushed
  <2>5. CallSound(q, stored, unsaved) /\ Got(q) = Got(r)
    <3>1. q.pc \in Calling /\ q.pc \notin Seeking
      BY <2>2 DEF Calling, Seeking
    <3> HIDE DEF q, r, Calling, Seeking
    <3> QED BY <1>1, <1>2, <2>2, <2>4, <3>1 DEF CallSound, Got, Adding
  <2>6. SlotsSound(q, slotLocks, locks)
    <3>1. r.pc \notin Owning \ {"loadRow", "addRead"}
      BY <1>1
    <3> QED BY <1>1, <2>4, <3>1 DEF SlotsSound
  <2>7. StepSound(q, cache, LRUList, slotLocks, records)
    BY <1>1, <2>2, <2>4, <2>5 DEF StepSound, Knowing
  <2>8. Own(q) = Own(r) /\ LimitKept(q, LRUList) /\ q.pc \notin Leaving \cup Absent
    BY <1>1, <1>2, <2>2 DEF Own, LimitKept, Exceeding, Calling, One, Leaving, Absent
  <2> QED BY <1>1, <1>2, <2>1, <2>4, <2>5, <2>6, <2>7, <2>8, QuietBooks, BookFacts
          DEF BooksNow
<1>5. CASE cache[r.id] = null /\ RefOf[r.id] = NoRef
  <2>1. UNCHANGED locks /\ q = [r EXCEPT !.pc = "addPut", !.rec = null]
    BY <1>5, Became DEF AddRead, Found
  <2>2. q.pc = "addPut" /\ Same(q, r) /\ q.exceeded = r.exceeded /\ q.lock = r.lock
    BY <1>1, <2>1 DEF States, Same
  <2>3. CallSound(q, stored, unsaved) /\ Got(q) = Got(r)
    <3>1. q.pc \in Calling /\ q.pc \notin Seeking
      BY <2>2 DEF Calling, Seeking
    <3> QED BY <1>1, <1>2, <2>2, <3>1, CallGoesOn
  <2>4. SlotsSound(q, slotLocks, locks) /\ Frames(q, cache, slotLocks)
    <3>1. q.pc \in Owning \ {"loadRow", "addRead"} /\ q.id = r.id /\ q.outer = r.outer
      BY <2>2 DEF Owning, Same
    <3> QED BY <1>1, <1>2, <3>1, SlotsStay, StaysWith
  <2>5. StepSound(q, cache, LRUList, slotLocks, records)
    BY <1>1, <1>2, <1>5, <2>2, <2>3 DEF StepSound, Same, Knowing
  <2>6. Own(q) = Own(r) /\ LimitKept(q, LRUList) /\ q.pc \notin Leaving \cup Absent
    BY <1>1, <1>2, <1>5, <2>2 DEF Own, LimitKept, Exceeding, Calling, One, Leaving, Absent, Same
  <2> QED BY <1>1, <1>2, <2>1, <2>3, <2>4, <2>5, <2>6, QuietBooks, BookFacts DEF BooksNow
<1> QED BY <1>3, <1>4, <1>5

LEMMA AddUnlistBooks ==
  ASSUME NEW name, TypedWith(name), NEW t \in Process, BooksNow(t), AddUnlist(t)
  PROVE  BooksNow(t)'
<1> DEFINE r == th[t]
           q == th'[t]
           s == serial + 1
<1>1. /\ r.pc = "addUnlist" /\ r.id \in CachedIn(cache) /\ r.rec = cache[r.id]
      /\ StepSound(r, cache, LRUList, slotLocks, records) /\ LimitKept(r, LRUList)
      /\ HeapOK /\ HeapSound(cache, records, stored, unsaved) /\ s \in Nat \ {0}
  BY BookFacts DEF AddUnlist, At, StepSound, Knowing
<1>2. /\ DOMAIN LRUList' = DOMAIN LRUList \ {SerialIn(r.id, cache, records)}
      /\ \A k \in DOMAIN LRUList' : LRUList'[k] = LRUList[k]
      /\ NewSerial(cache[r.id], s) /\ Goto(t, "invalidate")
      /\ UNCHANGED <<cache, slotLocks, locks, stored, unsaved>>
  BY <1>1 DEF AddUnlist, Unlist, callVars, SerialIn, NewSerial
<1>3. /\ q.pc = "invalidate" /\ Same(q, r) /\ q.lock = r.lock /\ q.rec = r.rec
      /\ q.exceeded = r.exceeded
  BY <1>2, Went
<1>4. CallSound(q, stored, unsaved) /\ Got(q) = Got(r)
  <2>1. q.pc \in Calling /\ r.pc \in Calling /\ q.pc \notin Seeking
    BY <1>1, <1>3 DEF Calling, Seeking
  <2> QED BY <1>3, <2>1, CallGoesOn, BookFacts
<1>5. Own(q) = Own(r) /\ Own(r) = r.id
  BY <1>1, <1>3 DEF Own, Same
<1>6. \A m \in CachedIn(cache) :
        /\ Counted(m, cache, records') = Counted(m, cache, records)
        /\ SerialIn(m, cache, records') = IF m = r.id THEN s ELSE SerialIn(m, cache, records)
        /\ records'[cache[m]].message = records[cache[m]].message
        /\ records'[cache[m]].ref = records[cache[m]].ref
  <2> HIDE DEF r, s
  <2> QED BY <1>1, <1>2, OneSerial
<1>7. \A m \in CachedIn(cache) : SerialIn(m, cache, records) # s
  BY <1>1, CachedFacts, HeapFacts
<1>8. HeapSound(cache, records', stored, unsaved)
  <2>1. \A m, n \in CachedIn(cache) :
          SerialIn(m, cache, records') = SerialIn(n, cache, records') => m = n
    BY <1>1, <1>6, <1>7 DEF HeapSound
  <2> QED BY <1>1, <1>6, <2>1, HeapStays
<1>9. Ledger(Own(q), Got(q), cache, records', stored, unsaved)
  BY <1>4, <1>5, <1>6, BookFacts DEF Ledger
<1>10. Listed(q, cache, records') = Listed(r, cache, records) \ {r.id}
       /\ r.id \in Listed(r, cache, records)
  <2>1. Counted(r.id, cache, records) # 0
    BY <1>1, <1>5, HeldCounts, BookFacts
  <2>2. /\ Listed(r, cache, records)
            = {m \in CachedIn(cache) : Counted(m, cache, records) = 0 \/ m = r.id}
        /\ Listed(q, cache, records') = {m \in CachedIn(cache) : Counted(m, cache, records') = 0}
    BY <1>1, <1>3 DEF Listed, Leaving, Absent
  <2> QED BY <1>1, <1>6, <2>1, <2>2
<1>11. /\ ListOf(Listed(q, cache, records'), LRUList', cache, records')
       /\ IsFiniteSet(DOMAIN LRUList')
       /\ Cardinality(DOMAIN LRUList') = Cardinality(DOMAIN LRUList) - 1
  <2>1. /\ ListOf(Listed(r, cache, records), LRUList, cache, records)
        /\ IsFiniteSet(DOMAIN LRUList)
    BY <1>1, BookFacts DEF LimitKept
  <2>2. \A m \in Listed(r, cache, records) \ {r.id} :
          SerialIn(m, cache, records') = SerialIn(m, cache, records)
    BY <1>6 DEF Listed
  <2> HIDE DEF q, r, s
  <2>3. /\ ListOf(Listed(q, cache, records'), LRUList', cache, records)
        /\ IsFiniteSet(DOMAIN LRUList')
        /\ Cardinality(DOMAIN LRUList') = Cardinality(DOMAIN LRUList) - 1
    BY <1>2, <1>10, <2>1, Unlisted
  <2> QED BY <1>10, <2>2, <2>3, ListStays
<1>12. LimitKept(q, LRUList')
  <2>1. Cardinality(DOMAIN LRUList) \in Nat
    BY <1>1, FS_CardinalityType DEF LimitKept
  <2> QED BY <1>1, <1>3, <1>11, <2>1, CacheAssumption
          DEF LimitKept, Exceeding, Calling, One
<1>13. SlotsSound(q, slotLocks, locks) /\ Frames(q, cache, slotLocks)
  <2>1. r.pc \in Owning /\ q.pc \in Owning \ {"loadRow", "addRead"}
    BY <1>1, <1>3 DEF Owning
  <2>2. q.id = r.id /\ q.outer = r.outer
    BY <1>3 DEF Same
  <2> QED BY <2>1, <2>2, SlotsStay, StaysWith, BookFacts
<1>14. StepSound(q, cache, LRUList', slotLocks, records')
  <2>1. slotLocks[r.id] = r.lock
    BY <1>1 DEF StepSound, Owning
  <2> QED BY <1>1, <1>3, <1>4, <2>1 DEF StepSound, Same
<1> QED BY <1>2, <1>4, <1>8, <1>9, <1>11, <1>12, <1>13, <1>14 DEF BooksNow, Books

\* A record comes into the cache, with the reference it was made for.
LEMMA AddPutBooks ==
  ASSUME NEW name, TypedWith(name), NEW t \in Process, BooksNow(t), AddPut(t)
  PROVE  BooksNow(t)'
<1> DEFINE r == th[t]
           q == th'[t]
           i == r.id
           R == Len(records)
           new == R + 1
           rec == [message |-> i, serial |-> serial', backReference |-> 1, ref |-> r.rec]
           C == CachedIn(cache)
<1>1. /\ r.pc = "addPut" /\ r \in States(Len(locks), R, serial) /\ HeapOK
      /\ StepSound(r, cache, LRUList, slotLocks, records) /\ LimitKept(r, LRUList)
      /\ CallSound(r, stored, unsaved) /\ Frames(r, cache, slotLocks)
      /\ HeapSound(cache, records, stored, unsaved)
      /\ Ledger(Own(r), Got(r), cache, records, stored, unsaved)
      /\ SlotsSound(r, slotLocks, locks) /\ i \in Message /\ i \in Identifier
      /\ R \in Nat /\ serial \in Nat
  BY BookFacts DEF AddPut, At, Shape, OfMessage, Identifier
<1>2. /\ serial' = serial + 1 /\ records' = Append(records, rec)
      /\ cache' = [cache EXCEPT ![i] = new] /\ ShowRecord(r.lock, new)
      /\ q = [r EXCEPT !.pc = "invalidate", !.rec = new]
      /\ UNCHANGED <<LRUList, slotLocks, stored, unsaved>>
  BY Became DEF AddPut, Reference, ShowRecord, callVars
<1>3. /\ q.pc = "invalidate" /\ Same(q, r) /\ q.exceeded = r.exceeded /\ q.lock = r.lock
      /\ q.rec = new
  BY <1>1, <1>2 DEF States, Same
<1>4. /\ r.pc \in Owning /\ r.lock \in 1..Len(locks) /\ slotLocks[i] = r.lock
      /\ cache[i] = null /\ i \notin C
      /\ RefOf[i] # NoRef => RefOf[i] \in C /\ r.rec = cache[RefOf[i]]
  <2>1. r.pc \in Owning
    BY <1>1 DEF Owning
  <2> QED BY <1>1, <2>1, BookFacts, PCFacts DEF StepSound, CachedIn
<1>5. /\ Len(records') = new /\ records'[new] = rec
      /\ \A x \in 1..R : records'[x] = records[x]
  <2>1. records \in Seq(RecordType(R, serial) \cup {rec})
    BY <1>1, SeqMonotonic DEF HeapOK
  <2> HIDE DEF rec
  <2> QED BY <1>2, <2>1, AppendProperties, LenProperties
<1>6. /\ \A j \in Identifier : cache'[j] = IF j = i THEN new ELSE cache[j]
      /\ new # null /\ Message \subseteq Identifier
  BY <1>1, <1>2 DEF HeapOK, null, Identifier
<1>7. CachedIn(cache') = C \cup {i}
  BY <1>1, <1>6 DEF CachedIn
<1>8. /\ \A m \in C : /\ m # i /\ cache'[m] = cache[m]
                      /\ records'[cache'[m]] = records[cache[m]]
                      /\ Counted(m, cache', records') = Counted(m, cache, records)
                      /\ SerialIn(m, cache', records') = SerialIn(m, cache, records)
                      /\ SerialIn(m, cache, records) # serial'
      /\ cache'[i] = new /\ records'[cache'[i]] = rec
      /\ Counted(i, cache', records') = 1 /\ SerialIn(i, cache', records') = serial'
  <2>1. ASSUME NEW m \in C
        PROVE  /\ m # i /\ cache'[m] = cache[m] /\ cache[m] \in 1..R
               /\ SerialIn(m, cache, records) \in 1..serial
    BY <1>1, <1>4, <1>6, CachedFacts
  <2> QED BY <1>1, <1>2, <1>5, <1>6, <2>1 DEF Counted, SerialIn
<1> HIDE DEF rec, new
<1>9. rec.message = i /\ rec.ref = r.rec
  BY DEF rec
<1>10. CallSound(q, stored, unsaved) /\ Got(q) = Got(r)
  <2>1. q.pc \in Calling /\ r.pc \in Calling /\ q.pc \notin Seeking
    BY <1>1, <1>3 DEF Calling, Seeking
  <2> QED BY <1>1, <1>3, <2>1, CallGoesOn
<1>11. /\ \A c \in C \cup Saved(stored, unsaved) : RefOf[c] # i
       /\ RefOf[i] # i /\ i \notin unsaved /\ Got(r) # i
  <2>1. /\ \A c \in C : RefOf[c] # NoRef => RefOf[c] \in C
        /\ \A c \in Saved(stored, unsaved) : RefOf[c] # NoRef => RefOf[c] \in C
        /\ unsaved \subseteq C /\ Got(r) \in C \cup {NoRef}
    BY <1>1 DEF HeapSound, StepSound
  <2> QED BY <1>1, <1>4, <2>1, CacheAssumption
<1>12. Ledger(Own(q), Got(q), cache', records', stored, unsaved)
  <2>1. Own(r) = RefOf[i] /\ Own(q) = i
    BY <1>1, <1>3 DEF Own, Same
  <2>2. /\ IsFiniteSet(C) /\ IsFiniteSet(Saved(stored, unsaved)) /\ IsFiniteSet(C \cup {i})
    BY <1>1, FS_AddElement DEF HeapSound
  <2>3. ASSUME NEW m \in C
        PROVE  Counted(m, cache', records')
                 = Refs(m, cache', stored, unsaved) + One(Own(q) = m) + One(Got(q) = m)
    <3>1. Counted(m, cache, records)
            = Refs(m, cache, stored, unsaved) + One(RefOf[i] = m) + One(Got(r) = m)
      BY <1>1, <2>1 DEF Ledger
    <3>2. Cardinality(Kids(m, C \cup {i})) = Cardinality(Kids(m, C)) + One(RefOf[i] = m)
      BY <1>4, <2>2, KidAdded
    <3>3. /\ Cardinality(Kids(m, C)) \in Nat /\ One(RefOf[i] = m) \in Nat
          /\ Cardinality(Kids(m, Saved(stored, unsaved))) \in Nat
          /\ One(m \in unsaved) \in Nat /\ One(Got(r) = m) \in Nat
      BY <2>2, KidsCount DEF One
    <3>4. One(Own(q) = m) = 0
      BY <1>8, <2>1 DEF One
    <3>5. /\ Refs(m, cache, stored, unsaved)
               = Cardinality(Kids(m, C)) + Cardinality(Kids(m, Saved(stored, unsaved)))
                 + One(m \in unsaved)
          /\ Refs(m, cache', stored, unsaved)
               = Cardinality(Kids(m, C \cup {i})) + Cardinality(Kids(m, Saved(stored, unsaved)))
                 + One(m \in unsaved)
      BY <1>7 DEF Refs
    <3> HIDE DEF C
    <3> QED BY <1>8, <1>10, <3>1, <3>2, <3>3, <3>4, <3>5
  <2>4. Counted(i, cache', records')
          = Refs(i, cache', stored, unsaved) + One(Own(q) = i) + One(Got(q) = i)
    <3>1. Cardinality(Kids(i, C \cup {i})) = 0
      BY <1>11, <2>2, KidsCount
    <3>2. Cardinality(Kids(i, Saved(stored, unsaved))) = 0
      BY <1>11, <2>2, KidsCount
    <3>3. One(i \in unsaved) = 0 /\ One(Own(q) = i) = 1 /\ One(Got(q) = i) = 0
      BY <1>10, <1>11, <2>1 DEF One
    <3> QED BY <1>7, <1>8, <3>1, <3>2, <3>3 DEF Refs
  <2> QED BY <1>7, <2>3, <2>4 DEF Ledger
<1>13. HeapSound(cache', records', stored, unsaved)
  <2>1. IsFiniteSet(C \cup {i})
    BY <1>1, FS_AddElement DEF HeapSound
  <2>2. ASSUME NEW m \in C \cup {i}
        PROVE  /\ records'[cache'[m]].message = m
               /\ RefOf[m] # NoRef => /\ RefOf[m] \in C \cup {i}
                                      /\ records'[cache'[m]].ref = cache'[RefOf[m]]
    <3>1. CASE m = i
      BY <1>4, <1>8, <1>9, <3>1
    <3>2. CASE m # i
      BY <1>1, <1>8, <3>2 DEF HeapSound
    <3> QED BY <3>1, <3>2
  <2>3. ASSUME NEW m \in C \cup {i}, NEW n \in C \cup {i},
               SerialIn(m, cache', records') = SerialIn(n, cache', records')
        PROVE  m = n
    BY <1>1, <1>8, <2>3 DEF HeapSound
  <2>4. \A c \in Saved(stored, unsaved) : RefOf[c] # NoRef => RefOf[c] \in C \cup {i}
    BY <1>1 DEF HeapSound
  <2> HIDE DEF C
  <2> QED BY <1>1, <1>7, <2>1, <2>2, <2>3, <2>4 DEF HeapSound, C
<1>14. ListOf(Listed(q, cache', records'), LRUList, cache', records')
  <2>1. /\ Listed(r, cache, records) = {m \in C : Counted(m, cache, records) = 0}
        /\ Listed(q, cache', records') = {m \in C \cup {i} : Counted(m, cache', records') = 0}
    BY <1>1, <1>3, <1>7 DEF Listed, Leaving, Absent
  <2>2. Listed(q, cache', records') = Listed(r, cache, records)
    BY <1>8, <2>1
  <2>3. \A m \in Listed(r, cache, records) :
          SerialIn(m, cache', records') = SerialIn(m, cache, records)
    BY <1>8, <2>1
  <2> QED BY <2>2, <2>3, ListStays, BookFacts
<1>15. SlotsSound(q, slotLocks, locks')
  <2>1. \A l \in 1..Len(locks) : LoadLock(locks[l]) => LoadLock(locks'[l])
    <3>1. locks \in Seq(LockType(new)) /\ new \in Nat /\ new \in {null} \cup 1..new
      BY <1>1, RecordsGrow DEF HeapOK, new
    <3> HIDE DEF r, q, new
    <3> QED BY <1>2, <1>4, <3>1, ShownLoads
  <2>2. q.pc \in Owning \ {"loadRow", "addRead"} /\ q.id = i /\ q.outer = r.outer
    BY <1>3 DEF Owning, Same
  <2>3. \A j \in Identifier : slotLocks[j] # null => slotLocks[j] \in 1..Len(locks)
    BY <1>1 DEF HeapOK
  <2> QED BY <1>1, <1>4, <2>1, <2>2, <2>3, SlotsStay
<1>16. Frames(q, cache', slotLocks)
  <2>1. \A k \in 1..Len(r.outer) : cache'[r.outer[k].id] = cache[r.outer[k].id]
    <3>1. \A k \in 1..Len(r.outer) : r.outer[k].id \in Identifier /\ r.outer[k].id # i
      BY <1>1, <1>4, FrameTypes DEF Frames
    <3> QED BY <1>6, <3>1
  <2>2. Frames(r, cache', slotLocks)
    BY <1>1, <2>1, FramesElsewhere
  <2> QED BY <1>3, <1>4, <2>2, StaysWith DEF Same
<1>17. StepSound(q, cache', LRUList, slotLocks, records')
  <2>1. Got(q) \in C \cup {i} \cup {NoRef}
    BY <1>1, <1>10 DEF StepSound
  <2> QED BY <1>3, <1>4, <1>7, <1>8, <2>1 DEF StepSound, Same
<1>18. LimitKept(q, LRUList)
  BY <1>1, <1>3 DEF LimitKept, Exceeding, Calling, One
<1> QED BY <1>2, <1>10, <1>12, <1>13, <1>14, <1>15, <1>16, <1>17, <1>18 DEF BooksNow, Books

LEMMA InvalidateBooks ==
  ASSUME NEW name, TypedWith(name), NEW t \in Process, BooksNow(t), Alone(t), Invalidate(t)
  PROVE  BooksNow(t)' /\ \A u \in Process \ {t} : th'[u] = th[u]
<1> DEFINE r == th[t]
           q == th'[t]
<1>1. PICK step \in Invalidating :
        /\ r.pc = step[1] /\ MakeInvalid(r.lock)
        /\ th' = [u \in Process |-> AfterInvalidate(t, step, u)]
        /\ UNCHANGED <<cache, LRUList, slotLocks, serial, records, stored, unsaved>>
  BY DEF Invalidate, At, MakeInvalid, AfterInvalidate, Invalidating, callVars
<1>2. /\ r.pc \in {"invalidate", "relInvalidate", "recInvalidate"}
      /\ step[1] = "invalidate" => step[2] = "unslot"
      /\ step[1] = "relInvalidate" => step[2] = "relUnslot"
      /\ step[1] = "recInvalidate" => step[2] = "recUnslot"
  BY <1>1 DEF Invalidating
<1>3. /\ r \in States(Len(locks), Len(records), serial) /\ LimitKept(r, LRUList)
      /\ StepSound(r, cache, LRUList, slotLocks, records) /\ SlotsSound(r, slotLocks, locks)
      /\ CallSound(r, stored, unsaved) /\ Frames(r, cache, slotLocks)
  BY BookFacts
<1>4. r.pc \in Owning /\ r.lock \in 1..Len(locks) /\ slotLocks[r.id] = r.lock
  <2>1. r.pc \in Owning
    BY <1>2 DEF Owning
  <2> QED BY <1>3, <2>1, BookFacts, PCFacts DEF StepSound
<1>5. \A u \in Process \ {t} : th'[u] = th[u]
  BY <1>1 DEF AfterInvalidate, Signalled, Alone, At
<1>6. /\ q.pc = step[2] /\ Same(q, r) /\ q.exceeded = r.exceeded /\ q.lock = r.lock
      /\ q.rec = r.rec
  <2>1. q = [r EXCEPT !.pc = step[2]]
    BY <1>1 DEF AfterInvalidate
  <2> QED BY <1>3, <2>1 DEF States, Same
<1>7. CallSound(q, stored, unsaved) /\ Got(q) = Got(r)
  <2>1. CASE r.pc = "invalidate"
    <3>1. q.pc \in Calling /\ r.pc \in Calling /\ q.pc \notin Seeking
      BY <1>1, <1>2, <1>6, <2>1 DEF Calling, Seeking
    <3> QED BY <1>3, <1>6, <3>1, CallGoesOn
  <2>2. CASE r.pc # "invalidate"
    <3>1. q.pc \notin Calling /\ r.pc \notin Calling
      BY <1>1, <1>2, <1>6, <2>2 DEF Calling
    <3> QED BY <1>3, <1>6, <3>1, CallIsOver DEF Same
  <2> QED BY <2>1, <2>2
<1>8. SlotsSound(q, slotLocks, locks')
  <2>1. \A l \in 1..Len(locks) : l # r.lock => locks'[l] = locks[l]
    <3>1. locks \in Seq(LockType(Len(records))) /\ Len(records) \in Nat
          /\ null \in {null} \cup 1..Len(records)
      BY BookFacts DEF HeapOK
    <3> QED BY <1>1, <1>4, <3>1, LockChanges
  <2>2. q.pc \in Owning \ {"loadRow", "addRead"} /\ q.id = r.id /\ q.outer = r.outer
    BY <1>1, <1>2, <1>6 DEF Owning, Same
  <2>3. Claims(q) = Claims(r)
    BY <1>4, <2>2 DEF Claims
  <2>4. ASSUME NEW i \in Identifier, slotLocks[i] # null, i # r.id
        PROVE  locks'[slotLocks[i]] = locks[slotLocks[i]]
    <3>1. slotLocks[i] \in 1..Len(locks)
      BY <2>4, BookFacts DEF HeapOK
    <3>2. slotLocks[i] # r.lock
      BY <1>4, <2>4, NamesApart
    <3> QED BY <2>1, <3>1, <3>2
  <2> HIDE DEF q, r, Owning
  <2> QED BY <1>3, <2>2, <2>3, <2>4 DEF SlotsSound
<1>9. Frames(q, cache, slotLocks)
  BY <1>3, <1>4, <1>6, StaysWith DEF Same
<1>10. StepSound(q, cache, LRUList, slotLocks, records)
  <2>1. Got(q) \in CachedIn(cache) \cup {NoRef}
    BY <1>3, <1>7 DEF StepSound
  <2> QED BY <1>1, <1>2, <1>3, <1>4, <1>6, <2>1 DEF StepSound, Same, Knowing
<1>11. LimitKept(q, LRUList) /\ Own(q) = Own(r)
       /\ r.pc \notin Leaving \cup Absent /\ q.pc \notin Leaving \cup Absent
  BY <1>1, <1>2, <1>3, <1>6
     DEF LimitKept, Exceeding, Calling, One, Own, Same, Leaving, Absent
<1> QED BY <1>1, <1>5, <1>7, <1>8, <1>9, <1>10, <1>11, QuietBooks, BookFacts DEF BooksNow
---------------------------------------------------------------------------
(* removeSelfFromLocks, and what the call returns to.                       *)

\* What save() has added is counted for the queue, and refers to what it got.
LEMMA QueuedBooks ==
  ASSUME NEW ca, NEW lru, NEW rs, NEW st, NEW un, NEW m \in CachedIn(ca),
         HeapSound(ca, rs, st, un), Ledger(m, RefOf[m], ca, rs, st, un), m \notin st \cup un
  PROVE  /\ HeapSound(ca, rs, st, un \cup {m})
         /\ Ledger(NoRef, NoRef, ca, rs, st, un \cup {m})
<1> DEFINE S == Saved(st, un)
           S2 == Saved(st, un \cup {m})
<1>1. S2 = S \cup {m} /\ m \notin S /\ IsFiniteSet(S) /\ IsFiniteSet(S2)
  <2>1. S2 = S \cup {m} /\ m \notin S
    BY DEF HeapSound, Saved
  <2>2. IsFiniteSet(S)
    BY DEF HeapSound
  <2> HIDE DEF S, S2
  <2> QED BY <2>1, <2>2, FS_AddElement
<1>2. \A c \in S2 : RefOf[c] # NoRef => RefOf[c] \in CachedIn(ca)
  BY <1>1 DEF HeapSound
<1>3. HeapSound(ca, rs, st, un \cup {m})
  <2> HIDE DEF CachedIn, SerialIn, Saved
  <2> QED BY <1>1, <1>2 DEF HeapSound
<1>4. ASSUME NEW x \in CachedIn(ca)
      PROVE  Counted(x, ca, rs)
               = Refs(x, ca, st, un \cup {m}) + One(NoRef = x) + One(NoRef = x)
  <2>1. Counted(x, ca, rs) = Refs(x, ca, st, un) + One(m = x) + One(RefOf[m] = x)
    BY DEF Ledger
  <2>2. Cardinality(Kids(x, S2)) = Cardinality(Kids(x, S)) + One(RefOf[m] = x)
    <3> HIDE DEF S, S2
    <3> QED BY <1>1, KidAdded
  <2>3. One(x \in un \cup {m}) = One(x \in un) + One(m = x) /\ One(NoRef = x) = 0
    BY CacheAssumption DEF One, CachedIn
  <2>4. /\ Cardinality(Kids(x, CachedIn(ca))) \in Nat /\ Cardinality(Kids(x, S)) \in Nat
        /\ One(m = x) \in Nat /\ One(RefOf[m] = x) \in Nat /\ One(x \in un) \in Nat
    <3>1. IsFiniteSet(CachedIn(ca))
      BY DEF HeapSound
    <3> HIDE DEF S
    <3> QED BY <1>1, <3>1, KidsCount DEF One
  <2>5. /\ Refs(x, ca, st, un)
             = Cardinality(Kids(x, CachedIn(ca))) + Cardinality(Kids(x, S)) + One(x \in un)
        /\ Refs(x, ca, st, un \cup {m})
             = Cardinality(Kids(x, CachedIn(ca))) + Cardinality(Kids(x, S2))
               + One(x \in un \cup {m})
    BY DEF Refs
  <2> HIDE DEF S, S2
  <2> QED BY <2>1, <2>2, <2>3, <2>4, <2>5
<1> QED BY <1>3, <1>4 DEF Ledger

\* The slot of the message is free again, and the thread owns no other.
LEMMA OneSlotFreed ==
  ASSUME NEW r, r.pc \in Owning, r.outer = <<>>, NEW sl, NEW lk, SlotsSound(r, sl, lk),
         NEW sl2, \A j \in Identifier : sl2[j] = IF j = r.id THEN null ELSE sl[j]
  PROVE  \A i \in Identifier : sl2[i] # null =>
           i \in Unknown /\ LoadLock(lk[sl2[i]])
<1>1. Claims(r) = {r.id}
  <2>1. Len(r.outer) = 0
    BY EmptySeq
  <2> HIDE DEF Owning
  <2> QED BY <2>1 DEF Claims
<1> HIDE DEF Owning
<1> QED BY <1>1 DEF SlotsSound

LEMMA NoFrames ==
  ASSUME NEW r, r.outer = <<>>, NEW ca, NEW sl
  PROVE  Frames(r, ca, sl)
<1>1. Len(r.outer) = 0
  BY EmptySeq
<1> QED BY <1>1 DEF Frames

LEMMA UnslotBooks ==
  ASSUME NEW name, TypedWith(name), NEW t \in Process, BooksNow(t), Unslot(t)
  PROVE  BooksNow(t)'
<1> DEFINE r == th[t]
           q == th'[t]
           x == IF r.stray /\ r.outer = <<>> THEN null ELSE r.rec
<1>1. /\ r.pc = "unslot" /\ r \in States(Len(locks), Len(records), serial) /\ HeapOK
      /\ NamesOK(name) /\ Shape(r)
      /\ StepSound(r, cache, LRUList, slotLocks, records) /\ LimitKept(r, LRUList)
      /\ CallSound(r, stored, unsaved) /\ Frames(r, cache, slotLocks)
      /\ HeapSound(cache, records, stored, unsaved)
      /\ Ledger(Own(r), Got(r), cache, records, stored, unsaved)
      /\ SlotsSound(r, slotLocks, locks)
      /\ FreeSlot(r.id) /\ Deliver(t, x)
      /\ UNCHANGED <<cache, LRUList, serial, records, locks, stored>>
  BY BookFacts DEF Unslot, At
<1>2. /\ r.pc \in Owning \ {"loadRow", "addRead"} /\ r.pc \in Calling
      /\ r.id \in CachedIn(cache) /\ r.rec = cache[r.id] /\ Own(r) = r.id
      /\ r.id \in Identifier /\ r.op \in {"query", "save"}
      /\ Got(r) \in CachedIn(cache) \cup {NoRef} /\ ~r.exceeded
      /\ r.pc \notin Leaving \cup Absent
  BY <1>1 DEF Owning, Calling, StepSound, Knowing, Own, Shape, LimitKept, Leaving, Absent
<1>3. \A j \in Identifier : slotLocks'[j] = IF j = r.id THEN null ELSE slotLocks[j]
  BY <1>1, <1>2, FreedSlot
<1>4. CASE r.outer # <<>>
  <2> DEFINE S == [id : Message, lock : 1..Len(locks)]
             frame == Last(r.outer)
  <2>1. /\ q = [r EXCEPT !.pc = "addPut", !.id = frame.id, !.lock = frame.lock,
                         !.outer = Front(r.outer), !.rec = r.rec]
        /\ UNCHANGED unsaved
    BY <1>1, <1>4, Became DEF Deliver
  <2>2. /\ q.pc = "addPut" /\ q.id = frame.id /\ q.lock = frame.lock
        /\ q.outer = Front(r.outer) /\ q.rec = r.rec
        /\ q.op = r.op /\ q.target = r.target /\ q.exceeded = r.exceeded
    BY <1>1, <2>1 DEF States
  <2>3. r.outer \in Seq(S) /\ \A k \in 1..Len(r.outer) : r.outer[k].id \in Identifier
    BY FrameTypes
  <2>4. \A k \in 1..Len(r.outer) : r.outer[k].id # r.id
    <3> HIDE DEF Owning
    <3> QED BY <1>1, <1>2 DEF Frames
  <2>5. Frames(r, cache, slotLocks')
    BY <1>1, <1>3, <2>3, <2>4, FramesElsewhere
  <2>6. q.pc \in Owning \ {"loadRow", "addRead"} /\ q.pc \in Calling /\ q.pc \notin Seeking
        /\ q.pc \notin Leaving \cup Absent
    BY <2>2 DEF Owning, Calling, Seeking, Leaving, Absent
  <2> HIDE DEF S, frame
  <2>7. /\ Frames(q, cache, slotLocks') /\ Bottom(q) = Bottom(r)
        /\ cache[q.id] = null /\ slotLocks'[q.id] = frame.lock /\ RefOf[q.id] = r.id
        /\ Claims(q) = {r.outer[k].id : k \in 1..Len(r.outer)}
    <3> HIDE DEF q, r
    <3> QED BY <1>4, <2>2, <2>3, <2>5, <2>6, FramePopped DEF frame
  <2>8. CallSound(q, stored, unsaved) /\ Got(q) = Got(r)
    <3> HIDE DEF q, r, Calling, Seeking
    <3> QED BY <1>1, <1>2, <2>2, <2>6, <2>7 DEF CallSound, Got, Adding
  <2>9. SlotsSound(q, slotLocks', locks)
    <3>1. Claims(r) = Claims(q) \cup {r.id}
      <4> HIDE DEF Owning
      <4> QED BY <1>2, <2>7 DEF Claims
    <3> HIDE DEF q, r, Owning
    <3> QED BY <1>1, <1>3, <3>1 DEF SlotsSound
  <2>10. StepSound(q, cache, LRUList, slotLocks', records)
    BY <1>2, <2>2, <2>7, <2>8 DEF StepSound, Knowing
  <2>11. Own(q) = Own(r)
    BY <1>2, <2>2, <2>7 DEF Own
  <2>12. LimitKept(q, LRUList)
    BY <1>1, <2>2 DEF LimitKept, Exceeding, Calling, One
  <2> QED BY <1>1, <1>2, <2>1, <2>6, <2>7, <2>8, <2>9, <2>10, <2>11, <2>12, QuietBooks, BookFacts
          DEF BooksNow
<1>5. CASE r.outer = <<>>
  <2>1. \A i \in Identifier : slotLocks'[i] # null =>
          i \in Unknown /\ LoadLock(locks[slotLocks'[i]])
    <3> HIDE DEF r
    <3> QED BY <1>1, <1>2, <1>3, <1>5, OneSlotFreed
  <2>2. SlotsSound(q, slotLocks', locks)
    BY <2>1 DEF SlotsSound
  <2>3. Bottom(r) = r.id
    BY <1>5 DEF Bottom
  <2>4. CASE r.op = "query"
    <3>1. q = [r EXCEPT !.pc = "relRead", !.rec = x] /\ UNCHANGED unsaved
      BY <1>1, <1>5, <2>4, Became DEF Deliver
    <3>2. q.pc = "relRead" /\ Same(q, r) /\ q.exceeded = r.exceeded
      BY <1>1, <3>1 DEF States, Same
    <3>3. q.pc \notin Calling \cup Owning \cup Waiting \cup Seeking \cup Leaving \cup Absent
      BY <3>2 DEF Calling, Owning, Waiting, Seeking, Leaving, Absent
    <3>4. Got(q) = NoRef /\ Got(r) = NoRef /\ Own(q) = r.id
      BY <2>4, <3>2 DEF Got, Adding, Own, Same
    <3>5. Frames(q, cache, slotLocks') /\ CallSound(q, stored, unsaved)
      <4>1. q.outer = <<>>
        BY <1>5, <3>2 DEF Same
      <4> HIDE DEF q, Calling, Seeking
      <4> QED BY <3>3, <4>1, NoFrames DEF CallSound
    <3>6. StepSound(q, cache, LRUList, slotLocks', records)
      BY <1>2, <3>2, <3>3, <3>4 DEF StepSound, Same, Knowing
    <3>7. LimitKept(q, LRUList)
      BY <1>1, <3>2 DEF LimitKept, Exceeding, Calling, One
    <3> QED BY <1>1, <1>2, <2>2, <3>1, <3>3, <3>4, <3>5, <3>6, <3>7, QuietBooks, BookFacts
            DEF BooksNow
  <2>5. CASE r.op = "save" /\ r.id # r.target
    <3>1. q = [r EXCEPT !.pc = "addSlot", !.id = r.target, !.loaded = FALSE]
          /\ UNCHANGED unsaved
      BY <1>1, <1>5, <2>5, Became DEF Deliver, Getting
    <3>2. /\ q.pc = "addSlot" /\ q.op = r.op /\ q.id = r.target /\ q.target = r.target
          /\ q.outer = <<>> /\ q.exceeded = r.exceeded
      BY <1>1, <1>5, <3>1 DEF States
    <3>3. /\ q.pc \notin Owning \cup Waiting \cup Seeking \cup Leaving \cup Absent
          /\ q.pc \in Calling
      BY <3>2 DEF Calling, Owning, Waiting, Seeking, Leaving, Absent
    <3>4. /\ r.target \notin stored \cup unsaved
          /\ r.id = RefOf[r.target]
      BY <1>1, <1>2, <2>3, <2>5 DEF CallSound
    <3>5. /\ Got(r) = NoRef /\ Own(q) = NoRef /\ Got(q) = r.id
      <4>1. Got(r) = NoRef /\ Own(q) = NoRef
        BY <2>3, <2>5, <3>2 DEF Got, Adding, Own
      <4>2. Bottom(q) = q.target
        BY <3>2 DEF Bottom
      <4> QED BY <2>5, <3>2, <3>3, <3>4, <4>1, <4>2 DEF Got, Adding
    <3>6. Ledger(Own(q), Got(q), cache, records, stored, unsaved)
      <4>1. ASSUME NEW m \in CachedIn(cache)
            PROVE  Counted(m, cache, records)
                     = Refs(m, cache, stored, unsaved) + One(NoRef = m) + One(r.id = m)
        <5>1. Counted(m, cache, records)
                = Refs(m, cache, stored, unsaved) + One(r.id = m) + One(NoRef = m)
          BY <1>1, <1>2, <3>5 DEF Ledger
        <5>2. Refs(m, cache, stored, unsaved) \in Nat
          BY <1>1, RefsType
        <5> QED BY <5>1, <5>2 DEF One
      <4> QED BY <3>5, <4>1 DEF Ledger
    <3>7. Listed(q, cache, records) = Listed(r, cache, records)
      BY <1>2, <3>3 DEF Listed
    <3>8. Frames(q, cache, slotLocks') /\ CallSound(q, stored, unsaved)
      <4>1. Bottom(q) = q.target
        BY <3>2 DEF Bottom
      <4>2. q.target \notin stored \cup unsaved
        BY <3>2, <3>4
      <4> HIDE DEF q, Calling, Seeking
      <4> QED BY <3>2, <3>3, <4>1, <4>2, NoFrames DEF CallSound
    <3>9. StepSound(q, cache, LRUList, slotLocks', records)
      BY <1>2, <3>2, <3>3, <3>5 DEF StepSound, Knowing
    <3>10. LimitKept(q, LRUList)
      BY <1>1, <3>2 DEF LimitKept, Exceeding, Calling, One
    <3> QED BY <1>1, <2>2, <3>1, <3>6, <3>7, <3>8, <3>9, <3>10, BookFacts DEF BooksNow, Books
  <2>6. CASE r.op = "save" /\ r.id = r.target
    <3>1. q = Idle /\ unsaved' = unsaved \cup {r.id}
      BY <1>1, <1>5, <2>6, Became DEF Deliver, Getting
    <3>2. r.id \notin stored \cup unsaved
      BY <1>1, <1>2, <2>6 DEF CallSound
    <3>3. Got(r) = RefOf[r.id]
      BY <1>2, <2>3, <2>6 DEF Got, Adding
    <3>4. /\ HeapSound(cache, records, stored, unsaved \cup {r.id})
          /\ Ledger(NoRef, NoRef, cache, records, stored, unsaved \cup {r.id})
      BY <1>1, <1>2, <3>2, <3>3, QueuedBooks
    <3>5. Listed(r, cache, records) = Unreferenced(cache, records)
      BY <1>2 DEF Listed, Unreferenced
    <3>6. IsFiniteSet(DOMAIN LRUList) /\ Cardinality(DOMAIN LRUList) <= SizeLimit
      <4>1. Cardinality(DOMAIN LRUList) \in Nat
        BY <1>1, FS_CardinalityType DEF LimitKept
      <4> QED BY <1>1, <4>1, CacheAssumption DEF LimitKept, Exceeding, One
    <3> QED BY <1>1, <2>1, <3>1, <3>4, <3>5, <3>6, IdleBooks, BookFacts DEF BooksNow
  <2> QED BY <1>2, <2>4, <2>5, <2>6
<1> QED BY <1>4, <1>5

\* Nobody else holds a lock that is no longer valid, or that shows a record.
LEMMA WaitBooks ==
  ASSUME NEW name, TypedWith(name), NEW t \in Process, BooksNow(t),
         WaitEnter(t) \/ WaitAwait(t) \/ Woken(t) \/ WaitInc(t) \/ WaitUnlist(t) \/ RelShare(t)
  PROVE  BooksNow(t)'
<1> DEFINE r == th[t]
           q == th'[t]
<1>1. /\ r \in States(Len(locks), Len(records), serial) /\ LimitKept(r, LRUList)
      /\ StepSound(r, cache, LRUList, slotLocks, records) /\ SlotsSound(r, slotLocks, locks)
      /\ CallSound(r, stored, unsaved) /\ Frames(r, cache, slotLocks) /\ Shape(r)
  BY BookFacts
<1>2. WaitEnter(t) \/ WaitAwait(t)
  BY <1>1 DEF StepSound, Woken, WaitInc, WaitUnlist, RelShare, At
<1>3. /\ r.pc \in {"waitEnter", "waitAwait"} /\ r.pc \notin Owning /\ r.id \in Identifier
      /\ slotLocks[r.id] = r.lock /\ r.lock # null
  <2>1. r.pc \in {"waitEnter", "waitAwait"}
    BY <1>2 DEF WaitEnter, WaitAwait, At
  <2>2. r.pc \notin Owning /\ r.pc \in Waiting /\ r.pc # "idle"
    BY <2>1 DEF Owning, Waiting
  <2> QED BY <1>1, <2>1, <2>2 DEF StepSound, Shape
<1>4. LoadLock(locks[r.lock])
  <2> HIDE DEF Owning
  <2> QED BY <1>1, <1>3 DEF SlotsSound
<1>5. PICK pc \in {"waitAwait", "await"} :
        /\ Goto(t, pc)
        /\ UNCHANGED <<cache, LRUList, slotLocks, serial, records, locks, stored, unsaved>>
  BY <1>2, <1>4 DEF WaitEnter, WaitAwait, LoadLock, StillValid, callVars
<1>6. q.pc = pc /\ Same(q, r) /\ q.lock = r.lock /\ q.exceeded = r.exceeded
  BY <1>5, Went
<1>7. CallSound(q, stored, unsaved) /\ Got(q) = Got(r)
  <2>1. q.pc \in Calling /\ r.pc \in Calling /\ q.pc \notin Seeking
    BY <1>3, <1>6 DEF Calling, Seeking
  <2> QED BY <1>1, <1>6, <2>1, CallGoesOn
<1>8. SlotsSound(q, slotLocks, locks) /\ Frames(q, cache, slotLocks)
  <2>1. q.pc \notin Owning /\ q.id = r.id /\ q.outer = r.outer
    BY <1>6 DEF Owning, Same
  <2> QED BY <1>1, <1>3, <2>1, SlotsStay, StaysWith
<1>9. StepSound(q, cache, LRUList, slotLocks, records)
  <2>1. Got(q) \in CachedIn(cache) \cup {NoRef}
    BY <1>1, <1>7 DEF StepSound
  <2> QED BY <1>3, <1>6, <2>1 DEF StepSound, Same, Knowing
<1>10. Own(q) = Own(r) /\ LimitKept(q, LRUList)
       /\ r.pc \notin Leaving \cup Absent /\ q.pc \notin Leaving \cup Absent
  BY <1>1, <1>3, <1>6 DEF Own, LimitKept, Exceeding, Calling, One, Leaving, Absent
<1> QED BY <1>5, <1>7, <1>8, <1>9, <1>10, QuietBooks, BookFacts DEF BooksNow
---------------------------------------------------------------------------
(* releaseMessage.                                                          *)

LEMMA RelReadBooks ==
  ASSUME NEW name, TypedWith(name), NEW t \in Process, BooksNow(t), RelRead(t)
  PROVE  BooksNow(t)'
<1> DEFINE r == th[t]
           q == th'[t]
<1>1. /\ r.pc = "relRead" /\ r \in States(Len(locks), Len(records), serial)
      /\ StepSound(r, cache, LRUList, slotLocks, records) /\ LimitKept(r, LRUList)
      /\ CallSound(r, stored, unsaved) /\ Frames(r, cache, slotLocks)
      /\ SlotsSound(r, slotLocks, locks)
      /\ UNCHANGED <<cache, LRUList, slotLocks, serial, records, locks, stored, unsaved>>
  BY BookFacts DEF RelRead, At, callVars
<1>2. r.id \in CachedIn(cache) /\ cache[r.id] # null
  BY <1>1 DEF StepSound, CachedIn
<1>3. q = [r EXCEPT !.pc = "relSlot", !.rec = cache[r.id]]
  BY <1>2, Became DEF RelRead
<1>4. q.pc = "relSlot" /\ Same(q, r) /\ q.rec = cache[r.id] /\ q.exceeded = r.exceeded
  BY <1>1, <1>3 DEF States, Same
<1>5. CallSound(q, stored, unsaved) /\ Got(q) = NoRef /\ Got(r) = NoRef
  BY <1>1, <1>4, CallIsOver DEF Calling, Same
<1>6. SlotsSound(q, slotLocks, locks) /\ Frames(q, cache, slotLocks)
  <2>1. r.pc \notin Owning /\ q.pc \notin Owning /\ q.id = r.id /\ q.outer = r.outer
    BY <1>1, <1>4 DEF Owning, Same
  <2> QED BY <1>1, <2>1, SlotsStay, StaysWith
<1>7. StepSound(q, cache, LRUList, slotLocks, records)
  BY <1>2, <1>4, <1>5 DEF StepSound, Same, Knowing, Owning, Waiting
<1>8. Own(q) = Own(r) /\ LimitKept(q, LRUList)
      /\ r.pc \notin Leaving \cup Absent /\ q.pc \notin Leaving \cup Absent
  BY <1>1, <1>4 DEF Own, LimitKept, Exceeding, Calling, One, Leaving, Absent, Same
<1> QED BY <1>1, <1>5, <1>6, <1>7, <1>8, QuietBooks, BookFacts DEF BooksNow

\* The last reference is given back before the message enters LRUList.
LEMMA RelDecBooks ==
  ASSUME NEW name, TypedWith(name), NEW t \in Process, BooksNow(t), RelDec(t)
  PROVE  BooksNow(t)'
<1> DEFINE r == th[t]
           q == th'[t]
<1>1. /\ r.pc = "relDec" /\ r.id \in CachedIn(cache) /\ r.rec = cache[r.id]
      /\ StepSound(r, cache, LRUList, slotLocks, records) /\ LimitKept(r, LRUList)
      /\ CallSound(r, stored, unsaved) /\ Frames(r, cache, slotLocks)
      /\ SlotsSound(r, slotLocks, locks) /\ HeapOK
      /\ HeapSound(cache, records, stored, unsaved)
      /\ Ledger(Own(r), Got(r), cache, records, stored, unsaved)
  BY BookFacts DEF RelDec, At, StepSound, Knowing
<1>2. /\ AddBackRef(cache[r.id], -1)
      /\ UNCHANGED <<cache, LRUList, slotLocks, serial, locks, stored, unsaved>>
  BY <1>1 DEF RelDec, callVars
<1>3. PICK pc : /\ Goto(t, pc)
                /\ pc = IF Counted(r.id, cache, records) = 1 THEN "relList"
                                                              ELSE "relInvalidate"
  BY <1>1 DEF RelDec, LastReference, Counted
<1>4. /\ q.pc = pc /\ Same(q, r) /\ q.lock = r.lock /\ q.rec = r.rec
      /\ q.exceeded = r.exceeded /\ pc \in {"relList", "relInvalidate"}
  BY <1>3, Went
<1>5. \A m \in CachedIn(cache) :
        /\ Counted(m, cache, records')
             = Counted(m, cache, records) + (IF m = r.id THEN -1 ELSE 0)
        /\ SerialIn(m, cache, records') = SerialIn(m, cache, records)
        /\ records'[cache[m]].message = records[cache[m]].message
        /\ records'[cache[m]].ref = records[cache[m]].ref
  <2> HIDE DEF r
  <2>1. -1 \in Int
    OBVIOUS
  <2> QED BY <1>1, <1>2, <2>1, OneCounts
<1>6. CallSound(q, stored, unsaved) /\ Got(q) = NoRef /\ Got(r) = NoRef
  <2>1. q.pc \notin Calling /\ r.pc \notin Calling /\ q.outer = r.outer
    BY <1>1, <1>4 DEF Calling, Same
  <2> QED BY <1>1, <2>1, CallIsOver
<1>7. Ledger(Own(q), Got(q), cache, records', stored, unsaved)
  <2>1. Own(r) = r.id /\ Own(q) = NoRef
    BY <1>1, <1>4 DEF Own
  <2>2. \A m \in CachedIn(cache) :
          One(Own(q) = m) = One(Own(r) = m) + (IF m = r.id THEN -1 ELSE 0)
    BY <2>1, CacheAssumption DEF One, CachedIn
  <2>3. \A m \in CachedIn(cache) :
          Counted(m, cache, records') = Counted(m, cache, records) + (IF m = r.id THEN -1 ELSE 0)
    BY <1>5
  <2>4. -1 \in Int
    OBVIOUS
  <2> HIDE DEF q, r
  <2>5. Ledger(Own(q), Got(r), cache, records', stored, unsaved)
    BY <1>1, <2>2, <2>3, <2>4, LedgerCounts
  <2> QED BY <1>6, <2>5
<1>8. HeapSound(cache, records', stored, unsaved)
  BY <1>1, <1>5, HeapCounted
<1>9. /\ \A m \in CachedIn(cache) : Counted(m, cache, records) \in Nat
      /\ Counted(r.id, cache, records) >= 1
      /\ pc = "relList" <=> Counted(r.id, cache, records) = 1
  <2>1. Own(r) = r.id
    BY <1>1 DEF Own
  <2> QED BY <1>1, <1>3, <2>1, HeldCounts
<1>10. ListOf(Listed(q, cache, records'), LRUList, cache, records')
  <2>1. Listed(r, cache, records) = {m \in CachedIn(cache) : Counted(m, cache, records) = 0}
    BY <1>1 DEF Listed, Leaving, Absent
  <2>2. Listed(q, cache, records')
          = {m \in CachedIn(cache) : Counted(m, cache, records') = 0
                                     /\ ~(pc = "relList" /\ m = r.id)}
    BY <1>4 DEF Listed, Absent, Leaving, Same
  <2>3. Listed(q, cache, records') = Listed(r, cache, records)
    <3>1. ASSUME NEW m \in CachedIn(cache)
          PROVE  Counted(m, cache, records') = 0 /\ ~(pc = "relList" /\ m = r.id)
                   <=> Counted(m, cache, records) = 0
      BY <1>5, <1>9
    <3> QED BY <2>1, <2>2, <3>1
  <2>4. \A m \in Listed(q, cache, records') :
          SerialIn(m, cache, records') = SerialIn(m, cache, records)
    BY <1>5, <2>2
  <2> QED BY <2>3, <2>4, ListStays, BookFacts
<1>11. SlotsSound(q, slotLocks, locks) /\ Frames(q, cache, slotLocks)
  <2>1. r.pc \in Owning /\ q.pc \in Owning \ {"loadRow", "addRead"}
    BY <1>1, <1>4 DEF Owning
  <2>2. q.id = r.id /\ q.outer = r.outer
    BY <1>4 DEF Same
  <2> QED BY <1>1, <2>1, <2>2, SlotsStay, StaysWith
<1>12. StepSound(q, cache, LRUList, slotLocks, records')
  <2>1. slotLocks[r.id] = r.lock
    BY <1>1 DEF StepSound, Owning
  <2>2. pc = "relList" => Counted(r.id, cache, records') = 0
    BY <1>1, <1>5, <1>9
  <2> QED BY <1>1, <1>4, <1>6, <2>1, <2>2 DEF StepSound, Same
<1>13. LimitKept(q, LRUList)
  <2> DEFINE n == Cardinality(DOMAIN LRUList)
  <2>1. n \in Nat /\ IsFiniteSet(DOMAIN LRUList)
    BY <1>1, FS_CardinalityType DEF LimitKept
  <2>2. n <= SizeLimit /\ r.exceeded = FALSE
    <3>1. r.exceeded \in BOOLEAN
      BY BookFacts DEF States
    <3> QED BY <1>1, <2>1, <3>1, CacheAssumption DEF LimitKept, Exceeding, One
  <2>3. (n > SizeLimit) = FALSE
    BY <2>1, <2>2, CacheAssumption
  <2>4. q.exceeded = (n > SizeLimit)
    BY <1>4, <2>2, <2>3
  <2>5. q.pc \notin Exceeding \ {"relInvalidate"} /\ q.pc \notin Calling
        /\ q.pc \notin {"relRead", "relSlot", "relDec"}
        /\ (q.pc = "relList" => ~q.exceeded)
    BY <1>4, <2>2 DEF Exceeding, Calling
  <2>6. n <= SizeLimit + One(q.pc \in Exceeding)
    BY <2>1, <2>2, CacheAssumption DEF One
  <2> QED BY <1>4, <2>1, <2>4, <2>5, <2>6 DEF LimitKept
<1> QED BY <1>2, <1>6, <1>7, <1>8, <1>10, <1>11, <1>12, <1>13 DEF BooksNow, Books

LEMMA RelListBooks ==
  ASSUME NEW name, TypedWith(name), NEW t \in Process, BooksNow(t), RelList(t)
  PROVE  BooksNow(t)'
<1> DEFINE r == th[t]
           q == th'[t]
           s == SerialIn(r.id, cache, records)
<1>1. /\ r.pc = "relList" /\ r.id \in CachedIn(cache) /\ r.rec = cache[r.id]
      /\ r \in States(Len(locks), Len(records), serial)
      /\ StepSound(r, cache, LRUList, slotLocks, records) /\ LimitKept(r, LRUList)
      /\ CallSound(r, stored, unsaved) /\ Frames(r, cache, slotLocks)
      /\ SlotsSound(r, slotLocks, locks) /\ HeapSound(cache, records, stored, unsaved)
      /\ Counted(r.id, cache, records) = 0
  BY BookFacts DEF RelList, At, StepSound, Knowing
<1>2. /\ DOMAIN LRUList' = DOMAIN LRUList \cup {s}
      /\ LRUList'[s] = r.id
      /\ \A k \in DOMAIN LRUList' : LRUList'[k] = IF k = s THEN r.id ELSE LRUList[k]
      /\ q = [r EXCEPT !.pc = "relInvalidate",
                       !.exceeded = Cardinality(DOMAIN LRUList') > SizeLimit]
      /\ UNCHANGED <<cache, slotLocks, serial, records, locks, stored, unsaved>>
  BY <1>1, Became DEF RelList, Enlist, callVars, SerialIn
<1>3. /\ q.pc = "relInvalidate" /\ Same(q, r) /\ q.lock = r.lock /\ q.rec = r.rec
      /\ q.exceeded = (Cardinality(DOMAIN LRUList') > SizeLimit)
  BY <1>1, <1>2 DEF States, Same
<1>4. CallSound(q, stored, unsaved) /\ Got(q) = NoRef /\ Got(r) = NoRef
  <2>1. q.pc \notin Calling /\ r.pc \notin Calling /\ q.outer = r.outer
    BY <1>1, <1>3 DEF Calling, Same
  <2> QED BY <1>1, <2>1, CallIsOver
<1>5. Own(q) = Own(r)
  BY <1>1, <1>3 DEF Own
<1>6. /\ Listed(q, cache, records) = Listed(r, cache, records) \cup {r.id}
      /\ r.id \notin Listed(r, cache, records)
      /\ \A m \in Listed(r, cache, records) : m \in CachedIn(cache) /\ m # r.id
  BY <1>1, <1>3 DEF Listed, Leaving, Absent
<1>7. \A m \in Listed(r, cache, records) : SerialIn(m, cache, records) # s
  BY <1>1, <1>6 DEF HeapSound
<1>8. /\ ListOf(Listed(q, cache, records), LRUList', cache, records)
      /\ IsFiniteSet(DOMAIN LRUList')
      /\ Cardinality(DOMAIN LRUList') = Cardinality(DOMAIN LRUList) + 1
  <2>1. /\ ListOf(Listed(r, cache, records), LRUList, cache, records)
        /\ IsFiniteSet(DOMAIN LRUList)
    BY <1>1, BookFacts DEF LimitKept
  <2>2. s \notin DOMAIN LRUList
    BY <1>7, <2>1 DEF ListOf
  <2>3. \A k \in DOMAIN LRUList : LRUList'[k] = LRUList[k]
    BY <1>2, <2>2
  <2> HIDE DEF q, r
  <2> QED BY <1>2, <1>6, <1>7, <2>1, <2>3, Enlisted
<1>9. LimitKept(q, LRUList')
  <2>1. Cardinality(DOMAIN LRUList) \in Nat
    BY <1>1, FS_CardinalityType DEF LimitKept
  <2>2. Cardinality(DOMAIN LRUList) <= SizeLimit
    BY <1>1, <2>1, CacheAssumption DEF LimitKept, Exceeding, One
  <2> QED BY <1>3, <1>8, <2>1, <2>2, CacheAssumption DEF LimitKept, Exceeding, Calling, One
<1>10. SlotsSound(q, slotLocks, locks) /\ Frames(q, cache, slotLocks)
  <2>1. r.pc \in Owning /\ q.pc \in Owning \ {"loadRow", "addRead"}
    BY <1>1, <1>3 DEF Owning
  <2>2. q.id = r.id /\ q.outer = r.outer
    BY <1>3 DEF Same
  <2> QED BY <1>1, <2>1, <2>2, SlotsStay, StaysWith
<1>11. StepSound(q, cache, LRUList', slotLocks, records)
  <2>1. slotLocks[r.id] = r.lock
    BY <1>1 DEF StepSound, Owning
  <2> QED BY <1>3, <1>4, <2>1 DEF StepSound, Same, Knowing
<1> QED BY <1>2, <1>4, <1>5, <1>8, <1>9, <1>10, <1>11, BookFacts DEF BooksNow, Books

LEMMA RelUnslotBooks ==
  ASSUME NEW name, TypedWith(name), NEW t \in Process, BooksNow(t), RelUnslot(t)
  PROVE  BooksNow(t)'
<1> DEFINE r == th[t]
           q == th'[t]
<1>1. /\ r.pc = "relUnslot" /\ r \in States(Len(locks), Len(records), serial)
      /\ HeapOK /\ NamesOK(name) /\ Shape(r) /\ LimitKept(r, LRUList)
      /\ CallSound(r, stored, unsaved) /\ SlotsSound(r, slotLocks, locks)
      /\ Ledger(Own(r), Got(r), cache, records, stored, unsaved)
      /\ HeapSound(cache, records, stored, unsaved)
      /\ ListOf(Listed(r, cache, records), LRUList, cache, records)
      /\ FreeSlot(r.id)
      /\ UNCHANGED <<cache, LRUList, serial, records, locks, stored, unsaved>>
  BY BookFacts DEF RelUnslot, At, callVars
<1>2. /\ r.pc \in Owning /\ r.pc \notin Calling /\ r.outer = <<>> /\ r.id \in Identifier
      /\ r.pc \notin Leaving \cup Absent /\ Own(r) = NoRef /\ Got(r) = NoRef
  <2>1. r.pc \in Owning /\ r.pc \notin Calling /\ r.pc \notin Leaving \cup Absent
        /\ Own(r) = NoRef /\ r.id \in Identifier
    BY <1>1 DEF Owning, Calling, Leaving, Absent, Own, Shape
  <2> HIDE DEF Calling
  <2> QED BY <1>1, <2>1 DEF CallSound, Got, Adding
<1>3. \A j \in Identifier : slotLocks'[j] = IF j = r.id THEN null ELSE slotLocks[j]
  BY <1>1, <1>2, FreedSlot
<1>4. \A i \in Identifier : slotLocks'[i] # null =>
        i \in Unknown /\ LoadLock(locks[slotLocks'[i]])
  <2> HIDE DEF r
  <2> QED BY <1>1, <1>2, <1>3, OneSlotFreed
<1>5. Listed(r, cache, records) = Unreferenced(cache, records)
  BY <1>2 DEF Listed, Unreferenced
<1>6. CASE r.exceeded
  <2>1. q = [r EXCEPT !.pc = "recCopy"]
    BY <1>6, Became DEF RelUnslot
  <2>2. q.pc = "recCopy" /\ Same(q, r) /\ q.exceeded = r.exceeded /\ q.outer = <<>>
    BY <1>1, <1>2, <2>1 DEF States, Same
  <2>3. q.pc \notin Calling \cup Owning \cup Waiting \cup Leaving \cup Absent
    BY <2>2 DEF Calling, Owning, Waiting, Leaving, Absent
  <2>4. CallSound(q, stored, unsaved) /\ Got(q) = NoRef
    BY <1>1, <1>2, <2>2, <2>3, CallIsOver
  <2>5. SlotsSound(q, slotLocks', locks)
    BY <1>4 DEF SlotsSound
  <2>6. StepSound(q, cache, LRUList, slotLocks', records) /\ Own(q) = NoRef
    BY <2>2, <2>3, <2>4 DEF StepSound, Knowing, Own
  <2>7. LimitKept(q, LRUList)
    BY <1>1, <2>2 DEF LimitKept, Exceeding, Calling, One
  <2> QED BY <1>1, <1>2, <2>2, <2>3, <2>4, <2>5, <2>6, <2>7, NoFrames, QuietBooks, BookFacts
          DEF BooksNow
<1>7. CASE ~r.exceeded
  <2>1. q = Idle
    BY <1>7, Became DEF RelUnslot
  <2>2. IsFiniteSet(DOMAIN LRUList) /\ Cardinality(DOMAIN LRUList) <= SizeLimit
    <3>1. Cardinality(DOMAIN LRUList) \in Nat
      BY <1>1, FS_CardinalityType DEF LimitKept
    <3>2. r.exceeded = (Cardinality(DOMAIN LRUList) > SizeLimit)
      BY <1>1 DEF LimitKept
    <3>3. ~(Cardinality(DOMAIN LRUList) > SizeLimit)
      BY <1>7, <3>2
    <3> QED BY <1>1, <3>1, <3>3, CacheAssumption DEF LimitKept
  <2> QED BY <1>1, <1>2, <1>4, <1>5, <2>1, <2>2, IdleBooks DEF BooksNow
<1> QED BY <1>6, <1>7
---------------------------------------------------------------------------
(* recycle.                                                                 *)

LEMMA RecCopyBooks ==
  ASSUME NEW name, TypedWith(name), NEW t \in Process, BooksNow(t), RecCopy(t)
  PROVE  BooksNow(t)'
<1> DEFINE r == th[t]
           q == th'[t]
           todo == {[serial |-> s, id |-> LRUList[s]] : s \in DOMAIN LRUList}
<1>1. /\ r.pc = "recCopy" /\ r \in States(Len(locks), Len(records), serial)
      /\ LimitKept(r, LRUList) /\ CallSound(r, stored, unsaved)
      /\ SlotsSound(r, slotLocks, locks)
      /\ Ledger(Own(r), Got(r), cache, records, stored, unsaved)
      /\ HeapSound(cache, records, stored, unsaved)
      /\ ListOf(Listed(r, cache, records), LRUList, cache, records)
      /\ UNCHANGED <<cache, LRUList, slotLocks, serial, records, locks, stored, unsaved>>
  BY BookFacts DEF RecCopy, At, callVars
<1>2. q = TryNext(t, todo)
  BY Became DEF RecCopy
<1>3. r.outer = <<>> /\ Own(r) = NoRef /\ Got(r) = NoRef /\ r.pc \notin Leaving \cup Absent
      /\ r.pc \notin Owning \cup Calling
  BY <1>1 DEF CallSound, Calling, Own, Got, Adding, Leaving, Absent, Owning
<1>4. Claims(r) = {}
  <2>1. Len(r.outer) = 0
    BY <1>3, EmptySeq
  <2> HIDE DEF Owning
  <2> QED BY <1>3, <2>1 DEF Claims
<1>5. CASE todo = {}
  <2>1. DOMAIN LRUList = {} /\ q = Idle
    BY <1>2, <1>5 DEF TryNext
  <2>2. IsFiniteSet(DOMAIN LRUList) /\ Cardinality(DOMAIN LRUList) <= SizeLimit
    BY <2>1, FS_EmptySet, CacheAssumption
  <2>3. Listed(r, cache, records) = Unreferenced(cache, records)
    BY <1>3 DEF Listed, Unreferenced
  <2>4. \A i \in Identifier : slotLocks[i] # null =>
          i \in Unknown /\ LoadLock(locks[slotLocks[i]])
    <3> HIDE DEF Owning
    <3> QED BY <1>1, <1>3, <1>4 DEF SlotsSound
  <2> QED BY <1>1, <1>3, <2>1, <2>2, <2>3, <2>4, IdleBooks DEF BooksNow
<1>6. CASE todo # {}
  <2>1. q = [r EXCEPT !.pc = "recSlot", !.todo = todo]
    BY <1>2, <1>6 DEF TryNext
  <2>2. q.pc = "recSlot" /\ q.id = r.id /\ q.outer = <<>> /\ q.todo = todo
    BY <1>1, <1>3, <2>1 DEF States
  <2>3. q.pc \notin Calling \cup Owning \cup Waiting \cup Leaving \cup Absent
    BY <2>2 DEF Calling, Owning, Waiting, Leaving, Absent
  <2>4. CallSound(q, stored, unsaved) /\ Got(q) = NoRef
    BY <1>1, <1>3, <2>2, <2>3, CallIsOver
  <2>5. SlotsSound(q, slotLocks, locks)
    BY <1>1, <1>3, <2>2, SlotsStay
  <2>6. StepSound(q, cache, LRUList, slotLocks, records) /\ Own(q) = NoRef
    BY <2>2, <2>3, <2>4 DEF StepSound, Knowing, Own
  <2>7. LimitKept(q, LRUList)
    BY <1>1, <2>2 DEF LimitKept, Exceeding, Calling, One
  <2> QED BY <1>1, <1>3, <2>2, <2>3, <2>4, <2>5, <2>6, <2>7, NoFrames, QuietBooks, BookFacts
          DEF BooksNow
<1> QED BY <1>5, <1>6

\* With nobody else at work the oldest entry is free, and is recycled.
LEMMA RecSlotBooks ==
  ASSUME NEW name, TypedWith(name), NEW t \in Process, BooksNow(t), RecSlot(t)
  PROVE  BooksNow(t)'
<1> DEFINE r == th[t]
           q == th'[t]
<1>1. /\ r.pc = "recSlot" /\ r \in States(Len(locks), Len(records), serial)
      /\ LimitKept(r, LRUList) /\ CallSound(r, stored, unsaved)
      /\ SlotsSound(r, slotLocks, locks) /\ HeapOK /\ NamesOK(name)
      /\ StepSound(r, cache, LRUList, slotLocks, records)
      /\ ListOf(Listed(r, cache, records), LRUList, cache, records)
      /\ UNCHANGED <<cache, LRUList, serial, records, stored, unsaved>>
  BY BookFacts DEF RecSlot, At, callVars
<1>2. r.outer = <<>> /\ Own(r) = NoRef /\ Got(r) = NoRef /\ r.pc \notin Leaving \cup Absent
      /\ r.pc \notin Owning \cup Calling
  BY <1>1 DEF CallSound, Calling, Own, Got, Adding, Leaving, Absent, Owning
<1>3. Claims(r) = {}
  <2>1. Len(r.outer) = 0
    BY <1>2, EmptySeq
  <2> HIDE DEF Owning
  <2> QED BY <1>2, <2>1 DEF Claims
<1>4. PICK entry \in r.todo :
        LET found == cache[entry.id]
            skip == slotLocks[entry.id] # null IN
        /\ locks' = Append(locks, [lockState |-> "Recycling", alreadyInvalid |-> FALSE,
                                   accessRecord |-> IF skip THEN null ELSE found])
        /\ slotLocks' = [slotLocks EXCEPT ![entry.id] = Len(locks')]
        /\ Become(t, IF skip THEN TryNext(t, r.todo \ {entry})
                     ELSE [r EXCEPT !.pc = IF found = null THEN "failed" ELSE "recUnlist",
                             !.id = entry.id, !.serial = entry.serial, !.rec = found,
                             !.lock = Len(locks')])
  BY DEF RecSlot
<1>5. PICK s \in DOMAIN LRUList : entry = [serial |-> s, id |-> LRUList[s]]
  BY <1>1 DEF StepSound
<1> DEFINE i == LRUList[s]
<1>6. /\ entry.serial = s /\ entry.id = i /\ i \in CachedIn(cache)
      /\ Counted(i, cache, records) = 0 /\ SerialIn(i, cache, records) = s
  <2>1. i \in Listed(r, cache, records) /\ SerialIn(i, cache, records) = s
    BY <1>1 DEF ListOf
  <2> QED BY <1>2, <1>5, <2>1 DEF Listed
<1>7. /\ i \in Message /\ i \in Identifier /\ cache[i] # null
      /\ cache[i] \in 1..Len(records) /\ i \notin Unknown
  BY <1>1, <1>6, CachedFacts, CacheAssumption DEF CachedIn
<1>8. slotLocks[i] = null
  BY <1>1, <1>3, <1>7 DEF SlotsSound
<1> DEFINE new == [lockState |-> "Recycling", accessRecord |-> cache[i],
                   alreadyInvalid |-> FALSE]
<1>9. /\ PutLock(new, i) /\ new \in LockType(Len(records))
      /\ Become(t, [r EXCEPT !.pc = "recUnlist", !.id = i, !.serial = s, !.rec = cache[i],
                             !.lock = Len(locks')])
  BY <1>4, <1>6, <1>7, <1>8 DEF PutLock, LockType
<1>10. /\ q.pc = "recUnlist" /\ q.id = i /\ q.serial = s /\ q.rec = cache[i]
       /\ q.lock = Len(locks') /\ q.outer = <<>>
  <2>1. q = [r EXCEPT !.pc = "recUnlist", !.id = i, !.serial = s, !.rec = cache[i],
                      !.lock = Len(locks')]
    BY <1>9, Became
  <2> HIDE DEF i
  <2> QED BY <1>1, <1>2, <2>1 DEF States
<1>11. /\ \A l \in 1..Len(locks) : locks'[l] = locks[l]
       /\ \A j \in Identifier : slotLocks'[j] = IF j = i THEN Len(locks') ELSE slotLocks[j]
  <2> HIDE DEF new, i
  <2> QED BY <1>1, <1>7, <1>9, NewLock
<1> HIDE DEF i
<1>12. q.pc \in Owning \ {"loadRow", "addRead"} /\ q.pc \notin Calling \cup Waiting
       /\ q.pc \notin Leaving \cup Absent
  BY <1>10 DEF Calling, Owning, Waiting, Leaving, Absent
<1>13. CallSound(q, stored, unsaved) /\ Got(q) = NoRef
  BY <1>1, <1>2, <1>10, <1>12, CallIsOver
<1>14. SlotsSound(q, slotLocks', locks')
  <2>1. i \in Claims(q)
    BY <1>10, <1>12 DEF Claims
  <2>2. \A j \in Identifier : slotLocks[j] # null => slotLocks[j] \in 1..Len(locks)
    BY <1>1 DEF HeapOK
  <2> HIDE DEF q, r, Owning
  <2> QED BY <1>1, <1>2, <1>3, <1>10, <1>11, <1>12, <2>1, <2>2 DEF SlotsSound
<1>15. StepSound(q, cache, LRUList, slotLocks', records) /\ Own(q) = NoRef
  BY <1>6, <1>7, <1>10, <1>11, <1>13 DEF StepSound, Own
<1>16. LimitKept(q, LRUList)
  BY <1>1, <1>10 DEF LimitKept, Exceeding, Calling, One
<1> QED BY <1>1, <1>2, <1>10, <1>12, <1>13, <1>14, <1>15, <1>16, NoFrames, QuietBooks, BookFacts
        DEF BooksNow

LEMMA RecUnlistBooks ==
  ASSUME NEW name, TypedWith(name), NEW t \in Process, BooksNow(t), RecUnlist(t)
  PROVE  BooksNow(t)'
<1> DEFINE r == th[t]
           q == th'[t]
<1>1. /\ r.pc = "recUnlist" /\ r.id \in CachedIn(cache) /\ r.rec = cache[r.id]
      /\ StepSound(r, cache, LRUList, slotLocks, records) /\ LimitKept(r, LRUList)
      /\ CallSound(r, stored, unsaved) /\ Frames(r, cache, slotLocks)
      /\ SlotsSound(r, slotLocks, locks) /\ Counted(r.id, cache, records) = 0
      /\ r.serial = SerialIn(r.id, cache, records)
  BY BookFacts DEF RecUnlist, At, StepSound, Knowing
<1>2. /\ DOMAIN LRUList' = DOMAIN LRUList \ {SerialIn(r.id, cache, records)}
      /\ \A k \in DOMAIN LRUList' : LRUList'[k] = LRUList[k]
      /\ Goto(t, "recDrop")
      /\ UNCHANGED <<cache, slotLocks, serial, records, locks, stored, unsaved>>
  BY <1>1 DEF RecUnlist, Unlist, callVars
<1>3. /\ q.pc = "recDrop" /\ Same(q, r) /\ q.lock = r.lock /\ q.rec = r.rec
  BY <1>2, Went
<1>4. CallSound(q, stored, unsaved) /\ Got(q) = NoRef /\ Got(r) = NoRef
  <2>1. q.pc \notin Calling /\ r.pc \notin Calling /\ q.outer = r.outer
    BY <1>1, <1>3 DEF Calling, Same
  <2> QED BY <1>1, <2>1, CallIsOver
<1>5. Own(q) = Own(r)
  BY <1>1, <1>3 DEF Own
<1>6. /\ Listed(q, cache, records) = Listed(r, cache, records) \ {r.id}
      /\ r.id \in Listed(r, cache, records)
  BY <1>1, <1>3 DEF Listed, Leaving, Absent, Same
<1>7. /\ ListOf(Listed(q, cache, records), LRUList', cache, records)
      /\ IsFiniteSet(DOMAIN LRUList')
      /\ Cardinality(DOMAIN LRUList') = Cardinality(DOMAIN LRUList) - 1
  <2>1. /\ ListOf(Listed(r, cache, records), LRUList, cache, records)
        /\ IsFiniteSet(DOMAIN LRUList)
    BY <1>1, BookFacts DEF LimitKept
  <2> HIDE DEF q, r
  <2> QED BY <1>2, <1>6, <2>1, Unlisted
<1>8. LimitKept(q, LRUList')
  <2>1. Cardinality(DOMAIN LRUList) \in Nat
    BY <1>1, FS_CardinalityType DEF LimitKept
  <2> QED BY <1>1, <1>3, <1>7, <2>1, CacheAssumption DEF LimitKept, Exceeding, Calling, One
<1>9. SlotsSound(q, slotLocks, locks) /\ Frames(q, cache, slotLocks)
  <2>1. r.pc \in Owning /\ q.pc \in Owning \ {"loadRow", "addRead"}
    BY <1>1, <1>3 DEF Owning
  <2>2. q.id = r.id /\ q.outer = r.outer
    BY <1>3 DEF Same
  <2> QED BY <1>1, <2>1, <2>2, SlotsStay, StaysWith
<1>10. StepSound(q, cache, LRUList', slotLocks, records)
  <2>1. slotLocks[r.id] = r.lock
    BY <1>1 DEF StepSound, Owning
  <2> QED BY <1>1, <1>3, <1>4, <2>1 DEF StepSound, Same
<1> QED BY <1>2, <1>4, <1>5, <1>7, <1>8, <1>9, <1>10, BookFacts DEF BooksNow, Books

\* What nothing refers to leaves the cache; its reference is now the thread's.
LEMMA DroppedBooks ==
  ASSUME NEW ca, NEW rs, NEW st, NEW un, NEW i \in CachedIn(ca), HeapSound(ca, rs, st, un),
         Ledger(NoRef, NoRef, ca, rs, st, un), Counted(i, ca, rs) = 0, NEW ca2,
         CachedIn(ca2) = CachedIn(ca) \ {i}, \A m \in CachedIn(ca2) : ca2[m] = ca[m]
  PROVE  /\ HeapSound(ca2, rs, st, un)
         /\ Ledger(RefOf[i], NoRef, ca2, rs, st, un)
         /\ RefOf[i] # NoRef => RefOf[i] \in CachedIn(ca2)
<1> DEFINE C == CachedIn(ca)
<1>1. /\ i \notin un /\ \A c \in C \cup Saved(st, un) : RefOf[c] # i
  BY Uncounted
<1>2. /\ IsFiniteSet(C) /\ IsFiniteSet(Saved(st, un)) /\ IsFiniteSet(C \ {i})
      /\ Range(Rows) \subseteq st /\ un \subseteq C
      /\ \A m \in C : rs[ca[m]].message = m
      /\ \A m, n \in C : SerialIn(m, ca, rs) = SerialIn(n, ca, rs) => m = n
      /\ \A m \in C : RefOf[m] # NoRef =>
           RefOf[m] \in C /\ rs[ca[m]].ref = ca[RefOf[m]]
      /\ \A c \in Saved(st, un) : RefOf[c] # NoRef => RefOf[c] \in C
  <2>1. IsFiniteSet(C) => IsFiniteSet(C \ {i})
    BY FS_RemoveElement
  <2> QED BY <2>1 DEF HeapSound
<1>3. \A m \in C \ {i} : /\ ca2[m] = ca[m] /\ Counted(m, ca2, rs) = Counted(m, ca, rs)
                         /\ SerialIn(m, ca2, rs) = SerialIn(m, ca, rs)
  BY DEF Counted, SerialIn
<1>4. \A m \in C : RefOf[m] # NoRef => RefOf[m] \in C \ {i}
  BY <1>1, <1>2
<1>5. HeapSound(ca2, rs, st, un)
  <2> HIDE DEF C
  <2>1. CachedIn(ca2) = C \ {i}
    BY DEF C
  <2>2. /\ \A m \in C \ {i} : rs[ca2[m]].message = m
        /\ \A m \in C \ {i} : RefOf[m] # NoRef =>
             RefOf[m] \in C \ {i} /\ rs[ca2[m]].ref = ca2[RefOf[m]]
    BY <1>2, <1>3, <1>4
  <2>3. \A m, n \in C \ {i} : SerialIn(m, ca2, rs) = SerialIn(n, ca2, rs) => m = n
    BY <1>2, <1>3
  <2>4. /\ un \subseteq C \ {i}
        /\ \A c \in Saved(st, un) : RefOf[c] # NoRef => RefOf[c] \in C \ {i}
    BY <1>1, <1>2
  <2> QED BY <1>2, <2>1, <2>2, <2>3, <2>4 DEF HeapSound
<1>6. ASSUME NEW m \in C \ {i}
      PROVE  Counted(m, ca2, rs) = Refs(m, ca2, st, un) + One(RefOf[i] = m) + One(NoRef = m)
  <2>1. Counted(m, ca, rs) = Refs(m, ca, st, un) + One(NoRef = m) + One(NoRef = m)
    BY DEF Ledger
  <2>2. Cardinality(Kids(m, C \ {i})) = Cardinality(Kids(m, C)) - One(RefOf[i] = m)
    BY <1>2, KidRemoved
  <2>3. /\ Cardinality(Kids(m, C)) \in Nat /\ Cardinality(Kids(m, Saved(st, un))) \in Nat
        /\ One(RefOf[i] = m) \in Nat /\ One(m \in un) \in Nat
    BY <1>2, KidsCount DEF One
  <2>4. One(NoRef = m) = 0
    BY CacheAssumption DEF One, CachedIn
  <2>5. /\ Refs(m, ca, st, un)
             = Cardinality(Kids(m, C)) + Cardinality(Kids(m, Saved(st, un))) + One(m \in un)
        /\ Refs(m, ca2, st, un)
             = Cardinality(Kids(m, C \ {i})) + Cardinality(Kids(m, Saved(st, un)))
               + One(m \in un)
    BY DEF Refs
  <2> HIDE DEF C
  <2> QED BY <1>3, <2>1, <2>2, <2>3, <2>4, <2>5
<1> QED BY <1>4, <1>5, <1>6 DEF Ledger

LEMMA RecDropBooks ==
  ASSUME NEW name, TypedWith(name), NEW t \in Process, BooksNow(t), RecDrop(t)
  PROVE  BooksNow(t)'
<1> DEFINE r == th[t]
           q == th'[t]
           i == r.id
<1>1. /\ r.pc = "recDrop" /\ i \in CachedIn(cache) /\ HeapOK
      /\ StepSound(r, cache, LRUList, slotLocks, records) /\ LimitKept(r, LRUList)
      /\ CallSound(r, stored, unsaved) /\ Frames(r, cache, slotLocks)
      /\ SlotsSound(r, slotLocks, locks) /\ Counted(i, cache, records) = 0
      /\ HeapSound(cache, records, stored, unsaved)
      /\ Ledger(Own(r), Got(r), cache, records, stored, unsaved)
  BY BookFacts DEF RecDrop, At, StepSound, Knowing
<1>2. /\ cache' = [cache EXCEPT ![i] = null] /\ Goto(t, "recInvalidate")
      /\ UNCHANGED <<LRUList, slotLocks, serial, records, locks, stored, unsaved>>
  BY DEF RecDrop, callVars
<1>3. /\ q.pc = "recInvalidate" /\ Same(q, r) /\ q.lock = r.lock /\ q.exceeded = r.exceeded
  BY <1>2, Went
<1>4. /\ CachedIn(cache') = CachedIn(cache) \ {i}
      /\ \A m \in CachedIn(cache') : cache'[m] = cache[m]
  <2>1. /\ \A m \in Message : cache'[m] = IF m = i THEN null ELSE cache[m]
    BY <1>1, <1>2 DEF HeapOK, Identifier
  <2> QED BY <2>1 DEF CachedIn
<1>5. CallSound(q, stored, unsaved) /\ Got(q) = NoRef /\ Got(r) = NoRef
  <2>1. q.pc \notin Calling /\ r.pc \notin Calling /\ q.outer = r.outer
    BY <1>1, <1>3 DEF Calling, Same
  <2> QED BY <1>1, <2>1, CallIsOver
<1>6. Own(r) = NoRef /\ Own(q) = RefOf[i] /\ r.outer = <<>>
  BY <1>1, <1>3 DEF Own, Same, CallSound, Calling
<1>7. /\ HeapSound(cache', records', stored', unsaved')
      /\ Ledger(Own(q), Got(q), cache', records', stored', unsaved')
      /\ RefOf[i] # NoRef => RefOf[i] \in CachedIn(cache')
  <2>1. Ledger(NoRef, NoRef, cache, records, stored, unsaved)
    BY <1>1, <1>5, <1>6
  <2>2. /\ HeapSound(cache', records, stored, unsaved)
        /\ Ledger(RefOf[i], NoRef, cache', records, stored, unsaved)
        /\ RefOf[i] # NoRef => RefOf[i] \in CachedIn(cache')
    <3> HIDE DEF i
    <3> QED BY <1>1, <1>4, <2>1, DroppedBooks
  <2> QED BY <1>2, <1>5, <1>6, <2>2
<1>8. ListOf(Listed(q, cache', records'), LRUList', cache', records')
  <2>1. \A m \in CachedIn(cache') :
          /\ Counted(m, cache', records) = Counted(m, cache, records)
          /\ SerialIn(m, cache', records) = SerialIn(m, cache, records)
    BY <1>4 DEF Counted, SerialIn
  <2>2. /\ Listed(r, cache, records)
             = {m \in CachedIn(cache) : Counted(m, cache, records) = 0 /\ m # i}
        /\ Listed(q, cache', records) = {m \in CachedIn(cache') : Counted(m, cache', records) = 0}
    BY <1>1, <1>3 DEF Listed, Leaving, Absent
  <2>3. Listed(q, cache', records) = Listed(r, cache, records)
    BY <1>4, <2>1, <2>2
  <2>4. \A m \in Listed(r, cache, records) :
          SerialIn(m, cache', records) = SerialIn(m, cache, records)
    BY <1>4, <2>1, <2>2
  <2> QED BY <1>2, <2>3, <2>4, ListStays, BookFacts
<1>9. SlotsSound(q, slotLocks, locks)
  <2>1. r.pc \in Owning /\ q.pc \in Owning \ {"loadRow", "addRead"}
    BY <1>1, <1>3 DEF Owning
  <2>2. q.id = r.id /\ q.outer = r.outer
    BY <1>3 DEF Same
  <2> QED BY <1>1, <2>1, <2>2, SlotsStay
<1>10. Frames(q, cache', slotLocks)
  BY <1>3, <1>6, NoFrames DEF Same
<1>11. StepSound(q, cache', LRUList, slotLocks, records)
  <2>1. slotLocks[i] = r.lock
    BY <1>1 DEF StepSound, Owning
  <2> QED BY <1>2, <1>3, <1>5, <1>7, <2>1 DEF StepSound, Same, Knowing
<1>12. LimitKept(q, LRUList)
  BY <1>1, <1>3 DEF LimitKept, Exceeding, Calling, One
<1> QED BY <1>2, <1>5, <1>7, <1>8, <1>9, <1>10, <1>11, <1>12 DEF BooksNow, Books

LEMMA RecUnslotBooks ==
  ASSUME NEW name, TypedWith(name), NEW t \in Process, BooksNow(t), RecUnslot(t)
  PROVE  BooksNow(t)'
<1> DEFINE r == th[t]
           q == th'[t]
<1>1. /\ r.pc = "recUnslot" /\ r \in States(Len(locks), Len(records), serial)
      /\ HeapOK /\ NamesOK(name) /\ Shape(r) /\ LimitKept(r, LRUList)
      /\ CallSound(r, stored, unsaved) /\ SlotsSound(r, slotLocks, locks)
      /\ StepSound(r, cache, LRUList, slotLocks, records)
      /\ Ledger(Own(r), Got(r), cache, records, stored, unsaved)
      /\ HeapSound(cache, records, stored, unsaved)
      /\ ListOf(Listed(r, cache, records), LRUList, cache, records)
      /\ FreeSlot(r.id) /\ q = Released(t)
      /\ UNCHANGED <<cache, LRUList, serial, records, locks, stored, unsaved>>
  BY BookFacts, Became DEF RecUnslot, At, callVars
<1>2. /\ r.pc \in Owning /\ r.pc \notin Calling /\ r.outer = <<>> /\ r.id \in Identifier
      /\ r.pc \notin Leaving \cup Absent /\ Own(r) = RefOf[r.id] /\ Got(r) = NoRef
  <2>1. r.pc \in Owning /\ r.pc \notin Calling /\ r.pc \notin Leaving \cup Absent
        /\ Own(r) = RefOf[r.id] /\ r.id \in Identifier
    BY <1>1 DEF Owning, Calling, Leaving, Absent, Own, Shape
  <2> HIDE DEF Calling
  <2> QED BY <1>1, <2>1 DEF CallSound, Got, Adding
<1>3. \A j \in Identifier : slotLocks'[j] = IF j = r.id THEN null ELSE slotLocks[j]
  BY <1>1, <1>2, FreedSlot
<1>4. \A i \in Identifier : slotLocks'[i] # null =>
        i \in Unknown /\ LoadLock(locks[slotLocks'[i]])
  <2> HIDE DEF r
  <2> QED BY <1>1, <1>2, <1>3, OneSlotFreed
<1>5. IsFiniteSet(DOMAIN LRUList) /\ Cardinality(DOMAIN LRUList) \in Nat
      /\ Cardinality(DOMAIN LRUList) <= SizeLimit
  <2>1. Cardinality(DOMAIN LRUList) \in Nat
    BY <1>1, FS_CardinalityType DEF LimitKept
  <2> QED BY <1>1, <2>1, CacheAssumption DEF LimitKept, Exceeding, One
<1>6. CASE RefOf[r.id] = NoRef
  <2>1. q = Idle
    BY <1>1, <1>6 DEF Released
  <2>2. Listed(r, cache, records) = Unreferenced(cache, records)
    BY <1>2 DEF Listed, Unreferenced
  <2> QED BY <1>1, <1>2, <1>4, <1>5, <1>6, <2>1, <2>2, IdleBooks DEF BooksNow
<1>7. CASE RefOf[r.id] # NoRef
  <2>1. q = [r EXCEPT !.pc = "relRead", !.id = RefOf[r.id], !.exceeded = FALSE]
    BY <1>1, <1>7 DEF Released
  <2>2. q.pc = "relRead" /\ q.id = RefOf[r.id] /\ q.exceeded = FALSE /\ q.outer = <<>>
    BY <1>1, <1>2, <2>1 DEF States
  <2>3. q.pc \notin Calling \cup Owning \cup Waiting \cup Leaving \cup Absent
    BY <2>2 DEF Calling, Owning, Waiting, Leaving, Absent
  <2>4. CallSound(q, stored, unsaved) /\ Got(q) = NoRef
    BY <1>1, <1>2, <2>2, <2>3, CallIsOver
  <2>5. SlotsSound(q, slotLocks', locks)
    BY <1>4 DEF SlotsSound
  <2>6. StepSound(q, cache, LRUList, slotLocks', records) /\ Own(q) = Own(r)
    <3>1. RefOf[r.id] \in CachedIn(cache)
      BY <1>1, <1>7 DEF StepSound
    <3> QED BY <1>2, <2>2, <2>3, <2>4, <3>1 DEF StepSound, Knowing, Own
  <2>7. LimitKept(q, LRUList)
    BY <1>5, <2>2, CacheAssumption DEF LimitKept, Exceeding, Calling, One
  <2> QED BY <1>1, <1>2, <2>2, <2>3, <2>4, <2>5, <2>6, <2>7, NoFrames, QuietBooks, BookFacts
          DEF BooksNow
<1> QED BY <1>6, <1>7
---------------------------------------------------------------------------
(* The calls a thread starts.                                               *)

\* LRUList and the slots between calls.
Settled(ca, lru, sl, rs, lk) ==
  /\ ListOf(Unreferenced(ca, rs), lru, ca, rs)
  /\ \A i \in Identifier : sl[i] # null => i \in Unknown /\ LoadLock(lk[sl[i]])
  /\ IsFiniteSet(DOMAIN lru) /\ Cardinality(DOMAIN lru) <= SizeLimit

LEMMA IdleFacts ==
  ASSUME NEW r, r.pc = "idle", NEW ca, NEW lru, NEW sl, NEW rs, NEW lk, NEW st, NEW un,
         Books(r, ca, lru, sl, rs, lk, st, un)
  PROVE  /\ Ledger(NoRef, NoRef, ca, rs, st, un)
         /\ HeapSound(ca, rs, st, un) /\ Settled(ca, lru, sl, rs, lk)
<1>1. /\ r.pc \notin Calling \cup Owning \cup Leaving \cup Absent \cup Exceeding
      /\ Own(r) = NoRef
  BY DEF Calling, Owning, Leaving, Absent, Exceeding, Own
<1> HIDE DEF Calling, Owning, Leaving, Absent, Exceeding
<1>2. Got(r) = NoRef /\ r.outer = <<>> /\ Len(r.outer) = 0
  BY <1>1, EmptySeq DEF Got, Adding, Books, CallSound
<1>3. Listed(r, ca, rs) = Unreferenced(ca, rs)
  BY <1>1 DEF Listed, Unreferenced
<1>4. Claims(r) = {}
  BY <1>1, <1>2 DEF Claims
<1>5. \A i \in Identifier : sl[i] # null => i \in Unknown /\ LoadLock(lk[sl[i]])
  BY <1>1, <1>4 DEF Books, SlotsSound
<1>6. IsFiniteSet(DOMAIN lru) /\ Cardinality(DOMAIN lru) <= SizeLimit
  <2>1. /\ IsFiniteSet(DOMAIN lru)
        /\ Cardinality(DOMAIN lru) <= SizeLimit + One(r.pc \in Exceeding)
    BY DEF Books, LimitKept
  <2>2. Cardinality(DOMAIN lru) \in Nat /\ One(r.pc \in Exceeding) = 0
    BY <1>1, <2>1, FS_CardinalityType DEF One
  <2> QED BY <2>1, <2>2, CacheAssumption
<1> QED BY <1>1, <1>2, <1>3, <1>5, <1>6 DEF Books, Settled

LEMMA StartedBooks ==
  ASSUME NEW q, q.pc \in {"getSlot", "addSlot", "relRead"}, q.outer = <<>>,
         ~q.exceeded, Got(q) = NoRef,
         NEW ca, NEW lru, NEW sl, NEW rs, NEW lk, NEW st, NEW un,
         Ledger(Own(q), NoRef, ca, rs, st, un),
         HeapSound(ca, rs, st, un), Settled(ca, lru, sl, rs, lk),
         CallSound(q, st, un), q.pc = "relRead" => q.id \in CachedIn(ca)
  PROVE  Books(q, ca, lru, sl, rs, lk, st, un)
<1>1. Listed(q, ca, rs) = Unreferenced(ca, rs)
  BY DEF Listed, Leaving, Absent, Unreferenced
<1>2. SlotsSound(q, sl, lk)
  BY DEF SlotsSound, Settled
<1>3. LimitKept(q, lru)
  <2>1. Cardinality(DOMAIN lru) \in Nat /\ One(q.pc \in Exceeding) = 0
    BY FS_CardinalityType DEF One, Exceeding, Settled
  <2>2. q.pc \notin {"relInvalidate", "relUnslot"} /\ ~q.exceeded
    OBVIOUS
  <2> QED BY <2>1, <2>2, CacheAssumption DEF LimitKept, Settled
<1>4. StepSound(q, ca, lru, sl, rs)
  BY DEF StepSound, Owning, Waiting, Knowing
<1> QED BY <1>1, <1>2, <1>3, <1>4, NoFrames DEF Books, Settled

\* What queryDetail, save and the timer thread start with.
LEMMA StartBooks ==
  ASSUME NEW name, TypedWith(name), NEW t0 \in Process, Alone(t0), BooksNow(t0),
         OneCall', NEW t \in Process, NEW op, NEW target, NEW id, NEW pc, pc # "idle",
         Start(t, op, target, id, pc)
  PROVE  /\ Ledger(NoRef, NoRef, cache, records, stored, unsaved)
         /\ HeapSound(cache, records, stored, unsaved)
         /\ Settled(cache, LRUList, slotLocks, records, locks)
         /\ th'[t].pc = pc /\ th'[t].op = op /\ th'[t].target = target /\ th'[t].id = id
         /\ th'[t].outer = <<>> /\ th'[t].exceeded = FALSE
         /\ UNCHANGED <<cache, LRUList, slotLocks, serial, records, locks>>
         /\ Alone(t)'
<1>1. th'[t] = [Idle EXCEPT !.pc = pc, !.op = op, !.target = target, !.id = id]
      /\ \A u \in Process \ {t} : th'[u] = th[u]
  BY Became DEF Start
<1>2. /\ th'[t].pc = pc /\ th'[t].op = op /\ th'[t].target = target /\ th'[t].id = id
      /\ th'[t].outer = <<>> /\ th'[t].exceeded = FALSE
  BY <1>1 DEF Idle
<1>3. \A u \in Process : At(u, "idle")
  <2>1. th[t].pc = "idle" /\ \A u \in Process : u # t0 => th[u].pc = "idle"
    BY DEF Start, Alone, At
  <2>2. ASSUME t0 # t PROVE th[t0].pc = "idle"
    <3>1. (At(t0, "idle") \/ At(t, "idle"))'
      BY <2>2 DEF OneCall
    <3>2. th'[t0].pc = "idle" \/ th'[t].pc = "idle"
      BY <3>1 DEF At
    <3> QED BY <1>1, <1>2, <2>2, <3>2
  <2> QED BY <2>1, <2>2 DEF At
<1>4. Alone(t)'
  BY <1>3, <1>1 DEF Alone, At
<1>5. /\ Ledger(NoRef, NoRef, cache, records, stored, unsaved)
      /\ HeapSound(cache, records, stored, unsaved)
      /\ Settled(cache, LRUList, slotLocks, records, locks)
  <2> DEFINE r == th[t0]
  <2>1. r.pc = "idle"
    BY <1>3 DEF At
  <2>2. Books(r, cache, LRUList, slotLocks, records, locks, stored, unsaved)
    BY DEF BooksNow
  <2> HIDE DEF r
  <2> QED BY <2>1, <2>2, IdleFacts
<1> QED BY <1>2, <1>4, <1>5 DEF Start

LEMMA QueryBooks ==
  ASSUME NEW name, TypedWith(name), NEW t0 \in Process, Alone(t0), BooksNow(t0),
         OneCall', NEW t \in Thread, NEW i \in Identifier, Query(t, i)
  PROVE  Alone(t)' /\ BooksNow(t)'
<1> DEFINE q == th'[t]
<1>1. t \in Process /\ Start(t, "query", i, i, "getSlot") /\ UNCHANGED <<stored, unsaved>>
      /\ i \in stored \cup unsaved \cup Unknown
  BY DEF Query, Process
<1>2. q.pc = "getSlot" /\ q.op = "query" /\ q.id = i /\ q.outer = <<>> /\ q.exceeded = FALSE
  BY <1>1, StartBooks
<1>3. Own(q) = NoRef /\ Got(q) = NoRef
  BY <1>2 DEF Own, Got, Adding
<1>4. CallSound(q, stored, unsaved)
  BY <1>1, <1>2 DEF CallSound, Seeking, Calling
<1>5. Alone(t)' /\ UNCHANGED <<cache, LRUList, slotLocks, serial, records, locks>>
  BY <1>1, StartBooks
<1>6. Books(q, cache, LRUList, slotLocks, records, locks, stored, unsaved)
  <2>1. /\ Ledger(Own(q), NoRef, cache, records, stored, unsaved)
        /\ HeapSound(cache, records, stored, unsaved)
        /\ Settled(cache, LRUList, slotLocks, records, locks)
    BY <1>1, <1>3, StartBooks
  <2> HIDE DEF q
  <2> QED BY <1>2, <1>3, <1>4, <2>1, StartedBooks
<1> QED BY <1>1, <1>5, <1>6 DEF BooksNow

LEMMA SaveBooks ==
  ASSUME NEW name, TypedWith(name), NEW t0 \in Process, Alone(t0), BooksNow(t0),
         OneCall', NEW t \in Thread, NEW m \in Message, Save(t, m)
  PROVE  Alone(t)' /\ BooksNow(t)'
<1> DEFINE q == th'[t]
<1>1. t \in Process /\ UNCHANGED <<stored, unsaved>> /\ m \notin stored \cup unsaved
      /\ RefOf[m] \in stored \cup unsaved \cup {NoRef}
  BY DEF Save, Process
<1>2. PICK pc \in {"addSlot", "getSlot"} :
        /\ pc = "addSlot" => RefOf[m] = NoRef /\ Start(t, "save", m, m, pc)
        /\ pc = "getSlot" => RefOf[m] # NoRef /\ Start(t, "save", m, RefOf[m], pc)
  BY DEF Save
<1>3. PICK id : /\ Start(t, "save", m, id, pc)
                /\ pc = "addSlot" => RefOf[m] = NoRef /\ id = m
                /\ pc = "getSlot" => RefOf[m] # NoRef /\ id = RefOf[m]
  BY <1>2
<1>4. /\ q.pc = pc /\ q.op = "save" /\ q.target = m /\ q.id = id
      /\ q.outer = <<>> /\ q.exceeded = FALSE
  BY <1>1, <1>3, StartBooks
<1>5. Bottom(q) = id
  BY <1>4 DEF Bottom
<1>6. Own(q) = NoRef /\ Got(q) = NoRef
  BY <1>1, <1>3, <1>4, <1>5 DEF Own, Got, Adding
<1>7. CallSound(q, stored, unsaved)
  <2>1. q.pc \in Seeking => q.pc = "getSlot"
    BY <1>4 DEF Seeking
  <2> QED BY <1>1, <1>3, <1>4, <1>5, <2>1 DEF CallSound
<1>8. Alone(t)' /\ UNCHANGED <<cache, LRUList, slotLocks, serial, records, locks>>
  BY <1>1, <1>3, StartBooks
<1>9. Books(q, cache, LRUList, slotLocks, records, locks, stored, unsaved)
  <2>1. /\ Ledger(Own(q), NoRef, cache, records, stored, unsaved)
        /\ HeapSound(cache, records, stored, unsaved)
        /\ Settled(cache, LRUList, slotLocks, records, locks)
    BY <1>1, <1>3, <1>6, StartBooks
  <2> HIDE DEF q
  <2> QED BY <1>4, <1>6, <1>7, <2>1, StartedBooks
<1> QED BY <1>1, <1>8, <1>9 DEF BooksNow

\* The reference of the queue becomes the timer thread's.
LEMMA FlushBooks ==
  ASSUME NEW name, TypedWith(name), NEW t0 \in Process, Alone(t0), BooksNow(t0),
         OneCall', NEW m \in Message, Flush(m)
  PROVE  Alone(Timer)' /\ BooksNow(Timer)'
<1> DEFINE q == th'[Timer]
<1>1. /\ Timer \in Process /\ Start(Timer, "flush", m, m, "relRead") /\ m \in unsaved
      /\ stored' = stored \cup {m} /\ unsaved' = unsaved \ {m}
  BY DEF Flush, Process
<1>2. q.pc = "relRead" /\ q.op = "flush" /\ q.id = m /\ q.outer = <<>> /\ q.exceeded = FALSE
  BY <1>1, StartBooks
<1>3. Own(q) = m /\ Got(q) = NoRef
  BY <1>2 DEF Own, Got, Adding
<1>4. CallSound(q, stored', unsaved')
  BY <1>2 DEF CallSound, Seeking, Calling
<1>5. /\ Ledger(NoRef, NoRef, cache, records, stored, unsaved)
      /\ HeapSound(cache, records, stored, unsaved)
      /\ Alone(Timer)' /\ UNCHANGED <<cache, LRUList, slotLocks, serial, records, locks>>
  BY <1>1, StartBooks
<1>6. Saved(stored', unsaved') = Saved(stored, unsaved)
  BY <1>1 DEF Saved
<1>7. HeapSound(cache, records, stored', unsaved') /\ m \in CachedIn(cache)
  BY <1>1, <1>5, <1>6 DEF HeapSound
<1>8. Ledger(m, NoRef, cache, records, stored', unsaved')
  <2> SUFFICES ASSUME NEW c \in CachedIn(cache)
               PROVE  Counted(c, cache, records)
                        = Refs(c, cache, stored', unsaved') + One(m = c) + One(NoRef = c)
    BY DEF Ledger
  <2>1. Counted(c, cache, records)
          = Refs(c, cache, stored, unsaved) + One(NoRef = c) + One(NoRef = c)
    BY <1>5 DEF Ledger
  <2>2. One(NoRef = c) = 0
    BY CacheAssumption DEF One, CachedIn
  <2>3. One(c \in unsaved) = One(c \in unsaved') + One(m = c)
    BY <1>1 DEF One
  <2>4. /\ Cardinality(Kids(c, CachedIn(cache))) \in Nat
        /\ Cardinality(Kids(c, Saved(stored, unsaved))) \in Nat
        /\ One(c \in unsaved') \in Nat /\ One(m = c) \in Nat
    BY <1>5, KidsCount DEF HeapSound, One
  <2>5. /\ Refs(c, cache, stored, unsaved)
             = Cardinality(Kids(c, CachedIn(cache)))
               + Cardinality(Kids(c, Saved(stored, unsaved))) + One(c \in unsaved)
        /\ Refs(c, cache, stored', unsaved')
             = Cardinality(Kids(c, CachedIn(cache)))
               + Cardinality(Kids(c, Saved(stored, unsaved))) + One(c \in unsaved')
    BY <1>6 DEF Refs
  <2> QED BY <2>1, <2>2, <2>3, <2>4, <2>5
<1>9. Books(q, cache, LRUList, slotLocks, records, locks, stored', unsaved')
  <2>1. Settled(cache, LRUList, slotLocks, records, locks)
    BY <1>1, StartBooks
  <2> HIDE DEF q
  <2> QED BY <1>2, <1>3, <1>4, <1>7, <1>8, <2>1, StartedBooks
<1> QED BY <1>5, <1>9 DEF BooksNow
---------------------------------------------------------------------------
(* The books are kept.                                                      *)

LEMMA RowsCount ==
  ASSUME NEW n \in 0..Len(Rows), NEW S \in SUBSET (1..n), NEW T,
         \A k \in S : Rows[k] \in T, \A m \in T : \E k \in S : Rows[k] = m
  PROVE  IsFiniteSet(T) /\ Cardinality(T) = Cardinality(S) /\ IsFiniteSet(S)
<1>1. /\ \A j, k \in S : Rows[j] = Rows[k] => j = k
      /\ n \in Nat
  BY WarmFacts
<1>2. IsFiniteSet(S)
  <2>1. IsFiniteSet(1..n)
    BY <1>1, FS_Interval
  <2> QED BY <2>1, FS_Subset
<1> DEFINE f == [k \in S |-> Rows[k]]
<1>3. f \in Bijection(S, T)
  <2>1. f \in [S -> T] /\ \A k \in S : f[k] = Rows[k]
    OBVIOUS
  <2> HIDE DEF f
  <2>2. IsInjective(f)
    BY <1>1, <2>1 DEF IsInjective
  <2> QED BY <2>1, <2>2 DEF Bijection, Injection, Surjection
<1>4. ExistsBijection(S, T)
  <2> HIDE DEF f
  <2> QED BY <1>3 DEF ExistsBijection
<1> QED BY <1>2, <1>4, FS_Bijection

LEMMA InitBooks == ASSUME Init PROVE CallInv
<1>1. PICK n \in 0..Len(Rows) :
        /\ records = WarmRecords(n)
        /\ cache = [i \in Identifier |->
                      IF \E k \in 1..n : Rows[k] = i
                      THEN CHOOSE k \in 1..n : Rows[k] = i ELSE null]
        /\ LRUList = [k \in {x \in 1..n : records[x].backReference = 0} |-> Rows[k]]
        /\ Cardinality(DOMAIN LRUList) <= SizeLimit
  BY DEF Init
<1>2. /\ th = [t \in Process |-> Idle] /\ slotLocks = [i \in Identifier |-> null]
      /\ stored = Range(Rows) /\ unsaved = {}
  BY DEF Init
<1>3. /\ n \in Nat
      /\ \A k \in 1..n : Rows[k] \in Message /\ Rows[k] \in Identifier
      /\ \A k \in 1..n : RefOf[Rows[k]] # NoRef => \E j \in 1..n : Rows[j] = RefOf[Rows[k]]
      /\ \A j, k \in 1..n : Rows[j] = Rows[k] => j = k
  BY <1>1, WarmFacts DEF Identifier
<1> DEFINE children(k) == {c \in 1..n : RefOf[Rows[c]] = Rows[k]}
           C == CachedIn(cache)
<1>4. \A k \in 1..n :
        /\ records[k].message = Rows[k] /\ records[k].serial = k
        /\ records[k].backReference = Cardinality(children(k))
        /\ records[k].ref = IF RefOf[Rows[k]] = NoRef THEN null
                            ELSE CHOOSE j \in 1..n : Rows[j] = RefOf[Rows[k]]
  BY <1>1 DEF WarmRecords
<1>5. ASSUME NEW k \in 1..n PROVE cache[Rows[k]] = k
  <2>1. /\ cache[Rows[k]] = CHOOSE j \in 1..n : Rows[j] = Rows[k]
        /\ \E j \in 1..n : Rows[j] = Rows[k]
    BY <1>1, <1>3
  <2>2. (CHOOSE j \in 1..n : Rows[j] = Rows[k]) \in 1..n
        /\ Rows[CHOOSE j \in 1..n : Rows[j] = Rows[k]] = Rows[k]
    BY <2>1
  <2> QED BY <1>3, <2>1, <2>2
<1>6. /\ \A k \in 1..n : Rows[k] \in C
      /\ \A m \in C : \E k \in 1..n : Rows[k] = m
  <2>1. ASSUME NEW m \in C PROVE \E k \in 1..n : Rows[k] = m
    BY <1>1 DEF CachedIn, Identifier
  <2> QED BY <1>3, <1>5, <2>1 DEF CachedIn, null
<1> HIDE DEF children, C
<1>7. \A k \in 1..n : /\ Counted(Rows[k], cache, records) = Cardinality(children(k))
                      /\ SerialIn(Rows[k], cache, records) = k
  BY <1>4, <1>5 DEF Counted, SerialIn
<1>8. IsFiniteSet(C) /\ IsFiniteSet(1..n)
  BY <1>6, RowsCount
<1>9. Saved(stored, unsaved) = {} /\ IsFiniteSet({}) /\ Range(Rows) \subseteq stored
  BY <1>2, FS_EmptySet DEF Saved
<1>10. Ledger(NoRef, NoRef, cache, records, stored, unsaved)
  <2> SUFFICES ASSUME NEW m \in C
               PROVE  Counted(m, cache, records)
                        = Refs(m, cache, stored, unsaved) + One(NoRef = m) + One(NoRef = m)
    BY DEF Ledger, C
  <2>1. PICK k \in 1..n : Rows[k] = m
    BY <1>6
  <2>2. Cardinality(Kids(m, C)) = Cardinality(children(k))
    <3>1. children(k) \in SUBSET (1..n)
      BY DEF children
    <3>2. \A c \in children(k) : Rows[c] \in Kids(m, C)
      BY <1>6, <2>1 DEF children, Kids
    <3>3. \A x \in Kids(m, C) : \E c \in children(k) : Rows[c] = x
      BY <1>6, <2>1 DEF children, Kids
    <3> QED BY <3>1, <3>2, <3>3, RowsCount
  <2>3. Cardinality(Kids(m, Saved(stored, unsaved))) = 0
    <3>1. \A c \in {} : RefOf[c] # m
      OBVIOUS
    <3> QED BY <1>9, <3>1, KidsCount
  <2>4. One(m \in unsaved) = 0 /\ One(NoRef = m) = 0
    BY <1>2, CacheAssumption DEF One, C, CachedIn
  <2>5. Cardinality(Kids(m, C)) \in Nat
    BY <1>8, KidsCount
  <2>6. Refs(m, cache, stored, unsaved) = Cardinality(Kids(m, C)) + 0 + 0
    BY <2>3, <2>4 DEF Refs, C
  <2> QED BY <1>7, <2>1, <2>2, <2>4, <2>5, <2>6
<1>11. ListOf(Unreferenced(cache, records), LRUList, cache, records)
  <2>1. /\ DOMAIN LRUList = {k \in 1..n : Cardinality(children(k)) = 0}
        /\ \A k \in DOMAIN LRUList : LRUList[k] = Rows[k]
    BY <1>1, <1>4
  <2>2. ASSUME NEW k \in DOMAIN LRUList
        PROVE  /\ LRUList[k] \in Unreferenced(cache, records)
               /\ SerialIn(LRUList[k], cache, records) = k
    BY <1>6, <1>7, <2>1 DEF Unreferenced, C
  <2>3. ASSUME NEW m \in Unreferenced(cache, records)
        PROVE  /\ SerialIn(m, cache, records) \in DOMAIN LRUList
               /\ LRUList[SerialIn(m, cache, records)] = m
    <3>1. m \in C /\ Counted(m, cache, records) = 0
      BY DEF Unreferenced, C
    <3>2. PICK k \in 1..n : Rows[k] = m
      BY <1>6, <3>1
    <3> QED BY <1>7, <2>1, <3>1, <3>2
  <2> QED BY <2>2, <2>3 DEF ListOf
<1>12. HeapSound(cache, records, stored, unsaved)
  <2>1. \A m \in C : records[cache[m]].message = m
    BY <1>4, <1>5, <1>6
  <2>2. ASSUME NEW m1 \in C, NEW m2 \in C,
               SerialIn(m1, cache, records) = SerialIn(m2, cache, records)
        PROVE  m1 = m2
    BY <1>6, <1>7, <2>2
  <2>3. ASSUME NEW m \in C, RefOf[m] # NoRef
        PROVE  RefOf[m] \in C /\ records[cache[m]].ref = cache[RefOf[m]]
    <3>1. PICK k \in 1..n : Rows[k] = m
      BY <1>6
    <3>2. PICK j \in 1..n : Rows[j] = RefOf[m]
      BY <1>3, <2>3, <3>1
    <3>3. records[k].ref = CHOOSE x \in 1..n : Rows[x] = RefOf[m]
      BY <1>4, <2>3, <3>1
    <3>4. (CHOOSE x \in 1..n : Rows[x] = RefOf[m]) = j
      BY <1>3, <3>2
    <3>5. cache[m] = k /\ cache[RefOf[m]] = j
      BY <1>5, <3>1, <3>2
    <3> QED BY <1>6, <3>2, <3>3, <3>4, <3>5
  <2> QED BY <1>2, <1>8, <1>9, <2>1, <2>2, <2>3 DEF HeapSound, C
<1>13. IsFiniteSet(DOMAIN LRUList)
  <2>1. DOMAIN LRUList \in SUBSET (1..n)
    BY <1>1
  <2> QED BY <1>8, <2>1, FS_Subset
<1>14. \A i \in Identifier :
         slotLocks[i] # null => i \in Unknown /\ LoadLock(locks[slotLocks[i]])
  BY <1>2
<1>15. Books(Idle, cache, LRUList, slotLocks, records, locks, stored, unsaved)
  BY <1>1, <1>10, <1>11, <1>12, <1>13, <1>14, IdleBooks
<1>16. Timer \in Process /\ \A t \in Process : th[t] = Idle
  BY <1>2 DEF Process
<1>17. Alone(Timer) /\ BooksNow(Timer)
  <2>1. Idle.pc = "idle"
    BY DEF Idle
  <2> QED BY <1>15, <1>16, <2>1 DEF Alone, At, BooksNow
<1> QED BY <1>16, <1>17 DEF CallInv

\* A step of a call leaves the threads alone that are in none.
LEMMA StepAlone ==
  ASSUME NEW name, TypedWith(name), NEW t \in Process, Alone(t), Step(t)
  PROVE  Alone(t)'
<1>1. CASE Invalidate(t)
  <2>1. PICK next : th' = [u \in Process |->
                             IF u = t THEN [th[u] EXCEPT !.pc = next]
                             ELSE IF u \in Signalled(th[t].lock)
                             THEN [th[u] EXCEPT !.pc = "woken"] ELSE th[u]]
    BY <1>1 DEF Invalidate
  <2>2. \A u \in Process : u # t => th[u].pc = "idle" /\ u \notin Signalled(th[t].lock)
    BY DEF Alone, At, Signalled
  <2> QED BY <2>1, <2>2 DEF Alone, At
<1>2. ASSUME NEW q, Become(t, q) PROVE Alone(t)'
  BY <1>2, Became DEF Alone, At
<1>3. ASSUME NEW pc, Goto(t, pc) PROVE Alone(t)'
  BY <1>2, <1>3 DEF Goto
<1>4. ASSUME NEW state, NEW x, NEW mine, NEW theirs, TakeSlot(t, state, x, mine, theirs)
      PROVE  Alone(t)'
  BY <1>2, <1>4 DEF TakeSlot
<1>5. ASSUME NEW x, Deliver(t, x) PROVE Alone(t)'
  BY <1>2, <1>5 DEF Deliver
<1>6. ASSUME Retry(t) PROVE Alone(t)'
  BY <1>2, <1>6 DEF Retry
<1>7. CASE GetSlot(t) \/ LoadSlot(t) \/ AddSlot(t) \/ RelSlot(t)
  BY <1>4, <1>7 DEF GetSlot, LoadSlot, AddSlot, RelSlot
<1>8. CASE GetRead(t) \/ GetInc(t) \/ GetUnlist(t) \/ GetSerial(t)
  BY <1>2, <1>3, <1>8 DEF GetRead, GetInc, GetUnlist, GetSerial
<1>9. CASE LoadRow(t) \/ AddRead(t) \/ AddInc(t) \/ AddUnlist(t) \/ AddPut(t) \/ Unslot(t)
  BY <1>2, <1>3, <1>5, <1>9 DEF LoadRow, AddRead, AddInc, AddUnlist, AddPut, Unslot
<1>10. CASE \/ WaitEnter(t) \/ WaitAwait(t) \/ Woken(t) \/ WaitInc(t) \/ WaitUnlist(t)
            \/ RelShare(t)
  BY <1>2, <1>3, <1>5, <1>6, <1>10
     DEF WaitEnter, WaitAwait, Woken, WaitInc, WaitUnlist, RelShare
<1>11. CASE RelRead(t) \/ RelDec(t) \/ RelList(t) \/ RelUnslot(t)
  BY <1>2, <1>3, <1>11 DEF RelRead, RelDec, RelList, RelUnslot
<1>12. CASE RecCopy(t) \/ RecSlot(t) \/ RecUnlist(t) \/ RecDrop(t) \/ RecUnslot(t)
  BY <1>2, <1>3, <1>12 DEF RecCopy, RecSlot, RecUnlist, RecDrop, RecUnslot
<1> QED BY <1>1, <1>7, <1>8, <1>9, <1>10, <1>11, <1>12 DEF Step

LEMMA StepBooks ==
  ASSUME NEW name, TypedWith(name), NEW t \in Process, Alone(t), BooksNow(t), Step(t)
  PROVE  BooksNow(t)'
<1>1. th[t].rec \in {null} \cup 1..Len(records) /\ null \in {null} \cup 1..Len(records)
  BY BookFacts DEF States
<1>2. CASE GetSlot(t) \/ LoadSlot(t) \/ AddSlot(t) \/ RelSlot(t)
  <2>1. PICK x \in {null} \cup 1..Len(records) :
          \/ /\ th[t].pc = "getSlot"
             /\ TakeSlot(t, "Getting", x, "getRead", "waitEnter")
          \/ /\ th[t].pc = "loadSlot"
             /\ TakeSlot(t, "Loading", x, "loadRow", "waitEnter")
          \/ /\ th[t].pc = "addSlot"
             /\ TakeSlot(t, "Loading", x, "addRead", "waitEnter")
          \/ /\ th[t].pc = "relSlot"
             /\ TakeSlot(t, "Recycling", x, "relDec", "relShare")
    BY <1>1, <1>2 DEF GetSlot, LoadSlot, AddSlot, RelSlot, At
  <2>2. UNCHANGED <<cache, LRUList, serial, records, stored, unsaved>>
    BY <1>2 DEF GetSlot, LoadSlot, AddSlot, RelSlot, callVars
  <2> QED BY <2>1, <2>2, TakeSlotBooks
<1>3. CASE GetRead(t) \/ GetInc(t) \/ GetUnlist(t) \/ GetSerial(t)
  BY <1>3, GetReadBooks, IncBooks, GetUnlistBooks, GetSerialBooks
<1>4. CASE LoadRow(t) \/ AddRead(t) \/ AddInc(t) \/ AddUnlist(t) \/ AddPut(t)
  BY <1>4, LoadRowBooks, AddReadBooks, IncBooks, AddUnlistBooks, AddPutBooks
<1>5. CASE Invalidate(t) \/ Unslot(t)
  BY <1>5, InvalidateBooks, UnslotBooks
<1>6. CASE \/ WaitEnter(t) \/ WaitAwait(t) \/ Woken(t) \/ WaitInc(t) \/ WaitUnlist(t)
           \/ RelShare(t)
  BY <1>6, WaitBooks
<1>7. CASE RelRead(t) \/ RelDec(t) \/ RelList(t) \/ RelUnslot(t)
  BY <1>7, RelReadBooks, RelDecBooks, RelListBooks, RelUnslotBooks
<1>8. CASE RecCopy(t) \/ RecSlot(t) \/ RecUnlist(t) \/ RecDrop(t) \/ RecUnslot(t)
  BY <1>8, RecCopyBooks, RecSlotBooks, RecUnlistBooks, RecDropBooks, RecUnslotBooks
<1> QED BY <1>2, <1>3, <1>4, <1>5, <1>6, <1>7, <1>8 DEF Step

\* A thread that is in no call takes no step.
LEMMA StepIsCall ==
  ASSUME NEW t \in Process, Step(t) PROVE ~At(t, "idle")
<1>1. ASSUME Invalidate(t) PROVE ~At(t, "idle")
  BY <1>1 DEF Invalidate, At
<1>2. ASSUME \/ GetSlot(t) \/ GetRead(t) \/ GetInc(t) \/ GetUnlist(t) \/ GetSerial(t)
             \/ LoadSlot(t) \/ LoadRow(t) \/ AddSlot(t) \/ AddRead(t) \/ AddInc(t)
             \/ AddUnlist(t) \/ AddPut(t) \/ Unslot(t)
      PROVE  ~At(t, "idle")
  BY <1>2 DEF GetSlot, GetRead, GetInc, GetUnlist, GetSerial, LoadSlot, LoadRow, AddSlot,
              AddRead, AddInc, AddUnlist, AddPut, Unslot, At
<1>3. ASSUME \/ WaitEnter(t) \/ WaitAwait(t) \/ Woken(t) \/ WaitInc(t) \/ WaitUnlist(t)
             \/ RelRead(t) \/ RelSlot(t) \/ RelShare(t) \/ RelDec(t) \/ RelList(t)
             \/ RelUnslot(t) \/ RecCopy(t) \/ RecSlot(t) \/ RecUnlist(t) \/ RecDrop(t)
             \/ RecUnslot(t)
      PROVE  ~At(t, "idle")
  BY <1>3 DEF WaitEnter, WaitAwait, Woken, WaitInc, WaitUnlist, RelRead, RelSlot, RelShare,
              RelDec, RelList, RelUnslot, RecCopy, RecSlot, RecUnlist, RecDrop, RecUnslot, At
<1> QED BY <1>1, <1>2, <1>3 DEF Step

LEMMA NextKeepsBooks ==
  ASSUME TypeInv, CallInv, [Next]_vars, OneCall'
  PROVE  CallInv'
<1>1. PICK name : TypedWith(name)
  BY DEF TypeInv
<1>2. PICK t \in Process : Alone(t) /\ BooksNow(t)
  BY DEF CallInv
<1>3. CASE UNCHANGED vars
  <2>1. Alone(t)'
    BY <1>2, <1>3 DEF vars, Alone, At
  <2>2. BooksNow(t)'
    BY <1>2, <1>3 DEF vars, BooksNow
  <2> QED BY <2>1, <2>2 DEF CallInv
<1>4. ASSUME NEW u \in Process, Step(u) PROVE CallInv'
  <2>1. u = t
    BY <1>2, <1>4, StepIsCall DEF Alone
  <2>2. Alone(t)' /\ BooksNow(t)'
    BY <1>1, <1>2, <1>4, <2>1, StepAlone, StepBooks
  <2> QED BY <2>2 DEF CallInv
<1>5. ASSUME NEW u \in Thread, NEW i \in Identifier, Query(u, i) PROVE CallInv'
  <2>1. u \in Process /\ Alone(u)' /\ BooksNow(u)'
    BY <1>1, <1>2, <1>5, QueryBooks DEF Process
  <2> QED BY <2>1 DEF CallInv
<1>6. ASSUME NEW u \in Thread, NEW m \in Message, Save(u, m) PROVE CallInv'
  <2>1. u \in Process /\ Alone(u)' /\ BooksNow(u)'
    BY <1>1, <1>2, <1>6, SaveBooks DEF Process
  <2> QED BY <2>1 DEF CallInv
<1>7. ASSUME NEW m \in Message, Flush(m) PROVE CallInv'
  <2>1. Timer \in Process /\ Alone(Timer)' /\ BooksNow(Timer)'
    BY <1>1, <1>2, <1>7, FlushBooks DEF Process
  <2> QED BY <2>1 DEF CallInv
<1> QED BY <1>3, <1>4, <1>5, <1>6, <1>7 DEF Next

LEMMA BooksAlways == Spec /\ []OneCall => []CallInv
<1>1. Init => CallInv
  BY InitBooks
<1>2. TypeInv /\ CallInv /\ [Next]_vars /\ OneCall' => CallInv'
  BY NextKeepsBooks
<1> QED BY <1>1, <1>2, TypesAlways, PTL DEF Spec
---------------------------------------------------------------------------
(* The bound on calls under way.                                            *)

LEMMA NobodyAtWork ==
  ASSUME MaxCalls = 1, OneCall, Cardinality({u \in Process : ~At(u, "idle")}) < MaxCalls
  PROVE  \A u \in Process : At(u, "idle")
<1> DEFINE busy == {u \in Process : ~At(u, "idle")}
<1> SUFFICES ASSUME NEW t \in Process, ~At(t, "idle") PROVE FALSE
  OBVIOUS
<1>1. busy \in SUBSET {t} /\ t \in busy
  BY DEF OneCall
<1>2. IsFiniteSet({t}) /\ Cardinality({t}) = 1
  BY FS_Singleton
<1>3. busy = {t}
  BY <1>1
<1> HIDE DEF busy
<1>4. Cardinality(busy) < 1
  BY DEF busy
<1> QED BY <1>2, <1>3, <1>4

\* Where one call at most is under way, as the bound says, no two overlap.
LEMMA OneCallAlways == ASSUME MaxCalls = 1 PROVE Spec => []OneCall
<1>1. Init => OneCall
  BY DEF Init, OneCall, At, Idle
<1>2. ASSUME TypeInv, OneCall, [Next]_vars PROVE OneCall'
  <2>1. PICK name : TypedWith(name)
    BY <1>2 DEF TypeInv
  <2>2. ASSUME NEW t \in Process, Alone(t)' PROVE OneCall'
    BY <2>2 DEF Alone, OneCall
  <2>3. CASE UNCHANGED vars
    BY <1>2, <2>3 DEF vars, OneCall, At
  <2>4. ASSUME NEW t \in Process, Step(t) PROVE OneCall'
    <3>1. Alone(t)
      BY <1>2, <2>4, StepIsCall DEF OneCall, Alone
    <3> QED BY <2>1, <2>2, <2>4, <3>1, StepAlone
  <2>5. ASSUME NEW t \in Process, NEW op, NEW target, NEW id, NEW pc,
               Start(t, op, target, id, pc)
        PROVE  OneCall'
    <3>1. \A u \in Process : At(u, "idle")
      BY <1>2, <2>5, NobodyAtWork DEF Start
    <3>2. \A u \in Process \ {t} : th'[u] = th[u]
      BY <2>1, <2>5, Became DEF Start
    <3> QED BY <2>2, <3>1, <3>2 DEF Alone, At
  <2>6. ASSUME NEW t \in Thread, NEW i \in Identifier, Query(t, i) PROVE OneCall'
    BY <2>5, <2>6 DEF Query, Process
  <2>7. ASSUME NEW t \in Thread, NEW m \in Message, Save(t, m) PROVE OneCall'
    BY <2>5, <2>7 DEF Save, Process
  <2>8. ASSUME NEW m \in Message, Flush(m) PROVE OneCall'
    BY <2>5, <2>8 DEF Flush, Process
  <2> QED BY <1>2, <2>3, <2>4, <2>6, <2>7, <2>8 DEF Next
<1> QED BY <1>1, <1>2, TypesAlways, PTL DEF Spec
---------------------------------------------------------------------------
(* What the books say.                                                      *)

LEMMA BooksSay ==
  ASSUME TypeInv, CallInv
  PROVE  ChainComplete /\ BackRefAccounts /\ LRUExact /\ InUseIsCached
         /\ (Unknown = {} => SlotsGivenBack)
<1>1. PICK t \in Process : Alone(t) /\ BooksNow(t)
  BY DEF CallInv
<1>2. PICK name : TypedWith(name)
  BY DEF TypeInv
<1> DEFINE r == th[t]
<1>3. /\ HeapSound(cache, records, stored, unsaved) /\ HeapOK
      /\ StepSound(r, cache, LRUList, slotLocks, records)
      /\ Books(r, cache, LRUList, slotLocks, records, locks, stored, unsaved)
  BY <1>1, <1>2, BookFacts
<1>4. Cached = CachedIn(cache) /\ \A m \in Cached : BackRef(m) = Counted(m, cache, records)
  BY DEF Cached, CachedIn, BackRef, Counted
<1>5. ChainComplete
  BY <1>3, <1>4 DEF ChainComplete, HeapSound
<1>6. InUseIsCached
  <2>1. unsaved \subseteq Cached
    BY <1>3, <1>4 DEF HeapSound
  <2>2. \A u \in Process : th[u].pc = "relRead" => th[u].id \in Cached
    BY <1>1, <1>3, <1>4 DEF Alone, At, StepSound
  <2>3. \A u \in Process : th[u].pc # "failed"
    BY <1>1, <1>3 DEF Alone, At, StepSound
  <2> QED BY <2>1, <2>2, <2>3 DEF InUseIsCached, At
<1>7. ASSUME Quiet
      PROVE  /\ Ledger(NoRef, NoRef, cache, records, stored, unsaved)
             /\ Settled(cache, LRUList, slotLocks, records, locks)
  <2>1. r.pc = "idle"
    BY <1>7 DEF Quiet, At
  <2> HIDE DEF r
  <2> QED BY <1>3, <2>1, IdleFacts
<1>8. BackRefAccounts
  <2> SUFFICES ASSUME Quiet, NEW m \in Cached
               PROVE  BackRef(m)
                        = Cardinality({c \in Cached : RefOf[c] = m})
                          + (IF m \in unsaved THEN 1 ELSE 0)
                          + Cardinality({c \in (stored \cup unsaved) \ Range(Rows) :
                                           RefOf[c] = m})
    BY DEF BackRefAccounts
  <2>1. Counted(m, cache, records)
          = Refs(m, cache, stored, unsaved) + One(NoRef = m) + One(NoRef = m)
    BY <1>4, <1>7 DEF Ledger
  <2>2. One(NoRef = m) = 0
    BY CacheAssumption DEF One, Cached
  <2>3. /\ Cardinality(Kids(m, CachedIn(cache))) \in Nat
        /\ Cardinality(Kids(m, Saved(stored, unsaved))) \in Nat
    BY <1>3, KidsCount DEF HeapSound
  <2>4. /\ Kids(m, CachedIn(cache)) = {c \in Cached : RefOf[c] = m}
        /\ Kids(m, Saved(stored, unsaved))
             = {c \in (stored \cup unsaved) \ Range(Rows) : RefOf[c] = m}
    BY <1>4 DEF Kids, Saved
  <2>5. Refs(m, cache, stored, unsaved)
          = Cardinality(Kids(m, CachedIn(cache)))
            + Cardinality(Kids(m, Saved(stored, unsaved))) + One(m \in unsaved)
    BY DEF Refs
  <2>6. One(m \in unsaved) = (IF m \in unsaved THEN 1 ELSE 0) /\ One(m \in unsaved) \in Nat
    BY DEF One
  <2> QED BY <1>4, <2>1, <2>2, <2>3, <2>4, <2>5, <2>6
<1>9. LRUExact
  <2> SUFFICES ASSUME Quiet
               PROVE  /\ Cardinality(DOMAIN LRUList) <= SizeLimit
                      /\ DOMAIN LRUList
                           = {records[cache[m]].serial : m \in {x \in Cached : BackRef(x) = 0}}
                      /\ \A s \in DOMAIN LRUList :
                           /\ LRUList[s] \in Cached
                           /\ records[cache[LRUList[s]]].serial = s
    BY DEF LRUExact
  <2>1. /\ ListOf(Unreferenced(cache, records), LRUList, cache, records)
        /\ Cardinality(DOMAIN LRUList) <= SizeLimit
    BY <1>7 DEF Settled
  <2>2. Unreferenced(cache, records) = {x \in Cached : BackRef(x) = 0}
    BY <1>4 DEF Unreferenced
  <2>3. \A m \in Cached : SerialIn(m, cache, records) = records[cache[m]].serial
    BY DEF SerialIn
  <2>4. \A s \in DOMAIN LRUList : LRUList[s] \in {x \in Cached : BackRef(x) = 0}
                                  /\ records[cache[LRUList[s]]].serial = s
    BY <2>1, <2>2, <2>3 DEF ListOf
  <2>5. \A m \in {x \in Cached : BackRef(x) = 0} : records[cache[m]].serial \in DOMAIN LRUList
    BY <2>1, <2>2, <2>3 DEF ListOf
  <2> QED BY <2>1, <2>4, <2>5
<1>10. Unknown = {} => SlotsGivenBack
  BY <1>7 DEF SlotsGivenBack, Settled
<1> QED BY <1>5, <1>6, <1>8, <1>9, <1>10

\* While no two calls overlap every cached message is a complete chain at every
\* moment, recycle() included: it drops only what nothing refers to, and drops a
\* message before it releases the one that message refers to.
THEOREM ChainsSurviveRecycling == Spec /\ []OneCall => []ChainComplete
<1>1. TypeInv /\ CallInv => ChainComplete
  BY BooksSay
<1> QED BY <1>1, BooksAlways, TypesAlways, PTL

\* While no two calls overlap the back references of a message are exact between
\* calls: each of its cached replies, the unsaved queue and each reply ever saved
\* count one, whatever was loaded, flushed and recycled in the meantime.
THEOREM CountsAreExact == Spec /\ []OneCall => []BackRefAccounts
<1>1. TypeInv /\ CallInv => BackRefAccounts
  BY BooksSay
<1> QED BY <1>1, BooksAlways, TypesAlways, PTL

\* While no two calls overlap LRUList has between calls just the messages without
\* back references, each under the serial of its record, and no more of them than
\* sizeLimit: recycling one entry a release is enough.
THEOREM ListIsExact == Spec /\ []OneCall => []LRUExact
<1>1. TypeInv /\ CallInv => LRUExact
  BY BooksSay
<1> QED BY <1>1, BooksAlways, TypesAlways, PTL

\* While no two calls overlap a message that waits to be saved, or that a thread was
\* given and has not released, is never recycled, and no release fails.
THEOREM InUseStaysCached == Spec /\ []OneCall => []InUseIsCached
<1>1. TypeInv /\ CallInv => InUseIsCached
  BY BooksSay
<1> QED BY <1>1, BooksAlways, TypesAlways, PTL

\* While no two calls overlap and clients ask for messages that exist, every call
\* gives back the slots it has taken: those of the frames of recursiveAddAndGet, of
\* the releases and of recycle().
THEOREM SlotsComeBack ==
  ASSUME Unknown = {} PROVE Spec /\ []OneCall => []SlotsGivenBack
<1>1. TypeInv /\ CallInv => SlotsGivenBack
  BY BooksSay
<1> QED BY <1>1, BooksAlways, TypesAlways, PTL
=============================================================================
