---------------------------- MODULE BaseListener ----------------------------
(* The listeners of BaseListener.java, the dispatcher that pushes every new *)
(* message to them, and the Jetty continuations of the polls that wait on   *)
(* them.  A request thread that has stored a message pushes it to one       *)
(* listener after the other while poll requests attach to them, flush and   *)
(* replace them.                                                            *)
EXTENDS Naturals, Sequences, SequencesExt

CONSTANTS
  Message,        \* the messages that are talked, once each
  Listener,       \* listener objects; one that nobody holds may be reused
  NoListener,
  Poll,           \* poll requests of one session; a finished one is reused
  NoPoll,
  Capacity        \* capacity of a listener's queue

ASSUME ListenerAssumption == /\ NoListener \notin Listener
                             /\ NoPoll \notin Poll
                             /\ Capacity \in Nat \ {0}

VARIABLES
  recent,         \* what pushLatestMessages shows: the unsaved message queue
  listeners,      \* the dispatcher's set of registered listeners
  object,         \* object[l]: the fields of listener l
  continuation,   \* continuation[p]: the continuation of poll p
  talk            \* talk[m]: the thread that stores m and pushes it

\* AsyncContinuation of Jetty 7: dispatched to the servlet, suspend() called,
\* resumed before the servlet has returned, suspended, resumed, dispatched again.
ContinuationState == {"dispatched", "started", "redispatching", "waiting",
                      "redispatch", "redispatched"}
IsSuspended(p) == continuation[p].state \in {"started", "redispatching", "waiting"}

TalkStage == {"unsent", "saved", "visit", "added", "done", "failed"}

ListenerTypeOK ==
  /\ recent \in Seq(Message)
  /\ listeners \subseteq Listener
  /\ object \in [Listener -> [pollType : {"LAZY", "EAGER"}, queue : Seq(Message),
                              continuation : Poll \cup {NoPoll}]]
  /\ \A l \in Listener : Len(object[l].queue) <= Capacity
  /\ continuation \in [Poll -> [state : ContinuationState, expired : BOOLEAN,
                                result : Seq(Message)]]
  /\ talk \in [Message -> [at : TalkStage, to : Listener \cup {NoListener},
                           owed : SUBSET Listener, visited : SUBSET Listener]]

NewContinuation == [state |-> "dispatched", expired |-> FALSE, result |-> <<>>]
CreateByType_AsAsked(type) ==   \* mutant
  [pollType |-> type, queue |-> <<>>, continuation |-> NoPoll]
CreateByType(type) == [pollType |-> IF type = "EAGER" THEN "EAGER" ELSE "LAZY",
                       queue |-> <<>>, continuation |-> NoPoll]

ListenerInit ==
  /\ recent = <<>>
  /\ listeners = {}
  /\ object = [l \in Listener |-> CreateByType("LAZY")]
  /\ continuation = [p \in Poll |-> NewContinuation]
  /\ talk = [m \in Message |->
               [at |-> "unsent", to |-> NoListener, owed |-> {}, visited |-> {}]]

-----------------------------------------------------------------------------
\* The listener's methods.  Each is one step: the caller holds the monitor,
\* or drains the queue in one call.

InPollingState(l) ==
  LET p == object[l].continuation IN p # NoPoll /\ IsSuspended(p)

ShouldFlush(l, queue) ==
  \/ object[l].pollType = "EAGER"
  \/ Capacity - Len(queue) < Len(queue)

\* resume() throws when the poll was resumed already but its first dispatch is
\* still in the servlet: the list has been replaced by then.
ResumeThrows(l) == continuation[object[l].continuation].state = "redispatching"

DoFlush_Cleared(l, queue) ==   \* mutant: the queue is cleared before it is copied
  LET p == object[l].continuation
      resumed == IF continuation[p].state = "waiting" THEN "redispatch"
                                                      ELSE "redispatching"
  IN /\ object' = [object EXCEPT ![l].queue = <<>>]
     /\ continuation' = [continuation EXCEPT ![p].result = <<>>, ![p].state = resumed]

DoFlush(l, queue) ==
  LET p == object[l].continuation
      resumed == IF continuation[p].state = "waiting" THEN "redispatch"
                                                      ELSE "redispatching"
  IN /\ object' = [object EXCEPT ![l].queue = <<>>]
     /\ continuation' = [continuation EXCEPT ![p].result = queue,
                                             ![p].state = resumed]

\* resetContinuation(null): flush who waits, or forget who waited.
Detach(l) ==
  \/ InPollingState(l) /\ DoFlush(l, object[l].queue)
  \/ /\ ~InPollingState(l)
     /\ object' = [object EXCEPT ![l].continuation = NoPoll]
     /\ UNCHANGED continuation

DetachThrows(l) == InPollingState(l) /\ ResumeThrows(l)

Attach_Fresh(l, p) ==   \* mutant: a new poll starts with an empty queue
  /\ ~InPollingState(l)
  /\ object' = [object EXCEPT ![l].continuation = p, ![l].queue = <<>>]

\* resetContinuation(p): accepted, unless another poll waits.
Attach(l, p) ==
  /\ ~InPollingState(l)
  /\ object' = [object EXCEPT ![l].continuation = p]

PollAll(l) == object' = [object EXCEPT ![l].queue = <<>>]

-----------------------------------------------------------------------------
\* MessageService.talk, MessageDispatcher.pushMessage, newMessagePushed.

Save(m) ==
  /\ talk[m].at = "unsent"
  /\ recent' = Append(recent, m)
  /\ talk' = [talk EXCEPT ![m].at = "saved"]
  /\ UNCHANGED <<listeners, object, continuation>>

PushMessage(m) ==
  /\ talk[m].at = "saved"
  /\ talk' = [talk EXCEPT ![m].at = "visit", ![m].owed = listeners]
  /\ UNCHANGED <<recent, listeners, object, continuation>>

PushFailed == [at |-> "failed", to |-> NoListener, owed |-> {}, visited |-> {}]

\* What poll() leaves to make room for one more.
MakeRoom(queue) == IF Len(queue) = Capacity THEN Tail(queue) ELSE queue

\* The thread of another message is between its own first and last visit.
OtherPusher(m) == \E n \in Message \ {m} : talk[n].at \in {"visit", "added"}

\* newMessagePushed up to the monitor.  The set is iterated while others change
\* it: a listener that comes or goes meanwhile may be visited or not.  The test
\* for room, poll() and add() are not one step in the code: another thread may
\* take the room in between, and then add() throws and the message reaches no
\* further listener.
Add(m, l) ==
  LET queue == object[l].queue IN
  /\ talk[m].at = "visit"
  /\ l \in (listeners \cup talk[m].owed) \ talk[m].visited
  /\ \/ /\ object' = [object EXCEPT ![l].queue = Append(MakeRoom(queue), m)]
        /\ talk' = [talk EXCEPT ![m].at = "added", ![m].to = l,
                                ![m].visited = @ \cup {l}]
     \/ /\ Len(queue) = Capacity /\ OtherPusher(m)
        /\ talk' = [talk EXCEPT ![m] = PushFailed]
        /\ UNCHANGED object
  /\ UNCHANGED <<recent, listeners, continuation>>

\* newMessagePushed in the monitor.
FlushAdded(m) ==
  LET l == talk[m].to
      queue == object[l].queue
      flush == ShouldFlush(l, queue) /\ InPollingState(l)
  IN /\ talk[m].at = "added"
     /\ \/ flush /\ DoFlush(l, queue)
        \/ ~flush /\ UNCHANGED <<object, continuation>>
     /\ talk' = [talk EXCEPT ![m] =
                    IF flush /\ ResumeThrows(l) THEN PushFailed
                    ELSE [@ EXCEPT !.at = "visit", !.to = NoListener]]
     /\ UNCHANGED <<recent, listeners>>

Pushed(m) ==
  /\ talk[m].at = "visit"
  /\ talk[m].owed \cap listeners \subseteq talk[m].visited
  /\ talk' = [talk EXCEPT ![m].at = "done", ![m].owed = {}, ![m].visited = {}]
  /\ UNCHANGED <<recent, listeners, object, continuation>>

PushStep(m) ==
  \/ PushMessage(m)
  \/ \E l \in Listener : Add(m, l)
  \/ FlushAdded(m) \/ Pushed(m)
=============================================================================
