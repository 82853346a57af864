---------------------------- MODULE PollServlet ----------------------------
(* The polls of one session as PollServlet.java handles them: every request *)
(* runs in a thread of its own, waits as a suspended continuation, and is   *)
(* dispatched again when its listener flushes or its time is over.  Who     *)
(* sends the requests is left to the module that extends this one.          *)
EXTENDS BaseListener

VARIABLES
  current,        \* the session's listener, POLL_RESULT_LIST_KEY
  poll            \* poll[p]: where request p is

PollType == {"LAZY", "EAGER", "REFRESH", "HISTORY"}
PollStage == {"idle", "sent", "first", "fill", "drain", "refresh", "switch",
              "flushOld", "unregister", "attach", "suspend", "reject",
              "handled", "waiting", "detach", "conclude"}

\* loop: the page's endless loop waits for this request.
PollTypeOK ==
  /\ ListenerTypeOK
  /\ current \in Listener \cup {NoListener}
  /\ poll \in [Poll -> [at : PollStage, type : PollType, loop : BOOLEAN,
                        listener : Listener \cup {NoListener},
                        toPush : Seq(Message)]]

NoRequest == [at |-> "idle", type |-> "HISTORY", loop |-> FALSE,
              listener |-> NoListener, toPush |-> <<>>]

PollInit ==
  /\ ListenerInit
  /\ current = NoListener
  /\ poll = [p \in Poll |-> NoRequest]

\* Request p goes on with step s, or has been answered, with a list or an error.
To(p, s) == poll' = [poll EXCEPT ![p].at = s]
Answered(p) == poll' = [poll EXCEPT ![p] = NoRequest]

\* An object that is not registered, not the session's and in no thread's hands.
Unused(l) ==
  /\ l \notin listeners /\ l # current
  /\ \A p \in Poll : poll[p].listener # l
  /\ \A m \in Message : l # talk[m].to /\ l \notin talk[m].owed

Create(l, p, c) ==
  /\ Unused(l)
  /\ object' = [object EXCEPT ![l] =
                  [CreateByType(poll[p].type) EXCEPT !.continuation = c]]
  /\ listeners' = listeners \cup {l}
  /\ current' = l
  /\ talk' = [m \in Message |-> [talk[m] EXCEPT !.visited = @ \ {l}]]
  /\ UNCHANGED recent

-----------------------------------------------------------------------------
\* processServlet, from the session's listener and the type of the query.
\* HISTORY only reads the unsaved messages.
Arrive(p) ==
  LET type == poll[p].type IN
  /\ poll[p].at = "sent"
  /\ \/ /\ current # NoListener /\ type = "HISTORY"
        /\ Answered(p)
     \/ /\ current = NoListener \/ type # "HISTORY"
        /\ poll' = [poll EXCEPT ![p].listener = current, ![p].at =
             IF current = NoListener THEN "first"
             ELSE CASE type = "REFRESH" -> "refresh"
                    [] type = object[current].pollType -> "attach"
                    [] OTHER -> "switch"]
  /\ UNCHANGED <<recent, listeners, object, continuation, talk, current>>

\* firstTimeQueryAll
FirstTimeQueryAll(p) ==
  /\ poll[p].at = "first"
  /\ \E l \in Listener :
       /\ Create(l, p, NoPoll)
       /\ poll' = [poll EXCEPT ![p].at = "fill", ![p].listener = l,
                               ![p].toPush = recent]
  /\ UNCHANGED continuation

\* pushLatestMessages: one message after the other, each as newMessagePushed
\* does it.
PushLatest(p) ==
  LET l == poll[p].listener
      queue == Append(MakeRoom(object[l].queue), Head(poll[p].toPush))
      flush == ShouldFlush(l, queue) /\ InPollingState(l)
  IN /\ poll[p].at = "fill" /\ poll[p].toPush # <<>>
     /\ \/ flush /\ DoFlush(l, queue)
        \/ /\ ~flush
           /\ object' = [object EXCEPT ![l].queue = queue]
           /\ UNCHANGED continuation
     /\ IF flush /\ ResumeThrows(l) THEN Answered(p)
        ELSE poll' = [poll EXCEPT ![p].toPush = Tail(@)]
     /\ UNCHANGED <<recent, listeners, talk, current>>

\* pollAll, then the answer.
Drain(p) ==
  /\ poll[p].at \in {"fill", "drain"} /\ poll[p].toPush = <<>>
  /\ PollAll(poll[p].listener)
  /\ Answered(p)
  /\ UNCHANGED <<recent, listeners, continuation, talk, current>>

\* resetContinuation(null) on l and what comes after it.
DetachThen(p, l, s) ==
  /\ Detach(l)
  /\ IF DetachThrows(l) THEN Answered(p)
     ELSE poll' = [poll EXCEPT ![p].at = s, ![p].listener = l]
  /\ UNCHANGED <<recent, listeners, talk, current>>

Refresh(p) ==
  poll[p].at = "refresh" /\ DetachThen(p, poll[p].listener, "drain")

\* switchListener: the new listener is registered before the old one is
\* flushed and unregistered.
SwitchListener(p) ==
  /\ poll[p].at = "switch"
  /\ \E l \in Listener : Create(l, p, p)
  /\ To(p, "flushOld")
  /\ UNCHANGED continuation

FlushOld(p) ==
  poll[p].at = "flushOld" /\ DetachThen(p, poll[p].listener, "unregister")

UnregisterOld_Current(p) ==   \* mutant: the session's listener, as it is by now
  /\ poll[p].at = "unregister"
  /\ listeners' = listeners \ {current}
  /\ Answered(p)
  /\ UNCHANGED <<recent, object, continuation, talk, current>>

UnregisterOld(p) ==
  /\ poll[p].at = "unregister"
  /\ listeners' = listeners \ {poll[p].listener}
  /\ Answered(p)
  /\ UNCHANGED <<recent, object, continuation, talk, current>>

\* Attach to the listener and, later, suspend; or flush who waits there.
AttachPoll(p) ==
  LET l == poll[p].listener IN
  /\ poll[p].at = "attach"
  /\ \/ Attach(l, p) /\ To(p, "suspend")
     \/ InPollingState(l) /\ To(p, "reject") /\ UNCHANGED object
  /\ UNCHANGED <<recent, listeners, continuation, talk, current>>

Suspend(p) ==
  /\ poll[p].at = "suspend"
  /\ continuation' = [continuation EXCEPT ![p] =
                        [NewContinuation EXCEPT !.state = "started"]]
  /\ To(p, "handled")
  /\ UNCHANGED <<recent, listeners, object, talk, current>>

RejectOverlap(p) ==
  /\ poll[p].at = "reject"
  /\ Detach(poll[p].listener)
  /\ Answered(p)
  /\ UNCHANGED <<recent, listeners, talk, current>>

\* The servlet has returned: wait, unless resumed meanwhile (unhandle of Jetty).
Unhandle(p) ==
  LET resumed == continuation[p].state = "redispatching" IN
  /\ poll[p].at = "handled"
  /\ continuation' = [continuation EXCEPT ![p].state =
                        IF resumed THEN "redispatched" ELSE "waiting"]
  /\ To(p, IF resumed THEN "detach" ELSE "waiting")
  /\ UNCHANGED <<recent, listeners, object, talk, current>>

Expire_EagerOnly(p) ==   \* mutant: a lazy poll gets no timeout
  /\ poll[p].at = "waiting" /\ continuation[p].state = "waiting"
  /\ poll[p].type = "EAGER"
  /\ continuation' = [continuation EXCEPT
       ![p] = IF @.expired THEN [@ EXCEPT !.state = "redispatch"]
                           ELSE [@ EXCEPT !.expired = TRUE]]
  /\ UNCHANGED <<recent, listeners, object, talk, current, poll>>

\* Jetty's timer marks the continuation as expired, then dispatches it.
Expire(p) ==
  /\ poll[p].at = "waiting" /\ continuation[p].state = "waiting"
  /\ continuation' = [continuation EXCEPT
       ![p] = IF @.expired THEN [@ EXCEPT !.state = "redispatch"]
                           ELSE [@ EXCEPT !.expired = TRUE]]
  /\ UNCHANGED <<recent, listeners, object, talk, current, poll>>

Redispatch(p) ==
  /\ poll[p].at = "waiting" /\ continuation[p].state = "redispatch"
  /\ continuation' = [continuation EXCEPT ![p].state = "redispatched"]
  /\ To(p, "detach")
  /\ UNCHANGED <<recent, listeners, object, talk, current>>

\* processServlet again, with the listener the session has by now.
DetachSelf(p) == poll[p].at = "detach" /\ DetachThen(p, current, "conclude")

Conclude_Empty(p) ==   \* mutant: an expired poll is always answered with nothing
  /\ poll[p].at = "conclude"
  /\ continuation' = [continuation EXCEPT ![p] = NewContinuation]
  /\ Answered(p)
  /\ UNCHANGED <<recent, listeners, object, talk, current>>

\* Expired polls take what a lazy listener has; the others what they were given.
Conclude(p) ==
  LET l == poll[p].listener IN
  /\ poll[p].at = "conclude"
  /\ IF continuation[p].expired /\ object[l].pollType = "LAZY"
     THEN PollAll(l) ELSE UNCHANGED object
  /\ continuation' = [continuation EXCEPT ![p] = NewContinuation]
  /\ Answered(p)
  /\ UNCHANGED <<recent, listeners, talk, current>>

ServeStep(p) ==
  \/ Arrive(p) \/ FirstTimeQueryAll(p) \/ PushLatest(p) \/ Drain(p)
  \/ Refresh(p) \/ SwitchListener(p) \/ FlushOld(p) \/ UnregisterOld(p)
  \/ AttachPoll(p) \/ Suspend(p) \/ RejectOverlap(p) \/ Unhandle(p)
  \/ Expire(p) \/ Redispatch(p) \/ DetachSelf(p) \/ Conclude(p)

-----------------------------------------------------------------------------
Send(p, type, loop) ==
  /\ poll[p].at = "idle"
  /\ poll' = [poll EXCEPT ![p] = [NoRequest EXCEPT !.at = "sent", !.type = type,
                                                   !.loop = loop]]

\* sessionDestroyed, when no request of the session is under way.
SessionDestroyed ==
  /\ current # NoListener
  /\ \A p \in Poll : poll[p].at = "idle"
  /\ listeners' = listeners \ {current}
  /\ current' = NoListener
  /\ UNCHANGED <<recent, object, continuation, talk, poll>>
=============================================================================
