--------------------------- MODULE BrowserPolling ---------------------------
(* The page of message.js polls the servlet: one endless loop, and polls of *)
(* their own when the user refreshes or enters the chat mode.  What the page *)
(* does with the answers is in MessagePage.                                 *)
EXTENDS PollServlet, FiniteSets

CONSTANTS
  MaxTalkers,     \* bound: threads that push a message at once
  MaxSwitches,    \* bound: clicks on the button that switches the mode
  MaxRefreshes,   \* bound: polls of type REFRESH
  MaxBreaks       \* bound: polls the loop gives up, and lost sessions

ASSUME BrowserAssumption ==
  {MaxTalkers, MaxSwitches, MaxRefreshes, MaxBreaks} \subseteq Nat

VARIABLES
  currentMode,    \* pollingState.currentMode_
  next,           \* the type of the loop's next poll, unless it is the mode
  switches, refreshes, breaks

pageVars == <<currentMode, next, switches, refreshes, breaks>>
serverVars == <<recent, listeners, object, continuation, talk, current>>
vars == <<serverVars, poll, pageVars>>

TypeOK ==
  /\ PollTypeOK
  /\ currentMode \in {"LAZY", "EAGER"}
  /\ next \in {"HISTORY", "currentMode"}
  /\ switches \in 0 .. MaxSwitches
  /\ refreshes \in 0 .. MaxRefreshes
  /\ breaks \in 0 .. MaxBreaks

Init ==
  /\ PollInit
  /\ currentMode = "LAZY" /\ next = "HISTORY"
  /\ switches = 0 /\ refreshes = 0 /\ breaks = 0

\* Polls beside the loop's wait until the session has a listener, and a loop
\* without listener polls alone (bound: first polls do not overlap).
Alone == \A p \in Poll : poll[p].at = "idle"
MayPoll == current # NoListener \/ Alone

\* polling(false, "HISTORY"): the loop's next request; after the first one the
\* type is the mode at that moment.
LoopPoll(p) ==
  /\ \A q \in Poll : ~poll[q].loop
  /\ MayPoll
  /\ Send(p, IF next = "HISTORY" THEN next ELSE currentMode, TRUE)
  /\ next' = "currentMode"
  /\ UNCHANGED serverVars
  /\ UNCHANGED <<currentMode, switches, refreshes, breaks>>

\* polling(true, "REFRESH"): a click on the button, or a talk that succeeded.
RefreshPoll(p) ==
  /\ currentMode = "LAZY" /\ refreshes < MaxRefreshes
  /\ MayPoll
  /\ Send(p, "REFRESH", FALSE)
  /\ refreshes' = refreshes + 1
  /\ UNCHANGED serverVars
  /\ UNCHANGED <<currentMode, next, switches, breaks>>

\* onButtonPollSwitchClicked: only the way into the chat polls at once.
PollSwitch(p) ==
  /\ switches < MaxSwitches
  /\ switches' = switches + 1
  /\ \/ /\ currentMode = "LAZY"
        /\ currentMode' = "EAGER"
        /\ MayPoll
        /\ Send(p, "EAGER", FALSE)
     \/ /\ currentMode = "EAGER"
        /\ currentMode' = "LAZY"
        /\ UNCHANGED poll
  /\ UNCHANGED serverVars
  /\ UNCHANGED <<next, refreshes, breaks>>

\* The loop's connection breaks, or the browser has waited too long: the loop
\* goes on, and the server works on for nobody.
Break(p) ==
  /\ poll[p].loop /\ breaks < MaxBreaks
  /\ breaks' = breaks + 1
  /\ poll' = [poll EXCEPT ![p].loop = FALSE]
  /\ UNCHANGED serverVars
  /\ UNCHANGED <<currentMode, next, switches, refreshes>>

LoseSession ==
  /\ breaks < MaxBreaks
  /\ SessionDestroyed
  /\ breaks' = breaks + 1
  /\ UNCHANGED <<currentMode, next, switches, refreshes>>

Talking == {m \in Message : talk[m].at \in {"saved", "visit", "added"}}

Talk(m) ==
  /\ Cardinality(Talking) < MaxTalkers
  /\ Save(m)
  /\ UNCHANGED <<current, poll>> /\ UNCHANGED pageVars

Push(m) == PushStep(m) /\ UNCHANGED <<current, poll>> /\ UNCHANGED pageVars
Serve(p) == ServeStep(p) /\ UNCHANGED pageVars

Next ==
  \/ \E p \in Poll : \/ LoopPoll(p) \/ RefreshPoll(p) \/ PollSwitch(p)
                     \/ Break(p) \/ Serve(p)
  \/ \E m \in Message : Talk(m) \/ Push(m)
  \/ LoseSession

Spec == Init /\ [][Next]_vars

\* A request's thread and a talker's go on, Jetty's timer comes, and the loop
\* sends its next request.
Fairness == /\ \A p \in Poll : WF_vars(Serve(p))
            /\ \A m \in Message : WF_vars(Push(m))
            /\ WF_vars(\E p \in Poll : LoopPoll(p))

FairSpec == Spec /\ Fairness

-----------------------------------------------------------------------------
\* Properties.

\* Every message a registered listener holds, or a suspended or resumed poll.
Holding == {p \in Poll : poll[p].at \in {"handled", "waiting", "detach", "conclude"}}
Held == (UNION {Range(object[l].queue) : l \in listeners})
        \cup (UNION {Range(continuation[p].result) : p \in Holding})

\* What the answer of p carries, when its next step answers it.
Carried(p) ==
  LET queue == Range(object[poll[p].listener].queue) IN
  CASE poll[p].at \in {"fill", "drain"} /\ poll[p].toPush = <<>> -> queue
    [] poll[p].at = "conclude" /\ ~continuation[p].expired ->
         Range(continuation[p].result)
    [] /\ poll[p].at = "conclude" /\ continuation[p].expired
       /\ object[poll[p].listener].pollType = "LAZY" -> queue
    [] OTHER -> {}

\* The step adds a message to the queue of l.
AddedTo(l) ==
  \/ \E n \in Message : talk[n].at = "visit" /\ talk'[n].to = l
  \/ \E p \in Poll : /\ poll[p].at = "fill" /\ poll[p].listener = l
                     /\ poll'[p].toPush # poll[p].toPush

\* The ways a message m may vanish on the server without being answered: given
\* up by a full queue for a new one; overwritten by a second flush of a poll whose servlet
\* has not returned, or due to the poll that meets such a one; flushed to a poll
\* that Jetty's timer had marked already; left with a listener that was replaced;
\* or the session is over.
Forgotten(m) ==
  \/ \E l \in listeners : /\ Len(object[l].queue) = Capacity
                          /\ m = Head(object[l].queue)
                          /\ AddedTo(l)
  \/ \E p \in Poll : /\ m \in Range(continuation[p].result)
                     /\ \/ continuation[p].state = "redispatching"
                        \/ poll[p].at = "detach" /\ DetachThrows(current)
                        \/ poll[p].at = "conclude" /\ continuation[p].expired
  \/ \E p \in Poll : /\ poll[p].at = "unregister"
                     /\ m \in Range(object[poll[p].listener].queue)
  \/ current # NoListener /\ current' = NoListener

\* A message that was pushed to the session leaves the server with an answer,
\* except in the ways Forgotten names: no flush, drain, refresh, overlap,
\* expiry or change of listener loses one (BaseListener, PollServlet).
LossExplained ==
  [][\A m \in Held : m \in Held' \/ Forgotten(m)
       \/ \E p \in Poll : m \in Carried(p) /\ poll'[p].at = "idle"]_vars

\* The listener that the session polls is registered, so every new message
\* reaches it, however polls of different types overlap.
CurrentIsRegistered == current # NoListener => current \in listeners

\* A poll is answered in the end: it is drained at once, flushed or expires.
PollsAnswered == \A p \in Poll : poll[p].at # "idle" ~> poll[p].at = "idle"

\* While the page stays in the lazy mode, what a listener holds does not stay
\* there: it is flushed or fetched by the poll that expires.
LazyDelivered == \A m \in Message : m \in Held ~> m \notin Held
=============================================================================
