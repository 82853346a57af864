----------------------------- MODULE MessagePage -----------------------------
(* The message page of message.js: what it polls, keeps, shows and counts as *)
(* unread.  Its answers come from two connections and may overtake each     *)
(* other.  The server is what PollServlet answers when it loses nothing;    *)
(* what it may lose is in BrowserPolling.                                   *)
EXTENDS Integers, Sequences, SequencesExt, FiniteSetsExt

CONSTANTS
  Once,           \* requests of polling(true, ...) under way at the same time
  MaxPosted,      \* bound: messages posted
  MaxErrors,      \* bound: answers that are errors or are lost
  maxKeep,        \* 100
  DisplayLimit    \* 40, displayLimit of clearAndFillLazyList

ASSUME PageAssumption ==
  /\ "loop" \notin Once
  /\ MaxPosted \in Nat /\ MaxErrors \in Nat
  /\ maxKeep \in Nat \ {0} /\ DisplayLimit \in 1 .. maxKeep

Message == 1 .. MaxPosted   \* in the order they are posted
Request == Once \cup {"loop"}

VARIABLES
  posted,         \* number of messages posted
  waiting,        \* those the session's listener holds
  listening,      \* the session has a listener
  errors,
  logined,        \* GlobalInfo.isLogined()
  request,        \* request[r]: r as it travels to the server and back
  currentMode, autoLoad,          \* pollingState
  cachedList,     \* messageLocalCache, newest last
  unread,         \* UNREAD_KEY of the refresh button
  refreshDisabled,                \* the refresh button is ui-disabled
  lazyShown,      \* messages in lazyMessageList
  chatShown,      \* messages in eagerMessageList
  popupUnread     \* the popup that tells of unread messages is open

serverVars == <<posted, waiting, listening, errors>>
pollVars == <<logined, request>>
modeVars == <<currentMode, autoLoad, refreshDisabled>>
listVars == <<cachedList, unread, lazyShown, chatShown, popupUnread>>
vars == <<serverVars, pollVars, modeVars, listVars>>

PollType == {"LAZY", "EAGER", "REFRESH", "HISTORY"}

TypeOK ==
  /\ posted \in 0 .. MaxPosted
  /\ waiting \in Seq(Message)
  /\ errors \in 0 .. MaxErrors
  /\ {listening, logined, autoLoad, refreshDisabled, popupUnread} \subseteq BOOLEAN
  /\ request \in [Request -> [at : {"none", "timer", "sent", "answered"},
                              inner : PollType \cup {"none"}, type : PollType,
                              success : BOOLEAN, detail : Seq(Message)]]
  /\ currentMode \in {"LAZY", "EAGER"}
  /\ cachedList \in Seq(Message) /\ Len(cachedList) <= maxKeep
  /\ unread \in Nat
  /\ lazyShown \subseteq Message /\ chatShown \subseteq Message

-----------------------------------------------------------------------------
\* The lists of the page.

\* Array.slice(from): a negative index counts from the end.
Slice(s, from) ==
  IF from >= 0 THEN SubSeq(s, from + 1, Len(s))
               ELSE SubSeq(s, Max({1, Len(s) + from + 1}), Len(s))

\* messageLocalCache.append
Appended_NotShrunk(cached, list) == cached \o list   \* mutant
Appended_Oldest(cached, list) ==   \* mutant: the end of a long list is cut off
  SubSeq(cached \o list, 1, Min({maxKeep, Len(cached \o list)}))
Appended(cached, list) ==
  LET shrinkMax == Max({0, maxKeep - Len(list)})
      kept == Slice(cached, Len(cached) - Min({shrinkMax, Len(cached)}))
      cancatSize == maxKeep - Len(kept)
      all == kept \o Slice(list, Len(list) - cancatSize)
  IN SubSeq(all, 1, Min({maxKeep, Len(all)}))

\* messageLocalCache.lastestList
LastestList_OffByOne(number) ==   \* mutant
  Slice(cachedList, Max({0, Len(cachedList) - number + 1}))
LastestList(number) == Slice(cachedList, Max({0, Len(cachedList) - number}))

\* appendBlog shows the newest maxKeep of a list.
Blog_Oldest(list) == Range(SubSeq(list, 1, Min({Len(list), maxKeep})))   \* mutant
Blog(list) == Range(Slice(list, Max({0, Len(list) - maxKeep})))

ClearAndFillLazyList == lazyShown' = Range(LastestList(DisplayLimit))

\* pollingState.autoLoad(set), in the mode the page has by now.
AutoLoad(set, mode) ==
  /\ autoLoad' = set
  /\ refreshDisabled' = (set \/ (refreshDisabled /\ mode # "LAZY"))

-----------------------------------------------------------------------------
NoRequest == [at |-> "none", inner |-> "none", type |-> "LAZY", success |-> TRUE,
              detail |-> <<>>]

\* pagecreate: the loop is entered with HISTORY.
Init ==
  /\ posted = 0 /\ waiting = <<>> /\ listening = FALSE /\ errors = 0
  /\ logined \in BOOLEAN
  /\ request = [r \in Request |->
       IF r = "loop" THEN [NoRequest EXCEPT !.at = "timer", !.inner = "HISTORY"]
                     ELSE NoRequest]
  /\ currentMode = "LAZY" /\ autoLoad = TRUE /\ refreshDisabled = TRUE
  /\ cachedList = <<>> /\ unread = 0
  /\ lazyShown = {} /\ chatShown = {} /\ popupUnread = FALSE

\* The server.
Post ==
  /\ posted < MaxPosted
  /\ posted' = posted + 1
  /\ waiting' = Append(waiting, posted + 1)
  /\ UNCHANGED <<listening, errors>> /\ UNCHANGED pollVars
  /\ UNCHANGED modeVars /\ UNCHANGED listVars

Answer(r, success, detail) ==
  request' = [request EXCEPT ![r].at = "answered", ![r].success = success,
                             ![r].detail = detail]

\* A poll takes what the listener holds; an eager one may expire or switch the
\* listener and get nothing; HISTORY with a listener gets every recent message
\* and takes nothing.
Serve(r) ==
  LET type == request[r].type
      history == type = "HISTORY" /\ listening IN
  /\ request[r].at = "sent"
  /\ \/ ~history /\ Answer(r, TRUE, waiting) /\ waiting' = <<>>
     \/ ~history /\ type = "EAGER" /\ Answer(r, TRUE, <<>>) /\ UNCHANGED waiting
     \/ history /\ Answer(r, TRUE, [m \in 1 .. posted |-> m]) /\ UNCHANGED waiting
  /\ listening' = TRUE
  /\ UNCHANGED <<posted, errors, logined>>
  /\ UNCHANGED modeVars /\ UNCHANGED listVars

\* An error of the servlet: a busy store, or an overlapping poll turned away.
ServeError(r) ==
  /\ request[r].at = "sent" /\ errors < MaxErrors
  /\ errors' = errors + 1
  /\ \E ok \in BOOLEAN : Answer(r, ok, <<>>)
  /\ UNCHANGED <<posted, waiting, listening, logined>>
  /\ UNCHANGED modeVars /\ UNCHANGED listVars

\* What complete does: the loop sets its timer and forgets the first type.
Completed(r) ==
  request' = [request EXCEPT ![r] =
                IF r = "loop" THEN [NoRequest EXCEPT !.at = "timer"] ELSE NoRequest]

\* polling: impl when its timer comes.  Before the login it keeps the type it
\* would have polled with.
Impl ==
  LET inner == request["loop"].inner
      type == IF inner = "none" THEN currentMode ELSE inner IN
  /\ request["loop"].at = "timer"
  /\ request' = [request EXCEPT !["loop"] =
       IF logined THEN [NoRequest EXCEPT !.at = "sent", !.inner = inner, !.type = type]
                  ELSE [NoRequest EXCEPT !.at = "timer", !.inner = type]]
  /\ UNCHANGED logined
  /\ UNCHANGED serverVars /\ UNCHANGED modeVars /\ UNCHANGED listVars

\* polling(true, type): one request, or none before the login.
PollOnce(type) ==
  \/ ~logined /\ UNCHANGED request
  \/ /\ logined
     /\ \E r \in Once :
          /\ request[r].at = "none"
          /\ request' = [request EXCEPT ![r] =
               [NoRequest EXCEPT !.at = "sent", !.inner = type, !.type = type]]

\* loadMessagesResults
LoadMessagesResults(list) ==
  /\ cachedList' = Appended(cachedList, list)
  /\ \/ /\ currentMode = "EAGER"
        /\ chatShown' = chatShown \cup Range(list)
        /\ UNCHANGED modeVars /\ UNCHANGED <<unread, lazyShown, popupUnread>>
     \/ /\ currentMode = "LAZY" /\ autoLoad
        /\ lazyShown' = lazyShown \cup Blog(list)
        /\ AutoLoad(FALSE, currentMode)
        /\ UNCHANGED <<currentMode, unread, chatShown, popupUnread>>
     \/ /\ currentMode = "LAZY" /\ ~autoLoad
        /\ unread' = unread + Len(list)
        /\ popupUnread' = TRUE
        /\ UNCHANGED modeVars /\ UNCHANGED <<lazyShown, chatShown>>

\* An empty answer of a refresh does not end the loading.
EndsLoading_First(inner) == inner = "HISTORY"   \* mutant
EndsLoading(inner) == inner # "REFRESH"

\* success and complete of the request.
Success(r) ==
  LET a == request[r] IN
  /\ a.at = "answered"
  /\ Completed(r)
  /\ \/ a.success /\ a.detail # <<>> /\ LoadMessagesResults(a.detail)
     \/ /\ a.success /\ a.detail = <<>> /\ EndsLoading(a.inner)
        /\ AutoLoad(FALSE, currentMode)
        /\ UNCHANGED currentMode /\ UNCHANGED listVars
     \/ /\ ~a.success \/ (a.detail = <<>> /\ ~EndsLoading(a.inner))
        /\ UNCHANGED modeVars /\ UNCHANGED listVars
  /\ UNCHANGED logined /\ UNCHANGED serverVars

\* error and complete: the connection broke or the 35 seconds are over.  An
\* answer that comes later is not seen.
Error(r) ==
  /\ request[r].at \in {"sent", "answered"} /\ errors < MaxErrors
  /\ errors' = errors + 1
  /\ Completed(r)
  /\ UNCHANGED <<posted, waiting, listening, logined>>
  /\ UNCHANGED modeVars /\ UNCHANGED listVars

-----------------------------------------------------------------------------
\* The user.
Login ==
  /\ ~logined /\ logined' = TRUE
  /\ UNCHANGED request
  /\ UNCHANGED serverVars /\ UNCHANGED modeVars /\ UNCHANGED listVars

\* The unread count stays when the list is filled: its selector has no "#".
OnButtonRefreshClicked ==
  /\ ~refreshDisabled
  /\ \/ /\ unread > 0
        /\ ClearAndFillLazyList
        /\ UNCHANGED request /\ UNCHANGED modeVars
     \/ /\ unread = 0
        /\ AutoLoad(TRUE, currentMode)
        /\ PollOnce("REFRESH")
        /\ UNCHANGED <<currentMode, lazyShown>>
  /\ UNCHANGED <<cachedList, unread, chatShown, popupUnread, logined>>
  /\ UNCHANGED serverVars

\* success of TalkServlet, as far as this page's lists go.
TalkSucceeded ==
  /\ logined /\ currentMode = "LAZY"
  /\ AutoLoad(TRUE, currentMode)
  /\ PollOnce("REFRESH")
  /\ UNCHANGED <<currentMode, logined>>
  /\ UNCHANGED serverVars /\ UNCHANGED listVars

OnButtonViewClicked ==
  /\ popupUnread
  /\ ClearAndFillLazyList
  /\ unread' = 0 /\ popupUnread' = FALSE
  /\ UNCHANGED <<cachedList, chatShown>>
  /\ UNCHANGED serverVars /\ UNCHANGED pollVars /\ UNCHANGED modeVars

\* onButtonLaterClicked, or the popup's own four seconds are over.
OnButtonLaterClicked ==
  /\ popupUnread /\ popupUnread' = FALSE
  /\ UNCHANGED <<cachedList, unread, lazyShown, chatShown>>
  /\ UNCHANGED serverVars /\ UNCHANGED pollVars /\ UNCHANGED modeVars

SwitchToEager ==
  /\ currentMode = "LAZY" /\ currentMode' = "EAGER"
  /\ refreshDisabled' = TRUE
  /\ PollOnce("EAGER")
  /\ chatShown' = Range(LastestList(maxKeep))
  /\ UNCHANGED lazyShown

SwitchToLazy ==
  /\ currentMode = "EAGER" /\ currentMode' = "LAZY"
  /\ refreshDisabled' = FALSE
  /\ ClearAndFillLazyList
  /\ UNCHANGED <<request, chatShown>>

OnButtonPollSwitchClicked ==
  /\ SwitchToEager \/ SwitchToLazy
  /\ unread' = 0
  /\ UNCHANGED <<autoLoad, cachedList, popupUnread, logined>>
  /\ UNCHANGED serverVars

\* pageshow asks autoLoad(), which sets the button again.
PageShow ==
  /\ AutoLoad(autoLoad, currentMode)
  /\ UNCHANGED currentMode
  /\ UNCHANGED serverVars /\ UNCHANGED pollVars /\ UNCHANGED listVars

Next ==
  \/ Post \/ Login \/ Impl
  \/ \E r \in Request : Serve(r) \/ ServeError(r) \/ Success(r) \/ Error(r)
  \/ OnButtonRefreshClicked \/ TalkSucceeded \/ OnButtonViewClicked
  \/ OnButtonLaterClicked \/ OnButtonPollSwitchClicked \/ PageShow

Spec == Init /\ [][Next]_vars

\* The loop's timer comes, its poll is answered and the answer is handled.
FairSpec == Spec /\ WF_vars(Impl) /\ WF_vars(Serve("loop")) /\ WF_vars(Success("loop"))
-----------------------------------------------------------------------------
\* Properties.

\* In the lazy mode a message among the newest that the page would show is
\* either shown or counted as unread, whatever the order of answers, clicks and
\* changes of the mode (loadMessagesResults, onButtonRefreshClicked).
UnreadCovers ==
  currentMode = "LAZY" =>
    Cardinality(Range(LastestList(DisplayLimit)) \ lazyShown) <= unread

\* The chat shows every message the page keeps: one that arrived in the lazy
\* mode is shown by the change of the mode, a later one by its answer.
ChatShowsAll == currentMode = "EAGER" => Range(cachedList) \subseteq chatShown

\* An answer leaves the newest maxKeep messages in the cache, except that the
\* oldest of its own are dropped when it has more messages than half of the room
\* that is left: append passes a negative index to slice.
AppendKeepsNewest ==
  [][cachedList' # cachedList =>
       \E r \in Request :
         LET all == cachedList \o request[r].detail
             dropped == all # cachedList' /\ Len(all) < maxKeep
         IN /\ request[r].at = "answered"
            /\ IF dropped THEN /\ Len(all) + Len(request[r].detail) > maxKeep
                               /\ cachedList' # <<>> /\ IsSuffix(<<Last(all)>>, cachedList')
                          ELSE cachedList' = Slice(all, Max({0, Len(all) - maxKeep}))]_vars

\* The page does not stay loading, with its button off, while it polls lazily:
\* the loop's next answer ends what a failed or empty refresh left.
LoadingEnds == logined /\ autoLoad ~> ~autoLoad \/ currentMode = "EAGER"
=============================================================================
