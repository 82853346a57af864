-------------------------- MODULE MC_UnsavedQueue --------------------------
(* Small instances of UnsavedMessageQueue. *)
EXTENDS UnsavedMessageQueue

CONSTANTS topic, vote, vote2, reply, reply2, ann, bob

\* A vote topic with votes and replies: topic <- vote, vote2, reply <- reply2.
MCRefOf ==
  [m \in Message |-> CASE m \in {vote, vote2, reply} -> topic
                       [] m = reply2 -> reply
                       [] OTHER -> NoRef]
MCSenderOf == [m \in Message |-> IF m \in {topic, vote} THEN ann ELSE bob]
NoPreload == <<>>
TopicPreloaded == <<topic>>
MCVotes == {vote, vote2} \cap Message
=============================================================================
