-------------------------- MODULE MC_MessageCache --------------------------
(* Small instances of MessageCache. *)
EXTENDS MessageCache

CONSTANTS topic, reply, reply2, other

\* topic <- reply <- reply2, and another topic
MCRefOf == [m \in Message |-> CASE m = reply -> topic
                                [] m = reply2 -> reply
                                [] OTHER -> NoRef]
TopicRow == <<topic>>
TopicAndReply == <<topic, reply>>
TwoTopics == <<topic, other, reply>>
=============================================================================
