---------------------------- MODULE WriteBehind ----------------------------
(***************************************************************************)
(* What UnsavedMessageQueue promises to the rest of the program, without    *)
(* its threads, batches and locks: messages are accepted once, wait in the  *)
(* order in which they were accepted, and are handed to the data store from *)
(* the head.  A waiting message may be withdrawn by its author, and the     *)
(* newest waiting messages may be lost together when saving is too slow.    *)
(***************************************************************************)
EXTENDS Sequences, SequencesExt

CONSTANT Item

VARIABLES
  waiting,   \* accepted and not yet handed over, oldest first
  handed,    \* handed to the data store
  accepted   \* ever accepted

Init ==
  /\ waiting = <<>>
  /\ handed \in SUBSET Item
  /\ accepted = handed

Accept(x) ==
  /\ x \in Item \ accepted
  /\ accepted' = accepted \cup {x}
  /\ waiting' = Append(waiting, x)
  /\ UNCHANGED handed

HandOver ==
  /\ waiting # <<>>
  /\ handed' = handed \cup {Head(waiting)}
  /\ waiting' = Tail(waiting)
  /\ UNCHANGED accepted

Withdraw(i) ==
  /\ waiting' = RemoveAt(waiting, i)
  /\ UNCHANGED <<handed, accepted>>

Lose(keep) ==
  /\ waiting' = SubSeq(waiting, 1, keep)
  /\ UNCHANGED <<handed, accepted>>

Next ==
  \/ \E x \in Item : Accept(x)
  \/ HandOver
  \/ \E i \in DOMAIN waiting : Withdraw(i)
  \/ \E keep \in 0..Len(waiting) : Lose(keep)

Spec == Init /\ [][Next]_<<waiting, handed, accepted>>
=============================================================================
