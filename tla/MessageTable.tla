--------------------------- MODULE MessageTable ---------------------------
(***************************************************************************)
(* The ABSTRACT_MESSAGE table of the SQLite data store, as the functions   *)
(* the Java code calls on it.  A table is a function from the saved        *)
(* messages to the message each one refers to (NoRef when it refers to     *)
(* none, Deleted when its reference was redirected to the row              *)
(* SpecialIdentifiable.DELETED_MESSAGE, which the schema always holds).    *)
(***************************************************************************)
EXTENDS Naturals, Functions

CONSTANTS
  Message,   \* every message a client may ever send
  NoRef,     \* "refers to no message"
  Deleted,   \* the reference of a child whose parent was deleted
  RefOf,     \* [Message -> Message \cup {NoRef}], REFERENCE_ID_BYTES at birth
  SenderOf   \* [Message -> users], SENDER_ID_BYTES

\* A reference is the digest of an older message, so there are no cycles; a
\* message never has the identity of one of the two marks.
ASSUME TableAssumption ==
  /\ NoRef \notin Message
  /\ Deleted \notin Message
  /\ NoRef # Deleted
  /\ RefOf \in [Message -> Message \cup {NoRef}]
  /\ \A m \in Message : RefOf[m] # m
  /\ DOMAIN SenderOf = Message

Table == UNION {[S -> Message \cup {NoRef, Deleted}] : S \in SUBSET Message}

\* The rows whose reference is m.
Children(table, m) == {c \in DOMAIN table : table[c] = m}

\* INSERT OR IGNORE: a second row with the same key is ignored, and so is a
\* row whose parent is missing (its REFERENCE_DEPTH is then NULL, which the
\* column refuses).
Insertable_AnyParent(table, m) == m \notin DOMAIN table   \* mutant
Insertable(table, m) ==
  /\ m \notin DOMAIN table
  /\ RefOf[m] # NoRef => RefOf[m] \in DOMAIN table

InsertRow(table, m) ==
  IF Insertable(table, m)
  THEN [x \in DOMAIN table \cup {m} |-> IF x = m THEN RefOf[m] ELSE table[x]]
  ELSE table

\* The first statement of delete(user, m, FALSE): the sender's own replies to m
\* now refer to the "deleted" row.
RedirectReplies(table, m) ==
  [x \in DOMAIN table |->
     IF x \in Children(table, m) /\ SenderOf[x] = SenderOf[m]
     THEN Deleted ELSE table[x]]

\* The second one deletes the row; the trigger ABSTRACT_MESSAGE_DELETE_DEPENDENCE
\* deletes the rows that refer to it, once (SQLite triggers do not recurse).
\* Their own children then break the foreign key and the statement fails.
DeleteBreaksForeignKey(table, m) ==
  \E c \in Children(table, m) : Children(table, c) # {}

DeleteRow(table, m) == Restrict(table, DOMAIN table \ ({m} \cup Children(table, m)))

\* What the foreign key REFERENCE_ID_BYTES promises of every table.
ReferencesResolve(table) ==
  \A m \in DOMAIN table : table[m] \in DOMAIN table \cup {NoRef, Deleted}
=============================================================================
