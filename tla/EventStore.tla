----------------------------- MODULE EventStore -----------------------------
(***************************************************************************)
(* The database of libcommhistory, the directories of message parts beside *)
(* it, and the signals by which the library tells every process what was   *)
(* added and deleted.  All of it is external: the parts of the daemon that *)
(* share it (AccountOperations, MessageFiles, LastDialed) extend this      *)
(* module, and the user's actions on it come from other programs.          *)
(***************************************************************************)
EXTENDS AccountManager, SequencesExt

CONSTANTS Messages,     \* events that belong to a conversation
          CallLog,      \* dialled calls, in the order of their time
          Owner,        \* the account of an event (Event::localUid)
          NoEvent       \* no event

Dialled == {CallLog[i] : i \in DOMAIN CallLog}
Events  == Messages \cup Dialled

ASSUME StoreAssumption ==
  /\ IsFiniteSet(Messages)
  /\ CallLog \in Seq(Dialled)
  /\ \A i, j \in DOMAIN CallLog : CallLog[i] = CallLog[j] => i = j
  /\ Messages \cap Dialled = {}
  /\ Owner \in [Events -> Accounts]
  /\ NoEvent \notin Events

VARIABLES rows,           \* the events of the database
          known,          \* the events that were ever stored: ids are not used again
          conversations,  \* the accounts that have a group there
          dirs,           \* events with a directory for message parts
          complete,       \* events whose row names parts that were stored
          bus             \* signals of the library on their way to the daemon

storeVars == <<rows, known, conversations, dirs, complete, bus>>

Added(e)      == [kind |-> "added", ev |-> e]
Deleted(e)    == [kind |-> "deleted", ev |-> e]
GroupsDeleted == [kind |-> "groups", ev |-> NoEvent]

Signals == [kind : {"added", "deleted"}, ev : Events] \cup {GroupsDeleted}

\* signals are lost while the daemon is not there
Emitted(signals) == IF up THEN bus \o signals ELSE bus

\* deleteEvent for every event of S: one signal for each
DeletedEach(S) == [i \in 1 .. Cardinality(S) |-> Deleted(SetToSeq(S)[i])]

-----------------------------------------------------------------------------
(* What other programs, or other parts of the daemon, do with the database   *)

\* an event of the log is stored; calls come in the order of their time
Stored(e) ==
  /\ e \notin known
  /\ \A i, j \in DOMAIN CallLog : CallLog[i] = e /\ CallLog[j] \in known => j < i
  /\ rows' = rows \cup {e}
  /\ known' = known \cup {e}
  /\ conversations' = IF e \in Messages THEN conversations \cup {Owner[e]} ELSE conversations
  /\ bus' = Emitted(<<Added(e)>>)

\* a message stored with its parts (MmsHandler), or a call
StoresEvent(e) ==
  /\ Stored(e)
  /\ dirs' = IF e \in Messages THEN dirs \cup {e} ELSE dirs
  /\ complete' = IF e \in Messages THEN complete \cup {e} ELSE complete

DeletesEvent(e) ==
  /\ e \in rows
  /\ rows' = rows \ {e}
  /\ bus' = Emitted(<<Deleted(e)>>)
  /\ UNCHANGED <<known, conversations, dirs, complete>>

\* EventModel::moveEvent: a deletion is signalled of an event that stays
MovesEvent(e) ==
  /\ e \in rows \cap Messages
  /\ bus' = Emitted(<<Deleted(e), Added(e)>>)
  /\ UNCHANGED <<rows, known, conversations, dirs, complete>>

\* GroupModel::deleteGroups, for the conversations of the accounts S
WithoutGroups(S) ==
  /\ rows' = {e \in rows : e \in Messages => Owner[e] \notin S}
  /\ conversations' = conversations \ S
  /\ bus' = Emitted(<<GroupsDeleted>>)
  /\ UNCHANGED known

DeletesConversation(a) ==
  /\ a \in conversations
  /\ WithoutGroups({a})
  /\ UNCHANGED <<dirs, complete>>

EventStoreTypes ==
  /\ rows \subseteq known /\ known \subseteq Events /\ conversations \subseteq Accounts
  /\ dirs \subseteq Messages /\ complete \subseteq Messages
  /\ bus \in Seq(Signals)
=============================================================================
