---------------------------- MODULE MessageFiles ----------------------------
(***************************************************************************)
(* The directories of message parts: SmartMessaging stores a business card *)
(* as an event with one part, and FsCleanup removes the directories whose  *)
(* event is gone.                                                          *)
(*                                                                         *)
(* The agent a modem knows is an object on the bus.  When ofono announces  *)
(* a modem again, onModemAdded puts a new agent into the map and leaves    *)
(* the old one on the bus, with its connections to onReceiveBusinessCard.  *)
(***************************************************************************)
EXTENDS EventStore

CONSTANTS Modems,
          RingAccount,   \* the account of a modem
          MaxSetups      \* bound on the calls of setup for one agent

ASSUME ModemAssumption ==
  RingAccount \in [Modems -> Accounts] /\ MaxSetups \in Nat \ {0}

VARIABLES present,       \* the modems ofono lists
          interfaces,    \* the keys of `interfaces'
          valid,         \* modems whose SmartMessaging interface is valid
          connected,     \* per modem: connections of the agent in `agents'
          left,          \* per modem: connections of an agent that was left behind
          cards,         \* calls of onReceiveBusinessCard that are due
          stuck          \* directories that could not be removed

agentVars == <<present, interfaces, valid, connected, left>>
fileVars  == <<agentVars, cards, stuck>>

-----------------------------------------------------------------------------
(* FsCleanup *)

\* removeDir of the directories S, some of which cannot be removed
RemoveDirs(S) ==
  \E failed \in (IF "rmdir" \in MayFail THEN SUBSET S ELSE {{}}) :
    /\ dirs' = dirs \ (S \ failed)
    /\ stuck' = stuck \cup failed

\* mutant: the directories of a conversation stay
NothingLeft == {}

\* fullCleanup: every directory of an event that does not exist
Orphans == dirs \ rows

\* mutant: the event is not looked up
AnyEvent(e) == TRUE

\* onEventDeleted ignores the deletions that moveEvent signals
IsGone(e) == e \notin rows

\* onEventDeleted, onGroupsDeleted
CleanupHears(sig) ==
  CASE sig.kind = "deleted" -> RemoveDirs(IF IsGone(sig.ev) THEN dirs \cap {sig.ev} ELSE {})
    [] sig.kind = "groups"  -> RemoveDirs(Orphans)
    [] OTHER                -> UNCHANGED <<dirs, stuck>>

-----------------------------------------------------------------------------
(* SmartMessaging: business cards *)

\* modifyEvent gives the row its part
Completed(e, saved) == IF saved THEN complete \cup {e} ELSE complete

\* One call of onReceiveBusinessCard: group, row, file, and the row again; a
\* failure after the row deletes it.
OnReceiveBusinessCard(e) ==
  \/ /\ "group" \in MayFail /\ UNCHANGED storeVars
  \/ /\ "add" \in MayFail
     /\ conversations' = conversations \cup {Owner[e]}
     /\ UNCHANGED <<rows, known, dirs, complete, bus>>
  \/ \E saved \in Outcome("save"), modified \in Outcome("modify"),
        deleted \in Outcome("deleteCard"), made \in BOOLEAN :
       /\ e \notin known /\ known' = known \cup {e}
       /\ saved => made
       /\ conversations' = conversations \cup {Owner[e]}
       /\ dirs' = IF made THEN dirs \cup {e} ELSE dirs
       /\ complete' = Completed(e, saved /\ modified)
       /\ IF (saved /\ modified) \/ ~deleted
          THEN rows' = rows \cup {e} /\ bus' = Emitted(<<Added(e)>>)
          ELSE rows' = rows /\ bus' = Emitted(<<Added(e), Deleted(e)>>)

\* setup(): the agent is registered and its signals are connected, once more
Setup(m) == connected' = [connected EXCEPT ![m] = @ + 1]

\* addModem, for a modem that is not in `interfaces'
AddModem(m) ==
  IF m \in valid THEN connected' = [connected EXCEPT ![m] = 1]
                 ELSE connected' = [connected EXCEPT ![m] = 0]

\* the agent that is left behind keeps the path of those that come after
LeftBehind(m) == IF left[m] = 0 THEN connected[m] ELSE left[m]

\* onModemAdded: the interface is replaced, and so is the agent
OnModemAdded(m) ==
  /\ up
  /\ present' = present \cup {m}
  /\ interfaces' = interfaces \cup {m}
  /\ left' = [left EXCEPT ![m] = LeftBehind(m)]
  /\ AddModem(m)
  /\ UNCHANGED <<valid, cards, stuck>>

OnModemRemoved(m) ==
  /\ up
  /\ m \in present
  /\ present' = present \ {m}
  /\ interfaces' = interfaces \ {m}
  /\ connected' = [connected EXCEPT ![m] = 0]
  /\ valid' = valid \ {m}
  /\ UNCHANGED <<left, cards, stuck>>

\* onValidChanged connects the agent again each time
OnValidChanged(m) ==
  /\ up
  /\ m \in interfaces
  /\ IF m \in valid
     THEN valid' = valid \ {m} /\ UNCHANGED connected
     ELSE valid' = valid \cup {m} /\ connected[m] < MaxSetups /\ Setup(m)
  /\ UNCHANGED <<present, interfaces, left, cards, stuck>>

\* onOfonoAvailableChanged
OnOfonoAvailableChanged(available) ==
  /\ up
  /\ IF available
     THEN /\ interfaces' = interfaces \cup present
          /\ connected' = [m \in Modems |->
               IF m \in present \ interfaces THEN (IF m \in valid THEN 1 ELSE 0)
                                             ELSE connected[m]]
     ELSE /\ interfaces' = {}
          /\ connected' = [m \in Modems |-> 0]
  /\ UNCHANGED <<present, valid, left, cards, stuck>>

\* The signal of the agent that is on the bus, one call for each connection.
Listening(m) == IF left[m] > 0 THEN left[m] ELSE connected[m]

CardArrives(m) ==
  /\ up
  /\ m \in present
  /\ cards' = [cards EXCEPT ![m] = @ + Listening(m)]
  /\ UNCHANGED <<agentVars, stuck>>

\* the events of a modem are those of its account
StoresCard(m) ==
  /\ up
  /\ cards[m] > 0
  /\ cards' = [cards EXCEPT ![m] = @ - 1]
  /\ \E e \in {x \in Messages : Owner[x] = RingAccount[m]} : OnReceiveBusinessCard(e)
  /\ UNCHANGED <<agentVars, stuck>>

\* the destructor leaves no agent; a new daemon finds the modems that are there,
\* and its FsCleanup begins with a full cleanup
FilesStop ==
  /\ interfaces' = {}
  /\ connected' = [m \in Modems |-> 0]
  /\ left' = [m \in Modems |-> 0]
  /\ cards' = [m \in Modems |-> 0]
  /\ UNCHANGED <<present, valid, stuck>>

FilesStart ==
  /\ interfaces' = present
  /\ connected' = [m \in Modems |-> IF m \in valid THEN 1 ELSE 0]
  /\ RemoveDirs(Orphans)
  /\ UNCHANGED <<present, valid, left, cards>>

FilesInit ==
  /\ present = Modems
  /\ interfaces = present
  /\ valid \in SUBSET present
  /\ connected = [m \in Modems |-> IF m \in valid THEN 1 ELSE 0]
  /\ left = [m \in Modems |-> 0]
  /\ cards = [m \in Modems |-> 0]
  /\ stuck = {}

\* The directory of an event whose row names its parts is there: no cleanup
\* takes it while the event exists, although a move of the event is signalled
\* like a deletion, and every store, removal and restart runs a cleanup.
PartsAreThere == complete \cap rows \subseteq dirs

\* Directories of events that are gone are removed, however the events went:
\* alone, with their conversation, with their account, or while no daemon ran.
OrphansGo == <>[](dirs \ rows \subseteq stuck)

FileTypes ==
  /\ present \subseteq Modems /\ interfaces \subseteq Modems /\ valid \subseteq Modems
  /\ connected \in [Modems -> 0 .. MaxSetups] /\ left \in [Modems -> 0 .. MaxSetups]
  /\ cards \in [Modems -> Nat] /\ stuck \subseteq Messages
=============================================================================
