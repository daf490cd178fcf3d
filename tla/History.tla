------------------------------ MODULE History -------------------------------
(***************************************************************************)
(* The parts of the daemon that follow the log, together:                  *)
(* AccountOperationsObserver, SmartMessaging with FsCleanup, and           *)
(* LastDialedCache.  They run in one event loop and share the database,    *)
(* its directories and its signals; a signal of the library reaches each   *)
(* of them in one turn of the loop.                                        *)
(*                                                                         *)
(* Everything from outside costs a move: what other programs do with the   *)
(* log, and accounts and modems that come and go.                          *)
(***************************************************************************)
EXTENDS AccountOperations, MessageFiles, LastDialed

CONSTANT Old   \* the events that are there at the start

ASSUME OldAssumption == Old \subseteq Events

processVars == <<manager, up, stops>>

vars == <<processVars, existing, moves, storeVars, opsVars, fileVars,
          dialedVars>>

Move == moves < MaxMoves /\ moves' = moves + 1

-----------------------------------------------------------------------------
(* What happens outside *)

RemovesAccount(a) ==
  /\ Move
  /\ a \in existing
  /\ existing' = existing \ {a}
  /\ SlotAccountRemoved(a)
  /\ UNCHANGED <<processVars, fileVars, dialedVars>>

CreatesAccount(a) ==
  /\ Move
  /\ a \notin existing
  /\ existing' = existing \cup {a}
  /\ ConnectToSignals(a)
  /\ UNCHANGED <<processVars, storeVars, fileVars, dialedVars>>

LogChanges ==
  /\ Move
  /\ \/ \E e \in Events : StoresEvent(e) \/ DeletesEvent(e) \/ MovesEvent(e)
     \/ \E a \in Accounts : DeletesConversation(a)
  /\ UNCHANGED <<processVars, existing, opsVars, fileVars, dialedVars>>

ModemsChange ==
  /\ Move
  /\ \/ \E m \in Modems : OnModemAdded(m) \/ OnModemRemoved(m) \/ OnValidChanged(m)
                          \/ CardArrives(m)
     \/ \E available \in BOOLEAN : OnOfonoAvailableChanged(available)
  /\ UNCHANGED <<processVars, existing, storeVars, opsVars, dialedVars>>

-----------------------------------------------------------------------------
(* Turns of the event loop, and the process *)

ManagerGetsReady ==
  /\ ManagerAnswers
  /\ UNCHANGED <<existing, up, stops, moves, storeVars, opsVars, fileVars,
                 dialedVars>>

\* the next signal of the library
Hears ==
  /\ up
  /\ bus # <<>>
  /\ bus' = Tail(bus)
  /\ CleanupHears(Head(bus)) /\ OpsHear(Head(bus)) /\ DialedHears(Head(bus))
  /\ UNCHANGED <<processVars, existing, moves, rows, known, conversations, complete,
                 agentVars, cards>>

OpsTurn ==
  /\ \/ ObserverReady /\ UNCHANGED storeVars
     \/ GroupsLoaded
     \/ \E i \in 1 .. MaxModels : DeleteCalls(i)
  /\ UNCHANGED <<processVars, existing, moves, fileVars, dialedVars>>

FilesTurn ==
  /\ \E m \in Modems : StoresCard(m)
  /\ UNCHANGED <<processVars, existing, moves, opsVars, dialedVars>>

DialedTurn ==
  /\ DialedLoaded
  /\ UNCHANGED <<processVars, existing, moves, storeVars, opsVars, fileVars>>

\* the daemon ends: what it knows and the signals on their way to it are gone
Stop ==
  /\ up /\ stops < MaxStops
  /\ up' = FALSE
  /\ stops' = stops + 1
  /\ manager' = "pending"
  /\ bus' = <<>>
  /\ OpsStop /\ FilesStop /\ DialedStops
  /\ UNCHANGED <<existing, moves, rows, known, conversations, dirs, complete>>

\* "Restart=always"
Start ==
  /\ ~up
  /\ up' = TRUE
  /\ FilesStart
  /\ UNCHANGED <<manager, stops, existing, moves, rows, known, conversations, complete,
                 bus, opsVars, dialedVars>>

-----------------------------------------------------------------------------

\* the messages that are there have their parts
Init ==
  /\ ManagerInit
  /\ rows = Old
  /\ known = rows
  /\ conversations = {Owner[e] : e \in rows \cap Messages}
  /\ dirs = rows \cap Messages
  /\ complete = rows \cap Messages
  /\ bus = <<>>
  /\ OpsInit /\ FilesInit /\ DialedInit

Next ==
  \/ LogChanges \/ ModemsChange
  \/ \E a \in Accounts : RemovesAccount(a) \/ CreatesAccount(a)
  \/ ManagerGetsReady
  \/ Hears \/ OpsTurn \/ FilesTurn \/ DialedTurn
  \/ Stop \/ Start

\* The event loop serves every signal and answer, and systemd starts the daemon
\* again.  The account manager need not get ready.
Fairness ==
  /\ WF_vars(Hears)
  /\ WF_vars(OpsTurn)
  /\ WF_vars(FilesTurn)
  /\ WF_vars(DialedTurn)
  /\ WF_vars(Start)

Spec == Init /\ [][Next]_vars /\ Fairness

(* Properties *)

TypeOK ==
  ManagerTypes /\ EventStoreTypes /\ OpsTypes /\ FileTypes /\ DialedTypes

\* The state is of its type, and the call models that are kept wait for something.
ModelsAreSound == TypeOK /\ ListedModelsWait

\* Once the surroundings are quiet (MaxMoves bounds what they do), what belonged to
\* removed accounts is gone from the log, and what belonged to events that are
\* gone is no longer on the disk, however the two parts and their failures met.
HistoryIsCleaned == RemovedHistoryGoes /\ OrphansGo
=============================================================================
