------------------------------ MODULE Accounts ------------------------------
(***************************************************************************)
(* The parts of the daemon that follow the accounts: ConnectionUtils and   *)
(* the AccountPresenceService.  Both wait for the account manager to get   *)
(* ready, and hear of it in turns of their own.                            *)
(*                                                                         *)
(* What happens outside costs a move: requests of the user, accounts and   *)
(* connections that come, change and go.                                   *)
(***************************************************************************)
EXTENDS AccountPresence

processVars == <<manager, up, stops>>

vars == <<processVars, moves, existing, connectionVars, presenceVars>>

Move == moves < MaxMoves /\ moves' = moves + 1

-----------------------------------------------------------------------------
(* What happens outside *)

AsksPresence ==
  /\ Move
  /\ \E state \in States :
       SetGlobalPresence(state) \/ \E p \in Accounts : SetAccountPresence(p, state)
  /\ UNCHANGED <<processVars, existing, connectionVars>>

TogglesAccount(a) ==
  /\ Move
  /\ a \in existing
  /\ AccountChanges(a, IF a \in enabled THEN enabled \ {a} ELSE enabled \cup {a})
  /\ UNCHANGED <<processVars, existing, connectionVars>>

RemovesAccount(a) ==
  /\ Move
  /\ a \in existing
  /\ existing' = existing \ {a}
  /\ AccountGoes(a)
  /\ AccountChanges(a, enabled \ {a})
  /\ UNCHANGED processVars

CreatesAccount(a) ==
  /\ Move
  /\ a \notin existing
  /\ existing' = existing \cup {a}
  /\ AccountComes(a)
  /\ AccountChanges(a, enabled \cup {a})
  /\ UNCHANGED processVars

AccountTurns(a) ==
  /\ Move
  /\ ValidityChanges(a)
  /\ AccountChanges(a, enabled)
  /\ UNCHANGED <<processVars, existing>>

ConnectionChanges(a) ==
  /\ Move
  /\ ConnectionGoes(a) \/ \E c \in Connections : ConnectionComes(a, c)
  /\ UNCHANGED <<processVars, existing, presenceVars>>

-----------------------------------------------------------------------------
(* Turns of the event loop, and the process *)

ManagerGetsReady ==
  /\ ManagerAnswers
  /\ UNCHANGED <<up, stops, moves, existing, connectionVars, presenceVars>>

ConnectionTurn ==
  /\ \/ AccountsReady
     \/ \E a \in Accounts : AccountReady(a)
     \/ \E c \in Connections : ConnectionReady(c)
  /\ UNCHANGED <<processVars, moves, existing, presenceVars>>

PresenceTurn ==
  /\ AccountManagerReady \/ \E p \in Accounts : TakesCall(p)
  /\ UNCHANGED <<processVars, moves, existing, connectionVars>>

\* the daemon ends, and what it keeps is gone
Stop ==
  /\ up /\ stops < MaxStops
  /\ up' = FALSE
  /\ stops' = stops + 1
  /\ manager' = "pending"
  /\ ConnectionsStop /\ PresenceStops
  /\ UNCHANGED <<moves, existing>>

\* "Restart=always"
Start ==
  /\ ~up
  /\ up' = TRUE
  /\ UNCHANGED <<manager, stops, moves, existing, connectionVars, presenceVars>>

-----------------------------------------------------------------------------

Init == ManagerInit /\ ConnectionsInit /\ PresenceInit

Next ==
  \/ AsksPresence
  \/ \E a \in Accounts : \/ TogglesAccount(a) \/ RemovesAccount(a) \/ CreatesAccount(a)
                         \/ AccountTurns(a) \/ ConnectionChanges(a)
  \/ ManagerGetsReady
  \/ ConnectionTurn \/ PresenceTurn
  \/ Stop \/ Start

\* The event loop serves every answer, and systemd starts the daemon again.  The
\* account manager need not get ready.
Fairness ==
  /\ WF_vars(ConnectionTurn)
  /\ WF_vars(PresenceTurn)
  /\ WF_vars(Start)

Spec == Init /\ [][Next]_vars /\ Fairness

(* Properties *)

TypeOK == ManagerTypes /\ ConnectionTypes /\ PresenceTypes

\* The state is of its type, and a connection is announced no more often than its
\* account was prepared, whatever signals of the account and its connection cross.
AnnouncementsBounded == TypeOK /\ AnnouncedPerPreparation
=============================================================================
