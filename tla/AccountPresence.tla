--------------------------- MODULE AccountPresence ---------------------------
(***************************************************************************)
(* The AccountPresenceService: requests to set the presence of all accounts*)
(* or of one, passed on to the account manager, or kept until it is ready. *)
(* The account manager is that of ConnectionUtils.                         *)
(***************************************************************************)
EXTENDS ConnectionUtils

CONSTANT Ring          \* the accounts of the ring connection manager

ASSUME PresenceAssumption == Ring \subseteq Accounts

VARIABLES
  \* --- the account manager
  enabled,         \* enabledAccounts()
  toSet,           \* per account: calls on their way
  requested,       \* per account: requested presence
  automatic,       \* per account: the presence it connects with by itself, "none" if never
  \* --- the service
  managerHeard,    \* accountManagerReady has run
  globalUpdate,    \* m_globalUpdate, "none" if not m_globalUpdatePresent
  accountUpdate,   \* m_accountUpdate, "none" where there is no entry
  \* --- history
  asked,           \* per account: what was asked for last
  unsure           \* accounts of which LastAskedIsSet says nothing

presenceVars == <<enabled, toSet, requested, automatic, managerHeard, globalUpdate, accountUpdate,
                  asked, unsure>>

\* presenceValue knows six states; any other is not valid
Wanted == {"available", "offline"}
States == Wanted \cup {"bad"}

\* presenceUpdate: an account that is online gets the automatic presence first
Updates(state, online) ==
  LET automatically == <<[what |-> "automatic", state |-> state]>>
      now           == <<[what |-> "requested", state |-> state]>>
  IN  IF online THEN automatically \o now ELSE now \o automatically

\* what the accounts S are sent for a state
Sent(calls, S, state) ==
  [p \in Accounts |->
     IF p \in S \ Ring /\ state \in Wanted
     THEN calls[p] \o Updates(state, p \notin WithoutOne) ELSE calls[p]]

\* globalPresenceUpdate, accountPresenceUpdate
GlobalPresenceUpdate(calls, state) == Sent(calls, enabled, state)

AccountPresenceUpdate(calls, p, state) == Sent(calls, usable \cap {p}, state)

\* mutant: a global update does not supersede those of single accounts
NotSuperseded == accountUpdate

\* a global update that is deferred supersedes those of single accounts
Superseded == [p \in Accounts |-> "none"]

\* setGlobalPresenceWithMessage
SetGlobalPresence(state) ==
  /\ up
  /\ IF manager = "ready"
     THEN /\ toSet' = GlobalPresenceUpdate(toSet, state)
          /\ UNCHANGED <<globalUpdate, accountUpdate>>
     ELSE /\ globalUpdate' = state
          /\ accountUpdate' = Superseded
          /\ UNCHANGED toSet
  /\ asked' = [p \in Accounts |-> IF manager = "ready" /\ state \notin Wanted THEN asked[p] ELSE state]
  /\ unsure' = unsure \cup (Accounts \ enabled)
                      \cup (IF manager = "ready" /\ ~managerHeard THEN Accounts ELSE {})
  /\ UNCHANGED <<enabled, requested, automatic, managerHeard>>

\* setAccountPresenceWithMessage
SetAccountPresence(p, state) ==
  /\ up
  /\ IF manager = "ready"
     THEN /\ toSet' = AccountPresenceUpdate(toSet, p, state)
          /\ UNCHANGED accountUpdate
     ELSE /\ accountUpdate' = [accountUpdate EXCEPT ![p] = state]
          /\ UNCHANGED toSet
  /\ asked' = IF manager = "ready" /\ state \notin Wanted THEN asked
              ELSE [asked EXCEPT ![p] = state]
  /\ unsure' = unsure \cup ({p} \ usable)
                      \cup (IF manager = "ready" /\ ~managerHeard THEN {p} ELSE {})
  /\ UNCHANGED <<enabled, requested, automatic, managerHeard, globalUpdate>>

\* accountManagerReady: what was deferred is done, the global update first
AccountManagerReady ==
  /\ up
  /\ manager # "pending"
  /\ ~managerHeard
  /\ managerHeard' = TRUE
  /\ IF manager = "ready"
     THEN LET global == GlobalPresenceUpdate(toSet, globalUpdate)
          IN  /\ toSet' = [p \in Accounts |-> AccountPresenceUpdate(global, p, accountUpdate[p])[p]]
              /\ globalUpdate' = "none"
              /\ accountUpdate' = [p \in Accounts |-> "none"]
     ELSE UNCHANGED <<toSet, globalUpdate, accountUpdate>>
  /\ UNCHANGED <<enabled, requested, automatic, asked, unsure>>

\* the account manager takes a call: going offline by itself means not to connect
\* by itself; setRequestedPresence and setAutomaticPresence may be refused
TakesCall(p) ==
  /\ toSet[p] # <<>>
  /\ toSet' = [toSet EXCEPT ![p] = Tail(@)]
  /\ \E ok \in Outcome("presence") :
       LET call == Head(toSet[p]) IN
       /\ requested' = IF ok /\ call.what = "requested"
                       THEN [requested EXCEPT ![p] = call.state] ELSE requested
       /\ automatic' = IF ok /\ call.what = "automatic"
                       THEN [automatic EXCEPT ![p] = call.state] ELSE automatic
       /\ unsure' = IF ok THEN unsure ELSE unsure \cup {p}
  /\ UNCHANGED <<enabled, managerHeard, globalUpdate, accountUpdate, asked>>

\* what is asked of an account that comes, goes, or changes meanwhile is open
AccountChanges(p, now) ==
  /\ enabled' = now
  /\ unsure' = unsure \cup {p}
  /\ UNCHANGED <<toSet, requested, automatic, managerHeard, globalUpdate, accountUpdate, asked>>

\* calls that are on their way reach the account manager, deferred ones are lost
PresenceStops ==
  /\ managerHeard' = FALSE
  /\ globalUpdate' = "none"
  /\ accountUpdate' = [p \in Accounts |-> "none"]
  /\ unsure' = unsure \cup {p \in Accounts : globalUpdate # "none" \/ accountUpdate[p] # "none"}
  /\ UNCHANGED <<enabled, toSet, requested, automatic, asked>>

PresenceInit ==
  /\ enabled = existing
  /\ toSet = [p \in Accounts |-> <<>>]
  /\ requested = [p \in Accounts |-> "offline"]
  /\ automatic = [p \in Accounts |-> "offline"]
  /\ managerHeard = (manager = "ready")
  /\ globalUpdate = "none"
  /\ accountUpdate = [p \in Accounts |-> "none"]
  /\ asked = [p \in Accounts |-> "none"]
  /\ unsure = {}

\* What was asked for last, of all accounts or of one, is what an account is told,
\* now and for when it connects by itself: also when both were asked for, in
\* any order, before the account manager was ready.  Nothing is said of requests
\* between the account manager's getting ready and the service's hearing it,
\* where the older, deferred one is carried out last.
LastAskedIsSet ==
  \A p \in Accounts \ (Ring \cup unsure) :
    /\ asked[p] \in Wanted /\ toSet[p] = <<>> /\ globalUpdate = "none" /\ accountUpdate[p] = "none"
    => requested[p] = asked[p] /\ automatic[p] = asked[p]

PresenceTypes ==
  /\ enabled \subseteq existing
  /\ toSet \in [Accounts -> Seq([what : {"requested", "automatic"}, state : Wanted])]
  /\ requested \in [Accounts -> Wanted] /\ automatic \in [Accounts -> Wanted]
  /\ managerHeard \in BOOLEAN
  /\ globalUpdate \in States \cup {"none"}
  /\ accountUpdate \in [Accounts -> States \cup {"none"}]
  /\ asked \in [Accounts -> States \cup {"none"}] /\ unsure \subseteq Accounts
=============================================================================
