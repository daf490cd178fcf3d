--------------------------- MODULE ConnectionUtils ---------------------------
(***************************************************************************)
(* ConnectionUtils: tells the MessageReviver of the connections that get   *)
(* ready.  An account is prepared when the account manager gets ready, when*)
(* it is new, and when it becomes valid again.                             *)
(*                                                                         *)
(* connectionChanged is watched only of an account that has no connection  *)
(* when it is prepared, and once more each time: the connections that come *)
(* later to an account that had one then are not announced, and those of an*)
(* account that was prepared twice are announced twice.                    *)
(***************************************************************************)
EXTENDS AccountManager

CONSTANTS Connections,  \* objects of connections
          Early,        \* those that may be there before the daemon
          Of,           \* the account of a connection
          NoConnection

ASSUME ConnectionAssumption ==
  /\ IsFiniteSet(Connections) /\ Early \subseteq Connections /\ NoConnection \notin Connections
  /\ Of \in [Connections -> Accounts]

VARIABLES
  \* --- telepathy
  usable,          \* accounts with isValidAccount()
  introspected,    \* accounts with isReady()
  connection,      \* per account: connection()
  used,            \* connections there have been
  \* --- what was asked of it
  preparing,       \* per account: becomeReady calls of prepareAccount that are due
  readying,        \* per connection: becomeReady calls that are due
  validityHeard,   \* accounts whose validityChanged is connected
  changesHeard,    \* per account: times connectionChanged is connected
  accountsHeard,   \* newAccount is connected
  \* --- history
  announced,       \* per connection: connectionReady signals
  promised,        \* connections that came to accounts prepared without one
  free,            \* the accounts that were
  again            \* per account: times it became valid again

connectionVars == <<usable, introspected, connection, used, preparing, readying, validityHeard,
                    changesHeard, accountsHeard, announced, promised, free, again>>

Counted(f, S) == [x \in DOMAIN f |-> IF x \in S THEN f[x] + 1 ELSE f[x]]

WithoutOne == {a \in Accounts : connection[a] = NoConnection}

-----------------------------------------------------------------------------
(* prepareConnection, for the accounts S *)

\* mutant: a connection that comes later is not waited for
NotWaitedFor(S) == {}

\* the accounts whose connections to come are waited for
WaitedFor(S) == S \cap WithoutOne

PrepareConnections(S) ==
  /\ validityHeard' = validityHeard \cup S
  /\ readying' = Counted(readying, {connection[a] : a \in S})
  /\ changesHeard' = Counted(changesHeard, WaitedFor(S))
  /\ free' = free \cup (S \cap WithoutOne)

\* prepareAccount, for the accounts S
PrepareAccounts(S) ==
  /\ PrepareConnections(S \cap introspected)
  /\ preparing' = Counted(preparing, S \ introspected)

\* slotAccountManagerReady, prepareAccounts
AccountsReady ==
  /\ up
  /\ manager = "ready" /\ ~accountsHeard
  /\ accountsHeard' = TRUE
  /\ PrepareAccounts(usable)
  /\ UNCHANGED <<usable, introspected, connection, used, announced, promised, again>>

\* slotAccountReady
AccountReady(a) ==
  /\ up
  /\ preparing[a] > 0
  /\ preparing' = [preparing EXCEPT ![a] = @ - 1]
  /\ \/ /\ introspected' = introspected \cup {a}
        /\ PrepareConnections({a})
     \/ /\ "account" \in MayFail
        /\ UNCHANGED <<introspected, validityHeard, readying, changesHeard, free>>
  /\ UNCHANGED <<usable, connection, used, accountsHeard, announced, promised, again>>

\* slotConnectionReady
ConnectionReady(c) ==
  /\ up
  /\ readying[c] > 0
  /\ readying' = [readying EXCEPT ![c] = @ - 1]
  /\ announced' = IF connection[Of[c]] = c THEN [announced EXCEPT ![c] = @ + 1] ELSE announced
  /\ UNCHANGED <<usable, introspected, connection, used, preparing, validityHeard,
                 changesHeard, accountsHeard, promised, free, again>>

-----------------------------------------------------------------------------
(* Telepathy *)

\* slotConnectionChanged, for each time the signal is connected; isValid() is that
\* of the proxy, so an account that is not usable is listened to as well
ConnectionComes(a, c) ==
  /\ a \in existing /\ connection[a] = NoConnection
  /\ c \notin used /\ Of[c] = a
  /\ connection' = [connection EXCEPT ![a] = c]
  /\ used' = used \cup {c}
  /\ readying' = [readying EXCEPT ![c] = changesHeard[a]]
  /\ promised' = IF a \in free THEN promised \cup {c} ELSE promised
  /\ UNCHANGED <<usable, introspected, preparing, validityHeard, changesHeard, accountsHeard,
                 announced, free, again>>

ConnectionGoes(a) ==
  /\ connection[a] # NoConnection
  /\ connection' = [connection EXCEPT ![a] = NoConnection]
  /\ UNCHANGED <<usable, introspected, used, preparing, readying, validityHeard,
                 changesHeard, accountsHeard, announced, promised, free, again>>

\* mutant: an account that becomes invalid is prepared too
EitherWay(valid) == TRUE

\* slotAccountValidityChanged looks at accounts that become valid
LooksAt(valid) == valid

\* validityChanged
ValidityChanges(a) ==
  /\ a \in existing
  /\ usable' = IF a \in usable THEN usable \ {a} ELSE usable \cup {a}
  /\ again' = IF a \in usable THEN again ELSE [again EXCEPT ![a] = @ + 1]
  /\ IF a \in validityHeard /\ LooksAt(a \notin usable)
     THEN PrepareAccounts({a})
     ELSE UNCHANGED <<preparing, readying, validityHeard, changesHeard, free>>
  /\ UNCHANGED <<introspected, connection, used, accountsHeard, announced, promised>>

\* newAccount, slotAddAccount
AccountComes(a) ==
  /\ usable' = usable \cup {a}
  /\ IF accountsHeard THEN PrepareAccounts({a})
     ELSE UNCHANGED <<preparing, readying, validityHeard, changesHeard, free>>
  /\ UNCHANGED <<introspected, connection, used, accountsHeard, announced, promised, again>>

\* the proxy of an account that is removed is not used again; what is still due of
\* it fails, and nothing comes of that
AccountGoes(a) ==
  /\ usable' = usable \ {a}
  /\ introspected' = introspected \ {a}
  /\ connection' = [connection EXCEPT ![a] = NoConnection]
  /\ validityHeard' = validityHeard \ {a}
  /\ changesHeard' = [changesHeard EXCEPT ![a] = 0]
  /\ preparing' = [preparing EXCEPT ![a] = 0]
  /\ free' = free \ {a}
  /\ UNCHANGED <<used, readying, accountsHeard, announced, promised, again>>

ConnectionsInit ==
  /\ usable \in {existing, {}}
  /\ introspected \in {existing, {}}
  /\ connection \in [Accounts -> Early \cup {NoConnection}]
  /\ \A a \in Accounts : connection[a] \in Early => Of[connection[a]] = a
  /\ used = {connection[a] : a \in Accounts} \ {NoConnection}
  /\ preparing = [a \in Accounts |-> 0]
  /\ readying = [c \in Connections |-> 0]
  /\ validityHeard = {}
  /\ changesHeard = [a \in Accounts |-> 0]
  /\ accountsHeard = FALSE
  /\ announced = [c \in Connections |-> 0]
  /\ promised = {}
  /\ free = {}
  /\ again = [a \in Accounts |-> 0]

\* what the daemon waits for is gone with it; it finds the connections anew
ConnectionsStop ==
  /\ introspected' \in {existing, {}}
  /\ preparing' = [a \in Accounts |-> 0]
  /\ readying' = [c \in Connections |-> 0]
  /\ validityHeard' = {}
  /\ changesHeard' = [a \in Accounts |-> 0]
  /\ accountsHeard' = FALSE
  /\ announced' = [c \in Connections |-> 0]
  /\ promised' = {}
  /\ free' = {}
  /\ again' = [a \in Accounts |-> 0]
  /\ UNCHANGED <<usable, connection, used>>

-----------------------------------------------------------------------------

\* The connections of an account that had none when it was prepared are announced,
\* each of them, and also those that come while the account is not valid.
ConnectionsAreAnnounced ==
  <>[](\A a \in Accounts : connection[a] \in promised => announced[connection[a]] > 0)

\* The MessageReviver checks a connection each time it is announced: once, and
\* once more for each time the account became valid again, whatever else
\* happens to the account and its connection.
AnnouncedPerPreparation ==
  \A c \in Connections : announced[c] + readying[c] <= 1 + again[Of[c]]

ConnectionTypes ==
  /\ usable \subseteq existing /\ introspected \subseteq existing
  /\ connection \in [Accounts -> used \cup {NoConnection}] /\ used \subseteq Connections
  /\ preparing \in [Accounts -> Nat] /\ readying \in [Connections -> Nat]
  /\ validityHeard \subseteq existing /\ changesHeard \in [Accounts -> Nat]
  /\ accountsHeard \in BOOLEAN
  /\ announced \in [Connections -> Nat] /\ promised \subseteq used
  /\ free \subseteq existing /\ again \in [Accounts -> Nat]
=============================================================================
