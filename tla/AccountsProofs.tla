---------------------------- MODULE AccountsProofs ----------------------------
(***************************************************************************)
(* Proofs about Accounts, for every set of accounts and connections and    *)
(* any number of moves and stops: types, how often a connection is         *)
(* announced, and that an account is told what was asked for last.         *)
(***************************************************************************)
EXTENDS Accounts, SequenceTheorems, TLAPS

-----------------------------------------------------------------------------
(* Connections: the inductive invariant *)

\* nothing is due, heard or connected of an account that does not exist
NothingOfGone ==
  \A a \in Accounts \ existing :
    preparing[a] = 0 /\ changesHeard[a] = 0 /\ connection[a] = NoConnection

\* a connection belongs to the account that has it
OwnConnection ==
  \A a \in Accounts :
    connection[a] # NoConnection => connection[a] \in Connections /\ Of[connection[a]] = a

\* a connection that was not there yet was not announced
UnusedUnheard == \A c \in Connections \ used : announced[c] = 0 /\ readying[c] = 0

\* nothing is prepared before the account manager is ready
NothingBefore ==
  ~accountsHeard =>
    /\ validityHeard = {}
    /\ \A a \in Accounts : preparing[a] = 0 /\ changesHeard[a] = 0
    /\ \A c \in Connections : announced[c] = 0 /\ readying[c] = 0

\* every preparation of an account, one and one more each time it became valid
\* again, is still due, or watches for connections, or got the connection ready
PreparedOnce(a) ==
  /\ preparing[a] + changesHeard[a] <= 1 + again[a]
  /\ connection[a] # NoConnection =>
       preparing[a] + announced[connection[a]] + readying[connection[a]] <= 1 + again[a]

ConnectionInv ==
  /\ NothingOfGone /\ OwnConnection /\ UnusedUnheard /\ NothingBefore
  /\ \A a \in Accounts : PreparedOnce(a)
  /\ AnnouncedPerPreparation

-----------------------------------------------------------------------------
(* Presence: the inductive invariant *)

Kinds == {"requested", "automatic"}

Call == [what : Kinds, state : Wanted]

\* no call of s is of kind w; the last one of that kind asks for state
Never(s, w)       == \A i \in 1 .. Len(s) : s[i].what # w
Last(s, w, state) ==
  \E i \in 1 .. Len(s) : /\ s[i].what = w /\ s[i].state = state
                         /\ \A j \in 1 .. Len(s) : j > i => s[j].what # w

\* when the calls s are taken, what was `value' before is `state'
EndsAs(s, w, value, state) == Last(s, w, state) \/ (Never(s, w) /\ value = state)

Told(p) ==
  /\ EndsAs(toSet[p], "requested", requested[p], asked[p])
  /\ EndsAs(toSet[p], "automatic", automatic[p], asked[p])

\* what was asked for last is deferred, and will be passed on, or is on its way
Promises(p) ==
  \/ accountUpdate[p] # "none" /\ accountUpdate[p] = asked[p] /\ p \in usable
  \/ /\ accountUpdate[p] = "none"
     /\ globalUpdate # "none" /\ globalUpdate = asked[p] /\ p \in enabled
  \/ accountUpdate[p] = "none" /\ globalUpdate = "none" /\ Told(p)

\* nothing is deferred once the service has heard that the account manager is ready
NothingDeferred ==
  /\ managerHeard => manager # "pending"
  /\ managerHeard /\ manager = "ready" =>
       globalUpdate = "none" /\ \A p \in Accounts : accountUpdate[p] = "none"

PresenceInv ==
  /\ NothingDeferred
  /\ \A p \in Accounts \ (Ring \cup unsure) : asked[p] \in Wanted => Promises(p)

Inv == TypeOK /\ ConnectionInv
-----------------------------------------------------------------------------
(* Types *)

\* Counting once more in S.
LEMMA CountedType ==
  ASSUME NEW D, NEW f \in [D -> Nat], NEW S
  PROVE  /\ Counted(f, S) \in [D -> Nat]
         /\ \A x \in D : Counted(f, S)[x] = IF x \in S THEN f[x] + 1 ELSE f[x]
<1>1. DOMAIN f = D /\ \A x \in D : f[x] + 1 \in Nat
  OBVIOUS
<1> QED BY <1>1 DEF Counted

\* What is prepared stays in its type.
LEMMA PrepareTypes ==
  ASSUME ConnectionTypes, NEW S \in SUBSET existing, existing \subseteq Accounts, PrepareAccounts(S)
  PROVE  /\ preparing' \in [Accounts -> Nat] /\ readying' \in [Connections -> Nat]
         /\ changesHeard' \in [Accounts -> Nat]
         /\ validityHeard' \subseteq existing /\ free' \subseteq existing
<1>1. /\ preparing \in [Accounts -> Nat] /\ readying \in [Connections -> Nat]
      /\ changesHeard \in [Accounts -> Nat] /\ validityHeard \subseteq existing
      /\ free \subseteq existing
  BY DEF ConnectionTypes
<1> DEFINE T == S \cap introspected
<1>2. /\ preparing' = Counted(preparing, S \ introspected)
      /\ readying' = Counted(readying, {connection[a] : a \in T})
      /\ changesHeard' = Counted(changesHeard, WaitedFor(T))
      /\ validityHeard' = validityHeard \cup T
      /\ free' = free \cup (T \cap WithoutOne)
  BY DEF PrepareAccounts, PrepareConnections
<1> QED BY <1>1, <1>2, CountedType

\* The account manager's signals and the moves of telepathy keep the types.
LEMMA ConnectionTurnTypes ==
  ASSUME ManagerTypes, ConnectionTypes, NothingOfGone, existing' = existing,
         AccountsReady \/ (\E a \in Accounts : AccountReady(a)) \/ (\E c \in Connections : ConnectionReady(c))
  PROVE  ConnectionTypes'
<1>1. CASE AccountsReady
  <2>1. PrepareAccounts(usable) /\ usable \in SUBSET existing /\ existing \subseteq Accounts
    BY <1>1 DEF AccountsReady, ConnectionTypes, ManagerTypes
  <2>2. /\ preparing' \in [Accounts -> Nat] /\ readying' \in [Connections -> Nat]
        /\ changesHeard' \in [Accounts -> Nat]
        /\ validityHeard' \subseteq existing /\ free' \subseteq existing
    BY <2>1, PrepareTypes
  <2> QED BY <1>1, <2>2 DEF AccountsReady, ConnectionTypes
<1>2. ASSUME NEW a \in Accounts, AccountReady(a)
      PROVE  ConnectionTypes'
  <2>0. a \in existing
    BY <1>2 DEF AccountReady, NothingOfGone
  <2>1. preparing' \in [Accounts -> Nat]
    <3>1. preparing[a] > 0 /\ preparing[a] \in Nat
      BY <1>2 DEF AccountReady, ConnectionTypes
    <3>2. preparing[a] - 1 \in Nat
      BY <3>1
    <3> QED BY <1>2, <3>2 DEF AccountReady, ConnectionTypes
  <2>2. CASE PrepareConnections({a})
    BY <1>2, <2>0, <2>1, <2>2, CountedType DEF AccountReady, PrepareConnections, ConnectionTypes
  <2>3. CASE UNCHANGED <<introspected, validityHeard, readying, changesHeard, free>>
    BY <1>2, <2>0, <2>1, <2>3 DEF AccountReady, ConnectionTypes
  <2> QED BY <1>2, <2>2, <2>3 DEF AccountReady
<1>3. ASSUME NEW c \in Connections, ConnectionReady(c)
      PROVE  ConnectionTypes'
  <2>1. readying[c] > 0 /\ readying[c] \in Nat /\ announced[c] \in Nat
    BY <1>3 DEF ConnectionReady, ConnectionTypes
  <2>2. readying[c] - 1 \in Nat /\ announced[c] + 1 \in Nat
    BY <2>1
  <2>3. readying' \in [Connections -> Nat] /\ announced' \in [Connections -> Nat]
    BY <1>3, <2>2 DEF ConnectionReady, ConnectionTypes
  <2> QED BY <1>3, <2>3 DEF ConnectionReady, ConnectionTypes
<1> QED BY <1>1, <1>2, <1>3
\* What telepathy does to the connections keeps the types.
LEMMA ConnectionMoveTypes ==
  ASSUME ManagerTypes, ConnectionTypes, NEW a \in Accounts, existing' = existing,
         \/ ConnectionGoes(a) \/ (\E c \in Connections : ConnectionComes(a, c))
         \/ ValidityChanges(a)
  PROVE  ConnectionTypes'
<1>1. CASE ConnectionGoes(a)
  BY <1>1 DEF ConnectionGoes, ConnectionTypes
<1>2. ASSUME NEW c \in Connections, ConnectionComes(a, c)
      PROVE  ConnectionTypes'
  BY <1>2 DEF ConnectionComes, ConnectionTypes
<1>3. CASE ValidityChanges(a)
  <2>1. a \in existing /\ existing \subseteq Accounts
    BY <1>3 DEF ValidityChanges, ManagerTypes
  <2>2. /\ preparing' \in [Accounts -> Nat] /\ readying' \in [Connections -> Nat]
        /\ changesHeard' \in [Accounts -> Nat]
        /\ validityHeard' \subseteq existing /\ free' \subseteq existing
    <3>1. CASE PrepareAccounts({a})
      <4>1. {a} \in SUBSET existing
        BY <2>1
      <4> QED BY <2>1, <3>1, <4>1, PrepareTypes
    <3>2. CASE UNCHANGED <<preparing, readying, validityHeard, changesHeard, free>>
      BY <3>2 DEF ConnectionTypes
    <3> QED BY <1>3, <3>1, <3>2 DEF ValidityChanges
  <2>3. usable' \subseteq existing
    BY <1>3, <2>1 DEF ValidityChanges, ConnectionTypes
  <2>4. again' \in [Accounts -> Nat]
    <3>1. again[a] + 1 \in Nat
      BY DEF ConnectionTypes
    <3> QED BY <1>3, <3>1 DEF ValidityChanges, ConnectionTypes
  <2>5. UNCHANGED <<introspected, connection, used, accountsHeard, announced, promised>>
    BY <1>3 DEF ValidityChanges
  <2> QED BY <2>2, <2>3, <2>4, <2>5 DEF ConnectionTypes
<1> QED BY <1>1, <1>2, <1>3

\* An account that comes or goes keeps the types.
LEMMA AccountMoveTypes ==
  ASSUME ManagerTypes, ConnectionTypes, NEW a \in Accounts,
         \/ a \notin existing /\ existing' = existing \cup {a} /\ AccountComes(a)
         \/ a \in existing /\ existing' = existing \ {a} /\ AccountGoes(a)
  PROVE  ConnectionTypes'
<1>1. CASE a \notin existing /\ existing' = existing \cup {a} /\ AccountComes(a)
  <2>1. a \notin introspected
    BY <1>1 DEF ConnectionTypes
  <2>2. /\ preparing' \in [Accounts -> Nat] /\ readying' \in [Connections -> Nat]
        /\ changesHeard' \in [Accounts -> Nat]
        /\ validityHeard' \subseteq existing' /\ free' \subseteq existing'
    <3>1. CASE PrepareAccounts({a})
      <4>1. PrepareConnections({}) /\ preparing' = Counted(preparing, {a} \ introspected)
        <5>1. {a} \cap introspected = {}
          BY <2>1
        <5> QED BY <3>1, <5>1 DEF PrepareAccounts
      <4>2. preparing' \in [Accounts -> Nat]
        BY <4>1, CountedType DEF ConnectionTypes
      <4>3. readying' \in [Connections -> Nat] /\ changesHeard' \in [Accounts -> Nat]
        <5>1. /\ readying' = Counted(readying, {connection[x] : x \in {}})
              /\ changesHeard' = Counted(changesHeard, WaitedFor({}))
          BY <4>1 DEF PrepareConnections
        <5> QED BY <5>1, CountedType DEF ConnectionTypes
      <4>4. validityHeard' \subseteq existing' /\ free' \subseteq existing'
        BY <1>1, <4>1 DEF PrepareConnections, ConnectionTypes
      <4> QED BY <4>2, <4>3, <4>4
    <3>2. CASE UNCHANGED <<preparing, readying, validityHeard, changesHeard, free>>
      BY <1>1, <3>2 DEF ConnectionTypes
    <3> QED BY <1>1, <3>1, <3>2 DEF AccountComes
  <2>3. usable' \subseteq existing' /\ introspected' \subseteq existing'
    BY <1>1 DEF AccountComes, ConnectionTypes
  <2>4. UNCHANGED <<connection, used, accountsHeard, announced, promised, again>>
    BY <1>1 DEF AccountComes
  <2> QED BY <2>2, <2>3, <2>4 DEF ConnectionTypes
<1>2. CASE a \in existing /\ existing' = existing \ {a} /\ AccountGoes(a)
  <2>1. /\ usable' \subseteq existing' /\ introspected' \subseteq existing'
        /\ validityHeard' \subseteq existing' /\ free' \subseteq existing'
    BY <1>2 DEF AccountGoes, ConnectionTypes
  <2>2. connection' \in [Accounts -> used \cup {NoConnection}]
    BY <1>2 DEF AccountGoes, ConnectionTypes
  <2>3. preparing' \in [Accounts -> Nat] /\ changesHeard' \in [Accounts -> Nat]
    BY <1>2 DEF AccountGoes, ConnectionTypes
  <2>4. UNCHANGED <<used, readying, accountsHeard, announced, promised, again>>
    BY <1>2 DEF AccountGoes
  <2> QED BY <2>1, <2>2, <2>3, <2>4 DEF ConnectionTypes
<1> QED BY <1>1, <1>2

\* A daemon that ends keeps the types.
LEMMA StopTypes ==
  ASSUME ConnectionTypes, existing' = existing, ConnectionsStop
  PROVE  ConnectionTypes'
BY DEF ConnectionsStop, ConnectionTypes

\* presenceUpdate: one call of each kind, both for the state.
LEMMA UpdatesType ==
  ASSUME NEW state \in Wanted, NEW online \in BOOLEAN
  PROVE  /\ Updates(state, online) \in Seq(Call) /\ Len(Updates(state, online)) = 2
         /\ Updates(state, online)[1] =
              [what |-> IF online THEN "automatic" ELSE "requested", state |-> state]
         /\ Updates(state, online)[2] =
              [what |-> IF online THEN "requested" ELSE "automatic", state |-> state]
<1> DEFINE x == [what |-> "automatic", state |-> state]
           y == [what |-> "requested", state |-> state]
<1>1. x \in Call /\ y \in Call
  BY DEF Call, Kinds
<1>2. Updates(state, online) = IF online THEN <<x>> \o <<y>> ELSE <<y>> \o <<x>>
  BY DEF Updates
<1> HIDE DEF x, y
<1>3. ASSUME NEW s \in Call, NEW t \in Call
      PROVE  /\ <<s>> \o <<t>> \in Seq(Call) /\ Len(<<s>> \o <<t>>) = 2
             /\ (<<s>> \o <<t>>)[1] = s /\ (<<s>> \o <<t>>)[2] = t
  <2>1. /\ <<s>> \in Seq(Call) /\ <<t>> \in Seq(Call) /\ Len(<<s>>) = 1 /\ Len(<<t>>) = 1
        /\ <<s>>[1] = s /\ <<t>>[1] = t
    OBVIOUS
  <2> DEFINE u == <<s>>
             v == <<t>>
  <2> HIDE DEF u, v
  <2>2. u \in Seq(Call) /\ v \in Seq(Call) /\ Len(u) = 1 /\ Len(v) = 1 /\ u[1] = s /\ v[1] = t
    BY <2>1 DEF u, v
  <2>3. /\ u \o v \in Seq(Call) /\ Len(u \o v) = 2
        /\ (u \o v)[1] = s /\ (u \o v)[2] = t
    BY <2>2, ConcatProperties
  <2> QED BY <2>3 DEF u, v
<1>4. CASE online
  BY <1>1, <1>2, <1>3, <1>4 DEF x, y
<1>5. CASE ~online
  BY <1>1, <1>2, <1>3, <1>5 DEF x, y
<1> QED BY <1>4, <1>5

\* What the accounts S are sent.
LEMMA SentType ==
  ASSUME NEW calls \in [Accounts -> Seq(Call)], NEW S, NEW state
  PROVE  /\ Sent(calls, S, state) \in [Accounts -> Seq(Call)]
         /\ \A p \in Accounts :
              Sent(calls, S, state)[p] =
                IF p \in S \ Ring /\ state \in Wanted
                THEN calls[p] \o Updates(state, p \notin WithoutOne) ELSE calls[p]
<1>1. \A p \in Accounts : Sent(calls, S, state)[p] =
        IF p \in S \ Ring /\ state \in Wanted
        THEN calls[p] \o Updates(state, p \notin WithoutOne) ELSE calls[p]
  BY DEF Sent
<1>2. ASSUME NEW p \in Accounts PROVE Sent(calls, S, state)[p] \in Seq(Call)
  <2>1. CASE p \in S \ Ring /\ state \in Wanted
    <3>1. Updates(state, p \notin WithoutOne) \in Seq(Call) /\ calls[p] \in Seq(Call)
      BY <2>1, UpdatesType
    <3>2. calls[p] \o Updates(state, p \notin WithoutOne) \in Seq(Call)
      BY <3>1
    <3> QED BY <1>1, <2>1, <3>2
  <2>2. CASE ~(p \in S \ Ring /\ state \in Wanted)
    <3>1. Sent(calls, S, state)[p] = calls[p]
      BY <1>1, <2>2
    <3> QED BY <3>1
  <2> QED BY <2>1, <2>2
<1>3. Sent(calls, S, state) = [p \in Accounts |-> Sent(calls, S, state)[p]]
  BY DEF Sent
<1> HIDE DEF Sent
<1> QED BY <1>1, <1>2, <1>3
-----------------------------------------------------------------------------
(* How often a connection is announced *)

\* The connection of an account, of its type, and different from those of others.
LEMMA OwnFacts ==
  ASSUME Inv, NEW a \in Accounts, connection[a] # NoConnection
  PROVE  /\ connection[a] \in Connections /\ connection[a] \in used /\ Of[connection[a]] = a
         /\ announced[connection[a]] \in Nat /\ readying[connection[a]] \in Nat
         /\ \A b \in Accounts : connection[b] = connection[a] => b = a
BY DEF Inv, TypeOK, ConnectionTypes, ConnectionInv, OwnConnection

\* The accounts' counters are numbers.
LEMMA CounterFacts ==
  ASSUME Inv, NEW a \in Accounts
  PROVE  preparing[a] \in Nat /\ changesHeard[a] \in Nat /\ again[a] \in Nat
BY DEF Inv, TypeOK, ConnectionTypes

\* A preparation counts once: it is due, or watches, or gets the connection ready.
LEMMA PrepareCounts ==
  ASSUME Inv, NEW S \in SUBSET Accounts, PrepareAccounts(S)
  PROVE  /\ \A a \in Accounts \ S : preparing'[a] = preparing[a] /\ changesHeard'[a] = changesHeard[a]
         /\ \A a \in S : preparing'[a] + changesHeard'[a] = preparing[a] + changesHeard[a] + 1
                         \/ preparing'[a] + changesHeard'[a] = preparing[a] + changesHeard[a]
         /\ \A a \in S : connection[a] # NoConnection =>
              preparing'[a] + readying'[connection[a]] = preparing[a] + readying[connection[a]] + 1
         /\ \A c \in Connections :
              (\A a \in S : connection[a] # c) => readying'[c] = readying[c]
<1> DEFINE T == S \cap introspected
           D == S \ introspected
           C == {connection[a] : a \in T}
<1>1. /\ preparing' = Counted(preparing, D)
      /\ readying' = Counted(readying, C)
      /\ changesHeard' = Counted(changesHeard, WaitedFor(T))
  BY DEF PrepareAccounts, PrepareConnections
<1>2. /\ preparing \in [Accounts -> Nat] /\ readying \in [Connections -> Nat]
      /\ changesHeard \in [Accounts -> Nat]
  BY DEF Inv, TypeOK, ConnectionTypes
<1>3. \A a \in Accounts : preparing'[a] = IF a \in D THEN preparing[a] + 1 ELSE preparing[a]
  BY <1>1, <1>2, CountedType
<1>4. \A c \in Connections : readying'[c] = IF c \in C THEN readying[c] + 1 ELSE readying[c]
  BY <1>1, <1>2, CountedType
<1>5. \A a \in Accounts : changesHeard'[a] =
        IF a \in T /\ connection[a] = NoConnection THEN changesHeard[a] + 1 ELSE changesHeard[a]
  <2>1. \A a \in Accounts : a \in WaitedFor(T) <=> a \in T /\ connection[a] = NoConnection
    BY DEF WaitedFor, WithoutOne
  <2> DEFINE W == WaitedFor(T)
  <2>2. \A a \in Accounts : changesHeard'[a] = IF a \in W THEN changesHeard[a] + 1 ELSE changesHeard[a]
    BY <1>1, <1>2, CountedType
  <2> HIDE DEF T
  <2> QED BY <2>1, <2>2
<1> HIDE DEF C
<1>6. ASSUME NEW a \in S, connection[a] # NoConnection
      PROVE  preparing'[a] + readying'[connection[a]] = preparing[a] + readying[connection[a]] + 1
  <2>1. /\ connection[a] \in Connections /\ \A b \in Accounts : connection[b] = connection[a] => b = a
        /\ preparing[a] \in Nat /\ readying[connection[a]] \in Nat
    BY <1>2, <1>6, OwnFacts
  <2>2. connection[a] \in C <=> a \in T
    BY <2>1 DEF C
  <2> QED BY <1>3, <1>4, <2>1, <2>2
<1>7. ASSUME NEW a \in S
      PROVE  \/ preparing'[a] + changesHeard'[a] = preparing[a] + changesHeard[a] + 1
             \/ preparing'[a] + changesHeard'[a] = preparing[a] + changesHeard[a]
  <2>1. preparing[a] \in Nat /\ changesHeard[a] \in Nat
    BY <1>2
  <2> QED BY <1>3, <1>5, <2>1
<1>8. \A a \in Accounts \ S : preparing'[a] = preparing[a] /\ changesHeard'[a] = changesHeard[a]
  BY <1>3, <1>5
<1>9. ASSUME NEW c \in Connections, \A a \in S : connection[a] # c
      PROVE  readying'[c] = readying[c]
  BY <1>4, <1>9 DEF C
<1> QED BY <1>6, <1>7, <1>8, <1>9

\* A preparation of accounts that had one less than they may have.
LEMMA PrepareInv ==
  ASSUME Inv, NEW S \in SUBSET Accounts, PrepareAccounts(S), S \subseteq existing',
         existing \subseteq existing', UNCHANGED <<connection, used, announced>>, accountsHeard',
         \A a \in Accounts : again'[a] \in Nat /\ again'[a] >= again[a],
         \A a \in S : /\ preparing[a] + changesHeard[a] <= again'[a]
                      /\ connection[a] # NoConnection =>
                           preparing[a] + announced[connection[a]] + readying[connection[a]] <= again'[a]
  PROVE  ConnectionInv'
<1>1. /\ \A a \in Accounts \ S : preparing'[a] = preparing[a] /\ changesHeard'[a] = changesHeard[a]
      /\ \A a \in S : preparing'[a] + changesHeard'[a] = preparing[a] + changesHeard[a] + 1
                      \/ preparing'[a] + changesHeard'[a] = preparing[a] + changesHeard[a]
      /\ \A a \in S : connection[a] # NoConnection =>
           preparing'[a] + readying'[connection[a]] = preparing[a] + readying[connection[a]] + 1
      /\ \A c \in Connections :
           (\A a \in S : connection[a] # c) => readying'[c] = readying[c]
  BY PrepareCounts
<1>2. /\ NothingOfGone /\ OwnConnection /\ UnusedUnheard /\ AnnouncedPerPreparation
      /\ \A a \in Accounts : PreparedOnce(a)
  BY DEF Inv, ConnectionInv
<1>3. NothingOfGone' /\ OwnConnection' /\ NothingBefore'
  BY <1>1, <1>2 DEF NothingOfGone, OwnConnection, NothingBefore
<1>4. UnusedUnheard'
  <2> SUFFICES ASSUME NEW c \in Connections \ used PROVE announced'[c] = 0 /\ readying'[c] = 0
    BY DEF UnusedUnheard
  <2>1. \A a \in Accounts : connection[a] # c
    BY ConnectionAssumption DEF ConnectionAssumption, Inv, TypeOK, ConnectionTypes
  <2> QED BY <1>1, <1>2, <2>1 DEF UnusedUnheard
<1>5. ASSUME NEW a \in Accounts PROVE PreparedOnce(a)'
  <2>1. preparing[a] \in Nat /\ changesHeard[a] \in Nat /\ again[a] \in Nat
    BY CounterFacts
  <2>2. preparing'[a] + changesHeard'[a] <= 1 + again'[a]
    <3>1. CASE a \in S
      BY <1>1, <2>1, <3>1
    <3>2. CASE a \notin S
      BY <1>1, <1>2, <2>1, <3>2 DEF PreparedOnce
    <3> QED BY <3>1, <3>2
  <2>3. ASSUME connection[a] # NoConnection
        PROVE  preparing'[a] + announced'[connection'[a]] + readying'[connection'[a]] <= 1 + again'[a]
    <3> DEFINE n == announced[connection[a]]
               r == readying[connection[a]]
               q == readying'[connection[a]]
    <3>1. n \in Nat /\ r \in Nat /\ connection[a] \in Connections
          /\ \A b \in Accounts : connection[b] = connection[a] => b = a
      BY <2>3, OwnFacts
    <3>2. CASE a \in S
      <4>1. preparing'[a] + q = preparing[a] + r + 1 /\ preparing[a] + n + r <= again'[a]
        BY <1>1, <2>3, <3>2
      <4>2. connection'[a] = connection[a] /\ announced' = announced /\ preparing'[a] \in Nat /\ q \in Nat
        <5>1. preparing' \in [Accounts -> Nat] /\ readying' \in [Connections -> Nat]
          BY CountedType DEF Inv, TypeOK, ConnectionTypes, PrepareAccounts, PrepareConnections
        <5> QED BY <3>1, <5>1
      <4> DEFINE k == preparing[a]
                 l == preparing'[a]
      <4>3. k \in Nat /\ l \in Nat /\ l + q = k + r + 1 /\ k + n + r <= again'[a] /\ again'[a] \in Nat
        BY <2>1, <4>1, <4>2
      <4> HIDE DEF n, r, q, k, l
      <4>4. l + n + q <= 1 + again'[a]
        BY <3>1, <4>2, <4>3
      <4> QED BY <4>2, <4>4 DEF l, n, q
    <3>3. CASE a \notin S
      <4>1. preparing'[a] = preparing[a] /\ q = r
        <5>1. \A b \in S : connection[b] # connection[a]
          BY <3>1, <3>3
        <5> QED BY <1>1, <3>1, <3>3, <5>1
      <4>2. preparing[a] + n + r <= 1 + again[a]
        BY <1>2, <2>3 DEF PreparedOnce
      <4>3. connection'[a] = connection[a] /\ announced' = announced
        OBVIOUS
      <4>4. preparing[a] + n + r <= 1 + again'[a]
        <5> HIDE DEF n, r
        <5> QED BY <2>1, <3>1, <4>2
      <4> QED BY <4>1, <4>3, <4>4
    <3> QED BY <3>2, <3>3
  <2> QED BY <2>2, <2>3 DEF PreparedOnce
<1>6. AnnouncedPerPreparation'
  <2> SUFFICES ASSUME NEW c \in Connections PROVE announced'[c] + readying'[c] <= 1 + again'[Of[c]]
    BY DEF AnnouncedPerPreparation
  <2>1. Of[c] \in Accounts
    BY ConnectionAssumption DEF ConnectionAssumption
  <2>2. announced[c] \in Nat /\ readying[c] \in Nat /\ again[Of[c]] \in Nat
    BY <2>1 DEF Inv, TypeOK, ConnectionTypes
  <2>3. CASE \E a \in S : connection[a] = c
    <3>1. connection[Of[c]] = c /\ c # NoConnection
      BY <1>2, <2>3, ConnectionAssumption DEF OwnConnection, ConnectionAssumption
    <3>2. preparing'[Of[c]] + announced'[c] + readying'[c] <= 1 + again'[Of[c]]
      BY <1>5, <2>1, <3>1 DEF PreparedOnce
    <3>3. preparing' \in [Accounts -> Nat] /\ readying' \in [Connections -> Nat]
      BY CountedType DEF Inv, TypeOK, ConnectionTypes, PrepareAccounts, PrepareConnections
    <3>4. preparing'[Of[c]] \in Nat /\ readying'[c] \in Nat /\ announced'[c] \in Nat /\ again'[Of[c]] \in Nat
      BY <2>1, <2>2, <3>3
    <3> QED BY <3>2, <3>4
  <2>4. CASE \A a \in S : connection[a] # c
    <3>1. announced'[c] = announced[c] /\ readying'[c] = readying[c]
      BY <1>1, <2>4
    <3>2. announced[c] + readying[c] <= 1 + again[Of[c]]
      BY <1>2 DEF AnnouncedPerPreparation
    <3> QED BY <2>1, <2>2, <3>1, <3>2
  <2> QED BY <2>3, <2>4
<1> QED BY <1>3, <1>4, <1>5, <1>6 DEF ConnectionInv
\* A step that leaves the connections alone.
LEMMA ConnectionsKept ==
  ASSUME Inv, UNCHANGED <<existing, connectionVars>>
  PROVE  ConnectionInv'
BY DEF Inv, ConnectionInv, connectionVars, NothingOfGone, OwnConnection, UnusedUnheard,
   NothingBefore, PreparedOnce, AnnouncedPerPreparation

\* The account manager gets ready: every account is prepared for the first time.
LEMMA AccountsReadyInv ==
  ASSUME Inv, AccountsReady, existing' = existing
  PROVE  ConnectionInv'
<1>1. /\ PrepareAccounts(usable) /\ usable \in SUBSET Accounts /\ usable \subseteq existing'
      /\ UNCHANGED <<connection, used, announced, again>> /\ accountsHeard' /\ ~accountsHeard
  BY DEF AccountsReady, Inv, TypeOK, ConnectionTypes, ManagerTypes
<1>2. \A a \in Accounts : again'[a] \in Nat /\ again'[a] >= again[a]
  BY <1>1, CounterFacts
<1>3. ASSUME NEW a \in usable
      PROVE  /\ preparing[a] + changesHeard[a] <= again'[a]
             /\ connection[a] # NoConnection =>
                  preparing[a] + announced[connection[a]] + readying[connection[a]] <= again'[a]
  <2>1. /\ preparing[a] = 0 /\ changesHeard[a] = 0
        /\ \A c \in Connections : announced[c] = 0 /\ readying[c] = 0
    BY <1>1 DEF Inv, ConnectionInv, NothingBefore
  <2>2. connection[a] # NoConnection => connection[a] \in Connections
    BY <1>1 DEF Inv, ConnectionInv, OwnConnection
  <2>3. again'[a] \in Nat
    BY <1>1, <1>2
  <2> QED BY <2>1, <2>2, <2>3
<1> QED BY <1>1, <1>2, <1>3, PrepareInv

\* An account that becomes valid again may be prepared once more.
LEMMA ValidityInv ==
  ASSUME Inv, NEW a \in Accounts, ValidityChanges(a), existing' = existing
  PROVE  ConnectionInv'
<1>1. UNCHANGED <<connection, used, announced, accountsHeard>> /\ a \in existing
  BY DEF ValidityChanges
<1>2. \A b \in Accounts : again'[b] \in Nat /\ again'[b] >= again[b]
  <2>1. again \in [Accounts -> Nat]
    BY DEF Inv, TypeOK, ConnectionTypes
  <2>2. again' = again \/ again' = [again EXCEPT ![a] = @ + 1]
    BY DEF ValidityChanges
  <2> QED BY <2>1, <2>2
<1>3. CASE a \in validityHeard /\ a \notin usable
  <2>1. PrepareAccounts({a})
    BY <1>3 DEF ValidityChanges, LooksAt
  <2>2. accountsHeard'
    BY <1>1, <1>3 DEF Inv, ConnectionInv, NothingBefore, TypeOK, ConnectionTypes
  <2>3. again'[a] = again[a] + 1
    BY <1>3 DEF ValidityChanges, Inv, TypeOK, ConnectionTypes
  <2>4. /\ preparing[a] + changesHeard[a] <= again'[a]
        /\ connection[a] # NoConnection =>
             preparing[a] + announced[connection[a]] + readying[connection[a]] <= again'[a]
    <3>1. PreparedOnce(a) /\ again[a] \in Nat
      BY CounterFacts DEF Inv, ConnectionInv
    <3> QED BY <2>3, <3>1 DEF PreparedOnce
  <2>5. {a} \in SUBSET Accounts /\ {a} \subseteq existing'
    BY <1>1
  <2> QED BY <1>1, <1>2, <2>1, <2>2, <2>4, <2>5, PrepareInv
<1>4. CASE ~(a \in validityHeard /\ a \notin usable)
  <2>1. UNCHANGED <<preparing, readying, validityHeard, changesHeard>>
    BY <1>4 DEF ValidityChanges, LooksAt
  <2>2. NothingOfGone' /\ OwnConnection' /\ UnusedUnheard' /\ NothingBefore'
    BY <1>1, <2>1 DEF Inv, ConnectionInv, NothingOfGone, OwnConnection, UnusedUnheard, NothingBefore
  <2>3. ASSUME NEW b \in Accounts PROVE PreparedOnce(b)'
    <3>1. PreparedOnce(b) /\ preparing[b] \in Nat /\ changesHeard[b] \in Nat /\ again[b] \in Nat
      BY CounterFacts DEF Inv, ConnectionInv
    <3>2. again'[b] \in Nat /\ again'[b] >= again[b]
      BY <1>2
    <3>3. preparing'[b] + changesHeard'[b] <= 1 + again'[b]
      BY <2>1, <3>1, <3>2 DEF PreparedOnce
    <3>4. ASSUME connection[b] # NoConnection
          PROVE  preparing'[b] + announced'[connection'[b]] + readying'[connection'[b]] <= 1 + again'[b]
      <4> DEFINE n == announced[connection[b]]
                 r == readying[connection[b]]
      <4>1. n \in Nat /\ r \in Nat
        BY <3>4, OwnFacts
      <4>2. preparing[b] + n + r <= 1 + again[b]
        BY <3>1, <3>4 DEF PreparedOnce
      <4>3. preparing'[b] = preparing[b] /\ announced'[connection'[b]] = n /\ readying'[connection'[b]] = r
        BY <1>1, <2>1
      <4> HIDE DEF n, r
      <4> QED BY <3>1, <3>2, <4>1, <4>2, <4>3
    <3> QED BY <1>1, <3>3, <3>4 DEF PreparedOnce
  <2>4. AnnouncedPerPreparation'
    <3> SUFFICES ASSUME NEW c \in Connections PROVE announced'[c] + readying'[c] <= 1 + again'[Of[c]]
      BY DEF AnnouncedPerPreparation
    <3>1. Of[c] \in Accounts
      BY ConnectionAssumption DEF ConnectionAssumption
    <3>2. announced[c] \in Nat /\ readying[c] \in Nat /\ again[Of[c]] \in Nat
      BY <3>1 DEF Inv, TypeOK, ConnectionTypes
    <3>3. announced[c] + readying[c] <= 1 + again[Of[c]]
      BY DEF Inv, ConnectionInv, AnnouncedPerPreparation
    <3>4. again'[Of[c]] \in Nat /\ again'[Of[c]] >= again[Of[c]]
      BY <1>2, <3>1
    <3> QED BY <1>1, <2>1, <3>2, <3>3, <3>4
  <2> QED BY <2>2, <2>3, <2>4 DEF ConnectionInv
<1> QED BY <1>3, <1>4

\* A new account is prepared for the first time, as nothing is due of it.
LEMMA CreatesInv ==
  ASSUME Inv, NEW a \in Accounts \ existing, existing' = existing \cup {a}, AccountComes(a)
  PROVE  ConnectionInv'
<1>1. UNCHANGED <<connection, used, accountsHeard, announced, again>>
  BY DEF AccountComes
<1>2. \A b \in Accounts : again'[b] \in Nat /\ again'[b] >= again[b]
  BY <1>1, CounterFacts
<1>3. preparing[a] = 0 /\ changesHeard[a] = 0 /\ connection[a] = NoConnection
  BY DEF Inv, ConnectionInv, NothingOfGone
<1>4. CASE accountsHeard
  <2>1. PrepareAccounts({a}) /\ accountsHeard'
    BY <1>1, <1>4 DEF AccountComes
  <2>2. preparing[a] + changesHeard[a] <= again'[a]
    BY <1>2, <1>3
  <2> QED BY <1>1, <1>2, <1>3, <2>1, <2>2, PrepareInv
<1>5. CASE ~accountsHeard
  <2>1. UNCHANGED <<preparing, readying, validityHeard, changesHeard>>
    BY <1>5 DEF AccountComes
  <2> QED BY <1>1, <2>1 DEF Inv, ConnectionInv, NothingOfGone, OwnConnection, UnusedUnheard,
             NothingBefore, PreparedOnce, AnnouncedPerPreparation
<1> QED BY <1>4, <1>5

\* Of an account that goes nothing is left but the announcements that were made.
LEMMA RemovesInv ==
  ASSUME Inv, NEW a \in existing, existing' = existing \ {a}, AccountGoes(a)
  PROVE  ConnectionInv'
<1>1. /\ connection' = [connection EXCEPT ![a] = NoConnection]
      /\ validityHeard' = validityHeard \ {a}
      /\ changesHeard' = [changesHeard EXCEPT ![a] = 0]
      /\ preparing' = [preparing EXCEPT ![a] = 0]
      /\ UNCHANGED <<used, readying, accountsHeard, announced, again>>
  BY DEF AccountGoes
<1>2. /\ connection \in [Accounts -> used \cup {NoConnection}] /\ preparing \in [Accounts -> Nat]
      /\ changesHeard \in [Accounts -> Nat] /\ again \in [Accounts -> Nat] /\ a \in Accounts
  BY DEF Inv, TypeOK, ConnectionTypes, ManagerTypes
<1>3. /\ NothingOfGone /\ OwnConnection /\ UnusedUnheard /\ NothingBefore /\ AnnouncedPerPreparation
      /\ \A b \in Accounts : PreparedOnce(b)
  BY DEF Inv, ConnectionInv
<1>4. /\ connection'[a] = NoConnection /\ changesHeard'[a] = 0 /\ preparing'[a] = 0
      /\ \A b \in Accounts \ {a} : /\ connection'[b] = connection[b]
                                   /\ changesHeard'[b] = changesHeard[b]
                                   /\ preparing'[b] = preparing[b]
  BY <1>1, <1>2
<1>5. NothingOfGone'
  BY <1>3, <1>4 DEF NothingOfGone
<1>6. OwnConnection'
  BY <1>3, <1>4 DEF OwnConnection
<1>7. UnusedUnheard' /\ AnnouncedPerPreparation'
  BY <1>1, <1>3 DEF UnusedUnheard, AnnouncedPerPreparation
<1>8. NothingBefore'
  BY <1>1, <1>3, <1>4 DEF NothingBefore
<1>9. ASSUME NEW b \in Accounts PROVE PreparedOnce(b)'
  <2>1. CASE b = a
    <3>1. again'[a] \in Nat
      BY <1>1, <1>2
    <3> QED BY <1>4, <2>1, <3>1 DEF PreparedOnce
  <2>2. CASE b # a
    <3>1. connection'[b] = connection[b] /\ changesHeard'[b] = changesHeard[b] /\ preparing'[b] = preparing[b]
      BY <1>4, <2>2
    <3> QED BY <1>1, <1>3, <3>1 DEF PreparedOnce
  <2> QED BY <2>1, <2>2
<1> QED BY <1>5, <1>6, <1>7, <1>8, <1>9 DEF ConnectionInv
\* A preparation that was due watches for connections, or gets the one there is
\* ready, or failed.
LEMMA AccountReadyInv ==
  ASSUME Inv, NEW a \in Accounts, AccountReady(a), existing' = existing
  PROVE  ConnectionInv'
<1>1. /\ preparing[a] > 0 /\ preparing' = [preparing EXCEPT ![a] = @ - 1]
      /\ UNCHANGED <<connection, used, accountsHeard, announced, again>>
  BY DEF AccountReady
<1>2. /\ connection \in [Accounts -> used \cup {NoConnection}] /\ preparing \in [Accounts -> Nat]
      /\ changesHeard \in [Accounts -> Nat] /\ again \in [Accounts -> Nat]
      /\ readying \in [Connections -> Nat] /\ announced \in [Connections -> Nat]
      /\ accountsHeard \in BOOLEAN
  BY DEF Inv, TypeOK, ConnectionTypes
<1>3. /\ NothingOfGone /\ OwnConnection /\ UnusedUnheard /\ NothingBefore /\ AnnouncedPerPreparation
      /\ \A b \in Accounts : PreparedOnce(b)
  BY DEF Inv, ConnectionInv
<1>4. a \in existing /\ accountsHeard
  BY <1>1, <1>3 DEF NothingOfGone, NothingBefore
<1>5. /\ preparing'[a] = preparing[a] - 1
      /\ \A b \in Accounts \ {a} : preparing'[b] = preparing[b]
  BY <1>1, <1>2
<1>6. CASE UNCHANGED <<introspected, validityHeard, readying, changesHeard, free>>
  <2>1. NothingOfGone' /\ OwnConnection' /\ UnusedUnheard' /\ NothingBefore' /\ AnnouncedPerPreparation'
    BY <1>1, <1>3, <1>4, <1>5, <1>6 DEF NothingOfGone, OwnConnection, UnusedUnheard, NothingBefore,
       AnnouncedPerPreparation
  <2>2. ASSUME NEW b \in Accounts PROVE PreparedOnce(b)'
    <3>1. preparing'[b] \in Nat /\ preparing'[b] <= preparing[b] /\ preparing[b] \in Nat
          /\ changesHeard[b] \in Nat /\ again[b] \in Nat
      BY <1>1, <1>2, <1>5
    <3>2. preparing'[b] + changesHeard'[b] <= 1 + again'[b]
      BY <1>1, <1>3, <1>6, <3>1 DEF PreparedOnce
    <3>3. ASSUME connection[b] # NoConnection
          PROVE  preparing'[b] + announced'[connection'[b]] + readying'[connection'[b]] <= 1 + again'[b]
      <4> DEFINE n == announced[connection[b]]
                 r == readying[connection[b]]
      <4>1. n \in Nat /\ r \in Nat
        BY <3>3, OwnFacts
      <4>2. preparing[b] + n + r <= 1 + again[b]
        BY <1>3, <3>3 DEF PreparedOnce
      <4>3. announced'[connection'[b]] = n /\ readying'[connection'[b]] = r /\ again'[b] = again[b]
        BY <1>1, <1>6
      <4> HIDE DEF n, r
      <4> QED BY <3>1, <4>1, <4>2, <4>3
    <3> QED BY <1>1, <3>2, <3>3 DEF PreparedOnce
  <2> QED BY <2>1, <2>2 DEF ConnectionInv
<1>7. CASE PrepareConnections({a})
  <2> DEFINE C == {connection[b] : b \in {a}}
  <2>1. /\ readying' = Counted(readying, C) /\ changesHeard' = Counted(changesHeard, WaitedFor({a}))
        /\ validityHeard' = validityHeard \cup {a}
    BY <1>7 DEF PrepareConnections
  <2>2. \A c \in Connections : readying'[c] = IF c = connection[a] THEN readying[c] + 1 ELSE readying[c]
    <3>1. \A c \in Connections : readying'[c] = IF c \in C THEN readying[c] + 1 ELSE readying[c]
      BY <1>2, <2>1, CountedType
    <3> QED BY <3>1
  <2>3. \A b \in Accounts : changesHeard'[b] =
          IF b = a /\ connection[a] = NoConnection THEN changesHeard[b] + 1 ELSE changesHeard[b]
    <3> DEFINE W == WaitedFor({a})
    <3>1. \A b \in Accounts : changesHeard'[b] = IF b \in W THEN changesHeard[b] + 1 ELSE changesHeard[b]
      BY <1>2, <2>1, CountedType
    <3>2. \A b \in Accounts : b \in W <=> b = a /\ connection[a] = NoConnection
      BY DEF WaitedFor, WithoutOne
    <3> HIDE DEF W
    <3> QED BY <3>1, <3>2
  <2>4. NothingOfGone' /\ OwnConnection' /\ NothingBefore'
    BY <1>1, <1>3, <1>4, <1>5, <2>3 DEF NothingOfGone, OwnConnection, NothingBefore
  <2>5. UnusedUnheard'
    <3> SUFFICES ASSUME NEW c \in Connections \ used PROVE announced'[c] = 0 /\ readying'[c] = 0
      BY <1>1 DEF UnusedUnheard
    <3>1. connection[a] # c
      BY <1>2, ConnectionAssumption DEF ConnectionAssumption
    <3> QED BY <1>1, <1>3, <2>2, <3>1 DEF UnusedUnheard
  <2>6. ASSUME NEW b \in Accounts PROVE PreparedOnce(b)'
    <3>1. preparing[b] \in Nat /\ changesHeard[b] \in Nat /\ again[b] \in Nat
      BY <1>2
    <3>2. preparing'[b] + changesHeard'[b] <= 1 + again'[b]
      BY <1>1, <1>3, <1>5, <2>3, <3>1 DEF PreparedOnce
    <3>3. ASSUME connection[b] # NoConnection
          PROVE  preparing'[b] + announced'[connection'[b]] + readying'[connection'[b]] <= 1 + again'[b]
      <4> DEFINE n == announced[connection[b]]
                 r == readying[connection[b]]
                 q == readying'[connection[b]]
      <4>1. n \in Nat /\ r \in Nat /\ connection[b] \in Connections
            /\ (connection[a] = connection[b] <=> a = b)
        BY <3>3, OwnFacts
      <4>2. preparing[b] + n + r <= 1 + again[b]
        BY <1>3, <3>3 DEF PreparedOnce
      <4>3. q = IF a = b THEN r + 1 ELSE r
        BY <2>2, <4>1
      <4>4. preparing'[b] = IF a = b THEN preparing[b] - 1 ELSE preparing[b]
        BY <1>5
      <4>5. announced'[connection'[b]] = n /\ readying'[connection'[b]] = q /\ again'[b] = again[b]
        BY <1>1
      <4> HIDE DEF n, r, q
      <4> QED BY <3>1, <4>1, <4>2, <4>3, <4>4, <4>5
    <3> QED BY <1>1, <3>2, <3>3 DEF PreparedOnce
  <2>7. AnnouncedPerPreparation'
    <3> SUFFICES ASSUME NEW c \in Connections PROVE announced'[c] + readying'[c] <= 1 + again'[Of[c]]
      BY DEF AnnouncedPerPreparation
    <3>1. CASE c = connection[a]
      <4>1. Of[c] = a /\ c # NoConnection /\ connection'[a] = c
        BY <1>1, <1>3, <3>1, ConnectionAssumption DEF OwnConnection, ConnectionAssumption
      <4>2. preparing'[a] + announced'[c] + readying'[c] <= 1 + again'[a]
        BY <2>6, <4>1 DEF PreparedOnce
      <4>3. preparing'[a] \in Nat /\ readying'[c] \in Nat /\ announced'[c] \in Nat /\ again'[a] \in Nat
        BY <1>1, <1>2, <1>5, <2>2
      <4> QED BY <4>1, <4>2, <4>3
    <3>2. CASE c # connection[a]
      BY <1>1, <1>3, <2>2, <3>2 DEF AnnouncedPerPreparation
    <3> QED BY <3>1, <3>2
  <2> QED BY <2>4, <2>5, <2>6, <2>7 DEF ConnectionInv
<1> QED BY <1>6, <1>7 DEF AccountReady

\* A connection that got ready is announced, if the account still has it.
LEMMA ConnectionReadyInv ==
  ASSUME Inv, NEW c \in Connections, ConnectionReady(c), existing' = existing
  PROVE  ConnectionInv'
<1>1. /\ readying[c] > 0 /\ readying' = [readying EXCEPT ![c] = @ - 1]
      /\ announced' = announced \/ announced' = [announced EXCEPT ![c] = @ + 1]
      /\ UNCHANGED <<connection, used, preparing, changesHeard, validityHeard, accountsHeard, again>>
  BY DEF ConnectionReady
<1>2. /\ readying \in [Connections -> Nat] /\ announced \in [Connections -> Nat]
      /\ accountsHeard \in BOOLEAN
  BY DEF Inv, TypeOK, ConnectionTypes
<1>3. /\ NothingOfGone /\ OwnConnection /\ UnusedUnheard /\ NothingBefore /\ AnnouncedPerPreparation
      /\ \A b \in Accounts : PreparedOnce(b)
  BY DEF Inv, ConnectionInv
<1>4. c \in used /\ accountsHeard
  BY <1>1, <1>3 DEF UnusedUnheard, NothingBefore
<1>5. ASSUME NEW x \in Connections
      PROVE  /\ announced'[x] \in Nat /\ readying'[x] \in Nat
             /\ announced'[x] + readying'[x] <= announced[x] + readying[x]
             /\ x # c => announced'[x] = announced[x] /\ readying'[x] = readying[x]
  BY <1>1, <1>2
<1>6. NothingOfGone' /\ OwnConnection' /\ NothingBefore'
  BY <1>1, <1>3, <1>4 DEF NothingOfGone, OwnConnection, NothingBefore
<1>7. UnusedUnheard'
  BY <1>1, <1>3, <1>4, <1>5 DEF UnusedUnheard
<1>8. ASSUME NEW b \in Accounts PROVE PreparedOnce(b)'
  <2>1. preparing[b] \in Nat /\ changesHeard[b] \in Nat /\ again[b] \in Nat
    BY CounterFacts
  <2>2. ASSUME connection[b] # NoConnection
        PROVE  preparing'[b] + announced'[connection'[b]] + readying'[connection'[b]] <= 1 + again'[b]
    <3> DEFINE x == connection[b]
    <3>1. x \in Connections /\ announced[x] \in Nat /\ readying[x] \in Nat
      BY <2>2, OwnFacts
    <3>2. preparing[b] + announced[x] + readying[x] <= 1 + again[b]
      BY <1>3, <2>2 DEF PreparedOnce
    <3> HIDE DEF x
    <3>3. preparing[b] + announced'[x] + readying'[x] <= 1 + again[b]
      BY <1>5, <2>1, <3>1, <3>2
    <3> QED BY <1>1, <3>3 DEF x
  <2> QED BY <1>1, <1>3, <2>2 DEF PreparedOnce
<1>9. AnnouncedPerPreparation'
  <2> SUFFICES ASSUME NEW x \in Connections PROVE announced'[x] + readying'[x] <= 1 + again'[Of[x]]
    BY DEF AnnouncedPerPreparation
  <2>1. again[Of[x]] \in Nat
    BY ConnectionAssumption, CounterFacts DEF ConnectionAssumption
  <2>2. announced[x] + readying[x] <= 1 + again[Of[x]] /\ announced[x] \in Nat /\ readying[x] \in Nat
    BY <1>2, <1>3 DEF AnnouncedPerPreparation
  <2> QED BY <1>1, <1>5, <2>1, <2>2
<1> QED BY <1>6, <1>7, <1>8, <1>9 DEF ConnectionInv

\* A connection that comes is got ready once for each time its account watches.
LEMMA ComesInv ==
  ASSUME Inv, NEW a \in Accounts, NEW c \in Connections, ConnectionComes(a, c), existing' = existing
  PROVE  ConnectionInv'
<1>1. /\ a \in existing /\ c \notin used /\ Of[c] = a
      /\ connection' = [connection EXCEPT ![a] = c] /\ used' = used \cup {c}
      /\ readying' = [readying EXCEPT ![c] = changesHeard[a]]
      /\ UNCHANGED <<announced, preparing, changesHeard, validityHeard, accountsHeard, again>>
  BY DEF ConnectionComes
<1>2. /\ readying \in [Connections -> Nat] /\ announced \in [Connections -> Nat]
      /\ connection \in [Accounts -> used \cup {NoConnection}]
      /\ preparing[a] \in Nat /\ changesHeard[a] \in Nat /\ again[a] \in Nat
  BY CounterFacts DEF Inv, TypeOK, ConnectionTypes
<1>3. /\ NothingOfGone /\ OwnConnection /\ UnusedUnheard /\ NothingBefore /\ AnnouncedPerPreparation
      /\ \A b \in Accounts : PreparedOnce(b)
  BY DEF Inv, ConnectionInv
<1>4. /\ announced[c] = 0 /\ readying'[c] = changesHeard[a]
      /\ \A x \in Connections \ {c} : readying'[x] = readying[x]
      /\ connection'[a] = c /\ \A b \in Accounts \ {a} : connection'[b] = connection[b]
  BY <1>1, <1>2, <1>3 DEF UnusedUnheard
<1>5. NothingOfGone' /\ OwnConnection' /\ UnusedUnheard' /\ NothingBefore'
  BY <1>1, <1>3, <1>4 DEF NothingOfGone, OwnConnection, UnusedUnheard, NothingBefore
<1>6. preparing[a] + changesHeard[a] <= 1 + again[a]
  BY <1>3 DEF PreparedOnce
<1>7. ASSUME NEW b \in Accounts PROVE PreparedOnce(b)'
  <2>1. CASE b = a
    <3>1. preparing[a] + announced'[c] + readying'[c] <= 1 + again[a]
      BY <1>1, <1>2, <1>4, <1>6
    <3> QED BY <1>1, <1>4, <1>6, <2>1, <3>1 DEF PreparedOnce
  <2>2. CASE b # a
    <3>1. connection[b] # NoConnection => connection[b] # c /\ connection[b] \in Connections
      BY <1>1, <1>3, <2>2 DEF OwnConnection
    <3> QED BY <1>1, <1>3, <1>4, <2>2, <3>1 DEF PreparedOnce
  <2> QED BY <2>1, <2>2
<1>8. AnnouncedPerPreparation'
  <2> SUFFICES ASSUME NEW x \in Connections PROVE announced'[x] + readying'[x] <= 1 + again'[Of[x]]
    BY DEF AnnouncedPerPreparation
  <2>1. CASE x = c
    BY <1>1, <1>2, <1>4, <1>6, <2>1
  <2>2. CASE x # c
    BY <1>1, <1>3, <1>4, <2>2 DEF AnnouncedPerPreparation
  <2> QED BY <2>1, <2>2
<1> QED BY <1>5, <1>7, <1>8 DEF ConnectionInv

\* A connection that goes keeps what it was announced.
LEMMA GoesInv ==
  ASSUME Inv, NEW a \in Accounts, ConnectionGoes(a), existing' = existing
  PROVE  ConnectionInv'
<1>1. /\ connection' = [connection EXCEPT ![a] = NoConnection]
      /\ UNCHANGED <<used, readying, announced, preparing, changesHeard, validityHeard,
                     accountsHeard, again>>
  BY DEF ConnectionGoes
<1>2. connection \in [Accounts -> used \cup {NoConnection}]
  BY DEF Inv, TypeOK, ConnectionTypes
<1>3. connection'[a] = NoConnection /\ \A b \in Accounts \ {a} : connection'[b] = connection[b]
  BY <1>1, <1>2
<1> QED BY <1>1, <1>3 DEF Inv, ConnectionInv, NothingOfGone, OwnConnection, UnusedUnheard,
           NothingBefore, PreparedOnce, AnnouncedPerPreparation

\* The daemon ends: nothing is due, heard or announced.
LEMMA StopInv ==
  ASSUME Inv, ConnectionsStop, existing' = existing
  PROVE  ConnectionInv'
<1>1. /\ preparing' = [a \in Accounts |-> 0] /\ readying' = [c \in Connections |-> 0]
      /\ validityHeard' = {} /\ changesHeard' = [a \in Accounts |-> 0]
      /\ announced' = [c \in Connections |-> 0] /\ again' = [a \in Accounts |-> 0]
      /\ UNCHANGED <<connection, used>>
  BY DEF ConnectionsStop
<1>2. /\ NothingOfGone /\ OwnConnection
      /\ connection \in [Accounts -> used \cup {NoConnection}] /\ used \subseteq Connections
  BY DEF Inv, ConnectionInv, TypeOK, ConnectionTypes
<1>3. \A c \in Connections : Of[c] \in Accounts
  BY ConnectionAssumption DEF ConnectionAssumption
<1>4. NothingOfGone' /\ OwnConnection' /\ UnusedUnheard' /\ NothingBefore'
  BY <1>1, <1>2 DEF NothingOfGone, OwnConnection, UnusedUnheard, NothingBefore
<1>5. \A a \in Accounts : PreparedOnce(a)'
  BY <1>1, <1>2 DEF PreparedOnce, OwnConnection
<1>6. AnnouncedPerPreparation'
  BY <1>1, <1>3 DEF AnnouncedPerPreparation
<1> QED BY <1>4, <1>5, <1>6 DEF ConnectionInv
-----------------------------------------------------------------------------
(* The invariant of the connections, and the types of everything *)

\* Requests and calls keep the types of the service.
LEMMA RequestTypes ==
  ASSUME PresenceTypes, existing' = existing,
         \/ \E state \in States : SetGlobalPresence(state) \/ \E p \in Accounts : SetAccountPresence(p, state)
         \/ AccountManagerReady
         \/ \E p \in Accounts : TakesCall(p)
  PROVE  PresenceTypes'
<1>1. /\ enabled \subseteq existing /\ toSet \in [Accounts -> Seq(Call)]
      /\ requested \in [Accounts -> Wanted] /\ automatic \in [Accounts -> Wanted]
      /\ managerHeard \in BOOLEAN /\ globalUpdate \in States \cup {"none"}
      /\ accountUpdate \in [Accounts -> States \cup {"none"}]
      /\ asked \in [Accounts -> States \cup {"none"}] /\ unsure \subseteq Accounts
  BY DEF PresenceTypes, Call, Kinds
<1>2. ASSUME NEW state \in States, SetGlobalPresence(state)
      PROVE  PresenceTypes'
  <2>1. toSet' \in [Accounts -> Seq(Call)]
    <3>1. toSet' = toSet \/ toSet' = Sent(toSet, enabled, state)
      BY <1>2 DEF SetGlobalPresence, GlobalPresenceUpdate
    <3>2. Sent(toSet, enabled, state) \in [Accounts -> Seq(Call)]
      BY <1>1, SentType
    <3> QED BY <1>1, <3>1, <3>2
  <2>2. /\ globalUpdate' \in States \cup {"none"}
        /\ accountUpdate' \in [Accounts -> States \cup {"none"}]
    BY <1>1, <1>2 DEF SetGlobalPresence, Superseded
  <2>3. asked' \in [Accounts -> States \cup {"none"}]
    BY <1>1, <1>2 DEF SetGlobalPresence
  <2>4. unsure' \subseteq Accounts /\ UNCHANGED <<enabled, requested, automatic, managerHeard>>
    BY <1>1, <1>2 DEF SetGlobalPresence
  <2> QED BY <1>1, <2>1, <2>2, <2>3, <2>4 DEF PresenceTypes, Call, Kinds
<1>3. ASSUME NEW state \in States, NEW p \in Accounts, SetAccountPresence(p, state)
      PROVE  PresenceTypes'
  <2>1. toSet' \in [Accounts -> Seq(Call)]
    <3>1. toSet' = toSet \/ toSet' = Sent(toSet, usable \cap {p}, state)
      BY <1>3 DEF SetAccountPresence, AccountPresenceUpdate
    <3>2. Sent(toSet, usable \cap {p}, state) \in [Accounts -> Seq(Call)]
      BY <1>1, SentType
    <3> QED BY <1>1, <3>1, <3>2
  <2>2. accountUpdate' \in [Accounts -> States \cup {"none"}]
    BY <1>1, <1>3 DEF SetAccountPresence
  <2>3. asked' \in [Accounts -> States \cup {"none"}]
    BY <1>1, <1>3 DEF SetAccountPresence
  <2>4. unsure' \subseteq Accounts /\ UNCHANGED <<enabled, requested, automatic, managerHeard, globalUpdate>>
    BY <1>1, <1>3 DEF SetAccountPresence
  <2> QED BY <1>1, <2>1, <2>2, <2>3, <2>4 DEF PresenceTypes, Call, Kinds
<1>4. CASE AccountManagerReady
  <2> DEFINE global == GlobalPresenceUpdate(toSet, globalUpdate)
  <2>1. global \in [Accounts -> Seq(Call)]
    BY <1>1, SentType DEF GlobalPresenceUpdate
  <2> HIDE DEF global
  <2>2. ASSUME NEW p \in Accounts
        PROVE  AccountPresenceUpdate(global, p, accountUpdate[p])[p] \in Seq(Call)
    BY <2>1, SentType DEF AccountPresenceUpdate
  <2>3. toSet' \in [Accounts -> Seq(Call)]
    <3>1. \/ toSet' = [p \in Accounts |-> AccountPresenceUpdate(global, p, accountUpdate[p])[p]]
          \/ toSet' = toSet
      BY <1>4 DEF AccountManagerReady, global
    <3> QED BY <1>1, <2>2, <3>1
  <2>4. /\ globalUpdate' \in States \cup {"none"}
        /\ accountUpdate' \in [Accounts -> States \cup {"none"}] /\ managerHeard' \in BOOLEAN
    BY <1>1, <1>4 DEF AccountManagerReady
  <2>5. UNCHANGED <<enabled, requested, automatic, asked, unsure>>
    BY <1>4 DEF AccountManagerReady
  <2> QED BY <1>1, <2>3, <2>4, <2>5 DEF PresenceTypes, Call, Kinds
<1>5. ASSUME NEW p \in Accounts, TakesCall(p)
      PROVE  PresenceTypes'
  <2>1. toSet[p] # <<>> /\ toSet[p] \in Seq(Call)
    BY <1>1, <1>5 DEF TakesCall
  <2>2. Head(toSet[p]) \in Call /\ Tail(toSet[p]) \in Seq(Call)
    BY <2>1
  <2>3. toSet' \in [Accounts -> Seq(Call)]
    BY <1>1, <1>5, <2>2 DEF TakesCall
  <2>4. requested' \in [Accounts -> Wanted] /\ automatic' \in [Accounts -> Wanted]
    <3>1. Head(toSet[p]).state \in Wanted
      BY <2>2 DEF Call
    <3> QED BY <1>1, <1>5, <3>1 DEF TakesCall
  <2>5. unsure' \subseteq Accounts /\ UNCHANGED <<enabled, managerHeard, globalUpdate, accountUpdate, asked>>
    BY <1>1, <1>5 DEF TakesCall
  <2> QED BY <1>1, <2>3, <2>4, <2>5 DEF PresenceTypes, Call, Kinds
<1> QED BY <1>2, <1>3, <1>4, <1>5

\* A service that ends, and accounts that change, keep the types.
LEMMA SurroundingsTypes ==
  ASSUME PresenceTypes,
         \/ PresenceStops /\ existing' = existing
         \/ \E p \in Accounts, now \in SUBSET existing' : AccountChanges(p, now)
  PROVE  PresenceTypes'
<1>1. CASE PresenceStops /\ existing' = existing
  BY <1>1 DEF PresenceStops, PresenceTypes
<1>2. ASSUME NEW p \in Accounts, NEW now \in SUBSET existing', AccountChanges(p, now)
      PROVE  PresenceTypes'
  BY <1>2 DEF AccountChanges, PresenceTypes
<1> QED BY <1>1, <1>2

\* Everything is of its type, and nothing was prepared, at the start.
LEMMA InitInv == Init => Inv
<1> SUFFICES ASSUME Init PROVE Inv
  OBVIOUS
<1>1. ManagerTypes
  BY BoundsAssumption DEF BoundsAssumption, Init, ManagerInit, ManagerTypes
<1>2. ConnectionTypes
  <2>1. connection \in [Accounts -> used \cup {NoConnection}] /\ used \subseteq Connections
    BY ConnectionAssumption DEF ConnectionAssumption, Init, ConnectionsInit
  <2> QED BY <2>1 DEF Init, ConnectionsInit, ConnectionTypes
<1>3. PresenceTypes
  BY DEF Init, PresenceInit, PresenceTypes, Wanted
<1>4. ConnectionInv
  <2>1. /\ existing = Accounts /\ ~accountsHeard
        /\ preparing = [a \in Accounts |-> 0] /\ readying = [c \in Connections |-> 0]
        /\ validityHeard = {} /\ changesHeard = [a \in Accounts |-> 0]
        /\ announced = [c \in Connections |-> 0] /\ again = [a \in Accounts |-> 0]
    BY DEF Init, ManagerInit, ConnectionsInit
  <2>2. OwnConnection
    BY ConnectionAssumption DEF ConnectionAssumption, Init, ConnectionsInit, OwnConnection
  <2>3. NothingOfGone /\ UnusedUnheard /\ NothingBefore
    BY <2>1 DEF NothingOfGone, UnusedUnheard, NothingBefore
  <2>4. \A a \in Accounts : PreparedOnce(a)
    BY <2>1, <2>2 DEF PreparedOnce, OwnConnection
  <2>5. AnnouncedPerPreparation
    BY <2>1, ConnectionAssumption DEF ConnectionAssumption, AnnouncedPerPreparation
  <2> QED BY <2>2, <2>3, <2>4, <2>5 DEF ConnectionInv
<1> QED BY <1>1, <1>2, <1>3, <1>4 DEF Inv, TypeOK

\* Every step keeps the invariant.
LEMMA NextInv == Inv /\ [Next]_vars => Inv'
<1> SUFFICES ASSUME Inv, [Next]_vars PROVE Inv'
  OBVIOUS
<1>1. ManagerTypes /\ ConnectionTypes /\ PresenceTypes /\ ConnectionInv /\ NothingOfGone
  BY DEF Inv, TypeOK, ConnectionInv
<1>2. moves \in 0 .. MaxMoves /\ (Move => moves' \in 0 .. MaxMoves)
  BY <1>1, BoundsAssumption DEF BoundsAssumption, ManagerTypes, Move
<1>3. CASE AsksPresence
  <2>1. PresenceTypes'
    BY <1>1, <1>3, RequestTypes DEF AsksPresence
  <2>2. UNCHANGED <<processVars, existing, connectionVars>> /\ Move
    BY <1>3 DEF AsksPresence
  <2>3. ManagerTypes'
    BY <1>1, <1>2, <2>2 DEF ManagerTypes, processVars
  <2>4. ConnectionTypes'
    BY <1>1, <2>2 DEF ConnectionTypes, connectionVars
  <2>5. ConnectionInv'
    BY <2>2, ConnectionsKept
  <2> QED BY <2>1, <2>3, <2>4, <2>5 DEF Inv, TypeOK
<1>4. ASSUME NEW a \in Accounts, TogglesAccount(a) PROVE Inv'
  <2>1. /\ UNCHANGED <<processVars, existing, connectionVars>> /\ Move /\ a \in existing
        /\ AccountChanges(a, enabled \ {a}) \/ AccountChanges(a, enabled \cup {a})
    BY <1>4 DEF TogglesAccount
  <2>2. PresenceTypes'
    <3>1. enabled \ {a} \in SUBSET existing' /\ enabled \cup {a} \in SUBSET existing'
      BY <1>1, <2>1 DEF PresenceTypes
    <3> QED BY <1>1, <2>1, <3>1, SurroundingsTypes
  <2>3. ManagerTypes'
    BY <1>1, <1>2, <2>1 DEF ManagerTypes, processVars
  <2>4. ConnectionTypes'
    BY <1>1, <2>1 DEF ConnectionTypes, connectionVars
  <2>5. ConnectionInv'
    BY <2>1, ConnectionsKept
  <2> QED BY <2>2, <2>3, <2>4, <2>5 DEF Inv, TypeOK
<1>5. ASSUME NEW a \in Accounts, RemovesAccount(a) PROVE Inv'
  <2>1. /\ a \in existing /\ existing' = existing \ {a} /\ AccountGoes(a)
        /\ AccountChanges(a, enabled \ {a}) /\ Move /\ UNCHANGED processVars
    BY <1>5 DEF RemovesAccount
  <2>2. PresenceTypes'
    <3>1. enabled \ {a} \in SUBSET existing'
      BY <1>1, <2>1 DEF PresenceTypes
    <3> QED BY <1>1, <2>1, <3>1, SurroundingsTypes
  <2>3. ManagerTypes'
    BY <1>1, <1>2, <2>1 DEF ManagerTypes, processVars
  <2>4. ConnectionTypes'
    BY <1>1, <2>1, AccountMoveTypes
  <2>5. ConnectionInv'
    BY <2>1, RemovesInv
  <2> QED BY <2>2, <2>3, <2>4, <2>5 DEF Inv, TypeOK
<1>6. ASSUME NEW a \in Accounts, CreatesAccount(a) PROVE Inv'
  <2>1. /\ a \notin existing /\ existing' = existing \cup {a} /\ AccountComes(a)
        /\ AccountChanges(a, enabled \cup {a}) /\ Move /\ UNCHANGED processVars
    BY <1>6 DEF CreatesAccount
  <2>2. PresenceTypes'
    <3>1. enabled \cup {a} \in SUBSET existing'
      BY <1>1, <2>1 DEF PresenceTypes
    <3> QED BY <1>1, <2>1, <3>1, SurroundingsTypes
  <2>3. ManagerTypes'
    BY <1>1, <1>2, <2>1 DEF ManagerTypes, processVars
  <2>4. ConnectionTypes'
    BY <1>1, <2>1, AccountMoveTypes
  <2>5. ConnectionInv'
    BY <2>1, CreatesInv
  <2> QED BY <2>2, <2>3, <2>4, <2>5 DEF Inv, TypeOK
<1>7. ASSUME NEW a \in Accounts, AccountTurns(a) PROVE Inv'
  <2>1. /\ ValidityChanges(a) /\ AccountChanges(a, enabled) /\ Move /\ UNCHANGED <<processVars, existing>>
    BY <1>7 DEF AccountTurns
  <2>2. PresenceTypes'
    <3>1. enabled \in SUBSET existing'
      BY <1>1, <2>1 DEF PresenceTypes
    <3> QED BY <1>1, <2>1, <3>1, SurroundingsTypes
  <2>3. ManagerTypes'
    BY <1>1, <1>2, <2>1 DEF ManagerTypes, processVars
  <2>4. ConnectionTypes'
    BY <1>1, <2>1, ConnectionMoveTypes
  <2>5. ConnectionInv'
    BY <2>1, ValidityInv
  <2> QED BY <2>2, <2>3, <2>4, <2>5 DEF Inv, TypeOK
<1>8. ASSUME NEW a \in Accounts, ConnectionChanges(a) PROVE Inv'
  <2>1. /\ ConnectionGoes(a) \/ \E c \in Connections : ConnectionComes(a, c)
        /\ Move /\ UNCHANGED <<processVars, existing, presenceVars>>
    BY <1>8 DEF ConnectionChanges
  <2>2. PresenceTypes'
    BY <1>1, <2>1 DEF PresenceTypes, presenceVars
  <2>3. ManagerTypes'
    BY <1>1, <1>2, <2>1 DEF ManagerTypes, processVars
  <2>4. ConnectionTypes'
    BY <1>1, <2>1, ConnectionMoveTypes
  <2>5. ConnectionInv'
    BY <2>1, GoesInv, ComesInv
  <2> QED BY <2>2, <2>3, <2>4, <2>5 DEF Inv, TypeOK
<1>9. CASE ManagerGetsReady \/ Start \/ UNCHANGED vars
  <2>1. UNCHANGED <<moves, stops, existing, connectionVars, presenceVars>>
    BY <1>9 DEF ManagerGetsReady, Start, vars, processVars
  <2>2. ManagerTypes'
    <3>1. manager' \in {"pending", "ready", "failed"} /\ up' \in BOOLEAN
      BY <1>1, <1>9 DEF ManagerGetsReady, ManagerAnswers, Start, vars, processVars, ManagerTypes
    <3> QED BY <1>1, <2>1, <3>1 DEF ManagerTypes
  <2>3. PresenceTypes'
    BY <1>1, <2>1 DEF PresenceTypes, presenceVars
  <2>4. ConnectionTypes'
    BY <1>1, <2>1 DEF ConnectionTypes, connectionVars
  <2>5. ConnectionInv'
    BY <2>1, ConnectionsKept
  <2> QED BY <2>2, <2>3, <2>4, <2>5 DEF Inv, TypeOK
<1>10. CASE ConnectionTurn
  <2>1. UNCHANGED <<processVars, moves, existing, presenceVars>>
    BY <1>10 DEF ConnectionTurn
  <2>2. PresenceTypes' /\ ManagerTypes'
    BY <1>1, <2>1 DEF PresenceTypes, presenceVars, ManagerTypes, processVars
  <2>3. ConnectionTypes'
    BY <1>1, <1>10, <2>1, ConnectionTurnTypes DEF ConnectionTurn
  <2>4. ConnectionInv'
    BY <1>10, <2>1, AccountsReadyInv, AccountReadyInv, ConnectionReadyInv DEF ConnectionTurn
  <2> QED BY <2>2, <2>3, <2>4 DEF Inv, TypeOK
<1>11. CASE PresenceTurn
  <2>1. UNCHANGED <<processVars, moves, existing, connectionVars>>
    BY <1>11 DEF PresenceTurn
  <2>2. PresenceTypes'
    BY <1>1, <1>11, <2>1, RequestTypes DEF PresenceTurn
  <2>3. ManagerTypes' /\ ConnectionTypes'
    BY <1>1, <2>1 DEF ManagerTypes, processVars, ConnectionTypes, connectionVars
  <2>4. ConnectionInv'
    BY <2>1, ConnectionsKept
  <2> QED BY <2>2, <2>3, <2>4 DEF Inv, TypeOK
<1>12. CASE Stop
  <2>1. /\ ConnectionsStop /\ PresenceStops /\ UNCHANGED <<moves, existing>>
        /\ stops < MaxStops /\ stops' = stops + 1 /\ up' = FALSE /\ manager' = "pending"
    BY <1>12 DEF Stop
  <2>2. ManagerTypes'
    <3>1. stops' \in 0 .. MaxStops
      BY <1>1, <2>1, BoundsAssumption DEF BoundsAssumption, ManagerTypes
    <3> QED BY <1>1, <2>1, <3>1 DEF ManagerTypes
  <2>3. ConnectionTypes'
    BY <1>1, <2>1, StopTypes
  <2>4. PresenceTypes'
    BY <1>1, <2>1, SurroundingsTypes
  <2>5. ConnectionInv'
    BY <2>1, StopInv
  <2> QED BY <2>2, <2>3, <2>4, <2>5 DEF Inv, TypeOK
<1> QED BY <1>3, <1>4, <1>5, <1>6, <1>7, <1>8, <1>9, <1>10, <1>11, <1>12 DEF Next

\* The state stays of its type, and a connection is announced no more often than
\* its account was prepared, whatever signals of the two cross.
THEOREM AnnouncedOnce == Spec => []AnnouncementsBounded
<1>1. Inv => AnnouncementsBounded
  BY DEF Inv, ConnectionInv, AnnouncementsBounded
<1> QED BY <1>1, InitInv, NextInv, PTL DEF Spec
-----------------------------------------------------------------------------
(* What an account is told *)

\* After the calls of an update, both presences end as it asks.
LEMMA UpdatesEnd ==
  ASSUME NEW s \in Seq(Call), NEW state \in Wanted, NEW online \in BOOLEAN, NEW w \in Kinds
  PROVE  Last(s \o Updates(state, online), w, state)
<1> DEFINE u == Updates(state, online)
           r == s \o u
           n == Len(s)
<1>1. /\ u \in Seq(Call) /\ Len(u) = 2
      /\ u[1] = [what |-> IF online THEN "automatic" ELSE "requested", state |-> state]
      /\ u[2] = [what |-> IF online THEN "requested" ELSE "automatic", state |-> state]
  BY UpdatesType
<1>2. u[1].state = state /\ u[2].state = state /\ u[1].what # u[2].what
  BY <1>1
<1>3. u[1].what = w \/ u[2].what = w
  BY <1>1 DEF Kinds
<1> HIDE DEF u
<1>4. n \in Nat
  BY LenProperties
<1>5. /\ r \in Seq(Call) /\ Len(r) = n + 2
      /\ \A i \in 1 .. Len(r) : r[i] = IF i <= n THEN s[i] ELSE u[i - n]
  <2>1. u \in Seq(Call)
    BY <1>1
  <2>2. /\ r \in Seq(Call) /\ Len(r) = Len(s) + Len(u)
        /\ \A i \in 1 .. Len(s) + Len(u) : r[i] = IF i <= Len(s) THEN s[i] ELSE u[i - Len(s)]
    BY <2>1, ConcatProperties
  <2> QED BY <1>1, <2>2
<1> HIDE DEF r
<1>6. r[n + 1] = u[1] /\ r[n + 2] = u[2]
  <2>1. n + 1 \in 1 .. Len(r) /\ n + 2 \in 1 .. Len(r)
    BY <1>4, <1>5
  <2>2. ~(n + 1 <= n) /\ ~(n + 2 <= n) /\ (n + 1) - n = 1 /\ (n + 2) - n = 2
    BY <1>4
  <2>3. r[n + 1] = u[(n + 1) - n] /\ r[n + 2] = u[(n + 2) - n]
    BY <1>5, <2>1, <2>2
  <2> QED BY <2>2, <2>3
<1>7. \A j \in 1 .. Len(r) : /\ j > n + 1 => j = n + 2
                             /\ ~(j > n + 2)
  BY <1>4, <1>5
<1>8. n + 1 \in 1 .. Len(r) /\ n + 2 \in 1 .. Len(r)
  BY <1>4, <1>5
<1>9. Last(r, w, state)
  <2>1. CASE u[1].what = w
    BY <1>2, <1>6, <1>7, <1>8, <2>1 DEF Last
  <2>2. CASE u[2].what = w
    BY <1>2, <1>6, <1>7, <1>8, <2>2 DEF Last
  <2> QED BY <1>3, <2>1, <2>2
<1> QED BY <1>9 DEF r, u

\* Taking the first call keeps what the calls end as.
LEMMA TailEnds ==
  ASSUME NEW s \in Seq(Call), s # <<>>, NEW w \in Kinds, NEW value, NEW state, NEW next,
         EndsAs(s, w, value, state),
         Head(s).what = w => next = Head(s).state,
         Head(s).what # w => next = value
  PROVE  EndsAs(Tail(s), w, next, state)
<1> DEFINE t == Tail(s)
           n == Len(s)
<1>1. /\ t \in Seq(Call) /\ Len(t) = n - 1 /\ n \in Nat /\ n >= 1 /\ Head(s) = s[1]
      /\ \A i \in 1 .. Len(t) : t[i] = s[i + 1]
  BY HeadTailProperties, EmptySeq, LenProperties
<1> HIDE DEF t
<1>2. \A i \in 1 .. Len(t) : i + 1 \in 1 .. Len(s)
  BY <1>1
<1>3. \A i \in 1 .. Len(s) : i = 1 \/ (i - 1 \in 1 .. Len(t) /\ t[i - 1] = s[i])
  <2> SUFFICES ASSUME NEW i \in 1 .. Len(s), i # 1
               PROVE  i - 1 \in 1 .. Len(t) /\ t[i - 1] = s[i]
    OBVIOUS
  <2>1. i - 1 \in 1 .. Len(t) /\ (i - 1) + 1 = i
    BY <1>1
  <2> QED BY <1>1, <2>1
<1>4. CASE Last(s, w, state)
  <2>1. PICK i \in 1 .. Len(s) : /\ s[i].what = w /\ s[i].state = state
                                 /\ \A j \in 1 .. Len(s) : j > i => s[j].what # w
    BY <1>4 DEF Last
  <2>2. CASE i = 1
    <3>1. next = state
      BY <1>1, <2>1, <2>2
    <3>2. ASSUME NEW j \in 1 .. Len(t) PROVE t[j].what # w
      <4>1. j + 1 \in 1 .. Len(s) /\ j + 1 > 1 /\ t[j] = s[j + 1]
        BY <1>1, <1>2
      <4> QED BY <2>1, <2>2, <4>1
    <3>3. Never(t, w)
      BY <3>2 DEF Never
    <3> QED BY <3>1, <3>3 DEF EndsAs, t
  <2>3. CASE i # 1
    <3>1. i - 1 \in 1 .. Len(t) /\ t[i - 1] = s[i]
      BY <1>3, <2>3
    <3>2. ASSUME NEW j \in 1 .. Len(t), j > i - 1 PROVE t[j].what # w
      <4>1. j + 1 \in 1 .. Len(s) /\ j + 1 > i /\ t[j] = s[j + 1]
        BY <1>1, <1>2, <3>2
      <4> QED BY <2>1, <4>1
    <3>3. Last(t, w, state)
      BY <2>1, <3>1, <3>2 DEF Last
    <3> QED BY <3>3 DEF EndsAs, t
  <2> QED BY <2>2, <2>3
<1>5. CASE Never(s, w) /\ value = state
  <2>1. Head(s).what # w /\ next = state
    BY <1>1, <1>5 DEF Never
  <2>2. Never(t, w)
    BY <1>1, <1>2, <1>5 DEF Never
  <2> QED BY <2>1, <2>2 DEF EndsAs, t
<1> QED BY <1>4, <1>5 DEF EndsAs
\* The accounts that are sent an update end as it asks.
LEMMA SentEnds ==
  ASSUME NEW calls \in [Accounts -> Seq(Call)], NEW S, NEW state \in Wanted,
         NEW p \in Accounts, p \in S, p \notin Ring, NEW w \in Kinds
  PROVE  Last(Sent(calls, S, state)[p], w, state)
<1>1. Sent(calls, S, state)[p] = calls[p] \o Updates(state, p \notin WithoutOne)
  BY SentType
<1>2. calls[p] \in Seq(Call) /\ (p \notin WithoutOne) \in BOOLEAN
  OBVIOUS
<1>3. Last(calls[p] \o Updates(state, p \notin WithoutOne), w, state)
  BY <1>2, UpdatesEnd
<1> QED BY <1>1, <1>3

-----------------------------------------------------------------------------
(* Every step keeps what was asked for last *)

\* What the service keeps is of its type.
LEMMA PresenceFacts ==
  ASSUME Inv
  PROVE  /\ toSet \in [Accounts -> Seq(Call)] /\ enabled \subseteq Accounts /\ usable \subseteq Accounts
         /\ requested \in [Accounts -> Wanted] /\ automatic \in [Accounts -> Wanted]
         /\ accountUpdate \in [Accounts -> States \cup {"none"}]
         /\ asked \in [Accounts -> States \cup {"none"}] /\ globalUpdate \in States \cup {"none"}
BY DEF Inv, TypeOK, ManagerTypes, ConnectionTypes, PresenceTypes, Call, Kinds

\* A step that touches neither what is asked, what is deferred nor what is on its way.
LEMMA PresenceKept ==
  ASSUME Inv, PresenceInv, UNCHANGED <<usable, presenceVars>>,
         managerHeard => manager' = manager
  PROVE  PresenceInv'
<1>1. NothingDeferred'
  BY DEF PresenceInv, NothingDeferred, presenceVars
<1>2. \A p \in Accounts : Promises(p) => Promises(p)'
  BY DEF Promises, Told, presenceVars
<1> QED BY <1>1, <1>2 DEF PresenceInv, presenceVars

\* A request for all accounts is deferred and supersedes those for one, or is the
\* last on its way to all that are enabled.
LEMMA SetGlobalKeeps ==
  ASSUME Inv, PresenceInv, NEW state \in States, SetGlobalPresence(state),
         UNCHANGED <<manager, usable>>
  PROVE  PresenceInv'
<1>1. UNCHANGED <<enabled, requested, automatic, managerHeard>>
  BY DEF SetGlobalPresence
<1>2. CASE manager = "ready"
  <2>1. UNCHANGED <<globalUpdate, accountUpdate>> /\ toSet' = Sent(toSet, enabled, state)
    BY <1>2 DEF SetGlobalPresence, GlobalPresenceUpdate
  <2>2. NothingDeferred'
    BY <1>1, <2>1 DEF PresenceInv, NothingDeferred
  <2>3. ASSUME NEW p \in Accounts, p \notin Ring, p \notin unsure', asked'[p] \in Wanted
        PROVE  Promises(p)'
    <3>1. managerHeard /\ p \in enabled /\ p \notin unsure
      BY <1>2, <2>3 DEF SetGlobalPresence
    <3>2. globalUpdate = "none" /\ accountUpdate[p] = "none"
      BY <1>2, <3>1 DEF PresenceInv, NothingDeferred
    <3>3. CASE state \in Wanted
      <4>1. asked'[p] = state
        BY <3>3 DEF SetGlobalPresence
      <4>2. \A w \in Kinds : Last(toSet'[p], w, state)
        BY <2>1, <2>3, <3>1, <3>3, PresenceFacts, SentEnds
      <4>3. Last(toSet'[p], "requested", state) /\ Last(toSet'[p], "automatic", state)
        BY <4>2 DEF Kinds
      <4>4. Told(p)'
        BY <4>1, <4>3 DEF Told, EndsAs
      <4> QED BY <2>1, <3>2, <4>4 DEF Promises
    <3>4. CASE state \notin Wanted
      <4>1. asked'[p] = asked[p]
        BY <1>2, <3>4 DEF SetGlobalPresence
      <4>2. toSet'[p] = toSet[p]
        <5>1. toSet \in [Accounts -> Seq(Call)]
          BY PresenceFacts
        <5>2. Sent(toSet, enabled, state)[p] = toSet[p]
          BY <2>3, <3>4, <5>1, SentType
        <5> QED BY <2>1, <5>2
      <4>3. Promises(p)
        BY <2>3, <3>1, <4>1 DEF PresenceInv
      <4>4. Told(p)
        BY <3>2, <4>3 DEF Promises
      <4>5. Told(p)'
        BY <1>1, <4>1, <4>2, <4>4 DEF Told
      <4> QED BY <2>1, <3>2, <4>5 DEF Promises
    <3> QED BY <3>3, <3>4
  <2> QED BY <2>2, <2>3 DEF PresenceInv
<1>3. CASE manager # "ready"
  <2>1. /\ globalUpdate' = state /\ accountUpdate' = [p \in Accounts |-> "none"]
        /\ asked' = [p \in Accounts |-> state]
    BY <1>3 DEF SetGlobalPresence, Superseded
  <2>2. NothingDeferred'
    BY <1>1, <1>3 DEF PresenceInv, NothingDeferred
  <2>3. ASSUME NEW p \in Accounts, p \notin unsure' PROVE Promises(p)'
    <3>1. p \in enabled'
      BY <1>1, <2>3 DEF SetGlobalPresence
    <3>2. state # "none"
      BY DEF States, Wanted
    <3> QED BY <2>1, <3>1, <3>2 DEF Promises
  <2> QED BY <2>2, <2>3 DEF PresenceInv
<1> QED BY <1>2, <1>3

\* A request for one account is deferred, and carried out after one for all, or is
\* the last on its way to that account.
LEMMA SetAccountKeeps ==
  ASSUME Inv, PresenceInv, NEW a \in Accounts, NEW state \in States, SetAccountPresence(a, state),
         UNCHANGED <<manager, usable>>
  PROVE  PresenceInv'
<1>1. UNCHANGED <<enabled, requested, automatic, managerHeard, globalUpdate>>
  BY DEF SetAccountPresence
<1>2. unsure \subseteq unsure'
  BY DEF SetAccountPresence
<1>3. CASE manager = "ready"
  <2>1. accountUpdate' = accountUpdate /\ toSet' = Sent(toSet, usable \cap {a}, state)
    BY <1>3 DEF SetAccountPresence, AccountPresenceUpdate
  <2>2. NothingDeferred'
    BY <1>1, <2>1 DEF PresenceInv, NothingDeferred
  <2>3. ASSUME NEW p \in Accounts, p \notin Ring, p \notin unsure', asked'[p] \in Wanted
        PROVE  Promises(p)'
    <3>1. CASE p = a /\ state \in Wanted
      <4>1. managerHeard /\ a \in usable
        BY <1>3, <2>3, <3>1 DEF SetAccountPresence
      <4>2. globalUpdate = "none" /\ accountUpdate[a] = "none"
        BY <1>3, <4>1 DEF PresenceInv, NothingDeferred
      <4>3. asked'[a] = state
        BY <3>1, PresenceFacts DEF SetAccountPresence
      <4>4. a \in usable \cap {a}
        BY <4>1
      <4>5. \A w \in Kinds : Last(toSet'[a], w, state)
        BY <2>1, <2>3, <3>1, <4>4, PresenceFacts, SentEnds
      <4>6. Last(toSet'[a], "requested", state) /\ Last(toSet'[a], "automatic", state)
        BY <4>5 DEF Kinds
      <4>7. Told(a)'
        BY <4>3, <4>6 DEF Told, EndsAs
      <4> QED BY <1>1, <2>1, <3>1, <4>2, <4>7 DEF Promises
    <3>2. CASE p # a \/ state \notin Wanted
      <4>1. asked'[p] = asked[p]
        BY <1>3, <3>2, PresenceFacts DEF SetAccountPresence
      <4>2. toSet'[p] = toSet[p]
        <5>1. toSet \in [Accounts -> Seq(Call)] /\ (p \notin usable \cap {a} \/ state \notin Wanted)
          BY <3>2, PresenceFacts
        <5>2. Sent(toSet, usable \cap {a}, state)[p] = toSet[p]
          BY <2>3, <5>1, SentType
        <5> QED BY <2>1, <5>2
      <4>3. Promises(p)
        BY <1>2, <2>3, <4>1 DEF PresenceInv
      <4>4. Told(p) => Told(p)'
        BY <1>1, <4>1, <4>2 DEF Told
      <4> QED BY <1>1, <2>1, <4>1, <4>3, <4>4 DEF Promises
    <3> QED BY <3>1, <3>2
  <2> QED BY <2>2, <2>3 DEF PresenceInv
<1>4. CASE manager # "ready"
  <2>1. /\ accountUpdate' = [accountUpdate EXCEPT ![a] = state] /\ toSet' = toSet
        /\ asked' = [asked EXCEPT ![a] = state]
    BY <1>4 DEF SetAccountPresence
  <2>2. NothingDeferred'
    BY <1>1, <1>4 DEF PresenceInv, NothingDeferred
  <2>3. ASSUME NEW p \in Accounts, p \notin Ring, p \notin unsure', asked'[p] \in Wanted
        PROVE  Promises(p)'
    <3>1. CASE p = a
      <4>1. a \in usable
        BY <2>3, <3>1 DEF SetAccountPresence
      <4>2. state # "none"
        BY DEF States, Wanted
      <4>3. accountUpdate'[a] = state /\ asked'[a] = state
        BY <2>1, PresenceFacts
      <4> QED BY <3>1, <4>1, <4>2, <4>3 DEF Promises
    <3>2. CASE p # a
      <4>1. accountUpdate'[p] = accountUpdate[p] /\ asked'[p] = asked[p]
        BY <2>1, <3>2, PresenceFacts
      <4>2. Promises(p)
        BY <1>2, <2>3, <4>1 DEF PresenceInv
      <4>3. Told(p) => Told(p)'
        BY <1>1, <2>1, <4>1 DEF Told
      <4> QED BY <1>1, <4>1, <4>2, <4>3 DEF Promises
    <3> QED BY <3>1, <3>2
  <2> QED BY <2>2, <2>3 DEF PresenceInv
<1> QED BY <1>3, <1>4
\* What was deferred is passed on, the request for all accounts first.
LEMMA ManagerReadyKeeps ==
  ASSUME Inv, PresenceInv, AccountManagerReady, UNCHANGED <<manager, usable>>
  PROVE  PresenceInv'
<1>1. /\ UNCHANGED <<enabled, requested, automatic, asked, unsure>>
      /\ manager # "pending" /\ managerHeard' = TRUE
  BY DEF AccountManagerReady
<1>2. CASE manager = "ready"
  <2> DEFINE global == Sent(toSet, enabled, globalUpdate)
  <2>1. /\ globalUpdate' = "none" /\ accountUpdate' = [p \in Accounts |-> "none"]
        /\ toSet' = [p \in Accounts |-> Sent(global, usable \cap {p}, accountUpdate[p])[p]]
    BY <1>2 DEF AccountManagerReady, GlobalPresenceUpdate, AccountPresenceUpdate
  <2>2. NothingDeferred'
    BY <1>1, <1>2, <2>1 DEF NothingDeferred
  <2>3. global \in [Accounts -> Seq(Call)]
    BY PresenceFacts, SentType
  <2>4. ASSUME NEW p \in Accounts, p \notin Ring, asked[p] \in Wanted, Promises(p)
        PROVE  Told(p)'
    <3>1. asked[p] # "none" /\ "none" \notin Wanted
      BY <2>4 DEF Wanted
    <3>2. toSet'[p] = Sent(global, usable \cap {p}, accountUpdate[p])[p]
      BY <2>1
    <3>3. CASE accountUpdate[p] # "none" /\ accountUpdate[p] = asked[p] /\ p \in usable
      <4>1. accountUpdate[p] \in Wanted /\ p \in usable \cap {p}
        BY <2>4, <3>3
      <4> HIDE DEF global
      <4>2. \A w \in Kinds : Last(toSet'[p], w, accountUpdate[p])
        BY <2>3, <2>4, <3>2, <4>1, SentEnds
      <4>3. /\ Last(toSet'[p], "requested", accountUpdate[p])
            /\ Last(toSet'[p], "automatic", accountUpdate[p])
        BY <4>2 DEF Kinds
      <4> QED BY <1>1, <3>3, <4>3 DEF Told, EndsAs
    <3>4. CASE accountUpdate[p] = "none"
      <4>1. toSet'[p] = global[p]
        <5> HIDE DEF global
        <5>1. accountUpdate[p] \notin Wanted
          BY <3>1, <3>4
        <5>2. Sent(global, usable \cap {p}, accountUpdate[p])[p] = global[p]
          BY <2>3, <5>1, SentType
        <5> QED BY <3>2, <5>2
      <4>2. CASE globalUpdate # "none" /\ globalUpdate = asked[p] /\ p \in enabled
        <5>1. globalUpdate \in Wanted
          BY <2>4, <4>2
        <5>2. \A w \in Kinds : Last(global[p], w, globalUpdate)
          BY <2>4, <4>2, <5>1, PresenceFacts, SentEnds
        <5> HIDE DEF global
        <5>3. Last(toSet'[p], "requested", globalUpdate) /\ Last(toSet'[p], "automatic", globalUpdate)
          BY <4>1, <5>2 DEF Kinds
        <5> QED BY <1>1, <4>2, <5>3 DEF Told, EndsAs
      <4>3. CASE globalUpdate = "none" /\ Told(p)
        <5>1. globalUpdate \notin Wanted
          BY <3>1, <4>3
        <5>2. global[p] = toSet[p]
          BY <5>1, PresenceFacts, SentType
        <5> HIDE DEF global
        <5>3. toSet'[p] = toSet[p]
          BY <4>1, <5>2
        <5> QED BY <1>1, <4>3, <5>3 DEF Told
      <4> QED BY <2>4, <3>4, <4>2, <4>3 DEF Promises
    <3> QED BY <2>4, <3>3, <3>4 DEF Promises
  <2>5. \A p \in Accounts \ (Ring \cup unsure') : asked'[p] \in Wanted => Promises(p)'
    <3> SUFFICES ASSUME NEW p \in Accounts, p \notin Ring, p \notin unsure', asked'[p] \in Wanted
                 PROVE  Promises(p)'
      OBVIOUS
    <3>1. Promises(p) /\ asked[p] \in Wanted
      BY <1>1 DEF PresenceInv
    <3>2. Told(p)'
      BY <2>4, <3>1
    <3>3. globalUpdate' = "none" /\ accountUpdate'[p] = "none"
      BY <2>1
    <3> QED BY <3>2, <3>3 DEF Promises
  <2> QED BY <2>2, <2>5 DEF PresenceInv
<1>3. CASE manager # "ready"
  <2>1. UNCHANGED <<toSet, globalUpdate, accountUpdate>>
    BY <1>3 DEF AccountManagerReady
  <2>2. NothingDeferred'
    BY <1>1, <1>3 DEF NothingDeferred
  <2>3. \A p \in Accounts : Promises(p) => Promises(p)'
    BY <1>1, <2>1 DEF Promises, Told
  <2> QED BY <1>1, <2>2, <2>3 DEF PresenceInv
<1> QED BY <1>2, <1>3

\* A call that is taken leaves what the calls end as; one that is refused leaves
\* nothing to say.
LEMMA TakesCallKeeps ==
  ASSUME Inv, PresenceInv, NEW a \in Accounts, TakesCall(a), UNCHANGED <<manager, usable>>
  PROVE  PresenceInv'
<1>1. /\ UNCHANGED <<enabled, managerHeard, globalUpdate, accountUpdate, asked>>
      /\ toSet[a] # <<>> /\ toSet' = [toSet EXCEPT ![a] = Tail(@)] /\ unsure \subseteq unsure'
  BY DEF TakesCall
<1>2. NothingDeferred'
  BY <1>1 DEF PresenceInv, NothingDeferred
<1>3. ASSUME NEW p \in Accounts, p # a PROVE Promises(p) => Promises(p)'
  <2>1. toSet'[p] = toSet[p]
    BY <1>1, <1>3, PresenceFacts
  <2>2. requested'[p] = requested[p] /\ automatic'[p] = automatic[p]
    BY <1>3, PresenceFacts DEF TakesCall
  <2>3. Told(p) => Told(p)'
    BY <1>1, <2>1, <2>2 DEF Told
  <2> QED BY <1>1, <2>3 DEF Promises
<1>4. ASSUME a \notin unsure', Promises(a) PROVE Promises(a)'
  <2>1. toSet[a] \in Seq(Call) /\ toSet'[a] = Tail(toSet[a])
    BY <1>1, PresenceFacts
  <2> DEFINE call == Head(toSet[a])
  <2>2. /\ requested' = IF call.what = "requested" THEN [requested EXCEPT ![a] = call.state] ELSE requested
        /\ automatic' = IF call.what = "automatic" THEN [automatic EXCEPT ![a] = call.state] ELSE automatic
    BY <1>4 DEF TakesCall
  <2>3. /\ call.what = "requested" => requested'[a] = call.state
        /\ call.what # "requested" => requested'[a] = requested[a]
        /\ call.what = "automatic" => automatic'[a] = call.state
        /\ call.what # "automatic" => automatic'[a] = automatic[a]
    BY <2>2, PresenceFacts
  <2>4. Told(a) => Told(a)'
    <3> SUFFICES ASSUME Told(a) PROVE Told(a)'
      OBVIOUS
    <3>1. "requested" \in Kinds /\ "automatic" \in Kinds
      BY DEF Kinds
    <3>2. EndsAs(Tail(toSet[a]), "requested", requested'[a], asked[a])
      <4>1. EndsAs(toSet[a], "requested", requested[a], asked[a])
        BY DEF Told
      <4> QED BY <1>1, <2>1, <2>3, <3>1, <4>1, TailEnds
    <3>3. EndsAs(Tail(toSet[a]), "automatic", automatic'[a], asked[a])
      <4>1. EndsAs(toSet[a], "automatic", automatic[a], asked[a])
        BY DEF Told
      <4> QED BY <1>1, <2>1, <2>3, <3>1, <4>1, TailEnds
    <3> QED BY <1>1, <2>1, <3>2, <3>3 DEF Told
  <2> QED BY <1>1, <1>4, <2>4 DEF Promises
<1> QED BY <1>1, <1>2, <1>3, <1>4 DEF PresenceInv

\* Of an account that changes, and of those with something deferred when the
\* daemon ends, nothing is said any more.
LEMMA OutsideKeeps ==
  ASSUME Inv, PresenceInv,
         \/ PresenceStops /\ manager' = "pending" /\ usable' = usable
         \/ \E a \in Accounts : \E now :
              /\ AccountChanges(a, now) /\ manager' = manager
              /\ \A p \in Accounts \ {a} : (p \in now <=> p \in enabled) /\ (p \in usable' <=> p \in usable)
  PROVE  PresenceInv'
<1>1. CASE PresenceStops /\ manager' = "pending" /\ usable' = usable
  <2>1. /\ managerHeard' = FALSE /\ globalUpdate' = "none" /\ accountUpdate' = [p \in Accounts |-> "none"]
        /\ UNCHANGED <<enabled, toSet, requested, automatic, asked>>
        /\ \A p \in Accounts \ unsure' : /\ p \notin unsure
                                         /\ globalUpdate = "none" /\ accountUpdate[p] = "none"
    BY <1>1 DEF PresenceStops
  <2>2. \A p \in Accounts \ unsure' : Promises(p) => Promises(p)'
    BY <1>1, <2>1 DEF Promises, Told
  <2>3. NothingDeferred'
    BY <2>1 DEF NothingDeferred
  <2> QED BY <2>1, <2>2, <2>3 DEF PresenceInv
<1>2. ASSUME NEW a \in Accounts, NEW now, AccountChanges(a, now), manager' = manager,
             \A p \in Accounts \ {a} : (p \in now <=> p \in enabled) /\ (p \in usable' <=> p \in usable)
      PROVE  PresenceInv'
  <2>1. /\ enabled' = now /\ unsure' = unsure \cup {a}
        /\ UNCHANGED <<toSet, requested, automatic, managerHeard, globalUpdate, accountUpdate, asked>>
    BY <1>2 DEF AccountChanges
  <2>2. \A p \in Accounts \ unsure' : Promises(p) => Promises(p)'
    BY <1>2, <2>1 DEF Promises, Told
  <2>3. NothingDeferred'
    BY <1>2, <2>1 DEF PresenceInv, NothingDeferred
  <2> QED BY <2>1, <2>2, <2>3 DEF PresenceInv
<1> QED BY <1>1, <1>2

\* Nothing is deferred or asked at the start.
LEMMA PresenceStarts == Init => PresenceInv
<1> SUFFICES ASSUME Init PROVE PresenceInv
  OBVIOUS
<1>1. manager = "pending" /\ ~managerHeard /\ \A p \in Accounts : asked[p] = "none"
  BY DEF Init, ManagerInit, PresenceInit
<1>2. "none" \notin Wanted
  BY DEF Wanted
<1> QED BY <1>1, <1>2 DEF PresenceInv, NothingDeferred

\* Every step keeps what was asked for last.
LEMMA NextPresence == Inv /\ PresenceInv /\ [Next]_vars => PresenceInv'
<1> SUFFICES ASSUME Inv, PresenceInv, [Next]_vars PROVE PresenceInv'
  OBVIOUS
<1>1. CASE AsksPresence
  <2>1. UNCHANGED <<manager, usable>>
    BY <1>1 DEF AsksPresence, processVars, connectionVars
  <2>2. \E state \in States :
          SetGlobalPresence(state) \/ \E p \in Accounts : SetAccountPresence(p, state)
    BY <1>1 DEF AsksPresence
  <2> QED BY <2>1, <2>2, SetGlobalKeeps, SetAccountKeeps
<1>2. ASSUME NEW a \in Accounts,
             TogglesAccount(a) \/ RemovesAccount(a) \/ CreatesAccount(a) \/ AccountTurns(a)
      PROVE  PresenceInv'
  <2>1. manager' = manager
    BY <1>2 DEF TogglesAccount, RemovesAccount, CreatesAccount, AccountTurns, processVars
  <2>2. \A p \in Accounts \ {a} : (p \in usable' <=> p \in usable)
    BY <1>2 DEF TogglesAccount, RemovesAccount, CreatesAccount, AccountTurns, connectionVars,
                AccountGoes, AccountComes, ValidityChanges
  <2>3. \E now : AccountChanges(a, now) /\ \A p \in Accounts \ {a} : (p \in now <=> p \in enabled)
    <3>1. CASE TogglesAccount(a)
      BY <3>1 DEF TogglesAccount
    <3>2. CASE RemovesAccount(a)
      BY <3>2 DEF RemovesAccount
    <3>3. CASE CreatesAccount(a)
      BY <3>3 DEF CreatesAccount
    <3>4. CASE AccountTurns(a)
      BY <3>4 DEF AccountTurns
    <3> QED BY <1>2, <3>1, <3>2, <3>3, <3>4
  <2> QED BY <2>1, <2>2, <2>3, OutsideKeeps
<1>3. ASSUME NEW a \in Accounts, ConnectionChanges(a) PROVE PresenceInv'
  <2>1. UNCHANGED <<manager, usable, presenceVars>>
    BY <1>3 DEF ConnectionChanges, processVars, ConnectionGoes, ConnectionComes
  <2> QED BY <2>1, PresenceKept
<1>4. CASE ManagerGetsReady
  <2>1. UNCHANGED <<usable, presenceVars>> /\ ~managerHeard
    BY <1>4 DEF ManagerGetsReady, ManagerAnswers, connectionVars, PresenceInv, NothingDeferred
  <2> QED BY <2>1, PresenceKept
<1>5. CASE ConnectionTurn
  <2>1. UNCHANGED <<manager, usable, presenceVars>>
    BY <1>5 DEF ConnectionTurn, processVars, AccountsReady, AccountReady, ConnectionReady
  <2> QED BY <2>1, PresenceKept
<1>6. CASE PresenceTurn
  <2>1. UNCHANGED <<manager, usable>>
    BY <1>6 DEF PresenceTurn, processVars, connectionVars
  <2>2. AccountManagerReady \/ \E p \in Accounts : TakesCall(p)
    BY <1>6 DEF PresenceTurn
  <2> QED BY <2>1, <2>2, ManagerReadyKeeps, TakesCallKeeps
<1>7. CASE Stop
  <2>1. PresenceStops /\ manager' = "pending" /\ usable' = usable
    BY <1>7 DEF Stop, ConnectionsStop
  <2> QED BY <2>1, OutsideKeeps
<1>8. CASE Start \/ UNCHANGED vars
  <2>1. UNCHANGED <<manager, usable, presenceVars>>
    BY <1>8 DEF Start, vars, processVars, connectionVars
  <2> QED BY <2>1, PresenceKept
<1> QED BY <1>1, <1>2, <1>3, <1>4, <1>5, <1>6, <1>7, <1>8 DEF Next

\* What was asked for last, of all accounts or of one, is what an account that did
\* not change meanwhile is told, for now and for when it connects by itself,
\* whatever was deferred until the account manager was ready.
THEOREM LastAsked == Spec => []LastAskedIsSet
<1>1. Inv /\ PresenceInv => LastAskedIsSet
  <2> SUFFICES ASSUME Inv, PresenceInv, NEW p \in Accounts, p \notin Ring, p \notin unsure,
                      asked[p] \in Wanted, toSet[p] = <<>>,
                      globalUpdate = "none", accountUpdate[p] = "none"
               PROVE  requested[p] = asked[p] /\ automatic[p] = asked[p]
    BY DEF LastAskedIsSet
  <2>1. Told(p)
    BY DEF PresenceInv, Promises
  <2>2. Len(toSet[p]) = 0
    OBVIOUS
  <2>3. \A i \in 1 .. Len(toSet[p]) : FALSE
    BY <2>2
  <2> QED BY <2>1, <2>3 DEF Told, EndsAs, Last
<1> QED BY <1>1, InitInv, NextInv, PresenceStarts, NextPresence, PTL DEF Spec
===============================================================================
