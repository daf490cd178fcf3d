--------------------------- MODULE MessageReviver ---------------------------
(***************************************************************************)
(* The MessageReviver: it asks a connection for the messages it still      *)
(* stores, asks again after a while, and when the same ones are still      *)
(* there, has those that are in the database forgotten and the others      *)
(* delivered once more.                                                    *)
(*                                                                         *)
(* External are the connections (announced by ConnectionUtils), the        *)
(* connection managers, which answer the calls of a connection in order,   *)
(* and the text listeners, which save and expunge messages meanwhile and   *)
(* report savingFailed.                                                    *)
(***************************************************************************)
EXTENDS Integers, FiniteSets, Sequences

CONSTANTS Tokens,       \* message tokens
          Conns,        \* connection objects
          Path,         \* the object path of a connection
          MAX_RETRIES,
          MayFail       \* "fetch" and "timer" may fail, connections be "lost"

Paths == {Path[c] : c \in Conns}

ASSUME ReviverAssumption ==
  /\ IsFiniteSet(Tokens) /\ IsFiniteSet(Conns)
  /\ DOMAIN Path = Conns
  /\ MAX_RETRIES \in Nat
  /\ MayFail \subseteq {"fetch", "timer", "lost"}

VARIABLES
  \* --- connections, connection managers, listeners
  conn,          \* per connection: "none", "valid" or "invalid"
  stored,        \* per path: the tokens the connection manager stores
  arrived,       \* per path: the tokens that ever arrived
  db,            \* tokens with a row
  delivered,     \* tokens delivered once more
  bus,           \* per connection: calls on their way to the manager
  replies,       \* per connection: answers to Get on their way back
  \* --- the reviver; m_Connections is the open calls and replies
  timers,        \* m_TimerConnections: running timers per connection
  messageTokens, \* m_MessageTokens, per path
  retries,       \* m_Retries, per path
  \* --- history
  lastReply,     \* per path: the last answer that was looked at
  requested,     \* per path: tokens the reviver asked to forget or deliver
  handled,       \* per path: how often handleMessages ran
  broken         \* paths where a fetch, a timer or a connection was lost

reviver == <<timers, messageTokens, retries>>
history == <<lastReply, requested, handled, broken>>
vars == <<conn, stored, arrived, db, delivered, bus, replies, reviver, history>>

Error == [failed |-> TRUE]
Answers == [tokens : SUBSET Tokens] \cup {Error}

Get == [op |-> "get", tokens |-> {}]
Ops == {"get", "expunge", "deliver"}

Outcome(call) == IF call \in MayFail THEN BOOLEAN ELSE {TRUE}

Gets(c) == Cardinality({i \in DOMAIN bus[c] : bus[c][i].op = "get"})

\* the checks of a connection: open fetches and running timers
Checks(c) == Gets(c) + Len(replies[c]) + timers[c]

-----------------------------------------------------------------------------
(* checkConnection                                                         *)

\* isConnectionHandled
IsConnectionHandled(c) == Checks(c) > 0

\* mutant: one retry more than MAX_RETRIES
MayRetryOnceMore(p) == retries[p] <= MAX_RETRIES

MayRetry(p) == retries[p] < MAX_RETRIES

\* mutant: the retries are not counted
Uncounted(p) == retries

Counted(p) == [retries EXCEPT ![p] = @ + 1]

\* checkConnection of a valid connection that offers StoredMessages; its
\* fetchMessages sends Get
CheckConnection(c) ==
  IF ~IsConnectionHandled(c) /\ MayRetry(Path[c])
  THEN /\ bus' = [bus EXCEPT ![c] = Append(@, Get)]
       /\ retries' = Counted(Path[c])
  ELSE UNCHANGED <<bus, retries>>

\* ConnectionUtils announces a new connection; another one of its path is gone
ConnectionReady(c) ==
  /\ conn[c] = "none"
  /\ \A d \in Conns : Path[d] = Path[c] => conn[d] # "valid"
  /\ conn' = [conn EXCEPT ![c] = "valid"]
  /\ CheckConnection(c)
  /\ UNCHANGED <<stored, arrived, db, delivered, replies, timers, messageTokens,
                 history>>

\* a text listener gives up saving messages
SavingFailed(c) ==
  /\ conn[c] = "valid"
  /\ CheckConnection(c)
  /\ UNCHANGED <<conn, stored, arrived, db, delivered, replies, timers,
                 messageTokens, history>>

-----------------------------------------------------------------------------
(* Answers and timers                                                      *)

\* mutant: tokens that are no longer stored are kept
KeepInitial(initial, current) == IF initial = {} THEN current ELSE initial

\* the tokens that were there before and still are; all when there were none
StillStored(initial, current) ==
  IF initial = {} THEN current ELSE initial \cap current

\* mutant: the first answer is acted on at once
ActAtOnce(initial, current) == current # {} /\ initial \subseteq current

\* the same tokens as before are stored
Unchanged(initial, current) == initial # {} /\ initial \subseteq current

\* mutant: what is not in the database is forgotten
BuryAll(tokens) == tokens

\* handleMessages: the tokens getEventByMessageToken finds
ToBury(tokens) == tokens \cap db

\* the calls handleMessages makes, one for each list that is not empty
Requests(tokens) ==
  LET bury == ToBury(tokens)
      Call(op, S) == IF S = {} THEN <<>> ELSE <<[op |-> op, tokens |-> S]>>
  IN  Call("expunge", bury) \o Call("deliver", tokens \ bury)


\* updateTokens of a connection c that is still valid
UpdateTokens(c, current) ==
  LET p       == Path[c]
      initial == messageTokens[p]
      still   == StillStored(initial, current)
  IN  /\ lastReply' = [lastReply EXCEPT ![p] = current]
      /\ IF Unchanged(initial, current)
         THEN /\ bus' = [bus EXCEPT ![c] = @ \o Requests(still)]
              /\ messageTokens' = [messageTokens EXCEPT ![p] = {}]
              /\ requested' = [requested EXCEPT ![p] = @ \cup still]
              /\ handled' = [handled EXCEPT ![p] = @ + 1]
              /\ UNCHANGED <<timers, broken>>
         ELSE /\ messageTokens' = [messageTokens EXCEPT ![p] = still]
              /\ \E ok \in Outcome("timer") :
                   /\ timers' = [timers EXCEPT ![c] =
                        IF still # {} /\ ok THEN @ + 1 ELSE @]
                   /\ broken' = IF ok THEN broken ELSE broken \cup {p}
              /\ UNCHANGED <<bus, requested, handled>>

\* onGetStoredMessages; tokens of a connection that is gone are dropped
OnGetStoredMessages(c) ==
  /\ replies[c] # <<>>
  /\ replies' = [replies EXCEPT ![c] = Tail(@)]
  /\ LET r == Head(replies[c])
     IN  \/ /\ r = Error
            /\ broken' = broken \cup {Path[c]}
            /\ UNCHANGED <<messageTokens, timers, bus, lastReply, requested, handled>>
         \/ /\ r # Error /\ conn[c] # "valid"
            /\ messageTokens' = [messageTokens EXCEPT ![Path[c]] = {}]
            /\ UNCHANGED <<timers, bus, history>>
         \/ /\ r # Error /\ conn[c] = "valid"
            /\ UpdateTokens(c, r.tokens)
  /\ UNCHANGED <<conn, stored, arrived, db, delivered, retries>>

\* timerEvent
TimerEvent(c) ==
  /\ timers[c] > 0
  /\ timers' = [timers EXCEPT ![c] = @ - 1]
  /\ bus' = IF conn[c] = "valid" THEN [bus EXCEPT ![c] = Append(@, Get)] ELSE bus
  /\ UNCHANGED <<conn, stored, arrived, db, delivered, replies, messageTokens,
                 retries, history>>

-----------------------------------------------------------------------------
(* The connection manager, the listeners and the network                   *)

\* the connection manager takes the oldest call of a connection
Serve(c) ==
  /\ bus[c] # <<>>
  /\ bus' = [bus EXCEPT ![c] = Tail(@)]
  /\ LET call == Head(bus[c])
         p    == Path[c]
     IN  \/ /\ call.op = "get"
            /\ \E ok \in Outcome("fetch") :
                 replies' = [replies EXCEPT ![c] =
                   Append(@, IF ok THEN [tokens |-> stored[p]] ELSE Error)]
            /\ UNCHANGED <<stored, delivered>>
         \/ /\ call.op = "expunge"
            /\ stored' = [stored EXCEPT ![p] = @ \ call.tokens]
            /\ UNCHANGED <<replies, delivered>>
         \/ /\ call.op = "deliver"
            /\ delivered' = delivered \cup (call.tokens \cap stored[p])
            /\ UNCHANGED <<replies, stored>>
  /\ UNCHANGED <<conn, arrived, db, reviver, history>>

Arrive(t, p) ==
  /\ \A q \in Paths : t \notin arrived[q]
  /\ \E c \in Conns : Path[c] = p /\ conn[c] = "valid"
  /\ arrived' = [arrived EXCEPT ![p] = @ \cup {t}]
  /\ stored' = [stored EXCEPT ![p] = @ \cup {t}]
  /\ UNCHANGED <<conn, db, delivered, bus, replies, reviver, history>>

\* a listener saves a message, and has it forgotten later
ListenerSaves(t) ==
  /\ t \notin db
  /\ \E p \in Paths : t \in stored[p]
  /\ db' = db \cup {t}
  /\ UNCHANGED <<conn, stored, arrived, delivered, bus, replies, reviver, history>>

ListenerExpunges(t, p) ==
  /\ t \in stored[p] \cap db
  /\ stored' = [stored EXCEPT ![p] = @ \ {t}]
  /\ UNCHANGED <<conn, arrived, db, delivered, bus, replies, reviver, history>>

\* open calls fail when the connection goes
ConnectionLost(c) ==
  /\ "lost" \in MayFail
  /\ conn[c] = "valid"
  /\ conn' = [conn EXCEPT ![c] = "invalid"]
  /\ bus' = [bus EXCEPT ![c] = <<>>]
  /\ replies' = [replies EXCEPT ![c] = @ \o [i \in 1 .. Gets(c) |-> Error]]
  /\ broken' = broken \cup {Path[c]}
  /\ UNCHANGED <<stored, arrived, db, delivered, reviver, lastReply, requested,
                 handled>>

Init ==
  /\ conn = [c \in Conns |-> "none"]
  /\ arrived \in [Paths -> SUBSET Tokens]
  /\ \A p, q \in Paths : p # q => arrived[p] \cap arrived[q] = {}
  /\ db \in SUBSET UNION {arrived[p] : p \in Paths}
  /\ stored = arrived
  /\ delivered = {}
  /\ bus = [c \in Conns |-> <<>>]
  /\ replies = [c \in Conns |-> <<>>]
  /\ timers = [c \in Conns |-> 0]
  /\ messageTokens = [p \in Paths |-> {}]
  /\ retries = [p \in Paths |-> 0]
  /\ lastReply = [p \in Paths |-> {}]
  /\ requested = [p \in Paths |-> {}]
  /\ handled = [p \in Paths |-> 0]
  /\ broken = {}

Next ==
  \/ \E c \in Conns : \/ ConnectionReady(c)
                      \/ SavingFailed(c)
                      \/ OnGetStoredMessages(c)
                      \/ TimerEvent(c)
                      \/ Serve(c)
                      \/ ConnectionLost(c)
  \/ \E t \in Tokens : ListenerSaves(t)
  \/ \E t \in Tokens, p \in Paths : Arrive(t, p) \/ ListenerExpunges(t, p)

Spec == Init /\ [][Next]_vars

\* connection managers answer, and the event loop delivers replies and timers
Fairness ==
  \A c \in Conns : /\ WF_vars(Serve(c))
                   /\ WF_vars(OnGetStoredMessages(c))
                   /\ WF_vars(TimerEvent(c))

FairSpec == Spec /\ Fairness

-----------------------------------------------------------------------------
(* Properties *)

\* The type invariant.
TypeOK ==
  /\ conn \in [Conns -> {"none", "valid", "invalid"}]
  /\ stored \in [Paths -> SUBSET Tokens]
  /\ arrived \in [Paths -> SUBSET Tokens]
  /\ db \subseteq Tokens /\ delivered \subseteq Tokens
  /\ bus \in [Conns -> Seq([op : Ops, tokens : SUBSET Tokens])]
  /\ replies \in [Conns -> Seq(Answers)]
  /\ timers \in [Conns -> Nat]
  /\ messageTokens \in [Paths -> SUBSET Tokens]
  /\ retries \in [Paths -> 0 .. MAX_RETRIES]
  /\ lastReply \in [Paths -> SUBSET Tokens]
  /\ requested \in [Paths -> SUBSET Tokens]
  /\ handled \in [Paths -> Nat]
  /\ broken \subseteq Paths

\* A connection is checked once at a time: a savingFailed during a check does
\* not start another (isConnectionHandled).
OneCheck == \A c \in Conns : Checks(c) <= 1

\* A message that cannot be saved is not delivered again and again: every
\* handling of a path was paid for by one of its MAX_RETRIES checks, and the
\* checks that still run are as well (m_Retries).
RedeliveryBounded ==
  \A p \in Paths :
    handled[p] + Cardinality({c \in Conns : Path[c] = p /\ Checks(c) > 0}) <= retries[p]

\* Checks are bounded, at a time and altogether, although savingFailed, timers,
\* replies and new connections of the path may come in any order.
ChecksBounded == OneCheck /\ RedeliveryBounded

\* The connection manager forgets no message that is not in the database,
\* whatever the reviver and the listeners do meanwhile (handleMessages).  This is
\* what ImplementsStore below says of a state, path by path.
NothingLost == \A p \in Paths : arrived[p] \subseteq stored[p] \cup db

\* Only tokens that two successive answers of the path contained are acted on
\* (updateTokens keeps the intersection).
ActsOnSeenTwice ==
  [][\A p \in Paths : requested'[p] \ requested[p] \subseteq lastReply[p] \cap lastReply'[p]]_vars

\* Every check ends (updateTokens starts a timer only for fewer tokens).
EveryCheckEnds == \A c \in Conns : Checks(c) > 0 ~> Checks(c) = 0

\* A message that is watched is forgotten, or delivered again, or handled by a
\* listener, unless a fetch, a timer or a connection is lost (timerEvent).
WatchedIsHandled ==
  \A p \in Paths, t \in Tokens :
    t \in messageTokens[p] ~> t \in requested[p] \/ t \notin stored[p] \/ p \in broken

\* What was begun ends, for connections and for the messages of their path.
ChecksEnd == EveryCheckEnds /\ WatchedIsHandled

-----------------------------------------------------------------------------
(* The reviver, together with the listeners, keeps what MessageStore says:  *)
(* the messages of all paths, of which those with a row are settled.        *)

Store == INSTANCE MessageStore
         WITH Msgs <- Tokens,
              arrived <- UNION {arrived[p] : p \in Paths},
              held <- UNION {stored[p] : p \in Paths},
              settled <- db

\* Whatever is asked twice, buried, delivered again or lost on the way, a message
\* is forgotten only after it was saved (handleMessages, expungeMessages).
ImplementsStore == Store!Spec
=============================================================================
