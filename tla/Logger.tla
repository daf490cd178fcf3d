------------------------------- MODULE Logger -------------------------------
(***************************************************************************)
(* The Logger, the observer it registers, and the listeners it makes: one  *)
(* for each channel, as long as no channel of the same path is watched.    *)
(*                                                                         *)
(* A channel that is closed with messages nobody has acknowledged comes    *)
(* back as a new object with the same path, and brings them again.  The    *)
(* listener of the old object may still be there, waiting for commits, and *)
(* both share m_pendingMessageIds, which tells what was taken by either.   *)
(* A listener is reduced here to what they share: TextChannel has the rest.*)
(***************************************************************************)
EXTENDS Integers, FiniteSets

CONSTANTS Channels,    \* channel objects
          Path,        \* their object path
          Media,       \* those of a type other than text that has a listener
          Unknown,     \* those of a type that has none
          Msgs,
          MsgPath,     \* the path of the channel a message comes over
          MayFail

ASSUME LoggerAssumption ==
  /\ IsFiniteSet(Channels) /\ IsFiniteSet(Msgs)
  /\ Media \subseteq Channels /\ Unknown \subseteq Channels \ Media
  /\ Channels \subseteq DOMAIN Path /\ DOMAIN MsgPath = Msgs
  /\ \A c \in Unknown, d \in Channels : Path[c] = Path[d] => c = d

VARIABLES
  \* --- telepathy
  channel,     \* per object: "none", "open", or "closed"
  queue,       \* per object: messageQueue(), that of a closed one is left as it was
  unacked,     \* messages that came and were not acknowledged
  account,     \* the proxy of the account is valid
  arrived,
  \* --- the Logger
  watched,     \* m_Channels
  told,        \* objects whose `invalidated' is not, or no longer, connected
  context,     \* per object: the call of observeChannels: "none", "open", "finished", "error"
  \* --- the listeners
  listener,    \* per object: "none", "preparing", "listening", "closing", "closed"
  taken,       \* per listener: messages it has not settled yet
  pendingIds,  \* m_pendingMessageIds
  \* --- the database, and history
  rows,        \* per message: events stored
  forgotten    \* messages whose id closed() took from m_pendingMessageIds before they
               \* were acknowledged

vars == <<channel, queue, unacked, account, arrived, watched, told, context, listener, taken,
          pendingIds, rows, forgotten>>

On(p) == {m \in Msgs : MsgPath[m] = p}

-----------------------------------------------------------------------------
(* The listeners *)

\* mutant: what was taken before is taken again
AllOf(c) == queue'[c]

\* what handleMessages takes: a message no listener of the path has taken
NewTo(c) == queue'[c] \ pendingIds

\* handleMessages
HandleMessages(c, left) ==
  /\ taken' = [taken EXCEPT ![c] = left \cup NewTo(c)]
  /\ pendingIds' = pendingIds \cup NewTo(c)

\* closed() of text listeners forgets the ids of their path
Forget(S) ==
  LET of == UNION {On(Path[c]) : c \in S \ Media}
  IN  /\ pendingIds' = pendingIds \ of
      /\ forgotten' = forgotten \cup (of \cap unacked \cap pendingIds)

\* mutant: a listener goes with messages it has taken
AtOnce(S) == S

Drained(S) == {c \in S : taken[c] = {}}

\* tryToClose, closed(), and Logger::channelClosed, which deletes the listener
Close(S) ==
  LET gone == Drained(S)
  IN  /\ Forget(gone)
      /\ listener' = [c \in Channels |-> IF c \in gone THEN "closed"
                                         ELSE IF c \in S THEN "closing" ELSE listener[c]]

Alive == {c \in Channels : listener[c] \in {"preparing", "listening", "closing"}}

\* finishedWithError of the listeners S: a context that is open fails
FinishedWithError(S) ==
  /\ Close(S)
  /\ context' = [c \in Channels |-> IF c \in S /\ context[c] = "open" THEN "error"
                                    ELSE context[c]]

\* connected to the signals of its channel
Hears(c) == listener[c] \in {"listening", "closing"}

-----------------------------------------------------------------------------
(* Telepathy: channels and their messages *)

Opens(c) ==
  /\ channel[c] = "none"
  /\ \A d \in Channels : Path[d] = Path[c] => channel[d] # "open"
  /\ channel' = [channel EXCEPT ![c] = "open"]
  /\ queue' = [queue EXCEPT ![c] = unacked \cap On(Path[c])]
  /\ UNCHANGED <<unacked, account, arrived, watched, told, context, listener, taken,
                 pendingIds, rows, forgotten>>

\* the objects learn of it in a later turn of the event loop
Closes(c) ==
  /\ channel[c] = "open"
  /\ channel' = [channel EXCEPT ![c] = "closed"]
  /\ UNCHANGED <<queue, unacked, account, arrived, watched, told, context, listener, taken,
                 pendingIds, rows, forgotten>>

\* messageReceived, slotMessageReceived
Arrives(m, c) ==
  /\ m \notin arrived /\ channel[c] = "open" /\ Path[c] = MsgPath[m] /\ c \notin Media
  /\ arrived' = arrived \cup {m}
  /\ unacked' = unacked \cup {m}
  /\ queue' = [queue EXCEPT ![c] = @ \cup {m}]
  /\ IF Hears(c) THEN HandleMessages(c, taken[c])
     ELSE UNCHANGED <<taken, pendingIds>>
  /\ UNCHANGED <<channel, account, watched, told, context, listener, rows, forgotten>>

\* the user has seen the message: pendingMessageRemoved, slotPendingMessageRemoved
Acknowledged(m, c) ==
  /\ m \in unacked /\ channel[c] = "open" /\ m \in queue[c]
  /\ unacked' = unacked \ {m}
  /\ queue' = [queue EXCEPT ![c] = @ \ {m}]
  /\ pendingIds' = IF Hears(c) THEN pendingIds \ {m} ELSE pendingIds
  /\ UNCHANGED <<channel, account, arrived, watched, told, context, listener, taken, rows,
                 forgotten>>

\* the account is gone: the listeners hear of it, the Logger does not
AccountInvalidated ==
  /\ account
  /\ account' = FALSE
  /\ FinishedWithError(Alive)
  /\ UNCHANGED <<channel, queue, unacked, arrived, watched, told, taken, rows>>

-----------------------------------------------------------------------------
(* The Logger *)

\* mutant: the path is not looked up
NeverWatched(c) == FALSE

IsWatched(c) == Path[c] \in watched

\* observeChannels, createChannelListener
CreateChannelListener(c) ==
  /\ channel[c] = "open" /\ context[c] = "none" /\ account
  /\ \/ /\ IsWatched(c)
        /\ context' = [context EXCEPT ![c] = "error"]
        /\ UNCHANGED <<watched, told, listener>>
     \/ /\ ~IsWatched(c)
        /\ context' = [context EXCEPT ![c] = "open"]
        /\ told' = told \ {c}
        /\ IF c \in Unknown THEN UNCHANGED <<watched, listener>>
           ELSE /\ watched' = watched \cup {Path[c]}
                /\ listener' = [listener EXCEPT ![c] = "preparing"]
  /\ UNCHANGED <<channel, queue, unacked, account, arrived, taken, pendingIds, rows, forgotten>>

\* the `invalidated' signal of a channel: slotInvalidated, and then invalidated of
\* its listener
SlotInvalidated(c) ==
  /\ channel[c] = "closed" /\ c \notin told
  /\ told' = told \cup {c}
  /\ watched' = watched \ {Path[c]}
  /\ FinishedWithError(Alive \cap {c})
  /\ UNCHANGED <<channel, queue, unacked, account, arrived, taken, rows>>

\* the listener gets ready: channelListenerReady handles what has come so far
ListenerReady(c) ==
  /\ listener[c] = "preparing" /\ channel[c] = "open"
  /\ listener' = [listener EXCEPT ![c] = "listening"]
  /\ context' = [context EXCEPT ![c] = "finished"]
  /\ UNCHANGED queue
  /\ IF c \in Media THEN UNCHANGED <<taken, pendingIds>> ELSE HandleMessages(c, {})
  /\ UNCHANGED <<channel, unacked, account, arrived, watched, told, rows, forgotten>>

\* the channel does not get ready: the listener goes, its path stays in m_Channels
ListenerFails(c) ==
  /\ "ready" \in MayFail
  /\ listener[c] = "preparing" /\ channel[c] = "open"
  /\ FinishedWithError({c})
  /\ UNCHANGED <<channel, queue, unacked, account, arrived, watched, told, taken, rows>>

\* A message is stored and settled (slotEventsCommitted): a listener that may close
\* does.
Settles(c, m) ==
  /\ Hears(c) /\ m \in taken[c]
  /\ rows' = [rows EXCEPT ![m] = @ + 1]
  /\ taken' = [taken EXCEPT ![c] = @ \ {m}]
  /\ IF listener[c] = "closing" /\ taken[c] = {m}
     THEN /\ listener' = [listener EXCEPT ![c] = "closed"]
          /\ Forget({c})
     ELSE UNCHANGED <<listener, pendingIds, forgotten>>
  /\ UNCHANGED <<channel, queue, unacked, account, arrived, watched, told, context>>

-----------------------------------------------------------------------------

Init ==
  /\ channel = [c \in Channels |-> "none"]
  /\ queue = [c \in Channels |-> {}]
  /\ unacked = {} /\ arrived = {}
  /\ account = TRUE
  /\ watched = {} /\ told = Channels
  /\ context = [c \in Channels |-> "none"]
  /\ listener = [c \in Channels |-> "none"]
  /\ taken = [c \in Channels |-> {}]
  /\ pendingIds = {}
  /\ rows = [m \in Msgs |-> 0]
  /\ forgotten = {}

Turn(c) ==
  \/ CreateChannelListener(c) \/ SlotInvalidated(c)
  \/ ListenerReady(c) \/ ListenerFails(c)
  \/ \E m \in Msgs : Settles(c, m)

Next ==
  \/ \E c \in Channels :
       \/ Opens(c) \/ Closes(c) \/ Turn(c)
       \/ \E m \in Msgs : Arrives(m, c) \/ Acknowledged(m, c)
  \/ AccountInvalidated

\* The event loop comes to every call, signal and commit.
Spec == Init /\ [][Next]_vars /\ \A c \in Channels : WF_vars(Turn(c))

-----------------------------------------------------------------------------
(* Properties *)

TypeOK ==
  /\ channel \in [Channels -> {"none", "open", "closed"}]
  /\ queue \in [Channels -> SUBSET arrived] /\ arrived \subseteq Msgs
  /\ unacked \subseteq arrived /\ account \in BOOLEAN
  /\ watched \subseteq {Path[c] : c \in Channels} /\ told \subseteq Channels
  /\ context \in [Channels -> {"none", "open", "finished", "error"}]
  /\ listener \in [Channels -> {"none", "preparing", "listening", "closing", "closed"}]
  /\ taken \in [Channels -> SUBSET arrived] /\ pendingIds \subseteq arrived
  /\ rows \in [Msgs -> Nat] /\ forgotten \subseteq arrived

\* A path has one listener that hears its channel, however objects of the path
\* come, close and come back, and that listener's path is on the list.
OneListener ==
  \A c \in Channels : listener[c] \in {"preparing", "listening"} =>
    /\ Path[c] \in watched
    /\ \A d \in Channels \ {c} : Path[d] = Path[c] => listener[d] \notin {"preparing", "listening"}

ListenersAreSound == TypeOK /\ OneListener

\* A message is stored once, whatever objects of its path take it, also by the
\* listener of an object that is gone while its successor brings it again: unless
\* closed() forgot its id before the user acknowledged it.  It forgets all ids of
\* the path, also those a newer listener has taken.
StoredOnce ==
  \A m \in Msgs \ forgotten :
    rows[m] + Cardinality({c \in Channels : m \in taken[c]}) <= 1

\* What StoredOnce and OneListener rest on.  An object whose `invalidated' is
\* connected is the only one of its path, and the path is on the list.
Listened ==
  /\ \A c \in Channels \ told : c \in Unknown \/ Path[c] \in watched
  /\ \A c, d \in Channels \ told : Path[c] = Path[d] => c = d
  /\ \A c \in Channels : listener[c] \in {"preparing", "listening"} => c \notin told \cup Unknown

\* A path has one open object; its queue are messages that nobody acknowledged.
Queued ==
  /\ \A c, d \in Channels :
       channel[c] = "open" /\ channel[d] = "open" /\ Path[c] = Path[d] => c = d
  /\ \A c \in Channels : queue[c] \subseteq On(Path[c])
  /\ \A c \in Channels : channel[c] = "open" => queue[c] \subseteq unacked

\* A message whose id was not forgotten is taken by one listener, and as long as it
\* may come again its id says that it was taken.
TakenOnce ==
  /\ \A m \in Msgs \ arrived : rows[m] = 0
  /\ \A m \in Msgs \ forgotten :
       /\ rows[m] <= 1
       /\ \A c, d \in Channels : m \in taken[c] /\ m \in taken[d] => c = d
       /\ \A c \in Channels : m \in taken[c] => rows[m] = 0
       /\ \A c \in Channels :
            m \in unacked /\ (rows[m] > 0 \/ m \in taken[c]) => m \in pendingIds

\* A message in the queue of a channel that has a listener is stored, also when
\* the listener that took it is that of an earlier object of the path, and when
\* that one's channel or account went meanwhile.
QueuedIsStored ==
  \A m \in Msgs, c \in Channels : Hears(c) /\ m \in queue[c] ~> rows[m] > 0
=============================================================================
