----------------------------- MODULE TextChannel -----------------------------
(***************************************************************************)
(* One TextChannelListener of commhistory-daemon: the object that watches  *)
(* a Telepathy text channel, saves every message of it to the database,    *)
(* and tells the connection manager to forget (expunge) what was saved.    *)
(*                                                                         *)
(* Around it stand, as external actions, the connection manager (the       *)
(* channel's message queue and the messages it keeps stored until they are *)
(* expunged) and libcommhistory (the database, whose commits are reported  *)
(* later through eventsCommitted).                                         *)
(*                                                                         *)
(* A message stands for its message-token, its pending id and, once added, *)
(* its event.  The local queue is a set: the code handles the whole queue  *)
(* at every call, and the order inside it only decides which event comes   *)
(* first in a batch, which is left open.                                   *)
(***************************************************************************)
EXTENDS Integers, FiniteSets, Sequences

CONSTANTS Msgs,               \* messages the channel may deliver
          Sent,               \* messages the user may send over the channel
          Kind,               \* how handleMessages classifies a message
          Target,             \* the event a report or an edit is about
          Self,               \* messages received from the own handle
          MAX_SAVE_ATTEMPTS,
          MayFail,            \* the calls that may fail in this instance
          MaxResends,         \* bound on sends of an already stored event
          MaxRestarts         \* bound on restarts of the daemon

Events == Msgs \cup Sent

Kinds == {"normal", "class0", "scrollback", "replace", "edit", "report",
          "echo", "notice", "other"}

Reports == {m \in Msgs : Kind[m] \in {"report", "echo"}}

Calls == {"add", "scroll", "modify", "resave", "conv", "getEvents", "query",
          "commit", "send"}

ASSUME ChannelAssumption ==
  /\ IsFiniteSet(Msgs) /\ IsFiniteSet(Sent)
  /\ Msgs \cap Sent = {}
  /\ Kind \in [Msgs -> Kinds]
  /\ Target \in [Msgs -> Events]
  /\ \A m \in Msgs :
       IF Kind[m] \in {"edit", "report", "echo"}
       THEN Target[m] \in Sent \/ Kind[Target[m]] = "normal"
       ELSE Target[m] = m
  /\ Self \subseteq Msgs
  /\ MAX_SAVE_ATTEMPTS \in Nat
  /\ MayFail \subseteq Calls
  /\ MaxResends \in Nat
  /\ MaxRestarts \in Nat

VARIABLES
  \* --- the connection manager
  received,       \* messages that reached the channel
  chanQueue,      \* Tp::TextChannel::messageQueue(): delivered, not yet acknowledged
  stored,         \* messages the StoredMessages interface still keeps
  connReady,      \* m_Connection is ready and offers StoredMessages
  proxies,        \* which of the account and channel proxies are still valid
  \* --- libcommhistory
  sent,           \* messages of Sent handed over to slotMessageSent
  resends,
  db,             \* events with a committed row
  applied,        \* messages whose content reached the database
  inflight,       \* batches submitted and not yet committed
  signals,        \* eventsCommitted, queued for the listener
  \* --- the listener
  phase,          \* "preparing", "waiting", "listening", "dead" or "closed"
  context,        \* m_InvocationContext: "open", "finished" or "error"
  channelClosed,  \* m_channelClosed
  pendingIds,     \* m_pendingMessageIds, for this channel's path
  msgQueue,       \* m_messageQueue
  eventTokens,    \* m_EventTokens: per event, oldest first
  expungeTokens,  \* m_expungeTokens
  expungeTimer,   \* a single shot slotExpungeMessages is pending
  failedSaves,    \* m_failedSaveEvents
  resaveTimers,   \* single shots of slotSaveFailedEvents pending
  failedCount,    \* m_FailedSaveCount, up to MAX_SAVE_ATTEMPTS
  replaceQ,       \* m_replaceEvents and m_replaceMessages, always in step
  convBusy,       \* conversationModel() is fetching: isReady() is false
  convConnected,  \* slotConvEventsCommitted is connected
  dropped,        \* messages handled without saving anything
  asked,          \* savingFailed was emitted: the reviver checks the connection
  restarts

cmVars   == <<received, stored, connReady, proxies>>
libVars  == <<sent, resends, db, applied, inflight, signals>>
lifeVars == <<phase, context, channelClosed, pendingIds>>
saveVars == <<failedSaves, resaveTimers, failedCount, asked>>
convVars == <<replaceQ, convBusy, convConnected>>
expVars  == <<expungeTokens, expungeTimer>>
vars == <<cmVars, chanQueue, libVars, lifeVars, saveVars, convVars, expVars,
          msgQueue, eventTokens, dropped, restarts>>

-----------------------------------------------------------------------------
(* Helpers *)

Outcome(call) == IF call \in MayFail THEN BOOLEAN ELSE {TRUE}

OfKind(S, kinds) == {m \in S : Kind[m] \in kinds}

\* the message token an event carries: an edit whose original is unknown is
\* stored under the token of the original
TokenOf(e) == IF e \in Msgs /\ Kind[e] = "edit" THEN Target[e] ELSE e

\* event.direction() == Inbound
Inbound(e) == e \in Msgs \ Self

\* getEventForToken: the rows a query for this token can return
Rows(token) == {e \in db : TokenOf(e) = token}
Row(token)  == CHOOSE e \in Rows(token) : TRUE

\* some enumeration of a finite set
Listing(S) ==
  CHOOSE f \in [1 .. Cardinality(S) -> S] : \A x \in S : \E i \in DOMAIN f : f[i] = x

\* what one event of a batch writes: the content of msg, into the row of ev
Op(ev, msg) == [ev |-> ev, msg |-> msg]

\* a call of addEvents, modifyEventsInGroup, addEvent or modifyEvent;
\* `inbound' is the direction of the first event of the list
Batch(ops, add, inbound, conv) ==
  [ops |-> ops, add |-> add, inbound |-> inbound, conv |-> conv]

\* the token that waits in m_EventTokens for the commit of an operation: a
\* report has a token of its own, every other one is that of the event
TokenFor(op) == IF op.msg \in Reports THEN op.msg ELSE TokenOf(op.ev)

\* the same when the event is saved again: only the event is still known
ResaveToken(op) == TokenOf(op.ev)

\* `tokens' (m_EventTokens) with the token tok[op] added for every operation of ops
AddTokens(tokens, ops, tok) ==
  [e \in Events |->
     LET l == Listing({op \in ops : op.ev = e})
     IN  tokens[e] \o [i \in DOMAIN l |-> tok[l[i]]]]

\* how many tokens of event e a commit of ops takes, the oldest ones first
Taken(e, ops) ==
  LET n == Cardinality({op \in ops : op.ev = e})
  IN  IF n > Len(eventTokens[e]) THEN Len(eventTokens[e]) ELSE n

TakenTokens(ops) ==
  UNION {{eventTokens[op.ev][i] : i \in 1 .. Taken(op.ev, ops)} : op \in ops}

\* mutant: the first commit of an event takes all its tokens
LeftNothing(ops) ==
  [e \in Events |-> IF \E op \in ops : op.ev = e THEN <<>> ELSE eventTokens[e]]

LeftTokens(ops) ==
  [e \in Events |-> SubSeq(eventTokens[e], Taken(e, ops) + 1, Len(eventTokens[e]))]

\* expungeMessage starts its timer only when the list was empty
\* mutant: the test for an empty list is inverted
ArmOnLater(tokens) == expungeTokens # {} /\ tokens # {}

ArmOnFirst(tokens) == expungeTokens = {} /\ tokens # {}

\* expungeMessage, for a set of tokens: nothing when the connection is gone
ExpungeMessages(tokens) ==
  IF connReady
  THEN /\ expungeTokens' = expungeTokens \cup tokens
       /\ expungeTimer' = (expungeTimer \/ ArmOnFirst(tokens))
  ELSE UNCHANGED expVars

HasPendingOperations ==
  \/ expungeTokens # {}
  \/ \E e \in Events : eventTokens[e] # <<>>
  \/ failedSaves # {}
  \/ replaceQ # <<>>

\* tryToClose and closed(): the static ids of the path go with the listener
TryToClose(pending) ==
  IF channelClosed' /\ ~pending
  THEN phase' = "closed" /\ pendingIds' = {}
  ELSE UNCHANGED <<phase, pendingIds>>
-----------------------------------------------------------------------------
(* handleMessages *)

\* mutant: messages that were seen before are queued again
QueueAgain(cq) == msgQueue \cup cq

\* the local queue, with the messages of the channel's queue that are new
Queue(cq) == msgQueue \cup (cq \ pendingIds)

AboutEvent == {"report", "echo", "edit"}

\* the reports and edits whose event is in the database; `missed' are those
\* whose query failed
Found(q, missed) == {m \in OfKind(q, AboutEvent) \ missed : Rows(Target[m]) # {}}

\* addEvents: an edit whose original is not found is a message of its own
AddEvents(q, missed) == OfKind(q, {"normal"}) \cup (OfKind(q, {"edit"}) \ Found(q, missed))

\* what is done with and saves nothing: an alert, a notice, a report about an
\* event that is not in the database.  A report with an echo stays in the
\* queue, unless its query failed.
Drops(q, missed) ==
  OfKind(q, {"class0", "notice"})
    \cup (OfKind(q, {"report"}) \ Found(q, missed)) \cup OfKind(q \cap missed, {"echo"})

AddOps(q, missed) == {Op(m, m) : m \in AddEvents(q, missed)}

ModifyOps(q, missed) == {Op(Row(Target[m]), m) : m \in Found(q, missed)}

\* a batch, if the call succeeded; the direction of its first event is open
Submitted(ops, add, ok, inbound) ==
  IF ops # {} /\ ok THEN <<Batch(ops, add, inbound, FALSE)>> ELSE <<>>

Directions(ops) == {Inbound(op.ev) : op \in ops} \cup (IF ops = {} THEN {FALSE} ELSE {})

\* One pass over the local queue.  scrollOk, addOk and modifyOk are what the
\* calls into the event model return.  Scrollback and new events share the
\* list of messages that the success of either call marks as processed.
HandleWith(cq, missed, scrollOk, addOk, modifyOk) ==
  LET q         == Queue(cq)
      scrolls   == OfKind(q, {"scrollback"})
      adds      == AddOps(q, missed)
      modifies  == ModifyOps(q, missed)
      tokenOps  == (IF addOk THEN adds ELSE {}) \cup (IF modifyOk THEN modifies ELSE {})
      processed == Drops(q, missed) \cup (IF modifyOk THEN Found(q, missed) ELSE {})
                     \cup (IF (adds # {} /\ addOk) \/ (scrolls # {} /\ scrollOk)
                           THEN AddEvents(q, missed) \cup scrolls ELSE {})
  IN
  /\ msgQueue' = q \ processed
  /\ ExpungeMessages(Drops(q, missed))
  /\ dropped' = dropped \cup Drops(q, missed)
  /\ eventTokens' = AddTokens(eventTokens, tokenOps, [op \in tokenOps |-> TokenFor(op)])
  /\ \E a \in Directions(adds), b \in Directions(modifies) :
       inflight' = inflight \o Submitted(adds, TRUE, addOk, a)
                            \o Submitted(modifies, FALSE, modifyOk, b)

HandleMessages(cq) ==
  LET q        == Queue(cq)
      replaces == OfKind(q, {"replace"})
  IN
  /\ \E missed \in (IF "query" \in MayFail THEN SUBSET OfKind(q, AboutEvent) ELSE {{}}),
        scrollOk \in Outcome("scroll"), addOk \in Outcome("add"),
        modifyOk \in Outcome("modify") :
       HandleWith(cq, missed, scrollOk, addOk, modifyOk)
  /\ pendingIds' = pendingIds \cup cq
  /\ replaceQ' = replaceQ \o Listing(replaces)
  /\ convBusy' \in IF replaces # {} /\ ~convBusy THEN Outcome("getEvents") ELSE {convBusy}
  /\ UNCHANGED convConnected

Untouched == <<received, stored, connReady, proxies, sent, resends, db, applied,
               signals, channelClosed, saveVars, restarts>>

-----------------------------------------------------------------------------
(* The channel: readiness, messages, acknowledgements, invalidation *)

\* slotChannelReady: the channel's features are ready, or the operation ended
\* with an error; a group chat without a persistent id goes no further
SlotChannelReady ==
  /\ phase = "preparing"
  /\ \/ /\ phase' \in {"waiting", "dead"}
        /\ UNCHANGED <<context, channelClosed, pendingIds>>
     \/ /\ context' = "error"
        /\ channelClosed' = TRUE
        /\ TryToClose(HasPendingOperations)
  /\ UNCHANGED <<cmVars, chanQueue, libVars, saveVars, convVars, expVars, msgQueue,
                 eventTokens, dropped, restarts>>

\* slotOnModelReady: the group model is loaded, the backlog is handled
SlotOnModelReady ==
  /\ phase = "waiting"
  /\ phase' = "listening"
  /\ context' = IF context = "open" THEN "finished" ELSE context
  /\ HandleMessages(chanQueue)
  /\ UNCHANGED <<Untouched, chanQueue>>

SlotOnModelFailed ==
  /\ phase = "waiting"
  /\ phase' = "dead"
  /\ UNCHANGED <<cmVars, chanQueue, libVars, context, channelClosed, pendingIds, saveVars,
                 convVars, expVars, msgQueue, eventTokens, dropped, restarts>>

\* the connection manager stores a message and puts it into the channel's
\* queue; a listening listener hears messageReceived
MessageReceived(m) ==
  /\ "channel" \in proxies
  /\ m \notin received
  /\ received' = received \cup {m}
  /\ stored' = stored \cup {m}
  /\ chanQueue' = chanQueue \cup {m}
  /\ IF phase = "listening"
     THEN HandleMessages(chanQueue')
     ELSE UNCHANGED <<pendingIds, msgQueue, expVars, dropped, eventTokens, inflight, convVars>>
  /\ UNCHANGED <<connReady, proxies, sent, resends, db, applied, signals,
                 phase, context, channelClosed, saveVars, restarts>>

\* slotPendingMessageRemoved: the UI acknowledged a message
SlotPendingMessageRemoved(m) ==
  /\ "channel" \in proxies
  /\ m \in chanQueue
  /\ chanQueue' = chanQueue \ {m}
  /\ pendingIds' = pendingIds \ {m}
  /\ UNCHANGED <<cmVars, libVars, phase, context, channelClosed, saveVars, convVars,
                 expVars, msgQueue, eventTokens, dropped, restarts>>

\* slotMessageSent and saveMessage: no token is recorded for the commit
SlotMessageSent(s) ==
  /\ phase = "listening" /\ "channel" \in proxies
  /\ \/ s \notin sent /\ UNCHANGED resends
     \/ s \in db /\ resends < MaxResends /\ resends' = resends + 1
  /\ sent' = sent \cup {s}
  /\ \E ok \in Outcome("send") :
       inflight' = IF ok THEN Append(inflight, Batch({Op(s, s)}, s \notin db, FALSE, FALSE))
                         ELSE inflight
  /\ UNCHANGED <<cmVars, chanQueue, db, applied, signals, lifeVars, saveVars, convVars,
                 expVars, msgQueue, eventTokens, dropped, restarts>>

\* finishedWithError, from the invalidated signal of the account or the channel
Invalidated(p) ==
  /\ p \in proxies
  /\ proxies' = proxies \ {p}
  /\ IF phase = "closed"
     THEN UNCHANGED lifeVars
     ELSE /\ context' = IF context = "open" THEN "error" ELSE context
          /\ channelClosed' = TRUE
          /\ TryToClose(HasPendingOperations)
  /\ UNCHANGED <<received, stored, connReady, chanQueue, libVars, saveVars, convVars,
                 expVars, msgQueue, eventTokens, dropped, restarts>>

\* slotGroupDataChanged: somebody changed the group.  No message waits for that
\* (nothing is put into m_pendingGroups), but the listener may go.
SlotGroupDataChanged ==
  /\ phase = "listening"
  /\ UNCHANGED <<context, channelClosed>>
  /\ TryToClose(HasPendingOperations)
  /\ UNCHANGED <<cmVars, chanQueue, libVars, saveVars, convVars, expVars, msgQueue,
                 eventTokens, dropped, restarts>>

\* a connection that is lost never becomes ready again
ConnectionLost ==
  /\ connReady
  /\ connReady' = FALSE
  /\ UNCHANGED <<received, stored, proxies, chanQueue, libVars, lifeVars, saveVars, convVars,
                 expVars, msgQueue, eventTokens, dropped, restarts>>

-----------------------------------------------------------------------------
(* Commits, retries and expunging *)

\* libcommhistory writes the oldest batch, or fails to, and tells the model
Commit ==
  /\ inflight # <<>> /\ ~Head(inflight).conv
  /\ \E ok \in Outcome("commit") :
       LET b == Head(inflight) IN
       /\ db' = IF ok /\ b.add THEN db \cup {op.ev : op \in b.ops} ELSE db
       /\ applied' = IF ok THEN applied \cup {op.msg : op \in b.ops} ELSE applied
       /\ signals' = Append(signals, [ops |-> b.ops, inbound |-> b.inbound, ok |-> ok])
  /\ inflight' = Tail(inflight)
  /\ UNCHANGED <<cmVars, chanQueue, sent, resends, lifeVars, saveVars, convVars, expVars,
                 msgQueue, eventTokens, dropped, restarts>>

\* mutant: the tokens are released whether or not the commit succeeded
ReleasedAnyway(ops, ok) == TakenTokens(ops)

\* the tokens a commit moves to the expunge list
Released(ops, ok) == IF ok THEN TakenTokens(ops) ELSE {}

\* mutant: the direction is tested the wrong way round
RetriesSent(inbound, ok) == ~ok /\ ~inbound

\* a failed commit is tried again if its first event is inbound
NeedsRetry(inbound, ok) == ~ok /\ inbound

\* mutant: one attempt too many
MayRetryOnceMore == failedCount <= MAX_SAVE_ATTEMPTS

MayRetry == failedCount < MAX_SAVE_ATTEMPTS

\* the body of slotEventsCommitted before tryToClose; the caller keeps LeftTokens
EventsCommitted(ops, inbound, ok) ==
  /\ ExpungeMessages(Released(ops, ok))
  /\ IF ~NeedsRetry(inbound, ok)
     THEN UNCHANGED saveVars
     ELSE IF MayRetry
     THEN /\ failedCount' = failedCount + 1
          /\ failedSaves' = failedSaves \cup ops
          /\ resaveTimers' = resaveTimers + 1
          /\ UNCHANGED asked
     ELSE /\ asked' = TRUE
          /\ UNCHANGED <<failedSaves, resaveTimers, failedCount>>

SlotEventsCommitted ==
  /\ phase # "closed"
  /\ signals # <<>>
  /\ LET s == Head(signals) IN
       /\ EventsCommitted(s.ops, s.inbound, s.ok)
       /\ eventTokens' = LeftTokens(s.ops)
  /\ signals' = Tail(signals)
  /\ UNCHANGED <<channelClosed, convVars>>
  /\ TryToClose(HasPendingOperations')
  /\ UNCHANGED <<cmVars, chanQueue, sent, resends, db, applied, inflight, context,
                 msgQueue, dropped, restarts>>

\* a timer of slotSaveFailedEvents fires: everything that failed so far is
\* added again; when that call fails too the events are forgotten
SlotSaveFailedEvents ==
  /\ phase # "closed"
  /\ resaveTimers > 0
  /\ resaveTimers' = resaveTimers - 1
  /\ failedSaves' = {}
  /\ \E ok \in Outcome("resave"), inbound \in Directions(failedSaves) :
       IF ok /\ failedSaves # {}
       THEN /\ inflight' = Append(inflight, Batch(failedSaves, TRUE, inbound, FALSE))
            /\ eventTokens' = AddTokens(eventTokens, failedSaves,
                                [op \in failedSaves |-> ResaveToken(op)])
       ELSE UNCHANGED <<inflight, eventTokens>>
  /\ UNCHANGED <<cmVars, chanQueue, sent, resends, db, applied, signals, lifeVars,
                 failedCount, asked, convVars, expVars, msgQueue, dropped, restarts>>

\* the single shot timer of expungeMessage fires
SlotExpungeMessages ==
  /\ phase # "closed"
  /\ expungeTimer
  /\ expungeTimer' = FALSE
  /\ UNCHANGED <<eventTokens, failedSaves, replaceQ>>
  /\ IF expungeTokens = {} \/ ~connReady
     THEN UNCHANGED <<stored, expungeTokens, phase, channelClosed, pendingIds>>
     ELSE /\ stored' = stored \ expungeTokens
          /\ expungeTokens' = {}
          /\ UNCHANGED channelClosed
          /\ TryToClose(HasPendingOperations')
  /\ UNCHANGED <<received, connReady, proxies, chanQueue, libVars, context, resaveTimers,
                 failedCount, asked, convBusy, convConnected, msgQueue, dropped, restarts>>
-----------------------------------------------------------------------------
(* Messages that replace an earlier one of the same replace type.  They go   *)
(* through a conversation model, whose eventsCommitted is heard directly and *)
(* only while it is connected.  All messages of kind "replace" have the same *)
(* replace type.                                                             *)

\* slotConvModelReady(true), on what a caller leaves of the connection, the
\* tokens and the submitted batches
TakeReplace(connected, tokens, batches) ==
  IF replaceQ = <<>>
  THEN /\ convConnected' = connected
       /\ eventTokens' = tokens
       /\ inflight' = batches
       /\ UNCHANGED <<replaceQ, msgQueue>>
  ELSE LET ops == {Op(Head(replaceQ), Head(replaceQ))} IN
       /\ convConnected' = TRUE
       /\ replaceQ' = Tail(replaceQ)
       /\ msgQueue' = msgQueue \ {Head(replaceQ)}
       /\ \E ok \in Outcome("conv") :
            IF ok
            THEN /\ inflight' = Append(batches, Batch(ops, TRUE, Inbound(Head(replaceQ)), TRUE))
                 /\ eventTokens' = AddTokens(tokens, ops, [op \in ops |-> TokenFor(op)])
            ELSE inflight' = batches /\ eventTokens' = tokens

\* modelReady of the conversation model: the answer to getEvents
SlotConvModelReady ==
  /\ phase # "closed"
  /\ convBusy
  /\ convBusy' = FALSE
  /\ \E success \in Outcome("getEvents") :
       IF success
       THEN TakeReplace(convConnected, eventTokens, inflight)
       ELSE UNCHANGED <<convConnected, eventTokens, inflight, replaceQ, msgQueue>>
  /\ UNCHANGED <<cmVars, chanQueue, sent, resends, db, applied, signals, lifeVars, saveVars,
                 expVars, dropped, restarts>>

\* mutant: the event that was just committed is not spared
WithoutAny(evs) == db \ OfKind(db \cap Msgs, {"replace"})

\* the new event, without the others of its replace type
InPlaceOfOthers(evs) == (db \ OfKind(db \cap Msgs, {"replace"})) \cup evs

\* the conversation model commits an event; slotConvEventsCommitted runs if it
\* is connected: disconnect, delete the earlier events of the same replace
\* type, slotEventsCommitted, slotConvModelReady(true)
ConvCommit ==
  /\ inflight # <<>> /\ Head(inflight).conv
  /\ LET b     == Head(inflight)
         evs   == {op.ev : op \in b.ops}
         heard == convConnected /\ phase # "closed"
     IN
     \E ok \in Outcome("commit") :
       /\ applied' = IF ok THEN applied \cup evs ELSE applied
       /\ db' = IF ~ok THEN db
                ELSE IF heard THEN InPlaceOfOthers(evs)
                ELSE db \cup evs
       /\ IF heard
          THEN /\ EventsCommitted(b.ops, b.inbound, ok)
               /\ TakeReplace(FALSE, LeftTokens(b.ops), Tail(inflight))
               /\ UNCHANGED channelClosed
               /\ TryToClose(HasPendingOperations' \/ replaceQ # <<>>)
          ELSE /\ inflight' = Tail(inflight)
               /\ UNCHANGED <<lifeVars, saveVars, expVars, eventTokens, replaceQ,
                              convConnected, msgQueue>>
  /\ UNCHANGED <<cmVars, chanQueue, sent, resends, signals, context, convBusy, dropped,
                 restarts>>

-----------------------------------------------------------------------------
(* The daemon *)

\* the daemon dies and comes back while the channel lives on (the observer is
\* registered with recovery): what was not committed is gone, and a new listener
\* starts as its constructor leaves it
Restart ==
  /\ restarts < MaxRestarts
  /\ restarts' = restarts + 1
  /\ "channel" \in proxies /\ connReady
  /\ phase' = "preparing"
  /\ context' = "open"
  /\ channelClosed' = FALSE
  /\ pendingIds' = {}
  /\ msgQueue' = {}
  /\ eventTokens' = [e \in Events |-> <<>>]
  /\ expungeTokens' = {}
  /\ expungeTimer' = FALSE
  /\ failedSaves' = {}
  /\ resaveTimers' = 0
  /\ failedCount' = 0
  /\ replaceQ' = <<>>
  /\ convBusy' = FALSE
  /\ convConnected' = FALSE
  /\ asked' = FALSE
  /\ inflight' = <<>>
  /\ signals' = <<>>
  /\ UNCHANGED <<cmVars, chanQueue, sent, resends, db, applied, dropped>>

Init ==
  /\ received = {}
  /\ chanQueue = {}
  /\ stored = {}
  /\ connReady \in BOOLEAN
  /\ proxies = {"account", "channel"}
  /\ sent = {}
  /\ resends = 0
  /\ db = {}
  /\ applied = {}
  /\ inflight = <<>>
  /\ signals = <<>>
  /\ phase = "preparing"
  /\ context = "open"
  /\ channelClosed = FALSE
  /\ pendingIds = {}
  /\ msgQueue = {}
  /\ eventTokens = [e \in Events |-> <<>>]
  /\ expungeTokens = {}
  /\ expungeTimer = FALSE
  /\ failedSaves = {}
  /\ resaveTimers = 0
  /\ failedCount = 0
  /\ replaceQ = <<>>
  /\ convBusy = FALSE
  /\ convConnected = FALSE
  /\ asked = FALSE
  /\ dropped = {}
  /\ restarts = 0

Next ==
  \/ SlotChannelReady
  \/ SlotOnModelReady
  \/ SlotOnModelFailed
  \/ \E m \in Msgs : MessageReceived(m)
  \/ \E m \in Msgs : SlotPendingMessageRemoved(m)
  \/ \E s \in Sent : SlotMessageSent(s)
  \/ \E p \in {"account", "channel"} : Invalidated(p)
  \/ ConnectionLost
  \/ SlotGroupDataChanged
  \/ Commit
  \/ SlotEventsCommitted
  \/ SlotSaveFailedEvents
  \/ SlotExpungeMessages
  \/ SlotConvModelReady
  \/ ConvCommit
  \/ Restart

\* the event loop runs what is queued or due, and libcommhistory answers
Fairness ==
  /\ WF_vars(Commit)
  /\ WF_vars(ConvCommit)
  /\ WF_vars(SlotEventsCommitted)
  /\ WF_vars(SlotSaveFailedEvents)
  /\ WF_vars(SlotExpungeMessages)
  /\ WF_vars(SlotConvModelReady)

Spec == Init /\ [][Next]_vars

FairSpec == Spec /\ Fairness
-----------------------------------------------------------------------------
(* Properties *)

Operations == [ev : Events, msg : Events]

Batches == [ops : SUBSET Operations, add : BOOLEAN, inbound : BOOLEAN, conv : BOOLEAN]

Signals == [ops : SUBSET Operations, inbound : BOOLEAN, ok : BOOLEAN]

\* every variable has values of its type
TypeOK ==
  /\ received \subseteq Msgs /\ chanQueue \subseteq Msgs /\ stored \subseteq Msgs
  /\ connReady \in BOOLEAN
  /\ proxies \subseteq {"account", "channel"}
  /\ sent \subseteq Sent /\ resends \in 0 .. MaxResends /\ restarts \in 0 .. MaxRestarts
  /\ db \subseteq Events /\ applied \subseteq Events
  /\ inflight \in Seq(Batches) /\ signals \in Seq(Signals)
  /\ phase \in {"preparing", "waiting", "listening", "dead", "closed"}
  /\ context \in {"open", "finished", "error"}
  /\ channelClosed \in BOOLEAN
  /\ pendingIds \subseteq Msgs /\ msgQueue \subseteq Msgs /\ dropped \subseteq Msgs
  /\ eventTokens \in [Events -> Seq(Events)]
  /\ expungeTokens \subseteq Events
  /\ expungeTimer \in BOOLEAN
  /\ failedSaves \subseteq Operations
  /\ resaveTimers \in Nat
  /\ failedCount \in 0 .. MAX_SAVE_ATTEMPTS
  /\ asked \in BOOLEAN
  /\ replaceQ \in Seq(Msgs)
  /\ convBusy \in BOOLEAN /\ convConnected \in BOOLEAN

ReplaceStored == OfKind(db \cap Msgs, {"replace"}) # {}

\* the event is in the database: its row, another one under its token, or the
\* later event of its replace type that took its place
Saved(e) ==
  \/ Rows(TokenOf(e)) # {}
  \/ e \in Msgs /\ Kind[e] = "replace" /\ ReplaceStored

\* A row makes keeping the message of this token pointless: its own event (or
\* the edit stored under its token), the event a report is about, or a later
\* message of the same replace type.
Covered(token) ==
  \/ token \in dropped
  \/ Rows(token) # {}
  \/ token \in Reports /\ Rows(Target[token]) # {}
  \/ token \in Msgs /\ Kind[token] = "replace" /\ ReplaceStored

\* A message is expunged, or listed for it, only when a row of the database
\* covers it or handleMessages decided not to save it: the connection manager
\* holds the only other copy, whatever fails, is retried or restarts in between.
SavedBeforeExpunged ==
  \A t \in expungeTokens \cup (received \ stored) : Covered(t)

\* A message of its own event is in one place at a time: waiting in the local
\* queue, submitted, due for another attempt, or saved.  So the retries of
\* handleMessages and of slotSaveFailedEvents never store a delivery twice.  Only
\* a restart forgets which messages were seen.
SavedOnce ==
  restarts = 0 => \A m \in OfKind(Msgs, {"normal", "edit"}) :
    LET live == {i \in DOMAIN inflight : inflight[i].add /\ Op(m, m) \in inflight[i].ops}
    IN  /\ Cardinality(live) + Cardinality({Op(m, m)} \cap failedSaves)
             + Cardinality({m} \cap db) <= 1
        /\ m \in msgQueue => live = {} /\ Op(m, m) \notin failedSaves /\ m \notin db

\* When the listener lets itself be destroyed, no message it received is still
\* on its way to the database and no commit is still to be handled: the
\* bookkeeping in m_EventTokens never runs short of what is in flight.
DrainedBeforeClose ==
  phase = "closed" =>
    \A q \in {inflight[i].ops : i \in DOMAIN inflight} \cup
             {signals[i].ops : i \in DOMAIN signals} :
      \A op \in q : op.ev \notin Msgs

\* "flag to destroy listener as soon as all pending operations (updating
\* events, expunging) complete" (textchannellistener.h:213)
ClosesWhenIdle == channelClosed /\ ~HasPendingOperations => phase = "closed"

\* "added events but not committed yet, delivery report will not be handled
\* unitl the event committed" (textchannellistener.h:217-218)
ReportWaitsForCommit ==
  [][\A m \in Reports \cap (dropped' \ dropped) :
       \A i \in DOMAIN inflight : \A op \in inflight[i].ops : op.ev # Target[m]]_vars

\* "stored here until events are committed than if OK they are moved to
\* m_expungeTokens for actual expunging" (textchannellistener.h:187-190): the
\* token of a report is expunged once the update it asked for is committed
ReportCommittedBeforeExpunged ==
  \A t \in expungeTokens \cap Reports : t \in applied \cup dropped

\* "Model should inform us when event that we add is committed into the
\* database." (textchannellistener.cpp:800)
ConvCommitHeard ==
  phase # "closed" /\ (\E i \in DOMAIN inflight : inflight[i].conv) => convConnected

\* Once the channel is gone the listener goes too, after its commits, retries
\* and expunges: nothing waits for an event that cannot come.  A connection
\* that is lost keeps the tokens listed for expunging for ever.
EventuallyClosed == channelClosed ~> (phase = "closed" \/ ~connReady)

\* A message that entered the local queue is stored in the end, or the reviver
\* is asked to have it delivered again.
SavedOrReviverAsked ==
  \A m \in OfKind(Msgs, {"normal"}) :
    m \in pendingIds ~> (m \in applied \/ asked \/ phase = "closed")
\* To the connection manager the listener is a store of messages: what it was
\* told or has saved once stays so, however rows replace each other, and only
\* then is it forgotten.
Store == INSTANCE MessageStore
           WITH arrived <- received, held <- stored, settled <- {m \in Msgs : Covered(m)}

ImplementsStore == Store!Spec

-----------------------------------------------------------------------------
(* Why SavedBeforeExpunged holds: the invariant that is preserved by every    *)
(* step of the listener.                                                     *)

\* the tokens that wait for the commit of an event are its own or those of
\* reports about it
TokenMatch(e, t) == t = TokenOf(e) \/ (t \in Reports /\ Target[t] = TokenOf(e))

TokensMatch ==
  \A e \in Events : \A i \in 1 .. Len(eventTokens[e]) : TokenMatch(e, eventTokens[e][i])

\* a row is modified, and a commit reported, only for events that are stored
ModifiesSaved ==
  \A i \in 1 .. Len(inflight) :
    ~inflight[i].add => \A op \in inflight[i].ops : Saved(op.ev)

ReportedSaved ==
  \A i \in 1 .. Len(signals) :
    signals[i].ok => \A op \in signals[i].ops : Saved(op.ev)

\* only replacing messages go through the conversation model
ReplacesOnly ==
  /\ \A i \in 1 .. Len(replaceQ) : Kind[replaceQ[i]] = "replace"
  /\ \A i \in 1 .. Len(inflight) :
       inflight[i].conv =>
         inflight[i].add /\ \E m \in OfKind(Msgs, {"replace"}) : inflight[i].ops = {Op(m, m)}

\* Together these four facts and the types keep SavedBeforeExpunged true: what a
\* commit releases for expunging is always the token of an event that is stored.
Bookkeeping ==
  TokensMatch /\ ModifiesSaved /\ ReportedSaved /\ ReplacesOnly /\ SavedBeforeExpunged

=============================================================================
