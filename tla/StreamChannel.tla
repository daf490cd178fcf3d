---------------------------- MODULE StreamChannel ----------------------------
(***************************************************************************)
(* One StreamChannelListener: the object that follows a call and keeps one *)
(* row of it in the database, from the first save to the last one, which   *)
(* is made when the channel or the account is gone.                        *)
(*                                                                         *)
(* External are the channel (who is in the call, its streams), the clock,  *)
(* and libcommhistory, which commits the saves one after the other and     *)
(* tells the listener about each of them.                                  *)
(***************************************************************************)
EXTENDS Integers, Sequences

CONSTANTS Directions,   \* the directions of calls in this instance
          MayFail,      \* the calls that may fail in this instance
          MaxTime,      \* bound on the clock, in units of SAVING_INTERVAL
          MaxVideo      \* bound on changes of the video stream

Members == {"self", "peer"}
Proxies == {"account", "channel"}
Calls   == {"add", "modify", "commit", "ready"}

ASSUME CallAssumption ==
  /\ Directions \subseteq {"in", "out"}
  /\ MayFail \subseteq Calls
  /\ MaxTime \in Nat
  /\ MaxVideo \in Nat

VARIABLES
  \* --- the channel, the clock and libcommhistory
  now,
  group,        \* per member: "pending", "in" or "out" of groupContacts()
  videoChanges,
  row,          \* the committed row of the call, or NoRow
  inflight,     \* saves submitted and not yet committed, oldest first
  \* --- the listener
  direction,    \* m_Direction
  ready,        \* "pending", "ready" or "failed"
  started,      \* m_CallStarted
  ended,        \* m_CallEnded
  ev,           \* m_Event
  added,        \* m_EventAdded
  committed,    \* m_eventCommitted
  timer,        \* when m_LoggingTimerId fires next, or NoTimer
  proxy,        \* m_pProxy is set
  invalid,      \* the proxies whose invalidation reached the listener
  notified,     \* a missed call was handed to the NotificationManager
  refused,      \* the last addEvent or modifyEvent failed
  closed        \* channelClosed was emitted, the listener is being deleted

outside == <<group, videoChanges, row>>
call    == <<started, ended, ev>>
saving  == <<added, committed, inflight, refused>>
ending  == <<proxy, invalid, notified, closed>>
vars == <<now, outside, direction, ready, call, saving, timer, ending>>

NoRow   == [none |-> TRUE]
NoTimer == 0

Outcome(c) == IF c \in MayFail THEN BOOLEAN ELSE {TRUE}

Save(e, add) == [ev |-> e, add |-> add]

Up(S) == {m \in Members : group[m] \in S}

-----------------------------------------------------------------------------
(* The listener's own functions.  Each is a relation between the values    *)
(* before and after: `e' is the event as the caller has changed it.        *)

\* addEvent with result ok: it modifies an event that was added before
AddEvent(e, ok) ==
  /\ ok \in Outcome(IF added THEN "modify" ELSE "add")
  /\ inflight' = IF ok THEN Append(inflight, Save(e, ~added)) ELSE inflight
  /\ added' = (added \/ ok)
  /\ committed' = (committed /\ ~added)
  /\ refused' = ~ok

\* mutant: the timer is started for two intervals
TwoIntervals == now + 2

OneInterval == now + 1

\* callStarted
CallStarted ==
  IF ~started
  THEN LET e == [ev EXCEPT !.start = now, !.end = now]
       IN  \E ok \in BOOLEAN :
             /\ started' = TRUE
             /\ ended' = FALSE
             /\ ev' = e
             /\ AddEvent(e, ok)
             /\ timer' = IF ok THEN OneInterval ELSE timer
  ELSE UNCHANGED <<call, saving, timer>>

TimerAfterEnd == NoTimer

\* callEnded
CallEnded ==
  /\ ended' = TRUE
  /\ ev' = [ev EXCEPT !.end = now]
  /\ timer' = TimerAfterEnd
  /\ UNCHANGED <<started, saving>>

Alive == ~closed

\* the signals of the channel are connected once it is ready, and stop with it
Hears == Alive /\ ready = "ready" /\ "channel" \notin invalid

-----------------------------------------------------------------------------
(* Members, streams and the service point                                  *)

\* slotGroupMembersChanged: somebody joins; `sending' is the state of the
\* first audio stream
MemberJoins(m, sending) ==
  /\ Hears
  /\ group[m] = "pending"
  /\ group' = [group EXCEPT ![m] = "in"]
  /\ IF Up({"in"}) \cup {m} = Members /\ sending
     THEN CallStarted
     ELSE UNCHANGED <<call, saving, timer>>
  /\ UNCHANGED <<now, videoChanges, row, direction, ready, ending>>

\* a call that nobody answered counts as missed: unless the own user declined
Missed(m, actor, noAnswer) ==
  /\ direction = "in"
  /\ \/ actor # "self"
     \/ noAnswer /\ m = "self"

\* slotGroupMembersChanged: somebody leaves
MemberLeaves(m, actor, noAnswer) ==
  /\ Hears
  /\ group[m] # "out"
  /\ group' = [group EXCEPT ![m] = "out"]
  /\ LET alone == Up({"in"}) \ {m} # Members IN
       \/ /\ ~started /\ alone
          /\ ev' = [ev EXCEPT !.missed = @ \/ Missed(m, actor, noAnswer)]
          /\ ended' = FALSE
          /\ UNCHANGED <<started, saving, timer>>
       \/ started /\ ~ended /\ alone /\ CallEnded
       \/ (~alone \/ (started /\ ended)) /\ UNCHANGED <<call, saving, timer>>
  /\ UNCHANGED <<now, videoChanges, row, direction, ready, ending>>

\* slotStreamStateChanged: the audio stream is connected
AudioConnected ==
  /\ Hears
  /\ IF Up({"in"}) = Members THEN CallStarted ELSE UNCHANGED <<call, saving, timer>>
  /\ UNCHANGED <<now, outside, direction, ready, ending>>

\* slotStreamStateChanged: the video stream is connected or disconnected
VideoChanged(connected) ==
  /\ Hears
  /\ videoChanges < MaxVideo
  /\ videoChanges' = videoChanges + 1
  /\ IF ev.video # connected /\ (connected \/ ~ended)
     THEN /\ ev' = [ev EXCEPT !.video = connected]
          /\ IF added THEN \E ok \in BOOLEAN : AddEvent(ev', ok)
                      ELSE UNCHANGED saving
     ELSE UNCHANGED <<ev, saving>>
  /\ UNCHANGED <<now, group, row, direction, ready, started, ended, timer, ending>>

\* slotServicePointChanged, which channelReady connects for ordinary calls
ServicePointChanged ==
  /\ Hears
  /\ ~ev.emergency
  /\ ev' = [ev EXCEPT !.emergency = TRUE]
  /\ UNCHANGED <<now, outside, direction, ready, started, ended, saving, timer, ending>>

\* slotChannelReady: finishedWithError closes at once when it failed, as it
\* does for a channel that is gone by then
ChannelReady ==
  /\ Alive
  /\ ready = "pending"
  /\ \E ok \in IF "channel" \in invalid THEN {FALSE} ELSE Outcome("ready"),
        emergency \in BOOLEAN :
       /\ ready' = IF ok THEN "ready" ELSE "failed"
       /\ closed' = ~ok
       /\ ev' = [ev EXCEPT !.emergency = @ \/ (ok /\ emergency)]
  /\ UNCHANGED <<now, outside, direction, started, ended, saving, timer,
                 proxy, invalid, notified>>

-----------------------------------------------------------------------------
(* The end of the call, the saving timer and the commits                   *)

\* mutant: a call that breaks off ends when it began
EndsAtStart == IF ended THEN ev.end ELSE ev.start

\* the end of a call that is still running is now, one that never began has none
EndTime ==
  IF ended THEN ev.end ELSE IF started THEN now ELSE ev.start

\* mutant: a call that broke off counts as missed too
MissedAnyCall == TRUE

\* m_CallStarted is not set: nobody answered
Unanswered == ~started

\* a missed call is announced once it is submitted
Notifies(e, ok) == ok /\ e.missed

\* mutant: the listener does not wait for the final save
NoWait == FALSE

\* the last save is not committed yet, as addEvent leaves m_eventCommitted
MustWait == ~committed'

\* invalidated: the proxy p is gone, with an error that may be Error.Cancelled
Invalidated(p, cancelled) ==
  /\ Alive
  /\ p \notin invalid
  /\ invalid' = invalid \cup {p}
  /\ LET e == [ev EXCEPT
                 !.end = EndTime,
                 !.missed = @ \/ (direction = "in" /\ Unanswered /\ ~cancelled)]
     IN  /\ ev' = e
         /\ \E ok \in BOOLEAN :
              /\ AddEvent(e, ok)
              /\ notified' = (notified \/ Notifies(e, ok))
  /\ closed' = ~MustWait
  /\ proxy' = (proxy \/ MustWait)
  /\ UNCHANGED <<now, outside, direction, ready, started, ended, timer>>

\* timerEvent
TimerEvent ==
  /\ Alive
  /\ timer # NoTimer /\ now >= timer
  /\ timer' = OneInterval
  /\ IF added
     THEN /\ ev' = [ev EXCEPT !.end = now]
          /\ committed' = FALSE
          /\ \E ok \in Outcome("modify") :
               /\ inflight' = IF ok THEN Append(inflight, Save(ev', FALSE)) ELSE inflight
               /\ refused' = ~ok
     ELSE UNCHANGED <<ev, committed, inflight, refused>>
  /\ UNCHANGED <<now, outside, direction, ready, started, ended, added, ending>>

\* mutant: a commit is noted, but the listener does not close
NeverQuits == FALSE

QuitsNow == proxy

\* slotEventsCommitted, for the oldest save; the listener does not ask which
\* events were committed, nor whether they were
EventsCommitted ==
  /\ inflight # <<>>
  /\ inflight' = Tail(inflight)
  /\ \E ok \in Outcome("commit") : row' = IF ok THEN Head(inflight).ev ELSE row
  /\ closed' = (closed \/ QuitsNow)
  /\ committed' = (committed \/ (Alive /\ ~QuitsNow))
  /\ UNCHANGED <<now, group, videoChanges, direction, ready, call, added, refused, timer,
                 proxy, invalid, notified>>

Tick ==
  /\ now < MaxTime
  /\ now' = now + 1
  /\ UNCHANGED <<outside, direction, ready, call, saving, timer, ending>>

Init ==
  /\ now = 0
  /\ direction \in Directions
  /\ group = IF direction = "in" THEN [self |-> "pending", peer |-> "in"]
                                 ELSE [self |-> "in", peer |-> "pending"]
  /\ videoChanges = 0
  /\ row = NoRow
  /\ ready = "pending"
  /\ started = FALSE
  /\ ended = FALSE
  /\ ev \in [start : {0}, end : {0}, missed : {FALSE},
             video : BOOLEAN, emergency : BOOLEAN]
  /\ added \in IF direction = "out" THEN Outcome("add") ELSE {FALSE}
  /\ inflight = IF added THEN <<Save(ev, TRUE)>> ELSE <<>>
  /\ committed = FALSE
  /\ refused = (direction = "out" /\ ~added)
  /\ timer = NoTimer
  /\ proxy = FALSE
  /\ invalid = {}
  /\ notified = FALSE
  /\ closed = FALSE

Next ==
  \/ \E m \in Members, sending \in BOOLEAN : MemberJoins(m, sending)
  \/ \E m, actor \in Members, noAnswer \in BOOLEAN : MemberLeaves(m, actor, noAnswer)
  \/ AudioConnected
  \/ \E connected \in BOOLEAN : VideoChanged(connected)
  \/ ServicePointChanged
  \/ ChannelReady
  \/ \E p \in Proxies, cancelled \in BOOLEAN : Invalidated(p, cancelled)
  \/ TimerEvent
  \/ EventsCommitted
  \/ Tick

Spec == Init /\ [][Next]_vars

\* libcommhistory answers every save in the end
FairSpec == Spec /\ WF_vars(EventsCommitted)

-----------------------------------------------------------------------------
(* Properties *)

Times    == 0 .. MaxTime
CallEvent == [start : Times, end : Times, missed : BOOLEAN,
              video : BOOLEAN, emergency : BOOLEAN]

\* The type invariant.
TypeOK ==
  /\ now \in Times
  /\ group \in [Members -> {"pending", "in", "out"}]
  /\ videoChanges \in 0 .. MaxVideo
  /\ row \in CallEvent \cup {NoRow}
  /\ inflight \in Seq([ev : CallEvent, add : BOOLEAN])
  /\ direction \in {"in", "out"}
  /\ ready \in {"pending", "ready", "failed"}
  /\ ev \in CallEvent
  /\ started \in BOOLEAN /\ ended \in BOOLEAN
  /\ added \in BOOLEAN /\ committed \in BOOLEAN /\ refused \in BOOLEAN
  /\ timer \in 0 .. now + 1
  /\ proxy \in BOOLEAN /\ invalid \subseteq Proxies
  /\ notified \in BOOLEAN /\ closed \in BOOLEAN

\* A call has one row: only the oldest save in flight can be an addition, and
\* then there is no row yet; nothing is submitted before something was added
\* (addEvent, m_EventAdded).
OneRow ==
  /\ \A i \in DOMAIN inflight : inflight[i].add => i = 1 /\ row = NoRow
  /\ (inflight # <<>> \/ row # NoRow) => added

\* A listener whose channel could be prepared goes only after the call is in
\* the database (invalidated and slotEventsCommitted, m_eventCommitted).
SavedBeforeClosed == closed /\ ready # "failed" => row # NoRow

\* When the channel is gone and all commits are in, the row is the last state
\* of the call the listener knew, unless saving it failed (invalidated saves it).
LastStateSaved ==
  closed /\ "channel" \in invalid /\ inflight = <<>> /\ ~refused => row = ev

\* The row of a call: it is one, it is there before its listener goes, and it
\* ends as the call did, through refused saves and proxies that go in any order.
RowIsKept == OneRow /\ SavedBeforeClosed /\ LastStateSaved

\* What is stored, shown and notified of the outcome of a call agrees: it is not
\* both missed and answered as long as its account is there, one that nobody
\* answered has no duration, and a missed call the user was told about is in the
\* database, or on its way, as a missed one (slotGroupMembersChanged, invalidated).
OutcomeAgrees ==
  /\ ev.missed /\ started => "account" \in invalid
  /\ ~started => ev.start = ev.end /\ (row # NoRow => row.start = row.end)
  /\ notified => \/ row # NoRow /\ row.missed
                 \/ \E i \in DOMAIN inflight : inflight[i].ev.missed

\* Nothing moves the end of a call once it has ended: no saving timer, no
\* second start, no invalidation (callEnded kills the timer).  ImplementsRecord
\* below says it too, of the call record.
EndIsFinal == [][ended => ended' /\ ev'.end = ev.end]_vars

\* A listener whose account or channel is gone closes (slotEventsCommitted
\* closes what invalidated had to leave open), unless the final save failed:
\* then no commit may follow.
EventuallyClosed == invalid # {} ~> closed \/ refused

\* "don't quit and destroy the event model before the final call event has
\* been saved" (streamchannellistener.cpp:330): no save is in flight when the
\* listener goes.
FinalSaveBeforeQuit == closed /\ ready # "failed" => inflight = <<>>

-----------------------------------------------------------------------------
(* The listener keeps what CallRecord says of its row                       *)

Record == INSTANCE CallRecord
          WITH CallEvents <- CallEvent,
               known <- ev, record <- row, over <- ended, told <- notified

\* The row of a call only goes forward, to what the listener knew when it was
\* saved, and its end is final, through late, refused and failing saves of timers,
\* streams and ends that come in any order (addEvent, callEnded, timerEvent,
\* invalidated, slotEventsCommitted).
ImplementsRecord == Record!Spec
=============================================================================
