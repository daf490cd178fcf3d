------------------------ MODULE StreamChannelProofs ------------------------
(***************************************************************************)
(* Proofs about StreamChannel, for every set of directions and of failing  *)
(* calls and every bound on the clock and on the changes of the video      *)
(* stream: type correctness, that the end of a call is final, that the     *)
(* call keeps one row, that what is stored of its outcome agrees, and that *)
(* the listener keeps what CallRecord promises.                            *)
(***************************************************************************)
EXTENDS StreamChannel, SequenceTheorems, TLAPS

-----------------------------------------------------------------------------
(* The inductive invariant *)

\* A call that has ended has started, and the saving timer runs only between.
Running ==
  /\ ended => started
  /\ timer # NoTimer => started /\ ~ended

\* A call is noted as missed when a member has left it, or with its channel or
\* its account: it cannot start any more while the account is there.
MissedIsOver ==
  ev.missed /\ "account" \notin invalid =>
    /\ ~started
    /\ "channel" \in invalid \/ \E m \in Members : group[m] = "out"

\* Nothing known of a call that has not started gives it a duration.
NoDuration ==
  ~started => /\ ev.start = ev.end
              /\ row # NoRow => row.start = row.end
              /\ \A i \in DOMAIN inflight : inflight[i].ev.start = inflight[i].ev.end

\* A call that was saved as missed is missed in all that is saved later.
MissedStays ==
  /\ \A i \in DOMAIN inflight : inflight[i].ev.missed =>
       /\ ev.missed
       /\ \A j \in DOMAIN inflight : i <= j => inflight[j].ev.missed
  /\ row # NoRow /\ row.missed =>
       ev.missed /\ \A i \in DOMAIN inflight : inflight[i].ev.missed

\* The state of the call that was submitted last.
Submitted ==
  IF inflight = <<>> THEN row ELSE inflight[Len(inflight)].ev

\* When the channel is gone, what was submitted last is what the listener knows.
LastIsSubmitted == "channel" \in invalid /\ ~refused => Submitted = ev

\* m_eventCommitted is set for an event that has a row.
CommittedHasRow == committed => row # NoRow

\* A notified missed call is on its way as one, or stored as one.
NotifiedIsSaved ==
  notified => /\ ev.missed
              /\ \/ row # NoRow /\ row.missed
                 \/ \E i \in DOMAIN inflight : inflight[i].ev.missed

\* What holds whatever commits do, and what needs them to succeed.
Inv  == TypeOK /\ Running /\ MissedIsOver /\ NoDuration /\ MissedStays /\ OneRow
IInv == Inv /\ CommittedHasRow /\ SavedBeforeClosed /\ LastIsSubmitted /\ NotifiedIsSaved

-----------------------------------------------------------------------------
(* What a step does to the saves in flight, to the row and to the event *)

\* Nothing is submitted and nothing is committed.
Keeps == UNCHANGED <<inflight, row, added>>

\* The state the event now has is submitted, as an addition if it is the first.
Submits ==
  /\ inflight' = Append(inflight, Save(ev', ~added))
  /\ row' = row /\ added'

\* The oldest save is committed, or its commit fails.
Commits ==
  /\ inflight # <<>> /\ inflight' = Tail(inflight)
  /\ row' = Head(inflight).ev \/ (row' = row /\ "commit" \in MayFail)
  /\ added' = added /\ ev' = ev /\ UNCHANGED <<started, ended, timer, group, invalid>>

\* A save that is submitted comes last, and the others stay where they are.
LEMMA AppendSave ==
  ASSUME NEW S, NEW s \in Seq(S), NEW x \in S
  PROVE  LET t == Append(s, x) IN
         /\ t \in Seq(S) /\ t # <<>>
         /\ Len(t) = Len(s) + 1 /\ Len(s) \in Nat
         /\ DOMAIN t = 1 .. Len(s) + 1 /\ DOMAIN s = 1 .. Len(s)
         /\ \A i \in DOMAIN s : t[i] = s[i]
         /\ t[Len(s) + 1] = x
<1>1. /\ Append(s, x) \in Seq(S) /\ Append(s, x) # <<>>
      /\ Len(Append(s, x)) = Len(s) + 1 /\ Len(s) \in Nat
  BY AppendProperties
<1> QED BY <1>1

\* A commit takes the first save away, and the others move up.
LEMMA TailSave ==
  ASSUME NEW S, NEW s \in Seq(S), s # <<>>
  PROVE  LET t == Tail(s) IN
         /\ t \in Seq(S) /\ Head(s) = s[1] /\ Head(s) \in S
         /\ Len(s) \in Nat /\ Len(s) >= 1 /\ Len(t) = Len(s) - 1
         /\ DOMAIN t = 1 .. Len(s) - 1 /\ DOMAIN s = 1 .. Len(s) /\ 1 \in DOMAIN s
         /\ \A i \in DOMAIN t : i + 1 \in DOMAIN s /\ t[i] = s[i + 1]
         /\ t = <<>> <=> Len(s) = 1
<1>1. Len(s) \in Nat /\ Len(s) >= 1
  BY EmptySeq
<1>2. Tail(s) \in Seq(S) /\ Len(Tail(s)) = Len(s) - 1
  BY <1>1, HeadTailProperties
<1> DEFINE t == Tail(s)
<1>3. t = <<>> <=> Len(s) = 1
  <2> HIDE DEF t
  <2>1. t \in Seq(S) /\ Len(t) = Len(s) - 1
    BY <1>2 DEF t
  <2> QED BY <1>1, <2>1, EmptySeq
<1>4. \A i \in 1 .. Len(s) - 1 : i + 1 \in 1 .. Len(s) /\ Tail(s)[i] = s[i + 1]
  BY <1>1, <1>2
<1> QED BY <1>1, <1>2, <1>3, <1>4

\* addEvent submits the event, or fails and submits nothing.
LEMMA AddEventSaves ==
  ASSUME NEW ok, TypeOK, AddEvent(ev', ok), row' = row
  PROVE  /\ \/ Submits /\ ok /\ ~refused'
            \/ Keeps /\ ~ok /\ refused'
         /\ committed' = (committed /\ ~added)
         /\ added' \in BOOLEAN /\ committed' \in BOOLEAN /\ refused' \in BOOLEAN
         /\ ok \in BOOLEAN
<1>1. ok \in BOOLEAN
  BY DEF AddEvent, Outcome
<1>2. added \in BOOLEAN /\ committed \in BOOLEAN
  BY DEF TypeOK
<1>3. CASE ok
  BY <1>1, <1>2, <1>3, Zenon DEF AddEvent, Submits
<1>4. CASE ~ok
  BY <1>1, <1>2, <1>4, Zenon DEF AddEvent, Keeps
<1> QED BY <1>3, <1>4

\* The types of everything but the saves, and what holds of the call itself.
CallTyped ==
  /\ now \in Times
  /\ group \in [Members -> {"pending", "in", "out"}]
  /\ videoChanges \in 0 .. MaxVideo
  /\ ready \in {"pending", "ready", "failed"} /\ direction \in {"in", "out"}
  /\ ev \in CallEvent
  /\ started \in BOOLEAN /\ ended \in BOOLEAN
  /\ committed \in BOOLEAN /\ refused \in BOOLEAN
  /\ timer \in 0 .. now + 1
  /\ proxy \in BOOLEAN /\ invalid \subseteq Proxies
  /\ notified \in BOOLEAN /\ closed \in BOOLEAN
  /\ Running /\ MissedIsOver

\* What every step does to the event: a missed call stays missed, a call stays
\* started, an end stays where it is, and a call that never started gets no
\* duration; once the channel is gone a change of it is submitted or refused.
EventStep ==
  /\ ev.missed => ev'.missed
  /\ started => started'
  /\ ended => ended' /\ ev'.end = ev.end
  /\ ~started' /\ ev.start = ev.end => ev'.start = ev'.end
  /\ "channel" \in invalid' /\ ~refused' =>
       \/ Submits
       \/ (Keeps \/ Commits) /\ ev' = ev /\ "channel" \in invalid /\ ~refused

\* What a step may do to the flags of the listener that goes.
FlagStep ==
  /\ committed' => committed \/ Commits
  /\ closed' => closed \/ Commits \/ ready' = "failed" \/ committed'
  /\ ready' = "failed" \/ ready' = ready \/ ~closed'
  /\ ready = "failed" => ready' = "failed"
  /\ notified' => notified \/ (Submits /\ ev'.missed)

\* Every step is one of these.
Classified == CallTyped' /\ EventStep /\ FlagStep /\ (Keeps \/ Submits \/ Commits)

LEMMA TypesSplit == Inv => CallTyped
BY DEF Inv, TypeOK, CallTyped

\* When all members are in, none has left.
LEMMA NobodyLeft ==
  ASSUME NEW x \in Members, group[x] # "out", Members \subseteq Up({"in"}) \cup {x}
  PROVE  \A m \in Members : group[m] # "out"
BY DEF Up

\* callStarted, for a channel that is heard and whose members are in the call
\* when it starts it.
LEMMA CallStartedStep ==
  ASSUME Inv, Hears, CallStarted,
         ~started => \A m \in Members : group[m] # "out",
         group' \in [Members -> {"pending", "in", "out"}],
         \A m \in Members : group[m] = "out" => group'[m] = "out",
         UNCHANGED <<now, videoChanges, row, direction, ready, ending>>
  PROVE  Classified
<1> USE CallAssumption DEF CallAssumption
<1>1. CASE ~started
  <2> DEFINE e == [ev EXCEPT !.start = now, !.end = now]
  <2>1. PICK ok \in BOOLEAN : /\ started' = TRUE /\ ended' = FALSE /\ ev' = e
                              /\ AddEvent(e, ok)
                              /\ timer' = IF ok THEN now + 1 ELSE timer
    BY <1>1 DEF CallStarted, OneInterval
  <2>2. e \in CallEvent /\ e.missed = ev.missed
    BY DEF CallEvent, Inv, TypeOK
  <2>3. AddEvent(ev', ok) /\ row' = row
    BY <2>1
  <2> HIDE DEF e
  <2>4. /\ \/ Submits /\ ok /\ ~refused'
           \/ Keeps /\ ~ok /\ refused'
        /\ committed' = (committed /\ ~added)
        /\ added' \in BOOLEAN /\ committed' \in BOOLEAN /\ refused' \in BOOLEAN
    BY <2>3, AddEventSaves DEF Inv
  <2>5. ~ev.missed \/ "account" \in invalid
    BY <1>1 DEF MissedIsOver, Inv, Hears
  <2>6. MissedIsOver' /\ Running'
    BY <2>1, <2>2, <2>5 DEF Running, MissedIsOver, ending
  <2>7. timer' \in 0 .. now' + 1
    BY <2>1 DEF Inv, TypeOK, Times
  <2>8. CallTyped'
    BY <2>1, <2>2, <2>4, <2>6, <2>7 DEF CallTyped, Inv, TypeOK, ending
  <2>9. EventStep /\ FlagStep
    BY <1>1, <2>1, <2>2, <2>4 DEF EventStep, FlagStep, Hears, ending, Inv, Running
  <2> QED BY <2>4, <2>8, <2>9 DEF Classified
<1>2. CASE started
  <2>1. UNCHANGED <<call, saving, timer>>
    BY <1>2 DEF CallStarted
  <2>2. CallTyped'
    BY <2>1 DEF CallTyped, call, saving, ending, Inv, TypeOK, Running, MissedIsOver
  <2> QED BY <2>1, <2>2 DEF Classified, EventStep, FlagStep, Keeps, call, saving, ending
<1> QED BY <1>1, <1>2

\* A step that changes neither the call nor what is saved of it.
LEMMA QuietStep ==
  ASSUME Inv, UNCHANGED <<call, saving, row, timer, ending, ready, direction>>,
         now' = now \/ now' = now + 1, now' \in Times, videoChanges' \in 0 .. MaxVideo,
         group' \in [Members -> {"pending", "in", "out"}],
         \A m \in Members : group[m] = "out" => group'[m] = "out"
  PROVE  Classified
<1>1. MissedIsOver'
  BY DEF MissedIsOver, call, ending, Inv
<1>3. /\ ev' = ev /\ started' = started /\ ended' = ended /\ committed' = committed
      /\ refused' = refused /\ proxy' = proxy /\ invalid' = invalid
      /\ notified' = notified /\ closed' = closed /\ timer' = timer
      /\ ready' = ready /\ direction' = direction
  BY DEF call, saving, ending
<1>2. timer' \in 0 .. now' + 1
  <2>1. MaxTime \in Nat /\ now \in 0 .. MaxTime /\ timer \in 0 .. now + 1
    BY CallAssumption DEF CallAssumption, Inv, TypeOK, Times
  <2> QED BY <1>3, <2>1
<1>4. Running'
  BY <1>3 DEF Inv, Running
<1>5. CallTyped'
  BY <1>1, <1>2, <1>3, <1>4 DEF CallTyped, Inv, TypeOK
<1>6. Keeps
  BY DEF Keeps, saving
<1> QED BY <1>3, <1>5, <1>6 DEF Classified, EventStep, FlagStep

\* Somebody joins.
LEMMA JoinStep ==
  ASSUME Inv, NEW m \in Members, NEW sending \in BOOLEAN, MemberJoins(m, sending)
  PROVE  Classified
<1>1. /\ Hears /\ group[m] = "pending" /\ group' = [group EXCEPT ![m] = "in"]
      /\ group \in [Members -> {"pending", "in", "out"}]
      /\ UNCHANGED <<now, videoChanges, row, direction, ready, ending>>
  BY DEF MemberJoins, Inv, TypeOK
<1>2. /\ group' \in [Members -> {"pending", "in", "out"}]
      /\ \A x \in Members : group[x] = "out" => group'[x] = "out"
  BY <1>1
<1>3. CASE Up({"in"}) \cup {m} = Members /\ sending
  <2>1. \A x \in Members : group[x] # "out"
    BY <1>1, <1>3, NobodyLeft
  <2> QED BY <1>1, <1>2, <1>3, <2>1, CallStartedStep DEF MemberJoins
<1>4. CASE ~(Up({"in"}) \cup {m} = Members /\ sending)
  BY <1>1, <1>2, <1>4, QuietStep DEF MemberJoins, Inv, TypeOK
<1> QED BY <1>3, <1>4

\* The audio stream is connected.
LEMMA AudioStep ==
  ASSUME Inv, AudioConnected
  PROVE  Classified
<1>1. /\ Hears /\ group' = group /\ group \in [Members -> {"pending", "in", "out"}]
      /\ UNCHANGED <<now, videoChanges, row, direction, ready, ending>>
  BY DEF AudioConnected, outside, Inv, TypeOK
<1>2. CASE Up({"in"}) = Members
  <2>2. \A x \in Members : group[x] # "out"
    BY <1>2 DEF Up
  <2> QED BY <1>1, <1>2, <2>2, CallStartedStep DEF AudioConnected
<1>3. CASE Up({"in"}) # Members
  BY <1>1, <1>3, QuietStep DEF AudioConnected, Inv, TypeOK
<1> QED BY <1>2, <1>3

\* Somebody leaves: the call ends, or it is missed, or nothing comes of it.
LEMMA LeaveStep ==
  ASSUME Inv, NEW m \in Members, NEW actor \in Members, NEW noAnswer \in BOOLEAN,
         MemberLeaves(m, actor, noAnswer)
  PROVE  Classified
<1> USE CallAssumption DEF CallAssumption
<1>1. /\ Hears /\ group[m] # "out" /\ group' = [group EXCEPT ![m] = "out"]
      /\ group' \in [Members -> {"pending", "in", "out"}]
      /\ group'[m] = "out" /\ \A x \in Members : group[x] = "out" => group'[x] = "out"
      /\ UNCHANGED <<now, videoChanges, row, direction, ready, ending, saving>>
  BY DEF MemberLeaves, CallEnded, Inv, TypeOK
<1>2. CASE /\ ~started /\ started' = started /\ ended' = FALSE /\ timer' = timer
           /\ ev' = [ev EXCEPT !.missed = @ \/ Missed(m, actor, noAnswer)]
  <2>1. Missed(m, actor, noAnswer) \in BOOLEAN
    BY DEF Missed
  <2>2. /\ ev' \in CallEvent /\ ev'.start = ev.start /\ ev'.end = ev.end
        /\ ev.missed => ev'.missed
    BY <1>2, <2>1 DEF CallEvent, Inv, TypeOK
  <2>3. CallTyped'
    BY <1>1, <1>2, <2>2 DEF CallTyped, saving, ending, Inv, TypeOK, Running, MissedIsOver
  <2> QED BY <1>1, <1>2, <2>2, <2>3 DEF Classified, EventStep, FlagStep, Keeps, saving, ending,
          Inv, Running, Hears
<1>3. CASE started /\ ~ended /\ CallEnded
  <2>1. /\ ev' = [ev EXCEPT !.end = now] /\ ended' = TRUE /\ started' /\ timer' = NoTimer
        /\ started' = started
    BY <1>3 DEF CallEnded, TimerAfterEnd
  <2>2. /\ ev' \in CallEvent /\ ev'.missed = ev.missed
    BY <2>1 DEF CallEvent, Inv, TypeOK
  <2>3. CallTyped'
    BY <1>1, <1>3, <2>1, <2>2 DEF CallTyped, saving, ending, Inv, TypeOK, Running, MissedIsOver,
       Times, NoTimer
  <2> QED BY <1>1, <1>3, <2>1, <2>2, <2>3 DEF Classified, EventStep, FlagStep, Keeps, saving,
          ending, Hears
<1>4. CASE UNCHANGED <<call, saving, timer>>
  BY <1>1, <1>4, QuietStep DEF Inv, TypeOK
<1> QED BY <1>2, <1>3, <1>4 DEF MemberLeaves, saving

\* The video stream is connected or disconnected.
LEMMA VideoStep ==
  ASSUME Inv, NEW connected \in BOOLEAN, VideoChanged(connected)
  PROVE  Classified
<1> USE CallAssumption DEF CallAssumption
<1>1. /\ Hears /\ videoChanges' = videoChanges + 1 /\ videoChanges < MaxVideo /\ row' = row
      /\ now' = now /\ group' = group /\ direction' = direction /\ ready' = ready
      /\ started' = started /\ ended' = ended /\ timer' = timer
      /\ proxy' = proxy /\ invalid' = invalid /\ notified' = notified /\ closed' = closed
  BY DEF VideoChanged, ending
<1>2. videoChanges' \in 0 .. MaxVideo
  BY <1>1 DEF Inv, TypeOK
<1>3. CASE ev.video # connected /\ (connected \/ ~ended)
  <2> DEFINE e == [ev EXCEPT !.video = connected]
  <2>1. ev' = e /\ (IF added THEN \E ok \in BOOLEAN : AddEvent(ev', ok) ELSE UNCHANGED saving)
    BY <1>3 DEF VideoChanged
  <2>2. /\ e \in CallEvent /\ e.missed = ev.missed
        /\ e.start = ev.start /\ e.end = ev.end
    BY DEF CallEvent, Inv, TypeOK
  <2> HIDE DEF e
  <2>3. /\ (Submits /\ ~refused') \/ (Keeps /\ (refused' \/ UNCHANGED saving))
        /\ committed' \in BOOLEAN /\ refused' \in BOOLEAN /\ (committed' => committed)
    <3>1. CASE added
      <4>1. PICK ok \in BOOLEAN : AddEvent(ev', ok)
        BY <2>1, <3>1
      <4> QED BY <1>1, <4>1, AddEventSaves DEF Inv
    <3>2. CASE ~added
      BY <1>1, <2>1, <3>2 DEF saving, Keeps, Inv, TypeOK
    <3> QED BY <3>1, <3>2
  <2>4. MissedIsOver' /\ Running'
    BY <1>1, <2>1, <2>2 DEF Running, MissedIsOver, Inv
  <2>5. CallTyped'
    BY <1>1, <1>2, <2>1, <2>2, <2>3, <2>4 DEF CallTyped, Inv, TypeOK
  <2>6. EventStep /\ FlagStep
    BY <1>1, <2>1, <2>2, <2>3 DEF EventStep, FlagStep, Hears
  <2> QED BY <2>3, <2>5, <2>6 DEF Classified
<1>4. CASE ~(ev.video # connected /\ (connected \/ ~ended))
  <2>1. UNCHANGED <<call, saving>>
    BY <1>1, <1>4 DEF VideoChanged, call
  <2> QED BY <1>1, <1>2, <2>1, QuietStep DEF Inv, TypeOK, ending
<1> QED BY <1>3, <1>4

\* The service point turns out to be one for emergencies.
LEMMA ServicePointStep ==
  ASSUME Inv, ServicePointChanged
  PROVE  Classified
<1>1. /\ ev' \in CallEvent /\ ev'.missed = ev.missed
      /\ ev'.start = ev.start /\ ev'.end = ev.end
  BY DEF ServicePointChanged, CallEvent, Inv, TypeOK
<1>2. /\ Hears /\ now' = now /\ group' = group /\ videoChanges' = videoChanges
      /\ direction' = direction /\ ready' = ready /\ started' = started /\ ended' = ended
      /\ timer' = timer /\ proxy' = proxy /\ invalid' = invalid /\ notified' = notified
      /\ closed' = closed /\ committed' = committed /\ refused' = refused
      /\ UNCHANGED <<inflight, row, added>>
  BY DEF ServicePointChanged, outside, saving, ending
<1>3. MissedIsOver' /\ Running'
  BY <1>1, <1>2 DEF Running, MissedIsOver, Inv
<1>4. CallTyped'
  BY <1>1, <1>2, <1>3 DEF CallTyped, Inv, TypeOK
<1>5. EventStep /\ FlagStep
  BY <1>1, <1>2 DEF EventStep, FlagStep, Hears
<1> QED BY <1>2, <1>4, <1>5 DEF Classified, Keeps

\* The channel is ready, or could not be prepared.
LEMMA ReadyStep ==
  ASSUME Inv, ChannelReady
  PROVE  Classified
<1>1. PICK ok \in (IF "channel" \in invalid THEN {FALSE} ELSE Outcome("ready")),
           emergency \in BOOLEAN :
         /\ ready' = IF ok THEN "ready" ELSE "failed"
         /\ closed' = ~ok
         /\ ev' = [ev EXCEPT !.emergency = @ \/ (ok /\ emergency)]
  BY DEF ChannelReady
<1>2. ok \in BOOLEAN /\ ("channel" \in invalid => ~ok)
  BY DEF Outcome
<1>3. /\ Alive /\ ready = "pending" /\ now' = now /\ group' = group /\ row' = row
      /\ videoChanges' = videoChanges /\ direction' = direction /\ started' = started
      /\ ended' = ended /\ timer' = timer /\ proxy' = proxy /\ invalid' = invalid
      /\ notified' = notified /\ committed' = committed /\ refused' = refused
      /\ inflight' = inflight /\ added' = added
  BY DEF ChannelReady, outside, saving
<1>4. /\ ev' \in CallEvent /\ ev'.missed = ev.missed
      /\ ev'.start = ev.start /\ ev'.end = ev.end
  BY <1>1, <1>2 DEF CallEvent, Inv, TypeOK
<1>5. "channel" \in invalid => ev' = ev
  BY <1>1, <1>2 DEF CallEvent, Inv, TypeOK
<1>6. MissedIsOver' /\ Running'
  BY <1>3, <1>4 DEF Running, MissedIsOver, Inv
<1>7. CallTyped'
  BY <1>1, <1>2, <1>3, <1>4, <1>6 DEF CallTyped, Inv, TypeOK
<1>8. Keeps
  BY <1>3 DEF Keeps
<1>9. EventStep /\ FlagStep
  BY <1>1, <1>2, <1>3, <1>4, <1>5, <1>8 DEF EventStep, FlagStep, Alive
<1> QED BY <1>7, <1>8, <1>9 DEF Classified

\* The channel or the account is gone: the final state is submitted.
LEMMA InvalidatedStep ==
  ASSUME Inv, NEW p \in Proxies, NEW cancelled \in BOOLEAN, Invalidated(p, cancelled)
  PROVE  Classified
<1> USE CallAssumption DEF CallAssumption
<1> DEFINE miss == direction = "in" /\ ~started /\ ~cancelled
           e == [ev EXCEPT !.end = EndTime, !.missed = @ \/ miss]
<1>1. /\ Alive /\ p \notin invalid /\ invalid' = invalid \cup {p} /\ now' = now
      /\ group' = group /\ videoChanges' = videoChanges /\ row' = row
      /\ direction' = direction /\ ready' = ready /\ started' = started /\ ended' = ended
      /\ timer' = timer /\ closed' = committed' /\ ev' = e
      /\ proxy' = (proxy \/ ~committed')
  BY DEF Invalidated, outside, Unanswered, MustWait, AddEvent, Inv, TypeOK
<1>2. PICK ok \in BOOLEAN : AddEvent(ev', ok) /\ notified' = (notified \/ (ok /\ ev'.missed))
  BY DEF Invalidated, Notifies
<1>3. /\ e \in CallEvent /\ (ev.missed => e.missed) /\ e.start = ev.start
      /\ started => e.missed = ev.missed
      /\ ended => e.end = ev.end
      /\ ~started /\ ev.start = ev.end => e.start = e.end
  BY DEF EndTime, CallEvent, Inv, TypeOK, Running
<1> HIDE DEF e
<1>4. /\ \/ Submits /\ ok /\ ~refused'
         \/ Keeps /\ ~ok /\ refused'
      /\ committed' = (committed /\ ~added)
      /\ committed' \in BOOLEAN /\ refused' \in BOOLEAN
  BY <1>1, <1>2, AddEventSaves DEF Inv
<1>5. MissedIsOver' /\ Running'
  BY <1>1, <1>3 DEF Running, MissedIsOver, Inv, Proxies
<1>6. notified' \in BOOLEAN /\ proxy' \in BOOLEAN /\ invalid' \subseteq Proxies
  BY <1>1, <1>2 DEF Inv, TypeOK
<1>7. CallTyped'
  BY <1>1, <1>3, <1>4, <1>5, <1>6 DEF CallTyped, Inv, TypeOK
<1>8. EventStep /\ FlagStep
  BY <1>1, <1>2, <1>3, <1>4 DEF EventStep, FlagStep, Alive
<1> QED BY <1>4, <1>7, <1>8 DEF Classified

\* The saving timer fires: the state so far is submitted, if one was before.
LEMMA TimerStep ==
  ASSUME Inv, TimerEvent
  PROVE  Classified
<1> USE CallAssumption DEF CallAssumption
<1>1. /\ Alive /\ timer # NoTimer /\ now >= timer /\ timer' = now + 1 /\ now' = now
      /\ group' = group /\ videoChanges' = videoChanges /\ row' = row
      /\ direction' = direction /\ ready' = ready /\ started' = started /\ ended' = ended
      /\ added' = added /\ proxy' = proxy /\ invalid' = invalid
      /\ notified' = notified /\ closed' = closed
      /\ IF added
         THEN /\ ev' = [ev EXCEPT !.end = now]
              /\ committed' = FALSE
              /\ \E ok \in Outcome("modify") :
                   /\ inflight' = IF ok THEN Append(inflight, Save(ev', FALSE)) ELSE inflight
                   /\ refused' = ~ok
         ELSE UNCHANGED <<ev, committed, inflight, refused>>
  BY DEF TimerEvent, OneInterval, outside, ending
<1>2. started /\ ~ended
  BY <1>1 DEF Inv, Running
<1>3. /\ ev' \in CallEvent /\ ev'.missed = ev.missed
      /\ committed' \in BOOLEAN /\ (committed' => committed)
  <2>1. CASE added
    <3>1. ev' = [ev EXCEPT !.end = now] /\ committed' = FALSE
      BY <1>1, <2>1
    <3> QED BY <3>1 DEF CallEvent, Inv, TypeOK
  <2>2. CASE ~added
    <3>1. ev' = ev /\ committed' = committed
      BY <1>1, <2>2
    <3> QED BY <3>1 DEF Inv, TypeOK
  <2> QED BY <2>1, <2>2
<1>4. /\ (Submits /\ ~refused') \/ (Keeps /\ (refused' \/ (ev' = ev /\ refused' = refused)))
      /\ refused' \in BOOLEAN
  <2>1. CASE added
    <3>1. PICK ok \in Outcome("modify") :
             /\ inflight' = IF ok THEN Append(inflight, Save(ev', FALSE)) ELSE inflight
             /\ refused' = ~ok
      BY <1>1, <2>1
    <3>2. ok \in BOOLEAN /\ (~added) = FALSE
      BY <2>1 DEF Outcome
    <3>3. CASE ok
      BY <1>1, <2>1, <3>1, <3>2, <3>3 DEF Submits
    <3>4. CASE ~ok
      BY <1>1, <2>1, <3>1, <3>2, <3>4 DEF Keeps
    <3> QED BY <3>2, <3>3, <3>4
  <2>2. CASE ~added
    BY <1>1, <2>2 DEF Keeps, Inv, TypeOK
  <2> QED BY <2>1, <2>2
<1>5. MissedIsOver' /\ Running'
  BY <1>1, <1>2, <1>3 DEF Running, MissedIsOver, Inv
<1>6. timer' \in 0 .. now' + 1
  BY <1>1 DEF Inv, TypeOK, Times
<1>7. CallTyped'
  BY <1>1, <1>3, <1>4, <1>5, <1>6 DEF CallTyped, Inv, TypeOK
<1>8. EventStep /\ FlagStep
  BY <1>1, <1>2, <1>3, <1>4 DEF EventStep, FlagStep, Alive
<1> QED BY <1>4, <1>7, <1>8 DEF Classified

\* libcommhistory commits the oldest save, or says that it could not.
LEMMA CommitStep ==
  ASSUME Inv, EventsCommitted
  PROVE  Classified
<1>1. /\ inflight # <<>> /\ inflight' = Tail(inflight)
      /\ closed' = (closed \/ proxy) /\ committed' = (committed \/ (~closed /\ ~proxy))
      /\ now' = now /\ group' = group /\ videoChanges' = videoChanges
      /\ direction' = direction /\ ready' = ready /\ started' = started /\ ended' = ended
      /\ ev' = ev /\ added' = added /\ refused' = refused /\ timer' = timer
      /\ proxy' = proxy /\ invalid' = invalid /\ notified' = notified
  BY DEF EventsCommitted, QuitsNow, Alive, call
<1>2. Commits
  BY <1>1 DEF EventsCommitted, Commits, Outcome
<1>3. MissedIsOver' /\ Running'
  BY <1>1 DEF Running, MissedIsOver, Inv
<1>4. CallTyped'
  BY <1>1, <1>3 DEF CallTyped, Inv, TypeOK
<1>5. EventStep /\ FlagStep
  BY <1>1, <1>2 DEF EventStep, FlagStep
<1> QED BY <1>2, <1>4, <1>5 DEF Classified

\* Every step, the ticks of the clock and the stuttering ones included, is
\* classified.
LEMMA Steps == Inv /\ [Next]_vars => Classified
<1> SUFFICES ASSUME Inv, [Next]_vars PROVE Classified
  OBVIOUS
<1>1. ASSUME NEW m \in Members, NEW sending \in BOOLEAN, MemberJoins(m, sending)
      PROVE  Classified
  BY <1>1, JoinStep
<1>2. ASSUME NEW m \in Members, NEW actor \in Members, NEW noAnswer \in BOOLEAN,
             MemberLeaves(m, actor, noAnswer)
      PROVE  Classified
  BY <1>2, LeaveStep
<1>3. ASSUME NEW connected \in BOOLEAN, VideoChanged(connected) PROVE Classified
  BY <1>3, VideoStep
<1>4. ASSUME NEW p \in Proxies, NEW cancelled \in BOOLEAN, Invalidated(p, cancelled)
      PROVE  Classified
  BY <1>4, InvalidatedStep
<1>5. CASE Tick
  <2>1. /\ UNCHANGED <<call, saving, row, timer, ending, ready, direction>>
        /\ now' = now + 1 /\ now' \in Times
        /\ videoChanges' \in 0 .. MaxVideo
        /\ group' = group /\ group' \in [Members -> {"pending", "in", "out"}]
    BY <1>5, CallAssumption DEF CallAssumption, Tick, outside, Inv, TypeOK, Times
  <2> QED BY <2>1, QuietStep
<1>6. CASE UNCHANGED vars
  <2>1. /\ UNCHANGED <<call, saving, row, timer, ending, ready, direction>>
        /\ now' = now /\ now' \in Times
        /\ videoChanges' \in 0 .. MaxVideo
        /\ group' = group /\ group' \in [Members -> {"pending", "in", "out"}]
    BY <1>6 DEF vars, outside, Inv, TypeOK
  <2> QED BY <2>1, QuietStep
<1> QED BY <1>1, <1>2, <1>3, <1>4, <1>5, <1>6, AudioStep, ServicePointStep, ReadyStep,
           TimerStep, CommitStep DEF Next

-----------------------------------------------------------------------------
(* The invariant is inductive *)

\* The saves, after a step of each kind.
LEMMA SavesTyped ==
  ASSUME Inv, Classified
  PROVE  /\ inflight' \in Seq([ev : CallEvent, add : BOOLEAN])
         /\ row' \in CallEvent \cup {NoRow} /\ added' \in BOOLEAN
         /\ (row # NoRow => row' # NoRow)
         /\ OneRow' /\ NoDuration' /\ MissedStays'
<1> DEFINE S == [ev : CallEvent, add : BOOLEAN]
<1>1. /\ inflight \in Seq(S) /\ row \in CallEvent \cup {NoRow} /\ added \in BOOLEAN
      /\ ev' \in CallEvent /\ EventStep /\ OneRow /\ NoDuration /\ MissedStays
  BY DEF Inv, TypeOK, Classified, CallTyped
<1>2. \A e \in CallEvent : e # NoRow
  BY DEF CallEvent, NoRow
<1>3. CASE Keeps
  <2>1. inflight' = inflight /\ row' = row /\ added' = added
    BY <1>3 DEF Keeps
  <2>2. OneRow'
    BY <1>1, <2>1 DEF OneRow
  <2>3. NoDuration'
    BY <1>1, <2>1 DEF NoDuration, EventStep
  <2>4. MissedStays'
    BY <1>1, <2>1 DEF MissedStays, EventStep
  <2> QED BY <1>1, <2>1, <2>2, <2>3, <2>4
<1>4. CASE Submits
  <2> DEFINE x == Save(ev', ~added)
  <2>1. inflight' = Append(inflight, x) /\ row' = row /\ added' /\ x \in S
        /\ x.ev = ev' /\ x.add = ~added
    BY <1>1, <1>4 DEF Submits, Save
  <2> HIDE DEF x, S
  <2>2. /\ inflight' \in Seq(S) /\ inflight' # <<>>
        /\ Len(inflight) \in Nat
        /\ DOMAIN inflight' = 1 .. Len(inflight) + 1 /\ DOMAIN inflight = 1 .. Len(inflight)
        /\ \A i \in DOMAIN inflight : inflight'[i] = inflight[i]
        /\ inflight'[Len(inflight) + 1] = x
    BY <1>1, <2>1, AppendSave
  <2>3. \A i \in DOMAIN inflight' : i \in DOMAIN inflight \/ inflight'[i].ev = ev'
    BY <2>1, <2>2
  <2>4. OneRow'
    <3>1. ASSUME NEW i \in DOMAIN inflight', inflight'[i].add PROVE i = 1 /\ row' = NoRow
      <4>1. CASE i \in DOMAIN inflight
        BY <1>1, <2>1, <2>2, <3>1, <4>1 DEF OneRow
      <4>2. CASE i = Len(inflight) + 1
        <5>1. ~added
          BY <2>1, <2>2, <3>1, <4>2
        <5>2. inflight = <<>> /\ row = NoRow
          BY <1>1, <5>1 DEF OneRow
        <5> QED BY <2>1, <4>2, <5>2
      <4> QED BY <2>2, <4>1, <4>2
    <3> QED BY <2>1, <3>1 DEF OneRow
  <2>5. NoDuration'
    BY <1>1, <2>1, <2>2, <2>3 DEF NoDuration, EventStep
  <2>6. MissedStays'
    <3>1. ASSUME NEW i \in DOMAIN inflight', inflight'[i].ev.missed PROVE ev'.missed
      BY <1>1, <2>2, <2>3, <3>1 DEF MissedStays, EventStep
    <3>2. ASSUME NEW i \in DOMAIN inflight', inflight'[i].ev.missed,
                 NEW j \in DOMAIN inflight', i <= j
          PROVE  inflight'[j].ev.missed
      <4>1. CASE j \in DOMAIN inflight
        <5>1. i \in DOMAIN inflight
          BY <2>2, <3>2, <4>1
        <5> QED BY <1>1, <2>2, <3>2, <4>1, <5>1 DEF MissedStays
      <4>2. CASE inflight'[j].ev = ev'
        BY <3>1, <3>2, <4>2
      <4> QED BY <2>3, <4>1, <4>2
    <3>3. ASSUME row' # NoRow, row'.missed
          PROVE  ev'.missed /\ \A i \in DOMAIN inflight' : inflight'[i].ev.missed
      BY <1>1, <2>1, <2>2, <2>3, <3>3 DEF MissedStays, EventStep
    <3> QED BY <3>1, <3>2, <3>3 DEF MissedStays
  <2> QED BY <1>1, <2>1, <2>2, <2>4, <2>5, <2>6 DEF S
<1>5. CASE Commits
  <2>1. /\ inflight # <<>> /\ inflight' = Tail(inflight) /\ added' = added
        /\ ev' = ev /\ started' = started /\ (row' = Head(inflight).ev \/ row' = row)
    BY <1>5 DEF Commits
  <2> HIDE DEF S
  <2>2. /\ inflight' \in Seq(S) /\ Head(inflight) = inflight[1] /\ Head(inflight) \in S
        /\ Len(inflight) \in Nat /\ Len(inflight) >= 1
        /\ DOMAIN inflight' = 1 .. Len(inflight) - 1 /\ DOMAIN inflight = 1 .. Len(inflight)
        /\ 1 \in DOMAIN inflight
        /\ \A i \in DOMAIN inflight' : i + 1 \in DOMAIN inflight /\ inflight'[i] = inflight[i + 1]
    BY <1>1, <2>1, TailSave
  <2>3. Head(inflight).ev \in CallEvent
    BY <2>2 DEF S
  <2>4. OneRow'
    <3>1. added'
      BY <1>1, <2>1 DEF OneRow
    <3>2. \A i \in DOMAIN inflight' : ~inflight'[i].add
      BY <1>1, <2>2 DEF OneRow
    <3> QED BY <3>1, <3>2 DEF OneRow
  <2>5. NoDuration'
    BY <1>1, <2>1, <2>2 DEF NoDuration
  <2>6. MissedStays'
    <3>1. ASSUME NEW i \in DOMAIN inflight', inflight'[i].ev.missed
          PROVE  /\ ev'.missed
                 /\ \A j \in DOMAIN inflight' : i <= j => inflight'[j].ev.missed
      BY <1>1, <2>1, <2>2, <3>1 DEF MissedStays
    <3>2. ASSUME row' # NoRow, row'.missed
          PROVE  ev'.missed /\ \A i \in DOMAIN inflight' : inflight'[i].ev.missed
      <4>1. CASE row' = Head(inflight).ev
        BY <1>1, <2>1, <2>2, <3>2, <4>1 DEF MissedStays
      <4>2. CASE row' = row
        BY <1>1, <2>1, <2>2, <3>2, <4>2 DEF MissedStays
      <4> QED BY <2>1, <4>1, <4>2
    <3> QED BY <3>1, <3>2 DEF MissedStays
  <2> QED BY <1>1, <1>2, <2>1, <2>2, <2>3, <2>4, <2>5, <2>6 DEF S
<1> QED BY <1>3, <1>4, <1>5 DEF Classified

\* The part of the invariant that holds whatever commits do.
LEMMA InvStep == Inv /\ [Next]_vars => Inv'
<1> SUFFICES ASSUME Inv, [Next]_vars PROVE Inv'
  OBVIOUS
<1>1. Classified
  BY Steps
<1>2. CallTyped'
  BY <1>1 DEF Classified
<1>3. /\ inflight' \in Seq([ev : CallEvent, add : BOOLEAN])
      /\ row' \in CallEvent \cup {NoRow} /\ added' \in BOOLEAN
      /\ OneRow' /\ NoDuration' /\ MissedStays'
  BY <1>1, SavesTyped
<1>4. TypeOK'
  BY <1>2, <1>3 DEF CallTyped, TypeOK
<1> QED BY <1>2, <1>3, <1>4 DEF Inv, CallTyped

LEMMA InvInit == Init => Inv
<1> SUFFICES ASSUME Init PROVE Inv
  OBVIOUS
<1> USE CallAssumption DEF CallAssumption
<1>1. ev \in CallEvent /\ ev.start = ev.end /\ ~ev.missed
  <2>1. ev \in [start : {0}, end : {0}, missed : {FALSE}, video : BOOLEAN, emergency : BOOLEAN]
    BY DEF Init
  <2>2. 0 \in 0 .. MaxTime
    OBVIOUS
  <2> QED BY <2>1, <2>2 DEF CallEvent, Times
<1>2. added \in BOOLEAN
  <2>1. Outcome("add") \subseteq BOOLEAN
    BY DEF Outcome
  <2>2. \/ direction = "out" /\ added \in Outcome("add")
        \/ direction # "out" /\ added \in {FALSE}
    BY DEF Init
  <2> QED BY <2>1, <2>2
<1>3. inflight \in Seq([ev : CallEvent, add : BOOLEAN])
  <2> DEFINE x == Save(ev, TRUE)
             S == [ev : CallEvent, add : BOOLEAN]
  <2>1. x \in S
    BY <1>1 DEF Save
  <2>2. inflight = <<x>> \/ inflight = <<>>
    BY DEF Init
  <2> HIDE DEF x, S
  <2>3. inflight \in Seq(S)
    <3>1. CASE inflight = <<x>>
      BY <2>1, <3>1
    <3>2. CASE inflight = <<>>
      BY <3>2, EmptySeq
    <3> QED BY <2>2, <3>1, <3>2
  <2> QED BY <2>3 DEF S
<1>4. TypeOK
  <2>1. /\ now \in Times /\ videoChanges \in 0 .. MaxVideo /\ timer \in 0 .. now + 1
    BY DEF Init, Times, NoTimer
  <2>2. group \in [Members -> {"pending", "in", "out"}] /\ direction \in {"in", "out"}
    BY DEF Init, Members
  <2>3. refused \in BOOLEAN
    BY DEF Init
  <2>4. /\ row = NoRow /\ ready = "pending" /\ started = FALSE /\ ended = FALSE
        /\ committed = FALSE /\ proxy = FALSE /\ invalid = {} /\ notified = FALSE
        /\ closed = FALSE
    BY DEF Init
  <2> QED BY <1>1, <1>2, <1>3, <2>1, <2>2, <2>3, <2>4 DEF TypeOK
<1>5. \A i \in DOMAIN inflight : i = 1 /\ inflight[i].ev = ev /\ added
  BY DEF Init, Save
<1>6. OneRow
  BY <1>5 DEF Init, OneRow
<1>7. Running /\ MissedIsOver
  BY <1>1 DEF Init, Running, MissedIsOver
<1>8. NoDuration /\ MissedStays
  BY <1>1, <1>5 DEF Init, NoDuration, MissedStays
<1> QED BY <1>4, <1>6, <1>7, <1>8 DEF Inv

LEMMA Invariance == Spec => []Inv
BY InvInit, InvStep, PTL DEF Spec

\* What needs the commits to succeed, one step further.
LEMMA CommitsInvStep ==
  ASSUME "commit" \notin MayFail
  PROVE  IInv /\ [Next]_vars => IInv'
<1> SUFFICES ASSUME IInv, [Next]_vars PROVE IInv'
  OBVIOUS
<1> DEFINE S == [ev : CallEvent, add : BOOLEAN]
<1>1. Inv /\ Inv' /\ Classified
  BY InvStep, Steps DEF IInv
<1>2. /\ EventStep /\ FlagStep /\ (Keeps \/ Submits \/ Commits)
      /\ row # NoRow => row' # NoRow
  BY <1>1, SavesTyped DEF Classified
<1>3. inflight \in Seq(S) /\ row \in CallEvent \cup {NoRow} /\ ev' \in CallEvent
  BY <1>1 DEF Inv, TypeOK
<1>4. \A e \in CallEvent : e # NoRow
  BY DEF CallEvent, NoRow
<1>5. Commits => /\ inflight # <<>> /\ inflight' = Tail(inflight) /\ row' = inflight[1].ev
                 /\ Len(inflight) \in Nat /\ Len(inflight) >= 1
                 /\ Len(inflight') = Len(inflight) - 1
                 /\ DOMAIN inflight' = 1 .. Len(inflight) - 1
                 /\ DOMAIN inflight = 1 .. Len(inflight)
                 /\ \A i \in DOMAIN inflight' : inflight'[i] = inflight[i + 1]
                 /\ inflight' = <<>> <=> Len(inflight) = 1
                 /\ row' # NoRow /\ ev' = ev
  <2> HAVE Commits
  <2> HIDE DEF S
  <2>1. inflight # <<>> /\ inflight' = Tail(inflight) /\ row' = Head(inflight).ev /\ ev' = ev
    BY DEF Commits
  <2>2. Head(inflight) = inflight[1] /\ Head(inflight) \in S
    BY <1>3, <2>1, TailSave
  <2>3. row' # NoRow
    BY <1>4, <2>1, <2>2 DEF S
  <2> QED BY <1>3, <2>1, <2>2, <2>3, TailSave
<1>6. Submits => /\ inflight' # <<>> /\ row' = row /\ Len(inflight) \in Nat
                 /\ Len(inflight') = Len(inflight) + 1
                 /\ DOMAIN inflight' = 1 .. Len(inflight) + 1
                 /\ DOMAIN inflight = 1 .. Len(inflight)
                 /\ \A i \in DOMAIN inflight : inflight'[i] = inflight[i]
                 /\ inflight'[Len(inflight) + 1].ev = ev'
  <2> DEFINE x == Save(ev', ~added)
  <2>1. x \in S /\ x.ev = ev'
    BY <1>1, <1>3 DEF Save, Inv, TypeOK
  <2> HIDE DEF x, S
  <2>2. /\ Append(inflight, x) # <<>> /\ Len(inflight) \in Nat
        /\ Len(Append(inflight, x)) = Len(inflight) + 1
        /\ DOMAIN Append(inflight, x) = 1 .. Len(inflight) + 1
        /\ DOMAIN inflight = 1 .. Len(inflight)
        /\ \A i \in DOMAIN inflight : Append(inflight, x)[i] = inflight[i]
        /\ Append(inflight, x)[Len(inflight) + 1] = x
    BY <1>3, <2>1, AppendSave
  <2> QED BY <2>1, <2>2 DEF Submits, x
<1>7. CommittedHasRow'
  BY <1>2, <1>5 DEF IInv, CommittedHasRow, FlagStep
<1>8. SavedBeforeClosed'
  BY <1>2, <1>5, <1>7 DEF IInv, SavedBeforeClosed, CommittedHasRow, FlagStep
<1>9. LastIsSubmitted'
  <2> SUFFICES ASSUME "channel" \in invalid', ~refused' PROVE Submitted' = ev'
    BY DEF LastIsSubmitted
  <2>1. CASE Submits
    BY <1>6, <2>1 DEF Submitted
  <2>2. CASE ~Submits
    <3>1. Submitted = ev /\ ev' = ev /\ (Keeps \/ Commits)
      BY <1>2, <2>2 DEF EventStep, IInv, LastIsSubmitted
    <3>2. CASE Keeps
      BY <3>1, <3>2 DEF Keeps, Submitted
    <3>3. CASE Commits
      <4>1. CASE Len(inflight) = 1
        BY <1>5, <3>1, <3>3, <4>1 DEF Submitted
      <4>2. CASE Len(inflight) # 1
        <5>1. /\ Len(inflight) - 1 \in DOMAIN inflight'
              /\ inflight'[Len(inflight) - 1] = inflight[Len(inflight)]
          BY <1>5, <3>3, <4>2
        <5> QED BY <1>5, <3>1, <3>3, <4>2, <5>1 DEF Submitted
      <4> QED BY <4>1, <4>2
    <3> QED BY <3>1, <3>2, <3>3
  <2> QED BY <2>1, <2>2
<1>10. NotifiedIsSaved'
  <2> SUFFICES ASSUME notified'
               PROVE  /\ ev'.missed
                      /\ \/ row' # NoRow /\ row'.missed
                         \/ \E i \in DOMAIN inflight' : inflight'[i].ev.missed
    BY DEF NotifiedIsSaved
  <2>1. CASE ~notified
    <3>1. Submits /\ ev'.missed
      BY <1>2, <2>1 DEF FlagStep
    <3>2. /\ Len(inflight) + 1 \in DOMAIN inflight'
          /\ inflight'[Len(inflight) + 1].ev.missed
      BY <1>6, <3>1
    <3> QED BY <3>1, <3>2
  <2>2. CASE notified
    <3>1. /\ ev.missed /\ ev'.missed
          /\ \/ row # NoRow /\ row.missed
             \/ \E i \in DOMAIN inflight : inflight[i].ev.missed
      BY <1>2, <2>2 DEF IInv, NotifiedIsSaved, EventStep
    <3>2. CASE Keeps
      BY <3>1, <3>2 DEF Keeps
    <3>3. CASE Submits
      BY <1>6, <3>1, <3>3
    <3>4. CASE Commits
      <4>1. MissedStays
        BY DEF IInv, Inv
      <4>2. 1 \in DOMAIN inflight
        BY <1>5, <3>4
      <4>3. CASE inflight[1].ev.missed
        BY <1>5, <3>1, <3>4, <4>3
      <4>4. CASE ~inflight[1].ev.missed
        <5>1. PICK i \in DOMAIN inflight : inflight[i].ev.missed
          BY <3>1, <4>1, <4>2, <4>4 DEF MissedStays
        <5>2. i # 1 /\ i - 1 \in DOMAIN inflight' /\ inflight'[i - 1] = inflight[i]
          BY <1>5, <3>4, <4>4, <5>1
        <5> QED BY <3>1, <5>1, <5>2
      <4> QED BY <4>3, <4>4
    <3> QED BY <1>2, <3>2, <3>3, <3>4
  <2> QED BY <2>1, <2>2
<1> QED BY <1>1, <1>7, <1>8, <1>9, <1>10 DEF IInv

LEMMA CommitsInvInit == Init => IInv
BY InvInit DEF Init, IInv, CommittedHasRow, SavedBeforeClosed, LastIsSubmitted, NotifiedIsSaved

-----------------------------------------------------------------------------
(* The theorems *)

\* The type invariant.
THEOREM TypeCorrect == Spec => []TypeOK
<1>1. Inv => TypeOK
  BY DEF Inv
<1> QED BY <1>1, Invariance, PTL

\* A call is added to the database once, and first, whatever saves and commits
\* fail and in whatever order members, streams and proxies go.
THEOREM RowIsOne == Spec => []OneRow
<1>1. Inv => OneRow
  BY DEF Inv
<1> QED BY <1>1, Invariance, PTL

\* Nothing moves the end of a call once callEnded has set it.
THEOREM EndStays == Spec => EndIsFinal
<1>1. Inv /\ [Next]_vars => [ended => ended' /\ ev'.end = ev.end]_vars
  BY Steps DEF Classified, EventStep
<1> QED BY <1>1, Invariance, PTL DEF Spec, EndIsFinal

\* A listener goes after its call is in the database, and with all commits in
\* the row is the last state it knew, when libcommhistory commits what it took:
\* slotEventsCommitted does not look at whether it did.
THEOREM RowKept ==
  ASSUME "commit" \notin MayFail
  PROVE  Spec => []RowIsKept
<1>1. IInv => RowIsKept
  BY DEF IInv, Inv, RowIsKept, LastStateSaved, LastIsSubmitted, Submitted
<1> QED BY <1>1, CommitsInvInit, CommitsInvStep, PTL DEF Spec

\* What is stored and notified of the outcome of a call agrees, under the same
\* condition: without it a missed call is announced and never stored.
THEOREM OutcomesAgree ==
  ASSUME "commit" \notin MayFail
  PROVE  Spec => []OutcomeAgrees
<1>1. IInv => OutcomeAgrees
  BY DEF IInv, Inv, OutcomeAgrees, MissedIsOver, NoDuration, NotifiedIsSaved
<1> QED BY <1>1, CommitsInvInit, CommitsInvStep, PTL DEF Spec
-----------------------------------------------------------------------------
(* The listener keeps what CallRecord promises of its row.  The saves in    *)
(* flight are what the listener knew at some time, in order.                *)

\* Nothing of the call is set to a time that has not come.
TimesArePast == ev.start <= now /\ ev.end <= now

\* The row, the saves in flight and what the listener knows come one after the
\* other.
Forward ==
  /\ \A i \in DOMAIN inflight :
       /\ Record!Follows(inflight[i].ev, ev)
       /\ \A j \in DOMAIN inflight :
            i <= j => Record!Follows(inflight[i].ev, inflight[j].ev)
  /\ row # NoRow =>
       /\ Record!Follows(row, ev)
       /\ \A i \in DOMAIN inflight : Record!Follows(row, inflight[i].ev)

LEMMA FollowsItself ==
  ASSUME NEW e \in CallEvent
  PROVE  Record!Follows(e, e)
<1> USE CallAssumption DEF CallAssumption
<1> QED BY DEF Record!Follows, CallEvent, Times

LEMMA FollowsOn ==
  ASSUME NEW r \in CallEvent, NEW s \in CallEvent, NEW t \in CallEvent,
         Record!Follows(r, s), Record!Follows(s, t)
  PROVE  Record!Follows(r, t)
<1> USE CallAssumption DEF CallAssumption
<1>1. /\ r.start \in Int /\ r.end \in Int /\ s.start \in Int /\ s.end \in Int
      /\ t.start \in Int /\ t.end \in Int
  BY DEF CallEvent, Times
<1> QED BY <1>1 DEF Record!Follows

\* What the listener knows of the call only goes forward, and so does what the
\* user is told of it.
Learns ==
  /\ Record!Follows(ev, ev')
  /\ TimesArePast'
  /\ notified' \in {notified, notified \/ ev'.missed}

\* callStarted sets both ends of a call that had no duration yet.
LEMMA CallStartedLearns ==
  ASSUME Inv, TimesArePast, CallStarted, now' = now, notified' = notified
  PROVE  Learns
<1> USE CallAssumption DEF CallAssumption
<1>1. ev \in CallEvent /\ now \in Times
  BY DEF Inv, TypeOK
<1>2. CASE ~started
  <2>1. ev' = [ev EXCEPT !.start = now, !.end = now] /\ ev.start = ev.end
    BY <1>2 DEF CallStarted, Inv, NoDuration
  <2>2. /\ ev'.start = now /\ ev'.end = now /\ ev'.missed = ev.missed
        /\ ev'.emergency = ev.emergency
        /\ ev.start \in Int /\ ev.end \in Int /\ now \in Int
    BY <1>1, <2>1 DEF CallEvent, Times
  <2> QED BY <2>1, <2>2 DEF Learns, TimesArePast, Record!Follows
<1>3. CASE started
  <2>1. ev' = ev
    BY <1>3 DEF CallStarted, call
  <2> QED BY <1>1, <2>1, FollowsItself DEF Learns, TimesArePast
<1> QED BY <1>2, <1>3

\* An end of now, for a call that keeps its beginning.
LEMMA EndLearns ==
  ASSUME Inv, TimesArePast, now' = now, notified' \in {notified, notified \/ ev'.missed},
         ev.missed => ev'.missed, ev.emergency => ev'.emergency,
         ev'.start = ev.start, ev'.end \in {now, ev.end}
  PROVE  Learns
<1> USE CallAssumption DEF CallAssumption
<1>1. ev.start \in Int /\ ev.end \in Int /\ now \in Int
  BY DEF Inv, TypeOK, CallEvent, Times
<1> QED BY <1>1 DEF Learns, TimesArePast, Record!Follows

\* The listener learns something, or nothing, in every step.
LEMMA LearnStep == Inv /\ TimesArePast /\ [Next]_vars => Learns
<1> SUFFICES ASSUME Inv, TimesArePast, [Next]_vars PROVE Learns
  OBVIOUS
<1>1. ev \in CallEvent
  BY DEF Inv, TypeOK
<1>2. ASSUME ev' = ev, now' = now, notified' = notified PROVE Learns
  BY <1>2, EndLearns
<1>3. ASSUME NEW m \in Members, NEW sending \in BOOLEAN, MemberJoins(m, sending)
      PROVE  Learns
  <2>1. now' = now /\ notified' = notified /\ (CallStarted \/ ev' = ev)
    BY <1>3 DEF MemberJoins, ending, call
  <2> QED BY <1>2, <2>1, CallStartedLearns
<1>4. ASSUME NEW m \in Members, NEW actor \in Members, NEW noAnswer \in BOOLEAN,
             MemberLeaves(m, actor, noAnswer)
      PROVE  Learns
  <2>1. /\ now' = now /\ notified' = notified
        /\ \/ ev' = [ev EXCEPT !.missed = @ \/ Missed(m, actor, noAnswer)]
           \/ ev' = [ev EXCEPT !.end = now]
           \/ ev' = ev
    BY <1>4 DEF MemberLeaves, CallEnded, ending, call
  <2>2. /\ ev.missed => ev'.missed
        /\ ev'.emergency = ev.emergency /\ ev'.start = ev.start /\ ev'.end \in {now, ev.end}
    BY <1>1, <2>1 DEF CallEvent
  <2> QED BY <2>1, <2>2, EndLearns
<1>5. CASE AudioConnected
  <2>1. now' = now /\ notified' = notified /\ (CallStarted \/ ev' = ev)
    BY <1>5 DEF AudioConnected, ending, call
  <2> QED BY <1>2, <2>1, CallStartedLearns
<1>6. ASSUME NEW connected \in BOOLEAN, VideoChanged(connected) PROVE Learns
  <2>1. /\ now' = now /\ notified' = notified
        /\ ev' = ev \/ ev' = [ev EXCEPT !.video = connected]
    BY <1>6 DEF VideoChanged, ending
  <2>2. /\ ev'.missed = ev.missed
        /\ ev'.emergency = ev.emergency /\ ev'.start = ev.start /\ ev'.end = ev.end
    BY <1>1, <2>1 DEF CallEvent
  <2> QED BY <2>1, <2>2, EndLearns
<1>7. CASE ServicePointChanged \/ ChannelReady
  <2>1. now' = now /\ notified' = notified
    BY <1>7 DEF ServicePointChanged, ChannelReady, ending
  <2>2. \E b \in BOOLEAN : ev' = [ev EXCEPT !.emergency = b] /\ (ev.emergency => b)
    <3>1. CASE ServicePointChanged
      BY <3>1 DEF ServicePointChanged
    <3>2. CASE ChannelReady
      <4>1. PICK ok \in (IF "channel" \in invalid THEN {FALSE} ELSE Outcome("ready")),
                 emergency \in BOOLEAN :
               ev' = [ev EXCEPT !.emergency = @ \/ (ok /\ emergency)]
        BY <3>2 DEF ChannelReady
      <4>2. ev.emergency \in BOOLEAN
        BY <1>1 DEF CallEvent
      <4> DEFINE b == ev.emergency \/ (ok /\ emergency)
      <4>3. b \in BOOLEAN /\ ev' = [ev EXCEPT !.emergency = b] /\ (ev.emergency => b)
        BY <4>1, <4>2
      <4> HIDE DEF b
      <4> QED BY <4>3
    <3> QED BY <1>7, <3>1, <3>2
  <2>3. /\ ev'.missed = ev.missed /\ (ev.emergency => ev'.emergency)
        /\ ev'.start = ev.start /\ ev'.end = ev.end
    BY <1>1, <2>2 DEF CallEvent
  <2> QED BY <2>1, <2>3, EndLearns
<1>8. ASSUME NEW p \in Proxies, NEW cancelled \in BOOLEAN, Invalidated(p, cancelled)
      PROVE  Learns
  <2> DEFINE miss == direction = "in" /\ Unanswered /\ ~cancelled
  <2>1. now' = now /\ ev' = [ev EXCEPT !.end = EndTime, !.missed = @ \/ miss]
    BY <1>8 DEF Invalidated
  <2>2. PICK ok \in BOOLEAN : notified' = (notified \/ Notifies(ev', ok))
    BY <1>8 DEF Invalidated
  <2>3. notified' \in {notified, notified \/ ev'.missed}
    <3>1. CASE ok
      BY <2>2, <3>1 DEF Notifies, Inv, TypeOK
    <3>2. CASE ~ok
      BY <2>2, <3>2 DEF Notifies, Inv, TypeOK
    <3> QED BY <3>1, <3>2
  <2>4. /\ ev.missed => ev'.missed
        /\ ev'.emergency = ev.emergency /\ ev'.start = ev.start /\ ev'.end = EndTime
    BY <1>1, <2>1 DEF CallEvent
  <2>5. EndTime \in {now, ev.end}
    BY DEF EndTime, Inv, NoDuration
  <2> QED BY <2>1, <2>3, <2>4, <2>5, EndLearns
<1>9. CASE TimerEvent
  <2>1. /\ now' = now /\ notified' = notified
        /\ ev' = ev \/ ev' = [ev EXCEPT !.end = now]
    BY <1>9 DEF TimerEvent, ending
  <2>2. /\ ev'.missed = ev.missed
        /\ ev'.emergency = ev.emergency /\ ev'.start = ev.start /\ ev'.end \in {now, ev.end}
    BY <1>1, <2>1 DEF CallEvent
  <2> QED BY <2>1, <2>2, EndLearns
<1>10. CASE EventsCommitted
  BY <1>2, <1>10 DEF EventsCommitted, call
<1>11. CASE Tick
  <2>1. /\ now' = now + 1 /\ notified' = notified /\ ev' = ev
        /\ ev.start \in Int /\ ev.end \in Int /\ now \in Int
    BY <1>1, <1>11 DEF Tick, call, ending, CallEvent, Times, Inv, TypeOK
  <2> QED BY <1>1, <2>1, FollowsItself DEF Learns, TimesArePast
<1>12. CASE UNCHANGED vars
  BY <1>2, <1>12 DEF vars, call, ending
<1> QED BY <1>3, <1>4, <1>5, <1>6, <1>7, <1>8, <1>9, <1>10, <1>11, <1>12 DEF Next

\* The saves in flight stay in order: the one that is submitted is the last, and
\* the one that is committed is the first.
LEMMA ForwardStep ==
  ASSUME Inv, Forward, Classified, Learns
  PROVE  Forward'
<1> DEFINE S == [ev : CallEvent, add : BOOLEAN]
           F(r, s) == Record!Follows(r, s)
<1>1. /\ inflight \in Seq(S) /\ row \in CallEvent \cup {NoRow} /\ ev \in CallEvent
      /\ ev' \in CallEvent /\ F(ev, ev')
      /\ \A i \in DOMAIN inflight : inflight[i] \in S /\ inflight[i].ev \in CallEvent
  <2>1. /\ inflight \in Seq(S) /\ row \in CallEvent \cup {NoRow} /\ ev \in CallEvent
        /\ ev' \in CallEvent /\ F(ev, ev')
    BY DEF Inv, TypeOK, Classified, CallTyped, Learns
  <2> HIDE DEF S, F
  <2>2. \A i \in DOMAIN inflight : inflight[i] \in S
    BY <2>1, ElementOfSeq
  <2>3. \A x \in S : x.ev \in CallEvent
    BY DEF S
  <2> QED BY <2>1, <2>2, <2>3
<1>2. /\ \A i \in DOMAIN inflight :
           /\ F(inflight[i].ev, ev)
           /\ \A j \in DOMAIN inflight : i <= j => F(inflight[i].ev, inflight[j].ev)
      /\ row # NoRow => /\ F(row, ev)
                        /\ \A i \in DOMAIN inflight : F(row, inflight[i].ev)
  BY DEF Forward
<1>3. \A r \in CallEvent : F(r, ev) => F(r, ev')
  BY <1>1, FollowsOn
<1>4. F(ev', ev')
  BY <1>1, FollowsItself
<1>5. SUFFICES
        /\ \A i \in DOMAIN inflight' :
             /\ F(inflight'[i].ev, ev')
             /\ \A j \in DOMAIN inflight' : i <= j => F(inflight'[i].ev, inflight'[j].ev)
        /\ row' # NoRow => /\ F(row', ev')
                           /\ \A i \in DOMAIN inflight' : F(row', inflight'[i].ev)
  BY DEF Forward, Record!Follows
<1> HIDE DEF S, F
<1>6. CASE Keeps
  BY <1>1, <1>2, <1>3, <1>6 DEF Keeps
<1>7. CASE Submits
  <2> DEFINE x == Save(ev', ~added)
  <2>1. inflight' = Append(inflight, x) /\ row' = row /\ x \in S /\ x.ev = ev'
    BY <1>1, <1>7 DEF Submits, Save, S, Inv, TypeOK
  <2> HIDE DEF x
  <2>2. /\ Len(inflight) \in Nat
        /\ DOMAIN inflight' = 1 .. Len(inflight) + 1 /\ DOMAIN inflight = 1 .. Len(inflight)
        /\ \A i \in DOMAIN inflight : inflight'[i] = inflight[i]
        /\ inflight'[Len(inflight) + 1] = x
    BY <1>1, <2>1, AppendSave
  <2>3. \A i \in DOMAIN inflight' : \/ i \in DOMAIN inflight /\ inflight'[i] = inflight[i]
                                    \/ i = Len(inflight) + 1 /\ inflight'[i].ev = ev'
    BY <2>1, <2>2
  <2>4. \A i \in DOMAIN inflight' : F(inflight'[i].ev, ev')
    BY <1>1, <1>2, <1>3, <1>4, <2>3
  <2>5. ASSUME NEW i \in DOMAIN inflight', NEW j \in DOMAIN inflight', i <= j
        PROVE  F(inflight'[i].ev, inflight'[j].ev)
    <3>1. CASE j \in DOMAIN inflight
      <4>1. i \in DOMAIN inflight
        BY <2>2, <2>5, <3>1
      <4> QED BY <1>2, <2>2, <2>5, <3>1, <4>1
    <3>2. CASE inflight'[j].ev = ev'
      BY <2>4, <2>5, <3>2
    <3> QED BY <2>3, <2>5, <3>1, <3>2
  <2>6. ASSUME row' # NoRow
        PROVE  F(row', ev') /\ \A i \in DOMAIN inflight' : F(row', inflight'[i].ev)
    <3>1. row \in CallEvent /\ row # NoRow
      BY <1>1, <2>1, <2>6
    <3>2. F(row, ev')
      BY <1>2, <1>3, <3>1
    <3> QED BY <1>2, <2>1, <2>3, <3>1, <3>2
  <2> QED BY <2>4, <2>5, <2>6
<1>8. CASE Commits
  <2>1. /\ inflight # <<>> /\ inflight' = Tail(inflight) /\ ev' = ev
        /\ row' = Head(inflight).ev \/ row' = row
    BY <1>8 DEF Commits
  <2>2. /\ Head(inflight) = inflight[1] /\ 1 \in DOMAIN inflight
        /\ Len(inflight) \in Nat /\ Len(inflight) >= 1
        /\ DOMAIN inflight' = 1 .. Len(inflight) - 1 /\ DOMAIN inflight = 1 .. Len(inflight)
        /\ \A i \in DOMAIN inflight' : i + 1 \in DOMAIN inflight /\ inflight'[i] = inflight[i + 1]
    BY <1>1, <2>1, TailSave
  <2>3. \A i \in DOMAIN inflight' :
          /\ F(inflight'[i].ev, ev')
          /\ \A j \in DOMAIN inflight' : i <= j => F(inflight'[i].ev, inflight'[j].ev)
    BY <1>2, <2>1, <2>2
  <2>4. ASSUME row' # NoRow
        PROVE  F(row', ev') /\ \A i \in DOMAIN inflight' : F(row', inflight'[i].ev)
    <3>1. CASE row' = inflight[1].ev
      BY <1>2, <2>1, <2>2, <3>1
    <3>2. CASE row' = row
      BY <1>2, <2>1, <2>2, <2>4, <3>2
    <3> QED BY <2>1, <2>2, <3>1, <3>2
  <2> QED BY <2>3, <2>4
<1> QED BY <1>6, <1>7, <1>8 DEF Classified

\* A commit brings the row forward, or leaves it; any other step may only bring
\* forward what is known.
LEMMA RecordStep ==
  ASSUME Inv, Forward, TimesArePast, [Next]_vars
  PROVE  [Record!Next]_(Record!vars)
<1>1. Classified /\ Learns
  BY Steps, LearnStep
<1>2. ev' \in CallEvent /\ row \in CallEvent \cup {NoRow}
  BY <1>1 DEF Classified, CallTyped, Inv, TypeOK
<1>3. CASE row' = row
  <2>1. /\ ended' \in BOOLEAN
        /\ ended => ended' /\ ev'.end = ev.end
    BY <1>1 DEF Classified, CallTyped, EventStep
  <2> QED BY <1>1, <1>2, <1>3, <2>1 DEF Record!Next, Record!Learn, Learns
<1>4. CASE row' # row
  <2>1. Commits
    BY <1>1, <1>4 DEF Classified, Keeps, Submits
  <2>2. /\ inflight # <<>> /\ row' = Head(inflight).ev /\ ev' = ev
    BY <1>4, <2>1 DEF Commits
  <2>3. Head(inflight) = inflight[1] /\ 1 \in DOMAIN inflight /\ inflight[1].ev \in CallEvent
    <3> DEFINE S == [ev : CallEvent, add : BOOLEAN]
    <3>1. inflight \in Seq(S)
      BY DEF Inv, TypeOK
    <3> HIDE DEF S
    <3>2. Head(inflight) = inflight[1] /\ 1 \in DOMAIN inflight /\ inflight[1] \in S
      BY <2>2, <3>1, TailSave
    <3> QED BY <3>2 DEF S
  <2>4. /\ row' \in CallEvent /\ Record!Follows(row', ev)
        /\ row = NoRow \/ Record!Follows(row, row')
    BY <2>2, <2>3 DEF Forward
  <2>5. notified' = notified
    <3>1. ~Submits
      BY <1>4 DEF Submits
    <3>2. notified' \in BOOLEAN /\ notified \in BOOLEAN /\ (notified' => notified)
      BY <1>1, <3>1 DEF Classified, CallTyped, FlagStep, Inv, TypeOK
    <3>3. notified => notified'
      BY <1>1 DEF Learns
    <3> QED BY <3>2, <3>3
  <2>6. ended' = ended
    BY <2>1 DEF Commits
  <2> QED BY <2>2, <2>4, <2>5, <2>6 DEF Record!Next, Record!Show
<1> QED BY <1>3, <1>4

LEMMA RecordInit == Init => Record!Init /\ Forward /\ TimesArePast
<1> SUFFICES ASSUME Init PROVE Record!Init /\ Forward /\ TimesArePast
  OBVIOUS
<1>1. Inv
  BY InvInit
<1>2. /\ ev \in CallEvent /\ ev.start = 0 /\ ev.end = 0 /\ ev.missed = FALSE
      /\ now = 0 /\ row = NoRow /\ ended = FALSE /\ notified = FALSE
  BY <1>1 DEF Init, Inv, TypeOK
<1>3. \A i \in DOMAIN inflight : inflight[i].ev = ev
  BY DEF Init, Save
<1>4. Record!Init
  BY <1>2 DEF Record!Init
<1>5. Forward
  BY <1>2, <1>3, FollowsItself DEF Forward
<1> QED BY <1>2, <1>4, <1>5 DEF TimesArePast

\* The listener implements CallRecord: the row of a call only goes forward, and
\* only to what was known of the call, and its end is final, whatever saves and
\* commits fail.
THEOREM KeepsRecord == Spec => ImplementsRecord
<1> DEFINE RInv == Inv /\ Forward /\ TimesArePast
<1>1. Init => RInv /\ Record!Init
  BY InvInit, RecordInit
<1>2. RInv /\ [Next]_vars => RInv'
  <2>1. ASSUME RInv, [Next]_vars PROVE RInv'
    <3>1. Inv' /\ Classified /\ Learns
      BY <2>1, InvStep, Steps, LearnStep
    <3> QED BY <2>1, <3>1, ForwardStep DEF Learns
  <2> QED BY <2>1
<1>3. RInv /\ [Next]_vars => [Record!Next]_(Record!vars)
  BY RecordStep
<1> QED BY <1>1, <1>2, <1>3, PTL DEF Spec, ImplementsRecord, Record!Spec

\* Whoever keeps a call as CallRecord says shows nothing but what was known of it.
LEMMA RecordTells == Record!Spec => [](Record!Truthful)
<1> DEFINE RTyped == /\ ev \in CallEvent /\ notified \in BOOLEAN
                     /\ row = NoRow \/ row \in CallEvent
           RInv == RTyped /\ Record!Truthful
<1>1. Record!Init => RInv
  BY DEF Record!Init, Record!Truthful
<1>2. RInv /\ [Record!Next]_(Record!vars) => RInv'
  <2> SUFFICES ASSUME RInv, [Record!Next]_(Record!vars) PROVE RInv'
    OBVIOUS
  <2>1. CASE Record!Learn
    <3>1. ev' \in CallEvent /\ Record!Follows(ev, ev') /\ row' = row
          /\ notified' \in {notified, notified \/ ev'.missed}
      BY <2>1 DEF Record!Learn
    <3>2. ev'.missed \in BOOLEAN /\ ev.missed \in BOOLEAN /\ (ev.missed => ev'.missed)
      BY <3>1 DEF CallEvent, Record!Follows
    <3>3. notified' \in BOOLEAN /\ (notified' => ev'.missed)
      <4>1. CASE notified
        BY <3>1, <3>2, <4>1 DEF Record!Truthful
      <4>2. CASE ~notified
        BY <3>1, <3>2, <4>2
      <4> QED BY <4>1, <4>2
    <3>4. row' # NoRow => Record!Follows(row', ev')
      BY <3>1, FollowsOn DEF Record!Truthful
    <3> QED BY <3>1, <3>3, <3>4 DEF Record!Truthful, Record!Follows
  <2>2. CASE Record!Show
    BY <2>2 DEF Record!Show, Record!Truthful, Record!Follows
  <2>3. CASE UNCHANGED Record!vars
    BY <2>3 DEF Record!vars, Record!Truthful, Record!Follows
  <2> QED BY <2>1, <2>2, <2>3 DEF Record!Next
<1> QED BY <1>1, <1>2, PTL DEF Record!Spec

\* So a row shows a call as missed, or for emergencies, only if the listener knows it
\* to be, shows no later end than the listener knows, and the user is told of missed
\* calls only.
THEOREM RowTellsTruth == Spec => [](Record!Truthful)
BY KeepsRecord, RecordTells, PTL DEF ImplementsRecord
=============================================================================
