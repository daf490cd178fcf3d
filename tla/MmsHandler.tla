------------------------------ MODULE MmsHandler ------------------------------
(***************************************************************************)
(* MmsHandler: the D-Bus object that keeps the events of multimedia        *)
(* messages in step with the MMS engine, which downloads and sends them.   *)
(*                                                                         *)
(* External are the engine (its jobs, and its calls and replies, which     *)
(* arrive in the order they were made), the modems, the user, and the      *)
(* database, whose calls are synchronous here and may fail.                *)
(*                                                                         *)
(* An event id stands for the message; the SIM card of a message is named  *)
(* by the modem it is in.                                                  *)
(***************************************************************************)
EXTENDS Integers, Sequences, FiniteSets

CONSTANTS In,             \* ids of incoming messages
          Out,            \* ids of outgoing messages
          Modems,
          DefaultModem,   \* defaultVoiceModem()
          Sim,            \* the SIM card of each message
          Location,       \* where an incoming message is fetched, or NoLocation
          NoLocation,
          NoPath,         \* the empty modem path
          SendsReports,   \* SIM cards whose setting allows read reports
          Spent,          \* sets of ids whose events may be gone from the start
          MayFail,        \* the calls that may fail in this instance
          MaxBus          \* bound on calls of the engine under way, for its states
                          \* and reports, and for sending again

Ids == In \cup Out

ASSUME MmsAssumption ==
  /\ In \cap Out = {}
  /\ NoPath \notin Modems /\ DefaultModem \in Modems
  /\ Sim \in [Ids -> Modems]
  /\ SendsReports \subseteq Modems
  /\ Spent \subseteq SUBSET Ids
  /\ MayFail \subseteq {"add", "modify", "copy", "open"}
  /\ MaxBus \in Nat

VARIABLES
  row,        \* per id: its event in the database, or NoRow
  files,      \* per id: "none", "some" or "all" parts copied to the storage
  active,     \* m_activeEvents: pairs of a modem path and an id
  present,    \* m_modems
  roaming,    \* modems that roam, where roaming data is not allowed
  \* --- the engine
  job,        \* per id: "none", "asked" (a call to send), "auto" or "user"
  cancels,    \* ids whose cancel call is under way
  reports,    \* ids whose sendReadReport call is under way
  awaiting,   \* sent messages whose delivery report has not come
  bus,        \* calls and replies of the engine under way to the handler
  \* --- history
  deleted,    \* ids whose event the user deleted
  cancelled,  \* downloads the user cancelled, and did not start again
  answered,   \* ids whose read report the engine has dealt with for good
  lost        \* ids for which an update of the database failed

engine  == <<job, cancels, reports, awaiting, bus>>
modems  == <<present, roaming>>
history == <<deleted, cancelled, answered>>
vars == <<row, files, active, modems, engine, history, lost>>

NoRow == [status |-> "none"]

\* mmsId tells whether one is set: the location of an incoming message, or the
\* id of a sent one; push stands for the data of the notification, unread for
\* the property of that name, wanted for reportRead()
Row(status, mmsId, push, unread) ==
  [status |-> status, mmsId |-> mmsId, push |-> push, unread |-> unread,
   wanted |-> FALSE, read |-> FALSE, parts |-> FALSE]

Exists(e) == row[e] # NoRow

Outcome(call) == IF call \in MayFail THEN BOOLEAN ELSE {TRUE}

\* getModemPath
ModemPath(sim) == IF sim \in present THEN sim ELSE NoPath

\* getModemPath of the event that was looked up, which may not exist
EventPath(e) == IF Exists(e) THEN ModemPath(Sim[e]) ELSE NoPath

IsDataProhibited(path) == path \notin present \/ path \in roaming

\* modifyEvent, on rows as the handler left them so far
Modify(rows, e, r, ok) ==
  /\ row' = IF ok THEN [rows EXCEPT ![e] = r] ELSE rows
  /\ lost' = IF ok THEN lost ELSE lost \cup {e}

\* mutant: what was copied of a message that failed is left behind
LeaveCopied(copied) == copied

\* a failure removes the parts that were copied
CleanUp(copied) == "none"

-----------------------------------------------------------------------------
(* Receiving                                                               *)

\* getEventByMmsId: only a message that is still to be fetched has a location
Known(e) ==
  /\ Location[e] # NoLocation
  /\ \E f \in In : Exists(f) /\ row[f].mmsId /\ Location[f] = Location[e]

\* messageNotification; the setting may ask for manual downloads
MessageNotification(e, automatic) ==
  /\ ~Exists(e) /\ e \notin deleted
  /\ ~Known(e)
  /\ LET path   == ModemPath(Sim[e])
         manual == IsDataProhibited(path) \/ ~automatic
     IN  /\ row' = [row EXCEPT ![e] =
                      Row(IF manual THEN "manual" ELSE "waiting",
                          Location[e] # NoLocation, TRUE, TRUE)]
         /\ active' = IF manual THEN active ELSE active \cup {<<path, e>>}
         /\ job' = IF manual THEN job ELSE [job EXCEPT ![e] = "auto"]
  /\ UNCHANGED <<files, modems, cancels, reports, awaiting, bus, history, lost>>

\* what takes an event off the list of active ones
Ended(status) == status \notin {"waiting", "downloading", "sending"}

\* messageReceiveStateChanged and messageSendStateChanged
NewStatus(e, state) ==
  CASE state = "error"    -> "temporarilyFailed"
    [] state = "broken"   -> "permanentlyFailed"
    [] state = "deferred" -> IF e \in In THEN "waiting" ELSE "sending"
    [] state = "busy"     -> IF e \in In THEN "downloading" ELSE "sending"

States == {"busy", "deferred", "error", "broken"}

StateChanged(e, state) ==
  /\ IF ~Exists(e)
     THEN /\ active' = active \ {<<EventPath(e), e>>}
          /\ UNCHANGED <<row, lost>>
     ELSE LET new == NewStatus(e, state) IN
          IF \/ new = row[e].status
             \/ e \in In /\ state = "error" /\ row[e].status = "manual"
          THEN UNCHANGED <<row, lost, active>>
          ELSE /\ \E ok \in Outcome("modify") : Modify(row, e, [row[e] EXCEPT !.status = new], ok)
               /\ active' = IF Ended(new) THEN active \ {<<EventPath(e), e>>} ELSE active
  /\ UNCHANGED <<files, answered>>

\* messageReceived for the id of an event, or for an id that is unknown: then
\* a new event is added first
MessageReceived(e, wanted) ==
  \E added \in (IF Exists(e) THEN {TRUE} ELSE Outcome("add")),
     copied \in Outcome("copy"), saved, again \in Outcome("modify") :
    LET new  == [Row("received", FALSE, FALSE, wanted) EXCEPT !.wanted = wanted]
        db   == IF Exists(e) THEN row ELSE [row EXCEPT ![e] = new]
        done == [new EXCEPT !.read = db[e].read, !.parts = TRUE]
    IN
    /\ active' = active \ {<<EventPath(e), e>>}
    /\ \/ /\ ~added
          /\ UNCHANGED <<row, files, lost>>
       \/ /\ added /\ copied /\ saved
          /\ Modify(db, e, done, TRUE)
          /\ files' = [files EXCEPT ![e] = "all"]
       \/ /\ added /\ ~(copied /\ saved)
          /\ Modify(db, e, [db[e] EXCEPT !.status = "temporarilyFailed"], again)
          /\ files' = [files EXCEPT ![e] = CleanUp(IF copied THEN "all" ELSE "some")]
    /\ UNCHANGED answered

-----------------------------------------------------------------------------
(* Sending                                                                 *)

\* sendMessageFromEvent(Event&), for an event stored as r: its status after it
\* is sent to the engine, or "temporarilyFailed" when a part cannot be opened
SendMessageFromEvent(rows, e, opened, ok) ==
  IF opened
  THEN /\ active' = active \cup {<<ModemPath(Sim[e]), e>>}
       /\ job' = [job EXCEPT ![e] = "asked"]
       /\ IF rows[e].status = "sending" THEN row' = rows /\ UNCHANGED lost
          ELSE Modify(rows, e, [rows[e] EXCEPT !.status = "sending"], ok)
  ELSE /\ UNCHANGED <<active, job>>
       /\ Modify(rows, e, [rows[e] EXCEPT !.status = "temporarilyFailed"], ok)

\* sendMessage: the restrictions of the default modem decide, whatever SIM card
\* the message is sent from
SendMessage(e) ==
  /\ e \in Out
  /\ ~Exists(e) /\ e \notin deleted
  /\ \E copied \in Outcome("copy"), opened \in Outcome("open"),
        saved, again \in Outcome("modify") :
       LET new  == Row("sending", FALSE, FALSE, FALSE)
           rows == [row EXCEPT ![e] = [new EXCEPT !.parts = TRUE]]
       IN
       \/ /\ ~(copied /\ saved)
          /\ Modify([row EXCEPT ![e] = new], e,
                    [new EXCEPT !.status = "permanentlyFailed"], again)
          /\ files' = [files EXCEPT ![e] = CleanUp(IF copied THEN "all" ELSE "some")]
          /\ UNCHANGED <<active, job>>
       \/ /\ copied /\ saved
          /\ files' = [files EXCEPT ![e] = "all"]
          /\ IF IsDataProhibited(DefaultModem)
             THEN /\ Modify(rows, e, [rows[e] EXCEPT !.status = "temporarilyFailed"], again)
                  /\ UNCHANGED <<active, job>>
             ELSE SendMessageFromEvent(rows, e, opened, again)
  /\ UNCHANGED <<modems, cancels, reports, awaiting, bus, history>>

Failed == {"temporarilyFailed", "permanentlyFailed"}

\* sendMessageFromEvent(int): the user asks to send a failed message again
Resend(e) ==
  /\ e \in Out
  /\ Exists(e) /\ row[e].status \in Failed /\ row[e].parts
  /\ job[e] = "none" /\ Len(bus) < MaxBus
  /\ \E opened \in Outcome("open"), ok \in Outcome("modify") :
       SendMessageFromEvent(row, e, opened, ok)
  /\ UNCHANGED <<files, modems, cancels, reports, awaiting, bus, history>>

\* mutant: the error of a call is ignored
NoteNothing(e) == UNCHANGED <<row, lost>>

\* onSendMessageFinished with an error (without one it stores the SIM card again)
SendFailed(e) ==
  \E ok \in Outcome("modify") :
    Modify(row, e, [row[e] EXCEPT !.status = "temporarilyFailed"], ok)

OnSendMessageFinished(e, error) ==
  /\ IF error /\ Exists(e) THEN SendFailed(e) ELSE UNCHANGED <<row, lost>>
  /\ UNCHANGED <<active, files, answered>>

MessageSent(e) ==
  /\ active' = active \ {<<EventPath(e), e>>}
  /\ IF Exists(e)
     THEN \E ok \in Outcome("modify") :
            Modify(row, e, [row[e] EXCEPT !.status = "sent", !.mmsId = TRUE], ok)
     ELSE UNCHANGED <<row, lost>>
  /\ UNCHANGED <<files, answered>>

\* deliveryReport, which finds the event by the id messageSent has stored
DeliveryReport(e, retrieved) ==
  /\ IF Exists(e) /\ row[e].mmsId
     THEN \E ok \in Outcome("modify") :
            Modify(row, e, [row[e] EXCEPT
              !.status = IF retrieved THEN "delivered" ELSE "temporarilyFailed"], ok)
     ELSE UNCHANGED <<row, lost>>
  /\ UNCHANGED <<active, files, answered>>

-----------------------------------------------------------------------------
(* Read reports                                                            *)

\* MmsReadReportModel::acceptsEvent
Accepts(e) == Exists(e) /\ row[e].status = "received" /\ row[e].read /\ row[e].unread

\* eventMarkedAsRead
EventMarkedAsRead(e) ==
  IF Sim[e] \in SendsReports
  THEN reports' = reports \cup {e} /\ UNCHANGED <<row, lost>>
  ELSE /\ \E ok \in Outcome("modify") : Modify(row, e, [row[e] EXCEPT !.unread = FALSE], ok)
       /\ UNCHANGED reports

\* onEventsUpdated or onGroupsUpdatedFull, after any update of the event
OnEventsUpdated(e) ==
  /\ Accepts(e)
  /\ ~IsDataProhibited(ModemPath(Sim[e]))
  /\ EventMarkedAsRead(e)
  /\ UNCHANGED <<files, active, modems, job, cancels, awaiting, bus, history>>

\* the report is dealt with unless the error is transient
FinalAnswer(status) == status # "transient"

ReadReportSendStatus(e, status) ==
  /\ IF FinalAnswer(status) /\ Exists(e)
     THEN \E ok \in Outcome("modify") : Modify(row, e, [row[e] EXCEPT !.unread = FALSE], ok)
     ELSE UNCHANGED <<row, lost>>
  /\ answered' = IF status = "transient" THEN answered ELSE answered \cup {e}
  /\ UNCHANGED <<active, files>>

-----------------------------------------------------------------------------
(* Modems                                                                  *)

\* mutant: the active events are forgotten, but not cancelled
CancelNone(path) == {}

Cancelled(path) == {e \in Ids : <<path, e>> \in active}

\* onStatusChanged and onRoamingAllowedChanged, dataProhibitedChanged
RoamingChanged(p) ==
  /\ p \in present
  /\ \/ p \notin roaming /\ roaming' = roaming \cup {p}
     \/ p \in roaming /\ roaming' = roaming \ {p}
  /\ IF p \in roaming'
     THEN /\ cancels' = cancels \cup Cancelled(p)
          /\ active' = active \ ({p} \X Ids)
     ELSE UNCHANGED <<cancels, active>>
  /\ UNCHANGED <<row, files, present, job, reports, awaiting, bus, history, lost>>

\* mutant: what is known of the network of a modem outlives it
RoamingKept(p) == roaming

\* a modem that comes back starts at home
RoamingWithout(p) == roaming \ {p}

ModemAdded(p) ==
  /\ p \notin present
  /\ present' = present \cup {p}
  /\ UNCHANGED <<row, files, active, roaming, engine, history, lost>>

\* onModemRemoved
ModemRemoved(p) ==
  /\ p \in present
  /\ present' = present \ {p}
  /\ roaming' = RoamingWithout(p)
  /\ UNCHANGED <<row, files, active, engine, history, lost>>

-----------------------------------------------------------------------------
(* The engine and the user                                                 *)

Call(e, what) == [id |-> e, what |-> what]

\* the engine answers the call to send a message
EngineAnswers(e) ==
  /\ job[e] = "asked"
  /\ \/ job' = [job EXCEPT ![e] = "auto"] /\ bus' = Append(bus, Call(e, "replied"))
     \/ job' = [job EXCEPT ![e] = "none"] /\ bus' = Append(bus, Call(e, "callFailed"))
  /\ UNCHANGED <<row, files, active, modems, cancels, reports, awaiting, history, lost>>

EngineWorks(e) ==
  /\ job[e] \in {"auto", "user"}
  /\ Len(bus) < MaxBus
  /\ \E state \in {"busy", "deferred"} : bus' = Append(bus, Call(e, state))
  /\ UNCHANGED <<row, files, active, modems, job, cancels, reports, awaiting, history, lost>>

\* a job ends, with a message or an error
EngineEnds(e) ==
  /\ job[e] \in {"auto", "user"}
  /\ job' = [job EXCEPT ![e] = "none"]
  /\ \E state \in {"error", "broken", IF e \in In THEN "received" ELSE "sent"} :
       /\ bus' = Append(bus, Call(e, state))
       /\ awaiting' = IF state = "sent" THEN awaiting \cup {e} ELSE awaiting
  /\ UNCHANGED <<row, files, active, modems, cancels, reports, history, lost>>

\* a cancelled job ends with an error; calls are served in order
EngineCancels(e) ==
  /\ e \in cancels /\ job[e] # "asked"
  /\ cancels' = cancels \ {e}
  /\ IF job[e] = "none" THEN UNCHANGED <<job, bus>>
     ELSE /\ job' = [job EXCEPT ![e] = "none"]
          /\ bus' = Append(bus, Call(e, "error"))
  /\ UNCHANGED <<row, files, active, modems, reports, awaiting, history, lost>>

EngineReports(e) ==
  /\ e \in reports \cup awaiting
  /\ Len(bus) < MaxBus
  /\ reports' = reports \ {e} /\ awaiting' = awaiting \ {e}
  /\ \E what \in IF e \in In THEN {"final", "transient"} ELSE {"retrieved", "expired"} :
       bus' = Append(bus, Call(e, what))
  /\ UNCHANGED <<row, files, active, modems, job, cancels, history, lost>>

\* the handler takes the next call or reply of the engine
Handle ==
  /\ bus # <<>>
  /\ bus' = Tail(bus)
  /\ LET e == Head(bus).id  what == Head(bus).what IN
       \/ what \in States /\ StateChanged(e, what)
       \/ what = "received" /\ \E wanted \in BOOLEAN : MessageReceived(e, wanted)
       \/ what \in {"replied", "callFailed"} /\ OnSendMessageFinished(e, what = "callFailed")
       \/ what = "sent" /\ MessageSent(e)
       \/ what \in {"retrieved", "expired"} /\ DeliveryReport(e, what = "retrieved")
       \/ what \in {"final", "transient"} /\ ReadReportSendStatus(e, what)
  /\ UNCHANGED <<modems, job, cancels, reports, awaiting, deleted, cancelled>>

\* the user asks the engine for a message that is not downloaded automatically,
\* once everything the engine had to say about it was handled
UserDownloads(e) ==
  /\ e \in In /\ job[e] = "none" /\ \A i \in DOMAIN bus : bus[i].id # e
  /\ Exists(e) /\ row[e].status \in {"manual", "temporarilyFailed"} /\ row[e].push
  /\ job' = [job EXCEPT ![e] = "user"]
  /\ cancelled' = cancelled \ {e}
  /\ UNCHANGED <<row, files, active, modems, cancels, reports, awaiting, bus, deleted,
                 answered, lost>>

\* the user cancels a download: the event waits for a manual one again
UserCancels(e) ==
  /\ e \in In /\ job[e] \in {"auto", "user"}
  /\ Exists(e) /\ row[e].status \in {"waiting", "downloading"}
  /\ row' = [row EXCEPT ![e].status = "manual"]
  /\ cancels' = cancels \cup {e}
  /\ cancelled' = cancelled \cup {e}
  /\ UNCHANGED <<files, active, modems, job, reports, awaiting, bus, deleted, answered, lost>>

UserReads(e) ==
  /\ Exists(e) /\ row[e].status = "received" /\ ~row[e].read
  /\ row' = [row EXCEPT ![e].read = TRUE]
  /\ UNCHANGED <<files, active, modems, engine, history, lost>>

\* the parts go with the event
UserDeletes(e) ==
  /\ Exists(e) /\ e \notin deleted
  /\ row' = [row EXCEPT ![e] = NoRow]
  /\ files' = [files EXCEPT ![e] = "none"]
  /\ deleted' = deleted \cup {e}
  /\ UNCHANGED <<active, modems, engine, cancelled, answered, lost>>

Init ==
  /\ row = [e \in Ids |-> NoRow]
  /\ files = [e \in Ids |-> "none"]
  /\ active = {}
  /\ present \in SUBSET Modems
  /\ roaming = {}
  /\ job = [e \in Ids |-> "none"]
  /\ cancels = {} /\ reports = {} /\ awaiting = {}
  /\ bus = <<>>
  /\ deleted \in Spent
  /\ cancelled = {} /\ answered = {} /\ lost = {}

Next ==
  \/ \E e \in In, automatic \in BOOLEAN : MessageNotification(e, automatic)
  \/ \E e \in Out : SendMessage(e) \/ Resend(e)
  \/ \E e \in In : OnEventsUpdated(e)
  \/ \E p \in Modems : RoamingChanged(p) \/ ModemAdded(p) \/ ModemRemoved(p)
  \/ \E e \in Ids : \/ EngineAnswers(e)
                    \/ EngineWorks(e)
                    \/ EngineEnds(e)
                    \/ EngineCancels(e)
                    \/ EngineReports(e)
  \/ Handle
  \/ \E e \in Ids : \/ UserDownloads(e)
                    \/ UserCancels(e)
                    \/ UserReads(e)
                    \/ UserDeletes(e)

Spec == Init /\ [][Next]_vars

\* the engine answers calls and ends its jobs, and the event loop delivers what
\* it sends
Fairness ==
  /\ WF_vars(Handle)
  /\ \A e \in Ids : WF_vars(EngineAnswers(e)) /\ WF_vars(EngineEnds(e))

FairSpec == Spec /\ Fairness

-----------------------------------------------------------------------------
(* Properties *)

Statuses == {"manual", "waiting", "downloading", "received", "sending", "sent",
             "delivered", "temporarilyFailed", "permanentlyFailed"}

\* The type invariant.
TypeOK ==
  /\ row \in [Ids -> {NoRow} \cup
       [status : Statuses, mmsId : BOOLEAN, push : BOOLEAN, unread : BOOLEAN,
        wanted : BOOLEAN, read : BOOLEAN, parts : BOOLEAN]]
  /\ files \in [Ids -> {"none", "some", "all"}]
  /\ active \subseteq (Modems \cup {NoPath}) \X Ids
  /\ present \subseteq Modems /\ roaming \subseteq present
  /\ job \in [Ids -> {"none", "asked", "auto", "user"}]
  /\ cancels \subseteq Ids /\ reports \subseteq In /\ awaiting \subseteq Out
  /\ bus \in Seq([id : Ids, what : States \cup {"received", "replied", "callFailed",
                    "sent", "retrieved", "expired", "final", "transient"}])
  /\ deleted \subseteq Ids /\ cancelled \subseteq In /\ answered \subseteq In
  /\ lost \subseteq Ids

\* What the engine does for an event of the daemon can be cancelled: it is listed
\* under a modem path, or its cancel call is on the way (m_activeEvents, which
\* dataProhibitedChanged goes through), unless the database refused an update:
\* then the user may send again what is still on its way.
JobsListed ==
  \A e \in Ids \ lost : Exists(e) /\ job[e] \in {"asked", "auto"} =>
    e \in cancels \/ \E path \in {Sim[e], NoPath} : <<path, e>> \in active

\* A message that was not received keeps the data of its notification, so that
\* it can be downloaded later, whatever fails (messageReceived reads the event
\* again before it marks it as failed).
PushDataKept ==
  \A e \in In \ deleted : Exists(e) /\ row[e].status # "received" => row[e].push

\* The storage holds the parts of an event that has parts, and no others
\* (copyMmsPartFiles, and what its callers clean up).
FilesMatchRow ==
  \A e \in Ids : files[e] = IF Exists(e) /\ row[e].parts THEN "all" ELSE "none"

\* A read report the sender asked for, and the user allows, stays due until the
\* engine has dealt with it for good (the unread property).
ReportStaysDue ==
  \A e \in In :
    Exists(e) /\ row[e].status = "received" /\ row[e].wanted /\ Sim[e] \in SendsReports
      => row[e].unread \/ e \in answered

\* Nothing is forgotten that is needed later: to cancel, to download again, to
\* report, whatever call of the engine, the bus or the database failed before.
StaysPossible == JobsListed /\ PushDataKept /\ ReportStaysDue

\* A message that is being sent or downloaded ends up sent, received or failed,
\* unless the database refused an update of it.
InProgressEnds ==
  \A e \in Ids :
    Exists(e) /\ ~Ended(row[e].status) ~> ~Exists(e) \/ Ended(row[e].status) \/ e \in lost

\* "Avoid overwriting the status for cancelled receive calls"
\* (mmshandler.cpp:308): a download the user cancelled is not marked as failed.
CancelledNotFailed ==
  \A e \in cancelled : Exists(e) => row[e].status # "temporarilyFailed"

\* "Refusing to send MMS message due to data roaming restrictions"
\* (mmshandler.cpp:734): nothing is sent or fetched over a modem that roams
\* where that is not allowed, or it is being cancelled.
NothingWhileProhibited ==
  \A e \in Ids : job[e] \in {"asked", "auto"} /\ Sim[e] \in roaming => e \in cancels
=============================================================================
