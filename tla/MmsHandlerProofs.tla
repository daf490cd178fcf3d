--------------------------- MODULE MmsHandlerProofs ---------------------------
(***************************************************************************)
(* Proofs about MmsHandler: types, the files of each message, and that     *)
(* nothing is forgotten which is needed later.                             *)
(*                                                                         *)
(* What the daemon remembers of a message is right because of the order in *)
(* which the engine speaks: the end of a job is the last thing it says of  *)
(* that job, and a delivery report comes after the end.  The inductive     *)
(* invariant states this order for the calls under way.  Each message has  *)
(* its own part of it, which only the steps about that message disturb.    *)
(***************************************************************************)
EXTENDS MmsHandler, SequenceTheorems, TLAPS

-----------------------------------------------------------------------------
(* The order of calls *)

Working   == {"busy", "deferred", "replied"}
InAnswers == {"final", "transient"}
Reports   == {"retrieved", "expired"}
Closing   == {"error", "broken", "callFailed"} \cup Reports
InEnds    == {"error", "broken", "received"}
InSays    == {"busy", "deferred"} \cup InEnds \cup InAnswers
OutSays   == Working \cup {"sent"} \cup Closing

Whats == States \cup {"received", "replied", "callFailed", "sent", "retrieved",
                      "expired", "final", "transient"}

Message == [id : Ids, what : Whats]

\* the calls about e in b are all in W
Only(b, e, W) == \A i \in DOMAIN b : b[i].id = e => b[i].what \in W

\* after a call about e in E come only those in W
After(b, e, E, W) ==
  \A i, j \in DOMAIN b :
    i < j /\ b[i].id = e /\ b[j].id = e /\ b[i].what \in E => b[j].what \in W

-----------------------------------------------------------------------------
(* The inductive invariant *)

Rec == [status : Statuses, mmsId : BOOLEAN, push : BOOLEAN, unread : BOOLEAN,
        wanted : BOOLEAN, read : BOOLEAN, parts : BOOLEAN]

\* nothing is going on about e
Idle(e) == job[e] = "none" /\ e \notin awaiting \cup reports /\ Only(bus, e, {})

Listed(e) == e \in cancels \/ \E path \in {Sim[e], NoPath} : <<path, e>> \in active

\* what holds of every message
AnyOk(e) ==
  /\ files[e] = IF row[e] # NoRow /\ row[e].parts THEN "all" ELSE "none"
  /\ row[e] = NoRow /\ e \notin deleted => Idle(e)
  /\ e \notin lost /\ row[e] # NoRow /\ job[e] \in {"asked", "auto"} => Listed(e)

\* what the engine may still say of an incoming message
InOrder(e) ==
  /\ job[e] # "asked"
  /\ Only(bus, e, InSays)
  /\ After(bus, e, InEnds, InAnswers)
  /\ job[e] # "none" => Only(bus, e, {"busy", "deferred"} \cup InAnswers)

\* an event that was received stays so, and has parts only then
InRow(e) ==
  row[e] # NoRow =>
    /\ row[e].status = "received" => job[e] = "none" /\ Only(bus, e, InAnswers)
    /\ row[e].parts => row[e].status = "received"
    /\ row[e].status # "received" /\ e \notin deleted => row[e].push
    /\ row[e].status = "received" /\ row[e].wanted /\ Sim[e] \in SendsReports
         => row[e].unread \/ e \in answered

\* what the engine may still say of a message that is sent, unless the database
\* refused an update: then it may be sent a second time
OutOrder(e) ==
  e \notin lost =>
    /\ After(bus, e, {"sent"}, Reports)
    /\ After(bus, e, Closing, {})
    /\ job[e] # "none" => e \notin awaiting /\ Only(bus, e, Working)
    /\ e \in awaiting => Only(bus, e, Working \cup {"sent"})
    /\ row[e] # NoRow /\ row[e].status \in Failed => Idle(e)

InOk(e)  == AnyOk(e) /\ InOrder(e) /\ InRow(e)
OutOk(e) == AnyOk(e) /\ Only(bus, e, OutSays) /\ OutOrder(e)

IInv ==
  /\ TypeOK
  /\ \A e \in In : InOk(e)
  /\ \A e \in Out : OutOk(e)

-----------------------------------------------------------------------------
(* Calls that are added and taken *)

LEMMA SeqDomain ==
  ASSUME NEW b \in Seq(Message)
  PROVE  Len(b) \in Nat /\ DOMAIN b = 1 .. Len(b)
  OBVIOUS

LEMMA OnlyMore ==
  ASSUME NEW b, NEW e, NEW V, NEW W, V \subseteq W, Only(b, e, V)
  PROVE  Only(b, e, W)
  BY DEF Only

LEMMA OnlyAppend ==
  ASSUME NEW b \in Seq(Message), NEW c \in Message, NEW e, NEW W,
         Only(b, e, W), c.id = e => c.what \in W
  PROVE  Only(Append(b, c), e, W)
<1> DEFINE a == Append(b, c)
<1>1. /\ a \in Seq(Message) /\ Len(a) = Len(b) + 1
      /\ \A i \in 1 .. Len(b) : a[i] = b[i]
      /\ a[Len(b) + 1] = c
  BY AppendProperties
<1>2. DOMAIN a = 1 .. Len(a) /\ DOMAIN b = 1 .. Len(b) /\ Len(b) \in Nat
  BY <1>1, SeqDomain
<1> HIDE DEF a
<1>3. ASSUME NEW i \in DOMAIN a, a[i].id = e
      PROVE  a[i].what \in W
  <2>1. CASE i \in 1 .. Len(b)
    BY <2>1, <1>1, <1>2, <1>3 DEF Only
  <2>2. CASE i = Len(b) + 1
    BY <2>2, <1>1, <1>3
  <2> QED BY <2>1, <2>2, <1>1, <1>2
<1> QED BY <1>3 DEF Only, a

LEMMA AfterAppend ==
  ASSUME NEW b \in Seq(Message), NEW c \in Message, NEW e, NEW E, NEW W, NEW V,
         After(b, e, E, W),
         c.id = e => c.what \in W \/ Only(b, e, V),
         V \cap E = {}
  PROVE  After(Append(b, c), e, E, W)
<1> DEFINE a == Append(b, c)
<1>1. /\ a \in Seq(Message) /\ Len(a) = Len(b) + 1
      /\ \A i \in 1 .. Len(b) : a[i] = b[i]
      /\ a[Len(b) + 1] = c
  BY AppendProperties
<1>2. DOMAIN a = 1 .. Len(a) /\ DOMAIN b = 1 .. Len(b) /\ Len(b) \in Nat
  BY <1>1, SeqDomain
<1> HIDE DEF a
<1>3. ASSUME NEW i \in DOMAIN a, NEW j \in DOMAIN a,
             i < j, a[i].id = e, a[j].id = e, a[i].what \in E
      PROVE  a[j].what \in W
  <2>0. i \in 1 .. Len(b)
    BY <1>1, <1>2, <1>3
  <2>1. CASE j \in 1 .. Len(b)
    BY <2>0, <2>1, <1>1, <1>2, <1>3 DEF After
  <2>2. CASE j = Len(b) + 1
    <3>1. a[i] = b[i] /\ a[j] = c
      BY <2>0, <2>2, <1>1
    <3>2. ~Only(b, e, V)
      BY <3>1, <2>0, <1>2, <1>3 DEF Only
    <3> QED BY <3>1, <3>2, <1>3
  <2> QED BY <2>1, <2>2, <1>1, <1>2
<1> QED BY <1>3 DEF After, a

LEMMA OnlyTail ==
  ASSUME NEW b \in Seq(Message), b # <<>>, NEW e, NEW W, Only(b, e, W)
  PROVE  Only(Tail(b), e, W) /\ (Head(b).id = e => Head(b).what \in W)
<1> DEFINE t == Tail(b)
<1>1. t \in Seq(Message) /\ Len(t) = Len(b) - 1 /\ \A i \in 1 .. Len(t) : t[i] = b[i + 1]
  BY HeadTailProperties
<1>2. DOMAIN t = 1 .. Len(t) /\ DOMAIN b = 1 .. Len(b) /\ Len(b) \in Nat /\ Len(t) \in Nat
  BY <1>1, SeqDomain
<1>3. 1 \in DOMAIN b /\ Head(b) = b[1]
  BY <1>1, <1>2
<1> HIDE DEF t
<1>4. \A i \in DOMAIN t : t[i] = b[i + 1] /\ i + 1 \in DOMAIN b
  BY <1>1, <1>2
<1> QED BY <1>3, <1>4 DEF Only, t

LEMMA AfterTail ==
  ASSUME NEW b \in Seq(Message), b # <<>>, NEW e, NEW E, NEW W, After(b, e, E, W)
  PROVE  /\ After(Tail(b), e, E, W)
         /\ Head(b).id = e /\ Head(b).what \in E => Only(Tail(b), e, W)
<1> DEFINE t == Tail(b)
<1>1. t \in Seq(Message) /\ Len(t) = Len(b) - 1 /\ \A i \in 1 .. Len(t) : t[i] = b[i + 1]
  BY HeadTailProperties
<1>2. DOMAIN t = 1 .. Len(t) /\ DOMAIN b = 1 .. Len(b) /\ Len(b) \in Nat /\ Len(t) \in Nat
  BY <1>1, SeqDomain
<1>3. 1 \in DOMAIN b /\ Head(b) = b[1]
  BY <1>1, <1>2
<1> HIDE DEF t
<1>4. \A i \in DOMAIN t : t[i] = b[i + 1] /\ i + 1 \in DOMAIN b /\ 1 < i + 1
  BY <1>1, <1>2
<1>5. \A i, j \in DOMAIN t : i < j => i + 1 < j + 1
  BY <1>2
<1>6. After(t, e, E, W)
  BY <1>4, <1>5 DEF After
<1>7. ASSUME Head(b).id = e, Head(b).what \in E
      PROVE  Only(t, e, W)
  BY <1>3, <1>4, <1>7 DEF After, Only
<1> QED BY <1>6, <1>7 DEF t

-----------------------------------------------------------------------------
(* What a step leaves alone *)

\* a step about another message
Same(f) ==
  /\ row'[f] = row[f] /\ files'[f] = files[f] /\ job'[f] = job[f]
  /\ f \in awaiting' <=> f \in awaiting
  /\ f \in reports' <=> f \in reports
  /\ f \in deleted' <=> f \in deleted
  /\ f \in lost => f \in lost'
  /\ f \in answered => f \in answered'
  /\ Listed(f) => Listed(f)'
  /\ \/ bus' = bus
     \/ \E c \in Message : c.id # f /\ bus' = Append(bus, c)
     \/ bus # <<>> /\ bus' = Tail(bus)

\* what each step is shown to do: e is the message it is about
Result(e) ==
  /\ TypeOK'
  /\ e \in In => InOk(e)'
  /\ e \in Out => OutOk(e)'
  /\ \A f \in Ids \ {e} : Same(f)

LEMMA BusType == TypeOK => bus \in Seq(Message)
  BY DEF TypeOK, Message, Whats

LEMMA OnlySame ==
  ASSUME TypeOK, NEW f, Same(f), NEW W, Only(bus, f, W)
  PROVE  Only(bus', f, W)
<1>1. CASE bus' = bus
  BY <1>1
<1>2. CASE \E c \in Message : c.id # f /\ bus' = Append(bus, c)
  BY <1>2, BusType, OnlyAppend
<1>3. CASE bus # <<>> /\ bus' = Tail(bus)
  BY <1>3, BusType, OnlyTail
<1> QED BY <1>1, <1>2, <1>3 DEF Same

LEMMA AfterSame ==
  ASSUME TypeOK, NEW f, Same(f), NEW E, NEW W, After(bus, f, E, W)
  PROVE  After(bus', f, E, W)
<1>1. CASE bus' = bus
  BY <1>1
<1>2. CASE \E c \in Message : c.id # f /\ bus' = Append(bus, c)
  <2>1. PICK c \in Message : c.id # f /\ bus' = Append(bus, c)
    BY <1>2
  <2>2. {} \cap E = {} /\ (c.id = f => c.what \in W \/ Only(bus, f, {}))
    BY <2>1
  <2> QED BY <2>1, <2>2, BusType, AfterAppend
<1>3. CASE bus # <<>> /\ bus' = Tail(bus)
  BY <1>3, BusType, AfterTail
<1> QED BY <1>1, <1>2, <1>3 DEF Same

LEMMA Untouched ==
  ASSUME TypeOK, NEW f, Same(f)
  PROVE  /\ InOk(f) => InOk(f)'
         /\ OutOk(f) => OutOk(f)'
<1>1. Idle(f) => Idle(f)'
  BY OnlySame DEF Idle, Same
<1>2. AnyOk(f) => AnyOk(f)'
  BY <1>1 DEF AnyOk, Same
<1>3. InOrder(f) => InOrder(f)'
  BY OnlySame, AfterSame DEF InOrder, Same
<1>4. InRow(f) => InRow(f)'
  BY OnlySame DEF InRow, Same
<1>5. OutOrder(f) => OutOrder(f)'
  BY <1>1, OnlySame, AfterSame DEF OutOrder, Same
<1>6. Only(bus, f, OutSays) => Only(bus', f, OutSays)
  BY OnlySame
<1> QED BY <1>2, <1>3, <1>4, <1>5, <1>6 DEF InOk, OutOk

LEMMA FromResult ==
  ASSUME IInv, NEW e \in Ids, Result(e)
  PROVE  IInv'
<1>1. \A f \in Ids \ {e} : (InOk(f) => InOk(f)') /\ (OutOk(f) => OutOk(f)')
  BY Untouched DEF IInv, Result
<1> QED BY <1>1 DEF IInv, Result, Ids

LEMMA FromSame ==
  ASSUME IInv, TypeOK', \A f \in Ids : Same(f)
  PROVE  IInv'
<1>1. \A f \in Ids : (InOk(f) => InOk(f)') /\ (OutOk(f) => OutOk(f)')
  BY Untouched DEF IInv
<1> QED BY <1>1 DEF IInv, Ids

\* what is stored when the database may refuse it
LEMMA Modified ==
  ASSUME NEW e \in Ids, NEW rows \in [Ids -> {NoRow} \cup Rec], NEW r \in Rec,
         NEW ok \in BOOLEAN, lost \subseteq Ids, Modify(rows, e, r, ok)
  PROVE  /\ row' \in [Ids -> {NoRow} \cup Rec] /\ lost' \subseteq Ids
         /\ \A f \in Ids \ {e} : row'[f] = rows[f]
         /\ lost \subseteq lost'
         /\ \/ row'[e] = r
            \/ row'[e] = rows[e] /\ e \in lost'
  BY DEF Modify

LEMMA RowRec == NoRow \notin Rec
  BY DEF NoRow, Rec, Statuses

LEMMA TypeRow ==
  TypeOK <=>
    /\ row \in [Ids -> {NoRow} \cup Rec]
    /\ files \in [Ids -> {"none", "some", "all"}]
    /\ active \subseteq (Modems \cup {NoPath}) \X Ids
    /\ present \subseteq Modems /\ roaming \subseteq present
    /\ job \in [Ids -> {"none", "asked", "auto", "user"}]
    /\ cancels \subseteq Ids /\ reports \subseteq In /\ awaiting \subseteq Out
    /\ bus \in Seq(Message)
    /\ deleted \subseteq Ids /\ cancelled \subseteq In /\ answered \subseteq In
    /\ lost \subseteq Ids
  BY DEF TypeOK, Rec, Message, Whats

LEMMA TypeNext ==
  ASSUME row' \in [Ids -> {NoRow} \cup Rec],
         files' \in [Ids -> {"none", "some", "all"}],
         active' \subseteq (Modems \cup {NoPath}) \X Ids,
         present' \subseteq Modems, roaming' \subseteq present',
         job' \in [Ids -> {"none", "asked", "auto", "user"}],
         cancels' \subseteq Ids, reports' \subseteq In, awaiting' \subseteq Out,
         bus' \in Seq(Message),
         deleted' \subseteq Ids, cancelled' \subseteq In, answered' \subseteq In,
         lost' \subseteq Ids
  PROVE  TypeOK'
  BY DEF TypeOK, Rec, Message, Whats

\* rows as the code changes them
LEMMA WithStatus ==
  ASSUME NEW x \in Rec, NEW s \in Statuses
  PROVE  LET r == [x EXCEPT !.status = s] IN
         /\ r \in Rec /\ r.status = s
         /\ r.parts = x.parts /\ r.push = x.push /\ r.read = x.read
         /\ r.wanted = x.wanted /\ r.unread = x.unread
  BY DEF Rec

LEMMA WithRead ==
  ASSUME NEW x \in Rec
  PROVE  LET r == [x EXCEPT !.read = TRUE] IN
         /\ r \in Rec /\ r.status = x.status
         /\ r.parts = x.parts /\ r.push = x.push
         /\ r.wanted = x.wanted /\ r.unread = x.unread
  BY DEF Rec

LEMMA WithUnread ==
  ASSUME NEW x \in Rec
  PROVE  LET r == [x EXCEPT !.unread = FALSE] IN
         /\ r \in Rec /\ r.status = x.status
         /\ r.parts = x.parts /\ r.push = x.push
         /\ r.wanted = x.wanted /\ r.unread = FALSE
  BY DEF Rec

LEMMA OutcomeType == ASSUME NEW call PROVE Outcome(call) \subseteq BOOLEAN
  BY DEF Outcome

-----------------------------------------------------------------------------
(* Steps of modems and the user *)

LEMMA ModemSteps ==
  ASSUME IInv, NEW p \in Modems,
         RoamingChanged(p) \/ ModemAdded(p) \/ ModemRemoved(p)
  PROVE  IInv'
<1> USE DEF IInv, engine, history, modems
<1>1. CASE ModemAdded(p)
  <2>1. TypeOK'
    BY <1>1, TypeRow DEF ModemAdded, TypeOK
  <2>2. \A f \in Ids : Same(f)
    BY <1>1 DEF ModemAdded, Same, Listed
  <2> QED BY <2>1, <2>2, FromSame
<1>2. CASE ModemRemoved(p)
  <2>1. TypeOK'
    BY <1>2, TypeRow DEF ModemRemoved, RoamingWithout, TypeOK
  <2>2. \A f \in Ids : Same(f)
    BY <1>2 DEF ModemRemoved, Same, Listed
  <2> QED BY <2>1, <2>2, FromSame
<1>3. CASE RoamingChanged(p)
  <2>1. /\ UNCHANGED <<row, files, present, job, reports, awaiting, bus, deleted,
                       cancelled, answered, lost>>
        /\ roaming' = roaming \cup {p} \/ roaming' = roaming \ {p}
        /\ p \in present
        /\ \/ cancels' = cancels \cup Cancelled(p) /\ active' = active \ ({p} \X Ids)
           \/ cancels' = cancels /\ active' = active
    BY <1>3 DEF RoamingChanged
  <2>2. TypeOK'
    BY <2>1 DEF TypeOK, Cancelled
  <2>3. ASSUME NEW f \in Ids, Listed(f) PROVE Listed(f)'
    <3>1. CASE cancels' = cancels \cup Cancelled(p) /\ active' = active \ ({p} \X Ids)
      BY <3>1, <2>3 DEF Listed, Cancelled
    <3>2. CASE cancels' = cancels /\ active' = active
      BY <3>2, <2>3 DEF Listed
    <3> QED BY <3>1, <3>2, <2>1
  <2>4. \A f \in Ids : Same(f)
    BY <2>1, <2>3 DEF Same
  <2> QED BY <2>2, <2>4, FromSame
<1> QED BY <1>1, <1>2, <1>3

\* the parts of Result that say what a step about e leaves alone
LEMMA OtherIds ==
  ASSUME NEW e \in Ids,
         \A f \in Ids \ {e} :
           /\ row'[f] = row[f] /\ files'[f] = files[f] /\ job'[f] = job[f]
           /\ f \in awaiting' <=> f \in awaiting
           /\ f \in reports' <=> f \in reports
           /\ f \in deleted' <=> f \in deleted
           /\ f \in lost => f \in lost'
           /\ f \in answered => f \in answered'
           /\ f \in cancels => f \in cancels'
           /\ \A path : <<path, f>> \in active => <<path, f>> \in active',
         \/ bus' = bus
         \/ \E c \in Message : c.id = e /\ bus' = Append(bus, c)
         \/ bus # <<>> /\ bus' = Tail(bus)
  PROVE  \A f \in Ids \ {e} : Same(f)
  BY DEF Same, Listed

LEMMA NotificationStep ==
  ASSUME IInv, NEW e \in In, NEW automatic \in BOOLEAN, MessageNotification(e, automatic)
  PROVE  Result(e)
<1> USE DEF IInv
<1> e \in Ids
  BY DEF Ids
<1> DEFINE path == ModemPath(Sim[e])
           manual == IsDataProhibited(path) \/ ~automatic
           r == Row(IF manual THEN "manual" ELSE "waiting", Location[e] # NoLocation, TRUE, TRUE)
<1>1. r \in Rec /\ r.status # "received" /\ r.parts = FALSE /\ r.push = TRUE
  BY DEF Row, Rec, Statuses
<1>2. /\ row[e] = NoRow /\ e \notin deleted
      /\ row' = [row EXCEPT ![e] = r]
      /\ \/ active' = active /\ job' = job
         \/ active' = active \cup {<<path, e>>} /\ job' = [job EXCEPT ![e] = "auto"]
      /\ files' = files /\ present' = present /\ roaming' = roaming /\ cancels' = cancels
      /\ reports' = reports /\ awaiting' = awaiting /\ bus' = bus /\ deleted' = deleted
      /\ cancelled' = cancelled /\ answered' = answered /\ lost' = lost
  BY DEF MessageNotification, Exists, history, modems
<1>3. path \in {Sim[e], NoPath} /\ Sim[e] \in Modems
  BY MmsAssumption DEF ModemPath
<1> HIDE DEF r, path
<1>4. TypeOK'
  <2>1. active' \subseteq (Modems \cup {NoPath}) \X Ids
    BY <1>2, <1>3, TypeRow
  <2>2. job' \in [Ids -> {"none", "asked", "auto", "user"}]
    BY <1>2, TypeRow
  <2>3. row' \in [Ids -> {NoRow} \cup Rec]
    BY <1>1, <1>2, TypeRow
  <2> QED BY <1>2, <2>1, <2>2, <2>3, TypeRow, TypeNext
<1>5. \A f \in Ids \ {e} : Same(f)
  BY <1>2, OtherIds, TypeRow
<1>6. InOk(e) /\ Idle(e) /\ row'[e] = r /\ files[e] = "none"
  BY <1>2, TypeRow DEF InOk, AnyOk
<1>7. AnyOk(e)'
  <2>1. job'[e] \in {"asked", "auto"} => Listed(e)'
    BY <1>2, <1>3, <1>6, TypeRow DEF Idle, Listed
  <2> QED BY <2>1, <1>1, <1>2, <1>6, RowRec DEF AnyOk
<1>8. InOrder(e)' /\ InRow(e)'
  <2>1. \A W : Only(bus, e, W)
    BY <1>6 DEF Idle, Only
  <2> QED BY <2>1, <1>1, <1>2, <1>6, TypeRow DEF InOrder, InRow, InOk, Idle
<1> QED BY <1>4, <1>5, <1>7, <1>8, MmsAssumption DEF Result, InOk

LEMMA ReadStep ==
  ASSUME IInv, NEW e \in Ids, UserReads(e)
  PROVE  Result(e)
<1> USE DEF IInv
<1> DEFINE r == [row[e] EXCEPT !.read = TRUE]
<1>0. row[e] # NoRow /\ row[e] \in Rec
  BY TypeRow DEF UserReads, Exists
<1>1. /\ r \in Rec /\ r # NoRow
      /\ r.status = row[e].status /\ r.parts = row[e].parts /\ r.push = row[e].push
      /\ r.wanted = row[e].wanted /\ r.unread = row[e].unread
  BY <1>0, WithRead, RowRec
<1>2. row' = [row EXCEPT ![e] = r]
  BY DEF UserReads
<1>3. UNCHANGED <<files, active, present, roaming, job, cancels, reports, awaiting, bus,
                  deleted, cancelled, answered, lost>>
  BY DEF UserReads, modems, engine, history
<1> HIDE DEF r
<1>4. TypeOK' /\ row'[e] = r
  BY <1>1, <1>2, <1>3, TypeRow DEF TypeOK, Rec
<1>5. \A f \in Ids \ {e} : Same(f)
  BY <1>2, <1>3, OtherIds, TypeRow
<1>6. AnyOk(e) => AnyOk(e)'
  BY <1>0, <1>1, <1>3, <1>4 DEF AnyOk, Idle, Listed
<1>7. InOk(e) => InOk(e)'
  BY <1>0, <1>1, <1>3, <1>4, <1>6 DEF InOk, InOrder, InRow
<1>8. OutOk(e) => OutOk(e)'
  BY <1>0, <1>1, <1>3, <1>4, <1>6 DEF OutOk, OutOrder, Idle
<1> QED BY <1>4, <1>5, <1>7, <1>8 DEF Result

LEMMA DeleteStep ==
  ASSUME IInv, NEW e \in Ids, UserDeletes(e)
  PROVE  Result(e)
<1> USE DEF IInv
<1>1. /\ row' = [row EXCEPT ![e] = NoRow]
      /\ files' = [files EXCEPT ![e] = "none"]
      /\ deleted' = deleted \cup {e}
      /\ UNCHANGED <<active, present, roaming, job, cancels, reports, awaiting, bus,
                     cancelled, answered, lost>>
  BY DEF UserDeletes, modems, engine
<1>2. TypeOK' /\ row'[e] = NoRow /\ files'[e] = "none" /\ e \in deleted'
  BY <1>1, TypeRow DEF TypeOK, Rec
<1>3. \A f \in Ids \ {e} : Same(f)
  BY <1>1, OtherIds, TypeRow
<1>4. AnyOk(e)'
  BY <1>2 DEF AnyOk
<1>5. InOk(e) => InOk(e)'
  BY <1>1, <1>2, <1>4 DEF InOk, InOrder, InRow
<1>6. OutOk(e) => OutOk(e)'
  BY <1>1, <1>2, <1>4 DEF OutOk, OutOrder
<1> QED BY <1>2, <1>3, <1>5, <1>6 DEF Result

LEMMA DownloadStep ==
  ASSUME IInv, NEW e \in In, UserDownloads(e)
  PROVE  Result(e)
<1> USE DEF IInv
<1> e \in Ids
  BY DEF Ids
<1>1. /\ row[e] # NoRow /\ row[e].status # "received"
      /\ Only(bus, e, {})
      /\ job' = [job EXCEPT ![e] = "user"]
      /\ cancelled' = cancelled \ {e}
      /\ UNCHANGED <<row, files, active, present, roaming, cancels, reports, awaiting, bus,
                     deleted, answered, lost>>
  BY DEF UserDownloads, modems, Exists, Only
<1>2. TypeOK' /\ job'[e] = "user"
  BY <1>1, TypeRow DEF TypeOK
<1>3. \A f \in Ids \ {e} : Same(f)
  BY <1>1, OtherIds, TypeRow
<1>4. \A W : Only(bus, e, W)
  BY <1>1 DEF Only
<1>5. InOk(e)'
  BY <1>1, <1>2, <1>4 DEF InOk, AnyOk, InOrder, InRow
<1> QED BY <1>2, <1>3, <1>5, MmsAssumption DEF Result

LEMMA CancelStep ==
  ASSUME IInv, NEW e \in In, UserCancels(e)
  PROVE  Result(e)
<1> USE DEF IInv
<1> e \in Ids
  BY DEF Ids
<1> DEFINE r == [row[e] EXCEPT !.status = "manual"]
<1>1. /\ row[e] # NoRow /\ row[e] \in Rec /\ row[e].status # "received"
      /\ r \in Rec /\ r # NoRow /\ r.status = "manual"
      /\ r.parts = row[e].parts /\ r.push = row[e].push
  BY TypeRow, RowRec DEF UserCancels, Exists, Rec, Statuses
<1>2. /\ row' = [row EXCEPT ![e] = r]
      /\ cancels' = cancels \cup {e}
      /\ cancelled' = cancelled \cup {e}
      /\ UNCHANGED <<files, active, present, roaming, job, reports, awaiting, bus, deleted,
                     answered, lost>>
  BY DEF UserCancels, modems
<1> HIDE DEF r
<1>3. TypeOK' /\ row'[e] = r
  BY <1>1, <1>2, TypeRow DEF TypeOK, Rec
<1>4. \A f \in Ids \ {e} : Same(f)
  BY <1>2, OtherIds, TypeRow
<1>5. InOk(e)'
  BY <1>1, <1>2, <1>3 DEF InOk, AnyOk, InOrder, InRow, Listed
<1> QED BY <1>3, <1>4, <1>5, MmsAssumption DEF Result

-----------------------------------------------------------------------------
(* Steps that send *)

LEMMA Sending ==
  ASSUME IInv, NEW e \in Out, NEW rows \in [Ids -> {NoRow} \cup Rec], rows[e] \in Rec,
         NEW opened, NEW ok \in BOOLEAN, SendMessageFromEvent(rows, e, opened, ok)
  PROVE  /\ row' \in [Ids -> {NoRow} \cup Rec] /\ lost' \subseteq Ids
         /\ \A f \in Ids \ {e} : row'[f] = rows[f]
         /\ lost \subseteq lost'
         /\ row'[e] \in Rec /\ row'[e].parts = rows[e].parts
         /\ \/ active' = active /\ job' = job
            \/ /\ active' = active \cup {<<ModemPath(Sim[e]), e>>}
               /\ job' = [job EXCEPT ![e] = "asked"]
               /\ e \notin lost' => row'[e].status = "sending"
<1> e \in Ids /\ lost \subseteq Ids
  BY TypeRow DEF Ids, IInv
<1> "sending" \in Statuses /\ "temporarilyFailed" \in Statuses
  BY DEF Statuses
<1> DEFINE sent == [rows[e] EXCEPT !.status = "sending"]
           failed == [rows[e] EXCEPT !.status = "temporarilyFailed"]
<1>1. /\ sent \in Rec /\ sent.status = "sending" /\ sent.parts = rows[e].parts
      /\ failed \in Rec /\ failed.parts = rows[e].parts
  BY WithStatus
<1> HIDE DEF sent, failed
<1>2. CASE opened
  <2>1. /\ active' = active \cup {<<ModemPath(Sim[e]), e>>}
        /\ job' = [job EXCEPT ![e] = "asked"]
    BY <1>2 DEF SendMessageFromEvent
  <2>2. CASE rows[e].status = "sending"
    <3>1. row' = rows /\ lost' = lost
      BY <1>2, <2>2 DEF SendMessageFromEvent
    <3> QED BY <2>1, <2>2, <3>1
  <2>3. CASE rows[e].status # "sending"
    <3>1. Modify(rows, e, sent, ok)
      BY <1>2, <2>3 DEF SendMessageFromEvent, sent
    <3> QED BY <1>1, <2>1, <3>1, Modified
  <2> QED BY <2>2, <2>3
<1>3. CASE ~opened
  <2>1. active' = active /\ job' = job /\ Modify(rows, e, failed, ok)
    BY <1>3 DEF SendMessageFromEvent, failed
  <2> QED BY <1>1, <2>1, Modified
<1> QED BY <1>2, <1>3

\* a message that nothing was going on about
LEMMA Started ==
  ASSUME IInv, NEW e \in Out, Idle(e), Only(bus, e, OutSays),
         UNCHANGED <<bus, awaiting, reports, cancels>>,
         row'[e] \in Rec,
         files'[e] = IF row'[e].parts THEN "all" ELSE "none",
         \/ active' = active /\ job' = job
         \/ /\ active' = active \cup {<<ModemPath(Sim[e]), e>>}
            /\ job' = [job EXCEPT ![e] = "asked"]
            /\ e \notin lost' => row'[e].status = "sending"
  PROVE  OutOk(e)'
<1> e \in Ids
  BY DEF Ids
<1>1. row'[e] # NoRow
  BY RowRec
<1>2. \A W : Only(bus', e, W)
  BY DEF Idle, Only
<1>3. \A E, W : After(bus', e, E, W)
  BY DEF Idle, Only, After
<1>4. CASE active' = active /\ job' = job
  BY <1>1, <1>2, <1>3, <1>4 DEF Idle, OutOk, AnyOk, OutOrder
<1>5. CASE /\ active' = active \cup {<<ModemPath(Sim[e]), e>>}
           /\ job' = [job EXCEPT ![e] = "asked"]
           /\ e \notin lost' => row'[e].status = "sending"
  <2>1. Listed(e)' /\ job'[e] = "asked"
    BY <1>5, TypeRow, MmsAssumption DEF Listed, ModemPath, IInv
  <2>2. e \notin lost' => row'[e].status \notin Failed
    BY <1>5 DEF Failed
  <2> QED BY <1>1, <1>2, <1>3, <2>1, <2>2 DEF Idle, OutOk, AnyOk, OutOrder
<1> QED BY <1>4, <1>5

LEMMA ResendStep ==
  ASSUME IInv, NEW e \in Out, Resend(e)
  PROVE  Result(e)
<1> e \in Ids
  BY DEF Ids
<1>1. PICK opened \in Outcome("open"), ok \in Outcome("modify") :
        SendMessageFromEvent(row, e, opened, ok)
  BY DEF Resend
<1>2. ok \in BOOLEAN
  BY OutcomeType
<1>3. /\ row[e] # NoRow /\ row[e] \in Rec /\ row[e].status \in Failed /\ row[e].parts
      /\ job[e] = "none"
      /\ UNCHANGED <<files, present, roaming, cancels, reports, awaiting, bus,
                     deleted, cancelled, answered>>
  BY TypeRow DEF Resend, Exists, modems, history, IInv
<1>4. /\ row' \in [Ids -> {NoRow} \cup Rec] /\ lost' \subseteq Ids
      /\ \A f \in Ids \ {e} : row'[f] = row[f]
      /\ lost \subseteq lost'
      /\ row'[e] \in Rec /\ row'[e].parts = row[e].parts
      /\ \/ active' = active /\ job' = job
         \/ /\ active' = active \cup {<<ModemPath(Sim[e]), e>>}
            /\ job' = [job EXCEPT ![e] = "asked"]
            /\ e \notin lost' => row'[e].status = "sending"
  <2>1. row \in [Ids -> {NoRow} \cup Rec]
    BY TypeRow DEF IInv
  <2> DEFINE rows == row
  <2>2. SendMessageFromEvent(rows, e, opened, ok) /\ rows[e] \in Rec
    BY <1>1, <1>3
  <2>3. rows \in [Ids -> {NoRow} \cup Rec]
    BY <2>1
  <2> HIDE DEF rows
  <2>4. /\ row' \in [Ids -> {NoRow} \cup Rec] /\ lost' \subseteq Ids
        /\ \A f \in Ids \ {e} : row'[f] = rows[f]
        /\ lost \subseteq lost'
        /\ row'[e] \in Rec /\ row'[e].parts = rows[e].parts
        /\ \/ active' = active /\ job' = job
           \/ /\ active' = active \cup {<<ModemPath(Sim[e]), e>>}
              /\ job' = [job EXCEPT ![e] = "asked"]
              /\ e \notin lost' => row'[e].status = "sending"
    BY <1>2, <2>2, <2>3, Sending
  <2> QED BY <2>4 DEF rows
<1>5. TypeOK'
  <2>1. ModemPath(Sim[e]) \in Modems \cup {NoPath}
    BY MmsAssumption DEF ModemPath
  <2>2. active' \subseteq (Modems \cup {NoPath}) \X Ids
    BY <1>4, <2>1, TypeRow DEF IInv
  <2>3. job' \in [Ids -> {"none", "asked", "auto", "user"}]
    BY <1>4, TypeRow DEF IInv
  <2> QED BY <1>3, <1>4, <2>2, <2>3, TypeRow, TypeNext DEF IInv
<1>6. \A f \in Ids \ {e} : Same(f)
  BY <1>3, <1>4, OtherIds, TypeRow DEF IInv
<1>7. OutOk(e)'
  <2>1. CASE e \notin lost
    <3>1. Idle(e)
      BY <1>3, <2>1 DEF IInv, OutOk, OutOrder
    <3>2. files[e] = "all"
      BY <1>3 DEF IInv, OutOk, AnyOk
    <3> QED BY <1>3, <1>4, <3>1, <3>2, Started DEF IInv, OutOk
  <2>2. CASE e \in lost
    <3>1. e \in lost' /\ row'[e] # NoRow /\ files'[e] = "all" /\ row'[e].parts
      BY <1>3, <1>4, <2>2, RowRec DEF IInv, OutOk, AnyOk
    <3>2. Only(bus', e, OutSays)
      BY <1>3 DEF IInv, OutOk
    <3> QED BY <3>1, <3>2 DEF OutOk, AnyOk, OutOrder
  <2> QED BY <2>1, <2>2
<1> QED BY <1>5, <1>6, <1>7, MmsAssumption DEF Result

LEMMA SendStep ==
  ASSUME IInv, NEW e \in Out, SendMessage(e)
  PROVE  Result(e)
<1> e \in Ids
  BY DEF Ids
<1> DEFINE new  == Row("sending", FALSE, FALSE, FALSE)
           full == [new EXCEPT !.parts = TRUE]
           half == [row EXCEPT ![e] = new]
           rows == [row EXCEPT ![e] = full]
<1>1. PICK copied \in Outcome("copy"), opened \in Outcome("open"),
           saved \in Outcome("modify"), again \in Outcome("modify") :
        \/ /\ ~(copied /\ saved)
           /\ Modify(half, e, [new EXCEPT !.status = "permanentlyFailed"], again)
           /\ files' = [files EXCEPT ![e] = CleanUp(IF copied THEN "all" ELSE "some")]
           /\ UNCHANGED <<active, job>>
        \/ /\ copied /\ saved
           /\ files' = [files EXCEPT ![e] = "all"]
           /\ IF IsDataProhibited(DefaultModem)
              THEN /\ Modify(rows, e, [rows[e] EXCEPT !.status = "temporarilyFailed"], again)
                   /\ UNCHANGED <<active, job>>
              ELSE SendMessageFromEvent(rows, e, opened, again)
  BY DEF SendMessage
<1>2. again \in BOOLEAN
  BY OutcomeType
<1>3. /\ row[e] = NoRow /\ e \notin deleted
      /\ UNCHANGED <<present, roaming, cancels, reports, awaiting, bus,
                     deleted, cancelled, answered>>
  BY DEF SendMessage, Exists, modems, history
<1>4. /\ new \in Rec /\ new.parts = FALSE /\ full \in Rec /\ full.parts = TRUE
  BY DEF Row, Rec, Statuses
<1>5. /\ half \in [Ids -> {NoRow} \cup Rec] /\ half[e] = new
      /\ rows \in [Ids -> {NoRow} \cup Rec] /\ rows[e] = full
      /\ \A f \in Ids \ {e} : half[f] = row[f] /\ rows[f] = row[f]
  BY <1>4, TypeRow DEF IInv
<1> HIDE DEF new, full, half, rows
<1>6. /\ "temporarilyFailed" \in Statuses /\ "permanentlyFailed" \in Statuses
      /\ lost \subseteq Ids
  BY TypeRow DEF Statuses, IInv
<1>7. /\ row' \in [Ids -> {NoRow} \cup Rec] /\ lost' \subseteq Ids
      /\ \A f \in Ids \ {e} : row'[f] = row[f]
      /\ lost \subseteq lost'
      /\ row'[e] \in Rec
      /\ files' = [files EXCEPT ![e] = IF row'[e].parts THEN "all" ELSE "none"]
      /\ \/ active' = active /\ job' = job
         \/ /\ active' = active \cup {<<ModemPath(Sim[e]), e>>}
            /\ job' = [job EXCEPT ![e] = "asked"]
            /\ e \notin lost' => row'[e].status = "sending"
  <2>1. CASE ~(copied /\ saved)
    <3> DEFINE r == [new EXCEPT !.status = "permanentlyFailed"]
    <3>1. r \in Rec /\ r.parts = FALSE
      BY <1>4, <1>6, WithStatus
    <3>2. Modify(half, e, r, again) /\ active' = active /\ job' = job
          /\ files' = [files EXCEPT ![e] = "none"]
      BY <1>1, <2>1 DEF CleanUp
    <3> HIDE DEF r
    <3>3. /\ row' \in [Ids -> {NoRow} \cup Rec] /\ lost' \subseteq Ids
          /\ \A f \in Ids \ {e} : row'[f] = half[f]
          /\ lost \subseteq lost'
          /\ row'[e] = r \/ row'[e] = half[e]
      BY <1>2, <1>5, <1>6, <3>1, <3>2, Modified
    <3> QED BY <1>4, <1>5, <3>1, <3>2, <3>3
  <2>2. CASE copied /\ saved /\ IsDataProhibited(DefaultModem)
    <3> DEFINE r == [rows[e] EXCEPT !.status = "temporarilyFailed"]
    <3>1. r \in Rec /\ r.parts = TRUE
      BY <1>4, <1>5, <1>6, WithStatus
    <3>2. Modify(rows, e, r, again) /\ active' = active /\ job' = job
          /\ files' = [files EXCEPT ![e] = "all"]
      BY <1>1, <2>2
    <3> HIDE DEF r
    <3>3. /\ row' \in [Ids -> {NoRow} \cup Rec] /\ lost' \subseteq Ids
          /\ \A f \in Ids \ {e} : row'[f] = rows[f]
          /\ lost \subseteq lost'
          /\ row'[e] = r \/ row'[e] = rows[e]
      BY <1>2, <1>5, <1>6, <3>1, <3>2, Modified
    <3> QED BY <1>4, <1>5, <3>1, <3>2, <3>3
  <2>3. CASE copied /\ saved /\ ~IsDataProhibited(DefaultModem)
    <3>1. SendMessageFromEvent(rows, e, opened, again)
          /\ files' = [files EXCEPT ![e] = "all"]
      BY <1>1, <2>3
    <3>2. /\ row' \in [Ids -> {NoRow} \cup Rec] /\ lost' \subseteq Ids
          /\ \A f \in Ids \ {e} : row'[f] = rows[f]
          /\ lost \subseteq lost'
          /\ row'[e] \in Rec /\ row'[e].parts = TRUE
          /\ \/ active' = active /\ job' = job
             \/ /\ active' = active \cup {<<ModemPath(Sim[e]), e>>}
                /\ job' = [job EXCEPT ![e] = "asked"]
                /\ e \notin lost' => row'[e].status = "sending"
      BY <1>2, <1>4, <1>5, <3>1, Sending
    <3> QED BY <1>5, <3>1, <3>2
  <2> QED BY <2>1, <2>2, <2>3
<1>8. TypeOK'
  <2>1. ModemPath(Sim[e]) \in Modems \cup {NoPath}
    BY MmsAssumption DEF ModemPath
  <2>2. active' \subseteq (Modems \cup {NoPath}) \X Ids
    BY <1>7, <2>1, TypeRow DEF IInv
  <2>3. job' \in [Ids -> {"none", "asked", "auto", "user"}]
    BY <1>7, TypeRow DEF IInv
  <2>4. files' \in [Ids -> {"none", "some", "all"}]
    BY <1>7, TypeRow DEF IInv
  <2> QED BY <1>3, <1>7, <2>2, <2>3, <2>4, TypeRow, TypeNext DEF IInv
<1>9. \A f \in Ids \ {e} : Same(f)
  BY <1>3, <1>7, OtherIds, TypeRow DEF IInv
<1>10. OutOk(e)'
  <2>1. Idle(e) /\ Only(bus, e, OutSays)
    BY <1>3 DEF IInv, OutOk, AnyOk
  <2>2. files'[e] = IF row'[e].parts THEN "all" ELSE "none"
    BY <1>7, TypeRow DEF IInv
  <2> QED BY <1>3, <1>7, <2>1, <2>2, Started
<1> QED BY <1>8, <1>9, <1>10, MmsAssumption DEF Result

-----------------------------------------------------------------------------
(* Steps of the engine *)

\* the engine says c of the job that e has, and the job becomes k
Speaks(e, c, k) ==
  /\ job[e] # "none"
  /\ c \in Message /\ c.id = e /\ bus' = Append(bus, c)
  /\ k \in {"none", "asked", "auto", "user"} /\ job' = [job EXCEPT ![e] = k]
  /\ e \in In  => c.what \in {"busy", "deferred"} \cup InEnds
  /\ e \in Out => c.what \in Working \cup {"error", "broken", "callFailed", "sent"}
  /\ k # "none" => /\ c.what \in Working
                   /\ Listed(e) => Listed(e)'
                   /\ k = job[e] \/ (job[e] = "asked" /\ k = "auto")
  /\ UNCHANGED <<row, files, active, present, roaming, reports, deleted, cancelled,
                 answered, lost>>
  /\ cancels' \subseteq Ids
  /\ \A f \in Ids \ {e} : f \in cancels => f \in cancels'
  /\ awaiting' = IF c.what = "sent" THEN awaiting \cup {e} ELSE awaiting

LEMMA Spoken ==
  ASSUME IInv, NEW e \in Ids, NEW c, NEW k, Speaks(e, c, k)
  PROVE  Result(e)
<1> USE DEF Speaks
<1>1. bus \in Seq(Message) /\ bus' \in Seq(Message)
  BY BusType, AppendProperties DEF IInv
<1>2. e \in In \/ (e \in Out /\ e \notin In)
  BY MmsAssumption DEF Ids
<1>3. TypeOK'
  <2>1. job' \in [Ids -> {"none", "asked", "auto", "user"}]
    BY TypeRow DEF IInv
  <2>2. awaiting' \subseteq Out
    BY <1>2, TypeRow DEF IInv, InEnds, Working
  <2> QED BY <1>1, <2>1, <2>2, TypeRow, TypeNext DEF IInv
<1>4. \A f \in Ids \ {e} : Same(f)
  BY OtherIds, TypeRow DEF IInv
<1>5. job'[e] = k
  BY TypeRow DEF IInv
<1>6. AnyOk(e) => AnyOk(e)'
  BY <1>5 DEF AnyOk, Idle
<1>7. CASE e \in In
  <2>1. InOk(e) /\ job[e] # "asked" /\ Only(bus, e, {"busy", "deferred"} \cup InAnswers)
    BY <1>7 DEF IInv, InOk, InOrder
  <2>2. c.what \in InSays /\ Only(bus', e, InSays)
    <3>1. c.what \in InSays /\ Only(bus, e, InSays)
      BY <1>7, <2>1 DEF InSays, InOk, InOrder
    <3> QED BY <1>1, <3>1, OnlyAppend
  <2>3. After(bus', e, InEnds, InAnswers)
    <3>1. ({"busy", "deferred"} \cup InAnswers) \cap InEnds = {}
      BY DEF InEnds, InAnswers
    <3>2. After(bus, e, InEnds, InAnswers)
      BY <2>1 DEF InOk, InOrder
    <3> QED BY <1>1, <2>1, <3>1, <3>2, AfterAppend
  <2>4. k # "none" => Only(bus', e, {"busy", "deferred"} \cup InAnswers)
    <3>1. k # "none" => c.what \in {"busy", "deferred"} \cup InAnswers
      BY <1>7 DEF Working, InEnds
    <3> QED BY <1>1, <2>1, <3>1, OnlyAppend
  <2>5. InOrder(e)'
    BY <1>5, <2>1, <2>2, <2>3, <2>4 DEF InOrder
  <2>6. InRow(e)'
    BY <2>1 DEF InRow, InOk
  <2> QED BY <1>2, <1>3, <1>4, <1>6, <1>7, <2>1, <2>5, <2>6, MmsAssumption DEF Result, InOk
<1>8. CASE e \in Out /\ e \notin In
  <2>1. OutOk(e)
    BY <1>8 DEF IInv
  <2>2. Only(bus', e, OutSays)
    <3>1. c.what \in OutSays /\ Only(bus, e, OutSays)
      BY <1>8, <2>1 DEF OutSays, OutOk, Closing
    <3> QED BY <1>1, <3>1, OnlyAppend
  <2>3. ASSUME e \notin lost PROVE OutOrder(e)'
    <3>1. /\ After(bus, e, {"sent"}, Reports) /\ After(bus, e, Closing, {})
          /\ e \notin awaiting /\ Only(bus, e, Working)
          /\ row[e] # NoRow => row[e].status \notin Failed
      BY <2>1, <2>3 DEF OutOk, OutOrder, Idle
    <3>2. Working \cap {"sent"} = {} /\ Working \cap Closing = {}
      BY DEF Working, Closing, Reports
    <3>3. After(bus', e, {"sent"}, Reports) /\ After(bus', e, Closing, {})
      BY <1>1, <3>1, <3>2, AfterAppend
    <3>4. k # "none" => Only(bus', e, Working) /\ e \notin awaiting'
      <4>1. k # "none" => c.what \in Working /\ c.what # "sent"
        BY DEF Working
      <4> QED BY <1>1, <3>1, <4>1, OnlyAppend
    <3>5. e \in awaiting' => Only(bus', e, Working \cup {"sent"})
      <4>1. Only(bus, e, Working \cup {"sent"})
        BY <3>1, OnlyMore
      <4>2. e \in awaiting' => c.what \in Working \cup {"sent"}
        BY <3>1
      <4> QED BY <1>1, <4>1, <4>2, OnlyAppend
    <3> QED BY <1>5, <3>1, <3>3, <3>4, <3>5 DEF OutOrder
  <2>4. OutOrder(e)'
    BY <2>3 DEF OutOrder
  <2> QED BY <1>3, <1>4, <1>6, <1>8, <2>1, <2>2, <2>4 DEF Result, OutOk
<1> QED BY <1>2, <1>7, <1>8

LEMMA CallType ==
  ASSUME NEW e \in Ids, NEW w \in Whats
  PROVE  Call(e, w) \in Message /\ Call(e, w).id = e /\ Call(e, w).what = w
  BY DEF Call, Message

LEMMA AnswersStep ==
  ASSUME IInv, NEW e \in Ids, EngineAnswers(e)
  PROVE  Result(e)
<1>1. job[e] = "asked" /\ e \notin In
  BY DEF EngineAnswers, IInv, InOk, InOrder
<1>2. /\ UNCHANGED <<row, files, active, present, roaming, cancels, reports, awaiting,
                     deleted, cancelled, answered, lost>>
      /\ \/ job' = [job EXCEPT ![e] = "auto"] /\ bus' = Append(bus, Call(e, "replied"))
         \/ job' = [job EXCEPT ![e] = "none"] /\ bus' = Append(bus, Call(e, "callFailed"))
  BY DEF EngineAnswers, modems, history
<1>3. cancels' \subseteq Ids /\ (Listed(e) => Listed(e)')
  BY <1>2, TypeRow DEF IInv, Listed
<1>4. "replied" \in Whats \cap Working /\ "callFailed" \in Whats
  BY DEF Whats, Working
<1>5. CASE job' = [job EXCEPT ![e] = "auto"] /\ bus' = Append(bus, Call(e, "replied"))
  <2> DEFINE c == Call(e, "replied")
  <2>1. c \in Message /\ c.id = e /\ c.what = "replied"
    BY <1>4, CallType
  <2> HIDE DEF c
  <2>2. bus' = Append(bus, c)
    BY <1>5 DEF c
  <2>3. Speaks(e, c, "auto")
    BY <1>1, <1>2, <1>3, <1>4, <1>5, <2>1, <2>2, MmsAssumption DEF Speaks, Ids
  <2> QED BY <2>3, Spoken
<1>6. CASE job' = [job EXCEPT ![e] = "none"] /\ bus' = Append(bus, Call(e, "callFailed"))
  <2> DEFINE c == Call(e, "callFailed")
  <2>1. c \in Message /\ c.id = e /\ c.what = "callFailed"
    BY <1>4, CallType
  <2> HIDE DEF c
  <2>2. bus' = Append(bus, c)
    BY <1>6 DEF c
  <2>3. Speaks(e, c, "none")
    BY <1>1, <1>2, <1>3, <1>4, <1>6, <2>1, <2>2 DEF Speaks
  <2> QED BY <2>3, Spoken
<1> QED BY <1>2, <1>5, <1>6

LEMMA WorksStep ==
  ASSUME IInv, NEW e \in Ids, EngineWorks(e)
  PROVE  Result(e)
<1>1. PICK w \in {"busy", "deferred"} : bus' = Append(bus, Call(e, w))
  BY DEF EngineWorks
<1>2. /\ job[e] \in {"auto", "user"}
      /\ UNCHANGED <<row, files, active, present, roaming, job, cancels, reports, awaiting,
                     deleted, cancelled, answered, lost>>
  BY DEF EngineWorks, modems, history
<1>3. cancels' \subseteq Ids /\ (Listed(e) => Listed(e)')
  BY <1>2, TypeRow DEF IInv, Listed
<1>4. w \in Whats /\ w \in Working /\ w # "sent"
  BY DEF Whats, Working, States
<1> DEFINE c == Call(e, w)
           k == job[e]
<1>5. c \in Message /\ c.id = e /\ c.what = w /\ bus' = Append(bus, c)
  BY <1>1, <1>4, CallType
<1>6. k \in {"none", "asked", "auto", "user"} /\ k = job[e]
  BY <1>2
<1>7. job' = [job EXCEPT ![e] = k]
  BY <1>2, TypeRow DEF IInv
<1> HIDE DEF c, k
<1>8. Speaks(e, c, k)
  <2>1. /\ c.what \in {"busy", "deferred"} \cup InEnds
        /\ c.what \in Working \cup {"error", "broken", "callFailed", "sent"}
        /\ c.what \in Working /\ c.what # "sent"
    BY <1>4, <1>5
  <2>2. job[e] # "none" /\ (Listed(e) => Listed(e)')
    BY <1>2, <1>3
  <2>3. awaiting' = IF c.what = "sent" THEN awaiting \cup {e} ELSE awaiting
    BY <1>2, <2>1
  <2>4. /\ UNCHANGED <<row, files, active, present, roaming, reports, deleted, cancelled,
                       answered, lost>>
        /\ cancels' \subseteq Ids /\ \A f \in Ids \ {e} : f \in cancels => f \in cancels'
    BY <1>2, <1>3
  <2>5. k # "none" => /\ c.what \in Working
                      /\ Listed(e) => Listed(e)'
                      /\ k = job[e] \/ (job[e] = "asked" /\ k = "auto")
    BY <1>6, <2>1, <2>2
  <2>6. /\ e \in In  => c.what \in {"busy", "deferred"} \cup InEnds
        /\ e \in Out => c.what \in Working \cup {"error", "broken", "callFailed", "sent"}
    BY <2>1
  <2>7. /\ c \in Message /\ c.id = e /\ bus' = Append(bus, c)
        /\ k \in {"none", "asked", "auto", "user"} /\ job' = [job EXCEPT ![e] = k]
        /\ job[e] # "none"
    BY <1>5, <1>6, <1>7, <2>2
  <2> QED BY <2>3, <2>4, <2>5, <2>6, <2>7, Zenon DEF Speaks
<1> QED BY <1>8, Spoken

LEMMA EndsStep ==
  ASSUME IInv, NEW e \in Ids, EngineEnds(e)
  PROVE  Result(e)
<1>1. PICK w \in {"error", "broken", IF e \in In THEN "received" ELSE "sent"} :
        /\ bus' = Append(bus, Call(e, w))
        /\ awaiting' = IF w = "sent" THEN awaiting \cup {e} ELSE awaiting
  BY DEF EngineEnds
<1>2. /\ job[e] \in {"auto", "user"} /\ job' = [job EXCEPT ![e] = "none"]
      /\ UNCHANGED <<row, files, active, present, roaming, cancels, reports,
                     deleted, cancelled, answered, lost>>
  BY DEF EngineEnds, modems, history
<1>3. cancels' \subseteq Ids
  BY <1>2, TypeRow DEF IInv
<1>4. /\ w \in Whats
      /\ e \in In => w \in InEnds
      /\ e \in Out => w \in {"error", "broken", "sent"}
  BY MmsAssumption DEF Whats, InEnds, States
<1> DEFINE c == Call(e, w)
<1>5. c \in Message /\ c.id = e /\ c.what = w /\ bus' = Append(bus, c)
  BY <1>1, <1>4, CallType
<1> HIDE DEF c
<1>6. Speaks(e, c, "none")
  BY <1>1, <1>2, <1>3, <1>4, <1>5 DEF Speaks
<1> QED BY <1>6, Spoken

LEMMA CancelsStep ==
  ASSUME IInv, NEW e \in Ids, EngineCancels(e)
  PROVE  Result(e)
<1>1. /\ cancels' = cancels \ {e}
      /\ UNCHANGED <<row, files, active, present, roaming, reports, awaiting,
                     deleted, cancelled, answered, lost>>
  BY DEF EngineCancels, modems, history
<1>2. cancels' \subseteq Ids
  BY <1>1, TypeRow DEF IInv
<1>3. CASE job[e] = "none"
  <2>1. job' = job /\ bus' = bus
    BY <1>3 DEF EngineCancels
  <2>2. TypeOK'
    BY <1>1, <1>2, <2>1, TypeRow, TypeNext DEF IInv
  <2>3. \A f \in Ids \ {e} : Same(f)
    BY <1>1, <2>1, OtherIds
  <2>4. InOk(e) => InOk(e)'
    BY <1>1, <1>3, <2>1 DEF InOk, AnyOk, InOrder, InRow, Idle
  <2>5. OutOk(e) => OutOk(e)'
    BY <1>1, <1>3, <2>1 DEF OutOk, AnyOk, OutOrder, Idle
  <2> QED BY <2>2, <2>3, <2>4, <2>5 DEF Result, IInv
<1>4. CASE job[e] # "none"
  <2>1. "error" \in Whats /\ "error" \in InEnds
    BY DEF Whats, States, InEnds
  <2> DEFINE c == Call(e, "error")
  <2>2. c \in Message /\ c.id = e /\ c.what = "error"
    BY <2>1, CallType
  <2>3. bus' = Append(bus, c) /\ job' = [job EXCEPT ![e] = "none"]
    BY <1>4 DEF EngineCancels
  <2> HIDE DEF c
  <2>4. Speaks(e, c, "none")
    BY <1>1, <1>2, <1>4, <2>1, <2>2, <2>3 DEF Speaks
  <2> QED BY <2>4, Spoken
<1> QED BY <1>3, <1>4

LEMMA ReportsStep ==
  ASSUME IInv, NEW e \in Ids, EngineReports(e)
  PROVE  Result(e)
<1>1. PICK w \in IF e \in In THEN {"final", "transient"} ELSE {"retrieved", "expired"} :
        bus' = Append(bus, Call(e, w))
  BY DEF EngineReports
<1>2. /\ e \in reports \cup awaiting
      /\ reports' = reports \ {e} /\ awaiting' = awaiting \ {e}
      /\ UNCHANGED <<row, files, active, present, roaming, job, cancels,
                     deleted, cancelled, answered, lost>>
  BY DEF EngineReports, modems, history
<1>3. w \in Whats /\ (e \in In => w \in InAnswers) /\ (e \notin In => w \in Reports)
  BY DEF Whats, InAnswers, Reports
<1> DEFINE c == Call(e, w)
<1>4. c \in Message /\ c.id = e /\ c.what = w /\ bus' = Append(bus, c)
  BY <1>1, <1>3, CallType
<1> HIDE DEF c
<1>5. bus \in Seq(Message) /\ bus' \in Seq(Message)
  BY <1>4, BusType, AppendProperties DEF IInv
<1>6. TypeOK'
  BY <1>2, <1>5, TypeRow, TypeNext DEF IInv
<1>7. \A f \in Ids \ {e} : Same(f)
  BY <1>2, <1>4, OtherIds
<1>8. AnyOk(e) => AnyOk(e)'
  BY <1>2 DEF AnyOk, Idle, Listed
<1>9. CASE e \in In
  <2>1. InOk(e) /\ c.what \in InAnswers /\ InAnswers \subseteq InSays
    BY <1>3, <1>4, <1>9 DEF IInv, InSays
  <2>2. Only(bus', e, InSays)
    BY <1>4, <1>5, <2>1, OnlyAppend DEF InOk, InOrder
  <2>3. After(bus', e, InEnds, InAnswers)
    <3>1. {} \cap InEnds = {} /\ After(bus, e, InEnds, InAnswers)
      BY <2>1 DEF InOk, InOrder
    <3> QED BY <1>4, <1>5, <2>1, <3>1, AfterAppend
  <2>4. ASSUME NEW W, InAnswers \subseteq W, Only(bus, e, W)
        PROVE  Only(bus', e, W)
    BY <1>4, <1>5, <2>1, <2>4, OnlyAppend
  <2>5. InOrder(e)'
    BY <1>2, <2>1, <2>2, <2>3, <2>4 DEF InOk, InOrder
  <2>6. InRow(e)'
    BY <1>2, <2>1, <2>4 DEF InOk, InRow
  <2> QED BY <1>6, <1>7, <1>8, <1>9, <2>1, <2>5, <2>6, MmsAssumption DEF Result, InOk
<1>10. CASE e \notin In
  <2>1. e \in Out /\ OutOk(e) /\ e \in awaiting /\ e \notin awaiting'
        /\ c.what \in Reports
    BY <1>2, <1>3, <1>4, <1>10, TypeRow DEF Ids, IInv
  <2>2. Only(bus', e, OutSays)
    <3>1. c.what \in OutSays
      BY <2>1 DEF OutSays, Closing
    <3> QED BY <1>4, <1>5, <2>1, <3>1, OnlyAppend DEF OutOk
  <2>3. ASSUME e \notin lost PROVE OutOrder(e)'
    <3>1. /\ After(bus, e, {"sent"}, Reports) /\ After(bus, e, Closing, {})
          /\ Only(bus, e, Working \cup {"sent"}) /\ job[e] = "none"
          /\ row[e] # NoRow => row[e].status \notin Failed
      BY <2>1, <2>3 DEF OutOk, OutOrder, Idle
    <3>2. {} \cap {"sent"} = {} /\ (Working \cup {"sent"}) \cap Closing = {}
      BY DEF Working, Closing, Reports
    <3>3. After(bus', e, {"sent"}, Reports)
      BY <1>4, <1>5, <2>1, <3>1, <3>2, AfterAppend
    <3>4. After(bus', e, Closing, {})
      BY <1>4, <1>5, <3>1, <3>2, AfterAppend
    <3> QED BY <1>2, <2>1, <3>1, <3>3, <3>4 DEF OutOrder
  <2>4. OutOrder(e)'
    BY <1>2, <2>3 DEF OutOrder
  <2> QED BY <1>6, <1>7, <1>8, <1>10, <2>1, <2>2, <2>4 DEF Result, OutOk
<1> QED BY <1>9, <1>10

LEMMA UpdatedStep ==
  ASSUME IInv, NEW e \in In, OnEventsUpdated(e)
  PROVE  Result(e)
<1> e \in Ids
  BY DEF Ids
<1>1. /\ row[e] # NoRow /\ row[e] \in Rec /\ row[e].status = "received" /\ EventMarkedAsRead(e)
      /\ UNCHANGED <<files, active, present, roaming, job, cancels, awaiting, bus,
                     deleted, cancelled, answered>>
  BY TypeRow DEF OnEventsUpdated, Accepts, Exists, modems, history, IInv
<1>2. CASE Sim[e] \in SendsReports
  <2>1. reports' = reports \cup {e} /\ row' = row /\ lost' = lost
    BY <1>1, <1>2 DEF EventMarkedAsRead
  <2>2. TypeOK'
    BY <1>1, <2>1, TypeRow, TypeNext DEF IInv
  <2>3. \A f \in Ids \ {e} : Same(f)
    BY <1>1, <2>1, OtherIds
  <2>4. InOk(e)'
    BY <1>1, <2>1 DEF IInv, InOk, AnyOk, InOrder, InRow, Listed
  <2> QED BY <2>2, <2>3, <2>4, MmsAssumption DEF Result
<1>3. CASE Sim[e] \notin SendsReports
  <2> DEFINE r == [row[e] EXCEPT !.unread = FALSE]
  <2>1. PICK ok \in Outcome("modify") : Modify(row, e, r, ok)
    BY <1>1, <1>3 DEF EventMarkedAsRead
  <2>2. reports' = reports /\ ok \in BOOLEAN
    BY <1>1, <1>3, OutcomeType DEF EventMarkedAsRead
  <2>3. r \in Rec /\ r.status = "received" /\ r.parts = row[e].parts
    BY <1>1, WithUnread
  <2> HIDE DEF r
  <2>4. /\ row' \in [Ids -> {NoRow} \cup Rec] /\ lost' \subseteq Ids
        /\ \A f \in Ids \ {e} : row'[f] = row[f]
        /\ lost \subseteq lost'
        /\ row'[e] = r \/ row'[e] = row[e]
    BY <2>1, <2>2, <2>3, Modified, TypeRow DEF IInv
  <2>5. TypeOK'
    BY <1>1, <2>2, <2>4, TypeRow, TypeNext DEF IInv
  <2>6. \A f \in Ids \ {e} : Same(f)
    BY <1>1, <2>2, <2>4, OtherIds
  <2>7. /\ row'[e] # NoRow /\ row'[e].status = "received" /\ row'[e].parts = row[e].parts
    BY <1>1, <2>3, <2>4, RowRec
  <2>8. InOk(e)'
    <3>1. AnyOk(e)'
      BY <1>1, <2>2, <2>4, <2>7 DEF IInv, InOk, AnyOk, Listed
    <3>2. InOrder(e)' /\ InRow(e)'
      BY <1>1, <1>3, <2>7 DEF IInv, InOk, InOrder, InRow
    <3> QED BY <3>1, <3>2 DEF InOk
  <2> QED BY <2>5, <2>6, <2>8, MmsAssumption DEF Result
<1> QED BY <1>2, <1>3

-----------------------------------------------------------------------------
(* Steps of the handler *)

\* the handler takes a call about e, w
Takes(e, w) ==
  /\ bus # <<>> /\ bus' = Tail(bus)
  /\ e = Head(bus).id /\ w = Head(bus).what
  /\ UNCHANGED <<present, roaming, job, cancels, reports, awaiting, deleted, cancelled>>

\* and changes nothing of other messages
Handled(e) ==
  /\ row' \in [Ids -> {NoRow} \cup Rec] /\ \A f \in Ids \ {e} : row'[f] = row[f]
  /\ files' \in [Ids -> {"none", "some", "all"}]
  /\ \A f \in Ids \ {e} : files'[f] = files[f]
  /\ active' = active \/ \E path : active' = active \ {<<path, e>>}
  /\ answered \subseteq answered' /\ answered' \subseteq In
  /\ lost \subseteq lost' /\ lost' \subseteq Ids

LEMMA TakesType ==
  ASSUME IInv, NEW e, NEW w, Takes(e, w)
  PROVE  e \in Ids /\ w \in Whats /\ bus \in Seq(Message) /\ bus' \in Seq(Message)
<1>1. bus \in Seq(Message) /\ bus # <<>>
  BY BusType DEF IInv, Takes
<1>2. Head(bus) \in Message /\ Tail(bus) \in Seq(Message)
  BY <1>1, HeadTailProperties
<1> QED BY <1>1, <1>2 DEF Takes, Message

LEMMA HandledRest ==
  ASSUME IInv, NEW e, NEW w, Takes(e, w), Handled(e)
  PROVE  TypeOK' /\ \A f \in Ids \ {e} : Same(f)
<1>1. e \in Ids /\ bus' \in Seq(Message)
  BY TakesType
<1>2. TypeOK'
  BY <1>1, TypeRow, TypeNext DEF IInv, Takes, Handled
<1>3. \A f \in Ids \ {e} : Same(f)
  BY <1>1, OtherIds DEF Takes, Handled
<1> QED BY <1>2, <1>3

\* what the invariant says of the call that is taken
LEMMA TakenOnly ==
  ASSUME IInv, NEW e, NEW w, Takes(e, w), NEW W, Only(bus, e, W)
  PROVE  Only(bus', e, W) /\ w \in W
  BY TakesType, OnlyTail DEF Takes

LEMMA TakenAfter ==
  ASSUME IInv, NEW e, NEW w, Takes(e, w), NEW E, NEW W, After(bus, e, E, W)
  PROVE  After(bus', e, E, W) /\ (w \in E => Only(bus', e, W))
  BY TakesType, AfterTail DEF Takes

LEMMA TakenIn ==
  ASSUME IInv, NEW e \in In, NEW w, Takes(e, w)
  PROVE  /\ w \in InSays
         /\ InOrder(e)'
         /\ w \in InEnds => job[e] = "none" /\ Only(bus', e, InAnswers)
         /\ row[e] = NoRow => e \in deleted
         /\ row[e] # NoRow /\ w \notin InAnswers =>
              /\ row[e].status # "received" /\ ~row[e].parts
              /\ e \notin deleted => row[e].push
<1>1. InOk(e) /\ InOrder(e) /\ InRow(e) /\ AnyOk(e)
  BY DEF IInv, InOk
<1>2. w \in InSays /\ Only(bus', e, InSays)
  BY <1>1, TakenOnly DEF InOrder
<1>3. After(bus', e, InEnds, InAnswers) /\ (w \in InEnds => Only(bus', e, InAnswers))
  BY <1>1, TakenAfter DEF InOrder
<1>4. job[e] # "none" => /\ Only(bus', e, {"busy", "deferred"} \cup InAnswers)
                         /\ w \in {"busy", "deferred"} \cup InAnswers
  BY <1>1, TakenOnly DEF InOrder
<1>5. job'[e] = job[e]
  BY DEF Takes
<1>6. InOrder(e)'
  BY <1>1, <1>2, <1>3, <1>4, <1>5 DEF InOrder
<1>7. w \in InEnds => job[e] = "none"
  BY <1>4 DEF InEnds, InAnswers
<1>8. row[e] = NoRow => e \in deleted
  BY <1>1, TakenOnly DEF AnyOk, Idle
<1>9. row[e] # NoRow /\ row[e].status = "received" => w \in InAnswers
  BY <1>1, TakenOnly DEF InRow
<1> QED BY <1>1, <1>2, <1>3, <1>6, <1>7, <1>8, <1>9 DEF InRow

LEMMA TakenOut ==
  ASSUME IInv, NEW e \in Out, NEW w, Takes(e, w)
  PROVE  /\ w \in OutSays /\ Only(bus', e, OutSays)
         /\ row[e] = NoRow => e \in deleted
         /\ e \notin lost =>
              /\ After(bus', e, {"sent"}, Reports) /\ After(bus', e, Closing, {})
              /\ job[e] # "none" => e \notin awaiting /\ Only(bus', e, Working)
              /\ e \in awaiting => Only(bus', e, Working \cup {"sent"})
              /\ w \in Closing => Idle(e)'
              /\ w \in Closing \cup {"sent"} => job[e] = "none"
              /\ row[e] # NoRow => row[e].status \notin Failed
<1>1. OutOk(e) /\ AnyOk(e) /\ Only(bus, e, OutSays) /\ OutOrder(e)
  BY DEF IInv, OutOk
<1>2. w \in OutSays /\ Only(bus', e, OutSays)
  BY <1>1, TakenOnly
<1>3. row[e] = NoRow => e \in deleted
  BY <1>1, TakenOnly DEF AnyOk, Idle
<1>4. ASSUME e \notin lost
      PROVE  /\ After(bus', e, {"sent"}, Reports) /\ After(bus', e, Closing, {})
             /\ job[e] # "none" => e \notin awaiting /\ Only(bus', e, Working)
             /\ e \in awaiting => Only(bus', e, Working \cup {"sent"})
             /\ w \in Closing => Idle(e)'
             /\ w \in Closing \cup {"sent"} => job[e] = "none"
             /\ row[e] # NoRow => row[e].status \notin Failed
  <2>1. After(bus', e, {"sent"}, Reports)
    BY <1>1, <1>4, TakenAfter DEF OutOrder
  <2>2. After(bus', e, Closing, {}) /\ (w \in Closing => Only(bus', e, {}))
    BY <1>1, <1>4, TakenAfter DEF OutOrder
  <2>3. job[e] # "none" => e \notin awaiting /\ Only(bus', e, Working) /\ w \in Working
    BY <1>1, <1>4, TakenOnly DEF OutOrder
  <2>4. e \in awaiting => Only(bus', e, Working \cup {"sent"}) /\ w \in Working \cup {"sent"}
    BY <1>1, <1>4, TakenOnly DEF OutOrder
  <2>5. row[e] # NoRow => row[e].status \notin Failed
    BY <1>1, <1>4, TakenOnly DEF OutOrder, Idle
  <2>6. w \in Closing \cup {"sent"} => job[e] = "none"
    BY <2>3 DEF Closing, Working, Reports
  <2>7. w \in Closing => e \notin awaiting
    BY <2>4 DEF Closing, Working, Reports
  <2>8. e \notin reports
    BY MmsAssumption, TypeRow DEF IInv
  <2>9. w \in Closing => Idle(e)'
    BY <2>2, <2>6, <2>7, <2>8 DEF Idle, Takes
  <2> QED BY <2>1, <2>2, <2>3, <2>4, <2>5, <2>6, <2>9
<1> QED BY <1>2, <1>3, <1>4

\* a handler that keeps or changes the row of a message that is sent
LEMMA HandledOut ==
  ASSUME IInv, NEW e \in Out, NEW w, Takes(e, w), Handled(e), files' = files,
         row[e] = NoRow <=> row'[e] = NoRow,
         row[e] # NoRow => row'[e].parts = row[e].parts,
         row'[e] = row[e] \/ e \in lost' \/ row'[e].status \notin Failed \/ w \in Closing,
         active' = active \/ row[e] = NoRow \/ w \in Closing \cup {"sent"}
  PROVE  Result(e)
<1>1. TypeOK' /\ \A f \in Ids \ {e} : Same(f)
  BY HandledRest
<1>2. OutOk(e) /\ (e \notin lost' => e \notin lost)
  BY DEF IInv, Handled
<1>3. AnyOk(e)'
  <2>1. files'[e] = IF row'[e] # NoRow /\ row'[e].parts THEN "all" ELSE "none"
    BY <1>2 DEF OutOk, AnyOk
  <2>2. row'[e] = NoRow => e \in deleted'
    BY TakenOut DEF Takes
  <2>3. e \notin lost' /\ row'[e] # NoRow /\ job'[e] \in {"asked", "auto"} => Listed(e)'
    <3>1. e \notin lost' /\ job'[e] \in {"asked", "auto"} => w \notin Closing \cup {"sent"}
      BY <1>2, TakenOut DEF Takes
    <3> QED BY <1>2, <3>1 DEF OutOk, AnyOk, Takes, Listed
  <2> QED BY <2>1, <2>2, <2>3 DEF AnyOk
<1>4. OutOrder(e)'
  <2> SUFFICES ASSUME e \notin lost' PROVE OutOrder(e)'
    BY DEF OutOrder
  <2>1. row'[e] # NoRow /\ row'[e].status \in Failed => Idle(e)'
    BY <1>2, TakenOut
  <2> QED BY <1>2, <2>1, TakenOut DEF OutOrder, Takes
<1> QED BY <1>1, <1>3, <1>4, TakenOut, MmsAssumption DEF Result, OutOk

\* a handler that updates the row of a message, or is refused it
LEMMA Updates ==
  ASSUME IInv, NEW e \in Ids, row[e] \in Rec, NEW r \in Rec, NEW ok \in BOOLEAN,
         Modify(row, e, r, ok)
  PROVE  /\ row' \in [Ids -> {NoRow} \cup Rec] /\ \A f \in Ids \ {e} : row'[f] = row[f]
         /\ lost \subseteq lost' /\ lost' \subseteq Ids
         /\ row'[e] # NoRow
         /\ row'[e] = r \/ (row'[e] = row[e] /\ e \in lost')
<1> DEFINE rows == row
<1>1. rows \in [Ids -> {NoRow} \cup Rec] /\ lost \subseteq Ids
  BY TypeRow DEF IInv
<1>2. Modify(rows, e, r, ok)
  OBVIOUS
<1> HIDE DEF rows
<1>3. /\ row' \in [Ids -> {NoRow} \cup Rec] /\ lost' \subseteq Ids
      /\ \A f \in Ids \ {e} : row'[f] = rows[f]
      /\ lost \subseteq lost'
      /\ row'[e] = r \/ (row'[e] = rows[e] /\ e \in lost')
  BY <1>1, <1>2, Modified
<1> QED BY <1>3, RowRec DEF rows

LEMMA NewStatusType ==
  ASSUME NEW e \in Ids, NEW w \in States
  PROVE  /\ NewStatus(e, w) \in Statuses \ {"received"}
         /\ Ended(NewStatus(e, w)) <=> w \in {"error", "broken"}
         /\ NewStatus(e, w) \in Failed <=> w \in {"error", "broken"}
<1>1. CASE w = "error"
  BY <1>1 DEF NewStatus, Statuses, Ended, Failed
<1>2. CASE w = "broken"
  BY <1>2 DEF NewStatus, Statuses, Ended, Failed
<1>3. CASE w = "deferred"
  BY <1>3 DEF NewStatus, Statuses, Ended, Failed
<1>4. CASE w = "busy"
  BY <1>4 DEF NewStatus, Statuses, Ended, Failed
<1> QED BY <1>1, <1>2, <1>3, <1>4 DEF States

LEMMA StateStep ==
  ASSUME IInv, NEW e \in Ids, NEW w \in States, Takes(e, w), StateChanged(e, w)
  PROVE  Result(e)
<1> DEFINE new == NewStatus(e, w)
           r == [row[e] EXCEPT !.status = new]
<1>0. /\ row \in [Ids -> {NoRow} \cup Rec] /\ lost \subseteq Ids /\ answered \subseteq In
      /\ files \in [Ids -> {"none", "some", "all"}]
      /\ files' = files /\ answered' = answered
  BY TypeRow DEF IInv, StateChanged
<1>1. /\ new \in Statuses /\ new # "received"
      /\ Ended(new) <=> w \in {"error", "broken"}
      /\ new \in Failed <=> w \in {"error", "broken"}
  BY NewStatusType
<1>2. row[e] # NoRow => /\ row[e] \in Rec /\ r \in Rec /\ r.status = new
                        /\ r.parts = row[e].parts /\ r.push = row[e].push
  BY <1>0, <1>1, WithStatus
<1> HIDE DEF new, r
<1>3. \/ row' = row /\ lost' = lost /\ active' = active
      \/ /\ row[e] = NoRow /\ row' = row /\ lost' = lost
         /\ active' = active \ {<<EventPath(e), e>>}
      \/ /\ row[e] # NoRow
         /\ \E ok \in Outcome("modify") : Modify(row, e, r, ok)
         /\ active' = IF Ended(new) THEN active \ {<<EventPath(e), e>>} ELSE active
  BY DEF StateChanged, Exists, new, r
<1>4. /\ Handled(e)
      /\ row[e] = NoRow <=> row'[e] = NoRow
      /\ row'[e] = row[e] \/ row'[e] = r
      /\ row'[e] = row[e] \/ e \in lost' \/ row'[e].status = new
      /\ active' = active \/ row[e] = NoRow \/ w \in {"error", "broken"}
  <2>1. CASE row' = row /\ lost' = lost /\ active' = active
    BY <1>0, <2>1 DEF Handled
  <2>2. CASE /\ row[e] = NoRow /\ row' = row /\ lost' = lost
             /\ active' = active \ {<<EventPath(e), e>>}
    BY <1>0, <2>2 DEF Handled
  <2>3. CASE /\ row[e] # NoRow
             /\ \E ok \in Outcome("modify") : Modify(row, e, r, ok)
             /\ active' = IF Ended(new) THEN active \ {<<EventPath(e), e>>} ELSE active
    <3>1. PICK ok \in BOOLEAN : Modify(row, e, r, ok)
      BY <2>3, OutcomeType
    <3>2. /\ row' \in [Ids -> {NoRow} \cup Rec] /\ \A f \in Ids \ {e} : row'[f] = row[f]
          /\ lost \subseteq lost' /\ lost' \subseteq Ids
          /\ row'[e] # NoRow
          /\ row'[e] = r \/ (row'[e] = row[e] /\ e \in lost')
      BY <1>2, <2>3, <3>1, Updates
    <3>3. /\ active' = active \/ \E path : active' = active \ {<<path, e>>}
          /\ active' = active \/ w \in {"error", "broken"}
      BY <1>1, <2>3
    <3> QED BY <1>0, <1>2, <2>3, <3>2, <3>3 DEF Handled
  <2> QED BY <1>3, <2>1, <2>2, <2>3
<1>5. CASE e \in Out
  <2>1. row[e] # NoRow => row'[e].parts = row[e].parts
    BY <1>2, <1>4
  <2>2. row'[e] = row[e] \/ e \in lost' \/ row'[e].status \notin Failed \/ w \in Closing
    BY <1>1, <1>4 DEF Closing
  <2>3. active' = active \/ row[e] = NoRow \/ w \in Closing \cup {"sent"}
    BY <1>4 DEF Closing
  <2> QED BY <1>0, <1>4, <1>5, <2>1, <2>2, <2>3, HandledOut
<1>6. CASE e \in In
  <2>1. TypeOK' /\ \A f \in Ids \ {e} : Same(f)
    BY <1>4, HandledRest
  <2>2. InOk(e) /\ w \notin InAnswers /\ (w \in {"error", "broken"} => w \in InEnds)
    BY <1>6 DEF IInv, States, InAnswers, InEnds
  <2>3. row'[e] # NoRow =>
          /\ row'[e].status # "received" /\ ~row'[e].parts
          /\ e \notin deleted' => row'[e].push
    <3>1. row'[e] # NoRow =>
            row'[e].parts = row[e].parts /\ row'[e].push = row[e].push
            /\ (row'[e].status = row[e].status \/ row'[e].status = new)
      BY <1>2, <1>4
    <3> QED BY <1>1, <1>4, <1>6, <2>2, <3>1, TakenIn DEF Takes
  <2>4. InRow(e)'
    BY <2>3 DEF InRow
  <2>5. AnyOk(e)'
    <3>1. files'[e] = IF row'[e] # NoRow /\ row'[e].parts THEN "all" ELSE "none"
      <4>1. row[e] # NoRow => ~row[e].parts
        BY <1>6, <2>2, TakenIn
      <4>2. files[e] = "none"
        BY <2>2, <4>1 DEF InOk, AnyOk
      <4> QED BY <1>0, <2>3, <4>2
    <3>2. row'[e] = NoRow => e \in deleted'
      BY <1>4, <1>6, TakenIn DEF Takes
    <3>3. e \notin lost' /\ row'[e] # NoRow /\ job'[e] \in {"asked", "auto"} => Listed(e)'
      <4>1. CASE active' = active
        BY <1>4, <2>2, <4>1 DEF InOk, AnyOk, Takes, Listed, Handled
      <4>2. CASE row[e] = NoRow
        BY <1>4, <4>2
      <4>3. CASE w \in {"error", "broken"}
        BY <1>6, <2>2, <4>3, TakenIn DEF Takes
      <4> QED BY <1>4, <4>1, <4>2, <4>3
    <3> QED BY <3>1, <3>2, <3>3 DEF AnyOk
  <2> QED BY <1>6, <2>1, <2>4, <2>5, TakenIn, MmsAssumption DEF Result, InOk
<1> QED BY <1>5, <1>6 DEF Ids

\* what becomes of a message the engine has brought
LEMMA Received ==
  ASSUME IInv, NEW e \in In, Takes(e, "received"), Handled(e), answered' = answered,
         \/ /\ row[e] = NoRow /\ row'[e] = NoRow /\ files'[e] = files[e]
         \/ /\ row'[e] \in Rec /\ files'[e] = IF row'[e].parts THEN "all" ELSE "none"
            /\ row'[e].status = "received" /\ row'[e].wanted => row'[e].unread
            /\ row'[e].status # "received" =>
                 /\ ~row'[e].parts
                 /\ e \notin deleted => row'[e].push
  PROVE  Result(e)
<1>1. TypeOK' /\ \A f \in Ids \ {e} : Same(f)
  BY HandledRest
<1>2. /\ InOrder(e)' /\ job[e] = "none" /\ job'[e] = "none" /\ Only(bus', e, InAnswers)
      /\ row[e] = NoRow => e \in deleted
      /\ deleted' = deleted
  BY TakenIn DEF InEnds, Takes
<1>3. InOk(e)
  BY DEF IInv
<1>4. CASE row[e] = NoRow /\ row'[e] = NoRow /\ files'[e] = files[e]
  <2>1. AnyOk(e)'
    BY <1>2, <1>3, <1>4 DEF InOk, AnyOk
  <2>2. InRow(e)'
    BY <1>4 DEF InRow
  <2> QED BY <1>1, <1>2, <2>1, <2>2, MmsAssumption DEF Result, InOk
<1>5. CASE /\ row'[e] \in Rec /\ files'[e] = IF row'[e].parts THEN "all" ELSE "none"
           /\ row'[e].status = "received" /\ row'[e].wanted => row'[e].unread
           /\ row'[e].status # "received" =>
                /\ ~row'[e].parts
                /\ e \notin deleted => row'[e].push
  <2>1. AnyOk(e)'
    BY <1>2, <1>5, RowRec DEF AnyOk
  <2>2. InRow(e)'
    BY <1>2, <1>5 DEF InRow
  <2> QED BY <1>1, <1>2, <2>1, <2>2, MmsAssumption DEF Result, InOk
<1> QED BY <1>4, <1>5

LEMMA ReceivedStep ==
  ASSUME IInv, NEW e \in In, Takes(e, "received"), NEW wanted \in BOOLEAN,
         MessageReceived(e, wanted)
  PROVE  Result(e)
<1> e \in Ids
  BY DEF Ids
<1> DEFINE new  == [Row("received", FALSE, FALSE, wanted) EXCEPT !.wanted = wanted]
           db   == IF row[e] # NoRow THEN row ELSE [row EXCEPT ![e] = new]
           done == [new EXCEPT !.read = db[e].read, !.parts = TRUE]
           late == [db[e] EXCEPT !.status = "temporarilyFailed"]
<1>1. PICK added \in (IF row[e] # NoRow THEN {TRUE} ELSE Outcome("add")),
           copied \in Outcome("copy"), saved \in Outcome("modify"),
           again \in Outcome("modify") :
        \/ /\ ~added /\ UNCHANGED <<row, files, lost>>
        \/ /\ added /\ copied /\ saved
           /\ Modify(db, e, done, TRUE)
           /\ files' = [files EXCEPT ![e] = "all"]
        \/ /\ added /\ ~(copied /\ saved)
           /\ Modify(db, e, late, again)
           /\ files' = [files EXCEPT ![e] = CleanUp(IF copied THEN "all" ELSE "some")]
  BY DEF MessageReceived, Exists
<1>2. again \in BOOLEAN /\ answered' = answered
      /\ active' = active \ {<<EventPath(e), e>>}
  BY OutcomeType DEF MessageReceived
<1>3. /\ row \in [Ids -> {NoRow} \cup Rec] /\ lost \subseteq Ids /\ answered \subseteq In
      /\ files \in [Ids -> {"none", "some", "all"}]
  BY TypeRow DEF IInv
<1>4. /\ new \in Rec /\ new.status = "received" /\ new.parts = FALSE
      /\ new.wanted = wanted /\ new.unread = wanted
  BY DEF Row, Rec, Statuses
<1>5. "received" \notin InAnswers /\ "temporarilyFailed" \in Statuses
  BY DEF InAnswers, Statuses
<1>6. /\ row[e] # NoRow => /\ row[e].status # "received" /\ ~row[e].parts
                           /\ e \notin deleted => row[e].push
      /\ row[e] = NoRow => e \in deleted
  BY <1>5, TakenIn
<1> HIDE DEF new
<1>7. /\ db \in [Ids -> {NoRow} \cup Rec] /\ db[e] \in Rec
      /\ \A f \in Ids \ {e} : db[f] = row[f]
      /\ ~db[e].parts
      /\ db[e].status # "received" /\ e \notin deleted => db[e].push
      /\ db[e].status = "received" => db[e].unread = db[e].wanted
      /\ e \notin deleted => db[e].push
  BY <1>3, <1>4, <1>6
<1> HIDE DEF db
<1>8. /\ done \in Rec /\ done.status = "received" /\ done.parts = TRUE
      /\ done.wanted = wanted /\ done.unread = wanted
  <2>1. db[e].read \in BOOLEAN
    BY <1>7 DEF Rec
  <2> QED BY <1>4, <2>1 DEF Rec
<1>9. /\ late \in Rec /\ late.status = "temporarilyFailed" /\ late.parts = db[e].parts
      /\ late.push = db[e].push
  BY <1>5, <1>7, WithStatus
<1> HIDE DEF done, late
<1>10. CASE ~added /\ UNCHANGED <<row, files, lost>>
  <2>1. row[e] = NoRow
    BY <1>10
  <2>2. Handled(e)
    BY <1>2, <1>3, <1>10 DEF Handled
  <2> QED BY <1>2, <1>10, <2>1, <2>2, Received
<1>11. CASE /\ added /\ copied /\ saved
            /\ Modify(db, e, done, TRUE)
            /\ files' = [files EXCEPT ![e] = "all"]
  <2>1. row' = [db EXCEPT ![e] = done] /\ lost' = lost
    BY <1>11 DEF Modify
  <2>2. row'[e] = done /\ files'[e] = "all"
    BY <1>3, <1>7, <1>11, <2>1
  <2>3. Handled(e)
    BY <1>2, <1>3, <1>7, <1>8, <1>11, <2>1 DEF Handled
  <2> QED BY <1>2, <1>8, <2>2, <2>3, Received
<1>12. CASE /\ added /\ ~(copied /\ saved)
            /\ Modify(db, e, late, again)
            /\ files' = [files EXCEPT ![e] = CleanUp(IF copied THEN "all" ELSE "some")]
  <2>1. files' = [files EXCEPT ![e] = "none"] /\ files'[e] = "none"
    BY <1>3, <1>12 DEF CleanUp
  <2>2. /\ row' \in [Ids -> {NoRow} \cup Rec] /\ lost' \subseteq Ids
        /\ \A f \in Ids \ {e} : row'[f] = db[f]
        /\ lost \subseteq lost'
        /\ row'[e] = late \/ row'[e] = db[e]
    BY <1>2, <1>3, <1>7, <1>9, <1>12, Modified
  <2>3. Handled(e)
    BY <1>2, <1>3, <1>7, <2>1, <2>2 DEF Handled
  <2>4. /\ row'[e] \in Rec /\ ~row'[e].parts
        /\ row'[e].status = "received" /\ row'[e].wanted => row'[e].unread
        /\ e \notin deleted => row'[e].push
    BY <1>7, <1>9, <2>2
  <2> QED BY <1>2, <2>1, <2>3, <2>4, Received
<1> QED BY <1>1, <1>10, <1>11, <1>12

LEMMA FinishedStep ==
  ASSUME IInv, NEW e \in Out, NEW w \in {"replied", "callFailed"}, Takes(e, w),
         OnSendMessageFinished(e, w = "callFailed")
  PROVE  Result(e)
<1> e \in Ids
  BY DEF Ids
<1> DEFINE r == [row[e] EXCEPT !.status = "temporarilyFailed"]
<1>1. /\ row \in [Ids -> {NoRow} \cup Rec] /\ lost \subseteq Ids /\ answered \subseteq In
      /\ files \in [Ids -> {"none", "some", "all"}]
      /\ UNCHANGED <<active, files, answered>>
  BY TypeRow DEF IInv, OnSendMessageFinished
<1>2. CASE row' = row /\ lost' = lost
  <2>1. Handled(e)
    BY <1>1, <1>2 DEF Handled
  <2> QED BY <1>1, <1>2, <2>1, HandledOut
<1>3. CASE w = "callFailed" /\ row[e] # NoRow
  <2>1. PICK ok \in BOOLEAN : Modify(row, e, r, ok)
    BY <1>3, OutcomeType DEF OnSendMessageFinished, SendFailed, Exists
  <2>2. row[e] \in Rec /\ r \in Rec /\ r.parts = row[e].parts
    BY <1>1, <1>3, WithStatus DEF Statuses
  <2> HIDE DEF r
  <2>3. /\ row' \in [Ids -> {NoRow} \cup Rec] /\ \A f \in Ids \ {e} : row'[f] = row[f]
        /\ lost \subseteq lost' /\ lost' \subseteq Ids
        /\ row'[e] # NoRow
        /\ row'[e] = r \/ (row'[e] = row[e] /\ e \in lost')
    BY <2>1, <2>2, Updates
  <2>4. Handled(e) /\ w \in Closing /\ row'[e].parts = row[e].parts
    BY <1>1, <1>3, <2>2, <2>3 DEF Handled, Closing
  <2> QED BY <1>1, <1>3, <2>3, <2>4, HandledOut
<1> QED BY <1>2, <1>3 DEF OnSendMessageFinished, Exists

LEMMA SentStep ==
  ASSUME IInv, NEW e \in Out, Takes(e, "sent"), MessageSent(e)
  PROVE  Result(e)
<1> e \in Ids
  BY DEF Ids
<1> DEFINE r == [row[e] EXCEPT !.status = "sent", !.mmsId = TRUE]
<1>1. /\ row \in [Ids -> {NoRow} \cup Rec] /\ lost \subseteq Ids /\ answered \subseteq In
      /\ files \in [Ids -> {"none", "some", "all"}]
      /\ active' = active \ {<<EventPath(e), e>>} /\ UNCHANGED <<files, answered>>
      /\ "sent" \in Closing \cup {"sent"}
  BY TypeRow DEF IInv, MessageSent
<1>2. CASE row[e] = NoRow
  <2>1. row' = row /\ lost' = lost
    BY <1>2 DEF MessageSent, Exists
  <2>2. Handled(e)
    BY <1>1, <2>1 DEF Handled
  <2> QED BY <1>1, <1>2, <2>1, <2>2, HandledOut
<1>3. CASE row[e] # NoRow
  <2>1. PICK ok \in BOOLEAN : Modify(row, e, r, ok)
    BY <1>3, OutcomeType DEF MessageSent, Exists
  <2>2. row[e] \in Rec
    BY <1>1, <1>3
  <2>3. r \in Rec /\ r.parts = row[e].parts /\ r.status \notin Failed
    BY <2>2 DEF Rec, Statuses, Failed
  <2> HIDE DEF r
  <2>4. /\ row' \in [Ids -> {NoRow} \cup Rec] /\ \A f \in Ids \ {e} : row'[f] = row[f]
        /\ lost \subseteq lost' /\ lost' \subseteq Ids
        /\ row'[e] # NoRow
        /\ row'[e] = r \/ (row'[e] = row[e] /\ e \in lost')
    BY <2>1, <2>2, <2>3, Updates
  <2>5. Handled(e) /\ row'[e].parts = row[e].parts
    BY <1>1, <1>3, <2>3, <2>4 DEF Handled
  <2> QED BY <1>1, <1>3, <2>3, <2>4, <2>5, HandledOut
<1> QED BY <1>2, <1>3

LEMMA DeliveryStep ==
  ASSUME IInv, NEW e \in Out, NEW w \in {"retrieved", "expired"}, Takes(e, w),
         DeliveryReport(e, w = "retrieved")
  PROVE  Result(e)
<1> e \in Ids
  BY DEF Ids
<1> DEFINE s == IF w = "retrieved" THEN "delivered" ELSE "temporarilyFailed"
           r == [row[e] EXCEPT !.status = s]
<1>1. /\ row \in [Ids -> {NoRow} \cup Rec] /\ lost \subseteq Ids /\ answered \subseteq In
      /\ files \in [Ids -> {"none", "some", "all"}]
      /\ UNCHANGED <<active, files, answered>>
      /\ w \in Closing
  BY TypeRow DEF IInv, DeliveryReport, Closing, Reports
<1>2. CASE row' = row /\ lost' = lost
  <2>1. Handled(e)
    BY <1>1, <1>2 DEF Handled
  <2> QED BY <1>1, <1>2, <2>1, HandledOut
<1>3. CASE row[e] # NoRow /\ row[e].mmsId
  <2>1. PICK ok \in BOOLEAN : Modify(row, e, r, ok)
    BY <1>3, OutcomeType DEF DeliveryReport, Exists
  <2>2. s \in Statuses
    BY DEF Statuses
  <2> HIDE DEF s
  <2>3. row[e] \in Rec /\ r \in Rec /\ r.parts = row[e].parts
    BY <1>1, <1>3, <2>2, WithStatus
  <2> HIDE DEF r
  <2>4. /\ row' \in [Ids -> {NoRow} \cup Rec] /\ \A f \in Ids \ {e} : row'[f] = row[f]
        /\ lost \subseteq lost' /\ lost' \subseteq Ids
        /\ row'[e] # NoRow
        /\ row'[e] = r \/ (row'[e] = row[e] /\ e \in lost')
    BY <2>1, <2>3, Updates
  <2>5. Handled(e) /\ row'[e].parts = row[e].parts
    BY <1>1, <2>3, <2>4 DEF Handled
  <2> QED BY <1>1, <1>3, <2>4, <2>5, HandledOut
<1> QED BY <1>2, <1>3 DEF DeliveryReport, Exists

LEMMA AnsweredStep ==
  ASSUME IInv, NEW e \in In, NEW w \in InAnswers, Takes(e, w), ReadReportSendStatus(e, w)
  PROVE  Result(e)
<1> e \in Ids
  BY DEF Ids
<1> DEFINE r == [row[e] EXCEPT !.unread = FALSE]
<1>1. /\ row \in [Ids -> {NoRow} \cup Rec] /\ lost \subseteq Ids /\ answered \subseteq In
      /\ files \in [Ids -> {"none", "some", "all"}]
      /\ UNCHANGED <<active, files>>
      /\ answered' = IF w = "transient" THEN answered ELSE answered \cup {e}
      /\ InOk(e)
  BY TypeRow DEF IInv, ReadReportSendStatus
<1>2. CASE row' = row /\ lost' = lost
  <2>1. Handled(e)
    BY <1>1, <1>2 DEF Handled
  <2>2. TypeOK' /\ \A f \in Ids \ {e} : Same(f)
    BY <2>1, HandledRest
  <2>3. InRow(e)'
    BY <1>1, <1>2, TakenOnly DEF InOk, InRow, Takes
  <2>4. AnyOk(e)'
    BY <1>1, <1>2, TakenIn DEF InOk, AnyOk, Takes, Listed
  <2> QED BY <2>2, <2>3, <2>4, TakenIn, MmsAssumption DEF Result, InOk
<1>3. CASE row[e] # NoRow /\ w # "transient"
  <2>1. PICK ok \in BOOLEAN : Modify(row, e, r, ok)
    BY <1>3, OutcomeType DEF ReadReportSendStatus, FinalAnswer, Exists
  <2>2. /\ row[e] \in Rec /\ r \in Rec /\ r.status = row[e].status
        /\ r.parts = row[e].parts /\ r.push = row[e].push
    BY <1>1, <1>3, WithUnread
  <2> HIDE DEF r
  <2>3. /\ row' \in [Ids -> {NoRow} \cup Rec] /\ \A f \in Ids \ {e} : row'[f] = row[f]
        /\ lost \subseteq lost' /\ lost' \subseteq Ids
        /\ row'[e] # NoRow
        /\ row'[e] = r \/ (row'[e] = row[e] /\ e \in lost')
    BY <2>1, <2>2, Updates
  <2>4. /\ row'[e].status = row[e].status /\ row'[e].parts = row[e].parts
        /\ row'[e].push = row[e].push
    BY <2>2, <2>3
  <2>5. Handled(e)
    BY <1>1, <2>3 DEF Handled
  <2>6. TypeOK' /\ \A f \in Ids \ {e} : Same(f)
    BY <2>5, HandledRest
  <2>7. InRow(e)'
    <3>1. e \in answered'
      BY <1>1, <1>3
    <3> QED BY <1>1, <1>3, <2>4, <3>1, TakenOnly DEF InOk, InRow, Takes
  <2>8. AnyOk(e)'
    BY <1>1, <1>3, <2>3, <2>4 DEF InOk, AnyOk, Takes, Listed
  <2> QED BY <2>6, <2>7, <2>8, TakenIn, MmsAssumption DEF Result, InOk
<1> QED BY <1>2, <1>3 DEF ReadReportSendStatus, FinalAnswer, Exists

LEMMA HandleStep ==
  ASSUME IInv, Handle
  PROVE  \E e \in Ids : Result(e)
<1> DEFINE e == Head(bus).id
           w == Head(bus).what
<1>1. Takes(e, w)
  BY DEF Handle, Takes, modems
<1>2. \/ w \in States /\ StateChanged(e, w)
      \/ w = "received" /\ \E wanted \in BOOLEAN : MessageReceived(e, wanted)
      \/ w \in {"replied", "callFailed"} /\ OnSendMessageFinished(e, w = "callFailed")
      \/ w = "sent" /\ MessageSent(e)
      \/ w \in {"retrieved", "expired"} /\ DeliveryReport(e, w = "retrieved")
      \/ w \in {"final", "transient"} /\ ReadReportSendStatus(e, w)
  BY DEF Handle
<1> HIDE DEF e, w
<1>3. e \in Ids /\ (e \in In => w \in InSays) /\ (e \in Out => w \in OutSays)
  BY <1>1, TakesType, TakenIn, TakenOut
<1>4. (e \in In <=> e \notin Out) /\ Ids = In \cup Out
  BY <1>3, MmsAssumption DEF Ids
<1>5. CASE w \in States /\ StateChanged(e, w)
  BY <1>1, <1>3, <1>5, StateStep
<1>6. CASE w = "received" /\ \E wanted \in BOOLEAN : MessageReceived(e, wanted)
  <2>1. w \notin OutSays
    BY <1>6 DEF OutSays, Working, Closing, Reports
  <2>2. e \in In
    BY <1>3, <1>4, <2>1
  <2> QED BY <1>1, <1>3, <1>6, <2>2, ReceivedStep
<1>7. CASE w \in {"replied", "callFailed"} /\ OnSendMessageFinished(e, w = "callFailed")
  <2>1. w \notin InSays
    BY <1>7 DEF InSays, InEnds, InAnswers
  <2>2. e \in Out
    BY <1>3, <1>4, <2>1
  <2> QED BY <1>1, <1>3, <1>7, <2>2, FinishedStep
<1>8. CASE w = "sent" /\ MessageSent(e)
  <2>1. w \notin InSays
    BY <1>8 DEF InSays, InEnds, InAnswers
  <2>2. e \in Out
    BY <1>3, <1>4, <2>1
  <2> QED BY <1>1, <1>3, <1>8, <2>2, SentStep
<1>9. CASE w \in {"retrieved", "expired"} /\ DeliveryReport(e, w = "retrieved")
  <2>1. w \notin InSays
    BY <1>9 DEF InSays, InEnds, InAnswers
  <2>2. e \in Out
    BY <1>3, <1>4, <2>1
  <2> QED BY <1>1, <1>3, <1>9, <2>2, DeliveryStep
<1>10. CASE w \in {"final", "transient"} /\ ReadReportSendStatus(e, w)
  <2>1. w \notin OutSays /\ w \in InAnswers
    BY <1>10 DEF OutSays, Working, Closing, Reports, InAnswers
  <2>2. e \in In
    BY <1>3, <1>4, <2>1
  <2> QED BY <1>1, <1>3, <1>10, <2>1, <2>2, AnsweredStep
<1> QED BY <1>2, <1>5, <1>6, <1>7, <1>8, <1>9, <1>10

-----------------------------------------------------------------------------
(* Theorems *)

LEMMA Initial == Init => IInv
<1> SUFFICES ASSUME Init PROVE IInv
  OBVIOUS
<1>1. Ids = In \cup Out
  BY DEF Ids
<1>2. <<>> \in Seq(Message) /\ DOMAIN <<>> = {}
  BY EmptySeq
<1>3. TypeOK
  <2>1. bus \in Seq(Message) /\ deleted \subseteq Ids
    BY <1>2, MmsAssumption DEF Init
  <2>2. row \in [Ids -> {NoRow} \cup Rec]
    BY DEF Init
  <2> QED BY <2>1, <2>2, TypeRow DEF Init
<1>4. \A e, W : Only(bus, e, W)
  BY <1>2 DEF Init, Only
<1>5. \A e, E, W : After(bus, e, E, W)
  BY <1>2 DEF Init, After
<1>6. \A e \in Ids : AnyOk(e)
  BY <1>4 DEF Init, AnyOk, Idle
<1>7. \A e \in In : InOk(e)
  BY <1>1, <1>4, <1>5, <1>6 DEF Init, InOk, InOrder, InRow
<1>8. \A e \in Out : OutOk(e)
  BY <1>1, <1>4, <1>5, <1>6 DEF Init, OutOk, OutOrder
<1> QED BY <1>3, <1>7, <1>8 DEF IInv

LEMMA Steps == IInv /\ [Next]_vars => IInv'
<1> SUFFICES ASSUME IInv, [Next]_vars PROVE IInv'
  OBVIOUS
<1>1. In \subseteq Ids /\ Out \subseteq Ids
  BY DEF Ids
<1>2. CASE \E e \in In, automatic \in BOOLEAN : MessageNotification(e, automatic)
  BY <1>1, <1>2, NotificationStep, FromResult
<1>3. CASE \E e \in Out : SendMessage(e) \/ Resend(e)
  BY <1>1, <1>3, SendStep, ResendStep, FromResult
<1>4. CASE \E e \in In : OnEventsUpdated(e)
  BY <1>1, <1>4, UpdatedStep, FromResult
<1>5. CASE \E p \in Modems : RoamingChanged(p) \/ ModemAdded(p) \/ ModemRemoved(p)
  BY <1>5, ModemSteps
<1>6. CASE \E e \in Ids : \/ EngineAnswers(e)
                          \/ EngineWorks(e)
                          \/ EngineEnds(e)
                          \/ EngineCancels(e)
                          \/ EngineReports(e)
  BY <1>6, AnswersStep, WorksStep, EndsStep, CancelsStep, ReportsStep, FromResult
<1>7. CASE Handle
  BY <1>7, HandleStep, FromResult
<1>8. CASE \E e \in Ids : \/ UserDownloads(e)
                          \/ UserCancels(e)
                          \/ UserReads(e)
                          \/ UserDeletes(e)
  <2>1. \A e \in Ids : UserDownloads(e) \/ UserCancels(e) => e \in In
    BY DEF UserDownloads, UserCancels
  <2> QED BY <1>8, <2>1, DownloadStep, CancelStep, ReadStep, DeleteStep, FromResult
<1>9. CASE UNCHANGED vars
  <2>1. TypeOK'
    BY <1>9 DEF vars, engine, modems, history, TypeOK, IInv
  <2>2. \A f \in Ids : Same(f)
    BY <1>9 DEF vars, engine, modems, history, Same, Listed
  <2> QED BY <2>1, <2>2, FromSame
<1> QED BY <1>2, <1>3, <1>4, <1>5, <1>6, <1>7, <1>8, <1>9 DEF Next

THEOREM Invariance == Spec => []IInv
  BY Initial, Steps, PTL DEF Spec

\* Every variable of handler, engine and database stays in its type.
THEOREM TypeCorrect == Spec => []TypeOK
<1>1. IInv => TypeOK
  BY DEF IInv
<1> QED BY <1>1, Invariance, PTL

\* The storage holds the parts of exactly those events that have parts
\* (copyMmsPartFiles and what its callers clean up).
THEOREM FilesFit == Spec => []FilesMatchRow
<1>1. IInv => FilesMatchRow
  BY DEF IInv, InOk, OutOk, AnyOk, FilesMatchRow, Exists, Ids
<1> QED BY <1>1, Invariance, PTL

\* The jobs of the engine can be cancelled, messages that were not received can
\* be downloaded, and read reports stay due, whatever failed before.
THEOREM Possible == Spec => []StaysPossible
<1>1. ASSUME IInv PROVE JobsListed
  BY <1>1 DEF IInv, InOk, OutOk, AnyOk, Listed, JobsListed, Exists, Ids
<1>2. ASSUME IInv PROVE PushDataKept
  BY <1>2 DEF IInv, InOk, InRow, PushDataKept, Exists
<1>3. ASSUME IInv PROVE ReportStaysDue
  BY <1>3 DEF IInv, InOk, InRow, ReportStaysDue, Exists
<1>4. IInv => StaysPossible
  BY <1>1, <1>2, <1>3 DEF StaysPossible
<1> QED BY <1>4, Invariance, PTL
=============================================================================
