----------------------------- MODULE SharedProofs -----------------------------
(***************************************************************************)
(* What all listeners share, proved: the Logger, with the table of ids by  *)
(* which its listeners keep off each other's messages, and the             *)
(* NotificationManager they all ask for notifications.                     *)
(*                                                                         *)
(* Logger: ListenersAreSound and StoredOnce follow from IInv.              *)
(* NotificationManager: ListsAreSound and CallsAreOne follow from          *)
(* NotifyInv, SeenIsRemoved from it and from what deleteNotifications does *)
(* to a list (Splits).                                                     *)
(***************************************************************************)
EXTENDS Logger, NotificationManager, FiniteSetTheorems, SequenceTheorems,
        WellFoundedInduction, TLAPS

-----------------------------------------------------------------------------
(* The Logger: the inductive invariant *)

IInv == TypeOK /\ Listened /\ Queued /\ TakenOnce

\* What a message that is not known yet cannot be in.
LEMMA Unknowns ==
  ASSUME TypeOK, NEW m \in Msgs \ arrived
  PROVE  /\ \A c \in Channels : m \notin queue[c] /\ m \notin taken[c]
         /\ m \notin unacked /\ m \notin forgotten /\ m \notin pendingIds
BY DEF TypeOK

\* What closed() does to the table of ids.
LEMMA Forgetting ==
  ASSUME TypeOK, NEW S \in SUBSET Channels, Forget(S)
  PROVE  /\ pendingIds' \subseteq pendingIds
         /\ forgotten \subseteq forgotten' /\ forgotten' \subseteq arrived
         /\ \A m \in unacked \ forgotten' : m \in pendingIds => m \in pendingIds'
BY DEF TypeOK, Forget

\* Listeners that go or wait are no listeners of their channels any more.
LEMMA Closing ==
  ASSUME TypeOK, NEW S \in SUBSET Channels, Close(S)
  PROVE  /\ listener' \in [Channels -> {"none", "preparing", "listening", "closing", "closed"}]
         /\ \A c \in Channels : listener'[c] \in {"preparing", "listening"} =>
              listener'[c] = listener[c] /\ c \notin S
         /\ Drained(S) \in SUBSET Channels
         /\ Forget(Drained(S))
<1>1. Drained(S) \in SUBSET Channels
  BY DEF Drained
<1>2. listener' = [c \in Channels |-> IF c \in Drained(S) THEN "closed"
                                      ELSE IF c \in S THEN "closing" ELSE listener[c]]
  BY DEF Close
<1>3. Drained(S) \subseteq S
  BY DEF Drained
<1>4. Forget(Drained(S))
  BY DEF Close
<1> QED BY <1>1, <1>2, <1>3, <1>4 DEF TypeOK

-----------------------------------------------------------------------------
(* Steps that leave the queues, the messages and what was taken alone *)

\* FinishedWithError keeps the invariant when the listeners it leaves are of
\* objects whose `invalidated' stays connected.
LEMMA ErrorStep ==
  ASSUME IInv, NEW S \in SUBSET Channels, FinishedWithError(S),
         UNCHANGED <<channel, queue, unacked, arrived, taken, rows>>,
         account' \in BOOLEAN,
         watched' \subseteq {Path[c] : c \in Channels}, told' \subseteq Channels,
         \A c \in Channels \ told' : c \in Unknown \/ Path[c] \in watched',
         told \subseteq told',
         \A c \in told' \ told : c \in S \/ listener[c] \notin {"preparing", "listening"}
  PROVE  IInv'
<1>1. TypeOK /\ Listened /\ Queued /\ TakenOnce
  BY DEF IInv
<1>2. Close(S) /\ context' \in [Channels -> {"none", "open", "finished", "error"}]
  BY <1>1 DEF FinishedWithError, TypeOK
<1>3. /\ listener' \in [Channels -> {"none", "preparing", "listening", "closing", "closed"}]
      /\ \A c \in Channels : listener'[c] \in {"preparing", "listening"} =>
           listener'[c] = listener[c] /\ c \notin S
      /\ Drained(S) \in SUBSET Channels
      /\ Forget(Drained(S))
  BY <1>1, <1>2, Closing
<1>4. /\ pendingIds' \subseteq pendingIds
      /\ forgotten \subseteq forgotten' /\ forgotten' \subseteq arrived
      /\ \A m \in unacked \ forgotten' : m \in pendingIds => m \in pendingIds'
  BY <1>1, <1>3, Forgetting
<1>5. TypeOK'
  BY <1>1, <1>2, <1>3, <1>4 DEF TypeOK
<1>6. Listened'
  BY <1>1, <1>3 DEF Listened, TypeOK
<1>7. Queued'
  BY <1>1, <1>4 DEF Queued
<1>8. TakenOnce'
  BY <1>1, <1>4 DEF TakenOnce
<1> QED BY <1>5, <1>6, <1>7, <1>8 DEF IInv

LEMMA AccountInvalidatedStep ==
  ASSUME IInv, AccountInvalidated
  PROVE  IInv'
<1>1. /\ Alive \in SUBSET Channels /\ FinishedWithError(Alive) /\ account' \in BOOLEAN
      /\ UNCHANGED <<channel, queue, unacked, arrived, taken, rows>>
      /\ UNCHANGED <<watched, told>>
  BY DEF AccountInvalidated, Alive
<1> QED BY <1>1, ErrorStep DEF IInv, TypeOK, Listened

LEMMA ListenerFailsStep ==
  ASSUME IInv, NEW c \in Channels, ListenerFails(c)
  PROVE  IInv'
<1>1. /\ {c} \in SUBSET Channels /\ FinishedWithError({c})
      /\ UNCHANGED <<channel, queue, unacked, arrived, taken, rows>>
      /\ UNCHANGED <<account, watched, told>>
  BY DEF ListenerFails
<1> QED BY <1>1, ErrorStep DEF IInv, TypeOK, Listened

\* The path goes from the list with the only object that is heard of it.
LEMMA SlotInvalidatedStep ==
  ASSUME IInv, NEW c \in Channels, SlotInvalidated(c)
  PROVE  IInv'
<1> DEFINE S == Alive \cap {c}
<1>1. TypeOK /\ Listened
  BY DEF IInv
<1>2. /\ S \in SUBSET Channels /\ FinishedWithError(S)
      /\ UNCHANGED <<channel, queue, unacked, arrived, taken, rows>>
      /\ account' \in BOOLEAN /\ told' = told \cup {c} /\ watched' = watched \ {Path[c]}
      /\ c \notin told
  BY <1>1 DEF SlotInvalidated, TypeOK
<1>3. \A d \in Channels \ told' : d \in Unknown \/ Path[d] \in watched'
  BY <1>1, <1>2 DEF Listened
<1>4. watched' \subseteq {Path[d] : d \in Channels} /\ told' \subseteq Channels
  BY <1>1, <1>2 DEF TypeOK
<1> QED BY <1>2, <1>3, <1>4, ErrorStep DEF Alive

\* The path was not on the list, so no other object of it is heard of.
LEMMA CreateChannelListenerStep ==
  ASSUME IInv, NEW c \in Channels, CreateChannelListener(c)
  PROVE  IInv'
<1>1. TypeOK /\ Listened /\ Queued /\ TakenOnce
  BY DEF IInv
<1>2. UNCHANGED <<channel, queue, unacked, account, arrived, taken, pendingIds, rows, forgotten>>
  BY DEF CreateChannelListener
<1>3. TypeOK' /\ Listened'
  <2>1. CASE IsWatched(c)
    BY <1>1, <1>2, <2>1 DEF CreateChannelListener, TypeOK, Listened
  <2>2. CASE ~IsWatched(c) /\ c \in Unknown
    <3>1. \A d \in Channels : Path[c] = Path[d] => c = d
      BY <2>2, LoggerAssumption DEF LoggerAssumption
    <3>2. /\ context' = [context EXCEPT ![c] = "open"] /\ told' = told \ {c}
          /\ UNCHANGED <<watched, listener>>
      BY <2>2 DEF CreateChannelListener
    <3> QED BY <1>1, <1>2, <2>2, <3>1, <3>2 DEF TypeOK, Listened
  <2>3. CASE ~IsWatched(c) /\ c \notin Unknown
    <3>1. /\ context' = [context EXCEPT ![c] = "open"] /\ told' = told \ {c}
          /\ watched' = watched \cup {Path[c]}
          /\ listener' = [listener EXCEPT ![c] = "preparing"]
      BY <2>3 DEF CreateChannelListener
    <3>2. \A d \in Channels \ told : Path[d] = Path[c] => c = d
      BY <1>1, <2>3, LoggerAssumption DEF Listened, IsWatched, LoggerAssumption
    <3>3. TypeOK'
      BY <1>1, <1>2, <3>1 DEF TypeOK
    <3>4. Listened'
      BY <1>1, <2>3, <3>1, <3>2 DEF TypeOK, Listened
    <3> QED BY <3>3, <3>4
  <2> QED BY <2>1, <2>2, <2>3
<1>4. Queued'
  BY <1>1, <1>2 DEF Queued
<1>5. TakenOnce'
  BY <1>1, <1>2 DEF TakenOnce
<1> QED BY <1>3, <1>4, <1>5 DEF IInv

-----------------------------------------------------------------------------
(* Channels and messages *)

LEMMA OpensStep ==
  ASSUME IInv, NEW c \in Channels, Opens(c)
  PROVE  IInv'
<1>1. TypeOK /\ Listened /\ Queued /\ TakenOnce
  BY DEF IInv
<1>2. /\ channel' = [channel EXCEPT ![c] = "open"]
      /\ queue' = [queue EXCEPT ![c] = unacked \cap On(Path[c])]
      /\ \A d \in Channels : Path[d] = Path[c] => channel[d] # "open"
      /\ UNCHANGED <<unacked, account, arrived, watched, told, context, listener, taken,
                     pendingIds, rows, forgotten>>
  BY DEF Opens
<1>3. TypeOK' /\ Listened'
  BY <1>1, <1>2 DEF TypeOK, Listened
<1>4. Queued'
  BY <1>1, <1>2 DEF TypeOK, Queued, On
<1>5. TakenOnce'
  BY <1>1, <1>2 DEF TakenOnce
<1> QED BY <1>3, <1>4, <1>5 DEF IInv

LEMMA ClosesStep ==
  ASSUME IInv, NEW c \in Channels, Closes(c)
  PROVE  IInv'
<1>1. TypeOK /\ Listened /\ Queued /\ TakenOnce
  BY DEF IInv
<1>2. /\ channel' = [channel EXCEPT ![c] = "closed"]
      /\ UNCHANGED <<queue, unacked, account, arrived, watched, told, context, listener, taken,
                     pendingIds, rows, forgotten>>
  BY DEF Closes
<1>3. TypeOK' /\ Listened'
  BY <1>1, <1>2 DEF TypeOK, Listened
<1>4. Queued'
  BY <1>1, <1>2 DEF TypeOK, Queued, On
<1>5. TakenOnce'
  BY <1>1, <1>2 DEF TakenOnce
<1> QED BY <1>3, <1>4, <1>5 DEF IInv

LEMMA AcknowledgedStep ==
  ASSUME IInv, NEW c \in Channels, NEW m \in Msgs, Acknowledged(m, c)
  PROVE  IInv'
<1>1. TypeOK /\ Listened /\ Queued /\ TakenOnce
  BY DEF IInv
<1>2. /\ channel[c] = "open" /\ m \in queue[c]
      /\ unacked' = unacked \ {m}
      /\ queue' = [queue EXCEPT ![c] = @ \ {m}]
      /\ pendingIds' \in {pendingIds, pendingIds \ {m}}
      /\ UNCHANGED <<channel, account, arrived, watched, told, context, listener, taken, rows,
                     forgotten>>
  BY DEF Acknowledged
<1>3. TypeOK' /\ Listened'
  BY <1>1, <1>2 DEF TypeOK, Listened
<1>4. \A d \in Channels : channel[d] = "open" /\ d # c => m \notin queue[d]
  BY <1>1, <1>2 DEF Queued, On
<1>5. Queued'
  BY <1>1, <1>2, <1>4 DEF TypeOK, Queued
<1>6. TakenOnce'
  BY <1>1, <1>2 DEF TakenOnce
<1> QED BY <1>3, <1>5, <1>6 DEF IInv

\* What handleMessages takes was taken by nobody, and was not stored.
LEMMA TakesNew ==
  ASSUME TypeOK, Queued, TakenOnce, NEW c \in Channels, channel[c] = "open",
         NEW m \in queue[c] \ pendingIds, m \notin forgotten
  PROVE  rows[m] = 0 /\ \A d \in Channels : m \notin taken[d]
BY DEF TypeOK, Queued, TakenOnce

LEMMA ArrivesStep ==
  ASSUME IInv, NEW c \in Channels, NEW m \in Msgs, Arrives(m, c)
  PROVE  IInv'
<1>1. TypeOK /\ Listened /\ Queued /\ TakenOnce
  BY DEF IInv
<1>2. /\ m \notin arrived /\ channel[c] = "open" /\ Path[c] = MsgPath[m]
      /\ arrived' = arrived \cup {m} /\ unacked' = unacked \cup {m}
      /\ queue' = [queue EXCEPT ![c] = @ \cup {m}]
      /\ UNCHANGED <<channel, account, watched, told, context, listener, rows, forgotten>>
  BY DEF Arrives
<1> DEFINE new == (queue[c] \cup {m}) \ pendingIds
<1>3. \/ taken' = [taken EXCEPT ![c] = @ \cup new] /\ pendingIds' = pendingIds \cup new
      \/ UNCHANGED <<taken, pendingIds>>
  BY <1>1, <1>2 DEF Arrives, HandleMessages, NewTo, TypeOK
<1>4. /\ \A d \in Channels : m \notin queue[d] /\ m \notin taken[d]
      /\ m \notin pendingIds /\ rows[m] = 0
  BY <1>1, <1>2, Unknowns DEF TakenOnce
<1>5. TypeOK'
  BY <1>1, <1>2, <1>3 DEF TypeOK
<1>6. Listened'
  BY <1>1, <1>2 DEF Listened
<1>7. Queued'
  BY <1>1, <1>2 DEF TypeOK, Queued, On
<1>8. \A n \in Msgs \ forgotten : n \in new =>
        rows[n] = 0 /\ \A d \in Channels : n \notin taken[d]
  BY <1>1, <1>2, <1>4, TakesNew
<1>9. TakenOnce'
  <2>1. CASE taken' = [taken EXCEPT ![c] = @ \cup new] /\ pendingIds' = pendingIds \cup new
    <3>1. \A n \in Msgs \ arrived' : rows'[n] = 0
      BY <1>1, <1>2 DEF TakenOnce
    <3>2. ASSUME NEW n \in Msgs \ forgotten
          PROVE  /\ rows[n] <= 1
                 /\ \A d, e \in Channels : n \in taken'[d] /\ n \in taken'[e] => d = e
                 /\ \A d \in Channels : n \in taken'[d] => rows[n] = 0
      BY <1>1, <1>8, <2>1 DEF TypeOK, TakenOnce
    <3>3. ASSUME NEW n \in Msgs \ forgotten, NEW e \in Channels,
                 n \in unacked', rows[n] > 0 \/ n \in taken'[e]
          PROVE  n \in pendingIds'
      BY <1>1, <1>2, <1>4, <2>1, <3>3 DEF TypeOK, TakenOnce
    <3> QED BY <1>2, <3>1, <3>2, <3>3 DEF TakenOnce
  <2>2. CASE UNCHANGED <<taken, pendingIds>>
    BY <1>1, <1>2, <1>4, <2>2 DEF TypeOK, TakenOnce
  <2> QED BY <1>3, <2>1, <2>2
<1> QED BY <1>5, <1>6, <1>7, <1>9 DEF IInv

-----------------------------------------------------------------------------
(* Listeners *)

LEMMA ListenerReadyStep ==
  ASSUME IInv, NEW c \in Channels, ListenerReady(c)
  PROVE  IInv'
<1>1. TypeOK /\ Listened /\ Queued /\ TakenOnce
  BY DEF IInv
<1>2. /\ listener[c] = "preparing" /\ channel[c] = "open"
      /\ listener' = [listener EXCEPT ![c] = "listening"]
      /\ context' = [context EXCEPT ![c] = "finished"]
      /\ UNCHANGED <<queue, channel, unacked, account, arrived, watched, told, rows, forgotten>>
  BY DEF ListenerReady
<1> DEFINE new == queue[c] \ pendingIds
<1>3. \/ taken' = [taken EXCEPT ![c] = new] /\ pendingIds' = pendingIds \cup new
      \/ UNCHANGED <<taken, pendingIds>>
  BY <1>2 DEF ListenerReady, HandleMessages, NewTo
<1>4. TypeOK'
  BY <1>1, <1>2, <1>3 DEF TypeOK
<1>5. Listened'
  BY <1>1, <1>2 DEF TypeOK, Listened
<1>6. Queued'
  BY <1>1, <1>2 DEF Queued
<1>7. \A n \in Msgs \ forgotten : n \in new =>
        rows[n] = 0 /\ \A d \in Channels : n \notin taken[d]
  BY <1>1, <1>2, TakesNew
<1>8. TakenOnce'
  <2>1. CASE taken' = [taken EXCEPT ![c] = new] /\ pendingIds' = pendingIds \cup new
    BY <1>1, <1>2, <1>7, <2>1 DEF TypeOK, TakenOnce
  <2>2. CASE UNCHANGED <<taken, pendingIds>>
    BY <1>1, <1>2, <2>2 DEF TakenOnce
  <2> QED BY <1>3, <2>1, <2>2
<1> QED BY <1>4, <1>5, <1>6, <1>8 DEF IInv

\* The message was taken by this listener only, and was not stored.
LEMMA SettlesStep ==
  ASSUME IInv, NEW c \in Channels, NEW m \in Msgs, Settles(c, m)
  PROVE  IInv'
<1>1. TypeOK /\ Listened /\ Queued /\ TakenOnce
  BY DEF IInv
<1>2. /\ m \in taken[c]
      /\ rows' = [rows EXCEPT ![m] = @ + 1]
      /\ taken' = [taken EXCEPT ![c] = @ \ {m}]
      /\ UNCHANGED <<channel, queue, unacked, account, arrived, watched, told, context>>
  BY DEF Settles
<1>3. \/ listener' = [listener EXCEPT ![c] = "closed"] /\ Forget({c})
      \/ UNCHANGED <<listener, pendingIds, forgotten>>
  BY DEF Settles
<1>4. /\ pendingIds' \subseteq arrived
      /\ forgotten \subseteq forgotten' /\ forgotten' \subseteq arrived
      /\ \A n \in unacked \ forgotten' : n \in pendingIds => n \in pendingIds'
  <2>1. CASE Forget({c})
    <3>1. {c} \in SUBSET Channels
      OBVIOUS
    <3> QED BY <1>1, <2>1, <3>1, Forgetting DEF TypeOK
  <2>2. CASE UNCHANGED <<listener, pendingIds, forgotten>>
    BY <1>1, <2>2 DEF TypeOK
  <2> QED BY <1>3, <2>1, <2>2
<1>5. TypeOK'
  BY <1>1, <1>2, <1>3, <1>4 DEF TypeOK
<1>6. Listened'
  BY <1>1, <1>2, <1>3 DEF TypeOK, Listened
<1>7. Queued'
  BY <1>1, <1>2 DEF Queued
<1>8. TakenOnce'
  <2>1. \A n \in Msgs \ arrived' : rows'[n] = 0
    BY <1>1, <1>2 DEF TypeOK, TakenOnce
  <2>2. \A n \in Msgs, d \in Channels : n \in taken'[d] <=> n \in taken[d] /\ ~(n = m /\ d = c)
    BY <1>1, <1>2 DEF TypeOK
  <2>3. ASSUME NEW n \in Msgs \ forgotten'
        PROVE  /\ rows'[n] <= 1
               /\ \A d, e \in Channels : n \in taken'[d] /\ n \in taken'[e] => d = e
               /\ \A d \in Channels : n \in taken'[d] => rows'[n] = 0
    <3>1. n \in Msgs \ forgotten
      BY <1>4
    <3>2. n = m => rows[n] = 0 /\ \A d \in Channels : n \notin taken'[d]
      BY <1>1, <1>2, <2>2, <3>1 DEF TakenOnce
    <3>3. rows'[n] = IF n = m THEN rows[n] + 1 ELSE rows[n]
      BY <1>1, <1>2 DEF TypeOK
    <3> QED BY <1>1, <2>2, <3>1, <3>2, <3>3 DEF TakenOnce
  <2>4. ASSUME NEW n \in Msgs \ forgotten', NEW d \in Channels,
               n \in unacked, rows'[n] > 0 \/ n \in taken'[d]
        PROVE  n \in pendingIds'
    <3>1. n \in Msgs \ forgotten /\ (rows[n] > 0 \/ n \in taken[c] \/ n \in taken[d])
      BY <1>1, <1>2, <1>4, <2>2, <2>4 DEF TypeOK
    <3>2. n \in pendingIds
      BY <1>1, <2>4, <3>1 DEF TakenOnce
    <3> QED BY <1>4, <2>4, <3>2
  <2> QED BY <1>2, <2>1, <2>3, <2>4 DEF TakenOnce
<1> QED BY <1>5, <1>6, <1>7, <1>8 DEF IInv

-----------------------------------------------------------------------------
(* The invariant, and what follows from it *)

LEMMA InitInv == Init => IInv
BY DEF Init, IInv, TypeOK, Listened, Queued, TakenOnce

LEMMA NextInv == IInv /\ [Next]_vars => IInv'
<1> SUFFICES ASSUME IInv, [Next]_vars PROVE IInv'
  OBVIOUS
<1>1. ASSUME NEW c \in Channels, Opens(c) \/ Closes(c)
      PROVE  IInv'
  BY <1>1, OpensStep, ClosesStep
<1>2. ASSUME NEW c \in Channels, Turn(c)
      PROVE  IInv'
  BY <1>2, CreateChannelListenerStep, SlotInvalidatedStep, ListenerReadyStep,
     ListenerFailsStep, SettlesStep DEF Turn
<1>3. ASSUME NEW c \in Channels, NEW m \in Msgs, Arrives(m, c) \/ Acknowledged(m, c)
      PROVE  IInv'
  BY <1>3, ArrivesStep, AcknowledgedStep
<1>4. CASE AccountInvalidated
  BY <1>4, AccountInvalidatedStep
<1>5. CASE UNCHANGED vars
  BY <1>5 DEF vars, IInv, TypeOK, Listened, Queued, TakenOnce
<1> QED BY <1>1, <1>2, <1>3, <1>4, <1>5 DEF Next

\* A set that has no two members has at most one.
LEMMA AtMostOne ==
  ASSUME NEW S, \A x, y \in S : x = y
  PROVE  Cardinality(S) \in {0, 1} /\ (S = {} => Cardinality(S) = 0)
<1>1. CASE S = {}
  BY <1>1, FS_EmptySet
<1>2. CASE S # {}
  <2>1. PICK x \in S : S = {x}
    BY <1>2
  <2> QED BY <1>2, <2>1, FS_Singleton
<1> QED BY <1>1, <1>2

\* A path has one listener that hears its channel, and the path is on the list of
\* Logger::m_Channels, so that createChannelListener refuses another.
THEOREM Sound == Spec => []ListenersAreSound
<1>1. IInv => ListenersAreSound
  BY DEF IInv, Listened, ListenersAreSound, OneListener
<1> QED BY <1>1, InitInv, NextInv, PTL DEF Spec

\* A message is stored at most once, whatever objects of its path take it, unless a
\* listener of its path went before it was acknowledged (closed() in
\* TextChannelListener forgets the ids of the whole path).
THEOREM Once == Spec => []StoredOnce
<1>1. IInv => StoredOnce
  <2> SUFFICES ASSUME IInv, NEW m \in Msgs \ forgotten
               PROVE  rows[m] + Cardinality({c \in Channels : m \in taken[c]}) <= 1
    BY DEF StoredOnce
  <2> DEFINE S == {c \in Channels : m \in taken[c]}
  <2>1. rows[m] \in {0, 1} /\ (S # {} => rows[m] = 0) /\ \A c, d \in S : c = d
    BY DEF IInv, TypeOK, TakenOnce
  <2>2. Cardinality(S) \in {0, 1} /\ (S = {} => Cardinality(S) = 0)
    BY <2>1, AtMostOne
  <2> HIDE DEF S
  <2>3. rows[m] + Cardinality(S) <= 1
    BY <2>1, <2>2
  <2> QED BY <2>3 DEF S
<1> QED BY <1>1, InitInv, NextInv, PTL DEF Spec

-----------------------------------------------------------------------------
(* Notifications: the inductive invariant *)

\* a notification is at one position of a list
Apart(list) == \A i, j \in 1 .. Len(list) : list[i].id = list[j].id => i = j

ListedOnce ==
  /\ Apart(notifications) /\ Apart(unresolved)
  /\ Ids(notifications) \cap Ids(unresolved) = {}

OnLists == Elements(notifications) \cup Elements(unresolved)

\* requests number the notifications and bound what they count
Numbered ==
  /\ \A pn \in OnLists : pn.id <= shows /\ pn.count <= shows
  /\ \A k \in DOMAIN calls : calls[k] <= shows

NotifyInv == ListsAreSound /\ CallsAreOne /\ ListedOnce /\ Numbered

-----------------------------------------------------------------------------
(* Lists of notifications *)

PN == PersonalNotification

\* What a list has is what is at its positions.
LEMMA Lookup ==
  ASSUME NEW s \in Seq(PN)
  PROVE  /\ Len(s) \in Nat /\ DOMAIN s = 1 .. Len(s)
         /\ \A i \in 1 .. Len(s) : s[i] \in PN
         /\ \A pn : pn \in Elements(s) <=> \E i \in 1 .. Len(s) : s[i] = pn
         /\ \A id : id \in Ids(s) <=> \E i \in 1 .. Len(s) : s[i].id = id
         /\ \A id : id \in Ids(s) <=> \E pn \in Elements(s) : pn.id = id
         /\ Elements(s) \subseteq PN
<1>1. Len(s) \in Nat /\ DOMAIN s = 1 .. Len(s) /\ \A i \in 1 .. Len(s) : s[i] \in PN
  OBVIOUS
<1> QED BY <1>1 DEF Elements, Ids

\* The first of a set of positions.
LEMMA MinIsFirst ==
  ASSUME NEW n \in Nat, NEW I \in SUBSET (1 .. n), I # {}
  PROVE  Min(I) \in I /\ \A j \in I : Min(I) <= j
<1>1. I \subseteq Nat
  OBVIOUS
<1>2. PICK x \in I : \A y \in I : ~ (<<y, x>> \in OpToRel(<, Nat))
  BY <1>1, NatLessThanWellFounded, WFMin
<1>3. \A y \in I : x <= y
  <2> SUFFICES ASSUME NEW y \in I PROVE ~ (y < x)
    BY <1>1
  <2>1. <<y, x>> \notin OpToRel(<, Nat)
    BY <1>2
  <2> QED BY <1>1, <2>1 DEF OpToRel
<1> QED BY <1>3 DEF Min

\* The first notification about one of the events, if there is one.
LEMMA AboutIsFirst ==
  ASSUME NEW s \in Seq(PN), NEW events
  PROVE  LET i == FirstAbout(s, events)
         IN  \/ i = 0 /\ \A j \in 1 .. Len(s) : s[j].event \notin events
             \/ /\ i \in 1 .. Len(s) /\ s[i].event \in events
                /\ \A j \in 1 .. Len(s) : s[j].event \in events => i <= j
<1> DEFINE I == {j \in 1 .. Len(s) : s[j].event \in events}
<1>1. FirstAbout(s, events) = IF I # {} THEN Min(I) ELSE 0
  BY DEF FirstAbout, SelectInSeq
<1>2. Len(s) \in Nat
  OBVIOUS
<1>3. I # {} => Min(I) \in I /\ \A j \in I : Min(I) <= j
  BY <1>2, MinIsFirst
<1> QED BY <1>1, <1>3

\* The first notification of a message.
LEMMA TokenIsFirst ==
  ASSUME NEW s \in Seq(PN), NEW token
  PROVE  LET i == FirstWithToken(s, token)
         IN  \/ i = 0 /\ \A j \in 1 .. Len(s) : s[j].token # token
             \/ i \in 1 .. Len(s) /\ s[i].token = token
<1> DEFINE I == {j \in 1 .. Len(s) : s[j].token = token}
<1>1. FirstWithToken(s, token) = IF I # {} THEN Min(I) ELSE 0
  BY DEF FirstWithToken, SelectInSeq
<1>2. Len(s) \in Nat
  OBVIOUS
<1>3. I # {} => Min(I) \in I /\ \A j \in I : Min(I) <= j
  BY <1>2, MinIsFirst
<1> QED BY <1>1, <1>3

\* The first notification of a caller.
LEMMA CallerIsFirst ==
  ASSUME NEW s \in Seq(PN), NEW e
  PROVE  LET i == FindNotification(s, e)
         IN  \/ i = 0 /\ \A j \in 1 .. Len(s) : ~SameCaller(s[j], e)
             \/ i \in 1 .. Len(s) /\ SameCaller(s[i], e)
<1> DEFINE I == {j \in 1 .. Len(s) : SameCaller(s[j], e)}
<1>1. FindNotification(s, e) = IF I # {} THEN Min(I) ELSE 0
  BY DEF FindNotification, SelectInSeq
<1>2. Len(s) \in Nat
  OBVIOUS
<1>3. I # {} => Min(I) \in I /\ \A j \in I : Min(I) <= j
  BY <1>2, MinIsFirst
<1> QED BY <1>1, <1>3

\* A notification is put last.
LEMMA PutLast ==
  ASSUME NEW s \in Seq(PN), NEW pn \in PN
  PROVE  /\ Append(s, pn) \in Seq(PN)
         /\ Elements(Append(s, pn)) = Elements(s) \cup {pn}
         /\ Ids(Append(s, pn)) = Ids(s) \cup {pn.id}
         /\ Apart(s) /\ pn.id \notin Ids(s) => Apart(Append(s, pn))
<1> DEFINE t == Append(s, pn)
           n == Len(s)
<1>1. /\ t \in Seq(PN) /\ n \in Nat /\ Len(t) = n + 1 /\ t[n + 1] = pn
      /\ \A i \in 1 .. n : t[i] = s[i]
  OBVIOUS
<1> HIDE DEF t
<1>2. 1 .. Len(t) = 1 .. n \cup {n + 1}
  BY <1>1
<1>3. Elements(t) = Elements(s) \cup {pn}
  BY <1>1, <1>2, Lookup
<1>4. Ids(t) = Ids(s) \cup {pn.id}
  BY <1>1, <1>2, Lookup
<1>5. ASSUME Apart(s), pn.id \notin Ids(s) PROVE Apart(t)
  BY <1>1, <1>2, <1>5, Lookup DEF Apart
<1> QED BY <1>1, <1>3, <1>4, <1>5 DEF t

\* Lists with the same ids at the same positions.
LEMMA SameIds ==
  ASSUME NEW s \in Seq(PN), NEW t \in Seq(PN), Len(t) = Len(s),
         \A j \in 1 .. Len(s) : t[j].id = s[j].id
  PROVE  Ids(t) = Ids(s) /\ (Apart(s) => Apart(t))
<1>1. \A id : id \in Ids(t) <=> \E j \in 1 .. Len(s) : t[j].id = id
  BY Lookup
<1>2. \A id : id \in Ids(s) <=> \E j \in 1 .. Len(s) : s[j].id = id
  BY Lookup
<1>3. \A id : id \in Ids(t) <=> id \in Ids(s)
  BY <1>1, <1>2
<1>4. Ids(t) = Ids(s)
  BY <1>3
<1> QED BY <1>4 DEF Apart

\* A notification is changed in its place.
LEMMA Changed ==
  ASSUME NEW s \in Seq(PN), NEW i \in 1 .. Len(s), NEW pn \in PN, pn.id = s[i].id
  PROVE  LET t == [s EXCEPT ![i] = pn]
         IN  /\ t \in Seq(PN) /\ Ids(t) = Ids(s)
             /\ \A q \in Elements(t) : q = pn \/ \E j \in 1 .. Len(s) : j # i /\ q = s[j]
             /\ Apart(s) => Apart(t)
<1> DEFINE t == [s EXCEPT ![i] = pn]
<1>1. /\ t \in Seq(PN) /\ Len(t) = Len(s) /\ t[i] = pn
      /\ \A j \in 1 .. Len(s) : j # i => t[j] = s[j]
  OBVIOUS
<1> HIDE DEF t
<1>2. \A j \in 1 .. Len(s) : t[j].id = s[j].id
  BY <1>1
<1>3. Ids(t) = Ids(s)
  BY <1>1, <1>2, SameIds
<1>4. \A q \in Elements(t) : q = pn \/ \E j \in 1 .. Len(s) : j # i /\ q = s[j]
  BY <1>1, Lookup
<1> QED BY <1>1, <1>2, <1>3, <1>4, SameIds DEF t

\* One list behind the other.
LEMMA Joined ==
  ASSUME NEW s \in Seq(PN), NEW t \in Seq(PN)
  PROVE  /\ s \o t \in Seq(PN)
         /\ Elements(s \o t) = Elements(s) \cup Elements(t)
         /\ Ids(s \o t) = Ids(s) \cup Ids(t)
         /\ Apart(s) /\ Apart(t) /\ Ids(s) \cap Ids(t) = {} => Apart(s \o t)
<1> DEFINE r == s \o t
<1>1. /\ r \in Seq(PN) /\ Len(r) = Len(s) + Len(t) /\ Len(s) \in Nat /\ Len(t) \in Nat
      /\ \A i \in 1 .. Len(r) : r[i] = IF i <= Len(s) THEN s[i] ELSE t[i - Len(s)]
  BY ConcatProperties
<1> HIDE DEF r
<1>2. /\ \A i \in 1 .. Len(s) : i \in 1 .. Len(r) /\ r[i] = s[i]
      /\ \A i \in 1 .. Len(t) : \E j \in 1 .. Len(r) : r[j] = t[i]
  <2>1. ASSUME NEW i \in 1 .. Len(t) PROVE \E j \in 1 .. Len(r) : r[j] = t[i]
    <3>1. Len(s) + i \in 1 .. Len(r) /\ ~ (Len(s) + i <= Len(s)) /\ Len(s) + i - Len(s) = i
      BY <1>1
    <3> QED BY <3>1, <1>1
  <2> QED BY <1>1, <2>1
<1>3. \A i \in 1 .. Len(r) :
        \/ i \in 1 .. Len(s) /\ r[i] = s[i]
        \/ i - Len(s) \in 1 .. Len(t) /\ r[i] = t[i - Len(s)]
  BY <1>1
<1>4. /\ \A pn : pn \in Elements(r) <=> pn \in Elements(s) \/ pn \in Elements(t)
      /\ \A id : id \in Ids(r) <=> id \in Ids(s) \/ id \in Ids(t)
  <2>1. \A i \in 1 .. Len(r) : \/ \E j \in 1 .. Len(s) : r[i] = s[j]
                              \/ \E j \in 1 .. Len(t) : r[i] = t[j]
    BY <1>3
  <2>2. \A i \in 1 .. Len(s) : \E j \in 1 .. Len(r) : r[j] = s[i]
    BY <1>2
  <2>3. \A i \in 1 .. Len(t) : \E j \in 1 .. Len(r) : r[j] = t[i]
    BY <1>2
  <2>4. \A pn : pn \in Elements(r) <=> \E i \in 1 .. Len(r) : r[i] = pn
    BY <1>1, Lookup
  <2>5. \A id : id \in Ids(r) <=> \E pn \in Elements(r) : pn.id = id
    BY <1>1, Lookup
  <2>6. /\ \A pn : pn \in Elements(s) <=> \E i \in 1 .. Len(s) : s[i] = pn
        /\ \A pn : pn \in Elements(t) <=> \E i \in 1 .. Len(t) : t[i] = pn
        /\ \A id : id \in Ids(s) <=> \E pn \in Elements(s) : pn.id = id
        /\ \A id : id \in Ids(t) <=> \E pn \in Elements(t) : pn.id = id
    BY Lookup
  <2>7. \A pn : pn \in Elements(r) <=> pn \in Elements(s) \/ pn \in Elements(t)
    <3> TAKE pn
    <3>1. ASSUME pn \in Elements(r) PROVE pn \in Elements(s) \/ pn \in Elements(t)
      <4>1. PICK i \in 1 .. Len(r) : r[i] = pn
        BY <3>1, <2>4
      <4> QED BY <4>1, <2>1, <2>6
    <3>2. ASSUME pn \in Elements(s) PROVE pn \in Elements(r)
      <4>1. PICK i \in 1 .. Len(s) : s[i] = pn
        BY <3>2, <2>6
      <4> QED BY <4>1, <2>2, <2>4
    <3>3. ASSUME pn \in Elements(t) PROVE pn \in Elements(r)
      <4>1. PICK i \in 1 .. Len(t) : t[i] = pn
        BY <3>3, <2>6
      <4> QED BY <4>1, <2>3, <2>4
    <3> QED BY <3>1, <3>2, <3>3
  <2> QED BY <2>5, <2>6, <2>7
<1>5. Elements(r) = Elements(s) \cup Elements(t) /\ Ids(r) = Ids(s) \cup Ids(t)
  BY <1>4
<1>6. ASSUME Apart(s), Apart(t), Ids(s) \cap Ids(t) = {},
             NEW i \in 1 .. Len(r), NEW j \in 1 .. Len(r), r[i].id = r[j].id
      PROVE  i = j
  <2>1. \A k \in 1 .. Len(s), l \in 1 .. Len(t) : s[k].id # t[l].id
    BY <1>6, Lookup
  <2>2. CASE i \in 1 .. Len(s) /\ r[i] = s[i]
    <3>1. ~ (j - Len(s) \in 1 .. Len(t) /\ r[j] = t[j - Len(s)])
      BY <1>6, <2>1, <2>2
    <3>2. j \in 1 .. Len(s) /\ r[j] = s[j]
      BY <1>3, <3>1
    <3> QED BY <1>6, <2>2, <3>2 DEF Apart
  <2>3. CASE i - Len(s) \in 1 .. Len(t) /\ r[i] = t[i - Len(s)]
    <3>1. ~ (j \in 1 .. Len(s) /\ r[j] = s[j])
      BY <1>6, <2>1, <2>3
    <3>2. j - Len(s) \in 1 .. Len(t) /\ r[j] = t[j - Len(s)]
      BY <1>3, <3>1
    <3>3. i - Len(s) = j - Len(s)
      BY <1>6, <2>3, <3>2 DEF Apart
    <3> QED BY <1>1, <3>3
  <2> QED BY <1>3, <2>2, <2>3
<1> QED BY <1>1, <1>5, <1>6 DEF r, Apart

\* Publishing changes no id, event, count, token or text.
LEMMA PublishedList ==
  ASSUME NEW s \in Seq(PN)
  PROVE  /\ Published(s) \in Seq(PN) /\ Ids(Published(s)) = Ids(s)
         /\ Elements(Published(s)) = {[pn EXCEPT !.published = TRUE] : pn \in Elements(s)}
         /\ Apart(s) => Apart(Published(s))
<1> DEFINE t == Published(s)
<1>1. /\ Len(s) \in Nat /\ t = [i \in 1 .. Len(s) |-> [s[i] EXCEPT !.published = TRUE]]
      /\ \A i \in 1 .. Len(s) : s[i] \in PN
  BY DEF Published
<1>2. \A i \in 1 .. Len(s) : [s[i] EXCEPT !.published = TRUE] \in PN
                             /\ [s[i] EXCEPT !.published = TRUE].id = s[i].id
  BY <1>1 DEF PN, PersonalNotification
<1>3. t \in Seq(PN) /\ Len(t) = Len(s) /\ \A i \in 1 .. Len(s) : t[i] = [s[i] EXCEPT !.published = TRUE]
  BY <1>1, <1>2
<1> HIDE DEF t
<1>4. \A i \in 1 .. Len(s) : t[i].id = s[i].id
  BY <1>2, <1>3
<1>5. /\ \A pn : pn \in Elements(t) <=> \E i \in 1 .. Len(s) : t[i] = pn
      /\ \A pn : pn \in Elements(s) <=> \E i \in 1 .. Len(s) : s[i] = pn
  BY <1>3, Lookup
<1>6. \A pn : pn \in Elements(t) <=> \E q \in Elements(s) : pn = [q EXCEPT !.published = TRUE]
  <2> TAKE pn
  <2>1. ASSUME pn \in Elements(t) PROVE \E q \in Elements(s) : pn = [q EXCEPT !.published = TRUE]
    <3>1. PICK i \in 1 .. Len(s) : t[i] = pn
      BY <2>1, <1>5
    <3>2. s[i] \in Elements(s) /\ pn = [s[i] EXCEPT !.published = TRUE]
      BY <3>1, <1>3, <1>5
    <3> QED BY <3>2
  <2>2. ASSUME NEW q \in Elements(s), pn = [q EXCEPT !.published = TRUE] PROVE pn \in Elements(t)
    <3>1. PICK i \in 1 .. Len(s) : s[i] = q
      BY <1>5
    <3>2. t[i] = pn
      BY <2>2, <3>1, <1>3
    <3> QED BY <3>2, <1>5
  <2> QED BY <2>1, <2>2
<1>7. Elements(t) = {[pn EXCEPT !.published = TRUE] : pn \in Elements(s)}
  BY <1>6
<1> QED BY <1>3, <1>4, <1>7, SameIds DEF t

\* deleteNotifications splits the list: nothing of the events is left, and what is
\* gone is not on the list any more.
LEMMA Splits ==
  ASSUME NEW s \in Seq(PN), NEW events
  PROVE  /\ Left(s, events) \in Seq(PN) /\ Deleted(s, events) \in Seq(PN)
         /\ Elements(Left(s, events)) \subseteq Elements(s)
         /\ Ids(s) \subseteq Ids(Left(s, events)) \cup Ids(Deleted(s, events))
         /\ Apart(s) => Apart(Left(s, events))
         /\ \A pn \in Elements(Left(s, events)) : pn.event \notin events
<1> DEFINE i == FirstAbout(s, events)
           n == Len(s)
<1>1. n \in Nat /\ \A j \in 1 .. n : s[j] \in PN
  OBVIOUS
<1>2. \/ i = 0 /\ \A j \in 1 .. n : s[j].event \notin events
      \/ i \in 1 .. n /\ \A j \in 1 .. n : s[j].event \in events => i <= j
  BY AboutIsFirst
<1>3. CASE i = 0
  <2>1. Left(s, events) = s /\ Deleted(s, events) = <<>>
    BY <1>3 DEF Left, Deleted
  <2>2. \A pn \in Elements(s) : pn.event \notin events
    BY <1>2, <1>3, Lookup
  <2> QED BY <2>1, <2>2
<1>4. CASE i \in 1 .. n
  <2> HIDE DEF i
  <2>1. Deleted(s, events) = SubSeq(s, i, n)
    BY <1>4 DEF Deleted, LastDeleted, i
  <2>2. Left(s, events) = SubSeq(s, 1, i - 1) \o SubSeq(s, n + 1, n)
    BY <1>4 DEF Left, LastDeleted, i
  <2>3. SubSeq(s, n + 1, n) = <<>>
    BY <1>1
  <2>4. SubSeq(s, 1, i - 1) \in Seq(PN)
    BY <1>1, <1>4
  <2>5. Left(s, events) = SubSeq(s, 1, i - 1)
    BY <2>2, <2>3, <2>4
  <2> DEFINE l == Left(s, events)
             d == Deleted(s, events)
  <2>6. l \in Seq(PN) /\ Len(l) = i - 1 /\ \A j \in 1 .. (i - 1) : l[j] = s[j]
    BY <2>5, <1>1, <1>4
  <2>7. d \in Seq(PN) /\ Len(d) = n - i + 1 /\ \A j \in 1 .. (n - i + 1) : d[j] = s[i + j - 1]
    BY <2>1, <1>1, <1>4
  <2> HIDE DEF l, d
  <2>8. \A j \in 1 .. (i - 1) : j \in 1 .. n /\ s[j].event \notin events
    BY <1>1, <1>2, <1>4
  <2>9. Elements(l) \subseteq Elements(s) /\ \A pn \in Elements(l) : pn.event \notin events
    BY <2>6, <2>8, Lookup
  <2>10. Ids(s) \subseteq Ids(l) \cup Ids(d)
    <3> SUFFICES ASSUME NEW j \in 1 .. n PROVE s[j].id \in Ids(l) \cup Ids(d)
      BY Lookup
    <3>1. CASE j < i
      <4>1. j \in 1 .. (i - 1)
        BY <3>1, <1>4
      <4> QED BY <4>1, <2>6, Lookup
    <3>2. CASE j >= i
      <4>1. (j - i + 1) \in 1 .. (n - i + 1) /\ i + (j - i + 1) - 1 = j
        BY <3>2, <1>1, <1>4
      <4>2. d[j - i + 1] = s[j]
        BY <4>1, <2>7
      <4> QED BY <4>1, <4>2, <2>7, Lookup
    <3> QED BY <3>1, <3>2, <1>1, <1>4
  <2>11. Apart(s) => Apart(l)
    BY <2>6, <2>8 DEF Apart
  <2> QED BY <2>6, <2>7, <2>9, <2>10, <2>11 DEF l, d
<1> QED BY <1>2, <1>3, <1>4

\* What the server gives back, in any order.
LEMMA Ordered ==
  ASSUME NEW S \in SUBSET PN, IsFiniteSet(S), NEW t \in SetToSeqs(S),
         \A p, q \in S : p.id = q.id => p = q
  PROVE  t \in Seq(PN) /\ Elements(t) = S /\ Apart(t)
<1> DEFINE n == Cardinality(S)
<1>1. n \in Nat
  BY FS_CardinalityType
<1>2. t \in [1 .. n -> S] /\ \A i, j \in 1 .. n : i # j => t[i] # t[j]
  BY DEF SetToSeqs
<1>3. t \in Seq(PN) /\ Len(t) = n
  BY <1>1, <1>2
<1>4. t \in Injection(1 .. n, S)
  BY <1>2 DEF Injection, IsInjective
<1>5. Cardinality(1 .. n) = n /\ IsFiniteSet(1 .. n)
  BY <1>1, FS_Interval
<1>6. t \in Surjection(1 .. n, S)
  BY <1>4, <1>5, FS_Injection
<1>7. \A pn \in S : \E i \in 1 .. n : t[i] = pn
  BY <1>6 DEF Surjection
<1>8. Elements(t) = S
  <2>1. \A pn : pn \in Elements(t) <=> \E i \in 1 .. n : t[i] = pn
    BY <1>3, Lookup
  <2>2. \A pn : pn \in Elements(t) <=> pn \in S
    BY <1>2, <1>7, <2>1
  <2> QED BY <2>2
<1>9. Apart(t)
  BY <1>2, <1>3 DEF Apart
<1> QED BY <1>3, <1>8, <1>9

-----------------------------------------------------------------------------
(* Notifications: what keeps the invariant *)

\* what the lists do not say
OtherTypes ==
  /\ resolved \subseteq Remotes
  /\ inboxObserved \in BOOLEAN /\ inboxFilter \in Accounts \cup {AllAccounts}
  /\ conversations \subseteq Conversations /\ callHistory \in BOOLEAN
  /\ removedAccounts \subseteq Accounts
  /\ crashed \in BOOLEAN
  /\ restarts \in 0 .. MaxRestarts

\* the lists, and the screen, in shape
Shaped ==
  /\ notifications \in Seq(PN) /\ unresolved \in Seq(PN)
  /\ ListedOnce /\ screen \subseteq Listed

\* Ids that are listed are those of notifications.
LEMMA ListedAreNumbers ==
  ASSUME notifications \in Seq(PN), unresolved \in Seq(PN)
  PROVE  /\ \A id : id \in Listed <=> \E pn \in OnLists : pn.id = id
         /\ Listed \subseteq 1 .. MaxShows
         /\ OnLists \subseteq PN
<1>1. /\ \A id : id \in Ids(notifications) <=> \E pn \in Elements(notifications) : pn.id = id
      /\ Elements(notifications) \subseteq PN
  BY Lookup
<1>2. /\ \A id : id \in Ids(unresolved) <=> \E pn \in Elements(unresolved) : pn.id = id
      /\ Elements(unresolved) \subseteq PN
  BY Lookup
<1>3. /\ \A id : id \in Listed <=> \E pn \in OnLists : pn.id = id
      /\ OnLists \subseteq PN
  BY <1>1, <1>2 DEF Listed, OnLists
<1>4. \A pn \in PN : pn.id \in 1 .. MaxShows
  BY DEF PN, PersonalNotification
<1> QED BY <1>3, <1>4

\* The parts of the invariant make the whole.
LEMMA Whole ==
  ASSUME Shaped', OtherTypes', CallsAreOne', Numbered', (shows \in 0 .. MaxShows)',
         (calls \in [{"call", "voicemail"} \X Remotes -> 0 .. MaxShows])'
  PROVE  NotifyInv'
<1>1. (Listed \subseteq 1 .. MaxShows)'
  <2>1. \A id : id \in Ids(notifications') <=> \E pn \in Elements(notifications') : pn.id = id
    BY Lookup DEF Shaped
  <2>2. \A id : id \in Ids(unresolved') <=> \E pn \in Elements(unresolved') : pn.id = id
    BY Lookup DEF Shaped
  <2>3. Elements(notifications') \subseteq PN /\ Elements(unresolved') \subseteq PN
    BY Lookup DEF Shaped
  <2>4. \A pn \in PN : pn.id \in 1 .. MaxShows
    BY DEF PN, PersonalNotification
  <2> QED BY <2>1, <2>2, <2>3, <2>4 DEF Listed
<1> QED BY <1>1 DEF NotifyInv, ListsAreSound, NotificationTypes, ShownIsListed, Shaped,
           OtherTypes, PN

\* What the invariant says of a notification on the lists.
LEMMA Parts ==
  ASSUME NotifyInv
  PROVE  /\ Shaped /\ OtherTypes /\ CallsAreOne /\ Numbered
         /\ shows \in 0 .. MaxShows /\ MaxShows \in Nat
         /\ calls \in [{"call", "voicemail"} \X Remotes -> 0 .. MaxShows]
         /\ OnLists \subseteq PN
         /\ \A pn \in OnLists : /\ pn.id \in 1 .. MaxShows /\ pn.count \in 1 .. MaxShows
                                /\ pn.event \in Events /\ pn.id <= shows /\ pn.count <= shows
<1>1. Shaped /\ OtherTypes /\ CallsAreOne /\ Numbered
  BY DEF NotifyInv, ListsAreSound, NotificationTypes, ShownIsListed, Shaped, OtherTypes, PN
<1>2. OnLists \subseteq PN
  BY <1>1, ListedAreNumbers DEF Shaped
<1>3. \A pn \in PN : pn.id \in 1 .. MaxShows /\ pn.count \in 1 .. MaxShows /\ pn.event \in Events
  BY DEF PN, PersonalNotification
<1> QED BY <1>1, <1>2, <1>3, NotificationAssumption
           DEF NotifyInv, ListsAreSound, NotificationTypes, Numbered

\* An event that is no message is of a party, and has no token.
LEMMA CallKey ==
  ASSUME NEW e \in Events
  PROVE  /\ Type[e] \in Types /\ Remote[e] \in Remotes
         /\ Type[e] # "message" => /\ Type[e] \in {"call", "voicemail"}
                                   /\ <<Type[e], Remote[e]>> \in {"call", "voicemail"} \X Remotes
                                   /\ ~IsEdit(e)
BY NotificationAssumption DEF Types, Remotes, IsEdit

\* Every notification has the id, the event and the count of one that was there.
LEMMA Fewer ==
  ASSUME NotifyInv, Shaped', OtherTypes', shows' \in shows .. MaxShows,
         UNCHANGED <<calls, crashed>>,
         \A p \in OnLists' : \E q \in OnLists :
           p.id = q.id /\ p.event = q.event /\ p.count = q.count
  PROVE  NotifyInv'
<1>1. /\ CallsAreOne /\ Numbered /\ shows \in Nat /\ MaxShows \in Nat
      /\ \A pn \in OnLists : pn.id \in Nat /\ pn.count \in Nat /\ pn.id <= shows /\ pn.count <= shows
      /\ calls \in [{"call", "voicemail"} \X Remotes -> 0 .. MaxShows]
  BY Parts
<1>2. OneForCaller'
  <2> SUFFICES ASSUME NEW p \in OnLists', NEW q \in OnLists',
                      Type[p.event] # "message", Type[q.event] = Type[p.event],
                      Remote[p.event] = Remote[q.event]
               PROVE  p.id = q.id
    BY DEF OneForCaller, OnLists
  <2>1. PICK x \in OnLists : p.id = x.id /\ p.event = x.event
    OBVIOUS
  <2>2. PICK y \in OnLists : q.id = y.id /\ q.event = y.event
    OBVIOUS
  <2> QED BY <1>1, <2>1, <2>2 DEF CallsAreOne, OneForCaller, OnLists
<1>3. CallsCounted'
  <2> SUFFICES ASSUME NEW p \in OnLists', Type[p.event] # "message", Running'
               PROVE  p.count = calls'[<<Type[p.event], Remote[p.event]>>]
    BY DEF CallsCounted, OnLists
  <2>1. PICK x \in OnLists : p.event = x.event /\ p.count = x.count
    OBVIOUS
  <2>2. Running
    BY DEF Running
  <2> QED BY <1>1, <2>1, <2>2 DEF CallsAreOne, CallsCounted, OnLists
<1>4. Numbered'
  <2>1. \A p \in OnLists' : p.id <= shows' /\ p.count <= shows'
    <3> TAKE p \in OnLists'
    <3>1. PICK x \in OnLists : p.id = x.id /\ p.count = x.count
      OBVIOUS
    <3> QED BY <1>1, <3>1
  <2>2. \A k \in DOMAIN calls : calls[k] \in Nat /\ calls[k] <= shows
    BY <1>1 DEF Numbered
  <2>3. \A k \in DOMAIN calls' : calls'[k] <= shows'
    BY <1>1, <2>2
  <2> QED BY <2>1, <2>3 DEF Numbered
<1> QED BY <1>1, <1>2, <1>3, <1>4, Whole DEF CallsAreOne

\* No two notifications of the lists share an id.
LEMMA OneOfId ==
  ASSUME Shaped, NEW p \in OnLists, NEW q \in OnLists, p.id = q.id
  PROVE  p = q
<1>1. /\ \A pn : pn \in Elements(notifications) <=> \E i \in 1 .. Len(notifications) : notifications[i] = pn
      /\ \A id : id \in Ids(notifications) <=> \E pn \in Elements(notifications) : pn.id = id
  BY Lookup DEF Shaped
<1>2. /\ \A pn : pn \in Elements(unresolved) <=> \E i \in 1 .. Len(unresolved) : unresolved[i] = pn
      /\ \A id : id \in Ids(unresolved) <=> \E pn \in Elements(unresolved) : pn.id = id
  BY Lookup DEF Shaped
<1>3. CASE p \in Elements(notifications) /\ q \in Elements(notifications)
  BY <1>1, <1>3 DEF Shaped, ListedOnce, Apart
<1>4. CASE p \in Elements(unresolved) /\ q \in Elements(unresolved)
  BY <1>2, <1>4 DEF Shaped, ListedOnce, Apart
<1>5. ~ (p \in Elements(notifications) /\ q \in Elements(unresolved))
  BY <1>1, <1>2 DEF Shaped, ListedOnce
<1>6. ~ (q \in Elements(notifications) /\ p \in Elements(unresolved))
  BY <1>1, <1>2 DEF Shaped, ListedOnce
<1> QED BY <1>3, <1>4, <1>5, <1>6 DEF OnLists

\* One more call of a party that has a notification.
LEMMA OneMore ==
  ASSUME NotifyInv, Shaped', OtherTypes', NEW e \in Events, Type[e] # "message",
         NEW x \in OnLists, SameCaller(x, e),
         shows < MaxShows, shows' = shows + 1, UNCHANGED crashed,
         calls' = [calls EXCEPT ![<<Type[e], Remote[e]>>] = @ + 1],
         \A p \in OnLists' : p = Amended(x, e) \/ (p \in OnLists /\ p.id # x.id)
  PROVE  NotifyInv'
<1> DEFINE k == <<Type[e], Remote[e]>>
<1>1. /\ CallsAreOne /\ Numbered /\ shows \in Nat /\ MaxShows \in Nat /\ Shaped
      /\ \A pn \in OnLists : /\ pn.id \in Nat /\ pn.count \in Nat
                             /\ pn.id <= shows /\ pn.count <= shows
      /\ calls \in [{"call", "voicemail"} \X Remotes -> 0 .. MaxShows] /\ OnLists \subseteq PN
  BY Parts
<1>2. k \in DOMAIN calls /\ DOMAIN calls = {"call", "voicemail"} \X Remotes
  BY <1>1, CallKey
<1>3. calls[k] \in Nat /\ calls[k] <= shows
  BY <1>1, <1>2 DEF Numbered
<1>4. /\ calls' \in [{"call", "voicemail"} \X Remotes -> 0 .. MaxShows]
      /\ calls'[k] = calls[k] + 1 /\ \A l \in DOMAIN calls : l # k => calls'[l] = calls[l]
  BY <1>1, <1>2, <1>3
<1>5. /\ Amended(x, e).id = x.id /\ Amended(x, e).event = x.event
      /\ Amended(x, e).count = x.count + 1
  BY <1>1 DEF Amended, PN, PersonalNotification
<1>6. \A p \in OnLists' : \E q \in OnLists : p.id = q.id /\ p.event = q.event
  BY <1>5
<1>7. OneForCaller'
  <2> SUFFICES ASSUME NEW p \in OnLists', NEW q \in OnLists',
                      Type[p.event] # "message", Type[q.event] = Type[p.event],
                      Remote[p.event] = Remote[q.event]
               PROVE  p.id = q.id
    BY DEF OneForCaller, OnLists
  <2>1. PICK y \in OnLists : p.id = y.id /\ p.event = y.event
    BY <1>6
  <2>2. PICK z \in OnLists : q.id = z.id /\ q.event = z.event
    BY <1>6
  <2> QED BY <1>1, <2>1, <2>2 DEF CallsAreOne, OneForCaller, OnLists
<1>8. CallsCounted'
  <2> SUFFICES ASSUME NEW p \in OnLists', Type[p.event] # "message", Running'
               PROVE  p.count = calls'[<<Type[p.event], Remote[p.event]>>]
    BY DEF CallsCounted, OnLists
  <2>1. Running
    BY DEF Running
  <2>2. CASE p = Amended(x, e)
    <3>1. x.count = calls[k]
      BY <1>1, <2>1 DEF CallsAreOne, CallsCounted, OnLists, SameCaller
    <3> QED BY <1>4, <1>5, <2>2, <3>1 DEF SameCaller
  <2>3. CASE p \in OnLists /\ p.id # x.id
    <3>1. <<Type[p.event], Remote[p.event]>> # k
      BY <1>1, <2>3 DEF CallsAreOne, OneForCaller, OnLists, SameCaller
    <3>2. p.count = calls[<<Type[p.event], Remote[p.event]>>]
      BY <1>1, <2>1, <2>3 DEF CallsAreOne, CallsCounted, OnLists
    <3>3. p.event \in Events
      BY <2>3, Parts
    <3>4. <<Type[p.event], Remote[p.event]>> \in DOMAIN calls
      BY <1>2, <3>3, CallKey
    <3> QED BY <1>4, <3>1, <3>2, <3>4
  <2> QED BY <2>2, <2>3
<1>9. Numbered'
  <2>1. \A p \in OnLists' : p.id <= shows' /\ p.count <= shows'
    BY <1>1, <1>5
  <2>2. \A l \in DOMAIN calls : calls[l] \in Nat /\ calls[l] <= shows
    BY <1>1 DEF Numbered
  <2>3. \A l \in DOMAIN calls' : calls'[l] <= shows'
    BY <1>1, <1>3, <1>4, <2>2
  <2> QED BY <2>1, <2>3 DEF Numbered
<1>10. shows' \in 0 .. MaxShows
  BY <1>1
<1> QED BY <1>4, <1>7, <1>8, <1>9, <1>10, Whole DEF CallsAreOne

\* A new notification, of a message or of a party that had none.
LEMMA OneNew ==
  ASSUME NotifyInv, Shaped', OtherTypes', NEW e \in Events, ~HasCaller(e),
         NEW x \in PN, x.id = shows + 1, x.event = e, x.count = 1,
         shows < MaxShows, shows' = shows + 1, UNCHANGED crashed,
         calls' = IF Type[e] = "message" THEN calls
                  ELSE [calls EXCEPT ![<<Type[e], Remote[e]>>] = 1],
         \A p \in OnLists' : p = x \/ p \in OnLists
  PROVE  NotifyInv'
<1> DEFINE k == <<Type[e], Remote[e]>>
<1>1. /\ CallsAreOne /\ Numbered /\ shows \in Nat /\ MaxShows \in Nat
      /\ \A pn \in OnLists : /\ pn.id \in Nat /\ pn.count \in Nat
                             /\ pn.id <= shows /\ pn.count <= shows
      /\ calls \in [{"call", "voicemail"} \X Remotes -> 0 .. MaxShows]
  BY Parts
<1>2. Type[e] # "message" => k \in DOMAIN calls
  BY <1>1, CallKey
<1>3. /\ calls' \in [{"call", "voicemail"} \X Remotes -> 0 .. MaxShows]
      /\ Type[e] # "message" => calls'[k] = 1
      /\ \A l \in DOMAIN calls : l # k \/ Type[e] = "message" => calls'[l] = calls[l]
  BY <1>1, <1>2
<1>4. \A p \in OnLists : Type[e] # "message" => ~ (Type[p.event] = Type[e] /\ Remote[p.event] = Remote[e])
  BY CallKey DEF HasCaller, OnLists, SameCaller
<1>5. OneForCaller'
  <2> SUFFICES ASSUME NEW p \in OnLists', NEW q \in OnLists',
                      Type[p.event] # "message", Type[q.event] = Type[p.event],
                      Remote[p.event] = Remote[q.event]
               PROVE  p.id = q.id
    BY DEF OneForCaller, OnLists
  <2>1. CASE p \in OnLists /\ q \in OnLists
    BY <1>1, <2>1 DEF CallsAreOne, OneForCaller, OnLists
  <2>2. CASE p = x \/ q = x
    BY <1>4, <2>2
  <2> QED BY <2>1, <2>2
<1>6. CallsCounted'
  <2> SUFFICES ASSUME NEW p \in OnLists', Type[p.event] # "message", Running'
               PROVE  p.count = calls'[<<Type[p.event], Remote[p.event]>>]
    BY DEF CallsCounted, OnLists
  <2>1. Running
    BY DEF Running
  <2>2. CASE p = x
    BY <1>3, <2>2
  <2>3. CASE p \in OnLists
    <3>1. <<Type[p.event], Remote[p.event]>> # k \/ Type[e] = "message"
      BY <1>4, <2>3
    <3>2. p.count = calls[<<Type[p.event], Remote[p.event]>>]
      BY <1>1, <2>1, <2>3 DEF CallsAreOne, CallsCounted, OnLists
    <3>3. p.event \in Events
      BY <2>3, Parts
    <3>4. <<Type[p.event], Remote[p.event]>> \in DOMAIN calls
      BY <1>1, <3>3, CallKey
    <3> QED BY <1>3, <3>1, <3>2, <3>4
  <2> QED BY <2>2, <2>3
<1>7. Numbered'
  <2>1. \A p \in OnLists' : p.id <= shows' /\ p.count <= shows'
    BY <1>1
  <2>2. \A l \in DOMAIN calls : calls[l] \in Nat /\ calls[l] <= shows
    BY <1>1 DEF Numbered
  <2>3. \A l \in DOMAIN calls' : calls'[l] <= shows'
    BY <1>1, <2>2
  <2> QED BY <2>1, <2>3 DEF Numbered
<1>8. shows' \in 0 .. MaxShows
  BY <1>1
<1> QED BY <1>3, <1>5, <1>6, <1>7, <1>8, Whole DEF CallsAreOne

-----------------------------------------------------------------------------
(* Notifications: the invariant holds at every step *)

\* What a request that ends the daemon, or finds the user looking, leaves.
LEMMA SameLists ==
  ASSUME NotifyInv, UNCHANGED <<notifications, unresolved>>, screen' \subseteq screen \cup Listed
  PROVE  Shaped' /\ \A p \in OnLists' : p \in OnLists
<1>1. Shaped
  BY Parts
<1>2. Ids(notifications') = Ids(notifications) /\ Ids(unresolved') = Ids(unresolved)
  OBVIOUS
<1>3. Elements(notifications') = Elements(notifications) /\ Elements(unresolved') = Elements(unresolved)
  OBVIOUS
<1>4. Apart(notifications') /\ Apart(unresolved')
  BY <1>1 DEF Shaped, ListedOnce
<1>5. Listed' = Listed /\ OnLists' = OnLists /\ ListedOnce'
  BY <1>1, <1>2, <1>3, <1>4 DEF Shaped, Listed, OnLists, ListedOnce
<1> QED BY <1>1, <1>5 DEF Shaped

\* A notification of one list is changed in its place, or put last on it: what
\* the lists hold then (the lists are written s, for that one, and r).
LEMMA ShapeChanged ==
  ASSUME NEW s \in Seq(PN), NEW r \in Seq(PN), Apart(s), Apart(r), Ids(s) \cap Ids(r) = {},
         NEW i \in 1 .. Len(s), NEW pn \in PN, pn.id = s[i].id
  PROVE  LET t == [s EXCEPT ![i] = pn]
         IN  /\ t \in Seq(PN) /\ Apart(t) /\ Ids(t) = Ids(s)
             /\ s[i] \in Elements(s) /\ pn.id \in Ids(s)
             /\ \A q \in Elements(t) \cup Elements(r) :
                  q = pn \/ (q \in Elements(s) \cup Elements(r) /\ q.id # pn.id)
<1> DEFINE t == [s EXCEPT ![i] = pn]
<1>1. /\ t \in Seq(PN) /\ Ids(t) = Ids(s) /\ Apart(t)
      /\ \A q \in Elements(t) : q = pn \/ \E j \in 1 .. Len(s) : j # i /\ q = s[j]
  BY Changed
<1> HIDE DEF t
<1>2. /\ \A q : q \in Elements(s) <=> \E j \in 1 .. Len(s) : s[j] = q
      /\ \A id : id \in Ids(s) <=> \E q \in Elements(s) : q.id = id
  BY Lookup
<1>3. \A id : id \in Ids(r) <=> \E q \in Elements(r) : q.id = id
  BY Lookup
<1>4. \A q \in Elements(t) : q = pn \/ (q \in Elements(s) /\ q.id # pn.id)
  BY <1>1, <1>2 DEF Apart
<1>5. s[i] \in Elements(s) /\ pn.id \in Ids(s)
  BY <1>2
<1>6. \A q \in Elements(r) : q.id # pn.id
  BY <1>3, <1>5
<1> QED BY <1>1, <1>4, <1>5, <1>6 DEF t

\* updateEditedEvent
LEMMA EditStep ==
  ASSUME NotifyInv, NEW e \in Events, IsEdit(e), UpdateEditedEvent(e)
  PROVE  /\ Shaped'
         /\ \A p \in OnLists' : \E q \in OnLists :
              p.id = q.id /\ p.event = q.event /\ p.count = q.count
<1> DEFINE u == FirstWithToken(unresolved, Token[e])
           n == FirstWithToken(notifications, Token[e])
<1>1. Shaped /\ Apart(notifications) /\ Apart(unresolved) /\ Ids(notifications) \cap Ids(unresolved) = {}
  BY Parts DEF Shaped, ListedOnce
<1>2. /\ u > 0 => u \in 1 .. Len(unresolved)
      /\ n > 0 => n \in 1 .. Len(notifications)
  BY <1>1, TokenIsFirst DEF Shaped
<1>3. \A pn \in PN : /\ [pn EXCEPT !.text = e] \in PN /\ [pn EXCEPT !.text = e].id = pn.id
                     /\ [pn EXCEPT !.text = e].event = pn.event
                     /\ [pn EXCEPT !.text = e].count = pn.count
  BY DEF PN, PersonalNotification
<1> HIDE DEF u, n
<1>4. CASE /\ u > 0 /\ unresolved' = [unresolved EXCEPT ![u] = [unresolved[u] EXCEPT !.text = e]]
           /\ UNCHANGED <<notifications, screen>>
  <2> DEFINE pn == [unresolved[u] EXCEPT !.text = e]
  <2>1. u \in 1 .. Len(unresolved) /\ unresolved[u] \in PN
    BY <1>1, <1>2, <1>4 DEF Shaped
  <2>2. pn \in PN /\ pn.id = unresolved[u].id /\ pn.event = unresolved[u].event
        /\ pn.count = unresolved[u].count
    BY <1>3, <2>1
  <2> HIDE DEF pn
  <2>3. /\ unresolved' \in Seq(PN) /\ Apart(unresolved') /\ Ids(unresolved') = Ids(unresolved)
        /\ unresolved[u] \in Elements(unresolved)
        /\ \A q \in Elements(unresolved') \cup Elements(notifications) :
             q = pn \/ q \in Elements(unresolved) \cup Elements(notifications)
    <3>1. unresolved' = [unresolved EXCEPT ![u] = pn]
      BY <1>4 DEF pn
    <3>2. unresolved \in Seq(PN) /\ notifications \in Seq(PN) /\ Ids(unresolved) \cap Ids(notifications) = {}
      BY <1>1 DEF Shaped
    <3>3. Apart(notifications) /\ Apart(unresolved) /\ pn \in PN
      BY <1>1, <2>2
    <3>4. u \in 1 .. Len(unresolved) /\ pn.id = unresolved[u].id
      BY <2>1, <2>2
    <3> QED BY <3>1, <3>2, <3>3, <3>4, ShapeChanged
  <2>4. notifications' = notifications /\ screen' = screen
    BY <1>4
  <2>5. Shaped'
    BY <1>1, <2>3, <2>4 DEF Shaped, ListedOnce, Listed
  <2> QED BY <2>2, <2>3, <2>4, <2>5 DEF OnLists
<1>5. CASE /\ n > 0 /\ notifications' = [notifications EXCEPT ![n] = [notifications[n] EXCEPT !.text = e]]
           /\ screen' \subseteq screen \cup {notifications[n].id} /\ UNCHANGED unresolved
  <2> DEFINE pn == [notifications[n] EXCEPT !.text = e]
  <2>1. n \in 1 .. Len(notifications) /\ notifications[n] \in PN
    BY <1>1, <1>2, <1>5 DEF Shaped
  <2>2. pn \in PN /\ pn.id = notifications[n].id /\ pn.event = notifications[n].event
        /\ pn.count = notifications[n].count
    BY <1>3, <2>1
  <2> HIDE DEF pn
  <2>3. /\ notifications' \in Seq(PN) /\ Apart(notifications') /\ Ids(notifications') = Ids(notifications)
        /\ notifications[n] \in Elements(notifications) /\ notifications[n].id \in Ids(notifications)
        /\ \A q \in Elements(notifications') \cup Elements(unresolved) :
             q = pn \/ q \in Elements(notifications) \cup Elements(unresolved)
    <3>1. notifications' = [notifications EXCEPT ![n] = pn]
      BY <1>5 DEF pn
    <3>2. notifications \in Seq(PN) /\ unresolved \in Seq(PN) /\ Ids(notifications) \cap Ids(unresolved) = {}
      BY <1>1 DEF Shaped
    <3>3. Apart(notifications) /\ Apart(unresolved) /\ pn \in PN
      BY <1>1, <2>2
    <3>4. n \in 1 .. Len(notifications) /\ pn.id = notifications[n].id
      BY <2>1, <2>2
    <3> QED BY <3>1, <3>2, <3>3, <3>4, ShapeChanged
  <2>4. unresolved' = unresolved /\ screen' \subseteq screen \cup {notifications[n].id}
    BY <1>5
  <2>5. Shaped'
    BY <1>1, <2>3, <2>4 DEF Shaped, ListedOnce, Listed
  <2> QED BY <2>2, <2>3, <2>4, <2>5 DEF OnLists
<1> QED BY <1>4, <1>5 DEF UpdateEditedEvent, u, n

\* amendCallNotification amends one notification of the party, or the daemon ends.
LEMMA AmendStep ==
  ASSUME NotifyInv, NEW e \in Events, HasCaller(e), AmendCall(e), shows < MaxShows
  PROVE  \/ crashed' = TRUE /\ UNCHANGED lists
         \/ /\ Shaped' /\ UNCHANGED crashed
            /\ \E x \in OnLists :
                 /\ SameCaller(x, e)
                 /\ \A p \in OnLists' : p = Amended(x, e) \/ (p \in OnLists /\ p.id # x.id)
<1> DEFINE u == FindNotification(unresolved, e)
           n == FindNotification(notifications, e)
<1>1. Shaped /\ Apart(notifications) /\ Apart(unresolved) /\ Ids(notifications) \cap Ids(unresolved) = {}
  BY Parts DEF Shaped, ListedOnce
<1>2. /\ u > 0 => u \in 1 .. Len(unresolved) /\ SameCaller(unresolved[u], e)
      /\ n > 0 => n \in 1 .. Len(notifications) /\ SameCaller(notifications[n], e)
  BY <1>1, CallerIsFirst DEF Shaped
<1>3. \A pn \in OnLists : Amended(pn, e) \in PN /\ Amended(pn, e).id = pn.id
  <2> TAKE pn \in OnLists
  <2>1. pn \in PN /\ pn.count \in 1 .. MaxShows /\ pn.count <= shows /\ shows \in Nat /\ MaxShows \in Nat
    BY Parts
  <2>2. pn.count + 1 \in 1 .. MaxShows
    BY <2>1
  <2> QED BY <2>1, <2>2 DEF Amended, PN, PersonalNotification
<1> HIDE DEF u, n
<1>4. CASE /\ u > 0 /\ unresolved' = [unresolved EXCEPT ![u] = Amended(unresolved[u], e)]
           /\ UNCHANGED <<notifications, screen, crashed>>
  <2> DEFINE pn == Amended(unresolved[u], e)
  <2>1. u \in 1 .. Len(unresolved) /\ SameCaller(unresolved[u], e)
    BY <1>2, <1>4
  <2>2. unresolved[u] \in OnLists
    BY <1>1, <2>1, Lookup DEF Shaped, OnLists
  <2>3. pn \in PN /\ pn.id = unresolved[u].id
    BY <1>3, <2>2
  <2> HIDE DEF pn
  <2>4. /\ unresolved' \in Seq(PN) /\ Apart(unresolved') /\ Ids(unresolved') = Ids(unresolved)
        /\ \A q \in Elements(unresolved') \cup Elements(notifications) :
             q = pn \/ (q \in Elements(unresolved) \cup Elements(notifications) /\ q.id # pn.id)
    <3>1. unresolved' = [unresolved EXCEPT ![u] = pn]
      BY <1>4 DEF pn
    <3>2. unresolved \in Seq(PN) /\ notifications \in Seq(PN) /\ Ids(unresolved) \cap Ids(notifications) = {}
      BY <1>1 DEF Shaped
    <3> QED BY <1>1, <2>1, <2>3, <3>1, <3>2, ShapeChanged
  <2>5. notifications' = notifications /\ screen' = screen /\ UNCHANGED crashed
    BY <1>4
  <2>6. Shaped'
    BY <1>1, <2>4, <2>5 DEF Shaped, ListedOnce, Listed
  <2>7. \A p \in OnLists' : p = pn \/ (p \in OnLists /\ p.id # unresolved[u].id)
    BY <2>3, <2>4, <2>5 DEF OnLists
  <2> QED BY <2>1, <2>2, <2>5, <2>6, <2>7 DEF pn
<1>5. CASE /\ n > 0 /\ notifications' = [notifications EXCEPT ![n] = Amended(notifications[n], e)]
           /\ screen' = screen \cup {notifications[n].id} /\ UNCHANGED <<unresolved, crashed>>
  <2> DEFINE pn == Amended(notifications[n], e)
  <2>1. n \in 1 .. Len(notifications) /\ SameCaller(notifications[n], e)
    BY <1>2, <1>5
  <2>2. notifications[n] \in OnLists
    BY <1>1, <2>1, Lookup DEF Shaped, OnLists
  <2>3. pn \in PN /\ pn.id = notifications[n].id
    BY <1>3, <2>2
  <2> HIDE DEF pn
  <2>4. /\ notifications' \in Seq(PN) /\ Apart(notifications') /\ Ids(notifications') = Ids(notifications)
        /\ notifications[n].id \in Ids(notifications)
        /\ \A q \in Elements(notifications') \cup Elements(unresolved) :
             q = pn \/ (q \in Elements(notifications) \cup Elements(unresolved) /\ q.id # pn.id)
    <3>1. notifications' = [notifications EXCEPT ![n] = pn]
      BY <1>5 DEF pn
    <3>2. notifications \in Seq(PN) /\ unresolved \in Seq(PN) /\ Ids(notifications) \cap Ids(unresolved) = {}
      BY <1>1 DEF Shaped
    <3> QED BY <1>1, <2>1, <2>3, <3>1, <3>2, ShapeChanged
  <2>5. unresolved' = unresolved /\ screen' = screen \cup {notifications[n].id} /\ UNCHANGED crashed
    BY <1>5
  <2>6. Shaped'
    BY <1>1, <2>4, <2>5 DEF Shaped, ListedOnce, Listed
  <2>7. \A p \in OnLists' : p = pn \/ (p \in OnLists /\ p.id # notifications[n].id)
    BY <2>3, <2>4, <2>5 DEF OnLists
  <2> QED BY <2>1, <2>2, <2>5, <2>6, <2>7 DEF pn
<1> QED BY <1>4, <1>5 DEF AmendCall, u, n

\* resolveNotification puts a notification with a new id on one of the lists.
LEMMA ResolveStep ==
  ASSUME NotifyInv, NEW pn \in PN, pn.id = shows + 1, ResolveNotification(pn)
  PROVE  /\ Shaped'
         /\ \E x \in PN : /\ x.id = pn.id /\ x.event = pn.event /\ x.count = pn.count
                          /\ \A p \in OnLists' : p = x \/ p \in OnLists
<1>1. Shaped /\ Apart(notifications) /\ Apart(unresolved) /\ Ids(notifications) \cap Ids(unresolved) = {}
  BY Parts DEF Shaped, ListedOnce
<1>2. pn.id \notin Listed
  <2>1. \A q \in OnLists : q.id \in Nat /\ q.id <= shows /\ shows \in Nat
    BY Parts
  <2> QED BY <1>1, <2>1, ListedAreNumbers DEF Shaped
<1>3. CASE AddNotification(pn)
  <2> DEFINE x == [pn EXCEPT !.published = TRUE]
  <2>1. x \in PN /\ x.id = pn.id /\ x.event = pn.event /\ x.count = pn.count
    BY DEF PN, PersonalNotification
  <2> HIDE DEF x
  <2>2. notifications' = Append(notifications, x) /\ screen' = screen \cup {x.id} /\ unresolved' = unresolved
    BY <1>3, <2>1 DEF AddNotification, x
  <2>3. /\ notifications' \in Seq(PN) /\ Elements(notifications') = Elements(notifications) \cup {x}
        /\ Ids(notifications') = Ids(notifications) \cup {x.id} /\ Apart(notifications')
    BY <1>1, <1>2, <2>1, <2>2, PutLast DEF Shaped, Listed
  <2>4. Shaped'
    BY <1>1, <1>2, <2>1, <2>2, <2>3 DEF Shaped, ListedOnce, Listed
  <2>5. \A p \in OnLists' : p = x \/ p \in OnLists
    BY <2>2, <2>3 DEF OnLists
  <2> QED BY <2>1, <2>4, <2>5
<1>4. CASE unresolved' = Append(unresolved, pn) /\ UNCHANGED <<notifications, screen>>
  <2>1. /\ unresolved' \in Seq(PN) /\ Elements(unresolved') = Elements(unresolved) \cup {pn}
        /\ Ids(unresolved') = Ids(unresolved) \cup {pn.id} /\ Apart(unresolved')
    BY <1>1, <1>2, <1>4, PutLast DEF Shaped, Listed
  <2>2. Shaped'
    BY <1>1, <1>2, <1>4, <2>1 DEF Shaped, ListedOnce, Listed
  <2>3. \A p \in OnLists' : p = pn \/ p \in OnLists
    BY <1>4, <2>1 DEF OnLists
  <2> QED BY <2>2, <2>3
<1> QED BY <1>3, <1>4 DEF ResolveNotification

\* A call for a notification that was never published ends the daemon: the
\* lists stay, and nothing is counted any more.
LEMMA Ended ==
  ASSUME NotifyInv, NEW e \in Events, Type[e] # "message", UNCHANGED lists, crashed' = TRUE,
         OtherTypes', shows < MaxShows, shows' = shows + 1,
         calls' = [calls EXCEPT ![<<Type[e], Remote[e]>>] = @ + 1]
  PROVE  NotifyInv'
<1> DEFINE k == <<Type[e], Remote[e]>>
<1>1. /\ CallsAreOne /\ Numbered /\ shows \in Nat /\ MaxShows \in Nat
      /\ calls \in [{"call", "voicemail"} \X Remotes -> 0 .. MaxShows]
      /\ \A pn \in OnLists : /\ pn.id \in Nat /\ pn.count \in Nat
                             /\ pn.id <= shows /\ pn.count <= shows
  BY Parts
<1>2. Shaped' /\ \A p \in OnLists' : p \in OnLists
  BY SameLists DEF lists
<1>3. k \in DOMAIN calls
  BY <1>1, CallKey
<1>4. \A l \in DOMAIN calls : calls[l] \in Nat /\ calls[l] <= shows
  BY <1>1 DEF Numbered
<1>5. /\ calls' \in [{"call", "voicemail"} \X Remotes -> 0 .. MaxShows]
      /\ \A l \in DOMAIN calls' : calls'[l] <= shows'
  BY <1>1, <1>3, <1>4
<1>6. OneForCaller'
  <2> SUFFICES ASSUME NEW p \in OnLists', NEW q \in OnLists',
                      Type[p.event] # "message", Type[q.event] = Type[p.event],
                      Remote[p.event] = Remote[q.event]
               PROVE  p.id = q.id
    BY DEF OneForCaller, OnLists
  <2> QED BY <1>1, <1>2 DEF CallsAreOne, OneForCaller, OnLists
<1>7. CallsCounted'
  BY DEF CallsCounted, Running
<1>8. Numbered' /\ shows' \in 0 .. MaxShows
  BY <1>1, <1>2, <1>5 DEF Numbered
<1> QED BY <1>2, <1>5, <1>6, <1>7, <1>8, Whole DEF CallsAreOne

LEMMA ShowNotificationStep ==
  ASSUME NotifyInv, NEW e \in Events, ShowNotification(e)
  PROVE  NotifyInv'
<1>1. /\ Shaped /\ OtherTypes /\ shows \in Nat /\ MaxShows \in Nat
      /\ shows < MaxShows /\ shows' = shows + 1
      /\ UNCHANGED <<resolved, service, removedAccounts, restarts>>
  BY Parts DEF ShowNotification
<1>2. crashed' \in BOOLEAN => OtherTypes'
  BY <1>1 DEF OtherTypes, service
<1>3. crashed \in BOOLEAN /\ shows' \in shows .. MaxShows
  BY <1>1 DEF OtherTypes
<1>4. CASE IsObserved(e) /\ UNCHANGED <<lists, crashed>>
  <2>1. Type[e] = "message"
    BY <1>4 DEF IsObserved
  <2>2. calls' = calls
    BY <2>1 DEF ShowNotification
  <2>3. Shaped' /\ \A p \in OnLists' : p \in OnLists
    BY <1>4, SameLists DEF lists
  <2> QED BY <1>2, <1>3, <1>4, <2>2, <2>3, Fewer
<1>5. CASE IsEdit(e) /\ UpdateEditedEvent(e) /\ UNCHANGED crashed
  <2>1. calls' = calls
    BY <1>5 DEF ShowNotification
  <2> QED BY <1>2, <1>3, <1>5, <2>1, EditStep, Fewer
<1>6. CASE ~IsEdit(e) /\ HasCaller(e) /\ AmendCall(e)
  <2>1. Type[e] # "message"
    BY <1>6 DEF HasCaller
  <2>2. calls' = [calls EXCEPT ![<<Type[e], Remote[e]>>] = @ + 1]
    BY <1>6, <2>1 DEF ShowNotification
  <2>3. CASE crashed' = TRUE /\ UNCHANGED lists
    BY <1>1, <1>2, <2>1, <2>2, <2>3, Ended
  <2>4. CASE /\ Shaped' /\ UNCHANGED crashed
             /\ \E x \in OnLists :
                  /\ SameCaller(x, e)
                  /\ \A p \in OnLists' : p = Amended(x, e) \/ (p \in OnLists /\ p.id # x.id)
    BY <1>1, <1>2, <1>3, <2>1, <2>2, <2>4, OneMore
  <2> QED BY <1>1, <1>6, <2>3, <2>4, AmendStep
<1>7. CASE /\ ~IsEdit(e) /\ ~HasCaller(e) /\ UNCHANGED crashed
           /\ ResolveNotification(Notification(e, shows + 1))
  <2> DEFINE pn == Notification(e, shows + 1)
  <2>1. pn \in PN /\ pn.id = shows + 1 /\ pn.event = e /\ pn.count = 1
    BY <1>1 DEF Notification, PN, PersonalNotification
  <2>2. calls' = IF Type[e] = "message" THEN calls
                 ELSE [calls EXCEPT ![<<Type[e], Remote[e]>>] = 1]
    BY <1>7 DEF ShowNotification
  <2>3. ResolveNotification(pn)
    BY <1>7
  <2> HIDE DEF pn
  <2>4. /\ Shaped'
        /\ \E x \in PN : /\ x.id = pn.id /\ x.event = pn.event /\ x.count = pn.count
                         /\ \A p \in OnLists' : p = x \/ p \in OnLists
    BY <2>1, <2>3, ResolveStep
  <2> QED BY <1>1, <1>2, <1>3, <1>7, <2>1, <2>2, <2>4, OneNew
<1> QED BY <1>4, <1>5, <1>6, <1>7 DEF ShowNotification

LEMMA ContactResolveFinishedStep ==
  ASSUME NotifyInv, ContactResolveFinished
  PROVE  NotifyInv'
<1> DEFINE t == Published(unresolved)
<1>1. /\ Shaped /\ OtherTypes /\ shows \in 0 .. MaxShows /\ MaxShows \in Nat
      /\ Apart(notifications) /\ Apart(unresolved) /\ Ids(notifications) \cap Ids(unresolved) = {}
      /\ notifications \in Seq(PN) /\ unresolved \in Seq(PN)
  BY Parts DEF Shaped, ListedOnce
<1>2. /\ t \in Seq(PN) /\ Ids(t) = Ids(unresolved) /\ Apart(t)
      /\ Elements(t) = {[pn EXCEPT !.published = TRUE] : pn \in Elements(unresolved)}
  BY <1>1, PublishedList
<1>3. \A p \in Elements(t) : \E q \in Elements(unresolved) :
        p.id = q.id /\ p.event = q.event /\ p.count = q.count
  <2> SUFFICES ASSUME NEW q \in Elements(unresolved)
               PROVE  LET p == [q EXCEPT !.published = TRUE]
                      IN  p.id = q.id /\ p.event = q.event /\ p.count = q.count
    BY <1>2
  <2>1. q \in PN
    BY <1>1, Lookup
  <2> QED BY <2>1 DEF PN, PersonalNotification
<1>4. /\ notifications' = notifications \o t /\ unresolved' = <<>>
      /\ screen' = screen \cup Ids(unresolved)
      /\ resolved' = resolved \cup {Remote[pn.event] : pn \in Elements(unresolved)}
      /\ UNCHANGED <<service, removedAccounts, crashed, shows, calls, restarts>>
  BY DEF ContactResolveFinished
<1> HIDE DEF t
<1>5. /\ notifications' \in Seq(PN) /\ Elements(notifications') = Elements(notifications) \cup Elements(t)
      /\ Ids(notifications') = Ids(notifications) \cup Ids(unresolved) /\ Apart(notifications')
  BY <1>1, <1>2, <1>4, Joined
<1>6. /\ unresolved' \in Seq(PN) /\ Apart(unresolved')
      /\ Ids(unresolved') = {} /\ Elements(unresolved') = {}
  BY <1>4 DEF Apart, Ids, Elements
<1>7. Shaped'
  BY <1>1, <1>4, <1>5, <1>6 DEF Shaped, ListedOnce, Listed
<1>8. OtherTypes'
  <2>1. \A pn \in Elements(unresolved) : Remote[pn.event] \in Remotes
    BY Parts, CallKey DEF OnLists
  <2> QED BY <1>1, <1>4, <2>1 DEF OtherTypes, service
<1>9. \A p \in OnLists' : \E q \in OnLists :
        p.id = q.id /\ p.event = q.event /\ p.count = q.count
  BY <1>3, <1>5, <1>6 DEF OnLists
<1>10. shows' \in shows .. MaxShows
  BY <1>1, <1>4
<1> QED BY <1>4, <1>7, <1>8, <1>9, <1>10, Fewer

\* slotContactChanged, slotContactInfoChanged and slotGroupDataChanged publish again
LEMMA RepublishStep ==
  ASSUME NotifyInv, NEW S, Republish(S)
  PROVE  NotifyInv'
<1>1. /\ Shaped /\ OtherTypes /\ shows \in 0 .. MaxShows /\ MaxShows \in Nat
  BY Parts
<1>2. \A id : id \in Ids(notifications) <=> \E pn \in Elements(notifications) : pn.id = id
  BY <1>1, Lookup DEF Shaped
<1>3. screen' \subseteq screen \cup Listed
  BY <1>2 DEF Republish, Listed
<1>4. UNCHANGED <<notifications, unresolved, resolved, service, removedAccounts, crashed,
                  shows, calls, restarts>>
  BY DEF Republish
<1>5. Shaped' /\ \A p \in OnLists' : p \in OnLists
  BY <1>3, <1>4, SameLists
<1>6. OtherTypes' /\ shows' \in shows .. MaxShows
  BY <1>1, <1>4 DEF OtherTypes, service
<1> QED BY <1>4, <1>5, <1>6, Fewer

LEMMA DismissStep ==
  ASSUME NotifyInv, NEW id, Dismiss(id)
  PROVE  NotifyInv'
<1>1. /\ Shaped /\ OtherTypes /\ shows \in 0 .. MaxShows /\ MaxShows \in Nat
  BY Parts
<1>2. UNCHANGED <<notifications, unresolved, resolved, service, removedAccounts, crashed,
                  shows, calls, restarts>> /\ screen' \subseteq screen
  BY DEF Dismiss
<1>3. Shaped' /\ \A p \in OnLists' : p \in OnLists
  BY <1>2, SameLists
<1>4. OtherTypes' /\ shows' \in shows .. MaxShows
  BY <1>1, <1>2 DEF OtherTypes, service
<1> QED BY <1>2, <1>3, <1>4, Fewer

\* deleteNotifications of m_notifications.
LEMMA DeleteShownStep ==
  ASSUME NotifyInv, NEW events, DeleteShown(events)
  PROVE  /\ Shaped' /\ \A p \in OnLists' : p \in OnLists
         /\ \A p \in Elements(notifications') : p.event \notin events
<1> DEFINE l == Left(notifications, events)
           d == Deleted(notifications, events)
<1>1. /\ Shaped /\ Apart(notifications) /\ Apart(unresolved)
      /\ Ids(notifications) \cap Ids(unresolved) = {}
      /\ notifications \in Seq(PN) /\ unresolved \in Seq(PN)
      /\ screen \subseteq Ids(notifications) \cup Ids(unresolved)
  BY Parts DEF Shaped, ListedOnce, Listed
<1>2. /\ l \in Seq(PN) /\ d \in Seq(PN) /\ Elements(l) \subseteq Elements(notifications)
      /\ Ids(notifications) \subseteq Ids(l) \cup Ids(d) /\ Apart(l)
      /\ \A pn \in Elements(l) : pn.event \notin events
  BY <1>1, Splits
<1>3. notifications' = l /\ screen' = screen \ Ids(d) /\ unresolved' = unresolved
  BY DEF DeleteShown, ClosedOnScreen
<1> HIDE DEF l, d
<1>4. Ids(l) \subseteq Ids(notifications)
  <2>1. \A id : id \in Ids(notifications) <=> \E pn \in Elements(notifications) : pn.id = id
    BY <1>1, Lookup
  <2>2. \A id : id \in Ids(l) <=> \E pn \in Elements(l) : pn.id = id
    BY <1>2, Lookup
  <2> QED BY <1>2, <2>1, <2>2
<1>5. Shaped'
  BY <1>1, <1>2, <1>3, <1>4 DEF Shaped, ListedOnce, Listed
<1> QED BY <1>2, <1>3, <1>5 DEF OnLists

\* removeNotifications, from both lists.
LEMMA RemoveNotificationsStep ==
  ASSUME NotifyInv, NEW a, NEW types, RemoveNotifications(a, types)
  PROVE  /\ Shaped' /\ \A p \in OnLists' : p \in OnLists
         /\ \A p \in Elements(notifications') :
              p.event \notin {e \in Events : Account[e] = a /\ Type[e] \in types}
<1> DEFINE events == {e \in Events : Account[e] = a /\ Type[e] \in types}
           l == Left(notifications, events)
           d == Deleted(notifications, events)
           m == Left(unresolved, events)
           c == Deleted(unresolved, events)
<1>1. /\ Shaped /\ Apart(notifications) /\ Apart(unresolved)
      /\ Ids(notifications) \cap Ids(unresolved) = {}
      /\ notifications \in Seq(PN) /\ unresolved \in Seq(PN)
      /\ screen \subseteq Ids(notifications) \cup Ids(unresolved)
  BY Parts DEF Shaped, ListedOnce, Listed
<1>2. notifications' = l /\ unresolved' = m /\ screen' = screen \ Ids(d \o c)
  BY DEF RemoveNotifications, ClosedOnScreen
<1> SUFFICES /\ Shaped' /\ \A p \in OnLists' : p \in OnLists
             /\ \A p \in Elements(notifications') : p.event \notin events
  OBVIOUS
<1> HIDE DEF events
<1>3. /\ l \in Seq(PN) /\ d \in Seq(PN) /\ Elements(l) \subseteq Elements(notifications)
      /\ Ids(notifications) \subseteq Ids(l) \cup Ids(d) /\ Apart(l)
      /\ \A pn \in Elements(l) : pn.event \notin events
  BY <1>1, Splits
<1>4. /\ m \in Seq(PN) /\ c \in Seq(PN) /\ Elements(m) \subseteq Elements(unresolved)
      /\ Ids(unresolved) \subseteq Ids(m) \cup Ids(c) /\ Apart(m)
  BY <1>1, Splits
<1> HIDE DEF l, d, m, c
<1>5. Ids(d \o c) = Ids(d) \cup Ids(c)
  BY <1>3, <1>4, Joined
<1>6. Ids(l) \subseteq Ids(notifications)
  <2>1. \A id : id \in Ids(notifications) <=> \E pn \in Elements(notifications) : pn.id = id
    BY <1>1, Lookup
  <2>2. \A id : id \in Ids(l) <=> \E pn \in Elements(l) : pn.id = id
    BY <1>3, Lookup
  <2> QED BY <1>3, <2>1, <2>2
<1>7. Ids(m) \subseteq Ids(unresolved)
  <2>1. \A id : id \in Ids(unresolved) <=> \E pn \in Elements(unresolved) : pn.id = id
    BY <1>1, Lookup
  <2>2. \A id : id \in Ids(m) <=> \E pn \in Elements(m) : pn.id = id
    BY <1>4, Lookup
  <2> QED BY <1>4, <2>1, <2>2
<1>8. Shaped'
  BY <1>1, <1>2, <1>3, <1>4, <1>5, <1>6, <1>7 DEF Shaped, ListedOnce, Listed
<1> QED BY <1>2, <1>3, <1>4, <1>8 DEF OnLists

\* What the user, or the removal of an account or a group, does to the lists.
LEMMA Removed ==
  ASSUME NotifyInv, Shaped', \A p \in OnLists' : p \in OnLists, OtherTypes',
         UNCHANGED <<calls, crashed, shows>>
  PROVE  NotifyInv'
<1>1. shows' \in shows .. MaxShows
  BY Parts
<1> QED BY <1>1, Fewer

LEMMA RemoveConversationNotificationsStep ==
  ASSUME NotifyInv, NEW c, RemoveConversationNotifications(c)
  PROVE  NotifyInv'
<1>1. /\ DeleteShown(MessagesOf({c}))
      /\ UNCHANGED <<resolved, service, removedAccounts, crashed, shows, calls, restarts>>
  BY DEF RemoveConversationNotifications
<1>2. OtherTypes'
  BY <1>1, Parts DEF OtherTypes, service
<1> QED BY <1>1, <1>2, DeleteShownStep, Removed

LEMMA AccountRemovedStep ==
  ASSUME NotifyInv, NEW a \in Accounts, AccountRemoved(a)
  PROVE  NotifyInv'
<1>1. /\ RemoveNotifications(a, {}) /\ removedAccounts' = removedAccounts \cup {a}
      /\ UNCHANGED <<resolved, service, crashed, shows, calls, restarts>>
  BY DEF AccountRemoved
<1>2. OtherTypes'
  BY <1>1, Parts DEF OtherTypes, service
<1> QED BY <1>1, <1>2, RemoveNotificationsStep, Removed

LEMMA SetObservedConversationsStep ==
  ASSUME NotifyInv, NEW convs \in {{}} \cup {{c} : c \in Conversations},
         SetObservedConversations(convs)
  PROVE  NotifyInv'
<1>1. /\ DeleteShown(MessagesOf(convs)) /\ conversations' = convs
      /\ UNCHANGED <<resolved, inboxObserved, inboxFilter, callHistory, removedAccounts,
                     crashed, shows, calls, restarts>>
  BY DEF SetObservedConversations
<1>2. OtherTypes'
  BY <1>1, Parts DEF OtherTypes
<1> QED BY <1>1, <1>2, DeleteShownStep, Removed

LEMMA SetInboxObservedStep ==
  ASSUME NotifyInv, NEW observed \in BOOLEAN, NEW f \in Accounts \cup {AllAccounts},
         SetInboxObserved(observed, f)
  PROVE  NotifyInv'
<1>1. /\ inboxObserved' = observed /\ inboxFilter' = f
      /\ UNCHANGED <<resolved, conversations, callHistory, removedAccounts, crashed,
                     shows, calls, restarts>>
      /\ \/ UNCHANGED lists
         \/ RemoveNotificationTypes({"message"})
         \/ RemoveNotifications(f, {"message"})
  BY DEF SetInboxObserved
<1>2. OtherTypes'
  BY <1>1, Parts DEF OtherTypes
<1>3. CASE UNCHANGED lists
  <2>1. Shaped' /\ \A p \in OnLists' : p \in OnLists
    BY <1>3, SameLists DEF lists
  <2> QED BY <1>1, <1>2, <2>1, Removed
<1>4. CASE RemoveNotificationTypes({"message"})
  BY <1>1, <1>2, <1>4, DeleteShownStep, Removed DEF RemoveNotificationTypes
<1>5. CASE RemoveNotifications(f, {"message"})
  BY <1>1, <1>2, <1>5, RemoveNotificationsStep, Removed
<1> QED BY <1>1, <1>3, <1>4, <1>5

LEMMA SetCallHistoryObservedStep ==
  ASSUME NotifyInv, NEW observed \in BOOLEAN, SetCallHistoryObserved(observed)
  PROVE  NotifyInv'
<1>1. /\ callHistory' = observed
      /\ UNCHANGED <<resolved, inboxObserved, inboxFilter, conversations, removedAccounts,
                     crashed, shows, calls, restarts>>
      /\ UNCHANGED lists \/ RemoveNotificationTypes({"call"})
  BY DEF SetCallHistoryObserved
<1>2. OtherTypes'
  BY <1>1, Parts DEF OtherTypes
<1>3. CASE UNCHANGED lists
  <2>1. Shaped' /\ \A p \in OnLists' : p \in OnLists
    BY <1>3, SameLists DEF lists
  <2> QED BY <1>1, <1>2, <2>1, Removed
<1>4. CASE RemoveNotificationTypes({"call"})
  BY <1>1, <1>2, <1>4, DeleteShownStep, Removed DEF RemoveNotificationTypes
<1> QED BY <1>1, <1>3, <1>4

\* A list holds finitely many notifications.
LEMMA FiniteList ==
  ASSUME NEW s \in Seq(PN)
  PROVE  IsFiniteSet(Elements(s))
<1>1. Len(s) \in Nat /\ s \in [1 .. Len(s) -> PN] /\ DOMAIN s = 1 .. Len(s)
  OBVIOUS
<1>2. IsFiniteSet(1 .. Len(s))
  BY <1>1, FS_Interval
<1>3. s \in Surjection(1 .. Len(s), Elements(s))
  BY <1>1 DEF Surjection, Elements
<1> QED BY <1>2, <1>3, FS_Surjection

LEMMA RestartStep ==
  ASSUME NotifyInv, Restart
  PROVE  NotifyInv'
<1> DEFINE restored == {pn \in Elements(notifications) \cup Elements(unresolved) : pn.id \in screen}
           known    == {pn \in restored : pn.event \in Named}
<1>1. /\ Shaped /\ OtherTypes /\ OnLists \subseteq PN
      /\ notifications \in Seq(PN) /\ unresolved \in Seq(PN) /\ screen \subseteq Listed
  BY Parts DEF Shaped
<1>2. /\ notifications' \in SetToSeqs(known) /\ unresolved' \in SetToSeqs(restored \ known)
      /\ restarts < MaxRestarts /\ restarts' = restarts + 1 /\ resolved' = {}
      /\ inboxObserved' = FALSE /\ inboxFilter' = AllAccounts
      /\ conversations' = {} /\ callHistory' = FALSE
      /\ UNCHANGED <<screen, removedAccounts, crashed, shows, calls>>
  BY DEF Restart
<1>3. \A p, q \in restored : p.id = q.id => p = q
  BY <1>1, OneOfId DEF OnLists
<1>4. IsFiniteSet(Elements(notifications) \cup Elements(unresolved))
  BY <1>1, FiniteList, FS_Union
<1>5. IsFiniteSet(known) /\ IsFiniteSet(restored \ known)
  BY <1>4, FS_Subset
<1>6. known \subseteq restored /\ restored \subseteq OnLists /\ restored \subseteq PN
      /\ \A pn \in restored : pn.id \in screen
  BY <1>1 DEF OnLists
<1>7. \A id \in screen : \E pn \in restored : pn.id = id
  BY <1>1, ListedAreNumbers DEF OnLists
<1> HIDE DEF restored, known
<1>8. notifications' \in Seq(PN) /\ Elements(notifications') = known /\ Apart(notifications')
  BY <1>2, <1>3, <1>5, <1>6, Ordered
<1>9. unresolved' \in Seq(PN) /\ Elements(unresolved') = restored \ known /\ Apart(unresolved')
  BY <1>2, <1>3, <1>5, <1>6, Ordered
<1>10. /\ \A id : id \in Ids(notifications') <=> \E pn \in known : pn.id = id
       /\ \A id : id \in Ids(unresolved') <=> \E pn \in restored \ known : pn.id = id
  <2>1. \A id : id \in Ids(notifications') <=> \E pn \in Elements(notifications') : pn.id = id
    BY <1>8, Lookup
  <2>2. \A id : id \in Ids(unresolved') <=> \E pn \in Elements(unresolved') : pn.id = id
    BY <1>9, Lookup
  <2> QED BY <1>8, <1>9, <2>1, <2>2
<1>11. Ids(notifications') \cap Ids(unresolved') = {}
  BY <1>3, <1>6, <1>10
<1>12. screen' \subseteq Ids(notifications') \cup Ids(unresolved')
  BY <1>2, <1>7, <1>10
<1>13. Shaped'
  BY <1>8, <1>9, <1>11, <1>12 DEF Shaped, ListedOnce, Listed
<1>14. \A p \in OnLists' : p \in OnLists
  BY <1>6, <1>8, <1>9 DEF OnLists
<1>15. OtherTypes'
  <2>1. restarts \in 0 .. MaxRestarts /\ MaxRestarts \in Nat
    BY <1>1, NotificationAssumption DEF OtherTypes
  <2>2. restarts' \in 0 .. MaxRestarts
    BY <1>2, <2>1
  <2>3. /\ resolved' = {} /\ inboxObserved' = FALSE /\ inboxFilter' = AllAccounts
        /\ conversations' = {} /\ callHistory' = FALSE
        /\ removedAccounts' = removedAccounts /\ crashed' = crashed
    BY <1>2
  <2> QED BY <1>1, <2>2, <2>3 DEF OtherTypes
<1> QED BY <1>2, <1>13, <1>14, <1>15, Removed

LEMMA NotifyInitInv == NotifyInit => NotifyInv
<1> SUFFICES ASSUME NotifyInit PROVE NotifyInv
  OBVIOUS
<1>1. Elements(notifications) = {} /\ Elements(unresolved) = {} /\ Ids(notifications) = {} /\ Ids(unresolved) = {}
  BY DEF NotifyInit, Elements, Ids
<1>2. MaxShows \in Nat /\ MaxRestarts \in Nat
  BY NotificationAssumption
<1>3. NotificationTypes
  <2>1. calls \in [{"call", "voicemail"} \X Remotes -> 0 .. MaxShows]
    BY <1>2 DEF NotifyInit
  <2>2. <<>> \in Seq(PersonalNotification)
    OBVIOUS
  <2>3. shows \in 0 .. MaxShows /\ restarts \in 0 .. MaxRestarts
    BY <1>2 DEF NotifyInit
  <2>4. /\ notifications = <<>> /\ unresolved = <<>> /\ screen = {}
        /\ resolved \in SUBSET Remotes
        /\ inboxObserved = FALSE /\ inboxFilter = AllAccounts
        /\ conversations = {} /\ callHistory = FALSE
        /\ removedAccounts = {} /\ crashed = FALSE
    BY DEF NotifyInit
  <2> QED BY <2>1, <2>2, <2>3, <2>4 DEF NotificationTypes
<1>4. ListedOnce
  BY <1>1 DEF NotifyInit, ListedOnce, Apart
<1>5. ListsAreSound
  BY <1>1, <1>3 DEF NotifyInit, ListsAreSound, ShownIsListed
<1>6. CallsAreOne
  BY <1>1 DEF CallsAreOne, OneForCaller, CallsCounted
<1>7. Numbered
  BY <1>1 DEF NotifyInit, Numbered, OnLists
<1> QED BY <1>4, <1>5, <1>6, <1>7 DEF NotifyInv

LEMMA NotifyNextInv == NotifyInv /\ [NotifyNext]_notifyVars => NotifyInv'
<1> SUFFICES ASSUME NotifyInv, [NotifyNext]_notifyVars PROVE NotifyInv'
  OBVIOUS
<1>1. CASE \E e \in Events : ShowNotification(e)
  BY <1>1, ShowNotificationStep
<1>2. CASE ContactResolveFinished
  BY <1>2, ContactResolveFinishedStep
<1>3. CASE \E r \in Remotes : ContactChanged(r)
  BY <1>3, RepublishStep DEF ContactChanged
<1>4. CASE \E c \in Conversations : GroupDataChanged(c) \/ RemoveConversationNotifications(c)
  BY <1>4, RepublishStep, RemoveConversationNotificationsStep DEF GroupDataChanged
<1>5. CASE \E a \in Accounts : AccountRemoved(a)
  BY <1>5, AccountRemovedStep
<1>6. CASE \E convs \in {{}} \cup {{c} : c \in Conversations} : SetObservedConversations(convs)
  BY <1>6, SetObservedConversationsStep
<1>7. CASE \E observed \in BOOLEAN, f \in Accounts \cup {AllAccounts} : SetInboxObserved(observed, f)
  BY <1>7, SetInboxObservedStep
<1>8. CASE \E observed \in BOOLEAN : SetCallHistoryObserved(observed)
  BY <1>8, SetCallHistoryObservedStep
<1>9. CASE \E id \in screen : Dismiss(id)
  BY <1>9, DismissStep
<1>10. CASE Restart
  BY <1>10, RestartStep
<1>11. CASE UNCHANGED notifyVars
  <2>1. Shaped' /\ \A p \in OnLists' : p \in OnLists
    BY <1>11, SameLists DEF notifyVars, lists
  <2>2. OtherTypes' /\ UNCHANGED <<calls, crashed, shows>>
    BY <1>11, Parts DEF OtherTypes, notifyVars, service
  <2> QED BY <2>1, <2>2, Removed
<1> QED BY <1>1, <1>2, <1>3, <1>4, <1>5, <1>6, <1>7, <1>8, <1>9, <1>10, <1>11 DEF NotifyNext

-----------------------------------------------------------------------------
(* Notifications: the theorems *)

\* The lists are of their types, and every notification on the screen is on one of
\* them, so that what removes notifications can find it (addNotification,
\* deleteNotifications, removeNotifications, syncNotifications).
THEOREM NotificationsSound == NotifySpec => []ListsAreSound
<1>1. NotifyInv => ListsAreSound
  BY DEF NotifyInv
<1> QED BY <1>1, NotifyInitInv, NotifyNextInv, PTL DEF NotifySpec

\* The missed calls of a party, and its voicemails, are one notification that counts
\* them, whatever accounts they came by and whatever list it is on
\* (findNotification, amendCallNotification).
THEOREM OneNotification == NotifySpec => []CallsAreOne
<1>1. NotifyInv => CallsAreOne
  BY DEF NotifyInv
<1> QED BY <1>1, NotifyInitInv, NotifyNextInv, PTL DEF NotifySpec

\* What the user starts to look at, a conversation, an inbox or the call history,
\* leaves no notification of it in m_notifications, wherever in the list they were
\* (slotObservedConversationsChanged, slotInboxObservedChanged,
\* slotCallHistoryObservedChanged, deleteNotifications).
THEOREM SeenGoes == NotifySpec => SeenIsRemoved
<1> DEFINE Gone ==
      \A pn \in Elements(notifications') :
        /\ conversations' # conversations => pn.event \notin MessagesOf(conversations')
        /\ callHistory' /\ ~callHistory => Type[pn.event] # "call"
        /\ /\ inboxObserved'
           /\ <<inboxObserved, inboxFilter>> # <<inboxObserved', inboxFilter'>>
           /\ inboxFilter' \in {AllAccounts, Account[pn.event]}
           => Type[pn.event] # "message"
<1>1. ASSUME NotifyInv, NotifyNext PROVE Gone
  <2>1. CASE UNCHANGED service
    BY <2>1 DEF service
  <2>2. ASSUME NEW convs \in {{}} \cup {{c} : c \in Conversations}, SetObservedConversations(convs)
        PROVE  Gone
    <3>1. /\ DeleteShown(MessagesOf(convs)) /\ conversations' = convs
          /\ UNCHANGED <<inboxObserved, inboxFilter, callHistory>>
      BY <2>2 DEF SetObservedConversations
    <3>2. \A p \in Elements(notifications') : p.event \notin MessagesOf(convs)
      BY <1>1, <3>1, DeleteShownStep
    <3> QED BY <3>1, <3>2
  <2>3. ASSUME NEW observed \in BOOLEAN, NEW f \in Accounts \cup {AllAccounts},
               SetInboxObserved(observed, f)
        PROVE  Gone
    <3>1. /\ inboxObserved' = observed /\ inboxFilter' = f
          /\ UNCHANGED <<conversations, callHistory>>
          /\ \/ ~observed
             \/ f = AllAccounts /\ RemoveNotificationTypes({"message"})
             \/ f # AllAccounts /\ RemoveNotifications(f, {"message"})
      BY <2>3 DEF SetInboxObserved
    <3>2. CASE ~observed
      BY <3>1, <3>2
    <3>3. CASE f = AllAccounts /\ RemoveNotificationTypes({"message"})
      <4>1. \A p \in Elements(notifications') : p \in OnLists /\ Type[p.event] # "message"
        BY <1>1, <3>3, DeleteShownStep, Parts DEF RemoveNotificationTypes, OnLists
      <4> QED BY <3>1, <4>1
    <3>4. CASE f # AllAccounts /\ RemoveNotifications(f, {"message"})
      <4>1. \A p \in Elements(notifications') :
              p.event \in Events /\ ~ (Account[p.event] = f /\ Type[p.event] = "message")
        BY <1>1, <3>4, RemoveNotificationsStep, Parts DEF OnLists
      <4> QED BY <3>1, <3>4, <4>1
    <3> QED BY <3>1, <3>2, <3>3, <3>4
  <2>4. ASSUME NEW observed \in BOOLEAN, SetCallHistoryObserved(observed)
        PROVE  Gone
    <3>1. /\ callHistory' = observed /\ UNCHANGED <<conversations, inboxObserved, inboxFilter>>
          /\ observed => RemoveNotificationTypes({"call"})
      BY <2>4 DEF SetCallHistoryObserved
    <3>2. CASE ~observed
      BY <3>1, <3>2
    <3>3. CASE RemoveNotificationTypes({"call"})
      <4>1. \A p \in Elements(notifications') : p \in OnLists /\ Type[p.event] # "call"
        BY <1>1, <3>3, DeleteShownStep, Parts DEF RemoveNotificationTypes, OnLists
      <4> QED BY <3>1, <4>1
    <3> QED BY <3>1, <3>2, <3>3
  <2>5. CASE Restart
    BY <2>5 DEF Restart, MessagesOf
  <2>6. CASE \E e \in Events : ShowNotification(e)
    BY <2>1, <2>6 DEF ShowNotification
  <2>7. CASE ContactResolveFinished
    BY <2>1, <2>7 DEF ContactResolveFinished
  <2>8. CASE \/ \E r \in Remotes : ContactChanged(r)
             \/ \E c \in Conversations : GroupDataChanged(c) \/ RemoveConversationNotifications(c)
    BY <2>1, <2>8 DEF ContactChanged, GroupDataChanged, Republish, RemoveConversationNotifications
  <2>9. CASE \E a \in Accounts : AccountRemoved(a)
    BY <2>1, <2>9 DEF AccountRemoved
  <2>10. CASE \E id \in screen : Dismiss(id)
    BY <2>1, <2>10 DEF Dismiss
  <2> QED BY <1>1, <2>2, <2>3, <2>4, <2>5, <2>6, <2>7, <2>8, <2>9, <2>10 DEF NotifyNext
<1>2. NotifyInv /\ [NotifyNext]_notifyVars => [Gone]_notifyVars
  BY <1>1
<1> QED BY <1>2, NotifyInitInv, NotifyNextInv, PTL DEF NotifySpec, SeenIsRemoved
=============================================================================
