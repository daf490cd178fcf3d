--------------------------- MODULE HistoryProofs ---------------------------
(***************************************************************************)
(* Proofs about History, for every set of accounts, modems, messages and   *)
(* calls: no cleanup takes the parts of an event that exists.              *)
(***************************************************************************)
EXTENDS History, FiniteSetTheorems, SequenceTheorems, TLAPS

\* A row that names parts is of an event that was stored, and ids are not used
\* again: what is removed because it has no row never gets one.
PartsInv ==
  /\ rows \subseteq known
  /\ complete \subseteq known
  /\ complete \cap rows \subseteq dirs

\* Rows only go, and directories stay.
Shrinks == rows' \subseteq rows /\ UNCHANGED <<known, dirs, complete>>

LEMMA ShrinksStep == PartsInv /\ Shrinks => PartsInv'
BY DEF PartsInv, Shrinks

\* A cleanup removes directories of events that have no row.
LEMMA RemoveDirsStep ==
  ASSUME PartsInv, NEW S, S \cap rows = {}, RemoveDirs(S), UNCHANGED <<rows, known, complete>>
  PROVE  PartsInv'
BY DEF PartsInv, RemoveDirs

LEMMA CleanupStep ==
  ASSUME PartsInv, NEW sig, CleanupHears(sig), UNCHANGED <<rows, known, complete>>
  PROVE  PartsInv'
<1>1. CASE sig.kind = "deleted"
  <2> DEFINE S == IF IsGone(sig.ev) THEN dirs \cap {sig.ev} ELSE {}
  <2>1. S \cap rows = {}
    BY DEF IsGone
  <2>2. RemoveDirs(S)
    BY <1>1 DEF CleanupHears
  <2> QED BY <2>1, <2>2, RemoveDirsStep
<1>2. CASE sig.kind = "groups"
  <2>1. Orphans \cap rows = {} /\ RemoveDirs(Orphans)
    BY <1>2 DEF CleanupHears, Orphans
  <2> QED BY <2>1, RemoveDirsStep
<1>3. CASE sig.kind # "deleted" /\ sig.kind # "groups"
  <2>1. UNCHANGED dirs
    BY <1>3 DEF CleanupHears
  <2> QED BY <2>1, ShrinksStep DEF Shrinks
<1> QED BY <1>1, <1>2, <1>3

-----------------------------------------------------------------------------
(* The database *)

LEMMA StoresEventStep ==
  ASSUME PartsInv, NEW e, StoresEvent(e)
  PROVE  PartsInv'
<1>1. /\ e \notin known /\ rows' = rows \cup {e} /\ known' = known \cup {e}
      /\ \/ dirs' = dirs \cup {e} /\ complete' = complete \cup {e}
         \/ UNCHANGED <<dirs, complete>>
  BY DEF StoresEvent, Stored
<1> QED BY <1>1 DEF PartsInv

LEMMA WithoutGroupsShrinks ==
  ASSUME NEW S, WithoutGroups(S)
  PROVE  rows' \subseteq rows /\ UNCHANGED known
BY DEF WithoutGroups

LEMMA LogChangesStep == PartsInv /\ LogChanges => PartsInv'
<1> SUFFICES ASSUME PartsInv, LogChanges PROVE PartsInv'
  OBVIOUS
<1>1. ASSUME NEW e, StoresEvent(e) PROVE PartsInv'
  BY <1>1, StoresEventStep
<1>2. ASSUME NEW e, DeletesEvent(e) \/ MovesEvent(e) PROVE PartsInv'
  <2>1. Shrinks
    BY <1>2 DEF DeletesEvent, MovesEvent, Shrinks
  <2> QED BY <2>1, ShrinksStep
<1>3. ASSUME NEW a, DeletesConversation(a) PROVE PartsInv'
  <2>1. Shrinks
    BY <1>3, WithoutGroupsShrinks DEF DeletesConversation, Shrinks
  <2> QED BY <2>1, ShrinksStep
<1> QED BY <1>1, <1>2, <1>3 DEF LogChanges

-----------------------------------------------------------------------------
(* AccountOperationsObserver *)

LEMMA DeleteConversationsShrinks ==
  ASSUME NEW paths, NEW listed, DeleteConversations(paths, listed)
  PROVE  rows' \subseteq rows /\ UNCHANGED known
BY WithoutGroupsShrinks DEF DeleteConversations

LEMMA RemovesAccountStep ==
  ASSUME PartsInv, NEW a, RemovesAccount(a)
  PROVE  PartsInv'
<1>1. SlotAccountRemoved(a)
  BY DEF RemovesAccount
<1>2. Shrinks
  <2>1. CASE up /\ a \in watched
    <3>1. UNCHANGED <<dirs, complete>>
      BY <1>1, <2>1 DEF SlotAccountRemoved
    <3>2. rows' \subseteq rows /\ UNCHANGED known
      BY <1>1, <2>1, DeleteConversationsShrinks DEF SlotAccountRemoved
    <3> QED BY <3>1, <3>2 DEF Shrinks
  <2>2. CASE ~(up /\ a \in watched)
    BY <1>1, <2>2 DEF SlotAccountRemoved, storeVars, Shrinks
  <2> QED BY <2>1, <2>2
<1> QED BY <1>2, ShrinksStep

LEMMA OpsTurnStep == PartsInv /\ OpsTurn => PartsInv'
<1> SUFFICES ASSUME PartsInv, OpsTurn PROVE PartsInv'
  OBVIOUS
<1>1. CASE UNCHANGED storeVars
  BY <1>1, ShrinksStep DEF Shrinks, storeVars
<1>2. CASE GroupsLoaded
  <2>1. Shrinks
    BY <1>2, DeleteConversationsShrinks DEF GroupsLoaded, Shrinks
  <2> QED BY <2>1, ShrinksStep
<1>3. ASSUME NEW i, DeleteCalls(i) PROVE PartsInv'
  <2>1. Shrinks
    BY <1>3 DEF DeleteCalls, Shrinks
  <2> QED BY <2>1, ShrinksStep
<1> QED BY <1>1, <1>2, <1>3 DEF OpsTurn

-----------------------------------------------------------------------------
(* SmartMessaging *)

\* The id of a card's event is new: a directory it has, or lacks, is its own.
LEMMA OnReceiveBusinessCardStep ==
  ASSUME PartsInv, NEW e, OnReceiveBusinessCard(e)
  PROVE  PartsInv'
<1>1. CASE UNCHANGED <<rows, known, dirs, complete>>
  BY <1>1, ShrinksStep DEF Shrinks
<1>2. ASSUME NEW saved, NEW modified, NEW made,
             e \notin known, known' = known \cup {e},
             saved => made,
             dirs' = IF made THEN dirs \cup {e} ELSE dirs,
             complete' = Completed(e, saved /\ modified),
             rows' \in {rows, rows \cup {e}}
      PROVE  PartsInv'
  BY <1>2 DEF PartsInv, Completed
<1> QED BY <1>1, <1>2 DEF OnReceiveBusinessCard, storeVars

LEMMA FilesTurnStep == PartsInv /\ FilesTurn => PartsInv'
BY OnReceiveBusinessCardStep DEF FilesTurn, StoresCard

-----------------------------------------------------------------------------
(* The daemon *)

LEMMA HearsStep == PartsInv /\ Hears => PartsInv'
<1> SUFFICES ASSUME PartsInv, Hears PROVE PartsInv'
  OBVIOUS
<1>1. CleanupHears(Head(bus)) /\ UNCHANGED <<rows, known, complete>>
  BY DEF Hears
<1> QED BY <1>1, CleanupStep

\* The full cleanup of a daemon that starts.
LEMMA StartStep == PartsInv /\ Start => PartsInv'
<1> SUFFICES ASSUME PartsInv, Start PROVE PartsInv'
  OBVIOUS
<1>1. Orphans \cap rows = {} /\ RemoveDirs(Orphans) /\ UNCHANGED <<rows, known, complete>>
  BY DEF Start, FilesStart, Orphans
<1> QED BY <1>1, RemoveDirsStep

LEMMA NextParts == PartsInv /\ [Next]_vars => PartsInv'
<1> SUFFICES ASSUME PartsInv, [Next]_vars PROVE PartsInv'
  OBVIOUS
<1>1. CASE LogChanges
  BY <1>1, LogChangesStep
<1>2. ASSUME NEW a, RemovesAccount(a) PROVE PartsInv'
  BY <1>2, RemovesAccountStep
<1>3. CASE ModemsChange \/ (\E a \in Accounts : CreatesAccount(a)) \/ ManagerGetsReady
           \/ DialedTurn
  <2>1. UNCHANGED storeVars
    BY <1>3 DEF ModemsChange, CreatesAccount, ManagerGetsReady, DialedTurn
  <2> QED BY <2>1, ShrinksStep DEF Shrinks, storeVars
<1>4. CASE Hears
  BY <1>4, HearsStep
<1>5. CASE OpsTurn
  BY <1>5, OpsTurnStep
<1>6. CASE FilesTurn
  BY <1>6, FilesTurnStep
<1>7. CASE Stop
  BY <1>7, ShrinksStep DEF Stop, Shrinks
<1>8. CASE Start
  BY <1>8, StartStep
<1>9. CASE UNCHANGED vars
  BY <1>9, ShrinksStep DEF vars, storeVars, Shrinks
<1> QED BY <1>1, <1>2, <1>3, <1>4, <1>5, <1>6, <1>7, <1>8, <1>9 DEF Next

\* The directory of an event whose row names its parts is there: neither
\* FsCleanup::onEventDeleted, nor onGroupsDeleted, nor the full cleanup at the start
\* takes it while the event exists, whatever is stored, moved, deleted or restarted.
THEOREM Parts == Spec => []PartsAreThere
<1>1. Init => PartsInv
  BY DEF Init, PartsInv
<1>2. PartsInv => PartsAreThere
  BY DEF PartsInv, PartsAreThere
<1> QED BY <1>1, <1>2, NextParts, PTL DEF Spec

-----------------------------------------------------------------------------
(* The signals of the library *)

LEMMA SignalTypes ==
  /\ \A e \in Events : Added(e) \in Signals /\ Deleted(e) \in Signals
  /\ GroupsDeleted \in Signals
  /\ \A sig \in Signals :
       \/ sig.kind \in {"added", "deleted"} /\ sig.ev \in Events
       \/ sig = GroupsDeleted /\ sig.kind = "groups" /\ sig.ev = NoEvent /\ sig.ev \notin Events
BY StoreAssumption DEF Signals, Added, Deleted, GroupsDeleted

LEMMA Singles ==
  /\ \A a \in Signals : <<a>> \in Seq(Signals) /\ Len(<<a>>) = 1 /\ <<a>>[1] = a
  /\ \A a, b \in Signals :
       <<a, b>> \in Seq(Signals) /\ Len(<<a, b>>) = 2 /\ <<a, b>>[1] = a /\ <<a, b>>[2] = b
OBVIOUS

LEMMA DialledFinite == IsFiniteSet(Dialled)
<1>1. CallLog \in Seq(Dialled)
  BY StoreAssumption
<1>2. Len(CallLog) \in Nat /\ DOMAIN CallLog = 1 .. Len(CallLog)
      /\ CallLog \in [1 .. Len(CallLog) -> Dialled]
  BY <1>1, LenProperties
<1>3. CallLog \in Surjection(1 .. Len(CallLog), Dialled)
  BY <1>2 DEF Surjection, Dialled
<1>4. IsFiniteSet(1 .. Len(CallLog))
  BY <1>2, FS_Interval
<1> QED BY <1>3, <1>4, FS_Surjection

\* One signal is emitted for each call that is deleted, and no other.
LEMMA DeletedEachProperties ==
  ASSUME NEW S, S \subseteq Dialled
  PROVE  /\ DeletedEach(S) \in Seq(Signals)
         /\ \A i \in DOMAIN DeletedEach(S) : \E m \in S : DeletedEach(S)[i] = Deleted(m)
         /\ \A m \in S : \E i \in DOMAIN DeletedEach(S) : DeletedEach(S)[i] = Deleted(m)
<1> DEFINE n == Cardinality(S)
           f == SetToSeq(S)
           s == DeletedEach(S)
<1>1. IsFiniteSet(S)
  BY DialledFinite, FS_Subset
<1>2. n \in Nat /\ ExistsBijection(1 .. n, S)
  BY <1>1, FS_CardinalityType
<1>3. f \in [1 .. n -> S] /\ IsInjective(f)
  <2>1. \E g \in [1 .. n -> S] : IsInjective(g)
    BY <1>2 DEF ExistsBijection, Bijection, Injection
  <2> QED BY <2>1 DEF SetToSeq
<1>4. f \in Surjection(1 .. n, S)
  <2>1. f \in Injection(1 .. n, S)
    BY <1>3 DEF Injection
  <2>2. Cardinality(1 .. n) = n
    BY <1>2, FS_Interval
  <2> QED BY <2>1, <2>2, <1>1, FS_Injection
<1>5. s = [i \in 1 .. n |-> Deleted(f[i])]
  BY DEF DeletedEach
<1> HIDE DEF n, f, s
<1>6. \A i \in 1 .. n : s[i] = Deleted(f[i]) /\ f[i] \in S
  BY <1>3, <1>5
<1>7. DOMAIN s = 1 .. n
  BY <1>5
<1>8. \A i \in 1 .. n : s[i] \in Signals
  BY <1>6, SignalTypes DEF Events
<1>9. s \in [1 .. n -> Signals]
  BY <1>5, <1>6, <1>8
<1>10. s \in Seq(Signals)
  BY <1>9, <1>2, SeqDef
<1>11. \A m \in S : \E i \in 1 .. n : f[i] = m
  BY <1>4 DEF Surjection
<1> QED BY <1>6, <1>7, <1>10, <1>11 DEF s

\* What is heard after a signal was sent, and after one was heard.
LEMMA Appended ==
  ASSUME NEW q \in Seq(Signals), NEW s \in Seq(Signals)
  PROVE  /\ q \o s \in Seq(Signals)
         /\ \A i \in DOMAIN q : i \in DOMAIN (q \o s) /\ (q \o s)[i] = q[i]
         /\ \A j \in DOMAIN s : \E i \in DOMAIN (q \o s) :
              (q \o s)[i] = s[j] /\ \A k \in DOMAIN q : i > k
         /\ \A i \in DOMAIN (q \o s) :
              i \in DOMAIN q \/ \E j \in DOMAIN s : (q \o s)[i] = s[j] /\ i = j + Len(q)
<1>1. /\ Len(q) \in Nat /\ DOMAIN q = 1 .. Len(q)
      /\ Len(s) \in Nat /\ DOMAIN s = 1 .. Len(s)
  BY LenProperties
<1>2. /\ q \o s \in Seq(Signals) /\ Len(q \o s) = Len(q) + Len(s)
      /\ \A i \in 1 .. Len(q) + Len(s) :
           (q \o s)[i] = IF i <= Len(q) THEN q[i] ELSE s[i - Len(q)]
  BY ConcatProperties
<1>3. DOMAIN (q \o s) = 1 .. Len(q) + Len(s)
  BY <1>2, LenProperties
<1> DEFINE r == q \o s
           m == Len(q)
           n == Len(s)
<1> HIDE DEF r, m, n
<1>4. m \in Nat /\ n \in Nat /\ DOMAIN q = 1 .. m /\ DOMAIN s = 1 .. n /\ DOMAIN r = 1 .. m + n
      /\ \A i \in 1 .. m + n : r[i] = IF i <= m THEN q[i] ELSE s[i - m]
  BY <1>1, <1>2, <1>3 DEF r, m, n
<1>5. \A i \in DOMAIN q : i \in DOMAIN r /\ r[i] = q[i]
  BY <1>4
<1>6. \A j \in DOMAIN s : j + m \in DOMAIN r /\ r[j + m] = s[j] /\ \A k \in DOMAIN q : j + m > k
  BY <1>4
<1>7. \A i \in DOMAIN r : i \in DOMAIN q \/ (i - m \in DOMAIN s /\ r[i] = s[i - m]
                                             /\ i = (i - m) + m)
  BY <1>4
<1>8. \A j \in DOMAIN s : \E i \in DOMAIN r : r[i] = s[j] /\ \A k \in DOMAIN q : i > k
  BY <1>6
<1>9. \A i \in DOMAIN r : i \in DOMAIN q \/ \E j \in DOMAIN s : r[i] = s[j] /\ i = j + m
  BY <1>7
<1> QED BY <1>2, <1>5, <1>8, <1>9 DEF r, m

LEMMA Heard ==
  ASSUME NEW q \in Seq(Signals), q # <<>>
  PROVE  /\ Head(q) \in Signals /\ Head(q) = q[1] /\ 1 \in DOMAIN q
         /\ Tail(q) \in Seq(Signals)
         /\ \A i \in DOMAIN Tail(q) : i + 1 \in DOMAIN q /\ Tail(q)[i] = q[i + 1]
         /\ \A i \in DOMAIN q : i > 1 => i - 1 \in DOMAIN Tail(q) /\ Tail(q)[i - 1] = q[i]
         /\ DOMAIN q \subseteq Int /\ DOMAIN Tail(q) \subseteq Int
<1>1. Len(q) \in Nat \ {0} /\ DOMAIN q = 1 .. Len(q)
  BY EmptySeq, LenProperties
<1>2. /\ Head(q) \in Signals /\ Tail(q) \in Seq(Signals) /\ Len(Tail(q)) = Len(q) - 1
      /\ \A i \in 1 .. Len(Tail(q)) : Tail(q)[i] = q[i + 1]
  BY HeadTailProperties
<1>3. DOMAIN Tail(q) = 1 .. Len(q) - 1
  BY <1>2, LenProperties
<1>4. Head(q) = q[1]
  OBVIOUS
<1> DEFINE t == Tail(q)
           n == Len(q)
<1> HIDE DEF t, n
<1>5. n \in Nat \ {0} /\ DOMAIN q = 1 .. n /\ DOMAIN t = 1 .. n - 1
      /\ \A i \in 1 .. n - 1 : t[i] = q[i + 1]
  BY <1>1, <1>2, <1>3 DEF t, n
<1>6. /\ 1 \in DOMAIN q /\ DOMAIN q \subseteq Int /\ DOMAIN t \subseteq Int
      /\ \A i \in DOMAIN t : i + 1 \in DOMAIN q /\ t[i] = q[i + 1]
  BY <1>5
<1>7. \A i \in DOMAIN q : i > 1 => i - 1 \in DOMAIN t /\ t[i - 1] = q[i]
  <2> SUFFICES ASSUME NEW i \in DOMAIN q, i > 1 PROVE i - 1 \in DOMAIN t /\ t[i - 1] = q[i]
    OBVIOUS
  <2>1. i - 1 \in 1 .. n - 1 /\ (i - 1) + 1 = i
    BY <1>5
  <2> QED BY <2>1, <1>5
<1> QED BY <1>2, <1>4, <1>6, <1>7 DEF t

-----------------------------------------------------------------------------
(* Types: the process and the database *)

LEMMA ManagerStep == ManagerTypes /\ [Next]_vars => ManagerTypes'
<1> SUFFICES ASSUME ManagerTypes, [Next]_vars PROVE ManagerTypes'
  OBVIOUS
<1>0. UNCHANGED <<manager, up, stops, existing, moves>> => ManagerTypes'
  BY DEF ManagerTypes
<1>1. CASE LogChanges \/ ModemsChange
  BY <1>1, BoundsAssumption DEF ManagerTypes, LogChanges, ModemsChange, Move, processVars
<1>2. ASSUME NEW a \in Accounts, RemovesAccount(a) \/ CreatesAccount(a) PROVE ManagerTypes'
  BY <1>2, BoundsAssumption DEF ManagerTypes, RemovesAccount, CreatesAccount, Move, processVars
<1>3. CASE ManagerGetsReady
  BY <1>3, BoundsAssumption DEF ManagerTypes, ManagerGetsReady, ManagerAnswers
<1>4. CASE Hears \/ OpsTurn \/ FilesTurn \/ DialedTurn
  <2>1. UNCHANGED <<manager, up, stops, existing, moves>>
    <3>1. CASE Hears
      BY <3>1 DEF Hears, processVars
    <3>2. CASE OpsTurn
      BY <3>2 DEF OpsTurn, processVars
    <3>3. CASE FilesTurn
      BY <3>3 DEF FilesTurn, processVars
    <3>4. CASE DialedTurn
      BY <3>4 DEF DialedTurn, processVars
    <3> QED BY <1>4, <3>1, <3>2, <3>3, <3>4
  <2> QED BY <1>0, <2>1
<1>5. CASE Stop
  <2>1. stops < MaxStops /\ stops' = stops + 1 /\ manager' = "pending" /\ up' = FALSE
        /\ UNCHANGED <<existing, moves>>
    BY <1>5 DEF Stop
  <2>2. stops' \in 0 .. MaxStops
    BY <2>1, BoundsAssumption DEF ManagerTypes
  <2> QED BY <2>1, <2>2 DEF ManagerTypes
<1>6. CASE Start
  BY <1>6, BoundsAssumption DEF ManagerTypes, Start
<1>7. CASE UNCHANGED vars
  BY <1>0, <1>7 DEF vars, processVars
<1> QED BY <1>1, <1>2, <1>3, <1>4, <1>5, <1>6, <1>7 DEF Next

LEMMA Emits ==
  ASSUME bus \in Seq(Signals), NEW s \in Seq(Signals), bus' = Emitted(s)
  PROVE  bus' \in Seq(Signals)
BY Appended DEF Emitted

LEMMA StoresEventTypes ==
  ASSUME EventStoreTypes, NEW e \in Events, StoresEvent(e)
  PROVE  EventStoreTypes'
<1>1. bus' \in Seq(Signals)
  BY SignalTypes, Singles, Emits DEF EventStoreTypes, StoresEvent, Stored
<1>2. Owner[e] \in Accounts
  BY StoreAssumption
<1> QED BY <1>1, <1>2 DEF EventStoreTypes, StoresEvent, Stored

LEMMA DeletesEventTypes ==
  ASSUME EventStoreTypes, NEW e \in Events, DeletesEvent(e) \/ MovesEvent(e)
  PROVE  EventStoreTypes'
<1>1. bus' \in Seq(Signals)
  BY SignalTypes, Singles, Emits DEF EventStoreTypes, DeletesEvent, MovesEvent
<1>2. rows' \subseteq rows /\ UNCHANGED <<known, conversations, dirs, complete>>
  BY DEF DeletesEvent, MovesEvent
<1> QED BY <1>1, <1>2 DEF EventStoreTypes

\* Deleting groups, or calls, only takes from the database.
LEMMA TakesTypes ==
  ASSUME EventStoreTypes, rows' \subseteq rows, conversations' \subseteq conversations,
         NEW s \in Seq(Signals), bus' = Emitted(s), UNCHANGED <<known, dirs, complete>>
  PROVE  EventStoreTypes'
BY Emits DEF EventStoreTypes

LEMMA WithoutGroupsTypes ==
  ASSUME EventStoreTypes, NEW S, WithoutGroups(S), UNCHANGED <<dirs, complete>>
  PROVE  EventStoreTypes'
<1>1. /\ rows' \subseteq rows /\ conversations' \subseteq conversations
      /\ bus' = Emitted(<<GroupsDeleted>>) /\ UNCHANGED known
  BY DEF WithoutGroups
<1>2. <<GroupsDeleted>> \in Seq(Signals)
  BY SignalTypes, Singles
<1> QED BY <1>1, <1>2, TakesTypes

LEMMA StoreUnchanged == EventStoreTypes /\ UNCHANGED storeVars => EventStoreTypes'
BY DEF EventStoreTypes, storeVars

LEMMA LogChangesTypes == EventStoreTypes /\ LogChanges => EventStoreTypes'
BY StoresEventTypes, DeletesEventTypes, WithoutGroupsTypes
   DEF LogChanges, DeletesConversation

LEMMA DeleteConversationsTypes ==
  ASSUME EventStoreTypes, NEW paths, NEW listed, DeleteConversations(paths, listed),
         UNCHANGED <<dirs, complete>>
  PROVE  EventStoreTypes'
<1>1. WithoutGroups(paths \cap listed) \/ UNCHANGED <<rows, known, conversations, bus>>
  BY DEF DeleteConversations
<1> QED BY <1>1, WithoutGroupsTypes, StoreUnchanged DEF storeVars

LEMMA RemovesAccountTypes ==
  ASSUME EventStoreTypes, NEW a, SlotAccountRemoved(a)
  PROVE  EventStoreTypes'
<1>1. \/ UNCHANGED storeVars
      \/ /\ UNCHANGED <<dirs, complete>>
         /\ \/ DeleteConversations(Kept(a), conversations)
            \/ UNCHANGED <<rows, known, conversations, bus>>
  BY DEF SlotAccountRemoved
<1> QED BY <1>1, StoreUnchanged, DeleteConversationsTypes DEF storeVars

\* What an answer to the query of a call model does to the database.
LEMMA DeleteCallsDoes ==
  ASSUME NEW i, DeleteCalls(i)
  PROVE  /\ \E T : /\ T \subseteq rows \cap Dialled /\ rows' = rows \ T
                   /\ bus' = Emitted(DeletedEach(T))
         /\ UNCHANGED <<known, conversations, dirs, complete>>
<1>1. PICK ok \in Outcome("calls") :
        LET own == {k \in rows \cap Dialled : Owner[k] = models[i].path}
            S   == IF ok THEN own ELSE {}
        IN  \E failed \in (IF "delete" \in MayFail THEN SUBSET S ELSE {{}}) :
              rows' = rows \ (S \ failed) /\ bus' = Emitted(DeletedEach(S \ failed))
  BY DEF DeleteCalls
<1>2. PICK S, failed :
        /\ S \subseteq rows \cap Dialled
        /\ rows' = rows \ (S \ failed) /\ bus' = Emitted(DeletedEach(S \ failed))
  BY <1>1
<1>3. \E T : /\ T \subseteq rows \cap Dialled /\ rows' = rows \ T
             /\ bus' = Emitted(DeletedEach(T))
  <2> WITNESS S \ failed
  <2> QED BY <1>2
<1>4. UNCHANGED <<known, conversations, dirs, complete>>
  BY DEF DeleteCalls
<1> QED BY <1>3, <1>4

LEMMA DeleteCallsTypes ==
  ASSUME EventStoreTypes, NEW i, DeleteCalls(i)
  PROVE  EventStoreTypes'
<1>1. PICK T : /\ T \subseteq rows \cap Dialled /\ rows' = rows \ T
               /\ bus' = Emitted(DeletedEach(T))
  BY DeleteCallsDoes
<1>2. DeletedEach(T) \in Seq(Signals)
  BY <1>1, DeletedEachProperties
<1> QED BY <1>1, <1>2, DeleteCallsDoes, TakesTypes

LEMMA OpsTurnTypes == EventStoreTypes /\ OpsTurn => EventStoreTypes'
<1> SUFFICES ASSUME EventStoreTypes, OpsTurn PROVE EventStoreTypes'
  OBVIOUS
<1>1. ASSUME GroupsLoaded PROVE EventStoreTypes'
  BY <1>1, DeleteConversationsTypes DEF GroupsLoaded
<1> QED BY <1>1, StoreUnchanged, DeleteCallsTypes DEF OpsTurn

\* What one call of onReceiveBusinessCard does to the database.
LEMMA CardDoes ==
  ASSUME NEW e \in Messages, OnReceiveBusinessCard(e)
  PROVE  \/ UNCHANGED storeVars
         \/ UNCHANGED <<rows, known, dirs, complete, bus>>
            /\ conversations' = conversations \cup {Owner[e]}
         \/ /\ e \notin known /\ known' = known \cup {e}
            /\ rows' = rows \/ rows' = rows \cup {e}
            /\ conversations' = conversations \cup {Owner[e]}
            /\ dirs' = dirs \/ dirs' = dirs \cup {e}
            /\ complete' = complete \/ complete' = complete \cup {e}
            /\ bus' = Emitted(<<Added(e)>>) \/ bus' = Emitted(<<Added(e), Deleted(e)>>)
<1>1. ASSUME NEW saved, NEW modified, NEW deleted, NEW made,
             dirs' = IF made THEN dirs \cup {e} ELSE dirs,
             complete' = Completed(e, saved /\ modified),
             IF (saved /\ modified) \/ ~deleted
             THEN rows' = rows \cup {e} /\ bus' = Emitted(<<Added(e)>>)
             ELSE rows' = rows /\ bus' = Emitted(<<Added(e), Deleted(e)>>)
      PROVE  /\ rows' = rows \/ rows' = rows \cup {e}
             /\ dirs' = dirs \/ dirs' = dirs \cup {e}
             /\ complete' = complete \/ complete' = complete \cup {e}
             /\ bus' = Emitted(<<Added(e)>>) \/ bus' = Emitted(<<Added(e), Deleted(e)>>)
  BY <1>1 DEF Completed
<1> QED BY <1>1 DEF OnReceiveBusinessCard

LEMMA FilesTurnTypes == EventStoreTypes /\ FilesTurn => EventStoreTypes'
<1> SUFFICES ASSUME EventStoreTypes, FilesTurn PROVE EventStoreTypes'
  OBVIOUS
<1>1. PICK e \in Messages : OnReceiveBusinessCard(e)
  BY DEF FilesTurn, StoresCard
<1>2. e \in Events /\ Owner[e] \in Accounts
  BY StoreAssumption DEF Events
<1>3. bus' = Emitted(<<Added(e)>>) \/ bus' = Emitted(<<Added(e), Deleted(e)>>)
        => bus' \in Seq(Signals)
  BY <1>2, SignalTypes, Singles, Emits DEF EventStoreTypes
<1> QED BY <1>1, <1>2, <1>3, CardDoes DEF EventStoreTypes, storeVars

\* A cleanup removes directories only.
LEMMA RemoveDirsTypes ==
  ASSUME NEW S, S \subseteq dirs, RemoveDirs(S), dirs \subseteq Messages, stuck \subseteq Messages
  PROVE  dirs' \subseteq Messages /\ stuck' \subseteq Messages
BY DEF RemoveDirs

LEMMA CleanupTypes ==
  ASSUME NEW sig, CleanupHears(sig), dirs \subseteq Messages, stuck \subseteq Messages
  PROVE  dirs' \subseteq Messages /\ stuck' \subseteq Messages
<1>1. CASE sig.kind = "deleted"
  BY <1>1, RemoveDirsTypes DEF CleanupHears
<1>2. CASE sig.kind = "groups"
  <2>1. RemoveDirs(Orphans) /\ Orphans \subseteq dirs
    BY <1>2 DEF CleanupHears, Orphans
  <2> QED BY <2>1, RemoveDirsTypes
<1>3. CASE sig.kind # "deleted" /\ sig.kind # "groups"
  BY <1>3 DEF CleanupHears
<1> QED BY <1>1, <1>2, <1>3

LEMMA StoreStep ==
  EventStoreTypes /\ FileTypes /\ [Next]_vars => EventStoreTypes' /\ stuck' \subseteq Messages
<1> SUFFICES ASSUME EventStoreTypes, FileTypes, [Next]_vars
             PROVE  EventStoreTypes' /\ stuck' \subseteq Messages
  OBVIOUS
<1>0. stuck \subseteq Messages /\ dirs \subseteq Messages
  BY DEF FileTypes, EventStoreTypes
<1>1. CASE LogChanges
  BY <1>0, <1>1, LogChangesTypes DEF LogChanges, fileVars
<1>2. ASSUME NEW a, RemovesAccount(a) PROVE EventStoreTypes' /\ stuck' \subseteq Messages
  BY <1>0, <1>2, RemovesAccountTypes DEF RemovesAccount, fileVars
<1>3. CASE ModemsChange
  <2>1. UNCHANGED <<storeVars, stuck>>
    BY <1>3 DEF ModemsChange, OnModemAdded, OnModemRemoved, OnValidChanged, CardArrives,
                OnOfonoAvailableChanged
  <2> QED BY <1>0, <2>1, StoreUnchanged
<1>4. CASE (\E a \in Accounts : CreatesAccount(a)) \/ ManagerGetsReady \/ DialedTurn
  <2>1. UNCHANGED <<storeVars, fileVars>>
    BY <1>4 DEF CreatesAccount, ManagerGetsReady, DialedTurn
  <2> QED BY <1>0, <2>1, StoreUnchanged DEF fileVars
<1>5. CASE Hears
  <2>1. /\ bus # <<>> /\ bus' = Tail(bus) /\ CleanupHears(Head(bus))
        /\ UNCHANGED <<rows, known, conversations, complete>>
    BY <1>5 DEF Hears
  <2>2. bus' \in Seq(Signals)
    BY <2>1, Heard DEF EventStoreTypes
  <2> QED BY <1>0, <2>1, <2>2, CleanupTypes DEF EventStoreTypes
<1>6. CASE OpsTurn
  BY <1>0, <1>6, OpsTurnTypes DEF OpsTurn, fileVars
<1>7. CASE FilesTurn
  BY <1>0, <1>7, FilesTurnTypes DEF FilesTurn, StoresCard
<1>8. CASE Stop
  <2>1. bus' = <<>> /\ UNCHANGED <<rows, known, conversations, dirs, complete, stuck>>
    BY <1>8 DEF Stop, FilesStop
  <2> QED BY <1>0, <2>1, EmptySeq DEF EventStoreTypes
<1>9. CASE Start
  <2>1. RemoveDirs(Orphans) /\ Orphans \subseteq dirs
        /\ UNCHANGED <<rows, known, conversations, complete, bus>>
    BY <1>9 DEF Start, FilesStart, Orphans
  <2> QED BY <1>0, <2>1, RemoveDirsTypes DEF EventStoreTypes
<1>10. CASE UNCHANGED vars
  BY <1>0, <1>10, StoreUnchanged DEF vars, fileVars
<1> QED BY <1>1, <1>2, <1>3, <1>4, <1>5, <1>6, <1>7, <1>8, <1>9, <1>10 DEF Next

-----------------------------------------------------------------------------
(* Types: the observer of account operations, and its call models *)

LEMMA CallModelTypes ==
  /\ NoModel \in CallModels /\ NoModel.state = "none"
  /\ \A a \in Accounts : /\ Loading(a) \in CallModels
                         /\ Loading(a).state = "loading" /\ Loading(a).path = a
BY DEF CallModels, NoModel, Loading

\* A model with other rows, or in another state, is a model of the same account.
Into(m, st, S) == [m EXCEPT !.state = st, !.calls = S]
Filled(m, S)   == [m EXCEPT !.calls = S]

LEMMA IntoModel ==
  ASSUME NEW m \in CallModels, NEW st \in {"none", "loading", "ready", "gone"},
         NEW S \in SUBSET Dialled
  PROVE  /\ Into(m, st, S) \in CallModels /\ Into(m, st, S).path = m.path
         /\ Into(m, st, S).state = st /\ Into(m, st, S).calls = S
BY DEF CallModels, Into

LEMMA FilledModel ==
  ASSUME NEW m \in CallModels, NEW S \in SUBSET Dialled
  PROVE  /\ Filled(m, S) \in CallModels /\ Filled(m, S).path = m.path
         /\ Filled(m, S).state = m.state /\ Filled(m, S).calls = S
BY DEF CallModels, Filled

\* A model that may be listed for the account: it waits for something.
Waits(m, a) == m.path = a /\ (m.state = "loading" \/ (m.state = "ready" /\ m.calls # {}))

OpsInv == OpsTypes /\ ListedModelsWait

LEMMA WaitsDef ==
  ListedModelsWait <=> \A a \in Accounts : pathsForCalls[a] # 0 => Waits(models[pathsForCalls[a]], a)
BY DEF ListedModelsWait, Waits

LEMMA WaitsNext ==
  (\A a \in Accounts : pathsForCalls'[a] # 0 => Waits(models'[pathsForCalls'[a]], a))
    => ListedModelsWait'
BY DEF ListedModelsWait, Waits

\* What is kept of an account that goes: the conversations.
LEMMA ConversationsTypes ==
  ASSUME OpsTypes, EventStoreTypes, NEW paths, NEW listed, DeleteConversations(paths, listed)
  PROVE  pathsForConvs' = {} /\ excused' \subseteq Events
BY DEF DeleteConversations, OpsTypes, MessagesOf, Events

LEMMA AskedTypes == AskedModel \subseteq {"none", "loading"} /\ RequestedModel \subseteq {groupModel, "none", "loading"}
BY DEF AskedModel, RequestedModel

\* An account goes: its new model waits, and no other account has that model.
LEMMA SlotAccountRemovedOps ==
  ASSUME OpsInv, EventStoreTypes, NEW a \in Accounts, SlotAccountRemoved(a)
  PROVE  OpsInv'
<1>1. CASE ~(up /\ a \in watched)
  <2>1. UNCHANGED opsVars
    BY <1>1 DEF SlotAccountRemoved
  <2> QED BY <2>1 DEF OpsInv, OpsTypes, ListedModelsWait, opsVars
<1>2. CASE up /\ a \in watched
  <2>1. PICK i \in Unused :
          /\ watched' = watched \ {a}
          /\ models' = [models EXCEPT ![i] = Loading(a)]
          /\ pathsForCalls' = [pathsForCalls EXCEPT ![a] = i]
          /\ due' = due \cup {e \in rows : Owner[e] = a}
          /\ groupModel' \in RequestedModel
          /\ IF groupModel' = "ready"
             THEN DeleteConversations(Kept(a), conversations)
             ELSE /\ pathsForConvs' = Kept(a)
                  /\ excused' = IF groupModel' = "loading" THEN excused
                                ELSE excused \cup MessagesOf(Kept(a))
          /\ UNCHANGED watching
    BY <1>2 DEF SlotAccountRemoved
  <2>2. i \in 1 .. MaxModels /\ models[i].state = "none"
    BY DEF Unused
  <2>3. /\ models \in [1 .. MaxModels -> CallModels]
        /\ pathsForCalls \in [Accounts -> 0 .. MaxModels]
        /\ rows \subseteq Events /\ conversations \subseteq Accounts
    BY DEF OpsInv, OpsTypes, EventStoreTypes
  <2>4. models' \in [1 .. MaxModels -> CallModels]
    BY <2>1, <2>2, <2>3, CallModelTypes
  <2>5. pathsForCalls' \in [Accounts -> 0 .. MaxModels]
    <3>1. i \in 0 .. MaxModels
      BY <2>2, ModelsAssumption
    <3> QED BY <2>1, <2>3, <3>1
  <2>6. pathsForConvs' \subseteq Accounts /\ excused' \subseteq Events
    <3>1. Kept(a) \subseteq Accounts
      BY DEF Kept, OpsInv, OpsTypes
    <3>2. excused \subseteq Events /\ MessagesOf(Kept(a)) \subseteq Events
      BY <2>3 DEF MessagesOf, OpsInv, OpsTypes
    <3> QED BY <2>1, <3>1, <3>2, ConversationsTypes DEF OpsInv
  <2>7. OpsTypes'
    BY <2>1, <2>3, <2>4, <2>5, <2>6, AskedTypes DEF OpsInv, OpsTypes
  <2>8. \A b \in Accounts : pathsForCalls'[b] # 0 => Waits(models'[pathsForCalls'[b]], b)
    <3> SUFFICES ASSUME NEW b \in Accounts, pathsForCalls'[b] # 0
                 PROVE  Waits(models'[pathsForCalls'[b]], b)
      OBVIOUS
    <3>1. CASE b = a
      <4>1. models'[pathsForCalls'[b]] = Loading(a)
        BY <2>1, <2>2, <2>3, <3>1
      <4> QED BY <4>1, <3>1, CallModelTypes DEF Waits
    <3>2. CASE b # a
      <4>1. pathsForCalls'[b] = pathsForCalls[b]
        BY <2>1, <2>3, <3>2
      <4>2. Waits(models[pathsForCalls[b]], b)
        BY <4>1, WaitsDef DEF OpsInv
      <4>3. pathsForCalls[b] # i
        BY <2>2, <4>2 DEF Waits
      <4>4. models'[pathsForCalls[b]] = models[pathsForCalls[b]]
        <5>1. pathsForCalls[b] \in 1 .. MaxModels
          BY <2>3, <4>1, ModelsAssumption
        <5> QED BY <2>1, <2>3, <4>3, <5>1
      <4> QED BY <4>1, <4>2, <4>4
    <3> QED BY <3>1, <3>2
  <2> QED BY <2>7, <2>8, WaitsNext DEF OpsInv
<1> QED BY <1>1, <1>2

\* The calls of an account are known: its model waits for them, or goes.
LEMMA DeleteCallsOps ==
  ASSUME OpsInv, EventStoreTypes, NEW i \in 1 .. MaxModels, DeleteCalls(i)
  PROVE  OpsInv'
<1>1. PICK S, failed, own :
        /\ S \subseteq own /\ own \subseteq rows \cap Dialled /\ failed \subseteq S
        /\ excused' = excused \cup failed \cup (own \ S)
        /\ IF S = {} THEN Released(i)
           ELSE /\ models' = [models EXCEPT ![i].state = "ready", ![i].calls = S]
                /\ UNCHANGED pathsForCalls
  <2>1. PICK ok \in Outcome("calls") :
          LET own == {k \in rows \cap Dialled : Owner[k] = models[i].path}
              S   == IF ok THEN own ELSE {}
          IN  \E failed \in (IF "delete" \in MayFail THEN SUBSET S ELSE {{}}) :
                /\ excused' = excused \cup failed \cup (own \ S)
                /\ IF S = {} THEN Released(i)
                   ELSE /\ models' = [models EXCEPT ![i].state = "ready", ![i].calls = S]
                        /\ UNCHANGED pathsForCalls
    BY DEF DeleteCalls
  <2> DEFINE own == {k \in rows \cap Dialled : Owner[k] = models[i].path}
             S   == IF ok THEN own ELSE {}
  <2>2. PICK failed \in (IF "delete" \in MayFail THEN SUBSET S ELSE {{}}) :
          /\ excused' = excused \cup failed \cup (own \ S)
          /\ IF S = {} THEN Released(i)
             ELSE /\ models' = [models EXCEPT ![i].state = "ready", ![i].calls = S]
                  /\ UNCHANGED pathsForCalls
    BY <2>1
  <2>3. S \subseteq own /\ own \subseteq rows \cap Dialled /\ failed \subseteq S
    OBVIOUS
  <2> HIDE DEF own, S
  <2> QED BY <2>2, <2>3
<1>2. UNCHANGED <<watching, watched, groupModel, pathsForConvs, due>>
  BY DEF DeleteCalls
<1>3. /\ models \in [1 .. MaxModels -> CallModels]
      /\ pathsForCalls \in [Accounts -> 0 .. MaxModels]
      /\ rows \subseteq Events /\ excused \subseteq Events
  BY DEF OpsInv, OpsTypes, EventStoreTypes
<1>4. excused' \subseteq Events
  BY <1>1, <1>3
<1> DEFINE m == models[i]
           Unlisted == [a \in Accounts |-> IF pathsForCalls[a] = i THEN 0 ELSE pathsForCalls[a]]
<1>5. m \in CallModels /\ S \in SUBSET Dialled /\ {} \in SUBSET Dialled
  BY <1>1, <1>3
<1>6. PICK N \in CallModels :
        /\ N.path = m.path
        /\ models' = [models EXCEPT ![i] = N]
        /\ \/ N.state = "ready" /\ N.calls # {} /\ pathsForCalls' = pathsForCalls
           \/ pathsForCalls' = Unlisted
           \/ pathsForCalls' = pathsForCalls /\ \A a \in Accounts : pathsForCalls[a] # i
  <2>1. CASE S # {}
    <3>1. models' = [models EXCEPT ![i] = Into(m, "ready", S)] /\ pathsForCalls' = pathsForCalls
      BY <1>1, <1>3, <2>1 DEF Into
    <3>2. Into(m, "ready", S) \in CallModels /\ Into(m, "ready", S).path = m.path
          /\ Into(m, "ready", S).state = "ready" /\ Into(m, "ready", S).calls = S
      BY <1>5, IntoModel
    <3> QED BY <2>1, <3>1, <3>2
  <2>2. CASE S = {} /\ \E a \in Accounts : pathsForCalls[a] = i
    <3>1. Released(i)
      BY <1>1, <2>2
    <3>2. models' = [models EXCEPT ![i] = Into(m, "gone", {})] /\ pathsForCalls' = Unlisted
      BY <1>3, <2>2, <3>1 DEF Released, Into
    <3>3. Into(m, "gone", {}) \in CallModels /\ Into(m, "gone", {}).path = m.path
      BY <1>5, IntoModel
    <3> QED BY <3>2, <3>3
  <2>3. CASE S = {} /\ ~\E a \in Accounts : pathsForCalls[a] = i
    <3>1. Released(i)
      BY <1>1, <2>3
    <3>2. models' = [models EXCEPT ![i] = Into(m, "ready", {})] /\ pathsForCalls' = pathsForCalls
      BY <1>3, <2>3, <3>1 DEF Released, Into
    <3>3. Into(m, "ready", {}) \in CallModels /\ Into(m, "ready", {}).path = m.path
      BY <1>5, IntoModel
    <3> QED BY <2>3, <3>2, <3>3
  <2> QED BY <2>1, <2>2, <2>3
<1>7. models' \in [1 .. MaxModels -> CallModels]
  BY <1>3, <1>6
<1>8. pathsForCalls' \in [Accounts -> 0 .. MaxModels]
  BY <1>3, <1>6, ModelsAssumption
<1>9. OpsTypes'
  BY <1>2, <1>4, <1>7, <1>8 DEF OpsInv, OpsTypes
<1>10. \A a \in Accounts : pathsForCalls'[a] # 0 => Waits(models'[pathsForCalls'[a]], a)
  <2> SUFFICES ASSUME NEW a \in Accounts, pathsForCalls'[a] # 0
               PROVE  Waits(models'[pathsForCalls'[a]], a)
    OBVIOUS
  <2>1. pathsForCalls'[a] = pathsForCalls[a]
        /\ (pathsForCalls[a] # i \/ (N.state = "ready" /\ N.calls # {}))
    BY <1>3, <1>6
  <2>2. pathsForCalls[a] \in 1 .. MaxModels
    BY <1>3, <2>1, ModelsAssumption
  <2>3. Waits(models[pathsForCalls[a]], a)
    BY <2>1, WaitsDef DEF OpsInv
  <2>4. CASE pathsForCalls[a] # i
    <3>1. models'[pathsForCalls[a]] = models[pathsForCalls[a]]
      BY <1>3, <1>6, <2>2, <2>4
    <3> QED BY <2>1, <2>3, <3>1
  <2>5. CASE pathsForCalls[a] = i
    <3>1. models'[i] = N
      BY <1>3, <1>6
    <3>2. N.path = a /\ N.state = "ready" /\ N.calls # {}
      BY <1>6, <2>1, <2>3, <2>5 DEF Waits
    <3> QED BY <2>1, <2>5, <3>1, <3>2 DEF Waits
  <2> QED BY <2>4, <2>5
<1> QED BY <1>9, <1>10, WaitsNext DEF OpsInv

\* A signal reaches the models: one that loses its last call is unlisted, and the
\* others keep what they wait for.
LEMMA OpsHearStep ==
  ASSUME OpsInv, NEW sig \in Signals, OpsHear(sig)
  PROVE  OpsInv'
<1> DEFINE Follows(i) == models[i].state = "ready" /\ sig.ev \in Dialled
                         /\ Owner[sig.ev] = models[i].path
           Calls(i) == IF sig.kind = "added" THEN models[i].calls \cup {sig.ev}
                       ELSE models[i].calls \ {sig.ev}
           Ends(i)  == Follows(i) /\ sig.kind = "deleted" /\ LastOf(i, sig.ev)
           Found(i) == \E a \in Accounts : pathsForCalls[a] = i
<1>1. /\ models' = [i \in 1 .. MaxModels |->
           IF Ends(i) /\ Found(i) THEN Into(models[i], "gone", {})
           ELSE IF Follows(i) THEN Filled(models[i], Calls(i)) ELSE models[i]]
      /\ pathsForCalls' = [a \in Accounts |->
           IF pathsForCalls[a] # 0 /\ Ends(pathsForCalls[a]) THEN 0 ELSE pathsForCalls[a]]
      /\ UNCHANGED <<watching, watched, groupModel, pathsForConvs, due, excused>>
  BY DEF OpsHear, Into, Filled
<1>2. models \in [1 .. MaxModels -> CallModels] /\ pathsForCalls \in [Accounts -> 0 .. MaxModels]
  BY DEF OpsInv, OpsTypes
<1>3. ASSUME NEW i \in 1 .. MaxModels
      PROVE  /\ Into(models[i], "gone", {}) \in CallModels
             /\ Follows(i) => /\ Calls(i) \subseteq Dialled
                            /\ Filled(models[i], Calls(i)) \in CallModels
                            /\ Filled(models[i], Calls(i)).state = "ready"
                            /\ Filled(models[i], Calls(i)).path = models[i].path
                            /\ Filled(models[i], Calls(i)).calls = Calls(i)
  <2>1. models[i] \in CallModels /\ {} \in SUBSET Dialled /\ models[i].calls \in SUBSET Dialled
    BY <1>2 DEF CallModels
  <2>2. Into(models[i], "gone", {}) \in CallModels
    BY <2>1, IntoModel
  <2>3. ASSUME Follows(i)
        PROVE  /\ Calls(i) \in SUBSET Dialled
               /\ Filled(models[i], Calls(i)) \in CallModels
               /\ Filled(models[i], Calls(i)).state = "ready"
               /\ Filled(models[i], Calls(i)).path = models[i].path
               /\ Filled(models[i], Calls(i)).calls = Calls(i)
    <3>1. Calls(i) \in SUBSET Dialled /\ models[i].state = "ready"
      BY <2>1, <2>3
    <3> HIDE DEF Calls
    <3> QED BY <2>1, <3>1, FilledModel
  <2> QED BY <2>2, <2>3
<1>4. \A i \in 1 .. MaxModels : Follows(i) /\ ~Ends(i) /\ models[i].calls # {} => Calls(i) # {}
  <2> SUFFICES ASSUME NEW i \in 1 .. MaxModels, Follows(i), ~Ends(i), models[i].calls # {}
               PROVE  Calls(i) # {}
    OBVIOUS
  <2>1. CASE sig.kind = "added"
    BY <2>1
  <2>2. CASE sig.kind = "deleted"
    BY <2>2 DEF LastOf
  <2>3. CASE sig.kind # "added" /\ sig.kind # "deleted"
    BY <2>3, SignalTypes DEF Events
  <2> QED BY <2>1, <2>2, <2>3
<1> HIDE DEF Follows, Calls, Ends, Found
<1>5. models' \in [1 .. MaxModels -> CallModels]
  BY <1>1, <1>2, <1>3
<1>6. pathsForCalls' \in [Accounts -> 0 .. MaxModels]
  BY <1>1, <1>2, ModelsAssumption
<1>7. OpsTypes'
  BY <1>1, <1>5, <1>6 DEF OpsInv, OpsTypes
<1>8. \A a \in Accounts : pathsForCalls'[a] # 0 => Waits(models'[pathsForCalls'[a]], a)
  <2> SUFFICES ASSUME NEW a \in Accounts, pathsForCalls'[a] # 0
               PROVE  Waits(models'[pathsForCalls'[a]], a)
    OBVIOUS
  <2> DEFINE p == pathsForCalls[a]
  <2>1. pathsForCalls'[a] = p /\ p # 0 /\ ~Ends(p)
    BY <1>1
  <2>2. p \in 1 .. MaxModels
    BY <1>2, <2>1, ModelsAssumption
  <2>3. Waits(models[p], a)
    BY <2>1, WaitsDef DEF OpsInv
  <2>4. models'[p] = IF Follows(p) THEN Filled(models[p], Calls(p)) ELSE models[p]
    BY <1>1, <2>1, <2>2
  <2>5. CASE Follows(p)
    <3>1. models[p].state = "ready"
      BY <2>5 DEF Follows
    <3>2. models[p].calls # {} /\ models[p].path = a
      BY <2>3, <3>1 DEF Waits
    <3>3. Calls(p) # {}
      BY <1>4, <2>1, <2>2, <2>5, <3>2
    <3> QED BY <1>3, <2>1, <2>2, <2>4, <2>5, <3>2, <3>3 DEF Waits
  <2> QED BY <2>1, <2>3, <2>4, <2>5
<1> QED BY <1>7, <1>8, WaitsNext DEF OpsInv

\* Steps that leave the call models, and the map of them, alone.
LEMMA ModelsKept ==
  ASSUME OpsInv, UNCHANGED <<pathsForCalls, models>>,
         watching' \in BOOLEAN, watched' \subseteq Accounts,
         groupModel' \in {"none", "loading", "ready", "failed"},
         pathsForConvs' \subseteq Accounts, due' \subseteq Events, excused' \subseteq Events
  PROVE  OpsInv'
BY DEF OpsInv, OpsTypes, ListedModelsWait

LEMMA OpsUnchanged == OpsInv /\ UNCHANGED opsVars => OpsInv'
BY DEF OpsInv, OpsTypes, ListedModelsWait, opsVars

\* No model is listed: of the daemon that starts.
LEMMA NoneListed ==
  /\ [i \in 1 .. MaxModels |-> NoModel] \in [1 .. MaxModels -> CallModels]
  /\ [a \in Accounts |-> 0] \in [Accounts -> 0 .. MaxModels]
BY CallModelTypes, ModelsAssumption

LEMMA OpsTurnOps == OpsInv /\ EventStoreTypes /\ ManagerTypes /\ OpsTurn => OpsInv'
<1> SUFFICES ASSUME OpsInv, EventStoreTypes, ManagerTypes, OpsTurn PROVE OpsInv'
  OBVIOUS
<1>1. CASE ObserverReady
  <2>1. /\ watching' = TRUE /\ watched' = IF manager = "ready" THEN existing ELSE {}
        /\ UNCHANGED <<groupModel, pathsForConvs, pathsForCalls, models, due, excused>>
    BY <1>1 DEF ObserverReady
  <2> QED BY <2>1 DEF ManagerTypes, OpsInv, OpsTypes, ListedModelsWait
<1>2. CASE GroupsLoaded
  <2>1. PICK ok \in Outcome("groupsReady") :
          /\ groupModel' = IF ok THEN "ready" ELSE "failed"
          /\ DeleteConversations(pathsForConvs, IF ok THEN conversations ELSE {})
          /\ UNCHANGED <<watching, watched, pathsForCalls, models, due>>
    BY <1>2 DEF GroupsLoaded
  <2>2. OpsTypes
    BY DEF OpsInv
  <2>3. pathsForConvs' = {} /\ excused' \subseteq Events
    BY <2>1, <2>2, ConversationsTypes
  <2> QED BY <2>1, <2>2, <2>3, ModelsKept DEF OpsTypes
<1>3. ASSUME NEW i \in 1 .. MaxModels, DeleteCalls(i) PROVE OpsInv'
  BY <1>3, DeleteCallsOps
<1> QED BY <1>1, <1>2, <1>3 DEF OpsTurn

LEMMA OpsStep == OpsInv /\ EventStoreTypes /\ ManagerTypes /\ [Next]_vars => OpsInv'
<1> SUFFICES ASSUME OpsInv, EventStoreTypes, ManagerTypes, [Next]_vars PROVE OpsInv'
  OBVIOUS
<1>1. CASE LogChanges \/ ModemsChange \/ ManagerGetsReady \/ FilesTurn \/ DialedTurn \/ Start
           \/ UNCHANGED vars
  <2>1. UNCHANGED opsVars
    <3>1. CASE LogChanges
      BY <3>1 DEF LogChanges
    <3>2. CASE ModemsChange
      BY <3>2 DEF ModemsChange
    <3>3. CASE ManagerGetsReady \/ FilesTurn \/ DialedTurn
      BY <3>3 DEF ManagerGetsReady, FilesTurn, DialedTurn
    <3>4. CASE Start \/ UNCHANGED vars
      BY <3>4 DEF Start, vars
    <3> QED BY <1>1, <3>1, <3>2, <3>3, <3>4
  <2> QED BY <2>1, OpsUnchanged
<1>2. ASSUME NEW a \in Accounts, RemovesAccount(a) PROVE OpsInv'
  BY <1>2, SlotAccountRemovedOps DEF RemovesAccount
<1>3. ASSUME NEW a \in Accounts, CreatesAccount(a) PROVE OpsInv'
  <2>1. /\ watched' = watched \/ watched' = watched \cup {a}
        /\ UNCHANGED <<watching, groupModel, pathsForConvs, pathsForCalls, models, due, excused>>
    BY <1>3 DEF CreatesAccount, ConnectToSignals
  <2> QED BY <2>1, ModelsKept DEF OpsInv, OpsTypes
<1>4. CASE Hears
  <2>1. bus # <<>> /\ OpsHear(Head(bus))
    BY <1>4 DEF Hears
  <2>2. Head(bus) \in Signals
    BY <2>1, Heard DEF EventStoreTypes
  <2> QED BY <2>1, <2>2, OpsHearStep
<1>5. CASE OpsTurn
  BY <1>5, OpsTurnOps
<1>6. CASE Stop
  <2>1. /\ watching' = FALSE /\ watched' = {} /\ groupModel' \in AskedModel /\ pathsForConvs' = {}
        /\ pathsForCalls' = [a \in Accounts |-> 0]
        /\ models' = [i \in 1 .. MaxModels |-> NoModel]
        /\ excused' = excused \cup due /\ UNCHANGED due
    BY <1>6 DEF Stop, OpsStop
  <2>2. OpsTypes'
    BY <2>1, AskedTypes, NoneListed DEF OpsInv, OpsTypes
  <2> QED BY <2>1, <2>2, WaitsNext DEF OpsInv
<1> QED BY <1>1, <1>2, <1>3, <1>4, <1>5, <1>6 DEF Next

-----------------------------------------------------------------------------
(* Types: the agents of the modems, and the model of the dialled calls *)

\* No more connections are made than MaxSetups lets setup make.
LEMMA Counts == 0 \in 0 .. MaxSetups /\ 1 \in 0 .. MaxSetups
BY ModemAssumption

AgentTypes ==
  /\ present \subseteq Modems /\ interfaces \subseteq Modems /\ valid \subseteq Modems
  /\ connected \in [Modems -> 0 .. MaxSetups] /\ left \in [Modems -> 0 .. MaxSetups]
  /\ cards \in [Modems -> Nat]

LEMMA FileTypesDef == FileTypes <=> AgentTypes /\ stuck \subseteq Messages
BY DEF FileTypes, AgentTypes

LEMMA AgentsUnchanged == AgentTypes /\ UNCHANGED <<agentVars, cards>> => AgentTypes'
BY DEF AgentTypes, agentVars

LEMMA ModemsChangeTypes == AgentTypes /\ ModemsChange => AgentTypes'
<1> SUFFICES ASSUME AgentTypes, ModemsChange PROVE AgentTypes'
  OBVIOUS
<1>1. ASSUME NEW m \in Modems, OnModemAdded(m) PROVE AgentTypes'
  <2>1. LeftBehind(m) \in 0 .. MaxSetups
    BY DEF LeftBehind, AgentTypes
  <2>2. connected' = [connected EXCEPT ![m] = 1] \/ connected' = [connected EXCEPT ![m] = 0]
    BY <1>1 DEF OnModemAdded, AddModem
  <2> QED BY <1>1, <2>1, <2>2, Counts DEF OnModemAdded, AgentTypes
<1>2. ASSUME NEW m \in Modems, OnModemRemoved(m) PROVE AgentTypes'
  BY <1>2, Counts DEF OnModemRemoved, AgentTypes
<1>3. ASSUME NEW m \in Modems, OnValidChanged(m) PROVE AgentTypes'
  <2>1. \/ UNCHANGED connected
        \/ connected[m] < MaxSetups /\ connected' = [connected EXCEPT ![m] = connected[m] + 1]
    BY <1>3 DEF OnValidChanged, Setup
  <2>2. connected \in [Modems -> 0 .. MaxSetups] /\ MaxSetups \in Nat
    BY ModemAssumption DEF AgentTypes
  <2>3. connected' \in [Modems -> 0 .. MaxSetups]
    BY <2>1, <2>2
  <2>4. valid' \subseteq Modems /\ UNCHANGED <<present, interfaces, left, cards>>
    BY <1>3 DEF OnValidChanged, AgentTypes
  <2> QED BY <2>3, <2>4 DEF AgentTypes
<1>4. ASSUME NEW m \in Modems, CardArrives(m) PROVE AgentTypes'
  <2>1. cards' = [cards EXCEPT ![m] = cards[m] + Listening(m)] /\ UNCHANGED agentVars
    BY <1>4 DEF CardArrives
  <2>2. Listening(m) \in 0 .. MaxSetups
    BY DEF Listening, AgentTypes
  <2>3. cards' \in [Modems -> Nat]
    BY <2>1, <2>2 DEF AgentTypes
  <2> QED BY <2>1, <2>3 DEF AgentTypes, agentVars
<1>5. ASSUME NEW available \in BOOLEAN, OnOfonoAvailableChanged(available) PROVE AgentTypes'
  <2>1. UNCHANGED <<present, valid, left, cards>>
    BY <1>5 DEF OnOfonoAvailableChanged
  <2>2. CASE available
    <3>1. /\ interfaces' = interfaces \cup present
          /\ connected' = [m \in Modems |->
               IF m \in present \ interfaces THEN (IF m \in valid THEN 1 ELSE 0)
                                             ELSE connected[m]]
      BY <1>5, <2>2 DEF OnOfonoAvailableChanged
    <3>2. connected' \in [Modems -> 0 .. MaxSetups]
      BY <3>1, Counts DEF AgentTypes
    <3> QED BY <2>1, <3>1, <3>2 DEF AgentTypes
  <2>3. CASE ~available
    <3>1. interfaces' = {} /\ connected' = [m \in Modems |-> 0]
      BY <1>5, <2>3 DEF OnOfonoAvailableChanged
    <3> QED BY <2>1, <3>1, Counts DEF AgentTypes
  <2> QED BY <2>2, <2>3
<1> QED BY <1>1, <1>2, <1>3, <1>4, <1>5 DEF ModemsChange

LEMMA AgentStep == AgentTypes /\ [Next]_vars => AgentTypes'
<1> SUFFICES ASSUME AgentTypes, [Next]_vars PROVE AgentTypes'
  OBVIOUS
<1>1. CASE LogChanges \/ ManagerGetsReady \/ OpsTurn \/ DialedTurn \/ UNCHANGED vars
  <2>1. UNCHANGED fileVars
    BY <1>1 DEF LogChanges, ManagerGetsReady, OpsTurn, DialedTurn, vars
  <2> QED BY <2>1, AgentsUnchanged DEF fileVars
<1>2. CASE \E a \in Accounts : RemovesAccount(a) \/ CreatesAccount(a)
  BY <1>2, AgentsUnchanged DEF RemovesAccount, CreatesAccount, fileVars
<1>3. CASE ModemsChange
  BY <1>3, ModemsChangeTypes
<1>4. CASE Hears
  BY <1>4, AgentsUnchanged DEF Hears
<1>5. CASE FilesTurn
  <2>1. PICK m \in Modems : cards[m] > 0 /\ cards' = [cards EXCEPT ![m] = cards[m] - 1]
    BY <1>5 DEF FilesTurn, StoresCard
  <2>2. UNCHANGED agentVars
    BY <1>5 DEF FilesTurn, StoresCard
  <2>3. cards' \in [Modems -> Nat]
    BY <2>1 DEF AgentTypes
  <2> QED BY <2>2, <2>3 DEF AgentTypes, agentVars
<1>6. CASE Stop
  BY <1>6, Counts DEF Stop, FilesStop, AgentTypes
<1>7. CASE Start
  BY <1>7, Counts DEF Start, FilesStart, AgentTypes
<1> QED BY <1>1, <1>2, <1>3, <1>4, <1>5, <1>6, <1>7 DEF Next

LEMMA DialedUnchanged == DialedTypes /\ UNCHANGED dialedVars => DialedTypes'
BY DEF DialedTypes, dialedVars

LEMMA WritesDo ==
  /\ \A k : WriteLastDialed(k) => (file' = k \/ file' = file) /\ stale' \in BOOLEAN
  /\ RemoveLastDialed => file' = NoEvent /\ stale' = FALSE
BY DEF WriteLastDialed, RemoveLastDialed, Outcome

LEMMA WriteFirstDoes ==
  ASSUME WriteFirst
  PROVE  \E k \in dialedRows' : (file' = k \/ file' = file) /\ stale' \in BOOLEAN
BY WritesDo DEF WriteFirst, Newest

LEMMA DialedHearsTypes ==
  ASSUME DialedTypes, NEW sig, DialedHears(sig)
  PROVE  DialedTypes'
<1>0. UNCHANGED dialedReady
  BY DEF DialedHears
<1>1. ASSUME sig.ev \in Dialled, dialedRows' = dialedRows \cup {sig.ev},
             WriteLastDialed(sig.ev) \/ UNCHANGED <<file, stale>>
      PROVE  DialedTypes'
  BY <1>0, <1>1, WritesDo DEF DialedTypes
<1>2. ASSUME dialedRows' = dialedRows \ {sig.ev}, OnRowsRemoved(sig.ev)
      PROVE  DialedTypes'
  <2>1. dialedRows' \subseteq Dialled
    BY <1>2 DEF DialedTypes
  <2>2. RemoveLastDialed \/ WriteFirst \/ UNCHANGED <<file, stale>>
    BY <1>2 DEF OnRowsRemoved, LastRowGone
  <2> QED BY <1>0, <2>1, <2>2, WritesDo, WriteFirstDoes DEF DialedTypes
<1>3. ASSUME UNCHANGED <<dialedRows, file, stale>> PROVE DialedTypes'
  BY <1>0, <1>3 DEF DialedTypes
<1> QED BY <1>1, <1>2, <1>3 DEF DialedHears

\* What the model does when it is filled.
LEMMA DialedLoadedDoes ==
  ASSUME DialedLoaded
  PROVE  /\ up /\ ~dialedReady /\ dialedReady' = TRUE
         /\ \/ dialedRows' = Newest(rows \cap Dialled) /\ OnModelReset
            \/ dialedRows' = {} /\ UNCHANGED file /\ stale' = TRUE
BY DEF DialedLoaded, Outcome

LEMMA DialedStep == DialedTypes /\ [Next]_vars => DialedTypes'
<1> SUFFICES ASSUME DialedTypes, [Next]_vars PROVE DialedTypes'
  OBVIOUS
<1>1. CASE LogChanges \/ ModemsChange \/ ManagerGetsReady \/ OpsTurn \/ FilesTurn \/ Start
           \/ UNCHANGED vars
  <2>1. UNCHANGED dialedVars
    BY <1>1 DEF LogChanges, ModemsChange, ManagerGetsReady, OpsTurn, FilesTurn, Start, vars
  <2> QED BY <2>1, DialedUnchanged
<1>2. CASE \E a \in Accounts : RemovesAccount(a) \/ CreatesAccount(a)
  BY <1>2, DialedUnchanged DEF RemovesAccount, CreatesAccount
<1>3. CASE Hears
  BY <1>3, DialedHearsTypes DEF Hears
<1>4. CASE DialedTurn
  <2>1. DialedLoaded
    BY <1>4 DEF DialedTurn
  <2>2. dialedRows' \subseteq Dialled /\ dialedReady' = TRUE
    BY <2>1, DialedLoadedDoes DEF Newest
  <2>3. RemoveLastDialed \/ WriteFirst \/ (UNCHANGED file /\ stale' = TRUE)
    BY <2>1, DialedLoadedDoes DEF OnModelReset
  <2> QED BY <2>2, <2>3, WritesDo, WriteFirstDoes DEF DialedTypes
<1>5. CASE Stop
  BY <1>5 DEF Stop, DialedStops, DialedTypes
<1> QED BY <1>1, <1>2, <1>3, <1>4, <1>5 DEF Next

-----------------------------------------------------------------------------
(* The call models *)

TypesInv == TypeOK /\ ListedModelsWait

LEMMA TypesStep == TypesInv /\ [Next]_vars => TypesInv'
<1> SUFFICES ASSUME TypesInv, [Next]_vars PROVE TypesInv'
  OBVIOUS
<1>1. ManagerTypes /\ EventStoreTypes /\ OpsInv /\ FileTypes /\ AgentTypes /\ DialedTypes
  BY FileTypesDef DEF TypesInv, TypeOK, OpsInv
<1>2. ManagerTypes'
  BY <1>1, ManagerStep
<1>3. EventStoreTypes' /\ stuck' \subseteq Messages
  BY <1>1, StoreStep
<1>4. OpsInv'
  BY <1>1, OpsStep
<1>5. AgentTypes'
  BY <1>1, AgentStep
<1>6. FileTypes'
  BY <1>3, <1>5 DEF FileTypes, AgentTypes
<1>7. DialedTypes'
  BY <1>1, DialedStep
<1> QED BY <1>2, <1>3, <1>4, <1>6, <1>7 DEF TypesInv, TypeOK, OpsInv

LEMMA TypesInit == Init => TypesInv
<1> SUFFICES ASSUME Init PROVE TypesInv
  OBVIOUS
<1>1. ManagerTypes
  BY BoundsAssumption DEF Init, ManagerInit, ManagerTypes
<1>2. EventStoreTypes
  <2>1. \A e \in rows \cap Messages : Owner[e] \in Accounts
    BY StoreAssumption DEF Events
  <2>2. bus \in Seq(Signals)
    BY EmptySeq DEF Init
  <2> QED BY <2>1, <2>2, OldAssumption DEF Init, EventStoreTypes
<1>3. OpsTypes
  <2>1. watching \in BOOLEAN /\ watched \subseteq Accounts /\ groupModel \in {"none", "loading"}
        /\ pathsForConvs = {} /\ due = {} /\ excused = {}
    BY AskedTypes DEF Init, OpsInit, ManagerInit
  <2>2. pathsForCalls = [a \in Accounts |-> 0] /\ models = [i \in 1 .. MaxModels |-> NoModel]
    BY DEF Init, OpsInit
  <2> QED BY <2>1, <2>2, NoneListed DEF OpsTypes
<1>4. ListedModelsWait
  BY DEF Init, OpsInit, ListedModelsWait
<1>5. FileTypes
  BY Counts DEF Init, FilesInit, FileTypes
<1>6. DialedTypes
  BY DEF Init, DialedInit, DialedTypes
<1> QED BY <1>1, <1>2, <1>3, <1>4, <1>5, <1>6 DEF TypesInv, TypeOK

\* The state is of its type, and a call model that slotAccountRemoved listed for an
\* account is of that account, and loading or with calls that were asked to be deleted:
\* slotRowsRemoved and slotDeleteCalls leave none for which no answer can come, however
\* accounts are removed, created and removed again, and calls come and go.
THEOREM Models == Spec => []ModelsAreSound
<1>1. TypesInv => ModelsAreSound
  BY DEF TypesInv, ModelsAreSound
<1> QED BY <1>1, TypesInit, TypesStep, PTL DEF Spec

-----------------------------------------------------------------------------
(* The number that was dialled last *)

\* The calls of the log are in the order of their time.
LEMMA LaterOrder ==
  /\ \A k : ~Later(k, k)
  /\ \A k, l, m : Later(k, l) /\ Later(l, m) => Later(k, m)
<1>1. DOMAIN CallLog \subseteq Int
  BY StoreAssumption, LenProperties
<1>2. \A i, j \in DOMAIN CallLog : CallLog[i] = CallLog[j] => i = j
  BY StoreAssumption
<1>3. ASSUME NEW k, Later(k, k) PROVE FALSE
  BY <1>1, <1>2, <1>3 DEF Later
<1>4. ASSUME NEW k, NEW l, NEW m, Later(k, l), Later(l, m) PROVE Later(k, m)
  <2>1. PICK i, j \in DOMAIN CallLog : i > j /\ CallLog[i] = k /\ CallLog[j] = l
    BY <1>4 DEF Later
  <2>2. PICK i1, j1 \in DOMAIN CallLog : i1 > j1 /\ CallLog[i1] = l /\ CallLog[j1] = m
    BY <1>4 DEF Later
  <2>3. j = i1
    BY <1>2, <2>1, <2>2
  <2>4. i > j1
    BY <1>1, <2>1, <2>2, <2>3
  <2> QED BY <2>1, <2>2, <2>4 DEF Later
<1> QED BY <1>3, <1>4

\* What the bus still tells of the calls: a call that was added is there, or its
\* deletion comes behind, and what was stored after it is told behind it.
CallsAreTold ==
  /\ rows \subseteq known
  /\ ~up => bus = <<>> /\ ~dialedReady
  /\ \A i \in DOMAIN bus : bus[i].kind = "added" /\ bus[i].ev \in Dialled =>
       /\ bus[i].ev \in known
       /\ bus[i].ev \in rows \/ \E j \in DOMAIN bus : j > i /\ bus[j] = Deleted(bus[i].ev)
       /\ \A k \in known \cap Dialled : Later(k, bus[i].ev) =>
            \E j \in DOMAIN bus : j > i /\ bus[j] = Added(k)
  /\ \A i \in DOMAIN bus : bus[i].kind = "deleted" /\ bus[i].ev \in Dialled =>
       bus[i].ev \in known \ rows

\* What the model does not know yet is on the bus.
RowsAreTold ==
  /\ ~dialedReady => dialedRows = {}
  /\ \A m \in dialedRows :
       /\ m \in rows \/ \E i \in DOMAIN bus : bus[i] = Deleted(m)
       /\ \A k \in (rows \cap Dialled) \ dialedRows :
            Later(k, m) => \E i \in DOMAIN bus : bus[i] = Added(k)

\* The file names the first row.
FileIsFirst ==
  dialedReady /\ ~stale =>
    IF dialedRows = {} THEN file = NoEvent ELSE file \in Newest(dialedRows)

DialInv == CallsAreTold /\ RowsAreTold /\ FileIsFirst

BusIsSeq == bus \in Seq(Signals) /\ rows \subseteq known /\ known \subseteq Events
            /\ dialedRows \subseteq Dialled

LEMMA SignalFields ==
  \A e : /\ Added(e).kind = "added" /\ Added(e).ev = e
         /\ Deleted(e).kind = "deleted" /\ Deleted(e).ev = e
BY DEF Added, Deleted

\* The log loses the calls S, and the signals s tell of them and of no other call.
Loses(S, s) ==
  /\ S \subseteq rows \cap Dialled
  /\ rows' \subseteq known'
  /\ rows' \cap Dialled = (rows \cap Dialled) \ S
  /\ known' \cap Dialled = known \cap Dialled
  /\ s \in Seq(Signals) /\ bus' = Emitted(s)
  /\ \A i \in DOMAIN s : s[i].ev \in Dialled => \E m \in S : s[i] = Deleted(m)
  /\ \A m \in S : \E i \in DOMAIN s : s[i] = Deleted(m)
  /\ UNCHANGED <<up, dialedVars>>

\* Without a daemon nothing is told, and no model is there.
LEMMA NobodyThere ==
  ASSUME DialInv, ~up, bus' = bus, rows' \subseteq known', UNCHANGED <<up, dialedVars>>
  PROVE  DialInv'
<1>1. bus' = <<>> /\ ~dialedReady' /\ dialedRows' = {} /\ ~up'
  BY DEF DialInv, CallsAreTold, RowsAreTold, dialedVars
<1>2. DOMAIN bus' = {}
  BY <1>1
<1> QED BY <1>1, <1>2 DEF DialInv, CallsAreTold, RowsAreTold, FileIsFirst

LEMMA LosesStep ==
  ASSUME DialInv, BusIsSeq, NEW S, NEW s, Loses(S, s)
  PROVE  DialInv'
<1>1. CASE ~up
  BY <1>1, NobodyThere DEF Loses, Emitted
<1>2. CASE up
  <2>1. /\ bus \in Seq(Signals) /\ s \in Seq(Signals) /\ bus' = bus \o s
    BY <1>2 DEF BusIsSeq, Loses, Emitted
  <2>2. /\ \A i \in DOMAIN bus : i \in DOMAIN bus' /\ bus'[i] = bus[i]
        /\ \A j \in DOMAIN s : \E i \in DOMAIN bus' :
             bus'[i] = s[j] /\ \A k \in DOMAIN bus : i > k
        /\ \A i \in DOMAIN bus' : i \in DOMAIN bus \/ \E j \in DOMAIN s : bus'[i] = s[j]
    BY <2>1, Appended
  <2>3. \A m \in S : \E i \in DOMAIN bus' : bus'[i] = Deleted(m) /\ \A k \in DOMAIN bus : i > k
    BY <2>2 DEF Loses
  <2>4. \A i \in DOMAIN bus' : bus'[i].ev \in Dialled =>
          i \in DOMAIN bus \/ \E m \in S : bus'[i] = Deleted(m)
    BY <2>2 DEF Loses
  <2>5. CallsAreTold'
    <3>1. rows' \subseteq known' /\ (~up' => bus' = <<>> /\ ~dialedReady')
      BY <1>2 DEF Loses
    <3>2. ASSUME NEW i \in DOMAIN bus', bus'[i].kind = "added", bus'[i].ev \in Dialled
          PROVE  /\ bus'[i].ev \in known'
                 /\ bus'[i].ev \in rows' \/ \E j \in DOMAIN bus' : j > i /\ bus'[j] = Deleted(bus'[i].ev)
                 /\ \A k \in known' \cap Dialled : Later(k, bus'[i].ev) =>
                      \E j \in DOMAIN bus' : j > i /\ bus'[j] = Added(k)
      <4> DEFINE e == bus'[i].ev
      <4>1. i \in DOMAIN bus /\ bus[i] = bus'[i]
        BY <2>2, <2>4, <3>2, SignalFields
      <4>2. /\ e \in known
            /\ e \in rows \/ \E j \in DOMAIN bus : j > i /\ bus[j] = Deleted(e)
            /\ \A k \in known \cap Dialled : Later(k, e) =>
                 \E j \in DOMAIN bus : j > i /\ bus[j] = Added(k)
        BY <3>2, <4>1 DEF DialInv, CallsAreTold
      <4>3. e \in Dialled
        BY <3>2
      <4> HIDE DEF e
      <4>4. e \in known'
        BY <4>2, <4>3 DEF Loses
      <4>5. e \in rows' \/ \E j \in DOMAIN bus' : j > i /\ bus'[j] = Deleted(e)
        <5>1. CASE e \in S
          BY <2>3, <4>1, <5>1
        <5>2. CASE e \in rows /\ e \notin S
          BY <4>3, <5>2 DEF Loses
        <5>3. CASE \E j \in DOMAIN bus : j > i /\ bus[j] = Deleted(e)
          BY <2>2, <5>3
        <5> QED BY <4>2, <5>1, <5>2, <5>3
      <4>6. \A k \in known' \cap Dialled : Later(k, e) =>
              \E j \in DOMAIN bus' : j > i /\ bus'[j] = Added(k)
        BY <2>2, <4>2 DEF Loses
      <4> QED BY <4>4, <4>5, <4>6 DEF e
    <3>3. ASSUME NEW i \in DOMAIN bus', bus'[i].kind = "deleted", bus'[i].ev \in Dialled
          PROVE  bus'[i].ev \in known' \ rows'
      <4>1. CASE i \in DOMAIN bus
        <5>1. bus'[i].ev \in known \ rows
          BY <2>2, <3>3, <4>1 DEF DialInv, CallsAreTold
        <5> QED BY <3>3, <5>1 DEF Loses
      <4>2. CASE \E m \in S : bus'[i] = Deleted(m)
        <5>1. bus'[i].ev \in S
          BY <4>2, SignalFields
        <5> QED BY <5>1 DEF Loses, BusIsSeq
      <4> QED BY <2>4, <3>3, <4>1, <4>2
    <3> QED BY <3>1, <3>2, <3>3 DEF CallsAreTold
  <2>6. RowsAreTold'
    <3>1. dialedRows' = dialedRows /\ dialedReady' = dialedReady /\ dialedRows \subseteq Dialled
      BY DEF Loses, BusIsSeq, dialedVars
    <3>2. ASSUME NEW m \in dialedRows
          PROVE  m \in rows' \/ \E i \in DOMAIN bus' : bus'[i] = Deleted(m)
      <4>1. m \in rows \/ \E i \in DOMAIN bus : bus[i] = Deleted(m)
        BY <3>2 DEF DialInv, RowsAreTold
      <4> QED BY <2>2, <2>3, <3>1, <4>1 DEF Loses
    <3>3. ASSUME NEW m \in dialedRows, NEW k \in (rows' \cap Dialled) \ dialedRows, Later(k, m)
          PROVE  \E i \in DOMAIN bus' : bus'[i] = Added(k)
      <4>1. k \in (rows \cap Dialled) \ dialedRows
        BY DEF Loses
      <4>2. \E i \in DOMAIN bus : bus[i] = Added(k)
        BY <3>3, <4>1 DEF DialInv, RowsAreTold
      <4> QED BY <2>2, <4>2
    <3> QED BY <3>1, <3>2, <3>3 DEF DialInv, RowsAreTold
  <2>7. FileIsFirst'
    BY DEF Loses, dialedVars, DialInv, FileIsFirst, Newest
  <2> QED BY <2>5, <2>6, <2>7 DEF DialInv
<1> QED BY <1>1, <1>2

\* A call is stored: no call of the log was later.
LEMMA CallStoredStep ==
  ASSUME DialInv, BusIsSeq, NEW e \in Dialled, Stored(e), UNCHANGED <<up, dialedVars>>
  PROVE  DialInv'
<1>1. /\ e \notin known /\ rows' = rows \cup {e} /\ known' = known \cup {e}
      /\ bus' = Emitted(<<Added(e)>>)
  BY DEF Stored
<1>2. \A k \in known : ~Later(k, e)
  <2> SUFFICES ASSUME NEW k \in known, Later(k, e) PROVE FALSE
    OBVIOUS
  <2>1. PICK i, j \in DOMAIN CallLog : i > j /\ CallLog[i] = k /\ CallLog[j] = e
    BY DEF Later
  <2>2. i < j
    BY <2>1 DEF Stored
  <2>3. DOMAIN CallLog \subseteq Int
    BY StoreAssumption, LenProperties
  <2> QED BY <2>1, <2>2, <2>3
<1>3. CASE ~up
  BY <1>1, <1>3, NobodyThere DEF Emitted, BusIsSeq
<1>4. CASE up
  <2>1. bus \in Seq(Signals) /\ <<Added(e)>> \in Seq(Signals) /\ bus' = bus \o <<Added(e)>>
        /\ DOMAIN <<Added(e)>> = {1} /\ <<Added(e)>>[1] = Added(e)
    BY <1>1, <1>4, SignalTypes, Singles DEF BusIsSeq, Emitted, Events
  <2>2. /\ \A i \in DOMAIN bus : i \in DOMAIN bus' /\ bus'[i] = bus[i]
        /\ \E i \in DOMAIN bus' : bus'[i] = Added(e) /\ \A k \in DOMAIN bus : i > k
        /\ \A i \in DOMAIN bus' : i \in DOMAIN bus \/ bus'[i] = Added(e)
    <3> DEFINE s == <<Added(e)>>
    <3>1. s \in Seq(Signals) /\ bus' = bus \o s /\ DOMAIN s = {1} /\ s[1] = Added(e)
      BY <2>1
    <3> HIDE DEF s
    <3> QED BY <2>1, <3>1, Appended
  <2>3. CallsAreTold'
    <3>1. rows' \subseteq known' /\ (~up' => bus' = <<>> /\ ~dialedReady')
      BY <1>1, <1>4 DEF BusIsSeq
    <3>2. ASSUME NEW i \in DOMAIN bus', bus'[i].kind = "added", bus'[i].ev \in Dialled
          PROVE  /\ bus'[i].ev \in known'
                 /\ bus'[i].ev \in rows' \/ \E j \in DOMAIN bus' : j > i /\ bus'[j] = Deleted(bus'[i].ev)
                 /\ \A k \in known' \cap Dialled : Later(k, bus'[i].ev) =>
                      \E j \in DOMAIN bus' : j > i /\ bus'[j] = Added(k)
      <4> DEFINE f == bus'[i].ev
      <4>1. CASE i \in DOMAIN bus
        <5>1. /\ f \in known
              /\ f \in rows \/ \E j \in DOMAIN bus : j > i /\ bus[j] = Deleted(f)
              /\ \A k \in known \cap Dialled : Later(k, f) =>
                   \E j \in DOMAIN bus : j > i /\ bus[j] = Added(k)
          BY <2>2, <3>2, <4>1 DEF DialInv, CallsAreTold
        <5> HIDE DEF f
        <5>2. f \in known' /\ (f \in rows' \/ \E j \in DOMAIN bus' : j > i /\ bus'[j] = Deleted(f))
          BY <1>1, <2>2, <5>1
        <5>3. \A k \in known' \cap Dialled : Later(k, f) =>
                \E j \in DOMAIN bus' : j > i /\ bus'[j] = Added(k)
          BY <1>1, <2>2, <4>1, <5>1
        <5> QED BY <5>2, <5>3 DEF f
      <4>2. CASE bus'[i] = Added(e)
        <5>1. f = e
          BY <4>2, SignalFields
        <5> HIDE DEF f
        <5>2. f \in known' /\ f \in rows'
          BY <1>1, <5>1
        <5>3. \A k \in known' : ~Later(k, f)
          BY <1>1, <1>2, <5>1, LaterOrder
        <5> QED BY <5>2, <5>3 DEF f
      <4> QED BY <2>2, <4>1, <4>2
    <3>3. ASSUME NEW i \in DOMAIN bus', bus'[i].kind = "deleted", bus'[i].ev \in Dialled
          PROVE  bus'[i].ev \in known' \ rows'
      <4>1. i \in DOMAIN bus
        BY <2>2, <3>3, SignalFields
      <4>2. bus'[i].ev \in known \ rows
        BY <2>2, <3>3, <4>1 DEF DialInv, CallsAreTold
      <4> QED BY <1>1, <4>2
    <3> QED BY <3>1, <3>2, <3>3 DEF CallsAreTold
  <2>4. RowsAreTold'
    <3>1. dialedRows' = dialedRows /\ dialedReady' = dialedReady
      BY DEF dialedVars
    <3> QED BY <1>1, <2>2, <3>1 DEF DialInv, RowsAreTold
  <2>5. FileIsFirst'
    BY DEF dialedVars, DialInv, FileIsFirst, Newest
  <2> QED BY <2>3, <2>4, <2>5 DEF DialInv
<1> QED BY <1>3, <1>4

LEMMA DialUnchanged ==
  DialInv /\ UNCHANGED <<up, rows, known, bus, dialedVars>> => DialInv'
BY DEF DialInv, CallsAreTold, RowsAreTold, FileIsFirst, Newest, dialedVars

\* What happens to messages tells nothing of calls.
LEMMA MessagesOnly ==
  ASSUME DialInv, BusIsSeq, rows' \subseteq known', UNCHANGED <<up, dialedVars>>,
         rows' \cap Dialled = rows \cap Dialled, known' \cap Dialled = known \cap Dialled,
         NEW s \in Seq(Signals), bus' = Emitted(s), \A i \in DOMAIN s : s[i].ev \notin Dialled
  PROVE  DialInv'
<1>1. Loses({}, s)
  BY DEF Loses
<1> QED BY <1>1, LosesStep

LEMMA WithoutGroupsDials ==
  ASSUME DialInv, BusIsSeq, NEW S, WithoutGroups(S), UNCHANGED <<up, dialedVars>>
  PROVE  DialInv'
<1>1. /\ rows' \subseteq known' /\ rows' \cap Dialled = rows \cap Dialled
      /\ known' = known /\ bus' = Emitted(<<GroupsDeleted>>)
  BY StoreAssumption DEF WithoutGroups, BusIsSeq
<1> DEFINE s == <<GroupsDeleted>>
<1>2. s \in Seq(Signals) /\ DOMAIN s = {1} /\ s[1] = GroupsDeleted
  BY SignalTypes, Singles
<1>3. GroupsDeleted.ev \notin Dialled
  BY StoreAssumption DEF GroupsDeleted, Events
<1> HIDE DEF s
<1>4. \A i \in DOMAIN s : s[i].ev \notin Dialled
  BY <1>2, <1>3
<1>5. bus' = Emitted(s)
  BY <1>1 DEF s
<1> QED BY <1>1, <1>2, <1>4, <1>5, MessagesOnly

\* A message that comes, goes or moves.
LEMMA MessageDials ==
  ASSUME DialInv, BusIsSeq, NEW e \in Messages, UNCHANGED <<up, dialedVars>>,
         rows' = rows \/ rows' = rows \ {e} \/ rows' = rows \cup {e},
         rows' \subseteq known', known' = known \/ known' = known \cup {e},
         \/ bus' = Emitted(<<Added(e)>>) \/ bus' = Emitted(<<Deleted(e)>>)
         \/ bus' = Emitted(<<Added(e), Deleted(e)>>) \/ bus' = Emitted(<<Deleted(e), Added(e)>>)
  PROVE  DialInv'
<1>1. e \notin Dialled /\ e \in Events
  BY StoreAssumption DEF Events
<1>2. rows' \cap Dialled = rows \cap Dialled /\ known' \cap Dialled = known \cap Dialled
  BY <1>1
<1>3. Added(e) \in Signals /\ Deleted(e) \in Signals
      /\ Added(e).ev \notin Dialled /\ Deleted(e).ev \notin Dialled
  BY <1>1, SignalTypes, SignalFields
<1>4. ASSUME NEW a \in {Added(e), Deleted(e)}
      PROVE  <<a>> \in Seq(Signals) /\ \A i \in DOMAIN <<a>> : <<a>>[i].ev \notin Dialled
  BY <1>3, <1>4
<1>5. ASSUME NEW a \in {Added(e), Deleted(e)}, NEW b \in {Added(e), Deleted(e)}
      PROVE  <<a, b>> \in Seq(Signals) /\ \A i \in DOMAIN <<a, b>> : <<a, b>>[i].ev \notin Dialled
  BY <1>3, <1>5
<1>6. PICK s \in Seq(Signals) : bus' = Emitted(s) /\ \A i \in DOMAIN s : s[i].ev \notin Dialled
  <2>1. <<Added(e)>> \in Seq(Signals) /\ \A i \in DOMAIN <<Added(e)>> : <<Added(e)>>[i].ev \notin Dialled
    BY <1>4
  <2>2. <<Deleted(e)>> \in Seq(Signals)
        /\ \A i \in DOMAIN <<Deleted(e)>> : <<Deleted(e)>>[i].ev \notin Dialled
    BY <1>4
  <2>3. <<Added(e), Deleted(e)>> \in Seq(Signals)
        /\ \A i \in DOMAIN <<Added(e), Deleted(e)>> : <<Added(e), Deleted(e)>>[i].ev \notin Dialled
    BY <1>5
  <2>4. <<Deleted(e), Added(e)>> \in Seq(Signals)
        /\ \A i \in DOMAIN <<Deleted(e), Added(e)>> : <<Deleted(e), Added(e)>>[i].ev \notin Dialled
    BY <1>5
  <2>5. CASE bus' = Emitted(<<Added(e)>>)
    BY <2>1, <2>5
  <2>6. CASE bus' = Emitted(<<Deleted(e)>>)
    BY <2>2, <2>6
  <2>7. CASE bus' = Emitted(<<Added(e), Deleted(e)>>)
    BY <2>3, <2>7
  <2>8. CASE bus' = Emitted(<<Deleted(e), Added(e)>>)
    BY <2>4, <2>8
  <2> QED BY <2>5, <2>6, <2>7, <2>8
<1> QED BY <1>2, <1>6, MessagesOnly

LEMMA LogChangesDials ==
  ASSUME DialInv, BusIsSeq, LogChanges
  PROVE  DialInv'
<1>1. UNCHANGED <<up, dialedVars>>
  BY DEF LogChanges, processVars
<1>2. ASSUME NEW e \in Events, StoresEvent(e) PROVE DialInv'
  <2>1. Stored(e)
    BY <1>2 DEF StoresEvent
  <2>2. CASE e \in Dialled
    BY <1>1, <2>1, <2>2, CallStoredStep
  <2>3. CASE e \in Messages
    <3>1. rows' = rows \cup {e} /\ known' = known \cup {e} /\ bus' = Emitted(<<Added(e)>>)
      BY <2>1 DEF Stored
    <3>2. rows' \subseteq known'
      BY <3>1 DEF BusIsSeq
    <3> QED BY <1>1, <2>3, <3>1, <3>2, MessageDials
  <2> QED BY <2>2, <2>3 DEF Events
<1>3. ASSUME NEW e \in Events, DeletesEvent(e) PROVE DialInv'
  <2>1. /\ e \in rows /\ rows' = rows \ {e} /\ known' = known /\ bus' = Emitted(<<Deleted(e)>>)
        /\ rows' \subseteq known'
    BY <1>3 DEF DeletesEvent, BusIsSeq
  <2>2. CASE e \in Dialled
    <3> DEFINE s == <<Deleted(e)>>
    <3>1. s \in Seq(Signals) /\ DOMAIN s = {1} /\ s[1] = Deleted(e)
      BY SignalTypes, Singles
    <3>2. bus' = Emitted(s)
      BY <2>1
    <3> HIDE DEF s
    <3>3. Loses({e}, s)
      BY <1>1, <2>1, <2>2, <3>1, <3>2 DEF Loses
    <3> QED BY <3>3, LosesStep
  <2>3. CASE e \in Messages
    BY <1>1, <2>1, <2>3, MessageDials
  <2> QED BY <2>2, <2>3 DEF Events
<1>4. ASSUME NEW e \in Events, MovesEvent(e) PROVE DialInv'
  <2>1. e \in Messages /\ rows' = rows /\ known' = known /\ bus' = Emitted(<<Deleted(e), Added(e)>>)
        /\ rows' \subseteq known'
    BY <1>4 DEF MovesEvent, BusIsSeq
  <2> QED BY <1>1, <2>1, MessageDials
<1>5. ASSUME NEW a, DeletesConversation(a) PROVE DialInv'
  BY <1>1, <1>5, WithoutGroupsDials DEF DeletesConversation
<1> QED BY <1>2, <1>3, <1>4, <1>5 DEF LogChanges

LEMMA DeleteConversationsDials ==
  ASSUME DialInv, BusIsSeq, NEW paths, NEW listed, DeleteConversations(paths, listed),
         UNCHANGED <<up, dialedVars>>
  PROVE  DialInv'
<1>1. WithoutGroups(paths \cap listed) \/ UNCHANGED <<rows, known, conversations, bus>>
  BY DEF DeleteConversations
<1> QED BY <1>1, WithoutGroupsDials, DialUnchanged

LEMMA RemovesAccountDials ==
  ASSUME DialInv, BusIsSeq, NEW a, RemovesAccount(a)
  PROVE  DialInv'
<1>1. /\ UNCHANGED <<up, dialedVars>>
      /\ \/ DeleteConversations(Kept(a), conversations)
         \/ UNCHANGED <<rows, known, bus>>
  BY DEF RemovesAccount, processVars, SlotAccountRemoved, storeVars
<1> QED BY <1>1, DeleteConversationsDials, DialUnchanged

LEMMA OpsTurnDials ==
  ASSUME DialInv, BusIsSeq, OpsTurn
  PROVE  DialInv'
<1>1. UNCHANGED <<up, dialedVars>>
  BY DEF OpsTurn, processVars
<1>2. CASE UNCHANGED storeVars
  BY <1>1, <1>2, DialUnchanged DEF storeVars
<1>3. CASE GroupsLoaded
  BY <1>1, <1>3, DeleteConversationsDials DEF GroupsLoaded
<1>4. ASSUME NEW i, DeleteCalls(i) PROVE DialInv'
  <2>1. PICK T : /\ T \subseteq rows \cap Dialled /\ rows' = rows \ T
                 /\ bus' = Emitted(DeletedEach(T)) /\ known' = known
    BY <1>4, DeleteCallsDoes
  <2>2. Loses(T, DeletedEach(T))
    BY <1>1, <2>1, DeletedEachProperties DEF Loses, BusIsSeq
  <2> QED BY <2>2, LosesStep
<1> QED BY <1>2, <1>3, <1>4 DEF OpsTurn

LEMMA FilesTurnDials ==
  ASSUME DialInv, BusIsSeq, FilesTurn
  PROVE  DialInv'
<1>1. UNCHANGED <<up, dialedVars>>
  BY DEF FilesTurn, processVars
<1>2. PICK e \in Messages : OnReceiveBusinessCard(e)
  BY DEF FilesTurn, StoresCard
<1>3. CASE UNCHANGED <<rows, known, bus>>
  BY <1>1, <1>3, DialUnchanged
<1>4. CASE /\ known' = known \cup {e}
           /\ rows' = rows \/ rows' = rows \cup {e}
           /\ bus' = Emitted(<<Added(e)>>) \/ bus' = Emitted(<<Added(e), Deleted(e)>>)
  <2>1. rows' \subseteq known'
    BY <1>4 DEF BusIsSeq
  <2> QED BY <1>1, <1>4, <2>1, MessageDials
<1> QED BY <1>2, <1>3, <1>4, CardDoes DEF storeVars

-----------------------------------------------------------------------------
(* The model of the dialled calls *)

\* A signal is heard: CallsAreTold, of the signals behind it.
LEMMA HeardCalls ==
  ASSUME DialInv, BusIsSeq, bus # <<>>, bus' = Tail(bus),
         UNCHANGED <<up, rows, known, dialedReady>>
  PROVE  CallsAreTold'
<1>1. /\ \A i \in DOMAIN bus' : i + 1 \in DOMAIN bus /\ bus'[i] = bus[i + 1]
      /\ \A i \in DOMAIN bus : i > 1 => i - 1 \in DOMAIN bus' /\ bus'[i - 1] = bus[i]
      /\ DOMAIN bus \subseteq Int /\ DOMAIN bus' \subseteq Int
  BY Heard DEF BusIsSeq
<1>2. rows' \subseteq known' /\ up'
  BY DEF DialInv, CallsAreTold
<1>3. ASSUME NEW i \in DOMAIN bus', NEW j \in DOMAIN bus, j > i + 1
      PROVE  \E l \in DOMAIN bus' : l > i /\ bus'[l] = bus[j]
  <2>1. i \in Int /\ j \in Int /\ i >= 1
    <3>1. DOMAIN bus' = 1 .. Len(bus')
      BY Heard, LenProperties DEF BusIsSeq
    <3> QED BY <1>1, <3>1
  <2>2. j > 1 /\ j - 1 > i
    BY <1>3, <2>1
  <2>3. j - 1 \in DOMAIN bus' /\ bus'[j - 1] = bus[j]
    BY <1>1, <2>2
  <2> QED BY <2>2, <2>3
<1>4. ASSUME NEW i \in DOMAIN bus', bus'[i].kind = "added", bus'[i].ev \in Dialled
      PROVE  /\ bus'[i].ev \in known'
             /\ bus'[i].ev \in rows' \/ \E j \in DOMAIN bus' : j > i /\ bus'[j] = Deleted(bus'[i].ev)
             /\ \A k \in known' \cap Dialled : Later(k, bus'[i].ev) =>
                  \E j \in DOMAIN bus' : j > i /\ bus'[j] = Added(k)
  <2> DEFINE e == bus'[i].ev
             n == i + 1
  <2>1. n \in DOMAIN bus /\ bus[n] = bus'[i]
    BY <1>1
  <2>2. /\ e \in known
        /\ e \in rows \/ \E j \in DOMAIN bus : j > n /\ bus[j] = Deleted(e)
        /\ \A k \in known \cap Dialled : Later(k, e) =>
             \E j \in DOMAIN bus : j > n /\ bus[j] = Added(k)
    BY <1>4, <2>1 DEF DialInv, CallsAreTold
  <2>3. \A j \in DOMAIN bus : j > n => \E l \in DOMAIN bus' : l > i /\ bus'[l] = bus[j]
    BY <1>3
  <2> HIDE DEF e, n
  <2>4. /\ e \in known' /\ (e \in rows' \/ \E j \in DOMAIN bus' : j > i /\ bus'[j] = Deleted(e))
        /\ \A k \in known' \cap Dialled : Later(k, e) =>
             \E j \in DOMAIN bus' : j > i /\ bus'[j] = Added(k)
    BY <2>2, <2>3
  <2> QED BY <2>4 DEF e
<1>5. ASSUME NEW i \in DOMAIN bus', bus'[i].kind = "deleted", bus'[i].ev \in Dialled
      PROVE  bus'[i].ev \in known' \ rows'
  BY <1>1, <1>5 DEF DialInv, CallsAreTold
<1> QED BY <1>2, <1>4, <1>5 DEF CallsAreTold

\* What the model does with a signal, by its kind.
LEMMA DialedHearsDoes ==
  ASSUME NEW sig, DialedHears(sig)
  PROVE  /\ UNCHANGED dialedReady
         /\ \/ /\ sig.kind = "added" /\ dialedReady /\ sig.ev \in Dialled \ dialedRows
               /\ dialedRows' = dialedRows \cup {sig.ev}
               /\ IF InsertedFirst(sig.ev) THEN WriteLastDialed(sig.ev) ELSE UNCHANGED <<file, stale>>
            \/ /\ sig.kind = "deleted" /\ sig.ev \in dialedRows
               /\ dialedRows' = dialedRows \ {sig.ev}
               /\ OnRowsRemoved(sig.ev)
            \/ /\ ~(sig.kind = "added" /\ dialedReady /\ sig.ev \in Dialled \ dialedRows)
               /\ ~(sig.kind = "deleted" /\ sig.ev \in dialedRows)
               /\ UNCHANGED <<dialedRows, file, stale>>
BY DEF DialedHears

LEMMA HeardRows ==
  ASSUME DialInv, BusIsSeq, bus # <<>>, bus' = Tail(bus), DialedHears(Head(bus)),
         UNCHANGED <<up, rows, known>>
  PROVE  RowsAreTold'
<1> DEFINE sig == Head(bus)
<1>1. /\ \A i \in DOMAIN bus : i > 1 => i - 1 \in DOMAIN bus' /\ bus'[i - 1] = bus[i]
      /\ bus[1] = sig /\ 1 \in DOMAIN bus /\ sig \in Signals
  BY Heard DEF BusIsSeq
<1>2. \A i \in DOMAIN bus : i > 1 => \E j \in DOMAIN bus' : bus'[j] = bus[i]
  BY <1>1
<1>3. \A i \in DOMAIN bus : i = 1 \/ i > 1
  <2>1. DOMAIN bus = 1 .. Len(bus)
    BY LenProperties DEF BusIsSeq
  <2> QED BY <2>1
<1>4. \A x : (\E i \in DOMAIN bus : bus[i] = x) => sig = x \/ \E j \in DOMAIN bus' : bus'[j] = x
  BY <1>1, <1>2, <1>3
<1>5. /\ dialedReady' = dialedReady
      /\ ~dialedReady => dialedRows = {}
      /\ \A m \in dialedRows : m \in rows \/ \E i \in DOMAIN bus : bus[i] = Deleted(m)
      /\ \A m \in dialedRows : \A k \in (rows \cap Dialled) \ dialedRows :
           Later(k, m) => \E i \in DOMAIN bus : bus[i] = Added(k)
  BY DialedHearsDoes DEF DialInv, RowsAreTold
<1>6. sig = Added(sig.ev) \/ sig.kind # "added"
  BY <1>1 DEF Signals, Added, GroupsDeleted
<1>7. sig = Deleted(sig.ev) \/ sig.kind # "deleted"
  BY <1>1 DEF Signals, Deleted, GroupsDeleted
<1>8. CASE /\ sig.kind = "added" /\ dialedReady /\ sig.ev \in Dialled \ dialedRows
           /\ dialedRows' = dialedRows \cup {sig.ev}
  <2>1. /\ sig.ev \in rows \/ \E j \in DOMAIN bus : j > 1 /\ bus[j] = Deleted(sig.ev)
        /\ \A k \in known \cap Dialled : Later(k, sig.ev) =>
             \E j \in DOMAIN bus : j > 1 /\ bus[j] = Added(k)
    BY <1>1, <1>8 DEF DialInv, CallsAreTold
  <2>2. ASSUME NEW m \in dialedRows'
        PROVE  m \in rows' \/ \E i \in DOMAIN bus' : bus'[i] = Deleted(m)
    <3>1. CASE m = sig.ev
      BY <1>2, <2>1, <3>1
    <3>2. CASE m \in dialedRows
      BY <1>4, <1>5, <1>8, <3>2, SignalFields
    <3> QED BY <1>8, <2>2, <3>1, <3>2
  <2>3. ASSUME NEW m \in dialedRows', NEW k \in (rows' \cap Dialled) \ dialedRows', Later(k, m)
        PROVE  \E i \in DOMAIN bus' : bus'[i] = Added(k)
    <3>1. k \in known \cap Dialled /\ k \in (rows \cap Dialled) \ dialedRows /\ k # sig.ev
      BY <1>8, <2>3 DEF BusIsSeq
    <3>2. CASE m = sig.ev
      BY <1>2, <2>1, <2>3, <3>1, <3>2
    <3>3. CASE m \in dialedRows
      <4>1. \E i \in DOMAIN bus : bus[i] = Added(k)
        BY <1>5, <2>3, <3>1, <3>3
      <4>2. sig # Added(k)
        BY <3>1, SignalFields
      <4> QED BY <1>4, <4>1, <4>2
    <3> QED BY <1>8, <2>3, <3>2, <3>3
  <2> QED BY <1>5, <1>8, <2>2, <2>3 DEF RowsAreTold
<1>9. CASE /\ sig.kind = "deleted" /\ sig.ev \in dialedRows
           /\ dialedRows' = dialedRows \ {sig.ev}
  <2>1. sig.ev \notin rows
    BY <1>1, <1>9 DEF DialInv, CallsAreTold, BusIsSeq
  <2>2. ASSUME NEW m \in dialedRows'
        PROVE  m \in rows' \/ \E i \in DOMAIN bus' : bus'[i] = Deleted(m)
    BY <1>4, <1>5, <1>9, <2>2, SignalFields
  <2>3. ASSUME NEW m \in dialedRows', NEW k \in (rows' \cap Dialled) \ dialedRows', Later(k, m)
        PROVE  \E i \in DOMAIN bus' : bus'[i] = Added(k)
    <3>1. k \in (rows \cap Dialled) \ dialedRows /\ m \in dialedRows
      BY <1>9, <2>1, <2>3
    <3>2. \E i \in DOMAIN bus : bus[i] = Added(k)
      BY <1>5, <2>3, <3>1
    <3>3. sig # Added(k)
      BY <1>9, SignalFields
    <3> QED BY <1>4, <3>2, <3>3
  <2> QED BY <1>5, <1>9, <2>2, <2>3 DEF RowsAreTold
<1>10. CASE /\ ~(sig.kind = "added" /\ dialedReady /\ sig.ev \in Dialled \ dialedRows)
            /\ ~(sig.kind = "deleted" /\ sig.ev \in dialedRows)
            /\ dialedRows' = dialedRows
  <2>1. ASSUME NEW m \in dialedRows
        PROVE  m \in rows' \/ \E i \in DOMAIN bus' : bus'[i] = Deleted(m)
    <3>1. sig # Deleted(m)
      BY <1>10, <2>1, SignalFields
    <3> QED BY <1>4, <1>5, <2>1, <3>1
  <2>2. ASSUME NEW m \in dialedRows, NEW k \in (rows' \cap Dialled) \ dialedRows, Later(k, m)
        PROVE  \E i \in DOMAIN bus' : bus'[i] = Added(k)
    <3>1. \E i \in DOMAIN bus : bus[i] = Added(k)
      BY <1>5, <2>2
    <3>2. dialedReady
      BY <1>5
    <3>3. sig # Added(k)
      BY <1>10, <2>2, <3>2, SignalFields
    <3> QED BY <1>4, <3>1, <3>3
  <2> QED BY <1>5, <1>10, <2>1, <2>2 DEF RowsAreTold
<1> QED BY <1>8, <1>9, <1>10, DialedHearsDoes

\* What is written is what is first then.
LEMMA WriteFirstNames ==
  ASSUME WriteFirst, ~stale'
  PROVE  file' \in Newest(dialedRows') /\ dialedRows' # {}
<1>1. PICK k \in Newest(dialedRows') : WriteLastDialed(k)
  BY DEF WriteFirst, Newest
<1>2. file' = k
  BY <1>1 DEF WriteLastDialed
<1> QED BY <1>1, <1>2 DEF Newest

LEMMA FirstNext ==
  (dialedReady' /\ ~stale' => IF dialedRows' = {} THEN file' = NoEvent ELSE file' \in Newest(dialedRows'))
    => FileIsFirst'
BY DEF FileIsFirst, Newest

LEMMA HeardFile ==
  ASSUME DialInv, NEW sig, DialedHears(sig)
  PROVE  FileIsFirst'
<1>1. UNCHANGED dialedReady
  BY DialedHearsDoes
<1>2. dialedReady /\ ~stale =>
        IF dialedRows = {} THEN file = NoEvent ELSE file \in Newest(dialedRows)
  BY DEF DialInv, FileIsFirst
<1>3. CASE /\ dialedReady /\ dialedRows' = dialedRows \cup {sig.ev} /\ sig.ev \notin dialedRows
           /\ IF InsertedFirst(sig.ev) THEN WriteLastDialed(sig.ev) ELSE UNCHANGED <<file, stale>>
  <2>1. InsertedFirst(sig.ev) <=> sig.ev \in Newest(dialedRows')
    BY DEF InsertedFirst, Newest
  <2>2. ASSUME ~stale' PROVE file' \in Newest(dialedRows')
    <3>1. CASE sig.ev \in Newest(dialedRows')
      BY <1>3, <2>1, <2>2, <3>1 DEF WriteLastDialed
    <3>2. CASE sig.ev \notin Newest(dialedRows')
      <4>1. file' = file /\ ~stale
        BY <1>3, <2>1, <2>2, <3>2
      <4>2. PICK l \in dialedRows : Later(l, sig.ev)
        BY <1>3, <3>2, LaterOrder DEF Newest
      <4>3. file \in Newest(dialedRows)
        BY <1>2, <1>3, <4>1, <4>2
      <4>4. ~Later(sig.ev, file)
        BY <4>2, <4>3, LaterOrder DEF Newest
      <4> QED BY <1>3, <4>1, <4>3, <4>4 DEF Newest
    <3> QED BY <3>1, <3>2
  <2> QED BY <1>3, <2>2, FirstNext
<1>4. CASE dialedRows' = dialedRows \ {sig.ev} /\ OnRowsRemoved(sig.ev) /\ sig.ev \in dialedRows
  <2>1. CASE dialedRows' = {}
    BY <1>4, <2>1, FirstNext DEF OnRowsRemoved, LastRowGone, RemoveLastDialed
  <2>2. CASE dialedRows' # {} /\ sig.ev \in Newest(dialedRows)
    BY <1>4, <2>2, WriteFirstNames, FirstNext DEF OnRowsRemoved
  <2>3. CASE dialedRows' # {} /\ sig.ev \notin Newest(dialedRows)
    <3>1. UNCHANGED <<file, stale>>
      BY <1>4, <2>3 DEF OnRowsRemoved
    <3>2. dialedReady /\ ~stale => file \in Newest(dialedRows')
      BY <1>2, <1>4, <2>3 DEF Newest
    <3> QED BY <1>1, <2>3, <3>1, <3>2, FirstNext
  <2> QED BY <2>1, <2>2, <2>3
<1>5. CASE UNCHANGED <<dialedRows, file, stale>>
  BY <1>1, <1>2, <1>5, FirstNext DEF Newest
<1> QED BY <1>3, <1>4, <1>5, DialedHearsDoes

\* The model is filled with the newest call: what is stored meanwhile comes by the bus.
LEMMA DialedTurnDials ==
  ASSUME DialInv, DialedTurn
  PROVE  DialInv'
<1>1. DialedLoaded /\ UNCHANGED <<up, rows, known, bus>>
  BY DEF DialedTurn, processVars, storeVars
<1>2. up /\ dialedReady' = TRUE
  BY <1>1, DialedLoadedDoes
<1>3. CallsAreTold'
  BY <1>1, <1>2 DEF DialInv, CallsAreTold
<1>4. CASE dialedRows' = Newest(rows \cap Dialled) /\ OnModelReset
  <2>1. RowsAreTold'
    BY <1>1, <1>2, <1>4 DEF RowsAreTold, Newest
  <2>2. FileIsFirst'
    BY <1>4, WriteFirstNames, FirstNext DEF OnModelReset, RemoveLastDialed
  <2> QED BY <1>3, <2>1, <2>2 DEF DialInv
<1>5. CASE dialedRows' = {} /\ stale' = TRUE
  BY <1>2, <1>3, <1>5 DEF DialInv, RowsAreTold, FileIsFirst
<1> QED BY <1>1, <1>4, <1>5, DialedLoadedDoes

LEMMA StopDials ==
  ASSUME DialInv, BusIsSeq, Stop
  PROVE  DialInv'
<1>1. /\ bus' = <<>> /\ dialedRows' = {} /\ dialedReady' = FALSE
      /\ UNCHANGED <<rows, known>>
  BY DEF Stop, DialedStops
<1>2. DOMAIN bus' = {}
  BY <1>1
<1> QED BY <1>1, <1>2 DEF DialInv, CallsAreTold, RowsAreTold, FileIsFirst, BusIsSeq

LEMMA StartDials ==
  ASSUME DialInv, Start
  PROVE  DialInv'
<1>1. up' = TRUE /\ UNCHANGED <<rows, known, bus, dialedVars>>
  BY DEF Start
<1> QED BY <1>1 DEF DialInv, CallsAreTold, RowsAreTold, FileIsFirst, Newest, dialedVars

LEMMA DialStep == DialInv /\ BusIsSeq /\ [Next]_vars => DialInv'
<1> SUFFICES ASSUME DialInv, BusIsSeq, [Next]_vars PROVE DialInv'
  OBVIOUS
<1>1. CASE LogChanges
  BY <1>1, LogChangesDials
<1>2. ASSUME NEW a, RemovesAccount(a) PROVE DialInv'
  BY <1>2, RemovesAccountDials
<1>3. CASE ModemsChange \/ (\E a \in Accounts : CreatesAccount(a)) \/ ManagerGetsReady
           \/ UNCHANGED vars
  <2>1. UNCHANGED <<up, rows, known, bus, dialedVars>>
    BY <1>3 DEF ModemsChange, CreatesAccount, ManagerGetsReady, vars, processVars, storeVars
  <2> QED BY <2>1, DialUnchanged
<1>4. CASE Hears
  <2>1. /\ bus # <<>> /\ bus' = Tail(bus) /\ DialedHears(Head(bus))
        /\ UNCHANGED <<up, rows, known>>
    BY <1>4 DEF Hears, processVars
  <2>2. UNCHANGED dialedReady
    BY <2>1, DialedHearsDoes
  <2>3. CallsAreTold'
    BY <2>1, <2>2, HeardCalls
  <2>4. RowsAreTold'
    BY <2>1, HeardRows
  <2>5. FileIsFirst'
    BY <2>1, HeardFile
  <2> QED BY <2>3, <2>4, <2>5 DEF DialInv
<1>5. CASE OpsTurn
  BY <1>5, OpsTurnDials
<1>6. CASE FilesTurn
  BY <1>6, FilesTurnDials
<1>7. CASE DialedTurn
  BY <1>7, DialedTurnDials
<1>8. CASE Stop
  BY <1>8, StopDials
<1>9. CASE Start
  BY <1>9, StartDials
<1> QED BY <1>1, <1>2, <1>3, <1>4, <1>5, <1>6, <1>7, <1>8, <1>9 DEF Next

LEMMA DialInit == Init => DialInv
<1> SUFFICES ASSUME Init PROVE DialInv
  OBVIOUS
<1>1. /\ bus = <<>> /\ known = rows /\ up = TRUE
      /\ dialedRows = {} /\ dialedReady = FALSE
  BY DEF Init, ManagerInit, DialedInit
<1>2. DOMAIN bus = {}
  BY <1>1
<1> QED BY <1>1, <1>2 DEF DialInv, CallsAreTold, RowsAreTold, FileIsFirst

\* When nothing about a call is on the bus, the first row is the newest call there is.
LEMMA FirstIsNewest == DialInv /\ BusIsSeq => LastDialedIsNewest
<1> SUFFICES ASSUME DialInv, BusIsSeq, dialedReady, ~stale, file # NoEvent,
                    \A k \in Dialled : Told(k)
             PROVE  file \in rows /\ \A k \in rows \cap Dialled : ~Later(k, file)
  BY DEF LastDialedIsNewest
<1>1. file \in Newest(dialedRows)
  BY DEF DialInv, FileIsFirst
<1>2. file \in dialedRows /\ file \in Dialled /\ \A k \in dialedRows : ~Later(k, file)
  BY <1>1 DEF Newest, BusIsSeq
<1>3. \A k \in Dialled : \A i \in DOMAIN bus : bus[i] # Added(k) /\ bus[i] # Deleted(k)
  BY SignalFields DEF Told
<1>4. file \in rows
  BY <1>2, <1>3 DEF DialInv, RowsAreTold
<1>5. \A k \in (rows \cap Dialled) \ dialedRows : ~Later(k, file)
  BY <1>2, <1>3 DEF DialInv, RowsAreTold
<1> QED BY <1>2, <1>4, <1>5

\* Once the library has told what became of the calls, the number that
\* LastDialedCache keeps in the file is that of the newest call there is: no order
\* of calls that come and go, before, while and after the model loads, with writes
\* that fail and daemons that stop, leaves it at a call that was deleted or overtaken.
THEOREM Newness == Spec => []LastDialedIsNewest
<1>1. TypesInv => BusIsSeq
  BY DEF TypesInv, TypeOK, EventStoreTypes, DialedTypes, BusIsSeq
<1>2. TypesInv /\ DialInv /\ [Next]_vars => TypesInv' /\ DialInv'
  BY <1>1, TypesStep, DialStep
<1>3. Init => TypesInv /\ DialInv
  BY TypesInit, DialInit
<1>4. TypesInv /\ DialInv => LastDialedIsNewest
  BY <1>1, FirstIsNewest
<1> QED BY <1>2, <1>3, <1>4, PTL DEF Spec
=============================================================================
