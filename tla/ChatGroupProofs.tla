---------------------------- MODULE ChatGroupProofs ----------------------------
(***************************************************************************)
(* Proofs about ChatGroup, for every set of groups, people and handles and *)
(* any number of changes of the surroundings: the conversation exists and  *)
(* is the only one of the chat, the topic is stored, and what the listener *)
(* believes of the people agrees with the room.                            *)
(***************************************************************************)
EXTENDS ChatGroup, FiniteSetTheorems, SequenceTheorems, WellFoundedInduction, TLAPS

-----------------------------------------------------------------------------
(* The inductive invariant: the conversation *)

Distinct == \A i, j \in 1 .. Len(rows) : rows[i] = rows[j] => i = j

Exact(i) == Fit[rows[i]] = "exact"

\* there is one conversation of the chat alone, or none
ExactApart == \A i, j \in 1 .. Len(rows) : Exact(i) /\ Exact(j) => i = j
NoExact    == \A i \in 1 .. Len(rows) : ~Exact(i)

\* there is a group, and news of groups, only when the model is ready; a listener
\* waits for a model only as long as it is not
Phases ==
  /\ phase = "preparing" \/ modelState # "ready" => group = NoGroup /\ ~replaced
  /\ modelState # "ready" => renamed = {}
  /\ phase = "listening" => modelState = "ready"
  /\ phase = "waiting" => modelState # "ready"
  /\ phase = "stuck" => modelState = "failed"

\* a listener without a group overlooked none
NoneMissed == phase = "listening" /\ group = NoGroup /\ ~replaced => NoExact

\* the group in memory has the name of the one in the database, or news of that
\* name are to come, or the database refused one
Remembered ==
  group # NoGroup /\ group \notin renamed => groupName = dbName[group] \/ "modify" \in failed

GroupTypes ==
  /\ rows \in Seq(Groups) /\ dbName \in [Groups -> Names]
  /\ modelState \in {"loading", "ready", "failed"} /\ renamed \subseteq ToSet(rows)
  /\ phase \in {"preparing", "waiting", "listening", "stuck"}
  /\ group \in Groups \cup {NoGroup} /\ groupName \in Names /\ chatName \in Names
  /\ replaced \in BOOLEAN

GroupInv ==
  /\ GroupTypes
  /\ Distinct /\ (~replaced => ExactApart) /\ CurrentIsListed
  /\ Phases /\ NoneMissed /\ Remembered

-----------------------------------------------------------------------------
(* The inductive invariant: the people *)

\* nobody is asked for before the channel is ready
Unprepared ==
  /\ ~isGroupChat => members = {}
  /\ phase = "preparing" =>
       /\ contactOps = {} /\ ownerOps = {} /\ watched = {}
       /\ \A c \in People : shown[c] = "none"
       /\ \A h \in Handles : ownerNames[h] = Nobody

\* the presence of a member is asked for, or followed
Followed ==
  \A c \in members \ {Me} :
    phase = "preparing" \/ Requested(c) \/ c \in failed \/ (c \in watched /\ statuses[c] = live[c])

\* whoever came back is looked up as one who joins
Rejoined ==
  \A c \in members \ {Me} :
    shown[c] = "left" => c \in failed \/ \E op \in contactOps : op.joined /\ c \in op.who

PeopleTypes ==
  /\ members \subseteq People /\ live \in [People -> Presence]
  /\ owners \in [Handles -> {Nobody} \cup People] /\ isGroupChat \in BOOLEAN
  /\ statuses \in [People -> {Nobody} \cup Presence] /\ Tracked \subseteq watched
  /\ contactOps \subseteq [who : SUBSET People, joined : BOOLEAN]
  /\ ownerNames \in [Handles -> {Nobody} \cup People] /\ ownerOps \subseteq SUBSET People
  /\ shown \in [People -> {"none", "joined", "left"}]

PeopleInv == PeopleTypes /\ Unprepared /\ Followed /\ Rejoined /\ OwnersCurrent

OtherTypes ==
  /\ topic \in Names /\ moves \in 0 .. MaxMoves /\ props \in {"none", "listing", "getting", "known"}

IInv == OtherTypes /\ GroupInv /\ PeopleInv

-----------------------------------------------------------------------------
(* The rows of the group model *)

\* The smallest of some indices is one of them.
LEMMA FirstIs ==
  ASSUME NEW I \in SUBSET Nat, I # {}
  PROVE  First(I) \in I
<1>1. PICK x \in I : \A y \in I : ~(<<y, x>> \in OpToRel(<, Nat))
  BY NatLessThanWellFounded, WFMin
<1>2. \A y \in I : x <= y
  <2> SUFFICES ASSUME NEW y \in I PROVE ~(y < x)
    OBVIOUS
  <2>1. <<y, x>> \notin OpToRel(<, Nat)
    BY <1>1
  <2> QED BY <2>1 DEF OpToRel
<1> QED BY <1>2 DEF First

\* The group that is found is in the database; when none is, none fits exactly.
LEMMA FoundIs ==
  ASSUME GroupTypes, ExactApart, group = NoGroup
  PROVE  \/ Found(1, Len(rows)) \in ToSet(rows)
         \/ Found(1, Len(rows)) = NoGroup /\ NoExact
<1> DEFINE n == Len(rows)
           exact == Fits(1, n, "exact")
           many == Fits(1, First(exact), "many")
<1>1. n \in Nat /\ \A i \in 1 .. n : rows[i] \in ToSet(rows)
  BY LenProperties DEF GroupTypes, ToSet
<1>2. CASE exact = {}
  <2>1. Found(1, n) = NoGroup
    BY <1>2 DEF Found
  <2>2. NoExact
    BY <1>2 DEF NoExact, Exact, Fits
  <2> QED BY <2>1, <2>2
<1>3. CASE exact # {}
  <2>1. exact \in SUBSET Nat /\ exact \subseteq 1 .. n
    BY <1>1 DEF Fits
  <2>2. First(exact) \in 1 .. n
    <3> HIDE DEF exact
    <3> QED BY <1>3, <2>1, FirstIs
  <2>3. CASE First(exact) # n \/ many = {}
    <3>1. Found(1, n) = rows[First(exact)]
      BY <1>3, <2>3 DEF Found
    <3> QED BY <1>1, <2>2, <3>1
  <2>4. CASE ~(First(exact) # n \/ many = {})
    <3>1. Found(1, n) = rows[First(many)]
      BY <1>3, <2>4 DEF Found
    <3>2. many \in SUBSET Nat /\ many \subseteq 1 .. n
      <4> HIDE DEF exact
      <4> QED BY <1>1, <2>2 DEF Fits
    <3>3. First(many) \in 1 .. n
      <4> HIDE DEF many
      <4> QED BY <2>4, <3>2, FirstIs
    <3> QED BY <1>1, <3>1, <3>3
  <2> QED BY <2>3, <2>4
<1> QED BY <1>2, <1>3

\* A row that is added comes first.
LEMMA RowAdded ==
  ASSUME GroupTypes, Distinct, NEW g \in Groups, g \notin ToSet(rows), rows' = <<g>> \o rows
  PROVE  /\ rows' \in Seq(Groups) /\ ToSet(rows') = ToSet(rows) \cup {g}
         /\ Distinct'
         /\ ExactApart /\ (Fit[g] = "exact" => NoExact) => ExactApart'
         /\ NoExact /\ Fit[g] # "exact" => NoExact'
<1> DEFINE n == Len(rows)
           u == <<g>>
           r == u \o rows
<1>1. rows \in Seq(Groups) /\ u \in Seq(Groups) /\ Len(u) = 1 /\ u[1] = g
  BY DEF GroupTypes
<1>2. n \in Nat /\ \A i \in 1 .. n : rows[i] # g
  BY <1>1, LenProperties DEF ToSet
<1> HIDE DEF u
<1>3. /\ r \in Seq(Groups) /\ Len(r) = Len(u) + Len(rows)
      /\ \A i \in 1 .. Len(u) + Len(rows) : r[i] = IF i <= Len(u) THEN u[i] ELSE rows[i - Len(u)]
  BY <1>1, ConcatProperties
<1>4. rows' = r
  BY DEF u
<1> HIDE DEF r
<1>5. /\ Len(r) = n + 1 /\ r[1] = g
      /\ \A i \in 1 .. Len(r) : i = 1 \/ (i - 1 \in 1 .. n /\ r[i] = rows[i - 1])
  BY <1>1, <1>2, <1>3
<1>6. \A i \in 1 .. n : i + 1 \in 1 .. Len(r) /\ r[i + 1] = rows[i]
  BY <1>1, <1>2, <1>3
<1>7. ToSet(r) = ToSet(rows) \cup {g}
  <2>1. ToSet(r) = {r[i] : i \in 1 .. Len(r)} /\ ToSet(rows) = {rows[i] : i \in 1 .. n}
    <3>1. r \in Seq(Groups) /\ rows \in Seq(Groups)
      BY <1>1, <1>3
    <3>2. DOMAIN r = 1 .. Len(r) /\ DOMAIN rows = 1 .. n
      BY <3>1
    <3> QED BY <3>2 DEF ToSet
  <2>2. 1 \in 1 .. Len(r)
    BY <1>2, <1>5
  <2>3. \A x \in ToSet(r) : x \in ToSet(rows) \cup {g}
    BY <1>5, <2>1
  <2>4. \A x \in ToSet(rows) : x \in ToSet(r)
    BY <1>6, <2>1
  <2> QED BY <1>5, <2>1, <2>2, <2>3, <2>4
<1>8. ASSUME NEW i \in 1 .. Len(r), NEW j \in 1 .. Len(r), r[i] = r[j] PROVE i = j
  <2>1. CASE i = 1
    <3>1. j = 1 \/ (j - 1 \in 1 .. n /\ r[j] = rows[j - 1])
      BY <1>5
    <3>2. r[j] = g
      BY <1>5, <1>8, <2>1
    <3> QED BY <1>2, <2>1, <3>1, <3>2
  <2>2. CASE j = 1
    BY <1>2, <1>5, <1>8, <2>2
  <2>3. CASE i # 1 /\ j # 1
    <3>1. i - 1 \in 1 .. n /\ j - 1 \in 1 .. n /\ rows[i - 1] = rows[j - 1]
      BY <1>5, <1>8, <2>3
    <3>2. i - 1 = j - 1
      BY <3>1 DEF Distinct
    <3> QED BY <3>2
  <2> QED BY <2>1, <2>2, <2>3
<1>9. ASSUME ExactApart, Fit[g] = "exact" => NoExact, NEW i \in 1 .. Len(r), NEW j \in 1 .. Len(r),
             Fit[r[i]] = "exact", Fit[r[j]] = "exact"
      PROVE  i = j
  <2>1. CASE i = 1 \/ j = 1
    BY <1>5, <1>9, <2>1 DEF NoExact, Exact
  <2>2. CASE i # 1 /\ j # 1
    <3>1. i - 1 \in 1 .. n /\ j - 1 \in 1 .. n /\ r[i] = rows[i - 1] /\ r[j] = rows[j - 1]
      BY <1>5, <2>2
    <3>2. i - 1 = j - 1
      BY <1>9, <3>1 DEF ExactApart, Exact
    <3> QED BY <3>2
  <2> QED BY <2>1, <2>2
<1>10. ASSUME NoExact, Fit[g] # "exact", NEW i \in 1 .. Len(r) PROVE Fit[r[i]] # "exact"
  BY <1>5, <1>10 DEF NoExact, Exact
<1>11. Distinct'
  BY <1>4, <1>8 DEF Distinct
<1>12. ExactApart /\ (Fit[g] = "exact" => NoExact) => ExactApart'
  BY <1>4, <1>9 DEF ExactApart, Exact
<1>13. NoExact /\ Fit[g] # "exact" => NoExact'
  BY <1>4, <1>10 DEF NoExact, Exact
<1> QED BY <1>3, <1>4, <1>7, <1>11, <1>12, <1>13
\* A row that is removed leaves the others in their order.
LEMMA RowRemoved ==
  ASSUME GroupTypes, Distinct, NEW k \in DOMAIN rows, rows' = RemoveAt(rows, k)
  PROVE  /\ rows' \in Seq(Groups) /\ ToSet(rows') = ToSet(rows) \ {rows[k]}
         /\ Distinct' /\ (ExactApart => ExactApart') /\ (NoExact => NoExact')
<1> DEFINE n == Len(rows)
           u == SubSeq(rows, 1, k - 1)
           v == SubSeq(rows, k + 1, n)
           r == u \o v
           old(i) == IF i < k THEN i ELSE i + 1
<1>1. rows \in Seq(Groups) /\ n \in Nat /\ k \in 1 .. n /\ \A i \in 1 .. n : rows[i] \in Groups
  BY LenProperties DEF GroupTypes
<1>2. /\ u \in Seq(Groups) /\ Len(u) = k - 1
      /\ \A i \in 1 .. k - 1 : u[i] = rows[i]
  <2>1. k - 1 \in Int /\ 1 \in Int /\ \A i \in 1 .. k - 1 : rows[i] \in Groups
    BY <1>1
  <2>2. /\ u \in Seq(Groups) /\ Len(u) = IF 1 <= k - 1 THEN (k - 1) - 1 + 1 ELSE 0
        /\ \A i \in 1 .. (k - 1) - 1 + 1 : u[i] = rows[1 + i - 1]
    BY <2>1, SubSeqProperties
  <2>3. (k - 1) - 1 + 1 = k - 1 /\ \A i \in 1 .. k - 1 : 1 + i - 1 = i
    BY <1>1
  <2> HIDE DEF u
  <2> QED BY <1>1, <2>2, <2>3
<1>3. /\ v \in Seq(Groups) /\ Len(v) = n - k
      /\ \A i \in 1 .. n - k : v[i] = rows[k + i]
  <2>1. k + 1 \in Int /\ n \in Int /\ \A i \in k + 1 .. n : rows[i] \in Groups
    BY <1>1
  <2>2. /\ v \in Seq(Groups) /\ Len(v) = IF k + 1 <= n THEN n - (k + 1) + 1 ELSE 0
        /\ \A i \in 1 .. n - (k + 1) + 1 : v[i] = rows[(k + 1) + i - 1]
    BY <2>1, SubSeqProperties
  <2>3. n - (k + 1) + 1 = n - k /\ \A i \in 1 .. n - k : (k + 1) + i - 1 = k + i
    BY <1>1
  <2> HIDE DEF v
  <2> QED BY <1>1, <2>2, <2>3
<1>4. rows' = r
  BY DEF RemoveAt
<1> HIDE DEF u, v
<1>5. /\ r \in Seq(Groups) /\ Len(r) = Len(u) + Len(v)
      /\ \A i \in 1 .. Len(u) + Len(v) : r[i] = IF i <= Len(u) THEN u[i] ELSE v[i - Len(u)]
  BY <1>2, <1>3, ConcatProperties
<1> HIDE DEF r
<1>6. Len(r) = n - 1
  BY <1>1, <1>2, <1>3, <1>5
<1>7. \A i \in 1 .. Len(r) : old(i) \in 1 .. n /\ old(i) # k /\ r[i] = rows[old(i)]
  <2> SUFFICES ASSUME NEW i \in 1 .. Len(r)
               PROVE  old(i) \in 1 .. n /\ old(i) # k /\ r[i] = rows[old(i)]
    OBVIOUS
  <2>1. r[i] = IF i <= Len(u) THEN u[i] ELSE v[i - Len(u)]
    BY <1>5
  <2>2. CASE i < k
    <3>1. i \in 1 .. k - 1 /\ i <= Len(u)
      BY <1>1, <1>2, <2>2
    <3> QED BY <1>1, <1>2, <2>1, <2>2, <3>1
  <2>3. CASE ~(i < k)
    <3>1. ~(i <= Len(u)) /\ i - Len(u) \in 1 .. n - k /\ k + (i - Len(u)) = i + 1
      BY <1>1, <1>2, <1>6, <2>3
    <3>2. r[i] = rows[i + 1]
      BY <1>3, <2>1, <3>1
    <3> QED BY <1>1, <1>6, <2>3, <3>2
  <2> QED BY <2>2, <2>3
<1>8. \A i, j \in 1 .. Len(r) : old(i) = old(j) => i = j
  BY <1>1
<1>9. \A j \in 1 .. n : j # k => \E i \in 1 .. Len(r) : r[i] = rows[j]
  <2> SUFFICES ASSUME NEW j \in 1 .. n, j # k PROVE \E i \in 1 .. Len(r) : r[i] = rows[j]
    OBVIOUS
  <2>1. CASE j < k
    <3>1. j \in 1 .. Len(r) /\ old(j) = j
      BY <1>1, <1>6, <2>1
    <3> QED BY <1>7, <3>1
  <2>2. CASE j > k
    <3>1. j - 1 \in 1 .. Len(r) /\ old(j - 1) = j
      BY <1>1, <1>6, <2>2
    <3> QED BY <1>7, <3>1
  <2> QED BY <1>1, <2>1, <2>2
<1> HIDE DEF old
<1>10. ToSet(r) = ToSet(rows) \ {rows[k]}
  <2>1. ToSet(r) = {r[i] : i \in 1 .. Len(r)} /\ ToSet(rows) = {rows[i] : i \in 1 .. n}
    BY <1>1, <1>5 DEF ToSet
  <2>2. ASSUME NEW i \in 1 .. Len(r) PROVE r[i] \in ToSet(rows) /\ r[i] # rows[k]
    BY <1>1, <1>7, <2>1 DEF Distinct
  <2>3. ASSUME NEW j \in 1 .. n, rows[j] # rows[k] PROVE rows[j] \in ToSet(r)
    BY <1>9, <2>1, <2>3
  <2> QED BY <2>1, <2>2, <2>3
<1>11. Distinct'
  BY <1>4, <1>7, <1>8 DEF Distinct
<1>12. ExactApart => ExactApart'
  BY <1>4, <1>7, <1>8 DEF ExactApart, Exact
<1>13. NoExact => NoExact'
  BY <1>4, <1>7 DEF NoExact, Exact
<1> QED BY <1>4, <1>5, <1>10, <1>11, <1>12, <1>13

-----------------------------------------------------------------------------
(* Every step keeps the conversation *)

\* What a step that touches neither the groups nor the phase keeps.
LEMMA GroupKept ==
  ASSUME GroupInv, UNCHANGED <<database, phase, group, groupName, chatName, replaced>>,
         failed \subseteq failed'
  PROVE  GroupInv'
BY DEF GroupInv, GroupTypes, Distinct, ExactApart, Exact, CurrentIsListed, Phases, NoneMissed, NoExact,
       Remembered, database

\* The model is ready, and the listener listens.
LEMMA ReadyKeeps ==
  ASSUME GroupInv, OnModelReady(TRUE), phase # "listening", group = NoGroup, ~replaced,
         modelState' = "ready", UNCHANGED <<rows, dbName, renamed, chatName, replaced>>, failed' = failed
  PROVE  GroupInv'
<1>1. GroupTypes /\ ExactApart /\ Distinct
  BY DEF GroupInv
<1>2. phase' = "listening" /\ group' = Found(1, Len(rows))
  BY DEF OnModelReady
<1>3. groupName' = IF group' # NoGroup THEN dbName[group'] ELSE groupName
  BY DEF OnModelReady
<1>4. (group' \in ToSet(rows) /\ group' \in Groups) \/ (group' = NoGroup /\ NoExact)
  <2>1. \A x \in ToSet(rows) : x \in Groups
    BY <1>1 DEF GroupTypes, ToSet
  <2> QED BY <1>1, <1>2, <2>1, FoundIs
<1>5. GroupTypes'
  BY <1>1, <1>2, <1>3, <1>4 DEF GroupTypes
<1>6. Distinct' /\ ExactApart' /\ (NoExact => NoExact')
  BY <1>1 DEF Distinct, ExactApart, Exact, NoExact
<1>7. CurrentIsListed'
  BY <1>4 DEF CurrentIsListed
<1>8. Phases'
  BY <1>2 DEF Phases
<1>9. NoneMissed'
  <2>1. NoGroup \notin ToSet(rows)
    BY <1>1, ChatGroupAssumption DEF ChatGroupAssumption, GroupTypes, ToSet
  <2> QED BY <1>4, <1>6, <2>1 DEF NoneMissed
<1>10. Remembered'
  BY <1>3 DEF Remembered
<1> QED BY <1>5, <1>6, <1>7, <1>8, <1>9, <1>10 DEF GroupInv

\* A group that is added is the only one of the chat, as the listener has none.
LEMMA EnsureKeeps ==
  ASSUME GroupInv, EnsureGroup, phase \in {"listening", "waiting", "stuck"},
         UNCHANGED <<modelState, renamed, phase, chatName, replaced>>
  PROVE  GroupInv' /\ failed \subseteq failed'
<1>1. CASE UNCHANGED <<rows, dbName, group, groupName, failed>>
  BY <1>1, GroupKept DEF database
<1>2. ASSUME group = NoGroup, modelState = "ready", NEW g \in Own \ ToSet(rows), NEW ok \in BOOLEAN,
             Try("add", ok),
             IF ok THEN /\ rows' = <<g>> \o rows
                        /\ dbName' = [dbName EXCEPT ![g] = IF isGroupChat THEN chatName ELSE NoName]
                        /\ group' = g /\ groupName' = IF isGroupChat THEN chatName ELSE NoName
             ELSE UNCHANGED <<rows, dbName, group, groupName>>
      PROVE  GroupInv' /\ failed \subseteq failed'
  <2>1. failed \subseteq failed'
    BY <1>2 DEF Try
  <2>2. CASE ~ok
    BY <1>2, <2>1, <2>2, GroupKept DEF database
  <2>3. CASE ok
    <3> DEFINE name == IF isGroupChat THEN chatName ELSE NoName
    <3>1. /\ rows' = <<g>> \o rows /\ dbName' = [dbName EXCEPT ![g] = name]
          /\ group' = g /\ groupName' = name
      BY <1>2, <2>3
    <3>2. GroupTypes /\ Distinct /\ Phases /\ NoneMissed /\ (~replaced => ExactApart)
      BY DEF GroupInv
    <3>3. g \in Groups /\ Fit[g] = "exact" /\ NoGroup \notin Groups /\ name \in Names
      BY <3>2, ChatGroupAssumption DEF ChatGroupAssumption, GroupTypes
    <3> HIDE DEF name
    <3>4. phase = "listening"
      BY <1>2, <3>2 DEF Phases
    <3>5. ~replaced => NoExact
      BY <1>2, <3>2, <3>4 DEF NoneMissed
    <3>6. /\ rows' \in Seq(Groups) /\ ToSet(rows') = ToSet(rows) \cup {g} /\ Distinct'
          /\ ExactApart /\ (Fit[g] = "exact" => NoExact) => ExactApart'
      BY <3>1, <3>2, <3>3, RowAdded
    <3>7. ~replaced' => ExactApart'
      BY <3>2, <3>5, <3>6
    <3>8. GroupTypes'
      BY <3>1, <3>2, <3>3, <3>6 DEF GroupTypes
    <3>9. CurrentIsListed' /\ Phases' /\ NoneMissed'
      BY <1>2, <3>1, <3>2, <3>3, <3>4, <3>6 DEF CurrentIsListed, Phases, NoneMissed
    <3>10. Remembered'
      BY <3>1, <3>2, <3>3 DEF Remembered, GroupTypes
    <3> QED BY <2>1, <3>6, <3>7, <3>8, <3>9, <3>10 DEF GroupInv
  <2> QED BY <2>2, <2>3
<1> QED BY <1>1, <1>2 DEF EnsureGroup

\* Another program adds a group: an exact one is the first, and taken.
LEMMA InsertedKeeps ==
  ASSUME GroupInv, NEW g \in Groups, SlotGroupInserted(g)
  PROVE  GroupInv'
<1>1. /\ modelState = "ready" /\ g \notin ToSet(rows) /\ rows' = <<g>> \o rows
      /\ Fit[g] = "exact" => NoExact
      /\ UNCHANGED <<modelState, renamed, phase, chatName, replaced, failed>>
  <2>1. Fit[g] = "exact" => \A i \in DOMAIN rows : Fit[rows[i]] # "exact"
    BY DEF SlotGroupInserted
  <2>2. DOMAIN rows = 1 .. Len(rows)
    BY DEF GroupInv, GroupTypes
  <2>3. Fit[g] = "exact" => NoExact
    BY <2>1, <2>2 DEF NoExact, Exact
  <2> QED BY <2>3 DEF SlotGroupInserted
<1>2. PICK n \in Names : dbName' = [dbName EXCEPT ![g] = n]
  BY DEF SlotGroupInserted
<1>3. IF phase \in {"waiting", "listening"} /\ Fit[g] = "exact"
      THEN group' = g /\ groupName' = dbName'[g] ELSE UNCHANGED <<group, groupName>>
  BY DEF SlotGroupInserted
<1>4. GroupTypes /\ Distinct /\ Phases /\ NoneMissed /\ CurrentIsListed /\ Remembered
      /\ (~replaced => ExactApart)
  BY DEF GroupInv
<1>5. /\ rows' \in Seq(Groups) /\ ToSet(rows') = ToSet(rows) \cup {g} /\ Distinct'
      /\ ExactApart /\ (Fit[g] = "exact" => NoExact) => ExactApart'
      /\ NoExact /\ Fit[g] # "exact" => NoExact'
  BY <1>1, <1>4, RowAdded
<1>6. ~replaced' => ExactApart'
  BY <1>1, <1>4, <1>5
<1>7. dbName' \in [Groups -> Names] /\ dbName'[g] \in Names /\ \A h \in Groups \ {g} : dbName'[h] = dbName[h]
  BY <1>2, <1>4 DEF GroupTypes
<1>8. GroupTypes'
  BY <1>1, <1>3, <1>4, <1>5, <1>7 DEF GroupTypes
<1>9. NoGroup \notin Groups
  BY ChatGroupAssumption DEF ChatGroupAssumption
<1>10. CASE phase \in {"waiting", "listening"} /\ Fit[g] = "exact"
  <2>1. group' = g /\ groupName' = dbName'[g] /\ phase = "listening"
    BY <1>1, <1>3, <1>4, <1>10 DEF Phases
  <2>2. CurrentIsListed' /\ Phases' /\ NoneMissed' /\ Remembered'
    BY <1>1, <1>4, <1>5, <1>9, <2>1 DEF CurrentIsListed, Phases, NoneMissed, Remembered
  <2> QED BY <1>5, <1>6, <1>8, <2>2 DEF GroupInv
<1>11. CASE ~(phase \in {"waiting", "listening"} /\ Fit[g] = "exact")
  <2>1. UNCHANGED <<group, groupName>>
    BY <1>3, <1>11
  <2>2. CurrentIsListed' /\ Phases'
    BY <1>1, <1>4, <1>5, <2>1 DEF CurrentIsListed, Phases
  <2>3. NoneMissed'
    BY <1>1, <1>4, <1>5, <1>11, <2>1 DEF NoneMissed
  <2>4. Remembered'
    <3>1. group # NoGroup => group \in Groups \ {g}
      BY <1>1, <1>4 DEF CurrentIsListed, GroupTypes
    <3> QED BY <1>1, <1>4, <1>7, <2>1, <3>1 DEF Remembered
  <2> QED BY <1>5, <1>6, <1>8, <2>2, <2>3, <2>4 DEF GroupInv
<1> QED BY <1>10, <1>11

\* The group in use that is removed is forgotten.
LEMMA RemovedKeeps ==
  ASSUME GroupInv, NEW g \in Groups, SlotGroupRemoved(g)
  PROVE  GroupInv'
<1>1. /\ modelState = "ready" /\ renamed' = renamed \ {g}
      /\ group' = IF group = g THEN NoGroup ELSE group
      /\ replaced' = (replaced \/ group = g)
      /\ UNCHANGED <<dbName, modelState, phase, groupName, chatName, failed>>
  BY DEF SlotGroupRemoved, Invalidated
<1>2. PICK i \in DOMAIN rows : rows[i] = g /\ rows' = RemoveAt(rows, i)
  BY DEF SlotGroupRemoved
<1>3. GroupTypes /\ Distinct /\ Phases /\ NoneMissed /\ CurrentIsListed /\ Remembered
      /\ (~replaced => ExactApart)
  BY DEF GroupInv
<1>4. /\ rows' \in Seq(Groups) /\ ToSet(rows') = ToSet(rows) \ {g}
      /\ Distinct' /\ (ExactApart => ExactApart') /\ (NoExact => NoExact')
  BY <1>2, <1>3, RowRemoved
<1>5. replaced \in BOOLEAN /\ replaced' \in BOOLEAN /\ (~replaced' => ~replaced /\ group # g)
  BY <1>1, <1>3 DEF GroupTypes
<1>6. GroupTypes'
  BY <1>1, <1>3, <1>4, <1>5 DEF GroupTypes
<1>7. ~replaced' => ExactApart'
  BY <1>3, <1>4, <1>5
<1>8. CurrentIsListed' /\ Phases'
  <2>1. NoGroup # g
    BY ChatGroupAssumption DEF ChatGroupAssumption
  <2> QED BY <1>1, <1>3, <1>4, <2>1 DEF CurrentIsListed, Phases
<1>9. NoneMissed'
  BY <1>1, <1>3, <1>4, <1>5 DEF NoneMissed
<1>10. Remembered'
  BY <1>1, <1>3 DEF Remembered
<1> QED BY <1>4, <1>6, <1>7, <1>8, <1>9, <1>10 DEF GroupInv

\* Another program renames a group, and news of that come.
LEMMA RenamedKeeps ==
  ASSUME GroupInv, NEW g \in Groups,
         SlotGroupDataChanged(g) \/ \E n \in Names : GroupRenamed(g, n)
  PROVE  GroupInv'
<1>1. GroupTypes /\ Distinct /\ Phases /\ NoneMissed /\ CurrentIsListed /\ Remembered
      /\ (~replaced => ExactApart)
  BY DEF GroupInv
<1>2. UNCHANGED <<rows, modelState, phase, group, chatName, replaced, failed>>
  BY DEF SlotGroupDataChanged, GroupRenamed, conv
<1>3. Distinct' /\ (~replaced' => ExactApart') /\ CurrentIsListed' /\ NoneMissed'
  BY <1>1, <1>2 DEF Distinct, ExactApart, Exact, CurrentIsListed, NoneMissed, NoExact
<1>4. CASE SlotGroupDataChanged(g)
  <2>1. /\ renamed' = renamed \ {g} /\ dbName' = dbName /\ g \in renamed
        /\ groupName' = IF group = g THEN dbName[g] ELSE groupName
    BY <1>4 DEF SlotGroupDataChanged, Refreshed
  <2>2. GroupTypes' /\ Phases' /\ Remembered'
    BY <1>1, <1>2, <2>1 DEF GroupTypes, Phases, Remembered
  <2> QED BY <1>3, <2>2 DEF GroupInv
<1>5. ASSUME NEW n \in Names, GroupRenamed(g, n) PROVE GroupInv'
  <2>1. /\ g \in ToSet(rows) /\ dbName' = [dbName EXCEPT ![g] = n] /\ groupName' = groupName
        /\ renamed' = IF modelState = "ready" THEN renamed \cup {g} ELSE renamed
    BY <1>5 DEF GroupRenamed, conv
  <2>2. GroupTypes' /\ Phases'
    BY <1>1, <1>2, <2>1 DEF GroupTypes, Phases
  <2>3. \A h \in Groups \ {g} : dbName'[h] = dbName[h]
    BY <1>1, <2>1 DEF GroupTypes
  <2>4. Remembered'
    <3>1. group # NoGroup => modelState = "ready" /\ group \in Groups
      BY <1>1 DEF Phases, GroupTypes
    <3> QED BY <1>1, <1>2, <2>1, <2>3, <3>1 DEF Remembered
  <2> QED BY <1>3, <2>2, <2>4 DEF GroupInv
<1> QED BY <1>4, <1>5

\* The topic goes to the group in memory and to the database, which may refuse it.
LEMMA TopicKeeps ==
  ASSUME GroupInv, NEW name \in Names, UpdateGroupChatName(name),
         UNCHANGED <<rows, modelState, renamed, phase, group, replaced>>
  PROVE  /\ GroupInv' /\ failed \subseteq failed'
         /\ group # NoGroup /\ group \notin renamed
              => dbName'[group] = chatName' \/ "modify" \in failed'
<1>1. GroupTypes /\ Distinct /\ Phases /\ NoneMissed /\ CurrentIsListed /\ Remembered
      /\ (~replaced => ExactApart)
  BY DEF GroupInv
<1>2. Distinct' /\ (~replaced' => ExactApart') /\ CurrentIsListed' /\ NoneMissed' /\ Phases'
  BY <1>1 DEF Distinct, ExactApart, Exact, CurrentIsListed, NoneMissed, NoExact, Phases
<1>3. chatName' = name
  BY DEF UpdateGroupChatName
<1>4. CASE group # NoGroup /\ name # groupName
  <2>1. PICK ok \in BOOLEAN : /\ Try("modify", ok)
                              /\ dbName' = IF ok THEN [dbName EXCEPT ![group] = name] ELSE dbName
    BY <1>4 DEF UpdateGroupChatName
  <2>2. groupName' = name /\ group \in Groups
    BY <1>1, <1>4 DEF UpdateGroupChatName, GroupTypes
  <2>3. failed \subseteq failed' /\ dbName' \in [Groups -> Names]
        /\ (dbName'[group] = name \/ "modify" \in failed')
    BY <1>1, <2>1, <2>2 DEF Try, GroupTypes
  <2>4. GroupTypes' /\ Remembered'
    BY <1>1, <1>3, <2>2, <2>3 DEF GroupTypes, Remembered
  <2> QED BY <1>2, <1>3, <2>3, <2>4 DEF GroupInv
<1>5. CASE ~(group # NoGroup /\ name # groupName)
  <2>1. UNCHANGED <<groupName, dbName, failed>>
    BY <1>5 DEF UpdateGroupChatName
  <2>2. GroupTypes' /\ Remembered'
    BY <1>1, <1>3, <2>1 DEF GroupTypes, Remembered
  <2> QED BY <1>1, <1>2, <1>3, <1>5, <2>1, <2>2 DEF GroupInv, Remembered
<1> QED BY <1>4, <1>5
-----------------------------------------------------------------------------
(* Every step keeps what is known of the people *)

\* What a step that touches neither the room nor what is known of it keeps.
LEMMA PeopleKept ==
  ASSUME PeopleInv, UNCHANGED <<isGroupChat, members, live, owners, people>>,
         failed \subseteq failed', phase' = "preparing" <=> phase = "preparing"
  PROVE  PeopleInv'
<1>1. PeopleTypes' /\ Unprepared'
  BY DEF PeopleInv, PeopleTypes, Unprepared, Tracked, people
<1>2. Followed' /\ Rejoined' /\ OwnersCurrent'
  BY DEF PeopleInv, Followed, Requested, Rejoined, OwnersCurrent, people
<1> QED BY <1>1, <1>2 DEF PeopleInv

\* A request is for the contacts it names.
LEMMA RequestIs ==
  ASSUME NEW who \in SUBSET People, NEW joined \in BOOLEAN
  PROVE  /\ Request(who, joined) \in [who : SUBSET People, joined : BOOLEAN]
         /\ Request(who, joined).who = who /\ Request(who, joined).joined = joined
BY DEF Request

\* The channel is ready: everybody in the room is looked up.
LEMMA PreparedKeeps ==
  ASSUME PeopleInv, ChannelReady
  PROVE  PeopleInv'
<1>1. /\ phase = "preparing" /\ phase' # "preparing"
      /\ UNCHANGED <<members, live, owners, isGroupChat, statuses, watched, ownerNames, shown, failed>>
  BY DEF ChannelReady, OnModelReady, room
<1>2. PeopleTypes /\ Unprepared
  BY DEF PeopleInv
<1>3. contactOps' = IF ~isGroupChat THEN {Request(People \ {Me}, FALSE)}
                    ELSE IF members \subseteq {Me} THEN {} ELSE {Request(members \ {Me}, FALSE)}
  BY DEF ChannelReady
<1>4. ownerOps' = IF isGroupChat /\ \E h \in Handles : owners[h] # Nobody
                  THEN {{owners[h] : h \in Handles} \ {Nobody}} ELSE {}
  BY DEF ChannelReady
<1>5. contactOps' \subseteq [who : SUBSET People, joined : BOOLEAN]
  <2>1. People \ {Me} \in SUBSET People /\ members \ {Me} \in SUBSET People
    BY <1>2 DEF PeopleTypes
  <2>2. /\ Request(People \ {Me}, FALSE) \in [who : SUBSET People, joined : BOOLEAN]
        /\ Request(members \ {Me}, FALSE) \in [who : SUBSET People, joined : BOOLEAN]
    BY <2>1, RequestIs
  <2> QED BY <1>3, <2>2
<1>6. ownerOps' \subseteq SUBSET People
  BY <1>2, <1>4 DEF PeopleTypes
<1>7. PeopleTypes'
  BY <1>1, <1>2, <1>5, <1>6 DEF PeopleTypes, Tracked
<1>8. Unprepared'
  BY <1>1, <1>2 DEF Unprepared
<1>9. ASSUME NEW c \in members \ {Me} PROVE \E op \in contactOps' : c \in op.who
  <2>1. isGroupChat /\ ~(members \subseteq {Me})
    BY <1>2, <1>9 DEF Unprepared
  <2>2. Request(members \ {Me}, FALSE) \in contactOps'
    BY <1>3, <2>1
  <2> QED BY <1>9, <2>2 DEF Request
<1>10. Followed'
  BY <1>1, <1>9 DEF Followed, Requested
<1>11. Rejoined'
  BY <1>1, <1>2 DEF Rejoined, Unprepared, PeopleTypes
<1>12. OwnersCurrent'
  BY <1>1, <1>2 DEF OwnersCurrent, Unprepared
<1> QED BY <1>7, <1>8, <1>10, <1>11, <1>12 DEF PeopleInv

\* Contacts that were looked up are followed from now on; a lookup that failed is
\* not repeated.
LEMMA ContactsKeep ==
  ASSUME PeopleInv, NEW op \in contactOps, NEW ok \in BOOLEAN, SlotContactsReady(op, ok)
  PROVE  PeopleInv'
<1>1. PeopleTypes /\ Unprepared /\ Followed /\ Rejoined /\ OwnersCurrent
  BY DEF PeopleInv
<1>2. /\ UNCHANGED <<members, live, owners, isGroupChat, phase, ownerNames, ownerOps>>
      /\ contactOps' = contactOps \ {op}
  BY DEF SlotContactsReady, room, conv
<1>3. phase # "preparing"
  BY <1>1 DEF Unprepared
<1>4. op.who \in SUBSET People /\ op.joined \in BOOLEAN
  BY <1>1 DEF PeopleTypes
<1>5. Unprepared'
  BY <1>1, <1>2, <1>3 DEF Unprepared
<1>6. CASE ok
  <2>1. /\ statuses' = [c \in People |-> IF c \in op.who THEN live[c] ELSE statuses[c]]
        /\ watched' = watched \cup op.who /\ failed' = failed
        /\ shown' = IF op.joined THEN [c \in People |-> IF c \in op.who \ {Me} THEN "joined" ELSE shown[c]]
                    ELSE shown
    BY <1>6 DEF SlotContactsReady, Connected, Others
  <2>2. statuses' \in [People -> {Nobody} \cup Presence] /\ shown' \in [People -> {"none", "joined", "left"}]
    BY <1>1, <2>1 DEF PeopleTypes
  <2>3. Tracked' \subseteq watched'
    BY <1>1, <2>1 DEF PeopleTypes, Tracked
  <2>4. PeopleTypes'
    BY <1>1, <1>2, <2>2, <2>3 DEF PeopleTypes
  <2>5. Followed'
    <3> SUFFICES ASSUME NEW c \in members \ {Me}
                 PROVE  \/ \E o \in contactOps' : c \in o.who
                        \/ c \in failed'
                        \/ c \in watched' /\ statuses'[c] = live[c]
      BY <1>2 DEF Followed, Requested
    <3>1. c \in People
      BY <1>1 DEF PeopleTypes
    <3>2. CASE c \in op.who
      BY <2>1, <3>1, <3>2
    <3>3. CASE c \notin op.who
      BY <1>1, <1>2, <1>3, <2>1, <3>1, <3>3 DEF Followed, Requested
    <3> QED BY <3>2, <3>3
  <2>6. Rejoined'
    <3> SUFFICES ASSUME NEW c \in members \ {Me}, shown'[c] = "left"
                 PROVE  c \in failed' \/ \E o \in contactOps' : o.joined /\ c \in o.who
      BY <1>2 DEF Rejoined
    <3>1. c \in People
      BY <1>1 DEF PeopleTypes
    <3>2. ~(op.joined /\ c \in op.who) /\ shown[c] = "left"
      BY <2>1, <3>1
    <3> QED BY <1>1, <1>2, <2>1, <3>2 DEF Rejoined
  <2>7. OwnersCurrent'
    BY <1>1, <1>2, <2>1 DEF OwnersCurrent
  <2> QED BY <1>5, <2>4, <2>5, <2>6, <2>7 DEF PeopleInv
<1>7. CASE ~ok
  <2>1. failed' = failed \cup op.who /\ UNCHANGED <<statuses, watched, shown>>
    BY <1>7 DEF SlotContactsReady
  <2>2. PeopleTypes'
    BY <1>1, <1>2, <2>1 DEF PeopleTypes, Tracked
  <2>3. Followed' /\ Rejoined'
    BY <1>1, <1>2, <2>1 DEF Followed, Rejoined, Requested
  <2>4. OwnersCurrent'
    BY <1>1, <1>2, <2>1 DEF OwnersCurrent
  <2> QED BY <1>5, <2>2, <2>3, <2>4 DEF PeopleInv
<1> QED BY <1>6, <1>7

\* The presence of those who are followed changes with their own.
LEMMA PresenceKeeps ==
  ASSUME PeopleInv, NEW c \in People, NEW p \in Presence, SlotPresenceChanged(c, p), failed \subseteq failed'
  PROVE  PeopleInv'
<1>1. PeopleTypes /\ Unprepared /\ Followed /\ Rejoined /\ OwnersCurrent
  BY DEF PeopleInv
<1>2. /\ live' = [live EXCEPT ![c] = p]
      /\ statuses' = IF c \in watched THEN [statuses EXCEPT ![c] = p] ELSE statuses
      /\ UNCHANGED <<members, owners, isGroupChat, phase, watched, contactOps, ownerNames, ownerOps, shown>>
  BY DEF SlotPresenceChanged
<1>3. Unprepared' /\ Rejoined' /\ OwnersCurrent'
  BY <1>1, <1>2 DEF Unprepared, Rejoined, OwnersCurrent
<1>4. PeopleTypes'
  <2>1. live' \in [People -> Presence] /\ statuses' \in [People -> {Nobody} \cup Presence]
    BY <1>1, <1>2 DEF PeopleTypes
  <2>2. Tracked' \subseteq watched'
    BY <1>1, <1>2 DEF PeopleTypes, Tracked
  <2> QED BY <1>1, <1>2, <2>1, <2>2 DEF PeopleTypes
<1>5. Followed'
  <2> SUFFICES ASSUME NEW d \in members \ {Me}
               PROVE  \/ phase = "preparing" \/ Requested(d) \/ d \in failed'
                      \/ d \in watched /\ statuses'[d] = live'[d]
    BY <1>2 DEF Followed, Requested
  <2>1. d \in People
    BY <1>1 DEF PeopleTypes
  <2>2. CASE d = c
    BY <1>1, <1>2, <2>1, <2>2 DEF Followed, PeopleTypes
  <2>3. CASE d # c
    <3>1. statuses'[d] = statuses[d] /\ live'[d] = live[d]
      BY <1>1, <1>2, <2>1, <2>3 DEF PeopleTypes
    <3> QED BY <1>1, <3>1 DEF Followed
  <2> QED BY <2>2, <2>3
<1> QED BY <1>3, <1>4, <1>5 DEF PeopleInv

\* Whoever joins is looked up; whoever leaves is forgotten.
LEMMA MembersKeep ==
  ASSUME PeopleInv, NEW c \in People,
         MembersAdded(c) \/ \E kicked \in BOOLEAN : MembersRemoved(c, kicked)
  PROVE  PeopleInv'
<1>1. PeopleTypes /\ Unprepared /\ Followed /\ Rejoined /\ OwnersCurrent
  BY DEF PeopleInv
<1>2. CASE MembersAdded(c)
  <2>1. /\ isGroupChat /\ members' = members \cup {c}
        /\ phase = "preparing" => contactOps' = contactOps
        /\ phase # "preparing" => contactOps' = contactOps \cup {Request({c}, TRUE)}
        /\ UNCHANGED <<live, owners, phase, isGroupChat, statuses, watched, ownerNames, ownerOps, shown, failed>>
    BY <1>2 DEF MembersAdded, conv
  <2> DEFINE new == Request({c}, TRUE)
  <2>0. new \in [who : SUBSET People, joined : BOOLEAN] /\ new.joined = TRUE /\ new.who = {c}
    <3>1. {c} \in SUBSET People
      OBVIOUS
    <3> QED BY <3>1, RequestIs
  <2>9. phase # "preparing" => contactOps' = contactOps \cup {new}
    BY <2>1
  <2> HIDE DEF new
  <2>2. contactOps' \subseteq [who : SUBSET People, joined : BOOLEAN]
    BY <1>1, <2>0, <2>1, <2>9 DEF PeopleTypes
  <2>3. PeopleTypes' /\ Unprepared' /\ OwnersCurrent'
    BY <1>1, <2>1, <2>2 DEF PeopleTypes, Tracked, Unprepared, OwnersCurrent
  <2>4. phase # "preparing" => \E op \in contactOps' : op.joined /\ c \in op.who
    BY <2>0, <2>9
  <2>5. contactOps \subseteq contactOps'
    BY <2>1
  <2>6. Followed'
    BY <1>1, <2>1, <2>4, <2>5 DEF Followed, Requested
  <2>7. Rejoined'
    <3>1. phase = "preparing" => shown[c] # "left"
      BY <1>1 DEF Unprepared
    <3> QED BY <1>1, <2>1, <2>4, <2>5, <3>1 DEF Rejoined
  <2> QED BY <2>3, <2>6, <2>7 DEF PeopleInv
<1>3. ASSUME NEW kicked \in BOOLEAN, MembersRemoved(c, kicked) PROVE PeopleInv'
  <2>1. /\ members' = members \ {c} /\ isGroupChat
        /\ UNCHANGED <<live, owners, phase, isGroupChat, watched, contactOps, ownerNames, ownerOps, failed>>
        /\ phase = "preparing" => UNCHANGED <<statuses, shown>>
        /\ shown' = shown \/ shown' = [shown EXCEPT ![c] = "left"]
        /\ statuses' = statuses \/ statuses' = [statuses EXCEPT ![c] = Nobody]
    BY <1>3 DEF MembersRemoved, conv
  <2>2. \A d \in People \ {c} : shown'[d] = shown[d] /\ statuses'[d] = statuses[d]
    BY <1>1, <2>1 DEF PeopleTypes
  <2>3. /\ statuses' \in [People -> {Nobody} \cup Presence] /\ shown' \in [People -> {"none", "joined", "left"}]
        /\ Tracked' \subseteq Tracked
    BY <1>1, <2>1 DEF PeopleTypes, Tracked
  <2>4. PeopleTypes' /\ Unprepared' /\ OwnersCurrent'
    BY <1>1, <2>1, <2>3 DEF PeopleTypes, Unprepared, OwnersCurrent
  <2>5. \A d \in members' : d \in members /\ d \in People \ {c}
    BY <1>1, <2>1 DEF PeopleTypes
  <2>6. Followed' /\ Rejoined'
    BY <1>1, <2>1, <2>2, <2>5 DEF Followed, Rejoined, Requested
  <2> QED BY <2>4, <2>6 DEF PeopleInv
<1> QED BY <1>2, <1>3

\* Names come for the handles that are owned now, and others are asked for.
LEMMA OwnersKeep ==
  ASSUME PeopleInv,
         \/ \E who \in ownerOps, ok \in BOOLEAN : SlotHandleOwnersFetched(who, ok)
         \/ \E h \in Handles, c \in {Nobody} \cup (People \ {Me}) : SlotHandleOwnersChanged(h, c)
  PROVE  PeopleInv'
<1>1. PeopleTypes /\ Unprepared /\ Followed /\ Rejoined /\ OwnersCurrent
  BY DEF PeopleInv
<1>2. ASSUME NEW who \in ownerOps, NEW ok \in BOOLEAN, SlotHandleOwnersFetched(who, ok) PROVE PeopleInv'
  <2>1. /\ UNCHANGED <<members, live, owners, isGroupChat, phase, statuses, watched, contactOps, shown>>
        /\ ownerOps' = ownerOps \ {who}
        /\ ownerNames' = IF ok THEN [h \in Handles |-> IF owners[h] \in who THEN owners[h] ELSE ownerNames[h]]
                         ELSE ownerNames
        /\ failed' = IF ok THEN failed ELSE failed \cup {"owners"}
    BY <1>2 DEF SlotHandleOwnersFetched, Named, room, conv
  <2>2. phase # "preparing" /\ who \in SUBSET People
    BY <1>1 DEF Unprepared, PeopleTypes
  <2>3. ownerNames' \in [Handles -> {Nobody} \cup People]
    BY <1>1, <2>1 DEF PeopleTypes
  <2>4. PeopleTypes' /\ Unprepared' /\ Followed' /\ Rejoined'
    BY <1>1, <2>1, <2>2, <2>3 DEF PeopleTypes, Tracked, Unprepared, Followed, Requested, Rejoined
  <2>5. ASSUME NEW h \in Handles, ownerNames'[h] # Nobody
        PROVE  \/ ownerNames'[h] = owners[h]
               \/ owners[h] # Nobody /\ ("owners" \in failed' \/ \E w \in ownerOps' : owners[h] \in w)
    <3>1. CASE ok /\ owners[h] \in who
      BY <2>1, <3>1
    <3>2. CASE ~(ok /\ owners[h] \in who)
      <4>1. ownerNames'[h] = ownerNames[h]
        BY <2>1, <3>2
      <4>2. \/ ownerNames[h] = owners[h]
            \/ owners[h] # Nobody /\ ("owners" \in failed \/ \E w \in ownerOps : owners[h] \in w)
        BY <1>1, <2>5, <4>1 DEF OwnersCurrent
      <4> QED BY <2>1, <3>2, <4>1, <4>2
    <3> QED BY <3>1, <3>2
  <2>6. OwnersCurrent'
    BY <2>1, <2>2, <2>5 DEF OwnersCurrent
  <2> QED BY <2>4, <2>6 DEF PeopleInv
<1>3. ASSUME NEW h \in Handles, NEW c \in {Nobody} \cup (People \ {Me}), SlotHandleOwnersChanged(h, c)
      PROVE  PeopleInv'
  <2>1. /\ UNCHANGED <<members, live, isGroupChat, phase, statuses, watched, contactOps, shown, failed>>
        /\ owners' = [owners EXCEPT ![h] = c] /\ ownerOps \subseteq ownerOps'
        /\ phase = "preparing" => UNCHANGED <<ownerOps, ownerNames>>
        /\ ownerNames' = ownerNames \/ (c = Nobody /\ ownerNames' = [ownerNames EXCEPT ![h] = Nobody])
        /\ phase # "preparing" /\ c = Nobody => ownerNames' = [ownerNames EXCEPT ![h] = Nobody]
        /\ ownerOps' = ownerOps \/ (c # Nobody /\ ownerOps' = ownerOps \cup {{c}})
        /\ phase # "preparing" /\ c # Nobody => {c} \in ownerOps'
    BY <1>3 DEF SlotHandleOwnersChanged, conv
  <2>2. /\ owners' \in [Handles -> {Nobody} \cup People] /\ ownerNames' \in [Handles -> {Nobody} \cup People]
        /\ ownerOps' \subseteq SUBSET People
    BY <1>1, <2>1 DEF PeopleTypes
  <2>3. PeopleTypes' /\ Unprepared' /\ Followed' /\ Rejoined'
    BY <1>1, <2>1, <2>2 DEF PeopleTypes, Tracked, Unprepared, Followed, Requested, Rejoined
  <2>4. ASSUME NEW k \in Handles, ownerNames'[k] # Nobody
        PROVE  \/ ownerNames'[k] = owners'[k]
               \/ /\ phase # "preparing" /\ owners'[k] # Nobody
                  /\ "owners" \in failed \/ \E w \in ownerOps' : owners'[k] \in w
    <3>1. CASE k = h
      <4>1. owners'[h] = c
        BY <1>1, <2>1 DEF PeopleTypes
      <4>2. phase # "preparing"
        BY <1>1, <2>1, <2>4 DEF Unprepared
      <4>3. c # Nobody
        BY <1>1, <2>1, <2>4, <3>1, <4>2 DEF PeopleTypes
      <4> QED BY <2>1, <3>1, <4>1, <4>2, <4>3
    <3>2. CASE k # h
      <4>1. owners'[k] = owners[k] /\ ownerNames'[k] = ownerNames[k]
        BY <1>1, <2>1, <3>2 DEF PeopleTypes
      <4> QED BY <1>1, <2>1, <2>4, <4>1 DEF OwnersCurrent
    <3> QED BY <3>1, <3>2
  <2>5. OwnersCurrent'
    BY <2>1, <2>4 DEF OwnersCurrent
  <2> QED BY <2>3, <2>5 DEF PeopleInv
<1> QED BY <1>2, <1>3
-----------------------------------------------------------------------------
(* The invariant *)

\* The listener knows of no group and nobody at the start.
LEMMA InitInv == Init => IInv
<1> SUFFICES ASSUME Init PROVE IInv
  OBVIOUS
<1>1. OtherTypes
  BY ChatGroupAssumption DEF ChatGroupAssumption, Init, OtherTypes
<1>2. rows \in Seq(Groups) /\ Sensible(rows)
  <2>1. rows \in Seq(Groups \ Own) /\ Sensible(rows)
    BY ChatGroupAssumption DEF ChatGroupAssumption, Init
  <2> QED BY <2>1
<1>3. GroupInv
  <2>1. GroupTypes
    BY <1>2, ChatGroupAssumption DEF ChatGroupAssumption, Init, GroupTypes
  <2>2. Distinct /\ ExactApart
    BY <1>2 DEF Sensible, Distinct, ExactApart, Exact
  <2>3. CurrentIsListed /\ Phases /\ NoneMissed /\ Remembered
    BY DEF Init, CurrentIsListed, Phases, NoneMissed, Remembered
  <2> QED BY <2>1, <2>2, <2>3 DEF GroupInv
<1>4. PeopleInv
  <2>1. isGroupChat \in BOOLEAN /\ members \subseteq People /\ (~isGroupChat => members = {})
    BY ChatGroupAssumption DEF ChatGroupAssumption, Init
  <2>2. owners \in [Handles -> {Nobody} \cup People]
    BY DEF Init
  <2>3. Unknown \in Presence
    BY DEF Unknown, Presence
  <2>4. PeopleTypes
    BY <2>1, <2>2, <2>3 DEF Init, PeopleTypes, Tracked
  <2>5. Unprepared /\ Followed /\ Rejoined /\ OwnersCurrent
    BY <2>1 DEF Init, Unprepared, Followed, Rejoined, OwnersCurrent
  <2> QED BY <2>4, <2>5 DEF PeopleInv
<1> QED BY <1>1, <1>3, <1>4 DEF IInv

\* What a step does to a topic.
StoresTopic ==
  chatName' # chatName /\ group # NoGroup /\ group \notin renamed
    => dbName'[group] = chatName' \/ "modify" \in failed'

\* A move of the surroundings is counted.
LEMMA MoveCounts ==
  ASSUME moves \in 0 .. MaxMoves, Move
  PROVE  moves' \in 0 .. MaxMoves
BY ChatGroupAssumption DEF ChatGroupAssumption, Move

\* The actions of the group keep the invariant, and store a topic.
LEMMA GroupSteps ==
  ASSUME IInv,
         \/ ChannelReady \/ FillEventFromMessage
         \/ \E ok \in BOOLEAN : ModelReady(ok)
         \/ \E g \in Groups : \/ SlotGroupInserted(g) \/ SlotGroupRemoved(g) \/ SlotGroupDataChanged(g)
                              \/ \E n \in Names : GroupRenamed(g, n)
  PROVE  IInv' /\ StoresTopic
<1>1. OtherTypes /\ GroupInv /\ PeopleInv /\ Phases /\ GroupTypes
  BY DEF IInv, GroupInv
<1>2. CASE ChannelReady
  <2>1. OtherTypes'
    BY <1>1, <1>2 DEF ChannelReady, OnModelReady, OtherTypes, room
  <2>2. PeopleInv'
    BY <1>1, <1>2, PreparedKeeps
  <2>3. UNCHANGED <<database, chatName, replaced, failed>> /\ phase = "preparing"
    BY <1>2 DEF ChannelReady
  <2>4. GroupInv'
    <3>1. group = NoGroup /\ ~replaced
      BY <1>1, <2>3 DEF Phases
    <3>2. CASE modelState = "ready"
      <4>1. OnModelReady(TRUE) /\ modelState' = "ready" /\ phase # "listening"
        BY <1>2, <2>3, <3>2 DEF ChannelReady, database
      <4>2. UNCHANGED <<rows, dbName, renamed, chatName, replaced>> /\ failed' = failed
        BY <2>3 DEF database
      <4> QED BY <1>1, <3>1, <4>1, <4>2, ReadyKeeps
    <3>3. CASE modelState # "ready"
      <4>1. phase' = "waiting" /\ UNCHANGED <<group, groupName>>
        BY <1>2, <3>3 DEF ChannelReady
      <4>2. GroupTypes' /\ Phases' /\ NoneMissed'
        BY <1>1, <2>3, <3>3, <4>1 DEF GroupTypes, Phases, NoneMissed, database
      <4>3. Distinct' /\ (~replaced' => ExactApart') /\ CurrentIsListed' /\ Remembered'
        BY <1>1, <2>3, <4>1 DEF GroupInv, Distinct, ExactApart, Exact, CurrentIsListed, Remembered, database
      <4> QED BY <4>2, <4>3 DEF GroupInv
    <3> QED BY <3>2, <3>3
  <2> QED BY <2>1, <2>2, <2>3, <2>4 DEF IInv, StoresTopic
<1>3. CASE FillEventFromMessage
  <2>1. /\ EnsureGroup /\ phase = "listening"
        /\ UNCHANGED <<modelState, renamed, room, moves, phase, isGroupChat, chatName, props, people, replaced>>
    BY <1>3 DEF FillEventFromMessage
  <2>2. GroupInv' /\ failed \subseteq failed'
    BY <1>1, <2>1, EnsureKeeps
  <2>3. PeopleInv'
    BY <1>1, <2>1, <2>2, PeopleKept DEF room
  <2>4. OtherTypes'
    BY <1>1, <2>1 DEF OtherTypes, room
  <2> QED BY <2>1, <2>2, <2>3, <2>4 DEF IInv, StoresTopic
<1>4. ASSUME NEW ok \in BOOLEAN, ModelReady(ok) PROVE IInv' /\ StoresTopic
  <2>1. /\ modelState = "loading" /\ modelState' = IF ok THEN "ready" ELSE "failed"
        /\ UNCHANGED <<rows, dbName, renamed, room, moves, isGroupChat, chatName, people, replaced>>
        /\ failed' = IF ok THEN failed ELSE failed \cup {"model"}
    BY <1>4 DEF ModelReady, Try
  <2>2. /\ phase = "waiting" => OnModelReady(ok)
        /\ phase # "waiting" => UNCHANGED <<phase, group, groupName, props>>
    BY <1>4 DEF ModelReady
  <2>3. group = NoGroup /\ ~replaced /\ phase \in {"preparing", "waiting"} /\ renamed = {}
    BY <1>1, <2>1 DEF Phases, GroupTypes
  <2>4. OtherTypes'
    BY <1>1, <2>1, <2>2 DEF OtherTypes, OnModelReady, room
  <2>5. PeopleInv'
    <3>1. phase' = "preparing" <=> phase = "preparing"
      BY <2>2 DEF OnModelReady
    <3>2. failed \subseteq failed'
      BY <2>1
    <3> QED BY <1>1, <2>1, <3>1, <3>2, PeopleKept DEF room
  <2>6. GroupInv'
    <3>1. CASE phase = "waiting" /\ ok
      <4>1. OnModelReady(TRUE)
        BY <2>2, <3>1
      <4>2. modelState' = "ready" /\ failed' = failed
        BY <2>1, <3>1
      <4> QED BY <1>1, <2>1, <2>3, <4>1, <4>2, ReadyKeeps
    <3>2. CASE phase # "waiting" \/ ~ok
      <4>1. CASE phase = "waiting"
        <5>1. ~ok /\ group' = group /\ groupName' = groupName /\ phase' = "stuck"
          BY <2>2, <3>2, <4>1 DEF OnModelReady
        <5> QED BY <1>1, <2>1, <2>3, <5>1 DEF GroupInv, GroupTypes, CurrentIsListed, Remembered, Distinct,
                ExactApart, Exact, Phases, NoneMissed
      <4>2. CASE phase = "preparing"
        <5>1. UNCHANGED <<phase, group, groupName>>
          BY <2>2, <4>2
        <5> QED BY <1>1, <2>1, <2>3, <4>2, <5>1 DEF GroupInv, GroupTypes, CurrentIsListed, Remembered,
                Distinct, ExactApart, Exact, Phases, NoneMissed
      <4> QED BY <2>3, <4>1, <4>2
    <3> QED BY <3>1, <3>2
  <2> QED BY <2>1, <2>4, <2>5, <2>6 DEF IInv, StoresTopic
<1>5. ASSUME NEW g \in Groups,
             \/ SlotGroupInserted(g) \/ SlotGroupRemoved(g) \/ SlotGroupDataChanged(g)
             \/ \E n \in Names : GroupRenamed(g, n)
      PROVE  IInv' /\ StoresTopic
  <2>1. GroupInv'
    BY <1>1, <1>5, InsertedKeeps, RemovedKeeps, RenamedKeeps
  <2>2. UNCHANGED <<room, phase, isGroupChat, chatName, props, people, failed>>
    BY <1>5 DEF SlotGroupInserted, SlotGroupRemoved, SlotGroupDataChanged, GroupRenamed, conv
  <2>3. PeopleInv'
    BY <1>1, <2>2, PeopleKept DEF room
  <2>4. moves' \in 0 .. MaxMoves
    <3>1. Move \/ moves' = moves
      BY <1>5 DEF SlotGroupInserted, SlotGroupRemoved, SlotGroupDataChanged, GroupRenamed
    <3> QED BY <1>1, <3>1, MoveCounts DEF OtherTypes
  <2>5. OtherTypes'
    BY <1>1, <2>2, <2>4 DEF OtherTypes, room
  <2> QED BY <2>1, <2>2, <2>3, <2>5 DEF IInv, StoresTopic
<1> QED BY <1>2, <1>3, <1>4, <1>5
\* So do the properties of the room.
LEMMA TopicSteps ==
  ASSUME IInv,
         \/ \E ok \in BOOLEAN : SlotListPropertiesFinished(ok) \/ SlotGetPropertiesFinished(ok)
         \/ \E n \in Names : SlotPropertiesChanged(n)
  PROVE  IInv' /\ StoresTopic
<1>1. OtherTypes /\ GroupInv /\ PeopleInv
  BY DEF IInv
<1>2. ASSUME NEW ok \in BOOLEAN, SlotListPropertiesFinished(ok) PROVE IInv' /\ StoresTopic
  <2>1. /\ UNCHANGED <<database, room, moves, phase, isGroupChat, group, groupName, chatName, people, replaced>>
        /\ props' \in {"getting", "none"} /\ failed \subseteq failed'
    BY <1>2 DEF SlotListPropertiesFinished, Try
  <2>2. GroupInv' /\ PeopleInv'
    BY <1>1, <2>1, GroupKept, PeopleKept DEF room
  <2>3. OtherTypes'
    BY <1>1, <2>1 DEF OtherTypes, room
  <2> QED BY <2>1, <2>2, <2>3 DEF IInv, StoresTopic
<1>3. ASSUME NEW ok \in BOOLEAN, SlotGetPropertiesFinished(ok) PROVE IInv' /\ StoresTopic
  <2>1. /\ UNCHANGED <<rows, modelState, renamed, room, moves, phase, isGroupChat, group, people, replaced>>
        /\ props' = "known"
    BY <1>3 DEF SlotGetPropertiesFinished
  <2>2. GroupInv' /\ failed \subseteq failed' /\ StoresTopic
    <3>1. CASE ok
      <4>1. UpdateGroupChatName(topic) /\ topic \in Names
        BY <1>1, <1>3, <3>1 DEF SlotGetPropertiesFinished, InitialTopic, OtherTypes
      <4> QED BY <1>1, <2>1, <4>1, TopicKeeps DEF StoresTopic
    <3>2. CASE ~ok
      <4>1. failed' = failed \cup {"get"} /\ UNCHANGED <<chatName, groupName, dbName>>
        BY <1>3, <3>2 DEF SlotGetPropertiesFinished
      <4> QED BY <1>1, <2>1, <4>1, GroupKept DEF StoresTopic, database
    <3> QED BY <3>1, <3>2
  <2>3. PeopleInv'
    BY <1>1, <2>1, <2>2, PeopleKept DEF room
  <2>4. OtherTypes'
    BY <1>1, <2>1 DEF OtherTypes, room
  <2> QED BY <2>2, <2>3, <2>4 DEF IInv
<1>4. ASSUME NEW n \in Names, SlotPropertiesChanged(n) PROVE IInv' /\ StoresTopic
  <2>1. /\ UNCHANGED <<rows, modelState, renamed, members, live, owners, phase, isGroupChat, group, props,
                       people, replaced>>
        /\ Move /\ topic' = n
    BY <1>4 DEF SlotPropertiesChanged
  <2>2. GroupInv' /\ failed \subseteq failed' /\ StoresTopic
    <3>1. CASE props \in {"getting", "known"}
      <4>1. UpdateGroupChatName(n)
        BY <1>4, <3>1 DEF SlotPropertiesChanged
      <4> QED BY <1>1, <2>1, <4>1, TopicKeeps DEF StoresTopic
    <3>2. CASE props \notin {"getting", "known"}
      <4>1. UNCHANGED <<chatName, groupName, dbName, failed>>
        BY <1>4, <3>2 DEF SlotPropertiesChanged
      <4> QED BY <1>1, <2>1, <4>1, GroupKept DEF StoresTopic, database
    <3> QED BY <3>1, <3>2
  <2>3. PeopleInv'
    BY <1>1, <2>1, <2>2, PeopleKept
  <2>4. OtherTypes'
    BY <1>1, <2>1, MoveCounts DEF OtherTypes
  <2> QED BY <2>2, <2>3, <2>4 DEF IInv
<1> QED BY <1>2, <1>3, <1>4

\* And what happens to the people.
LEMMA PeopleSteps ==
  ASSUME IInv,
         \/ \E ok \in BOOLEAN : \/ \E op \in contactOps : SlotContactsReady(op, ok)
                                \/ \E who \in ownerOps : SlotHandleOwnersFetched(who, ok)
         \/ \E c \in People : \/ \E p \in Presence : SlotPresenceChanged(c, p)
                              \/ MembersAdded(c)
                              \/ \E kicked \in BOOLEAN : MembersRemoved(c, kicked)
         \/ \E h \in Handles, c \in {Nobody} \cup (People \ {Me}) : SlotHandleOwnersChanged(h, c)
  PROVE  IInv' /\ StoresTopic
<1>1. OtherTypes /\ GroupInv /\ PeopleInv
  BY DEF IInv
<1>2. ASSUME NEW c \in People, NEW p \in Presence, SlotPresenceChanged(c, p) PROVE IInv' /\ StoresTopic
  <2>1. /\ Move
        /\ UNCHANGED <<modelState, renamed, topic, phase, isGroupChat, chatName, props, replaced>>
    BY <1>2 DEF SlotPresenceChanged
  <2>2. (EnsureGroup /\ c \in watched) \/ UNCHANGED <<rows, dbName, group, groupName, failed>>
    BY <1>2 DEF SlotPresenceChanged
  <2>3. GroupInv' /\ failed \subseteq failed'
    <3>1. CASE EnsureGroup /\ c \in watched
      <4>1. phase \in {"listening", "waiting", "stuck"}
        BY <1>1, <3>1 DEF GroupInv, GroupTypes, PeopleInv, Unprepared
      <4> QED BY <1>1, <2>1, <3>1, <4>1, EnsureKeeps
    <3>2. CASE UNCHANGED <<rows, dbName, group, groupName, failed>>
      BY <1>1, <2>1, <3>2, GroupKept DEF database
    <3> QED BY <2>2, <3>1, <3>2
  <2>4. PeopleInv'
    BY <1>1, <1>2, <2>3, PresenceKeeps
  <2>5. OtherTypes'
    BY <1>1, <2>1, MoveCounts DEF OtherTypes
  <2> QED BY <2>1, <2>3, <2>4, <2>5 DEF IInv, StoresTopic
<1>3. ASSUME \/ \E ok \in BOOLEAN : \/ \E op \in contactOps : SlotContactsReady(op, ok)
                                    \/ \E who \in ownerOps : SlotHandleOwnersFetched(who, ok)
             \/ \E c \in People : MembersAdded(c) \/ \E kicked \in BOOLEAN : MembersRemoved(c, kicked)
             \/ \E h \in Handles, c \in {Nobody} \cup (People \ {Me}) : SlotHandleOwnersChanged(h, c)
      PROVE  IInv' /\ StoresTopic
  <2>1. UNCHANGED <<database, topic, conv, replaced>> /\ failed \subseteq failed'
    BY <1>3 DEF SlotContactsReady, SlotHandleOwnersFetched, MembersAdded, MembersRemoved,
                SlotHandleOwnersChanged, room
  <2>2. moves' = moves \/ Move
    BY <1>3 DEF SlotContactsReady, SlotHandleOwnersFetched, MembersAdded, MembersRemoved,
                SlotHandleOwnersChanged
  <2>3. PeopleInv'
    BY <1>1, <1>3, ContactsKeep, MembersKeep, OwnersKeep
  <2>4. GroupInv'
    BY <1>1, <2>1, GroupKept DEF conv
  <2>5. OtherTypes'
    BY <1>1, <2>1, <2>2, MoveCounts DEF OtherTypes, conv
  <2> QED BY <2>1, <2>3, <2>4, <2>5 DEF IInv, StoresTopic, conv
<1> QED BY <1>2, <1>3

\* Every step keeps the invariant, and stores the topic it hears.
LEMMA NextInv == IInv /\ [Next]_vars => IInv' /\ StoresTopic
<1> SUFFICES ASSUME IInv, [Next]_vars PROVE IInv' /\ StoresTopic
  OBVIOUS
<1>1. CASE UNCHANGED vars
  <2>1. UNCHANGED <<database, room, moves, conv, people, replaced, failed>>
    BY <1>1 DEF vars
  <2>2. OtherTypes /\ GroupInv /\ PeopleInv
    BY DEF IInv
  <2>3. OtherTypes'
    BY <2>1, <2>2 DEF OtherTypes, room, conv
  <2>4. GroupInv' /\ PeopleInv'
    BY <2>1, <2>2, GroupKept, PeopleKept DEF room, conv
  <2> QED BY <2>1, <2>3, <2>4 DEF IInv, StoresTopic, conv
<1>2. CASE Next
  <2>1. CASE \/ ChannelReady \/ FillEventFromMessage
             \/ \E ok \in BOOLEAN : ModelReady(ok)
             \/ \E g \in Groups : \/ SlotGroupInserted(g) \/ SlotGroupRemoved(g) \/ SlotGroupDataChanged(g)
                                  \/ \E n \in Names : GroupRenamed(g, n)
    BY <2>1, GroupSteps
  <2>2. CASE \/ \E ok \in BOOLEAN : SlotListPropertiesFinished(ok) \/ SlotGetPropertiesFinished(ok)
             \/ \E n \in Names : SlotPropertiesChanged(n)
    BY <2>2, TopicSteps
  <2>3. CASE \/ \E ok \in BOOLEAN : \/ \E op \in contactOps : SlotContactsReady(op, ok)
                                    \/ \E who \in ownerOps : SlotHandleOwnersFetched(who, ok)
             \/ \E c \in People : \/ \E p \in Presence : SlotPresenceChanged(c, p)
                                  \/ MembersAdded(c)
                                  \/ \E kicked \in BOOLEAN : MembersRemoved(c, kicked)
             \/ \E h \in Handles, c \in {Nobody} \cup (People \ {Me}) : SlotHandleOwnersChanged(h, c)
    BY <2>3, PeopleSteps
  <2> QED BY <1>2, <2>1, <2>2, <2>3 DEF Next
<1> QED BY <1>1, <1>2

-----------------------------------------------------------------------------
(* The properties *)

LEMMA Invariance == Spec => []IInv
<1>1. IInv /\ [Next]_vars => IInv'
  BY NextInv
<1> QED BY <1>1, InitInv, PTL DEF Spec

\* Every variable stays in its type; so do the presences that are followed.
THEOREM TypeCorrect == Spec => []TypeOK
<1>1. IInv => TypeOK
  BY DEF IInv, OtherTypes, GroupInv, GroupTypes, PeopleInv, PeopleTypes, TypeOK
<1> QED BY <1>1, Invariance, PTL

\* The conversation that is logged into exists, and is the only one of the chat as
\* long as nobody removed the one in use.
THEOREM Stays == Spec => []ConversationStays
<1>1. IInv => ConversationStays
  <2> SUFFICES ASSUME IInv PROVE ConversationStays
    OBVIOUS
  <2>1. CurrentIsListed /\ (~replaced => ExactApart)
    BY DEF IInv, GroupInv
  <2>2. ASSUME ~replaced PROVE Cardinality(Fits(1, Len(rows), "exact")) <= 1
    <3> DEFINE exact == Fits(1, Len(rows), "exact")
    <3>1. \A i, j \in exact : i = j
      BY <2>1, <2>2 DEF ExactApart, Exact, Fits
    <3> HIDE DEF exact
    <3>2. CASE exact = {}
      <4>1. Cardinality(exact) = 0
        BY <3>2, FS_EmptySet
      <4> QED BY <4>1 DEF exact
    <3>3. CASE exact # {}
      <4>1. PICK i \in exact : exact = {i}
        BY <3>1, <3>3
      <4>2. Cardinality(exact) = 1
        BY <4>1, FS_Singleton
      <4> QED BY <4>2 DEF exact
    <3> QED BY <3>2, <3>3
  <2> QED BY <2>1, <2>2 DEF ConversationStays, OneConversation
<1> QED BY <1>1, Invariance, PTL

\* A topic that is heard is stored, unless the database refuses it or news of
\* another name are to come.
THEOREM TopicIsStored == Spec => TopicStored
<1>1. IInv /\ [Next]_vars => StoresTopic
  BY NextInv
<1>2. IInv /\ [Next]_vars =>
        [chatName' # chatName /\ group # NoGroup /\ group \notin renamed
           => dbName'[group] = chatName' \/ "modify" \in failed']_vars
  BY <1>1 DEF StoresTopic
<1> QED BY <1>2, Invariance, PTL DEF Spec, TopicStored

\* What the listener believes of the people agrees with the room, whatever order
\* answers and changes come in.
THEOREM Current == Spec => []PeopleAreCurrent
<1>1. IInv => PeopleAreCurrent
  <2> SUFFICES ASSUME IInv PROVE PeopleAreCurrent
    OBVIOUS
  <2>1. PeopleTypes /\ Followed /\ Rejoined /\ OwnersCurrent
    BY DEF IInv, PeopleInv
  <2>2. NobodyOnline
    <3> SUFFICES ASSUME AreRemotePartiesOffline, NEW c \in members \ {Me}, phase # "preparing",
                        ~Requested(c), c \notin failed
                 PROVE  ~live[c].on
      BY DEF NobodyOnline
    <3>1. statuses[c] = live[c] /\ c \in People /\ live[c] \in Presence
      BY <2>1 DEF Followed, PeopleTypes
    <3>2. statuses[c] # Nobody
      BY <3>1, ChatGroupAssumption DEF ChatGroupAssumption
    <3> QED BY <3>1, <3>2 DEF AreRemotePartiesOffline, Tracked
  <2>3. ShownAsMember
    BY <2>1 DEF ShownAsMember, Rejoined, Requested
  <2> QED BY <2>1, <2>2, <2>3 DEF PeopleAreCurrent
<1> QED BY <1>1, Invariance, PTL
===============================================================================
