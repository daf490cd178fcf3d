------------------------ MODULE MessageReviverProofs ------------------------
(***************************************************************************)
(* Proofs about MessageReviver, for every set of tokens, connections and   *)
(* paths, every number of retries and all of the failures: type            *)
(* correctness, that checks and redeliveries are bounded, that nothing is  *)
(* forgotten that is not in the database, and that only what two answers   *)
(* contained is acted on.                                                  *)
(***************************************************************************)
EXTENDS MessageReviver, FiniteSetTheorems, SequenceTheorems, TLAPS

-----------------------------------------------------------------------------
(* The inductive invariant *)

\* The connection manager is asked to forget only what is in the database.
BuriedAreSaved ==
  \A c \in Conns : \A i \in DOMAIN bus[c] :
    bus[c][i].op = "expunge" => bus[c][i].tokens \subseteq db

\* What is watched was in the last answer.
WatchedWereSeen == \A p \in Paths : messageTokens[p] \subseteq lastReply[p]

IInv == TypeOK /\ ChecksBounded /\ NothingLost /\ BuriedAreSaved /\ WatchedWereSeen

-----------------------------------------------------------------------------
(* Counting the Get calls on a bus *)

Call == [op : Ops, tokens : SUBSET Tokens]

GetIndexes(s) == {i \in DOMAIN s : s[i].op = "get"}

GetCount(s) == Cardinality(GetIndexes(s))

\* There are finitely many calls on a bus.
LEMMA GetCountType ==
  ASSUME NEW s \in Seq(Call)
  PROVE  IsFiniteSet(GetIndexes(s)) /\ GetCount(s) \in Nat
<1>1. Len(s) \in Nat /\ GetIndexes(s) \subseteq 1 .. Len(s)
  BY DEF GetIndexes
<1>2. IsFiniteSet(1 .. Len(s))
  BY <1>1, FS_Interval
<1> QED BY <1>1, <1>2, FS_Subset, FS_CardinalityType DEF GetCount

\* A Get that is sent counts.
LEMMA AppendGet ==
  ASSUME NEW s \in Seq(Call)
  PROVE  Append(s, Get) \in Seq(Call) /\ GetCount(Append(s, Get)) = GetCount(s) + 1
<1>1. Get \in Call /\ Get.op = "get"
  BY DEF Get, Call, Ops
<1> DEFINE g == Get
           t == Append(s, g)
<1> HIDE DEF g
<1>2. g \in Call /\ g.op = "get"
  BY <1>1 DEF g
<1>3. /\ t \in Seq(Call) /\ Len(t) = Len(s) + 1 /\ Len(s) \in Nat
      /\ \A i \in 1 .. Len(s) : t[i] = s[i]
      /\ t[Len(s) + 1] = g
  BY <1>2, AppendProperties
<1> HIDE DEF t
<1>4. DOMAIN t = 1 .. Len(s) + 1 /\ DOMAIN s = 1 .. Len(s)
  BY <1>3
<1>5. GetIndexes(t) = GetIndexes(s) \cup {Len(s) + 1} /\ Len(s) + 1 \notin GetIndexes(s)
  BY <1>2, <1>3, <1>4 DEF GetIndexes
<1>6. GetCount(t) = GetCount(s) + 1
  BY <1>5, GetCountType, FS_AddElement DEF GetCount
<1> QED BY <1>3, <1>6 DEF t, g

\* Other calls do not.
LEMMA AppendOther ==
  ASSUME NEW s \in Seq(Call), NEW x \in Call, x.op # "get"
  PROVE  Append(s, x) \in Seq(Call) /\ GetCount(Append(s, x)) = GetCount(s)
<1> DEFINE t == Append(s, x)
<1>1. /\ t \in Seq(Call) /\ Len(t) = Len(s) + 1 /\ Len(s) \in Nat
      /\ \A i \in 1 .. Len(s) : t[i] = s[i]
      /\ t[Len(s) + 1] = x
  BY AppendProperties
<1> HIDE DEF t
<1>2. DOMAIN t = 1 .. Len(s) + 1 /\ DOMAIN s = 1 .. Len(s)
  BY <1>1
<1>3. GetIndexes(t) = GetIndexes(s)
  BY <1>1, <1>2 DEF GetIndexes
<1> QED BY <1>1, <1>3 DEF GetCount, t

\* Indexes that move are as many as they were.
LEMMA Shifted ==
  ASSUME NEW G \in SUBSET Nat, IsFiniteSet(G)
  PROVE  /\ IsFiniteSet({i + 1 : i \in G})
         /\ Cardinality({i + 1 : i \in G}) = Cardinality(G)
<1> DEFINE R == {i + 1 : i \in G}
           f == [i \in G |-> i + 1]
<1>1. f \in [G -> R]
  OBVIOUS
<1>2. \A i, j \in G : f[i] = f[j] => i = j
  OBVIOUS
<1>3. \A r \in R : \E i \in G : f[i] = r
  OBVIOUS
<1> HIDE DEF f, R
<1>4. ExistsBijection(G, R)
  <2>1. f \in Injection(G, R)
    BY <1>1, <1>2 DEF Injection, IsInjective
  <2>2. f \in Surjection(G, R)
    BY <1>1, <1>3 DEF Surjection
  <2> QED BY <2>1, <2>2 DEF ExistsBijection, Bijection
<1>5. IsFiniteSet(R) /\ Cardinality(R) = Cardinality(G)
  BY <1>4, FS_Bijection
<1> QED BY <1>5 DEF R

\* The call that is taken from the bus counts no more.
LEMMA TailGet ==
  ASSUME NEW s \in Seq(Call), s # <<>>
  PROVE  /\ Tail(s) \in Seq(Call) /\ Head(s) \in Call
         /\ \A i \in DOMAIN Tail(s) : i + 1 \in DOMAIN s /\ Tail(s)[i] = s[i + 1]
         /\ Head(s) = s[1] /\ 1 \in DOMAIN s
         /\ GetCount(s) = GetCount(Tail(s)) + (IF Head(s).op = "get" THEN 1 ELSE 0)
<1> DEFINE t == Tail(s)
<1>1. Len(s) \in Nat /\ Len(s) >= 1
  BY EmptySeq
<1>2. /\ t \in Seq(Call) /\ Len(t) = Len(s) - 1
      /\ \A i \in 1 .. Len(s) - 1 : t[i] = s[i + 1]
      /\ Head(s) \in Call /\ Head(s) = s[1]
  BY <1>1, HeadTailProperties
<1> HIDE DEF t
<1>3. DOMAIN t = 1 .. Len(s) - 1 /\ DOMAIN s = 1 .. Len(s)
  BY <1>1, <1>2
<1> DEFINE G == GetIndexes(t)
           R == {i + 1 : i \in G}
<1>5. IsFiniteSet(G) /\ GetCount(t) = Cardinality(G) /\ GetCount(t) \in Nat
  BY <1>2, GetCountType DEF GetCount
<1>6. IsFiniteSet(R) /\ Cardinality(R) = Cardinality(G)
  <2>1. G \in SUBSET Nat
    BY <1>1, <1>3 DEF GetIndexes
  <2> HIDE DEF G
  <2> QED BY <1>5, <2>1, Shifted
<1>7. 1 \notin R
  BY <1>1, <1>3 DEF GetIndexes
<1>8. GetIndexes(s) \subseteq R \cup {1} /\ R \subseteq GetIndexes(s)
  <2>1. ASSUME NEW i \in GetIndexes(s), i # 1 PROVE i \in R
    <3>1. i - 1 \in G /\ i = (i - 1) + 1
      BY <1>1, <1>2, <1>3, <2>1 DEF GetIndexes
    <3> QED BY <3>1
  <2>2. ASSUME NEW i \in G PROVE i + 1 \in GetIndexes(s)
    BY <1>1, <1>2, <1>3, <2>2 DEF GetIndexes
  <2> QED BY <2>1, <2>2
<1>9. 1 \in GetIndexes(s) <=> Head(s).op = "get"
  BY <1>1, <1>2, <1>3 DEF GetIndexes
<1>10. CASE Head(s).op = "get"
  <2>1. GetIndexes(s) = R \cup {1}
    BY <1>8, <1>9, <1>10
  <2>2. GetCount(s) = GetCount(t) + 1
    <3> HIDE DEF G, R
    <3> QED BY <1>5, <1>6, <1>7, <2>1, FS_AddElement DEF GetCount
  <2> QED BY <1>1, <1>2, <1>3, <1>10, <2>2 DEF t
<1>11. CASE Head(s).op # "get"
  <2>1. GetIndexes(s) = R
    BY <1>8, <1>9, <1>11
  <2>2. GetCount(s) = GetCount(t)
    <3> HIDE DEF G, R
    <3> QED BY <1>5, <1>6, <2>1 DEF GetCount
  <2> QED BY <1>1, <1>2, <1>3, <1>5, <1>11, <2>2 DEF t
<1> QED BY <1>10, <1>11

\* An empty bus has none.
LEMMA EmptyGet == <<>> \in Seq(Call) /\ GetCount(<<>>) = 0
<1>1. GetIndexes(<<>>) = {}
  BY DEF GetIndexes
<1> QED BY <1>1, FS_EmptySet DEF GetCount

-----------------------------------------------------------------------------
(* What a step does to the checks of the connections *)

ChecksTyped ==
  /\ bus \in [Conns -> Seq(Call)] /\ replies \in [Conns -> Seq(Answers)]
  /\ timers \in [Conns -> Nat] /\ retries \in [Paths -> 0 .. MAX_RETRIES]
  /\ handled \in [Paths -> Nat]

\* Checks go on, or end; none begins.
GoOn ==
  /\ \A c \in Conns : Checks(c)' <= Checks(c)
  /\ UNCHANGED <<retries, handled>>

\* The check of a connection that has none begins, and is paid for.
Begins(c) ==
  /\ Checks(c) = 0 /\ Checks(c)' = 1
  /\ \A d \in Conns \ {c} : Checks(d)' = Checks(d)
  /\ retries[Path[c]] < MAX_RETRIES
  /\ retries' = [retries EXCEPT ![Path[c]] = @ + 1] /\ handled' = handled

\* The check of a connection ends with handleMessages.
Handles(c) ==
  /\ Checks(c) > 0 /\ Checks(c)' = Checks(c) - 1
  /\ \A d \in Conns \ {c} : Checks(d)' = Checks(d)
  /\ handled' = [handled EXCEPT ![Path[c]] = @ + 1] /\ retries' = retries

CheckStep == GoOn \/ \E c \in Conns : Begins(c) \/ Handles(c)

LEMMA ChecksNat ==
  ASSUME ChecksTyped
  PROVE  \A c \in Conns : /\ Checks(c) \in Nat /\ Gets(c) \in Nat /\ Gets(c) = GetCount(bus[c])
                          /\ Len(replies[c]) \in Nat /\ timers[c] \in Nat
                          /\ Checks(c) = GetCount(bus[c]) + Len(replies[c]) + timers[c]
<1> SUFFICES ASSUME NEW c \in Conns
             PROVE  /\ Checks(c) \in Nat /\ Gets(c) \in Nat /\ Gets(c) = GetCount(bus[c])
                    /\ Len(replies[c]) \in Nat /\ timers[c] \in Nat
                    /\ Checks(c) = GetCount(bus[c]) + Len(replies[c]) + timers[c]
  OBVIOUS
<1>1. bus[c] \in Seq(Call) /\ replies[c] \in Seq(Answers) /\ timers[c] \in Nat
  BY DEF ChecksTyped
<1>2. Gets(c) = GetCount(bus[c])
  BY DEF Gets, GetCount, GetIndexes
<1>3. GetCount(bus[c]) \in Nat /\ Len(replies[c]) \in Nat
  BY <1>1, GetCountType
<1> QED BY <1>1, <1>2, <1>3 DEF Checks

LEMMA ChecksNatNext ==
  ASSUME ChecksTyped'
  PROVE  \A c \in Conns : /\ Checks(c)' \in Nat
                          /\ Checks(c)' = GetCount(bus'[c]) + Len(replies'[c]) + timers'[c]
<1> SUFFICES ASSUME NEW c \in Conns
             PROVE  /\ Checks(c)' \in Nat
                    /\ Checks(c)' = GetCount(bus'[c]) + Len(replies'[c]) + timers'[c]
  OBVIOUS
<1>1. bus'[c] \in Seq(Call) /\ replies'[c] \in Seq(Answers) /\ timers'[c] \in Nat
  BY DEF ChecksTyped
<1>2. Gets(c)' = GetCount(bus'[c])
  BY DEF Gets, GetCount, GetIndexes
<1>3. GetCount(bus'[c]) \in Nat /\ Len(replies'[c]) \in Nat
  BY <1>1, GetCountType
<1> QED BY <1>1, <1>2, <1>3 DEF Checks

\* The checks after a step that touches the queues of one connection only.
LEMMA OnlyOne ==
  ASSUME ChecksTyped, ChecksTyped', NEW c \in Conns,
         \A d \in Conns \ {c} :
            bus'[d] = bus[d] /\ replies'[d] = replies[d] /\ timers'[d] = timers[d]
  PROVE  /\ \A d \in Conns \ {c} : Checks(d)' = Checks(d)
         /\ \A d \in Conns : Checks(d) \in Nat /\ Checks(d)' \in Nat
         /\ Checks(c)' = GetCount(bus'[c]) + Len(replies'[c]) + timers'[c]
<1>1. \A d \in Conns : /\ Checks(d) \in Nat
                       /\ Checks(d) = GetCount(bus[d]) + Len(replies[d]) + timers[d]
  BY ChecksNat
<1>2. \A d \in Conns : /\ Checks(d)' \in Nat
                       /\ Checks(d)' = GetCount(bus'[d]) + Len(replies'[d]) + timers'[d]
  BY ChecksNatNext
<1> QED BY <1>1, <1>2

\* The connections of a path that are being checked.
Busy(p) == {c \in Conns : Path[c] = p /\ Checks(c) > 0}

\* Every such step keeps the checks bounded.
LEMMA BoundedStep ==
  ASSUME ChecksTyped, ChecksTyped', ChecksBounded, CheckStep
  PROVE  ChecksBounded'
<1>1. /\ \A c \in Conns : Checks(c) \in Nat /\ Checks(c)' \in Nat /\ Path[c] \in Paths
      /\ \A c \in Conns : Checks(c) <= 1
  BY ChecksNat, ChecksNatNext DEF ChecksBounded, OneCheck, Paths
<1>2. \A p \in Paths : /\ Busy(p) \in SUBSET Conns /\ Busy(p)' \in SUBSET Conns
                       /\ IsFiniteSet(Busy(p)) /\ IsFiniteSet(Busy(p)')
                       /\ Cardinality(Busy(p)) \in Nat /\ Cardinality(Busy(p)') \in Nat
  <2> TAKE p \in Paths
  <2>1. Busy(p) \in SUBSET Conns /\ Busy(p)' \in SUBSET Conns
    BY DEF Busy
  <2> QED BY <2>1, ReviverAssumption, FS_Subset, FS_CardinalityType DEF ReviverAssumption
<1>3. \A p \in Paths : handled[p] + Cardinality(Busy(p)) <= retries[p]
  BY DEF ChecksBounded, RedeliveryBounded, Busy
<1>4. \A p \in Paths : /\ handled[p] \in Nat /\ handled'[p] \in Nat
                       /\ retries[p] \in Nat /\ retries'[p] \in Nat
  BY ReviverAssumption DEF ChecksTyped, ReviverAssumption
<1>5. OneCheck'
  <2> SUFFICES ASSUME NEW d \in Conns PROVE Checks(d)' <= 1
    BY DEF OneCheck
  <2>1. CASE GoOn
    BY <1>1, <2>1 DEF GoOn
  <2>2. ASSUME NEW c \in Conns, Begins(c) PROVE Checks(d)' <= 1
    BY <1>1, <2>2 DEF Begins
  <2>3. ASSUME NEW c \in Conns, Handles(c) PROVE Checks(d)' <= 1
    BY <1>1, <2>3 DEF Handles
  <2> QED BY <2>1, <2>2, <2>3 DEF CheckStep
<1>6. ASSUME NEW p \in Paths PROVE handled'[p] + Cardinality(Busy(p)') <= retries'[p]
  <2>1. CASE GoOn
    <3>1. Busy(p)' \subseteq Busy(p)
      BY <1>1, <2>1 DEF GoOn, Busy
    <3>2. Cardinality(Busy(p)') <= Cardinality(Busy(p))
      BY <1>2, <3>1, FS_Subset
    <3> QED BY <1>2, <1>3, <1>4, <2>1, <3>2 DEF GoOn
  <2>2. ASSUME NEW c \in Conns, Begins(c)
        PROVE  handled'[p] + Cardinality(Busy(p)') <= retries'[p]
    <3>1. Busy(p)' \subseteq Busy(p) \cup {c} /\ c \notin Busy(p)
      BY <1>1, <2>2 DEF Begins, Busy
    <3>2. CASE p = Path[c]
      <4>1. IsFiniteSet(Busy(p) \cup {c}) /\ Cardinality(Busy(p) \cup {c}) = Cardinality(Busy(p)) + 1
        BY <1>2, <3>1, FS_AddElement
      <4>2. Cardinality(Busy(p)') <= Cardinality(Busy(p)) + 1
        BY <3>1, <4>1, FS_Subset
      <4>3. handled'[p] = handled[p] /\ retries'[p] = retries[p] + 1
        BY <2>2, <3>2 DEF Begins, ChecksTyped
      <4> QED BY <1>2, <1>3, <1>4, <4>2, <4>3
    <3>3. CASE p # Path[c]
      <4>1. Busy(p)' \subseteq Busy(p)
        BY <3>1, <3>3 DEF Busy
      <4>2. Cardinality(Busy(p)') <= Cardinality(Busy(p))
        BY <1>2, <4>1, FS_Subset
      <4>3. handled'[p] = handled[p] /\ retries'[p] = retries[p]
        BY <2>2, <3>3 DEF Begins, ChecksTyped
      <4> QED BY <1>2, <1>3, <1>4, <4>2, <4>3
    <3> QED BY <3>2, <3>3
  <2>3. ASSUME NEW c \in Conns, Handles(c)
        PROVE  handled'[p] + Cardinality(Busy(p)') <= retries'[p]
    <3>1. Busy(p)' \subseteq Busy(p) \ {c} /\ (p = Path[c] => c \in Busy(p))
      BY <1>1, <2>3 DEF Handles, Busy
    <3>2. CASE p = Path[c]
      <4>1. IsFiniteSet(Busy(p) \ {c}) /\ Cardinality(Busy(p) \ {c}) = Cardinality(Busy(p)) - 1
        BY <1>2, <3>1, <3>2, FS_RemoveElement
      <4>2. Cardinality(Busy(p)') <= Cardinality(Busy(p)) - 1
        BY <3>1, <4>1, FS_Subset
      <4>3. handled'[p] = handled[p] + 1 /\ retries'[p] = retries[p]
        BY <2>3, <3>2 DEF Handles, ChecksTyped
      <4> QED BY <1>2, <1>3, <1>4, <4>2, <4>3
    <3>3. CASE p # Path[c]
      <4>1. Busy(p)' \subseteq Busy(p)
        BY <3>1
      <4>2. Cardinality(Busy(p)') <= Cardinality(Busy(p))
        BY <1>2, <4>1, FS_Subset
      <4>3. handled'[p] = handled[p] /\ retries'[p] = retries[p]
        BY <2>3, <3>3 DEF Handles, ChecksTyped
      <4> QED BY <1>2, <1>3, <1>4, <4>2, <4>3
    <3> QED BY <3>2, <3>3
  <2> QED BY <2>1, <2>2, <2>3 DEF CheckStep
<1>7. RedeliveryBounded'
  BY <1>6 DEF RedeliveryBounded, Busy
<1> QED BY <1>5, <1>7 DEF ChecksBounded

-----------------------------------------------------------------------------
(* The steps *)

\* The other variables have their types.
RestTyped ==
  /\ conn \in [Conns -> {"none", "valid", "invalid"}]
  /\ stored \in [Paths -> SUBSET Tokens]
  /\ arrived \in [Paths -> SUBSET Tokens]
  /\ db \subseteq Tokens /\ delivered \subseteq Tokens
  /\ messageTokens \in [Paths -> SUBSET Tokens]
  /\ lastReply \in [Paths -> SUBSET Tokens]
  /\ requested \in [Paths -> SUBSET Tokens]
  /\ broken \subseteq Paths

LEMMA TypesSplit == TypeOK <=> ChecksTyped /\ RestTyped
BY DEF TypeOK, ChecksTyped, RestTyped, Call

\* What a step does to the tokens it acts on.
SeenTwice ==
  \A p \in Paths : requested'[p] \ requested[p] \subseteq lastReply[p] \cap lastReply'[p]

Result ==
  /\ RestTyped' /\ ChecksTyped' /\ CheckStep
  /\ NothingLost' /\ BuriedAreSaved' /\ WatchedWereSeen' /\ SeenTwice

\* checkConnection.
LEMMA CheckConnectionStep ==
  ASSUME IInv, NEW c \in Conns, CheckConnection(c),
         UNCHANGED <<stored, arrived, db, delivered, replies, timers, messageTokens, history>>,
         conn' \in [Conns -> {"none", "valid", "invalid"}]
  PROVE  Result
<1> USE ReviverAssumption DEF ReviverAssumption
<1>1. ChecksTyped /\ RestTyped /\ BuriedAreSaved /\ WatchedWereSeen /\ NothingLost
  BY TypesSplit DEF IInv
<1>2. Path[c] \in Paths
  BY DEF Paths
<1>3. /\ stored' = stored /\ arrived' = arrived /\ db' = db /\ delivered' = delivered
      /\ replies' = replies /\ timers' = timers /\ messageTokens' = messageTokens
      /\ lastReply' = lastReply /\ requested' = requested /\ handled' = handled
      /\ broken' = broken
  BY DEF history
<1>4. RestTyped' /\ NothingLost' /\ WatchedWereSeen' /\ SeenTwice
  BY <1>1, <1>3 DEF RestTyped, NothingLost, WatchedWereSeen, SeenTwice
<1>5. CASE UNCHANGED <<bus, retries>>
  <2>1. ChecksTyped' /\ BuriedAreSaved'
    BY <1>1, <1>3, <1>5 DEF ChecksTyped, BuriedAreSaved
  <2>2. \A d \in Conns : Checks(d)' = Checks(d) /\ Checks(d) \in Nat
    BY <1>1, <1>2, <1>3, <1>5, <2>1, ChecksNat, ChecksNatNext DEF Checks, Gets
  <2>3. GoOn
    BY <1>3, <1>5, <2>2 DEF GoOn
  <2> QED BY <1>4, <2>1, <2>3 DEF Result, CheckStep
<1>6. CASE /\ ~IsConnectionHandled(c) /\ MayRetry(Path[c])
           /\ bus' = [bus EXCEPT ![c] = Append(@, Get)]
           /\ retries' = Counted(Path[c])
  <2>1. bus[c] \in Seq(Call) /\ retries[Path[c]] \in 0 .. MAX_RETRIES
    BY <1>1, <1>2 DEF ChecksTyped
  <2>2. /\ bus'[c] = Append(bus[c], Get) /\ bus'[c] \in Seq(Call)
        /\ GetCount(bus'[c]) = GetCount(bus[c]) + 1
        /\ \A d \in Conns \ {c} : bus'[d] = bus[d]
    BY <1>1, <1>6, <2>1, AppendGet DEF ChecksTyped
  <2>3. bus' \in [Conns -> Seq(Call)]
    BY <1>1, <1>6, <2>2 DEF ChecksTyped
  <2>4. retries[Path[c]] < MAX_RETRIES /\ retries' = [retries EXCEPT ![Path[c]] = @ + 1]
    BY <1>6 DEF MayRetry, Counted
  <2>5. retries' \in [Paths -> 0 .. MAX_RETRIES]
    BY <1>1, <1>2, <2>1, <2>4 DEF ChecksTyped
  <2>6. ChecksTyped'
    BY <1>1, <1>3, <2>3, <2>5 DEF ChecksTyped
  <2>7. BuriedAreSaved'
    <3>1. ASSUME NEW d \in Conns, NEW i \in DOMAIN bus'[d], bus'[d][i].op = "expunge"
          PROVE  bus'[d][i].tokens \subseteq db
      <4>1. CASE d # c
        BY <1>1, <2>2, <3>1, <4>1 DEF BuriedAreSaved
      <4>2. CASE d = c
        <5> DEFINE g == Get
        <5>1. g.op # "expunge" /\ g \in Call
          BY DEF Get, Call, Ops
        <5> HIDE DEF g
        <5>2. i \in DOMAIN bus[c] /\ bus'[c][i] = bus[c][i]
          BY <2>1, <2>2, <3>1, <4>2, <5>1 DEF g
        <5> QED BY <1>1, <3>1, <4>2, <5>2 DEF BuriedAreSaved
      <4> QED BY <4>1, <4>2
    <3> QED BY <1>3, <3>1 DEF BuriedAreSaved
  <2>8. Begins(c)
    <3>1. /\ \A d \in Conns \ {c} : Checks(d)' = Checks(d)
          /\ Checks(c)' = GetCount(bus'[c]) + Len(replies'[c]) + timers'[c]
      BY <1>1, <1>3, <2>2, <2>6, OnlyOne
    <3>2. /\ Checks(c) \in Nat /\ GetCount(bus[c]) \in Nat
          /\ Len(replies[c]) \in Nat /\ timers[c] \in Nat
          /\ Checks(c) = GetCount(bus[c]) + Len(replies[c]) + timers[c]
      BY <1>1, ChecksNat
    <3>3. Checks(c) = 0
      BY <1>6, <3>2 DEF IsConnectionHandled
    <3>4. Checks(c)' = 1
      BY <1>3, <2>2, <3>1, <3>2, <3>3
    <3> QED BY <1>3, <2>4, <3>1, <3>3, <3>4 DEF Begins
  <2> QED BY <1>4, <2>6, <2>7, <2>8 DEF Result, CheckStep
<1> QED BY <1>5, <1>6 DEF CheckConnection

\* A connection is announced.
LEMMA ReadyStep ==
  ASSUME IInv, NEW c \in Conns, ConnectionReady(c)
  PROVE  Result
<1>1. conn' \in [Conns -> {"none", "valid", "invalid"}]
  BY DEF ConnectionReady, IInv, TypeOK
<1> QED BY <1>1, CheckConnectionStep DEF ConnectionReady

\* A listener could not save messages.
LEMMA FailedStep ==
  ASSUME IInv, NEW c \in Conns, SavingFailed(c)
  PROVE  Result
<1>1. conn' \in [Conns -> {"none", "valid", "invalid"}]
  BY DEF SavingFailed, IInv, TypeOK
<1> QED BY <1>1, CheckConnectionStep DEF SavingFailed

\* Steps that touch no call, answer or timer.
LEMMA QueuesKept ==
  ASSUME ChecksTyped, UNCHANGED <<bus, replies, timers, retries, handled>>
  PROVE  ChecksTyped' /\ CheckStep
<1>1. ChecksTyped'
  BY DEF ChecksTyped
<1>2. \A c \in Conns : Checks(c)' = Checks(c) /\ Checks(c) \in Nat
  BY <1>1, ChecksNat, ChecksNatNext DEF Checks, Gets
<1> QED BY <1>1, <1>2 DEF CheckStep, GoOn

\* A message arrives.
LEMMA ArriveStep ==
  ASSUME IInv, NEW t \in Tokens, NEW p \in Paths, Arrive(t, p)
  PROVE  Result
<1>1. ChecksTyped /\ RestTyped /\ BuriedAreSaved /\ WatchedWereSeen /\ NothingLost
  BY TypesSplit DEF IInv
<1>2. /\ arrived' = [arrived EXCEPT ![p] = @ \cup {t}]
      /\ stored' = [stored EXCEPT ![p] = @ \cup {t}]
      /\ conn' = conn /\ db' = db /\ delivered' = delivered /\ bus' = bus
      /\ replies' = replies /\ timers' = timers /\ messageTokens' = messageTokens
      /\ retries' = retries /\ lastReply' = lastReply /\ requested' = requested
      /\ handled' = handled /\ broken' = broken
  BY DEF Arrive, reviver, history
<1>3. ChecksTyped' /\ CheckStep
  BY <1>1, <1>2, QueuesKept
<1>4. RestTyped' /\ WatchedWereSeen' /\ SeenTwice /\ BuriedAreSaved'
  BY <1>1, <1>2 DEF RestTyped, WatchedWereSeen, SeenTwice, BuriedAreSaved
<1>5. NothingLost'
  BY <1>1, <1>2 DEF NothingLost, RestTyped
<1> QED BY <1>3, <1>4, <1>5 DEF Result

\* A listener saves a message.
LEMMA SavesStep ==
  ASSUME IInv, NEW t \in Tokens, ListenerSaves(t)
  PROVE  Result
<1>1. ChecksTyped /\ RestTyped /\ BuriedAreSaved /\ WatchedWereSeen /\ NothingLost
  BY TypesSplit DEF IInv
<1>2. /\ arrived' = arrived /\ stored' = stored /\ db' = db \cup {t}
      /\ conn' = conn /\ delivered' = delivered /\ bus' = bus
      /\ replies' = replies /\ timers' = timers /\ messageTokens' = messageTokens
      /\ retries' = retries /\ lastReply' = lastReply /\ requested' = requested
      /\ handled' = handled /\ broken' = broken
  BY DEF ListenerSaves, reviver, history
<1>3. ChecksTyped' /\ CheckStep
  BY <1>1, <1>2, QueuesKept
<1>4. RestTyped' /\ WatchedWereSeen' /\ SeenTwice
  BY <1>1, <1>2 DEF RestTyped, WatchedWereSeen, SeenTwice
<1>5. NothingLost' /\ BuriedAreSaved'
  BY <1>1, <1>2 DEF NothingLost, BuriedAreSaved
<1> QED BY <1>3, <1>4, <1>5 DEF Result

\* A listener has a message of the database forgotten.
LEMMA ExpungesStep ==
  ASSUME IInv, NEW t \in Tokens, NEW p \in Paths, ListenerExpunges(t, p)
  PROVE  Result
<1>1. ChecksTyped /\ RestTyped /\ BuriedAreSaved /\ WatchedWereSeen /\ NothingLost
  BY TypesSplit DEF IInv
<1>2. /\ t \in db /\ stored' = [stored EXCEPT ![p] = @ \ {t}]
      /\ arrived' = arrived /\ db' = db
      /\ conn' = conn /\ delivered' = delivered /\ bus' = bus
      /\ replies' = replies /\ timers' = timers /\ messageTokens' = messageTokens
      /\ retries' = retries /\ lastReply' = lastReply /\ requested' = requested
      /\ handled' = handled /\ broken' = broken
  BY DEF ListenerExpunges, reviver, history
<1>3. ChecksTyped' /\ CheckStep
  BY <1>1, <1>2, QueuesKept
<1>4. RestTyped' /\ WatchedWereSeen' /\ SeenTwice /\ BuriedAreSaved'
  BY <1>1, <1>2 DEF RestTyped, WatchedWereSeen, SeenTwice, BuriedAreSaved
<1>5. NothingLost'
  BY <1>1, <1>2 DEF NothingLost, RestTyped
<1> QED BY <1>3, <1>4, <1>5 DEF Result

\* The timer of a check fires: it asks again, or the connection is gone.
LEMMA TimerStep ==
  ASSUME IInv, NEW c \in Conns, TimerEvent(c)
  PROVE  Result
<1>1. ChecksTyped /\ RestTyped /\ BuriedAreSaved /\ WatchedWereSeen /\ NothingLost
  BY TypesSplit DEF IInv
<1>2. /\ timers[c] > 0 /\ timers' = [timers EXCEPT ![c] = @ - 1]
      /\ bus' = (IF conn[c] = "valid" THEN [bus EXCEPT ![c] = Append(@, Get)] ELSE bus)
      /\ arrived' = arrived /\ db' = db /\ stored' = stored
      /\ conn' = conn /\ delivered' = delivered
      /\ replies' = replies /\ messageTokens' = messageTokens
      /\ retries' = retries /\ lastReply' = lastReply /\ requested' = requested
      /\ handled' = handled /\ broken' = broken
  BY DEF TimerEvent, history
<1>3. RestTyped' /\ WatchedWereSeen' /\ SeenTwice /\ NothingLost'
  BY <1>1, <1>2 DEF RestTyped, WatchedWereSeen, SeenTwice, NothingLost
<1>4. bus[c] \in Seq(Call) /\ timers[c] \in Nat
  BY <1>1 DEF ChecksTyped
<1> DEFINE g == Get
<1>5. g.op # "expunge" /\ g \in Call
  BY DEF Get, Call, Ops
<1>6. Append(bus[c], g) \in Seq(Call) /\ GetCount(Append(bus[c], g)) = GetCount(bus[c]) + 1
  BY <1>4, AppendGet
<1> HIDE DEF g
<1>7. /\ \A d \in Conns \ {c} : bus'[d] = bus[d] /\ timers'[d] = timers[d]
      /\ timers'[c] = timers[c] - 1
      /\ bus'[c] = bus[c] \/ bus'[c] = Append(bus[c], g)
      /\ bus' \in [Conns -> Seq(Call)]
  <2>1. CASE conn[c] = "valid"
    <3>1. bus' = [bus EXCEPT ![c] = Append(@, g)]
      BY <1>2, <2>1 DEF g
    <3> QED BY <1>1, <1>2, <1>6, <3>1 DEF ChecksTyped
  <2>2. CASE conn[c] # "valid"
    BY <1>1, <1>2, <2>2 DEF ChecksTyped
  <2> QED BY <2>1, <2>2
<1>8. ChecksTyped'
  <2>1. timers' \in [Conns -> Nat]
    BY <1>1, <1>2, <1>4 DEF ChecksTyped
  <2> QED BY <1>1, <1>2, <1>7, <2>1 DEF ChecksTyped
<1>9. BuriedAreSaved'
  <2>1. ASSUME NEW d \in Conns, NEW i \in DOMAIN bus'[d], bus'[d][i].op = "expunge"
        PROVE  bus'[d][i].tokens \subseteq db
    <3>1. CASE d # c \/ bus'[c] = bus[c]
      BY <1>1, <1>7, <2>1, <3>1 DEF BuriedAreSaved
    <3>2. CASE d = c /\ bus'[c] = Append(bus[c], g)
      <4>1. i \in DOMAIN bus[c] /\ bus'[c][i] = bus[c][i]
        BY <1>4, <1>5, <2>1, <3>2
      <4> QED BY <1>1, <2>1, <3>2, <4>1 DEF BuriedAreSaved
    <3> QED BY <1>7, <3>1, <3>2
  <2> QED BY <1>2, <2>1 DEF BuriedAreSaved
<1>10. CheckStep
  <2>1. /\ \A d \in Conns \ {c} : Checks(d)' = Checks(d)
        /\ \A d \in Conns : Checks(d) \in Nat
        /\ Checks(c)' = GetCount(bus'[c]) + Len(replies'[c]) + timers'[c]
    BY <1>1, <1>2, <1>7, <1>8, OnlyOne
  <2>2. /\ GetCount(bus[c]) \in Nat /\ Len(replies[c]) \in Nat
        /\ Checks(c) = GetCount(bus[c]) + Len(replies[c]) + timers[c]
    BY <1>1, ChecksNat
  <2>3. Checks(c)' <= Checks(c)
    BY <1>2, <1>4, <1>6, <1>7, <2>1, <2>2 DEF g
  <2> QED BY <1>2, <2>1, <2>3 DEF CheckStep, GoOn
<1> QED BY <1>3, <1>8, <1>9, <1>10 DEF Result

\* The connection manager takes a call: it answers, forgets or delivers.
LEMMA ServeStep ==
  ASSUME IInv, NEW c \in Conns, Serve(c)
  PROVE  Result
<1>1. ChecksTyped /\ RestTyped /\ BuriedAreSaved /\ WatchedWereSeen /\ NothingLost
  BY TypesSplit DEF IInv
<1> DEFINE b == bus[c]
           p == Path[c]
<1>2. /\ b # <<>> /\ bus' = [bus EXCEPT ![c] = Tail(b)]
      /\ conn' = conn /\ arrived' = arrived /\ db' = db /\ timers' = timers
      /\ messageTokens' = messageTokens /\ retries' = retries /\ lastReply' = lastReply
      /\ requested' = requested /\ handled' = handled /\ broken' = broken
      /\ \/ /\ Head(b).op = "get"
            /\ \E ok \in Outcome("fetch") :
                 replies' = [replies EXCEPT ![c] =
                   Append(@, IF ok THEN [tokens |-> stored[p]] ELSE Error)]
            /\ UNCHANGED <<stored, delivered>>
         \/ /\ Head(b).op = "expunge"
            /\ stored' = [stored EXCEPT ![p] = @ \ Head(b).tokens]
            /\ UNCHANGED <<replies, delivered>>
         \/ /\ Head(b).op = "deliver"
            /\ delivered' = delivered \cup (Head(b).tokens \cap stored[p])
            /\ UNCHANGED <<replies, stored>>
  BY DEF Serve, reviver, history
<1>3. b \in Seq(Call) /\ p \in Paths /\ timers[c] \in Nat /\ replies[c] \in Seq(Answers)
  BY <1>1 DEF ChecksTyped, Paths
<1> HIDE DEF b, p
<1>4. /\ Tail(b) \in Seq(Call) /\ Head(b) \in Call /\ Head(b) = b[1] /\ 1 \in DOMAIN b
      /\ \A i \in DOMAIN Tail(b) : i + 1 \in DOMAIN b /\ Tail(b)[i] = b[i + 1]
      /\ GetCount(b) = GetCount(Tail(b)) + (IF Head(b).op = "get" THEN 1 ELSE 0)
  BY <1>2, <1>3, TailGet
<1>5. bus' \in [Conns -> Seq(Call)] /\ bus'[c] = Tail(b) /\ \A d \in Conns \ {c} : bus'[d] = bus[d]
  BY <1>1, <1>2, <1>4 DEF ChecksTyped
<1>6. Head(b).op = "expunge" => Head(b).tokens \subseteq db
  BY <1>1, <1>4 DEF BuriedAreSaved, b
<1>7. BuriedAreSaved'
  <2>1. ASSUME NEW d \in Conns, NEW i \in DOMAIN bus'[d], bus'[d][i].op = "expunge"
        PROVE  bus'[d][i].tokens \subseteq db
    <3>1. CASE d # c
      BY <1>1, <1>5, <2>1, <3>1 DEF BuriedAreSaved
    <3>2. CASE d = c
      <4>1. i + 1 \in DOMAIN b /\ bus'[d][i] = b[i + 1]
        BY <1>4, <1>5, <2>1, <3>2
      <4> QED BY <1>1, <2>1, <4>1 DEF BuriedAreSaved, b
    <3> QED BY <3>1, <3>2
  <2> QED BY <1>2, <2>1 DEF BuriedAreSaved
<1>8. /\ stored' \in [Paths -> SUBSET Tokens] /\ delivered' \subseteq Tokens /\ NothingLost'
  <2>1. Head(b).tokens \subseteq Tokens
    BY <1>4 DEF Call
  <2>2. CASE UNCHANGED <<stored, delivered>>
    BY <1>1, <1>2, <2>2 DEF RestTyped, NothingLost
  <2>3. CASE /\ stored' = [stored EXCEPT ![p] = @ \ Head(b).tokens] /\ delivered' = delivered
             /\ Head(b).op = "expunge"
    BY <1>1, <1>2, <1>3, <1>6, <2>3 DEF RestTyped, NothingLost
  <2>4. CASE /\ delivered' = delivered \cup (Head(b).tokens \cap stored[p]) /\ stored' = stored
    BY <1>1, <1>2, <2>1, <2>4 DEF RestTyped, NothingLost
  <2> QED BY <1>2, <2>2, <2>3, <2>4
<1>9. RestTyped' /\ WatchedWereSeen' /\ SeenTwice
  BY <1>1, <1>2, <1>8 DEF RestTyped, WatchedWereSeen, SeenTwice
<1>10. /\ replies' \in [Conns -> Seq(Answers)] /\ \A d \in Conns \ {c} : replies'[d] = replies[d]
       /\ Len(replies'[c]) = Len(replies[c]) + (IF Head(b).op = "get" THEN 1 ELSE 0)
  <2>1. CASE Head(b).op = "get"
    <3>1. PICK a : replies' = [replies EXCEPT ![c] = Append(@, a)] /\ a \in Answers
      <4>1. PICK ok \in Outcome("fetch") :
               replies' = [replies EXCEPT ![c] =
                   Append(@, IF ok THEN [tokens |-> stored[p]] ELSE Error)]
        BY <1>2, <2>1
      <4>2. (IF ok THEN [tokens |-> stored[p]] ELSE Error) \in Answers
        <5>1. stored[p] \in SUBSET Tokens
          BY <1>1, <1>3 DEF RestTyped
        <5> QED BY <5>1 DEF Answers
      <4> QED BY <4>1, <4>2
    <3>2. Append(replies[c], a) \in Seq(Answers) /\ Len(Append(replies[c], a)) = Len(replies[c]) + 1
      BY <1>3, <3>1, AppendProperties
    <3> QED BY <1>1, <2>1, <3>1, <3>2 DEF ChecksTyped
  <2>2. CASE Head(b).op # "get"
    <3>1. replies' = replies /\ Len(replies[c]) \in Nat
      BY <1>2, <1>3, <2>2
    <3> QED BY <1>1, <2>2, <3>1 DEF ChecksTyped
  <2> QED BY <2>1, <2>2
<1>11. ChecksTyped'
  BY <1>1, <1>2, <1>5, <1>10 DEF ChecksTyped
<1>12. CheckStep
  <2>1. /\ \A d \in Conns \ {c} : Checks(d)' = Checks(d)
        /\ \A d \in Conns : Checks(d) \in Nat
        /\ Checks(c)' = GetCount(bus'[c]) + Len(replies'[c]) + timers'[c]
    BY <1>1, <1>2, <1>5, <1>10, <1>11, OnlyOne
  <2>2. /\ GetCount(b) \in Nat /\ Len(replies[c]) \in Nat /\ GetCount(Tail(b)) \in Nat
        /\ Checks(c) = GetCount(b) + Len(replies[c]) + timers[c]
    BY <1>1, <1>4, ChecksNat, GetCountType DEF b
  <2>3. Checks(c)' <= Checks(c)
    <3>2. GetCount(bus'[c]) = GetCount(Tail(b)) /\ timers'[c] = timers[c]
      BY <1>2, <1>5, Zenon
    <3>1. GetCount(Tail(b)) + Len(replies'[c]) = GetCount(b) + Len(replies[c])
      <4>1. CASE Head(b).op = "get"
        <5>1. GetCount(b) = GetCount(Tail(b)) + 1 /\ Len(replies'[c]) = Len(replies[c]) + 1
          BY <1>4, <1>10, <4>1, Zenon
        <5> QED BY <2>2, <5>1
      <4>2. CASE Head(b).op # "get"
        <5>1. GetCount(b) = GetCount(Tail(b)) + 0 /\ Len(replies'[c]) = Len(replies[c]) + 0
          BY <1>4, <1>10, <4>2, Zenon
        <5> QED BY <2>2, <5>1
      <4> QED BY <4>1, <4>2
    <3> QED BY <1>3, <2>1, <2>2, <3>1, <3>2
  <2> QED BY <1>2, <2>1, <2>3 DEF CheckStep, GoOn
<1> QED BY <1>7, <1>8, <1>9, <1>11, <1>12 DEF Result

\* The connection is lost with its open calls, which fail.
LEMMA LostStep ==
  ASSUME IInv, NEW c \in Conns, ConnectionLost(c)
  PROVE  Result
<1>1. ChecksTyped /\ RestTyped /\ BuriedAreSaved /\ WatchedWereSeen /\ NothingLost
  BY TypesSplit DEF IInv
<1> DEFINE errors == [i \in 1 .. Gets(c) |-> Error]
<1>2. /\ conn' = [conn EXCEPT ![c] = "invalid"] /\ bus' = [bus EXCEPT ![c] = <<>>]
      /\ replies' = [replies EXCEPT ![c] = @ \o errors]
      /\ broken' = broken \cup {Path[c]}
      /\ stored' = stored /\ arrived' = arrived /\ db' = db /\ delivered' = delivered
      /\ timers' = timers /\ messageTokens' = messageTokens /\ retries' = retries
      /\ lastReply' = lastReply /\ requested' = requested /\ handled' = handled
  BY DEF ConnectionLost, reviver
<1>3. /\ Gets(c) \in Nat /\ Gets(c) = GetCount(bus[c]) /\ Len(replies[c]) \in Nat
      /\ timers[c] \in Nat /\ Checks(c) = GetCount(bus[c]) + Len(replies[c]) + timers[c]
      /\ replies[c] \in Seq(Answers) /\ Path[c] \in Paths
  BY <1>1, ChecksNat DEF ChecksTyped, Paths
<1>4. errors \in Seq(Answers) /\ Len(errors) = Gets(c)
  <2>1. Error \in Answers
    BY DEF Answers
  <2>2. errors \in [1 .. Gets(c) -> Answers]
    BY <2>1
  <2> QED BY <1>3, <2>2
<1> HIDE DEF errors
<1>5. replies[c] \o errors \in Seq(Answers) /\ Len(replies[c] \o errors) = Len(replies[c]) + Gets(c)
  <2>1. /\ replies[c] \o errors \in Seq(Answers)
        /\ Len(replies[c] \o errors) = Len(replies[c]) + Len(errors)
    BY <1>3, <1>4, ConcatProperties
  <2> QED BY <1>4, <2>1
<1>6. ChecksTyped'
  <2>1. bus' \in [Conns -> Seq(Call)]
    BY <1>1, <1>2, EmptyGet DEF ChecksTyped
  <2>2. replies' \in [Conns -> Seq(Answers)]
    BY <1>1, <1>2, <1>5 DEF ChecksTyped
  <2> QED BY <1>1, <1>2, <2>1, <2>2 DEF ChecksTyped
<1>7. CheckStep
  <2>1. /\ bus'[c] = <<>> /\ replies'[c] = replies[c] \o errors /\ timers'[c] = timers[c]
        /\ \A d \in Conns \ {c} : bus'[d] = bus[d] /\ replies'[d] = replies[d] /\ timers'[d] = timers[d]
    BY <1>1, <1>2 DEF ChecksTyped
  <2>2. /\ \A d \in Conns \ {c} : Checks(d)' = Checks(d)
        /\ \A d \in Conns : Checks(d) \in Nat
        /\ Checks(c)' = GetCount(bus'[c]) + Len(replies'[c]) + timers'[c]
    BY <1>1, <1>6, <2>1, OnlyOne
  <2>3. GetCount(bus'[c]) = 0
    BY <2>1, EmptyGet
  <2>4. Checks(c)' <= Checks(c)
    BY <1>3, <1>5, <2>1, <2>2, <2>3
  <2> QED BY <1>2, <2>2, <2>4 DEF CheckStep, GoOn
<1>8. RestTyped' /\ WatchedWereSeen' /\ SeenTwice /\ NothingLost'
  BY <1>1, <1>2, <1>3 DEF RestTyped, WatchedWereSeen, SeenTwice, NothingLost
<1>9. BuriedAreSaved'
  <2>1. ASSUME NEW d \in Conns, NEW i \in DOMAIN bus'[d] PROVE d # c /\ bus'[d] = bus[d]
    BY <1>1, <1>2, <2>1 DEF ChecksTyped
  <2> QED BY <1>1, <1>2, <2>1 DEF BuriedAreSaved
<1> QED BY <1>6, <1>7, <1>8, <1>9 DEF Result

-----------------------------------------------------------------------------
(* The answers *)

\* What handleMessages sends: no Get, and to forget only what is saved.
LEMMA RequestsSent ==
  ASSUME NEW tokens \in SUBSET Tokens, NEW s \in Seq(Call)
  PROVE  LET t == s \o Requests(tokens) IN
         /\ t \in Seq(Call) /\ GetCount(t) = GetCount(s)
         /\ \A i \in DOMAIN t : /\ t[i].op = "expunge"
                                /\ (i \in DOMAIN s => t[i] # s[i])
                                => t[i].tokens \subseteq db
<1> DEFINE bury == ToBury(tokens)
           e == [op |-> "expunge", tokens |-> bury]
           d == [op |-> "deliver", tokens |-> tokens \ bury]
           r == Requests(tokens)
           t == s \o r
<1>1. bury \subseteq tokens \cap db
  BY DEF ToBury
<1>2. e \in Call /\ d \in Call /\ e.op # "get" /\ d.op # "get" /\ d.op # "expunge"
      /\ e.tokens \subseteq db
  BY <1>1 DEF Call, Ops
<1>3. r \in Seq({e, d})
  <2>1. \/ r = <<>> \o <<>> \/ r = <<>> \o <<d>> \/ r = <<e>> \o <<>> \/ r = <<e>> \o <<d>>
    BY DEF Requests
  <2> HIDE DEF e, d, r
  <2>2. <<>> \in Seq({e, d}) /\ <<e>> \in Seq({e, d}) /\ <<d>> \in Seq({e, d})
    OBVIOUS
  <2>3. \A x, y \in Seq({e, d}) : x \o y \in Seq({e, d})
    BY ConcatProperties
  <2> QED BY <2>1, <2>2, <2>3, Zenon
<1> HIDE DEF e, d, r
<1>4. /\ t \in Seq(Call) /\ Len(s) \in Nat /\ Len(r) \in Nat /\ Len(t) = Len(s) + Len(r)
      /\ \A i \in 1 .. Len(s) : t[i] = s[i]
      /\ \A i \in Len(s) + 1 .. Len(s) + Len(r) : t[i] \in {e, d}
  <2>1. r \in Seq(Call)
    BY <1>2, <1>3
  <2> QED BY <1>3, <2>1
<1> HIDE DEF t
<1>5. DOMAIN t = 1 .. Len(s) + Len(r) /\ DOMAIN s = 1 .. Len(s)
  BY <1>4
<1>6. GetIndexes(t) = GetIndexes(s)
  BY <1>2, <1>4, <1>5 DEF GetIndexes
<1>7. ASSUME NEW i \in DOMAIN t, t[i].op = "expunge", i \in DOMAIN s => t[i] # s[i]
      PROVE  t[i].tokens \subseteq db
  BY <1>2, <1>4, <1>5, <1>7
<1>8. t \in Seq(Call) /\ GetCount(t) = GetCount(s)
  BY <1>4, <1>6 DEF GetCount
<1> QED BY <1>7, <1>8 DEF t, r

\* An answer that is looked at or dropped: with the tokens of two answers
\* handleMessages runs, and otherwise at most a timer takes the place of the
\* answer.
LEMMA AnswerStep ==
  ASSUME IInv, NEW c \in Conns, OnGetStoredMessages(c)
  PROVE  Result
<1> DEFINE p == Path[c]
           r == Head(replies[c])
           initial == messageTokens[p]
           still == StillStored(initial, r.tokens)
<1>1. ChecksTyped /\ RestTyped /\ BuriedAreSaved /\ WatchedWereSeen /\ NothingLost
  BY TypesSplit DEF IInv
<1>2. /\ replies[c] # <<>> /\ replies' = [replies EXCEPT ![c] = Tail(@)]
      /\ conn' = conn /\ stored' = stored /\ arrived' = arrived /\ db' = db
      /\ delivered' = delivered /\ retries' = retries
  BY DEF OnGetStoredMessages
<1>3. /\ replies[c] \in Seq(Answers) /\ bus[c] \in Seq(Call) /\ timers[c] \in Nat /\ p \in Paths
      /\ GetCount(bus[c]) \in Nat /\ Checks(c) \in Nat
      /\ Checks(c) = GetCount(bus[c]) + Len(replies[c]) + timers[c]
  BY <1>1, ChecksNat DEF ChecksTyped, Paths
<1>4. /\ Len(replies[c]) \in Nat /\ Len(replies[c]) >= 1 /\ r \in Answers
      /\ Tail(replies[c]) \in Seq(Answers) /\ Len(Tail(replies[c])) = Len(replies[c]) - 1
  BY <1>2, <1>3, EmptySeq, HeadTailProperties
<1>5. /\ replies' \in [Conns -> Seq(Answers)] /\ Len(replies'[c]) = Len(replies[c]) - 1
      /\ \A d \in Conns \ {c} : replies'[d] = replies[d]
  BY <1>1, <1>2, <1>4 DEF ChecksTyped
<1>6. NothingLost'
  BY <1>1, <1>2 DEF NothingLost
<1> HIDE DEF r, p
<1>7. initial \subseteq Tokens /\ initial \subseteq lastReply[p]
  BY <1>1, <1>3 DEF RestTyped, WatchedWereSeen
\* the calls and the timers of other connections are untouched
<1>8. ASSUME bus' \in [Conns -> Seq(Call)], timers' \in [Conns -> Nat],
             handled' \in [Paths -> Nat],
             \A d \in Conns \ {c} : bus'[d] = bus[d] /\ timers'[d] = timers[d],
             GetCount(bus'[c]) = GetCount(bus[c])
      PROVE  /\ ChecksTyped' /\ \A d \in Conns \ {c} : Checks(d)' = Checks(d)
             /\ \A d \in Conns : Checks(d) \in Nat
             /\ Checks(c) > 0 /\ Checks(c)' = Checks(c) - 1 + timers'[c] - timers[c]
  <2>1. ChecksTyped'
    BY <1>1, <1>2, <1>5, <1>8 DEF ChecksTyped
  <2>2. /\ \A d \in Conns \ {c} : Checks(d)' = Checks(d)
        /\ \A d \in Conns : Checks(d) \in Nat
        /\ Checks(c)' = GetCount(bus'[c]) + Len(replies'[c]) + timers'[c]
    BY <1>1, <1>5, <1>8, <2>1, OnlyOne
  <2>3. timers'[c] \in Nat
    BY <1>8
  <2>4. Checks(c)' = GetCount(bus[c]) + (Len(replies[c]) - 1) + timers'[c]
    BY <1>5, <1>8, <2>2
  <2>5. Checks(c) > 0 /\ Checks(c)' = Checks(c) - 1 + timers'[c] - timers[c]
    BY <1>3, <1>4, <2>3, <2>4
  <2> QED BY <2>1, <2>2, <2>5
\* nothing is sent and no timer starts
<1>9. CASE /\ UNCHANGED <<timers, bus, lastReply, requested, handled>>
           /\ messageTokens' = messageTokens \/ messageTokens' = [messageTokens EXCEPT ![p] = {}]
           /\ broken' \in {broken, broken \cup {p}}
  <2>1. /\ bus' = bus /\ timers' = timers /\ lastReply' = lastReply /\ requested' = requested
        /\ handled' = handled
    BY <1>9
  <2>2. /\ ChecksTyped' /\ \A d \in Conns \ {c} : Checks(d)' = Checks(d)
        /\ \A d \in Conns : Checks(d) \in Nat /\ Checks(c)' = Checks(c) - 1
    BY <1>1, <1>3, <1>8, <2>1 DEF ChecksTyped
  <2>3. CheckStep
    <3>1. Checks(c)' <= Checks(c)
      BY <1>3, <2>2
    <3>2. ASSUME NEW d \in Conns \ {c} PROVE Checks(d)' <= Checks(d)
      BY <2>2
    <3>3. \A d \in Conns : Checks(d)' <= Checks(d)
      BY <3>1, <3>2
    <3> QED BY <1>2, <2>1, <3>3 DEF CheckStep, GoOn
  <2>4. RestTyped' /\ WatchedWereSeen'
    <3>1. broken' \subseteq Paths
      BY <1>1, <1>3, <1>9 DEF RestTyped
    <3> QED BY <1>1, <1>2, <1>9, <2>1, <3>1 DEF RestTyped, WatchedWereSeen
  <2>5. SeenTwice /\ BuriedAreSaved'
    BY <1>1, <1>2, <2>1 DEF SeenTwice, BuriedAreSaved
  <2> QED BY <1>6, <2>2, <2>3, <2>4, <2>5 DEF Result
<1>10. CASE r # Error /\ conn[c] = "valid" /\ UpdateTokens(c, r.tokens)
  <2>1. r.tokens \in SUBSET Tokens
    BY <1>4, <1>10 DEF Answers
  <2> DEFINE current == r.tokens
  <2> HIDE DEF current
  <2>2. still \subseteq current /\ still \subseteq Tokens
    BY <1>7, <2>1 DEF StillStored, current
  <2>3. lastReply' = [lastReply EXCEPT ![p] = current] /\ lastReply' \in [Paths -> SUBSET Tokens]
        /\ lastReply'[p] = current
    BY <1>1, <1>3, <1>10, <2>1 DEF UpdateTokens, p, RestTyped, current
  <2>4. CASE Unchanged(initial, r.tokens)
    <3>1. /\ bus' = [bus EXCEPT ![c] = @ \o Requests(still)]
          /\ messageTokens' = [messageTokens EXCEPT ![p] = {}]
          /\ requested' = [requested EXCEPT ![p] = @ \cup still]
          /\ handled' = [handled EXCEPT ![p] = @ + 1]
          /\ timers' = timers /\ broken' = broken
      BY <1>10, <2>4 DEF UpdateTokens, p
    <3> DEFINE t == bus[c] \o Requests(still)
    <3>2. /\ t \in Seq(Call) /\ GetCount(t) = GetCount(bus[c])
          /\ \A i \in DOMAIN t : /\ t[i].op = "expunge"
                                 /\ (i \in DOMAIN bus[c] => t[i] # bus[c][i])
                                 => t[i].tokens \subseteq db
      <4> HIDE DEF still
      <4> QED BY <1>3, <2>2, RequestsSent
    <3> HIDE DEF t
    <3>3. /\ bus' \in [Conns -> Seq(Call)] /\ bus'[c] = t
          /\ \A d \in Conns \ {c} : bus'[d] = bus[d]
      BY <1>1, <3>1, <3>2 DEF ChecksTyped, t
    <3>4. handled' \in [Paths -> Nat] /\ timers' \in [Conns -> Nat]
      BY <1>1, <1>3, <3>1 DEF ChecksTyped
    <3>5. /\ ChecksTyped' /\ \A d \in Conns \ {c} : Checks(d)' = Checks(d)
          /\ \A d \in Conns : Checks(d) \in Nat
          /\ Checks(c) > 0 /\ Checks(c)' = Checks(c) - 1 + timers'[c] - timers[c]
      BY <1>8, <3>1, <3>2, <3>3, <3>4
    <3>6. Handles(c)
      BY <1>2, <1>3, <3>1, <3>5 DEF Handles, p
    <3>7. BuriedAreSaved'
      <4>1. ASSUME NEW d \in Conns, NEW i \in DOMAIN bus'[d], bus'[d][i].op = "expunge"
            PROVE  bus'[d][i].tokens \subseteq db
        <5>1. CASE d # c \/ (i \in DOMAIN bus[c] /\ bus'[d][i] = bus[c][i])
          BY <1>1, <3>3, <4>1, <5>1 DEF BuriedAreSaved
        <5>2. CASE d = c /\ (i \in DOMAIN bus[c] => bus'[d][i] # bus[c][i])
          BY <3>2, <3>3, <4>1, <5>2
        <5> QED BY <5>1, <5>2
      <4> QED BY <1>2, <4>1 DEF BuriedAreSaved
    <3>8. still \subseteq lastReply[p]
      BY <1>7, <2>4 DEF Unchanged, StillStored
    <3> HIDE DEF still
    <3>9. RestTyped' /\ WatchedWereSeen'
      BY <1>1, <1>2, <1>3, <2>2, <2>3, <3>1 DEF RestTyped, WatchedWereSeen
    <3>10. SeenTwice
      BY <1>1, <1>3, <2>2, <2>3, <3>1, <3>8 DEF SeenTwice, RestTyped
    <3> QED BY <1>6, <3>5, <3>6, <3>7, <3>9, <3>10 DEF Result, CheckStep
  <2>5. CASE ~Unchanged(initial, r.tokens)
    <3>1. PICK ok \in Outcome("timer") :
             /\ timers' = [timers EXCEPT ![c] = IF still # {} /\ ok THEN @ + 1 ELSE @]
             /\ broken' = IF ok THEN broken ELSE broken \cup {p}
      BY <1>10, <2>5 DEF UpdateTokens, p
    <3>2. /\ messageTokens' = [messageTokens EXCEPT ![p] = still]
          /\ bus' = bus /\ requested' = requested /\ handled' = handled
      BY <1>10, <2>5 DEF UpdateTokens, p
    <3> HIDE DEF still
    <3>3. /\ timers' \in [Conns -> Nat] /\ timers'[c] \in {timers[c], timers[c] + 1}
          /\ \A d \in Conns \ {c} : timers'[d] = timers[d]
      BY <1>1, <1>3, <3>1 DEF ChecksTyped
    <3>4. /\ ChecksTyped' /\ \A d \in Conns \ {c} : Checks(d)' = Checks(d)
          /\ \A d \in Conns : Checks(d) \in Nat
          /\ Checks(c) > 0 /\ Checks(c)' = Checks(c) - 1 + timers'[c] - timers[c]
      BY <1>1, <1>8, <3>2, <3>3 DEF ChecksTyped
    <3>5. CheckStep
      <4>1. Checks(c)' <= Checks(c)
        BY <1>3, <3>3, <3>4
      <4> QED BY <1>2, <3>2, <3>4, <4>1 DEF CheckStep, GoOn
    <3>6. broken' \subseteq Paths
      BY <1>1, <1>3, <3>1 DEF RestTyped
    <3>7. RestTyped' /\ WatchedWereSeen'
      BY <1>1, <1>2, <1>3, <2>2, <2>3, <3>2, <3>6 DEF RestTyped, WatchedWereSeen
    <3>8. SeenTwice /\ BuriedAreSaved'
      BY <1>1, <1>2, <3>2 DEF SeenTwice, BuriedAreSaved
    <3> QED BY <1>6, <3>4, <3>5, <3>7, <3>8 DEF Result
  <2> QED BY <2>4, <2>5
<1>11. CASE r = Error
  <2>1. UNCHANGED <<messageTokens, timers, bus, lastReply, requested, handled>> /\ broken' = broken \cup {p}
    BY <1>11 DEF OnGetStoredMessages, r, p, UpdateTokens
  <2> QED BY <1>9, <2>1
<1>12. CASE r # Error /\ conn[c] # "valid"
  <2>1. UNCHANGED <<timers, bus, history>> /\ messageTokens' = [messageTokens EXCEPT ![p] = {}]
    BY <1>12 DEF OnGetStoredMessages, r, p
  <2> QED BY <1>9, <2>1 DEF history
<1> QED BY <1>10, <1>11, <1>12 DEF OnGetStoredMessages, r, p

-----------------------------------------------------------------------------
(* The invariant is inductive *)

LEMMA Steps == IInv /\ [Next]_vars => Result
<1> SUFFICES ASSUME IInv, [Next]_vars PROVE Result
  OBVIOUS
<1>1. ASSUME NEW c \in Conns, ConnectionReady(c) PROVE Result
  BY <1>1, ReadyStep
<1>2. ASSUME NEW c \in Conns, SavingFailed(c) PROVE Result
  BY <1>2, FailedStep
<1>3. ASSUME NEW c \in Conns, OnGetStoredMessages(c) PROVE Result
  BY <1>3, AnswerStep
<1>4. ASSUME NEW c \in Conns, TimerEvent(c) PROVE Result
  BY <1>4, TimerStep
<1>5. ASSUME NEW c \in Conns, Serve(c) PROVE Result
  BY <1>5, ServeStep
<1>6. ASSUME NEW c \in Conns, ConnectionLost(c) PROVE Result
  BY <1>6, LostStep
<1>7. ASSUME NEW t \in Tokens, ListenerSaves(t) PROVE Result
  BY <1>7, SavesStep
<1>8. ASSUME NEW t \in Tokens, NEW p \in Paths, Arrive(t, p) PROVE Result
  BY <1>8, ArriveStep
<1>9. ASSUME NEW t \in Tokens, NEW p \in Paths, ListenerExpunges(t, p) PROVE Result
  BY <1>9, ExpungesStep
<1>10. CASE UNCHANGED vars
  <2>1. ChecksTyped /\ RestTyped /\ BuriedAreSaved /\ WatchedWereSeen /\ NothingLost
    BY TypesSplit DEF IInv
  <2>2. ChecksTyped' /\ CheckStep
    BY <1>10, <2>1, QueuesKept DEF vars, reviver, history
  <2>3. RestTyped' /\ BuriedAreSaved' /\ WatchedWereSeen' /\ NothingLost' /\ SeenTwice
    BY <1>10, <2>1 DEF vars, reviver, history, RestTyped, BuriedAreSaved, WatchedWereSeen,
                       NothingLost, SeenTwice
  <2> QED BY <2>2, <2>3 DEF Result
<1> QED BY <1>1, <1>2, <1>3, <1>4, <1>5, <1>6, <1>7, <1>8, <1>9, <1>10 DEF Next

LEMMA Inductive == IInv /\ [Next]_vars => IInv'
<1> SUFFICES ASSUME IInv, [Next]_vars PROVE IInv'
  OBVIOUS
<1>1. Result /\ ChecksTyped /\ ChecksBounded
  BY Steps, TypesSplit DEF IInv
<1>2. ChecksBounded'
  BY <1>1, BoundedStep DEF Result
<1>3. TypeOK'
  BY <1>1 DEF Result, TypeOK, ChecksTyped, RestTyped, Call
<1> QED BY <1>1, <1>2, <1>3 DEF Result, IInv

LEMMA Initially == Init => IInv
<1> SUFFICES ASSUME Init PROVE IInv
  OBVIOUS
<1>1. arrived \in [Paths -> SUBSET Tokens] /\ stored = arrived /\ db \subseteq Tokens
  BY DEF Init
<1>2. TypeOK
  BY <1>1, ReviverAssumption DEF Init, TypeOK, ReviverAssumption
<1>3. \A c \in Conns : Checks(c) = 0
  <2> TAKE c \in Conns
  <2>1. bus[c] = <<>> /\ replies[c] = <<>> /\ timers[c] = 0
    BY DEF Init
  <2>2. Checks(c) = GetCount(bus[c]) + Len(replies[c]) + timers[c]
    BY <1>2, ChecksNat, TypesSplit
  <2>3. GetCount(bus[c]) = 0
    BY <2>1, EmptyGet
  <2> QED BY <2>1, <2>2, <2>3
<1>4. ChecksBounded
  <2>1. \A p \in Paths : {c \in Conns : Path[c] = p /\ Checks(c) > 0} = {}
    BY <1>3
  <2>2. RedeliveryBounded
    <3> SUFFICES ASSUME NEW p \in Paths
                 PROVE  handled[p] + Cardinality({c \in Conns : Path[c] = p /\ Checks(c) > 0})
                          <= retries[p]
      BY DEF RedeliveryBounded
    <3>1. handled[p] = 0 /\ retries[p] = 0
      BY DEF Init
    <3> QED BY <2>1, <3>1, FS_EmptySet
  <2>3. OneCheck
    BY <1>3 DEF OneCheck
  <2> QED BY <2>2, <2>3 DEF ChecksBounded
<1>5. NothingLost
  BY <1>1 DEF NothingLost
<1>6. BuriedAreSaved /\ WatchedWereSeen
  BY DEF Init, BuriedAreSaved, WatchedWereSeen
<1> QED BY <1>2, <1>4, <1>5, <1>6 DEF IInv

LEMMA Invariance == Spec => []IInv
BY Initially, Inductive, PTL DEF Spec

-----------------------------------------------------------------------------
(* The theorems *)

\* The type invariant.
THEOREM TypeCorrect == Spec => []TypeOK
<1>1. IInv => TypeOK
  BY DEF IInv
<1> QED BY <1>1, Invariance, PTL

\* A connection is checked once at a time, and every handling of a path and
\* every check that runs was paid for by one of its MAX_RETRIES checks.
THEOREM ChecksAreBounded == Spec => []ChecksBounded
<1>1. IInv => ChecksBounded
  BY DEF IInv
<1> QED BY <1>1, Invariance, PTL

\* No message is forgotten by its connection manager that is not in the
\* database: handleMessages asks only for those it found there, and rows stay.
THEOREM NothingIsLost == Spec => []NothingLost
<1>1. IInv => NothingLost
  BY DEF IInv
<1> QED BY <1>1, Invariance, PTL

\* Only tokens of two successive answers of the path are acted on.
THEOREM ActedOnSeenTwice == Spec => ActsOnSeenTwice
<1>1. IInv /\ [Next]_vars =>
        [\A p \in Paths : requested'[p] \ requested[p] \subseteq lastReply[p] \cap lastReply'[p]]_vars
  BY Steps DEF Result, SeenTwice
<1> QED BY <1>1, Invariance, PTL DEF Spec, ActsOnSeenTwice

-----------------------------------------------------------------------------
(* The reviver implements MessageStore *)

\* A message is one of one path, and only what arrived is stored.
Apart ==
  /\ \A p, q \in Paths : p # q => arrived[p] \cap arrived[q] = {}
  /\ \A p \in Paths : stored[p] \subseteq arrived[p]

\* the messages of all paths
Arrived == UNION {arrived[p] : p \in Paths}
Held    == UNION {stored[p] : p \in Paths}

\* A path forgets some of what it stores: the messages that are held then.
LEMMA ForgetsOf ==
  ASSUME TypeOK, Apart, NEW p \in Paths, NEW S,
         stored' = [stored EXCEPT ![p] = @ \ S]
  PROVE  Held' = Held \ (S \cap stored[p])
<1>1. stored'[p] = stored[p] \ S /\ \A q \in Paths \ {p} : stored'[q] = stored[q]
  BY DEF TypeOK
<1>2. ASSUME NEW t \in Held' PROVE t \in Held \ (S \cap stored[p])
  <2>1. PICK q \in Paths : t \in stored'[q]
    BY DEF Held
  <2>2. t \in Held
    BY <1>1, <2>1 DEF Held
  <2>3. t \notin S \cap stored[p]
    <3>1. CASE q = p
      BY <1>1, <2>1, <3>1
    <3>2. CASE q # p
      <4>1. t \in arrived[q]
        BY <1>1, <2>1, <3>2 DEF Apart
      <4> QED BY <3>2, <4>1 DEF Apart
    <3> QED BY <3>1, <3>2
  <2> QED BY <2>2, <2>3
<1>3. ASSUME NEW t \in Held \ (S \cap stored[p]) PROVE t \in Held'
  <2>1. PICK q \in Paths : t \in stored[q]
    BY DEF Held
  <2>2. t \in stored'[q]
    BY <1>1, <1>3, <2>1
  <2> QED BY <2>2 DEF Held
<1> QED BY <1>2, <1>3

\* What arrives and what is stored change together, and only by these steps.
LEMMA StoredStep ==
  ASSUME IInv, [Next]_vars
  PROVE  \/ UNCHANGED <<arrived, stored>>
         \/ \E t \in Tokens, p \in Paths :
              /\ \A q \in Paths : t \notin arrived[q]
              /\ arrived' = [arrived EXCEPT ![p] = @ \cup {t}]
              /\ stored' = [stored EXCEPT ![p] = @ \cup {t}]
              /\ UNCHANGED db
         \/ \E p \in Paths, S \in SUBSET db :
              /\ stored' = [stored EXCEPT ![p] = @ \ S]
              /\ UNCHANGED <<arrived, db>>
<1>1. CASE \E t \in Tokens, p \in Paths : Arrive(t, p)
  BY <1>1 DEF Arrive
<1>2. ASSUME NEW t \in Tokens, NEW p \in Paths, ListenerExpunges(t, p)
      PROVE  \E S \in SUBSET db : /\ stored' = [stored EXCEPT ![p] = @ \ S]
                                  /\ UNCHANGED <<arrived, db>>
  <2>1. {t} \in SUBSET db
    BY <1>2 DEF ListenerExpunges
  <2> QED BY <1>2, <2>1 DEF ListenerExpunges
<1>3. ASSUME NEW c \in Conns, Serve(c)
      PROVE  \/ UNCHANGED <<arrived, stored>>
             \/ \E S \in SUBSET db : /\ stored' = [stored EXCEPT ![Path[c]] = @ \ S]
                                     /\ UNCHANGED <<arrived, db>>
  <2>1. /\ bus[c] # <<>> /\ bus[c] \in Seq(Call) /\ UNCHANGED <<arrived, db>>
    BY <1>3, TypesSplit DEF Serve, IInv, ChecksTyped
  <2>2. Head(bus[c]) = bus[c][1] /\ 1 \in DOMAIN bus[c]
    BY <2>1
  <2>3. \/ UNCHANGED stored
        \/ /\ Head(bus[c]).op = "expunge"
           /\ stored' = [stored EXCEPT ![Path[c]] = @ \ Head(bus[c]).tokens]
    BY <1>3 DEF Serve
  <2>4. Head(bus[c]).op = "expunge" => Head(bus[c]).tokens \in SUBSET db
    BY <2>2 DEF IInv, BuriedAreSaved
  <2> QED BY <2>1, <2>3, <2>4
<1>4. CASE \/ \E c \in Conns : \/ ConnectionReady(c)
                               \/ SavingFailed(c)
                               \/ OnGetStoredMessages(c)
                               \/ TimerEvent(c)
                               \/ ConnectionLost(c)
           \/ \E t \in Tokens : ListenerSaves(t)
           \/ UNCHANGED vars
  BY <1>4 DEF ConnectionReady, SavingFailed, OnGetStoredMessages, TimerEvent, ConnectionLost,
              ListenerSaves, vars
<1>5. \A c \in Conns : Path[c] \in Paths
  BY DEF Paths
<1> QED BY <1>1, <1>2, <1>3, <1>4, <1>5 DEF Next

\* Rows stay.
LEMMA RowsStay ==
  ASSUME TypeOK, [Next]_vars
  PROVE  db \subseteq db' /\ (db' # db => UNCHANGED <<arrived, stored>>)
<1>1. CASE \E t \in Tokens : ListenerSaves(t)
  BY <1>1 DEF ListenerSaves
<1>2. CASE UNCHANGED db
  BY <1>2
<1> QED BY <1>1, <1>2 DEF Next, ConnectionReady, SavingFailed, OnGetStoredMessages, TimerEvent,
           Serve, ConnectionLost, Arrive, ListenerExpunges, vars

LEMMA ApartInit == Init => Apart
BY DEF Init, Apart

LEMMA ApartStep == IInv /\ Apart /\ [Next]_vars => Apart'
<1> SUFFICES ASSUME IInv, Apart, [Next]_vars PROVE Apart'
  OBVIOUS
<1>1. /\ arrived \in [Paths -> SUBSET Tokens] /\ stored \in [Paths -> SUBSET Tokens]
  BY DEF IInv, TypeOK
<1>2. CASE UNCHANGED <<arrived, stored>>
  BY <1>2 DEF Apart
<1>3. ASSUME NEW t \in Tokens, NEW p \in Paths, \A q \in Paths : t \notin arrived[q],
             arrived' = [arrived EXCEPT ![p] = @ \cup {t}],
             stored' = [stored EXCEPT ![p] = @ \cup {t}]
      PROVE  Apart'
  <2>1. /\ arrived'[p] = arrived[p] \cup {t} /\ stored'[p] = stored[p] \cup {t}
        /\ \A q \in Paths \ {p} : arrived'[q] = arrived[q] /\ stored'[q] = stored[q]
    BY <1>1, <1>3
  <2>2. ASSUME NEW q \in Paths, NEW r \in Paths, q # r PROVE arrived'[q] \cap arrived'[r] = {}
    BY <1>3, <2>1, <2>2 DEF Apart
  <2>3. \A q \in Paths : stored'[q] \subseteq arrived'[q]
    BY <2>1 DEF Apart
  <2> QED BY <2>2, <2>3 DEF Apart
<1>4. ASSUME NEW p \in Paths, NEW S, stored' = [stored EXCEPT ![p] = @ \ S], UNCHANGED arrived
      PROVE  Apart'
  <2>1. \A q \in Paths : stored'[q] \subseteq stored[q]
    BY <1>1, <1>4
  <2> QED BY <1>4, <2>1 DEF Apart
<1> QED BY <1>2, <1>3, <1>4, StoredStep

\* Every step of the reviver and what is around it is a step of the store, or none.
LEMMA StoreStep == IInv /\ Apart /\ [Next]_vars => [Store!Next]_(Store!vars)
<1> SUFFICES ASSUME IInv, Apart, [Next]_vars PROVE Store!Next \/ UNCHANGED Store!vars
  OBVIOUS
<1>1. /\ arrived \in [Paths -> SUBSET Tokens] /\ stored \in [Paths -> SUBSET Tokens]
      /\ TypeOK /\ TypeOK'
  BY Inductive DEF IInv, TypeOK
<1>2. db \subseteq db' /\ db' \subseteq Tokens
  BY <1>1, RowsStay DEF TypeOK
<1>3. CASE UNCHANGED <<arrived, stored>>
  <2>1. Store!Settle
    BY <1>2 DEF Store!Settle
  <2>2. Arrived' = Arrived /\ Held' = Held
    BY <1>3 DEF Arrived, Held
  <2>3. Store!Work
    BY <2>1, <2>2 DEF Store!Work, Arrived, Held
  <2> QED BY <2>3 DEF Store!Next
<1>4. ASSUME NEW t \in Tokens, NEW p \in Paths, \A q \in Paths : t \notin arrived[q],
             arrived' = [arrived EXCEPT ![p] = @ \cup {t}],
             stored' = [stored EXCEPT ![p] = @ \cup {t}]
      PROVE  Store!Arrive(t)
  <2>1. /\ arrived'[p] = arrived[p] \cup {t} /\ stored'[p] = stored[p] \cup {t}
        /\ \A q \in Paths \ {p} : arrived'[q] = arrived[q] /\ stored'[q] = stored[q]
    BY <1>1, <1>4
  <2>2. Arrived' = Arrived \cup {t}
    <3>1. \A x : x \in Arrived' <=> \E q \in Paths : x \in arrived'[q]
      BY DEF Arrived
    <3>2. \A x : x \in Arrived <=> \E q \in Paths : x \in arrived[q]
      BY DEF Arrived
    <3> QED BY <2>1, <3>1, <3>2
  <2>3. Held' = Held \cup {t}
    <3>1. \A x : x \in Held' <=> \E q \in Paths : x \in stored'[q]
      BY DEF Held
    <3>2. \A x : x \in Held <=> \E q \in Paths : x \in stored[q]
      BY DEF Held
    <3> QED BY <2>1, <3>1, <3>2
  <2>4. t \notin Arrived
    BY <1>4 DEF Arrived
  <2> QED BY <1>2, <2>2, <2>3, <2>4 DEF Store!Arrive, Store!Settle, Arrived, Held
<1>5. ASSUME NEW p \in Paths, NEW S \in SUBSET db, stored' = [stored EXCEPT ![p] = @ \ S],
             UNCHANGED <<arrived, db>>
      PROVE  \E R \in SUBSET db : Store!Forget(R)
  <2>1. Held' = Held \ (S \cap stored[p])
    BY <1>1, <1>5, ForgetsOf
  <2>2. Arrived' = Arrived
    BY <1>5 DEF Arrived
  <2>3. S \cap stored[p] \in SUBSET db
    OBVIOUS
  <2> QED BY <1>5, <2>1, <2>2, <2>3 DEF Store!Forget, Arrived, Held
<1> QED BY <1>3, <1>4, <1>5, StoredStep DEF Store!Next

\* Messages that were stored before, and those of them that have a row.
LEMMA StoreInit == Init => Store!Init
<1> SUFFICES ASSUME Init PROVE Store!Init
  OBVIOUS
<1>1. /\ arrived \in [Paths -> SUBSET Tokens] /\ stored = arrived
      /\ db \in SUBSET UNION {arrived[p] : p \in Paths}
  BY DEF Init
<1> QED BY <1>1 DEF Store!Init

\* The reviver keeps the promise of MessageStore, together with the listeners that
\* save and expunge beside it: the connection managers are told to forget only what
\* has a row, whatever is asked again, buried, delivered or lost with a connection
\* (handleMessages, expungeMessages).
THEOREM KeepsPromise == Spec => ImplementsStore
<1>1. IInv /\ Apart /\ [Next]_vars => [Store!Next]_(Store!vars)
  BY StoreStep
<1>2. Init => Store!Init
  BY StoreInit
<1> QED BY <1>1, <1>2, ApartInit, ApartStep, Invariance, PTL DEF Spec, ImplementsStore, Store!Spec

\* Whoever keeps the promise of MessageStore loses no message.
LEMMA PromiseKeeps == Store!Spec => []Store!Kept
<1>1. Store!Init => Store!Kept
  BY DEF Store!Init, Store!Kept
<1>2. Store!Kept /\ [Store!Next]_(Store!vars) => Store!Kept'
  BY DEF Store!Kept, Store!Next, Store!Arrive, Store!Work, Store!Forget, Store!Settle, Store!vars
<1> QED BY <1>1, <1>2, PTL DEF Store!Spec

\* So no message of any connection is lost, by what the reviver promises.
THEOREM NoneIsLost == Spec => []Store!Kept
BY KeepsPromise, PromiseKeeps, PTL DEF ImplementsStore
=============================================================================
