-------------------------- MODULE TextChannelProofs --------------------------
(***************************************************************************)
(* Proofs about TextChannel, for every set of messages, every choice of    *)
(* failing calls and every number of attempts, resends and restarts:       *)
(* type correctness; that nothing is expunged from the connection manager  *)
(* before the database covers it, and so TextChannel implements            *)
(* MessageStore; that a delivery is never stored twice; and that the       *)
(* listener goes only when nothing it received is still on its way.        *)
(***************************************************************************)
EXTENDS TextChannel, FiniteSetTheorems, SequenceTheorems, TLAPS

-----------------------------------------------------------------------------
(* Enumerations and tokens *)

\* The operations of one event in a batch are finitely many.
LEMMA FiniteOps ==
  ASSUME NEW ops \in SUBSET Operations, NEW e \in Events
  PROVE  IsFiniteSet({op \in ops : op.ev = e})
<1> DEFINE T == {Op(e, m) : m \in Events}
           f == [m \in Events |-> Op(e, m)]
<1>1. IsFiniteSet(Events)
  BY ChannelAssumption, FS_Union DEF Events, ChannelAssumption
<1>2. f \in Surjection(Events, T)
  BY DEF Surjection
<1>3. IsFiniteSet(T)
  <2> HIDE DEF f, T
  <2> QED BY <1>1, <1>2, FS_Surjection
<1>4. {op \in ops : op.ev = e} \subseteq T
  BY DEF Operations, Op
<1> HIDE DEF T
<1> QED BY <1>3, <1>4, FS_Subset

\* Listing enumerates a finite set.
LEMMA ListingType ==
  ASSUME NEW S, IsFiniteSet(S)
  PROVE  Cardinality(S) \in Nat /\ Listing(S) \in [1 .. Cardinality(S) -> S]
<1>1. Cardinality(S) \in Nat /\ ExistsBijection(1 .. Cardinality(S), S)
  BY FS_CardinalityType
<1>2. PICK f \in [1 .. Cardinality(S) -> S] : \A x \in S : \E i \in DOMAIN f : f[i] = x
  BY <1>1 DEF ExistsBijection, Bijection, Surjection
<1> QED BY <1>1, <1>2 DEF Listing

\* An enumeration is a sequence over the set.
LEMMA ListingSeq ==
  ASSUME NEW S, IsFiniteSet(S)
  PROVE  Listing(S) \in Seq(S)
<1> DEFINE l == Listing(S)
           n == Cardinality(S)
<1>1. n \in Nat /\ l \in [1 .. n -> S]
  BY ListingType
<1> HIDE DEF l, n
<1>2. l \in Seq(S)
  BY <1>1
<1> QED BY <1>2 DEF l

\* An element of a concatenation is an element of one of its parts.
LEMMA ConcatElements ==
  ASSUME NEW S, NEW s \in Seq(S), NEW t \in Seq(S)
  PROVE  \A i \in 1 .. Len(s \o t) :
           \/ \E j \in 1 .. Len(s) : (s \o t)[i] = s[j]
           \/ \E j \in 1 .. Len(t) : (s \o t)[i] = t[j]
OBVIOUS

\* An element of the tail of a sequence is an element of the sequence.
LEMMA TailElements ==
  ASSUME NEW S, NEW s \in Seq(S), s # <<>>
  PROVE  /\ Tail(s) \in Seq(S) /\ Head(s) \in S
         /\ Head(s) = s[1] /\ 1 \in 1 .. Len(s)
         /\ \A i \in 1 .. Len(Tail(s)) : \E j \in 1 .. Len(s) : Tail(s)[i] = s[j]
<1>1. Len(s) \in Nat /\ Len(s) > 0
  BY EmptySeq
<1>2. Tail(s) \in Seq(S) /\ Len(Tail(s)) = Len(s) - 1
  BY <1>1, HeadTailProperties
<1>3. \A i \in 1 .. Len(Tail(s)) : i + 1 \in 1 .. Len(s) /\ Tail(s)[i] = s[i + 1]
  BY <1>1, <1>2
<1>4. Head(s) \in S /\ Head(s) = s[1] /\ 1 \in 1 .. Len(s)
  BY <1>1
<1> QED BY <1>2, <1>3, <1>4

\* AddTokens keeps the tokens of every event and adds those of its operations.
LEMMA AddTokensType ==
  ASSUME NEW tokens \in [Events -> Seq(Events)], NEW ops \in SUBSET Operations,
         NEW tok \in [ops -> Events]
  PROVE  /\ AddTokens(tokens, ops, tok) \in [Events -> Seq(Events)]
         /\ \A e \in Events : \A i \in 1 .. Len(AddTokens(tokens, ops, tok)[e]) :
              \/ \E j \in 1 .. Len(tokens[e]) : AddTokens(tokens, ops, tok)[e][i] = tokens[e][j]
              \/ \E op \in ops : op.ev = e /\ AddTokens(tokens, ops, tok)[e][i] = tok[op]
<1> SUFFICES ASSUME NEW e \in Events
             PROVE  /\ AddTokens(tokens, ops, tok)[e] \in Seq(Events)
                    /\ \A i \in 1 .. Len(AddTokens(tokens, ops, tok)[e]) :
                         \/ \E j \in 1 .. Len(tokens[e]) :
                              AddTokens(tokens, ops, tok)[e][i] = tokens[e][j]
                         \/ \E op \in ops : op.ev = e /\ AddTokens(tokens, ops, tok)[e][i] = tok[op]
  BY DEF AddTokens
<1> DEFINE S == {op \in ops : op.ev = e}
           l == Listing(S)
           n == Cardinality(S)
           added == [i \in DOMAIN l |-> tok[l[i]]]
<1>1. n \in Nat /\ l \in [1 .. n -> S]
  BY FiniteOps, ListingType
<1>2. AddTokens(tokens, ops, tok)[e] = tokens[e] \o added
  BY DEF AddTokens
<1>3. added \in [1 .. n -> Events]
  <2> HIDE DEF l, n
  <2> QED BY <1>1
<1>4. added \in Seq(Events) /\ Len(added) = n
  <2> HIDE DEF added, n
  <2> QED BY <1>1, <1>3
<1>5. \A i \in 1 .. n : \E op \in ops : op.ev = e /\ added[i] = tok[op]
  <2> TAKE i \in 1 .. n
  <2>1. l[i] \in S
    <3> HIDE DEF l, n, S
    <3> QED BY <1>1
  <2>2. added[i] = tok[l[i]]
    <3> HIDE DEF l, n, S
    <3> QED BY <1>1
  <2> QED BY <2>1, <2>2
<1>6. tokens[e] \in Seq(Events)
  OBVIOUS
<1> DEFINE r == AddTokens(tokens, ops, tok)[e]
<1> HIDE DEF added, n, l, S, r
<1>7. r = tokens[e] \o added
  BY <1>2 DEF r
<1>8. r \in Seq(Events)
  BY <1>4, <1>6, <1>7
<1>9. ASSUME NEW i \in 1 .. Len(r)
      PROVE  \/ \E j \in 1 .. Len(tokens[e]) : r[i] = tokens[e][j]
             \/ \E op \in ops : op.ev = e /\ r[i] = tok[op]
  <2>1. \A k \in 1 .. Len(tokens[e] \o added) :
          \/ \E j \in 1 .. Len(tokens[e]) : (tokens[e] \o added)[k] = tokens[e][j]
          \/ \E j \in 1 .. Len(added) : (tokens[e] \o added)[k] = added[j]
    BY <1>4, <1>6, ConcatElements, SMT
  <2>2. i \in 1 .. Len(tokens[e] \o added) /\ r[i] = (tokens[e] \o added)[i]
    BY <1>7
  <2>3. \/ \E j \in 1 .. Len(tokens[e]) : r[i] = tokens[e][j]
        \/ \E j \in 1 .. Len(added) : r[i] = added[j]
    BY <2>1, <2>2
  <2> QED BY <2>3, <1>4, <1>5
<1> QED BY <1>8, <1>9 DEF r

\* What a commit takes are tokens of the events of the batch.
LEMMA TakenTokensType ==
  ASSUME eventTokens \in [Events -> Seq(Events)], NEW ops \in SUBSET Operations
  PROVE  /\ TakenTokens(ops) \subseteq Events
         /\ \A t \in TakenTokens(ops) :
              \E op \in ops : \E i \in 1 .. Len(eventTokens[op.ev]) : t = eventTokens[op.ev][i]
         /\ \A e \in Events : Taken(e, ops) \in 0 .. Len(eventTokens[e])
<1>1. ASSUME NEW e \in Events
      PROVE  Taken(e, ops) \in 0 .. Len(eventTokens[e])
  <2>1. Cardinality({op \in ops : op.ev = e}) \in Nat
    BY FiniteOps, FS_CardinalityType
  <2>2. Len(eventTokens[e]) \in Nat
    OBVIOUS
  <2> QED BY <2>1, <2>2 DEF Taken
<1>2. ASSUME NEW op \in ops
      PROVE  op.ev \in Events
  BY DEF Operations
<1>3. \A t \in TakenTokens(ops) :
        \E op \in ops : \E i \in 1 .. Len(eventTokens[op.ev]) : t = eventTokens[op.ev][i]
  BY <1>1, <1>2 DEF TakenTokens
<1>4. TakenTokens(ops) \subseteq Events
  BY <1>2, <1>3
<1> QED BY <1>1, <1>3, <1>4

\* What a commit leaves are tokens that were there.
LEMMA LeftTokensType ==
  ASSUME eventTokens \in [Events -> Seq(Events)], NEW ops \in SUBSET Operations
  PROVE  /\ LeftTokens(ops) \in [Events -> Seq(Events)]
         /\ \A e \in Events : \A i \in 1 .. Len(LeftTokens(ops)[e]) :
              \E j \in 1 .. Len(eventTokens[e]) : LeftTokens(ops)[e][i] = eventTokens[e][j]
<1> SUFFICES ASSUME NEW e \in Events
             PROVE  /\ LeftTokens(ops)[e] \in Seq(Events)
                    /\ \A i \in 1 .. Len(LeftTokens(ops)[e]) :
                         \E j \in 1 .. Len(eventTokens[e]) :
                           LeftTokens(ops)[e][i] = eventTokens[e][j]
  BY DEF LeftTokens
<1> DEFINE k == Taken(e, ops)
           s == eventTokens[e]
<1>1. k \in 0 .. Len(s) /\ s \in Seq(Events)
  BY TakenTokensType
<1>2. LeftTokens(ops)[e] = SubSeq(s, k + 1, Len(s))
  BY DEF LeftTokens
<1> HIDE DEF k, s
<1>3. SubSeq(s, k + 1, Len(s)) \in Seq(Events)
  BY <1>1
<1>4. \A i \in 1 .. Len(SubSeq(s, k + 1, Len(s))) :
        k + i \in 1 .. Len(s) /\ SubSeq(s, k + 1, Len(s))[i] = s[k + i]
  BY <1>1
<1> QED BY <1>2, <1>3, <1>4 DEF s
-----------------------------------------------------------------------------
(* What the database covers stays covered *)

\* A step that only adds rows, or stores a message that replaces the earlier
\* ones of its type.
RowsKept ==
  \/ db \subseteq db'
  \/ \E m \in OfKind(Msgs, {"replace"}) :
       db' = (db \ OfKind(db \cap Msgs, {"replace"})) \cup {m}

\* Only the message itself is stored under the token of a replacing message.
LEMMA ReplaceRows ==
  ASSUME NEW e \in Events, NEW m \in Msgs, Kind[m] = "replace", TokenOf(e) = m
  PROVE  e = m
BY ChannelAssumption DEF ChannelAssumption, TokenOf, Events

\* A token that had a row keeps one, unless it is that of a replaced message.
LEMMA RowsGrow ==
  ASSUME TypeOK, RowsKept, NEW t \in Events, Rows(t) # {}
  PROVE  Rows(t)' # {} \/ (t \in Msgs /\ Kind[t] = "replace" /\ ReplaceStored')
<1>1. PICK e \in db : TokenOf(e) = t
  BY DEF Rows
<1>2. e \in Events
  BY DEF TypeOK
<1>3. CASE e \in db'
  BY <1>1, <1>3 DEF Rows
<1>4. CASE e \notin db'
  <2>1. PICK m \in OfKind(Msgs, {"replace"}) :
          db' = (db \ OfKind(db \cap Msgs, {"replace"})) \cup {m}
    BY <1>4 DEF RowsKept
  <2>2. e \in Msgs /\ Kind[e] = "replace"
    BY <1>4, <2>1 DEF OfKind
  <2>3. t = e
    BY <1>1, <2>2 DEF TokenOf
  <2>4. ReplaceStored'
    BY <2>1 DEF OfKind, ReplaceStored
  <2> QED BY <2>2, <2>3, <2>4
<1> QED BY <1>3, <1>4

\* Where a replacing message was stored, one is stored after the step.
LEMMA ReplaceGrow ==
  ASSUME RowsKept, ReplaceStored
  PROVE  ReplaceStored'
BY DEF RowsKept, ReplaceStored, OfKind

\* An event that is saved stays saved.
LEMMA SavedGrows ==
  ASSUME TypeOK, RowsKept, NEW e \in Events, Saved(e)
  PROVE  Saved(e)'
<1>1. TokenOf(e) \in Events
  BY ChannelAssumption DEF ChannelAssumption, TokenOf, Events
<1>2. CASE Rows(TokenOf(e)) # {}
  BY <1>1, <1>2, RowsGrow, ReplaceRows DEF Saved
<1>3. CASE Rows(TokenOf(e)) = {}
  BY <1>3, ReplaceGrow DEF Saved
<1> QED BY <1>2, <1>3

\* A token that is covered stays covered.
LEMMA CoveredGrows ==
  ASSUME TypeOK, RowsKept, dropped \subseteq dropped', NEW t \in Events, Covered(t)
  PROVE  Covered(t)'
<1>1. CASE t \in dropped
  BY <1>1 DEF Covered
<1>2. CASE Rows(t) # {}
  BY <1>2, RowsGrow DEF Covered
<1>3. CASE t \in Reports /\ Rows(Target[t]) # {}
  <2>1. Target[t] \in Events /\ ~(Target[t] \in Msgs /\ Kind[Target[t]] = "replace")
    BY <1>3, ChannelAssumption DEF ChannelAssumption, Reports, Events
  <2> QED BY <1>3, <2>1, RowsGrow DEF Covered
<1>4. CASE t \in Msgs /\ Kind[t] = "replace" /\ ReplaceStored
  BY <1>4, ReplaceGrow DEF Covered
<1> QED BY <1>1, <1>2, <1>3, <1>4 DEF Covered

\* A token that waits for the commit of a saved event is covered.
LEMMA SavedCovers ==
  ASSUME NEW e \in Events, NEW t, TokenMatch(e, t), Saved(e)
  PROVE  Covered(t)
<1>1. CASE Rows(TokenOf(e)) # {}
  BY <1>1 DEF TokenMatch, Covered
<1>2. CASE e \in Msgs /\ Kind[e] = "replace" /\ ReplaceStored
  <2>1. TokenOf(e) = e
    BY <1>2 DEF TokenOf
  <2>2. CASE t = e
    BY <1>2, <2>2 DEF Covered
  <2>3. CASE t \in Reports /\ Target[t] = e
    BY <1>2, <2>3, ChannelAssumption DEF ChannelAssumption, Reports, Events
  <2> QED BY <2>1, <2>2, <2>3 DEF TokenMatch
<1> QED BY <1>1, <1>2 DEF Saved
-----------------------------------------------------------------------------
(* The passes of handleMessages *)

\* An element of a sequence to which one element was appended.
LEMMA AppendElements ==
  ASSUME NEW S, NEW s \in Seq(S), NEW x \in S
  PROVE  /\ Append(s, x) \in Seq(S)
         /\ \A i \in 1 .. Len(Append(s, x)) :
              (\E j \in 1 .. Len(s) : Append(s, x)[i] = s[j]) \/ Append(s, x)[i] = x
OBVIOUS

\* What handleMessages adds and modifies, and the tokens it records for it.
LEMMA HandledOps ==
  ASSUME TypeOK, NEW q \in SUBSET Msgs, NEW missed
  PROVE  /\ AddOps(q, missed) \subseteq Operations
         /\ \A op \in AddOps(q, missed) : TokenMatch(op.ev, TokenFor(op))
         /\ ModifyOps(q, missed) \subseteq Operations
         /\ \A op \in ModifyOps(q, missed) : TokenMatch(op.ev, TokenFor(op)) /\ op.ev \in db
         /\ \A op \in Operations : TokenFor(op) \in Events
<1>1. ASSUME NEW op \in AddOps(q, missed)
      PROVE  op \in Operations /\ TokenMatch(op.ev, TokenFor(op))
  <2>1. PICK m \in Msgs : op = Op(m, m) /\ Kind[m] \in {"normal", "edit"}
    BY <1>1 DEF AddOps, AddEvents, OfKind
  <2> QED BY <2>1 DEF Op, Operations, Events, TokenMatch, TokenFor, Reports
<1>2. ASSUME NEW op \in ModifyOps(q, missed)
      PROVE  op \in Operations /\ TokenMatch(op.ev, TokenFor(op)) /\ op.ev \in db
  <2>1. PICK m \in Msgs : /\ op = Op(Row(Target[m]), m)
                          /\ Kind[m] \in AboutEvent
                          /\ Rows(Target[m]) # {}
    BY <1>2 DEF ModifyOps, Found, OfKind
  <2>2. Row(Target[m]) \in db /\ TokenOf(Row(Target[m])) = Target[m]
    BY <2>1 DEF Row, Rows
  <2>3. op.ev = Row(Target[m]) /\ op.msg = m
    BY <2>1 DEF Op
  <2> QED BY <2>1, <2>2, <2>3 DEF Op, Operations, Events, TokenMatch, TokenFor, TypeOK
<1>3. ASSUME NEW op \in Operations
      PROVE  TokenFor(op) \in Events
  BY ChannelAssumption DEF ChannelAssumption, TokenFor, TokenOf, Operations, Events
<1> QED BY <1>1, <1>2, <1>3

\* expungeMessage adds tokens to the list or leaves it alone.
LEMMA ExpungeListed ==
  ASSUME TypeOK, NEW tokens \in SUBSET Events, ExpungeMessages(tokens)
  PROVE  /\ expungeTokens' \subseteq expungeTokens \cup tokens
         /\ expungeTokens' \subseteq Events
         /\ expungeTimer' \in BOOLEAN
BY DEF TypeOK, ExpungeMessages, expVars, ArmOnFirst

\* The batches of handleMessages: new events, and updates of saved ones.
LEMMA SubmittedType ==
  ASSUME NEW ops \in SUBSET Operations, NEW add \in BOOLEAN, NEW ok \in BOOLEAN,
         NEW a \in Directions(ops)
  PROVE  /\ Submitted(ops, add, ok, a) \in Seq(Batches)
         /\ \A i \in 1 .. Len(Submitted(ops, add, ok, a)) :
              Submitted(ops, add, ok, a)[i] = Batch(ops, add, a, FALSE)
<1>1. a \in BOOLEAN
  <2>1. \A e : Inbound(e) \in BOOLEAN
    BY DEF Inbound
  <2> QED BY <2>1, Zenon DEF Directions
<1>2. Batch(ops, add, a, FALSE) \in Batches
  BY <1>1 DEF Batch, Batches
<1> DEFINE b == Batch(ops, add, a, FALSE)
<1> HIDE DEF b
<1>3. <<b>> \in Seq(Batches) /\ <<>> \in Seq(Batches)
  <2>1. b \in Batches
    BY <1>2 DEF b
  <2> QED BY <2>1
<1>4. \A i \in 1 .. Len(<<b>>) : <<b>>[i] = b
  OBVIOUS
<1>5. \A i \in 1 .. Len(<<>>) : <<>>[i] = b
  OBVIOUS
<1>6. Submitted(ops, add, ok, a) = IF ops # {} /\ ok THEN <<b>> ELSE <<>>
  BY DEF Submitted, b
<1>7. CASE ops # {} /\ ok
  BY <1>3, <1>4, <1>6, <1>7 DEF b
<1>8. CASE ~(ops # {} /\ ok)
  BY <1>3, <1>5, <1>6, <1>8 DEF b
<1> QED BY <1>7, <1>8

\* One pass of handleMessages keeps the types and the bookkeeping of tokens,
\* and lists for expunging only what it drops.
LEMMA HandlePass ==
  ASSUME TypeOK, Bookkeeping, NEW cq \in SUBSET Msgs, HandleMessages(cq), db' = db
  PROVE  /\ pendingIds' \subseteq Msgs /\ msgQueue' \subseteq Msgs
         /\ dropped' \subseteq Msgs /\ dropped \subseteq dropped'
         /\ eventTokens' \in [Events -> Seq(Events)]
         /\ expungeTokens' \subseteq Events /\ expungeTimer' \in BOOLEAN
         /\ replaceQ' \in Seq(Msgs) /\ convBusy' \in BOOLEAN /\ convConnected' \in BOOLEAN
         /\ inflight' \in Seq(Batches)
         /\ TokensMatch' /\ ModifiesSaved' /\ ReplacesOnly'
         /\ \A t \in expungeTokens' : t \in expungeTokens \/ t \in dropped'
<1> DEFINE q == Queue(cq)
<1>1. q \in SUBSET Msgs
  BY DEF Queue, TypeOK
<1>2. PICK missed \in SUBSET OfKind(q, AboutEvent), scrollOk \in BOOLEAN,
           addOk \in BOOLEAN, modifyOk \in BOOLEAN :
        HandleWith(cq, missed, scrollOk, addOk, modifyOk)
  BY DEF HandleMessages, Outcome
<1> DEFINE adds == AddOps(q, missed)
           modifies == ModifyOps(q, missed)
           drops == Drops(q, missed)
           tokenOps == (IF addOk THEN adds ELSE {}) \cup (IF modifyOk THEN modifies ELSE {})
           tok == [op \in tokenOps |-> TokenFor(op)]
<1>3. /\ msgQueue' \subseteq q
      /\ ExpungeMessages(drops)
      /\ dropped' = dropped \cup drops
      /\ eventTokens' = AddTokens(eventTokens, tokenOps, tok)
      /\ \E a \in Directions(adds), b \in Directions(modifies) :
           inflight' = inflight \o Submitted(adds, TRUE, addOk, a)
                                \o Submitted(modifies, FALSE, modifyOk, b)
  BY <1>2 DEF HandleWith
<1>4. drops \subseteq Msgs
  BY <1>1 DEF Drops, OfKind
<1>5. /\ adds \subseteq Operations /\ modifies \subseteq Operations
      /\ \A op \in adds \cup modifies : TokenMatch(op.ev, TokenFor(op))
      /\ \A op \in modifies : op.ev \in db
      /\ \A op \in Operations : TokenFor(op) \in Events
  <2> HIDE DEF q
  <2> QED BY <1>1, HandledOps
<1> HIDE DEF adds, modifies, drops, q
<1>6. eventTokens' \in [Events -> Seq(Events)] /\ TokensMatch'
  <2>1. tokenOps \in SUBSET Operations /\ tok \in [tokenOps -> Events]
    BY <1>5
  <2>2. \A op \in tokenOps : op.ev \in Events /\ TokenMatch(op.ev, tok[op])
    BY <1>5 DEF Operations
  <2>3. eventTokens \in [Events -> Seq(Events)]
    BY DEF TypeOK
  <2> HIDE DEF tok, tokenOps
  <2>4. /\ eventTokens' \in [Events -> Seq(Events)]
        /\ \A e \in Events : \A i \in 1 .. Len(eventTokens'[e]) :
             \/ \E j \in 1 .. Len(eventTokens[e]) : eventTokens'[e][i] = eventTokens[e][j]
             \/ \E op \in tokenOps : op.ev = e /\ eventTokens'[e][i] = tok[op]
    <3>1. eventTokens' = AddTokens(eventTokens, tokenOps, tok)
      BY <1>3
    <3>2. /\ AddTokens(eventTokens, tokenOps, tok) \in [Events -> Seq(Events)]
          /\ \A e \in Events : \A i \in 1 .. Len(AddTokens(eventTokens, tokenOps, tok)[e]) :
               \/ \E j \in 1 .. Len(eventTokens[e]) :
                    AddTokens(eventTokens, tokenOps, tok)[e][i] = eventTokens[e][j]
               \/ \E op \in tokenOps :
                    op.ev = e /\ AddTokens(eventTokens, tokenOps, tok)[e][i] = tok[op]
      BY <2>1, <2>3, AddTokensType
    <3> QED BY <3>1, <3>2
  <2>5. ASSUME NEW e \in Events, NEW i \in 1 .. Len(eventTokens'[e])
        PROVE  TokenMatch(e, eventTokens'[e][i])
    <3>1. CASE \E j \in 1 .. Len(eventTokens[e]) : eventTokens'[e][i] = eventTokens[e][j]
      BY <3>1 DEF Bookkeeping, TokensMatch
    <3>2. CASE \E op \in tokenOps : op.ev = e /\ eventTokens'[e][i] = tok[op]
      BY <3>2, <2>2
    <3> QED BY <2>4, <3>1, <3>2
  <2> QED BY <2>4, <2>5 DEF TokensMatch
<1>7. PICK a \in Directions(adds), b \in Directions(modifies) :
        inflight' = inflight \o Submitted(adds, TRUE, addOk, a)
                             \o Submitted(modifies, FALSE, modifyOk, b)
  BY <1>3
<1>8. inflight' \in Seq(Batches)
      /\ \A i \in 1 .. Len(inflight') :
           \/ \E j \in 1 .. Len(inflight) : inflight'[i] = inflight[j]
           \/ inflight'[i] = Batch(adds, TRUE, a, FALSE)
           \/ inflight'[i] = Batch(modifies, FALSE, b, FALSE)
  <2> DEFINE u == Submitted(adds, TRUE, addOk, a)
             v == Submitted(modifies, FALSE, modifyOk, b)
  <2>1. u \in Seq(Batches) /\ \A i \in 1 .. Len(u) : u[i] = Batch(adds, TRUE, a, FALSE)
    BY <1>5, SubmittedType
  <2>2. v \in Seq(Batches) /\ \A i \in 1 .. Len(v) : v[i] = Batch(modifies, FALSE, b, FALSE)
    BY <1>5, SubmittedType
  <2>3. inflight \in Seq(Batches)
    BY DEF TypeOK
  <2> HIDE DEF u, v
  <2>4. inflight \o u \in Seq(Batches)
        /\ \A i \in 1 .. Len(inflight \o u) :
             \/ \E j \in 1 .. Len(inflight) : (inflight \o u)[i] = inflight[j]
             \/ \E j \in 1 .. Len(u) : (inflight \o u)[i] = u[j]
    <3>1. u \in Seq(Batches)
      BY <2>1
    <3> QED BY <3>1, <2>3, ConcatElements, SMTT(60)
  <2> DEFINE w == inflight \o u
  <2> HIDE DEF w
  <2>5. w \in Seq(Batches)
    BY <2>4 DEF w
  <2>6. w \o v \in Seq(Batches)
        /\ \A i \in 1 .. Len(w \o v) :
             \/ \E j \in 1 .. Len(w) : (w \o v)[i] = w[j]
             \/ \E j \in 1 .. Len(v) : (w \o v)[i] = v[j]
    BY <2>2, <2>5, ConcatElements, SMT
  <2>7. inflight' = w \o v
    BY <1>7 DEF u, v, w
  <2>8. \A i \in 1 .. Len(w) : \/ \E j \in 1 .. Len(inflight) : w[i] = inflight[j]
                               \/ w[i] = Batch(adds, TRUE, a, FALSE)
    BY <2>1, <2>4 DEF w
  <2> QED BY <2>2, <2>6, <2>7, <2>8
<1>9. \A e \in Events : Saved(e) => Saved(e)'
  BY SavedGrows DEF RowsKept
<1>10. ModifiesSaved'
  <2> SUFFICES ASSUME NEW i \in 1 .. Len(inflight'), ~inflight'[i].add, NEW op \in inflight'[i].ops
               PROVE  Saved(op.ev)'
    BY DEF ModifiesSaved
  <2>1. CASE \E j \in 1 .. Len(inflight) : inflight'[i] = inflight[j]
    <3>1. PICK j \in 1 .. Len(inflight) : inflight'[i] = inflight[j]
      BY <2>1
    <3>2. inflight[j] \in Batches
      BY <3>1 DEF TypeOK
    <3>3. op.ev \in Events
      BY <3>1, <3>2 DEF Batches, Operations
    <3> QED BY <3>1, <3>3, <1>9 DEF Bookkeeping, ModifiesSaved
  <2>2. CASE inflight'[i] = Batch(adds, TRUE, a, FALSE)
    BY <2>2 DEF Batch
  <2>3. CASE inflight'[i] = Batch(modifies, FALSE, b, FALSE)
    <3>1. op.ev \in db
      BY <2>3, <1>5 DEF Batch
    <3>2. op.ev \in Events /\ Saved(op.ev)
      <4>1. CASE Rows(TokenOf(op.ev)) # {}
        BY <3>1, <4>1 DEF Saved, TypeOK
      <4> QED BY <3>1, <4>1 DEF Rows, TypeOK
    <3> QED BY <3>2, <1>9
  <2> QED BY <1>8, <2>1, <2>2, <2>3
<1>11. replaceQ' \in Seq(Msgs) /\ ReplacesOnly'
  <2> DEFINE l == Listing(OfKind(q, {"replace"}))
  <2>1. /\ OfKind(q, {"replace"}) \subseteq Msgs
        /\ IsFiniteSet(OfKind(q, {"replace"}))
    BY <1>1, ChannelAssumption, FS_Subset DEF OfKind, ChannelAssumption
  <2>2. l \in Seq(OfKind(q, {"replace"}))
    BY <2>1, ListingSeq
  <2>3. replaceQ' = replaceQ \o l
    BY DEF HandleMessages, q
  <2> HIDE DEF l
  <2>4. l \in Seq(Msgs) /\ \A i \in 1 .. Len(l) : Kind[l[i]] = "replace"
    <3>1. l \in Seq(Msgs)
      BY <2>1, <2>2, SeqMonotonic
    <3>2. \A i \in 1 .. Len(l) : l[i] \in OfKind(q, {"replace"})
      BY <2>2
    <3> QED BY <3>1, <3>2 DEF OfKind
  <2>5. replaceQ \in Seq(Msgs)
    BY DEF TypeOK
  <2>6. replaceQ \o l \in Seq(Msgs)
        /\ \A i \in 1 .. Len(replaceQ \o l) :
             \/ \E j \in 1 .. Len(replaceQ) : (replaceQ \o l)[i] = replaceQ[j]
             \/ \E j \in 1 .. Len(l) : (replaceQ \o l)[i] = l[j]
    BY <2>4, <2>5, ConcatElements, SMT
  <2>7. \A i \in 1 .. Len(replaceQ') : Kind[replaceQ'[i]] = "replace"
    BY <2>3, <2>4, <2>6 DEF Bookkeeping, ReplacesOnly
  <2>8. \A i \in 1 .. Len(inflight') : inflight'[i].conv =>
           \E j \in 1 .. Len(inflight) : inflight'[i] = inflight[j]
    BY <1>8 DEF Batch
  <2>9. \A i \in 1 .. Len(inflight') : inflight'[i].conv =>
           /\ inflight'[i].add
           /\ \E m \in OfKind(Msgs, {"replace"}) : inflight'[i].ops = {Op(m, m)}
    BY <2>8 DEF Bookkeeping, ReplacesOnly
  <2> QED BY <2>3, <2>6, <2>7, <2>9 DEF ReplacesOnly
<1>12. /\ expungeTokens' \subseteq expungeTokens \cup drops
       /\ expungeTokens' \subseteq Events /\ expungeTimer' \in BOOLEAN
  <2>1. drops \in SUBSET Events
    BY <1>4 DEF Events
  <2> QED BY <2>1, <1>3, ExpungeListed
<1>13. pendingIds' \subseteq Msgs /\ convBusy' \in BOOLEAN /\ convConnected' \in BOOLEAN
  BY DEF HandleMessages, Outcome, TypeOK
<1> QED BY <1>1, <1>3, <1>4, <1>6, <1>8, <1>10, <1>11, <1>12, <1>13 DEF TypeOK
-----------------------------------------------------------------------------
(* The bookkeeping, part by part *)

Inv == TypeOK /\ Bookkeeping

\* Batches that were submitted before, or add events, or modify saved ones.
LEMMA BatchesKept ==
  ASSUME TypeOK, ModifiesSaved, RowsKept,
         \A i \in 1 .. Len(inflight') :
           \/ \E j \in 1 .. Len(inflight) : inflight'[i] = inflight[j]
           \/ inflight'[i].add
           \/ \A op \in inflight'[i].ops : Saved(op.ev)'
  PROVE  ModifiesSaved'
<1> SUFFICES ASSUME NEW i \in 1 .. Len(inflight'), ~inflight'[i].add, NEW op \in inflight'[i].ops
             PROVE  Saved(op.ev)'
  BY DEF ModifiesSaved
<1>1. CASE \E j \in 1 .. Len(inflight) : inflight'[i] = inflight[j]
  <2>1. PICK j \in 1 .. Len(inflight) : inflight'[i] = inflight[j]
    BY <1>1
  <2>2. inflight[j] \in Batches
    BY <2>1 DEF TypeOK
  <2>3. op.ev \in Events
    BY <2>1, <2>2 DEF Batches, Operations
  <2>4. Saved(op.ev)
    BY <2>1 DEF ModifiesSaved
  <2> QED BY <2>3, <2>4, SavedGrows
<1>2. CASE ~\E j \in 1 .. Len(inflight) : inflight'[i] = inflight[j]
  BY <1>2
<1> QED BY <1>1, <1>2

\* Reports of commits that were queued before, or of a commit of saved events.
LEMMA SignalsKept ==
  ASSUME TypeOK, ReportedSaved, RowsKept,
         \A i \in 1 .. Len(signals') :
           \/ \E j \in 1 .. Len(signals) : signals'[i] = signals[j]
           \/ signals'[i].ok => \A op \in signals'[i].ops : Saved(op.ev)'
  PROVE  ReportedSaved'
<1> SUFFICES ASSUME NEW i \in 1 .. Len(signals'), signals'[i].ok, NEW op \in signals'[i].ops
             PROVE  Saved(op.ev)'
  BY DEF ReportedSaved
<1>1. CASE \E j \in 1 .. Len(signals) : signals'[i] = signals[j]
  <2>1. PICK j \in 1 .. Len(signals) : signals'[i] = signals[j]
    BY <1>1
  <2>2. signals[j] \in Signals
    BY <2>1 DEF TypeOK
  <2>3. op.ev \in Events
    BY <2>1, <2>2 DEF Signals, Operations
  <2>4. Saved(op.ev)
    BY <2>1 DEF ReportedSaved
  <2> QED BY <2>3, <2>4, SavedGrows
<1>2. CASE ~\E j \in 1 .. Len(signals) : signals'[i] = signals[j]
  BY <1>2
<1> QED BY <1>1, <1>2

\* Tokens that were listed or expunged before, or are covered now.
LEMMA ExpungedKept ==
  ASSUME TypeOK, SavedBeforeExpunged, RowsKept, dropped \subseteq dropped',
         \A t \in expungeTokens' \cup (received' \ stored') :
           \/ t \in expungeTokens \cup (received \ stored)
           \/ Covered(t)'
  PROVE  SavedBeforeExpunged'
<1> SUFFICES ASSUME NEW t \in expungeTokens' \cup (received' \ stored')
             PROVE  Covered(t)'
  BY DEF SavedBeforeExpunged
<1>1. CASE t \in expungeTokens \cup (received \ stored)
  <2>1. t \in Events
    BY <1>1 DEF TypeOK, Events
  <2>2. Covered(t)
    BY <1>1 DEF SavedBeforeExpunged
  <2> QED BY <2>1, <2>2, CoveredGrows
<1>2. CASE t \notin expungeTokens \cup (received \ stored)
  BY <1>2
<1> QED BY <1>1, <1>2

\* Tokens that were there before, or match their event.
LEMMA TokensKept ==
  ASSUME TokensMatch,
         \A e \in Events : \A i \in 1 .. Len(eventTokens'[e]) :
           \/ \E j \in 1 .. Len(eventTokens[e]) : eventTokens'[e][i] = eventTokens[e][j]
           \/ TokenMatch(e, eventTokens'[e][i])
  PROVE  TokensMatch'
<1> SUFFICES ASSUME NEW e \in Events, NEW i \in 1 .. Len(eventTokens'[e])
             PROVE  TokenMatch(e, eventTokens'[e][i])
  BY DEF TokensMatch
<1>1. CASE \E j \in 1 .. Len(eventTokens[e]) : eventTokens'[e][i] = eventTokens[e][j]
  BY <1>1 DEF TokensMatch
<1>2. CASE TokenMatch(e, eventTokens'[e][i])
  BY <1>2
<1> QED BY <1>1, <1>2

\* Replacing messages in the queue, batches submitted before or of one of them.
LEMMA ReplacesKept ==
  ASSUME ReplacesOnly,
         \A i \in 1 .. Len(replaceQ') : Kind[replaceQ'[i]] = "replace",
         \A i \in 1 .. Len(inflight') :
           \/ \E j \in 1 .. Len(inflight) : inflight'[i] = inflight[j]
           \/ inflight'[i].add /\ \E m \in OfKind(Msgs, {"replace"}) : inflight'[i].ops = {Op(m, m)}
  PROVE  ReplacesOnly'
<1>1. ASSUME NEW i \in 1 .. Len(inflight'), inflight'[i].conv
      PROVE  inflight'[i].add /\ \E m \in OfKind(Msgs, {"replace"}) : inflight'[i].ops = {Op(m, m)}
  <2>1. CASE \E j \in 1 .. Len(inflight) : inflight'[i] = inflight[j]
    <3>1. PICK j \in 1 .. Len(inflight) : inflight'[i] = inflight[j]
      BY <2>1
    <3>2. inflight[j].conv
      BY <1>1, <3>1
    <3> QED BY <3>1, <3>2, Zenon DEF ReplacesOnly
  <2>2. CASE ~\E j \in 1 .. Len(inflight) : inflight'[i] = inflight[j]
    BY <2>2, Zenon
  <2> QED BY <2>1, <2>2
<1> QED BY <1>1, Zenon DEF ReplacesOnly

\* A step that touches nothing the bookkeeping is about.
LEMMA QuietStep ==
  ASSUME Bookkeeping,
         UNCHANGED <<db, dropped, eventTokens, inflight, signals, replaceQ, expungeTokens,
                     received, stored>>
  PROVE  Bookkeeping'
BY DEF Bookkeeping, TokensMatch, ModifiesSaved, ReportedSaved, ReplacesOnly,
       SavedBeforeExpunged, Saved, Covered, Rows, ReplaceStored

-----------------------------------------------------------------------------
(* The initial state and every action *)

LEMMA InitInv == Init => Inv
<1> SUFFICES ASSUME Init PROVE Inv
  OBVIOUS
<1>1. TypeOK
  <2>1. MAX_SAVE_ATTEMPTS \in Nat /\ MaxResends \in Nat /\ MaxRestarts \in Nat
    BY ChannelAssumption DEF ChannelAssumption
  <2>2. /\ <<>> \in Seq(Batches) /\ <<>> \in Seq(Signals)
        /\ <<>> \in Seq(Msgs) /\ <<>> \in Seq(Events)
    OBVIOUS
  <2>3. eventTokens \in [Events -> Seq(Events)]
    BY <2>2 DEF Init
  <2>4. /\ inflight \in Seq(Batches) /\ signals \in Seq(Signals)
        /\ replaceQ \in Seq(Msgs)
    BY <2>2 DEF Init
  <2>5. /\ resends \in 0 .. MaxResends /\ restarts \in 0 .. MaxRestarts
        /\ failedCount \in 0 .. MAX_SAVE_ATTEMPTS /\ resaveTimers \in Nat
    BY <2>1 DEF Init
  <2> QED BY <2>3, <2>4, <2>5 DEF Init, TypeOK
<1>2. Bookkeeping
  BY DEF Init, Bookkeeping, TokensMatch, ModifiesSaved, ReportedSaved, ReplacesOnly,
         SavedBeforeExpunged
<1> QED BY <1>1, <1>2 DEF Inv

\* Readiness, acknowledgement, invalidation: the listener's life only.
LEMMA LifeSteps ==
  ASSUME Inv,
         \/ SlotChannelReady
         \/ SlotOnModelFailed
         \/ \E m \in Msgs : SlotPendingMessageRemoved(m)
         \/ \E p \in {"account", "channel"} : Invalidated(p)
         \/ ConnectionLost
         \/ SlotGroupDataChanged
         \/ UNCHANGED vars
  PROVE  Inv'
<1> USE DEF vars, cmVars, libVars, lifeVars, saveVars, convVars, expVars
<1>1. CASE SlotChannelReady
  <2>1. TypeOK'
    BY <1>1 DEF SlotChannelReady, Inv, TypeOK, TryToClose
  <2> QED BY <1>1, <2>1, QuietStep DEF SlotChannelReady, Inv
<1>2. CASE SlotOnModelFailed
  <2>1. TypeOK'
    BY <1>2 DEF SlotOnModelFailed, Inv, TypeOK
  <2> QED BY <1>2, <2>1, QuietStep DEF SlotOnModelFailed, Inv
<1>3. ASSUME NEW m \in Msgs, SlotPendingMessageRemoved(m)
      PROVE  Inv'
  <2>1. TypeOK'
    BY <1>3 DEF SlotPendingMessageRemoved, Inv, TypeOK
  <2> QED BY <1>3, <2>1, QuietStep DEF SlotPendingMessageRemoved, Inv
<1>4. ASSUME NEW p \in {"account", "channel"}, Invalidated(p)
      PROVE  Inv'
  <2>1. TypeOK'
    BY <1>4 DEF Invalidated, Inv, TypeOK, TryToClose
  <2> QED BY <1>4, <2>1, QuietStep DEF Invalidated, Inv
<1>5. CASE ConnectionLost
  <2>1. TypeOK'
    BY <1>5 DEF ConnectionLost, Inv, TypeOK
  <2> QED BY <1>5, <2>1, QuietStep DEF ConnectionLost, Inv
<1>6. CASE SlotGroupDataChanged
  <2>1. TypeOK'
    BY <1>6 DEF SlotGroupDataChanged, Inv, TypeOK, TryToClose
  <2> QED BY <1>6, <2>1, QuietStep DEF SlotGroupDataChanged, Inv
<1>7. CASE UNCHANGED vars
  <2>1. TypeOK'
    BY <1>7 DEF Inv, TypeOK
  <2> QED BY <1>7, <2>1, QuietStep DEF Inv
<1> QED BY <1>1, <1>2, <1>3, <1>4, <1>5, <1>6, <1>7

\* A call of handleMessages, together with what its caller leaves alone.
LEMMA HandleStep ==
  ASSUME Inv, NEW cq \in SUBSET Msgs, HandleMessages(cq),
         UNCHANGED <<db, signals>>, received' \ stored' \subseteq received \ stored
  PROVE  /\ Bookkeeping'
         /\ pendingIds' \subseteq Msgs /\ msgQueue' \subseteq Msgs
         /\ dropped' \subseteq Msgs
         /\ eventTokens' \in [Events -> Seq(Events)]
         /\ expungeTokens' \subseteq Events /\ expungeTimer' \in BOOLEAN
         /\ replaceQ' \in Seq(Msgs) /\ convBusy' \in BOOLEAN /\ convConnected' \in BOOLEAN
         /\ inflight' \in Seq(Batches)
<1>1. /\ pendingIds' \subseteq Msgs /\ msgQueue' \subseteq Msgs
      /\ dropped' \subseteq Msgs /\ dropped \subseteq dropped'
      /\ eventTokens' \in [Events -> Seq(Events)]
      /\ expungeTokens' \subseteq Events /\ expungeTimer' \in BOOLEAN
      /\ replaceQ' \in Seq(Msgs) /\ convBusy' \in BOOLEAN /\ convConnected' \in BOOLEAN
      /\ inflight' \in Seq(Batches)
      /\ TokensMatch' /\ ModifiesSaved' /\ ReplacesOnly'
      /\ \A t \in expungeTokens' : t \in expungeTokens \/ t \in dropped'
  BY HandlePass DEF Inv
<1>2. RowsKept
  BY DEF RowsKept
<1>3. ReportedSaved'
  BY <1>2, SignalsKept DEF Inv, Bookkeeping
<1>4. SavedBeforeExpunged'
  <2>1. \A t \in expungeTokens' \cup (received' \ stored') :
          t \in expungeTokens \cup (received \ stored) \/ Covered(t)'
    BY <1>1 DEF Covered
  <2> QED BY <1>1, <1>2, <2>1, ExpungedKept DEF Inv, Bookkeeping
<1> QED BY <1>1, <1>3, <1>4 DEF Bookkeeping

\* The model is ready: the backlog is handled.
LEMMA ModelReadyStep == Inv /\ SlotOnModelReady => Inv'
<1> SUFFICES ASSUME Inv, SlotOnModelReady PROVE Inv'
  OBVIOUS
<1>1. HandleMessages(chanQueue) /\ chanQueue \in SUBSET Msgs
  BY DEF SlotOnModelReady, Inv, TypeOK
<1>2. UNCHANGED <<Untouched, chanQueue>>
  BY DEF SlotOnModelReady
<1>3. UNCHANGED <<db, signals>> /\ received' \ stored' \subseteq received \ stored
  BY <1>2 DEF Untouched
<1>4. /\ Bookkeeping'
      /\ pendingIds' \subseteq Msgs /\ msgQueue' \subseteq Msgs
      /\ dropped' \subseteq Msgs
      /\ eventTokens' \in [Events -> Seq(Events)]
      /\ expungeTokens' \subseteq Events /\ expungeTimer' \in BOOLEAN
      /\ replaceQ' \in Seq(Msgs) /\ convBusy' \in BOOLEAN /\ convConnected' \in BOOLEAN
      /\ inflight' \in Seq(Batches)
  BY <1>1, <1>3, HandleStep
<1>5. phase' = "listening" /\ context' \in {"open", "finished", "error"}
  BY DEF SlotOnModelReady, Inv, TypeOK
<1>6. TypeOK'
  BY <1>2, <1>4, <1>5 DEF Untouched, saveVars, Inv, TypeOK
<1> QED BY <1>4, <1>6 DEF Inv

\* A message arrives.
LEMMA ReceivedStep ==
  ASSUME Inv, NEW m \in Msgs, MessageReceived(m)
  PROVE  Inv'
<1>1. /\ received' = received \cup {m} /\ stored' = stored \cup {m}
      /\ chanQueue' = chanQueue \cup {m}
      /\ UNCHANGED <<connReady, proxies, sent, resends, db, applied, signals,
                     phase, context, channelClosed, saveVars, restarts>>
  BY DEF MessageReceived
<1>2. received' \ stored' \subseteq received \ stored
  BY <1>1
<1>3. CASE phase = "listening"
  <2>1. HandleMessages(chanQueue') /\ chanQueue' \in SUBSET Msgs
    BY <1>1, <1>3 DEF MessageReceived, Inv, TypeOK
  <2>2. /\ Bookkeeping'
        /\ pendingIds' \subseteq Msgs /\ msgQueue' \subseteq Msgs
        /\ dropped' \subseteq Msgs
        /\ eventTokens' \in [Events -> Seq(Events)]
        /\ expungeTokens' \subseteq Events /\ expungeTimer' \in BOOLEAN
        /\ replaceQ' \in Seq(Msgs) /\ convBusy' \in BOOLEAN /\ convConnected' \in BOOLEAN
        /\ inflight' \in Seq(Batches)
    BY <1>1, <1>2, <2>1, HandleStep
  <2>3. TypeOK'
    BY <1>1, <2>2 DEF saveVars, Inv, TypeOK
  <2> QED BY <2>2, <2>3 DEF Inv
<1>4. CASE phase # "listening"
  <2>1. UNCHANGED <<pendingIds, msgQueue, expVars, dropped, eventTokens, inflight, convVars>>
    BY <1>4 DEF MessageReceived
  <2>2. TypeOK'
    BY <1>1, <2>1 DEF saveVars, expVars, convVars, Inv, TypeOK
  <2>3. RowsKept /\ db' = db
    BY <1>1 DEF RowsKept
  <2>4. SavedBeforeExpunged'
    <3>1. dropped \subseteq dropped' /\ expungeTokens' = expungeTokens
      BY <2>1 DEF expVars
    <3> QED BY <1>2, <2>3, <3>1, ExpungedKept DEF Inv, Bookkeeping
  <2>5. TokensMatch' /\ ModifiesSaved' /\ ReportedSaved' /\ ReplacesOnly'
    BY <1>1, <2>1 DEF Inv, Bookkeeping, TokensMatch, ModifiesSaved, ReportedSaved,
       ReplacesOnly, Saved, Rows, ReplaceStored, convVars
  <2> QED BY <2>2, <2>4, <2>5 DEF Inv, Bookkeeping
<1> QED BY <1>3, <1>4

\* The fields of a batch.
LEMMA BatchFields ==
  ASSUME NEW ops \in SUBSET Operations, NEW add \in BOOLEAN, NEW inbound \in BOOLEAN,
         NEW conv \in BOOLEAN
  PROVE  /\ Batch(ops, add, inbound, conv) \in Batches
         /\ Batch(ops, add, inbound, conv).ops = ops
         /\ Batch(ops, add, inbound, conv).add = add
         /\ Batch(ops, add, inbound, conv).inbound = inbound
         /\ Batch(ops, add, inbound, conv).conv = conv
BY DEF Batch, Batches

\* The user sends a message, or one that was stored already.
LEMMA SentStep ==
  ASSUME Inv, NEW s \in Sent, SlotMessageSent(s)
  PROVE  Inv'
<1> DEFINE b == Batch({Op(s, s)}, s \notin db, FALSE, FALSE)
<1>1. b \in Batches /\ ~b.conv /\ (~b.add => s \in db) /\ b.ops = {Op(s, s)}
  <2>1. {Op(s, s)} \in SUBSET Operations
    BY DEF Op, Operations, Events
  <2>2. CASE s \in db
    <3>1. b = Batch({Op(s, s)}, FALSE, FALSE, FALSE)
      BY <2>2
    <3> QED BY <2>1, <2>2, <3>1, BatchFields, Zenon
  <2>3. CASE s \notin db
    <3>1. b = Batch({Op(s, s)}, TRUE, FALSE, FALSE)
      BY <2>3
    <3> QED BY <2>1, <3>1, BatchFields, Zenon
  <2> QED BY <2>2, <2>3
<1>2. inflight' = Append(inflight, b) \/ inflight' = inflight
  BY DEF SlotMessageSent
<1> HIDE DEF b
<1>3. inflight \in Seq(Batches)
  BY DEF Inv, TypeOK
<1>4. /\ inflight' \in Seq(Batches)
      /\ \A i \in 1 .. Len(inflight') :
           (\E j \in 1 .. Len(inflight) : inflight'[i] = inflight[j]) \/ inflight'[i] = b
  <2>1. CASE inflight' = Append(inflight, b)
    BY <1>1, <1>3, <2>1, AppendElements, SMT
  <2>2. CASE inflight' = inflight
    BY <1>3, <2>2
  <2> QED BY <1>2, <2>1, <2>2
<1>5. UNCHANGED <<db, dropped, eventTokens, signals, replaceQ, expungeTokens, received, stored>>
  BY DEF SlotMessageSent, cmVars, lifeVars, saveVars, convVars, expVars
<1>6. RowsKept
  BY <1>5 DEF RowsKept
<1>7. ModifiesSaved'
  <2>1. s \in db => Saved(s)'
    BY <1>5 DEF Saved, Rows
  <2>2. \A op \in {Op(s, s)} : op.ev = s
    BY DEF Op
  <2>3. \A i \in 1 .. Len(inflight') :
           \/ \E j \in 1 .. Len(inflight) : inflight'[i] = inflight[j]
           \/ inflight'[i].add
           \/ \A op \in inflight'[i].ops : Saved(op.ev)'
    BY <1>1, <1>4, <2>1, <2>2
  <2> QED BY <1>6, <2>3, BatchesKept DEF Inv, Bookkeeping
<1>8. ReplacesOnly'
  BY <1>1, <1>4, <1>5 DEF Inv, Bookkeeping, ReplacesOnly
<1>9. TokensMatch' /\ ReportedSaved' /\ SavedBeforeExpunged'
  BY <1>5 DEF Inv, Bookkeeping, TokensMatch, ReportedSaved, SavedBeforeExpunged,
     Saved, Covered, Rows, ReplaceStored
<1>10. TypeOK'
  <2>1. resends' \in 0 .. MaxResends
    BY ChannelAssumption DEF ChannelAssumption, SlotMessageSent, Inv, TypeOK
  <2> QED BY <1>4, <2>1 DEF SlotMessageSent, Inv, TypeOK, cmVars, lifeVars, saveVars,
             convVars, expVars
<1> QED BY <1>7, <1>8, <1>9, <1>10 DEF Inv, Bookkeeping

\* Every event a batch adds is in the database after its commit.
LEMMA AddedSaved ==
  ASSUME NEW op, op.ev \in db'
  PROVE  Saved(op.ev)'
BY DEF Saved, Rows

\* libcommhistory commits a batch of the event model, or fails to.
LEMMA CommitStep == Inv /\ Commit => Inv'
<1> SUFFICES ASSUME Inv, Commit PROVE Inv'
  OBVIOUS
<1> DEFINE b == Head(inflight)
<1>1. PICK ok \in BOOLEAN :
        /\ db' = IF ok /\ b.add THEN db \cup {op.ev : op \in b.ops} ELSE db
        /\ applied' = IF ok THEN applied \cup {op.msg : op \in b.ops} ELSE applied
        /\ signals' = Append(signals, [ops |-> b.ops, inbound |-> b.inbound, ok |-> ok])
  BY DEF Commit, Outcome
<1>2. inflight \in Seq(Batches) /\ inflight # <<>> /\ inflight' = Tail(inflight)
  BY DEF Inv, TypeOK, Commit
<1>3. /\ inflight' \in Seq(Batches) /\ b \in Batches /\ b = inflight[1]
      /\ 1 \in 1 .. Len(inflight)
      /\ \A i \in 1 .. Len(inflight') : \E j \in 1 .. Len(inflight) : inflight'[i] = inflight[j]
  BY <1>2, TailElements
<1> DEFINE s == [ops |-> b.ops, inbound |-> b.inbound, ok |-> ok]
<1>4. s \in Signals /\ s.ops = b.ops /\ s.ok = ok
  <2> HIDE DEF b
  <2> QED BY <1>3 DEF Batches, Signals
<1>5. signals \in Seq(Signals) /\ signals' = Append(signals, s)
  BY <1>1 DEF Inv, TypeOK
<1> HIDE DEF b, s
<1>6. /\ signals' \in Seq(Signals)
      /\ \A i \in 1 .. Len(signals') :
           (\E j \in 1 .. Len(signals) : signals'[i] = signals[j]) \/ signals'[i] = s
  BY <1>4, <1>5, AppendElements, SMT
<1>7. UNCHANGED <<cmVars, chanQueue, sent, resends, lifeVars, saveVars, convVars, expVars,
                  msgQueue, eventTokens, dropped, restarts>>
  BY DEF Commit
<1>8. RowsKept /\ db' \subseteq Events /\ applied' \subseteq Events
  BY <1>1, <1>3 DEF RowsKept, Batches, Operations, Inv, TypeOK
<1>9. \A op \in b.ops : ok => Saved(op.ev)'
  <2> SUFFICES ASSUME NEW op \in b.ops, ok PROVE Saved(op.ev)'
    OBVIOUS
  <2>1. CASE b.add
    BY <1>1, <2>1, AddedSaved
  <2>2. CASE ~b.add
    <3>1. Saved(op.ev)
      BY <1>3, <2>2 DEF Inv, Bookkeeping, ModifiesSaved
    <3>2. op.ev \in Events
      BY <1>3 DEF Batches, Operations
    <3> QED BY <1>8, <3>1, <3>2, SavedGrows DEF Inv
  <2> QED BY <2>1, <2>2
<1>10. ModifiesSaved'
  BY <1>3, <1>8, BatchesKept DEF Inv, Bookkeeping
<1>11. ReportedSaved'
  BY <1>4, <1>6, <1>8, <1>9, SignalsKept DEF Inv, Bookkeeping
<1>12. SavedBeforeExpunged'
  BY <1>7, <1>8, ExpungedKept DEF Inv, Bookkeeping, cmVars, expVars
<1>13. TokensMatch' /\ ReplacesOnly'
  BY <1>3, <1>7 DEF Inv, Bookkeeping, TokensMatch, ReplacesOnly, convVars
<1>14. TypeOK'
  BY <1>3, <1>6, <1>7, <1>8 DEF Inv, TypeOK, cmVars, lifeVars, saveVars, convVars, expVars
<1> QED BY <1>10, <1>11, <1>12, <1>13, <1>14 DEF Inv, Bookkeeping

\* What slotEventsCommitted does with the expunge list and the failed saves.
LEMMA CommittedBody ==
  ASSUME Inv, NEW ops \in SUBSET Operations, NEW inbound, NEW ok \in BOOLEAN,
         EventsCommitted(ops, inbound, ok)
  PROVE  /\ expungeTokens' \subseteq Events /\ expungeTimer' \in BOOLEAN
         /\ failedSaves' \subseteq Operations /\ resaveTimers' \in Nat
         /\ failedCount' \in 0 .. MAX_SAVE_ATTEMPTS /\ asked' \in BOOLEAN
         /\ \A t \in expungeTokens' :
              \/ t \in expungeTokens
              \/ ok /\ \E op \in ops : TokenMatch(op.ev, t)
<1> DEFINE tokens == Released(ops, ok)
<1>1. /\ TakenTokens(ops) \subseteq Events
      /\ \A t \in TakenTokens(ops) :
           \E op \in ops : \E i \in 1 .. Len(eventTokens[op.ev]) : t = eventTokens[op.ev][i]
  BY TakenTokensType DEF Inv, TypeOK
<1>2. \A op \in ops : op.ev \in Events
  BY DEF Operations
<1>3. \A t \in tokens : ok /\ t \in Events /\ \E op \in ops : TokenMatch(op.ev, t)
  BY <1>1, <1>2 DEF Released, Inv, Bookkeeping, TokensMatch
<1>4. ExpungeMessages(tokens)
  BY DEF EventsCommitted
<1> HIDE DEF tokens
<1>5. tokens \in SUBSET Events
  BY <1>3
<1>6. /\ expungeTokens' \subseteq expungeTokens \cup tokens
      /\ expungeTokens' \subseteq Events /\ expungeTimer' \in BOOLEAN
  BY <1>4, <1>5, ExpungeListed DEF Inv
<1>7. /\ failedSaves' \subseteq Operations /\ resaveTimers' \in Nat
      /\ failedCount' \in 0 .. MAX_SAVE_ATTEMPTS /\ asked' \in BOOLEAN
  <2>1. MAX_SAVE_ATTEMPTS \in Nat
    BY ChannelAssumption DEF ChannelAssumption
  <2>2. /\ failedSaves \subseteq Operations /\ resaveTimers \in Nat
        /\ failedCount \in 0 .. MAX_SAVE_ATTEMPTS /\ asked \in BOOLEAN
    BY DEF Inv, TypeOK
  <2>3. CASE UNCHANGED saveVars
    BY <2>2, <2>3 DEF saveVars
  <2>4. CASE /\ failedCount < MAX_SAVE_ATTEMPTS /\ failedCount' = failedCount + 1
             /\ failedSaves' = failedSaves \cup ops
             /\ resaveTimers' = resaveTimers + 1
             /\ UNCHANGED asked
    BY <2>1, <2>2, <2>4
  <2>5. CASE asked' = TRUE /\ UNCHANGED <<failedSaves, resaveTimers, failedCount>>
    BY <2>2, <2>5
  <2> QED BY <2>3, <2>4, <2>5 DEF EventsCommitted, MayRetry
<1> QED BY <1>3, <1>6, <1>7

\* tryToClose ends the listener's life or leaves it alone.
LEMMA CloseType ==
  ASSUME TypeOK, NEW pending, TryToClose(pending)
  PROVE  /\ phase' \in {"preparing", "waiting", "listening", "dead", "closed"}
         /\ pendingIds' \subseteq Msgs
BY DEF TypeOK, TryToClose

\* A commit of the event model is handled.
LEMMA CommittedStep == Inv /\ SlotEventsCommitted => Inv'
<1> SUFFICES ASSUME Inv, SlotEventsCommitted PROVE Inv'
  OBVIOUS
<1> DEFINE s == Head(signals)
<1>1. signals \in Seq(Signals) /\ signals # <<>> /\ signals' = Tail(signals)
  BY DEF Inv, TypeOK, SlotEventsCommitted
<1>2. /\ signals' \in Seq(Signals) /\ s \in Signals /\ s = signals[1]
      /\ 1 \in 1 .. Len(signals)
      /\ \A i \in 1 .. Len(signals') : \E j \in 1 .. Len(signals) : signals'[i] = signals[j]
  BY <1>1, TailElements
<1>3. EventsCommitted(s.ops, s.inbound, s.ok) /\ eventTokens' = LeftTokens(s.ops)
  BY DEF SlotEventsCommitted
<1> HIDE DEF s
<1>4. s.ops \in SUBSET Operations /\ s.ok \in BOOLEAN
  BY <1>2 DEF Signals
<1>5. /\ expungeTokens' \subseteq Events /\ expungeTimer' \in BOOLEAN
      /\ failedSaves' \subseteq Operations /\ resaveTimers' \in Nat
      /\ failedCount' \in 0 .. MAX_SAVE_ATTEMPTS /\ asked' \in BOOLEAN
      /\ \A t \in expungeTokens' :
           \/ t \in expungeTokens
           \/ s.ok /\ \E op \in s.ops : TokenMatch(op.ev, t)
  BY <1>3, <1>4, CommittedBody, SMT
<1>6. /\ eventTokens' \in [Events -> Seq(Events)]
      /\ \A e \in Events : \A i \in 1 .. Len(eventTokens'[e]) :
           \E j \in 1 .. Len(eventTokens[e]) : eventTokens'[e][i] = eventTokens[e][j]
  <2>1. eventTokens \in [Events -> Seq(Events)]
    BY DEF Inv, TypeOK
  <2> QED BY <1>3, <1>4, <2>1, LeftTokensType
<1>7. UNCHANGED <<cmVars, chanQueue, sent, resends, db, applied, inflight, context,
                  msgQueue, dropped, restarts, channelClosed, convVars>>
  BY DEF SlotEventsCommitted
<1>8. RowsKept /\ dropped \subseteq dropped'
  BY <1>7 DEF RowsKept
<1>9. SavedBeforeExpunged'
  <2>1. ASSUME NEW t \in expungeTokens', t \notin expungeTokens
        PROVE  Covered(t)'
    <3>1. PICK op \in s.ops : s.ok /\ TokenMatch(op.ev, t)
      BY <1>5, <2>1
    <3>2. op.ev \in Events
      BY <1>4 DEF Operations
    <3>3. Saved(op.ev)
      BY <1>2, <3>1 DEF Inv, Bookkeeping, ReportedSaved
    <3>4. Covered(t)
      BY <3>1, <3>2, <3>3, SavedCovers
    <3>5. t \in Events
      BY <1>5, <2>1
    <3> QED BY <1>8, <3>4, <3>5, CoveredGrows DEF Inv
  <2>2. received' \ stored' = received \ stored
    BY <1>7 DEF cmVars
  <2> QED BY <1>8, <2>1, <2>2, ExpungedKept DEF Inv, Bookkeeping
<1>10. ReportedSaved'
  BY <1>2, <1>8, SignalsKept DEF Inv, Bookkeeping
<1>11. ModifiesSaved' /\ ReplacesOnly'
  BY <1>7 DEF Inv, Bookkeeping, ModifiesSaved, ReplacesOnly, Saved, Rows, ReplaceStored, convVars
<1>12. TokensMatch'
  BY <1>6, TokensKept DEF Inv, Bookkeeping
<1>13. TypeOK'
  <2>1. /\ phase' \in {"preparing", "waiting", "listening", "dead", "closed"}
        /\ pendingIds' \subseteq Msgs
    BY CloseType DEF SlotEventsCommitted, Inv
  <2> QED BY <1>2, <1>5, <1>6, <1>7, <2>1 DEF Inv, TypeOK, cmVars, convVars
<1> QED BY <1>9, <1>10, <1>11, <1>12, <1>13 DEF Inv, Bookkeeping

\* The events that failed are added again.
LEMMA ResaveStep == Inv /\ SlotSaveFailedEvents => Inv'
<1> SUFFICES ASSUME Inv, SlotSaveFailedEvents PROVE Inv'
  OBVIOUS
<1>1. UNCHANGED <<cmVars, chanQueue, sent, resends, db, applied, signals, lifeVars,
                  failedCount, asked, convVars, expVars, msgQueue, dropped, restarts>>
  BY DEF SlotSaveFailedEvents
<1>2. PICK inbound \in Directions(failedSaves) :
        \/ /\ inflight' = Append(inflight, Batch(failedSaves, TRUE, inbound, FALSE))
           /\ eventTokens' = AddTokens(eventTokens, failedSaves,
                               [op \in failedSaves |-> ResaveToken(op)])
        \/ UNCHANGED <<inflight, eventTokens>>
  BY DEF SlotSaveFailedEvents
<1>3. /\ failedSaves \in SUBSET Operations /\ inflight \in Seq(Batches)
      /\ eventTokens \in [Events -> Seq(Events)]
  BY DEF Inv, TypeOK
<1> DEFINE b == Batch(failedSaves, TRUE, inbound, FALSE)
           tok == [op \in failedSaves |-> ResaveToken(op)]
<1>4. b \in Batches /\ b.add = TRUE /\ b.conv = FALSE
  <2>1. inbound \in BOOLEAN
    <3>1. \A e : Inbound(e) \in BOOLEAN
      BY DEF Inbound
    <3> QED BY <3>1, Zenon DEF Directions
  <2> QED BY <1>3, <2>1, BatchFields, Zenon
<1>5. tok \in [failedSaves -> Events]
  <2>1. \A op \in failedSaves : ResaveToken(op) \in Events
    BY <1>3, ChannelAssumption DEF ChannelAssumption, ResaveToken, TokenOf, Operations, Events
  <2> QED BY <2>1
<1>6. \A op \in failedSaves : op.ev \in Events /\ TokenMatch(op.ev, tok[op])
  BY <1>3 DEF Operations, TokenMatch, ResaveToken
<1> HIDE DEF b, tok
<1>7. /\ inflight' \in Seq(Batches)
      /\ \A i \in 1 .. Len(inflight') :
           (\E j \in 1 .. Len(inflight) : inflight'[i] = inflight[j]) \/ inflight'[i] = b
  <2>1. CASE inflight' = Append(inflight, b)
    BY <1>3, <1>4, <2>1, AppendElements, SMT
  <2>2. CASE inflight' = inflight
    BY <1>3, <2>2
  <2> QED BY <1>2, <2>1, <2>2 DEF b
<1>8. /\ eventTokens' \in [Events -> Seq(Events)]
      /\ \A e \in Events : \A i \in 1 .. Len(eventTokens'[e]) :
           \/ \E j \in 1 .. Len(eventTokens[e]) : eventTokens'[e][i] = eventTokens[e][j]
           \/ TokenMatch(e, eventTokens'[e][i])
  <2>1. CASE eventTokens' = AddTokens(eventTokens, failedSaves, tok)
    <3>1. /\ AddTokens(eventTokens, failedSaves, tok) \in [Events -> Seq(Events)]
          /\ \A e \in Events : \A i \in 1 .. Len(AddTokens(eventTokens, failedSaves, tok)[e]) :
               \/ \E j \in 1 .. Len(eventTokens[e]) :
                    AddTokens(eventTokens, failedSaves, tok)[e][i] = eventTokens[e][j]
               \/ \E op \in failedSaves :
                    op.ev = e /\ AddTokens(eventTokens, failedSaves, tok)[e][i] = tok[op]
      BY <1>3, <1>5, AddTokensType
    <3>2. ASSUME NEW e \in Events, NEW i \in 1 .. Len(eventTokens'[e])
          PROVE  \/ \E j \in 1 .. Len(eventTokens[e]) : eventTokens'[e][i] = eventTokens[e][j]
                 \/ TokenMatch(e, eventTokens'[e][i])
      <4>1. i \in 1 .. Len(AddTokens(eventTokens, failedSaves, tok)[e])
        BY <2>1
      <4>2. \/ \E j \in 1 .. Len(eventTokens[e]) :
                 AddTokens(eventTokens, failedSaves, tok)[e][i] = eventTokens[e][j]
            \/ \E op \in failedSaves :
                 op.ev = e /\ AddTokens(eventTokens, failedSaves, tok)[e][i] = tok[op]
        BY <3>1, <4>1, Zenon
      <4>3. \/ \E j \in 1 .. Len(eventTokens[e]) : eventTokens'[e][i] = eventTokens[e][j]
            \/ \E op \in failedSaves : op.ev = e /\ eventTokens'[e][i] = tok[op]
        BY <2>1, <4>2, Zenon
      <4> QED BY <1>6, <4>3, Zenon
    <3>3. eventTokens' \in [Events -> Seq(Events)]
      BY <2>1, <3>1, Zenon
    <3> QED BY <3>2, <3>3
  <2>2. CASE eventTokens' = eventTokens
    BY <1>3, <2>2
  <2> QED BY <1>2, <2>1, <2>2 DEF tok
<1>9. RowsKept
  BY <1>1 DEF RowsKept
<1>10. ModifiesSaved'
  BY <1>4, <1>7, <1>9, BatchesKept DEF Inv, Bookkeeping
<1>11. TokensMatch'
  BY <1>8, TokensKept DEF Inv, Bookkeeping
<1>12. ReplacesOnly'
  BY <1>1, <1>4, <1>7 DEF Inv, Bookkeeping, ReplacesOnly, convVars
<1>13. ReportedSaved'
  BY <1>1, <1>9, SignalsKept DEF Inv, Bookkeeping
<1>14. SavedBeforeExpunged'
  BY <1>1, <1>9, ExpungedKept DEF Inv, Bookkeeping, cmVars, expVars
<1>15. TypeOK'
  <2>1. failedSaves' = {} /\ resaveTimers' \in Nat
    BY DEF SlotSaveFailedEvents, Inv, TypeOK
  <2> QED BY <1>1, <1>7, <1>8, <2>1 DEF Inv, TypeOK, cmVars, lifeVars, convVars, expVars
<1> QED BY <1>10, <1>11, <1>12, <1>13, <1>14, <1>15 DEF Inv, Bookkeeping

\* The listed tokens are sent to the connection manager.
LEMMA ExpungeStep == Inv /\ SlotExpungeMessages => Inv'
<1> SUFFICES ASSUME Inv, SlotExpungeMessages PROVE Inv'
  OBVIOUS
<1>1. UNCHANGED <<received, connReady, proxies, chanQueue, libVars, context, resaveTimers,
                  failedCount, asked, convBusy, convConnected, msgQueue, dropped, restarts,
                  eventTokens, failedSaves, replaceQ>>
  BY DEF SlotExpungeMessages
<1>2. \/ UNCHANGED <<stored, expungeTokens, phase, channelClosed, pendingIds>>
      \/ /\ stored' = stored \ expungeTokens /\ expungeTokens' = {}
         /\ UNCHANGED channelClosed
         /\ TryToClose(HasPendingOperations')
  BY DEF SlotExpungeMessages
<1>3. /\ phase' \in {"preparing", "waiting", "listening", "dead", "closed"}
      /\ pendingIds' \subseteq Msgs
      /\ stored' \subseteq Msgs /\ expungeTokens' \subseteq Events
      /\ channelClosed' = channelClosed /\ expungeTimer' = FALSE
      /\ expungeTokens' \cup (received' \ stored') \subseteq expungeTokens \cup (received \ stored)
  <2>1. TypeOK
    BY DEF Inv
  <2>2. expungeTimer' = FALSE
    BY DEF SlotExpungeMessages
  <2>3. CASE UNCHANGED <<stored, expungeTokens, phase, channelClosed, pendingIds>>
    BY <1>1, <2>1, <2>2, <2>3 DEF TypeOK
  <2>4. CASE /\ stored' = stored \ expungeTokens /\ expungeTokens' = {}
             /\ UNCHANGED channelClosed
             /\ TryToClose(HasPendingOperations')
    <3>1. /\ phase' \in {"preparing", "waiting", "listening", "dead", "closed"}
          /\ pendingIds' \subseteq Msgs
      BY <2>1, <2>4, CloseType
    <3> QED BY <1>1, <2>1, <2>2, <2>4, <3>1 DEF TypeOK
  <2> QED BY <1>2, <2>3, <2>4
<1>4. RowsKept
  BY <1>1 DEF RowsKept, libVars
<1>5. SavedBeforeExpunged'
  BY <1>1, <1>3, <1>4, ExpungedKept DEF Inv, Bookkeeping
<1>6. TokensMatch' /\ ModifiesSaved' /\ ReportedSaved' /\ ReplacesOnly'
  BY <1>1 DEF Inv, Bookkeeping, TokensMatch, ModifiesSaved, ReportedSaved, ReplacesOnly,
     Saved, Rows, ReplaceStored, libVars
<1>7. TypeOK'
  BY <1>1, <1>3 DEF Inv, TypeOK, libVars
<1> QED BY <1>5, <1>6, <1>7 DEF Inv, Bookkeeping

\* slotConvModelReady submits the next replacing message, or nothing.
LEMMA TakeReplaceType ==
  ASSUME Inv, NEW connected \in BOOLEAN,
         NEW tokens \in [Events -> Seq(Events)], NEW batches \in Seq(Batches),
         \A e \in Events : \A i \in 1 .. Len(tokens[e]) :
           \E j \in 1 .. Len(eventTokens[e]) : tokens[e][i] = eventTokens[e][j],
         \A i \in 1 .. Len(batches) : \E j \in 1 .. Len(inflight) : batches[i] = inflight[j],
         TakeReplace(connected, tokens, batches)
  PROVE  /\ replaceQ' \in Seq(Msgs) /\ msgQueue' \subseteq Msgs
         /\ convConnected' \in BOOLEAN
         /\ eventTokens' \in [Events -> Seq(Events)]
         /\ inflight' \in Seq(Batches)
         /\ TokensMatch'
         /\ ReplacesOnly'
         /\ \A i \in 1 .. Len(inflight') :
              \/ \E j \in 1 .. Len(inflight) : inflight'[i] = inflight[j]
              \/ inflight'[i].add
<1>1. /\ replaceQ \in Seq(Msgs) /\ msgQueue \subseteq Msgs /\ inflight \in Seq(Batches)
      /\ \A i \in 1 .. Len(replaceQ) : Kind[replaceQ[i]] = "replace"
      /\ \A i \in 1 .. Len(inflight) :
           inflight[i].conv =>
             inflight[i].add /\ \E m \in OfKind(Msgs, {"replace"}) : inflight[i].ops = {Op(m, m)}
      /\ TokensMatch
  BY DEF Inv, TypeOK, Bookkeeping, ReplacesOnly
<1>2. CASE replaceQ = <<>>
  <2>1. /\ convConnected' = connected /\ eventTokens' = tokens /\ inflight' = batches
        /\ UNCHANGED <<replaceQ, msgQueue>>
    BY <1>2 DEF TakeReplace
  <2>2. TokensMatch'
    BY <1>1, <2>1, TokensKept
  <2>3. ReplacesOnly'
    BY <1>1, <2>1, ReplacesKept DEF Inv, Bookkeeping
  <2> QED BY <1>1, <2>1, <2>2, <2>3
<1>3. CASE replaceQ # <<>>
  <2> DEFINE m == Head(replaceQ)
             ops == {Op(m, m)}
             tok == [op \in ops |-> TokenFor(op)]
             b == Batch(ops, TRUE, Inbound(m), TRUE)
  <2>1. /\ Tail(replaceQ) \in Seq(Msgs) /\ m \in Msgs /\ m = replaceQ[1]
        /\ 1 \in 1 .. Len(replaceQ)
        /\ \A i \in 1 .. Len(Tail(replaceQ)) : \E j \in 1 .. Len(replaceQ) :
             Tail(replaceQ)[i] = replaceQ[j]
    BY <1>1, <1>3, TailElements
  <2>2. Kind[m] = "replace"
    BY <1>1, <2>1
  <2>3. /\ convConnected' = TRUE /\ replaceQ' = Tail(replaceQ) /\ msgQueue' = msgQueue \ {m}
        /\ \/ inflight' = Append(batches, b) /\ eventTokens' = AddTokens(tokens, ops, tok)
           \/ inflight' = batches /\ eventTokens' = tokens
    BY <1>3 DEF TakeReplace
  <2> HIDE DEF m
  <2>4. Inbound(m) \in BOOLEAN
    BY DEF Inbound
  <2>5. ops \in SUBSET Operations
    BY <2>1 DEF Op, Operations, Events
  <2>6. b \in Batches /\ b.add = TRUE /\ b.conv = TRUE /\ b.ops = ops
    BY <2>4, <2>5, BatchFields, Zenon
  <2>7. \A op \in ops : op.ev \in Events /\ TokenMatch(op.ev, TokenFor(op)) /\ TokenFor(op) \in Events
    BY <2>1, <2>2 DEF Op, Events, TokenMatch, TokenFor, TokenOf, Reports
  <2>8. tok \in [ops -> Events] /\ \A op \in ops : tok[op] = TokenFor(op)
    BY <2>7
  <2>9. \A i \in 1 .. Len(replaceQ') : Kind[replaceQ'[i]] = "replace"
    BY <1>1, <2>1, <2>3
  <2>10. m \in OfKind(Msgs, {"replace"}) /\ ops = {Op(m, m)}
    BY <2>1, <2>2 DEF OfKind
  <2> HIDE DEF b, tok, ops
  <2>11. CASE inflight' = Append(batches, b) /\ eventTokens' = AddTokens(tokens, ops, tok)
    <3>1. /\ inflight' \in Seq(Batches)
          /\ \A i \in 1 .. Len(inflight') :
               (\E j \in 1 .. Len(batches) : inflight'[i] = batches[j]) \/ inflight'[i] = b
      BY <2>6, <2>11, AppendElements, SMT
    <3>2. \A i \in 1 .. Len(inflight') :
            (\E j \in 1 .. Len(inflight) : inflight'[i] = inflight[j]) \/ inflight'[i] = b
      BY <3>1
    <3>3. /\ AddTokens(tokens, ops, tok) \in [Events -> Seq(Events)]
          /\ \A e \in Events : \A i \in 1 .. Len(AddTokens(tokens, ops, tok)[e]) :
               \/ \E j \in 1 .. Len(tokens[e]) :
                    AddTokens(tokens, ops, tok)[e][i] = tokens[e][j]
               \/ \E op \in ops : op.ev = e /\ AddTokens(tokens, ops, tok)[e][i] = tok[op]
      BY <2>5, <2>8, AddTokensType
    <3>4. /\ eventTokens' \in [Events -> Seq(Events)]
          /\ \A e \in Events : \A i \in 1 .. Len(eventTokens'[e]) :
               \/ \E j \in 1 .. Len(eventTokens[e]) : eventTokens'[e][i] = eventTokens[e][j]
               \/ TokenMatch(e, eventTokens'[e][i])
      <4>1. ASSUME NEW e \in Events, NEW i \in 1 .. Len(eventTokens'[e])
            PROVE  \/ \E j \in 1 .. Len(eventTokens[e]) : eventTokens'[e][i] = eventTokens[e][j]
                   \/ TokenMatch(e, eventTokens'[e][i])
        <5>1. \/ \E j \in 1 .. Len(tokens[e]) : eventTokens'[e][i] = tokens[e][j]
              \/ \E op \in ops : op.ev = e /\ eventTokens'[e][i] = tok[op]
          <6>1. eventTokens' = AddTokens(tokens, ops, tok)
            BY <2>11
          <6>2. i \in 1 .. Len(AddTokens(tokens, ops, tok)[e])
            BY <6>1
          <6>3. \/ \E j \in 1 .. Len(tokens[e]) :
                     AddTokens(tokens, ops, tok)[e][i] = tokens[e][j]
                \/ \E op \in ops : op.ev = e /\ AddTokens(tokens, ops, tok)[e][i] = tok[op]
            BY <3>3, <6>2, Zenon
          <6> QED BY <6>1, <6>3, Zenon
        <5>2. CASE \E j \in 1 .. Len(tokens[e]) : eventTokens'[e][i] = tokens[e][j]
          <6>1. PICK j \in 1 .. Len(tokens[e]) : eventTokens'[e][i] = tokens[e][j]
            BY <5>2
          <6>2. PICK k \in 1 .. Len(eventTokens[e]) : tokens[e][j] = eventTokens[e][k]
            OBVIOUS
          <6> QED BY <6>1, <6>2, Zenon
        <5>3. CASE \E op \in ops : op.ev = e /\ eventTokens'[e][i] = tok[op]
          BY <2>7, <2>8, <5>3
        <5> QED BY <5>1, <5>2, <5>3
      <4> QED BY <2>11, <3>3, <4>1
    <3>5. TokensMatch'
      BY <1>1, <3>4, TokensKept
    <3>6. ReplacesOnly'
      <4>1. b.add /\ \E x \in OfKind(Msgs, {"replace"}) : b.ops = {Op(x, x)}
        BY <2>6, <2>10, Zenon
      <4>2. \A i \in 1 .. Len(inflight') :
              \/ \E j \in 1 .. Len(inflight) : inflight'[i] = inflight[j]
              \/ inflight'[i].add /\ \E x \in OfKind(Msgs, {"replace"}) : inflight'[i].ops = {Op(x, x)}
        BY <3>2, <4>1, Zenon
      <4>3. ReplacesOnly
        BY DEF Inv, Bookkeeping
      <4> QED BY <2>9, <4>2, <4>3, ReplacesKept, Zenon
    <3> QED BY <1>1, <2>1, <2>3, <2>6, <3>1, <3>2, <3>4, <3>5, <3>6
  <2>12. CASE inflight' = batches /\ eventTokens' = tokens
    <3>1. TokensMatch'
      BY <1>1, <2>12, TokensKept
    <3>2. ReplacesOnly'
      BY <2>9, <2>12, ReplacesKept DEF Inv, Bookkeeping
    <3> QED BY <1>1, <2>1, <2>3, <2>12, <3>1, <3>2
  <2> QED BY <2>3, <2>11, <2>12 DEF b, tok
<1> QED BY <1>2, <1>3

\* The conversation model answers.
LEMMA ConvReadyStep == Inv /\ SlotConvModelReady => Inv'
<1> SUFFICES ASSUME Inv, SlotConvModelReady PROVE Inv'
  OBVIOUS
<1>1. UNCHANGED <<cmVars, chanQueue, sent, resends, db, applied, signals, lifeVars, saveVars,
                  expVars, dropped, restarts>> /\ convBusy' = FALSE
  BY DEF SlotConvModelReady
<1>2. \/ TakeReplace(convConnected, eventTokens, inflight)
      \/ UNCHANGED <<convConnected, eventTokens, inflight, replaceQ, msgQueue>>
  BY DEF SlotConvModelReady
<1>3. /\ convConnected \in BOOLEAN /\ eventTokens \in [Events -> Seq(Events)]
      /\ inflight \in Seq(Batches) /\ replaceQ \in Seq(Msgs) /\ msgQueue \subseteq Msgs
      /\ TokensMatch /\ ReplacesOnly
  BY DEF Inv, TypeOK, Bookkeeping
<1>4. /\ replaceQ' \in Seq(Msgs) /\ msgQueue' \subseteq Msgs
      /\ convConnected' \in BOOLEAN
      /\ eventTokens' \in [Events -> Seq(Events)]
      /\ inflight' \in Seq(Batches)
      /\ TokensMatch' /\ ReplacesOnly'
      /\ \A i \in 1 .. Len(inflight') :
           (\E j \in 1 .. Len(inflight) : inflight'[i] = inflight[j]) \/ inflight'[i].add
  <2>1. CASE TakeReplace(convConnected, eventTokens, inflight)
    <3>1. /\ \A e \in Events : \A i \in 1 .. Len(eventTokens[e]) :
               \E j \in 1 .. Len(eventTokens[e]) : eventTokens[e][i] = eventTokens[e][j]
          /\ \A i \in 1 .. Len(inflight) : \E j \in 1 .. Len(inflight) : inflight[i] = inflight[j]
      OBVIOUS
    <3> QED BY <1>3, <2>1, <3>1, TakeReplaceType
  <2>2. CASE UNCHANGED <<convConnected, eventTokens, inflight, replaceQ, msgQueue>>
    BY <1>3, <2>2 DEF TokensMatch, ReplacesOnly
  <2> QED BY <1>2, <2>1, <2>2
<1>5. RowsKept
  BY <1>1 DEF RowsKept
<1>6. ModifiesSaved'
  BY <1>4, <1>5, BatchesKept DEF Inv, Bookkeeping
<1>7. ReportedSaved'
  BY <1>1, <1>5, SignalsKept DEF Inv, Bookkeeping
<1>8. SavedBeforeExpunged'
  BY <1>1, <1>5, ExpungedKept DEF Inv, Bookkeeping, cmVars, expVars
<1>9. TypeOK'
  BY <1>1, <1>4 DEF Inv, TypeOK, cmVars, lifeVars, saveVars, expVars
<1> QED BY <1>4, <1>6, <1>7, <1>8, <1>9 DEF Inv, Bookkeeping

\* The conversation model commits an event, heard or not.
LEMMA ConvCommitStep == Inv /\ ConvCommit => Inv'
<1> SUFFICES ASSUME Inv, ConvCommit PROVE Inv'
  OBVIOUS
<1> DEFINE b == Head(inflight)
           evs == {op.ev : op \in b.ops}
           heard == convConnected /\ phase # "closed"
<1>1. PICK ok \in BOOLEAN :
        /\ applied' = IF ok THEN applied \cup evs ELSE applied
        /\ db' = IF ~ok THEN db
                 ELSE IF heard THEN InPlaceOfOthers(evs)
                 ELSE db \cup evs
        /\ IF heard
           THEN /\ EventsCommitted(b.ops, b.inbound, ok)
                /\ TakeReplace(FALSE, LeftTokens(b.ops), Tail(inflight))
                /\ UNCHANGED channelClosed
                /\ TryToClose(HasPendingOperations' \/ replaceQ # <<>>)
           ELSE /\ inflight' = Tail(inflight)
                /\ UNCHANGED <<lifeVars, saveVars, expVars, eventTokens, replaceQ,
                               convConnected, msgQueue>>
  BY DEF ConvCommit, Outcome
<1>2. inflight # <<>> /\ b.conv
  BY DEF ConvCommit
<1>3. UNCHANGED <<cmVars, chanQueue, sent, resends, signals, context, convBusy, dropped,
                  restarts>>
  BY DEF ConvCommit
<1>4. inflight \in Seq(Batches) /\ eventTokens \in [Events -> Seq(Events)] /\ db \subseteq Events
  BY DEF Inv, TypeOK
<1>5. /\ Tail(inflight) \in Seq(Batches) /\ b \in Batches /\ b = inflight[1]
      /\ 1 \in 1 .. Len(inflight)
      /\ \A i \in 1 .. Len(Tail(inflight)) :
           \E j \in 1 .. Len(inflight) : Tail(inflight)[i] = inflight[j]
  BY <1>2, <1>4, TailElements
<1> HIDE DEF b
<1>6. PICK m \in OfKind(Msgs, {"replace"}) : b.ops = {Op(m, m)}
  BY <1>2, <1>5 DEF Inv, Bookkeeping, ReplacesOnly
<1>7. m \in Msgs /\ m \in Events /\ Kind[m] = "replace"
  BY <1>6 DEF OfKind, Events
<1>8. evs = {m} /\ \A op \in b.ops : op.ev = m
  BY <1>6 DEF Op
<1>9. b.ops \in SUBSET Operations
  BY <1>5 DEF Batches
<1> HIDE DEF evs, heard
<1>10. RowsKept /\ db' \subseteq Events /\ applied' \subseteq Events /\ (ok => m \in db')
  BY <1>1, <1>4, <1>6, <1>7, <1>8 DEF InPlaceOfOthers, RowsKept, Inv, TypeOK
<1>11. ok => Saved(m)'
  BY <1>7, <1>10 DEF Saved, ReplaceStored, OfKind
<1>12. ReportedSaved'
  BY <1>3, <1>10, SignalsKept DEF Inv, Bookkeeping
<1>13. CASE heard
  <2>1. /\ EventsCommitted(b.ops, b.inbound, ok)
        /\ TakeReplace(FALSE, LeftTokens(b.ops), Tail(inflight))
        /\ UNCHANGED channelClosed
        /\ TryToClose(HasPendingOperations' \/ replaceQ # <<>>)
    BY <1>1, <1>13
  <2>2. /\ expungeTokens' \subseteq Events /\ expungeTimer' \in BOOLEAN
        /\ failedSaves' \subseteq Operations /\ resaveTimers' \in Nat
        /\ failedCount' \in 0 .. MAX_SAVE_ATTEMPTS /\ asked' \in BOOLEAN
        /\ \A t \in expungeTokens' :
             \/ t \in expungeTokens
             \/ ok /\ \E op \in b.ops : TokenMatch(op.ev, t)
    <3>1. EventsCommitted(b.ops, b.inbound, ok)
      BY <2>1, Zenon
    <3> QED BY <1>9, <3>1, CommittedBody, Zenon
  <2>3. /\ LeftTokens(b.ops) \in [Events -> Seq(Events)]
        /\ \A e \in Events : \A i \in 1 .. Len(LeftTokens(b.ops)[e]) :
             \E j \in 1 .. Len(eventTokens[e]) : LeftTokens(b.ops)[e][i] = eventTokens[e][j]
    BY <1>4, <1>9, LeftTokensType
  <2>4. /\ replaceQ' \in Seq(Msgs) /\ msgQueue' \subseteq Msgs
        /\ convConnected' \in BOOLEAN
        /\ eventTokens' \in [Events -> Seq(Events)]
        /\ inflight' \in Seq(Batches)
        /\ TokensMatch' /\ ReplacesOnly'
        /\ \A i \in 1 .. Len(inflight') :
             (\E j \in 1 .. Len(inflight) : inflight'[i] = inflight[j]) \/ inflight'[i].add
    BY <1>5, <2>1, <2>3, TakeReplaceType
  <2>5. /\ phase' \in {"preparing", "waiting", "listening", "dead", "closed"}
        /\ pendingIds' \subseteq Msgs
    BY <2>1, CloseType DEF Inv
  <2>6. SavedBeforeExpunged'
    <3>1. ASSUME NEW t \in expungeTokens', t \notin expungeTokens
          PROVE  Covered(t)'
      <4>1. ok /\ TokenMatch(m, t)
        BY <1>8, <2>2, <3>1
      <4>2. Saved(m)' /\ Kind[m] = "replace"
        BY <1>7, <1>11, <4>1
      <4>3. ReplaceStored'
        BY <1>7, <1>10, <4>1 DEF ReplaceStored, OfKind
      <4>4. t = m
        BY <1>7, <4>1, ChannelAssumption
           DEF ChannelAssumption, TokenMatch, TokenOf, Reports, Events
      <4> QED BY <1>7, <4>3, <4>4 DEF Covered
    <3>2. received' \ stored' = received \ stored /\ dropped' = dropped
      BY <1>3 DEF cmVars
    <3> QED BY <1>10, <3>1, <3>2, ExpungedKept DEF Inv, Bookkeeping
  <2>7. ModifiesSaved'
    BY <1>10, <2>4, BatchesKept DEF Inv, Bookkeeping
  <2>8. TypeOK'
    BY <1>3, <1>10, <2>1, <2>2, <2>4, <2>5 DEF Inv, TypeOK, cmVars
  <2> QED BY <1>12, <2>4, <2>6, <2>7, <2>8 DEF Inv, Bookkeeping
<1>14. CASE ~heard
  <2>1. /\ inflight' = Tail(inflight)
        /\ UNCHANGED <<lifeVars, saveVars, expVars, eventTokens, replaceQ,
                       convConnected, msgQueue>>
    BY <1>1, <1>14
  <2>2. SavedBeforeExpunged'
    BY <1>3, <1>10, <2>1, ExpungedKept DEF Inv, Bookkeeping, cmVars, expVars
  <2>3. ModifiesSaved'
    BY <1>5, <1>10, <2>1, BatchesKept DEF Inv, Bookkeeping
  <2>4. TokensMatch'
    BY <2>1 DEF Inv, Bookkeeping, TokensMatch
  <2>5. ReplacesOnly'
    <3>1. ReplacesOnly /\ \A i \in 1 .. Len(replaceQ') : Kind[replaceQ'[i]] = "replace"
      BY <2>1 DEF Inv, Bookkeeping, ReplacesOnly
    <3> QED BY <1>5, <2>1, <3>1, ReplacesKept
  <2>6. TypeOK'
    BY <1>3, <1>5, <1>10, <2>1 DEF Inv, TypeOK, cmVars, lifeVars, saveVars, expVars
  <2> QED BY <1>12, <2>2, <2>3, <2>4, <2>5, <2>6 DEF Inv, Bookkeeping
<1> QED BY <1>13, <1>14

\* The daemon restarts.
LEMMA RestartStep == Inv /\ Restart => Inv'
<1> SUFFICES ASSUME Inv, Restart PROVE Inv'
  OBVIOUS
<1>1. /\ UNCHANGED <<cmVars, chanQueue, sent, resends, db, applied, dropped>>
      /\ inflight' = <<>> /\ signals' = <<>> /\ replaceQ' = <<>>
      /\ eventTokens' = [e \in Events |-> <<>>] /\ expungeTokens' = {}
  BY DEF Restart
<1>2. RowsKept
  BY <1>1 DEF RowsKept
<1>3. SavedBeforeExpunged'
  BY <1>1, <1>2, ExpungedKept DEF Inv, Bookkeeping, cmVars
<1>4. TokensMatch' /\ ModifiesSaved' /\ ReportedSaved' /\ ReplacesOnly'
  BY <1>1 DEF TokensMatch, ModifiesSaved, ReportedSaved, ReplacesOnly
<1>5. TypeOK'
  <2>1. MAX_SAVE_ATTEMPTS \in Nat /\ MaxRestarts \in Nat
    BY ChannelAssumption DEF ChannelAssumption
  <2>2. /\ inflight' \in Seq(Batches) /\ signals' \in Seq(Signals)
        /\ replaceQ' \in Seq(Msgs)
    BY <1>1
  <2>3. eventTokens' \in [Events -> Seq(Events)]
    BY <1>1
  <2>4. /\ phase' = "preparing" /\ context' = "open" /\ channelClosed' = FALSE
        /\ pendingIds' = {} /\ msgQueue' = {} /\ expungeTimer' = FALSE
        /\ failedSaves' = {} /\ resaveTimers' = 0 /\ failedCount' = 0
        /\ convBusy' = FALSE /\ convConnected' = FALSE /\ asked' = FALSE
        /\ restarts < MaxRestarts /\ restarts' = restarts + 1
    BY DEF Restart
  <2>5. restarts' \in 0 .. MaxRestarts /\ failedCount' \in 0 .. MAX_SAVE_ATTEMPTS
    BY <2>1, <2>4 DEF Inv, TypeOK
  <2> QED BY <1>1, <2>2, <2>3, <2>4, <2>5 DEF Inv, TypeOK, cmVars
<1> QED BY <1>3, <1>4, <1>5 DEF Inv, Bookkeeping

-----------------------------------------------------------------------------
(* The theorems *)

\* The types and the bookkeeping hold in every state of every execution.
THEOREM Invariance == Spec => []Inv
<1>1. Inv /\ [Next]_vars => Inv'
  <2> SUFFICES ASSUME Inv, [Next]_vars PROVE Inv'
    OBVIOUS
  <2>1. CASE SlotOnModelReady
    BY <2>1, ModelReadyStep
  <2>2. ASSUME NEW m \in Msgs, MessageReceived(m) PROVE Inv'
    BY <2>2, ReceivedStep
  <2>3. ASSUME NEW s \in Sent, SlotMessageSent(s) PROVE Inv'
    BY <2>3, SentStep
  <2>4. CASE Commit
    BY <2>4, CommitStep
  <2>5. CASE SlotEventsCommitted
    BY <2>5, CommittedStep
  <2>6. CASE SlotSaveFailedEvents
    BY <2>6, ResaveStep
  <2>7. CASE SlotExpungeMessages
    BY <2>7, ExpungeStep
  <2>8. CASE SlotConvModelReady
    BY <2>8, ConvReadyStep
  <2>9. CASE ConvCommit
    BY <2>9, ConvCommitStep
  <2>10. CASE Restart
    BY <2>10, RestartStep
  <2>11. CASE \/ SlotChannelReady
              \/ SlotOnModelFailed
              \/ \E m \in Msgs : SlotPendingMessageRemoved(m)
              \/ \E p \in {"account", "channel"} : Invalidated(p)
              \/ ConnectionLost
              \/ SlotGroupDataChanged
              \/ UNCHANGED vars
    BY <2>11, LifeSteps
  <2> QED BY <2>1, <2>2, <2>3, <2>4, <2>5, <2>6, <2>7, <2>8, <2>9, <2>10, <2>11 DEF Next
<1> QED BY <1>1, InitInv, PTL DEF Spec

\* Every variable of a listener keeps its type: among others, the event tokens
\* stay sequences over the events, and the failed saves are counted up to the limit.
THEOREM TypeCorrect == Spec => []TypeOK
<1>1. Inv => TypeOK
  BY DEF Inv
<1> QED BY <1>1, Invariance, PTL

\* What a commit releases for expunging is the token of a stored event: the
\* four facts of Bookkeeping hold in every reachable state.
THEOREM BookkeepingHolds == Spec => []Bookkeeping
<1>1. Inv => Bookkeeping
  BY DEF Inv
<1> QED BY <1>1, Invariance, PTL

\* No message is expunged from the connection manager, or listed for it, before
\* a row of the database covers it or handleMessages has decided not to save it,
\* whichever calls fail, however commits, retries, and restarts interleave.
THEOREM ExpungeSafe == Spec => []SavedBeforeExpunged
<1>1. Inv => SavedBeforeExpunged
  BY DEF Inv, Bookkeeping
<1> QED BY <1>1, Invariance, PTL

-----------------------------------------------------------------------------
(* TextChannel implements MessageStore *)

\* What every step but the arrival of a message and the expunging leaves alone
\* on the side of the connection manager, and what it may do to the rows.
Working == RowsKept /\ dropped \subseteq dropped' /\ UNCHANGED <<received, stored>>

\* A step that keeps the rows settles what was settled.
LEMMA SettledGrows ==
  ASSUME Inv, RowsKept, dropped \subseteq dropped'
  PROVE  Store!Settle
<1> SUFFICES ASSUME NEW m \in Msgs, Covered(m) PROVE Covered(m)'
  BY DEF Store!Settle
<1> QED BY CoveredGrows DEF Inv, Events

\* Such a step that leaves the connection manager alone is work of the store.
LEMMA WorkingStep == Inv /\ Working => Store!Next
BY SettledGrows DEF Working, Store!Next, Store!Work

\* Handling messages drops some and writes no row.
LEMMA HandlingDrops ==
  ASSUME Inv, NEW cq \in SUBSET Msgs, HandleMessages(cq), db' = db
  PROVE  dropped \subseteq dropped' /\ RowsKept
BY HandlePass DEF Inv, RowsKept

\* A message that arrives is new to the store, and held.
LEMMA ArrivalStep ==
  ASSUME Inv, NEW m \in Msgs, MessageReceived(m)
  PROVE  Store!Next
<1>1. /\ m \notin received /\ received' = received \cup {m} /\ stored' = stored \cup {m}
      /\ db' = db /\ chanQueue' = chanQueue \cup {m}
  BY DEF MessageReceived
<1>2. dropped \subseteq dropped'
  <2>1. CASE phase = "listening"
    <3>1. HandleMessages(chanQueue') /\ chanQueue' \in SUBSET Msgs
      BY <1>1, <2>1 DEF MessageReceived, Inv, TypeOK
    <3> QED BY <1>1, <3>1, HandlingDrops
  <2>2. CASE phase # "listening"
    BY <2>2 DEF MessageReceived
  <2> QED BY <2>1, <2>2
<1>3. Store!Settle
  BY <1>1, <1>2, SettledGrows DEF RowsKept
<1> QED BY <1>1, <1>3 DEF Store!Next, Store!Arrive

\* The timer of the expunge list makes the connection manager forget messages
\* that are settled, and only those.
LEMMA ForgetStep == Inv /\ SlotExpungeMessages => Store!Next
<1> SUFFICES ASSUME Inv, SlotExpungeMessages PROVE Store!Next
  OBVIOUS
<1>1. /\ stored' = stored \/ stored' = stored \ expungeTokens
      /\ UNCHANGED <<received, db, dropped>>
  BY DEF SlotExpungeMessages, libVars
<1>2. \A t \in expungeTokens : Covered(t)
  BY DEF Inv, Bookkeeping, SavedBeforeExpunged
<1>3. \A m \in Msgs : Covered(m)' <=> Covered(m)
  BY <1>1 DEF Covered, Rows, ReplaceStored
<1> DEFINE S == {t \in expungeTokens : t \in Msgs}
<1>4. stored \subseteq Msgs
  BY DEF Inv, TypeOK
<1>5. S \in SUBSET {m \in Msgs : Covered(m)} /\ stored \ S = stored \ expungeTokens
  BY <1>2, <1>4
<1>6. CASE stored' = stored \ expungeTokens
  <2>1. Store!Forget(S)
    BY <1>1, <1>3, <1>5, <1>6 DEF Store!Forget
  <2> QED BY <1>5, <2>1 DEF Store!Next
<1>7. CASE stored' = stored
  BY <1>1, <1>7, WorkingStep DEF Working, RowsKept
<1> QED BY <1>1, <1>6, <1>7

\* A commit of the conversation model puts one replacing message in the place
\* of the others, or only adds it.
LEMMA ConvCommitRows == Inv /\ ConvCommit => RowsKept
<1> SUFFICES ASSUME Inv, ConvCommit PROVE RowsKept
  OBVIOUS
<1> DEFINE b == Head(inflight)
           evs == {op.ev : op \in b.ops}
<1>1. db' = db \/ db' = InPlaceOfOthers(evs) \/ db' = db \cup evs
  BY DEF ConvCommit
<1>2. inflight # <<>> /\ b.conv /\ inflight \in Seq(Batches)
  BY DEF ConvCommit, Inv, TypeOK
<1>3. b = inflight[1] /\ 1 \in 1 .. Len(inflight)
  BY <1>2, TailElements
<1>4. PICK m \in OfKind(Msgs, {"replace"}) : b.ops = {Op(m, m)}
  BY <1>2, <1>3 DEF Inv, Bookkeeping, ReplacesOnly
<1> HIDE DEF b
<1>5. evs = {m}
  BY <1>4 DEF Op
<1> QED BY <1>1, <1>4, <1>5 DEF InPlaceOfOthers, RowsKept

\* Every step of the listener and its surroundings is a step of the store, or
\* none.
LEMMA StoreStep == Inv /\ [Next]_vars => [Store!Next]_(Store!vars)
<1> SUFFICES ASSUME Inv, [Next]_vars PROVE Store!Next \/ UNCHANGED Store!vars
  OBVIOUS
<1>1. CASE SlotOnModelReady
  <2>1. /\ HandleMessages(chanQueue) /\ chanQueue \in SUBSET Msgs
        /\ UNCHANGED <<received, stored, db>>
    BY <1>1 DEF SlotOnModelReady, Untouched, Inv, TypeOK
  <2> QED BY <2>1, HandlingDrops, WorkingStep DEF Working
<1>2. ASSUME NEW m \in Msgs, MessageReceived(m) PROVE Store!Next
  BY <1>2, ArrivalStep
<1>3. CASE SlotExpungeMessages
  BY <1>3, ForgetStep
<1>4. CASE Commit
  <2>1. db \subseteq db' /\ dropped' = dropped /\ UNCHANGED <<received, stored>>
    BY <1>4 DEF Commit, cmVars
  <2> QED BY <2>1, WorkingStep DEF Working, RowsKept
<1>5. CASE ConvCommit
  <2>1. dropped' = dropped /\ UNCHANGED <<received, stored>>
    BY <1>5 DEF ConvCommit, cmVars
  <2> QED BY <1>5, <2>1, ConvCommitRows, WorkingStep DEF Working
<1>6. CASE UNCHANGED <<received, stored, db, dropped>>
  BY <1>6, WorkingStep DEF Working, RowsKept
<1>7. CASE \/ SlotChannelReady
           \/ SlotOnModelFailed
           \/ \E m \in Msgs : SlotPendingMessageRemoved(m)
           \/ \E s \in Sent : SlotMessageSent(s)
           \/ \E p \in {"account", "channel"} : Invalidated(p)
           \/ ConnectionLost
           \/ SlotGroupDataChanged
           \/ SlotEventsCommitted
           \/ SlotSaveFailedEvents
           \/ SlotConvModelReady
           \/ Restart
           \/ UNCHANGED vars
  <2>1. UNCHANGED <<received, stored, db, dropped>>
    BY <1>7 DEF SlotChannelReady, SlotOnModelFailed, SlotPendingMessageRemoved, SlotMessageSent,
                Invalidated, ConnectionLost, SlotGroupDataChanged, SlotEventsCommitted,
                SlotSaveFailedEvents, SlotConvModelReady, Restart, vars, cmVars, libVars
  <2> QED BY <1>6, <2>1
<1> QED BY <1>1, <1>2, <1>3, <1>4, <1>5, <1>7 DEF Next

\* At the start nothing has arrived and no row covers anything.
LEMMA StoreInit == Init => Store!Init
<1> SUFFICES ASSUME Init PROVE \A m \in Msgs : ~Covered(m)
  BY DEF Init, Store!Init
<1> QED BY DEF Init, Covered, Rows, ReplaceStored, OfKind

\* The listener keeps the promise of MessageStore: what was settled stays settled
\* although rows replace each other, and the connection manager is only ever told
\* to forget what is settled, through failures, retries and restarts.
THEOREM Implements == Spec => ImplementsStore
<1>1. Inv /\ [Next]_vars => [Store!Next]_(Store!vars)
  BY StoreStep
<1>2. Init => Store!Init
  BY StoreInit
<1> QED BY <1>1, <1>2, Invariance, PTL DEF Spec, ImplementsStore, Store!Spec

-----------------------------------------------------------------------------
(* A delivery is in one place at a time *)

\* some element of s is in T, and at most one is
Holds(s, T) == \E i \in 1 .. Len(s) : s[i] \in T
Once(s, T)  == \A i, j \in 1 .. Len(s) : s[i] \in T /\ s[j] \in T => i = j

\* the messages that become an event of their own
Own == OfKind(Msgs, {"normal", "edit"})

\* the places a message of its own event can be in
OwnBatches(m)    == {b \in Batches : Op(m, m) \in b.ops}
FailedSignals(m) == {s \in Signals : ~s.ok /\ Op(m, m) \in s.ops}

Flying(m)  == Holds(inflight, OwnBatches(m))
Failing(m) == Holds(signals, FailedSignals(m))
Due(m)     == Op(m, m) \in failedSaves
Placed(m)  == m \in msgQueue \/ Flying(m) \/ Failing(m) \/ Due(m) \/ m \in db

Apart(m) ==
  /\ Once(inflight, OwnBatches(m)) /\ Once(signals, FailedSignals(m))
  /\ m \in msgQueue => ~Flying(m) /\ ~Failing(m) /\ ~Due(m) /\ m \notin db
  /\ Flying(m) => ~Failing(m) /\ ~Due(m) /\ m \notin db
  /\ Failing(m) => ~Due(m) /\ m \notin db
  /\ Due(m) => m \notin db

\* what the listener has not queued yet, and could still queue
Fresh(m) == m \notin received \/ (m \in chanQueue \ pendingIds /\ phase # "closed")

\* an operation is on its way, or is to be tried again
Pending(op) ==
  \/ op \in failedSaves
  \/ \E i \in 1 .. Len(inflight) : op \in inflight[i].ops
  \/ \E i \in 1 .. Len(signals) : op \in signals[i].ops

\* another message only writes into the row of an event that is stored
Harmless(op) == op.ev \in Own /\ op.msg # op.ev => op.ev \in db

OwnOnce ==
  /\ chanQueue \subseteq received
  /\ \A op \in Operations : Pending(op) => Harmless(op)
  /\ restarts = 0 => \A m \in Own : Apart(m) /\ (Fresh(m) => ~Placed(m))

\* Appending an element.
LEMMA PushHolds ==
  ASSUME NEW S, NEW s \in Seq(S), NEW x \in S, NEW T
  PROVE  /\ Append(s, x) \in Seq(S)
         /\ Holds(Append(s, x), T) <=> Holds(s, T) \/ x \in T
         /\ Once(s, T) /\ (x \in T => ~Holds(s, T)) => Once(Append(s, x), T)
<1> DEFINE r == Append(s, x)
           n == Len(s)
<1>1. /\ r \in Seq(S) /\ Len(r) = n + 1 /\ n \in Nat /\ r[n + 1] = x
      /\ \A i \in 1 .. n : r[i] = s[i]
  OBVIOUS
<1> HIDE DEF r
<1>2. Holds(r, T) <=> Holds(s, T) \/ x \in T
  <2>1. ASSUME Holds(s, T) PROVE Holds(r, T)
    <3>1. PICK i \in 1 .. n : s[i] \in T
      BY <2>1 DEF Holds
    <3>2. i \in 1 .. Len(r) /\ r[i] \in T
      BY <1>1, <3>1
    <3> QED BY <3>2 DEF Holds
  <2>2. ASSUME x \in T PROVE Holds(r, T)
    <3>1. n + 1 \in 1 .. Len(r) /\ r[n + 1] \in T
      BY <1>1, <2>2
    <3> QED BY <3>1 DEF Holds
  <2>3. ASSUME Holds(r, T), x \notin T PROVE Holds(s, T)
    <3>1. PICK i \in 1 .. Len(r) : r[i] \in T
      BY <2>3 DEF Holds
    <3>2. i \in 1 .. n /\ s[i] \in T
      BY <1>1, <2>3, <3>1
    <3> QED BY <3>2 DEF Holds
  <2> QED BY <2>1, <2>2, <2>3
<1>3. ASSUME Once(s, T), x \in T => ~Holds(s, T) PROVE Once(r, T)
  <2> SUFFICES ASSUME NEW i \in 1 .. Len(r), NEW j \in 1 .. Len(r), r[i] \in T, r[j] \in T
               PROVE  i = j
    BY DEF Once
  <2>1. CASE i \in 1 .. n /\ j \in 1 .. n
    BY <1>1, <1>3, <2>1 DEF Once
  <2>2. CASE i = n + 1 /\ j = n + 1
    BY <2>2
  <2>3. CASE i = n + 1 /\ j \in 1 .. n
    BY <1>1, <1>3, <2>3 DEF Holds
  <2>4. CASE j = n + 1 /\ i \in 1 .. n
    BY <1>1, <1>3, <2>4 DEF Holds
  <2> QED BY <1>1, <2>1, <2>2, <2>3, <2>4
<1> QED BY <1>1, <1>2, <1>3 DEF r

\* Taking the first element.
LEMMA PopHolds ==
  ASSUME NEW S, NEW s \in Seq(S), s # <<>>, NEW T
  PROVE  /\ Tail(s) \in Seq(S) /\ Head(s) \in S
         /\ Holds(s, T) <=> Holds(Tail(s), T) \/ Head(s) \in T
         /\ Once(s, T) => Once(Tail(s), T) /\ (Head(s) \in T => ~Holds(Tail(s), T))
<1> DEFINE r == Tail(s)
           n == Len(s)
<1>1. n \in Nat /\ n > 0
  BY EmptySeq
<1>2. /\ r \in Seq(S) /\ Len(r) = n - 1 /\ Head(s) \in S /\ Head(s) = s[1]
      /\ \A i \in 1 .. Len(r) : i + 1 \in 1 .. n /\ r[i] = s[i + 1]
  BY <1>1, HeadTailProperties
<1> HIDE DEF r, n
<1>3. Holds(s, T) <=> Holds(r, T) \/ Head(s) \in T
  <2>1. ASSUME Holds(r, T) PROVE Holds(s, T)
    <3>1. PICK i \in 1 .. Len(r) : r[i] \in T
      BY <2>1 DEF Holds
    <3>2. i + 1 \in 1 .. n /\ s[i + 1] \in T
      BY <1>2, <3>1
    <3> QED BY <3>2 DEF Holds, n
  <2>2. ASSUME Head(s) \in T PROVE Holds(s, T)
    <3>1. 1 \in 1 .. n /\ s[1] \in T
      BY <1>1, <1>2, <2>2
    <3> QED BY <3>1 DEF Holds, n
  <2>3. ASSUME Holds(s, T), Head(s) \notin T PROVE Holds(r, T)
    <3>1. PICK i \in 1 .. n : s[i] \in T
      BY <2>3 DEF Holds, n
    <3>2. i - 1 \in 1 .. Len(r) /\ s[(i - 1) + 1] = s[i]
      BY <1>1, <1>2, <2>3, <3>1
    <3>3. r[i - 1] \in T
      BY <1>2, <3>1, <3>2
    <3> QED BY <3>2, <3>3 DEF Holds
  <2> QED BY <2>1, <2>2, <2>3
<1>4. ASSUME Once(s, T) PROVE Once(r, T) /\ (Head(s) \in T => ~Holds(r, T))
  <2>1. \A i, j \in 1 .. n : s[i] \in T /\ s[j] \in T => i = j
    BY <1>4 DEF Once, n
  <2>2. ASSUME NEW i \in 1 .. Len(r), NEW j \in 1 .. Len(r), r[i] \in T, r[j] \in T
        PROVE  i = j
    <3>1. i + 1 = j + 1
      BY <1>2, <2>1, <2>2
    <3> QED BY <1>1, <1>2, <3>1
  <2>3. ASSUME Head(s) \in T, NEW i \in 1 .. Len(r), r[i] \in T PROVE FALSE
    <3>1. i + 1 = 1
      BY <1>1, <1>2, <2>1, <2>3
    <3> QED BY <1>1, <1>2, <3>1
  <2> QED BY <2>2, <2>3 DEF Once, Holds
<1> QED BY <1>2, <1>3, <1>4 DEF r

\* r is s with, if ok, a batch of the operations ops: what that means for message m
Grown(s, r, ops, ok, m) ==
  /\ r \in Seq(Batches)
  /\ Holds(r, OwnBatches(m)) <=> Holds(s, OwnBatches(m)) \/ (ok /\ Op(m, m) \in ops)
  /\ Once(s, OwnBatches(m)) /\ (ok /\ Op(m, m) \in ops => ~Holds(s, OwnBatches(m)))
       => Once(r, OwnBatches(m))
  /\ \A i \in 1 .. Len(r) : (\E j \in 1 .. Len(s) : r[i] = s[j]) \/ r[i].ops = ops

\* A call of the event model: one more batch if there is something to submit and
\* the call succeeds.
LEMMA SubmitHolds ==
  ASSUME NEW s \in Seq(Batches), NEW ops \in SUBSET Operations, NEW add \in BOOLEAN,
         NEW ok \in BOOLEAN, NEW a \in Directions(ops), NEW m
  PROVE  Grown(s, s \o Submitted(ops, add, ok, a), ops, ok, m)
<1> DEFINE b == Batch(ops, add, a, FALSE)
           r == s \o Submitted(ops, add, ok, a)
<1>1. a \in BOOLEAN
  <2>1. \A e : Inbound(e) \in BOOLEAN
    BY DEF Inbound
  <2> QED BY <2>1, Zenon DEF Directions
<1>2. b \in Batches /\ b.ops = ops
  <2>1. FALSE \in BOOLEAN
    OBVIOUS
  <2>2. Batch(ops, add, a, FALSE) \in Batches /\ Batch(ops, add, a, FALSE).ops = ops
    BY <1>1, <2>1 DEF Batch, Batches
  <2> QED BY <2>2, Zenon
<1>3. b \in OwnBatches(m) <=> Op(m, m) \in ops
  BY <1>2 DEF OwnBatches
<1>4. r = s \o (IF ops # {} /\ ok THEN <<b>> ELSE <<>>)
  BY DEF Submitted
<1> HIDE DEF b, r
<1>5. CASE ops # {} /\ ok
  <2>1. r = Append(s, b)
    BY <1>2, <1>4, <1>5
  <2>2. /\ Append(s, b) \in Seq(Batches)
        /\ Holds(Append(s, b), OwnBatches(m)) <=> Holds(s, OwnBatches(m)) \/ b \in OwnBatches(m)
        /\ Once(s, OwnBatches(m)) /\ (b \in OwnBatches(m) => ~Holds(s, OwnBatches(m)))
             => Once(Append(s, b), OwnBatches(m))
    BY <1>2, PushHolds
  <2>3. \A i \in 1 .. Len(Append(s, b)) :
          (\E j \in 1 .. Len(s) : Append(s, b)[i] = s[j]) \/ Append(s, b)[i] = b
    BY <1>2, AppendElements, SMT
  <2>4. \A i \in 1 .. Len(r) : (\E j \in 1 .. Len(s) : r[i] = s[j]) \/ r[i].ops = ops
    BY <1>2, <2>1, <2>3
  <2> QED BY <1>3, <1>5, <2>1, <2>2, <2>4, Zenon DEF r, Grown
<1>6. CASE ~(ops # {} /\ ok)
  <2>1. r = s
    BY <1>4, <1>6
  <2>2. ~(ok /\ Op(m, m) \in ops)
    BY <1>6
  <2>3. \A i \in 1 .. Len(r) : (\E j \in 1 .. Len(s) : r[i] = s[j]) \/ r[i].ops = ops
    BY <2>1, Zenon
  <2>4. r \in Seq(Batches)
    BY <2>1
  <2> QED BY <2>1, <2>2, <2>3, <2>4, Zenon DEF r, Grown
<1> QED BY <1>5, <1>6

\* What a step has to show: nothing new is on its way but harmless operations,
\* no row of an own event goes, and each message is still in one place.
LEMMA OwnKept ==
  ASSUME OwnOnce, restarts' = restarts, chanQueue' \subseteq received',
         \A op \in Operations : Pending(op)' => Pending(op) \/ Harmless(op),
         \A m \in Own : m \in db => m \in db',
         \A m \in Own : Apart(m) /\ (Fresh(m) => ~Placed(m))
                          => Apart(m)' /\ (Fresh(m)' => ~Placed(m)')
  PROVE  OwnOnce'
<1>1. \A op \in Operations : Pending(op)' => Harmless(op)'
  BY DEF OwnOnce, Harmless
<1>2. restarts' = 0 => \A m \in Own : Apart(m)' /\ (Fresh(m)' => ~Placed(m)')
  BY DEF OwnOnce
<1> QED BY <1>1, <1>2 DEF OwnOnce

\* A step that moves no message of its own event.
LEMMA PlacesKept ==
  ASSUME OwnOnce, restarts' = restarts, chanQueue' \subseteq received',
         UNCHANGED <<msgQueue, inflight, signals, failedSaves, db>>,
         \A m \in Own : Fresh(m)' => Fresh(m)
  PROVE  OwnOnce'
<1>1. \A op \in Operations : Pending(op)' => Pending(op)
  BY DEF Pending
<1>2. \A m \in Own : (Apart(m) => Apart(m)') /\ (Placed(m)' => Placed(m))
  BY DEF Apart, Placed, Flying, Failing, Due
<1> QED BY <1>1, <1>2, OwnKept

\* What the end of a listener's life does to the messages it has not queued.
LEMMA CloseFresh ==
  ASSUME NEW pending, TryToClose(pending), UNCHANGED <<received, chanQueue>>, NEW m
  PROVE  Fresh(m)' => Fresh(m)
BY DEF TryToClose, Fresh

\* The life of the listener, and the messages that are acknowledged or expunged.
LEMMA LifeOnce ==
  ASSUME Inv, OwnOnce,
         \/ SlotChannelReady
         \/ SlotOnModelFailed
         \/ \E m \in Msgs : SlotPendingMessageRemoved(m)
         \/ \E p \in {"account", "channel"} : Invalidated(p)
         \/ ConnectionLost
         \/ SlotGroupDataChanged
         \/ SlotExpungeMessages
         \/ UNCHANGED vars
  PROVE  OwnOnce'
<1> USE DEF vars, cmVars, libVars, lifeVars, saveVars, convVars, expVars
<1>0. chanQueue \subseteq received
  BY DEF OwnOnce
<1>1. CASE SlotChannelReady
  <2>1. \A m \in Own : Fresh(m)' => Fresh(m)
    BY <1>1 DEF SlotChannelReady, TryToClose, Fresh
  <2> QED BY <1>0, <1>1, <2>1, PlacesKept DEF SlotChannelReady
<1>2. CASE SlotOnModelFailed
  <2>1. \A m \in Own : Fresh(m)' => Fresh(m)
    BY <1>2 DEF SlotOnModelFailed, Fresh
  <2> QED BY <1>0, <1>2, <2>1, PlacesKept DEF SlotOnModelFailed
<1>3. ASSUME NEW m \in Msgs, SlotPendingMessageRemoved(m)
      PROVE  OwnOnce'
  <2>1. \A x \in Own : Fresh(x)' => Fresh(x)
    BY <1>3 DEF SlotPendingMessageRemoved, Fresh
  <2> QED BY <1>0, <1>3, <2>1, PlacesKept DEF SlotPendingMessageRemoved
<1>4. ASSUME NEW p \in {"account", "channel"}, Invalidated(p)
      PROVE  OwnOnce'
  <2>1. \A x \in Own : Fresh(x)' => Fresh(x)
    BY <1>4 DEF Invalidated, TryToClose, Fresh
  <2> QED BY <1>0, <1>4, <2>1, PlacesKept DEF Invalidated
<1>5. CASE ConnectionLost
  <2>1. \A m \in Own : Fresh(m)' => Fresh(m)
    BY <1>5 DEF ConnectionLost, Fresh
  <2> QED BY <1>0, <1>5, <2>1, PlacesKept DEF ConnectionLost
<1>6. CASE SlotGroupDataChanged
  <2>1. \A m \in Own : Fresh(m)' => Fresh(m)
    BY <1>6 DEF SlotGroupDataChanged, TryToClose, Fresh
  <2> QED BY <1>0, <1>6, <2>1, PlacesKept DEF SlotGroupDataChanged
<1>7. CASE SlotExpungeMessages
  <2>1. \A m \in Own : Fresh(m)' => Fresh(m)
    BY <1>7 DEF SlotExpungeMessages, TryToClose, Fresh
  <2> QED BY <1>0, <1>7, <2>1, PlacesKept DEF SlotExpungeMessages
<1>8. CASE UNCHANGED vars
  <2>1. \A m \in Own : Fresh(m)' => Fresh(m)
    BY <1>8 DEF Fresh
  <2> QED BY <1>0, <1>8, <2>1, PlacesKept
<1> QED BY <1>1, <1>2, <1>3, <1>4, <1>5, <1>6, <1>7, <1>8

\* The operations of messages of their own event are their own.
LEMMA OwnOps ==
  ASSUME NEW m \in Own
  PROVE  /\ m \in Msgs /\ m \in Events /\ m \notin Sent /\ Op(m, m) \in Operations
         /\ \A x, y : Op(x, y) = Op(m, m) <=> x = m /\ y = m
         /\ \A x, y : Op(x, y).ev = x /\ Op(x, y).msg = y
         /\ Kind[m] \in {"normal", "edit"}
BY ChannelAssumption DEF Own, OfKind, ChannelAssumption, Events, Op, Operations

\* A pass of handleMessages moves every message it takes into the local queue or
\* into the batch of new events.
LEMMA HandleOnce ==
  ASSUME Inv, OwnOnce, NEW cq \in SUBSET Msgs, HandleMessages(cq), phase # "closed",
         UNCHANGED <<db, signals, failedSaves, restarts>>,
         received \subseteq received', chanQueue' = cq, cq \subseteq received',
         \A m \in cq \ pendingIds : Fresh(m)
  PROVE  OwnOnce'
<1> DEFINE q == Queue(cq)
<1>1. q \in SUBSET Msgs
  BY DEF Queue, Inv, TypeOK
<1>2. PICK missed \in SUBSET OfKind(q, AboutEvent), scrollOk \in BOOLEAN,
           addOk \in BOOLEAN, modifyOk \in BOOLEAN :
        HandleWith(cq, missed, scrollOk, addOk, modifyOk)
  BY DEF HandleMessages, Outcome
<1> DEFINE adds == AddOps(q, missed)
           modifies == ModifyOps(q, missed)
           scrolls == OfKind(q, {"scrollback"})
           processed == Drops(q, missed) \cup (IF modifyOk THEN Found(q, missed) ELSE {})
                          \cup (IF (adds # {} /\ addOk) \/ (scrolls # {} /\ scrollOk)
                                THEN AddEvents(q, missed) \cup scrolls ELSE {})
<1>3. PICK a \in Directions(adds), b \in Directions(modifies) :
        inflight' = inflight \o Submitted(adds, TRUE, addOk, a)
                             \o Submitted(modifies, FALSE, modifyOk, b)
  BY <1>2 DEF HandleWith
<1>4. msgQueue' = q \ processed /\ pendingIds' = pendingIds \cup cq
  BY <1>2 DEF HandleWith, HandleMessages
<1>5. /\ adds \subseteq Operations /\ modifies \subseteq Operations
      /\ \A op \in adds : op.msg = op.ev
      /\ \A op \in modifies : op.ev \in db
      /\ \A m : Op(m, m) \in adds <=> m \in AddEvents(q, missed)
      /\ \A m : Op(m, m) \in modifies => m \in q /\ m \in db
  <2>1. adds \subseteq Operations /\ modifies \subseteq Operations /\ \A op \in modifies : op.ev \in db
    <3> HIDE DEF q
    <3> QED BY <1>1, HandledOps DEF Inv
  <2>2. /\ \A op \in adds : op.msg = op.ev
        /\ \A m : Op(m, m) \in adds <=> m \in AddEvents(q, missed)
    <3>1. \A m : Op(m, m).ev = m /\ Op(m, m).msg = m
      BY DEF Op
    <3>2. adds = {Op(m, m) : m \in AddEvents(q, missed)}
      BY DEF AddOps
    <3> HIDE DEF adds, q
    <3> QED BY <3>1, <3>2
  <2>3. ASSUME NEW m, Op(m, m) \in modifies PROVE m \in q /\ m \in db
    <3>1. PICK x \in Found(q, missed) : Op(m, m) = Op(Row(Target[x]), x)
      BY <2>3 DEF ModifyOps
    <3>2. x = m
      BY <3>1 DEF Op
    <3>3. Op(m, m).ev = m
      BY DEF Op
    <3>4. m \in db
      BY <2>1, <2>3, <3>3
    <3> QED BY <3>1, <3>2, <3>4 DEF Found, OfKind
  <2> QED BY <2>1, <2>2, <2>3
<1> HIDE DEF adds, modifies
<1> DEFINE s == inflight \o Submitted(adds, TRUE, addOk, a)
<1>6. inflight \in Seq(Batches)
  BY DEF Inv, TypeOK
<1>7. ASSUME NEW m
      PROVE  /\ s \in Seq(Batches)
             /\ Holds(s, OwnBatches(m)) <=> Flying(m) \/ (addOk /\ Op(m, m) \in adds)
             /\ Once(inflight, OwnBatches(m)) /\ (addOk /\ Op(m, m) \in adds => ~Flying(m))
                  => Once(s, OwnBatches(m))
             /\ \A i \in 1 .. Len(s) :
                  (\E j \in 1 .. Len(inflight) : s[i] = inflight[j]) \/ s[i].ops = adds
  <2>1. adds \in SUBSET Operations /\ TRUE \in BOOLEAN
    BY <1>5
  <2>2. inflight \in Seq(Batches) /\ a \in Directions(adds) /\ addOk \in BOOLEAN
    BY <1>6
  <2> DEFINE r == inflight \o Submitted(adds, TRUE, addOk, a)
  <2>3. Grown(inflight, r, adds, addOk, m)
    BY <2>1, <2>2, SubmitHolds
  <2>4. s = r
    OBVIOUS
  <2> HIDE DEF r, s, q
  <2> QED BY <2>3, <2>4, Zenon DEF Flying, Grown
<1> HIDE DEF s
<1>8. inflight' = s \o Submitted(modifies, FALSE, modifyOk, b)
  BY <1>3 DEF s
<1>9. ASSUME NEW m
      PROVE  /\ Flying(m)' <=> Holds(s, OwnBatches(m)) \/ (modifyOk /\ Op(m, m) \in modifies)
             /\ Once(s, OwnBatches(m)) /\ (modifyOk /\ Op(m, m) \in modifies => ~Holds(s, OwnBatches(m)))
                  => Once(inflight', OwnBatches(m))
             /\ \A i \in 1 .. Len(inflight') :
                  (\E j \in 1 .. Len(s) : inflight'[i] = s[j]) \/ inflight'[i].ops = modifies
  <2>1. modifies \in SUBSET Operations /\ FALSE \in BOOLEAN /\ s \in Seq(Batches)
    BY <1>5, <1>7
  <2> DEFINE r == s \o Submitted(modifies, FALSE, modifyOk, b)
  <2>2. Grown(s, r, modifies, modifyOk, m)
    <3>1. b \in Directions(modifies) /\ modifyOk \in BOOLEAN
      OBVIOUS
    <3> QED BY <2>1, <3>1, SubmitHolds
  <2>3. inflight' = r
    BY <1>8
  <2> HIDE DEF r
  <2> QED BY <2>2, <2>3, Zenon DEF Flying, Grown
<1>10. \A op \in Operations : Pending(op)' => Pending(op) \/ Harmless(op)
  <2> SUFFICES ASSUME NEW op \in Operations, Pending(op)', ~Pending(op) PROVE Harmless(op)
    OBVIOUS
  <2>1. PICK i \in 1 .. Len(inflight') : op \in inflight'[i].ops
    BY DEF Pending
  <2>2. inflight'[i].ops = modifies \/ \E j \in 1 .. Len(s) : inflight'[i] = s[j]
    BY <1>9
  <2>3. ASSUME NEW j \in 1 .. Len(s), inflight'[i] = s[j] PROVE op \in adds
    <3>1. s[j].ops = adds \/ \E k \in 1 .. Len(inflight) : s[j] = inflight[k]
      BY <1>7
    <3> QED BY <2>1, <2>3, <3>1 DEF Pending
  <2>4. op \in adds \/ op \in modifies
    BY <2>1, <2>2, <2>3
  <2> QED BY <1>5, <2>4 DEF Harmless
<1>11. ASSUME NEW m \in Own, Apart(m), Fresh(m) => ~Placed(m)
       PROVE  Apart(m)' /\ (Fresh(m)' => ~Placed(m)')
  <2>1. m \in q => ~Flying(m) /\ ~Failing(m) /\ ~Due(m) /\ m \notin db
    BY <1>11 DEF Queue, Apart, Placed
  <2>2. Failing(m)' = Failing(m) /\ Due(m)' = Due(m) /\ (m \in db' <=> m \in db)
    BY DEF Failing, Due
  <2>3. Op(m, m) \notin modifies
    BY <1>5, <2>1
  <2>4. Op(m, m) \in adds => m \in q
    BY <1>5 DEF AddEvents, OfKind
  <2>5. m \in msgQueue' => m \in q /\ ~(addOk /\ Op(m, m) \in adds)
    BY <1>4, <1>5
  <2>6. Flying(m)' <=> Flying(m) \/ (addOk /\ Op(m, m) \in adds)
    BY <1>7, <1>9, <2>3
  <2>7. Once(inflight', OwnBatches(m)) /\ Once(signals', FailedSignals(m))
    BY <1>7, <1>9, <1>11, <2>1, <2>3, <2>4 DEF Apart
  <2>8. Apart(m)'
    BY <1>11, <2>1, <2>2, <2>4, <2>5, <2>6, <2>7 DEF Apart
  <2>9. ASSUME Fresh(m)' PROVE ~Placed(m)'
    <3>1. m \notin received'
      BY <1>4, <2>9 DEF Fresh
    <3>2. ~Placed(m)
      BY <1>11, <3>1 DEF Fresh
    <3>3. m \notin q
      BY <3>1, <3>2 DEF Queue, Placed
    <3> QED BY <2>2, <2>4, <2>5, <2>6, <3>2, <3>3 DEF Placed
  <2> QED BY <2>8, <2>9
<1> QED BY <1>10, <1>11, OwnKept

\* The model is ready: the backlog is handled.
LEMMA ModelReadyOnce == Inv /\ OwnOnce /\ SlotOnModelReady => OwnOnce'
<1> SUFFICES ASSUME Inv, OwnOnce, SlotOnModelReady PROVE OwnOnce'
  OBVIOUS
<1>1. /\ HandleMessages(chanQueue) /\ phase # "closed"
      /\ UNCHANGED <<received, db, signals, failedSaves, restarts, chanQueue>>
  BY DEF SlotOnModelReady, Untouched, saveVars
<1>2. chanQueue \in SUBSET Msgs /\ chanQueue \subseteq received
  BY DEF Inv, TypeOK, OwnOnce
<1>3. \A m \in chanQueue \ pendingIds : Fresh(m)
  BY <1>1 DEF Fresh
<1> QED BY <1>1, <1>2, <1>3, HandleOnce

\* A message arrives.
LEMMA ReceivedOnce ==
  ASSUME Inv, OwnOnce, NEW m \in Msgs, MessageReceived(m)
  PROVE  OwnOnce'
<1>1. /\ m \notin received /\ received' = received \cup {m}
      /\ chanQueue' = chanQueue \cup {m}
      /\ UNCHANGED <<phase, db, signals, failedSaves, restarts>>
  BY DEF MessageReceived, saveVars
<1>2. chanQueue \in SUBSET Msgs /\ chanQueue \subseteq received
  BY DEF Inv, TypeOK, OwnOnce
<1>3. chanQueue' \in SUBSET Msgs /\ received \subseteq received' /\ chanQueue' \subseteq received'
  BY <1>1, <1>2
<1>4. CASE phase = "listening"
  <2>1. HandleMessages(chanQueue')
    BY <1>4 DEF MessageReceived
  <2>2. \A x \in chanQueue' \ pendingIds : Fresh(x)
    BY <1>1, <1>4 DEF Fresh
  <2> QED BY <1>1, <1>3, <1>4, <2>1, <2>2, HandleOnce
<1>5. CASE phase # "listening"
  <2>1. UNCHANGED <<pendingIds, msgQueue, inflight>>
    BY <1>5 DEF MessageReceived
  <2>2. \A x \in Own : Fresh(x)' => Fresh(x)
    BY <1>1, <2>1 DEF Fresh
  <2> QED BY <1>1, <1>3, <2>1, <2>2, PlacesKept
<1> QED BY <1>4, <1>5

\* A batch of messages that have no event of their own.
LEMMA ForeignBatch ==
  ASSUME Inv, OwnOnce, NEW s \in Seq(Batches), NEW b \in Batches,
         \A m \in Own : Op(m, m) \notin b.ops, \A op \in b.ops : Harmless(op)
  PROVE  /\ Append(s, b) \in Seq(Batches)
         /\ \A m \in Own :
              /\ Holds(Append(s, b), OwnBatches(m)) <=> Holds(s, OwnBatches(m))
              /\ Once(s, OwnBatches(m)) => Once(Append(s, b), OwnBatches(m))
         /\ \A op : (\E i \in 1 .. Len(Append(s, b)) : op \in Append(s, b)[i].ops)
                      => Harmless(op) \/ \E i \in 1 .. Len(s) : op \in s[i].ops
<1>1. ASSUME NEW m \in Own
      PROVE  /\ Holds(Append(s, b), OwnBatches(m)) <=> Holds(s, OwnBatches(m))
             /\ Once(s, OwnBatches(m)) => Once(Append(s, b), OwnBatches(m))
  <2>1. b \notin OwnBatches(m)
    BY DEF OwnBatches
  <2> QED BY <2>1, PushHolds
<1>2. /\ Append(s, b) \in Seq(Batches)
      /\ \A i \in 1 .. Len(Append(s, b)) :
           (\E j \in 1 .. Len(s) : Append(s, b)[i] = s[j]) \/ Append(s, b)[i] = b
  BY AppendElements
<1> DEFINE r == Append(s, b)
<1> HIDE DEF r
<1>3. ASSUME NEW op, NEW i \in 1 .. Len(r), op \in r[i].ops
      PROVE  Harmless(op) \/ \E j \in 1 .. Len(s) : op \in s[j].ops
  BY <1>2, <1>3 DEF r
<1> QED BY <1>1, <1>2, <1>3 DEF r

\* A message of the user is not one of those the channel delivers.
LEMMA SentOnce ==
  ASSUME Inv, OwnOnce, NEW s \in Sent, SlotMessageSent(s)
  PROVE  OwnOnce'
<1> DEFINE b == Batch({Op(s, s)}, s \notin db, FALSE, FALSE)
<1>1. inflight' = Append(inflight, b) \/ inflight' = inflight
  BY DEF SlotMessageSent
<1>2. UNCHANGED <<received, chanQueue, db, signals, phase, pendingIds, failedSaves, msgQueue, restarts>>
  BY DEF SlotMessageSent, cmVars, lifeVars, saveVars
<1>3. b \in Batches /\ b.ops = {Op(s, s)}
  <2>1. {Op(s, s)} \in SUBSET Operations /\ (s \notin db) \in BOOLEAN
    BY DEF Op, Operations, Events
  <2> QED BY <2>1 DEF Batch, Batches
<1> HIDE DEF b
<1>4. /\ \A m \in Own : Op(m, m) \notin b.ops
      /\ \A op \in b.ops : Harmless(op)
  <2>1. \A m \in Own : Op(m, m) \notin b.ops
    BY <1>3, OwnOps
  <2>2. Op(s, s).ev = Op(s, s).msg
    BY DEF Op
  <2> QED BY <1>3, <2>1, <2>2 DEF Harmless
<1>5. inflight \in Seq(Batches)
  BY DEF Inv, TypeOK
<1>6. /\ \A m \in Own : /\ Flying(m)' <=> Flying(m)
                        /\ Once(inflight, OwnBatches(m)) => Once(inflight', OwnBatches(m))
      /\ \A op : (\E i \in 1 .. Len(inflight') : op \in inflight'[i].ops)
                   => Harmless(op) \/ \E i \in 1 .. Len(inflight) : op \in inflight[i].ops
  <2>1. CASE inflight' = Append(inflight, b)
    <3>1. /\ \A m \in Own :
               /\ Holds(Append(inflight, b), OwnBatches(m)) <=> Holds(inflight, OwnBatches(m))
               /\ Once(inflight, OwnBatches(m)) => Once(Append(inflight, b), OwnBatches(m))
          /\ \A op : (\E i \in 1 .. Len(Append(inflight, b)) : op \in Append(inflight, b)[i].ops)
                       => Harmless(op) \/ \E i \in 1 .. Len(inflight) : op \in inflight[i].ops
      BY <1>3, <1>4, <1>5, ForeignBatch, Zenon
    <3> QED BY <2>1, <3>1, Zenon DEF Flying
  <2>2. CASE inflight' = inflight
    BY <2>2 DEF Flying
  <2> QED BY <1>1, <2>1, <2>2
<1>7. \A op \in Operations : Pending(op)' => Pending(op) \/ Harmless(op)
  BY <1>2, <1>6, Zenon DEF Pending
<1>8. ASSUME NEW m \in Own, Apart(m), Fresh(m) => ~Placed(m)
      PROVE  Apart(m)' /\ (Fresh(m)' => ~Placed(m)')
  <2>1. /\ Flying(m)' <=> Flying(m)
        /\ Failing(m)' <=> Failing(m)
        /\ Due(m)' <=> Due(m)
        /\ Fresh(m)' <=> Fresh(m)
        /\ Once(inflight', OwnBatches(m)) /\ Once(signals', FailedSignals(m))
    BY <1>2, <1>6, <1>8 DEF Failing, Due, Fresh, Apart
  <2> QED BY <1>2, <1>8, <2>1 DEF Apart, Placed
<1> QED BY <1>2, <1>7, <1>8, OwnKept DEF OwnOnce

\* The daemon restarts: from then on a delivery may be stored twice.
LEMMA RestartOnce == Inv /\ OwnOnce /\ Restart => OwnOnce'
<1> SUFFICES ASSUME Inv, OwnOnce, Restart PROVE OwnOnce'
  OBVIOUS
<1>1. /\ UNCHANGED <<received, chanQueue>> /\ restarts' = restarts + 1
      /\ inflight' = <<>> /\ signals' = <<>> /\ failedSaves' = {}
  BY DEF Restart, cmVars
<1>2. restarts' # 0
  BY <1>1, ChannelAssumption DEF ChannelAssumption, Inv, TypeOK
<1>3. \A op \in Operations : ~Pending(op)'
  BY <1>1 DEF Pending
<1> QED BY <1>1, <1>2, <1>3 DEF OwnOnce

\* An operation of a batch or of a signal about the row of an own event is that
\* message's own, or its row is there.
LEMMA OwnRow ==
  ASSUME OwnOnce, NEW ops \in SUBSET Operations, NEW op \in ops, NEW m \in Own,
         Pending(op), op.ev = m
  PROVE  Op(m, m) \in ops \/ m \in db
<1>1. op.msg # m => m \in db
  BY DEF OwnOnce, Harmless
<1>2. op = [ev |-> op.ev, msg |-> op.msg]
  BY DEF Operations
<1>3. op.msg = m => op = Op(m, m)
  BY <1>2 DEF Op
<1> QED BY <1>1, <1>3

\* A batch of the event model is committed, or not, and reported.
LEMMA CommitOnce == Inv /\ OwnOnce /\ Commit => OwnOnce'
<1> SUFFICES ASSUME Inv, OwnOnce, Commit PROVE OwnOnce'
  OBVIOUS
<1> DEFINE b == Head(inflight)
<1>1. PICK ok \in BOOLEAN :
        /\ db' = IF ok /\ b.add THEN db \cup {op.ev : op \in b.ops} ELSE db
        /\ signals' = Append(signals, [ops |-> b.ops, inbound |-> b.inbound, ok |-> ok])
  BY DEF Commit, Outcome
<1>2. inflight \in Seq(Batches) /\ inflight # <<>> /\ inflight' = Tail(inflight)
  BY DEF Inv, TypeOK, Commit
<1>3. /\ b \in Batches /\ b = inflight[1] /\ 1 \in 1 .. Len(inflight)
      /\ \A i \in 1 .. Len(inflight') : \E j \in 1 .. Len(inflight) : inflight'[i] = inflight[j]
  BY <1>2, TailElements
<1>4. ASSUME NEW m
      PROVE  /\ Flying(m) <=> Flying(m)' \/ b \in OwnBatches(m)
             /\ Once(inflight, OwnBatches(m)) =>
                  Once(inflight', OwnBatches(m)) /\ (b \in OwnBatches(m) => ~Flying(m)')
  <2>1. /\ Holds(inflight, OwnBatches(m)) <=> Holds(Tail(inflight), OwnBatches(m)) \/ b \in OwnBatches(m)
        /\ Once(inflight, OwnBatches(m)) =>
             Once(Tail(inflight), OwnBatches(m))
               /\ (b \in OwnBatches(m) => ~Holds(Tail(inflight), OwnBatches(m)))
    BY <1>2, PopHolds
  <2> HIDE DEF b
  <2> QED BY <1>2, <2>1, Zenon DEF Flying
<1> DEFINE s == [ops |-> b.ops, inbound |-> b.inbound, ok |-> ok]
<1>5. s \in Signals /\ s.ops = b.ops /\ s.ok = ok
  <2> HIDE DEF b
  <2> QED BY <1>3 DEF Batches, Signals
<1>6. signals \in Seq(Signals) /\ signals' = Append(signals, s)
  BY <1>1 DEF Inv, TypeOK
<1> HIDE DEF b, s
<1>7. ASSUME NEW m
      PROVE  /\ s \in FailedSignals(m) <=> ~ok /\ b \in OwnBatches(m)
             /\ Failing(m)' <=> Failing(m) \/ s \in FailedSignals(m)
             /\ Once(signals, FailedSignals(m)) /\ (s \in FailedSignals(m) => ~Failing(m))
                  => Once(signals', FailedSignals(m))
  <2>1. s \in FailedSignals(m) <=> ~ok /\ b \in OwnBatches(m)
    BY <1>3, <1>5 DEF FailedSignals, OwnBatches
  <2>2. /\ Holds(Append(signals, s), FailedSignals(m))
             <=> Holds(signals, FailedSignals(m)) \/ s \in FailedSignals(m)
        /\ Once(signals, FailedSignals(m))
             /\ (s \in FailedSignals(m) => ~Holds(signals, FailedSignals(m)))
             => Once(Append(signals, s), FailedSignals(m))
    BY <1>5, <1>6, PushHolds
  <2> QED BY <1>6, <2>1, <2>2, Zenon DEF Failing
<1>8. UNCHANGED <<received, chanQueue, phase, pendingIds, failedSaves, msgQueue, restarts>>
  BY DEF Commit, cmVars, lifeVars, saveVars
<1>9. \A op \in b.ops : Pending(op)
  BY <1>3 DEF Pending
<1>10. \A op \in Operations : Pending(op)' => Pending(op)
  <2>1. \A i \in 1 .. Len(signals') :
          (\E j \in 1 .. Len(signals) : signals'[i] = signals[j]) \/ signals'[i] = s
    BY <1>5, <1>6, AppendElements, SMT
  <2> QED BY <1>3, <1>5, <1>8, <1>9, <2>1 DEF Pending
<1>11. ASSUME NEW m \in Own, Apart(m), Fresh(m) => ~Placed(m)
       PROVE  Apart(m)' /\ (Fresh(m)' => ~Placed(m)')
  <2>1. m \in db' => m \in db \/ (ok /\ b \in OwnBatches(m))
    <3> SUFFICES ASSUME m \in db', m \notin db PROVE ok /\ b \in OwnBatches(m)
      OBVIOUS
    <3>1. ok /\ \E op \in b.ops : op.ev = m
      BY <1>1
    <3>2. b.ops \in SUBSET Operations
      BY <1>3 DEF Batches
    <3>3. Op(m, m) \in b.ops
      BY <1>9, <3>1, <3>2, OwnRow
    <3> QED BY <1>3, <3>1, <3>3 DEF OwnBatches
  <2>2. Fresh(m)' = Fresh(m) /\ Due(m)' = Due(m) /\ (m \in msgQueue' <=> m \in msgQueue)
    BY <1>8 DEF Fresh, Due
  <2>3. /\ Flying(m) <=> Flying(m)' \/ b \in OwnBatches(m)
        /\ Once(inflight', OwnBatches(m)) /\ (b \in OwnBatches(m) => ~Flying(m)')
        /\ Failing(m)' <=> Failing(m) \/ (~ok /\ b \in OwnBatches(m))
    BY <1>4, <1>7, <1>11 DEF Apart
  <2>4. Once(signals', FailedSignals(m))
    BY <1>7, <1>11, <2>3 DEF Apart
  <2> QED BY <1>11, <2>1, <2>2, <2>3, <2>4 DEF Apart, Placed
<1>12. \A m \in Own : m \in db => m \in db'
  BY <1>1
<1> QED BY <1>8, <1>10, <1>11, <1>12, OwnKept DEF OwnOnce

\* A failed commit returns its operations to the list, or forgets them.
LEMMA FailedListed ==
  ASSUME NEW ops, NEW inbound, NEW ok, EventsCommitted(ops, inbound, ok)
  PROVE  failedSaves' = failedSaves \/ (~ok /\ failedSaves' = failedSaves \cup ops)
BY DEF EventsCommitted, NeedsRetry, saveVars

\* A commit is handled.
LEMMA CommittedOnce == Inv /\ OwnOnce /\ SlotEventsCommitted => OwnOnce'
<1> SUFFICES ASSUME Inv, OwnOnce, SlotEventsCommitted PROVE OwnOnce'
  OBVIOUS
<1> DEFINE s == Head(signals)
<1>1. signals \in Seq(Signals) /\ signals # <<>> /\ signals' = Tail(signals)
  BY DEF Inv, TypeOK, SlotEventsCommitted
<1>2. /\ s \in Signals /\ s = signals[1] /\ 1 \in 1 .. Len(signals)
      /\ \A i \in 1 .. Len(signals') : \E j \in 1 .. Len(signals) : signals'[i] = signals[j]
  BY <1>1, TailElements
<1>3. failedSaves' = failedSaves \/ (~s.ok /\ failedSaves' = failedSaves \cup s.ops)
  <2>1. EventsCommitted(s.ops, s.inbound, s.ok)
    BY DEF SlotEventsCommitted
  <2> QED BY <2>1, FailedListed
<1>4. ASSUME NEW m
      PROVE  /\ Failing(m) <=> Failing(m)' \/ s \in FailedSignals(m)
             /\ Once(signals, FailedSignals(m)) =>
                  Once(signals', FailedSignals(m)) /\ (s \in FailedSignals(m) => ~Failing(m)')
  <2>1. /\ Holds(signals, FailedSignals(m)) <=> Holds(Tail(signals), FailedSignals(m)) \/ s \in FailedSignals(m)
        /\ Once(signals, FailedSignals(m)) =>
             Once(Tail(signals), FailedSignals(m))
               /\ (s \in FailedSignals(m) => ~Holds(Tail(signals), FailedSignals(m)))
    BY <1>1, PopHolds
  <2> HIDE DEF s
  <2> QED BY <1>1, <2>1, Zenon DEF Failing
<1> HIDE DEF s
<1>5. /\ UNCHANGED <<received, chanQueue, db, inflight, msgQueue, restarts>>
      /\ TryToClose(HasPendingOperations')
  BY DEF SlotEventsCommitted, cmVars
<1>6. \A op \in Operations : Pending(op)' => Pending(op)
  BY <1>2, <1>3, <1>5 DEF Pending
<1>7. ASSUME NEW m \in Own, Apart(m), Fresh(m) => ~Placed(m)
      PROVE  Apart(m)' /\ (Fresh(m)' => ~Placed(m)')
  <2>1. Due(m)' => Due(m) \/ s \in FailedSignals(m)
    BY <1>2, <1>3 DEF Due, FailedSignals
  <2>2. Fresh(m)' => Fresh(m)
    BY <1>5, CloseFresh
  <2>3. Flying(m)' = Flying(m) /\ Once(inflight', OwnBatches(m))
    BY <1>5, <1>7 DEF Flying, Apart
  <2>4. /\ Failing(m) <=> Failing(m)' \/ s \in FailedSignals(m)
        /\ Once(signals', FailedSignals(m)) /\ (s \in FailedSignals(m) => ~Failing(m)')
    BY <1>4, <1>7 DEF Apart
  <2> QED BY <1>5, <1>7, <2>1, <2>2, <2>3, <2>4 DEF Apart, Placed
<1> QED BY <1>5, <1>6, <1>7, OwnKept DEF OwnOnce

\* What failed is added again.
LEMMA ResaveOnce == Inv /\ OwnOnce /\ SlotSaveFailedEvents => OwnOnce'
<1> SUFFICES ASSUME Inv, OwnOnce, SlotSaveFailedEvents PROVE OwnOnce'
  OBVIOUS
<1>1. PICK inbound \in Directions(failedSaves) :
        \/ inflight' = Append(inflight, Batch(failedSaves, TRUE, inbound, FALSE))
        \/ inflight' = inflight
  BY DEF SlotSaveFailedEvents
<1> DEFINE b == Batch(failedSaves, TRUE, inbound, FALSE)
<1>2. UNCHANGED <<received, chanQueue, db, signals, phase, pendingIds, msgQueue, restarts>>
      /\ failedSaves' = {}
  BY DEF SlotSaveFailedEvents, cmVars, lifeVars
<1>3. b \in Batches /\ b.ops = failedSaves /\ inflight \in Seq(Batches)
  <2>1. inbound \in BOOLEAN
    <3>1. \A e : Inbound(e) \in BOOLEAN
      BY DEF Inbound
    <3> QED BY <3>1, Zenon DEF Directions
  <2>2. failedSaves \in SUBSET Operations /\ inflight \in Seq(Batches)
    BY DEF Inv, TypeOK
  <2> QED BY <2>1, <2>2 DEF Batch, Batches
<1>4. inflight' = Append(inflight, b) \/ inflight' = inflight
  BY <1>1
<1> HIDE DEF b
<1>5. ASSUME NEW m
      PROVE  /\ Flying(m) => Flying(m)'
             /\ Flying(m)' => Flying(m) \/ Due(m)
             /\ Once(inflight, OwnBatches(m)) /\ (Due(m) => ~Flying(m))
                  => Once(inflight', OwnBatches(m))
  <2>1. b \in OwnBatches(m) <=> Due(m)
    BY <1>3 DEF OwnBatches, Due
  <2>2. /\ Holds(Append(inflight, b), OwnBatches(m))
             <=> Holds(inflight, OwnBatches(m)) \/ b \in OwnBatches(m)
        /\ Once(inflight, OwnBatches(m))
             /\ (b \in OwnBatches(m) => ~Holds(inflight, OwnBatches(m)))
             => Once(Append(inflight, b), OwnBatches(m))
    BY <1>3, PushHolds
  <2>3. CASE inflight' = Append(inflight, b)
    BY <2>1, <2>2, <2>3, Zenon DEF Flying
  <2>4. CASE inflight' = inflight
    BY <2>4, Zenon DEF Flying
  <2> QED BY <1>4, <2>3, <2>4
<1>6. \A op \in Operations : Pending(op)' => Pending(op)
  <2>1. \A i \in 1 .. Len(inflight') :
          (\E j \in 1 .. Len(inflight) : inflight'[i] = inflight[j]) \/ inflight'[i] = b
    <3>1. CASE inflight' = Append(inflight, b)
      BY <1>3, <3>1, AppendElements, SMT
    <3>2. CASE inflight' = inflight
      BY <3>2, Zenon
    <3> QED BY <1>4, <3>1, <3>2
  <2> QED BY <1>2, <1>3, <2>1 DEF Pending
<1>7. ASSUME NEW m \in Own, Apart(m), Fresh(m) => ~Placed(m)
      PROVE  Apart(m)' /\ (Fresh(m)' => ~Placed(m)')
  <2>1. /\ ~Due(m)'
        /\ Failing(m)' <=> Failing(m)
        /\ Fresh(m)' <=> Fresh(m)
        /\ Once(signals', FailedSignals(m))
    BY <1>2, <1>7 DEF Failing, Due, Fresh, Apart
  <2>2. Flying(m)' => Flying(m) \/ Due(m)
    BY <1>5
  <2>3. Once(inflight', OwnBatches(m))
    BY <1>5, <1>7 DEF Apart
  <2> QED BY <1>2, <1>7, <2>1, <2>2, <2>3 DEF Apart, Placed
<1> QED BY <1>2, <1>6, <1>7, OwnKept DEF OwnOnce

\* slotConvModelReady takes a replacing message, which is nobody's own event here.
LEMMA TakeReplaceOnce ==
  ASSUME Inv, OwnOnce, NEW connected, NEW tokens, NEW batches \in Seq(Batches),
         TakeReplace(connected, tokens, batches)
  PROVE  /\ \A m \in Own :
              /\ m \in msgQueue' <=> m \in msgQueue
              /\ Flying(m)' <=> Holds(batches, OwnBatches(m))
              /\ Once(batches, OwnBatches(m)) => Once(inflight', OwnBatches(m))
         /\ \A op : (\E i \in 1 .. Len(inflight') : op \in inflight'[i].ops)
                      => Harmless(op) \/ \E i \in 1 .. Len(batches) : op \in batches[i].ops
<1>1. CASE replaceQ = <<>>
  <2>1. inflight' = batches /\ msgQueue' = msgQueue
    BY <1>1 DEF TakeReplace
  <2> QED BY <2>1, Zenon DEF Flying
<1>2. CASE replaceQ # <<>>
  <2> DEFINE r == Head(replaceQ)
             b == Batch({Op(r, r)}, TRUE, Inbound(r), TRUE)
  <2>1. /\ msgQueue' = msgQueue \ {r}
        /\ inflight' = Append(batches, b) \/ inflight' = batches
    BY <1>2 DEF TakeReplace
  <2>2. r \in Msgs /\ Kind[r] = "replace"
    <3>1. replaceQ \in Seq(Msgs) /\ \A i \in 1 .. Len(replaceQ) : Kind[replaceQ[i]] = "replace"
      BY DEF Inv, TypeOK, Bookkeeping, ReplacesOnly
    <3> QED BY <1>2, <3>1, TailElements
  <2> HIDE DEF r
  <2>3. \A m \in Own : m # r
    BY <2>2, OwnOps
  <2>4. b \in Batches /\ b.ops = {Op(r, r)}
    <3>1. Inbound(r) \in BOOLEAN /\ {Op(r, r)} \in SUBSET Operations
      BY <2>2 DEF Inbound, Op, Operations, Events
    <3> QED BY <3>1 DEF Batch, Batches
  <2> HIDE DEF b
  <2>5. (\A m \in Own : Op(m, m) \notin b.ops) /\ (\A op \in b.ops : Harmless(op))
    <3>1. \A m \in Own : Op(m, m) \notin b.ops
      BY <2>3, <2>4, OwnOps
    <3>2. Op(r, r).ev = Op(r, r).msg
      BY DEF Op
    <3> QED BY <2>4, <3>1, <3>2 DEF Harmless
  <2>6. /\ \A m \in Own :
             /\ Holds(Append(batches, b), OwnBatches(m)) <=> Holds(batches, OwnBatches(m))
             /\ Once(batches, OwnBatches(m)) => Once(Append(batches, b), OwnBatches(m))
        /\ \A op : (\E i \in 1 .. Len(Append(batches, b)) : op \in Append(batches, b)[i].ops)
                     => Harmless(op) \/ \E i \in 1 .. Len(batches) : op \in batches[i].ops
    BY <2>4, <2>5, ForeignBatch, Zenon
  <2>7. \A m \in Own : m \in msgQueue' <=> m \in msgQueue
    BY <2>1, <2>3
  <2>8. CASE inflight' = Append(batches, b)
    BY <2>6, <2>7, <2>8, Zenon DEF Flying
  <2>9. CASE inflight' = batches
    BY <2>7, <2>9, Zenon DEF Flying
  <2> QED BY <2>1, <2>8, <2>9
<1> QED BY <1>1, <1>2

\* The conversation model answers.
LEMMA ConvReadyOnce == Inv /\ OwnOnce /\ SlotConvModelReady => OwnOnce'
<1> SUFFICES ASSUME Inv, OwnOnce, SlotConvModelReady PROVE OwnOnce'
  OBVIOUS
<1>1. \/ TakeReplace(convConnected, eventTokens, inflight)
      \/ UNCHANGED <<inflight, msgQueue>>
  BY DEF SlotConvModelReady
<1>2. UNCHANGED <<received, chanQueue, db, signals, phase, pendingIds, failedSaves, restarts>>
  BY DEF SlotConvModelReady, cmVars, lifeVars, saveVars
<1>3. /\ \A m \in Own :
           /\ m \in msgQueue' <=> m \in msgQueue
           /\ Flying(m)' <=> Flying(m)
           /\ Once(inflight, OwnBatches(m)) => Once(inflight', OwnBatches(m))
      /\ \A op : (\E i \in 1 .. Len(inflight') : op \in inflight'[i].ops)
                   => Harmless(op) \/ \E i \in 1 .. Len(inflight) : op \in inflight[i].ops
  <2>1. CASE TakeReplace(convConnected, eventTokens, inflight)
    <3>1. inflight \in Seq(Batches)
      BY DEF Inv, TypeOK
    <3>2. /\ \A m \in Own :
               /\ m \in msgQueue' <=> m \in msgQueue
               /\ Flying(m)' <=> Holds(inflight, OwnBatches(m))
               /\ Once(inflight, OwnBatches(m)) => Once(inflight', OwnBatches(m))
          /\ \A op : (\E i \in 1 .. Len(inflight') : op \in inflight'[i].ops)
                       => Harmless(op) \/ \E i \in 1 .. Len(inflight) : op \in inflight[i].ops
      BY <2>1, <3>1, TakeReplaceOnce, Zenon
    <3> QED BY <3>2, Zenon DEF Flying
  <2>2. CASE UNCHANGED <<inflight, msgQueue>>
    BY <2>2 DEF Flying
  <2> QED BY <1>1, <2>1, <2>2
<1>4. \A op \in Operations : Pending(op)' => Pending(op) \/ Harmless(op)
  BY <1>2, <1>3, Zenon DEF Pending
<1>5. ASSUME NEW m \in Own, Apart(m), Fresh(m) => ~Placed(m)
      PROVE  Apart(m)' /\ (Fresh(m)' => ~Placed(m)')
  <2>1. /\ Failing(m)' <=> Failing(m)
        /\ Due(m)' <=> Due(m)
        /\ Fresh(m)' <=> Fresh(m)
        /\ Once(signals', FailedSignals(m))
    BY <1>2, <1>5 DEF Failing, Due, Fresh, Apart
  <2>2. /\ m \in msgQueue' <=> m \in msgQueue
        /\ Flying(m)' <=> Flying(m)
        /\ Once(inflight', OwnBatches(m))
    BY <1>3, <1>5 DEF Apart
  <2> QED BY <1>2, <1>5, <2>1, <2>2 DEF Apart, Placed
<1> QED BY <1>2, <1>4, <1>5, OwnKept DEF OwnOnce

\* The conversation model commits a replacing message, heard or not: no own event
\* is in the batch, and no row of one goes.
LEMMA ConvCommitOnce == Inv /\ OwnOnce /\ ConvCommit => OwnOnce'
<1> SUFFICES ASSUME Inv, OwnOnce, ConvCommit PROVE OwnOnce'
  OBVIOUS
<1> DEFINE b == Head(inflight)
           evs == {op.ev : op \in b.ops}
           heard == convConnected /\ phase # "closed"
<1>1. PICK ok \in BOOLEAN :
        /\ db' = IF ~ok THEN db
                 ELSE IF heard THEN InPlaceOfOthers(evs)
                 ELSE db \cup evs
        /\ IF heard
           THEN /\ EventsCommitted(b.ops, b.inbound, ok)
                /\ TakeReplace(FALSE, LeftTokens(b.ops), Tail(inflight))
                /\ TryToClose(HasPendingOperations' \/ replaceQ # <<>>)
           ELSE /\ inflight' = Tail(inflight)
                /\ UNCHANGED <<lifeVars, saveVars, msgQueue>>
  BY DEF ConvCommit, Outcome
<1>2. inflight # <<>> /\ b.conv /\ inflight \in Seq(Batches)
  BY DEF ConvCommit, Inv, TypeOK
<1>3. /\ b \in Batches /\ b = inflight[1] /\ 1 \in 1 .. Len(inflight)
      /\ Tail(inflight) \in Seq(Batches)
      /\ \A i \in 1 .. Len(Tail(inflight)) : \E j \in 1 .. Len(inflight) : Tail(inflight)[i] = inflight[j]
  BY <1>2, TailElements
<1>4. UNCHANGED <<received, chanQueue, signals, restarts>>
  BY DEF ConvCommit, cmVars
<1>5. PICK r \in OfKind(Msgs, {"replace"}) : b.ops = {Op(r, r)}
  BY <1>2, <1>3 DEF Inv, Bookkeeping, ReplacesOnly
<1>6. ASSUME NEW m
      PROVE  /\ Flying(m) <=> Holds(Tail(inflight), OwnBatches(m)) \/ b \in OwnBatches(m)
             /\ Once(inflight, OwnBatches(m)) => Once(Tail(inflight), OwnBatches(m))
  <2>1. /\ Holds(inflight, OwnBatches(m)) <=> Holds(Tail(inflight), OwnBatches(m)) \/ b \in OwnBatches(m)
        /\ Once(inflight, OwnBatches(m)) => Once(Tail(inflight), OwnBatches(m))
    BY <1>2, PopHolds
  <2> QED BY <2>1, Zenon DEF Flying
<1> HIDE DEF b
<1>7. evs = {r}
  BY <1>5 DEF Op
<1>8. r \in Msgs /\ Kind[r] = "replace" /\ \A m \in Own : m # r
  BY <1>5, OwnOps DEF OfKind
<1>9. \A m \in Own : Op(m, m) \notin b.ops /\ b \notin OwnBatches(m)
  BY <1>5, <1>8, OwnOps DEF OwnBatches
<1> HIDE DEF evs, heard
<1>10. \A m \in Own : m \in db <=> m \in db'
  <2>1. \A m \in Own : m \in InPlaceOfOthers(evs) <=> m \in db
    BY <1>7, <1>8, OwnOps DEF InPlaceOfOthers, OfKind
  <2>2. \A m \in Own : m \in db \cup evs <=> m \in db
    BY <1>7, <1>8
  <2> QED BY <1>1, <2>1, <2>2, Zenon
<1>11. failedSaves' = failedSaves \/ failedSaves' = failedSaves \cup b.ops
  <2>1. CASE heard
    <3>1. EventsCommitted(b.ops, b.inbound, ok)
      BY <1>1, <2>1
    <3> QED BY <3>1, FailedListed
  <2>2. CASE ~heard
    BY <1>1, <2>2 DEF saveVars
  <2> QED BY <2>1, <2>2
<1>12. \A m : Fresh(m)' => Fresh(m)
  <2>1. CASE heard
    <3>1. TryToClose(HasPendingOperations' \/ replaceQ # <<>>)
      BY <1>1, <2>1
    <3> QED BY <1>4, <3>1 DEF TryToClose, Fresh
  <2>2. CASE ~heard
    BY <1>1, <1>4, <2>2 DEF lifeVars, Fresh
  <2> QED BY <2>1, <2>2
<1>13. /\ \A m \in Own :
            /\ m \in msgQueue' <=> m \in msgQueue
            /\ Flying(m)' <=> Holds(Tail(inflight), OwnBatches(m))
            /\ Once(Tail(inflight), OwnBatches(m)) => Once(inflight', OwnBatches(m))
       /\ \A op : (\E i \in 1 .. Len(inflight') : op \in inflight'[i].ops)
                    => Harmless(op) \/ \E i \in 1 .. Len(Tail(inflight)) : op \in Tail(inflight)[i].ops
  <2>1. CASE heard
    <3>1. TakeReplace(FALSE, LeftTokens(b.ops), Tail(inflight))
      BY <1>1, <2>1
    <3> QED BY <1>3, <3>1, TakeReplaceOnce
  <2>2. CASE ~heard
    <3>1. inflight' = Tail(inflight) /\ msgQueue' = msgQueue
      BY <1>1, <2>2
    <3> QED BY <3>1, Zenon DEF Flying
  <2> QED BY <2>1, <2>2
<1>14. \A op \in Operations : Pending(op)' => Pending(op) \/ Harmless(op)
  <2>1. \A op : (\E i \in 1 .. Len(Tail(inflight)) : op \in Tail(inflight)[i].ops)
                  => \E i \in 1 .. Len(inflight) : op \in inflight[i].ops
    BY <1>3
  <2>2. \A op : op \in failedSaves' =>
          op \in failedSaves \/ \E i \in 1 .. Len(inflight) : op \in inflight[i].ops
    BY <1>3, <1>11
  <2> QED BY <1>4, <1>13, <2>1, <2>2, Zenon DEF Pending
<1>15. ASSUME NEW m \in Own, Apart(m), Fresh(m) => ~Placed(m)
       PROVE  Apart(m)' /\ (Fresh(m)' => ~Placed(m)')
  <2>1. /\ Failing(m)' <=> Failing(m)
        /\ Once(signals', FailedSignals(m))
    BY <1>4, <1>15 DEF Failing, Apart
  <2>2. Due(m)' <=> Due(m)
    BY <1>9, <1>11 DEF Due
  <2>3. /\ m \in msgQueue' <=> m \in msgQueue
        /\ Flying(m)' <=> Flying(m)
        /\ Once(inflight', OwnBatches(m))
    BY <1>6, <1>9, <1>13, <1>15 DEF Apart
  <2> QED BY <1>10, <1>12, <1>15, <2>1, <2>2, <2>3 DEF Apart, Placed
<1> QED BY <1>4, <1>10, <1>14, <1>15, OwnKept DEF OwnOnce

\* Nothing is queued, on its way or stored at the start.
LEMMA InitOnce == Init => OwnOnce
<1> SUFFICES ASSUME Init PROVE OwnOnce
  OBVIOUS
<1>1. \A op : ~Pending(op)
  BY DEF Init, Pending
<1>2. \A m : Once(inflight, OwnBatches(m)) /\ Once(signals, FailedSignals(m))
  BY DEF Init, Once
<1>3. \A m : ~Flying(m) /\ ~Failing(m) /\ ~Due(m) /\ m \notin msgQueue /\ m \notin db
  BY DEF Init, Flying, Failing, Due, Holds
<1>4. chanQueue \subseteq received
  BY DEF Init
<1> QED BY <1>1, <1>2, <1>3, <1>4 DEF OwnOnce, Apart, Placed

\* A message of its own event is in one place at a time, in every execution.
THEOREM PlacesApart == Spec => []OwnOnce
<1>1. Inv /\ OwnOnce /\ [Next]_vars => OwnOnce'
  <2> SUFFICES ASSUME Inv, OwnOnce, [Next]_vars PROVE OwnOnce'
    OBVIOUS
  <2>1. CASE SlotOnModelReady
    BY <2>1, ModelReadyOnce
  <2>2. ASSUME NEW m \in Msgs, MessageReceived(m) PROVE OwnOnce'
    BY <2>2, ReceivedOnce
  <2>3. ASSUME NEW s \in Sent, SlotMessageSent(s) PROVE OwnOnce'
    BY <2>3, SentOnce
  <2>4. CASE Commit
    BY <2>4, CommitOnce
  <2>5. CASE SlotEventsCommitted
    BY <2>5, CommittedOnce
  <2>6. CASE SlotSaveFailedEvents
    BY <2>6, ResaveOnce
  <2>7. CASE SlotConvModelReady
    BY <2>7, ConvReadyOnce
  <2>8. CASE ConvCommit
    BY <2>8, ConvCommitOnce
  <2>9. CASE Restart
    BY <2>9, RestartOnce
  <2>10. CASE \/ SlotChannelReady
              \/ SlotOnModelFailed
              \/ \E m \in Msgs : SlotPendingMessageRemoved(m)
              \/ \E p \in {"account", "channel"} : Invalidated(p)
              \/ ConnectionLost
              \/ SlotGroupDataChanged
              \/ SlotExpungeMessages
              \/ UNCHANGED vars
    BY <2>10, LifeOnce
  <2> QED BY <2>1, <2>2, <2>3, <2>4, <2>5, <2>6, <2>7, <2>8, <2>9, <2>10 DEF Next
<1> QED BY <1>1, InitOnce, Invariance, PTL DEF Spec

\* Of two places a message of its own event could be in, it is in one: the retries
\* of handleMessages and of slotSaveFailedEvents never store a delivery twice.
THEOREM NeverTwice == Spec => []SavedOnce
<1>1. Inv /\ OwnOnce => SavedOnce
  <2> SUFFICES ASSUME Inv, OwnOnce, restarts = 0, NEW m \in OfKind(Msgs, {"normal", "edit"})
               PROVE  LET live == {i \in DOMAIN inflight :
                                     inflight[i].add /\ Op(m, m) \in inflight[i].ops}
                      IN  /\ Cardinality(live) + Cardinality({Op(m, m)} \cap failedSaves)
                               + Cardinality({m} \cap db) <= 1
                          /\ m \in msgQueue => live = {} /\ Op(m, m) \notin failedSaves /\ m \notin db
    BY DEF SavedOnce
  <2> DEFINE live == {i \in DOMAIN inflight : inflight[i].add /\ Op(m, m) \in inflight[i].ops}
             due == {Op(m, m)} \cap failedSaves
             row == {m} \cap db
  <2>1. Apart(m)
    BY DEF OwnOnce, Own
  <2>2. inflight \in Seq(Batches)
    BY DEF Inv, TypeOK
  <2>3. \A i \in live : i \in 1 .. Len(inflight) /\ inflight[i] \in OwnBatches(m)
    BY <2>2 DEF OwnBatches
  <2>4. live # {} => Flying(m)
    BY <2>3 DEF Flying, Holds
  <2>5. \A i, j \in live : i = j
    BY <2>1, <2>3 DEF Apart, Once
  <2>6. /\ live = {} \/ \E i : live = {i}
        /\ due = {} \/ (due = {Op(m, m)} /\ Due(m))
        /\ row = {} \/ (row = {m} /\ m \in db)
    BY <2>5 DEF Due
  <2>7. \A x : Cardinality({x}) = 1
    BY FS_Singleton
  <2>8. Cardinality({}) = 0
    BY FS_EmptySet
  <2>9. /\ live # {} => due = {} /\ row = {}
        /\ due # {} => row = {}
    BY <2>1, <2>4, <2>6 DEF Apart
  <2>10. m \in msgQueue => live = {} /\ Op(m, m) \notin failedSaves /\ m \notin db
    BY <2>1, <2>4 DEF Apart, Due
  <2> HIDE DEF live, due, row
  <2>11. Cardinality(live) \in {0, 1} /\ Cardinality(due) \in {0, 1} /\ Cardinality(row) \in {0, 1}
    BY <2>6, <2>7, <2>8
  <2>12. Cardinality(live) + Cardinality(due) + Cardinality(row) <= 1
    BY <2>8, <2>9, <2>11
  <2> QED BY <2>10, <2>12 DEF live, due, row
<1> QED BY <1>1, Invariance, PlacesApart, PTL

-----------------------------------------------------------------------------
(* A token for every operation that is on its way *)

\* the operations of a batch that write into the row of event e
Of(ops, e) == {op \in ops : op.ev = e}

\* all of them, with the position of their batch or signal in s
Pieces(s, e) == {p \in (1 .. Len(s)) \X Operations : p[2] \in s[p[1]].ops /\ p[2].ev = e}

\* m_EventTokens has, for every message, at least as many tokens as operations are
\* submitted or wait for their commit to be handled
Counted ==
  \A e \in Msgs :
    Cardinality(Pieces(inflight, e)) + Cardinality(Pieces(signals, e)) <= Len(eventTokens[e])

\* the listener goes without a token
Drained ==
  /\ Counted
  /\ phase = "closed" => \A e \in Msgs : eventTokens[e] = <<>>

\* The size of a union of two sets without a common element.
LEMMA DisjointSum ==
  ASSUME NEW S, NEW T, IsFiniteSet(S), IsFiniteSet(T), \A x \in S : x \notin T
  PROVE  /\ IsFiniteSet(S \cup T) /\ Cardinality(S) \in Nat /\ Cardinality(T) \in Nat
         /\ Cardinality(S \cup T) = Cardinality(S) + Cardinality(T)
<1>1. /\ IsFiniteSet(S \cup T)
      /\ Cardinality(S \cup T) = Cardinality(S) + Cardinality(T) - Cardinality(S \cap T)
  BY FS_Union
<1>2. S \cap T = {}
  OBVIOUS
<1>3. Cardinality(S \cap T) = 0
  BY <1>2, FS_EmptySet
<1>4. Cardinality(S) \in Nat /\ Cardinality(T) \in Nat
  BY FS_CardinalityType
<1> QED BY <1>1, <1>3, <1>4

\* What is on its way is finite.
LEMMA PiecesFinite ==
  ASSUME NEW S, NEW s \in Seq(S), NEW e \in Events
  PROVE  IsFiniteSet(Pieces(s, e)) /\ Cardinality(Pieces(s, e)) \in Nat
<1> DEFINE T == {op \in Operations : op.ev = e}
           I == 1 .. Len(s)
<1>1. IsFiniteSet(T)
  BY FiniteOps
<1>2. IsFiniteSet(I)
  BY FS_Interval
<1>3. Pieces(s, e) \subseteq I \X T
  BY DEF Pieces
<1> HIDE DEF T, I
<1>4. IsFiniteSet(I \X T)
  BY <1>1, <1>2, FS_Product
<1>5. IsFiniteSet(Pieces(s, e))
  BY <1>3, <1>4, FS_Subset
<1> QED BY <1>5, FS_CardinalityType

\* As many as there are in a batch, wherever it is put.
LEMMA OfSize ==
  ASSUME NEW ops \in SUBSET Operations, NEW e \in Events, NEW i
  PROVE  LET N == {<<i, op>> : op \in Of(ops, e)} IN
         /\ IsFiniteSet(Of(ops, e)) /\ Cardinality(Of(ops, e)) \in Nat
         /\ IsFiniteSet(N) /\ Cardinality(N) = Cardinality(Of(ops, e))
<1> DEFINE S == Of(ops, e)
           N == {<<i, op>> : op \in S}
           f == [op \in S |-> <<i, op>>]
<1>1. IsFiniteSet(S)
  BY FiniteOps DEF Of
<1> HIDE DEF S
<1>2. f \in Bijection(S, N)
  BY DEF Bijection, Injection, Surjection, IsInjective
<1>3. ExistsBijection(S, N)
  BY <1>2 DEF ExistsBijection
<1> HIDE DEF N, f
<1>4. IsFiniteSet(N) /\ Cardinality(N) = Cardinality(S)
  BY <1>1, <1>3, FS_Bijection
<1>5. Cardinality(S) \in Nat
  BY <1>1, FS_CardinalityType
<1> QED BY <1>1, <1>4, <1>5 DEF S, N

\* Appending a batch or a signal adds its operations.
LEMMA PushPieces ==
  ASSUME NEW S, \A x \in S : x.ops \subseteq Operations, NEW s \in Seq(S), NEW b \in S,
         NEW e \in Events
  PROVE  Cardinality(Pieces(Append(s, b), e)) = Cardinality(Pieces(s, e)) + Cardinality(Of(b.ops, e))
<1> DEFINE r == Append(s, b)
           n == Len(s)
           N == {<<n + 1, op>> : op \in Of(b.ops, e)}
<1>1. /\ Len(r) = n + 1 /\ n \in Nat /\ r[n + 1] = b
      /\ \A i \in 1 .. n : r[i] = s[i]
  OBVIOUS
<1>2. b.ops \in SUBSET Operations
  OBVIOUS
<1> HIDE DEF r, n
<1>3. Pieces(r, e) = Pieces(s, e) \cup N
  <2>1. ASSUME NEW p \in Pieces(r, e) PROVE p \in Pieces(s, e) \cup N
    <3>1. /\ p \in (1 .. n + 1) \X Operations
          /\ p[2] \in r[p[1]].ops /\ p[2].ev = e
      BY <1>1, <2>1 DEF Pieces
    <3>2. CASE p[1] \in 1 .. n
      BY <1>1, <3>1, <3>2 DEF Pieces, n
    <3>3. CASE p[1] = n + 1
      <4>1. p[2] \in Of(b.ops, e) /\ p = <<n + 1, p[2]>>
        BY <1>1, <3>1, <3>3 DEF Of
      <4> QED BY <4>1
    <3> QED BY <1>1, <3>1, <3>2, <3>3
  <2>2. ASSUME NEW p \in Pieces(s, e) PROVE p \in Pieces(r, e)
    <3>1. p \in (1 .. n) \X Operations /\ p[2] \in s[p[1]].ops /\ p[2].ev = e
      BY <2>2 DEF Pieces, n
    <3>2. p \in (1 .. n + 1) \X Operations /\ r[p[1]] = s[p[1]]
      BY <1>1, <3>1
    <3> QED BY <1>1, <3>1, <3>2 DEF Pieces
  <2>3. ASSUME NEW op \in Of(b.ops, e) PROVE <<n + 1, op>> \in Pieces(r, e)
    <3>1. op \in Operations /\ op \in b.ops /\ op.ev = e
      BY <1>2 DEF Of
    <3>2. n + 1 \in 1 .. Len(r) /\ r[n + 1] = b
      BY <1>1
    <3> QED BY <3>1, <3>2 DEF Pieces
  <2> QED BY <2>1, <2>2, <2>3
<1>4. \A p \in Pieces(s, e) : p \notin N
  <2> SUFFICES ASSUME NEW p \in Pieces(s, e), p \in N PROVE FALSE
    OBVIOUS
  <2>1. p[1] \in 1 .. n
    BY DEF Pieces, n
  <2>2. p[1] = n + 1
    OBVIOUS
  <2> QED BY <1>1, <2>1, <2>2
<1>5. IsFiniteSet(Pieces(s, e))
  BY PiecesFinite
<1>6. IsFiniteSet(N) /\ Cardinality(N) = Cardinality(Of(b.ops, e))
  BY <1>2, OfSize
<1> HIDE DEF N
<1> QED BY <1>3, <1>4, <1>5, <1>6, DisjointSum DEF r

\* Taking the first one takes its operations.
LEMMA PopPieces ==
  ASSUME NEW S, \A x \in S : x.ops \subseteq Operations, NEW s \in Seq(S), s # <<>>,
         NEW e \in Events
  PROVE  Cardinality(Pieces(s, e)) = Cardinality(Pieces(Tail(s), e)) + Cardinality(Of(Head(s).ops, e))
<1> DEFINE r == Tail(s)
           b == Head(s)
           n == Len(s)
           N == {<<1, op>> : op \in Of(b.ops, e)}
           M == {p \in Pieces(s, e) : p[1] # 1}
           P == Pieces(r, e)
           f == [p \in P |-> <<p[1] + 1, p[2]>>]
<1>1. n \in Nat /\ n > 0
  BY EmptySeq
<1>2. /\ Len(r) = n - 1 /\ b \in S /\ b = s[1] /\ r \in Seq(S)
      /\ \A i \in 1 .. Len(r) : i + 1 \in 1 .. n /\ r[i] = s[i + 1]
  BY <1>1, HeadTailProperties
<1>3. b.ops \in SUBSET Operations
  BY <1>2
<1> HIDE DEF r, b, n
<1>4. Pieces(s, e) = M \cup N
  <2>1. ASSUME NEW p \in Pieces(s, e), p[1] = 1 PROVE p \in N
    <3>1. p \in (1 .. n) \X Operations /\ p[2] \in s[p[1]].ops /\ p[2].ev = e
      BY DEF Pieces, n
    <3>2. p[2] \in Of(b.ops, e) /\ p = <<1, p[2]>>
      BY <1>2, <2>1, <3>1 DEF Of
    <3> QED BY <3>2
  <2>2. ASSUME NEW op \in Of(b.ops, e) PROVE <<1, op>> \in Pieces(s, e)
    <3>1. op \in Operations /\ op \in b.ops /\ op.ev = e
      BY <1>3 DEF Of
    <3>2. 1 \in 1 .. Len(s) /\ s[1] = b
      BY <1>1, <1>2 DEF n
    <3> QED BY <3>1, <3>2 DEF Pieces
  <2> QED BY <2>1, <2>2
<1>5. \A p \in M : p \notin N
  OBVIOUS
<1>6. f \in Bijection(P, M)
  <2>1. \A p \in P : /\ p \in (1 .. Len(r)) \X Operations /\ p[2] \in r[p[1]].ops /\ p[2].ev = e
                     /\ p = <<p[1], p[2]>>
    BY DEF Pieces
  <2>2. ASSUME NEW p \in P PROVE f[p] \in M
    <3>1. p[1] \in 1 .. Len(r) /\ p[2] \in Operations /\ p[2] \in r[p[1]].ops /\ p[2].ev = e
      BY <2>1
    <3>2. p[1] + 1 \in 1 .. n /\ p[1] + 1 # 1 /\ s[p[1] + 1] = r[p[1]]
      BY <1>1, <1>2, <3>1
    <3>3. f[p] = <<p[1] + 1, p[2]>>
      OBVIOUS
    <3>4. <<p[1] + 1, p[2]>> \in Pieces(s, e)
      BY <3>1, <3>2 DEF Pieces, n
    <3> QED BY <3>2, <3>3, <3>4
  <2>3. ASSUME NEW p \in P, NEW x \in P, f[p] = f[x] PROVE p = x
    <3>1. p[1] + 1 = x[1] + 1 /\ p[2] = x[2]
      BY <2>3
    <3>2. p[1] \in Int /\ x[1] \in Int
      BY <1>1, <1>2, <2>1
    <3>3. p[1] = x[1]
      BY <3>1, <3>2
    <3> QED BY <2>1, <3>1, <3>3
  <2>4. ASSUME NEW t \in M PROVE \E p \in P : f[p] = t
    <3>1. t \in (1 .. n) \X Operations /\ t[2] \in s[t[1]].ops /\ t[2].ev = e /\ t[1] # 1
      BY DEF Pieces, n
    <3>2. t[1] - 1 \in 1 .. Len(r) /\ s[(t[1] - 1) + 1] = s[t[1]] /\ (t[1] - 1) + 1 = t[1]
      BY <1>1, <1>2, <3>1
    <3>3. r[t[1] - 1] = s[t[1]]
      BY <1>2, <3>2
    <3> DEFINE p == <<t[1] - 1, t[2]>>
    <3>4. p \in P
      BY <3>1, <3>2, <3>3 DEF Pieces
    <3>5. f[p] = <<(t[1] - 1) + 1, t[2]>>
      BY <3>4
    <3>6. f[p] = t
      <4>1. t = <<t[1], t[2]>>
        BY <3>1
      <4> HIDE DEF f, p, M
      <4> QED BY <3>2, <3>5, <4>1
    <3> QED BY <3>4, <3>6
  <2> HIDE DEF P, M
  <2>5. f \in [P -> M]
    BY <2>2
  <2> HIDE DEF f
  <2> QED BY <2>3, <2>4, <2>5 DEF Bijection, Injection, Surjection, IsInjective
<1>7. IsFiniteSet(P) /\ Cardinality(P) \in Nat
  BY <1>2, PiecesFinite
<1>8. IsFiniteSet(N) /\ Cardinality(N) = Cardinality(Of(b.ops, e))
  BY <1>3, OfSize
<1> HIDE DEF N, M, P, f
<1>9. IsFiniteSet(M) /\ Cardinality(M) = Cardinality(P)
  <2>1. ExistsBijection(P, M)
    BY <1>6 DEF ExistsBijection
  <2> QED BY <1>7, <2>1, FS_Bijection
<1>10. Cardinality(M \cup N) = Cardinality(M) + Cardinality(N)
  BY <1>5, <1>8, <1>9, DisjointSum
<1> QED BY <1>4, <1>8, <1>9, <1>10 DEF P, r, b

\* Nothing is on its way in an empty queue.
LEMMA EmptyPieces ==
  ASSUME NEW e
  PROVE  Pieces(<<>>, e) = {} /\ Cardinality(Pieces(<<>>, e)) = 0
<1>1. Pieces(<<>>, e) = {}
  BY DEF Pieces
<1> QED BY <1>1, FS_EmptySet

\* Every operation gets one token.
LEMMA AddedLength ==
  ASSUME NEW tokens \in [Events -> Seq(Events)], NEW ops \in SUBSET Operations,
         NEW tok \in [ops -> Events], NEW e \in Events
  PROVE  Len(AddTokens(tokens, ops, tok)[e]) = Len(tokens[e]) + Cardinality(Of(ops, e))
<1> DEFINE S == {op \in ops : op.ev = e}
           l == Listing(S)
           n == Cardinality(S)
           added == [i \in DOMAIN l |-> tok[l[i]]]
<1>1. n \in Nat /\ l \in [1 .. n -> S]
  BY FiniteOps, ListingType
<1>2. AddTokens(tokens, ops, tok)[e] = tokens[e] \o added
  BY DEF AddTokens
<1>3. added \in [1 .. n -> Events]
  <2> HIDE DEF l, n
  <2> QED BY <1>1
<1>4. added \in Seq(Events) /\ Len(added) = n
  <2> HIDE DEF added, n
  <2> QED BY <1>1, <1>3
<1>5. tokens[e] \in Seq(Events)
  OBVIOUS
<1>6. S = Of(ops, e)
  BY DEF Of
<1> HIDE DEF added, l
<1>7. Len(tokens[e] \o added) = Len(tokens[e]) + n
  <2> DEFINE t == tokens[e]
  <2> HIDE DEF n, t
  <2>1. Len(t \o added) = Len(t) + Len(added)
    BY <1>4, <1>5, ConcatProperties DEF t
  <2> QED BY <1>4, <2>1 DEF t
<1> QED BY <1>2, <1>6, <1>7

\* A commit takes at most one token for each of its operations.
LEMMA LeftLength ==
  ASSUME eventTokens \in [Events -> Seq(Events)], NEW ops \in SUBSET Operations,
         NEW e \in Events
  PROVE  /\ Len(LeftTokens(ops)[e]) \in Nat
         /\ Len(LeftTokens(ops)[e]) + Cardinality(Of(ops, e)) >= Len(eventTokens[e])
<1> DEFINE k == Taken(e, ops)
           s == eventTokens[e]
           n == Cardinality(Of(ops, e))
<1>1. k \in 0 .. Len(s) /\ s \in Seq(Events)
  BY TakenTokensType
<1>2. n \in Nat
  BY FiniteOps, FS_CardinalityType DEF Of
<1>3. LeftTokens(ops)[e] = SubSeq(s, k + 1, Len(s))
  BY DEF LeftTokens
<1>4. k <= n
  <2>1. n = Cardinality({op \in ops : op.ev = e})
    BY DEF Of
  <2>2. k = IF n > Len(s) THEN Len(s) ELSE n
    BY <2>1 DEF Taken
  <2>3. Len(s) \in Nat
    BY <1>1
  <2> HIDE DEF k, n, s
  <2> QED BY <1>2, <2>2, <2>3
<1> HIDE DEF k, n, s
<1>5. Len(SubSeq(s, k + 1, Len(s))) = Len(s) - k
  BY <1>1
<1>6. Len(LeftTokens(ops)[e]) = Len(s) - k /\ Len(s) \in Nat /\ k \in Nat /\ k <= Len(s)
  BY <1>1, <1>3, <1>5
<1> QED BY <1>2, <1>4, <1>6 DEF s, n

\* The sizes the counting is about, and what batches and signals are made of.
LEMMA Sizes ==
  ASSUME TypeOK, NEW e \in Events
  PROVE  /\ Cardinality(Pieces(inflight, e)) \in Nat /\ Cardinality(Pieces(signals, e)) \in Nat
         /\ Len(eventTokens[e]) \in Nat
         /\ inflight \in Seq(Batches) /\ signals \in Seq(Signals)
         /\ eventTokens \in [Events -> Seq(Events)]
         /\ \A x \in Batches : x.ops \subseteq Operations
         /\ \A x \in Signals : x.ops \subseteq Operations
<1>1. inflight \in Seq(Batches) /\ signals \in Seq(Signals) /\ eventTokens \in [Events -> Seq(Events)]
  BY DEF TypeOK
<1>2. eventTokens[e] \in Seq(Events)
  BY <1>1
<1>3. Len(eventTokens[e]) \in Nat
  BY <1>2
<1>4. Cardinality(Pieces(inflight, e)) \in Nat /\ Cardinality(Pieces(signals, e)) \in Nat
  BY <1>1, PiecesFinite
<1> QED BY <1>1, <1>3, <1>4 DEF Batches, Signals

\* tryToClose ends the life of the listener only when no token is left.
LEMMA CloseDrained ==
  ASSUME Drained, NEW pending,
         \A e \in Msgs : eventTokens'[e] # <<>> => pending,
         TryToClose(pending),
         phase = "closed" => eventTokens' = eventTokens
  PROVE  phase' = "closed" => \A e \in Msgs : eventTokens'[e] = <<>>
BY DEF TryToClose, Drained

\* A step that submits and reports nothing.
LEMMA CountsKept ==
  ASSUME Drained, UNCHANGED <<inflight, signals, eventTokens>>,
         phase' = "closed" => phase = "closed" \/ ~HasPendingOperations
  PROVE  Drained'
<1>1. Counted'
  BY DEF Drained, Counted
<1>2. ~HasPendingOperations => \A e \in Msgs : eventTokens[e] = <<>>
  BY DEF HasPendingOperations, Events
<1> QED BY <1>1, <1>2 DEF Drained

\* The life of the listener, and the messages that are acknowledged or expunged.
LEMMA LifeDrained ==
  ASSUME Inv, Drained,
         \/ SlotChannelReady
         \/ SlotOnModelFailed
         \/ \E m \in Msgs : SlotPendingMessageRemoved(m)
         \/ \E p \in {"account", "channel"} : Invalidated(p)
         \/ ConnectionLost
         \/ SlotGroupDataChanged
         \/ SlotExpungeMessages
         \/ UNCHANGED vars
  PROVE  Drained'
<1> USE DEF vars, cmVars, libVars, lifeVars, saveVars, convVars, expVars
<1>1. CASE SlotChannelReady
  BY <1>1, CountsKept DEF SlotChannelReady, TryToClose
<1>2. CASE SlotOnModelFailed
  BY <1>2, CountsKept DEF SlotOnModelFailed
<1>3. ASSUME NEW m \in Msgs, SlotPendingMessageRemoved(m)
      PROVE  Drained'
  BY <1>3, CountsKept DEF SlotPendingMessageRemoved
<1>4. ASSUME NEW p \in {"account", "channel"}, Invalidated(p)
      PROVE  Drained'
  BY <1>4, CountsKept DEF Invalidated, TryToClose
<1>5. CASE ConnectionLost
  BY <1>5, CountsKept DEF ConnectionLost
<1>6. CASE SlotGroupDataChanged
  BY <1>6, CountsKept DEF SlotGroupDataChanged, TryToClose
<1>7. CASE SlotExpungeMessages
  <2>1. UNCHANGED <<inflight, signals, eventTokens>>
    BY <1>7 DEF SlotExpungeMessages
  <2>2. phase' = "closed" => phase = "closed" \/ ~HasPendingOperations'
    BY <1>7 DEF SlotExpungeMessages, TryToClose
  <2>3. Counted'
    BY <2>1 DEF Drained, Counted
  <2>4. ~HasPendingOperations' => \A e \in Msgs : eventTokens'[e] = <<>>
    BY DEF HasPendingOperations, Events
  <2> QED BY <2>1, <2>2, <2>3, <2>4 DEF Drained
<1>8. CASE UNCHANGED vars
  BY <1>8, CountsKept
<1> QED BY <1>1, <1>2, <1>3, <1>4, <1>5, <1>6, <1>7, <1>8

\* A call of the event model adds as many pieces as it has operations.
LEMMA SubmitPieces ==
  ASSUME NEW s \in Seq(Batches), NEW ops \in SUBSET Operations, NEW add \in BOOLEAN,
         NEW ok \in BOOLEAN, NEW a \in Directions(ops), NEW e \in Events
  PROVE  LET r == s \o Submitted(ops, add, ok, a) IN
         /\ r \in Seq(Batches)
         /\ ok => Cardinality(Pieces(r, e)) = Cardinality(Pieces(s, e)) + Cardinality(Of(ops, e))
         /\ ~ok => r = s
<1> DEFINE b == Batch(ops, add, a, FALSE)
           r == s \o Submitted(ops, add, ok, a)
<1>1. a \in BOOLEAN
  <2>1. \A x : Inbound(x) \in BOOLEAN
    BY DEF Inbound
  <2> QED BY <2>1, Zenon DEF Directions
<1>2. b \in Batches /\ b.ops = ops
  BY <1>1 DEF Batch, Batches
<1>3. r = s \o (IF ops # {} /\ ok THEN <<b>> ELSE <<>>)
  BY DEF Submitted
<1>4. \A x \in Batches : x.ops \subseteq Operations
  BY DEF Batches
<1> HIDE DEF b, r
<1>5. CASE ops # {} /\ ok
  <2>1. r = Append(s, b) /\ Append(s, b) \in Seq(Batches)
    BY <1>2, <1>3, <1>5
  <2>2. Cardinality(Pieces(Append(s, b), e)) = Cardinality(Pieces(s, e)) + Cardinality(Of(b.ops, e))
    BY <1>2, <1>4, PushPieces
  <2> QED BY <1>2, <1>5, <2>1, <2>2 DEF r
<1>6. CASE ~(ops # {} /\ ok)
  <2>1. r = s
    BY <1>3, <1>6
  <2>2. ok => Of(ops, e) = {}
    BY <1>6 DEF Of
  <2>3. ok => Cardinality(Of(ops, e)) = 0
    BY <2>2, FS_EmptySet
  <2>4. Cardinality(Pieces(s, e)) \in Nat
    BY PiecesFinite
  <2> QED BY <2>1, <2>3, <2>4 DEF r
<1> QED BY <1>5, <1>6

\* A pass of handleMessages records a token for every operation it submits.
LEMMA HandleCount ==
  ASSUME Inv, Drained, NEW cq \in SUBSET Msgs, HandleMessages(cq),
         signals' = signals, phase' # "closed"
  PROVE  Drained'
<1> SUFFICES ASSUME NEW e \in Msgs
             PROVE  Cardinality(Pieces(inflight', e)) + Cardinality(Pieces(signals, e))
                      <= Len(eventTokens'[e])
  BY DEF Drained, Counted
<1> DEFINE q == Queue(cq)
<1>1. q \in SUBSET Msgs
  BY DEF Queue, Inv, TypeOK
<1>2. PICK missed \in SUBSET OfKind(q, AboutEvent), scrollOk \in BOOLEAN,
           addOk \in BOOLEAN, modifyOk \in BOOLEAN :
        HandleWith(cq, missed, scrollOk, addOk, modifyOk)
  BY DEF HandleMessages, Outcome
<1> DEFINE adds == AddOps(q, missed)
           modifies == ModifyOps(q, missed)
           added == IF addOk THEN adds ELSE {}
           changed == IF modifyOk THEN modifies ELSE {}
           tokenOps == added \cup changed
           tok == [op \in tokenOps |-> TokenFor(op)]
<1>3. PICK a \in Directions(adds), b \in Directions(modifies) :
        inflight' = inflight \o Submitted(adds, TRUE, addOk, a)
                             \o Submitted(modifies, FALSE, modifyOk, b)
  BY <1>2 DEF HandleWith
<1>4. eventTokens' = AddTokens(eventTokens, tokenOps, tok)
  BY <1>2 DEF HandleWith
<1>5. /\ adds \in SUBSET Operations /\ modifies \in SUBSET Operations
      /\ \A op \in Operations : TokenFor(op) \in Events
      /\ \A op \in adds : op \notin modifies
  <2>1. adds \subseteq Operations /\ modifies \subseteq Operations
        /\ \A op \in Operations : TokenFor(op) \in Events
    <3> HIDE DEF q
    <3> QED BY <1>1, HandledOps DEF Inv
  <2>2. ASSUME NEW op \in adds, op \in modifies PROVE FALSE
    <3>1. PICK m \in AddEvents(q, missed) : op = Op(m, m)
      BY <2>2 DEF AddOps
    <3>2. PICK x \in Found(q, missed) : op = Op(Row(Target[x]), x)
      BY <2>2 DEF ModifyOps
    <3>3. m = x
      BY <3>1, <3>2 DEF Op
    <3> HIDE DEF q
    <3> QED BY <3>3, <3>1, <3>2 DEF AddEvents, Found, OfKind, AboutEvent
  <2> QED BY <2>1, <2>2
<1> HIDE DEF q, adds, modifies
<1>6. e \in Events /\ TypeOK
  BY DEF Events, Inv
<1>7. /\ Cardinality(Pieces(inflight, e)) \in Nat /\ Cardinality(Pieces(signals, e)) \in Nat
      /\ Len(eventTokens[e]) \in Nat
      /\ inflight \in Seq(Batches) /\ eventTokens \in [Events -> Seq(Events)]
  BY <1>6, Sizes
<1> DEFINE s == inflight \o Submitted(adds, TRUE, addOk, a)
<1>8. /\ s \in Seq(Batches)
      /\ addOk => Cardinality(Pieces(s, e)) = Cardinality(Pieces(inflight, e)) + Cardinality(Of(adds, e))
      /\ ~addOk => s = inflight
  <2>1. TRUE \in BOOLEAN /\ addOk \in BOOLEAN /\ a \in Directions(adds)
    OBVIOUS
  <2>2. adds \in SUBSET Operations /\ inflight \in Seq(Batches) /\ e \in Events
    BY <1>5, <1>6, <1>7
  <2> QED BY <2>1, <2>2, SubmitPieces
<1> HIDE DEF s
<1>9. /\ modifyOk => Cardinality(Pieces(inflight', e)) = Cardinality(Pieces(s, e)) + Cardinality(Of(modifies, e))
      /\ ~modifyOk => inflight' = s
  <2>1. FALSE \in BOOLEAN /\ modifyOk \in BOOLEAN /\ b \in Directions(modifies)
    OBVIOUS
  <2> DEFINE r == s \o Submitted(modifies, FALSE, modifyOk, b)
  <2>4. modifies \in SUBSET Operations /\ s \in Seq(Batches) /\ e \in Events
    BY <1>5, <1>6, <1>8
  <2>2. /\ modifyOk => Cardinality(Pieces(r, e)) = Cardinality(Pieces(s, e)) + Cardinality(Of(modifies, e))
        /\ ~modifyOk => r = s
    BY <2>1, <2>4, SubmitPieces
  <2>3. inflight' = r
    BY <1>3 DEF s
  <2> HIDE DEF r
  <2> QED BY <2>2, <2>3
<1>10. added \in SUBSET Operations /\ changed \in SUBSET Operations
  BY <1>5
<1>11. \A op \in added : op \notin changed
  BY <1>5
<1>12. tokenOps \in SUBSET Operations /\ tok \in [tokenOps -> Events]
  BY <1>5, <1>10
<1> HIDE DEF added, changed
<1>13. /\ Cardinality(Of(tokenOps, e)) = Cardinality(Of(added, e)) + Cardinality(Of(changed, e))
       /\ Cardinality(Of(added, e)) \in Nat /\ Cardinality(Of(changed, e)) \in Nat
  <2>1. IsFiniteSet(Of(added, e)) /\ IsFiniteSet(Of(changed, e))
    BY <1>6, <1>10, FiniteOps DEF Of
  <2>2. Of(tokenOps, e) = Of(added, e) \cup Of(changed, e)
    BY DEF Of
  <2>3. \A op \in Of(added, e) : op \notin Of(changed, e)
    BY <1>11 DEF Of
  <2> QED BY <2>1, <2>2, <2>3, DisjointSum
<1> HIDE DEF tokenOps, tok
<1>14. Len(eventTokens'[e]) = Len(eventTokens[e]) + Cardinality(Of(tokenOps, e))
  <2>1. Len(AddTokens(eventTokens, tokenOps, tok)[e]) = Len(eventTokens[e]) + Cardinality(Of(tokenOps, e))
    BY <1>6, <1>7, <1>12, AddedLength
  <2> QED BY <1>4, <2>1
<1>15. Cardinality(Pieces(inflight, e)) + Cardinality(Pieces(signals, e)) <= Len(eventTokens[e])
  BY DEF Drained, Counted
<1>16. Of({}, e) = {} /\ Cardinality({}) = 0
  BY FS_EmptySet DEF Of
<1>17. Cardinality(Pieces(s, e)) = Cardinality(Pieces(inflight, e)) + Cardinality(Of(added, e))
  <2>1. CASE addOk
    BY <1>8, <2>1 DEF added
  <2>2. CASE ~addOk
    <3>1. added = {}
      BY <2>2 DEF added
    <3>2. Cardinality(Of(added, e)) = 0 /\ s = inflight
      BY <1>8, <1>16, <2>2, <3>1
    <3> QED BY <1>7, <3>2
  <2> QED BY <2>1, <2>2
<1>18. Cardinality(Pieces(inflight', e)) = Cardinality(Pieces(s, e)) + Cardinality(Of(changed, e))
  <2>1. CASE modifyOk
    BY <1>9, <2>1 DEF changed
  <2>2. CASE ~modifyOk
    <3>1. changed = {}
      BY <2>2 DEF changed
    <3>2. Cardinality(Of(changed, e)) = 0 /\ inflight' = s
      BY <1>9, <1>16, <2>2, <3>1
    <3>3. Cardinality(Pieces(s, e)) \in Nat
      BY <1>7, <1>13, <1>17
    <3> QED BY <3>2, <3>3
  <2> QED BY <2>1, <2>2
<1> QED BY <1>7, <1>13, <1>14, <1>15, <1>17, <1>18

\* The backlog is handled, or a message arrives.
LEMMA HandleDrained ==
  ASSUME Inv, Drained, SlotOnModelReady \/ \E m \in Msgs : MessageReceived(m)
  PROVE  Drained'
<1>1. CASE SlotOnModelReady
  <2>1. HandleMessages(chanQueue) /\ chanQueue \in SUBSET Msgs /\ signals' = signals /\ phase' # "closed"
    BY <1>1 DEF SlotOnModelReady, Untouched, Inv, TypeOK
  <2> QED BY <2>1, HandleCount
<1>2. ASSUME NEW m \in Msgs, MessageReceived(m) PROVE Drained'
  <2>1. CASE phase = "listening"
    <3>1. /\ HandleMessages(chanQueue') /\ chanQueue' \in SUBSET Msgs
          /\ signals' = signals /\ phase' # "closed"
      BY <1>2, <2>1 DEF MessageReceived, Inv, TypeOK
    <3> QED BY <3>1, HandleCount
  <2>2. CASE phase # "listening"
    <3>1. UNCHANGED <<inflight, signals, eventTokens, phase>>
      BY <1>2, <2>2 DEF MessageReceived
    <3> QED BY <3>1, CountsKept
  <2> QED BY <2>1, <2>2
<1> QED BY <1>1, <1>2

\* A message of the user needs no token: the counting is about the others.
LEMMA SentDrained ==
  ASSUME Inv, Drained, NEW s \in Sent, SlotMessageSent(s)
  PROVE  Drained'
<1> DEFINE b == Batch({Op(s, s)}, s \notin db, FALSE, FALSE)
<1>1. inflight' = Append(inflight, b) \/ inflight' = inflight
  BY DEF SlotMessageSent
<1>2. UNCHANGED <<signals, eventTokens, phase>>
  BY DEF SlotMessageSent, lifeVars
<1>3. b \in Batches /\ b.ops = {Op(s, s)}
  <2>1. {Op(s, s)} \in SUBSET Operations /\ (s \notin db) \in BOOLEAN
    BY DEF Op, Operations, Events
  <2> QED BY <2>1 DEF Batch, Batches
<1> HIDE DEF b
<1>4. ASSUME NEW e \in Msgs
      PROVE  Cardinality(Pieces(inflight', e)) = Cardinality(Pieces(inflight, e))
  <2>1. e \in Events /\ e # s /\ TypeOK
    BY ChannelAssumption DEF ChannelAssumption, Events, Inv
  <2>2. Of(b.ops, e) = {}
    BY <1>3, <2>1 DEF Of, Op
  <2>3. Cardinality(Of(b.ops, e)) = 0
    BY <2>2, FS_EmptySet
  <2>4. /\ inflight \in Seq(Batches) /\ \A x \in Batches : x.ops \subseteq Operations
        /\ Cardinality(Pieces(inflight, e)) \in Nat
    BY <2>1, Sizes
  <2>5. Cardinality(Pieces(Append(inflight, b), e))
          = Cardinality(Pieces(inflight, e)) + Cardinality(Of(b.ops, e))
    BY <1>3, <2>1, <2>4, PushPieces
  <2>6. CASE inflight' = Append(inflight, b)
    <3> DEFINE n == Cardinality(Pieces(inflight, e))
    <3>1. n \in Nat /\ Cardinality(Pieces(Append(inflight, b), e)) = n + 0
      BY <2>3, <2>4, <2>5
    <3> HIDE DEF n
    <3>2. Cardinality(Pieces(inflight', e)) = n + 0
      BY <2>6, <3>1
    <3> QED BY <3>1, <3>2 DEF n
  <2>7. CASE inflight' = inflight
    BY <2>7
  <2> QED BY <1>1, <2>6, <2>7
<1>5. Counted'
  BY <1>2, <1>4 DEF Drained, Counted
<1> QED BY <1>2, <1>5 DEF Drained

\* A commit moves the operations of a batch to its signal.
LEMMA CommitDrained == Inv /\ Drained /\ Commit => Drained'
<1> SUFFICES ASSUME Inv, Drained, Commit PROVE Drained'
  OBVIOUS
<1> DEFINE b == Head(inflight)
<1>1. PICK ok \in BOOLEAN :
        signals' = Append(signals, [ops |-> b.ops, inbound |-> b.inbound, ok |-> ok])
  BY DEF Commit, Outcome
<1> DEFINE s == [ops |-> b.ops, inbound |-> b.inbound, ok |-> ok]
<1>2. inflight \in Seq(Batches) /\ inflight # <<>> /\ inflight' = Tail(inflight) /\ b \in Batches
  <2>1. inflight \in Seq(Batches) /\ inflight # <<>> /\ inflight' = Tail(inflight)
    BY DEF Inv, TypeOK, Commit
  <2> QED BY <2>1, TailElements
<1>3. UNCHANGED <<eventTokens, phase>>
  BY DEF Commit, lifeVars
<1>4. s \in Signals /\ s.ops = b.ops /\ signals' = Append(signals, s)
  <2>1. signals' = Append(signals, s)
    BY <1>1
  <2> HIDE DEF b
  <2> QED BY <1>2, <2>1 DEF Batches, Signals
<1>5. ASSUME NEW e \in Msgs
      PROVE  Cardinality(Pieces(inflight', e)) + Cardinality(Pieces(signals', e)) <= Len(eventTokens[e])
  <2>1. e \in Events /\ TypeOK
    BY DEF Events, Inv
  <2>2. /\ Cardinality(Pieces(inflight, e)) \in Nat /\ Cardinality(Pieces(signals, e)) \in Nat
        /\ Len(eventTokens[e]) \in Nat /\ signals \in Seq(Signals)
        /\ \A x \in Batches : x.ops \subseteq Operations
        /\ \A x \in Signals : x.ops \subseteq Operations
    BY <2>1, Sizes
  <2>3. Cardinality(Pieces(inflight, e)) = Cardinality(Pieces(Tail(inflight), e)) + Cardinality(Of(b.ops, e))
    BY <1>2, <2>1, <2>2, PopPieces
  <2> HIDE DEF b, s
  <2>4. Cardinality(Pieces(Append(signals, s), e)) = Cardinality(Pieces(signals, e)) + Cardinality(Of(s.ops, e))
    BY <1>4, <2>1, <2>2, PushPieces
  <2>5. Cardinality(Of(b.ops, e)) \in Nat
    BY <1>2, <2>1, <2>2, OfSize
  <2>6. Cardinality(Pieces(Tail(inflight), e)) \in Nat
    <3>1. Tail(inflight) \in Seq(Batches)
      BY <1>2
    <3> QED BY <2>1, <3>1, PiecesFinite
  <2>7. Cardinality(Pieces(inflight, e)) + Cardinality(Pieces(signals, e)) <= Len(eventTokens[e])
    BY DEF Drained, Counted
  <2>8. /\ Cardinality(Pieces(inflight', e)) = Cardinality(Pieces(Tail(inflight), e))
        /\ Cardinality(Pieces(signals', e)) = Cardinality(Pieces(signals, e)) + Cardinality(Of(b.ops, e))
    BY <1>2, <1>4, <2>4
  <2> QED BY <2>2, <2>3, <2>5, <2>6, <2>7, <2>8
<1>6. Counted'
  BY <1>3, <1>5 DEF Counted
<1> QED BY <1>3, <1>6 DEF Drained

\* Handling a commit takes at most as many tokens as it had operations.
LEMMA CommittedDrained == Inv /\ Drained /\ SlotEventsCommitted => Drained'
<1> SUFFICES ASSUME Inv, Drained, SlotEventsCommitted PROVE Drained'
  OBVIOUS
<1> DEFINE s == Head(signals)
<1>1. /\ signals \in Seq(Signals) /\ signals # <<>> /\ signals' = Tail(signals) /\ s \in Signals
      /\ eventTokens' = LeftTokens(s.ops)
  <2>1. /\ signals \in Seq(Signals) /\ signals # <<>> /\ signals' = Tail(signals)
        /\ eventTokens' = LeftTokens(s.ops)
    BY DEF Inv, TypeOK, SlotEventsCommitted
  <2> QED BY <2>1, TailElements
<1>2. phase # "closed" /\ inflight' = inflight /\ TryToClose(HasPendingOperations')
  BY DEF SlotEventsCommitted
<1>3. ASSUME NEW e \in Msgs
      PROVE  Cardinality(Pieces(inflight', e)) + Cardinality(Pieces(signals', e)) <= Len(eventTokens'[e])
  <2>1. e \in Events /\ TypeOK
    BY DEF Events, Inv
  <2>2. /\ Cardinality(Pieces(inflight, e)) \in Nat /\ Cardinality(Pieces(signals, e)) \in Nat
        /\ Len(eventTokens[e]) \in Nat /\ eventTokens \in [Events -> Seq(Events)]
        /\ \A x \in Signals : x.ops \subseteq Operations
    BY <2>1, Sizes
  <2>3. Cardinality(Pieces(signals, e)) = Cardinality(Pieces(Tail(signals), e)) + Cardinality(Of(s.ops, e))
    BY <1>1, <2>1, <2>2, PopPieces
  <2> HIDE DEF s
  <2>4. s.ops \in SUBSET Operations
    BY <1>1, <2>2
  <2>5. Cardinality(Of(s.ops, e)) \in Nat
    BY <2>1, <2>4, OfSize
  <2>6. /\ Len(LeftTokens(s.ops)[e]) \in Nat
        /\ Len(LeftTokens(s.ops)[e]) + Cardinality(Of(s.ops, e)) >= Len(eventTokens[e])
    BY <2>1, <2>2, <2>4, LeftLength
  <2>7. Cardinality(Pieces(inflight, e)) + Cardinality(Pieces(signals, e)) <= Len(eventTokens[e])
    BY DEF Drained, Counted
  <2>8. Cardinality(Pieces(Tail(signals), e)) \in Nat
    <3>1. Tail(signals) \in Seq(Signals)
      BY <1>1
    <3> QED BY <2>1, <3>1, PiecesFinite
  <2>9. /\ Cardinality(Pieces(inflight', e)) = Cardinality(Pieces(inflight, e))
        /\ Cardinality(Pieces(signals', e)) = Cardinality(Pieces(Tail(signals), e))
        /\ Len(eventTokens'[e]) = Len(LeftTokens(s.ops)[e])
    BY <1>1, <1>2
  <2> QED BY <2>2, <2>3, <2>5, <2>6, <2>7, <2>8, <2>9
<1>4. Counted'
  BY <1>3 DEF Counted
<1>5. phase' = "closed" => \A e \in Msgs : eventTokens'[e] = <<>>
  <2>1. \A e \in Msgs : eventTokens'[e] # <<>> => HasPendingOperations'
    BY DEF HasPendingOperations, Events
  <2> QED BY <1>2, <2>1, CloseDrained
<1> QED BY <1>4, <1>5 DEF Drained

\* What is added again gets its tokens again.
LEMMA ResaveDrained == Inv /\ Drained /\ SlotSaveFailedEvents => Drained'
<1> SUFFICES ASSUME Inv, Drained, SlotSaveFailedEvents PROVE Drained'
  OBVIOUS
<1>1. PICK inbound \in Directions(failedSaves) :
        \/ /\ inflight' = Append(inflight, Batch(failedSaves, TRUE, inbound, FALSE))
           /\ eventTokens' = AddTokens(eventTokens, failedSaves,
                               [op \in failedSaves |-> ResaveToken(op)])
        \/ UNCHANGED <<inflight, eventTokens>>
  BY DEF SlotSaveFailedEvents
<1> DEFINE b == Batch(failedSaves, TRUE, inbound, FALSE)
           tok == [op \in failedSaves |-> ResaveToken(op)]
<1>2. phase # "closed" /\ phase' = phase /\ signals' = signals
  BY DEF SlotSaveFailedEvents, lifeVars
<1>3. failedSaves \in SUBSET Operations
  BY DEF Inv, TypeOK
<1>4. b \in Batches /\ b.ops = failedSaves
  <2>1. inbound \in BOOLEAN
    <3>1. \A e : Inbound(e) \in BOOLEAN
      BY DEF Inbound
    <3> QED BY <3>1, Zenon DEF Directions
  <2> QED BY <1>3, <2>1 DEF Batch, Batches
<1>5. tok \in [failedSaves -> Events]
  <2>1. \A op \in failedSaves : ResaveToken(op) \in Events
    BY <1>3, ChannelAssumption DEF ChannelAssumption, ResaveToken, TokenOf, Operations, Events
  <2> QED BY <2>1
<1>6. \/ inflight' = Append(inflight, b) /\ eventTokens' = AddTokens(eventTokens, failedSaves, tok)
      \/ UNCHANGED <<inflight, eventTokens>>
  BY <1>1
<1> HIDE DEF b, tok
<1>7. ASSUME NEW e \in Msgs
      PROVE  Cardinality(Pieces(inflight', e)) + Cardinality(Pieces(signals', e)) <= Len(eventTokens'[e])
  <2>1. e \in Events /\ TypeOK
    BY DEF Events, Inv
  <2>2. /\ Cardinality(Pieces(inflight, e)) \in Nat /\ Cardinality(Pieces(signals, e)) \in Nat
        /\ Len(eventTokens[e]) \in Nat /\ eventTokens \in [Events -> Seq(Events)]
        /\ inflight \in Seq(Batches) /\ \A x \in Batches : x.ops \subseteq Operations
    BY <2>1, Sizes
  <2>3. Cardinality(Pieces(inflight, e)) + Cardinality(Pieces(signals, e)) <= Len(eventTokens[e])
    BY DEF Drained, Counted
  <2>4. CASE inflight' = Append(inflight, b) /\ eventTokens' = AddTokens(eventTokens, failedSaves, tok)
    <3>1. Cardinality(Pieces(Append(inflight, b), e)) = Cardinality(Pieces(inflight, e)) + Cardinality(Of(b.ops, e))
      BY <1>4, <2>1, <2>2, PushPieces
    <3>2. Len(AddTokens(eventTokens, failedSaves, tok)[e]) = Len(eventTokens[e]) + Cardinality(Of(failedSaves, e))
      BY <1>3, <1>5, <2>1, <2>2, AddedLength
    <3>3. Cardinality(Of(failedSaves, e)) \in Nat
      BY <1>3, <2>1, OfSize
    <3>4. /\ Cardinality(Pieces(inflight', e)) = Cardinality(Pieces(inflight, e)) + Cardinality(Of(failedSaves, e))
          /\ Len(eventTokens'[e]) = Len(eventTokens[e]) + Cardinality(Of(failedSaves, e))
      BY <1>4, <2>4, <3>1, <3>2
    <3> QED BY <1>2, <2>2, <2>3, <3>3, <3>4
  <2>5. CASE UNCHANGED <<inflight, eventTokens>>
    BY <1>2, <2>3, <2>5
  <2> QED BY <1>6, <2>4, <2>5
<1>8. Counted'
  BY <1>7 DEF Counted
<1> QED BY <1>2, <1>8 DEF Drained

\* slotConvModelReady adds a token for the message it submits.
LEMMA TakeReplaceCount ==
  ASSUME Inv, NEW connected, NEW tokens \in [Events -> Seq(Events)], NEW batches \in Seq(Batches),
         TakeReplace(connected, tokens, batches), NEW e \in Msgs
  PROVE  \E k \in Nat :
           /\ Cardinality(Pieces(inflight', e)) = Cardinality(Pieces(batches, e)) + k
           /\ Len(eventTokens'[e]) = Len(tokens[e]) + k
<1> DEFINE h == Head(replaceQ)
           ops == {Op(h, h)}
           b == Batch(ops, TRUE, Inbound(h), TRUE)
           tok == [op \in ops |-> TokenFor(op)]
<1>1. e \in Events
  BY DEF Events
<1>2. Cardinality(Pieces(batches, e)) \in Nat
  BY <1>1, PiecesFinite
<1>3. Len(tokens[e]) \in Nat
  <2>1. tokens[e] \in Seq(Events)
    BY <1>1
  <2> QED BY <2>1
<1>4. CASE inflight' = batches /\ eventTokens' = tokens
  <2>1. /\ Cardinality(Pieces(inflight', e)) = Cardinality(Pieces(batches, e)) + 0
        /\ Len(eventTokens'[e]) = Len(tokens[e]) + 0
    BY <1>2, <1>3, <1>4
  <2> QED BY <2>1
<1>5. CASE /\ replaceQ # <<>>
           /\ inflight' = Append(batches, b)
           /\ eventTokens' = AddTokens(tokens, ops, tok)
  <2>1. h \in Msgs
    <3>1. replaceQ \in Seq(Msgs)
      BY DEF Inv, TypeOK
    <3> QED BY <1>5, <3>1, TailElements
  <2> HIDE DEF h
  <2>2. ops \in SUBSET Operations
    BY <2>1 DEF Op, Operations, Events
  <2>3. Inbound(h) \in BOOLEAN
    BY DEF Inbound
  <2>4. b \in Batches /\ b.ops = ops
    BY <2>2, <2>3 DEF Batch, Batches
  <2>5. tok \in [ops -> Events]
    <3>1. \A op \in ops : TokenFor(op) \in Events
      BY <2>2, ChannelAssumption DEF ChannelAssumption, TokenFor, TokenOf, Operations, Events,
         Reports
    <3> QED BY <3>1
  <2> HIDE DEF ops, b, tok
  <2>6. \A x \in Batches : x.ops \subseteq Operations
    BY DEF Batches
  <2>7. Cardinality(Pieces(Append(batches, b), e)) = Cardinality(Pieces(batches, e)) + Cardinality(Of(b.ops, e))
    BY <1>1, <2>4, <2>6, PushPieces
  <2>8. Len(AddTokens(tokens, ops, tok)[e]) = Len(tokens[e]) + Cardinality(Of(ops, e))
    BY <1>1, <2>2, <2>5, AddedLength
  <2>9. Cardinality(Of(ops, e)) \in Nat
    BY <1>1, <2>2, OfSize
  <2> QED BY <1>5, <2>4, <2>7, <2>8, <2>9
<1>6. \/ inflight' = batches /\ eventTokens' = tokens
      \/ /\ replaceQ # <<>>
         /\ inflight' = Append(batches, b)
         /\ eventTokens' = AddTokens(tokens, ops, tok)
  BY DEF TakeReplace
<1> QED BY <1>4, <1>5, <1>6

\* The conversation model is ready: the next replacing message gets its token.
LEMMA ConvReadyDrained == Inv /\ Drained /\ SlotConvModelReady => Drained'
<1> SUFFICES ASSUME Inv, Drained, SlotConvModelReady PROVE Drained'
  OBVIOUS
<1>1. \/ TakeReplace(convConnected, eventTokens, inflight)
      \/ UNCHANGED <<eventTokens, inflight>>
  BY DEF SlotConvModelReady
<1>2. phase # "closed" /\ phase' = phase /\ signals' = signals
  BY DEF SlotConvModelReady, lifeVars
<1>3. ASSUME NEW e \in Msgs
      PROVE  Cardinality(Pieces(inflight', e)) + Cardinality(Pieces(signals', e)) <= Len(eventTokens'[e])
  <2>1. e \in Events /\ TypeOK
    BY DEF Events, Inv
  <2>2. /\ Cardinality(Pieces(inflight, e)) \in Nat /\ Cardinality(Pieces(signals, e)) \in Nat
        /\ Len(eventTokens[e]) \in Nat /\ eventTokens \in [Events -> Seq(Events)]
        /\ inflight \in Seq(Batches)
    BY <2>1, Sizes
  <2>3. Cardinality(Pieces(inflight, e)) + Cardinality(Pieces(signals, e)) <= Len(eventTokens[e])
    BY DEF Drained, Counted
  <2>4. CASE TakeReplace(convConnected, eventTokens, inflight)
    <3>1. PICK k \in Nat :
            /\ Cardinality(Pieces(inflight', e)) = Cardinality(Pieces(inflight, e)) + k
            /\ Len(eventTokens'[e]) = Len(eventTokens[e]) + k
      BY <2>2, <2>4, TakeReplaceCount
    <3> QED BY <1>2, <2>2, <2>3, <3>1
  <2>5. CASE UNCHANGED <<eventTokens, inflight>>
    BY <1>2, <2>3, <2>5
  <2> QED BY <1>1, <2>4, <2>5
<1>4. Counted'
  BY <1>3 DEF Counted
<1> QED BY <1>2, <1>4 DEF Drained

\* A commit of the conversation model takes the token of its message, if it is heard.
LEMMA ConvCommitDrained == Inv /\ Drained /\ ConvCommit => Drained'
<1> SUFFICES ASSUME Inv, Drained, ConvCommit PROVE Drained'
  OBVIOUS
<1> DEFINE b == Head(inflight)
           heard == convConnected /\ phase # "closed"
<1>1. /\ inflight \in Seq(Batches) /\ inflight # <<>> /\ Tail(inflight) \in Seq(Batches)
      /\ b.ops \in SUBSET Operations
  <2>1. inflight \in Seq(Batches) /\ inflight # <<>>
    BY DEF Inv, TypeOK, ConvCommit
  <2>2. b \in Batches /\ Tail(inflight) \in Seq(Batches)
    BY <2>1, TailElements
  <2> QED BY <2>1, <2>2 DEF Batches
<1>2. signals' = signals
  BY DEF ConvCommit
<1>3. heard => /\ TakeReplace(FALSE, LeftTokens(b.ops), Tail(inflight))
               /\ TryToClose(HasPendingOperations' \/ replaceQ # <<>>)
  BY DEF ConvCommit
<1>4. ~heard => inflight' = Tail(inflight) /\ UNCHANGED <<eventTokens, phase>>
  BY DEF ConvCommit, lifeVars
<1> HIDE DEF heard
<1>5. LeftTokens(b.ops) \in [Events -> Seq(Events)]
  BY <1>1, LeftTokensType DEF Inv, TypeOK
<1>6. ASSUME NEW e \in Msgs
      PROVE  Cardinality(Pieces(inflight', e)) + Cardinality(Pieces(signals', e)) <= Len(eventTokens'[e])
  <2>1. e \in Events /\ TypeOK
    BY DEF Events, Inv
  <2>2. /\ Cardinality(Pieces(inflight, e)) \in Nat /\ Cardinality(Pieces(signals, e)) \in Nat
        /\ Len(eventTokens[e]) \in Nat /\ eventTokens \in [Events -> Seq(Events)]
        /\ \A x \in Batches : x.ops \subseteq Operations
    BY <2>1, Sizes
  <2>3. Cardinality(Pieces(inflight, e)) = Cardinality(Pieces(Tail(inflight), e)) + Cardinality(Of(b.ops, e))
    BY <1>1, <2>1, <2>2, PopPieces
  <2>4. Cardinality(Of(b.ops, e)) \in Nat
    BY <1>1, <2>1, OfSize
  <2>5. /\ Len(LeftTokens(b.ops)[e]) \in Nat
        /\ Len(LeftTokens(b.ops)[e]) + Cardinality(Of(b.ops, e)) >= Len(eventTokens[e])
    BY <1>1, <2>1, <2>2, LeftLength
  <2>6. Cardinality(Pieces(Tail(inflight), e)) \in Nat
    BY <1>1, <2>1, PiecesFinite
  <2>7. Cardinality(Pieces(inflight, e)) + Cardinality(Pieces(signals, e)) <= Len(eventTokens[e])
    BY DEF Drained, Counted
  <2>8. CASE heard
    <3>1. TakeReplace(FALSE, LeftTokens(b.ops), Tail(inflight))
      BY <1>3, <2>8
    <3>2. PICK k \in Nat :
            /\ Cardinality(Pieces(inflight', e)) = Cardinality(Pieces(Tail(inflight), e)) + k
            /\ Len(eventTokens'[e]) = Len(LeftTokens(b.ops)[e]) + k
      BY <1>1, <1>5, <3>1, TakeReplaceCount
    <3> HIDE DEF b
    <3> QED BY <1>2, <2>2, <2>3, <2>4, <2>5, <2>6, <2>7, <3>2
  <2>9. CASE ~heard
    <3>1. inflight' = Tail(inflight) /\ eventTokens' = eventTokens
      BY <1>4, <2>9
    <3> HIDE DEF b
    <3> QED BY <1>2, <2>2, <2>3, <2>4, <2>6, <2>7, <3>1
  <2> QED BY <2>8, <2>9
<1>7. Counted'
  BY <1>6 DEF Counted
<1>8. phase' = "closed" => \A e \in Msgs : eventTokens'[e] = <<>>
  <2>1. CASE heard
    <3>1. \A e \in Msgs : eventTokens'[e] # <<>> => HasPendingOperations' \/ replaceQ # <<>>
      BY DEF HasPendingOperations, Events
    <3>2. TryToClose(HasPendingOperations' \/ replaceQ # <<>>) /\ phase # "closed"
      BY <1>3, <2>1 DEF heard
    <3> QED BY <3>1, <3>2, CloseDrained
  <2>2. CASE ~heard
    BY <1>4, <2>2 DEF Drained
  <2> QED BY <2>1, <2>2
<1> QED BY <1>7, <1>8 DEF Drained

\* Without batches and signals there is nothing to count.
LEMMA NothingCounted ==
  ASSUME inflight = <<>>, signals = <<>>, eventTokens = [e \in Events |-> <<>>]
  PROVE  Counted
<1> SUFFICES ASSUME NEW e \in Msgs
             PROVE  Cardinality(Pieces(inflight, e)) + Cardinality(Pieces(signals, e)) <= Len(eventTokens[e])
  BY DEF Counted
<1>1. Cardinality(Pieces(inflight, e)) = 0 /\ Cardinality(Pieces(signals, e)) = 0
  BY EmptyPieces
<1>2. eventTokens[e] = <<>>
  BY DEF Events
<1>3. Len(eventTokens[e]) = 0
  BY <1>2
<1> QED BY <1>1, <1>3

\* The listener starts with no operation and no token.
LEMMA InitDrained == Init => Drained
BY NothingCounted DEF Init, Drained

\* A restart forgets the submitted batches, the signals and the tokens together.
LEMMA RestartDrained == Restart => Drained'
<1> SUFFICES ASSUME Restart PROVE Drained'
  OBVIOUS
<1>1. /\ inflight' = <<>> /\ signals' = <<>> /\ eventTokens' = [e \in Events |-> <<>>]
      /\ phase' = "preparing"
  BY DEF Restart
<1>2. ASSUME NEW e \in Msgs
      PROVE  Cardinality(Pieces(inflight', e)) + Cardinality(Pieces(signals', e)) <= Len(eventTokens'[e])
  <2>1. Cardinality(Pieces(inflight', e)) = 0 /\ Cardinality(Pieces(signals', e)) = 0
    BY <1>1, EmptyPieces
  <2>2. eventTokens'[e] = <<>>
    BY <1>1 DEF Events
  <2>3. Len(eventTokens'[e]) = 0
    BY <2>2
  <2> QED BY <2>1, <2>3
<1>3. Counted'
  BY <1>2 DEF Counted
<1> QED BY <1>1, <1>3 DEF Drained

\* m_EventTokens never runs short of the operations that are on their way, and the
\* listener goes only when it is empty.
THEOREM TokensCovered == Spec => []Drained
<1>1. Inv /\ Drained /\ [Next]_vars => Drained'
  <2> SUFFICES ASSUME Inv, Drained, [Next]_vars PROVE Drained'
    OBVIOUS
  <2>1. CASE SlotOnModelReady \/ \E m \in Msgs : MessageReceived(m)
    BY <2>1, HandleDrained
  <2>2. ASSUME NEW s \in Sent, SlotMessageSent(s) PROVE Drained'
    BY <2>2, SentDrained
  <2>3. CASE Commit
    BY <2>3, CommitDrained
  <2>4. CASE SlotEventsCommitted
    BY <2>4, CommittedDrained
  <2>5. CASE SlotSaveFailedEvents
    BY <2>5, ResaveDrained
  <2>6. CASE SlotConvModelReady
    BY <2>6, ConvReadyDrained
  <2>7. CASE ConvCommit
    BY <2>7, ConvCommitDrained
  <2>8. CASE Restart
    BY <2>8, RestartDrained
  <2>9. CASE \/ SlotChannelReady
             \/ SlotOnModelFailed
             \/ \E m \in Msgs : SlotPendingMessageRemoved(m)
             \/ \E p \in {"account", "channel"} : Invalidated(p)
             \/ ConnectionLost
             \/ SlotGroupDataChanged
             \/ SlotExpungeMessages
             \/ UNCHANGED vars
    BY <2>9, LifeDrained
  <2> QED BY <2>1, <2>2, <2>3, <2>4, <2>5, <2>6, <2>7, <2>8, <2>9 DEF Next
<1> QED BY <1>1, InitDrained, Invariance, PTL DEF Spec

\* When the listener lets itself be destroyed, no message it received is on its way
\* to the database and no commit is still to be handled.
THEOREM ClosesDrained == Spec => []DrainedBeforeClose
<1>1. Inv /\ Drained => DrainedBeforeClose
  <2> SUFFICES ASSUME Inv, Drained, phase = "closed" PROVE DrainedBeforeClose
    BY DEF DrainedBeforeClose
  <2>1. ASSUME NEW e \in Msgs PROVE Pieces(inflight, e) = {} /\ Pieces(signals, e) = {}
    <3>1. e \in Events /\ TypeOK
      BY DEF Events, Inv
    <3>2. /\ Cardinality(Pieces(inflight, e)) \in Nat /\ Cardinality(Pieces(signals, e)) \in Nat
          /\ inflight \in Seq(Batches) /\ signals \in Seq(Signals)
      BY <3>1, Sizes
    <3>3. IsFiniteSet(Pieces(inflight, e)) /\ IsFiniteSet(Pieces(signals, e))
      BY <3>1, <3>2, PiecesFinite
    <3>4. Cardinality(Pieces(inflight, e)) + Cardinality(Pieces(signals, e)) <= Len(eventTokens[e])
      BY DEF Drained, Counted
    <3>5. Len(eventTokens[e]) = 0
      <4>1. eventTokens[e] = <<>>
        BY DEF Drained
      <4> QED BY <4>1
    <3>6. Cardinality(Pieces(inflight, e)) = 0 /\ Cardinality(Pieces(signals, e)) = 0
      BY <3>2, <3>4, <3>5
    <3> QED BY <3>3, <3>6, FS_EmptySet
  <2>2. inflight \in Seq(Batches) /\ signals \in Seq(Signals)
    BY DEF Inv, TypeOK
  <2>3. ASSUME NEW i \in DOMAIN inflight, NEW op \in inflight[i].ops PROVE op.ev \notin Msgs
    <3>1. i \in 1 .. Len(inflight) /\ inflight[i] \in Batches
      BY <2>2
    <3>2. op \in Operations
      BY <3>1 DEF Batches
    <3>3. op.ev \in Msgs => <<i, op>> \in Pieces(inflight, op.ev)
      BY <3>1, <3>2 DEF Pieces
    <3> QED BY <2>1, <3>3
  <2>4. ASSUME NEW i \in DOMAIN signals, NEW op \in signals[i].ops PROVE op.ev \notin Msgs
    <3>1. i \in 1 .. Len(signals) /\ signals[i] \in Signals
      BY <2>2
    <3>2. op \in Operations
      BY <3>1 DEF Signals
    <3>3. op.ev \in Msgs => <<i, op>> \in Pieces(signals, op.ev)
      BY <3>1, <3>2 DEF Pieces
    <3> QED BY <2>1, <3>3
  <2> QED BY <2>3, <2>4 DEF DrainedBeforeClose
<1> QED BY <1>1, Invariance, TokensCovered, PTL
===============================================================================
