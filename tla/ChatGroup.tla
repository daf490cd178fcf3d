------------------------------- MODULE ChatGroup -------------------------------
(***************************************************************************)
(* The conversation a text channel listener logs into (m_Group), its name, *)
(* and the people in it: the part of TextChannelListener that TextChannel  *)
(* leaves out.                                                             *)
(*                                                                         *)
(* External are the group model, which other programs change as well, the  *)
(* room with its topic, members and handle owners, and the replies of the  *)
(* connection manager, which come in any order.                            *)
(*                                                                         *)
(* The name and the subject of a channel are one topic here.  Events the   *)
(* listener only shows (added to the model, not to the database) are kept  *)
(* as what was shown last of a person; who is said to have changed a topic *)
(* is left out.                                                            *)
(***************************************************************************)
EXTENDS Integers, Sequences, FiniteSets, SequencesExt

CONSTANTS Groups,      \* group ids
          Fit,         \* per group, how its recipients match the target of the
                       \* channel: "exact", "many" (one of several) or "other"
          Own,         \* ids of the groups this listener may add
          Stored,      \* the sequences of groups the database may start with
          Names,       \* topics and names, with NoName
          NoName,
          People, Me,  \* contacts, with the user's own
          Handles,     \* channel-specific handles
          Nobody,      \* a handle without an owner
          MayFail,     \* the calls that may fail in this instance
          MaxMoves     \* bound on what the surroundings do

NoGroup == "no group"

Presence == [on : BOOLEAN, text : BOOLEAN]

\* ids are those of rows, and the programs that add a group look for an exact one first
Sensible(s) ==
  \A i, j \in 1 .. Len(s) : s[i] = s[j] \/ (Fit[s[i]] = "exact" /\ Fit[s[j]] = "exact") => i = j

ASSUME ChatGroupAssumption ==
  /\ Fit \in [Groups -> {"exact", "many", "other"}] /\ NoGroup \notin Groups
  /\ Own \subseteq Groups /\ \A g \in Own : Fit[g] = "exact"
  /\ Stored \subseteq Seq(Groups \ Own) /\ \A s \in Stored : Sensible(s)
  /\ NoName \in Names /\ Me \in People /\ Nobody \notin People \cup Presence
  /\ MayFail \subseteq {"model", "add", "modify", "list", "get", "contacts", "owners"}
  /\ MaxMoves \in Nat

VARIABLES
  \* --- the surroundings
  rows,        \* the groups of the database, in the order of the group model
  dbName,      \* their chat names
  modelState,  \* "loading", "ready" or "failed"
  renamed,     \* groups whose dataChanged signal is to come
  topic,       \* the topic of the room
  members,     \* the people in the room
  live,        \* per contact: whether it is online, and its status message
  owners,      \* per channel-specific handle: its owner, or Nobody
  moves,       \* number of changes the surroundings made
  \* --- the listener
  phase,       \* "preparing", "waiting" for the model, "listening" or "stuck"
  isGroupChat, \* m_IsGroupChat
  group,       \* the id of m_Group, or NoGroup
  groupName,   \* its chat name
  chatName,    \* m_GroupChatName
  props,       \* "none", "listing", "getting" or "known": the room's properties
  statuses,    \* m_PresenceStatuses: the contacts it has a presence of, with it
  watched,     \* contacts whose presenceChanged signal is connected
  contactOps,  \* requests for contacts under way
  ownerNames,  \* m_HandleOwnerNames, or Nobody
  ownerOps,    \* requests for owners under way: sets of contacts
  \* --- history
  shown,       \* per contact: "none", "joined" or "left" shown last
  replaced,    \* the group in use was removed at some time
  failed       \* the calls that failed

database == <<rows, dbName, modelState, renamed>>
room     == <<topic, members, live, owners>>
conv     == <<phase, isGroupChat, group, groupName, chatName, props>>
people   == <<statuses, watched, contactOps, ownerNames, ownerOps, shown>>
vars     == <<database, room, moves, conv, people, replaced, failed>>

Unknown == [on |-> FALSE, text |-> FALSE]

Request(who, joined) == [who |-> who, joined |-> joined]

\* a call that may fail; history notes that it did
Try(call, ok) ==
  /\ ok \/ call \in MayFail
  /\ failed' = IF ok THEN failed ELSE failed \cup {call}

Move == moves < MaxMoves /\ moves' = moves + 1

-----------------------------------------------------------------------------
(* The group                                                               *)

Fits(first, last, fit) == {i \in first .. last : Fit[rows[i]] = fit}

First(indices) == CHOOSE i \in indices : \A j \in indices : i <= j

\* updateCurrentGroup: the loop ends at the first exact match.  The test for
\* the fallback, row = last, is true only when that match is in the last row.
Found(first, last) ==
  LET exact == Fits(first, last, "exact")
      many  == Fits(first, First(exact), "many")
  IN  CASE exact = {} -> group
        [] exact # {} /\ (First(exact) # last \/ many = {}) -> rows[First(exact)]
        [] OTHER -> rows[First(many)]

\* slotOnModelReady; channelListenerReady asks for the properties of a room
OnModelReady(ok) ==
  /\ phase' = IF ok THEN "listening" ELSE "stuck"
  /\ group' = IF ok THEN Found(1, Len(rows)) ELSE group
  /\ groupName' = IF ok /\ group' # NoGroup THEN dbName[group'] ELSE groupName
  /\ props' = IF ok /\ isGroupChat THEN "listing" ELSE props

\* channelReady, which asks for contacts and owners, and requestConversationId
ChannelReady ==
  /\ phase = "preparing"
  /\ contactOps' =
       IF ~isGroupChat THEN {Request(People \ {Me}, FALSE)}
       ELSE IF members \subseteq {Me} THEN {} ELSE {Request(members \ {Me}, FALSE)}
  /\ ownerOps' =
       IF isGroupChat /\ \E h \in Handles : owners[h] # Nobody
       THEN {{owners[h] : h \in Handles} \ {Nobody}} ELSE {}
  /\ IF modelState = "ready" THEN OnModelReady(TRUE)
     ELSE phase' = "waiting" /\ UNCHANGED <<group, groupName, props>>
  /\ UNCHANGED <<database, room, moves, isGroupChat, chatName, statuses, watched,
                 ownerNames, shown, replaced, failed>>

ModelReady(ok) ==
  /\ modelState = "loading"
  /\ Try("model", ok)
  /\ modelState' = IF ok THEN "ready" ELSE "failed"
  /\ IF phase = "waiting" THEN OnModelReady(ok)
     ELSE UNCHANGED <<phase, group, groupName, props>>
  /\ UNCHANGED <<rows, dbName, renamed, room, moves, isGroupChat, chatName, people, replaced>>

\* groupId: adds a group when there is none
EnsureGroup ==
  IF group # NoGroup \/ modelState # "ready"
  THEN UNCHANGED <<rows, dbName, group, groupName, failed>>
  ELSE \E g \in Own \ ToSet(rows), ok \in BOOLEAN :
    LET name == IF isGroupChat THEN chatName ELSE NoName IN
    /\ Try("add", ok)
    /\ IF ok THEN /\ rows' = <<g>> \o rows
                  /\ dbName' = [dbName EXCEPT ![g] = name]
                  /\ group' = g /\ groupName' = name
       ELSE UNCHANGED <<rows, dbName, group, groupName>>

\* a message is received or sent
FillEventFromMessage ==
  /\ phase = "listening" /\ group = NoGroup
  /\ EnsureGroup
  /\ UNCHANGED <<modelState, renamed, room, moves, phase, isGroupChat, chatName, props,
                 people, replaced>>

\* another program adds a group; it looks for an exact one first
SlotGroupInserted(g) ==
  /\ modelState = "ready" /\ g \notin ToSet(rows) \cup Own
  /\ Fit[g] = "exact" => \A i \in DOMAIN rows : Fit[rows[i]] # "exact"
  /\ Move
  /\ \E n \in Names : dbName' = [dbName EXCEPT ![g] = n]
  /\ rows' = <<g>> \o rows
  /\ IF phase \in {"waiting", "listening"} /\ Fit[g] = "exact"
     THEN group' = g /\ groupName' = dbName'[g]
     ELSE UNCHANGED <<group, groupName>>
  /\ UNCHANGED <<modelState, renamed, room, phase, isGroupChat, chatName, props, people,
                 replaced, failed>>

\* mutant: the listener keeps a group that is removed
Kept(g) == group

\* m_Group loses its id
Invalidated(g) == IF group = g THEN NoGroup ELSE group

SlotGroupRemoved(g) ==
  /\ modelState = "ready"
  /\ Move
  /\ \E i \in DOMAIN rows : rows[i] = g /\ rows' = RemoveAt(rows, i)
  /\ renamed' = renamed \ {g}
  /\ group' = Invalidated(g)
  /\ replaced' = (replaced \/ group = g)
  /\ UNCHANGED <<dbName, modelState, room, phase, isGroupChat, groupName, chatName, props,
                 people, failed>>

\* another program renames a group
GroupRenamed(g, name) ==
  /\ g \in ToSet(rows) /\ dbName[g] # name
  /\ Move
  /\ dbName' = [dbName EXCEPT ![g] = name]
  /\ renamed' = IF modelState = "ready" THEN renamed \cup {g} ELSE renamed
  /\ UNCHANGED <<rows, modelState, room, conv, people, replaced, failed>>

\* mutant: the group in memory stays as it was
Unrefreshed(g) == groupName

Refreshed(g) == IF group = g THEN dbName[g] ELSE groupName

SlotGroupDataChanged(g) ==
  /\ g \in renamed
  /\ renamed' = renamed \ {g}
  /\ groupName' = Refreshed(g)
  /\ UNCHANGED <<rows, dbName, modelState, room, moves, phase, isGroupChat, group, chatName,
                 props, people, replaced, failed>>

-----------------------------------------------------------------------------
(* The topic                                                               *)

\* slotPropertiesChanged and updateGroupChatName
UpdateGroupChatName(name) ==
  /\ chatName' = name
  /\ IF group # NoGroup /\ name # groupName
     THEN /\ groupName' = name
          /\ \E ok \in BOOLEAN :
               /\ Try("modify", ok)
               /\ dbName' = IF ok THEN [dbName EXCEPT ![group] = name] ELSE dbName
     ELSE UNCHANGED <<groupName, dbName, failed>>

\* the room has a new topic: without the list of properties it is not understood
SlotPropertiesChanged(name) ==
  /\ isGroupChat /\ topic # name
  /\ Move
  /\ topic' = name
  /\ IF props \in {"getting", "known"} THEN UpdateGroupChatName(name)
     ELSE UNCHANGED <<chatName, groupName, dbName, failed>>
  /\ UNCHANGED <<rows, modelState, renamed, members, live, owners, phase, isGroupChat, group,
                 props, people, replaced>>

SlotListPropertiesFinished(ok) ==
  /\ props = "listing"
  /\ Try("list", ok)
  /\ props' = IF ok THEN "getting" ELSE "none"
  /\ UNCHANGED <<database, room, moves, phase, isGroupChat, group, groupName, chatName,
                 people, replaced>>

InitialTopic(name) == UpdateGroupChatName(name)

SlotGetPropertiesFinished(ok) ==
  /\ props = "getting" /\ (ok \/ "get" \in MayFail)
  /\ props' = "known"
  /\ IF ok THEN InitialTopic(topic)
     ELSE failed' = failed \cup {"get"} /\ UNCHANGED <<chatName, groupName, dbName>>
  /\ UNCHANGED <<rows, modelState, renamed, room, moves, phase, isGroupChat, group, people,
                 replaced>>

-----------------------------------------------------------------------------
(* The people                                                              *)

Tracked == {c \in People : statuses[c] # Nobody}

\* mutant: those with a presence are taken for members already
NotTracked(who) == (who \ {Me}) \ Tracked

Others(who) == who \ {Me}

\* mutant: only those who join are watched
JoinersOnly(op) == IF op.joined THEN op.who ELSE {}

\* whose presence changes are followed from now on
Connected(op) == op.who

\* slotContactsReady, and slotJoinedGroupChat after it
SlotContactsReady(op, ok) ==
  /\ op \in contactOps /\ (ok \/ "contacts" \in MayFail)
  /\ contactOps' = contactOps \ {op}
  /\ IF ok
     THEN /\ statuses' = [c \in People |-> IF c \in op.who THEN live[c] ELSE statuses[c]]
          /\ watched' = watched \cup Connected(op)
          /\ shown' = IF op.joined THEN [c \in People |-> IF c \in Others(op.who) THEN "joined" ELSE shown[c]]
                      ELSE shown
          /\ UNCHANGED failed
     ELSE failed' = failed \cup op.who /\ UNCHANGED <<statuses, watched, shown>>
  /\ UNCHANGED <<database, room, moves, conv, ownerNames, ownerOps, replaced>>

\* a status message that was not known yet is shown in the conversation
Tells(c, p) == p.text /\ ~(statuses[c] # Nobody /\ statuses[c].text)

SlotPresenceChanged(c, p) ==
  /\ c # Me /\ live[c] # p
  /\ Move
  /\ live' = [live EXCEPT ![c] = p]
  /\ IF c \in watched
     THEN /\ statuses' = [statuses EXCEPT ![c] = p]
          /\ IF Tells(c, p) THEN EnsureGroup
             ELSE UNCHANGED <<rows, dbName, group, groupName, failed>>
     ELSE UNCHANGED <<statuses, rows, dbName, group, groupName, failed>>
  /\ UNCHANGED <<modelState, renamed, topic, members, owners, phase, isGroupChat, chatName,
                 props, watched, contactOps, ownerNames, ownerOps, shown, replaced>>

\* areRemotePartiesOffline
AreRemotePartiesOffline == \A c \in Tracked : ~statuses[c].on

MembersAdded(c) ==
  /\ isGroupChat /\ c \notin members
  /\ Move
  /\ members' = members \cup {c}
  /\ contactOps' = IF phase = "preparing" THEN contactOps
                   ELSE contactOps \cup {Request({c}, TRUE)}
  /\ UNCHANGED <<database, topic, live, owners, conv, statuses, watched, ownerNames, ownerOps,
                 shown, replaced, failed>>

\* a contact leaves, or is kicked out; of the user's own the presence is kept then
MembersRemoved(c, kicked) ==
  /\ isGroupChat /\ c \in members
  /\ Move
  /\ members' = members \ {c}
  /\ IF phase = "preparing" THEN UNCHANGED <<statuses, shown>>
     ELSE /\ shown' = [shown EXCEPT ![c] = "left"]
          /\ statuses' = IF kicked /\ c = Me THEN statuses ELSE [statuses EXCEPT ![c] = Nobody]
  /\ UNCHANGED <<database, topic, live, owners, conv, watched, contactOps, ownerNames, ownerOps,
                 replaced, failed>>

\* only handles that are owned now are named
Named(h, who) == IF owners[h] \in who THEN owners[h] ELSE ownerNames[h]

SlotHandleOwnersFetched(who, ok) ==
  /\ who \in ownerOps /\ (ok \/ "owners" \in MayFail)
  /\ ownerOps' = ownerOps \ {who}
  /\ ownerNames' = IF ok THEN [h \in Handles |-> Named(h, who)] ELSE ownerNames
  /\ failed' = IF ok THEN failed ELSE failed \cup {"owners"}
  /\ UNCHANGED <<database, room, moves, conv, statuses, watched, contactOps, shown, replaced>>

\* an owner has one handle in a room
SlotHandleOwnersChanged(h, c) ==
  /\ isGroupChat /\ owners[h] # c
  /\ c # Nobody => \A k \in Handles : owners[k] # c
  /\ Move
  /\ owners' = [owners EXCEPT ![h] = c]
  /\ IF phase = "preparing" THEN UNCHANGED <<ownerOps, ownerNames>>
     ELSE IF c = Nobody
     THEN ownerNames' = [ownerNames EXCEPT ![h] = Nobody] /\ UNCHANGED ownerOps
     ELSE ownerOps' = ownerOps \cup {{c}} /\ UNCHANGED ownerNames
  /\ UNCHANGED <<database, topic, members, live, conv, statuses, watched, contactOps, shown,
                 replaced, failed>>

-----------------------------------------------------------------------------
Init ==
  /\ rows \in Stored
  /\ dbName \in [Groups -> Names] /\ \A g \in Groups \ ToSet(rows) : dbName[g] = NoName
  /\ modelState \in {"loading", "ready"} /\ renamed = {}
  /\ topic = NoName
  /\ isGroupChat \in BOOLEAN
  /\ members \in IF isGroupChat THEN {People, {Me}} ELSE {{}}
  /\ live = [c \in People |-> Unknown]
  /\ owners \in IF isGroupChat THEN [Handles -> {Nobody} \cup (People \ {Me})]
                ELSE {[h \in Handles |-> Nobody]}
  /\ \A h, k \in Handles : owners[h] = owners[k] => h = k \/ owners[h] = Nobody
  /\ moves = 0
  /\ phase = "preparing"
  /\ group = NoGroup /\ groupName = NoName /\ chatName = NoName
  /\ props = "none"
  /\ statuses = [c \in People |-> Nobody] /\ watched = {} /\ contactOps = {}
  /\ ownerNames = [h \in Handles |-> Nobody] /\ ownerOps = {}
  /\ shown = [c \in People |-> "none"]
  /\ replaced = FALSE /\ failed = {}

Next ==
  \/ ChannelReady
  \/ FillEventFromMessage
  \/ \E ok \in BOOLEAN :
       \/ ModelReady(ok)
       \/ SlotListPropertiesFinished(ok)
       \/ SlotGetPropertiesFinished(ok)
       \/ \E op \in contactOps : SlotContactsReady(op, ok)
       \/ \E who \in ownerOps : SlotHandleOwnersFetched(who, ok)
  \/ \E g \in Groups :
       \/ SlotGroupInserted(g)
       \/ SlotGroupRemoved(g)
       \/ SlotGroupDataChanged(g)
       \/ \E n \in Names : GroupRenamed(g, n)
  \/ \E n \in Names : SlotPropertiesChanged(n)
  \/ \E c \in People :
       \/ \E p \in Presence : SlotPresenceChanged(c, p)
       \/ MembersAdded(c)
       \/ \E kicked \in BOOLEAN : MembersRemoved(c, kicked)
  \/ \E h \in Handles, c \in {Nobody} \cup (People \ {Me}) : SlotHandleOwnersChanged(h, c)

Spec == Init /\ [][Next]_vars

-----------------------------------------------------------------------------
(* Properties *)

\* The type invariant.
TypeOK ==
  /\ rows \in Seq(Groups) /\ dbName \in [Groups -> Names]
  /\ modelState \in {"loading", "ready", "failed"} /\ renamed \subseteq ToSet(rows)
  /\ topic \in Names /\ members \subseteq People /\ live \in [People -> Presence]
  /\ owners \in [Handles -> {Nobody} \cup People] /\ moves \in 0 .. MaxMoves
  /\ phase \in {"preparing", "waiting", "listening", "stuck"} /\ isGroupChat \in BOOLEAN
  /\ group \in Groups \cup {NoGroup} /\ groupName \in Names /\ chatName \in Names
  /\ props \in {"none", "listing", "getting", "known"}
  /\ statuses \in [People -> {Nobody} \cup Presence]
  /\ Tracked \subseteq watched
  /\ contactOps \subseteq [who : SUBSET People, joined : BOOLEAN]
  /\ ownerNames \in [Handles -> {Nobody} \cup People] /\ ownerOps \subseteq SUBSET People
  /\ shown \in [People -> {"none", "joined", "left"}] /\ replaced \in BOOLEAN

\* Events are logged into a conversation that exists: the group of the listener
\* is in the database whatever other programs remove (slotGroupRemoved).
CurrentIsListed == group # NoGroup => group \in ToSet(rows)

\* A chat has one conversation of its own: the listener adds a group only when
\* none fits, as long as nobody removes the one in use (groupId).
OneConversation ==
  ~replaced => Cardinality(Fits(1, Len(rows), "exact")) <= 1

\* The conversation that is logged into exists and is the only one of the chat,
\* although other programs add, change and remove groups while the model loads.
ConversationStays == CurrentIsListed /\ OneConversation

\* A topic that is heard while there is a group ends up in the database, unless
\* that refused it, or news of another name of the group is still to come: the
\* copy of the group in memory never hides that its name is another one.
TopicStored ==
  [][chatName' # chatName /\ group # NoGroup /\ group \notin renamed
       => dbName'[group] = chatName' \/ "modify" \in failed']_vars

Requested(c) == \E op \in contactOps : c \in op.who

\* "Does not support offline" is not said while somebody in the room whose
\* presence was fetched is online (handleMessageFailed).
NobodyOnline ==
  AreRemotePartiesOffline =>
    \A c \in members \ {Me} : phase = "preparing" \/ Requested(c) \/ c \in failed \/ ~live[c].on

\* Whoever is in the room is not shown as having left it, once it was looked up.
ShownAsMember ==
  \A c \in members \ {Me} : shown[c] = "left" => Requested(c) \/ c \in failed

\* The name of a handle is that of its owner: a reply that comes after the
\* handle was given away, or taken back, changes nothing.
OwnersCurrent ==
  \A h \in Handles : ownerNames[h] # Nobody =>
    \/ ownerNames[h] = owners[h]
    \/ phase # "preparing" /\ owners[h] # Nobody
         /\ ("owners" \in failed \/ \E who \in ownerOps : owners[h] \in who)

\* What the daemon believes of the people of a room agrees with the room once the
\* answers it waits for are in, in whatever order those and the changes came.
PeopleAreCurrent == NobodyOnline /\ ShownAsMember /\ OwnersCurrent

\* "This is a multi-member group; prefer to continue searching for an exact
\* match" (textchannellistener.cpp:1470): a conversation with several people is
\* used only when the database has none with the target alone.
PrefersExact ==
  group # NoGroup /\ Fit[group] = "many" => Fits(1, Len(rows), "exact") = {}
=============================================================================
