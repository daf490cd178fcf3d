------------------------- MODULE NotificationManager -------------------------
(***************************************************************************)
(* The NotificationManager: which messages, missed calls and voicemails    *)
(* are on the user's screen.  A notification waits in                      *)
(* m_unresolvedNotifications until the contacts are resolved, and is then  *)
(* published and kept in m_notifications until what it is about was seen,  *)
(* deleted or removed.                                                     *)
(*                                                                         *)
(* External are the listeners, which ask for notifications, the user       *)
(* interface, which says what the user looks at and dismisses              *)
(* notifications, the contact resolver, and the notification server, which *)
(* keeps what is on the screen when the daemon restarts.                   *)
(***************************************************************************)
EXTENDS Integers, Sequences, SequencesExt

CONSTANTS Events,       \* events a notification may be asked for
          Type,         \* per event: "message", "call" or "voicemail"
          Account,      \* per event: localUid
          Conversation, \* per event: recipient and chat type of its conversation
          Remote,       \* per event: the other party
          Token,        \* per event: message token, an edit has that of its original
          Named,        \* events of hidden parties, and of rooms with a name
          MaxShows,     \* bound on requests for notifications
          MaxRestarts   \* bound on restarts of the daemon

Types    == {"message", "call", "voicemail"}
Accounts == {Account[e] : e \in Events}
Conversations == {Conversation[e] : e \in {x \in Events : Type[x] = "message"}}
Remotes  == {Remote[e] : e \in Events}

AllAccounts == ""   \* no inbox filter
NoToken     == ""   \* calls and voicemails have no message token

ASSUME NotificationAssumption ==
  /\ Type \in [Events -> Types]
  /\ \A f \in {Account, Conversation, Remote, Token} : DOMAIN f = Events
  /\ \A e \in Events : Type[e] # "message" <=> Token[e] = NoToken
  /\ Named \subseteq Events
  /\ MaxShows \in Nat /\ MaxRestarts \in Nat

VARIABLES
  notifications,  \* m_notifications, oldest first
  unresolved,     \* m_unresolvedNotifications, oldest first
  screen,         \* ids of the notifications the server shows
  resolved,       \* parties whose contact is known to be resolved
  inboxObserved,  \* CommHistoryService::inboxObserved()
  inboxFilter,    \* CommHistoryService::inboxFilterAccount()
  conversations,  \* CommHistoryService::observedConversations()
  callHistory,    \* CommHistoryService::callHistoryObserved()
  removedAccounts, \* accounts the user has removed
  crashed,        \* a null m_notification was dereferenced
  shows,          \* requests so far; it numbers the notifications
  calls,          \* per party: missed calls since it had no notification
  restarts

service == <<inboxObserved, inboxFilter, conversations, callHistory>>
lists   == <<notifications, unresolved, screen>>
notifyVars == <<lists, resolved, service, removedAccounts, crashed, shows, calls, restarts>>

\* A PersonalNotification: `event' is the one it was created for, `token' and
\* `text' may be those of a later one, `count' is the item count, `published'
\* tells that m_notification exists.
Notification(e, id) ==
  [id |-> id, event |-> e, token |-> Token[e], text |-> e, count |-> 1,
   published |-> FALSE]

Ids(list) == {list[i].id : i \in DOMAIN list}
Listed    == Ids(notifications) \cup Ids(unresolved)
Elements(list) == {list[i] : i \in DOMAIN list}

\* mutant: the waiting notifications are forgotten
Forgotten(list) == <<>>

Published(list) == [i \in DOMAIN list |-> [list[i] EXCEPT !.published = TRUE]]

Running == ~crashed

-----------------------------------------------------------------------------
(* Asking for notifications                                                *)

\* showNotification only plays a sound for messages the user looks at
IsObserved(e) ==
  /\ Type[e] = "message"
  /\ inboxObserved \/ Conversation[e] \in conversations

\* the contact is known, or not needed: resolveNotification adds at once
IsResolved(pn) == pn.event \in Named \/ Remote[pn.event] \in resolved

\* addNotification, which publishes
AddNotification(pn) ==
  /\ notifications' = Append(notifications, [pn EXCEPT !.published = TRUE])
  /\ screen' = screen \cup {pn.id}
  /\ UNCHANGED unresolved

\* resolveNotification
ResolveNotification(pn) ==
  IF IsResolved(pn)
  THEN AddNotification(pn)
  ELSE /\ unresolved' = Append(unresolved, pn)
       /\ UNCHANGED <<notifications, screen>>

\* the position of the first notification of a message, or 0
FirstWithToken(list, token) == SelectInSeq(list, LAMBDA pn : pn.token = token)

\* updateEditedEvent: the notification of the same message gets the new text
UpdateEditedEvent(e) ==
  LET u == FirstWithToken(unresolved, Token[e])
      n == FirstWithToken(notifications, Token[e])
  IN  \/ /\ u > 0
         /\ unresolved' = [unresolved EXCEPT ![u].text = e]
         /\ UNCHANGED <<notifications, screen>>
      \/ /\ u = 0 /\ n > 0
         /\ notifications' = [notifications EXCEPT ![n].text = e]
         /\ screen' = IF notifications[n].text = e THEN screen
                      ELSE screen \cup {notifications[n].id}
         /\ UNCHANGED unresolved

IsEdit(e) ==
  /\ Token[e] # NoToken
  /\ \E pn \in Elements(unresolved) \cup Elements(notifications) : pn.token = Token[e]

\* amendCallNotification
Amended(pn, e) ==
  [pn EXCEPT !.token = Token[e], !.text = e, !.count = @ + 1]

\* mutant: calls of one party are put together for one account only
SameCallerOfAccount(pn, e) ==
  /\ Type[pn.event] = Type[e] /\ Remote[pn.event] = Remote[e]
  /\ Account[pn.event] = Account[e]

\* findNotification compares the event type and the other party
SameCaller(pn, e) == Type[pn.event] = Type[e] /\ Remote[pn.event] = Remote[e]

FindNotification(list, e) == SelectInSeq(list, LAMBDA pn : SameCaller(pn, e))

\* one more call of a party that has a notification; one that was never
\* published has no m_notification to amend
AmendCall(e) ==
  LET u == FindNotification(unresolved, e)
      n == FindNotification(notifications, e)
  IN  \/ /\ u > 0 /\ unresolved[u].published
         /\ unresolved' = [unresolved EXCEPT ![u] = Amended(@, e)]
         /\ UNCHANGED <<notifications, screen, crashed>>
      \/ /\ u > 0 /\ ~unresolved[u].published
         /\ crashed' = TRUE
         /\ UNCHANGED lists
      \/ /\ u = 0 /\ n > 0
         /\ notifications' = [notifications EXCEPT ![n] = Amended(@, e)]
         /\ screen' = screen \cup {notifications[n].id}
         /\ UNCHANGED <<unresolved, crashed>>

HasCaller(e) ==
  /\ Type[e] \in {"call", "voicemail"}
  /\ \E pn \in Elements(unresolved) \cup Elements(notifications) : SameCaller(pn, e)

\* showNotification
ShowNotification(e) ==
  /\ Running
  /\ shows < MaxShows
  /\ Account[e] \notin removedAccounts
  /\ shows' = shows + 1
  /\ \/ /\ IsObserved(e)
        /\ UNCHANGED <<lists, crashed>>
     \/ /\ ~IsObserved(e) /\ IsEdit(e)
        /\ UpdateEditedEvent(e)
        /\ UNCHANGED crashed
     \/ /\ ~IsObserved(e) /\ ~IsEdit(e) /\ HasCaller(e)
        /\ AmendCall(e)
     \/ /\ ~IsObserved(e) /\ ~IsEdit(e) /\ ~HasCaller(e)
        /\ ResolveNotification(Notification(e, shows + 1))
        /\ UNCHANGED crashed
  /\ calls' = IF Type[e] = "message" \/ IsEdit(e) THEN calls
              ELSE [calls EXCEPT ![<<Type[e], Remote[e]>>] =
                      IF HasCaller(e) THEN @ + 1 ELSE 1]
  /\ UNCHANGED <<resolved, service, removedAccounts, restarts>>

\* slotContactResolveFinished: the resolver has finished with everything it
\* was asked for
ContactResolveFinished ==
  /\ Running
  /\ unresolved # <<>>
  /\ notifications' = notifications \o Published(unresolved)
  /\ screen' = screen \cup Ids(unresolved)
  /\ unresolved' = <<>>
  /\ resolved' = resolved \cup {Remote[pn.event] : pn \in Elements(unresolved)}
  /\ UNCHANGED <<service, removedAccounts, crashed, shows, calls, restarts>>

\* slotContactChanged, slotContactInfoChanged and slotGroupDataChanged publish
\* the notifications of a party, or of a room, once more
Republish(S) ==
  /\ Running
  /\ screen' = screen \cup {pn.id : pn \in {x \in Elements(notifications) : x.event \in S}}
  /\ UNCHANGED <<notifications, unresolved, resolved, service, removedAccounts, crashed,
                 shows, calls, restarts>>

ContactChanged(r) == Republish({e \in Events : Remote[e] = r})

GroupDataChanged(c) == Republish({e \in Named : Conversation[e] = c})

-----------------------------------------------------------------------------
(* Removing notifications                                                  *)

FirstAbout(list, events) == SelectInSeq(list, LAMBDA pn : pn.event \in events)

\* mutant: only the first notification that matches is deleted
OnlyFirst(list, i) == i

LastDeleted(list, i) == Len(list)

\* deleteNotifications: everything from the first notification about one of
\* `events' to the end of the list
Deleted(list, events) ==
  LET i == FirstAbout(list, events)
  IN  IF i = 0 THEN <<>> ELSE SubSeq(list, i, LastDeleted(list, i))

\* what it leaves
Left(list, events) ==
  LET i == FirstAbout(list, events)
  IN  IF i = 0 THEN list
      ELSE SubSeq(list, 1, i - 1) \o SubSeq(list, LastDeleted(list, i) + 1, Len(list))

\* mutant: a deleted notification is not closed on the screen
StaysOnScreen(gone) == screen

\* removeNotification closes what was published
ClosedOnScreen(gone) == screen \ Ids(gone)

\* deleteNotifications of m_notifications
DeleteShown(events) ==
  /\ notifications' = Left(notifications, events)
  /\ screen' = ClosedOnScreen(Deleted(notifications, events))
  /\ UNCHANGED unresolved

\* removeNotificationTypes
RemoveNotificationTypes(types) ==
  DeleteShown({e \in Events : Type[e] \in types})

\* removeNotifications, from both lists
RemoveNotifications(account, types) ==
  LET events == {e \in Events : Account[e] = account /\ Type[e] \in types}
  IN  /\ notifications' = Left(notifications, events)
      /\ unresolved' = Left(unresolved, events)
      /\ screen' = ClosedOnScreen(Deleted(notifications, events) \o Deleted(unresolved, events))

MessagesOf(convs) == {e \in Events : Type[e] = "message" /\ Conversation[e] \in convs}

\* removeConversationNotifications: its group was removed, or the other side
\* has read the messages
RemoveConversationNotifications(c) ==
  /\ Running
  /\ DeleteShown(MessagesOf({c}))
  /\ UNCHANGED <<resolved, service, removedAccounts, crashed, shows, calls, restarts>>

\* the account is removed: AccountOperationsObserver connects the signal to
\* removeNotifications without any types
AccountRemoved(a) ==
  /\ Running
  /\ a \notin removedAccounts
  /\ removedAccounts' = removedAccounts \cup {a}
  /\ RemoveNotifications(a, {})
  /\ UNCHANGED <<resolved, service, crashed, shows, calls, restarts>>

\* setObservedConversations and slotObservedConversationsChanged; the user
\* looks at one conversation, or none
SetObservedConversations(convs) ==
  /\ Running
  /\ conversations' = convs
  /\ DeleteShown(MessagesOf(convs))
  /\ UNCHANGED <<resolved, inboxObserved, inboxFilter, callHistory, removedAccounts,
                 crashed, shows, calls, restarts>>

\* setInboxObserved and slotInboxObservedChanged
SetInboxObserved(observed, filter) ==
  /\ Running
  /\ <<observed, filter>> # <<inboxObserved, inboxFilter>>
  /\ inboxObserved' = observed
  /\ inboxFilter' = filter
  /\ \/ ~observed /\ UNCHANGED lists
     \/ observed /\ filter = AllAccounts /\ RemoveNotificationTypes({"message"})
     \/ observed /\ filter # AllAccounts /\ RemoveNotifications(filter, {"message"})
  /\ UNCHANGED <<resolved, conversations, callHistory, removedAccounts, crashed,
                 shows, calls, restarts>>

\* setCallHistoryObserved and slotCallHistoryObservedChanged
SetCallHistoryObserved(observed) ==
  /\ Running
  /\ callHistory # observed
  /\ callHistory' = observed
  /\ IF observed THEN RemoveNotificationTypes({"call"}) ELSE UNCHANGED lists
  /\ UNCHANGED <<resolved, inboxObserved, inboxFilter, conversations, removedAccounts,
                 crashed, shows, calls, restarts>>

\* the user dismisses a notification: nothing listens to notificationClosed
Dismiss(id) ==
  /\ id \in screen
  /\ screen' = screen \ {id}
  /\ UNCHANGED <<notifications, unresolved, resolved, service, removedAccounts, crashed,
                 shows, calls, restarts>>

\* the daemon is started again and syncNotifications restores what is on the
\* screen, in the order the server gives it
Restart ==
  /\ Running
  /\ restarts < MaxRestarts
  /\ restarts' = restarts + 1
  /\ LET restored == {pn \in Elements(notifications) \cup Elements(unresolved) : pn.id \in screen}
         known    == {pn \in restored : pn.event \in Named}
     IN  notifications' \in SetToSeqs(known) /\ unresolved' \in SetToSeqs(restored \ known)
  /\ resolved' = {}
  /\ inboxObserved' = FALSE /\ inboxFilter' = AllAccounts
  /\ conversations' = {} /\ callHistory' = FALSE
  /\ UNCHANGED <<screen, removedAccounts, crashed, shows, calls>>

NotifyInit ==
  /\ notifications = <<>> /\ unresolved = <<>> /\ screen = {}
  /\ resolved \in SUBSET Remotes
  /\ inboxObserved = FALSE /\ inboxFilter = AllAccounts
  /\ conversations = {} /\ callHistory = FALSE
  /\ removedAccounts = {}
  /\ crashed = FALSE
  /\ shows = 0
  /\ calls = [k \in {"call", "voicemail"} \X Remotes |-> 0]
  /\ restarts = 0

NotifyNext ==
  \/ \E e \in Events : ShowNotification(e)
  \/ ContactResolveFinished
  \/ \E r \in Remotes : ContactChanged(r)
  \/ \E c \in Conversations : GroupDataChanged(c) \/ RemoveConversationNotifications(c)
  \/ \E a \in Accounts : AccountRemoved(a)
  \/ \E convs \in {{}} \cup {{c} : c \in Conversations} : SetObservedConversations(convs)
  \/ \E observed \in BOOLEAN, f \in Accounts \cup {AllAccounts} : SetInboxObserved(observed, f)
  \/ \E observed \in BOOLEAN : SetCallHistoryObserved(observed)
  \/ \E id \in screen : Dismiss(id)
  \/ Restart

NotifySpec == NotifyInit /\ [][NotifyNext]_notifyVars

\* the contact resolver finishes, for every notification it is asked about
NotifyFairSpec == NotifySpec /\ WF_notifyVars(ContactResolveFinished)

-----------------------------------------------------------------------------
(* Properties *)

PersonalNotification ==
  [id : 1 .. MaxShows, event : Events, token : {Token[e] : e \in Events},
   text : Events, count : 1 .. MaxShows, published : BOOLEAN]

\* The type invariant.
NotificationTypes ==
  /\ notifications \in Seq(PersonalNotification)
  /\ unresolved \in Seq(PersonalNotification)
  /\ screen \subseteq 1 .. MaxShows
  /\ resolved \subseteq Remotes
  /\ inboxObserved \in BOOLEAN /\ inboxFilter \in Accounts \cup {AllAccounts}
  /\ conversations \subseteq Conversations /\ callHistory \in BOOLEAN
  /\ removedAccounts \subseteq Accounts
  /\ crashed \in BOOLEAN
  /\ shows \in 0 .. MaxShows
  /\ calls \in [{"call", "voicemail"} \X Remotes -> 0 .. MaxShows]
  /\ restarts \in 0 .. MaxRestarts

\* What is on the screen is on a list: nothing is shown that no removal can
\* find any more (addNotification, deleteNotifications, syncNotifications).
ShownIsListed == screen \subseteq Listed

\* The lists are of their type, and what is shown is on one of them.
ListsAreSound == NotificationTypes /\ ShownIsListed

\* The missed calls of one party, and its voicemails, are one notification,
\* whatever accounts they came by (findNotification, over both lists).
OneForCaller ==
  \A p, q \in Elements(notifications) \cup Elements(unresolved) :
    /\ Type[p.event] # "message" /\ Type[q.event] = Type[p.event]
    /\ Remote[p.event] = Remote[q.event]
    => p.id = q.id

\* A missed call notification counts every missed call of the party since it
\* was created, across restarts (amendCallNotification).
CallsCounted ==
  \A pn \in Elements(notifications) \cup Elements(unresolved) :
    Type[pn.event] # "message" /\ Running
      => pn.count = calls[<<Type[pn.event], Remote[pn.event]>>]

\* The calls of a party are one notification that tells how many there were,
\* although one may be waiting for its contact when the next one comes, over
\* another account, or after a restart.
CallsAreOne == OneForCaller /\ CallsCounted

\* What the user starts to look at leaves no notification of it among the
\* published ones (deleteNotifications).
SeenIsRemoved ==
  [][\A pn \in Elements(notifications') :
       /\ conversations' # conversations => pn.event \notin MessagesOf(conversations')
       /\ callHistory' /\ ~callHistory => Type[pn.event] # "call"
       /\ /\ inboxObserved'
          /\ <<inboxObserved, inboxFilter>> # <<inboxObserved', inboxFilter'>>
          /\ inboxFilter' \in {AllAccounts, Account[pn.event]}
          => Type[pn.event] # "message"]_notifyVars

\* A notification that waits for its contact is published, unless a filtered
\* inbox is opened meanwhile or a call of it comes in; without a restart, which
\* forgets what was never published (slotContactResolveFinished).
WaitingIsPublished ==
  \A id \in 1 .. MaxShows :
    id \in Ids(unresolved) ~>
      id \in Ids(notifications) \/ inboxFilter # AllAccounts \/ crashed \/ restarts > 0

\* "removes notifications whose event type is in the supplied list of types"
\* (notificationmanager.h:86): looking at the call history removes nothing else.
RemovesOnlyTypes ==
  [][callHistory' /\ ~callHistory =>
       \A pn \in Elements(notifications) : Type[pn.event] # "call" => pn.id \in Ids(notifications')]_notifyVars

\* "Removes notifications belonging to a particular account"
\* (notificationmanager.h:118): none of a removed account is left.
RemovesAccount ==
  \A pn \in Elements(notifications) \cup Elements(unresolved) :
    Account[pn.event] \notin removedAccounts

\* "remove sms, mms and im notifications" (notificationmanager.cpp:465): while
\* the user looks at the whole inbox, no message notification is on the screen.
InboxIsClear ==
  inboxObserved /\ inboxFilter = AllAccounts =>
    \A pn \in Elements(notifications) : Type[pn.event] = "message" => pn.id \notin screen

\* A second missed call of one party is counted in its notification, as
\* ut_notificationmanager.cpp expects (txt_qtn_call_missed(2)): the daemon does
\* not stop on the way.
AmendsAnyTime == ~crashed
=============================================================================
