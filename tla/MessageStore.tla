---------------------------- MODULE MessageStore ----------------------------
(***************************************************************************)
(* What the daemon promises the other side of a text channel.  The         *)
(* connection manager holds every message that arrived until the daemon    *)
(* tells it to forget it; the daemon settles a message by saving it, or by *)
(* deciding that there is nothing to save.  A message that is settled      *)
(* stays settled, and only settled messages are forgotten.                 *)
(*                                                                         *)
(* Nothing here is said of events, commits, tokens, retries or restarts:   *)
(* those are how TextChannel, for the messages of its channel, and         *)
(* MessageReviver, for those of all connections, keep the promise.         *)
(***************************************************************************)
CONSTANT Msgs

VARIABLES arrived,    \* messages that reached the channel
          held,       \* those the connection manager still keeps
          settled     \* those that need not be kept

vars == <<arrived, held, settled>>

\* messages may have come, and been settled, before the daemon is started
Init ==
  /\ arrived \in SUBSET Msgs
  /\ held = arrived
  /\ settled \in SUBSET arrived

Settle == settled \subseteq settled' /\ settled' \subseteq Msgs

\* a new message; it may settle others, or be settled at once
Arrive(m) ==
  /\ m \notin arrived
  /\ arrived' = arrived \cup {m}
  /\ held' = held \cup {m}
  /\ Settle

Work ==
  /\ Settle
  /\ UNCHANGED <<arrived, held>>

Forget(S) ==
  /\ held' = held \ S
  /\ UNCHANGED <<arrived, settled>>

Next ==
  \/ \E m \in Msgs : Arrive(m)
  \/ Work
  \/ \E S \in SUBSET settled : Forget(S)

Spec == Init /\ [][Next]_vars

\* What the promise comes to: no message is lost.
Kept == arrived \subseteq held \cup settled
=============================================================================
