----------------------------- MODULE CallRecord -----------------------------
(***************************************************************************)
(* What the daemon promises the readers of the call log of one call: its   *)
(* record shows only what is known of the call by then, and it only goes   *)
(* forward.  Once shown as missed a call stays missed, its end does not    *)
(* move back, with a duration its beginning does not move any more, and    *)
(* when it is over its end does not move at all.  The user is told of a    *)
(* missed call only when it is known to be one.                            *)
(*                                                                         *)
(* Nothing here is said of channels, timers, commits and their failures:   *)
(* those are how StreamChannel keeps the promise.                          *)
(***************************************************************************)
EXTENDS Integers

CONSTANTS CallEvents,   \* what may be known of a call
          NoRow         \* there is no record yet

VARIABLES known,    \* what is known of the call
          record,   \* what the log shows of it, or NoRow
          over,     \* the call has come to its end
          told      \* the user was told of a missed call

vars == <<known, record, over, told>>

\* what s says of the call may come after what r says
Follows(r, s) ==
  /\ r.missed => s.missed
  /\ r.emergency => s.emergency
  /\ r.start <= s.start /\ r.end <= s.end
  /\ r.start < r.end => s.start = r.start

Init ==
  /\ known \in {e \in CallEvents : e.start = e.end /\ ~e.missed}
  /\ record = NoRow
  /\ over = FALSE /\ told = FALSE

\* more is known of the call, and the user may be told that it was missed
Learn ==
  /\ known' \in CallEvents /\ Follows(known, known')
  /\ over' \in BOOLEAN /\ (over => over' /\ known'.end = known.end)
  /\ told' \in {told, told \/ known'.missed}
  /\ UNCHANGED record

\* the record is made, or brought forward
Show ==
  /\ record' \in CallEvents
  /\ record = NoRow \/ Follows(record, record')
  /\ Follows(record', known)
  /\ UNCHANGED <<known, over, told>>

Next == Learn \/ Show

Spec == Init /\ [][Next]_vars

\* What the promise comes to: the log shows nothing of the call but what is
\* known, or what was known before of what is known now, and who was told of a
\* missed call was told the truth.
Truthful ==
  /\ record # NoRow => Follows(record, known)
  /\ told => known.missed
=============================================================================
