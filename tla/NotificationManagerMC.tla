------------------------ MODULE NotificationManagerMC ------------------------
(* An instance of NotificationManager for TLC: what is notified about. *)
EXTENDS NotificationManager

CONSTANTS a1, a2, c1, c2, r1, r2, m1, m2, k1, k2

\* a message (asked for again, it is an edit), a message of another account, and
\* missed calls of one party over both accounts
MixedEvents  == {m1, m2, k1, k2}
MixedType    == [e \in MixedEvents |-> IF e \in {m1, m2} THEN "message" ELSE "call"]
MixedAccount == [e \in MixedEvents |-> IF e \in {m2, k2} THEN a2 ELSE a1]
MixedConv    == [e \in MixedEvents |-> IF e = m2 THEN c2 ELSE c1]
MixedRemote  == [e \in MixedEvents |-> IF e = m2 THEN r2 ELSE r1]
MixedToken   == [e \in MixedEvents |-> IF e \in {k1, k2} THEN NoToken ELSE e]
=============================================================================
