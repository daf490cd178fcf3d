-------------------------- MODULE MessageReviverMC --------------------------
(* Instances of MessageReviver for TLC: connections and their paths. *)
EXTENDS MessageReviver, TLC

CONSTANTS c1, c2, t1, t2, pa

\* a connection, and the one that replaces it after a reconnect
OnePath == c1 :> pa @@ c2 :> pa
=============================================================================
