----------------------------- MODULE ChatGroupMC -----------------------------
(* Instances of ChatGroup for TLC: what the database holds at first. *)
EXTENDS ChatGroup

CONSTANTS ge, gm, g1, g2, a, c1, me, h1

MixedFit == [g \in Groups |-> IF g = gm THEN "many" ELSE "exact"]

\* one group with several members, an exact one, and both
SomeStored == {<<gm>>, <<ge>>, <<gm, ge>>}
=============================================================================
