----------------------------- MODULE MmsHandlerMC -----------------------------
(* Instances of MmsHandler for TLC: which messages there are. *)
EXTENDS MmsHandler

CONSTANTS i1, o1, s1, s2, l1

\* an incoming message, and one to send, which never meet
OneOrTheOther == {{i1}, {o1}}

\* a SIM card that is not the default one
OtherSim == [e \in Ids |-> s2]

OneLocation == [e \in In |-> l1]
=============================================================================
