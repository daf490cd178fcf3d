----------------------------- MODULE AccountsMC -----------------------------
(***************************************************************************)
(* Two accounts, `sim' of the ring connection manager; `sip' may have two  *)
(* connections, one after the other.                                       *)
(***************************************************************************)
EXTENDS Accounts, TLC

CONSTANTS sip, sim, conn1, conn2

MCOf == (conn1 :> sip) @@ (conn2 :> sip)
=============================================================================
