----------------------------- MODULE HistoryMC ------------------------------
(***************************************************************************)
(* Two accounts: `sip', and `sim', the account of the modem.  `sip' has a  *)
(* message and two calls; the message of `sim' is a business card.         *)
(***************************************************************************)
EXTENDS History

CONSTANTS sip, sim, text, vcard, call1, call2, modem

MCCallLog == <<call1, call2>>
MCOwner   == (text :> sip) @@ (vcard :> sim) @@ (call1 :> sip) @@ (call2 :> sip)
MCModem   == modem :> sim
=============================================================================
