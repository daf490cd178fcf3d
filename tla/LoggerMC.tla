------------------------------ MODULE LoggerMC ------------------------------
(***************************************************************************)
(* A text channel that comes back once, and a call.                        *)
(***************************************************************************)
EXTENDS Logger, TLC

CONSTANTS text1, text2, call, m1, m2

MCPath    == (text1 :> "text") @@ (text2 :> "text") @@ (call :> "call")
MCMsgPath == (m1 :> "text") @@ (m2 :> "text")
=============================================================================
