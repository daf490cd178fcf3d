--------------------------- MODULE AccountManager ---------------------------
(***************************************************************************)
(* Telepathy's account manager, as the parts of the daemon that watch the  *)
(* accounts see it, and the process itself.  Both are external.            *)
(*                                                                         *)
(* The account manager is ready before an object hears of it: the finished *)
(* signal of becomeReady is queued, for each object that asked for it.     *)
(***************************************************************************)
EXTENDS Integers, FiniteSets, Sequences

CONSTANTS Accounts,     \* paths of accounts
          MayFail,      \* the calls that may fail in this instance
          MaxMoves,     \* bound on what happens outside of the daemon
          MaxStops      \* bound on restarts of the daemon

ASSUME BoundsAssumption ==
  IsFiniteSet(Accounts) /\ MaxMoves \in Nat /\ MaxStops \in Nat

VARIABLES manager,      \* "pending", "ready" or "failed"
          existing,     \* accounts that exist and are valid
          up,           \* the daemon runs; systemd starts it again
          stops,
          moves

Outcome(call) == IF call \in MayFail THEN BOOLEAN ELSE {TRUE}

ManagerAnswers ==
  /\ up
  /\ manager = "pending"
  /\ manager' \in {"ready", "failed"}

ManagerInit ==
  /\ manager = "pending"
  /\ existing = Accounts
  /\ up = TRUE
  /\ stops = 0
  /\ moves = 0

ManagerTypes ==
  /\ manager \in {"pending", "ready", "failed"}
  /\ existing \subseteq Accounts
  /\ up \in BOOLEAN /\ stops \in 0 .. MaxStops /\ moves \in 0 .. MaxMoves
=============================================================================
