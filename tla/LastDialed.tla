----------------------------- MODULE LastDialed -----------------------------
(***************************************************************************)
(* The LastDialedCache: a file with the number that was dialled last, kept *)
(* for programs that cannot read the database.                             *)
(***************************************************************************)
EXTENDS EventStore

VARIABLES dialedRows,   \* the rows of its CallModel, which lists the newest first
          dialedReady,  \* the model was reset with the answer to getEvents
          file,         \* the call whose number is in the file, or NoEvent
          stale         \* a write of the file failed, or the model is empty by a failure

dialedVars == <<dialedRows, dialedReady, file, stale>>

Later(k, l) == \E i, j \in DOMAIN CallLog : i > j /\ CallLog[i] = k /\ CallLog[j] = l

\* the first row of a model with the calls S, if there are any
Newest(S) == {k \in S : \A l \in S : ~Later(l, k)}

\* writeLastDialed keeps the old file when it fails
WriteLastDialed(k) ==
  \E ok \in Outcome("write") :
    /\ file' = IF ok THEN k ELSE file
    /\ stale' = ~ok

RemoveLastDialed == file' = NoEvent /\ stale' = FALSE

\* what is written after a change of the model is the row that is first then
WriteFirst == \E k \in Newest(dialedRows)' : WriteLastDialed(k)

\* onModelReset
OnModelReset == IF dialedRows' = {} THEN RemoveLastDialed ELSE WriteFirst

\* the model is filled with one row, its limit, or it is not
DialedLoaded ==
  /\ up /\ ~dialedReady
  /\ dialedReady' = TRUE
  /\ \E ok \in Outcome("dialed") :
       /\ dialedRows' = IF ok THEN Newest(rows \cap Dialled) ELSE {}
       /\ IF ok THEN OnModelReset ELSE UNCHANGED file /\ stale' = TRUE

\* onRowsInserted writes the first row only
InsertedFirst(k) == k \in Newest(dialedRows)'

\* mutant: the file is left alone when the last row goes
LeftByLast == UNCHANGED <<file, stale>>

\* nothing is written when no row is left
LastRowGone == RemoveLastDialed

\* onRowsRemoved
OnRowsRemoved(k) ==
  IF dialedRows' = {} THEN LastRowGone
  ELSE IF k \in Newest(dialedRows) THEN WriteFirst
  ELSE UNCHANGED <<file, stale>>

\* a signal of the library reaches the model
DialedHears(sig) ==
  /\ UNCHANGED dialedReady
  /\ LET k == sig.ev IN
       \/ /\ sig.kind = "added" /\ dialedReady /\ k \in Dialled \ dialedRows
          /\ dialedRows' = dialedRows \cup {k}
          /\ IF InsertedFirst(k) THEN WriteLastDialed(k) ELSE UNCHANGED <<file, stale>>
       \/ /\ sig.kind = "deleted" /\ k \in dialedRows
          /\ dialedRows' = dialedRows \ {k}
          /\ OnRowsRemoved(k)
       \/ /\ ~(sig.kind = "added" /\ dialedReady /\ k \in Dialled \ dialedRows)
          /\ ~(sig.kind = "deleted" /\ k \in dialedRows)
          /\ UNCHANGED <<dialedRows, file, stale>>

\* the constructor: the file is that of the daemon before
DialedInit ==
  /\ dialedRows = {}
  /\ dialedReady = FALSE
  /\ file \in {NoEvent} \cup (rows \cap Dialled)
  /\ stale = FALSE

DialedStops ==
  /\ dialedRows' = {}
  /\ dialedReady' = FALSE
  /\ stale' = FALSE
  /\ UNCHANGED file

Told(k) == \A i \in DOMAIN bus : bus[i].ev # k

\* Once the library has told what became of the calls, the file names the
\* newest one there is, or none: never a call that was deleted or overtaken, not
\* when calls come and go while the model loads, and not after a restart.
LastDialedIsNewest ==
  dialedReady /\ ~stale /\ file # NoEvent /\ (\A k \in Dialled : Told(k)) =>
    file \in rows /\ \A k \in rows \cap Dialled : ~Later(k, file)

DialedTypes ==
  /\ dialedRows \subseteq Dialled /\ dialedReady \in BOOLEAN
  /\ file \in Dialled \cup {NoEvent} /\ stale \in BOOLEAN
=============================================================================
