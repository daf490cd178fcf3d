---------------------------- MODULE TextChannelMC ----------------------------
(* Instances of TextChannel for TLC: which messages a channel delivers. *)
EXTENDS TextChannel, TLC

CONSTANTS n1, e1, r1, x1, c1, p1, p2, s1

\* a message, and a report about one that was sent
ReportMsgs   == {n1, r1}
ReportKind   == n1 :> "normal" @@ r1 :> "report"
ReportTarget == n1 :> n1 @@ r1 :> s1

\* a message, an edit of it, one of history and a notice, handled in one pass
\* or several
BatchMsgs   == {n1, e1, c1, x1}
BatchKind   == n1 :> "normal" @@ e1 :> "edit" @@ c1 :> "scrollback" @@ x1 :> "notice"
BatchTarget == n1 :> n1 @@ e1 :> n1 @@ c1 :> c1 @@ x1 :> x1

\* two messages of one replace type
ReplaceMsgs   == {p1, p2}
ReplaceKind   == p1 :> "replace" @@ p2 :> "replace"
ReplaceTarget == p1 :> p1 @@ p2 :> p2

=============================================================================
