--------------------------- MODULE MCScriptQueue ---------------------------
(* Four articles, one instant per hour: a fresh one whose freshness drops  *)
(* from 100 to 90 while it waits, one that ties with it, one that leaves   *)
(* the 48 hours, and one without a date.                                   *)
EXTENDS ScriptQueue

Scores == [i \in Ids |-> <<95, 95, 80, 90>>[i]]
Priorities == [i \in Ids |-> <<95, 95, 85, 100>>[i]]
Dates == [i \in Ids |-> <<-3600, -3600, -47 * 3600, Undated>>[i]]

=============================================================================
