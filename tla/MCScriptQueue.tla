--------------------------- MODULE MCScriptQueue ---------------------------
(* ScriptQueue on a small instance: aborted drains are capped, everything    *)
(* else is bounded by the number of submissions.                             *)
EXTENDS ScriptQueue

CONSTANT MaxAborts  \* bound: drains left by an error of the host

MCNext == Next /\ aborts' <= MaxAborts

MCSpec == Init /\ [][MCNext]_vars /\ Fairness

=============================================================================
