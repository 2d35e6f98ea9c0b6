----------------------------- MODULE RemoteCall -----------------------------
(***************************************************************************)
(* What the commands rely on when they run a script on a machine: it is    *)
(* started at most once per call, and success means that it ran to its     *)
(* end.  The scripts install things and are not made to be run twice.      *)
(***************************************************************************)
EXTENDS Naturals

VARIABLES
  calling,  \* a call is running
  runs,     \* how often it has started the script
  ended,    \* the script ran to its end
  answer    \* what the last call returned

vars == <<calling, runs, ended, answer>>

TypeOK == calling \in BOOLEAN /\ runs \in 0..1 /\ ended \in BOOLEAN /\ answer \in {"none", "ok", "error"}

Call == ~calling /\ calling' = TRUE /\ runs' = 0 /\ ended' = FALSE /\ answer' = "none"

Execute == calling /\ runs = 0 /\ runs' = 1 /\ ended' \in BOOLEAN /\ UNCHANGED <<calling, answer>>

Return ==
  /\ calling /\ calling' = FALSE
  /\ answer' \in {"ok", "error"}
  /\ answer' = "ok" => runs = 1 /\ ended
  /\ UNCHANGED <<runs, ended>>

Init == ~calling /\ runs = 0 /\ ~ended /\ answer = "none"

Next == Call \/ Execute \/ Return

Spec == Init /\ [][Next]_vars
=============================================================================
