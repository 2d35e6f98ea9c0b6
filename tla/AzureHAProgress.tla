---------------------------- MODULE AzureHAProgress ---------------------------
(***************************************************************************)
(* How far a command of AzureHA is from its end, whatever may still fail:  *)
(* the legs it has before it, the rounds of the loop it is in, and the     *)
(* calls of the round.                                                     *)
(***************************************************************************)
EXTENDS AzureHA, Countdown

Scripts == {"script", "token", "saveToken"}

\* The handlers go from leg to leg in this order; an error skips legs.
Leg(stage, r) ==
  CASE stage = "group"                     -> 14
    [] stage = "keygen"                    -> 13
    [] stage = "key"                       -> 12
    [] stage \in BuildStage /\ r = "lb"    -> 11
    [] stage \in BuildStage /\ r = "db"    -> 10
    [] stage \in BuildStage /\ r = "cp"    -> 9
    [] stage = "config"                    -> 8
    [] stage \in Scripts                   -> 7
    [] stage = "kubeconfig"                -> 6
    [] stage \in BuildStage /\ r = "wp"    -> 5
    [] stage = "exit"                      -> 4
    [] stage = "read"                      -> 3
    [] stage = "wipe"                      -> 2
    [] stage \in RemoveStage \cup {"drop"} -> 1
    [] OTHER                               -> 0

\* Rounds of the leg's loop: machines to build, configure or remove.
Rounds(stage, j) ==
  CASE stage \in BuildStage /\ j.role = "cp" -> j.cps - j.n
    [] stage \in Scripts                     -> j.cps - j.n
    [] stage \in BuildStage /\ j.role = "wp" -> j.wps - j.n
    [] stage \in RemoveStage                 -> j.rounds
    [] OTHER                                 -> 0

\* Calls of the round: the resources it has not yet created or deleted.
Calls(stage, j) ==
  CASE stage \in {"build", "wipe", "strip"} -> Len(j.todo)
    [] stage = "script"                     -> 2
    [] stage = "token"                      -> 1
    [] OTHER                                -> 0

Left == <<Leg(pc, job.role), Rounds(pc, job), Calls(pc, job)>>

\* Every call a command makes, however it ends, brings the command closer to
\* its end: no loop of the handlers goes round without using up a machine or
\* a resource (haCreateClusterHandler, AddMoreWorkerNodes,
\* DeleteSomeWorkerNodes, haDeleteClusterHandler).  As none of them waits
\* for anything but the call, every command ends.
CallsCountDown == [][Step => Before(Left', Left)]_vars
=============================================================================
