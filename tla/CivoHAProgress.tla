---------------------------- MODULE CivoHAProgress ----------------------------
(***************************************************************************)
(* How far a command of CivoHA is from its end, whatever may still fail:   *)
(* the legs it has before it, the rounds of the loop it is in, and the     *)
(* calls of the round.                                                     *)
(***************************************************************************)
EXTENDS CivoHA, Countdown

Groundwork == {"keygen", "newKey", "saveKey", "newNetwork", "saveNetwork"}

\* The handlers go from leg to leg in this order; an error skips legs.
Leg(stage, r) ==
  CASE stage \in Groundwork               -> 15
    [] stage \in NodeStage /\ r = "db"    -> 14
    [] stage \in NodeStage /\ r = "lb"    -> 13
    [] stage \in NodeStage /\ r = "cp"    -> 12
    [] stage = "configLB"                 -> 11
    [] stage \in {"configCP", "saveToken"} -> 10
    [] stage = "kubeconfig"               -> 9
    [] stage \in NodeStage /\ r = "wp"    -> 8
    [] stage = "guard"                    -> 7
    [] stage = "delInstances"             -> 6
    [] stage = "delFirewalls"             -> 5
    [] stage = "delNetwork"               -> 4
    [] stage = "delKey"                   -> 3
    [] stage = "delPaths"                 -> 2
    [] stage \in RemoveStage              -> 1
    [] OTHER                              -> 0

GroupsLeft == [cp |-> 3, wp |-> 2, lb |-> 1, db |-> 0]

\* Rounds of the leg's loop: nodes to build, configure or remove, groups of
\* instances and firewalls to delete, attempts to delete the network.
Rounds(stage, j) ==
  CASE stage \in NodeStage /\ j.role = "cp"               -> j.cps - j.n
    [] stage \in {"configCP", "saveToken"}                -> j.cps - j.n
    [] stage \in NodeStage /\ j.role = "wp"               -> j.wps - j.n
    [] stage \in RemoveStage                              -> j.wps - j.n
    [] stage = "delInstances"                             -> GroupsLeft[j.role]
    [] stage = "delFirewalls"                             -> Len(FirewallOrder) - j.n
    [] stage = "delNetwork"                               -> MaxRetry - j.retry
    [] OTHER                                              -> 0

\* Calls of the round; for a group, the instances that are left in it.
Calls(stage, j) ==
  CASE stage = "newFirewall"                          -> 6
    [] stage \in {"keygen", "saveFirewall"}           -> 5
    [] stage \in {"newKey", "newInstance"}            -> 4
    [] stage \in {"saveKey", "saveInstance"}          -> 3
    [] stage \in {"newNetwork", "boot", "configCP", "dropWorker"} -> 2
    [] stage \in {"saveNetwork", "saveEndpoint", "saveToken", "saveDrop"} -> 1
    [] stage = "delInstances"                         -> Len(j.mem.inst[j.role]) - j.n
    [] OTHER                                          -> 0

Left == <<Leg(pc, job.role), Rounds(pc, job), Calls(pc, job)>>

\* Every call a command makes, however it ends, brings the command closer to
\* its end: no loop of the handlers goes round without using up a node, a
\* group, an instance or an attempt (haCreateClusterHandler,
\* AddMoreWorkerNodes, DeleteSomeWorkerNodes, DeleteInstances,
\* DeleteNetworks).  Waiting for a machine to boot is no call of the model:
\* with that, CommandsEnd needs a cloud that boots it.
CallsCountDown == [][Step => Before(Left', Left)]_vars
=============================================================================
