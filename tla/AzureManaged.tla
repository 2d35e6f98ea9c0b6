---------------------------- MODULE AzureManaged ----------------------------
(***************************************************************************)
(* ksctl create-cluster azure and delete-cluster azure                     *)
(* (src/api/azure/managed_main.go, main.go): a resource group and an AKS   *)
(* cluster in it.  The state file is written when the handler returns,     *)
(* whatever it returns.                                                    *)
(***************************************************************************)
EXTENDS OneCluster

Stage == {"idle", "group", "aks", "credentials", "saveConfig", "exit", "exitFailed",
          "read", "delete", "deleteGroup", "drop"}

TypeOK ==
  /\ live \in {{}, {"group"}, {"group", "aks"}}
  /\ disk \in Disk /\ pc \in Stage /\ op \in Op \ {"abort"} /\ outcome \in Outcome
  /\ seen \subseteq Faults /\ hits \in 0..MaxFaults

\* A call that makes live' out of live, and what follows an error.
Call(possible, after, next, error) ==
  \/ possible /\ live' = after /\ NoHit /\ next
  \/ ~possible /\ UNCHANGED live /\ NoHit /\ error
  \/ Hit("api") /\ UNCHANGED live /\ error
  \/ Hit("lost") /\ possible /\ live' = after /\ error

\* The checks of CreateCluster and of the handler.
StartCreate ==
  \E accepted \in BOOLEAN :
    \/ (~accepted \/ isPresent) /\ Refuse
    \/ accepted /\ ~isPresent /\ Begin("group", "create")

CreateResourceGroup ==
  /\ pc = "group"
  /\ Call(TRUE, live \cup {"group"}, Continue("aks"), Continue("exitFailed"))
  /\ UNCHANGED disk

\* BeginCreateOrUpdate and PollUntilDone.
CreateManagedCluster ==
  /\ pc = "aks"
  /\ Call("group" \in live, live \cup {"aks"}, Continue("credentials"), Continue("exitFailed"))
  /\ UNCHANGED disk

ListClusterAdminCredentials ==
  /\ pc = "credentials"
  /\ \/ NoHit /\ Continue("saveConfig")
     \/ Hit("api") /\ Continue("exitFailed")
  /\ UNCHANGED <<live, disk>>

SaveKubeconfig ==
  /\ pc = "saveConfig"
  /\ \/ disk' = [disk EXCEPT !.kubeconfig = "full"] /\ NoHit /\ Continue("exit")
     \/ Hit("disk") /\ disk' \in {disk, [disk EXCEPT !.kubeconfig = "empty"]} /\ Continue("exitFailed")
  /\ UNCHANGED live

\* Mutant: the state file is written when the cluster is there.
ReturnNotDeferred ==
  /\ pc \in {"exit", "exitFailed"}
  /\ \/ disk' = (IF pc = "exit" THEN [disk EXCEPT !.file = "saved"] ELSE disk) /\ NoHit
     \/ Hit("disk") /\ disk' \in {disk, [disk EXCEPT !.file = "torn"]}
  /\ IF pc = "exit" THEN Return("created") ELSE Continue("read")
  /\ UNCHANGED live

\* The handler returns: its deferred ConfigWriter, whose error is dropped,
\* and the clean-up after an error.
ReturnFromCreate ==
  /\ pc \in {"exit", "exitFailed"}
  /\ \/ disk' = [disk EXCEPT !.file = "saved"] /\ NoHit
     \/ Hit("disk") /\ disk' \in {disk, [disk EXCEPT !.file = "torn"]}
  /\ IF pc = "exit" THEN Return("created") ELSE Continue("read")
  /\ UNCHANGED live

StartDelete ==
  \E confirmed \in BOOLEAN :
    \/ (~confirmed \/ ~isPresent) /\ Refuse
    \/ confirmed /\ isPresent /\ Begin("read", "delete")

ConfigReader ==
  /\ pc = "read"
  /\ IF disk.file = "saved" THEN Continue("delete") ELSE Return("failed")
  /\ NoHit /\ UNCHANGED <<live, disk>>

\* Without its group there is nothing that could be deleted: an error.
DeleteManagedCluster ==
  /\ pc = "delete"
  /\ Call("group" \in live, live \ {"aks"}, Continue("deleteGroup"), Return("failed"))
  /\ UNCHANGED disk

DeleteResourceGroup ==
  /\ pc = "deleteGroup"
  /\ Call("group" \in live, {}, Continue("drop"), Return("failed"))
  /\ UNCHANGED disk

Crash ==
  Killed((IF pc = "saveConfig" THEN {[disk EXCEPT !.kubeconfig = "empty"]} ELSE {})
         \cup (IF pc \in {"exit", "exitFailed"} THEN {[disk EXCEPT !.file = "torn"]} ELSE {}))

Init ==
  /\ live = {} /\ disk = EmptyDisk /\ pc = "idle" /\ op = "none" /\ outcome = "none"
  /\ seen = {} /\ hits = 0

Step ==
  \/ CreateResourceGroup \/ CreateManagedCluster \/ ListClusterAdminCredentials \/ SaveKubeconfig
  \/ ReturnFromCreate \/ ConfigReader \/ DeleteManagedCluster \/ DeleteResourceGroup \/ RemoveAll

Next == StartCreate \/ StartDelete \/ Step \/ Crash
=============================================================================
