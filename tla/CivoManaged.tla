---------------------------- MODULE CivoManaged ----------------------------
(***************************************************************************)
(* ksctl create-cluster civo and delete-cluster civo                       *)
(* (src/api/civo/managed_main.go, main.go): the cluster is ordered, polled *)
(* until it is ready, and written down only then.                          *)
(***************************************************************************)
EXTENDS OneCluster

Stage == {"idle", "new", "poll", "saveConfig", "saveInfo", "load", "delete", "drop"}

TypeOK ==
  /\ live \in {{}, {"building"}, {"ready"}}
  /\ disk \in Disk /\ pc \in Stage /\ op \in Op \ {"abort"} /\ outcome \in Outcome
  /\ seen \subseteq Faults /\ hits \in 0..MaxFaults

\* CreateCluster.  After a rejection the clean-up finds no state file, or is
\* not called.
StartCreate ==
  \E accepted \in BOOLEAN :
    \/ (~accepted \/ isPresent) /\ Refuse
    \/ accepted /\ ~isPresent /\ Begin("new", "create")

\* The errors of NewKubernetesClusters that are looked at end the handler,
\* and CreateCluster cleans up; after any other error the identifier is read
\* from a nil result.
NewFails == Continue("load") \/ Return("panic")

\* Civo refuses a second cluster of the same name.
NewKubernetesClusters ==
  /\ pc = "new"
  /\ \/ live = {} /\ live' = {"building"} /\ NoHit /\ Continue("poll")
     \/ live # {} /\ UNCHANGED live /\ NoHit /\ Continue("load")
     \/ Hit("api") /\ UNCHANGED live /\ NewFails
     \/ Hit("lost") /\ live = {} /\ live' = {"building"} /\ NewFails
  /\ UNCHANGED disk

\* The loop asks until the cluster is ready.  The error of the question is
\* dropped and its nil result read.
GetKubernetesCluster ==
  /\ pc = "poll"
  /\ \/ live = {"ready"} /\ NoHit /\ Continue("saveConfig")
     \/ Hit("api") /\ Return("panic")
  /\ UNCHANGED <<live, disk>>

\* Mutant: the error of saveKubeconfig is not looked at.
SaveKubeconfigNoError ==
  /\ pc = "saveConfig"
  /\ \/ disk' = [disk EXCEPT !.kubeconfig = "full"] /\ NoHit
     \/ Hit("disk") /\ disk' \in {disk, [disk EXCEPT !.kubeconfig = "empty"]}
  /\ Continue("saveInfo")
  /\ UNCHANGED live

\* configWriterManaged: the kubeconfig, then saveConfigManaged.
SaveKubeconfig ==
  /\ pc = "saveConfig"
  /\ \/ disk' = [disk EXCEPT !.kubeconfig = "full"] /\ NoHit /\ Continue("saveInfo")
     \/ Hit("disk") /\ disk' \in {disk, [disk EXCEPT !.kubeconfig = "empty"]} /\ Continue("load")
  /\ UNCHANGED live

\* Mutant: the loop is not left.
SaveConfigManagedNoBreak ==
  /\ pc = "saveInfo"
  /\ \/ disk' = [disk EXCEPT !.file = "saved"] /\ NoHit /\ Continue("poll")
     \/ Hit("disk") /\ disk' \in {disk, [disk EXCEPT !.file = "torn"]} /\ Continue("load")
  /\ UNCHANGED live

SaveConfigManaged ==
  /\ pc = "saveInfo"
  /\ \/ disk' = [disk EXCEPT !.file = "saved"] /\ NoHit /\ Return("created")
     \/ Hit("disk") /\ disk' \in {disk, [disk EXCEPT !.file = "torn"]} /\ Continue("load")
  /\ UNCHANGED live

StartDelete == \E confirmed \in BOOLEAN : IF confirmed THEN Begin("load", "delete") ELSE Refuse

\* The clean-up looks for the identifier in the state file, which a failed
\* creation has not written.
GetConfigManaged ==
  /\ pc = "load"
  /\ IF disk.file = "saved" THEN Continue("delete") ELSE Return("failed")
  /\ NoHit /\ UNCHANGED <<live, disk>>

\* Mutant: the error of deleteClusterWithID is not looked at.
DeleteClusterNoError ==
  /\ pc = "delete"
  /\ \/ live # {} /\ live' = {} /\ NoHit
     \/ live = {} /\ UNCHANGED live /\ NoHit
     \/ Hit("api") /\ UNCHANGED live
  /\ Continue("drop")
  /\ UNCHANGED disk

\* deleteClusterWithID: a cluster that is not there is an error.
DeleteCluster ==
  /\ pc = "delete"
  /\ \/ live # {} /\ live' = {} /\ NoHit /\ Continue("drop")
     \/ live = {} /\ UNCHANGED live /\ NoHit /\ Return("failed")
     \/ Hit("api") /\ UNCHANGED live /\ Return("failed")
     \/ Hit("lost") /\ live # {} /\ live' = {} /\ Return("failed")
  /\ UNCHANGED disk

\* Civo finishes the cluster.
BecomesReady ==
  /\ live = {"building"} /\ live' = {"ready"}
  /\ UNCHANGED <<disk, pc, op, outcome, seen, hits>>

Crash ==
  Killed((IF pc = "saveConfig" THEN {[disk EXCEPT !.kubeconfig = "empty"]} ELSE {})
         \cup (IF pc = "saveInfo" THEN {[disk EXCEPT !.file = "torn"]} ELSE {}))

Init ==
  /\ live = {} /\ disk = EmptyDisk /\ pc = "idle" /\ op = "none" /\ outcome = "none"
  /\ seen = {} /\ hits = 0

Step ==
  \/ NewKubernetesClusters \/ GetKubernetesCluster \/ SaveKubeconfig \/ SaveConfigManaged
  \/ GetConfigManaged \/ DeleteCluster \/ RemoveAll

Next == StartCreate \/ StartDelete \/ Step \/ Crash \/ BecomesReady
=============================================================================
