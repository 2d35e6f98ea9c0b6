---------------------------- MODULE LocalCluster ----------------------------
(***************************************************************************)
(* ksctl create-cluster local and delete-cluster local (src/api/local): a  *)
(* kind cluster in the local container runtime.  The state file is written *)
(* before the cluster is created.                                          *)
(***************************************************************************)
EXTENDS OneCluster

CONSTANT NodeCounts  \* numbers of nodes a user asks for

Stage == {"idle", "configs", "kind", "load", "delete", "drop"}

\* A kind cluster of that name may be there that ksctl has not created.
TypeOK ==
  /\ live \in {{}, {"ours"}, {"foreign"}}
  /\ disk \in Disk /\ pc \in Stage /\ op \in Op /\ outcome \in Outcome
  /\ seen \subseteq Faults /\ hits \in 0..MaxFaults

\* The number of nodes for which there is a configuration.
configOption(n) == n >= 1

StartCreate ==
  \E n \in NodeCounts :
    \/ (~configOption(n) \/ isPresent) /\ Refuse
    \/ configOption(n) /\ ~isPresent /\ Begin("configs", "create")

\* Mutant: the kubeconfig's place is prepared, the state file is not.
CreateConfigOnly ==
  /\ pc = "configs"
  /\ disk' = [disk EXCEPT !.kubeconfig = "empty"]
  /\ NoHit /\ Continue("kind")
  /\ UNCHANGED live

\* createNecessaryConfigs: an empty config, then info.  After an error the
\* creation cleans up and panics.  The state file is present as soon as it
\* is created: what is in it is never read.
CreateNecessaryConfigs ==
  /\ pc = "configs"
  /\ \/ /\ disk' = [file |-> "saved", kubeconfig |-> "empty"]
        /\ NoHit /\ Continue("kind")
     \/ /\ Hit("disk")
        /\ disk' \in {disk, [disk EXCEPT !.kubeconfig = "empty"],
                      [file |-> "torn", kubeconfig |-> "empty"]}
        /\ pc' = "load" /\ op' = "abort" /\ UNCHANGED outcome
  /\ UNCHANGED live

\* Mutant: nobody looks for a cluster of that name.
CreateUnchecked ==
  /\ pc = "kind"
  /\ \/ /\ live' = live \cup {"ours"}
        /\ disk' = [disk EXCEPT !.kubeconfig = "full"]
        /\ NoHit /\ Return("created")
     \/ /\ \/ Hit("api") /\ UNCHANGED live
           \/ Hit("lost") /\ live' = live \cup {"ours"}
        /\ Continue("load")
        /\ UNCHANGED disk

\* provider.Create of kind: refused when a cluster of that name is there.  A
\* failed one removes what it has created, or does not get round to it.
Create ==
  /\ pc = "kind"
  /\ \/ /\ live = {} /\ live' = {"ours"}
        /\ disk' = [disk EXCEPT !.kubeconfig = "full"]
        /\ NoHit /\ Return("created")
     \/ /\ \/ live # {} /\ UNCHANGED live /\ NoHit
           \/ Hit("api") /\ UNCHANGED live
           \/ Hit("lost") /\ live = {} /\ live' = {"ours"}
        /\ Continue("load")
        /\ UNCHANGED disk

\* delete-cluster does not ask.
StartDelete == Begin("load", "delete")

ReadInfo ==
  /\ pc = "load"
  /\ IF isPresent THEN Continue("delete") ELSE ReturnFromDelete("failed")
  /\ NoHit /\ UNCHANGED <<live, disk>>

\* provider.Delete of kind: a cluster that is not there is no error.
Delete ==
  /\ pc = "delete"
  /\ \/ live' = {} /\ NoHit /\ Continue("drop")
     \/ Hit("api") /\ UNCHANGED live /\ ReturnFromDelete("failed")
     \/ Hit("lost") /\ live' = {} /\ ReturnFromDelete("failed")
  /\ UNCHANGED disk

Crash ==
  Killed(IF pc = "configs"
         THEN {[disk EXCEPT !.kubeconfig = "empty"], [file |-> "torn", kubeconfig |-> "empty"]}
         ELSE {})

Init ==
  /\ live \in {{}, {"foreign"}} /\ disk = EmptyDisk /\ pc = "idle" /\ op = "none"
  /\ outcome = "none" /\ seen = {} /\ hits = 0

Step == CreateNecessaryConfigs \/ Create \/ ReadInfo \/ Delete \/ RemoveAll

Next == StartCreate \/ StartDelete \/ Step \/ Crash
=============================================================================
