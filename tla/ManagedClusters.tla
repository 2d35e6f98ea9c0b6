--------------------------- MODULE ManagedClusters ---------------------------
(***************************************************************************)
(* One cluster of any of the providers that manage it themselves: what a   *)
(* user of create-cluster and delete-cluster {civo, azure, local} may rely *)
(* on.                                                                     *)
(***************************************************************************)
EXTENDS OneCluster

CONSTANT NodeCounts  \* numbers of nodes a user asks for (local)

ASSUME NodeCountsAssumption == NodeCounts \subseteq Nat

VARIABLE which  \* the provider

allVars == <<vars, which>>

Civo  == INSTANCE CivoManaged
Azure == INSTANCE AzureManaged
Local == INSTANCE LocalCluster

Init ==
  \/ which = "civo" /\ Civo!Init
  \/ which = "azure" /\ Azure!Init
  \/ which = "local" /\ Local!Init

Next ==
  /\ \/ which = "civo" /\ Civo!Next
     \/ which = "azure" /\ Azure!Next
     \/ which = "local" /\ Local!Next
  /\ UNCHANGED which

\* The operating system runs the process.
Step ==
  /\ \/ which = "civo" /\ Civo!Step
     \/ which = "azure" /\ Azure!Step
     \/ which = "local" /\ Local!Step
  /\ UNCHANGED which

\* Civo finishes the clusters that were ordered.
Cloud == which = "civo" /\ Civo!BecomesReady /\ UNCHANGED which

Spec == Init /\ [][Next]_allVars

FairSpec == Spec /\ WF_allVars(Step) /\ WF_allVars(Cloud)

-----------------------------------------------------------------------------
TypeOK ==
  \/ which = "civo" /\ Civo!TypeOK
  \/ which = "azure" /\ Azure!TypeOK
  \/ which = "local" /\ Local!TypeOK

\* The cluster as ClusterLifecycle sees it, one provider at a time.
CivoView == INSTANCE ClusterLifecycle WITH
  busy   <- which = "civo" /\ pc # "idle",
  exists <- which = "civo" /\ live # {},
  known  <- which = "civo" /\ isPresent,
  blame  <- which = "civo" /\ seen # {}

AzureView == INSTANCE ClusterLifecycle WITH
  busy   <- which = "azure" /\ pc # "idle",
  exists <- which = "azure" /\ live # {},
  known  <- which = "azure" /\ isPresent,
  blame  <- which = "azure" /\ seen \cap {"disk", "crash"} # {}

LocalView == INSTANCE ClusterLifecycle WITH
  busy   <- which = "local" /\ pc # "idle",
  exists <- which = "local" /\ live = {"ours"},
  known  <- which = "local" /\ isPresent,
  blame  <- FALSE

\* ksctl forgets a Civo cluster only when it is gone, and ends no command
\* with a cluster it has no state file of, as long as nothing goes wrong: a
\* cluster that is ordered and not yet written down is lost with the first
\* thing that does (managedCreateClusterHandler, saveConfigManaged).
CivoLifecycle == CivoView!Spec

\* The same for Azure, where a refused call does not lose the cluster either,
\* only a kill or a failed write before the handler has returned (the
\* deferred ConfigWriter of managedCreateClusterHandler).
AzureLifecycle == AzureView!Spec

\* The same for a kind cluster, which not even a kill or a full disk makes
\* ksctl lose (createNecessaryConfigs before provider.Create).
LocalLifecycle == LocalView!Spec

\* A command that reports success has done what it says: after a creation
\* the cluster exists, can be deleted again and has a kubeconfig; after a
\* deletion nothing is left.  Only the error of Azure's deferred ConfigWriter
\* goes unnoticed (CreateCluster and DeleteCluster of the three packages).
SuccessIsComplete ==
  /\ outcome = "created" /\ (which = "azure" => "disk" \notin seen) =>
       live \notin {{}, {"foreign"}} /\ disk = [file |-> "saved", kubeconfig |-> "full"]
  /\ outcome = "deleted" => live = {} /\ disk = EmptyDisk

\* Every command ends, if Civo finishes the cluster that is ordered: the
\* polling loop of managedCreateClusterHandler has no limit of its own.
CommandsEnd == pc # "idle" ~> pc = "idle"
=============================================================================
