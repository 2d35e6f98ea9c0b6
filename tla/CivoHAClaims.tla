----------------------------- MODULE CivoHAClaims -----------------------------
(***************************************************************************)
(* What comments and documents of the repository say of the HA commands    *)
(* and what the code does not do.  Each is checked by a run of its own     *)
(* that finds a counterexample.                                            *)
(***************************************************************************)
EXTENDS CivoHA

\* The clean-up is for an "error ... during creation" (main.go:78), so a
\* creation that finds a cluster destroys nothing of it (CreateCluster).
CreateSparesExisting ==
  [][job.op = "create" /\ job.found => DOMAIN cloud \subseteq DOMAIN cloud']_vars

\* "DeleteInstances deletes all the VMs" (utils.go:241): when the handler goes
\* on to the networks, no instance on record is left.
AllInstancesDeleted ==
  [][pc = "delInstances" /\ pc' = "delFirewalls" => Instances(Info) \cap DOMAIN cloud' = {}]_vars

\* "CreateDatabase return endpoint address if no error is encountered"
\* (database.go:76): the handler goes on only with an endpoint.
EndpointIfNoError ==
  job.op = "create" /\ pc \in NodeStage /\ job.role # "db" => job.mem.endpoint

\* "SSH access to each workplane ... secured by private key" (civo.md:67):
\* every worker on record was given the cluster's key (AddMoreWorkerNodes).
WorkersHaveKey ==
  \A id \in ToSet(Info.inst["wp"]) \cap DOMAIN cloud : cloud[id].key = Info.sshID
=============================================================================
