---------------------------- MODULE AzureHAClaims ----------------------------
(***************************************************************************)
(* What the source says of the Azure commands and what they do not do.     *)
(***************************************************************************)
EXTENDS AzureHA

\* "CLEANUP TRIGGERED!: failed to create" (CreateCluster in azure/main.go):
\* once the clean-up of a failed creation has run, with every call of its
\* own succeeding, nothing of the cluster is left.  DeleteSubnet is called
\* with an empty name when the creation failed before the network was on
\* record, and that error ends the clean-up with the resource group still
\* there.
CleanupLeavesNothing ==
  [][job.op = "create" /\ outcome' = "failed" => live' = {}]_vars
=============================================================================
