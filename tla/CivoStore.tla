------------------------------ MODULE CivoStore ------------------------------
(***************************************************************************)
(* The state file of a self-managed ("HA") Civo cluster: the JsonStore     *)
(* record of src/api/civo/utils.go, what its ConfigWriter methods change,  *)
(* and the set of cloud identifiers it remembers.                          *)
(*                                                                         *)
(* A cloud identifier (a UUID in the code) is a positive number; NoID      *)
(* stands for the empty string.  The database endpoint and the k3s token   *)
(* are kept as "is it there".  ClusterName and Region name the file and    *)
(* never change, so they are left out: there is one cluster.               *)
(***************************************************************************)
EXTENDS Naturals, SequencesExt

NoID == 0

\* The four groups of machines: control plane, worker, load balancer, database.
Role == {"cp", "wp", "lb", "db"}

Config ==
  [sshID     : Nat,
   networkID : Nat,
   fw        : [Role -> Nat],
   inst      : [Role -> Seq(Nat)],
   endpoint  : BOOLEAN,
   token     : BOOLEAN]

EmptyConfig ==
  [sshID     |-> NoID,
   networkID |-> NoID,
   fw        |-> [r \in Role |-> NoID],
   inst      |-> [r \in Role |-> << >>],
   endpoint  |-> FALSE,
   token     |-> FALSE]

-----------------------------------------------------------------------------
(* What each ConfigWriter does to the record before it saves the file.     *)

\* Mutant: the list of a group is overwritten instead of extended.
WriterOverwritesInstance(c, r, id) == [c EXCEPT !.inst[r] = <<id>>]

ConfigWriterSSHID(c, id)       == [c EXCEPT !.sshID = id]
ConfigWriterNetworkID(c, id)   == [c EXCEPT !.networkID = id]
ConfigWriterFirewall(c, r, id) == [c EXCEPT !.fw[r] = id]
ConfigWriterInstance(c, r, id) == [c EXCEPT !.inst[r] = Append(@, id)]
ConfigWriterDBEndpoint(c)      == [c EXCEPT !.endpoint = TRUE]
ConfigWriterServerToken(c)     == [c EXCEPT !.token = TRUE]

\* DeleteSomeWorkerNodes cuts the last worker off the list it loaded.
DropLastWorker(c) == [c EXCEPT !.inst["wp"] = Front(@)]

-----------------------------------------------------------------------------
(* The identifiers a record remembers.                                     *)

Firewalls(c) == {c.fw[r] : r \in Role} \ {NoID}
Instances(c) == UNION {ToSet(c.inst[r]) : r \in Role}
Recorded(c)  == ({c.sshID, c.networkID} \cup Firewalls(c) \cup Instances(c)) \ {NoID}
=============================================================================
