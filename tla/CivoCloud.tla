------------------------------ MODULE CivoCloud ------------------------------
(***************************************************************************)
(* The Civo API as ksctl uses it, an external system: the objects that     *)
(* exist, as a function from their identifiers to the attributes that the  *)
(* properties look at.  Only what src/api/civo asks of the client library  *)
(* is modelled: create, delete, and read the status of an instance.        *)
(***************************************************************************)
EXTENDS CivoStore

\* Identifiers the cloud may hand out, and the fresh ones it may pick when
\* the identifiers in S are in use.
CONSTANTS IDs, Mint(_)

\* The kinds of objects whose presence on a network makes the cloud refuse
\* to delete that network.
CONSTANT Blocking

Kind == {"sshkey", "network", "firewall"} \cup Role

ASSUME MintAssumption     == \A S \in SUBSET IDs : Mint(S) \subseteq IDs \ S
ASSUME IDsAssumption      == IDs \subseteq Nat \ {NoID}
ASSUME BlockingAssumption == Blocking \subseteq Kind \ {"sshkey", "network"}

\* net is the network of a firewall or instance, key the SSH key put into an
\* instance, num the number in its host name, active its status.
Object == [kind : Kind, net : Nat, key : Nat, num : Nat, active : BOOLEAN]

\* Mutant: a firewall on the account's default network.
FirewallOffNetwork(n) ==
  [kind |-> "firewall", net |-> NoID, key |-> NoID, num |-> 0, active |-> TRUE]

KeyObject         == [kind |-> "sshkey", net |-> NoID, key |-> NoID, num |-> 0, active |-> TRUE]
NetworkObject     == [KeyObject EXCEPT !.kind = "network"]
FirewallObject(n) == [KeyObject EXCEPT !.kind = "firewall", !.net = n]
Instance(r, n, k, i) == [kind |-> r, net |-> n, key |-> k, num |-> i, active |-> FALSE]

With(cloud, id, o)  == [i \in DOMAIN cloud \cup {id} |-> IF i = id THEN o ELSE cloud[i]]
Without(cloud, id)  == Restrict(cloud, DOMAIN cloud \ {id})
Activated(cloud, id) == [cloud EXCEPT ![id].active = TRUE]

\* DeleteNetwork succeeds for an existing network that nothing holds on to.
CanDeleteNetwork(cloud, id) ==
  /\ id \in DOMAIN cloud
  /\ \A i \in DOMAIN cloud : cloud[i].net = id => cloud[i].kind \notin Blocking
=============================================================================
