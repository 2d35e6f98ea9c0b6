----------------------------- MODULE AzureStore -----------------------------
(***************************************************************************)
(* The Azure side of a self-managed cluster: the resources ksctl creates,  *)
(* all of them in one resource group and all of them with names derived    *)
(* from the cluster's name; what Azure refuses to do with them; and the    *)
(* record of them (AzureStateCluster) that ksctl keeps.  Pure definitions. *)
(***************************************************************************)
EXTENDS Naturals, Sequences

Role == {"lb", "db", "cp", "wp"}

\* A resource is known by its name: kind and, for what belongs to a machine,
\* the machine's role and number.
Res(kind, role, n) == [kind |-> kind, role |-> role, n |-> n]

Group  == Res("group", "all", 0)
SSHKey == Res("key", "all", 0)
VNet   == Res("vnet", "all", 0)
Subnet == Res("subnet", "all", 0)
NSG(r) == Res("nsg", r, 0)

PublicIP(r, n) == Res("ip", r, n)
NIC(r, n)      == Res("nic", r, n)
VM(r, n)       == Res("vm", r, n)
OSDisk(r, n)   == Res("disk", r, n)

Resource ==
  [kind : {"group", "key", "vnet", "subnet", "nsg", "ip", "nic", "vm", "disk"},
   role : Role \cup {"all"}, n : Nat]

-----------------------------------------------------------------------------
(* Azure                                                                   *)

\* What else in S keeps Azure from deleting r.
UsersOf(S, r) ==
  {u \in S :
     \/ u.kind = "nic" /\ r.kind \in {"vnet", "subnet"}
     \/ u.kind = "nic" /\ r.kind = "nsg" /\ u.role = r.role
     \/ u.kind = "nic" /\ r.kind = "ip" /\ u.role = r.role /\ u.n = r.n
     \/ u.kind = "vm" /\ r.kind \in {"nic", "disk"} /\ u.role = r.role /\ u.n = r.n}

\* CreateOrUpdate of what is there is no error, but a virtual network is put
\* without its subnet.  A machine comes with its disk.
PutIn(S, r) ==
  IF r = VNet THEN (S \ {Subnet}) \cup {r}
  ELSE IF r.kind = "vm" THEN S \cup {r, OSDisk(r.role, r.n)}
  ELSE S \cup {r}

\* Nothing exists outside its group.
PutRefused(S, r) ==
  \/ r # Group /\ Group \notin S
  \/ r = VNet /\ UsersOf(S, r) # {}

\* A group goes with all that is in it.  Deleting what is not there is no
\* error, unless its group is not there.
DeletedFrom(S, r) == IF r.kind = "group" THEN {} ELSE S \ {r}

DeleteRefused(S, r) == Group \notin S \/ UsersOf(S, r) # {}

-----------------------------------------------------------------------------
(* The record                                                              *)

\* vnet, subnet, key and token say whether the name (the token) is set.  ips
\* are the PublicIPNames; nodes stands for Names, DiskNames and
\* NetworkInterfaceNames, appended together and truncated together; addrs is
\* the length of PublicIPs and of PrivateIPs.  The names of the one database
\* and of the one load balancer are the number 0.
Config ==
  [vnet : BOOLEAN, subnet : BOOLEAN, key : BOOLEAN, token : BOOLEAN,
   nsg : SUBSET Role, ips : [Role -> Seq(Nat)], nodes : [Role -> Seq(Nat)],
   addrs : [Role -> Nat]]

EmptyConfig ==
  [vnet |-> FALSE, subnet |-> FALSE, key |-> FALSE, token |-> FALSE, nsg |-> {},
   ips |-> [r \in Role |-> << >>], nodes |-> [r \in Role |-> << >>],
   addrs |-> [r \in Role |-> 0]]

\* The names of the machines of the two planes are appended to lists, those
\* of the load balancer and the database are assigned.
Put(s, r, n) == IF r \in {"cp", "wp"} THEN Append(s, n) ELSE <<n>>

\* Mutant: the machine is put on the record when it has been created, and
\* its address with it.
NotedLate(c, r) ==
  IF r = VNet THEN [c EXCEPT !.vnet = TRUE]
  ELSE IF r = Subnet THEN [c EXCEPT !.subnet = TRUE]
  ELSE IF r.kind = "nsg" THEN [c EXCEPT !.nsg = @ \cup {r.role}]
  ELSE IF r.kind = "vm"
    THEN [c EXCEPT !.addrs[r.role] = IF r.role \in {"cp", "wp"} THEN @ + 1 ELSE 1,
                   !.ips[r.role] = Put(@, r.role, r.n), !.nodes[r.role] = Put(@, r.role, r.n)]
  ELSE c

\* Mutant: the address is put on the record when its machine runs.
NotedAddressLate(c, r) ==
  IF r = VNet THEN [c EXCEPT !.vnet = TRUE]
  ELSE IF r = Subnet THEN [c EXCEPT !.subnet = TRUE]
  ELSE IF r.kind = "nsg" THEN [c EXCEPT !.nsg = @ \cup {r.role}]
  ELSE IF r.kind = "nic" THEN [c EXCEPT !.nodes[r.role] = Put(@, r.role, r.n)]
  ELSE IF r.kind = "vm"
    THEN [c EXCEPT !.addrs[r.role] = IF r.role \in {"cp", "wp"} THEN @ + 1 ELSE 1,
                   !.ips[r.role] = Put(@, r.role, r.n)]
  ELSE c

\* What the process has on record when the call that creates r has returned
\* without an error.  A machine and its disk are put on the record before
\* they are created, when their network interface is there.
Noted(c, r) ==
  IF r = VNet THEN [c EXCEPT !.vnet = TRUE]
  ELSE IF r = Subnet THEN [c EXCEPT !.subnet = TRUE]
  ELSE IF r.kind = "ip" THEN [c EXCEPT !.ips[r.role] = Put(@, r.role, r.n)]
  ELSE IF r.kind = "nsg" THEN [c EXCEPT !.nsg = @ \cup {r.role}]
  ELSE IF r.kind = "nic" THEN [c EXCEPT !.nodes[r.role] = Put(@, r.role, r.n)]
  ELSE IF r.kind = "vm"
    THEN [c EXCEPT !.addrs[r.role] = IF r.role \in {"cp", "wp"} THEN @ + 1 ELSE 1]
  ELSE c

InSeq(x, s) == \E i \in DOMAIN s : s[i] = x

\* The record names r.  The group's name is not a matter of record.
Names(c, r) ==
  \/ r.kind = "group"
  \/ r.kind = "key" /\ c.key
  \/ r.kind = "vnet" /\ c.vnet
  \/ r.kind = "subnet" /\ c.vnet /\ c.subnet
  \/ r.kind = "nsg" /\ r.role \in c.nsg
  \/ r.kind = "ip" /\ r.role \in Role /\ InSeq(r.n, c.ips[r.role])
  \/ r.kind \in {"nic", "vm", "disk"} /\ r.role \in Role /\ InSeq(r.n, c.nodes[r.role])

-----------------------------------------------------------------------------
(* What the functions of the source go through, in order                   *)

\* createLoadBalancer, createDatabase, createControlPlane, createWorkerPlane.
Plan(c, r, n) ==
  (IF c.vnet /\ c.subnet THEN << >> ELSE <<VNet, Subnet>>)
  \o <<PublicIP(r, n)>>
  \o (IF r \in c.nsg THEN << >> ELSE <<NSG(r)>>)
  \o <<NIC(r, n), VM(r, n)>>

\* The order of the groups in DeleteAllVMs and its likes.
Each(kind, names) ==
  [i \in DOMAIN names["cp"] |-> Res(kind, "cp", names["cp"][i])]
  \o [i \in DOMAIN names["wp"] |-> Res(kind, "wp", names["wp"][i])]
  \o [i \in DOMAIN names["db"] |-> Res(kind, "db", names["db"][i])]
  \o [i \in DOMAIN names["lb"] |-> Res(kind, "lb", names["lb"][i])]

GroupOf(c, r) == IF r \in c.nsg THEN <<NSG(r)>> ELSE << >>

GroupsOf(c) == GroupOf(c, "cp") \o GroupOf(c, "wp") \o GroupOf(c, "db") \o GroupOf(c, "lb")

\* Mutant: the security groups go before the interfaces that use them.
TeardownGroupsFirst(c) ==
  Each("vm", c.nodes) \o Each("disk", c.nodes) \o GroupsOf(c) \o Each("nic", c.nodes)
  \o Each("ip", c.ips) \o <<Subnet, VNet, SSHKey, Group>>

\* Mutant: the resource group is left alone.
TeardownKeepsGroup(c) ==
  Each("vm", c.nodes) \o Each("disk", c.nodes) \o Each("nic", c.nodes) \o GroupsOf(c)
  \o Each("ip", c.ips) \o <<Subnet, VNet, SSHKey>>

\* haDeleteClusterHandler.
Teardown(c) ==
  Each("vm", c.nodes) \o Each("disk", c.nodes) \o Each("nic", c.nodes) \o GroupsOf(c)
  \o Each("ip", c.ips) \o <<Subnet, VNet, SSHKey, Group>>

\* One round of DeleteSomeWorkerNodes: every list is asked for the name at
\* the position of the last machine.
Strip(c) ==
  LET last == Len(c.nodes["wp"])
      w    == c.nodes["wp"][last] IN
  <<VM("wp", w), OSDisk("wp", w), NIC("wp", w), PublicIP("wp", c.ips["wp"][last])>>

Front(s, k) == SubSeq(s, 1, k)

\* The end of the round.  PrivateIPs becomes a prefix of PublicIPs.
Trimmed(c) ==
  LET k == Len(c.nodes["wp"]) - 1 IN
  [c EXCEPT !.nodes["wp"] = Front(@, k), !.ips["wp"] = Front(@, k), !.addrs["wp"] = k]
=============================================================================
