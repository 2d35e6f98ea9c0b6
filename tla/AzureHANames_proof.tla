--------------------------- MODULE AzureHANames_proof --------------------------
(***************************************************************************)
(* Proofs about AzureHA, for all its constants: while calls only fail,     *)
(* everything that exists is named by the record, and a deletion goes      *)
(* through it in an order that never asks for what is still in use.        *)
(***************************************************************************)
EXTENDS AzureHANodes_proof

\* The record c accounts for r: it names it, but for the addresses of workers.
Accounts(c, r) == Names(c, r) \/ (r.kind = "ip" /\ r.role = "wp")

AllAccounted(c, S) == \A r \in S : Accounts(c, r)

\* There is at most one address of a load balancer and one of a database.
LoneIPs(c) == \A r \in Role \ Planes : c.ips[r] \in {<< >>, <<0>>}

\* The virtual network comes before its subnet.
NetFirst(c, todo) == c.vnet \/ Head(todo) = VNet \/ ~InSeq(Subnet, todo)

\* On the list of a deletion nothing comes before the machines, and nothing
\* but them and their disks before the interfaces.
UsersFirst(todo) ==
  \A i \in 1..Len(todo) : \A k \in 1..i :
    /\ todo[i].kind = "vm" => todo[k].kind = "vm"
    /\ todo[i].kind = "nic" => todo[k].kind \in {"vm", "disk", "nic"}

UsersListed(S, todo) == \A r \in S : r.kind \in {"vm", "nic"} => InSeq(r, todo)

\* When only calls have failed: the record accounts for what exists, the
\* interface of the worker that goes from the record is gone, and what may
\* use something else has still to be deleted.
UInv ==
  /\ LoneIPs(Info) /\ LoneIPs(job.mem)
  /\ pc = "build" => NetFirst(job.mem, job.todo)
  /\ pc = "wipe" => UsersFirst(job.todo)
  /\ seen \subseteq {"api"} =>
       /\ AllAccounted(Remembered, live)
       /\ pc = "trim" \/ (pc = "strip" /\ Head(job.todo).kind = "ip") => NIC("wp", LastWorker(Info)) \notin live
       /\ pc = "wipe" => UsersListed(live, job.todo)

-----------------------------------------------------------------------------
(* The list of a deletion                                                  *)

KindsOf(s, V) == \A i \in 1..Len(s) : s[i].kind \in V

LEMMA ConcatKinds ==
  ASSUME NEW s \in Seq(Resource), NEW t \in Seq(Resource), NEW V, NEW W, KindsOf(s, V), KindsOf(t, W)
  PROVE  s \o t \in Seq(Resource) /\ KindsOf(s \o t, V \cup W)
<1>1. /\ s \o t \in Seq(Resource) /\ Len(s \o t) = Len(s) + Len(t)
      /\ \A i \in 1..Len(s) + Len(t) : (s \o t)[i] = IF i <= Len(s) THEN s[i] ELSE t[i - Len(s)]
  BY ConcatProperties
<1>2. Len(s) \in Nat /\ Len(t) \in Nat
  BY LenProperties
<1>3. \A i \in 1..Len(s) + Len(t) : (i <= Len(s) => i \in 1..Len(s)) /\ (~(i <= Len(s)) => i - Len(s) \in 1..Len(t))
  BY <1>2
<1>4. QED
  BY <1>1, <1>3 DEF KindsOf

\* What may follow the users of a list without getting in their way.
LEMMA ConcatUsersFirst ==
  ASSUME NEW s \in Seq(Resource), NEW t \in Seq(Resource), NEW V, UsersFirst(s), KindsOf(t, V), "vm" \notin V,
         "nic" \in V => V \subseteq {"disk", "nic"} /\ KindsOf(s, {"vm", "disk", "nic"})
  PROVE  UsersFirst(s \o t)
<1>1. /\ Len(s \o t) = Len(s) + Len(t)
      /\ \A i \in 1..Len(s) + Len(t) : (s \o t)[i] = IF i <= Len(s) THEN s[i] ELSE t[i - Len(s)]
  BY ConcatProperties
<1>2. Len(s) \in Nat /\ Len(t) \in Nat
  BY LenProperties
<1>3. \A i \in 1..Len(s) + Len(t) : (i <= Len(s) => i \in 1..Len(s)) /\ (~(i <= Len(s)) => i - Len(s) \in 1..Len(t))
  BY <1>2
<1>4. SUFFICES ASSUME NEW i \in 1..Len(s) + Len(t), NEW k \in 1..i
               PROVE  /\ (s \o t)[i].kind = "vm" => (s \o t)[k].kind = "vm"
                      /\ (s \o t)[i].kind = "nic" => (s \o t)[k].kind \in {"vm", "disk", "nic"}
  BY <1>1 DEF UsersFirst
<1>5. k \in 1..Len(s) + Len(t) /\ (i <= Len(s) => k <= Len(s))
  BY <1>2
<1>6. CASE i <= Len(s)
  BY <1>1, <1>3, <1>4, <1>5, <1>6 DEF UsersFirst
<1>7. CASE ~(i <= Len(s))
  <2>1. (s \o t)[i].kind \in V
    BY <1>1, <1>3, <1>7 DEF KindsOf
  <2>2. "nic" \in V => (s \o t)[k].kind \in {"vm", "disk", "nic"}
    BY <1>1, <1>3, <1>5 DEF KindsOf
  <2>3. QED
    BY <2>1, <2>2
<1>8. QED
  BY <1>6, <1>7

LEMMA EachKind ==
  ASSUME NEW kind \in {"vm", "disk", "nic", "ip"}, NEW names \in [Role -> Seq(Nat)]
  PROVE  /\ Each(kind, names) \in Seq(Resource) /\ KindsOf(Each(kind, names), {kind})
         /\ \A r \in Role, m \in Nat : InSeq(m, names[r]) => InSeq(Res(kind, r, m), Each(kind, names))
<1> DEFINE E(r) == [i \in DOMAIN names[r] |-> Res(kind, r, names[r][i])]
<1>1. ASSUME NEW r \in Role
      PROVE  /\ E(r) \in Seq(Resource) /\ KindsOf(E(r), {kind})
             /\ \A m \in Nat : InSeq(m, names[r]) => InSeq(Res(kind, r, m), E(r))
  <2>1. names[r] \in Seq(Nat)
    OBVIOUS
  <2>2. Len(names[r]) \in Nat /\ DOMAIN names[r] = 1..Len(names[r]) /\ \A i \in 1..Len(names[r]) : names[r][i] \in Nat
    BY <2>1, LenProperties, ElementOfSeq
  <2>3. \A i \in DOMAIN names[r] : Res(kind, r, names[r][i]) \in Resource
    BY <2>2 DEF Res, Resource
  <2>4. E(r) \in [1..Len(names[r]) -> Resource]
    BY <2>2, <2>3
  <2>5. E(r) \in Seq(Resource)
    BY <2>2, <2>4, SeqDef
  <2>6. DOMAIN E(r) = 1..Len(E(r)) /\ DOMAIN E(r) = DOMAIN names[r]
    BY <2>5, LenProperties
  <2>7. \A i \in DOMAIN names[r] : E(r)[i] = Res(kind, r, names[r][i]) /\ E(r)[i].kind = kind
    BY DEF Res
  <2> HIDE DEF E
  <2>8. KindsOf(E(r), {kind})
    BY <2>6, <2>7 DEF KindsOf
  <2>9. \A m \in Nat : InSeq(m, names[r]) => InSeq(Res(kind, r, m), E(r))
    BY <2>6, <2>7 DEF InSeq
  <2>10. QED
    BY <2>5, <2>8, <2>9
<1>2. Each(kind, names) = E("cp") \o E("wp") \o E("db") \o E("lb")
  BY DEF Each
<1>3. "cp" \in Role /\ "wp" \in Role /\ "db" \in Role /\ "lb" \in Role
  BY DEF Role
<1> HIDE DEF E
<1>4. /\ E("cp") \o E("wp") \in Seq(Resource) /\ KindsOf(E("cp") \o E("wp"), {kind} \cup {kind})
  BY <1>1, <1>3, ConcatKinds
<1>5. /\ E("cp") \o E("wp") \o E("db") \in Seq(Resource)
      /\ KindsOf(E("cp") \o E("wp") \o E("db"), {kind} \cup {kind} \cup {kind})
  BY <1>1, <1>3, <1>4, ConcatKinds
<1>6. /\ E("cp") \o E("wp") \o E("db") \o E("lb") \in Seq(Resource)
      /\ KindsOf(E("cp") \o E("wp") \o E("db") \o E("lb"), {kind} \cup {kind} \cup {kind} \cup {kind})
  BY <1>1, <1>3, <1>5, ConcatKinds
<1>7. {kind} \cup {kind} \cup {kind} \cup {kind} = {kind}
  OBVIOUS
<1>8. ASSUME NEW x
      PROVE  /\ InSeq(x, E("cp")) \/ InSeq(x, E("wp")) => InSeq(x, E("cp") \o E("wp"))
             /\ InSeq(x, E("cp") \o E("wp")) \/ InSeq(x, E("db")) => InSeq(x, E("cp") \o E("wp") \o E("db"))
             /\ InSeq(x, E("cp") \o E("wp") \o E("db")) \/ InSeq(x, E("lb"))
                => InSeq(x, E("cp") \o E("wp") \o E("db") \o E("lb"))
  BY <1>1, <1>3, <1>4, <1>5, InConcat
<1>9. \A r \in Role, m \in Nat : InSeq(m, names[r]) => InSeq(Res(kind, r, m), Each(kind, names))
  <2>1. SUFFICES ASSUME NEW r \in Role, NEW m \in Nat, InSeq(m, names[r])
                 PROVE  InSeq(Res(kind, r, m), Each(kind, names))
    OBVIOUS
  <2>2. InSeq(Res(kind, r, m), E(r))
    BY <1>1, <2>1
  <2>3. QED
    BY <1>2, <1>8, <2>2 DEF Role
<1>10. QED
  BY <1>2, <1>6, <1>7, <1>9

LEMMA GroupsKind ==
  ASSUME NEW c
  PROVE  GroupsOf(c) \in Seq(Resource) /\ KindsOf(GroupsOf(c), {"nsg"})
<1>1. ASSUME NEW r \in Role
      PROVE  GroupOf(c, r) \in Seq(Resource) /\ KindsOf(GroupOf(c, r), {"nsg"})
  <2>1. NSG(r) \in Resource /\ NSG(r).kind = "nsg"
    BY DEF NSG, Res, Resource
  <2>2. CASE r \in c.nsg
    BY <2>1, <2>2 DEF GroupOf, KindsOf
  <2>3. CASE r \notin c.nsg
    BY <2>3 DEF GroupOf, KindsOf
  <2>4. QED
    BY <2>2, <2>3
<1> DEFINE a == GroupOf(c, "cp")
           b == GroupOf(c, "wp")
           d == GroupOf(c, "db")
           e == GroupOf(c, "lb")
<1>2. /\ a \in Seq(Resource) /\ KindsOf(a, {"nsg"}) /\ b \in Seq(Resource) /\ KindsOf(b, {"nsg"})
      /\ d \in Seq(Resource) /\ KindsOf(d, {"nsg"}) /\ e \in Seq(Resource) /\ KindsOf(e, {"nsg"})
  BY <1>1 DEF Role
<1>3. GroupsOf(c) = a \o b \o d \o e
  BY DEF GroupsOf
<1> HIDE DEF a, b, d, e
<1>4. a \o b \in Seq(Resource) /\ KindsOf(a \o b, {"nsg"} \cup {"nsg"})
  BY <1>2, ConcatKinds
<1>5. a \o b \o d \in Seq(Resource) /\ KindsOf(a \o b \o d, {"nsg"} \cup {"nsg"} \cup {"nsg"})
  BY <1>2, <1>4, ConcatKinds
<1>6. /\ a \o b \o d \o e \in Seq(Resource)
      /\ KindsOf(a \o b \o d \o e, {"nsg"} \cup {"nsg"} \cup {"nsg"} \cup {"nsg"})
  BY <1>2, <1>5, ConcatKinds
<1>7. {"nsg"} \cup {"nsg"} \cup {"nsg"} \cup {"nsg"} = {"nsg"}
  OBVIOUS
<1>8. QED
  BY <1>3, <1>6, <1>7

\* A deletion lists the machines first, then their interfaces, and every one
\* of them that the record names.
LEMMA TeardownInOrder ==
  ASSUME NEW c \in Record
  PROVE  /\ UsersFirst(Teardown(c))
         /\ \A r \in Resource : r.kind \in {"vm", "nic"} /\ Names(c, r) => InSeq(r, Teardown(c))
<1> DEFINE v == Each("vm", c.nodes)
           d == Each("disk", c.nodes)
           n == Each("nic", c.nodes)
           g == GroupsOf(c)
           p == Each("ip", c.ips)
           e == <<Subnet, VNet, SSHKey, Group>>
           users == {"vm", "disk", "nic"}
<1>1. c.nodes \in [Role -> Seq(Nat)] /\ c.ips \in [Role -> Seq(Nat)]
  BY DEF Record, Config
<1>2. /\ v \in Seq(Resource) /\ KindsOf(v, {"vm"}) /\ d \in Seq(Resource) /\ KindsOf(d, {"disk"})
      /\ n \in Seq(Resource) /\ KindsOf(n, {"nic"}) /\ p \in Seq(Resource) /\ KindsOf(p, {"ip"})
      /\ g \in Seq(Resource) /\ KindsOf(g, {"nsg"})
  BY <1>1, EachKind, GroupsKind
<1>3. e \in Seq(Resource) /\ KindsOf(e, {"subnet", "vnet", "key", "group"})
  <2>1. "lb" \in Role /\ 0 \in Nat
    BY DEF Role
  <2>2. {Subnet, VNet, SSHKey, Group} \subseteq Resource
    BY <2>1, NamesAreResources
  <2>3. Len(e) = 4 /\ e[1] = Subnet /\ e[2] = VNet /\ e[3] = SSHKey /\ e[4] = Group
    OBVIOUS
  <2>4. \A i \in 1..4 : i = 1 \/ i = 2 \/ i = 3 \/ i = 4
    OBVIOUS
  <2>5. e \in Seq(Resource)
    BY <2>2
  <2> HIDE DEF e
  <2>6. KindsOf(e, {"subnet", "vnet", "key", "group"})
    BY <2>3, <2>4 DEF KindsOf, Subnet, VNet, SSHKey, Group, Res
  <2>7. QED
    BY <2>5, <2>6
<1>4. Teardown(c) = v \o d \o n \o g \o p \o e
  BY DEF Teardown
<1>5. ASSUME NEW r \in Resource, Names(c, r)
      PROVE  (r.kind = "vm" => InSeq(r, v)) /\ (r.kind = "nic" => InSeq(r, n))
  <2>1. r = Res(r.kind, r.role, r.n) /\ r.n \in Nat
    BY DEF Res, Resource
  <2>2. r.kind \in {"vm", "nic"} => r.role \in Role /\ InSeq(r.n, c.nodes[r.role])
    BY <1>5 DEF Names
  <2>3. QED
    BY <1>1, <2>1, <2>2, EachKind
<1> HIDE DEF v, d, n, g, p, e
<1>6. UsersFirst(v)
  BY <1>2, LenProperties DEF UsersFirst, KindsOf
<1>7. /\ v \o d \in Seq(Resource) /\ KindsOf(v \o d, {"vm"} \cup {"disk"}) /\ UsersFirst(v \o d)
  BY <1>2, <1>6, ConcatKinds, ConcatUsersFirst
<1>8. v \o d \o n \in Seq(Resource) /\ UsersFirst(v \o d \o n)
  <2>1. KindsOf(v \o d, users)
    BY <1>7 DEF KindsOf
  <2>2. QED
    BY <1>2, <1>7, <2>1, ConcatKinds, ConcatUsersFirst
<1>9. v \o d \o n \o g \in Seq(Resource) /\ UsersFirst(v \o d \o n \o g)
  <2>1. v \o d \o n \o g \in Seq(Resource)
    BY <1>2, <1>8, ConcatProperties
  <2>2. QED
    BY <1>2, <1>8, <2>1, ConcatUsersFirst
<1>10. v \o d \o n \o g \o p \in Seq(Resource) /\ UsersFirst(v \o d \o n \o g \o p)
  <2>1. v \o d \o n \o g \o p \in Seq(Resource)
    BY <1>2, <1>9, ConcatProperties
  <2>2. QED
    BY <1>2, <1>9, <2>1, ConcatUsersFirst
<1>11. UsersFirst(v \o d \o n \o g \o p \o e)
  BY <1>3, <1>10, ConcatUsersFirst
<1>12. ASSUME NEW x, InSeq(x, v) \/ InSeq(x, n)
       PROVE  InSeq(x, v \o d \o n \o g \o p \o e)
  <2>1. InSeq(x, v) => InSeq(x, v \o d)
    BY <1>2, InConcat
  <2>2. InSeq(x, v \o d \o n)
    BY <1>2, <1>7, <1>12, <2>1, InConcat
  <2>3. InSeq(x, v \o d \o n \o g)
    BY <1>2, <1>8, <2>2, InConcat
  <2>4. InSeq(x, v \o d \o n \o g \o p)
    BY <1>2, <1>9, <2>3, InConcat
  <2>5. QED
    BY <1>3, <1>10, <2>4, InConcat
<1>13. QED
  BY <1>4, <1>5, <1>11, <1>12

-----------------------------------------------------------------------------
(* What the record accounts for                                            *)

\* The record c2 accounts for all that c accounts for.
Grows(c, c2) == \A r \in Resource : Accounts(c, r) => Accounts(c2, r)

LEMMA MoreAccounted ==
  ASSUME NEW c, NEW c2, c.key => c2.key, c.vnet => c2.vnet, c.subnet => c2.subnet, c.nsg \subseteq c2.nsg,
         \A q \in Role, m \in Nat : InSeq(m, c.ips[q]) => InSeq(m, c2.ips[q]),
         \A q \in Role, m \in Nat : InSeq(m, c.nodes[q]) => InSeq(m, c2.nodes[q])
  PROVE  Grows(c, c2)
BY DEF Grows, Accounts, Names, Resource

LEMMA SameAccounted ==
  ASSUME NEW c
  PROVE  Grows(c, c)
BY DEF Grows

LEMMA EmptyLone == LoneIPs(EmptyConfig)
BY DEF LoneIPs, EmptyConfig

\* What is noted of the network.
LEMMA NetworkAccounted ==
  ASSUME NEW c \in Record, LoneIPs(c), NEW q \in Role, NEW x \in {VNet, Subnet, NSG(q)}, x = Subnet => c.vnet
  PROVE  LET c2 == Noted(c, x) IN
         LoneIPs(c2) /\ Grows(c, c2) /\ Accounts(c2, x) /\ (c.vnet => c2.vnet) /\ (x = VNet => c2.vnet)
<1> DEFINE c2 == Noted(c, x)
<1>1. c2.nodes = c.nodes /\ c2.ips = c.ips /\ c \in Config
  BY NotedNetwork DEF Record
<1>2. CASE x = VNet
  <2>1. c2 = [c EXCEPT !.vnet = TRUE]
    BY <1>2 DEF Noted
  <2>2. c2.vnet /\ c2.subnet = c.subnet /\ c2.key = c.key /\ c2.nsg = c.nsg
    BY <1>1, <2>1 DEF Config
  <2> HIDE DEF c2
  <2>3. Accounts(c2, x)
    BY <1>2, <2>2 DEF Accounts, Names, VNet, Res
  <2>4. QED
    BY <1>1, <2>2, <2>3, MoreAccounted DEF LoneIPs, c2
<1>3. CASE x = Subnet
  <2>1. c2 = [c EXCEPT !.subnet = TRUE] /\ x # VNet
    BY <1>3 DEF Noted, VNet, Subnet, Res
  <2>2. c2.subnet /\ c2.vnet = c.vnet /\ c2.key = c.key /\ c2.nsg = c.nsg
    BY <1>1, <2>1 DEF Config
  <2> HIDE DEF c2
  <2>3. Accounts(c2, x)
    BY <1>3, <2>2 DEF Accounts, Names, Subnet, Res
  <2>4. QED
    BY <1>1, <2>1, <2>2, <2>3, MoreAccounted DEF LoneIPs, c2
<1>4. CASE x = NSG(q)
  <2>1. c2 = [c EXCEPT !.nsg = c.nsg \cup {q}] /\ x # VNet
    BY <1>4 DEF Noted, VNet, Subnet, NSG, Res
  <2>2. c2.nsg = c.nsg \cup {q} /\ c2.vnet = c.vnet /\ c2.key = c.key /\ c2.subnet = c.subnet
    BY <1>1, <2>1 DEF Config
  <2> HIDE DEF c2
  <2>3. Accounts(c2, x)
    BY <1>4, <2>2 DEF Accounts, Names, NSG, Res
  <2>4. QED
    BY <1>1, <2>1, <2>2, <2>3, MoreAccounted DEF LoneIPs, c2
<1>5. QED
  BY <1>2, <1>3, <1>4

\* What is noted of an address.
LEMMA IPAccounted ==
  ASSUME NEW c \in Record, LoneIPs(c), NEW q \in Role, NEW n \in Nat, q \notin Planes => n = 0
  PROVE  LET c2 == Noted(c, PublicIP(q, n)) IN
         LoneIPs(c2) /\ Grows(c, c2) /\ Accounts(c2, PublicIP(q, n)) /\ c2.vnet = c.vnet
<1> DEFINE t  == Put(c.ips[q], q, n)
           c2 == Noted(c, PublicIP(q, n))
<1>1. c2 = [c EXCEPT !.ips = [c.ips EXCEPT ![q] = t]] /\ c \in Config
  BY DEF Noted, Record, VNet, Subnet, PublicIP, Res
<1>2. c.ips[q] \in Seq(Nat)
  BY RecordLists
<1>3. /\ InSeq(n, t) /\ (q \notin Planes => t = <<0>>)
      /\ q \in Planes => \A m \in Nat : InSeq(m, c.ips[q]) => InSeq(m, t)
  BY <1>2, PutAppends
<1> HIDE DEF t, c2
<1>4. /\ c2.nodes = c.nodes /\ c2.key = c.key /\ c2.vnet = c.vnet /\ c2.subnet = c.subnet /\ c2.nsg = c.nsg
      /\ c2.ips = [c.ips EXCEPT ![q] = t] /\ DOMAIN c.ips = Role
  BY <1>1 DEF Config
<1>5. q \notin Planes => c.ips[q] \in {<< >>, <<0>>}
  BY DEF LoneIPs
<1>6. \A m \in Nat : InSeq(m, c.ips[q]) => InSeq(m, t)
  BY <1>3, <1>5 DEF InSeq
<1>7. LoneIPs(c2)
  BY <1>3, <1>4 DEF LoneIPs
<1>8. Grows(c, c2)
  BY <1>4, <1>6, MoreAccounted
<1>9. Accounts(c2, PublicIP(q, n))
  BY <1>3, <1>4 DEF Accounts, Names, PublicIP, Res
<1>10. QED
  BY <1>4, <1>7, <1>8, <1>9 DEF c2

\* What is noted of a machine: when its interface is there, and when it runs.
LEMMA MachineAccounted ==
  ASSUME NEW c \in Record, LoneIPs(c), NEW q \in Role, NEW n \in Nat, q \notin Planes => n = 0
  PROVE  /\ NICRoom(c, q) =>
              LET c2 == Noted(c, NIC(q, n)) IN
              LoneIPs(c2) /\ Grows(c, c2) /\ Accounts(c2, NIC(q, n)) /\ c2.vnet = c.vnet
         /\ VMNoted(c, q, n) =>
              LET c2 == Noted(c, VM(q, n)) IN
              LoneIPs(c2) /\ Grows(c, c2) /\ Accounts(c2, VM(q, n)) /\ Accounts(c2, OSDisk(q, n)) /\ c2.vnet = c.vnet
<1>1. ASSUME NICRoom(c, q)
      PROVE  LET c2 == Noted(c, NIC(q, n)) IN
             LoneIPs(c2) /\ Grows(c, c2) /\ Accounts(c2, NIC(q, n)) /\ c2.vnet = c.vnet
  <2> DEFINE t  == Put(c.nodes[q], q, n)
             c2 == Noted(c, NIC(q, n))
  <2>1. c2 = [c EXCEPT !.nodes = [c.nodes EXCEPT ![q] = t]] /\ c \in Config
    BY DEF Noted, Record, VNet, Subnet, NIC, Res
  <2>2. /\ VMNoted(c2, q, n)
        /\ \A p \in Role, m \in Nat : InSeq(m, c.nodes[p]) => InSeq(m, c2.nodes[p])
    BY <1>1, NotedNIC
  <2> HIDE DEF t, c2
  <2>3. c2.ips = c.ips /\ c2.key = c.key /\ c2.vnet = c.vnet /\ c2.subnet = c.subnet /\ c2.nsg = c.nsg
    BY <2>1 DEF Config
  <2>4. Accounts(c2, NIC(q, n))
    BY <2>2 DEF VMNoted, Accounts, Names, NIC, Res
  <2>5. LoneIPs(c2) /\ Grows(c, c2)
    BY <2>2, <2>3, MoreAccounted DEF LoneIPs
  <2>6. QED
    BY <2>3, <2>4, <2>5 DEF c2
<1>2. ASSUME VMNoted(c, q, n)
      PROVE  LET c2 == Noted(c, VM(q, n)) IN
             LoneIPs(c2) /\ Grows(c, c2) /\ Accounts(c2, VM(q, n)) /\ Accounts(c2, OSDisk(q, n)) /\ c2.vnet = c.vnet
  <2> DEFINE k  == IF q \in Planes THEN c.addrs[q] + 1 ELSE 1
             c2 == Noted(c, VM(q, n))
  <2>1. c2 = [c EXCEPT !.addrs = [c.addrs EXCEPT ![q] = k]] /\ c \in Config
    BY DEF Noted, Record, VNet, Subnet, VM, Res, Planes
  <2> HIDE DEF k, c2
  <2>2. /\ c2.ips = c.ips /\ c2.nodes = c.nodes
        /\ c2.key = c.key /\ c2.vnet = c.vnet /\ c2.subnet = c.subnet /\ c2.nsg = c.nsg
    BY <2>1 DEF Config
  <2>3. InSeq(n, c2.nodes[q])
    BY <1>2, <2>2 DEF VMNoted
  <2>4. Accounts(c2, VM(q, n)) /\ Accounts(c2, OSDisk(q, n))
    BY <2>3 DEF Accounts, Names, VM, OSDisk, Res
  <2>5. LoneIPs(c2) /\ Grows(c, c2)
    BY <2>2, MoreAccounted DEF LoneIPs
  <2>6. QED
    BY <2>2, <2>4, <2>5 DEF c2
<1>3. QED
  BY <1>1, <1>2

\* A plan starts with the network when the record does not have it all.
LEMMA PlanNetFirst ==
  ASSUME NEW c, NEW q \in Role, NEW n \in Nat
  PROVE  NetFirst(c, Plan(c, q, n))
<1>1. CASE c.vnet
  BY <1>1 DEF NetFirst
<1>2. CASE ~c.vnet
  <2> DEFINE a == <<VNet, Subnet>>
             b == <<PublicIP(q, n)>>
             d == IF q \in c.nsg THEN << >> ELSE <<NSG(q)>>
             e == <<NIC(q, n), VM(q, n)>>
  <2>1. Plan(c, q, n) = a \o b \o d \o e
    BY <1>2 DEF Plan
  <2>2. a \in Seq(Resource) /\ b \in Seq(Resource) /\ d \in Seq(Resource) /\ e \in Seq(Resource)
    <3>1. /\ VNet \in Resource /\ Subnet \in Resource /\ PublicIP(q, n) \in Resource /\ NSG(q) \in Resource
          /\ NIC(q, n) \in Resource /\ VM(q, n) \in Resource
      BY NamesAreResources
    <3>2. QED
      BY <3>1
  <2>3. Len(a) = 2 /\ a[1] = VNet
    OBVIOUS
  <2> HIDE DEF a, b, d, e
  <2>4. ASSUME NEW s \in Seq(Resource), NEW t \in Seq(Resource), Len(s) >= 1
        PROVE  s \o t \in Seq(Resource) /\ Len(s \o t) >= 1 /\ (s \o t)[1] = s[1]
    <3>1. /\ s \o t \in Seq(Resource) /\ Len(s \o t) = Len(s) + Len(t)
          /\ \A i \in 1..Len(s) + Len(t) : (s \o t)[i] = IF i <= Len(s) THEN s[i] ELSE t[i - Len(s)]
      BY ConcatProperties
    <3>2. Len(s) \in Nat /\ Len(t) \in Nat
      BY LenProperties
    <3>3. 1 \in 1..Len(s) + Len(t)
      BY <2>4, <3>2
    <3>4. QED
      BY <2>4, <3>1, <3>2, <3>3
  <2>5. a \o b \in Seq(Resource) /\ Len(a \o b) >= 1 /\ (a \o b)[1] = VNet
    <3>1. Len(a) >= 1
      BY <2>3
    <3>2. QED
      BY <2>2, <2>3, <2>4, <3>1
  <2>6. a \o b \o d \in Seq(Resource) /\ Len(a \o b \o d) >= 1 /\ (a \o b \o d)[1] = VNet
    BY <2>2, <2>4, <2>5
  <2>7. a \o b \o d \o e \in Seq(Resource) /\ (a \o b \o d \o e)[1] = VNet /\ Len(a \o b \o d \o e) >= 1
    BY <2>2, <2>4, <2>6
  <2>8. Head(a \o b \o d \o e) = VNet
    <3>1. a \o b \o d \o e # << >>
      BY <2>7
    <3>2. QED
      BY <2>7, <3>1, HeadTailProperties
  <2>9. QED
    BY <2>1, <2>8 DEF NetFirst
<1>3. QED
  BY <1>1, <1>2

\* What is created next of a machine is noted, and what is left still starts
\* with the network.
LEMMA BuildAccounts ==
  ASSUME RInv, UInv, pc = "build"
  PROVE  LET x  == Head(job.todo)
             c2 == Noted(job.mem, x) IN
         /\ LoneIPs(c2) /\ Grows(job.mem, c2) /\ Accounts(c2, x)
         /\ x.kind = "vm" => Accounts(c2, OSDisk(x.role, x.n))
         /\ Tail(job.todo) # << >> => NetFirst(c2, Tail(job.todo))
<1> DEFINE x  == Head(job.todo)
           q  == job.role
           n  == job.n
           c  == job.mem
           c2 == Noted(c, x)
<1>1. /\ c \in Record /\ LoneIPs(c) /\ q \in Role /\ n \in Nat /\ (q \notin Planes => n = 0)
      /\ Building(c, q, n, job.todo) /\ job.todo \in Seq(Resource) /\ job.todo # << >>
      /\ NetFirst(c, job.todo)
  BY DEF RInv, UInv, Building
<1>2. \/ x = VM(q, n) /\ VMNoted(c, q, n)
      \/ x = NIC(q, n) /\ NICRoom(c, q)
      \/ x \in {VNet, Subnet, PublicIP(q, n), NSG(q)}
  BY <1>1, BuildingGoesOn
<1>3. x = Subnet => c.vnet
  <2>1. SUFFICES ASSUME x = Subnet
                 PROVE  c.vnet
    OBVIOUS
  <2>2. InSeq(Subnet, job.todo)
    <3>1. job.todo[1] = x /\ 1 \in DOMAIN job.todo
      BY <1>1, HeadTailProperties, EmptyLen, LenProperties
    <3>2. QED
      BY <2>1, <3>1 DEF InSeq
  <2>3. Subnet # VNet
    BY DEF Subnet, VNet, Res
  <2>4. QED
    BY <1>1, <2>1, <2>2, <2>3 DEF NetFirst
<1> HIDE DEF q, n, c, x, c2
<1>4. /\ LoneIPs(c2) /\ Grows(c, c2) /\ Accounts(c2, x) /\ (c.vnet => c2.vnet) /\ (x = VNet => c2.vnet)
      /\ x.kind = "vm" => Accounts(c2, OSDisk(x.role, x.n))
  <2>1. CASE x = VM(q, n) /\ VMNoted(c, q, n)
    <3>1. x # VNet /\ x.role = q /\ x.n = n
      BY <2>1 DEF VM, VNet, Res
    <3>2. QED
      BY <1>1, <2>1, <3>1, MachineAccounted DEF c2
  <2>2. CASE x = NIC(q, n) /\ NICRoom(c, q)
    <3>1. x # VNet /\ x.kind # "vm"
      BY <2>2 DEF NIC, VNet, Res
    <3>2. QED
      BY <1>1, <2>2, <3>1, MachineAccounted DEF c2
  <2>3. CASE x = PublicIP(q, n)
    <3>1. x # VNet /\ x.kind # "vm"
      BY <2>3 DEF PublicIP, VNet, Res
    <3>2. QED
      BY <1>1, <2>3, <3>1, IPAccounted DEF c2
  <2>4. CASE x \in {VNet, Subnet, NSG(q)}
    <3>1. x.kind # "vm"
      BY <2>4 DEF Subnet, NSG, VNet, Res
    <3>2. QED
      BY <1>1, <1>3, <2>4, <3>1, NetworkAccounted DEF c2
  <2>5. QED
    BY <1>2, <2>1, <2>2, <2>3, <2>4
<1>5. Tail(job.todo) # << >> => NetFirst(c2, Tail(job.todo))
  <2>1. ASSUME Tail(job.todo) # << >>, InSeq(Subnet, Tail(job.todo))
        PROVE  InSeq(Subnet, job.todo)
    <3>1. PICK k \in Nat : k = Len(job.todo) /\ k # 0
      BY <1>1, EmptyLen
    <3>2. /\ Tail(job.todo) \in Seq(Resource) /\ Len(Tail(job.todo)) = k - 1
          /\ \A m \in 1..k - 1 : Tail(job.todo)[m] = job.todo[m + 1]
      BY <1>1, <3>1, HeadTailProperties
    <3>3. DOMAIN Tail(job.todo) = 1..k - 1 /\ DOMAIN job.todo = 1..k
      BY <1>1, <3>1, <3>2, LenProperties
    <3>4. \A m \in 1..k - 1 : m + 1 \in 1..k
      BY <3>1
    <3>5. QED
      BY <2>1, <3>2, <3>3, <3>4 DEF InSeq
  <2>2. QED
    BY <1>1, <1>4, <2>1 DEF NetFirst, x
<1>6. QED
  BY <1>4, <1>5 DEF c, c2, x

-----------------------------------------------------------------------------
(* Kinds of steps                                                          *)

LEMMA SeenMore ==
  ASSUME NoHit \/ \E f \in FaultKind : Hit(f)
  PROVE  seen \subseteq seen'
BY DEF NoHit, Hit

\* A call to create r has no effect when it is said to have failed, or there
\* is more to blame than failing calls.
LEMMA CallFailed ==
  ASSUME NEW r, CreateFails(r), seen' \subseteq {"api"}
  PROVE  UNCHANGED live
BY DEF CreateFails, Hit

\* The command goes on creating, and what it creates it notes.
LEMMA NotesWhatItCreates ==
  ASSUME UInv, pc \in Knowing, pc' \in Knowing, Info' = Info, NoHit \/ \E f \in FaultKind : Hit(f),
         LoneIPs(job'.mem), Grows(job.mem, job'.mem), live \in SUBSET Resource,
         pc' = "build" => NetFirst(job'.mem, job'.todo),
         seen' \subseteq {"api"} => \A r \in live' : r \in live \/ Accounts(job'.mem, r)
  PROVE  UInv'
<1>1. pc' \notin {"wipe", "strip", "trim"}
  BY DEF Knowing, CreateStage, BuildStage
<1>2. seen \subseteq seen'
  BY SeenMore
<1>3. Remembered' = job'.mem /\ Remembered = job.mem
  BY DEF Remembered, Knowing
<1>4. seen' \subseteq {"api"} => AllAccounted(job'.mem, live')
  BY <1>2, <1>3 DEF UInv, AllAccounted, Grows
<1>5. QED
  BY <1>1, <1>3, <1>4 DEF UInv

\* The command writes what it knows, if it can.
LEMMA WritesWhatAccounts ==
  ASSUME UInv, RInv, pc \in Knowing, pc' \in Knowing \cup {"idle", "read"}, ConfigWriter(job), UNCHANGED live,
         LoneIPs(job'.mem), pc' \in Knowing => job'.mem = job.mem,
         pc' = "build" => NetFirst(job'.mem, job'.todo)
  PROVE  UInv'
<1>1. pc' \notin {"wipe", "strip", "trim"}
  BY DEF Knowing, CreateStage, BuildStage
<1>2. /\ \/ disk' = Saved(job.mem) /\ NoHit
         \/ Hit("disk") /\ disk' \in {disk, Torn}
      /\ disk \in Disk
  BY DEF ConfigWriter, RInv, TypeOK
<1>3. seen \subseteq seen' /\ LoneIPs(Info') /\ (seen' \subseteq {"api"} => Info' = job.mem)
  <2>1. CASE disk' = Saved(job.mem) /\ NoHit
    BY <1>2, <2>1 DEF Saved, Info, Disk, NoHit, UInv
  <2>2. CASE Hit("disk") /\ disk' = disk
    BY <2>2 DEF Info, Hit, UInv
  <2>3. CASE Hit("disk") /\ disk' = Torn
    BY <1>2, <2>3, EmptyLone DEF Torn, Info, Hit, Disk
  <2>4. QED
    BY <1>2, <2>1, <2>2, <2>3
<1>4. Remembered = job.mem
  BY DEF Remembered, Knowing
<1>5. seen' \subseteq {"api"} => Remembered' = job.mem
  BY <1>3 DEF Remembered, Knowing
<1>6. seen' \subseteq {"api"} => AllAccounted(Remembered', live')
  BY <1>3, <1>4, <1>5 DEF UInv, AllAccounted
<1>7. QED
  BY <1>1, <1>3, <1>6 DEF UInv

\* The command goes by the record of the file, and deletes at most.
LEMMA DeletesWhatIsAccounted ==
  ASSUME UInv, pc \notin Knowing, pc' \in {"idle", "read", "drop", "wipe", "strip", "trim"}, Info' = Info,
         NoHit \/ \E f \in FaultKind : Hit(f), live' \subseteq live, LoneIPs(job'.mem),
         pc' = "wipe" => UsersFirst(job'.todo) /\ (seen' \subseteq {"api"} => UsersListed(live', job'.todo)),
         seen' \subseteq {"api"} /\ (pc' = "trim" \/ (pc' = "strip" /\ Head(job'.todo).kind = "ip"))
           => NIC("wp", LastWorker(Info)) \notin live'
  PROVE  UInv'
<1>1. pc' \notin Knowing /\ pc' # "build"
  BY DEF Knowing, CreateStage, BuildStage
<1>2. seen \subseteq seen'
  BY SeenMore
<1>3. Remembered' = Info' /\ Remembered = Info
  BY <1>1 DEF Remembered, Knowing, Info
<1>4. seen' \subseteq {"api"} => AllAccounted(Remembered', live')
  BY <1>2, <1>3 DEF UInv, AllAccounted
<1>5. QED
  BY <1>1, <1>4 DEF UInv

\* The command ends with more to blame, or with nothing left to account for.
LEMMA EndsUnaccounted ==
  ASSUME LoneIPs(Info'), pc' = "idle", job' = NoJob, seen' \subseteq {"api"} => live' = {}
  PROVE  UInv'
BY EmptyLone DEF UInv, NoJob, AllAccounted

-----------------------------------------------------------------------------
(* The actions                                                             *)

LEMMA BuildMachineNets ==
  ASSUME NEW j \in Job, NEW r \in Role, NEW n \in Nat, BuildMachine(j, r, n)
  PROVE  NetFirst(job'.mem, job'.todo)
<1>1. job' = [j EXCEPT !.role = r, !.n = n, !.todo = Plan(j.mem, r, n)]
  BY DEF BuildMachine, Continue
<1>2. job'.mem = j.mem /\ job'.todo = Plan(j.mem, r, n)
  BY <1>1 DEF Job
<1>3. QED
  BY <1>2, PlanNetFirst

LEMMA MachinesNet ==
  ASSUME NEW j \in Job,
         \/ createLoadBalancer(j) \/ createDatabase(j)
         \/ \E n \in Nat : createControlPlane(j, n) \/ createWorkerPlane(j, n)
  PROVE  NetFirst(job'.mem, job'.todo)
<1>1. 0 \in Nat /\ "lb" \in Role /\ "db" \in Role /\ "cp" \in Role /\ "wp" \in Role
  BY DEF Role
<1>2. QED
  BY <1>1, BuildMachineNets DEF createLoadBalancer, createDatabase, createControlPlane, createWorkerPlane

LEMMA RefuseAccounts ==
  ASSUME UInv, UNCHANGED vars
  PROVE  UInv'
BY DEF vars, UInv, Info, Remembered

LEMMA NoJobLone == LoneIPs(NoJob.mem)
BY EmptyLone DEF NoJob

LEMMA StartsAccount ==
  ASSUME UInv, RInv, User
  PROVE  UInv'
<1>1. CASE Refuse
  BY <1>1, RefuseAccounts DEF Refuse
<1>2. ASSUME pc = "idle", NoHit, UNCHANGED <<live, disk>>, pc' \in {"group", "read", "build", "strip"},
             LoneIPs(job'.mem),
             pc' \in {"group", "build"} => job'.mem = Info,
             pc' = "build" => NetFirst(job'.mem, job'.todo),
             pc' = "strip" => Head(job'.todo).kind = "vm"
      PROVE  UInv'
  <2>1. /\ pc \notin Knowing /\ (pc' \in Knowing <=> pc' \in {"group", "build"}) /\ pc' \notin {"wipe", "trim"}
    BY <1>2 DEF Knowing, CreateStage, BuildStage
  <2>2. Info' = Info /\ seen' = seen /\ Remembered = Info /\ Remembered' = Info
    BY <1>2, <2>1 DEF Info, NoHit, Remembered, Knowing
  <2>3. QED
    BY <1>2, <2>1, <2>2 DEF UInv
<1>3. CASE StartCreate /\ ~Refuse
  <2>1. PICK cps \in CPCounts, wps \in WPCounts :
          /\ ~isPresent /\ NoHit /\ UNCHANGED <<live, disk>> /\ pc = "idle"
          /\ Begin("group", [NoJob EXCEPT !.op = "create", !.cps = cps, !.wps = wps])
    BY <1>3 DEF StartCreate
  <2>2. job'.mem = NoJob.mem /\ pc' = "group"
    BY <2>1 DEF Begin, NoJob
  <2>3. job'.mem = Info
    BY <2>1, <2>2 DEF RInv, isPresent, NoJob
  <2>4. QED
    BY <1>2, <2>1, <2>2, <2>3, NoJobLone
<1>4. CASE StartDelete /\ ~Refuse
  <2>1. /\ Begin("read", [NoJob EXCEPT !.op = "delete"]) /\ NoHit /\ UNCHANGED <<live, disk>> /\ pc = "idle"
    BY <1>4 DEF StartDelete
  <2>2. job'.mem = NoJob.mem /\ pc' = "read"
    BY <2>1 DEF Begin, NoJob
  <2>3. QED
    BY <1>2, <2>1, <2>2, NoJobLone
<1>5. CASE StartAdd /\ ~Refuse
  <2> DEFINE base == Len(Info.nodes["wp"])
             plan == Plan(Info, "wp", base + 1)
  <2>1. PICK k \in WPCounts \ {0} :
          /\ Begin("build", [NoJob EXCEPT !.op = "add", !.mem = Info, !.role = "wp", !.n = base + 1,
                                          !.wps = base + k, !.todo = plan])
          /\ NoHit /\ UNCHANGED <<live, disk>> /\ pc = "idle"
    BY <1>5 DEF StartAdd
  <2>2. base + 1 \in Nat /\ "wp" \in Role
    BY RecordLists DEF RInv, Role
  <2>3. NetFirst(Info, plan)
    BY <2>2, PlanNetFirst
  <2> HIDE DEF base, plan
  <2>4. pc' = "build" /\ job'.mem = Info /\ job'.todo = plan
    BY <2>1 DEF Begin, NoJob
  <2>5. QED
    BY <1>2, <2>1, <2>3, <2>4 DEF UInv
<1>6. CASE StartRemove /\ ~Refuse
  <2>1. PICK k \in WPCounts \ {0} :
          /\ Begin("strip", [NoJob EXCEPT !.op = "remove", !.mem = Info, !.rounds = k, !.todo = Strip(Info)])
          /\ NoHit /\ UNCHANGED <<live, disk>> /\ pc = "idle"
    BY <1>6 DEF StartRemove
  <2>2. pc' = "strip" /\ job'.mem = Info /\ job'.todo = Strip(Info)
    BY <2>1 DEF Begin, NoJob
  <2>3. Head(Strip(Info)).kind = "vm"
    BY DEF Strip, VM, Res
  <2>4. QED
    BY <1>2, <2>1, <2>2, <2>3 DEF UInv
<1>7. QED
  BY <1>1, <1>3, <1>4, <1>5, <1>6 DEF User

LEMMA BuildKeepsAccount ==
  ASSUME UInv, RInv, NEW kind, Build(kind)
  PROVE  UInv'
<1> DEFINE x == Head(job.todo)
           c2 == Noted(job.mem, x)
           rest == Tail(job.todo)
<1>1. /\ pc = "build" /\ UNCHANGED disk /\ job \in Job /\ live \in SUBSET Resource /\ x \in Resource
      /\ LoneIPs(job.mem)
  BY BuildNotes DEF Build, RInv, TypeOK, UInv
<1>2. /\ LoneIPs(c2) /\ Grows(job.mem, c2) /\ Accounts(c2, x)
      /\ x.kind = "vm" => Accounts(c2, OSDisk(x.role, x.n))
      /\ rest # << >> => NetFirst(c2, rest)
  BY <1>1, BuildAccounts
<1>3. Info' = Info /\ pc \in Knowing
  BY <1>1 DEF Info, Knowing, BuildStage
<1>4. CASE /\ Creates(x)
           /\ Continue(IF rest = << >> THEN "save" ELSE "build", [job EXCEPT !.mem = Noted(@, x), !.todo = rest])
  <2>1. /\ pc' = IF rest = << >> THEN "save" ELSE "build"
        /\ job'.mem = c2 /\ job'.todo = rest
    BY <1>1, <1>4 DEF Continue, Job
  <2>2. /\ NoHit
        /\ x.kind # "vm" => \A y \in live' : y \in live \/ y = x
        /\ x.kind = "vm" => \A y \in live' : y \in live \/ y \in {x, OSDisk(x.role, x.n)}
    BY <1>1, <1>4, CallCreates DEF Creates
  <2> HIDE DEF x, c2, rest
  <2>3. \A y \in live' : y \in live \/ Accounts(job'.mem, y)
    BY <1>2, <2>1, <2>2
  <2>4. pc' \in Knowing /\ (pc' = "build" => rest # << >>)
    BY <2>1 DEF Knowing, BuildStage
  <2>5. QED
    BY <1>1, <1>2, <1>3, <2>1, <2>2, <2>3, <2>4, NotesWhatItCreates
<1>5. CASE /\ \/ (PutRefused(live, x) \/ VMRefused(x)) /\ NoHit /\ UNCHANGED live
              \/ CreateFails(x)
           /\ Continue("save", [job EXCEPT !.todo = << >>, !.failed = TRUE])
  <2>1. pc' = "save" /\ job'.mem = job.mem
    BY <1>1, <1>5 DEF Continue, Job
  <2>2. seen' \subseteq {"api"} => UNCHANGED live
    BY <1>5, CallFailed
  <2>3. NoHit \/ \E f \in FaultKind : Hit(f)
    BY <1>5, CallsHit
  <2>4. pc' \in Knowing
    BY <2>1 DEF Knowing, BuildStage
  <2>5. QED
    BY <1>1, <1>3, <2>1, <2>2, <2>3, <2>4, SameAccounted, NotesWhatItCreates
<1>6. QED
  BY <1>4, <1>5 DEF Build

LEMMA SaveMachineAccounts ==
  ASSUME UInv, RInv, SaveMachine
  PROVE  UInv'
<1>1. pc = "save" /\ ConfigWriter(job) /\ UNCHANGED live /\ job \in Job /\ job.mem \in Record /\ LoneIPs(job.mem)
  BY DEF SaveMachine, RInv, TypeOK, UInv
<1>2. \/ \/ createDatabase(job)
         \/ \E n \in Nat : createControlPlane(job, n) \/ createWorkerPlane(job, n)
      \/ Continue("config", job) \/ Continue("exit", job)
      \/ Abort(job)
      \/ Return("added") \/ Return("failed")
  <2>1. job.n + 1 \in Nat /\ 1 \in Nat
    BY <1>1, JobTyped
  <2>2. QED
    BY <2>1 DEF SaveMachine, NextMachine
<1>3. pc \in Knowing
  BY <1>1 DEF Knowing, BuildStage
<1>4. CASE \/ createDatabase(job)
           \/ \E n \in Nat : createControlPlane(job, n) \/ createWorkerPlane(job, n)
  <2>1. pc' = "build" /\ job'.mem = job.mem /\ NetFirst(job'.mem, job'.todo)
    BY <1>1, <1>4, MachinesStart, MachinesNet
  <2>2. pc' \in Knowing
    BY <2>1 DEF Knowing, BuildStage
  <2>3. QED
    BY <1>1, <1>3, <2>1, <2>2, WritesWhatAccounts
<1>5. CASE Continue("config", job) \/ Continue("exit", job) \/ Abort(job)
  <2>1. pc' \in {"config", "exit"} /\ job'.mem = job.mem
    BY <1>1, <1>5, AbortTyped DEF Continue
  <2>2. pc' \in Knowing /\ pc' # "build"
    BY <2>1 DEF Knowing, CreateStage
  <2>3. QED
    BY <1>1, <1>3, <2>1, <2>2, WritesWhatAccounts
<1>6. CASE Return("added") \/ Return("failed")
  <2>1. pc' = "idle" /\ job' = NoJob
    BY <1>6 DEF Return
  <2>2. pc' \notin Knowing /\ pc' # "build"
    BY <2>1 DEF Knowing, CreateStage, BuildStage
  <2>3. QED
    BY <1>1, <1>3, <2>1, <2>2, NoJobLone, WritesWhatAccounts
<1>7. QED
  BY <1>2, <1>4, <1>5, <1>6

\* The record of a job that has one more name, or the same ones.
LEMMA MemExcept ==
  ASSUME NEW j \in Job, LoneIPs(j.mem)
  PROVE  /\ [j EXCEPT !.mem.key = TRUE].mem = [j.mem EXCEPT !.key = TRUE]
         /\ [j EXCEPT !.mem.token = TRUE].mem = [j.mem EXCEPT !.token = TRUE]
         /\ \A c2 \in {[j.mem EXCEPT !.key = TRUE], [j.mem EXCEPT !.token = TRUE]} :
              LoneIPs(c2) /\ Grows(j.mem, c2)
<1>1. j.mem \in Config
  BY DEF Job
<1>2. \A c2 \in {[j.mem EXCEPT !.key = TRUE], [j.mem EXCEPT !.token = TRUE]} :
        /\ c2.ips = j.mem.ips /\ c2.nodes = j.mem.nodes /\ c2.vnet = j.mem.vnet /\ c2.subnet = j.mem.subnet
        /\ c2.nsg = j.mem.nsg /\ (j.mem.key => c2.key)
  BY <1>1 DEF Config
<1>3. \A c2 \in {[j.mem EXCEPT !.key = TRUE], [j.mem EXCEPT !.token = TRUE]} :
        LoneIPs(c2) /\ Grows(j.mem, c2)
  <2>1. SUFFICES ASSUME NEW c2 \in {[j.mem EXCEPT !.key = TRUE], [j.mem EXCEPT !.token = TRUE]}
                 PROVE  LoneIPs(c2) /\ Grows(j.mem, c2)
    OBVIOUS
  <2>2. /\ c2.ips = j.mem.ips /\ c2.nodes = j.mem.nodes /\ c2.vnet = j.mem.vnet /\ c2.subnet = j.mem.subnet
        /\ c2.nsg = j.mem.nsg /\ (j.mem.key => c2.key)
    BY <1>2
  <2> HIDE <2>1
  <2>3. Grows(j.mem, c2)
    BY <2>2, MoreAccounted
  <2>4. QED
    BY <2>2, <2>3 DEF LoneIPs
<1>4. QED
  BY <1>3 DEF Job

LEMMA GroupAndKeyAccount ==
  ASSUME UInv, RInv, CreateResourceGroup \/ CreateSSHKeyPair \/ UploadSSHKey
  PROVE  UInv'
<1>1. job \in Job /\ job.mem \in Record /\ live \in SUBSET Resource /\ LoneIPs(job.mem) /\ disk \in Disk
  BY DEF RInv, TypeOK, UInv
<1>2. {"group", "keygen", "key", "build", "exit"} \subseteq Knowing
  BY DEF Knowing, CreateStage, BuildStage
<1>3. {Group, SSHKey} \subseteq Resource /\ Group.kind = "group" /\ SSHKey.kind = "key"
  BY DEF Group, SSHKey, Res, Resource
<1>4. CASE CreateResourceGroup
  <2>1. /\ pc = "group" /\ UNCHANGED disk
        /\ Creates(Group) \/ CreateFails(Group)
        /\ Continue("keygen", job) \/ Abort(job)
    BY <1>4 DEF CreateResourceGroup
  <2>2. pc' \in {"keygen", "exit"} /\ job'.mem = job.mem
    BY <1>1, <2>1, AbortTyped DEF Continue
  <2>3. NoHit \/ \E f \in FaultKind : Hit(f)
    BY <2>1, CallsHit
  <2>4. \A y \in live' : y \in live \/ Accounts(job'.mem, y)
    BY <1>1, <1>3, <2>1, CallCreates DEF Accounts, Names
  <2>5. QED
    BY <1>1, <1>2, <2>1, <2>2, <2>3, <2>4, SameAccounted, NotesWhatItCreates DEF Info
<1>5. CASE CreateSSHKeyPair
  <2>1. /\ pc = "keygen" /\ UNCHANGED live /\ Info' = Info
        /\ NoHit \/ Hit("disk")
        /\ Continue("key", job) \/ Abort(job)
    BY <1>1, <1>5 DEF CreateSSHKeyPair, Info, Disk
  <2>2. pc' \in {"key", "exit"} /\ job'.mem = job.mem
    BY <1>1, <2>1, AbortTyped DEF Continue
  <2>3. NoHit \/ \E f \in FaultKind : Hit(f)
    BY <2>1 DEF FaultKind
  <2>4. QED
    BY <1>1, <1>2, <2>1, <2>2, <2>3, SameAccounted, NotesWhatItCreates
<1>6. CASE UploadSSHKey
  <2> DEFINE j == [job EXCEPT !.mem.key = TRUE]
  <2>1. j.mem = [job.mem EXCEPT !.key = TRUE] /\ LoneIPs(j.mem) /\ Grows(job.mem, j.mem)
    BY <1>1, MemExcept
  <2>2. j \in Job /\ j.mem \in Record /\ j.mem.key
    <3>1. j = [job EXCEPT !.mem = [job.mem EXCEPT !.key = TRUE]]
      BY <1>1 DEF Job
    <3>2. /\ [job.mem EXCEPT !.key = TRUE] \in Config
          /\ [job.mem EXCEPT !.key = TRUE].nodes = job.mem.nodes
          /\ [job.mem EXCEPT !.key = TRUE].ips = job.mem.ips
          /\ [job.mem EXCEPT !.key = TRUE].addrs = job.mem.addrs
          /\ [job.mem EXCEPT !.key = TRUE].key
      BY <1>1 DEF Job, Config
    <3>3. [job.mem EXCEPT !.key = TRUE] \in Record
      BY <1>1, <3>2 DEF Record, Aligned, Lone
    <3>4. QED
      BY <1>1, <3>1, <3>2, <3>3 DEF Job
  <2> HIDE DEF j
  <2>3. /\ \/ Creates(SSHKey) /\ createLoadBalancer(j)
           \/ CreateFails(SSHKey) /\ Abort(j)
        /\ pc = "key" /\ UNCHANGED disk
    BY <1>6 DEF UploadSSHKey, j
  <2>4. pc' \in {"build", "exit"} /\ job'.mem = j.mem /\ (pc' = "build" => NetFirst(job'.mem, job'.todo))
    BY <2>2, <2>3, AbortTyped, MachinesStart, MachinesNet
  <2>5. NoHit \/ \E f \in FaultKind : Hit(f)
    BY <2>3, CallsHit
  <2>6. \A y \in live' : y \in live \/ Accounts(job'.mem, y)
    BY <1>1, <1>3, <2>2, <2>3, <2>4, CallCreates DEF Accounts, Names
  <2>7. QED
    BY <1>1, <1>2, <2>1, <2>3, <2>4, <2>5, <2>6, NotesWhatItCreates DEF Info
<1>7. QED
  BY <1>4, <1>5, <1>6

LEMMA SetupAccounts ==
  ASSUME UInv, RInv, ConfigLoadBalancer \/ ConfigControlPlane \/ GetTokenFromCP1 \/ SaveKubeconfig
  PROVE  UInv'
<1>1. job \in Job /\ job.mem \in Record /\ live \in SUBSET Resource /\ LoneIPs(job.mem) /\ disk \in Disk
  BY DEF RInv, TypeOK, UInv
<1>2. CASE ConfigLoadBalancer \/ ConfigControlPlane \/ GetTokenFromCP1
  <2>1. UNCHANGED <<live, disk>> /\ pc \in {"config", "script", "token"}
    BY <1>2 DEF ConfigLoadBalancer, ConfigControlPlane, GetTokenFromCP1
  <2>2. NoHit \/ \E f \in FaultKind : Hit(f)
    BY <1>2 DEF ConfigLoadBalancer, ConfigControlPlane, GetTokenFromCP1, FaultKind
  <2>3. /\ pc' \in {"script", "token", "saveToken", "kubeconfig", "exit"}
        /\ job'.mem \in {job.mem, [job.mem EXCEPT !.token = TRUE]}
    BY <1>1, <1>2, MemExcept DEF ConfigLoadBalancer, ConfigControlPlane, GetTokenFromCP1, Continue, Abort, Job
  <2>4. pc \in Knowing /\ pc' \in Knowing /\ pc' # "build"
    BY <2>1, <2>3 DEF Knowing, CreateStage
  <2>5. LoneIPs(job'.mem) /\ Grows(job.mem, job'.mem)
    BY <1>1, <2>3, MemExcept, SameAccounted
  <2>6. QED
    BY <1>1, <2>1, <2>2, <2>4, <2>5, NotesWhatItCreates DEF Info
<1>3. CASE SaveKubeconfig
  <2>1. /\ pc = "kubeconfig" /\ UNCHANGED live /\ Info' = Info
        /\ Continue("exit", job) \/ createWorkerPlane(job, 1) \/ Abort(job)
    BY <1>1, <1>3 DEF SaveKubeconfig, Info, Disk
  <2>2. NoHit \/ \E f \in FaultKind : Hit(f)
    BY <1>3 DEF SaveKubeconfig, FaultKind
  <2>3. 1 \in Nat
    OBVIOUS
  <2>4. pc' \in {"exit", "build"} /\ job'.mem = job.mem /\ (pc' = "build" => NetFirst(job'.mem, job'.todo))
    BY <1>1, <2>1, <2>3, AbortTyped, MachinesStart, MachinesNet DEF Continue
  <2>5. pc \in Knowing /\ pc' \in Knowing
    BY <2>1, <2>4 DEF Knowing, CreateStage, BuildStage
  <2>6. QED
    BY <1>1, <2>1, <2>2, <2>4, <2>5, SameAccounted, NotesWhatItCreates
<1>4. QED
  BY <1>2, <1>3

LEMMA WritersAccount ==
  ASSUME UInv, RInv, SaveToken \/ ReturnFromCreate
  PROVE  UInv'
<1>1. /\ pc \in {"saveToken", "exit"} /\ ConfigWriter(job) /\ UNCHANGED live /\ job \in Job /\ LoneIPs(job.mem)
      /\ \/ Continue("script", [job EXCEPT !.n = 2]) \/ Abort(job)
         \/ Continue("read", job) \/ Return("created")
  BY DEF SaveToken, ReturnFromCreate, RInv, TypeOK, UInv
<1>2. /\ pc' \in {"script", "exit", "read", "idle"} /\ LoneIPs(job'.mem)
      /\ pc' \in {"script", "exit"} => job'.mem = job.mem
  BY <1>1, AbortTyped, NoJobLone DEF Continue, Return, Job
<1>3. /\ pc \in Knowing /\ pc' \in Knowing \cup {"idle", "read"} /\ pc' # "build"
      /\ pc' \in Knowing => pc' \in {"script", "exit"}
  BY <1>1, <1>2 DEF Knowing, CreateStage, BuildStage
<1>4. QED
  BY <1>1, <1>2, <1>3, WritesWhatAccounts

LEMMA ConfigReaderAccounts ==
  ASSUME UInv, RInv, ConfigReader
  PROVE  UInv'
<1>1. pc = "read" /\ pc \notin Knowing /\ NoHit /\ UNCHANGED <<live, disk>> /\ live \in SUBSET Resource
  BY DEF ConfigReader, Knowing, CreateStage, BuildStage, RInv, TypeOK
<1>2. CASE Return("failed")
  BY <1>1, <1>2, NoJobLone, DeletesWhatIsAccounted DEF Return, Info
<1>3. CASE Continue("wipe", [NoJob EXCEPT !.op = job.op, !.mem = Info, !.todo = Teardown(Info)])
  <2>1. pc' = "wipe" /\ job'.mem = Info /\ job'.todo = Teardown(Info)
    BY <1>3 DEF Continue, NoJob
  <2>2. /\ UsersFirst(Teardown(Info))
        /\ \A r \in Resource : r.kind \in {"vm", "nic"} /\ Names(Info, r) => InSeq(r, Teardown(Info))
    BY TeardownInOrder DEF RInv
  <2>3. seen' \subseteq {"api"} => UsersListed(live', job'.todo)
    <3>1. SUFFICES ASSUME seen' \subseteq {"api"}, NEW r \in live, r.kind \in {"vm", "nic"}
                   PROVE  InSeq(r, Teardown(Info))
      BY <1>1, <2>1 DEF UsersListed
    <3>2. Accounts(Info, r) /\ r \in Resource
      BY <1>1, <3>1 DEF UInv, AllAccounted, Remembered, Knowing, NoHit
    <3>3. QED
      BY <2>2, <3>1, <3>2 DEF Accounts
  <2>4. QED
    BY <1>1, <2>1, <2>2, <2>3, DeletesWhatIsAccounted DEF Info, UInv
<1>4. QED
  BY <1>2, <1>3 DEF ConfigReader

\* The rest of a list in order is in order.
LEMMA UsersFirstInTail ==
  ASSUME NEW s \in Seq(Resource), s # << >>, UsersFirst(s)
  PROVE  UsersFirst(Tail(s))
<1>1. PICK k \in Nat : k = Len(s) /\ k # 0
  BY EmptyLen
<1>2. /\ Tail(s) \in Seq(Resource) /\ Len(Tail(s)) = k - 1
      /\ \A m \in 1..k - 1 : Tail(s)[m] = s[m + 1]
  BY <1>1, HeadTailProperties
<1>3. \A i \in 1..k - 1 : i + 1 \in 1..k /\ \A m \in 1..i : m \in 1..k - 1 /\ m + 1 \in 1..i + 1
  BY <1>1
<1>4. QED
  BY <1>1, <1>2, <1>3 DEF UsersFirst

LEMMA WipeAccounts ==
  ASSUME UInv, RInv, NEW kind, NEW stage \in {"wipe", "drop"}, Wipe(kind, stage)
  PROVE  UInv'
<1> DEFINE x == Head(job.todo)
<1>1. /\ pc = "wipe" /\ pc \notin Knowing /\ UNCHANGED disk /\ Info' = Info
      /\ job.todo \in Seq(Resource) /\ job.todo # << >> /\ job \in Job /\ LoneIPs(job.mem)
      /\ UsersFirst(job.todo)
  BY JobTyped DEF Wipe, Knowing, CreateStage, BuildStage, RInv, TypeOK, UInv, Info
<1>2. live' \subseteq live /\ (NoHit \/ \E f \in FaultKind : Hit(f)) /\ seen \subseteq seen'
  BY CallsHit, SeenMore DEF Wipe
<1>3. CASE Return("failed")
  BY <1>1, <1>2, <1>3, NoJobLone, DeletesWhatIsAccounted DEF Return
<1>4. CASE Deletes(x) /\ Continue(stage, [job EXCEPT !.todo = Tail(@)])
  <2>1. pc' = stage /\ job'.mem = job.mem /\ job'.todo = Tail(job.todo)
    BY <1>1, <1>4 DEF Continue, Job
  <2>2. live' = DeletedFrom(live, x)
    BY <1>4 DEF Deletes
  <2>3. UsersFirst(Tail(job.todo))
    BY <1>1, UsersFirstInTail
  <2>4. seen' \subseteq {"api"} => UsersListed(live', Tail(job.todo))
    <3>1. SUFFICES ASSUME seen' \subseteq {"api"}, NEW r \in live', r.kind \in {"vm", "nic"}
                   PROVE  InSeq(r, Tail(job.todo))
      BY DEF UsersListed
    <3>2. r # x
      BY <2>2, <3>1 DEF DeletedFrom
    <3>3. InSeq(r, job.todo)
      BY <1>1, <1>2, <3>1 DEF UInv, UsersListed
    <3>4. QED
      BY <1>1, <3>2, <3>3, InTail
  <2>5. QED
    BY <1>1, <1>2, <2>1, <2>3, <2>4, DeletesWhatIsAccounted
<1>5. QED
  BY <1>3, <1>4 DEF Wipe

\* The directory is removed, in part or as a whole, or a write fails.
LEMMA RemovalLone ==
  ASSUME UInv, disk \in Disk, disk' \in PartlyRemoved \cup {EmptyDisk, disk, Torn}
  PROVE  LoneIPs(Info')
<1>1. CASE disk' \in {EmptyDisk, Torn}
  <2>1. Torn.info = EmptyConfig /\ EmptyDisk.info = EmptyConfig
    BY DEF Torn, EmptyDisk, Disk
  <2>2. Info' = EmptyConfig
    BY <1>1, <2>1 DEF Info
  <2>3. QED
    BY <2>2, EmptyLone
<1>2. CASE disk' = disk
  BY <1>2 DEF Info, UInv
<1>3. CASE disk' \in PartlyRemoved
  <2>1. PICK d \in {disk, [disk EXCEPT !.file = "absent", !.info = EmptyConfig]} :
          \E k \in {disk.keypair, FALSE} : \E c \in {disk.kubeconfig, "none"} :
            disk' = [d EXCEPT !.keypair = k, !.kubeconfig = c]
    BY <1>3 DEF PartlyRemoved
  <2>2. disk'.info = d.info /\ d.info \in {Info, EmptyConfig}
    BY <2>1 DEF Disk, Info
  <2>3. QED
    BY <2>2, EmptyLone DEF Info, UInv
<1>4. QED
  BY <1>1, <1>2, <1>3

LEMMA RemoveAllAccounts ==
  ASSUME UInv, RInv, IInv, RemoveAll
  PROVE  UInv'
<1>1. /\ pc' = "idle" /\ job' = NoJob /\ UNCHANGED live /\ live = {} /\ disk \in Disk
      /\ disk' \in PartlyRemoved \cup {EmptyDisk}
  BY DEF RemoveAll, Return, IInv, RInv, TypeOK
<1>2. LoneIPs(Info')
  BY <1>1, RemovalLone
<1>3. QED
  BY <1>1, <1>2, EndsUnaccounted

LEMMA CrashAccounts ==
  ASSUME UInv, RInv, Crash
  PROVE  UInv'
<1>1. pc' = "idle" /\ job' = NoJob /\ "crash" \in seen' /\ disk \in Disk
  BY DEF Crash, Return, Hit, RInv, TypeOK
<1>2. LoneIPs(Info')
  <2>1. CASE disk' = [disk EXCEPT !.kubeconfig = "empty"]
    BY <1>1, <2>1 DEF Disk, Info, UInv
  <2>2. CASE disk' \in PartlyRemoved \cup {EmptyDisk, disk, Torn}
    BY <1>1, <2>2, RemovalLone
  <2>3. QED
    BY <2>1, <2>2 DEF Crash
<1>3. QED
  BY <1>1, <1>2, EndsUnaccounted

\* A round that gets to its end has deleted what goes from the record.
LEMMA StripWorkerAccounts ==
  ASSUME UInv, RInv, NEW kind, StripWorker(kind)
  PROVE  UInv'
<1> DEFINE x == Head(job.todo)
           rest == Tail(job.todo)
           a == VM("wp", LastWorker(Info))
           b == OSDisk("wp", LastWorker(Info))
           d == NIC("wp", LastWorker(Info))
           e == PublicIP("wp", LastIP(Info))
<1>1. /\ pc = "strip" /\ pc \notin Knowing /\ UNCHANGED disk /\ Info' = Info
      /\ job.todo # << >> /\ job \in Job /\ LoneIPs(job.mem) /\ Stripping(Info, live, job.todo)
  BY DEF StripWorker, Knowing, CreateStage, BuildStage, RInv, TypeOK, UInv, Info, RemoveStage, Removing
<1>2. live' \subseteq live /\ (NoHit \/ \E f \in FaultKind : Hit(f)) /\ seen \subseteq seen'
  BY CallsHit, SeenMore DEF StripWorker
<1>3. CASE Return("failed")
  BY <1>1, <1>2, <1>3, NoJobLone, DeletesWhatIsAccounted DEF Return
<1>4. CASE Deletes(x) /\ Continue(IF rest = << >> THEN "trim" ELSE "strip", [job EXCEPT !.todo = rest])
  <2>1. /\ pc' = IF rest = << >> THEN "trim" ELSE "strip"
        /\ job'.mem = job.mem /\ job'.todo = rest
    BY <1>1, <1>4 DEF Continue, Job
  <2>2. live' = DeletedFrom(live, x)
    BY <1>4 DEF Deletes
  <2>3. a.kind = "vm" /\ b.kind = "disk" /\ d.kind = "nic" /\ e.kind = "ip"
    BY DEF VM, OSDisk, NIC, PublicIP, Res
  <2>4. \/ job.todo = <<a, b, d, e>> \/ job.todo = <<b, d, e>> \/ job.todo = <<d, e>> \/ job.todo = <<e>>
    BY <1>1 DEF Stripping
  <2>5. ASSUME seen' \subseteq {"api"}, pc' = "trim" \/ (pc' = "strip" /\ Head(job'.todo).kind = "ip")
        PROVE  d \notin live'
    <3> HIDE DEF a, b, d, e
    <3>1. CASE job.todo = <<a, b, d, e>>
      BY <2>1, <2>3, <2>5, <3>1
    <3>2. CASE job.todo = <<b, d, e>>
      BY <2>1, <2>3, <2>5, <3>2
    <3>3. CASE job.todo = <<d, e>>
      BY <2>2, <2>3, <3>3 DEF DeletedFrom
    <3>4. CASE job.todo = <<e>>
      <4>1. x.kind = "ip"
        BY <2>3, <3>4
      <4>2. d \notin live
        BY <1>1, <1>2, <2>5, <4>1 DEF UInv, d
      <4>3. QED
        BY <1>2, <4>2
    <3>5. QED
      BY <2>4, <3>1, <3>2, <3>3, <3>4
  <2>6. pc' \in {"trim", "strip"}
    BY <2>1
  <2>7. QED
    BY <1>1, <1>2, <2>1, <2>5, <2>6, DeletesWhatIsAccounted
<1>5. QED
  BY <1>3, <1>4 DEF StripWorker

\* What goes from the record at the end of a round.
LEMMA TrimAccounts ==
  ASSUME NEW c \in Record, LoneIPs(c), Len(c.nodes["wp"]) >= 1
  PROVE  /\ LoneIPs(Trimmed(c))
         /\ \A r \in Resource \ {VM("wp", LastWorker(c)), OSDisk("wp", LastWorker(c)), NIC("wp", LastWorker(c))} :
              Accounts(c, r) => Accounts(Trimmed(c), r)
<1> DEFINE k  == Len(c.nodes["wp"]) - 1
           c2 == Trimmed(c)
<1>1. c \in Config /\ DOMAIN c.ips = Role /\ "wp" \in Role
  BY DEF Record, Config, Role
<1>2. /\ c2.ips = [c.ips EXCEPT !["wp"] = Front(c.ips["wp"], k)]
      /\ c2.key = c.key /\ c2.vnet = c.vnet /\ c2.subnet = c.subnet /\ c2.nsg = c.nsg
  BY <1>1 DEF Trimmed, Config
<1>3. \A q \in Role, m \in Nat :
        InSeq(m, c.nodes[q]) => InSeq(m, c2.nodes[q]) \/ (q = "wp" /\ m = LastWorker(c))
  BY TrimKeeps
<1> HIDE DEF k, c2
<1>4. \A q \in Role \ {"wp"} : c2.ips[q] = c.ips[q]
  BY <1>1, <1>2
<1>5. LoneIPs(c2)
  BY <1>4 DEF LoneIPs, Planes
<1>6. ASSUME NEW r \in Resource \ {VM("wp", LastWorker(c)), OSDisk("wp", LastWorker(c)), NIC("wp", LastWorker(c))},
             Accounts(c, r)
      PROVE  Accounts(c2, r)
  <2>1. r = Res(r.kind, r.role, r.n) /\ r.n \in Nat
    BY DEF Res, Resource
  <2>2. CASE r.kind \in {"nic", "vm", "disk"}
    <3>1. r.role \in Role /\ InSeq(r.n, c.nodes[r.role])
      BY <1>6, <2>2 DEF Accounts, Names
    <3>2. ~(r.role = "wp" /\ r.n = LastWorker(c))
      BY <2>1, <2>2 DEF VM, OSDisk, NIC
    <3>3. InSeq(r.n, c2.nodes[r.role])
      BY <1>3, <2>1, <3>1, <3>2
    <3>4. QED
      BY <2>2, <3>1, <3>3 DEF Accounts, Names
  <2>3. CASE r.kind = "ip"
    BY <1>4, <1>6, <2>3 DEF Accounts, Names
  <2>4. CASE r.kind \notin {"nic", "vm", "disk", "ip"}
    BY <1>2, <1>6, <2>4 DEF Accounts, Names
  <2>5. QED
    BY <2>2, <2>3, <2>4
<1>7. QED
  BY <1>5, <1>6 DEF c2

LEMMA TrimWorkerAccounts ==
  ASSUME UInv, RInv, TrimWorker
  PROVE  UInv'
<1> DEFINE c2 == Trimmed(Info)
<1>1. /\ pc = "trim" /\ pc \notin Knowing /\ UNCHANGED live /\ job \in Job /\ job.mem = Info /\ disk \in Disk
      /\ Info \in Record /\ LoneIPs(Info) /\ job.rounds \in 1..Len(Info.nodes["wp"])
      /\ VM("wp", LastWorker(Info)) \notin live /\ OSDisk("wp", LastWorker(Info)) \notin live
      /\ live \in SUBSET Resource
  <2>1. pc = "trim" /\ UNCHANGED live /\ Removing
    BY DEF TrimWorker, RInv, RemoveStage
  <2>2. {VM("wp", LastWorker(Info)), OSDisk("wp", LastWorker(Info))} \cap live = {}
    BY <2>1 DEF Removing, Stripping
  <2>3. QED
    BY <2>1, <2>2 DEF Removing, RInv, TypeOK, Knowing, CreateStage, BuildStage, UInv
<1>2. Len(Info.nodes["wp"]) >= 1
  <2>1. Len(Info.nodes["wp"]) \in Nat
    BY <1>1, RecordLists DEF Role
  <2>2. QED
    BY <1>1, <2>1
<1>3. /\ LoneIPs(c2)
      /\ \A r \in Resource \ {VM("wp", LastWorker(Info)), OSDisk("wp", LastWorker(Info)), NIC("wp", LastWorker(Info))} :
           Accounts(Info, r) => Accounts(c2, r)
  BY <1>1, <1>2, TrimAccounts
<1>4. CASE NoHit /\ UNCHANGED disk /\ Return("panic")
  BY <1>1, <1>4, NoJobLone, DeletesWhatIsAccounted DEF Return, Info
<1>5. CASE Hit("disk") /\ disk' \in {disk, Torn} /\ Return("failed")
  <2>1. pc' = "idle" /\ job' = NoJob /\ "disk" \in seen' /\ LoneIPs(Info')
    BY <1>1, <1>5, RemovalLone DEF Return, Hit
  <2>2. QED
    BY <2>1, EndsUnaccounted
<1> HIDE DEF c2
<1>6. CASE /\ disk' = Saved(c2) /\ NoHit
           /\ IF job.rounds = 1 THEN Return("removed")
              ELSE Continue("strip", [job EXCEPT !.mem = c2, !.rounds = @ - 1, !.todo = Strip(c2)])
  <2>1. Info' = c2 /\ seen' = seen
    BY <1>1, <1>6 DEF Saved, Disk, Info, NoHit
  <2>2. seen \subseteq {"api"} => AllAccounted(c2, live)
    <3>1. SUFFICES ASSUME seen \subseteq {"api"}, NEW r \in live
                   PROVE  Accounts(c2, r)
      BY DEF AllAccounted
    <3>2. Accounts(Info, r) /\ r \in Resource /\ NIC("wp", LastWorker(Info)) \notin live
      BY <1>1, <3>1 DEF UInv, AllAccounted, Remembered, Knowing
    <3>3. QED
      BY <1>1, <1>3, <3>2
  <2>3. /\ pc' \in {"idle", "strip"} /\ LoneIPs(job'.mem)
        /\ pc' = "strip" => Head(job'.todo).kind = "vm"
    <3>1. CASE job.rounds = 1
      BY <1>6, <3>1, NoJobLone DEF Return
    <3>2. CASE job.rounds # 1
      <4>1. pc' = "strip" /\ job'.mem = c2 /\ job'.todo = Strip(c2)
        BY <1>1, <1>6, <3>2 DEF Continue, Job
      <4>2. Head(Strip(c2)).kind = "vm"
        BY DEF Strip, VM, Res
      <4>3. QED
        BY <1>3, <4>1, <4>2
    <3>3. QED
      BY <3>1, <3>2
  <2>4. Remembered' = c2 /\ pc' \notin {"build", "wipe", "trim"}
    BY <2>1, <2>3 DEF Remembered, CreateStage, BuildStage
  <2>5. QED
    BY <1>1, <1>3, <2>1, <2>2, <2>3, <2>4 DEF UInv
<1>7. QED
  BY <1>1, <1>4, <1>5, <1>6 DEF TrimWorker, c2

-----------------------------------------------------------------------------
(* What follows                                                            *)

LEMMA NextAccounts ==
  ASSUME UInv, RInv, IInv, [Next]_vars
  PROVE  UInv'
<1>1. CASE User
  BY <1>1, StartsAccount
<1>2. CASE BuildStep
  BY <1>2, BuildKeepsAccount, SaveMachineAccounts
     DEF BuildStep, CreateVirtualNetwork, CreateSubnet, CreatePublicIP, CreateNSG, CreateNetworkInterface,
         CreateVM
<1>3. CASE CreateStep
  BY <1>3, GroupAndKeyAccount, SetupAccounts, WritersAccount DEF CreateStep
<1>4. CASE DeleteStep
  BY <1>4, ConfigReaderAccounts, WipeAccounts, RemoveAllAccounts
     DEF DeleteStep, DeleteAllVMs, DeleteAllDisks, DeleteAllNetworkInterface, DeleteAllNSG,
         DeleteAllPublicIP, DeleteSubnet, DeleteVirtualNetwork, DeleteSSHKeyPair, DeleteResourceGroup
<1>5. CASE RemoveStep
  BY <1>5, StripWorkerAccounts, TrimWorkerAccounts
     DEF RemoveStep, DeleteVM, DeleteDisk, DeleteNetworkInterface, DeletePublicIP
<1>6. CASE Crash
  BY <1>6, CrashAccounts
<1>7. CASE UNCHANGED vars
  BY <1>7, RefuseAccounts
<1>8. QED
  BY <1>1, <1>2, <1>3, <1>4, <1>5, <1>6, <1>7 DEF Next, Step

LEMMA InitAccounts == Init => UInv
BY EmptyLone DEF Init, UInv, Info, EmptyDisk, NoJob, AllAccounted

LEMMA AccountsInductive == Spec => []UInv
<1>1. UInv /\ RInv /\ IInv /\ [Next]_vars => UInv'
  BY NextAccounts
<1>2. QED
  BY InitAccounts, RInductive, Inductive, <1>1, PTL DEF Spec

\* When calls have failed without an effect and nothing else went wrong, everything that exists is named by what
\* ksctl remembers, but for the addresses of workers: each resource is noted
\* when its call returns (CreateVirtualNetwork and its likes), a worker's
\* names go from the record when it is deleted (DeleteSomeWorkerNodes), and
\* what is remembered is written whatever the function returns.
THEOREM AzureEverythingNamed == Spec => []EverythingNamed
<1>1. UInv => EverythingNamed
  BY DEF UInv, EverythingNamed, AllAccounted, Accounts
<1>2. QED
  BY AccountsInductive, <1>1, PTL

\* A deletion then never asks Azure for what is still in use: everything that
\* could use it is named, so it is on the list, and the list has the users
\* first (haDeleteClusterHandler).
THEOREM AzureNeverInUse == Spec => []NeverInUse
<1>1. UInv /\ RInv => NeverInUse
  <2>1. SUFFICES ASSUME UInv, RInv, seen \subseteq {"api"}, pc = "wipe",
                        NEW u \in UsersOf(live, Head(job.todo))
                 PROVE  FALSE
    BY DEF NeverInUse
  <2> DEFINE x == Head(job.todo)
  <2>2. /\ job.todo \in Seq(Resource) /\ job.todo # << >> /\ UsersFirst(job.todo) /\ UsersListed(live, job.todo)
    BY <2>1, JobTyped DEF UInv, RInv, TypeOK
  <2>3. /\ u \in live
        /\ \/ u.kind = "nic" /\ x.kind \in {"vnet", "subnet", "nsg", "ip"}
           \/ u.kind = "vm" /\ x.kind \in {"nic", "disk"}
    BY <2>1 DEF UsersOf
  <2>4. PICK i \in DOMAIN job.todo : job.todo[i] = u
    BY <2>2, <2>3 DEF UsersListed, InSeq
  <2>5. /\ job.todo[1] = x /\ Len(job.todo) \in Nat /\ i \in 1..Len(job.todo) /\ 1 \in 1..i
    <3>1. DOMAIN job.todo = 1..Len(job.todo) /\ Len(job.todo) \in Nat
      BY <2>2, LenProperties
    <3>2. job.todo[1] = x
      BY <2>2, HeadTailProperties
    <3>3. QED
      BY <2>4, <3>1, <3>2
  <2>6. /\ u.kind = "vm" => x.kind = "vm"
        /\ u.kind = "nic" => x.kind \in {"vm", "disk", "nic"}
    BY <2>2, <2>4, <2>5 DEF UsersFirst
  <2>7. QED
    BY <2>3, <2>6
<1>2. QED
  BY AccountsInductive, RInductive, <1>1, PTL
=============================================================================
