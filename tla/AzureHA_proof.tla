---------------------------- MODULE AzureHA_proof ----------------------------
(***************************************************************************)
(* Proofs about AzureHA, for all its constants: its commands keep the      *)
(* promise of ClusterLifecycle, what exists is on record, and the lists of *)
(* the record fit together.                                                *)
(***************************************************************************)
EXTENDS AzureHA, SequenceTheorems, TLAPS

Blame == seen \cap {"disk", "crash"} # {}

\* Where a command may end without writing the state file.
NotWriting == {"idle", "read"} \cup {"wipe"} \cup RemoveStage

\* What the lifecycle rests on: outside the stages that end with a write of
\* the state file, what exists is on record or something is to blame, and
\* the directory goes when nothing exists.
IInv ==
  /\ DOMAIN disk = {"file", "info", "keypair", "kubeconfig"}
  /\ pc \in NotWriting /\ live # {} => isPresent \/ Blame
  /\ pc = "drop" => live = {}

\* A step keeps the invariant and is one of ClusterLifecycle's.
Good == IInv' /\ [Lifecycle!Next]_Lifecycle!vars

-----------------------------------------------------------------------------
(* Kinds of steps                                                          *)

LEMMA SeenGrows ==
  ASSUME Blame, NoHit \/ \E f \in FaultKind : Hit(f)
  PROVE  Blame'
BY DEF Blame, NoHit, Hit

\* The command goes on, without touching the state file, to a stage that ends
\* with a write.
LEMMA Works ==
  ASSUME IInv, pc # "idle", NoHit \/ \E f \in FaultKind : Hit(f),
         DOMAIN disk' = DOMAIN disk, disk'.file = disk.file,
         pc' \notin NotWriting \cup {"drop"}
  PROVE  Good
<1>1. IInv'
  BY DEF IInv
<1>2. Blame => Blame'
  BY SeenGrows
<1>3. pc' # "idle" /\ (isPresent' <=> isPresent)
  BY DEF NotWriting, isPresent
<1>4. QED
  BY <1>1, <1>2, <1>3 DEF Good, Lifecycle!Next, Lifecycle!Work, Lifecycle!Blamed, Blame, isPresent

\* The command deletes something, and goes on or ends.
LEMMA DeletesOrEnds ==
  ASSUME IInv, pc \in NotWriting \ {"idle"}, NoHit \/ \E f \in FaultKind : Hit(f),
         UNCHANGED disk, live' \subseteq live,
         pc' = "drop" => live' = {}
  PROVE  Good
<1>1. Blame => Blame'
  BY SeenGrows
<1>2. live' # {} => isPresent' \/ Blame'
  BY <1>1 DEF IInv, isPresent
<1>3. IInv'
  BY <1>2 DEF IInv
<1>4. pc # "idle" /\ (isPresent' <=> isPresent)
  BY DEF isPresent
<1>5. CASE pc' = "idle"
  BY <1>1, <1>2, <1>3, <1>4, <1>5 DEF Good, Lifecycle!Next, Lifecycle!End, Lifecycle!Blamed, Blame, isPresent
<1>6. CASE pc' # "idle"
  BY <1>1, <1>3, <1>4, <1>6 DEF Good, Lifecycle!Next, Lifecycle!Work, Lifecycle!Blamed, Blame, isPresent
<1>7. QED
  BY <1>5, <1>6

\* The command writes the state file, or fails to, and goes on or ends.
LEMMA Writes ==
  ASSUME IInv, pc # "idle", UNCHANGED live, pc' # "drop",
         NEW c,
         \/ disk' = Saved(c) /\ NoHit
         \/ Hit("disk") /\ disk' \in {disk, Torn}
  PROVE  Good
<1>1. /\ DOMAIN disk' = DOMAIN disk
      /\ disk'.file = disk.file \/ disk'.file \in {"saved", "torn"}
  BY DEF IInv, Saved, Torn
<1>2. isPresent' \/ Blame'
  BY DEF IInv, Saved, Hit, Blame, isPresent
<1>3. Blame => Blame'
  BY SeenGrows DEF FaultKind
<1>4. isPresent => isPresent'
  BY <1>1 DEF isPresent
<1>5. IInv'
  BY <1>1, <1>2 DEF IInv
<1>6. CASE pc' = "idle"
  BY <1>2, <1>3, <1>4, <1>5, <1>6 DEF Good, Lifecycle!Next, Lifecycle!End, Lifecycle!Blamed, Blame, isPresent
<1>7. CASE pc' # "idle" /\ (isPresent' <=> isPresent)
  BY <1>3, <1>5, <1>7 DEF Good, Lifecycle!Next, Lifecycle!Work, Lifecycle!Blamed, Blame, isPresent
<1>8. CASE pc' # "idle" /\ isPresent'
  BY <1>3, <1>5, <1>8 DEF Good, Lifecycle!Next, Lifecycle!Record, Lifecycle!Blamed, Blame, isPresent
<1>9. QED
  BY <1>4, <1>6, <1>7, <1>8

LEMMA Starts ==
  ASSUME IInv, pc = "idle", NoHit, UNCHANGED <<live, disk>>,
         pc' \notin NotWriting \cup {"drop"} \/ (pc' \notin {"idle", "drop"} /\ isPresent)
  PROVE  Good
<1>1. IInv'
  BY DEF IInv, isPresent
<1>2. pc' # "idle" /\ (isPresent' <=> isPresent) /\ (Blame' <=> Blame)
  BY DEF NotWriting, isPresent, NoHit, Blame
<1>3. QED
  BY <1>1, <1>2 DEF Good, Lifecycle!Next, Lifecycle!Start, Blame, isPresent

LEMMA Stutters ==
  ASSUME IInv, UNCHANGED vars
  PROVE  Good
BY DEF IInv, vars, Good, Lifecycle!vars, isPresent, Blame

-----------------------------------------------------------------------------
(* The actions                                                             *)

LEMMA CallsHit ==
  ASSUME NEW r
  PROVE  /\ Creates(r) \/ CreateFails(r) => NoHit \/ \E f \in FaultKind : Hit(f)
         /\ Deletes(r) \/ DeleteFails(r) =>
              live' \subseteq live /\ (NoHit \/ \E f \in FaultKind : Hit(f))
BY DEF Creates, CreateFails, Deletes, DeleteFails, DeletedFrom, FaultKind

LEMMA StartCreateGood ==
  ASSUME IInv, StartCreate
  PROVE  Good
<1>1. CASE Refuse
  BY <1>1, Stutters DEF Refuse
<1>2. CASE \E j : Begin("group", j) /\ NoHit /\ UNCHANGED <<live, disk>>
  BY <1>2, Starts DEF StartCreate, Begin, NotWriting, RemoveStage
<1>3. QED
  BY <1>1, <1>2 DEF StartCreate

LEMMA StartDeleteGood ==
  ASSUME IInv, StartDelete
  PROVE  Good
<1>1. CASE Refuse
  BY <1>1, Stutters DEF Refuse
<1>2. CASE isPresent /\ \E j : Begin("read", j) /\ NoHit /\ UNCHANGED <<live, disk>>
  BY <1>2, Starts DEF StartDelete, Begin
<1>3. QED
  BY <1>1, <1>2 DEF StartDelete

LEMMA StartAddGood ==
  ASSUME IInv, StartAdd
  PROVE  Good
<1>1. CASE Refuse
  BY <1>1, Stutters DEF Refuse
<1>2. CASE \E j : Begin("build", j) /\ NoHit /\ UNCHANGED <<live, disk>>
  BY <1>2, Starts DEF StartAdd, Begin, NotWriting, RemoveStage
<1>3. QED
  BY <1>1, <1>2 DEF StartAdd

LEMMA StartRemoveGood ==
  ASSUME IInv, StartRemove
  PROVE  Good
<1>1. CASE Refuse
  BY <1>1, Stutters DEF Refuse
<1>2. CASE disk.file = "saved" /\ \E j : Begin("strip", j) /\ NoHit /\ UNCHANGED <<live, disk>>
  BY <1>2, Starts DEF StartRemove, Begin, isPresent
<1>3. QED
  BY <1>1, <1>2 DEF StartRemove

LEMMA CreateResourceGroupGood ==
  ASSUME IInv, CreateResourceGroup
  PROVE  Good
BY CallsHit, Works DEF CreateResourceGroup, Continue, Abort, NotWriting, RemoveStage

LEMMA CreateSSHKeyPairGood ==
  ASSUME IInv, CreateSSHKeyPair
  PROVE  Good
<1>1. DOMAIN disk' = DOMAIN disk /\ disk'.file = disk.file
  BY DEF IInv, CreateSSHKeyPair
<1>2. QED
  BY <1>1, Works DEF CreateSSHKeyPair, Continue, Abort, NotWriting, RemoveStage, FaultKind

LEMMA UploadSSHKeyGood ==
  ASSUME IInv, UploadSSHKey
  PROVE  Good
BY CallsHit, Works
   DEF UploadSSHKey, createLoadBalancer, BuildMachine, Continue, Abort, NotWriting, RemoveStage

LEMMA BuildGood ==
  ASSUME IInv, NEW kind, Build(kind)
  PROVE  Good
<1>1. UNCHANGED disk /\ pc = "build" /\ pc' \in {"build", "save"}
  BY DEF Build, Continue
<1>2. NoHit \/ \E f \in FaultKind : Hit(f)
  BY CallsHit DEF Build, Creates
<1>3. QED
  BY <1>1, <1>2, Works DEF NotWriting, RemoveStage

LEMMA SaveMachineGood ==
  ASSUME IInv, SaveMachine
  PROVE  Good
<1>1. pc' # "drop"
  BY DEF SaveMachine, NextMachine, createDatabase, createControlPlane, createWorkerPlane, BuildMachine,
         Continue, Abort, Return
<1>2. QED
  BY <1>1, Writes DEF SaveMachine, ConfigWriter

LEMMA ScriptsGood ==
  ASSUME IInv, ConfigLoadBalancer \/ ConfigControlPlane \/ GetTokenFromCP1
  PROVE  Good
<1>1. UNCHANGED disk /\ pc # "idle" /\ pc' \notin NotWriting \cup {"drop"}
  BY DEF ConfigLoadBalancer, ConfigControlPlane, GetTokenFromCP1, Continue, Abort, NotWriting, RemoveStage
<1>2. NoHit \/ \E f \in FaultKind : Hit(f)
  BY DEF ConfigLoadBalancer, ConfigControlPlane, GetTokenFromCP1, FaultKind
<1>3. QED
  BY <1>1, <1>2, Works

LEMMA SaveTokenGood ==
  ASSUME IInv, SaveToken
  PROVE  Good
<1>1. pc' # "drop"
  BY DEF SaveToken, Continue, Abort
<1>2. QED
  BY <1>1, Writes DEF SaveToken, ConfigWriter

LEMMA SaveKubeconfigGood ==
  ASSUME IInv, SaveKubeconfig
  PROVE  Good
<1>1. DOMAIN disk' = DOMAIN disk /\ disk'.file = disk.file
  BY DEF IInv, SaveKubeconfig
<1>2. pc = "kubeconfig" /\ pc' \in {"exit", "build"}
  BY DEF SaveKubeconfig, createWorkerPlane, BuildMachine, Continue, Abort
<1>3. NoHit \/ \E f \in FaultKind : Hit(f)
  BY DEF SaveKubeconfig, FaultKind
<1>4. QED
  BY <1>1, <1>2, <1>3, Works DEF NotWriting, RemoveStage

LEMMA ReturnFromCreateGood ==
  ASSUME IInv, ReturnFromCreate
  PROVE  Good
<1>1. pc' # "drop"
  BY DEF ReturnFromCreate, Continue, Return
<1>2. QED
  BY <1>1, Writes DEF ReturnFromCreate, ConfigWriter

LEMMA ConfigReaderGood ==
  ASSUME IInv, ConfigReader
  PROVE  Good
<1>1. pc = "read" /\ pc' # "drop" /\ NoHit /\ UNCHANGED <<live, disk>>
  BY DEF ConfigReader, Continue, Return
<1>2. QED
  BY <1>1, DeletesOrEnds DEF NotWriting

LEMMA WipeGood ==
  ASSUME IInv, NEW kind, NEW stage, Wipe(kind, stage), stage = "drop" => kind = "group"
  PROVE  Good
<1>1. pc = "wipe" /\ UNCHANGED disk
  BY DEF Wipe
<1>2. live' \subseteq live /\ (NoHit \/ \E f \in FaultKind : Hit(f))
  BY CallsHit DEF Wipe
<1>3. pc' = "drop" => live' = {}
  BY DEF Wipe, Deletes, DeletedFrom, Continue, Return
<1>4. QED
  BY <1>1, <1>2, <1>3, DeletesOrEnds DEF NotWriting

LEMMA StripWorkerGood ==
  ASSUME IInv, NEW kind, StripWorker(kind)
  PROVE  Good
<1>1. pc = "strip" /\ UNCHANGED disk /\ pc' # "drop"
  BY DEF StripWorker, Continue, Return
<1>2. live' \subseteq live /\ (NoHit \/ \E f \in FaultKind : Hit(f))
  BY CallsHit DEF StripWorker
<1>3. QED
  BY <1>1, <1>2, DeletesOrEnds DEF NotWriting, RemoveStage

LEMMA TrimWorkerGood ==
  ASSUME IInv, TrimWorker
  PROVE  Good
<1>1. pc = "trim" /\ pc' # "drop" /\ UNCHANGED live
  BY DEF TrimWorker, Continue, Return
<1>2. CASE \/ disk' = Saved(Trimmed(job.mem)) /\ NoHit
           \/ Hit("disk") /\ disk' \in {disk, Torn}
  BY <1>1, <1>2, Writes
<1>3. CASE NoHit /\ UNCHANGED disk
  BY <1>1, <1>3, DeletesOrEnds DEF NotWriting, RemoveStage
<1>4. QED
  BY <1>2, <1>3 DEF TrimWorker

LEMMA RemovalForgets ==
  ASSUME IInv, pc = "drop", UNCHANGED live, pc' = "idle", NoHit \/ \E f \in FaultKind : Hit(f),
         disk' \in PartlyRemoved \cup {EmptyDisk, disk}
  PROVE  Good
<1>1. live = {} /\ live' = {}
  BY DEF IInv
<1>2. DOMAIN disk' = DOMAIN disk /\ (isPresent' => isPresent)
  <2>1. CASE disk' \in {EmptyDisk, disk}
    BY <2>1 DEF IInv, EmptyDisk, isPresent
  <2>2. CASE disk' \in PartlyRemoved
    <3>1. PICK d \in {disk, [disk EXCEPT !.file = "absent", !.info = EmptyConfig]} :
            \E k \in {disk.keypair, FALSE} : \E c \in {disk.kubeconfig, "none"} :
              disk' = [d EXCEPT !.keypair = k, !.kubeconfig = c]
      BY <2>2 DEF PartlyRemoved
    <3>2. DOMAIN d = DOMAIN disk /\ d.file \in {disk.file, "absent"}
      BY DEF IInv
    <3>3. DOMAIN disk' = DOMAIN d /\ disk'.file = d.file
      BY <3>1, <3>2 DEF IInv
    <3>4. QED
      BY <3>2, <3>3 DEF isPresent
  <2>3. QED
    BY <2>1, <2>2
<1>3. Blame => Blame'
  BY SeenGrows
<1>4. IInv'
  BY <1>1, <1>2 DEF IInv
<1>5. QED
  BY <1>1, <1>2, <1>3, <1>4 DEF Good, Lifecycle!Next, Lifecycle!Forget, Lifecycle!End, Lifecycle!Blamed,
     Blame, isPresent

LEMMA RemoveAllGood ==
  ASSUME IInv, RemoveAll
  PROVE  Good
BY RemovalForgets DEF RemoveAll, Return, FaultKind

LEMMA CrashGood ==
  ASSUME IInv, Crash
  PROVE  Good
<1>1. Hit("crash") /\ pc # "idle" /\ pc' = "idle" /\ UNCHANGED live
  BY DEF Crash, Return
<1>2. Blame' /\ (NoHit \/ \E f \in FaultKind : Hit(f))
  BY <1>1 DEF Hit, Blame, FaultKind
<1>3. CASE pc = "drop"
  BY <1>1, <1>2, <1>3, RemovalForgets DEF Crash
<1>4. CASE pc # "drop"
  <2>1. DOMAIN disk' = DOMAIN disk /\ (isPresent => isPresent')
    BY <1>4 DEF IInv, Crash, Torn, isPresent
  <2>2. IInv'
    BY <1>1, <1>2, <2>1 DEF IInv
  <2>3. QED
    BY <1>1, <1>2, <2>1, <2>2 DEF Good, Lifecycle!Next, Lifecycle!End, Lifecycle!Blamed, Blame, isPresent
<1>5. QED
  BY <1>3, <1>4

-----------------------------------------------------------------------------
(* What follows                                                            *)

LEMMA NextGood ==
  ASSUME IInv, [Next]_vars
  PROVE  Good
<1>1. CASE User
  BY <1>1, StartCreateGood, StartDeleteGood, StartAddGood, StartRemoveGood DEF User
<1>2. CASE BuildStep
  BY <1>2, BuildGood, SaveMachineGood
     DEF BuildStep, CreateVirtualNetwork, CreateSubnet, CreatePublicIP, CreateNSG, CreateNetworkInterface,
         CreateVM
<1>3. CASE CreateStep
  BY <1>3, CreateResourceGroupGood, CreateSSHKeyPairGood, UploadSSHKeyGood, ScriptsGood, SaveTokenGood,
     SaveKubeconfigGood, ReturnFromCreateGood DEF CreateStep
<1>4. CASE DeleteStep
  BY <1>4, ConfigReaderGood, WipeGood, RemoveAllGood
     DEF DeleteStep, DeleteAllVMs, DeleteAllDisks, DeleteAllNetworkInterface, DeleteAllNSG,
         DeleteAllPublicIP, DeleteSubnet, DeleteVirtualNetwork, DeleteSSHKeyPair, DeleteResourceGroup
<1>5. CASE RemoveStep
  BY <1>5, StripWorkerGood, TrimWorkerGood
     DEF RemoveStep, DeleteVM, DeleteDisk, DeleteNetworkInterface, DeletePublicIP
<1>6. CASE Crash
  BY <1>6, CrashGood
<1>7. CASE UNCHANGED vars
  BY <1>7, Stutters
<1>8. QED
  BY <1>1, <1>2, <1>3, <1>4, <1>5, <1>6, <1>7 DEF Next, Step

LEMMA InitGood == Init => IInv /\ Lifecycle!Init
BY DEF Init, IInv, Lifecycle!Init, EmptyDisk, isPresent

\* The invariant holds of every behaviour.
THEOREM Inductive == Spec => []IInv
<1>1. IInv /\ [Next]_vars => IInv'
  BY NextGood DEF Good
<1>2. QED
  BY InitGood, <1>1, PTL DEF Spec

\* ksctl forgets an Azure cluster only when nothing of it exists, and ends no
\* command with something that exists and no state file, but for a kill or a
\* failed write: for all numbers of machines and faults, and whichever calls
\* fail (the deferred ConfigWriter of every function that creates something,
\* the order of haDeleteClusterHandler).
THEOREM KeepsLifecycle == Spec => LifecycleSpec
<1>1. IInv /\ [Next]_vars => [Lifecycle!Next]_Lifecycle!vars
  BY NextGood DEF Good
<1>2. QED
  BY InitGood, Inductive, <1>1, PTL DEF Spec, LifecycleSpec, Lifecycle!Spec


Planes == {"cp", "wp"}

\* The lists of the record c fit together, and there is at most one load
\* balancer and one database.
Aligned(c) ==
  \A r \in Role : Len(c.nodes[r]) <= Len(c.ips[r]) /\ c.addrs[r] <= Len(c.nodes[r])

Lone(c) == \A r \in Role \ Planes : c.nodes[r] \in {<< >>, <<0>>}

Record == {c \in Config : Aligned(c) /\ Lone(c)}

\* The record c has room for the network interface of machine n of role r,
\* and for its address.
NICRoom(c, r)   == c.ips[r] # << >> /\ (r \in Planes => Len(c.nodes[r]) < Len(c.ips[r]))
VMNoted(c, r, n) == InSeq(n, c.nodes[r]) /\ (r \in Planes => c.addrs[r] < Len(c.nodes[r]))

\* Of machine n of role r, todo is left to create, and c has the rest.
Building(c, r, n, todo) ==
  /\ r \in Role /\ n \in Nat /\ (r \notin Planes => n = 0)
  /\ todo \in Seq(Resource) /\ todo # << >>
  /\ todo[Len(todo)] = VM(r, n)
  /\ Len(todo) = 1 => VMNoted(c, r, n)
  /\ Len(todo) > 1 =>
       /\ todo[Len(todo) - 1] = NIC(r, n)
       /\ NICRoom(c, r) \/ \E i \in 1..Len(todo) - 2 : todo[i] = PublicIP(r, n)
  /\ \A i \in 1..Len(todo) - 2 : todo[i] \in {VNet, Subnet, PublicIP(r, n), NSG(r)}

-----------------------------------------------------------------------------
(* The record and the lists of resources                                   *)

LEMMA EmptyIsRecord == EmptyConfig \in Record
<1>1. EmptyConfig \in Config
  BY DEF EmptyConfig, Config
<1>2. \A r \in Role : EmptyConfig.nodes[r] = << >> /\ EmptyConfig.ips[r] = << >> /\ EmptyConfig.addrs[r] = 0
  BY DEF EmptyConfig
<1>3. QED
  BY <1>1, <1>2 DEF Record, Aligned, Lone

LEMMA NamesAreResources ==
  ASSUME NEW r \in Role, NEW n \in Nat
  PROVE  {PublicIP(r, n), NIC(r, n), VM(r, n), OSDisk(r, n), NSG(r), VNet, Subnet, SSHKey, Group} \subseteq Resource
BY DEF PublicIP, NIC, VM, OSDisk, NSG, VNet, Subnet, SSHKey, Group, Res, Resource, Role

LEMMA EmptyLen ==
  ASSUME NEW S, NEW s \in Seq(S)
  PROVE  Len(s) \in Nat /\ (s = << >> <=> Len(s) = 0)
BY EmptySeq

LEMMA PlanBuilds ==
  ASSUME NEW c, NEW r \in Role, NEW n \in Nat, r \notin Planes => n = 0
  PROVE  Building(c, r, n, Plan(c, r, n))
<1> DEFINE net == IF c.vnet /\ c.subnet THEN << >> ELSE <<VNet, Subnet>>
           ip  == <<PublicIP(r, n)>>
           nsg == IF r \in c.nsg THEN << >> ELSE <<NSG(r)>>
           vm  == <<NIC(r, n), VM(r, n)>>
           All == {VNet, Subnet, PublicIP(r, n), NSG(r)}
<1>1. net \in Seq(All) /\ ip \in Seq(All) /\ nsg \in Seq(All)
  <2>1. VNet \in All /\ Subnet \in All /\ PublicIP(r, n) \in All /\ NSG(r) \in All
    OBVIOUS
  <2> HIDE DEF All
  <2>2. QED
    BY <2>1
<1>2. vm \in Seq(Resource) /\ Len(vm) = 2 /\ vm[1] = NIC(r, n) /\ vm[2] = VM(r, n) /\ All \subseteq Resource
  BY NamesAreResources
<1>3. /\ net \o ip \in Seq(All)
      /\ Len(net \o ip) = Len(net) + 1
      /\ (net \o ip)[Len(net) + 1] = PublicIP(r, n)
      /\ Len(net) \in Nat
  <2>1. Len(net) \in Nat /\ Len(ip) = 1 /\ ip[1] = PublicIP(r, n)
    OBVIOUS
  <2> HIDE DEF net, ip, All
  <2>2. /\ net \o ip \in Seq(All)
        /\ Len(net \o ip) = Len(net) + Len(ip)
        /\ \A i \in 1 .. Len(net) + Len(ip) :
             (net \o ip)[i] = IF i <= Len(net) THEN net[i] ELSE ip[i - Len(net)]
    BY <1>1, ConcatProperties
  <2>3. (net \o ip)[Len(net) + 1] = ip[Len(net) + 1 - Len(net)]
    BY <2>1, <2>2
  <2>4. QED
    BY <2>1, <2>2, <2>3
<1> DEFINE head == net \o ip \o nsg
<1>4. /\ head \in Seq(All) /\ Len(head) \in Nat
      /\ Len(net) + 1 \in 1..Len(head)
      /\ head[Len(net) + 1] = PublicIP(r, n)
  <2>1. Len(nsg) \in Nat
    OBVIOUS
  <2> DEFINE start == net \o ip
  <2> HIDE DEF net, ip, nsg, All, start
  <2>2. /\ start \in Seq(All) /\ Len(start) = Len(net) + 1 /\ Len(net) \in Nat
        /\ start[Len(net) + 1] = PublicIP(r, n)
    BY <1>3 DEF start
  <2>3. /\ start \o nsg \in Seq(All)
        /\ Len(start \o nsg) = Len(start) + Len(nsg)
        /\ \A i \in 1 .. Len(start) + Len(nsg) :
             (start \o nsg)[i] = IF i <= Len(start) THEN start[i] ELSE nsg[i - Len(start)]
    BY <1>1, <2>2, ConcatProperties
  <2>4. head = start \o nsg
    BY DEF start
  <2> HIDE DEF head
  <2>5. QED
    BY <2>1, <2>2, <2>3, <2>4
<1>5. /\ head \in Seq(Resource)
      /\ \A i \in 1..Len(head) : head[i] \in All
  <2> HIDE DEF head, All
  <2>1. QED
    BY <1>2, <1>4, SeqMonotonic, ElementOfSeq
<1> DEFINE plan == head \o vm
<1>6. /\ plan \in Seq(Resource) /\ Len(plan) = Len(head) + 2
      /\ \A i \in 1..Len(head) : plan[i] = head[i]
      /\ plan[Len(head) + 1] = NIC(r, n) /\ plan[Len(head) + 2] = VM(r, n)
  <2> HIDE DEF head, vm
  <2>1. /\ plan \in Seq(Resource) /\ Len(plan) = Len(head) + Len(vm)
        /\ \A i \in 1..Len(head) + Len(vm) : plan[i] = IF i <= Len(head) THEN head[i] ELSE vm[i - Len(head)]
    BY <1>2, <1>5, ConcatProperties
  <2>2. /\ Len(head) + 1 \in 1..Len(head) + Len(vm) /\ Len(head) + 2 \in 1..Len(head) + Len(vm)
        /\ (Len(head) + 1) - Len(head) = 1 /\ (Len(head) + 2) - Len(head) = 2
    BY <1>2, <1>4
  <2> HIDE DEF plan
  <2>3. QED
    BY <1>2, <1>4, <2>1, <2>2, SMTT(20)
<1>7. Plan(c, r, n) = plan
  BY DEF Plan
<1> HIDE DEF plan, head, All
<1>8. Building(c, r, n, plan)
  BY <1>4, <1>5, <1>6 DEF Building, All
<1>9. QED
  BY <1>7, <1>8

\* The first of what is left, and the rest once c2 is the record.
LEMMA BuildingGoesOn ==
  ASSUME NEW c, NEW r, NEW n, NEW todo, Building(c, r, n, todo)
  PROVE  /\ \/ Len(todo) = 1 /\ Tail(todo) = << >> /\ Head(todo) = VM(r, n) /\ VMNoted(c, r, n)
            \/ Len(todo) = 2 /\ Head(todo) = NIC(r, n) /\ NICRoom(c, r)
            \/ Len(todo) > 2 /\ Head(todo) \in {VNet, Subnet, PublicIP(r, n), NSG(r)}
         /\ \A c2 :
              /\ Len(todo) > 1
              /\ Len(todo) = 2 => VMNoted(c2, r, n)
              /\ Len(todo) > 2 /\ (NICRoom(c, r) \/ Head(todo) = PublicIP(r, n)) => NICRoom(c2, r)
              => Building(c2, r, n, Tail(todo))
<1> DEFINE k == Len(todo)
<1>1. /\ todo \in Seq(Resource) /\ todo # << >> /\ k \in Nat \ {0} /\ Head(todo) = todo[1]
      /\ k = Len(todo)
  BY EmptySeq DEF Building
<1> HIDE DEF k
<1>2. /\ Tail(todo) \in Seq(Resource) /\ Len(Tail(todo)) = k - 1
      /\ \A i \in 1..k - 1 : Tail(todo)[i] = todo[i + 1]
      /\ Tail(todo) = << >> <=> k = 1
  <2>1. /\ Tail(todo) \in Seq(Resource) /\ Len(Tail(todo)) = k - 1
        /\ \A i \in 1..k - 1 : Tail(todo)[i] = todo[i + 1]
    BY <1>1, HeadTailProperties
  <2>2. Tail(todo) = << >> <=> Len(Tail(todo)) = 0
    BY <2>1, EmptyLen
  <2>3. QED
    BY <1>1, <2>1, <2>2
<1>3. /\ \/ k = 1 /\ Tail(todo) = << >> /\ Head(todo) = VM(r, n) /\ VMNoted(c, r, n)
         \/ k = 2 /\ Head(todo) = NIC(r, n) /\ NICRoom(c, r)
         \/ k > 2 /\ Head(todo) \in {VNet, Subnet, PublicIP(r, n), NSG(r)}
  <2>1. CASE k = 1
    BY <1>1, <1>2, <2>1 DEF Building
  <2>2. CASE k = 2
    BY <1>1, <2>2 DEF Building
  <2>3. CASE k > 2
    BY <1>1, <2>3 DEF Building
  <2>4. k = 1 \/ k = 2 \/ k > 2
    BY <1>1
  <2>5. QED
    BY <2>1, <2>2, <2>3, <2>4
<1>4. ASSUME NEW c2, k > 1, k = 2 => VMNoted(c2, r, n),
             k > 2 /\ (NICRoom(c, r) \/ Head(todo) = PublicIP(r, n)) => NICRoom(c2, r)
      PROVE  Building(c2, r, n, Tail(todo))
  <2>1. /\ Tail(todo) # << >>
        /\ Tail(todo)[k - 1] = VM(r, n)
        /\ k > 2 => Tail(todo)[k - 2] = NIC(r, n)
    <3>1. Tail(todo) # << >>
      BY <1>1, <1>2, <1>4
    <3>2. k - 1 \in 1..k - 1 /\ (k - 1) + 1 = k /\ (k > 2 => k - 2 \in 1..k - 1 /\ (k - 2) + 1 = k - 1)
      BY <1>1, <1>4
    <3>3. QED
      BY <1>1, <1>2, <1>4, <3>1, <3>2 DEF Building
  <2>2. \A i \in 1..k - 3 : Tail(todo)[i] = todo[i + 1] /\ i + 1 \in 1..k - 2
    BY <1>1, <1>2
  <2>3. k > 2 => NICRoom(c2, r) \/ \E i \in 1..k - 3 : Tail(todo)[i] = PublicIP(r, n)
    <3>1. SUFFICES ASSUME k > 2, ~NICRoom(c2, r)
                   PROVE  \E i \in 1..k - 3 : Tail(todo)[i] = PublicIP(r, n)
      OBVIOUS
    <3>2. PICK i \in 1..k - 2 : todo[i] = PublicIP(r, n)
      BY <1>1, <1>4, <3>1 DEF Building
    <3>3. i # 1
      BY <1>1, <1>4, <3>1, <3>2
    <3>4. i - 1 \in 1..k - 3 /\ Tail(todo)[i - 1] = todo[i]
      <4>1. i - 1 \in 1..k - 3 /\ i - 1 \in 1..k - 1 /\ (i - 1) + 1 = i
        BY <1>1, <3>3
      <4>2. QED
        BY <1>2, <4>1
    <3>5. QED
      BY <3>2, <3>4
  <2>4. Len(Tail(todo)) - 1 = k - 2 /\ Len(Tail(todo)) - 2 = k - 3 /\ (Len(Tail(todo)) = 1 <=> k = 2)
        /\ (Len(Tail(todo)) > 1 <=> k > 2)
    BY <1>1, <1>2
  <2>5. \A i \in 1..k - 3 : Tail(todo)[i] \in {VNet, Subnet, PublicIP(r, n), NSG(r)}
    <3>1. \A i \in 1..k - 2 : todo[i] \in {VNet, Subnet, PublicIP(r, n), NSG(r)}
      BY <1>1 DEF Building
    <3>2. QED
      BY <2>2, <3>1
  <2>6. r \in Role /\ n \in Nat /\ (r \notin Planes => n = 0)
    BY DEF Building
  <2>7. Tail(todo)[Len(Tail(todo))] = VM(r, n)
    BY <1>2, <2>1
  <2>8. Len(Tail(todo)) = 1 => VMNoted(c2, r, n)
    BY <1>4, <2>4
  <2>9. Len(Tail(todo)) > 1 =>
          /\ Tail(todo)[Len(Tail(todo)) - 1] = NIC(r, n)
          /\ NICRoom(c2, r) \/ \E i \in 1..Len(Tail(todo)) - 2 : Tail(todo)[i] = PublicIP(r, n)
    BY <2>1, <2>3, <2>4
  <2>10. QED
    BY <1>2, <2>1, <2>4, <2>5, <2>6, <2>7, <2>8, <2>9 DEF Building
<1>5. QED
  BY <1>1, <1>3, <1>4

LEMMA RecordLists ==
  ASSUME NEW c \in Record, NEW r \in Role
  PROVE  /\ c.nodes[r] \in Seq(Nat) /\ Len(c.nodes[r]) \in Nat /\ (c.nodes[r] # << >> => Len(c.nodes[r]) >= 1)
         /\ c.ips[r] \in Seq(Nat) /\ Len(c.ips[r]) \in Nat /\ (c.ips[r] # << >> => Len(c.ips[r]) >= 1)
         /\ c.addrs[r] \in Nat
         /\ Len(c.nodes[r]) <= Len(c.ips[r]) /\ c.addrs[r] <= Len(c.nodes[r])
         /\ r \notin Planes => c.nodes[r] \in {<< >>, <<0>>} /\ Len(c.nodes[r]) <= 1
<1>1. c.nodes[r] \in Seq(Nat) /\ c.ips[r] \in Seq(Nat) /\ c.addrs[r] \in Nat
  BY DEF Record, Config
<1>2. /\ Len(c.nodes[r]) \in Nat /\ (c.nodes[r] # << >> => Len(c.nodes[r]) >= 1)
      /\ Len(c.ips[r]) \in Nat /\ (c.ips[r] # << >> => Len(c.ips[r]) >= 1)
  BY <1>1, EmptyLen
<1>3. Len(c.nodes[r]) <= Len(c.ips[r]) /\ c.addrs[r] <= Len(c.nodes[r])
  BY DEF Record, Aligned
<1>4. r \notin Planes => c.nodes[r] \in {<< >>, <<0>>}
  BY DEF Record, Lone
<1>5. Len(<< >>) = 0 /\ Len(<<0>>) = 1
  OBVIOUS
<1>6. r \notin Planes => Len(c.nodes[r]) <= 1
  <2>1. r \notin Planes => Len(c.nodes[r]) \in {0, 1}
    BY <1>4, <1>5, Zenon
  <2>2. QED
    BY <1>2, <2>1, 0 <= 1, 1 <= 1
<1>7. QED
  BY <1>1, <1>2, <1>3, <1>4, <1>6

\* Changing one list of one role.
LEMMA ConfigExcept ==
  ASSUME NEW c \in Config, NEW r \in Role
  PROVE  /\ \A s \in Seq(Nat) : [c EXCEPT !.nodes = [c.nodes EXCEPT ![r] = s]] \in Config
         /\ \A s \in Seq(Nat) : [c EXCEPT !.ips = [c.ips EXCEPT ![r] = s]] \in Config
         /\ \A k \in Nat : [c EXCEPT !.addrs = [c.addrs EXCEPT ![r] = k]] \in Config
<1>1. /\ \A s \in Seq(Nat) : [c.nodes EXCEPT ![r] = s] \in [Role -> Seq(Nat)]
      /\ \A s \in Seq(Nat) : [c.ips EXCEPT ![r] = s] \in [Role -> Seq(Nat)]
      /\ \A k \in Nat : [c.addrs EXCEPT ![r] = k] \in [Role -> Nat]
  BY DEF Config
<1>2. /\ \A f \in [Role -> Seq(Nat)] : [c EXCEPT !.nodes = f] \in Config /\ [c EXCEPT !.ips = f] \in Config
      /\ \A f \in [Role -> Nat] : [c EXCEPT !.addrs = f] \in Config
  BY DEF Config
<1>3. QED
  BY <1>1, <1>2

LEMMA PutAppends ==
  ASSUME NEW r \in Role, NEW n \in Nat, NEW s \in Seq(Nat)
  PROVE  /\ Put(s, r, n) \in Seq(Nat) /\ InSeq(n, Put(s, r, n))
         /\ Len(Put(s, r, n)) = IF r \in Planes THEN Len(s) + 1 ELSE 1
         /\ r \in Planes => \A m \in Nat : InSeq(m, s) => InSeq(m, Put(s, r, n))
         /\ r \notin Planes => Put(s, r, n) = <<n>>
<1> DEFINE t == Put(s, r, n)
<1>1. CASE r \in Planes
  <2>1. t = Append(s, n)
    BY <1>1 DEF Put, Planes
  <2>2. /\ t \in Seq(Nat) /\ Len(t) = Len(s) + 1 /\ t[Len(s) + 1] = n
        /\ \A i \in 1..Len(s) : t[i] = s[i]
    BY <2>1, AppendProperties
  <2>3. DOMAIN t = 1..Len(s) + 1 /\ DOMAIN s = 1..Len(s) /\ Len(s) \in Nat
    BY <2>2, LenProperties
  <2> HIDE DEF t
  <2>4. Len(s) + 1 \in 1..Len(s) + 1 /\ \A i \in 1..Len(s) : i \in 1..Len(s) + 1
    BY <2>3
  <2>5. InSeq(n, t) /\ \A m \in Nat : InSeq(m, s) => InSeq(m, t)
    BY <2>2, <2>3, <2>4 DEF InSeq
  <2>6. QED
    BY <1>1, <2>2, <2>5 DEF t
<1>2. CASE r \notin Planes
  <2>1. t = <<n>>
    BY <1>2 DEF Put, Planes
  <2>2. t \in Seq(Nat) /\ Len(t) = 1 /\ DOMAIN t = {1} /\ t[1] = n
    BY <2>1
  <2>3. QED
    BY <1>2, <2>1, <2>2 DEF InSeq
<1>3. QED
  BY <1>1, <1>2

\* What is noted when a resource has been created keeps the record sound and
\* is what the rest of the list rests on.
LEMMA NotedNetwork ==
  ASSUME NEW c \in Record, NEW r \in Role, NEW x \in {VNet, Subnet, NSG(r)}
  PROVE  /\ Noted(c, x) \in Record
         /\ Noted(c, x).nodes = c.nodes /\ Noted(c, x).ips = c.ips
<1>1. x = VNet => Noted(c, x) = [c EXCEPT !.vnet = TRUE]
  BY DEF Noted
<1>2. x = Subnet => Noted(c, x) = [c EXCEPT !.subnet = TRUE]
  BY DEF Noted, VNet, Subnet, Res
<1>3. x = NSG(r) => Noted(c, x) = [c EXCEPT !.nsg = c.nsg \cup {r}]
  BY DEF Noted, VNet, Subnet, NSG, Res
<1>4. /\ c \in Config
      /\ [c EXCEPT !.vnet = TRUE] \in Config /\ [c EXCEPT !.subnet = TRUE] \in Config
      /\ [c EXCEPT !.nsg = c.nsg \cup {r}] \in Config
  BY DEF Record, Config
<1>5. Noted(c, x) \in Config
  BY <1>1, <1>2, <1>3, <1>4
<1>6. Noted(c, x).nodes = c.nodes /\ Noted(c, x).ips = c.ips /\ Noted(c, x).addrs = c.addrs
  BY <1>1, <1>2, <1>3, <1>4 DEF Config
<1>7. QED
  BY <1>5, <1>6 DEF Record, Aligned, Lone

LEMMA NotedIP ==
  ASSUME NEW c \in Record, NEW r \in Role, NEW n \in Nat
  PROVE  /\ Noted(c, PublicIP(r, n)) \in Record
         /\ Noted(c, PublicIP(r, n)).nodes = c.nodes
         /\ NICRoom(Noted(c, PublicIP(r, n)), r)
<1> DEFINE t  == Put(c.ips[r], r, n)
           c2 == Noted(c, PublicIP(r, n))
<1>1. c2 = [c EXCEPT !.ips = [c.ips EXCEPT ![r] = t]] /\ c \in Config
  BY DEF Noted, Record, VNet, Subnet, PublicIP, Res
<1>2. /\ t \in Seq(Nat) /\ t # << >> /\ Len(t) \in Nat
      /\ Len(t) = IF r \in Planes THEN Len(c.ips[r]) + 1 ELSE 1
  <2>1. c.ips[r] \in Seq(Nat) /\ Len(c.ips[r]) \in Nat
    BY RecordLists
  <2>2. /\ t \in Seq(Nat) /\ InSeq(n, t)
        /\ Len(t) = IF r \in Planes THEN Len(c.ips[r]) + 1 ELSE 1
    BY <2>1, PutAppends
  <2>3. t # << >>
    BY <2>2 DEF InSeq
  <2>4. QED
    BY <2>1, <2>2, <2>3
<1> HIDE DEF t, c2
<1>3. c2 \in Config
  BY <1>1, <1>2, ConfigExcept
<1>4. /\ c2.nodes = c.nodes /\ c2.addrs = c.addrs
      /\ c2.ips = [c.ips EXCEPT ![r] = t] /\ DOMAIN c.ips = Role
  BY <1>1 DEF Config
<1>5. Len(c2.nodes[r]) <= Len(c2.ips[r]) /\ (r \in Planes => Len(c2.nodes[r]) < Len(c2.ips[r]))
  BY <1>2, <1>4, RecordLists, SMTT(30)
<1>6. c2 \in Record
  BY <1>3, <1>4, <1>5 DEF Record, Aligned, Lone
<1>7. NICRoom(c2, r)
  BY <1>2, <1>4, <1>5 DEF NICRoom
<1>8. QED
  BY <1>4, <1>6, <1>7 DEF c2

LEMMA NotedNIC ==
  ASSUME NEW c \in Record, NEW r \in Role, NEW n \in Nat, r \notin Planes => n = 0, NICRoom(c, r)
  PROVE  /\ Noted(c, NIC(r, n)) \in Record
         /\ VMNoted(Noted(c, NIC(r, n)), r, n)
         /\ \A q \in Role, m \in Nat : InSeq(m, c.nodes[q]) => InSeq(m, Noted(c, NIC(r, n)).nodes[q])
<1> DEFINE t  == Put(c.nodes[r], r, n)
           c2 == Noted(c, NIC(r, n))
<1>1. c2 = [c EXCEPT !.nodes = [c.nodes EXCEPT ![r] = t]] /\ c \in Config
  BY DEF Noted, Record, VNet, Subnet, NIC, Res
<1>2. /\ t \in Seq(Nat) /\ InSeq(n, t)
      /\ Len(t) = IF r \in Planes THEN Len(c.nodes[r]) + 1 ELSE 1
      /\ r \notin Planes => t = <<0>>
  <2>1. c.nodes[r] \in Seq(Nat)
    BY RecordLists
  <2>2. QED
    BY <2>1, PutAppends
<1>3. ASSUME NEW m \in Nat, InSeq(m, c.nodes[r])
      PROVE  InSeq(m, t)
  <2>1. CASE r \in Planes
    BY <1>3, <2>1, RecordLists, PutAppends
  <2>2. CASE r \notin Planes
    <3>1. c.nodes[r] \in {<< >>, <<0>>}
      BY <2>2, RecordLists
    <3>2. c.nodes[r] = t
      BY <1>2, <1>3, <2>2, <3>1 DEF InSeq
    <3>3. QED
      BY <1>3, <3>2
  <2>3. QED
    BY <2>1, <2>2
<1> HIDE DEF t, c2
<1>4. c2 \in Config
  BY <1>1, <1>2, ConfigExcept
<1>5. /\ c2.ips = c.ips /\ c2.addrs = c.addrs
      /\ c2.nodes = [c.nodes EXCEPT ![r] = t] /\ DOMAIN c.nodes = Role
  BY <1>1 DEF Config
<1>6. /\ Len(c2.nodes[r]) <= Len(c2.ips[r])
      /\ c2.addrs[r] <= Len(c2.nodes[r])
      /\ r \in Planes => c2.addrs[r] < Len(c2.nodes[r])
  <2>1. /\ c2.nodes[r] = t /\ c2.ips[r] = c.ips[r] /\ c2.addrs[r] = c.addrs[r]
        /\ Len(c.nodes[r]) \in Nat /\ Len(c.ips[r]) \in Nat /\ c.addrs[r] \in Nat
        /\ Len(c.ips[r]) >= 1 /\ c.addrs[r] <= Len(c.nodes[r])
        /\ Len(c.nodes[r]) <= 1 \/ r \in Planes
    BY <1>5, RecordLists DEF NICRoom
  <2>2. CASE r \in Planes
    <3>1. Len(t) = Len(c.nodes[r]) + 1 /\ Len(c.nodes[r]) < Len(c.ips[r])
      BY <1>2, <2>2 DEF NICRoom
    <3>2. QED
      BY <2>1, <3>1
  <2>3. CASE r \notin Planes
    <3>1. Len(t) = 1 /\ Len(c.nodes[r]) <= 1
      BY <1>2, <2>1, <2>3
    <3>2. QED
      BY <2>1, <2>3, <3>1
  <2>4. QED
    BY <2>2, <2>3
<1>7. c2 \in Record
  BY <1>2, <1>4, <1>5, <1>6 DEF Record, Aligned, Lone
<1>8. VMNoted(c2, r, n)
  BY <1>2, <1>5, <1>6 DEF VMNoted
<1>9. \A q \in Role, m \in Nat : InSeq(m, c.nodes[q]) => InSeq(m, c2.nodes[q])
  BY <1>3, <1>5
<1>10. QED
  BY <1>7, <1>8, <1>9 DEF c2

LEMMA NotedVM ==
  ASSUME NEW c \in Record, NEW r \in Role, NEW n \in Nat, VMNoted(c, r, n)
  PROVE  Noted(c, VM(r, n)) \in Record /\ Noted(c, VM(r, n)).nodes = c.nodes
<1> DEFINE k  == IF r \in Planes THEN c.addrs[r] + 1 ELSE 1
           c2 == Noted(c, VM(r, n))
<1>1. c2 = [c EXCEPT !.addrs = [c.addrs EXCEPT ![r] = k]] /\ c \in Config
  BY DEF Noted, Record, VNet, Subnet, VM, Res, Planes
<1>2. k \in Nat /\ k <= Len(c.nodes[r])
  <2>1. c.nodes[r] # << >>
    BY DEF VMNoted, InSeq
  <2>2. c.addrs[r] \in Nat /\ Len(c.nodes[r]) \in Nat /\ Len(c.nodes[r]) >= 1
    BY <2>1, RecordLists
  <2>3. QED
    BY <2>2 DEF VMNoted
<1> HIDE DEF k, c2
<1>3. c2 \in Config
  BY <1>1, <1>2, ConfigExcept
<1>4. /\ c2.ips = c.ips /\ c2.nodes = c.nodes
      /\ c2.addrs = [c.addrs EXCEPT ![r] = k] /\ DOMAIN c.addrs = Role
  BY <1>1 DEF Config
<1>5. c2 \in Record
  BY <1>2, <1>3, <1>4 DEF Record, Aligned, Lone
<1>6. QED
  BY <1>4, <1>5 DEF c2

LEMMA EachIsList ==
  ASSUME NEW kind \in {"vm", "disk", "nic", "ip"}, NEW names \in [Role -> Seq(Nat)]
  PROVE  Each(kind, names) \in Seq(Resource)
<1>1. ASSUME NEW r \in Role
      PROVE  [i \in DOMAIN names[r] |-> Res(kind, r, names[r][i])] \in Seq(Resource)
  <2>1. names[r] \in Seq(Nat)
    OBVIOUS
  <2>2. Len(names[r]) \in Nat /\ DOMAIN names[r] = 1..Len(names[r]) /\ \A i \in 1..Len(names[r]) : names[r][i] \in Nat
    BY <2>1, LenProperties, ElementOfSeq
  <2>3. \A i \in DOMAIN names[r] : Res(kind, r, names[r][i]) \in Resource
    BY <2>2 DEF Res, Resource
  <2>4. [i \in DOMAIN names[r] |-> Res(kind, r, names[r][i])] \in [1..Len(names[r]) -> Resource]
    BY <2>2, <2>3
  <2>5. QED
    BY <2>2, <2>4, SeqDef
<1> DEFINE E(r) == [i \in DOMAIN names[r] |-> Res(kind, r, names[r][i])]
<1>2. E("cp") \in Seq(Resource) /\ E("wp") \in Seq(Resource) /\ E("db") \in Seq(Resource) /\ E("lb") \in Seq(Resource)
  BY <1>1 DEF Role
<1>3. Each(kind, names) = E("cp") \o E("wp") \o E("db") \o E("lb")
  BY DEF Each
<1> HIDE DEF E
<1>4. QED
  BY <1>2, <1>3, ConcatProperties

LEMMA GroupsOfIsList ==
  ASSUME NEW c
  PROVE  GroupsOf(c) \in Seq(Resource)
<1>1. ASSUME NEW r \in Role
      PROVE  GroupOf(c, r) \in Seq(Resource)
  <2>1. NSG(r) \in Resource
    BY DEF NSG, Res, Resource
  <2>2. QED
    BY <2>1 DEF GroupOf
<1>2. /\ GroupOf(c, "cp") \in Seq(Resource) /\ GroupOf(c, "wp") \in Seq(Resource)
      /\ GroupOf(c, "db") \in Seq(Resource) /\ GroupOf(c, "lb") \in Seq(Resource)
  BY <1>1 DEF Role
<1>3. QED
  BY <1>2, ConcatProperties DEF GroupsOf

\* The group is the last on the list of a deletion.
LEMMA TeardownEnds ==
  ASSUME NEW c \in Record
  PROVE  /\ Teardown(c) \in Seq(Resource) /\ Teardown(c) # << >>
         /\ Teardown(c)[Len(Teardown(c))] = Group
<1> DEFINE machines == Each("vm", c.nodes) \o Each("disk", c.nodes) \o Each("nic", c.nodes)
                       \o GroupsOf(c) \o Each("ip", c.ips)
           rest == <<Subnet, VNet, SSHKey, Group>>
<1>1. c.nodes \in [Role -> Seq(Nat)] /\ c.ips \in [Role -> Seq(Nat)]
  BY DEF Record, Config
<1>2. machines \in Seq(Resource)
  BY <1>1, EachIsList, GroupsOfIsList, ConcatProperties
<1>3. rest \in Seq(Resource) /\ Len(rest) = 4 /\ rest[4] = Group
  <2>1. "lb" \in Role /\ 0 \in Nat
    BY DEF Role
  <2>2. {Subnet, VNet, SSHKey, Group} \subseteq Resource
    BY <2>1, NamesAreResources
  <2>3. QED
    BY <2>2
<1>4. Teardown(c) = machines \o rest
  BY DEF Teardown
<1> HIDE DEF machines, rest
<1>5. Len(machines) \in Nat
  BY <1>2, LenProperties
<1>6. /\ machines \o rest \in Seq(Resource) /\ Len(machines \o rest) = Len(machines) + 4
      /\ (machines \o rest)[Len(machines) + 4] = rest[(Len(machines) + 4) - Len(machines)]
  <2>1. /\ machines \o rest \in Seq(Resource) /\ Len(machines \o rest) = Len(machines) + Len(rest)
        /\ \A i \in 1..Len(machines) + Len(rest) :
             (machines \o rest)[i] = IF i <= Len(machines) THEN machines[i] ELSE rest[i - Len(machines)]
    BY <1>2, <1>3, ConcatProperties
  <2>2. Len(machines) + 4 \in 1..Len(machines) + Len(rest) /\ ~(Len(machines) + 4 <= Len(machines))
    BY <1>3, <1>5
  <2>3. QED
    BY <1>3, <2>1, <2>2
<1>7. machines \o rest # << >>
  BY <1>5, <1>6, EmptyLen
<1>8. QED
  BY <1>3, <1>4, <1>5, <1>6, <1>7

\* The rest of a list that ends with the group, when its first is not.
LEMMA TeardownGoesOn ==
  ASSUME NEW todo \in Seq(Resource), todo # << >>, todo[Len(todo)] = Group, Head(todo).kind # "group"
  PROVE  /\ Tail(todo) \in Seq(Resource) /\ Tail(todo) # << >>
         /\ Tail(todo)[Len(Tail(todo))] = Group
<1>1. PICK k \in Nat : k = Len(todo) /\ k # 0
  BY EmptyLen
<1>2. k # 1
  BY <1>1 DEF Group, Res
<1>3. /\ Tail(todo) \in Seq(Resource) /\ Len(Tail(todo)) = k - 1
      /\ \A i \in 1..k - 1 : Tail(todo)[i] = todo[i + 1]
  BY <1>1, HeadTailProperties
<1>4. k - 1 \in 1..k - 1 /\ (k - 1) + 1 = k
  BY <1>1, <1>2
<1>5. Tail(todo) # << >>
  <2>1. Len(Tail(todo)) # 0
    BY <1>1, <1>2, <1>3
  <2>2. QED
    BY <1>3, <2>1, EmptyLen
<1>6. QED
  BY <1>1, <1>3, <1>4, <1>5

-----------------------------------------------------------------------------
(* Removing a worker                                                       *)

LastWorker(c) == c.nodes["wp"][Len(c.nodes["wp"])]
LastIP(c)     == c.ips["wp"][Len(c.nodes["wp"])]

\* Of the last worker of c, todo is left to delete, and S has no more of it.
Stripping(c, S, todo) ==
  LET w  == LastWorker(c)
      ip == PublicIP("wp", LastIP(c)) IN
  \/ todo = <<VM("wp", w), OSDisk("wp", w), NIC("wp", w), ip>>
  \/ todo = <<OSDisk("wp", w), NIC("wp", w), ip>> /\ VM("wp", w) \notin S
  \/ todo \in {<<NIC("wp", w), ip>>, <<ip>>, << >>} /\ {VM("wp", w), OSDisk("wp", w)} \cap S = {}

LEMMA LastTyped ==
  ASSUME NEW c \in Record, Len(c.nodes["wp"]) >= 1
  PROVE  /\ LastWorker(c) \in Nat /\ LastIP(c) \in Nat
         /\ {VM("wp", LastWorker(c)), OSDisk("wp", LastWorker(c)), NIC("wp", LastWorker(c)),
             PublicIP("wp", LastIP(c))} \subseteq Resource
<1>1. /\ c.nodes["wp"] \in Seq(Nat) /\ Len(c.nodes["wp"]) \in Nat
      /\ c.ips["wp"] \in Seq(Nat) /\ Len(c.ips["wp"]) \in Nat
      /\ Len(c.nodes["wp"]) <= Len(c.ips["wp"])
  BY RecordLists DEF Role
<1>2. Len(c.nodes["wp"]) \in 1..Len(c.nodes["wp"]) /\ Len(c.nodes["wp"]) \in 1..Len(c.ips["wp"])
  BY <1>1
<1>3. LastWorker(c) \in Nat /\ LastIP(c) \in Nat
  BY <1>1, <1>2, ElementOfSeq DEF LastWorker, LastIP
<1>4. QED
  BY <1>3, NamesAreResources DEF Role

LEMMA StripStarts ==
  ASSUME NEW c \in Record, Len(c.nodes["wp"]) >= 1, NEW S
  PROVE  Strip(c) \in Seq(Resource) /\ Strip(c) # << >> /\ Stripping(c, S, Strip(c))
<1>1. Strip(c) = <<VM("wp", LastWorker(c)), OSDisk("wp", LastWorker(c)), NIC("wp", LastWorker(c)),
                   PublicIP("wp", LastIP(c))>>
  BY DEF Strip, LastWorker, LastIP
<1>2. QED
  BY <1>1, LastTyped DEF Stripping

\* Deleting the first on the list.
LEMMA StripGoesOn ==
  ASSUME NEW c, NEW S, NEW todo, Stripping(c, S, todo), todo # << >>
  PROVE  Stripping(c, DeletedFrom(S, Head(todo)), Tail(todo))
<1> DEFINE a == VM("wp", LastWorker(c))
           b == OSDisk("wp", LastWorker(c))
           d == NIC("wp", LastWorker(c))
           e == PublicIP("wp", LastIP(c))
<1>1. \A x \in {a, b, d, e} : DeletedFrom(S, x) = S \ {x}
  BY DEF DeletedFrom, VM, OSDisk, NIC, PublicIP, Res
<1> HIDE DEF a, b, d, e
<1>2. CASE todo = <<a, b, d, e>>
  BY <1>1, <1>2 DEF Stripping, a, b, d, e
<1>3. CASE todo = <<b, d, e>> /\ a \notin S
  BY <1>1, <1>3 DEF Stripping, a, b, d, e
<1>4. CASE todo = <<d, e>> /\ {a, b} \cap S = {}
  BY <1>1, <1>4 DEF Stripping, a, b, d, e
<1>5. CASE todo = <<e>> /\ {a, b} \cap S = {}
  BY <1>1, <1>5 DEF Stripping, a, b, d, e
<1>6. QED
  BY <1>2, <1>3, <1>4, <1>5 DEF Stripping, a, b, d, e

\* At the end of the round only the last worker goes from the record.
LEMMA TrimKeeps ==
  ASSUME NEW c \in Record, Len(c.nodes["wp"]) >= 1
  PROVE  /\ Trimmed(c) \in Record
         /\ Len(Trimmed(c).nodes["wp"]) = Len(c.nodes["wp"]) - 1
         /\ \A q \in Role, m \in Nat :
              InSeq(m, c.nodes[q]) => InSeq(m, Trimmed(c).nodes[q]) \/ (q = "wp" /\ m = LastWorker(c))
<1> DEFINE s == c.nodes["wp"]
           t == c.ips["wp"]
           k == Len(s) - 1
           c2 == Trimmed(c)
<1>1. /\ s \in Seq(Nat) /\ t \in Seq(Nat) /\ Len(s) \in Nat /\ Len(t) \in Nat
      /\ Len(s) <= Len(t) /\ k \in Nat /\ "wp" \in Role /\ "wp" \in Planes
      /\ DOMAIN s = 1..Len(s) /\ c \in Config /\ k = Len(s) - 1
  <2>1. "wp" \in Role
    BY DEF Role
  <2>2. /\ s \in Seq(Nat) /\ t \in Seq(Nat) /\ Len(s) \in Nat /\ Len(t) \in Nat /\ Len(s) <= Len(t)
    BY <2>1, RecordLists
  <2>3. k \in Nat
    BY <2>2
  <2>4. QED
    BY <2>1, <2>2, <2>3, LenProperties DEF Record, Planes
<1>2. /\ Front(s, k) \in Seq(Nat) /\ Len(Front(s, k)) = k
      /\ \A i \in 1..k : Front(s, k)[i] = s[i]
  <2> HIDE DEF s
  <2>1. /\ 1 \in Int /\ k \in Int /\ \A i \in 1..k : i \in 1..Len(s)
    BY <1>1
  <2>2. \A i \in 1..k : s[i] \in Nat
    BY <1>1, <2>1, ElementOfSeq
  <2> HIDE DEF k
  <2>3. /\ SubSeq(s, 1, k) \in Seq(Nat)
        /\ Len(SubSeq(s, 1, k)) = IF 1 <= k THEN k - 1 + 1 ELSE 0
        /\ \A i \in 1..k - 1 + 1 : SubSeq(s, 1, k)[i] = s[1 + i - 1]
    BY <2>1, <2>2, SubSeqProperties
  <2>4. QED
    BY <1>1, <2>3 DEF Front
<1>3. Front(t, k) \in Seq(Nat) /\ Len(Front(t, k)) = k
  <2> HIDE DEF s, t
  <2>1. /\ 1 \in Int /\ k \in Int /\ \A i \in 1..k : i \in 1..Len(t)
    BY <1>1
  <2>2. \A i \in 1..k : t[i] \in Nat
    BY <1>1, <2>1, ElementOfSeq
  <2> HIDE DEF k
  <2>3. /\ SubSeq(t, 1, k) \in Seq(Nat)
        /\ Len(SubSeq(t, 1, k)) = IF 1 <= k THEN k - 1 + 1 ELSE 0
    BY <2>1, <2>2, SubSeqProperties
  <2>4. QED
    BY <1>1, <2>3 DEF Front
<1> DEFINE c0 == [c EXCEPT !.nodes = [c.nodes EXCEPT !["wp"] = Front(s, k)]]
           c1 == [c0 EXCEPT !.ips = [c0.ips EXCEPT !["wp"] = Front(t, k)]]
<1>4. c2 = [c1 EXCEPT !.addrs = [c1.addrs EXCEPT !["wp"] = k]]
  BY <1>1 DEF Trimmed, Config
<1>5. c0 \in Config
  BY <1>1, <1>2, ConfigExcept
<1>6. c1 \in Config
  <2> HIDE DEF c0
  <2>1. QED
    BY <1>1, <1>3, <1>5, ConfigExcept
<1>7. c2 \in Config
  <2> HIDE DEF c1, c2, k
  <2>1. QED
    BY <1>1, <1>4, <1>6, ConfigExcept
<1>8. /\ c2.nodes = [c.nodes EXCEPT !["wp"] = Front(s, k)]
      /\ c2.ips = [c.ips EXCEPT !["wp"] = Front(t, k)]
      /\ c2.addrs = [c.addrs EXCEPT !["wp"] = k]
      /\ DOMAIN c.nodes = Role /\ DOMAIN c.ips = Role /\ DOMAIN c.addrs = Role
  BY <1>1 DEF Trimmed, Config
<1> HIDE DEF c2, s, t, k, c0, c1
<1>9. c2 \in Record
  <2>1. c2.nodes["wp"] = Front(s, k) /\ c2.ips["wp"] = Front(t, k) /\ c2.addrs["wp"] = k
    BY <1>1, <1>8
  <2>2. \A r \in Role \ {"wp"} : c2.nodes[r] = c.nodes[r] /\ c2.ips[r] = c.ips[r] /\ c2.addrs[r] = c.addrs[r]
    BY <1>8
  <2>3. Len(c2.nodes["wp"]) <= Len(c2.ips["wp"]) /\ c2.addrs["wp"] <= Len(c2.nodes["wp"])
    BY <1>1, <1>2, <1>3, <2>1
  <2>4. Aligned(c2)
    BY <2>2, <2>3 DEF Record, Aligned
  <2>5. Lone(c2)
    BY <2>2 DEF Record, Lone, Planes
  <2>6. QED
    BY <1>7, <2>4, <2>5 DEF Record
<1>10. ASSUME NEW m \in Nat, InSeq(m, s), m # LastWorker(c)
       PROVE  InSeq(m, Front(s, k))
  <2>1. PICK i \in 1..Len(s) : s[i] = m
    BY <1>1, <1>10 DEF InSeq
  <2>2. i # Len(s)
    BY <1>10, <2>1 DEF LastWorker, s
  <2>3. i \in 1..k
    <3>1. \A a \in Nat : \A b \in 1..a : b # a => b \in 1..a - 1
      OBVIOUS
    <3>2. QED
      BY <1>1, <2>1, <2>2, <3>1
  <2>4. DOMAIN Front(s, k) = 1..k
    BY <1>2, LenProperties
  <2>5. QED
    BY <1>2, <2>1, <2>3, <2>4 DEF InSeq
<1>11. QED
  BY <1>1, <1>2, <1>8, <1>9, <1>10 DEF c2, s, k

-----------------------------------------------------------------------------
(* The invariant                                                           *)

\* The stages in which the running command knows more than the file.
Knowing == CreateStage \cup BuildStage

\* delete-nodes works on the record of the file, which has the workers left
\* to remove.
Removing ==
  /\ job.mem = Info
  /\ job.rounds \in 1..Len(Info.nodes["wp"])
  /\ Stripping(Info, live, IF pc = "strip" THEN job.todo ELSE << >>)

\* The records are sound, a file that is not whole holds none, and the lists
\* of resources are what is left of those the functions start with.
RInv ==
  /\ TypeOK
  /\ disk.file # "saved" => Info = EmptyConfig
  /\ Info \in Record /\ job.mem \in Record
  /\ pc = "build" => Building(job.mem, job.role, job.n, job.todo)
  /\ pc = "wipe" => job.todo[Len(job.todo)] = Group
  /\ pc \in RemoveStage => Removing
  /\ MachinesRemembered

\* There are no machines but those c names.
AllNamed(c, S) == \A r \in S : r.kind \in {"vm", "disk"} => Names(c, r)

LEMMA FaultsTyped ==
  ASSUME seen \subseteq Faults, hits \in 0..MaxFaults, NoHit \/ \E f \in FaultKind : Hit(f)
  PROVE  seen' \subseteq Faults /\ hits' \in 0..MaxFaults /\ seen \subseteq seen'
BY BoundsAssumption DEF NoHit, Hit

\* A record that names the same machines and perhaps more.
LEMMA MoreNamed ==
  ASSUME NEW c, NEW c2, NEW S \in SUBSET Resource, AllNamed(c, S),
         \A q \in Role, m \in Nat : InSeq(m, c.nodes[q]) => InSeq(m, c2.nodes[q])
  PROVE  AllNamed(c2, S)
BY DEF AllNamed, Names, Resource

\* A call to create r; only a call that reports an error may have no effect.
LEMMA CallCreates ==
  ASSUME NEW r \in Resource, live \in SUBSET Resource, Creates(r) \/ CreateFails(r)
  PROVE  /\ live' \in SUBSET Resource
         /\ r.kind # "vm" => \A x \in live' : x \in live \/ x = r
         /\ r.kind = "vm" => \A x \in live' : x \in live \/ x \in {r, OSDisk(r.role, r.n)}
<1>1. OSDisk(r.role, r.n) \in Resource
  BY DEF Resource, OSDisk, Res
<1>2. r = VNet => r.kind # "vm"
  BY DEF VNet, Res
<1>3. live' \in {live, PutIn(live, r)}
  BY DEF Creates, CreateFails
<1>4. QED
  BY <1>1, <1>2, <1>3 DEF PutIn

\* The record is written, or a write has failed.
LEMMA WriterWrites ==
  ASSUME disk \in Disk, Info \in Record, disk.file # "saved" => Info = EmptyConfig, NEW c \in Record,
         \/ disk' = Saved(c) /\ NoHit
         \/ Hit("disk") /\ disk' \in {disk, Torn}
  PROVE  /\ disk' \in Disk /\ Info' \in Record
         /\ disk'.file # "saved" => Info' = EmptyConfig
         /\ Info' = c \/ "disk" \in seen'
         /\ NoHit \/ \E f \in FaultKind : Hit(f)
<1>1. CASE disk' = Saved(c) /\ NoHit
  BY <1>1 DEF Saved, Info, Disk, Record
<1>2. CASE Hit("disk") /\ disk' = disk
  BY <1>2 DEF Info, Hit, FaultKind
<1>3. CASE Hit("disk") /\ disk' = Torn
  BY <1>3, EmptyIsRecord DEF Torn, Info, Hit, FaultKind, Disk, Record
<1>4. QED
  BY <1>1, <1>2, <1>3

-----------------------------------------------------------------------------
(* Kinds of steps                                                          *)

\* The command goes on creating, and knows at least what it knew.
LEMMA GoesOnCreating ==
  ASSUME RInv, pc \in Knowing, pc' \in Knowing,
         job' \in Job, job'.mem \in Record,
         \A q \in Role, m \in Nat : InSeq(m, job.mem.nodes[q]) => InSeq(m, job'.mem.nodes[q]),
         pc' = "build" => Building(job'.mem, job'.role, job'.n, job'.todo),
         live' \in SUBSET Resource,
         \A r \in live' : r \in live \/ r.kind \notin {"vm", "disk"} \/ Names(job'.mem, r),
         disk' \in Disk, disk'.file = disk.file, Info' = Info,
         NoHit \/ \E f \in FaultKind : Hit(f), UNCHANGED outcome
  PROVE  RInv'
<1>1. pc' \in Stage /\ pc' \notin {"wipe", "strip", "trim", "idle"}
  BY DEF Stage, Knowing, CreateStage, BuildStage
<1>2. seen' \subseteq Faults /\ hits' \in 0..MaxFaults /\ seen \subseteq seen'
  BY FaultsTyped DEF RInv, TypeOK
<1>3. pc' = "build" => job'.todo # << >>
  BY DEF Building
<1>4. TypeOK'
  BY <1>1, <1>2, <1>3 DEF RInv, TypeOK
<1>5. MachinesRemembered'
  <2>1. SUFFICES ASSUME seen' \cap {"crash", "disk"} = {}
                 PROVE  AllNamed(job'.mem, live')
    BY DEF MachinesRemembered, Remembered, AllNamed, Knowing
  <2>2. AllNamed(job.mem, live)
    BY <1>2, <2>1 DEF RInv, MachinesRemembered, Remembered, AllNamed, Knowing
  <2>3. AllNamed(job'.mem, live)
    BY <2>2, MoreNamed DEF RInv, TypeOK
  <2>4. QED
    BY <2>3 DEF AllNamed
<1>6. QED
  BY <1>1, <1>4, <1>5 DEF RInv, RemoveStage, Info

\* The command writes what it knows.
LEMMA WritesWhatItKnows ==
  ASSUME RInv, pc \in Knowing, pc' \in Knowing \cup {"idle", "read"},
         ConfigWriter(job), UNCHANGED live,
         job' \in Job, job'.mem \in Record, pc' \in Knowing => job'.mem = job.mem,
         pc' = "build" => Building(job'.mem, job'.role, job'.n, job'.todo),
         outcome' \in Outcome
  PROVE  RInv'
<1>1. pc' \in Stage /\ pc' \notin {"wipe", "strip", "trim"}
  BY DEF Stage, Knowing, CreateStage, BuildStage, DeleteStage
<1>2. /\ disk' \in Disk /\ Info' \in Record
      /\ disk'.file # "saved" => Info' = EmptyConfig
      /\ Info' = job.mem \/ "disk" \in seen'
      /\ NoHit \/ \E f \in FaultKind : Hit(f)
  BY WriterWrites DEF RInv, TypeOK, ConfigWriter
<1>3. seen' \subseteq Faults /\ hits' \in 0..MaxFaults /\ seen \subseteq seen'
  BY <1>2, FaultsTyped DEF RInv, TypeOK
<1>4. TypeOK'
  BY <1>1, <1>2, <1>3 DEF RInv, TypeOK, Building
<1>5. MachinesRemembered'
  <2>1. SUFFICES ASSUME seen' \cap {"crash", "disk"} = {}
                 PROVE  AllNamed(Remembered', live')
    BY DEF MachinesRemembered, AllNamed
  <2>2. AllNamed(job.mem, live)
    BY <1>3, <2>1 DEF RInv, MachinesRemembered, Remembered, AllNamed, Knowing
  <2>3. Remembered' = job.mem
    BY <1>2, <2>1 DEF Remembered, Knowing
  <2>4. QED
    BY <2>2, <2>3
<1>6. QED
  BY <1>1, <1>2, <1>4, <1>5 DEF RInv, RemoveStage

\* The command goes by the record of the file, and deletes at most.
LEMMA GoesByTheFile ==
  ASSUME RInv, pc \notin Knowing, pc' \in {"idle", "read", "drop", "wipe", "strip", "trim"},
         UNCHANGED disk, live' \subseteq live,
         job' \in Job, job'.mem \in Record,
         pc' \in {"wipe", "strip"} => job'.todo # << >>,
         pc' = "wipe" => job'.todo[Len(job'.todo)] = Group,
         pc' \in RemoveStage => Removing',
         NoHit \/ \E f \in FaultKind : Hit(f), outcome' \in Outcome
  PROVE  RInv'
<1>1. pc' \in Stage /\ pc' # "build" /\ pc' \notin Knowing
  BY DEF Stage, DeleteStage, RemoveStage, Knowing, CreateStage, BuildStage
<1>2. seen' \subseteq Faults /\ hits' \in 0..MaxFaults /\ seen \subseteq seen'
  BY FaultsTyped DEF RInv, TypeOK
<1>3. TypeOK'
  BY <1>1, <1>2 DEF RInv, TypeOK
<1>4. MachinesRemembered'
  BY <1>1, <1>2 DEF RInv, MachinesRemembered, Remembered, Info, Names, Knowing
<1>5. QED
  BY <1>1, <1>3, <1>4 DEF RInv, Info

-----------------------------------------------------------------------------
(* The actions                                                             *)

LEMMA JobTyped ==
  /\ NoJob \in Job /\ NoJob.mem \in Record
  /\ \A j \in Job : j.role \in Role /\ j.n \in Nat /\ j.mem \in Config /\ j.todo \in Seq(Resource)
BY EmptyIsRecord DEF NoJob, Job, Role, Record

\* The first thing done for a machine.
LEMMA BuildMachineStarts ==
  ASSUME NEW j \in Job, j.mem \in Record, NEW r \in Role, NEW n \in Nat, r \notin Planes => n = 0,
         BuildMachine(j, r, n)
  PROVE  /\ pc' = "build" /\ job' \in Job /\ job'.mem = j.mem /\ UNCHANGED outcome
         /\ Building(job'.mem, job'.role, job'.n, job'.todo)
<1> DEFINE plan == Plan(j.mem, r, n)
<1>1. Building(j.mem, r, n, plan)
  BY PlanBuilds
<1>2. plan \in Seq(Resource)
  BY <1>1 DEF Building
<1> HIDE DEF plan
<1>3. pc' = "build" /\ job' = [j EXCEPT !.role = r, !.n = n, !.todo = plan] /\ UNCHANGED outcome
  BY DEF BuildMachine, Continue, plan
<1>4. job' \in Job /\ job'.mem = j.mem /\ job'.role = r /\ job'.n = n /\ job'.todo = plan
  BY <1>2, <1>3 DEF Job
<1>5. QED
  BY <1>1, <1>3, <1>4

LEMMA MachinesStart ==
  ASSUME NEW j \in Job, j.mem \in Record,
         \/ createLoadBalancer(j) \/ createDatabase(j)
         \/ \E n \in Nat : createControlPlane(j, n) \/ createWorkerPlane(j, n)
  PROVE  /\ pc' = "build" /\ job' \in Job /\ job'.mem = j.mem /\ UNCHANGED outcome
         /\ Building(job'.mem, job'.role, job'.n, job'.todo)
BY BuildMachineStarts DEF createLoadBalancer, createDatabase, createControlPlane, createWorkerPlane, Role, Planes

LEMMA AbortTyped ==
  ASSUME NEW j \in Job, Abort(j)
  PROVE  pc' = "exit" /\ job' \in Job /\ job'.mem = j.mem /\ UNCHANGED outcome
BY DEF Abort, Continue, Job

LEMMA RefuseKeeps ==
  ASSUME RInv, Refuse
  PROVE  RInv'
BY DEF RInv, Refuse, vars, TypeOK, Info, MachinesRemembered, Remembered, Removing

\* A command starts; it knows what the file holds.
LEMMA CommandStarts ==
  ASSUME RInv, pc = "idle", NoHit, UNCHANGED <<live, disk>>, outcome' = "none",
         pc' \in {"group", "read", "build", "strip"},
         job' \in Job, job'.mem \in Record,
         pc' \in {"group", "build", "strip"} => job'.mem = Info,
         pc' \in {"build", "strip"} => job'.todo # << >>,
         pc' = "build" => Building(job'.mem, job'.role, job'.n, job'.todo),
         pc' = "strip" => Removing'
  PROVE  RInv'
<1>1. pc' \in Stage /\ (pc' \in Knowing <=> pc' \in {"group", "build"}) /\ pc \notin Knowing
  BY DEF Stage, Knowing, CreateStage, BuildStage, DeleteStage, RemoveStage
<1>2. TypeOK'
  BY <1>1 DEF RInv, TypeOK, NoHit, Outcome
<1>3. MachinesRemembered'
  BY <1>1 DEF RInv, MachinesRemembered, Remembered, Info, Names, Knowing, NoHit
<1>4. QED
  BY <1>2, <1>3 DEF RInv, Info, RemoveStage

LEMMA StartCreateKeeps ==
  ASSUME RInv, StartCreate
  PROVE  RInv'
<1>1. CASE Refuse
  BY <1>1, RefuseKeeps
<1>2. CASE ~Refuse
  <2>1. PICK cps \in CPCounts, wps \in WPCounts :
          /\ ~isPresent /\ NoHit /\ UNCHANGED <<live, disk>>
          /\ Begin("group", [NoJob EXCEPT !.op = "create", !.cps = cps, !.wps = wps])
    BY <1>2 DEF StartCreate
  <2>2. job' \in Job /\ job'.mem = NoJob.mem
    BY <2>1, JobTyped, CountsAssumption DEF Begin, Job
  <2>3. job'.mem = Info
    BY <2>1, <2>2 DEF RInv, isPresent, NoJob
  <2>4. QED
    BY <2>1, <2>2, <2>3, JobTyped, CommandStarts DEF StartCreate, Begin
<1>3. QED
  BY <1>1, <1>2

LEMMA StartDeleteKeeps ==
  ASSUME RInv, StartDelete
  PROVE  RInv'
<1>1. CASE Refuse
  BY <1>1, RefuseKeeps
<1>2. CASE ~Refuse
  <2>1. Begin("read", [NoJob EXCEPT !.op = "delete"]) /\ NoHit /\ UNCHANGED <<live, disk>>
    BY <1>2 DEF StartDelete
  <2>2. job' \in Job /\ job'.mem = NoJob.mem
    BY <2>1, JobTyped DEF Begin, Job
  <2>3. QED
    BY <2>1, <2>2, JobTyped, CommandStarts DEF StartDelete, Begin
<1>3. QED
  BY <1>1, <1>2

LEMMA StartAddKeeps ==
  ASSUME RInv, StartAdd
  PROVE  RInv'
<1>1. CASE Refuse
  BY <1>1, RefuseKeeps
<1>2. CASE ~Refuse
  <2> DEFINE base == Len(Info.nodes["wp"])
             plan == Plan(Info, "wp", base + 1)
  <2>1. PICK k \in WPCounts \ {0} :
          /\ Begin("build", [NoJob EXCEPT !.op = "add", !.mem = Info, !.role = "wp", !.n = base + 1,
                                          !.wps = base + k, !.todo = plan])
          /\ NoHit /\ UNCHANGED <<live, disk>>
    BY <1>2 DEF StartAdd
  <2>2. base \in Nat /\ base + 1 \in Nat /\ base + k \in Nat
    BY RecordLists, CountsAssumption DEF RInv, Role
  <2>3. Building(Info, "wp", base + 1, plan)
    BY <2>2, PlanBuilds DEF Role, Planes
  <2>4. plan \in Seq(Resource) /\ plan # << >> /\ Info \in Config /\ Info \in Record
    BY <2>3 DEF Building, RInv, Record
  <2> HIDE DEF base, plan
  <2>5. /\ job' \in Job /\ job'.mem = Info /\ job'.role = "wp" /\ job'.n = base + 1
        /\ job'.todo = plan
    BY <2>1, <2>2, <2>4, JobTyped DEF Begin, Job, Role
  <2>6. QED
    BY <2>1, <2>3, <2>4, <2>5, CommandStarts DEF StartAdd, Begin
<1>3. QED
  BY <1>1, <1>2

LEMMA StartRemoveKeeps ==
  ASSUME RInv, StartRemove
  PROVE  RInv'
<1>1. CASE Refuse
  BY <1>1, RefuseKeeps
<1>2. CASE ~Refuse
  <2>1. PICK k \in WPCounts \ {0} :
          /\ k <= Len(Info.nodes["wp"])
          /\ Begin("strip", [NoJob EXCEPT !.op = "remove", !.mem = Info, !.rounds = k, !.todo = Strip(Info)])
          /\ NoHit /\ UNCHANGED <<live, disk>>
    BY <1>2 DEF StartRemove
  <2>2. k \in 1..Len(Info.nodes["wp"]) /\ k \in Nat /\ Len(Info.nodes["wp"]) >= 1
    BY <2>1, RecordLists, CountsAssumption DEF RInv, Role
  <2>3. Strip(Info) \in Seq(Resource) /\ Strip(Info) # << >> /\ Stripping(Info, live, Strip(Info))
    BY <2>2, StripStarts DEF RInv
  <2>4. job' \in Job /\ job'.mem = Info /\ job'.rounds = k /\ job'.todo = Strip(Info) /\ Info \in Record
    BY <2>1, <2>2, <2>3, JobTyped DEF Begin, Job, RInv, Record
  <2>5. pc' = "strip" /\ UNCHANGED <<live, disk>> /\ outcome' = "none"
    BY <2>1 DEF Begin
  <2>6. Info' = Info
    BY <2>5 DEF Info
  <2>7. Removing'
    BY <2>2, <2>3, <2>4, <2>5, <2>6 DEF Removing
  <2>8. QED
    BY <2>1, <2>3, <2>4, <2>5, <2>7, CommandStarts DEF StartRemove
<1>3. QED
  BY <1>1, <1>2

\* Calls that create what is no machine.
LEMMA CreatesNoMachine ==
  ASSUME NEW r \in {Group, SSHKey}, live \in SUBSET Resource, Creates(r) \/ CreateFails(r)
  PROVE  /\ live' \in SUBSET Resource
         /\ \A x \in live' : x \in live \/ x.kind \notin {"vm", "disk"}
<1>1. r \in Resource /\ r.kind \notin {"vm", "disk"}
  BY DEF Group, SSHKey, Res, Resource
<1>2. QED
  BY <1>1, CallCreates

LEMMA CreateResourceGroupKeeps ==
  ASSUME RInv, CreateResourceGroup
  PROVE  RInv'
<1>1. Creates(Group) \/ CreateFails(Group)
  BY DEF CreateResourceGroup
<1>2. /\ live' \in SUBSET Resource
      /\ \A x \in live' : x \in live \/ x.kind \notin {"vm", "disk"}
      /\ NoHit \/ \E f \in FaultKind : Hit(f)
  BY <1>1, CreatesNoMachine, CallsHit DEF RInv, TypeOK
<1>3. pc' \in {"keygen", "exit"} /\ job' \in Job /\ job'.mem = job.mem /\ UNCHANGED outcome
  BY AbortTyped DEF CreateResourceGroup, Continue, RInv, TypeOK
<1>4. pc \in Knowing /\ pc' \in Knowing /\ pc' # "build" /\ UNCHANGED disk
  BY <1>3 DEF CreateResourceGroup, Knowing, CreateStage
<1>5. QED
  BY <1>2, <1>3, <1>4, GoesOnCreating DEF RInv, TypeOK, Info

LEMMA CreateSSHKeyPairKeeps ==
  ASSUME RInv, CreateSSHKeyPair
  PROVE  RInv'
<1>1. disk' \in Disk /\ disk'.file = disk.file /\ Info' = Info
  BY DEF CreateSSHKeyPair, RInv, TypeOK, Disk, Info
<1>2. pc' \in {"key", "exit"} /\ job' \in Job /\ job'.mem = job.mem /\ UNCHANGED outcome
  BY AbortTyped DEF CreateSSHKeyPair, Continue, RInv, TypeOK
<1>3. pc \in Knowing /\ pc' \in Knowing /\ pc' # "build" /\ UNCHANGED live
  BY <1>2 DEF CreateSSHKeyPair, Knowing, CreateStage
<1>4. NoHit \/ \E f \in FaultKind : Hit(f)
  BY DEF CreateSSHKeyPair, FaultKind
<1>5. QED
  BY <1>1, <1>2, <1>3, <1>4, GoesOnCreating DEF RInv, TypeOK

LEMMA UploadSSHKeyKeeps ==
  ASSUME RInv, UploadSSHKey
  PROVE  RInv'
<1> DEFINE j == [job EXCEPT !.mem.key = TRUE]
<1>1. j \in Job /\ j.mem \in Record /\ j.mem.nodes = job.mem.nodes
  <2>1. j = [job EXCEPT !.mem = [job.mem EXCEPT !.key = TRUE]]
    BY DEF RInv, TypeOK, Job
  <2>2. /\ [job.mem EXCEPT !.key = TRUE] \in Config
        /\ [job.mem EXCEPT !.key = TRUE].nodes = job.mem.nodes
        /\ [job.mem EXCEPT !.key = TRUE].ips = job.mem.ips
        /\ [job.mem EXCEPT !.key = TRUE].addrs = job.mem.addrs
    BY JobTyped DEF RInv, TypeOK, Config
  <2>3. [job.mem EXCEPT !.key = TRUE] \in Record
    BY <2>2 DEF RInv, Record, Aligned, Lone
  <2>4. QED
    BY <2>1, <2>2, <2>3 DEF RInv, TypeOK, Job
<1> HIDE DEF j
<1>2. /\ \/ Creates(SSHKey) /\ createLoadBalancer(j)
         \/ CreateFails(SSHKey) /\ Abort(j)
      /\ pc = "key" /\ UNCHANGED disk
  BY DEF UploadSSHKey, j
<1>3. /\ live' \in SUBSET Resource
      /\ \A x \in live' : x \in live \/ x.kind \notin {"vm", "disk"}
      /\ NoHit \/ \E f \in FaultKind : Hit(f)
  BY <1>2, CreatesNoMachine, CallsHit DEF RInv, TypeOK
<1>4. /\ pc' \in {"build", "exit"} /\ job' \in Job /\ job'.mem = j.mem /\ UNCHANGED outcome
      /\ pc' = "build" => Building(job'.mem, job'.role, job'.n, job'.todo)
  BY <1>1, <1>2, AbortTyped, MachinesStart
<1>5. pc \in Knowing /\ pc' \in Knowing
  BY <1>2, <1>4 DEF Knowing, CreateStage, BuildStage
<1>6. QED
  BY <1>1, <1>2, <1>3, <1>4, <1>5, GoesOnCreating DEF RInv, TypeOK, Info

\* What the process knows when the machine's next resource is there.
LEMMA BuildNotes ==
  ASSUME RInv, pc = "build"
  PROVE  LET r  == Head(job.todo)
             c2 == Noted(job.mem, r) IN
         /\ r \in Resource /\ Tail(job.todo) \in Seq(Resource)
         /\ c2 \in Record
         /\ \A q \in Role, m \in Nat : InSeq(m, job.mem.nodes[q]) => InSeq(m, c2.nodes[q])
         /\ Tail(job.todo) # << >> => Building(c2, job.role, job.n, Tail(job.todo))
         /\ r.kind = "vm" => r.role \in Role /\ InSeq(r.n, job.mem.nodes[r.role])
<1> DEFINE r  == Head(job.todo)
           q0 == job.role
           n  == job.n
           c  == job.mem
           c2 == Noted(c, r)
<1>1. /\ c \in Record /\ q0 \in Role /\ n \in Nat /\ (q0 \notin Planes => n = 0)
      /\ Building(c, q0, n, job.todo) /\ job.todo \in Seq(Resource) /\ job.todo # << >>
  BY DEF RInv, Building
<1>2. r \in Resource /\ Tail(job.todo) \in Seq(Resource)
  BY <1>1, HeadTailProperties
<1>3. /\ \/ Len(job.todo) = 1 /\ Tail(job.todo) = << >> /\ r = VM(q0, n) /\ VMNoted(c, q0, n)
         \/ Len(job.todo) = 2 /\ r = NIC(q0, n) /\ NICRoom(c, q0)
         \/ Len(job.todo) > 2 /\ r \in {VNet, Subnet, PublicIP(q0, n), NSG(q0)}
      /\ \A c3 :
           /\ Len(job.todo) > 1
           /\ Len(job.todo) = 2 => VMNoted(c3, q0, n)
           /\ Len(job.todo) > 2 /\ (NICRoom(c, q0) \/ r = PublicIP(q0, n)) => NICRoom(c3, q0)
           => Building(c3, q0, n, Tail(job.todo))
  BY <1>1, BuildingGoesOn
<1> HIDE DEF r, q0, n, c, c2
<1>4. CASE Len(job.todo) = 1 /\ Tail(job.todo) = << >> /\ r = VM(q0, n) /\ VMNoted(c, q0, n)
  <2>1. c2 \in Record /\ c2.nodes = c.nodes
    BY <1>1, <1>4, NotedVM DEF c2
  <2>2. r.role = q0 /\ r.n = n
    BY <1>4 DEF VM, Res
  <2>3. QED
    BY <1>1, <1>2, <1>4, <2>1, <2>2 DEF VMNoted, c, c2, r
<1>5. CASE Len(job.todo) = 2 /\ r = NIC(q0, n) /\ NICRoom(c, q0)
  <2>1. /\ c2 \in Record /\ VMNoted(c2, q0, n)
        /\ \A q \in Role, m \in Nat : InSeq(m, c.nodes[q]) => InSeq(m, c2.nodes[q])
    BY <1>1, <1>5, NotedNIC DEF c2
  <2>2. Building(c2, q0, n, Tail(job.todo))
    BY <1>3, <1>5, <2>1
  <2>3. r.kind # "vm"
    BY <1>5 DEF NIC, Res
  <2>4. QED
    BY <1>2, <2>1, <2>2, <2>3 DEF c, c2, r, q0, n
<1>6. CASE Len(job.todo) > 2 /\ r \in {VNet, Subnet, PublicIP(q0, n), NSG(q0)}
  <2>1. r.kind # "vm"
    BY <1>6 DEF VNet, Subnet, PublicIP, NSG, Res
  <2>2. /\ c2 \in Record /\ c2.nodes = c.nodes
        /\ NICRoom(c, q0) \/ r = PublicIP(q0, n) => NICRoom(c2, q0)
    <3>1. CASE r = PublicIP(q0, n)
      BY <1>1, <3>1, NotedIP DEF c2
    <3>2. CASE r \in {VNet, Subnet, NSG(q0)} /\ r # PublicIP(q0, n)
      BY <1>1, <3>2, NotedNetwork DEF c2, NICRoom
    <3>3. QED
      BY <1>6, <3>1, <3>2
  <2>3. Building(c2, q0, n, Tail(job.todo))
    <3>1. Len(job.todo) > 1 /\ Len(job.todo) # 2
      <4>1. Len(job.todo) \in Nat
        BY <1>1, EmptyLen
      <4>2. \A k \in Nat : k > 2 => k > 1 /\ k # 2
        OBVIOUS
      <4>3. QED
        BY <1>6, <4>1, <4>2
    <3>2. QED
      BY <1>3, <2>2, <3>1
  <2>4. QED
    BY <1>2, <2>1, <2>2, <2>3 DEF c, c2, r, q0, n
<1>7. QED
  BY <1>3, <1>4, <1>5, <1>6

LEMMA BuildKeeps ==
  ASSUME RInv, NEW kind, Build(kind)
  PROVE  RInv'
<1> DEFINE r  == Head(job.todo)
           c2 == Noted(job.mem, r)
           rest == Tail(job.todo)
<1>1. /\ r \in Resource /\ rest \in Seq(Resource)
      /\ c2 \in Record /\ job.mem \in Record
      /\ \A q \in Role, m \in Nat : InSeq(m, job.mem.nodes[q]) => InSeq(m, c2.nodes[q])
      /\ rest # << >> => Building(c2, job.role, job.n, rest)
      /\ r.kind = "vm" => r.role \in Role /\ InSeq(r.n, job.mem.nodes[r.role])
  BY BuildNotes DEF Build, RInv
<1>2. /\ pc = "build" /\ UNCHANGED disk /\ pc' \in {"build", "save"} /\ UNCHANGED outcome
      /\ UNCHANGED live \/ Creates(r) \/ CreateFails(r)
      /\ NoHit \/ \E f \in FaultKind : Hit(f)
  <2>1. Creates(r) \/ CreateFails(r) => NoHit \/ \E f \in FaultKind : Hit(f)
    BY CallsHit
  <2>2. QED
    BY <2>1 DEF Build, Continue
<1>3. \/ /\ job' = [job EXCEPT !.mem = c2, !.todo = rest]
         /\ pc' = IF rest = << >> THEN "save" ELSE "build"
      \/ /\ job' = [job EXCEPT !.todo = << >>, !.failed = TRUE]
         /\ pc' = "save"
  BY DEF Build, Continue, c2, rest, r, RInv, TypeOK, Job
<1> HIDE DEF r, c2, rest
<1>4. /\ job' \in Job /\ job'.mem \in {c2, job.mem} /\ job'.role = job.role /\ job'.n = job.n
      /\ pc' = "build" => job'.mem = c2 /\ job'.todo = rest /\ rest # << >>
  <2>1. job \in Job /\ c2 \in Config /\ << >> \in Seq(Resource)
    BY <1>1 DEF RInv, TypeOK, Record
  <2>2. CASE job' = [job EXCEPT !.mem = c2, !.todo = rest] /\ (pc' = IF rest = << >> THEN "save" ELSE "build")
    BY <1>1, <2>1, <2>2 DEF Job
  <2>3. CASE job' = [job EXCEPT !.todo = << >>, !.failed = TRUE] /\ pc' = "save"
    BY <2>1, <2>3 DEF Job
  <2>4. QED
    BY <1>3, <2>2, <2>3
<1>5. pc' = "build" => Building(job'.mem, job'.role, job'.n, job'.todo)
  BY <1>1, <1>4
<1>6. \A q \in Role, m \in Nat : InSeq(m, job.mem.nodes[q]) => InSeq(m, job'.mem.nodes[q])
  BY <1>1, <1>4
<1>7. live' \in SUBSET Resource /\ \A x \in live' : x \in live \/ x.kind \notin {"vm", "disk"} \/ Names(job'.mem, x)
  <2>1. CASE UNCHANGED live
    BY <2>1 DEF RInv, TypeOK
  <2>2. CASE Creates(r) \/ CreateFails(r)
    <3>1. /\ live' \in SUBSET Resource
          /\ r.kind # "vm" => \A x \in live' : x \in live \/ x = r
          /\ r.kind = "vm" => \A x \in live' : x \in live \/ x \in {r, OSDisk(r.role, r.n)}
      BY <1>1, <2>2, CallCreates DEF RInv, TypeOK
    <3>2. CASE r.kind = "vm"
      <4>1. r.role \in Role /\ r.n \in Nat /\ InSeq(r.n, job'.mem.nodes[r.role])
        BY <1>1, <1>6, <3>2 DEF Resource
      <4>2. Names(job'.mem, r) /\ Names(job'.mem, OSDisk(r.role, r.n))
        BY <3>2, <4>1 DEF Names, OSDisk, Res
      <4>3. QED
        BY <3>1, <3>2, <4>2
    <3>3. CASE r.kind # "vm"
      <4>1. r.kind # "disk"
        <5>1. r \in {VNet, Subnet, PublicIP(job.role, job.n), NSG(job.role), NIC(job.role, job.n), VM(job.role, job.n)}
          BY <1>2, BuildingGoesOn DEF RInv, r
        <5>2. QED
          BY <5>1 DEF VNet, Subnet, PublicIP, NSG, NIC, VM, Res
      <4>2. QED
        BY <3>1, <3>3, <4>1
    <3>4. QED
      BY <3>2, <3>3
  <2>3. QED
    BY <1>2, <2>1, <2>2
<1>8. pc \in Knowing /\ pc' \in Knowing
  BY <1>2 DEF Knowing, BuildStage
<1>9. QED
  BY <1>1, <1>2, <1>4, <1>5, <1>6, <1>7, <1>8, GoesOnCreating DEF RInv, TypeOK, Info

LEMMA SaveMachineKeeps ==
  ASSUME RInv, SaveMachine
  PROVE  RInv'
<1>1. pc = "save" /\ ConfigWriter(job) /\ UNCHANGED live /\ job \in Job /\ job.mem \in Record
  BY DEF SaveMachine, RInv, TypeOK
<1>2. \/ \/ createDatabase(job)
         \/ \E n \in Nat : createControlPlane(job, n) \/ createWorkerPlane(job, n)
      \/ Continue("config", job) \/ Continue("exit", job)
      \/ Abort(job)
      \/ Return("added") \/ Return("failed")
  <2>1. job.n + 1 \in Nat /\ 1 \in Nat
    BY <1>1, JobTyped
  <2>2. QED
    BY <2>1 DEF SaveMachine, NextMachine
<1>3. CASE \/ createDatabase(job)
           \/ \E n \in Nat : createControlPlane(job, n) \/ createWorkerPlane(job, n)
  <2>1. /\ pc' = "build" /\ job' \in Job /\ job'.mem = job.mem /\ UNCHANGED outcome
        /\ Building(job'.mem, job'.role, job'.n, job'.todo)
    BY <1>1, <1>3, MachinesStart
  <2>2. pc \in Knowing /\ pc' \in Knowing
    BY <1>1, <2>1 DEF Knowing, BuildStage
  <2>3. QED
    BY <1>1, <2>1, <2>2, WritesWhatItKnows DEF RInv, TypeOK
<1>4. CASE Continue("config", job) \/ Continue("exit", job) \/ Abort(job)
  <2>1. pc' \in {"config", "exit"} /\ job' \in Job /\ job'.mem = job.mem /\ UNCHANGED outcome
    BY <1>1, <1>4, AbortTyped DEF Continue
  <2>2. pc \in Knowing /\ pc' \in Knowing /\ pc' # "build"
    BY <1>1, <2>1 DEF Knowing, BuildStage, CreateStage
  <2>3. QED
    BY <1>1, <2>1, <2>2, WritesWhatItKnows DEF RInv, TypeOK
<1>5. CASE Return("added") \/ Return("failed")
  <2>1. pc' = "idle" /\ job' = NoJob /\ outcome' \in Outcome
    BY <1>5 DEF Return, Outcome
  <2>2. pc \in Knowing /\ pc' \notin Knowing
    BY <1>1, <2>1 DEF Knowing, BuildStage, CreateStage
  <2>3. QED
    BY <1>1, <2>1, <2>2, JobTyped, WritesWhatItKnows
<1>6. QED
  BY <1>2, <1>3, <1>4, <1>5

LEMMA ScriptsKeep ==
  ASSUME RInv, ConfigLoadBalancer \/ ConfigControlPlane \/ GetTokenFromCP1
  PROVE  RInv'
<1>1. UNCHANGED <<live, disk>> /\ pc \in {"config", "script", "token"}
  BY DEF ConfigLoadBalancer, ConfigControlPlane, GetTokenFromCP1
<1>2. NoHit \/ \E f \in FaultKind : Hit(f)
  BY DEF ConfigLoadBalancer, ConfigControlPlane, GetTokenFromCP1, FaultKind
<1>3. /\ pc' \in {"script", "token", "saveToken", "kubeconfig", "exit"} /\ UNCHANGED outcome
      /\ \/ job' = job
         \/ \E n \in Nat : job' = [job EXCEPT !.n = n]
         \/ job' = [job EXCEPT !.mem = [job.mem EXCEPT !.token = TRUE]]
         \/ job' = [job EXCEPT !.failed = TRUE]
  <2>1. job \in Job /\ job.n + 1 \in Nat
    BY JobTyped DEF RInv, TypeOK
  <2>2. CASE ConfigLoadBalancer
    BY <2>2 DEF ConfigLoadBalancer, Continue, Abort
  <2>3. CASE ConfigControlPlane
    <3>1. CASE \E stage \in {"token", "kubeconfig"} : Continue(stage, job)
      BY <3>1 DEF Continue
    <3>2. CASE Continue("script", [job EXCEPT !.n = @ + 1])
      BY <2>1, <3>2 DEF Continue, Job
    <3>3. CASE Abort(job)
      BY <3>3 DEF Continue, Abort
    <3>4. QED
      BY <2>3, <3>1, <3>2, <3>3 DEF ConfigControlPlane
  <2>4. CASE GetTokenFromCP1
    <3>1. CASE Continue("saveToken", [job EXCEPT !.mem.token = TRUE])
      BY <2>1, <3>1 DEF Continue, Job
    <3>2. CASE Continue("saveToken", job) \/ Abort(job)
      BY <3>2 DEF Continue, Abort
    <3>3. QED
      BY <2>4, <3>1, <3>2 DEF GetTokenFromCP1
  <2>5. QED
    BY <2>2, <2>3, <2>4
<1>4. job' \in Job /\ job'.mem \in {job.mem, [job.mem EXCEPT !.token = TRUE]}
  <2>1. job \in Job /\ [job.mem EXCEPT !.token = TRUE] \in Config
    BY JobTyped DEF RInv, TypeOK, Config
  <2>2. QED
    BY <1>3, <2>1 DEF Job
<1>5. job'.mem \in Record /\ job'.mem.nodes = job.mem.nodes
  <2> DEFINE c2 == [job.mem EXCEPT !.token = TRUE]
  <2>1. /\ c2 \in Config /\ c2.nodes = job.mem.nodes /\ c2.ips = job.mem.ips /\ c2.addrs = job.mem.addrs
    BY JobTyped DEF RInv, TypeOK, Config
  <2> HIDE DEF c2
  <2>2. c2 \in Record
    BY <2>1 DEF RInv, Record, Aligned, Lone
  <2>3. job'.mem \in {job.mem, c2}
    BY <1>4 DEF c2
  <2>4. QED
    BY <2>1, <2>2, <2>3 DEF RInv
<1>6. pc \in Knowing /\ pc' \in Knowing /\ pc' # "build"
  BY <1>1, <1>3 DEF Knowing, CreateStage
<1>7. QED
  BY <1>1, <1>2, <1>3, <1>4, <1>5, <1>6, GoesOnCreating DEF RInv, TypeOK, Info

LEMMA SaveTokenKeeps ==
  ASSUME RInv, SaveToken
  PROVE  RInv'
<1>1. /\ pc = "saveToken" /\ ConfigWriter(job) /\ UNCHANGED live /\ job \in Job /\ job.mem \in Record
      /\ Continue("script", [job EXCEPT !.n = 2]) \/ Abort(job)
  BY DEF SaveToken, RInv, TypeOK
<1>2. pc' \in {"script", "exit"} /\ job' \in Job /\ job'.mem = job.mem /\ UNCHANGED outcome
  BY <1>1, AbortTyped DEF Continue, Job
<1>3. pc \in Knowing /\ pc' \in Knowing /\ pc' # "build"
  BY <1>1, <1>2 DEF Knowing, CreateStage
<1>4. QED
  BY <1>1, <1>2, <1>3, WritesWhatItKnows DEF RInv, TypeOK

LEMMA SaveKubeconfigKeeps ==
  ASSUME RInv, SaveKubeconfig
  PROVE  RInv'
<1>1. /\ pc = "kubeconfig" /\ UNCHANGED live /\ job \in Job /\ job.mem \in Record
      /\ Continue("exit", job) \/ createWorkerPlane(job, 1) \/ Abort(job)
  BY DEF SaveKubeconfig, RInv, TypeOK
<1>2. disk' \in Disk /\ disk'.file = disk.file /\ Info' = Info
  BY DEF SaveKubeconfig, RInv, TypeOK, Disk, Info
<1>3. NoHit \/ \E f \in FaultKind : Hit(f)
  BY DEF SaveKubeconfig, FaultKind
<1>4. /\ pc' \in {"exit", "build"} /\ job' \in Job /\ job'.mem = job.mem /\ UNCHANGED outcome
      /\ pc' = "build" => Building(job'.mem, job'.role, job'.n, job'.todo)
  BY <1>1, AbortTyped, MachinesStart DEF Continue
<1>5. pc \in Knowing /\ pc' \in Knowing
  BY <1>1, <1>4 DEF Knowing, CreateStage, BuildStage
<1>6. QED
  BY <1>1, <1>2, <1>3, <1>4, <1>5, GoesOnCreating DEF RInv, TypeOK

LEMMA ReturnFromCreateKeeps ==
  ASSUME RInv, ReturnFromCreate
  PROVE  RInv'
<1>1. /\ pc = "exit" /\ ConfigWriter(job) /\ UNCHANGED live /\ job \in Job /\ job.mem \in Record
      /\ Continue("read", job) \/ Return("created")
  BY DEF ReturnFromCreate, RInv, TypeOK
<1>2. pc' \in {"read", "idle"} /\ job' \in {job, NoJob} /\ outcome' \in Outcome
  BY <1>1 DEF Continue, Return, RInv, TypeOK, Outcome
<1>3. pc \in Knowing /\ pc' \notin Knowing
  BY <1>1, <1>2 DEF Knowing, CreateStage, BuildStage
<1>4. QED
  BY <1>1, <1>2, <1>3, JobTyped, WritesWhatItKnows

LEMMA ConfigReaderKeeps ==
  ASSUME RInv, ConfigReader
  PROVE  RInv'
<1>1. pc = "read" /\ NoHit /\ UNCHANGED <<live, disk>> /\ pc \notin Knowing
  BY DEF ConfigReader, Knowing, CreateStage, BuildStage
<1>2. CASE Return("failed")
  <2>1. pc' = "idle" /\ job' = NoJob /\ outcome' \in Outcome
    BY <1>2 DEF Return, Outcome
  <2>2. QED
    BY <1>1, <2>1, JobTyped, GoesByTheFile DEF RemoveStage
<1>3. CASE Continue("wipe", [NoJob EXCEPT !.op = job.op, !.mem = Info, !.todo = Teardown(Info)])
  <2>1. /\ Info \in Record /\ Info \in Config /\ job.op \in {"none", "create", "delete", "add", "remove"}
        /\ Teardown(Info) \in Seq(Resource) /\ Teardown(Info) # << >>
        /\ Teardown(Info)[Len(Teardown(Info))] = Group
    BY TeardownEnds DEF RInv, TypeOK, Record, Job
  <2>2. pc' = "wipe" /\ UNCHANGED outcome /\ job' \in Job /\ job'.mem = Info /\ job'.todo = Teardown(Info)
    BY <1>3, <2>1, JobTyped DEF Continue, Job
  <2>3. QED
    BY <1>1, <2>1, <2>2, GoesByTheFile DEF RemoveStage, RInv, TypeOK
<1>4. QED
  BY <1>2, <1>3 DEF ConfigReader

LEMMA WipeKeeps ==
  ASSUME RInv, NEW kind, NEW stage \in {"wipe", "drop"}, Wipe(kind, stage),
         stage = "wipe" => kind # "group"
  PROVE  RInv'
<1>1. /\ pc = "wipe" /\ pc \notin Knowing /\ UNCHANGED disk /\ Head(job.todo).kind = kind
      /\ job.todo \in Seq(Resource) /\ job.todo # << >> /\ job.todo[Len(job.todo)] = Group
      /\ job \in Job /\ job.mem \in Record
  BY JobTyped DEF Wipe, Knowing, CreateStage, BuildStage, RInv, TypeOK
<1>2. live' \subseteq live /\ (NoHit \/ \E f \in FaultKind : Hit(f))
  BY CallsHit DEF Wipe
<1>3. CASE Return("failed")
  <2>1. pc' = "idle" /\ job' = NoJob /\ outcome' \in Outcome
    BY <1>3 DEF Return, Outcome
  <2>2. QED
    BY <1>1, <1>2, <2>1, JobTyped, GoesByTheFile DEF RemoveStage
<1>4. CASE Continue(stage, [job EXCEPT !.todo = Tail(@)])
  <2>1. Tail(job.todo) \in Seq(Resource)
    BY <1>1, HeadTailProperties
  <2>2. stage = "wipe" => Tail(job.todo) # << >> /\ Tail(job.todo)[Len(Tail(job.todo))] = Group
    BY <1>1, TeardownGoesOn
  <2>3. pc' = stage /\ UNCHANGED outcome /\ job' = [job EXCEPT !.todo = Tail(job.todo)]
    BY <1>1, <1>4 DEF Continue
  <2>4. job' \in Job /\ job'.mem = job.mem /\ job'.todo = Tail(job.todo)
    BY <1>1, <2>1, <2>3 DEF Job
  <2>5. QED
    BY <1>1, <1>2, <2>2, <2>3, <2>4, GoesByTheFile DEF RemoveStage, RInv, TypeOK
<1>5. QED
  BY <1>3, <1>4 DEF Wipe

\* What is left of the directory, whole or in part.
LEMMA RemovedTyped ==
  ASSUME RInv, disk' \in PartlyRemoved \cup {EmptyDisk, disk, Torn}
  PROVE  /\ disk' \in Disk /\ Info' \in Record
         /\ disk'.file # "saved" => Info' = EmptyConfig
<1>1. disk \in Disk /\ Info \in Record /\ (disk.file # "saved" => Info = EmptyConfig) /\ EmptyConfig \in Config
  BY EmptyIsRecord DEF RInv, TypeOK, Record
<1>2. CASE disk' = disk
  BY <1>1, <1>2 DEF Info
<1>3. CASE disk' = EmptyDisk
  BY <1>1, <1>3, EmptyIsRecord DEF EmptyDisk, Disk, Info
<1>4. CASE disk' = Torn
  BY <1>1, <1>4, EmptyIsRecord DEF Torn, Disk, Info
<1>5. CASE disk' \in PartlyRemoved
  <2>1. PICK d \in {disk, [disk EXCEPT !.file = "absent", !.info = EmptyConfig]} :
          \E k \in {disk.keypair, FALSE} : \E c \in {disk.kubeconfig, "none"} :
            disk' = [d EXCEPT !.keypair = k, !.kubeconfig = c]
    BY <1>5 DEF PartlyRemoved
  <2>2. /\ d \in Disk
        /\ \/ d.file = disk.file /\ d.info = Info
           \/ d.file = "absent" /\ d.info = EmptyConfig
    BY <1>1 DEF Disk, Info
  <2>3. disk' \in Disk /\ disk'.file = d.file /\ disk'.info = d.info
    BY <1>1, <2>1, <2>2 DEF Disk
  <2>4. QED
    BY <1>1, <2>2, <2>3, EmptyIsRecord DEF Info
<1>6. QED
  BY <1>2, <1>3, <1>4, <1>5

LEMMA RemoveAllKeeps ==
  ASSUME RInv, IInv, RemoveAll
  PROVE  RInv'
<1>1. /\ pc' = "idle" /\ job' = NoJob /\ outcome' \in Outcome /\ live = {} /\ UNCHANGED live
      /\ disk' \in PartlyRemoved \cup {EmptyDisk}
      /\ NoHit \/ \E f \in FaultKind : Hit(f)
  BY DEF RemoveAll, Return, Outcome, IInv, FaultKind
<1>2. seen' \subseteq Faults /\ hits' \in 0..MaxFaults
  BY <1>1, FaultsTyped DEF RInv, TypeOK
<1>3. TypeOK'
  BY <1>1, <1>2, RemovedTyped, JobTyped DEF RInv, TypeOK, Stage
<1>4. QED
  BY <1>1, <1>3, RemovedTyped, JobTyped DEF RInv, MachinesRemembered, RemoveStage

LEMMA StripWorkerKeeps ==
  ASSUME RInv, NEW kind \in {"vm", "disk", "nic", "ip"}, StripWorker(kind)
  PROVE  RInv'
<1> DEFINE rest == Tail(job.todo)
<1>1. /\ pc = "strip" /\ pc \notin Knowing /\ UNCHANGED disk
      /\ job.todo \in Seq(Resource) /\ job.todo # << >> /\ job \in Job /\ job.mem \in Record
      /\ Removing
  BY JobTyped DEF StripWorker, Knowing, CreateStage, BuildStage, RInv, TypeOK, RemoveStage
<1>2. live' \subseteq live /\ (NoHit \/ \E f \in FaultKind : Hit(f))
  BY CallsHit DEF StripWorker
<1>3. CASE Return("failed")
  <2>1. pc' = "idle" /\ job' = NoJob /\ outcome' \in Outcome
    BY <1>3 DEF Return, Outcome
  <2>2. QED
    BY <1>1, <1>2, <2>1, JobTyped, GoesByTheFile DEF RemoveStage
<1>4. CASE /\ Deletes(Head(job.todo))
           /\ Continue(IF rest = << >> THEN "trim" ELSE "strip", [job EXCEPT !.todo = rest])
  <2>1. rest \in Seq(Resource)
    BY <1>1, HeadTailProperties
  <2> HIDE DEF rest
  <2>2. /\ pc' = IF rest = << >> THEN "trim" ELSE "strip"
        /\ UNCHANGED outcome /\ job' = [job EXCEPT !.todo = rest]
    BY <1>4 DEF Continue
  <2>3. job' \in Job /\ job'.mem = job.mem /\ job'.rounds = job.rounds /\ job'.todo = rest
    BY <1>1, <2>1, <2>2 DEF Job
  <2>4. live' = DeletedFrom(live, Head(job.todo))
    BY <1>4 DEF Deletes
  <2>5. Stripping(Info, live', rest)
    BY <1>1, <2>4, StripGoesOn DEF Removing, rest
  <2>6. Info' = Info
    BY <1>1 DEF Info
  <2>7. Removing'
    BY <1>1, <2>2, <2>3, <2>5, <2>6 DEF Removing
  <2>8. QED
    BY <1>1, <1>2, <2>2, <2>3, <2>7, GoesByTheFile DEF RInv, TypeOK
<1>5. QED
  BY <1>3, <1>4 DEF StripWorker, rest

LEMMA TrimWorkerKeeps ==
  ASSUME RInv, TrimWorker
  PROVE  RInv'
<1> DEFINE c2 == Trimmed(Info)
<1>1. /\ pc = "trim" /\ pc \notin Knowing /\ UNCHANGED live /\ job \in Job /\ job.mem = Info
      /\ Info \in Record /\ job.rounds \in 1..Len(Info.nodes["wp"])
      /\ {VM("wp", LastWorker(Info)), OSDisk("wp", LastWorker(Info))} \cap live = {}
  <2>1. pc = "trim" /\ UNCHANGED live /\ Removing
    BY DEF TrimWorker, RInv, RemoveStage
  <2>2. {VM("wp", LastWorker(Info)), OSDisk("wp", LastWorker(Info))} \cap live = {}
    BY <2>1 DEF Removing, Stripping
  <2>3. QED
    BY <2>1, <2>2 DEF Removing, RInv, TypeOK, Knowing, CreateStage, BuildStage
<1>2. Len(Info.nodes["wp"]) \in Nat /\ Len(Info.nodes["wp"]) >= 1 /\ job.rounds \in Nat
  BY <1>1, RecordLists DEF Role
<1>3. /\ c2 \in Record
      /\ Len(c2.nodes["wp"]) = Len(Info.nodes["wp"]) - 1
      /\ \A q \in Role, m \in Nat :
           InSeq(m, Info.nodes[q]) => InSeq(m, c2.nodes[q]) \/ (q = "wp" /\ m = LastWorker(Info))
  BY <1>1, <1>2, TrimKeeps
<1> HIDE DEF c2
<1>4. CASE NoHit /\ UNCHANGED disk /\ Return("panic")
  <2>1. pc' = "idle" /\ job' = NoJob /\ outcome' \in Outcome
    BY <1>4 DEF Return, Outcome
  <2>2. QED
    BY <1>1, <1>4, <2>1, JobTyped, GoesByTheFile DEF RemoveStage
<1>5. CASE Hit("disk") /\ disk' \in {disk, Torn} /\ Return("failed")
  <2>1. pc' = "idle" /\ job' = NoJob /\ outcome' \in Outcome /\ "disk" \in seen'
    BY <1>5 DEF Return, Outcome, Hit
  <2>2. seen' \subseteq Faults /\ hits' \in 0..MaxFaults
    BY <1>5, FaultsTyped DEF RInv, TypeOK, FaultKind
  <2>3. TypeOK'
    BY <1>1, <1>5, <2>1, <2>2, RemovedTyped, JobTyped DEF RInv, TypeOK, Stage
  <2>4. QED
    BY <1>5, <2>1, <2>3, RemovedTyped, JobTyped DEF RInv, MachinesRemembered, RemoveStage
<1>6. CASE /\ disk' = Saved(c2) /\ NoHit
           /\ IF job.rounds = 1 THEN Return("removed")
              ELSE Continue("strip", [job EXCEPT !.mem = c2, !.rounds = @ - 1, !.todo = Strip(c2)])
  <2>1. disk' \in Disk /\ disk'.file = "saved" /\ Info' = c2
    BY <1>3, <1>6 DEF Saved, Disk, Info, RInv, TypeOK, Record
  <2>2. seen' = seen /\ hits' = hits
    BY <1>6 DEF NoHit
  <2>3. ASSUME pc' \in {"idle", "strip"}
        PROVE  MachinesRemembered'
    <3>1. SUFFICES ASSUME seen \cap {"crash", "disk"} = {}, NEW r \in live, r.kind \in {"vm", "disk"}
                   PROVE  Names(c2, r)
      BY <1>1, <2>1, <2>2, <2>3 DEF MachinesRemembered, Remembered, CreateStage, BuildStage
    <3>2. r.role \in Role /\ r.n \in Nat /\ InSeq(r.n, Info.nodes[r.role]) /\ r \in Resource
      BY <1>1, <3>1 DEF RInv, TypeOK, MachinesRemembered, Remembered, Knowing, Names, Resource
    <3>3. ~(r.role = "wp" /\ r.n = LastWorker(Info))
      <4>1. r = Res(r.kind, r.role, r.n)
        BY <3>2 DEF Resource, Res
      <4>2. QED
        BY <1>1, <3>1, <4>1 DEF VM, OSDisk
    <3>4. QED
      BY <1>3, <3>1, <3>2, <3>3 DEF Names
  <2>4. CASE job.rounds = 1
    <3>1. pc' = "idle" /\ job' = NoJob /\ outcome' \in Outcome
      BY <1>6, <2>4 DEF Return, Outcome
    <3>2. TypeOK'
      BY <1>1, <2>1, <2>2, <3>1, JobTyped DEF RInv, TypeOK, Stage
    <3>3. QED
      BY <1>3, <2>1, <2>3, <3>1, <3>2, JobTyped DEF RInv, RemoveStage
  <2>5. CASE job.rounds # 1
    <3>1. /\ job.rounds - 1 \in 1..Len(c2.nodes["wp"]) /\ job.rounds - 1 \in Nat
          /\ Len(c2.nodes["wp"]) >= 1
      BY <1>1, <1>2, <1>3, <2>5
    <3>2. Strip(c2) \in Seq(Resource) /\ Strip(c2) # << >> /\ Stripping(c2, live, Strip(c2))
      BY <1>3, <3>1, StripStarts
    <3>3. /\ pc' = "strip" /\ UNCHANGED outcome
          /\ job' = [job EXCEPT !.mem = c2, !.rounds = job.rounds - 1, !.todo = Strip(c2)]
      BY <1>1, <1>6, <2>5 DEF Continue, Job
    <3>4. job' \in Job /\ job'.mem = c2 /\ job'.rounds = job.rounds - 1 /\ job'.todo = Strip(c2)
      <4>1. c2 \in Config
        BY <1>3 DEF Record
      <4>2. QED
        BY <1>1, <3>1, <3>2, <3>3, <4>1 DEF Job
    <3>5. Removing'
      BY <1>1, <2>1, <3>1, <3>2, <3>3, <3>4 DEF Removing
    <3>6. TypeOK'
      BY <1>1, <2>1, <2>2, <3>2, <3>3, <3>4 DEF RInv, TypeOK, Stage, RemoveStage
    <3>7. QED
      BY <1>3, <2>1, <2>3, <3>3, <3>4, <3>5, <3>6 DEF RInv
  <2>6. QED
    BY <2>4, <2>5
<1>7. QED
  BY <1>1, <1>4, <1>5, <1>6 DEF TrimWorker, c2

LEMMA CrashKeeps ==
  ASSUME RInv, Crash
  PROVE  RInv'
<1>1. /\ pc' = "idle" /\ job' = NoJob /\ outcome' \in Outcome /\ "crash" \in seen' /\ UNCHANGED live
      /\ Hit("crash")
  BY DEF Crash, Return, Outcome, Hit
<1>2. seen' \subseteq Faults /\ hits' \in 0..MaxFaults
  BY <1>1, FaultsTyped DEF RInv, TypeOK, FaultKind
<1>3. disk' \in Disk /\ Info' \in Record /\ (disk'.file # "saved" => Info' = EmptyConfig)
  <2>1. CASE disk' = [disk EXCEPT !.kubeconfig = "empty"]
    BY <2>1 DEF RInv, TypeOK, Disk, Info
  <2>2. CASE disk' \in PartlyRemoved \cup {EmptyDisk, disk, Torn}
    BY <2>2, RemovedTyped
  <2>3. QED
    BY <2>1, <2>2 DEF Crash
<1>4. TypeOK'
  BY <1>1, <1>2, <1>3, JobTyped DEF RInv, TypeOK, Stage
<1>5. QED
  BY <1>1, <1>3, <1>4, JobTyped DEF RInv, MachinesRemembered, RemoveStage

LEMMA StutterKeeps ==
  ASSUME RInv, UNCHANGED vars
  PROVE  RInv'
BY RefuseKeeps DEF Refuse

-----------------------------------------------------------------------------
(* What follows                                                            *)

LEMMA NextKeeps ==
  ASSUME RInv, IInv, [Next]_vars
  PROVE  RInv'
<1>1. CASE User
  BY <1>1, StartCreateKeeps, StartDeleteKeeps, StartAddKeeps, StartRemoveKeeps DEF User
<1>2. CASE BuildStep
  BY <1>2, BuildKeeps, SaveMachineKeeps
     DEF BuildStep, CreateVirtualNetwork, CreateSubnet, CreatePublicIP, CreateNSG, CreateNetworkInterface,
         CreateVM
<1>3. CASE CreateStep
  BY <1>3, CreateResourceGroupKeeps, CreateSSHKeyPairKeeps, UploadSSHKeyKeeps, ScriptsKeep, SaveTokenKeeps,
     SaveKubeconfigKeeps, ReturnFromCreateKeeps DEF CreateStep
<1>4. CASE DeleteStep
  BY <1>4, ConfigReaderKeeps, WipeKeeps, RemoveAllKeeps
     DEF DeleteStep, DeleteAllVMs, DeleteAllDisks, DeleteAllNetworkInterface, DeleteAllNSG,
         DeleteAllPublicIP, DeleteSubnet, DeleteVirtualNetwork, DeleteSSHKeyPair, DeleteResourceGroup
<1>5. CASE RemoveStep
  BY <1>5, StripWorkerKeeps, TrimWorkerKeeps
     DEF RemoveStep, DeleteVM, DeleteDisk, DeleteNetworkInterface, DeletePublicIP
<1>6. CASE Crash
  BY <1>6, CrashKeeps
<1>7. CASE UNCHANGED vars
  BY <1>7, StutterKeeps
<1>8. QED
  BY <1>1, <1>2, <1>3, <1>4, <1>5, <1>6, <1>7 DEF Next, Step

LEMMA InitRInv == Init => RInv
<1>1. SUFFICES ASSUME Init PROVE RInv
  OBVIOUS
<1>2. EmptyDisk \in Disk /\ Info = EmptyConfig
  BY <1>1, EmptyIsRecord DEF Init, EmptyDisk, Disk, Info, Record
<1>3. TypeOK
  BY <1>1, <1>2, JobTyped, BoundsAssumption DEF Init, TypeOK, Stage, Outcome
<1>4. QED
  BY <1>1, <1>2, <1>3, JobTyped, EmptyIsRecord DEF Init, RInv, MachinesRemembered, RemoveStage

LEMMA RInductive == Spec => []RInv
<1>1. RInv /\ IInv /\ [Next]_vars => RInv'
  BY NextKeeps
<1>2. QED
  BY InitRInv, Inductive, <1>1, PTL DEF Spec

\* The states of the self-managed Azure commands are well typed for all
\* numbers of machines and faults: no list of resources to create or delete
\* runs out before its function ends.
THEOREM AzureTyped == Spec => []TypeOK
<1>1. RInv => TypeOK
  BY DEF RInv
<1>2. QED
  BY RInductive, <1>1, PTL

\* Every machine that exists, and its disk, is named by what ksctl remembers,
\* whichever calls fail or lose their reply: the name is noted before the
\* machine is created and every function writes the record, whatever it
\* returns (the deferred ConfigWriter).
THEOREM AzureRemembers == Spec => []MachinesRemembered
<1>1. RInv => MachinesRemembered
  BY DEF RInv
<1>2. QED
  BY RInductive, <1>1, PTL

\* The lists that DeleteSomeWorkerNodes indexes with the length of Names are
\* long enough, whichever calls, writes and processes fail.
THEOREM AzureListsAlign == Spec => []ListsAligned
<1>1. RInv => ListsAligned
  BY DEF RInv, ListsAligned, Record, Aligned
<1>2. QED
  BY RInductive, <1>1, PTL
==============================================================================
