------------------------------- MODULE CivoHA -------------------------------
(***************************************************************************)
(* The life of one self-managed ("HA") Civo cluster under ksctl: the       *)
(* commands that create it, delete it, add workers and remove workers      *)
(* (src/api/civo), run one at a time against the cloud and the cluster's   *)
(* directory on the local disk.                                            *)
(*                                                                         *)
(* A step is one call that leaves the process (an API call, an SSH script, *)
(* a write of a file) or the decision between two of them, so the process  *)
(* can be killed, a call can fail and a reply can get lost between any     *)
(* two steps.                                                              *)
(***************************************************************************)
EXTENDS CivoCloud, FiniteSets

CONSTANTS
  CPCounts,    \* numbers of control planes a user asks for
  WPCounts,    \* numbers of workers a user asks for, adds or removes
  MaxRetry,    \* MAX_RETRY_COUNT of DeleteNetworks (8 in the code)
  MaxStrays,   \* bound: how many identifiers faults may keep off the record
  Faults       \* which faults may happen

FaultKind ==
  {"api",        \* an API call is refused or times out before it has an effect
   "lost",       \* an API call takes effect but its reply is lost
   "ssh",        \* a script cannot be run over SSH
   "disk",       \* a file cannot be written
   "torn",       \* an interrupted write of the state file leaves it truncated
   "crash",      \* the process is killed
   "dashboard"}  \* somebody deletes an instance in the cloud's own console

ASSUME CountsAssumption == CPCounts \subseteq Nat /\ WPCounts \subseteq Nat
ASSUME BoundsAssumption == MaxRetry \in Nat \ {0} /\ MaxStrays \in Nat
ASSUME FaultsAssumption == Faults \subseteq FaultKind

VARIABLES
  cloud,    \* the objects that exist: identifier -> Object
  disk,     \* the cluster's directory
  pc,       \* what the running command does next, "idle" between commands
  job,      \* the local variables of the running command
  outcome,  \* how the last command ended
  strays    \* history: identifiers that a fault kept off the record

vars == <<cloud, disk, pc, job, outcome, strays>>

-----------------------------------------------------------------------------
(* Types                                                                   *)

CreateStage ==
  {"keygen", "newKey", "saveKey", "newNetwork", "saveNetwork", "configLB",
   "configCP", "saveToken", "kubeconfig"}
NodeStage   == {"newFirewall", "saveFirewall", "newInstance", "saveInstance", "boot", "saveEndpoint"}
DeleteStage == {"guard", "delInstances", "delFirewalls", "delNetwork", "delKey", "delPaths"}
RemoveStage == {"dropWorker", "saveDrop"}
SaveStage   == {"saveKey", "saveNetwork", "saveFirewall", "saveInstance", "saveEndpoint", "saveToken", "saveDrop"}
Stage       == {"idle"} \cup CreateStage \cup NodeStage \cup DeleteStage \cup RemoveStage

\* The directory: info.json with the record it holds, keypair and config.
Disk ==
  [file       : {"absent", "torn", "saved"},
   info       : Config,
   keypair    : BOOLEAN,
   kubeconfig : {"none", "empty", "full"}]

EmptyDisk == [file |-> "absent", info |-> EmptyConfig, keypair |-> FALSE, kubeconfig |-> "none"]

\* mem is obj.Configuration, key is obj.SSHID, got an identifier that the
\* cloud returned and that is not written down yet, role and n the loop the
\* command is in, cps and wps its arguments, base the number of workers
\* that were there before, err the errV of DeleteInstances, nilNode whether
\* a node is nil although no error was reported.  found is history: the
\* command found a state file when it began.
Job ==
  [op : {"none", "create", "delete", "add", "remove"},
   mem : Config, key : Nat, got : Nat,
   role : Role, n : Nat, cps : Nat, wps : Nat, base : Nat,
   err : {"none", "notFound", "other"}, retry : Nat, nilNode : BOOLEAN, found : BOOLEAN]

NoJob ==
  [op |-> "none", mem |-> EmptyConfig, key |-> NoID, got |-> NoID,
   role |-> "db", n |-> 0, cps |-> 0, wps |-> 0, base |-> 0,
   err |-> "none", retry |-> 0, nilNode |-> FALSE, found |-> FALSE]

Outcome ==
  {"none", "created", "deleted", "added", "removed", "declined", "failed", "panic", "crashed"}

TypeOK ==
  /\ DOMAIN cloud \subseteq IDs
  /\ \A i \in DOMAIN cloud : cloud[i] \in Object
  /\ disk \in Disk
  /\ pc \in Stage
  /\ job \in Job
  /\ outcome \in Outcome
  /\ strays \in Nat
  /\ job.retry < MaxRetry
-----------------------------------------------------------------------------
(* Control: how a command begins, goes on and ends                         *)

Info == disk.info

Begin(stage, j) ==
  /\ pc' = stage
  /\ job' = [j EXCEPT !.found = disk.file # "absent"]
  /\ outcome' = "none"

Continue(stage, j) == pc' = stage /\ job' = j /\ UNCHANGED outcome

Return(result) ==
  /\ pc' = "idle"
  /\ job' = NoJob
  /\ outcome' = result

\* An error: CreateCluster cleans up after a failed creation, every other
\* command (the clean-up too) just returns the error.
Fail ==
  IF job.op = "create" /\ pc \notin DeleteStage THEN Continue("guard", job) ELSE Return("failed")

\* A command that ends before it has done anything.
Refuse(result) ==
  /\ outcome' = result
  /\ UNCHANGED <<cloud, disk, pc, job, strays>>

-----------------------------------------------------------------------------
(* Calls that leave the process                                            *)

Fault(f) == f \in Faults

\* k more identifiers will never be on the record, unless a later save
\* writes them down after all.
Stray(k) == strays + k <= MaxStrays /\ strays' = strays + k

InUse == IDs \cap (DOMAIN cloud \cup Recorded(Info) \cup Recorded(job.mem) \cup {job.got})
Fresh == Mint(InUse)

\* A command that may need k new identifiers starts only while there are
\* that many: the bound on the size of the clusters that are checked.
Room(k) == Cardinality(IDs \ InUse) >= k

\* The cloud creates an object; the process goes on at the stage that
\* writes its identifier down.
Create(object, next) ==
  \/ \E id \in Fresh :
       /\ cloud' = With(cloud, id, object)
       /\ Continue(next, [job EXCEPT !.got = id])
       /\ UNCHANGED <<disk, strays>>
  \/ /\ Fault("api")
     /\ Fail
     /\ UNCHANGED <<cloud, disk, strays>>
  \/ /\ Fault("lost")
     /\ \E id \in Fresh : cloud' = With(cloud, id, object)
     /\ Stray(1)
     /\ Fail
     /\ UNCHANGED disk

\* saveConfig replaces the whole file by record c.
Saved(c)  == [disk EXCEPT !.file = "saved", !.info = c]
Torn      == [disk EXCEPT !.file = "torn", !.info = EmptyConfig]
NotSaved  == IF Fault("torn") THEN {disk, Torn} ELSE {disk}

SaveSucceeds(c) == disk' = Saved(c) /\ UNCHANGED <<cloud, strays>>

\* k identifiers are in the record in memory and not in the file.
SaveFails(k) ==
  /\ Fault("disk")
  /\ disk' \in NotSaved
  /\ Stray(k)
  /\ UNCHANGED cloud

\* A script run over SSH on instance id: it cannot succeed on a machine that
\* is gone.
ScriptRuns(id)  == id \in DOMAIN cloud /\ UNCHANGED <<cloud, disk, strays>>
ScriptFails(id) ==
  /\ id \notin DOMAIN cloud \/ Fault("ssh")
  /\ UNCHANGED <<cloud, disk, strays>>

\* Deleting id: it goes, or it is not there, or the call fails, with or
\* without the effect.
Deleted(id)  == id \in DOMAIN cloud /\ cloud' = Without(cloud, id)
NotThere(id) == id \notin DOMAIN cloud /\ UNCHANGED cloud
DeleteFails(id) ==
  \/ Fault("api") /\ UNCHANGED cloud
  \/ Fault("lost") /\ Deleted(id)

-----------------------------------------------------------------------------
(* ksctl create-cluster ha-civo                                            *)

\* Mutant: no minimum and no parity.
AnyNoOfControlPlanes(n) == n > 0

IsValidNoOfControlPlanes(n) == n >= 3 /\ n % 2 = 1

isPresent == disk.file # "absent"

\* The checks of haCreateClusterHandler and the lookup of the disk image.
\* When the name, the region or the credentials are bad, the clean-up is
\* refused for the same reason and nothing happens; after any other
\* rejection the clean-up runs.
StartCreate ==
  /\ pc = "idle"
  /\ \E accepted, sized \in BOOLEAN, cps \in CPCounts, wps \in WPCounts :
       LET j == [NoJob EXCEPT !.op = "create", !.cps = cps, !.wps = wps] IN
       \/ ~accepted /\ Refuse("failed")
       \/ /\ accepted
          /\ ~sized \/ isPresent \/ ~IsValidNoOfControlPlanes(cps) \/ Fault("api")
          /\ Begin("guard", j)
          /\ UNCHANGED <<cloud, disk, strays>>
       \/ /\ accepted /\ sized /\ ~isPresent /\ IsValidNoOfControlPlanes(cps)
          /\ Room(8 + cps + wps)
          /\ Begin("keygen", j)
          /\ UNCHANGED <<cloud, disk, strays>>

\* ssh-keygen does not overwrite a key pair that is there.
Keygen ==
  /\ pc = "keygen"
  /\ \/ /\ ~disk.keypair
        /\ disk' = [disk EXCEPT !.keypair = TRUE]
        /\ Continue("newKey", job)
     \/ /\ disk.keypair \/ Fault("disk")
        /\ Fail
        /\ UNCHANGED disk
  /\ UNCHANGED <<cloud, strays>>

CreateSSHKeyPair == pc = "newKey" /\ Create(KeyObject, "saveKey")

SaveSSHID ==
  LET c == ConfigWriterSSHID(job.mem, job.got) IN
  /\ pc = "saveKey"
  /\ \/ /\ SaveSucceeds(c)
        /\ Continue("newNetwork", [job EXCEPT !.mem = c, !.key = job.got, !.got = NoID])
     \/ SaveFails(1) /\ Fail

CreateNetwork == pc = "newNetwork" /\ Create(NetworkObject, "saveNetwork")

SaveNetworkID ==
  LET c == ConfigWriterNetworkID(job.mem, job.got) IN
  /\ pc = "saveNetwork"
  /\ \/ /\ SaveSucceeds(c)
        /\ Continue("newFirewall", [job EXCEPT !.mem = c, !.got = NoID, !.role = "db"])
     \/ SaveFails(1) /\ Fail

-----------------------------------------------------------------------------
(* One node: CreateDatabase, CreateLoadbalancer, CreateControlPlane and    *)
(* CreateWorkerNode, for the role the command is at                        *)

\* Mutant: a firewall for every node.
FirstStageAlwaysFirewall(r, c) == "newFirewall"

\* The control planes share a firewall, and so do the workers.
FirstStage(r, c) == IF r \in {"cp", "wp"} /\ c.fw[r] # NoID THEN "newInstance" ELSE "newFirewall"

\* What the caller's loop does when a node function has returned no error.
NextNode(j) ==
  \/ /\ j.role = "db"
     /\ Continue("newFirewall", [j EXCEPT !.role = "lb"])
  \/ /\ j.role = "lb"
     /\ Continue(FirstStage("cp", j.mem), [j EXCEPT !.role = "cp", !.n = 0])
  \/ /\ j.role = "cp" /\ j.n + 1 < j.cps
     /\ Continue(FirstStage("cp", j.mem), [j EXCEPT !.n = @ + 1])
  \/ /\ j.role = "cp" /\ j.n + 1 = j.cps
     /\ Continue("configLB", j)
  \/ /\ j.role = "wp" /\ j.n + 1 < j.wps
     /\ Continue(FirstStage("wp", j.mem), [j EXCEPT !.n = @ + 1])
  \/ /\ j.role = "wp" /\ j.n + 1 = j.wps
     /\ Return(IF j.op = "create" THEN "created" ELSE "added")

\* When a save fails the node functions return without a node and without
\* an error; the record in memory keeps the identifier.
NodeMissing(c) ==
  [job EXCEPT !.mem = c, !.got = NoID, !.nilNode = @ \/ job.role \in {"lb", "cp"}]

CreateFirewall ==
  pc = "newFirewall" /\ Create(FirewallObject(job.mem.networkID), "saveFirewall")

SaveFirewall ==
  LET c == ConfigWriterFirewall(job.mem, job.role, job.got) IN
  /\ pc = "saveFirewall"
  /\ \/ SaveSucceeds(c) /\ Continue("newInstance", [job EXCEPT !.mem = c, !.got = NoID])
     \/ SaveFails(1) /\ NextNode(NodeMissing(c))

\* Mutant: the number forgets the workers that are there.
HostNumberNoBase == job.n + 1

\* Control planes and workers are numbered in their host names.
HostNumber == job.base + job.n + 1

CreateInstance ==
  /\ pc = "newInstance"
  /\ Create(Instance(job.role, job.mem.networkID, job.key,
                     IF job.role \in {"cp", "wp"} THEN HostNumber ELSE 0),
            "saveInstance")

SaveInstance ==
  LET c == ConfigWriterInstance(job.mem, job.role, job.got) IN
  /\ pc = "saveInstance"
  /\ \/ SaveSucceeds(c) /\ Continue("boot", [job EXCEPT !.mem = c, !.got = NoID])
     \/ SaveFails(1) /\ NextNode(NodeMissing(c))

\* Mutant: an instance whose status cannot be read is created again.
BootAgain ==
  LET id == Last(job.mem.inst[job.role]) IN
  /\ pc = "boot"
  /\ \/ /\ id \in DOMAIN cloud
        /\ cloud[id].active
        /\ IF job.role = "db" THEN Continue("saveEndpoint", job) ELSE NextNode(job)
     \/ id \notin DOMAIN cloud /\ Fail
     \/ Fault("api") /\ Continue("newInstance", job)
  /\ UNCHANGED <<cloud, disk, strays>>

\* The loop that asks for the instance until its status is ACTIVE.
Boot ==
  LET id == Last(job.mem.inst[job.role]) IN
  /\ pc = "boot"
  /\ \/ /\ id \in DOMAIN cloud
        /\ cloud[id].active
        /\ IF job.role = "db" THEN Continue("saveEndpoint", job) ELSE NextNode(job)
     \/ id \notin DOMAIN cloud /\ Fail
     \/ Fault("api") /\ Fail
  /\ UNCHANGED <<cloud, disk, strays>>

SaveEndpoint ==
  LET c == ConfigWriterDBEndpoint(job.mem) IN
  /\ pc = "saveEndpoint"
  /\ \/ SaveSucceeds(c) /\ NextNode([job EXCEPT !.mem = c])
     \/ SaveFails(0) /\ Fail

-----------------------------------------------------------------------------
(* Configuring the nodes over SSH                                          *)

\* The address of a node that is nil is a nil dereference.
ConfigLoadBalancer ==
  /\ pc = "configLB"
  /\ \/ job.nilNode /\ Return("panic") /\ UNCHANGED <<cloud, disk, strays>>
     \/ /\ ~job.nilNode
        /\ ScriptRuns(Last(job.mem.inst["lb"]))
        /\ Continue("configCP", [job EXCEPT !.n = 0])
     \/ /\ ~job.nilNode
        /\ ScriptFails(Last(job.mem.inst["lb"]))
        /\ Fail

\* The first control plane also gives the token that the others join with.
ConfigControlPlane ==
  LET id == job.mem.inst["cp"][job.n + 1] IN
  /\ pc = "configCP"
  /\ \/ ScriptRuns(id) /\ job.n = 0 /\ Continue("saveToken", job)
     \/ /\ ScriptRuns(id) /\ job.n > 0
        /\ Continue(IF job.n + 1 = job.cps THEN "kubeconfig" ELSE "configCP", [job EXCEPT !.n = @ + 1])
     \/ ScriptFails(id) /\ Fail

SaveToken ==
  LET c == ConfigWriterServerToken(job.mem) IN
  /\ pc = "saveToken"
  /\ \/ SaveSucceeds(c) /\ Continue("configCP", [job EXCEPT !.mem = c, !.n = 1])
     \/ SaveFails(0) /\ Fail

\* Mutant: the loop over the workers starts at one.
SaveKubeconfigLoopFromOne ==
  /\ pc = "kubeconfig"
  /\ disk' = [disk EXCEPT !.kubeconfig = "full"]
  /\ IF job.wps <= 1
     THEN Return("created")
     ELSE Continue(FirstStage("wp", job.mem), [job EXCEPT !.role = "wp", !.n = 1])
  /\ UNCHANGED <<cloud, strays>>

\* FetchKUBECONFIG swallows the error of its script, so an empty kubeconfig
\* is saved as if it had been fetched.
SaveKubeconfig ==
  LET id == job.mem.inst["cp"][1] IN
  /\ pc = "kubeconfig"
  /\ \/ /\ \/ id \in DOMAIN cloud /\ disk' = [disk EXCEPT !.kubeconfig = "full"]
           \/ (id \notin DOMAIN cloud \/ Fault("ssh")) /\ disk' = [disk EXCEPT !.kubeconfig = "empty"]
        /\ \/ /\ job.wps = 0
              /\ Return("created")
           \/ /\ job.wps > 0
              /\ Continue(FirstStage("wp", job.mem), [job EXCEPT !.role = "wp", !.n = 0])
     \/ /\ Fault("disk")
        /\ disk' \in {disk, [disk EXCEPT !.kubeconfig = "empty"]}
        /\ Fail
  /\ UNCHANGED <<cloud, strays>>
-----------------------------------------------------------------------------
(* ksctl delete-cluster ha-civo, and the clean-up of a failed creation     *)

\* The prompt: only the delete command asks.  GetConfig fails on a truncated
\* file.
StartDelete ==
  /\ pc = "idle"
  /\ \E confirmed \in BOOLEAN :
       \/ (disk.file # "saved" \/ ~confirmed) /\ Refuse("failed")
       \/ /\ disk.file = "saved" /\ confirmed
          /\ Begin("guard", [NoJob EXCEPT !.op = "delete"])
          /\ UNCHANGED <<cloud, disk, strays>>

LoadForDelete ==
  /\ pc = "guard"
  /\ \/ disk.file # "saved" /\ Return("failed")
     \/ /\ disk.file = "saved"
        /\ Continue("delInstances",
                    [NoJob EXCEPT !.op = job.op, !.found = job.found,
                                  !.mem = Info, !.key = Info.sshID, !.role = "cp"])
  /\ UNCHANGED <<cloud, disk, strays>>

\* DeleteInstances goes through the groups in this order, and remembers the
\* last error of a group.
DeleteInstance ==
  LET group == job.mem.inst[job.role]
      id    == group[job.n + 1]
      next(err) == Continue("delInstances", [job EXCEPT !.n = @ + 1, !.err = err]) IN
  /\ pc = "delInstances"
  /\ job.n < Len(group)
  /\ \/ Deleted(id) /\ next(job.err)
     \/ NotThere(id) /\ next("notFound")
     \/ DeleteFails(id) /\ next("other")
  /\ UNCHANGED <<disk, strays>>

NextGroup == [cp |-> "wp", wp |-> "lb", lb |-> "db"]

\* An error ends DeleteInstances before the next group.  The handler carries
\* on with the networks when that error says that an instance is not there.
EndOfGroup ==
  /\ pc = "delInstances"
  /\ job.n = Len(job.mem.inst[job.role])
  /\ \/ job.err = "other" /\ Return("failed")
     \/ /\ job.err = "notFound" \/ (job.err = "none" /\ job.role = "db")
        /\ Continue("delFirewalls", [job EXCEPT !.n = 1])
     \/ /\ job.err = "none" /\ job.role # "db"
        /\ Continue("delInstances", [job EXCEPT !.role = NextGroup[job.role], !.n = 0])
  /\ UNCHANGED <<cloud, disk, strays>>

FirewallOrder == <<"cp", "wp", "db", "lb">>

\* Errors of DeleteFirewall are only logged.
DeleteFirewall ==
  LET id == job.mem.fw[FirewallOrder[job.n]] IN
  /\ pc = "delFirewalls"
  /\ \/ id # NoID /\ (Deleted(id) \/ NotThere(id) \/ DeleteFails(id))
     \/ id = NoID /\ UNCHANGED cloud
  /\ IF job.n = Len(FirewallOrder) THEN Continue("delNetwork", job)
                                   ELSE Continue("delFirewalls", [job EXCEPT !.n = @ + 1])
  /\ UNCHANGED <<disk, strays>>

\* Mutant: one more attempt.
RetriesLeftOneMore == job.retry < MaxRetry

RetriesLeft == job.retry + 1 < MaxRetry

\* Mutant: the counter of the loop is not advanced.
RetriedNotCounted == job

Retried == [job EXCEPT !.retry = @ + 1]

\* Mutant: the result of the loop is not looked at.
DeleteNetworkNoResult ==
  LET id == job.mem.networkID IN
  /\ pc = "delNetwork"
  /\ \/ CanDeleteNetwork(cloud, id) /\ Deleted(id) /\ Continue("delKey", job)
     \/ /\ ~CanDeleteNetwork(cloud, id) /\ UNCHANGED cloud
        /\ IF RetriesLeft THEN Continue("delNetwork", Retried) ELSE Continue("delKey", job)
  /\ UNCHANGED <<disk, strays>>

\* Any error, "not found" included, is retried and in the end returned.
DeleteNetwork ==
  LET id == job.mem.networkID IN
  /\ pc = "delNetwork"
  /\ \/ CanDeleteNetwork(cloud, id) /\ Deleted(id) /\ Continue("delKey", job)
     \/ /\ \/ ~CanDeleteNetwork(cloud, id) /\ UNCHANGED cloud
           \/ Fault("api") /\ UNCHANGED cloud
           \/ Fault("lost") /\ CanDeleteNetwork(cloud, id) /\ Deleted(id)
        /\ IF RetriesLeft THEN Continue("delNetwork", Retried) ELSE Return("failed")
  /\ UNCHANGED <<disk, strays>>

\* Mutant: the error is not looked at.
DeleteSSHKeyPairNoError ==
  /\ pc = "delKey"
  /\ Deleted(job.key) \/ NotThere(job.key) \/ DeleteFails(job.key)
  /\ Continue("delPaths", job)
  /\ UNCHANGED <<disk, strays>>

\* Mutant: the key is left alone.
DeleteSSHKeyPairSkipped ==
  /\ pc = "delKey"
  /\ Continue("delPaths", job)
  /\ UNCHANGED <<cloud, disk, strays>>

DeleteSSHKeyPair ==
  /\ pc = "delKey"
  /\ \/ Deleted(job.key) /\ Continue("delPaths", job)
     \/ (NotThere(job.key) \/ DeleteFails(job.key)) /\ Return("failed")
  /\ UNCHANGED <<disk, strays>>

\* What a RemoveAll that does not get to its end leaves behind.
PartlyRemoved ==
  {[d EXCEPT !.keypair = k, !.kubeconfig = c] :
     d \in {disk, [disk EXCEPT !.file = "absent", !.info = EmptyConfig]},
     k \in {disk.keypair, FALSE}, c \in {disk.kubeconfig, "none"}}

DeleteAllPaths ==
  /\ pc = "delPaths"
  /\ \/ disk' = EmptyDisk /\ Return(IF job.op = "delete" THEN "deleted" ELSE "failed")
     \/ Fault("disk") /\ disk' \in PartlyRemoved /\ Return("failed")
  /\ UNCHANGED <<cloud, strays>>

-----------------------------------------------------------------------------
(* ksctl create-cluster ha-civo add-nodes, delete-cluster ... delete-nodes *)

LoadBalancerFound == Info.inst["lb"] # << >> /\ Info.inst["lb"][1] \in DOMAIN cloud

\* The handle that adds workers has the network and the firewall of the
\* record and no SSH key.  The load balancer is looked up first; the error
\* of the lookup is not looked at, and its nil result is dereferenced.
StartAdd ==
  /\ pc = "idle"
  /\ \E accepted \in BOOLEAN, k \in WPCounts \ {0} :
       \/ (~accepted \/ disk.file # "saved" \/ Fault("api")) /\ Refuse("failed")
       \/ /\ accepted /\ disk.file = "saved"
          /\ ~LoadBalancerFound \/ Fault("api")
          /\ Refuse("panic")
       \/ /\ accepted /\ disk.file = "saved"
          /\ LoadBalancerFound
          /\ Room(k + 1)
          /\ Begin(FirstStage("wp", Info),
                   [NoJob EXCEPT !.op = "add", !.mem = Info, !.role = "wp",
                                 !.wps = k, !.base = Len(Info.inst["wp"])])
          /\ UNCHANGED <<cloud, disk, strays>>

StartRemove ==
  /\ pc = "idle"
  /\ \E confirmed \in BOOLEAN, k \in WPCounts \ {0} :
       \/ ~isPresent /\ Refuse("failed")
       \/ isPresent /\ ~confirmed /\ Refuse("declined")
       \/ /\ isPresent /\ confirmed
          /\ disk.file # "saved" \/ k > Len(Info.inst["wp"])
          /\ Refuse("failed")
       \/ /\ confirmed /\ disk.file = "saved" /\ k <= Len(Info.inst["wp"])
          /\ Begin("dropWorker", [NoJob EXCEPT !.op = "remove", !.mem = Info, !.role = "wp", !.wps = k])
          /\ UNCHANGED <<cloud, disk, strays>>

\* Mutant: the first worker is deleted and the last one struck off.
FirstWorker(ws) == Head(ws)

NewestWorker(ws) == Last(ws)

DropWorker ==
  LET id == NewestWorker(job.mem.inst["wp"]) IN
  /\ pc = "dropWorker"
  /\ \/ Deleted(id) /\ Continue("saveDrop", [job EXCEPT !.mem = DropLastWorker(@)])
     \/ (NotThere(id) \/ DeleteFails(id)) /\ Fail
  /\ UNCHANGED <<disk, strays>>

SaveDrop ==
  /\ pc = "saveDrop"
  /\ \/ /\ SaveSucceeds(job.mem)
        /\ IF job.n + 1 = job.wps THEN Return("removed")
                                  ELSE Continue("dropWorker", [job EXCEPT !.n = @ + 1])
     \/ SaveFails(0) /\ Fail

-----------------------------------------------------------------------------
(* The environment                                                         *)

\* The process is killed.  What it knew and had not saved is lost.
Crash ==
  /\ Fault("crash")
  /\ pc # "idle"
  /\ \/ disk' = disk
     \/ Fault("torn") /\ pc \in SaveStage /\ disk' = Torn
     \/ pc = "kubeconfig" /\ disk' = [disk EXCEPT !.kubeconfig = "empty"]
     \/ pc = "delPaths" /\ disk' \in PartlyRemoved
  /\ Stray(IF job.got = NoID THEN 0 ELSE 1)
  /\ Return("crashed")
  /\ UNCHANGED cloud

\* The cloud finishes booting an instance.
Activate ==
  /\ \E id \in DOMAIN cloud : ~cloud[id].active /\ cloud' = Activated(cloud, id)
  /\ UNCHANGED <<disk, pc, job, outcome, strays>>

\* Somebody deletes an instance by hand.
DeleteByHand ==
  /\ Fault("dashboard")
  /\ \E id \in DOMAIN cloud : cloud[id].kind \in Role /\ cloud' = Without(cloud, id)
  /\ UNCHANGED <<disk, pc, job, outcome, strays>>

-----------------------------------------------------------------------------
Init ==
  /\ cloud = [i \in {} |-> KeyObject]
  /\ disk = EmptyDisk
  /\ pc = "idle"
  /\ job = NoJob
  /\ outcome = "none"
  /\ strays = 0

\* The user's commands, none of which has to be given.
User == StartCreate \/ StartDelete \/ StartAdd \/ StartRemove

CreateStep ==
  \/ Keygen \/ CreateSSHKeyPair \/ SaveSSHID \/ CreateNetwork \/ SaveNetworkID
  \/ CreateFirewall \/ SaveFirewall \/ CreateInstance \/ SaveInstance \/ Boot \/ SaveEndpoint
  \/ ConfigLoadBalancer \/ ConfigControlPlane \/ SaveToken \/ SaveKubeconfig

DeleteStep ==
  \/ LoadForDelete \/ DeleteInstance \/ EndOfGroup \/ DeleteFirewall \/ DeleteNetwork
  \/ DeleteSSHKeyPair \/ DeleteAllPaths

RemoveStep == DropWorker \/ SaveDrop

\* The running command.
Step == CreateStep \/ DeleteStep \/ RemoveStep

Next == User \/ Step \/ Crash \/ Activate \/ DeleteByHand

Spec == Init /\ [][Next]_vars

\* The operating system runs the process; the cloud boots what it created.
FairSpec == Spec /\ WF_vars(Step) /\ WF_vars(Activate)
-----------------------------------------------------------------------------
(* Properties                                                              *)

\* What exists in the cloud and is missing from info.json is there because
\* of a fault, one object for each: a lost reply, a kill between a reply and
\* the save, a save that failed (the ConfigWriter after every creation in
\* utils.go, DeleteNetworks and DeleteAllPaths).
StraysBounded ==
  Cardinality(DOMAIN cloud \ Recorded(Info)) <= strays + (IF job.got = NoID THEN 0 ELSE 1)

\* An identifier leaves info.json only when its object is gone: neither a
\* save, nor the clean-up, nor the removal of the directory forgets an
\* object that still costs money (saveConfig, DeleteSomeWorkerNodes,
\* haDeleteClusterHandler).
NeverForgetsLive ==
  [][\A id \in Recorded(Info) \ Recorded(Info') : id \notin DOMAIN cloud']_vars

\* Every object on record is attached to the network on record, which is why
\* a deleted network proves that they are gone (CreateFirewall,
\* CreateInstance and the order of haDeleteClusterHandler).
RecordedAreAttached ==
  \A id \in DOMAIN cloud \cap (Firewalls(Info) \cup Instances(Info)) :
    cloud[id].net = Info.networkID

\* A creation that reports success has built everything: every node is
\* active and on record, the endpoint, the token and the kubeconfig are
\* there (haCreateClusterHandler).  When a script can fail the kubeconfig may
\* be an empty file: FetchKUBECONFIG swallows the error.
CreatedIsComplete ==
  outcome = "created" =>
    /\ disk.file = "saved" /\ disk.keypair
    /\ disk.kubeconfig # "none" /\ ("ssh" \notin Faults => disk.kubeconfig = "full")
    /\ Info.endpoint /\ Info.token
    /\ Recorded(Info) \subseteq DOMAIN cloud
    /\ \A r \in Role \ {"wp"} : Info.fw[r] # NoID
    /\ Len(Info.inst["db"]) = 1 /\ Len(Info.inst["lb"]) = 1
    /\ Len(Info.inst["cp"]) >= 3
    /\ \A id \in Instances(Info) : cloud[id].active

\* The creation that reports success has as many control planes and workers on
\* record as the user asked for: no round of the loops over the nodes is
\* skipped or run twice (haCreateClusterHandler).
CreatedAsAsked ==
  [][outcome' = "created" /\ outcome # "created" =>
      Len(Info'.inst["cp"]) = job.cps /\ Len(Info'.inst["wp"]) = job.wps]_vars

\* The worker at position i of the record is the one named wp<i>, and a worker
\* about to be created gets a number that no worker on record has, over any
\* additions, removals and failed boots (AddMoreWorkerNodes numbers from the
\* length of the list).  Only workers on record count: the number of one that
\* a lost reply or a kill keeps off the record is given again.
WorkersAreNumbered ==
  /\ \A i \in DOMAIN Info.inst["wp"] :
       LET id == Info.inst["wp"][i] IN id \in DOMAIN cloud => cloud[id].num = i
  /\ pc = "newInstance" /\ job.role = "wp" =>
       \A w \in ToSet(job.mem.inst["wp"]) \cap DOMAIN cloud : cloud[w].num # HostNumber

\* Removing nodes takes the most recent worker: no worker on record outlives
\* one with a smaller number (DeleteSomeWorkerNodes).
RemovesNewestFirst ==
  [][job.op = "remove" /\ pc' # pc =>
      \A id \in DOMAIN cloud \ DOMAIN cloud' :
        \A w \in ToSet(Info.inst["wp"]) \cap DOMAIN cloud : cloud[w].num <= cloud[id].num]_vars

\* Every command ends (the polling loops of the node functions, the retry
\* loop of DeleteNetworks, the loops over nodes and groups).
CommandsEnd == pc # "idle" ~> pc = "idle"
=============================================================================
