------------------------------- MODULE AzureHA -------------------------------
(***************************************************************************)
(* The life of one self-managed ("HA") Azure cluster under ksctl: the      *)
(* commands that create it, delete it, add workers and remove workers      *)
(* (src/api/azure), run one at a time against the cluster's resource group *)
(* and its directory on the local disk.                                    *)
(*                                                                         *)
(* Unlike the Civo commands, these keep what they did in memory and write  *)
(* it down when a function returns (deferred ConfigWriter), whatever it    *)
(* returns, and do not look at the error of that write.                    *)
(***************************************************************************)
EXTENDS AzureStore, FiniteSets

CONSTANTS
  CPCounts,    \* numbers of control planes a user asks for
  WPCounts,    \* numbers of workers a user asks for, adds or removes
  MaxWorkers,  \* bound: the highest number a worker gets
  MaxFaults,   \* bound: how many faults happen
  Faults       \* which faults may happen

FaultKind ==
  {"api",    \* a call to Azure or a script over SSH fails without an effect
   "lost",   \* a call to Azure takes effect and reports an error
   "disk",   \* a file cannot be written, or not to its end
   "crash"}  \* the process is killed

ASSUME CountsAssumption == CPCounts \subseteq Nat /\ WPCounts \subseteq Nat
ASSUME BoundsAssumption == MaxWorkers \in Nat /\ MaxFaults \in Nat
ASSUME FaultsAssumption == Faults \subseteq FaultKind

VARIABLES
  live,     \* the resources that exist
  disk,     \* the cluster's directory
  pc,       \* what the running command does next, "idle" between commands
  job,      \* the local variables of the running command
  outcome,  \* how the last command that was not refused ended
  seen,     \* history: the kinds of fault that happened
  hits      \* history: how many

vars == <<live, disk, pc, job, outcome, seen, hits>>

-----------------------------------------------------------------------------
(* Types                                                                   *)

CreateStage == {"group", "keygen", "key", "config", "script", "token", "saveToken", "kubeconfig", "exit"}
BuildStage  == {"build", "save"}
DeleteStage == {"read", "wipe", "drop"}
RemoveStage == {"strip", "trim"}
Stage       == {"idle"} \cup CreateStage \cup BuildStage \cup DeleteStage \cup RemoveStage

\* The directory: info.json with the record it holds, keypair and config.
Disk ==
  [file       : {"absent", "torn", "saved"},
   info       : Config,
   keypair    : BOOLEAN,
   kubeconfig : {"none", "empty", "full"}]

EmptyDisk == [file |-> "absent", info |-> EmptyConfig, keypair |-> FALSE, kubeconfig |-> "none"]

\* mem is obj.Config; todo are the resources the running function has still
\* to create or delete; role and n the machine it is at, cps and wps the
\* number of the last one, rounds the workers left to remove; failed whether
\* the function returns an error.
Job ==
  [op : {"none", "create", "delete", "add", "remove"},
   mem : Config, todo : Seq(Resource), role : Role, n : Nat,
   cps : Nat, wps : Nat, rounds : Nat, failed : BOOLEAN]

NoJob ==
  [op |-> "none", mem |-> EmptyConfig, todo |-> << >>, role |-> "lb", n |-> 0,
   cps |-> 0, wps |-> 0, rounds |-> 0, failed |-> FALSE]

Outcome ==
  {"none", "created", "deleted", "added", "removed", "failed", "panic", "crashed"}

TypeOK ==
  /\ live \in SUBSET Resource
  /\ disk \in Disk
  /\ pc \in Stage
  /\ job \in Job
  /\ outcome \in Outcome
  /\ seen \subseteq Faults
  /\ hits \in 0..MaxFaults
  /\ pc \in {"build", "wipe", "strip"} => job.todo # << >>

-----------------------------------------------------------------------------
(* Control                                                                 *)

Info == disk.info

\* A fault of kind f happens now.
Hit(f) ==
  /\ f \in Faults /\ hits < MaxFaults
  /\ seen' = seen \cup {f}
  /\ hits' = hits + 1

NoHit == UNCHANGED <<seen, hits>>

Begin(stage, j)    == pc' = stage /\ job' = j /\ outcome' = "none"
Continue(stage, j) == pc' = stage /\ job' = j /\ UNCHANGED outcome
Return(result)     == pc' = "idle" /\ job' = NoJob /\ outcome' = result

\* A command that ends before it has done anything.
Refuse == UNCHANGED vars

\* Mutant: the handler's error is not returned.
AbortNoError(j) == Continue("exit", j)

\* An error in haCreateClusterHandler: it returns.
Abort(j) == Continue("exit", [j EXCEPT !.failed = TRUE])

\* SaveState replaces the whole file, and truncates it first.
Saved(c) == [disk EXCEPT !.file = "saved", !.info = c]
Torn     == [disk EXCEPT !.file = "torn", !.info = EmptyConfig]

\* Mutant: nothing is written when the function returns an error.
ConfigWriterOnSuccess(j) ==
  IF j.failed THEN disk' = disk /\ NoHit
  ELSE \/ disk' = Saved(j.mem) /\ NoHit
       \/ Hit("disk") /\ disk' \in {disk, Torn}

\* The deferred ConfigWriter of a function that returns: whether it returns
\* an error or not, and without an error of its own.
ConfigWriter(j) ==
  \/ disk' = Saved(j.mem) /\ NoHit
  \/ Hit("disk") /\ disk' \in {disk, Torn}

\* The calls that create r: with effect, or without, or with an effect that
\* is reported as an error.
Creates(r)      == ~PutRefused(live, r) /\ live' = PutIn(live, r) /\ NoHit
CreateFails(r)  ==
  \/ Hit("api") /\ UNCHANGED live
  \/ Hit("lost") /\ ~PutRefused(live, r) /\ live' = PutIn(live, r)

-----------------------------------------------------------------------------
(* ksctl create-cluster ha-azure                                           *)

IsValidNoOfControlPlanes(n) == n >= 3 /\ n % 2 = 1

isPresent == disk.file # "absent"

\* The checks of CreateCluster and haCreateClusterHandler.  After a rejection
\* the clean-up finds no state file, or is not called.
StartCreate ==
  /\ pc = "idle"
  /\ \E accepted \in BOOLEAN, cps \in CPCounts, wps \in WPCounts :
       \/ (~accepted \/ isPresent \/ ~IsValidNoOfControlPlanes(cps)) /\ Refuse
       \/ /\ accepted /\ ~isPresent /\ IsValidNoOfControlPlanes(cps) /\ wps <= MaxWorkers
          /\ Begin("group", [NoJob EXCEPT !.op = "create", !.cps = cps, !.wps = wps])
          /\ NoHit /\ UNCHANGED <<live, disk>>

CreateResourceGroup ==
  /\ pc = "group"
  /\ \/ Creates(Group) /\ Continue("keygen", job)
     \/ CreateFails(Group) /\ Abort(job)
  /\ UNCHANGED disk

\* ssh-keygen does not overwrite a key pair that is there.
CreateSSHKeyPair ==
  /\ pc = "keygen"
  /\ \/ /\ ~disk.keypair
        /\ disk' = [disk EXCEPT !.keypair = TRUE]
        /\ Continue("key", job)
        /\ NoHit
     \/ /\ \/ disk.keypair /\ NoHit
           \/ Hit("disk")
        /\ Abort(job)
        /\ UNCHANGED disk
  /\ UNCHANGED live

\* The first thing createLoadBalancer and its likes do for machine n.
BuildMachine(j, r, n) ==
  Continue("build", [j EXCEPT !.role = r, !.n = n, !.todo = Plan(j.mem, r, n)])

createLoadBalancer(j)    == BuildMachine(j, "lb", 0)
createDatabase(j)        == BuildMachine(j, "db", 0)
createControlPlane(j, n) == BuildMachine(j, "cp", n)
createWorkerPlane(j, n)  == BuildMachine(j, "wp", n)

\* UploadSSHKey notes the name whether or not the key could be uploaded.
UploadSSHKey ==
  LET j == [job EXCEPT !.mem.key = TRUE] IN
  /\ pc = "key"
  /\ \/ Creates(SSHKey) /\ createLoadBalancer(j)
     \/ CreateFails(SSHKey) /\ Abort(j)
  /\ UNCHANGED disk

-----------------------------------------------------------------------------
(* One machine: createLoadBalancer, createDatabase, createControlPlane,    *)
(* createWorkerPlane                                                       *)

\* CreateVM needs the public key from the cluster's directory.  Azure may
\* refuse to create a machine that is there with other properties.
VMRefused(r) == r.kind = "vm" /\ (~disk.keypair \/ r \in live)

\* The machine's next resource, of this kind.  An error ends the function.
Build(kind) ==
  LET r    == Head(job.todo)
      rest == Tail(job.todo) IN
  /\ pc = "build" /\ r.kind = kind
  /\ \/ /\ r.kind = "vm" => disk.keypair
        /\ Creates(r)
        /\ Continue(IF rest = << >> THEN "save" ELSE "build",
                    [job EXCEPT !.mem = Noted(@, r), !.todo = rest])
     \/ /\ \/ (PutRefused(live, r) \/ VMRefused(r)) /\ NoHit /\ UNCHANGED live
           \/ CreateFails(r) /\ (r.kind = "vm" => disk.keypair)
        /\ Continue("save", [job EXCEPT !.todo = << >>, !.failed = TRUE])
  /\ UNCHANGED disk

CreateVirtualNetwork   == Build("vnet")
CreateSubnet           == Build("subnet")
CreatePublicIP         == Build("ip")
CreateNSG              == Build("nsg")
CreateNetworkInterface == Build("nic")
CreateVM               == Build("vm")

\* What the caller's loop does when a machine is there.
NextMachine(j) ==
  \/ j.role = "lb" /\ createDatabase(j)
  \/ j.role = "db" /\ createControlPlane(j, 1)
  \/ j.role = "cp" /\ j.n < j.cps /\ createControlPlane(j, j.n + 1)
  \/ j.role = "cp" /\ j.n = j.cps /\ Continue("config", j)
  \/ j.role = "wp" /\ j.n < j.wps /\ createWorkerPlane(j, j.n + 1)
  \/ j.role = "wp" /\ j.n = j.wps /\ j.op = "create" /\ Continue("exit", j)
  \/ j.role = "wp" /\ j.n = j.wps /\ j.op = "add" /\ Return("added")

\* The function of the machine returns.
SaveMachine ==
  /\ pc = "save"
  /\ ConfigWriter(job)
  /\ \/ ~job.failed /\ NextMachine(job)
     \/ job.failed /\ job.op = "create" /\ Abort(job)
     \/ job.failed /\ job.op = "add" /\ Return("failed")
  /\ UNCHANGED live

-----------------------------------------------------------------------------
(* Configuring the machines over SSH                                       *)

ConfigLoadBalancer ==
  /\ pc = "config"
  /\ \/ NoHit /\ Continue("script", [job EXCEPT !.n = 1])
     \/ Hit("api") /\ Abort(job)
  /\ UNCHANGED <<live, disk>>

\* The first control plane also gives the token that the others join with.
ConfigControlPlane ==
  /\ pc = "script"
  /\ \/ /\ NoHit
        /\ \/ job.n = 1 /\ Continue("token", job)
           \/ job.n > 1 /\ job.n < job.cps /\ Continue("script", [job EXCEPT !.n = @ + 1])
           \/ job.n > 1 /\ job.n = job.cps /\ Continue("kubeconfig", job)
     \/ Hit("api") /\ Abort(job)
  /\ UNCHANGED <<live, disk>>

\* No token when the script cannot be run, or prints nothing.
GetTokenFromCP1 ==
  /\ pc = "token"
  /\ \/ NoHit /\ Continue("saveToken", [job EXCEPT !.mem.token = TRUE])
     \/ Hit("api") /\ (Continue("saveToken", job) \/ Abort(job))
  /\ UNCHANGED <<live, disk>>

SaveToken ==
  /\ pc = "saveToken"
  /\ ConfigWriter(job)
  /\ IF job.mem.token THEN Continue("script", [job EXCEPT !.n = 2]) ELSE Abort(job)
  /\ UNCHANGED live

\* Mutant: the loop over the workers leaves out the first.
SaveKubeconfigLoopFromOne ==
  /\ pc = "kubeconfig"
  /\ disk' = [disk EXCEPT !.kubeconfig = "full"] /\ NoHit
  /\ IF job.wps <= 1 THEN Continue("exit", job) ELSE createWorkerPlane(job, 2)
  /\ UNCHANGED live

\* FetchKUBECONFIG swallows the error of its script, so an empty kubeconfig
\* is saved as if it had been fetched.
SaveKubeconfig ==
  /\ pc = "kubeconfig"
  /\ \/ /\ \/ disk' = [disk EXCEPT !.kubeconfig = "full"] /\ NoHit
           \/ disk' = [disk EXCEPT !.kubeconfig = "empty"] /\ Hit("api")
        /\ \/ job.wps = 0 /\ Continue("exit", job)
           \/ job.wps > 0 /\ createWorkerPlane(job, 1)
     \/ /\ Hit("disk")
        /\ disk' \in {disk, [disk EXCEPT !.kubeconfig = "empty"]}
        /\ Abort(job)
  /\ UNCHANGED live

\* haCreateClusterHandler returns; CreateCluster cleans up after an error.
ReturnFromCreate ==
  /\ pc = "exit"
  /\ ConfigWriter(job)
  /\ IF job.failed THEN Continue("read", job) ELSE Return("created")
  /\ UNCHANGED live

-----------------------------------------------------------------------------
(* ksctl delete-cluster ha-azure, and the clean-up of a failed creation    *)

\* Only the delete command asks for a confirmation.
StartDelete ==
  /\ pc = "idle"
  /\ \E accepted \in BOOLEAN :
       \/ (~accepted \/ ~isPresent) /\ Refuse
       \/ /\ accepted /\ isPresent
          /\ Begin("read", [NoJob EXCEPT !.op = "delete"])
          /\ NoHit /\ UNCHANGED <<live, disk>>

ConfigReader ==
  /\ pc = "read"
  /\ \/ disk.file # "saved" /\ Return("failed")
     \/ /\ disk.file = "saved"
        /\ Continue("wipe", [NoJob EXCEPT !.op = job.op, !.mem = Info, !.todo = Teardown(Info)])
  /\ NoHit /\ UNCHANGED <<live, disk>>

\* Deleting r: without its name the call is not even sent.
Deletes(r) ==
  /\ Names(job.mem, r) /\ ~DeleteRefused(live, r)
  /\ live' = DeletedFrom(live, r)
  /\ NoHit

DeleteFails(r) ==
  \/ (~Names(job.mem, r) \/ DeleteRefused(live, r)) /\ NoHit /\ UNCHANGED live
  \/ Hit("api") /\ UNCHANGED live
  \/ Hit("lost") /\ Names(job.mem, r) /\ ~DeleteRefused(live, r) /\ live' = DeletedFrom(live, r)

\* The next resource on the list, of this kind; stage is where the deletion
\* then is.  The first error ends it.
Wipe(kind, stage) ==
  LET r == Head(job.todo) IN
  /\ pc = "wipe" /\ r.kind = kind
  /\ \/ Deletes(r) /\ Continue(stage, [job EXCEPT !.todo = Tail(@)])
     \/ DeleteFails(r) /\ Return("failed")
  /\ UNCHANGED disk

DeleteAllVMs              == Wipe("vm", "wipe")
DeleteAllDisks            == Wipe("disk", "wipe")
DeleteAllNetworkInterface == Wipe("nic", "wipe")
DeleteAllNSG              == Wipe("nsg", "wipe")
DeleteAllPublicIP         == Wipe("ip", "wipe")
DeleteSubnet              == Wipe("subnet", "wipe")
DeleteVirtualNetwork      == Wipe("vnet", "wipe")
DeleteSSHKeyPair          == Wipe("key", "wipe")

\* Mutant: the error of the call is not looked at.
DeleteGroupNoError ==
  LET r == Head(job.todo) IN
  /\ pc = "wipe" /\ r.kind = "group"
  /\ Deletes(r) \/ DeleteFails(r)
  /\ Continue("drop", [job EXCEPT !.todo = Tail(@)])
  /\ UNCHANGED disk

\* The group is the last to go.
DeleteResourceGroup == Wipe("group", "drop")

\* What a RemoveAll that does not get to its end leaves behind.
PartlyRemoved ==
  {[d EXCEPT !.keypair = k, !.kubeconfig = c] :
     d \in {disk, [disk EXCEPT !.file = "absent", !.info = EmptyConfig]},
     k \in {disk.keypair, FALSE}, c \in {disk.kubeconfig, "none"}}

RemoveAll ==
  /\ pc = "drop"
  /\ \/ disk' = EmptyDisk /\ NoHit /\ Return(IF job.op = "delete" THEN "deleted" ELSE "failed")
     \/ Hit("disk") /\ disk' \in PartlyRemoved /\ Return("failed")
  /\ UNCHANGED live

-----------------------------------------------------------------------------
(* add-nodes and delete-nodes                                              *)

StartAdd ==
  /\ pc = "idle"
  /\ \E accepted \in BOOLEAN, k \in WPCounts \ {0} :
       LET base == Len(Info.nodes["wp"]) IN
       \/ (~accepted \/ disk.file # "saved") /\ Refuse
       \/ /\ accepted /\ disk.file = "saved" /\ base + k <= MaxWorkers
          /\ Begin("build",
                   [NoJob EXCEPT !.op = "add", !.mem = Info, !.role = "wp", !.n = base + 1,
                                 !.wps = base + k, !.todo = Plan(Info, "wp", base + 1)])
          /\ NoHit /\ UNCHANGED <<live, disk>>

StartRemove ==
  /\ pc = "idle"
  /\ \E accepted, confirmed \in BOOLEAN, k \in WPCounts \ {0} :
       \/ ~confirmed /\ Refuse
       \/ /\ confirmed
          /\ ~accepted \/ disk.file # "saved" \/ k > Len(Info.nodes["wp"])
          /\ Refuse
       \/ /\ confirmed /\ accepted /\ disk.file = "saved" /\ k <= Len(Info.nodes["wp"])
          /\ Begin("strip",
                   [NoJob EXCEPT !.op = "remove", !.mem = Info, !.rounds = k, !.todo = Strip(Info)])
          /\ NoHit /\ UNCHANGED <<live, disk>>

\* Mutant: a deletion that fails is tried again.
StripWorkerAgain(kind) ==
  LET r    == Head(job.todo)
      rest == Tail(job.todo) IN
  /\ pc = "strip" /\ r.kind = kind
  /\ \/ /\ Deletes(r)
        /\ Continue(IF rest = << >> THEN "trim" ELSE "strip", [job EXCEPT !.todo = rest])
     \/ DeleteFails(r) /\ Continue("strip", job)
  /\ UNCHANGED disk

\* The worker's next resource, of this kind.
StripWorker(kind) ==
  LET r    == Head(job.todo)
      rest == Tail(job.todo) IN
  /\ pc = "strip" /\ r.kind = kind
  /\ \/ /\ Deletes(r)
        /\ Continue(IF rest = << >> THEN "trim" ELSE "strip", [job EXCEPT !.todo = rest])
     \/ DeleteFails(r) /\ Return("failed")
  /\ UNCHANGED disk

DeleteVM               == StripWorker("vm")
DeleteDisk             == StripWorker("disk")
DeleteNetworkInterface == StripWorker("nic")
DeletePublicIP         == StripWorker("ip")

\* The end of a round.  The lists of addresses may be shorter than the new
\* length; whether they can be extended to it depends on their capacity.
TrimWorker ==
  LET c == Trimmed(job.mem) IN
  /\ pc = "trim"
  /\ \/ /\ disk' = Saved(c) /\ NoHit
        /\ IF job.rounds = 1 THEN Return("removed")
           ELSE Continue("strip", [job EXCEPT !.mem = c, !.rounds = @ - 1, !.todo = Strip(c)])
     \/ Hit("disk") /\ disk' \in {disk, Torn} /\ Return("failed")
     \/ job.mem.addrs["wp"] < c.addrs["wp"] /\ NoHit /\ UNCHANGED disk /\ Return("panic")
  /\ UNCHANGED live

-----------------------------------------------------------------------------
\* The process is killed.  What it knew and had not saved is lost.
Crash ==
  /\ pc # "idle"
  /\ Hit("crash")
  /\ \/ disk' = disk
     \/ pc \in {"save", "saveToken", "exit", "trim"} /\ disk' = Torn
     \/ pc = "kubeconfig" /\ disk' = [disk EXCEPT !.kubeconfig = "empty"]
     \/ pc = "drop" /\ disk' \in PartlyRemoved
  /\ Return("crashed")
  /\ UNCHANGED live

Init ==
  /\ live = {}
  /\ disk = EmptyDisk
  /\ pc = "idle"
  /\ job = NoJob
  /\ outcome = "none"
  /\ seen = {}
  /\ hits = 0

\* The user's commands, none of which has to be given.
User == StartCreate \/ StartDelete \/ StartAdd \/ StartRemove

BuildStep ==
  \/ CreateVirtualNetwork \/ CreateSubnet \/ CreatePublicIP \/ CreateNSG \/ CreateNetworkInterface
  \/ CreateVM \/ SaveMachine

CreateStep ==
  \/ CreateResourceGroup \/ CreateSSHKeyPair \/ UploadSSHKey \/ ConfigLoadBalancer
  \/ ConfigControlPlane \/ GetTokenFromCP1 \/ SaveToken \/ SaveKubeconfig \/ ReturnFromCreate

DeleteStep ==
  \/ ConfigReader \/ DeleteAllVMs \/ DeleteAllDisks \/ DeleteAllNetworkInterface \/ DeleteAllNSG
  \/ DeleteAllPublicIP \/ DeleteSubnet \/ DeleteVirtualNetwork \/ DeleteSSHKeyPair
  \/ DeleteResourceGroup \/ RemoveAll

RemoveStep == DeleteVM \/ DeleteDisk \/ DeleteNetworkInterface \/ DeletePublicIP \/ TrimWorker

\* The running command.
Step == BuildStep \/ CreateStep \/ DeleteStep \/ RemoveStep

Next == User \/ Step \/ Crash

Spec == Init /\ [][Next]_vars
-----------------------------------------------------------------------------
(* Properties                                                              *)

\* What ksctl remembers: the record of the running command, else the file.
Remembered == IF pc \in CreateStage \cup BuildStage THEN job.mem ELSE Info

\* Every machine that exists, and its disk, is named by the record, even
\* when the call that created it reported an error: the machine is put on
\* the record before it is created, and the function that created it writes
\* the record whatever it returns (createControlPlane and its likes, the
\* deferred ConfigWriter).  Only a kill or a failed write can lose one.
MachinesRemembered ==
  seen \cap {"crash", "disk"} = {} =>
    \A r \in live : r.kind \in {"vm", "disk"} => Names(Remembered, r)

\* When no reply gets lost either, that is true of everything that exists,
\* but for the addresses of workers: after a failed add-nodes the list of
\* addresses is longer than that of machines, and DeleteSomeWorkerNodes cuts
\* both to the same length.
EverythingNamed ==
  seen \subseteq {"api"} =>
    \A r \in live : Names(Remembered, r) \/ (r.kind = "ip" /\ r.role = "wp")

\* A deletion then never asks Azure to delete what is still in use: the
\* order of haDeleteClusterHandler respects who uses what.
NeverInUse ==
  seen \subseteq {"api"} /\ pc = "wipe" => UsersOf(live, Head(job.todo)) = {}

\* The lists that DeleteSomeWorkerNodes indexes with the length of Names are
\* never shorter than Names, however the commands that filled them ended.
ListsAligned ==
  \A c \in {Info, job.mem} : \A r \in Role :
    Len(c.nodes[r]) <= Len(c.ips[r]) /\ c.addrs[r] <= Len(c.nodes[r])

\* A machine that runs is not created over again: numbers are not reused
\* (AddMoreWorkerNodes numbers from the length of the record).
CreateSparesLive ==
  seen \cap {"crash", "disk"} = {} /\ pc = "build" /\ Head(job.todo).kind = "vm"
    => Head(job.todo) \notin live

\* A creation that reports success has built and recorded everything
\* (haCreateClusterHandler), unless a write failed.  The kubeconfig may be an
\* empty file when the script that fetches it failed.
CreatedIsComplete ==
  outcome = "created" /\ "disk" \notin seen =>
    /\ disk.file = "saved" /\ disk.keypair
    /\ disk.kubeconfig # "none" /\ ("api" \notin seen => disk.kubeconfig = "full")
    /\ Info.vnet /\ Info.subnet /\ Info.key /\ Info.token
    /\ \A r \in Role : \A i \in DOMAIN Info.nodes[r] : VM(r, Info.nodes[r][i]) \in live
    /\ Len(Info.nodes["lb"]) = 1 /\ Len(Info.nodes["db"]) = 1 /\ Len(Info.nodes["cp"]) >= 3

\* The creation that reports success has as many control planes and workers on
\* record as the user asked for, unless a write failed: no round of the loops
\* over the machines is skipped or run twice (haCreateClusterHandler).
CreatedAsAsked ==
  [][outcome' = "created" /\ outcome # "created" /\ "disk" \notin seen' =>
      Len(Info'.nodes["cp"]) = job.cps /\ Len(Info'.nodes["wp"]) = job.wps]_vars

\* The record of the network is complete.
Networked == disk.file = "saved" /\ Info.vnet /\ Info.subnet /\ Info.key

\* A user who keeps deleting (infinitely often a deletion runs, and a command
\* ends) gets rid of a cluster whose network is on record, if what fails are
\* calls without an effect: every deletion starts over and finds nothing in
\* its way (haDeleteClusterHandler).
RetriedDeleteSucceeds ==
  []<>(pc = "idle") /\ []<>(pc = "wipe") /\ <>[](seen \subseteq {"api"}) => []<>~Networked

-----------------------------------------------------------------------------
(* The state file is the last thing to go: what every provider promises.   *)

Lifecycle == INSTANCE ClusterLifecycle WITH
  busy   <- pc # "idle",
  exists <- live # {},
  known  <- isPresent,
  blame  <- seen \cap {"disk", "crash"} # {}

LifecycleSpec == Lifecycle!Spec

=============================================================================
