# ksctl in TLA+

ksctl is a command line tool that creates and deletes Kubernetes clusters at
Civo, at Azure and on the local machine. This directory holds TLA+ modules that
model it, TLC configurations that check them on small instances, and proofs for
all instances that TLAPS checks. Paths below are relative to `src/`.

## The system

ksctl has no server. A command is one process that talks to a cloud API and to
the nodes over SSH, and keeps what it must remember in a directory per cluster
under `~/.ksctl`. Its value lies in that memory: what the cloud bills and
`info.json` does not name can only be found by hand.

| component | state it keeps | operations | hard behaviour | correct when |
|---|---|---|---|---|
| Civo HA commands (`api/civo`, `ha_main.go` and the node files) | the fields of `HAType`, the loop it is in | create (with clean-up), delete, add-nodes, delete-nodes | every call can fail, time out or be cut off by a kill; errors are partly swallowed | nothing alive is forgotten, a reported success is complete, commands end |
| Civo HA state file (`api/civo/utils.go`) | `info.json`, a key pair, a kubeconfig | the `ConfigWriter*` methods, `GetConfig`, `DeleteAllPaths` | a save follows the creation it records; `os.WriteFile` truncates first | an identifier leaves the record only when its object is gone |
| Civo managed commands (`api/civo/managed_main.go`) | `info.json`, kubeconfig | create (polls until Ready), delete | the identifier is saved only when the cluster is ready; the poll drops its errors | nothing is forgotten while nothing goes wrong, success is complete, commands end |
| Azure HA commands (`api/azure`) | `info.json` with the names of all resources, a key pair, a kubeconfig | create (with clean-up), delete, add-nodes, delete-nodes | about six resources per machine; state is written by deferred calls whose errors are dropped | machines are remembered, deletions respect who uses what, a repeated delete gets through, the state file goes last |
| Azure managed commands (`api/azure/managed_main.go`) | `info.json`, kubeconfig | create, delete | deferred write | as for Civo managed, and refused calls lose nothing |
| Local clusters (`api/local`) | `info`, `config` | create, delete, switch | the kind library does the work; the state file is written before it | no kind cluster of ksctl's is without a state file, whatever happens |
| Shared helpers (`api/utils`) | `SSHPayload.Output`, shared by all calls | `SSHExecute` with `returnServerPublicKeys`, key pairs, state files, credentials, validation | bounded connection attempts on a booting machine; two processes, three goroutines and a pipe | a script runs at most once and on the right host, the caller gets its own output, the call ends |
| Command line (`cli/cmd`) | none | one provider call per command, `get`, `switch-cluster` | none | pure input and output |
| AWS (`api/aws`), logger (`api/logger`) | none | stubs, formatting | none | not modelled |

The components interact through calls only: the command line calls a provider
method, which calls the cloud, SSH and the state file. Two processes share the
directory of a cluster and nothing prevents them from using it at the same time.

## Modules

| module | what it is |
|---|---|
| `CivoStore` | the record in `info.json` (`JsonStore`) and what each `ConfigWriter*` changes |
| `CivoCloud` | the Civo API as `api/civo` uses it (external) |
| `CivoHA` | the four HA commands as a state machine, with their environment and properties |
| `ResourceLedger` | the abstract promise: a durable ledger of paid resources |
| `CivoHALedger` | the refinement mapping from `CivoHA` to `ResourceLedger`, and the inductive invariant `RecordInv` behind it |
| `Countdown` | the lexicographic order of triples of natural numbers |
| `CivoHAProgress` | what a Civo HA command has left to do: `CallsCountDown` |
| `CivoHAClaims` | sentences of the repository that the code does not keep |
| `CivoHA_proof` | proofs of type correctness and of `RecordInv` |
| `CivoHALedger_proof` | proofs of the refinement and of the bound on what is off the record |
| `CivoHANodes_proof` | proofs about the nodes: their numbers, the order of removal, success is complete; and that commands make finitely many calls |
| `MCCivoHA` | values for TLC |
| `AzureStore` | the resources of an Azure cluster, what Azure refuses, the record `AzureStateCluster`, and the lists the functions work through |
| `AzureHA` | the four Azure HA commands as a state machine, and their properties |
| `AzureHAProgress` | what an Azure HA command has left to do: `CallsCountDown` |
| `AzureHAClaims` | a sentence of the source that the Azure commands do not keep |
| `ClusterLifecycle` | the abstract promise of every provider: the state file is there as long as the cluster is |
| `OneCluster` | what the managed commands share: the directory, the faults, how a command goes on and ends |
| `CivoManaged`, `AzureManaged`, `LocalCluster` | create and delete of the three kinds of managed cluster |
| `ManagedClusters` | the three put side by side, each with its refinement of `ClusterLifecycle` |
| `HostKeyScan` | `returnServerPublicKeys`: two processes, the goroutines of `os/exec`, the pipe |
| `SSHExecute` | `SSHExecute` and its callers, composed with `HostKeyScan` |
| `RemoteCall` | the abstract promise of `SSHExecute`: at most one start per call, success means it ran |
| `AzureHA_proof` | proofs that `AzureHA` implements `ClusterLifecycle`, that machines stay on record and that the record's lists fit together |
| `AzureHANodes_proof` | proofs that no running machine is created over, that success is complete and that commands make finitely many calls |
| `AzureHANames_proof` | proofs that the record accounts for all that exists and that deletions find nothing in use |
| `ManagedClusters_proof` | proofs of types, of the three refinements and that reported success is complete |
| `SSHExecute_proof` | proofs about a remote call, and the refinement of `RemoteCall` |

### State and code: Civo HA

`cloud` maps the identifiers of existing objects to the few attributes the
properties need. `disk` is the cluster's directory: `info.json` (absent, torn or
holding a record), the key pair and the kubeconfig. `pc` and `job` are the
running command: `job.mem` is `obj.Configuration`, `job.key` is `obj.SSHID`,
`job.got` an identifier the cloud has returned and the command has not yet
written down, `job.role` and `job.n` the loop it is in. `outcome` is what the
last command returned. `strays` and `job.found` are history variables that only
properties and bounds read.

A step of `CivoHA` is one call that leaves the process, together with everything
the code does up to the next one. The node functions (`CreateDatabase`,
`CreateLoadbalancer`, `CreateControlPlane`, `CreateWorkerNode`) have the same
shape, so they share the stages `newFirewall`, `saveFirewall`, `newInstance`,
`saveInstance` and `boot`; what differs (who shares a firewall, what a failed
save returns, the endpoint) is in `FirstStage`, `NodeMissing`, `NextNode` and
`SaveEndpoint`. `Fail` is the error path: `CreateCluster` calls `cleanup`, which is
`haDeleteClusterHandler` without the prompt; every other command just returns.

Kept because they matter, although they look like slips: the four node functions
return no error when a save fails; `DeleteInstances` stops at the first group
with an error and the handler tolerates one kind of error; errors of
`DeleteFirewall` are dropped; `FetchKUBECONFIG` returns no error; `add-nodes`
builds an `HAType` without an SSH key; a bad argument and a duplicate name lead to
the clean-up as well.

### State and code: Azure HA

A resource is its name: a kind and, for what belongs to a machine, the machine's role
and number. All names derive from the cluster's name, so two clusters never meet. `live`
is what exists in the resource group, `disk` the cluster's directory, `job.mem` is
`obj.Config`. In a record, `nodes` stands for the three lists that are appended together and
truncated together (`Names`, `DiskNames`, `NetworkInterfaceNames`), `ips` for
`PublicIPNames`, which is appended earlier, and `addrs` for the length of `PublicIPs` and
`PrivateIPs`, which are appended later.

`createLoadBalancer`, `createDatabase`, `createControlPlane` and `createWorkerPlane` make the
same calls in the same order: `Plan` is that list and `job.todo` what is left of it. There is
one action per function of `utils.go` that takes the next item (`CreateVirtualNetwork`,
`CreateSubnet`, `CreatePublicIP`, `CreateNSG`, `CreateNetworkInterface`, `CreateVM`), and
`SaveMachine` is the return with its deferred `ConfigWriter`, error or not. `Teardown` is the order of
`haDeleteClusterHandler`, again with one action per function (`DeleteAllVMs` to
`DeleteResourceGroup`), and `Strip` one round of `DeleteSomeWorkerNodes`. `Noted` says what each
successful call leaves on the record, which differs from call to call and is what most
properties depend on.

Kept although they look like slips: errors of the deferred write are dropped; the name of
the SSH key is recorded even if its upload failed; a name that is empty is sent nowhere and
ends the deletion; putting a virtual network that exists drops its subnet; `delete-nodes` cuts
lists of different lengths to one length and may panic; `add-nodes` asks for nothing but a
state file.

### State and code: managed clusters

One variable `live` says what exists (for Civo a cluster that is building or ready, for
Azure the group and the AKS cluster, for kind a cluster of ksctl's or somebody else's), `disk`
holds state file and kubeconfig, `pc`, `op` and `outcome` are the running command. The order of
writing is the difference between the three: Civo writes when the cluster is
ready, Azure when the handler returns, kind's state file is there before the cluster. An error
Civo's creation does not look at leads to a nil result and a panic (`NewFails`, `GetKubernetesCluster`).
kind's `Create` is one step: a kill inside it is a creation whose reply is lost followed by a kill at the next stage,
which leaves the same files and containers.

### State and code: SSH

`HostKeyScan` has the state of the function (`at`: which of its five calls is next), of the two
processes, and of the one line that goes from `ssh-keyscan` through the copying goroutine, the
pipe and the feeding goroutine to `ssh-keygen`, which answers only at the end of its input.
An early return leaves a process behind; it works on a pipe nobody uses any more, so the
model forgets it. `SSHExecute` adds the attempts (`tries` is `currRetryCounter`), the connection (`conn` is the
host key it was made with, or nil), the shared `output`, and what the caller takes from it. `Run`
has the script succeed, fail, or lose its connection before, while or after running.

### What is abstracted

- One cluster name, so one directory; one command at a time.
- Validation of names, regions and sizes and the lookup of credentials are a
  boolean choice, `accepted` or `sized`; the clean-up repeats those checks, except the
  one of the node size.
- The endpoint and the token are present or absent. Host names are numbers.
- The time a call takes and the exponential pauses are left out.
- In `CivoHA` and `AzureHA`, `SSHExecute` succeeds or fails as a whole; the
  module `SSHExecute` opens it, and `RemoteCall` is what they rely on.
- Contents of scripts, kind configurations, network rules and machine sizes are left out.

### Assumptions about the cloud

`Mint` hands out identifiers that are not in use. A network that holds an object
whose kind is in `Blocking` cannot be deleted; the runs use firewalls and
instances, which is what the order and the retries of `DeleteNetworks` count on. Deleting a
missing object is an error. An empty identifier names no object.

Azure: creating what is there is no error, except that a machine may be refused; a
resource in use cannot be deleted (`UsersOf`: an interface uses its subnet, address and
security group, a machine its interface and disk); deleting a missing resource is no error
unless its group is missing; a group goes with everything in it. Managed Civo: a second
cluster of the same name is refused, deleting a missing one is an error. kind: `Create` refuses a
name that is taken, `Delete` of a missing cluster is no error. SSH: the network answers or
times out, scripts end, the one line that `ssh-keyscan` prints is one write.

## Faults

A run names the faults that may happen (`Faults`):

| fault | meaning |
|---|---|
| `api` | a call is refused before it has an effect |
| `lost` | a call has its effect and the reply is lost |
| `ssh` | a script cannot be run |
| `disk` | a file cannot be written |
| `torn` | an interrupted write leaves a truncated state file |
| `crash` | the process is killed, at any step |
| `dashboard` | somebody deletes an instance by hand |

`MaxStrays` bounds how many identifiers faults keep off the record in `CivoHA`. `AzureHA`
and the managed modules know `api`, `lost`, `disk` (which includes torn writes) and `crash`, and
count faults: `seen` are the kinds that happened, so that a property can say what
it survives, and `MaxFaults` bounds their number. In `SSHExecute` everything fails at will: dialling,
handshake, both processes, the session, the script; sshd comes up at some time and its host key
changes at most once.

## Runs

| run | faults | what it shows |
|---|---|---|
| `HA_crash` | crash, lost | types and the retry limit (`TypeOK`); live objects off the record are at most one per fault (`StraysBounded`); the record never forgets a live object (`NeverForgetsLive`) |
| `HA_api` | api, ssh | recorded objects hang on the recorded network (`RecordedAreAttached`); workers keep their numbers (`WorkersAreNumbered`) and go newest first (`RemovesNewestFirst`); success is complete (`CreatedIsComplete`) and has the nodes asked for (`CreatedAsAsked`); `NeverForgetsLive` on all error paths; every call brings its command closer to the end (`CallsCountDown`) |
| `HA_ledger` | disk, lost, dashboard | the commands implement `ResourceLedger` (`KeepsLedger`); the invariant that its proof rests on (`RecordInv`) |
| `HA_torn` | disk, torn, lost, crash | every command ends (`CommandsEnd`) |
| `HA_claim_create` | none | violated: a creation that finds a cluster spares it |
| `HA_claim_instances` | dashboard | violated: `DeleteInstances` deletes all instances |
| `HA_claim_endpoint` | disk | violated: `CreateDatabase` returns an endpoint or an error |
| `HA_claim_key` | none | violated: every worker has the cluster's key |
| `AZ_faults` | any two of api, lost, disk, crash | machines stay on record (`MachinesRemembered`); with refused calls alone everything does (`EverythingNamed`), no deletion asks for what is in use (`NeverInUse`) and a repeated deletion gets through (`RetriedDeleteSucceeds`); the lists that `delete-nodes` indexes fit (`ListsAligned`); a running machine is not created over (`CreateSparesLive`); success is complete (`CreatedIsComplete`) and has the machines asked for (`CreatedAsAsked`); the state file goes last (`LifecycleSpec`); every call brings its command closer to the end (`CallsCountDown`) |
| `AZ_claim_cleanup` | api, once | violated: the clean-up of a failed creation leaves nothing |
| `Managed` | any three of api, lost, disk, crash | for each provider the life cycle it can promise (`CivoLifecycle` until the first fault, `AzureLifecycle` until a kill or failed write, `LocalLifecycle` always), success is complete (`SuccessIsComplete`), commands end (`CommandsEnd`) |
| `SSH` | whatever can fail | the counter and the result (`TypeOK`), the caller's output (`OutputIsOwn`), the host (`StartsOnConfirmedHost`), termination (`CallEnds`), at most one start (`RemoteCallSpec`) |

The five violations are described under "findings" in `PROJECT.json`.

Bounds of the Civo HA runs. Two and three control planes: the smallest accepted number and one that
is refused (`HA_torn` takes three only). None to two workers per command in `HA_api`, none or one in the
others; commands repeat without a limit, so that a firewall is created by the
first worker and shared by the second, and a removal leaves a worker behind. A command that
creates starts while the cloud has enough identifiers left (`Room`), 13 in all, 12 in `HA_torn`:
that run has most of the faults and a liveness property, and stays small enough with them. A full cluster of
three control planes takes eleven identifiers, so `HA_api` and `HA_ledger` reach two workers beside
one, `HA_crash` and `HA_torn` one, and all of them three or more beside a cluster whose creation was cut
short. `MaxRetry` is 2 instead of 8: the loop's last, first and (by the mutants) one-too-many attempts
are all reached with 2. `MaxStrays` is one where a run has faults that keep an identifier off the record (`HA_crash`,
`HA_ledger`, `HA_torn`, `HA_claim_endpoint`), and nought where it has none of them: in a behaviour one creation
loses its reply or one save of an identifier fails or one kill meets an identifier in hand, at any stage and
with all that the code does after it (the nil node of `HA_torn` included), and after
that only faults that lose no identifier go on. One stray is enough to tell "one per fault" from "none"; two in
one behaviour are not checked.
Identifiers are handed out in increasing order, which loses nothing: nothing
compares them except for equality.

Bounds of the others. `AZ_faults` creates three control planes (two are refused in
`CivoHA` already) and no or two workers, adds and removes two, up to number
three: a list can grow, fail to grow, shrink and grow again. Two faults are
enough for one to break a command and one to break its clean-up or the next command;
commands repeat without limit. `Managed` is small enough for three. `SSH` has the
source's limit of eight attempts and three scripts, one of which prints nothing.

Fairness. Safety needs none. For `CivoHA`, `CommandsEnd` assumes weak fairness of the command's
next step (the operating system runs the process; each call returns, with a
result or an error) and of `Activate` (the cloud boots an instance that exists). Without
the second the polling loops spin for ever: they have no bound. `ManagedClusters` assumes the same two,
`Cloud` being Civo that finishes a cluster. `CallEnds` of `SSHExecute` assumes weak fairness of the
calling goroutine and of each process and goroutine behind it by itself, so that none
of them can be starved by another; nothing is assumed of the host. `RetriedDeleteSucceeds` has its
assumption in the formula: deletions are run again and again and commands end. Users are
otherwise never obliged to start a command.

## Proofs

All theorems hold for all values of the constants: any supply of identifiers, any
counts of nodes, any retry limit, and, but for the premises the table names, any set of
faults. Every safety property that a passing run checks is proved.

| theorem | statement |
|---|---|
| `TypeCorrect` | `Spec => []TypeOK` |
| `RecordKept` | `Spec => []RecordInv` |
| `RecordedStayAttached` | `Spec => []RecordedAreAttached` |
| `LedgerImplemented` | no torn writes, `NetworkHeld`: `Spec => KeepsLedger` |
| `LiveIsRemembered` | no torn writes, `NetworkHeld`: `Spec => NeverForgetsLive` |
| `StraysAreCounted` | no torn writes, `NetworkHeld`: `Spec => []StraysBounded` |
| `WorkersStayNumbered` | no failing write: `Spec => []WorkersAreNumbered` |
| `NewestRemovedFirst` | no failing write: `Spec => RemovesNewestFirst` |
| `CreationComplete` | no failing write, nobody at the dashboard: `Spec => []CreatedIsComplete` |
| `CreationAsAsked` | no failing write, nobody at the dashboard: `Spec => CreatedAsAsked` |
| `CallsComeToAnEnd` | `Spec => CallsCountDown` (Civo) |
| `AzureCallsComeToAnEnd` | `Spec => CallsCountDown` (Azure) |
| `NoEndlessDescent` | no function from `Nat` to triples in which each value comes before the one it follows |
| `KeepsLifecycle` | `Spec => LifecycleSpec` |
| `AzureTyped`, `AzureRemembers`, `AzureListsAlign` | `Spec => []TypeOK`, `[]MachinesRemembered`, `[]ListsAligned` |
| `AzureSparesLive`, `AzureCreationComplete` | `Spec => []CreateSparesLive`, `[]CreatedIsComplete` |
| `AzureCreationAsAsked` | `Spec => CreatedAsAsked` |
| `AzureEverythingNamed`, `AzureNeverInUse` | `Spec => []EverythingNamed`, `[]NeverInUse` |
| `CivoImplements`, `AzureImplements`, `LocalImplements` | `Spec => CivoLifecycle`, `AzureLifecycle`, `LocalLifecycle` |
| `Typed` (`ManagedClusters_proof`), `SuccessComplete` | `Spec => []TypeOK`, `[]SuccessIsComplete` |
| `Typed` (`SSHExecute_proof`), `OwnOutput`, `ConfirmedHost` | `Spec => []TypeOK`, `[]OutputIsOwn`, `StartsOnConfirmedHost` |
| `ImplementsRemoteCall` | `Spec => RemoteCallSpec` |

Type correctness (`CivoHA_proof`). The type invariant is inductive as it stands. Its
proof splits the state into the environment (`EnvOK`: cloud, disk, strays) and the
command (`CtrlOK`: pc, job, outcome); lemmas cover the operators of `CivoStore` and
`CivoCloud` and the building blocks that actions share, and one step per action puts
them together. The retry bound is part of it: `DeleteNetworks` makes at most
`MaxRetry` attempts.

The record (`CivoHA_proof`). `RecordedAreAttached` is not inductive: that a saved
firewall hangs on the saved network depends on what the command has in memory between a
creation and its save. `RecordInv` adds that: while a command builds, the record in
memory contains the record of the file, the field written next is still empty and the
identifier in hand is attached (`Ahead`); a deletion works on the record it has read
(`DeletesRecord`); a removal is one worker ahead of the file (`RemovesRecord`); and after
the network nothing on record is left (`GoneWithNetwork`). `FileInv` collects the
conjuncts about file and cloud, `CommandInv` those about the command. `FileStays`,
`FileSaved` and `FileNotSaved` treat the disk once for all actions, `BuildInv`,
`NextNodeInv`, `FailInv` and `ReturnInv` the way an action goes on. Torn writes are
allowed: they empty the record.

The refinement (`CivoHALedger_proof`). `live` is the cloud, `ledger` what `info.json`
names, `held` what the process knows beyond it. Each action is one step of the ledger: a
creation is `Acquire` (or `AcquireUnheard` when the reply is lost), a save `Commit`, a
deletion `Release`, a shortened list or a removed directory `Strike`, an end, a failure or a kill
`Abandon`. The premises are needed: a torn write empties the ledger at once, and
`Strike` after `DeleteNetworks` relies on `NetworkHeld`, that the cloud keeps a
network while a firewall or an instance is on it, because errors of `DeleteFirewall`
are not looked at. `LiveIsRemembered` follows: only `Commit` and `Strike` change the
ledger.

What is off the record (`CivoHALedger_proof`). `StraysBounded` says one more than the strays that
have been counted while an identifier is in hand, and that is not inductive: after a failed save
the identifier is still in the job, and already counted. `StraysCounted` therefore bounds `Astray`, what is neither on record nor
about to be written (`InHand`), by the counter alone. Each action leaves at most one object more astray and then
counts it (`CountsStrays`). The premises are those of the refinement: a torn write loses a whole
record for one fault.

The nodes (`CivoHANodes_proof`). `NumbersKept` says that the worker at position i is number i on the record
of the file and in memory, and for a command that builds, that the number it is about to give is the
next position of the list: the workers it found (`base`) and those it has made (`n`). So the
number is no other recorded worker's. It may be that of a worker that a lost reply or a kill has kept off the record: the
theorem does not exclude it and the code does it. A removal takes
the last of the list, which has the highest number because no two
positions share one. `CreationKept` says at every stage of a creation what has
been built (`OnTrack`): the groups before the current one are complete, all machines of the record run but
the one that is booting, and at the exit nothing is missing. With `CountsFromNone`, a
creation numbers its nodes from one, the last round of each loop leaves as many nodes as were asked for
(`CreationAsAsked`). A failed call of the creation ends it with an error,
so the invariant speaks of later faults only where the code goes on. The premises are what the code
needs. Errors of the `ConfigWriter` after a firewall or an instance are dropped and the loop goes on: with failing
writes the list is shorter than the numbers given, and a creation that reports success may
have nodes that no record names. A machine deleted at the dashboard stays on record.

The life cycle (`AzureHA_proof`). The invariant says that outside the stages that end with
a write of the state file, what exists is on record or a kill or failed write is to
blame, and that the directory goes when nothing exists. Every action is an instance of a
few kinds of step (`Works`, `DeletesOrEnds`, `Writes`, `Starts`), each shown once to keep it and to be a step of
`ClusterLifecycle`; only `DeleteResourceGroup` and `RemoveAll` need more, because the group takes
everything with it.

The Azure record (`AzureHA_proof`). Neither `MachinesRemembered` nor `ListsAligned` is
inductive. `RInv` adds what a running function has left to do: `Building` says that the list
of a machine ends with its interface and its virtual machine, that the address is still on it or the record
has room for the interface, and that the machine alone is left only when it has been noted;
a deletion's list ends with the group; `Removing` says that `delete-nodes` works on the record
of the file and that what it has struck off the list no longer exists, so that `Trimmed` drops a
worker that is gone. The record is sound (`Record`) and a torn file holds none. The lemmas on `Plan`, `Noted`,
`Teardown`, `Strip` and `Trimmed` are first shown for the operators alone; `GoesOnCreating`,
`WritesWhatItKnows`, `GoesByTheFile` and `CommandStarts` are the kinds of step. That nothing
exists when the directory goes is the invariant of the life cycle.

The Azure machines (`AzureHANodes_proof`). The Azure functions keep the record in memory and write it when they
return, whatever happened, so a machine that runs is on it and a number is used once; no premise is
needed. `NInv` says that the lists are numbered from one without a gap (`Numbered`), that a command is
at the machine that comes next and has not begun with the roles after it (`InOrder`), and that a creation
that has met no error has what the functions before the current one make (`OnTrack`). `CreateSparesLive` then follows from
`MachinesRemembered`'s invariant, and `CreatedIsComplete` is `OnTrack` at the exit; `OnTrack` also counts the machines there, which is `CreatedAsAsked`.

What Azure has and the record says (`AzureHANames_proof`). `UInv` is the invariant behind `EverythingNamed` and
`NeverInUse`; TLC checks it in the form in which it is proved on the constants of `AZ_faults` (766,410 states).
While calls only fail, the record accounts for everything that exists but the
addresses of workers (`AllAccounted`); a removal has deleted the interface of the worker before its names
go; and a deletion still has every machine and interface on its list (`UsersListed`), machines before
disks and interfaces and those before the rest (`UsersFirst`). That each role outside the planes has a single
address (`LoneIPs`) and the network comes before its subnet on a list (`NetFirst`) is needed for the steps. No
premise is needed: both properties name the faults under which they hold.

How commands come to their end (`CivoHANodes_proof`, `AzureHANodes_proof`). `Left` is what a command still
has to do: the legs of its handler, the rounds of the loop it is in (machines to build, configure
or remove, groups, firewalls, attempts on the network) and the calls of the round. `CallsCountDown` says that
each step of a command makes this smaller in the order of `Countdown`, whether the call succeeds, fails, loses its reply or
is answered with a panic, and `NoEndlessDescent` that this order has no endless descent. (A
step that changes nothing would satisfy any `[][A]_vars`; the lemmas `StepIsNearer` show that the commands have none.) So a command
makes finitely many calls whatever goes wrong, however many nodes the record lists. The invariant is `WithinLoop`: no loop
has passed its end, or the subtraction that counts its rounds would leave the naturals. What is left of `CommandsEnd` after
that is the fairness: that the process runs and, for Civo, that the cloud boots what the four polling loops
wait for, because a poll is no step of the model and does not bring the command closer to anything.

Managed clusters (`ManagedClusters_proof`). `CivoInv`, `AzureInv` and
`LocalInv` say for each provider at which stages a cluster may exist off the record; they
differ as the orders of writing do. `Done` adds what has been achieved at each stage
before success is reported.

Remote calls (`SSHExecute_proof`). The invariant ties four facts together: a client that is not nil was confirmed
by the scan of this call and came before the attempts ran out; a script that has not been started
has printed nothing; one that ended left its whole output; and
between calls the output the caller took is its own.

The assumptions used are the named ones of `CivoCloud`, `CivoHA`, `AzureHA`, `OneCluster`,
`ManagedClusters` and `SSHExecute`; TLC evaluates them in the runs.

Model-checked only: liveness (`CommandsEnd`, `CallEnds`, `RetriedDeleteSucceeds`), which is out of the
prover's reach with its fairness (for the HA commands `CallsCountDown` is the part of termination that is
proved), and the five violations, which need one behaviour each. The proved properties stay in the runs: a
mutant of the code breaks each of them there.

## Not modelled

- Two ksctl processes on one cluster. The state file has no lock, and the later
  writer erases what the earlier one has noted. Every module here runs one command at a time; two copies of
  `CivoHA` are beyond what TLC can enumerate, and the outcome needs no model: the write is not atomic
  with the read.
- AWS (`api/aws`): stubs that do nothing.
- The logger: formatting.
- The command line (`cli/cmd`): flags, one provider call per command. `get-clusters` and
  `switch-cluster` read directories and print; they change nothing.
- Credentials: prompts and files read and written as they are.
- `IsValidName`, regions and sizes: pure functions of strings, here a Boolean choice.
- Pauses, and the backoff of the retry loops: only their number matters to the properties.
- A host key that is not RSA: `HostKeyAlgorithms` asks for RSA, so the branch is not taken.

## Where the code falls short of a property

A property that says "unless" names a case the code does lose: an interface whose
creation was not heard of blocks the deletion of its subnet (`NeverInUse` excludes lost
replies); a creation that failed before the network is on record cannot be deleted
(`RetriedDeleteSucceeds`, `AZ_claim_cleanup`); after the resource group is gone and the directory is not, every delete
fails; a failed `add-nodes` makes `delete-nodes` forget an address (`EverythingNamed`); a managed Civo
cluster is lost with the first fault (`CivoLifecycle`); a Civo worker that a failed save, a lost reply or a kill keeps off the
record has its number given again by the next `add-nodes` (`WorkersAreNumbered` is about workers on
record); an empty kubeconfig is saved and reported as success after a failed script (`CreatedIsComplete` asks for it
only where scripts cannot fail); after a failed `add-nodes` at Azure, `delete-nodes` may ask for another machine's address or
panic (`ListsAligned` bounds the lists from below); kind's clean-up deletes a cluster of that name that ksctl has not
created. `PROJECT.json` lists these under "hazards" with their lines, and
says at each what no property forbids.
