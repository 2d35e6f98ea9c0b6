----------------------------- MODULE CivoHALedger -----------------------------
(***************************************************************************)
(* The HA commands implement the resource ledger: info.json is the ledger, *)
(* and a process holds the identifiers it knows from a reply or from a     *)
(* save that failed.  Writes of info.json are taken to be atomic here.     *)
(***************************************************************************)
EXTENDS CivoHA

Held == ({job.got} \cup Recorded(job.mem)) \ ({NoID} \cup Recorded(Info))

Ledger ==
  INSTANCE ResourceLedger
    WITH live <- DOMAIN cloud, ledger <- Recorded(Info), held <- Held,
         Outsiders <- "dashboard" \in Faults

\* Every step of the commands is a step of the ledger or leaves it alone:
\* what the process deletes is on record, what it strikes off is gone, and a
\* save writes down everything the process knows (the ConfigWriter methods,
\* DeleteInstances, DeleteNetworks, DeleteAllPaths, DeleteSomeWorkerNodes).
KeepsLedger == Ledger!LedgerSpec
-----------------------------------------------------------------------------
(* The inductive invariant behind it                                       *)

\* An object of firewalls or machines holds on to its network.
HoldsNetwork == {"firewall"} \cup Role

\* A network is deleted only after everything on it.
NetworkHeld == HoldsNetwork \subseteq Blocking

\* A set f of objects: id, if it is there, holds on to network net; so does
\* every firewall and machine of record c.
AttachedTo(f, net, id) == id \in DOMAIN f => f[id].net = net /\ f[id].kind \in HoldsNetwork
Attached(f, c) == \A id \in Firewalls(c) \cup Instances(c) : AttachedTo(f, c.networkID, id)

\* Only a file that is there and readable has a record.
NoFileNoRecord == disk.file # "saved" => Info = EmptyConfig

\* The identifier in hand is the one about to be saved.
GotIsSaved ==
  pc \notin {"saveKey", "saveNetwork", "saveFirewall", "saveInstance", "guard"} => job.got = NoID

\* A command that builds nodes and is at stage: its record in memory is ahead
\* of the record info of the file, and the field to be written next is empty.
Ahead(f, info, stage, j) ==
  /\ Recorded(info) \subseteq Recorded(j.mem)
  /\ Attached(f, j.mem)
  /\ stage \in {"keygen", "newKey", "saveKey"} => j.mem = EmptyConfig
  /\ stage \in {"newNetwork", "saveNetwork"} =>
       /\ j.mem.networkID = NoID
       /\ j.mem.fw = EmptyConfig.fw /\ j.mem.inst = EmptyConfig.inst
  /\ stage \in {"newFirewall", "saveFirewall"} => j.mem.fw[j.role] = NoID
  /\ stage \in NodeStage /\ j.role = "db" => j.mem.fw["lb"] = NoID
  /\ stage \in {"saveFirewall", "saveInstance"} => AttachedTo(f, j.mem.networkID, j.got)

MemoryAhead == pc \in CreateStage \cup NodeStage => Ahead(cloud, Info, pc, job)

\* A deletion works on the record it has read.
DeletesRecord ==
  pc \in DeleteStage \ {"guard"} =>
    /\ job.mem = Info /\ job.key = Info.sshID
    /\ pc = "delFirewalls" => job.n \in DOMAIN FirewallOrder

\* The removal of workers is one worker ahead of the file.
RemovesRecord ==
  /\ pc \in RemoveStage => job.n < job.wps /\ job.wps - job.n <= Len(Info.inst["wp"])
  /\ pc = "dropWorker" => job.mem = Info
  /\ pc = "saveDrop" => job.mem = DropLastWorker(Info) /\ Last(Info.inst["wp"]) \notin DOMAIN cloud

\* Once the network is gone so is everything on it, and at the end the key.
GoneWithNetwork ==
  /\ pc \in {"delKey", "delPaths"} =>
       ({Info.networkID} \cup Firewalls(Info) \cup Instances(Info)) \cap DOMAIN cloud = {}
  /\ pc = "delPaths" => Info.sshID \notin DOMAIN cloud

\* In every state the file, the record in memory and the cloud agree as far
\* as the running command relies on it: what it saves contains what the file
\* has, what it is about to save is on its network, a deletion works on the
\* record of the file, and once its network is gone so is all that was on it
\* (CreateFirewall, CreateInstance, saveConfig, haDeleteClusterHandler,
\* DeleteSomeWorkerNodes).
RecordInv ==
  /\ NoFileNoRecord /\ GotIsSaved /\ MemoryAhead /\ DeletesRecord /\ RemovesRecord
  /\ Attached(cloud, Info)
  /\ NetworkHeld => GoneWithNetwork
=============================================================================
