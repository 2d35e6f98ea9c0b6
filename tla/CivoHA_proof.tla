---------------------------- MODULE CivoHA_proof -----------------------------
(***************************************************************************)
(* Proofs about CivoHA, for all values of its constants: type correctness, *)
(* and RecordInv of CivoHALedger, what the record and the cloud have to do *)
(* with each other.                                                        *)
(***************************************************************************)
EXTENDS CivoHALedger, SequenceTheorems, TLAPS

-----------------------------------------------------------------------------
(* The record and the cloud                                                *)

LEMMA EmptyConfigType == EmptyConfig \in Config
BY DEF EmptyConfig, Config, NoID, Role

\* The ConfigWriter methods keep the record a record.
LEMMA WriterTypes ==
  ASSUME NEW c \in Config, NEW r \in Role, NEW id \in Nat
  PROVE  /\ ConfigWriterSSHID(c, id) \in Config
         /\ ConfigWriterNetworkID(c, id) \in Config
         /\ ConfigWriterFirewall(c, r, id) \in Config
         /\ ConfigWriterInstance(c, r, id) \in Config
         /\ ConfigWriterDBEndpoint(c) \in Config
         /\ ConfigWriterServerToken(c) \in Config
<1>1. Append(c.inst[r], id) \in Seq(Nat)
  BY DEF Config
<1>2. ConfigWriterInstance(c, r, id) \in Config
  BY <1>1 DEF ConfigWriterInstance, Config
<1>3. ConfigWriterFirewall(c, r, id) \in Config
  BY DEF ConfigWriterFirewall, Config
<1>4. QED
  BY <1>2, <1>3 DEF ConfigWriterSSHID, ConfigWriterNetworkID, ConfigWriterDBEndpoint,
                    ConfigWriterServerToken, Config

LEMMA DropType ==
  ASSUME NEW c \in Config
  PROVE  DropLastWorker(c) \in Config
<1>1. "wp" \in Role
  BY DEF Role
<1>2. c.inst["wp"] \in Seq(Nat)
  BY <1>1 DEF Config
<1>3. Front(c.inst["wp"]) \in Seq(Nat)
  <2>1. \A i \in 1 .. Len(c.inst["wp"]) - 1 : c.inst["wp"][i] \in Nat
    BY <1>2
  <2>2. 1 \in Int /\ Len(c.inst["wp"]) - 1 \in Int
    BY <1>2
  <2>3. QED
    BY <2>1, <2>2, SubSeqProperties DEF Front
<1>4. QED
  BY <1>1, <1>3 DEF DropLastWorker, Config

CloudOK(f) == DOMAIN f \subseteq IDs /\ \A i \in DOMAIN f : f[i] \in Object

LEMMA CloudTypes ==
  ASSUME NEW f, CloudOK(f), NEW id
  PROVE  /\ \A o \in Object : id \in IDs => CloudOK(With(f, id, o))
         /\ CloudOK(Without(f, id))
         /\ id \in DOMAIN f => CloudOK(Activated(f, id))
<1>1. ASSUME NEW o \in Object, id \in IDs PROVE CloudOK(With(f, id, o))
  BY <1>1 DEF CloudOK, With
<1>2. CloudOK(Without(f, id))
  BY DEF CloudOK, Without, Restrict
<1>3. ASSUME id \in DOMAIN f PROVE CloudOK(Activated(f, id))
  BY <1>3 DEF CloudOK, Activated, Object
<1>4. QED
  BY <1>1, <1>2, <1>3
-----------------------------------------------------------------------------
(* Type correctness                                                        *)

JobOK(j) == j \in Job /\ j.retry < MaxRetry

CtrlOK == pc \in Stage /\ JobOK(job) /\ outcome \in Outcome

\* The helpers that end an action keep the control variables typed.
LEMMA ControlTypes ==
  ASSUME CtrlOK
  PROVE  /\ JobOK(NoJob)
         /\ \A stage \in Stage : \A j : JobOK(j) /\ Continue(stage, j) => CtrlOK'
         /\ \A stage \in Stage : \A j : JobOK(j) /\ Begin(stage, j) => CtrlOK'
         /\ \A result \in Outcome : Return(result) => CtrlOK'
         /\ Fail => CtrlOK'
<1>1. JobOK(NoJob)
  BY EmptyConfigType, BoundsAssumption DEF JobOK, NoJob, Job, NoID, Role
<1>2. ASSUME NEW stage \in Stage, NEW j, JobOK(j), Continue(stage, j) PROVE CtrlOK'
  BY <1>2 DEF CtrlOK, JobOK, Continue
<1>3. ASSUME NEW stage \in Stage, NEW j, JobOK(j), Begin(stage, j) PROVE CtrlOK'
  BY <1>3 DEF CtrlOK, JobOK, Begin, Job, Outcome
<1>4. ASSUME NEW result \in Outcome, Return(result) PROVE CtrlOK'
  BY <1>1, <1>4 DEF CtrlOK, JobOK, Return, Stage
<1>5. ASSUME Fail PROVE CtrlOK'
  BY <1>2, <1>4, <1>5 DEF Fail, CtrlOK, Stage, DeleteStage, Outcome
<1>6. QED
  BY <1>1, <1>2, <1>3, <1>4, <1>5

EnvOK == CloudOK(cloud) /\ disk \in Disk /\ strays \in Nat

LEMMA TypeParts == (TypeOK <=> EnvOK /\ CtrlOK) /\ (TypeOK' <=> EnvOK' /\ CtrlOK')
BY DEF TypeOK, CloudOK, CtrlOK, JobOK, EnvOK

\* A creation call keeps everything typed.
LEMMA CreateTypes ==
  ASSUME TypeOK, NEW o \in Object, NEW next \in Stage, Create(o, next)
  PROVE  TypeOK'
<1>1. Fresh \subseteq IDs
  BY MintAssumption DEF Fresh, InUse
<1>2. EnvOK /\ CtrlOK
  BY TypeParts
<1>3. CASE /\ \E id \in Fresh : /\ cloud' = With(cloud, id, o)
                               /\ Continue(next, [job EXCEPT !.got = id])
           /\ UNCHANGED <<disk, strays>>
  <2>1. PICK id \in Fresh : cloud' = With(cloud, id, o) /\ Continue(next, [job EXCEPT !.got = id])
    BY <1>3
  <2>2. JobOK([job EXCEPT !.got = id])
    BY <1>1, <1>2, IDsAssumption DEF CtrlOK, JobOK, Job
  <2>3. CloudOK(cloud')
    BY <1>1, <1>2, <2>1, CloudTypes DEF EnvOK
  <2>4. CtrlOK'
    BY <1>2, <2>1, <2>2, ControlTypes
  <2>5. QED
    BY <1>2, <1>3, <2>3, <2>4, TypeParts DEF EnvOK
<1>4. CASE Fail /\ UNCHANGED <<cloud, disk, strays>>
  <2>1. CtrlOK'
    BY <1>2, <1>4, ControlTypes
  <2>2. QED
    BY <1>2, <1>4, <2>1, TypeParts DEF EnvOK
<1>5. CASE /\ \E id \in Fresh : cloud' = With(cloud, id, o)
           /\ Stray(1) /\ Fail /\ UNCHANGED disk
  <2>1. CloudOK(cloud')
    BY <1>1, <1>2, <1>5, CloudTypes DEF EnvOK
  <2>2. CtrlOK'
    BY <1>2, <1>5, ControlTypes
  <2>3. strays' \in Nat
    BY <1>2, <1>5 DEF Stray, EnvOK
  <2>4. QED
    BY <1>2, <1>5, <2>1, <2>2, <2>3, TypeParts DEF EnvOK
<1>6. QED
  BY <1>3, <1>4, <1>5 DEF Create
\* So do a save, a call that deletes, and a script.
LEMMA CallTypes ==
  ASSUME EnvOK
  PROVE  /\ \A c \in Config : SaveSucceeds(c) => EnvOK'
         /\ \A k \in Nat : SaveFails(k) => EnvOK'
         /\ \A id : (Deleted(id) \/ NotThere(id) \/ DeleteFails(id)) /\ UNCHANGED <<disk, strays>> => EnvOK'
         /\ \A id : ScriptRuns(id) \/ ScriptFails(id) => EnvOK'
         /\ UNCHANGED <<cloud, disk, strays>> => EnvOK'
<1>1. ASSUME NEW c \in Config, SaveSucceeds(c) PROVE EnvOK'
  BY <1>1 DEF EnvOK, SaveSucceeds, Saved, Disk
<1>2. ASSUME NEW k \in Nat, SaveFails(k) PROVE EnvOK'
  <2>1. NotSaved \subseteq Disk
    BY EmptyConfigType DEF NotSaved, Torn, Disk, EnvOK
  <2>2. QED
    BY <1>2, <2>1 DEF EnvOK, SaveFails, Stray
<1>3. ASSUME NEW id, Deleted(id) \/ NotThere(id) \/ DeleteFails(id), UNCHANGED <<disk, strays>>
      PROVE  EnvOK'
  <2>1. cloud' = Without(cloud, id) \/ cloud' = cloud
    BY <1>3 DEF Deleted, NotThere, DeleteFails
  <2>2. QED
    BY <1>3, <2>1, CloudTypes DEF EnvOK
<1>4. UNCHANGED <<cloud, disk, strays>> => EnvOK'
  BY DEF EnvOK
<1>5. ASSUME NEW id, ScriptRuns(id) \/ ScriptFails(id) PROVE EnvOK'
  BY <1>4, <1>5 DEF ScriptRuns, ScriptFails
<1>6. QED
  BY <1>1, <1>2, <1>3, <1>4, <1>5

LEMMA StageTypes ==
  /\ \A r \in Role, c \in Config : FirstStage(r, c) \in Stage
  /\ CreateStage \cup NodeStage \cup DeleteStage \cup RemoveStage \cup {"idle"} = Stage
BY DEF FirstStage, Stage, NodeStage

LEMMA NextNodeTypes ==
  ASSUME CtrlOK, NEW j, JobOK(j), NextNode(j)
  PROVE  CtrlOK'
<1>1. /\ j.mem \in Config /\ j.n \in Nat
      /\ "lb" \in Role /\ "cp" \in Role /\ "wp" \in Role
  BY DEF JobOK, Job, Role
<1>2. JobOK([j EXCEPT !.role = "lb"])
  BY <1>1 DEF JobOK, Job
<1>3. JobOK([j EXCEPT !.role = "cp", !.n = 0])
  BY <1>1 DEF JobOK, Job
<1>4. JobOK([j EXCEPT !.n = @ + 1])
  BY <1>1 DEF JobOK, Job
<1>5. {FirstStage("cp", j.mem), FirstStage("wp", j.mem), "newFirewall", "configLB"} \subseteq Stage
  BY <1>1, StageTypes DEF Stage, NodeStage, CreateStage
<1>6. QED
  BY <1>2, <1>3, <1>4, <1>5, ControlTypes DEF NextNode, Outcome

LEMMA TypeInit == Init => TypeOK
<1> SUFFICES ASSUME Init PROVE TypeOK
  OBVIOUS
<1>1. EnvOK
  BY EmptyConfigType DEF Init, EnvOK, CloudOK, EmptyDisk, Disk
<1>2. CtrlOK
  BY BoundsAssumption, EmptyConfigType DEF Init, CtrlOK, JobOK, NoJob, Job, NoID, Role, Stage, Outcome
<1>3. QED
  BY <1>1, <1>2, TypeParts

LEMMA TypeUser ==
  ASSUME TypeOK, User
  PROVE  TypeOK'
<1>1. EnvOK /\ CtrlOK /\ JobOK(NoJob) /\ Info \in Config /\ "wp" \in Role
  BY TypeParts, ControlTypes DEF EnvOK, Disk, Info, Role
<1>2. \A result \in Outcome : Refuse(result) => TypeOK'
  BY <1>1, TypeParts DEF Refuse, EnvOK, CtrlOK
<1>3. ASSUME NEW stage \in Stage, NEW j, JobOK(j), Begin(stage, j), UNCHANGED <<cloud, disk, strays>>
      PROVE  TypeOK'
  BY <1>1, <1>3, ControlTypes, CallTypes, TypeParts
<1>4. CASE StartCreate
  <2>1. PICK cps \in CPCounts, wps \in WPCounts :
          \/ Refuse("failed")
          \/ Begin("guard", [NoJob EXCEPT !.op = "create", !.cps = cps, !.wps = wps]) /\ UNCHANGED <<cloud, disk, strays>>
          \/ Begin("keygen", [NoJob EXCEPT !.op = "create", !.cps = cps, !.wps = wps]) /\ UNCHANGED <<cloud, disk, strays>>
    BY <1>4 DEF StartCreate
  <2>2. JobOK([NoJob EXCEPT !.op = "create", !.cps = cps, !.wps = wps])
    BY <1>1, CountsAssumption DEF JobOK, Job
  <2>3. QED
    BY <1>2, <1>3, <2>1, <2>2 DEF Stage, CreateStage, DeleteStage, Outcome
<1>5. CASE StartDelete
  <2>1. JobOK([NoJob EXCEPT !.op = "delete"])
    BY <1>1 DEF JobOK, Job
  <2>2. QED
    BY <1>2, <1>3, <1>5, <2>1 DEF StartDelete, Stage, DeleteStage, Outcome
<1>6. CASE StartAdd
  <2>1. PICK k \in WPCounts \ {0} :
          \/ Refuse("failed") \/ Refuse("panic")
          \/ /\ Begin(FirstStage("wp", Info),
                      [NoJob EXCEPT !.op = "add", !.mem = Info, !.role = "wp",
                                    !.wps = k, !.base = Len(Info.inst["wp"])])
             /\ UNCHANGED <<cloud, disk, strays>>
    BY <1>6 DEF StartAdd
  <2>2. Len(Info.inst["wp"]) \in Nat
    BY <1>1 DEF Config
  <2>3. JobOK([NoJob EXCEPT !.op = "add", !.mem = Info, !.role = "wp",
                            !.wps = k, !.base = Len(Info.inst["wp"])])
    BY <1>1, <2>2, CountsAssumption DEF JobOK, Job
  <2>4. QED
    BY <1>1, <1>2, <1>3, <2>1, <2>3, StageTypes DEF Outcome
<1>7. CASE StartRemove
  <2>1. PICK k \in WPCounts \ {0} :
          \/ Refuse("failed") \/ Refuse("declined")
          \/ /\ Begin("dropWorker", [NoJob EXCEPT !.op = "remove", !.mem = Info, !.role = "wp", !.wps = k])
             /\ UNCHANGED <<cloud, disk, strays>>
    BY <1>7 DEF StartRemove
  <2>2. JobOK([NoJob EXCEPT !.op = "remove", !.mem = Info, !.role = "wp", !.wps = k])
    BY <1>1, CountsAssumption DEF JobOK, Job
  <2>3. QED
    BY <1>2, <1>3, <2>1, <2>2 DEF Outcome, Stage, RemoveStage
<1>8. QED
  BY <1>4, <1>5, <1>6, <1>7 DEF User

\* The shapes that most steps have: a save or a script, then a continuation.
LEMMA StepShapes ==
  ASSUME TypeOK
  PROVE  /\ \A c \in Config, stage \in Stage : \A j :
              SaveSucceeds(c) /\ JobOK(j) /\ Continue(stage, j) => TypeOK'
         /\ \A c \in Config : \A j : SaveSucceeds(c) /\ JobOK(j) /\ NextNode(j) => TypeOK'
         /\ \A k \in Nat : SaveFails(k) /\ Fail => TypeOK'
         /\ \A k \in Nat : \A j : SaveFails(k) /\ JobOK(j) /\ NextNode(j) => TypeOK'
         /\ \A id : ScriptFails(id) /\ Fail => TypeOK'
         /\ \A id : \A stage \in Stage : \A j : ScriptRuns(id) /\ JobOK(j) /\ Continue(stage, j) => TypeOK'
<1>1. EnvOK /\ CtrlOK
  BY TypeParts
<1>2. QED
  BY <1>1, TypeParts, CallTypes, ControlTypes, NextNodeTypes

LEMMA TypeCreateStep ==
  ASSUME TypeOK, CreateStep
  PROVE  TypeOK'
<1>1. /\ EnvOK /\ CtrlOK /\ JobOK(job) /\ job \in Job
      /\ job.mem \in Config /\ job.got \in Nat /\ job.role \in Role
      /\ job.n \in Nat /\ job.base \in Nat /\ job.key \in Nat /\ NoID \in Nat
  BY TypeParts DEF CtrlOK, JobOK, Job, NoID
<1>2. {"db", "lb", "cp", "wp"} = Role
  BY DEF Role
<1>3. /\ CreateStage \subseteq Stage /\ NodeStage \subseteq Stage
  BY DEF Stage
<1>4. CASE Keygen
  <2>1. EnvOK'
    BY <1>1, <1>4 DEF Keygen, EnvOK, Disk
  <2>2. CtrlOK'
    BY <1>1, <1>3, <1>4, ControlTypes DEF Keygen, CreateStage
  <2>3. QED
    BY <2>1, <2>2, TypeParts
<1>5. CASE CreateSSHKeyPair
  <2>1. KeyObject \in Object
    BY <1>1 DEF KeyObject, Object, Kind
  <2>2. QED
    BY <1>3, <1>5, <2>1, CreateTypes DEF CreateSSHKeyPair, CreateStage
<1>6. CASE SaveSSHID
  <2> DEFINE c == ConfigWriterSSHID(job.mem, job.got)
  <2>1. c \in Config
    BY <1>1, WriterTypes
  <2>2. JobOK([job EXCEPT !.mem = c, !.key = job.got, !.got = NoID])
    BY <1>1, <2>1 DEF JobOK, Job
  <2>3. QED
    BY <1>3, <1>6, <2>1, <2>2, StepShapes DEF SaveSSHID, CreateStage
<1>7. CASE CreateNetwork
  <2>1. NetworkObject \in Object
    BY <1>1 DEF NetworkObject, KeyObject, Object, Kind
  <2>2. QED
    BY <1>3, <1>7, <2>1, CreateTypes DEF CreateNetwork, CreateStage
<1>8. CASE SaveNetworkID
  <2> DEFINE c == ConfigWriterNetworkID(job.mem, job.got)
  <2>1. c \in Config
    BY <1>1, WriterTypes
  <2>2. JobOK([job EXCEPT !.mem = c, !.got = NoID, !.role = "db"])
    BY <1>1, <1>2, <2>1 DEF JobOK, Job
  <2>3. QED
    BY <1>3, <1>8, <2>1, <2>2, StepShapes DEF SaveNetworkID, NodeStage
<1>9. ASSUME NEW c \in Config PROVE JobOK(NodeMissing(c))
  BY <1>1, <1>9 DEF JobOK, Job, NodeMissing
<1>10. CASE CreateFirewall
  <2>1. job.mem.networkID \in Nat
    BY <1>1 DEF Config
  <2>2. FirewallObject(job.mem.networkID) \in Object
    BY <1>1, <2>1 DEF FirewallObject, KeyObject, Object, Kind
  <2>3. QED
    BY <1>3, <1>10, <2>2, CreateTypes DEF CreateFirewall, NodeStage
<1>11. CASE SaveFirewall
  <2> DEFINE c == ConfigWriterFirewall(job.mem, job.role, job.got)
  <2>1. c \in Config
    BY <1>1, WriterTypes
  <2>2. JobOK([job EXCEPT !.mem = c, !.got = NoID])
    BY <1>1, <2>1 DEF JobOK, Job
  <2>3. QED
    BY <1>3, <1>9, <1>11, <2>1, <2>2, StepShapes DEF SaveFirewall, NodeStage
<1>12. CASE CreateInstance
  <2>1. job.mem.networkID \in Nat
    BY <1>1 DEF Config
  <2>2. HostNumber \in Nat
    BY <1>1 DEF HostNumber
  <2>3. \A h \in Nat : Instance(job.role, job.mem.networkID, job.key, h) \in Object
    BY <1>1, <2>1 DEF Instance, Object, Kind
  <2>4. Instance(job.role, job.mem.networkID, job.key,
                 IF job.role \in {"cp", "wp"} THEN HostNumber ELSE 0) \in Object
    BY <2>2, <2>3
  <2>5. QED
    BY <1>3, <1>12, <2>4, CreateTypes DEF CreateInstance, NodeStage
<1>13. CASE SaveInstance
  <2> DEFINE c == ConfigWriterInstance(job.mem, job.role, job.got)
  <2>1. c \in Config
    BY <1>1, WriterTypes
  <2>2. JobOK([job EXCEPT !.mem = c, !.got = NoID])
    BY <1>1, <2>1 DEF JobOK, Job
  <2>3. QED
    BY <1>3, <1>9, <1>13, <2>1, <2>2, StepShapes DEF SaveInstance, NodeStage
<1>14. CASE Boot
  <2>1. CtrlOK'
    BY <1>1, <1>3, <1>14, ControlTypes, NextNodeTypes DEF Boot, NodeStage
  <2>2. QED
    BY <1>1, <1>14, <2>1, CallTypes, TypeParts DEF Boot
<1>15. CASE SaveEndpoint
  <2> DEFINE c == ConfigWriterDBEndpoint(job.mem)
  <2>1. c \in Config
    BY <1>1, WriterTypes
  <2>2. JobOK([job EXCEPT !.mem = c])
    BY <1>1, <2>1 DEF JobOK, Job
  <2>3. QED
    BY <1>15, <2>1, <2>2, StepShapes DEF SaveEndpoint
<1>16. ASSUME NEW k \in Nat PROVE JobOK([job EXCEPT !.n = k])
  BY <1>1, <1>16 DEF JobOK, Job
<1>17. CASE ConfigLoadBalancer
  <2>1. CASE Return("panic") /\ UNCHANGED <<cloud, disk, strays>>
    BY <1>1, <2>1, ControlTypes, CallTypes, TypeParts DEF Outcome
  <2>2. JobOK([job EXCEPT !.n = 0]) /\ "configCP" \in Stage
    BY <1>3, <1>16 DEF CreateStage
  <2>3. CASE /\ ScriptRuns(Last(job.mem.inst["lb"]))
             /\ Continue("configCP", [job EXCEPT !.n = 0])
    BY <2>2, <2>3, StepShapes
  <2>4. CASE ScriptFails(Last(job.mem.inst["lb"])) /\ Fail
    BY <2>4, StepShapes
  <2>5. QED
    BY <1>17, <2>1, <2>3, <2>4 DEF ConfigLoadBalancer
<1>18. CASE ConfigControlPlane
  <2>1. JobOK([job EXCEPT !.n = @ + 1])
    BY <1>1 DEF JobOK, Job
  <2>2. {"saveToken", "kubeconfig", "configCP"} \subseteq Stage
    BY <1>3 DEF CreateStage
  <2>3. PICK id, stage, j :
          \/ ScriptFails(id) /\ Fail
          \/ /\ stage \in Stage /\ JobOK(j)
             /\ ScriptRuns(id) /\ Continue(stage, j)
    <3>1. CASE ScriptFails(job.mem.inst["cp"][job.n + 1]) /\ Fail
      BY <3>1
    <3>2. CASE ScriptRuns(job.mem.inst["cp"][job.n + 1]) /\ Continue("saveToken", job)
      BY <1>1, <2>2, <3>2
    <3>3. CASE /\ ScriptRuns(job.mem.inst["cp"][job.n + 1])
               /\ Continue(IF job.n + 1 = job.cps THEN "kubeconfig" ELSE "configCP", [job EXCEPT !.n = @ + 1])
      BY <2>1, <2>2, <3>3
    <3>4. QED
      BY <1>18, <3>1, <3>2, <3>3 DEF ConfigControlPlane
  <2>4. QED
    BY <2>3, StepShapes
<1>19. CASE SaveToken
  <2> DEFINE c == ConfigWriterServerToken(job.mem)
  <2>1. c \in Config
    BY <1>1, WriterTypes
  <2>2. JobOK([job EXCEPT !.mem = c, !.n = 1])
    BY <1>1, <2>1 DEF JobOK, Job
  <2>3. QED
    BY <1>3, <1>19, <2>1, <2>2, StepShapes DEF SaveToken, CreateStage
<1>20. CASE SaveKubeconfig
  <2>1. EnvOK'
    BY <1>1, <1>20 DEF SaveKubeconfig, EnvOK, Disk
  <2>2. JobOK([job EXCEPT !.role = "wp", !.n = 0])
    BY <1>1, <1>2 DEF JobOK, Job
  <2>3. FirstStage("wp", job.mem) \in Stage
    BY <1>1, <1>2, StageTypes
  <2>4. CtrlOK'
    BY <1>1, <1>20, <2>2, <2>3, ControlTypes DEF SaveKubeconfig, Outcome
  <2>5. QED
    BY <2>1, <2>4, TypeParts
<1>21. QED
  BY <1>4, <1>5, <1>6, <1>7, <1>8, <1>10, <1>11, <1>12, <1>13, <1>14, <1>15, <1>17, <1>18,
     <1>19, <1>20 DEF CreateStep

\* What RemoveAll leaves behind is a directory.
LEMMA RemovedTypes == disk \in Disk => PartlyRemoved \subseteq Disk
<1> SUFFICES ASSUME disk \in Disk PROVE PartlyRemoved \subseteq Disk
  OBVIOUS
<1>1. [disk EXCEPT !.file = "absent", !.info = EmptyConfig] \in Disk
  BY EmptyConfigType DEF Disk
<1>2. ASSUME NEW d \in Disk, NEW k \in BOOLEAN, NEW c \in {"none", "empty", "full"}
      PROVE  [d EXCEPT !.keypair = k, !.kubeconfig = c] \in Disk
  BY DEF Disk
<1>3. disk.keypair \in BOOLEAN /\ disk.kubeconfig \in {"none", "empty", "full"}
  BY DEF Disk
<1>4. ASSUME NEW d \in {disk, [disk EXCEPT !.file = "absent", !.info = EmptyConfig]},
             NEW k \in {disk.keypair, FALSE}, NEW c \in {disk.kubeconfig, "none"}
      PROVE  [d EXCEPT !.keypair = k, !.kubeconfig = c] \in Disk
  <2>1. d \in Disk /\ k \in BOOLEAN /\ c \in {"none", "empty", "full"}
    BY <1>1, <1>3
  <2>2. QED
    BY <1>2, <2>1
<1>5. QED
  BY <1>4 DEF PartlyRemoved

LEMMA TypeDeleteStep ==
  ASSUME TypeOK, DeleteStep
  PROVE  TypeOK'
<1>1. /\ EnvOK /\ CtrlOK /\ JobOK(job) /\ JobOK(NoJob) /\ job \in Job
      /\ job.mem \in Config /\ job.role \in Role /\ job.n \in Nat
      /\ Info \in Config /\ "cp" \in Role
  BY TypeParts, ControlTypes DEF EnvOK, Disk, Info, CtrlOK, JobOK, Job, Role
<1>2. DeleteStage \subseteq Stage
  BY DEF Stage
<1>3. CASE LoadForDelete
  <2> DEFINE j == [NoJob EXCEPT !.op = job.op, !.found = job.found,
                                !.mem = Info, !.key = Info.sshID, !.role = "cp"]
  <2>1. Info.sshID \in Nat
    BY <1>1 DEF Config
  <2>2. JobOK(j)
    BY <1>1, <2>1 DEF JobOK, Job
  <2>3. QED
    BY <1>1, <1>2, <1>3, <2>2, ControlTypes, CallTypes, TypeParts
    DEF LoadForDelete, DeleteStage, Outcome
<1>4. CASE DeleteInstance
  <2>1. PICK id, err :
          /\ err \in {"none", "notFound", "other"}
          /\ Deleted(id) \/ NotThere(id) \/ DeleteFails(id)
          /\ Continue("delInstances", [job EXCEPT !.n = @ + 1, !.err = err])
    BY <1>1, <1>4 DEF DeleteInstance, Job
  <2>2. JobOK([job EXCEPT !.n = @ + 1, !.err = err])
    <3>1. job.n + 1 \in Nat /\ err \in {"none", "notFound", "other"}
      BY <1>1, <2>1
    <3>2. [job EXCEPT !.n = @ + 1, !.err = err] \in Job
      BY <1>1, <3>1 DEF Job
    <3>3. [job EXCEPT !.n = @ + 1, !.err = err].retry = job.retry
      BY <1>1 DEF Job
    <3>4. QED
      BY <1>1, <3>2, <3>3 DEF JobOK
  <2>3. EnvOK'
    BY <1>1, <1>4, <2>1, CallTypes DEF DeleteInstance
  <2>4. QED
    BY <1>1, <1>2, <2>1, <2>2, <2>3, ControlTypes, TypeParts DEF DeleteStage
<1>5. CASE EndOfGroup
  <2>1. JobOK([job EXCEPT !.n = 1])
    BY <1>1 DEF JobOK, Job
  <2>2. ASSUME job.role # "db" PROVE JobOK([job EXCEPT !.role = NextGroup[job.role], !.n = 0])
    <3>1. NextGroup[job.role] \in Role
      BY <1>1, <2>2 DEF NextGroup, Role
    <3>2. QED
      BY <1>1, <3>1 DEF JobOK, Job
  <2>3. QED
    BY <1>1, <1>2, <1>5, <2>1, <2>2, ControlTypes, CallTypes, TypeParts
    DEF EndOfGroup, DeleteStage, Outcome
<1>6. CASE DeleteFirewall
  <2>1. PICK id : Deleted(id) \/ NotThere(id) \/ DeleteFails(id) \/ UNCHANGED cloud
    BY <1>6 DEF DeleteFirewall
  <2>2. EnvOK'
    BY <1>1, <1>6, <2>1, CallTypes DEF DeleteFirewall
  <2>3. JobOK([job EXCEPT !.n = @ + 1])
    BY <1>1 DEF JobOK, Job
  <2>4. CtrlOK'
    BY <1>1, <1>2, <1>6, <2>3, ControlTypes DEF DeleteFirewall, DeleteStage
  <2>5. QED
    BY <2>2, <2>4, TypeParts
<1>7. CASE DeleteNetwork
  <2>1. EnvOK'
    BY <1>1, <1>7, CallTypes DEF DeleteNetwork
  <2>2. ASSUME RetriesLeft PROVE JobOK(Retried)
    BY <1>1, <2>2, BoundsAssumption DEF JobOK, Job, RetriesLeft, Retried
  <2>3. CtrlOK'
    BY <1>1, <1>2, <1>7, <2>2, ControlTypes DEF DeleteNetwork, DeleteStage, Outcome
  <2>4. QED
    BY <2>1, <2>3, TypeParts
<1>8. CASE DeleteSSHKeyPair
  <2>1. EnvOK'
    BY <1>1, <1>8, CallTypes DEF DeleteSSHKeyPair
  <2>2. CtrlOK'
    BY <1>1, <1>2, <1>8, ControlTypes DEF DeleteSSHKeyPair, DeleteStage, Outcome
  <2>3. QED
    BY <2>1, <2>2, TypeParts
<1>9. CASE DeleteAllPaths
  <2>1. EmptyDisk \in Disk /\ PartlyRemoved \subseteq Disk
    BY <1>1, EmptyConfigType, RemovedTypes DEF EmptyDisk, Disk, EnvOK
  <2>2. EnvOK'
    BY <1>1, <1>9, <2>1 DEF DeleteAllPaths, EnvOK
  <2>3. CtrlOK'
    BY <1>1, <1>9, ControlTypes DEF DeleteAllPaths, Outcome
  <2>4. QED
    BY <2>2, <2>3, TypeParts
<1>10. QED
  BY <1>3, <1>4, <1>5, <1>6, <1>7, <1>8, <1>9 DEF DeleteStep

LEMMA TypeRemoveStep ==
  ASSUME TypeOK, RemoveStep
  PROVE  TypeOK'
<1>1. /\ EnvOK /\ CtrlOK /\ JobOK(job) /\ job \in Job /\ job.mem \in Config /\ job.n \in Nat
  BY TypeParts DEF CtrlOK, JobOK, Job
<1>2. RemoveStage \subseteq Stage
  BY DEF Stage
<1>3. CASE DropWorker
  <2>1. EnvOK'
    BY <1>1, <1>3, CallTypes DEF DropWorker
  <2>2. JobOK([job EXCEPT !.mem = DropLastWorker(@)])
    BY <1>1, DropType DEF JobOK, Job
  <2>3. CtrlOK'
    BY <1>1, <1>2, <1>3, <2>2, ControlTypes DEF DropWorker, RemoveStage
  <2>4. QED
    BY <2>1, <2>3, TypeParts
<1>4. CASE SaveDrop
  <2>1. JobOK([job EXCEPT !.n = @ + 1])
    BY <1>1 DEF JobOK, Job
  <2>2. CASE SaveSucceeds(job.mem) /\ Return("removed")
    BY <1>1, <2>2, ControlTypes, CallTypes, TypeParts DEF Outcome
  <2>3. QED
    BY <1>1, <1>2, <1>4, <2>1, <2>2, StepShapes DEF SaveDrop, RemoveStage
<1>5. QED
  BY <1>3, <1>4 DEF RemoveStep

LEMMA TypeStep ==
  ASSUME TypeOK, [Next]_vars
  PROVE  TypeOK'
<1>1. EnvOK /\ CtrlOK
  BY TypeParts
<1>2. CASE Crash
  <2>1. Torn \in Disk
    BY <1>1, EmptyConfigType DEF Torn, Disk, EnvOK
  <2>2. PartlyRemoved \subseteq Disk
    BY <1>1, RemovedTypes DEF EnvOK
  <2>3. disk' \in Disk
    BY <1>1, <1>2, <2>1, <2>2 DEF Crash, EnvOK, Disk
  <2>4. EnvOK'
    BY <1>1, <1>2, <2>3 DEF Crash, EnvOK, Stray
  <2>5. CtrlOK'
    BY <1>1, <1>2, ControlTypes DEF Crash, Outcome
  <2>6. QED
    BY <2>4, <2>5, TypeParts
<1>3. CASE Activate
  <2>1. EnvOK'
    BY <1>1, <1>3, CloudTypes DEF Activate, EnvOK
  <2>2. QED
    BY <1>1, <1>3, <2>1, TypeParts DEF Activate, CtrlOK
<1>4. CASE DeleteByHand
  <2>1. EnvOK'
    BY <1>1, <1>4, CloudTypes DEF DeleteByHand, EnvOK
  <2>2. QED
    BY <1>1, <1>4, <2>1, TypeParts DEF DeleteByHand, CtrlOK
<1>5. CASE UNCHANGED vars
  BY <1>5 DEF vars, TypeOK
<1>6. QED
  BY <1>2, <1>3, <1>4, <1>5, TypeUser, TypeCreateStep, TypeDeleteStep, TypeRemoveStep
  DEF Next, Step

\* Every reachable state is well typed, the state file included, and the
\* retry counter of DeleteNetworks stays below its limit.
THEOREM TypeCorrect == Spec => []TypeOK
<1>1. Init => TypeOK
  BY TypeInit
<1>2. TypeOK /\ [Next]_vars => TypeOK'
  BY TypeStep
<1>3. QED
  BY <1>1, <1>2, PTL DEF Spec


-----------------------------------------------------------------------------
(* What the ConfigWriter methods do to the identifiers of a record         *)

LEMMA EmptyRecord ==
  /\ Recorded(EmptyConfig) = {}
  /\ Firewalls(EmptyConfig) = {} /\ Instances(EmptyConfig) = {}
<1>1. Firewalls(EmptyConfig) = {}
  BY DEF Firewalls, EmptyConfig
<1>2. Instances(EmptyConfig) = {}
  BY DEF Instances, EmptyConfig, ToSet
<1>3. QED
  BY <1>1, <1>2 DEF Recorded, EmptyConfig

LEMMA AppendSet ==
  ASSUME NEW s \in Seq(Nat), NEW id \in Nat
  PROVE  ToSet(Append(s, id)) = ToSet(s) \cup {id}
<1>1. /\ Len(Append(s, id)) = Len(s) + 1 /\ Len(s) \in Nat
      /\ Append(s, id)[Len(s) + 1] = id
      /\ \A i \in 1 .. Len(s) : Append(s, id)[i] = s[i]
      /\ DOMAIN s = 1 .. Len(s) /\ DOMAIN Append(s, id) = 1 .. Len(s) + 1
  BY AppendProperties, LenProperties
<1>2. QED
  BY <1>1 DEF ToSet

LEMMA FrontSet ==
  ASSUME NEW s \in Seq(Nat)
  PROVE  /\ ToSet(Front(s)) \subseteq ToSet(s)
         /\ s # << >> => /\ Len(Front(s)) = Len(s) - 1
                         /\ Last(s) \in ToSet(s)
                         /\ ToSet(s) \subseteq ToSet(Front(s)) \cup {Last(s)}
<1>1. Len(s) \in Nat /\ DOMAIN s = 1 .. Len(s) /\ (s = << >> <=> Len(s) = 0)
  BY EmptySeq, LenProperties
<1>2. CASE s = << >>
  <2>1. Front(s) = << >>
    BY <1>1, <1>2, SubSeqEmpty DEF Front
  <2>2. QED
    BY <1>2, <2>1
<1>3. CASE s # << >>
  <2>1. \A i \in 1 .. Len(s) - 1 : s[i] \in Nat
    BY <1>1, ElementOfSeq
  <2>2. /\ Len(Front(s)) = Len(s) - 1
        /\ Front(s) \in Seq(Nat)
        /\ \A i \in 1 .. Len(s) - 1 : Front(s)[i] = s[i]
    BY <1>1, <1>3, <2>1, SubSeqProperties DEF Front
  <2>3. DOMAIN Front(s) = 1 .. Len(s) - 1
    BY <2>2, LenProperties
  <2>4. ToSet(Front(s)) \subseteq ToSet(s)
    <3>1. SUFFICES ASSUME NEW i \in 1 .. Len(s) - 1 PROVE Front(s)[i] \in ToSet(s)
      BY <2>3 DEF ToSet
    <3>2. i \in DOMAIN s /\ Front(s)[i] = s[i]
      BY <1>1, <2>2
    <3>3. QED
      BY <3>2 DEF ToSet
  <2>5. Last(s) \in ToSet(s)
    BY <1>1, <1>3 DEF ToSet, Last
  <2>6. ASSUME NEW x \in ToSet(s), x # Last(s) PROVE x \in ToSet(Front(s))
    <3>1. PICK i \in 1 .. Len(s) : x = s[i]
      BY <1>1 DEF ToSet
    <3>2. i \in 1 .. Len(s) - 1
      BY <1>1, <2>6, <3>1 DEF Last
    <3>3. QED
      BY <2>2, <2>3, <3>1, <3>2 DEF ToSet
  <2>7. QED
    BY <2>2, <2>4, <2>5, <2>6
<1>4. QED
  BY <1>2, <1>3

\* A ConfigWriter adds the identifier to the record, and forgets none when
\* the field it writes is empty.
LEMMA WriterRecords ==
  ASSUME NEW c \in Config, NEW r \in Role, NEW id \in Nat
  PROVE  /\ c.sshID = NoID => Recorded(ConfigWriterSSHID(c, id)) = (Recorded(c) \cup {id}) \ {NoID}
         /\ c.networkID = NoID => Recorded(ConfigWriterNetworkID(c, id)) = (Recorded(c) \cup {id}) \ {NoID}
         /\ c.fw[r] = NoID => Recorded(ConfigWriterFirewall(c, r, id)) = (Recorded(c) \cup {id}) \ {NoID}
         /\ Recorded(ConfigWriterInstance(c, r, id)) = (Recorded(c) \cup {id}) \ {NoID}
         /\ Recorded(ConfigWriterDBEndpoint(c)) = Recorded(c)
         /\ Recorded(ConfigWriterServerToken(c)) = Recorded(c)
<1>1. ASSUME c.sshID = NoID
      PROVE  Recorded(ConfigWriterSSHID(c, id)) = (Recorded(c) \cup {id}) \ {NoID}
  BY <1>1 DEF ConfigWriterSSHID, Recorded, Firewalls, Instances, Config
<1>2. ASSUME c.networkID = NoID
      PROVE  Recorded(ConfigWriterNetworkID(c, id)) = (Recorded(c) \cup {id}) \ {NoID}
  BY <1>2 DEF ConfigWriterNetworkID, Recorded, Firewalls, Instances, Config
<1>3. ASSUME c.fw[r] = NoID
      PROVE  Recorded(ConfigWriterFirewall(c, r, id)) = (Recorded(c) \cup {id}) \ {NoID}
  <2> DEFINE d == ConfigWriterFirewall(c, r, id)
  <2>1. /\ d.sshID = c.sshID /\ d.networkID = c.networkID /\ d.inst = c.inst
        /\ d.fw[r] = id /\ \A q \in Role \ {r} : d.fw[q] = c.fw[q]
    BY DEF ConfigWriterFirewall, Config
  <2>2. Firewalls(d) = (Firewalls(c) \cup {id}) \ {NoID}
    BY <1>3, <2>1 DEF Firewalls
  <2>3. Instances(d) = Instances(c)
    BY <2>1 DEF Instances
  <2>4. QED
    BY <2>1, <2>2, <2>3 DEF Recorded
<1>4. Recorded(ConfigWriterInstance(c, r, id)) = (Recorded(c) \cup {id}) \ {NoID}
  <2> DEFINE d == ConfigWriterInstance(c, r, id)
  <2>1. /\ d.sshID = c.sshID /\ d.networkID = c.networkID /\ d.fw = c.fw
        /\ d.inst[r] = Append(c.inst[r], id) /\ \A q \in Role \ {r} : d.inst[q] = c.inst[q]
    BY DEF ConfigWriterInstance, Config
  <2>2. ToSet(d.inst[r]) = ToSet(c.inst[r]) \cup {id}
    BY <2>1, AppendSet DEF Config
  <2>3. Instances(d) = Instances(c) \cup {id}
    BY <2>1, <2>2 DEF Instances
  <2>4. Firewalls(d) = Firewalls(c)
    BY <2>1 DEF Firewalls
  <2>5. QED
    BY <2>1, <2>3, <2>4 DEF Recorded
<1>5. Recorded(ConfigWriterDBEndpoint(c)) = Recorded(c)
  BY DEF ConfigWriterDBEndpoint, Recorded, Firewalls, Instances, Config
<1>6. Recorded(ConfigWriterServerToken(c)) = Recorded(c)
  BY DEF ConfigWriterServerToken, Recorded, Firewalls, Instances, Config
<1>7. QED
  BY <1>1, <1>2, <1>3, <1>4, <1>5, <1>6

\* The objects on the network of a record.
Nodes(c) == Firewalls(c) \cup Instances(c)

LEMMA WriterNodes ==
  ASSUME NEW c \in Config, NEW r \in Role, NEW id \in Nat
  PROVE  /\ Nodes(ConfigWriterSSHID(c, id)) = Nodes(c) /\ Nodes(ConfigWriterNetworkID(c, id)) = Nodes(c)
         /\ Nodes(ConfigWriterFirewall(c, r, id)) \subseteq Nodes(c) \cup {id}
         /\ Nodes(ConfigWriterInstance(c, r, id)) \subseteq Nodes(c) \cup {id}
         /\ Nodes(ConfigWriterDBEndpoint(c)) = Nodes(c) /\ Nodes(ConfigWriterServerToken(c)) = Nodes(c)
<1>1. Nodes(ConfigWriterFirewall(c, r, id)) \subseteq Nodes(c) \cup {id}
  BY DEF ConfigWriterFirewall, Nodes, Firewalls, Instances, Config
<1>2. Nodes(ConfigWriterInstance(c, r, id)) \subseteq Nodes(c) \cup {id}
  <2> DEFINE d == ConfigWriterInstance(c, r, id)
  <2>1. d.fw = c.fw /\ d.inst[r] = Append(c.inst[r], id) /\ \A q \in Role \ {r} : d.inst[q] = c.inst[q]
    BY DEF ConfigWriterInstance, Config
  <2>2. ToSet(d.inst[r]) = ToSet(c.inst[r]) \cup {id}
    BY <2>1, AppendSet DEF Config
  <2>3. QED
    BY <2>1, <2>2 DEF Nodes, Firewalls, Instances
<1>3. QED
  BY <1>1, <1>2
  DEF ConfigWriterSSHID, ConfigWriterNetworkID, ConfigWriterDBEndpoint, ConfigWriterServerToken,
      Nodes, Firewalls, Instances, Config

\* Dropping the last worker forgets that worker at most.
LEMMA DropRecords ==
  ASSUME NEW c \in Config
  PROVE  LET d == DropLastWorker(c)
             w == c.inst["wp"] IN
         /\ Nodes(d) \subseteq Nodes(c) /\ d.networkID = c.networkID
         /\ Recorded(d) \subseteq Recorded(c)
         /\ w # << >> => /\ Recorded(c) \subseteq Recorded(d) \cup {Last(w)}
                         /\ Last(w) \in Instances(c)
                         /\ Len(d.inst["wp"]) = Len(w) - 1
<1> DEFINE d == DropLastWorker(c)
           w == c.inst["wp"]
<1>1. "wp" \in Role /\ w \in Seq(Nat)
  BY DEF Role, Config
<1>2. /\ d.sshID = c.sshID /\ d.networkID = c.networkID /\ d.fw = c.fw
      /\ d.inst["wp"] = Front(w) /\ \A q \in Role \ {"wp"} : d.inst[q] = c.inst[q]
  BY <1>1 DEF DropLastWorker, Config
<1>3. Instances(d) \subseteq Instances(c)
  BY <1>1, <1>2, FrontSet DEF Instances
<1>4. ASSUME w # << >>
      PROVE  /\ Instances(c) \subseteq Instances(d) \cup {Last(w)} /\ Last(w) \in Instances(c)
             /\ Len(d.inst["wp"]) = Len(w) - 1
  <2>1. /\ ToSet(w) \subseteq ToSet(d.inst["wp"]) \cup {Last(w)} /\ Last(w) \in ToSet(w)
        /\ Len(d.inst["wp"]) = Len(w) - 1
    BY <1>1, <1>2, <1>4, FrontSet
  <2>2. QED
    BY <1>1, <1>2, <2>1 DEF Instances
<1>5. Firewalls(d) = Firewalls(c)
  BY <1>2 DEF Firewalls
<1>6. QED
  BY <1>2, <1>3, <1>4, <1>5 DEF Recorded, Nodes

-----------------------------------------------------------------------------
(* What the calls do to the objects of a record                            *)

\* Objects of a record stay attached when others come, go or boot.
LEMMA AttachedStays ==
  ASSUME NEW f, CloudOK(f), NEW c, Attached(f, c), NEW id
  PROVE  /\ \A o : id \notin Nodes(c) => Attached(With(f, id, o), c)
         /\ Attached(Without(f, id), c)
         /\ id \in DOMAIN f => Attached(Activated(f, id), c)
<1>1. ASSUME NEW o, id \notin Nodes(c) PROVE Attached(With(f, id, o), c)
  BY <1>1 DEF Attached, AttachedTo, With, Nodes
<1>2. Attached(Without(f, id), c)
  BY DEF Attached, AttachedTo, Without, Restrict
<1>3. ASSUME id \in DOMAIN f PROVE Attached(Activated(f, id), c)
  BY <1>3 DEF Attached, AttachedTo, Activated, CloudOK, Object
<1>4. QED
  BY <1>1, <1>2, <1>3

\* So does the identifier in hand.
LEMMA GotStays ==
  ASSUME NEW f, CloudOK(f), NEW net, NEW got, AttachedTo(f, net, got), NEW id
  PROVE  /\ AttachedTo(Without(f, id), net, got)
         /\ id \in DOMAIN f => AttachedTo(Activated(f, id), net, got)
BY DEF AttachedTo, Without, Restrict, Activated, CloudOK, Object

\* A record with fewer objects, or with one more that is attached.
LEMMA AttachedSubset ==
  ASSUME NEW f, NEW c, Attached(f, c), NEW d, NEW id,
         Nodes(d) \subseteq Nodes(c) \cup {id},
         Nodes(c) # {} => d.networkID = c.networkID,
         id \in Nodes(d) => AttachedTo(f, d.networkID, id)
  PROVE  Attached(f, d)
BY DEF Attached, AttachedTo, Nodes

LEMMA AttachedSame ==
  ASSUME NEW f, NEW c, Attached(f, c), NEW d, Nodes(d) \subseteq Nodes(c), d.networkID = c.networkID
  PROVE  Attached(f, d)
BY DEF Attached, AttachedTo, Nodes

\* The state file: what it records is attached, and only a file that is
\* there and readable records anything.
FileInv == NoFileNoRecord /\ Attached(cloud, Info)

\* The running command.
CommandInv ==
  /\ GotIsSaved /\ MemoryAhead /\ DeletesRecord /\ RemovesRecord
  /\ NetworkHeld => GoneWithNetwork

LEMMA InvParts == (RecordInv <=> FileInv /\ CommandInv) /\ (RecordInv' <=> FileInv' /\ CommandInv')
BY DEF RecordInv, FileInv, CommandInv

\* What a failed or interrupted save leaves behind is the old record or none.
LEMMA OldRecordOrNone ==
  ASSUME TypeOK, NEW d, d \in NotSaved \cup PartlyRemoved \cup {EmptyDisk, Torn}
  PROVE  /\ d.file # "saved" => (d.info = EmptyConfig \/ (d.info = Info /\ disk.file # "saved"))
         /\ d.info = Info \/ d.info = EmptyConfig
<1>1. CASE d \in PartlyRemoved
  <2>1. PICK e \in {disk, [disk EXCEPT !.file = "absent", !.info = EmptyConfig]},
             k \in {disk.keypair, FALSE}, g \in {disk.kubeconfig, "none"} :
               d = [e EXCEPT !.keypair = k, !.kubeconfig = g]
    BY <1>1 DEF PartlyRemoved
  <2>2. e \in Disk
    <3>1. [disk EXCEPT !.file = "absent", !.info = EmptyConfig] \in Disk
      BY EmptyConfigType DEF TypeOK, Disk
    <3>2. QED
      BY <3>1 DEF TypeOK
  <2>3. d.file = e.file /\ d.info = e.info
    BY <2>1, <2>2 DEF Disk
  <2>4. \/ e.file = disk.file /\ e.info = disk.info
        \/ e.file = "absent" /\ e.info = EmptyConfig
    BY DEF TypeOK, Disk
  <2>5. QED
    BY <2>3, <2>4 DEF Info
<1>2. CASE d = disk
  BY <1>2 DEF Info
<1>3. CASE d = EmptyDisk
  BY <1>3 DEF EmptyDisk
<1>4. Torn.info = EmptyConfig
  BY DEF Torn, TypeOK, Disk
<1>5. QED
  BY <1>1, <1>2, <1>3, <1>4 DEF NotSaved

\* The steps that leave the record of the file alone or take it away.
LEMMA FileStays ==
  ASSUME TypeOK, FileInv,
         \/ cloud' = cloud
         \/ \E id : cloud' = Without(cloud, id)
         \/ \E id \in DOMAIN cloud : cloud' = Activated(cloud, id),
         \/ disk' \in NotSaved \cup PartlyRemoved \cup {EmptyDisk, Torn}
         \/ UNCHANGED disk
         \/ Info' = Info /\ disk'.file = disk.file
  PROVE  FileInv'
<1>1. CloudOK(cloud)
  BY TypeParts DEF EnvOK
<1>2. Attached(cloud, EmptyConfig)
  BY EmptyRecord DEF Attached
<1>3. Info' = Info \/ Info' = EmptyConfig
  BY OldRecordOrNone DEF Info
<1>4. Attached(cloud, Info')
  BY <1>2, <1>3 DEF FileInv
<1>5. Attached(cloud', Info')
  BY <1>1, <1>4, AttachedStays
<1>6. NoFileNoRecord'
  BY OldRecordOrNone DEF NoFileNoRecord, FileInv, Info
<1>7. QED
  BY <1>5, <1>6 DEF FileInv

\* A save of a record whose objects are attached.
LEMMA FileSaved ==
  ASSUME TypeOK, NEW c, Attached(cloud, c), SaveSucceeds(c)
  PROVE  FileInv' /\ Info' = c
BY DEF SaveSucceeds, Saved, FileInv, NoFileNoRecord, Info, TypeOK, Disk

\* A save that fails.
LEMMA FileNotSaved ==
  ASSUME TypeOK, FileInv, NEW k, SaveFails(k)
  PROVE  FileInv' /\ Info' \in {Info, EmptyConfig} /\ cloud' = cloud
<1>1. disk' \in NotSaved /\ cloud' = cloud
  BY DEF SaveFails
<1>2. QED
  BY <1>1, FileStays, OldRecordOrNone DEF Info
-----------------------------------------------------------------------------
(* How an action goes on                                                   *)

LEMMA ReturnInv ==
  ASSUME NEW result, Return(result)
  PROVE  CommandInv'
BY DEF Return, NoJob, CommandInv, GotIsSaved, MemoryAhead, DeletesRecord, RemovesRecord,
       GoneWithNetwork, CreateStage, NodeStage, DeleteStage, RemoveStage

LEMMA FailInv ==
  ASSUME Fail
  PROVE  CommandInv'
<1>1. CASE Continue("guard", job)
  BY <1>1 DEF Continue, CommandInv, GotIsSaved, MemoryAhead, DeletesRecord, RemovesRecord,
              GoneWithNetwork, CreateStage, NodeStage, DeleteStage, RemoveStage
<1>2. QED
  BY <1>1, ReturnInv DEF Fail

\* A command that builds goes on building.
LEMMA BuildInv ==
  ASSUME NEW stage \in CreateStage \cup NodeStage, NEW j,
         pc' = stage, job' = j,
         Ahead(cloud', Info', stage, j),
         stage \notin {"saveKey", "saveNetwork", "saveFirewall", "saveInstance"} => j.got = NoID
  PROVE  CommandInv'
BY DEF CommandInv, GotIsSaved, MemoryAhead, DeletesRecord, RemovesRecord,
       GoneWithNetwork, CreateStage, NodeStage, DeleteStage, RemoveStage
LEMMA StageSets ==
  ASSUME NEW r \in Role, NEW c
  PROVE  /\ FirstStage(r, c) \in {"newFirewall", "newInstance"}
         /\ FirstStage(r, c) = "newFirewall" /\ r \in {"cp", "wp"} => c.fw[r] = NoID
BY DEF FirstStage

\* The loop over the nodes goes on with the same record.
LEMMA NextNodeInv ==
  ASSUME NEW j \in Job, NextNode(j), j.got = NoID,
         Recorded(Info') \subseteq Recorded(j.mem), Attached(cloud', j.mem),
         j.role = "db" => j.mem.fw["lb"] = NoID
  PROVE  CommandInv'
<1>1. ASSUME NEW r \in Role, NEW n \in Nat, NEW stage \in {"newFirewall", "newInstance", "configLB"},
             NEW k \in Job, k.mem = j.mem, k.got = j.got, k.role = r,
             stage = "newFirewall" => j.mem.fw[r] = NoID,
             r # "db", Continue(stage, k)
      PROVE  CommandInv'
  <2>1. Ahead(cloud', Info', stage, k)
    BY <1>1 DEF Ahead
  <2>2. QED
    BY <1>1, <2>1, BuildInv DEF Continue, CreateStage, NodeStage
<1>2. CASE j.role = "db" /\ Continue("newFirewall", [j EXCEPT !.role = "lb"])
  BY <1>1, <1>2 DEF Job, Role
<1>3. CASE \E n \in Nat : Continue(FirstStage("cp", j.mem), [j EXCEPT !.role = "cp", !.n = n])
  <2>1. PICK n \in Nat : Continue(FirstStage("cp", j.mem), [j EXCEPT !.role = "cp", !.n = n])
    BY <1>3
  <2> DEFINE k == [j EXCEPT !.role = "cp", !.n = n]
  <2>2. "cp" \in Role
    BY DEF Role
  <2>3. k \in Job /\ k.mem = j.mem /\ k.got = j.got /\ k.role = "cp"
    BY <2>2 DEF Job
  <2>4. QED
    BY <1>1, <2>1, <2>2, <2>3, StageSets
<1>4. CASE j.role \in {"cp", "wp"} /\ Continue(FirstStage(j.role, j.mem), [j EXCEPT !.n = @ + 1])
  BY <1>1, <1>4, StageSets DEF Job, Role
<1>5. CASE j.role = "cp" /\ Continue("configLB", j)
  BY <1>1, <1>5 DEF Role
<1>6. CASE \E result : Return(result)
  BY <1>6, ReturnInv
<1>7. QED
  BY <1>2, <1>3, <1>4, <1>5, <1>6 DEF NextNode
-----------------------------------------------------------------------------
(* RecordInv is inductive                                                  *)

LEMMA JobType ==
  ASSUME TypeOK
  PROVE  /\ job \in Job /\ job.mem \in Config /\ job.got \in Nat /\ job.role \in Role
         /\ job.n \in Nat /\ job.wps \in Nat /\ NoID \in Nat
         /\ CloudOK(cloud) /\ disk \in Disk /\ Info \in Config
BY DEF TypeOK, Job, CloudOK, Disk, Info, NoID

\* A fresh identifier is on no record.
LEMMA FreshIsNew ==
  ASSUME TypeOK, NEW id \in Fresh
  PROVE  /\ id \in IDs /\ id \in Nat /\ id # NoID /\ id \notin DOMAIN cloud
         /\ id \notin Recorded(Info) /\ id \notin Recorded(job.mem) /\ id # job.got
         /\ id \notin Nodes(Info) /\ id \notin Nodes(job.mem)
<1>1. id \in IDs \ InUse
  BY MintAssumption DEF Fresh, InUse
<1>2. id # NoID /\ id \in Nat
  BY <1>1, IDsAssumption
<1>3. QED
  BY <1>1, <1>2 DEF InUse, Recorded, Nodes

LEMMA RecordCreate ==
  ASSUME TypeOK, RecordInv, NEW o, NEW next, Create(o, next),
         \/ pc = "newKey" /\ next = "saveKey"
         \/ pc = "newNetwork" /\ next = "saveNetwork"
         \/ /\ \/ pc = "newFirewall" /\ next = "saveFirewall"
               \/ pc = "newInstance" /\ next = "saveInstance"
            /\ o.net = job.mem.networkID /\ o.kind \in HoldsNetwork
  PROVE  RecordInv'
<1>1. FileInv /\ CommandInv /\ CloudOK(cloud) /\ job \in Job
  BY InvParts, JobType
<1>2. Ahead(cloud, Info, pc, job)
  BY <1>1 DEF CommandInv, MemoryAhead, CreateStage, NodeStage
<1>3. CASE \E id \in Fresh : /\ cloud' = With(cloud, id, o)
                            /\ Continue(next, [job EXCEPT !.got = id])
                            /\ UNCHANGED <<disk, strays>>
  <2>1. PICK id \in Fresh : /\ cloud' = With(cloud, id, o)
                            /\ Continue(next, [job EXCEPT !.got = id])
                            /\ UNCHANGED <<disk, strays>>
    BY <1>3
  <2> DEFINE j == [job EXCEPT !.got = id]
  <2>2. Attached(cloud', Info) /\ Attached(cloud', job.mem)
    BY <1>1, <1>2, <2>1, FreshIsNew, AttachedStays DEF FileInv, Ahead
  <2>3. Info' = Info /\ FileInv'
    BY <1>1, <2>1, <2>2 DEF FileInv, NoFileNoRecord, Info
  <2>4. j.mem = job.mem /\ j.role = job.role /\ j.got = id
    BY <1>1 DEF Job
  <2>5. next \in {"saveFirewall", "saveInstance"} => AttachedTo(cloud', job.mem.networkID, id)
    BY <2>1 DEF AttachedTo, With
  <2>6. Ahead(cloud', Info', next, j)
    BY <1>2, <2>2, <2>3, <2>4, <2>5 DEF Ahead, NodeStage
  <2>7. CommandInv'
    BY <2>1, <2>6, BuildInv DEF Continue, CreateStage, NodeStage
  <2>8. QED
    BY <2>3, <2>7, InvParts
<1>4. CASE Fail /\ UNCHANGED <<cloud, disk, strays>>
  BY <1>1, <1>4, FileStays, FailInv, InvParts
<1>5. CASE (\E id \in Fresh : cloud' = With(cloud, id, o)) /\ Stray(1) /\ Fail /\ UNCHANGED disk
  <2>1. PICK id \in Fresh : cloud' = With(cloud, id, o)
    BY <1>5
  <2>2. Attached(cloud', Info)
    BY <1>1, <2>1, FreshIsNew, AttachedStays DEF FileInv
  <2>3. FileInv'
    BY <1>1, <1>5, <2>2 DEF FileInv, NoFileNoRecord, Info
  <2>4. QED
    BY <1>5, <2>3, FailInv, InvParts
<1>6. QED
  BY <1>3, <1>4, <1>5 DEF Create

\* A save of the record in memory.
LEMMA RecordSaved ==
  ASSUME TypeOK, NEW c, Attached(cloud, c), SaveSucceeds(c),
         NEW stage \in (CreateStage \cup NodeStage) \ {"saveKey", "saveNetwork", "saveFirewall", "saveInstance"},
         NEW j, Continue(stage, j), Ahead(cloud, c, stage, j), j.got = NoID
  PROVE  RecordInv'
<1>1. FileInv' /\ Info' = c /\ cloud' = cloud
  BY FileSaved DEF SaveSucceeds
<1>2. CommandInv'
  BY <1>1, BuildInv DEF Continue
<1>3. QED
  BY <1>1, <1>2, InvParts

\* A save that fails, and with it the command.
LEMMA RecordNotSaved ==
  ASSUME TypeOK, RecordInv, NEW k, SaveFails(k), Fail
  PROVE  RecordInv'
BY FileNotSaved, FailInv, InvParts

\* The same when the loop over the nodes goes on after it.
LEMMA RecordSaveNode ==
  ASSUME TypeOK, RecordInv, NEW c \in Config, Attached(cloud, c), Recorded(Info) \subseteq Recorded(c),
         NEW j \in Job, j.mem = c, j.got = NoID, j.role = "db" => c.fw["lb"] = NoID,
         SaveSucceeds(c) \/ (\E k : SaveFails(k)), NextNode(j)
  PROVE  RecordInv'
<1>1. FileInv' /\ cloud' = cloud /\ Info' \in {c, Info, EmptyConfig}
  BY FileSaved, FileNotSaved, InvParts DEF SaveSucceeds
<1>2. Recorded(Info') \subseteq Recorded(c)
  BY <1>1, EmptyRecord
<1>3. CommandInv'
  BY <1>1, <1>2, NextNodeInv
<1>4. QED
  BY <1>1, <1>3, InvParts

\* A step that only looks, and goes on.
LEMMA RecordLook ==
  ASSUME TypeOK, RecordInv, cloud' = cloud, Info' = Info /\ disk'.file = disk.file,
         NEW stage \in (CreateStage \cup NodeStage) \ {"saveKey", "saveNetwork", "saveFirewall", "saveInstance"},
         NEW j, Continue(stage, j), Ahead(cloud, Info, stage, j), j.got = NoID
  PROVE  RecordInv'
<1>1. FileInv'
  BY FileStays, InvParts
<1>2. CommandInv'
  BY BuildInv DEF Continue
<1>3. QED
  BY <1>1, <1>2, InvParts

\* A step that only looks, and ends the command or fails.
LEMMA RecordEnd ==
  ASSUME TypeOK, RecordInv, cloud' = cloud, Info' = Info /\ disk'.file = disk.file,
         Fail \/ \E result : Return(result)
  PROVE  RecordInv'
<1>1. FileInv'
  BY FileStays, InvParts
<1>2. QED
  BY <1>1, FailInv, ReturnInv, InvParts

LEMMA RecordCreateStep ==
  ASSUME TypeOK, RecordInv, CreateStep
  PROVE  RecordInv'
<1>1. /\ job \in Job /\ job.mem \in Config /\ job.got \in Nat /\ job.role \in Role
      /\ job.n \in Nat /\ NoID \in Nat /\ CloudOK(cloud) /\ Info \in Config
  BY JobType
<1>2. FileInv /\ CommandInv
  BY InvParts
<1>3. ASSUME pc \in CreateStage \cup NodeStage
      PROVE  Ahead(cloud, Info, pc, job)
  BY <1>2, <1>3 DEF CommandInv, MemoryAhead
<1>4. ASSUME pc \notin {"saveKey", "saveNetwork", "saveFirewall", "saveInstance", "guard"}
      PROVE  job.got = NoID
  BY <1>2, <1>4 DEF CommandInv, GotIsSaved
<1>5. CASE Keygen
  <2>1. Ahead(cloud, Info, "keygen", job) /\ job.got = NoID
    BY <1>3, <1>4, <1>5 DEF Keygen, CreateStage
  <2>2. Ahead(cloud, Info, "newKey", job)
    BY <2>1 DEF Ahead, NodeStage
  <2>3. Info' = Info /\ disk'.file = disk.file
    BY <1>5 DEF Keygen, Info, TypeOK, Disk
  <2>4. QED
    BY <1>5, <2>1, <2>2, <2>3, RecordLook, RecordEnd DEF Keygen, CreateStage
<1>6. CASE CreateSSHKeyPair
  BY <1>6, RecordCreate DEF CreateSSHKeyPair
<1>7. CASE SaveSSHID
  <2> DEFINE c == ConfigWriterSSHID(job.mem, job.got)
             j == [job EXCEPT !.mem = c, !.key = job.got, !.got = NoID]
  <2>1. job.mem = EmptyConfig /\ Attached(cloud, job.mem)
    BY <1>3, <1>7 DEF SaveSSHID, CreateStage, Ahead
  <2>2. c \in Config /\ Nodes(c) = {} /\ c.networkID = NoID /\ c.fw = EmptyConfig.fw /\ c.inst = EmptyConfig.inst
    <3>1. c \in Config /\ Nodes(c) = {}
      BY <1>1, <2>1, WriterTypes, WriterNodes, EmptyRecord DEF Nodes
    <3>2. c.networkID = NoID /\ c.fw = EmptyConfig.fw /\ c.inst = EmptyConfig.inst
      BY <2>1 DEF ConfigWriterSSHID, EmptyConfig
    <3>3. QED
      BY <3>1, <3>2
  <2>3. Attached(cloud, c)
    BY <2>2 DEF Attached, Nodes
  <2>4. j.mem = c /\ j.got = NoID
    BY <1>1 DEF Job
  <2>5. Ahead(cloud, c, "newNetwork", j)
    BY <2>2, <2>3, <2>4 DEF Ahead, NodeStage
  <2>6. CASE SaveSucceeds(c) /\ Continue("newNetwork", j)
    BY <2>3, <2>4, <2>5, <2>6, RecordSaved DEF CreateStage
  <2>7. CASE \E k : SaveFails(k) /\ Fail
    BY <2>7, RecordNotSaved
  <2>8. QED
    BY <1>7, <2>6, <2>7 DEF SaveSSHID
<1>8. CASE CreateNetwork
  BY <1>8, RecordCreate DEF CreateNetwork
<1>9. CASE SaveNetworkID
  <2> DEFINE c == ConfigWriterNetworkID(job.mem, job.got)
             j == [job EXCEPT !.mem = c, !.got = NoID, !.role = "db"]
  <2>1. /\ job.mem.fw = EmptyConfig.fw /\ job.mem.inst = EmptyConfig.inst
    BY <1>3, <1>9 DEF SaveNetworkID, CreateStage, Ahead
  <2>2. c \in Config /\ c.fw = EmptyConfig.fw /\ c.inst = EmptyConfig.inst
    BY <1>1, <2>1, WriterTypes DEF ConfigWriterNetworkID, Config
  <2>3. Nodes(c) = {}
    BY <2>2, EmptyRecord DEF Nodes, Firewalls, Instances
  <2>4. Attached(cloud, c)
    BY <2>3 DEF Attached, Nodes
  <2>5. j.mem = c /\ j.got = NoID /\ j.role = "db"
    BY <1>1 DEF Job
  <2>6. c.fw["db"] = NoID /\ c.fw["lb"] = NoID
    BY <2>2 DEF EmptyConfig, Role
  <2>7. Ahead(cloud, c, "newFirewall", j)
    BY <2>2, <2>4, <2>5, <2>6 DEF Ahead, NodeStage
  <2>8. CASE SaveSucceeds(c) /\ Continue("newFirewall", j)
    BY <2>4, <2>5, <2>7, <2>8, RecordSaved DEF NodeStage
  <2>9. CASE \E k : SaveFails(k) /\ Fail
    BY <2>9, RecordNotSaved
  <2>10. QED
    BY <1>9, <2>8, <2>9 DEF SaveNetworkID
<1>10. CASE CreateFirewall
  <2>1. /\ FirewallObject(job.mem.networkID).net = job.mem.networkID
        /\ FirewallObject(job.mem.networkID).kind \in HoldsNetwork
    BY DEF FirewallObject, KeyObject, HoldsNetwork
  <2>2. QED
    BY <1>10, <2>1, RecordCreate DEF CreateFirewall
<1>11. CASE SaveFirewall
  <2> DEFINE c == ConfigWriterFirewall(job.mem, job.role, job.got)
             j == [job EXCEPT !.mem = c, !.got = NoID]
  <2>1. Ahead(cloud, Info, "saveFirewall", job)
    BY <1>3, <1>11 DEF SaveFirewall, NodeStage
  <2>2. /\ c \in Config /\ c.networkID = job.mem.networkID
        /\ Nodes(c) \subseteq Nodes(job.mem) \cup {job.got}
        /\ job.role = "db" => c.fw["lb"] = NoID
    <3>1. c \in Config /\ Nodes(c) \subseteq Nodes(job.mem) \cup {job.got}
      BY <1>1, WriterTypes, WriterNodes
    <3>2. c.networkID = job.mem.networkID
      BY <1>1 DEF ConfigWriterFirewall, Config
    <3>3. job.role = "db" => c.fw["lb"] = NoID
      BY <1>1, <2>1 DEF ConfigWriterFirewall, Config, Ahead, NodeStage, Role
    <3>4. QED
      BY <3>1, <3>2, <3>3
  <2>3. Attached(cloud, c)
    <3>1. Attached(cloud, job.mem) /\ AttachedTo(cloud, c.networkID, job.got)
      BY <2>1, <2>2 DEF Ahead
    <3>2. QED
      BY <2>2, <3>1 DEF Attached, Nodes
  <2>4. Recorded(Info) \subseteq Recorded(c)
    BY <1>1, <2>1, WriterRecords DEF Ahead, Recorded
  <2>5. CASE SaveSucceeds(c) /\ Continue("newInstance", j)
    <3>1. j.mem = c /\ j.got = NoID /\ j.role = job.role
      BY <1>1 DEF Job
    <3>2. Ahead(cloud, c, "newInstance", j)
      BY <2>2, <2>3, <3>1 DEF Ahead, NodeStage
    <3>3. QED
      BY <2>3, <2>5, <3>1, <3>2, RecordSaved DEF NodeStage
  <2>6. CASE SaveFails(1) /\ NextNode(NodeMissing(c))
    <3>1. /\ NodeMissing(c).mem = c /\ NodeMissing(c).got = NoID
          /\ NodeMissing(c).role = job.role /\ NodeMissing(c) \in Job
      BY <1>1, <2>2 DEF NodeMissing, Job
    <3>2. QED
      BY <2>2, <2>3, <2>4, <2>6, <3>1, RecordSaveNode
  <2>7. QED
    BY <1>11, <2>5, <2>6 DEF SaveFirewall
<1>12. CASE CreateInstance
  <2>1. \A n : /\ Instance(job.role, job.mem.networkID, job.key, n).net = job.mem.networkID
               /\ Instance(job.role, job.mem.networkID, job.key, n).kind \in HoldsNetwork
    BY <1>1 DEF Instance, HoldsNetwork
  <2>2. QED
    BY <1>12, <2>1, RecordCreate DEF CreateInstance
<1>13. CASE SaveInstance
  <2> DEFINE c == ConfigWriterInstance(job.mem, job.role, job.got)
             j == [job EXCEPT !.mem = c, !.got = NoID]
  <2>1. Ahead(cloud, Info, "saveInstance", job)
    BY <1>3, <1>13 DEF SaveInstance, NodeStage
  <2>2. /\ c \in Config /\ c.networkID = job.mem.networkID
        /\ Nodes(c) \subseteq Nodes(job.mem) \cup {job.got}
        /\ job.role = "db" => c.fw["lb"] = NoID
    <3>1. c \in Config /\ Nodes(c) \subseteq Nodes(job.mem) \cup {job.got}
      BY <1>1, WriterTypes, WriterNodes
    <3>2. c.networkID = job.mem.networkID /\ c.fw = job.mem.fw
      BY <1>1 DEF ConfigWriterInstance, Config
    <3>3. job.role = "db" => c.fw["lb"] = NoID
      BY <2>1, <3>2 DEF Ahead, NodeStage
    <3>4. QED
      BY <3>1, <3>2, <3>3
  <2>3. Attached(cloud, c)
    <3>1. Attached(cloud, job.mem) /\ AttachedTo(cloud, c.networkID, job.got)
      BY <2>1, <2>2 DEF Ahead
    <3>2. QED
      BY <2>2, <3>1 DEF Attached, Nodes
  <2>4. Recorded(Info) \subseteq Recorded(c)
    BY <1>1, <2>1, WriterRecords DEF Ahead, Recorded
  <2>5. CASE SaveSucceeds(c) /\ Continue("boot", j)
    <3>1. j.mem = c /\ j.got = NoID /\ j.role = job.role
      BY <1>1 DEF Job
    <3>2. Ahead(cloud, c, "boot", j)
      BY <2>2, <2>3, <3>1 DEF Ahead, NodeStage
    <3>3. QED
      BY <2>3, <2>5, <3>1, <3>2, RecordSaved DEF NodeStage
  <2>6. CASE SaveFails(1) /\ NextNode(NodeMissing(c))
    <3>1. /\ NodeMissing(c).mem = c /\ NodeMissing(c).got = NoID
          /\ NodeMissing(c).role = job.role /\ NodeMissing(c) \in Job
      BY <1>1, <2>2 DEF NodeMissing, Job
    <3>2. QED
      BY <2>2, <2>3, <2>4, <2>6, <3>1, RecordSaveNode
  <2>7. QED
    BY <1>13, <2>5, <2>6 DEF SaveInstance
<1>14. CASE Boot
  <2>1. Ahead(cloud, Info, "boot", job) /\ job.got = NoID
    BY <1>3, <1>4, <1>14 DEF Boot, NodeStage
  <2>2. Ahead(cloud, Info, "saveEndpoint", job)
    BY <2>1 DEF Ahead, NodeStage
  <2>3. Info' = Info /\ cloud' = cloud /\ disk'.file = disk.file
    BY <1>14 DEF Boot, Info
  <2>4. CASE NextNode(job)
    <3>1. CommandInv'
      BY <1>1, <2>1, <2>3, <2>4, NextNodeInv DEF Ahead, NodeStage
    <3>2. FileInv'
      BY <1>2, <2>3, FileStays
    <3>3. QED
      BY <3>1, <3>2, InvParts
  <2>5. QED
    BY <1>14, <2>1, <2>2, <2>3, <2>4, RecordLook, RecordEnd DEF Boot, NodeStage
<1>15. CASE SaveEndpoint
  <2> DEFINE c == ConfigWriterDBEndpoint(job.mem)
             j == [job EXCEPT !.mem = c]
  <2>1. Ahead(cloud, Info, "saveEndpoint", job) /\ job.got = NoID
    BY <1>3, <1>4, <1>15 DEF SaveEndpoint, NodeStage
  <2>2. /\ c \in Config /\ c.networkID = job.mem.networkID /\ c.fw = job.mem.fw
        /\ Nodes(c) = Nodes(job.mem) /\ Recorded(c) = Recorded(job.mem)
    BY <1>1, WriterTypes, WriterNodes, WriterRecords DEF ConfigWriterDBEndpoint, Config
  <2>3. Attached(cloud, c)
    BY <2>1, <2>2, AttachedSame DEF Ahead
  <2>4. j \in Job /\ j.mem = c /\ j.got = NoID /\ j.role = job.role
    BY <1>1, <2>1, <2>2 DEF Job
  <2>5. CASE SaveSucceeds(c) /\ NextNode(j)
    BY <2>1, <2>2, <2>3, <2>4, <2>5, RecordSaveNode DEF Ahead, NodeStage
  <2>6. CASE SaveFails(0) /\ Fail
    BY <2>6, RecordNotSaved
  <2>7. QED
    BY <1>15, <2>5, <2>6 DEF SaveEndpoint
<1>16. CASE ConfigLoadBalancer
  <2>1. Ahead(cloud, Info, "configLB", job) /\ job.got = NoID
    BY <1>3, <1>4, <1>16 DEF ConfigLoadBalancer, CreateStage
  <2>2. [job EXCEPT !.n = 0].mem = job.mem /\ [job EXCEPT !.n = 0].got = job.got
    BY <1>1 DEF Job
  <2>3. Ahead(cloud, Info, "configCP", [job EXCEPT !.n = 0])
    BY <2>1, <2>2 DEF Ahead, NodeStage
  <2>4. Info' = Info /\ cloud' = cloud /\ disk'.file = disk.file
    BY <1>16 DEF ConfigLoadBalancer, ScriptRuns, ScriptFails, Info
  <2>5. QED
    BY <1>16, <2>1, <2>2, <2>3, <2>4, RecordLook, RecordEnd DEF ConfigLoadBalancer, CreateStage
<1>17. CASE ConfigControlPlane
  <2> DEFINE j == [job EXCEPT !.n = @ + 1]
  <2>1. Ahead(cloud, Info, "configCP", job) /\ job.got = NoID
    BY <1>3, <1>4, <1>17 DEF ConfigControlPlane, CreateStage
  <2>2. j.mem = job.mem /\ j.got = job.got
    BY <1>1 DEF Job
  <2>3. /\ Ahead(cloud, Info, "saveToken", job)
        /\ Ahead(cloud, Info, "kubeconfig", j) /\ Ahead(cloud, Info, "configCP", j)
    BY <2>1, <2>2 DEF Ahead, NodeStage
  <2>4. Info' = Info /\ cloud' = cloud /\ disk'.file = disk.file
    BY <1>17 DEF ConfigControlPlane, ScriptRuns, ScriptFails, Info
  <2>5. PICK k : \/ Fail
                 \/ Continue("saveToken", k) /\ k = job
                 \/ Continue("kubeconfig", k) /\ k = j
                 \/ Continue("configCP", k) /\ k = j
    BY <1>17 DEF ConfigControlPlane
  <2>6. QED
    BY <2>1, <2>2, <2>3, <2>4, <2>5, RecordLook, RecordEnd DEF CreateStage
<1>18. CASE SaveToken
  <2> DEFINE c == ConfigWriterServerToken(job.mem)
             j == [job EXCEPT !.mem = c, !.n = 1]
  <2>1. Ahead(cloud, Info, "saveToken", job) /\ job.got = NoID
    BY <1>3, <1>4, <1>18 DEF SaveToken, CreateStage
  <2>2. /\ c \in Config /\ c.networkID = job.mem.networkID /\ Nodes(c) = Nodes(job.mem)
    BY <1>1, WriterTypes, WriterNodes DEF ConfigWriterServerToken, Config
  <2>3. Attached(cloud, c)
    BY <2>1, <2>2, AttachedSame DEF Ahead
  <2>4. j.mem = c /\ j.got = NoID
    BY <1>1, <2>1 DEF Job
  <2>5. Ahead(cloud, c, "configCP", j)
    BY <2>3, <2>4 DEF Ahead, NodeStage
  <2>6. CASE SaveSucceeds(c) /\ Continue("configCP", j)
    BY <2>3, <2>4, <2>5, <2>6, RecordSaved DEF CreateStage
  <2>7. CASE \E k : SaveFails(k) /\ Fail
    BY <2>7, RecordNotSaved
  <2>8. QED
    BY <1>18, <2>6, <2>7 DEF SaveToken
<1>19. CASE SaveKubeconfig
  <2> DEFINE j == [job EXCEPT !.role = "wp", !.n = 0]
  <2>1. Ahead(cloud, Info, "kubeconfig", job) /\ job.got = NoID
    BY <1>3, <1>4, <1>19 DEF SaveKubeconfig, CreateStage
  <2>2. j.mem = job.mem /\ j.got = NoID /\ j.role = "wp" /\ "wp" \in Role
    BY <1>1, <2>1 DEF Job, Role
  <2>3. Ahead(cloud, Info, FirstStage("wp", job.mem), j)
    BY <2>1, <2>2, StageSets DEF Ahead, NodeStage
  <2>4. Info' = Info /\ cloud' = cloud /\ disk'.file = disk.file
    BY <1>19 DEF SaveKubeconfig, Info, TypeOK, Disk
  <2>5. FirstStage("wp", job.mem) \in NodeStage \ {"saveFirewall", "saveInstance"}
    BY <2>2, StageSets DEF NodeStage
  <2>6. FirstStage("wp", job.mem) \notin {"saveKey", "saveNetwork"}
    BY <2>2, StageSets
  <2>7. QED
    BY <1>19, <2>2, <2>3, <2>4, <2>5, <2>6, RecordLook, RecordEnd DEF SaveKubeconfig
<1>20. QED
  BY <1>5, <1>6, <1>7, <1>8, <1>9, <1>10, <1>11, <1>12, <1>13, <1>14, <1>15, <1>16, <1>17,
     <1>18, <1>19 DEF CreateStep

\* A call that deletes only makes the cloud smaller.
LEMMA CallsShrink ==
  ASSUME NEW id, Deleted(id) \/ NotThere(id) \/ DeleteFails(id)
  PROVE  /\ cloud' = cloud \/ cloud' = Without(cloud, id)
         /\ DOMAIN cloud' \subseteq DOMAIN cloud
         /\ Deleted(id) => id \notin DOMAIN cloud'
BY DEF Deleted, NotThere, DeleteFails, Without, Restrict

\* A deletion goes on with the record it has read.
LEMMA RecordDelete ==
  ASSUME TypeOK, RecordInv, cloud' = cloud \/ (\E id : cloud' = Without(cloud, id)), UNCHANGED disk,
         NEW stage \in DeleteStage \ {"guard"}, NEW j, Continue(stage, j),
         j.mem = Info, j.key = Info.sshID, j.got = NoID,
         stage = "delFirewalls" => j.n \in DOMAIN FirewallOrder,
         NetworkHeld /\ stage \in {"delKey", "delPaths"} =>
           ({Info.networkID} \cup Firewalls(Info) \cup Instances(Info)) \cap DOMAIN cloud' = {},
         NetworkHeld /\ stage = "delPaths" => Info.sshID \notin DOMAIN cloud'
  PROVE  RecordInv'
<1>1. FileInv' /\ Info' = Info
  BY FileStays, InvParts DEF Info
<1>2. CommandInv'
  BY <1>1 DEF Continue, CommandInv, GotIsSaved, MemoryAhead, DeletesRecord, RemovesRecord,
              GoneWithNetwork, CreateStage, NodeStage, DeleteStage, RemoveStage
<1>3. QED
  BY <1>1, <1>2, InvParts

\* A call that deletes and then ends the command.
LEMMA RecordDeleteEnd ==
  ASSUME TypeOK, RecordInv, cloud' = cloud \/ (\E id : cloud' = Without(cloud, id)),
         UNCHANGED disk \/ disk' \in PartlyRemoved \cup {EmptyDisk},
         Fail \/ \E result : Return(result)
  PROVE  RecordInv'
<1>1. FileInv'
  BY FileStays, InvParts
<1>2. QED
  BY <1>1, FailInv, ReturnInv, InvParts

LEMMA RecordDeleteStep ==
  ASSUME TypeOK, RecordInv, DeleteStep
  PROVE  RecordInv'
<1>1. /\ job \in Job /\ job.n \in Nat /\ CloudOK(cloud) /\ Info \in Config
      /\ FileInv /\ CommandInv
  BY JobType, InvParts
<1>2. ASSUME pc \in DeleteStage \ {"guard"}
      PROVE  /\ job.mem = Info /\ job.key = Info.sshID /\ job.got = NoID
             /\ pc = "delFirewalls" => job.n \in DOMAIN FirewallOrder
  BY <1>1, <1>2 DEF CommandInv, DeletesRecord, GotIsSaved, DeleteStage
<1>3. ASSUME cloud' = cloud \/ (\E id : cloud' = Without(cloud, id)), UNCHANGED disk,
             NEW j, Continue("delInstances", j), j.mem = Info, j.key = Info.sshID, j.got = NoID
       PROVE  RecordInv'
  <2>1. "delInstances" \in DeleteStage \ {"guard"}
    BY DEF DeleteStage
  <2>2. "delInstances" \notin {"delFirewalls", "delKey", "delPaths"}
    OBVIOUS
  <2>3. QED
    BY <1>3, <2>1, <2>2, RecordDelete
<1>4. CASE LoadForDelete
  <2> DEFINE j == [NoJob EXCEPT !.op = job.op, !.found = job.found,
                                !.mem = Info, !.key = Info.sshID, !.role = "cp"]
  <2>1. j.mem = Info /\ j.key = Info.sshID /\ j.got = NoID
    BY DEF NoJob
  <2>2. UNCHANGED <<cloud, disk>>
    BY <1>4 DEF LoadForDelete
  <2>3. CASE Continue("delInstances", j)
    BY <1>3, <2>1, <2>2, <2>3
  <2>4. CASE Return("failed")
    BY <2>2, <2>4, RecordDeleteEnd
  <2>5. QED
    BY <1>4, <2>3, <2>4 DEF LoadForDelete
<1>5. CASE DeleteInstance
  <2>1. PICK id, err :
          /\ Deleted(id) \/ NotThere(id) \/ DeleteFails(id)
          /\ Continue("delInstances", [job EXCEPT !.n = @ + 1, !.err = err])
          /\ UNCHANGED disk /\ pc = "delInstances"
    BY <1>5 DEF DeleteInstance
  <2> DEFINE j == [job EXCEPT !.n = @ + 1, !.err = err]
  <2>2. j.mem = Info /\ j.key = Info.sshID /\ j.got = NoID
    BY <1>1, <1>2, <2>1 DEF Job, DeleteStage
  <2>3. cloud' = cloud \/ cloud' = Without(cloud, id)
    BY <2>1, CallsShrink
  <2>4. QED
    BY <1>3, <2>1, <2>2, <2>3
<1>6. CASE EndOfGroup
  <2>1. pc = "delInstances" /\ UNCHANGED <<cloud, disk>>
    BY <1>6 DEF EndOfGroup
  <2>2. job.mem = Info /\ job.key = Info.sshID /\ job.got = NoID
    BY <1>2, <2>1 DEF DeleteStage
  <2>3. CASE Return("failed")
    BY <2>1, <2>3, RecordDeleteEnd
  <2>4. CASE Continue("delFirewalls", [job EXCEPT !.n = 1])
    <3> DEFINE j == [job EXCEPT !.n = 1]
    <3>1. j.mem = Info /\ j.key = Info.sshID /\ j.got = NoID /\ j.n = 1
      BY <1>1, <2>2 DEF Job
    <3>2. j.n \in DOMAIN FirewallOrder
      BY <3>1 DEF FirewallOrder
    <3>3. QED
      BY <2>1, <2>4, <3>1, <3>2, RecordDelete DEF DeleteStage
  <2>5. CASE Continue("delInstances", [job EXCEPT !.role = NextGroup[job.role], !.n = 0])
    <3> DEFINE j == [job EXCEPT !.role = NextGroup[job.role], !.n = 0]
    <3>1. j.mem = Info /\ j.key = Info.sshID /\ j.got = NoID
      BY <1>1, <2>2 DEF Job
    <3>2. QED
      BY <1>3, <2>1, <2>5, <3>1
  <2>6. QED
    BY <1>6, <2>3, <2>4, <2>5 DEF EndOfGroup
<1>7. CASE DeleteFirewall
  <2>1. PICK id : Deleted(id) \/ NotThere(id) \/ DeleteFails(id) \/ UNCHANGED cloud
    BY <1>7 DEF DeleteFirewall
  <2>2. /\ cloud' = cloud \/ cloud' = Without(cloud, id)
        /\ UNCHANGED disk /\ pc = "delFirewalls"
    BY <1>7, <2>1, CallsShrink DEF DeleteFirewall
  <2>3. /\ job.mem = Info /\ job.key = Info.sshID /\ job.got = NoID
        /\ job.n \in DOMAIN FirewallOrder
    BY <1>2, <2>2 DEF DeleteStage
  <2>4. CASE Continue("delNetwork", job)
    BY <2>2, <2>3, <2>4, RecordDelete DEF DeleteStage
  <2>5. CASE job.n # Len(FirewallOrder) /\ Continue("delFirewalls", [job EXCEPT !.n = @ + 1])
    <3> DEFINE j == [job EXCEPT !.n = @ + 1]
    <3>1. j.mem = Info /\ j.key = Info.sshID /\ j.got = NoID /\ j.n = job.n + 1
      BY <1>1, <2>3 DEF Job
    <3>2. j.n \in DOMAIN FirewallOrder
      BY <1>1, <2>3, <2>5, <3>1 DEF FirewallOrder
    <3>3. QED
      BY <2>2, <2>5, <3>1, <3>2, RecordDelete DEF DeleteStage
  <2>6. QED
    BY <1>7, <2>4, <2>5 DEF DeleteFirewall
<1>8. CASE DeleteNetwork
  <2>1. pc = "delNetwork" /\ UNCHANGED disk /\ job.mem = Info /\ job.key = Info.sshID /\ job.got = NoID
    BY <1>2, <1>8 DEF DeleteNetwork, DeleteStage
  <2>2. cloud' = cloud \/ cloud' = Without(cloud, Info.networkID)
    BY <1>8, <2>1 DEF DeleteNetwork, Deleted
  <2>3. CASE CanDeleteNetwork(cloud, Info.networkID) /\ Deleted(Info.networkID) /\ Continue("delKey", job)
    <3>1. Info.networkID \notin DOMAIN cloud' /\ DOMAIN cloud' \subseteq DOMAIN cloud
      BY <2>3, CallsShrink
    <3>2. ASSUME NetworkHeld, NEW id \in Nodes(Info) PROVE id \notin DOMAIN cloud
      BY <1>1, <2>3, <3>2 DEF CanDeleteNetwork, FileInv, Attached, AttachedTo, NetworkHeld, Nodes
    <3>3. NetworkHeld => ({Info.networkID} \cup Firewalls(Info) \cup Instances(Info)) \cap DOMAIN cloud' = {}
      BY <3>1, <3>2 DEF Nodes
    <3>4. QED
      BY <2>1, <2>2, <2>3, <3>3, RecordDelete DEF DeleteStage
  <2>4. CASE Continue("delNetwork", Retried)
    <3>1. Retried.mem = Info /\ Retried.key = Info.sshID /\ Retried.got = NoID
      BY <1>1, <2>1 DEF Job, Retried
    <3>2. QED
      BY <2>1, <2>2, <2>4, <3>1, RecordDelete DEF DeleteStage
  <2>5. CASE Return("failed")
    BY <2>1, <2>2, <2>5, RecordDeleteEnd
  <2>6. QED
    BY <1>8, <2>1, <2>3, <2>4, <2>5 DEF DeleteNetwork
<1>9. CASE DeleteSSHKeyPair
  <2>1. /\ pc = "delKey" /\ UNCHANGED disk
        /\ job.mem = Info /\ job.key = Info.sshID /\ job.got = NoID
    BY <1>2, <1>9 DEF DeleteSSHKeyPair, DeleteStage
  <2>2. CASE Deleted(Info.sshID) /\ Continue("delPaths", job)
    <3>1. /\ Info.sshID \notin DOMAIN cloud' /\ DOMAIN cloud' \subseteq DOMAIN cloud
          /\ cloud' = cloud \/ cloud' = Without(cloud, Info.sshID)
      BY <2>2, CallsShrink
    <3>2. NetworkHeld => ({Info.networkID} \cup Firewalls(Info) \cup Instances(Info)) \cap DOMAIN cloud' = {}
      BY <1>1, <2>1, <3>1 DEF CommandInv, GoneWithNetwork
    <3>3. QED
      BY <2>1, <2>2, <3>1, <3>2, RecordDelete DEF DeleteStage
  <2>3. CASE (NotThere(Info.sshID) \/ DeleteFails(Info.sshID)) /\ Return("failed")
    BY <2>1, <2>3, CallsShrink, RecordDeleteEnd
  <2>4. QED
    BY <1>9, <2>1, <2>2, <2>3 DEF DeleteSSHKeyPair
<1>10. CASE DeleteAllPaths
  BY <1>10, RecordDeleteEnd DEF DeleteAllPaths
<1>11. QED
  BY <1>4, <1>5, <1>6, <1>7, <1>8, <1>9, <1>10 DEF DeleteStep

LEMMA RecordRemoveStep ==
  ASSUME TypeOK, RecordInv, RemoveStep
  PROVE  RecordInv'
<1>1. /\ job \in Job /\ job.n \in Nat /\ job.wps \in Nat /\ CloudOK(cloud) /\ Info \in Config
      /\ FileInv /\ CommandInv
  BY JobType, InvParts
<1>2. /\ job.n < job.wps /\ job.wps - job.n <= Len(Info.inst["wp"])
      /\ pc = "dropWorker" => job.mem = Info
      /\ pc = "saveDrop" => /\ job.mem = DropLastWorker(Info)
                            /\ Last(Info.inst["wp"]) \notin DOMAIN cloud
      /\ job.got = NoID
  BY <1>1 DEF RemoveStep, DropWorker, SaveDrop, CommandInv, RemovesRecord, GotIsSaved, RemoveStage
<1>3. Info.inst["wp"] # << >> /\ Len(Info.inst["wp"]) \in Nat
  BY <1>1, <1>2 DEF Config, Role
<1>4. CASE DropWorker
  <2> DEFINE id == Last(Info.inst["wp"])
             j  == [job EXCEPT !.mem = DropLastWorker(@)]
  <2>1. pc = "dropWorker" /\ job.mem = Info /\ UNCHANGED disk
    BY <1>2, <1>4 DEF DropWorker
  <2>2. CASE Deleted(id) /\ Continue("saveDrop", j)
    <3>1. id \notin DOMAIN cloud' /\ (cloud' = cloud \/ cloud' = Without(cloud, id))
      BY <2>2, CallsShrink
    <3>2. FileInv' /\ Info' = Info
      BY <1>1, <2>1, <3>1, FileStays DEF Info
    <3>3. /\ j.mem = DropLastWorker(Info) /\ j.got = NoID /\ j.n = job.n /\ j.wps = job.wps
      BY <1>1, <1>2, <2>1 DEF Job
    <3>4. CommandInv'
      BY <1>2, <2>2, <3>1, <3>2, <3>3
      DEF Continue, CommandInv, GotIsSaved, MemoryAhead, DeletesRecord, RemovesRecord,
          GoneWithNetwork, CreateStage, NodeStage, DeleteStage, RemoveStage
    <3>5. QED
      BY <3>2, <3>4, InvParts
  <2>3. CASE (NotThere(id) \/ DeleteFails(id)) /\ Fail
    BY <2>1, <2>3, CallsShrink, RecordDeleteEnd
  <2>4. QED
    BY <1>4, <2>1, <2>2, <2>3 DEF DropWorker, NewestWorker
<1>5. CASE SaveDrop
  <2> DEFINE c == DropLastWorker(Info)
             j == [job EXCEPT !.n = @ + 1]
  <2>1. pc = "saveDrop" /\ job.mem = c
    BY <1>2, <1>5 DEF SaveDrop
  <2>2. CASE SaveFails(0) /\ Fail
    BY <2>2, RecordNotSaved
  <2>3. CASE SaveSucceeds(c)
    <3>1. Attached(cloud, c) /\ Len(c.inst["wp"]) = Len(Info.inst["wp"]) - 1
      BY <1>1, <1>3, DropRecords, AttachedSame DEF FileInv
    <3>2. FileInv' /\ Info' = c
      BY <2>3, <3>1, FileSaved
    <3>3. CASE Return("removed")
      BY <3>2, <3>3, ReturnInv, InvParts
    <3>4. CASE job.n + 1 # job.wps /\ Continue("dropWorker", j)
      <4>1. j.mem = c /\ j.got = NoID /\ j.n = job.n + 1 /\ j.wps = job.wps
        BY <1>1, <1>2, <2>1 DEF Job
      <4>2. j.n < j.wps /\ j.wps - j.n <= Len(c.inst["wp"])
        BY <1>1, <1>2, <1>3, <3>1, <3>4, <4>1
      <4>3. CommandInv'
        BY <3>2, <3>4, <4>1, <4>2
        DEF Continue, CommandInv, GotIsSaved, MemoryAhead, DeletesRecord, RemovesRecord,
            GoneWithNetwork, CreateStage, NodeStage, DeleteStage, RemoveStage
      <4>4. QED
        BY <3>2, <4>3, InvParts
    <3>5. QED
      BY <1>5, <2>3, <3>3, <3>4, <2>2 DEF SaveDrop
  <2>4. QED
    BY <1>5, <2>1, <2>2, <2>3 DEF SaveDrop
<1>6. QED
  BY <1>4, <1>5 DEF RemoveStep

\* A new command starts from the record it has read, or from none.
LEMMA RecordUser ==
  ASSUME TypeOK, RecordInv, User
  PROVE  RecordInv'
<1>1. /\ Info \in Config /\ "wp" \in Role /\ FileInv /\ CommandInv
      /\ NoJob \in Job /\ NoJob.got = NoID /\ NoJob.mem = EmptyConfig
  BY JobType, InvParts, TypeParts, ControlTypes DEF Role, NoJob, JobOK
<1>2. ASSUME UNCHANGED <<cloud, disk>> PROVE FileInv' /\ Info' = Info
  BY <1>1, <1>2 DEF FileInv, NoFileNoRecord, Info
<1>3. ASSUME NEW result, Refuse(result) PROVE RecordInv'
  <2>1. UNCHANGED <<cloud, disk, pc, job>>
    BY <1>3 DEF Refuse
  <2>2. CommandInv'
    BY <1>1, <1>2, <2>1 DEF CommandInv, GotIsSaved, MemoryAhead, DeletesRecord, RemovesRecord, GoneWithNetwork
  <2>3. QED
    BY <1>2, <2>1, <2>2, InvParts
<1>4. ASSUME NEW j \in Job, Begin("guard", j), UNCHANGED <<cloud, disk>> PROVE RecordInv'
  <2>1. CommandInv'
    BY <1>4 DEF Begin, CommandInv, GotIsSaved, MemoryAhead, DeletesRecord, RemovesRecord,
                GoneWithNetwork, CreateStage, NodeStage, DeleteStage, RemoveStage
  <2>2. QED
    BY <1>2, <1>4, <2>1, InvParts
<1>5. ASSUME NEW j \in Job, NEW stage \in {"keygen", "newFirewall", "newInstance"}, Begin(stage, j),
             j.got = NoID, Ahead(cloud, Info, stage, j), UNCHANGED <<cloud, disk>>
      PROVE  RecordInv'
  <2> DEFINE k == [j EXCEPT !.found = disk.file # "absent"]
  <2>1. k.mem = j.mem /\ k.got = j.got /\ k.role = j.role
    BY <1>5 DEF Job
  <2>2. Info' = Info /\ cloud' = cloud /\ FileInv'
    BY <1>2, <1>5
  <2>3. Ahead(cloud', Info', stage, k)
    BY <1>5, <2>1, <2>2 DEF Ahead
  <2>4. CommandInv'
    BY <1>5, <2>1, <2>3, BuildInv DEF Begin, CreateStage, NodeStage
  <2>5. QED
    BY <2>2, <2>4, InvParts
<1>6. CASE StartCreate
  <2>1. PICK cps \in CPCounts, wps \in WPCounts :
          \/ Refuse("failed")
          \/ /\ Begin("guard", [NoJob EXCEPT !.op = "create", !.cps = cps, !.wps = wps])
             /\ UNCHANGED <<cloud, disk>>
          \/ /\ Begin("keygen", [NoJob EXCEPT !.op = "create", !.cps = cps, !.wps = wps])
             /\ ~isPresent /\ UNCHANGED <<cloud, disk>>
    BY <1>6 DEF StartCreate
  <2> DEFINE j == [NoJob EXCEPT !.op = "create", !.cps = cps, !.wps = wps]
  <2>2. j \in Job /\ j.mem = EmptyConfig /\ j.got = NoID
    BY <1>1, CountsAssumption DEF Job
  <2>3. ASSUME ~isPresent PROVE Ahead(cloud, Info, "keygen", j)
    <3>1. Info = EmptyConfig
      BY <1>1, <2>3 DEF isPresent, FileInv, NoFileNoRecord
    <3>2. Attached(cloud, EmptyConfig)
      BY EmptyRecord DEF Attached
    <3>3. QED
      BY <2>2, <3>1, <3>2 DEF Ahead, NodeStage
  <2>4. QED
    BY <1>3, <1>4, <1>5, <2>1, <2>2, <2>3
<1>7. CASE StartDelete
  <2>1. [NoJob EXCEPT !.op = "delete"] \in Job
    BY <1>1 DEF Job
  <2>2. QED
    BY <1>3, <1>4, <1>7, <2>1 DEF StartDelete
<1>8. CASE StartAdd
  <2>1. PICK k \in WPCounts \ {0} :
          \/ Refuse("failed") \/ Refuse("panic")
          \/ /\ Begin(FirstStage("wp", Info),
                      [NoJob EXCEPT !.op = "add", !.mem = Info, !.role = "wp",
                                    !.wps = k, !.base = Len(Info.inst["wp"])])
             /\ UNCHANGED <<cloud, disk>>
    BY <1>8 DEF StartAdd
  <2> DEFINE j == [NoJob EXCEPT !.op = "add", !.mem = Info, !.role = "wp",
                                !.wps = k, !.base = Len(Info.inst["wp"])]
  <2>2. Len(Info.inst["wp"]) \in Nat
    BY <1>1 DEF Config
  <2>3. j \in Job /\ j.mem = Info /\ j.got = NoID /\ j.role = "wp"
    BY <1>1, <2>2, CountsAssumption DEF Job
  <2>4. /\ Ahead(cloud, Info, FirstStage("wp", Info), j)
        /\ FirstStage("wp", Info) \in {"keygen", "newFirewall", "newInstance"}
    BY <1>1, <2>3, StageSets DEF Ahead, FileInv, NodeStage
  <2>5. QED
    BY <1>3, <1>5, <2>1, <2>3, <2>4
<1>9. CASE StartRemove
  <2>1. PICK k \in WPCounts \ {0} :
          \/ Refuse("failed") \/ Refuse("declined")
          \/ /\ Begin("dropWorker", [NoJob EXCEPT !.op = "remove", !.mem = Info, !.role = "wp", !.wps = k])
             /\ k <= Len(Info.inst["wp"]) /\ UNCHANGED <<cloud, disk>>
    BY <1>9 DEF StartRemove
  <2> DEFINE j == [NoJob EXCEPT !.op = "remove", !.mem = Info, !.role = "wp", !.wps = k]
             h == [j EXCEPT !.found = disk.file # "absent"]
  <2>2. CASE /\ Begin("dropWorker", j) /\ k <= Len(Info.inst["wp"]) /\ UNCHANGED <<cloud, disk>>
    <3>1. k \in Nat /\ k > 0
      BY CountsAssumption
    <3>2. j \in Job /\ j.mem = Info /\ j.got = NoID /\ j.n = 0 /\ j.wps = k
      BY <1>1, <3>1 DEF Job, NoJob
    <3>3. h.mem = Info /\ h.got = NoID /\ h.n = 0 /\ h.wps = k
      BY <3>2 DEF Job
    <3>4. FileInv' /\ Info' = Info
      BY <1>2, <2>2
    <3>5. job' = h /\ pc' = "dropWorker"
      BY <2>2 DEF Begin
    <3>6. CommandInv'
      BY <2>2, <3>1, <3>3, <3>4, <3>5
      DEF CommandInv, GotIsSaved, MemoryAhead, DeletesRecord, RemovesRecord,
          GoneWithNetwork, CreateStage, NodeStage, DeleteStage, RemoveStage
    <3>7. QED
      BY <3>4, <3>6, InvParts
  <2>3. QED
    BY <1>3, <2>1, <2>2
<1>10. QED
  BY <1>6, <1>7, <1>8, <1>9 DEF User

\* The cloud moves on while the command does not.
LEMMA RecordElsewhere ==
  ASSUME TypeOK, RecordInv, UNCHANGED <<disk, pc, job>>,
         \/ \E id : cloud' = Without(cloud, id)
         \/ \E id \in DOMAIN cloud : cloud' = Activated(cloud, id)
  PROVE  RecordInv'
<1>1. CloudOK(cloud) /\ FileInv /\ CommandInv
  BY JobType, InvParts
<1>2. FileInv' /\ Info' = Info
  BY <1>1, FileStays DEF Info
<1>3. DOMAIN cloud' \subseteq DOMAIN cloud
  BY DEF Without, Restrict, Activated
<1>4. ASSUME NEW stage, Ahead(cloud, Info, stage, job) PROVE Ahead(cloud', Info, stage, job)
  <2>1. Attached(cloud', job.mem)
    BY <1>1, <1>4, AttachedStays DEF Ahead
  <2>2. ASSUME AttachedTo(cloud, job.mem.networkID, job.got)
        PROVE  AttachedTo(cloud', job.mem.networkID, job.got)
    BY <1>1, <2>2, GotStays
  <2>3. QED
    BY <1>4, <2>1, <2>2 DEF Ahead
<1>5. CommandInv'
  BY <1>1, <1>2, <1>3, <1>4
  DEF CommandInv, GotIsSaved, MemoryAhead, DeletesRecord, RemovesRecord, GoneWithNetwork
<1>6. QED
  BY <1>2, <1>5, InvParts

LEMMA RecordStep ==
  ASSUME TypeOK, RecordInv, [Next]_vars
  PROVE  RecordInv'
<1>1. CASE Crash
  <2>1. \/ disk' \in {Torn} \cup PartlyRemoved
        \/ Info' = Info /\ disk'.file = disk.file
    BY <1>1 DEF Crash, Info, TypeOK, Disk
  <2>2. FileInv'
    BY <1>1, <2>1, FileStays, InvParts DEF Crash
  <2>3. QED
    BY <1>1, <2>2, ReturnInv, InvParts DEF Crash
<1>2. CASE Activate
  BY <1>2, RecordElsewhere DEF Activate
<1>3. CASE DeleteByHand
  BY <1>3, RecordElsewhere DEF DeleteByHand
<1>4. CASE UNCHANGED vars
  BY <1>4 DEF vars, RecordInv, NoFileNoRecord, GotIsSaved, MemoryAhead, DeletesRecord,
              RemovesRecord, GoneWithNetwork, Info
<1>5. QED
  BY <1>1, <1>2, <1>3, <1>4, RecordUser, RecordCreateStep, RecordDeleteStep, RecordRemoveStep
  DEF Next, Step

LEMMA RecordInit == Init => RecordInv
<1> SUFFICES ASSUME Init PROVE RecordInv
  OBVIOUS
<1>1. Info = EmptyConfig /\ pc = "idle" /\ job.got = NoID /\ DOMAIN cloud = {}
  BY DEF Init, Info, EmptyDisk, NoJob
<1>2. FileInv
  BY <1>1, EmptyRecord DEF FileInv, NoFileNoRecord, Attached, AttachedTo
<1>3. CommandInv
  BY <1>1 DEF CommandInv, GotIsSaved, MemoryAhead, DeletesRecord, RemovesRecord,
              GoneWithNetwork, CreateStage, NodeStage, DeleteStage, RemoveStage
<1>4. QED
  BY <1>2, <1>3, InvParts

\* The record in memory, the file and the cloud agree in every reachable
\* state, as far as each step of a command needs it.
THEOREM RecordKept == Spec => []RecordInv
<1>1. Init => RecordInv
  BY RecordInit
<1>2. TypeOK /\ RecordInv /\ [Next]_vars => RecordInv'
  BY RecordStep
<1>3. QED
  BY <1>1, <1>2, TypeCorrect, PTL DEF Spec

\* Whatever fails, every firewall and machine of info.json that exists is on
\* the network of info.json: what a deleted network vouches for.
THEOREM RecordedStayAttached == Spec => []RecordedAreAttached
<1>1. RecordInv => RecordedAreAttached
  BY DEF RecordInv, RecordedAreAttached, Attached, AttachedTo
<1>2. QED
  BY <1>1, RecordKept, PTL
==============================================================================
