-------------------------- MODULE CivoHALedger_proof --------------------------
(***************************************************************************)
(* CivoHA implements ResourceLedger, for all constants: when writes of the *)
(* state file are atomic and the cloud keeps a network that is in use.     *)
(***************************************************************************)
EXTENDS CivoHA_proof, FiniteSetTheorems

LedgerStep == [Ledger!LedgerNext]_(Ledger!ledgerVars)

-----------------------------------------------------------------------------
(* The steps of the ledger, in terms of the program                        *)

LEMMA IsStutter ==
  ASSUME DOMAIN cloud' = DOMAIN cloud, Recorded(Info') = Recorded(Info), Held' \in {Held, {}}
  PROVE  LedgerStep
<1>1. CASE Held' = Held
  BY <1>1 DEF LedgerStep, Ledger!ledgerVars
<1>2. CASE Held' = {}
  BY <1>2 DEF LedgerStep, Ledger!LedgerNext, Ledger!Abandon
<1>3. QED
  BY <1>1, <1>2

LEMMA IsCommit ==
  ASSUME cloud' = cloud, Recorded(Info') = Recorded(Info) \cup Held, Held' = {}
  PROVE  LedgerStep
BY DEF LedgerStep, Ledger!LedgerNext, Ledger!Commit

LEMMA IsRelease ==
  ASSUME NEW id \in Recorded(Info), Deleted(id), Recorded(Info') = Recorded(Info), Held' = Held
  PROVE  LedgerStep
<1>1. id \in DOMAIN cloud /\ DOMAIN cloud' = DOMAIN cloud \ {id}
  BY DEF Deleted, Without, Restrict
<1>2. QED
  BY <1>1 DEF LedgerStep, Ledger!LedgerNext, Ledger!Release

LEMMA IsStrike ==
  ASSUME cloud' = cloud, Recorded(Info') \subseteq Recorded(Info),
         (Recorded(Info) \ Recorded(Info')) \cap DOMAIN cloud = {}, Held' = Held
  PROVE  LedgerStep
BY DEF LedgerStep, Ledger!LedgerNext, Ledger!Strike

LEMMA IsAcquire ==
  ASSUME TypeOK, NEW id \in Fresh, NEW o, cloud' = With(cloud, id, o), Recorded(Info') = Recorded(Info),
         \/ Held' = Held \cup {id}
         \/ Held' \in {Held, {}}
  PROVE  LedgerStep
<1>1. DOMAIN cloud' = DOMAIN cloud \cup {id}
  BY DEF With
<1>2. id \in IDs \ (DOMAIN cloud \cup Recorded(Info) \cup Held)
  BY FreshIsNew DEF Held
<1>3. CASE Held' = Held \cup {id}
  BY <1>1, <1>2, <1>3 DEF LedgerStep, Ledger!LedgerNext, Ledger!Acquire
<1>4. CASE Held' \in {Held, {}}
  BY <1>1, <1>2, <1>4 DEF LedgerStep, Ledger!LedgerNext, Ledger!AcquireUnheard
<1>5. QED
  BY <1>3, <1>4
-----------------------------------------------------------------------------
(* What the process holds                                                  *)

\* A command that has ended holds nothing.
LEMMA ReturnHolds ==
  ASSUME NEW result, Return(result)
  PROVE  Held' = {}
BY EmptyRecord DEF Return, NoJob, Held

\* One that fails holds what it held, or nothing.
LEMMA FailHolds ==
  ASSUME Fail \/ UNCHANGED job \/ (\E result : Return(result)), Recorded(Info') = Recorded(Info)
  PROVE  Held' \in {Held, {}}
<1>1. CASE job' = job
  BY <1>1 DEF Held
<1>2. QED
  BY <1>1, ReturnHolds DEF Fail, Continue

\* A job whose record is the file's and that has nothing in hand.
LEMMA HoldsNothing ==
  ASSUME NEW j, j.got = NoID, NEW c, Recorded(j.mem) \subseteq Recorded(c)
  PROVE  /\ job = j /\ Info = c => Held = {}
         /\ job' = j /\ Info' = c => Held' = {}
BY DEF Held

\* The same record and the same identifier: the same is held.
LEMMA HoldsTheSame ==
  ASSUME NEW j, j.got = job.got, Recorded(j.mem) = Recorded(job.mem), job' = j, Recorded(Info') = Recorded(Info)
  PROVE  Held' = Held
BY DEF Held

LEMMA NextNodeHolds ==
  ASSUME NEW j \in Job, NextNode(j)
  PROVE  \/ Held' = {}
         \/ job'.mem = j.mem /\ job'.got = j.got
<1>1. CASE \E stage, r, n : Continue(stage, [j EXCEPT !.role = r, !.n = n])
  BY <1>1 DEF Continue, Job
<1>2. CASE \E stage, r : Continue(stage, [j EXCEPT !.role = r])
  BY <1>2 DEF Continue, Job
<1>3. CASE \E stage, n : Continue(stage, [j EXCEPT !.n = n])
  BY <1>3 DEF Continue, Job
<1>4. CASE \E stage : Continue(stage, j)
  BY <1>4 DEF Continue
<1>5. CASE \E result : Return(result)
  BY <1>5, ReturnHolds
<1>6. QED
  BY <1>1, <1>2, <1>3, <1>4, <1>5 DEF NextNode
-----------------------------------------------------------------------------
(* The steps of the program                                                *)

\* A step that looks, and goes on, fails or ends the command.
LEMMA LedgerLook ==
  ASSUME cloud' = cloud, Info' = Info,
         \/ Fail \/ UNCHANGED job \/ \E result : Return(result)
         \/ job'.got = job.got /\ job'.mem = job.mem
  PROVE  LedgerStep
<1>1. CASE job'.got = job.got /\ job'.mem = job.mem
  <2>1. Held' = Held
    BY <1>1 DEF Held
  <2>2. QED
    BY <2>1, IsStutter
<1>2. CASE Fail \/ UNCHANGED job \/ \E result : Return(result)
  BY <1>2, FailHolds, IsStutter
<1>3. QED
  BY <1>1, <1>2

LEMMA LedgerCreate ==
  ASSUME TypeOK, job.got = NoID, NEW o, NEW next, Create(o, next)
  PROVE  LedgerStep
<1>1. job \in Job
  BY JobType
<1>2. CASE \E id \in Fresh : /\ cloud' = With(cloud, id, o)
                            /\ Continue(next, [job EXCEPT !.got = id])
                            /\ UNCHANGED <<disk, strays>>
  <2>1. PICK id \in Fresh : /\ cloud' = With(cloud, id, o)
                            /\ job' = [job EXCEPT !.got = id]
                            /\ Info' = Info
    BY <1>2 DEF Continue, Info
  <2>2. job'.got = id /\ job'.mem = job.mem
    BY <1>1, <2>1 DEF Job
  <2>3. id # NoID /\ id \notin Recorded(Info)
    BY FreshIsNew
  <2>4. Held' = Held \cup {id}
    BY <2>1, <2>2, <2>3 DEF Held
  <2>5. QED
    BY <2>1, <2>4, IsAcquire
<1>3. CASE Fail /\ UNCHANGED <<cloud, disk, strays>>
  BY <1>3, LedgerLook DEF Info
<1>4. CASE (\E id \in Fresh : cloud' = With(cloud, id, o)) /\ Stray(1) /\ Fail /\ UNCHANGED disk
  <2>1. Info' = Info
    BY <1>4 DEF Info
  <2>2. Held' \in {Held, {}}
    BY <1>4, <2>1, FailHolds
  <2>3. QED
    BY <1>4, <2>1, <2>2, IsAcquire
<1>5. QED
  BY <1>2, <1>3, <1>4 DEF Create

\* A save that succeeds commits everything that is held.
LEMMA LedgerSave ==
  ASSUME TypeOK, NEW c, SaveSucceeds(c), Recorded(Info) \subseteq Recorded(job.mem),
         Recorded(c) = (Recorded(job.mem) \cup {job.got}) \ {NoID},
         Held' = {} \/ (job'.mem = c /\ job'.got = NoID)
  PROVE  LedgerStep
<1>1. Info' = c /\ cloud' = cloud
  BY DEF SaveSucceeds, Saved, Info, TypeOK, Disk
<1>2. Recorded(Info') = Recorded(Info) \cup Held
  BY <1>1 DEF Held, Recorded
<1>3. Held' = {}
  BY <1>1 DEF Held
<1>4. QED
  BY <1>1, <1>2, <1>3, IsCommit

\* One that fails leaves the ledger as it was, and the process goes on with
\* what it holds or forgets it.
LEMMA LedgerNoSave ==
  ASSUME "torn" \notin Faults, NEW k, SaveFails(k),
         Fail \/ (Held' = {} \/ ({job'.got} \cup Recorded(job'.mem)) \ {NoID} = ({job.got} \cup Recorded(job.mem)) \ {NoID})
  PROVE  LedgerStep
<1>1. cloud' = cloud /\ Info' = Info
  BY DEF SaveFails, NotSaved, Fault, Info
<1>2. Held' \in {Held, {}}
  BY <1>1, FailHolds DEF Held
<1>3. QED
  BY <1>1, <1>2, IsStutter

LEMMA LedgerCreateStep ==
  ASSUME "torn" \notin Faults, TypeOK, RecordInv, CreateStep
  PROVE  LedgerStep
<1>1. /\ job \in Job /\ job.mem \in Config /\ job.got \in Nat /\ job.role \in Role
      /\ NoID \in Nat /\ disk \in Disk /\ FileInv /\ CommandInv
  BY JobType, InvParts
<1>2. pc \in CreateStage \cup NodeStage => Ahead(cloud, Info, pc, job)
  BY <1>1 DEF CommandInv, MemoryAhead
<1>3. pc \notin {"saveKey", "saveNetwork", "saveFirewall", "saveInstance", "guard"} => job.got = NoID
  BY <1>1 DEF CommandInv, GotIsSaved
<1>4. pc \in CreateStage \cup NodeStage => Recorded(Info) \subseteq Recorded(job.mem)
  BY <1>2 DEF Ahead
<1>5. CASE Keygen
  BY <1>1, <1>5, LedgerLook DEF Keygen, Continue, Info, Disk
<1>6. CASE CreateSSHKeyPair
  BY <1>3, <1>6, LedgerCreate DEF CreateSSHKeyPair
<1>7. CASE SaveSSHID
  <2> DEFINE c == ConfigWriterSSHID(job.mem, job.got)
  <2>1. pc = "saveKey" /\ job.mem = EmptyConfig
    BY <1>2, <1>7 DEF SaveSSHID, CreateStage, Ahead
  <2>2. Recorded(c) = (Recorded(job.mem) \cup {job.got}) \ {NoID}
    BY <1>1, <2>1, WriterRecords DEF EmptyConfig
  <2>3. CASE SaveSucceeds(c) /\ Continue("newNetwork", [job EXCEPT !.mem = c, !.key = job.got, !.got = NoID])
    <3>1. job'.mem = c /\ job'.got = NoID
      BY <1>1, <2>3 DEF Continue, Job
    <3>2. QED
      BY <1>4, <2>1, <2>2, <2>3, <3>1, LedgerSave DEF CreateStage
  <2>4. QED
    BY <1>7, <2>3, LedgerNoSave DEF SaveSSHID
<1>8. CASE CreateNetwork
  BY <1>3, <1>8, LedgerCreate DEF CreateNetwork
<1>9. CASE SaveNetworkID
  <2> DEFINE c == ConfigWriterNetworkID(job.mem, job.got)
  <2>1. pc = "saveNetwork" /\ job.mem.networkID = NoID
    BY <1>2, <1>9 DEF SaveNetworkID, CreateStage, Ahead
  <2>2. Recorded(c) = (Recorded(job.mem) \cup {job.got}) \ {NoID}
    BY <1>1, <2>1, WriterRecords
  <2>3. CASE SaveSucceeds(c) /\ Continue("newFirewall", [job EXCEPT !.mem = c, !.got = NoID, !.role = "db"])
    <3>1. job'.mem = c /\ job'.got = NoID
      BY <1>1, <2>3 DEF Continue, Job
    <3>2. QED
      BY <1>4, <2>1, <2>2, <2>3, <3>1, LedgerSave DEF CreateStage
  <2>4. QED
    BY <1>9, <2>3, LedgerNoSave DEF SaveNetworkID
<1>10. CASE CreateFirewall
  BY <1>3, <1>10, LedgerCreate DEF CreateFirewall
<1>11. ASSUME NEW c \in Config, Recorded(c) = (Recorded(job.mem) \cup {job.got}) \ {NoID},
              pc \in NodeStage,
              \/ \E stage : SaveSucceeds(c) /\ Continue(stage, [job EXCEPT !.mem = c, !.got = NoID])
              \/ SaveFails(1) /\ NextNode(NodeMissing(c))
       PROVE  LedgerStep
  <2>1. CASE \E stage : SaveSucceeds(c) /\ Continue(stage, [job EXCEPT !.mem = c, !.got = NoID])
    <3>1. job'.mem = c /\ job'.got = NoID
      BY <1>1, <2>1 DEF Continue, Job
    <3>2. QED
      BY <1>4, <1>11, <2>1, <3>1, LedgerSave
  <2>2. CASE SaveFails(1) /\ NextNode(NodeMissing(c))
    <3>1. NodeMissing(c) \in Job /\ NodeMissing(c).mem = c /\ NodeMissing(c).got = NoID
      BY <1>1, <1>11 DEF NodeMissing, Job
    <3>2. Held' = {} \/ (job'.mem = c /\ job'.got = NoID)
      BY <2>2, <3>1, NextNodeHolds
    <3>3. QED
      BY <1>11, <2>2, <3>2, LedgerNoSave
  <2>3. QED
    BY <1>11, <2>1, <2>2
<1>12. CASE SaveFirewall
  <2> DEFINE c == ConfigWriterFirewall(job.mem, job.role, job.got)
  <2>1. pc = "saveFirewall" /\ job.mem.fw[job.role] = NoID
    BY <1>2, <1>12 DEF SaveFirewall, NodeStage, Ahead
  <2>2. c \in Config /\ Recorded(c) = (Recorded(job.mem) \cup {job.got}) \ {NoID}
    BY <1>1, <2>1, WriterRecords, WriterTypes
  <2>3. QED
    BY <1>11, <1>12, <2>1, <2>2 DEF SaveFirewall, NodeStage
<1>13. CASE CreateInstance
  BY <1>3, <1>13, LedgerCreate DEF CreateInstance
<1>14. CASE SaveInstance
  <2> DEFINE c == ConfigWriterInstance(job.mem, job.role, job.got)
  <2>1. c \in Config /\ Recorded(c) = (Recorded(job.mem) \cup {job.got}) \ {NoID}
    BY <1>1, WriterRecords, WriterTypes
  <2>2. QED
    BY <1>11, <1>14, <2>1 DEF SaveInstance, NodeStage
<1>15. CASE Boot
  <2>1. cloud' = cloud /\ Info' = Info
    BY <1>15 DEF Boot, Info
  <2>2. CASE NextNode(job)
    BY <1>1, <2>1, <2>2, NextNodeHolds, LedgerLook, IsStutter
  <2>3. QED
    BY <1>15, <2>1, <2>2, LedgerLook DEF Boot, Continue
<1>16. CASE SaveEndpoint
  <2> DEFINE c == ConfigWriterDBEndpoint(job.mem)
             j == [job EXCEPT !.mem = c]
  <2>1. pc = "saveEndpoint" /\ job.got = NoID
    BY <1>3, <1>16 DEF SaveEndpoint
  <2>2. c \in Config /\ Recorded(c) = (Recorded(job.mem) \cup {job.got}) \ {NoID}
    BY <1>1, <2>1, WriterRecords, WriterTypes DEF Recorded
  <2>3. CASE SaveSucceeds(c) /\ NextNode(j)
    <3>1. j \in Job /\ j.mem = c /\ j.got = NoID
      BY <1>1, <2>1, <2>2 DEF Job
    <3>2. Held' = {} \/ (job'.mem = c /\ job'.got = NoID)
      BY <2>3, <3>1, NextNodeHolds
    <3>3. QED
      BY <1>4, <2>1, <2>2, <2>3, <3>2, LedgerSave DEF NodeStage
  <2>4. QED
    BY <1>16, <2>3, LedgerNoSave DEF SaveEndpoint
<1>17. CASE ConfigLoadBalancer
  <2>1. cloud' = cloud /\ Info' = Info
    BY <1>17 DEF ConfigLoadBalancer, ScriptRuns, ScriptFails, Info
  <2>2. [job EXCEPT !.n = 0].got = job.got /\ [job EXCEPT !.n = 0].mem = job.mem
    BY <1>1 DEF Job
  <2>3. QED
    BY <1>17, <2>1, <2>2, LedgerLook DEF ConfigLoadBalancer, Continue
<1>18. CASE ConfigControlPlane
  <2>1. cloud' = cloud /\ Info' = Info
    BY <1>18 DEF ConfigControlPlane, ScriptRuns, ScriptFails, Info
  <2>2. [job EXCEPT !.n = @ + 1].got = job.got /\ [job EXCEPT !.n = @ + 1].mem = job.mem
    BY <1>1 DEF Job
  <2>3. QED
    BY <1>18, <2>1, <2>2, LedgerLook DEF ConfigControlPlane, Continue
<1>19. CASE SaveToken
  <2> DEFINE c == ConfigWriterServerToken(job.mem)
             j == [job EXCEPT !.mem = c, !.n = 1]
  <2>1. pc = "saveToken" /\ job.got = NoID
    BY <1>3, <1>19 DEF SaveToken
  <2>2. c \in Config /\ Recorded(c) = (Recorded(job.mem) \cup {job.got}) \ {NoID}
    BY <1>1, <2>1, WriterRecords, WriterTypes DEF Recorded
  <2>3. CASE SaveSucceeds(c) /\ Continue("configCP", j)
    <3>1. job'.mem = c /\ job'.got = NoID
      BY <1>1, <2>1, <2>3 DEF Continue, Job
    <3>2. QED
      BY <1>4, <2>1, <2>2, <2>3, <3>1, LedgerSave DEF CreateStage
  <2>4. QED
    BY <1>19, <2>3, LedgerNoSave DEF SaveToken
<1>20. CASE SaveKubeconfig
  <2> DEFINE j == [job EXCEPT !.role = "wp", !.n = 0]
  <2>1. cloud' = cloud /\ Info' = Info
    BY <1>1, <1>20 DEF SaveKubeconfig, Info, Disk
  <2>2. j.got = job.got /\ j.mem = job.mem
    BY <1>1 DEF Job
  <2>3. QED
    BY <1>20, <2>1, <2>2, LedgerLook DEF SaveKubeconfig, Continue
<1>21. QED
  BY <1>5, <1>6, <1>7, <1>8, <1>9, <1>10, <1>12, <1>13, <1>14, <1>15, <1>16, <1>17, <1>18,
     <1>19, <1>20 DEF CreateStep

\* A call that deletes an object of the ledger, by a process that holds
\* nothing before and after.
LEMMA LedgerDelete ==
  ASSUME TypeOK, UNCHANGED disk, Held = {}, Held' = {}, NEW id,
         Deleted(id) \/ NotThere(id) \/ DeleteFails(id) \/ UNCHANGED cloud,
         id \in Recorded(Info) \cup {NoID}
  PROVE  LedgerStep
<1>1. Info' = Info
  BY DEF Info
<1>2. CASE Deleted(id)
  <2>1. id # NoID
    BY <1>2, IDsAssumption DEF Deleted, TypeOK
  <2>2. QED
    BY <1>1, <1>2, <2>1, IsRelease
<1>3. CASE UNCHANGED cloud
  BY <1>1, <1>3, IsStutter
<1>4. QED
  BY <1>2, <1>3 DEF NotThere, DeleteFails

\* What may be taken off the disk at the end of a deletion.
LEMMA LedgerRemove ==
  ASSUME TypeOK, RecordInv, NetworkHeld, pc = "delPaths", cloud' = cloud, Held' = {},
         disk' \in PartlyRemoved \cup {EmptyDisk}
  PROVE  LedgerStep
<1>1. FileInv /\ CommandInv
  BY InvParts
<1>2. job.mem = Info /\ job.got = NoID
  BY <1>1 DEF CommandInv, DeletesRecord, GotIsSaved, DeleteStage
<1>3. Held = {}
  BY <1>2, HoldsNothing
<1>4. Recorded(Info) \cap DOMAIN cloud = {}
  BY <1>1 DEF CommandInv, GoneWithNetwork, Recorded
<1>5. Info' = Info \/ Info' = EmptyConfig
  BY OldRecordOrNone DEF Info
<1>6. QED
  BY <1>3, <1>4, <1>5, EmptyRecord, IsStrike

LEMMA LedgerDeleteStep ==
  ASSUME NetworkHeld, TypeOK, RecordInv, DeleteStep
  PROVE  LedgerStep
<1>1. /\ job \in Job /\ job.n \in Nat /\ job.role \in Role /\ Info \in Config
      /\ FileInv /\ CommandInv
  BY JobType, InvParts
<1>2. ASSUME pc \in DeleteStage \ {"guard"}
      PROVE  job.mem = Info /\ job.key = Info.sshID /\ job.got = NoID /\ Held = {}
  <2>1. job.mem = Info /\ job.key = Info.sshID /\ job.got = NoID
    BY <1>1, <1>2 DEF CommandInv, DeletesRecord, GotIsSaved, DeleteStage
  <2>2. QED
    BY <2>1, HoldsNothing
<1>3. ASSUME UNCHANGED disk, NEW j, job' = j, j.mem = Info, j.got = NoID
      PROVE  Held' = {}
  BY <1>3, HoldsNothing DEF Info
<1>4. CASE LoadForDelete
  <2> DEFINE j == [NoJob EXCEPT !.op = job.op, !.found = job.found,
                                !.mem = Info, !.key = Info.sshID, !.role = "cp"]
  <2>1. j.mem = Info /\ j.got = NoID
    BY DEF NoJob
  <2>2. UNCHANGED <<cloud, disk>>
    BY <1>4 DEF LoadForDelete
  <2>3. CASE Continue("delInstances", j)
    <3>1. Held' = {}
      BY <1>3, <2>1, <2>2, <2>3 DEF Continue
    <3>2. QED
      BY <2>2, <3>1, IsStutter DEF Info
  <2>4. CASE Return("failed")
    BY <2>2, <2>4, LedgerLook DEF Info
  <2>5. QED
    BY <1>4, <2>3, <2>4 DEF LoadForDelete
<1>5. CASE DeleteInstance
  <2> DEFINE id == job.mem.inst[job.role][job.n + 1]
  <2>1. PICK err :
          /\ Deleted(id) \/ NotThere(id) \/ DeleteFails(id)
          /\ Continue("delInstances", [job EXCEPT !.n = @ + 1, !.err = err])
          /\ UNCHANGED disk /\ pc = "delInstances"
          /\ job.n < Len(job.mem.inst[job.role])
    BY <1>5 DEF DeleteInstance
  <2> DEFINE j == [job EXCEPT !.n = @ + 1, !.err = err]
  <2>2. job.mem = Info /\ job.got = NoID /\ Held = {}
    BY <1>2, <2>1 DEF DeleteStage
  <2>3. j.mem = Info /\ j.got = NoID
    BY <1>1, <2>2 DEF Job
  <2>4. Held' = {}
    BY <1>3, <2>1, <2>3 DEF Continue
  <2>5. id \in Instances(Info)
    <3>1. Info.inst[job.role] \in Seq(Nat)
      BY <1>1 DEF Config
    <3>2. job.n + 1 \in DOMAIN Info.inst[job.role]
      BY <1>1, <2>1, <2>2, <3>1, LenProperties
    <3>3. id \in ToSet(Info.inst[job.role])
      BY <2>2, <3>2 DEF ToSet
    <3>4. QED
      BY <1>1, <3>3 DEF Instances
  <2>6. id \in Recorded(Info) \cup {NoID}
    BY <2>5 DEF Recorded
  <2>7. QED
    BY <2>1, <2>2, <2>4, <2>6, LedgerDelete
<1>6. CASE EndOfGroup
  <2>1. UNCHANGED <<cloud, disk>> /\ Info' = Info
    BY <1>6 DEF EndOfGroup, Info
  <2>2. \/ \E result : Return(result)
        \/ job'.got = job.got /\ job'.mem = job.mem
    BY <1>1, <1>6 DEF EndOfGroup, Continue, Job
  <2>3. QED
    BY <2>1, <2>2, LedgerLook
<1>7. CASE DeleteFirewall
  <2> DEFINE id == job.mem.fw[FirewallOrder[job.n]]
  <2>1. /\ Deleted(id) \/ NotThere(id) \/ DeleteFails(id) \/ UNCHANGED cloud
        /\ UNCHANGED disk /\ pc = "delFirewalls"
    BY <1>7 DEF DeleteFirewall
  <2>2. job.mem = Info /\ job.got = NoID /\ Held = {}
    BY <1>2, <2>1 DEF DeleteStage
  <2>3. job.n \in DOMAIN FirewallOrder
    BY <1>1, <2>1 DEF CommandInv, DeletesRecord, DeleteStage
  <2>4. id \in Firewalls(Info) \cup {NoID}
    BY <2>2, <2>3 DEF Firewalls, FirewallOrder, Role
  <2>5. job'.mem = Info /\ job'.got = NoID
    BY <1>1, <1>7, <2>2 DEF DeleteFirewall, Continue, Job
  <2>6. Held' = {}
    BY <1>3, <2>1, <2>5
  <2>7. id \in Recorded(Info) \cup {NoID}
    BY <2>4 DEF Recorded
  <2>8. QED
    BY <2>1, <2>2, <2>6, <2>7, LedgerDelete
<1>8. CASE DeleteNetwork
  <2>1. /\ Deleted(job.mem.networkID) \/ UNCHANGED cloud
        /\ UNCHANGED disk /\ pc = "delNetwork"
    BY <1>8 DEF DeleteNetwork
  <2>2. job.mem = Info /\ job.got = NoID /\ Held = {}
    BY <1>2, <2>1 DEF DeleteStage
  <2>3. (\E result : Return(result)) \/ (job'.mem = Info /\ job'.got = NoID)
    BY <1>1, <1>8, <2>2 DEF DeleteNetwork, Continue, Retried, Job
  <2>4. Held' = {}
    BY <1>3, <2>1, <2>3, ReturnHolds
  <2>5. QED
    BY <2>1, <2>2, <2>4, LedgerDelete DEF Recorded
<1>9. CASE DeleteSSHKeyPair
  <2>1. /\ Deleted(job.key) \/ NotThere(job.key) \/ DeleteFails(job.key)
        /\ UNCHANGED disk /\ pc = "delKey"
        /\ (\E result : Return(result)) \/ UNCHANGED job
    BY <1>9 DEF DeleteSSHKeyPair, Continue
  <2>2. job.mem = Info /\ job.key = Info.sshID /\ job.got = NoID /\ Held = {}
    BY <1>2, <2>1 DEF DeleteStage
  <2>3. Held' = {}
    BY <1>3, <2>1, <2>2, ReturnHolds
  <2>4. QED
    BY <2>1, <2>2, <2>3, LedgerDelete DEF Recorded
<1>10. CASE DeleteAllPaths
  BY <1>10, ReturnHolds, LedgerRemove DEF DeleteAllPaths
<1>11. QED
  BY <1>4, <1>5, <1>6, <1>7, <1>8, <1>9, <1>10 DEF DeleteStep

LEMMA LedgerRemoveStep ==
  ASSUME "torn" \notin Faults, TypeOK, RecordInv, RemoveStep
  PROVE  LedgerStep
<1>1. /\ job \in Job /\ job.n \in Nat /\ job.wps \in Nat /\ Info \in Config /\ disk \in Disk
      /\ CommandInv
  BY JobType, InvParts
<1>2. /\ job.n < job.wps /\ job.wps - job.n <= Len(Info.inst["wp"])
      /\ pc = "dropWorker" => job.mem = Info
      /\ pc = "saveDrop" => /\ job.mem = DropLastWorker(Info)
                            /\ Last(Info.inst["wp"]) \notin DOMAIN cloud
      /\ job.got = NoID
  BY <1>1 DEF RemoveStep, DropWorker, SaveDrop, CommandInv, RemovesRecord, GotIsSaved, RemoveStage
<1>3. Info.inst["wp"] # << >>
  BY <1>1, <1>2 DEF Config, Role
<1> DEFINE c == DropLastWorker(Info)
           w == Last(Info.inst["wp"])
<1>4. /\ Recorded(c) \subseteq Recorded(Info) /\ Recorded(Info) \subseteq Recorded(c) \cup {w}
      /\ w \in Instances(Info)
  BY <1>1, <1>3, DropRecords
<1>5. CASE DropWorker
  <2>1. pc = "dropWorker" /\ job.mem = Info /\ UNCHANGED disk
    BY <1>2, <1>5 DEF DropWorker
  <2>2. Held = {}
    BY <1>2, <2>1, HoldsNothing
  <2>3. Deleted(w) \/ NotThere(w) \/ DeleteFails(w)
    BY <1>5, <2>1 DEF DropWorker, NewestWorker
  <2>4. Held' = {}
    <3>1. CASE Fail
      BY <2>1, <2>2, <3>1, FailHolds DEF Info
    <3>2. CASE Continue("saveDrop", [job EXCEPT !.mem = DropLastWorker(@)])
      <4>1. job'.mem = c /\ job'.got = NoID
        BY <1>1, <1>2, <2>1, <3>2 DEF Continue, Job
      <4>2. QED
        BY <1>4, <2>1, <4>1 DEF Held, Info
    <3>3. QED
      BY <1>5, <3>1, <3>2 DEF DropWorker
  <2>5. w \in Recorded(Info) \cup {NoID}
    BY <1>4 DEF Recorded
  <2>6. QED
    BY <2>1, <2>2, <2>3, <2>4, <2>5, LedgerDelete
<1>6. CASE SaveDrop
  <2>1. pc = "saveDrop" /\ job.mem = c /\ w \notin DOMAIN cloud
    BY <1>2, <1>6 DEF SaveDrop
  <2>2. CASE SaveFails(0) /\ Fail
    BY <2>2, LedgerNoSave
  <2>3. CASE SaveSucceeds(c) /\ ((\E result : Return(result)) \/ \E stage : Continue(stage, [job EXCEPT !.n = @ + 1]))
    <3>1. Info' = c /\ cloud' = cloud
      BY <1>1, <2>3 DEF SaveSucceeds, Saved, Info, Disk
    <3>2. Held = {}
      BY <1>2, <1>4, <2>1, HoldsNothing
    <3>3. Held' = {}
      <4>1. CASE \E stage : Continue(stage, [job EXCEPT !.n = @ + 1])
        <5>1. job'.mem = c /\ job'.got = NoID
          BY <1>1, <1>2, <2>1, <4>1 DEF Continue, Job
        <5>2. QED
          BY <3>1, <5>1, HoldsNothing
      <4>2. QED
        BY <2>3, <4>1, ReturnHolds
    <3>4. QED
      BY <1>4, <2>1, <3>1, <3>2, <3>3, IsStrike
  <2>4. QED
    BY <1>6, <2>1, <2>2, <2>3 DEF SaveDrop
<1>7. QED
  BY <1>5, <1>6 DEF RemoveStep

\* A command begins with nothing in hand and with the record of the file, or
\* an empty one.
LEMMA LedgerUser ==
  ASSUME TypeOK, User
  PROVE  LedgerStep
<1>1. NoJob \in Job /\ NoJob.got = NoID /\ NoJob.mem = EmptyConfig
  BY TypeParts, ControlTypes DEF NoJob, JobOK
<1>2. UNCHANGED <<cloud, disk>> /\ Info' = Info
  BY DEF User, StartCreate, StartDelete, StartAdd, StartRemove, Refuse, Info
<1>3. \/ UNCHANGED job
      \/ job'.got = NoID /\ job'.mem \in {Info, EmptyConfig}
  <2>1. ASSUME NEW stage, NEW j \in Job, Begin(stage, j) PROVE job'.got = j.got /\ job'.mem = j.mem
    BY <2>1 DEF Begin, Job
  <2>2. CASE StartCreate
    <3>1. PICK cps \in CPCounts, wps \in WPCounts :
            \/ UNCHANGED job
            \/ Begin("guard", [NoJob EXCEPT !.op = "create", !.cps = cps, !.wps = wps])
            \/ Begin("keygen", [NoJob EXCEPT !.op = "create", !.cps = cps, !.wps = wps])
      BY <2>2 DEF StartCreate, Refuse
    <3> DEFINE j == [NoJob EXCEPT !.op = "create", !.cps = cps, !.wps = wps]
    <3>2. j \in Job /\ j.got = NoID /\ j.mem = EmptyConfig
      BY <1>1, CountsAssumption DEF Job
    <3>3. QED
      BY <2>1, <3>1, <3>2
  <2>3. CASE StartDelete
    <3> DEFINE j == [NoJob EXCEPT !.op = "delete"]
    <3>1. j \in Job /\ j.got = NoID /\ j.mem = EmptyConfig
      BY <1>1 DEF Job
    <3>2. QED
      BY <2>1, <2>3, <3>1 DEF StartDelete, Refuse
  <2>4. CASE StartAdd
    <3>1. PICK k \in WPCounts \ {0} :
            \/ UNCHANGED job
            \/ Begin(FirstStage("wp", Info), [NoJob EXCEPT !.op = "add", !.mem = Info, !.role = "wp",
                                                          !.wps = k, !.base = Len(Info.inst["wp"])])
      BY <2>4 DEF StartAdd, Refuse
    <3> DEFINE j == [NoJob EXCEPT !.op = "add", !.mem = Info, !.role = "wp",
                                  !.wps = k, !.base = Len(Info.inst["wp"])]
    <3>2. Info \in Config /\ "wp" \in Role /\ Len(Info.inst["wp"]) \in Nat
      BY JobType DEF Config, Role
    <3>3. j \in Job /\ j.got = NoID /\ j.mem = Info
      BY <1>1, <3>2, CountsAssumption DEF Job
    <3>4. QED
      BY <2>1, <3>1, <3>3
  <2>5. CASE StartRemove
    <3>1. PICK k \in WPCounts \ {0} :
            UNCHANGED job \/ Begin("dropWorker", [NoJob EXCEPT !.op = "remove", !.mem = Info, !.role = "wp", !.wps = k])
      BY <2>5 DEF StartRemove, Refuse
    <3> DEFINE j == [NoJob EXCEPT !.op = "remove", !.mem = Info, !.role = "wp", !.wps = k]
    <3>2. Info \in Config /\ "wp" \in Role
      BY JobType DEF Role
    <3>3. j \in Job /\ j.got = NoID /\ j.mem = Info
      BY <1>1, <3>2, CountsAssumption DEF Job
    <3>4. QED
      BY <2>1, <3>1, <3>3
  <2>6. QED
    BY <2>2, <2>3, <2>4, <2>5 DEF User
<1>4. CASE UNCHANGED job
  BY <1>2, <1>4, LedgerLook
<1>5. CASE job'.got = NoID /\ job'.mem \in {Info, EmptyConfig}
  <2>1. Held' = {}
    BY <1>2, <1>5, EmptyRecord DEF Held
  <2>2. QED
    BY <1>2, <2>1, IsStutter
<1>6. QED
  BY <1>3, <1>4, <1>5

\* A killed process forgets what it holds; the file is whole.
LEMMA LedgerCrash ==
  ASSUME "torn" \notin Faults, NetworkHeld, TypeOK, RecordInv, Crash
  PROVE  LedgerStep
<1>1. cloud' = cloud /\ Held' = {}
  BY ReturnHolds DEF Crash
<1>2. CASE pc = "delPaths" /\ disk' \in PartlyRemoved
  BY <1>1, <1>2, LedgerRemove
<1>3. CASE Info' = Info
  BY <1>1, <1>3, IsStutter
<1>4. QED
  BY <1>2, <1>3 DEF Crash, Fault, Info, TypeOK, Disk

LEMMA LedgerVanish ==
  ASSUME DeleteByHand
  PROVE  LedgerStep
<1>1. Held' = Held /\ Recorded(Info') = Recorded(Info)
  BY DEF DeleteByHand, Held, Info
<1>2. PICK id \in DOMAIN cloud : DOMAIN cloud' = DOMAIN cloud \ {id}
  BY DEF DeleteByHand, Without, Restrict
<1>3. QED
  BY <1>1, <1>2 DEF LedgerStep, Ledger!LedgerNext, Ledger!Vanish, DeleteByHand, Fault

LEMMA LedgerKept ==
  ASSUME "torn" \notin Faults, NetworkHeld, TypeOK, RecordInv, [Next]_vars
  PROVE  LedgerStep
<1>1. CASE Activate
  <2>1. DOMAIN cloud' = DOMAIN cloud
    BY <1>1 DEF Activate, Activated
  <2>2. Held' = Held /\ Recorded(Info') = Recorded(Info)
    BY <1>1 DEF Activate, Held, Info
  <2>3. QED
    BY <2>1, <2>2, IsStutter
<1>2. CASE UNCHANGED vars
  BY <1>2, LedgerLook DEF vars, Info
<1>3. QED
  BY <1>1, <1>2, LedgerUser, LedgerCreateStep, LedgerDeleteStep, LedgerRemoveStep, LedgerCrash,
     LedgerVanish DEF Next, Step

\* The commands implement the ledger when info.json is written atomically
\* and the cloud refuses to delete a network that is in use: whatever calls
\* fail, replies get lost or processes are killed, what is deleted was on
\* record, what is struck off is gone, and a save names all that is known.
THEOREM LedgerImplemented ==
  ASSUME "torn" \notin Faults, NetworkHeld
  PROVE  Spec => KeepsLedger
<1>1. Init => Ledger!LedgerInit
  <2> SUFFICES ASSUME Init PROVE Ledger!LedgerInit
    OBVIOUS
  <2>1. DOMAIN cloud = {} /\ Recorded(Info) = {}
    BY EmptyRecord DEF Init, Info, EmptyDisk
  <2>2. Held = {}
    BY EmptyRecord DEF Init, NoJob, Held
  <2>3. QED
    BY <2>1, <2>2 DEF Ledger!LedgerInit
<1>2. TypeOK /\ RecordInv /\ [Next]_vars => [Ledger!LedgerNext]_(Ledger!ledgerVars)
  BY LedgerKept DEF LedgerStep
<1>3. QED
  BY <1>1, <1>2, TypeCorrect, RecordKept, PTL DEF Spec, KeepsLedger, Ledger!LedgerSpec

\* What a step strikes off does not exist after it.
LEMMA OnlyDeadStruckOff ==
  ASSUME "torn" \notin Faults, NetworkHeld, TypeOK, RecordInv, [Next]_vars
  PROVE  \A id \in Recorded(Info) \ Recorded(Info') : id \notin DOMAIN cloud'
<1>1. LedgerStep
  BY LedgerKept
<1>2. ASSUME NEW id \in Recorded(Info) \ Recorded(Info') PROVE id \notin DOMAIN cloud'
  <2>1. Recorded(Info') # Recorded(Info)
    BY <1>2
  <2>2. Ledger!Commit \/ Ledger!Strike
    BY <1>1, <2>1
    DEF LedgerStep, Ledger!ledgerVars, Ledger!LedgerNext, Ledger!Acquire, Ledger!AcquireUnheard,
        Ledger!Release, Ledger!Abandon, Ledger!Vanish
  <2>3. QED
    BY <1>2, <2>2 DEF Ledger!Commit, Ledger!Strike
<1>3. QED
  BY <1>2

\* Under the same conditions no step of a command, no failure and no crash
\* takes an identifier out of info.json while its object exists.
THEOREM LiveIsRemembered ==
  ASSUME "torn" \notin Faults, NetworkHeld
  PROVE  Spec => NeverForgetsLive
<1>1. TypeOK /\ RecordInv /\ [Next]_vars
      => [\A id \in Recorded(Info) \ Recorded(Info') : id \notin DOMAIN cloud']_vars
  BY OnlyDeadStruckOff
<1>2. QED
  BY <1>1, TypeCorrect, RecordKept, PTL DEF Spec, NeverForgetsLive
-----------------------------------------------------------------------------
(* The objects that are off the record                                     *)

GotStage == {"saveKey", "saveNetwork", "saveFirewall", "saveInstance"}

\* What a process is about to write down is not astray yet; what it gave up
\* after a failed save is, although it still holds it.
InHand == IF pc \in GotStage THEN {job.got} ELSE {}
Astray == DOMAIN cloud \ (Recorded(Info) \cup InHand)

StraysCounted == IsFiniteSet(Astray) /\ Cardinality(Astray) <= strays

\* A step that leaves at most k objects more astray and counts k.
CountsStrays ==
  \/ Astray' \subseteq Astray /\ strays' \in {strays, strays + 1}
  \/ (\E id : Astray' \subseteq Astray \cup {id}) /\ strays' = strays + 1

LEMMA CountingKeepsCount ==
  ASSUME TypeOK, StraysCounted, CountsStrays
  PROVE  StraysCounted'
<1>1. IsFiniteSet(Astray) /\ Cardinality(Astray) \in Nat /\ Cardinality(Astray) <= strays /\ strays \in Nat
  BY FS_CardinalityType DEF StraysCounted, TypeOK
<1>2. CASE Astray' \subseteq Astray /\ strays' \in {strays, strays + 1}
  <2>1. IsFiniteSet(Astray') /\ Cardinality(Astray') <= Cardinality(Astray)
    BY <1>1, <1>2, FS_Subset
  <2>2. Cardinality(Astray') \in Nat
    BY <2>1, FS_CardinalityType
  <2>3. QED
    BY <1>1, <1>2, <2>1, <2>2 DEF StraysCounted
<1>3. ASSUME NEW id, Astray' \subseteq Astray \cup {id}, strays' = strays + 1
      PROVE  StraysCounted'
  <2>1. /\ IsFiniteSet(Astray \cup {id})
        /\ Cardinality(Astray \cup {id}) \in {Cardinality(Astray), Cardinality(Astray) + 1}
    BY <1>1, FS_AddElement
  <2>2. IsFiniteSet(Astray') /\ Cardinality(Astray') <= Cardinality(Astray \cup {id})
    BY <1>3, <2>1, FS_Subset
  <2>3. Cardinality(Astray') \in Nat
    BY <2>2, FS_CardinalityType
  <2>4. QED
    BY <1>1, <1>3, <2>1, <2>2, <2>3 DEF StraysCounted
<1>4. QED
  BY <1>2, <1>3 DEF CountsStrays

\* No live object is struck off: then only what was in hand can be newly astray.
LEMMA AstrayGrows ==
  ASSUME \A id \in Recorded(Info) \ Recorded(Info') : id \notin DOMAIN cloud'
  PROVE  Astray' \subseteq Astray \cup InHand \cup (DOMAIN cloud' \ DOMAIN cloud)
BY DEF Astray

LEMMA AstrayShrinks ==
  ASSUME \A id \in Recorded(Info) \ Recorded(Info') : id \notin DOMAIN cloud',
         DOMAIN cloud' \subseteq DOMAIN cloud, pc \notin GotStage, strays' \in {strays, strays + 1}
  PROVE  CountsStrays
BY AstrayGrows DEF CountsStrays, InHand

LEMMA AstrayCreate ==
  ASSUME TypeOK, Info' = Info, NEW o, NEW next \in GotStage, pc \notin GotStage, Create(o, next)
  PROVE  CountsStrays
<1>1. Recorded(Info) \ Recorded(Info') = {} /\ InHand = {} /\ job \in Job
  BY JobType DEF InHand
<1>2. CASE \E id \in Fresh : /\ cloud' = With(cloud, id, o)
                            /\ Continue(next, [job EXCEPT !.got = id])
                            /\ UNCHANGED <<disk, strays>>
  <2>1. PICK id \in Fresh : /\ cloud' = With(cloud, id, o) /\ pc' = next
                            /\ job' = [job EXCEPT !.got = id] /\ strays' = strays
    BY <1>2 DEF Continue
  <2>2. InHand' = {id} /\ DOMAIN cloud' = DOMAIN cloud \cup {id}
    BY <1>1, <2>1 DEF InHand, With, Job
  <2>3. Astray' \subseteq Astray
    BY <1>1, <2>2 DEF Astray
  <2>4. QED
    BY <2>1, <2>3 DEF CountsStrays
<1>3. CASE Fail /\ UNCHANGED <<cloud, disk, strays>>
  BY <1>1, <1>3, AstrayShrinks
<1>4. CASE (\E id \in Fresh : cloud' = With(cloud, id, o)) /\ Stray(1) /\ Fail /\ UNCHANGED disk
  <2>1. PICK id \in Fresh : cloud' = With(cloud, id, o)
    BY <1>4
  <2>2. DOMAIN cloud' = DOMAIN cloud \cup {id}
    BY <2>1 DEF With
  <2>3. Astray' \subseteq Astray \cup {id}
    BY <1>1, <2>2, AstrayGrows
  <2>4. QED
    BY <1>4, <2>3 DEF CountsStrays, Stray
<1>5. QED
  BY <1>2, <1>3, <1>4 DEF Create

\* The save of what is in hand.
LEMMA AstraySave ==
  ASSUME TypeOK, \A id \in Recorded(Info) \ Recorded(Info') : id \notin DOMAIN cloud',
         NEW c, job.got \in Recorded(c) \cup {NoID},
         SaveSucceeds(c) \/ SaveFails(1)
  PROVE  CountsStrays
<1>1. cloud' = cloud /\ NoID \notin DOMAIN cloud /\ InHand \subseteq {job.got}
  BY IDsAssumption DEF SaveSucceeds, SaveFails, TypeOK, InHand
<1>2. Astray' \subseteq Astray \cup {job.got}
  BY <1>1, AstrayGrows
<1>3. CASE SaveSucceeds(c)
  <2>1. Info' = c /\ strays' = strays
    BY <1>3 DEF SaveSucceeds, Saved, Info, TypeOK, Disk
  <2>2. job.got \notin Astray'
    BY <1>1, <2>1 DEF Astray
  <2>3. QED
    BY <1>2, <2>1, <2>2 DEF CountsStrays
<1>4. CASE SaveFails(1)
  BY <1>2, <1>4 DEF CountsStrays, SaveFails, Stray
<1>5. QED
  BY <1>3, <1>4

LEMMA AstrayStep ==
  ASSUME "torn" \notin Faults, NetworkHeld, TypeOK, RecordInv, [Next]_vars
  PROVE  CountsStrays
<1>1. \A id \in Recorded(Info) \ Recorded(Info') : id \notin DOMAIN cloud'
  BY OnlyDeadStruckOff
<1>2. /\ job.mem \in Config /\ job.got \in Nat /\ job.role \in Role /\ strays \in Nat
      /\ CommandInv /\ NoID \notin DOMAIN cloud
  BY JobType, InvParts, IDsAssumption DEF TypeOK
<1>3. ASSUME UNCHANGED <<cloud, strays>>, pc \notin GotStage PROVE CountsStrays
  BY <1>1, <1>3, AstrayShrinks
<1>4. ASSUME NEW c, NEW k \in {0, 1}, SaveSucceeds(c) \/ SaveFails(k), pc \notin GotStage PROVE CountsStrays
  BY <1>1, <1>2, <1>4, AstrayShrinks DEF SaveSucceeds, SaveFails, Stray
<1>5. ASSUME NEW id, Deleted(id) \/ NotThere(id) \/ DeleteFails(id) \/ UNCHANGED cloud,
             UNCHANGED strays, pc \notin GotStage
      PROVE  CountsStrays
  BY <1>1, <1>5, CallsShrink, AstrayShrinks
<1>6. CASE CreateSSHKeyPair \/ CreateNetwork \/ CreateFirewall \/ CreateInstance
  <2> DEFINE number == IF job.role \in {"cp", "wp"} THEN HostNumber ELSE 0
             os == {KeyObject, NetworkObject, FirewallObject(job.mem.networkID),
                    Instance(job.role, job.mem.networkID, job.key, number)}
  <2>1. PICK next \in GotStage, o \in os : Create(o, next) /\ pc \notin GotStage
    BY <1>6 DEF CreateSSHKeyPair, CreateNetwork, CreateFirewall, CreateInstance, GotStage
  <2>2. Info' = Info
    BY <2>1 DEF Create, Info
  <2>3. QED
    BY <2>1, <2>2, AstrayCreate
<1>7. CASE SaveSSHID \/ SaveNetworkID \/ SaveFirewall \/ SaveInstance
  <2> DEFINE cs == {ConfigWriterSSHID(job.mem, job.got), ConfigWriterNetworkID(job.mem, job.got),
                    ConfigWriterFirewall(job.mem, job.role, job.got),
                    ConfigWriterInstance(job.mem, job.role, job.got)}
  <2>1. PICK c \in cs : SaveSucceeds(c) \/ SaveFails(1)
    BY <1>7 DEF SaveSSHID, SaveNetworkID, SaveFirewall, SaveInstance
  <2>2. ConfigWriterSSHID(job.mem, job.got).sshID = job.got
    BY <1>2 DEF ConfigWriterSSHID, Config
  <2>3. ConfigWriterNetworkID(job.mem, job.got).networkID = job.got
    BY <1>2 DEF ConfigWriterNetworkID, Config
  <2>4. ConfigWriterFirewall(job.mem, job.role, job.got).fw[job.role] = job.got
    BY <1>2 DEF ConfigWriterFirewall, Config
  <2>5. job.got \in Recorded(ConfigWriterInstance(job.mem, job.role, job.got)) \cup {NoID}
    BY <1>2, WriterRecords
  <2>6. job.got \in Recorded(c) \cup {NoID}
    BY <1>2, <2>1, <2>2, <2>3, <2>4, <2>5 DEF Recorded, Firewalls
  <2>7. QED
    BY <1>1, <2>1, <2>6, AstraySave
<1>8. CASE Keygen \/ Boot \/ SaveKubeconfig \/ ConfigLoadBalancer \/ ConfigControlPlane
  BY <1>3, <1>8 DEF Keygen, Boot, SaveKubeconfig, ConfigLoadBalancer, ConfigControlPlane, ScriptRuns,
                    ScriptFails, GotStage
<1>9. CASE SaveEndpoint \/ SaveToken \/ SaveDrop
  BY <1>4, <1>9 DEF SaveEndpoint, SaveToken, SaveDrop, GotStage
<1>10. CASE LoadForDelete \/ EndOfGroup \/ DeleteAllPaths
  BY <1>3, <1>10 DEF LoadForDelete, EndOfGroup, DeleteAllPaths, GotStage
<1>11. CASE DeleteInstance \/ DeleteFirewall \/ DeleteNetwork \/ DeleteSSHKeyPair \/ DropWorker
  <2>1. PICK id : Deleted(id) \/ NotThere(id) \/ DeleteFails(id) \/ UNCHANGED cloud
    BY <1>11 DEF DeleteInstance, DeleteFirewall, DeleteNetwork, DeleteSSHKeyPair, DropWorker
  <2>2. UNCHANGED strays /\ pc \notin GotStage
    BY <1>11 DEF DeleteInstance, DeleteFirewall, DeleteNetwork, DeleteSSHKeyPair, DropWorker, GotStage
  <2>3. QED
    BY <1>5, <2>1, <2>2
<1>12. CASE User
  <2>1. UNCHANGED <<cloud, strays>> /\ pc \notin GotStage
    BY <1>12 DEF User, StartCreate, StartDelete, StartAdd, StartRemove, Refuse, GotStage
  <2>2. QED
    BY <1>3, <2>1
<1>13. CASE Crash
  <2>1. cloud' = cloud /\ strays' = strays + (IF job.got = NoID THEN 0 ELSE 1)
    BY <1>13 DEF Crash, Stray
  <2>2. Astray' \subseteq Astray \cup (IF job.got = NoID THEN {} ELSE {job.got})
    BY <1>1, <1>2, <2>1, AstrayGrows DEF InHand, Astray
  <2>3. QED
    BY <1>2, <2>1, <2>2 DEF CountsStrays
<1>14. CASE Activate \/ DeleteByHand \/ UNCHANGED vars
  <2>1. DOMAIN cloud' \subseteq DOMAIN cloud /\ UNCHANGED <<disk, pc, job, strays>>
    BY <1>14 DEF Activate, DeleteByHand, vars, Activated, Without, Restrict
  <2>2. QED
    BY <2>1 DEF CountsStrays, Astray, InHand, Info
<1>15. QED
  BY <1>6, <1>7, <1>8, <1>9, <1>10, <1>11, <1>12, <1>13, <1>14
  DEF Next, Step, CreateStep, DeleteStep, RemoveStep

\* However calls fail, replies get lost, saves fail and processes are killed,
\* there are never more objects off the record than such accidents, and one
\* more only while its identifier is in hand: nothing else in the commands
\* loses one.
THEOREM StraysAreCounted ==
  ASSUME "torn" \notin Faults, NetworkHeld
  PROVE  Spec => []StraysBounded
<1>1. Init => StraysCounted
  <2> SUFFICES ASSUME Init PROVE StraysCounted
    OBVIOUS
  <2>1. Astray = {} /\ strays = 0
    BY DEF Init, Astray
  <2>2. QED
    BY <2>1, FS_EmptySet DEF StraysCounted
<1>2. TypeOK /\ RecordInv /\ StraysCounted /\ [Next]_vars => StraysCounted'
  BY AstrayStep, CountingKeepsCount
<1>3. TypeOK /\ StraysCounted => StraysBounded
  <2> SUFFICES ASSUME TypeOK, StraysCounted PROVE StraysBounded
    OBVIOUS
  <2> DEFINE off == DOMAIN cloud \ Recorded(Info)
  <2>1. /\ IsFiniteSet(Astray) /\ Cardinality(Astray) \in Nat /\ Cardinality(Astray) <= strays
        /\ strays \in Nat /\ NoID \notin DOMAIN cloud
    BY FS_CardinalityType, IDsAssumption DEF StraysCounted, TypeOK
  <2>2. CASE job.got = NoID
    <3>1. off = Astray
      BY <2>1, <2>2 DEF Astray, InHand
    <3>2. QED
      BY <2>1, <2>2, <3>1 DEF StraysBounded
  <2>3. CASE job.got # NoID
    <3>1. off \subseteq Astray \cup {job.got}
      BY DEF Astray, InHand
    <3>2. /\ IsFiniteSet(Astray \cup {job.got})
          /\ Cardinality(Astray \cup {job.got}) \in {Cardinality(Astray), Cardinality(Astray) + 1}
      BY <2>1, FS_AddElement
    <3>3. IsFiniteSet(off) /\ Cardinality(off) <= Cardinality(Astray \cup {job.got})
      BY <3>1, <3>2, FS_Subset
    <3>4. Cardinality(off) \in Nat
      BY <3>3, FS_CardinalityType
    <3>5. QED
      BY <2>1, <2>3, <3>2, <3>3, <3>4 DEF StraysBounded
  <2>4. QED
    BY <2>2, <2>3
<1>4. QED
  BY <1>1, <1>2, <1>3, TypeCorrect, RecordKept, PTL DEF Spec
=============================================================================
