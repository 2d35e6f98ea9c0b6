-------------------------- MODULE CivoHANodes_proof --------------------------
(***************************************************************************)
(* What building and removing the machines of a Civo cluster comes to, for *)
(* all constants: the worker at position i of the record is number i,      *)
(* workers are removed from the highest number down, a creation that       *)
(* reports success has built everything, and every command comes to an end *)
(* of its calls.                                                           *)
(***************************************************************************)
EXTENDS CivoHA_proof, CivoHAProgress, WellFoundedInduction

Workers(c) == c.inst["wp"]

\* In the cloud f, the worker at position i of record c has number i.
Numbered(f, c) ==
  \A i \in DOMAIN Workers(c) : Workers(c)[i] \in DOMAIN f => f[Workers(c)[i]].num = i

\* A command that builds nodes, at stage: before it comes to the workers it
\* has none; then the next number is the next position of the record.
NumbersAhead(f, stage, j) ==
  /\ Numbered(f, j.mem)
  /\ stage \in CreateStage \/ j.role # "wp" => Workers(j.mem) = << >> /\ j.base = 0
  /\ stage \in NodeStage /\ j.role = "wp" =>
       Len(Workers(j.mem)) = j.base + j.n + (IF stage = "boot" THEN 1 ELSE 0)
  /\ stage = "saveInstance" /\ j.role = "wp" /\ j.got \in DOMAIN f => f[j.got].num = j.base + j.n + 1
  /\ stage = "saveEndpoint" => j.role = "db"

NumbersInMemory == pc \in CreateStage \cup NodeStage => NumbersAhead(cloud, pc, job)

\* The inductive invariant.
NumbersKept == Numbered(cloud, Info) /\ NumbersInMemory

LEMMA StageParts ==
  /\ CreateStage \cap NodeStage = {}
  /\ {"idle", "guard"} \cap (CreateStage \cup NodeStage) = {}
  /\ (DeleteStage \cup RemoveStage) \cap (CreateStage \cup NodeStage) = {}
BY DEF CreateStage, NodeStage, DeleteStage, RemoveStage

-----------------------------------------------------------------------------
(* Lists of workers                                                        *)

LEMMA WorkersType ==
  ASSUME NEW c \in Config
  PROVE  /\ Workers(c) \in Seq(Nat) /\ Len(Workers(c)) \in Nat
         /\ DOMAIN Workers(c) = 1 .. Len(Workers(c))
         /\ ToSet(Workers(c)) \subseteq Instances(c)
<1>1. "wp" \in Role
  BY DEF Role
<1>2. Workers(c) \in Seq(Nat)
  BY <1>1 DEF Config, Workers
<1>3. QED
  BY <1>1, <1>2, LenProperties DEF Instances, Workers

LEMMA WorkersWritten ==
  ASSUME NEW c \in Config, NEW r \in Role, NEW id \in Nat
  PROVE  /\ Workers(ConfigWriterSSHID(c, id)) = Workers(c) /\ Workers(ConfigWriterNetworkID(c, id)) = Workers(c)
         /\ Workers(ConfigWriterFirewall(c, r, id)) = Workers(c)
         /\ Workers(ConfigWriterDBEndpoint(c)) = Workers(c) /\ Workers(ConfigWriterServerToken(c)) = Workers(c)
         /\ Workers(ConfigWriterInstance(c, r, id)) = IF r = "wp" THEN Append(Workers(c), id) ELSE Workers(c)
<1>1. "wp" \in Role
  BY DEF Role
<1>2. QED
  BY <1>1 DEF Workers, ConfigWriterSSHID, ConfigWriterNetworkID, ConfigWriterFirewall, ConfigWriterDBEndpoint,
              ConfigWriterServerToken, ConfigWriterInstance, Config

LEMMA NumberedEmpty ==
  ASSUME NEW f, NEW c, Workers(c) = << >> \/ c = EmptyConfig
  PROVE  Numbered(f, c) /\ Workers(c) = << >>
BY DEF Numbered, Workers, EmptyConfig, Role

LEMMA NumberedSame ==
  ASSUME NEW f, NEW c, Numbered(f, c), NEW d, Workers(d) = Workers(c)
  PROVE  Numbered(f, d)
BY DEF Numbered

\* The new worker has the next number.
LEMMA NumberedAppend ==
  ASSUME NEW f, NEW c \in Config, Numbered(f, c), NEW d, NEW id \in Nat,
         Workers(d) = Append(Workers(c), id),
         id \in DOMAIN f => f[id].num = Len(Workers(c)) + 1
  PROVE  Numbered(f, d) /\ Len(Workers(d)) = Len(Workers(c)) + 1
<1> DEFINE w == Workers(c)
<1>1. w \in Seq(Nat) /\ Len(w) \in Nat /\ DOMAIN w = 1 .. Len(w)
  BY WorkersType
<1>2. /\ Workers(d) \in Seq(Nat) /\ Len(Workers(d)) = Len(w) + 1
      /\ DOMAIN Workers(d) = 1 .. Len(w) + 1
      /\ Workers(d)[Len(w) + 1] = id
      /\ \A i \in 1 .. Len(w) : Workers(d)[i] = w[i]
  BY <1>1, AppendProperties, LenProperties
<1>3. ASSUME NEW i \in DOMAIN Workers(d), Workers(d)[i] \in DOMAIN f PROVE f[Workers(d)[i]].num = i
  <2>1. CASE i = Len(w) + 1
    BY <1>2, <1>3, <2>1
  <2>2. CASE i \in 1 .. Len(w)
    BY <1>1, <1>2, <1>3, <2>2 DEF Numbered
  <2>3. QED
    BY <1>1, <1>2, <2>1, <2>2
<1>4. QED
  BY <1>2, <1>3 DEF Numbered

LEMMA NumberedDrop ==
  ASSUME NEW f, NEW c \in Config, Numbered(f, c), Workers(c) # << >>
  PROVE  Numbered(f, DropLastWorker(c))
<1> DEFINE w == Workers(c)
           d == DropLastWorker(c)
<1>1. "wp" \in Role /\ w \in Seq(Nat) /\ Len(w) \in Nat /\ DOMAIN w = 1 .. Len(w)
  BY WorkersType DEF Role
<1>2. Workers(d) = Front(w)
  BY <1>1 DEF DropLastWorker, Workers, Config
<1>3. Len(w) # 0
  BY <1>1, EmptySeq
<1>4. \A i \in 1 .. Len(w) - 1 : w[i] \in Nat
  BY <1>1, ElementOfSeq
<1>5. /\ Front(w) \in Seq(Nat) /\ Len(Front(w)) = Len(w) - 1
      /\ \A i \in 1 .. Len(w) - 1 : Front(w)[i] = w[i]
  BY <1>1, <1>3, <1>4, SubSeqProperties DEF Front
<1>6. DOMAIN Front(w) = 1 .. Len(w) - 1
  BY <1>5, LenProperties
<1>7. ASSUME NEW i \in DOMAIN Workers(d), Workers(d)[i] \in DOMAIN f PROVE f[Workers(d)[i]].num = i
  <2>1. i \in 1 .. Len(w) - 1 /\ i \in DOMAIN w
    BY <1>1, <1>2, <1>6, <1>7
  <2>2. Workers(d)[i] = w[i]
    BY <1>2, <1>5, <2>1
  <2>3. QED
    BY <1>7, <2>1, <2>2 DEF Numbered
<1>8. QED
  BY <1>7 DEF Numbered
-----------------------------------------------------------------------------
(* What happens in the cloud                                               *)

\* The ways in which a step changes the cloud: it creates something that is
\* on neither record, deletes something, or an instance becomes active.
CloudMoves ==
  \/ cloud' = cloud
  \/ \E id : cloud' = Without(cloud, id)
  \/ \E id \in DOMAIN cloud : cloud' = Activated(cloud, id)

LEMMA NumberedStays ==
  ASSUME NEW f, CloudOK(f), NEW c, Numbered(f, c), NEW id
  PROVE  /\ \A o : id \notin ToSet(Workers(c)) => Numbered(With(f, id, o), c)
         /\ Numbered(Without(f, id), c)
         /\ id \in DOMAIN f => Numbered(Activated(f, id), c)
<1>1. ASSUME NEW o, id \notin ToSet(Workers(c)) PROVE Numbered(With(f, id, o), c)
  BY <1>1 DEF Numbered, With, ToSet
<1>2. Numbered(Without(f, id), c)
  BY DEF Numbered, Without, Restrict
<1>3. ASSUME id \in DOMAIN f PROVE Numbered(Activated(f, id), c)
  BY <1>3 DEF Numbered, Activated, CloudOK, Object
<1>4. QED
  BY <1>1, <1>2, <1>3

LEMMA NumberedMoves ==
  ASSUME TypeOK, CloudMoves, NEW c, Numbered(cloud, c)
  PROVE  Numbered(cloud', c)
BY JobType, NumberedStays DEF CloudMoves

\* So do the numbers of a command.
LEMMA AheadMoves ==
  ASSUME TypeOK, CloudMoves, NEW stage, NEW j, NumbersAhead(cloud, stage, j)
  PROVE  NumbersAhead(cloud', stage, j)
<1>1. CloudOK(cloud)
  BY JobType
<1>2. ASSUME j.got \in DOMAIN cloud' PROVE j.got \in DOMAIN cloud /\ cloud'[j.got].num = cloud[j.got].num
  <2>1. CASE cloud' = cloud
    BY <1>2, <2>1
  <2>2. ASSUME NEW id, cloud' = Without(cloud, id)
        PROVE  j.got \in DOMAIN cloud /\ cloud'[j.got].num = cloud[j.got].num
    BY <1>2, <2>2 DEF Without, Restrict
  <2>3. ASSUME NEW id \in DOMAIN cloud, cloud' = Activated(cloud, id)
        PROVE  j.got \in DOMAIN cloud /\ cloud'[j.got].num = cloud[j.got].num
    BY <1>1, <1>2, <2>3 DEF Activated, CloudOK, Object
  <2>4. QED
    BY <2>1, <2>2, <2>3 DEF CloudMoves
<1>3. Numbered(cloud', j.mem)
  BY NumberedMoves DEF NumbersAhead
<1>4. QED
  BY <1>2, <1>3 DEF NumbersAhead

\* The file stays as it is, or loses its record.
LEMMA FileNumbers ==
  ASSUME TypeOK, Numbered(cloud, Info), CloudMoves,
         Info' = Info \/ disk' \in NotSaved \cup PartlyRemoved \cup {EmptyDisk, Torn}
  PROVE  Numbered(cloud', Info')
<1>1. Info' \in {Info, EmptyConfig}
  BY OldRecordOrNone DEF Info
<1>2. QED
  BY <1>1, NumberedMoves, NumberedEmpty
-----------------------------------------------------------------------------
(* How a command goes on                                                   *)

\* A command that ends or goes on with anything but building nodes.
LEMMA NotBuilding ==
  ASSUME Fail \/ (\E result : Return(result)) \/ (\E j : Continue("guard", j))
         \/ \E stage \in DeleteStage \cup RemoveStage : \E j : Continue(stage, j)
  PROVE  NumbersInMemory'
<1>1. pc' \in {"idle"} \cup DeleteStage \cup RemoveStage
  BY DEF Fail, Return, Continue, DeleteStage
<1>2. QED
  BY <1>1 DEF NumbersInMemory, CreateStage, NodeStage, DeleteStage, RemoveStage

LEMMA GoesOnBuilding ==
  ASSUME NEW stage, NEW j, Continue(stage, j), NumbersAhead(cloud', stage, j)
  PROVE  NumbersInMemory'
BY DEF Continue, NumbersInMemory

\* The same list of workers, and no other number.
LEMMA AheadSame ==
  ASSUME NEW f, NEW stage, NEW j, NumbersAhead(f, stage, j),
         NEW next, NEW k, Workers(k.mem) = Workers(j.mem), k.base = j.base,
         \/ /\ stage \in CreateStage \/ j.role # "wp"
            /\ next \in CreateStage \/ k.role # "wp"
         \/ /\ stage \in NodeStage \ {"boot"} /\ next \in NodeStage \ {"boot"}
            /\ k.role = j.role /\ k.n = j.n,
         next = "saveInstance" => k.role # "wp",
         next = "saveEndpoint" => k.role = "db"
  PROVE  NumbersAhead(f, next, k)
<1>1. Numbered(f, k.mem)
  BY NumberedSame DEF NumbersAhead
<1>2. QED
  BY <1>1, StageParts DEF NumbersAhead

\* The loop over the nodes goes on to the next number.
LEMMA NextNodeNumbers ==
  ASSUME NEW f, cloud' = f, NEW stage \in {"boot", "saveEndpoint"}, NEW j \in Job,
         NumbersAhead(f, stage, j), NextNode(j)
  PROVE  NumbersInMemory'
<1>1. /\ j.role \in Role /\ j.n \in Nat /\ j.base \in Nat /\ Len(Workers(j.mem)) \in Nat
      /\ \A r \in Role : FirstStage(r, j.mem) \in {"newFirewall", "newInstance"}
  BY WorkersType DEF Job, FirstStage
<1>2. "newFirewall" \in NodeStage /\ "newInstance" \in NodeStage /\ "configLB" \in CreateStage
  BY DEF NodeStage, CreateStage
<1>3. CASE j.role # "wp"
  <2>1. ASSUME NEW next \in {"newFirewall", "newInstance", "configLB"}, NEW r \in Role \ {"wp"},
               NEW n \in Nat, Continue(next, [j EXCEPT !.role = r, !.n = n])
        PROVE  NumbersInMemory'
    <3> DEFINE k == [j EXCEPT !.role = r, !.n = n]
    <3>1. k.mem = j.mem /\ k.base = j.base /\ k.role = r
      BY DEF Job
    <3> HIDE DEF k
    <3>2. NumbersAhead(f, next, k)
      BY <1>3, <3>1, AheadSame
    <3>3. QED
      BY <2>1, <3>2, GoesOnBuilding DEF k
  <2>2. CASE j.role = "db" /\ Continue("newFirewall", [j EXCEPT !.role = "lb"])
    <3>1. [j EXCEPT !.role = "lb"] = [j EXCEPT !.role = "lb", !.n = j.n]
      BY DEF Job
    <3>2. QED
      BY <1>1, <2>1, <2>2, <3>1 DEF Role
  <2>3. CASE j.role = "lb" /\ Continue(FirstStage("cp", j.mem), [j EXCEPT !.role = "cp", !.n = 0])
    <3>1. "cp" \in Role \ {"wp"} /\ 0 \in Nat
      BY DEF Role
    <3>2. QED
      BY <1>1, <2>1, <2>3, <3>1
  <2>4. CASE j.role = "cp" /\ Continue(FirstStage("cp", j.mem), [j EXCEPT !.n = @ + 1])
    <3>1. [j EXCEPT !.n = @ + 1] = [j EXCEPT !.role = "cp", !.n = j.n + 1]
      BY <2>4 DEF Job
    <3>2. j.n + 1 \in Nat /\ "cp" \in Role \ {"wp"}
      BY <1>1 DEF Role
    <3>3. QED
      BY <1>1, <2>1, <2>4, <3>1, <3>2
  <2>5. CASE j.role = "cp" /\ Continue("configLB", j)
    <3>1. NumbersAhead(f, "configLB", j)
      BY <1>2, <1>3, AheadSame
    <3>2. QED
      BY <2>5, <3>1, GoesOnBuilding
  <2>6. QED
    BY <1>3, <2>2, <2>3, <2>4, <2>5 DEF NextNode
<1>4. CASE j.role = "wp"
  <2>1. stage = "boot" /\ Len(Workers(j.mem)) = j.base + j.n + 1
    BY <1>4 DEF NumbersAhead, NodeStage
  <2>2. CASE \E result : Return(result)
    BY <2>2, NotBuilding
  <2>3. CASE Continue(FirstStage("wp", j.mem), [j EXCEPT !.n = @ + 1])
    <3> DEFINE k == [j EXCEPT !.n = @ + 1]
               next == FirstStage("wp", j.mem)
    <3>1. k.mem = j.mem /\ k.base = j.base /\ k.role = "wp" /\ k.n = j.n + 1
      BY <1>4 DEF Job
    <3>2. next \in {"newFirewall", "newInstance"} /\ next \notin CreateStage
      BY <1>1, <1>2, StageParts DEF Role
    <3>3. Len(Workers(k.mem)) = k.base + k.n
      BY <1>1, <2>1, <3>1
    <3>4. NumbersAhead(f, next, k)
      BY <1>1, <3>1, <3>2, <3>3 DEF NumbersAhead
    <3>5. QED
      BY <2>3, <3>4, GoesOnBuilding
  <2>4. QED
    BY <1>4, <2>2, <2>3 DEF NextNode
<1>5. QED
  BY <1>3, <1>4
-----------------------------------------------------------------------------
(* The steps                                                               *)

\* A step that looks, and fails or ends the command.
LEMMA NumbersEnd ==
  ASSUME TypeOK, NumbersKept, CloudMoves,
         Info' = Info \/ disk' \in NotSaved \cup PartlyRemoved \cup {EmptyDisk, Torn},
         Fail \/ (\E result : Return(result)) \/ (\E j : Continue("guard", j))
         \/ \E stage \in DeleteStage \cup RemoveStage : \E j : Continue(stage, j)
  PROVE  NumbersKept'
BY FileNumbers, NotBuilding DEF NumbersKept

\* A creation: the new object is on no record, and a worker gets the next number.
LEMMA NumbersCreate ==
  ASSUME TypeOK, NumbersKept, NEW o, NEW next,
         \/ pc \in CreateStage /\ next \in CreateStage
         \/ pc \in NodeStage \ {"boot"} /\ next \in NodeStage \ {"boot", "saveEndpoint"},
         next = "saveInstance" /\ job.role = "wp" => o.num = job.base + job.n + 1,
         Create(o, next)
  PROVE  NumbersKept'
<1>1. job \in Job /\ CloudOK(cloud) /\ Info \in Config /\ job.mem \in Config
  BY JobType
<1>2. Info' = Info
  BY DEF Create, Info
<1>3. ASSUME NEW id \in Fresh, cloud' = With(cloud, id, o)
      PROVE  Numbered(cloud', Info) /\ (Numbered(cloud, job.mem) => Numbered(cloud', job.mem))
  <2>1. id \notin ToSet(Workers(Info)) /\ id \notin ToSet(Workers(job.mem))
    BY <1>1, FreshIsNew, WorkersType DEF Nodes
  <2>2. QED
    BY <1>1, <1>3, <2>1, NumberedStays DEF NumbersKept
<1>4. CASE \E id \in Fresh : /\ cloud' = With(cloud, id, o)
                            /\ Continue(next, [job EXCEPT !.got = id])
                            /\ UNCHANGED <<disk, strays>>
  <2>1. PICK id \in Fresh : cloud' = With(cloud, id, o) /\ Continue(next, [job EXCEPT !.got = id])
    BY <1>4
  <2> DEFINE j == [job EXCEPT !.got = id]
  <2>2. j.mem = job.mem /\ j.base = job.base /\ j.role = job.role /\ j.n = job.n /\ j.got = id
    BY <1>1 DEF Job
  <2>3. NumbersAhead(cloud, pc, job)
    BY DEF NumbersKept, NumbersInMemory
  <2>4. Numbered(cloud', job.mem)
    BY <1>3, <2>1, <2>3 DEF NumbersAhead
  <2>5. next = "saveInstance" /\ job.role = "wp" => cloud'[id].num = job.base + job.n + 1
    BY <2>1 DEF With
  <2>6. next # "saveEndpoint"
    BY DEF CreateStage
  <2>7. NumbersAhead(cloud', next, j)
    BY <2>2, <2>3, <2>4, <2>5, <2>6, StageParts DEF NumbersAhead
  <2>8. QED
    BY <1>2, <1>3, <2>1, <2>7, GoesOnBuilding DEF NumbersKept
<1>5. CASE Fail /\ UNCHANGED <<cloud, disk, strays>>
  BY <1>2, <1>5, NumbersEnd DEF CloudMoves
<1>6. CASE (\E id \in Fresh : cloud' = With(cloud, id, o)) /\ Fail
  BY <1>2, <1>3, <1>6, NotBuilding DEF NumbersKept
<1>7. QED
  BY <1>4, <1>5, <1>6 DEF Create

\* A save: the record goes to the file as it is in memory.
LEMMA NumbersSave ==
  ASSUME TypeOK, NumbersKept, NEW c, Numbered(cloud, c), SaveSucceeds(c), NumbersInMemory'
  PROVE  NumbersKept'
<1>1. cloud' = cloud /\ Info' = c
  BY DEF SaveSucceeds, Saved, Info, TypeOK, Disk
<1>2. QED
  BY <1>1 DEF NumbersKept

LEMMA NumbersCreateStep ==
  ASSUME "disk" \notin Faults, TypeOK, NumbersKept, CreateStep
  PROVE  NumbersKept'
<1>1. /\ job \in Job /\ job.mem \in Config /\ job.got \in Nat /\ job.role \in Role
      /\ job.n \in Nat /\ job.base \in Nat /\ disk \in Disk /\ Numbered(cloud, Info)
  BY JobType DEF Job, NumbersKept
<1>2. pc \in CreateStage \cup NodeStage => NumbersAhead(cloud, pc, job) /\ Numbered(cloud, job.mem)
  BY DEF NumbersKept, NumbersInMemory, NumbersAhead
<1>3. \A k : ~SaveFails(k)
  BY DEF SaveFails, Fault
<1>4. ASSUME NEW j, NEW stage, Continue(stage, j), UNCHANGED cloud, Info' = Info,
             pc \in CreateStage \cup NodeStage, j.mem = job.mem, j.base = job.base, j.role = job.role,
             pc \in CreateStage \/ j.role # "wp", stage \in CreateStage \/ j.role # "wp",
             stage = "saveEndpoint" => j.role = "db"
      PROVE  NumbersKept'
  <2>1. "saveInstance" \notin CreateStage
    BY DEF CreateStage
  <2>2. NumbersAhead(cloud', stage, j)
    BY <1>2, <1>4, <2>1, AheadSame
  <2>3. QED
    BY <1>1, <1>4, <2>2, GoesOnBuilding DEF NumbersKept
<1>5. CASE Keygen
  <2>1. UNCHANGED cloud /\ Info' = Info /\ pc \in CreateStage /\ "newKey" \in CreateStage
    BY <1>1, <1>5 DEF Keygen, Info, Disk, CreateStage
  <2>2. CASE Continue("newKey", job)
    BY <1>4, <2>1, <2>2
  <2>3. CASE Fail
    BY <2>1, <2>3, NumbersEnd DEF CloudMoves
  <2>4. QED
    BY <1>5, <2>2, <2>3 DEF Keygen
<1>6. CASE CreateSSHKeyPair
  BY <1>6, NumbersCreate DEF CreateSSHKeyPair, CreateStage
<1>7. CASE SaveSSHID
  <2> DEFINE c == ConfigWriterSSHID(job.mem, job.got)
             j == [job EXCEPT !.mem = c, !.key = job.got, !.got = NoID]
  <2>1. SaveSucceeds(c) /\ Continue("newNetwork", j) /\ pc \in CreateStage /\ "newNetwork" \in CreateStage
    BY <1>3, <1>7 DEF SaveSSHID, CreateStage
  <2>2. Workers(c) = Workers(job.mem) /\ cloud' = cloud
    BY <1>1, <2>1, WorkersWritten DEF SaveSucceeds
  <2>3. j.mem = c /\ j.base = job.base
    BY <1>1 DEF Job
  <2> HIDE DEF j
  <2>4. NumbersAhead(cloud', "newNetwork", j) /\ Numbered(cloud, c)
    BY <1>2, <2>1, <2>2, <2>3, AheadSame, NumberedSame
  <2>5. QED
    BY <2>1, <2>4, GoesOnBuilding, NumbersSave
<1>8. CASE CreateNetwork
  BY <1>8, NumbersCreate DEF CreateNetwork, CreateStage
<1>9. CASE SaveNetworkID
  <2> DEFINE c == ConfigWriterNetworkID(job.mem, job.got)
             j == [job EXCEPT !.mem = c, !.got = NoID, !.role = "db"]
  <2>1. SaveSucceeds(c) /\ Continue("newFirewall", j) /\ pc \in CreateStage
    BY <1>3, <1>9 DEF SaveNetworkID, CreateStage
  <2>2. Workers(c) = Workers(job.mem) /\ cloud' = cloud
    BY <1>1, <2>1, WorkersWritten DEF SaveSucceeds
  <2>3. j.mem = c /\ j.base = job.base /\ j.role = "db"
    BY <1>1 DEF Job
  <2> HIDE DEF j
  <2>4. NumbersAhead(cloud', "newFirewall", j) /\ Numbered(cloud, c)
    BY <1>2, <2>1, <2>2, <2>3, AheadSame, NumberedSame
  <2>5. QED
    BY <2>1, <2>4, GoesOnBuilding, NumbersSave
<1>10. CASE CreateFirewall
  BY <1>10, NumbersCreate DEF CreateFirewall, NodeStage
<1>11. CASE SaveFirewall
  <2> DEFINE c == ConfigWriterFirewall(job.mem, job.role, job.got)
             j == [job EXCEPT !.mem = c, !.got = NoID]
  <2>1. /\ SaveSucceeds(c) /\ Continue("newInstance", j)
        /\ pc \in NodeStage \ {"boot"} /\ "newInstance" \in NodeStage \ {"boot"}
    BY <1>3, <1>11 DEF SaveFirewall, NodeStage
  <2>2. Workers(c) = Workers(job.mem) /\ cloud' = cloud
    BY <1>1, <2>1, WorkersWritten DEF SaveSucceeds
  <2>3. j.mem = c /\ j.base = job.base /\ j.role = job.role /\ j.n = job.n
    BY <1>1 DEF Job
  <2> HIDE DEF j
  <2>4. NumbersAhead(cloud', "newInstance", j) /\ Numbered(cloud, c)
    BY <1>2, <2>1, <2>2, <2>3, AheadSame, NumberedSame
  <2>5. QED
    BY <2>1, <2>4, GoesOnBuilding, NumbersSave
<1>12. CASE CreateInstance
  BY <1>12, NumbersCreate DEF CreateInstance, NodeStage, Instance, HostNumber
<1>13. CASE SaveInstance
  <2> DEFINE c == ConfigWriterInstance(job.mem, job.role, job.got)
             j == [job EXCEPT !.mem = c, !.got = NoID]
  <2>1. SaveSucceeds(c) /\ Continue("boot", j) /\ pc = "saveInstance" /\ pc \in NodeStage /\ cloud' = cloud
    BY <1>3, <1>13 DEF SaveInstance, NodeStage, SaveSucceeds
  <2>2. j.mem = c /\ j.base = job.base /\ j.role = job.role /\ j.n = job.n
    BY <1>1 DEF Job
  <2>3. NumbersAhead(cloud, pc, job) /\ Numbered(cloud, job.mem)
    BY <1>2, <2>1
  <2> HIDE DEF j
  <2>4. CASE job.role # "wp"
    <3>1. Workers(c) = Workers(job.mem)
      BY <1>1, <2>4, WorkersWritten
    <3>2. NumbersAhead(cloud', "boot", j) /\ Numbered(cloud, c)
      BY <2>1, <2>2, <2>3, <2>4, <3>1, AheadSame, NumberedSame
    <3>3. QED
      BY <2>1, <3>2, GoesOnBuilding, NumbersSave
  <2>5. CASE job.role = "wp"
    <3>1. Workers(c) = Append(Workers(job.mem), job.got) /\ Len(Workers(job.mem)) \in Nat
      BY <1>1, <2>5, WorkersWritten, WorkersType
    <3>2. /\ Len(Workers(job.mem)) = job.base + job.n
          /\ job.got \in DOMAIN cloud => cloud[job.got].num = job.base + job.n + 1
      BY <1>1, <2>1, <2>3, <2>5 DEF NumbersAhead
    <3>3. Numbered(cloud, c) /\ Len(Workers(c)) = job.base + job.n + 1
      BY <1>1, <2>3, <3>1, <3>2, NumberedAppend
    <3>4. NumbersAhead(cloud', "boot", j)
      BY <2>1, <2>2, <2>5, <3>3, StageParts DEF NumbersAhead, NodeStage
    <3>5. QED
      BY <2>1, <3>3, <3>4, GoesOnBuilding, NumbersSave
  <2>6. QED
    BY <2>4, <2>5
<1>14. CASE Boot
  <2>1. pc = "boot" /\ UNCHANGED cloud /\ Info' = Info /\ pc \in NodeStage
    BY <1>14 DEF Boot, NodeStage, Info
  <2>2. CASE job.role = "db" /\ Continue("saveEndpoint", job)
    BY <1>4, <2>1, <2>2
  <2>3. CASE NextNode(job)
    <3>1. NumbersInMemory'
      BY <1>1, <1>2, <2>1, <2>3, NextNodeNumbers
    <3>2. QED
      BY <1>1, <2>1, <3>1 DEF NumbersKept
  <2>4. CASE Fail
    BY <2>1, <2>4, NumbersEnd DEF CloudMoves
  <2>5. QED
    BY <1>14, <2>2, <2>3, <2>4 DEF Boot
<1>15. CASE SaveEndpoint
  <2> DEFINE c == ConfigWriterDBEndpoint(job.mem)
             j == [job EXCEPT !.mem = c]
  <2>1. SaveSucceeds(c) /\ NextNode(j) /\ pc = "saveEndpoint" /\ pc \in NodeStage /\ cloud' = cloud
    BY <1>3, <1>15 DEF SaveEndpoint, NodeStage, SaveSucceeds
  <2>2. Workers(c) = Workers(job.mem) /\ c \in Config
    BY <1>1, WorkersWritten, WriterTypes
  <2>3. j \in Job /\ j.mem = c /\ j.base = job.base /\ j.role = job.role /\ j.n = job.n
    BY <1>1, <2>2 DEF Job
  <2>4. NumbersAhead(cloud, pc, job) /\ Numbered(cloud, c) /\ job.role = "db"
    BY <1>2, <2>1, <2>2, NumberedSame DEF NumbersAhead
  <2> HIDE DEF j
  <2>5. NumbersAhead(cloud, "saveEndpoint", j)
    BY <2>1, <2>2, <2>3, <2>4, AheadSame
  <2>6. NumbersInMemory'
    BY <2>1, <2>3, <2>5, NextNodeNumbers
  <2>7. QED
    BY <2>1, <2>4, <2>6, NumbersSave
<1>16. CASE ConfigLoadBalancer
  <2>1. UNCHANGED cloud /\ Info' = Info /\ pc \in CreateStage /\ "configCP" \in CreateStage
    BY <1>16 DEF ConfigLoadBalancer, ScriptRuns, ScriptFails, Info, CreateStage
  <2>2. CASE Continue("configCP", [job EXCEPT !.n = 0])
    <3> DEFINE j == [job EXCEPT !.n = 0]
    <3>1. j.mem = job.mem /\ j.base = job.base /\ j.role = job.role
      BY <1>1 DEF Job
    <3>2. QED
      BY <1>4, <2>1, <2>2, <3>1
  <2>3. CASE Fail \/ Return("panic")
    BY <2>1, <2>3, NumbersEnd DEF CloudMoves
  <2>4. QED
    BY <1>16, <2>2, <2>3 DEF ConfigLoadBalancer
<1>17. CASE ConfigControlPlane
  <2>1. /\ UNCHANGED cloud /\ Info' = Info /\ pc \in CreateStage
        /\ {"configCP", "saveToken", "kubeconfig"} \subseteq CreateStage
    BY <1>17 DEF ConfigControlPlane, ScriptRuns, ScriptFails, Info, CreateStage
  <2>2. CASE Continue("saveToken", job)
    BY <1>4, <2>1, <2>2
  <2>3. CASE \E stage \in {"kubeconfig", "configCP"} : Continue(stage, [job EXCEPT !.n = @ + 1])
    <3> DEFINE j == [job EXCEPT !.n = @ + 1]
    <3>1. j.mem = job.mem /\ j.base = job.base /\ j.role = job.role
      BY <1>1 DEF Job
    <3>2. QED
      BY <1>4, <2>1, <2>3, <3>1
  <2>4. CASE Fail
    BY <2>1, <2>4, NumbersEnd DEF CloudMoves
  <2>5. QED
    BY <1>17, <2>2, <2>3, <2>4 DEF ConfigControlPlane
<1>18. CASE SaveToken
  <2> DEFINE c == ConfigWriterServerToken(job.mem)
             j == [job EXCEPT !.mem = c, !.n = 1]
  <2>1. SaveSucceeds(c) /\ Continue("configCP", j) /\ pc \in CreateStage /\ "configCP" \in CreateStage
    BY <1>3, <1>18 DEF SaveToken, CreateStage
  <2>2. Workers(c) = Workers(job.mem) /\ cloud' = cloud
    BY <1>1, <2>1, WorkersWritten DEF SaveSucceeds
  <2>3. j.mem = c /\ j.base = job.base
    BY <1>1 DEF Job
  <2> HIDE DEF j
  <2>4. NumbersAhead(cloud', "configCP", j) /\ Numbered(cloud, c)
    BY <1>2, <2>1, <2>2, <2>3, AheadSame, NumberedSame
  <2>5. QED
    BY <2>1, <2>4, GoesOnBuilding, NumbersSave
<1>19. CASE SaveKubeconfig
  <2>1. UNCHANGED cloud /\ Info' = Info /\ pc \in CreateStage
    BY <1>1, <1>19 DEF SaveKubeconfig, Info, Disk, CreateStage
  <2>2. CASE Continue(FirstStage("wp", job.mem), [job EXCEPT !.role = "wp", !.n = 0])
    <3> DEFINE j == [job EXCEPT !.role = "wp", !.n = 0]
               next == FirstStage("wp", job.mem)
    <3>1. j.mem = job.mem /\ j.base = job.base /\ j.role = "wp" /\ j.n = 0
      BY <1>1 DEF Job
    <3>2. next \in {"newFirewall", "newInstance"} /\ next \in NodeStage
      BY DEF FirstStage, NodeStage
    <3>3. Workers(job.mem) = << >> /\ job.base = 0 /\ Numbered(cloud, job.mem)
      BY <1>2, <2>1 DEF NumbersAhead
    <3>4. Len(Workers(job.mem)) = 0
      BY <3>3
    <3>5. NumbersAhead(cloud', next, j)
      BY <2>1, <3>1, <3>2, <3>3, <3>4, StageParts DEF NumbersAhead
    <3>6. QED
      BY <1>1, <2>1, <2>2, <3>5, GoesOnBuilding DEF NumbersKept
  <2>3. CASE Fail \/ \E result : Return(result)
    BY <2>1, <2>3, NumbersEnd DEF CloudMoves
  <2>4. QED
    BY <1>19, <2>2, <2>3 DEF SaveKubeconfig
<1>20. QED
  BY <1>5, <1>6, <1>7, <1>8, <1>9, <1>10, <1>11, <1>12, <1>13, <1>14, <1>15, <1>16, <1>17, <1>18,
     <1>19 DEF CreateStep

\* A deletion leaves the record alone until the directory goes.
LEMMA NumbersDeleteStep ==
  ASSUME TypeOK, NumbersKept, DeleteStep
  PROVE  NumbersKept'
<1>1. CASE LoadForDelete \/ EndOfGroup
  <2>1. CloudMoves /\ Info' = Info
    BY <1>1 DEF LoadForDelete, EndOfGroup, CloudMoves, Info
  <2>2. QED
    BY <1>1, <2>1, NumbersEnd DEF LoadForDelete, EndOfGroup, DeleteStage
<1>2. CASE DeleteInstance \/ DeleteFirewall \/ DeleteNetwork \/ DeleteSSHKeyPair
  <2>1. PICK id : Deleted(id) \/ NotThere(id) \/ DeleteFails(id) \/ UNCHANGED cloud
    BY <1>2 DEF DeleteInstance, DeleteFirewall, DeleteNetwork, DeleteSSHKeyPair
  <2>2. CloudMoves /\ Info' = Info
    BY <1>2, <2>1, CallsShrink
    DEF CloudMoves, DeleteInstance, DeleteFirewall, DeleteNetwork, DeleteSSHKeyPair, Info
  <2>3. (\E result : Return(result)) \/ \E stage \in DeleteStage : \E j : Continue(stage, j)
    BY <1>2 DEF DeleteInstance, DeleteFirewall, DeleteNetwork, DeleteSSHKeyPair, DeleteStage
  <2>4. QED
    BY <2>2, <2>3, NumbersEnd
<1>3. CASE DeleteAllPaths
  BY <1>3, NumbersEnd DEF DeleteAllPaths, CloudMoves
<1>4. QED
  BY <1>1, <1>2, <1>3 DEF DeleteStep

\* The record without its last worker is numbered as before.
LEMMA NumbersRemoveStep ==
  ASSUME "disk" \notin Faults, TypeOK, RecordInv, NumbersKept, RemoveStep
  PROVE  NumbersKept'
<1>1. CASE DropWorker
  <2>1. PICK id : Deleted(id) \/ NotThere(id) \/ DeleteFails(id)
    BY <1>1 DEF DropWorker
  <2>2. CloudMoves /\ Info' = Info
    BY <1>1, <2>1, CallsShrink DEF CloudMoves, DropWorker, Info
  <2>3. QED
    BY <1>1, <2>2, NumbersEnd DEF DropWorker, RemoveStage
<1>2. CASE SaveDrop
  <2>1. /\ SaveSucceeds(job.mem)
        /\ (\E result : Return(result)) \/ \E j : Continue("dropWorker", j)
    BY <1>2 DEF SaveDrop, SaveFails, Fault
  <2>2. /\ Info \in Config /\ CommandInv /\ pc = "saveDrop" /\ job.n \in Nat /\ job.wps \in Nat
    BY <1>2, JobType, InvParts DEF SaveDrop
  <2>3. job.mem = DropLastWorker(Info) /\ job.n < job.wps /\ job.wps - job.n <= Len(Info.inst["wp"])
    BY <2>2 DEF CommandInv, RemovesRecord, RemoveStage
  <2>4. Workers(Info) # << >>
    BY <2>2, <2>3, WorkersType DEF Workers
  <2>5. Numbered(cloud, job.mem)
    BY <2>2, <2>3, <2>4, NumberedDrop DEF NumbersKept
  <2>6. QED
    BY <2>1, <2>5, NotBuilding, NumbersSave DEF RemoveStage
<1>3. QED
  BY <1>1, <1>2 DEF RemoveStep

\* A creation starts without workers, an addition at the length of the list.
LEMMA NumbersUser ==
  ASSUME TypeOK, NumbersKept, User
  PROVE  NumbersKept'
<1>1. /\ UNCHANGED <<cloud, disk>> /\ Info' = Info /\ Info \in Config /\ Numbered(cloud, Info)
      /\ NoJob \in Job /\ NoJob.mem = EmptyConfig /\ NoJob.base = 0 /\ NoJob.n = 0
      /\ Len(Workers(Info)) \in Nat
  BY JobType, TypeParts, ControlTypes, WorkersType
  DEF User, StartCreate, StartDelete, StartAdd, StartRemove, Refuse, Info, NoJob, JobOK, NumbersKept
<1>2. ASSUME NEW result, Refuse(result) PROVE NumbersKept'
  BY <1>1, <1>2 DEF Refuse, NumbersKept, NumbersInMemory
<1>3. ASSUME NEW j, NEW stage \in {"guard", "dropWorker"}, Begin(stage, j) PROVE NumbersKept'
  BY <1>1, <1>3 DEF Begin, NumbersKept, NumbersInMemory, CreateStage, NodeStage
<1>4. ASSUME NEW j \in Job, NEW stage, Begin(stage, j), NumbersAhead(cloud, stage, j) PROVE NumbersKept'
  <2> DEFINE k == [j EXCEPT !.found = disk.file # "absent"]
  <2>1. k.mem = j.mem /\ k.got = j.got /\ k.role = j.role /\ k.base = j.base /\ k.n = j.n
    BY <1>4 DEF Job
  <2>2. NumbersAhead(cloud, stage, k)
    BY <1>4, <2>1 DEF NumbersAhead
  <2>3. QED
    BY <1>1, <1>4, <2>2 DEF Begin, NumbersKept, NumbersInMemory
<1>5. CASE StartCreate
  <2>1. PICK cps \in CPCounts, wps \in WPCounts :
          \/ Refuse("failed")
          \/ Begin("guard", [NoJob EXCEPT !.op = "create", !.cps = cps, !.wps = wps])
          \/ Begin("keygen", [NoJob EXCEPT !.op = "create", !.cps = cps, !.wps = wps])
    BY <1>5 DEF StartCreate
  <2> DEFINE j == [NoJob EXCEPT !.op = "create", !.cps = cps, !.wps = wps]
  <2>2. j \in Job /\ j.mem = EmptyConfig /\ j.base = 0
    BY <1>1, CountsAssumption DEF Job
  <2>3. NumbersAhead(cloud, "keygen", j)
    BY <2>2, NumberedEmpty DEF NumbersAhead, NodeStage
  <2>4. QED
    BY <1>2, <1>3, <1>4, <2>1, <2>2, <2>3
<1>6. CASE StartDelete
  BY <1>2, <1>3, <1>6 DEF StartDelete
<1>7. CASE StartAdd
  <2>1. PICK k \in WPCounts \ {0} :
          \/ Refuse("failed") \/ Refuse("panic")
          \/ Begin(FirstStage("wp", Info),
                   [NoJob EXCEPT !.op = "add", !.mem = Info, !.role = "wp",
                                 !.wps = k, !.base = Len(Info.inst["wp"])])
    BY <1>7 DEF StartAdd
  <2> DEFINE j == [NoJob EXCEPT !.op = "add", !.mem = Info, !.role = "wp",
                                !.wps = k, !.base = Len(Info.inst["wp"])]
             next == FirstStage("wp", Info)
  <2>2. "wp" \in Role /\ Len(Info.inst["wp"]) = Len(Workers(Info)) /\ Len(Info.inst["wp"]) \in Nat
    BY <1>1 DEF Role, Workers
  <2>3. j \in Job /\ j.mem = Info /\ j.base = Len(Info.inst["wp"]) /\ j.n = 0 /\ j.role = "wp"
    BY <1>1, <2>2, CountsAssumption DEF Job
  <2>4. next \in {"newFirewall", "newInstance"} /\ next \in NodeStage
    BY DEF FirstStage, NodeStage
  <2> HIDE DEF j
  <2>5. NumbersAhead(cloud, next, j)
    BY <1>1, <2>2, <2>3, <2>4, StageParts DEF NumbersAhead
  <2>6. QED
    BY <1>2, <1>4, <2>1, <2>3, <2>5 DEF j
<1>8. CASE StartRemove
  BY <1>2, <1>3, <1>8 DEF StartRemove
<1>9. QED
  BY <1>5, <1>6, <1>7, <1>8 DEF User

LEMMA NumbersStep ==
  ASSUME "disk" \notin Faults, TypeOK, RecordInv, NumbersKept, [Next]_vars
  PROVE  NumbersKept'
<1>1. CASE Crash
  <2>1. CloudMoves /\ (Info' = Info \/ disk' \in {Torn} \cup PartlyRemoved)
    BY <1>1 DEF Crash, CloudMoves, Info, TypeOK, Disk
  <2>2. QED
    BY <1>1, <2>1, NumbersEnd DEF Crash
<1>2. CASE Activate \/ DeleteByHand \/ UNCHANGED vars
  <2>1. CloudMoves /\ UNCHANGED <<disk, pc, job>> /\ Info' = Info
    BY <1>2 DEF Activate, DeleteByHand, vars, CloudMoves, Info
  <2>2. Numbered(cloud', Info')
    BY <2>1, FileNumbers DEF NumbersKept
  <2>3. QED
    BY <2>1, <2>2, AheadMoves DEF NumbersKept, NumbersInMemory
<1>3. QED
  BY <1>1, <1>2, NumbersUser, NumbersCreateStep, NumbersDeleteStep, NumbersRemoveStep DEF Next, Step

\* Unless a write fails, the worker at position i of info.json is the one
\* named wp<i>, and the number add-nodes or a creation is about to give is no
\* other recorded worker's, however additions, removals, failures and kills
\* follow each other.  Nothing is said of workers that a lost reply or a kill
\* has kept off the record: their numbers are given again.
THEOREM WorkersStayNumbered ==
  ASSUME "disk" \notin Faults
  PROVE  Spec => []WorkersAreNumbered
<1>1. Init => NumbersKept
  BY NumberedEmpty DEF Init, Info, EmptyDisk, NumbersKept, NumbersInMemory, CreateStage, NodeStage
<1>2. TypeOK /\ RecordInv /\ NumbersKept /\ [Next]_vars => NumbersKept'
  BY NumbersStep
<1>3. ASSUME TypeOK, NumbersKept PROVE WorkersAreNumbered
  <2>1. SUFFICES ASSUME pc = "newInstance", job.role = "wp",
                        NEW w \in ToSet(Workers(job.mem)) \cap DOMAIN cloud
                 PROVE  cloud[w].num # HostNumber
    BY <1>3 DEF NumbersKept, Numbered, Workers, WorkersAreNumbered
  <2>2. job \in Job /\ job.mem \in Config /\ job.base \in Nat /\ job.n \in Nat
    BY <1>3, JobType DEF Job
  <2>3. /\ Numbered(cloud, job.mem)
        /\ Len(Workers(job.mem)) = job.base + job.n
    <3>1. pc \in NodeStage /\ pc # "boot"
      BY <2>1 DEF NodeStage
    <3>2. NumbersAhead(cloud, pc, job)
      BY <1>3, <3>1 DEF NumbersKept, NumbersInMemory
    <3>3. QED
      BY <2>1, <2>2, <3>1, <3>2 DEF NumbersAhead
  <2>4. PICK i \in 1 .. Len(Workers(job.mem)) : Workers(job.mem)[i] = w
    BY <2>1, <2>2, WorkersType DEF ToSet
  <2>5. cloud[w].num = i
    BY <2>1, <2>2, <2>3, <2>4, WorkersType DEF Numbered
  <2>6. QED
    BY <2>2, <2>3, <2>4, <2>5 DEF HostNumber
<1>4. QED
  BY <1>1, <1>2, <1>3, TypeCorrect, RecordKept, PTL DEF Spec
-----------------------------------------------------------------------------
(* Which worker is removed                                                 *)

\* delete-nodes does nothing but remove workers.
OnlyRemoves == job.op = "remove" => pc \in RemoveStage

LEMMA RemovesStep ==
  ASSUME TypeOK, OnlyRemoves, [Next]_vars
  PROVE  OnlyRemoves'
<1>1. job \in Job /\ NoJob.op = "none" /\ NoJob \in Job
  BY JobType, TypeParts, ControlTypes DEF NoJob, JobOK
<1>2. ASSUME NEW result, Return(result) PROVE OnlyRemoves'
  BY <1>1, <1>2 DEF Return, OnlyRemoves
<1>3. ASSUME Fail PROVE OnlyRemoves'
  BY <1>2, <1>3 DEF Fail, Continue, OnlyRemoves
<1>4. ASSUME job'.op = job.op, pc \notin RemoveStage PROVE OnlyRemoves'
  BY <1>4 DEF OnlyRemoves
<1>5. ASSUME NEW j \in Job, j.op = job.op, pc \notin RemoveStage, NextNode(j) PROVE OnlyRemoves'
  <2>1. job'.op = j.op \/ \E result : Return(result)
    BY <1>5 DEF NextNode, Continue, Job
  <2>2. QED
    BY <1>2, <1>4, <1>5, <2>1
<1>6. CASE CreateStep
  <2>1. pc \notin RemoveStage
    BY <1>6
    DEF CreateStep, Keygen, CreateSSHKeyPair, SaveSSHID, CreateNetwork, SaveNetworkID, CreateFirewall,
        SaveFirewall, CreateInstance, SaveInstance, Boot, SaveEndpoint, ConfigLoadBalancer,
        ConfigControlPlane, SaveToken, SaveKubeconfig, RemoveStage
  <2>2. CASE Fail \/ \E result : Return(result)
    BY <1>2, <1>3, <2>2
  <2>3. ASSUME NEW c \in Config
        PROVE  /\ NodeMissing(c) \in Job /\ NodeMissing(c).op = job.op
               /\ [job EXCEPT !.mem = c] \in Job /\ [job EXCEPT !.mem = c].op = job.op
    BY <1>1, <2>3 DEF NodeMissing, Job, NoID
  <2>4. job.mem \in Config /\ job.role \in Role /\ job.got \in Nat
    BY JobType
  <2>5. CASE \E j \in Job : j.op = job.op /\ NextNode(j)
    BY <1>5, <2>1, <2>5
  <2>6. CASE job'.op = job.op
    BY <1>4, <2>1, <2>6
  <2>7. CASE Keygen \/ CreateSSHKeyPair \/ SaveSSHID \/ CreateNetwork \/ SaveNetworkID
    BY <1>1, <2>2, <2>6, <2>7
    DEF Keygen, CreateSSHKeyPair, SaveSSHID, CreateNetwork, SaveNetworkID, Create, Continue, Job
  <2>8. CASE CreateFirewall \/ CreateInstance
    BY <1>1, <2>2, <2>6, <2>8 DEF CreateFirewall, CreateInstance, Create, Continue, Job
  <2>9. CASE SaveFirewall \/ SaveInstance \/ Boot \/ SaveEndpoint
    <3>1. CASE SaveFirewall
      BY <1>1, <2>2, <2>3, <2>4, <2>5, <2>6, <3>1, WriterTypes, ZenonT(40) DEF SaveFirewall, Continue, Job
    <3>2. CASE SaveInstance
      BY <1>1, <2>2, <2>3, <2>4, <2>5, <2>6, <3>2, WriterTypes, ZenonT(40) DEF SaveInstance, Continue, Job
    <3>3. CASE Boot
      BY <1>1, <2>2, <2>5, <2>6, <3>3 DEF Boot, Continue
    <3>4. CASE SaveEndpoint
      BY <1>1, <2>2, <2>3, <2>4, <2>5, <2>6, <3>4, WriterTypes DEF SaveEndpoint, Continue, Job
    <3>5. QED
      BY <2>9, <3>1, <3>2, <3>3, <3>4
  <2>10. CASE ConfigLoadBalancer \/ ConfigControlPlane \/ SaveToken \/ SaveKubeconfig
    BY <1>1, <2>2, <2>6, <2>10
    DEF ConfigLoadBalancer, ConfigControlPlane, SaveToken, SaveKubeconfig, Continue, Job
  <2>11. QED
    BY <1>6, <2>7, <2>8, <2>9, <2>10 DEF CreateStep
<1>7. CASE DeleteStep
  <2>1. pc \notin RemoveStage
    BY <1>7
    DEF DeleteStep, LoadForDelete, DeleteInstance, EndOfGroup, DeleteFirewall, DeleteNetwork,
        DeleteSSHKeyPair, DeleteAllPaths, RemoveStage
  <2>2. job'.op = job.op \/ \E result : Return(result)
    BY <1>1, <1>7
    DEF DeleteStep, LoadForDelete, DeleteInstance, EndOfGroup, DeleteFirewall, DeleteNetwork, Retried,
        DeleteSSHKeyPair, DeleteAllPaths, Continue, Job
  <2>3. QED
    BY <1>2, <1>4, <2>1, <2>2
<1>8. CASE RemoveStep
  <2>1. CASE \E stage \in RemoveStage : \E j : Continue(stage, j)
    BY <2>1 DEF Continue, OnlyRemoves
  <2>2. QED
    BY <1>2, <1>3, <1>8, <2>1 DEF RemoveStep, DropWorker, SaveDrop, RemoveStage
<1>9. CASE User
  <2>1. CASE UNCHANGED <<pc, job>>
    BY <2>1 DEF OnlyRemoves
  <2>2. CASE StartRemove
    BY <2>1, <2>2 DEF StartRemove, Refuse, Begin, OnlyRemoves, RemoveStage
  <2>3. CASE StartCreate \/ StartDelete \/ StartAdd
    <3>1. UNCHANGED <<pc, job>> \/ job'.op \in {"create", "delete", "add"}
      BY <1>1, <2>3, ZenonT(40) DEF StartCreate, StartDelete, StartAdd, Refuse, Begin, Job
    <3>2. QED
      BY <2>1, <3>1 DEF OnlyRemoves
  <2>4. QED
    BY <1>9, <2>2, <2>3 DEF User
<1>10. CASE Crash
  BY <1>2, <1>10 DEF Crash
<1>11. CASE Activate \/ DeleteByHand \/ UNCHANGED vars
  BY <1>11 DEF Activate, DeleteByHand, vars, OnlyRemoves
<1>12. QED
  BY <1>6, <1>7, <1>8, <1>9, <1>10, <1>11 DEF Next, Step

\* Unless a write fails, delete-nodes takes workers from the highest number
\* down: none on record outlives one with a smaller number.
THEOREM NewestRemovedFirst ==
  ASSUME "disk" \notin Faults
  PROVE  Spec => RemovesNewestFirst
<1> DEFINE Taken(id) == \A w \in ToSet(Workers(Info)) \cap DOMAIN cloud : cloud[w].num <= cloud[id].num
<1>1. ASSUME TypeOK, RecordInv, NumbersKept, OnlyRemoves, [Next]_vars, job.op = "remove", pc' # pc,
             NEW id \in DOMAIN cloud \ DOMAIN cloud'
      PROVE  Taken(id)
  <2>1. pc \in RemoveStage /\ Info \in Config /\ CommandInv
    BY <1>1, JobType, InvParts DEF OnlyRemoves
  <2>2. DropWorker
    <3>1. ~CreateStep /\ ~DeleteStep /\ ~User
      BY <2>1
      DEF CreateStep, Keygen, CreateSSHKeyPair, SaveSSHID, CreateNetwork, SaveNetworkID, CreateFirewall,
          SaveFirewall, CreateInstance, SaveInstance, Boot, SaveEndpoint, ConfigLoadBalancer,
          ConfigControlPlane, SaveToken, SaveKubeconfig, RemoveStage,
          DeleteStep, LoadForDelete, DeleteInstance, EndOfGroup, DeleteFirewall, DeleteNetwork,
          DeleteSSHKeyPair, DeleteAllPaths, User, StartCreate, StartDelete, StartAdd, StartRemove
    <3>2. ~SaveDrop /\ ~Crash
      BY <1>1 DEF SaveDrop, SaveSucceeds, SaveFails, Crash
    <3>3. ~Activate /\ ~DeleteByHand /\ ~UNCHANGED vars
      BY <1>1 DEF Activate, DeleteByHand, vars
    <3>4. QED
      BY <1>1, <3>1, <3>2, <3>3 DEF Next, Step, RemoveStep
  <2> DEFINE w == Workers(Info)
  <2>3. job.mem = Info /\ w # << >>
    <3>1. /\ job.mem = Info /\ job.n < job.wps /\ job.wps - job.n <= Len(w)
          /\ job.n \in Nat /\ job.wps \in Nat /\ Len(w) \in Nat
      BY <1>1, <2>1, <2>2, JobType, WorkersType DEF DropWorker, CommandInv, RemovesRecord, Workers
    <3>2. QED
      BY <3>1
  <2>4. /\ w \in Seq(Nat) /\ Len(w) \in Nat /\ DOMAIN w = 1 .. Len(w) /\ Len(w) # 0
    BY <2>1, <2>3, WorkersType, EmptySeq
  <2>5. id = w[Len(w)]
    <3>1. PICK x : (Deleted(x) \/ NotThere(x) \/ DeleteFails(x)) /\ x = Last(w)
      BY <2>2, <2>3 DEF DropWorker, NewestWorker, Workers
    <3>2. cloud' = cloud \/ cloud' = Without(cloud, x)
      BY <3>1, CallsShrink
    <3>3. id = x
      BY <1>1, <3>2 DEF Without, Restrict
    <3>4. QED
      BY <3>1, <3>3 DEF Last
  <2>6. cloud[id].num = Len(w)
    BY <1>1, <2>4, <2>5 DEF NumbersKept, Numbered
  <2>7. ASSUME NEW v \in ToSet(w) \cap DOMAIN cloud PROVE cloud[v].num <= cloud[id].num
    <3>1. PICK i \in DOMAIN w : v = w[i]
      BY DEF ToSet
    <3>2. cloud[v].num = i
      BY <1>1, <2>7, <3>1 DEF NumbersKept, Numbered
    <3>3. QED
      BY <2>4, <2>6, <3>2
  <2>8. QED
    BY <2>7
<1>2. TypeOK /\ RecordInv /\ NumbersKept /\ OnlyRemoves /\ [Next]_vars
      => [job.op = "remove" /\ pc' # pc =>
            \A id \in DOMAIN cloud \ DOMAIN cloud' :
              \A w \in ToSet(Info.inst["wp"]) \cap DOMAIN cloud : cloud[w].num <= cloud[id].num]_vars
  BY <1>1 DEF Workers
<1>3. Init => NumbersKept /\ OnlyRemoves
  BY NumberedEmpty
  DEF Init, Info, EmptyDisk, NoJob, NumbersKept, NumbersInMemory, CreateStage, NodeStage, OnlyRemoves
<1>4. TypeOK /\ RecordInv /\ NumbersKept /\ OnlyRemoves /\ [Next]_vars => (NumbersKept /\ OnlyRemoves)'
  BY NumbersStep, RemovesStep
<1>5. QED
  BY <1>2, <1>3, <1>4, TypeCorrect, RecordKept, PTL DEF Spec, RemovesNewestFirst
-----------------------------------------------------------------------------
(* What a creation has built                                               *)

\* In cloud f every object on record c exists and every machine is active,
\* but for the one that is booting.
Runs(f, c, booting) ==
  /\ Recorded(c) \cup Instances(c) \subseteq DOMAIN f
  /\ \A id \in Instances(c) \ booting : f[id].active

\* Group r of record c is there: a firewall and k machines.
Ready(c, r, k) == c.fw[r] # NoID /\ Len(c.inst[r]) = k

\* Group r is being built, and has k machines that are finished.
Underway(stage, c, r, k) ==
  /\ Len(c.inst[r]) = k + (IF stage \in {"boot", "saveEndpoint"} THEN 1 ELSE 0)
  /\ stage \notin {"newFirewall", "saveFirewall"} => c.fw[r] # NoID

DatabaseReady(c) == c.endpoint /\ Ready(c, "db", 1)
GroupsReady(j)   == DatabaseReady(j.mem) /\ Ready(j.mem, "lb", 1) /\ Ready(j.mem, "cp", j.cps)
Fetched(d)       == d.kubeconfig # "none" /\ ("ssh" \notin Faults => d.kubeconfig = "full")

\* What a creation at stage has built.
Built(stage, j) ==
  LET c == j.mem IN
  /\ stage \in Groundwork => \A r \in Role : Len(c.inst[r]) = 0
  /\ stage \in NodeStage /\ j.role = "db" =>
       Underway(stage, c, "db", 0) /\ Len(c.inst["lb"]) = 0 /\ Len(c.inst["cp"]) = 0
  /\ stage \in NodeStage /\ j.role = "lb" =>
       DatabaseReady(c) /\ Underway(stage, c, "lb", 0) /\ Len(c.inst["cp"]) = 0
  /\ stage \in NodeStage /\ j.role = "cp" =>
       DatabaseReady(c) /\ Ready(c, "lb", 1) /\ Underway(stage, c, "cp", j.n)
  /\ stage \in CreateStage \ Groundwork => GroupsReady(j)
  /\ (stage = "configCP" /\ j.n > 0) \/ stage = "kubeconfig" => c.token
  /\ stage \in NodeStage /\ j.role = "wp" => GroupsReady(j) /\ c.token
  /\ stage = "saveEndpoint" => j.role = "db"

\* A creation at stage, in cloud f with directory d.
OnTrack(f, d, stage, j) ==
  /\ d.info = j.mem /\ j.cps >= 3
  /\ stage \notin {"keygen", "newKey", "saveKey"} => d.file = "saved"
  /\ stage # "keygen" => d.keypair
  /\ stage \in NodeStage /\ j.role = "wp" => Fetched(d)
  /\ stage \in {"saveKey", "saveNetwork", "saveFirewall", "saveInstance"} => j.got \in DOMAIN f
  /\ Built(stage, j)
  /\ Runs(f, j.mem, IF stage = "boot" THEN {Last(j.mem.inst[j.role])} ELSE {})

CreationOnTrack ==
  /\ pc \in CreateStage => job.op = "create"
  /\ pc \in NodeStage => job.op = "create" \/ job.role = "wp"
  /\ pc \in CreateStage \cup NodeStage /\ job.op = "create" => OnTrack(cloud, disk, pc, job)

\* The inductive invariant.
CreationKept ==
  /\ pc # "idle" => outcome = "none"
  /\ CreationOnTrack
  /\ CreatedIsComplete
-----------------------------------------------------------------------------
(* What the ConfigWriter methods do to the groups of a record              *)

LEMMA GroupsWritten ==
  ASSUME NEW c \in Config, NEW r \in Role, NEW id \in Nat
  PROVE  /\ \A d \in {ConfigWriterSSHID(c, id), ConfigWriterNetworkID(c, id),
                      ConfigWriterDBEndpoint(c), ConfigWriterServerToken(c)} :
              d.inst = c.inst /\ d.fw = c.fw
         /\ ConfigWriterDBEndpoint(c).endpoint /\ ConfigWriterDBEndpoint(c).token = c.token
         /\ ConfigWriterServerToken(c).token /\ ConfigWriterServerToken(c).endpoint = c.endpoint
BY DEF ConfigWriterSSHID, ConfigWriterNetworkID, ConfigWriterDBEndpoint, ConfigWriterServerToken, Config

LEMMA FirewallWritten ==
  ASSUME NEW c \in Config, NEW r \in Role, NEW id \in Nat
  PROVE  LET d == ConfigWriterFirewall(c, r, id) IN
         /\ d.inst = c.inst /\ d.endpoint = c.endpoint /\ d.token = c.token
         /\ \A q \in Role : d.fw[q] = IF q = r THEN id ELSE c.fw[q]
BY DEF ConfigWriterFirewall, Config

LEMMA InstanceWritten ==
  ASSUME NEW c \in Config, NEW r \in Role, NEW id \in Nat, NEW d, d = ConfigWriterInstance(c, r, id)
  PROVE  /\ d.fw = c.fw /\ d.endpoint = c.endpoint /\ d.token = c.token
         /\ Len(d.inst[r]) = Len(c.inst[r]) + 1
         /\ \A q \in Role : Len(c.inst[q]) \in Nat /\ (q # r => Len(d.inst[q]) = Len(c.inst[q]))
         /\ Last(d.inst[r]) = id
         /\ Instances(d) = Instances(c) \cup {id}
         /\ Recorded(d) = (Recorded(c) \cup {id}) \ {NoID}
<1>1. /\ d.fw = c.fw /\ d.endpoint = c.endpoint /\ d.token = c.token
      /\ \A q \in Role : d.inst[q] = IF q = r THEN Append(c.inst[q], id) ELSE c.inst[q]
  BY DEF ConfigWriterInstance, Config
<1>2. \A q \in Role : c.inst[q] \in Seq(Nat) /\ Len(c.inst[q]) \in Nat
  BY LenProperties DEF Config
<1>3. /\ Len(Append(c.inst[r], id)) = Len(c.inst[r]) + 1
      /\ Append(c.inst[r], id)[Len(c.inst[r]) + 1] = id
  BY <1>2, AppendProperties
<1>4. Last(d.inst[r]) = id
  BY <1>1, <1>2, <1>3 DEF Last
<1>5. ToSet(d.inst[r]) = ToSet(c.inst[r]) \cup {id} /\ \A q \in Role \ {r} : ToSet(d.inst[q]) = ToSet(c.inst[q])
  BY <1>1, <1>2, AppendSet
<1>6. Instances(d) = Instances(c) \cup {id}
  BY <1>5 DEF Instances
<1>7. Len(d.inst[r]) = Len(c.inst[r]) + 1 /\ \A q \in Role : q # r => Len(d.inst[q]) = Len(c.inst[q])
  BY <1>1, <1>3
<1>8. Recorded(d) = (Recorded(c) \cup {id}) \ {NoID}
  BY WriterRecords
<1>9. QED
  BY <1>1, <1>2, <1>4, <1>6, <1>7, <1>8

\* Machines that run keep running when an object comes or an instance boots.
LEMMA RunsOn ==
  ASSUME NEW f, CloudOK(f), NEW c, NEW b, Runs(f, c, b), NEW id
  PROVE  /\ \A o : id \notin DOMAIN f => Runs(With(f, id, o), c, b)
         /\ id \in DOMAIN f => Runs(Activated(f, id), c, b)
<1>1. ASSUME NEW o, id \notin DOMAIN f PROVE Runs(With(f, id, o), c, b)
  BY <1>1 DEF Runs, With
<1>2. ASSUME id \in DOMAIN f PROVE Runs(Activated(f, id), c, b)
  BY <1>2 DEF Runs, Activated, CloudOK, Object
<1>3. QED
  BY <1>1, <1>2
-----------------------------------------------------------------------------
(* How a command goes on                                                   *)

LEMMA BuildStages ==
  /\ Groundwork \subseteq CreateStage /\ Groundwork \cap NodeStage = {}
  /\ {"configLB", "configCP", "saveToken", "kubeconfig"} = CreateStage \ Groundwork
  /\ {"newFirewall", "saveFirewall", "newInstance", "saveInstance", "boot", "saveEndpoint"} = NodeStage
BY DEF Groundwork, CreateStage, NodeStage

\* A command that fails or ends without reporting a creation.
LEMMA CreationEnds ==
  ASSUME outcome = "none",
         \/ Fail
         \/ \E result : Return(result) /\ result # "created"
         \/ \E stage \in DeleteStage \cup RemoveStage : \E j : Continue(stage, j)
  PROVE  CreationKept'
<1>1. outcome' # "created" /\ pc' \in {"idle"} \cup DeleteStage \cup RemoveStage /\ (pc' # "idle" => outcome' = "none")
  BY DEF Fail, Return, Continue, DeleteStage, RemoveStage
<1>2. QED
  BY <1>1, StageParts DEF CreationKept, CreationOnTrack, CreatedIsComplete, DeleteStage, RemoveStage

\* A command that goes on building.
LEMMA CreationGoesOn ==
  ASSUME outcome = "none", NEW stage, NEW j, Continue(stage, j),
         stage \in CreateStage => j.op = "create",
         j.op # "create" => j.role = "wp",
         j.op = "create" => OnTrack(cloud', disk', stage, j)
  PROVE  CreationKept'
BY DEF Continue, CreationKept, CreationOnTrack, CreatedIsComplete

\* A creation that is done.
LEMMA CreationDone ==
  ASSUME outcome = "none", Return("created"), NEW j \in Job,
         disk'.info = j.mem, disk'.file = "saved", disk'.keypair, Fetched(disk'),
         j.cps >= 3, GroupsReady(j), j.mem.token, Runs(cloud', j.mem, {})
  PROVE  CreationKept'
<1>1. pc' = "idle" /\ outcome' = "created" /\ Info' = j.mem
  BY DEF Return, Info
<1>2. /\ "db" \in Role /\ "lb" \in Role /\ "cp" \in Role
      /\ \A r \in Role \ {"wp"} : r \in {"db", "lb", "cp"}
  BY DEF Role
<1>3. Info'.endpoint /\ Info'.token /\ Len(Info'.inst["db"]) = 1 /\ Len(Info'.inst["lb"]) = 1
  BY <1>1 DEF GroupsReady, DatabaseReady, Ready
<1>4. Len(Info'.inst["cp"]) = j.cps /\ \A r \in {"db", "lb", "cp"} : Info'.fw[r] # NoID
  BY <1>1 DEF GroupsReady, DatabaseReady, Ready
<1>5. Recorded(Info') \subseteq DOMAIN cloud' /\ \A id \in Instances(Info') : cloud'[id].active
  BY <1>1 DEF Runs
<1>6. CreatedIsComplete'
  BY <1>2, <1>3, <1>4, <1>5 DEF CreatedIsComplete, Fetched
<1>7. QED
  BY <1>1, <1>6, StageParts DEF CreationKept, CreationOnTrack

\* The loop over the nodes of a creation whose last node runs.
LEMMA CreationNextNode ==
  ASSUME outcome = "none", NEW stage \in {"boot", "saveEndpoint"}, NEW j \in Job, NextNode(j),
         j.op # "create" => j.role = "wp",
         j.op = "create" => /\ OnTrack(cloud', disk', stage, j) /\ Runs(cloud', j.mem, {})
                            /\ j.role = "db" => j.mem.endpoint
  PROVE  CreationKept'
<1>1. /\ j.role \in Role /\ j.n \in Nat /\ j.cps \in Nat /\ j.mem \in Config
      /\ "cp" \in Role /\ "wp" \in Role /\ "lb" \in Role /\ "db" \in Role
      /\ stage \in NodeStage /\ stage \notin CreateStage /\ stage \notin Groundwork
  BY BuildStages, StageParts DEF Job, Role
<1>2. \A r \in Role : Len(j.mem.inst[r]) \in Nat
  BY <1>1, LenProperties DEF Config
<1>3. ASSUME NEW next \in {"newFirewall", "newInstance", "configLB"}, NEW k, Continue(next, k),
             k.mem = j.mem, k.op = j.op, k.cps = j.cps,
             next = "configLB" => j.op = "create",
             j.op # "create" => k.role = "wp",
             j.op = "create" => /\ Built(next, k) /\ (k.role = "wp" => j.role = "wp")
      PROVE  CreationKept'
  <2>1. ASSUME j.op = "create" PROVE OnTrack(cloud', disk', next, k)
    BY <1>1, <1>3, <2>1 DEF OnTrack
  <2>2. next \in CreateStage => next = "configLB"
    BY BuildStages, StageParts
  <2>3. QED
    BY <1>3, <2>1, <2>2, CreationGoesOn
<1>4. ASSUME j.op = "create" PROVE Built(stage, j)
  BY <1>4 DEF OnTrack
<1>5. /\ FirstStage("cp", j.mem) \in {"newFirewall", "newInstance"}
      /\ FirstStage("cp", j.mem) = "newInstance" => j.mem.fw["cp"] # NoID
      /\ FirstStage("wp", j.mem) \in {"newFirewall", "newInstance"}
  BY DEF FirstStage
<1>6. CASE j.role = "db" /\ Continue("newFirewall", [j EXCEPT !.role = "lb"])
  <2> DEFINE k == [j EXCEPT !.role = "lb"]
  <2>1. k.mem = j.mem /\ k.op = j.op /\ k.cps = j.cps /\ k.role = "lb" /\ k.n = j.n
    BY <1>1 DEF Job
  <2>2. j.op = "create" /\ j.mem.endpoint
    BY <1>6
  <2>3. /\ Ready(j.mem, "db", 1) /\ Len(j.mem.inst["lb"]) = 0 /\ Len(j.mem.inst["cp"]) = 0
    BY <1>1, <1>2, <1>4, <1>6, <2>2 DEF Built, Underway, Ready
  <2> HIDE DEF k
  <2>4. Built("newFirewall", k)
    BY <2>1, <2>2, <2>3, BuildStages, StageParts DEF Built, Underway, DatabaseReady
  <2>5. QED
    BY <1>3, <1>6, <2>1, <2>2, <2>4 DEF k
<1>7. CASE j.role = "lb" /\ Continue(FirstStage("cp", j.mem), [j EXCEPT !.role = "cp", !.n = 0])
  <2> DEFINE k == [j EXCEPT !.role = "cp", !.n = 0]
             next == FirstStage("cp", j.mem)
  <2>1. k.mem = j.mem /\ k.op = j.op /\ k.cps = j.cps /\ k.role = "cp" /\ k.n = 0
    BY <1>1 DEF Job
  <2>2. j.op = "create" /\ stage # "saveEndpoint"
    BY <1>4, <1>7 DEF Built
  <2>3. DatabaseReady(j.mem) /\ Ready(j.mem, "lb", 1) /\ Len(j.mem.inst["cp"]) = 0
    BY <1>1, <1>2, <1>4, <1>7, <2>2 DEF Built, Underway, Ready
  <2>4. next \in {"newFirewall", "newInstance"} /\ (next = "newInstance" => j.mem.fw["cp"] # NoID)
    BY <1>5
  <2> HIDE DEF k, next
  <2>5. Built(next, k)
    BY <2>1, <2>2, <2>3, <2>4, BuildStages, StageParts DEF Built, Underway
  <2>6. QED
    BY <1>3, <1>7, <2>1, <2>2, <2>4, <2>5 DEF k, next
<1>8. CASE j.role = "cp" /\ Continue(FirstStage("cp", j.mem), [j EXCEPT !.n = @ + 1])
  <2> DEFINE k == [j EXCEPT !.n = @ + 1]
             next == FirstStage("cp", j.mem)
  <2>1. k.mem = j.mem /\ k.op = j.op /\ k.cps = j.cps /\ k.role = "cp" /\ k.n = j.n + 1
    BY <1>1, <1>8 DEF Job
  <2>2. j.op = "create" /\ stage # "saveEndpoint"
    BY <1>4, <1>8 DEF Built
  <2>3. /\ DatabaseReady(j.mem) /\ Ready(j.mem, "lb", 1) /\ Len(j.mem.inst["cp"]) = j.n + 1
    BY <1>1, <1>2, <1>4, <1>8, <2>2 DEF Built, Underway
  <2>4. next \in {"newFirewall", "newInstance"} /\ (next = "newInstance" => j.mem.fw["cp"] # NoID)
    BY <1>5
  <2> HIDE DEF k, next
  <2>5. Built(next, k)
    BY <1>1, <2>1, <2>2, <2>3, <2>4, BuildStages, StageParts DEF Built, Underway
  <2>6. QED
    BY <1>3, <1>8, <2>1, <2>2, <2>4, <2>5 DEF k, next
<1>9. CASE j.role = "cp" /\ j.n + 1 = j.cps /\ Continue("configLB", j)
  <2>1. j.op = "create" /\ stage # "saveEndpoint"
    BY <1>4, <1>9 DEF Built
  <2>2. /\ DatabaseReady(j.mem) /\ Ready(j.mem, "lb", 1) /\ Ready(j.mem, "cp", j.cps)
    BY <1>1, <1>2, <1>4, <1>9, <2>1 DEF Built, Underway, Ready
  <2>3. Built("configLB", j)
    BY <2>2, BuildStages, StageParts DEF Built, GroupsReady
  <2>4. QED
    BY <1>3, <1>9, <2>1, <2>3
<1>10. CASE j.role = "wp" /\ Continue(FirstStage("wp", j.mem), [j EXCEPT !.n = @ + 1])
  <2> DEFINE k == [j EXCEPT !.n = @ + 1]
             next == FirstStage("wp", j.mem)
  <2>1. k.mem = j.mem /\ k.op = j.op /\ k.cps = j.cps /\ k.role = "wp" /\ k.n = j.n + 1
    BY <1>1, <1>10 DEF Job
  <2>2. next \in {"newFirewall", "newInstance"}
    BY <1>5
  <2> HIDE DEF k, next
  <2>3. ASSUME j.op = "create" PROVE Built(next, k)
    <3>1. GroupsReady(j) /\ j.mem.token
      BY <1>1, <1>4, <1>10, <2>3 DEF Built
    <3>2. GroupsReady(k) /\ k.mem.token
      BY <2>1, <3>1 DEF GroupsReady
    <3>3. QED
      BY <2>1, <2>2, <3>2, BuildStages, StageParts DEF Built
  <2>4. QED
    BY <1>3, <1>10, <2>1, <2>2, <2>3 DEF k, next
<1>11. CASE j.role = "wp" /\ Return(IF j.op = "create" THEN "created" ELSE "added")
  <2>1. CASE j.op = "create"
    <3>1. GroupsReady(j) /\ j.mem.token
      BY <1>1, <1>4, <1>11, <2>1 DEF Built
    <3>2. QED
      BY <1>1, <1>11, <2>1, <3>1, CreationDone DEF OnTrack
  <2>2. CASE j.op # "create"
    BY <1>11, <2>2, CreationEnds
  <2>3. QED
    BY <2>1, <2>2
<1>12. QED
  BY <1>6, <1>7, <1>8, <1>9, <1>10, <1>11 DEF NextNode
-----------------------------------------------------------------------------
(* The steps                                                               *)

\* A creation: the new object exists and is in hand.
LEMMA CreationCreate ==
  ASSUME TypeOK, CreationKept, NEW o, NEW next, Create(o, next),
         \/ pc = "newKey" /\ next = "saveKey"
         \/ pc = "newNetwork" /\ next = "saveNetwork"
         \/ pc = "newFirewall" /\ next = "saveFirewall"
         \/ pc = "newInstance" /\ next = "saveInstance"
  PROVE  CreationKept'
<1>1. job \in Job /\ CloudOK(cloud) /\ outcome = "none"
  BY JobType DEF CreationKept
<1>2. CASE Fail
  BY <1>1, <1>2, CreationEnds
<1>3. CASE \E id \in Fresh : /\ cloud' = With(cloud, id, o)
                            /\ Continue(next, [job EXCEPT !.got = id])
                            /\ UNCHANGED <<disk, strays>>
  <2>1. PICK id \in Fresh : /\ cloud' = With(cloud, id, o)
                            /\ Continue(next, [job EXCEPT !.got = id])
                            /\ UNCHANGED disk
    BY <1>3
  <2> DEFINE j == [job EXCEPT !.got = id]
  <2>2. /\ j.mem = job.mem /\ j.op = job.op /\ j.role = job.role /\ j.n = job.n
        /\ j.cps = job.cps /\ j.got = id
    BY <1>1 DEF Job
  <2> HIDE DEF j
  <2>3. /\ pc \in CreateStage <=> next \in CreateStage
        /\ pc \in Groundwork <=> next \in Groundwork
        /\ pc \in NodeStage <=> next \in NodeStage
        /\ pc \in CreateStage \cup NodeStage
    BY DEF CreateStage, NodeStage, Groundwork
  <2>4. ASSUME job.op = "create" PROVE OnTrack(cloud', disk', next, j)
    <3>1. OnTrack(cloud, disk, pc, job)
      BY <2>3, <2>4 DEF CreationKept, CreationOnTrack
    <3>2. Built(next, j)
      BY <2>2, <2>3, <3>1 DEF OnTrack, Built, GroupsReady, Underway
    <3>3. id \notin DOMAIN cloud
      BY FreshIsNew
    <3>4. Runs(cloud, job.mem, {})
      BY <3>1 DEF OnTrack
    <3>5. Runs(cloud', job.mem, {})
      BY <1>1, <2>1, <3>3, <3>4, RunsOn
    <3>6. id \in DOMAIN cloud'
      BY <2>1 DEF With
    <3>7. QED
      BY <2>1, <2>2, <2>3, <3>1, <3>2, <3>5, <3>6 DEF OnTrack
  <2>5. /\ next \in CreateStage => job.op = "create"
        /\ job.op # "create" => job.role = "wp"
    BY <2>3 DEF CreationKept, CreationOnTrack
  <2>6. QED
    BY <1>1, <2>1, <2>2, <2>4, <2>5, CreationGoesOn DEF j
<1>4. QED
  BY <1>2, <1>3 DEF Create

\* A save: what was in hand is on record.
LEMMA CreationSave ==
  ASSUME TypeOK, CreationKept, NEW c \in Config, SaveSucceeds(c),
         NEW next, NEW j, Continue(next, j), j.mem = c, j.op = job.op, j.cps = job.cps,
         pc \in CreateStage \cup NodeStage, pc # "keygen", pc # "boot",
         j.op # "create" => j.role = "wp",
         next \in CreateStage => job.op = "create",
         next \notin {"saveKey", "saveNetwork", "saveFirewall", "saveInstance", "keygen"},
         next \in NodeStage /\ j.role = "wp" => pc \in NodeStage /\ job.role = "wp",
         job.op = "create" /\ OnTrack(cloud, disk, pc, job) =>
           Built(next, j) /\ Runs(cloud, c, IF next = "boot" THEN {Last(c.inst[j.role])} ELSE {})
  PROVE  CreationKept'
<1>1. /\ cloud' = cloud /\ disk'.info = c /\ disk'.file = "saved"
      /\ disk'.keypair = disk.keypair /\ disk'.kubeconfig = disk.kubeconfig
  BY JobType DEF SaveSucceeds, Saved, Disk
<1>2. outcome = "none"
  BY StageParts DEF CreationKept
<1>3. ASSUME job.op = "create" PROVE OnTrack(cloud', disk', next, j)
  <2>1. OnTrack(cloud, disk, pc, job)
    BY <1>3 DEF CreationKept, CreationOnTrack
  <2>2. Built(next, j) /\ Runs(cloud, c, IF next = "boot" THEN {Last(c.inst[j.role])} ELSE {})
    BY <1>3, <2>1
  <2>3. next \in NodeStage /\ j.role = "wp" => Fetched(disk')
    BY <1>1, <2>1 DEF OnTrack, Fetched
  <2>4. QED
    BY <1>1, <2>1, <2>2, <2>3 DEF OnTrack
<1>4. QED
  BY <1>2, <1>3, CreationGoesOn

LEMMA CreationGroundwork ==
  ASSUME "disk" \notin Faults, TypeOK, RecordInv, CreationKept,
         Keygen \/ CreateSSHKeyPair \/ SaveSSHID \/ CreateNetwork \/ SaveNetworkID
  PROVE  CreationKept'
<1>1. /\ job \in Job /\ job.mem \in Config /\ job.got \in Nat /\ job.role \in Role
      /\ disk \in Disk /\ CloudOK(cloud) /\ \A k : ~SaveFails(k)
      /\ pc \in CreateStage => job.op = "create" /\ OnTrack(cloud, disk, pc, job) /\ Ahead(cloud, Info, pc, job)
  BY JobType DEF CreationKept, CreationOnTrack, RecordInv, MemoryAhead, SaveFails, Fault
<1>2. pc \in Groundwork /\ pc \in CreateStage /\ outcome = "none" /\ job.op = "create"
  BY <1>1 DEF CreationKept, CreateStage, Groundwork, Keygen, CreateSSHKeyPair, SaveSSHID, CreateNetwork, SaveNetworkID
<1>3. ASSUME NEW c \in Config, c.inst = job.mem.inst,
             Recorded(c) = (Recorded(job.mem) \cup {job.got}) \ {NoID},
             pc \in {"saveKey", "saveNetwork"}
      PROVE  Runs(cloud, c, {}) /\ \A r \in Role : Len(c.inst[r]) = 0
  <2>1. Instances(c) = Instances(job.mem)
    BY <1>3 DEF Instances
  <2>2. Runs(cloud, job.mem, {}) /\ job.got \in DOMAIN cloud
    BY <1>1, <1>2, <1>3 DEF OnTrack
  <2>3. QED
    BY <1>1, <1>2, <1>3, <2>1, <2>2 DEF Runs, OnTrack, Built
<1>4. CASE Keygen
  <2>1. CASE Fail
    BY <1>2, <2>1, CreationEnds
  <2>2. CASE disk' = [disk EXCEPT !.keypair = TRUE] /\ Continue("newKey", job)
    <3>1. /\ disk'.info = disk.info /\ disk'.keypair /\ UNCHANGED cloud /\ pc = "keygen"
      BY <1>1, <1>4, <2>2 DEF Disk, Keygen
    <3>2. "newKey" \in Groundwork /\ "newKey" \in CreateStage /\ "newKey" \notin NodeStage
      BY DEF Groundwork, CreateStage, NodeStage
    <3>3. Built("newKey", job)
      BY <1>1, <1>2, <3>2 DEF OnTrack, Built
    <3>4. OnTrack(cloud', disk', "newKey", job)
      BY <1>1, <1>2, <3>1, <3>2, <3>3 DEF OnTrack
    <3>5. QED
      BY <1>2, <2>2, <3>4, CreationGoesOn
  <2>3. QED
    BY <1>4, <2>1, <2>2 DEF Keygen
<1>5. CASE CreateSSHKeyPair
  BY <1>5, CreationCreate DEF CreateSSHKeyPair
<1>6. CASE SaveSSHID
  <2> DEFINE c == ConfigWriterSSHID(job.mem, job.got)
             j == [job EXCEPT !.mem = c, !.key = job.got, !.got = NoID]
  <2>1. SaveSucceeds(c) /\ Continue("newNetwork", j) /\ pc = "saveKey"
    BY <1>1, <1>6 DEF SaveSSHID
  <2>2. c \in Config /\ j.mem = c /\ j.op = job.op /\ j.cps = job.cps
    BY <1>1, WriterTypes DEF Job
  <2>3. job.mem.sshID = NoID
    BY <1>1, <1>2, <2>1 DEF Ahead, EmptyConfig
  <2>4. c.inst = job.mem.inst /\ Recorded(c) = (Recorded(job.mem) \cup {job.got}) \ {NoID}
    BY <1>1, <2>3, WriterRecords, GroupsWritten
  <2> HIDE DEF c, j
  <2>5. Runs(cloud, c, {}) /\ \A r \in Role : Len(c.inst[r]) = 0
    BY <1>3, <2>1, <2>2, <2>4
  <2>6. Built("newNetwork", j)
    BY <2>2, <2>5 DEF Built, Groundwork, CreateStage, NodeStage
  <2>7. "newNetwork" \notin NodeStage
    BY DEF NodeStage
  <2>8. QED
    BY <1>2, <2>1, <2>2, <2>5, <2>6, <2>7, CreationSave
<1>7. CASE CreateNetwork
  BY <1>7, CreationCreate DEF CreateNetwork
<1>8. CASE SaveNetworkID
  <2> DEFINE c == ConfigWriterNetworkID(job.mem, job.got)
             j == [job EXCEPT !.mem = c, !.got = NoID, !.role = "db"]
  <2>1. SaveSucceeds(c) /\ Continue("newFirewall", j) /\ pc = "saveNetwork"
    BY <1>1, <1>8 DEF SaveNetworkID
  <2>2. c \in Config /\ j.mem = c /\ j.op = job.op /\ j.cps = job.cps /\ j.role = "db"
    BY <1>1, WriterTypes DEF Job
  <2>3. job.mem.networkID = NoID
    BY <1>1, <1>2, <2>1 DEF Ahead
  <2>4. c.inst = job.mem.inst /\ Recorded(c) = (Recorded(job.mem) \cup {job.got}) \ {NoID}
    BY <1>1, <2>3, WriterRecords, GroupsWritten
  <2> HIDE DEF c, j
  <2>5. Runs(cloud, c, {}) /\ \A r \in Role : Len(c.inst[r]) = 0
    BY <1>3, <2>1, <2>2, <2>4
  <2>6. "db" \in Role /\ "lb" \in Role /\ "cp" \in Role
    BY DEF Role
  <2>7. Len(c.inst["db"]) = 0 /\ Len(c.inst["lb"]) = 0 /\ Len(c.inst["cp"]) = 0
    BY <2>5, <2>6
  <2>8. "newFirewall" \notin CreateStage /\ "newFirewall" \notin Groundwork
    BY DEF Groundwork, CreateStage
  <2>9. Built("newFirewall", j)
    BY <2>2, <2>7, <2>8 DEF Built, Underway
  <2>10. QED
    BY <1>2, <2>1, <2>2, <2>5, <2>8, <2>9, CreationSave
<1>9. QED
  BY <1>4, <1>5, <1>6, <1>7, <1>8

LEMMA CreationNodes ==
  ASSUME "disk" \notin Faults, TypeOK, RecordInv, CreationKept,
         CreateFirewall \/ SaveFirewall \/ CreateInstance \/ SaveInstance \/ Boot \/ SaveEndpoint
  PROVE  CreationKept'
<1>1. /\ job \in Job /\ job.mem \in Config /\ job.got \in Nat /\ job.role \in Role /\ NoID \notin IDs
      /\ disk \in Disk /\ CloudOK(cloud) /\ \A k : ~SaveFails(k)
      /\ pc \in NodeStage => (job.op # "create" => job.role = "wp") /\ Ahead(cloud, Info, pc, job)
      /\ pc \in NodeStage /\ job.op = "create" => OnTrack(cloud, disk, pc, job)
  BY JobType, IDsAssumption DEF CreationKept, CreationOnTrack, RecordInv, MemoryAhead, SaveFails, Fault
<1>2. pc \in NodeStage /\ outcome = "none"
  BY DEF CreationKept, NodeStage, CreateFirewall, SaveFirewall, CreateInstance, SaveInstance, Boot, SaveEndpoint
<1>3. CASE CreateFirewall \/ CreateInstance
  BY <1>3, CreationCreate DEF CreateFirewall, CreateInstance
<1>4. CASE SaveFirewall
  <2> DEFINE c == ConfigWriterFirewall(job.mem, job.role, job.got)
             j == [job EXCEPT !.mem = c, !.got = NoID]
  <2>1. SaveSucceeds(c) /\ Continue("newInstance", j) /\ pc = "saveFirewall"
    BY <1>1, <1>4 DEF SaveFirewall
  <2>2. c \in Config /\ j.mem = c /\ j.op = job.op /\ j.cps = job.cps /\ j.role = job.role /\ j.n = job.n
    BY <1>1, WriterTypes DEF Job
  <2>3. /\ c.inst = job.mem.inst /\ c.endpoint = job.mem.endpoint /\ c.token = job.mem.token
        /\ \A q \in Role : c.fw[q] = IF q = job.role THEN job.got ELSE job.mem.fw[q]
        /\ Recorded(c) = (Recorded(job.mem) \cup {job.got}) \ {NoID}
    BY <1>1, <1>2, <2>1, FirewallWritten, WriterRecords DEF Ahead
  <2>4. Instances(c) = Instances(job.mem)
    BY <2>3 DEF Instances
  <2> HIDE DEF c, j
  <2>5. ASSUME job.op = "create", OnTrack(cloud, disk, pc, job)
        PROVE  Built("newInstance", j) /\ Runs(cloud, c, {})
    <3>1. job.got \in DOMAIN cloud /\ job.got # NoID /\ Runs(cloud, job.mem, {}) /\ Built(pc, job)
      BY <1>1, <2>1, <2>5 DEF OnTrack, CloudOK
    <3>2. Runs(cloud, c, {})
      BY <2>3, <2>4, <3>1 DEF Runs
    <3>3. "db" \in Role /\ "lb" \in Role /\ "cp" \in Role
      BY DEF Role
    <3>4. /\ c.fw[job.role] # NoID /\ \A q \in Role : job.mem.fw[q] # NoID => c.fw[q] # NoID
      BY <1>1, <2>3, <3>1
    <3>5. Built("newInstance", j)
      BY <1>2, <2>1, <2>2, <2>3, <3>1, <3>3, <3>4, BuildStages
      DEF Built, Underway, Ready, DatabaseReady, GroupsReady
    <3>6. QED
      BY <3>2, <3>5
  <2>6. "newInstance" \notin CreateStage
    BY DEF CreateStage
  <2>7. QED
    BY <1>1, <1>2, <2>1, <2>2, <2>5, <2>6, CreationSave
<1>5. CASE SaveInstance
  <2> DEFINE c == ConfigWriterInstance(job.mem, job.role, job.got)
             j == [job EXCEPT !.mem = c, !.got = NoID]
  <2>1. SaveSucceeds(c) /\ Continue("boot", j) /\ pc = "saveInstance"
    BY <1>1, <1>5 DEF SaveInstance
  <2>2. /\ c \in Config /\ j.mem = c /\ j.op = job.op /\ j.cps = job.cps /\ j.role = job.role /\ j.n = job.n
        /\ c = ConfigWriterInstance(job.mem, job.role, job.got)
    BY <1>1, WriterTypes DEF Job
  <2> HIDE DEF c, j
  <2>3. /\ c.fw = job.mem.fw /\ c.endpoint = job.mem.endpoint /\ c.token = job.mem.token
        /\ Len(c.inst[job.role]) = Len(job.mem.inst[job.role]) + 1
        /\ \A q \in Role : /\ Len(job.mem.inst[q]) \in Nat
                           /\ q # job.role => Len(c.inst[q]) = Len(job.mem.inst[q])
        /\ Last(c.inst[job.role]) = job.got
        /\ Instances(c) = Instances(job.mem) \cup {job.got}
        /\ Recorded(c) = (Recorded(job.mem) \cup {job.got}) \ {NoID}
    <3>1. job.mem \in Config /\ job.role \in Role /\ job.got \in Nat /\ c = ConfigWriterInstance(job.mem, job.role, job.got)
      BY <1>1, <2>2
    <3>2. c.fw = job.mem.fw /\ c.endpoint = job.mem.endpoint /\ c.token = job.mem.token
      BY <3>1, InstanceWritten
    <3>3. Len(c.inst[job.role]) = Len(job.mem.inst[job.role]) + 1
      BY <3>1, InstanceWritten, SMTT(30)
    <3>4. \A q \in Role : Len(job.mem.inst[q]) \in Nat /\ (q # job.role => Len(c.inst[q]) = Len(job.mem.inst[q]))
      BY <3>1, InstanceWritten
    <3>5. Last(c.inst[job.role]) = job.got
      BY <3>1, InstanceWritten
    <3>6. Instances(c) = Instances(job.mem) \cup {job.got}
      BY <3>1, InstanceWritten
    <3>7. Recorded(c) = (Recorded(job.mem) \cup {job.got}) \ {NoID}
      BY <3>1, InstanceWritten
    <3>8. QED
      BY <3>2, <3>3, <3>4, <3>5, <3>6, <3>7
  <2>4. ASSUME job.op = "create", OnTrack(cloud, disk, pc, job)
        PROVE  Built("boot", j) /\ Runs(cloud, c, {Last(c.inst[j.role])})
    <3>1. job.got \in DOMAIN cloud /\ Runs(cloud, job.mem, {}) /\ Built(pc, job)
      BY <1>1, <2>1, <2>4 DEF OnTrack, CloudOK
    <3>2. Runs(cloud, c, {Last(c.inst[j.role])})
      BY <2>2, <2>3, <3>1 DEF Runs
    <3>3. "db" \in Role /\ "lb" \in Role /\ "cp" \in Role
      BY DEF Role
    <3>4. ASSUME NEW k \in Nat, Underway("saveInstance", job.mem, job.role, k)
          PROVE  Underway("boot", c, job.role, k)
      BY <1>1, <2>3, <3>4 DEF Underway
    <3>5. Built("boot", j)
      <4>1. /\ job.n \in Nat /\ 0 \in Nat /\ "boot" \in NodeStage
            /\ "boot" \notin CreateStage /\ "boot" \notin Groundwork
        BY <1>1, BuildStages, StageParts DEF Job
      <4>2. CASE job.role = "db"
        BY <2>1, <2>2, <2>3, <3>1, <3>3, <3>4, <4>1, <4>2, BuildStages, SMTT(30) DEF Built, Ready, DatabaseReady
      <4>3. CASE job.role = "lb"
        BY <2>1, <2>2, <2>3, <3>1, <3>3, <3>4, <4>1, <4>3, BuildStages, SMTT(20) DEF Built, Ready, DatabaseReady
      <4>4. CASE job.role = "cp"
        BY <2>1, <2>2, <2>3, <3>1, <3>3, <3>4, <4>1, <4>4, BuildStages, ZenonT(40) DEF Built, Ready, DatabaseReady
      <4>5. CASE job.role = "wp"
        BY <2>1, <2>2, <2>3, <3>1, <3>3, <4>1, <4>5, BuildStages, SMTT(20) DEF Built, Ready, DatabaseReady, GroupsReady
      <4>6. QED
        BY <1>1, <4>2, <4>3, <4>4, <4>5 DEF Role
    <3>6. QED
      BY <3>2, <3>5
  <2>5. "boot" \notin CreateStage
    BY DEF CreateStage
  <2>6. QED
    BY <1>1, <1>2, <2>1, <2>2, <2>4, <2>5, CreationSave
<1>6. CASE Boot
  <2> DEFINE id == Last(job.mem.inst[job.role])
  <2>1. pc = "boot" /\ UNCHANGED <<cloud, disk>>
    BY <1>6 DEF Boot
  <2>2. CASE Fail
    BY <1>2, <2>2, CreationEnds
  <2>3. CASE cloud[id].active /\ (IF job.role = "db" THEN Continue("saveEndpoint", job) ELSE NextNode(job))
    <3>1. ASSUME job.op = "create" PROVE Runs(cloud, job.mem, {}) /\ Built("boot", job)
      BY <1>1, <1>2, <2>1, <2>3, <3>1 DEF OnTrack, Runs
    <3>2. CASE job.role # "db"
      BY <1>1, <1>2, <2>1, <2>3, <3>1, <3>2, CreationNextNode
    <3>3. CASE job.role = "db"
      <4>1. ASSUME job.op = "create" PROVE Built("saveEndpoint", job)
        BY <3>1, <3>3, <4>1, BuildStages DEF Built, Underway
      <4>2. ASSUME job.op = "create" PROVE OnTrack(cloud', disk', "saveEndpoint", job)
        BY <1>1, <1>2, <2>1, <3>1, <3>3, <4>1, <4>2 DEF OnTrack
      <4>3. "saveEndpoint" \notin CreateStage
        BY DEF CreateStage
      <4>4. QED
        BY <1>1, <1>2, <2>3, <3>3, <4>2, <4>3, CreationGoesOn
    <3>4. QED
      BY <3>2, <3>3
  <2>4. QED
    BY <1>6, <2>2, <2>3 DEF Boot
<1>7. CASE SaveEndpoint
  <2> DEFINE c == ConfigWriterDBEndpoint(job.mem)
             j == [job EXCEPT !.mem = c]
  <2>1. SaveSucceeds(c) /\ NextNode(j) /\ pc = "saveEndpoint"
    BY <1>1, <1>7 DEF SaveEndpoint
  <2>2. /\ c \in Config /\ j \in Job /\ j.mem = c /\ j.op = job.op /\ j.cps = job.cps
        /\ j.role = job.role /\ j.n = job.n
    BY <1>1, WriterTypes DEF Job
  <2>3. /\ c.inst = job.mem.inst /\ c.fw = job.mem.fw /\ c.endpoint /\ c.token = job.mem.token
        /\ Recorded(c) = Recorded(job.mem)
    BY <1>1, GroupsWritten, WriterRecords
  <2>4. Instances(c) = Instances(job.mem)
    BY <2>3 DEF Instances
  <2>5. /\ cloud' = cloud /\ disk'.info = c /\ disk'.file = "saved"
        /\ disk'.keypair = disk.keypair /\ disk'.kubeconfig = disk.kubeconfig
    BY <1>1, <2>1 DEF SaveSucceeds, Saved, Disk
  <2> HIDE DEF c, j
  <2>6. ASSUME j.op = "create" PROVE OnTrack(cloud', disk', "saveEndpoint", j) /\ Runs(cloud', j.mem, {})
    <3>1. OnTrack(cloud, disk, "saveEndpoint", job)
      BY <1>1, <1>2, <2>1, <2>2, <2>6
    <3>2. Runs(cloud', c, {})
      BY <2>3, <2>4, <2>5, <3>1 DEF OnTrack, Runs
    <3>3. Built("saveEndpoint", j)
      BY <2>2, <2>3, <3>1, BuildStages DEF OnTrack, Built, Underway, Ready, DatabaseReady, GroupsReady
    <3>4. Fetched(disk) => Fetched(disk')
      BY <2>5 DEF Fetched
    <3>5. QED
      BY <2>2, <2>5, <3>1, <3>2, <3>3, <3>4 DEF OnTrack
  <2>7. QED
    BY <1>1, <1>2, <2>1, <2>2, <2>3, <2>6, CreationNextNode
<1>8. QED
  BY <1>3, <1>4, <1>5, <1>6, <1>7

LEMMA CreationConfigures ==
  ASSUME "disk" \notin Faults, TypeOK, RecordInv, CreationKept,
         ConfigLoadBalancer \/ ConfigControlPlane \/ SaveToken \/ SaveKubeconfig
  PROVE  CreationKept'
<1>1. pc \in CreateStage \ Groundwork /\ pc # "keygen" /\ pc # "boot"
  BY BuildStages DEF ConfigLoadBalancer, ConfigControlPlane, SaveToken, SaveKubeconfig, Groundwork
<1>2. /\ job \in Job /\ job.mem \in Config /\ job.got \in Nat /\ job.role \in Role
      /\ job.n \in Nat /\ job.cps \in Nat /\ disk \in Disk /\ outcome = "none"
      /\ job.op = "create" /\ OnTrack(cloud, disk, pc, job) /\ pc \notin NodeStage
  BY <1>1, JobType, StageParts DEF Job, CreationKept, CreationOnTrack
<1>3. /\ GroupsReady(job) /\ Runs(cloud, job.mem, {}) /\ job.cps >= 3
      /\ disk.info = job.mem /\ disk.file = "saved" /\ disk.keypair
      /\ (pc = "configCP" /\ job.n > 0) \/ pc = "kubeconfig" => job.mem.token
  BY <1>1, <1>2 DEF OnTrack, Built, Groundwork
<1>4. CASE Fail \/ Return("panic")
  BY <1>2, <1>4, CreationEnds
<1>5. ASSUME NEW next \in CreateStage \ Groundwork, NEW j, Continue(next, j), UNCHANGED <<cloud, disk>>,
             j.mem = job.mem, j.op = job.op, j.cps = job.cps,
             next = "configCP" => j.n = 0 \/ j.mem.token, next = "kubeconfig" => j.mem.token
      PROVE  CreationKept'
  <2>1. Built(next, j)
    BY <1>3, <1>5, BuildStages, StageParts DEF Built, GroupsReady
  <2>2. /\ next \notin {"saveKey", "saveNetwork", "saveFirewall", "saveInstance", "boot", "keygen"}
        /\ next \notin NodeStage
    BY <1>5, BuildStages, StageParts
  <2>3. OnTrack(cloud', disk', next, j)
    BY <1>3, <1>5, <2>1, <2>2 DEF OnTrack
  <2>4. QED
    BY <1>2, <1>5, <2>3, CreationGoesOn
<1>6. CASE ConfigLoadBalancer
  <2>1. CASE Continue("configCP", [job EXCEPT !.n = 0])
    <3> DEFINE j == [job EXCEPT !.n = 0]
    <3>1. j.mem = job.mem /\ j.op = job.op /\ j.cps = job.cps /\ j.n = 0
      BY <1>2 DEF Job
    <3>2. UNCHANGED <<cloud, disk>>
      BY <1>6 DEF ConfigLoadBalancer, ScriptRuns, ScriptFails
    <3> HIDE DEF j
    <3>3. QED
      BY <1>5, <2>1, <3>1, <3>2, BuildStages DEF j
  <2>2. QED
    BY <1>4, <1>6, <2>1 DEF ConfigLoadBalancer
<1>7. CASE ConfigControlPlane
  <2>1. UNCHANGED <<cloud, disk>> /\ pc = "configCP"
    BY <1>7 DEF ConfigControlPlane, ScriptRuns, ScriptFails
  <2>2. CASE Continue("saveToken", job)
    BY <1>2, <1>5, <2>1, <2>2, BuildStages
  <2>3. CASE /\ job.n > 0
             /\ Continue(IF job.n + 1 = job.cps THEN "kubeconfig" ELSE "configCP", [job EXCEPT !.n = @ + 1])
    <3> DEFINE j == [job EXCEPT !.n = @ + 1]
               next == IF job.n + 1 = job.cps THEN "kubeconfig" ELSE "configCP"
    <3>1. j.mem = job.mem /\ j.op = job.op /\ j.cps = job.cps /\ j.mem.token
      BY <1>2, <1>3, <2>1, <2>3 DEF Job
    <3>2. next \in CreateStage \ Groundwork /\ Continue(next, j)
      BY <2>3, BuildStages
    <3> HIDE DEF j, next
    <3>3. QED
      BY <1>5, <2>1, <3>1, <3>2
  <2>4. QED
    BY <1>4, <1>7, <2>2, <2>3 DEF ConfigControlPlane
<1>8. CASE SaveToken
  <2> DEFINE c == ConfigWriterServerToken(job.mem)
             j == [job EXCEPT !.mem = c, !.n = 1]
  <2>1. SaveSucceeds(c) /\ Continue("configCP", j) /\ pc = "saveToken"
    BY <1>8 DEF SaveToken, SaveFails, Fault
  <2>2. c \in Config /\ j.mem = c /\ j.op = job.op /\ j.cps = job.cps
    BY <1>2, WriterTypes DEF Job
  <2>3. /\ c.inst = job.mem.inst /\ c.fw = job.mem.fw /\ c.token /\ c.endpoint = job.mem.endpoint
        /\ Recorded(c) = Recorded(job.mem)
    BY <1>2, GroupsWritten, WriterRecords
  <2>4. Instances(c) = Instances(job.mem)
    BY <2>3 DEF Instances
  <2> HIDE DEF c, j
  <2>5. Runs(cloud, c, {})
    BY <1>3, <2>3, <2>4 DEF Runs
  <2>6. GroupsReady(j)
    BY <1>3, <2>2, <2>3 DEF GroupsReady, DatabaseReady, Ready
  <2>7. "configCP" \in CreateStage \ Groundwork /\ "configCP" \notin NodeStage
    BY BuildStages, StageParts
  <2>8. Built("configCP", j)
    BY <2>2, <2>3, <2>6, <2>7 DEF Built
  <2>9. QED
    BY <1>1, <1>2, <2>1, <2>2, <2>5, <2>7, <2>8, CreationSave
<1>9. CASE SaveKubeconfig
  <2> DEFINE id == job.mem.inst["cp"][1]
  <2>1. pc = "kubeconfig" /\ job.mem.token /\ UNCHANGED cloud
    BY <1>3, <1>9 DEF SaveKubeconfig
  <2>2. id \in DOMAIN cloud
    <3>1. "cp" \in Role /\ job.mem.inst["cp"] \in Seq(Nat) /\ Len(job.mem.inst["cp"]) = job.cps
      BY <1>2, <1>3 DEF Role, Config, GroupsReady, Ready
    <3>2. DOMAIN job.mem.inst["cp"] = 1 .. job.cps /\ 1 \in 1 .. job.cps
      BY <1>2, <1>3, <3>1, LenProperties
    <3>3. id \in ToSet(job.mem.inst["cp"])
      BY <3>2 DEF ToSet
    <3>4. id \in Instances(job.mem)
      BY <3>1, <3>3 DEF Instances
    <3>5. QED
      BY <1>3, <3>4 DEF Runs
  <2>3. CASE Fail
    BY <1>4, <2>3
  <2>4. CASE /\ disk' = [disk EXCEPT !.kubeconfig = "full"]
                \/ ("ssh" \in Faults /\ disk' = [disk EXCEPT !.kubeconfig = "empty"])
             /\ \/ Return("created")
                \/ Continue(FirstStage("wp", job.mem), [job EXCEPT !.role = "wp", !.n = 0])
    <3>1. disk'.info = job.mem /\ disk'.file = "saved" /\ disk'.keypair /\ Fetched(disk')
      BY <1>2, <1>3, <2>4 DEF Disk, Fetched
    <3>2. CASE Return("created")
      BY <1>2, <1>3, <2>1, <3>1, <3>2, CreationDone
    <3>3. CASE Continue(FirstStage("wp", job.mem), [job EXCEPT !.role = "wp", !.n = 0])
      <4> DEFINE j == [job EXCEPT !.role = "wp", !.n = 0]
                 next == FirstStage("wp", job.mem)
      <4>1. j.mem = job.mem /\ j.op = job.op /\ j.cps = job.cps /\ j.role = "wp"
        BY <1>2 DEF Job
      <4>2. next \in {"newFirewall", "newInstance"} /\ next \in NodeStage /\ next \notin CreateStage /\ next \notin Groundwork
        BY BuildStages, StageParts DEF FirstStage, Groundwork
      <4> HIDE DEF j, next
      <4>3. GroupsReady(j)
        BY <1>3, <4>1 DEF GroupsReady
      <4>4. Built(next, j)
        BY <2>1, <4>1, <4>2, <4>3, BuildStages DEF Built
      <4>5. OnTrack(cloud', disk', next, j)
        BY <1>3, <2>1, <3>1, <4>1, <4>2, <4>4 DEF OnTrack
      <4>6. QED
        BY <1>2, <3>3, <4>1, <4>2, <4>5, CreationGoesOn DEF j, next
    <3>4. QED
      BY <2>4, <3>2, <3>3
  <2>5. QED
    BY <1>9, <2>2, <2>3, <2>4 DEF SaveKubeconfig, Fault
<1>10. QED
  BY <1>6, <1>7, <1>8, <1>9

\* A creation starts with a record that is empty.
LEMMA CreationUser ==
  ASSUME TypeOK, RecordInv, CreationKept, User
  PROVE  CreationKept'
<1>1. UNCHANGED <<cloud, disk>> /\ NoJob \in Job /\ NoJob.mem = EmptyConfig /\ NoJob.op = "none" /\ Info = disk.info
  BY TypeParts, ControlTypes
  DEF User, StartCreate, StartDelete, StartAdd, StartRemove, Refuse, JobOK, NoJob, Info
<1>2. ASSUME NEW result, Refuse(result), result # "created", pc = "idle" PROVE CreationKept'
  BY <1>2, StageParts DEF Refuse, CreationKept, CreationOnTrack, CreatedIsComplete
<1>3. ASSUME NEW stage \in {"guard", "dropWorker"}, NEW j, Begin(stage, j) PROVE CreationKept'
  BY <1>3 DEF Begin, CreationKept, CreationOnTrack, CreatedIsComplete, CreateStage, NodeStage
<1>4. CASE StartCreate
  <2>1. PICK cps \in CPCounts, wps \in WPCounts :
          \/ Refuse("failed")
          \/ Begin("guard", [NoJob EXCEPT !.op = "create", !.cps = cps, !.wps = wps])
          \/ /\ ~isPresent /\ IsValidNoOfControlPlanes(cps)
             /\ Begin("keygen", [NoJob EXCEPT !.op = "create", !.cps = cps, !.wps = wps])
    BY <1>4 DEF StartCreate
  <2>2. CASE /\ ~isPresent /\ IsValidNoOfControlPlanes(cps)
             /\ Begin("keygen", [NoJob EXCEPT !.op = "create", !.cps = cps, !.wps = wps])
    <3> DEFINE j == [[NoJob EXCEPT !.op = "create", !.cps = cps, !.wps = wps] EXCEPT !.found = disk.file # "absent"]
    <3>1. pc' = "keygen" /\ job' = j /\ outcome' = "none"
      BY <2>2 DEF Begin
    <3>2. j.mem = EmptyConfig /\ j.op = "create" /\ j.cps = cps /\ cps >= 3
      BY <1>1, <2>2 DEF Job, IsValidNoOfControlPlanes
    <3> HIDE DEF j
    <3>3. disk.info = EmptyConfig
      BY <1>1, <2>2 DEF isPresent, RecordInv, NoFileNoRecord
    <3>4. "keygen" \in Groundwork /\ "keygen" \in CreateStage /\ "keygen" \notin NodeStage
      BY DEF Groundwork, CreateStage, NodeStage
    <3>5. \A r \in Role : Len(EmptyConfig.inst[r]) = 0
      BY DEF EmptyConfig
    <3>6. Built("keygen", j)
      BY <3>2, <3>4, <3>5 DEF Built
    <3>7. Runs(cloud', EmptyConfig, {})
      BY EmptyRecord DEF Runs
    <3>8. OnTrack(cloud', disk', "keygen", j)
      BY <1>1, <3>2, <3>3, <3>4, <3>6, <3>7 DEF OnTrack
    <3>9. QED
      BY <3>1, <3>2, <3>4, <3>8 DEF CreationKept, CreationOnTrack, CreatedIsComplete
  <2>3. QED
    BY <1>2, <1>3, <1>4, <2>1, <2>2 DEF StartCreate
<1>5. CASE StartDelete
  BY <1>2, <1>3, <1>5 DEF StartDelete
<1>6. CASE StartAdd
  <2>1. PICK k \in WPCounts \ {0} :
          \/ Refuse("failed") \/ Refuse("panic")
          \/ Begin(FirstStage("wp", Info),
                   [NoJob EXCEPT !.op = "add", !.mem = Info, !.role = "wp",
                                 !.wps = k, !.base = Len(Info.inst["wp"])])
    BY <1>6 DEF StartAdd
  <2> DEFINE i == [NoJob EXCEPT !.op = "add", !.mem = Info, !.role = "wp",
                                !.wps = k, !.base = Len(Info.inst["wp"])]
             j == [i EXCEPT !.found = disk.file # "absent"]
             next == FirstStage("wp", Info)
  <2>2. j.op = "add" /\ j.role = "wp"
    BY <1>1 DEF Job
  <2>3. next \in NodeStage /\ next \notin CreateStage /\ next # "idle"
    BY BuildStages, StageParts DEF FirstStage
  <2>4. CASE Begin(next, i)
    <3>1. pc' = next /\ job' = j /\ outcome' = "none"
      BY <2>4 DEF Begin
    <3> HIDE DEF j, next
    <3>2. QED
      BY <2>2, <2>3, <3>1 DEF CreationKept, CreationOnTrack, CreatedIsComplete
  <2>5. QED
    BY <1>2, <1>6, <2>1, <2>4 DEF StartAdd
<1>7. CASE StartRemove
  BY <1>2, <1>3, <1>7 DEF StartRemove
<1>8. QED
  BY <1>4, <1>5, <1>6, <1>7 DEF User

LEMMA CreationStep ==
  ASSUME "disk" \notin Faults, "dashboard" \notin Faults, TypeOK, RecordInv, CreationKept, [Next]_vars
  PROVE  CreationKept'
<1>1. CASE CreateStep
  BY <1>1, CreationGroundwork, CreationNodes, CreationConfigures DEF CreateStep
<1>2. CASE DeleteStep
  <2>1. pc # "idle" /\ outcome = "none"
    BY <1>2
    DEF DeleteStep, LoadForDelete, DeleteInstance, EndOfGroup, DeleteFirewall, DeleteNetwork,
        DeleteSSHKeyPair, DeleteAllPaths, CreationKept
  <2>2. \/ \E result : Return(result) /\ result # "created"
        \/ \E stage \in DeleteStage \cup RemoveStage : \E j : Continue(stage, j)
    <3>1. {"delInstances", "delFirewalls", "delNetwork", "delKey", "delPaths"} \subseteq DeleteStage
      BY DEF DeleteStage
    <3>2. QED
      BY <1>2, <3>1
      DEF DeleteStep, LoadForDelete, DeleteInstance, EndOfGroup, DeleteFirewall, DeleteNetwork,
          DeleteSSHKeyPair, DeleteAllPaths
  <2>3. QED
    BY <2>1, <2>2, CreationEnds
<1>3. CASE RemoveStep
  <2>1. pc # "idle" /\ outcome = "none"
    BY <1>3 DEF RemoveStep, DropWorker, SaveDrop, CreationKept
  <2>2. \/ Fail
        \/ \E result : Return(result) /\ result # "created"
        \/ \E stage \in DeleteStage \cup RemoveStage : \E j : Continue(stage, j)
    BY <1>3 DEF RemoveStep, DropWorker, SaveDrop, RemoveStage
  <2>3. QED
    BY <2>1, <2>2, CreationEnds
<1>4. CASE User
  BY <1>4, CreationUser
<1>5. CASE Crash
  BY <1>5, CreationEnds DEF Crash, CreationKept
<1>6. CASE Activate
  <2>1. PICK id \in DOMAIN cloud : cloud' = Activated(cloud, id)
    BY <1>6 DEF Activate
  <2>2. UNCHANGED <<disk, pc, job, outcome>> /\ CloudOK(cloud)
    BY <1>6, JobType DEF Activate
  <2>3. DOMAIN cloud' = DOMAIN cloud /\ \A i \in DOMAIN cloud : cloud[i].active => cloud'[i].active
    BY <2>1, <2>2 DEF Activated, CloudOK, Object
  <2>4. ASSUME OnTrack(cloud, disk, pc, job) PROVE OnTrack(cloud', disk', pc, job)
    BY <2>1, <2>2, <2>3, <2>4, RunsOn DEF OnTrack
  <2>5. ASSUME outcome = "created" PROVE CreatedIsComplete'
    <3>1. UNCHANGED Info /\ Info \in Config
      BY <2>2, JobType DEF Info
    <3>2. ASSUME NEW machine \in Instances(Info) PROVE cloud'[machine].active
      <4>1. cloud[machine].active
        BY <2>5 DEF CreationKept, CreatedIsComplete
      <4>2. QED
        BY <2>1, <2>2, <4>1 DEF Activated, CloudOK, Object
    <3>3. QED
      BY <2>2, <2>3, <2>5, <3>1, <3>2 DEF CreationKept, CreatedIsComplete
  <2>6. CreatedIsComplete'
    BY <2>2, <2>5 DEF CreatedIsComplete
  <2>7. QED
    BY <2>2, <2>4, <2>6 DEF CreationKept, CreationOnTrack
<1>7. CASE UNCHANGED vars
  BY <1>7 DEF vars, CreationKept, CreationOnTrack, CreatedIsComplete, Info
<1>8. QED
  BY <1>1, <1>2, <1>3, <1>4, <1>5, <1>6, <1>7 DEF Next, Step, DeleteByHand, Fault

\* When no write fails and nobody else deletes machines, a creation that
\* reports success has built everything, whatever other call failed or got
\* lost before: every group has its firewall and its machines, all of them
\* exist and run, and the endpoint, the token and the kubeconfig are there.
THEOREM CreationComplete ==
  ASSUME "disk" \notin Faults, "dashboard" \notin Faults
  PROVE  Spec => []CreatedIsComplete
<1>1. Init => CreationKept
  BY StageParts DEF Init, CreationKept, CreationOnTrack, CreatedIsComplete
<1>2. TypeOK /\ RecordInv /\ CreationKept /\ [Next]_vars => CreationKept'
  BY CreationStep
<1>3. CreationKept => CreatedIsComplete
  BY DEF CreationKept
<1>4. QED
  BY <1>1, <1>2, <1>3, TypeCorrect, RecordKept, PTL DEF Spec
\* A creation numbers its nodes from one.
CountsFromNone == job.op = "create" => job.base = 0

LEMMA CountsFromNoneStep ==
  ASSUME TypeOK, CountsFromNone, [Next]_vars
  PROVE  CountsFromNone'
<1>1. job \in Job /\ NoJob \in Job /\ NoJob.op = "none" /\ NoJob.base = 0
  BY JobType, TypeParts, ControlTypes DEF NoJob, JobOK
<1>2. ASSUME NEW result, Return(result) PROVE CountsFromNone'
  BY <1>1, <1>2 DEF Return, CountsFromNone
<1>3. ASSUME job'.op = job.op, job'.base = job.base PROVE CountsFromNone'
  BY <1>3 DEF CountsFromNone
<1>4. ASSUME Fail PROVE CountsFromNone'
  BY <1>2, <1>3, <1>4 DEF Fail, Continue
<1>5. ASSUME NEW j \in Job, j.op = job.op, j.base = job.base, NextNode(j) PROVE CountsFromNone'
  <2>1. (job'.op = j.op /\ job'.base = j.base) \/ \E result : Return(result)
    BY <1>5 DEF NextNode, Continue, Job
  <2>2. QED
    BY <1>2, <1>3, <1>5, <2>1
<1>6. CASE CreateStep
  <2>1. CASE Fail \/ \E result : Return(result)
    BY <1>2, <1>4, <2>1
  <2>2. ASSUME NEW c \in Config
        PROVE  /\ NodeMissing(c) \in Job /\ NodeMissing(c).op = job.op /\ NodeMissing(c).base = job.base
               /\ [job EXCEPT !.mem = c] \in Job
               /\ [job EXCEPT !.mem = c].op = job.op /\ [job EXCEPT !.mem = c].base = job.base
    BY <1>1, <2>2 DEF NodeMissing, Job, NoID
  <2>3. job.mem \in Config /\ job.role \in Role /\ job.got \in Nat
    BY JobType
  <2>4. CASE \E j \in Job : j.op = job.op /\ j.base = job.base /\ NextNode(j)
    BY <1>5, <2>4
  <2>5. CASE job'.op = job.op /\ job'.base = job.base
    BY <1>3, <2>5
  <2>6. CASE Keygen \/ CreateSSHKeyPair \/ SaveSSHID \/ CreateNetwork \/ SaveNetworkID
    BY <1>1, <2>1, <2>5, <2>6
    DEF Keygen, CreateSSHKeyPair, SaveSSHID, CreateNetwork, SaveNetworkID, Create, Continue, Job
  <2>7. CASE CreateFirewall \/ CreateInstance
    BY <1>1, <2>1, <2>5, <2>7 DEF CreateFirewall, CreateInstance, Create, Continue, Job
  <2>8. CASE SaveFirewall \/ SaveInstance \/ Boot \/ SaveEndpoint
    <3>1. CASE SaveFirewall
      BY <1>1, <2>2, <2>3, <2>4, <2>5, <3>1, WriterTypes, ZenonT(40) DEF SaveFirewall, Continue, Job
    <3>2. CASE SaveInstance
      BY <1>1, <2>2, <2>3, <2>4, <2>5, <3>2, WriterTypes, ZenonT(40) DEF SaveInstance, Continue, Job
    <3>3. CASE Boot
      BY <1>1, <2>1, <2>4, <2>5, <3>3 DEF Boot, Continue
    <3>4. CASE SaveEndpoint
      BY <1>1, <2>1, <2>2, <2>3, <2>4, <3>4, WriterTypes DEF SaveEndpoint
    <3>5. QED
      BY <2>8, <3>1, <3>2, <3>3, <3>4
  <2>9. CASE ConfigLoadBalancer \/ ConfigControlPlane \/ SaveToken \/ SaveKubeconfig
    BY <1>1, <2>1, <2>5, <2>9
    DEF ConfigLoadBalancer, ConfigControlPlane, SaveToken, SaveKubeconfig, Continue, Job
  <2>10. QED
    BY <1>6, <2>6, <2>7, <2>8, <2>9 DEF CreateStep
<1>7. CASE DeleteStep
  <2>1. CASE LoadForDelete
    BY <1>1, <1>2, <2>1 DEF LoadForDelete, Continue, CountsFromNone, NoJob
  <2>2. CASE DeleteInstance \/ EndOfGroup \/ DeleteFirewall \/ DeleteNetwork \/ DeleteSSHKeyPair \/ DeleteAllPaths
    <3>1. (job'.op = job.op /\ job'.base = job.base) \/ \E result : Return(result)
      BY <1>1, <2>2
      DEF DeleteInstance, EndOfGroup, DeleteFirewall, DeleteNetwork, Retried, DeleteSSHKeyPair,
          DeleteAllPaths, Continue, Job
    <3>2. QED
      BY <1>2, <1>3, <3>1
  <2>3. QED
    BY <1>7, <2>1, <2>2 DEF DeleteStep
<1>8. CASE RemoveStep
  <2>1. Fail \/ (\E result : Return(result)) \/ (job'.op = job.op /\ job'.base = job.base)
    BY <1>1, <1>8 DEF RemoveStep, DropWorker, SaveDrop, Continue, Job
  <2>2. QED
    BY <1>2, <1>3, <1>4, <2>1
<1>9. CASE User
  <2>1. CASE UNCHANGED job
    BY <2>1 DEF CountsFromNone
  <2>2. CASE job'.op \in {"delete", "add", "remove"} \/ job'.base = 0
    BY <2>2 DEF CountsFromNone
  <2>3. CASE StartCreate \/ StartDelete
    BY <1>1, <2>1, <2>2, <2>3, ZenonT(40) DEF StartCreate, StartDelete, Refuse, Begin, Job, NoJob
  <2>4. CASE StartAdd \/ StartRemove
    BY <1>1, <2>1, <2>2, <2>4 DEF StartAdd, StartRemove, Refuse, Begin, Job
  <2>5. QED
    BY <1>9, <2>3, <2>4 DEF User
<1>10. CASE Crash
  BY <1>2, <1>10 DEF Crash
<1>11. CASE Activate \/ DeleteByHand \/ UNCHANGED vars
  BY <1>11 DEF Activate, DeleteByHand, vars, CountsFromNone
<1>12. QED
  BY <1>6, <1>7, <1>8, <1>9, <1>10, <1>11 DEF Next, Step

\* Where a creation reports success: behind the kubeconfig or the last worker.
LEMMA CreatedBy ==
  ASSUME "disk" \notin Faults, TypeOK, NumbersKept, [Next]_vars, outcome' = "created", outcome # "created"
  PROVE  /\ Info' = Info
         /\ \/ pc = "kubeconfig" /\ job.wps = 0
            \/ pc = "boot" /\ job.role = "wp" /\ job.op = "create" /\ job.n + 1 = job.wps
<1>1. ASSUME Fail PROVE FALSE
  BY <1>1 DEF Fail, Continue, Return
<1>2. ASSUME NEW j, NextNode(j) PROVE j.role = "wp" /\ j.op = "create" /\ j.n + 1 = j.wps
  BY <1>2 DEF NextNode, Continue, Return
<1>3. ~Refuse("failed") /\ ~Refuse("panic") /\ ~Refuse("declined")
  BY DEF Refuse
<1>4. ~User
  BY <1>3 DEF User, StartCreate, StartDelete, StartAdd, StartRemove, Begin
<1>5. ~DeleteStep /\ ~RemoveStep
  BY <1>1
  DEF DeleteStep, LoadForDelete, DeleteInstance, EndOfGroup, DeleteFirewall, DeleteNetwork,
      DeleteSSHKeyPair, DeleteAllPaths, RemoveStep, DropWorker, SaveDrop, Continue, Return
<1>6. ~Crash /\ ~Activate /\ ~DeleteByHand /\ ~UNCHANGED vars
  BY DEF Crash, Activate, DeleteByHand, vars, Return
<1>7. CreateStep
  BY <1>4, <1>5, <1>6 DEF Next, Step
<1>8. \A k : ~SaveFails(k)
  BY DEF SaveFails, Fault
<1>9. ~SaveEndpoint
  <2>1. ASSUME SaveEndpoint PROVE job.role = "db"
    BY <2>1 DEF SaveEndpoint, NumbersKept, NumbersInMemory, NumbersAhead, NodeStage
  <2>2. ASSUME SaveEndpoint PROVE NextNode([job EXCEPT !.mem = ConfigWriterDBEndpoint(job.mem)])
    BY <1>1, <2>2 DEF SaveEndpoint
  <2>3. QED
    BY <1>2, <2>1, <2>2, JobType DEF Job
<1>10. ~(Keygen \/ CreateSSHKeyPair \/ SaveSSHID \/ CreateNetwork \/ SaveNetworkID \/ CreateFirewall \/ CreateInstance)
  BY <1>1
  DEF Keygen, CreateSSHKeyPair, SaveSSHID, CreateNetwork, SaveNetworkID, CreateFirewall, CreateInstance,
      Create, Continue
<1>11. ~(SaveFirewall \/ SaveInstance \/ ConfigLoadBalancer \/ ConfigControlPlane \/ SaveToken)
  BY <1>1, <1>8
  DEF SaveFirewall, SaveInstance, ConfigLoadBalancer, ConfigControlPlane, SaveToken, Continue, Return
<1>12. CASE SaveKubeconfig
  <2>1. pc = "kubeconfig" /\ job.wps = 0
    BY <1>1, <1>12 DEF SaveKubeconfig, Continue
  <2>2. Info' = Info
    BY <1>1, <1>12, JobType DEF SaveKubeconfig, Disk, Info
  <2>3. QED
    BY <2>1, <2>2
<1>13. CASE Boot
  <2>1. pc = "boot" /\ NextNode(job) /\ UNCHANGED disk
    BY <1>1, <1>13 DEF Boot, Continue
  <2>2. QED
    BY <1>2, <2>1 DEF Info
<1>14. QED
  BY <1>7, <1>9, <1>10, <1>11, <1>12, <1>13 DEF CreateStep

\* When no write fails and nobody else deletes machines, a creation that
\* reports success has all the control planes and workers on record that the
\* user has asked for.
THEOREM CreationAsAsked ==
  ASSUME "disk" \notin Faults, "dashboard" \notin Faults
  PROVE  Spec => CreatedAsAsked
<1> DEFINE Counted == Len(Info'.inst["cp"]) = job.cps /\ Len(Info'.inst["wp"]) = job.wps
<1>1. ASSUME TypeOK, NumbersKept, CreationKept, CountsFromNone, [Next]_vars, outcome' = "created", outcome # "created"
      PROVE  Counted
  <2>1. /\ Info' = Info
        /\ \/ pc = "kubeconfig" /\ job.wps = 0
           \/ pc = "boot" /\ job.role = "wp" /\ job.op = "create" /\ job.n + 1 = job.wps
    BY <1>1, CreatedBy
  <2>2. /\ "kubeconfig" \in CreateStage \ Groundwork /\ "boot" \in NodeStage
        /\ "kubeconfig" \notin NodeStage /\ "boot" \notin CreateStage
    BY DEF CreateStage, NodeStage, Groundwork
  <2>3. OnTrack(cloud, disk, pc, job)
    BY <1>1, <2>1, <2>2 DEF CreationKept, CreationOnTrack
  <2>4. Info = job.mem /\ GroupsReady(job)
    BY <2>1, <2>2, <2>3 DEF OnTrack, Built, Info
  <2>5. Len(Info.inst["cp"]) = job.cps
    BY <2>4 DEF GroupsReady, Ready
  <2>6. NumbersAhead(cloud, pc, job)
    BY <1>1, <2>1, <2>2 DEF NumbersKept, NumbersInMemory
  <2>7. CASE pc = "kubeconfig" /\ job.wps = 0
    BY <2>1, <2>2, <2>4, <2>5, <2>6, <2>7 DEF NumbersAhead, Workers
  <2>8. CASE pc = "boot" /\ job.role = "wp" /\ job.op = "create" /\ job.n + 1 = job.wps
    <3>1. job.base = 0 /\ job.n \in Nat
      BY <1>1, <2>8, JobType DEF CountsFromNone
    <3>2. Len(Workers(job.mem)) = job.n + 1
      BY <2>2, <2>6, <2>8, <3>1 DEF NumbersAhead
    <3>3. QED
      BY <2>1, <2>4, <2>5, <2>8, <3>2 DEF Workers
  <2>9. QED
    BY <2>1, <2>7, <2>8
<1>2. TypeOK /\ NumbersKept /\ CreationKept /\ CountsFromNone /\ [Next]_vars
        => [outcome' = "created" /\ outcome # "created" => Counted]_vars
  BY <1>1
<1>3. Init => NumbersKept /\ CreationKept /\ CountsFromNone
  BY NumberedEmpty, StageParts
  DEF Init, Info, EmptyDisk, NoJob, NumbersKept, NumbersInMemory, CreateStage, NodeStage,
      CreationKept, CreationOnTrack, CreatedIsComplete, CountsFromNone
<1>4. TypeOK /\ RecordInv /\ NumbersKept /\ CreationKept /\ CountsFromNone /\ [Next]_vars
        => (NumbersKept /\ CreationKept /\ CountsFromNone)'
  BY NumbersStep, CreationStep, CountsFromNoneStep
<1>5. QED
  BY <1>2, <1>3, <1>4, TypeCorrect, RecordKept, PTL DEF Spec, CreatedAsAsked
-----------------------------------------------------------------------------
(* Every command comes to its end                                          *)

\* Every set of natural numbers has a least element.
LEMMA LeastNatural ==
  ASSUME NEW T \in SUBSET Nat, T # {}
  PROVE  \E x \in T : \A y \in T : x <= y
<1> DEFINE Less == OpToRel(<, Nat)
<1>1. Less = {p \in Nat \X Nat : p[1] < p[2]}
  BY DEF OpToRel
<1>2. IsWellFoundedOn(Less, Nat)
  BY NatLessThanWellFounded
<1> HIDE DEF Less
<1>3. PICK x \in T : \A y \in T : ~ (<<y, x>> \in Less)
  BY <1>2, WFMin
<1>4. ASSUME NEW y \in T PROVE x <= y
  <2>1. x \in Nat /\ y \in Nat /\ ~ (<<y, x>> \in Less)
    BY <1>3
  <2>2. <<y, x>> \in Nat \X Nat /\ <<y, x>>[1] = y /\ <<y, x>>[2] = x
    BY <2>1
  <2>3. ~ (y < x)
    BY <1>1, <2>1, <2>2, Zenon
  <2>4. QED
    BY <2>1, <2>3
<1>5. QED
  BY <1>4

\* There is no endless sequence of triples each of which comes before the
\* one it follows: what counts down in this order comes to an end.
THEOREM NoEndlessDescent ==
  ~ \E f \in [Nat -> Triple] : \A n \in Nat : Before(f[n + 1], f[n])
<1> SUFFICES ASSUME NEW f \in [Nat -> Triple], \A n \in Nat : Before(f[n + 1], f[n])
             PROVE  FALSE
  OBVIOUS
<1>1. \A n \in Nat : /\ f[n][1] \in Nat /\ f[n][2] \in Nat /\ f[n][3] \in Nat
                     /\ n + 1 \in Nat /\ Before(f[n + 1], f[n])
  <2> TAKE n \in Nat
  <2>1. f[n] \in Nat \X Nat \X Nat
    BY DEF Triple
  <2>2. n + 1 \in Nat /\ Before(f[n + 1], f[n])
    OBVIOUS
  <2>3. QED
    BY <2>1, <2>2
<1>2. PICK a \in Nat : (\E n \in Nat : f[n][1] = a) /\ \A n \in Nat : a <= f[n][1]
  <2> DEFINE T == {f[n][1] : n \in Nat}
  <2>1. T \in SUBSET Nat /\ f[0][1] \in T
    BY <1>1
  <2>2. PICK x \in T : \A y \in T : x <= y
    BY <2>1, LeastNatural
  <2>3. QED
    BY <2>1, <2>2
<1>3. PICK b \in Nat : /\ \E n \in Nat : f[n][1] = a /\ f[n][2] = b
                       /\ \A n \in Nat : f[n][1] = a => b <= f[n][2]
  <2> DEFINE T == {f[n][2] : n \in {k \in Nat : f[k][1] = a}}
  <2>1. T \in SUBSET Nat /\ T # {}
    BY <1>1, <1>2
  <2>2. PICK x \in T : \A y \in T : x <= y
    BY <2>1, LeastNatural
  <2>3. QED
    BY <2>1, <2>2
<1>4. PICK c \in Nat : /\ \E n \in Nat : f[n][1] = a /\ f[n][2] = b /\ f[n][3] = c
                       /\ \A n \in Nat : f[n][1] = a /\ f[n][2] = b => c <= f[n][3]
  <2> DEFINE T == {f[n][3] : n \in {k \in Nat : f[k][1] = a /\ f[k][2] = b}}
  <2>1. T \in SUBSET Nat /\ T # {}
    BY <1>1, <1>3
  <2>2. PICK x \in T : \A y \in T : x <= y
    BY <2>1, LeastNatural
  <2>3. QED
    BY <2>1, <2>2
<1>5. PICK n \in Nat : f[n][1] = a /\ f[n][2] = b /\ f[n][3] = c
  BY <1>4
<1> DEFINE x == f[n + 1][1]
           y == f[n + 1][2]
           z == f[n + 1][3]
<1>6. /\ a <= x
      /\ x = a => b <= y
      /\ x = a /\ y = b => c <= z
      /\ x \in Nat /\ y \in Nat /\ z \in Nat
  <2>1. n + 1 \in Nat
    OBVIOUS
  <2>2. QED
    BY <1>1, <1>2, <1>3, <1>4, <2>1
<1>7. x < a \/ (x = a /\ y < b) \/ (x = a /\ y = b /\ z < c)
  BY <1>1, <1>5 DEF Before
<1> HIDE DEF x, y, z
<1>8. QED
  BY <1>6, <1>7

\* A command at stage is within the loop it is in.
WithinLoop(stage, j) ==
  /\ stage \in CreateStage => j.op = "create"
  /\ stage \in NodeStage => j.op = "create" \/ j.role = "wp"
  /\ stage \in RemoveStage => j.op = "remove" /\ j.n < j.wps
  /\ stage \in CreateStage \cup NodeStage /\ j.op = "create" => j.cps >= 3
  /\ stage \in NodeStage /\ j.role = "cp" => j.n < j.cps
  /\ stage \in NodeStage /\ j.role = "wp" => j.n < j.wps
  /\ stage = "configCP" => j.n < j.cps
  /\ stage = "saveToken" => j.n = 0
  /\ stage = "delInstances" => j.n <= Len(j.mem.inst[j.role])
  /\ stage = "delFirewalls" => j.n <= Len(FirewallOrder)

LEMMA Legs ==
  /\ \A r \in Role, s \in Groundwork : Leg(s, r) = 15
  /\ \A s \in NodeStage : Leg(s, "db") = 14 /\ Leg(s, "lb") = 13 /\ Leg(s, "cp") = 12 /\ Leg(s, "wp") = 8
  /\ \A r \in Role : /\ Leg("configLB", r) = 11 /\ Leg("kubeconfig", r) = 9
                     /\ Leg("configCP", r) = 10 /\ Leg("saveToken", r) = 10
                     /\ Leg("guard", r) = 7 /\ Leg("delInstances", r) = 6 /\ Leg("delFirewalls", r) = 5
                     /\ Leg("delNetwork", r) = 4 /\ Leg("delKey", r) = 3 /\ Leg("delPaths", r) = 2
                     /\ Leg("dropWorker", r) = 1 /\ Leg("saveDrop", r) = 1 /\ Leg("idle", r) = 0
BY DEF Leg, Groundwork, NodeStage, RemoveStage, Role

LEMMA RoundsInLoops ==
  ASSUME NEW j
  PROVE  /\ \A s \in Groundwork \cup {"configLB", "kubeconfig", "guard", "delKey", "delPaths", "idle"} :
              Rounds(s, j) = 0
         /\ \A s \in NodeStage :
              Rounds(s, j) = IF j.role = "cp" THEN j.cps - j.n ELSE IF j.role = "wp" THEN j.wps - j.n ELSE 0
         /\ Rounds("configCP", j) = j.cps - j.n /\ Rounds("saveToken", j) = j.cps - j.n
         /\ Rounds("dropWorker", j) = j.wps - j.n /\ Rounds("saveDrop", j) = j.wps - j.n
         /\ Rounds("delInstances", j) = GroupsLeft[j.role]
         /\ Rounds("delFirewalls", j) = Len(FirewallOrder) - j.n
         /\ Rounds("delNetwork", j) = MaxRetry - j.retry
BY DEF Rounds, Groundwork, NodeStage, RemoveStage

LEMMA CallsInRound ==
  ASSUME NEW j
  PROVE  /\ Calls("delInstances", j) = Len(j.mem.inst[j.role]) - j.n
         /\ Calls("newFirewall", j) = 6 /\ Calls("saveFirewall", j) = 5 /\ Calls("newInstance", j) = 4
         /\ Calls("saveInstance", j) = 3 /\ Calls("boot", j) = 2 /\ Calls("saveEndpoint", j) = 1
         /\ Calls("keygen", j) = 5 /\ Calls("newKey", j) = 4 /\ Calls("saveKey", j) = 3
         /\ Calls("newNetwork", j) = 2 /\ Calls("saveNetwork", j) = 1
         /\ Calls("configCP", j) = 2 /\ Calls("saveToken", j) = 1
         /\ Calls("dropWorker", j) = 2 /\ Calls("saveDrop", j) = 1
         /\ \A s \in {"configLB", "kubeconfig", "guard", "delFirewalls", "delNetwork", "delKey", "delPaths", "idle"} :
              Calls(s, j) = 0
BY DEF Calls

LEMMA GroupsInOrder ==
  /\ \A r \in Role : GroupsLeft[r] \in Nat
  /\ \A r \in Role \ {"db"} : NextGroup[r] \in Role /\ GroupsLeft[NextGroup[r]] < GroupsLeft[r]
BY DEF GroupsLeft, NextGroup, Role

\* What is left is never negative.
LEMMA LeftIsTriple ==
  ASSUME NEW stage \in Stage, NEW j \in Job, j.retry < MaxRetry, WithinLoop(stage, j)
  PROVE  <<Leg(stage, j.role), Rounds(stage, j), Calls(stage, j)>> \in Triple
<1>1. /\ j.role \in Role /\ j.n \in Nat /\ j.cps \in Nat /\ j.wps \in Nat /\ j.retry \in Nat /\ MaxRetry \in Nat
      /\ j.mem \in Config
  BY BoundsAssumption DEF Job
<1>2. Len(j.mem.inst[j.role]) \in Nat
  BY <1>1 DEF Config
<1>3. Len(FirewallOrder) = 4
  BY DEF FirewallOrder
<1>4. Leg(stage, j.role) \in Nat
  BY <1>1, Legs DEF Stage, CreateStage, NodeStage, DeleteStage, RemoveStage, Groundwork, Role
<1>5. Rounds(stage, j) \in Nat
  <2>1. CASE stage \in NodeStage
    BY <1>1, <2>1, RoundsInLoops DEF WithinLoop
  <2>2. CASE stage \in CreateStage
    BY <1>1, <2>2, RoundsInLoops DEF WithinLoop, CreateStage, Groundwork
  <2>3. CASE stage \in DeleteStage
    BY <1>1, <1>3, <2>3, RoundsInLoops, GroupsInOrder, SMTT(20) DEF WithinLoop, DeleteStage
  <2>4. CASE stage \in RemoveStage \cup {"idle"}
    BY <1>1, <2>4, RoundsInLoops DEF WithinLoop, RemoveStage
  <2>5. QED
    BY <2>1, <2>2, <2>3, <2>4 DEF Stage
<1>6. Calls(stage, j) \in Nat
  <2>1. CASE stage = "delInstances"
    <3> DEFINE size == Len(j.mem.inst[j.role])
    <3>1. Calls(stage, j) = size - j.n /\ j.n <= size /\ size \in Nat
      BY <1>2, <2>1, CallsInRound DEF WithinLoop
    <3> HIDE DEF size
    <3>2. QED
      BY <1>1, <3>1
  <2>2. CASE stage # "delInstances"
    BY <2>2 DEF Calls
  <2>3. QED
    BY <2>1, <2>2
<1>7. QED
  BY <1>4, <1>5, <1>6 DEF Triple

\* The step that was made leads to a stage and a job that are closer to the
\* end of the command.
Nearer == WithinLoop(pc', job') /\ Before(Left', Left)

\* A running command, before and after a step.
Running ==
  /\ pc \in Stage /\ pc' \in Stage /\ job \in Job /\ job' \in Job
  /\ job.retry < MaxRetry /\ job'.retry < MaxRetry
  /\ WithinLoop(pc, job)

LEMMA NextLeg ==
  ASSUME Running, WithinLoop(pc', job'), Leg(pc', job'.role) < Leg(pc, job.role)
  PROVE  Nearer
BY LeftIsTriple DEF Running, Nearer, Before, Left, Triple

LEMMA NextRound ==
  ASSUME Running, WithinLoop(pc', job'), Leg(pc', job'.role) = Leg(pc, job.role),
         Rounds(pc', job') < Rounds(pc, job)
  PROVE  Nearer
BY LeftIsTriple DEF Running, Nearer, Before, Left, Triple

LEMMA NextCall ==
  ASSUME Running, WithinLoop(pc', job'), Leg(pc', job'.role) = Leg(pc, job.role),
         Rounds(pc', job') = Rounds(pc, job), Calls(pc', job') < Calls(pc, job)
  PROVE  Nearer
BY LeftIsTriple DEF Running, Nearer, Before, Left, Triple

LEMMA LegsLeft ==
  ASSUME NEW stage \in Stage \ {"idle"}, NEW r \in Role
  PROVE  /\ Leg(stage, r) > 0
         /\ stage \in CreateStage \cup NodeStage => Leg(stage, r) > 7
<1>1. "db" \in Role /\ "lb" \in Role /\ "cp" \in Role /\ "wp" \in Role
  BY DEF Role
<1>2. stage \in NodeStage => Leg(stage, r) \in 8..15
  BY Legs DEF Role
<1>3. stage \in CreateStage => Leg(stage, r) \in 8..15
  BY Legs DEF CreateStage, Groundwork
<1>4. stage \in DeleteStage \cup RemoveStage => Leg(stage, r) \in 1..15 /\ stage \notin CreateStage \cup NodeStage
  BY Legs DEF DeleteStage, RemoveStage, CreateStage, NodeStage
<1>5. QED
  BY <1>2, <1>3, <1>4 DEF Stage

LEMMA IdleIsWithin == WithinLoop("idle", NoJob) /\ \A j : WithinLoop("guard", j)
BY DEF WithinLoop, CreateStage, NodeStage, RemoveStage

LEMMA ReturnIsNearer ==
  ASSUME Running, pc # "idle", NEW result, Return(result)
  PROVE  Nearer
<1>1. pc' = "idle" /\ job' = NoJob
  BY DEF Return
<1>2. Leg(pc', job'.role) = 0 /\ Leg(pc, job.role) > 0
  BY <1>1, Legs, LegsLeft DEF Running, Job
<1>3. QED
  BY <1>1, <1>2, IdleIsWithin, NextLeg

LEMMA FailIsNearer ==
  ASSUME Running, pc \in CreateStage \cup NodeStage \cup RemoveStage, Fail
  PROVE  Nearer
<1>1. pc # "idle"
  BY DEF CreateStage, NodeStage, RemoveStage
<1>2. CASE job.op = "create" /\ Continue("guard", job)
  <2>1. pc \in CreateStage \cup NodeStage
    BY <1>2 DEF Running, WithinLoop
  <2>2. Leg(pc', job'.role) = 7 /\ Leg(pc, job.role) > 7
    BY <1>1, <1>2, <2>1, Legs, LegsLeft DEF Running, Job, Continue
  <2>3. QED
    BY <1>2, <2>2, IdleIsWithin, NextLeg DEF Continue
<1>3. CASE Return("failed")
  BY <1>1, <1>3, ReturnIsNearer
<1>4. QED
  BY <1>2, <1>3 DEF Fail

\* The next call of the groundwork, or of the same node.
LEMMA GoesOnIsNearer ==
  ASSUME Running, NEW stage, NEW j, Continue(stage, j),
         j.op = job.op, j.role = job.role, j.n = job.n, j.cps = job.cps, j.wps = job.wps,
         <<pc, stage>> \in
           {<<"keygen", "newKey">>, <<"newKey", "saveKey">>, <<"saveKey", "newNetwork">>,
            <<"newNetwork", "saveNetwork">>, <<"newFirewall", "saveFirewall">>,
            <<"saveFirewall", "newInstance">>, <<"newInstance", "saveInstance">>,
            <<"saveInstance", "boot">>, <<"boot", "saveEndpoint">>}
  PROVE  Nearer
<1>1. pc' = stage /\ job' = j
  BY DEF Continue
<1>2. Calls(pc', job') < Calls(pc, job)
  BY <1>1, CallsInRound
<1>3. \/ pc \in Groundwork /\ pc' \in Groundwork
      \/ pc \in NodeStage /\ pc' \in NodeStage
  BY <1>1 DEF Groundwork, NodeStage
<1>4. Groundwork \subseteq CreateStage /\ Groundwork \cap (NodeStage \cup RemoveStage) = {}
      /\ NodeStage \cap (CreateStage \cup RemoveStage) = {}
  BY DEF Groundwork, CreateStage, NodeStage, RemoveStage
<1>5. /\ pc' \in NodeStage \/ pc' \in Groundwork
      /\ pc' \notin {"configCP", "saveToken", "delInstances", "delFirewalls"}
  BY <1>1, <1>3 DEF Groundwork, NodeStage
<1>6. WithinLoop(pc', job')
  BY <1>1, <1>3, <1>4, <1>5 DEF Running, WithinLoop
<1>7. Leg(pc', job'.role) = Leg(pc, job.role)
  BY <1>1, <1>3, Legs DEF Running, Job, Role
<1>8. Rounds(pc', job') = Rounds(pc, job)
  BY <1>1, <1>3, RoundsInLoops
<1>9. QED
  BY <1>2, <1>6, <1>7, <1>8, NextCall

LEMMA SharedFirewall ==
  ASSUME NEW r, NEW c
  PROVE  FirstStage(r, c) \in NodeStage /\ FirstStage(r, c) \in {"newFirewall", "newInstance"}
BY DEF FirstStage, NodeStage

LEMMA WithinNodes ==
  ASSUME NEW stage \in {"newFirewall", "newInstance"}, NEW j,
         j.op = "create" \/ j.role = "wp", j.op = "create" => j.cps >= 3,
         j.role = "cp" => j.n < j.cps, j.role = "wp" => j.n < j.wps
  PROVE  WithinLoop(stage, j) /\ stage \in NodeStage
BY DEF WithinLoop, CreateStage, NodeStage, RemoveStage

\* The caller's loop goes on with the next node, or ends.
LEMMA NextNodeIsNearer ==
  ASSUME Running, pc \in NodeStage, NEW j \in Job, NextNode(j),
         j.op = job.op, j.role = job.role, j.n = job.n, j.cps = job.cps, j.wps = job.wps
  PROVE  Nearer
<1>1. /\ job.role \in Role /\ job.n \in Nat /\ job.cps \in Nat /\ job.wps \in Nat
      /\ job.op = "create" \/ job.role = "wp"
      /\ job.op = "create" => job.cps >= 3
      /\ job.role = "cp" => job.n < job.cps
      /\ job.role = "wp" => job.n < job.wps
  BY DEF Running, Job, WithinLoop
<1>2. pc # "idle"
  BY DEF NodeStage
<1>3. CASE j.role = "db" /\ Continue("newFirewall", [j EXCEPT !.role = "lb"])
  <2>1. pc' = "newFirewall" /\ job'.role = "lb" /\ job'.op = job.op /\ job'.cps = job.cps
    BY <1>3 DEF Continue, Job
  <2>2. WithinLoop(pc', job') /\ pc' \in NodeStage
    BY <1>1, <1>3, <2>1, WithinNodes
  <2>3. Leg(pc', job'.role) = 13 /\ Leg(pc, job.role) = 14
    BY <1>3, <2>1, <2>2, Legs
  <2>4. QED
    BY <2>2, <2>3, NextLeg
<1>4. CASE j.role = "lb" /\ Continue(FirstStage("cp", j.mem), [j EXCEPT !.role = "cp", !.n = 0])
  <2>1. /\ pc' \in {"newFirewall", "newInstance"} /\ job'.role = "cp" /\ job'.op = job.op
        /\ job'.cps = job.cps /\ job'.n = 0
    BY <1>4, SharedFirewall DEF Continue, Job
  <2>2. WithinLoop(pc', job') /\ pc' \in NodeStage
    BY <1>1, <1>4, <2>1, WithinNodes
  <2>3. Leg(pc', job'.role) = 12 /\ Leg(pc, job.role) = 13
    BY <1>4, <2>1, <2>2, Legs
  <2>4. QED
    BY <2>2, <2>3, NextLeg
<1>5. CASE j.role = "cp" /\ j.n + 1 < j.cps /\ Continue(FirstStage("cp", j.mem), [j EXCEPT !.n = @ + 1])
  <2>1. /\ pc' \in {"newFirewall", "newInstance"} /\ job'.role = "cp" /\ job'.op = job.op
        /\ job'.cps = job.cps /\ job'.n = job.n + 1
    BY <1>5, SharedFirewall DEF Continue, Job
  <2>2. WithinLoop(pc', job') /\ pc' \in NodeStage
    BY <1>1, <1>5, <2>1, WithinNodes
  <2>3. Leg(pc', job'.role) = Leg(pc, job.role)
    BY <1>5, <2>1, <2>2, Legs
  <2>4. Rounds(pc', job') = job.cps - (job.n + 1) /\ Rounds(pc, job) = job.cps - job.n
    BY <1>5, <2>1, <2>2, RoundsInLoops
  <2>5. QED
    BY <1>1, <2>2, <2>3, <2>4, NextRound
<1>6. CASE j.role = "cp" /\ Continue("configLB", j)
  <2>1. pc' = "configLB" /\ job' = j /\ job.op = "create"
    BY <1>1, <1>6 DEF Continue
  <2>2. WithinLoop(pc', job')
    BY <1>1, <2>1 DEF WithinLoop, CreateStage, NodeStage, RemoveStage
  <2>3. Leg(pc', job'.role) = 11 /\ Leg(pc, job.role) = 12
    BY <1>1, <1>6, <2>1, Legs
  <2>4. QED
    BY <2>2, <2>3, NextLeg
<1>7. CASE j.role = "wp" /\ j.n + 1 < j.wps /\ Continue(FirstStage("wp", j.mem), [j EXCEPT !.n = @ + 1])
  <2>1. /\ pc' \in {"newFirewall", "newInstance"} /\ job'.role = "wp" /\ job'.op = job.op
        /\ job'.cps = job.cps /\ job'.wps = job.wps /\ job'.n = job.n + 1
    BY <1>7, SharedFirewall DEF Continue, Job
  <2>2. WithinLoop(pc', job') /\ pc' \in NodeStage
    BY <1>1, <1>7, <2>1, WithinNodes
  <2>3. Leg(pc', job'.role) = Leg(pc, job.role)
    BY <1>7, <2>1, <2>2, Legs
  <2>4. Rounds(pc', job') = job.wps - (job.n + 1) /\ Rounds(pc, job) = job.wps - job.n
    BY <1>7, <2>1, <2>2, RoundsInLoops
  <2>5. QED
    BY <1>1, <2>2, <2>3, <2>4, NextRound
<1>8. CASE \E result : Return(result)
  BY <1>2, <1>8, ReturnIsNearer
<1>9. QED
  BY <1>3, <1>4, <1>5, <1>6, <1>7, <1>8 DEF NextNode

\* A call that creates something.
LEMMA CreateIsNearer ==
  ASSUME Running, NEW object, NEW next, Create(object, next),
         <<pc, next>> \in {<<"newKey", "saveKey">>, <<"newNetwork", "saveNetwork">>,
                           <<"newFirewall", "saveFirewall">>, <<"newInstance", "saveInstance">>}
  PROVE  Nearer
<1>1. pc \in CreateStage \cup NodeStage
  BY DEF CreateStage, NodeStage
<1>2. CASE \E id : Continue(next, [job EXCEPT !.got = id])
  <2>1. PICK id : Continue(next, [job EXCEPT !.got = id])
    BY <1>2
  <2> DEFINE j == [job EXCEPT !.got = id]
  <2>2. j.op = job.op /\ j.role = job.role /\ j.n = job.n /\ j.cps = job.cps /\ j.wps = job.wps
    BY DEF Running, Job
  <2> HIDE DEF j
  <2>3. Continue(next, j)
    BY <2>1 DEF j
  <2>4. QED
    BY <2>2, <2>3, GoesOnIsNearer
<1>3. QED
  BY <1>1, <1>2, FailIsNearer DEF Create

LEMMA GroundworkIsNearer ==
  ASSUME Running, Keygen \/ CreateSSHKeyPair \/ SaveSSHID \/ CreateNetwork \/ SaveNetworkID
  PROVE  Nearer
<1>1. pc \in {"keygen", "newKey", "saveKey", "newNetwork", "saveNetwork"}
  BY DEF Keygen, CreateSSHKeyPair, SaveSSHID, CreateNetwork, SaveNetworkID
<1>2. pc \in CreateStage /\ pc \in Groundwork /\ job.op = "create" /\ job.cps >= 3 /\ job.role \in Role
  BY <1>1 DEF Running, WithinLoop, CreateStage, Groundwork, Job
<1>3. CASE Keygen
  <2>1. Continue("newKey", job) \/ Fail
    BY <1>3 DEF Keygen
  <2>2. pc = "keygen"
    BY <1>3 DEF Keygen
  <2>3. QED
    BY <1>2, <2>1, <2>2, GoesOnIsNearer, FailIsNearer
<1>4. CASE CreateSSHKeyPair
  BY <1>4, CreateIsNearer DEF CreateSSHKeyPair
<1>5. CASE SaveSSHID
  <2> DEFINE c == ConfigWriterSSHID(job.mem, job.got)
             j == [job EXCEPT !.mem = c, !.key = job.got, !.got = NoID]
  <2>1. pc = "saveKey" /\ (Continue("newNetwork", j) \/ Fail)
    BY <1>5 DEF SaveSSHID
  <2>2. j.op = job.op /\ j.role = job.role /\ j.n = job.n /\ j.cps = job.cps /\ j.wps = job.wps
    BY DEF Running, Job
  <2> HIDE DEF j
  <2>3. QED
    BY <1>2, <2>1, <2>2, GoesOnIsNearer, FailIsNearer
<1>6. CASE CreateNetwork
  BY <1>6, CreateIsNearer DEF CreateNetwork
<1>7. CASE SaveNetworkID
  <2> DEFINE c == ConfigWriterNetworkID(job.mem, job.got)
             j == [job EXCEPT !.mem = c, !.got = NoID, !.role = "db"]
  <2>1. pc = "saveNetwork" /\ (Continue("newFirewall", j) \/ Fail)
    BY <1>7 DEF SaveNetworkID
  <2>2. j.op = job.op /\ j.role = "db" /\ j.cps = job.cps
    BY DEF Running, Job
  <2> HIDE DEF j
  <2>3. CASE Continue("newFirewall", j)
    <3>1. WithinLoop(pc', job') /\ pc' \in NodeStage /\ job'.role = "db"
      BY <1>2, <2>2, <2>3, WithinNodes DEF Continue
    <3>2. Leg(pc', job'.role) = 14 /\ Leg(pc, job.role) = 15
      BY <1>2, <3>1, Legs
    <3>3. QED
      BY <3>1, <3>2, NextLeg
  <2>4. QED
    BY <1>2, <2>1, <2>3, FailIsNearer
<1>8. QED
  BY <1>3, <1>4, <1>5, <1>6, <1>7

LEMMA NodeIsNearer ==
  ASSUME Running, CreateFirewall \/ SaveFirewall \/ CreateInstance \/ SaveInstance \/ Boot \/ SaveEndpoint
  PROVE  Nearer
<1>1. pc \in {"newFirewall", "saveFirewall", "newInstance", "saveInstance", "boot", "saveEndpoint"}
  BY DEF CreateFirewall, SaveFirewall, CreateInstance, SaveInstance, Boot, SaveEndpoint
<1>2. /\ pc \in NodeStage /\ job \in Job /\ job.mem \in Config /\ job.got \in Nat /\ job.role \in Role
      /\ NoID \in Nat
  BY <1>1 DEF Running, NodeStage, Job, NoID
<1>3. CASE CreateFirewall
  BY <1>3, CreateIsNearer DEF CreateFirewall
<1>4. CASE SaveFirewall
  <2> DEFINE c == ConfigWriterFirewall(job.mem, job.role, job.got)
             j == [job EXCEPT !.mem = c, !.got = NoID]
             k == NodeMissing(c)
  <2>1. pc = "saveFirewall" /\ (Continue("newInstance", j) \/ NextNode(k))
    BY <1>4 DEF SaveFirewall
  <2>2. c \in Config
    BY <1>2, WriterTypes
  <2>3. /\ k \in Job
        /\ k.op = job.op /\ k.role = job.role /\ k.n = job.n /\ k.cps = job.cps /\ k.wps = job.wps
    BY <1>2, <2>2 DEF NodeMissing, Job
  <2>4. j.op = job.op /\ j.role = job.role /\ j.n = job.n /\ j.cps = job.cps /\ j.wps = job.wps
    BY <1>2 DEF Job
  <2> HIDE DEF j, k
  <2>5. QED
    BY <1>2, <2>1, <2>3, <2>4, GoesOnIsNearer, NextNodeIsNearer
<1>5. CASE CreateInstance
  BY <1>5, CreateIsNearer DEF CreateInstance
<1>6. CASE SaveInstance
  <2> DEFINE c == ConfigWriterInstance(job.mem, job.role, job.got)
             j == [job EXCEPT !.mem = c, !.got = NoID]
             k == NodeMissing(c)
  <2>1. pc = "saveInstance" /\ (Continue("boot", j) \/ NextNode(k))
    BY <1>6 DEF SaveInstance
  <2>2. c \in Config
    BY <1>2, WriterTypes
  <2>3. /\ k \in Job
        /\ k.op = job.op /\ k.role = job.role /\ k.n = job.n /\ k.cps = job.cps /\ k.wps = job.wps
    BY <1>2, <2>2 DEF NodeMissing, Job
  <2>4. j.op = job.op /\ j.role = job.role /\ j.n = job.n /\ j.cps = job.cps /\ j.wps = job.wps
    BY <1>2 DEF Job
  <2> HIDE DEF j, k
  <2>5. QED
    BY <1>2, <2>1, <2>3, <2>4, GoesOnIsNearer, NextNodeIsNearer
<1>7. CASE Boot
  <2>1. pc = "boot" /\ (Continue("saveEndpoint", job) \/ NextNode(job) \/ Fail)
    BY <1>7 DEF Boot
  <2>2. QED
    BY <1>2, <2>1, GoesOnIsNearer, NextNodeIsNearer, FailIsNearer
<1>8. CASE SaveEndpoint
  <2> DEFINE c == ConfigWriterDBEndpoint(job.mem)
             k == [job EXCEPT !.mem = c]
  <2>1. NextNode(k) \/ Fail
    BY <1>8 DEF SaveEndpoint
  <2>2. c \in Config
    BY <1>2, WriterTypes
  <2>3. /\ k \in Job
        /\ k.op = job.op /\ k.role = job.role /\ k.n = job.n /\ k.cps = job.cps /\ k.wps = job.wps
    BY <1>2, <2>2 DEF Job
  <2> HIDE DEF k
  <2>4. QED
    BY <1>2, <2>1, <2>3, NextNodeIsNearer, FailIsNearer
<1>9. QED
  BY <1>3, <1>4, <1>5, <1>6, <1>7, <1>8

LEMMA ConfigIsNearer ==
  ASSUME Running, ConfigLoadBalancer \/ ConfigControlPlane \/ SaveToken \/ SaveKubeconfig
  PROVE  Nearer
<1>1. pc \in {"configLB", "configCP", "saveToken", "kubeconfig"}
  BY DEF ConfigLoadBalancer, ConfigControlPlane, SaveToken, SaveKubeconfig
<1>2. /\ pc \in CreateStage /\ pc # "idle" /\ job.op = "create" /\ job.cps >= 3
      /\ job.role \in Role /\ job.n \in Nat /\ job.cps \in Nat /\ job.wps \in Nat /\ job \in Job
      /\ pc = "configCP" => job.n < job.cps
      /\ pc = "saveToken" => job.n = 0
  BY <1>1 DEF Running, WithinLoop, CreateStage, Job
\* The stages a configuration goes to.
<1>3. ASSUME NEW t \in {"configCP", "saveToken", "kubeconfig"}, pc' = t,
             job'.op = "create", job'.cps = job.cps,
             t = "configCP" => job'.n < job.cps, t = "saveToken" => job'.n = 0
      PROVE  WithinLoop(pc', job')
  BY <1>2, <1>3 DEF WithinLoop, CreateStage, NodeStage, RemoveStage
<1>4. job'.role \in Role
  BY DEF Running, Job
<1>5. CASE Fail
  BY <1>2, <1>5, FailIsNearer
<1>6. CASE Return("panic") \/ Return("created")
  BY <1>2, <1>6, ReturnIsNearer
<1>7. CASE pc = "configLB" /\ Continue("configCP", [job EXCEPT !.n = 0])
  <2>1. pc' = "configCP" /\ job'.op = "create" /\ job'.cps = job.cps /\ job'.n = 0
    BY <1>2, <1>7 DEF Continue, Job
  <2>2. Leg(pc', job'.role) = 10 /\ Leg(pc, job.role) = 11
    BY <1>2, <1>4, <1>7, <2>1, Legs
  <2>3. WithinLoop(pc', job')
    BY <1>2, <1>3, <2>1
  <2>4. QED
    BY <2>2, <2>3, NextLeg
<1>8. CASE pc = "configCP" /\ job.n = 0 /\ Continue("saveToken", job)
  <2>1. pc' = "saveToken" /\ job' = job
    BY <1>8 DEF Continue
  <2>2. Leg(pc', job'.role) = Leg(pc, job.role) /\ Rounds(pc', job') = Rounds(pc, job)
    BY <1>2, <1>8, <2>1, Legs, RoundsInLoops
  <2>3. Calls(pc', job') < Calls(pc, job)
    BY <1>8, <2>1, CallsInRound
  <2>4. WithinLoop(pc', job')
    BY <1>2, <1>3, <1>8, <2>1
  <2>5. QED
    BY <2>2, <2>3, <2>4, NextCall
<1>9. CASE pc = "configCP" /\ job.n + 1 = job.cps /\ Continue("kubeconfig", [job EXCEPT !.n = @ + 1])
  <2>1. pc' = "kubeconfig" /\ job'.op = "create" /\ job'.cps = job.cps
    BY <1>2, <1>9 DEF Continue, Job
  <2>2. Leg(pc', job'.role) = 9 /\ Leg(pc, job.role) = 10
    BY <1>2, <1>4, <1>9, <2>1, Legs
  <2>3. WithinLoop(pc', job')
    BY <1>3, <2>1
  <2>4. QED
    BY <2>2, <2>3, NextLeg
<1>10. CASE pc = "configCP" /\ job.n + 1 # job.cps /\ Continue("configCP", [job EXCEPT !.n = @ + 1])
  <2>1. pc' = "configCP" /\ job'.op = "create" /\ job'.cps = job.cps /\ job'.n = job.n + 1
    BY <1>2, <1>10 DEF Continue, Job
  <2>2. Leg(pc', job'.role) = Leg(pc, job.role)
    BY <1>2, <1>4, <1>10, <2>1, Legs
  <2>3. Rounds(pc', job') = job.cps - (job.n + 1) /\ Rounds(pc, job) = job.cps - job.n
    BY <1>10, <2>1, RoundsInLoops
  <2>4. WithinLoop(pc', job')
    BY <1>2, <1>3, <1>10, <2>1
  <2>5. QED
    BY <1>2, <2>2, <2>3, <2>4, NextRound
<1>11. CASE SaveToken
  <2> DEFINE c == ConfigWriterServerToken(job.mem)
             j == [job EXCEPT !.mem = c, !.n = 1]
  <2>1. pc = "saveToken" /\ (Continue("configCP", j) \/ Fail)
    BY <1>11 DEF SaveToken
  <2>2. j.op = "create" /\ j.cps = job.cps /\ j.n = 1
    BY <1>2 DEF Job
  <2> HIDE DEF j
  <2>3. CASE Continue("configCP", j)
    <3>1. pc' = "configCP" /\ job'.op = "create" /\ job'.cps = job.cps /\ job'.n = 1
      BY <2>2, <2>3 DEF Continue
    <3>2. Leg(pc', job'.role) = Leg(pc, job.role)
      BY <1>2, <1>4, <2>1, <3>1, Legs
    <3>3. Rounds(pc', job') = job.cps - 1 /\ Rounds(pc, job) = job.cps - job.n /\ job.n = 0
      BY <1>2, <2>1, <3>1, RoundsInLoops
    <3>4. WithinLoop(pc', job')
      BY <1>2, <1>3, <3>1
    <3>5. QED
      BY <1>2, <3>2, <3>3, <3>4, NextRound
  <2>4. QED
    BY <1>5, <2>1, <2>3
<1>12. CASE pc = "kubeconfig" /\ job.wps > 0
            /\ Continue(FirstStage("wp", job.mem), [job EXCEPT !.role = "wp", !.n = 0])
  <2>1. /\ pc' \in {"newFirewall", "newInstance"} /\ job'.role = "wp" /\ job'.op = "create"
        /\ job'.cps = job.cps /\ job'.wps = job.wps /\ job'.n = 0
    BY <1>2, <1>12, SharedFirewall DEF Continue, Job
  <2>2. WithinLoop(pc', job') /\ pc' \in NodeStage
    BY <1>2, <1>12, <2>1, WithinNodes
  <2>3. Leg(pc', job'.role) = 8 /\ Leg(pc, job.role) = 9
    BY <1>2, <1>12, <2>1, <2>2, Legs
  <2>4. QED
    BY <2>2, <2>3, NextLeg
<1>13. CASE ConfigLoadBalancer
  BY <1>5, <1>6, <1>7, <1>13 DEF ConfigLoadBalancer
<1>14. CASE ConfigControlPlane
  BY <1>5, <1>8, <1>9, <1>10, <1>14 DEF ConfigControlPlane
<1>15. CASE SaveKubeconfig
  BY <1>5, <1>6, <1>12, <1>15 DEF SaveKubeconfig
<1>16. QED
  BY <1>11, <1>13, <1>14, <1>15

LEMMA DeleteIsNearer ==
  ASSUME Running, DeleteStep
  PROVE  Nearer
<1>1. pc \in DeleteStage
  BY DEF DeleteStep, LoadForDelete, DeleteInstance, EndOfGroup, DeleteFirewall, DeleteNetwork,
         DeleteSSHKeyPair, DeleteAllPaths, DeleteStage
<1>2. /\ pc # "idle" /\ job \in Job /\ job.role \in Role /\ job.n \in Nat /\ job.retry \in Nat
      /\ MaxRetry \in Nat /\ job'.role \in Role /\ Len(FirewallOrder) = 4
      /\ pc = "delInstances" => job.n <= Len(job.mem.inst[job.role])
      /\ pc = "delFirewalls" => job.n <= 4
  BY <1>1, BoundsAssumption DEF Running, WithinLoop, Job, DeleteStage, FirewallOrder
<1>3. ASSUME NEW t \in DeleteStage, pc' = t,
             t = "delInstances" => job'.n <= Len(job'.mem.inst[job'.role]),
             t = "delFirewalls" => job'.n <= 4
      PROVE  WithinLoop(pc', job')
  BY <1>2, <1>3 DEF WithinLoop, CreateStage, NodeStage, RemoveStage, DeleteStage
<1>4. CASE \E result : Return(result)
  BY <1>2, <1>4, ReturnIsNearer
<1>5. ASSUME NEW t \in DeleteStage, pc' = t, t \notin {"delInstances", "delFirewalls"},
             Leg(pc', job'.role) < Leg(pc, job.role)
      PROVE  Nearer
  BY <1>3, <1>5, NextLeg
<1>6. CASE LoadForDelete
  <2> DEFINE j == [NoJob EXCEPT !.op = job.op, !.found = job.found,
                                !.mem = Info, !.key = Info.sshID, !.role = "cp"]
  <2>1. pc = "guard" /\ ((\E result : Return(result)) \/ Continue("delInstances", j))
    BY <1>6 DEF LoadForDelete
  <2>2. CASE Continue("delInstances", j)
    <3>1. pc' = "delInstances" /\ job' = j
      BY <2>2 DEF Continue
    <3>2. job'.n = 0
      BY <3>1 DEF NoJob
    <3>3. Len(job'.mem.inst[job'.role]) \in Nat
      BY <1>2 DEF Running, Job, Config
    <3>4. WithinLoop(pc', job')
      BY <1>3, <3>1, <3>2, <3>3 DEF DeleteStage
    <3>5. Leg(pc', job'.role) = 6 /\ Leg(pc, job.role) = 7
      BY <1>2, <2>1, <3>1, Legs
    <3>6. QED
      BY <3>4, <3>5, NextLeg
  <2>3. QED
    BY <1>4, <2>1, <2>2
<1>7. CASE DeleteInstance
  <2> DEFINE size == Len(job.mem.inst[job.role])
  <2>1. PICK err : pc = "delInstances" /\ job.n < size
                   /\ Continue("delInstances", [job EXCEPT !.n = @ + 1, !.err = err])
    BY <1>7 DEF DeleteInstance
  <2>2. /\ pc' = "delInstances" /\ job'.n = job.n + 1 /\ job'.mem = job.mem /\ job'.role = job.role
        /\ size \in Nat
    BY <1>2, <2>1 DEF Continue, Job, Config
  <2>3. Calls(pc, job) = size - job.n /\ Calls(pc', job') = size - (job.n + 1)
    BY <2>1, <2>2, CallsInRound
  <2>4. Leg(pc', job'.role) = Leg(pc, job.role) /\ Rounds(pc', job') = Rounds(pc, job)
    BY <2>1, <2>2, RoundsInLoops
  <2>5. job'.n <= Len(job'.mem.inst[job'.role]) /\ Calls(pc', job') < Calls(pc, job)
    <3>1. size = Len(job'.mem.inst[job'.role]) /\ job.n < size
      BY <2>1, <2>2
    <3> HIDE DEF size
    <3>2. QED
      BY <1>2, <2>2, <2>3, <3>1
  <2>6. WithinLoop(pc', job')
    BY <1>3, <2>2, <2>5 DEF DeleteStage
  <2>7. QED
    BY <2>4, <2>5, <2>6, NextCall
<1>8. CASE EndOfGroup
  <2>1. pc = "delInstances"
    BY <1>8 DEF EndOfGroup
  <2>2. CASE Continue("delFirewalls", [job EXCEPT !.n = 1])
    <3>1. pc' = "delFirewalls" /\ job'.n = 1
      BY <1>2, <2>2 DEF Continue, Job
    <3>2. Leg(pc', job'.role) = 5 /\ Leg(pc, job.role) = 6
      BY <1>2, <2>1, <3>1, Legs
    <3>3. WithinLoop(pc', job')
      BY <1>3, <3>1 DEF DeleteStage
    <3>4. QED
      BY <3>2, <3>3, NextLeg
  <2>3. CASE job.role # "db" /\ Continue("delInstances", [job EXCEPT !.role = NextGroup[job.role], !.n = 0])
    <3>1. pc' = "delInstances" /\ job'.n = 0 /\ job'.role = NextGroup[job.role]
      BY <1>2, <2>3 DEF Continue, Job
    <3>2. Leg(pc', job'.role) = Leg(pc, job.role)
      BY <1>2, <2>1, <3>1, Legs
    <3>3. Rounds(pc', job') < Rounds(pc, job)
      BY <1>2, <2>1, <2>3, <3>1, RoundsInLoops, GroupsInOrder
    <3>4. Len(job'.mem.inst[job'.role]) \in Nat
      BY <1>2 DEF Running, Job, Config
    <3>5. WithinLoop(pc', job')
      BY <1>3, <3>1, <3>4 DEF DeleteStage
    <3>6. QED
      BY <3>2, <3>3, <3>5, NextRound
  <2>4. QED
    BY <1>4, <1>8, <2>2, <2>3 DEF EndOfGroup
<1>9. CASE DeleteFirewall
  <2>1. pc = "delFirewalls"
    BY <1>9 DEF DeleteFirewall
  <2>2. CASE Continue("delNetwork", job)
    BY <1>2, <1>5, <2>1, <2>2, Legs DEF Continue, DeleteStage
  <2>3. CASE job.n # 4 /\ Continue("delFirewalls", [job EXCEPT !.n = @ + 1])
    <3>1. pc' = "delFirewalls" /\ job'.n = job.n + 1
      BY <1>2, <2>3 DEF Continue, Job
    <3>2. Leg(pc', job'.role) = Leg(pc, job.role)
      BY <1>2, <2>1, <3>1, Legs
    <3>3. Rounds(pc', job') = 4 - (job.n + 1) /\ Rounds(pc, job) = 4 - job.n
      BY <1>2, <2>1, <3>1, RoundsInLoops
    <3>4. WithinLoop(pc', job')
      BY <1>2, <1>3, <2>1, <2>3, <3>1 DEF DeleteStage
    <3>5. QED
      BY <1>2, <3>2, <3>3, <3>4, NextRound
  <2>4. QED
    BY <1>2, <1>9, <2>2, <2>3 DEF DeleteFirewall
<1>10. CASE DeleteNetwork
  <2>1. pc = "delNetwork"
    BY <1>10 DEF DeleteNetwork
  <2>2. CASE Continue("delKey", job)
    BY <1>2, <1>5, <2>1, <2>2, Legs DEF Continue, DeleteStage
  <2>3. CASE Continue("delNetwork", Retried)
    <3>1. pc' = "delNetwork" /\ job'.retry = job.retry + 1
      BY <1>2, <2>3 DEF Continue, Job, Retried
    <3>2. Leg(pc', job'.role) = Leg(pc, job.role)
      BY <1>2, <2>1, <3>1, Legs
    <3>3. Rounds(pc', job') = MaxRetry - (job.retry + 1) /\ Rounds(pc, job) = MaxRetry - job.retry
      BY <2>1, <3>1, RoundsInLoops
    <3>4. WithinLoop(pc', job')
      BY <1>3, <3>1 DEF DeleteStage
    <3>5. QED
      BY <1>2, <3>2, <3>3, <3>4, NextRound
  <2>4. QED
    BY <1>4, <1>10, <2>2, <2>3 DEF DeleteNetwork
<1>11. CASE DeleteSSHKeyPair
  <2>1. pc = "delKey" /\ ((\E result : Return(result)) \/ Continue("delPaths", job))
    BY <1>11 DEF DeleteSSHKeyPair
  <2>2. CASE Continue("delPaths", job)
    BY <1>2, <1>5, <2>1, <2>2, Legs DEF Continue, DeleteStage
  <2>3. QED
    BY <1>4, <2>1, <2>2
<1>12. CASE DeleteAllPaths
  BY <1>4, <1>12 DEF DeleteAllPaths
<1>13. QED
  BY <1>6, <1>7, <1>8, <1>9, <1>10, <1>11, <1>12 DEF DeleteStep

LEMMA RemoveIsNearer ==
  ASSUME Running, RemoveStep
  PROVE  Nearer
<1>1. pc \in RemoveStage
  BY DEF RemoveStep, DropWorker, SaveDrop, RemoveStage
<1>2. /\ pc # "idle" /\ job.op = "remove" /\ job.n < job.wps /\ job.n \in Nat /\ job.wps \in Nat
      /\ job \in Job /\ job.role \in Role
  BY <1>1 DEF Running, WithinLoop, Job, RemoveStage
<1>3. CASE (\E result : Return(result)) \/ Fail
  BY <1>1, <1>2, <1>3, ReturnIsNearer, FailIsNearer
<1>4. ASSUME pc' \in {"dropWorker", "saveDrop"}, job'.op = "remove", job'.n < job'.wps
      PROVE  WithinLoop(pc', job')
  BY <1>4 DEF WithinLoop, CreateStage, NodeStage, RemoveStage
<1>5. CASE DropWorker
  <2> DEFINE j == [job EXCEPT !.mem = DropLastWorker(@)]
  <2>1. pc = "dropWorker" /\ (Continue("saveDrop", j) \/ Fail)
    BY <1>5 DEF DropWorker
  <2>2. j.op = job.op /\ j.n = job.n /\ j.wps = job.wps /\ j.role = job.role
    BY <1>2 DEF Job
  <2> HIDE DEF j
  <2>3. CASE Continue("saveDrop", j)
    <3>1. pc' = "saveDrop" /\ job' = j
      BY <2>3 DEF Continue
    <3>2. Leg(pc', job'.role) = Leg(pc, job.role) /\ Rounds(pc', job') = Rounds(pc, job)
      BY <1>2, <2>1, <2>2, <3>1, Legs, RoundsInLoops
    <3>3. Calls(pc', job') < Calls(pc, job)
      BY <2>1, <3>1, CallsInRound
    <3>4. QED
      BY <1>2, <1>4, <2>2, <3>1, <3>2, <3>3, NextCall
  <2>4. QED
    BY <1>3, <2>1, <2>3
<1>6. CASE SaveDrop
  <2>1. CASE job.n + 1 # job.wps /\ Continue("dropWorker", [job EXCEPT !.n = @ + 1])
    <3>1. /\ pc' = "dropWorker" /\ job'.n = job.n + 1 /\ job'.wps = job.wps /\ job'.op = job.op
          /\ job'.role = job.role /\ pc = "saveDrop"
      BY <1>2, <1>6, <2>1 DEF Continue, Job, SaveDrop
    <3>2. Leg(pc', job'.role) = Leg(pc, job.role)
      BY <1>2, <3>1, Legs
    <3>3. Rounds(pc', job') = job.wps - (job.n + 1) /\ Rounds(pc, job) = job.wps - job.n
      BY <3>1, RoundsInLoops
    <3>4. WithinLoop(pc', job')
      BY <1>2, <1>4, <2>1, <3>1
    <3>5. QED
      BY <1>2, <3>2, <3>3, <3>4, NextRound
  <2>2. QED
    BY <1>3, <1>6, <2>1 DEF SaveDrop
<1>7. QED
  BY <1>5, <1>6 DEF RemoveStep

LEMMA StepIsNearer ==
  ASSUME Running, Step
  PROVE  Nearer
<1>1. ConfigLoadBalancer \/ ConfigControlPlane \/ SaveToken \/ SaveKubeconfig => Nearer
  BY ConfigIsNearer
<1>2. QED
  BY <1>1, GroundworkIsNearer, NodeIsNearer, DeleteIsNearer, RemoveIsNearer DEF Step, CreateStep

LEMMA StartsWithin ==
  ASSUME TypeOK, WithinLoop(pc, job), User
  PROVE  WithinLoop(pc', job')
<1>1. ASSUME NEW result, Refuse(result) PROVE WithinLoop(pc', job')
  BY <1>1 DEF Refuse
<1>2. ASSUME NEW j \in Job, Begin("guard", j) PROVE WithinLoop(pc', job')
  BY <1>2, IdleIsWithin DEF Begin
<1>3. /\ NoJob \in Job /\ NoJob.n = 0 /\ Info \in Config
      /\ CPCounts \subseteq Nat /\ WPCounts \subseteq Nat
      /\ "create" # "add" /\ "wp" \in Role
  BY ControlTypes, TypeParts, JobType, CountsAssumption DEF JobOK, NoJob, Role
<1>4. CASE StartCreate
  <2>1. PICK cps \in CPCounts, wps \in WPCounts :
          LET j == [NoJob EXCEPT !.op = "create", !.cps = cps, !.wps = wps] IN
          Refuse("failed") \/ Begin("guard", j) \/ (IsValidNoOfControlPlanes(cps) /\ Begin("keygen", j))
    BY <1>4 DEF StartCreate
  <2> DEFINE j == [NoJob EXCEPT !.op = "create", !.cps = cps, !.wps = wps]
  <2>2. j \in Job /\ j.op = "create" /\ j.cps = cps
    BY <1>3, <2>1 DEF Job
  <2> HIDE DEF j
  <2>3. Refuse("failed") \/ Begin("guard", j) \/ (IsValidNoOfControlPlanes(cps) /\ Begin("keygen", j))
    BY <2>1 DEF j
  <2>4. ASSUME IsValidNoOfControlPlanes(cps), Begin("keygen", j) PROVE WithinLoop(pc', job')
    <3>1. pc' = "keygen" /\ job'.op = "create" /\ job'.cps >= 3
      BY <2>2, <2>4 DEF Begin, Job, IsValidNoOfControlPlanes
    <3>2. QED
      BY <3>1 DEF WithinLoop, CreateStage, NodeStage, RemoveStage
  <2>5. QED
    BY <1>1, <1>2, <2>2, <2>3, <2>4
<1>5. CASE StartDelete
  <2>1. Refuse("failed") \/ Begin("guard", [NoJob EXCEPT !.op = "delete"])
    BY <1>5 DEF StartDelete
  <2>2. [NoJob EXCEPT !.op = "delete"] \in Job
    BY <1>3 DEF Job
  <2>3. QED
    BY <1>1, <1>2, <2>1, <2>2
<1>6. CASE StartAdd
  <2>1. PICK k \in WPCounts \ {0} :
          LET j == [NoJob EXCEPT !.op = "add", !.mem = Info, !.role = "wp",
                                 !.wps = k, !.base = Len(Info.inst["wp"])] IN
          Refuse("failed") \/ Refuse("panic") \/ Begin(FirstStage("wp", Info), j)
    BY <1>6 DEF StartAdd
  <2> DEFINE j == [NoJob EXCEPT !.op = "add", !.mem = Info, !.role = "wp",
                                !.wps = k, !.base = Len(Info.inst["wp"])]
  <2>2. Len(Info.inst["wp"]) \in Nat /\ k \in Nat /\ k > 0
    BY <1>3 DEF Config
  <2>3. j \in Job /\ j.op = "add" /\ j.role = "wp" /\ j.n = 0 /\ j.wps = k
    BY <1>3, <2>2 DEF Job
  <2> HIDE DEF j
  <2>4. Refuse("failed") \/ Refuse("panic") \/ Begin(FirstStage("wp", Info), j)
    BY <2>1 DEF j
  <2>5. ASSUME Begin(FirstStage("wp", Info), j) PROVE WithinLoop(pc', job')
    <3>1. /\ pc' \in {"newFirewall", "newInstance"} /\ job'.op = "add" /\ job'.role = "wp"
          /\ job'.n = 0 /\ job'.wps = k
      BY <2>3, <2>5, SharedFirewall DEF Begin, Job
    <3>2. QED
      BY <1>3, <2>2, <3>1, WithinNodes
  <2>6. QED
    BY <1>1, <2>4, <2>5
<1>7. CASE StartRemove
  <2>1. PICK k \in WPCounts \ {0} :
          LET j == [NoJob EXCEPT !.op = "remove", !.mem = Info, !.role = "wp", !.wps = k] IN
          Refuse("failed") \/ Refuse("declined") \/ Begin("dropWorker", j)
    BY <1>7 DEF StartRemove
  <2> DEFINE j == [NoJob EXCEPT !.op = "remove", !.mem = Info, !.role = "wp", !.wps = k]
  <2>2. k \in Nat /\ k > 0
    BY <1>3
  <2>3. j \in Job /\ j.op = "remove" /\ j.n = 0 /\ j.wps = k
    BY <1>3, <2>2 DEF Job
  <2> HIDE DEF j
  <2>4. Refuse("failed") \/ Refuse("declined") \/ Begin("dropWorker", j)
    BY <2>1 DEF j
  <2>5. ASSUME Begin("dropWorker", j) PROVE WithinLoop(pc', job')
    <3>1. pc' = "dropWorker" /\ job'.op = "remove" /\ job'.n < job'.wps
      BY <2>2, <2>3, <2>5 DEF Begin, Job
    <3>2. QED
      BY <3>1 DEF WithinLoop, CreateStage, NodeStage, RemoveStage
  <2>6. QED
    BY <1>1, <2>4, <2>5
<1>8. QED
  BY <1>4, <1>5, <1>6, <1>7 DEF User

LEMMA TypedIsRunning == TypeOK /\ TypeOK' /\ WithinLoop(pc, job) => Running
BY DEF TypeOK, Running

\* Every call, whatever becomes of it, brings the command closer to its end,
\* in an order in which nothing can come closer for ever (NoEndlessDescent):
\* however long the lists of a record are and however many faults there are,
\* a command makes finitely many calls.
THEOREM CallsComeToAnEnd == Spec => CallsCountDown
<1>1. Init => WithinLoop(pc, job)
  BY IdleIsWithin DEF Init
<1>2. ASSUME TypeOK, TypeOK', WithinLoop(pc, job), [Next]_vars PROVE WithinLoop(pc', job')
  <2>1. CASE Step
    BY <1>2, <2>1, TypedIsRunning, StepIsNearer DEF Nearer
  <2>2. CASE User
    BY <1>2, <2>2, StartsWithin
  <2>3. CASE Crash
    BY <2>3, IdleIsWithin DEF Crash, Return
  <2>4. CASE Activate \/ DeleteByHand \/ UNCHANGED vars
    BY <1>2, <2>4 DEF Activate, DeleteByHand, vars
  <2>5. QED
    BY <1>2, <2>1, <2>2, <2>3, <2>4 DEF Next
<1>3. TypeOK /\ TypeOK' /\ WithinLoop(pc, job) => [Step => Before(Left', Left)]_vars
  BY TypedIsRunning, StepIsNearer DEF Nearer
<1>4. TypeOK /\ TypeOK' /\ WithinLoop(pc, job) /\ [Next]_vars => WithinLoop(pc, job)'
  BY <1>2
<1>5. QED
  BY <1>1, <1>3, <1>4, TypeCorrect, PTL DEF Spec, CallsCountDown

=============================================================================
