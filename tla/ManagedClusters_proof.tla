------------------------- MODULE ManagedClusters_proof -------------------------
(***************************************************************************)
(* Proofs about ManagedClusters, for all numbers of nodes and of faults.   *)
(***************************************************************************)
EXTENDS ManagedClusters, TLAPS

\* The invariant of each provider that its lifecycle rests on: a cluster that
\* exists is on record between commands, or something is to blame, and the
\* directory goes only when the cluster is gone.
CivoInv ==
  /\ Civo!TypeOK
  /\ pc \in {"idle", "new", "load", "delete"} /\ live # {} => Civo!isPresent \/ seen # {}
  /\ pc \in {"saveConfig", "saveInfo"} => live = {"ready"}
  /\ pc = "drop" => live = {}

AzureInv ==
  /\ Azure!TypeOK
  /\ pc \in {"idle", "read", "delete", "deleteGroup"} /\ live # {} =>
       Azure!isPresent \/ seen \cap {"disk", "crash"} # {}
  /\ pc = "drop" => live = {}

LocalInv ==
  /\ Local!TypeOK
  /\ live = {"ours"} => Local!isPresent
  /\ pc = "kind" => Local!isPresent
  /\ pc = "drop" => live = {}

IInv ==
  \/ which = "civo" /\ CivoInv
  \/ which = "azure" /\ AzureInv
  \/ which = "local" /\ LocalInv

-----------------------------------------------------------------------------
LEMMA InitInv == Init => IInv
<1>1. 0 \in 0..MaxFaults
  BY BoundsAssumption
<1>2. ASSUME Civo!Init PROVE CivoInv
  BY <1>1, <1>2 DEF CivoInv, Civo!Init, Civo!TypeOK, Civo!EmptyDisk, Civo!Disk, Civo!Stage, Civo!Op, Civo!Outcome
<1>3. ASSUME Azure!Init PROVE AzureInv
  BY <1>1, <1>3 DEF AzureInv, Azure!Init, Azure!TypeOK, Azure!EmptyDisk, Azure!Disk, Azure!Stage, Azure!Op, Azure!Outcome
<1>4. ASSUME Local!Init PROVE LocalInv
  BY <1>1, <1>4 DEF LocalInv, Local!Init, Local!TypeOK, Local!EmptyDisk, Local!Disk, Local!Stage, Local!Op, Local!Outcome
<1>5. QED
  BY <1>2, <1>3, <1>4 DEF Init, IInv

-----------------------------------------------------------------------------
LEMMA CivoHit ==
  ASSUME NEW f, Civo!Hit(f), hits \in 0..MaxFaults, seen \subseteq Faults
  PROVE  hits' \in 0..MaxFaults /\ f \in Faults /\ seen' = seen \cup {f} /\ seen' \subseteq Faults /\ seen' # {}
BY BoundsAssumption DEF Civo!Hit

LEMMA CivoWrite ==
  ASSUME disk \in Civo!Disk
  PROVE  /\ Civo!EmptyDisk \in Civo!Disk
         /\ \A f \in {"absent", "torn", "saved"} :
              [disk EXCEPT !.file = f] \in Civo!Disk /\ [disk EXCEPT !.file = f].file = f
         /\ \A f \in {"absent", "torn", "saved"} : \A c \in {"none", "empty", "full"} :
              [file |-> f, kubeconfig |-> c] \in Civo!Disk /\ [file |-> f, kubeconfig |-> c].file = f
         /\ \A c \in {"none", "empty", "full"} :
              [disk EXCEPT !.kubeconfig = c] \in Civo!Disk /\ [disk EXCEPT !.kubeconfig = c].file = disk.file
         /\ Civo!PartlyRemoved \subseteq Civo!Disk
BY DEF Civo!Disk, Civo!EmptyDisk, Civo!PartlyRemoved

LEMMA CivoKeepsInv ==
  ASSUME CivoInv, Civo!Next
  PROVE  CivoInv'
<1>1. CASE Civo!StartCreate
  BY <1>1 DEF CivoInv, Civo!StartCreate, Civo!Refuse, Civo!Begin, Civo!vars, Civo!NoHit,
     Civo!TypeOK, Civo!Stage, Civo!Op, Civo!Outcome, Civo!isPresent
<1>2. CASE Civo!NewKubernetesClusters
  BY <1>2, CivoHit DEF CivoInv, Civo!NewKubernetesClusters, Civo!NoHit, Civo!Continue,
     Civo!NewFails, Civo!Return, Civo!TypeOK, Civo!Stage, Civo!Op, Civo!Outcome, Civo!isPresent
<1>3. CASE Civo!GetKubernetesCluster
  BY <1>3, CivoHit DEF CivoInv, Civo!GetKubernetesCluster, Civo!NoHit, Civo!Continue, Civo!Return,
     Civo!TypeOK, Civo!Stage, Civo!Op, Civo!Outcome, Civo!isPresent
<1>4. CASE Civo!SaveKubeconfig
  BY <1>4, CivoHit, CivoWrite DEF CivoInv, Civo!SaveKubeconfig, Civo!NoHit, Civo!Continue,
     Civo!TypeOK, Civo!Stage, Civo!Op, Civo!Outcome, Civo!isPresent
<1>5. CASE Civo!SaveConfigManaged
  BY <1>5, CivoHit, CivoWrite DEF CivoInv, Civo!SaveConfigManaged, Civo!NoHit, Civo!Return,
     Civo!Continue, Civo!TypeOK, Civo!Stage, Civo!Op, Civo!Outcome, Civo!isPresent
<1>6. CASE Civo!StartDelete
  BY <1>6 DEF CivoInv, Civo!StartDelete, Civo!Begin, Civo!Refuse, Civo!NoHit, Civo!vars,
     Civo!TypeOK, Civo!Stage, Civo!Op, Civo!Outcome, Civo!isPresent
<1>7. CASE Civo!GetConfigManaged
  BY <1>7 DEF CivoInv, Civo!GetConfigManaged, Civo!Continue, Civo!Return, Civo!NoHit, Civo!TypeOK,
     Civo!Stage, Civo!Op, Civo!Outcome, Civo!isPresent
<1>8. CASE Civo!DeleteCluster
  BY <1>8, CivoHit DEF CivoInv, Civo!DeleteCluster, Civo!NoHit, Civo!Continue, Civo!Return,
     Civo!TypeOK, Civo!Stage, Civo!Op, Civo!Outcome, Civo!isPresent
<1>9. CASE Civo!RemoveAll
  BY <1>9, CivoHit, CivoWrite DEF CivoInv, Civo!RemoveAll, Civo!NoHit, Civo!ReturnFromDelete,
     Civo!Return, Civo!TypeOK, Civo!Stage, Civo!Op, Civo!Outcome, Civo!isPresent
<1>10. CASE Civo!Crash
  BY <1>10, CivoHit, CivoWrite DEF CivoInv, Civo!Crash, Civo!Killed, Civo!Return, Civo!TypeOK,
     Civo!Stage, Civo!Op, Civo!Outcome, Civo!isPresent
<1>11. CASE Civo!BecomesReady
  BY <1>11 DEF CivoInv, Civo!BecomesReady, Civo!TypeOK, Civo!Stage, Civo!Op, Civo!Outcome,
     Civo!isPresent
<1>12. QED
  BY <1>1, <1>2, <1>3, <1>4, <1>5, <1>6, <1>7, <1>8, <1>9, <1>10, <1>11 DEF Civo!Next, Civo!Step

-----------------------------------------------------------------------------
LEMMA AzureHit ==
  ASSUME NEW f, Azure!Hit(f), hits \in 0..MaxFaults, seen \subseteq Faults
  PROVE  hits' \in 0..MaxFaults /\ f \in Faults /\ seen' = seen \cup {f} /\ seen' \subseteq Faults /\ seen' # {}
BY BoundsAssumption DEF Azure!Hit

LEMMA AzureWrite ==
  ASSUME disk \in Azure!Disk
  PROVE  /\ Azure!EmptyDisk \in Azure!Disk
         /\ \A f \in {"absent", "torn", "saved"} :
              [disk EXCEPT !.file = f] \in Azure!Disk /\ [disk EXCEPT !.file = f].file = f
         /\ \A f \in {"absent", "torn", "saved"} : \A c \in {"none", "empty", "full"} :
              [file |-> f, kubeconfig |-> c] \in Azure!Disk /\ [file |-> f, kubeconfig |-> c].file = f
         /\ \A c \in {"none", "empty", "full"} :
              [disk EXCEPT !.kubeconfig = c] \in Azure!Disk /\ [disk EXCEPT !.kubeconfig = c].file = disk.file
         /\ Azure!PartlyRemoved \subseteq Azure!Disk
BY DEF Azure!Disk, Azure!EmptyDisk, Azure!PartlyRemoved

LEMMA AzureKeepsInv ==
  ASSUME AzureInv, Azure!Next
  PROVE  AzureInv'
<1>1. CASE Azure!StartCreate
  BY <1>1 DEF AzureInv, Azure!StartCreate, Azure!Refuse, Azure!Begin, Azure!vars, Azure!NoHit,
     Azure!TypeOK, Azure!Stage, Azure!Op, Azure!Outcome, Azure!isPresent
<1>2. CASE Azure!CreateResourceGroup
  BY <1>2, AzureHit DEF AzureInv, Azure!CreateResourceGroup, Azure!Call, Azure!Continue,
     Azure!NoHit, Azure!TypeOK, Azure!Stage, Azure!Op, Azure!Outcome, Azure!isPresent
<1>3. CASE Azure!CreateManagedCluster
  BY <1>3, AzureHit DEF AzureInv, Azure!CreateManagedCluster, Azure!Call, Azure!Continue,
     Azure!NoHit, Azure!TypeOK, Azure!Stage, Azure!Op, Azure!Outcome, Azure!isPresent
<1>4. CASE Azure!ListClusterAdminCredentials
  BY <1>4, AzureHit DEF AzureInv, Azure!ListClusterAdminCredentials, Azure!NoHit, Azure!Continue,
     Azure!TypeOK, Azure!Stage, Azure!Op, Azure!Outcome, Azure!isPresent
<1>5. CASE Azure!SaveKubeconfig
  BY <1>5, AzureHit, AzureWrite DEF AzureInv, Azure!SaveKubeconfig, Azure!NoHit, Azure!Continue,
     Azure!TypeOK, Azure!Stage, Azure!Op, Azure!Outcome, Azure!isPresent
<1>6. CASE Azure!ReturnFromCreate
  BY <1>6, AzureHit, AzureWrite, ZenonT(40) DEF AzureInv, Azure!ReturnFromCreate, Azure!NoHit, Azure!Return,
     Azure!Continue, Azure!TypeOK, Azure!Stage, Azure!Op, Azure!Outcome, Azure!isPresent
<1>7. CASE Azure!StartDelete
  BY <1>7 DEF AzureInv, Azure!StartDelete, Azure!Refuse, Azure!Begin, Azure!vars, Azure!NoHit,
     Azure!TypeOK, Azure!Stage, Azure!Op, Azure!Outcome, Azure!isPresent
<1>8. CASE Azure!ConfigReader
  BY <1>8 DEF AzureInv, Azure!ConfigReader, Azure!Continue, Azure!Return, Azure!NoHit,
     Azure!TypeOK, Azure!Stage, Azure!Op, Azure!Outcome, Azure!isPresent
<1>9. CASE Azure!DeleteManagedCluster
  BY <1>9, AzureHit DEF AzureInv, Azure!DeleteManagedCluster, Azure!Call, Azure!Continue,
     Azure!Return, Azure!NoHit, Azure!TypeOK, Azure!Stage, Azure!Op, Azure!Outcome,
     Azure!isPresent
<1>10. CASE Azure!DeleteResourceGroup
  BY <1>10, AzureHit DEF AzureInv, Azure!DeleteResourceGroup, Azure!Call, Azure!Continue,
     Azure!Return, Azure!NoHit, Azure!TypeOK, Azure!Stage, Azure!Op, Azure!Outcome,
     Azure!isPresent
<1>11. CASE Azure!RemoveAll
  BY <1>11, AzureHit, AzureWrite DEF AzureInv, Azure!RemoveAll, Azure!NoHit,
     Azure!ReturnFromDelete, Azure!Return, Azure!TypeOK, Azure!Stage, Azure!Op, Azure!Outcome,
     Azure!isPresent
<1>12. CASE Azure!Crash
  BY <1>12, AzureHit, AzureWrite DEF AzureInv, Azure!Crash, Azure!Killed, Azure!Return,
     Azure!TypeOK, Azure!Stage, Azure!Op, Azure!Outcome, Azure!isPresent
<1>13. QED
  BY <1>1, <1>2, <1>3, <1>4, <1>5, <1>6, <1>7, <1>8, <1>9, <1>10, <1>11, <1>12 DEF Azure!Next, Azure!Step

-----------------------------------------------------------------------------
LEMMA LocalHit ==
  ASSUME NEW f, Local!Hit(f), hits \in 0..MaxFaults, seen \subseteq Faults
  PROVE  hits' \in 0..MaxFaults /\ f \in Faults /\ seen' = seen \cup {f} /\ seen' \subseteq Faults /\ seen' # {}
BY BoundsAssumption DEF Local!Hit

LEMMA LocalWrite ==
  ASSUME disk \in Local!Disk
  PROVE  /\ Local!EmptyDisk \in Local!Disk
         /\ \A f \in {"absent", "torn", "saved"} :
              [disk EXCEPT !.file = f] \in Local!Disk /\ [disk EXCEPT !.file = f].file = f
         /\ \A f \in {"absent", "torn", "saved"} : \A c \in {"none", "empty", "full"} :
              [file |-> f, kubeconfig |-> c] \in Local!Disk /\ [file |-> f, kubeconfig |-> c].file = f
         /\ \A c \in {"none", "empty", "full"} :
              [disk EXCEPT !.kubeconfig = c] \in Local!Disk /\ [disk EXCEPT !.kubeconfig = c].file = disk.file
         /\ Local!PartlyRemoved \subseteq Local!Disk
BY DEF Local!Disk, Local!EmptyDisk, Local!PartlyRemoved

LEMMA LocalKeepsInv ==
  ASSUME LocalInv, Local!Next
  PROVE  LocalInv'
<1>1. CASE Local!StartCreate
  BY <1>1 DEF LocalInv, Local!StartCreate, Local!Refuse, Local!Begin, Local!vars, Local!NoHit,
     Local!TypeOK, Local!Stage, Local!Op, Local!Outcome, Local!isPresent
<1>2. CASE Local!CreateNecessaryConfigs
  BY <1>2, LocalHit, LocalWrite, ZenonT(40) DEF LocalInv, Local!CreateNecessaryConfigs, Local!NoHit,
     Local!Continue, Local!TypeOK, Local!Stage, Local!Op, Local!Outcome, Local!isPresent
<1>3. CASE Local!Create
  BY <1>3, LocalHit, LocalWrite, ZenonT(40) DEF LocalInv, Local!Create, Local!NoHit, Local!Return,
     Local!Continue, Local!TypeOK, Local!Stage, Local!Op, Local!Outcome, Local!isPresent
<1>4. CASE Local!StartDelete
  BY <1>4 DEF LocalInv, Local!StartDelete, Local!Begin, Local!NoHit, Local!TypeOK, Local!Stage,
     Local!Op, Local!Outcome, Local!isPresent
<1>5. CASE Local!ReadInfo
  BY <1>5 DEF LocalInv, Local!ReadInfo, Local!Continue, Local!ReturnFromDelete, Local!NoHit,
     Local!Return, Local!TypeOK, Local!Stage, Local!Op, Local!Outcome, Local!isPresent
<1>6. CASE Local!Delete
  BY <1>6, LocalHit DEF LocalInv, Local!Delete, Local!NoHit, Local!Continue,
     Local!ReturnFromDelete, Local!Return, Local!TypeOK, Local!Stage, Local!Op, Local!Outcome,
     Local!isPresent
<1>7. CASE Local!RemoveAll
  BY <1>7, LocalHit, LocalWrite DEF LocalInv, Local!RemoveAll, Local!NoHit,
     Local!ReturnFromDelete, Local!Return, Local!TypeOK, Local!Stage, Local!Op, Local!Outcome,
     Local!isPresent
<1>8. CASE Local!Crash
  BY <1>8, LocalHit, LocalWrite DEF LocalInv, Local!Crash, Local!Killed, Local!Return,
     Local!TypeOK, Local!Stage, Local!Op, Local!Outcome, Local!isPresent
<1>9. QED
  BY <1>1, <1>2, <1>3, <1>4, <1>5, <1>6, <1>7, <1>8 DEF Local!Next, Local!Step

-----------------------------------------------------------------------------
(* The steps of the provider seen as steps of ClusterLifecycle             *)

LEMMA CivoSteps ==
  ASSUME CivoInv, Civo!Next, which = "civo", UNCHANGED which
  PROVE  [CivoView!Next]_CivoView!vars
<1>1. CASE Civo!StartCreate
  BY <1>1 DEF CivoInv, Civo!StartCreate, Civo!Refuse, Civo!Begin, Civo!vars, Civo!NoHit,
     Civo!isPresent, isPresent, CivoView!vars, CivoView!Next, CivoView!Start, Civo!TypeOK
<1>2. CASE Civo!NewKubernetesClusters
  BY <1>2, CivoHit DEF CivoInv, Civo!NewKubernetesClusters, Civo!NoHit, Civo!Continue,
     Civo!NewFails, Civo!Return, Civo!isPresent, isPresent, CivoView!vars, CivoView!Next,
     CivoView!Work, CivoView!Blamed, CivoView!End, Civo!TypeOK
<1>3. CASE Civo!GetKubernetesCluster
  BY <1>3, CivoHit DEF CivoInv, Civo!GetKubernetesCluster, Civo!NoHit, Civo!Continue, Civo!Return,
     Civo!isPresent, isPresent, CivoView!vars, CivoView!Next, CivoView!Work, CivoView!Blamed,
     CivoView!End, Civo!TypeOK
<1>4. CASE Civo!SaveKubeconfig
  BY <1>4, CivoHit, CivoWrite, ZenonT(40) DEF CivoInv, Civo!SaveKubeconfig, Civo!NoHit, Civo!Continue,
     Civo!isPresent, isPresent, CivoView!vars, CivoView!Next, CivoView!Work, CivoView!Blamed,
     CivoView!Record, Civo!TypeOK
<1>5. CASE Civo!SaveConfigManaged
  BY <1>5, CivoHit, CivoWrite DEF CivoInv, Civo!SaveConfigManaged, Civo!NoHit, Civo!Return,
     Civo!Continue, Civo!isPresent, isPresent, CivoView!vars, CivoView!Next, CivoView!Work,
     CivoView!Blamed, CivoView!End, CivoView!Record, Civo!TypeOK
<1>6. CASE Civo!StartDelete
  BY <1>6 DEF CivoInv, Civo!StartDelete, Civo!Begin, Civo!Refuse, Civo!NoHit, Civo!vars,
     Civo!isPresent, isPresent, CivoView!vars, CivoView!Next, CivoView!Start, Civo!TypeOK
<1>7. CASE Civo!GetConfigManaged
  BY <1>7 DEF CivoInv, Civo!GetConfigManaged, Civo!Continue, Civo!Return, Civo!NoHit,
     Civo!isPresent, isPresent, CivoView!vars, CivoView!Next, CivoView!Work, CivoView!Blamed,
     CivoView!End, Civo!TypeOK
<1>8. CASE Civo!DeleteCluster
  BY <1>8, CivoHit DEF CivoInv, Civo!DeleteCluster, Civo!NoHit, Civo!Continue, Civo!Return,
     Civo!isPresent, isPresent, CivoView!vars, CivoView!Next, CivoView!Work, CivoView!Blamed,
     CivoView!End, Civo!TypeOK
<1>9. CASE Civo!RemoveAll
  BY <1>9, CivoHit, CivoWrite DEF CivoInv, Civo!RemoveAll, Civo!EmptyDisk, Civo!NoHit,
     Civo!ReturnFromDelete, Civo!Return, Civo!isPresent, isPresent, CivoView!vars, CivoView!Next,
     CivoView!Work, CivoView!Forget, CivoView!End, CivoView!Blamed, Civo!TypeOK
<1>10. CASE Civo!Crash
  BY <1>10, CivoHit, CivoWrite DEF CivoInv, Civo!Crash, Civo!Killed, Civo!Return, Civo!isPresent,
     isPresent, CivoView!vars, CivoView!Next, CivoView!Work, CivoView!Forget, CivoView!End,
     CivoView!Blamed, Civo!TypeOK
<1>11. CASE Civo!BecomesReady
  BY <1>11 DEF CivoInv, Civo!BecomesReady, Civo!isPresent, isPresent, CivoView!vars, Civo!TypeOK
<1>12. QED
  BY <1>1, <1>2, <1>3, <1>4, <1>5, <1>6, <1>7, <1>8, <1>9, <1>10, <1>11 DEF Civo!Next, Civo!Step

LEMMA AzureSteps ==
  ASSUME AzureInv, Azure!Next, which = "azure", UNCHANGED which
  PROVE  [AzureView!Next]_AzureView!vars
<1>1. CASE Azure!StartCreate
  BY <1>1 DEF AzureInv, Azure!StartCreate, Azure!Refuse, Azure!Begin, Azure!vars, Azure!NoHit,
     Azure!isPresent, isPresent, AzureView!vars, AzureView!Next, AzureView!Start, Azure!TypeOK
<1>2. CASE Azure!CreateResourceGroup
  BY <1>2, AzureHit DEF AzureInv, Azure!CreateResourceGroup, Azure!Call, Azure!Continue,
     Azure!NoHit, Azure!isPresent, isPresent, AzureView!vars, AzureView!Next, AzureView!Work,
     AzureView!Blamed, Azure!TypeOK
<1>3. CASE Azure!CreateManagedCluster
  BY <1>3, AzureHit DEF AzureInv, Azure!CreateManagedCluster, Azure!Call, Azure!Continue,
     Azure!NoHit, Azure!isPresent, isPresent, AzureView!vars, AzureView!Next, AzureView!Work,
     AzureView!Blamed, Azure!TypeOK
<1>4. CASE Azure!ListClusterAdminCredentials
  BY <1>4, AzureHit DEF AzureInv, Azure!ListClusterAdminCredentials, Azure!NoHit, Azure!Continue,
     Azure!isPresent, isPresent, AzureView!vars, AzureView!Next, AzureView!Work, AzureView!Blamed,
     Azure!TypeOK
<1>5. CASE Azure!SaveKubeconfig
  BY <1>5, AzureHit, AzureWrite, ZenonT(40) DEF AzureInv, Azure!SaveKubeconfig, Azure!NoHit, Azure!Continue,
     Azure!isPresent, isPresent, AzureView!vars, AzureView!Next, AzureView!Work, AzureView!Blamed,
     AzureView!Record, Azure!TypeOK
<1>6. CASE Azure!ReturnFromCreate
  BY <1>6, AzureHit, AzureWrite DEF AzureInv, Azure!ReturnFromCreate, Azure!NoHit, Azure!Return,
     Azure!Continue, Azure!isPresent, isPresent, AzureView!vars, AzureView!Next, AzureView!Work,
     AzureView!Blamed, AzureView!End, AzureView!Record, Azure!TypeOK
<1>7. CASE Azure!StartDelete
  BY <1>7 DEF AzureInv, Azure!StartDelete, Azure!Refuse, Azure!Begin, Azure!vars, Azure!NoHit,
     Azure!isPresent, isPresent, AzureView!vars, AzureView!Next, AzureView!Start, Azure!TypeOK
<1>8. CASE Azure!ConfigReader
  BY <1>8 DEF AzureInv, Azure!ConfigReader, Azure!Continue, Azure!Return, Azure!NoHit,
     Azure!isPresent, isPresent, AzureView!vars, AzureView!Next, AzureView!Work, AzureView!Blamed,
     AzureView!End, Azure!TypeOK
<1>9. CASE Azure!DeleteManagedCluster
  BY <1>9, AzureHit DEF AzureInv, Azure!DeleteManagedCluster, Azure!Call, Azure!Continue,
     Azure!Return, Azure!NoHit, Azure!isPresent, isPresent, AzureView!vars, AzureView!Next,
     AzureView!Work, AzureView!Blamed, AzureView!End, Azure!TypeOK
<1>10. CASE Azure!DeleteResourceGroup
  BY <1>10, AzureHit DEF AzureInv, Azure!DeleteResourceGroup, Azure!Call, Azure!Continue,
     Azure!Return, Azure!NoHit, Azure!isPresent, isPresent, AzureView!vars, AzureView!Next,
     AzureView!Work, AzureView!Blamed, AzureView!End, Azure!TypeOK
<1>11. CASE Azure!RemoveAll
  BY <1>11, AzureHit, AzureWrite DEF AzureInv, Azure!RemoveAll, Azure!EmptyDisk, Azure!NoHit,
     Azure!ReturnFromDelete, Azure!Return, Azure!isPresent, isPresent, AzureView!vars,
     AzureView!Next, AzureView!Work, AzureView!Forget, AzureView!End, AzureView!Blamed,
     Azure!TypeOK
<1>12. CASE Azure!Crash
  BY <1>12, AzureHit, AzureWrite DEF AzureInv, Azure!Crash, Azure!Killed, Azure!Return,
     Azure!isPresent, isPresent, AzureView!vars, AzureView!Next, AzureView!Work, AzureView!Forget,
     AzureView!End, AzureView!Blamed, Azure!TypeOK
<1>13. QED
  BY <1>1, <1>2, <1>3, <1>4, <1>5, <1>6, <1>7, <1>8, <1>9, <1>10, <1>11, <1>12 DEF Azure!Next, Azure!Step

LEMMA LocalSteps ==
  ASSUME LocalInv, Local!Next, which = "local", UNCHANGED which
  PROVE  [LocalView!Next]_LocalView!vars
<1>1. CASE Local!StartCreate
  BY <1>1 DEF LocalInv, Local!StartCreate, Local!Refuse, Local!Begin, Local!vars, Local!NoHit,
     Local!isPresent, isPresent, LocalView!vars, LocalView!Next, LocalView!Start, Local!TypeOK
<1>2. CASE Local!CreateNecessaryConfigs
  BY <1>2, LocalHit, LocalWrite DEF LocalInv, Local!CreateNecessaryConfigs, Local!NoHit,
     Local!Continue, Local!isPresent, isPresent, LocalView!vars, LocalView!Next, LocalView!Work,
     LocalView!Blamed, LocalView!Record, Local!TypeOK
<1>3. CASE Local!Create
  BY <1>3, LocalHit, LocalWrite DEF LocalInv, Local!Create, Local!NoHit, Local!Return,
     Local!Continue, Local!isPresent, isPresent, LocalView!vars, LocalView!Next, LocalView!Work,
     LocalView!Blamed, LocalView!End, LocalView!Record, Local!TypeOK
<1>4. CASE Local!StartDelete
  BY <1>4 DEF LocalInv, Local!StartDelete, Local!Begin, Local!NoHit, Local!isPresent, isPresent,
     LocalView!vars, LocalView!Next, LocalView!Start, Local!TypeOK
<1>5. CASE Local!ReadInfo
  BY <1>5 DEF LocalInv, Local!ReadInfo, Local!Continue, Local!ReturnFromDelete, Local!NoHit,
     Local!Return, Local!isPresent, isPresent, LocalView!vars, LocalView!Next, LocalView!Work,
     LocalView!Blamed, LocalView!End, Local!TypeOK
<1>6. CASE Local!Delete
  BY <1>6, LocalHit DEF LocalInv, Local!Delete, Local!NoHit, Local!Continue,
     Local!ReturnFromDelete, Local!Return, Local!isPresent, isPresent, LocalView!vars,
     LocalView!Next, LocalView!Work, LocalView!Blamed, LocalView!End, Local!TypeOK
<1>7. CASE Local!RemoveAll
  BY <1>7, LocalHit, LocalWrite DEF LocalInv, Local!RemoveAll, Local!EmptyDisk, Local!NoHit,
     Local!ReturnFromDelete, Local!Return, Local!isPresent, isPresent, LocalView!vars,
     LocalView!Next, LocalView!Work, LocalView!Forget, LocalView!End, LocalView!Blamed,
     Local!TypeOK
<1>8. CASE Local!Crash
  BY <1>8, LocalHit, LocalWrite DEF LocalInv, Local!Crash, Local!Killed, Local!Return,
     Local!isPresent, isPresent, LocalView!vars, LocalView!Next, LocalView!Work, LocalView!Forget,
     LocalView!End, LocalView!Blamed, Local!TypeOK
<1>9. QED
  BY <1>1, <1>2, <1>3, <1>4, <1>5, <1>6, <1>7, <1>8 DEF Local!Next, Local!Step

-----------------------------------------------------------------------------
(* What follows                                                            *)

LEMMA NextKeepsInv ==
  ASSUME IInv, [Next]_allVars
  PROVE  IInv'
<1>1. CASE UNCHANGED allVars
  BY <1>1 DEF IInv, CivoInv, AzureInv, LocalInv, allVars, vars, Civo!TypeOK, Azure!TypeOK, Local!TypeOK,
     Civo!isPresent, Azure!isPresent, Local!isPresent
<1>2. CASE which = "civo" /\ Civo!Next /\ UNCHANGED which
  BY <1>2, CivoKeepsInv DEF IInv
<1>3. CASE which = "azure" /\ Azure!Next /\ UNCHANGED which
  BY <1>3, AzureKeepsInv DEF IInv
<1>4. CASE which = "local" /\ Local!Next /\ UNCHANGED which
  BY <1>4, LocalKeepsInv DEF IInv
<1>5. QED
  BY <1>1, <1>2, <1>3, <1>4 DEF Next

\* The invariant holds of every behaviour.
THEOREM Inductive == Spec => []IInv
<1>1. IInv /\ [Next]_allVars => IInv'
  BY NextKeepsInv
<1>2. QED
  BY InitInv, <1>1, PTL DEF Spec

\* The types, for all numbers of nodes and faults: among other things there
\* are never two kind clusters of one name.
THEOREM Typed == Spec => []TypeOK
<1>1. IInv => TypeOK
  BY DEF IInv, CivoInv, AzureInv, LocalInv, TypeOK
<1>2. QED
  BY Inductive, <1>1, PTL

LEMMA CivoViewInit == Init => CivoView!Init
BY DEF Init, CivoView!Init, Civo!Init, Azure!Init, Local!Init, Civo!EmptyDisk, Azure!EmptyDisk,
   Local!EmptyDisk, isPresent

LEMMA CivoViewStep ==
  ASSUME IInv, [Next]_allVars
  PROVE  [CivoView!Next]_CivoView!vars
<1>1. CASE UNCHANGED allVars
  BY <1>1 DEF allVars, vars, CivoView!vars, isPresent
<1>2. CASE which = "civo" /\ Civo!Next /\ UNCHANGED which
  BY <1>2, CivoSteps DEF IInv
<1>3. CASE which \in {"azure", "local"} /\ UNCHANGED which
  BY <1>3 DEF CivoView!vars, isPresent
<1>4. QED
  BY <1>1, <1>2, <1>3 DEF Next

\* No Civo cluster is forgotten that exists, and none is left behind without
\* a state file unless something went wrong.
THEOREM CivoImplements == Spec => CivoLifecycle
BY Inductive, CivoViewInit, CivoViewStep, PTL DEF Spec, CivoLifecycle, CivoView!Spec

LEMMA AzureViewInit == Init => AzureView!Init
BY DEF Init, AzureView!Init, Civo!Init, Azure!Init, Local!Init, Civo!EmptyDisk, Azure!EmptyDisk,
   Local!EmptyDisk, isPresent

LEMMA AzureViewStep ==
  ASSUME IInv, [Next]_allVars
  PROVE  [AzureView!Next]_AzureView!vars
<1>1. CASE UNCHANGED allVars
  BY <1>1 DEF allVars, vars, AzureView!vars, isPresent
<1>2. CASE which = "azure" /\ Azure!Next /\ UNCHANGED which
  BY <1>2, AzureSteps DEF IInv
<1>3. CASE which \in {"civo", "local"} /\ UNCHANGED which
  BY <1>3 DEF AzureView!vars, isPresent
<1>4. QED
  BY <1>1, <1>2, <1>3 DEF Next

\* The same for AKS clusters, where only a kill or a failed write can be to
\* blame.
THEOREM AzureImplements == Spec => AzureLifecycle
BY Inductive, AzureViewInit, AzureViewStep, PTL DEF Spec, AzureLifecycle, AzureView!Spec

LEMMA LocalViewInit == Init => LocalView!Init
BY DEF Init, LocalView!Init, Civo!Init, Azure!Init, Local!Init, Civo!EmptyDisk, Azure!EmptyDisk,
   Local!EmptyDisk, isPresent

LEMMA LocalViewStep ==
  ASSUME IInv, [Next]_allVars
  PROVE  [LocalView!Next]_LocalView!vars
<1>1. CASE UNCHANGED allVars
  BY <1>1 DEF allVars, vars, LocalView!vars, isPresent
<1>2. CASE which = "local" /\ Local!Next /\ UNCHANGED which
  BY <1>2, LocalSteps DEF IInv
<1>3. CASE which \in {"civo", "azure"} /\ UNCHANGED which
  BY <1>3 DEF LocalView!vars, isPresent
<1>4. QED
  BY <1>1, <1>2, <1>3 DEF Next

\* The same for kind clusters, with nothing to blame.
THEOREM LocalImplements == Spec => LocalLifecycle
BY Inductive, LocalViewInit, LocalViewStep, PTL DEF Spec, LocalLifecycle, LocalView!Spec
-----------------------------------------------------------------------------
(* Reported success is complete                                            *)

\* What has been achieved at each stage on the way to a success.
CivoDone ==
  /\ pc # "idle" => outcome = "none"
  /\ pc = "saveInfo" => disk.kubeconfig = "full"
  /\ outcome = "created" => live = {"ready"} /\ disk = [file |-> "saved", kubeconfig |-> "full"]
  /\ outcome = "deleted" => live = {} /\ disk = Civo!EmptyDisk

AzureDone ==
  /\ pc # "idle" => outcome = "none"
  /\ pc \in {"credentials", "saveConfig", "exit"} => live = {"group", "aks"}
  /\ pc = "exit" => disk.kubeconfig = "full"
  /\ outcome = "created" /\ "disk" \notin seen =>
       live = {"group", "aks"} /\ disk = [file |-> "saved", kubeconfig |-> "full"]
  /\ outcome = "deleted" => live = {} /\ disk = Azure!EmptyDisk

LocalDone ==
  /\ pc # "idle" => outcome = "none"
  /\ pc = "kind" => disk.file = "saved"
  /\ outcome = "created" => live = {"ours"} /\ disk = [file |-> "saved", kubeconfig |-> "full"]
  /\ outcome = "deleted" => live = {} /\ disk = Local!EmptyDisk

Done ==
  \/ which = "civo" /\ CivoDone
  \/ which = "azure" /\ AzureDone
  \/ which = "local" /\ LocalDone

LEMMA DoneAtFirst == Init => Done
BY DEF Init, Done, CivoDone, AzureDone, LocalDone, Civo!Init, Azure!Init, Local!Init

-----------------------------------------------------------------------------
LEMMA CivoRecord ==
  ASSUME disk \in Civo!Disk
  PROVE  /\ \A f : [disk EXCEPT !.file = f] = [file |-> f, kubeconfig |-> disk.kubeconfig]
         /\ \A c : [disk EXCEPT !.kubeconfig = c] = [file |-> disk.file, kubeconfig |-> c]
BY DEF Civo!Disk

LEMMA CivoKeepsDone ==
  ASSUME CivoInv, CivoDone, Civo!Next
  PROVE  CivoDone'
<1>1. CASE Civo!StartCreate
  BY <1>1 DEF CivoInv, CivoDone, Civo!StartCreate, Civo!Refuse, Civo!Begin, Civo!vars,
     Civo!NoHit, Civo!TypeOK, Civo!Stage, Civo!Op, Civo!Outcome, Civo!isPresent
<1>2. CASE Civo!NewKubernetesClusters
  BY <1>2, CivoHit DEF CivoInv, CivoDone, Civo!NewKubernetesClusters, Civo!NoHit, Civo!Continue,
     Civo!NewFails, Civo!Return, Civo!TypeOK, Civo!Stage, Civo!Op, Civo!Outcome, Civo!isPresent
<1>3. CASE Civo!GetKubernetesCluster
  BY <1>3, CivoHit DEF CivoInv, CivoDone, Civo!GetKubernetesCluster, Civo!NoHit, Civo!Continue,
     Civo!Return, Civo!TypeOK, Civo!Stage, Civo!Op, Civo!Outcome, Civo!isPresent
<1>4. CASE Civo!SaveKubeconfig
  BY <1>4, CivoHit, CivoRecord DEF CivoInv, CivoDone, Civo!SaveKubeconfig, Civo!NoHit,
     Civo!Continue, Civo!TypeOK, Civo!Stage, Civo!Op, Civo!Outcome, Civo!isPresent
<1>5. CASE Civo!SaveConfigManaged
  BY <1>5, CivoHit, CivoRecord DEF CivoInv, CivoDone, Civo!SaveConfigManaged, Civo!NoHit,
     Civo!Return, Civo!Continue, Civo!TypeOK, Civo!Stage, Civo!Op, Civo!Outcome, Civo!isPresent
<1>6. CASE Civo!StartDelete
  BY <1>6 DEF CivoInv, CivoDone, Civo!StartDelete, Civo!Begin, Civo!Refuse, Civo!NoHit,
     Civo!vars, Civo!TypeOK, Civo!Stage, Civo!Op, Civo!Outcome, Civo!isPresent
<1>7. CASE Civo!GetConfigManaged
  BY <1>7 DEF CivoInv, CivoDone, Civo!GetConfigManaged, Civo!Continue, Civo!Return, Civo!NoHit,
     Civo!TypeOK, Civo!Stage, Civo!Op, Civo!Outcome, Civo!isPresent
<1>8. CASE Civo!DeleteCluster
  BY <1>8, CivoHit DEF CivoInv, CivoDone, Civo!DeleteCluster, Civo!NoHit, Civo!Continue,
     Civo!Return, Civo!TypeOK, Civo!Stage, Civo!Op, Civo!Outcome, Civo!isPresent
<1>9. CASE Civo!RemoveAll
  BY <1>9, CivoHit, CivoRecord DEF CivoInv, CivoDone, Civo!RemoveAll, Civo!NoHit,
     Civo!ReturnFromDelete, Civo!Return, Civo!TypeOK, Civo!Stage, Civo!Op, Civo!Outcome,
     Civo!isPresent
<1>10. CASE Civo!Crash
  BY <1>10, CivoHit, CivoRecord DEF CivoInv, CivoDone, Civo!Crash, Civo!Killed, Civo!Return,
     Civo!TypeOK, Civo!Stage, Civo!Op, Civo!Outcome, Civo!isPresent
<1>11. CASE Civo!BecomesReady
  BY <1>11 DEF CivoInv, CivoDone, Civo!BecomesReady, Civo!TypeOK, Civo!Stage, Civo!Op,
     Civo!Outcome, Civo!isPresent
<1>12. QED
  BY <1>1, <1>2, <1>3, <1>4, <1>5, <1>6, <1>7, <1>8, <1>9, <1>10, <1>11 DEF Civo!Next, Civo!Step

-----------------------------------------------------------------------------
LEMMA AzureRecord ==
  ASSUME disk \in Azure!Disk
  PROVE  /\ \A f : [disk EXCEPT !.file = f] = [file |-> f, kubeconfig |-> disk.kubeconfig]
         /\ \A c : [disk EXCEPT !.kubeconfig = c] = [file |-> disk.file, kubeconfig |-> c]
BY DEF Azure!Disk

LEMMA AzureKeepsDone ==
  ASSUME AzureInv, AzureDone, Azure!Next
  PROVE  AzureDone'
<1>1. CASE Azure!StartCreate
  BY <1>1 DEF AzureInv, AzureDone, Azure!StartCreate, Azure!Refuse, Azure!Begin, Azure!vars,
     Azure!NoHit, Azure!TypeOK, Azure!Stage, Azure!Op, Azure!Outcome, Azure!isPresent
<1>2. CASE Azure!CreateResourceGroup
  BY <1>2, AzureHit DEF AzureInv, AzureDone, Azure!CreateResourceGroup, Azure!Call,
     Azure!Continue, Azure!NoHit, Azure!TypeOK, Azure!Stage, Azure!Op, Azure!Outcome,
     Azure!isPresent
<1>3. CASE Azure!CreateManagedCluster
  BY <1>3, AzureHit DEF AzureInv, AzureDone, Azure!CreateManagedCluster, Azure!Call,
     Azure!Continue, Azure!NoHit, Azure!TypeOK, Azure!Stage, Azure!Op, Azure!Outcome,
     Azure!isPresent
<1>4. CASE Azure!ListClusterAdminCredentials
  BY <1>4, AzureHit DEF AzureInv, AzureDone, Azure!ListClusterAdminCredentials, Azure!NoHit,
     Azure!Continue, Azure!TypeOK, Azure!Stage, Azure!Op, Azure!Outcome, Azure!isPresent
<1>5. CASE Azure!SaveKubeconfig
  BY <1>5, AzureHit, AzureRecord DEF AzureInv, AzureDone, Azure!SaveKubeconfig, Azure!NoHit,
     Azure!Continue, Azure!TypeOK, Azure!Stage, Azure!Op, Azure!Outcome, Azure!isPresent
<1>6. CASE Azure!ReturnFromCreate
  <2>1. CASE pc = "exitFailed"
    <3>1. pc' = "read" /\ outcome' = "none"
      BY <1>6, <2>1 DEF AzureDone, Azure!ReturnFromCreate, Azure!Continue
    <3>2. QED
      BY <3>1 DEF AzureDone
  <2>2. CASE pc = "exit"
    <3>1. pc' = "idle" /\ outcome' = "created" /\ live' = {"group", "aks"}
      BY <1>6, <2>2 DEF AzureDone, Azure!ReturnFromCreate, Azure!Return
    <3>2. "disk" \notin seen' => disk' = [disk EXCEPT !.file = "saved"]
      BY <1>6, AzureHit DEF AzureInv, Azure!TypeOK, Azure!ReturnFromCreate, Azure!NoHit
    <3>3. disk.kubeconfig = "full" /\ disk \in Azure!Disk
      BY <2>2 DEF AzureDone, AzureInv, Azure!TypeOK
    <3>4. [disk EXCEPT !.file = "saved"] = [file |-> "saved", kubeconfig |-> "full"]
      BY <3>3, AzureRecord
    <3>5. QED
      BY <3>1, <3>2, <3>4 DEF AzureDone
  <2>3. QED
    BY <1>6, <2>1, <2>2 DEF Azure!ReturnFromCreate
<1>7. CASE Azure!StartDelete
  BY <1>7 DEF AzureInv, AzureDone, Azure!StartDelete, Azure!Refuse, Azure!Begin, Azure!vars,
     Azure!NoHit, Azure!TypeOK, Azure!Stage, Azure!Op, Azure!Outcome, Azure!isPresent
<1>8. CASE Azure!ConfigReader
  BY <1>8 DEF AzureInv, AzureDone, Azure!ConfigReader, Azure!Continue, Azure!Return, Azure!NoHit,
     Azure!TypeOK, Azure!Stage, Azure!Op, Azure!Outcome, Azure!isPresent
<1>9. CASE Azure!DeleteManagedCluster
  BY <1>9, AzureHit DEF AzureInv, AzureDone, Azure!DeleteManagedCluster, Azure!Call,
     Azure!Continue, Azure!Return, Azure!NoHit, Azure!TypeOK, Azure!Stage, Azure!Op,
     Azure!Outcome, Azure!isPresent
<1>10. CASE Azure!DeleteResourceGroup
  BY <1>10, AzureHit DEF AzureInv, AzureDone, Azure!DeleteResourceGroup, Azure!Call,
     Azure!Continue, Azure!Return, Azure!NoHit, Azure!TypeOK, Azure!Stage, Azure!Op,
     Azure!Outcome, Azure!isPresent
<1>11. CASE Azure!RemoveAll
  BY <1>11, AzureHit, AzureRecord DEF AzureInv, AzureDone, Azure!RemoveAll, Azure!NoHit,
     Azure!ReturnFromDelete, Azure!Return, Azure!TypeOK, Azure!Stage, Azure!Op, Azure!Outcome,
     Azure!isPresent
<1>12. CASE Azure!Crash
  BY <1>12, AzureHit, AzureRecord DEF AzureInv, AzureDone, Azure!Crash, Azure!Killed,
     Azure!Return, Azure!TypeOK, Azure!Stage, Azure!Op, Azure!Outcome, Azure!isPresent
<1>13. QED
  BY <1>1, <1>2, <1>3, <1>4, <1>5, <1>6, <1>7, <1>8, <1>9, <1>10, <1>11, <1>12 DEF Azure!Next,
     Azure!Step

-----------------------------------------------------------------------------
LEMMA LocalRecord ==
  ASSUME disk \in Local!Disk
  PROVE  /\ \A f : [disk EXCEPT !.file = f] = [file |-> f, kubeconfig |-> disk.kubeconfig]
         /\ \A c : [disk EXCEPT !.kubeconfig = c] = [file |-> disk.file, kubeconfig |-> c]
BY DEF Local!Disk

LEMMA LocalKeepsDone ==
  ASSUME LocalInv, LocalDone, Local!Next
  PROVE  LocalDone'
<1>1. CASE Local!StartCreate
  BY <1>1 DEF LocalInv, LocalDone, Local!StartCreate, Local!Refuse, Local!Begin, Local!vars,
     Local!NoHit, Local!TypeOK, Local!Stage, Local!Op, Local!Outcome, Local!isPresent
<1>2. CASE Local!CreateNecessaryConfigs
  BY <1>2, LocalHit, LocalRecord DEF LocalInv, LocalDone, Local!CreateNecessaryConfigs,
     Local!NoHit, Local!Continue, Local!TypeOK, Local!Stage, Local!Op, Local!Outcome,
     Local!isPresent
<1>3. CASE Local!Create
  BY <1>3, LocalHit, LocalRecord DEF LocalInv, LocalDone, Local!Create, Local!NoHit,
     Local!Return, Local!Continue, Local!TypeOK, Local!Stage, Local!Op, Local!Outcome,
     Local!isPresent
<1>4. CASE Local!StartDelete
  BY <1>4 DEF LocalInv, LocalDone, Local!StartDelete, Local!Begin, Local!NoHit, Local!TypeOK,
     Local!Stage, Local!Op, Local!Outcome, Local!isPresent
<1>5. CASE Local!ReadInfo
  BY <1>5 DEF LocalInv, LocalDone, Local!ReadInfo, Local!Continue, Local!ReturnFromDelete,
     Local!NoHit, Local!Return, Local!TypeOK, Local!Stage, Local!Op, Local!Outcome,
     Local!isPresent
<1>6. CASE Local!Delete
  BY <1>6, LocalHit DEF LocalInv, LocalDone, Local!Delete, Local!NoHit, Local!Continue,
     Local!ReturnFromDelete, Local!Return, Local!TypeOK, Local!Stage, Local!Op, Local!Outcome,
     Local!isPresent
<1>7. CASE Local!RemoveAll
  BY <1>7, LocalHit, LocalRecord DEF LocalInv, LocalDone, Local!RemoveAll, Local!NoHit,
     Local!ReturnFromDelete, Local!Return, Local!TypeOK, Local!Stage, Local!Op, Local!Outcome,
     Local!isPresent
<1>8. CASE Local!Crash
  BY <1>8, LocalHit, LocalRecord DEF LocalInv, LocalDone, Local!Crash, Local!Killed,
     Local!Return, Local!TypeOK, Local!Stage, Local!Op, Local!Outcome, Local!isPresent
<1>9. QED
  BY <1>1, <1>2, <1>3, <1>4, <1>5, <1>6, <1>7, <1>8 DEF Local!Next, Local!Step

-----------------------------------------------------------------------------
LEMMA NextKeepsDone ==
  ASSUME IInv, Done, [Next]_allVars
  PROVE  Done'
<1>1. CASE UNCHANGED allVars
  BY <1>1 DEF Done, CivoDone, AzureDone, LocalDone, allVars, vars, Civo!EmptyDisk, Azure!EmptyDisk,
     Local!EmptyDisk
<1>2. CASE which = "civo" /\ Civo!Next /\ UNCHANGED which
  BY <1>2, CivoKeepsDone DEF IInv, Done
<1>3. CASE which = "azure" /\ Azure!Next /\ UNCHANGED which
  BY <1>3, AzureKeepsDone DEF IInv, Done
<1>4. CASE which = "local" /\ Local!Next /\ UNCHANGED which
  BY <1>4, LocalKeepsDone DEF IInv, Done
<1>5. QED
  BY <1>1, <1>2, <1>3, <1>4 DEF Next

\* A managed command that reports success has done what it says: the cluster
\* is there, on record and has a kubeconfig, or nothing of it is left; but
\* for the write of Azure's state file, whose error nobody looks at.
THEOREM SuccessComplete == Spec => []SuccessIsComplete
<1>1. Done => SuccessIsComplete
  BY DEF Done, CivoDone, AzureDone, LocalDone, SuccessIsComplete, EmptyDisk, Civo!EmptyDisk,
     Azure!EmptyDisk, Local!EmptyDisk
<1>2. IInv /\ Done /\ [Next]_allVars => Done'
  BY NextKeepsDone
<1>3. QED
  BY Inductive, DoneAtFirst, <1>1, <1>2, PTL DEF Spec
=============================================================================
