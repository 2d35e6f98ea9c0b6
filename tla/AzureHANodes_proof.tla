-------------------------- MODULE AzureHANodes_proof ---------------------------
(***************************************************************************)
(* Proofs about AzureHA, for all its constants: machines are numbered in   *)
(* the order they are built, none is created over again while it runs, and *)
(* a creation that reports success has built and recorded all of them; and *)
(* whatever fails, a command makes finitely many calls.                    *)
(***************************************************************************)
EXTENDS AzureHA_proof, AzureHAProgress

Groundwork == {"group", "keygen", "key"}
Setup      == {"config", "script", "token", "saveToken", "kubeconfig"}

\* The roles whose machines are built after those of r.
Ahead(r) ==
  CASE r = "lb" -> {"db", "cp", "wp"}
    [] r = "db" -> {"cp", "wp"}
    [] r = "cp" -> {"wp"}
    [] OTHER    -> {}

\* The roles a creation at stage, with machines of role r, has not begun
\* with; and those it is done with.
Pending(stage, r) ==
  IF stage \in Groundwork THEN Role
  ELSE IF stage \in BuildStage THEN Ahead(r)
  ELSE IF stage \in Setup THEN {"wp"} ELSE {}

Finished(stage, r) ==
  IF stage \in Groundwork THEN {}
  ELSE IF stage \in BuildStage THEN Role \ ({r} \cup Ahead(r))
  ELSE {"lb", "db", "cp"}

\* How many machines of role r there are when n is the last; how many of
\* them the user asked for.
Count(r, n)  == IF r \in Planes THEN n ELSE 1
Wanted(j, r) == IF r = "cp" THEN j.cps ELSE 1

Numbered(c) == \A r \in Planes : \A i \in DOMAIN c.nodes[r] : c.nodes[r][i] = i

\* The command at stage builds machines in order.
InOrder(stage, j) ==
  LET built == Len(j.mem.nodes[j.role]) IN
  /\ stage \in CreateStage => j.op = "create"
  /\ stage \in BuildStage => j.op = "create" \/ (j.op = "add" /\ j.role = "wp")
  /\ stage = "build" => IF Len(j.todo) > 1 THEN built + 1 = Count(j.role, j.n) ELSE built = Count(j.role, j.n)
  /\ stage = "save" /\ ~j.failed => built = Count(j.role, j.n)
  /\ j.op = "create" => \A r \in Pending(stage, j.role) : j.mem.nodes[r] = << >>

Runs(c, S)    == \A q \in Role : \A i \in DOMAIN c.nodes[q] : VM(q, c.nodes[q][i]) \in S
Fetched(d, s) == d.kubeconfig # "none" /\ ("api" \notin s => d.kubeconfig = "full")

\* What a creation that has met no error has behind it at stage, when S
\* exists, d is the directory and s are the faults so far.
OnTrack(S, d, s, stage, j) ==
  LET c == j.mem IN
  /\ stage \notin {"group", "keygen"} => d.keypair
  /\ stage \notin Groundwork => c.key
  /\ stage \notin Groundwork \cup {"build"} => c.vnet /\ c.subnet
  /\ stage = "build" => (c.vnet \/ InSeq(VNet, j.todo)) /\ (c.subnet \/ InSeq(Subnet, j.todo))
  /\ Runs(c, IF stage = "build" THEN S \cup {VM(j.role, j.n)} ELSE S)
  /\ \A r \in Finished(stage, j.role) : Len(c.nodes[r]) = Wanted(j, r)
  /\ stage \in {"kubeconfig", "exit"} \/ (stage = "script" /\ j.n # 1)
     \/ (stage \in BuildStage /\ j.role = "wp") => c.token
  /\ stage = "exit" \/ (stage \in BuildStage /\ j.role = "wp") => Fetched(d, s)
  /\ stage = "exit" => Len(c.nodes["wp"]) = j.wps

Creating(S, d, s, stage, j) ==
  /\ InOrder(stage, j)
  /\ stage = "build" /\ s \cap {"crash", "disk"} = {} => VM(j.role, j.n) \notin S
  /\ j.op = "create" => j.cps >= 3
  /\ j.op = "create" /\ ~j.failed => OnTrack(S, d, s, stage, j)

\* The records number the machines in order, and a command that creates
\* machines is where they say it is.
NInv ==
  /\ Numbered(Info) /\ Numbered(job.mem)
  /\ pc # "idle" => outcome = "none"
  /\ pc \in Knowing => Creating(live, disk, seen, pc, job)
  /\ CreatedIsComplete

\* The function of machine n of role r may start.
ReadyFor(S, d, s, j, r, n) ==
  /\ Len(j.mem.nodes[r]) + 1 = Count(r, n)
  /\ j.op = "create" \/ (j.op = "add" /\ r = "wp")
  /\ j.op = "create" => j.cps >= 3 /\ \A q \in Ahead(r) : j.mem.nodes[q] = << >>
  /\ j.op = "create" /\ ~j.failed =>
       /\ d.keypair /\ j.mem.key /\ Runs(j.mem, S)
       /\ \A q \in Finished("build", r) : Len(j.mem.nodes[q]) = Wanted(j, q)
       /\ r = "wp" => j.mem.token /\ Fetched(d, s)

-----------------------------------------------------------------------------
(* Lists                                                                   *)

LEMMA InTail ==
  ASSUME NEW S, NEW s \in Seq(S), s # << >>, NEW x, InSeq(x, s)
  PROVE  x = Head(s) \/ InSeq(x, Tail(s))
<1>1. PICK k \in Nat : k = Len(s) /\ k # 0
  BY EmptyLen
<1>2. DOMAIN s = 1..k
  BY <1>1, LenProperties
<1>3. PICK i \in 1..k : s[i] = x
  BY <1>2 DEF InSeq
<1>4. /\ Tail(s) \in Seq(S) /\ Len(Tail(s)) = k - 1 /\ Head(s) = s[1]
      /\ \A m \in 1..k - 1 : Tail(s)[m] = s[m + 1]
  BY <1>1, HeadTailProperties
<1>5. CASE i = 1
  BY <1>3, <1>4, <1>5
<1>6. CASE i # 1
  <2>1. i - 1 \in 1..k - 1 /\ (i - 1) + 1 = i
    BY <1>1, <1>3, <1>6
  <2>2. DOMAIN Tail(s) = 1..k - 1
    BY <1>4, LenProperties
  <2>3. QED
    BY <1>3, <1>4, <2>1, <2>2 DEF InSeq
<1>7. QED
  BY <1>5, <1>6

LEMMA InConcat ==
  ASSUME NEW S, NEW s \in Seq(S), NEW t \in Seq(S), NEW x, InSeq(x, s) \/ InSeq(x, t)
  PROVE  s \o t \in Seq(S) /\ InSeq(x, s \o t)
<1>1. /\ s \o t \in Seq(S) /\ Len(s \o t) = Len(s) + Len(t)
      /\ \A i \in 1..Len(s) + Len(t) : (s \o t)[i] = IF i <= Len(s) THEN s[i] ELSE t[i - Len(s)]
  BY ConcatProperties
<1>2. /\ Len(s) \in Nat /\ Len(t) \in Nat /\ DOMAIN s = 1..Len(s) /\ DOMAIN t = 1..Len(t)
      /\ DOMAIN (s \o t) = 1..Len(s) + Len(t)
  BY <1>1, LenProperties
<1>3. ASSUME NEW i \in 1..Len(s), s[i] = x
      PROVE  InSeq(x, s \o t)
  <2>1. i \in 1..Len(s) + Len(t) /\ i <= Len(s)
    BY <1>2
  <2>2. QED
    BY <1>1, <1>2, <1>3, <2>1 DEF InSeq
<1>4. ASSUME NEW i \in 1..Len(t), t[i] = x
      PROVE  InSeq(x, s \o t)
  <2>1. i + Len(s) \in 1..Len(s) + Len(t) /\ ~(i + Len(s) <= Len(s)) /\ (i + Len(s)) - Len(s) = i
    BY <1>2
  <2>2. QED
    BY <1>1, <1>2, <1>4, <2>1 DEF InSeq
<1>5. QED
  BY <1>1, <1>2, <1>3, <1>4 DEF InSeq

\* A plan creates the network when the record does not have it.
LEMMA PlanHasNetwork ==
  ASSUME NEW c, NEW r \in Role, NEW n \in Nat
  PROVE  /\ Len(Plan(c, r, n)) > 1
         /\ c.vnet \/ InSeq(VNet, Plan(c, r, n))
         /\ c.subnet \/ InSeq(Subnet, Plan(c, r, n))
<1> DEFINE net == IF c.vnet /\ c.subnet THEN << >> ELSE <<VNet, Subnet>>
           ip  == <<PublicIP(r, n)>>
           nsg == IF r \in c.nsg THEN << >> ELSE <<NSG(r)>>
           vm  == <<NIC(r, n), VM(r, n)>>
<1>1. /\ net \in Seq(Resource) /\ ip \in Seq(Resource) /\ nsg \in Seq(Resource) /\ vm \in Seq(Resource)
      /\ Len(vm) = 2
  <2>1. /\ VNet \in Resource /\ Subnet \in Resource /\ PublicIP(r, n) \in Resource /\ NSG(r) \in Resource
        /\ NIC(r, n) \in Resource /\ VM(r, n) \in Resource
    BY NamesAreResources
  <2>2. QED
    BY <2>1
<1>2. ASSUME ~(c.vnet /\ c.subnet)
      PROVE  InSeq(VNet, net) /\ InSeq(Subnet, net)
  <2>1. net = <<VNet, Subnet>>
    BY <1>2
  <2>2. DOMAIN net = {1, 2} /\ net[1] = VNet /\ net[2] = Subnet
    BY <2>1
  <2>3. QED
    BY <2>2 DEF InSeq
<1>3. Plan(c, r, n) = net \o ip \o nsg \o vm
  BY DEF Plan
<1> HIDE DEF net, ip, nsg, vm
<1>4. net \o ip \in Seq(Resource) /\ net \o ip \o nsg \in Seq(Resource)
  BY <1>1, ConcatProperties
<1>5. ASSUME NEW x, InSeq(x, net)
      PROVE  InSeq(x, net \o ip \o nsg \o vm)
  <2>1. InSeq(x, net \o ip)
    BY <1>1, <1>5, InConcat
  <2>2. InSeq(x, net \o ip \o nsg)
    BY <1>1, <1>4, <2>1, InConcat
  <2>3. QED
    BY <1>1, <1>4, <2>2, InConcat
<1>6. Len(net \o ip \o nsg \o vm) > 1
  <2>1. Len(net \o ip \o nsg \o vm) = Len(net \o ip \o nsg) + Len(vm)
    BY <1>1, <1>4, ConcatProperties
  <2>2. Len(net \o ip \o nsg) \in Nat
    BY <1>4, LenProperties
  <2>3. QED
    BY <1>1, <2>1, <2>2
<1>7. QED
  BY <1>2, <1>3, <1>5, <1>6

\* The next machine of a numbered record does not exist yet.
LEMMA NotYet ==
  ASSUME NEW c \in Record, Numbered(c), NEW S, AllNamed(c, S), NEW r \in Role, NEW n \in Nat,
         Len(c.nodes[r]) + 1 = Count(r, n)
  PROVE  VM(r, n) \notin S
<1>1. c.nodes[r] \in Seq(Nat) /\ Len(c.nodes[r]) \in Nat /\ DOMAIN c.nodes[r] = 1..Len(c.nodes[r])
  BY RecordLists, LenProperties
<1>2. ~InSeq(n, c.nodes[r])
  <2>1. CASE r \in Planes
    BY <1>1, <2>1 DEF Count, InSeq, Numbered
  <2>2. CASE r \notin Planes
    BY <1>1, <2>2 DEF Count, InSeq
  <2>3. QED
    BY <2>1, <2>2
<1>3. QED
  BY <1>2 DEF AllNamed, VM, Res, Names

LEMMA EmptyNumbered == Numbered(EmptyConfig) /\ \A r \in Role : EmptyConfig.nodes[r] = << >>
<1>1. \A r \in Role : EmptyConfig.nodes[r] = << >>
  BY DEF EmptyConfig
<1>2. DOMAIN << >> = {} /\ Planes \subseteq Role
  BY DEF Planes, Role
<1>3. QED
  BY <1>1, <1>2 DEF Numbered

LEMMA SameNumbered ==
  ASSUME NEW c, NEW c2, Numbered(c), c2.nodes = c.nodes
  PROVE  Numbered(c2)
BY DEF Numbered

LEMMA TrimNumbered ==
  ASSUME NEW c \in Record, Numbered(c), Len(c.nodes["wp"]) >= 1
  PROVE  Numbered(Trimmed(c))
<1> DEFINE s == c.nodes["wp"]
           k == Len(s) - 1
<1>1. s \in Seq(Nat) /\ Len(s) \in Nat /\ k \in Nat /\ DOMAIN s = 1..Len(s)
  <2>1. s \in Seq(Nat) /\ Len(s) \in Nat
    BY RecordLists DEF Role
  <2>2. QED
    BY <2>1, LenProperties
<1>2. /\ Front(s, k) \in Seq(Nat) /\ Len(Front(s, k)) = k
      /\ \A i \in 1..k : Front(s, k)[i] = s[i]
  <2>1. 1 \in Int /\ k \in Int /\ \A i \in 1..k : i \in 1..Len(s)
    BY <1>1
  <2> HIDE DEF s
  <2>2. \A i \in 1..k : s[i] \in Nat
    BY <1>1, <2>1, ElementOfSeq
  <2>3. k = Len(s) - 1
    OBVIOUS
  <2> HIDE DEF k
  <2>4. /\ SubSeq(s, 1, k) \in Seq(Nat)
        /\ Len(SubSeq(s, 1, k)) = IF 1 <= k THEN k - 1 + 1 ELSE 0
        /\ \A i \in 1..k - 1 + 1 : SubSeq(s, 1, k)[i] = s[1 + i - 1]
    BY <2>1, <2>2, SubSeqProperties
  <2>5. QED
    BY <1>1, <2>4 DEF Front
<1>3. DOMAIN Front(s, k) = 1..k /\ \A i \in 1..k : i \in DOMAIN s
  BY <1>1, <1>2, LenProperties
<1>4. Trimmed(c).nodes = [c.nodes EXCEPT !["wp"] = Front(s, k)] /\ DOMAIN c.nodes = Role
  BY DEF Trimmed, Config, Record
<1> HIDE DEF s, k
<1>5. "wp" \in Role /\ Planes \subseteq Role
  BY DEF Role, Planes
<1>6. \A i \in 1..k : s[i] = i
  BY <1>3 DEF Numbered, Planes, s
<1>7. QED
  BY <1>2, <1>3, <1>4, <1>5, <1>6 DEF Numbered

-----------------------------------------------------------------------------
(* Building a machine                                                      *)

\* The function of machine n of role r starts.
LEMMA MachineStarts ==
  ASSUME NEW S, NEW d, NEW s, NEW j \in Job, NEW k, j.mem \in Record, Numbered(j.mem),
         NEW r \in Role, NEW n \in Nat,
         k = [j EXCEPT !.role = r, !.n = n, !.todo = Plan(j.mem, r, n)],
         s \cap {"crash", "disk"} = {} => AllNamed(j.mem, S),
         ReadyFor(S, d, s, j, r, n)
  PROVE  Creating(S, d, s, "build", k)
<1> DEFINE plan == Plan(j.mem, r, n)
<1>1. /\ Len(plan) > 1
      /\ j.mem.vnet \/ InSeq(VNet, plan)
      /\ j.mem.subnet \/ InSeq(Subnet, plan)
  BY PlanHasNetwork
<1> HIDE DEF plan
<1>2. /\ k.op = j.op /\ k.mem = j.mem /\ k.role = r /\ k.n = n /\ k.todo = plan
      /\ k.failed = j.failed /\ k.cps = j.cps
  BY DEF Job, plan
<1>3. /\ "build" \notin CreateStage /\ "build" \in BuildStage /\ "build" \notin Groundwork
      /\ Pending("build", r) = Ahead(r)
  BY DEF CreateStage, BuildStage, Groundwork, Pending
<1>4. InOrder("build", k)
  BY <1>1, <1>2, <1>3 DEF InOrder, ReadyFor
<1>5. s \cap {"crash", "disk"} = {} => VM(k.role, k.n) \notin S
  BY <1>2, NotYet DEF ReadyFor
<1>6. ASSUME k.op = "create", ~k.failed
      PROVE  OnTrack(S, d, s, "build", k)
  <2>1. Runs(k.mem, S \cup {VM(k.role, k.n)})
    BY <1>2, <1>6 DEF Runs, ReadyFor
  <2>2. \A q \in Finished("build", k.role) : Len(k.mem.nodes[q]) = Wanted(k, q)
    BY <1>2, <1>6 DEF Wanted, ReadyFor
  <2>3. d.keypair /\ k.mem.key /\ (k.role = "wp" => k.mem.token /\ Fetched(d, s))
    BY <1>2, <1>6 DEF ReadyFor
  <2>4. (k.mem.vnet \/ InSeq(VNet, k.todo)) /\ (k.mem.subnet \/ InSeq(Subnet, k.todo))
    BY <1>1, <1>2
  <2>5. QED
    BY <2>1, <2>2, <2>3, <2>4 DEF OnTrack
<1>7. k.op = "create" => k.cps >= 3
  BY <1>2 DEF ReadyFor
<1>8. QED
  BY <1>4, <1>5, <1>6, <1>7 DEF Creating

\* What noting a resource leaves alone, and what it notes of the network.
LEMMA NotedRest ==
  ASSUME NEW c \in Config, NEW x
  PROVE  /\ Noted(c, x).key = c.key /\ Noted(c, x).token = c.token
         /\ c.vnet \/ x = VNet => Noted(c, x).vnet
         /\ c.subnet \/ x = Subnet => Noted(c, x).subnet
<1>1. VNet # Subnet
  BY DEF VNet, Subnet, Res
<1>2. /\ Noted(c, x).key = c.key /\ Noted(c, x).token = c.token
      /\ Noted(c, x).vnet = (IF x = VNet THEN TRUE ELSE c.vnet)
      /\ Noted(c, x).subnet = (IF x = Subnet THEN TRUE ELSE c.subnet)
  BY <1>1 DEF Noted, Config
<1>3. QED
  BY <1>2

\* A machine on the record is the next of its role.
LEMMA NICNumbers ==
  ASSUME NEW c \in Record, Numbered(c), NEW r \in Role, NEW n \in Nat, Len(c.nodes[r]) + 1 = Count(r, n)
  PROVE  LET c2 == Noted(c, NIC(r, n)) IN
         /\ Numbered(c2) /\ Len(c2.nodes[r]) = Count(r, n)
         /\ \A q \in Role \ {r} : c2.nodes[q] = c.nodes[q]
         /\ \A S : Runs(c, S) => Runs(c2, S \cup {VM(r, n)})
<1> DEFINE t  == Put(c.nodes[r], r, n)
           c2 == Noted(c, NIC(r, n))
<1>1. c2.nodes = [c.nodes EXCEPT ![r] = t] /\ DOMAIN c.nodes = Role
  BY DEF Noted, Record, Config, VNet, Subnet, NIC, Res
<1>2. c.nodes[r] \in Seq(Nat) /\ Len(c.nodes[r]) \in Nat /\ DOMAIN c.nodes[r] = 1..Len(c.nodes[r])
  BY RecordLists, LenProperties
<1>3. /\ Len(t) = Count(r, n)
      /\ \A i \in DOMAIN t : t[i] = n \/ (i \in DOMAIN c.nodes[r] /\ t[i] = c.nodes[r][i])
      /\ r \in Planes => \A i \in DOMAIN t : t[i] = i
  <2>1. CASE r \in Planes
    <3>1. t = Append(c.nodes[r], n)
      BY <2>1 DEF Put, Planes
    <3>2. /\ t \in Seq(Nat) /\ Len(t) = Len(c.nodes[r]) + 1 /\ t[Len(c.nodes[r]) + 1] = n
          /\ \A i \in 1..Len(c.nodes[r]) : t[i] = c.nodes[r][i]
      BY <1>2, <3>1, AppendProperties
    <3>3. DOMAIN t = 1..Len(c.nodes[r]) + 1
      BY <3>2, LenProperties
    <3> HIDE DEF t
    <3>4. n = Len(c.nodes[r]) + 1
      BY <2>1 DEF Count
    <3>5. \A i \in DOMAIN t : i = Len(c.nodes[r]) + 1 \/ i \in 1..Len(c.nodes[r])
      BY <1>2, <3>3
    <3>6. \A i \in DOMAIN t : t[i] = i
      BY <1>2, <2>1, <3>2, <3>4, <3>5 DEF Numbered
    <3>7. QED
      BY <1>2, <2>1, <3>2, <3>4, <3>5, <3>6 DEF Count
  <2>2. CASE r \notin Planes
    <3>1. t = <<n>>
      BY <2>2 DEF Put, Planes
    <3>2. DOMAIN t = {1} /\ t[1] = n /\ Len(t) = 1
      BY <3>1
    <3>3. QED
      BY <2>2, <3>2 DEF Count
  <2>3. QED
    BY <2>1, <2>2
<1> HIDE DEF t, c2
<1>4. Numbered(c2)
  BY <1>1, <1>3 DEF Numbered, Planes, Role
<1>5. ASSUME NEW S, Runs(c, S)
      PROVE  Runs(c2, S \cup {VM(r, n)})
  BY <1>1, <1>3, <1>5 DEF Runs
<1>6. QED
  BY <1>1, <1>3, <1>4, <1>5 DEF c2

\* The function creates the next resource.
LEMMA MachineGoesOn ==
  ASSUME NEW S, NEW d, NEW s, NEW j \in Job, j.mem \in Record, Numbered(j.mem),
         Building(j.mem, j.role, j.n, j.todo), Creating(S, d, s, "build", j),
         NEW k, k = [j EXCEPT !.mem = Noted(j.mem, Head(j.todo)), !.todo = Tail(j.todo)]
  PROVE  /\ Numbered(k.mem)
         /\ Creating(PutIn(S, Head(j.todo)), d, s, IF Tail(j.todo) = << >> THEN "save" ELSE "build", k)
<1> DEFINE x    == Head(j.todo)
           rest == Tail(j.todo)
           c    == j.mem
           c2   == Noted(c, x)
           r    == j.role
           n    == j.n
           next == IF rest = << >> THEN "save" ELSE "build"
           S2   == PutIn(S, x)
<1>1. /\ k.op = j.op /\ k.mem = c2 /\ k.role = r /\ k.n = n /\ k.todo = rest
      /\ k.failed = j.failed /\ k.cps = j.cps
  BY DEF Job
<1>2. /\ r \in Role /\ n \in Nat /\ (r \notin Planes => n = 0) /\ c \in Record /\ c \in Config
      /\ j.todo \in Seq(Resource) /\ j.todo # << >> /\ Len(j.todo) \in Nat
  BY EmptyLen DEF Building, Record
<1>3. /\ rest \in Seq(Resource) /\ Len(rest) = Len(j.todo) - 1 /\ Len(rest) \in Nat
      /\ rest = << >> <=> Len(j.todo) = 1
      /\ rest = << >> <=> Len(rest) = 0
  <2>1. rest \in Seq(Resource) /\ Len(rest) = Len(j.todo) - 1
    BY <1>2, HeadTailProperties
  <2>2. Len(rest) \in Nat /\ (rest = << >> <=> Len(rest) = 0)
    BY <2>1, EmptyLen
  <2>3. QED
    BY <1>2, <2>1, <2>2
<1>4. \/ Len(j.todo) = 1 /\ x = VM(r, n) /\ VMNoted(c, r, n)
      \/ Len(j.todo) = 2 /\ x = NIC(r, n) /\ NICRoom(c, r)
      \/ Len(j.todo) > 2 /\ x \in {VNet, Subnet, PublicIP(r, n), NSG(r)}
  BY BuildingGoesOn
<1>5. /\ c2.key = c.key /\ c2.token = c.token
      /\ c.vnet \/ x = VNet => c2.vnet
      /\ c.subnet \/ x = Subnet => c2.subnet
  BY <1>2, NotedRest
<1>6. /\ c.vnet \/ InSeq(VNet, j.todo) => c2.vnet \/ InSeq(VNet, rest)
      /\ c.subnet \/ InSeq(Subnet, j.todo) => c2.subnet \/ InSeq(Subnet, rest)
  BY <1>2, <1>5, InTail
<1>7. /\ InOrder("build", j)
      /\ s \cap {"crash", "disk"} = {} => VM(r, n) \notin S
      /\ j.op = "create" => j.cps >= 3
      /\ j.op = "create" /\ ~j.failed => OnTrack(S, d, s, "build", j)
  BY DEF Creating
<1>8. /\ "build" \notin CreateStage /\ "save" \notin CreateStage
      /\ "build" \in BuildStage /\ "save" \in BuildStage
      /\ "build" \notin Groundwork /\ "save" \notin Groundwork
      /\ Pending("build", r) = Ahead(r) /\ Pending("save", r) = Ahead(r)
      /\ Finished("build", r) = Finished("save", r)
      /\ r \notin Ahead(r) /\ Ahead(r) \subseteq Role
      /\ r \notin Finished("build", r) /\ Finished("build", r) \subseteq Role
  BY <1>2 DEF CreateStage, BuildStage, Groundwork, Pending, Finished, Ahead, Role
<1>9. \A y \in S : y.kind = "vm" => y \in S2
  <2>1. Subnet.kind # "vm"
    BY DEF Subnet, Res
  <2>2. QED
    BY <2>1 DEF PutIn
<1> HIDE DEF x, rest, c, c2, r, n, S2
<1>10. /\ Numbered(c2)
       /\ \A q \in Role \ {r} : c2.nodes[q] = c.nodes[q]
       /\ IF Len(rest) > 1 THEN Len(c2.nodes[r]) + 1 = Count(r, n) ELSE Len(c2.nodes[r]) = Count(r, n)
       /\ \A T : Runs(c, T \cup {VM(r, n)}) => Runs(c2, T \cup {VM(r, n)})
       /\ rest # << >> => \A y \in S2 : y.kind = "vm" => y \in S
       /\ rest = << >> => VM(r, n) \in S2
  <2>1. CASE Len(j.todo) = 1 /\ x = VM(r, n) /\ VMNoted(c, r, n)
    <3>1. c2.nodes = c.nodes
      BY <1>2, <2>1, NotedVM DEF c2
    <3>2. Len(c.nodes[r]) = Count(r, n)
      BY <1>7, <2>1 DEF InOrder, c, r, n
    <3>3. VM(r, n) \in S2
      BY <2>1 DEF S2, PutIn, VM, VNet, Res
    <3>4. ~(Len(rest) > 1) /\ rest = << >>
      BY <1>3, <2>1
    <3>5. Numbered(c2)
      BY <3>1, SameNumbered DEF c
    <3>6. QED
      BY <3>1, <3>2, <3>3, <3>4, <3>5 DEF Runs
  <2>2. CASE Len(j.todo) = 2 /\ x = NIC(r, n) /\ NICRoom(c, r)
    <3>1. Len(c.nodes[r]) + 1 = Count(r, n)
      BY <1>7, <2>2 DEF InOrder, c, r, n
    <3>2. /\ Numbered(c2) /\ Len(c2.nodes[r]) = Count(r, n)
          /\ \A q \in Role \ {r} : c2.nodes[q] = c.nodes[q]
          /\ \A T : Runs(c, T) => Runs(c2, T \cup {VM(r, n)})
      BY <1>2, <2>2, <3>1, NICNumbers DEF c2, c
    <3>3. \A T : Runs(c, T \cup {VM(r, n)}) => Runs(c2, T \cup {VM(r, n)})
      BY <3>2 DEF Runs
    <3>4. ~(Len(rest) > 1) /\ rest # << >>
      BY <1>3, <2>2
    <3>5. \A y \in S2 : y.kind = "vm" => y \in S
      BY <2>2 DEF S2, PutIn, NIC, VNet, Res
    <3>6. QED
      BY <3>2, <3>3, <3>4, <3>5
  <2>3. CASE Len(j.todo) > 2 /\ x \in {VNet, Subnet, PublicIP(r, n), NSG(r)}
    <3>1. c2.nodes = c.nodes
      <4>1. CASE x = PublicIP(r, n)
        BY <1>2, <4>1, NotedIP DEF c2
      <4>2. CASE x \in {VNet, Subnet, NSG(r)}
        BY <1>2, <4>2, NotedNetwork DEF c2
      <4>3. QED
        BY <2>3, <4>1, <4>2
    <3>2. Len(j.todo) > 1 /\ Len(rest) > 1 /\ rest # << >>
      BY <1>2, <1>3, <2>3
    <3>3. Len(c.nodes[r]) + 1 = Count(r, n)
      BY <1>7, <3>2 DEF InOrder, c, r, n
    <3>4. \A y \in S2 : y.kind = "vm" => y \in S
      BY <2>3 DEF S2, PutIn, VNet, Subnet, PublicIP, NSG, Res
    <3>5. Numbered(c2)
      BY <3>1, SameNumbered DEF c
    <3>6. QED
      BY <3>1, <3>2, <3>3, <3>4, <3>5 DEF Runs
  <2>4. QED
    BY <1>4, <2>1, <2>2, <2>3
<1>11. InOrder(next, k)
  <2>1. k.op = "create" => \A q \in Pending(next, k.role) : k.mem.nodes[q] = << >>
    <3>1. Pending(next, k.role) = Ahead(r)
      BY <1>1, <1>8
    <3>2. SUFFICES ASSUME j.op = "create", NEW q \in Ahead(r) PROVE c2.nodes[q] = << >>
      BY <1>1, <3>1
    <3>3. q \in Role \ {r} /\ q \in Pending("build", r)
      BY <1>8, <3>2
    <3>4. c.nodes[q] = << >>
      BY <1>7, <3>2, <3>3 DEF InOrder, c, r
    <3>5. QED
      BY <1>10, <3>3, <3>4
  <2>2. next \in BuildStage /\ next \notin CreateStage
    BY <1>8
  <2>3. k.op = "create" \/ (k.op = "add" /\ k.role = "wp")
    BY <1>1, <1>7, <1>8 DEF InOrder, r
  <2>4. next = "save" => Len(k.mem.nodes[k.role]) = Count(k.role, k.n)
    <3>1. rest = << >> => ~(Len(rest) > 1)
      <4>1. ~(0 > 1)
        OBVIOUS
      <4>2. QED
        BY <1>3, <4>1, Zenon
    <3>2. QED
      BY <1>1, <1>10, <3>1
  <2>5. next = "build" => IF Len(k.todo) > 1 THEN Len(k.mem.nodes[k.role]) + 1 = Count(k.role, k.n)
                          ELSE Len(k.mem.nodes[k.role]) = Count(k.role, k.n)
    BY <1>1, <1>10
  <2>6. QED
    BY <2>1, <2>2, <2>3, <2>4, <2>5 DEF InOrder
<1>12. next = "build" /\ s \cap {"crash", "disk"} = {} => VM(k.role, k.n) \notin S2
  BY <1>1, <1>7, <1>10 DEF VM, Res
<1>13. ASSUME k.op = "create", ~k.failed
       PROVE  OnTrack(S2, d, s, next, k)
  <2>1. OnTrack(S, d, s, "build", j)
    BY <1>1, <1>7, <1>13
  <2>2. d.keypair /\ k.mem.key /\ (k.role = "wp" => k.mem.token /\ Fetched(d, s))
    BY <1>1, <1>5, <1>8, <2>1 DEF OnTrack, c, r
  <2>3. (k.mem.vnet \/ InSeq(VNet, k.todo)) /\ (k.mem.subnet \/ InSeq(Subnet, k.todo))
    BY <1>1, <1>6, <2>1 DEF OnTrack, c
  <2>4. next = "save" => k.mem.vnet /\ k.mem.subnet
    BY <1>1, <2>3 DEF InSeq
  <2>5. Runs(k.mem, IF next = "build" THEN S2 \cup {VM(k.role, k.n)} ELSE S2)
    <3>1. Runs(c2, S \cup {VM(r, n)})
      BY <1>10, <2>1 DEF OnTrack, c, r, n
    <3>2. Runs(c2, S2 \cup {VM(r, n)})
      BY <1>9, <3>1 DEF Runs, VM, Res
    <3>3. next = "save" => S2 \cup {VM(r, n)} = S2
      BY <1>10
    <3>4. QED
      BY <1>1, <3>2, <3>3
  <2>6. \A q \in Finished(next, k.role) : Len(k.mem.nodes[q]) = Wanted(k, q)
    <3>1. \A q \in Finished("build", r) : Len(c.nodes[q]) = Wanted(j, q) /\ q \in Role \ {r}
      BY <1>8, <2>1 DEF OnTrack, c, r
    <3>2. \A q \in Role : Wanted(k, q) = Wanted(j, q)
      BY <1>1 DEF Wanted
    <3>3. Finished(next, k.role) = Finished("build", r)
      BY <1>1, <1>8
    <3>4. SUFFICES ASSUME NEW q \in Finished("build", r) PROVE Len(c2.nodes[q]) = Wanted(k, q)
      BY <1>1, <3>3
    <3>5. q \in Role \ {r} /\ Len(c.nodes[q]) = Wanted(j, q)
      BY <3>1
    <3>6. QED
      BY <1>10, <3>2, <3>5
  <2>7. next \in {"build", "save"}
    OBVIOUS
  <2>8. QED
    BY <1>8, <2>2, <2>3, <2>4, <2>5, <2>6, <2>7 DEF OnTrack
<1>14. k.op = "create" => k.cps >= 3
  BY <1>1, <1>7
<1>15. QED
  BY <1>1, <1>10, <1>11, <1>12, <1>13, <1>14 DEF Creating, S2, x, rest

-----------------------------------------------------------------------------
(* Kinds of steps                                                          *)

\* The command ends, or goes on without creating.
LEMMA CreatesNothing ==
  ASSUME NInv, Numbered(Info'), Numbered(job'.mem), pc' \notin Knowing,
         outcome' # "created", pc' # "idle" => outcome' = "none"
  PROVE  NInv'
BY DEF NInv, CreatedIsComplete

LEMMA CreatesOn ==
  ASSUME Numbered(Info'), Numbered(job'.mem), pc' \in Knowing, outcome' = "none",
         Creating(live', disk', seen', pc', job')
  PROVE  NInv'
BY DEF NInv, CreatedIsComplete

LEMMA EndsNumbered ==
  ASSUME NInv, Numbered(Info'), NEW result, Return(result), result # "created"
  PROVE  NInv'
<1>1. pc' = "idle" /\ job'.mem = EmptyConfig /\ outcome' # "created" /\ "idle" \notin Knowing
  BY DEF Return, NoJob, Knowing, CreateStage, BuildStage
<1>2. QED
  BY <1>1, EmptyNumbered, CreatesNothing

LEMMA AbortsNumbered ==
  ASSUME NInv, pc \in Knowing, NEW j \in Job, Abort(j), Numbered(Info'), Numbered(j.mem),
         j.op = "create", j.cps >= 3
  PROVE  NInv'
<1>1. /\ pc' = "exit" /\ job'.mem = j.mem /\ job'.op = "create" /\ job'.cps = j.cps /\ job'.failed
      /\ outcome' = outcome
  BY DEF Abort, Continue, Job
<1>2. /\ "exit" \in Knowing /\ "exit" \in CreateStage /\ "exit" \notin BuildStage /\ pc # "idle"
      /\ \A r : Pending("exit", r) = {}
  BY DEF Knowing, CreateStage, BuildStage, Groundwork, Setup, Pending
<1>3. Creating(live', disk', seen', "exit", job')
  BY <1>1, <1>2 DEF Creating, InOrder
<1>4. QED
  BY <1>1, <1>2, <1>3, CreatesOn DEF NInv

LEMMA MachineBegins ==
  ASSUME RInv', outcome = "none", NEW j \in Job, j.mem \in Record, Numbered(j.mem), Numbered(Info'),
         NEW r \in Role, NEW n \in Nat, BuildMachine(j, r, n),
         ReadyFor(live', disk', seen', j, r, n)
  PROVE  NInv'
<1>1. /\ pc' = "build" /\ job' = [j EXCEPT !.role = r, !.n = n, !.todo = Plan(j.mem, r, n)]
      /\ outcome' = "none"
  BY DEF BuildMachine, Continue
<1>2. job'.mem = j.mem /\ "build" \in Knowing
  BY <1>1 DEF Job, Knowing, BuildStage
<1>3. seen' \cap {"crash", "disk"} = {} => AllNamed(j.mem, live')
  BY <1>1, <1>2 DEF RInv, MachinesRemembered, Remembered, Knowing, AllNamed
<1>4. Creating(live', disk', seen', "build", job')
  BY <1>1, <1>3, MachineStarts
<1>5. QED
  BY <1>1, <1>2, <1>4, CreatesOn

\* The state file is written, or a write fails.
LEMMA WriterNumbers ==
  ASSUME NInv, disk \in Disk, NEW c, Numbered(c), disk' \in {Saved(c), disk, Torn}
  PROVE  Numbered(Info') /\ disk'.keypair = disk.keypair /\ disk'.kubeconfig = disk.kubeconfig
<1>1. CASE disk' = Saved(c)
  BY <1>1 DEF Saved, Info, Disk
<1>2. CASE disk' = disk
  BY <1>2 DEF Info, NInv
<1>3. CASE disk' = Torn
  BY <1>3, EmptyNumbered DEF Torn, Info, Disk
<1>4. QED
  BY <1>1, <1>2, <1>3

\* The directory is removed, in part or as a whole.
LEMMA RemovalNumbers ==
  ASSUME NInv, disk \in Disk, disk' \in PartlyRemoved \cup {EmptyDisk}
  PROVE  Numbered(Info')
<1>1. CASE disk' = EmptyDisk
  BY <1>1, EmptyNumbered DEF EmptyDisk, Info
<1>2. CASE disk' \in PartlyRemoved
  <2>1. PICK d \in {disk, [disk EXCEPT !.file = "absent", !.info = EmptyConfig]} :
          \E k \in {disk.keypair, FALSE} : \E c \in {disk.kubeconfig, "none"} :
            disk' = [d EXCEPT !.keypair = k, !.kubeconfig = c]
    BY <1>2 DEF PartlyRemoved
  <2>2. disk'.info = d.info /\ d.info \in {Info, EmptyConfig}
    BY <2>1 DEF Disk, Info
  <2>3. QED
    BY <2>2, EmptyNumbered DEF Info, NInv
<1>3. QED
  BY <1>1, <1>2

LEMMA SameDirectory ==
  ASSUME NInv, UNCHANGED disk
  PROVE  Numbered(Info')
BY DEF NInv, Info

LEMMA FetchedStays ==
  ASSUME NEW d, NEW d2, NEW s, NEW s2, Fetched(d, s), d2.kubeconfig = d.kubeconfig, s \subseteq s2
  PROVE  Fetched(d2, s2)
BY DEF Fetched

\* What the deferred ConfigWriter does.
LEMMA DeferredNumbers ==
  ASSUME NInv, RInv, ConfigWriter(job)
  PROVE  /\ Numbered(Info') /\ disk'.keypair = disk.keypair /\ disk'.kubeconfig = disk.kubeconfig
         /\ seen \subseteq seen'
         /\ "disk" \notin seen' => disk' = Saved(job.mem)
<1>1. disk \in Disk /\ Numbered(job.mem)
  BY DEF RInv, TypeOK, NInv
<1>2. disk' \in {Saved(job.mem), disk, Torn}
  BY DEF ConfigWriter
<1>3. seen \subseteq seen' /\ ("disk" \notin seen' => disk' = Saved(job.mem))
  BY DEF ConfigWriter, NoHit, Hit
<1>4. QED
  BY <1>1, <1>2, <1>3, WriterNumbers

-----------------------------------------------------------------------------
(* The actions                                                             *)

LEMMA StartCreateNumbers ==
  ASSUME NInv, RInv, StartCreate
  PROVE  NInv'
<1>1. CASE Refuse
  BY <1>1 DEF Refuse, vars, NInv, Info, CreatedIsComplete, Creating, OnTrack
<1>2. CASE ~Refuse
  <2>1. PICK cps \in CPCounts, wps \in WPCounts :
          /\ IsValidNoOfControlPlanes(cps) /\ NoHit /\ UNCHANGED <<live, disk>>
          /\ Begin("group", [NoJob EXCEPT !.op = "create", !.cps = cps, !.wps = wps])
    BY <1>2 DEF StartCreate
  <2>2. /\ pc' = "group" /\ outcome' = "none"
        /\ job'.op = "create" /\ job'.mem = EmptyConfig /\ job'.cps >= 3
    BY <2>1 DEF Begin, NoJob, IsValidNoOfControlPlanes
  <2>3. /\ "group" \in Knowing /\ "group" \in Groundwork /\ "group" \notin BuildStage
        /\ \A r : Pending("group", r) = Role /\ Finished("group", r) = {}
    BY DEF Knowing, CreateStage, BuildStage, Groundwork, Pending, Finished
  <2>4. Runs(EmptyConfig, live')
    BY EmptyNumbered DEF Runs
  <2>5. InOrder("group", job')
    BY <2>2, <2>3, EmptyNumbered DEF InOrder
  <2>6. OnTrack(live', disk', seen', "group", job')
    BY <2>2, <2>3, <2>4 DEF OnTrack
  <2>7. Creating(live', disk', seen', "group", job')
    BY <2>2, <2>5, <2>6 DEF Creating
  <2>8. QED
    BY <2>1, <2>2, <2>3, <2>7, EmptyNumbered, SameDirectory, CreatesOn
<1>3. QED
  BY <1>1, <1>2

\* A command that is no creation and no addition starts.
LEMMA RestStartsNumbers ==
  ASSUME NInv, RInv, StartDelete \/ StartRemove
  PROVE  NInv'
<1>1. CASE Refuse
  BY <1>1 DEF Refuse, vars, NInv, Info, CreatedIsComplete, Creating, OnTrack
<1>2. CASE ~Refuse
  <2>1. /\ pc' \in {"read", "strip"} /\ outcome' = "none" /\ UNCHANGED disk
        /\ job'.mem \in {EmptyConfig, Info}
    BY <1>2 DEF StartDelete, StartRemove, Begin, NoJob
  <2>2. pc' \notin Knowing
    BY <2>1 DEF Knowing, CreateStage, BuildStage
  <2>3. Numbered(job'.mem)
    BY <2>1, EmptyNumbered DEF NInv
  <2>4. QED
    BY <2>1, <2>2, <2>3, SameDirectory, CreatesNothing
<1>3. QED
  BY <1>1, <1>2

LEMMA StartAddNumbers ==
  ASSUME NInv, RInv, RInv', StartAdd
  PROVE  NInv'
<1>1. CASE Refuse
  BY <1>1 DEF Refuse, vars, NInv, Info, CreatedIsComplete, Creating, OnTrack
<1>2. CASE ~Refuse
  <2> DEFINE base == Len(Info.nodes["wp"])
             plan == Plan(Info, "wp", base + 1)
  <2>1. PICK k \in WPCounts \ {0} :
          /\ Begin("build", [NoJob EXCEPT !.op = "add", !.mem = Info, !.role = "wp", !.n = base + 1,
                                          !.wps = base + k, !.todo = plan])
          /\ NoHit /\ UNCHANGED <<live, disk>>
    BY <1>2 DEF StartAdd
  <2> DEFINE j == [NoJob EXCEPT !.op = "add", !.mem = Info, !.role = "wp", !.n = base + 1,
                                !.wps = base + k]
  <2>2. base \in Nat /\ base + 1 \in Nat /\ base + k \in Nat /\ "wp" \in Role /\ "wp" \in Planes
    <3>1. "wp" \in Role /\ "wp" \in Planes /\ Info \in Record /\ k \in Nat
      BY CountsAssumption DEF RInv, Role, Planes
    <3>2. base \in Nat
      BY <3>1, RecordLists
    <3>3. QED
      BY <3>1, <3>2
  <2>3. Info \in Config /\ Info \in Record /\ Numbered(Info)
    BY DEF RInv, Record, NInv
  <2> HIDE DEF base
  <2>4. j \in Job /\ j.mem = Info /\ j.op = "add"
    BY <2>2, <2>3, JobTyped DEF Job
  <2>5. pc' = "build" /\ outcome' = "none" /\ job' = [j EXCEPT !.role = "wp", !.n = base + 1, !.todo = plan]
    BY <2>1 DEF Begin, NoJob
  <2> HIDE DEF j
  <2>6. job'.mem = Info /\ "build" \in Knowing
    BY <2>4, <2>5 DEF Job, Knowing, BuildStage
  <2>7. seen' \cap {"crash", "disk"} = {} => AllNamed(Info, live')
    BY <2>5, <2>6 DEF RInv, MachinesRemembered, Remembered, Knowing, AllNamed
  <2>8. ReadyFor(live', disk', seen', j, "wp", base + 1)
    BY <2>2, <2>4 DEF ReadyFor, Count, base
  <2>9. Creating(live', disk', seen', "build", job')
    BY <2>2, <2>3, <2>4, <2>5, <2>7, <2>8, MachineStarts
  <2>10. QED
    BY <2>1, <2>3, <2>5, <2>6, <2>9, SameDirectory, CreatesOn
<1>3. QED
  BY <1>1, <1>2

LEMMA RunsMore ==
  ASSUME NEW c, NEW S, NEW S2, Runs(c, S), \A x \in S : x.kind = "vm" => x \in S2
  PROVE  Runs(c, S2)
BY DEF Runs, VM, Res

LEMMA PutKeepsMachines ==
  ASSUME NEW S, NEW x
  PROVE  \A y \in S : y.kind = "vm" => y \in PutIn(S, x)
<1>1. Subnet.kind # "vm"
  BY DEF Subnet, Res
<1>2. QED
  BY <1>1 DEF PutIn

\* A creation at one of its own stages.
LEMMA CreatingNow ==
  ASSUME NInv, pc \in CreateStage
  PROVE  /\ job.op = "create" /\ job.cps >= 3 /\ outcome = "none" /\ Numbered(job.mem) /\ pc \in Knowing
         /\ InOrder(pc, job)
         /\ ~job.failed => OnTrack(live, disk, seen, pc, job)
<1>1. pc \in Knowing /\ pc # "idle"
  BY DEF Knowing, CreateStage
<1>2. QED
  BY <1>1 DEF NInv, Creating, InOrder

LEMMA CreateResourceGroupNumbers ==
  ASSUME NInv, RInv, CreateResourceGroup
  PROVE  NInv'
<1>1. pc = "group" /\ UNCHANGED disk /\ pc \in CreateStage /\ job \in Job
  BY DEF CreateResourceGroup, CreateStage, RInv, TypeOK
<1>2. CASE Abort(job)
  BY <1>1, <1>2, CreatingNow, SameDirectory, AbortsNumbered
<1>3. CASE Creates(Group) /\ Continue("keygen", job)
  <2>1. live' = PutIn(live, Group) /\ seen' = seen /\ pc' = "keygen" /\ job' = job /\ outcome' = outcome
    BY <1>3 DEF Creates, NoHit, Continue
  <2>2. /\ {"group", "keygen"} \subseteq Knowing /\ {"group", "keygen"} \subseteq Groundwork
        /\ {"group", "keygen"} \subseteq CreateStage
        /\ "keygen" \notin BuildStage
        /\ \A r : Pending("group", r) = Role /\ Pending("keygen", r) = Role
        /\ \A r : Finished("keygen", r) = {}
    BY DEF Knowing, CreateStage, BuildStage, Groundwork, Pending, Finished
  <2>3. InOrder("keygen", job)
    BY <1>1, <2>2, CreatingNow DEF InOrder
  <2>4. ~job.failed => OnTrack(live', disk', seen', "keygen", job)
    <3>1. ~job.failed => Runs(job.mem, live')
      BY <1>1, <2>1, CreatingNow, RunsMore, PutKeepsMachines DEF OnTrack
    <3>2. QED
      BY <2>2, <3>1 DEF OnTrack
  <2>5. Creating(live', disk', seen', "keygen", job)
    BY <1>1, <2>3, <2>4, CreatingNow DEF Creating
  <2>6. QED
    BY <1>1, <2>1, <2>2, <2>5, CreatingNow, SameDirectory, CreatesOn
<1>4. QED
  BY <1>2, <1>3 DEF CreateResourceGroup

LEMMA CreateSSHKeyPairNumbers ==
  ASSUME NInv, RInv, CreateSSHKeyPair
  PROVE  NInv'
<1>1. pc = "keygen" /\ UNCHANGED live /\ pc \in CreateStage /\ job \in Job /\ disk \in Disk
  BY DEF CreateSSHKeyPair, CreateStage, RInv, TypeOK
<1>2. CASE UNCHANGED disk /\ Abort(job)
  BY <1>1, <1>2, CreatingNow, SameDirectory, AbortsNumbered
<1>3. CASE disk' = [disk EXCEPT !.keypair = TRUE] /\ Continue("key", job) /\ NoHit
  <2>1. /\ pc' = "key" /\ job' = job /\ outcome' = outcome /\ disk'.keypair /\ Info' = Info
    BY <1>1, <1>3 DEF Continue, Disk, Info
  <2>2. /\ "key" \in Knowing /\ "key" \in Groundwork /\ "key" \in CreateStage /\ "key" \notin BuildStage
        /\ \A r : Pending("keygen", r) = Role /\ Pending("key", r) = Role
        /\ \A r : Finished("key", r) = {}
    BY DEF Knowing, CreateStage, BuildStage, Groundwork, Pending, Finished
  <2>3. InOrder("key", job)
    BY <1>1, <2>2, CreatingNow DEF InOrder
  <2>4. ~job.failed => OnTrack(live', disk', seen', "key", job)
    BY <1>1, <2>1, <2>2, CreatingNow DEF OnTrack
  <2>5. Creating(live', disk', seen', "key", job)
    BY <1>1, <2>3, <2>4, CreatingNow DEF Creating
  <2>6. Numbered(Info')
    BY <2>1 DEF NInv
  <2>7. QED
    BY <1>1, <2>1, <2>2, <2>5, <2>6, CreatingNow, CreatesOn
<1>4. QED
  BY <1>2, <1>3 DEF CreateSSHKeyPair

LEMMA UploadSSHKeyNumbers ==
  ASSUME NInv, RInv, RInv', UploadSSHKey
  PROVE  NInv'
<1> DEFINE j == [job EXCEPT !.mem.key = TRUE]
<1>1. /\ j \in Job /\ j.mem \in Record /\ j.mem.nodes = job.mem.nodes /\ j.mem.key
      /\ j.op = job.op /\ j.cps = job.cps /\ j.failed = job.failed
  <2>1. j = [job EXCEPT !.mem = [job.mem EXCEPT !.key = TRUE]]
    BY DEF RInv, TypeOK, Job
  <2>2. /\ [job.mem EXCEPT !.key = TRUE] \in Config
        /\ [job.mem EXCEPT !.key = TRUE].nodes = job.mem.nodes
        /\ [job.mem EXCEPT !.key = TRUE].ips = job.mem.ips
        /\ [job.mem EXCEPT !.key = TRUE].addrs = job.mem.addrs
        /\ [job.mem EXCEPT !.key = TRUE].key
    BY JobTyped DEF RInv, TypeOK, Config
  <2>3. [job.mem EXCEPT !.key = TRUE] \in Record
    BY <2>2 DEF RInv, Record, Aligned, Lone
  <2>4. QED
    BY <2>1, <2>2, <2>3 DEF RInv, TypeOK, Job
<1> HIDE DEF j
<1>2. /\ \/ Creates(SSHKey) /\ createLoadBalancer(j)
         \/ CreateFails(SSHKey) /\ Abort(j)
      /\ pc = "key" /\ UNCHANGED disk /\ pc \in CreateStage
  BY DEF UploadSSHKey, CreateStage, j
<1>3. Numbered(j.mem) /\ Numbered(Info')
  BY <1>1, <1>2, SameNumbered, SameDirectory DEF NInv
<1>4. CASE Abort(j)
  BY <1>1, <1>2, <1>3, <1>4, CreatingNow, AbortsNumbered
<1>5. CASE Creates(SSHKey) /\ createLoadBalancer(j)
  <2>1. /\ "key" \notin {"group", "keygen"}
        /\ \A r : Pending("key", r) = Role
        /\ Finished("build", "lb") = {} /\ Ahead("lb") \subseteq Role
        /\ "lb" \in Role /\ "lb" \notin Planes /\ 0 \in Nat
    BY DEF Groundwork, Pending, Finished, BuildStage, Ahead, Role, Planes
  <2>2. \A q \in Role : j.mem.nodes[q] = << >>
    BY <1>1, <1>2, <2>1, CreatingNow DEF InOrder
  <2>3. Len(j.mem.nodes["lb"]) + 1 = Count("lb", 0)
    BY <2>1, <2>2 DEF Count
  <2>4. Runs(j.mem, live')
    BY <2>2 DEF Runs
  <2>5. ~j.failed => disk'.keypair
    BY <1>1, <1>2, <2>1, CreatingNow DEF OnTrack
  <2>6. ReadyFor(live', disk', seen', j, "lb", 0)
    BY <1>1, <1>2, <2>1, <2>2, <2>3, <2>4, <2>5, CreatingNow DEF ReadyFor
  <2>7. BuildMachine(j, "lb", 0)
    BY <1>5 DEF createLoadBalancer
  <2>8. QED
    BY <1>1, <1>2, <1>3, <2>1, <2>6, <2>7, CreatingNow, MachineBegins
<1>6. QED
  BY <1>2, <1>4, <1>5

LEMMA BuildNumbers ==
  ASSUME NInv, RInv, NEW kind, Build(kind)
  PROVE  NInv'
<1> DEFINE x == Head(job.todo)
<1>1. /\ pc = "build" /\ UNCHANGED disk /\ job \in Job /\ job.mem \in Record
      /\ Building(job.mem, job.role, job.n, job.todo)
  BY DEF Build, RInv, TypeOK
<1>2. /\ {"build", "save"} \subseteq Knowing /\ "build" # "idle"
      /\ {"build", "save"} \subseteq BuildStage
      /\ "build" \notin CreateStage /\ "save" \notin CreateStage
      /\ \A r : Pending("build", r) = Ahead(r) /\ Pending("save", r) = Ahead(r)
  BY DEF Knowing, CreateStage, BuildStage, Groundwork, Pending
<1>3. /\ Creating(live, disk, seen, "build", job) /\ outcome = "none" /\ Numbered(job.mem)
  BY <1>1, <1>2 DEF NInv
<1>4. CASE /\ Creates(x)
           /\ Continue(IF Tail(job.todo) = << >> THEN "save" ELSE "build",
                       [job EXCEPT !.mem = Noted(@, x), !.todo = Tail(job.todo)])
  <2> DEFINE k == [job EXCEPT !.mem = Noted(job.mem, Head(job.todo)), !.todo = Tail(job.todo)]
             stage == IF Tail(job.todo) = << >> THEN "save" ELSE "build"
  <2>1. live' = PutIn(live, x) /\ seen' = seen /\ pc' = stage /\ outcome' = "none"
    BY <1>3, <1>4 DEF Creates, NoHit, Continue
  <2>2. job' = k
    BY <1>1, <1>4 DEF Continue, Job
  <2>3. Numbered(k.mem) /\ Creating(PutIn(live, x), disk, seen, stage, k)
    BY <1>1, <1>3, MachineGoesOn
  <2>4. stage \in Knowing
    BY <1>2
  <2> HIDE DEF k, stage
  <2>5. Creating(live', disk', seen', pc', job')
    BY <1>1, <2>1, <2>2, <2>3
  <2>6. QED
    BY <1>1, <2>1, <2>2, <2>3, <2>4, <2>5, SameDirectory, CreatesOn
<1>5. CASE Continue("save", [job EXCEPT !.todo = << >>, !.failed = TRUE])
  <2>1. /\ pc' = "save" /\ outcome' = "none" /\ job'.mem = job.mem /\ job'.failed
        /\ job'.op = job.op /\ job'.role = job.role /\ job'.cps = job.cps
    BY <1>1, <1>3, <1>5 DEF Continue, Job
  <2>2. InOrder("save", job')
    BY <1>2, <1>3, <2>1 DEF InOrder, Creating
  <2>3. Creating(live', disk', seen', "save", job')
    BY <1>3, <2>1, <2>2 DEF Creating
  <2>4. QED
    BY <1>1, <1>2, <1>3, <2>1, <2>3, SameDirectory, CreatesOn
<1>6. QED
  BY <1>4, <1>5 DEF Build

\* The function of a machine returns, and the loop goes on to the next.
LEMMA SaveMachineNumbers ==
  ASSUME NInv, RInv, RInv', SaveMachine
  PROVE  NInv'
<1> DEFINE c == job.mem
<1>1. /\ pc = "save" /\ ConfigWriter(job) /\ UNCHANGED live /\ job \in Job /\ c \in Record
      /\ job.n \in Nat /\ job.cps \in Nat /\ job.role \in Role
  BY DEF SaveMachine, RInv, TypeOK, Job
<1>2. /\ "save" \in Knowing /\ "save" # "idle" /\ "save" \in BuildStage
      /\ "save" \notin Groundwork /\ "save" \notin CreateStage
  BY DEF Knowing, BuildStage, Groundwork, CreateStage
<1>3. /\ outcome = "none" /\ Numbered(c)
      /\ Creating(live, disk, seen, "save", job) /\ InOrder("save", job)
      /\ job.op = "create" => job.cps >= 3
      /\ job.op = "create" \/ (job.op = "add" /\ job.role = "wp")
      /\ job.op = "create" => \A q \in Ahead(job.role) : c.nodes[q] = << >>
      /\ ~job.failed => Len(c.nodes[job.role]) = Count(job.role, job.n)
  BY <1>1, <1>2 DEF NInv, Creating, InOrder, Pending
<1>4. /\ Numbered(Info') /\ disk'.keypair = disk.keypair /\ disk'.kubeconfig = disk.kubeconfig
      /\ seen \subseteq seen'
  BY <1>1, DeferredNumbers
<1>5. ASSUME job.op = "create", ~job.failed
      PROVE  /\ disk'.keypair /\ c.key /\ c.vnet /\ c.subnet /\ Runs(c, live')
             /\ \A q \in Finished("save", job.role) : Len(c.nodes[q]) = Wanted(job, q)
             /\ job.role = "wp" => c.token /\ Fetched(disk', seen')
  <2>1. OnTrack(live, disk, seen, "save", job)
    BY <1>3, <1>5 DEF Creating
  <2>2. job.role = "wp" => Fetched(disk, seen)
    BY <1>2, <2>1 DEF OnTrack
  <2>3. job.role = "wp" => Fetched(disk', seen')
    BY <1>4, <2>2, FetchedStays
  <2>4. QED
    BY <1>1, <1>2, <1>4, <2>1, <2>3 DEF OnTrack
<1>6. /\ Finished("build", "db") = Finished("save", "lb") \cup {"lb"}
      /\ Finished("build", "cp") = Finished("save", "db") \cup {"db"}
      /\ Finished("build", "cp") = Finished("save", "cp")
      /\ Finished("build", "wp") = Finished("save", "wp")
      /\ "db" \in Ahead("lb") /\ Ahead("db") \subseteq Ahead("lb")
      /\ "cp" \in Ahead("db") /\ Ahead("cp") \subseteq Ahead("db")
      /\ "wp" \in Ahead("cp") /\ Ahead("wp") = {}
      /\ {"lb", "db"} \cap Planes = {} /\ "cp" \in Planes /\ "wp" \in Planes
      /\ Finished("config", job.role) = Finished("save", "cp") \cup {"cp"}
      /\ Finished("exit", job.role) = {"lb", "db", "cp"} /\ Finished("save", "wp") = {"lb", "db", "cp"}
      /\ "db" \in Role /\ "cp" \in Role /\ "wp" \in Role
  BY DEF Finished, BuildStage, Ahead, Role, Planes, Groundwork
<1> HIDE DEF c
<1>7. ASSUME NEW r \in Role, NEW n \in Nat, BuildMachine(job, r, n),
             ReadyFor(live', disk', seen', job, r, n)
      PROVE  NInv'
  BY <1>1, <1>3, <1>4, <1>7, MachineBegins DEF c
<1>8. CASE ~job.failed /\ job.role = "lb" /\ createDatabase(job)
  <2>1. Len(c.nodes["db"]) + 1 = Count("db", 0)
    BY <1>3, <1>6, <1>8 DEF Count
  <2>2. job.op = "create" => \A q \in Finished("build", "db") : Len(c.nodes[q]) = Wanted(job, q)
    BY <1>3, <1>5, <1>6, <1>8 DEF Count, Wanted
  <2>3. ReadyFor(live', disk', seen', job, "db", 0)
    BY <1>3, <1>5, <1>6, <1>8, <2>1, <2>2 DEF ReadyFor, c
  <2>4. QED
    BY <1>6, <1>7, <1>8, <2>3 DEF createDatabase
<1>9. CASE ~job.failed /\ job.role = "db" /\ createControlPlane(job, 1)
  <2>1. Len(c.nodes["cp"]) + 1 = Count("cp", 1)
    BY <1>3, <1>6, <1>9 DEF Count
  <2>2. job.op = "create" => \A q \in Finished("build", "cp") : Len(c.nodes[q]) = Wanted(job, q)
    BY <1>3, <1>5, <1>6, <1>9 DEF Count, Wanted
  <2>3. ReadyFor(live', disk', seen', job, "cp", 1)
    BY <1>3, <1>5, <1>6, <1>9, <2>1, <2>2 DEF ReadyFor, c
  <2>4. QED
    BY <1>6, <1>7, <1>9, <2>3 DEF createControlPlane
<1>10. CASE ~job.failed /\ job.role = "cp" /\ createControlPlane(job, job.n + 1)
  <2>1. Len(c.nodes["cp"]) + 1 = Count("cp", job.n + 1)
    BY <1>1, <1>3, <1>6, <1>10 DEF Count
  <2>2. ReadyFor(live', disk', seen', job, "cp", job.n + 1)
    BY <1>3, <1>5, <1>6, <1>10, <2>1 DEF ReadyFor, c
  <2>3. job.n + 1 \in Nat
    BY <1>1
  <2>4. QED
    BY <1>6, <1>7, <1>10, <2>2, <2>3 DEF createControlPlane
<1>11. CASE ~job.failed /\ job.role = "wp" /\ createWorkerPlane(job, job.n + 1)
  <2>1. Len(c.nodes["wp"]) + 1 = Count("wp", job.n + 1)
    BY <1>1, <1>3, <1>6, <1>11 DEF Count
  <2>2. ReadyFor(live', disk', seen', job, "wp", job.n + 1)
    BY <1>3, <1>5, <1>6, <1>11, <2>1 DEF ReadyFor, c
  <2>3. job.n + 1 \in Nat
    BY <1>1
  <2>4. QED
    BY <1>6, <1>7, <1>11, <2>2, <2>3 DEF createWorkerPlane
<1>12. CASE ~job.failed /\ job.role = "cp" /\ job.n = job.cps /\ Continue("config", job)
  <2>1. pc' = "config" /\ job' = job /\ outcome' = "none" /\ job.op = "create"
    BY <1>3, <1>12 DEF Continue
  <2>2. /\ "config" \in Knowing /\ "config" \in CreateStage /\ "config" \notin BuildStage
        /\ "config" \notin Groundwork
        /\ \A r : Pending("config", r) = {"wp"}
    BY DEF Knowing, CreateStage, BuildStage, Groundwork, Setup, Pending
  <2>3. InOrder("config", job)
    BY <1>3, <1>6, <1>12, <2>1, <2>2 DEF InOrder, c
  <2>4. \A q \in Finished("config", job.role) : Len(c.nodes[q]) = Wanted(job, q)
    BY <1>3, <1>5, <1>6, <1>12, <2>1 DEF Count, Wanted
  <2>5. OnTrack(live', disk', seen', "config", job)
    BY <1>5, <1>12, <2>1, <2>2, <2>4 DEF OnTrack, c
  <2>6. Creating(live', disk', seen', pc', job')
    BY <1>3, <2>1, <2>3, <2>5 DEF Creating
  <2>7. QED
    BY <1>3, <1>4, <2>1, <2>2, <2>6, CreatesOn DEF c
<1>13. CASE ~job.failed /\ job.role = "wp" /\ job.n = job.wps /\ job.op = "create" /\ Continue("exit", job)
  <2>1. pc' = "exit" /\ job' = job /\ outcome' = "none"
    BY <1>3, <1>13 DEF Continue
  <2>2. /\ "exit" \in Knowing /\ "exit" \in CreateStage /\ "exit" \notin BuildStage
        /\ "exit" \notin Groundwork
        /\ \A r : Pending("exit", r) = {}
    BY DEF Knowing, CreateStage, BuildStage, Groundwork, Setup, Pending
  <2>3. InOrder("exit", job)
    BY <1>13, <2>2 DEF InOrder
  <2>4. OnTrack(live', disk', seen', "exit", job)
    <3>1. Len(c.nodes["wp"]) = job.wps
      BY <1>3, <1>6, <1>13 DEF Count
    <3>2. QED
      BY <1>5, <1>6, <1>13, <2>2, <3>1 DEF OnTrack, c
  <2>5. Creating(live', disk', seen', pc', job')
    BY <1>3, <2>1, <2>3, <2>4 DEF Creating
  <2>6. QED
    BY <1>3, <1>4, <2>1, <2>2, <2>5, CreatesOn DEF c
<1>14. CASE job.op = "create" /\ Abort(job)
  BY <1>1, <1>2, <1>3, <1>4, <1>14, AbortsNumbered DEF c
<1>15. CASE Return("added") \/ Return("failed")
  BY <1>4, <1>15, EndsNumbered
<1>16. QED
  BY <1>8, <1>9, <1>10, <1>11, <1>12, <1>13, <1>14, <1>15 DEF SaveMachine, NextMachine

\* The machines are there, and a creation goes on configuring them.
LEMMA SetupGoesOn ==
  ASSUME NInv, RInv, pc \in Setup, pc' \in Setup \ {"config"}, UNCHANGED <<live, outcome>>,
         Numbered(Info'), disk'.keypair = disk.keypair,
         job'.op = job.op, job'.cps = job.cps, job'.failed = job.failed,
         job'.mem.nodes = job.mem.nodes, job'.mem.key = job.mem.key,
         job'.mem.vnet = job.mem.vnet, job'.mem.subnet = job.mem.subnet,
         ~job.failed /\ (pc' = "kubeconfig" \/ (pc' = "script" /\ job'.n # 1)) => job'.mem.token
  PROVE  NInv'
<1>1. /\ pc \in CreateStage /\ pc' \in CreateStage /\ pc' \in Knowing /\ pc' \notin BuildStage
      /\ pc \notin Groundwork /\ pc' \notin Groundwork /\ pc \notin BuildStage
      /\ pc # "exit" /\ pc' # "exit" /\ pc # "build" /\ pc' # "build"
      /\ "save" \notin Setup
      /\ \A r : Pending(pc, r) = {"wp"} /\ Pending(pc', r) = {"wp"}
      /\ \A r : Finished(pc, r) = {"lb", "db", "cp"} /\ Finished(pc', r) = {"lb", "db", "cp"}
  BY DEF Setup, CreateStage, Knowing, BuildStage, Groundwork, Pending, Finished
<1>2. InOrder(pc', job')
  BY <1>1, CreatingNow DEF InOrder
<1>3. ASSUME ~job'.failed
      PROVE  OnTrack(live', disk', seen', pc', job')
  <2>1. OnTrack(live, disk, seen, pc, job)
    BY <1>1, <1>3, CreatingNow
  <2>2. disk'.keypair /\ job'.mem.key /\ job'.mem.vnet /\ job'.mem.subnet /\ Runs(job'.mem, live')
    BY <1>1, <2>1 DEF OnTrack, Groundwork, Runs
  <2>3. \A r \in {"lb", "db", "cp"} : Len(job'.mem.nodes[r]) = Wanted(job', r)
    BY <1>1, <2>1 DEF OnTrack, Wanted
  <2>4. QED
    BY <1>1, <1>3, <2>2, <2>3 DEF OnTrack
<1>4. Creating(live', disk', seen', pc', job')
  BY <1>1, <1>2, <1>3, CreatingNow DEF Creating
<1>5. QED
  BY <1>1, <1>4, CreatingNow, SameNumbered, CreatesOn

LEMMA ScriptsNumber ==
  ASSUME NInv, RInv, ConfigLoadBalancer \/ ConfigControlPlane \/ GetTokenFromCP1
  PROVE  NInv'
<1>1. /\ UNCHANGED <<live, disk>> /\ pc \in {"config", "script", "token"} /\ job \in Job
      /\ job.mem \in Config /\ job.n \in Nat
  BY JobTyped DEF ConfigLoadBalancer, ConfigControlPlane, GetTokenFromCP1, RInv, TypeOK
<1>2. pc \in Setup /\ pc \in CreateStage /\ Numbered(Info')
  BY <1>1, SameDirectory DEF Setup, CreateStage
<1>3. CASE Abort(job)
  BY <1>1, <1>2, <1>3, CreatingNow, AbortsNumbered
<1>4. CASE ConfigLoadBalancer /\ Continue("script", [job EXCEPT !.n = 1])
  <2>1. /\ pc' = "script" /\ outcome' = outcome /\ job'.n = 1 /\ job'.mem = job.mem
        /\ job'.op = job.op /\ job'.cps = job.cps /\ job'.failed = job.failed
    BY <1>1, <1>4 DEF Continue, Job
  <2>2. QED
    BY <1>1, <1>2, <2>1, SetupGoesOn DEF Setup
<1>5. CASE pc = "script" /\ Continue("token", job)
  <2>1. pc' = "token" /\ outcome' = outcome /\ job' = job
    BY <1>5 DEF Continue
  <2>2. QED
    BY <1>1, <1>2, <2>1, SetupGoesOn DEF Setup
<1>6. CASE pc = "script" /\ job.n > 1 /\ Continue("script", [job EXCEPT !.n = @ + 1])
  <2>1. /\ pc' = "script" /\ outcome' = outcome /\ job'.mem = job.mem
        /\ job'.op = job.op /\ job'.cps = job.cps /\ job'.failed = job.failed
    BY <1>1, <1>6 DEF Continue, Job
  <2>2. ~job.failed => job.mem.token
    BY <1>1, <1>2, <1>6, CreatingNow DEF OnTrack
  <2>3. QED
    BY <1>1, <1>2, <2>1, <2>2, SetupGoesOn DEF Setup
<1>7. CASE pc = "script" /\ job.n > 1 /\ Continue("kubeconfig", job)
  <2>1. pc' = "kubeconfig" /\ outcome' = outcome /\ job' = job
    BY <1>7 DEF Continue
  <2>2. ~job.failed => job.mem.token
    BY <1>1, <1>2, <1>7, CreatingNow DEF OnTrack
  <2>3. QED
    BY <1>1, <1>2, <2>1, <2>2, SetupGoesOn DEF Setup
<1>8. CASE GetTokenFromCP1 /\ Continue("saveToken", [job EXCEPT !.mem.token = TRUE])
  <2>1. job' = [job EXCEPT !.mem = [job.mem EXCEPT !.token = TRUE]]
    BY <1>1, <1>8 DEF Continue, Job
  <2>2. /\ pc' = "saveToken" /\ outcome' = outcome
        /\ job'.op = job.op /\ job'.cps = job.cps /\ job'.failed = job.failed
        /\ job'.mem = [job.mem EXCEPT !.token = TRUE]
    BY <1>1, <1>8, <2>1 DEF Continue, Job
  <2>3. /\ job'.mem.nodes = job.mem.nodes /\ job'.mem.key = job.mem.key
        /\ job'.mem.vnet = job.mem.vnet /\ job'.mem.subnet = job.mem.subnet
    BY <1>1, <2>2 DEF Config
  <2>4. QED
    BY <1>1, <1>2, <2>2, <2>3, SetupGoesOn DEF Setup
<1>9. CASE GetTokenFromCP1 /\ Continue("saveToken", job)
  <2>1. pc' = "saveToken" /\ outcome' = outcome /\ job' = job
    BY <1>9 DEF Continue
  <2>2. QED
    BY <1>1, <1>2, <2>1, SetupGoesOn DEF Setup
<1>10. QED
  BY <1>3, <1>4, <1>5, <1>6, <1>7, <1>8, <1>9
     DEF ConfigLoadBalancer, ConfigControlPlane, GetTokenFromCP1

LEMMA SaveTokenNumbers ==
  ASSUME NInv, RInv, SaveToken
  PROVE  NInv'
<1>1. /\ pc = "saveToken" /\ ConfigWriter(job) /\ UNCHANGED live /\ job \in Job
      /\ pc \in Setup /\ pc \in CreateStage
  BY DEF SaveToken, RInv, TypeOK, Setup, CreateStage
<1>2. Numbered(Info') /\ disk'.keypair = disk.keypair
  BY <1>1, DeferredNumbers
<1>3. CASE Abort(job)
  BY <1>1, <1>2, <1>3, CreatingNow, AbortsNumbered
<1>4. CASE job.mem.token /\ Continue("script", [job EXCEPT !.n = 2])
  <2>1. /\ pc' = "script" /\ outcome' = outcome /\ job'.mem = job.mem
        /\ job'.op = job.op /\ job'.cps = job.cps /\ job'.failed = job.failed
    BY <1>1, <1>4 DEF Continue, Job
  <2>2. QED
    BY <1>1, <1>2, <1>4, <2>1, SetupGoesOn DEF Setup
<1>5. QED
  BY <1>3, <1>4 DEF SaveToken

LEMMA SaveKubeconfigNumbers ==
  ASSUME NInv, RInv, RInv', SaveKubeconfig
  PROVE  NInv'
<1> DEFINE c == job.mem
<1>1. /\ pc = "kubeconfig" /\ pc \in CreateStage /\ UNCHANGED live /\ job \in Job /\ disk \in Disk
      /\ c \in Record
  BY DEF SaveKubeconfig, CreateStage, RInv, TypeOK
<1>2. /\ Info' = Info /\ disk'.keypair = disk.keypair /\ Numbered(Info)
  BY <1>1 DEF SaveKubeconfig, Disk, Info, NInv
<1>3. CASE Abort(job)
  BY <1>1, <1>2, <1>3, CreatingNow, AbortsNumbered
<1>4. CASE /\ \/ disk' = [disk EXCEPT !.kubeconfig = "full"] /\ NoHit
              \/ disk' = [disk EXCEPT !.kubeconfig = "empty"] /\ Hit("api")
           /\ \/ job.wps = 0 /\ Continue("exit", job)
              \/ createWorkerPlane(job, 1)
  <2>1. Fetched(disk', seen')
    BY <1>1, <1>4 DEF Fetched, Hit, Disk
  <2>2. ASSUME ~job.failed
        PROVE  /\ disk'.keypair /\ c.key /\ c.vnet /\ c.subnet /\ c.token /\ Runs(c, live')
               /\ \A q \in {"lb", "db", "cp"} : Len(c.nodes[q]) = Wanted(job, q)
    <3>1. /\ OnTrack(live, disk, seen, "kubeconfig", job) /\ "kubeconfig" \notin Groundwork
          /\ \A r : Finished("kubeconfig", r) = {"lb", "db", "cp"}
      BY <1>1, <2>2, CreatingNow DEF Finished, Groundwork, BuildStage
    <3>2. QED
      BY <1>1, <1>2, <3>1 DEF OnTrack
  <2>3. CASE job.wps = 0 /\ Continue("exit", job)
    <3>1. pc' = "exit" /\ job' = job /\ outcome' = "none"
      BY <1>1, <2>3, CreatingNow DEF Continue
    <3>2. /\ "exit" \in Knowing /\ "exit" \in CreateStage /\ "exit" \notin BuildStage
          /\ "exit" \notin Groundwork
          /\ \A r : Pending("exit", r) = {} /\ Finished("exit", r) = {"lb", "db", "cp"}
      BY DEF Knowing, CreateStage, BuildStage, Groundwork, Setup, Pending, Finished
    <3>3. InOrder("exit", job)
      BY <1>1, <3>2, CreatingNow DEF InOrder
    <3>4. ~job.failed => OnTrack(live', disk', seen', "exit", job)
      <4>1. Len(c.nodes["wp"]) = job.wps
        <5>1. Pending("kubeconfig", job.role) = {"wp"}
          BY DEF Pending, Groundwork, BuildStage, Setup
        <5>2. QED
          BY <1>1, <2>3, <5>1, CreatingNow DEF InOrder
      <4>2. QED
        BY <2>1, <2>2, <3>2, <4>1 DEF OnTrack
    <3>5. Creating(live', disk', seen', pc', job')
      BY <1>1, <3>1, <3>3, <3>4, CreatingNow DEF Creating
    <3>6. QED
      BY <1>1, <1>2, <3>1, <3>2, <3>5, CreatingNow, CreatesOn
  <2>4. CASE createWorkerPlane(job, 1)
    <3>1. /\ Pending("kubeconfig", job.role) = {"wp"} /\ Ahead("wp") = {}
          /\ Finished("build", "wp") = {"lb", "db", "cp"}
          /\ "wp" \in Role /\ "wp" \in Planes /\ 1 \in Nat
      BY DEF Pending, Finished, Groundwork, BuildStage, Setup, Ahead, Role, Planes
    <3>2. Len(c.nodes["wp"]) + 1 = Count("wp", 1)
      BY <1>1, <3>1, CreatingNow DEF InOrder, Count
    <3>3. ReadyFor(live', disk', seen', job, "wp", 1)
      BY <1>1, <2>1, <2>2, <3>1, <3>2, CreatingNow DEF ReadyFor
    <3>4. BuildMachine(job, "wp", 1)
      BY <2>4 DEF createWorkerPlane
    <3>5. QED
      BY <1>1, <1>2, <3>1, <3>3, <3>4, CreatingNow, MachineBegins
  <2>5. QED
    BY <1>4, <2>3, <2>4
<1>5. QED
  BY <1>3, <1>4 DEF SaveKubeconfig

\* The creation reports success: what it knows is on the disk.
LEMMA ReturnFromCreateNumbers ==
  ASSUME NInv, RInv, ReturnFromCreate
  PROVE  NInv'
<1> DEFINE c == job.mem
<1>1. /\ pc = "exit" /\ pc \in CreateStage /\ ConfigWriter(job) /\ UNCHANGED live /\ disk \in Disk
      /\ c \in Record
  BY DEF ReturnFromCreate, CreateStage, RInv, TypeOK
<1>2. /\ Numbered(Info') /\ disk'.keypair = disk.keypair /\ disk'.kubeconfig = disk.kubeconfig
      /\ seen \subseteq seen'
      /\ "disk" \notin seen' => disk' = Saved(c)
  BY <1>1, DeferredNumbers
<1>3. CASE Continue("read", job)
  <2>1. pc' = "read" /\ job' = job /\ outcome' = "none" /\ "read" \notin Knowing
    BY <1>1, <1>3, CreatingNow DEF Continue, Knowing, CreateStage, BuildStage
  <2>2. QED
    BY <1>1, <1>2, <2>1, CreatingNow, CreatesNothing
<1>4. CASE ~job.failed /\ Return("created")
  <2>1. pc' = "idle" /\ job'.mem = EmptyConfig /\ outcome' = "created" /\ "idle" \notin Knowing
    BY <1>4 DEF Return, NoJob, Knowing, CreateStage, BuildStage
  <2>2. /\ OnTrack(live, disk, seen, "exit", job) /\ "exit" \notin Groundwork
        /\ \A r : Finished("exit", r) = {"lb", "db", "cp"}
    BY <1>1, <1>4, CreatingNow DEF Groundwork, Finished, BuildStage
  <2>3. Fetched(disk', seen')
    BY <1>2, <2>2, FetchedStays DEF OnTrack
  <2>4. /\ disk'.keypair /\ c.key /\ c.vnet /\ c.subnet /\ c.token /\ Runs(c, live')
        /\ Len(c.nodes["lb"]) = 1 /\ Len(c.nodes["db"]) = 1 /\ Len(c.nodes["cp"]) >= 3
    BY <1>1, <1>2, <2>2, CreatingNow DEF OnTrack, Wanted
  <2>5. "disk" \notin seen' => disk'.file = "saved" /\ Info' = c
    BY <1>1, <1>2 DEF Saved, Info, Disk
  <2> HIDE DEF c
  <2>6. CreatedIsComplete'
    BY <2>3, <2>4, <2>5 DEF CreatedIsComplete, Runs, Fetched
  <2>7. QED
    BY <1>2, <2>1, <2>6, EmptyNumbered DEF NInv
<1>5. QED
  BY <1>3, <1>4 DEF ReturnFromCreate

LEMMA DeleteNumbers ==
  ASSUME NInv, RInv, DeleteStep
  PROVE  NInv'
<1>1. CASE ConfigReader
  <2>1. UNCHANGED disk /\ pc = "read"
    BY <1>1 DEF ConfigReader
  <2>2. CASE Return("failed")
    BY <2>1, <2>2, SameDirectory, EndsNumbered
  <2>3. CASE Continue("wipe", [NoJob EXCEPT !.op = job.op, !.mem = Info, !.todo = Teardown(Info)])
    <3>1. pc' = "wipe" /\ job'.mem = Info /\ outcome' = "none" /\ "wipe" \notin Knowing
      BY <2>1, <2>3 DEF Continue, NoJob, Knowing, CreateStage, BuildStage, NInv
    <3>2. QED
      BY <2>1, <3>1, SameDirectory, CreatesNothing DEF NInv
  <2>4. QED
    BY <1>1, <2>2, <2>3 DEF ConfigReader
<1>2. ASSUME NEW kind, NEW stage \in {"wipe", "drop"}, Wipe(kind, stage)
      PROVE  NInv'
  <2>1. UNCHANGED disk /\ pc = "wipe" /\ job \in Job
    BY <1>2 DEF Wipe, RInv, TypeOK
  <2>2. CASE Return("failed")
    BY <2>1, <2>2, SameDirectory, EndsNumbered
  <2>3. CASE Continue(stage, [job EXCEPT !.todo = Tail(@)])
    <3>1. pc' = stage /\ job'.mem = job.mem /\ outcome' = "none" /\ stage \notin Knowing
      BY <2>1, <2>3 DEF Continue, Job, Knowing, CreateStage, BuildStage, NInv
    <3>2. QED
      BY <2>1, <3>1, SameDirectory, CreatesNothing DEF NInv
  <2>4. QED
    BY <1>2, <2>2, <2>3 DEF Wipe
<1>3. CASE RemoveAll
  <2>1. /\ disk' \in PartlyRemoved \cup {EmptyDisk} /\ disk \in Disk
        /\ \E result \in {"deleted", "failed"} : Return(result)
    BY <1>3 DEF RemoveAll, RInv, TypeOK
  <2>2. QED
    BY <2>1, RemovalNumbers, EndsNumbered
<1>4. QED
  BY <1>1, <1>2, <1>3
     DEF DeleteStep, DeleteAllVMs, DeleteAllDisks, DeleteAllNetworkInterface, DeleteAllNSG,
         DeleteAllPublicIP, DeleteSubnet, DeleteVirtualNetwork, DeleteSSHKeyPair, DeleteResourceGroup

LEMMA RemoveNumbers ==
  ASSUME NInv, RInv, RemoveStep
  PROVE  NInv'
<1>1. ASSUME NEW kind, StripWorker(kind)
      PROVE  NInv'
  <2>1. UNCHANGED disk /\ pc = "strip" /\ job \in Job
    BY <1>1 DEF StripWorker, RInv, TypeOK
  <2>2. CASE Return("failed")
    BY <2>1, <2>2, SameDirectory, EndsNumbered
  <2>3. CASE Continue(IF Tail(job.todo) = << >> THEN "trim" ELSE "strip", [job EXCEPT !.todo = Tail(job.todo)])
    <3>1. pc' \in {"trim", "strip"} /\ job'.mem = job.mem /\ outcome' = "none" /\ pc' \notin Knowing
      BY <2>1, <2>3 DEF Continue, Job, Knowing, CreateStage, BuildStage, NInv
    <3>2. QED
      BY <2>1, <3>1, SameDirectory, CreatesNothing DEF NInv
  <2>4. QED
    BY <1>1, <2>2, <2>3 DEF StripWorker
<1>2. CASE TrimWorker
  <2> DEFINE c == Trimmed(job.mem)
  <2>1. pc = "trim" /\ Removing /\ job \in Job /\ disk \in Disk /\ job.mem \in Record
    BY <1>2 DEF TrimWorker, RInv, TypeOK, RemoveStage
  <2>2. Len(Info.nodes["wp"]) \in Nat /\ Len(Info.nodes["wp"]) >= 1
    <3>1. Len(Info.nodes["wp"]) \in Nat
      BY RecordLists DEF RInv, Role
    <3>2. QED
      BY <2>1, <3>1 DEF Removing
  <2>3. Numbered(c)
    BY <2>1, <2>2, TrimNumbered DEF Removing, NInv
  <2> HIDE DEF c
  <2>4. disk' \in {Saved(c), disk, Torn}
    BY <1>2 DEF TrimWorker, c
  <2>5. Numbered(Info')
    BY <2>1, <2>3, <2>4, WriterNumbers
  <2>6. CASE \E result \in {"removed", "failed", "panic"} : Return(result)
    BY <2>5, <2>6, EndsNumbered
  <2>7. CASE Continue("strip", [job EXCEPT !.mem = c, !.rounds = @ - 1, !.todo = Strip(c)])
    <3>1. pc' = "strip" /\ job'.mem = c /\ outcome' = "none" /\ "strip" \notin Knowing
      BY <2>1, <2>7 DEF Continue, Job, Knowing, CreateStage, BuildStage, NInv
    <3>2. QED
      BY <2>3, <2>5, <3>1, CreatesNothing
  <2>8. QED
    BY <1>2, <2>6, <2>7 DEF TrimWorker, c
<1>3. QED
  BY <1>1, <1>2 DEF RemoveStep, DeleteVM, DeleteDisk, DeleteNetworkInterface, DeletePublicIP

LEMMA CrashNumbers ==
  ASSUME NInv, RInv, Crash
  PROVE  NInv'
<1>1. Return("crashed") /\ disk \in Disk
  BY DEF Crash, RInv, TypeOK
<1>2. CASE disk' = [disk EXCEPT !.kubeconfig = "empty"]
  BY <1>1, <1>2, EndsNumbered DEF Disk, Info, NInv
<1>3. CASE disk' \in {Torn, disk}
  BY <1>1, <1>3, WriterNumbers, EmptyNumbered, EndsNumbered
<1>4. CASE disk' \in PartlyRemoved
  BY <1>1, <1>4, RemovalNumbers, EndsNumbered
<1>5. QED
  BY <1>2, <1>3, <1>4 DEF Crash

-----------------------------------------------------------------------------
(* What follows                                                            *)

LEMMA NextNumbers ==
  ASSUME NInv, RInv, RInv', [Next]_vars
  PROVE  NInv'
<1>1. CASE User
  BY <1>1, StartCreateNumbers, RestStartsNumbers, StartAddNumbers DEF User
<1>2. CASE BuildStep
  BY <1>2, BuildNumbers, SaveMachineNumbers
     DEF BuildStep, CreateVirtualNetwork, CreateSubnet, CreatePublicIP, CreateNSG, CreateNetworkInterface,
         CreateVM
<1>3. CASE CreateStep
  BY <1>3, CreateResourceGroupNumbers, CreateSSHKeyPairNumbers, UploadSSHKeyNumbers, ScriptsNumber,
     SaveTokenNumbers, SaveKubeconfigNumbers, ReturnFromCreateNumbers DEF CreateStep
<1>4. CASE DeleteStep
  BY <1>4, DeleteNumbers
<1>5. CASE RemoveStep
  BY <1>5, RemoveNumbers
<1>6. CASE Crash
  BY <1>6, CrashNumbers
<1>7. CASE UNCHANGED vars
  BY <1>7 DEF vars, NInv, Info, CreatedIsComplete, Creating, OnTrack
<1>8. QED
  BY <1>1, <1>2, <1>3, <1>4, <1>5, <1>6, <1>7 DEF Next, Step

LEMMA InitNumbers == Init => NInv
<1>1. "idle" \notin Knowing
  BY DEF Knowing, CreateStage, BuildStage
<1>2. QED
  BY <1>1, EmptyNumbered DEF Init, NInv, Info, EmptyDisk, NoJob, CreatedIsComplete

LEMMA NumbersInductive == Spec => []NInv
<1>1. NInv /\ RInv /\ RInv' /\ [Next]_vars => NInv'
  BY NextNumbers
<1>2. QED
  BY InitNumbers, RInductive, <1>1, PTL DEF Spec

\* No machine that runs is created over again: a command names the next
\* machine by the length of the record (AddMoreWorkerNodes,
\* haCreateClusterHandler), the record numbers its machines from one without
\* a gap, whatever failed, and what runs is on record.
THEOREM AzureSparesLive == Spec => []CreateSparesLive
<1>1. NInv /\ RInv => CreateSparesLive
  <2>1. SUFFICES ASSUME NInv, RInv, seen \cap {"crash", "disk"} = {}, pc = "build",
                        Head(job.todo).kind = "vm"
                 PROVE  Head(job.todo) \notin live
    BY DEF CreateSparesLive
  <2>2. "build" \in Knowing
    BY DEF Knowing, BuildStage
  <2>3. VM(job.role, job.n) \notin live
    BY <2>1, <2>2 DEF NInv, Creating
  <2>4. Building(job.mem, job.role, job.n, job.todo)
    BY <2>1 DEF RInv
  <2>5. \/ Head(job.todo) = VM(job.role, job.n) \/ Head(job.todo) = NIC(job.role, job.n)
        \/ Head(job.todo) \in {VNet, Subnet, PublicIP(job.role, job.n), NSG(job.role)}
    BY <2>4, BuildingGoesOn
  <2>6. Head(job.todo) = VM(job.role, job.n)
    BY <2>1, <2>5 DEF VNet, Subnet, PublicIP, NSG, NIC, Res
  <2>7. QED
    BY <2>3, <2>6
<1>2. QED
  BY RInductive, NumbersInductive, <1>1, PTL

\* A creation that reports success has its load balancer, its database and
\* its control planes, and every machine on record exists, unless a file
\* could not be written: the deferred ConfigWriter does not report its error,
\* but everything else that fails ends haCreateClusterHandler with an error.
THEOREM AzureCreationComplete == Spec => []CreatedIsComplete
<1>1. NInv => CreatedIsComplete
  BY DEF NInv
<1>2. QED
  BY NumbersInductive, <1>1, PTL

\* Where a creation reports success.
LEMMA CreatedBy ==
  ASSUME NInv, RInv, [Next]_vars, outcome' = "created", outcome # "created"
  PROVE  ReturnFromCreate /\ ~job.failed
<1>1. ASSUME NEW j, Abort(j) PROVE FALSE
  BY <1>1 DEF Abort, Continue
<1>2. ASSUME NEW j, NextMachine(j) PROVE FALSE
  BY <1>2
  DEF NextMachine, createDatabase, createControlPlane, createWorkerPlane, BuildMachine, Continue, Return
<1>3. ASSUME NEW result, Return(result), result # "created" PROVE FALSE
  BY <1>3 DEF Return
<1>4. ASSUME NEW stage, NEW j, Continue(stage, j) PROVE FALSE
  BY <1>4 DEF Continue
<1>5. ~User
  <2>1. ~Refuse /\ \A stage, j : ~Begin(stage, j)
    BY DEF Refuse, Begin, vars
  <2>2. ~StartCreate
    BY <2>1 DEF StartCreate
  <2>3. ~StartDelete /\ ~StartAdd /\ ~StartRemove
    BY <2>1 DEF StartDelete, StartAdd, StartRemove
  <2>4. QED
    BY <2>2, <2>3 DEF User
<1>6. ~BuildStep
  <2>1. ASSUME NEW kind PROVE ~Build(kind)
    BY <1>4 DEF Build
  <2>2. ~SaveMachine
    BY <1>1, <1>2, <1>3 DEF SaveMachine
  <2>3. QED
    BY <2>1, <2>2
    DEF BuildStep, CreateVirtualNetwork, CreateSubnet, CreatePublicIP, CreateNSG, CreateNetworkInterface,
        CreateVM
<1>7. ASSUME CreateStep PROVE ReturnFromCreate
  BY <1>1, <1>4, <1>7
  DEF CreateStep, CreateResourceGroup, CreateSSHKeyPair, UploadSSHKey, ConfigLoadBalancer,
      ConfigControlPlane, GetTokenFromCP1, SaveToken, SaveKubeconfig, createLoadBalancer,
      createWorkerPlane, BuildMachine
<1>8. ~DeleteStep
  <2>1. ASSUME NEW kind, NEW stage PROVE ~Wipe(kind, stage)
    BY <1>3, <1>4 DEF Wipe
  <2>2. ~ConfigReader /\ ~RemoveAll
    BY <1>3, <1>4 DEF ConfigReader, RemoveAll
  <2>3. QED
    BY <2>1, <2>2
    DEF DeleteStep, DeleteAllVMs, DeleteAllDisks, DeleteAllNetworkInterface, DeleteAllNSG,
        DeleteAllPublicIP, DeleteSubnet, DeleteVirtualNetwork, DeleteSSHKeyPair, DeleteResourceGroup
<1>9. ~RemoveStep
  <2>1. ASSUME NEW kind PROVE ~StripWorker(kind)
    BY <1>3, <1>4 DEF StripWorker
  <2>2. ~TrimWorker
    BY <1>3, <1>4 DEF TrimWorker
  <2>3. QED
    BY <2>1, <2>2 DEF RemoveStep, DeleteVM, DeleteDisk, DeleteNetworkInterface, DeletePublicIP
<1>10. ~Crash /\ ~UNCHANGED vars
  BY <1>3 DEF Crash, vars
<1>11. ReturnFromCreate
  BY <1>5, <1>6, <1>7, <1>8, <1>9, <1>10 DEF Next, Step
<1>12. QED
  BY <1>4, <1>11 DEF ReturnFromCreate

\* A creation that reports success has all the control planes and workers on
\* record that the user has asked for, unless a file could not be written.
THEOREM AzureCreationAsAsked == Spec => CreatedAsAsked
<1> DEFINE Counted == Len(Info'.nodes["cp"]) = job.cps /\ Len(Info'.nodes["wp"]) = job.wps
<1>1. ASSUME NInv, RInv, [Next]_vars, outcome' = "created", outcome # "created", "disk" \notin seen'
      PROVE  Counted
  <2>1. /\ pc = "exit" /\ pc \in CreateStage /\ ConfigWriter(job) /\ disk \in Disk
        /\ job.mem \in Record /\ ~job.failed
    BY <1>1, CreatedBy DEF ReturnFromCreate, CreateStage, RInv, TypeOK
  <2>2. disk' = Saved(job.mem)
    BY <1>1, <2>1, DeferredNumbers
  <2>3. Info' = job.mem
    BY <2>1, <2>2 DEF Saved, Info, Disk
  <2>4. /\ OnTrack(live, disk, seen, "exit", job)
        /\ \A r : Finished("exit", r) = {"lb", "db", "cp"}
    BY <1>1, <2>1, CreatingNow DEF Groundwork, Finished, BuildStage
  <2>5. QED
    BY <2>3, <2>4 DEF OnTrack, Wanted
<1>2. NInv /\ RInv /\ [Next]_vars
        => [outcome' = "created" /\ outcome # "created" /\ "disk" \notin seen' => Counted]_vars
  BY <1>1
<1>3. QED
  BY <1>2, NumbersInductive, RInductive, PTL DEF Spec, CreatedAsAsked
-----------------------------------------------------------------------------
(* Every command comes to its end                                          *)

\* A command at stage is within the loop it is in.
WithinLoop(stage, j) ==
  /\ stage \in (CreateStage \ {"exit"}) \cup Scripts => j.op = "create"
  /\ stage \in BuildStage => j.op = "create" \/ j.role = "wp"
  /\ stage \in (CreateStage \ {"exit"}) \cup BuildStage /\ j.op = "create" => j.cps >= 3
  /\ stage \in BuildStage /\ j.role = "cp" => j.n <= j.cps
  /\ stage \in BuildStage /\ j.role = "wp" => j.n <= j.wps
  /\ stage \in Scripts => j.n <= j.cps
  /\ stage \in {"token", "saveToken"} => j.n = 1
  /\ stage \in RemoveStage => j.rounds >= 1

LEMMA Legs ==
  /\ \A s \in BuildStage : Leg(s, "lb") = 11 /\ Leg(s, "db") = 10 /\ Leg(s, "cp") = 9 /\ Leg(s, "wp") = 5
  /\ \A r \in Role : /\ Leg("group", r) = 14 /\ Leg("keygen", r) = 13 /\ Leg("key", r) = 12
                     /\ Leg("config", r) = 8
                     /\ Leg("script", r) = 7 /\ Leg("token", r) = 7 /\ Leg("saveToken", r) = 7
                     /\ Leg("kubeconfig", r) = 6 /\ Leg("exit", r) = 4
                     /\ Leg("read", r) = 3 /\ Leg("wipe", r) = 2 /\ Leg("drop", r) = 1
                     /\ Leg("strip", r) = 1 /\ Leg("trim", r) = 1 /\ Leg("idle", r) = 0
BY DEF Leg, Scripts, BuildStage, RemoveStage, Role

LEMMA RoundsInLoops ==
  ASSUME NEW j
  PROVE  /\ \A s \in {"group", "keygen", "key", "config", "kubeconfig", "exit", "read", "wipe", "drop", "idle"} :
              Rounds(s, j) = 0
         /\ \A s \in BuildStage :
              Rounds(s, j) = IF j.role = "cp" THEN j.cps - j.n ELSE IF j.role = "wp" THEN j.wps - j.n ELSE 0
         /\ \A s \in Scripts : Rounds(s, j) = j.cps - j.n
         /\ \A s \in RemoveStage : Rounds(s, j) = j.rounds
BY DEF Rounds, Scripts, BuildStage, RemoveStage

LEMMA CallsInRound ==
  ASSUME NEW j
  PROVE  /\ \A s \in {"build", "wipe", "strip"} : Calls(s, j) = Len(j.todo)
         /\ Calls("script", j) = 2 /\ Calls("token", j) = 1
         /\ \A s \in {"group", "keygen", "key", "save", "config", "saveToken", "kubeconfig", "exit",
                      "read", "drop", "trim", "idle"} :
              Calls(s, j) = 0
BY DEF Calls

LEMMA LegsLeft ==
  ASSUME NEW stage \in Stage \ {"idle"}, NEW r \in Role
  PROVE  /\ Leg(stage, r) \in Nat /\ Leg(stage, r) > 0
         /\ stage \in (CreateStage \ {"exit"}) \cup BuildStage => Leg(stage, r) > 4
<1>1. stage \in BuildStage => Leg(stage, r) \in 5..14
  BY Legs DEF Role
<1>2. stage \in CreateStage \ {"exit"} => Leg(stage, r) \in 5..14
  BY Legs DEF CreateStage
<1>3. stage \in {"exit"} \cup DeleteStage \cup RemoveStage =>
        /\ Leg(stage, r) \in 1..14
        /\ stage \notin (CreateStage \ {"exit"}) \cup BuildStage
  BY Legs DEF DeleteStage, RemoveStage, CreateStage, BuildStage
<1>4. QED
  BY <1>1, <1>2, <1>3 DEF Stage

\* What is left is never negative.
LEMMA LeftIsTriple ==
  ASSUME NEW stage \in Stage, NEW j \in Job, WithinLoop(stage, j)
  PROVE  <<Leg(stage, j.role), Rounds(stage, j), Calls(stage, j)>> \in Triple
<1>1. /\ j.role \in Role /\ j.n \in Nat /\ j.cps \in Nat /\ j.wps \in Nat /\ j.rounds \in Nat
      /\ j.todo \in Seq(Resource)
  BY DEF Job
<1>2. Len(j.todo) \in Nat
  BY <1>1, EmptyLen
<1>3. Leg(stage, j.role) \in Nat
  BY <1>1, Legs, LegsLeft
<1>4. Rounds(stage, j) \in Nat
  <2>1. CASE stage \in BuildStage
    BY <1>1, <2>1, RoundsInLoops DEF WithinLoop
  <2>2. CASE stage \in CreateStage
    BY <1>1, <2>2, RoundsInLoops DEF WithinLoop, CreateStage, Scripts
  <2>3. CASE stage \in {"idle"} \cup DeleteStage
    BY <2>3, RoundsInLoops DEF DeleteStage
  <2>4. CASE stage \in RemoveStage
    BY <1>1, <2>4, RoundsInLoops
  <2>5. QED
    BY <2>1, <2>2, <2>3, <2>4 DEF Stage
<1>5. Calls(stage, j) \in Nat
  BY <1>2 DEF Calls
<1>6. QED
  BY <1>3, <1>4, <1>5 DEF Triple

\* The step that was made leads to a stage and a job that are closer to the
\* end of the command.
Nearer == WithinLoop(pc', job') /\ Before(Left', Left)

\* A running command, before and after a step.
Running ==
  /\ pc \in Stage /\ pc' \in Stage /\ job \in Job /\ job' \in Job
  /\ pc \in {"build", "wipe", "strip"} => job.todo # << >>
  /\ WithinLoop(pc, job)

LEMMA NextLeg ==
  ASSUME Running, WithinLoop(pc', job'), Leg(pc', job'.role) < Leg(pc, job.role)
  PROVE  Nearer
BY LeftIsTriple DEF Running, Nearer, Before, Left, Triple

LEMMA NextRound ==
  ASSUME Running, WithinLoop(pc', job'), Leg(pc', job'.role) = Leg(pc, job.role),
         Rounds(pc', job') < Rounds(pc, job)
  PROVE  Nearer
BY LeftIsTriple DEF Running, Nearer, Before, Left, Triple

LEMMA NextCall ==
  ASSUME Running, WithinLoop(pc', job'), Leg(pc', job'.role) = Leg(pc, job.role),
         Rounds(pc', job') = Rounds(pc, job), Calls(pc', job') < Calls(pc, job)
  PROVE  Nearer
BY LeftIsTriple DEF Running, Nearer, Before, Left, Triple

\* Outside the loops there is nothing to count.
LEMMA EndsWithin == \A s \in {"idle", "exit", "read", "wipe", "drop"} : \A j : WithinLoop(s, j)
BY DEF WithinLoop, CreateStage, BuildStage, RemoveStage, Scripts

LEMMA ReturnIsNearer ==
  ASSUME Running, pc # "idle", NEW result, Return(result)
  PROVE  Nearer
<1>1. pc' = "idle" /\ job' = NoJob
  BY DEF Return
<1>2. Leg(pc', job'.role) = 0 /\ Leg(pc, job.role) > 0
  BY <1>1, Legs, LegsLeft DEF Running, Job
<1>3. QED
  BY <1>1, <1>2, EndsWithin, NextLeg

\* An error leads to the end of the creation, from wherever it comes.
LEMMA AbortIsNearer ==
  ASSUME Running, pc \in (CreateStage \ {"exit"}) \cup BuildStage, NEW j, Continue("exit", j)
  PROVE  Nearer
<1>1. pc' = "exit" /\ pc # "idle" /\ job'.role \in Role /\ job.role \in Role
  BY DEF Continue, Running, Job, CreateStage, BuildStage
<1>2. Leg(pc', job'.role) = 4 /\ Leg(pc, job.role) > 4
  BY <1>1, Legs, LegsLeft DEF Running
<1>3. QED
  BY <1>1, <1>2, EndsWithin, NextLeg

LEMMA WithinMachines ==
  ASSUME NEW stage \in BuildStage, NEW j,
         j.op = "create" \/ j.role = "wp", j.op = "create" => j.cps >= 3,
         j.role = "cp" => j.n <= j.cps, j.role = "wp" => j.n <= j.wps
  PROVE  WithinLoop(stage, j)
BY DEF WithinLoop, CreateStage, BuildStage, RemoveStage, Scripts

\* The function of a machine goes on, or returns to its caller.
LEMMA MachineIsNearer ==
  ASSUME Running, pc = "build", pc' \in BuildStage,
         job'.op = job.op, job'.role = job.role, job'.n = job.n,
         job'.cps = job.cps, job'.wps = job.wps,
         pc' = "save" \/ Len(job'.todo) < Len(job.todo)
  PROVE  Nearer
<1>1. pc \in BuildStage /\ job.role \in Role /\ job.todo \in Seq(Resource) /\ job.todo # << >>
  BY DEF BuildStage, Running, Job
<1>2. WithinLoop(pc', job')
  <2>1. /\ job.op = "create" \/ job.role = "wp"
        /\ job.op = "create" => job.cps >= 3
        /\ job.role = "cp" => job.n <= job.cps
        /\ job.role = "wp" => job.n <= job.wps
    BY <1>1 DEF Running, WithinLoop
  <2>2. QED
    BY <2>1, WithinMachines
<1>3. Leg(pc', job'.role) = Leg(pc, job.role)
  BY <1>1, Legs, ZenonT(40) DEF Role
<1>4. Rounds(pc', job') = Rounds(pc, job)
  BY <1>1, RoundsInLoops
<1>5. Calls(pc', job') < Calls(pc, job)
  <2>1. Calls(pc, job) = Len(job.todo) /\ Len(job.todo) \in Nat /\ Len(job.todo) # 0
    BY <1>1, CallsInRound, EmptyLen
  <2>2. CASE pc' = "save"
    BY <2>1, <2>2, CallsInRound
  <2>3. CASE pc' = "build"
    BY <2>1, <2>3, CallsInRound
  <2>4. QED
    BY <2>2, <2>3 DEF BuildStage
<1>6. QED
  BY <1>2, <1>3, <1>4, <1>5, NextCall

LEMMA Shorter ==
  ASSUME NEW s \in Seq(Resource), s # << >>
  PROVE  Tail(s) \in Seq(Resource) /\ Len(Tail(s)) < Len(s)
<1>1. Len(s) \in Nat /\ Len(s) # 0
  BY EmptyLen
<1>2. Tail(s) \in Seq(Resource) /\ Len(Tail(s)) = Len(s) - 1
  BY HeadTailProperties
<1>3. QED
  BY <1>1, <1>2

LEMMA BuildIsNearer ==
  ASSUME Running, NEW kind, Build(kind)
  PROVE  Nearer
<1>1. pc = "build" /\ job \in Job /\ job.todo \in Seq(Resource) /\ job.todo # << >>
  BY DEF Running, Job, Build
<1>2. Len(Tail(job.todo)) < Len(job.todo)
  BY <1>1, Shorter
<1> DEFINE j == [job EXCEPT !.mem = Noted(@, Head(job.todo)), !.todo = Tail(job.todo)]
           k == [job EXCEPT !.todo = << >>, !.failed = TRUE]
<1>3. /\ j.op = job.op /\ j.role = job.role /\ j.n = job.n /\ j.cps = job.cps /\ j.wps = job.wps
      /\ j.todo = Tail(job.todo)
      /\ k.op = job.op /\ k.role = job.role /\ k.n = job.n /\ k.cps = job.cps /\ k.wps = job.wps
  BY <1>1 DEF Job
<1>4. Continue(IF Tail(job.todo) = << >> THEN "save" ELSE "build", j) \/ Continue("save", k)
  BY DEF Build
<1> HIDE DEF j, k
<1>5. CASE Continue(IF Tail(job.todo) = << >> THEN "save" ELSE "build", j)
  <2>1. pc' \in {"save", "build"} /\ job' = j
    BY <1>5 DEF Continue
  <2>2. QED
    BY <1>1, <1>2, <1>3, <2>1, MachineIsNearer DEF BuildStage
<1>6. CASE Continue("save", k)
  <2>1. pc' = "save" /\ job' = k
    BY <1>6 DEF Continue
  <2>2. QED
    BY <1>1, <1>3, <2>1, MachineIsNearer DEF BuildStage
<1>7. QED
  BY <1>4, <1>5, <1>6

\* The next machine of the creation, or of add-nodes.
LEMMA BegunWithin ==
  ASSUME NEW j \in Job, NEW r, NEW n, BuildMachine(j, r, n),
         j.op = "create" \/ r = "wp", j.op = "create" => j.cps >= 3,
         r = "cp" => n <= j.cps, r = "wp" => n <= j.wps
  PROVE  /\ pc' = "build" /\ job'.role = r /\ job'.n = n
         /\ job'.cps = j.cps /\ job'.wps = j.wps
         /\ WithinLoop(pc', job')
<1> DEFINE k == [j EXCEPT !.role = r, !.n = n, !.todo = Plan(j.mem, r, n)]
<1>1. pc' = "build" /\ job' = k
  BY DEF BuildMachine, Continue
<1>2. k.role = r /\ k.n = n /\ k.op = j.op /\ k.cps = j.cps /\ k.wps = j.wps
  BY DEF Job
<1> HIDE DEF k
<1>3. WithinLoop(pc', job')
  BY <1>1, <1>2, WithinMachines DEF BuildStage
<1>4. QED
  BY <1>1, <1>2, <1>3

LEMMA SaveMachineIsNearer ==
  ASSUME Running, SaveMachine
  PROVE  Nearer
<1>1. /\ pc = "save" /\ pc \in BuildStage /\ "build" \in BuildStage
      /\ job \in Job /\ job.role \in Role /\ job.n \in Nat /\ job.cps \in Nat /\ job.wps \in Nat
      /\ "cp" \in Role /\ "wp" \in Role /\ "db" \in Role
  BY DEF Running, Job, SaveMachine, BuildStage, Role
<1>2. /\ job.op = "create" \/ job.role = "wp"
      /\ job.op = "create" => job.cps >= 3
      /\ job.role = "cp" => job.n <= job.cps
      /\ job.role = "wp" => job.n <= job.wps
  BY <1>1 DEF Running, WithinLoop
<1>3. CASE job.role = "lb" /\ createDatabase(job)
  <2>1. BuildMachine(job, "db", 0) /\ job.op = "create"
    BY <1>2, <1>3 DEF createDatabase
  <2>2. pc' = "build" /\ job'.role = "db" /\ WithinLoop(pc', job')
    BY <1>1, <1>2, <2>1, BegunWithin
  <2>3. Leg(pc', job'.role) = 10 /\ Leg(pc, job.role) = 11
    BY <1>1, <1>3, <2>2, Legs
  <2>4. QED
    BY <2>2, <2>3, NextLeg
<1>4. CASE job.role = "db" /\ createControlPlane(job, 1)
  <2>1. BuildMachine(job, "cp", 1) /\ job.op = "create" /\ 1 <= job.cps
    BY <1>1, <1>2, <1>4 DEF createControlPlane
  <2>2. pc' = "build" /\ job'.role = "cp" /\ WithinLoop(pc', job')
    BY <1>1, <1>2, <2>1, BegunWithin
  <2>3. Leg(pc', job'.role) = 9 /\ Leg(pc, job.role) = 10
    BY <1>1, <1>4, <2>2, Legs
  <2>4. QED
    BY <2>2, <2>3, NextLeg
<1>5. CASE job.role = "cp" /\ job.n < job.cps /\ createControlPlane(job, job.n + 1)
  <2>1. BuildMachine(job, "cp", job.n + 1) /\ job.op = "create" /\ job.n + 1 <= job.cps
    BY <1>1, <1>2, <1>5 DEF createControlPlane
  <2>2. /\ pc' = "build" /\ job'.role = "cp" /\ job'.n = job.n + 1 /\ job'.cps = job.cps
        /\ WithinLoop(pc', job')
    BY <1>1, <1>2, <2>1, BegunWithin
  <2>3. Leg(pc', job'.role) = Leg(pc, job.role)
    BY <1>1, <1>5, <2>2, Legs
  <2>4. Rounds(pc', job') = job.cps - (job.n + 1) /\ Rounds(pc, job) = job.cps - job.n
    BY <1>1, <1>5, <2>2, RoundsInLoops
  <2>5. QED
    BY <1>1, <2>2, <2>3, <2>4, NextRound
<1>6. CASE job.role = "cp" /\ Continue("config", job)
  <2>1. pc' = "config" /\ job' = job /\ job.op = "create"
    BY <1>2, <1>6 DEF Continue
  <2>2. WithinLoop(pc', job')
    BY <1>2, <2>1 DEF WithinLoop, CreateStage, BuildStage, RemoveStage, Scripts
  <2>3. Leg(pc', job'.role) = 8 /\ Leg(pc, job.role) = 9
    BY <1>1, <1>6, <2>1, Legs
  <2>4. QED
    BY <2>2, <2>3, NextLeg
<1>7. CASE job.role = "wp" /\ job.n < job.wps /\ createWorkerPlane(job, job.n + 1)
  <2>1. BuildMachine(job, "wp", job.n + 1) /\ job.n + 1 <= job.wps
    BY <1>1, <1>7 DEF createWorkerPlane
  <2>2. /\ pc' = "build" /\ job'.role = "wp" /\ job'.n = job.n + 1 /\ job'.wps = job.wps
        /\ WithinLoop(pc', job')
    BY <1>1, <1>2, <2>1, BegunWithin
  <2>3. Leg(pc', job'.role) = Leg(pc, job.role)
    BY <1>1, <1>7, <2>2, Legs
  <2>4. Rounds(pc', job') = job.wps - (job.n + 1) /\ Rounds(pc, job) = job.wps - job.n
    BY <1>1, <1>7, <2>2, RoundsInLoops
  <2>5. QED
    BY <1>1, <2>2, <2>3, <2>4, NextRound
<1>8. CASE \E j : Continue("exit", j)
  BY <1>1, <1>8, AbortIsNearer
<1>9. CASE \E result : Return(result)
  BY <1>1, <1>9, ReturnIsNearer
<1>10. CASE NextMachine(job)
  BY <1>3, <1>4, <1>5, <1>6, <1>7, <1>8, <1>9, <1>10 DEF NextMachine
<1>11. QED
  BY <1>8, <1>9, <1>10 DEF SaveMachine, Abort

LEMMA GroundworkIsNearer ==
  ASSUME Running, CreateResourceGroup \/ CreateSSHKeyPair \/ UploadSSHKey
  PROVE  Nearer
<1>1. pc \in {"group", "keygen", "key"}
  BY DEF CreateResourceGroup, CreateSSHKeyPair, UploadSSHKey
<1>2. /\ pc \in CreateStage \ {"exit"} /\ job \in Job /\ job.role \in Role
      /\ job.op = "create" /\ job.cps >= 3
  BY <1>1 DEF Running, WithinLoop, CreateStage, Job
<1>3. CASE \E j : Abort(j)
  BY <1>2, <1>3, AbortIsNearer DEF Abort
<1>4. ASSUME pc' \in {"keygen", "key"}, job' = job PROVE WithinLoop(pc', job')
  BY <1>2, <1>4 DEF WithinLoop, CreateStage, BuildStage, RemoveStage, Scripts
<1>5. CASE pc = "group" /\ Continue("keygen", job)
  BY <1>2, <1>4, <1>5, Legs, NextLeg DEF Continue
<1>6. CASE pc = "keygen" /\ Continue("key", job)
  BY <1>2, <1>4, <1>6, Legs, NextLeg DEF Continue
<1>7. CASE UploadSSHKey
  <2> DEFINE j == [job EXCEPT !.mem.key = TRUE]
  <2>1. pc = "key" /\ (BuildMachine(j, "lb", 0) \/ Abort(j))
    BY <1>7 DEF UploadSSHKey, createLoadBalancer
  <2>2. j \in Job /\ j.op = "create" /\ j.cps >= 3
    BY <1>2 DEF Job, Config
  <2> HIDE DEF j
  <2>3. CASE BuildMachine(j, "lb", 0)
    <3>1. pc' = "build" /\ job'.role = "lb" /\ WithinLoop(pc', job')
      BY <2>2, <2>3, BegunWithin
    <3>2. Leg(pc', job'.role) = 11 /\ Leg(pc, job.role) = 12
      BY <1>2, <2>1, <3>1, Legs DEF BuildStage
    <3>3. QED
      BY <3>1, <3>2, NextLeg
  <2>4. QED
    BY <1>3, <2>1, <2>3
<1>8. QED
  BY <1>3, <1>5, <1>6, <1>7 DEF CreateResourceGroup, CreateSSHKeyPair

LEMMA ScriptsAreNearer ==
  ASSUME Running, ConfigLoadBalancer \/ ConfigControlPlane \/ GetTokenFromCP1 \/ SaveToken
  PROVE  Nearer
<1>1. pc \in {"config", "script", "token", "saveToken"}
  BY DEF ConfigLoadBalancer, ConfigControlPlane, GetTokenFromCP1, SaveToken
<1>2. /\ pc \in CreateStage \ {"exit"} /\ job.op = "create" /\ job.cps >= 3
      /\ job \in Job /\ job.role \in Role /\ job'.role \in Role /\ job.n \in Nat /\ job.cps \in Nat
      /\ pc # "config" => job.n <= job.cps
      /\ pc \in {"token", "saveToken"} => job.n = 1
  BY <1>1 DEF Running, WithinLoop, CreateStage, Scripts, Job
\* The stages a script goes to.
<1>3. ASSUME NEW t \in {"script", "token", "saveToken", "kubeconfig"}, pc' = t,
             job'.op = "create", job'.cps = job.cps,
             t # "kubeconfig" => job'.n <= job.cps,
             t \in {"token", "saveToken"} => job'.n = 1
      PROVE  WithinLoop(pc', job')
  BY <1>2, <1>3 DEF WithinLoop, CreateStage, BuildStage, RemoveStage, Scripts
<1>4. CASE \E j : Abort(j)
  BY <1>2, <1>4, AbortIsNearer DEF Abort
<1>5. CASE pc = "config" /\ Continue("script", [job EXCEPT !.n = 1])
  <2>1. pc' = "script" /\ job'.op = "create" /\ job'.cps = job.cps /\ job'.n = 1
    BY <1>2, <1>5 DEF Continue, Job
  <2>2. Leg(pc', job'.role) = 7 /\ Leg(pc, job.role) = 8
    BY <1>2, <1>5, <2>1, Legs
  <2>3. WithinLoop(pc', job')
    BY <1>2, <1>3, <2>1
  <2>4. QED
    BY <2>2, <2>3, NextLeg
<1>6. CASE pc = "script" /\ job.n = 1 /\ Continue("token", job)
  <2>1. pc' = "token" /\ job' = job
    BY <1>6 DEF Continue
  <2>2. Leg(pc', job'.role) = Leg(pc, job.role)
    BY <1>2, <1>6, <2>1, Legs
  <2>3. Rounds(pc', job') = Rounds(pc, job)
    BY <1>6, <2>1, RoundsInLoops DEF Scripts
  <2>4. Calls(pc', job') < Calls(pc, job)
    BY <1>6, <2>1, CallsInRound
  <2>5. WithinLoop(pc', job')
    BY <1>2, <1>3, <1>6, <2>1
  <2>6. QED
    BY <2>2, <2>3, <2>4, <2>5, NextCall
<1>7. CASE pc = "script" /\ job.n < job.cps /\ Continue("script", [job EXCEPT !.n = @ + 1])
  <2>1. pc' = "script" /\ job'.op = "create" /\ job'.cps = job.cps /\ job'.n = job.n + 1
    BY <1>2, <1>7 DEF Continue, Job
  <2>2. Leg(pc', job'.role) = Leg(pc, job.role)
    BY <1>2, <1>7, <2>1, Legs
  <2>3. Rounds(pc', job') = job.cps - (job.n + 1) /\ Rounds(pc, job) = job.cps - job.n
    BY <1>7, <2>1, RoundsInLoops DEF Scripts
  <2>4. WithinLoop(pc', job')
    BY <1>2, <1>3, <1>7, <2>1
  <2>5. QED
    BY <1>2, <2>2, <2>3, <2>4, NextRound
<1>8. CASE pc = "script" /\ Continue("kubeconfig", job)
  <2>1. pc' = "kubeconfig" /\ job' = job
    BY <1>8 DEF Continue
  <2>2. Leg(pc', job'.role) = 6 /\ Leg(pc, job.role) = 7
    BY <1>2, <1>8, <2>1, Legs
  <2>3. WithinLoop(pc', job')
    BY <1>2, <1>3, <2>1
  <2>4. QED
    BY <2>2, <2>3, NextLeg
<1>9. CASE pc = "token" /\ \E b \in {TRUE, job.mem.token} : Continue("saveToken", [job EXCEPT !.mem.token = b])
  <2>1. /\ pc' = "saveToken" /\ job'.op = "create" /\ job'.cps = job.cps /\ job'.n = job.n
        /\ job'.role = job.role
    BY <1>2, <1>9 DEF Continue, Job
  <2>2. Leg(pc', job'.role) = Leg(pc, job.role)
    BY <1>2, <1>9, <2>1, Legs
  <2>3. Rounds(pc', job') = Rounds(pc, job)
    BY <1>9, <2>1, RoundsInLoops DEF Scripts
  <2>4. Calls(pc', job') < Calls(pc, job)
    BY <1>9, <2>1, CallsInRound
  <2>5. WithinLoop(pc', job')
    BY <1>2, <1>3, <1>9, <2>1
  <2>6. QED
    BY <2>2, <2>3, <2>4, <2>5, NextCall
<1>10. CASE SaveToken
  <2>1. pc = "saveToken" /\ (Continue("script", [job EXCEPT !.n = 2]) \/ Abort(job))
    BY <1>10 DEF SaveToken
  <2>2. CASE Continue("script", [job EXCEPT !.n = 2])
    <3>1. pc' = "script" /\ job'.op = "create" /\ job'.cps = job.cps /\ job'.n = 2
      BY <1>2, <2>2 DEF Continue, Job
    <3>2. Leg(pc', job'.role) = Leg(pc, job.role)
      BY <1>2, <2>1, <3>1, Legs
    <3>3. Rounds(pc', job') = job.cps - 2 /\ Rounds(pc, job) = job.cps - job.n /\ job.n = 1
      BY <1>2, <2>1, <3>1, RoundsInLoops DEF Scripts
    <3>4. WithinLoop(pc', job')
      BY <1>2, <1>3, <3>1
    <3>5. QED
      BY <1>2, <3>2, <3>3, <3>4, NextRound
  <2>3. QED
    BY <1>4, <2>1, <2>2
<1>11. CASE ConfigLoadBalancer
  BY <1>4, <1>5, <1>11 DEF ConfigLoadBalancer
<1>12. CASE ConfigControlPlane
  BY <1>4, <1>6, <1>7, <1>8, <1>12 DEF ConfigControlPlane
<1>13. CASE GetTokenFromCP1
  <2>1. job = [job EXCEPT !.mem.token = job.mem.token]
    BY <1>2 DEF Job, Config
  <2>2. QED
    BY <1>4, <1>9, <1>13, <2>1 DEF GetTokenFromCP1
<1>14. QED
  BY <1>10, <1>11, <1>12, <1>13

LEMMA SaveKubeconfigIsNearer ==
  ASSUME Running, SaveKubeconfig
  PROVE  Nearer
<1>1. /\ pc = "kubeconfig" /\ pc \in CreateStage \ {"exit"}
      /\ job \in Job /\ job.role \in Role /\ job.wps \in Nat
  BY DEF Running, SaveKubeconfig, CreateStage, Job
<1>2. job.op = "create" /\ job.cps >= 3
  BY <1>1 DEF Running, WithinLoop
<1>3. CASE \E j : Continue("exit", j)
  BY <1>1, <1>3, AbortIsNearer
<1>4. CASE job.wps > 0 /\ createWorkerPlane(job, 1)
  <2>1. BuildMachine(job, "wp", 1) /\ 1 <= job.wps
    BY <1>1, <1>4 DEF createWorkerPlane
  <2>2. pc' = "build" /\ job'.role = "wp" /\ WithinLoop(pc', job')
    BY <1>1, <1>2, <2>1, BegunWithin
  <2>3. Leg(pc', job'.role) = 5 /\ Leg(pc, job.role) = 6
    BY <1>1, <2>2, Legs DEF BuildStage
  <2>4. QED
    BY <2>2, <2>3, NextLeg
<1>5. QED
  BY <1>3, <1>4 DEF SaveKubeconfig, Abort

LEMMA ReturnFromCreateIsNearer ==
  ASSUME Running, ReturnFromCreate
  PROVE  Nearer
<1>1. pc = "exit" /\ job \in Job /\ job.role \in Role
  BY DEF Running, ReturnFromCreate, Job
<1>2. CASE Continue("read", job)
  <2>1. pc' = "read" /\ job' = job
    BY <1>2 DEF Continue
  <2>2. Leg(pc', job'.role) = 3 /\ Leg(pc, job.role) = 4
    BY <1>1, <2>1, Legs
  <2>3. QED
    BY <2>1, <2>2, EndsWithin, NextLeg
<1>3. CASE Return("created")
  BY <1>1, <1>3, ReturnIsNearer
<1>4. QED
  BY <1>2, <1>3 DEF ReturnFromCreate

LEMMA WipeIsNearer ==
  ASSUME Running, NEW kind, NEW stage \in {"wipe", "drop"}, Wipe(kind, stage)
  PROVE  Nearer
<1>1. /\ pc = "wipe" /\ job \in Job /\ job.role \in Role
      /\ job.todo \in Seq(Resource) /\ job.todo # << >>
  BY DEF Running, Wipe, Job
<1>2. Len(Tail(job.todo)) < Len(job.todo)
  BY <1>1, Shorter
<1>3. CASE Continue(stage, [job EXCEPT !.todo = Tail(@)])
  <2>1. pc' = stage /\ job'.todo = Tail(job.todo) /\ job'.role = job.role
    BY <1>1, <1>3 DEF Continue, Job
  <2>2. WithinLoop(pc', job')
    BY <2>1, EndsWithin
  <2>3. CASE stage = "drop"
    <3>1. Leg(pc', job'.role) = 1 /\ Leg(pc, job.role) = 2
      BY <1>1, <2>1, <2>3, Legs
    <3>2. QED
      BY <2>2, <3>1, NextLeg
  <2>4. CASE stage = "wipe"
    <3>1. Leg(pc', job'.role) = Leg(pc, job.role) /\ Rounds(pc', job') = Rounds(pc, job)
      BY <1>1, <2>1, <2>4, RoundsInLoops
    <3>2. Calls(pc', job') < Calls(pc, job)
      BY <1>1, <1>2, <2>1, <2>4, CallsInRound
    <3>3. QED
      BY <2>2, <3>1, <3>2, NextCall
  <2>5. QED
    BY <2>3, <2>4
<1>4. CASE Return("failed")
  BY <1>1, <1>4, ReturnIsNearer
<1>5. QED
  BY <1>3, <1>4 DEF Wipe

LEMMA DeleteIsNearer ==
  ASSUME Running, DeleteStep
  PROVE  Nearer
<1>1. CASE ConfigReader
  <2>1. pc = "read" /\ job \in Job /\ job.role \in Role /\ job'.role \in Role
    BY <1>1 DEF Running, ConfigReader, Job
  <2>2. CASE Return("failed")
    BY <2>1, <2>2, ReturnIsNearer
  <2>3. CASE pc' = "wipe"
    <3>1. Leg(pc', job'.role) = 2 /\ Leg(pc, job.role) = 3
      BY <2>1, <2>3, Legs
    <3>2. QED
      BY <2>3, <3>1, EndsWithin, NextLeg
  <2>4. QED
    BY <1>1, <2>2, <2>3 DEF ConfigReader, Continue
<1>2. CASE RemoveAll
  BY <1>2, ReturnIsNearer DEF RemoveAll
<1>3. CASE \E kind : Wipe(kind, "wipe") \/ Wipe(kind, "drop")
  BY <1>3, WipeIsNearer
<1>4. QED
  BY <1>1, <1>2, <1>3
     DEF DeleteStep, DeleteAllVMs, DeleteAllDisks, DeleteAllNetworkInterface, DeleteAllNSG,
         DeleteAllPublicIP, DeleteSubnet, DeleteVirtualNetwork, DeleteSSHKeyPair, DeleteResourceGroup

\* What DeleteSomeWorkerNodes goes on with.
LEMMA WithinRemoval ==
  ASSUME NEW stage \in RemoveStage, NEW j, j.rounds >= 1
  PROVE  WithinLoop(stage, j)
BY DEF WithinLoop, CreateStage, BuildStage, RemoveStage, Scripts

LEMMA StripWorkerIsNearer ==
  ASSUME Running, NEW kind, StripWorker(kind)
  PROVE  Nearer
<1>1. /\ pc = "strip" /\ pc \in RemoveStage /\ job \in Job /\ job.role \in Role
      /\ job.todo \in Seq(Resource) /\ job.todo # << >>
  BY DEF Running, StripWorker, Job, RemoveStage
<1>2. job.rounds >= 1
  BY <1>1 DEF Running, WithinLoop
<1>3. Len(Tail(job.todo)) < Len(job.todo) /\ Len(job.todo) \in Nat /\ Len(job.todo) # 0
  BY <1>1, Shorter, EmptyLen
<1>4. CASE Continue(IF Tail(job.todo) = << >> THEN "trim" ELSE "strip", [job EXCEPT !.todo = Tail(job.todo)])
  <2>1. /\ pc' \in RemoveStage /\ job'.todo = Tail(job.todo) /\ job'.role = job.role
        /\ job'.rounds = job.rounds
    BY <1>1, <1>4 DEF Continue, Job, RemoveStage
  <2>2. WithinLoop(pc', job')
    BY <1>2, <2>1, WithinRemoval
  <2>3. Leg(pc', job'.role) = Leg(pc, job.role)
    BY <1>1, <2>1, Legs DEF RemoveStage
  <2>4. Rounds(pc', job') = Rounds(pc, job)
    BY <1>1, <2>1, RoundsInLoops
  <2>5. Calls(pc', job') < Calls(pc, job)
    <3>1. Calls(pc, job) = Len(job.todo)
      BY <1>1, CallsInRound
    <3>2. CASE pc' = "trim"
      BY <1>3, <3>1, <3>2, CallsInRound
    <3>3. CASE pc' = "strip"
      BY <1>3, <2>1, <3>1, <3>3, CallsInRound
    <3>4. QED
      BY <2>1, <3>2, <3>3 DEF RemoveStage
  <2>6. QED
    BY <2>2, <2>3, <2>4, <2>5, NextCall
<1>5. CASE Return("failed")
  BY <1>1, <1>5, ReturnIsNearer
<1>6. QED
  BY <1>4, <1>5 DEF StripWorker

LEMMA TrimWorkerIsNearer ==
  ASSUME Running, TrimWorker
  PROVE  Nearer
<1>1. pc = "trim" /\ pc \in RemoveStage /\ job \in Job /\ job.role \in Role /\ job.rounds \in Nat
  BY DEF Running, TrimWorker, Job, RemoveStage
<1>2. job.rounds >= 1
  BY <1>1 DEF Running, WithinLoop
<1>3. CASE \E result : Return(result)
  BY <1>1, <1>3, ReturnIsNearer
<1>4. CASE job.rounds # 1
           /\ Continue("strip", [job EXCEPT !.mem = Trimmed(job.mem), !.rounds = @ - 1,
                                            !.todo = Strip(Trimmed(job.mem))])
  <2>1. pc' = "strip" /\ pc' \in RemoveStage /\ job'.role = job.role /\ job'.rounds = job.rounds - 1
    BY <1>1, <1>4 DEF Continue, Job, RemoveStage
  <2>2. WithinLoop(pc', job')
    <3>1. job'.rounds >= 1
      BY <1>1, <1>2, <1>4, <2>1
    <3>2. QED
      BY <2>1, <3>1, WithinRemoval
  <2>3. Leg(pc', job'.role) = Leg(pc, job.role)
    BY <1>1, <2>1, Legs
  <2>4. Rounds(pc', job') = job.rounds - 1 /\ Rounds(pc, job) = job.rounds
    BY <1>1, <2>1, RoundsInLoops
  <2>5. QED
    BY <1>1, <2>2, <2>3, <2>4, NextRound
<1>5. QED
  BY <1>3, <1>4 DEF TrimWorker

LEMMA StepIsNearer ==
  ASSUME Running, Step
  PROVE  Nearer
<1>1. CASE BuildStep
  BY <1>1, BuildIsNearer, SaveMachineIsNearer
     DEF BuildStep, CreateVirtualNetwork, CreateSubnet, CreatePublicIP, CreateNSG,
         CreateNetworkInterface, CreateVM
<1>2. CASE CreateStep
  BY <1>2, GroundworkIsNearer, ScriptsAreNearer, SaveKubeconfigIsNearer, ReturnFromCreateIsNearer
     DEF CreateStep
<1>3. CASE RemoveStep
  BY <1>3, StripWorkerIsNearer, TrimWorkerIsNearer
     DEF RemoveStep, DeleteVM, DeleteDisk, DeleteNetworkInterface, DeletePublicIP
<1>4. QED
  BY <1>1, <1>2, <1>3, DeleteIsNearer DEF Step

LEMMA StartsWithin ==
  ASSUME TypeOK, WithinLoop(pc, job), User
  PROVE  WithinLoop(pc', job')
<1>1. ASSUME Refuse PROVE WithinLoop(pc', job')
  BY <1>1 DEF Refuse, vars
<1>2. /\ NoJob \in Job /\ Info \in Config /\ Len(Info.nodes["wp"]) \in Nat
      /\ CPCounts \subseteq Nat /\ WPCounts \subseteq Nat
  <2>1. Info \in Config /\ EmptyConfig \in Config
    BY EmptyIsRecord DEF TypeOK, Disk, Record, Info
  <2>2. << >> \in Seq(Resource) /\ "lb" \in Role
    BY EmptySeq DEF Role
  <2>3. NoJob \in Job
    BY <2>1, <2>2 DEF NoJob, Job
  <2>4. Info.nodes["wp"] \in Seq(Nat)
    BY <2>1 DEF Config, Role
  <2>5. QED
    BY <2>1, <2>3, <2>4, CountsAssumption, EmptyLen
<1>3. CASE StartCreate
  <2>1. PICK cps \in CPCounts, wps \in WPCounts :
          \/ Refuse
          \/ /\ IsValidNoOfControlPlanes(cps)
             /\ Begin("group", [NoJob EXCEPT !.op = "create", !.cps = cps, !.wps = wps])
    BY <1>3 DEF StartCreate
  <2>2. CASE /\ IsValidNoOfControlPlanes(cps)
             /\ Begin("group", [NoJob EXCEPT !.op = "create", !.cps = cps, !.wps = wps])
    <3>1. pc' = "group" /\ job'.op = "create" /\ job'.cps >= 3
      BY <1>2, <2>2 DEF Begin, Job, IsValidNoOfControlPlanes
    <3>2. QED
      BY <3>1 DEF WithinLoop, CreateStage, BuildStage, RemoveStage, Scripts
  <2>3. QED
    BY <1>1, <2>1, <2>2
<1>4. CASE StartDelete
  <2>1. Refuse \/ pc' = "read"
    BY <1>4 DEF StartDelete, Begin
  <2>2. QED
    BY <1>1, <2>1, EndsWithin
<1>5. CASE StartAdd
  <2> DEFINE base == Len(Info.nodes["wp"])
  <2>1. PICK k \in WPCounts \ {0} :
          \/ Refuse
          \/ Begin("build", [NoJob EXCEPT !.op = "add", !.mem = Info, !.role = "wp", !.n = base + 1,
                                          !.wps = base + k, !.todo = Plan(Info, "wp", base + 1)])
    BY <1>5 DEF StartAdd
  <2>2. k \in Nat /\ k # 0 /\ base \in Nat
    BY <1>2
  <2> HIDE DEF base
  <2>3. CASE Begin("build", [NoJob EXCEPT !.op = "add", !.mem = Info, !.role = "wp", !.n = base + 1,
                                          !.wps = base + k, !.todo = Plan(Info, "wp", base + 1)])
    <3>1. pc' = "build" /\ job'.op = "add" /\ job'.role = "wp" /\ job'.n = base + 1 /\ job'.wps = base + k
      BY <1>2, <2>3 DEF Begin, Job
    <3>2. job'.n <= job'.wps
      BY <2>2, <3>1
    <3>3. QED
      BY <3>1, <3>2, WithinMachines DEF BuildStage
  <2>4. QED
    BY <1>1, <2>1, <2>3
<1>6. CASE StartRemove
  <2>1. PICK k \in WPCounts \ {0} :
          \/ Refuse
          \/ Begin("strip", [NoJob EXCEPT !.op = "remove", !.mem = Info, !.rounds = k, !.todo = Strip(Info)])
    BY <1>6 DEF StartRemove
  <2>2. CASE Begin("strip", [NoJob EXCEPT !.op = "remove", !.mem = Info, !.rounds = k, !.todo = Strip(Info)])
    <3>1. pc' = "strip" /\ job'.rounds = k /\ k \in Nat /\ k # 0
      BY <1>2, <2>2 DEF Begin, Job
    <3>2. QED
      BY <3>1, WithinRemoval DEF RemoveStage
  <2>3. QED
    BY <1>1, <2>1, <2>2
<1>7. QED
  BY <1>3, <1>4, <1>5, <1>6 DEF User

LEMMA TypedIsRunning == TypeOK /\ TypeOK' /\ WithinLoop(pc, job) => Running
BY DEF TypeOK, Running

\* Every call, whatever becomes of it, brings the command closer to its end,
\* in an order in which nothing can come closer for ever (NoEndlessDescent):
\* however many machines there are and however many calls fail, a command
\* makes finitely many calls.
THEOREM AzureCallsComeToAnEnd == Spec => CallsCountDown
<1>1. Init => WithinLoop(pc, job)
  BY EndsWithin DEF Init
<1>2. ASSUME TypeOK, TypeOK', WithinLoop(pc, job), [Next]_vars PROVE WithinLoop(pc', job')
  <2>1. CASE Step
    BY <1>2, <2>1, TypedIsRunning, StepIsNearer DEF Nearer
  <2>2. CASE User
    BY <1>2, <2>2, StartsWithin
  <2>3. CASE Crash
    BY <2>3, EndsWithin DEF Crash, Return
  <2>4. CASE UNCHANGED vars
    BY <1>2, <2>4 DEF vars
  <2>5. QED
    BY <1>2, <2>1, <2>2, <2>3, <2>4 DEF Next
<1>3. TypeOK /\ TypeOK' /\ WithinLoop(pc, job) => [Step => Before(Left', Left)]_vars
  BY TypedIsRunning, StepIsNearer DEF Nearer
<1>4. TypeOK /\ TypeOK' /\ WithinLoop(pc, job) /\ [Next]_vars => WithinLoop(pc, job)'
  BY <1>2
<1>5. QED
  BY <1>1, <1>3, <1>4, AzureTyped, PTL DEF Spec, CallsCountDown
=============================================================================
