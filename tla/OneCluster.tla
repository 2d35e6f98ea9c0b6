----------------------------- MODULE OneCluster -----------------------------
(***************************************************************************)
(* What the providers' commands on one managed cluster have in common: one *)
(* command at a time, the cluster's directory on the local disk, and what  *)
(* can go wrong.                                                           *)
(***************************************************************************)
EXTENDS Naturals

CONSTANTS
  MaxFaults,  \* bound: how many faults happen
  Faults      \* which faults may happen

FaultKind ==
  {"api",    \* a call to the provider fails without an effect
   "lost",   \* a call to the provider takes effect and reports an error
   "disk",   \* a file cannot be written, or not to its end
   "crash"}  \* the process is killed

ASSUME BoundsAssumption == MaxFaults \in Nat
ASSUME FaultsAssumption == Faults \subseteq FaultKind

VARIABLES
  live,     \* what exists of the cluster
  disk,     \* the cluster's directory
  pc,       \* what the running command does next, "idle" between commands
  op,       \* the running command
  outcome,  \* how the last command that was not refused ended
  seen,     \* history: the kinds of fault that happened
  hits      \* history: how many

vars == <<live, disk, pc, op, outcome, seen, hits>>

\* The state file (info.json or info) and the kubeconfig (config).
Disk ==
  [file : {"absent", "torn", "saved"}, kubeconfig : {"none", "empty", "full"}]

EmptyDisk == [file |-> "absent", kubeconfig |-> "none"]

\* "abort" is the clean-up of a creation that panics when it is over.
Op == {"none", "create", "delete", "abort"}

Outcome == {"none", "created", "deleted", "failed", "panic", "crashed"}

isPresent == disk.file # "absent"

Hit(f) ==
  /\ f \in Faults /\ hits < MaxFaults
  /\ seen' = seen \cup {f}
  /\ hits' = hits + 1

NoHit == UNCHANGED <<seen, hits>>

Begin(stage, o) ==
  /\ pc = "idle" /\ pc' = stage
  /\ op' = o /\ outcome' = "none"
  /\ NoHit /\ UNCHANGED <<live, disk>>

Continue(stage) == pc' = stage /\ UNCHANGED <<op, outcome>>
Return(result)  == pc' = "idle" /\ op' = "none" /\ outcome' = result

\* The end of a deletion, or of the clean-up of a creation.
ReturnFromDelete(result) ==
  Return(IF op = "delete" THEN result ELSE IF op = "abort" THEN "panic" ELSE "failed")

\* A command that ends before it has done anything.
Refuse == pc = "idle" /\ UNCHANGED vars

\* What a RemoveAll of the directory that is interrupted leaves behind.
PartlyRemoved ==
  {[file |-> f, kubeconfig |-> c] : f \in {disk.file, "absent"}, c \in {disk.kubeconfig, "none"}}

RemoveAll ==
  /\ pc = "drop"
  /\ \/ disk' = EmptyDisk /\ NoHit /\ ReturnFromDelete("deleted")
     \/ Hit("disk") /\ disk' \in PartlyRemoved /\ ReturnFromDelete("failed")
  /\ UNCHANGED live

\* The process is killed; Torn are the states a write leaves behind that was
\* under way.
Killed(Torn) ==
  /\ pc # "idle"
  /\ Hit("crash")
  /\ disk' \in {disk} \cup Torn \cup (IF pc = "drop" THEN PartlyRemoved ELSE {})
  /\ Return("crashed")
  /\ UNCHANGED live
=============================================================================
