-------------------------- MODULE ClusterLifecycle --------------------------
(***************************************************************************)
(* What the commands of every provider promise about one cluster: ksctl    *)
(* forgets it (its state file goes) only when nothing of it exists any     *)
(* more, and a command does not end with something that exists and no      *)
(* state file, unless something outside ksctl is to blame.                 *)
(***************************************************************************)
VARIABLES
  busy,    \* a command is running
  exists,  \* something of the cluster exists
  known,   \* there is a state file
  blame    \* something happened that ksctl does not recover from

vars == <<busy, exists, known, blame>>

TypeOK == {busy, exists, known, blame} \subseteq BOOLEAN

Blamed == blame' \in {blame, TRUE}

Start == ~busy /\ busy' = TRUE /\ UNCHANGED <<exists, known, blame>>

\* Something is created or deleted.
Work == busy /\ exists' \in BOOLEAN /\ Blamed /\ UNCHANGED <<busy, known>>

Record == busy /\ known' = TRUE /\ Blamed /\ UNCHANGED <<busy, exists>>

Forget == busy /\ ~exists /\ known' = FALSE /\ busy' \in BOOLEAN /\ Blamed /\ UNCHANGED exists

\* The command ends, perhaps with a last change of its own.
End ==
  /\ busy /\ busy' = FALSE
  /\ exists' \in BOOLEAN
  /\ known' \in {known, TRUE}
  /\ Blamed
  /\ exists' => known' \/ blame'

Init == ~busy /\ ~exists /\ ~known /\ ~blame

Next == Start \/ Work \/ Record \/ Forget \/ End

Spec == Init /\ [][Next]_vars
=============================================================================
