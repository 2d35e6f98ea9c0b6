------------------------------ MODULE Countdown ------------------------------
(***************************************************************************)
(* The lexicographic order of triples of natural numbers: what is left of  *)
(* a command that works through lists inside lists.                        *)
(***************************************************************************)
EXTENDS Naturals

Triple == Nat \X Nat \X Nat

Before(a, b) ==
  /\ a \in Triple /\ b \in Triple
  /\ \/ a[1] < b[1]
     \/ a[1] = b[1] /\ a[2] < b[2]
     \/ a[1] = b[1] /\ a[2] = b[2] /\ a[3] < b[3]
=============================================================================
