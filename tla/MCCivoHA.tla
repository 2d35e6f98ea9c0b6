------------------------------- MODULE MCCivoHA -------------------------------
(***************************************************************************)
(* Values for the constants of CivoHA.  The cloud hands out the least free *)
(* identifier: any other choice gives the same behaviours up to renaming.  *)
(***************************************************************************)
EXTENDS CivoHAClaims, CivoHALedger, CivoHAProgress

CONSTANT NumIDs

MCIDs == 1..NumIDs
LeastFree(S) == {i \in MCIDs \ S : \A j \in 1..(i - 1) : j \in S}

AllBlocking == {"firewall"} \cup Role

=============================================================================
