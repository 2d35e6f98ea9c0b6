--------------------------- MODULE ResourceLedger ---------------------------
(***************************************************************************)
(* What a tool that owns paid resources promises: it keeps a durable       *)
(* ledger of them, deletes only what is on the ledger, and strikes off     *)
(* only what is gone.  A resource whose creation was answered is held in   *)
(* memory until the ledger is written; what is held can be lost.           *)
(***************************************************************************)
EXTENDS Naturals

CONSTANTS IDs, Outsiders

VARIABLES
  live,    \* the resources that exist
  ledger,  \* the resources that the durable record names
  held     \* known to the running process, not on the ledger

ledgerVars == <<live, ledger, held>>

LedgerTypeOK == live \subseteq IDs /\ ledger \subseteq IDs /\ held \subseteq IDs

LedgerInit == live = {} /\ ledger = {} /\ held = {}

\* A new resource, known to the process.
Acquire ==
  /\ \E id \in IDs \ (live \cup ledger \cup held) :
       live' = live \cup {id} /\ held' = held \cup {id}
  /\ UNCHANGED ledger

\* A new resource that the process does not hear of; it may give up.
AcquireUnheard ==
  /\ \E id \in IDs \ (live \cup ledger \cup held) : live' = live \cup {id}
  /\ held' \in {held, {}}
  /\ UNCHANGED ledger

\* One write of the ledger names everything that is held.
Commit ==
  /\ ledger' = ledger \cup held
  /\ held' = {}
  /\ UNCHANGED live

\* The process deletes a resource: only one of the ledger.
Release ==
  /\ \E id \in live \cap ledger : live' = live \ {id}
  /\ UNCHANGED <<ledger, held>>

\* Entries are struck off: only dead ones.
Strike ==
  /\ ledger' \in SUBSET ledger
  /\ (ledger \ ledger') \cap live = {}
  /\ UNCHANGED <<live, held>>

\* The process ends, and with it what it held.
Abandon == held' = {} /\ UNCHANGED <<live, ledger>>

\* Somebody else deletes a resource.
Vanish ==
  /\ Outsiders
  /\ \E id \in live : live' = live \ {id}
  /\ UNCHANGED <<ledger, held>>

LedgerNext ==
  Acquire \/ AcquireUnheard \/ Commit \/ Release \/ Strike \/ Abandon \/ Vanish

LedgerSpec == LedgerInit /\ [][LedgerNext]_ledgerVars
=============================================================================
