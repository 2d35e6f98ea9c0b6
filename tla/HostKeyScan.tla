---------------------------- MODULE HostKeyScan ----------------------------
(***************************************************************************)
(* returnServerPublicKeys (src/api/utils/main.go): what "ssh-keyscan |     *)
(* ssh-keygen -lf -" says of a host.  The two processes are joined by an   *)
(* io.Pipe, which has no buffer; os/exec runs one goroutine that copies    *)
(* the first one's output into it and one that feeds the second one from   *)
(* it.  The function waits for them in turn.                               *)
(***************************************************************************)
EXTENDS Naturals

VARIABLES
  host,     \* "down" until sshd runs, then the host key it has
  scan,     \* the running call
  expected  \* what the last call returned: a fingerprint or nothing

scanVars == <<host, scan, expected>>

HostKey == {"key1", "key2"}

\* at is where the function is; c1 and c2 are the processes; line is where
\* the one line that ssh-keyscan prints is, and key what it says; open
\* whether w is not closed yet.
Scan ==
  [at   : {"off", "start1", "start2", "wait1", "close", "wait2"},
   c1   : {"none", "running", "ok", "failed"},
   c2   : {"none", "running", "ok", "failed"},
   line : {"none", "printed", "inPipe", "fed"},
   key  : HostKey \cup {"nothing"},
   open : BOOLEAN]

NoScan ==
  [at |-> "off", c1 |-> "none", c2 |-> "none", line |-> "none", key |-> "nothing", open |-> TRUE]

NewScan == [NoScan EXCEPT !.at = "start1"]

ScanTypeOK ==
  /\ host \in HostKey \cup {"down"}
  /\ scan \in Scan
  /\ expected \in HostKey \cup {"nothing"}

At(stage) == scan.at = stage

\* The function returns; whatever still runs is left to itself.
Answer(fingerprint) == scan' = NoScan /\ expected' = fingerprint

\* Every error is swallowed: the fingerprint is then empty.
StartScanner ==
  /\ At("start1")
  /\ \/ scan' = [scan EXCEPT !.at = "start2", !.c1 = "running"] /\ UNCHANGED expected
     \/ Answer("nothing")
  /\ UNCHANGED host

StartFingerprinter ==
  /\ At("start2")
  /\ \/ scan' = [scan EXCEPT !.at = "wait1", !.c2 = "running"] /\ UNCHANGED expected
     \/ Answer("nothing")
  /\ UNCHANGED host

\* c1.Wait: the process has ended and its output has been copied.
WaitScanner ==
  /\ At("wait1")
  /\ scan.line \notin {"printed", "inPipe"}
  /\ \/ scan.c1 = "ok" /\ scan' = [scan EXCEPT !.at = "close"] /\ UNCHANGED expected
     \/ scan.c1 = "failed" /\ Answer("nothing")
  /\ UNCHANGED host

\* Mutant: w is not closed.
CloseForgotten ==
  /\ At("close")
  /\ scan' = [scan EXCEPT !.at = "wait2"]
  /\ UNCHANGED <<host, expected>>

CloseWriter ==
  /\ At("close")
  /\ scan' = [scan EXCEPT !.at = "wait2", !.open = FALSE]
  /\ UNCHANGED <<host, expected>>

\* The feeding goroutine ends with the end of the pipe, or when the process
\* it feeds is gone.
FeederDone == ~scan.open \/ (scan.line = "fed" /\ scan.c2 # "running")

WaitFingerprinter ==
  /\ At("wait2")
  /\ FeederDone
  /\ \/ scan.c2 = "ok" /\ Answer(scan.key)
     \/ scan.c2 = "failed" /\ Answer("nothing")
  /\ UNCHANGED host

\* ssh-keyscan gives up on a host that does not answer, which is an error in
\* some of its versions.
Scanner ==
  /\ scan.c1 = "running"
  /\ \/ host # "down" /\ scan' = [scan EXCEPT !.c1 = "ok", !.line = "printed", !.key = host]
     \/ \E status \in {"ok", "failed"} : scan' = [scan EXCEPT !.c1 = status]
  /\ UNCHANGED <<host, expected>>

Copier ==
  /\ scan.line = "printed"
  /\ scan' = [scan EXCEPT !.line = "inPipe"]
  /\ UNCHANGED <<host, expected>>

Feeder ==
  /\ scan.line = "inPipe" /\ scan.c2 # "none"
  /\ scan' = [scan EXCEPT !.line = "fed"]
  /\ UNCHANGED <<host, expected>>

\* ssh-keygen reads to the end of its input.
Fingerprinter ==
  /\ scan.c2 = "running"
  /\ ~scan.open /\ scan.line # "inPipe"
  /\ scan' = [scan EXCEPT !.c2 = IF scan.line = "fed" THEN "ok" ELSE "failed"]
  /\ UNCHANGED <<host, expected>>

FingerprinterDies ==
  /\ scan.c2 = "running"
  /\ scan' = [scan EXCEPT !.c2 = "failed"]
  /\ UNCHANGED <<host, expected>>

\* The function itself.
Caller ==
  StartScanner \/ StartFingerprinter \/ WaitScanner \/ CloseWriter \/ WaitFingerprinter
=============================================================================
