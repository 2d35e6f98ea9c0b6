----------------------------- MODULE SSHExecute -----------------------------
(***************************************************************************)
(* SSHExecute (src/api/utils/main.go): one script after another is run on  *)
(* a machine that has just been ordered and may still be booting, and its  *)
(* callers (FetchKUBECONFIG, GetTokenFromCP_1 and their likes) take the    *)
(* output from the payload they all share.                                 *)
(***************************************************************************)
EXTENDS HostKeyScan

CONSTANTS
  Script,         \* the scripts
  WithOutput,     \* those whose output the caller wants
  MaxRetryCount   \* MAX_RETRY_COUNT

ASSUME ScriptAssumption == WithOutput \subseteq Script
ASSUME RetryAssumption == MaxRetryCount \in Nat \ {0}

VARIABLES
  pc,      \* what the running call does next, "idle" between calls
  script,  \* the script of the running or the last call
  tries,   \* currRetryCounter
  conn,    \* the host key of the connection, "nothing" for a nil client
  output,  \* SSHPayload.Output
  result,  \* what the last call returned, and the output its caller took
  runs,    \* how often the running or last call has started its script
  ended    \* whether that script ran to its end

callVars == <<pc, script, tries, conn, output, result, runs, ended>>
vars     == <<scanVars, callVars>>

\* What a script printed, to its end or not; or nothing.
Output == [of : Script \cup {"none"}, whole : BOOLEAN]

NoOutput == [of |-> "none", whole |-> FALSE]

Result == [status : {"none", "ok", "error", "couldn't retry"}, output : Output]

NoResult == [status |-> "none", output |-> NoOutput]

Stage == {"idle", "key", "dial", "callback", "again", "session", "run", "done", "broken"}

TypeOK ==
  /\ ScanTypeOK
  /\ pc \in Stage
  /\ script \in Script
  /\ tries \in 0..MaxRetryCount
  /\ conn \in HostKey \cup {"nothing"}
  /\ output \in Output
  /\ result \in Result
  /\ runs \in Nat /\ ended \in BOOLEAN
  /\ At("off") \/ pc = "callback"

\* The caller drops the output of a call that failed.
Return(status) ==
  /\ pc' = "idle"
  /\ result' = [status |-> status, output |-> IF status = "ok" THEN output ELSE NoOutput]

\* The caller empties the output.
Call ==
  /\ pc = "idle"
  /\ script' \in Script
  /\ output' = NoOutput
  /\ tries' = 0 /\ conn' = "nothing" /\ runs' = 0 /\ ended' = FALSE
  /\ pc' = "key" /\ result' = NoResult
  /\ UNCHANGED scanVars

\* The private key's file, and signerFromPem.
ReadKey ==
  /\ pc = "key"
  /\ \/ pc' = "dial" /\ UNCHANGED result
     \/ Return("error")
  /\ UNCHANGED <<scanVars, script, tries, conn, output, runs, ended>>

\* The host answers and its key is looked at, or the attempt fails.
Dial ==
  /\ pc = "dial"
  /\ \/ /\ host # "down"
        /\ pc' = "callback" /\ conn' = host /\ scan' = NewScan
     \/ pc' = "again" /\ UNCHANGED <<conn, scan>>
  /\ UNCHANGED <<host, expected, script, tries, output, result, runs, ended>>

\* Mutant: an empty answer of the scan is taken for the host's.
HostKeyCallbackTrusting ==
  /\ pc = "callback" /\ At("off")
  /\ \/ expected \in {conn, "nothing"} /\ pc' = "session" /\ UNCHANGED conn
     \/ pc' = "again" /\ conn' = "nothing"
  /\ UNCHANGED <<scanVars, script, tries, output, result, runs, ended>>

\* HostKeyCallback, and the rest of the handshake.
HostKeyCallback ==
  /\ pc = "callback" /\ At("off")
  /\ \/ expected = conn /\ pc' = "session" /\ UNCHANGED conn
     \/ pc' = "again" /\ conn' = "nothing"
  /\ UNCHANGED <<scanVars, script, tries, output, result, runs, ended>>

\* Mutant: the loop is left one too early for the check that follows it.
RetryTooFew ==
  /\ pc = "again"
  /\ tries' = tries + 1
  /\ \/ tries + 1 < MaxRetryCount - 1 /\ pc' = "dial" /\ UNCHANGED result
     \/ tries + 1 = MaxRetryCount - 1 /\ pc' = "session" /\ UNCHANGED result
     \/ tries + 1 = MaxRetryCount /\ Return("couldn't retry")
  /\ UNCHANGED <<scanVars, script, conn, output, runs, ended>>

\* Mutant: the retries are not counted.
RetryForever ==
  /\ pc = "again"
  /\ tries' = tries + 1
  /\ pc' = "dial"
  /\ UNCHANGED <<scanVars, script, conn, output, result, runs, ended>>

\* After a pause; the counter tells the failure of the last attempt from a
\* connection.
Retry ==
  /\ pc = "again"
  /\ tries' = tries + 1
  /\ \/ tries + 1 < MaxRetryCount /\ pc' = "dial" /\ UNCHANGED result
     \/ tries + 1 = MaxRetryCount /\ Return("couldn't retry")
  /\ UNCHANGED <<scanVars, script, conn, output, runs, ended>>

NewSession ==
  /\ pc = "session"
  /\ \/ pc' = "run" /\ output' = NoOutput /\ UNCHANGED result
     \/ Return("error") /\ UNCHANGED output
  /\ UNCHANGED <<scanVars, script, tries, conn, runs, ended>>

Printed(whole) == IF script \in WithOutput THEN {[of |-> script, whole |-> whole]} ELSE {NoOutput}

\* session.Run: the script runs to its end and exits with success; or it does
\* not, or the connection is lost before it, meanwhile or after it.  What was
\* printed is kept.
Run ==
  /\ pc = "run"
  /\ \/ runs' = runs + 1 /\ ended' = TRUE /\ output' \in Printed(TRUE) /\ pc' \in {"done", "broken"}
     \/ runs' = runs + 1 /\ ended' = FALSE /\ output' \in {NoOutput} \cup Printed(FALSE) /\ pc' = "broken"
     \/ UNCHANGED <<runs, ended, output>> /\ pc' = "broken"
  /\ UNCHANGED <<scanVars, script, tries, conn, result>>

\* Mutant: a script whose session broke is run again.
FinishRunningAgain ==
  /\ \/ pc = "done" /\ Return("ok")
     \/ pc = "broken" /\ pc' = "session" /\ UNCHANGED result
  /\ UNCHANGED <<scanVars, script, tries, conn, output, runs, ended>>

\* Mutant: the error of session.Run is not looked at.
FinishNoError ==
  /\ pc \in {"done", "broken"} /\ Return("ok")
  /\ UNCHANGED <<scanVars, script, tries, conn, output, runs, ended>>

Finish ==
  /\ \/ pc = "done" /\ Return("ok")
     \/ pc = "broken" /\ Return("error")
  /\ UNCHANGED <<scanVars, script, tries, conn, output, runs, ended>>

\* The machine: sshd starts, and its key may be made anew once.
Boot ==
  /\ \/ host = "down" /\ host' = "key1"
     \/ host = "key1" /\ host' = "key2"
  /\ UNCHANGED <<scan, expected, callVars>>

Init ==
  /\ host = "down" /\ scan = NoScan /\ expected = "nothing"
  /\ pc = "idle" /\ script \in Script /\ tries = 0 /\ conn = "nothing"
  /\ output = NoOutput /\ result = NoResult /\ runs = 0 /\ ended = FALSE

\* The goroutine of the call.
Main ==
  \/ ReadKey \/ Dial \/ HostKeyCallback \/ Retry \/ NewSession \/ Run \/ Finish
  \/ Caller /\ UNCHANGED callVars

Process(A) == A /\ UNCHANGED callVars

Next ==
  \/ Call \/ Main \/ Boot
  \/ Process(Scanner) \/ Process(Copier) \/ Process(Feeder)
  \/ Process(Fingerprinter) \/ Process(FingerprinterDies)

Spec == Init /\ [][Next]_vars

\* The processes and goroutines are scheduled.
FairSpec ==
  /\ Spec
  /\ WF_vars(Main)
  /\ WF_vars(Process(Scanner)) /\ WF_vars(Process(Copier))
  /\ WF_vars(Process(Feeder)) /\ WF_vars(Process(Fingerprinter))

-----------------------------------------------------------------------------
(* Properties                                                              *)

\* A script is started only over a connection (the client is not nil), and
\* only on a host whose key is the one this call's scan found there: the
\* test of the counter after the loop and HostKeyCallback agree on it,
\* whatever becomes of the scan.
StartsOnConfirmedHost ==
  [][runs' > runs => conn # "nothing" /\ conn = expected /\ tries < MaxRetryCount]_vars

\* A caller that is told of success takes the whole output of its own script
\* from the shared payload, and one that is told of a failure takes nothing:
\* neither what an earlier script printed nor the beginning of what its own
\* did (SSHExecute, FetchKUBECONFIG, GetTokenFromCP_1,
\* HelperExecOutputControlPlane).
OutputIsOwn ==
  pc = "idle" =>
    IF result.status = "ok" /\ script \in WithOutput
    THEN result.output = [of |-> script, whole |-> TRUE]
    ELSE result.output = NoOutput

\* Every call ends: neither the loop nor the two processes and the
\* goroutines between them wait for ever (returnServerPublicKeys closes w
\* between the two Waits).
CallEnds == pc # "idle" ~> pc = "idle"

Remote == INSTANCE RemoteCall WITH
  calling <- pc # "idle",
  answer  <- IF result.status = "couldn't retry" THEN "error" ELSE result.status

\* What the commands rely on.
RemoteCallSpec == Remote!Spec
=============================================================================
