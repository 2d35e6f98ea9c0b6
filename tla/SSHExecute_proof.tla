--------------------------- MODULE SSHExecute_proof ---------------------------
(***************************************************************************)
(* Proofs about SSHExecute, for all scripts and any number of retries.     *)
(***************************************************************************)
EXTENDS SSHExecute, TLAPS

\* What is true of a call at each of its stages.
Connected == conn \in HostKey /\ conn = expected /\ tries < MaxRetryCount

Fresh == runs = 0 /\ ~ended

WholeOutput == output = IF script \in WithOutput THEN [of |-> script, whole |-> TRUE] ELSE NoOutput

Progress ==
  /\ pc \in {"key", "dial", "callback", "again"} => tries < MaxRetryCount
  /\ pc \in {"key", "dial", "callback", "again", "session", "run"} => Fresh
  /\ pc = "callback" => conn \in HostKey
  /\ pc \in {"session", "run", "done", "broken"} => Connected
  /\ pc = "done" => runs = 1 /\ ended /\ WholeOutput
  /\ pc = "broken" => runs \in 0..1
  /\ pc # "idle" => result = NoResult

Ended ==
  pc = "idle" /\ result.status = "ok" => runs = 1 /\ ended

\* The inductive invariant.
IInv == TypeOK /\ Progress /\ Ended /\ OutputIsOwn

-----------------------------------------------------------------------------
LEMMA NoScanType == NoScan \in Scan
BY DEF NoScan, Scan

LEMMA NewScanType == NewScan \in Scan /\ NewScan.at = "start1"
BY DEF NewScan, NoScan, Scan

LEMMA OutputTypes ==
  /\ NoOutput \in Output
  /\ NoResult \in Result /\ NoResult.status = "none" /\ NoResult.output = NoOutput
  /\ \A s \in Script : \A w \in BOOLEAN : [of |-> s, whole |-> w] \in Output
BY DEF NoOutput, NoResult, Output, Result

LEMMA Counters ==
  /\ MaxRetryCount \in Nat /\ 0 < MaxRetryCount /\ 0 \in 0..MaxRetryCount
  /\ \A n \in 0..MaxRetryCount :
       n \in Nat /\ (n < MaxRetryCount => n + 1 \in 0..MaxRetryCount)
BY RetryAssumption

LEMMA InitInv == Init => IInv
<1> SUFFICES ASSUME Init PROVE IInv
  OBVIOUS
<1>1. TypeOK
  BY Counters, NoScanType, OutputTypes DEF Init, TypeOK, ScanTypeOK, HostKey, Stage, At, NoScan
<1>2. Progress /\ Ended /\ OutputIsOwn
  BY OutputTypes DEF Init, Progress, Ended, OutputIsOwn
<1>3. QED
  BY <1>1, <1>2 DEF IInv

\* The scan and its processes leave the call alone.
LEMMA ScanKeepsInv ==
  ASSUME IInv, UNCHANGED callVars, ~At("off") \/ UNCHANGED expected, ScanTypeOK',
         At("off") => At("off")'
  PROVE  IInv'
<1>1. TypeOK'
  BY DEF IInv, TypeOK, callVars
<1>2. Progress'
  BY DEF IInv, TypeOK, Progress, callVars, Fresh, Connected, WholeOutput
<1>3. Ended' /\ OutputIsOwn'
  BY DEF IInv, Ended, OutputIsOwn, callVars
<1>4. QED
  BY <1>1, <1>2, <1>3 DEF IInv

LEMMA AnswerType ==
  ASSUME ScanTypeOK, NEW f \in HostKey \cup {"nothing"}, Answer(f), UNCHANGED host
  PROVE  ScanTypeOK'
BY DEF ScanTypeOK, Answer, NoScan, Scan

LEMMA CallerKeepsInv ==
  ASSUME IInv, Caller, UNCHANGED callVars
  PROVE  IInv'
<1>1. ScanTypeOK /\ ~At("off") /\ scan.key \in HostKey \cup {"nothing"}
  BY DEF IInv, TypeOK, ScanTypeOK, Scan, Caller, StartScanner, StartFingerprinter, WaitScanner,
         CloseWriter, WaitFingerprinter, At
<1>2. ScanTypeOK'
  <2>1. CASE StartScanner
    BY <1>1, <2>1, AnswerType DEF StartScanner, ScanTypeOK, Scan
  <2>2. CASE StartFingerprinter
    BY <1>1, <2>2, AnswerType DEF StartFingerprinter, ScanTypeOK, Scan
  <2>3. CASE WaitScanner
    BY <1>1, <2>3, AnswerType DEF WaitScanner, ScanTypeOK, Scan
  <2>4. CASE CloseWriter
    BY <1>1, <2>4 DEF CloseWriter, ScanTypeOK, Scan
  <2>5. CASE WaitFingerprinter
    BY <1>1, <2>5, AnswerType DEF WaitFingerprinter
  <2>6. QED
    BY <2>1, <2>2, <2>3, <2>4, <2>5 DEF Caller
<1>3. QED
  BY <1>1, <1>2, ScanKeepsInv

LEMMA ProcessKeepsInv ==
  ASSUME IInv, UNCHANGED callVars,
         Scanner \/ Copier \/ Feeder \/ Fingerprinter \/ FingerprinterDies
  PROVE  IInv'
<1>1. ScanTypeOK
  BY DEF IInv, TypeOK
<1>2. ScanTypeOK' /\ scan'.at = scan.at /\ UNCHANGED expected
  BY <1>1 DEF ScanTypeOK, Scan, Scanner, Copier, Feeder, Fingerprinter, FingerprinterDies
<1>3. QED
  BY <1>2, ScanKeepsInv DEF At

LEMMA BootKeepsInv ==
  ASSUME IInv, Boot
  PROVE  IInv'
<1>1. ScanTypeOK' /\ UNCHANGED <<scan, expected, callVars>>
  BY DEF IInv, TypeOK, ScanTypeOK, Boot, HostKey
<1>2. QED
  BY <1>1, ScanKeepsInv DEF At

-----------------------------------------------------------------------------
(* The steps of the call                                                   *)

LEMMA CallTypes ==
  ASSUME TypeOK, At("off"), UNCHANGED <<scanVars, script>>, pc' \in Stage, tries' \in 0..MaxRetryCount,
         conn' \in HostKey \cup {"nothing"}, output' \in Output, result' \in Result,
         runs' \in Nat, ended' \in BOOLEAN
  PROVE  TypeOK'
<1>1. ScanTypeOK' /\ At("off")'
  BY DEF TypeOK, ScanTypeOK, scanVars, At
<1>2. QED
  BY <1>1 DEF TypeOK

LEMMA ReturnKeepsInv ==
  ASSUME IInv, pc # "idle", At("off"), NEW status \in {"ok", "error", "couldn't retry"}, Return(status),
         UNCHANGED <<scanVars, script, conn, output, runs, ended>>,
         tries' \in 0..MaxRetryCount,
         status = "ok" => pc = "done"
  PROVE  IInv'
<1>1. result' \in Result /\ result'.status = status
  BY OutputTypes DEF Return, IInv, TypeOK, Result
<1>2. result'.output = IF status = "ok" THEN output ELSE NoOutput
  BY DEF Return
<1>3. TypeOK'
  BY <1>1 DEF IInv, TypeOK, scanVars, ScanTypeOK, Return, Stage, At
<1>4. Progress' /\ Ended'
  BY <1>1 DEF IInv, Progress, Ended, Return
<1>5. OutputIsOwn'
  BY <1>1, <1>2 DEF IInv, Progress, OutputIsOwn, Return, WholeOutput
<1>6. QED
  BY <1>3, <1>4, <1>5 DEF IInv

LEMMA CallKeepsInv ==
  ASSUME IInv, Call
  PROVE  IInv'
<1>1. TypeOK'
  BY Counters, OutputTypes DEF IInv, TypeOK, Call, scanVars, ScanTypeOK, Stage, At
<1>2. Progress' /\ Ended' /\ OutputIsOwn'
  BY Counters DEF Call, Progress, Ended, OutputIsOwn, Fresh
<1>3. QED
  BY <1>1, <1>2 DEF IInv

LEMMA ReadKeyKeepsInv ==
  ASSUME IInv, ReadKey
  PROVE  IInv'
<1>1. At("off")
  BY DEF IInv, TypeOK, ReadKey
<1>2. CASE Return("error")
  BY <1>1, <1>2, ReturnKeepsInv DEF ReadKey, IInv, TypeOK
<1>3. CASE pc' = "dial" /\ UNCHANGED result
  <2>1. TypeOK'
    BY <1>3 DEF IInv, TypeOK, ReadKey, scanVars, ScanTypeOK, Stage, At
  <2>2. Progress' /\ Ended' /\ OutputIsOwn'
    BY <1>3 DEF IInv, ReadKey, Progress, Ended, OutputIsOwn, Fresh
  <2>3. QED
    BY <2>1, <2>2 DEF IInv
<1>4. QED
  BY <1>2, <1>3 DEF ReadKey

LEMMA DialKeepsInv ==
  ASSUME IInv, Dial
  PROVE  IInv'
<1>1. TypeOK'
  BY NewScanType DEF IInv, TypeOK, Dial, ScanTypeOK, Stage, At, HostKey
<1>2. Progress' /\ Ended' /\ OutputIsOwn'
  BY DEF IInv, TypeOK, ScanTypeOK, Dial, Progress, Ended, OutputIsOwn, Fresh
<1>3. QED
  BY <1>1, <1>2 DEF IInv

LEMMA HostKeyCallbackKeepsInv ==
  ASSUME IInv, HostKeyCallback
  PROVE  IInv'
<1>1. TypeOK'
  BY DEF IInv, TypeOK, HostKeyCallback, scanVars, ScanTypeOK, Stage, At
<1>2. Progress' /\ Ended' /\ OutputIsOwn'
  BY DEF IInv, HostKeyCallback, scanVars, Progress, Ended, OutputIsOwn, Fresh, Connected
<1>3. QED
  BY <1>1, <1>2 DEF IInv

LEMMA RetryKeepsInv ==
  ASSUME IInv, Retry
  PROVE  IInv'
<1>1. pc = "again" /\ tries' = tries + 1
  BY DEF Retry
<1>2. At("off") /\ tries \in 0..MaxRetryCount /\ tries < MaxRetryCount
  BY <1>1 DEF IInv, TypeOK, Progress
<1>3. tries' \in 0..MaxRetryCount
  BY <1>1, <1>2, Counters
<1>4. UNCHANGED <<scanVars, script, conn, output, runs, ended>>
  BY DEF Retry
<1>5. CASE Return("couldn't retry")
  BY <1>1, <1>2, <1>3, <1>4, <1>5, ReturnKeepsInv
<1>6. CASE tries + 1 < MaxRetryCount /\ pc' = "dial" /\ UNCHANGED result
  <2>1. TypeOK'
    BY <1>2, <1>3, <1>4, <1>6, CallTypes DEF IInv, TypeOK, Stage
  <2>2. tries' < MaxRetryCount
    BY <1>1, <1>6
  <2>3. Progress' /\ Ended' /\ OutputIsOwn'
    BY <1>1, <1>4, <1>6, <2>2 DEF IInv, Progress, Ended, OutputIsOwn, Fresh
  <2>4. QED
    BY <2>1, <2>3 DEF IInv
<1>7. QED
  BY <1>5, <1>6 DEF Retry

LEMMA NewSessionKeepsInv ==
  ASSUME IInv, NewSession
  PROVE  IInv'
<1>1. At("off")
  BY DEF IInv, TypeOK, NewSession
<1>2. CASE Return("error") /\ UNCHANGED output
  BY <1>1, <1>2, ReturnKeepsInv DEF NewSession, IInv, TypeOK
<1>3. CASE pc' = "run" /\ output' = NoOutput /\ UNCHANGED result
  <2>1. TypeOK'
    BY <1>3, OutputTypes DEF IInv, TypeOK, NewSession, scanVars, ScanTypeOK, Stage, At
  <2>2. Progress' /\ Ended' /\ OutputIsOwn'
    BY <1>3 DEF IInv, NewSession, scanVars, Progress, Ended, OutputIsOwn, Fresh, Connected
  <2>3. QED
    BY <2>1, <2>2 DEF IInv
<1>4. QED
  BY <1>2, <1>3 DEF NewSession

LEMMA RunKeepsInv ==
  ASSUME IInv, Run
  PROVE  IInv'
<1>1. runs = 0 /\ ~ended /\ result = NoResult /\ Connected
  BY DEF IInv, Progress, Fresh, Run
<1>2. output' \in Output
  BY OutputTypes DEF IInv, TypeOK, Run, Printed
<1>3. pc' \in {"done", "broken"} /\ UNCHANGED <<scanVars, script, tries, conn, result>>
      /\ (ended' \in BOOLEAN)
  <2>1. pc' \in {"done", "broken"}
    BY DEF Run
  <2>2. UNCHANGED <<scanVars, script, tries, conn, result>>
    BY DEF Run
  <2>3. ended \in BOOLEAN
    BY DEF IInv, TypeOK
  <2>4. ended' \in BOOLEAN
    BY <2>3 DEF Run
  <2>5. QED
    BY <2>1, <2>2, <2>4
<1>4. runs' = runs + 1 \/ runs' = runs
  BY DEF Run
<1>5. runs' \in 0..1
  BY <1>1, <1>4
<1>6. TypeOK'
  <2>1. runs' \in Nat
    BY <1>5
  <2>2. pc' \in Stage /\ At("off")
    BY <1>3 DEF IInv, TypeOK, Stage, Run
  <2>3. QED
    BY <1>2, <1>3, <2>1, <2>2, CallTypes DEF IInv, TypeOK
<1>7. pc' = "done" => runs' = runs + 1 /\ ended' /\ WholeOutput'
  BY DEF Run, Printed, WholeOutput
<1>8. pc' = "done" => runs' = 1 /\ ended' /\ WholeOutput'
  BY <1>1, <1>7
<1>9. Progress' /\ Ended' /\ OutputIsOwn'
  BY <1>1, <1>3, <1>5, <1>8 DEF Progress, Ended, OutputIsOwn, Connected, scanVars
<1>10. QED
  BY <1>6, <1>9 DEF IInv

LEMMA FinishKeepsInv ==
  ASSUME IInv, Finish
  PROVE  IInv'
<1>1. At("off") /\ pc # "idle" /\ tries' \in 0..MaxRetryCount
  BY DEF IInv, TypeOK, Finish
<1>2. CASE pc = "done" /\ Return("ok")
  BY <1>1, <1>2, ReturnKeepsInv DEF Finish
<1>3. CASE pc = "broken" /\ Return("error")
  BY <1>1, <1>3, ReturnKeepsInv DEF Finish
<1>4. QED
  BY <1>2, <1>3 DEF Finish

LEMMA NextKeepsInv ==
  ASSUME IInv, [Next]_vars
  PROVE  IInv'
<1>1. CASE Call
  BY <1>1, CallKeepsInv
<1>2. CASE Main
  BY <1>2, ReadKeyKeepsInv, DialKeepsInv, HostKeyCallbackKeepsInv, RetryKeepsInv, NewSessionKeepsInv,
     RunKeepsInv, FinishKeepsInv, CallerKeepsInv DEF Main
<1>3. CASE Boot
  BY <1>3, BootKeepsInv
<1>4. CASE /\ Scanner \/ Copier \/ Feeder \/ Fingerprinter \/ FingerprinterDies
           /\ UNCHANGED callVars
  BY <1>4, ProcessKeepsInv
<1>5. CASE UNCHANGED vars
  <2>1. UNCHANGED <<scanVars, callVars>>
    BY <1>5 DEF vars
  <2>2. ScanTypeOK' /\ UNCHANGED expected /\ (At("off") => At("off")')
    BY <2>1 DEF IInv, TypeOK, ScanTypeOK, scanVars, At
  <2>3. QED
    BY <2>1, <2>2, ScanKeepsInv
<1>6. QED
  BY <1>1, <1>2, <1>3, <1>4, <1>5 DEF Next, Process

-----------------------------------------------------------------------------
(* What follows                                                            *)

\* The invariant holds of every behaviour.
THEOREM Inductive == Spec => []IInv
<1>1. IInv /\ [Next]_vars => IInv'
  BY NextKeepsInv
<1>2. QED
  BY InitInv, <1>1, PTL DEF Spec

\* The types, whatever the scripts and the number of retries: the retry
\* counter never passes MAX_RETRY_COUNT.
THEOREM Typed == Spec => []TypeOK
<1>1. IInv => TypeOK
  BY DEF IInv
<1>2. QED
  BY Inductive, <1>1, PTL

\* The caller takes the whole output of its own script or nothing
\* (SSHExecute and its callers).
THEOREM OwnOutput == Spec => []OutputIsOwn
<1>1. IInv => OutputIsOwn
  BY DEF IInv
<1>2. QED
  BY Inductive, <1>1, PTL

LEMMA OnlyRunStarts ==
  ASSUME IInv, [Next]_vars, runs' > runs
  PROVE  Run
<1>1. runs \in Nat /\ ~(UNCHANGED runs) /\ ~(runs' = 0)
  BY DEF IInv, TypeOK
<1>2. ~(UNCHANGED callVars) /\ ~(UNCHANGED vars) /\ ~Call /\ ~Boot
  BY <1>1 DEF callVars, vars, Call, Boot
<1>3. Main
  BY <1>2 DEF Next, Process
<1>4. QED
  BY <1>1, <1>2, <1>3 DEF Main, ReadKey, Dial, HostKeyCallback, Retry, NewSession, Finish

\* A script starts only over a connection to a host whose key was confirmed
\* (the check of the counter after the loop, HostKeyCallback).
THEOREM ConfirmedHost == Spec => StartsOnConfirmedHost
<1>1. IInv /\ [Next]_vars => [runs' > runs => conn # "nothing" /\ conn = expected /\ tries < MaxRetryCount]_vars
  <2> SUFFICES ASSUME IInv, [Next]_vars, runs' > runs
               PROVE  conn # "nothing" /\ conn = expected /\ tries < MaxRetryCount
    OBVIOUS
  <2>1. Run
    BY OnlyRunStarts
  <2>2. QED
    BY <2>1 DEF Run, IInv, Progress, Connected, HostKey
<1>2. QED
  BY Inductive, <1>1, PTL DEF Spec, StartsOnConfirmedHost

-----------------------------------------------------------------------------
(* The refinement                                                          *)

LEMMA RemoteInit == Init => Remote!Init
BY OutputTypes DEF Init, Remote!Init

LEMMA RemoteReturn ==
  ASSUME pc # "idle", NEW status \in {"ok", "error", "couldn't retry"}, Return(status),
         UNCHANGED <<runs, ended>>, status = "ok" => runs = 1 /\ ended
  PROVE  Remote!Next
BY DEF Return, Remote!Next, Remote!Return

LEMMA RemoteStep ==
  ASSUME IInv, [Next]_vars
  PROVE  [Remote!Next]_Remote!vars
<1>1. CASE Call
  BY <1>1, OutputTypes DEF Call, Remote!Next, Remote!Call
<1>2. CASE Run
  <2>1. runs = 0 /\ ~ended /\ pc = "run"
    BY <1>2 DEF IInv, Progress, Fresh, Run
  <2>2. (runs' = runs + 1 /\ ended' \in BOOLEAN) \/ UNCHANGED <<runs, ended>>
    BY <1>2 DEF Run
  <2>3. pc' # "idle" /\ UNCHANGED result
    BY <1>2 DEF Run
  <2>4. (runs' = 1 /\ ended' \in BOOLEAN) \/ UNCHANGED <<runs, ended>>
    BY <2>1, <2>2
  <2>5. QED
    BY <2>1, <2>3, <2>4 DEF Remote!Next, Remote!Execute, Remote!vars
<1>3. CASE Finish
  BY <1>3, RemoteReturn DEF Finish, IInv, Progress
<1>4. CASE ReadKey
  BY <1>4, RemoteReturn DEF ReadKey, Remote!vars
<1>5. CASE Retry
  BY <1>5, RemoteReturn DEF Retry, Remote!vars
<1>6. CASE NewSession
  BY <1>6, RemoteReturn DEF NewSession, Remote!vars
<1>7. CASE Dial \/ HostKeyCallback
  BY <1>7 DEF Dial, HostKeyCallback, Remote!vars
<1>8. CASE UNCHANGED callVars
  BY <1>8 DEF callVars, Remote!vars
<1>9. QED
  BY <1>1, <1>2, <1>3, <1>4, <1>5, <1>6, <1>7, <1>8 DEF Next, Main, Process, Boot, vars

\* A call starts its script at most once, and reports success only when the
\* script ran to its end.
THEOREM ImplementsRemoteCall == Spec => RemoteCallSpec
BY Inductive, RemoteInit, RemoteStep, PTL DEF Spec, RemoteCallSpec, Remote!Spec
=============================================================================
