------------------------- MODULE ScanLifecycleProofs -------------------------
(***************************************************************************)
(* ScanLifecycle for every number of attempts, deliveries and reapers and  *)
(* every setting of the timers.                                            *)
(***************************************************************************)
EXTENDS ScanLifecycle, TLAPS

-----------------------------------------------------------------------------
(* Type correctness *)

\* The constants without their names, for the arithmetic of the leaves.
LEMMA Constants ==
  /\ MaxAttempts \in Nat /\ MaxAttempts >= 1 /\ MaxTries \in Nat /\ MaxTries >= 1
  /\ Lease \in Nat /\ Timeout \in Nat /\ Timeout >= 1
  /\ RequeueAfter \in Nat /\ QueueMaxAge \in Nat /\ RequeueAfter < QueueMaxAge
  /\ Null \notin Int
BY LimitsAssumption, NullAssumption

\* A compare-and-set into a terminal status keeps the row well-typed.
LEMMA TransitionType ==
  ASSUME NEW from, NEW to \in Terminal, NEW error \in ErrorCode,
         scan \in ScanRow, Transition(from, to, error)
  PROVE  scan' \in ScanRow
BY DEF Transition, ScanRow, Status, LeaseLeft

\* So does every step of the clock.
LEMMA TickType ==
  ASSUME scan \in ScanRow, age \in 0..QueueMaxAge + 1, Tick
  PROVE  scan' \in ScanRow /\ age' \in 0..QueueMaxAge + 1
<1> USE Constants
<1>1. CountDown(scan.lease, -1) \in LeaseLeft
  BY DEF CountDown, LeaseLeft, ScanRow
<1>2. CountDown(scan.deadline, 0) \in DeadlineLeft
  BY DEF CountDown, DeadlineLeft, ScanRow
<1>3. scan' \in ScanRow
  BY <1>1, <1>2 DEF Tick, ScanRow
<1>4. age' \in 0..QueueMaxAge + 1
  BY DEF Tick
<1> QED BY <1>3, <1>4

\* What ARQ does with a job id keeps the queue well-typed.
LEMMA EnqueueType ==
  ASSUME queue \in [Jobs -> QueueEntry], NEW j \in Jobs, Enqueue(j)
  PROVE  queue' \in [Jobs -> QueueEntry]
BY Constants DEF Enqueue, QueueEntry

\* A job that ends keeps the queue and the executions well-typed.
LEMMA EndJobType ==
  ASSUME queue \in [Jobs -> QueueEntry], run \in [Jobs -> Execution],
         NEW j \in Jobs, EndJob(j)
  PROVE  queue' \in [Jobs -> QueueEntry] /\ run' \in [Jobs -> Execution]
BY Constants DEF EndJob, QueueEntry, Execution, NotRunning

\* An execution that moves on stays an execution.
LEMMA AdvanceType ==
  ASSUME run \in [Jobs -> Execution], NEW j \in Jobs,
         NEW pc \in Live \cup {"idle", "dead"}, Advance(j, pc)
  PROVE  run' \in [Jobs -> Execution]
BY DEF Advance, Execution

\* What a reaper decides from a row is a verdict.
LEMMA JudgementType ==
  ASSUME scan \in ScanRow
  PROVE  Judgement \in Verdict
BY Constants DEF Judgement, Verdict, NoVerdict, Jobs, Original, ScanRow

\* The first state is well typed.
LEMMA InitType == Init => TypeOK
<1> SUFFICES ASSUME Init PROVE TypeOK OBVIOUS
<1> USE Constants
<1>1. scan \in ScanRow
  BY DEF Init, ScanRow, Status, LeaseLeft, DeadlineLeft, ErrorCode
<1>2. queue \in [Jobs -> QueueEntry] /\ run \in [Jobs -> Execution]
  BY DEF Init, QueueEntry, Execution, NotRunning
<1>3. verdict \in [Reapers -> Verdict]
  BY DEF Init, Verdict, NoVerdict, Jobs, Original
<1> QED BY <1>1, <1>2, <1>3 DEF Init, TypeOK

\* The steps of the API keep the types.
LEMMA ApiType == TypeOK /\ ApiStep => TypeOK'
<1> SUFFICES ASSUME TypeOK, ApiStep PROVE TypeOK' OBVIOUS
<1> USE DEF TypeOK
<1>1. CASE CreateScan
  <2>1. scan' \in ScanRow
    BY <1>1 DEF CreateScan, ScanRow, Status, Active
  <2> QED BY <1>1, <2>1 DEF CreateScan
<1>2. CASE EnqueueAccepted
  <2>1. queue' \in [Jobs -> QueueEntry]
    BY <1>2, EnqueueType, Constants DEF EnqueueAccepted, Jobs, Original
  <2> QED BY <1>2, <2>1 DEF EnqueueAccepted
<1>3. CASE EnqueueRefused
  BY <1>3 DEF EnqueueRefused
<1>4. CASE Compensate
  <2>1. scan' \in ScanRow
    BY <1>4, TransitionType DEF Compensate, Terminal, ErrorCode
  <2> QED BY <1>4, <2>1 DEF Compensate
<1>5. CASE ApiCrash
  BY <1>5 DEF ApiCrash
<1>6. CASE CancelScan
  <2>1. scan' \in ScanRow
    BY <1>6, TransitionType DEF CancelScan, Terminal, ErrorCode
  <2> QED BY <1>6, <2>1 DEF CancelScan
<1> QED BY <1>1, <1>2, <1>3, <1>4, <1>5, <1>6 DEF ApiStep

\* The steps of ARQ keep the types.
LEMMA QueueType ==
  ASSUME TypeOK, NEW j \in Jobs, QueueStep(j)
  PROVE  TypeOK'
<1> USE Constants DEF TypeOK
<1>1. CASE StartJob(j)
  BY <1>1 DEF StartJob, Picked, QueueEntry, Execution, Live
<1>2. CASE ExhaustJob(j)
  BY <1>2 DEF ExhaustJob, QueueEntry
<1>3. CASE ExpireResult(j)
  BY <1>3 DEF ExpireResult, QueueEntry
<1>4. CASE LoseJob(j)
  BY <1>4 DEF LoseJob, QueueEntry
<1>5. CASE Redeliver(j)
  BY <1>5 DEF Redeliver, QueueEntry, Execution, NotRunning
<1> QED BY <1>1, <1>2, <1>3, <1>4, <1>5 DEF QueueStep

\* The steps and the faults of a worker keep the types.
LEMMA WorkerType ==
  ASSUME TypeOK, NEW j \in Jobs,
         WorkerStep(j) \/ Heartbeat(j) \/ Probe(j) \/ WorkerFault(j)
  PROVE  TypeOK'
<1> USE Constants DEF TypeOK
<1>1. CASE Claim(j)
  <2>1. scan' \in ScanRow
    <3>1. scan.attempts + 1 \in 0..MaxAttempts
      BY <1>1 DEF Claim, Claimable, ScanRow
    <3>2. Lease \in LeaseLeft /\ Timeout \in DeadlineLeft
      BY DEF LeaseLeft, DeadlineLeft
    <3>3. (IF scan.deadline = Null THEN Timeout ELSE scan.deadline) \in DeadlineLeft
      BY <3>2 DEF ScanRow
    <3> QED BY <1>1, <3>1, <3>2, <3>3 DEF Claim, ScanRow, Status, Active
  <2>2. run' \in [Jobs -> Execution]
    BY <1>1 DEF Claim, Claimable, Execution, Live, ScanRow
  <2> QED BY <1>1, <2>1, <2>2 DEF Claim
<1>2. CASE SkipClaim(j)
  BY <1>2, EndJobType DEF SkipClaim
<1>3. CASE Authorize(j)
  <2>1. run' \in [Jobs -> Execution]
    BY <1>3, AdvanceType DEF Authorize, Live, Supervised, Failing
  <2> QED BY <1>3, <2>1 DEF Authorize
<1>4. CASE StartAgent(j)
  <2>1. run' \in [Jobs -> Execution]
    <3>1. (scan.optIn /\ scan.attempts = 1) \in BOOLEAN
      OBVIOUS
    <3>2. "agent" \in Live
      BY DEF Live, Supervised
    <3> HIDE DEF TypeOK
    <3>3. run \in [Jobs -> Execution]
      BY DEF TypeOK
    <3>4. run' = [run EXCEPT ![j].pc = "agent",
                             ![j].active = scan.optIn /\ scan.attempts = 1]
      BY <1>4 DEF StartAgent
    <3> QED BY <3>1, <3>2, <3>3, <3>4 DEF Execution
  <2> QED BY <1>4, <2>1 DEF StartAgent
<1>5. CASE FinishAgent(j)
  <2>1. run' \in [Jobs -> Execution]
    BY <1>5, AdvanceType DEF FinishAgent, Live
  <2> QED BY <1>5, <2>1 DEF FinishAgent
<1>6. CASE DeadlineReached(j) \/ InnerTimeout(j)
  <2>1. run' \in [Jobs -> Execution]
    BY <1>6, AdvanceType DEF DeadlineReached, InnerTimeout, Live
  <2> QED BY <1>6, <2>1 DEF DeadlineReached, InnerTimeout
<1>7. CASE StopRun(j)
  BY <1>7, EndJobType DEF StopRun
<1>8. CASE FinalizeCompleted(j) \/ FinalizeTimedOut(j)
  <2>1. scan' \in ScanRow
    <3>1. PICK to \in Terminal, error \in ErrorCode :
            \/ scan' = [scan EXCEPT !.status = to, !.lease = Null, !.error = error,
                                    !.reports = @ + 1]
            \/ scan' = scan
      BY <1>8 DEF FinalizeCompleted, FinalizeTimedOut, Finalize, Terminal, ErrorCode
    <3>2. scan.reports + 1 \in Nat
      BY DEF ScanRow
    <3> QED BY <3>1, <3>2 DEF ScanRow, Status, LeaseLeft
  <2> QED BY <1>8, <2>1, EndJobType DEF FinalizeCompleted, FinalizeTimedOut, Finalize
<1>9. CASE FailScan(j)
  <2>1. scan' \in ScanRow
    BY <1>9, TransitionType DEF FailScan, Terminal, ErrorCode
  <2> QED BY <1>9, <2>1, EndJobType DEF FailScan
<1>10. CASE Heartbeat(j)
  <2>1. scan' \in ScanRow
    BY <1>10 DEF Heartbeat, ScanRow, LeaseLeft
  <2> QED BY <1>10, <2>1 DEF Heartbeat
<1>11. CASE Probe(j)
  <2>1. run[j].attempt \in 0..MaxAttempts
    BY DEF Execution
  <2> QED BY <1>11, <2>1 DEF Probe
<1>12. CASE AgentError(j)
  <2>1. run' \in [Jobs -> Execution]
    BY <1>12, AdvanceType DEF AgentError, Live, Failing
  <2> QED BY <1>12, <2>1 DEF AgentError
<1>13. CASE JobError(j)
  BY <1>13, EndJobType DEF JobError
<1>14. CASE Crash(j)
  BY <1>14 DEF Crash, Dead, Execution
<1> QED BY <1>1, <1>2, <1>3, <1>4, <1>5, <1>6, <1>7, <1>8, <1>9, <1>10, <1>11,
           <1>12, <1>13, <1>14 DEF WorkerStep, WorkerFault

\* The steps of a reaper keep the types.
LEMMA ReaperType ==
  ASSUME TypeOK, NEW r \in Reapers, ReaperRead(r) \/ ReaperAct(r) \/ ReaperAbort(r)
  PROVE  TypeOK'
<1> USE Constants DEF TypeOK
<1>1. NoVerdict \in Verdict
  BY DEF NoVerdict, Verdict, Jobs, Original
<1>2. CASE ReaperRead(r)
  BY <1>2, JudgementType DEF ReaperRead
<1>3. CASE ReapDeadline(r) \/ ReapWorkerLost(r) \/ ReapQueueTimeout(r)
  <2>1. scan' \in ScanRow
    BY <1>3, TransitionType DEF ReapDeadline, ReapWorkerLost, ReapQueueTimeout,
                                ReaperEnd, Terminal, ErrorCode
  <2> QED BY <1>1, <1>3, <2>1 DEF ReapDeadline, ReapWorkerLost, ReapQueueTimeout, ReaperEnd
<1>4. CASE ReapRequeue(r)
  <2>1. queue' \in [Jobs -> QueueEntry]
    BY <1>4, EnqueueType DEF ReapRequeue, Verdict
  <2> QED BY <1>1, <1>4, <2>1 DEF ReapRequeue
<1>5. CASE ReaperAbort(r)
  BY <1>1, <1>5 DEF ReaperAbort
<1> QED BY <1>2, <1>3, <1>4, <1>5 DEF ReaperAct

\* Every step keeps the types.
LEMMA NextType == TypeOK /\ [Next]_vars => TypeOK'
<1> SUFFICES ASSUME TypeOK, [Next]_vars PROVE TypeOK' OBVIOUS
<1>1. CASE Tick
  BY <1>1, TickType DEF Tick, TypeOK
<1>2. CASE UNCHANGED vars
  BY <1>2 DEF vars, TypeOK
<1> QED BY <1>1, <1>2, ApiType, QueueType, WorkerType, ReaperType DEF Next

\* Every variable keeps its type, for every value of the constants.
THEOREM TypeCorrect == Spec => []TypeOK
BY InitType, NextType, PTL DEF Spec
-----------------------------------------------------------------------------
(* The inductive invariant *)

\* An execution that has claimed the scan.
Claimed == Live \ {"claim"}

\* What the status says about the rest of the row: nothing has happened to a
\* scan that was not claimed, a running one was claimed and has a deadline,
\* and only an ended one can have an error.
RowInv ==
  /\ api = "idle" => scan.status = "absent"
  /\ scan.status \in {"absent", "queued"} => scan.attempts = 0
  /\ scan.status = "running" => scan.attempts >= 1
  /\ scan.status \in Active \cup {"absent", "completed"} => scan.error = "none"

\* Executions are numbered by their claim; the one that passes the fence has
\* the last number, and only number 1 may be active.
RunInv ==
  \A j \in Jobs :
    /\ run[j].pc \in Claimed => run[j].attempt \in 1..scan.attempts
    /\ run[j].pc \in Claimed /\ Owns(j) => run[j].attempt = scan.attempts
    /\ run[j].active => run[j].pc \in Claimed /\ run[j].attempt = 1 /\ scan.optIn

\* A reaper's verdict is old, but attempts never decrease.
VerdictInv ==
  \A r \in Reapers : verdict[r].act = "worker_lost" => scan.attempts = MaxAttempts

ProbeInv == ProbesNotReplayed /\ (probes # {} => scan.attempts >= 1)

IInv ==
  /\ TypeOK /\ RowInv /\ RunInv /\ VerdictInv
  /\ ReportIntegrity /\ ErrorCodeHonest /\ ProbeInv /\ SessionFailsWithScan

\* The first state satisfies the invariant: nobody has claimed, judged or probed anything.
LEMMA InitInv == Init => IInv
<1> SUFFICES ASSUME Init PROVE IInv OBVIOUS
<1>1. TypeOK
  BY InitType
<1>2. RunInv
  BY DEF Init, RunInv, NotRunning, Claimed, Live, Supervised, Failing
<1>3. VerdictInv
  BY DEF Init, VerdictInv, NoVerdict
<1> QED BY <1>1, <1>2, <1>3 DEF Init, IInv, RowInv, ProbeInv, ReportIntegrity,
      ErrorCodeHonest, ProbesNotReplayed, SessionFailsWithScan, Active

\* The executions when one of them ends, dies or is picked up anew.
LEMMA LeaveRun ==
  ASSUME TypeOK, RunInv, NEW j \in Jobs, NEW e \in {NotRunning, Picked, Dead},
         run' = [run EXCEPT ![j] = e],
         scan'.attempts = scan.attempts, scan'.optIn = scan.optIn,
         \A k \in Jobs : Owns(k)' => Owns(k)
  PROVE  RunInv'
<1>1. ~e.active /\ e.pc \notin Claimed
  BY DEF NotRunning, Picked, Dead, Claimed, Live, Supervised, Failing
<1>2. ASSUME NEW k \in Jobs, k # j PROVE run'[k] = run[k]
  BY <1>2 DEF TypeOK
<1>3. run'[j] = e
  BY DEF TypeOK
<1>4. ASSUME NEW k \in Jobs
      PROVE  /\ run'[k].pc \in Claimed => run'[k].attempt \in 1..scan'.attempts
             /\ run'[k].pc \in Claimed /\ Owns(k)' => run'[k].attempt = scan'.attempts
             /\ run'[k].active => run'[k].pc \in Claimed /\ run'[k].attempt = 1 /\ scan'.optIn
  <2>1. CASE k = j
    BY <1>1, <1>3, <2>1
  <2>2. CASE k # j
    BY <1>2, <2>2 DEF RunInv
  <2> QED BY <2>1, <2>2
<1> QED BY <1>4 DEF RunInv, Claimed

\* The executions when one that has claimed the scan goes on.
LEMMA AdvanceRun ==
  ASSUME TypeOK, RunInv, NEW j \in Jobs, run[j].pc \in Claimed,
         NEW pc \in Claimed, Advance(j, pc), UNCHANGED scan
  PROVE  RunInv'
<1>1. ASSUME NEW k \in Jobs
      PROVE  /\ run'[k].attempt = run[k].attempt /\ run'[k].active = run[k].active
             /\ run'[k].pc \in Claimed => run[k].pc \in Claimed
             /\ run[k].pc \in Claimed => run'[k].pc \in Claimed
  BY DEF Advance, TypeOK, Execution
<1>2. ASSUME NEW k \in Jobs PROVE Owns(k)' <=> Owns(k)
  BY DEF Owns
<1>3. ASSUME NEW k \in Jobs
      PROVE  /\ run'[k].pc \in Claimed => run'[k].attempt \in 1..scan'.attempts
             /\ run'[k].pc \in Claimed /\ Owns(k)' => run'[k].attempt = scan'.attempts
             /\ run'[k].active => run'[k].pc \in Claimed /\ run'[k].attempt = 1 /\ scan'.optIn
  BY <1>1, <1>2 DEF RunInv
<1> QED BY <1>3 DEF RunInv, Claimed

\* The executions when only the row changes and nobody gains it.
LEMMA RowRun ==
  ASSUME RunInv, UNCHANGED run,
         scan'.attempts = scan.attempts,
         scan'.optIn = scan.optIn \/ scan.attempts = 0,
         \A k \in Jobs : Owns(k)' => Owns(k)
  PROVE  RunInv'
<1>1. ASSUME NEW k \in Jobs
      PROVE  /\ run'[k].pc \in Claimed => run'[k].attempt \in 1..scan'.attempts
             /\ run'[k].pc \in Claimed /\ Owns(k)' => run'[k].attempt = scan'.attempts
             /\ run'[k].active => run'[k].pc \in Claimed /\ run'[k].attempt = 1 /\ scan'.optIn
  BY DEF RunInv
<1> QED BY <1>1 DEF RunInv, Claimed
\* The rest of the invariant when the row stays as it is.
LEMMA SameRow ==
  ASSUME IInv, TypeOK', RunInv', VerdictInv', UNCHANGED <<scan, probes>>,
         session' \in {session, "running", "complete"},
         api' = "idle" => api = "idle"
  PROVE  IInv'
BY DEF IInv, RowInv, ProbeInv, ReportIntegrity, ErrorCodeHonest, ProbesNotReplayed,
       SessionFailsWithScan

\* The executions and the verdicts when the row reaches a terminal status.
LEMMA EndedRow ==
  ASSUME TypeOK, VerdictInv, NEW from \in SUBSET Active, NEW to \in Terminal,
         NEW error, Transition(from, to, error)
  PROVE  /\ \A k \in Jobs : ~Owns(k)'
         /\ scan'.attempts = scan.attempts /\ scan'.optIn = scan.optIn
         /\ scan'.reports = scan.reports /\ scan'.status = to /\ scan'.error = error
         /\ scan.status \in from
BY DEF Transition, Owns, TypeOK, ScanRow, Terminal

\* The rest of the invariant when a compare-and-set ends the scan without a
\* report: queue errors come from a queued row, "worker_lost" from a spent one.
LEMMA FailedRow ==
  ASSUME IInv, TypeOK', RunInv', VerdictInv', UNCHANGED probes,
         NEW from \in SUBSET Active, NEW to \in Terminal \ {"completed"}, NEW error,
         Transition(from, to, error),
         error \in {"queue_unavailable", "queue_timeout"} => from = {"queued"},
         error = "worker_lost" => scan.attempts = MaxAttempts,
         session' = "failed" => to = "failed" \/ session = "failed",
         api' = "idle" => api = "idle"
  PROVE  IInv'
<1>1. /\ scan'.attempts = scan.attempts /\ scan'.optIn = scan.optIn
      /\ scan'.reports = scan.reports /\ scan'.status = to /\ scan'.error = error
      /\ scan.status \in from
  BY EndedRow DEF IInv
<1>2. scan.status \in {"queued", "running"}
  BY <1>1 DEF Active
<1>3. RowInv'
  BY <1>1, <1>2 DEF IInv, RowInv, Active, Terminal
<1>4. scan.reports = 0
  BY <1>2 DEF IInv, ReportIntegrity, TypeOK, ScanRow
<1>5. ReportIntegrity'
  BY <1>1, <1>4 DEF ReportIntegrity
<1>6. ErrorCodeHonest'
  <2>1. from = {"queued"} => scan.attempts = 0 /\ probes = {}
    BY <1>1 DEF IInv, RowInv, ProbeInv
  <2> QED BY <1>1, <2>1 DEF ErrorCodeHonest
<1>7. ProbeInv'
  BY <1>1 DEF IInv, ProbeInv, ProbesNotReplayed
<1>8. SessionFailsWithScan'
  BY <1>1, <1>2 DEF IInv, SessionFailsWithScan
<1> QED BY <1>3, <1>5, <1>6, <1>7, <1>8 DEF IInv

\* The steps of the API keep the invariant; the compensation and the cancellation end
\* a row that they find still in the status they expect.
LEMMA ApiInv == IInv /\ ApiStep => IInv'
<1> SUFFICES ASSUME IInv, ApiStep PROVE IInv' OBVIOUS
<1>1. TypeOK /\ TypeOK' /\ RunInv /\ VerdictInv
  BY ApiType DEF IInv
<1>2. CASE CreateScan
  <2>1. scan.status = "absent" /\ scan.attempts = 0
    BY <1>2 DEF CreateScan, IInv, RowInv
  <2>2. /\ scan'.status = "queued" /\ scan'.attempts = 0 /\ scan'.error = scan.error
        /\ scan'.reports = scan.reports /\ UNCHANGED <<session, run, verdict, probes>>
        /\ api' = "enqueue"
    BY <1>1, <1>2, <2>1 DEF CreateScan, TypeOK, ScanRow
  <2>3. RunInv'
    BY <1>1, <2>1, <2>2, RowRun DEF Owns
  <2>4. VerdictInv'
    BY <1>1, <2>1, <2>2 DEF VerdictInv
  <2>5. probes = {} /\ session # "failed" /\ scan.error = "none" /\ scan.reports # 1
    BY <2>1 DEF IInv, ProbeInv, SessionFailsWithScan, RowInv, ReportIntegrity
  <2> QED BY <1>1, <2>1, <2>2, <2>3, <2>4, <2>5 DEF IInv, RowInv, ProbeInv, ReportIntegrity,
        ErrorCodeHonest, ProbesNotReplayed, SessionFailsWithScan
<1>3. CASE EnqueueAccepted \/ EnqueueRefused \/ ApiCrash
  <2>1. UNCHANGED <<scan, session, run, verdict, probes>> /\ api' # "idle"
    BY <1>3 DEF EnqueueAccepted, EnqueueRefused, ApiCrash
  <2>2. RunInv'
    BY <1>1, <2>1, RowRun DEF Owns
  <2>3. VerdictInv'
    BY <1>1, <2>1 DEF VerdictInv
  <2> QED BY <1>1, <2>1, <2>2, <2>3, SameRow
<1>4. CASE Compensate
  <2>1. UNCHANGED <<session, run, verdict, probes>> /\ api' # "idle"
    BY <1>4 DEF Compensate
  <2>2. CASE UNCHANGED scan
    <3>1. RunInv'
      BY <1>1, <2>1, <2>2, RowRun DEF Owns
    <3>2. VerdictInv'
      BY <1>1, <2>1, <2>2 DEF VerdictInv
    <3> QED BY <1>1, <2>1, <2>2, <3>1, <3>2, SameRow
  <2>3. CASE Transition({"queued"}, "failed", "queue_unavailable")
    <3>1. "failed" \in Terminal \ {"completed"} /\ {"queued"} \in SUBSET Active
      BY DEF Terminal, Active
    <3>2. /\ \A k \in Jobs : ~Owns(k)'
          /\ scan'.attempts = scan.attempts /\ scan'.optIn = scan.optIn
      BY <1>1, <2>3, <3>1, EndedRow
    <3>3. RunInv'
      BY <1>1, <2>1, <3>2, RowRun
    <3>4. VerdictInv'
      BY <1>1, <2>1, <3>2 DEF VerdictInv
    <3> QED BY <1>1, <2>1, <2>3, <3>1, <3>3, <3>4, FailedRow
  <2> QED BY <1>4, <2>2, <2>3 DEF Compensate
<1>5. CASE CancelScan
  <2>1. UNCHANGED <<session, api, run, verdict, probes>>
        /\ Transition(Active, "cancelled", "cancelled")
    BY <1>5 DEF CancelScan
  <2>2. "cancelled" \in Terminal \ {"completed"}
    BY DEF Terminal
  <2>3. /\ \A k \in Jobs : ~Owns(k)'
        /\ scan'.attempts = scan.attempts /\ scan'.optIn = scan.optIn
    BY <1>1, <2>1, <2>2, EndedRow
  <2>4. RunInv'
    BY <1>1, <2>1, <2>3, RowRun
  <2>5. VerdictInv'
    BY <1>1, <2>1, <2>3 DEF VerdictInv
  <2>6. session' = "failed" => session = "failed"
    BY <2>1
  <2> QED BY <1>1, <2>1, <2>2, <2>4, <2>5, <2>6, FailedRow
<1> QED BY <1>2, <1>3, <1>4, <1>5 DEF ApiStep

\* The steps of ARQ keep the invariant: they touch no row.
LEMMA QueueInv ==
  ASSUME IInv, NEW j \in Jobs, QueueStep(j)
  PROVE  IInv'
<1>1. TypeOK /\ TypeOK' /\ RunInv /\ VerdictInv
  BY QueueType DEF IInv
<1>2. UNCHANGED <<scan, session, api, verdict, probes>>
  BY DEF QueueStep, StartJob, ExhaustJob, ExpireResult, LoseJob, Redeliver
<1>3. \/ UNCHANGED run
      \/ \E e \in {NotRunning, Picked, Dead} : run' = [run EXCEPT ![j] = e]
  BY DEF QueueStep, StartJob, ExhaustJob, ExpireResult, LoseJob, Redeliver
<1>4. RunInv'
  BY <1>1, <1>2, <1>3, RowRun, LeaveRun DEF Owns
<1>5. VerdictInv'
  BY <1>1, <1>2 DEF VerdictInv
<1> QED BY <1>1, <1>2, <1>4, <1>5, SameRow

\* A job that ends and leaves the row alone.
LEMMA EndJobInv ==
  ASSUME IInv, TypeOK', NEW j \in Jobs, EndJob(j),
         UNCHANGED <<scan, session, api, verdict, probes>>
  PROVE  IInv'
<1>1. RunInv'
  BY LeaveRun DEF IInv, EndJob, Owns
<1>2. VerdictInv'
  BY DEF IInv, VerdictInv
<1> QED BY <1>1, <1>2, SameRow

\* An execution that goes on and leaves the row alone.
LEMMA AdvanceInv ==
  ASSUME IInv, TypeOK', NEW j \in Jobs, run[j].pc \in Claimed,
         NEW pc \in Claimed, Advance(j, pc),
         session' \in {session, "running", "complete"},
         UNCHANGED <<scan, api, verdict, probes>>
  PROVE  IInv'
<1>1. RunInv'
  BY AdvanceRun DEF IInv
<1>2. VerdictInv'
  BY DEF IInv, VerdictInv
<1> QED BY <1>1, <1>2, SameRow

\* A claim keeps the invariant: it starts the newest attempt and takes the row from
\* every other execution.
LEMMA ClaimInv ==
  ASSUME IInv, TypeOK', NEW j \in Jobs, Claim(j)
  PROVE  IInv'
<1> DEFINE n == scan.attempts + 1
<1>1. TypeOK /\ scan.attempts \in Nat /\ scan.attempts < MaxAttempts
  BY DEF IInv, TypeOK, ScanRow, Claim, Claimable
<1>2. scan.status \in Active
  BY DEF Claim, Claimable, Active
<1>3. /\ scan'.status = "running" /\ scan'.attempts = n /\ scan'.worker = j
      /\ scan'.error = scan.error /\ scan'.optIn = scan.optIn /\ scan'.reports = scan.reports
  BY <1>1 DEF Claim, TypeOK, ScanRow
<1>4. run'[j] = [pc |-> "authorize", attempt |-> n, active |-> FALSE]
  BY <1>1 DEF Claim, TypeOK
<1>5. ASSUME NEW k \in Jobs, k # j PROVE run'[k] = run[k] /\ ~Owns(k)'
  BY <1>1, <1>3, <1>5 DEF Claim, TypeOK, Owns
<1>6. RunInv'
  <2>1. ASSUME NEW k \in Jobs
        PROVE  /\ run'[k].pc \in Claimed => run'[k].attempt \in 1..scan'.attempts
               /\ run'[k].pc \in Claimed /\ Owns(k)' => run'[k].attempt = scan'.attempts
               /\ run'[k].active => run'[k].pc \in Claimed /\ run'[k].attempt = 1 /\ scan'.optIn
    <3>1. CASE k = j
      BY <1>1, <1>3, <1>4, <3>1
    <3>2. CASE k # j
      <4>1. run'[k] = run[k] /\ ~Owns(k)'
        BY <1>5, <3>2
      <4>2. run[k].attempt \in 1..scan.attempts => run[k].attempt \in 1..n
        BY <1>1
      <4>3. run[k].active => run[k].pc \in Claimed /\ run[k].attempt = 1 /\ scan.optIn
        BY DEF IInv, RunInv
      <4>4. run'[k].pc \in Claimed => run'[k].attempt \in 1..scan'.attempts
        BY <1>3, <4>1, <4>2 DEF IInv, RunInv
      <4>5. run'[k].active => run'[k].pc \in Claimed /\ run'[k].attempt = 1 /\ scan'.optIn
        BY <1>3, <4>1, <4>3
      <4> QED BY <4>1, <4>4, <4>5
    <3> QED BY <3>1, <3>2
  <2> QED BY <2>1 DEF RunInv, Claimed
<1>7. VerdictInv'
  BY <1>1 DEF IInv, VerdictInv, Claim
<1>8. RowInv'
  <2>1. api' = api /\ api # "idle" /\ scan.error = "none"
    BY <1>2 DEF IInv, RowInv, Active, Claim
  <2> QED BY <1>1, <1>3, <2>1 DEF RowInv
<1>9. scan.error = "none" /\ scan.reports # 1
  BY <1>2 DEF IInv, RowInv, ReportIntegrity, Active
<1>10. ReportIntegrity' /\ ErrorCodeHonest'
  BY <1>3, <1>9 DEF IInv, ReportIntegrity, ErrorCodeHonest
<1>11. ProbeInv'
  BY <1>1, <1>3 DEF IInv, ProbeInv, ProbesNotReplayed, Claim
<1>12. SessionFailsWithScan'
  <2>1. session # "failed"
    BY <1>2 DEF IInv, SessionFailsWithScan, Active
  <2> QED BY <2>1 DEF SessionFailsWithScan, Claim
<1> QED BY <1>6, <1>7, <1>8, <1>10, <1>11, <1>12 DEF IInv

\* The transaction that ends a scan with its report keeps the invariant.
LEMMA FinalizeInv ==
  ASSUME IInv, TypeOK', NEW j \in Jobs, NEW pc, NEW to \in {"completed", "timed_out"},
         NEW error, Finalize(j, pc, to, error),
         error \in {"none", "timeout"}, to = "completed" => error = "none"
  PROVE  IInv'
<1>1. CASE ~Owns(j)
  BY <1>1, EndJobInv DEF Finalize
<1>2. CASE Owns(j)
  <2>1. /\ scan.status = "running" /\ scan.reports = 0
    BY <1>2 DEF Owns, IInv, ReportIntegrity, TypeOK, ScanRow
  <2>2. /\ scan'.status = to /\ scan'.attempts = scan.attempts /\ scan'.optIn = scan.optIn
        /\ scan'.error = error /\ scan'.reports = 1
    <3>1. scan \in ScanRow
      BY DEF IInv, TypeOK
    <3>2. scan' = [scan EXCEPT !.status = to, !.lease = Null, !.error = error,
                               !.reports = @ + 1]
      BY <1>2 DEF Finalize
    <3> QED BY <2>1, <3>1, <3>2 DEF ScanRow
  <2>3. UNCHANGED <<session, api, verdict, probes>> /\ EndJob(j)
    BY DEF Finalize
  <2>4. RunInv'
    BY <2>2, <2>3, LeaveRun DEF IInv, EndJob, Owns
  <2>5. VerdictInv'
    BY <2>2, <2>3 DEF IInv, VerdictInv
  <2>6. RowInv'
    BY <2>1, <2>2, <2>3 DEF IInv, RowInv, Active
  <2>7. ReportIntegrity' /\ ErrorCodeHonest'
    BY <2>2 DEF ReportIntegrity, ErrorCodeHonest
  <2>8. ProbeInv'
    BY <2>2, <2>3 DEF IInv, ProbeInv, ProbesNotReplayed
  <2>9. SessionFailsWithScan'
    BY <2>1, <2>3 DEF IInv, SessionFailsWithScan
  <2> QED BY <2>4, <2>5, <2>6, <2>7, <2>8, <2>9 DEF IInv
<1> QED BY <1>1, <1>2

\* The transaction that fails a scan and its session keeps the invariant.
LEMMA FailScanInv ==
  ASSUME IInv, TypeOK', NEW j \in Jobs, FailScan(j)
  PROVE  IInv'
<1>1. EndJob(j) /\ UNCHANGED <<api, verdict, probes>>
  BY DEF FailScan
<1>2. CASE UNCHANGED <<scan, session>>
  BY <1>1, <1>2, EndJobInv
<1>3. CASE ~UNCHANGED <<scan, session>>
  <2>1. PICK error \in {"denied", "internal_error"} : Transition({"running"}, "failed", error)
    BY <1>3 DEF FailScan
  <2>2. "failed" \in Terminal \ {"completed"} /\ {"running"} \in SUBSET Active
    BY DEF Terminal, Active
  <2>3. /\ \A k \in Jobs : ~Owns(k)'
        /\ scan'.attempts = scan.attempts /\ scan'.optIn = scan.optIn
    BY <2>1, <2>2, EndedRow DEF IInv
  <2>4. RunInv'
    BY <1>1, <2>3, LeaveRun DEF IInv, EndJob
  <2>5. VerdictInv'
    BY <1>1, <2>3 DEF IInv, VerdictInv
  <2> QED BY <1>1, <2>1, <2>2, <2>4, <2>5, FailedRow
<1> QED BY <1>2, <1>3

\* The steps and the faults of a worker keep the invariant.
LEMMA WorkerInv ==
  ASSUME IInv, NEW j \in Jobs,
         WorkerStep(j) \/ Heartbeat(j) \/ Probe(j) \/ WorkerFault(j)
  PROVE  IInv'
<1>1. TypeOK /\ TypeOK' /\ RunInv /\ VerdictInv
  BY WorkerType DEF IInv
<1> USE <1>1
<1>2. CASE Claim(j)
  BY <1>2, ClaimInv
<1>3. CASE SkipClaim(j) \/ StopRun(j) \/ JobError(j)
  BY <1>3, EndJobInv DEF SkipClaim, StopRun, JobError
<1>4. CASE Authorize(j)
  BY <1>4, AdvanceInv DEF Authorize, Claimed, Live, Supervised, Failing
<1>5. CASE StartAgent(j)
  <2>1. UNCHANGED <<scan, api, verdict, probes>> /\ session' = "running"
    BY <1>5 DEF StartAgent
  <2>2. run[j].pc = "start" /\ "start" \in Claimed /\ "agent" \in Claimed
    BY <1>5 DEF StartAgent, Claimed, Live, Supervised
  <2>3. /\ run'[j].pc = "agent" /\ run'[j].attempt = run[j].attempt
        /\ run'[j].active => scan.optIn /\ scan.attempts = 1
    BY <1>5 DEF StartAgent, TypeOK, Execution
  <2>4. ASSUME NEW k \in Jobs, k # j PROVE run'[k] = run[k]
    BY <1>5, <2>4 DEF StartAgent, TypeOK
  <2>5. run[j].attempt \in 1..scan.attempts /\ (Owns(j) => run[j].attempt = scan.attempts)
    BY <2>2 DEF RunInv
  <2>6. scan.attempts = 1 => run[j].attempt = 1
    BY <2>5
  <2>7. ASSUME NEW k \in Jobs
        PROVE  /\ run'[k].pc \in Claimed => run'[k].attempt \in 1..scan'.attempts
               /\ run'[k].pc \in Claimed /\ Owns(k)' => run'[k].attempt = scan'.attempts
               /\ run'[k].active => run'[k].pc \in Claimed /\ run'[k].attempt = 1 /\ scan'.optIn
    <3>1. CASE k = j
      BY <2>1, <2>2, <2>3, <2>5, <2>6, <3>1 DEF Owns
    <3>2. CASE k # j
      BY <2>1, <2>4, <3>2 DEF RunInv, Owns
    <3> QED BY <3>1, <3>2
  <2>8. RunInv'
    BY <2>7 DEF RunInv, Claimed
  <2>9. VerdictInv'
    BY <2>1 DEF VerdictInv
  <2> QED BY <2>1, <2>8, <2>9, SameRow
<1>6. CASE FinishAgent(j)
  <2>1. /\ run[j].pc \in Claimed /\ "complete" \in Claimed /\ Advance(j, "complete")
        /\ session' = "complete" /\ UNCHANGED <<scan, api, verdict, probes>>
    BY <1>6 DEF FinishAgent, Claimed, Live, Supervised
  <2> QED BY <2>1, AdvanceInv
<1>7. CASE DeadlineReached(j) \/ InnerTimeout(j) \/ AgentError(j)
  <2>1. /\ run[j].pc \in Claimed /\ UNCHANGED <<scan, session, api, verdict, probes>>
        /\ \E pc \in {"timeout", "failing", "finalize_failed"} : Advance(j, pc)
    BY <1>7 DEF DeadlineReached, InnerTimeout, AgentError, Claimed, Live, Supervised
  <2>2. {"timeout", "failing", "finalize_failed"} \subseteq Claimed
    BY DEF Claimed, Live, Failing
  <2> QED BY <2>1, <2>2, AdvanceInv
<1>8. CASE FinalizeCompleted(j)
  BY <1>8, FinalizeInv DEF FinalizeCompleted
<1>9. CASE FinalizeTimedOut(j)
  BY <1>9, FinalizeInv DEF FinalizeTimedOut
<1>10. CASE FailScan(j)
  BY <1>10, FailScanInv
<1>11. CASE Heartbeat(j)
  <2>1. /\ scan'.status = scan.status /\ scan'.attempts = scan.attempts
        /\ scan'.worker = scan.worker /\ scan'.error = scan.error
        /\ scan'.optIn = scan.optIn /\ scan'.reports = scan.reports
        /\ UNCHANGED <<session, api, run, verdict, probes>>
    BY <1>11 DEF Heartbeat, TypeOK, ScanRow
  <2>2. RunInv'
    BY <2>1, RowRun DEF Owns
  <2>3. VerdictInv' /\ RowInv' /\ ReportIntegrity' /\ ErrorCodeHonest'
    BY <2>1 DEF IInv, VerdictInv, RowInv, ReportIntegrity, ErrorCodeHonest
  <2>4. ProbeInv' /\ SessionFailsWithScan'
    BY <2>1 DEF IInv, ProbeInv, ProbesNotReplayed, SessionFailsWithScan
  <2> QED BY <2>2, <2>3, <2>4 DEF IInv
<1>12. CASE Probe(j)
  <2>1. /\ UNCHANGED <<scan, session, api, run, verdict>> /\ run[j].active
        /\ probes' = probes \cup {run[j].attempt}
    BY <1>12 DEF Probe
  <2>2. run[j].attempt = 1 /\ scan.optIn /\ scan.attempts >= 1
    BY <2>1 DEF RunInv, TypeOK, ScanRow
  <2>3. scan.status \notin {"absent", "queued"}
    BY <2>2 DEF IInv, RowInv
  <2>4. RunInv' /\ VerdictInv'
    BY <2>1, RowRun DEF Owns, VerdictInv
  <2>5. RowInv' /\ ReportIntegrity' /\ SessionFailsWithScan'
    BY <2>1 DEF IInv, RowInv, ReportIntegrity, SessionFailsWithScan
  <2>6. ErrorCodeHonest'
    BY <2>1, <2>2 DEF IInv, ErrorCodeHonest
  <2>7. ProbeInv'
    BY <2>1, <2>2 DEF IInv, ProbeInv, ProbesNotReplayed
  <2> QED BY <2>4, <2>5, <2>6, <2>7 DEF IInv
<1>13. CASE Crash(j)
  <2>1. /\ UNCHANGED <<scan, session, api, verdict, probes>>
        /\ run' = [run EXCEPT ![j] = Dead]
    BY <1>13 DEF Crash
  <2>2. RunInv'
    BY <2>1, LeaveRun DEF Owns
  <2>3. VerdictInv'
    BY <2>1 DEF VerdictInv
  <2> QED BY <2>1, <2>2, <2>3, SameRow
<1> QED BY <1>2, <1>3, <1>4, <1>5, <1>6, <1>7, <1>8, <1>9, <1>10, <1>11, <1>12,
           <1>13 DEF WorkerStep, WorkerFault

\* The steps of a reaper keep the invariant, however old the row its verdict is from.
LEMMA ReaperInv ==
  ASSUME IInv, NEW r \in Reapers, ReaperRead(r) \/ ReaperAct(r) \/ ReaperAbort(r)
  PROVE  IInv'
<1>1. TypeOK /\ TypeOK' /\ RunInv /\ VerdictInv
  BY ReaperType DEF IInv
<1> USE <1>1
<1>2. UNCHANGED <<session, api, run, probes>>
  BY DEF ReaperRead, ReaperAct, ReapDeadline, ReapWorkerLost, ReapQueueTimeout,
         ReapRequeue, ReaperEnd, ReaperAbort
<1>3. ASSUME verdict' = [verdict EXCEPT ![r] = NoVerdict], scan'.attempts = scan.attempts
      PROVE  VerdictInv'
  BY <1>3 DEF VerdictInv, NoVerdict, TypeOK
<1>4. CASE ReaperRead(r)
  <2>1. UNCHANGED scan /\ verdict' = [verdict EXCEPT ![r] = Judgement]
    BY <1>4 DEF ReaperRead
  <2>2. Judgement.act = "worker_lost" => scan.attempts = MaxAttempts
    BY Constants DEF Judgement, NoVerdict, TypeOK, ScanRow
  <2>3. VerdictInv'
    BY <2>1, <2>2 DEF VerdictInv, TypeOK
  <2>4. RunInv'
    BY <1>2, <2>1, RowRun DEF Owns
  <2> QED BY <1>2, <2>1, <2>3, <2>4, SameRow
<1>5. CASE ReapRequeue(r) \/ ReaperAbort(r)
  <2>1. UNCHANGED scan /\ VerdictInv'
    BY <1>3, <1>5 DEF ReapRequeue, ReaperAbort
  <2>2. RunInv'
    BY <1>2, <2>1, RowRun DEF Owns
  <2> QED BY <1>2, <2>1, <2>2, SameRow
<1>6. ASSUME NEW act, NEW from \in {"queued", "running"},
             NEW to \in Terminal \ {"completed"}, NEW error,
             ReaperEnd(r, act, from, to, error),
             error \in {"queue_unavailable", "queue_timeout"} => from = "queued",
             error = "worker_lost" => act = "worker_lost"
      PROVE  IInv'
  <2>1. verdict' = [verdict EXCEPT ![r] = NoVerdict]
    BY <1>6 DEF ReaperEnd
  <2>2. CASE UNCHANGED scan
    <3>1. RunInv' /\ VerdictInv'
      BY <1>2, <1>3, <2>1, <2>2, RowRun DEF Owns
    <3> QED BY <1>2, <2>2, <3>1, SameRow
  <2>3. CASE Transition({from}, to, error)
    <3>1. {from} \in SUBSET Active
      BY DEF Active
    <3>2. /\ \A k \in Jobs : ~Owns(k)'
          /\ scan'.attempts = scan.attempts /\ scan'.optIn = scan.optIn
      BY <2>3, <3>1, EndedRow
    <3>3. RunInv' /\ VerdictInv'
      BY <1>2, <1>3, <2>1, <3>2, RowRun
    <3>4. error = "worker_lost" => scan.attempts = MaxAttempts
      BY <1>6 DEF ReaperEnd, VerdictInv
    <3>5. error \in {"queue_unavailable", "queue_timeout"} => {from} = {"queued"}
      BY <1>6
    <3> QED BY <1>2, <2>3, <3>1, <3>3, <3>4, <3>5, FailedRow
  <2> QED BY <1>6, <2>2, <2>3 DEF ReaperEnd
<1>7. CASE ReapDeadline(r)
  BY <1>6, <1>7 DEF ReapDeadline, Terminal
<1>8. CASE ReapWorkerLost(r)
  BY <1>6, <1>8 DEF ReapWorkerLost, Terminal
<1>9. CASE ReapQueueTimeout(r)
  BY <1>6, <1>9 DEF ReapQueueTimeout, Terminal
<1> QED BY <1>4, <1>5, <1>7, <1>8, <1>9 DEF ReaperAct

\* Every step keeps the invariant.
LEMMA NextInv == IInv /\ [Next]_vars => IInv'
<1> SUFFICES ASSUME IInv, [Next]_vars PROVE IInv' OBVIOUS
<1>1. TypeOK /\ TypeOK'
  BY NextType DEF IInv
<1>2. CASE Tick
  <2>1. /\ scan'.status = scan.status /\ scan'.attempts = scan.attempts
        /\ scan'.worker = scan.worker /\ scan'.error = scan.error
        /\ scan'.optIn = scan.optIn /\ scan'.reports = scan.reports
        /\ UNCHANGED <<session, api, run, verdict, probes>>
    BY <1>1, <1>2 DEF Tick, TypeOK, ScanRow
  <2>2. RunInv'
    BY <2>1, RowRun DEF IInv, Owns
  <2>3. VerdictInv' /\ RowInv' /\ ReportIntegrity' /\ ErrorCodeHonest'
    BY <2>1 DEF IInv, VerdictInv, RowInv, ReportIntegrity, ErrorCodeHonest
  <2>4. ProbeInv' /\ SessionFailsWithScan'
    BY <2>1 DEF IInv, ProbeInv, ProbesNotReplayed, SessionFailsWithScan
  <2> QED BY <1>1, <2>2, <2>3, <2>4 DEF IInv
<1>3. CASE UNCHANGED vars
  BY <1>1, <1>3, RowRun, SameRow DEF vars, IInv, VerdictInv, Owns
<1> QED BY <1>2, <1>3, ApiInv, QueueInv, WorkerInv, ReaperInv DEF Next
\* The inductive invariant holds of every behaviour.
THEOREM Inductive == Spec => []IInv
BY InitInv, NextInv, PTL DEF Spec

\* The safety invariants of the runs, for every value of the constants: reports
\* and completion agree, error codes are honest, active probes are not replayed,
\* and a session fails only with its scan.
THEOREM ReportsIntact == Spec => []ReportIntegrity
<1>1. IInv => ReportIntegrity BY DEF IInv
<1> QED BY <1>1, Inductive, PTL

\* The error code tells what happened (ErrorCodeHonest).
THEOREM ErrorsHonest == Spec => []ErrorCodeHonest
<1>1. IInv => ErrorCodeHonest BY DEF IInv
<1> QED BY <1>1, Inductive, PTL

\* Only the first attempt of a scan that opted in sends active probes
\* (ProbesNotReplayed).
THEOREM ProbesOnce == Spec => []ProbesNotReplayed
<1>1. IInv => ProbesNotReplayed BY DEF IInv, ProbeInv
<1> QED BY <1>1, Inductive, PTL

\* A session fails only with its scan (SessionFailsWithScan).
THEOREM SessionsFollow == Spec => []SessionFailsWithScan
<1>1. IInv => SessionFailsWithScan BY DEF IInv
<1> QED BY <1>1, Inductive, PTL

-----------------------------------------------------------------------------
(* What a step does to the row *)

Keep ==
  /\ scan'.status = scan.status /\ scan'.attempts = scan.attempts
  /\ scan'.error = scan.error /\ scan'.reports = scan.reports
  /\ scan'.deadline \in {scan.deadline, CountDown(scan.deadline, 0)}

Insert ==
  /\ scan.status = "absent" /\ scan'.status = "queued"
  /\ scan'.attempts = scan.attempts /\ scan'.reports = scan.reports
  /\ scan'.deadline = scan.deadline

Take ==
  /\ scan.status \in Active /\ scan'.status = "running"
  /\ scan.attempts < MaxAttempts /\ scan'.attempts = scan.attempts + 1
  /\ scan'.reports = scan.reports
  /\ scan.deadline # Null => scan'.deadline = scan.deadline

End ==
  /\ \/ scan.status \in Active /\ scan'.status \in {"failed", "cancelled"}
     \/ scan.status = "running" /\ scan'.status = "timed_out"
  /\ scan'.attempts = scan.attempts /\ scan'.reports = scan.reports
  /\ scan'.deadline = scan.deadline

Finish ==
  /\ scan.status = "running" /\ scan'.status \in {"completed", "timed_out"}
  /\ scan'.attempts = scan.attempts /\ scan'.reports = scan.reports + 1
  /\ scan'.deadline = scan.deadline
  /\ \E j \in Jobs : /\ run[j].pc \in {"complete", "timeout"}
                     /\ run[j].attempt = scan.attempts
                     /\ run'[j].pc = "idle"

\* A transition that writes no report.
LEMMA TransitionRow ==
  ASSUME TypeOK, NEW from \in SUBSET Active, NEW to \in {"failed", "cancelled", "timed_out"},
         to = "timed_out" => from = {"running"},
         NEW error, Transition(from, to, error)
  PROVE  End
BY DEF Transition, TypeOK, ScanRow, End

\* Every step keeps the row, inserts it, claims it, or ends it.
LEMMA RowStep ==
  ASSUME IInv, [Next]_vars
  PROVE  Keep \/ Insert \/ Take \/ End \/ Finish
<1>1. TypeOK /\ scan \in ScanRow
  BY DEF IInv, TypeOK
<1>2. UNCHANGED scan => Keep
  BY DEF Keep
<1>3. {"queued"} \in SUBSET Active /\ {"running"} \in SUBSET Active /\ Active \in SUBSET Active
  BY DEF Active
<1>4. CASE Tick
  BY <1>1, <1>4 DEF Tick, Keep, ScanRow
<1>5. CASE ApiStep
  <2>1. CASE CreateScan
    BY <1>1, <2>1 DEF CreateScan, IInv, RowInv, Insert, ScanRow
  <2>2. CASE Compensate
    BY <1>1, <1>2, <1>3, <2>2, TransitionRow DEF Compensate
  <2>3. CASE CancelScan
    BY <1>1, <1>3, <2>3, TransitionRow DEF CancelScan
  <2>4. CASE EnqueueAccepted \/ EnqueueRefused \/ ApiCrash
    BY <1>2, <2>4 DEF EnqueueAccepted, EnqueueRefused, ApiCrash
  <2> QED BY <1>5, <2>1, <2>2, <2>3, <2>4 DEF ApiStep
<1>6. ASSUME NEW j \in Jobs, QueueStep(j) PROVE Keep
  BY <1>2, <1>6 DEF QueueStep, StartJob, ExhaustJob, ExpireResult, LoseJob, Redeliver
<1>7. ASSUME NEW j \in Jobs, WorkerStep(j)
      PROVE  Keep \/ Take \/ End \/ Finish
  <2>1. CASE Claim(j)
    BY <1>1, <2>1 DEF Claim, Claimable, Take, ScanRow, Active
  <2>2. CASE FailScan(j)
    BY <1>1, <1>2, <1>3, <2>2, TransitionRow DEF FailScan
  <2>3. ASSUME NEW pc \in {"complete", "timeout"}, NEW to \in {"completed", "timed_out"},
               NEW error, Finalize(j, pc, to, error)
        PROVE  Keep \/ Finish
    <3>1. CASE ~Owns(j)
      BY <1>2, <2>3, <3>1 DEF Finalize
    <3>2. CASE Owns(j)
      <4>1. run[j].pc = pc /\ pc \in Claimed
        BY <2>3 DEF Finalize, Claimed, Live
      <4>2. run[j].attempt = scan.attempts
        BY <3>2, <4>1 DEF IInv, RunInv
      <4>3. run'[j].pc = "idle"
        BY <1>1, <2>3 DEF Finalize, EndJob, NotRunning, TypeOK
      <4>4. /\ scan'.status = to /\ scan'.attempts = scan.attempts
            /\ scan'.reports = scan.reports + 1 /\ scan'.deadline = scan.deadline
        <5>1. scan' = [scan EXCEPT !.status = to, !.lease = Null, !.error = error,
                                   !.reports = @ + 1]
          BY <2>3, <3>2 DEF Finalize
        <5> QED BY <1>1, <5>1 DEF ScanRow
      <4> QED BY <3>2, <4>1, <4>2, <4>3, <4>4 DEF Finish, Owns
    <3> QED BY <3>1, <3>2
  <2>4. CASE FinalizeCompleted(j) \/ FinalizeTimedOut(j)
    BY <2>3, <2>4 DEF FinalizeCompleted, FinalizeTimedOut
  <2>5. CASE SkipClaim(j) \/ Authorize(j) \/ StartAgent(j) \/ FinishAgent(j)
             \/ DeadlineReached(j) \/ StopRun(j)
    BY <1>2, <2>5 DEF SkipClaim, Authorize, StartAgent, FinishAgent, DeadlineReached, StopRun
  <2> QED BY <1>7, <2>1, <2>2, <2>4, <2>5 DEF WorkerStep
<1>8. ASSUME NEW j \in Jobs, Heartbeat(j) \/ Probe(j) \/ WorkerFault(j) PROVE Keep
  <2>1. CASE Heartbeat(j)
    BY <1>1, <2>1 DEF Heartbeat, Keep, ScanRow
  <2>2. CASE Probe(j) \/ WorkerFault(j)
    BY <1>2, <2>2 DEF Probe, WorkerFault, AgentError, InnerTimeout, JobError, Crash
  <2> QED BY <1>8, <2>1, <2>2
<1>9. ASSUME NEW r \in Reapers, ReaperRead(r) \/ ReaperAct(r) \/ ReaperAbort(r)
      PROVE  Keep \/ End
  <2>1. CASE ReapDeadline(r) \/ ReapWorkerLost(r) \/ ReapQueueTimeout(r)
    BY <1>1, <1>2, <1>3, <2>1, TransitionRow
       DEF ReapDeadline, ReapWorkerLost, ReapQueueTimeout, ReaperEnd
  <2>2. CASE ReaperRead(r) \/ ReapRequeue(r) \/ ReaperAbort(r)
    BY <1>2, <2>2 DEF ReaperRead, ReapRequeue, ReaperAbort
  <2> QED BY <1>9, <2>1, <2>2 DEF ReaperAct
<1>10. CASE UNCHANGED vars
  BY <1>2, <1>10 DEF vars
<1> QED BY <1>4, <1>5, <1>6, <1>7, <1>8, <1>9, <1>10 DEF Next

\* No step of any actor changes a terminal scan.
THEOREM TerminalIsFinal == Spec => TerminalFinal
<1>1. IInv /\ [Next]_vars =>
        (scan.status \in Terminal =>
           /\ scan'.status = scan.status /\ scan'.error = scan.error
           /\ scan'.reports = scan.reports /\ scan'.attempts = scan.attempts)
  BY RowStep DEF Keep, Insert, Take, End, Finish, Active, Terminal
<1> QED BY <1>1, Inductive, PTL DEF Spec, TerminalFinal

\* Only the execution with the last claim writes the report.
THEOREM OnlyLastClaimFinishes == Spec => FencedFinish
<1>1. IInv /\ [Next]_vars =>
        (scan'.reports # scan.reports =>
           \E j \in Jobs : /\ run[j].pc \in {"complete", "timeout"}
                           /\ run[j].attempt = scan.attempts
                           /\ run'[j].pc = "idle")
  BY RowStep DEF Keep, Insert, Take, End, Finish
<1> QED BY <1>1, Inductive, PTL DEF Spec, FencedFinish

\* Once set, the deadline is moved by the clock alone.
THEOREM BudgetIsFixed == Spec => BudgetNeverExtended
<1>1. IInv /\ [Next]_vars =>
        (scan.deadline # Null =>
           scan'.deadline \in {scan.deadline, CountDown(scan.deadline, 0)})
  BY RowStep DEF Keep, Insert, Take, End, Finish
<1> QED BY <1>1, Inductive, PTL DEF Spec, BudgetNeverExtended

\* The lifecycle implements the contract: a step of the row is a step of the
\* contract, every other step leaves the contract's variables alone.
THEOREM LifecycleImplementsContract == Spec => ImplementsContract
<1>1. Init => Contract!Init
  BY DEF Init, Contract!Init
<1>2. IInv /\ [Next]_vars => [Contract!Next]_(Contract!vars)
  <2> SUFFICES ASSUME IInv, [Next]_vars PROVE [Contract!Next]_(Contract!vars) OBVIOUS
  <2>1. CASE Keep
    BY <2>1 DEF Keep, Contract!vars
  <2>2. CASE Insert
    BY <2>2 DEF Insert, Contract!Next, Contract!Submit
  <2>3. CASE Take
    BY <2>3 DEF Take, Active, Contract!Next, Contract!Execute
  <2>4. CASE End
    BY <2>4 DEF End, Active, Contract!Next, Contract!GiveUp, Contract!TimeOut
  <2>5. CASE Finish
    BY <2>5 DEF Finish, Contract!Next, Contract!Complete, Contract!TimeOut
  <2> QED BY <2>1, <2>2, <2>3, <2>4, <2>5, RowStep
<1> QED BY <1>1, <1>2, Inductive, PTL DEF Spec, ImplementsContract, Contract!Spec
=============================================================================
