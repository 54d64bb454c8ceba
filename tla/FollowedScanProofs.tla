------------------------- MODULE FollowedScanProofs -------------------------
(***************************************************************************)
(* The pages that follow a scan, with the lifecycle in place of the row:   *)
(* every step of the API, the workers and the reaper is a step that        *)
(* ScanPage lets the scan take, so what ScanPageProofs proves of the pages *)
(* holds of the lifecycle, with its reports, too.                          *)
(***************************************************************************)
EXTENDS FollowedScan, ScanLifecycleProofs

\* ScanPage again, with its invariant and the lemmas about it.
FP == INSTANCE ScanPageProofs
        WITH pending <- announced, Outcomes <- {"completed", "failed", "timed_out"}

-----------------------------------------------------------------------------
(* The lifecycle does not notice that it is followed *)

LEMMA FollowedInitRow == FollowedInit => IInv
BY InitInv DEF FollowedInit

LEMMA FollowedStepRow == [FollowedNext]_followedVars => [Next]_vars
<1> SUFFICES ASSUME [FollowedNext]_followedVars PROVE [Next]_vars
  OBVIOUS
<1>1. CASE AnnouncedStep
  BY <1>1 DEF AnnouncedStep, Next, ApiStep, WorkerStep, ReaperAct
<1>2. CASE QuietStep
  BY <1>2 DEF QuietStep, Next, ApiStep, WorkerStep, ReaperAct
<1>3. ASSUME NEW j \in Jobs, StoreFinding(j) PROVE UNCHANGED vars
  BY <1>3 DEF StoreFinding
<1>4. ASSUME NEW s, Deliver(s) \/ Drop(s) PROVE UNCHANGED vars
  BY <1>4 DEF Deliver, Drop
<1>5. ASSUME NEW p \in Pages, PageStep(p) \/ AnswerCancel(p) PROVE [Next]_vars
  BY <1>5 DEF PageStep, AnswerCancel, Next, ApiStep
<1>6. CASE UNCHANGED followedVars
  BY <1>6 DEF followedVars
<1> QED
  BY <1>1, <1>2, <1>3, <1>4, <1>5, <1>6 DEF FollowedNext

\* A followed scan lives as one that nobody follows: what is proved of the lifecycle holds.
THEOREM LifecycleUndisturbed == FollowedSpec => Spec
<1>1. FollowedInit => Init
  BY DEF FollowedInit
<1> QED
  BY <1>1, FollowedStepRow, PTL DEF FollowedSpec, Spec

LEMMA FollowedRow == FollowedSpec => []IInv
BY FollowedInitRow, FollowedStepRow, NextInv, PTL DEF FollowedSpec

-----------------------------------------------------------------------------
(* The executions that ScanPage takes for announced *)

SomeStarting == \E j \in Jobs : Starting(j)

LEMMA AnnouncedParts ==
  /\ SomeStarting => announced = pending \cup {"running"}
  /\ ~SomeStarting => announced = pending
BY DEF SomeStarting, announced

\* One execution moves on, and does not begin to start.
LEMMA OneRun ==
  ASSUME TypeOK, NEW j \in Jobs, NEW e, run' = [run EXCEPT ![j] = e],
         e.pc \in {"authorize", "start"} => Starting(j)
  PROVE  SomeStarting' => SomeStarting
<1>1. ASSUME NEW i \in Jobs, Starting(i)' PROVE SomeStarting
  <2>1. CASE i = j
    <3>1. run'[j] = e
      BY DEF TypeOK
    <3> QED
      BY <1>1, <2>1, <3>1 DEF Starting, SomeStarting
  <2>2. CASE i # j
    <3>1. run'[i] = run[i]
      BY <2>2 DEF TypeOK
    <3> QED
      BY <1>1, <3>1 DEF Starting, SomeStarting
  <2> QED
    BY <2>1, <2>2
<1> QED
  BY <1>1 DEF SomeStarting

LEMMA OneAdvance ==
  ASSUME TypeOK, NEW j \in Jobs, NEW pc, Advance(j, pc),
         pc \in {"authorize", "start"} => Starting(j)
  PROVE  SomeStarting' => SomeStarting
<1> DEFINE e == [run[j] EXCEPT !.pc = pc]
<1>1. e.pc = pc /\ run' = [run EXCEPT ![j] = e]
  BY DEF Advance, TypeOK, Execution
<1> HIDE DEF e
<1> QED
  BY <1>1, OneRun

LEMMA OneEnd ==
  ASSUME TypeOK, NEW j \in Jobs, EndJob(j)
  PROVE  SomeStarting' => SomeStarting
BY OneRun DEF EndJob, NotRunning

\* A step that leaves the row alone is none for the pages; the announcement of an
\* execution that ends before its agent starts is lost.
LEMMA SameRowStep ==
  ASSUME Quietly, scan'.attempts = scan.attempts, row' = row,
         SomeStarting' => SomeStarting
  PROVE  [Follower!Next]_(Follower!vars)
<1>1. /\ UNCHANGED <<findings, due, pending, page>>
      /\ started' = started
  BY DEF Quietly, started
<1>2. CASE announced' = announced
  BY <1>1, <1>2 DEF Follower!vars
<1>3. CASE announced' # announced
  <2>1. SomeStarting /\ ~SomeStarting'
    BY <1>1, <1>3 DEF SomeStarting, announced
  <2>2. announced = pending \cup {"running"} /\ announced' = pending /\ "running" \notin pending
    BY <1>1, <1>3, <2>1 DEF SomeStarting, announced
  <2>3. Follower!Lose("running")
    BY <1>1, <2>2 DEF Follower!Lose, Follower!scanVars
  <2> QED
    BY <2>3 DEF Follower!Next, Follower!Status, Follower!Active
<1> QED
  BY <1>2, <1>3

LEMMA SameScanStep ==
  ASSUME Quietly, UNCHANGED scan, SomeStarting' => SomeStarting
  PROVE  [Follower!Next]_(Follower!vars)
BY SameRowStep DEF row

\* An execution past its start moves on without a trace in the announcements.
LEMMA OneRunPast ==
  ASSUME TypeOK, NEW j \in Jobs, NEW e, run' = [run EXCEPT ![j] = e],
         ~Starting(j), e.pc \notin {"authorize", "start"}
  PROVE  SomeStarting' <=> SomeStarting
<1>1. run'[j] = e /\ \A i \in Jobs : i # j => run'[i] = run[i]
  BY DEF TypeOK
<1>2. \A i \in Jobs : Starting(i)' <=> Starting(i)
  BY <1>1 DEF Starting
<1> QED
  BY <1>2 DEF SomeStarting

\* The running scan is ended, and the end announced.
LEMMA EndedStep ==
  ASSUME NEW s \in {"completed", "failed", "timed_out"}, Publishing(s),
         scan.status = "running", scan'.status = s, scan'.attempts = scan.attempts,
         SomeStarting' <=> SomeStarting
  PROVE  Follower!Next
<1>1. row = "running" /\ row' = s /\ started' = started
  BY DEF row, started
<1>2. announced' = announced \cup {s} /\ UNCHANGED <<findings, due, page>>
  BY DEF SomeStarting, announced, Publishing
<1>3. Follower!End(s)
  BY <1>1, <1>2 DEF Follower!End
<1> QED
  BY <1>3 DEF Follower!Next, Follower!Scan

\* The scan is cancelled, by a page or by somebody else.
LEMMA CancelledRow ==
  ASSUME IInv, CancelScan, pending' = pending \cup {"cancelled"}
  PROVE  /\ row \in Active /\ row' = "cancelled" /\ started' = started
         /\ announced' = announced \cup {"cancelled"}
<1>1. scan.status \in Active /\ scan'.status = "cancelled" /\ scan'.attempts = scan.attempts
  BY DEF CancelScan, Transition, IInv, TypeOK, ScanRow
<1>2. SomeStarting' <=> SomeStarting
  BY DEF CancelScan, SomeStarting, Starting
<1> QED
  BY <1>1, <1>2 DEF row, started, Active, SomeStarting, announced

-----------------------------------------------------------------------------
(* Announced steps *)

LEMMA FinalizeStep ==
  ASSUME IInv, NEW j \in Jobs, NEW pc \in {"complete", "timeout"},
         NEW to \in {"completed", "timed_out"}, NEW error,
         Finalize(j, pc, to, error), IfChanged(to)
  PROVE  [Follower!Next]_(Follower!vars)
<1>1. TypeOK /\ scan \in ScanRow
  BY DEF IInv, TypeOK
<1>2. SomeStarting' <=> SomeStarting
  BY <1>1, OneRunPast DEF Finalize, EndJob, NotRunning, Starting
<1>3. CASE scan' = scan
  BY <1>2, <1>3, SameScanStep DEF IfChanged
<1>4. CASE scan' # scan
  <2>1. /\ scan.status = "running"
        /\ scan' = [scan EXCEPT !.status = to, !.lease = Null, !.error = error, !.reports = @ + 1]
    BY <1>4 DEF Finalize, Owns
  <2>2. scan'.status = to /\ scan'.attempts = scan.attempts
    BY <1>1, <2>1 DEF ScanRow
  <2> QED
    BY <1>2, <1>4, <2>1, <2>2, EndedStep DEF IfChanged
<1> QED
  BY <1>3, <1>4

LEMMA FailScanStep ==
  ASSUME IInv, NEW j \in Jobs, FailScan(j), IfChanged("failed")
  PROVE  [Follower!Next]_(Follower!vars)
<1>1. TypeOK /\ scan \in ScanRow
  BY DEF IInv, TypeOK
<1>2. SomeStarting' <=> SomeStarting
  BY <1>1, OneRunPast DEF FailScan, EndJob, NotRunning, Failing, Starting
<1>3. CASE scan' = scan
  BY <1>2, <1>3, SameScanStep DEF IfChanged
<1>4. CASE scan' # scan
  <2>1. /\ scan.status = "running"
        /\ scan'.status = "failed" /\ scan'.attempts = scan.attempts
    BY <1>1, <1>4 DEF FailScan, Transition, ScanRow
  <2> QED
    BY <1>2, <1>4, <2>1, EndedStep DEF IfChanged
<1> QED
  BY <1>3, <1>4

LEMMA ReaperEndStep ==
  ASSUME IInv, NEW r \in Reapers, NEW act, NEW to \in {"failed", "timed_out"}, NEW error,
         ReaperEnd(r, act, "running", to, error), IfChanged(to)
  PROVE  [Follower!Next]_(Follower!vars)
<1>1. scan \in ScanRow
  BY DEF IInv, TypeOK
<1>2. SomeStarting' <=> SomeStarting
  BY DEF ReaperEnd, SomeStarting, Starting
<1>3. CASE scan' = scan
  BY <1>2, <1>3, SameScanStep DEF IfChanged
<1>4. CASE scan' # scan
  <2>1. scan.status = "running" /\ scan'.status = to /\ scan'.attempts = scan.attempts
    BY <1>1, <1>4 DEF ReaperEnd, Transition, ScanRow
  <2> QED
    BY <1>2, <1>4, <2>1, EndedStep DEF IfChanged
<1> QED
  BY <1>3, <1>4

LEMMA AnnouncedStepFollows ==
  ASSUME IInv, AnnouncedStep
  PROVE  [Follower!Next]_(Follower!vars)
<1>1. CASE CancelScan /\ Publishing("cancelled")
  <2>1. Follower!CancelElsewhere
    BY <1>1, CancelledRow DEF Publishing, Follower!CancelElsewhere, Follower!Active, Active
  <2> QED
    BY <2>1 DEF Follower!Next, Follower!Scan
<1>2. ASSUME NEW j \in Jobs, StartAgent(j), Publishing("running")
      PROVE  [Follower!Next]_(Follower!vars)
  <2>1. SomeStarting /\ UNCHANGED scan
    BY <1>2 DEF StartAgent, Starting, SomeStarting
  <2>2. announced' = announced
    <3>1. announced = pending \cup {"running"} /\ pending' = pending \cup {"running"}
      BY <1>2, <2>1, AnnouncedParts DEF Publishing
    <3> QED
      BY <3>1 DEF announced
  <2> QED
    BY <1>2, <2>1, <2>2 DEF Publishing, row, started, Follower!vars
<1>3. ASSUME NEW j \in Jobs,
             \/ FinalizeCompleted(j) /\ IfChanged("completed")
             \/ FinalizeTimedOut(j) /\ IfChanged("timed_out")
             \/ FailScan(j) /\ IfChanged("failed")
      PROVE  [Follower!Next]_(Follower!vars)
  BY <1>3, FinalizeStep, FailScanStep DEF FinalizeCompleted, FinalizeTimedOut
<1>4. ASSUME NEW r \in Reapers,
             \/ ReapDeadline(r) /\ IfChanged("timed_out")
             \/ ReapWorkerLost(r) /\ IfChanged("failed")
      PROVE  [Follower!Next]_(Follower!vars)
  BY <1>4, ReaperEndStep DEF ReapDeadline, ReapWorkerLost
<1> QED
  BY <1>1, <1>2, <1>3, <1>4 DEF AnnouncedStep

-----------------------------------------------------------------------------
(* Steps that are not announced *)

\* The API, the clock and the reaper start nothing; a scan that fails in the queue is one
\* that ScanPage lets fail unannounced.
LEMMA FailedInQueue ==
  ASSUME IInv, Quietly, UNCHANGED run, NEW error, Transition({"queued"}, "failed", error)
  PROVE  Follower!Next
<1>1. scan.status = "queued" /\ scan'.status = "failed" /\ scan'.attempts = scan.attempts
  BY DEF Transition, IInv, TypeOK, ScanRow
<1>2. SomeStarting' <=> SomeStarting
  BY DEF SomeStarting, Starting
<1>3. row = "queued" /\ row' = "failed" /\ started' = started /\ announced' = announced
  BY <1>1, <1>2 DEF Quietly, SomeStarting, announced, row, started
<1>4. Follower!EndQueued
  BY <1>3 DEF Quietly, Follower!EndQueued
<1> QED
  BY <1>4 DEF Follower!Next, Follower!Scan

LEMMA QuietApiStep ==
  ASSUME IInv, Quietly,
         Tick \/ CreateScan \/ EnqueueAccepted \/ EnqueueRefused \/ Compensate \/ ApiCrash
  PROVE  [Follower!Next]_(Follower!vars)
<1>1. scan \in ScanRow
  BY DEF IInv, TypeOK
<1>2. UNCHANGED run
  BY DEF Tick, CreateScan, EnqueueAccepted, EnqueueRefused, Compensate, ApiCrash
<1>3. SomeStarting' => SomeStarting
  BY <1>2 DEF SomeStarting, Starting
<1>4. CASE Tick
  <2>1. scan'.status = scan.status /\ scan'.attempts = scan.attempts
    BY <1>1, <1>4 DEF Tick, ScanRow
  <2> QED
    BY <1>3, <2>1, SameRowStep DEF row
<1>5. CASE CreateScan
  <2>1. scan.status = "absent" /\ scan'.status = "queued" /\ scan'.attempts = scan.attempts
    BY <1>1, <1>5 DEF CreateScan, IInv, RowInv, ScanRow
  <2> QED
    BY <1>3, <2>1, SameRowStep DEF row
<1>6. CASE Compensate
  BY <1>2, <1>3, <1>6, FailedInQueue, SameScanStep DEF Compensate
<1>7. CASE EnqueueAccepted \/ EnqueueRefused \/ ApiCrash
  BY <1>3, <1>7, SameScanStep DEF EnqueueAccepted, EnqueueRefused, ApiCrash
<1> QED
  BY <1>4, <1>5, <1>6, <1>7

LEMMA QuietReaperStep ==
  ASSUME IInv, Quietly, NEW r \in Reapers,
         ReaperRead(r) \/ ReapQueueTimeout(r) \/ ReapRequeue(r) \/ ReaperAbort(r)
  PROVE  [Follower!Next]_(Follower!vars)
<1>1. UNCHANGED run
  BY DEF ReaperRead, ReapQueueTimeout, ReaperEnd, ReapRequeue, ReaperAbort
<1>2. SomeStarting' => SomeStarting
  BY <1>1 DEF SomeStarting, Starting
<1>3. CASE ReapQueueTimeout(r)
  BY <1>1, <1>2, <1>3, FailedInQueue, SameScanStep DEF ReapQueueTimeout, ReaperEnd
<1>4. CASE ReaperRead(r) \/ ReapRequeue(r) \/ ReaperAbort(r)
  BY <1>2, <1>4, SameScanStep DEF ReaperRead, ReapRequeue, ReaperAbort
<1> QED
  BY <1>3, <1>4

\* A claim announces the execution it begins.
LEMMA ClaimStep ==
  ASSUME IInv, Quietly, NEW j \in Jobs, Claim(j)
  PROVE  Follower!Next
<1>1. scan \in ScanRow /\ run \in [Jobs -> Execution]
  BY DEF IInv, TypeOK
<1>2. /\ scan.status \in Active /\ scan'.status = "running"
      /\ scan'.attempts = scan.attempts + 1
  BY <1>1 DEF Claim, Claimable, ScanRow, Active
<1>3. row \in Active /\ row' = "running"
  BY <1>2 DEF row, Active
<1>4. scan.attempts \in Nat
  BY <1>1, Constants, SMT DEF ScanRow
<1>5. started' = TRUE
  <2>1. scan'.attempts > 0
    BY <1>2, <1>4, SMT
  <2> QED
    BY <2>1 DEF started
<1>6. announced' = announced \cup {"running"}
  <2>1. run'[j].pc = "authorize"
    BY <1>1 DEF Claim
  <2>2. SomeStarting'
    BY <2>1 DEF SomeStarting, Starting
  <2> QED
    BY <2>2 DEF SomeStarting, announced, Quietly
<1>7. Follower!Claim
  BY <1>3, <1>5, <1>6 DEF Quietly, Follower!Claim, Follower!Active, Active
<1> QED
  BY <1>7 DEF Follower!Next, Follower!Scan

LEMMA QuietJobStep ==
  ASSUME IInv, Quietly, NEW j \in Jobs,
         \/ QueueStep(j) \/ Heartbeat(j) \/ Probe(j) \/ WorkerFault(j)
         \/ Claim(j) \/ SkipClaim(j) \/ Authorize(j) \/ FinishAgent(j)
         \/ DeadlineReached(j) \/ StopRun(j)
  PROVE  [Follower!Next]_(Follower!vars)
<1>1. TypeOK /\ scan \in ScanRow
  BY DEF IInv, TypeOK
<1>2. UNCHANGED run => (SomeStarting' => SomeStarting)
  BY DEF SomeStarting, Starting
<1>3. CASE QueueStep(j)
  <2>1. UNCHANGED scan
    BY <1>3 DEF QueueStep, StartJob, ExhaustJob, ExpireResult, LoseJob, Redeliver
  <2>2. CASE StartJob(j) \/ Redeliver(j)
    BY <1>1, <2>1, <2>2, OneRun, SameScanStep DEF StartJob, Redeliver, Picked, NotRunning
  <2>3. CASE ExhaustJob(j) \/ ExpireResult(j) \/ LoseJob(j)
    BY <1>2, <2>1, <2>3, SameScanStep DEF ExhaustJob, ExpireResult, LoseJob
  <2> QED
    BY <1>3, <2>2, <2>3 DEF QueueStep
<1>4. CASE Heartbeat(j)
  <2>1. scan'.status = scan.status /\ scan'.attempts = scan.attempts /\ UNCHANGED run
    BY <1>1, <1>4 DEF Heartbeat, ScanRow
  <2> QED
    BY <1>2, <2>1, SameRowStep DEF row
<1>5. CASE Probe(j)
  BY <1>2, <1>5, SameScanStep DEF Probe
<1>6. CASE Claim(j)
  BY <1>6, ClaimStep
<1>7. CASE SkipClaim(j) \/ StopRun(j) \/ JobError(j)
  BY <1>1, <1>7, OneEnd, SameScanStep DEF SkipClaim, StopRun, JobError
<1>8. CASE Authorize(j)
  BY <1>1, <1>8, OneAdvance, SameScanStep DEF Authorize, Starting
<1>9. CASE FinishAgent(j) \/ DeadlineReached(j) \/ InnerTimeout(j) \/ AgentError(j)
  BY <1>1, <1>9, OneAdvance, SameScanStep
     DEF FinishAgent, DeadlineReached, InnerTimeout, AgentError
<1>10. CASE Crash(j)
  BY <1>1, <1>10, OneRun, SameScanStep DEF Crash, Dead
<1> QED
  BY <1>3, <1>4, <1>5, <1>6, <1>7, <1>8, <1>9, <1>10 DEF WorkerFault

LEMMA QuietStepFollows ==
  ASSUME IInv, QuietStep
  PROVE  [Follower!Next]_(Follower!vars)
BY QuietApiStep, QuietReaperStep, QuietJobStep DEF QuietStep

-----------------------------------------------------------------------------
(* Findings, publications and pages *)

\* Only an execution that has claimed the scan runs an agent.
LEMMA StoreFindingStep ==
  ASSUME IInv, NEW j \in Jobs, StoreFinding(j)
  PROVE  Follower!Next
<1>1. started
  <2>1. run[j].attempt \in 1..scan.attempts /\ scan.attempts \in Nat
    BY Constants, SMT
       DEF StoreFinding, IInv, RunInv, Claimed, Live, Supervised, TypeOK, ScanRow
  <2>2. scan.attempts > 0
    BY <2>1, SMT
  <2> QED
    BY <2>2 DEF started
<1>2. UNCHANGED <<scan, run>>
  BY DEF StoreFinding, vars
<1>3. UNCHANGED <<row, started, announced, page>>
  BY <1>2 DEF StoreFinding, row, started, announced, Starting
<1>4. scan.status = "running" <=> row = "running"
  BY DEF row
<1>5. Follower!Persist
  BY <1>1, <1>3, <1>4 DEF StoreFinding, Follower!Persist
<1> QED
  BY <1>5 DEF Follower!Next, Follower!Scan

LEMMA PublicationStep ==
  ASSUME NEW s \in Follower!Status, Deliver(s) \/ Drop(s)
  PROVE  [Follower!Next]_(Follower!vars)
<1>1. /\ UNCHANGED <<scan, run, findings, due>> /\ s \in pending
      /\ pending' = pending \ {s} \/ (s = "running" /\ pending' = pending)
  BY DEF Deliver, Drop, vars
<1>2. UNCHANGED <<row, started>> /\ (SomeStarting' <=> SomeStarting) /\ s \in announced
  BY <1>1 DEF row, started, SomeStarting, Starting, announced
<1>3. \/ announced' = announced \ {s}
      \/ s = "running" /\ announced' = announced
  BY <1>1, <1>2 DEF SomeStarting, announced
<1>4. CASE Deliver(s)
  <2>1. Follower!Publish(s)
    BY <1>1, <1>2, <1>3, <1>4 DEF Deliver, Follower!Publish, Follower!scanVars
  <2> QED
    BY <2>1 DEF Follower!Next
<1>5. CASE Drop(s)
  <2>1. UNCHANGED page
    BY <1>5 DEF Drop
  <2>2. CASE announced' = announced
    BY <1>1, <1>2, <2>1, <2>2 DEF Follower!vars
  <2>3. CASE announced' = announced \ {s}
    <3>1. Follower!Lose(s)
      BY <1>1, <1>2, <2>1, <2>3 DEF Follower!Lose, Follower!scanVars
    <3> QED
      BY <3>1 DEF Follower!Next
  <2> QED
    BY <1>3, <2>2, <2>3
<1> QED
  BY <1>4, <1>5

LEMMA PageStepFollows ==
  ASSUME NEW p \in Pages, PageStep(p)
  PROVE  Follower!Next
BY DEF PageStep, Follower!Next, Follower!Cancel

LEMMA AnswerCancelFollows ==
  ASSUME IInv, NEW p \in Pages, AnswerCancel(p)
  PROVE  Follower!Next
<1>1. page[p].cancel = "sent" /\ UNCHANGED <<findings, due>>
  BY DEF AnswerCancel
<1>2. CASE /\ CancelScan /\ pending' = pending \cup {"cancelled"}
           /\ Follower!Becomes(p, [page[p] EXCEPT !.cancel = "done"])
  <2>1. Follower!AnswerCancel(p)
    BY <1>1, <1>2, CancelledRow DEF Follower!AnswerCancel, Follower!Active, Active
  <2> QED
    BY <2>1 DEF Follower!Next, Follower!Cancel
<1>3. CASE /\ scan.status \in Terminal /\ UNCHANGED <<vars, pending>>
           /\ Follower!Becomes(p, [page[p] EXCEPT !.cancel = "refused"])
  <2>1. row \notin Follower!Active /\ UNCHANGED <<row, started, announced>>
    BY <1>3 DEF row, started, announced, Starting, vars, Terminal, Follower!Active
  <2>2. Follower!AnswerCancel(p)
    BY <1>1, <1>3, <2>1 DEF Follower!AnswerCancel
  <2> QED
    BY <2>2 DEF Follower!Next, Follower!Cancel
<1> QED
  BY <1>2, <1>3 DEF AnswerCancel

-----------------------------------------------------------------------------
(* Theorems *)

LEMMA InitFollows == FollowedInit => Follower!Init
<1> SUFFICES ASSUME FollowedInit PROVE Follower!Init
  OBVIOUS
<1>1. scan.status = "absent" /\ scan.attempts = 0
  BY DEF FollowedInit, Init
<1>2. row = "queued" /\ started = FALSE
  BY <1>1 DEF row, started
<1>3. announced = {}
  BY DEF FollowedInit, Init, NotRunning, announced, Starting
<1> QED
  BY <1>2, <1>3 DEF FollowedInit, Follower!Init

LEMMA StepFollows == IInv /\ [FollowedNext]_followedVars => [Follower!Next]_(Follower!vars)
<1> SUFFICES ASSUME IInv, [FollowedNext]_followedVars PROVE [Follower!Next]_(Follower!vars)
  OBVIOUS
<1>1. CASE UNCHANGED followedVars
  BY <1>1 DEF followedVars, vars, row, started, announced, Starting, Follower!vars
<1> QED
  BY <1>1, AnnouncedStepFollows, QuietStepFollows, StoreFindingStep, PublicationStep,
     PageStepFollows, AnswerCancelFollows DEF FollowedNext

\* The lifecycle is a scan that ScanPage allows: what its actors do to the row, the claims
\* and the announcements, in whatever order, is what the pages may expect of a scan.
THEOREM LifecycleIsFollowed == FollowedSpec => FollowsScan
BY InitFollows, StepFollows, FollowedRow, PTL DEF FollowedSpec, FollowsScan

\* The steps that ScanPage names and those of its instance with the proofs are the same.
LEMMA SameFollower ==
  /\ Follower!Init <=> FP!Init
  /\ [Follower!Next]_(Follower!vars) <=> [FP!Next]_(FP!vars)
BY DEF Follower!Init, FP!Init, Follower!Scan, FP!Scan, Follower!Stream, FP!Stream,
  Follower!Answer, FP!Answer, Follower!Cancel, FP!Cancel, Follower!Next, FP!Next,
  Follower!Terminal, FP!Terminal, Follower!Active, FP!Active, Follower!Status,
  FP!Status, Follower!Load, FP!Load, Follower!Idle, FP!Idle, Follower!Asked, FP!Asked,
  Follower!Page, FP!Page, Follower!Claim, FP!Claim, Follower!Persist, FP!Persist,
  Follower!End, FP!End, Follower!EndQueued, FP!EndQueued, Follower!CancelElsewhere,
  FP!CancelElsewhere, Follower!Publish, FP!Publish, Follower!Lose, FP!Lose,
  Follower!Shows, FP!Shows, Follower!Free, FP!Free, Follower!Loads, FP!Loads,
  Follower!Becomes, FP!Becomes, Follower!OpenStream, FP!OpenStream, Follower!Subscribe,
  FP!Subscribe, Follower!BreakStream, FP!BreakStream, Follower!Receive, FP!Receive,
  Follower!Poll, FP!Poll, Follower!AnswerScan, FP!AnswerScan, Follower!TakeScan,
  FP!TakeScan, Follower!AnswerList, FP!AnswerList, Follower!EndLoad, FP!EndLoad,
  Follower!AskCancel, FP!AskCancel, Follower!AnswerCancel, FP!AnswerCancel,
  Follower!TakeCancel, FP!TakeCancel, Follower!CancelFails, FP!CancelFails,
  Follower!vars, FP!vars, Follower!scanVars, FP!scanVars

\* The invariant of the pages, together with that of the lifecycle.
FollowedInv == IInv /\ FP!IInv

LEMMA FollowedInvariance ==
  ASSUME Follower!PageAssumption
  PROVE  FollowedSpec => []FollowedInv
<1>0. FP!PageAssumption
  BY DEF FP!PageAssumption, Follower!PageAssumption
<1>1. FollowedInit => FollowedInv
  BY <1>0, FollowedInitRow, InitFollows, SameFollower, FP!InitInvariant DEF FollowedInv
<1>2. FollowedInv /\ [FollowedNext]_followedVars => FollowedInv'
  <2> SUFFICES ASSUME FollowedInv, [FollowedNext]_followedVars PROVE FollowedInv'
    OBVIOUS
  <2>1. IInv'
    BY FollowedStepRow, NextInv DEF FollowedInv
  <2>2. [FP!Next]_(FP!vars)
    BY StepFollows, SameFollower DEF FollowedInv
  <2>3. FP!IInv'
    BY <1>0, <2>2, FP!StepInvariant DEF FollowedInv
  <2> QED
    BY <2>1, <2>3 DEF FollowedInv
<1> QED
  BY <1>1, <1>2, PTL DEF FollowedSpec

\* Whoever shows or was told an end has the status of the scan.
EndsKnown == \A p \in Pages, s \in Terminal : Says(p, s) => scan.status = s

LEMMA EndsAreKnown == FollowedInv => EndsKnown
<1> SUFFICES ASSUME FollowedInv, NEW p \in Pages, NEW s \in Terminal, Says(p, s)
             PROVE  scan.status = s
  BY DEF EndsKnown
<1>1. s = row
  BY DEF Says, FollowedInv, FP!IInv, FP!Honest, FP!Known, FP!Terminal, Terminal
<1> QED
  BY <1>1 DEF row, Terminal

\* Every end a page shows or is told of is the one the scan has, with its report.
THEOREM EndsShownAreReal ==
  ASSUME Follower!PageAssumption
  PROVE  FollowedSpec => []EndsAreReal
<1>1. FollowedInv => EndsAreReal
  BY EndsAreKnown DEF EndsKnown, EndsAreReal, FollowedInv, IInv, ReportIntegrity
<1> QED
  BY <1>1, FollowedInvariance, PTL

\* A step from and to states in which all ends are known changes none of them.
LEMMA EndsStay ==
  ASSUME IInv, EndsKnown, EndsKnown', [Next]_vars,
         NEW p \in Pages, NEW s \in Terminal, Says(p, s)
  PROVE  /\ scan'.status = s /\ scan'.error = scan.error /\ scan'.reports = scan.reports
         /\ \A q \in Pages, other \in Terminal : Says(q, other)' => other = s
<1>1. scan.status = s
  BY DEF EndsKnown
<1>2. scan'.status = s /\ scan'.error = scan.error /\ scan'.reports = scan.reports
  BY <1>1, RowStep DEF Keep, Insert, Take, End, Finish, Active, Terminal
<1>3. ASSUME NEW q \in Pages, NEW other \in Terminal, Says(q, other)' PROVE other = s
  <2>1. scan'.status = other
    BY <1>3 DEF EndsKnown
  <2> QED
    BY <1>2, <2>1
<1> QED
  BY <1>2, <1>3

\* An end that was shown or told once is what everybody is shown and told from then on.
THEOREM EndsShownAgree ==
  ASSUME Follower!PageAssumption
  PROVE  FollowedSpec => EndsAgree
<1>1. FollowedSpec => []EndsKnown
  BY EndsAreKnown, FollowedInvariance, PTL
<1>2. IInv /\ EndsKnown /\ EndsKnown' /\ [FollowedNext]_followedVars =>
        \A p \in Pages, s \in Terminal : Says(p, s) =>
          /\ scan'.status = s /\ scan'.error = scan.error /\ scan'.reports = scan.reports
          /\ \A q \in Pages, other \in Terminal : Says(q, other)' => other = s
  BY EndsStay, FollowedStepRow
<1> QED
  BY <1>1, <1>2, FollowedRow, PTL DEF FollowedSpec, EndsAgree
=============================================================================
