---------------------------- MODULE ScanLifecycle ----------------------------
(***************************************************************************)
(* The life of one scan: the row in PostgreSQL that every actor updates by *)
(* compare-and-set (domain/scan_lifecycle.py), the API that creates and    *)
(* cancels it (api/v1/scans.py), the ARQ jobs that execute it              *)
(* (domain/services/agent_runner.py, scan_control.py) and the reaper that  *)
(* recovers it (domain/services/reaper.py).  Every statement of the code   *)
(* names one scan id, so one scan is modelled.                             *)
(*                                                                         *)
(* Every committed transaction is one action; what the code does between   *)
(* two transactions is another.  Times are stored relative to the clock    *)
(* (lease_expires_at - now, deadline_at - now, now - created_at) and stop  *)
(* counting once no comparison of the code can tell the difference, which  *)
(* keeps the state finite without a bound on the clock.                    *)
(*                                                                         *)
(* ARQ is external.  It refuses a job id while a job or a kept result with *)
(* that id exists, runs an id at most once at a time, and runs it again    *)
(* when the worker that had it goes away.                                  *)
(***************************************************************************)
EXTENDS Integers

CONSTANTS
  MaxAttempts,   \* settings.scan_max_attempts
  MaxTries,      \* WorkerSettings.max_tries: deliveries of one job
  Lease,         \* settings.scan_lease_seconds, in ticks
  Timeout,       \* settings.scan_global_timeout_seconds
  RequeueAfter,  \* settings.scan_requeue_after_seconds
  QueueMaxAge,   \* settings.scan_queue_max_age_seconds
  Reapers,       \* reap_stale_scans calls that may overlap
  Null           \* SQL NULL

ASSUME LimitsAssumption ==
  /\ MaxAttempts \in Nat \ {0} /\ MaxTries \in Nat \ {0}
  /\ Lease \in Nat /\ Timeout \in Nat \ {0}
  /\ RequeueAfter \in Nat /\ QueueMaxAge \in Nat /\ RequeueAfter < QueueMaxAge
ASSUME NullAssumption == Null \notin Int

VARIABLES
  scan,      \* the row of table scans
  session,   \* agent_sessions.status
  age,       \* now - scans.created_at
  api,       \* where the POST /scans request is
  queue,     \* ARQ: what Redis holds for each job id
  run,       \* the execution of each job id in a worker
  verdict,   \* what a reaper decided from the rows it read
  probes     \* history: the attempts that sent active probes

vars == <<scan, session, age, api, queue, run, verdict, probes>>

-----------------------------------------------------------------------------
(* Types *)

\* Job 0 is "scan:<id>", job n is "scan:<id>:attempt:<n>".
Jobs == 0..MaxAttempts
Original == 0

Terminal == {"completed", "failed", "cancelled", "timed_out"}
Active == {"queued", "running"}
Status == Active \cup Terminal \cup {"absent"}

ErrorCode == {"none", "denied", "queue_unavailable", "queue_timeout",
              "worker_lost", "timeout", "cancelled", "internal_error"}

\* ALLOWED_TRANSITIONS
Allowed == {"queued"} \X {"running", "failed", "cancelled"}
           \cup {"running"} \X Terminal

LeaseLeft == {Null} \cup -1..Lease
DeadlineLeft == {Null} \cup 0..Timeout

ScanRow == [status: Status, attempts: 0..MaxAttempts, lease: LeaseLeft,
            deadline: DeadlineLeft, worker: {Null} \cup Jobs,
            error: ErrorCode, optIn: BOOLEAN, reports: Nat]

\* Where an execution of run_agent_scan is: before a transaction (claim,
\* authorize, denied), in the supervised task (start, agent), or before the
\* transaction that ends the scan.  A dead one stopped with its worker.
Supervised == {"start", "agent"}
Failing == {"denied", "failing", "finalize_failed"}
Live == {"claim", "authorize", "complete", "timeout"} \cup Supervised \cup Failing
Execution == [pc: Live \cup {"idle", "dead"}, attempt: 0..MaxAttempts, active: BOOLEAN]
NotRunning == [pc |-> "idle", attempt |-> 0, active |-> FALSE]
Picked == [pc |-> "claim", attempt |-> 0, active |-> FALSE]
Dead == [pc |-> "dead", attempt |-> 0, active |-> FALSE]

\* Redis: no trace of the job, waiting, picked up, or finished and its result kept.
QueueEntry == [state: {"absent", "waiting", "taken", "kept"}, tries: 0..MaxTries]

Verdict == [act: {"none", "timed_out", "worker_lost", "queue_timeout", "requeue"},
            job: Jobs]
NoVerdict == [act |-> "none", job |-> Original]

TypeOK ==
  /\ scan \in ScanRow
  /\ session \in {"running", "complete", "failed"}
  /\ age \in 0..QueueMaxAge + 1
  /\ api \in {"idle", "enqueue", "compensate", "created", "rejected", "crashed"}
  /\ queue \in [Jobs -> QueueEntry]
  /\ run \in [Jobs -> Execution]
  /\ verdict \in [Reapers -> Verdict]
  /\ probes \subseteq 0..MaxAttempts

-----------------------------------------------------------------------------
(* The row *)

\* Variant: an UPDATE without the condition on the status.
TransitionUnchecked(from, to, error) ==
  scan' = [scan EXCEPT !.status = to, !.lease = Null, !.error = error]

\* transition(): the compare-and-set every terminal step goes through.
Transition(from, to, error) ==
  /\ scan.status \in from
  /\ from \X {to} \subseteq Allowed
  /\ scan' = [scan EXCEPT !.status = to, !.lease = Null, !.error = error]

\* Variants: a fence without worker_job_id, and one without the status.
OwnsByStatus(j) == scan.status = "running"
OwnsByJob(j) == scan.worker = j

\* The fence of the worker's transitions and of the heartbeat.
Owns(j) == scan.status = "running" /\ scan.worker = j

\* Variants: no bound on the attempts; no condition on the status.
ClaimableForever ==
  /\ scan.status \in Active
  /\ scan.status = "running" => scan.lease # Null /\ scan.lease < 0
  /\ scan.deadline # Null => scan.deadline > 0
ClaimableAnytime ==
  /\ scan.attempts < MaxAttempts
  /\ scan.deadline # Null => scan.deadline > 0

\* claim_for_execution(): what its WHERE clause admits.
Claimable ==
  /\ scan.attempts < MaxAttempts
  /\ \/ scan.status = "queued"
     \/ scan.status = "running" /\ scan.lease # Null /\ scan.lease < 0
  /\ scan.deadline # Null => scan.deadline > 0

-----------------------------------------------------------------------------
(* ARQ *)

\* enqueue_job(_job_id=j): no effect while Redis knows the id.
Enqueue(j) ==
  queue' = [queue EXCEPT ![j] =
              IF @.state = "absent" THEN [state |-> "waiting", tries |-> 0] ELSE @]

\* The job function returned or raised: ARQ keeps the result under the job id.
EndJob(j) ==
  /\ run' = [run EXCEPT ![j] = NotRunning]
  /\ queue' = [queue EXCEPT ![j] = [state |-> "kept", tries |-> 0]]

Advance(j, pc) == run' = [run EXCEPT ![j].pc = pc]

StartJob(j) ==
  /\ queue[j].state = "waiting" /\ queue[j].tries < MaxTries
  /\ queue' = [queue EXCEPT ![j] = [state |-> "taken", tries |-> @.tries + 1]]
  /\ run' = [run EXCEPT ![j] = Picked]
  /\ UNCHANGED <<scan, session, age, api, verdict, probes>>

\* A job delivered max_tries times is failed without calling the function.
ExhaustJob(j) ==
  /\ queue[j].state = "waiting" /\ queue[j].tries = MaxTries
  /\ queue' = [queue EXCEPT ![j] = [state |-> "kept", tries |-> 0]]
  /\ UNCHANGED <<scan, session, age, api, run, verdict, probes>>

ExpireResult(j) ==
  /\ queue[j].state = "kept"
  /\ queue' = [queue EXCEPT ![j] = [state |-> "absent", tries |-> 0]]
  /\ UNCHANGED <<scan, session, age, api, run, verdict, probes>>

LoseJob(j) ==
  /\ queue[j].state = "waiting"
  /\ queue' = [queue EXCEPT ![j] = [state |-> "absent", tries |-> 0]]
  /\ UNCHANGED <<scan, session, age, api, run, verdict, probes>>

\* The worker process dies, or is shut down and cancels the job.
Crash(j) ==
  /\ run[j].pc \in Live
  /\ run' = [run EXCEPT ![j] = Dead]
  /\ UNCHANGED <<scan, session, age, api, queue, verdict, probes>>

Redeliver(j) ==
  /\ run[j].pc = "dead"
  /\ run' = [run EXCEPT ![j] = NotRunning]
  /\ queue' = [queue EXCEPT ![j].state = "waiting"]
  /\ UNCHANGED <<scan, session, age, api, verdict, probes>>

-----------------------------------------------------------------------------
(* The API *)

\* create_scan up to its commit.  The clock of the model starts here.
CreateScan ==
  /\ api = "idle" /\ api' = "enqueue"
  /\ \E optIn \in BOOLEAN :
       scan' = [scan EXCEPT !.status = "queued", !.optIn = optIn]
  /\ UNCHANGED <<session, age, queue, run, verdict, probes>>

\* The enqueue takes effect; the call may still raise (a lost reply).
EnqueueAccepted ==
  /\ api = "enqueue" /\ api' \in {"created", "compensate"}
  /\ Enqueue(Original)
  /\ UNCHANGED <<scan, session, age, run, verdict, probes>>

EnqueueRefused ==
  /\ api = "enqueue" /\ api' = "compensate"
  /\ UNCHANGED <<scan, session, age, queue, run, verdict, probes>>

\* The except branch: mark the scan failed if it is still queued, and answer
\* 503 whether or not the transition changed the row.
Compensate ==
  /\ api = "compensate" /\ api' = "rejected"
  /\ \/ Transition({"queued"}, "failed", "queue_unavailable")
     \/ scan.status # "queued" /\ UNCHANGED scan
  /\ UNCHANGED <<session, age, queue, run, verdict, probes>>

\* The API process dies, or the transition of the except branch fails too.
ApiCrash ==
  /\ api \in {"enqueue", "compensate"} /\ api' = "crashed"
  /\ UNCHANGED <<scan, session, age, queue, run, verdict, probes>>

CancelScan ==
  /\ Transition(Active, "cancelled", "cancelled")
  /\ UNCHANGED <<session, age, api, queue, run, verdict, probes>>

-----------------------------------------------------------------------------
(* The worker: run_agent_scan, _supervise, _execute_agent *)

\* Variant: every claim starts a new budget.
ClaimNewBudget(j) ==
  /\ run[j].pc = "claim" /\ Claimable
  /\ scan' = [scan EXCEPT !.status = "running", !.attempts = @ + 1,
                          !.lease = Lease, !.worker = j, !.deadline = Timeout]
  /\ run' = [run EXCEPT ![j] = [pc |-> "authorize", attempt |-> scan.attempts + 1,
                                active |-> FALSE]]
  /\ UNCHANGED <<session, age, api, queue, verdict, probes>>

Claim(j) ==
  /\ run[j].pc = "claim" /\ Claimable
  /\ scan' = [scan EXCEPT !.status = "running", !.attempts = @ + 1,
                          !.lease = Lease, !.worker = j,
                          !.deadline = IF @ = Null THEN Timeout ELSE @]
  /\ run' = [run EXCEPT ![j] = [pc |-> "authorize", attempt |-> scan.attempts + 1,
                                active |-> FALSE]]
  /\ UNCHANGED <<session, age, api, queue, verdict, probes>>

\* Variant: the job waits for the scan instead of returning.
SkipClaimWaiting(j) ==
  /\ run[j].pc = "claim" /\ ~Claimable
  /\ run' = [run EXCEPT ![j] = NotRunning]
  /\ queue' = [queue EXCEPT ![j] = [state |-> "waiting", tries |-> 0]]
  /\ UNCHANGED <<scan, session, age, api, verdict, probes>>

\* The claim updates no row: the job returns "skipped".
SkipClaim(j) ==
  /\ run[j].pc = "claim" /\ ~Claimable
  /\ EndJob(j)
  /\ UNCHANGED <<scan, session, age, api, verdict, probes>>

\* authorize_execution: the gate, the scope and DNS allow the scan or not.
Authorize(j) ==
  /\ run[j].pc = "authorize"
  /\ \E pc \in {"start", "denied"} : Advance(j, pc)
  /\ UNCHANGED <<scan, session, age, api, queue, verdict, probes>>

\* Variant: the opt-in alone decides about active probes.
StartAgentReplaying(j) ==
  /\ run[j].pc = "start"
  /\ session' = "running"
  /\ run' = [run EXCEPT ![j].pc = "agent", ![j].active = scan.optIn]
  /\ UNCHANGED <<scan, age, api, queue, verdict, probes>>

\* The first transaction of _execute_agent.  It reads the row again, and does
\* not look at whether this job still owns the scan.
StartAgent(j) ==
  /\ run[j].pc = "start"
  /\ session' = "running"
  /\ run' = [run EXCEPT ![j].pc = "agent",
                        ![j].active = scan.optIn /\ scan.attempts = 1]
  /\ UNCHANGED <<scan, age, api, queue, verdict, probes>>

\* ensure_running is throttled, so a tool may run after the scan was lost.
Probe(j) ==
  /\ run[j].pc = "agent" /\ run[j].active
  /\ probes' = probes \cup {run[j].attempt}
  /\ UNCHANGED <<scan, session, age, api, queue, run, verdict>>

\* The unconditional final write of _execute_agent.
FinishAgent(j) ==
  /\ run[j].pc = "agent"
  /\ session' = "complete"
  /\ Advance(j, "complete")
  /\ UNCHANGED <<scan, age, api, queue, verdict, probes>>

\* An exception in the supervised task or in _finalize(completed).
AgentError(j) ==
  /\ \/ run[j].pc \in Supervised /\ Advance(j, "failing")
     \/ run[j].pc = "complete" /\ Advance(j, "finalize_failed")
  /\ UNCHANGED <<scan, session, age, api, queue, verdict, probes>>

\* asyncio.timeout expires ...
DeadlineReached(j) ==
  /\ run[j].pc \in Supervised
  /\ scan.deadline <= 0
  /\ Advance(j, "timeout")
  /\ UNCHANGED <<scan, session, age, api, queue, verdict, probes>>

\* ... or a TimeoutError of a database connection leaves the task: the same
\* except clause takes both.
InnerTimeout(j) ==
  /\ run[j].pc \in Supervised
  /\ Advance(j, "timeout")
  /\ UNCHANGED <<scan, session, age, api, queue, verdict, probes>>

\* The watcher runs until the task is done, and once more after that: it
\* sleeps before it beats.
Heartbeat(j) ==
  /\ run[j].pc \in Supervised \cup {"timeout", "failing"}
  /\ Owns(j)
  /\ scan' = [scan EXCEPT !.lease = Lease]
  /\ UNCHANGED <<session, age, api, queue, run, verdict, probes>>

\* The watcher or ensure_running finds the scan cancelled, ended or reassigned.
StopRun(j) ==
  /\ run[j].pc \in Supervised /\ ~Owns(j)
  /\ EndJob(j)
  /\ UNCHANGED <<scan, session, age, api, verdict, probes>>

\* _finalize: the transition, the report and the audit entry in one
\* transaction, rolled back when the job no longer owns the scan.
Finalize(j, pc, to, error) ==
  /\ run[j].pc = pc
  /\ \/ /\ Owns(j)
        /\ scan' = [scan EXCEPT !.status = to, !.lease = Null, !.error = error,
                                !.reports = @ + 1]
     \/ ~Owns(j) /\ UNCHANGED scan
  /\ EndJob(j)
  /\ UNCHANGED <<session, age, api, verdict, probes>>

FinalizeCompleted(j) == Finalize(j, "complete", "completed", "none")
FinalizeTimedOut(j) == Finalize(j, "timeout", "timed_out", "timeout")

\* Variant: the agent session is failed whether or not the scan was changed.
FailScanSessionFirst(j) ==
  /\ run[j].pc \in Failing
  /\ \/ Owns(j) /\ Transition({"running"}, "failed", "internal_error")
     \/ ~Owns(j) /\ UNCHANGED scan
  /\ session' = IF session = "running" THEN "failed" ELSE session
  /\ EndJob(j)
  /\ UNCHANGED <<age, api, verdict, probes>>

\* _fail: the agent session follows only when the scan was changed.
FailScan(j) ==
  /\ run[j].pc \in Failing
  /\ \/ /\ Owns(j)
        /\ Transition({"running"}, "failed",
                      IF run[j].pc = "denied" THEN "denied" ELSE "internal_error")
        /\ session' = IF session = "running" THEN "failed" ELSE session
     \/ ~Owns(j) /\ UNCHANGED <<scan, session>>
  /\ EndJob(j)
  /\ UNCHANGED <<age, api, verdict, probes>>

\* A database error outside the supervised part, or ARQ's job_timeout, which
\* lies beyond the deadline: the job ends and the row is left as it is.
JobError(j) ==
  /\ run[j].pc \in Live
  /\ run[j].pc \in Supervised \cup {"complete"} => scan.deadline <= 0
  /\ EndJob(j)
  /\ UNCHANGED <<scan, session, age, api, verdict, probes>>

-----------------------------------------------------------------------------
(* The reaper *)

\* Variant: a queued scan is requeued whatever its age.
JudgementNoMaxAge ==
  IF scan.status = "running" /\ scan.deadline # Null /\ scan.deadline <= 0
  THEN [act |-> "timed_out", job |-> Original]
  ELSE IF scan.status = "queued" /\ age > RequeueAfter
  THEN [act |-> "requeue", job |-> Original]
  ELSE NoVerdict

\* What the loops of reap_stale_scans decide for the row they read.
Judgement ==
  IF scan.status = "running" THEN
    IF scan.deadline # Null /\ scan.deadline <= 0
    THEN [act |-> "timed_out", job |-> Original]
    ELSE IF scan.lease = Null \/ scan.lease < 0
    THEN IF scan.attempts >= MaxAttempts
         THEN [act |-> "worker_lost", job |-> Original]
         ELSE [act |-> "requeue", job |-> scan.attempts + 1]
    ELSE NoVerdict
  ELSE IF scan.status = "queued" THEN
    IF age > QueueMaxAge THEN [act |-> "queue_timeout", job |-> Original]
    ELSE IF age > RequeueAfter THEN [act |-> "requeue", job |-> Original]
    ELSE NoVerdict
  ELSE NoVerdict

\* The two SELECTs; the session is closed before anything is done.
ReaperRead(r) ==
  /\ verdict[r] = NoVerdict /\ Judgement # NoVerdict
  /\ verdict' = [verdict EXCEPT ![r] = Judgement]
  /\ UNCHANGED <<scan, session, age, api, queue, run, probes>>

\* A transition that looks at the status alone.
ReaperEnd(r, act, from, to, error) ==
  /\ verdict[r].act = act
  /\ \/ Transition({from}, to, error)
     \/ scan.status # from /\ UNCHANGED scan
  /\ verdict' = [verdict EXCEPT ![r] = NoVerdict]
  /\ UNCHANGED <<session, age, api, queue, run, probes>>

\* Variant: the queue timeout takes a scan from any active state.
ReapQueueTimeoutActive(r) ==
  /\ verdict[r].act = "queue_timeout"
  /\ \/ Transition(Active, "failed", "queue_timeout")
     \/ scan.status \notin Active /\ UNCHANGED scan
  /\ verdict' = [verdict EXCEPT ![r] = NoVerdict]
  /\ UNCHANGED <<session, age, api, queue, run, probes>>

ReapDeadline(r) == ReaperEnd(r, "timed_out", "running", "timed_out", "timeout")
ReapWorkerLost(r) == ReaperEnd(r, "worker_lost", "running", "failed", "worker_lost")
ReapQueueTimeout(r) == ReaperEnd(r, "queue_timeout", "queued", "failed", "queue_timeout")

ReapRequeue(r) ==
  /\ verdict[r].act = "requeue"
  /\ Enqueue(verdict[r].job)
  /\ verdict' = [verdict EXCEPT ![r] = NoVerdict]
  /\ UNCHANGED <<scan, session, age, api, run, probes>>

\* An exception (Redis or PostgreSQL down) ends the whole pass.
ReaperAbort(r) ==
  /\ verdict[r] # NoVerdict
  /\ verdict' = [verdict EXCEPT ![r] = NoVerdict]
  /\ UNCHANGED <<scan, session, age, api, queue, run, probes>>

-----------------------------------------------------------------------------
(* The clock *)

CountDown(left, floor) == IF left = Null \/ left = floor THEN left ELSE left - 1

Tick ==
  /\ scan.status # "absent"
  /\ age' = IF age > QueueMaxAge THEN age ELSE age + 1
  /\ scan' = [scan EXCEPT !.lease = CountDown(@, -1), !.deadline = CountDown(@, 0)]
  /\ UNCHANGED <<session, api, queue, run, verdict, probes>>

-----------------------------------------------------------------------------
Init ==
  /\ scan = [status |-> "absent", attempts |-> 0, lease |-> Null, deadline |-> Null,
             worker |-> Null, error |-> "none", optIn |-> FALSE, reports |-> 0]
  /\ session = "running" /\ age = 0 /\ api = "idle"
  /\ queue = [j \in Jobs |-> [state |-> "absent", tries |-> 0]]
  /\ run = [j \in Jobs |-> NotRunning]
  /\ verdict = [r \in Reapers |-> NoVerdict]
  /\ probes = {}

\* The row that migration 003 makes of a scan that was crawling, scanning,
\* agent_running or analyzing: running, with NULL in every new column.
MigratedInit ==
  /\ scan = [status |-> "running", attempts |-> 0, lease |-> Null, deadline |-> Null,
             worker |-> Null, error |-> "none", optIn |-> FALSE, reports |-> 0]
  /\ session = "running" /\ age = 0 /\ api = "created"
  /\ queue = [j \in Jobs |-> [state |-> "absent", tries |-> 0]]
  /\ run = [j \in Jobs |-> NotRunning]
  /\ verdict = [r \in Reapers |-> NoVerdict]
  /\ probes = {}

ApiStep == CreateScan \/ EnqueueAccepted \/ EnqueueRefused \/ Compensate
           \/ ApiCrash \/ CancelScan

\* What a worker does when nothing goes wrong.
WorkerStep(j) ==
  \/ Claim(j) \/ SkipClaim(j) \/ Authorize(j) \/ StartAgent(j) \/ FinishAgent(j)
  \/ DeadlineReached(j) \/ StopRun(j)
  \/ FinalizeCompleted(j) \/ FinalizeTimedOut(j) \/ FailScan(j)

WorkerFault(j) == AgentError(j) \/ InnerTimeout(j) \/ JobError(j) \/ Crash(j)

QueueStep(j) == StartJob(j) \/ ExhaustJob(j) \/ ExpireResult(j) \/ LoseJob(j) \/ Redeliver(j)

ReaperAct(r) == ReapDeadline(r) \/ ReapWorkerLost(r) \/ ReapQueueTimeout(r) \/ ReapRequeue(r)

Next ==
  \/ Tick
  \/ ApiStep
  \/ \E j \in Jobs : QueueStep(j) \/ WorkerStep(j) \/ Heartbeat(j) \/ Probe(j) \/ WorkerFault(j)
  \/ \E r \in Reapers : ReaperRead(r) \/ ReaperAct(r) \/ ReaperAbort(r)

Spec == Init /\ [][Next]_vars

\* The clock runs, the cron starts a pass every minute and not every pass is
\* cut short; an execution that is not paused forever goes on, and ARQ hands
\* out the jobs it holds and forgets results after their time.
Fairness ==
  /\ WF_vars(Tick)
  /\ \A r \in Reapers : WF_vars(ReaperRead(r)) /\ SF_vars(ReaperAct(r))
  /\ \A j \in Jobs : /\ WF_vars(WorkerStep(j)) /\ WF_vars(Redeliver(j))
                     /\ WF_vars(StartJob(j) \/ ExhaustJob(j)) /\ WF_vars(ExpireResult(j))

LiveSpec == Spec /\ Fairness

MigratedSpec == MigratedInit /\ [][Next]_vars /\ Fairness
-----------------------------------------------------------------------------
(* Safety *)

\* The deterministic report and the completion of the scan are one step, it is
\* written once, and a failed or cancelled scan has none (_finalize: the
\* transition and store_report share a transaction).
ReportIntegrity ==
  /\ scan.reports <= 1
  /\ scan.status = "completed" => scan.reports = 1
  /\ scan.reports = 1 => scan.status \in {"completed", "timed_out"}

\* The error code tells what happened, although the API and the reaper act on
\* a row they read earlier and a worker may have claimed the scan since: after
\* "queue_unavailable" or "queue_timeout" the scan was never executed, after
\* "worker_lost" no attempt was left (create_scan, reap_stale_scans).
ErrorCodeHonest ==
  /\ scan.error \in {"queue_unavailable", "queue_timeout"} =>
       scan.attempts = 0 /\ probes = {}
  /\ scan.error = "worker_lost" => scan.attempts = MaxAttempts

\* Active probes are sent by the first attempt only, never by a recovery
\* attempt, and only for a scan that opted in, even while a lost worker and
\* its successor both run (_execute_agent: allow_active).
ProbesNotReplayed ==
  /\ probes \subseteq {1}
  /\ probes # {} => scan.optIn

\* The agent session is marked failed only together with the scan; no worker
\* that lost the scan can fail the session of one that goes on (_fail).
SessionFailsWithScan == session = "failed" => scan.status = "failed"

\* The report is written by the execution that claimed the scan last: a worker
\* whose lease was taken over cannot finish the scan (the worker_job_id fence).
FencedFinish ==
  [][ scan'.reports # scan.reports =>
        \E j \in Jobs : /\ run[j].pc \in {"complete", "timeout"}
                        /\ run[j].attempt = scan.attempts
                        /\ run'[j].pc = "idle" ]_vars

\* Nothing about a terminal scan changes any more: not the status, not the
\* error code, not the reports, not the attempts, whoever is late (transition).
TerminalFinal ==
  [][ scan.status \in Terminal =>
        /\ scan'.status = scan.status /\ scan'.error = scan.error
        /\ scan'.reports = scan.reports /\ scan'.attempts = scan.attempts ]_vars

\* The deadline is fixed by the first claim: only the clock moves it, recovery
\* attempts and heartbeats never extend the budget (claim_for_execution).
BudgetNeverExtended ==
  [][ scan.deadline # Null =>
        scan'.deadline \in {scan.deadline, CountDown(scan.deadline, 0)} ]_vars

Contract == INSTANCE ScanContract
              WITH status <- scan.status, attempts <- scan.attempts, reports <- scan.reports

\* The lifecycle implements the contract: the state machine of
\* ALLOWED_TRANSITIONS, attempts bounded, reports only where promised.
ImplementsContract == Contract!Spec

-----------------------------------------------------------------------------
(* Liveness *)

\* Every scan that was committed ends, although the API, the queue, every
\* worker and single passes of the reaper may fail (reap_stale_scans).
EveryScanEnds == scan.status = "queued" ~> scan.status \in Terminal

\* After a scan ended, by whatever hand, its executions stop and its jobs are
\* not run for ever (the watcher, ScanControl, the claim).
WorkersStop == scan.status \in Terminal ~> \A j \in Jobs : run[j] = NotRunning
=============================================================================
