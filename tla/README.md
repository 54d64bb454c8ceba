# Formal models of OrchestraSecAI

TLA+ models of the parts of OrchestraSecAI whose correctness depends on several
actors meeting in an order nobody chose, or on failures in the middle of something: the
life of a scan, the ownership verification that allows it, the agent run at its core, the
reports it leaves, the page that follows it, and the limits and tokens around a request.
TLC checks the models on small instances; TLAPS proves the safety properties for every
value of the constants.

Paths below are relative to `src/apps/api/src/orchestrasecai/`, those that begin with
`web/` to `src/apps/`, and those that begin with `docs/` to `src/`.

## The system

| Part | State | Operations | What is hard |
|---|---|---|---|
| Scan lifecycle (`domain/scan_lifecycle.py`) | the row of `scans`: status, attempts, lease, deadline, worker_job_id, error_code | `transition`, `claim_for_execution`, `heartbeat`, each one compare-and-set UPDATE | every other part calls them concurrently, with knowledge that may be old |
| Scan API (`api/v1/scans.py`) | none of its own | create (commit, then enqueue, compensate on failure), cancel, listings, event stream, re-analysis | a crash between commit and enqueue; an enqueue that took effect although it raised |
| Worker (`domain/services/agent_runner.py`, `scan_control.py`, `workers/`) | one execution per job: claim, authorize, supervised agent, heartbeat watcher, finalize | runs a scan under a lease, stops when it lost it | two executions alive at once; timeout, cancellation and completion racing; crash at any point |
| Reaper (`domain/services/reaper.py`) | rows read in a closed session | ends overdue scans, requeues lost ones, every minute | it acts on a stale read; Redis or the database may fail in mid-pass |
| ARQ and Redis (external) | jobs and kept results by job id | enqueue, run, redeliver, forget | loss, redelivery, refusal of an id already known |
| Target verification (`domain/verification.py`, `api/v1/targets.py`) | `scan_targets` (four columns) and `domain_verification_challenges` | issue or rotate a challenge, check DNS, gate a scan | overlapping requests, a row lock held across a DNS lookup, an ORM that writes only changed columns |
| Tool layer (`scanner/tools/layer.py`, `security/egress.py`, `domain/services/finding_store.py`) | request budget, seen fingerprints, findings | one tool call at a time with its limits, rollback on error | state in memory and state in the transaction part company on rollback; cancellation in a tool |
| Agent graph (`agent/`) | iteration, plan, critique | planner, executor, critic, repeat | termination, malformed model answers |
| Crawler (`scanner/crawler/`) | frontier, visited, pages | breadth-first crawl within scope | one sequential loop with limits of its own |
| Reports (`domain/reporting.py`, `ai/pipelines/report.py`, `api/v1/reports.py`, `api/services/report_tokens.py`) | report versions, single-use view tokens | store, enrich, render, redeem | writers computing the same version; a job that renders what it loaded long ago; a token redeemed twice |
| Events (`domain/services/event_bus.py`, the stream in `api/v1/scans.py`) | none persisted | publish, snapshot, subscribe | an event lost between snapshot and subscription, or published to nobody |
| Scan page (`web/src/app/scans/[id]/page.tsx`, `web/src/hooks/useScanEvents.ts`) | the scan, the findings and the event status shown | poll, load, follow the stream, cancel | answers out of order; when to stop asking |
| Rate limits (`api/middleware/rate_limit.py`) | counters in Redis | sliding window per address, daily counter per organisation | the last slot; stamps and dates that are old or ahead when a script runs, and keys that have expired by then; Redis down; the handler failing inside the limiter |
| Everything else | | authentication, roles, CRUD of organisations, projects and policies, redaction, checks, observability, the other pages | sequential |

Interaction: the API commits a scan and enqueues job `scan:<id>`; a worker
claims the row (this is the only way to `running`), asks the verification gate
again, runs the agent, which calls tools that call the crawler and the egress
client, and ends the row together with the report. The reaper looks at rows
only, and enqueues jobs under ids `scan:<id>` or `scan:<id>:attempt:<n>`. All
coordination goes through conditional updates of one row; no part trusts a
message. Who ends the scan stores its report in the same transaction; AI jobs, one queued at
completion and any number on request, add enriched versions later. Every change of status is
published to Redis after its commit, for the event streams that happen to be subscribed; the
page polls as well. Requests of all replicas meet in three kinds of Redis keys: a sliding window
per client, a counter per organisation and day, and one key per view token.

### What makes each part correct

- **Scan**: it ends; it ends once; its report and its completion come together;
  its error code tells the truth; recovery never repeats active probes and
  never extends the budget; a worker that lost the scan changes nothing that matters.
- **Verification**: the gate opens only on a recent proof; a target has one live
  token; a revoked token stays revoked; an error revokes nothing; checks keep
  their distance.
- **Tool layer, agent, crawler**: the budget and the limits hold; the loop ends;
  what was remembered was stored.
- **Reports**: versions are numbered without gaps, both formats of a version agree, a completed
  scan has one, enrichment loses nothing and is stored whole.
- **Events and page**: nothing is announced that is not committed, and a page that stays open ends
  up showing how the scan ended and falls silent.
- **Rate limits and tokens**: a client never exceeds its limit while the keys of Redis remember it, and is
  not refused without cause; a request creates one scan at most; a token serves one report.

## Modules

| Module | What it is |
|---|---|
| `ScanContract` | the abstract specification of a scan: states, attempts, reports |
| `ScanLifecycle` | API, queue, workers and reaper around one scan row |
| `ScanLifecycleProofs` | its theorems |
| `TargetVerification` | overlapping verification requests, zone and clock around one target |
| `ChallengeLedger` | the abstract specification of a target's challenges: a ledger whose entries change one at a time |
| `TargetVerificationProofs` | its theorems |
| `AgentRun` | one execution of the agent: graph, tool layer, session, finding store, budget |
| `AgentRunProofs` | its theorems |
| `ScanReports` | the report transactions of one scan: its end, AI jobs, triage of findings |
| `ReportLog` | the abstract specification of a scan's reports: a log that whole entries are appended to |
| `ScanReportsProofs`, `ReportLogProofs` | its theorems; that it implements `ReportLog` |
| `ScanPage` | the browser page of one scan, the event stream and the requests it polls with |
| `ScanPageProofs` | its theorems |
| `FollowedScan` | `ScanLifecycle` with what its actors publish, composed with the pages of `ScanPage` |
| `FollowedScanProofs` | that the pages may take the lifecycle for their scan, and what follows |
| `ApiRequest` | a request between the rate limiter, its handler and Redis; view tokens |
| `ApiRequestProofs` | its theorems |
| `MCScanLifecycle`, `MCTargetVerification`, `MCAgentRun`, `MCScanReports`, `MCScanPage`, `MCApiRequest` | the specifications for TLC, with what the documents say |

The modules share one picture and cut it at different depths. `ScanLifecycle` takes
the agent (`AgentRun`), the verification gate (`TargetVerification`) and the
report transaction (`ScanReports`) as one step each; `ScanPage` takes the whole
lifecycle as a row that ends once. What each relies on is what the other shows: `ScanPage` that a terminal row stays
and is announced after it changed, which `FollowedScan` composes and `LifecycleIsFollowed` proves;
`ScanReports` that one execution at a time passes the fence (`FencedFinish`).

Definitions whose name ends in `Variant`, or whose comment begins with
"Variant", are faulty forms of the definition that follows them. They are not part
of a specification: they show that a property can fail.

### ScanLifecycle

One scan is modelled, since every statement names one scan id. Each committed
transaction is one action; what happens between two transactions of one
execution is a separate one, so the reads of an actor may be old when it writes.

| Variable | In the code |
|---|---|
| `scan` | the row of `scans`; `lease` and `deadline` are the time left |
| `session` | `agent_sessions.status` |
| `age` | `now - created_at` |
| `api` | the progress of `create_scan` |
| `queue` | what Redis knows of each job id: nothing, waiting, taken, result kept |
| `run` | where `run_agent_scan` of each job is, its attempt number, `allow_active` |
| `verdict` | what a pass of the reaper decided from the rows it read |
| `probes` | history: the attempts that sent active probes |

`CreateScan`, `EnqueueAccepted`, `EnqueueRefused`, `Compensate`, `CancelScan`
are the API; `Claim` to `FailScan` the worker (`StartAgent` and `FinishAgent`
are the two transactions of `_execute_agent`, `Heartbeat` its watcher,
`Finalize` and `FailScan` the two ways to end a scan); `ReaperRead`,
`ReapDeadline`, `ReapWorkerLost`, `ReapQueueTimeout` and `ReapRequeue` the
reaper. Faults are actions of their own: the API dies (`ApiCrash`), a job is lost
(`LoseJob`), a worker dies and its job is run again (`Crash`, `Redeliver`), the
database fails (`AgentError`, `JobError`), a pass is cut short (`ReaperAbort`),
a `TimeoutError` comes from inside the task (`InnerTimeout`).

Details that matter:

- `transition` is a compare-and-set on the status, and on `worker_job_id` only
  for the worker's own calls (`Owns`). The reaper and the API compare the
  status alone.
- `StartAgent` reads the row again and does not look at whether it still owns
  the scan; `attempts` may be that of a later claim.
- The watcher sleeps before it beats, and beats once more after the task ended.
- The job id is the fencing token. A redelivered job has the id of the one that
  went away; ARQ runs an id once at a time, and the model relies on it.
- Times stop counting at -1 (lease), 0 (deadline) and `QueueMaxAge + 1` (age):
  no comparison in the code tells further values apart. The clock needs no bound.

### TargetVerification

One target, and a set of requests, each a READ COMMITTED transaction: `Load`
(the endpoint loads the target and takes `now`), `Select` (the statement sees
the live challenge), `Acquire` (it takes the row lock, and reads the row again;
a row no longer live is skipped), then the work, then `Commit`. The DNS lookup
(`Lookup`) is a step of its own, with the row locked. `Commit` applies the
unique index and the check constraint of migration 003 and merges the target's
columns as the ORM does: a column is written when the value assigned differs
from the value loaded. `Abort` is a rollback at any point: an error, a
constraint, a client that went away.

The branches for a domain that differs from the target's hostname are left out:
no endpoint edits `base_url`, so no state reaches them. `attempts`,
`last_result`, the token hint and the audit log are left out: nothing reads them back.

`ImplementsLedger` relates it to `ChallengeLedger`, which has no requests, locks, clock or DNS: whatever
overlaps, the committed challenges change one at a time, in the order of issue, and a rotation supersedes exactly the live ones as it issues the
next. That the ledger lets `verified` lag behind (`MayRevoke`, `MayBind`) is what the code does, see `rotation` below; that
only a change of the ledger moves it is the part that holds.

### AgentRun

What `ScanLifecycle` passes over between `StartAgent` and `FinishAgent`: one
coroutine, so its steps do not interleave with each other, but any of them may
fail, and the scan may be lost or the task cancelled between two of them.

| Variable | In the code |
|---|---|
| `node`, `iteration`, `calls` | the node of the graph, `AgentState.iteration`, the calls of the plan that are left |
| `call` | where the handler of the current call is, and the drafts of a check not stored yet |
| `objects` | whether `scan`, `target`, `policy` and `agent_session` can be read |
| `tx` | the open transaction of the session: the findings inserted |
| `stored`, `seen` | the committed findings; `ScanToolLayer.seen` |
| `used`, `active`, `lost` | `RequestBudget.used`, `allow_active`, the scan was ended or reassigned |
| `audits`, `traffic`, `cause` | calls with a committed audit record; history: calls that sent a request, why the run raised |

`Planner`, `ExecutorDone`, `Critic` and `Flush` are the graph and the last
transaction of `_execute_agent`; `Enter` to `StatementFails` are `execute` and its except
clauses; the rest are the handlers, cut where they await something that can
fail. `ToolFails` is possible in every step of a handler.

The session is modelled as the library's documentation describes it: a
statement opens a transaction; a commit keeps the objects, since the factory
sets `expire_on_commit=False`; a rollback expires them if a transaction was
open, and does nothing otherwise. An expired attribute is loaded again when
read, which an async session refuses outside an await. A check that gets its page from
memory rolls back without harm before its first insert; one that looked in the
database first does not.

Left out: what a plan contains besides the tools, the pages a crawl keeps in
memory, the statistics and the trace, addresses and scope (a denial is a free choice).
The other attempt (`OtherAttempt`) inserts findings of its own; an insert of one
in `tx` would wait for the unique index.

### ScanReports

`store_report` statement by statement, for everybody who runs it: the worker
in the transaction that ends the scan, and AI jobs.

| Variable | In the code |
|---|---|
| `scan` | the committed status |
| `findings` | the committed findings, each as its revision: 0 not stored, then one more per change of its status |
| `reports`, `analyses` | the rows of `reports`; runs of a job whose `ai_analyses` are committed |
| `tx` | the transaction of each writer: where it is, its uncommitted rows, the findings its session holds |
| `tries` | how often ARQ started each job |

`Load`, `PickVersion`, `Insert` and `InsertConflict` are `store_report`, once per
format; `BeginFinalize`, `CommitFinalize`, `EnqueueAi` and `EndOtherwise` the end
of the scan; `Reanalyze` to `EndJob` an AI job, with its model calls in `Think`;
`PersistFinding` and `PatchFinding` what happens to findings meanwhile;
`WorkerCrash`, `CrashJob` and `DatabaseFails` the faults.

Details that matter:

- `max(version) + 1` is read under READ COMMITTED: it sees committed rows only. An insert
  of a key another transaction has inserted waits for that transaction, and fails if it commits.
  The select for the second format flushes the row of the first, so a writer holds it while it
  computes the other version: this is what keeps the two formats in step, and, since every writer begins with the
  same format, what keeps two writers from waiting for each other (`FirstFormatVariant`).
- `load_report_inputs` runs its SELECT again, but objects the session holds keep the values
  they were loaded with: a job shows statuses from before its model calls, and findings stored since.
- ARQ runs a job again when its worker died, also after the commit, and not after an exception.

`ImplementsLog` relates it to `ReportLog`: four variables of `ScanReports` are those of the log, `tx` and `tries` are hidden.
A reader of committed rows sees entries of two formats appended at once, numbered without gaps, the first with the end of
the scan, the others each with the analyses of its run, none behind the deterministic one. Row conflicts, waits, aborted and
repeated jobs are steps that the log does not see.

A report's text is a function of what a document records here; the model's answer is a choice
between some analysis and none.

### ScanPage

| Variable | In the code |
|---|---|
| `row`, `findings` | the committed status and the number of findings committed |
| `started` | whether an execution has claimed the scan (`attempts > 0`) |
| `due` | history: the findings committed when the scan ended, or so far |
| `pending` | statuses committed, with a publication to come |
| `page` | per page: `shown` (the state variable `scan`), `told` (`eventStatus`), `stream` and `feed` (the event stream and its frames on the way), `cancel`, and the calls of `load()` in flight |

`Claim` to `CancelElsewhere` are the scan; `Publish` and `Lose` what becomes of an
event; `OpenStream` (the snapshot), `Subscribe`, `BreakStream` and `Receive` the
stream; `Poll` and `AnswerScan` to `EndLoad` a load; `AskCancel` to `CancelFails` the
button. Answers wait as long as they like before the page takes them, so two loads end in any
order, and a load may be answered before the scan ends and shown after.

The page shows whatever answer comes last: `NoFalseEnd` holds because only an end stops the
polling. An older answer may even replace the end by "running"; the hook then connects again and the
interval runs again (`Shows`), and the page recovers.

A worker looks at the row before a tool call and every few seconds, so a check may store a finding after somebody else ended
the scan (`Persist`). `due` separates what a page can be promised from that.

### FollowedScan

`FollowedScan` puts the lifecycle in the place of ScanPage's row. It has the variables of `ScanLifecycle` and those of the
pages; `row`, `started` and `announced` are what ScanPage takes for the scan.

- `AnnouncedStep` are the steps of the lifecycle after which the code calls `publish_event` with a status, for a
  transition only if it changed the row (`IfChanged`); `QuietStep` are all others, a scan that fails in the queue among them.
- `StoreFinding` is a check of any execution whose agent runs, one that lost the scan included.
- `Deliver` and `Drop` are a publication that reaches the streams, or nobody; `PageStep` and `AnswerCancel` the
  actions of ScanPage, and a cancellation is `CancelScan` of the lifecycle.

ScanPage announces a running scan with its claim, the code when the agent starts, and not at all if the execution is
denied or dies first. `announced` therefore holds "running" while an execution is between the two (`Starting`): what happens to it
before it starts its agent is, for the pages, an event that was lost.

The product of the two state spaces is beyond TLC at bounds where executions overlap, so no run checks this module. Its
properties are proved, from the theorems about its parts.

### ApiRequest

| Variable | In the code |
|---|---|
| `window`, `expires` | the sorted set of the client and the expiry of its key |
| `counters` | the daily counters of the organisation: the count, and when the key was made |
| `tokens`, `issued` | the `report_view:` keys; history: tokens ever issued |
| `requests` | where each request is, its stamp and date, whether the middleware's `try` encloses its handler, and when the counter let it through |
| `failOpen`, `clock` | `rate_limit_fail_open`; the clock of Redis |
| `scripts`, `scans`, `served` | history: runs of the window script, scans committed, reports served |

`Stamp` (the replica reads its clock), `Script` and `ScriptFails` are the
limiter; `Raise` an exception of the handler at any point, with what the
`except` clause makes of it; `ReadDate` to `Reply` are `create_scan`; `Issue` to `Serve`
the view tokens.

`clock` is that of Redis, by which keys expire. A replica stamps a request, and later reads the date of a scan, from a clock
of its own (`Clocks`): `Skews` says how far these may be apart. Any time may pass between a reading and the script it is
for, because the code sets no timeout on the call. So a script may run for a stamp or a date that is long past, or that is
ahead of Redis:

- The key of the window lives for `ceil(window) + 1` seconds after the last record, by the clock of Redis, while what is pruned depends on the
  stamps. `BurstBounded` therefore counts the requests whose scripts run as long after their stamps, to that one second;
  which delay that is does not matter, so two clocks that are a fixed time apart are covered.
- The counter of a date lives for a day from the call that made it (`Live`, `Incremented`: `INCR`, and `EXPIRE` when the key is new).
  `DailyBounded` therefore covers a day from the first moment that a replica can take for the date. If no clock
  is ahead of Redis that is the date itself; if one is, the day begins and ends earlier by as much.

A call that comes outside these times is in the model, and is not bounded (see *What else the models bring to light*).

Redis itself is taken to be atomic and to keep its keys until they expire. A script whose answer is lost counts as one that did not
run: had it run, it would have used up a slot or a scan of the day for nobody.

## Runs

| Run | Instance | Shows |
|---|---|---|
| `lifecycle_safety` | 2 attempts, 2 deliveries, 1 reaper, lease 0, timeout 3, queue age 1 | the safety properties and that the lifecycle implements `ScanContract` |
| `lifecycle_liveness` | 2 attempts, 1 delivery, timeout 2 | every committed scan ends (`EveryScanEnds`) and its executions stop (`WorkersStop`) |
| `partial_report` | as above | the reaper's `timed_out` has no report |
| `refused` | as above | "the scan was not started" may be said of a running scan |
| `migrated` | from the row migration 003 leaves | that row never ends |
| `verification_safety` | 2 requests, 2 challenges, clock to 2, cooldown, TTL and age 1; symmetric requests | the safety properties, and that requests change the challenges as `ChallengeLedger` says |
| `rotation` | the same | a rotation may leave the target verified |
| `agent_run` | 2 iterations of at most 2 calls, 2 requests, 2 findings, every set of findings stored before, probes allowed or not | the safety properties, and that the run ends (`AgentEnds`) |
| `tool_failure` | 1 iteration of 2 calls, 1 request, 1 finding | a tool's failure ends the run |
| `reports_jobs` | the worker, the automatic job and a requested one, 2 tries each, 1 finding with 2 revisions | that the reports are a `ReportLog`; formats, completion and enrichment; that jobs end (`JobsEnd`) |
| `page_view` | 1 page with 2 loads in flight, 1 frame on the way, 1 finding, a scan that completes, is cancelled or never starts | what the page shows and is told is true; that it settles (`PageSettles`) |
| `api_limits` | 3 of 2 creations and 2 report requests with one token (symmetric), limit 2, window 1, 1 scan a day of length 2, clocks equal or ahead by 1, clock to 2, either policy | limits, refusals, creations and tokens |

Why the bounds are enough. Two attempts and the three job ids they need give
the overlap that matters, a lost worker and its successor, with an original job
that is still redelivered; two deliveries let a job be redelivered and then
exhausted. The times let a lease expire before the deadline, the deadline pass
in a recovery attempt, and a queued scan pass through "young", "requeue" and
"too old". The reaper holds one verdict at a time while everything else goes
on, so its reads are arbitrarily old; a second reaper adds nothing but a second
old read, and the proofs hold for any number. For verification, two requests
give every pair of rotation and check in every order, two challenges the one
that is superseded and the one that replaces it, and three instants a challenge
that expires, a proof that ages and a cooldown that ends. For the agent run, two
calls let one fail and another meet what it left behind, two iterations repeat
that after a critique, two requests are a budget that is used up in the middle
of a call, and two findings can be separated by a failure. For reports, three writers
conflict in pairs while the third has won, two tries let a job run again after
its commit, and a finding that is stored late or changes its revision once tells an old copy from a new one. For
the page, two loads are what it takes to answer out of order; a second page has no state in common with the first but the
row. For requests, three of them fill a window of two, with a last slot that is refused and a refusal after it; which three (`MaxRequests`)
is free, so two creations meet at the counter and two uses at the token. Three instants let a record be pruned, the key of the window expire under a stamp that
still counts, and the counter of a day of two expire before a late call; one replica ahead by one begins the second date early. With `Limit` counted
over stretches of two seconds, or the day over a moment more, TLC finds both bounds violated: the instance reaches the late calls that the properties except.

Each property is also checked against a faulty variant of one definition
(`PROJECT.json`, `mutants`), which TLC finds violated: dropped conditions on
status, owner or attempts, an effect before its check, a deadline that starts
again, a row not read again after its lock.

### Fairness

`LiveSpec` assumes what the deployment provides and nothing about faults:

- the clock runs (`WF` of `Tick`);
- the cron starts a pass every minute (`WF` of `ReaperRead`), and not every
  pass is cut short by an error at the same step (`SF` of `ReaperAct`: an abort
  disables it, so weak fairness would let every pass fail);
- an execution that is not dead goes on (`WF` of `WorkerStep`), ARQ starts or
  gives up the jobs it holds, runs those of lost workers again and forgets
  results after their time.

For `AgentRun`, `LiveSpec` assumes that the coroutine goes on when it is not
cancelled (`WF` of graph, `execute` and handlers together): every await in it has a
timeout of its own or fails when the scan's timeout cancels it. Which of the steps is
taken, and whether it succeeds, is free; that the run ends is due to the iteration and to the budget.

For `ScanReports`, a writer that lives goes on (`WF` of `Store`, `RunJob`,
`Finalize`); an insert that waits is enabled when the other transaction ends.
For `ScanPage`, the interval fires (`WF` of `Poll`), a load and a cancellation are answered or
fail (`WF`), and the first request of a load does not fail every time (`SF` of
`AnswerScan`). Nothing is assumed of publications and of the stream, in keeping with the hook's
comment: "live events are best-effort; the page also polls".
`ApiRequest` states safety only.

Nothing is assumed of `Crash`, `LoseJob`, `AgentError`, `CancelScan` or the API.

### What the documents say and the code does not

- **`partial_report`**: docs/scan-lifecycle.md:123, "On deadline, the scan becomes
  `timed_out` with a partial report". The reaper's transition stores none, and the
  worker that comes second rolls its own back.
- **`refused`**: the answer 503 "the scan was not started" is given whatever
  `transition` returned, also when a worker has already claimed the scan.
- **`migrated`**: the migration's note says the reaper resolves legacy scans.
  It requeues them, and `claim_for_execution` asks for a lease that is not NULL.
- **`rotation`**: docs/scan-lifecycle.md:50, "Rotation ... revokes verification
  until re-checked". A rotation that waited behind a successful check assigns to
  its old copy the values it already had, so nothing is written. The mirror case, a check
  that loaded a verified target before a rotation, reports success and leaves the target pending.
- **`tool_failure`**: scanner/tools/layer.py:155, "a failing tool must not end the
  scan". When it fails with a transaction open (a page fetched on demand that does not answer is
  enough), the rollback expires the objects that every later call and the last
  transaction read; the run ends with an exception and the scan as
  `internal_error`. `FindingsComplete` holds because of it: `seen` keeps
  what the rollback discarded, and a run that went on would skip those findings
  and complete without them. A change that loads the objects again
  (`RollbackVariant`) breaks it unless `seen` is corrected too. The next attempt
  reads `seen` from the database, so nothing is lost for good.

### What else the models bring to light

No run of its own states these; they are what the actions of the model do.

- docs/system-overview.md:847 says "Default: 120 requests/minute". The script answers 0 for the last
  slot as for a refusal, so 119 pass: `BurstBounded` says *fewer than* `Limit`, and `RefusalsEarned`
  `Limit - 1`. The request refused for the last slot is recorded, so a client that retries without a pause keeps its window full.
- The window forgets requests that still count when its key expires first: after `Limit - 1` requests that were handled at once, one that was
  stamped with them and whose script runs more than a minute later passes too. A clock that falls behind the others has the same effect.
- A creation that read its date more than a day before its script runs, or from a clock that is behind, may find the counter of that date expired,
  and a fresh one lets `rate_limit_scans_per_day` more scans of that date through. If a clock is ahead, the counter of a date is made
  before the date begins and expires before it ends, so the last calls of that date may meet a fresh one.
- docs/scan-lifecycle.md:220 says that each analysis is recorded, "including failures". A job that
  loses the race for a version rolls back, and its analyses, failed and successful, go with it
  (`InsertConflict`); ARQ does not run it again.
- `domain/reporting.py` calls a report a pure function of the persisted scan state. An AI job renders the statuses its
  session loaded before the model calls. `EnrichmentKeepsFindings` holds nevertheless: it may be older than the database, never older than the deterministic report.
- A scan the reaper timed out has no report. An AI job requested for it creates version 1, so
  `CompletedHasReport` speaks of completed scans only; the page offers the report of a timed-out scan either way.
- With the limiter failing closed, an exception of a handler is answered 503 "Rate limit service
  unavailable", also after the scan was created. With it failing open, a handler without a body runs twice. `TokenOnce` and
  `CreateOnce` survive this: the token is gone before anything can fail, and `POST /scans` waits for a body that was already read.
- Loads overlap, so an older list of findings may be shown last, when nothing loads any more.
  `FinalListComplete` states what does hold: the load that saw the end brings everything stored until then.
- A check of a worker that lost the scan may store findings after the page's last load, when nothing loads any more; they are
  shown when the page is opened again. `due` is what the page is promised.
- A scan that fails in the queue publishes no event; the page learns it by polling.

## Proofs

`ScanLifecycleProofs` proves, from `LimitsAssumption` and `NullAssumption` alone
(positive limits, a requeue age below the maximal age, NULL not a number), every property of
`lifecycle_safety`. Type correctness comes first; most properties are not
inductive by themselves, so the invariant `IInv` adds:

- `RowInv`: a queued scan was never attempted, a running one was, a scan
  without a terminal cause has no error code;
- `RunInv`: an execution carries the number of its claim, the one that passes
  the fence carries the last, and only number 1 may send probes. This is what
  makes the job id a fence: when an id is claimed again, its former execution is gone;
- `VerdictInv`: a `worker_lost` verdict, however old, was taken with all
  attempts used, and attempts never decrease;
- `ProbeInv`: probes come from attempt 1, after a claim.

`LifecycleImplementsContract` shows that every step is a step of `ScanContract`
or leaves status, attempts and reports alone.

`TargetVerificationProofs` proves every property of `verification_safety` from
`TimesAssumption` and `NullAssumption`. `IInv` adds to the types: `LockInv` (a challenge
in the hands of a request is live, and in one request's hands only),
`RequestInv` (an answered check holds a challenge past its cooldown, and a match
was seen since the request began), `ProofInv` (the expiry of the target lies within
`MaxAge` of some proof, even when the columns were written by
different requests), `UnissuedInv` and `OneLiveChallenge` (a target has one live challenge at most, theorem
`LiveIsUnique`). `ChallengesAreALedger` maps every step to a step of the ledger or a stutter. The request that
commits may have loaded its challenge long before; it changes one entry only, because `LockInv` has that entry still live, and
`OneLiveChallenge` and the index leave nothing else to supersede (`IssueRotates`). `verified` moves only with a check or a rotation,
since those alone reach `Merge` with columns to write (`CheckMoves`).

`AgentRunProofs` proves the safety properties of `agent_run` from `AgentAssumption`
(at least one iteration). `IInv` adds `CallInv` (a call past its audit record has it
committed and read the session's objects, and only a check that stores has
drafts), `LoopInv` (the planner runs with an iteration left) and `SeenInv` (as
long as the objects can be read, what is seen is stored or in the transaction).
`ReturnsIInv` and `GoesOnIInv` say once what a call that ends and one that goes
on must keep, so each handler is a few lines. `EveryStepIsNearer` adds a measure: `StepsLeft` is a natural number that
*every* step lowers, those of the cancellation and of the other attempt included. The
iterations left weigh more than the calls of a plan, these more than the steps of a handler, and the
loops inside a handler are paid for by the request budget and by the findings not stored yet. Its one hypothesis is
that there are finitely many findings. It is the part of `AgentEnds` that needs an argument; what fairness adds, that
a run which has not ended takes its next step, stays with TLC.

`ScanReportsProofs` proves the safety properties of `reports_jobs` from
`ReportsAssumption`, for any number of jobs, tries, findings and revisions. The heart of `IInv` is
`Numbered` with `OneHolder`: there is an n such that the committed versions of both formats
are 1..n, and at most one writer has uncommitted rows, which are those of n + 1. So whoever inserts the first row of n + 1
shuts the others out until it ends, and computes n + 1 for the second format too;
`VersionsContiguous` and `FormatsAgree` follow. `Lifecycle` ties the worker's transaction to the status, `Kept`
says what the copies of the sessions are between (the deterministic report and the database), and
`Together` what a job has added and not committed.
Two theorems are about its waits. `NoChainOfWaits`: whoever has inserted its first row neither waits nor is refused at the second, so
a writer only ever waits for one that does not wait, and there is no deadlock among inserts. `JobsWindDown`: a job has at most nine
steps per try and one, and nobody else's step gives it more. Together they are the part of `JobsEnd` that is not fairness.

`ReportLogProofs` proves that `ScanReports` implements `ReportLog`. `IInv` is not enough for it: the log forbids a second
set of analyses for a run, and nothing in `IInv` says that a run in progress has stored none. The invariant `Runs`
(theorem `RunsAreNumbered`) does: analyses carry the numbers of runs that were started, and a run
in progress is later than every one that stored any. With it, `CommitJob` is `Enrich` or `AnalysisFailed`, `CommitFinalize` and `EndOtherwise` are the
ends of the scan, triage is triage, and every other action is a stutter.

`ScanPageProofs` proves the safety properties of `page_view` from `PageAssumption`, for any number of pages, loads
and findings. Its invariant is one idea, `Known`: whoever takes the scan for ended knows how it ended,
be it a page, an answer on its way, a frame, or a status about to be published; it is preserved because the row
ends once and nothing is said before the commit.

`FollowedScanProofs` shows that the lifecycle is such a row. `LifecycleIsFollowed` maps every step of `FollowedScan` to a step of
ScanPage or a stutter, using `IInv` of the lifecycle (an agent runs only after a claim, a scan not created yet was never attempted).
`FollowedInvariance` then carries the invariant of `ScanPageProofs` over, by citing its two lemmas for the instance, so nothing
about the pages is proved twice. What follows needs both halves: `EndsShownAreReal` (a page that shows "completed" can be given the report) and
`EndsShownAgree` (once one page showed an end, no page ever shows another). `LifecycleUndisturbed` says
that all theorems of `ScanLifecycleProofs` hold of a followed scan. The hypothesis is `PageAssumption`, about the bounds of the pages.

`ApiRequestProofs` proves the properties of `api_limits` from `ApiAssumption`, for any limit, window and number of requests.
Nothing is assumed about delays or about how far clocks are apart. `Stamps` and `Traced` relate the window to its history: the key outlives every run
recorded in it, and a recorded run is missing from the window only if a later stamp made it too old (`TooOld`) or the key expired (`Lost`). A run that passes now and has the same
delay as an earlier one to a second is stamped at least a window after any such lost one. A run within the window's
span is therefore a member, and distinct runs are distinct members, so counting members counts
runs: this injection gives `Bounded` (the bound for every time no stamp is after, which is what is inductive about `BurstBounded`) and, in
the other direction, `RefusalsEarned`, which needs no delays at all. For the daily counter, `Dated` and `CounterDated` say that no call for a date, and so no
counter of it, comes before the first moment any replica takes for that date; hence the counter that is there then lives until that day is over (`CountsOn`). `Charge` compares it with the requests that it
let through and that have not stored their scan yet along with
those that have; `Created` and `Redeemed` say that who has a scan or took a token is past the step that would take another.

Only model-checked: the liveness properties (`EveryScanEnds`, `WorkersStop`, `AgentEnds`, `JobsEnd`,
`PageSettles`), because the prover has no rules for fairness and ENABLED, and the five disagreements above. For `AgentEnds` and `JobsEnd` the
measures are proved (`EveryStepIsNearer`, `JobsWindDown`, `NoChainOfWaits`), so that what is left to TLC is that a step is enabled.

## Not modelled, and the plan

What would come next, in this order:

1. `Crawler`: frontier, depth, pages, redirects and stop. One crawl is sequential and its limits are
   local, so tests reach most of it; `AgentRun` has only that it spends the budget and stops anywhere.
2. `Scope` and `ssrf`: pure functions over URLs and addresses, against a reference
   definition. What could go wrong in them is parsing, which a model would have to take as given.
3. Two scans and `BATCH_LIMIT` in the reaper: the running scans are read without an order, so one
   may wait while others fill the batch.
4. The verification gate composed with `ScanLifecycle` in place of the free choice in `Authorize`
   ("no execution starts without a proof"), and `AgentRun` in place of `Probe`. The product of their states is
   beyond TLC at bounds where the cases of each still happen.
5. The audit middleware (`api/middleware/audit.py`): it writes after the answer and nothing reads it
   back.

Left out for good: authentication and roles (a table looked up per request), CRUD
endpoints (one row, one statement), redaction and the analysis of HTTP responses
(data, no control), logging and metrics, the other pages of the frontend and the containers.
