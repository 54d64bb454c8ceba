------------------------------ MODULE AgentRun ------------------------------
(***************************************************************************)
(* What one execution of a scan does between its first and its last        *)
(* transaction: the planner, executor and critic loop (agent/graph.py and  *)
(* agent/nodes), whose tool calls go one at a time through ScanToolLayer   *)
(* (scanner/tools/layer.py), share one request budget (security/egress.py) *)
(* and persist what the checks report (domain/services/finding_store.py).  *)
(*                                                                         *)
(* All of it uses one database session: an open transaction (tx) that a    *)
(* commit publishes and a rollback discards, and the objects scan, target, *)
(* policy and agent_session loaded in it.  The session keeps the objects   *)
(* on commit (expire_on_commit=False); a rollback of an open transaction   *)
(* expires them, and reading an expired attribute outside an await raises. *)
(* What the process remembers (seen, the budget) follows neither.          *)
(*                                                                         *)
(* The model's plans, critiques and findings are free choices.             *)
(***************************************************************************)
EXTENDS Naturals

CONSTANTS
  MaxIterations,  \* the lesser of agent_sessions.max_iterations and the setting
  MaxTools,       \* settings.agent_max_tools_per_plan
  MaxRequests,    \* settings.scan_max_requests
  Fingerprints    \* findings the checks may report for this scan

ASSUME AgentAssumption ==
  MaxIterations \in Nat \ {0} /\ MaxTools \in Nat /\ MaxRequests \in Nat

VARIABLES
  node,       \* the node of the graph that runs, or how the run ended
  iteration,  \* AgentState.iteration
  calls,      \* calls of the plan not executed yet, the current one included
  call,       \* the tool call in progress
  active,     \* ScanToolLayer.allow_active
  objects,    \* whether the session's objects can be read
  tx,         \* the open transaction
  stored,     \* findings committed for the scan
  seen,       \* ScanToolLayer.seen
  used,       \* RequestBudget.used
  lost,       \* the scan was ended or reassigned
  audits,     \* calls with a committed audit record
  traffic,    \* history: calls that sent a request to the target
  cause       \* history: why the run raised an exception

vars == <<node, iteration, calls, call, active, objects, tx, stored, seen, used,
          lost, audits, traffic, cause>>

graph == <<node, iteration, calls>>

-----------------------------------------------------------------------------
(* Types *)

Tools == {"passive_crawl", "run_check", "active_probe", "lookup_cve", "generate_poc"}
Ended == {"complete", "failed", "stopped"}

\* Where a handler is: before its audit record, after it, fetching a page, with a
\* page, storing the drafts of a check, or with a write to commit.
Call == [tool : Tools, pc : {"idle", "enter", "audited", "fetch", "page", "persist", "write"},
         drafts : SUBSET Fingerprints]
NoCall == [tool |-> "passive_crawl", pc |-> "idle", drafts |-> {}]
CallIds == (1..MaxIterations) \X (1..MaxTools)
CallId == <<iteration, calls>>

Transaction == [open : BOOLEAN, findings : SUBSET Fingerprints]
Closed == [open |-> FALSE, findings |-> {}]

TypeOK ==
  /\ node \in {"planner", "executor", "critic", "flush"} \cup Ended
  /\ iteration \in 0..MaxIterations /\ calls \in 0..MaxTools
  /\ call \in Call /\ active \in BOOLEAN
  /\ objects \in {"loaded", "expired"} /\ tx \in Transaction
  /\ stored \subseteq Fingerprints /\ seen \subseteq Fingerprints
  /\ used \in 0..MaxRequests /\ lost \in BOOLEAN
  /\ audits \subseteq CallIds /\ traffic \subseteq CallIds
  /\ cause \in {"none", "model", "database", "expired"}

-----------------------------------------------------------------------------
(* The session *)

Commit(record) ==
  /\ stored' = stored \cup tx.findings
  /\ audits' = audits \cup record
  /\ tx' = Closed

RollbackVariant ==             \* the objects are loaded again, seen is kept
  tx' = Closed /\ UNCHANGED <<objects, stored, audits>>
Rollback ==
  /\ tx' = Closed
  /\ objects' = IF tx.open THEN "expired" ELSE objects
  /\ UNCHANGED <<stored, audits>>

-----------------------------------------------------------------------------
(* The run and its calls *)

At(tool, pc) == node = "executor" /\ call.tool = tool /\ call.pc = pc
Goto(pc) == call' = [call EXCEPT !.pc = pc]

\* execute returns a ToolResult, successful or not.
Returns == call' = NoCall /\ calls' = calls - 1 /\ UNCHANGED <<node, iteration>>

\* The session is closed with the run: an open transaction is discarded.
Ends(how, why) ==
  /\ node' = how /\ cause' = why
  /\ call' = NoCall /\ tx' = Closed
  /\ UNCHANGED <<iteration, calls, active, objects, stored, seen, used, lost, audits, traffic>>

\* A request passes the budget, or there is none left.
HasBudgetVariant == used <= MaxRequests
HasBudget == used < MaxRequests
\* It is counted before its address is resolved, and may be refused then.
Send ==
  /\ HasBudget /\ used' = used + 1
  /\ traffic' \in {traffic, traffic \cup {CallId}}

-----------------------------------------------------------------------------
(* The graph *)

PlannerVariant ==              \* the iteration is not part of the node's result
  /\ node = "planner" /\ node' = "executor"
  /\ iteration' = IF iteration = 0 THEN 1 ELSE iteration
  /\ calls' \in 0..MaxTools
  /\ UNCHANGED <<call, active, objects, tx, stored, seen, used, lost, audits, traffic, cause>>
Planner ==
  /\ node = "planner" /\ node' = "executor"
  /\ iteration' = iteration + 1
  /\ calls' \in 0..MaxTools
  /\ UNCHANGED <<call, active, objects, tx, stored, seen, used, lost, audits, traffic, cause>>

ExecutorDone ==
  /\ node = "executor" /\ calls = 0 /\ node' = "critic"
  /\ UNCHANGED <<iteration, calls, call, active, objects, tx, stored, seen, used, lost,
                 audits, traffic, cause>>

\* The critic completes the mission or not; the last iteration completes it anyway.
Critic ==
  /\ node = "critic"
  /\ node' \in IF iteration >= MaxIterations THEN {"flush"} ELSE {"flush", "planner"}
  /\ UNCHANGED <<iteration, calls, call, active, objects, tx, stored, seen, used, lost,
                 audits, traffic, cause>>

\* The model is unreachable or its answer has no valid structure.
ModelFails == node \in {"planner", "critic"} /\ Ends("failed", "model")

\* The last transaction of _execute_agent reads agent_session and scan first.
Flush ==
  /\ node = "flush" /\ objects = "loaded"
  /\ node' = "complete" /\ Commit({})
  /\ UNCHANGED <<iteration, calls, call, active, objects, seen, used, lost, traffic, cause>>

FlushFails ==
  node = "flush" /\ Ends("failed", IF objects = "loaded" THEN "database" ELSE "expired")

-----------------------------------------------------------------------------
(* ScanToolLayer.execute *)

\* ensure_running lets the call through: it is throttled and may not look.
Enter(tool) ==
  /\ node = "executor" /\ calls > 0 /\ call.pc = "idle"
  /\ call' = [tool |-> tool, pc |-> "enter", drafts |-> {}]
  /\ UNCHANGED <<graph, active, objects, tx, stored, seen, used, lost, audits, traffic, cause>>

\* ensure_running cannot read the scan: it is not in the try of execute.
EnsureFails == node = "executor" /\ calls > 0 /\ call.pc = "idle" /\ Ends("failed", "database")

\* _audit commits at once; generate_poc has looked for its finding by then.
AuditVariant ==                \* the record waits for the commit of the tool
  /\ node = "executor" /\ call.pc = "enter" /\ objects = "loaded"
  /\ call.tool = "active_probe" => active
  /\ Goto("audited") /\ tx' = [tx EXCEPT !.open = TRUE]
  /\ UNCHANGED <<graph, active, objects, stored, seen, used, lost, audits, traffic, cause>>
Audit ==
  /\ node = "executor" /\ call.pc = "enter" /\ objects = "loaded"
  /\ call.tool = "active_probe" => active
  /\ Goto("audited") /\ Commit({CallId})
  /\ UNCHANGED <<graph, active, objects, seen, used, lost, traffic, cause>>

\* ToolDenied and EgressDenied: before the audit record of the call (probes that are
\* not authorized, parameters that are not valid), or while a check gets its page.
Deniable ==
  /\ node = "executor"
  /\ \/ call.pc = "enter" /\ call.tool \in {"lookup_cve", "generate_poc"}
     \/ call.pc = "enter" /\ call.tool = "active_probe" /\ ~active
     \/ call.tool = "run_check" /\ call.pc \in {"audited", "fetch"}

Denied ==
  /\ Deniable /\ objects = "loaded"
  /\ Commit({CallId}) /\ Returns
  /\ UNCHANGED <<active, objects, seen, used, lost, traffic, cause>>

\* The audit record of a denial is written in an except clause of execute itself:
\* what it raises leaves execute.
DenialFails ==
  Deniable /\ Ends("failed", IF objects = "loaded" THEN "database" ELSE "expired")

\* The last except clause: any other exception of a handler.
ToolFails ==
  /\ node = "executor" /\ call.pc # "idle"
  /\ Rollback /\ Returns
  /\ UNCHANGED <<active, seen, used, lost, traffic, cause>>

\* The same for a statement that fails: it had a transaction open.
StatementFails ==
  /\ node = "executor" /\ call.pc # "idle"
  /\ call.tool = "lookup_cve" => call.pc = "enter"
  /\ objects' = "expired" /\ tx' = Closed
  /\ Returns
  /\ UNCHANGED <<active, stored, seen, used, lost, audits, traffic, cause>>

-----------------------------------------------------------------------------
(* The handlers, after their audit record *)

\* A page, a redirect or robots.txt; the crawler asks is_stopped between pages.
CrawlFetch ==
  /\ At("passive_crawl", "audited") /\ Send
  /\ UNCHANGED <<graph, call, active, objects, tx, stored, seen, lost, audits, cause>>

\* The crawl is over (pages, depth, budget, stop): its pages are inserted.
CrawlWrite ==
  /\ At("passive_crawl", "audited")
  /\ Goto("write") /\ tx' = [tx EXCEPT !.open = TRUE]
  /\ UNCHANGED <<graph, active, objects, stored, seen, used, lost, audits, traffic, cause>>

\* An unknown plugin.
CheckUnknown ==
  /\ At("run_check", "audited") /\ Returns
  /\ UNCHANGED <<active, objects, tx, stored, seen, used, lost, audits, traffic, cause>>

\* _get_page_context: a page of the last crawl in memory, or a look at the database.
CheckPage ==
  /\ At("run_check", "audited")
  /\ \/ Goto("page") /\ UNCHANGED tx
     \/ /\ tx' = [tx EXCEPT !.open = TRUE]
        /\ \/ Goto("page")
           \/ Goto("fetch")
  /\ UNCHANGED <<graph, active, objects, stored, seen, used, lost, audits, traffic, cause>>

\* A request of the on-demand fetch, perhaps answered by a redirect.
CheckFetch ==
  /\ At("run_check", "fetch") /\ Send
  /\ \/ Goto("page")
     \/ Goto("fetch")
  /\ UNCHANGED <<graph, active, objects, tx, stored, seen, lost, audits, cause>>

\* The check runs; its own exceptions are caught and leave no drafts.
CheckRun ==
  /\ At("run_check", "page")
  /\ \E drafts \in SUBSET Fingerprints :
       call' = [call EXCEPT !.pc = "persist", !.drafts = drafts]
  /\ UNCHANGED <<graph, active, objects, tx, stored, seen, used, lost, audits, traffic, cause>>

\* persist_findings, one draft: skipped when seen; an insert does nothing when an
\* earlier attempt stored the same finding.
PersistDraftVariant(f) ==      \* each finding is committed by itself
  /\ At("run_check", "persist") /\ f \in call.drafts
  /\ call' = [call EXCEPT !.drafts = @ \ {f}]
  /\ seen' = seen \cup {f}
  /\ stored' = stored \cup tx.findings \cup {f} /\ tx' = Closed
  /\ UNCHANGED <<graph, active, objects, used, lost, audits, traffic, cause>>
PersistDraft(f) ==
  /\ At("run_check", "persist") /\ f \in call.drafts
  /\ call' = [call EXCEPT !.drafts = @ \ {f}]
  /\ seen' = seen \cup {f}
  /\ tx' = IF f \in seen THEN tx
           ELSE [tx EXCEPT !.open = TRUE, !.findings = @ \cup ({f} \ stored)]
  /\ UNCHANGED <<graph, active, objects, stored, used, lost, audits, traffic, cause>>

CheckCommit ==
  /\ At("run_check", "persist") /\ call.drafts = {}
  /\ Commit({}) /\ Returns
  /\ UNCHANGED <<active, objects, seen, used, lost, traffic, cause>>

\* A technique sends one request, or none; ActiveProbeEngine turns a denial or an
\* HTTP error into its result.
ActiveProbe ==
  /\ At("active_probe", "audited") /\ Goto("write")
  /\ \/ Send
     \/ UNCHANGED <<used, traffic>>
  /\ UNCHANGED <<graph, active, objects, tx, stored, seen, lost, audits, cause>>

LookupDone ==
  /\ At("lookup_cve", "audited") /\ Returns
  /\ UNCHANGED <<active, objects, tx, stored, seen, used, lost, audits, traffic, cause>>

\* PocGenerator reads the finding, then asks the model.
PocRead ==
  /\ At("generate_poc", "audited")
  /\ Goto("write") /\ tx' = [tx EXCEPT !.open = TRUE]
  /\ UNCHANGED <<graph, active, objects, stored, seen, used, lost, audits, traffic, cause>>

\* The crawl's pages, the draft of the model or, after a probe, nothing is committed.
WriteDone ==
  /\ node = "executor" /\ call.pc = "write"
  /\ Commit({}) /\ Returns
  /\ UNCHANGED <<active, objects, seen, used, lost, traffic, cause>>

-----------------------------------------------------------------------------
(* Around the run *)

\* ensure_running, before a call and after the commit of a crawl, finds the scan lost.
Stop ==
  /\ node = "executor" /\ call.pc = "idle" /\ lost
  /\ Ends("stopped", cause)

\* The watcher or the timeout of _supervise cancels the task.
Cancel == node \notin Ended /\ Ends("stopped", cause)

LoseScan ==
  /\ ~lost /\ lost' = TRUE
  /\ UNCHANGED <<graph, call, active, objects, tx, stored, seen, used, audits, traffic, cause>>

\* Another attempt at the scan, earlier or later, is storing findings too; its insert
\* waits for this transaction when both have the same one.
OtherAttempt(f) ==
  /\ f \notin stored \cup tx.findings /\ stored' = stored \cup {f}
  /\ UNCHANGED <<graph, call, active, objects, tx, seen, used, lost, audits, traffic, cause>>

-----------------------------------------------------------------------------
\* The findings of earlier attempts are loaded and marked seen.
Init ==
  /\ node = "planner" /\ iteration = 0 /\ calls = 0 /\ call = NoCall
  /\ active \in BOOLEAN /\ objects = "loaded" /\ tx = Closed
  /\ stored \in SUBSET Fingerprints /\ seen = stored
  /\ used = 0 /\ lost = FALSE
  /\ audits = {} /\ traffic = {} /\ cause = "none"

Graph == Planner \/ ExecutorDone \/ Critic \/ ModelFails \/ Flush \/ FlushFails

Handler ==
  \/ CrawlFetch \/ CrawlWrite \/ CheckUnknown \/ CheckPage \/ CheckFetch \/ CheckRun
  \/ (\E f \in Fingerprints : PersistDraft(f)) \/ CheckCommit
  \/ ActiveProbe \/ LookupDone \/ PocRead \/ WriteDone

Execute ==
  \/ (\E tool \in Tools : Enter(tool))
  \/ EnsureFails \/ Audit \/ Denied \/ DenialFails \/ ToolFails \/ StatementFails

Next ==
  \/ Graph \/ Execute \/ Handler
  \/ Stop \/ Cancel \/ LoseScan
  \/ \E f \in Fingerprints : OtherAttempt(f)

Spec == Init /\ [][Next]_vars

\* The event loop goes on with a run that is not cancelled.
LiveSpec == Spec /\ WF_vars(Graph \/ Execute \/ Handler)

-----------------------------------------------------------------------------
(* Properties *)

\* Every finding that a check reported in a run that completed is committed, although
\* a failing tool discards what it inserted and the process goes on to skip it as seen
\* (persist_findings and the rollback of execute).
FindingsComplete == node = "complete" => seen \subseteq stored

\* A call that sent a request to the target has its audit record committed, whatever
\* failed, was denied or was cancelled afterwards (_audit).
TrafficAudited == traffic \subseteq audits

\* The findings of one check are committed together: as long as one of them is to be
\* inserted, nothing that this run reported becomes visible, so no failure, denial or
\* cancellation leaves a part of them behind (persist_findings and _run_check).
ChecksAtomic ==
  [][call.drafts # {} => stored' \cap seen' \subseteq stored]_vars

\* Whatever the model plans and answers, the run ends (critic_node, planner_node).
AgentEnds == <>(node \in Ended)
=============================================================================
