---------------------------- MODULE ScanReports ----------------------------
(***************************************************************************)
(* The reports of one scan: the deterministic one stored with the terminal *)
(* transition (agent_runner._finalize), the enriched ones stored by AI     *)
(* jobs (ai/pipelines/report.py), and what GET /scans/{id}/report serves.  *)
(*                                                                         *)
(* Whoever writes a report runs store_report (domain/reporting.py) in one  *)
(* READ COMMITTED transaction: each statement sees what is committed then, *)
(* an INSERT waits for an uncommitted row of the same (format, version)    *)
(* and fails on a committed one (uq_reports_scan_format_version).  A       *)
(* session does not reload the objects it holds: a job that loaded a       *)
(* finding before its model calls renders that copy after them.            *)
(*                                                                         *)
(* A finding is its revision: 0 before it is stored, 1 when it is, one     *)
(* more for each change of its status.  A document is the revision of each *)
(* finding it shows.  Everything else in it is fixed once the scan ended.  *)
(***************************************************************************)
EXTENDS Naturals

CONSTANTS
  Worker,       \* the execution of the scan that ends it
  Jobs,         \* runs of run_ai_analysis_task that may be queued
  AutoJob,      \* the one queued at completion, under the job id ai:<scan>
  Findings,     \* findings of the scan
  MaxRevision,  \* bound: changes of a finding
  MaxTries      \* WorkerSettings.max_tries

ASSUME ReportsAssumption ==
  /\ Worker \notin Jobs /\ AutoJob \in Jobs
  /\ MaxRevision \in Nat \ {0} /\ MaxTries \in Nat \ {0}

VARIABLES
  scan,      \* the committed status of the scan
  findings,  \* the committed findings
  reports,   \* the committed rows of reports
  analyses,  \* runs of a job whose ai_analyses rows are committed
  tx,        \* the transaction of each writer
  tries      \* times each job was started

vars == <<scan, findings, reports, analyses, tx, tries>>

-----------------------------------------------------------------------------
(* Types *)

Writers == Jobs \cup {Worker}
Formats == {"json", "html"}
Enrichable == {"completed", "timed_out"}
Documents == [Findings -> 0..MaxRevision]
Nothing == [f \in Findings |-> 0]

\* A row names the run that wrote it: the writer, and which try of it.
Row == [format : Formats, version : Nat \ {0}, doc : Documents,
        by : Writers, run : 0..MaxTries]
Analysis == [job : Jobs, run : 0..MaxTries, ok : BOOLEAN]

\* known are the findings the session has held since the job loaded them.
Transaction ==
  [pc : {"none", "queued", "think", "load", "pick", "insert", "commit", "after", "ended"},
   format : Formats, version : Nat, known : Documents, doc : Documents,
   rows : SUBSET Row, outcome : Enrichable, ok : BOOLEAN]
Fresh(pc) ==
  [pc |-> pc, format |-> "json", version |-> 0, known |-> Nothing, doc |-> Nothing,
   rows |-> {}, outcome |-> "completed", ok |-> FALSE]

TypeOK ==
  /\ scan \in {"running", "failed"} \cup Enrichable
  /\ findings \in Documents /\ reports \subseteq Row /\ analyses \subseteq Analysis
  /\ tx \in [Writers -> Transaction] /\ tries \in [Jobs -> 0..MaxTries]

-----------------------------------------------------------------------------
(* Rows *)

RunOf(w) == IF w = Worker THEN 0 ELSE tries[w]
VersionsOf(fmt) == {r.version : r \in {s \in reports : s.format = fmt}}

\* coalesce(max(version), 0) + 1 over the committed rows.
NextVersion(fmt) ==
  CHOOSE n \in {1} \cup {v + 1 : v \in VersionsOf(fmt)} : \A v \in VersionsOf(fmt) : v < n

SameKey(r, s) == r.format = s.format /\ r.version = s.version
Pending(w) == [format |-> tx[w].format, version |-> tx[w].version, doc |-> tx[w].doc,
               by |-> w, run |-> RunOf(w)]

FirstFormatVariant(w) == IF w = AutoJob THEN "html" ELSE "json"
\* The tuple store_report goes through starts with the same format for every writer.
FirstFormat(w) == "json"

At(w, pc) == tx[w].pc = pc
Puts(w, t) == tx' = [tx EXCEPT ![w] = t]

-----------------------------------------------------------------------------
(* store_report *)

\* load_report_inputs: new rows are read, rows the session holds are not read again.
Load(w) ==
  /\ At(w, "load")
  /\ Puts(w, [tx[w] EXCEPT !.pc = "pick", !.format = FirstFormat(w),
                !.doc = [f \in Findings |-> IF tx[w].known[f] > 0 THEN tx[w].known[f]
                                            ELSE findings[f]]])
  /\ UNCHANGED <<scan, findings, reports, analyses, tries>>

PickVersionVariant(w) ==       \* the inputs are loaded anew for each format
  /\ At(w, "pick")
  /\ Puts(w, [tx[w] EXCEPT !.pc = "insert", !.version = NextVersion(tx[w].format),
                !.doc = findings])
  /\ UNCHANGED <<scan, findings, reports, analyses, tries>>
PickVersion(w) ==
  /\ At(w, "pick")
  /\ Puts(w, [tx[w] EXCEPT !.pc = "insert", !.version = NextVersion(tx[w].format)])
  /\ UNCHANGED <<scan, findings, reports, analyses, tries>>

InsertVariant(w) ==            \* without uq_reports_scan_format_version
  /\ At(w, "insert")
  /\ Puts(w, [tx[w] EXCEPT !.rows = tx[w].rows \cup {Pending(w)},
                !.pc = IF tx[w].format = FirstFormat(w) THEN "pick" ELSE "commit",
                !.format = CHOOSE fmt \in Formats : fmt # FirstFormat(w)])
  /\ UNCHANGED <<scan, findings, reports, analyses, tries>>
\* The row of the first format is flushed by the select for the second one.
Insert(w) ==
  /\ At(w, "insert")
  /\ \A o \in Writers \ {w} : \A r \in tx[o].rows : ~SameKey(r, Pending(w))
  /\ \A r \in reports : ~SameKey(r, Pending(w))
  /\ Puts(w, [tx[w] EXCEPT !.rows = tx[w].rows \cup {Pending(w)},
                !.pc = IF tx[w].format = FirstFormat(w) THEN "pick" ELSE "commit",
                !.format = CHOOSE fmt \in Formats : fmt # FirstFormat(w)])
  /\ UNCHANGED <<scan, findings, reports, analyses, tries>>

\* IntegrityError, or the database fails in the middle of the transaction: it is rolled
\* back.  ARQ does not run the job again after an exception.  _supervise fails a scan
\* that could not be completed; one that could not be timed out it leaves running.
Aborts(w) ==
  /\ Puts(w, Fresh("ended"))
  /\ scan' = IF w = Worker /\ tx[w].outcome = "completed" THEN "failed" ELSE scan
  /\ UNCHANGED <<findings, reports, analyses, tries>>

InsertConflict(w) ==
  /\ At(w, "insert")
  /\ \A o \in Writers \ {w} : \A r \in tx[o].rows : ~SameKey(r, Pending(w))
  /\ \E r \in reports : SameKey(r, Pending(w))
  /\ Aborts(w)

DatabaseFails(w) ==
  /\ tx[w].pc \in {"think", "load", "pick", "insert", "commit"}
  /\ Aborts(w)

-----------------------------------------------------------------------------
(* The end of the scan *)

BeginFinalizeVariant ==        \* the transition is committed before the report is stored
  /\ scan = "running" /\ At(Worker, "none")
  /\ \E outcome \in Enrichable :
       /\ Puts(Worker, [Fresh("load") EXCEPT !.outcome = outcome])
       /\ scan' = outcome
  /\ UNCHANGED <<findings, reports, analyses, tries>>
\* The terminal UPDATE opens the transaction of _finalize; store_report follows in it.
BeginFinalize ==
  /\ scan = "running" /\ At(Worker, "none")
  /\ \E outcome \in Enrichable :
       Puts(Worker, [Fresh("load") EXCEPT !.outcome = outcome])
  /\ UNCHANGED <<scan, findings, reports, analyses, tries>>

\* The reaper times the scan out, or it fails or is cancelled, without a report.  The
\* UPDATE of the status waits for the transaction of _finalize and finds no running scan.
EndOtherwise ==
  /\ scan = "running" /\ tx[Worker].pc \in {"none", "ended"}
  /\ scan' \in {"timed_out", "failed"}
  /\ UNCHANGED <<findings, reports, analyses, tx, tries>>

CommitFinalize ==
  /\ At(Worker, "commit")
  /\ scan' = tx[Worker].outcome
  /\ reports' = reports \cup tx[Worker].rows
  /\ Puts(Worker, Fresh(IF tx[Worker].outcome = "completed" THEN "after" ELSE "ended"))
  /\ UNCHANGED <<findings, analyses, tries>>

\* A completed scan gets its AI job, if the queue takes it.
EnqueueAi ==
  /\ At(Worker, "after")
  /\ \E taken \in BOOLEAN :
       tx' = [tx EXCEPT ![Worker] = Fresh("ended"),
                        ![AutoJob] = IF taken THEN Fresh("queued") ELSE @]
  /\ UNCHANGED <<scan, findings, reports, analyses, tries>>

\* The worker process dies: its transaction is gone, the scan is executed again, or the
\* AI job is never queued.
WorkerCrash ==
  /\ tx[Worker].pc \in {"load", "pick", "insert", "commit", "after"}
  /\ Puts(Worker, Fresh(IF At(Worker, "after") THEN "ended" ELSE "none"))
  /\ UNCHANGED <<scan, findings, reports, analyses, tries>>

-----------------------------------------------------------------------------
(* AI jobs *)

\* POST /scans/{id}/analyze queues a job under an id of its own.
Reanalyze(j) ==
  /\ scan \in Enrichable
  /\ j # AutoJob /\ At(j, "none")
  /\ Puts(j, Fresh("queued"))
  /\ UNCHANGED <<scan, findings, reports, analyses, tries>>

\* The job loads the scan, which is finished, and its findings.
StartJob(j) ==
  /\ At(j, "queued") /\ scan \in Enrichable
  /\ tries' = [tries EXCEPT ![j] = @ + 1]
  /\ Puts(j, [Fresh("think") EXCEPT !.known = findings])
  /\ UNCHANGED <<scan, findings, reports, analyses>>

ThinkVariant(j) ==             \* the analyses are committed before the report is stored
  /\ At(j, "think")
  /\ \E ok \in BOOLEAN :
       /\ Puts(j, [tx[j] EXCEPT !.pc = IF ok THEN "load" ELSE "commit", !.ok = ok])
       /\ analyses' = analyses \cup {[job |-> j, run |-> tries[j], ok |-> ok]}
  /\ UNCHANGED <<scan, findings, reports, tries>>
\* The model calls, and the rows of ai_analyses added for them, failed ones included.
\* Without a single analysis there is no report to store.
Think(j) ==
  /\ At(j, "think")
  /\ \E ok \in BOOLEAN :
       Puts(j, [tx[j] EXCEPT !.pc = IF ok THEN "load" ELSE "commit", !.ok = ok])
  /\ UNCHANGED <<scan, findings, reports, analyses, tries>>

CommitJob(j) ==
  /\ At(j, "commit")
  /\ reports' = reports \cup tx[j].rows
  /\ analyses' = analyses \cup {[job |-> j, run |-> tries[j], ok |-> tx[j].ok]}
  /\ Puts(j, Fresh("after"))
  /\ UNCHANGED <<scan, findings, tries>>

\* ai.analysis_completed is published and ARQ records the result.
EndJob(j) ==
  /\ At(j, "after")
  /\ Puts(j, Fresh("ended"))
  /\ UNCHANGED <<scan, findings, reports, analyses, tries>>

CrashJobVariant(j) ==          \* without max_tries
  /\ tx[j].pc \in {"think", "load", "pick", "insert", "commit", "after"}
  /\ tries[j] <= MaxTries
  /\ Puts(j, Fresh("queued"))
  /\ UNCHANGED <<scan, findings, reports, analyses, tries>>
\* The worker process dies before ARQ has recorded a result: the job runs again, even
\* when its transaction was committed, as long as it has tries left.
CrashJob(j) ==
  /\ tx[j].pc \in {"think", "load", "pick", "insert", "commit", "after"}
  /\ Puts(j, Fresh(IF tries[j] < MaxTries THEN "queued" ELSE "ended"))
  /\ UNCHANGED <<scan, findings, reports, analyses, tries>>

-----------------------------------------------------------------------------
(* Findings *)

\* A check of the scan reports a finding, possibly after the scan was ended by another.
PersistFinding(f) ==
  /\ findings[f] = 0
  /\ findings' = [findings EXCEPT ![f] = 1]
  /\ UNCHANGED <<scan, reports, analyses, tx, tries>>

PatchFindingVariant(f) ==      \* a dismissed finding is deleted
  /\ findings[f] \in 1..(MaxRevision - 1)
  /\ \E revision \in {0, findings[f] + 1} : findings' = [findings EXCEPT ![f] = revision]
  /\ UNCHANGED <<scan, reports, analyses, tx, tries>>
PatchFinding(f) ==
  /\ findings[f] \in 1..(MaxRevision - 1)
  /\ findings' = [findings EXCEPT ![f] = @ + 1]
  /\ UNCHANGED <<scan, reports, analyses, tx, tries>>

-----------------------------------------------------------------------------
(* Specification *)

Init ==
  /\ scan = "running"
  /\ findings = Nothing /\ reports = {} /\ analyses = {}
  /\ tx = [w \in Writers |-> Fresh("none")] /\ tries = [j \in Jobs |-> 0]

Store(w) == Load(w) \/ PickVersion(w) \/ Insert(w) \/ InsertConflict(w)
Finalize == BeginFinalize \/ CommitFinalize \/ EnqueueAi
RunJob(j) == StartJob(j) \/ Think(j) \/ CommitJob(j) \/ EndJob(j)
Fault == WorkerCrash \/ (\E j \in Jobs : CrashJob(j)) \/ (\E w \in Writers : DatabaseFails(w))
Triage(f) == PersistFinding(f) \/ PatchFinding(f)

Next ==
  \/ \E w \in Writers : Store(w)
  \/ Finalize \/ EndOtherwise
  \/ \E j \in Jobs : Reanalyze(j) \/ RunJob(j)
  \/ \E f \in Findings : Triage(f)
  \/ Fault

\* A worker that lives goes on; an INSERT that waits goes on when the other has ended.
Fairness ==
  /\ \A w \in Writers : WF_vars(Store(w))
  /\ \A j \in Jobs : WF_vars(RunJob(j))
  /\ WF_vars(Finalize)

Spec == Init /\ [][Next]_vars /\ Fairness

-----------------------------------------------------------------------------
(* Properties *)

\* A format never has two reports of one version, nor a gap: whatever jobs run at the
\* same time, crash or are repeated, max(version) + 1 numbers the reports 1, 2, 3, ...
VersionsContiguous ==
  \A r \in reports :
    /\ \A s \in reports : SameKey(r, s) => r = s
    /\ r.version > 1 => \E s \in reports : s.format = r.format /\ s.version = r.version - 1

\* The JSON and the HTML report of one version show the same document of the same run,
\* though their versions are computed apart: a reader may switch formats.
FormatsAgree ==
  \A r \in reports : \A fmt \in Formats :
    \E s \in reports : /\ s.format = fmt /\ s.version = r.version
                       /\ s.doc = r.doc /\ s.by = r.by /\ s.run = r.run

\* A completed scan has its deterministic report, which is version 1 and the only one of
\* its kind however often the execution was repeated; an unfinished scan has no report.
CompletedHasReport ==
  /\ scan = "completed" => \E r \in reports : r.by = Worker
  /\ \A r \in reports : scan \in Enrichable /\ (r.by = Worker => r.version = 1)

\* Enrichment adds, removes and reverts nothing: every later report shows all findings
\* of the deterministic one, at least as triaged as there, and none that is not stored.
EnrichmentKeepsFindings ==
  \A r \in reports : \A f \in Findings :
    /\ r.doc[f] <= findings[f]
    /\ \A s \in reports : s.by = Worker => s.doc[f] <= r.doc[f]

\* The analyses of a run and the report that shows them are stored together or not at
\* all, also when the report loses against another job's version.
EnrichmentAtomic ==
  /\ \A a \in analyses : a.ok => \E r \in reports : r.by = a.job /\ r.run = a.run
  /\ \A r \in reports : r.by # Worker =>
       \E a \in analyses : a.ok /\ a.job = r.by /\ a.run = r.run

\* Seen from the committed rows, the reports are a log that is appended to whole entries
\* at a time: transactions that overlap, conflict, die or are repeated leave no trace in it.
Log == INSTANCE ReportLog
ImplementsLog == Log!Spec

\* A queued AI job ends, though its inserts wait for the ones of other jobs.
JobsEnd == \A j \in Jobs : At(j, "queued") ~> At(j, "ended")
=============================================================================
