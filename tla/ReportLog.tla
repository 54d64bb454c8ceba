----------------------------- MODULE ReportLog -----------------------------
(***************************************************************************)
(* What readers of a scan's reports may rely on, without transactions,     *)
(* jobs in progress, conflicts or crashes: a log that is only appended to. *)
(* An entry is one version in every format.  The first may come with the   *)
(* end of the scan, the others each with the analyses that it shows.       *)
(* ScanReports is shown to implement it.                                   *)
(***************************************************************************)
EXTENDS Naturals

CONSTANTS
  Worker,       \* the execution of the scan that ends it
  Jobs,         \* AI jobs
  Findings,     \* findings of the scan
  MaxRevision,  \* bound: changes of a finding
  MaxTries      \* runs that a job may have

VARIABLES
  scan,      \* the status of the scan
  findings,  \* the revision of each finding, 0 before it is stored
  reports,   \* the rows of the log
  analyses   \* runs of jobs whose analyses are stored

vars == <<scan, findings, reports, analyses>>

Formats == {"json", "html"}
Enrichable == {"completed", "timed_out"}
Documents == [Findings -> 0..MaxRevision]

\* The log has the versions 1 to n, in every format.
Length(n) ==
  \A fmt \in Formats : {r.version : r \in {s \in reports : s.format = fmt}} = 1..n

Append(doc, writer, run) ==
  \E n \in {0} \cup {r.version : r \in reports} :
    /\ Length(n)
    /\ reports' = reports \cup {[format |-> fmt, version |-> n + 1, doc |-> doc,
                                 by |-> writer, run |-> run] : fmt \in Formats}

\* A document shows findings as they are or were, and nothing that is not stored.
Shows(doc) == \A f \in Findings : doc[f] <= findings[f]
\* It does not fall behind the report that the scan ended with.
Keeps(doc) ==
  \A r \in reports : r.by = Worker => \A f \in Findings : r.doc[f] <= doc[f]

Init ==
  /\ scan = "running" /\ findings = [f \in Findings |-> 0]
  /\ reports = {} /\ analyses = {}

\* The scan ends with the first report, or without one.
EndWithReport ==
  /\ scan = "running" /\ reports = {}
  /\ scan' \in Enrichable
  /\ \E doc \in Documents : Shows(doc) /\ Append(doc, Worker, 0)
  /\ UNCHANGED <<findings, analyses>>
EndWithout ==
  /\ scan = "running"
  /\ scan' \in {"timed_out", "failed"}
  /\ UNCHANGED <<findings, reports, analyses>>

\* A run of a job stores its analyses once, with a report if one of them succeeded.
Analyse(j, run, ok) ==
  /\ scan \in Enrichable
  /\ \A a \in analyses : ~(a.job = j /\ a.run = run)
  /\ analyses' = analyses \cup {[job |-> j, run |-> run, ok |-> ok]}
Enrich(j, run) ==
  /\ Analyse(j, run, TRUE)
  /\ \E doc \in Documents : Shows(doc) /\ Keeps(doc) /\ Append(doc, j, run)
  /\ UNCHANGED <<scan, findings>>
AnalysisFailed(j, run) ==
  /\ Analyse(j, run, FALSE)
  /\ UNCHANGED <<scan, findings, reports>>

\* A finding is stored, or the status of a stored one is changed.
Triage(f) ==
  /\ findings[f] < MaxRevision
  /\ findings' = [findings EXCEPT ![f] = @ + 1]
  /\ UNCHANGED <<scan, reports, analyses>>

Next ==
  \/ EndWithReport \/ EndWithout
  \/ \E j \in Jobs, run \in 1..MaxTries : Enrich(j, run) \/ AnalysisFailed(j, run)
  \/ \E f \in Findings : Triage(f)

Spec == Init /\ [][Next]_vars
=============================================================================
