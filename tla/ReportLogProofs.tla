-------------------------- MODULE ReportLogProofs --------------------------
(***************************************************************************)
(* ScanReports implements ReportLog, for any number of jobs, tries and     *)
(* findings: the transactions that store reports are atomic for whoever    *)
(* reads the committed rows.                                               *)
(***************************************************************************)
EXTENDS ScanReportsProofs

USE ReportsAssumption DEF ReportsAssumption

-----------------------------------------------------------------------------
(* The runs of a job *)

\* A run in progress was started and has stored no analyses; later runs have later numbers.
Used(j) == \A a \in analyses : a.job = j => a.run <= tries[j]
InRun(j) ==
  tx[j].pc \in InUse => tries[j] > 0 /\ \A a \in analyses : ~(a.job = j /\ a.run = tries[j])
Runs == \A j \in Jobs : Used(j) /\ InRun(j)

LEMMA RunsByOne ==
  ASSUME Runs, NEW w \in Writers, UNCHANGED <<analyses, tries>>,
         \A o \in Writers : o # w => tx'[o] = tx[o],
         w \in Jobs /\ tx'[w].pc \in InUse => tx[w].pc \in InUse
  PROVE  Runs'
<1>1. \A j \in Jobs : Used(j)'
  BY DEF Runs, Used
<1>2. ASSUME NEW j \in Jobs PROVE InRun(j)'
  BY DEF Runs, InRun, Writers, InUse
<1> QED
  BY <1>1, <1>2 DEF Runs

LEMMA RunsRenewed ==
  ASSUME TypeOK, Runs, NEW w \in Writers, NEW pc \in {"none", "queued", "after", "ended"},
         Puts(w, Fresh(pc)), UNCHANGED <<analyses, tries>>
  PROVE  Runs'
<1>1. tx'[w].pc = pc /\ \A o \in Writers : o # w => tx'[o] = tx[o]
  BY Renewed
<1> QED
  BY <1>1, RunsByOne DEF InUse

LEMMA RunsStep ==
  ASSUME TypeOK, Rows, Runs, [Next]_vars
  PROVE  Runs'
<1> Worker \in Writers /\ AutoJob \in Writers /\ \A j \in Jobs : j \in Writers /\ j # Worker
  BY DEF Writers
<1>1. ASSUME NEW w \in Writers, Aborts(w) PROVE Runs'
  BY <1>1, RunsRenewed DEF Aborts
<1>2. ASSUME NEW w \in Writers, Load(w) \/ PickVersion(w) \/ Insert(w) PROVE Runs'
  <2>1. /\ tx[w].pc \in {"load", "pick", "insert"} /\ UNCHANGED <<analyses, tries>>
        /\ \A o \in Writers : o # w => tx'[o] = tx[o]
    BY <1>2, InTransaction
  <2> QED
    BY <2>1, RunsByOne DEF InUse
<1>3. CASE BeginFinalize
  <2>1. UNCHANGED <<analyses, tries>>
    BY <1>3 DEF BeginFinalize
  <2> QED
    BY <1>3, <2>1, Begun, RunsByOne
<1>4. CASE CommitFinalize
  BY <1>4, RunsRenewed DEF CommitFinalize
<1>5. CASE EnqueueAi
  <2>1. /\ tx'[AutoJob] = tx[AutoJob] \/ tx'[AutoJob].pc = "queued"
        /\ \A o \in Writers \ {Worker, AutoJob} : tx'[o] = tx[o]
    BY <1>5, Enqueued
  <2>2. UNCHANGED <<analyses, tries>>
    BY <1>5 DEF EnqueueAi
  <2>3. ASSUME NEW j \in Jobs PROVE Used(j)' /\ InRun(j)'
    BY <2>1, <2>2 DEF Runs, Used, InRun, InUse
  <2> QED
    BY <2>3 DEF Runs
<1>6. CASE WorkerCrash
  BY <1>6, RunsRenewed DEF WorkerCrash
<1>7. ASSUME NEW j \in Jobs, Reanalyze(j) \/ EndJob(j) \/ CrashJob(j) PROVE Runs'
  BY <1>7, RunsRenewed DEF Reanalyze, EndJob, CrashJob
<1>8. ASSUME NEW j \in Jobs, StartJob(j) PROVE Runs'
  <2>1. /\ analyses' = analyses /\ tries \in [Jobs -> Nat] /\ tries' = [tries EXCEPT ![j] = @ + 1]
    BY <1>8, SMT DEF StartJob, TypeOK
  <2>2. \A o \in Writers : o # j => tx'[o] = tx[o]
    BY <1>8, Started
  <2>3. \A a \in analyses : a.run \in Nat
    BY SMT DEF TypeOK, Analysis
  <2>4. ASSUME NEW i \in Jobs PROVE Used(i)' /\ InRun(i)'
    <3>1. CASE i = j
      <4>1. tries'[j] = tries[j] + 1 /\ \A a \in analyses : a.job = j => a.run < tries'[j]
        BY <2>1, <2>3, SMT DEF Runs, Used
      <4> QED
        BY <2>1, <2>3, <3>1, <4>1, SMT DEF Used, InRun
    <3>2. CASE i # j
      BY <2>1, <2>2, <3>2 DEF Runs, Used, InRun
    <3> QED
      BY <3>1, <3>2
  <2> QED
    BY <2>4 DEF Runs
<1>9. ASSUME NEW j \in Jobs, Think(j) PROVE Runs'
  <2>1. tx[j].pc = "think" /\ \A o \in Writers : o # j => tx'[o] = tx[o]
    BY <1>9, ThinkReads
  <2> QED
    BY <1>9, <2>1, RunsByOne DEF Think, InUse
<1>10. ASSUME NEW j \in Jobs, CommitJob(j) PROVE Runs'
  <2>1. /\ tries' = tries /\ tries \in [Jobs -> Nat]
        /\ analyses' = analyses \cup {[job |-> j, run |-> tries[j], ok |-> tx[j].ok]}
    BY <1>10, SMT DEF CommitJob, TypeOK
  <2>2. tx'[j].pc = "after" /\ \A o \in Writers : o # j => tx'[o] = tx[o]
    BY <1>10, Renewed DEF CommitJob
  <2>3. ASSUME NEW i \in Jobs PROVE Used(i)' /\ InRun(i)'
    <3>1. Used(i)'
      BY <2>1, SMT DEF Runs, Used
    <3>2. InRun(i)'
      BY <2>1, <2>2 DEF Runs, InRun, InUse
    <3> QED
      BY <3>1, <3>2
  <2> QED
    BY <2>3 DEF Runs
<1>11. CASE EndOtherwise \/ (\E f \in Findings : Triage(f)) \/ UNCHANGED vars
  <2>1. UNCHANGED <<analyses, tx, tries>>
    BY <1>11 DEF EndOtherwise, Triage, PersistFinding, PatchFinding, vars
  <2> QED
    BY <2>1, RunsByOne
<1>12. CASE \E w \in Writers : Store(w)
  BY <1>1, <1>2, <1>12 DEF Store, InsertConflict
<1>13. CASE Finalize
  BY <1>3, <1>4, <1>5, <1>13 DEF Finalize
<1>14. CASE \E j \in Jobs : Reanalyze(j) \/ RunJob(j)
  BY <1>7, <1>8, <1>9, <1>10, <1>14 DEF RunJob
<1>15. CASE Fault
  BY <1>1, <1>6, <1>7, <1>15 DEF Fault, DatabaseFails
<1> QED
  BY <1>11, <1>12, <1>13, <1>14, <1>15 DEF Next

-----------------------------------------------------------------------------
(* The steps of the log *)

\* A commit of rows appends one entry.
LEMMA CommitAppends ==
  ASSUME TypeOK, Rows, NEW w \in Writers, tx[w].pc = "commit", tx[w].rows # {},
         reports' = reports \cup tx[w].rows
  PROVE  Log!Append(tx[w].doc, w, RunOf(w))
<1>1. PICK n \in Nat : Height(n) /\ Holds(w, n)
  BY DEF Rows, Numbered
<1> DEFINE Entry == {[format |-> fmt, version |-> n + 1, doc |-> tx[w].doc,
                      by |-> w, run |-> RunOf(w)] : fmt \in Log!Formats}
<1>2. Log!Length(n)
  BY <1>1 DEF Log!Length, Log!Formats, Height, VersionsOf
<1>3. n \in {0} \cup {r.version : r \in reports}
  <2>1. CASE n > 0
    <3>1. n \in VersionsOf("json")
      BY <1>1, <2>1, SMT DEF Height
    <3> QED
      BY <3>1 DEF VersionsOf
  <2> QED
    BY <2>1, SMT
<1>4. tx[w].rows = {RowOf(w, "json", n + 1), RowOf(w, "html", n + 1)}
  BY <1>1 DEF Holds
<1>5. Entry = {RowOf(w, "json", n + 1), RowOf(w, "html", n + 1)}
  BY Zenon DEF Log!Formats, RowOf
<1> HIDE DEF Entry
<1>6. reports' = reports \cup Entry
  BY <1>4, <1>5
<1> QED
  BY <1>2, <1>3, <1>6 DEF Log!Append, Entry

\* The commit of _finalize ends the scan with the first entry.
LEMMA FinalizeAppends ==
  ASSUME TypeOK, Rows, Lifecycle, Kept, CommitFinalize
  PROVE  Log!EndWithReport
<1> Worker \in Writers
  BY DEF Writers
<1>1. /\ tx[Worker].pc = "commit" /\ scan' = tx[Worker].outcome
      /\ reports' = reports \cup tx[Worker].rows /\ UNCHANGED <<findings, analyses>>
  BY DEF CommitFinalize, At
<1>2. scan = "running" /\ reports = {} /\ tx[Worker].rows # {}
  BY <1>1 DEF Lifecycle, ScanState, Enrichable
<1>3. scan' \in Log!Enrichable /\ tx[Worker].doc \in Log!Documents
  <2>1. tx[Worker].outcome \in Enrichable /\ tx[Worker].doc \in Documents
    BY SMT DEF TypeOK, Transaction
  <2> QED
    BY <1>1, <2>1 DEF Log!Enrichable, Enrichable, Log!Documents, Documents
<1>4. Log!Shows(tx[Worker].doc)
  BY <1>2 DEF Kept, Copy, Below, Log!Shows
<1>5. Log!Append(tx[Worker].doc, Worker, 0)
  <2>1. RunOf(Worker) = 0
    BY DEF RunOf
  <2> QED
    BY <1>1, <1>2, <2>1, CommitAppends
<1> QED
  BY <1>1, <1>2, <1>3, <1>4, <1>5 DEF Log!EndWithReport

\* The commit of a job stores the analyses of its run, and their entry if there is one.
LEMMA JobAppends ==
  ASSUME TypeOK, Rows, Lifecycle, Kept, Together, Runs, NEW j \in Jobs, CommitJob(j)
  PROVE  \E run \in 1..MaxTries : Log!Enrich(j, run) \/ Log!AnalysisFailed(j, run)
<1> j \in Writers /\ j # Worker
  BY DEF Writers
<1> DEFINE run == tries[j]
<1>1. /\ tx[j].pc = "commit" /\ reports' = reports \cup tx[j].rows /\ UNCHANGED <<scan, findings>>
      /\ analyses' = analyses \cup {[job |-> j, run |-> run, ok |-> tx[j].ok]}
  BY DEF CommitJob, At
<1>2. run \in 1..MaxTries
  BY <1>1, SMT DEF TypeOK, Runs, InRun, InUse
<1>3. \A a \in analyses : ~(a.job = j /\ a.run = run)
  BY <1>1 DEF Runs, InRun, InUse
<1>4. scan \in Log!Enrichable
  BY <1>1 DEF Lifecycle, ScanState, Log!Enrichable, Enrichable
<1>5. tx[j].ok <=> tx[j].rows # {}
  BY <1>1 DEF Together, Shows
<1>6. tx[j].ok \in BOOLEAN /\ tx[j].doc \in Log!Documents /\ tx[j].known \in Documents
  BY SMT DEF TypeOK, Transaction, Documents, Log!Documents
<1> HIDE DEF run
<1>7. CASE tx[j].ok
  <2>1. Log!Analyse(j, run, TRUE)
    BY <1>1, <1>3, <1>4, <1>6, <1>7 DEF Log!Analyse
  <2>2. Below(tx[j].known, tx[j].doc) /\ Below(tx[j].doc, findings)
    BY <1>5, <1>7 DEF Kept, Copy
  <2>3. Log!Shows(tx[j].doc)
    BY <2>2 DEF Below, Log!Shows
  <2>4. Log!Keeps(tx[j].doc)
    <3> SUFFICES ASSUME NEW r \in reports, r.by = Worker PROVE Below(r.doc, tx[j].doc)
      BY DEF Log!Keeps, Below
    <3>1. Below(r.doc, tx[j].known)
      BY <1>1 DEF Kept, Copy, InUse
    <3> QED
      BY <2>2, <3>1, DocumentTypes, BelowOrder
  <2>5. Log!Append(tx[j].doc, j, run)
    BY <1>1, <1>5, <1>7, CommitAppends DEF RunOf, run
  <2>6. Log!Enrich(j, run)
    BY <1>1, <1>6, <2>1, <2>3, <2>4, <2>5 DEF Log!Enrich
  <2> QED
    BY <1>2, <2>6
<1>8. CASE ~tx[j].ok
  <2>1. Log!Analyse(j, run, FALSE)
    BY <1>1, <1>3, <1>4, <1>6, <1>8 DEF Log!Analyse
  <2>2. Log!AnalysisFailed(j, run)
    BY <1>1, <1>5, <1>8, <2>1 DEF Log!AnalysisFailed
  <2> QED
    BY <1>2, <2>2
<1> QED
  BY <1>7, <1>8

\* Only commits and findings are seen: every other step of a writer leaves the log alone.
LEMMA LogStep ==
  ASSUME TypeOK, Rows, Lifecycle, Kept, Together, Runs, [Next]_vars
  PROVE  [Log!Next]_(Log!vars)
<1> USE DEF Log!vars
<1>1. ASSUME NEW w \in Writers, Aborts(w),
             tx[w].pc \in {"think", "load", "pick", "insert", "commit"}
      PROVE  [Log!Next]_(Log!vars)
  <2>1. CASE scan' = scan
    BY <1>1, <2>1 DEF Aborts
  <2>2. CASE scan' # scan
    <3>1. w = Worker /\ scan' = "failed" /\ UNCHANGED <<findings, reports, analyses>>
      BY <1>1, <2>2 DEF Aborts
    <3>2. scan = "running"
      BY <1>1, <3>1 DEF Lifecycle, ScanState
    <3> QED
      BY <3>1, <3>2 DEF Log!Next, Log!EndWithout
  <2> QED
    BY <2>1, <2>2
<1>2. CASE EndOtherwise
  BY <1>2 DEF EndOtherwise, Log!Next, Log!EndWithout
<1>3. CASE CommitFinalize
  BY <1>3, FinalizeAppends DEF Log!Next
<1>4. ASSUME NEW j \in Jobs, CommitJob(j) PROVE [Log!Next]_(Log!vars)
  BY <1>4, JobAppends DEF Log!Next
<1>5. ASSUME NEW f \in Findings, Triage(f) PROVE [Log!Next]_(Log!vars)
  <2>1. /\ findings[f] < MaxRevision /\ findings' = [findings EXCEPT ![f] = @ + 1]
        /\ UNCHANGED <<scan, reports, analyses>>
    BY <1>5, SMT DEF Triage, PersistFinding, PatchFinding, TypeOK, Documents
  <2> QED
    BY <2>1 DEF Log!Next, Log!Triage
<1>6. ASSUME NEW w \in Writers, Store(w) PROVE [Log!Next]_(Log!vars)
  BY <1>1, <1>6 DEF Store, Load, PickVersion, Insert, InsertConflict, At
<1>7. CASE Finalize
  BY <1>3, <1>7 DEF Finalize, BeginFinalize, EnqueueAi
<1>8. ASSUME NEW j \in Jobs, Reanalyze(j) \/ RunJob(j) PROVE [Log!Next]_(Log!vars)
  BY <1>4, <1>8 DEF Reanalyze, RunJob, StartJob, Think, EndJob
<1>9. CASE Fault
  BY <1>1, <1>9 DEF Fault, WorkerCrash, CrashJob, DatabaseFails
<1>10. CASE UNCHANGED vars
  BY <1>10 DEF vars
<1> QED
  BY <1>2, <1>5, <1>6, <1>7, <1>8, <1>9, <1>10 DEF Next

-----------------------------------------------------------------------------
(* Theorems *)

LEMMA InitRuns == Init => Runs /\ Log!Init
BY DEF Init, Fresh, Runs, Used, InRun, InUse, Writers, Log!Init, Nothing

\* The number of a run is used once: the analyses that ai/pipelines/report.py commits
\* for it are never there when the run, or a later one, is still in progress.
THEOREM RunsAreNumbered == Spec => []Runs
<1>1. IInv /\ Runs /\ [Next]_vars => Runs'
  BY RunsStep DEF IInv
<1> QED
  BY <1>1, InitRuns, Invariance, PTL DEF Spec

\* Every execution of ScanReports, seen from its committed rows, is one of ReportLog:
\* the statements of store_report, the conflicts of its inserts, aborted transactions
\* and repeated jobs amount to appends of whole entries.
THEOREM ReportsAreALog == Spec => ImplementsLog
<1>1. IInv /\ Runs /\ [Next]_vars => [Log!Next]_(Log!vars)
  BY LogStep DEF IInv
<1>2. Init => Log!Init
  BY InitRuns
<1> QED
  BY <1>1, <1>2, Invariance, RunsAreNumbered, PTL DEF Spec, ImplementsLog, Log!Spec
=============================================================================
