--------------------------- MODULE MCScanLifecycle ---------------------------
(***************************************************************************)
(* ScanLifecycle for TLC, and what the repository's documents say of it    *)
(* that the code does not keep.                                            *)
(***************************************************************************)
EXTENDS ScanLifecycle

\* "On deadline, the scan becomes `timed_out` with a partial report"
\* (docs/scan-lifecycle.md 5.5): every timed-out scan has its report.
TimedOutHasReport == scan.status = "timed_out" => scan.reports = 1

\* "Scan queue unavailable; the scan was not started" (api/v1/scans.py, the
\* answer 503): a scan whose creation was refused was never executed.
RefusedNotStarted == api = "rejected" => scan.attempts = 0

\* "Legacy in-flight scan states map to running; the stale-scan reaper then
\* resolves them (timed_out / failed)" (migration 003): a migrated scan ends.
MigratedScanEnds == <>(scan.status \in Terminal)
=============================================================================
