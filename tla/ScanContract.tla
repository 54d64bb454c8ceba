----------------------------- MODULE ScanContract -----------------------------
(***************************************************************************)
(* What a scan promises to whoever created it, without workers, leases,    *)
(* queue or clock: the state machine of ALLOWED_TRANSITIONS in             *)
(* domain/scan_lifecycle.py, the bound on execution attempts, and the      *)
(* number of deterministic reports.  ScanLifecycle is shown to implement   *)
(* it.                                                                     *)
(***************************************************************************)
EXTENDS Naturals

CONSTANT MaxAttempts   \* settings.scan_max_attempts

VARIABLES status,      \* scans.status, "absent" before the row is inserted
          attempts,    \* scans.attempts
          reports      \* deterministic reports stored by the lifecycle

vars == <<status, attempts, reports>>

Init == status = "absent" /\ attempts = 0 /\ reports = 0

Submit ==
  /\ status = "absent" /\ status' = "queued"
  /\ UNCHANGED <<attempts, reports>>

\* The first execution, or the takeover of one whose worker was lost.
Execute ==
  /\ status \in {"queued", "running"} /\ status' = "running"
  /\ attempts < MaxAttempts /\ attempts' = attempts + 1
  /\ UNCHANGED reports

\* A completed scan gets its one report in the same step.
Complete ==
  /\ status = "running" /\ status' = "completed"
  /\ reports' = reports + 1
  /\ UNCHANGED attempts

\* A scan that ran out of time may or may not keep a partial report.
TimeOut ==
  /\ status = "running" /\ status' = "timed_out"
  /\ reports' \in {reports, reports + 1}
  /\ UNCHANGED attempts

GiveUp ==
  /\ status \in {"queued", "running"} /\ status' \in {"failed", "cancelled"}
  /\ UNCHANGED <<attempts, reports>>

Next == Submit \/ Execute \/ Complete \/ TimeOut \/ GiveUp

Spec == Init /\ [][Next]_vars
=============================================================================
