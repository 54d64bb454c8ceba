--------------------------- MODULE MCScanReports ---------------------------
(* ScanReports on small instances. *)
EXTENDS ScanReports, TLC
=============================================================================
