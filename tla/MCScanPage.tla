----------------------------- MODULE MCScanPage -----------------------------
(* One page with two loads in flight, while the scan ends in one of three ways. *)
EXTENDS ScanPage, TLC
=============================================================================
