---------------------------- MODULE MCScanEmail -----------------------------
(* Model checking of ScanEmail. *)
EXTENDS ScanEmail

=============================================================================
