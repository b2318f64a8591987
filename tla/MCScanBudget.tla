---------------------------- MODULE MCScanBudget ----------------------------
(* Model checking of ScanBudget. *)
EXTENDS ScanBudget

=============================================================================
