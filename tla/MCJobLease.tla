---------------------------- MODULE MCJobLease ----------------------------
(* Model checking of JobLease: the runs are interchangeable. *)
EXTENDS JobLease, TLC

Symmetry == Permutations(Holder)

=============================================================================
