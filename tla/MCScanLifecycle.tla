-------------------------- MODULE MCScanLifecycle --------------------------
(* Small instances of ScanLifecycle for TLC. *)
EXTENDS ScanLifecycle, TLC

\* The rows an INSERT can pick are interchangeable, and so are the requests;
\* the first row is not.
Symmetry == Permutations(Row \ {FirstRow}) \cup Permutations(Request)

\* No action reads a row's history, and RunningScanKeepsItsRow reads only these marks
\* of it: for that property, states that differ in the other marks alone are one.
ContestMark == {"cut", "shared"}
ViewOfContests == <<rows, starters, sweepVars, runVars, userVars, faults,
                    [r \in Row |-> past[r] \cap ContestMark]>>

=============================================================================
