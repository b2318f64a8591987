---------------------------- MODULE ScanPromise -----------------------------
(***************************************************************************)
(* What a Topic promises about its Scans, whatever callers, sweeps, workers *)
(* and retries do behind them: a Scan is opened once, ends, and never opens *)
(* again, its outcome may be corrected, and it is told about only once it   *)
(* has ended.                                                              *)
(***************************************************************************)

CONSTANT Scan

VARIABLES
  scans, \* the status of each Scan
  told   \* the Scans that somebody was told about

Outcome == {"succeeded", "failed"}

Init ==
  /\ scans \in [Scan -> {"unused", "running"}]
  /\ told = {}

Becomes(s, status) == scans' = [scans EXCEPT ![s] = status] /\ UNCHANGED told

\* A Scan is opened, or saved as failed at once.
Open(s) == scans[s] = "unused" /\ \E status \in {"running", "failed"} : Becomes(s, status)

\* A Scan ends, or its outcome is corrected.
End(s) == scans[s] \in {"running"} \cup Outcome /\ \E status \in Outcome : Becomes(s, status)

\* Some open Scans are given up together.
GiveUp(ss) ==
  /\ \A s \in ss : scans[s] = "running"
  /\ scans' = [s \in Scan |-> IF s \in ss THEN "failed" ELSE scans[s]]
  /\ UNCHANGED told

\* A Scan is dropped, and leaves no outcome.
Drop(s) == scans[s] # "unused" /\ Becomes(s, "deleted")

Tell(s) ==
  /\ scans[s] \in Outcome \cup {"deleted"}
  /\ told' = told \cup {s}
  /\ UNCHANGED scans

Next ==
  \/ \E s \in Scan : Open(s) \/ End(s) \/ Drop(s) \/ Tell(s)
  \/ \E ss \in SUBSET Scan : GiveUp(ss)

Spec == Init /\ [][Next]_<<scans, told>>

=============================================================================
