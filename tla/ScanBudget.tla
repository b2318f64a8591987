----------------------------- MODULE ScanBudget -----------------------------
(***************************************************************************)
(* The money of one Scan's review: the Budget of each attempt of           *)
(* reviewForScan, the paid tasks that reserve from it, charge it and       *)
(* release it side by side, the checkpoint that a heartbeat leaves for the *)
(* next attempt, and the cost that the Scan's row ends up with.            *)
(*                                                                         *)
(* A Budget lives in its attempt.  An attempt that Temporal gave up on may *)
(* still run and charge its own Budget while the next one runs.            *)
(***************************************************************************)
EXTENDS Naturals, FiniteSets

CONSTANTS
  MaxAttempts,   \* REVIEW_ATTEMPTS
  Resources,     \* how many Resources the review ranks
  Concurrency,   \* REVIEW_CONCURRENCY
  Limit,         \* SCAN_BUDGET_USD
  MaxScored,     \* MAX_SCORED_RESOURCES_PER_SCAN
  FetchCost, CheapCost, PremiumCost,  \* a Resource's largest costs by stage
  ContextCost, BatchCost, ReportCost, \* the costs that nothing reserves
  MaxIngestCost  \* bound on what ingest spent before the review

ASSUME BudgetAssumption ==
  /\ MaxAttempts \in Nat \ {0} /\ Resources \in Nat /\ Concurrency \in Nat \ {0}
  /\ Limit \in Nat \ {0} /\ MaxScored \in Nat \ {0}
  /\ {FetchCost, CheapCost, PremiumCost, ContextCost, BatchCost, ReportCost} \subseteq Nat
  /\ MaxIngestCost \in Nat

VARIABLES
  attempts,    \* each attempt of the activity, with its Budget
  tasks,       \* each attempt's paid task of each Resource
  held,        \* the attempt the workflow waits for, or 0
  checkpoint,  \* the settled counters of the last heartbeat
  ingestCost,  \* what the Budget that ingest returned had spent
  kept,        \* the Resources with a Finding of this review
  row,         \* the Scan's status and cost
  billed       \* what was spent in all

vars == <<attempts, tasks, held, checkpoint, ingestCost, kept, row, billed>>

-----------------------------------------------------------------------------
(* Types *)

Attempt == 1..MaxAttempts
Resource == 1..Resources  \* in the order of rankBySimilarity

\* What one paid task reserves.
Largest == FetchCost + CheapCost + PremiumCost

\* A failed attempt has thrown, but tasks of it may go on.  In a dead one none does.
Stage == {"none", "context", "gate", "score", "report", "record", "returned", "failed", "dead"}
Active == {"fetch", "store", "cheap", "premium", "save"}
Task == Active \cup {"waiting", "ended", "deferred", "rejected"}

\* The Budget's counters; scored is the sum of the fetch counts.
Counters == [spent : Nat, scored : Nat]
NoCheckpoint == [spent |-> 0, scored |-> 0, isWritten |-> FALSE]

\* Well-typed states.  What an attempt has reserved is a whole number of tasks, one
\* for each worker at most.
TypeOK ==
  /\ attempts \in [Attempt -> [stage : Stage, spent : Nat, scored : 0..(MaxScored + Concurrency),
                               reserved : {n * Largest : n \in 0..Concurrency}, isStopped : BOOLEAN]]
  /\ tasks \in [Attempt -> [Resource -> Task]]
  /\ held \in 0..MaxAttempts
  /\ checkpoint \in [spent : Nat, scored : Nat, isWritten : BOOLEAN]
  /\ ingestCost \in 0..MaxIngestCost
  /\ kept \subseteq Resource
  /\ row \in [status : {"running", "finished", "failed", "stopped"}, cost : Nat]
  /\ billed \in Nat

-----------------------------------------------------------------------------
(* The Budget *)

\* Mutant: the checkpoint is added to what ingest passed on.
ResumedTwice ==
  [spent |-> ingestCost + checkpoint.spent, scored |-> checkpoint.scored]

\* toResumedBudget: the checkpoint, or what ingest passed on.
Resumed ==
  IF checkpoint.isWritten
  THEN [spent |-> checkpoint.spent, scored |-> checkpoint.scored]
  ELSE [spent |-> ingestCost, scored |-> 0]

CanSpend(a) == attempts[a].spent < Limit

\* Mutant: one Resource too many.
CanScoreOneMore(a) ==
  ~attempts[a].isStopped /\ CanSpend(a) /\ attempts[a].scored <= MaxScored

CanScore(a) ==
  ~attempts[a].isStopped /\ CanSpend(a) /\ attempts[a].scored < MaxScored

\* Mutant: what the running tasks reserved is left out.
CanReserveSpent(a) == attempts[a].spent < Limit

CanReserve(a) == attempts[a].spent + attempts[a].reserved < Limit

\* charge
Charged(a, cost) == [attempts EXCEPT ![a].spent = @ + cost]

\* Mutant: a task that fails keeps its reservation.
KeptReservation(reserved) == reserved

\* Mutant: the reserved cost of the fetch is forgotten.
ReleasedScores(reserved) ==
  IF reserved > CheapCost + PremiumCost THEN reserved - (CheapCost + PremiumCost) ELSE 0

\* releaseScanSpend
Released(reserved) == IF reserved > Largest THEN reserved - Largest ELSE 0

-----------------------------------------------------------------------------
(* An attempt *)

IdleAttempt ==
  [stage |-> "none", spent |-> 0, scored |-> 0, reserved |-> 0, isStopped |-> FALSE]

Init ==
  /\ attempts = [a \in Attempt |-> IdleAttempt]
  /\ tasks = [a \in Attempt |-> [r \in Resource |-> "waiting"]]
  /\ held = 0
  /\ checkpoint = NoCheckpoint
  /\ ingestCost \in 0..MaxIngestCost
  /\ kept = {}
  /\ row = [status |-> "running", cost |-> ingestCost]
  /\ billed = ingestCost

\* The attempt's code still runs.
IsRunning(a) == attempts[a].stage \in {"context", "gate", "score", "report", "record"}

\* Tasks run on after another task made the attempt throw.
RunsTasks(a) == attempts[a].stage \in {"score", "failed"}

\* The workflow stops waiting for the attempt, if it did.
LetGo(a) == held' = IF held = a THEN 0 ELSE held

Reaches(a, stage) == attempts' = [attempts EXCEPT ![a].stage = stage]

\* Temporal starts the next attempt.  It skips the Resources with a Finding, except
\* pages that every Scan reads again, and returns at once if none is left.
StartAttempt(a) ==
  /\ row.status = "running" /\ held = 0
  /\ attempts[a].stage = "none" /\ \A b \in 1..(a - 1) : attempts[b].stage # "none"
  /\ \E reviewed \in SUBSET kept :
       /\ attempts' = [attempts EXCEPT ![a] =
            [IdleAttempt EXCEPT !.stage = IF reviewed = Resource THEN "record" ELSE "context",
                                !.spent = Resumed.spent, !.scored = Resumed.scored]]
       /\ tasks' = [tasks EXCEPT ![a] = [r \in Resource |-> IF r \in reviewed THEN "ended" ELSE "waiting"]]
  /\ held' = a
  /\ UNCHANGED <<checkpoint, ingestCost, kept, row, billed>>

\* loadTopicContext charges without a look at the limit.
EmbedContext(a) ==
  /\ attempts[a].stage = "context" /\ ~attempts[a].isStopped
  /\ \E cost \in {0, ContextCost} :
       /\ attempts' = [Charged(a, cost) EXCEPT ![a].stage = "gate"]
       /\ billed' = billed + cost
  /\ UNCHANGED <<tasks, held, checkpoint, ingestCost, kept, row>>

\* A stop that came before the review returns an empty summary.
ReviewsNothing(a) ==
  /\ attempts[a].stage = "context" /\ attempts[a].isStopped
  /\ Reaches(a, "record")
  /\ UNCHANGED <<tasks, held, checkpoint, ingestCost, kept, row, billed>>

\* embedMissingVectors: one more chunk.
EmbedBatch(a) ==
  /\ attempts[a].stage = "gate" /\ ~attempts[a].isStopped /\ CanSpend(a)
  /\ attempts' = Charged(a, BatchCost)
  /\ billed' = billed + BatchCost
  /\ UNCHANGED <<tasks, held, checkpoint, ingestCost, kept, row>>

\* The gate and the dedupe drop some Resources, unembedded ones among them.
BeginScoring(a) ==
  /\ attempts[a].stage = "gate"
  /\ Reaches(a, "score")
  /\ \E dropped \in SUBSET Resource :
       tasks' = [tasks EXCEPT ![a] = [r \in Resource |-> IF r \in dropped THEN "ended" ELSE @[r]]]
  /\ UNCHANGED <<held, checkpoint, ingestCost, kept, row, billed>>

ScoringEnds(a) ==
  /\ attempts[a].stage = "score"
  /\ \A r \in Resource : tasks[a][r] \in {"ended", "deferred"}
  /\ Reaches(a, IF attempts[a].isStopped THEN "record" ELSE "report")
  /\ UNCHANGED <<tasks, held, checkpoint, ingestCost, kept, row, billed>>

\* summarizeTopicScan charges without a look at the limit, and fails alone.
ReportReturns(a) ==
  /\ attempts[a].stage = "report"
  /\ \E cost \in {0, ReportCost} :
       /\ attempts' = [Charged(a, cost) EXCEPT ![a].stage = "record"]
       /\ billed' = billed + cost
  /\ UNCHANGED <<tasks, held, checkpoint, ingestCost, kept, row>>

\* recordScanProgress, whatever the row holds.
RecordScanProgress(a) ==
  /\ attempts[a].stage = "record"
  /\ Reaches(a, "returned")
  /\ row' = [row EXCEPT !.cost = attempts[a].spent]
  /\ UNCHANGED <<tasks, held, checkpoint, ingestCost, kept, billed>>

\* withHeartbeat checkpoints the settled counters.
Heartbeat(a) ==
  /\ held = a /\ IsRunning(a)
  /\ checkpoint' = [spent |-> attempts[a].spent, scored |-> attempts[a].scored, isWritten |-> TRUE]
  /\ UNCHANGED <<attempts, tasks, held, ingestCost, kept, row, billed>>

\* A statement outside of the paid section throws, while no task runs.
AttemptThrows(a) ==
  /\ IsRunning(a) /\ attempts[a].stage # "score"
  /\ Reaches(a, "dead")
  /\ LetGo(a)
  /\ UNCHANGED <<tasks, checkpoint, ingestCost, kept, row, billed>>

\* Temporal gives the attempt up: its worker died, or only its heartbeats are late.
LoseAttempt(a) ==
  /\ held = a
  /\ held' = 0
  /\ UNCHANGED attempts \/ Reaches(a, "dead")
  /\ UNCHANGED <<tasks, checkpoint, ingestCost, kept, row, billed>>

\* An attempt that nobody waits for learns of it.
StopArrives(a) ==
  /\ held # a /\ IsRunning(a) /\ ~attempts[a].isStopped
  /\ attempts' = [attempts EXCEPT ![a].isStopped = TRUE]
  /\ UNCHANGED <<tasks, held, checkpoint, ingestCost, kept, row, billed>>

-----------------------------------------------------------------------------
(* The paid section of one Resource *)

\* A task that a rejection ended took its worker with it.
IsBusy(a, r) == tasks[a][r] \in Active \cup {"rejected"}

\* runWithConcurrency hands the next Resource to a free worker.
IsNext(a, r) ==
  /\ tasks[a][r] = "waiting" /\ \A q \in 1..(r - 1) : tasks[a][q] # "waiting"
  /\ Cardinality({q \in Resource : IsBusy(a, q)}) < Concurrency

Becomes(a, r, task) == tasks' = [tasks EXCEPT ![a][r] = task]

StartPaidTask(a, r) ==
  /\ RunsTasks(a) /\ IsNext(a, r)
  /\ CanScore(a) /\ CanReserve(a)
  /\ Becomes(a, r, "fetch")
  /\ attempts' = [attempts EXCEPT ![a].reserved = @ + Largest]
  /\ UNCHANGED <<held, checkpoint, ingestCost, kept, row, billed>>

Defer(a, r) ==
  /\ RunsTasks(a) /\ IsNext(a, r)
  /\ ~(CanScore(a) /\ CanReserve(a))
  /\ Becomes(a, r, "deferred")
  /\ UNCHANGED <<attempts, held, checkpoint, ingestCost, kept, row, billed>>

\* A paid fetch is charged before its content is stored.
FetchIsCharged(a, r) ==
  /\ RunsTasks(a) /\ tasks[a][r] = "fetch"
  /\ attempts' = Charged(a, FetchCost)
  /\ billed' = billed + FetchCost
  /\ Becomes(a, r, "store")
  /\ UNCHANGED <<held, checkpoint, ingestCost, kept, row>>

\* Every outcome counts, reused content and a failed fetch too.  With no text the
\* task ends.
FetchReturns(a, r) ==
  /\ RunsTasks(a) /\ tasks[a][r] \in {"fetch", "store"}
  /\ \E hasText \in BOOLEAN :
       /\ attempts' = [attempts EXCEPT
            ![a].scored = @ + 1, ![a].reserved = IF hasText THEN @ ELSE Released(@)]
       /\ Becomes(a, r, IF hasText THEN "cheap" ELSE "ended")
  /\ UNCHANGED <<held, checkpoint, ingestCost, kept, row, billed>>

\* scoreResource promotes a good Resource while the Scan can spend.
CheapReturns(a, r) ==
  /\ RunsTasks(a) /\ tasks[a][r] = "cheap"
  /\ \E cost \in {0, CheapCost}, isPromoted \in BOOLEAN :
       /\ attempts' = Charged(a, cost)
       /\ billed' = billed + cost
       /\ Becomes(a, r, IF isPromoted /\ attempts[a].spent + cost < Limit THEN "premium" ELSE "save")
  /\ UNCHANGED <<held, checkpoint, ingestCost, kept, row>>

PremiumReturns(a, r) ==
  /\ RunsTasks(a) /\ tasks[a][r] = "premium"
  /\ \E cost \in {0, PremiumCost} :
       /\ attempts' = Charged(a, cost)
       /\ billed' = billed + cost
  /\ Becomes(a, r, "save")
  /\ UNCHANGED <<held, checkpoint, ingestCost, kept, row>>

\* upsertFinding, unless the score rejects the Resource.
SaveReturns(a, r) ==
  /\ RunsTasks(a) /\ tasks[a][r] = "save"
  /\ kept' = kept \/ kept' = kept \cup {r}
  /\ Becomes(a, r, "ended")
  /\ attempts' = [attempts EXCEPT ![a].reserved = Released(@)]
  /\ UNCHANGED <<held, checkpoint, ingestCost, row, billed>>

\* What a failed call may have charged: chargeScoringFailure.  Storing what a fetch
\* returned never fails the task, which goes on with the snippet.
FailureCosts(task) == CASE task = "cheap" -> {0, CheapCost}
                        [] task = "premium" -> {0, PremiumCost}
                        [] OTHER -> {0}

PaidTaskFails(a, r) ==
  /\ RunsTasks(a) /\ tasks[a][r] \in Active \ {"store"}
  /\ \E cost \in FailureCosts(tasks[a][r]) :
       /\ attempts' = [Charged(a, cost) EXCEPT ![a].reserved = Released(@)]
       /\ billed' = billed + cost
  /\ Becomes(a, r, "ended")
  /\ UNCHANGED <<held, checkpoint, ingestCost, kept, row>>

\* The owner's key has no money left: the attempt throws, the other tasks run on.
BudgetRejected(a, r) ==
  /\ RunsTasks(a) /\ tasks[a][r] \in {"cheap", "premium"}
  /\ Becomes(a, r, "rejected")
  /\ attempts' = [attempts EXCEPT ![a].stage = "failed", ![a].reserved = Released(@)]
  /\ LetGo(a)
  /\ UNCHANGED <<checkpoint, ingestCost, kept, row, billed>>

-----------------------------------------------------------------------------
(* The workflow *)

\* finishScan, with the Budget that the review returned.
FinishScan(a) ==
  /\ row.status = "running" /\ held = a /\ attempts[a].stage = "returned"
  /\ row' = [status |-> "finished", cost |-> attempts[a].spent]
  /\ held' = 0
  /\ UNCHANGED <<attempts, tasks, checkpoint, ingestCost, kept, billed>>

\* spentBudget: what the last stage that returned handed to the workflow.
SpentBudget == IF held = 0 THEN ingestCost ELSE attempts[held].spent

\* failScan once the attempts or the stage's time are used up, or once finishScan
\* failed for good.
FailScan ==
  /\ row.status = "running"
  /\ held # 0 => attempts[held].stage = "returned"
  /\ row' = [status |-> "failed", cost |-> SpentBudget]
  /\ held' = 0
  /\ UNCHANGED <<attempts, tasks, checkpoint, ingestCost, kept, billed>>

\* The user stops the Scan: stopScan leaves the cost as it is.
StopScan ==
  /\ row.status = "running"
  /\ row' = [row EXCEPT !.status = "stopped"]
  /\ held' = 0
  /\ UNCHANGED <<attempts, tasks, checkpoint, ingestCost, kept, billed>>

-----------------------------------------------------------------------------

Next ==
  \/ \E a \in Attempt :
       \/ StartAttempt(a) \/ EmbedContext(a) \/ ReviewsNothing(a) \/ EmbedBatch(a)
       \/ BeginScoring(a) \/ ScoringEnds(a) \/ ReportReturns(a) \/ RecordScanProgress(a)
       \/ Heartbeat(a) \/ AttemptThrows(a) \/ LoseAttempt(a) \/ StopArrives(a) \/ FinishScan(a)
       \/ \E r \in Resource :
            \/ StartPaidTask(a, r) \/ Defer(a, r) \/ FetchIsCharged(a, r)
            \/ FetchReturns(a, r) \/ CheapReturns(a, r) \/ PremiumReturns(a, r)
            \/ SaveReturns(a, r) \/ PaidTaskFails(a, r) \/ BudgetRejected(a, r)
  \/ FailScan
  \/ StopScan

Spec == Init /\ [][Next]_vars

-----------------------------------------------------------------------------
(* Properties *)

\* Parallel tasks together pass the limit by less than one task's largest cost,
\* whatever came before them: reserveScanSpend.
ScoringStaysNearLimit ==
  [][\A a \in Attempt :
       RunsTasks(a) /\ attempts'[a].spent > attempts[a].spent
         => attempts'[a].spent < Limit + Largest]_vars

\* The tasks that start before the others have counted their fetch pass the limit
\* of scored Resources by less than the number of workers.
ScoredStaysNearMax ==
  \A a \in Attempt : attempts[a].scored < MaxScored + Concurrency

\* A Resource is put off only if the Scan is stopped, has scored enough, or is
\* within the other workers' largest costs of its limit: no reservation outlives
\* its task, however the task ends.
DeferredOnlyNearLimit ==
  \A a \in Attempt, r \in Resource :
    tasks[a][r] = "deferred" =>
      \/ attempts[a].isStopped
      \/ attempts[a].scored >= MaxScored
      \/ attempts[a].spent + (Concurrency - 1) * Largest >= Limit

\* The row never shows more than the attempts spent together.
RowCostWasBilled == row.cost <= billed

=============================================================================
