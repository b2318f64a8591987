--------------------------- MODULE ScanLifecycle ---------------------------
(***************************************************************************)
(* The Scans of one Topic: the rows of the scans table, the callers that   *)
(* open a row and hand it to Temporal, the scheduled sweep, the one        *)
(* workflow slot that the workflow id scan-<topicId> gives the Topic, the  *)
(* stages of the workflow in it, and the user's stop.                      *)
(*                                                                         *)
(* Every query of this code filters by the Topic or by a row's id, so the  *)
(* Scans of two Topics never meet and one Topic stands for all.  Each      *)
(* database statement and each call to Temporal is one step; between two   *)
(* of them anything else may happen.                                       *)
(***************************************************************************)
EXTENDS Naturals, FiniteSets

CONSTANTS
  Row,          \* the ids a scans row of this Topic can get
  FirstRow,     \* the row createTopic opens with the Topic
  NoRow,        \* stands for no row
  Request,      \* the requests for a manual Scan
  Sweep,        \* the scheduled sweep, one at a time under its job lease
  Creator,      \* the startFirstScan call that createTopic leaves running
  MaxAttempts,  \* attempts per activity (bound; the code has 3, 2 and 3)
  MaxFaults,    \* bound on crashes, lost and failed calls
  MaxStops,     \* bound on stop requests
  MaxDeletes,   \* bound on deletions of the Topic, 0 or 1
  MaxStrays     \* bound on abandoned attempts that still run

ASSUME RowAssumption == FirstRow \in Row /\ NoRow \notin Row
ASSUME StarterAssumption == Sweep # Creator /\ Sweep \notin Request /\ Creator \notin Request
ASSUME BoundAssumption == MaxAttempts \in Nat \ {0} /\ MaxFaults \in Nat
                          /\ MaxStops \in Nat /\ MaxDeletes \in 0..1 /\ MaxStrays \in Nat

VARIABLES
  rows,         \* the scans table
  isTopicSaved, \* whether the Topic still exists
  starters,     \* how far each caller that opens or hands over a row has come
  undispatched, \* the rows the sweep has read and not yet handled
  sweepStage,   \* where in its stages the sweep is
  run,          \* the Topic's workflow slot
  strays,       \* activity attempts nobody waits for any more
  stopCall,     \* a stop request between its two calls to Temporal
  faults,       \* faults so far
  stops,        \* stop requests so far
  past          \* history: what has ever happened to each row

sweepVars == <<undispatched, sweepStage>>
runVars == <<run, strays>>
userVars == <<isTopicSaved, stopCall, stops>>
vars == <<rows, starters, sweepVars, runVars, userVars, faults, past>>

-----------------------------------------------------------------------------
(* Types *)

Starter == Request \cup {Sweep, Creator}
Trigger == {"creation", "manual", "scheduled"}
Outcome == {"succeeded", "failed"}
Status == {"unused", "running", "deleted"} \cup Outcome

\* isOverdue stands for the times: the pickup, or the dispatch while there is no
\* pickup, is past its stale window.
ScanRow == [status : Status, isManual : BOOLEAN, isDispatched : BOOLEAN,
            isPickedUp : BOOLEAN, isOverdue : BOOLEAN, isStopped : BOOLEAN]

StarterState == [pc : {"idle", "opened", "select", "write", "start", "settle"},
                 scan : Row \cup {NoRow}, isExisting : BOOLEAN, trigger : Trigger,
                 answer : {"none", "started", "running", "error", "deadline"}]

Phase == {"closed", "ingest", "pickedUp", "ingesting", "review", "reviewing",
          "finish", "fail", "stop", "announce"}

Run == [phase : Phase, scan : Row \cup {NoRow}, trigger : Trigger, isCancelled : BOOLEAN,
        attempt : 0..(MaxAttempts - 1), ingestStatus : Outcome]

Stray == [act : {"pickUp", "check", "finish", "fail", "stop"}, scan : Row, ingestStatus : Outcome]

Mark == {"refused", "ran", "reviewed", "announced", "cut", "shared"}

TypeOK ==
  /\ rows \in [Row -> ScanRow]
  /\ isTopicSaved \in BOOLEAN
  /\ starters \in [Starter -> StarterState]
  /\ undispatched \subseteq [scan : Row, isManual : BOOLEAN]
  /\ sweepStage \in {"idle", "dispatch", "scheduled", "saveFailed"}
  /\ run \in Run
  /\ strays \subseteq Stray
  /\ stopCall \in {"idle", "described"}
  /\ faults \in 0..MaxFaults
  /\ stops \in 0..MaxStops
  /\ past \in [Row -> SUBSET Mark]

-----------------------------------------------------------------------------
(* Rows *)

UnusedRow == [status |-> "unused", isManual |-> FALSE, isDispatched |-> FALSE,
              isPickedUp |-> FALSE, isOverdue |-> FALSE, isStopped |-> FALSE]

\* A row as an INSERT leaves it: the columns' defaults, and the given fields.
NewRow(status, isManual) == [UnusedRow EXCEPT !.status = status, !.isManual = isManual]

Exists(r) == rows[r].status \notin {"unused", "deleted"}

\* finishedAt is set: every write that ends a Scan sets it together with status.
IsClosed(r) == rows[r].status \in Outcome

\* An UPDATE by id: a row that is gone is left gone.
Update(r, row) == rows' = IF Exists(r) THEN [rows EXCEPT ![r] = row] ELSE rows

Note(r, mark) == past' = [past EXCEPT ![r] = @ \cup {mark}]

NoteIf(condition, r, mark) == IF condition THEN Note(r, mark) ELSE UNCHANGED past

IsOpenUndispatched(r) == rows[r].status = "running" /\ ~rows[r].isDispatched

\* Mutant: the marker is written with the row as it was opened.
MarkDispatchedReopens(r) == Update(r, [rows[r] EXCEPT !.isDispatched = TRUE, !.status = "running"])

\* The stale window runs from the last dispatch until a worker picks the Scan up.
MarkDispatched(r) ==
  Update(r, [rows[r] EXCEPT !.isDispatched = TRUE,
                            !.isOverdue = @ /\ rows[r].isPickedUp])

\* The row as a write that ends its Scan leaves it.
ClosedRow(r, status) == [rows[r] EXCEPT !.status = status, !.isOverdue = FALSE]

\* Mutant: the UPDATE leaves out "startedAt is null".
IsUndispatchedUnattended(r) == IsOpenUndispatched(r) /\ ~rows[r].isManual

\* Fails a Scan nobody started by hand, handed over or picked up, in one UPDATE.
IsUnstarted(r) ==
  IsOpenUndispatched(r) /\ ~rows[r].isManual /\ ~rows[r].isPickedUp

FailUnstarted(r) ==
  IF IsUnstarted(r)
  THEN rows' = [rows EXCEPT ![r] = ClosedRow(r, "failed")] /\ Note(r, "refused")
  ELSE UNCHANGED <<rows, past>>

\* Mutant: only a picked-up row has a stale window.
IsStaleAfterPickUp(r) ==
  rows[r].status = "running" /\ rows[r].isPickedUp /\ rows[r].isOverdue

IsStale(r) == rows[r].status = "running" /\ rows[r].isDispatched /\ rows[r].isOverdue

FailStale ==
  rows' = [r \in Row |-> IF IsStale(r) THEN ClosedRow(r, "failed") ELSE rows[r]]

-----------------------------------------------------------------------------
(* The writes of the workflow's activities *)

\* Only the first pickup of a row is recorded.
PickUp(r) ==
  Update(r, [rows[r] EXCEPT !.isPickedUp = TRUE, !.isOverdue = @ /\ rows[r].isPickedUp])

\* finishScan and failScan write by id, whatever the row holds.
FinishWrite(r, status) == Update(r, ClosedRow(r, status))
FailWrite(r) == Update(r, ClosedRow(r, "failed"))

\* Mutant: stopScan writes whatever the row holds.
StopWriteAny(r) == Update(r, [ClosedRow(r, "succeeded") EXCEPT !.isStopped = TRUE])

\* stopScan writes only a Scan that has not finished.
StopWrite(r) ==
  IF IsClosed(r) THEN UNCHANGED rows
  ELSE Update(r, [ClosedRow(r, "succeeded") EXCEPT !.isStopped = TRUE])

-----------------------------------------------------------------------------
(* Initially createTopic's transaction has committed *)

IdleStarter == [pc |-> "idle", scan |-> NoRow, isExisting |-> FALSE,
                trigger |-> "scheduled", answer |-> "none"]

ClosedRun == [phase |-> "closed", scan |-> NoRow, trigger |-> "scheduled",
              isCancelled |-> FALSE, attempt |-> 0, ingestStatus |-> "succeeded"]

Init ==
  /\ rows = [r \in Row |-> IF r = FirstRow THEN NewRow("running", FALSE) ELSE UnusedRow]
  /\ isTopicSaved = TRUE
  /\ starters = [p \in Starter |->
       IF p = Creator
       THEN [IdleStarter EXCEPT !.pc = "opened", !.scan = FirstRow, !.isExisting = TRUE,
                                !.trigger = "creation"]
       ELSE IdleStarter]
  /\ undispatched = {}
  /\ sweepStage = "idle"
  /\ run = ClosedRun
  /\ strays = {}
  /\ stopCall = "idle"
  /\ faults = 0
  /\ stops = 0
  /\ past = [r \in Row |-> {}]

-----------------------------------------------------------------------------
(* Opening a row and handing it to Temporal: startTopicScan and scanTopic *)

Fault == faults < MaxFaults /\ faults' = faults + 1

Finish(p) == starters' = [starters EXCEPT ![p] = IdleStarter]

\* startFirstScan finds the owner's budget spent or manual scans paused.
FailFirstScan ==
  /\ starters[Creator].pc = "opened"
  /\ FailUnstarted(starters[Creator].scan)
  /\ Finish(Creator)
  /\ UNCHANGED <<faults, userVars, sweepVars, runVars>>

\* The wait for the url Source screens ends; the row was read before the wait.
FirstSourcesScreened ==
  /\ starters[Creator].pc = "opened"
  /\ starters' = [starters EXCEPT ![Creator].pc = "start"]
  /\ UNCHANGED <<rows, faults, past, userVars, sweepVars, runVars>>

\* A manual request that passed its gates closes out stale rows, then starts.
RequestScan(q) ==
  /\ starters[q].pc = "idle" /\ isTopicSaved
  /\ FailStale
  /\ starters' = [starters EXCEPT ![q].pc = "select", ![q].trigger = "manual"]
  /\ UNCHANGED <<faults, past, userVars, sweepVars, runVars>>

\* The call that inserted the row has not settled yet, and may still drop it.
IsBeingOpened(r) ==
  \E p \in Starter : /\ starters[p].scan = r /\ ~starters[p].isExisting
                     /\ starters[p].pc \in {"start", "settle"}

\* SELECT the Topic's newest open row without a dispatch marker.  The start
\* times that order the rows are not kept, so any of them may be the newest.
SelectOpenScan(p) ==
  /\ starters[p].pc = "select"
  /\ LET open == {r \in Row : isTopicSaved /\ IsOpenUndispatched(r)}
     IN  \E r \in IF open = {} THEN {NoRow} ELSE open :
           /\ starters' = [starters EXCEPT ![p].pc = "write", ![p].scan = r,
                                           ![p].isExisting = r # NoRow]
           /\ NoteIf(r # NoRow /\ IsBeingOpened(r), r, "shared")
  /\ UNCHANGED <<rows, faults, userVars, sweepVars, runVars>>

\* UPDATE the row that was read, by its id alone.
TakeOpenScan(p) ==
  LET r == starters[p].scan IN
  /\ starters[p].pc = "write" /\ r # NoRow /\ Exists(r)
  /\ Update(r, [rows[r] EXCEPT !.isManual = starters[p].trigger = "manual"])
  /\ starters' = [starters EXCEPT ![p].pc = "start"]
  /\ UNCHANGED <<faults, past, userVars, sweepVars, runVars>>

InsertScan(p) ==
  /\ starters[p].pc = "write" /\ starters[p].scan = NoRow /\ isTopicSaved
  /\ \E r \in Row :
       /\ rows[r].status = "unused"
       /\ rows' = [rows EXCEPT ![r] = NewRow("running", starters[p].trigger = "manual")]
       /\ starters' = [starters EXCEPT ![p].pc = "start", ![p].scan = r]
  /\ UNCHANGED <<faults, past, userVars, sweepVars, runVars>>

\* No row comes back from the write, because the row or the Topic is gone (or
\* this model's ids have run out): the call throws.
WriteFails(p) ==
  LET r == starters[p].scan IN
  /\ starters[p].pc = "write"
  /\ IF r = NoRow THEN ~isTopicSaved \/ \A s \in Row : rows[s].status # "unused"
                  ELSE ~Exists(r)
  /\ Finish(p)
  /\ UNCHANGED <<rows, faults, past, userVars, sweepVars, runVars>>

Answer(p, answer) == starters' = [starters EXCEPT ![p].pc = "settle", ![p].answer = answer]

\* Temporal accepts the start, and the answer arrives or is lost: to the deadline, or
\* to a connection that breaks, which the caller cannot tell from a refused start.
StartAccepted(p) ==
  LET s == starters[p] IN
  /\ s.pc = "start" /\ run.phase = "closed"
  /\ run' = [ClosedRun EXCEPT !.phase = "ingest", !.scan = s.scan, !.trigger = s.trigger]
  /\ \/ Answer(p, "started") /\ UNCHANGED <<past, faults>>
     \/ Answer(p, "deadline") /\ Fault /\ UNCHANGED past
     \/ Answer(p, "error") /\ Fault /\ Note(s.scan, "cut")
  /\ UNCHANGED <<rows, strays, userVars, sweepVars>>

\* The workflow id is taken: the Topic is already scanning.
StartRejected(p) ==
  /\ starters[p].pc = "start" /\ run.phase # "closed"
  /\ Answer(p, "running")
  /\ UNCHANGED <<rows, faults, past, userVars, sweepVars, runVars>>

\* The start never reaches Temporal.
StartLost(p) ==
  /\ starters[p].pc = "start"
  /\ \E answer \in {"error", "deadline"} : Answer(p, answer)
  /\ Fault
  /\ UNCHANGED <<rows, past, userVars, sweepVars, runVars>>

\* Mutant: a start that ran into the deadline counts as refused.
IsDroppedUnlessStarted(s) == s.answer # "started" /\ ~s.isExisting

\* Mutant: a rejected start drops an older row too.
IsDroppedIfRejected(s) == s.answer = "running" \/ (s.answer = "error" /\ ~s.isExisting)

\* The start threw or was rejected, and this call opened the row.
IsDropped(s) == s.answer \in {"error", "running"} /\ ~s.isExisting

DropRow(p) ==
  LET s == starters[p] IN
  /\ s.pc = "settle" /\ IsDropped(s)
  /\ Update(s.scan, [rows[s.scan] EXCEPT !.status = "deleted"])
  /\ Finish(p)
  /\ UNCHANGED <<faults, past, userVars, sweepVars, runVars>>

\* An ambiguous start keeps the row, and so does a failed start of an older row.
KeepRow(p) ==
  LET s == starters[p] IN
  /\ s.pc = "settle" /\ (s.answer = "deadline" \/ (s.answer = "error" /\ s.isExisting))
  /\ Finish(p)
  /\ UNCHANGED <<rows, faults, past, userVars, sweepVars, runVars>>

\* A started row, or a rejected older row, gets its dispatch marker.
MarkRow(p) ==
  LET s == starters[p] IN
  /\ s.pc = "settle" /\ (s.answer = "started" \/ (s.answer = "running" /\ s.isExisting))
  /\ MarkDispatched(s.scan)
  /\ Finish(p)
  /\ UNCHANGED <<faults, past, userVars, sweepVars, runVars>>

\* The process that runs a starter exits.
Crash(p) ==
  /\ starters[p].pc # "idle" \/ (p = Sweep /\ sweepStage # "idle")
  /\ Fault
  /\ Finish(p)
  /\ IF p = Sweep THEN sweepStage' = "idle" /\ undispatched' = {}
                  ELSE UNCHANGED <<sweepStage, undispatched>>
  /\ UNCHANGED <<rows, past, userVars, runVars>>

StarterStep(p) ==
  \/ SelectOpenScan(p) \/ TakeOpenScan(p) \/ InsertScan(p) \/ WriteFails(p)
  \/ StartAccepted(p) \/ StartRejected(p) \/ StartLost(p)
  \/ DropRow(p) \/ KeepRow(p) \/ MarkRow(p)

-----------------------------------------------------------------------------
(* The scheduled sweep *)

IsSweepAt(stage) == sweepStage = stage /\ starters[Sweep].pc = "idle"

\* startUndispatchedScans reads its rows once, each with its isManual flag.
BeginSweep ==
  /\ IsSweepAt("idle")
  /\ sweepStage' = "dispatch"
  /\ undispatched' = {[scan |-> r, isManual |-> rows[r].isManual] :
                        r \in {s \in Row : isTopicSaved /\ IsOpenUndispatched(s)}}
  /\ UNCHANGED <<rows, starters, faults, past, userVars, runVars>>

\* The owner's key budget is spent: fail a Scan nobody started by hand.
RefuseUndispatched ==
  /\ IsSweepAt("dispatch")
  /\ \E u \in undispatched :
       /\ ~u.isManual
       /\ FailUnstarted(u.scan)
       /\ undispatched' = undispatched \ {u}
  /\ UNCHANGED <<starters, sweepStage, faults, userVars, runVars>>

\* Start a row that is still running, as what the row read says it was opened for.
DispatchUndispatched ==
  /\ IsSweepAt("dispatch")
  /\ \E u \in undispatched :
       /\ undispatched' = undispatched \ {u}
       /\ IF rows[u.scan].status = "running"
          THEN /\ starters' = [starters EXCEPT
                    ![Sweep] = [IdleStarter EXCEPT
                      !.pc = "start", !.scan = u.scan, !.isExisting = TRUE,
                      !.trigger = IF u.isManual THEN "manual" ELSE "scheduled"]]
               /\ NoteIf(IsBeingOpened(u.scan), u.scan, "shared")
          ELSE UNCHANGED <<starters, past>>
  /\ UNCHANGED <<rows, sweepStage, faults, userVars, runVars>>

SweepStale ==
  /\ IsSweepAt("dispatch") /\ undispatched = {}
  /\ FailStale
  /\ sweepStage' = "scheduled"
  /\ UNCHANGED <<starters, undispatched, faults, past, userVars, runVars>>

\* The Topic is not due, or a limit skips it.
SkipTopic ==
  /\ IsSweepAt("scheduled")
  /\ sweepStage' = "idle"
  /\ UNCHANGED <<rows, starters, undispatched, faults, past, userVars, runVars>>

\* The Topic is due: the sweep calls startTopicScan for it.
StartScheduled ==
  /\ IsSweepAt("scheduled") /\ isTopicSaved
  /\ sweepStage' = "idle"
  /\ starters' = [starters EXCEPT ![Sweep].pc = "select"]
  /\ UNCHANGED <<rows, undispatched, faults, past, userVars, runVars>>

\* The owner's budget is spent: check for a running Scan, then save a failed one.
CheckOverBudget ==
  /\ IsSweepAt("scheduled") /\ isTopicSaved
  /\ sweepStage' = IF \E r \in Row : rows[r].status = "running" THEN "idle" ELSE "saveFailed"
  /\ UNCHANGED <<rows, starters, undispatched, faults, past, userVars, runVars>>

SaveFailedScan ==
  /\ IsSweepAt("saveFailed")
  /\ sweepStage' = "idle"
  /\ \/ isTopicSaved /\ \E r \in Row : /\ rows[r].status = "unused"
                                       /\ rows' = [rows EXCEPT ![r] = NewRow("failed", FALSE)]
     \/ /\ ~isTopicSaved \/ \A r \in Row : rows[r].status # "unused"
        /\ UNCHANGED rows
  /\ UNCHANGED <<starters, undispatched, faults, past, userVars, runVars>>

SweepStep ==
  \/ BeginSweep \/ RefuseUndispatched \/ DispatchUndispatched \/ SweepStale
  \/ SkipTopic \/ StartScheduled \/ CheckOverBudget \/ SaveFailedScan

-----------------------------------------------------------------------------
(* The workflow and its activities *)

HasAttemptLeft == run.attempt + 1 < MaxAttempts

GoTo(phase) == run' = [run EXCEPT !.phase = phase, !.attempt = 0]

EndRun == run' = ClosedRun

\* The statement that an attempt abandoned in a phase has still to run, where it
\* writes something a later step depends on.
StrayAct == [ingest |-> "pickUp", pickedUp |-> "check", finish |-> "finish",
             fail |-> "fail", stop |-> "stop"]

\* The workflow gives up on the attempt; its worker may carry on with it.
AbandonAttempt ==
  \/ UNCHANGED strays
  \/ /\ run.phase \in DOMAIN StrayAct /\ Cardinality(strays) < MaxStrays
     /\ strays' = strays \cup {[act |-> StrayAct[run.phase], scan |-> run.scan,
                                ingestStatus |-> run.ingestStatus]}

IngestPicksUp ==
  /\ run.phase = "ingest"
  /\ PickUp(run.scan)
  /\ run' = [run EXCEPT !.phase = "pickedUp"]
  /\ UNCHANGED <<starters, strays, faults, past, userVars, sweepVars>>

\* The row is read again after the pickup: a failed Scan runs no Source.
IngestRuns ==
  /\ run.phase = "pickedUp" /\ Exists(run.scan)
  /\ IF rows[run.scan].status = "failed"
     THEN GoTo("fail") /\ UNCHANGED past
     ELSE run' = [run EXCEPT !.phase = "ingesting"] /\ Note(run.scan, "ran")
  /\ UNCHANGED <<rows, starters, strays, faults, userVars, sweepVars>>

\* Ingest returns failed when every Source failed; review runs either way.
IngestReturns ==
  /\ run.phase = "ingesting"
  /\ \E status \in Outcome :
       run' = [run EXCEPT !.phase = "review", !.attempt = 0, !.ingestStatus = status]
  /\ UNCHANGED <<rows, starters, strays, faults, past, userVars, sweepVars>>

ReviewStarts ==
  /\ run.phase = "review" /\ Exists(run.scan)
  /\ run' = [run EXCEPT !.phase = "reviewing"]
  /\ UNCHANGED <<rows, starters, strays, faults, past, userVars, sweepVars>>

\* A cancelled review returns what it had.
ReviewReturns ==
  /\ run.phase = "reviewing"
  /\ GoTo(IF run.isCancelled THEN "stop" ELSE "finish")
  /\ Note(run.scan, "reviewed")
  /\ UNCHANGED <<rows, starters, strays, faults, userVars, sweepVars>>

IngestPhase == {"ingest", "pickedUp", "ingesting"}
ReviewPhase == {"review", "reviewing"}

\* An attempt throws, its worker dies, or it times out.  A stage whose row is
\* gone throws without any fault.
StageFails ==
  /\ run.phase \in IngestPhase \cup ReviewPhase
  /\ Fault \/ (~Exists(run.scan) /\ UNCHANGED faults)
  /\ IF HasAttemptLeft
     THEN run' = [run EXCEPT !.attempt = @ + 1,
                             !.phase = IF run.phase \in IngestPhase THEN "ingest" ELSE "review"]
     ELSE GoTo("fail")
  /\ AbandonAttempt
  /\ UNCHANGED <<rows, starters, past, userVars, sweepVars>>

FinishCloses ==
  /\ run.phase = "finish"
  /\ FinishWrite(run.scan, run.ingestStatus)
  /\ GoTo("announce")
  /\ UNCHANGED <<starters, strays, faults, past, userVars, sweepVars>>

FailCloses ==
  /\ run.phase = "fail"
  /\ FailWrite(run.scan)
  /\ EndRun
  /\ UNCHANGED <<starters, strays, faults, past, userVars, sweepVars>>

StopCloses ==
  /\ run.phase = "stop"
  /\ StopWrite(run.scan)
  /\ EndRun
  /\ UNCHANGED <<starters, strays, faults, past, userVars, sweepVars>>

\* A closing write's attempt fails.  Past its last attempt, a failed finishScan
\* goes to failScan, and a failed failScan or stopScan ends the workflow with
\* the row left to the stale close-out.
ClosingFails ==
  /\ run.phase \in {"finish", "fail", "stop"}
  /\ Fault
  /\ IF HasAttemptLeft THEN run' = [run EXCEPT !.attempt = @ + 1]
     ELSE IF run.phase = "finish" THEN GoTo("fail") ELSE EndRun
  /\ AbandonAttempt
  /\ UNCHANGED <<rows, starters, past, userVars, sweepVars>>

\* A cancel rejects whatever the workflow waits on.  A stage or finishScan goes
\* to stopScan, which cancellation cannot reach; a failScan or an announcement
\* ends the workflow.  The activity is not waited for.
CancelLands ==
  /\ run.isCancelled /\ run.phase \notin {"closed", "stop"}
  /\ IF run.phase \in {"fail", "announce"} THEN EndRun ELSE GoTo("stop")
  /\ AbandonAttempt
  /\ UNCHANGED <<rows, starters, faults, past, userVars, sweepVars>>

\* The finished Scan's email, push and podcast workflows start, or a failed
\* start is reported; a scheduled Scan that failed starts none.
Announce ==
  /\ run.phase = "announce"
  /\ \/ /\ run.trigger # "scheduled" \/ run.ingestStatus = "succeeded"
        /\ Note(run.scan, "announced") /\ UNCHANGED faults
     \/ /\ run.trigger = "scheduled" /\ run.ingestStatus = "failed"
        /\ UNCHANGED <<past, faults>>
     \/ Fault /\ UNCHANGED past
  /\ EndRun
  /\ UNCHANGED <<rows, starters, strays, userVars, sweepVars>>

WorkerStep ==
  \/ IngestPicksUp \/ IngestRuns \/ IngestReturns \/ ReviewStarts \/ ReviewReturns
  \/ StageFails \/ FinishCloses \/ FailCloses \/ StopCloses \/ ClosingFails
  \/ CancelLands \/ Announce

\* An abandoned attempt runs its statement late, or dies without it.
StrayRuns(s) ==
  /\ s \in strays
  /\ strays' = (strays \ {s}) \cup
       (IF s.act = "pickUp" THEN {[s EXCEPT !.act = "check"]} ELSE {})
  /\ \/ s.act = "pickUp" /\ PickUp(s.scan) /\ UNCHANGED past
     \/ /\ s.act = "check" /\ UNCHANGED rows
        /\ IF Exists(s.scan) /\ rows[s.scan].status # "failed"
           THEN Note(s.scan, "ran") ELSE UNCHANGED past
     \/ s.act = "finish" /\ FinishWrite(s.scan, s.ingestStatus) /\ UNCHANGED past
     \/ s.act = "fail" /\ FailWrite(s.scan) /\ UNCHANGED past
     \/ s.act = "stop" /\ StopWrite(s.scan) /\ UNCHANGED past
  /\ UNCHANGED <<starters, run, faults, userVars, sweepVars>>

StrayDies(s) ==
  /\ s \in strays
  /\ strays' = strays \ {s}
  /\ UNCHANGED <<rows, starters, run, faults, past, userVars, sweepVars>>

-----------------------------------------------------------------------------
(* The user and time *)

\* A stop reads the workflow's status, and cancels it in a second call, which
\* reaches whatever workflow holds the id by then.
DescribeRun ==
  /\ stopCall = "idle" /\ run.phase # "closed" /\ stops < MaxStops
  /\ stopCall' = "described" /\ stops' = stops + 1
  /\ UNCHANGED <<rows, starters, isTopicSaved, faults, past, sweepVars, runVars>>

CancelRun ==
  /\ stopCall = "described"
  /\ stopCall' = "idle"
  /\ run' = IF run.phase = "closed" THEN run ELSE [run EXCEPT !.isCancelled = TRUE]
  /\ UNCHANGED <<rows, starters, isTopicSaved, stops, strays, faults, past, sweepVars>>

\* The rows stay with their topicId cleared, and no workflow is stopped.
DeleteTopic ==
  /\ isTopicSaved /\ MaxDeletes > 0
  /\ isTopicSaved' = FALSE
  /\ UNCHANGED <<rows, starters, stopCall, stops, faults, past, sweepVars, runVars>>

\* A stale window runs out.  The windows outlast the bounds Temporal puts on the
\* stages, so no stage of the row is still executing by then.
ExecutingPhase == {"pickedUp", "ingesting", "reviewing"}

WindowPasses(r) ==
  /\ rows[r].status = "running" /\ rows[r].isDispatched /\ ~rows[r].isOverdue
  /\ ~(run.scan = r /\ run.phase \in ExecutingPhase)
  /\ rows' = [rows EXCEPT ![r].isOverdue = TRUE]
  /\ UNCHANGED <<starters, faults, past, userVars, sweepVars, runVars>>

Next ==
  \/ FailFirstScan \/ FirstSourcesScreened
  \/ \E q \in Request : RequestScan(q)
  \/ \E p \in Starter : StarterStep(p) \/ Crash(p)
  \/ SweepStep
  \/ WorkerStep
  \/ \E s \in strays : StrayRuns(s) \/ StrayDies(s)
  \/ DescribeRun \/ CancelRun \/ DeleteTopic
  \/ \E r \in Row : WindowPasses(r)

Spec == Init /\ [][Next]_vars

\* The scheduler runs the sweep over and over, the workers keep polling, time
\* passes, and an owner's key budget is not spent for ever: it resets monthly, so
\* a sweep that keeps finding a row in time starts it.  Nothing is assumed of a
\* request, of the creator or of the user.
Fairness ==
  /\ WF_vars(SweepStep \/ StarterStep(Sweep))
  /\ SF_vars(DispatchUndispatched)
  /\ WF_vars(WorkerStep)
  /\ \A r \in Row : WF_vars(WindowPasses(r))

LiveSpec == Spec /\ Fairness

-----------------------------------------------------------------------------
(* Properties *)

\* A Scan that failUnstartedScan marked failed for a spent budget never has a
\* Source run for it, whatever starts and retries race with that UPDATE.
RefusedScanRunsNoSource == \A r \in Row : ~({"refused", "ran"} \subseteq past[r])

\* A Scan whose email, push or podcast workflow was started is no longer open:
\* the announcement never runs ahead of the row, or outlives a reopening of it.
AnnouncedScanIsClosed ==
  \A r \in Row : "announced" \in past[r] => rows[r].status \in Outcome \cup {"deleted"}

\* A failed Scan (stale, refused or thrown) turns into a succeeded one only if
\* its review ran to the end; a stop that lands late does not revive it.
FailedScanSucceedsOnlyIfReviewed ==
  [][\A r \in Row : rows[r].status = "failed" /\ rows'[r].status = "succeeded"
                      => "reviewed" \in past[r]]_vars

\* The row was taken up by a second caller before the one that inserted it had
\* its answer, or a connection broke after Temporal had accepted its start.
IsContested(r) == past[r] \cap {"cut", "shared"} # {}

\* The row of a workflow that has not ended is in the table: no call drops it for a
\* start that was rejected, lost or answered late.  scanTopic lets this happen only to
\* a contested row, whose second caller may have started it.
RunningScanKeepsItsRow == run.phase # "closed" => Exists(run.scan) \/ IsContested(run.scan)

\* Every open Scan of a Topic that is not deleted closes, whichever caller died,
\* whichever start was lost and however its closing writes failed.
EveryOpenScanCloses ==
  \A r \in Row : rows[r].status = "running" ~> (rows[r].status # "running" \/ ~isTopicSaved)

\* The Scans as their owner and its subscribers see them.
Promise == INSTANCE ScanPromise WITH
  Scan <- Row,
  scans <- [r \in Row |-> rows[r].status],
  told <- {r \in Row : "announced" \in past[r]}

\* The rows, callers and workflows keep the promise of ScanPromise: no interleaving of
\* starts, sweeps, retries, strays and stops reopens a Scan or tells of an open one.
KeepsPromise == Promise!Spec

=============================================================================
