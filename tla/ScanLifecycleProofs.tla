------------------------ MODULE ScanLifecycleProofs ------------------------
(***************************************************************************)
(* What ScanLifecycle promises for every value of its constants.           *)
(*                                                                         *)
(* The invariant IInv adds to the types that whoever holds a row's id      *)
(* holds one that was inserted (HeldRowsAreKnown), that the workflow is    *)
(* only as far as the history of its row shows (StagesInOrder), and that   *)
(* the history fits the row (PastFitsRow).  Its proof has two halves.      *)
(* First, every step moves the rows and their history forward: no id is    *)
(* reused, no pickup forgotten, no closed row opened (NextMoves).  Second, *)
(* given that, every step hands on only known rows, and goes to a stage    *)
(* only after the one before it (the lemmas named ...Holds).               *)
(***************************************************************************)
EXTENDS ScanLifecycle, TLAPS

-----------------------------------------------------------------------------
(* The inductive invariant *)

\* A row some part of the program holds the id of.
KnownRow(r) == r \in Row /\ rows[r].status # "unused"

StartersHoldKnownRows ==
  \A p \in Starter :
    /\ starters[p].pc \in {"opened", "start", "settle"} => KnownRow(starters[p].scan)
    /\ starters[p].pc = "write" => starters[p].scan = NoRow \/ KnownRow(starters[p].scan)

SweepHoldsKnownRows == \A u \in undispatched : KnownRow(u.scan)

WorkersHoldKnownRows ==
  /\ run.phase # "closed" => KnownRow(run.scan)
  /\ \A s \in strays : KnownRow(s.scan)

HeldRowsAreKnown == StartersHoldKnownRows /\ SweepHoldsKnownRows /\ WorkersHoldKnownRows

\* The pickup of a Scan is recorded, unless its row is gone.
PickUpRecorded(r) == rows[r].isPickedUp \/ rows[r].status = "deleted"

\* What the workflow and its abandoned attempts have done for their row so far.
StagesInOrder ==
  /\ run.phase = "pickedUp" => PickUpRecorded(run.scan)
  /\ run.phase \in {"ingesting", "review", "reviewing", "finish"} => "ran" \in past[run.scan]
  /\ run.phase = "finish" => "reviewed" \in past[run.scan]
  /\ run.phase = "announce" => rows[run.scan].status \in Outcome \cup {"deleted"}
  /\ \A s \in strays : s.act = "check" => PickUpRecorded(s.scan)
  /\ \A s \in strays : s.act = "finish" => {"ran", "reviewed"} \subseteq past[s.scan]

\* What each row's history says of the row.
PastFitsRow ==
  \A r \in Row :
    /\ rows[r].status = "unused" => past[r] = {}
    /\ "ran" \in past[r] => PickUpRecorded(r)
    /\ "refused" \in past[r] => rows[r].status \in {"failed", "deleted"} /\ "ran" \notin past[r]
    /\ "announced" \in past[r] => rows[r].status \in Outcome \cup {"deleted"}

IInv == TypeOK /\ HeldRowsAreKnown /\ StagesInOrder /\ PastFitsRow

-----------------------------------------------------------------------------
(* How a step may change the rows and their history *)

RowsTyped == rows \in [Row -> ScanRow]

\* What every write to the table does to every row
RowsMove ==
  \A r \in Row :
    /\ rows[r].status # "unused" =>
         rows'[r].status # "unused" /\ (rows[r].isPickedUp => rows'[r].isPickedUp)
    /\ rows[r].status = "deleted" => rows'[r].status = "deleted"
    /\ rows[r].status \in Outcome => rows'[r].status \in Outcome \cup {"deleted"}

NoRevival == \A r \in Row : rows[r].status = "failed" => rows'[r].status # "succeeded"

\* A failed Scan succeeds only once its Sources and its review have run.
RevivedIfReviewed ==
  \A r \in Row : rows[r].status = "failed" /\ rows'[r].status = "succeeded"
                   => {"ran", "reviewed"} \subseteq past[r]

PastMoves ==
  /\ past' \in [Row -> SUBSET Mark]
  /\ \A r \in Row :
       /\ past[r] \subseteq past'[r]
       /\ past'[r] # past[r] => KnownRow(r)
       /\ "refused" \in past'[r] \ past[r] => IsUnstarted(r) /\ rows'[r].status = "failed"
                                                /\ "ran" \notin past'[r] \ past[r]
       /\ "ran" \in past'[r] \ past[r] => Exists(r) /\ rows[r].status # "failed"
                                            /\ rows[r].isPickedUp
       /\ "announced" \in past'[r] \ past[r] => rows[r].status \in Outcome \cup {"deleted"}

\* The statuses that the writes of a row set are statuses.
LEMMA StatusTyped == Outcome \subseteq Status /\ "deleted" \in Status /\ "running" \in Status
  BY DEF Outcome, Status

\* An UPDATE by id (every write of an activity or a starter) moves the rows forward, if
\* it keeps the pickup and does not open a closed row.
LEMMA UpdateMoves ==
  ASSUME RowsTyped, NEW r \in Row, NEW row \in ScanRow, Update(r, row),
         row.status # "unused", rows[r].isPickedUp => row.isPickedUp,
         row.status = "running" => ~IsClosed(r)
  PROVE  /\ RowsTyped' /\ RowsMove
         /\ \A s \in Row \ {r} : rows'[s] = rows[s]
         /\ rows'[r] = IF Exists(r) THEN row ELSE rows[r]
  BY DEF RowsTyped, RowsMove, Update, ScanRow, Status, Outcome, Exists, IsClosed

\* A row that a closing write ends keeps its pickup.
LEMMA ClosedRowTyped ==
  ASSUME RowsTyped, NEW r \in Row, NEW status \in Outcome
  PROVE  /\ ClosedRow(r, status) \in ScanRow
         /\ ClosedRow(r, status).status = status
         /\ ClosedRow(r, status).isPickedUp = rows[r].isPickedUp
  BY DEF RowsTyped, ClosedRow, ScanRow, Status, Outcome

\* What an INSERT writes is a row with the given status.
LEMMA NewRowTyped ==
  ASSUME NEW status \in Status, NEW isManual \in BOOLEAN
  PROVE  NewRow(status, isManual) \in ScanRow /\ NewRow(status, isManual).status = status
  BY DEF NewRow, UnusedRow, ScanRow, Status, Outcome

\* setScanDispatchedDate moves the rows forward and revives none.
LEMMA MarkDispatchedMoves ==
  ASSUME RowsTyped, NEW r \in Row, MarkDispatched(r)
  PROVE  RowsTyped' /\ RowsMove /\ NoRevival
<1> DEFINE row == [rows[r] EXCEPT !.isDispatched = TRUE,
                                  !.isOverdue = @ /\ rows[r].isPickedUp]
<1>1. row \in ScanRow /\ row.status = rows[r].status /\ row.isPickedUp = rows[r].isPickedUp
  BY DEF RowsTyped, ScanRow
<1> HIDE DEF row
<1>2. CASE Exists(r)
  <2>1. Update(r, row) BY DEF MarkDispatched, row
  <2>2. row.status # "unused" /\ (row.status = "running" => ~IsClosed(r))
    BY <1>1, <1>2 DEF Exists, IsClosed, Outcome
  <2> QED BY <1>1, <2>1, <2>2, UpdateMoves DEF NoRevival, RowsTyped
<1>3. CASE ~Exists(r)
  BY <1>3 DEF MarkDispatched, Update, RowsTyped, RowsMove, NoRevival
<1> QED BY <1>2, <1>3

\* A step that leaves the table alone moves it forward.
LEMMA UnchangedMoves ==
  ASSUME RowsTyped, UNCHANGED rows
  PROVE  RowsTyped' /\ RowsMove /\ NoRevival
  BY DEF RowsTyped, RowsMove, NoRevival, Outcome

\* failUnstartedScan moves the rows forward, and refuses only a row nobody picked up.
LEMMA FailUnstartedMoves ==
  ASSUME RowsTyped, NEW r \in Row, past \in [Row -> SUBSET Mark], FailUnstarted(r)
  PROVE  /\ RowsTyped' /\ RowsMove /\ NoRevival
         /\ IF IsUnstarted(r) THEN rows'[r].status = "failed" /\ Note(r, "refused")
                              ELSE UNCHANGED past
<1>1. CASE IsUnstarted(r)
  <2>1. ClosedRow(r, "failed") \in ScanRow /\ ClosedRow(r, "failed").status = "failed"
        /\ ClosedRow(r, "failed").isPickedUp = rows[r].isPickedUp
    BY ClosedRowTyped DEF Outcome
  <2>2. Update(r, ClosedRow(r, "failed"))
    BY <1>1 DEF FailUnstarted, Update, Exists, IsUnstarted, IsOpenUndispatched
  <2>3. Exists(r) /\ rows[r].status = "running"
    BY <1>1 DEF Exists, IsUnstarted, IsOpenUndispatched
  <2> QED
    BY <1>1, <2>1, <2>2, <2>3, UpdateMoves DEF FailUnstarted, NoRevival, RowsTyped
<1>2. CASE ~IsUnstarted(r)
  BY <1>2, UnchangedMoves DEF FailUnstarted
<1> QED BY <1>1, <1>2

\* failStaleScans closes rows and opens none.
LEMMA FailStaleMoves ==
  ASSUME RowsTyped, FailStale PROVE RowsTyped' /\ RowsMove /\ NoRevival
<1>1. ASSUME NEW r \in Row
      PROVE  /\ ClosedRow(r, "failed") \in ScanRow
             /\ ClosedRow(r, "failed").status = "failed"
             /\ ClosedRow(r, "failed").isPickedUp = rows[r].isPickedUp
  BY ClosedRowTyped DEF Outcome
<1>2. \A r \in Row : rows'[r] = IF IsStale(r) THEN ClosedRow(r, "failed") ELSE rows[r]
  BY DEF FailStale
<1>3. RowsTyped'
  BY <1>1 DEF FailStale, RowsTyped
<1>4. RowsMove /\ NoRevival
  BY <1>1, <1>2 DEF RowsMove, NoRevival, IsStale, Outcome
<1> QED BY <1>3, <1>4

\* The pickup of a row is recorded and opens none.
LEMMA PickUpMoves ==
  ASSUME RowsTyped, NEW r \in Row, PickUp(r)
  PROVE  /\ RowsTyped' /\ RowsMove /\ NoRevival
         /\ Exists(r) => rows'[r].isPickedUp
<1> DEFINE row == [rows[r] EXCEPT !.isPickedUp = TRUE,
                                  !.isOverdue = @ /\ rows[r].isPickedUp]
<1>1. row \in ScanRow /\ row.status = rows[r].status /\ row.isPickedUp
  BY DEF RowsTyped, ScanRow
<1>2. Update(r, row) BY DEF PickUp
<1> HIDE DEF row
<1>3. CASE Exists(r)
  <2>1. row.status # "unused" /\ (row.status = "running" => ~IsClosed(r))
    BY <1>1, <1>3 DEF Exists, IsClosed, Outcome
  <2> QED BY <1>1, <1>2, <1>3, <2>1, UpdateMoves DEF NoRevival, RowsTyped
<1>4. CASE ~Exists(r)
  BY <1>2, <1>4, UnchangedMoves DEF Update
<1> QED BY <1>3, <1>4

\* A closing write by id changes its own row, and leaves it closed.
LEMMA FinishWriteMoves ==
  ASSUME RowsTyped, NEW r \in Row, NEW status \in Outcome, FinishWrite(r, status)
  PROVE  /\ RowsTyped' /\ RowsMove
         /\ \A s \in Row \ {r} : rows'[s] = rows[s]
         /\ Exists(r) => rows'[r].status = status
         /\ ~Exists(r) => rows'[r] = rows[r]
<1>1. /\ ClosedRow(r, status) \in ScanRow
      /\ ClosedRow(r, status).status = status
      /\ ClosedRow(r, status).isPickedUp = rows[r].isPickedUp
  BY ClosedRowTyped
<1>2. Update(r, ClosedRow(r, status)) BY DEF FinishWrite
<1>3. status # "unused" /\ status # "running" BY DEF Outcome
<1> QED BY <1>1, <1>2, <1>3, UpdateMoves

\* failScan revives no row.
LEMMA FailWriteMoves ==
  ASSUME RowsTyped, NEW r \in Row, FailWrite(r)
  PROVE  RowsTyped' /\ RowsMove /\ NoRevival
<1>1. FinishWrite(r, "failed") BY DEF FailWrite, FinishWrite
<1> QED BY <1>1, FinishWriteMoves DEF Outcome, NoRevival

\* stopScan revives no row: it writes only one that has not finished.
LEMMA StopWriteMoves ==
  ASSUME RowsTyped, NEW r \in Row, StopWrite(r)
  PROVE  RowsTyped' /\ RowsMove /\ NoRevival
<1> DEFINE row == [ClosedRow(r, "succeeded") EXCEPT !.isStopped = TRUE]
<1>1. row \in ScanRow /\ row.status = "succeeded" /\ row.isPickedUp = rows[r].isPickedUp
  BY ClosedRowTyped DEF Outcome, ScanRow, Status
<1> HIDE DEF row
<1>2. CASE IsClosed(r)
  BY <1>2, UnchangedMoves DEF StopWrite
<1>3. CASE ~IsClosed(r)
  <2>1. Update(r, row) BY <1>3 DEF StopWrite, row
  <2>2. rows[r].status # "failed" BY <1>3 DEF IsClosed, Outcome
  <2> QED BY <1>1, <2>1, <2>2, UpdateMoves DEF NoRevival
<1> QED BY <1>2, <1>3

\* A row of this Topic's is opened, or saved as failed.
LEMMA InsertMoves ==
  ASSUME RowsTyped, NEW r \in Row, NEW status \in {"running", "failed"},
         NEW isManual \in BOOLEAN, rows[r].status = "unused",
         rows' = [rows EXCEPT ![r] = NewRow(status, isManual)]
  PROVE  /\ RowsTyped' /\ RowsMove /\ NoRevival
         /\ rows'[r].status # "unused"
<1>1. NewRow(status, isManual) \in ScanRow /\ NewRow(status, isManual).status = status
  BY NewRowTyped DEF Status, Outcome
<1> QED BY <1>1 DEF RowsTyped, RowsMove, NoRevival, Outcome

\* Recording a mark in a row's history keeps the history in order, if the row allows it.
LEMMA NoteMoves ==
  ASSUME past \in [Row -> SUBSET Mark], NEW r, NEW mark \in Mark, Note(r, mark), KnownRow(r),
         mark = "refused" => IsUnstarted(r) /\ rows'[r].status = "failed",
         mark = "ran" => Exists(r) /\ rows[r].status # "failed" /\ rows[r].isPickedUp,
         mark = "announced" => rows[r].status \in Outcome \cup {"deleted"}
  PROVE  PastMoves
  BY DEF Note, PastMoves, KnownRow

\* A step that records nothing keeps the history in order.
LEMMA UnchangedPastMoves ==
  ASSUME past \in [Row -> SUBSET Mark], UNCHANGED past PROVE PastMoves
  BY DEF PastMoves

\* A refusal keeps rows and history in order together.
LEMMA RefusalMoves ==
  ASSUME RowsTyped, past \in [Row -> SUBSET Mark], NEW r \in Row, KnownRow(r), FailUnstarted(r)
  PROVE  RowsTyped' /\ RowsMove /\ RevivedIfReviewed /\ PastMoves
<1>1. CASE IsUnstarted(r)
  <2>1. PastMoves BY <1>1, FailUnstartedMoves, NoteMoves DEF Mark
  <2> QED BY <2>1, FailUnstartedMoves DEF NoRevival, RevivedIfReviewed
<1>2. CASE ~IsUnstarted(r)
  BY <1>2, FailUnstartedMoves, UnchangedPastMoves DEF NoRevival, RevivedIfReviewed
<1> QED BY <1>1, <1>2

\* A start that is accepted, or that takes up a row, records at most that the row is
\* contested.
OnlyContests ==
  /\ UNCHANGED rows
  /\ \/ UNCHANGED past
     \/ \E r \in Row : KnownRow(r) /\ (Note(r, "cut") \/ Note(r, "shared"))

\* Which steps contest a row.
LEMMA TakingUpContests ==
  ASSUME HeldRowsAreKnown,
         DispatchUndispatched \/ \E p \in Starter : SelectOpenScan(p) \/ StartAccepted(p)
  PROVE  OnlyContests
<1>1. CASE DispatchUndispatched
  <2>1. PICK u \in undispatched : UNCHANGED past \/ Note(u.scan, "shared")
    BY <1>1 DEF DispatchUndispatched, NoteIf
  <2>2. u.scan \in Row /\ KnownRow(u.scan) BY DEF HeldRowsAreKnown, SweepHoldsKnownRows, KnownRow
  <2> QED BY <1>1, <2>1, <2>2 DEF OnlyContests, DispatchUndispatched
<1>2. CASE \E p \in Starter : SelectOpenScan(p)
  <2>1. PICK p \in Starter : SelectOpenScan(p) BY <1>2
  <2>2. PICK r \in Row \cup {NoRow} :
          (r # NoRow => r \in Row /\ IsOpenUndispatched(r)) /\ NoteIf(r # NoRow /\ IsBeingOpened(r), r, "shared")
    BY <2>1 DEF SelectOpenScan
  <2>3. r # NoRow => r \in Row /\ KnownRow(r) BY <2>2 DEF IsOpenUndispatched, KnownRow
  <2> QED BY <2>1, <2>2, <2>3 DEF OnlyContests, SelectOpenScan, NoteIf
<1>3. CASE \E p \in Starter : StartAccepted(p)
  <2>1. PICK p \in Starter : StartAccepted(p) BY <1>3
  <2>2. starters[p].scan \in Row /\ KnownRow(starters[p].scan)
    BY <2>1 DEF StartAccepted, HeldRowsAreKnown, StartersHoldKnownRows, KnownRow
  <2> QED BY <2>1, <2>2 DEF OnlyContests, StartAccepted
<1> QED BY <1>1, <1>2, <1>3

-----------------------------------------------------------------------------
(* Every step moves the rows and their history as above *)

RowsAndPastMove == RowsTyped' /\ RowsMove /\ RevivedIfReviewed /\ PastMoves

\* A step that revives no row needs no review to have run.
LEMMA NoRevivalFits == ASSUME NoRevival PROVE RevivedIfReviewed
  BY DEF NoRevival, RevivedIfReviewed

\* A contest moves the history alone.
LEMMA ContestMoves ==
  ASSUME RowsTyped, past \in [Row -> SUBSET Mark], OnlyContests PROVE RowsAndPastMove
<1>1. PastMoves
  <2>1. CASE UNCHANGED past BY <2>1, UnchangedPastMoves
  <2>2. CASE \E r \in Row : KnownRow(r) /\ (Note(r, "cut") \/ Note(r, "shared"))
    <3>1. PICK r \in Row : KnownRow(r) /\ (Note(r, "cut") \/ Note(r, "shared")) BY <2>2
    <3>2. CASE Note(r, "cut") BY <3>1, <3>2, NoteMoves DEF Mark
    <3>3. CASE Note(r, "shared") BY <3>1, <3>3, NoteMoves DEF Mark
    <3> QED BY <3>1, <3>2, <3>3
  <2> QED BY <2>1, <2>2 DEF OnlyContests
<1> QED BY <1>1, UnchangedMoves, NoRevivalFits DEF OnlyContests, RowsAndPastMove

\* Every step of a starter, startTopicScan and scanTopic, moves rows and history forward.
LEMMA StarterMoves ==
  ASSUME IInv, NEW p \in Starter, StarterStep(p) PROVE RowsAndPastMove
<1> DEFINE s == starters[p]
<1> USE DEF RowsAndPastMove
<1>0. RowsTyped /\ past \in [Row -> SUBSET Mark] /\ s \in StarterState
      /\ (s.pc \in {"start", "settle"} => KnownRow(s.scan))
      /\ (s.pc = "write" => s.scan = NoRow \/ KnownRow(s.scan))
  BY DEF IInv, TypeOK, RowsTyped, HeldRowsAreKnown, StartersHoldKnownRows,
         SweepHoldsKnownRows, WorkersHoldKnownRows
<1>1. CASE UNCHANGED <<rows, past>>
  BY <1>0, <1>1, UnchangedMoves, UnchangedPastMoves, NoRevivalFits
<1>2. ASSUME TakeOpenScan(p) PROVE RowsAndPastMove
  <2> DEFINE r == s.scan
  <2> DEFINE row == [rows[r] EXCEPT !.isManual = s.trigger = "manual"]
  <2>1. r \in Row /\ Exists(r) /\ Update(r, row) /\ UNCHANGED past
    BY <1>0, <1>2 DEF TakeOpenScan, KnownRow
  <2>2. row \in ScanRow /\ row.status = rows[r].status /\ row.isPickedUp = rows[r].isPickedUp
    BY <1>0, <2>1 DEF RowsTyped, ScanRow
  <2>3. row.status # "unused" /\ (row.status = "running" => ~IsClosed(r))
    BY <2>1, <2>2 DEF Exists, IsClosed, Outcome
  <2> HIDE DEF row, r
  <2>4. RowsTyped' /\ RowsMove /\ NoRevival
    BY <1>0, <2>1, <2>2, <2>3, UpdateMoves DEF NoRevival
  <2> QED BY <1>0, <2>1, <2>4, UnchangedPastMoves, NoRevivalFits
<1>3. ASSUME InsertScan(p) PROVE RowsAndPastMove
  <2>1. PICK r \in Row : rows[r].status = "unused"
          /\ rows' = [rows EXCEPT ![r] = NewRow("running", s.trigger = "manual")]
    BY <1>3 DEF InsertScan
  <2>2. RowsTyped' /\ RowsMove /\ NoRevival
    BY <1>0, <2>1, InsertMoves
  <2> QED BY <1>0, <1>3, <2>2, UnchangedPastMoves, NoRevivalFits DEF InsertScan
<1>4. ASSUME SelectOpenScan(p) \/ StartAccepted(p) PROVE RowsAndPastMove
  <2>1. OnlyContests BY <1>4, TakingUpContests DEF IInv
  <2> QED BY <1>0, <2>1, ContestMoves
<1>5. ASSUME DropRow(p) PROVE RowsAndPastMove
  <2> DEFINE r == s.scan
  <2> DEFINE row == [rows[r] EXCEPT !.status = "deleted"]
  <2>1. r \in Row /\ Update(r, row) /\ UNCHANGED past
    BY <1>0, <1>5 DEF DropRow, KnownRow
  <2>2. row \in ScanRow /\ row.status = "deleted" /\ row.isPickedUp = rows[r].isPickedUp
    BY <1>0, <2>1 DEF RowsTyped, ScanRow, Status
  <2> HIDE DEF row, r
  <2>4. RowsTyped' /\ RowsMove /\ NoRevival
    BY <1>0, <2>1, <2>2, UpdateMoves DEF NoRevival
  <2> QED BY <1>0, <2>1, <2>4, UnchangedPastMoves, NoRevivalFits
<1>6. ASSUME MarkRow(p) PROVE RowsAndPastMove
  <2>1. s.scan \in Row /\ MarkDispatched(s.scan) /\ UNCHANGED past
    BY <1>0, <1>6 DEF MarkRow, KnownRow
  <2> QED BY <1>0, <2>1, MarkDispatchedMoves, UnchangedPastMoves, NoRevivalFits
<1> QED
  BY <1>1, <1>2, <1>3, <1>4, <1>5, <1>6
     DEF StarterStep, WriteFails, StartRejected, StartLost, KeepRow

\* So does every step of the sweep,
LEMMA SweepMoves ==
  ASSUME IInv, SweepStep PROVE RowsAndPastMove
<1> USE DEF RowsAndPastMove
<1>0. RowsTyped /\ past \in [Row -> SUBSET Mark] /\ \A u \in undispatched : KnownRow(u.scan)
  BY DEF IInv, TypeOK, RowsTyped, HeldRowsAreKnown, StartersHoldKnownRows,
         SweepHoldsKnownRows, WorkersHoldKnownRows
<1>1. CASE UNCHANGED <<rows, past>>
  BY <1>0, <1>1, UnchangedMoves, UnchangedPastMoves, NoRevivalFits
<1>2. ASSUME RefuseUndispatched PROVE RowsAndPastMove
  <2>1. PICK u \in undispatched : FailUnstarted(u.scan)
    BY <1>2 DEF RefuseUndispatched
  <2> QED BY <1>0, <2>1, RefusalMoves DEF KnownRow
<1>3. ASSUME SweepStale PROVE RowsAndPastMove
  BY <1>0, <1>3, FailStaleMoves, UnchangedPastMoves, NoRevivalFits DEF SweepStale
<1>4. ASSUME SaveFailedScan PROVE RowsAndPastMove
  <2>1. UNCHANGED past BY <1>4 DEF SaveFailedScan
  <2>2. CASE UNCHANGED rows BY <1>1, <2>1, <2>2
  <2>3. CASE \E r \in Row : rows[r].status = "unused"
                            /\ rows' = [rows EXCEPT ![r] = NewRow("failed", FALSE)]
    BY <1>0, <2>1, <2>3, InsertMoves, UnchangedPastMoves, NoRevivalFits
  <2> QED BY <1>4, <2>2, <2>3 DEF SaveFailedScan
<1>5. ASSUME DispatchUndispatched PROVE RowsAndPastMove
  <2>1. OnlyContests BY <1>5, TakingUpContests DEF IInv
  <2> QED BY <1>0, <2>1, ContestMoves
<1> QED
  BY <1>1, <1>2, <1>3, <1>4, <1>5
     DEF SweepStep, BeginSweep, SkipTopic, StartScheduled, CheckOverBudget

\* every step of the workflow and its activities,
LEMMA WorkerMoves ==
  ASSUME IInv, WorkerStep PROVE RowsAndPastMove
<1> USE DEF RowsAndPastMove
<1> DEFINE r == run.scan
<1>0. /\ RowsTyped /\ past \in [Row -> SUBSET Mark] /\ run \in Run
      /\ run.phase # "closed" => KnownRow(r)
      /\ StagesInOrder
  BY DEF IInv, TypeOK, RowsTyped, HeldRowsAreKnown, StartersHoldKnownRows,
         SweepHoldsKnownRows, WorkersHoldKnownRows
<1>1. CASE UNCHANGED <<rows, past>>
  BY <1>0, <1>1, UnchangedMoves, UnchangedPastMoves, NoRevivalFits
<1>2. ASSUME IngestPicksUp PROVE RowsAndPastMove
  <2>1. r \in Row /\ PickUp(r) /\ UNCHANGED past
    BY <1>0, <1>2 DEF IngestPicksUp, KnownRow
  <2> QED BY <1>0, <2>1, PickUpMoves, UnchangedPastMoves, NoRevivalFits
<1>3. ASSUME IngestRuns PROVE RowsAndPastMove
  <2>1. CASE UNCHANGED past BY <1>1, <1>3, <2>1 DEF IngestRuns
  <2>2. CASE Note(r, "ran") /\ rows[r].status # "failed"
    <3>1. KnownRow(r) /\ Exists(r) /\ rows[r].isPickedUp
      BY <1>0, <1>3 DEF IngestRuns, StagesInOrder, PickUpRecorded, Exists
    <3>2. PastMoves BY <1>0, <2>2, <3>1, NoteMoves DEF Mark
    <3> QED BY <1>0, <1>3, <3>2, UnchangedMoves, NoRevivalFits DEF IngestRuns
  <2> QED BY <1>3, <2>1, <2>2 DEF IngestRuns
<1>4. ASSUME ReviewReturns PROVE RowsAndPastMove
  <2>1. KnownRow(r) /\ Note(r, "reviewed") /\ UNCHANGED rows
    BY <1>0, <1>4 DEF ReviewReturns
  <2>2. PastMoves BY <1>0, <2>1, NoteMoves DEF Mark
  <2> QED BY <1>0, <2>1, <2>2, UnchangedMoves, NoRevivalFits
<1>5. ASSUME FinishCloses PROVE RowsAndPastMove
  <2>1. /\ r \in Row /\ run.ingestStatus \in Outcome /\ FinishWrite(r, run.ingestStatus)
        /\ UNCHANGED past
    BY <1>0, <1>5 DEF FinishCloses, KnownRow, Run
  <2>2. {"ran", "reviewed"} \subseteq past[r]
    BY <1>0, <1>5 DEF FinishCloses, StagesInOrder
  <2> QED BY <1>0, <2>1, <2>2, FinishWriteMoves, UnchangedPastMoves DEF RevivedIfReviewed
<1>6. ASSUME FailCloses PROVE RowsAndPastMove
  <2>1. r \in Row /\ FailWrite(r) /\ UNCHANGED past
    BY <1>0, <1>6 DEF FailCloses, KnownRow
  <2> QED BY <1>0, <2>1, FailWriteMoves, UnchangedPastMoves, NoRevivalFits
<1>7. ASSUME StopCloses PROVE RowsAndPastMove
  <2>1. r \in Row /\ StopWrite(r) /\ UNCHANGED past
    BY <1>0, <1>7 DEF StopCloses, KnownRow
  <2> QED BY <1>0, <2>1, StopWriteMoves, UnchangedPastMoves, NoRevivalFits
<1>8. ASSUME Announce PROVE RowsAndPastMove
  <2>1. CASE UNCHANGED past BY <1>1, <1>8, <2>1 DEF Announce
  <2>2. CASE Note(r, "announced")
    <3>1. KnownRow(r) /\ rows[r].status \in Outcome \cup {"deleted"}
      BY <1>0, <1>8 DEF Announce, StagesInOrder
    <3>2. PastMoves BY <1>0, <2>2, <3>1, NoteMoves DEF Mark
    <3> QED BY <1>0, <1>8, <3>2, UnchangedMoves, NoRevivalFits DEF Announce
  <2> QED BY <1>8, <2>1, <2>2 DEF Announce
<1> QED
  BY <1>1, <1>2, <1>3, <1>4, <1>5, <1>6, <1>7, <1>8
     DEF WorkerStep, IngestReturns, ReviewStarts, StageFails, ClosingFails, CancelLands

\* every late statement of an abandoned attempt,
LEMMA StrayMoves ==
  ASSUME IInv, NEW s \in strays, StrayRuns(s) PROVE RowsAndPastMove
<1> USE DEF RowsAndPastMove
<1> DEFINE r == s.scan
<1>0. /\ RowsTyped /\ past \in [Row -> SUBSET Mark] /\ KnownRow(r) /\ r \in Row
      /\ s \in Stray /\ StagesInOrder
  BY DEF IInv, TypeOK, RowsTyped, HeldRowsAreKnown, StartersHoldKnownRows,
         SweepHoldsKnownRows, WorkersHoldKnownRows, KnownRow
<1>1. CASE UNCHANGED <<rows, past>>
  BY <1>0, <1>1, UnchangedMoves, UnchangedPastMoves, NoRevivalFits
<1>2. CASE PickUp(r) /\ UNCHANGED past
  BY <1>0, <1>2, PickUpMoves, UnchangedPastMoves, NoRevivalFits
<1>3. CASE s.act = "check" /\ UNCHANGED rows /\ Exists(r) /\ rows[r].status # "failed"
           /\ Note(r, "ran")
  <2>1. rows[r].isPickedUp
    BY <1>0, <1>3 DEF StagesInOrder, PickUpRecorded, Exists
  <2>2. PastMoves BY <1>0, <1>3, <2>1, NoteMoves DEF Mark
  <2> QED BY <1>0, <1>3, <2>2, UnchangedMoves, NoRevivalFits
<1>4. CASE s.act = "finish" /\ FinishWrite(r, s.ingestStatus) /\ UNCHANGED past
  <2>1. s.ingestStatus \in Outcome /\ {"ran", "reviewed"} \subseteq past[r]
    BY <1>0, <1>4 DEF StagesInOrder, Stray
  <2> QED BY <1>0, <1>4, <2>1, FinishWriteMoves, UnchangedPastMoves DEF RevivedIfReviewed
<1>5. CASE FailWrite(r) /\ UNCHANGED past
  BY <1>0, <1>5, FailWriteMoves, UnchangedPastMoves, NoRevivalFits
<1>6. CASE StopWrite(r) /\ UNCHANGED past
  BY <1>0, <1>6, StopWriteMoves, UnchangedPastMoves, NoRevivalFits
<1> QED BY <1>1, <1>2, <1>3, <1>4, <1>5, <1>6 DEF StrayRuns

\* and a stale window that runs out.
LEMMA WindowMoves ==
  ASSUME IInv, NEW r \in Row, WindowPasses(r) PROVE RowsAndPastMove
<1> DEFINE row == [rows[r] EXCEPT !.isOverdue = TRUE]
<1>0. RowsTyped /\ past \in [Row -> SUBSET Mark] BY DEF IInv, TypeOK, RowsTyped
<1>1. rows[r].status = "running" /\ rows' = [rows EXCEPT ![r] = row] /\ UNCHANGED past
  BY <1>0 DEF WindowPasses, RowsTyped, ScanRow
<1>2. row \in ScanRow /\ row.status = rows[r].status /\ row.isPickedUp = rows[r].isPickedUp
  BY <1>0 DEF RowsTyped, ScanRow
<1> HIDE DEF row
<1>3. Update(r, row) /\ ~IsClosed(r)
  BY <1>1 DEF Update, Exists, IsClosed, Outcome
<1>4. RowsTyped' /\ RowsMove /\ NoRevival
  BY <1>0, <1>1, <1>2, <1>3, UpdateMoves DEF NoRevival
<1> QED BY <1>0, <1>1, <1>4, UnchangedPastMoves, NoRevivalFits DEF RowsAndPastMove

\* Every step moves rows and history forward.
LEMMA NextMoves ==
  ASSUME IInv, Next PROVE RowsAndPastMove
<1> USE DEF RowsAndPastMove
<1>0. RowsTyped /\ past \in [Row -> SUBSET Mark] /\ Creator \in Starter
  BY DEF IInv, TypeOK, RowsTyped, Starter
<1>1. CASE UNCHANGED <<rows, past>>
  BY <1>0, <1>1, UnchangedMoves, UnchangedPastMoves, NoRevivalFits
<1>2. ASSUME FailFirstScan PROVE RowsAndPastMove
  <2>1. KnownRow(starters[Creator].scan) /\ FailUnstarted(starters[Creator].scan)
    BY <1>0, <1>2 DEF FailFirstScan, IInv, HeldRowsAreKnown, StartersHoldKnownRows
  <2> QED BY <1>0, <2>1, RefusalMoves DEF KnownRow
<1>3. ASSUME NEW q \in Request, RequestScan(q) PROVE RowsAndPastMove
  BY <1>0, <1>3, FailStaleMoves, UnchangedPastMoves, NoRevivalFits DEF RequestScan
<1> QED
  BY <1>1, <1>2, <1>3, StarterMoves, SweepMoves, WorkerMoves, StrayMoves, WindowMoves
     DEF Next, FirstSourcesScreened, Crash, StrayDies, DescribeRun, CancelRun, DeleteTopic

-----------------------------------------------------------------------------
(* The inductive invariant is one *)

\* A step that moves rows and history forward leaves them fitting each other.
LEMMA PastStillFits ==
  ASSUME IInv, RowsAndPastMove PROVE PastFitsRow'
<1> SUFFICES ASSUME NEW r \in Row
             PROVE  /\ rows'[r].status = "unused" => past'[r] = {}
                    /\ "ran" \in past'[r] => PickUpRecorded(r)'
                    /\ "refused" \in past'[r] => rows'[r].status \in {"failed", "deleted"}
                                                 /\ "ran" \notin past'[r]
                    /\ "announced" \in past'[r] => rows'[r].status \in Outcome \cup {"deleted"}
  BY DEF PastFitsRow
<1>1. /\ rows[r].status = "unused" => past[r] = {}
      /\ "ran" \in past[r] => PickUpRecorded(r)
      /\ "refused" \in past[r] => rows[r].status \in {"failed", "deleted"} /\ "ran" \notin past[r]
      /\ "announced" \in past[r] => rows[r].status \in Outcome \cup {"deleted"}
  BY DEF IInv, PastFitsRow
<1>2. /\ rows[r].status # "unused" =>
           rows'[r].status # "unused" /\ (rows[r].isPickedUp => rows'[r].isPickedUp)
      /\ rows[r].status = "deleted" => rows'[r].status = "deleted"
      /\ rows[r].status \in Outcome => rows'[r].status \in Outcome \cup {"deleted"}
  BY DEF RowsAndPastMove, RowsMove
<1>3. rows'[r].status # "running" \/ rows[r].status # "failed"
  BY <1>2 DEF Outcome
<1>4. /\ past[r] \subseteq past'[r]
      /\ past'[r] # past[r] => rows[r].status # "unused"
      /\ "refused" \in past'[r] \ past[r] => IsUnstarted(r) /\ rows'[r].status = "failed"
                                               /\ "ran" \notin past'[r] \ past[r]
      /\ "ran" \in past'[r] \ past[r] => Exists(r) /\ rows[r].status # "failed"
                                           /\ rows[r].isPickedUp
      /\ "announced" \in past'[r] \ past[r] => rows[r].status \in Outcome \cup {"deleted"}
  BY DEF RowsAndPastMove, PastMoves, KnownRow
<1>5. rows'[r].status = "unused" => past'[r] = {}
  BY <1>1, <1>2, <1>4
<1>6. "ran" \in past'[r] => PickUpRecorded(r)'
  BY <1>1, <1>2, <1>4 DEF PickUpRecorded, Exists
<1>7. ASSUME "refused" \in past'[r]
      PROVE  rows'[r].status \in {"failed", "deleted"} /\ "ran" \notin past'[r]
  <2>1. CASE "refused" \in past[r]
    <3>1. rows'[r].status # "succeeded" \/ rows[r].status # "failed"
      BY <1>1, <2>1 DEF RowsAndPastMove, RevivedIfReviewed
    <3> QED BY <1>1, <1>2, <1>4, <2>1, <3>1 DEF Exists, Outcome
  <2>2. CASE "refused" \notin past[r]
    BY <1>1, <1>4, <1>7, <2>2 DEF IsUnstarted, IsOpenUndispatched, PickUpRecorded
  <2> QED BY <2>1, <2>2
<1>8. "announced" \in past'[r] => rows'[r].status \in Outcome \cup {"deleted"}
  BY <1>1, <1>2, <1>4
<1> QED BY <1>5, <1>6, <1>7, <1>8

\* The part of TypeOK about who holds which row.
ControlTyped ==
  /\ isTopicSaved \in BOOLEAN
  /\ starters \in [Starter -> StarterState]
  /\ undispatched \subseteq [scan : Row, isManual : BOOLEAN]
  /\ sweepStage \in {"idle", "dispatch", "scheduled", "saveFailed"}
  /\ run \in Run
  /\ strays \subseteq Stray
  /\ stopCall \in {"idle", "described"}
  /\ faults \in 0..MaxFaults
  /\ stops \in 0..MaxStops

\* A row that is held stays in the table or deleted, with its pickup and its end.
LEMMA KnownRowsStay ==
  ASSUME IInv, RowsAndPastMove, NEW r, KnownRow(r)
  PROVE  /\ KnownRow(r)'
         /\ PickUpRecorded(r) => PickUpRecorded(r)'
         /\ rows[r].status \in Outcome \cup {"deleted"}
              => rows'[r].status \in Outcome \cup {"deleted"}
         /\ past[r] \subseteq past'[r]
  BY DEF RowsAndPastMove, RowsMove, PastMoves, KnownRow, PickUpRecorded

\* The faults stay within their bound.
LEMMA FaultTyped ==
  ASSUME faults \in 0..MaxFaults, UNCHANGED faults \/ Fault PROVE faults' \in 0..MaxFaults
  BY BoundAssumption DEF Fault

\* A step that moves no starter leaves the rows they hold known.
LEMMA UnchangedStarters ==
  ASSUME IInv, RowsAndPastMove, UNCHANGED starters
  PROVE  StartersHoldKnownRows' /\ starters' \in [Starter -> StarterState]
  BY KnownRowsStay DEF IInv, TypeOK, HeldRowsAreKnown, StartersHoldKnownRows

\* So does one that reads no new rows into the sweep,
LEMMA UnchangedUndispatched ==
  ASSUME IInv, RowsAndPastMove, undispatched' \subseteq undispatched
  PROVE  SweepHoldsKnownRows' /\ undispatched' \subseteq [scan : Row, isManual : BOOLEAN]
  BY KnownRowsStay DEF IInv, TypeOK, HeldRowsAreKnown, SweepHoldsKnownRows

\* and one that moves neither the workflow nor an abandoned attempt.
LEMMA UnchangedRun ==
  ASSUME IInv, RowsAndPastMove, UNCHANGED run, strays' \subseteq strays
  PROVE  /\ WorkersHoldKnownRows' /\ StagesInOrder'
         /\ run' \in Run /\ strays' \subseteq Stray
  BY KnownRowsStay DEF IInv, TypeOK, HeldRowsAreKnown, WorkersHoldKnownRows, StagesInOrder

\* A starter may go on to any state that holds a known row.
LEMMA StarterMovesOn ==
  ASSUME IInv, RowsAndPastMove, NEW p \in Starter, NEW s \in StarterState,
         starters' = [starters EXCEPT ![p] = s],
         s.pc \in {"opened", "start", "settle"} => KnownRow(s.scan)',
         s.pc = "write" => s.scan = NoRow \/ KnownRow(s.scan)'
  PROVE  StartersHoldKnownRows' /\ starters' \in [Starter -> StarterState]
<1>1. starters \in [Starter -> StarterState] /\ StartersHoldKnownRows
  BY DEF IInv, TypeOK, HeldRowsAreKnown
<1>2. \A q \in Starter : starters'[q] = IF q = p THEN s ELSE starters[q]
  BY <1>1
<1>3. starters' \in [Starter -> StarterState]
  BY <1>1
<1>4. StartersHoldKnownRows'
  BY <1>1, <1>2, KnownRowsStay DEF StartersHoldKnownRows
<1> QED BY <1>3, <1>4

\* A starter that is done holds no row.
LEMMA IdleStarterTyped == IdleStarter \in StarterState /\ IdleStarter.pc = "idle"
  BY DEF IdleStarter, StarterState, Trigger

\* A starter may always be done.
LEMMA FinishMovesOn ==
  ASSUME IInv, RowsAndPastMove, NEW p \in Starter, Finish(p)
  PROVE  StartersHoldKnownRows' /\ starters' \in [Starter -> StarterState]
  BY IdleStarterTyped, StarterMovesOn DEF Finish

\* What is left of the goal when a starter moves on and nothing else does.
StarterGoal == StartersHoldKnownRows' /\ starters' \in [Starter -> StarterState]

\* Every step of a starter hands on a known row: one it has read, inserted or found.
LEMMA StarterStepHolds ==
  ASSUME IInv, RowsAndPastMove, NEW p \in Starter, StarterStep(p)
  PROVE  ControlTyped' /\ HeldRowsAreKnown' /\ StagesInOrder'
<1> DEFINE s == starters[p]
<1>0. /\ s \in StarterState /\ starters \in [Starter -> StarterState]
      /\ s.pc \in {"opened", "start", "settle"} => KnownRow(s.scan)
      /\ s.pc = "write" => s.scan = NoRow \/ KnownRow(s.scan)
  BY DEF IInv, TypeOK, HeldRowsAreKnown, StartersHoldKnownRows
<1>1. StarterGoal
  <2>1. ASSUME SelectOpenScan(p) PROVE StarterGoal
    <3>1. PICK r \in Row \cup {NoRow} :
            /\ r # NoRow => IsOpenUndispatched(r)
            /\ starters' = [starters EXCEPT ![p].pc = "write", ![p].scan = r,
                                            ![p].isExisting = r # NoRow]
      BY <2>1 DEF SelectOpenScan
    <3> DEFINE t == [s EXCEPT !.pc = "write", !.scan = r, !.isExisting = r # NoRow]
    <3>2. t \in StarterState /\ t.pc = "write" /\ t.scan = r
      BY <1>0, <3>1 DEF StarterState
    <3>3. starters' = [starters EXCEPT ![p] = t] BY <1>0, <3>1
    <3>4. r = NoRow \/ KnownRow(r)'
      BY <3>1, KnownRowsStay DEF IsOpenUndispatched, KnownRow
    <3> QED BY <3>2, <3>3, <3>4, StarterMovesOn DEF StarterGoal
  <2>2. ASSUME TakeOpenScan(p) PROVE StarterGoal
    <3> DEFINE t == [s EXCEPT !.pc = "start"]
    <3>1. t \in StarterState /\ t.pc = "start" /\ t.scan = s.scan /\ KnownRow(s.scan)
      BY <1>0, <2>2 DEF StarterState, TakeOpenScan
    <3>2. starters' = [starters EXCEPT ![p] = t] BY <1>0, <2>2 DEF TakeOpenScan
    <3> QED BY <3>1, <3>2, KnownRowsStay, StarterMovesOn DEF StarterGoal
  <2>3. ASSUME InsertScan(p) PROVE StarterGoal
    <3>1. PICK r \in Row :
            /\ rows' = [rows EXCEPT ![r] = NewRow("running", s.trigger = "manual")]
            /\ starters' = [starters EXCEPT ![p].pc = "start", ![p].scan = r]
      BY <2>3 DEF InsertScan
    <3> DEFINE t == [s EXCEPT !.pc = "start", !.scan = r]
    <3>2. t \in StarterState /\ t.pc = "start" /\ t.scan = r
      BY <1>0, <3>1 DEF StarterState
    <3>3. starters' = [starters EXCEPT ![p] = t] BY <1>0, <3>1
    <3>4. NewRow("running", s.trigger = "manual").status = "running"
      BY NewRowTyped DEF Status
    <3>5. KnownRow(r)'
      BY <3>1, <3>4 DEF KnownRow, IInv, TypeOK
    <3> QED BY <3>2, <3>3, <3>5, StarterMovesOn DEF StarterGoal
  <2>4. ASSUME \/ StartAccepted(p) \/ StartRejected(p) \/ StartLost(p) PROVE StarterGoal
    <3>1. PICK answer \in {"started", "running", "error", "deadline"} : Answer(p, answer)
      BY <2>4 DEF StartAccepted, StartRejected, StartLost
    <3> DEFINE t == [s EXCEPT !.pc = "settle", !.answer = answer]
    <3>2. KnownRow(s.scan)
      BY <1>0, <2>4 DEF StartAccepted, StartRejected, StartLost
    <3>3. t \in StarterState /\ t.pc = "settle" /\ t.scan = s.scan
      BY <1>0 DEF StarterState
    <3>4. starters' = [starters EXCEPT ![p] = t] BY <1>0, <3>1 DEF Answer
    <3> QED BY <3>2, <3>3, <3>4, KnownRowsStay, StarterMovesOn DEF StarterGoal
  <2>5. ASSUME WriteFails(p) \/ DropRow(p) \/ KeepRow(p) \/ MarkRow(p) PROVE StarterGoal
    BY <2>5, FinishMovesOn DEF WriteFails, DropRow, KeepRow, MarkRow, StarterGoal
  <2> QED BY <2>1, <2>2, <2>3, <2>4, <2>5 DEF StarterStep
<1>2. /\ WorkersHoldKnownRows' /\ StagesInOrder'
      /\ run' \in Run /\ strays' \subseteq Stray
  <2>1. ASSUME StartAccepted(p)
        PROVE  /\ WorkersHoldKnownRows' /\ StagesInOrder'
               /\ run' \in Run /\ strays' \subseteq Stray
    <3>1. /\ run' \in Run /\ run'.phase = "ingest" /\ run'.scan = s.scan
          /\ UNCHANGED strays /\ KnownRow(s.scan)
      <4>1. run' = [phase |-> "ingest", scan |-> s.scan, trigger |-> s.trigger,
                    isCancelled |-> FALSE, attempt |-> 0, ingestStatus |-> "succeeded"]
        BY <2>1 DEF StartAccepted, ClosedRun
      <4>2. 0 \in 0..(MaxAttempts - 1) BY BoundAssumption
      <4>3. s.pc = "start" /\ UNCHANGED strays BY <2>1 DEF StartAccepted
      <4> QED BY <1>0, <4>1, <4>2, <4>3 DEF Run, Phase, StarterState, Outcome, KnownRow
    <3> QED
      BY <3>1, KnownRowsStay
         DEF WorkersHoldKnownRows, StagesInOrder, IInv, TypeOK, HeldRowsAreKnown
  <2>2. CASE UNCHANGED runVars
    BY <2>2, UnchangedRun DEF runVars
  <2> QED
    BY <2>1, <2>2 DEF StarterStep, SelectOpenScan, TakeOpenScan, InsertScan, WriteFails,
       StartRejected, StartLost, DropRow, KeepRow, MarkRow
<1>3. UNCHANGED <<userVars, sweepVars>> /\ faults' \in 0..MaxFaults
  <2>1. UNCHANGED <<userVars, sweepVars>> /\ (UNCHANGED faults \/ Fault)
    BY DEF StarterStep, SelectOpenScan, TakeOpenScan, InsertScan, WriteFails,
           StartAccepted, StartRejected, StartLost, DropRow, KeepRow, MarkRow
  <2> QED BY <2>1, FaultTyped DEF IInv, TypeOK
<1>4. SweepHoldsKnownRows' /\ undispatched' \subseteq [scan : Row, isManual : BOOLEAN]
  BY <1>3, UnchangedUndispatched DEF sweepVars
<1> QED
  BY <1>1, <1>2, <1>3, <1>4
     DEF ControlTyped, HeldRowsAreKnown, StarterGoal, IInv, TypeOK, userVars, sweepVars

ControlGoal == ControlTyped' /\ HeldRowsAreKnown' /\ StagesInOrder'

\* The goal, from its three parts.
LEMMA ControlGoalParts ==
  ASSUME StarterGoal,
         SweepHoldsKnownRows', undispatched' \subseteq [scan : Row, isManual : BOOLEAN],
         sweepStage' \in {"idle", "dispatch", "scheduled", "saveFailed"},
         WorkersHoldKnownRows', StagesInOrder', run' \in Run, strays' \subseteq Stray,
         isTopicSaved' \in BOOLEAN, stopCall' \in {"idle", "described"},
         faults' \in 0..MaxFaults, stops' \in 0..MaxStops
  PROVE  ControlGoal
  BY DEF ControlGoal, ControlTyped, HeldRowsAreKnown, StarterGoal

\* Every step of the sweep keeps the control state in order.
LEMMA SweepStepHolds ==
  ASSUME IInv, RowsAndPastMove, SweepStep PROVE ControlGoal
<1>0. UNCHANGED <<userVars, runVars, faults>> /\ TypeOK
  BY DEF IInv, SweepStep, BeginSweep, RefuseUndispatched, DispatchUndispatched, SweepStale,
         SkipTopic, StartScheduled, CheckOverBudget, SaveFailedScan
<1>1. /\ WorkersHoldKnownRows' /\ StagesInOrder'
      /\ run' \in Run /\ strays' \subseteq Stray
  BY <1>0, UnchangedRun DEF runVars
<1>2. sweepStage' \in {"idle", "dispatch", "scheduled", "saveFailed"}
  BY <1>0 DEF TypeOK, SweepStep, BeginSweep, RefuseUndispatched, DispatchUndispatched, SweepStale,
              SkipTopic, StartScheduled, CheckOverBudget, SaveFailedScan
<1>3. SweepHoldsKnownRows' /\ undispatched' \subseteq [scan : Row, isManual : BOOLEAN]
  <2>1. ASSUME BeginSweep
        PROVE  SweepHoldsKnownRows' /\ undispatched' \subseteq [scan : Row, isManual : BOOLEAN]
    <3>1. ASSUME NEW u \in undispatched'
          PROVE  u \in [scan : Row, isManual : BOOLEAN] /\ KnownRow(u.scan)'
      <4>1. PICK r \in Row : /\ IsOpenUndispatched(r)
                             /\ u = [scan |-> r, isManual |-> rows[r].isManual]
        BY <2>1, <3>1 DEF BeginSweep
      <4>2. KnownRow(r) /\ rows[r].isManual \in BOOLEAN
        BY <1>0, <4>1 DEF IsOpenUndispatched, KnownRow, TypeOK, ScanRow
      <4> QED BY <4>1, <4>2, KnownRowsStay
    <3> QED BY <3>1 DEF SweepHoldsKnownRows
  <2>2. CASE undispatched' \subseteq undispatched
    BY <2>2, UnchangedUndispatched
  <2> QED
    BY <2>1, <2>2 DEF SweepStep, RefuseUndispatched, DispatchUndispatched, SweepStale,
              SkipTopic, StartScheduled, CheckOverBudget, SaveFailedScan
<1>4. StarterGoal
  <2>0. /\ Sweep \in Starter /\ starters[Sweep] \in StarterState
        /\ starters \in [Starter -> StarterState]
    BY <1>0 DEF TypeOK, Starter
  <2>1. ASSUME DispatchUndispatched PROVE StarterGoal
    <3>1. PICK u \in undispatched :
            starters' = IF rows[u.scan].status = "running"
                        THEN [starters EXCEPT
                               ![Sweep] = [IdleStarter EXCEPT
                                 !.pc = "start", !.scan = u.scan, !.isExisting = TRUE,
                                 !.trigger = IF u.isManual THEN "manual" ELSE "scheduled"]]
                        ELSE starters
      BY <2>1 DEF DispatchUndispatched
    <3> DEFINE t == [IdleStarter EXCEPT
                      !.pc = "start", !.scan = u.scan, !.isExisting = TRUE,
                      !.trigger = IF u.isManual THEN "manual" ELSE "scheduled"]
    <3>2. KnownRow(u.scan) /\ KnownRow(u.scan)'
      BY <3>1, KnownRowsStay DEF IInv, HeldRowsAreKnown, SweepHoldsKnownRows
    <3>3. t \in StarterState /\ t.pc = "start" /\ t.scan = u.scan
      BY <3>2 DEF IdleStarter, StarterState, Trigger, KnownRow
    <3> HIDE DEF t
    <3>4. CASE starters' = [starters EXCEPT ![Sweep] = t]
      BY <2>0, <3>2, <3>3, <3>4, StarterMovesOn DEF StarterGoal
    <3>5. CASE UNCHANGED starters BY <3>5, UnchangedStarters DEF StarterGoal
    <3> QED BY <3>1, <3>4, <3>5 DEF t
  <2>2. ASSUME StartScheduled PROVE StarterGoal
    <3> DEFINE t == [starters[Sweep] EXCEPT !.pc = "select"]
    <3>1. starters' = [starters EXCEPT ![Sweep] = t] BY <2>0, <2>2 DEF StartScheduled
    <3>2. t \in StarterState /\ t.pc = "select" BY <2>0 DEF StarterState
    <3> QED BY <2>0, <3>1, <3>2, StarterMovesOn DEF StarterGoal
  <2>3. CASE UNCHANGED starters BY <2>3, UnchangedStarters DEF StarterGoal
  <2> QED
    BY <2>1, <2>2, <2>3 DEF SweepStep, BeginSweep, RefuseUndispatched, SweepStale,
              SkipTopic, CheckOverBudget, SaveFailedScan
<1> QED BY <1>0, <1>1, <1>2, <1>3, <1>4, ControlGoalParts DEF TypeOK, userVars

\* A workflow step writes only its own slot, and the attempts it abandons.
WorkerGoal ==
  /\ WorkersHoldKnownRows' /\ StagesInOrder'
  /\ run' \in Run /\ strays' \subseteq Stray

\* The workflow ends, or goes to its next phase with its row.
LEMMA RunMovesOn ==
  ASSUME IInv, RowsAndPastMove, NEW r, r = run.scan, NEW run1 \in Run, run' = run1,
         run1.phase # "closed" => run.phase # "closed" /\ run1.scan = r,
         run1.phase = "pickedUp" => PickUpRecorded(r)',
         run1.phase \in {"ingesting", "review", "reviewing", "finish"}
           => "ran" \in past'[r],
         run1.phase = "finish" => "reviewed" \in past'[r],
         run1.phase = "announce" => rows'[r].status \in Outcome \cup {"deleted"},
         UNCHANGED strays \/ AbandonAttempt
  PROVE  WorkerGoal
<1>1. strays' \subseteq Stray /\ \A s \in strays' : KnownRow(s.scan)'
  <2>1. CASE UNCHANGED strays
    BY <2>1, KnownRowsStay DEF IInv, TypeOK, HeldRowsAreKnown, WorkersHoldKnownRows
  <2>2. CASE /\ run.phase \in DOMAIN StrayAct
             /\ strays' = strays \cup {[act |-> StrayAct[run.phase], scan |-> run.scan,
                                        ingestStatus |-> run.ingestStatus]}
    <3>1. run.phase # "closed" /\ StrayAct[run.phase] \in {"pickUp", "check", "finish", "fail", "stop"}
      BY <2>2 DEF StrayAct
    <3>2. KnownRow(r) /\ run.ingestStatus \in Outcome
      BY <3>1 DEF IInv, TypeOK, HeldRowsAreKnown, WorkersHoldKnownRows, Run
    <3> QED
      BY <2>2, <3>1, <3>2, KnownRowsStay
         DEF IInv, TypeOK, HeldRowsAreKnown, WorkersHoldKnownRows, Stray, KnownRow
  <2> QED BY <2>1, <2>2 DEF AbandonAttempt
<1>2. /\ \A s \in strays' : s.act = "check" => PickUpRecorded(s.scan)'
      /\ \A s \in strays' : s.act = "finish" => {"ran", "reviewed"} \subseteq past'[s.scan]
  <2>1. ASSUME NEW s \in strays
        PROVE  /\ s.act = "check" => PickUpRecorded(s.scan)'
               /\ s.act = "finish" => {"ran", "reviewed"} \subseteq past'[s.scan]
    BY KnownRowsStay DEF IInv, HeldRowsAreKnown, WorkersHoldKnownRows, StagesInOrder
  <2>2. ASSUME run.phase \in DOMAIN StrayAct
        PROVE  /\ StrayAct[run.phase] = "check" => PickUpRecorded(r)'
               /\ StrayAct[run.phase] = "finish" => {"ran", "reviewed"} \subseteq past'[r]
    <3>1. /\ run.phase # "closed"
          /\ StrayAct[run.phase] = "check" => run.phase = "pickedUp"
          /\ StrayAct[run.phase] = "finish" => run.phase = "finish"
      BY <2>2 DEF StrayAct
    <3>2. KnownRow(r) BY <3>1 DEF IInv, HeldRowsAreKnown, WorkersHoldKnownRows
    <3>3. /\ PickUpRecorded(r) => PickUpRecorded(r)'
          /\ past[r] \subseteq past'[r]
      BY <3>2, KnownRowsStay
    <3> QED BY <3>1, <3>3 DEF IInv, StagesInOrder
  <2>3. CASE UNCHANGED strays BY <2>1, <2>3
  <2>4. CASE /\ run.phase \in DOMAIN StrayAct
             /\ strays' = strays \cup {[act |-> StrayAct[run.phase], scan |-> run.scan,
                                        ingestStatus |-> run.ingestStatus]}
    <3> DEFINE t == [act |-> StrayAct[run.phase], scan |-> run.scan,
                     ingestStatus |-> run.ingestStatus]
    <3>1. t.act = StrayAct[run.phase] /\ t.scan = run.scan OBVIOUS
    <3>2. strays' = strays \cup {t} BY <2>4
    <3> HIDE DEF t
    <3> QED BY <2>1, <2>2, <2>4, <3>1, <3>2
  <2> QED BY <2>3, <2>4 DEF AbandonAttempt
<1>3. run1.phase # "closed" => KnownRow(run1.scan)'
  BY KnownRowsStay DEF IInv, HeldRowsAreKnown, WorkersHoldKnownRows
<1>4. WorkersHoldKnownRows' BY <1>1, <1>3 DEF WorkersHoldKnownRows
<1>5. StagesInOrder' BY <1>2 DEF StagesInOrder
<1> QED BY <1>1, <1>4, <1>5 DEF WorkerGoal

\* A Topic without a workflow is a state of the slot.
LEMMA ClosedRunTyped == ClosedRun \in Run /\ ClosedRun.phase = "closed"
<1>1. 0 \in 0..(MaxAttempts - 1) BY BoundAssumption
<1> QED BY <1>1 DEF ClosedRun, Run, Phase, Trigger, Outcome

\* The workflow may go to a phase whose stages its row's history shows.
LEMMA RunGoesTo ==
  ASSUME IInv, RowsAndPastMove, run.phase # "closed", NEW r, r = run.scan,
         NEW phase \in Phase \ {"closed"}, GoTo(phase),
         phase = "pickedUp" => PickUpRecorded(r)',
         phase \in {"ingesting", "review", "reviewing", "finish"} => "ran" \in past'[r],
         phase = "finish" => "reviewed" \in past'[r],
         phase = "announce" => rows'[r].status \in Outcome \cup {"deleted"},
         UNCHANGED strays \/ AbandonAttempt
  PROVE  WorkerGoal
<1>1. 0 \in 0..(MaxAttempts - 1) BY BoundAssumption
<1>2. run \in Run /\ run.ingestStatus \in Outcome BY DEF IInv, TypeOK, Run
<1> DEFINE run1 == [run EXCEPT !.phase = phase, !.attempt = 0]
<1>3. run' = run1 BY DEF GoTo
<1>4. run1 \in Run /\ run1.phase = phase /\ run1.scan = r BY <1>1, <1>2 DEF Run
<1> HIDE DEF run1
<1> QED BY <1>3, <1>4, RunMovesOn

\* The workflow may always end.
LEMMA RunEnds ==
  ASSUME IInv, RowsAndPastMove, EndRun, UNCHANGED strays \/ AbandonAttempt
  PROVE  WorkerGoal
  BY ClosedRunTyped, RunMovesOn DEF EndRun

\* Every step of the workflow keeps its stages in order.
LEMMA WorkerKeeps ==
  ASSUME IInv, RowsAndPastMove, WorkerStep PROVE WorkerGoal
<1> SUFFICES ASSUME NEW r, r = run.scan PROVE WorkerGoal
  OBVIOUS
<1>0. /\ run \in Run /\ run.attempt \in 0..(MaxAttempts - 1) /\ run.ingestStatus \in Outcome
      /\ run.phase # "closed" => KnownRow(r)
      /\ run.phase \in {"ingesting", "review", "reviewing", "finish"} => "ran" \in past[r]
      /\ run.phase = "finish" => "reviewed" \in past[r]
      /\ run.phase = "pickedUp" => PickUpRecorded(r)
      /\ rows \in [Row -> ScanRow] /\ past \in [Row -> SUBSET Mark]
  BY DEF IInv, TypeOK, Run, HeldRowsAreKnown, WorkersHoldKnownRows, StagesInOrder
<1>1. ASSUME run.phase # "closed"
      PROVE  /\ KnownRow(r) /\ KnownRow(r)' /\ past[r] \subseteq past'[r]
             /\ rows[r].status \in Outcome \cup {"deleted"}
                  => rows'[r].status \in Outcome \cup {"deleted"}
  BY <1>0, <1>1, KnownRowsStay
<1>2. ASSUME IngestPicksUp PROVE WorkerGoal
  <2>1. run.phase = "ingest" /\ PickUp(r) /\ UNCHANGED strays BY <1>2 DEF IngestPicksUp
  <2>2. KnownRow(r) BY <1>1, <2>1
  <2>3. Exists(r) => rows'[r].isPickedUp
    BY <1>0, <2>1, <2>2, PickUpMoves DEF RowsTyped, KnownRow
  <2>4. rows[r].status = "deleted" => rows'[r].status = "deleted"
    BY <2>2 DEF KnownRow, RowsAndPastMove, RowsMove
  <2>5. PickUpRecorded(r)'
    BY <2>2, <2>3, <2>4 DEF KnownRow, Exists, PickUpRecorded
  <2> DEFINE run1 == [run EXCEPT !.phase = "pickedUp"]
  <2>6. run' = run1 BY <1>2 DEF IngestPicksUp
  <2>7. run1 \in Run /\ run1.phase = "pickedUp" /\ run1.scan = r BY <1>0 DEF Run, Phase
  <2> HIDE DEF run1
  <2> QED BY <2>1, <2>5, <2>6, <2>7, RunMovesOn
<1>3. ASSUME IngestRuns PROVE WorkerGoal
  <2>1. CASE GoTo("fail")
    BY <1>3, <2>1, RunGoesTo DEF IngestRuns, Phase
  <2>2. CASE run' = [run EXCEPT !.phase = "ingesting"] /\ Note(r, "ran")
    <3>1. "ran" \in past'[r]
      BY <1>0, <1>1, <1>3, <2>2 DEF IngestRuns, Note, KnownRow
    <3> DEFINE run1 == [run EXCEPT !.phase = "ingesting"]
    <3>2. run1 \in Run /\ run1.phase = "ingesting" /\ run1.scan = r BY <1>0 DEF Run, Phase
    <3>3. run' = run1 BY <2>2
    <3> HIDE DEF run1
    <3> QED BY <1>3, <3>1, <3>2, <3>3, RunMovesOn DEF IngestRuns
  <2> QED BY <1>3, <2>1, <2>2 DEF IngestRuns
<1>4. ASSUME IngestReturns PROVE WorkerGoal
  <2>1. run.phase = "ingesting" /\ UNCHANGED strays BY <1>4 DEF IngestReturns
  <2>2. "ran" \in past'[r] BY <1>0, <1>1, <2>1
  <2>3. PICK status \in Outcome :
          run' = [run EXCEPT !.phase = "review", !.attempt = 0, !.ingestStatus = status]
    BY <1>4 DEF IngestReturns
  <2>4. 0 \in 0..(MaxAttempts - 1) /\ "review" \in Phase BY BoundAssumption DEF Phase
  <2> DEFINE run1 == [run EXCEPT !.phase = "review", !.attempt = 0, !.ingestStatus = status]
  <2>5. run1 \in Run /\ run1.phase = "review" /\ run1.scan = r BY <1>0, <2>4 DEF Run
  <2>6. run' = run1 BY <2>3
  <2> HIDE DEF run1
  <2> QED BY <2>1, <2>2, <2>5, <2>6, RunMovesOn
<1>5. ASSUME ReviewStarts PROVE WorkerGoal
  <2>1. run.phase = "review" /\ UNCHANGED strays BY <1>5 DEF ReviewStarts
  <2>2. "ran" \in past'[r] BY <1>0, <1>1, <2>1
  <2> DEFINE run1 == [run EXCEPT !.phase = "reviewing"]
  <2>3. run1 \in Run /\ run1.phase = "reviewing" /\ run1.scan = r BY <1>0 DEF Run, Phase
  <2>4. run' = run1 BY <1>5 DEF ReviewStarts
  <2> HIDE DEF run1
  <2> QED BY <2>1, <2>2, <2>3, <2>4, RunMovesOn
<1>6. ASSUME ReviewReturns PROVE WorkerGoal
  <2>1. run.phase = "reviewing" /\ UNCHANGED strays /\ Note(r, "reviewed")
    BY <1>6 DEF ReviewReturns
  <2>2. {"ran", "reviewed"} \subseteq past'[r]
    BY <1>0, <1>1, <2>1 DEF Note, KnownRow
  <2>3. GoTo("stop") \/ GoTo("finish") BY <1>6 DEF ReviewReturns
  <2> QED BY <2>1, <2>2, <2>3, RunGoesTo DEF Phase
<1>7. ASSUME StageFails PROVE WorkerGoal
  <2>0. run.phase \in IngestPhase \cup ReviewPhase /\ run.phase # "closed"
    BY <1>7 DEF StageFails, IngestPhase, ReviewPhase
  <2>1. CASE GoTo("fail")
    BY <1>7, <2>0, <2>1, RunGoesTo DEF StageFails, Phase
  <2>2. CASE HasAttemptLeft /\ run' = [run EXCEPT !.attempt = @ + 1,
               !.phase = IF run.phase \in IngestPhase THEN "ingest" ELSE "review"]
    <3> DEFINE run1 == [run EXCEPT !.attempt = run.attempt + 1,
                          !.phase = IF run.phase \in IngestPhase THEN "ingest" ELSE "review"]
    <3>1. run.attempt + 1 \in 0..(MaxAttempts - 1)
      BY <1>0, <2>2, BoundAssumption DEF HasAttemptLeft
    <3>2. run1 \in Run /\ run1.scan = r
          /\ run1.phase = IF run.phase \in IngestPhase THEN "ingest" ELSE "review"
      BY <1>0, <3>1 DEF Run, Phase
    <3>3. run' = run1 BY <1>0, <2>2 DEF Run
    <3>4. run1.phase = "review" => "ran" \in past'[r]
      BY <1>0, <1>1, <2>0, <3>2 DEF ReviewPhase
    <3> HIDE DEF run1
    <3> QED BY <1>7, <2>0, <3>2, <3>3, <3>4, RunMovesOn DEF StageFails
  <2> QED BY <1>7, <2>1, <2>2 DEF StageFails
<1>8. ASSUME FinishCloses PROVE WorkerGoal
  <2>1. /\ run.phase = "finish" /\ FinishWrite(r, run.ingestStatus) /\ GoTo("announce")
        /\ UNCHANGED strays
    BY <1>8 DEF FinishCloses
  <2>2. KnownRow(r) BY <1>1, <2>1
  <2>3. rows'[r].status \in Outcome \cup {"deleted"}
    <3>1. /\ Exists(r) => rows'[r].status = run.ingestStatus
          /\ ~Exists(r) => rows'[r] = rows[r]
      BY <1>0, <2>1, <2>2, FinishWriteMoves DEF RowsTyped, KnownRow
    <3> QED BY <1>0, <2>2, <3>1 DEF KnownRow, Exists
  <2> QED BY <2>1, <2>3, RunGoesTo DEF Phase
<1>9. ASSUME FailCloses \/ StopCloses \/ Announce PROVE WorkerGoal
  BY <1>9, RunEnds DEF FailCloses, StopCloses, Announce
<1>10. ASSUME ClosingFails PROVE WorkerGoal
  <2>0. run.phase \in {"finish", "fail", "stop"} /\ AbandonAttempt
    BY <1>10 DEF ClosingFails
  <2>1. CASE GoTo("fail") BY <2>0, <2>1, RunGoesTo DEF Phase
  <2>2. CASE EndRun BY <2>0, <2>2, RunEnds
  <2>3. CASE HasAttemptLeft /\ run' = [run EXCEPT !.attempt = @ + 1]
    <3> DEFINE run1 == [run EXCEPT !.attempt = run.attempt + 1]
    <3>1. run.attempt + 1 \in 0..(MaxAttempts - 1)
      BY <1>0, <2>3, BoundAssumption DEF HasAttemptLeft
    <3>2. run1 \in Run /\ run1.scan = r /\ run1.phase = run.phase
      BY <1>0, <3>1 DEF Run
    <3>3. run' = run1 BY <1>0, <2>3 DEF Run
    <3>4. run.phase = "finish" => {"ran", "reviewed"} \subseteq past'[r]
      BY <1>0, <1>1
    <3> HIDE DEF run1
    <3> QED BY <2>0, <3>2, <3>3, <3>4, RunMovesOn
  <2> QED BY <1>10, <2>1, <2>2, <2>3 DEF ClosingFails
<1>11. ASSUME CancelLands PROVE WorkerGoal
  <2>1. CASE EndRun BY <1>11, <2>1, RunEnds DEF CancelLands
  <2>2. CASE GoTo("stop") BY <1>11, <2>2, RunGoesTo DEF CancelLands, Phase
  <2> QED BY <1>11, <2>1, <2>2 DEF CancelLands
<1> QED
  BY <1>2, <1>3, <1>4, <1>5, <1>6, <1>7, <1>8, <1>9, <1>10, <1>11 DEF WorkerStep

\* Every step of the workflow keeps the control state in order.
LEMMA WorkerStepHolds ==
  ASSUME IInv, RowsAndPastMove, WorkerStep PROVE ControlGoal
<1>1. UNCHANGED <<starters, userVars, sweepVars>> /\ (UNCHANGED faults \/ Fault)
  BY DEF WorkerStep, IngestPicksUp, IngestRuns, IngestReturns, ReviewStarts, ReviewReturns,
         StageFails, FinishCloses, FailCloses, StopCloses, ClosingFails, CancelLands, Announce
<1>2. StarterGoal BY <1>1, UnchangedStarters DEF StarterGoal
<1>3. SweepHoldsKnownRows' /\ undispatched' \subseteq [scan : Row, isManual : BOOLEAN]
  BY <1>1, UnchangedUndispatched DEF sweepVars
<1>4. faults' \in 0..MaxFaults BY <1>1, FaultTyped DEF IInv, TypeOK
<1>5. WorkerGoal BY WorkerKeeps
<1> QED
  BY <1>1, <1>2, <1>3, <1>4, <1>5, ControlGoalParts
     DEF WorkerGoal, IInv, TypeOK, userVars, sweepVars

\* A late pickup is followed by a check of the same row, and nothing else goes on.
LEMMA StrayRunsHolds ==
  ASSUME IInv, RowsAndPastMove, NEW s \in strays, StrayRuns(s) PROVE WorkerGoal
<1> DEFINE t == [s EXCEPT !.act = "check"]
<1>0. s \in Stray /\ KnownRow(s.scan)
  BY DEF IInv, TypeOK, HeldRowsAreKnown, WorkersHoldKnownRows
<1>1. strays' \subseteq strays \/ (s.act = "pickUp" /\ PickUp(s.scan) /\ strays' \subseteq strays \cup {t})
  BY DEF StrayRuns
<1>2. UNCHANGED run BY DEF StrayRuns
<1>3. CASE strays' \subseteq strays
  BY <1>2, <1>3, UnchangedRun DEF WorkerGoal
<1>4. CASE s.act = "pickUp" /\ PickUp(s.scan) /\ strays' \subseteq strays \cup {t}
  <2>1. t \in Stray /\ t.act = "check" /\ t.scan = s.scan
    BY <1>0 DEF Stray
  <2>2. KnownRow(s.scan)'
    BY <1>0, KnownRowsStay
  <2>3. PickUpRecorded(s.scan)'
    <3>1. Exists(s.scan) => rows'[s.scan].isPickedUp
      BY <1>0, <1>4, PickUpMoves DEF RowsTyped, KnownRow, IInv, TypeOK
    <3> QED
      BY <1>0, <3>1 DEF KnownRow, RowsAndPastMove, RowsMove, Exists, PickUpRecorded
  <2> HIDE DEF t
  <2>4. ASSUME NEW u \in strays
        PROVE  /\ u \in Stray /\ KnownRow(u.scan)'
               /\ u.act = "check" => PickUpRecorded(u.scan)'
               /\ u.act = "finish" => {"ran", "reviewed"} \subseteq past'[u.scan]
    BY KnownRowsStay DEF IInv, TypeOK, HeldRowsAreKnown, WorkersHoldKnownRows, StagesInOrder
  <2>5. \A u \in strays' : /\ u \in Stray /\ KnownRow(u.scan)'
                           /\ u.act = "check" => PickUpRecorded(u.scan)'
                           /\ u.act = "finish" => {"ran", "reviewed"} \subseteq past'[u.scan]
    BY <1>4, <2>1, <2>2, <2>3, <2>4
  <2>6. (WorkersHoldKnownRows /\ StagesInOrder)' /\ run' \in Run
    <3>1. /\ run'.phase # "closed" => KnownRow(run.scan)'
          /\ run'.phase = "pickedUp" => PickUpRecorded(run.scan)'
          /\ run'.phase \in {"ingesting", "review", "reviewing", "finish"}
               => "ran" \in past'[run.scan]
          /\ run'.phase = "finish" => "reviewed" \in past'[run.scan]
          /\ run'.phase = "announce" => rows'[run.scan].status \in Outcome \cup {"deleted"}
          /\ run' \in Run
      <4> SUFFICES ASSUME NEW r, r = run.scan
                   PROVE  /\ run.phase # "closed" => KnownRow(r)'
                          /\ run.phase = "pickedUp" => PickUpRecorded(r)'
                          /\ run.phase \in {"ingesting", "review", "reviewing", "finish"}
                               => "ran" \in past'[r]
                          /\ run.phase = "finish" => "reviewed" \in past'[r]
                          /\ run.phase = "announce"
                               => rows'[r].status \in Outcome \cup {"deleted"}
                          /\ run' \in Run
        BY <1>2
      <4> QED
        BY <1>2, KnownRowsStay DEF IInv, TypeOK, HeldRowsAreKnown, WorkersHoldKnownRows, StagesInOrder
    <3> QED BY <1>2, <2>5, <3>1 DEF WorkersHoldKnownRows, StagesInOrder
  <2> QED BY <2>5, <2>6 DEF WorkerGoal
<1> QED BY <1>1, <1>3, <1>4

\* A starter or a sweep that exits forgets its rows and nothing else.
LEMMA CrashHolds ==
  ASSUME IInv, RowsAndPastMove, NEW p \in Starter, Crash(p) PROVE ControlGoal
<1>1. Fault /\ Finish(p) /\ UNCHANGED <<userVars, runVars>> BY DEF Crash
<1>2. StarterGoal BY <1>1, FinishMovesOn DEF StarterGoal
<1>3. undispatched' \subseteq undispatched
      /\ sweepStage' \in {"idle", "dispatch", "scheduled", "saveFailed"}
  BY DEF Crash, IInv, TypeOK
<1>4. faults' \in 0..MaxFaults BY <1>1, FaultTyped DEF IInv, TypeOK
<1>5. WorkerGoal BY <1>1, UnchangedRun DEF runVars, WorkerGoal
<1> QED
  BY <1>1, <1>2, <1>3, <1>4, <1>5, UnchangedUndispatched, ControlGoalParts
     DEF WorkerGoal, IInv, TypeOK, userVars

\* The steps of createTopic's first start and of a manual request keep the order.
LEMMA CreatorAndRequestHold ==
  ASSUME IInv, RowsAndPastMove,
         FailFirstScan \/ FirstSourcesScreened \/ \E q \in Request : RequestScan(q)
  PROVE  ControlGoal
<1>0. UNCHANGED <<userVars, runVars, sweepVars, faults>>
  BY DEF FailFirstScan, FirstSourcesScreened, RequestScan
<1>1. starters \in [Starter -> StarterState] /\ Creator \in Starter /\ Request \subseteq Starter
  BY DEF IInv, TypeOK, Starter
<1>2. StarterGoal
  <2>1. ASSUME FailFirstScan PROVE StarterGoal
    BY <1>1, <2>1, FinishMovesOn DEF FailFirstScan, StarterGoal
  <2>2. ASSUME FirstSourcesScreened PROVE StarterGoal
    <3> DEFINE s == starters[Creator]
    <3> DEFINE t == [s EXCEPT !.pc = "start"]
    <3>1. starters' = [starters EXCEPT ![Creator] = t] BY <1>1, <2>2 DEF FirstSourcesScreened
    <3>2. t \in StarterState /\ t.pc = "start" /\ t.scan = s.scan BY <1>1 DEF StarterState
    <3>3. KnownRow(s.scan)
      BY <1>1, <2>2 DEF FirstSourcesScreened, IInv, HeldRowsAreKnown, StartersHoldKnownRows
    <3> QED BY <1>1, <3>1, <3>2, <3>3, KnownRowsStay, StarterMovesOn DEF StarterGoal
  <2>3. ASSUME NEW q \in Request, RequestScan(q) PROVE StarterGoal
    <3> DEFINE t == [starters[q] EXCEPT !.pc = "select", !.trigger = "manual"]
    <3>1. starters' = [starters EXCEPT ![q] = t] BY <1>1, <2>3 DEF RequestScan
    <3>2. t \in StarterState /\ t.pc = "select" BY <1>1 DEF StarterState, Trigger
    <3> QED BY <1>1, <3>1, <3>2, StarterMovesOn DEF StarterGoal
  <2> QED BY <2>1, <2>2, <2>3
<1>3. WorkerGoal BY <1>0, UnchangedRun DEF runVars, WorkerGoal
<1> QED
  BY <1>0, <1>2, <1>3, UnchangedUndispatched, ControlGoalParts
     DEF WorkerGoal, IInv, TypeOK, userVars, sweepVars

\* The end of an abandoned attempt keeps the order.
LEMMA StrayHolds ==
  ASSUME IInv, RowsAndPastMove, NEW s \in strays, StrayRuns(s) \/ StrayDies(s) PROVE ControlGoal
<1>1. UNCHANGED <<starters, userVars, sweepVars, faults>> BY DEF StrayRuns, StrayDies
<1>2. StarterGoal BY <1>1, UnchangedStarters DEF StarterGoal
<1>3. WorkerGoal BY StrayRunsHolds, UnchangedRun DEF StrayDies, WorkerGoal
<1> QED
  BY <1>1, <1>2, <1>3, UnchangedUndispatched, ControlGoalParts
     DEF WorkerGoal, IInv, TypeOK, userVars, sweepVars

\* A stop, a deletion of the Topic and the passing of time keep the order.
LEMMA UserHolds ==
  ASSUME IInv, RowsAndPastMove,
         \/ DescribeRun \/ CancelRun \/ DeleteTopic \/ \E r \in Row : WindowPasses(r)
  PROVE  ControlGoal
<1>1. UNCHANGED <<starters, sweepVars, strays, faults>> /\ TypeOK
  BY DEF DescribeRun, CancelRun, DeleteTopic, WindowPasses, runVars, IInv
<1>2. StarterGoal BY <1>1, UnchangedStarters DEF StarterGoal
<1>3. /\ isTopicSaved' \in BOOLEAN /\ stopCall' \in {"idle", "described"}
      /\ stops' \in 0..MaxStops
  <2>1. \/ UNCHANGED stops \/ (stops < MaxStops /\ stops' = stops + 1)
    BY DEF DescribeRun, CancelRun, DeleteTopic, WindowPasses, userVars
  <2>2. stops' \in 0..MaxStops BY <1>1, <2>1, BoundAssumption DEF TypeOK
  <2>3. isTopicSaved' \in BOOLEAN /\ stopCall' \in {"idle", "described"}
    BY <1>1 DEF TypeOK, DescribeRun, CancelRun, DeleteTopic, WindowPasses, userVars
  <2> QED BY <2>2, <2>3
<1>4. WorkerGoal
  <2>1. CASE UNCHANGED run BY <1>1, <2>1, UnchangedRun DEF WorkerGoal
  <2>2. CASE run.phase # "closed" /\ run' = [run EXCEPT !.isCancelled = TRUE]
    <3> SUFFICES ASSUME NEW r, r = run.scan PROVE WorkerGoal OBVIOUS
    <3> DEFINE run1 == [run EXCEPT !.isCancelled = TRUE]
    <3>1. run1 \in Run /\ run1.phase = run.phase /\ run1.scan = r
      BY <1>1 DEF TypeOK, Run
    <3>2. KnownRow(r) /\ StagesInOrder
      BY <2>2 DEF IInv, HeldRowsAreKnown, WorkersHoldKnownRows
    <3>3. /\ PickUpRecorded(r) => PickUpRecorded(r)'
          /\ past[r] \subseteq past'[r]
          /\ rows[r].status \in Outcome \cup {"deleted"}
               => rows'[r].status \in Outcome \cup {"deleted"}
      BY <3>2, KnownRowsStay
    <3>4. run' = run1 BY <2>2
    <3> HIDE DEF run1
    <3>5. /\ run1.phase = "pickedUp" => PickUpRecorded(r)'
          /\ run1.phase \in {"ingesting", "review", "reviewing", "finish"} => "ran" \in past'[r]
          /\ run1.phase = "finish" => "reviewed" \in past'[r]
          /\ run1.phase = "announce" => rows'[r].status \in Outcome \cup {"deleted"}
      <4>1. /\ run.phase = "pickedUp" => PickUpRecorded(r)
            /\ run.phase \in {"ingesting", "review", "reviewing", "finish"} => "ran" \in past[r]
            /\ run.phase = "finish" => "reviewed" \in past[r]
            /\ run.phase = "announce" => rows[r].status \in Outcome \cup {"deleted"}
        BY <3>2 DEF StagesInOrder, PickUpRecorded
      <4> QED BY <3>1, <3>3, <4>1
    <3>6. UNCHANGED strays /\ run.phase # "closed" /\ run1 \in Run /\ run1.scan = r
      BY <1>1, <2>2, <3>1
    <3> QED BY <3>4, <3>5, <3>6, RunMovesOn
  <2> QED BY <2>1, <2>2 DEF DescribeRun, CancelRun, DeleteTopic, WindowPasses, runVars
<1> QED
  BY <1>1, <1>2, <1>3, <1>4, UnchangedUndispatched, ControlGoalParts
     DEF WorkerGoal, TypeOK, sweepVars

-----------------------------------------------------------------------------
(* The theorems *)

\* The state that createTopic leaves is in the invariant.
LEMMA InitHolds == Init => IInv
<1> SUFFICES ASSUME Init PROVE IInv OBVIOUS
<1> DEFINE first == [IdleStarter EXCEPT !.pc = "opened", !.scan = FirstRow, !.isExisting = TRUE,
                                        !.trigger = "creation"]
<1>1. first \in StarterState /\ first.pc = "opened" /\ first.scan = FirstRow
  BY RowAssumption DEF IdleStarter, StarterState, Trigger
<1>2. NewRow("running", FALSE) \in ScanRow /\ NewRow("running", FALSE).status = "running"
  BY NewRowTyped DEF Status
<1>3. UnusedRow \in ScanRow /\ UnusedRow.status = "unused"
  BY DEF UnusedRow, ScanRow, Status
<1>4. \A p \in Starter : starters[p] = IF p = Creator THEN first ELSE IdleStarter
  BY DEF Init
<1>5. starters \in [Starter -> StarterState]
  BY <1>1, IdleStarterTyped DEF Init
<1> HIDE DEF first
<1>6. \A r \in Row : rows[r] = IF r = FirstRow THEN NewRow("running", FALSE) ELSE UnusedRow
  BY DEF Init
<1>7. rows \in [Row -> ScanRow] BY <1>2, <1>3 DEF Init
<1>8. TypeOK
  <2>1. 0 \in 0..MaxFaults /\ 0 \in 0..MaxStops BY BoundAssumption
  <2>2. past \in [Row -> SUBSET Mark] BY DEF Init
  <2> QED BY <1>5, <1>7, <2>1, <2>2, ClosedRunTyped DEF Init, TypeOK
<1>9. HeldRowsAreKnown
  BY <1>1, <1>2, <1>4, <1>6, IdleStarterTyped, ClosedRunTyped, RowAssumption
     DEF Init, HeldRowsAreKnown, StartersHoldKnownRows, SweepHoldsKnownRows,
         WorkersHoldKnownRows, KnownRow
<1>10. StagesInOrder BY ClosedRunTyped DEF Init, StagesInOrder
<1>11. PastFitsRow BY DEF Init, PastFitsRow
<1> QED BY <1>8, <1>9, <1>10, <1>11 DEF IInv

\* The invariant is inductive, and its steps move rows and history forward.
LEMMA NextHolds == IInv /\ [Next]_vars => IInv' /\ (RowsAndPastMove \/ UNCHANGED vars)
<1> SUFFICES ASSUME IInv, [Next]_vars PROVE IInv' /\ (RowsAndPastMove \/ UNCHANGED vars) OBVIOUS
<1>1. ASSUME Next PROVE IInv' /\ RowsAndPastMove
  <2>1. RowsAndPastMove BY <1>1, NextMoves
  <2>2. ControlGoal
    <3>1. CASE \E p \in Starter : StarterStep(p) BY <2>1, <3>1, StarterStepHolds DEF ControlGoal
    <3>2. CASE \E p \in Starter : Crash(p) BY <2>1, <3>2, CrashHolds
    <3>3. CASE SweepStep BY <2>1, <3>3, SweepStepHolds
    <3>4. CASE WorkerStep BY <2>1, <3>4, WorkerStepHolds
    <3>5. CASE \E s \in strays : StrayRuns(s) \/ StrayDies(s) BY <2>1, <3>5, StrayHolds
    <3>6. CASE FailFirstScan \/ FirstSourcesScreened \/ \E q \in Request : RequestScan(q)
      BY <2>1, <3>6, CreatorAndRequestHold
    <3>7. CASE \/ DescribeRun \/ CancelRun \/ DeleteTopic \/ \E r \in Row : WindowPasses(r)
      BY <2>1, <3>7, UserHolds
    <3> QED BY <1>1, <3>1, <3>2, <3>3, <3>4, <3>5, <3>6, <3>7 DEF Next
  <2>3. TypeOK'
    BY <2>1, <2>2 DEF ControlGoal, ControlTyped, RowsAndPastMove, RowsTyped, PastMoves, TypeOK
  <2>4. PastFitsRow' BY <2>1, PastStillFits
  <2> QED BY <2>1, <2>2, <2>3, <2>4 DEF ControlGoal, IInv
<1>2. ASSUME UNCHANGED vars PROVE IInv'
  BY <1>2 DEF vars, userVars, sweepVars, runVars, IInv, TypeOK, HeldRowsAreKnown,
     StartersHoldKnownRows, SweepHoldsKnownRows, WorkersHoldKnownRows, KnownRow,
     StagesInOrder, PastFitsRow, PickUpRecorded
<1> QED BY <1>1, <1>2

\* The invariant holds in every reachable state.
LEMMA Invariance == Spec => []IInv
<1>1. IInv /\ [Next]_vars => IInv' BY NextHolds
<1> QED BY <1>1, InitHolds, PTL DEF Spec

\* TypeOK holds in every reachable state, for any number of rows, requests,
\* attempts, faults, stops and abandoned attempts.
THEOREM TypeCorrect == Spec => []TypeOK
<1>1. IInv => TypeOK BY DEF IInv
<1> QED BY <1>1, Invariance, PTL

\* A Scan that failUnstartedScan refused never runs a Source: the pickup is
\* recorded before the row is read again, and the refusal asks for no pickup.
THEOREM RefusedNeverRuns == Spec => []RefusedScanRunsNoSource
<1>1. IInv => RefusedScanRunsNoSource BY DEF IInv, PastFitsRow, RefusedScanRunsNoSource
<1> QED BY <1>1, Invariance, PTL

\* What a Scan announces, it announces of a closed row, and no later write of a
\* starter, the sweep or a late attempt opens the row again.
THEOREM AnnouncedStaysClosed == Spec => []AnnouncedScanIsClosed
<1>1. IInv => AnnouncedScanIsClosed BY DEF IInv, PastFitsRow, AnnouncedScanIsClosed
<1> QED BY <1>1, Invariance, PTL

\* A failed Scan turns into a succeeded one only by a finishScan whose review
\* ran, never by a stop that lands late.
THEOREM FailedSucceedsOnlyReviewed == Spec => FailedScanSucceedsOnlyIfReviewed
<1>1. IInv /\ [Next]_vars
        => [\A r \in Row : rows[r].status = "failed" /\ rows'[r].status = "succeeded"
                             => "reviewed" \in past[r]]_vars
  BY NextHolds DEF RowsAndPastMove, RevivedIfReviewed
<1> QED BY <1>1, Invariance, PTL DEF Spec, FailedScanSucceedsOnlyIfReviewed

-----------------------------------------------------------------------------
(* No workflow loses its row, unless the row is contested *)

\* No row that is there is dropped.
RowsStay == \A r \in Row : Exists(r) => Exists(r)'

\* No row's history is forgotten.
PastGrows == \A r \in Row : past[r] \subseteq past'[r]

\* The workflow is the one before, or has ended.
RunStays == run'.phase # "closed" => run.phase # "closed" /\ run'.scan = run.scan

IsRunning(r) == run.phase # "closed" /\ run.scan = r

\* The creator only ever holds the row that createTopic opened.
CreatorFits(c) ==
  /\ c.pc \in {"idle", "opened", "start", "settle"}
  /\ c.pc # "idle" => c.scan = FirstRow /\ c.isExisting

\* The starter may still drop the row that it inserted.
MayDrop(s) ==
  /\ ~s.isExisting
  /\ s.pc = "start" \/ (s.pc = "settle" /\ s.answer \in {"error", "running"})

\* The starter may still start its row.
MayStart(s) == s.pc \in {"write", "start"}

\* A starter starts only a row that is there, but for a contested one, and drops none that
\* the Topic came with or that a workflow runs for.
StarterFits(s) ==
  /\ s.pc = "write" => (s.isExisting <=> s.scan # NoRow)
  /\ s.pc = "start" => Exists(s.scan) \/ IsContested(s.scan)
  /\ MayDrop(s) => s.scan # FirstRow /\ (IsRunning(s.scan) => IsContested(s.scan))

\* Nobody else starts a row that one starter may still drop.
PairFits(s, t) == MayDrop(s) /\ MayStart(t) /\ s.scan = t.scan => IsContested(s.scan)

KeepInv ==
  /\ Exists(FirstRow)
  /\ RunningScanKeepsItsRow
  /\ CreatorFits(starters[Creator])
  /\ \A p \in Starter : StarterFits(starters[p])
  /\ \A p, q \in Starter : p # q => PairFits(starters[p], starters[q])

\* An UPDATE that does not drop its row drops none.
LEMMA UpdateKeepsRows ==
  ASSUME RowsTyped, NEW r \in Row, NEW row \in ScanRow, Update(r, row),
         row.status \notin {"unused", "deleted"}
  PROVE  RowsStay
BY DEF RowsTyped, RowsStay, Update, Exists

\* Writes that close rows, record a pickup or mark a dispatch drop none.
LEMMA ClosingKeepsRows ==
  ASSUME RowsTyped, NEW r \in Row,
         \/ \E status \in Outcome : FinishWrite(r, status)
         \/ FailWrite(r) \/ StopWrite(r) \/ FailUnstarted(r) \/ PickUp(r) \/ MarkDispatched(r)
  PROVE  RowsStay
<1>1. CASE \E status \in Outcome : FinishWrite(r, status)
  <2>1. PICK status \in Outcome : FinishWrite(r, status) BY <1>1
  <2>2. \A s \in Row : rows'[s] = rows[s] \/ (s = r /\ rows'[r].status = status)
    BY <2>1, FinishWriteMoves
  <2>. QED BY <2>2 DEF RowsStay, Exists, Outcome
<1>2. CASE FailWrite(r)
  <2>1. FinishWrite(r, "failed") BY <1>2 DEF FailWrite, FinishWrite
  <2>2. \A s \in Row : rows'[s] = rows[s] \/ (s = r /\ rows'[r].status = "failed")
    BY <2>1, FinishWriteMoves DEF Outcome
  <2>. QED BY <2>2 DEF RowsStay, Exists
<1>3. CASE StopWrite(r)
  <2> DEFINE row == [ClosedRow(r, "succeeded") EXCEPT !.isStopped = TRUE]
  <2>1. row \in ScanRow /\ row.status = "succeeded" BY ClosedRowTyped DEF Outcome, ScanRow, Status
  <2> HIDE DEF row
  <2>2. UNCHANGED rows \/ Update(r, row) BY <1>3 DEF StopWrite, row
  <2>3. CASE UNCHANGED rows BY <2>3 DEF RowsStay, Exists
  <2>. QED BY <2>1, <2>2, <2>3, UpdateKeepsRows
<1>4. CASE FailUnstarted(r)
  <2>1. ClosedRow(r, "failed").status = "failed" BY ClosedRowTyped DEF Outcome
  <2>2. UNCHANGED rows \/ rows' = [rows EXCEPT ![r] = ClosedRow(r, "failed")]
    BY <1>4 DEF FailUnstarted
  <2>. QED BY <2>1, <2>2 DEF RowsStay, Exists, RowsTyped
<1>5. CASE PickUp(r)
  <2> DEFINE row == [rows[r] EXCEPT !.isPickedUp = TRUE,
                                    !.isOverdue = @ /\ rows[r].isPickedUp]
  <2>1. row \in ScanRow /\ row.status = rows[r].status BY DEF RowsTyped, ScanRow
  <2>2. Update(r, row) BY <1>5 DEF PickUp
  <2> HIDE DEF row
  <2>. QED BY <2>1, <2>2 DEF RowsStay, Update, Exists, RowsTyped
<1>6. CASE MarkDispatched(r)
  <2> DEFINE row == [rows[r] EXCEPT !.isDispatched = TRUE,
                                    !.isOverdue = @ /\ rows[r].isPickedUp]
  <2>1. row \in ScanRow /\ row.status = rows[r].status BY DEF RowsTyped, ScanRow
  <2>2. Update(r, row) BY <1>6 DEF MarkDispatched
  <2> HIDE DEF row
  <2>. QED BY <2>1, <2>2 DEF RowsStay, Update, Exists, RowsTyped
<1>. QED BY <1>1, <1>2, <1>3, <1>4, <1>5, <1>6

\* failStaleScans drops no row.
LEMMA FailStaleKeepsRows == ASSUME RowsTyped, FailStale PROVE RowsStay
<1>1. \A r \in Row : ClosedRow(r, "failed").status = "failed" BY ClosedRowTyped DEF Outcome
<1>2. \A r \in Row : rows'[r] = IF IsStale(r) THEN ClosedRow(r, "failed") ELSE rows[r] BY DEF FailStale
<1>. QED BY <1>1, <1>2 DEF RowsStay, Exists

\* An INSERT drops no row.
LEMMA InsertKeepsRows ==
  ASSUME RowsTyped, NEW r \in Row, NEW status \in {"running", "failed"}, NEW isManual \in BOOLEAN,
         rows' = [rows EXCEPT ![r] = NewRow(status, isManual)]
  PROVE  RowsStay /\ Exists(r)'
<1>1. NewRow(status, isManual).status = status BY NewRowTyped DEF Status, Outcome
<1>. QED BY <1>1 DEF RowsStay, Exists, RowsTyped

\* The types of the rows and of those who hold them.
LEMMA KnownTypes ==
  ASSUME IInv
  PROVE  /\ RowsTyped /\ run \in Run /\ FirstRow \in Row /\ NoRow \notin Row
         /\ starters \in [Starter -> StarterState] /\ Sweep \in Starter /\ Creator \in Starter
         /\ run.phase # "closed" => run.scan \in Row
         /\ \A p \in Starter : starters[p].pc \in {"opened", "start", "settle"} => starters[p].scan \in Row
         /\ \A p \in Starter : starters[p].pc = "write" => starters[p].scan = NoRow \/ starters[p].scan \in Row
BY RowAssumption
DEF IInv, TypeOK, RowsTyped, Starter, HeldRowsAreKnown, WorkersHoldKnownRows, StartersHoldKnownRows, KnownRow

\* A starter that is under way holds a row, or none that it is about to insert.
LEMMA HeldByMover ==
  ASSUME IInv, NEW p \in Starter, NEW s, s = starters[p], MayDrop(s) \/ MayStart(s)
  PROVE  (s.scan \in Row /\ rows[s.scan].status # "unused") \/ (s.pc = "write" /\ s.scan = NoRow)
BY DEF IInv, HeldRowsAreKnown, StartersHoldKnownRows, KnownRow, MayDrop, MayStart

\* A contested row stays contested.
LEMMA ContestStays ==
  ASSUME PastGrows, NEW r \in Row, IsContested(r) PROVE IsContested(r)'
BY DEF PastGrows, IsContested

\* While rows and workflow stay and the history grows, what held of a starter holds.
LEMMA StayingKeeps ==
  ASSUME IInv, KeepInv, RowsStay, PastGrows, RunStays
  PROVE  /\ Exists(FirstRow)' /\ RunningScanKeepsItsRow'
         /\ \A p \in Starter : \A s : s = starters[p] => StarterFits(s)'
         /\ \A p, q \in Starter : \A s, t :
              p # q /\ s = starters[p] /\ t = starters[q] => PairFits(s, t)'
<1>1. Exists(FirstRow)' BY KnownTypes DEF KeepInv, RowsStay
<1>2. RunningScanKeepsItsRow'
  <2> SUFFICES ASSUME run'.phase # "closed" PROVE Exists(run.scan)' \/ IsContested(run.scan)'
    BY DEF RunningScanKeepsItsRow, Exists, IsContested
  <2>1. run.phase # "closed" /\ run'.scan = run.scan BY DEF RunStays
  <2>2. PICK r \in Row : r = run.scan BY <2>1, KnownTypes
  <2>3. Exists(r) \/ IsContested(r) BY <2>1, <2>2 DEF KeepInv, RunningScanKeepsItsRow
  <2>4. Exists(r)' \/ IsContested(r)' BY <2>3, ContestStays DEF RowsStay
  <2>. QED BY <2>1, <2>2, <2>4 DEF Exists, IsContested
<1>3. ASSUME NEW p \in Starter, NEW s, s = starters[p] PROVE StarterFits(s)'
  <2>1. StarterFits(s) BY <1>3 DEF KeepInv
  <2>2. s.pc = "start" => Exists(s.scan)' \/ IsContested(s.scan)'
    <3>1. s.pc = "start" => s.scan \in Row BY <1>3, KnownTypes
    <3>. QED BY <2>1, <3>1, ContestStays DEF StarterFits, RowsStay
  <2>3. MayDrop(s) /\ IsRunning(s.scan)' => IsContested(s.scan)'
    <3>1. MayDrop(s) => s.scan \in Row BY <1>3, KnownTypes DEF MayDrop
    <3>2. IsRunning(s.scan)' => IsRunning(s.scan) BY DEF IsRunning, RunStays
    <3>. QED BY <2>1, <3>1, <3>2, ContestStays DEF StarterFits
  <2>. QED BY <2>1, <2>2, <2>3 DEF StarterFits, MayDrop
<1>4. ASSUME NEW p \in Starter, NEW q \in Starter, NEW s, NEW t, p # q, s = starters[p], t = starters[q]
      PROVE  PairFits(s, t)'
  <2>1. PairFits(s, t) BY <1>4 DEF KeepInv
  <2>2. MayDrop(s) => s.scan \in Row BY <1>4, KnownTypes DEF MayDrop
  <2>. QED BY <2>1, <2>2, ContestStays DEF PairFits, MayDrop, MayStart
<1>. QED BY <1>1, <1>2, <1>3, <1>4

\* A row that a call has not settled is contested from when another call takes it up.
TakesUp(p, s) ==
  MayStart(s) => \A q \in Starter \ {p} : MayDrop(starters[q]) /\ starters[q].scan = s.scan
                                             => IsContested(s.scan)'

\* A call that has just inserted a row holds it alone.
HoldsAlone(p, s) ==
  MayDrop(s) => \A q \in Starter \ {p} : MayStart(starters[q]) /\ starters[q].scan = s.scan
                                            => IsContested(s.scan)'

\* Such a step that moves one starter keeps the invariant, if the starter fits.
LEMMA MovingKeeps ==
  ASSUME IInv, KeepInv, RowsStay, PastGrows, RunStays, NEW p \in Starter, NEW s,
         starters' = [starters EXCEPT ![p] = s],
         p = Creator => CreatorFits(s), StarterFits(s)', TakesUp(p, s), HoldsAlone(p, s)
  PROVE  KeepInv'
<1>1. Exists(FirstRow)' /\ RunningScanKeepsItsRow' BY StayingKeeps
<1>2. /\ starters'[p] = s
      /\ \A q \in Starter : q # p => starters'[q] = starters[q]
  BY KnownTypes
<1>3. CreatorFits(starters[Creator])' BY <1>2, KnownTypes DEF KeepInv, CreatorFits
<1>4. ASSUME NEW q \in Starter PROVE StarterFits(starters[q])'
  <2>1. PICK t : t = starters'[q] OBVIOUS
  <2>2. StarterFits(t)'
    <3>1. CASE q = p BY <1>2, <2>1, <3>1
    <3>2. CASE q # p BY <1>2, <2>1, <3>2, StayingKeeps
    <3>. QED BY <3>1, <3>2
  <2>. QED BY <2>1, <2>2 DEF StarterFits, MayDrop, Exists, IsContested, IsRunning
<1>5. ASSUME NEW q \in Starter, NEW o \in Starter, q # o PROVE PairFits(starters[q], starters[o])'
  <2>1. PICK t, u : t = starters'[q] /\ u = starters'[o] OBVIOUS
  <2>2. PairFits(t, u)'
    <3>1. CASE q = p
      <4>1. t = s /\ u = starters[o] BY <1>2, <1>5, <2>1, <3>1
      <4>. QED BY <1>5, <3>1, <4>1 DEF PairFits, HoldsAlone, MayDrop, MayStart
    <3>2. CASE o = p
      <4>1. u = s /\ t = starters[q] BY <1>2, <1>5, <2>1, <3>2
      <4>. QED BY <1>5, <3>2, <4>1 DEF PairFits, TakesUp, MayDrop, MayStart
    <3>3. CASE q # p /\ o # p
      <4>1. t = starters[q] /\ u = starters[o] BY <1>2, <2>1, <3>3
      <4>. QED BY <1>5, <4>1, StayingKeeps
    <3>. QED BY <3>1, <3>2, <3>3
  <2>. QED BY <2>1, <2>2 DEF PairFits, MayDrop, MayStart, IsContested
<1>. QED BY <1>1, <1>3, <1>4, <1>5 DEF KeepInv

\* So does one that moves none,
LEMMA QuietKeeps ==
  ASSUME IInv, KeepInv, RowsStay, PastGrows, RunStays, UNCHANGED starters PROVE KeepInv'
<1>1. Exists(FirstRow)' /\ RunningScanKeepsItsRow' BY StayingKeeps
<1>2. CreatorFits(starters[Creator])' BY DEF KeepInv, CreatorFits
<1>3. ASSUME NEW q \in Starter PROVE StarterFits(starters[q])'
  <2>1. PICK t : t = starters[q] OBVIOUS
  <2>2. StarterFits(t)' BY <2>1, StayingKeeps
  <2>. QED BY <2>1, <2>2 DEF StarterFits, MayDrop, Exists, IsContested, IsRunning
<1>4. ASSUME NEW q \in Starter, NEW o \in Starter, q # o PROVE PairFits(starters[q], starters[o])'
  <2>1. PICK t, u : t = starters[q] /\ u = starters[o] OBVIOUS
  <2>2. PairFits(t, u)' BY <1>4, <2>1, StayingKeeps
  <2>. QED BY <2>1, <2>2 DEF PairFits, MayDrop, MayStart, IsContested
<1>. QED BY <1>1, <1>2, <1>3, <1>4 DEF KeepInv

\* one that moves a starter to where it neither starts nor drops a row,
LEMMA RestingKeeps ==
  ASSUME IInv, KeepInv, RowsStay, PastGrows, RunStays, NEW p \in Starter, NEW s,
         starters' = [starters EXCEPT ![p] = s], p = Creator => CreatorFits(s),
         ~MayDrop(s), ~MayStart(s)
  PROVE  KeepInv'
<1>1. StarterFits(s)' BY DEF StarterFits, MayDrop, MayStart
<1>2. TakesUp(p, s) /\ HoldsAlone(p, s) BY DEF TakesUp, HoldsAlone
<1>. QED BY <1>1, <1>2, MovingKeeps

\* and one after which a starter is done.
LEMMA FinishKeeps ==
  ASSUME IInv, KeepInv, RowsStay, PastGrows, RunStays, NEW p \in Starter, Finish(p) PROVE KeepInv'
<1>1. IdleStarter.pc = "idle" BY IdleStarterTyped
<1>2. CreatorFits(IdleStarter) /\ ~MayDrop(IdleStarter) /\ ~MayStart(IdleStarter)
  BY <1>1 DEF CreatorFits, MayDrop, MayStart
<1>. QED BY <1>2, RestingKeeps DEF Finish

\* The creator never selects, writes or drops.
LEMMA CreatorNeverWrites ==
  ASSUME KeepInv, NEW p \in Starter, starters[p].pc \in {"select", "write"} \/ MayDrop(starters[p])
  PROVE  p # Creator
BY DEF KeepInv, CreatorFits, MayDrop

\* A start is rejected, or does not reach Temporal: the starter settles.
LEMMA UnansweredKeeps ==
  ASSUME IInv, KeepInv, NEW p \in Starter, StartRejected(p) \/ StartLost(p)
  PROVE  KeepInv'
<1>1. starters[p].pc = "start" /\ UNCHANGED <<rows, past, run>>
  BY DEF StartRejected, StartLost, runVars
<1>2. RowsStay /\ PastGrows /\ RunStays BY <1>1 DEF RowsStay, Exists, PastGrows, RunStays
<1>3. PICK old : old = starters[p] OBVIOUS
<1>4. PICK answer \in {"running", "error", "deadline"} : Answer(p, answer) BY DEF StartRejected, StartLost
<1> DEFINE new == [old EXCEPT !.pc = "settle", !.answer = answer]
<1>5. old \in StarterState BY <1>3, KnownTypes
<1>6. new.pc = "settle" /\ new.scan = old.scan /\ new.isExisting = old.isExisting BY <1>5 DEF StarterState
<1>7. starters' = [starters EXCEPT ![p] = new] BY <1>3, <1>4 DEF Answer
<1> HIDE DEF new
<1>8. ~MayStart(new) /\ (MayDrop(new) => MayDrop(old)) BY <1>1, <1>3, <1>6 DEF MayStart, MayDrop
<1>9. p = Creator => CreatorFits(new) BY <1>1, <1>3, <1>6 DEF KeepInv, CreatorFits
<1>10. StarterFits(new)'
  <2>1. StarterFits(old)' BY <1>2, <1>3, StayingKeeps
  <2>2. MayDrop(new)' => MayDrop(old)' BY <1>8 DEF MayDrop
  <2>. QED BY <1>6, <2>1, <2>2 DEF StarterFits
<1>11. TakesUp(p, new) BY <1>8 DEF TakesUp
<1>12. HoldsAlone(p, new)
  <2> SUFFICES ASSUME MayDrop(new), NEW q \in Starter \ {p}, NEW t, t = starters[q], MayStart(t), t.scan = new.scan
               PROVE  IsContested(new.scan)'
    BY DEF HoldsAlone
  <2>1. PairFits(old, t)' BY <1>2, <1>3, StayingKeeps
  <2>. QED BY <1>6, <1>8, <2>1 DEF PairFits, MayDrop, MayStart
<1>. QED BY <1>2, <1>7, <1>9, <1>10, <1>11, <1>12, MovingKeeps

\* Temporal accepts a start: the row is there or contested, and whoever may still drop it
\* has contested it.
LEMMA AcceptedKeeps ==
  ASSUME IInv, KeepInv, PastGrows, NEW p \in Starter, StartAccepted(p) PROVE KeepInv'
<1>1. PICK old : old = starters[p] OBVIOUS
<1>2. /\ old.pc = "start" /\ UNCHANGED rows
      /\ run'.scan = old.scan
  BY <1>1 DEF StartAccepted, ClosedRun
<1>3. RowsStay BY <1>2 DEF RowsStay, Exists
<1>4. PICK answer \in {"started", "error", "deadline"} :
        Answer(p, answer) /\ (answer = "error" => Note(old.scan, "cut"))
  BY <1>1 DEF StartAccepted
<1> DEFINE new == [old EXCEPT !.pc = "settle", !.answer = answer]
<1>5. old \in StarterState /\ old.scan \in Row /\ past \in [Row -> SUBSET Mark]
  BY <1>1, <1>2, KnownTypes DEF IInv, TypeOK
<1>6. new.pc = "settle" /\ new.answer = answer /\ new.scan = old.scan /\ new.isExisting = old.isExisting
  BY <1>5 DEF StarterState
<1>7. starters' = [starters EXCEPT ![p] = new] BY <1>1, <1>4 DEF Answer
<1> HIDE DEF new
<1>8. /\ starters'[p] = new
      /\ \A q \in Starter : q # p => starters'[q] = starters[q]
  BY <1>7, KnownTypes
<1>9. StarterFits(old) BY <1>1 DEF KeepInv
<1>10. Exists(old.scan)' \/ IsContested(old.scan)'
  BY <1>2, <1>3, <1>5, <1>9, ContestStays DEF StarterFits, RowsStay
<1>11. MayDrop(new) => MayDrop(old) /\ IsContested(old.scan)'
  <2>1. MayDrop(new) => answer = "error" /\ ~old.isExisting BY <1>4, <1>6 DEF MayDrop
  <2>2. answer = "error" => "cut" \in past'[old.scan] BY <1>4, <1>5 DEF Note
  <2>. QED BY <1>2, <2>1, <2>2 DEF MayDrop, IsContested
<1>12. Exists(FirstRow)' BY <1>3, KnownTypes DEF KeepInv, RowsStay
<1>13. RunningScanKeepsItsRow' BY <1>2, <1>10 DEF RunningScanKeepsItsRow, Exists, IsContested
<1>14. CreatorFits(starters[Creator])'
  BY <1>1, <1>2, <1>6, <1>8, KnownTypes DEF KeepInv, CreatorFits
<1>15. ASSUME NEW q \in Starter PROVE StarterFits(starters[q])'
  <2>1. PICK t : t = starters'[q] OBVIOUS
  <2>2. CASE q = p
    <3>1. t = new BY <1>8, <2>1, <2>2
    <3>2. MayDrop(new) => new.scan # FirstRow /\ IsContested(new.scan)'
      BY <1>6, <1>9, <1>11 DEF StarterFits
    <3>3. StarterFits(t)' BY <1>6, <3>1, <3>2 DEF StarterFits, MayDrop
    <3>. QED BY <2>1, <3>3 DEF StarterFits, MayDrop, Exists, IsContested, IsRunning
  <2>3. CASE q # p
    <3>1. t = starters[q] BY <1>8, <2>1, <2>3
    <3>2. StarterFits(t) BY <3>1 DEF KeepInv
    <3>3. t.pc = "start" => t.scan \in Row BY <3>1, KnownTypes
    <3>4. t.pc = "start" => Exists(t.scan)' \/ IsContested(t.scan)'
      BY <1>3, <3>2, <3>3, ContestStays DEF StarterFits, RowsStay
    <3>5. MayDrop(t) /\ t.scan = old.scan => IsContested(old.scan)
      BY <1>1, <1>2, <2>3, <3>1 DEF KeepInv, PairFits, MayStart
    <3>6. MayDrop(t) /\ IsRunning(t.scan)' => IsContested(t.scan)'
      BY <1>2, <1>5, <3>5, ContestStays DEF IsRunning
    <3>7. StarterFits(t)' BY <3>2, <3>4, <3>6 DEF StarterFits, MayDrop
    <3>. QED BY <2>1, <3>7 DEF StarterFits, MayDrop, Exists, IsContested, IsRunning
  <2>. QED BY <2>2, <2>3
<1>16. ASSUME NEW q \in Starter, NEW o \in Starter, q # o PROVE PairFits(starters[q], starters[o])'
  <2>1. PICK t, u : t = starters'[q] /\ u = starters'[o] OBVIOUS
  <2>2. CASE q = p
    <3>1. t = new BY <1>8, <2>1, <2>2
    <3>2. PairFits(t, u)' BY <1>6, <1>11, <3>1 DEF PairFits, MayDrop
    <3>. QED BY <2>1, <3>2 DEF PairFits, MayDrop, MayStart, IsContested
  <2>3. CASE o = p
    <3>1. u = new BY <1>8, <2>1, <2>3
    <3>2. PairFits(t, u)' BY <1>6, <3>1 DEF PairFits, MayStart
    <3>. QED BY <2>1, <3>2 DEF PairFits, MayDrop, MayStart, IsContested
  <2>4. CASE q # p /\ o # p
    <3>1. t = starters[q] /\ u = starters[o] BY <1>8, <2>1, <2>4
    <3>2. PairFits(t, u) BY <1>16, <3>1 DEF KeepInv
    <3>3. MayDrop(t) => t.scan \in Row BY <3>1, KnownTypes DEF MayDrop
    <3>4. PairFits(t, u)' BY <3>2, <3>3, ContestStays DEF PairFits, MayDrop, MayStart
    <3>. QED BY <2>1, <3>4 DEF PairFits, MayDrop, MayStart, IsContested
  <2>. QED BY <2>2, <2>3, <2>4
<1>. QED BY <1>12, <1>13, <1>14, <1>15, <1>16 DEF KeepInv

\* A starter that may still drop its row is opening it.
LEMMA DropperIsOpening ==
  ASSUME NEW q \in Starter, NEW r, MayDrop(starters[q]), starters[q].scan = r PROVE IsBeingOpened(r)
BY DEF MayDrop, IsBeingOpened

\* startTopicScan reads an open row, takes it or inserts one.
LEMMA OpeningKeeps ==
  ASSUME IInv, KeepInv, PastGrows, NEW p \in Starter,
         SelectOpenScan(p) \/ TakeOpenScan(p) \/ InsertScan(p)
  PROVE  KeepInv'
<1>1. p # Creator BY CreatorNeverWrites DEF SelectOpenScan, TakeOpenScan, InsertScan
<1>2. PICK old : old = starters[p] OBVIOUS
<1>3. old \in StarterState /\ RowsTyped /\ StarterFits(old) BY <1>2, KnownTypes DEF KeepInv
<1>4. RunStays BY DEF RunStays, SelectOpenScan, TakeOpenScan, InsertScan, runVars
<1>5. CASE SelectOpenScan(p)
  <2>1. PICK r \in Row \cup {NoRow} :
          /\ starters' = [starters EXCEPT ![p].pc = "write", ![p].scan = r, ![p].isExisting = r # NoRow]
          /\ NoteIf(r # NoRow /\ IsBeingOpened(r), r, "shared")
    BY <1>5 DEF SelectOpenScan
  <2> DEFINE new == [old EXCEPT !.pc = "write", !.scan = r, !.isExisting = r # NoRow]
  <2>2. new.pc = "write" /\ new.scan = r /\ new.isExisting = (r # NoRow) BY <1>3 DEF StarterState
  <2>3. starters' = [starters EXCEPT ![p] = new] BY <1>2, <2>1
  <2> HIDE DEF new
  <2>4. RowsStay BY <1>5 DEF SelectOpenScan, RowsStay, Exists
  <2>5. ~MayDrop(new) BY <2>2 DEF MayDrop
  <2>6. StarterFits(new)' BY <2>2, <2>5 DEF StarterFits, MayDrop
  <2>7. HoldsAlone(p, new) BY <2>5 DEF HoldsAlone
  <2>8. TakesUp(p, new)
    <3> SUFFICES ASSUME NEW q \in Starter \ {p}, MayDrop(starters[q]), starters[q].scan = r
                 PROVE  IsContested(r)'
      BY <2>2 DEF TakesUp
    <3>1. r \in Row /\ r # NoRow BY KnownTypes DEF MayDrop
    <3>2. IsBeingOpened(r) BY DropperIsOpening
    <3>3. Note(r, "shared") /\ past \in [Row -> SUBSET Mark] BY <2>1, <3>1, <3>2 DEF NoteIf, IInv, TypeOK
    <3>. QED BY <3>1, <3>3 DEF Note, IsContested
  <2>. QED BY <1>1, <1>4, <2>3, <2>4, <2>6, <2>7, <2>8, MovingKeeps
<1>6. CASE TakeOpenScan(p)
  <2> DEFINE r == old.scan
             row == [rows[r] EXCEPT !.isManual = old.trigger = "manual"]
             new == [old EXCEPT !.pc = "start"]
  <2>1. old.pc = "write" /\ r # NoRow /\ Exists(r) /\ Update(r, row) /\ starters' = [starters EXCEPT ![p] = new]
    BY <1>2, <1>6 DEF TakeOpenScan
  <2>2. r \in Row BY <1>2, <2>1, KnownTypes
  <2>3. row \in ScanRow /\ row.status = rows[r].status BY <1>3, <2>2 DEF RowsTyped, ScanRow
  <2>4. new.pc = "start" /\ new.scan = r /\ new.isExisting = old.isExisting BY <1>3 DEF StarterState
  <2> HIDE DEF row, new
  <2>5. RowsStay BY <1>3, <2>1, <2>2, <2>3, UpdateKeepsRows DEF Exists
  <2>6. Exists(r)' BY <2>1, <2>2, <2>5 DEF RowsStay
  <2>7. ~MayDrop(new) BY <1>3, <2>1, <2>4 DEF MayDrop, StarterFits
  <2>8. StarterFits(new)' BY <2>4, <2>6, <2>7 DEF StarterFits, MayDrop
  <2>9. HoldsAlone(p, new) BY <2>7 DEF HoldsAlone
  <2>10. TakesUp(p, new)
    <3> SUFFICES ASSUME NEW q \in Starter \ {p}, NEW t, t = starters[q], MayDrop(t), t.scan = r
                 PROVE  IsContested(r)'
      BY <2>4 DEF TakesUp
    <3>1. PairFits(t, old) BY <1>2 DEF KeepInv
    <3>. QED BY <2>1, <2>2, <3>1, ContestStays DEF PairFits, MayStart
  <2>. QED BY <1>1, <1>4, <2>1, <2>5, <2>8, <2>9, <2>10, MovingKeeps
<1>7. CASE InsertScan(p)
  <2>1. PICK r \in Row : /\ rows[r].status = "unused"
                         /\ rows' = [rows EXCEPT ![r] = NewRow("running", old.trigger = "manual")]
                         /\ starters' = [starters EXCEPT ![p].pc = "start", ![p].scan = r]
    BY <1>2, <1>7 DEF InsertScan
  <2> DEFINE new == [old EXCEPT !.pc = "start", !.scan = r]
  <2>2. new.pc = "start" /\ new.scan = r BY <1>3 DEF StarterState
  <2>3. starters' = [starters EXCEPT ![p] = new] BY <1>2, <2>1
  <2> HIDE DEF new
  <2>4. RowsStay /\ Exists(r)' BY <1>3, <2>1, InsertKeepsRows
  <2>5. r # FirstRow /\ ~IsRunning(r)
    BY <2>1 DEF KeepInv, Exists, IsRunning, IInv, HeldRowsAreKnown, WorkersHoldKnownRows, KnownRow
  <2>6. ~IsRunning(r)' BY <1>7, <2>5 DEF IsRunning, InsertScan, runVars
  <2>7. StarterFits(new)' BY <2>2, <2>4, <2>5, <2>6 DEF StarterFits
  <2>8. ASSUME NEW q \in Starter, MayDrop(starters[q]) \/ MayStart(starters[q]) PROVE starters[q].scan # r
    BY <2>1, <2>8, HeldByMover, KnownTypes
  <2>9. HoldsAlone(p, new) /\ TakesUp(p, new) BY <2>2, <2>8 DEF HoldsAlone, TakesUp
  <2>. QED BY <1>1, <1>4, <2>3, <2>4, <2>7, <2>9, MovingKeeps
<1>. QED BY <1>5, <1>6, <1>7

\* What a call opened is settled: dropped, kept or marked.
LEMMA SettlingKeeps ==
  ASSUME IInv, KeepInv, NEW p \in Starter,
         WriteFails(p) \/ DropRow(p) \/ KeepRow(p) \/ MarkRow(p)
  PROVE  KeepInv'
<1>1. Finish(p) /\ UNCHANGED <<run, past>> BY DEF WriteFails, DropRow, KeepRow, MarkRow, runVars
<1>2. RunStays /\ PastGrows BY <1>1 DEF RunStays, PastGrows
<1>3. CASE WriteFails(p) \/ KeepRow(p)
  <2>1. RowsStay BY <1>3 DEF WriteFails, KeepRow, RowsStay, Exists
  <2>. QED BY <1>1, <1>2, <2>1, FinishKeeps
<1>4. CASE MarkRow(p)
  <2>1. starters[p].scan \in Row /\ MarkDispatched(starters[p].scan) BY <1>4, KnownTypes DEF MarkRow
  <2>2. RowsStay BY <2>1, KnownTypes, ClosingKeepsRows
  <2>. QED BY <1>1, <1>2, <2>2, FinishKeeps
<1>5. CASE DropRow(p)
  <2>1. PICK old : old = starters[p] OBVIOUS
  <2>2. MayDrop(old) /\ Update(old.scan, [rows[old.scan] EXCEPT !.status = "deleted"])
    BY <1>5, <2>1 DEF DropRow, IsDropped, MayDrop
  <2>3. PICK r \in Row : r = old.scan BY <2>1, <2>2, KnownTypes DEF MayDrop
  <2>4. r # FirstRow /\ (IsRunning(r) => IsContested(r)) BY <2>1, <2>2, <2>3 DEF KeepInv, StarterFits
  <2>5. \A s \in Row : s # r => rows'[s] = rows[s] BY <2>2, <2>3, KnownTypes DEF Update, RowsTyped
  <2>6. Exists(FirstRow)' BY <2>4, <2>5, KnownTypes DEF KeepInv, Exists
  <2>7. RunningScanKeepsItsRow'
    BY <1>1, <2>4, <2>5, KnownTypes DEF KeepInv, RunningScanKeepsItsRow, Exists, IsRunning, IsContested
  <2>8. /\ starters'[p] = IdleStarter
        /\ \A q \in Starter : q # p => starters'[q] = starters[q]
    BY <1>1, KnownTypes DEF Finish
  <2>9. IdleStarter.pc = "idle" BY IdleStarterTyped
  <2>10. CreatorFits(starters[Creator])' BY <2>8, <2>9, KnownTypes DEF KeepInv, CreatorFits
  <2>11. ASSUME NEW q \in Starter PROVE StarterFits(starters[q])'
    <3>1. PICK t : t = starters'[q] OBVIOUS
    <3>2. CASE q = p
      <4>1. t.pc = "idle" BY <2>8, <2>9, <3>1, <3>2
      <4>. QED BY <3>1, <4>1 DEF StarterFits, MayDrop
    <3>3. CASE q # p
      <4>1. t = starters[q] /\ StarterFits(t) BY <2>8, <3>1, <3>3 DEF KeepInv
      <4>2. t.pc = "start" => t.scan \in Row BY <4>1, KnownTypes
      <4>3. t.pc = "start" /\ t.scan = r => IsContested(r)
        BY <2>1, <2>2, <2>3, <3>3, <4>1 DEF KeepInv, PairFits, MayStart
      <4>4. t.pc = "start" => Exists(t.scan)' \/ IsContested(t.scan)'
        BY <1>1, <2>5, <4>1, <4>2, <4>3 DEF StarterFits, Exists, IsContested
      <4>5. MayDrop(t) => t.scan # FirstRow /\ (IsRunning(t.scan)' => IsContested(t.scan)')
        BY <1>1, <4>1 DEF StarterFits, IsRunning, IsContested
      <4>6. StarterFits(t)' BY <4>1, <4>4, <4>5 DEF StarterFits, MayDrop
      <4>. QED BY <3>1, <4>6 DEF StarterFits, MayDrop, Exists, IsContested, IsRunning
    <3>. QED BY <3>2, <3>3
  <2>12. ASSUME NEW q \in Starter, NEW o \in Starter, q # o PROVE PairFits(starters[q], starters[o])'
    <3>1. CASE q = p \/ o = p BY <2>8, <2>9, <3>1 DEF PairFits, MayDrop, MayStart
    <3>2. CASE q # p /\ o # p
      BY <1>1, <2>8, <2>12, <3>2 DEF KeepInv, PairFits, MayDrop, MayStart, IsContested
    <3>. QED BY <3>1, <3>2
  <2>. QED BY <2>6, <2>7, <2>10, <2>11, <2>12 DEF KeepInv
<1>. QED BY <1>3, <1>4, <1>5

\* A request closes out stale rows and is about to read an open one.
LEMMA RequestKeeps ==
  ASSUME IInv, KeepInv, NEW q \in Request, RequestScan(q) PROVE KeepInv'
<1>1. q \in Starter /\ q # Creator BY StarterAssumption DEF Starter
<1>2. RowsStay BY KnownTypes, FailStaleKeepsRows DEF RequestScan
<1>3. PastGrows /\ RunStays BY DEF RequestScan, PastGrows, RunStays, runVars
<1>4. PICK old : old = starters[q] OBVIOUS
<1> DEFINE new == [old EXCEPT !.pc = "select", !.trigger = "manual"]
<1>5. old \in StarterState BY <1>1, <1>4, KnownTypes
<1>6. new.pc = "select" BY <1>5 DEF StarterState
<1>7. starters' = [starters EXCEPT ![q] = new] BY <1>4 DEF RequestScan
<1> HIDE DEF new
<1>8. ~MayDrop(new) /\ ~MayStart(new) BY <1>6 DEF MayDrop, MayStart
<1>. QED BY <1>1, <1>2, <1>3, <1>7, <1>8, RestingKeeps

\* The creator refuses its row, or goes on with it.
LEMMA CreatorStepKeeps ==
  ASSUME IInv, KeepInv, PastGrows, FailFirstScan \/ FirstSourcesScreened PROVE KeepInv'
<1>1. starters[Creator].pc = "opened" /\ RunStays /\ Creator \in Starter
  BY KnownTypes DEF FailFirstScan, FirstSourcesScreened, RunStays, runVars
<1>2. CASE FailFirstScan
  <2>1. starters[Creator].scan \in Row /\ FailUnstarted(starters[Creator].scan) /\ Finish(Creator)
    BY <1>1, <1>2, KnownTypes DEF FailFirstScan
  <2>2. RowsStay BY <2>1, KnownTypes, ClosingKeepsRows
  <2>. QED BY <1>1, <2>1, <2>2, FinishKeeps
<1>3. CASE FirstSourcesScreened
  <2>1. PICK old : old = starters[Creator] OBVIOUS
  <2> DEFINE new == [old EXCEPT !.pc = "start"]
  <2>2. old \in StarterState /\ CreatorFits(old) BY <2>1, KnownTypes DEF KeepInv
  <2>3. new.pc = "start" /\ new.scan = old.scan /\ new.isExisting = old.isExisting BY <2>2 DEF StarterState
  <2>4. starters' = [starters EXCEPT ![Creator] = new] BY <1>3, <2>1 DEF FirstSourcesScreened
  <2> HIDE DEF new
  <2>5. CreatorFits(new) /\ new.scan = FirstRow /\ new.isExisting BY <1>1, <2>1, <2>2, <2>3 DEF CreatorFits
  <2>6. RowsStay BY <1>3 DEF FirstSourcesScreened, RowsStay, Exists
  <2>7. Exists(FirstRow)' BY <2>6, KnownTypes DEF KeepInv, RowsStay
  <2>8. StarterFits(new)' BY <2>3, <2>5, <2>7 DEF StarterFits, MayDrop
  <2>9. HoldsAlone(Creator, new) BY <2>5 DEF HoldsAlone, MayDrop
  <2>10. TakesUp(Creator, new) BY <2>5 DEF TakesUp, KeepInv, StarterFits
  <2>. QED BY <1>1, <2>4, <2>5, <2>6, <2>8, <2>9, <2>10, MovingKeeps
<1>. QED BY <1>2, <1>3

\* The sweep starts a row that it has read, and contests one whose call has not settled.
LEMMA DispatchKeeps ==
  ASSUME IInv, KeepInv, PastGrows, DispatchUndispatched PROVE KeepInv'
<1>1. RowsStay /\ RunStays BY DEF DispatchUndispatched, RowsStay, Exists, RunStays, runVars
<1>2. PICK u \in undispatched :
        IF rows[u.scan].status = "running"
        THEN /\ starters' = [starters EXCEPT ![Sweep] = [IdleStarter EXCEPT
                !.pc = "start", !.scan = u.scan, !.isExisting = TRUE,
                !.trigger = IF u.isManual THEN "manual" ELSE "scheduled"]]
             /\ NoteIf(IsBeingOpened(u.scan), u.scan, "shared")
        ELSE UNCHANGED starters
  BY DEF DispatchUndispatched
<1>3. CASE rows[u.scan].status # "running" BY <1>1, <1>2, <1>3, QuietKeeps
<1>4. CASE rows[u.scan].status = "running"
  <2> DEFINE new == [IdleStarter EXCEPT !.pc = "start", !.scan = u.scan, !.isExisting = TRUE,
                                        !.trigger = IF u.isManual THEN "manual" ELSE "scheduled"]
  <2>1. new.pc = "start" /\ new.scan = u.scan /\ new.isExisting BY DEF IdleStarter
  <2>2. starters' = [starters EXCEPT ![Sweep] = new] BY <1>2, <1>4
  <2> HIDE DEF new
  <2>3. PICK r \in Row : r = u.scan BY DEF IInv, HeldRowsAreKnown, SweepHoldsKnownRows, KnownRow
  <2>4. Exists(r)' BY <1>1, <1>4, <2>3 DEF Exists, RowsStay
  <2>5. ~MayDrop(new) BY <2>1 DEF MayDrop
  <2>6. StarterFits(new)' BY <2>1, <2>3, <2>4, <2>5 DEF StarterFits, MayDrop
  <2>7. HoldsAlone(Sweep, new) BY <2>5 DEF HoldsAlone
  <2>8. TakesUp(Sweep, new)
    <3> SUFFICES ASSUME NEW q \in Starter \ {Sweep}, MayDrop(starters[q]), starters[q].scan = r
                 PROVE  IsContested(r)'
      BY <2>1, <2>3 DEF TakesUp
    <3>1. IsBeingOpened(r) BY DropperIsOpening
    <3>2. Note(r, "shared") /\ past \in [Row -> SUBSET Mark]
      BY <1>2, <1>4, <2>3, <3>1 DEF NoteIf, IInv, TypeOK
    <3>. QED BY <3>2 DEF Note, IsContested
  <2>. QED BY <1>1, <2>2, <2>6, <2>7, <2>8, KnownTypes, StarterAssumption, MovingKeeps
<1>. QED BY <1>3, <1>4

\* The other stages of the sweep hold no row to start.
LEMMA SweepStepKeeps == ASSUME IInv, KeepInv, PastGrows, SweepStep PROVE KeepInv'
<1>1. RunStays
  BY DEF RunStays, runVars, SweepStep, BeginSweep, RefuseUndispatched, DispatchUndispatched, SweepStale,
         SkipTopic, StartScheduled, CheckOverBudget, SaveFailedScan
<1>2. \A u \in undispatched : u.scan \in Row
  BY DEF IInv, HeldRowsAreKnown, SweepHoldsKnownRows, KnownRow
<1>3. CASE UNCHANGED <<rows, starters>>
  <2>1. RowsStay BY <1>3 DEF RowsStay, Exists
  <2>. QED BY <1>1, <1>3, <2>1, QuietKeeps
<1>4. CASE RefuseUndispatched
  <2>1. RowsStay BY <1>2, <1>4, KnownTypes, ClosingKeepsRows DEF RefuseUndispatched
  <2>. QED BY <1>1, <1>4, <2>1, QuietKeeps DEF RefuseUndispatched
<1>5. CASE DispatchUndispatched BY <1>5, DispatchKeeps
<1>6. CASE SweepStale
  <2>1. RowsStay BY <1>6, KnownTypes, FailStaleKeepsRows DEF SweepStale
  <2>. QED BY <1>1, <1>6, <2>1, QuietKeeps DEF SweepStale
<1>7. CASE StartScheduled
  <2>1. PICK old : old = starters[Sweep] OBVIOUS
  <2> DEFINE new == [old EXCEPT !.pc = "select"]
  <2>2. old \in StarterState BY <2>1, KnownTypes
  <2>3. new.pc = "select" BY <2>2 DEF StarterState
  <2>4. starters' = [starters EXCEPT ![Sweep] = new] BY <1>7, <2>1 DEF StartScheduled
  <2> HIDE DEF new
  <2>5. ~MayDrop(new) /\ ~MayStart(new) BY <2>3 DEF MayDrop, MayStart
  <2>6. RowsStay BY <1>7 DEF StartScheduled, RowsStay, Exists
  <2>. QED BY <1>1, <2>4, <2>5, <2>6, KnownTypes, StarterAssumption, RestingKeeps
<1>8. CASE SaveFailedScan
  <2>1. RowsStay
    <3>1. CASE UNCHANGED rows BY <3>1 DEF RowsStay, Exists
    <3>2. CASE \E r \in Row : rows' = [rows EXCEPT ![r] = NewRow("failed", FALSE)]
      BY <3>2, KnownTypes, InsertKeepsRows
    <3>. QED BY <1>8, <3>1, <3>2 DEF SaveFailedScan
  <2>. QED BY <1>1, <1>8, <2>1, QuietKeeps DEF SaveFailedScan
<1>. QED BY <1>3, <1>4, <1>5, <1>6, <1>7, <1>8
     DEF SweepStep, BeginSweep, SkipTopic, CheckOverBudget

\* An activity, a stray, a stop and time drop no row.
LEMMA WorkKeeps ==
  ASSUME IInv, KeepInv, PastGrows,
         \/ WorkerStep \/ \E s \in strays : StrayRuns(s) \/ StrayDies(s)
         \/ DescribeRun \/ CancelRun \/ DeleteTopic \/ \E r \in Row : WindowPasses(r)
  PROVE  KeepInv'
<1>1. UNCHANGED starters
  BY DEF WorkerStep, IngestPicksUp, IngestRuns, IngestReturns, ReviewStarts, ReviewReturns,
         StageFails, FinishCloses, FailCloses, StopCloses, ClosingFails, CancelLands, Announce,
         StrayRuns, StrayDies, DescribeRun, CancelRun, DeleteTopic, WindowPasses
<1>2. RunStays
  <2>1. run \in Run BY KnownTypes
  <2>2. ClosedRun.phase = "closed" BY ClosedRunTyped
  <2>3. CASE UNCHANGED run BY <2>3 DEF RunStays
  <2>4. CASE WorkerStep
    <3>1. run.phase # "closed"
      BY <2>4 DEF WorkerStep, IngestPicksUp, IngestRuns, IngestReturns, ReviewStarts, ReviewReturns,
         StageFails, FinishCloses, FailCloses, StopCloses, ClosingFails, CancelLands, Announce,
         IngestPhase, ReviewPhase
    <3>2. run' = ClosedRun \/ run'.scan = run.scan
      BY <2>1, <2>4 DEF WorkerStep, IngestPicksUp, IngestRuns, IngestReturns, ReviewStarts, ReviewReturns,
         StageFails, FinishCloses, FailCloses, StopCloses, ClosingFails, CancelLands, Announce,
         GoTo, EndRun, Run
    <3>. QED BY <2>2, <3>1, <3>2 DEF RunStays
  <2>5. CASE CancelRun
    <3>1. run' = run \/ run' = [run EXCEPT !.isCancelled = TRUE] BY <2>5 DEF CancelRun
    <3>. QED BY <2>1, <3>1 DEF RunStays, Run
  <2>. QED BY <2>3, <2>4, <2>5 DEF StrayRuns, StrayDies, DescribeRun, DeleteTopic, WindowPasses, runVars
<1>3. RowsStay
  <2>1. CASE UNCHANGED rows BY <2>1 DEF RowsStay, Exists
  <2>2. CASE WorkerStep
    <3>1. CASE UNCHANGED rows BY <2>1, <3>1
    <3>2. CASE ~UNCHANGED rows
      <4>1. /\ run.phase # "closed"
            /\ PickUp(run.scan) \/ FinishWrite(run.scan, run.ingestStatus) \/ FailWrite(run.scan) \/ StopWrite(run.scan)
        BY <2>2, <3>2 DEF WorkerStep, IngestPicksUp, IngestRuns, IngestReturns, ReviewStarts, ReviewReturns,
           StageFails, FinishCloses, FailCloses, StopCloses, ClosingFails, CancelLands, Announce
      <4>2. run.scan \in Row /\ run.ingestStatus \in Outcome BY <4>1, KnownTypes DEF Run
      <4>. QED BY <4>1, <4>2, KnownTypes, ClosingKeepsRows
    <3>. QED BY <3>1, <3>2
  <2>3. CASE \E s \in strays : StrayRuns(s)
    <3>1. PICK s \in strays : StrayRuns(s) BY <2>3
    <3>2. s.scan \in Row /\ s.ingestStatus \in Outcome BY DEF IInv, TypeOK, Stray
    <3>3. UNCHANGED rows \/ PickUp(s.scan) \/ FinishWrite(s.scan, s.ingestStatus) \/ FailWrite(s.scan) \/ StopWrite(s.scan)
      BY <3>1 DEF StrayRuns
    <3>. QED BY <2>1, <3>2, <3>3, KnownTypes, ClosingKeepsRows
  <2>4. CASE \E r \in Row : WindowPasses(r)
    <3>1. PICK r \in Row : rows' = [rows EXCEPT ![r].isOverdue = TRUE] BY <2>4 DEF WindowPasses
    <3>2. \A s \in Row : rows'[s].status = rows[s].status BY <3>1, KnownTypes DEF RowsTyped, ScanRow
    <3>. QED BY <3>2 DEF RowsStay, Exists
  <2>. QED BY <2>1, <2>2, <2>3, <2>4 DEF StrayDies, DescribeRun, CancelRun, DeleteTopic
<1>. QED BY <1>1, <1>2, <1>3, QuietKeeps

\* A crash forgets what its starter held.
LEMMA CrashKeeps ==
  ASSUME IInv, KeepInv, NEW p \in Starter, Crash(p) PROVE KeepInv'
<1>1. RowsStay /\ PastGrows /\ RunStays BY DEF Crash, RowsStay, Exists, PastGrows, RunStays, runVars
<1>. QED BY <1>1, FinishKeeps DEF Crash

\* Every step keeps the row of a workflow that has not ended, unless it is contested.
LEMMA KeepNext == IInv /\ KeepInv /\ [Next]_vars => KeepInv'
<1> SUFFICES ASSUME IInv, KeepInv, [Next]_vars PROVE KeepInv' OBVIOUS
<1>1. PastGrows BY NextHolds DEF RowsAndPastMove, PastMoves, PastGrows, vars
<1>2. CASE \E p \in Starter : StarterStep(p)
  BY <1>1, <1>2, OpeningKeeps, AcceptedKeeps, UnansweredKeeps, SettlingKeeps DEF StarterStep
<1>3. CASE \E p \in Starter : Crash(p) BY <1>3, CrashKeeps
<1>4. CASE UNCHANGED vars
  <2>1. UNCHANGED <<rows, starters, run>> BY <1>4 DEF vars, runVars
  <2>2. RowsStay /\ RunStays BY <2>1 DEF RowsStay, Exists, RunStays
  <2>. QED BY <1>1, <2>1, <2>2, QuietKeeps
<1>. QED BY <1>1, <1>2, <1>3, <1>4, RequestKeeps, CreatorStepKeeps, SweepStepKeeps, WorkKeeps DEF Next

\* The creator's row is there when the Topic is.
LEMMA KeepInit == Init => KeepInv
<1> SUFFICES ASSUME Init PROVE KeepInv OBVIOUS
<1> DEFINE first == [IdleStarter EXCEPT !.pc = "opened", !.scan = FirstRow, !.isExisting = TRUE,
                                        !.trigger = "creation"]
<1>1. first.pc = "opened" /\ first.scan = FirstRow /\ first.isExisting BY DEF IdleStarter
<1> HIDE DEF first
<1>2. starters = [p \in Starter |-> IF p = Creator THEN first ELSE IdleStarter] BY DEF Init, first
<1>3. Creator \in Starter BY DEF Starter
<1>4. NewRow("running", FALSE).status = "running" BY NewRowTyped DEF Status
<1>5. Exists(FirstRow) BY <1>4, RowAssumption DEF Init, Exists
<1>6. RunningScanKeepsItsRow BY ClosedRunTyped DEF Init, RunningScanKeepsItsRow
<1>7. CreatorFits(starters[Creator]) BY <1>1, <1>2, <1>3 DEF CreatorFits
<1>8. ASSUME NEW p \in Starter PROVE ~MayDrop(starters[p]) /\ ~MayStart(starters[p])
  BY <1>1, <1>2, IdleStarterTyped DEF MayDrop, MayStart
<1>9. \A p \in Starter : StarterFits(starters[p]) BY <1>8 DEF StarterFits, MayStart
<1>10. \A p, q \in Starter : p # q => PairFits(starters[p], starters[q]) BY <1>8 DEF PairFits
<1>. QED BY <1>5, <1>6, <1>7, <1>9, <1>10 DEF KeepInv

\* However starts are lost, rejected or answered late, scanTopic drops the row of a
\* workflow that has not ended only where a second caller had taken the row up before the
\* one that inserted it had its answer, or a connection broke after the start.
THEOREM WorkflowKeepsItsRow == Spec => []RunningScanKeepsItsRow
<1>1. KeepInv => RunningScanKeepsItsRow BY DEF KeepInv
<1>2. Init => KeepInv BY KeepInit
<1>3. IInv /\ KeepInv /\ [Next]_vars => KeepInv' BY KeepNext
<1>. QED BY <1>1, <1>2, <1>3, Invariance, PTL DEF Spec


-----------------------------------------------------------------------------
(* ScanLifecycle implements ScanPromise.                                    *)
(*                                                                         *)
(* A step of the rows maps to a step of the promise by what it does to the *)
(* statuses and to the announcements.  The invariant IInv is needed twice: *)
(* the workflow announces only the row that finishScan has closed, and a   *)
(* caller drops or ends only a row that was inserted.                      *)

-----------------------------------------------------------------------------
(* Steps as the promise sees them *)

\* Nothing new is announced.
TellsNothing == \A r \in Row : ("announced" \in past'[r]) <=> ("announced" \in past[r])

StatusesStay == \A r \in Row : rows'[r].status = rows[r].status

OthersStay(r) == \A s \in Row \ {r} : rows'[s].status = rows[s].status

Statuses == [r \in Row |-> rows[r].status]
Told == {r \in Row : "announced" \in past[r]}

\* A step of the promise, or none that it sees.
PromiseStep == Promise!Next \/ UNCHANGED <<Statuses, Told>>

\* A step that moves no status and announces nothing is not seen.
LEMMA StayingIsUnseen ==
  ASSUME StatusesStay, TellsNothing PROVE PromiseStep
<1>1. Statuses' = Statuses BY DEF StatusesStay, Statuses
<1>2. Told' = Told BY DEF TellsNothing, Told
<1> QED BY <1>1, <1>2 DEF PromiseStep

\* One row moves to another status: it opens, ends or is dropped.
LEMMA OneRowMoves ==
  ASSUME NEW r \in Row, OthersStay(r), TellsNothing,
         \/ rows[r].status = "unused" /\ rows'[r].status \in {"running", "failed"}
         \/ Exists(r) /\ rows[r].status \in Status /\ rows'[r].status \in Outcome
         \/ rows[r].status # "unused" /\ rows'[r].status = "deleted"
  PROVE  PromiseStep
<1> DEFINE status == rows'[r].status
<1>1. Statuses' = [Statuses EXCEPT ![r] = status] BY DEF OthersStay, Statuses
<1>2. Told' = Told BY DEF TellsNothing, Told
<1>3. Promise!Becomes(r, status) BY <1>1, <1>2 DEF Promise!Becomes, Statuses, Told
<1>4. Statuses[r] = rows[r].status BY DEF Statuses
<1> HIDE DEF status
<1>5. CASE rows[r].status = "unused" /\ status \in {"running", "failed"}
  <2>1. Promise!Open(r) BY <1>3, <1>4, <1>5 DEF Promise!Open, Promise!Becomes, Statuses
  <2> QED BY <2>1 DEF Promise!Next, PromiseStep
<1>6. CASE Exists(r) /\ rows[r].status \in Status /\ status \in Outcome
  <2>1. rows[r].status \in {"running"} \cup Promise!Outcome /\ status \in Promise!Outcome
    BY <1>6 DEF Exists, Status, Outcome, Promise!Outcome
  <2>2. Promise!End(r) BY <1>3, <1>4, <2>1 DEF Promise!End, Promise!Becomes, Statuses
  <2> QED BY <2>2 DEF Promise!Next, PromiseStep
<1>7. CASE rows[r].status # "unused" /\ status = "deleted"
  <2>1. Promise!Drop(r) BY <1>3, <1>4, <1>7 DEF Promise!Drop, Promise!Becomes, Statuses
  <2> QED BY <2>1 DEF Promise!Next, PromiseStep
<1> QED BY <1>5, <1>6, <1>7 DEF status

\* failStaleScans gives up the open rows whose window has run out.
LEMMA StaleRowsAreGivenUp ==
  ASSUME RowsTyped, FailStale, TellsNothing PROVE PromiseStep
<1> DEFINE stale == {r \in Row : IsStale(r)}
<1>1. \A r \in Row : rows'[r].status = IF r \in stale THEN "failed" ELSE rows[r].status
  BY DEF RowsTyped, FailStale, ClosedRow, ScanRow
<1>2. Statuses' = [r \in Row |-> IF r \in stale THEN "failed" ELSE Statuses[r]]
  BY <1>1 DEF Statuses
<1>3. Told' = Told BY DEF TellsNothing, Told
<1>4. \A r \in stale : Statuses[r] = "running" BY DEF IsStale, Statuses
<1>5. stale \in SUBSET Row OBVIOUS
<1> HIDE DEF stale
<1>6. Promise!GiveUp(stale) BY <1>2, <1>3, <1>4 DEF Promise!GiveUp, Statuses, Told
<1> QED BY <1>5, <1>6 DEF Promise!GiveUp, Promise!Next, PromiseStep

\* An UPDATE that keeps the status of its row is not seen.
LEMMA UpdateIsUnseen ==
  ASSUME RowsTyped, NEW r \in Row, NEW row \in ScanRow, Update(r, row),
         row.status = rows[r].status, TellsNothing
  PROVE  PromiseStep
<1>1. StatusesStay BY DEF RowsTyped, Update, StatusesStay
<1> QED BY <1>1, StayingIsUnseen

\* An UPDATE that ends its row is an End, or finds no row.
LEMMA ClosingIsEnd ==
  ASSUME RowsTyped, NEW r \in Row, NEW row \in ScanRow, Update(r, row),
         row.status \in Outcome, TellsNothing
  PROVE  PromiseStep
<1>1. CASE Exists(r)
  <2>1. OthersStay(r) /\ rows'[r].status = row.status
    BY <1>1 DEF RowsTyped, Update, OthersStay
  <2>2. rows[r].status \in Status BY DEF RowsTyped, ScanRow
  <2> QED BY <1>1, <2>1, <2>2, OneRowMoves
<1>2. CASE ~Exists(r)
  <2>1. StatusesStay BY <1>2 DEF Update, StatusesStay
  <2> QED BY <2>1, StayingIsUnseen
<1> QED BY <1>1, <1>2

\* finishScan's write ends its row, or finds none.
LEMMA FinishWriteIsEnd ==
  ASSUME RowsTyped, NEW r \in Row, NEW status \in Outcome, FinishWrite(r, status), TellsNothing
  PROVE  PromiseStep
BY ClosedRowTyped, ClosingIsEnd DEF FinishWrite

\* failScan's write ends its row, or finds none.
LEMMA FailWriteIsEnd ==
  ASSUME RowsTyped, NEW r \in Row, FailWrite(r), TellsNothing PROVE PromiseStep
BY ClosedRowTyped, ClosingIsEnd DEF FailWrite, Outcome

\* stopScan's write ends a row that has not finished.
LEMMA StopWriteIsEnd ==
  ASSUME RowsTyped, NEW r \in Row, StopWrite(r), TellsNothing PROVE PromiseStep
<1> DEFINE row == [ClosedRow(r, "succeeded") EXCEPT !.isStopped = TRUE]
<1>1. CASE IsClosed(r)
  <2>1. StatusesStay BY <1>1 DEF StopWrite, StatusesStay
  <2> QED BY <2>1, StayingIsUnseen
<1>2. CASE ~IsClosed(r)
  <2>1. row \in ScanRow /\ row.status \in Outcome BY ClosedRowTyped DEF ScanRow, Outcome
  <2>2. Update(r, row) BY <1>2 DEF StopWrite
  <2> HIDE DEF row
  <2> QED BY <2>1, <2>2, ClosingIsEnd
<1> QED BY <1>1, <1>2

\* A refused row ends.
LEMMA RefusalIsEnd ==
  ASSUME RowsTyped, past \in [Row -> SUBSET Mark], NEW r \in Row, FailUnstarted(r)
  PROVE  PromiseStep
<1>1. CASE IsUnstarted(r)
  <2>1. TellsNothing BY <1>1 DEF FailUnstarted, Note, TellsNothing
  <2>2. Update(r, ClosedRow(r, "failed"))
    BY <1>1 DEF FailUnstarted, Update, Exists, IsUnstarted, IsOpenUndispatched
  <2> QED BY <2>1, <2>2, ClosedRowTyped, ClosingIsEnd DEF Outcome
<1>2. CASE ~IsUnstarted(r)
  <2>1. StatusesStay /\ TellsNothing BY <1>2 DEF FailUnstarted, StatusesStay, TellsNothing
  <2> QED BY <2>1, StayingIsUnseen
<1> QED BY <1>1, <1>2

\* A pickup is not seen.
LEMMA PickUpIsUnseen ==
  ASSUME RowsTyped, NEW r \in Row, PickUp(r), TellsNothing PROVE PromiseStep
<1> DEFINE row == [rows[r] EXCEPT !.isPickedUp = TRUE, !.isOverdue = @ /\ rows[r].isPickedUp]
<1>1. row \in ScanRow /\ row.status = rows[r].status BY DEF RowsTyped, ScanRow
<1>2. Update(r, row) BY DEF PickUp
<1> HIDE DEF row
<1> QED BY <1>1, <1>2, UpdateIsUnseen

\* A mark other than "announced" announces nothing.
LEMMA OtherMarkTellsNothing ==
  ASSUME past \in [Row -> SUBSET Mark], NEW r \in Row, NEW mark, Note(r, mark), mark # "announced"
  PROVE  TellsNothing
BY DEF Note, TellsNothing

\* A step that records nothing announces nothing.
LEMMA UnchangedPastTellsNothing == ASSUME UNCHANGED past PROVE TellsNothing
BY DEF TellsNothing

\* A step that leaves the table alone moves no status.
LEMMA UnchangedRowsStay == ASSUME UNCHANGED rows PROVE StatusesStay
BY DEF StatusesStay

\* Nobody sees a contest.
LEMMA ContestIsUnseen ==
  ASSUME past \in [Row -> SUBSET Mark], OnlyContests PROVE PromiseStep
<1>1. TellsNothing
  <2>1. CASE UNCHANGED past BY <2>1, UnchangedPastTellsNothing
  <2>2. CASE \E r \in Row : Note(r, "cut") \/ Note(r, "shared") BY <2>2, OtherMarkTellsNothing
  <2> QED BY <2>1, <2>2 DEF OnlyContests
<1> QED BY <1>1, UnchangedRowsStay, StayingIsUnseen DEF OnlyContests

-----------------------------------------------------------------------------
(* Every step *)

\* Every step of startTopicScan and scanTopic keeps the promise.
LEMMA StarterKeepsPromise ==
  ASSUME IInv, NEW p \in Starter, StarterStep(p) PROVE PromiseStep
<1> DEFINE s == starters[p]
<1>0. /\ RowsTyped /\ past \in [Row -> SUBSET Mark] /\ s \in StarterState
      /\ (s.pc \in {"start", "settle"} => KnownRow(s.scan))
      /\ (s.pc = "write" => s.scan = NoRow \/ KnownRow(s.scan))
  BY DEF IInv, TypeOK, RowsTyped, HeldRowsAreKnown, StartersHoldKnownRows
<1>1. CASE UNCHANGED <<rows, past>>
  BY <1>1, UnchangedRowsStay, UnchangedPastTellsNothing, StayingIsUnseen
<1>2. ASSUME TakeOpenScan(p) PROVE PromiseStep
  <2> DEFINE r == s.scan
  <2> DEFINE row == [rows[r] EXCEPT !.isManual = s.trigger = "manual"]
  <2>1. r \in Row /\ Update(r, row) /\ UNCHANGED past
    BY <1>0, <1>2 DEF TakeOpenScan, KnownRow
  <2>2. row \in ScanRow /\ row.status = rows[r].status BY <1>0, <2>1 DEF RowsTyped, ScanRow
  <2> HIDE DEF row, r
  <2> QED BY <1>0, <2>1, <2>2, UpdateIsUnseen, UnchangedPastTellsNothing
<1>3. ASSUME InsertScan(p) PROVE PromiseStep
  <2>1. PICK r \in Row : /\ rows[r].status = "unused"
                         /\ rows' = [rows EXCEPT ![r] = NewRow("running", s.trigger = "manual")]
    BY <1>3 DEF InsertScan
  <2>2. NewRow("running", s.trigger = "manual").status = "running"
    BY DEF NewRow, UnusedRow
  <2>3. OthersStay(r) /\ rows'[r].status = "running"
    BY <1>0, <2>1, <2>2 DEF RowsTyped, OthersStay
  <2>4. TellsNothing BY <1>3, UnchangedPastTellsNothing DEF InsertScan
  <2> QED BY <2>1, <2>3, <2>4, OneRowMoves
<1>4. ASSUME SelectOpenScan(p) \/ StartAccepted(p) PROVE PromiseStep
  BY <1>0, <1>4, TakingUpContests, ContestIsUnseen DEF IInv
<1>5. ASSUME DropRow(p) PROVE PromiseStep
  <2> DEFINE r == s.scan
  <2>1. KnownRow(r) /\ UNCHANGED past /\ Update(r, [rows[r] EXCEPT !.status = "deleted"])
    BY <1>0, <1>5 DEF DropRow
  <2>2. TellsNothing BY <2>1, UnchangedPastTellsNothing
  <2>3. CASE Exists(r)
    <3>1. OthersStay(r) /\ rows'[r].status = "deleted"
      BY <1>0, <2>1, <2>3 DEF Update, RowsTyped, ScanRow, OthersStay, KnownRow
    <3> QED BY <2>1, <2>2, <3>1, OneRowMoves DEF KnownRow
  <2>4. CASE ~Exists(r)
    BY <2>1, <2>2, <2>4, UnchangedRowsStay, StayingIsUnseen DEF Update
  <2> QED BY <2>3, <2>4
<1>6. ASSUME MarkRow(p) PROVE PromiseStep
  <2> DEFINE r == s.scan
  <2> DEFINE row == [rows[r] EXCEPT !.isDispatched = TRUE, !.isOverdue = @ /\ rows[r].isPickedUp]
  <2>1. r \in Row /\ Update(r, row) /\ UNCHANGED past
    BY <1>0, <1>6 DEF MarkRow, MarkDispatched, KnownRow
  <2>2. row \in ScanRow /\ row.status = rows[r].status BY <1>0, <2>1 DEF RowsTyped, ScanRow
  <2> HIDE DEF row, r
  <2> QED BY <1>0, <2>1, <2>2, UpdateIsUnseen, UnchangedPastTellsNothing
<1>7. ASSUME WriteFails(p) \/ StartRejected(p) \/ StartLost(p) \/ KeepRow(p)
      PROVE  UNCHANGED <<rows, past>>
  BY <1>7 DEF WriteFails, StartRejected, StartLost, KeepRow
<1> QED BY <1>1, <1>2, <1>3, <1>4, <1>5, <1>6, <1>7 DEF StarterStep

\* Every step of the scheduled sweep keeps the promise.
LEMMA SweepKeepsPromise ==
  ASSUME IInv, SweepStep PROVE PromiseStep
<1>0. /\ RowsTyped /\ past \in [Row -> SUBSET Mark]
      /\ \A u \in undispatched : u.scan \in Row
  BY DEF IInv, TypeOK, RowsTyped
<1>1. CASE UNCHANGED <<rows, past>>
  BY <1>1, UnchangedRowsStay, UnchangedPastTellsNothing, StayingIsUnseen
<1>2. ASSUME RefuseUndispatched PROVE PromiseStep
  BY <1>0, <1>2, RefusalIsEnd DEF RefuseUndispatched
<1>3. ASSUME SweepStale PROVE PromiseStep
  BY <1>0, <1>3, StaleRowsAreGivenUp, UnchangedPastTellsNothing DEF SweepStale
<1>4. ASSUME SaveFailedScan PROVE PromiseStep
  <2>1. TellsNothing BY <1>4, UnchangedPastTellsNothing DEF SaveFailedScan
  <2>2. CASE UNCHANGED rows BY <2>1, <2>2, UnchangedRowsStay, StayingIsUnseen
  <2>3. ASSUME NEW r \in Row, rows[r].status = "unused",
               rows' = [rows EXCEPT ![r] = NewRow("failed", FALSE)]
        PROVE  PromiseStep
    <3>1. OthersStay(r) /\ rows'[r].status = "failed"
      BY <1>0, <2>3 DEF RowsTyped, OthersStay, NewRow, UnusedRow
    <3> QED BY <2>1, <2>3, <3>1, OneRowMoves
  <2> QED BY <1>4, <2>2, <2>3 DEF SaveFailedScan
<1>5. ASSUME BeginSweep \/ SkipTopic \/ StartScheduled \/ CheckOverBudget
      PROVE  UNCHANGED <<rows, past>>
  BY <1>5 DEF BeginSweep, SkipTopic, StartScheduled, CheckOverBudget
<1>6. ASSUME DispatchUndispatched PROVE PromiseStep
  BY <1>0, <1>6, TakingUpContests, ContestIsUnseen DEF IInv
<1> QED BY <1>1, <1>2, <1>3, <1>4, <1>5, <1>6 DEF SweepStep

\* Every step of the workflow keeps the promise: only a closed row is announced.
LEMMA WorkerKeepsPromise ==
  ASSUME IInv, WorkerStep PROVE PromiseStep
<1> DEFINE r == run.scan
<1>0. /\ RowsTyped /\ past \in [Row -> SUBSET Mark] /\ run \in Run
      /\ run.phase # "closed" => KnownRow(r)
      /\ run.phase = "announce" => rows[r].status \in Outcome \cup {"deleted"}
  BY DEF IInv, TypeOK, RowsTyped, HeldRowsAreKnown, WorkersHoldKnownRows, StagesInOrder
<1>1. CASE UNCHANGED <<rows, past>>
  BY <1>1, UnchangedRowsStay, UnchangedPastTellsNothing, StayingIsUnseen
<1>2. ASSUME IngestPicksUp PROVE PromiseStep
  BY <1>0, <1>2, PickUpIsUnseen, UnchangedPastTellsNothing DEF IngestPicksUp, KnownRow
<1>3. ASSUME IngestRuns, ~UNCHANGED past PROVE PromiseStep
  <2>1. r \in Row /\ Note(r, "ran") /\ UNCHANGED rows BY <1>0, <1>3 DEF IngestRuns, KnownRow
  <2> QED BY <1>0, <2>1, OtherMarkTellsNothing, UnchangedRowsStay, StayingIsUnseen
<1>4. ASSUME ReviewReturns PROVE PromiseStep
  <2>1. r \in Row /\ Note(r, "reviewed") /\ UNCHANGED rows
    BY <1>0, <1>4 DEF ReviewReturns, KnownRow
  <2> QED BY <1>0, <2>1, OtherMarkTellsNothing, UnchangedRowsStay, StayingIsUnseen
<1>5. ASSUME FinishCloses PROVE PromiseStep
  <2>1. r \in Row /\ FinishWrite(r, run.ingestStatus) /\ run.ingestStatus \in Outcome /\ UNCHANGED past
    BY <1>0, <1>5 DEF FinishCloses, KnownRow, Run
  <2> QED BY <1>0, <2>1, FinishWriteIsEnd, UnchangedPastTellsNothing
<1>6. ASSUME FailCloses PROVE PromiseStep
  BY <1>0, <1>6, FailWriteIsEnd, UnchangedPastTellsNothing DEF FailCloses, KnownRow
<1>7. ASSUME StopCloses PROVE PromiseStep
  BY <1>0, <1>7, StopWriteIsEnd, UnchangedPastTellsNothing DEF StopCloses, KnownRow
<1>8. ASSUME Announce, Note(r, "announced") PROVE PromiseStep
  <2>1. r \in Row /\ rows[r].status \in Outcome \cup {"deleted"} /\ UNCHANGED rows
    BY <1>0, <1>8 DEF Announce, KnownRow
  <2>2. Told' = Told \cup {r} BY <1>0, <1>8, <2>1 DEF Note, Told
  <2>3. Statuses' = Statuses BY <2>1 DEF Statuses
  <2>4. Statuses[r] \in Promise!Outcome \cup {"deleted"}
    BY <2>1 DEF Statuses, Outcome, Promise!Outcome
  <2>5. Promise!Tell(r) BY <2>2, <2>3, <2>4 DEF Promise!Tell, Statuses, Told
  <2> QED BY <2>1, <2>5 DEF Promise!Tell, Promise!Next, PromiseStep
<1>9. ASSUME \/ IngestReturns \/ ReviewStarts \/ StageFails \/ ClosingFails \/ CancelLands
             \/ IngestRuns /\ UNCHANGED past
             \/ Announce /\ ~Note(r, "announced")
      PROVE  UNCHANGED <<rows, past>>
  BY <1>9 DEF IngestReturns, ReviewStarts, StageFails, ClosingFails, CancelLands, IngestRuns, Announce
<1> QED BY <1>1, <1>2, <1>3, <1>4, <1>5, <1>6, <1>7, <1>8, <1>9 DEF WorkerStep

\* The late statement of an abandoned attempt keeps the promise.
LEMMA StrayKeepsPromise ==
  ASSUME IInv, NEW s \in strays, StrayRuns(s) \/ StrayDies(s) PROVE PromiseStep
<1>0. /\ RowsTyped /\ past \in [Row -> SUBSET Mark]
      /\ s.scan \in Row /\ s.ingestStatus \in Outcome
  BY DEF IInv, TypeOK, RowsTyped, Stray
<1>1. CASE UNCHANGED <<rows, past>>
  BY <1>1, UnchangedRowsStay, UnchangedPastTellsNothing, StayingIsUnseen
<1>2. CASE PickUp(s.scan) /\ UNCHANGED past
  BY <1>0, <1>2, PickUpIsUnseen, UnchangedPastTellsNothing
<1>3. CASE Note(s.scan, "ran") /\ UNCHANGED rows
  BY <1>0, <1>3, OtherMarkTellsNothing, UnchangedRowsStay, StayingIsUnseen
<1>4. CASE FinishWrite(s.scan, s.ingestStatus) /\ UNCHANGED past
  BY <1>0, <1>4, FinishWriteIsEnd, UnchangedPastTellsNothing
<1>5. CASE FailWrite(s.scan) /\ UNCHANGED past
  BY <1>0, <1>5, FailWriteIsEnd, UnchangedPastTellsNothing
<1>6. CASE StopWrite(s.scan) /\ UNCHANGED past
  BY <1>0, <1>6, StopWriteIsEnd, UnchangedPastTellsNothing
<1> QED BY <1>1, <1>2, <1>3, <1>4, <1>5, <1>6 DEF StrayRuns, StrayDies

\* The creator, requests, crashes, stops, deletions and stale windows keep the promise.
LEMMA OthersKeepPromise ==
  ASSUME IInv,
         \/ FailFirstScan \/ FirstSourcesScreened \/ \E q \in Request : RequestScan(q)
         \/ \E p \in Starter : Crash(p)
         \/ DescribeRun \/ CancelRun \/ DeleteTopic \/ \E r \in Row : WindowPasses(r)
  PROVE  PromiseStep
<1>0. /\ RowsTyped /\ past \in [Row -> SUBSET Mark]
      /\ starters[Creator].pc = "opened" => starters[Creator].scan \in Row
  BY DEF IInv, TypeOK, RowsTyped, HeldRowsAreKnown, StartersHoldKnownRows, KnownRow, Starter
<1>1. CASE UNCHANGED <<rows, past>>
  BY <1>1, UnchangedRowsStay, UnchangedPastTellsNothing, StayingIsUnseen
<1>2. CASE FailFirstScan BY <1>0, <1>2, RefusalIsEnd DEF FailFirstScan
<1>3. ASSUME NEW q \in Request, RequestScan(q) PROVE PromiseStep
  BY <1>0, <1>3, StaleRowsAreGivenUp, UnchangedPastTellsNothing DEF RequestScan
<1>4. ASSUME NEW r \in Row, WindowPasses(r) PROVE PromiseStep
  <2>1. StatusesStay BY <1>0, <1>4 DEF WindowPasses, StatusesStay, RowsTyped, ScanRow
  <2> QED BY <1>4, <2>1, StayingIsUnseen, UnchangedPastTellsNothing DEF WindowPasses
<1>5. ASSUME \/ FirstSourcesScreened \/ \E p \in Starter : Crash(p)
             \/ DescribeRun \/ CancelRun \/ DeleteTopic
      PROVE  UNCHANGED <<rows, past>>
  BY <1>5 DEF FirstSourcesScreened, Crash, DescribeRun, CancelRun, DeleteTopic
<1> QED BY <1>1, <1>2, <1>3, <1>4, <1>5

-----------------------------------------------------------------------------
(* The theorem *)

\* What createTopic leaves is a state in which the promise may begin.
LEMMA InitKeepsPromise == Init => Promise!Init
<1> SUFFICES ASSUME Init PROVE Promise!Init OBVIOUS
<1>1. Statuses \in [Row -> {"unused", "running"}]
  BY DEF Init, Statuses, NewRow, UnusedRow
<1>2. Told = {} BY DEF Init, Told
<1> QED BY <1>1, <1>2 DEF Promise!Init, Statuses, Told

\* Every step of the rows, callers and workflows is a step of the promise or unseen.
LEMMA NextKeepsPromise == IInv /\ [Next]_vars => PromiseStep
<1> SUFFICES ASSUME IInv, [Next]_vars PROVE PromiseStep OBVIOUS
<1>1. CASE Next
  BY <1>1, StarterKeepsPromise, SweepKeepsPromise, WorkerKeepsPromise, StrayKeepsPromise,
     OthersKeepPromise DEF Next
<1>2. CASE UNCHANGED vars
  BY <1>2, UnchangedRowsStay, UnchangedPastTellsNothing, StayingIsUnseen DEF vars
<1> QED BY <1>1, <1>2

\* A Scan opens once, never opens again and is told about only when it has ended, for
\* any number of rows, callers, sweeps, retries and late attempts.
THEOREM ScanLifecycleKeepsPromise == Spec => KeepsPromise
<1>1. IInv /\ [Next]_vars => [Promise!Next]_<<Statuses, Told>>
  BY NextKeepsPromise DEF PromiseStep
<1> QED
  BY <1>1, InitKeepsPromise, Invariance, PTL DEF Spec, KeepsPromise, Promise!Spec, Statuses, Told


=============================================================================
