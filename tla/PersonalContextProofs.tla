------------------------ MODULE PersonalContextProofs ------------------------
(***************************************************************************)
(* What PersonalContext promises for every number of senders, entries,     *)
(* attempts, reviews and faults.                                           *)
(*                                                                         *)
(* Nothing locks an entry while a rebuild reads it and waits for the       *)
(* model.  What protects the text is that every change of the entries      *)
(* advances the revision: an attempt whose revision is still the context's *)
(* has read the entries that are stored now (AttemptFits).  The invariant  *)
(* IInv adds to that how the columns of a context fit (ContextFits), what  *)
(* an attempt has paid for by the step it has come to (SpendFits), and     *)
(* that a review annotates only for contexts that it has read.             *)
(***************************************************************************)
EXTENDS PersonalContext, TLAPS

-----------------------------------------------------------------------------
(* The inductive invariant *)

\* The columns of a context fit each other, and its text fits the stored entries.
ContextFits(u) ==
  /\ contexts[u].processed <= contexts[u].revision
  /\ contexts[u].isDirty <=> contexts[u].revision > contexts[u].processed
  /\ ~contexts[u].isDirty =>
       contexts[u].state = "ready" \/ (contexts[u].state = "empty" /\ kept[u] = {})
  /\ contexts[u].text # {} => IsReady(u) /\ contexts[u].text = kept[u]
  /\ annotations[u] # 0 => IsReady(u) /\ annotations[u] = contexts[u].revision

HasEntries(a) == attempts[a].pc \in {"reserve", "start", "model", "commit", "record", "fail"}

\* An attempt whose revision is the context's has read the stored entries.
AttemptFits(a) ==
  /\ attempts[a].revision <= contexts[attempts[a].sender].revision
  /\ HasEntries(a) /\ attempts[a].revision = contexts[attempts[a].sender].revision =>
       attempts[a].entries = kept[attempts[a].sender]

\* The spend is recorded before the call that may cost it, and a cost is never taken back.
SpendFits(a) ==
  /\ attempts[a].isBilled => attempts[a].spend \in CostSpends
  /\ attempts[a].pc \in {"idle", "revision", "entries", "reserve", "start"} => attempts[a].spend = "none"
  /\ attempts[a].pc = "model" => ~attempts[a].isBilled
  /\ attempts[a].pc = "commit" => attempts[a].spend # "failed"
  /\ attempts[a].pc \in {"model", "record"} => attempts[a].spend \in CostSpends
  /\ attempts[a].pc = "record" /\ attempts[a].failure = "budget" => ~attempts[a].isBilled

\* A review annotates only for the contexts that it has read.
ReviewFits(r) == \A u \in reviews[r].notes : reviews[r].seen[u] # 0

IInv ==
  /\ TypeOK
  /\ \A u \in Sender : ContextFits(u)
  /\ \A a \in Attempt : AttemptFits(a) /\ SpendFits(a)
  /\ \A r \in Review : ReviewFits(r)

-----------------------------------------------------------------------------
(* Types of what the operators of PersonalContext write *)

\* A closed workflow has no attempt.
LEMMA ClosedWorkflowTyped == ClosedWorkflow \in Workflow /\ ClosedWorkflow.attempt = NoAttempt
BY ContextAssumption DEF ClosedWorkflow, Workflow

\* The workflow goes from one phase to the next with its tries and its attempt reset.
LEMMA GoingTyped ==
  ASSUME NEW phase \in {"closed", "read", "decide", "wait", "rebuild", "rebuilding"}, GoesTo(phase)
  PROVE  workflow' \in Workflow
BY ClosedWorkflowTyped DEF GoesTo, Workflow

\* The tries of an activity stay below maximumAttempts.
LEMMA TryingTyped ==
  ASSUME TypeOK, NEW phase \in {"read", "rebuild"}, TriesAgain(phase) PROVE workflow' \in Workflow
<1>1. workflow \in Workflow BY DEF TypeOK
<1>2. CASE HasAttemptLeft
  <2>1. workflow.tries + 1 \in 0..(MaxAttempts - 1)
    BY <1>1, <1>2, ContextAssumption DEF HasAttemptLeft, Workflow
  <2>2. workflow' = [workflow EXCEPT !.phase = phase, !.tries = workflow.tries + 1, !.attempt = NoAttempt]
    BY <1>2 DEF TriesAgain
  <2> QED BY <1>1, <2>1, <2>2 DEF Workflow
<1>3. CASE ~HasAttemptLeft BY <1>3, ClosedWorkflowTyped DEF TriesAgain
<1> QED BY <1>2, <1>3

\* A signal starts a closed workflow and leaves a running one alone.
LEMMA SignalTyped == ASSUME TypeOK, SignalWithStart PROVE workflow' \in Workflow
BY ClosedWorkflowTyped DEF SignalWithStart, TypeOK, Workflow

\* An attempt that ended is idle, and holds a bill only if no spend has a cost for it.
LEMMA EndedTyped ==
  ASSUME NEW attempt \in Rebuild
  PROVE  /\ Ended(attempt) \in Rebuild /\ Ended(attempt).pc = "idle" /\ Ended(attempt).revision = 0
         /\ Ended(attempt).spend = "none"
         /\ Ended(attempt).sender = attempt.sender
         /\ Ended(attempt).isBilled <=> attempt.isBilled /\ attempt.spend \notin CostSpends
<1>1. 0 \in 0..MaxRevision BY ContextAssumption
<1> QED BY <1>1 DEF Ended, Rebuild, RetryState

\* Only the attempt moves.
OnlyMoves(a) ==
  /\ attempts' \in [Attempt -> Rebuild]
  /\ \A b \in Attempt \ {a} : attempts'[b] = attempts[b]

\* An attempt that goes on leaves the workflow and the lease alone.
LEMMA ContinuingMoves ==
  ASSUME TypeOK, NEW a \in Attempt, NEW attempt \in Rebuild, Continues(a, attempt)
  PROVE  /\ OnlyMoves(a) /\ attempts'[a] = attempt
         /\ workflow' \in Workflow /\ lease' \in Attempt \cup {NoAttempt}
BY DEF TypeOK, Continues, OnlyMoves

\* An attempt that ends is forgotten, and tells the workflow that waits for it.
LEMMA EndingMoves ==
  ASSUME TypeOK, NEW a \in Attempt, NEW outcome \in {"idle", "threw", "stale", "retry"}, Ends(a, outcome)
  PROVE  /\ OnlyMoves(a) /\ attempts'[a] = Ended(attempts[a])
         /\ workflow' \in Workflow /\ lease' \in Attempt \cup {NoAttempt}
<1>1. attempts[a] \in Rebuild BY DEF TypeOK
<1>2. Ended(attempts[a]) \in Rebuild BY <1>1, EndedTyped
<1>3. attempts' = [attempts EXCEPT ![a] = Ended(attempts[a])] /\ lease' = IF lease = a THEN NoAttempt ELSE lease
  BY DEF Ends
<1>4. UNCHANGED workflow \/ GoesTo("wait") \/ TriesAgain("rebuild") \/ GoesTo("read")
  BY DEF Ends
<1>5. workflow' \in Workflow BY <1>4, GoingTyped, TryingTyped DEF TypeOK
<1> QED BY <1>2, <1>3, <1>5 DEF OnlyMoves, TypeOK

-----------------------------------------------------------------------------
(* Steps of one attempt *)

\* A step of one attempt that keeps every revision and every entry keeps the
\* invariant, if the attempt and the contexts still fit.
LEMMA AttemptHolds ==
  ASSUME IInv, NEW a \in Attempt, OnlyMoves(a), AttemptFits(a)', SpendFits(a)',
         workflow' \in Workflow, lease' \in Attempt \cup {NoAttempt}, faults' \in 0..MaxFaults,
         contexts' \in [Sender -> Context],
         \A u \in Sender : contexts'[u].revision = contexts[u].revision /\ ContextFits(u)',
         UNCHANGED <<entryVars, annotations, worldVars, notices, reviews>>
  PROVE  IInv'
<1>1. TypeOK' BY DEF IInv, TypeOK, OnlyMoves, entryVars, worldVars
<1>2. ASSUME NEW b \in Attempt PROVE AttemptFits(b)' /\ SpendFits(b)'
  <2>1. CASE b = a BY <2>1
  <2>2. CASE b # a
    <3>1. attempts'[b] = attempts[b] /\ attempts[b] \in Rebuild BY <2>2 DEF OnlyMoves, IInv, TypeOK
    <3>2. contexts'[attempts[b].sender].revision = contexts[attempts[b].sender].revision
      BY <3>1 DEF Rebuild
    <3>3. AttemptFits(b) /\ SpendFits(b) /\ kept' = kept BY DEF IInv, entryVars
    <3> QED BY <3>1, <3>2, <3>3 DEF AttemptFits, SpendFits, HasEntries
  <2> QED BY <2>1, <2>2
<1>3. ASSUME NEW r \in Review PROVE ReviewFits(r)' BY DEF IInv, ReviewFits
<1> QED BY <1>1, <1>2, <1>3 DEF IInv

\* A step of one attempt that leaves the contexts alone.
LEMMA AttemptMoveHolds ==
  ASSUME IInv, NEW a \in Attempt, OnlyMoves(a), AttemptFits(a)', SpendFits(a)',
         workflow' \in Workflow, lease' \in Attempt \cup {NoAttempt}, faults' \in 0..MaxFaults,
         UNCHANGED <<contexts, entryVars, annotations, worldVars, notices, reviews>>
  PROVE  IInv'
<1>1. contexts' \in [Sender -> Context] BY DEF IInv, TypeOK
<1>2. ASSUME NEW u \in Sender PROVE ContextFits(u)' BY DEF IInv, ContextFits, IsReady, entryVars
<1> QED BY <1>1, <1>2, AttemptHolds

\* What the invariant says of one attempt and of its sender.
LEMMA AttemptFacts ==
  ASSUME IInv, NEW a \in Attempt
  PROVE  /\ TypeOK /\ attempts[a] \in Rebuild /\ attempts[a].sender \in Sender
         /\ contexts[attempts[a].sender] \in Context
         /\ AttemptFits(a) /\ SpendFits(a)
BY DEF IInv, TypeOK, Rebuild

\* The faults stay within their bound.
LEMMA FaultTyped == ASSUME TypeOK, Fault PROVE faults' \in 0..MaxFaults
BY ContextAssumption DEF TypeOK, Fault

\* An attempt that ended fits, whatever the contexts are.
LEMMA EndedFits ==
  ASSUME IInv, NEW a \in Attempt, NEW attempt \in Rebuild, attempt.sender = attempts[a].sender,
         attempt.isBilled => attempt.spend \in CostSpends,
         attempts'[a] = Ended(attempt), contexts' \in [Sender -> Context]
  PROVE  AttemptFits(a)' /\ SpendFits(a)'
<1>1. /\ attempts'[a].pc = "idle" /\ attempts'[a].revision = 0 /\ attempts'[a].spend = "none"
      /\ ~attempts'[a].isBilled /\ attempts'[a].sender \in Sender
  BY EndedTyped, AttemptFacts
<1>2. contexts'[attempts'[a].sender].revision \in Nat BY <1>1 DEF Context
<1> QED BY <1>1, <1>2 DEF AttemptFits, SpendFits, HasEntries

\* An attempt that ends and leaves the contexts alone keeps the invariant.
LEMMA EndingHolds ==
  ASSUME IInv, NEW a \in Attempt, NEW outcome \in {"idle", "threw", "stale", "retry"}, Ends(a, outcome),
         faults' \in 0..MaxFaults, UNCHANGED <<contexts, entryVars, annotations, worldVars, notices, reviews>>
  PROVE  IInv'
<1>1. TypeOK /\ attempts[a] \in Rebuild /\ SpendFits(a) BY AttemptFacts
<1>2. /\ OnlyMoves(a) /\ attempts'[a] = Ended(attempts[a])
      /\ workflow' \in Workflow /\ lease' \in Attempt \cup {NoAttempt}
  BY <1>1, EndingMoves
<1>3. AttemptFits(a)' /\ SpendFits(a)' BY <1>1, <1>2, EndedFits DEF SpendFits, TypeOK
<1> QED BY <1>2, <1>3, AttemptMoveHolds

\* An attempt that goes on and leaves the contexts alone keeps the invariant, if it fits.
LEMMA ContinuingHolds ==
  ASSUME IInv, NEW a \in Attempt, NEW attempt \in Rebuild, Continues(a, attempt),
         attempts'[a] = attempt => AttemptFits(a)' /\ SpendFits(a)',
         faults' \in 0..MaxFaults, UNCHANGED <<contexts, entryVars, annotations, worldVars, notices, reviews>>
  PROVE  IInv'
BY AttemptFacts, ContinuingMoves, AttemptMoveHolds

-----------------------------------------------------------------------------
(* The attempt's own steps *)

\* The snapshot's revision is the selected context's.
LEMMA ReadRevisionHolds == ASSUME IInv, NEW a \in Attempt, ReadRevision(a) PROVE IInv'
<1>1. TypeOK /\ attempts[a] \in Rebuild /\ SpendFits(a) BY AttemptFacts
<1>2. faults' \in 0..MaxFaults BY <1>1 DEF TypeOK, ReadRevision
<1>3. CASE Ends(a, "idle") BY <1>2, <1>3, EndingHolds DEF ReadRevision
<1>4. ASSUME NEW u \in Sender,
             Continues(a, [attempts[a] EXCEPT !.pc = "entries", !.sender = u, !.hasKey = hasKey,
                                              !.revision = contexts[u].revision])
      PROVE  IInv'
  <2> DEFINE next == [attempts[a] EXCEPT !.pc = "entries", !.sender = u, !.hasKey = hasKey,
                                         !.revision = contexts[u].revision]
  <2>1. contexts[u].revision \in 0..MaxRevision /\ hasKey \in BOOLEAN BY <1>1 DEF TypeOK, Context
  <2>2. /\ next \in Rebuild /\ next.pc = "entries" /\ next.sender = u
        /\ next.revision = contexts[u].revision /\ next.spend = attempts[a].spend
        /\ next.isBilled = attempts[a].isBilled
    BY <1>1, <2>1 DEF Rebuild
  <2>3. Continues(a, next) BY <1>4
  <2> HIDE DEF next
  <2>4. contexts' = contexts /\ attempts[a].pc = "revision" BY DEF ReadRevision
  <2>5. attempts[a].spend = "none" /\ ~attempts[a].isBilled BY <1>1, <2>4 DEF SpendFits, CostSpends
  <2>6. contexts[u].revision <= contexts[u].revision BY <2>1, ContextAssumption
  <2>7. attempts'[a] = next => AttemptFits(a)' /\ SpendFits(a)'
    BY <2>4, <2>5, <2>6, <2>2 DEF AttemptFits, SpendFits, HasEntries
  <2> QED BY <1>2, <2>2, <2>3, <2>7, ContinuingHolds DEF ReadRevision
<1> QED BY <1>3, <1>4 DEF ReadRevision

\* The entries are read after the revision: they are the revision's, or the revision is old.
LEMMA ReadEntriesHolds == ASSUME IInv, NEW a \in Attempt, ReadEntries(a) PROVE IInv'
<1> DEFINE read == [attempts[a] EXCEPT !.entries = kept[attempts[a].sender]]
           next == IF read.entries = {} THEN [read EXCEPT !.pc = "commit"]
                   ELSE IF read.hasKey THEN [read EXCEPT !.pc = "reserve"]
                   ELSE [read EXCEPT !.pc = "fail", !.failure = "missing_key"]
<1>1. TypeOK /\ attempts[a] \in Rebuild /\ AttemptFits(a) /\ SpendFits(a) /\ attempts[a].pc = "entries"
  BY AttemptFacts DEF ReadEntries
<1>2. faults' \in 0..MaxFaults BY <1>1 DEF TypeOK, ReadEntries
<1>3. kept[attempts[a].sender] \in SUBSET Entry BY <1>1 DEF TypeOK, Rebuild
<1>4. read \in Rebuild BY <1>1, <1>3 DEF Rebuild
<1>5. /\ next \in Rebuild /\ next.pc \in {"commit", "reserve", "fail"} /\ next.sender = attempts[a].sender
      /\ next.revision = attempts[a].revision /\ next.spend = attempts[a].spend
      /\ next.isBilled = attempts[a].isBilled /\ next.entries = kept[attempts[a].sender]
  BY <1>1, <1>3, <1>4 DEF Rebuild, RetryState
<1>6. Continues(a, next) BY DEF ReadEntries
<1> HIDE DEF next, read
<1>7. attempts'[a] = next => AttemptFits(a)' /\ SpendFits(a)'
  BY <1>1, <1>5 DEF AttemptFits, SpendFits, HasEntries, ReadEntries, entryVars
<1> QED BY <1>2, <1>5, <1>6, <1>7, ContinuingHolds DEF ReadEntries

\* An attempt moves on with its snapshot, its spend and its bill as they are.
LEMMA PlainMoveHolds ==
  ASSUME IInv, NEW a \in Attempt, NEW attempt \in Rebuild, Continues(a, attempt),
         attempts[a].pc = "reserve", attempt.pc \in {"start", "fail"},
         attempt.sender = attempts[a].sender, attempt.revision = attempts[a].revision,
         attempt.entries = attempts[a].entries,
         attempt.spend = attempts[a].spend, attempt.isBilled = attempts[a].isBilled,
         faults' \in 0..MaxFaults, UNCHANGED <<contexts, entryVars, annotations, worldVars, notices, reviews>>
  PROVE  IInv'
<1>1. AttemptFits(a) /\ SpendFits(a) BY AttemptFacts
<1>2. attempts'[a] = attempt => AttemptFits(a)' /\ SpendFits(a)'
  BY <1>1 DEF AttemptFits, SpendFits, HasEntries, entryVars
<1> QED BY <1>2, ContinuingHolds

\* A reservation costs nothing.
LEMMA ReserveSpendHolds == ASSUME IInv, NEW a \in Attempt, ReserveSpend(a) PROVE IInv'
<1>1. TypeOK /\ attempts[a] \in Rebuild BY AttemptFacts
<1>2. faults' \in 0..MaxFaults BY <1>1, FaultTyped DEF TypeOK, ReserveSpend
<1>3. CASE Continues(a, [attempts[a] EXCEPT !.pc = "start"])
  <2> DEFINE next == [attempts[a] EXCEPT !.pc = "start"]
  <2>1. /\ next \in Rebuild /\ next.pc = "start" /\ next.sender = attempts[a].sender
        /\ next.revision = attempts[a].revision /\ next.entries = attempts[a].entries
        /\ next.spend = attempts[a].spend /\ next.isBilled = attempts[a].isBilled
    BY <1>1 DEF Rebuild
  <2> HIDE DEF next
  <2>2. Continues(a, next) BY <1>3 DEF next
  <2> QED BY <1>2, <2>1, <2>2, PlainMoveHolds DEF ReserveSpend
<1>4. CASE Continues(a, [attempts[a] EXCEPT !.pc = "fail", !.failure = "budget"])
  <2> DEFINE next == [attempts[a] EXCEPT !.pc = "fail", !.failure = "budget"]
  <2>1. /\ next \in Rebuild /\ next.pc = "fail" /\ next.sender = attempts[a].sender
        /\ next.revision = attempts[a].revision /\ next.entries = attempts[a].entries
        /\ next.spend = attempts[a].spend /\ next.isBilled = attempts[a].isBilled
    BY <1>1 DEF Rebuild, RetryState
  <2> HIDE DEF next
  <2>2. Continues(a, next) BY <1>4 DEF next
  <2> QED BY <1>2, <2>1, <2>2, PlainMoveHolds DEF ReserveSpend
<1> QED BY <1>3, <1>4 DEF ReserveSpend

\* The spend is started before the model is called.
LEMMA StartSpendHolds == ASSUME IInv, NEW a \in Attempt, StartSpend(a) PROVE IInv'
<1>1. TypeOK /\ attempts[a] \in Rebuild /\ AttemptFits(a) /\ SpendFits(a) /\ attempts[a].pc = "start"
  BY AttemptFacts DEF StartSpend
<1>2. faults' \in 0..MaxFaults BY <1>1 DEF TypeOK, StartSpend
<1>3. CASE Ends(a, "stale") BY <1>2, <1>3, EndingHolds DEF StartSpend
<1>4. CASE Continues(a, BeforeModel(a))
  <2>1. /\ BeforeModel(a) \in Rebuild /\ BeforeModel(a).pc = "model"
        /\ BeforeModel(a).sender = attempts[a].sender /\ BeforeModel(a).revision = attempts[a].revision
        /\ BeforeModel(a).entries = attempts[a].entries
        /\ BeforeModel(a).spend = "started" /\ BeforeModel(a).isBilled = attempts[a].isBilled
    BY <1>1 DEF Rebuild, BeforeModel
  <2>2. attempts'[a] = BeforeModel(a) => AttemptFits(a)' /\ SpendFits(a)'
    BY <1>1, <2>1 DEF AttemptFits, SpendFits, HasEntries, StartSpend, entryVars, CostSpends
  <2> QED BY <1>2, <1>4, <2>1, <2>2, ContinuingHolds DEF StartSpend
<1> QED BY <1>3, <1>4 DEF StartSpend

\* The model's answer is billed to a started spend.
LEMMA GenerateHolds == ASSUME IInv, NEW a \in Attempt, Generate(a) PROVE IInv'
<1> DEFINE next == [attempts[a] EXCEPT !.pc = "commit", !.isBilled = TRUE]
<1>1. TypeOK /\ attempts[a] \in Rebuild /\ AttemptFits(a) /\ SpendFits(a) /\ attempts[a].pc = "model"
  BY AttemptFacts DEF Generate
<1>2. faults' \in 0..MaxFaults BY <1>1 DEF TypeOK, Generate
<1>3. /\ next \in Rebuild /\ next.pc = "commit" /\ next.sender = attempts[a].sender
      /\ next.revision = attempts[a].revision /\ next.entries = attempts[a].entries
      /\ next.spend = attempts[a].spend
  BY <1>1 DEF Rebuild
<1>4. Continues(a, next) BY DEF Generate
<1> HIDE DEF next
<1>5. attempts'[a] = next => AttemptFits(a)' /\ SpendFits(a)'
  BY <1>1, <1>3 DEF AttemptFits, SpendFits, HasEntries, Generate, entryVars, CostSpends
<1> QED BY <1>2, <1>3, <1>4, <1>5, ContinuingHolds DEF Generate

\* A call that the proxy rejected was not billed, one that failed otherwise may have been.
LEMMA GenerateFailsHolds == ASSUME IInv, NEW a \in Attempt, GenerateFails(a) PROVE IInv'
<1>1. TypeOK /\ attempts[a] \in Rebuild /\ AttemptFits(a) /\ SpendFits(a) /\ attempts[a].pc = "model"
  BY AttemptFacts DEF GenerateFails
<1>2. faults' \in 0..MaxFaults BY <1>1, FaultTyped DEF GenerateFails
<1>3. CASE Continues(a, [attempts[a] EXCEPT !.pc = "record", !.failure = "budget"])
  <2> DEFINE next == [attempts[a] EXCEPT !.pc = "record", !.failure = "budget"]
  <2>1. /\ next \in Rebuild /\ next.pc = "record" /\ next.sender = attempts[a].sender
        /\ next.revision = attempts[a].revision /\ next.entries = attempts[a].entries
        /\ next.spend = attempts[a].spend /\ next.isBilled = attempts[a].isBilled
    BY <1>1 DEF Rebuild, RetryState
  <2> HIDE DEF next
  <2>2. Continues(a, next) BY <1>3 DEF next
  <2>3. attempts'[a] = next => AttemptFits(a)' /\ SpendFits(a)'
    BY <1>1, <2>1 DEF AttemptFits, SpendFits, HasEntries, GenerateFails, entryVars
  <2> QED BY <1>2, <2>1, <2>2, <2>3, ContinuingHolds DEF GenerateFails
<1>4. ASSUME NEW isBilled \in BOOLEAN,
             Continues(a, [attempts[a] EXCEPT !.pc = "record", !.failure = "failed", !.isBilled = isBilled])
      PROVE  IInv'
  <2> DEFINE next == [attempts[a] EXCEPT !.pc = "record", !.failure = "failed", !.isBilled = isBilled]
  <2>1. /\ next \in Rebuild /\ next.pc = "record" /\ next.sender = attempts[a].sender
        /\ next.revision = attempts[a].revision /\ next.entries = attempts[a].entries
        /\ next.spend = attempts[a].spend /\ next.failure = "failed"
    BY <1>1 DEF Rebuild, RetryState
  <2> HIDE DEF next
  <2>2. Continues(a, next) BY <1>4 DEF next
  <2>3. attempts'[a] = next => AttemptFits(a)' /\ SpendFits(a)'
    BY <1>1, <2>1 DEF AttemptFits, SpendFits, HasEntries, GenerateFails, entryVars
  <2> QED BY <1>2, <2>1, <2>2, <2>3, ContinuingHolds DEF GenerateFails
<1> QED BY <1>3, <1>4 DEF GenerateFails

\* The cost of a failed call is recorded, unless it was rejected.
LEMMA RecordSpendHolds == ASSUME IInv, NEW a \in Attempt, RecordSpend(a) PROVE IInv'
<1> DEFINE spend == IF attempts[a].failure = "budget" THEN "failed" ELSE "unknown"
           next == [attempts[a] EXCEPT !.pc = "fail", !.spend = spend]
<1>1. TypeOK /\ attempts[a] \in Rebuild /\ AttemptFits(a) /\ SpendFits(a) /\ attempts[a].pc = "record"
  BY AttemptFacts DEF RecordSpend
<1>2. faults' \in 0..MaxFaults BY <1>1 DEF TypeOK, RecordSpend
<1>3. /\ next \in Rebuild /\ next.pc = "fail" /\ next.sender = attempts[a].sender
      /\ next.revision = attempts[a].revision /\ next.entries = attempts[a].entries
      /\ next.spend = spend /\ next.isBilled = attempts[a].isBilled
  BY <1>1 DEF Rebuild
<1>4. Continues(a, next) BY DEF RecordSpend
<1> HIDE DEF next
<1>5. attempts'[a] = next => AttemptFits(a)' /\ SpendFits(a)'
  BY <1>1, <1>3 DEF AttemptFits, SpendFits, HasEntries, RecordSpend, entryVars, CostSpends
<1> QED BY <1>2, <1>3, <1>4, <1>5, ContinuingHolds DEF RecordSpend

\* An attempt may throw at any step outside the try block.
LEMMA AttemptThrowsHolds == ASSUME IInv, NEW a \in Attempt, AttemptThrows(a) PROVE IInv'
BY AttemptFacts, FaultTyped, EndingHolds DEF AttemptThrows

\* A worker exits with its attempt, and the lease stays.
LEMMA CrashHolds == ASSUME IInv, NEW a \in Attempt, Crash(a) PROVE IInv'
<1>1. TypeOK /\ attempts[a] \in Rebuild /\ SpendFits(a) BY AttemptFacts
<1>2. /\ faults' \in 0..MaxFaults /\ contexts' \in [Sender -> Context]
      /\ workflow' \in Workflow /\ lease' \in Attempt \cup {NoAttempt}
  BY <1>1, FaultTyped DEF TypeOK, Crash
<1>3. OnlyMoves(a) /\ attempts'[a] = Ended(attempts[a])
  BY <1>1, EndedTyped DEF Crash, OnlyMoves, TypeOK
<1>4. AttemptFits(a)' /\ SpendFits(a)' BY <1>1, <1>2, <1>3, EndedFits DEF SpendFits
<1> QED BY <1>2, <1>3, <1>4, AttemptMoveHolds DEF Crash

-----------------------------------------------------------------------------
(* Writes of a snapshot *)

\* A write by a sender whose context is current: nothing is annotated then, and the
\* attempt's entries are the stored ones.
LEMMA CurrentFacts ==
  ASSUME IInv, NEW a \in Attempt, IsCurrent(a), attempts[a].pc \in {"commit", "fail"},
         NEW u \in Sender, u = attempts[a].sender
  PROVE  /\ contexts[u].revision = attempts[a].revision /\ contexts[u].processed < contexts[u].revision
         /\ contexts[u].isDirty /\ annotations[u] = 0
         /\ attempts[a].entries = kept[u] /\ contexts[u] \in Context
<1>1. TypeOK /\ AttemptFits(a) /\ attempts[a] \in Rebuild /\ contexts[u] \in Context BY AttemptFacts
<1>2. contexts[u].revision = attempts[a].revision /\ contexts[u].processed < contexts[u].revision
  BY DEF IsCurrent
<1>3. contexts[u].revision \in Nat /\ contexts[u].processed \in Nat BY <1>1, ContextAssumption DEF Context
<1>4. ContextFits(u) BY DEF IInv
<1>5. contexts[u].isDirty BY <1>2, <1>3, <1>4 DEF ContextFits
<1>6. annotations[u] = 0 BY <1>2, <1>3, <1>4 DEF ContextFits, IsReady
<1>7. attempts[a].entries = kept[u] BY <1>1, <1>2 DEF AttemptFits, HasEntries
<1> QED BY <1>1, <1>2, <1>5, <1>6, <1>7

\* A commit processes the revision that the attempt has read, with the entries it has read.
LEMMA CommittedFits ==
  ASSUME IInv, NEW a \in Attempt, attempts[a].pc = "commit", contexts' = Committed(a),
         UNCHANGED <<kept, annotations>>
  PROVE  /\ contexts' \in [Sender -> Context]
         /\ \A u \in Sender : contexts'[u].revision = contexts[u].revision /\ ContextFits(u)'
<1>0. PICK s \in Sender : s = attempts[a].sender BY AttemptFacts
<1> DEFINE next == [contexts[s] EXCEPT !.processed = attempts[a].revision, !.text = attempts[a].entries,
                      !.state = IF attempts[a].entries = {} THEN "empty" ELSE "ready",
                      !.isDirty = FALSE, !.age = "new"]
<1>1. /\ TypeOK /\ attempts[a] \in Rebuild /\ s \in Sender /\ contexts[s] \in Context
      /\ contexts \in [Sender -> Context] /\ \A u \in Sender : ContextFits(u)
  BY <1>0, AttemptFacts DEF IInv, TypeOK
<1>2. CASE ~IsCurrent(a)
  <2>1. contexts' = contexts BY <1>2 DEF Committed
  <2> QED BY <1>1, <2>1 DEF ContextFits, IsReady
<1>3. CASE IsCurrent(a)
  <2>1. /\ contexts[s].revision = attempts[a].revision /\ annotations[s] = 0 /\ attempts[a].entries = kept[s]
    BY <1>0, <1>1, <1>3, CurrentFacts
  <2>2. /\ next \in Context /\ next.revision = contexts[s].revision /\ next.processed = contexts[s].revision
        /\ next.text = kept[s] /\ next.isDirty = FALSE
        /\ next.state = IF kept[s] = {} THEN "empty" ELSE "ready"
    BY <1>1, <2>1 DEF Context, Rebuild
  <2>3. contexts' = [contexts EXCEPT ![s] = next] BY <1>0, <1>3 DEF Committed
  <2> HIDE DEF next
  <2>4. contexts' \in [Sender -> Context] BY <1>1, <2>2, <2>3
  <2>5. contexts'[s] = next BY <1>1, <2>3
  <2>6. contexts[s].revision \in Nat BY <1>1, ContextAssumption DEF Context
  <2>7. ContextFits(s)'
    BY <2>1, <2>2, <2>5, <2>6 DEF ContextFits, IsReady
  <2>8. ASSUME NEW u \in Sender, u # s PROVE contexts'[u] = contexts[u] /\ ContextFits(u)'
    <3>1. contexts'[u] = contexts[u] BY <1>1, <2>3, <2>8
    <3> QED BY <1>1, <3>1 DEF ContextFits, IsReady
  <2> QED BY <2>2, <2>4, <2>5, <2>7, <2>8
<1> QED BY <1>2, <1>3

\* A commit that is not current changes nothing, one that is makes the context whole.
LEMMA CommitHolds == ASSUME IInv, NEW a \in Attempt, Commit(a) PROVE IInv'
<1> DEFINE spent == [attempts[a] EXCEPT !.spend = Spent(a)]
<1>1. TypeOK /\ attempts[a] \in Rebuild /\ SpendFits(a) /\ attempts[a].pc = "commit"
  BY AttemptFacts DEF Commit
<1>2. /\ spent \in Rebuild /\ spent.sender = attempts[a].sender /\ spent.isBilled = attempts[a].isBilled
      /\ spent.spend = Spent(a)
  BY <1>1 DEF Rebuild, Spent
<1>3. spent.isBilled => spent.spend \in CostSpends BY <1>1, <1>2 DEF SpendFits, Spent, CostSpends
<1>4. attempts' = [attempts EXCEPT ![a] = Ended(spent)] BY DEF Commit
<1> HIDE DEF spent
<1>5. OnlyMoves(a) /\ attempts'[a] = Ended(spent)
  BY <1>1, <1>2, <1>4, EndedTyped DEF OnlyMoves, TypeOK
<1>6. /\ contexts' \in [Sender -> Context]
      /\ \A u \in Sender : contexts'[u].revision = contexts[u].revision /\ ContextFits(u)'
  BY CommittedFits DEF Commit, entryVars
<1>7. AttemptFits(a)' /\ SpendFits(a)' BY <1>2, <1>3, <1>5, <1>6, EndedFits
<1>8. workflow' \in Workflow BY <1>1, GoingTyped DEF Commit, TypeOK
<1>9. lease' \in Attempt \cup {NoAttempt} /\ faults' \in 0..MaxFaults BY <1>1 DEF Commit, TypeOK
<1> QED BY <1>5, <1>6, <1>7, <1>8, <1>9, AttemptHolds DEF Commit

\* A transaction that throws may have committed, and a paid attempt records a failure.
LEMMA CommitThrowsHolds == ASSUME IInv, NEW a \in Attempt, CommitThrows(a) PROVE IInv'
<1>1. /\ TypeOK /\ attempts[a] \in Rebuild /\ AttemptFits(a) /\ SpendFits(a) /\ attempts[a].pc = "commit"
      /\ contexts \in [Sender -> Context] /\ \A u \in Sender : ContextFits(u)
      /\ UNCHANGED <<kept, annotations>>
  BY AttemptFacts DEF CommitThrows, IInv, TypeOK, entryVars
<1>2. PICK isCommitted \in BOOLEAN :
        /\ contexts' = IF isCommitted THEN Committed(a) ELSE contexts
        /\ IF attempts[a].spend = "none" THEN Ends(a, "threw")
           ELSE Continues(a, [attempts[a] EXCEPT !.pc = "record", !.failure = "failed",
                                                 !.spend = IF isCommitted THEN Spent(a) ELSE @])
  BY DEF CommitThrows
<1>3. /\ contexts' \in [Sender -> Context]
      /\ \A u \in Sender : contexts'[u].revision = contexts[u].revision /\ ContextFits(u)'
  <2>1. CASE isCommitted BY <1>1, <1>2, <2>1, CommittedFits
  <2>2. CASE ~isCommitted BY <1>1, <1>2, <2>2 DEF ContextFits, IsReady
  <2> QED BY <2>1, <2>2
<1>4. faults' \in 0..MaxFaults BY <1>1, FaultTyped DEF CommitThrows
<1>5. CASE attempts[a].spend = "none"
  <2>1. /\ OnlyMoves(a) /\ attempts'[a] = Ended(attempts[a])
        /\ workflow' \in Workflow /\ lease' \in Attempt \cup {NoAttempt}
    BY <1>1, <1>2, <1>5, EndingMoves
  <2>2. AttemptFits(a)' /\ SpendFits(a)' BY <1>1, <1>3, <2>1, EndedFits DEF SpendFits
  <2> QED BY <1>3, <1>4, <2>1, <2>2, AttemptHolds DEF CommitThrows
<1>6. CASE attempts[a].spend # "none"
  <2> DEFINE spend == IF isCommitted THEN Spent(a) ELSE attempts[a].spend
             next == [attempts[a] EXCEPT !.pc = "record", !.failure = "failed", !.spend = spend]
  <2>1. Continues(a, next) BY <1>2, <1>6
  <2>2. attempts[a].spend \in CostSpends
    BY <1>1, <1>6 DEF SpendFits, Rebuild, CostSpends
  <2>3. spend \in CostSpends BY <1>6, <2>2 DEF Spent, CostSpends
  <2>4. /\ next \in Rebuild /\ next.pc = "record" /\ next.sender = attempts[a].sender
        /\ next.revision = attempts[a].revision /\ next.entries = attempts[a].entries
        /\ next.spend = spend /\ next.failure = "failed"
    BY <1>1, <2>3 DEF Rebuild, RetryState, CostSpends
  <2> HIDE DEF next, spend
  <2>5. /\ OnlyMoves(a) /\ attempts'[a] = next
        /\ workflow' \in Workflow /\ lease' \in Attempt \cup {NoAttempt}
    BY <1>1, <2>1, <2>4, ContinuingMoves
  <2>6. contexts'[attempts[a].sender].revision = contexts[attempts[a].sender].revision
    BY <1>1, <1>3 DEF Rebuild
  <2>7. AttemptFits(a)' /\ SpendFits(a)'
    BY <1>1, <2>3, <2>4, <2>5, <2>6 DEF AttemptFits, SpendFits, HasEntries
  <2> QED BY <1>3, <1>4, <2>5, <2>7, AttemptHolds DEF CommitThrows
<1> QED BY <1>5, <1>6

\* A failure marks a context only while its revision is not processed.
LEMMA FailContextHolds == ASSUME IInv, NEW a \in Attempt, FailContext(a) PROVE IInv'
<1>0. PICK s \in Sender : s = attempts[a].sender BY AttemptFacts
<1> DEFINE next == [contexts[s] EXCEPT !.state = attempts[a].failure, !.text = {}, !.age = "new"]
<1>1. /\ TypeOK /\ attempts[a] \in Rebuild /\ s \in Sender /\ contexts[s] \in Context /\ SpendFits(a)
      /\ contexts \in [Sender -> Context] /\ \A u \in Sender : ContextFits(u)
      /\ attempts[a].pc = "fail" /\ UNCHANGED <<kept, annotations>>
  BY <1>0, AttemptFacts DEF IInv, TypeOK, FailContext, entryVars
<1>2. /\ contexts' \in [Sender -> Context]
      /\ \A u \in Sender : contexts'[u].revision = contexts[u].revision /\ ContextFits(u)'
  <2>1. CASE ~IsCurrent(a)
    <3>1. contexts' = contexts BY <2>1 DEF FailContext
    <3> QED BY <1>1, <3>1 DEF ContextFits, IsReady
  <2>2. CASE IsCurrent(a)
    <3>1. contexts[s].isDirty /\ annotations[s] = 0 BY <1>0, <1>1, <2>2, CurrentFacts
    <3>2. /\ next \in Context /\ next.revision = contexts[s].revision /\ next.processed = contexts[s].processed
          /\ next.text = {} /\ next.isDirty = contexts[s].isDirty
      BY <1>1 DEF Context, Rebuild
    <3>3. contexts' = [contexts EXCEPT ![s] = next] BY <1>0, <2>2 DEF FailContext
    <3> HIDE DEF next
    <3>4. contexts' \in [Sender -> Context] /\ contexts'[s] = next BY <1>1, <3>2, <3>3
    <3>5. ContextFits(s)' BY <1>1, <3>1, <3>2, <3>4 DEF ContextFits, IsReady
    <3>6. ASSUME NEW u \in Sender, u # s PROVE contexts'[u] = contexts[u] /\ ContextFits(u)'
      <4>1. contexts'[u] = contexts[u] BY <1>1, <3>3, <3>6
      <4> QED BY <1>1, <4>1 DEF ContextFits, IsReady
    <3> QED BY <3>2, <3>4, <3>5, <3>6
  <2> QED BY <2>1, <2>2
<1>3. /\ OnlyMoves(a) /\ attempts'[a] = Ended(attempts[a])
      /\ workflow' \in Workflow /\ lease' \in Attempt \cup {NoAttempt}
  BY <1>1, EndingMoves DEF FailContext
<1>4. AttemptFits(a)' /\ SpendFits(a)' BY <1>1, <1>2, <1>3, EndedFits DEF SpendFits
<1>5. faults' \in 0..MaxFaults BY <1>1 DEF FailContext, TypeOK
<1> QED BY <1>2, <1>3, <1>4, <1>5, AttemptHolds DEF FailContext

-----------------------------------------------------------------------------
(* Changes of the entries *)

\* A change advances the revision, so that no attempt has read what is stored now.
LEMMA InvalidateHolds ==
  ASSUME IInv, NEW u \in Sender, Invalidate(u), \A v \in Sender \ {u} : kept'[v] = kept[v],
         kept' \in [Sender -> SUBSET Entry], sent' \in [Sender -> SUBSET Entry], notices' = notices + 1,
         UNCHANGED <<worldVars, rebuildVars, reviews, faults>>
  PROVE  IInv'
<1> DEFINE next == [contexts[u] EXCEPT !.revision = contexts[u].revision + 1, !.state = "pending",
                                       !.text = {}, !.isDirty = TRUE, !.age = "new"]
<1>1. TypeOK /\ contexts[u] \in Context /\ contexts \in [Sender -> Context]
  BY DEF IInv, TypeOK
<1>2. /\ contexts[u].revision + 1 \in 0..MaxRevision /\ contexts[u].revision \in Nat
      /\ contexts[u].processed \in Nat /\ contexts[u].processed <= contexts[u].revision
  BY <1>1, ContextAssumption DEF Invalidate, Context, IInv, ContextFits
<1>3. /\ next \in Context /\ next.revision = contexts[u].revision + 1 /\ next.processed = contexts[u].processed
      /\ next.text = {} /\ next.isDirty = TRUE
  BY <1>1, <1>2 DEF Context
<1>4. contexts' = [contexts EXCEPT ![u] = next] BY DEF Invalidate
<1> HIDE DEF next
<1>5. contexts' \in [Sender -> Context] /\ contexts'[u] = next BY <1>1, <1>3, <1>4
<1>6. \A v \in Sender \ {u} : contexts'[v] = contexts[v] BY <1>1, <1>4
<1>7. /\ annotations' \in [Sender -> 0..MaxRevision] /\ annotations'[u] = 0
      /\ \A v \in Sender \ {u} : annotations'[v] = annotations[v]
  BY <1>1, ContextAssumption DEF TypeOK, Invalidate
<1>8. TypeOK' BY <1>1, <1>5, <1>7 DEF TypeOK, worldVars, rebuildVars
<1>9. ASSUME NEW v \in Sender PROVE ContextFits(v)'
  <2>1. CASE v = u BY <1>2, <1>3, <1>5, <1>7, <2>1 DEF ContextFits
  <2>2. CASE v # u
    <3>1. ContextFits(v) BY DEF IInv
    <3> QED BY <1>6, <1>7, <2>2, <3>1 DEF ContextFits, IsReady
  <2> QED BY <2>1, <2>2
<1>10. ASSUME NEW b \in Attempt PROVE AttemptFits(b)' /\ SpendFits(b)'
  <2>1. AttemptFits(b) /\ SpendFits(b) /\ attempts' = attempts /\ attempts[b] \in Rebuild
    BY AttemptFacts DEF rebuildVars
  <2>2. attempts[b].sender \in Sender /\ attempts[b].revision \in Nat
    BY <2>1, ContextAssumption DEF Rebuild
  <2>3. CASE attempts[b].sender = u
    BY <1>2, <1>3, <1>5, <2>1, <2>2, <2>3 DEF AttemptFits, SpendFits
  <2>4. CASE attempts[b].sender # u
    BY <1>6, <2>1, <2>2, <2>4 DEF AttemptFits, SpendFits, HasEntries
  <2> QED BY <2>3, <2>4
<1>11. ASSUME NEW r \in Review PROVE ReviewFits(r)' BY DEF IInv, ReviewFits
<1> QED BY <1>8, <1>9, <1>10, <1>11 DEF IInv

\* A sender gives entries.
LEMMA ReceiveHolds == ASSUME IInv, NEW u \in Sender, Receive(u) PROVE IInv'
<1>1. TypeOK BY DEF IInv
<1>2. /\ kept' \in [Sender -> SUBSET Entry] /\ sent' \in [Sender -> SUBSET Entry]
      /\ \A v \in Sender \ {u} : kept'[v] = kept[v]
  BY <1>1 DEF TypeOK, Receive
<1> QED BY <1>2, InvalidateHolds DEF Receive

\* A sender takes entries back.
LEMMA RemoveHolds == ASSUME IInv, NEW u \in Sender, Remove(u) PROVE IInv'
<1>1. TypeOK BY DEF IInv
<1>2. /\ kept' \in [Sender -> SUBSET Entry] /\ sent' \in [Sender -> SUBSET Entry]
      /\ \A v \in Sender \ {u} : kept'[v] = kept[v]
  BY <1>1 DEF TypeOK, Remove
<1> QED BY <1>2, InvalidateHolds DEF Remove

\* Time changes the age of a context and nothing else.
LEMMA AgesHolds == ASSUME IInv, NEW u \in Sender, Ages(u) PROVE IInv'
<1> DEFINE next == [contexts[u] EXCEPT !.age = IF contexts[u].age = "new" THEN "quiet" ELSE "old"]
<1>1. TypeOK /\ contexts[u] \in Context /\ contexts \in [Sender -> Context]
  BY DEF IInv, TypeOK
<1>2. /\ next \in Context /\ next.revision = contexts[u].revision /\ next.processed = contexts[u].processed
      /\ next.text = contexts[u].text /\ next.isDirty = contexts[u].isDirty /\ next.state = contexts[u].state
  BY <1>1 DEF Context
<1>3. contexts' = [contexts EXCEPT ![u] = next] BY <1>1 DEF Ages
<1> HIDE DEF next
<1>4. /\ contexts' \in [Sender -> Context] /\ contexts'[u] = next
      /\ \A v \in Sender \ {u} : contexts'[v] = contexts[v]
  BY <1>1, <1>2, <1>3
<1>5. UNCHANGED <<kept, annotations, attempts, reviews>> /\ TypeOK'
  BY <1>1, <1>4 DEF Ages, TypeOK, entryVars, worldVars, rebuildVars
<1>6. ASSUME NEW v \in Sender PROVE ContextFits(v)' /\ contexts'[v].revision = contexts[v].revision
  <2>1. ContextFits(v) BY DEF IInv
  <2> QED BY <1>2, <1>4, <1>5, <2>1 DEF ContextFits, IsReady
<1>7. ASSUME NEW b \in Attempt PROVE AttemptFits(b)' /\ SpendFits(b)'
  <2>1. AttemptFits(b) /\ SpendFits(b) /\ attempts[b].sender \in Sender BY AttemptFacts
  <2> QED BY <1>5, <1>6, <2>1 DEF AttemptFits, SpendFits, HasEntries
<1>8. ASSUME NEW r \in Review PROVE ReviewFits(r)' BY <1>5 DEF IInv, ReviewFits
<1> QED BY <1>5, <1>6, <1>7, <1>8 DEF IInv

-----------------------------------------------------------------------------
(* The workflow and its lease *)

\* Steps that leave the contexts, the entries, the attempts and the reviews alone.
LEMMA OthersHold ==
  ASSUME IInv, TypeOK', UNCHANGED <<contexts, entryVars, annotations, attempts, reviews>> PROVE IInv'
BY DEF IInv, ContextFits, IsReady, AttemptFits, SpendFits, HasEntries, ReviewFits, entryVars

\* The editors and the owner's key change.
LEMMA WorldHolds ==
  ASSUME IInv, (\E u \in Sender : EditorsChange(u)) \/ OwnerGetsKey PROVE IInv'
<1>1. TypeOK BY DEF IInv
<1>2. turns' \in 0..MaxTurns BY <1>1, ContextAssumption DEF TypeOK, EditorsChange, OwnerGetsKey
<1>3. editors' \subseteq Sender /\ hasKey' \in BOOLEAN BY <1>1 DEF TypeOK, EditorsChange, OwnerGetsKey
<1>4. UNCHANGED <<contexts, entryVars, annotations, notices, rebuildVars, reviews, faults>>
  BY DEF EditorsChange, OwnerGetsKey
<1>5. TypeOK' BY <1>1, <1>2, <1>3, <1>4 DEF TypeOK, entryVars, rebuildVars
<1> QED BY <1>4, <1>5, OthersHold DEF rebuildVars

\* A start of the workflow, or its loss, changes neither contexts nor attempts.
LEMMA StartHolds == ASSUME IInv, Notify \/ NotifyFails \/ Recover PROVE IInv'
<1>1. TypeOK BY DEF IInv
<1>2. workflow' \in Workflow
  BY <1>1, SignalTyped DEF Notify, NotifyFails, Recover, TypeOK, rebuildVars
<1>3. notices' \in Nat BY <1>1 DEF Notify, NotifyFails, Recover, TypeOK
<1>4. faults' \in 0..MaxFaults BY <1>1, FaultTyped DEF Notify, NotifyFails, Recover, TypeOK
<1>5. UNCHANGED <<contexts, entryVars, annotations, worldVars, lease, attempts, reviews>>
  BY DEF Notify, NotifyFails, Recover, rebuildVars
<1>6. TypeOK' BY <1>1, <1>2, <1>3, <1>4, <1>5 DEF TypeOK, entryVars, worldVars
<1> QED BY <1>5, <1>6, OthersHold

\* The workflow's own steps, and the end of a lease.
LEMMA WorkflowHolds ==
  ASSUME IInv, ReadWork \/ ReadFails \/ Decide \/ WaitEnds \/ RebuildTimesOut \/ LeaseEnds PROVE IInv'
<1>1. TypeOK BY DEF IInv
<1>2. workflow' \in Workflow
  <2>1. CASE ReadWork
    <3>1. PICK plan \in Plans : workflow' = [ClosedWorkflow EXCEPT !.phase = "decide", !.plan = plan]
      BY <2>1 DEF ReadWork
    <3>2. plan \in {"done", "wait", "rebuild"} BY DEF Plans
    <3> QED BY <3>1, <3>2, ClosedWorkflowTyped DEF Workflow
  <2>2. CASE ReadFails BY <1>1, <2>2, TryingTyped DEF ReadFails
  <2>3. CASE Decide
    <3> DEFINE phase == IF workflow.plan = "done" THEN "closed" ELSE workflow.plan
    <3>1. phase \in {"closed", "read", "decide", "wait", "rebuild", "rebuilding"}
      BY <1>1 DEF TypeOK, Workflow
    <3>2. GoesTo(phase) BY <2>3 DEF Decide
    <3> HIDE DEF phase
    <3> QED BY <3>1, <3>2, GoingTyped
  <2>4. CASE WaitEnds BY <2>4, GoingTyped DEF WaitEnds
  <2>5. CASE RebuildTimesOut BY <1>1, <2>5, TryingTyped DEF RebuildTimesOut
  <2>6. CASE LeaseEnds BY <1>1, <2>6 DEF LeaseEnds, TypeOK
  <2> QED BY <2>1, <2>2, <2>3, <2>4, <2>5, <2>6
<1>3. lease' \in Attempt \cup {NoAttempt}
  BY <1>1 DEF TypeOK, ReadWork, ReadFails, Decide, WaitEnds, RebuildTimesOut, LeaseEnds
<1>4. faults' \in 0..MaxFaults
  BY <1>1, FaultTyped DEF TypeOK, ReadWork, ReadFails, Decide, WaitEnds, RebuildTimesOut, LeaseEnds
<1>5. UNCHANGED <<contexts, entryVars, annotations, worldVars, notices, attempts, reviews>>
  BY DEF ReadWork, ReadFails, Decide, WaitEnds, RebuildTimesOut, LeaseEnds
<1>6. TypeOK' BY <1>1, <1>2, <1>3, <1>4, <1>5 DEF TypeOK, entryVars, worldVars
<1> QED BY <1>5, <1>6, OthersHold

\* A new attempt has read nothing and spent nothing.
LEMMA BeginRebuildHolds == ASSUME IInv, NEW a \in Attempt, BeginRebuild(a) PROVE IInv'
<1>1. TypeOK /\ attempts[a] \in Rebuild /\ AttemptFits(a) /\ SpendFits(a) /\ attempts[a].pc = "idle"
  BY AttemptFacts DEF BeginRebuild
<1>2. faults' \in 0..MaxFaults BY <1>1 DEF TypeOK, BeginRebuild
<1>3. UNCHANGED <<contexts, entryVars, annotations, worldVars, notices, reviews>> BY DEF BeginRebuild
<1>4. CASE lease # NoAttempt
  <2>1. workflow' \in Workflow BY <1>4, GoingTyped DEF BeginRebuild
  <2>2. UNCHANGED <<lease, attempts>> BY <1>4 DEF BeginRebuild
  <2>3. TypeOK' BY <1>1, <1>2, <1>3, <2>1, <2>2 DEF TypeOK, entryVars, worldVars
  <2> QED BY <1>3, <2>2, <2>3, OthersHold
<1>5. CASE lease = NoAttempt
  <2> DEFINE next == [attempts[a] EXCEPT !.pc = "revision", !.isBilled = FALSE]
  <2>1. /\ next \in Rebuild /\ next.pc = "revision" /\ next.sender = attempts[a].sender
        /\ next.revision = attempts[a].revision /\ next.spend = attempts[a].spend /\ ~next.isBilled
    BY <1>1 DEF Rebuild
  <2>2. attempts' = [attempts EXCEPT ![a] = next] BY <1>5 DEF BeginRebuild
  <2> HIDE DEF next
  <2>3. OnlyMoves(a) /\ attempts'[a] = next BY <1>1, <2>1, <2>2 DEF OnlyMoves, TypeOK
  <2>4. AttemptFits(a)' /\ SpendFits(a)'
    BY <1>1, <1>3, <2>1, <2>3 DEF AttemptFits, SpendFits, HasEntries
  <2>5. workflow' \in Workflow BY <1>1, <1>5 DEF BeginRebuild, TypeOK, Workflow
  <2>6. lease' \in Attempt \cup {NoAttempt} BY <1>5 DEF BeginRebuild
  <2> QED BY <1>2, <1>3, <2>3, <2>4, <2>5, <2>6, AttemptMoveHolds
<1> QED BY <1>4, <1>5

-----------------------------------------------------------------------------
(* Reviews *)

\* A review that moves alone, and whose annotations fit the contexts.
LEMMA ReviewHolds ==
  ASSUME IInv, NEW r \in Review,
         NEW review \in [pc : {"idle", "score", "save"}, seen : [Sender -> 0..MaxRevision], notes : SUBSET Sender],
         reviews' = [reviews EXCEPT ![r] = review], \A u \in review.notes : review.seen[u] # 0,
         annotations' \in [Sender -> 0..MaxRevision],
         \A u \in Sender : annotations'[u] # 0 => IsReady(u) /\ annotations'[u] = contexts[u].revision,
         UNCHANGED <<contexts, entryVars, worldVars, notices, rebuildVars, faults>>
  PROVE  IInv'
<1>1. TypeOK BY DEF IInv
<1>2. TypeOK' BY <1>1 DEF TypeOK, entryVars, worldVars, rebuildVars
<1>3. ASSUME NEW u \in Sender PROVE ContextFits(u)'
  <2>1. ContextFits(u) BY DEF IInv
  <2>2. contexts' = contexts /\ kept' = kept BY DEF entryVars
  <2> QED BY <2>1, <2>2 DEF ContextFits, IsReady
<1>4. ASSUME NEW b \in Attempt PROVE AttemptFits(b)' /\ SpendFits(b)'
  BY DEF IInv, AttemptFits, SpendFits, HasEntries, entryVars, rebuildVars
<1>5. ASSUME NEW q \in Review PROVE ReviewFits(q)'
  <2>1. reviews \in [Review -> [pc : {"idle", "score", "save"}, seen : [Sender -> 0..MaxRevision],
                                 notes : SUBSET Sender]]
    BY <1>1 DEF TypeOK
  <2>2. reviews'[q] = IF q = r THEN review ELSE reviews[q] BY <2>1
  <2>3. ReviewFits(q) BY DEF IInv
  <2> QED BY <2>2, <2>3 DEF ReviewFits
<1> QED BY <1>2, <1>3, <1>4, <1>5 DEF IInv

\* A review reads the ready contexts, and annotates nothing yet.
LEMMA LoadContextsHolds == ASSUME IInv, NEW r \in Review, LoadContexts(r) PROVE IInv'
<1> DEFINE seen == [u \in Sender |-> IF u \in editors /\ IsReady(u) THEN contexts[u].revision ELSE 0]
           review == [pc |-> "score", notes |-> {}, seen |-> seen]
<1>1. TypeOK /\ \A u \in Sender : ContextFits(u) BY DEF IInv
<1>2. \A u \in Sender : contexts[u].revision \in 0..MaxRevision BY <1>1 DEF TypeOK, Context
<1>3. seen \in [Sender -> 0..MaxRevision] BY <1>2, ContextAssumption
<1>4. reviews' = [reviews EXCEPT ![r] = review] BY DEF LoadContexts
<1> HIDE DEF seen
<1>5. review \in [pc : {"idle", "score", "save"}, seen : [Sender -> 0..MaxRevision], notes : SUBSET Sender]
  BY <1>3
<1>6. \A u \in review.notes : review.seen[u] # 0 OBVIOUS
<1> HIDE DEF review
<1>7. annotations' = annotations BY DEF LoadContexts
<1>8. /\ annotations' \in [Sender -> 0..MaxRevision]
      /\ \A u \in Sender : annotations'[u] # 0 => IsReady(u) /\ annotations'[u] = contexts[u].revision
  BY <1>1, <1>7 DEF TypeOK, ContextFits
<1> QED BY <1>4, <1>5, <1>6, <1>8, ReviewHolds DEF LoadContexts

\* A review scores for the contexts it has read, or stops.
LEMMA ScoreHolds == ASSUME IInv, NEW r \in Review, Score(r) PROVE IInv'
<1>1. TypeOK /\ \A u \in Sender : ContextFits(u) BY DEF IInv
<1>2. reviews[r] \in [pc : {"idle", "score", "save"}, seen : [Sender -> 0..MaxRevision], notes : SUBSET Sender]
  BY <1>1 DEF TypeOK
<1>3. /\ annotations' \in [Sender -> 0..MaxRevision]
      /\ \A u \in Sender : annotations'[u] # 0 => IsReady(u) /\ annotations'[u] = contexts[u].revision
  BY <1>1 DEF TypeOK, ContextFits, Score
<1>4. ASSUME NEW notes \in SUBSET {u \in Sender : reviews[r].seen[u] # 0},
             reviews' = [reviews EXCEPT ![r] = [reviews[r] EXCEPT !.pc = "save", !.notes = notes]]
      PROVE  IInv'
  <2> DEFINE review == [reviews[r] EXCEPT !.pc = "save", !.notes = notes]
  <2>1. review \in [pc : {"idle", "score", "save"}, seen : [Sender -> 0..MaxRevision], notes : SUBSET Sender]
    BY <1>2
  <2>2. \A u \in review.notes : review.seen[u] # 0 BY <1>2
  <2>3. reviews' = [reviews EXCEPT ![r] = review] BY <1>4
  <2> HIDE DEF review
  <2> QED BY <1>3, <2>1, <2>2, <2>3, ReviewHolds DEF Score
<1>5. CASE reviews' = [reviews EXCEPT ![r] = NewReview]
  <2>1. NewReview \in [pc : {"idle", "score", "save"}, seen : [Sender -> 0..MaxRevision], notes : SUBSET Sender]
    BY ContextAssumption DEF NewReview
  <2>2. \A u \in NewReview.notes : NewReview.seen[u] # 0 BY DEF NewReview
  <2> QED BY <1>3, <1>5, <2>1, <2>2, ReviewHolds DEF Score
<1> QED BY <1>4, <1>5 DEF Score

\* The transaction annotates for contexts that are ready at the revision that was read.
LEMMA SaveFindingHolds == ASSUME IInv, NEW r \in Review, SaveFinding(r) PROVE IInv'
<1>1. TypeOK /\ ReviewFits(r) /\ \A u \in Sender : ContextFits(u) BY DEF IInv
<1>2. reviews[r] \in [pc : {"idle", "score", "save"}, seen : [Sender -> 0..MaxRevision], notes : SUBSET Sender]
  BY <1>1 DEF TypeOK
<1>3. /\ NewReview \in [pc : {"idle", "score", "save"}, seen : [Sender -> 0..MaxRevision], notes : SUBSET Sender]
      /\ \A u \in NewReview.notes : NewReview.seen[u] # 0
  BY ContextAssumption DEF NewReview
<1>4. /\ annotations' \in [Sender -> 0..MaxRevision]
      /\ \A u \in Sender : annotations'[u] # 0 => IsReady(u) /\ annotations'[u] = contexts[u].revision
  <2>1. CASE ~CanSave(r) BY <1>1, <2>1 DEF TypeOK, ContextFits, SaveFinding
  <2>2. CASE CanSave(r)
    <3>1. annotations' = [u \in Sender |-> IF u \in reviews[r].notes THEN reviews[r].seen[u] ELSE 0]
      BY <2>2 DEF SaveFinding
    <3>2. annotations' \in [Sender -> 0..MaxRevision] BY <1>2, <3>1, ContextAssumption
    <3>3. ASSUME NEW u \in Sender, annotations'[u] # 0
          PROVE  IsReady(u) /\ annotations'[u] = contexts[u].revision
      <4>1. u \in reviews[r].notes /\ annotations'[u] = reviews[r].seen[u] BY <3>1, <3>3
      <4> QED BY <1>1, <2>2, <4>1 DEF ReviewFits, CanSave, AreCurrent
    <3> QED BY <3>2, <3>3
  <2> QED BY <2>1, <2>2
<1> QED BY <1>3, <1>4, ReviewHolds DEF SaveFinding

-----------------------------------------------------------------------------
(* Every state *)

\* The initial states have the invariant.
LEMMA InitHolds == Init => IInv
<1> SUFFICES ASSUME Init PROVE IInv OBVIOUS
<1>1. NewContext \in Context /\ ClosedWorkflow \in Workflow
  BY ContextAssumption, ClosedWorkflowTyped DEF NewContext, Context
<1>2. NewReview \in [pc : {"idle", "score", "save"}, seen : [Sender -> 0..MaxRevision], notes : SUBSET Sender]
  BY ContextAssumption DEF NewReview
<1>3. PICK s \in Sender :
        attempts = [a \in Attempt |->
          [pc |-> "idle", sender |-> s, revision |-> 0, hasKey |-> FALSE, entries |-> {},
           spend |-> "none", isBilled |-> FALSE, failure |-> "failed"]]
  BY DEF Init
<1>4. attempts \in [Attempt -> Rebuild] BY <1>3, ContextAssumption DEF Rebuild, RetryState
<1>5. TypeOK
  <2>1. reviews = [r \in Review |-> NewReview] /\ workflow = ClosedWorkflow /\ contexts = [u \in Sender |-> NewContext]
    BY DEF Init
  <2>2. /\ contexts \in [Sender -> Context]
        /\ reviews \in [Review -> [pc : {"idle", "score", "save"}, seen : [Sender -> 0..MaxRevision],
                                   notes : SUBSET Sender]]
    BY <1>1, <1>2, <2>1
  <2>3. /\ kept \in [Sender -> SUBSET Entry] /\ sent \in [Sender -> SUBSET Entry]
        /\ annotations \in [Sender -> 0..MaxRevision] /\ turns \in 0..MaxTurns /\ faults \in 0..MaxFaults
    BY ContextAssumption DEF Init
  <2>4. editors \subseteq Sender /\ hasKey \in BOOLEAN /\ notices \in Nat /\ lease \in Attempt \cup {NoAttempt}
    BY DEF Init
  <2> QED BY <1>1, <1>4, <2>1, <2>2, <2>3, <2>4 DEF TypeOK
<1>6. ASSUME NEW u \in Sender PROVE ContextFits(u)
  BY DEF Init, ContextFits, IsReady, NewContext
<1>7. ASSUME NEW a \in Attempt PROVE AttemptFits(a) /\ SpendFits(a)
  <2>1. /\ attempts[a].pc = "idle" /\ attempts[a].sender = s /\ attempts[a].revision = 0
        /\ attempts[a].spend = "none" /\ ~attempts[a].isBilled
    BY <1>3
  <2>2. contexts[s].revision = 0 BY DEF Init, NewContext
  <2> QED BY <2>1, <2>2 DEF AttemptFits, SpendFits, HasEntries
<1>8. ASSUME NEW r \in Review PROVE ReviewFits(r) BY DEF Init, NewReview, ReviewFits
<1> QED BY <1>5, <1>6, <1>7, <1>8 DEF IInv

\* Every step keeps the invariant.
LEMMA NextHolds == ASSUME IInv, [Next]_vars PROVE IInv'
<1>1. ASSUME NEW u \in Sender, Receive(u) \/ Remove(u) \/ EditorsChange(u) \/ Ages(u) PROVE IInv'
  BY <1>1, ReceiveHolds, RemoveHolds, WorldHolds, AgesHolds
<1>2. CASE OwnerGetsKey \/ Notify \/ NotifyFails \/ Recover BY <1>2, WorldHolds, StartHolds
<1>3. CASE ReadWork \/ ReadFails \/ Decide \/ WaitEnds \/ RebuildTimesOut \/ LeaseEnds
  BY <1>3, WorkflowHolds
<1>4. ASSUME NEW a \in Attempt, \/ BeginRebuild(a) \/ AttemptStep(a) \/ GenerateFails(a) \/ CommitThrows(a)
                                \/ AttemptThrows(a) \/ Crash(a)
      PROVE  IInv'
  <2>1. CASE AttemptStep(a)
    BY <2>1, ReadRevisionHolds, ReadEntriesHolds, ReserveSpendHolds, StartSpendHolds, GenerateHolds,
       CommitHolds, RecordSpendHolds, FailContextHolds DEF AttemptStep
  <2>2. CASE BeginRebuild(a) \/ GenerateFails(a) \/ CommitThrows(a) \/ AttemptThrows(a) \/ Crash(a)
    BY <2>2, BeginRebuildHolds, GenerateFailsHolds, CommitThrowsHolds, AttemptThrowsHolds, CrashHolds
  <2> QED BY <1>4, <2>1, <2>2
<1>5. ASSUME NEW r \in Review, LoadContexts(r) \/ Score(r) \/ SaveFinding(r) PROVE IInv'
  BY <1>5, LoadContextsHolds, ScoreHolds, SaveFindingHolds
<1>6. CASE UNCHANGED vars
  <2>1. TypeOK' BY <1>6 DEF vars, IInv, TypeOK, entryVars, worldVars, rebuildVars
  <2> QED BY <1>6, <2>1, OthersHold DEF vars, rebuildVars
<1> QED BY <1>1, <1>2, <1>3, <1>4, <1>5, <1>6 DEF Next

\* The invariant holds in every state.
LEMMA Invariance == Spec => []IInv
<1>1. IInv /\ [Next]_vars => IInv' BY NextHolds
<1> QED BY <1>1, InitHolds, PTL DEF Spec

-----------------------------------------------------------------------------
(* Theorems *)

\* Every variable keeps its type: no revision is processed beyond the bound, the workflow
\* starts no attempt past maximumAttempts, and a failure is one of the states that a retry knows.
THEOREM TypeCorrect == Spec => []TypeOK
BY Invariance, PTL DEF IInv

\* A stored text was written from exactly the entries that its sender has left there, for
\* any number of overlapping rebuilds: the check on the revision in each write is enough,
\* though the revision and the entries are read by separate statements.
THEOREM StoredTextIsWhole == Spec => []TextIsWhole
<1>1. IInv => TextIsWhole BY DEF IInv, ContextFits, TextIsWhole
<1> QED BY <1>1, Invariance, PTL

\* A context is marked for the sweep exactly while a revision is not processed, whatever
\* late commits and late failures of attempts that were given up do.
THEOREM SweepSeesUnprocessed == Spec => []UnprocessedIsDirty
<1>1. IInv => UnprocessedIsDirty BY DEF IInv, ContextFits, UnprocessedIsDirty
<1> QED BY <1>1, Invariance, PTL

\* An annotation tells of its sender's entries as they are, though a review scores between
\* two checks: the check that upsertFinding repeats in its transaction is enough.
THEOREM AnnotationStaysCurrent == Spec => []AnnotationIsCurrent
<1>1. IInv => AnnotationIsCurrent BY DEF IInv, ContextFits, AnnotationIsCurrent
<1> QED BY <1>1, Invariance, PTL

\* A billed model call has a spend with a cost wherever its attempt stopped.
THEOREM BilledStaysRecorded == Spec => []BilledIsRecorded
<1>1. IInv => BilledIsRecorded BY DEF IInv, SpendFits, BilledIsRecorded
<1> QED BY <1>1, Invariance, PTL

=============================================================================
