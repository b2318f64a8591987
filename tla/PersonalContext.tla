-------------------------- MODULE PersonalContext --------------------------
(***************************************************************************)
(* The private context that a Topic has of each sender's Personal sources: *)
(* the entries a sender gives and takes back, the revision that every such *)
(* change advances, the workflow that summarizes the entries again, and    *)
(* the reviews that read the summary and keep private annotations.         *)
(*                                                                         *)
(* A change commits in one transaction and is told to the Topic's workflow *)
(* afterwards, by a call that may be lost.  A rebuild reads the revision,  *)
(* the entries and the model's answer one after the other, may overlap     *)
(* another rebuild whose attempt was given up, and may stop anywhere.      *)
(***************************************************************************)
EXTENDS Naturals

CONSTANTS
  Sender,      \* the users that send to the Topic
  Entry,       \* the entries that each may send
  Attempt,     \* the attempts of rebuildPersonalSourcesContext that may run side by side
  NoAttempt,   \* stands for no attempt
  Review,      \* the reviews that may run side by side
  MaxAttempts, \* maximumAttempts of the workflow's activities (bound; the code has 3)
  MaxRevision, \* bound on the revisions of a context
  MaxTurns,    \* bound on changes of who may edit the Topic
  MaxFaults    \* bound on failed calls, statements and starts, and on exits

ASSUME ContextAssumption ==
  /\ NoAttempt \notin Attempt
  /\ MaxAttempts \in Nat \ {0} /\ MaxRevision \in Nat /\ MaxTurns \in Nat /\ MaxFaults \in Nat

VARIABLES
  contexts,    \* topic_personal_source_contexts, a row for each sender
  kept,        \* the entries of each sender that are stored
  sent,        \* the entries that each sender has sent
  annotations, \* the revision behind each sender's annotation of a Finding, 0 for none
  editors,     \* the senders that may edit the Topic
  hasKey,      \* the Topic's owner has a LiteLLM key
  notices,     \* the changes whose caller has still to notify the workflow
  workflow,    \* the Topic's summarizePersonalSourcesContext workflow
  lease,       \* the attempt that holds the Topic's job lease
  attempts,    \* how far each attempt has come
  reviews,     \* how far each review has come
  turns,       \* changes of the editors so far
  faults       \* faults so far

entryVars == <<kept, sent>>
worldVars == <<editors, hasKey, turns>>
rebuildVars == <<workflow, lease, attempts>>
vars == <<contexts, entryVars, annotations, worldVars, notices, rebuildVars, reviews, faults>>

-----------------------------------------------------------------------------
(* Types *)

RetryState == {"failed", "budget", "missing_key"}

\* No text stands for a null encryptedContext.  The age runs from updatedAt: past
\* thirty seconds it is "quiet", and past fifteen minutes "old".
Context == [revision : 0..MaxRevision, processed : 0..MaxRevision,
            state : {"empty", "pending", "ready"} \cup RetryState,
            text : SUBSET Entry, isDirty : BOOLEAN, age : {"new", "quiet", "old"}]

Workflow == [phase : {"closed", "read", "decide", "wait", "rebuild", "rebuilding"},
             plan : {"done", "wait", "rebuild"}, tries : 0..(MaxAttempts - 1),
             attempt : Attempt \cup {NoAttempt}]

Rebuild == [pc : {"idle", "revision", "entries", "reserve", "start", "model", "commit", "record", "fail"},
            sender : Sender, revision : 0..MaxRevision, hasKey : BOOLEAN, entries : SUBSET Entry,
            spend : {"none", "started", "succeeded", "failed", "unknown"}, isBilled : BOOLEAN,
            failure : RetryState]

TypeOK ==
  /\ contexts \in [Sender -> Context]
  /\ kept \in [Sender -> SUBSET Entry] /\ sent \in [Sender -> SUBSET Entry]
  /\ annotations \in [Sender -> 0..MaxRevision]
  /\ editors \subseteq Sender /\ hasKey \in BOOLEAN
  /\ notices \in Nat
  /\ workflow \in Workflow
  /\ lease \in Attempt \cup {NoAttempt}
  /\ attempts \in [Attempt -> Rebuild]
  /\ reviews \in [Review -> [pc : {"idle", "score", "save"}, seen : [Sender -> 0..MaxRevision],
                             notes : SUBSET Sender]]
  /\ turns \in 0..MaxTurns /\ faults \in 0..MaxFaults

-----------------------------------------------------------------------------

NewContext == [revision |-> 0, processed |-> 0, state |-> "empty", text |-> {},
               isDirty |-> FALSE, age |-> "new"]

ClosedWorkflow == [phase |-> "closed", plan |-> "done", tries |-> 0, attempt |-> NoAttempt]

NewReview == [pc |-> "idle", seen |-> [u \in Sender |-> 0], notes |-> {}]

\* A sender without a row is a sender whose row is as its INSERT leaves it.
Init ==
  /\ contexts = [u \in Sender |-> NewContext]
  /\ kept = [u \in Sender |-> {}] /\ sent = [u \in Sender |-> {}]
  /\ annotations = [u \in Sender |-> 0]
  /\ editors = Sender /\ hasKey \in BOOLEAN
  /\ notices = 0
  /\ workflow = ClosedWorkflow
  /\ lease = NoAttempt
  /\ \E u \in Sender :
       attempts = [a \in Attempt |->
         [pc |-> "idle", sender |-> u, revision |-> 0, hasKey |-> FALSE, entries |-> {},
          spend |-> "none", isBilled |-> FALSE, failure |-> "failed"]]
  /\ reviews = [r \in Review |-> NewReview]
  /\ turns = 0 /\ faults = 0

Fault == faults < MaxFaults /\ faults' = faults + 1

-----------------------------------------------------------------------------
(* Changes of the entries *)

\* invalidatePersonalSourcesContext, in the transaction of the change.
Invalidate(u) ==
  /\ contexts[u].revision < MaxRevision
  /\ contexts' = [contexts EXCEPT ![u] =
       [contexts[u] EXCEPT !.revision = @ + 1, !.state = "pending", !.text = {}, !.isDirty = TRUE, !.age = "new"]]
  /\ annotations' = [annotations EXCEPT ![u] = 0]

\* A send, an email, or an import of several entries under one revision.
Receive(u) ==
  /\ u \in editors
  /\ \E es \in SUBSET (Entry \ sent[u]) \ {{}} :
       /\ kept' = [kept EXCEPT ![u] = @ \cup es]
       /\ sent' = [sent EXCEPT ![u] = @ \cup es]
  /\ Invalidate(u)
  /\ notices' = notices + 1
  /\ UNCHANGED <<worldVars, rebuildVars, reviews, faults>>

\* An entry is deleted, or a Source with its entries, of which it may have none.
\* A sender may do so after losing the Topic.
Remove(u) ==
  /\ contexts[u].revision > 0
  /\ \E es \in SUBSET kept[u] : kept' = [kept EXCEPT ![u] = @ \ es]
  /\ Invalidate(u)
  /\ notices' = notices + 1
  /\ UNCHANGED <<sent, worldVars, rebuildVars, reviews, faults>>

EditorsChange(u) ==
  /\ turns < MaxTurns /\ turns' = turns + 1
  /\ editors' = IF u \in editors THEN editors \ {u} ELSE editors \cup {u}
  /\ UNCHANGED <<contexts, entryVars, annotations, hasKey, notices, rebuildVars, reviews, faults>>

OwnerGetsKey ==
  /\ ~hasKey /\ hasKey' = TRUE
  /\ UNCHANGED <<contexts, entryVars, annotations, editors, turns, notices, rebuildVars, reviews, faults>>

\* Time passes for a context that waits.
Ages(u) ==
  /\ contexts[u].isDirty /\ contexts[u].age # "old"
  /\ contexts' = [contexts EXCEPT ![u].age = IF @ = "new" THEN "quiet" ELSE "old"]
  /\ UNCHANGED <<entryVars, annotations, worldVars, notices, rebuildVars, reviews, faults>>

-----------------------------------------------------------------------------
(* Starting the workflow *)

\* signalWithStart: a signal to a running workflow only ends its wait, which may end anyway.
SignalWithStart ==
  workflow' = IF workflow.phase = "closed" THEN [ClosedWorkflow EXCEPT !.phase = "read"] ELSE workflow

Notify ==
  /\ notices > 0 /\ notices' = notices - 1
  /\ SignalWithStart
  /\ UNCHANGED <<contexts, entryVars, annotations, worldVars, lease, attempts, reviews, faults>>

\* The caller exits before it notifies, or the call fails and is only logged.
NotifyFails ==
  /\ notices > 0 /\ notices' = notices - 1
  /\ Fault
  /\ UNCHANGED <<contexts, entryVars, annotations, worldVars, rebuildVars, reviews>>

\* Mutant: the sweep looks for the contexts whose rebuild failed.
RecoverableFailed(u) == u \in editors /\ contexts[u].state \in RetryState

\* loadPendingPersonalSourcesTopicIds
Recoverable(u) == u \in editors /\ contexts[u].isDirty

\* The scheduled sweep finds the Topic among those with a waiting context.
Recover ==
  /\ \E u \in Sender : Recoverable(u)
  /\ SignalWithStart
  /\ UNCHANGED <<contexts, entryVars, annotations, worldVars, notices, lease, attempts, reviews, faults>>

-----------------------------------------------------------------------------
(* The workflow *)

GoesTo(phase) == workflow' = [ClosedWorkflow EXCEPT !.phase = phase]

HasAttemptLeft == workflow.tries + 1 < MaxAttempts

\* An activity's attempt failed: another attempt, or the workflow fails.
TriesAgain(phase) ==
  workflow' = IF HasAttemptLeft
              THEN [workflow EXCEPT !.phase = phase, !.tries = @ + 1, !.attempt = NoAttempt]
              ELSE ClosedWorkflow

Waiting == {u \in editors : contexts[u].revision # contexts[u].processed /\ contexts[u].isDirty}

IsRetry(u) ==
  \/ contexts[u].state \in {"failed", "budget"}
  \/ contexts[u].state = "missing_key" /\ ~hasKey

IsDue(u) == contexts[u].age = "old" \/ (contexts[u].age = "quiet" /\ ~IsRetry(u))

\* personalSourcesWorkDelay of what the read returns.  The five minutes since
\* dirtySince may be over before the thirty seconds since the last change.
Plans ==
  {p \in {"done", "wait", "rebuild"} :
     CASE p = "done" -> Waiting = {}
       [] p = "wait" -> Waiting # {} /\ \A u \in Waiting : ~IsDue(u)
       [] p = "rebuild" -> \E u \in Waiting : IsDue(u) \/ ~IsRetry(u)}

ReadWork ==
  /\ workflow.phase = "read"
  /\ \E plan \in Plans : workflow' = [ClosedWorkflow EXCEPT !.phase = "decide", !.plan = plan]
  /\ UNCHANGED <<contexts, entryVars, annotations, worldVars, notices, lease, attempts, reviews, faults>>

ReadFails ==
  /\ workflow.phase = "read"
  /\ Fault
  /\ TriesAgain("read")
  /\ UNCHANGED <<contexts, entryVars, annotations, worldVars, notices, lease, attempts, reviews>>

\* The workflow ends on what it read, whatever was signalled since.
Decide ==
  /\ workflow.phase = "decide"
  /\ GoesTo(IF workflow.plan = "done" THEN "closed" ELSE workflow.plan)
  /\ UNCHANGED <<contexts, entryVars, annotations, worldVars, notices, lease, attempts, reviews, faults>>

WaitEnds ==
  /\ workflow.phase = "wait"
  /\ GoesTo("read")
  /\ UNCHANGED <<contexts, entryVars, annotations, worldVars, notices, lease, attempts, reviews, faults>>

\* runWithJobLease: the attempt takes the lease, or answers that the Topic is busy.
BeginRebuild(a) ==
  /\ workflow.phase = "rebuild" /\ attempts[a].pc = "idle"
  /\ IF lease = NoAttempt
     THEN /\ lease' = a
          /\ attempts' = [attempts EXCEPT ![a] =
               [@ EXCEPT !.pc = "revision", !.isBilled = FALSE]]
          /\ workflow' = [workflow EXCEPT !.phase = "rebuilding", !.attempt = a]
     ELSE GoesTo("wait") /\ UNCHANGED <<lease, attempts>>
  /\ UNCHANGED <<contexts, entryVars, annotations, worldVars, notices, reviews, faults>>

\* The activity times out beside its attempt, or the worker of the attempt has exited.
RebuildTimesOut ==
  /\ workflow.phase = "rebuilding"
  /\ Fault \/ (attempts[workflow.attempt].pc = "idle" /\ UNCHANGED faults)
  /\ TriesAgain("rebuild")
  /\ UNCHANGED <<contexts, entryVars, annotations, worldVars, notices, lease, attempts, reviews>>

\* The lease runs out after its holder exited, or beside it.
LeaseEnds ==
  /\ lease # NoAttempt /\ lease' = NoAttempt
  /\ Fault \/ (attempts[lease].pc = "idle" /\ UNCHANGED faults)
  /\ UNCHANGED <<contexts, entryVars, annotations, worldVars, notices, workflow, attempts, reviews>>

-----------------------------------------------------------------------------
(* An attempt of rebuildPersonalSourcesContext *)

\* The spends that count a cost against the owner's budget: the largest one until the cost is known.
CostSpends == {"started", "succeeded", "unknown"}

\* An attempt that ended is forgotten, unless it was billed and no spend has a cost for it.
Ended(attempt) ==
  [attempt EXCEPT !.pc = "idle", !.revision = 0, !.hasKey = FALSE, !.entries = {}, !.failure = "failed",
                  !.isBilled = @ /\ attempt.spend \notin CostSpends, !.spend = "none"]

\* The attempt ends and releases its lease.  The workflow hears of it if it still waits.
Ends(a, outcome) ==
  /\ attempts' = [attempts EXCEPT ![a] = Ended(@)]
  /\ lease' = IF lease = a THEN NoAttempt ELSE lease
  /\ CASE workflow.attempt # a -> UNCHANGED workflow
       [] workflow.attempt = a /\ outcome = "idle" -> GoesTo("wait")
       [] workflow.attempt = a /\ outcome = "threw" -> TriesAgain("rebuild")
       [] OTHER -> GoesTo("read")

Continues(a, attempt) ==
  /\ attempts' = [attempts EXCEPT ![a] = attempt]
  /\ UNCHANGED <<workflow, lease>>

\* A context whose rebuild failed is left alone for fifteen minutes.
CanRebuild(u) ==
  /\ u \in editors /\ contexts[u].revision > contexts[u].processed
  /\ \/ contexts[u].state \in {"pending", "empty"}
     \/ contexts[u].state = "missing_key" /\ hasKey
     \/ contexts[u].age = "old"

\* loadPersonalSourcesContextSnapshot selects one sender's context.
ReadRevision(a) ==
  /\ attempts[a].pc = "revision"
  /\ \/ /\ \A u \in Sender : ~CanRebuild(u)
        /\ Ends(a, "idle")
     \/ \E u \in Sender :
          /\ CanRebuild(u)
          /\ Continues(a, [attempts[a] EXCEPT !.pc = "entries", !.sender = u, !.hasKey = hasKey,
                                              !.revision = contexts[u].revision])
  /\ UNCHANGED <<contexts, entryVars, annotations, worldVars, notices, reviews, faults>>

\* It then reads the sender's entries, by a statement of its own.
ReadEntries(a) ==
  LET attempt == [attempts[a] EXCEPT !.entries = kept[attempts[a].sender]] IN
  /\ attempts[a].pc = "entries"
  /\ Continues(a,
       IF attempt.entries = {} THEN [attempt EXCEPT !.pc = "commit"]
       ELSE IF attempt.hasKey THEN [attempt EXCEPT !.pc = "reserve"]
       ELSE [attempt EXCEPT !.pc = "fail", !.failure = "missing_key"])
  /\ UNCHANGED <<contexts, entryVars, annotations, worldVars, notices, reviews, faults>>

\* reserveUserSpend
ReserveSpend(a) ==
  /\ attempts[a].pc = "reserve"
  /\ \/ Continues(a, [attempts[a] EXCEPT !.pc = "start"]) /\ UNCHANGED faults
     \/ Fault /\ Continues(a, [attempts[a] EXCEPT !.pc = "fail", !.failure = "budget"])
  /\ UNCHANGED <<contexts, entryVars, annotations, worldVars, notices, reviews>>

\* Mutant: a write does not look at the revision that was summarized.
IsUnprocessed(a) ==
  LET u == attempts[a].sender IN u \in editors /\ contexts[u].processed < attempts[a].revision

\* Mutant: a write does not look at the revision that was processed.
IsRevision(a) ==
  LET u == attempts[a].sender IN u \in editors /\ contexts[u].revision = attempts[a].revision

\* The condition on every write for a snapshot.
IsCurrent(a) ==
  LET u == attempts[a].sender IN
  /\ u \in editors
  /\ contexts[u].revision = attempts[a].revision
  /\ contexts[u].processed < attempts[a].revision

\* Mutant: the spend is recorded when its cost is known.
BeforeModelUnrecorded(a) == [attempts[a] EXCEPT !.pc = "model"]

\* The spend is recorded at the largest cost before the call that may cost it.
BeforeModel(a) == [attempts[a] EXCEPT !.pc = "model", !.spend = "started"]

StartSpend(a) ==
  /\ attempts[a].pc = "start"
  /\ IF IsCurrent(a) THEN Continues(a, BeforeModel(a)) ELSE Ends(a, "stale")
  /\ UNCHANGED <<contexts, entryVars, annotations, worldVars, notices, reviews, faults>>

Generate(a) ==
  /\ attempts[a].pc = "model"
  /\ Continues(a, [attempts[a] EXCEPT !.pc = "commit", !.isBilled = TRUE])
  /\ UNCHANGED <<contexts, entryVars, annotations, worldVars, notices, reviews, faults>>

\* The proxy rejects the call, or it fails and may still have been billed.
GenerateFails(a) ==
  /\ attempts[a].pc = "model"
  /\ Fault
  /\ \/ Continues(a, [attempts[a] EXCEPT !.pc = "record", !.failure = "budget"])
     \/ \E isBilled \in BOOLEAN :
          Continues(a, [attempts[a] EXCEPT !.pc = "record", !.failure = "failed", !.isBilled = isBilled])
  /\ UNCHANGED <<contexts, entryVars, annotations, worldVars, notices, reviews>>

\* commitPersonalSourcesContext, in one transaction with the spend's cost.
Committed(a) ==
  IF IsCurrent(a)
  THEN [contexts EXCEPT ![attempts[a].sender] =
         [@ EXCEPT !.processed = attempts[a].revision, !.text = attempts[a].entries,
                   !.state = IF attempts[a].entries = {} THEN "empty" ELSE "ready",
                   !.isDirty = FALSE, !.age = "new"]]
  ELSE contexts

Spent(a) == IF attempts[a].spend = "none" THEN "none" ELSE "succeeded"

Commit(a) ==
  /\ attempts[a].pc = "commit"
  /\ contexts' = Committed(a)
  /\ attempts' = [attempts EXCEPT ![a] = Ended([@ EXCEPT !.spend = Spent(a)])]
  /\ lease' = IF lease = a THEN NoAttempt ELSE lease
  /\ IF workflow.attempt = a THEN GoesTo("read") ELSE UNCHANGED workflow
  /\ UNCHANGED <<entryVars, annotations, worldVars, notices, reviews, faults>>

\* The transaction throws, and may have committed.  A paid attempt records a failure.
CommitThrows(a) ==
  /\ attempts[a].pc = "commit"
  /\ Fault
  /\ \E isCommitted \in BOOLEAN :
       /\ contexts' = IF isCommitted THEN Committed(a) ELSE contexts
       /\ IF attempts[a].spend = "none" THEN Ends(a, "threw")
          ELSE Continues(a, [attempts[a] EXCEPT !.pc = "record", !.failure = "failed",
                                                !.spend = IF isCommitted THEN Spent(a) ELSE @])
  /\ UNCHANGED <<entryVars, annotations, worldVars, notices, reviews>>

\* A rejected call cost nothing, any other failure the largest cost.
RecordSpend(a) ==
  /\ attempts[a].pc = "record"
  /\ Continues(a, [attempts[a] EXCEPT !.pc = "fail",
                                      !.spend = IF attempts[a].failure = "budget" THEN "failed" ELSE "unknown"])
  /\ UNCHANGED <<contexts, entryVars, annotations, worldVars, notices, reviews, faults>>

\* failPersonalSourcesContext
FailContext(a) ==
  /\ attempts[a].pc = "fail"
  /\ contexts' = IF IsCurrent(a)
                 THEN [contexts EXCEPT ![attempts[a].sender] =
                        [@ EXCEPT !.state = attempts[a].failure, !.text = {}, !.age = "new"]]
                 ELSE contexts
  /\ Ends(a, "retry")
  /\ UNCHANGED <<entryVars, annotations, worldVars, notices, reviews, faults>>

\* A statement outside the try block throws.
AttemptThrows(a) ==
  /\ attempts[a].pc \in {"revision", "entries", "reserve", "start", "record", "fail"}
  /\ Fault
  /\ Ends(a, "threw")
  /\ UNCHANGED <<contexts, entryVars, annotations, worldVars, notices, reviews>>

\* The worker exits: nobody releases the lease, and the workflow hears nothing.
Crash(a) ==
  /\ attempts[a].pc # "idle"
  /\ Fault
  /\ attempts' = [attempts EXCEPT ![a] = Ended(@)]
  /\ UNCHANGED <<contexts, entryVars, annotations, worldVars, notices, workflow, lease, reviews>>

AttemptStep(a) ==
  \/ ReadRevision(a) \/ ReadEntries(a) \/ ReserveSpend(a) \/ StartSpend(a) \/ Generate(a)
  \/ Commit(a) \/ RecordSpend(a) \/ FailContext(a)

-----------------------------------------------------------------------------
(* Reviews *)

\* readyContextFilter
IsReady(u) == contexts[u].state = "ready" /\ contexts[u].revision = contexts[u].processed

\* buildTopicScanContext reads every ready context of the Topic.
LoadContexts(r) ==
  /\ reviews[r].pc = "idle"
  /\ reviews' = [reviews EXCEPT ![r] =
       [pc |-> "score", notes |-> {},
        seen |-> [u \in Sender |-> IF u \in editors /\ IsReady(u) THEN contexts[u].revision ELSE 0]]]
  /\ UNCHANGED <<contexts, entryVars, annotations, worldVars, notices, rebuildVars, faults>>

\* assertPersonalSourcesReviewCurrent, and isPersonalSourcesContextCurrent in the Finding's transaction.
AreCurrent(r) ==
  \A u \in Sender : reviews[r].seen[u] # 0 =>
    u \in editors /\ IsReady(u) /\ contexts[u].revision = reviews[r].seen[u]

\* A model call for each sender, between two checks; the answer may leave out its annotation.
Score(r) ==
  /\ reviews[r].pc = "score"
  /\ \/ /\ AreCurrent(r)
        /\ \E notes \in SUBSET {u \in Sender : reviews[r].seen[u] # 0} :
             reviews' = [reviews EXCEPT ![r] = [@ EXCEPT !.pc = "save", !.notes = notes]]
     \/ ~AreCurrent(r) /\ reviews' = [reviews EXCEPT ![r] = NewReview]
  /\ UNCHANGED <<contexts, entryVars, annotations, worldVars, notices, rebuildVars, faults>>

\* Mutant: the transaction trusts the check before it.
WasChecked(r) == TRUE

CanSave(r) == AreCurrent(r)

\* upsertFinding replaces the Finding's annotations under the Topic's lock.
SaveFinding(r) ==
  /\ reviews[r].pc = "save"
  /\ annotations' = IF CanSave(r)
                    THEN [u \in Sender |-> IF u \in reviews[r].notes THEN reviews[r].seen[u] ELSE 0]
                    ELSE annotations
  /\ reviews' = [reviews EXCEPT ![r] = NewReview]
  /\ UNCHANGED <<contexts, entryVars, worldVars, notices, rebuildVars, faults>>

-----------------------------------------------------------------------------

Next ==
  \/ \E u \in Sender : Receive(u) \/ Remove(u) \/ EditorsChange(u) \/ Ages(u)
  \/ OwnerGetsKey \/ Notify \/ NotifyFails \/ Recover
  \/ ReadWork \/ ReadFails \/ Decide \/ WaitEnds \/ RebuildTimesOut \/ LeaseEnds
  \/ \E a \in Attempt : \/ BeginRebuild(a) \/ AttemptStep(a) \/ GenerateFails(a) \/ CommitThrows(a)
                        \/ AttemptThrows(a) \/ Crash(a)
  \/ \E r \in Review : LoadContexts(r) \/ Score(r) \/ SaveFinding(r)

\* The sweep and the workflow go on, attempts run, leases and activities of a worker
\* that exited time out, and time passes.  No caller has to notify, and no owner to get a key.
Fairness ==
  /\ WF_vars(Recover)
  /\ WF_vars(ReadWork) /\ WF_vars(Decide) /\ WF_vars(WaitEnds)
  /\ WF_vars(\E a \in Attempt : BeginRebuild(a))
  /\ WF_vars(RebuildTimesOut) /\ WF_vars(LeaseEnds)
  /\ \A a \in Attempt : WF_vars(AttemptStep(a))
  /\ \A u \in Sender : WF_vars(Ages(u))

Spec == Init /\ [][Next]_vars /\ Fairness

-----------------------------------------------------------------------------
(* Properties *)

\* A stored text was written from exactly the entries that its sender has left there:
\* a rebuild that read old entries, or answers after a change, stores nothing.
TextIsWhole ==
  \A u \in Sender : contexts[u].text # {} => IsReady(u) /\ contexts[u].text = kept[u]

\* A context is marked for the sweep exactly while a revision is not processed, and a
\* processed one is usable: no late commit hides a change, and no late failure undoes a commit.
UnprocessedIsDirty ==
  \A u \in Sender :
    /\ contexts[u].isDirty <=> contexts[u].revision > contexts[u].processed
    /\ ~contexts[u].isDirty =>
         contexts[u].state = "ready" \/ (contexts[u].state = "empty" /\ kept[u] = {})

\* An annotation tells of the sender's entries as they are: what was scored before a
\* change is not saved after it, however the review and the change interleave.
AnnotationIsCurrent ==
  \A u \in Sender : annotations[u] # 0 => IsReady(u) /\ annotations[u] = contexts[u].revision

\* A model call that was billed has a spend with a cost, wherever its attempt stopped.
BilledIsRecorded ==
  \A a \in Attempt : attempts[a].isBilled => attempts[a].spend \in CostSpends

\* Every change is summarized in the end, though nobody was told of it, attempts failed
\* and workers exited, unless its sender may not edit the Topic or its owner has no key.
ContextSettles ==
  \A u \in Sender :
    contexts[u].isDirty ~> (~contexts[u].isDirty \/ u \notin editors \/ ~hasKey)

=============================================================================
