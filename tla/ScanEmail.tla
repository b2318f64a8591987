----------------------------- MODULE ScanEmail ------------------------------
(***************************************************************************)
(* The email of one finished Scan: the workflow that waits for the outline *)
(* of the Scan's Podcast Episode, plans batches of recipients and sends    *)
(* them one after the other, the attempts of each send, Resend with its    *)
(* idempotency keys, and the rows of topic_email_sends.                    *)
(*                                                                         *)
(* Any call may fail, an answer may be lost after Resend accepted, and an  *)
(* attempt that Temporal timed out may go on beside the next one.  Only    *)
(* the number of attempts bounds the retries.                              *)
(***************************************************************************)
EXTENDS Naturals, FiniteSets

CONSTANTS
  Users,       \* how many users may be subscribed
  BatchLimit,  \* RESEND_BATCH_LIMIT
  MaxAttempts, \* maximumAttempts of SEND_RETRY_POLICY
  MaxChanges   \* bound on changes of the recipients, the heading and the Findings and on an
               \* end of the Podcast Episode, all together

ASSUME EmailAssumption ==
  /\ Users \in Nat \ {0} /\ BatchLimit \in Nat \ {0}
  /\ MaxAttempts \in Nat \ {0} /\ MaxChanges \in Nat

VARIABLES
  kind,        \* a topic scan email, or the report of a manual or creation Scan
  hasTopic,    \* the Scan's Topic exists
  heading,     \* what is read with the recipients: the Topic's name, and the recipients'
               \* addresses and their order, which the read leaves open
  subscribers, \* who gets the email if it is sent now
  findings,    \* how often the Findings that the email shows, or their order, have changed
  episode,     \* the Scan's Podcast Episode, as the email shows it
  outline,     \* the signal that the outline is settled
  workflow,    \* sendScanEmailWorkflow
  planned,     \* the recipients of the plan
  attempts,    \* the attempts to send each batch
  accepted,    \* the calls that Resend accepted, by idempotency key
  emailed,     \* how many emails Resend sent to each user
  sent,        \* the users with a row in topic_email_sends
  reported,    \* the sends that were reported as not delivered
  changes      \* the other changes so far

vars == <<kind, hasTopic, heading, subscribers, findings, episode, outline, workflow, planned,
          attempts, accepted, emailed, sent, reported, changes>>

world == <<kind, hasTopic, heading, subscribers, findings, episode, outline, changes>>
mail == <<accepted, emailed>>

-----------------------------------------------------------------------------
(* Types *)

User == 1..Users
Batch == 0..(Users - 1)
Try == 1..MaxAttempts

\* The key of a call is a hash of its exact body: whom it is sent to, under which
\* heading, whether it shows the Podcast Episode, and the Findings it shows.
Body == [to : SUBSET User, heading : 0..MaxChanges, isShown : BOOLEAN, findings : 0..MaxChanges]

Attempt == [pc : {"idle", "render", "post", "record", "accepted", "retryable", "rejected"},
            body : Body]

TypeOK ==
  /\ kind \in {"topic-scan", "report"}
  /\ hasTopic \in BOOLEAN
  /\ heading \in 0..MaxChanges /\ findings \in 0..MaxChanges
  /\ subscribers \subseteq User
  /\ episode \in {"none", "untitled", "titled", "gone"}
  /\ outline \in {"unsettled", "signalled", "lost"}
  /\ workflow \in [pc : {"waiting", "planning", "sending", "done", "failed"}, batch : Nat, try : Try, isInTime : BOOLEAN]
  /\ planned \subseteq User
  /\ attempts \in [Batch \X Try -> Attempt]
  /\ accepted \subseteq Body
  /\ emailed \in [User -> Nat]
  /\ sent \subseteq User
  /\ reported \subseteq Batch
  /\ changes \in 0..MaxChanges

-----------------------------------------------------------------------------

NoBody == [to |-> {}, heading |-> 0, isShown |-> FALSE, findings |-> 0]
Idle == [pc |-> "idle", body |-> NoBody]

\* The workflow waits only if a recording was started.
Init ==
  /\ kind \in {"topic-scan", "report"}
  /\ hasTopic = TRUE /\ heading = 0 /\ findings = 0
  /\ subscribers = IF kind = "report" THEN {1} ELSE User
  /\ episode \in {"none", "untitled"}
  /\ outline = "unsettled"
  /\ workflow = [pc |-> IF episode = "none" THEN "planning" ELSE "waiting", batch |-> 0, try |-> 1,
                 isInTime |-> FALSE]
  /\ planned = {}
  /\ attempts = [a \in Batch \X Try |-> Idle]
  /\ accepted = {}
  /\ emailed = [u \in User |-> 0]
  /\ sent = {}
  /\ reported = {}
  /\ changes = 0

-----------------------------------------------------------------------------
(* What changes under the email *)

CanChange == changes + findings < MaxChanges

Change == CanChange /\ changes' = changes + 1

\* A subscriber leaves or turns email off, or the account is closed.
Unsubscribe(u) ==
  /\ u \in subscribers
  /\ subscribers' = subscribers \ {u}
  /\ UNCHANGED <<hasTopic, heading, findings, episode, outline>>

DeleteTopic ==
  /\ hasTopic
  /\ hasTopic' = FALSE
  /\ UNCHANGED <<heading, subscribers, findings, episode, outline>>

\* The Topic is renamed or a recipient's address changes, or a read without ORDER BY
\* returns the recipients in another order.  It may become again what it was.
HeadingChanges ==
  /\ heading' \in 0..MaxChanges \ {heading}
  /\ UNCHANGED <<hasTopic, subscribers, findings, episode, outline>>

\* A Finding is hidden or shown again, a title or an explanation is rewritten, or a read
\* returns Findings of one relevance in another order.
FindingsChange ==
  /\ CanChange /\ findings' = findings + 1
  /\ UNCHANGED <<hasTopic, heading, subscribers, episode, outline, changes>>

\* The title is saved, or there is nothing to record.
OutlineEnds ==
  /\ episode = "untitled" /\ episode' \in {"titled", "gone"}
  /\ UNCHANGED <<hasTopic, heading, subscribers, findings, outline, changes>>

\* The Podcast Episode fails later, or is removed.
EpisodeEnds ==
  /\ episode = "titled" /\ episode' = "gone"
  /\ UNCHANGED <<hasTopic, heading, subscribers, findings, outline>>

\* Mutant: the signal does not wait for the title.
IsStarted == episode # "none"

\* The outline has saved its title, or ended without one.
IsSettled == episode \in {"titled", "gone"}

\* signalOutlineSettled, whose failure is ignored.  Nobody reads a signal that comes
\* after the wait.
SignalOutlineSettled ==
  /\ IsSettled /\ outline = "unsettled" /\ workflow.pc = "waiting"
  /\ outline' \in {"signalled", "lost"}
  /\ UNCHANGED <<hasTopic, heading, subscribers, findings, episode, changes>>

WorldStep ==
  /\ \/ Change /\ (\E u \in User : Unsubscribe(u))
     \/ Change /\ (DeleteTopic \/ HeadingChanges \/ EpisodeEnds)
     \/ FindingsChange \/ OutlineEnds \/ SignalOutlineSettled
  /\ UNCHANGED <<kind, workflow, planned, attempts, mail, sent, reported>>

-----------------------------------------------------------------------------
(* The workflow *)

Goes(pc) == workflow' = [workflow EXCEPT !.pc = pc]

\* The condition holds, or ten minutes have passed.
WaitEnds ==
  /\ workflow.pc = "waiting"
  /\ workflow' = [workflow EXCEPT !.pc = "planning", !.isInTime = (outline = "signalled")]
  /\ UNCHANGED <<world, planned, attempts, mail, sent, reported>>

\* The recipients of one batch: a slice of the planned users.
BatchNumber(u) == Cardinality({v \in planned : v < u}) \div BatchLimit
BatchOf(b) == {u \in planned : BatchNumber(u) = b}

\* Mutant: recipients who do not fill a batch are left out of the plan.
FullBatches ==
  LET users == subscribers \ sent
  IN {u \in users : Cardinality({v \in users : v < u}) \div BatchLimit < Cardinality(users) \div BatchLimit}

\* A report has one recipient and no plan.
Sendable == IF kind = "report" THEN {1} ELSE IF hasTopic THEN subscribers \ sent ELSE {}

\* planTopicScanEmail.
Plan ==
  /\ workflow.pc = "planning"
  /\ planned' = Sendable
  /\ Goes(IF planned' = {} THEN "done" ELSE "sending")
  /\ UNCHANGED <<world, attempts, mail, sent, reported>>

\* A plan that fails on every attempt is reported, and nothing is sent.
PlanFails ==
  /\ workflow.pc = "planning" /\ kind = "topic-scan"
  /\ \/ Goes("done") /\ reported' = reported \cup {0}
     \/ Goes("failed") /\ UNCHANGED reported
  /\ UNCHANGED <<world, planned, attempts, mail, sent>>

Current == <<workflow.batch, workflow.try>>

\* The recipients that are left.  A deleted Topic has none.
Recipients == IF hasTopic THEN (BatchOf(workflow.batch) \cap subscribers) \ sent ELSE {}

\* An attempt starts and reads its recipients and its heading, or a read throws.
StartAttempt ==
  /\ workflow.pc = "sending" /\ attempts[Current].pc = "idle"
  /\ attempts' \in {[attempts EXCEPT ![Current] =
                       IF Recipients = {} THEN [Idle EXCEPT !.pc = "accepted"]
                       ELSE [pc |-> "render",
                             body |-> [NoBody EXCEPT !.to = Recipients, !.heading = heading]]],
                     [attempts EXCEPT ![Current].pc = "retryable"]}
  /\ UNCHANGED <<world, workflow, planned, mail, sent, reported>>

\* The next batch, whatever became of this one.
NextBatch ==
  workflow' = IF BatchOf(workflow.batch + 1) = {}
              THEN [workflow EXCEPT !.pc = "done"]
              ELSE [workflow EXCEPT !.batch = @ + 1, !.try = 1]

\* Mutant: a batch that failed for good is passed over.
GivesUpQuietly == NextBatch /\ UNCHANGED reported

\* reportUndeliveredSend.  A report that fails on every attempt ends the workflow.
GivesUp ==
  \/ NextBatch /\ reported' = reported \cup {workflow.batch}
  \/ Goes("failed") /\ UNCHANGED reported

\* Mutant: the last attempt is waited for again.
RetriesForever ==
  IF workflow.try < MaxAttempts THEN workflow' = [workflow EXCEPT !.try = @ + 1] /\ UNCHANGED reported
  ELSE UNCHANGED <<workflow, reported>>

Retries ==
  IF workflow.try < MaxAttempts THEN workflow' = [workflow EXCEPT !.try = @ + 1] /\ UNCHANGED reported
  ELSE GivesUp

AttemptReturns ==
  /\ workflow.pc = "sending"
  /\ \/ attempts[Current].pc = "accepted" /\ NextBatch /\ UNCHANGED reported
     \/ attempts[Current].pc = "retryable" /\ Retries
     \/ attempts[Current].pc = "rejected" /\ GivesUp
  /\ attempts' = [attempts EXCEPT ![Current] = Idle]
  /\ UNCHANGED <<world, planned, mail, sent>>

\* The attempt died with its worker, or it took longer than its minute and goes on.
AttemptTimesOut ==
  /\ workflow.pc = "sending" /\ attempts[Current].pc \in {"render", "post", "record"}
  /\ attempts' \in {attempts, [attempts EXCEPT ![Current] = Idle]}
  /\ Retries
  /\ UNCHANGED <<world, planned, mail, sent>>

-----------------------------------------------------------------------------
(* An attempt: sendTopicScanEmailBatch or sendScanReport *)

At(a, pc) == attempts[a].pc = pc
GoesTo(a, pc) == attempts' = [attempts EXCEPT ![a].pc = pc]

\* Nobody waits for the result of an attempt that has timed out.
Ends(a, result) ==
  attempts' = [attempts EXCEPT ![a] =
    IF workflow.pc = "sending" /\ a = Current THEN [Idle EXCEPT !.pc = result] ELSE Idle]

\* toTopicScanEmailProps reads the Findings and the Podcast Episode.
Rendered(body) == [body EXCEPT !.isShown = (episode = "titled"), !.findings = findings]

Render(a) ==
  /\ At(a, "render")
  /\ attempts' = [attempts EXCEPT ![a] = [pc |-> "post", body |-> Rendered(attempts[a].body)]]
  /\ UNCHANGED <<world, workflow, planned, mail, sent, reported>>

\* Mutant: the key of a call differs from attempt to attempt.
IsNewCall(body) == TRUE

\* Resend answers a key that it has accepted before with its first answer.
IsNewKey(body) == body \notin accepted

Accepts(body) ==
  /\ accepted' = accepted \cup {body}
  /\ emailed' = IF IsNewKey(body) THEN [u \in User |-> emailed[u] + (IF u \in body.to THEN 1 ELSE 0)]
                ELSE emailed

\* The answer arrives, or the call fails without one.
PostAccepted(a) ==
  /\ At(a, "post")
  /\ Accepts(attempts[a].body)
  /\ GoesTo(a, "record") \/ Ends(a, "retryable")
  /\ UNCHANGED <<world, workflow, planned, sent, reported>>

PostRefused(a) ==
  /\ At(a, "post")
  /\ Ends(a, "retryable") \/ Ends(a, "rejected")
  /\ UNCHANGED <<world, workflow, planned, mail, sent, reported>>

\* Mutant: the whole batch counts as sent to.
PlannedTo(a) == BatchOf(a[1])

\* Whom the accepted call was sent to.
SentTo(a) == attempts[a].body.to

\* recordScanEmailSends, once per recipient.
RecordSends(a) ==
  /\ At(a, "record")
  /\ sent' = sent \cup SentTo(a)
  /\ Ends(a, "accepted")
  /\ UNCHANGED <<world, workflow, planned, mail, reported>>

\* A statement or the rendering throws.
AttemptThrows(a) ==
  /\ attempts[a].pc \in {"render", "record"}
  /\ Ends(a, "retryable")
  /\ UNCHANGED <<world, workflow, planned, mail, sent, reported>>

-----------------------------------------------------------------------------

AttemptStep(a) ==
  \/ Render(a) \/ PostAccepted(a) \/ PostRefused(a)
  \/ RecordSends(a) \/ AttemptThrows(a)

WorkflowStep ==
  WaitEnds \/ Plan \/ PlanFails \/ StartAttempt \/ AttemptReturns \/ AttemptTimesOut

Next ==
  \/ WorkflowStep
  \/ \E a \in Batch \X Try : AttemptStep(a)
  \/ WorldStep

\* Temporal runs the workflow: its timers fire, and an attempt returns or times out.
Spec == Init /\ [][Next]_vars /\ WF_vars(WorkflowStep)

-----------------------------------------------------------------------------
(* Properties *)

\* What the email may have shown so far: each state of the Findings, without the Podcast
\* Episode and with it.
Contents == (1 + findings) * (IF episode \in {"none", "untitled"} THEN 1 ELSE 2)

\* A retry never repeats an email: however often an answer is lost, a record fails or
\* an attempt runs on beside the next, a user gets the email once, and again only as
\* another body: one for each state of the recipients and the heading with each of the
\* contents.  So an answer that is lost before a Finding is hidden, the Topic is renamed
\* or two Findings of one relevance change places does send the email twice.
RetryRepeatsNothing == \A u \in User : emailed[u] <= (1 + changes) * Contents

\* Nobody is left out in silence: once the workflow is done, whoever it planned for
\* was emailed, has left, or is in a batch that was reported.
NobodyIsLeftOut ==
  workflow.pc = "done" /\ hasTopic =>
    \A b \in Batch \ reported, u \in User :
      u \in BatchOf(b) /\ u \in subscribers => emailed[u] > 0

\* Who is recorded as sent to was sent the email.
RecordedWasEmailed == \A u \in sent : emailed[u] > 0

\* A wait that the signal ended found the title: no email of such a workflow leaves
\* out a Podcast Episode that is there to be shown.
SettledTitleIsShown ==
  workflow.isInTime /\ episode = "titled" => \A body \in accepted : body.isShown

\* The workflow ends, whatever fails: an email is never waited for or retried for
\* ever.
WorkflowEnds == <>(workflow.pc \in {"done", "failed"})

\* Who was emailed.
Emailed == {u \in User : emailed[u] > 0}

\* Who is to be emailed: the subscribers, but for those whose batch was reported.  A
\* plan that failed leaves all of them to the batch 0 that is reported for it.
Due == {u \in subscribers : hasTopic /\ \A b \in reported : b # BatchNumber(u)}

Phase ==
  CASE workflow.pc = "done" -> "sent"
    [] workflow.pc = "failed" -> "failed"
    [] OTHER -> "sending"

Delivery == INSTANCE DeliveryPromise WITH
  Recipient <- User,
  due <- Due,
  told <- Emailed,
  noted <- sent,
  phase <- Phase

\* The email keeps the promise of DeliveryPromise: whoever is subscribed from the end of
\* the Scan to the end of the workflow is planned for and emailed unless the loss was
\* reported, and no retry, batch or late attempt takes back what was sent or recorded.
KeepsDelivery == Delivery!Spec

=============================================================================
