-------------------------- MODULE ScanEmailProofs ---------------------------
(***************************************************************************)
(* What ScanEmail promises for every number of users, attempts and changes *)
(* and every size of a batch.                                              *)
(*                                                                         *)
(* The idempotency key of a call names its body, so what a user gets twice *)
(* are two bodies.  The invariant IInv counts, for each user, the calls    *)
(* that were made or are under way together with the one that would be     *)
(* made next (CallsAreFew): a step that changes nothing makes no other     *)
(* call, because an attempt of the same batch that has recorded anybody    *)
(* has recorded the user too (AttemptFits).  The same fact leaves nobody   *)
(* out of the batches that the workflow has come past (WorkflowFits).      *)
(***************************************************************************)
EXTENDS ScanEmail, FiniteSetTheorems, WellFoundedInduction, TLAPS

-----------------------------------------------------------------------------
(* The inductive invariant *)

Sender == Batch \X Try

Active == {"render", "post", "record"}

\* Nobody of the batch is left who has not been sent to, if the Topic is there.
IsCovered(b, users) == hasTopic => BatchOf(b) \cap subscribers \subseteq users

\* An attempt sends to all of its batch that were left, and to nobody else.
AttemptFits(a) ==
  /\ attempts[a].pc \in Active =>
       attempts[a].body.to \subseteq BatchOf(a[1]) /\ IsCovered(a[1], attempts[a].body.to \cup sent)
  /\ attempts[a].pc = "accepted" => IsCovered(a[1], sent)
  /\ attempts[a].pc = "record" => attempts[a].body \in accepted
  /\ attempts[a].pc \in {"post", "record"} =>
       /\ attempts[a].body.isShown => episode \notin {"none", "untitled"}
       /\ workflow.isInTime /\ episode = "titled" => attempts[a].body.isShown
       /\ attempts[a].body.findings \in 0..findings

\* An accepted call was sent to all of its recipients, with what there was to show.
AcceptedFits(body) ==
  /\ \A u \in body.to : emailed[u] > 0
  /\ body.isShown => episode \notin {"none", "untitled"}
  /\ workflow.isInTime /\ episode = "titled" => body.isShown
  /\ body.findings \in 0..findings

\* Nothing is sent before the plan.
IsFresh ==
  /\ workflow.batch = 0 /\ planned = {} /\ accepted = {} /\ sent = {}
  /\ \A a \in Sender : attempts[a].pc = "idle"

\* The batches that the workflow has come past were sent or reported.
WorkflowFits ==
  /\ workflow.pc \in {"waiting", "planning"} => IsFresh
  /\ workflow.pc = "waiting" => ~workflow.isInTime
  /\ workflow.isInTime => outline = "signalled"
  /\ outline # "unsettled" => IsSettled
  /\ workflow.pc = "sending" =>
       workflow.batch \in Batch /\ \A b \in Batch \ reported : b < workflow.batch => IsCovered(b, Emailed)
  /\ workflow.pc = "done" => \A b \in Batch \ reported : IsCovered(b, Emailed)

\* A call is told from another by whom it is sent to, and under which heading.
Call == (SUBSET User) \X (0..MaxChanges)
CallOf(body) == <<body.to, body.heading>>

\* The calls to u that were accepted or are under way.
Calls(u) ==
  {c \in Call : u \in c[1] /\ \/ \E body \in accepted : CallOf(body) = c
                              \/ \E a \in Sender : attempts[a].pc \in Active /\ CallOf(attempts[a].body) = c}

\* The call to u that the next attempt makes.
Rest(b) == (BatchOf(b) \cap subscribers) \ sent
RestCall(b) == <<Rest(b), heading>>
NextCalls(u) == {c \in Call : hasTopic /\ \E b \in Batch : u \in Rest(b) /\ c = RestCall(b)}

CallsAreFew == \A u \in User : Cardinality(Calls(u) \cup NextCalls(u)) <= 1 + changes

\* A user gets one email for each accepted call.
AcceptedTo(u) == {body \in accepted : u \in body.to}
EmailsAreCounted == \A u \in User : emailed[u] <= Cardinality(AcceptedTo(u))

IInv ==
  /\ TypeOK
  /\ \A a \in Sender : AttemptFits(a)
  /\ \A body \in accepted : AcceptedFits(body)
  /\ RecordedWasEmailed
  /\ WorkflowFits
  /\ CallsAreFew
  /\ EmailsAreCounted

-----------------------------------------------------------------------------
(* What a step leaves alone *)

\* The bounds are natural numbers.
LEMMA Bounds ==
  /\ Users \in Nat /\ Users > 0 /\ BatchLimit \in Nat /\ BatchLimit > 0
  /\ MaxAttempts \in Nat /\ MaxAttempts > 0 /\ MaxChanges \in Nat
  /\ 0 \in Batch /\ 1 \in Try /\ 1 \in User
BY EmailAssumption DEF Batch, Try, User

\* Recipients leave, and none come.
Shrinks == UNCHANGED planned /\ subscribers' \subseteq subscribers /\ (hasTopic' => hasTopic)

\* What an email may show stays so.
ShowsStay ==
  /\ episode \notin {"none", "untitled"} => episode' \notin {"none", "untitled"}
  /\ workflow'.isInTime /\ episode' = "titled" => workflow.isInTime /\ episode = "titled"
  /\ 0..findings \subseteq 0..findings'

\* A batch that is covered stays so while recipients leave and sends are added.
LEMMA CoveredStays ==
  ASSUME NEW b, NEW users, NEW more, users \subseteq more, Shrinks, IsCovered(b, users)
  PROVE  hasTopic' => BatchOf(b)' \cap subscribers' \subseteq more
BY DEF Shrinks, IsCovered, BatchOf, BatchNumber

\* An attempt that does not move fits as before.
LEMMA AttemptStays ==
  ASSUME NEW a \in Sender, AttemptFits(a), attempts'[a] = attempts[a], Shrinks, ShowsStay,
         sent \subseteq sent', accepted \subseteq accepted'
  PROVE  AttemptFits(a)'
<1>1. UNCHANGED planned /\ BatchOf(a[1])' = BatchOf(a[1]) BY DEF Shrinks, BatchOf, BatchNumber
<1> DEFINE users == attempts[a].body.to \cup sent
<1>2. IsCovered(a[1], users) => (IsCovered(a[1], attempts[a].body.to \cup sent))'
  <2>1. users \subseteq attempts'[a].body.to \cup sent' OBVIOUS
  <2>. QED BY <2>1, CoveredStays DEF IsCovered
<1>3. IsCovered(a[1], sent) => IsCovered(a[1], sent)'
  BY CoveredStays DEF IsCovered
<1> HIDE DEF BatchOf, IsCovered
<1>. QED BY <1>1, <1>2, <1>3 DEF AttemptFits, ShowsStay

\* An accepted call fits as before.
LEMMA AcceptedStays ==
  ASSUME NEW body \in accepted, AcceptedFits(body), ShowsStay,
         \A u \in body.to : emailed[u] > 0 => emailed'[u] > 0
  PROVE  AcceptedFits(body)'
BY DEF AcceptedFits, ShowsStay

\* The workflow fits as before if it does not move.
LEMMA WorkflowStays ==
  ASSUME WorkflowFits, UNCHANGED <<workflow, reported>>, Shrinks, Emailed \subseteq Emailed',
         workflow.pc \notin {"waiting", "planning"} \/ UNCHANGED <<accepted, sent, attempts>>,
         workflow.isInTime => outline' = "signalled", outline' # "unsettled" => IsSettled'
  PROVE  WorkflowFits'
<1>1. UNCHANGED planned BY DEF Shrinks
<1>2. \A b \in Batch : IsCovered(b, Emailed) => IsCovered(b, Emailed)'
  BY CoveredStays DEF IsCovered
<1>3. workflow.pc \in {"waiting", "planning"} => IsFresh' BY <1>1 DEF WorkflowFits, IsFresh
<1> HIDE DEF IsCovered, IsFresh, IsSettled, Emailed
<1>. QED BY <1>2, <1>3 DEF WorkflowFits

-----------------------------------------------------------------------------
(* Counting *)

\* The calls are finitely many.
LEMMA CallsAreFinite == IsFiniteSet(User) /\ IsFiniteSet(Call) /\ IsFiniteSet(Body)
<1>1. IsFiniteSet(User) BY Bounds, FS_Interval DEF User
<1>2. IsFiniteSet(SUBSET User) BY <1>1, FS_SUBSET
<1>3. IsFiniteSet(BOOLEAN)
  <2>1. IsFiniteSet({TRUE}) BY FS_Singleton
  <2>2. IsFiniteSet({TRUE} \cup {FALSE}) BY <2>1, FS_AddElement
  <2>3. BOOLEAN = {TRUE} \cup {FALSE} OBVIOUS
  <2>. QED BY <2>2, <2>3
<1>4. IsFiniteSet(0..MaxChanges) BY Bounds, FS_Interval
<1>5. IsFiniteSet(Call) BY <1>2, <1>4, FS_Product DEF Call
<1> DEFINE Seen == BOOLEAN \X (0..MaxChanges)
<1>6. IsFiniteSet(Call \X Seen)
  <2>1. IsFiniteSet(Seen) BY <1>3, <1>4, FS_Product
  <2> HIDE DEF Seen
  <2>. QED BY <1>5, <2>1, FS_Product
<1> DEFINE f == [body \in Body |-> <<CallOf(body), <<body.isShown, body.findings>>>>]
<1>7. f \in Injection(Body, Call \X Seen)
  <2>1. \A body \in Body : CallOf(body) \in Call /\ <<body.isShown, body.findings>> \in Seen
    BY DEF Body, Call, CallOf
  <2>2. f \in [Body -> Call \X Seen] BY <2>1
  <2>3. ASSUME NEW c \in Body, NEW d \in Body, f[c] = f[d] PROVE c = d
    <3>1. c.to = d.to /\ c.heading = d.heading /\ c.isShown = d.isShown /\ c.findings = d.findings
      BY <2>3 DEF CallOf
    <3>. QED BY <3>1 DEF Body
  <2>. QED BY <2>2, <2>3 DEF Injection, IsInjective
<1>8. IsFiniteSet(Body)
  <2> HIDE DEF f, Seen
  <2>. QED BY <1>6, <1>7, FS_Injection
<1>. QED BY <1>1, <1>5, <1>8

\* Steps that change nothing make only the calls that were made, or the next one.
LEMMA CallsStayFew ==
  ASSUME CallsAreFew, UNCHANGED changes, changes \in Nat,
         \A u \in User : /\ Calls(u)' \subseteq Calls(u) \cup NextCalls(u)
                         /\ NextCalls(u)' \subseteq Calls(u) \cup NextCalls(u)
  PROVE  CallsAreFew'
<1>1. ASSUME NEW u \in User PROVE Cardinality(Calls(u)' \cup NextCalls(u)') <= 1 + changes'
  <2>1. Calls(u) \cup NextCalls(u) \subseteq Call BY DEF Calls, NextCalls
  <2>2. IsFiniteSet(Calls(u) \cup NextCalls(u)) BY <2>1, CallsAreFinite, FS_Subset
  <2>3. Calls(u)' \cup NextCalls(u)' \subseteq Calls(u) \cup NextCalls(u) OBVIOUS
  <2>4. /\ Cardinality(Calls(u)' \cup NextCalls(u)') <= Cardinality(Calls(u) \cup NextCalls(u))
        /\ IsFiniteSet(Calls(u)' \cup NextCalls(u)')
    BY <2>2, <2>3, FS_Subset
  <2>5. Cardinality(Calls(u) \cup NextCalls(u)) \in Nat /\ Cardinality(Calls(u)' \cup NextCalls(u)') \in Nat
    BY <2>2, <2>4, FS_CardinalityType
  <2>6. Cardinality(Calls(u) \cup NextCalls(u)) <= 1 + changes BY DEF CallsAreFew
  <2>. QED BY <2>4, <2>5, <2>6
<1>. QED BY <1>1 DEF CallsAreFew

\* A user is in one batch, so there is at most one next call.
LEMMA OneNextCall == ASSUME NEW u \in User PROVE \E call : NextCalls(u) \subseteq {call}
<1>1. \A b, c \in Batch : u \in Rest(b) /\ u \in Rest(c) => b = c BY DEF Rest, BatchOf, BatchNumber
<1>2. CASE \E b \in Batch : u \in Rest(b)
  <2>1. PICK b \in Batch : u \in Rest(b) BY <1>2
  <2>2. NextCalls(u) \subseteq {RestCall(b)} BY <1>1, <2>1 DEF NextCalls
  <2>. QED BY <2>2
<1>3. CASE ~\E b \in Batch : u \in Rest(b) BY <1>3 DEF NextCalls
<1>. QED BY <1>2, <1>3

\* A change makes at most one more call.
LEMMA CallsGrow ==
  ASSUME CallsAreFew, changes' = changes + 1, changes \in Nat,
         \A u \in User : Calls(u)' \subseteq Calls(u)
  PROVE  CallsAreFew'
<1>1. ASSUME NEW u \in User PROVE Cardinality(Calls(u)' \cup NextCalls(u)') <= 1 + changes'
  <2>1. PICK call : NextCalls(u)' \subseteq {call}
    <3>1. (\E call : NextCalls(u) \subseteq {call})' BY OneNextCall, PTL
    <3>. QED BY <3>1
  <2>2. IsFiniteSet(Calls(u) \cup NextCalls(u)) BY CallsAreFinite, FS_Subset DEF Calls, NextCalls
  <2> DEFINE more == (Calls(u) \cup NextCalls(u)) \cup {call}
  <2>3. IsFiniteSet(more) /\ Cardinality(more) <= Cardinality(Calls(u) \cup NextCalls(u)) + 1
    <3>1. IsFiniteSet(more) /\ Cardinality(more) =
            IF call \in Calls(u) \cup NextCalls(u) THEN Cardinality(Calls(u) \cup NextCalls(u))
            ELSE Cardinality(Calls(u) \cup NextCalls(u)) + 1
      BY <2>2, FS_AddElement
    <3>2. Cardinality(Calls(u) \cup NextCalls(u)) \in Nat BY <2>2, FS_CardinalityType
    <3> HIDE DEF more
    <3>. QED BY <3>1, <3>2
  <2>4. Calls(u)' \cup NextCalls(u)' \subseteq more BY <2>1
  <2>5. Cardinality(Calls(u)' \cup NextCalls(u)') <= Cardinality(more) /\ IsFiniteSet(Calls(u)' \cup NextCalls(u)')
    BY <2>3, <2>4, FS_Subset
  <2>6. /\ Cardinality(Calls(u) \cup NextCalls(u)) \in Nat /\ Cardinality(more) \in Nat
        /\ Cardinality(Calls(u)' \cup NextCalls(u)') \in Nat
    BY <2>2, <2>3, <2>5, FS_CardinalityType
  <2>7. Cardinality(Calls(u) \cup NextCalls(u)) <= 1 + changes BY DEF CallsAreFew
  <2> HIDE DEF more
  <2>. QED BY <2>3, <2>5, <2>6, <2>7
<1>. QED BY <1>1 DEF CallsAreFew

-----------------------------------------------------------------------------
(* Steps of an attempt *)

\* Only the attempt moves.
OnlyAttempt(a) ==
  /\ attempts' \in [Sender -> Attempt]
  /\ \A d \in Sender \ {a} : attempts'[d] = attempts[d]

AttemptPc == {"idle", "render", "post", "record", "accepted", "retryable", "rejected"}

\* An attempt that goes on keeps its body.
LEMMA GoingOn ==
  ASSUME TypeOK, NEW a \in Sender, NEW pc \in AttemptPc, GoesTo(a, pc)
  PROVE  OnlyAttempt(a) /\ attempts'[a].pc = pc /\ attempts'[a].body = attempts[a].body
<1>1. attempts \in [Sender -> Attempt] BY DEF TypeOK, Sender
<1>2. attempts' = [attempts EXCEPT ![a] = [attempts[a] EXCEPT !.pc = pc]] BY DEF GoesTo
<1>. QED BY <1>1, <1>2 DEF OnlyAttempt, Attempt, AttemptPc

\* An idle attempt.
LEMMA IdleTyped ==
  /\ Idle \in Attempt /\ Idle.pc = "idle"
  /\ \A pc \in AttemptPc : [Idle EXCEPT !.pc = pc] \in Attempt /\ [Idle EXCEPT !.pc = pc].pc = pc
<1>1. 0 \in 0..MaxChanges BY Bounds
<1>2. NoBody \in Body BY <1>1 DEF NoBody, Body
<1>. QED BY <1>2 DEF Idle, Attempt, AttemptPc

\* An attempt that ends tells the workflow, if it still waits for it.
LEMMA EndingMoves ==
  ASSUME TypeOK, NEW a \in Sender, NEW result \in AttemptPc, Ends(a, result)
  PROVE  OnlyAttempt(a) /\ attempts'[a].pc \in {"idle", result}
<1>1. attempts \in [Sender -> Attempt] BY DEF TypeOK, Sender
<1> DEFINE ended == IF workflow.pc = "sending" /\ a = Current THEN [Idle EXCEPT !.pc = result] ELSE Idle
<1>2. ended \in Attempt /\ ended.pc \in {"idle", result} BY IdleTyped
<1>3. attempts' = [attempts EXCEPT ![a] = ended] BY DEF Ends
<1> HIDE DEF ended
<1>. QED BY <1>1, <1>2, <1>3 DEF OnlyAttempt

\* A step of one attempt keeps the invariant if the attempt and what it sent still fit.
LEMMA AttemptHolds ==
  ASSUME IInv, NEW a \in Sender, attempts[a].pc \in Active, OnlyAttempt(a), AttemptFits(a)',
         UNCHANGED <<world, workflow, planned, reported>>,
         attempts'[a].pc \in Active => CallOf(attempts'[a].body) = CallOf(attempts[a].body),
         accepted \subseteq accepted', accepted' \subseteq accepted \cup {attempts[a].body},
         \A body \in accepted' \ accepted : AcceptedFits(body)',
         emailed' \in [User -> Nat], \A u \in User : emailed'[u] >= emailed[u],
         sent' \in {sent, sent \cup attempts[a].body.to}, RecordedWasEmailed', EmailsAreCounted'
  PROVE  IInv'
<1>1. TypeOK /\ attempts \in [Sender -> Attempt] BY DEF IInv, TypeOK, Sender
<1>2. attempts[a].body \in Body /\ attempts[a].body.to \subseteq User BY <1>1 DEF Attempt, Body
<1>3. TypeOK'
  <2>1. accepted' \subseteq Body /\ sent' \subseteq User BY <1>1, <1>2 DEF TypeOK
  <2>. QED BY <1>1, <2>1 DEF TypeOK, OnlyAttempt, Sender, world
<1>4. Shrinks /\ ShowsStay BY DEF Shrinks, ShowsStay, world
<1>5. sent \subseteq sent' OBVIOUS
<1>6. \A d \in Sender : AttemptFits(d)'
  <2>1. ASSUME NEW d \in Sender, d # a PROVE AttemptFits(d)'
    <3>1. AttemptFits(d) /\ attempts'[d] = attempts[d] BY <2>1 DEF IInv, OnlyAttempt
    <3>. QED BY <1>4, <1>5, <3>1, AttemptStays
  <2>. QED BY <2>1
<1>7. ASSUME NEW body \in accepted' PROVE AcceptedFits(body)'
  <2>1. CASE body \in accepted
    <3>1. body.to \subseteq User BY <1>1, <2>1 DEF TypeOK, Body
    <3>2. \A u \in User : emailed[u] \in Nat /\ emailed'[u] \in Nat BY <1>1 DEF TypeOK
    <3>3. \A u \in body.to : emailed[u] > 0 => emailed'[u] > 0 BY <3>1, <3>2
    <3>. QED BY <1>4, <2>1, <3>3, AcceptedStays DEF IInv
  <2>2. CASE body \notin accepted BY <2>2
  <2>. QED BY <2>1, <2>2
<1>8. WorkflowFits'
  <2>1. Emailed \subseteq Emailed' BY <1>1 DEF TypeOK, Emailed
  <2>2. WorkflowFits BY DEF IInv
  <2>3. workflow.pc \notin {"waiting", "planning"} BY <2>2 DEF WorkflowFits, IsFresh, Active
  <2>4. (workflow.isInTime => outline' = "signalled") /\ (outline' # "unsettled" => IsSettled')
    BY <2>2 DEF WorkflowFits, IsSettled, world
  <2>. QED BY <1>4, <2>1, <2>2, <2>3, <2>4, WorkflowStays
<1>9. CallsAreFew'
  <2>1. CallsAreFew /\ changes \in Nat /\ UNCHANGED changes BY <1>1, Bounds DEF IInv, TypeOK, world
  <2>2. ASSUME NEW u \in User PROVE Calls(u)' \subseteq Calls(u)
    BY DEF Calls, OnlyAttempt
  <2>3. ASSUME NEW u \in User, NEW b \in Batch, hasTopic, u \in Rest(b)' PROVE Rest(b)' = Rest(b)
    <3>1. UNCHANGED <<planned, subscribers, hasTopic>> /\ BatchOf(b)' = BatchOf(b) BY DEF world, BatchOf, BatchNumber
    <3>2. CASE sent' = sent BY <3>1, <3>2 DEF Rest
    <3>3. CASE sent' = sent \cup attempts[a].body.to /\ a[1] = b
      <4>1. IsCovered(b, attempts[a].body.to \cup sent) BY <3>3 DEF IInv, AttemptFits
      <4>2. u \in BatchOf(b) \cap subscribers /\ u \notin sent' BY <2>3, <3>1 DEF Rest
      <4>. QED BY <2>3, <3>3, <4>1, <4>2 DEF IsCovered
    <3>4. CASE sent' = sent \cup attempts[a].body.to /\ a[1] # b
      <4>1. attempts[a].body.to \subseteq BatchOf(a[1]) BY DEF IInv, AttemptFits
      <4>2. BatchOf(a[1]) \cap BatchOf(b) = {} BY <3>4 DEF BatchOf, BatchNumber
      <4>. QED BY <3>1, <3>4, <4>1, <4>2 DEF Rest
    <3>. QED BY <3>2, <3>3, <3>4
  <2>4. ASSUME NEW u \in User PROVE NextCalls(u)' \subseteq NextCalls(u)
    <3>1. UNCHANGED <<hasTopic, heading>> BY DEF world
    <3>2. ASSUME NEW c \in NextCalls(u)' PROVE c \in NextCalls(u)
      <4>1. PICK b \in Batch : u \in Rest(b)' /\ c = RestCall(b)' BY <3>2 DEF NextCalls
      <4>2. hasTopic /\ c \in Call BY <3>1, <3>2 DEF NextCalls
      <4>3. Rest(b)' = Rest(b) BY <2>3, <4>1, <4>2
      <4>. QED BY <3>1, <4>1, <4>2, <4>3 DEF NextCalls, RestCall
    <3>. QED BY <3>2
  <2>. QED BY <2>1, <2>2, <2>4, CallsStayFew
<1>. QED BY <1>3, <1>6, <1>7, <1>8, <1>9 DEF IInv

\* A step of an attempt that accepts and records nothing.
LEMMA QuietHolds ==
  ASSUME IInv, NEW a \in Sender, attempts[a].pc \in Active, OnlyAttempt(a), AttemptFits(a)',
         attempts'[a].pc \in Active => CallOf(attempts'[a].body) = CallOf(attempts[a].body),
         UNCHANGED <<world, workflow, planned, mail, sent, reported>>
  PROVE  IInv'
<1>1. UNCHANGED <<accepted, emailed, sent>> BY DEF mail
<1>2. emailed \in [User -> Nat] BY DEF IInv, TypeOK
<1>3. \A u \in User : emailed'[u] >= emailed[u] BY <1>1, <1>2
<1>4. RecordedWasEmailed' BY <1>1 DEF IInv, RecordedWasEmailed
<1>5. EmailsAreCounted' BY <1>1 DEF IInv, EmailsAreCounted, AcceptedTo
<1>. QED BY <1>1, <1>2, <1>3, <1>4, <1>5, AttemptHolds

\* The body is rendered with what there is to show.
LEMMA RenderHolds == ASSUME IInv, NEW a \in Sender, Render(a) PROVE IInv'
<1>1. TypeOK /\ attempts \in [Sender -> Attempt] /\ AttemptFits(a) BY DEF IInv, TypeOK, Sender
<1>2. attempts[a].pc = "render" /\ UNCHANGED <<world, workflow, planned, mail, sent, reported>>
  BY DEF Render, At
<1>3. attempts[a] \in Attempt /\ attempts[a].body \in Body BY <1>1 DEF Attempt
<1> DEFINE body == [attempts[a].body EXCEPT !.isShown = (episode = "titled"), !.findings = findings]
<1>4. body \in Body /\ body.to = attempts[a].body.to /\ body.heading = attempts[a].body.heading
      /\ body.isShown = (episode = "titled") /\ body.findings \in 0..findings
  <2>1. findings \in 0..MaxChanges /\ findings \in 0..findings BY <1>1, Bounds DEF TypeOK
  <2>2. body.findings = findings BY <1>3 DEF Body
  <2>. QED BY <1>3, <2>1, <2>2 DEF Body
<1> DEFINE attempt == [pc |-> "post", body |-> body]
<1>5. attempt \in Attempt /\ attempt.pc = "post" /\ attempt.body = body BY <1>4 DEF Attempt
<1>6. attempts' = [attempts EXCEPT ![a] = attempt] BY DEF Render, Rendered
<1> HIDE DEF body, attempt
<1>7. OnlyAttempt(a) /\ attempts'[a].pc = "post" /\ attempts'[a].body = body
  BY <1>1, <1>5, <1>6 DEF OnlyAttempt
<1>8. body.to \subseteq BatchOf(a[1]) /\ IsCovered(a[1], body.to \cup sent)
  BY <1>1, <1>2, <1>4 DEF AttemptFits, Active
<1>9. AttemptFits(a)' BY <1>2, <1>4, <1>7, <1>8 DEF AttemptFits, IsCovered, BatchOf, BatchNumber, Active, world
<1>. QED BY <1>2, <1>4, <1>7, <1>9, QuietHolds DEF CallOf, Active

\* An attempt that ends without a record is done.
LEMMA EndingHolds ==
  ASSUME IInv, NEW a \in Sender, attempts[a].pc \in Active, NEW result \in {"retryable", "rejected"},
         Ends(a, result), UNCHANGED <<world, workflow, planned, mail, sent, reported>>
  PROVE  IInv'
<1>1. OnlyAttempt(a) /\ attempts'[a].pc \in {"idle", result} BY EndingMoves DEF IInv, AttemptPc
<1>2. attempts'[a].pc \notin Active \cup {"accepted"} BY <1>1 DEF Active
<1>3. AttemptFits(a)' BY <1>2 DEF AttemptFits, Active
<1>. QED BY <1>1, <1>2, <1>3, QuietHolds

\* A call that was not accepted sends nothing.
LEMMA PostRefusedHolds == ASSUME IInv, NEW a \in Sender, PostRefused(a) PROVE IInv'
<1>1. attempts[a].pc \in Active /\ UNCHANGED <<world, workflow, planned, mail, sent, reported>>
  BY DEF PostRefused, At, Active
<1>. QED BY <1>1, EndingHolds DEF PostRefused

\* An attempt that throws has recorded nothing.
LEMMA AttemptThrowsHolds == ASSUME IInv, NEW a \in Sender, AttemptThrows(a) PROVE IInv'
<1>1. attempts[a].pc \in Active /\ UNCHANGED <<world, workflow, planned, mail, sent, reported>>
  BY DEF AttemptThrows, Active
<1>. QED BY <1>1, EndingHolds DEF AttemptThrows

\* Resend sends one email to each recipient of a new call, and none of an old one.
LEMMA AcceptingCounts ==
  ASSUME IInv, NEW body \in Body, Accepts(body)
  PROVE  /\ emailed' \in [User -> Nat] /\ \A u \in User : emailed'[u] >= emailed[u]
         /\ body \notin accepted => \A u \in body.to : emailed'[u] > 0
         /\ EmailsAreCounted'
<1>1. emailed \in [User -> Nat] /\ accepted \subseteq Body /\ body.to \subseteq User
  BY DEF IInv, TypeOK, Body
<1>2. accepted' = accepted \cup {body} BY DEF Accepts
<1>3. CASE body \in accepted
  <2>1. UNCHANGED <<accepted, emailed>> BY <1>2, <1>3 DEF Accepts, IsNewKey
  <2>2. EmailsAreCounted' BY <2>1 DEF IInv, EmailsAreCounted, AcceptedTo
  <2>3. \A u \in User : emailed'[u] >= emailed[u] BY <1>1, <2>1
  <2>. QED BY <1>1, <1>3, <2>1, <2>2, <2>3
<1>4. CASE body \notin accepted
  <2>1. emailed' = [u \in User |-> emailed[u] + (IF u \in body.to THEN 1 ELSE 0)]
    BY <1>4 DEF Accepts, IsNewKey
  <2>2. ASSUME NEW u \in User PROVE emailed[u] + (IF u \in body.to THEN 1 ELSE 0) \in Nat BY <1>1
  <2>3. emailed' \in [User -> Nat] BY <2>1, <2>2
  <2>4. \A u \in User : emailed'[u] >= emailed[u] BY <1>1, <2>1
  <2>5. \A u \in body.to : emailed'[u] > 0 BY <1>1, <2>1
  <2>6. ASSUME NEW u \in User PROVE emailed'[u] <= Cardinality(AcceptedTo(u)')
    <3>1. IsFiniteSet(AcceptedTo(u)) /\ Cardinality(AcceptedTo(u)) \in Nat
      BY <1>1, CallsAreFinite, FS_Subset, FS_CardinalityType DEF AcceptedTo
    <3>2. emailed[u] <= Cardinality(AcceptedTo(u)) BY DEF IInv, EmailsAreCounted
    <3>3. CASE u \in body.to
      <4>1. AcceptedTo(u)' = AcceptedTo(u) \cup {body} /\ body \notin AcceptedTo(u)
        BY <1>2, <1>4, <3>3 DEF AcceptedTo
      <4>2. Cardinality(AcceptedTo(u)') = Cardinality(AcceptedTo(u)) + 1 BY <3>1, <4>1, FS_AddElement
      <4>3. emailed'[u] = emailed[u] + 1 BY <2>1, <3>3
      <4>. QED BY <1>1, <3>1, <3>2, <4>2, <4>3
    <3>4. CASE u \notin body.to
      <4>1. AcceptedTo(u)' = AcceptedTo(u) BY <1>2, <3>4 DEF AcceptedTo
      <4>2. emailed'[u] = emailed[u] BY <1>1, <2>1, <3>4
      <4>. QED BY <3>2, <4>1, <4>2
    <3>. QED BY <3>3, <3>4
  <2>7. EmailsAreCounted' BY <2>6 DEF EmailsAreCounted
  <2>. QED BY <2>3, <2>4, <2>5, <2>7
<1>. QED BY <1>3, <1>4

\* Resend accepts the call, and the attempt learns of it or not.
LEMMA PostAcceptedHolds == ASSUME IInv, NEW a \in Sender, PostAccepted(a) PROVE IInv'
<1>1. TypeOK /\ attempts \in [Sender -> Attempt] /\ AttemptFits(a) BY DEF IInv, TypeOK, Sender
<1>2. attempts[a].pc = "post" /\ UNCHANGED <<world, workflow, planned, sent, reported>> BY DEF PostAccepted, At
<1> DEFINE body == attempts[a].body
<1>3. body \in Body BY <1>1 DEF Attempt
<1>4. accepted' = accepted \cup {body} BY DEF PostAccepted, Accepts
<1>5. /\ emailed' \in [User -> Nat] /\ \A u \in User : emailed'[u] >= emailed[u]
      /\ body \notin accepted => \A u \in body.to : emailed'[u] > 0
      /\ EmailsAreCounted'
  BY <1>3, AcceptingCounts DEF PostAccepted
<1>6. /\ body.to \subseteq BatchOf(a[1]) /\ IsCovered(a[1], body.to \cup sent)
      /\ body.isShown => episode \notin {"none", "untitled"}
      /\ workflow.isInTime /\ episode = "titled" => body.isShown
      /\ body.findings \in 0..findings
  BY <1>1, <1>2 DEF AttemptFits, Active
<1>7. OnlyAttempt(a) /\ AttemptFits(a)' /\ (attempts'[a].pc \in Active => attempts'[a].body = body)
  <2>1. CASE GoesTo(a, "record")
    <3>1. OnlyAttempt(a) /\ attempts'[a].pc = "record" /\ attempts'[a].body = body
      BY <1>1, <2>1, GoingOn DEF AttemptPc
    <3> HIDE DEF body
    <3>2. AttemptFits(a)' BY <1>2, <1>4, <1>6, <3>1 DEF AttemptFits, IsCovered, BatchOf, BatchNumber, Active, world
    <3>. QED BY <3>1, <3>2
  <2>2. CASE Ends(a, "retryable")
    <3>1. OnlyAttempt(a) /\ attempts'[a].pc \in {"idle", "retryable"} BY <1>1, <2>2, EndingMoves DEF AttemptPc
    <3>2. AttemptFits(a)' BY <3>1 DEF AttemptFits, Active
    <3>. QED BY <3>1, <3>2 DEF Active
  <2>. QED BY <2>1, <2>2 DEF PostAccepted
<1>8. \A new \in accepted' \ accepted : AcceptedFits(new)'
  BY <1>2, <1>4, <1>5, <1>6 DEF AcceptedFits, world
<1>9. RecordedWasEmailed'
  <2>1. sent \subseteq User /\ emailed \in [User -> Nat] BY <1>1 DEF TypeOK
  <2>2. \A u \in sent : emailed[u] > 0 BY DEF IInv, RecordedWasEmailed
  <2>. QED BY <1>2, <1>5, <2>1, <2>2 DEF RecordedWasEmailed
<1>. QED BY <1>2, <1>4, <1>5, <1>7, <1>8, <1>9, AttemptHolds DEF Active

\* Who is recorded was sent the email.
LEMMA RecordSendsHolds == ASSUME IInv, NEW a \in Sender, RecordSends(a) PROVE IInv'
<1>1. TypeOK /\ attempts \in [Sender -> Attempt] /\ AttemptFits(a) BY DEF IInv, TypeOK, Sender
<1>2. attempts[a].pc = "record" /\ UNCHANGED <<world, workflow, planned, mail, reported>> /\ Ends(a, "accepted")
      /\ sent' = sent \cup attempts[a].body.to
  BY DEF RecordSends, At, SentTo
<1>3. UNCHANGED <<accepted, emailed>> BY <1>2 DEF mail
<1>4. OnlyAttempt(a) /\ attempts'[a].pc \in {"idle", "accepted"} BY <1>1, <1>2, EndingMoves DEF AttemptPc
<1>5. IsCovered(a[1], attempts[a].body.to \cup sent) /\ attempts[a].body \in accepted
  BY <1>1, <1>2 DEF AttemptFits, Active
<1>6. IsCovered(a[1], sent)' BY <1>2, <1>5 DEF IsCovered, BatchOf, BatchNumber, world
<1>7. AttemptFits(a)' BY <1>4, <1>6 DEF AttemptFits, Active
<1>8. RecordedWasEmailed'
  <2>1. AcceptedFits(attempts[a].body) BY <1>5 DEF IInv
  <2>2. \A u \in attempts[a].body.to : emailed[u] > 0 BY <2>1 DEF AcceptedFits
  <2>. QED BY <1>2, <1>3, <2>2 DEF IInv, RecordedWasEmailed
<1>9. EmailsAreCounted' BY <1>3 DEF IInv, EmailsAreCounted, AcceptedTo
<1>10. emailed' \in [User -> Nat] /\ \A u \in User : emailed'[u] >= emailed[u] BY <1>1, <1>3 DEF TypeOK
<1>. QED BY <1>2, <1>3, <1>4, <1>7, <1>8, <1>9, <1>10, AttemptHolds DEF Active

-----------------------------------------------------------------------------
(* Batches *)

\* A set of natural numbers has its smallest.
LEMMA HasLeast ==
  ASSUME NEW S \in SUBSET Nat, S # {} PROVE \E x \in S : \A y \in S : x <= y
<1>1. PICK x \in S : \A y \in S : ~(<<y, x>> \in OpToRel(<, Nat))
  BY NatLessThanWellFounded, WFMin
<1>2. ASSUME NEW y \in S PROVE x <= y
  <2>1. ~(y < x) BY <1>1 DEF OpToRel
  <2>. QED BY <2>1
<1>. QED BY <1>2

\* A bounded set of natural numbers has its largest.
LEMMA HasLargest ==
  ASSUME NEW S \in SUBSET Nat, S # {}, NEW n \in Nat, \A x \in S : x <= n
  PROVE  \E x \in S : \A y \in S : y <= x
<1> DEFINE below == {m \in Nat : n - m \in S}
<1>1. \A x \in S : n - x \in below
  <2>1. ASSUME NEW x \in S PROVE n - x \in Nat /\ n - (n - x) = x OBVIOUS
  <2>. QED BY <2>1
<1>2. PICK m \in below : \A k \in below : m <= k
  <2>1. below \in SUBSET Nat /\ below # {} BY <1>1
  <2> HIDE DEF below
  <2>. QED BY <2>1, HasLeast
<1>3. ASSUME NEW y \in S PROVE y <= n - m
  <2>1. n - y \in below BY <1>1
  <2>2. m <= n - y /\ m \in Nat BY <1>2, <2>1
  <2>. QED BY <2>2
<1>4. n - m \in S BY <1>2
<1>. QED BY <1>3, <1>4

\* A batch is a range of ranks among the planned users.
Before(u) == {v \in planned : v < u}
Rank(u) == Cardinality(Before(u))

\* Users are numbered from one.
LEMMA UsersAreNumbers == \A u \in User : u \in Nat /\ 1 <= u /\ u <= Users
BY Bounds DEF User

\* A rank is smaller than the number of users.
LEMMA RankType ==
  ASSUME planned \subseteq User, NEW u \in User
  PROVE  IsFiniteSet(Before(u)) /\ Rank(u) \in Nat /\ Rank(u) < Users
<1>1. u \in Nat /\ 1 <= u /\ u <= Users /\ Users \in Nat BY Bounds, UsersAreNumbers
<1>2. ASSUME NEW v \in Before(u) PROVE v \in 1..(u - 1)
  <2>1. v \in planned /\ v < u BY DEF Before
  <2>2. v \in Nat /\ 1 <= v BY <2>1, UsersAreNumbers
  <2>. QED BY <1>1, <2>1, <2>2
<1>3. IsFiniteSet(1..(u - 1)) /\ Cardinality(1..(u - 1)) = u - 1
  <2>1. u - 1 \in Nat BY <1>1
  <2>. QED BY <1>1, <2>1, FS_Interval
<1>4. IsFiniteSet(Before(u)) /\ Rank(u) <= u - 1
  <2>1. Before(u) \subseteq 1..(u - 1) BY <1>2
  <2>. QED BY <1>3, <2>1, FS_Subset DEF Rank
<1>5. Rank(u) \in Nat BY <1>4, FS_CardinalityType DEF Rank
<1>. QED BY <1>1, <1>4, <1>5

\* The ranks have no gaps.
LEMMA RankSteps ==
  ASSUME planned \subseteq User, NEW u \in planned, Rank(u) > 0
  PROVE  \E w \in planned : w < u /\ Rank(u) = Rank(w) + 1
<1>1. u \in Nat /\ u \in User /\ \A v \in planned : v \in Nat BY UsersAreNumbers
<1>2. IsFiniteSet(Before(u)) BY <1>1, RankType
<1>3. Before(u) # {} BY FS_EmptySet DEF Rank
<1>4. ASSUME NEW v \in Before(u) PROVE v \in Nat /\ v <= u
  <2>1. v \in planned /\ v < u BY DEF Before
  <2>2. v \in Nat BY <1>1, <2>1
  <2>. QED BY <1>1, <2>1, <2>2
<1>5. PICK w \in Before(u) : \A v \in Before(u) : v <= w
  <2> HIDE DEF Before
  <2>1. Before(u) \in SUBSET Nat BY <1>4
  <2>. QED BY <1>1, <1>3, <1>4, <2>1, HasLargest
<1>6. w \in planned /\ w \in Nat /\ w \in User /\ w < u BY <1>1, <1>5 DEF Before
<1>7. Before(u) = Before(w) \cup {w} /\ w \notin Before(w)
  <2>1. ASSUME NEW v \in planned PROVE (v < u) <=> (v < w \/ v = w)
    <3>1. v \in Nat BY <1>1
    <3>2. v < u => v <= w BY <1>5 DEF Before
    <3>. QED BY <1>1, <1>6, <3>1, <3>2
  <2>2. \A v : v \in Before(u) <=> v \in Before(w) \/ v = w BY <1>6, <2>1 DEF Before
  <2>3. w \notin Before(w) BY <1>6 DEF Before
  <2> HIDE DEF Before
  <2>. QED BY <2>2, <2>3
<1>8. IsFiniteSet(Before(w)) BY <1>6, RankType
<1>9. Rank(u) = Rank(w) + 1 BY <1>7, <1>8, FS_AddElement DEF Rank
<1>. QED BY <1>6, <1>9

\* A division rounds down, and grows by one at most.
LEMMA Division ==
  ASSUME NEW x \in Nat, NEW n \in Nat, n > 0
  PROVE  x \div n \in Nat /\ x \div n <= x /\ (x + 1) \div n <= (x \div n) + 1 /\ 0 \div n = 0
<1>1. x \div n \in Nat /\ n * (x \div n) <= x /\ x < n * (x \div n) + n OBVIOUS
<1>2. x \div n <= x BY Z3
<1>3. (x + 1) \div n <= (x \div n) + 1 BY <1>1, SMTT(30)
<1>4. 0 \div n = 0 BY Z3
<1>. QED BY <1>1, <1>2, <1>3, <1>4

\* A batch that has anybody is one of the batches.
LEMMA BatchInRange ==
  ASSUME planned \subseteq User, NEW b \in Nat, BatchOf(b) # {} PROVE b \in Batch
<1>1. PICK u \in planned : Rank(u) \div BatchLimit = b BY DEF BatchOf, BatchNumber, Rank, Before
<1>2. u \in User BY <1>1
<1>3. Rank(u) \in Nat /\ Rank(u) < Users BY <1>2, RankType
<1>4. b <= Rank(u) BY <1>1, <1>3, Bounds, Division
<1>. QED BY <1>3, <1>4, Bounds DEF Batch

\* Nobody is in a batch behind an empty one.
LEMMA BatchesHaveNoGap ==
  ASSUME planned \subseteq User, NEW b \in Nat, BatchOf(b + 1) = {}, NEW c \in Nat, c > b
  PROVE  BatchOf(c) = {}
<1> DEFINE past == {u \in planned : Rank(u) \div BatchLimit > b}
<1>1. ASSUME past # {} PROVE FALSE
  <2>1. past \in SUBSET Nat BY UsersAreNumbers
  <2>2. PICK u \in past : \A v \in past : u <= v
    <3> HIDE DEF past
    <3>. QED BY <1>1, <2>1, HasLeast
  <2>3. u \in planned /\ u \in User /\ u \in Nat BY <2>1, <2>2
  <2>4. Rank(u) \in Nat BY <2>3, RankType
  <2>5. Rank(u) > 0
    <3>1. ASSUME Rank(u) = 0 PROVE FALSE
      <4>1. Rank(u) \div BatchLimit = 0 BY <3>1, Bounds, Division
      <4>. QED BY <2>2, <4>1
    <3>. QED BY <2>4, <3>1
  <2>6. PICK w \in planned : w < u /\ Rank(u) = Rank(w) + 1 BY <2>3, <2>5, RankSteps
  <2>7. w \in User /\ w \in Nat BY <2>6 DEF User
  <2>8. Rank(w) \in Nat BY <2>7, RankType
  <2>9. w \notin past BY <2>2, <2>3, <2>6, <2>7
  <2>10. Rank(w) \div BatchLimit \in Nat /\ Rank(u) \div BatchLimit \in Nat
         /\ Rank(u) \div BatchLimit <= (Rank(w) \div BatchLimit) + 1
    BY <2>4, <2>6, <2>8, Bounds, Division
  <2>11. Rank(w) \div BatchLimit <= b BY <2>6, <2>9, <2>10
  <2>12. Rank(u) \div BatchLimit = b + 1 BY <2>2, <2>10, <2>11
  <2>13. u \in BatchOf(b + 1) BY <2>3, <2>12 DEF BatchOf, BatchNumber, Rank, Before
  <2>. QED BY <2>13
<1>2. ASSUME NEW u \in BatchOf(c) PROVE FALSE
  <2>1. u \in planned /\ Rank(u) \div BatchLimit = c BY <1>2 DEF BatchOf, BatchNumber, Rank, Before
  <2>. QED BY <1>1, <2>1
<1>. QED BY <1>2

-----------------------------------------------------------------------------
(* Steps of the workflow *)

Workflow ==
  [pc : {"waiting", "planning", "sending", "done", "failed"}, batch : Nat, try : Try, isInTime : BOOLEAN]

\* A step before anything is sent keeps the invariant, whatever it plans.
LEMMA FreshHolds ==
  ASSUME IInv, IsFresh, UNCHANGED <<world, attempts, mail, sent>>,
         planned' \subseteq User, workflow' \in Workflow, reported' \subseteq Batch, WorkflowFits'
  PROVE  IInv'
<1>1. UNCHANGED <<accepted, emailed, changes>> /\ accepted = {} /\ sent = {} BY DEF mail, world, IsFresh
<1>2. TypeOK' BY DEF IInv, TypeOK, Workflow, world, mail
<1>3. \A a \in Sender : attempts'[a].pc = "idle" BY DEF IsFresh
<1>4. \A a \in Sender : AttemptFits(a)' BY <1>3 DEF AttemptFits, Active
<1>5. \A body \in accepted' : AcceptedFits(body)' BY <1>1
<1>6. RecordedWasEmailed' BY <1>1 DEF RecordedWasEmailed
<1>7. EmailsAreCounted' BY <1>1 DEF IInv, EmailsAreCounted, AcceptedTo
<1>8. ASSUME NEW u \in User PROVE Cardinality(Calls(u)' \cup NextCalls(u)') <= 1 + changes'
  <2>1. PICK call : NextCalls(u)' \subseteq {call}
    <3>1. (\E call : NextCalls(u) \subseteq {call})' BY OneNextCall, PTL
    <3>. QED BY <3>1
  <2>2. Calls(u)' = {} BY <1>1, <1>3 DEF Calls, Active
  <2>3. Calls(u)' \cup NextCalls(u)' \subseteq {call} BY <2>1, <2>2
  <2>4. IsFiniteSet({call}) /\ Cardinality({call}) = 1 BY FS_Singleton
  <2>5. /\ IsFiniteSet(Calls(u)' \cup NextCalls(u)')
        /\ Cardinality(Calls(u)' \cup NextCalls(u)') <= Cardinality({call})
    BY <2>3, <2>4, FS_Subset
  <2>6. changes' \in Nat BY <1>2, Bounds DEF TypeOK
  <2>7. Cardinality(Calls(u)' \cup NextCalls(u)') \in Nat BY <2>5, FS_CardinalityType
  <2>. QED BY <2>4, <2>5, <2>6, <2>7
<1>9. CallsAreFew' BY <1>8 DEF CallsAreFew
<1>. QED BY <1>2, <1>4, <1>5, <1>6, <1>7, <1>9 DEF IInv

\* The wait ends, and the workflow has seen the signal or not.
LEMMA WaitEndsHolds == ASSUME IInv, WaitEnds PROVE IInv'
<1>1. TypeOK /\ WorkflowFits /\ workflow \in Workflow /\ workflow.pc = "waiting"
  BY DEF IInv, TypeOK, Workflow, WaitEnds
<1>2. IsFresh /\ (outline # "unsettled" => IsSettled) BY <1>1 DEF WorkflowFits
<1>3. workflow' = [workflow EXCEPT !.pc = "planning", !.isInTime = (outline = "signalled")]
      /\ UNCHANGED <<world, planned, attempts, mail, sent, reported>>
  BY DEF WaitEnds
<1>4. workflow' \in Workflow /\ workflow'.pc = "planning" /\ workflow'.batch = workflow.batch
      /\ workflow'.isInTime = (outline = "signalled")
  BY <1>1, <1>3 DEF Workflow
<1>5. IsFresh' BY <1>2, <1>3, <1>4 DEF IsFresh, mail
<1>6. WorkflowFits' BY <1>2, <1>3, <1>4, <1>5 DEF WorkflowFits, IsSettled, world
<1>7. planned' \subseteq User /\ reported' \subseteq Batch BY <1>1, <1>3 DEF TypeOK
<1>. QED BY <1>2, <1>3, <1>4, <1>6, <1>7, FreshHolds

\* The plan is made, or it fails.
LEMMA PlanHolds == ASSUME IInv, Plan \/ PlanFails PROVE IInv'
<1>1. TypeOK /\ WorkflowFits /\ workflow \in Workflow /\ workflow.pc = "planning"
  BY DEF IInv, TypeOK, Workflow, Plan, PlanFails
<1>2. /\ IsFresh /\ (outline # "unsettled" => IsSettled)
      /\ workflow.isInTime => outline = "signalled"
  BY <1>1 DEF WorkflowFits
<1>3. UNCHANGED <<world, attempts, mail, sent>> BY DEF Plan, PlanFails
<1>4. planned' \subseteq User /\ reported' \subseteq Batch
  BY <1>1, Bounds DEF Plan, Sendable, PlanFails, TypeOK
<1>5. PICK pc \in {"sending", "done", "failed"} :
        workflow' = [workflow EXCEPT !.pc = pc] /\ (pc = "done" => planned' = {})
  BY <1>2 DEF Plan, PlanFails, Goes, IsFresh
<1>6. workflow' \in Workflow /\ workflow'.pc = pc /\ workflow'.batch = workflow.batch
      /\ workflow'.isInTime = workflow.isInTime
  BY <1>1, <1>5 DEF Workflow
<1>7. workflow'.batch = 0 BY <1>2, <1>6 DEF IsFresh
<1>8. \A b \in Batch : planned' = {} => IsCovered(b, Emailed)' BY DEF IsCovered, BatchOf, BatchNumber
<1>9. \A b \in Batch : ~(b < 0) BY DEF Batch
<1>10. WorkflowFits'
  BY <1>2, <1>3, <1>5, <1>6, <1>7, <1>8, <1>9, Bounds DEF WorkflowFits, IsSettled, world
<1>. QED BY <1>2, <1>3, <1>4, <1>6, <1>10, FreshHolds

\* A step that sends nothing keeps the invariant if what it starts is a next call.
LEMMA SendingHolds ==
  ASSUME IInv, UNCHANGED <<world, planned, mail, sent>>,
         workflow' \in Workflow, workflow'.isInTime = workflow.isInTime,
         reported' \subseteq Batch, WorkflowFits',
         attempts' \in [Sender -> Attempt], \A a \in Sender : AttemptFits(a)',
         \A a \in Sender : attempts'[a].pc \in Active =>
           \/ attempts'[a] = attempts[a]
           \/ hasTopic /\ \E b \in Batch : CallOf(attempts'[a].body) = RestCall(b)
  PROVE  IInv'
<1>1. UNCHANGED <<accepted, emailed, changes, hasTopic, heading, subscribers, findings, episode>> BY DEF mail, world
<1>2. TypeOK' BY DEF IInv, TypeOK, Workflow, Sender, world, mail
<1>3. ShowsStay BY <1>1 DEF ShowsStay
<1>4. \A body \in accepted' : AcceptedFits(body)' BY <1>1, <1>3, AcceptedStays DEF IInv
<1>5. RecordedWasEmailed' BY <1>1 DEF IInv, RecordedWasEmailed
<1>6. EmailsAreCounted' BY <1>1 DEF IInv, EmailsAreCounted, AcceptedTo
<1>7. \A b : Rest(b)' = Rest(b) /\ RestCall(b)' = RestCall(b) BY <1>1 DEF Rest, RestCall, BatchOf, BatchNumber
<1>8. ASSUME NEW u \in User PROVE NextCalls(u)' = NextCalls(u) BY <1>1, <1>7 DEF NextCalls
<1>9. ASSUME NEW u \in User, NEW c \in Calls(u)' PROVE c \in Calls(u) \cup NextCalls(u)
  <2>1. c \in Call /\ u \in c[1] BY <1>9 DEF Calls
  <2>2. CASE \E body \in accepted : CallOf(body) = c BY <2>1, <2>2 DEF Calls
  <2>3. CASE \E a \in Sender : attempts'[a].pc \in Active /\ CallOf(attempts'[a].body) = c
    <3>1. PICK a \in Sender : attempts'[a].pc \in Active /\ CallOf(attempts'[a].body) = c BY <2>3
    <3>2. CASE attempts'[a] = attempts[a] BY <2>1, <3>1, <3>2 DEF Calls
    <3>3. CASE hasTopic /\ \E b \in Batch : CallOf(attempts'[a].body) = RestCall(b)
      <4>1. PICK b \in Batch : c = RestCall(b) BY <3>1, <3>3
      <4>2. c[1] = Rest(b) BY <4>1 DEF RestCall
      <4>. QED BY <2>1, <3>3, <4>1, <4>2 DEF NextCalls
    <3>. QED BY <3>1, <3>2, <3>3
  <2>4. (\E body \in accepted : CallOf(body) = c)
        \/ (\E a \in Sender : attempts'[a].pc \in Active /\ CallOf(attempts'[a].body) = c)
    BY <1>1, <1>9 DEF Calls, CallOf
  <2>. QED BY <2>2, <2>3, <2>4
<1>10. CallsAreFew'
  <2>1. changes \in Nat BY Bounds DEF IInv, TypeOK
  <2>2. \A u \in User : /\ Calls(u)' \subseteq Calls(u) \cup NextCalls(u)
                        /\ NextCalls(u)' \subseteq Calls(u) \cup NextCalls(u)
    BY <1>8, <1>9
  <2>3. CallsAreFew BY DEF IInv
  <2>. QED BY <1>1, <2>1, <2>2, <2>3, CallsStayFew
<1>. QED BY <1>2, <1>4, <1>5, <1>6, <1>10 DEF IInv

\* An attempt that starts sends to all who are left.
LEMMA StartAttemptHolds == ASSUME IInv, StartAttempt PROVE IInv'
<1>1. TypeOK /\ WorkflowFits /\ workflow \in Workflow /\ attempts \in [Sender -> Attempt]
  BY DEF IInv, TypeOK, Workflow, Sender
<1>2. workflow.pc = "sending" /\ attempts[Current].pc = "idle"
      /\ UNCHANGED <<world, workflow, planned, mail, sent, reported>>
  BY DEF StartAttempt
<1>3. workflow.batch \in Batch /\ workflow.try \in Try BY <1>1, <1>2 DEF WorkflowFits, Workflow
<1>4. Current \in Sender /\ Current[1] = workflow.batch BY <1>3 DEF Current, Sender
<1> DEFINE body == [NoBody EXCEPT !.to = Recipients, !.heading = heading]
           attempt == [pc |-> "render", body |-> body]
<1>5. Recipients \subseteq User BY <1>1 DEF Recipients, TypeOK
<1>6. body \in Body
  <2>1. heading \in 0..MaxChanges BY <1>1 DEF TypeOK
  <2>2. 0 \in 0..MaxChanges BY Bounds
  <2>. QED BY <1>5, <2>1, <2>2 DEF Body, NoBody
<1>7. attempt \in Attempt /\ attempt.pc = "render" /\ attempt.body = body
  <2> HIDE DEF body
  <2>. QED BY <1>6 DEF Attempt
<1>8. body.to = Recipients /\ CallOf(body) = <<Recipients, heading>>
  BY DEF CallOf, NoBody
<1>9. \/ Recipients = {} /\ attempts' = [attempts EXCEPT ![Current] = [Idle EXCEPT !.pc = "accepted"]]
      \/ Recipients # {} /\ attempts' = [attempts EXCEPT ![Current] = attempt]
      \/ attempts' = [attempts EXCEPT ![Current] = [attempts[Current] EXCEPT !.pc = "retryable"]]
  BY DEF StartAttempt
<1> HIDE DEF body, attempt
<1>10. OnlyAttempt(Current) /\ \/ Recipients = {} /\ attempts'[Current].pc = "accepted"
                               \/ Recipients # {} /\ attempts'[Current] = attempt
                               \/ attempts'[Current].pc = "retryable"
  <2>1. CASE Recipients = {} /\ attempts' = [attempts EXCEPT ![Current] = [Idle EXCEPT !.pc = "accepted"]]
    <3> DEFINE done == [Idle EXCEPT !.pc = "accepted"]
    <3>1. done \in Attempt /\ done.pc = "accepted" BY IdleTyped DEF AttemptPc
    <3>2. attempts' = [attempts EXCEPT ![Current] = done] BY <2>1
    <3> HIDE DEF done
    <3>. QED BY <1>1, <1>4, <2>1, <3>1, <3>2 DEF OnlyAttempt
  <2>2. CASE Recipients # {} /\ attempts' = [attempts EXCEPT ![Current] = attempt]
    BY <1>1, <1>4, <1>7, <2>2 DEF OnlyAttempt
  <2>3. CASE attempts' = [attempts EXCEPT ![Current] = [attempts[Current] EXCEPT !.pc = "retryable"]]
    <3> DEFINE failed == [attempts[Current] EXCEPT !.pc = "retryable"]
    <3>1. failed \in Attempt /\ failed.pc = "retryable" BY <1>1, <1>4 DEF Attempt
    <3>2. attempts' = [attempts EXCEPT ![Current] = failed] BY <2>3
    <3> HIDE DEF failed
    <3>. QED BY <1>1, <1>4, <3>1, <3>2 DEF OnlyAttempt
  <2>. QED BY <1>9, <2>1, <2>2, <2>3
<1>11. hasTopic => Recipients = Rest(workflow.batch) BY DEF Recipients, Rest
<1>12. Shrinks /\ ShowsStay BY <1>2 DEF Shrinks, ShowsStay, world
<1>13. UNCHANGED <<hasTopic, subscribers, accepted, sent, planned>> BY <1>2 DEF world, mail
<1>14. ASSUME NEW a \in Sender, a = Current PROVE AttemptFits(a)'
  <2>1. a[1] = workflow.batch BY <1>4, <1>14
  <2>2. \A users : IsCovered(a[1], users) <=> IsCovered(a[1], users)' BY <1>13 DEF IsCovered, BatchOf, BatchNumber
  <2>3. BatchOf(a[1])' = BatchOf(a[1]) BY <1>13 DEF BatchOf, BatchNumber
  <2>4. Recipients \subseteq BatchOf(a[1]) /\ IsCovered(a[1], Recipients \cup sent)
    BY <2>1 DEF Recipients, IsCovered
  <2> HIDE DEF IsCovered, BatchOf
  <2>5. CASE Recipients = {} /\ attempts'[a].pc = "accepted"
    <3>1. IsCovered(a[1], sent)
      <4>1. Recipients \cup sent = sent BY <2>5
      <4>. QED BY <2>4, <4>1
    <3>2. IsCovered(a[1], sent)' BY <1>13, <2>2, <3>1
    <3>. QED BY <2>5, <3>2 DEF AttemptFits, Active
  <2>6. CASE attempts'[a] = attempt
    <3>1. attempts'[a].pc = "render" /\ attempts'[a].body.to = Recipients BY <1>7, <1>8, <2>6
    <3>2. IsCovered(a[1], attempts[a].body.to \cup sent)' BY <1>13, <2>2, <2>4, <3>1
    <3>. QED BY <2>3, <2>4, <3>1, <3>2 DEF AttemptFits, Active
  <2>7. CASE attempts'[a].pc = "retryable" BY <2>7 DEF AttemptFits, Active
  <2>. QED BY <1>10, <1>14, <2>5, <2>6, <2>7
<1>15. \A a \in Sender : AttemptFits(a)'
  <2>1. ASSUME NEW a \in Sender, a # Current PROVE AttemptFits(a)'
    <3>1. AttemptFits(a) /\ attempts'[a] = attempts[a] BY <1>10, <2>1 DEF IInv, OnlyAttempt
    <3>. QED BY <1>12, <1>13, <3>1, AttemptStays
  <2>. QED BY <1>14, <2>1
<1>16. ASSUME NEW a \in Sender, attempts'[a].pc \in Active
       PROVE \/ attempts'[a] = attempts[a]
             \/ hasTopic /\ \E b \in Batch : CallOf(attempts'[a].body) = RestCall(b)
  <2>1. CASE a # Current BY <1>10, <2>1 DEF OnlyAttempt
  <2>2. CASE a = Current
    <3>1. Recipients # {} /\ attempts'[a] = attempt BY <1>10, <1>16, <2>2 DEF Active
    <3>2. hasTopic BY <3>1 DEF Recipients
    <3>3. CallOf(attempts'[a].body) = RestCall(workflow.batch) BY <1>7, <1>8, <1>11, <3>1, <3>2 DEF RestCall
    <3>. QED BY <1>3, <3>2, <3>3
  <2>. QED BY <2>1, <2>2
<1>17. WorkflowFits'
  <2>1. Emailed \subseteq Emailed' BY <1>2 DEF Emailed, mail
  <2>2. (workflow.isInTime => outline' = "signalled") /\ (outline' # "unsettled" => IsSettled')
    BY <1>1, <1>2 DEF WorkflowFits, IsSettled, world
  <2>. QED BY <1>1, <1>2, <1>12, <2>1, <2>2, WorkflowStays
<1>18. workflow' \in Workflow /\ workflow'.isInTime = workflow.isInTime /\ reported' \subseteq Batch
  BY <1>1, <1>2 DEF TypeOK
<1>19. attempts' \in [Sender -> Attempt] BY <1>10 DEF OnlyAttempt
<1>. QED BY <1>2, <1>15, <1>16, <1>17, <1>18, <1>19, SendingHolds

\* The workflow goes on without forgetting anybody.
Progress ==
  /\ workflow' \in Workflow /\ workflow'.isInTime = workflow.isInTime
  /\ reported' \subseteq Batch /\ WorkflowFits'

\* What keeps the batches behind the workflow covered.
LEMMA BehindStays ==
  ASSUME IInv, workflow.pc = "sending", UNCHANGED <<world, planned, mail>>, reported \subseteq reported'
  PROVE  /\ \A b \in Batch \ reported' : b < workflow.batch => IsCovered(b, Emailed)'
         /\ \A b \in Batch : IsCovered(b, Emailed) => IsCovered(b, Emailed)'
         /\ (workflow.isInTime => outline' = "signalled") /\ (outline' # "unsettled" => IsSettled')
<1>1. \A b \in Batch : IsCovered(b, Emailed) => IsCovered(b, Emailed)' BY DEF IsCovered, Emailed, BatchOf, BatchNumber, world, mail
<1>2. WorkflowFits BY DEF IInv
<1>3. \A b \in Batch \ reported : b < workflow.batch => IsCovered(b, Emailed) BY <1>2 DEF WorkflowFits
<1>4. (workflow.isInTime => outline' = "signalled") /\ (outline' # "unsettled" => IsSettled')
  BY <1>2 DEF WorkflowFits, IsSettled, world
<1> HIDE DEF IsCovered, Emailed
<1>. QED BY <1>1, <1>3, <1>4

\* The next batch begins, or all batches are behind the workflow.
LEMMA NextBatchFits ==
  ASSUME IInv, workflow.pc = "sending", UNCHANGED <<world, planned, mail>>, NextBatch,
         reported \subseteq reported', reported' \subseteq Batch,
         workflow.batch \in reported' \/ IsCovered(workflow.batch, Emailed)
  PROVE  Progress
<1>1. workflow \in Workflow /\ planned \subseteq User BY DEF IInv, TypeOK, Workflow
<1>2. workflow.batch \in Batch BY DEF IInv, WorkflowFits
<1>3. workflow.batch \in Nat /\ \A b \in Batch : b \in Nat BY <1>2, Bounds DEF Batch
<1>4. /\ \A b \in Batch \ reported' : b < workflow.batch => IsCovered(b, Emailed)'
      /\ \A b \in Batch : IsCovered(b, Emailed) => IsCovered(b, Emailed)'
      /\ (workflow.isInTime => outline' = "signalled") /\ (outline' # "unsettled" => IsSettled')
  BY BehindStays
<1>5. \A b \in Batch \ reported' : b <= workflow.batch => IsCovered(b, Emailed)'
  <2>1. \A b \in Batch : b <= workflow.batch => b < workflow.batch \/ b = workflow.batch BY <1>3
  <2> HIDE DEF IsCovered, Emailed
  <2>. QED BY <1>2, <1>4, <2>1
<1>6. CASE BatchOf(workflow.batch + 1) = {}
  <2>1. workflow' = [workflow EXCEPT !.pc = "done"] BY <1>6 DEF NextBatch
  <2>2. workflow' \in Workflow /\ workflow'.pc = "done" /\ workflow'.isInTime = workflow.isInTime
    BY <1>1, <2>1 DEF Workflow
  <2>3. ASSUME NEW b \in Batch \ reported' PROVE IsCovered(b, Emailed)'
    <3>1. CASE b <= workflow.batch BY <1>5, <3>1
    <3>2. CASE b > workflow.batch
      <4>1. BatchOf(b) = {} BY <1>1, <1>3, <1>6, <3>2, BatchesHaveNoGap
      <4>. QED BY <4>1 DEF IsCovered, BatchOf, BatchNumber
    <3>. QED BY <1>3, <3>1, <3>2
  <2> HIDE DEF IsCovered, Emailed, IsSettled
  <2>. QED BY <1>4, <2>2, <2>3 DEF Progress, WorkflowFits
<1>7. CASE BatchOf(workflow.batch + 1) # {}
  <2>1. workflow' = [workflow EXCEPT !.batch = workflow.batch + 1, !.try = 1] BY <1>7 DEF NextBatch
  <2>2. /\ workflow' \in Workflow /\ workflow'.pc = "sending" /\ workflow'.isInTime = workflow.isInTime
        /\ workflow'.batch = workflow.batch + 1
    <3> DEFINE next == workflow.batch + 1
    <3>1. next \in Nat /\ 1 \in Try BY <1>3, Bounds
    <3>2. workflow' = [workflow EXCEPT !.batch = next, !.try = 1] BY <2>1
    <3> HIDE DEF next
    <3>3. /\ workflow' \in Workflow /\ workflow'.pc = workflow.pc /\ workflow'.isInTime = workflow.isInTime
          /\ workflow'.batch = next
      BY <1>1, <3>1, <3>2 DEF Workflow
    <3>. QED BY <3>3 DEF next
  <2>3. workflow'.batch \in Batch BY <1>1, <1>3, <1>7, <2>2, BatchInRange
  <2>4. ASSUME NEW b \in Batch \ reported', b < workflow'.batch PROVE IsCovered(b, Emailed)'
    <3>1. b <= workflow.batch BY <1>3, <2>2, <2>4
    <3>. QED BY <1>5, <3>1
  <2> HIDE DEF IsCovered, Emailed, IsSettled
  <2>. QED BY <1>4, <2>2, <2>3, <2>4 DEF Progress, WorkflowFits
<1>. QED BY <1>6, <1>7

\* A batch is given up only if that is reported, or the workflow fails.
LEMMA GivesUpFits ==
  ASSUME IInv, workflow.pc = "sending", UNCHANGED <<world, planned, mail>>, GivesUp
  PROVE  Progress
<1>1. workflow \in Workflow /\ reported \subseteq Batch BY DEF IInv, TypeOK, Workflow
<1>2. CASE NextBatch /\ reported' = reported \cup {workflow.batch}
  <2>1. workflow.batch \in Batch BY DEF IInv, WorkflowFits
  <2>2. reported' \subseteq Batch BY <1>1, <1>2, <2>1
  <2>. QED BY <1>2, <2>2, NextBatchFits
<1>3. CASE Goes("failed") /\ UNCHANGED reported
  <2>1. workflow' \in Workflow /\ workflow'.pc = "failed" /\ workflow'.isInTime = workflow.isInTime
    BY <1>1, <1>3 DEF Goes, Workflow
  <2>2. (workflow.isInTime => outline' = "signalled") /\ (outline' # "unsettled" => IsSettled')
    BY <1>3, BehindStays
  <2>. QED BY <1>1, <1>3, <2>1, <2>2 DEF Progress, WorkflowFits, IsSettled
<1>. QED BY <1>2, <1>3 DEF GivesUp

\* A batch is tried again, or given up.
LEMMA RetriesFit ==
  ASSUME IInv, workflow.pc = "sending", UNCHANGED <<world, planned, mail>>, Retries
  PROVE  Progress
<1>1. workflow \in Workflow /\ reported \subseteq Batch BY DEF IInv, TypeOK, Workflow
<1>2. CASE workflow.try < MaxAttempts
  <2>1. workflow' = [workflow EXCEPT !.try = workflow.try + 1] /\ UNCHANGED reported BY <1>2 DEF Retries
  <2>2. workflow.try + 1 \in Try BY <1>1, <1>2, Bounds DEF Workflow, Try
  <2>3. /\ workflow' \in Workflow /\ workflow'.pc = "sending" /\ workflow'.isInTime = workflow.isInTime
        /\ workflow'.batch = workflow.batch
    BY <1>1, <2>1, <2>2 DEF Workflow
  <2>4. workflow.batch \in Batch BY DEF IInv, WorkflowFits
  <2>5. /\ \A b \in Batch \ reported' : b < workflow.batch => IsCovered(b, Emailed)'
        /\ (workflow.isInTime => outline' = "signalled") /\ (outline' # "unsettled" => IsSettled')
    BY <2>1, BehindStays
  <2> HIDE DEF IsCovered, Emailed, IsSettled
  <2>. QED BY <1>1, <2>1, <2>3, <2>4, <2>5 DEF Progress, WorkflowFits
<1>3. CASE ~(workflow.try < MaxAttempts) BY <1>3, GivesUpFits DEF Retries
<1>. QED BY <1>2, <1>3

\* The workflow takes a result, or does not wait for it any longer.
LEMMA LeavingHolds ==
  ASSUME IInv, workflow.pc = "sending", UNCHANGED <<world, planned, mail, sent>>, Progress,
         attempts' \in {attempts, [attempts EXCEPT ![Current] = Idle]}
  PROVE  IInv'
<1>1. attempts \in [Sender -> Attempt] BY DEF IInv, TypeOK, Sender
<1>2. attempts' \in [Sender -> Attempt] BY <1>1, IdleTyped
<1>3. \A a \in Sender : attempts'[a] = attempts[a] \/ attempts'[a].pc = "idle" BY <1>1, IdleTyped
<1>4. Shrinks /\ ShowsStay BY DEF Shrinks, ShowsStay, world, Progress
<1>5. UNCHANGED <<accepted, sent>> BY DEF mail
<1>6. ASSUME NEW a \in Sender PROVE AttemptFits(a)'
  <2>1. CASE attempts'[a] = attempts[a] BY <1>4, <1>5, <2>1, AttemptStays DEF IInv
  <2>2. CASE attempts'[a].pc = "idle" BY <2>2 DEF AttemptFits, Active
  <2>. QED BY <1>3, <2>1, <2>2
<1>7. \A a \in Sender : attempts'[a].pc \in Active => attempts'[a] = attempts[a] BY <1>3 DEF Active
<1>. QED BY <1>2, <1>6, <1>7, SendingHolds DEF Progress

\* The result of an attempt moves the workflow on.
LEMMA AttemptReturnsHolds == ASSUME IInv, AttemptReturns PROVE IInv'
<1>1. workflow.pc = "sending" /\ UNCHANGED <<world, planned, mail, sent>>
      /\ attempts' = [attempts EXCEPT ![Current] = Idle]
  BY DEF AttemptReturns
<1>2. CASE attempts[Current].pc = "accepted" /\ NextBatch /\ UNCHANGED reported
  <2>1. workflow \in Workflow /\ reported \subseteq Batch BY DEF IInv, TypeOK, Workflow
  <2>2. workflow.batch \in Batch /\ workflow.try \in Try BY <1>1, <2>1 DEF IInv, WorkflowFits, Workflow
  <2>3. Current \in Sender /\ Current[1] = workflow.batch BY <2>2 DEF Current, Sender
  <2>4. IsCovered(workflow.batch, sent) BY <1>2, <2>3 DEF IInv, AttemptFits
  <2>5. sent \subseteq Emailed BY DEF IInv, TypeOK, RecordedWasEmailed, Emailed
  <2>6. IsCovered(workflow.batch, Emailed) BY <2>4, <2>5 DEF IsCovered
  <2>7. Progress BY <1>1, <1>2, <2>1, <2>6, NextBatchFits
  <2>. QED BY <1>1, <2>7, LeavingHolds
<1>3. CASE Retries BY <1>1, <1>3, RetriesFit, LeavingHolds
<1>4. CASE GivesUp BY <1>1, <1>4, GivesUpFits, LeavingHolds
<1>. QED BY <1>2, <1>3, <1>4 DEF AttemptReturns

\* A minute without a result moves it on, too.
LEMMA AttemptTimesOutHolds == ASSUME IInv, AttemptTimesOut PROVE IInv'
<1>1. workflow.pc = "sending" /\ UNCHANGED <<world, planned, mail, sent>> /\ Retries
      /\ attempts' \in {attempts, [attempts EXCEPT ![Current] = Idle]}
  BY DEF AttemptTimesOut
<1>. QED BY <1>1, RetriesFit, LeavingHolds

-----------------------------------------------------------------------------
(* Steps of the world *)

\* A step of the world keeps the invariant if it makes few calls and hides no title.
LEMMA WorldHolds ==
  ASSUME IInv, UNCHANGED <<kind, workflow, planned, attempts, mail, sent, reported>>,
         TypeOK', Shrinks, ShowsStay, CallsAreFew',
         workflow.isInTime => outline' = "signalled", outline' # "unsettled" => IsSettled'
  PROVE  IInv'
<1>1. UNCHANGED <<accepted, emailed>> BY DEF mail
<1>2. \A a \in Sender : AttemptFits(a)' BY <1>1, AttemptStays DEF IInv
<1>3. \A body \in accepted' : AcceptedFits(body)' BY <1>1, AcceptedStays DEF IInv
<1>4. RecordedWasEmailed' BY <1>1 DEF IInv, RecordedWasEmailed
<1>5. EmailsAreCounted' BY <1>1 DEF IInv, EmailsAreCounted, AcceptedTo
<1>6. Emailed \subseteq Emailed' BY <1>1 DEF Emailed
<1>7. WorkflowFits' BY <1>1, <1>6, WorkflowStays DEF IInv
<1>. QED BY <1>2, <1>3, <1>4, <1>5, <1>7 DEF IInv

\* The calls that were made do not change with the world.
LEMMA CallsOfTheWorld ==
  ASSUME UNCHANGED <<attempts, mail>>, NEW u \in User PROVE Calls(u)' = Calls(u)
BY DEF Calls, CallOf, mail

\* Recipients leave, the heading or the Findings change, and the Podcast Episode gets
\* its title or ends.
LEMMA WorldStepHolds == ASSUME IInv, WorldStep PROVE IInv'
<1>1. TypeOK /\ WorkflowFits /\ CallsAreFew BY DEF IInv
<1>2. UNCHANGED <<kind, workflow, planned, attempts, mail, sent, reported>> BY DEF WorldStep
<1>3. changes \in Nat BY <1>1, Bounds DEF TypeOK
<1>4. \A u \in User : Calls(u)' = Calls(u) BY <1>2, CallsOfTheWorld
<1>5. (workflow.isInTime => outline = "signalled") /\ (outline # "unsettled" => IsSettled)
  BY <1>1 DEF WorkflowFits
<1>6. CASE Change /\ ((\E u \in User : Unsubscribe(u)) \/ DeleteTopic \/ HeadingChanges \/ EpisodeEnds)
  <2>1. changes' = changes + 1 /\ changes' \in 0..MaxChanges
    BY <1>1, <1>3, <1>6, Bounds DEF Change, CanChange, TypeOK
  <2>2. CallsAreFew' BY <1>1, <1>3, <1>4, <2>1, CallsGrow
  <2>3. TypeOK'
    BY <1>1, <1>2, <1>6, <2>1 DEF TypeOK, Unsubscribe, DeleteTopic, HeadingChanges, EpisodeEnds, mail
  <2>4. Shrinks /\ ShowsStay
    BY <1>2, <1>6 DEF Shrinks, ShowsStay, Unsubscribe, DeleteTopic, HeadingChanges, EpisodeEnds
  <2>5. (workflow.isInTime => outline' = "signalled") /\ (outline' # "unsettled" => IsSettled')
    BY <1>5, <1>6 DEF IsSettled, Unsubscribe, DeleteTopic, HeadingChanges, EpisodeEnds
  <2>. QED BY <1>2, <2>2, <2>3, <2>4, <2>5, WorldHolds
<1>7. CASE OutlineEnds \/ SignalOutlineSettled \/ FindingsChange
  <2>1. UNCHANGED <<changes, hasTopic, heading, subscribers, planned, sent>>
    BY <1>2, <1>7 DEF OutlineEnds, SignalOutlineSettled, FindingsChange
  <2>2. \A b : Rest(b)' = Rest(b) /\ RestCall(b)' = RestCall(b) BY <2>1 DEF Rest, RestCall, BatchOf, BatchNumber
  <2>3. \A u \in User : NextCalls(u)' = NextCalls(u) BY <2>1, <2>2 DEF NextCalls
  <2>4. CallsAreFew' BY <1>1, <1>3, <1>4, <2>1, <2>3, CallsStayFew
  <2>5. TypeOK'
    BY <1>1, <1>2, <1>7, Bounds DEF TypeOK, OutlineEnds, SignalOutlineSettled, FindingsChange, CanChange, mail
  <2>6. Shrinks /\ ShowsStay
    BY <1>1, <1>2, <1>5, <1>7, <2>1, Bounds
    DEF TypeOK, Shrinks, ShowsStay, OutlineEnds, SignalOutlineSettled, FindingsChange, IsSettled
  <2>7. (workflow.isInTime => outline' = "signalled") /\ (outline' # "unsettled" => IsSettled')
    BY <1>5, <1>7 DEF IsSettled, OutlineEnds, SignalOutlineSettled, FindingsChange
  <2>. QED BY <1>2, <2>4, <2>5, <2>6, <2>7, WorldHolds
<1>. QED BY <1>6, <1>7 DEF WorldStep

-----------------------------------------------------------------------------
(* The invariant *)

\* The invariant holds at first.
LEMMA InitHolds == Init => IInv
<1> SUFFICES ASSUME Init PROVE IInv OBVIOUS
<1>1. TypeOK
  <2>1. workflow \in Workflow BY Bounds DEF Init, Workflow
  <2>2. subscribers \subseteq User BY Bounds DEF Init
  <2>3. attempts \in [Sender -> Attempt] BY IdleTyped DEF Init, Sender
  <2>4. emailed \in [User -> Nat] /\ changes \in 0..MaxChanges /\ heading \in 0..MaxChanges /\ findings \in 0..MaxChanges
    BY Bounds DEF Init
  <2>. QED BY <2>1, <2>2, <2>3, <2>4 DEF Init, TypeOK, Workflow, Sender
<1>2. \A a \in Sender : attempts[a].pc = "idle" BY IdleTyped DEF Init, Sender
<1>3. \A a \in Sender : AttemptFits(a) BY <1>2 DEF AttemptFits, Active
<1>4. accepted = {} /\ sent = {} /\ planned = {} /\ changes = 0 BY DEF Init
<1>5. (\A body \in accepted : AcceptedFits(body)) /\ RecordedWasEmailed BY <1>4 DEF RecordedWasEmailed
<1>6. WorkflowFits
  <2>1. workflow.pc \in {"waiting", "planning"} /\ workflow.batch = 0 /\ workflow.isInTime = FALSE BY DEF Init
  <2>2. outline = "unsettled" BY DEF Init
  <2>. QED BY <1>2, <1>4, <2>1, <2>2 DEF WorkflowFits, IsFresh
<1>7. ASSUME NEW u \in User PROVE Calls(u) = {} /\ NextCalls(u) = {} /\ AcceptedTo(u) = {}
  BY <1>2, <1>4 DEF Calls, NextCalls, AcceptedTo, Rest, BatchOf, BatchNumber, Active
<1>8. Cardinality({}) = 0 BY FS_EmptySet
<1>9. CallsAreFew BY <1>4, <1>7, <1>8 DEF CallsAreFew
<1>10. EmailsAreCounted
  <2>1. \A u \in User : emailed[u] = 0 BY DEF Init
  <2>. QED BY <1>7, <1>8, <2>1 DEF EmailsAreCounted
<1>. QED BY <1>1, <1>3, <1>5, <1>6, <1>9, <1>10 DEF IInv

\* Every step keeps the invariant.
LEMMA NextHolds == IInv /\ [Next]_vars => IInv'
<1> SUFFICES ASSUME IInv, [Next]_vars PROVE IInv' OBVIOUS
<1>1. CASE WorkflowStep
  BY <1>1, WaitEndsHolds, PlanHolds, StartAttemptHolds, AttemptReturnsHolds, AttemptTimesOutHolds
  DEF WorkflowStep
<1>2. CASE \E a \in Batch \X Try : AttemptStep(a)
  <2>1. PICK a \in Sender : AttemptStep(a) BY <1>2 DEF Sender
  <2>. QED BY <2>1, RenderHolds, PostAcceptedHolds, PostRefusedHolds, RecordSendsHolds, AttemptThrowsHolds
       DEF AttemptStep
<1>3. CASE WorldStep BY <1>3, WorldStepHolds
<1>4. CASE UNCHANGED vars
  <2>1. /\ UNCHANGED <<kind, hasTopic, heading, subscribers, findings, episode, outline, workflow, planned,
                       attempts, accepted, emailed, sent, reported, changes>>
    BY <1>4 DEF vars
  <2>2. TypeOK' BY <2>1 DEF IInv, TypeOK
  <2>3. Shrinks /\ ShowsStay BY <2>1 DEF Shrinks, ShowsStay
  <2>4. CallsAreFew'
    <3>1. \A u \in User : Calls(u)' = Calls(u) BY <2>1, CallsOfTheWorld DEF mail
    <3>2. \A b : Rest(b)' = Rest(b) /\ RestCall(b)' = RestCall(b) BY <2>1 DEF Rest, RestCall, BatchOf, BatchNumber
    <3>3. \A u \in User : NextCalls(u)' = NextCalls(u) BY <2>1, <3>2 DEF NextCalls
    <3>4. changes \in Nat BY Bounds DEF IInv, TypeOK
    <3>. QED BY <2>1, <3>1, <3>3, <3>4, CallsStayFew DEF IInv
  <2>5. (workflow.isInTime => outline' = "signalled") /\ (outline' # "unsettled" => IsSettled')
    BY <2>1 DEF IInv, WorkflowFits, IsSettled
  <2>. QED BY <2>1, <2>2, <2>3, <2>4, <2>5, WorldHolds DEF mail
<1>. QED BY <1>1, <1>2, <1>3, <1>4 DEF Next

\* The invariant is inductive.
LEMMA Invariant == Spec => []IInv
BY InitHolds, NextHolds, PTL DEF Spec

-----------------------------------------------------------------------------
(* Theorems *)

\* The types, for every number of users, attempts and changes.
THEOREM EmailTypeCorrect == Spec => []TypeOK
<1>1. IInv => TypeOK BY DEF IInv
<1>. QED BY <1>1, Invariant, PTL

\* recordScanEmailSends only ever records who was sent the email.
THEOREM RecordsAreTrue == Spec => []RecordedWasEmailed
<1>1. IInv => RecordedWasEmailed BY DEF IInv
<1>. QED BY <1>1, Invariant, PTL

\* Batch after batch, nobody who was planned for is left out of a finished workflow
\* in silence: every batch was sent, or its loss was reported.
THEOREM NoSilentLoss == Spec => []NobodyIsLeftOut
<1>1. IInv => NobodyIsLeftOut BY DEF IInv, WorkflowFits, NobodyIsLeftOut, IsCovered, Emailed
<1>. QED BY <1>1, Invariant, PTL

\* The signal that the outline is settled comes after its title.
THEOREM SignalMeansTitle == Spec => []SettledTitleIsShown
<1>1. IInv => SettledTitleIsShown BY DEF IInv, AcceptedFits, SettledTitleIsShown
<1>. QED BY <1>1, Invariant, PTL

\* The bodies of the calls to a user are told apart by their recipients and heading, and
\* by what they show: the Podcast Episode or not, and one state of the Findings.
LEMMA EmailsAreFew == ASSUME IInv, NEW u \in User PROVE emailed[u] <= (1 + changes) * Contents
<1>1. /\ TypeOK /\ accepted \subseteq Body /\ changes \in Nat /\ emailed[u] \in Nat
      /\ findings \in Nat
  BY Bounds DEF IInv, TypeOK
<1>2. IsFiniteSet(Calls(u)) /\ Cardinality(Calls(u)) \in Nat /\ Cardinality(Calls(u)) <= 1 + changes
  <2>1. IsFiniteSet(Calls(u) \cup NextCalls(u)) BY CallsAreFinite, FS_Subset DEF Calls, NextCalls
  <2>2. IsFiniteSet(Calls(u)) /\ Cardinality(Calls(u)) <= Cardinality(Calls(u) \cup NextCalls(u))
    BY <2>1, FS_Subset
  <2>3. Cardinality(Calls(u)) \in Nat /\ Cardinality(Calls(u) \cup NextCalls(u)) \in Nat
    BY <2>1, <2>2, FS_CardinalityType
  <2>4. Cardinality(Calls(u) \cup NextCalls(u)) <= 1 + changes BY DEF IInv, CallsAreFew
  <2>. QED BY <1>1, <2>2, <2>3, <2>4
<1> DEFINE Titles == IF episode \in {"none", "untitled"} THEN {FALSE} ELSE {TRUE, FALSE}
           Shown == (0..findings) \X Titles
<1>3. IsFiniteSet(Shown) /\ Cardinality(Shown) = Contents
  <2> DEFINE one == {FALSE}
             both == one \cup {TRUE}
  <2>1. IsFiniteSet(one) /\ Cardinality(one) = 1 BY FS_Singleton
  <2>2. IsFiniteSet(both) /\ Cardinality(both) = 2
    <3>1. TRUE \notin one OBVIOUS
    <3>2. IsFiniteSet(both) BY <2>1, FS_AddElement
    <3>3. Cardinality(both) = Cardinality(one) + 1
      <4> HIDE DEF one
      <4>. QED BY <2>1, <3>1, FS_AddElement
    <3> HIDE DEF one, both
    <3>. QED BY <2>1, <3>2, <3>3
  <2>3. {TRUE, FALSE} = both OBVIOUS
  <2>4. /\ IsFiniteSet(Titles)
        /\ Cardinality(Titles) = IF episode \in {"none", "untitled"} THEN 1 ELSE 2
    BY <2>1, <2>2, <2>3
  <2>5. IsFiniteSet(0..findings) /\ Cardinality(0..findings) = 1 + findings
    BY <1>1, FS_Interval
  <2> HIDE DEF Titles
  <2>6. IsFiniteSet(Shown) /\ Cardinality(Shown) = Cardinality(0..findings) * Cardinality(Titles)
    BY <2>4, <2>5, FS_Product
  <2>. QED BY <2>4, <2>5, <2>6 DEF Contents
<1>4. ASSUME NEW body \in AcceptedTo(u)
      PROVE  CallOf(body) \in Calls(u) /\ <<body.findings, body.isShown>> \in Shown
  <2>1. body \in accepted /\ u \in body.to /\ body \in Body BY <1>1 DEF AcceptedTo
  <2>2. CallOf(body) \in Call /\ u \in CallOf(body)[1] BY <2>1 DEF CallOf, Call, Body
  <2>3. CallOf(body) \in Calls(u) BY <2>1, <2>2 DEF Calls
  <2>4. /\ body.isShown \in BOOLEAN /\ (body.isShown => episode \notin {"none", "untitled"})
        /\ body.findings \in 0..findings
    BY <2>1 DEF IInv, AcceptedFits, Body
  <2>. QED BY <2>3, <2>4
<1> HIDE DEF Shown
<1> DEFINE f == [body \in AcceptedTo(u) |-> <<CallOf(body), <<body.findings, body.isShown>>>>]
<1>5. f \in Injection(AcceptedTo(u), Calls(u) \X Shown)
  <2>1. f \in [AcceptedTo(u) -> Calls(u) \X Shown] BY <1>4
  <2>2. ASSUME NEW c \in AcceptedTo(u), NEW d \in AcceptedTo(u), f[c] = f[d] PROVE c = d
    <3>1. c \in Body /\ d \in Body BY <1>1 DEF AcceptedTo
    <3>2. c.to = d.to /\ c.heading = d.heading /\ c.isShown = d.isShown /\ c.findings = d.findings
      BY <2>2 DEF CallOf
    <3>. QED BY <3>1, <3>2 DEF Body
  <2>. QED BY <2>1, <2>2 DEF Injection, IsInjective
<1>6. /\ IsFiniteSet(Calls(u) \X Shown)
      /\ Cardinality(Calls(u) \X Shown) = Cardinality(Calls(u)) * Cardinality(Shown)
  BY <1>2, <1>3, FS_Product
<1>7. IsFiniteSet(AcceptedTo(u)) /\ Cardinality(AcceptedTo(u)) <= Cardinality(Calls(u) \X Shown)
  <2> HIDE DEF f
  <2>. QED BY <1>5, <1>6, FS_Injection
<1>8. Cardinality(AcceptedTo(u)) \in Nat BY <1>7, FS_CardinalityType
<1>9. emailed[u] <= Cardinality(AcceptedTo(u)) BY DEF IInv, EmailsAreCounted
<1>10. Contents \in Nat BY <1>1 DEF Contents
<1> DEFINE calls == Cardinality(Calls(u))
<1>11. calls * Contents <= (1 + changes) * Contents /\ calls * Contents \in Nat
       /\ (1 + changes) * Contents \in Nat
  <2> HIDE DEF calls
  <2>1. calls \in Nat /\ calls <= 1 + changes BY <1>2 DEF calls
  <2>2. (1 + changes - calls) * Contents >= 0 BY <1>1, <1>10, <2>1
  <2>3. (1 + changes - calls) * Contents = (1 + changes) * Contents - calls * Contents
    BY <1>1, <1>10, <2>1
  <2>4. calls * Contents \in Nat /\ (1 + changes) * Contents \in Nat BY <1>1, <1>10, <2>1
  <2> HIDE DEF Contents
  <2>. QED BY <2>2, <2>3, <2>4
<1>12. Cardinality(AcceptedTo(u)) <= calls * Contents BY <1>3, <1>6, <1>7
<1> HIDE DEF calls, AcceptedTo
<1>. QED BY <1>1, <1>8, <1>9, <1>11, <1>12

\* However often answers are lost, records fail and attempts run on beside the next,
\* a user gets no email twice but as another call.
THEOREM NoRepeats == Spec => []RetryRepeatsNothing
<1>1. IInv => RetryRepeatsNothing BY EmailsAreFew DEF RetryRepeatsNothing
<1>. QED BY <1>1, Invariant, PTL

-----------------------------------------------------------------------------
(* ScanEmail implements DeliveryPromise                                     *)
(*                                                                         *)
(* Beside IInv, the invariant PlanFits says that the plan leaves no         *)
(* subscriber out, so that whoever is due is in one of the batches that a   *)
(* finished workflow has come past.                                         *)

PlanFits ==
  /\ kind = "report" => subscribers \subseteq {1}
  /\ workflow.pc \in {"waiting", "planning"} => reported = {}
  /\ hasTopic /\ workflow.pc \in {"sending", "done"} =>
       subscribers \subseteq planned \/ (planned = {} /\ 0 \in reported)

\* The plan fits at first.
LEMMA InitPlanFits == Init => PlanFits
BY DEF Init, PlanFits

\* It goes on to fit while recipients leave and losses are reported.
LEMMA PlanStaysFit ==
  ASSUME PlanFits, Shrinks, UNCHANGED kind, reported \subseteq reported',
         \/ UNCHANGED <<workflow, reported>>
         \/ workflow.pc = "sending" /\ workflow'.pc \in {"sending", "done", "failed"}
  PROVE  PlanFits'
BY DEF PlanFits, Shrinks

\* Where a workflow goes when a batch is through, given up or tried again.
LEMMA SendingGoesOn ==
  ASSUME IInv, workflow.pc = "sending", (NextBatch /\ UNCHANGED reported) \/ GivesUp \/ Retries
  PROVE  /\ reported \subseteq reported'
         /\ workflow'.pc \in {"sending", "done", "failed"}
         /\ workflow'.pc = "failed" => UNCHANGED reported
<1>1. workflow \in Workflow BY DEF IInv, TypeOK, Workflow
<1>2. NextBatch => workflow'.pc \in {"sending", "done"} BY <1>1 DEF NextBatch, Workflow
<1>3. ASSUME GivesUp
      PROVE  /\ reported \subseteq reported' /\ workflow'.pc \in {"sending", "done", "failed"}
             /\ workflow'.pc = "failed" => UNCHANGED reported
  BY <1>1, <1>2, <1>3 DEF GivesUp, Goes, Workflow
<1>4. ASSUME Retries, workflow.try < MaxAttempts PROVE UNCHANGED reported /\ workflow'.pc = "sending"
  BY <1>1, <1>4 DEF Retries, Workflow
<1>. QED BY <1>2, <1>3, <1>4 DEF Retries

\* A step of the workflow that sends: it starts an attempt, or goes on.
LEMMA SendingMoves ==
  ASSUME IInv, StartAttempt \/ AttemptReturns \/ AttemptTimesOut
  PROVE  /\ UNCHANGED <<world, planned, mail, sent>> /\ workflow.pc = "sending"
         /\ reported \subseteq reported'
         /\ workflow'.pc \in {"sending", "done", "failed"}
         /\ workflow'.pc = "failed" => UNCHANGED reported
<1>1. UNCHANGED <<world, planned, mail, sent>> /\ workflow.pc = "sending"
  BY DEF StartAttempt, AttemptReturns, AttemptTimesOut
<1>2. CASE StartAttempt BY <1>1, <1>2 DEF StartAttempt
<1>3. CASE AttemptReturns BY <1>1, <1>3, SendingGoesOn DEF AttemptReturns
<1>4. CASE AttemptTimesOut BY <1>1, <1>4, SendingGoesOn DEF AttemptTimesOut
<1>. QED BY <1>1, <1>2, <1>3, <1>4

\* What the world and the attempts leave alone.
LEMMA OthersMove ==
  ASSUME WorldStep \/ (\E a \in Sender : AttemptStep(a))
  PROVE  Shrinks /\ UNCHANGED <<kind, workflow, reported>>
<1>1. CASE WorldStep
  BY <1>1 DEF WorldStep, Unsubscribe, DeleteTopic, HeadingChanges, FindingsChange, EpisodeEnds, OutlineEnds,
              SignalOutlineSettled, Shrinks
<1>2. CASE \E a \in Sender : AttemptStep(a)
  BY <1>2 DEF AttemptStep, Render, PostAccepted, PostRefused, RecordSends, AttemptThrows, world, Shrinks
<1>. QED BY <1>1, <1>2

\* The plan takes in every subscriber, or its failure is reported.
LEMMA PlanningFits == ASSUME IInv, PlanFits, Plan \/ PlanFails PROVE PlanFits'
<1>1. workflow \in Workflow /\ workflow.pc = "planning" BY DEF IInv, TypeOK, Workflow, Plan, PlanFails
<1>2. planned = {} /\ sent = {} BY <1>1 DEF IInv, WorkflowFits, IsFresh
<1>3. UNCHANGED <<kind, hasTopic, subscribers>> BY DEF Plan, PlanFails, world
<1>4. CASE Plan
  <2>1. workflow'.pc \in {"sending", "done"} BY <1>1, <1>4 DEF Plan, Goes, Workflow
  <2>2. hasTopic => subscribers \subseteq planned' BY <1>2, <1>4 DEF Plan, Sendable, PlanFits
  <2>. QED BY <1>3, <2>1, <2>2 DEF PlanFits
<1>5. CASE PlanFails
  <2>1. workflow'.pc \in {"done", "failed"} /\ planned' = {}
    BY <1>1, <1>2, <1>5 DEF PlanFails, Goes, Workflow
  <2>2. workflow'.pc = "done" => 0 \in reported'
    BY <1>1, <1>5 DEF PlanFails, Goes, Workflow
  <2>. QED BY <1>3, <2>1, <2>2 DEF PlanFits
<1>. QED BY <1>4, <1>5

\* Every step keeps the plan fit.
LEMMA NextPlanFits == IInv /\ PlanFits /\ [Next]_vars => PlanFits'
<1> SUFFICES ASSUME IInv, PlanFits, [Next]_vars PROVE PlanFits' OBVIOUS
<1>1. CASE WaitEnds
  <2>1. workflow \in Workflow BY DEF IInv, TypeOK, Workflow
  <2>2. workflow.pc = "waiting" /\ workflow'.pc = "planning" /\ UNCHANGED <<world, reported>>
    BY <1>1, <2>1 DEF WaitEnds, Workflow
  <2>. QED BY <2>2 DEF PlanFits, world
<1>2. CASE Plan \/ PlanFails BY <1>2, PlanningFits
<1>3. CASE StartAttempt \/ AttemptReturns \/ AttemptTimesOut
  <2>1. Shrinks /\ UNCHANGED kind BY <1>3, SendingMoves DEF Shrinks, world
  <2>. QED BY <1>3, <2>1, SendingMoves, PlanStaysFit
<1>4. CASE WorldStep \/ (\E a \in Batch \X Try : AttemptStep(a))
  BY <1>4, OthersMove, PlanStaysFit DEF Sender
<1>5. CASE UNCHANGED vars BY <1>5 DEF vars, PlanFits
<1>. QED BY <1>1, <1>2, <1>3, <1>4, <1>5 DEF Next, WorkflowStep

\* A finished workflow has emailed everybody who was still due.
LEMMA DoneIsDelivered == ASSUME IInv, PlanFits, workflow.pc = "done" PROVE Due \subseteq Emailed
<1> SUFFICES ASSUME NEW u \in Due PROVE u \in Emailed OBVIOUS
<1> DEFINE b == BatchNumber(u)
<1>1. u \in subscribers /\ hasTopic /\ b \notin reported BY DEF Due
<1>2. u \in User /\ planned \subseteq User BY <1>1 DEF IInv, TypeOK
<1>3. b = Rank(u) \div BatchLimit BY DEF BatchNumber, Rank, Before
<1>4. CASE subscribers \subseteq planned
  <2>1. u \in BatchOf(b) BY <1>1, <1>4 DEF BatchOf
  <2>2. b \in Nat BY <1>2, <1>3, RankType, Division, Bounds
  <2> HIDE DEF b
  <2>3. b \in Batch \ reported BY <1>1, <1>2, <2>1, <2>2, BatchInRange
  <2>4. IsCovered(b, Emailed) BY <2>3 DEF IInv, WorkflowFits
  <2>. QED BY <1>1, <2>1, <2>4 DEF IsCovered
<1>5. CASE planned = {} /\ 0 \in reported
  <2>1. Before(u) = {} BY <1>5 DEF Before
  <2>2. Rank(u) = 0 BY <2>1, FS_EmptySet DEF Rank
  <2>3. b = 0 BY <1>3, <2>2, Bounds, Division
  <2>. QED BY <1>1, <1>5, <2>3
<1>. QED BY <1>1, <1>4, <1>5 DEF PlanFits

\* Nobody is due again: recipients leave, and losses are reported.
LEMMA DueShrinks ==
  ASSUME Shrinks, reported \subseteq reported' PROVE Due' \subseteq Due
BY DEF Due, BatchNumber, Shrinks

LEMMA DueStays ==
  ASSUME UNCHANGED <<hasTopic, subscribers, planned, reported>> PROVE Due' = Due
BY DEF Due, BatchNumber

\* A step of the promise, or none that it sees.
DeliveryStep == Delivery!Next \/ UNCHANGED <<Due, Emailed, sent, Phase>>

\* The workflow goes on, ends or fails.
LEMMA WorkflowIsSeen ==
  ASSUME IInv', PlanFits', UNCHANGED <<emailed, sent>>, Due' \subseteq Due,
         Phase = "sending", Phase' = "failed" => UNCHANGED Due
  PROVE  DeliveryStep
<1>1. UNCHANGED Emailed BY DEF Emailed
<1>2. Phase' \in {"sending", "sent", "failed"} /\ (Phase' = "sent" <=> workflow'.pc = "done") BY DEF Phase
<1>3. CASE Phase' = "sending" BY <1>1, <1>3 DEF DeliveryStep, Delivery!Next, Delivery!LetOff
<1>4. CASE Phase' = "failed" BY <1>1, <1>4 DEF DeliveryStep, Delivery!Next, Delivery!Fail
<1>5. CASE Phase' = "sent"
  <2>1. (Due \subseteq Emailed)'
    <3>1. (IInv /\ PlanFits /\ workflow.pc = "done")' BY <1>2, <1>5
    <3>2. (IInv /\ PlanFits /\ workflow.pc = "done" => Due \subseteq Emailed)' BY DoneIsDelivered, PTL
    <3>. QED BY <3>1, <3>2
  <2>. QED BY <1>1, <1>5, <2>1 DEF DeliveryStep, Delivery!Next, Delivery!Finish
<1>. QED BY <1>2, <1>3, <1>4, <1>5

\* An attempt emails, records, or is not seen.
LEMMA AttemptIsSeen ==
  ASSUME IInv, IInv', NEW a \in Sender, AttemptStep(a) PROVE DeliveryStep
<1>1. UNCHANGED <<world, workflow, planned, reported>>
  BY DEF AttemptStep, Render, PostAccepted, PostRefused, RecordSends, AttemptThrows
<1>2. UNCHANGED Due BY <1>1, DueStays DEF world
<1>3. UNCHANGED Phase BY <1>1 DEF Phase
<1>4. CASE PostAccepted(a)
  <2>1. attempts[a].body \in Body BY DEF IInv, TypeOK, Attempt, Sender
  <2>2. \A u \in User : emailed[u] \in Nat /\ emailed'[u] \in Nat /\ emailed'[u] >= emailed[u]
    BY <1>4, <2>1, AcceptingCounts DEF PostAccepted, IInv, TypeOK
  <2>3. Emailed \subseteq Emailed' /\ Emailed' \subseteq User BY <2>2 DEF Emailed
  <2>4. UNCHANGED sent BY <1>4 DEF PostAccepted
  <2>. QED BY <1>2, <1>3, <2>3, <2>4 DEF DeliveryStep, Delivery!Next, Delivery!Tell
<1>5. CASE RecordSends(a)
  <2>1. sent \subseteq sent' /\ UNCHANGED emailed BY <1>5 DEF RecordSends, mail
  <2>2. UNCHANGED Emailed BY <2>1 DEF Emailed
  <2>3. sent' \subseteq Emailed' BY DEF IInv, TypeOK, RecordedWasEmailed, Emailed
  <2>. QED BY <1>2, <1>3, <2>1, <2>2, <2>3 DEF DeliveryStep, Delivery!Next, Delivery!Note
<1>6. CASE Render(a) \/ PostRefused(a) \/ AttemptThrows(a)
  <2>1. UNCHANGED <<emailed, sent>> BY <1>6 DEF Render, PostRefused, AttemptThrows, mail
  <2>. QED BY <1>2, <1>3, <2>1 DEF DeliveryStep, Emailed
<1>. QED BY <1>4, <1>5, <1>6 DEF AttemptStep

\* Every step of the email is one of the promise, or is not seen.
LEMMA NextKeepsDelivery ==
  IInv /\ IInv' /\ PlanFits /\ PlanFits' /\ [Next]_vars => DeliveryStep
<1> SUFFICES ASSUME IInv, IInv', PlanFits, PlanFits', [Next]_vars PROVE DeliveryStep OBVIOUS
<1>1. workflow \in Workflow BY DEF IInv, TypeOK, Workflow
<1>2. CASE WaitEnds
  <2>1. UNCHANGED <<world, planned, mail, sent, reported>> BY <1>2 DEF WaitEnds
  <2>2. UNCHANGED Due BY <2>1, DueStays DEF world
  <2>3. workflow.pc = "waiting" /\ workflow'.pc = "planning" BY <1>1, <1>2 DEF WaitEnds, Workflow
  <2>4. UNCHANGED Phase BY <2>3 DEF Phase
  <2>. QED BY <2>1, <2>2, <2>4 DEF DeliveryStep, Emailed, mail
<1>3. CASE Plan \/ PlanFails
  <2>1. workflow.pc = "planning" /\ UNCHANGED <<world, mail, sent>> BY <1>3 DEF Plan, PlanFails
  <2>2. Phase = "sending" BY <2>1 DEF Phase
  <2>3. reported = {} BY <2>1 DEF PlanFits
  <2>4. Due' \subseteq Due BY <2>1, <2>3 DEF Due, world
  <2>5. Phase' = "failed" => UNCHANGED Due
    <3>1. ASSUME Phase' = "failed" PROVE workflow'.pc = "failed" BY <3>1 DEF Phase
    <3>2. ASSUME workflow'.pc = "failed" PROVE UNCHANGED <<planned, reported>>
      BY <1>1, <1>3, <3>2 DEF Plan, PlanFails, Goes, Workflow
    <3>. QED BY <2>1, <3>1, <3>2, DueStays DEF world
  <2>. QED BY <2>1, <2>2, <2>4, <2>5, WorkflowIsSeen DEF mail
<1>4. CASE StartAttempt \/ AttemptReturns \/ AttemptTimesOut
  <2>1. /\ UNCHANGED <<world, planned, mail, sent>> /\ workflow.pc = "sending" /\ reported \subseteq reported'
        /\ workflow'.pc = "failed" => UNCHANGED reported
    BY <1>4, SendingMoves
  <2>2. Phase = "sending" /\ (Phase' = "failed" => workflow'.pc = "failed") BY <2>1 DEF Phase
  <2>3. Shrinks BY <2>1 DEF Shrinks, world
  <2>4. Due' \subseteq Due BY <2>1, <2>3, DueShrinks
  <2>5. Phase' = "failed" => UNCHANGED Due BY <2>1, <2>2, DueStays DEF world
  <2>. QED BY <2>1, <2>2, <2>4, <2>5, WorkflowIsSeen DEF mail
<1>5. CASE \E a \in Batch \X Try : AttemptStep(a) BY <1>5, AttemptIsSeen DEF Sender
<1>6. CASE WorldStep
  <2>1. UNCHANGED <<workflow, mail, sent, reported>> BY <1>6 DEF WorldStep
  <2>2. Due' \subseteq Due BY <1>6, <2>1, OthersMove, DueShrinks
  <2>3. UNCHANGED <<Emailed, sent, Phase>> BY <2>1 DEF Emailed, Phase, mail
  <2>. QED BY <2>2, <2>3 DEF DeliveryStep, Delivery!Next, Delivery!LetOff
<1>7. CASE UNCHANGED vars BY <1>7 DEF vars, DeliveryStep, Due, BatchNumber, Emailed, Phase
<1>. QED BY <1>2, <1>3, <1>4, <1>5, <1>6, <1>7 DEF Next, WorkflowStep

\* The email starts as a delivery does.
LEMMA InitKeepsDelivery == Init => Delivery!Init
<1> SUFFICES ASSUME Init PROVE Delivery!Init OBVIOUS
<1>1. Due \subseteq User BY Bounds DEF Init, Due
<1>2. Emailed = {} /\ sent = {} BY DEF Init, Emailed
<1>3. Phase = "sending" BY DEF Init, Phase
<1>. QED BY <1>1, <1>2, <1>3 DEF Delivery!Init

\* The workflow with its batches, attempts and calls does what a delivery promises: who
\* is subscribed until it is done was emailed, or a loss was reported for them.
THEOREM EmailKeepsDelivery == Spec => KeepsDelivery
<1>1. Spec => []PlanFits
  <2>1. IInv /\ PlanFits /\ [Next]_vars => PlanFits' BY NextPlanFits
  <2>. QED BY <2>1, InitPlanFits, Invariant, PTL DEF Spec
<1>2. IInv /\ IInv' /\ PlanFits /\ PlanFits' /\ [Next]_vars =>
        [Delivery!Next]_<<Due, Emailed, sent, Phase>>
  BY NextKeepsDelivery DEF DeliveryStep
<1>. QED BY <1>1, <1>2, InitKeepsDelivery, Invariant, PTL DEF Spec, KeepsDelivery, Delivery!Spec

-----------------------------------------------------------------------------
(* How far the workflow still has to go.                                    *)
(*                                                                         *)
(* Termination itself (WorkflowEnds) is about fairness.  What it rests on   *)
(* is that the workflow has a number of steps left that each step of its    *)
(* own takes down and nothing else takes up: a step of the workflow is      *)
(* possible in each of its states but the last two.                         *)

\* The attempts that are left, of this batch and of those behind it.
AttemptsLeft == (Users - workflow.batch) * MaxAttempts - workflow.try

\* Two steps for each attempt, one to start it and one to take its result.
SendingLeft == 2 * AttemptsLeft + (IF attempts[Current].pc = "idle" THEN 2 ELSE 1)

StepsLeft ==
  CASE workflow.pc = "waiting" -> 2 * Users * MaxAttempts + 2
    [] workflow.pc = "planning" -> 2 * Users * MaxAttempts + 1
    [] workflow.pc = "sending" -> SendingLeft
    [] OTHER -> 0

\* The steps of the workflow count down, and no step of an attempt or of the world
\* sets them back.
CountsDown == StepsLeft' <= StepsLeft /\ (WorkflowStep => StepsLeft' < StepsLeft)

LEMMA StepsLeftType == ASSUME IInv PROVE StepsLeft \in 0..(2 * Users * MaxAttempts + 2)
<1> DEFINE n == Users * MaxAttempts
<1>1. Users \in Nat /\ MaxAttempts \in Nat /\ n \in Nat BY Bounds
<1>2. 2 * Users * MaxAttempts = 2 * n BY <1>1
<1>3. CASE workflow.pc = "sending"
  <2>1. workflow.batch \in 0..(Users - 1) /\ workflow.try \in 1..MaxAttempts
    BY <1>3, Bounds DEF IInv, TypeOK, WorkflowFits, Batch, Try
  <2> DEFINE left == Users - workflow.batch
  <2>2. left \in Nat /\ left >= 1 /\ left <= Users BY <1>1, <2>1
  <2>3. left * MaxAttempts \in Nat /\ left * MaxAttempts >= MaxAttempts /\ left * MaxAttempts <= n
    <3>1. left * MaxAttempts \in Nat BY <1>1, <2>2
    <3>2. (left - 1) * MaxAttempts >= 0 /\ (left - 1) * MaxAttempts = left * MaxAttempts - MaxAttempts
      BY <1>1, <2>2
    <3>3. (Users - left) * MaxAttempts >= 0 /\ (Users - left) * MaxAttempts = n - left * MaxAttempts
      BY <1>1, <2>2
    <3> HIDE DEF left, n
    <3>. QED BY <1>1, <3>1, <3>2, <3>3
  <2>4. AttemptsLeft = left * MaxAttempts - workflow.try BY DEF AttemptsLeft
  <2> HIDE DEF left, n
  <2>5. AttemptsLeft \in Int /\ AttemptsLeft >= 0 /\ AttemptsLeft <= n - 1 BY <1>1, <2>1, <2>3, <2>4
  <2>6. SendingLeft \in 0..(2 * n + 2) BY <1>1, <2>5 DEF SendingLeft
  <2>. QED BY <1>2, <1>3, <2>6 DEF StepsLeft
<1>4. CASE workflow.pc # "sending"
  <2> HIDE DEF n
  <2>. QED BY <1>1, <1>2, <1>4 DEF StepsLeft
<1>. QED BY <1>3, <1>4

\* Another attempt, or another batch, is one fewer.
LEMMA AttemptsCountDown ==
  ASSUME IInv, IInv', workflow.pc = "sending", workflow'.pc = "sending",
         \/ workflow' = [workflow EXCEPT !.try = @ + 1]
         \/ workflow' = [workflow EXCEPT !.batch = @ + 1, !.try = 1]
  PROVE  AttemptsLeft \in Int /\ AttemptsLeft' \in Int /\ AttemptsLeft' <= AttemptsLeft - 1
<1>1. workflow \in Workflow BY DEF IInv, TypeOK, Workflow
<1>2. /\ Users \in Nat /\ MaxAttempts \in Nat /\ workflow.batch \in 0..(Users - 1)
      /\ workflow.try \in 1..MaxAttempts
  BY <1>1, Bounds DEF IInv, WorkflowFits, Batch, Workflow, Try
<1> DEFINE left == Users - workflow.batch
           all == left * MaxAttempts
<1>3. left \in Int /\ all \in Int /\ (left - 1) * MaxAttempts = all - MaxAttempts BY <1>2
<1>4. AttemptsLeft = all - workflow.try BY DEF AttemptsLeft
<1>5. CASE workflow' = [workflow EXCEPT !.try = @ + 1]
  <2>1. workflow'.batch = workflow.batch /\ workflow'.try = workflow.try + 1 BY <1>1, <1>5 DEF Workflow
  <2>2. AttemptsLeft' = all - (workflow.try + 1) BY <2>1 DEF AttemptsLeft
  <2> HIDE DEF all
  <2>. QED BY <1>2, <1>3, <1>4, <2>2
<1>6. CASE workflow' = [workflow EXCEPT !.batch = @ + 1, !.try = 1]
  <2>1. workflow'.batch = workflow.batch + 1 /\ workflow'.try = 1 BY <1>1, <1>6 DEF Workflow
  <2>2. Users - (workflow.batch + 1) = left - 1 BY <1>2
  <2>3. AttemptsLeft' = (left - 1) * MaxAttempts - 1 BY <2>1, <2>2 DEF AttemptsLeft
  <2> HIDE DEF all, left
  <2>. QED BY <1>2, <1>3, <1>4, <2>3
<1>. QED BY <1>5, <1>6

\* The workflow goes on to another attempt, or ends.
LEMMA GoingOnMoves ==
  ASSUME IInv, (NextBatch /\ UNCHANGED reported) \/ GivesUp \/ Retries
  PROVE  \/ workflow'.pc \in {"done", "failed"}
         \/ workflow' = [workflow EXCEPT !.try = @ + 1]
         \/ workflow' = [workflow EXCEPT !.batch = @ + 1, !.try = 1]
<1>1. workflow \in Workflow BY DEF IInv, TypeOK, Workflow
<1>2. ASSUME NextBatch
      PROVE  workflow'.pc = "done" \/ workflow' = [workflow EXCEPT !.batch = @ + 1, !.try = 1]
  BY <1>1, <1>2 DEF NextBatch, Workflow
<1>3. ASSUME Goes("failed") PROVE workflow'.pc = "failed" BY <1>1, <1>3 DEF Goes, Workflow
<1>. QED BY <1>2, <1>3 DEF GivesUp, Retries

LEMMA WorkflowCountsDown == ASSUME IInv, IInv', WorkflowStep PROVE StepsLeft' < StepsLeft
<1>1. workflow \in Workflow BY DEF IInv, TypeOK, Workflow
<1>2. /\ StepsLeft \in Nat /\ StepsLeft' \in Nat
      /\ StepsLeft <= 2 * Users * MaxAttempts + 2 /\ StepsLeft' <= 2 * Users * MaxAttempts + 2
  <2> DEFINE n == 2 * Users * MaxAttempts
  <2>1. n \in Nat BY Bounds
  <2>2. StepsLeft \in 0..(n + 2) BY StepsLeftType
  <2>3. (IInv => StepsLeft \in 0..(2 * Users * MaxAttempts + 2))' BY StepsLeftType, PTL
  <2>4. StepsLeft' \in 0..(n + 2) BY <2>3
  <2> HIDE DEF n
  <2>5. StepsLeft \in Nat /\ StepsLeft' \in Nat /\ StepsLeft <= n + 2 /\ StepsLeft' <= n + 2
    BY <2>1, <2>2, <2>4
  <2>. QED BY <2>5 DEF n
<1> DEFINE n == 2 * Users * MaxAttempts
<1>3. n \in Nat BY Bounds
<1>4. CASE WaitEnds
  <2>1. workflow.pc = "waiting" /\ workflow'.pc = "planning" BY <1>1, <1>4 DEF WaitEnds, Workflow
  <2>2. StepsLeft = n + 2 /\ StepsLeft' = n + 1 BY <2>1 DEF StepsLeft
  <2> HIDE DEF n
  <2>. QED BY <1>3, <2>2
<1>5. CASE Plan \/ PlanFails
  <2>1. workflow.pc = "planning" BY <1>5 DEF Plan, PlanFails
  <2>2. StepsLeft = n + 1 BY <2>1 DEF StepsLeft
  <2>3. \E pc \in {"sending", "done", "failed"} : workflow' = [workflow EXCEPT !.pc = pc]
    BY <1>5 DEF Plan, PlanFails, Goes
  <2>4. CASE workflow'.pc = "sending"
    <3>1. workflow'.batch = workflow.batch /\ workflow'.try = workflow.try /\ workflow.batch = 0
          /\ workflow.try \in Nat /\ workflow.try >= 1
      BY <1>1, <2>1, <2>3, Bounds DEF Workflow, Try, IInv, WorkflowFits, IsFresh
    <3>2. StepsLeft' = SendingLeft' BY <2>4 DEF StepsLeft
    <3> DEFINE m == Users * MaxAttempts
    <3>3. AttemptsLeft' = m - workflow.try /\ m \in Nat /\ n = 2 * m
      <4>1. Users \in Nat /\ MaxAttempts \in Nat BY Bounds
      <4>2. (Users - 0) * MaxAttempts = m BY <4>1
      <4>. QED BY <3>1, <4>1, <4>2 DEF AttemptsLeft
    <3> HIDE DEF m, n
    <3>4. SendingLeft' <= 2 * (m - workflow.try) + 2 BY <3>1, <3>3 DEF SendingLeft
    <3>. QED BY <1>2, <2>2, <3>1, <3>2, <3>3, <3>4
  <2>5. CASE workflow'.pc # "sending"
    <3>1. StepsLeft' = 0 BY <1>1, <2>3, <2>5 DEF StepsLeft, Workflow
    <3> HIDE DEF n
    <3>. QED BY <1>3, <2>2, <3>1
  <2>. QED BY <2>4, <2>5
<1>6. CASE StartAttempt
  <2>1. workflow.pc = "sending" /\ attempts[Current].pc = "idle" /\ UNCHANGED workflow
    BY <1>6 DEF StartAttempt
  <2>2. Current \in Sender BY <1>1, <2>1 DEF Current, Sender, IInv, WorkflowFits, Workflow
  <2>3. attempts \in [Sender -> Attempt] BY DEF IInv, TypeOK, Sender
  <2>4. attempts'[Current].pc # "idle"
    BY <1>6, <2>2, <2>3 DEF StartAttempt, Idle, Attempt
  <2>5. UNCHANGED <<AttemptsLeft, Current>> BY <2>1 DEF AttemptsLeft, Current
  <2>6. StepsLeft = 2 * AttemptsLeft + 2 /\ StepsLeft' = 2 * AttemptsLeft + 1
    BY <2>1, <2>4, <2>5 DEF StepsLeft, SendingLeft
  <2>7. AttemptsLeft \in Int
    <3>1. workflow.batch \in Int /\ workflow.try \in Int BY <1>1 DEF Workflow, Try
    <3>. QED BY <3>1, Bounds DEF AttemptsLeft
  <2>. QED BY <2>6, <2>7
<1>7. CASE AttemptReturns \/ AttemptTimesOut
  <2>1. workflow.pc = "sending" /\ ((NextBatch /\ UNCHANGED reported) \/ GivesUp \/ Retries)
    BY <1>7 DEF AttemptReturns, AttemptTimesOut
  <2>2. attempts[Current].pc # "idle" BY <1>7 DEF AttemptReturns, AttemptTimesOut
  <2>3. StepsLeft = 2 * AttemptsLeft + 1 BY <2>1, <2>2 DEF StepsLeft, SendingLeft
  <2>4. CASE workflow'.pc \in {"done", "failed"}
    <3>1. StepsLeft' = 0 BY <2>4 DEF StepsLeft
    <3>2. AttemptsLeft \in Int
      <4>1. workflow.batch \in Int /\ workflow.try \in Int BY <1>1 DEF Workflow, Try
      <4>. QED BY <4>1, Bounds DEF AttemptsLeft
    <3>. QED BY <1>2, <2>3, <3>1, <3>2
  <2>5. CASE workflow'.pc \notin {"done", "failed"}
    <3>1. \/ workflow' = [workflow EXCEPT !.try = @ + 1]
          \/ workflow' = [workflow EXCEPT !.batch = @ + 1, !.try = 1]
      BY <2>1, <2>5, GoingOnMoves
    <3>2. workflow'.pc = "sending" BY <1>1, <2>1, <3>1 DEF Workflow
    <3>3. AttemptsLeft \in Int /\ AttemptsLeft' \in Int /\ AttemptsLeft' <= AttemptsLeft - 1
      BY <2>1, <3>1, <3>2, AttemptsCountDown
    <3>4. StepsLeft' <= 2 * AttemptsLeft' + 2 BY <3>2, <3>3 DEF StepsLeft, SendingLeft
    <3>5. StepsLeft \in Nat /\ StepsLeft' \in Nat BY <1>2
    <3>6. ASSUME NEW a \in Int, NEW b \in Int, NEW s \in Nat, NEW t \in Nat,
                 b <= a - 1, s = 2 * a + 1, t <= 2 * b + 2
          PROVE  t < s
      BY <3>6
    <3>. QED BY <2>3, <3>3, <3>4, <3>5, <3>6
  <2>. QED BY <2>4, <2>5
<1>. QED BY <1>4, <1>5, <1>6, <1>7 DEF WorkflowStep

\* An attempt that moves is not idle; one that the workflow waits for does not become so.
LEMMA OthersCountNothing ==
  ASSUME IInv, UNCHANGED workflow,
         \A a \in Sender : workflow.pc = "sending" /\ a = Current =>
           (attempts'[a].pc = "idle" <=> attempts[a].pc = "idle")
  PROVE  StepsLeft' = StepsLeft
<1>1. CASE workflow.pc = "sending"
  <2>1. workflow \in Workflow BY DEF IInv, TypeOK, Workflow
  <2>2. Current \in Sender BY <1>1, <2>1 DEF Current, Sender, IInv, WorkflowFits, Workflow
  <2>3. UNCHANGED <<AttemptsLeft, Current>> BY DEF AttemptsLeft, Current
  <2>. QED BY <1>1, <2>2, <2>3 DEF StepsLeft, SendingLeft
<1>2. CASE workflow.pc # "sending" BY <1>2 DEF StepsLeft
<1>. QED BY <1>1, <1>2

LEMMA AttemptCountsNothing ==
  ASSUME IInv, NEW a \in Sender, AttemptStep(a) PROVE StepsLeft' = StepsLeft
<1>1. TypeOK /\ attempts \in [Sender -> Attempt] BY DEF IInv, TypeOK, Sender
<1>2. UNCHANGED workflow /\ attempts[a].pc \in Active
  BY DEF AttemptStep, Render, PostAccepted, PostRefused, RecordSends, AttemptThrows, At, Active
<1>3. ASSUME NEW result \in {"accepted", "retryable", "rejected"}, Ends(a, result)
      PROVE  /\ \A d \in Sender \ {a} : attempts'[d] = attempts[d]
             /\ workflow.pc = "sending" /\ a = Current => attempts'[a].pc # "idle"
  <2>1. [Idle EXCEPT !.pc = result].pc = result BY IdleTyped DEF AttemptPc
  <2>. QED BY <1>1, <1>3, <2>1 DEF Ends
<1>4. ASSUME GoesTo(a, "record")
      PROVE  (\A d \in Sender \ {a} : attempts'[d] = attempts[d]) /\ attempts'[a].pc # "idle"
  BY <1>1, <1>4 DEF GoesTo, Attempt
<1>5. ASSUME Render(a)
      PROVE  (\A d \in Sender \ {a} : attempts'[d] = attempts[d]) /\ attempts'[a].pc # "idle"
  BY <1>1, <1>5 DEF Render
<1>6. /\ \A d \in Sender \ {a} : attempts'[d] = attempts[d]
      /\ workflow.pc = "sending" /\ a = Current => attempts'[a].pc # "idle"
  BY <1>3, <1>4, <1>5 DEF AttemptStep, PostAccepted, PostRefused, RecordSends, AttemptThrows
<1>. QED BY <1>2, <1>6, OthersCountNothing DEF Active

\* Whatever fails, an email workflow ends after at most two steps for each attempt of
\* each of as many batches as users, and two before them: a workflow that goes on takes
\* one of the steps it has left, and nobody gives it more.
THEOREM WorkIsBounded == Spec => [](StepsLeft \in 0..(2 * Users * MaxAttempts + 2)) /\ [][CountsDown]_vars
<1>1. IInv => StepsLeft \in 0..(2 * Users * MaxAttempts + 2) BY StepsLeftType
<1>2. IInv /\ IInv' /\ [Next]_vars => [CountsDown]_vars
  <2> SUFFICES ASSUME IInv, IInv', Next PROVE CountsDown OBVIOUS
  <2>1. StepsLeft \in Int
    <3>1. 2 * Users * MaxAttempts + 2 \in Int BY Bounds
    <3>. QED BY <3>1, StepsLeftType
  <2>2. CASE WorkflowStep
    <3>1. StepsLeft' < StepsLeft BY <2>2, WorkflowCountsDown
    <3>2. (IInv => StepsLeft \in 0..(2 * Users * MaxAttempts + 2))' BY <1>1, PTL
    <3>3. StepsLeft' \in Int
      <4>1. 2 * Users * MaxAttempts + 2 \in Int BY Bounds
      <4>. QED BY <3>2, <4>1
    <3>. QED BY <2>1, <3>1, <3>3 DEF CountsDown
  <2>3. CASE ~WorkflowStep /\ \E a \in Batch \X Try : AttemptStep(a)
    BY <2>1, <2>3, AttemptCountsNothing DEF CountsDown, Sender
  <2>4. CASE ~WorkflowStep /\ WorldStep
    <3>1. UNCHANGED <<workflow, attempts>> BY <2>4 DEF WorldStep
    <3>2. StepsLeft' = StepsLeft BY <3>1, OthersCountNothing
    <3>. QED BY <2>1, <2>4, <3>2 DEF CountsDown
  <2>. QED BY <2>2, <2>3, <2>4 DEF Next
<1>. QED BY <1>1, <1>2, Invariant, PTL DEF Spec

=============================================================================
