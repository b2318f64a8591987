---------------------------- MODULE PushDelivery ----------------------------
(***************************************************************************)
(* The pushes of one event, a Scan's new Findings or a chat mention: the   *)
(* phones that register and leave while they are sent, the workflow and    *)
(* the attempts of its send, the chunks of an attempt, the push service,   *)
(* the rows of push_notification_sends, and the receipts.                  *)
(*                                                                         *)
(* A phone's row can move to another account, go and come back between     *)
(* any two statements.  A statement or a request may fail, an answer may   *)
(* be lost after the service accepted, and an attempt that Temporal gave   *)
(* up may go on beside the next one.                                       *)
(***************************************************************************)
EXTENDS Naturals, FiniteSets

CONSTANTS
  Phone,       \* the Expo push tokens
  User,        \* the accounts
  NoUser,      \* stands for no row in push_devices
  ChunkSize,   \* the most phones of one request
  MaxAttempts, \* maximumAttempts of SEND_RETRY_POLICY
  MaxChecks,   \* the attempts of the receipt check
  MaxRows,     \* bound on the rows that one token has had
  MaxMoves,    \* bound on what phones and users do
  MaxFaults    \* bound on failed calls, lost answers and given up attempts of the send

ASSUME PushAssumption ==
  /\ NoUser \notin User /\ IsFiniteSet(Phone) /\ IsFiniteSet(User)
  /\ ChunkSize \in Nat \ {0} /\ MaxAttempts \in Nat \ {0} /\ MaxChecks \in Nat \ {0}
  /\ MaxRows \in Nat \ {0} /\ MaxMoves \in Nat /\ MaxFaults \in Nat

VARIABLES
  rows,     \* push_devices: each token's row, and which of its rows it is
  wanted,   \* the event's recipients who turned its pushes on
  event,    \* the Topic or room message is there, out of reach, or deleted
  foreign,  \* the tokens of another Expo project
  gone,     \* the phones that the service no longer knows
  flow,     \* sendThenCheckReceipts
  attempts, \* the attempts of the send
  check,    \* the attempt of the receipt check
  receipts, \* push_notification_sends, by recipient and row
  moves, faults, \* how often the world moved, and a call failed
  delivered,   \* whom the service accepted a push for
  repeated,    \* ... and accepted it again
  unsure,      \* who was in play when the code lost track of a push
  misdirected, \* the pushes accepted for a phone that had left its recipient
  slipped,     \* the phones that left between the check of a chunk and its request
  steady       \* the recipients whose phone has been reachable all along

world == <<rows, wanted, event, foreign, gone, moves>>
history == <<delivered, repeated, unsure, misdirected, slipped, steady>>
vars == <<world, flow, attempts, check, receipts, faults, history>>

-----------------------------------------------------------------------------
(* Types *)

\* A recipient, a token, and one of the rows that the token has had.
Pair == User \X Phone \X (1..MaxRows)

Row == [user : User \cup {NoUser}, id : 0..MaxRows, isLive : BOOLEAN]

Flow == [pc : {"sending", "reporting", "waiting", "checking", "done", "failed"}, attempt : 1..MaxAttempts,
         check : 1..MaxChecks, isReported : BOOLEAN]

Attempt == [pc : {"idle", "recorded", "chunk", "request", "record", "retire", "sent", "retryable", "rejected"},
            unsent : SUBSET Pair, chunk : SUBSET Pair, unregistered : SUBSET Pair,
            isRetryable : BOOLEAN, isRejected : BOOLEAN, isGivenUp : BOOLEAN]

Check == [pc : {"load", "read", "write"}, pending : SUBSET Pair, retiring : SUBSET Pair,
          found : [{"ok", "error", "unregistered"} -> SUBSET Pair]]

TypeOK ==
  /\ rows \in [Phone -> Row]
  /\ \A p \in Phone : rows[p].user # NoUser => rows[p].id > 0
  /\ wanted \subseteq User
  /\ event \in {"there", "unheld", "deleted"}
  /\ foreign \subseteq Phone /\ gone \subseteq Phone
  /\ flow \in Flow
  /\ attempts \in [1..MaxAttempts -> Attempt]
  /\ check \in Check
  /\ receipts \in [Pair -> {"none", "pending", "ok", "error", "unregistered"}]
  /\ moves \in 0..MaxMoves /\ faults \in 0..MaxFaults
  /\ delivered \subseteq Pair /\ repeated \subseteq Pair /\ unsure \subseteq Pair
  /\ misdirected \subseteq Pair /\ slipped \subseteq Pair /\ steady \subseteq Pair

-----------------------------------------------------------------------------
(* Rows *)

\* The row is there, under whatever account.
HasRow(x) == rows[x[2]].user # NoUser /\ rows[x[2]].id = x[3]

\* The row is there with the same recipient and a session that has not ended.
IsBound(x) == HasRow(x) /\ rows[x[2]].user = x[1] /\ rows[x[2]].isLive

\* Who gets a push that is planned now.
Reachable == {x \in Pair : event = "there" /\ x[1] \in wanted /\ IsBound(x)}

NoFlow == [pc |-> "sending", attempt |-> 1, check |-> 1, isReported |-> FALSE]

Idle == [pc |-> "idle", unsent |-> {}, chunk |-> {}, unregistered |-> {}, isRetryable |-> FALSE,
         isRejected |-> FALSE, isGivenUp |-> FALSE]

NoCheck == [pc |-> "load", pending |-> {}, retiring |-> {},
            found |-> [o \in {"ok", "error", "unregistered"} |-> {}]]

Init ==
  /\ rows \in [Phone -> {[user |-> u, id |-> 1, isLive |-> TRUE] : u \in User}
                        \cup {[user |-> NoUser, id |-> 0, isLive |-> FALSE]}]
  /\ wanted \in SUBSET User
  /\ event = "there"
  /\ foreign \in SUBSET Phone
  /\ gone = {}
  /\ flow = NoFlow
  /\ attempts = [a \in 1..MaxAttempts |-> Idle]
  /\ check = NoCheck
  /\ receipts = [x \in Pair |-> "none"]
  /\ moves = 0 /\ faults = 0
  /\ delivered = {} /\ repeated = {} /\ unsure = {} /\ misdirected = {} /\ slipped = {}
  /\ steady = Reachable

\* DELETE FROM push_devices: the row keeps its number for the next one.
Without(retired) ==
  [p \in Phone |-> IF \E x \in retired : x[2] = p /\ x[3] = rows[p].id
                   THEN [user |-> NoUser, id |-> rows[p].id, isLive |-> FALSE] ELSE rows[p]]

Retire(retired) == rows' = Without(retired)

\* Who is about to be sent a push by an attempt that checked the phone.
Checked == UNION {attempts[a].chunk : a \in {b \in 1..MaxAttempts : attempts[b].pc = "request"}}

\* The history of a step that may change the rows or the recipients.
Watch ==
  /\ slipped' = slipped \cup {x \in Checked : ~IsBound(x)'}
  /\ steady' = steady \cap Reachable'

Stays == UNCHANGED <<slipped, steady>>

-----------------------------------------------------------------------------
(* Phones and users *)

Move == moves < MaxMoves /\ moves' = moves + 1

\* POST /push-devices: the token's row moves to this account and session, and the
\* account's other rows may go, one that the token rotated from and those past the
\* limit.  A first registration turns the pushes on.
Register(p, u) ==
  \E retired \in SUBSET {q \in Phone \ {p} : rows[q].user = u} :
    /\ rows[p].user = NoUser => rows[p].id < MaxRows
    /\ rows' = [q \in Phone |->
                  IF q = p THEN [user |-> u, isLive |-> TRUE,
                                 id |-> IF rows[p].user = NoUser THEN rows[p].id + 1 ELSE rows[p].id]
                  ELSE IF q \in retired THEN [user |-> NoUser, id |-> rows[q].id, isLive |-> FALSE]
                  ELSE rows[q]]
    /\ wanted' \in {wanted, wanted \cup {u}}
    /\ UNCHANGED <<event, gone>>

\* DELETE /push-devices, or a sign-out.
Unregister(p) ==
  /\ rows[p].user # NoUser
  /\ rows' = [rows EXCEPT ![p] = [@ EXCEPT !.user = NoUser, !.isLive = FALSE]]
  /\ UNCHANGED <<wanted, event, gone>>

\* The session ends, and its row outlasts it.
Expire(p) ==
  /\ rows[p].isLive
  /\ rows' = [rows EXCEPT ![p].isLive = FALSE]
  /\ UNCHANGED <<wanted, event, gone>>

\* The app is deleted from the phone.
Uninstall(p) ==
  /\ p \notin gone
  /\ gone' = gone \cup {p}
  /\ UNCHANGED <<rows, wanted, event>>

\* POST /users/me/push-preferences, or the recipient leaves or joins.
SetPreference(u) ==
  /\ wanted' \in {wanted \cup {u}, wanted \ {u}} \ {wanted}
  /\ UNCHANGED <<rows, event, gone>>

\* The Topic is deleted or the room given up; or the message is deleted, and its
\* sends with it.
LoseEvent ==
  /\ event = "there"
  /\ event' \in {"unheld", "deleted"}
  /\ UNCHANGED <<rows, wanted, gone>>

\* The deletion of the message takes its sends along.
Cascade ==
  IF event' = "deleted" THEN receipts' = [x \in Pair |-> "none"] /\ unsure' = unsure \cup delivered
  ELSE UNCHANGED <<receipts, unsure>>

WorldStep ==
  /\ flow.pc \notin {"done", "failed"}
  /\ Move
  /\ \/ \E p \in Phone : (\E u \in User : Register(p, u)) \/ Unregister(p) \/ Expire(p) \/ Uninstall(p)
     \/ \E u \in User : SetPreference(u)
     \/ LoseEvent
  /\ Watch
  /\ Cascade
  /\ UNCHANGED <<foreign, flow, attempts, check, faults, delivered, repeated, misdirected>>

-----------------------------------------------------------------------------
(* An attempt: sendScanPush or sendChatMentionPush, and deliverPushes *)

Fault == faults < MaxFaults /\ faults' = faults + 1

At(a, pc) == attempts[a].pc = pc
Goes(a, to) == attempts' = [attempts EXCEPT ![a] = to]
Ends(a, outcome) == Goes(a, [Idle EXCEPT !.pc = outcome, !.isGivenUp = attempts[a].isGivenUp])

\* Whom the code loses track of.
Loses(lost) == unsure' = unsure \cup lost

\* No heartbeat is sent before the first chunk, so an attempt may have been given up.
IsPlanning(a) == a <= flow.attempt /\ At(a, "idle")

\* loadLivePushDevices.  An event that is gone, and no phone to reach, skip the push.
Plan(a) ==
  /\ IsPlanning(a)
  /\ IF Reachable = {} THEN Ends(a, "sent")
     ELSE Goes(a, [attempts[a] EXCEPT !.pc = "recorded", !.unsent = Reachable])
  /\ Loses(IF attempts[a].isGivenUp THEN Reachable ELSE {})
  /\ Stays
  /\ UNCHANGED <<faults, rows, receipts, delivered, repeated, misdirected>>

\* A query of the plan throws.
PlanFails(a) ==
  /\ IsPlanning(a)
  /\ Fault
  /\ Ends(a, "retryable")
  /\ UNCHANGED <<rows, receipts, history>>

\* The rows whose phone was retired match no phone.
Recorded == {x \in Pair : receipts[x] # "none" /\ HasRow(x)}

\* Mutant: a retry plans for every phone again.
EveryPlanned(planned) == planned

\* Leave out every phone that an earlier attempt already reached.
Unrecorded(planned) == planned \ Recorded

LoadRecorded(a) ==
  /\ At(a, "recorded")
  /\ LET unsent == Unrecorded(attempts[a].unsent)
     IN IF unsent = {} THEN Ends(a, "sent")
        ELSE Goes(a, [attempts[a] EXCEPT !.pc = "chunk", !.unsent = unsent])
  /\ UNCHANGED <<faults, rows, receipts, history>>

\* Mutant: the phones of the plan are not checked again.
StillPlanned(chunk) == chunk

\* loadBoundPushDeviceIds: what is still bound to its recipient's live session.
StillBound(chunk) == {x \in chunk : IsBound(x)}

\* The next chunk, with the phones that moved since the plan left out.
NextChunk(a) ==
  /\ At(a, "chunk") /\ attempts[a].unsent # {}
  /\ \E planned \in SUBSET attempts[a].unsent \ {{}} :
       LET bound == StillBound(planned)
       IN /\ Cardinality(planned) <= ChunkSize
          /\ Goes(a, [attempts[a] EXCEPT !.pc = IF bound = {} THEN "chunk" ELSE "request",
                                         !.unsent = @ \ planned, !.chunk = bound])
  /\ UNCHANGED <<faults, rows, receipts, history>>

\* A given up attempt learns between two chunks that it was cancelled.
StopCancelled(a) ==
  /\ At(a, "chunk") /\ attempts[a].isGivenUp /\ attempts[a].unsent # {}
  /\ Ends(a, "retryable")
  /\ UNCHANGED <<faults, rows, receipts, history>>

\* The service takes the request: it accepts pushes, which go out, and finds phones
\* that it no longer knows.
Accepts(ok) ==
  /\ delivered' = delivered \cup ok
  /\ repeated' = repeated \cup (ok \cap delivered)
  /\ misdirected' = misdirected \cup {x \in ok : ~IsBound(x)}

\* Mutant: an error of one ticket is dropped, though waiting could fix it.
NothingKept(attempt, refused, isRetryable) == attempt

\* The first ticket error of each kind is kept.
Tallied(attempt, refused, isRetryable) ==
  IF refused = {} THEN attempt
  ELSE [attempt EXCEPT !.isRetryable = @ \/ isRetryable, !.isRejected = @ \/ ~isRetryable]

Phones(chunk) == {x[2] : x \in chunk}

\* A request with the tokens of one project is answered with a ticket for each.
RequestAnswered(a) ==
  /\ At(a, "request")
  /\ LET chunk == attempts[a].chunk
     IN /\ Phones(chunk) \subseteq foreign \/ Phones(chunk) \cap foreign = {}
        /\ \E ok \in SUBSET chunk, unregistered \in SUBSET {x \in chunk : x[2] \in gone}, isRetryable \in BOOLEAN :
             LET refused == chunk \ (ok \cup unregistered)
             IN /\ ok \cap unregistered = {}
                /\ IF refused = {} THEN UNCHANGED faults ELSE Fault
                /\ Accepts(ok)
                /\ Goes(a, Tallied([attempts[a] EXCEPT !.pc = "record", !.chunk = ok, !.unregistered = unregistered],
                                   refused, isRetryable))
  /\ Stays
  /\ UNCHANGED <<rows, receipts, unsure>>

\* The answer is lost after the service accepted: no status, which is retryable.
AnswerLost(a) ==
  /\ At(a, "request")
  /\ Fault
  /\ Accepts(attempts[a].chunk)
  /\ Loses(attempts[a].chunk)
  /\ Ends(a, "retryable")
  /\ Stays
  /\ UNCHANGED <<rows, receipts>>

\* A rate limit or a server error ends the attempt; any other refusal is kept, and
\* the next chunks still go.
RequestRefused(a) ==
  /\ At(a, "request")
  /\ Fault
  /\ \/ Ends(a, "retryable")
     \/ Goes(a, [attempts[a] EXCEPT !.pc = "chunk", !.chunk = {}, !.isRejected = TRUE])
  /\ UNCHANGED <<rows, receipts, history>>

\* The service refuses tokens of several projects: the foreign ones are retired, and
\* the rest goes again.
RetireForeign(a) ==
  /\ At(a, "request")
  /\ LET chunk == attempts[a].chunk
         own == {x \in chunk : x[2] \notin foreign}
     IN /\ own # {} /\ own # chunk
        /\ rows' = [p \in Phone |-> IF p \in Phones(chunk \ own)
                                    THEN [user |-> NoUser, id |-> rows[p].id, isLive |-> FALSE] ELSE rows[p]]
        /\ Goes(a, [attempts[a] EXCEPT !.chunk = own])
  /\ Watch
  /\ UNCHANGED <<faults, receipts, delivered, repeated, unsure, misdirected>>

\* The sends of one chunk are inserted together; a row that is gone fails them all.
CanRecord(accepted) == event # "deleted" /\ \A x \in accepted : HasRow(x)

\* onConflictDoNothing: a send that is there stays as it is.
RecordSends(accepted) ==
  receipts' = [x \in Pair |-> IF x \in accepted /\ receipts[x] = "none" THEN "pending" ELSE receipts[x]]

Record(a) ==
  /\ At(a, "record")
  /\ attempts[a].chunk # {} => CanRecord(attempts[a].chunk)
  /\ RecordSends(attempts[a].chunk)
  /\ Goes(a, [attempts[a] EXCEPT !.pc = "retire", !.chunk = {}])
  /\ UNCHANGED <<faults, rows, history>>

\* The statement throws, executed or not, and the whole chunk counts as refused.
RecordThrows(a) ==
  /\ At(a, "record") /\ attempts[a].chunk # {}
  /\ \/ ~CanRecord(attempts[a].chunk) /\ UNCHANGED <<faults, receipts>>
     \/ Fault /\ UNCHANGED receipts
     \/ Fault /\ CanRecord(attempts[a].chunk) /\ RecordSends(attempts[a].chunk)
  /\ Loses(attempts[a].chunk)
  /\ Ends(a, "retryable")
  /\ Stays
  /\ UNCHANGED <<rows, delivered, repeated, misdirected>>

\* Delete the phones that the service no longer knows.
RetireUnregistered(a) ==
  /\ At(a, "retire")
  /\ Retire(attempts[a].unregistered)
  /\ Goes(a, [attempts[a] EXCEPT !.pc = "chunk", !.unregistered = {}])
  /\ Watch
  /\ UNCHANGED <<faults, receipts, delivered, repeated, unsure, misdirected>>

\* Mutant: a final error of one chunk is forgotten for the chunks that went.
RetryableOrSent(a) == IF attempts[a].isRetryable THEN "retryable" ELSE "sent"

\* A retryable error comes first, then a final one.
Outcome(a) ==
  CASE attempts[a].isRetryable -> "retryable"
    [] attempts[a].isRejected /\ ~attempts[a].isRetryable -> "rejected"
    [] OTHER -> "sent"

FinishSend(a) ==
  /\ At(a, "chunk") /\ attempts[a].unsent = {}
  /\ Ends(a, Outcome(a))
  /\ UNCHANGED <<faults, rows, receipts, history>>

IsUnderWay(a) == attempts[a].pc \in {"recorded", "chunk", "request", "record", "retire"}

\* Another statement throws, or the worker exits.
AttemptThrows(a) ==
  /\ IsUnderWay(a)
  /\ Fault
  /\ IF At(a, "record") THEN Loses(attempts[a].chunk) ELSE UNCHANGED unsure
  /\ Ends(a, "retryable")
  /\ Stays
  /\ UNCHANGED <<rows, receipts, delivered, repeated, misdirected>>

AttemptStep(a) ==
  /\ UNCHANGED <<wanted, event, foreign, gone, moves, flow, check>>
  /\ \/ Plan(a) \/ PlanFails(a) \/ LoadRecorded(a) \/ NextChunk(a) \/ StopCancelled(a)
     \/ RequestAnswered(a) \/ AnswerLost(a) \/ RequestRefused(a) \/ RetireForeign(a)
     \/ Record(a) \/ RecordThrows(a) \/ RetireUnregistered(a) \/ FinishSend(a) \/ AttemptThrows(a)

-----------------------------------------------------------------------------
(* The workflow *)

HasAttemptLeft == flow.attempt < MaxAttempts

\* The next attempt, or none is left.
TriesAgain == flow' = IF HasAttemptLeft THEN [flow EXCEPT !.attempt = @ + 1] ELSE [flow EXCEPT !.pc = "reporting"]

\* Temporal hears the outcome of an attempt.
SendReturns ==
  /\ flow.pc = "sending"
  /\ \/ At(flow.attempt, "sent") /\ flow' = [flow EXCEPT !.pc = "waiting"]
     \/ At(flow.attempt, "rejected") /\ flow' = [flow EXCEPT !.pc = "reporting"]
     \/ At(flow.attempt, "retryable") /\ TriesAgain
  /\ UNCHANGED <<world, attempts, check, receipts, faults, history>>

\* No heartbeat came, or the time is up: the attempt goes on beside the next, in its plan
\* too, or its outcome is lost.
SendTimesOut ==
  LET a == flow.attempt
  IN /\ flow.pc = "sending"
     /\ Fault
     /\ TriesAgain
     /\ Goes(a, [attempts[a] EXCEPT !.isGivenUp = TRUE])
     /\ Loses(attempts[a].unsent \cup attempts[a].chunk)
     /\ Stays
     /\ UNCHANGED <<world, check, receipts, delivered, repeated, misdirected>>

\* A send that failed is reported.  A report that fails too ends the workflow.
ReportSend ==
  /\ flow.pc = "reporting"
  /\ flow' \in {[flow EXCEPT !.pc = "waiting", !.isReported = TRUE], [flow EXCEPT !.pc = "failed"]}
  /\ UNCHANGED <<world, attempts, check, receipts, faults, history>>

\* Fifteen minutes outlast what was under way when its attempt was given up.
WaitEnds ==
  /\ flow.pc = "waiting"
  /\ \A a \in 1..MaxAttempts : ~IsUnderWay(a) /\ ~IsPlanning(a)
  /\ flow' = [flow EXCEPT !.pc = "checking"]
  /\ UNCHANGED <<world, attempts, check, receipts, faults, history>>

-----------------------------------------------------------------------------
(* checkPushReceipts *)

Checks(pc) == flow.pc = "checking" /\ check.pc = pc

Pending == {x \in Pair : receipts[x] = "pending"}

\* The sends without a receipt, each with its phone unless that was retired.
LoadPending ==
  /\ Checks("load")
  /\ IF Pending = {} THEN flow' = [flow EXCEPT !.pc = "done"] /\ UNCHANGED check
     ELSE /\ check' = [check EXCEPT !.pc = "read", !.pending = Pending, !.retiring = {x \in Pending : HasRow(x)}]
          /\ UNCHANGED flow
  /\ UNCHANGED <<rows, receipts, faults, history>>

\* The service may find only now that a phone is gone.  A missing receipt is an error.
ReadReceipts ==
  /\ Checks("read")
  /\ \E ok \in SUBSET check.pending, unregistered \in SUBSET {x \in check.pending : x[2] \in gone} :
       /\ ok \cap unregistered = {}
       /\ check' = [check EXCEPT !.pc = "write", !.pending = {}, !.retiring = @ \cap unregistered,
                                 !.found = [ok |-> ok, unregistered |-> unregistered,
                                            error |-> check.pending \ (ok \cup unregistered)]]
  /\ UNCHANGED <<flow, rows, receipts, faults, history>>

\* One write per outcome.
WriteReceipts(outcome) ==
  /\ Checks("write") /\ check.found[outcome] # {}
  /\ receipts' = [x \in Pair |-> IF x \in check.found[outcome] /\ receipts[x] # "none" THEN outcome ELSE receipts[x]]
  /\ check' = [check EXCEPT !.found[outcome] = {}]
  /\ UNCHANGED <<flow, rows, faults, history>>

\* Mutant: a phone is left registered if its receipt came late.
NothingRetired == {}

Retiring == check.retiring

\* Retire every phone that the service no longer knows.
RetireReceived ==
  /\ Checks("write") /\ \A outcome \in {"ok", "error", "unregistered"} : check.found[outcome] = {}
  /\ Retire(Retiring)
  /\ check' = NoCheck
  /\ flow' = [flow EXCEPT !.pc = "done"]
  /\ Watch
  /\ UNCHANGED <<receipts, faults, delivered, repeated, unsure, misdirected>>

\* A call throws, and the check starts again or is reported.  A report that fails too ends
\* the workflow.
CheckThrows ==
  /\ flow.pc = "checking"
  /\ check' = NoCheck
  /\ \/ flow.check < MaxChecks /\ flow' = [flow EXCEPT !.check = @ + 1]
     \/ flow.check = MaxChecks /\ flow' \in {[flow EXCEPT !.pc = "done", !.isReported = TRUE], [flow EXCEPT !.pc = "failed"]}
  /\ UNCHANGED <<rows, receipts, faults, history>>

CheckStep ==
  /\ UNCHANGED <<wanted, event, foreign, gone, moves, attempts>>
  /\ \/ LoadPending \/ ReadReceipts \/ RetireReceived \/ CheckThrows
     \/ \E outcome \in {"ok", "error", "unregistered"} : WriteReceipts(outcome)

Next ==
  \/ WorldStep
  \/ \E a \in 1..MaxAttempts : AttemptStep(a)
  \/ SendReturns \/ SendTimesOut \/ ReportSend \/ WaitEnds
  \/ CheckStep

Spec == Init /\ [][Next]_vars

-----------------------------------------------------------------------------
(* Properties *)

\* A phone that moved to another account, or whose session ended, gets nothing of the
\* earlier account's, except in the instant between the check of its chunk and the
\* request.
MovedPhoneGetsNothing == misdirected \subseteq slipped

\* However an attempt ends, a phone is pushed to twice for an account only if the
\* answer or the record of a push was lost while it was in play, its message deleted, or
\* an attempt that was given up had planned it and not come to it, or planned it after that.
RepeatsOnlyIfUnsure == repeated \subseteq unsure

\* A send that was not reported left nobody out: whoever could be reached from the
\* start to the end of it was sent the push.
NobodyIsSkipped ==
  flow.pc \in {"waiting", "checking", "done"} /\ ~flow.isReported => steady \subseteq delivered

\* A finished check has given every send its receipt, and retired the phones that the
\* service no longer knows, unless it was cut off before it came to that.
ReceiptsAreActedOn ==
  flow.pc = "done" /\ ~flow.isReported =>
    /\ \A x \in Pair : receipts[x] # "pending"
    /\ flow.check = 1 => \A x \in Pair : receipts[x] = "unregistered" => ~HasRow(x)

\* Who is to be sent the push: a reported failure lets everybody off.
Due == IF flow.isReported THEN {} ELSE steady
Noted == {x \in Pair : receipts[x] # "none"}

Phase ==
  CASE flow.pc \in {"waiting", "checking", "done"} -> "sent"
    [] flow.pc = "failed" -> "failed"
    [] OTHER -> "sending"

Delivery == INSTANCE DeliveryPromise WITH
  Recipient <- Pair,
  due <- Due,
  told <- delivered,
  noted <- Noted,
  phase <- Phase

\* The pushes keep the promise of DeliveryPromise: whoever stays reachable until the
\* send ends was sent the push unless the loss was reported, and only whom the service
\* accepted a push for is ever recorded.
KeepsDelivery == Delivery!Spec

=============================================================================
