# Carlnotes in TLA+

Carlnotes watches the web for a user's Topics: a Scan of a Topic fetches its Sources,
pays models to score what it finds, keeps the best as Findings, and announces them by
email, push and podcast. The program is an api, a worker that runs Temporal workflows
and periodic jobs, Postgres, Redis, an object store, a LiteLLM proxy that meters every
model call, and web and mobile clients. All paths below are under `src/`.

This directory holds TLA+ modules of its core logic, the TLC runs that check small
instances of them, and TLAPS proofs for every value of the constants. `PROJECT.json`
maps each definition to the lines it models, and lists the hazards of the code with the
properties that cover them.

| module | models | checked by | proved in |
|---|---|---|---|
| `ScanLifecycle` | the Scans of one Topic: who opens, starts, runs, stops and closes them | `MCScanLifecycle`, `Scan{Races,Faults,Live}.cfg` | `ScanLifecycleProofs` |
| `ScanPromise` | what a Topic promises about its Scans; `ScanLifecycle` implements it | `ScanFaults.cfg` | `ScanLifecycleProofs` |
| `JobLease` | the database lease that keeps a periodic job to one run | `MCJobLease`, `Lease*.cfg` | `JobLeaseProofs` |
| `ScanBudget` | what one Scan's review spends, over parallel tasks and retried attempts | `MCScanBudget`, `Budget*.cfg` | `ScanBudgetProofs` |
| `LiteLLMKey` | the LiteLLM key of one user: created, replaced, reset, deleted | `MCLiteLLMKey`, `ModelKeys.cfg` | `LiteLLMKeyProofs` |
| `ScanEmail` | the email of a finished Scan: the wait for the podcast's title, batches, attempts, idempotency | `MCScanEmail`, `ScanEmails.cfg` | `ScanEmailProofs` |
| `ObjectStore` | stored objects and their pending deletions | through `PodcastEpisode` | `PodcastEpisodeProofs` |
| `PodcastEpisode` | the recordings of one Topic, composed with `ObjectStore` | `MCPodcastEpisode`, `Podcasts.cfg`, `PodcastEnds.cfg` | `PodcastEpisodeProofs` |
| `PersonalContext` | the private context that a Topic has of each sender's Personal sources | `MCPersonalContext`, `PersonalContexts.cfg` | `PersonalContextProofs` |
| `PushDelivery` | the pushes of one event: phones, chunks, attempts, tickets, receipts | `MCPushDelivery`, `Pushes.cfg` | `PushDeliveryProofs` |
| `PodcastCatalogue` | what listeners find of a Topic's podcast; `PodcastEpisode` implements it | `Podcasts.cfg` | `PodcastEpisodeProofs` |
| `DeliveryPromise` | what a delivery to several recipients promises; `ScanEmail` and `PushDelivery` implement it | `ScanEmails.cfg`, `Pushes.cfg` | `ScanEmailProofs`, `PushDeliveryProofs` |

## Inventory

Each component with its state, its operations, what is hard about it and what makes it
correct. `PROJECT.json` lists the same components with their files and status.

**Scan lifecycle** (`packages/pipeline/scan.ts`, `temporalClient.ts`, `staleScans.ts`,
`apps/worker/schedule.ts`, `scanQueue.ts`, `workflows/runTopicScan*.ts`,
`apps/api/topic`). State: a row of `scans` (status, isManual, dispatchedAt, startedAt,
stoppedAt), the workflow id `scan-<topicId>` that Temporal keeps to one running workflow,
and what each caller has read. Operations: open a row, start its workflow, retry it from
the sweep, close stale rows, run the stages, finish, fail, stop, announce. Three callers
hold no lock in common, a call to Temporal may be lost or answered late, activities are
retried while an abandoned attempt may still write. Correct if every open row closes, no
refused Scan runs, a running workflow keeps its row, and what is announced is closed.

**Scan budget, review and scoring** (`packages/models/budget.ts`,
`packages/pipeline/review`). State: the Budget of an attempt (spent, reserved, counts), its
heartbeat checkpoint, the Findings. Operations: reserve, charge, release, checkpoint,
resume, record. Tasks share one Budget across awaits, and a retry resumes from an old
checkpoint beside an attempt that may not know it was replaced. Correct if parallel
tasks pass a limit only by the promised margin, no reservation leaks, and the row shows
what was spent.

**Job lease** (`packages/db/jobLease.ts`). State: the row of `job_leases`, and each
run's own idea of when its lease ends. Operations: take, renew, lose, release.
Statements may be late, lost, or executed although the caller saw an error. Correct if
two tasks never run at once.

**LiteLLM keys** (`packages/models/litellm.ts`, `apps/worker/resetMonthlyBudgets.ts`).
State: the key and plan on the user's row, and the keys at the proxy. Operations:
create on first use, replace when the budget changes, replace monthly, delete with the
account. No transaction spans the row and the proxy, and calls of the api and the
worker interleave. Correct if no key that can spend money is forgotten, the stored key works,
and its budget is the user's.

**Scan announcements** (`workflows/sendScanEmail*.ts`, `packages/pipeline/notify.ts`,
`packages/emails/email.ts`). State: the workflow, its attempts, Resend's idempotency keys,
`topic_email_sends`. Operations: wait for the outline with a timeout, plan, send a batch,
record it, retry, report. An answer is lost after the email went out, or an attempt runs on
beside its retry. Correct if a retry repeats nothing and nobody is left out in silence.

**Podcast Episodes** (`packages/pipeline/podcast`, `workflows/recordPodcastEpisode*.ts`,
`apps/api/podcast`). State: the rows, the workflow, the stored audio. Operations: plan,
script, record chapters, encode, publish, fail, remove, delete with the Topic. Two stores
that no transaction spans, and timed-out attempts that take effect later. **Object store
deletions** (`packages/db/store.ts`, `apps/worker/retryPendingObjectDeletions.ts`). State:
`pending_object_deletions`. Operations: record with the transaction, delete after it, sweep.
Correct if what is published can be played, no audio leaks, and what is given up is deleted
in the end.

**Personal Sources** (`packages/db/personalSources*.ts`, `packages/pipeline/personalSources`,
`workflows/*ersonalSources*.ts`). State: entries, `topic_personal_source_contexts` with
revision and processed revision, spends, private annotations. Operations: receive, remove,
notify, sweep, rebuild in parts, commit or fail, and the reviews that read a context and
write annotations. Correct if no stored text or annotation tells of entries that changed
since, every billed call has a spend, and every change is summarized in the end. Also
here: a queue of links that concurrent Scans claim.

**Ingest** (`packages/pipeline/ingest`): fetches the Sources of a Topic and stores
Resources; one stage of the Scan. **Source screening** (`packages/pipeline/screen.ts`,
`workflows/screenSource*.ts`): a workflow that judges a new url Source, awaited before a
first Scan. **Scheduled Topics, limits and quotas**
(`apps/worker/scheduledTopicFilter.ts`, `scheduledTopicLimits.ts`, `packages/db/quotas.ts`):
SQL filters that decide which Topic is due and who may scan.

**Push notifications** (`packages/pipeline/push*.ts`, `workflows/sendPushNotifications*.ts`,
`apps/api/pushDevices.ts`). State: `push_devices`, `push_notification_sends`, the workflow and its
attempts. Operations: register and unregister a phone, plan, send in chunks, record, retire, check receipts.
A phone changes its account while it is sent to, an answer is lost after the push went out,
and one chunk's insert fails for all its phones. Correct if a phone gets nothing of an account it left,
a retry repeats nothing it can know of, nobody is left out in silence, and dead phones are retired.

**Spend reservations** (`packages/models/spendReservations.ts`): Redis reservations of
concurrent calls under an owner's cap, with expiry. **Rate limits** (`apps/api/rateLimit.ts`,
`packages/db/redisRateLimits.ts`): a window counter and its in-memory fallback.
**Chat** (`apps/api/chat`): a streamed turn with a Redis buffer, resume and stop.
**Notes** (`apps/api/note`): a version check between two editors. **Viewer counts**
(`packages/db/viewerCounts.ts`, `apps/worker/syncViewerCounts.ts`): counts in Redis synced
to the database. **Billing** (`apps/api/billing*.ts`, `storeBilling.ts`): two billing systems
on one user, and overage reports. **Invites and teams**, **API caches** (a shared load
and its invalidation).

Not worth a model: users and sessions (an external library), Topic and Finding queries,
social and moderation writes of a single transaction, search, MCP adapters, the schema,
contracts, clients, web and mobile apps, tooling.

Interactions: the api and the sweep write `scans` and start workflows; workflows run
activities that write `scans`, `findings` and `resources`; a review spends from the Budget
that ingest returned, on the owner's LiteLLM key, and reads the private contexts; the sweep
runs under a job lease, and so does a rebuild of a context; a closed Scan starts the email,
push and podcast workflows, which signal one another; a removed Episode hands its audio to
the deletions.

## ScanLifecycle

`rows` is the `scans` table. A row keeps what the queries of this code filter by; the
time columns are the Booleans isDispatched, isPickedUp, isStopped and isOverdue (its
stale window has run out). `starters` holds what each caller of `startTopicScan` and
`scanTopic` has read and has still to do: the sweep, `createTopic`'s detached
`startFirstScan`, and manual requests. `undispatched` is the list the sweep has read and
walks. `run` is the workflow that holds `scan-<topicId>`: its phase is the activity it
waits for, split where another writer can come between two statements. `strays` are
activity attempts nobody waits for whose statement may still execute. `past` is history:
what has ever happened to a row; no action reads it.

One step is one database statement or one call to Temporal, with the code around it.
`startTopicScan` is SelectOpenScan, then TakeOpenScan or InsertScan; `scanTopic` is
StartAccepted, StartRejected or StartLost, then DropRow, KeepRow or MarkRow. The sweep is
BeginSweep .. SaveFailedScan, one at a time. The workflow is IngestPicksUp .. Announce;
a cancel rejects what it waits for (CancelLands) without waiting for the activity. Every
caller may crash at any point.

Fidelity notes. One Topic stands for all, as every query is by Topic or by row id. The
newest of several open rows may be any of them. Whether a Topic is due, an owner may
scan or a key has money is a free choice. Retries of an activity share one count per
stage; the code gives 3, 2 and 3. WindowPasses relies on the stale window being longer
than the bounds of the stages (`stageTimeouts.ts` derives one from the other).

`ScanPromise` is the abstract specification: a Scan is opened once, ends, never opens
again, its outcome may be corrected, and it is told about only once it ended. `ScanLifecycle`
instantiates it with `scans` as the rows' statuses and `told` as what `past` says was
announced, and KeepsPromise is its Spec.

| run | instance | shows |
|---|---|---|
| `scan_races` | 2 rows, all three callers, no faults | a running workflow keeps its row, unless a second caller took the row up in time |
| `scan_faults` | 2 rows, sweep and creator, 2 attempts, one fault, stop, stray and deleted Topic | the Topic keeps its promise; a refused Scan runs no Source; no late stop revives a failed Scan; a lost answer to a start costs no running workflow its row, unless the connection broke |
| `scan_live` | 2 rows, a fault, 2 attempts, a stray, fair | every open Scan closes |

`scan_races` sets a VIEW: no action reads `past`, and RunningScanKeepsItsRow reads only two of its marks, so states that
differ in the others count as one.

Two rows are
enough for what these properties need: a row and one opened beside it. A third row adds
another of the same kind. One fault, stop and stray at a time give every pair of them
with each race.

Fairness of `scan_live`: the scheduler runs the sweep again and again
(WF of the sweep's steps and of the starter it runs), workers poll (WF of WorkerStep),
time passes (WF of WindowPasses). DispatchUndispatched is strongly fair: a sweep may
find the key budget spent for a while, but the budget resets monthly, so it is not always
refused. Nothing is assumed of requests, of the creator (its process may have
exited) or of the user. Faults are finite.

Proved (`ScanLifecycleProofs`), for any number of rows, requests, attempts, faults, stops
and strays: TypeOK, RefusedScanRunsNoSource, AnnouncedScanIsClosed,
FailedScanSucceedsOnlyIfReviewed. None is inductive alone: that a refused Scan never
runs needs that the pickup is recorded before the row is read again, in the workflow and
in any abandoned attempt. `IInv` adds that held ids are of inserted rows
(HeldRowsAreKnown), that the workflow is only as far as its row's history shows
(StagesInOrder), and that history fits the row (PastFitsRow). The proof first shows that
every step moves rows and history forward (NextMoves) and then that, given this, control
stays in order. The last part of the module shows the refinement of `ScanPromise` from the same invariant: the
initial state maps to one of `ScanPromise`, and each step to one of its steps or a
stutter, manual requests included. AnnouncedScanIsClosed has no run of its own: KeepsPromise says it too.
RunningScanKeepsItsRow is proved with requests too.
A row is contested ("shared" or "cut" in `past`) when a second caller read it, or the sweep started it, before the call that inserted it had
its answer, or when the connection broke after the start. `KeepInv` adds to IInv what makes every other row safe: a starter that may still
drop its row (MayDrop) inserted it itself, so it is not the Topic's first row; nobody else is about to start that row (PairFits) and no
workflow runs for it (StarterFits), unless it is contested.

Only model-checked: EveryOpenScanCloses (liveness is out of the prover's
reach).

Not modelled: what a stage fetches and stores, and the counts and costs it saves (see
ScanBudget); the overage report of a manual Scan; a stop whose cancel reaches the Topic's next Scan, because it
describes the workflow and cancels in two calls (`temporalClient.ts:190`); a sweep
that lost its lease and overlaps the next; two manual requests of one Topic at once in a
run (any number is allowed in the module and in the proofs).

## JobLease

`lease` is the job's row. `runs` holds each run of `runWithJobLease`: where it is, the
statement it waits for and when it was sent, its own `leaseEndsAt`, its next tick and
whether its signal aborted. A statement is sent, executed and answered in three steps.
`leftBehind` are statements whose caller went on without the answer; the database may
execute them late or never. `now` is one clock: the code compares database times only
with each other, and process times likewise. Timers fire on time; `MaxDelay` bounds a
statement, and is a parameter because nothing in the code bounds it.

| run | instance | shows |
|---|---|---|
| `job_leases` | 2 runs, interval 3, delays up to 10, 2 faults, 17 ticks | a task runs without its live lease, or beside another, only while an answer is late; a live lease leaves its holder only by its own release |

A lease is 12 ticks, so 17 are a lease, its takeover, and a renewal of the second run. With an interval of 3 an answer is
in time at once or one tick later, and late up to ten ticks, when the lease has run out under its task. Two faults
let a renewal fail twice. CHECK_DEADLOCK is off because the clock is bounded and the runs end.

The code promises one run at a time, and it does not keep that promise if a statement is answered late, see Divergences.
The properties say how far it goes: OneRunAtATime and RunningTaskHoldsLiveLease excuse a run (IsExcused) only while it waits half a renewal interval
or longer for an answer, or if the answer that last extended its lease took as long (`wasLate`, which is history). One answer in time ends the excuse,
whatever failed, was skipped or executed late before it. Half an interval because the take and the last renewal may each be
delayed, and between them lies a whole interval.

Proved (`JobLeaseProofs`), for any number of runs, any times and any delays: TypeOK, LiveLeaseIsUndisturbed,
RunningTaskHoldsLiveLease and OneRunAtATime. LeaseIsOrderly says which statements a run in each state can have
under way. HeldUntil says that the row is the run's until the time the run reckons with, which counts from before the statement was sent.
RunsFit relates that time to the run's timer: the lease ends a whole number of intervals after a tick less the delay of the take
(TickBeforeEnd), so the comparison at a failed renewal stops the task in time if the answer came in time.

Not modelled: what the job does; a task that ignores its abort signal (OneRunAtATime
ends at the abort, and `schedule.ts` looks at the signal only between its stages); clocks
that drift; late timers.

## ScanBudget

`attempts` are the attempts of `reviewForScan`, each with the Budget it resumed
(`toResumedBudget`) and the part of `reviewScan` it has reached. `tasks` are the paid tasks of
`fetchAndScoreResources`, split at every await: the reservation, the fetch, its
storage, the cheap and the premium score, the save. `held` is the attempt the workflow waits
for; one it gave up may run on and learns of it with its next heartbeat. When a task meets
a spent key, `Promise.all` rejects and the attempt fails while the other workers go on
(`packages/server/concurrency.ts`). `billed` is history: all money spent. Costs are small numbers, and
a call costs nothing or its largest cost; the code's rates are constants of
the module. A task never costs more than it reserved, as the code bounds prompts and
outputs (`score.ts:59`).

| run | instance | shows |
|---|---|---|
| `budget_scoring` | 3 Resources, 2 workers, 1 attempt | scoring passes the dollar limit by less than one task's largest cost and the scored limit by less than the workers; a Resource is put off only near a limit |
| `budget_retries` | 1 Resource, 2 attempts | the row's cost was spent |

Two workers and three Resources make one Resource wait for two running ones, where
a limit is passed. The largest cost (4) is below the limit (6), so the second worker can start and
the third can be turned away by reservations or by spending. `budget_retries` lets attempts
overlap with a checkpoint at any moment; one Resource keeps it small, since the attempts,
not their tasks, are what interacts there. CHECK_DEADLOCK is off because a Scan ends.

Proved (`ScanBudgetProofs`), for any number of Resources, workers and attempts and any costs and limits: TypeOK,
ScoringStaysNearLimit, ScoredStaysNearMax, DeferredOnlyNearLimit, RowCostWasBilled. No limit is inductive alone, since it is
shared by tasks at different places. `IInv` therefore counts them by place: an attempt's reservation is exactly that
of its active tasks, and what has been charged together with what these tasks may still charge (Owed) stays below the limit and
one task's largest cost (IsSound). Most lemmas say how such a count changes when one task moves.
What a retry resumes and what the row shows is never more than was billed (MoneyFits), which is what RowCostWasBilled rests on.
All five are proved from `BudgetAssumption` alone.

Not modelled: a Topic with personal Sources (its tasks reserve
by the number of senders, and settle their link after the task), the split of
spending by stage, what gate and dedupe drop, and the loss of a whole worker's Findings.

## LiteLLMKey

`row` is the user's row: whether it is there, its key, plan, override, and the month the key
was created in (`litellmKeyCreatedAt`). `keys` are the proxy's keys with their budgets.
`calls` are the callers, each between two awaits: a use of the key
(`loadOrProvisionUserLiteLLMKey`), an override (`setUserBudgetOverride`, which a change of role,
`setUserRole`, resembles: it too writes the row and then replaces the key), a billing
projection (`syncUserLiteLLMKey`, up to MaxReplaceAttempts tries), the monthly reset under its
lease, and closing the account. A replacement is OwnerNeedsKey, ProvisionKey, StoreKey, RetireKey; a store matches
only the row that was seen. A store that threw is checked (CheckStore) and its key deleted if it
was not stored; `late` holds such stores, which may execute after all. `lost` is history: the
keys that a fault left to nobody.

| run | instance | shows |
|---|---|---|
| `model_keys` | 3 calls of any kind, 3 keys, 1 override, 2 tries, 1 month, 1 fault, symmetric calls | no key leaks but by a fault, the stored key is live and has the user's budget, the monthly reset replaces old keys |

Three calls give each pair of them a third that comes in between; one fault combines with each
race. Three keys let every call create one.

Proved (`LiteLLMKeyProofs`), for any calls, keys, months and faults: TypeOK, NoKeyLeaks,
StoredKeyIsLive, KeyIsSized and ResetReplacesOldKeys. `IInv` adds that a call holds the keys its place says
(HandsHoldKeys), a named key was created (NamedKeysAreUsed), a new key is known to one call
only until stored (NewKeysAreSecret), a key about to be deleted is not in the row
(DeletesMissTheRow), a close has passed its checks (ClosesInOrder), a new key has the budget of the row that was
seen (NewKeysAreSized), and a row whose key has another budget owes a replacement
(RowKeyIsSizedOrOwed). StoredKeyIsLive exempts two cases the code allows: an account that is being
closed, and a late store, which leaves a deleted key in the row.

ResetReplacesOldKeys is about steps, and rests on a second inductive invariant, `ResetInv`. An UPDATE carries the
date of the moment it was built (`new Date()`, `litellm.ts:195`), so a key stored in this month may be dated in the last; the
property therefore says that the key which the reset read is gone, not that what took its place is of this month (see
Divergences). While that key is still in the row and overdue (IsOverdue), the reset can only miss its own store because a
change of the budget wrote the row after it was read; the change that wrote it last has read the row as it still is, and so has
not reported success, or will store its key (WillReplace). That no store brings a key back is KeysInOrder: keys are created
in order, a call's new key is newer than the one it replaces, and nobody has seen a key newer than the row's.

Not modelled: the sign-up that creates a key
before the row exists (a failed sign-up leaves the key), Team keys.

## ScanEmail

`workflow` is `sendScanEmailWorkflow` (wait, plan, batch by batch, report); `attempts` the attempts
of `sendTopicScanEmailBatch` or `sendScanReport`, each between two awaits (render, post,
record). `accepted` are the bodies Resend has accepted: the code derives the idempotency key
from the exact body, so a body stands for its key. `emailed` counts the emails of each user,
`sent` is `topic_email_sends`. `subscribers`, `heading`, `findings`, `episode` and `hasTopic` are what changes
under the email. A body is told apart by whom it goes to, by its heading (the Topic's name, the recipients' addresses
and their order, all read as the attempt starts; the recipients are read without an order), and by what is read as it is
rendered: the Findings shown and their order (by a relevance that may tie), and whether the Podcast Episode is shown.
What the code renders besides does not change after the Scan: the summary of a finished Scan, links made from ids and the names above,
and an unsubscribe token that carries no time.

`DeliveryPromise` is the abstract specification that the email and the pushes share: who is `due` to be told only becomes
fewer, whoever is `noted` as told was told, and a delivery that ends well has told everybody who was still due. The email instantiates
it with the subscribers outside the reported batches, the users who were emailed, and the rows of `topic_email_sends`; KeepsDelivery
is its Spec. It says more than NobodyIsLeftOut, which is about who was planned for: a plan that dropped a subscriber breaks KeepsDelivery alone.

| run | instance | shows |
|---|---|---|
| `scan_emails` | 3 users, batches of 2, 2 attempts, 1 change, fair | no retry repeats an email, nobody is left out in silence, who is recorded was emailed, a signalled title is shown, the workflow ends, the email keeps the promise of a delivery |

Three users in batches of two make a full batch and a rest. The code has 10 attempts; TLC checks two, a
first one and a retry beside it, and the proof any number. One change separates the
cases with and without it. Fairness: WF of the workflow's steps, since Temporal fires its
timers and times out its attempts. Not assumed: that an attempt ends, or Resend accepts.

An answer that is lost and a body that changed before the retry do send a second email, also if nothing changed
but the order of two Findings of one relevance:
RetryRepeatsNothing allows one for each state of the recipients and the heading with each state of the Findings, and as many again once the
title of the Podcast Episode can be shown. A report that fails on all its attempts ends
the workflow, so the batches after it are never sent (NobodyIsLeftOut is about workflows
that are done).

Proved (`ScanEmailProofs`), for any number of users, attempts and changes and any size of a batch, from `EmailAssumption`:
TypeOK, RetryRepeatsNothing, NobodyIsLeftOut, SettledTitleIsShown, RecordedWasEmailed, KeepsDelivery. Only the types are inductive.
What a user gets twice are two bodies, so `IInv` counts for each user the calls that were accepted or are under way together with the
one the next attempt would make (CallsAreFew): there are at most as many as states of the recipients and the heading, and each was rendered with one of the Contents so far. A step that changes
nothing adds no call, because an attempt sends to all of its batch that are left, and what it records is recorded for all of
them (AttemptFits); a change adds at most the new next call, because a user is in one batch. WorkflowFits says that the batches behind the workflow are covered or
reported. That the slices of a plan have no gaps, so that an empty batch ends the plan, is proved from ranks (BatchesHaveNoGap).
The refinement of `DeliveryPromise` needs that every subscriber has a place in the plan: PlanFits, inductive beside `IInv`, says that the plan
took in all of them or its failure was reported, and DoneIsDelivered finds the covered batch of each.

The theorem WorkIsBounded is what the prover can say of WorkflowEnds: StepsLeft, at most 2 * Users * MaxAttempts + 2, goes down with every
step of the workflow (AttemptsCountDown: another attempt or another batch is one attempt fewer), and no attempt, change or
late answer takes it up. That one of these steps is taken is fairness.

Only model-checked: WorkflowEnds (liveness).

Not modelled: addresses that Resend rejects, the slot of the rate limit (it delays a post), what an
email says, the emails of other components.

## ObjectStore and PodcastEpisode

`ObjectStore` has the bucket (`objects`), `pending_object_deletions` (`pending`: waiting for its
next try, or due) and the keys a process or the sweep has read and is about to delete
(`deleting`). Deleting an object and its row, a refusal, and a process that exits before it comes to the key are steps of their own.

`PodcastEpisode` composes it with the rows and the workflows of one Topic's Episodes. `flows` is
`recordPodcastEpisodeWorkflow`: PlanReads, PlanInserts, WriteScript, the chapters in any order,
Encode, PublishReads, SavePublished, or FailEpisode. Any activity may fail or lose its result.
`late` are attempts that Temporal timed out and that take effect later. `orphans` (audio such an attempt
or a lost result stored behind the workflow's back) and `revived` (Episodes one of two attempts published
when they were no longer recording) are history: they name the cases the properties leave out.

| run | instance | shows |
|---|---|---|
| `podcasts` | 2 Episodes, 1 chapter, 2 years, 1 fault | what is published has its audio, no audio leaks, the numbers of a season only grow, listeners see the abstract catalogue |
| `podcast_ends` | the same in 1 year, fair | pending deletions are deleted, recordings end |

`PodcastCatalogue` is the abstract specification of what listeners find: an entry (chapters, short or not) for each listed Episode, the
place of each Episode (its season and its number in it), which it keeps when it is withdrawn, and whether the Topic exists. An Episode that is not
listed is listed in the next place of a season with at least one chapter, and a short one takes the place of the other short ones; an entry is withdrawn, or the Topic ends with all of them; nothing else changes.
KeepsCatalogue is its Spec, with the published rows of an existing Topic as the entries. It catches what no other property
does: without the chapters' primary key a late publish would give a listed Episode a second number.

A season is the UTC year of a publication, and numbers start from 1 in each. The code reads the clock before its transaction, so an attempt
may commit in a year that is over while others publish in the next: SavesPublished takes any season, in any order.

Two Episodes are what a short one needs to replace another, and two transactions need to race for
a number; two years are what they need to number in different seasons. The recordings are interchangeable, and `podcasts` uses it
(SYMMETRY); `podcast_ends` does not. One chapter can be recorded, be left out, time out and be stored late; several of them, and several faults, are left to the
proofs. Fairness: WF of the workflows together and of the store together (the sweep, the deletes, the passing of a key's try time):
Temporal runs some workflow on while one can go on, and as every workflow and every key is done after finitely many steps, that is
enough. Faults are finite.

Proved (`PodcastEpisodeProofs`), for any number of Episodes, chapters, years, faults and late attempts, from
`EpisodeAssumption`: TypeOK, PublishedHasAudio, NoAudioLeaks, NumbersOnlyGrow, KeepsCatalogue. A transaction sees rows and not the bucket, so what it
gives up is right only if the rows say what was stored. `IInv` adds how far a workflow is by the status of its row, and that only what was published has a season (FlowFits),
that nobody is about to delete the audio of an Episode that may still be published (AudioIsKept), that the chapters stored are those the workflow has
recorded (ChaptersAreRecorded), and a bound of the numbers (NumbersAreBounded, so that the largest one of a season exists).

KeepsCatalogue needs two facts more (ListingFits, inductive beside `IInv`): a published row has chapters, which is all that keeps the
publish from running twice since it does not look at the row's status, and whatever encodes or publishes has recorded a chapter.
Each step is then one of the catalogue or unseen (StepsSeen, ChangeIsSeen, PublicationIsSeen), and that the catalogue never
has two short Episodes or one number of a season twice (ListedAreDistinct) follows from the catalogue alone.

Only model-checked: PendingIsDeleted and RecordingEnds (liveness).

Not modelled: what is planned, written and spoken and its cost; covers, transcripts, shares, plays;
the record made before an upload (`recordPendingObjectDeletionBeforeUpload`, which Episodes do not
use) and its grace time. Abstracted: `removePodcastEpisode` reads the status and the script in a statement before its transaction, which the
model does in one step; the insert of the chapters is skipped if there are none (`publishPodcastEpisode.ts:276`), which takes a script whose chapters name
no planned Finding. A row stays recording for good if the result of its plan is lost on every attempt, or its failure
cannot be saved; RecordingEnds leaves these out.

## PersonalContext

`contexts` is `topic_personal_source_contexts`; a stored text is the set of entries it was
written from. `kept` are the stored entries, `annotations` the revision each private annotation was
scored at. A change of the entries (Receive, Remove) invalidates in its transaction, and is told to the
workflow by Notify, which may be lost; Recover is the sweep. `workflow` is the loop of
`summarizePersonalSourcesContext`: read, decide, wait, rebuild. `attempts` are attempts of
`rebuildPersonalSourcesContext`, split at each statement and call: revision, entries, reserve, start
of the spend, model, commit, or record and fail. `lease` is the Topic's job lease; it may end beside its holder. `reviews`
load contexts, score between two checks, and save a Finding with its annotations.

| run | instance | shows |
|---|---|---|
| `personal_context` | 1 sender, 1 entry, 2 attempts, 1 review, 2 retries, 2 revisions, 1 turn, 2 faults, fair | stored text is whole, the sweep sees what is unprocessed, annotations are current, billed calls are recorded, contexts settle |

Two revisions are one that an attempt read and one that overtook it; two attempts a given-up one
and its retry; the code has 3 attempts. Senders do not share a row: a second one is in the
proofs. Fairness: the sweep, each step of the workflow, an attempt's steps, the end of a lease or a
timeout of a worker that exited, and time. Not assumed: that anybody notifies or the owner gets
a key.

Proved (`PersonalContextProofs`), for any senders, entries, attempts, reviews and bounds: TypeOK, TextIsWhole,
UnprocessedIsDirty, AnnotationIsCurrent, BilledIsRecorded. `IInv` is TypeOK with ContextFits (a row's state,
text, revisions and dirty mark fit each other), AttemptFits (an attempt whose revision is still current has read
exactly the entries that are kept), SpendFits (a spend with a cost stands from the call on) and ReviewFits (a revision a review saw is not in the future).
The entries are read after the revision by a statement of their own: what is read may be newer than the revision, and then
the commit finds the revision changed.

Only model-checked: ContextSettles. Not modelled: the link queue, received email, owner
transfer, unreadable payloads and the window of 1000 entries, quotas, retry identities, continueAsNew,
migrations.

## PushDelivery

The module follows one event, a Scan's new Findings or a chat mention, from `sendThenCheckReceipts` on. `rows` is
`push_devices`, a row for each token with its account, whether its session is live, and a number that a new row of the
token raises (`push_device_id`: a row that is gone never comes back). `receipts` is `push_notification_sends`. `flow` is the workflow,
`attempts` the attempts of the send, each between two awaits: Plan, LoadRecorded, then chunk by chunk NextChunk (the check that
its phones are still bound), the request, Record, RetireUnregistered. The request is answered with a ticket for each
phone, refused, refused for mixing two Expo projects (RetireForeign), or accepted without an answer. An attempt that Temporal gave up, in its plan or later, runs on beside the
next; it learns of it between chunks at the earliest, since a heartbeat is first sent in a chunk (`pushDelivery.ts:126`), and may not learn of it at all. `check` is `checkPushReceipts`: read, one write for each outcome, retire. Phones register,
unregister, are uninstalled, sessions end, preferences change and the event is deleted between any two steps until the workflow has
ended.

History: whom the service accepted a push for (`delivered`), twice (`repeated`), after the phone had left (`misdirected`), and the cases
the properties name: the answer or the record was lost, or an attempt that was given up had the phone in its plan (`unsure`), the phone left between the check and the request (`slipped`),
reachable all along (`steady`).

The pushes instantiate `DeliveryPromise` (see ScanEmail), too: due is who has been reachable all along, unless a failure was reported; told is
`delivered`; noted is who has a row in `push_notification_sends`. The deletion of a message forgets both.

| run | instance | shows |
|---|---|---|
| `pushes` | 2 phones, 2 users, chunks of 2, 2 attempts, 2 checks, 1 move, 1 fault | a phone that moved gets nothing of its earlier account, a retry repeats nothing it knows of, an unreported send left nobody out, receipts retire phones, the pushes keep the promise of a delivery |

Two phones share a chunk or come in two chunks, because a chunk here is any part of the plan up to its size; two
users give a phone somebody to move to. One move and one fault (a timeout of an attempt is one) combine at any point. The code has 10 attempts and 3 checks.
CHECK_DEADLOCK is off because a workflow ends.

WaitEnds assumes that the 15 minutes before the receipts outlast whatever an attempt that was given up still has to do, its plan included:
the model has no send that goes out after the receipts are read. The ticket errors of one chunk are of one kind here, retryable or final; a send with both ends as one with the retryable error alone. One other Expo
project stands for all. A report that fails on all its attempts ends the workflow without a receipt check. ReceiptsAreActedOn is about
the first attempt of the check: one that dies after its writes hides the receipts from the next, which finds none pending and retires no phone.

Proved (`PushDeliveryProofs`), for any phones, users, chunk sizes, attempts, moves and faults: TypeOK, MovedPhoneGetsNothing,
RepeatsOnlyIfUnsure, NobodyIsSkipped, ReceiptsAreActedOn, KeepsDelivery. `IInv` adds, for each attempt: what its place lets it hold (AttemptFits),
that attempts begin in turn and outlast their turn only if they were given up (HasTurn), that a phone it is about to send to has been checked and is bound or in `slipped` (AttemptIsSafe), and that whoever is steady is sent to,
still to be sent to, or the reason for an error it has kept (AttemptCovers). What was delivered is recorded, about to be recorded by one
attempt, or unsure (RecordsFit), which rests on the rows' numbers: a phone that registers again after its row was
deleted counts as another one, in the code too. CheckFits says which receipts the check has in hand. The other half of the proof shows that steps outside an attempt
(the world, the other attempts, the check) keep these. The refinement maps each step by what it does to the reachable phones, the pushes and their rows. `IInv` is
needed where the send ends (it has skipped nobody) and where a row is written (its push was accepted).

Not modelled: what a push says, badges, closing an account, an attempt of the receipt check that times out and runs on,
the SDK's own retries of a rate-limited request.

## Divergences from the comments

Behaviours of the code that a comment in it denies. The modules have them, and the
properties above leave them out; each was found with TLC as a counterexample to the property the
comment states.

- **A rejected start drops a row whose workflow runs.** `scan.ts:77` deletes the row when Temporal rejects
  the start, though a second starter of the same row may have been accepted; `scan.ts:119`: "drop a Scan row whose workflow never started, so it
  never reads as a started Scan". A second starter that reads the row before the first has its answer marks it
  "shared" (the property's name for this race); without that exception RunningScanKeepsItsRow is violated in `scan_races` (insert, read by the sweep, accepted, rejected, dropped).
- **A start whose connection breaks drops a row whose workflow runs.** `scan.ts:68` keeps the row only for a deadline, and any
  other error after Temporal accepted the start drops it; `scan.ts:61`: "a start that throws leaves the row with nothing running".
  The property's name for this is "cut"; without that exception it is violated in `scan_faults`.
- **A row is marked dispatched for another row's workflow.** `scan.ts:80` marks an older row when the id
  is taken; `db/schema/scans.ts:46`: "when the scan's workflow was accepted. null means it was never started".
- **A stopped Scan that is started again is announced.** `runTopicScanActivities.ts:61` refuses only failed rows;
  `runTopicScanActivities.ts:233`: "Nothing is emailed".
- **A waiting renewal lets two runs overlap.** `jobLease.ts:88` waits for the statement without a bound, and the
  signal aborts only after it; `schema/jobLeases.ts:1`: "keeps a job that must not overlap itself to one run at a time". OneRunAtATime
  without its excuse is violated at the constants of `Leases.cfg`.
- **A failed Scan records only what ingest spent.** `runTopicScan.ts:117` passes on the Budget of the last stage
  that returned; `runTopicScan.ts:92` and `runTopicScanActivities.ts:309` say a failed Scan keeps its spend.
- **A reset may count a key of last month as this month's.** `litellm.ts:195` dates a key when its UPDATE is built, and
  `litellm.ts:212` counts a replacement that stored nothing as done if the stored key's budget is right; `litellm.ts:240`: "Replaces every key
  created before the current month began". A key that another call dated before the month began and stored beside the
  reset stays, counted as replaced, until the next reset.
- **A timed-out publish revives an Episode.** `publishPodcastEpisode.ts:291` updates by id alone;
  `publishPodcastEpisode.ts:81`: "publish only a recording Podcast Episode. a retry after a saved publish writes nothing". After a
  failure or a removal the row is published again without audio (`revived`). It gets a new number, in another year of another
  season, so that the number it had is free again, although `publishPodcastEpisode.ts:266` says "a removed Podcast Episode keeps its
  episode number, so none is reused"; KeepsNumber leaves it out.
- **Two short Episodes may record at once.** `planPodcastEpisode.ts:182`: "A Topic records one short Podcast Episode at a time". Two plans
  that both read before either inserts both record; listeners still find one short Episode (ListedAreDistinct).
- **The sweep starts a first Scan as scheduled.** DispatchUndispatched starts every row that is not manual so, although
  `scanQueue.ts:52` says the sweep starts it the way its original caller would have.
- **An attempt given up in its plan pushes beside the next.** Neither has a record to read, so both push to every phone, although
  `pushDelivery.ts:81` says "one push per phone that the event has not reached yet"; such phones are in `unsure`.
- **A retried receipt check retires nothing.** `checkPushReceipts` reads only the sends without a receipt (`pushReceipts.ts:30`), so a check that
  dies between its writes and `pushReceipts.ts:69` leaves a phone registered, although `pushReceipts.ts:19` says it "retires each phone that the service says is not registered".
- **A late finishScan writes over a stop.** A cancel that lands while finishScan runs lets stopScan save the row, and the
  late finishScan write the failed status of its ingest over it, although `runTopicScanActivities.ts:230` says a stopped Scan saves as succeeded.

Open questions of `ScanBudget`, which no comment decides: an attempt that Temporal replaced may reach
`recordScanProgress` after `finishScan`, which writes by id, so the row's final totals are overwritten;
and a Resource deferred because the running tasks have reserved the rest of the limit is passed over for good, although one of
them may release its reservation unspent.

## Plan

Done: the modules above. Left, most important first:

1. `SpendReservations`: reservations under the owner's cap with expiry; then a composition with
   ScanBudget and LiteLLMKey over one owner's money.
2. `ChatTurn`: the stream, its buffer, resume and stop.
3. `PersonalSourcesQueue`: claim, settle and release of links by concurrent Scans.
4. `ViewerCounts`, `NoteVersions`, `RateLimit`: small modules of one hazard each.
5. `OverageBilling`: the report of a manual Scan when its workflow ends.

Liveness (a Scan closes, an email workflow ends, an object is deleted, a context settles) stays with TLC.

## Running

In this directory: `tlc -config ScanFaults.cfg MCScanLifecycle.tla` and so on for each
configuration with its MC module (ScanRaces, ScanFaults, ScanLive: MCScanLifecycle; Leases: MCJobLease; BudgetScoring,
BudgetRetries: MCScanBudget; ModelKeys: MCLiteLLMKey; ScanEmails: MCScanEmail; Podcasts, PodcastEnds: MCPodcastEpisode; PersonalContexts:
MCPersonalContext; Pushes: MCPushDelivery), and `tlapm ScanLifecycleProofs.tla` and so on for each module of proofs.
