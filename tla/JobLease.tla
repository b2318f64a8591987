------------------------------ MODULE JobLease ------------------------------
(***************************************************************************)
(* The lease of one job that must not overlap itself: the job's row in     *)
(* job_leases, and the runs of runWithJobLease that take it, renew it      *)
(* while their task runs, lose it, and delete it.                          *)
(*                                                                         *)
(* Time is a counter that both the database and the processes read: the    *)
(* code compares a database time only with a database time, and a process  *)
(* time only with a process time.  A statement is sent, executed and       *)
(* answered in steps of their own.  A caller that stops waiting for a      *)
(* statement may leave it behind, and the database may still execute it.   *)
(***************************************************************************)
EXTENDS Naturals

CONSTANTS
  Holder,         \* the runs of the job, each with a holderId of its own
  NoHolder,       \* stands for no row in job_leases
  RenewInterval,  \* renewIntervalMs
  MaxDelay,       \* bound on the time between a statement and its answer
  MaxTime,        \* bound on the clock
  MaxFaults       \* bound on failed statements and exits of a process

ASSUME HolderAssumption == NoHolder \notin Holder
ASSUME TimeAssumption == RenewInterval \in Nat \ {0} /\ MaxDelay \in Nat
                         /\ MaxTime \in Nat /\ MaxFaults \in Nat

VARIABLES
  now,        \* the time
  lease,      \* the job's row
  runs,       \* how far each run has come
  leftBehind, \* statements nobody waits for that may still execute
  faults      \* faults so far

vars == <<now, lease, runs, leftBehind, faults>>

-----------------------------------------------------------------------------
(* Types *)

RenewalsPerLease == 4
LeaseLength == RenewalsPerLease * RenewInterval

\* wasLate is history: the answer that leaseEndsAt counts from came late.
\* hit and miss: the database executed the statement, on a row or on none.
Answer == {"none", "sent", "hit", "miss"}

RunState == [pc : {"idle", "taking", "running", "releasing", "ended"},
             sentAt : Nat, answer : Answer, leaseEndsAt : Nat, nextTick : Nat,
             isAborted : BOOLEAN, wasLate : BOOLEAN]

Statement == [kind : {"take", "renew", "release"}, holder : Holder]

TypeOK ==
  /\ now \in 0..MaxTime
  /\ lease \in [holder : Holder \cup {NoHolder}, expiresAt : 0..(MaxTime + LeaseLength)]
  /\ runs \in [Holder -> RunState]
  /\ leftBehind \subseteq Statement
  /\ faults \in 0..MaxFaults

-----------------------------------------------------------------------------
(* The three statements, each on the job's row and the database's time *)

NoLease == [holder |-> NoHolder, expiresAt |-> 0]

\* INSERT, or UPDATE on conflict if the row has expired.
CanTake(h) == lease.holder = NoHolder \/ lease.expiresAt <= now
TakenLease(h) == [holder |-> h, expiresAt |-> now + LeaseLength]

CanRenew(h) == lease.holder = h /\ lease.expiresAt > now

RenewedLease(h) == [lease EXCEPT !.expiresAt = now + LeaseLength]

\* Mutant: the DELETE leaves out the holder.
CanReleaseAny(h) == lease.holder # NoHolder

CanRelease(h) == lease.holder = h

Matches(kind, h) == CASE kind = "take" -> CanTake(h)
                      [] kind = "renew" -> CanRenew(h)
                      [] kind = "release" -> CanRelease(h)

Written(kind, h) == CASE kind = "take" -> TakenLease(h)
                      [] kind = "renew" -> RenewedLease(h)
                      [] kind = "release" -> NoLease

Execute(kind, h) == lease' = IF Matches(kind, h) THEN Written(kind, h) ELSE lease

-----------------------------------------------------------------------------
(* A run *)

IdleRun == [pc |-> "idle", sentAt |-> 0, answer |-> "none", leaseEndsAt |-> 0,
            nextTick |-> 0, isAborted |-> FALSE, wasLate |-> FALSE]

Init ==
  /\ now = 0
  /\ lease = NoLease
  /\ runs = [h \in Holder |-> IdleRun]
  /\ leftBehind = {}
  /\ faults = 0

\* The statement a run has under way is of this kind.
Kind(h) == CASE runs[h].pc = "taking" -> "take"
             [] runs[h].pc = "running" -> "renew"
             [] OTHER -> "release"

IsWaiting(h) == runs[h].answer # "none"

\* The run's last statement was sent half a renewal interval ago, or longer.
IsLate(h) == 2 * (now - runs[h].sentAt) >= RenewInterval

\* The run stops waiting for its statement, which the database may not have seen.
LeaveBehind(h) ==
  \/ UNCHANGED leftBehind
  \/ /\ runs[h].answer = "sent"
     /\ leftBehind' = leftBehind \cup {[kind |-> Kind(h), holder |-> h]}

Ended(h) == runs' = [runs EXCEPT ![h] = [IdleRun EXCEPT !.pc = "ended"]]

Fault == faults < MaxFaults /\ faults' = faults + 1

\* runWithJobLease reads the time and sends the take.
TakeJobLease(h) ==
  /\ runs[h].pc = "idle"
  /\ runs' = [runs EXCEPT ![h] = [@ EXCEPT !.pc = "taking", !.sentAt = now, !.answer = "sent"]]
  /\ UNCHANGED <<now, lease, leftBehind, faults>>

\* The database executes the statement a run waits for.
ExecuteStatement(h) ==
  /\ runs[h].answer = "sent"
  /\ Execute(Kind(h), h)
  /\ runs' = [runs EXCEPT ![h].answer = IF Matches(Kind(h), h) THEN "hit" ELSE "miss"]
  /\ UNCHANGED <<now, leftBehind, faults>>

\* Another run's lease is live: return null without running the task.
TurnedAway(h) ==
  /\ runs[h].pc = "taking" /\ runs[h].answer = "miss"
  /\ Ended(h)
  /\ UNCHANGED <<now, lease, leftBehind, faults>>

\* Mutant: the lease is timed from the answer to its statement.
LeaseEndLate(h) == now + LeaseLength

\* Timed from before the statement was sent.
LeaseEnd(h) == runs[h].sentAt + LeaseLength

\* startRenewing, and the task starts.
StartTask(h) ==
  /\ runs[h].pc = "taking" /\ runs[h].answer = "hit"
  /\ runs' = [runs EXCEPT ![h] = [@ EXCEPT !.pc = "running", !.answer = "none",
                                         !.leaseEndsAt = LeaseEnd(h), !.wasLate = IsLate(h),
                                         !.nextTick = now + RenewInterval]]
  /\ UNCHANGED <<now, lease, leftBehind, faults>>

\* The interval's timer runs until an abort; a tick is skipped while a renewal waits.
IsTimerOn(h) == runs[h].pc = "running" /\ ~runs[h].isAborted

AfterTick(h) ==
  LET ticked == [runs[h] EXCEPT !.nextTick = now + RenewInterval]
  IN IF IsWaiting(h) THEN ticked ELSE [ticked EXCEPT !.sentAt = now, !.answer = "sent"]

RenewTick(h) ==
  /\ IsTimerOn(h) /\ runs[h].nextTick = now
  /\ runs' = [runs EXCEPT ![h] = AfterTick(h)]
  /\ UNCHANGED <<now, lease, leftBehind, faults>>

Renewed(h) ==
  /\ runs[h].pc = "running" /\ runs[h].answer = "hit"
  /\ runs' = [runs EXCEPT ![h] = [@ EXCEPT !.answer = "none", !.leaseEndsAt = LeaseEnd(h),
                                         !.wasLate = IsLate(h)]]
  /\ UNCHANGED <<now, lease, leftBehind, faults>>

\* No row: the lease expired, or another run took it.
RenewalFindsLeaseLost(h) ==
  /\ runs[h].pc = "running" /\ runs[h].answer = "miss"
  /\ runs' = [runs EXCEPT ![h] = [@ EXCEPT !.answer = "none", !.isAborted = TRUE]]
  /\ UNCHANGED <<now, lease, leftBehind, faults>>

\* Mutant: the next tick is not counted in.
IsLeaseOver(h) == now >= runs[h].leaseEndsAt

\* The next tick would land after the lease runs out.
IsLeaseEnding(h) == now + RenewInterval >= runs[h].leaseEndsAt

AfterFailure(h) ==
  LET answered == [runs[h] EXCEPT !.answer = "none"]
  IN IF IsLeaseEnding(h) THEN [answered EXCEPT !.isAborted = TRUE] ELSE answered

\* The renewal throws, whether or not the database executed it.
RenewalThrows(h) ==
  /\ runs[h].pc = "running" /\ IsWaiting(h)
  /\ Fault
  /\ LeaveBehind(h)
  /\ runs' = [runs EXCEPT ![h] = AfterFailure(h)]
  /\ UNCHANGED <<now, lease>>

\* The task ends, by itself or told to, and the run deletes its row.  A renewal
\* under way is not waited for.
TaskEnds(h) ==
  /\ runs[h].pc = "running"
  /\ LeaveBehind(h)
  /\ runs' = [runs EXCEPT ![h] = [IdleRun EXCEPT !.pc = "releasing", !.sentAt = now,
                                                 !.answer = "sent"]]
  /\ UNCHANGED <<now, lease, faults>>

Released(h) ==
  /\ runs[h].pc = "releasing" /\ runs[h].answer \in {"hit", "miss"}
  /\ Ended(h)
  /\ UNCHANGED <<now, lease, leftBehind, faults>>

\* The take or the release throws, or the process exits.
RunFails(h) ==
  /\ runs[h].pc \in {"taking", "running", "releasing"}
  /\ Fault
  /\ LeaveBehind(h)
  /\ Ended(h)
  /\ UNCHANGED <<now, lease>>

ExecuteLeftBehind(s) ==
  /\ s \in leftBehind
  /\ leftBehind' = leftBehind \ {s}
  /\ Execute(s.kind, s.holder)
  /\ UNCHANGED <<now, runs, faults>>

LoseLeftBehind(s) ==
  /\ s \in leftBehind
  /\ leftBehind' = leftBehind \ {s}
  /\ UNCHANGED <<now, lease, runs, faults>>

-----------------------------------------------------------------------------
(* Time passes unless a timer or an answer is due *)

Tick ==
  /\ now < MaxTime
  /\ \A h \in Holder : IsTimerOn(h) => runs[h].nextTick > now
  /\ \A h \in Holder : IsWaiting(h) => runs[h].sentAt + MaxDelay > now
  /\ now' = now + 1
  /\ UNCHANGED <<lease, runs, leftBehind, faults>>

Next ==
  \/ \E h \in Holder :
       \/ TakeJobLease(h) \/ ExecuteStatement(h) \/ TurnedAway(h) \/ StartTask(h)
       \/ RenewTick(h) \/ Renewed(h) \/ RenewalFindsLeaseLost(h) \/ RenewalThrows(h)
       \/ TaskEnds(h) \/ Released(h) \/ RunFails(h)
  \/ \E s \in leftBehind : ExecuteLeftBehind(s) \/ LoseLeftBehind(s)
  \/ Tick

Spec == Init /\ [][Next]_vars

-----------------------------------------------------------------------------
(* Properties *)

\* The task of a run goes on, and nobody has told it to stop.
IsRunning(h) == runs[h].pc = "running" /\ ~runs[h].isAborted

\* A database that answers late, now or when the lease was last extended: nothing
\* in the run bounds such a wait, and the lease may end in it.
IsExcused(h) == (IsWaiting(h) /\ IsLate(h)) \/ runs[h].wasLate

\* The job never overlaps itself, however late the answers of earlier statements and
\* of other runs' were: if two runs of runWithJobLease whose signals have not aborted run
\* their tasks at once, the one that lost the lease waits half a renewal interval
\* for an answer, or has waited that long for the last one that extended its lease.
OneRunAtATime ==
  \A g, h \in Holder : IsRunning(g) /\ IsRunning(h) /\ g # h => IsExcused(g) \/ IsExcused(h)

\* A task that was not told to stop has its lease in the database, still live, unless
\* the database is late with its answer.  One answer in time is enough, whatever
\* came before it: failed renewals, skipped ticks, statements executed after all.
RunningTaskHoldsLiveLease ==
  \A h \in Holder : IsRunning(h) =>
    \/ lease.holder = h /\ lease.expiresAt > now
    \/ IsExcused(h)

\* A live lease leaves its holder only by the holder's own release: no take, late
\* renewal or delete of another run disturbs it.
LiveLeaseIsUndisturbed ==
  [][lease.holder \in Holder /\ lease.expiresAt > now /\ lease'.holder # lease.holder
       => runs[lease.holder].pc \in {"releasing", "ended"}]_vars

=============================================================================
