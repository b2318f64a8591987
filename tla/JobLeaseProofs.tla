--------------------------- MODULE JobLeaseProofs ---------------------------
(***************************************************************************)
(* What JobLease promises for any number of runs, any times and any delays.*)
(*                                                                         *)
(* The database's rows obey the runs: LeaseIsOrderly.  Whoever a row names *)
(* keeps it until the time the holder reckons with (HeldUntil), because a  *)
(* run times its lease from before the statement was sent.  What remains   *)
(* is when a run learns that this time has come: its ticks lie a whole     *)
(* number of intervals before the end of the lease, less what the take     *)
(* was delayed (TickBeforeEnd), so the last tick leaves time for an answer *)
(* that comes within half an interval.                                     *)
(***************************************************************************)
EXTENDS JobLease, TLAPS

\* A run with no statement has none to be executed, and only a run that has
\* ended has left a release behind.
LeaseIsOrderly ==
  /\ TypeOK
  /\ \A h \in Holder : runs[h].pc \in {"idle", "ended"} => runs[h].answer = "none"
  /\ \A s \in leftBehind : s.kind = "release" => runs[s.holder].pc = "ended"

\* Until this time the row is the run's.
HeldUntil(h, t) == now < t => lease.holder = h /\ lease.expiresAt >= t

\* A statement that was executed holds the row for a lease, from when it was sent.
HitHolds(h) == runs[h].answer = "hit" => HeldUntil(h, runs[h].sentAt + LeaseLength)

TakeFits(h) == runs[h].pc = "taking" => runs[h].sentAt <= now /\ HitHolds(h)

\* The lease ends a whole number of intervals after the next tick, less d.  A
\* renewal is sent at least one interval before the end, less d, and while it waits
\* the ticks may pass the end.
TickBeforeEnd(h, d) ==
  LET tick == runs[h].nextTick
      end  == runs[h].leaseEndsAt + d
  IN  IF runs[h].answer = "none"
      THEN end \in {tick + RenewInterval, tick + 2 * RenewInterval, tick + 3 * RenewInterval}
      ELSE /\ runs[h].sentAt + RenewInterval <= end
           /\ end <= tick \/ end \in {tick + RenewInterval, tick + 2 * RenewInterval}

\* A renewal under way was sent at the last tick, unless a tick was skipped since.
RenewalFits(h) ==
  /\ runs[h].sentAt <= now
  /\ runs[h].nextTick = runs[h].sentAt + RenewInterval \/ now >= runs[h].sentAt + RenewInterval
  /\ HitHolds(h)

RunningFits(h) ==
  IsRunning(h) =>
    /\ HeldUntil(h, runs[h].leaseEndsAt) /\ runs[h].leaseEndsAt <= now + LeaseLength
    /\ now <= runs[h].nextTick /\ runs[h].nextTick <= now + RenewInterval
    /\ IsWaiting(h) => RenewalFits(h)
    /\ ~runs[h].wasLate => \E d \in Nat : 2 * d < RenewInterval /\ TickBeforeEnd(h, d)

Fits(h) == TakeFits(h) /\ RunningFits(h)

RunsFit == \A h \in Holder : Fits(h)

-----------------------------------------------------------------------------
(* The rows obey the runs *)

\* An executed statement leaves a well-typed row.
LEMMA ExecuteType ==
  ASSUME TypeOK, NEW kind \in {"take", "renew", "release"}, NEW h \in Holder, Execute(kind, h)
  PROVE  lease' \in [holder : Holder \cup {NoHolder}, expiresAt : 0..(MaxTime + LeaseLength)]
  <1> DEFINE T == [holder : Holder \cup {NoHolder}, expiresAt : 0..(MaxTime + LeaseLength)]
  <1>1. LeaseLength \in Nat /\ now \in 0..MaxTime /\ MaxTime \in Nat
    BY TimeAssumption DEF TypeOK, LeaseLength, RenewalsPerLease
  <1>2. lease \in T
    BY DEF TypeOK
  <1>3. now + LeaseLength \in 0..(MaxTime + LeaseLength) /\ 0 \in 0..(MaxTime + LeaseLength)
    BY <1>1
  <1>4. TakenLease(h) \in T
    BY <1>3 DEF TakenLease
  <1>5. RenewedLease(h) \in T
    BY <1>2, <1>3 DEF RenewedLease
  <1>6. NoLease \in T
    BY <1>3 DEF NoLease
  <1>7. Written(kind, h) \in T
    BY <1>4, <1>5, <1>6 DEF Written
  <1> QED
    BY <1>2, <1>7 DEF Execute

\* A run's statement is of one of the three kinds.
LEMMA KindType == \A h \in Holder : Kind(h) \in {"take", "renew", "release"}
  BY DEF Kind

\* The state that a run ends in.
LEMMA EndedType == [IdleRun EXCEPT !.pc = "ended"] \in RunState
  BY DEF IdleRun, RunState, Answer

\* A statement left behind by a run is of one of the three kinds.
LEMMA LeaveBehindType ==
  ASSUME TypeOK, NEW h \in Holder, LeaveBehind(h)
  PROVE  leftBehind' \subseteq Statement
  BY KindType DEF LeaveBehind, TypeOK, Statement

\* The states that a renewal and a tick leave a run in.
LEMMA RenewingType ==
  ASSUME NEW q \in RunState, NEW t \in Nat, NEW u \in Nat, NEW b \in BOOLEAN
  PROVE  /\ [q EXCEPT !.answer = "none", !.leaseEndsAt = t, !.wasLate = b] \in RunState
         /\ [q EXCEPT !.nextTick = t] \in RunState
         /\ [q EXCEPT !.pc = "running", !.answer = "none", !.leaseEndsAt = t,
                      !.wasLate = b, !.nextTick = u] \in RunState
         /\ [q EXCEPT !.nextTick = t, !.sentAt = u, !.answer = "sent"] \in RunState
  BY DEF RunState, Answer

\* The states that a failed renewal leaves a run in.
LEMMA FailureType ==
  ASSUME NEW q \in RunState
  PROVE  /\ [q EXCEPT !.answer = "none"] \in RunState
         /\ [[q EXCEPT !.answer = "none"] EXCEPT !.isAborted = TRUE] \in RunState
  BY DEF RunState, Answer

\* A step that changes the record of one run to another keeps the runs' type.
LEMMA RunsType ==
  ASSUME TypeOK, NEW h \in Holder, NEW r \in RunState, runs' = [runs EXCEPT ![h] = r]
  PROVE  /\ runs' \in [Holder -> RunState]
         /\ runs'[h] = r
         /\ \A g \in Holder \ {h} : runs'[g] = runs[g]
  BY DEF TypeOK

\* A step of one run that has not ended, and that changes nothing else, keeps the
\* order if a run without a statement has none to be executed.
LEMMA RunStepOrderly ==
  ASSUME LeaseIsOrderly, NEW h \in Holder, NEW r \in RunState,
         runs' = [runs EXCEPT ![h] = r], UNCHANGED <<now, lease, leftBehind, faults>>,
         runs[h].pc # "ended", r.pc \in {"idle", "ended"} => r.answer = "none"
  PROVE  LeaseIsOrderly'
  <1>0. TypeOK
    BY DEF LeaseIsOrderly
  <1>1. /\ runs' \in [Holder -> RunState]
        /\ runs'[h] = r
        /\ \A g \in Holder \ {h} : runs'[g] = runs[g]
    BY <1>0, RunsType
  <1>2. TypeOK'
    BY <1>0, <1>1 DEF TypeOK
  <1>3. \A g \in Holder : runs'[g].pc \in {"idle", "ended"} => runs'[g].answer = "none"
    BY <1>1 DEF LeaseIsOrderly
  <1>4. ASSUME NEW s \in leftBehind, s.kind = "release" PROVE runs'[s.holder].pc = "ended"
    <2>1. s.holder \in Holder \ {h} /\ runs[s.holder].pc = "ended"
      BY <1>0, <1>4 DEF LeaseIsOrderly, TypeOK, Statement
    <2> QED
      BY <1>1, <2>1
  <1> QED
    BY <1>2, <1>3, <1>4 DEF LeaseIsOrderly

\* A fault keeps its counter within the bound.
LEMMA FaultType == ASSUME TypeOK, Fault PROVE faults' \in 0..MaxFaults
  BY TimeAssumption DEF TypeOK, Fault

\* The order of runs and statements holds at first.
LEMMA OrderlyInit == Init => LeaseIsOrderly
  BY TimeAssumption, HolderAssumption
  DEF Init, LeaseIsOrderly, TypeOK, NoLease, IdleRun, RunState, Answer, LeaseLength,
      RenewalsPerLease

\* Every step keeps the types and the order of runs and statements.
LEMMA OrderlyStep == LeaseIsOrderly /\ [Next]_vars => LeaseIsOrderly'
  <1> SUFFICES ASSUME LeaseIsOrderly, [Next]_vars PROVE LeaseIsOrderly'
    OBVIOUS
  <1> USE DEF LeaseIsOrderly
  <1>0. TypeOK
    OBVIOUS
  <1>t. now \in Nat /\ LeaseLength \in Nat /\ RenewInterval \in Nat /\ \A h \in Holder : runs[h] \in RunState
    BY TimeAssumption DEF TypeOK, LeaseLength, RenewalsPerLease
  <1>1. ASSUME NEW h \in Holder, TakeJobLease(h) PROVE LeaseIsOrderly'
    <2> DEFINE r == [runs[h] EXCEPT !.pc = "taking", !.sentAt = now, !.answer = "sent"]
    <2>1. runs[h] \in RunState
      BY <1>t
    <2>2. r \in RunState /\ r.pc = "taking"
      BY <1>t, <2>1 DEF RunState, Answer
    <2>3. runs' = [runs EXCEPT ![h] = r] /\ runs[h].pc = "idle"
      BY <1>1 DEF TakeJobLease
    <2>4. UNCHANGED <<now, lease, leftBehind, faults>>
      BY <1>1 DEF TakeJobLease
    <2> HIDE DEF r
    <2> QED
      BY <2>2, <2>3, <2>4, RunStepOrderly
  <1>2. ASSUME NEW h \in Holder, ExecuteStatement(h) PROVE LeaseIsOrderly'
    <2>1. lease' \in [holder : Holder \cup {NoHolder}, expiresAt : 0..(MaxTime + LeaseLength)]
      BY <1>0, <1>2, KindType, ExecuteType DEF ExecuteStatement
    <2> QED
      BY <1>2, <1>t, <2>1 DEF TypeOK, ExecuteStatement, RunState, Answer
  <1>3. ASSUME NEW h \in Holder, TurnedAway(h) PROVE LeaseIsOrderly'
    BY <1>3, EndedType DEF TypeOK, TurnedAway, Ended, IdleRun
  <1>4. ASSUME NEW h \in Holder, StartTask(h) PROVE LeaseIsOrderly'
    <2>0. LeaseEnd(h) \in Nat
      BY <1>t DEF LeaseEnd, RunState
    <2> DEFINE r == [runs[h] EXCEPT !.pc = "running", !.answer = "none",
                                    !.leaseEndsAt = LeaseEnd(h), !.wasLate = IsLate(h),
                                    !.nextTick = now + RenewInterval]
    <2>1. runs[h] \in RunState
      BY <1>t
    <2>2. r \in RunState
      <3>1. now + RenewInterval \in Nat /\ IsLate(h) \in BOOLEAN
        BY <1>t DEF IsLate
      <3> QED
        BY <2>0, <2>1, <3>1, RenewingType
    <2>5. r.pc = "running"
      BY <2>1 DEF RunState
    <2>3. runs' = [runs EXCEPT ![h] = r] /\ runs[h].pc = "taking"
      BY <1>4 DEF StartTask
    <2>4. UNCHANGED <<now, lease, leftBehind, faults>>
      BY <1>4 DEF StartTask
    <2> HIDE DEF r
    <2> QED
      BY <2>2, <2>3, <2>4, <2>5, RunStepOrderly
  <1>5. ASSUME NEW h \in Holder, RenewTick(h) PROVE LeaseIsOrderly'
    <2>1. runs[h] \in RunState
      BY <1>t
    <2>2. runs' = [runs EXCEPT ![h] = AfterTick(h)] /\ runs[h].pc = "running"
      BY <1>5 DEF RenewTick, IsTimerOn
    <2>3. UNCHANGED <<now, lease, leftBehind, faults>>
      BY <1>5 DEF RenewTick
    <2>4. now \in Nat /\ now + RenewInterval \in Nat
      BY <1>t
    <2>5. AfterTick(h) \in RunState
      BY <2>1, <2>4, RenewingType DEF AfterTick
    <2>6. AfterTick(h).pc = "running"
      BY <2>1, <2>2 DEF AfterTick, RunState
    <2> HIDE DEF LeaseIsOrderly
    <2> QED
      BY <2>2, <2>3, <2>5, <2>6, RunStepOrderly
  <1>6. ASSUME NEW h \in Holder, Renewed(h) PROVE LeaseIsOrderly'
    <2>0. LeaseEnd(h) \in Nat
      BY <1>t DEF LeaseEnd, RunState
    <2> DEFINE r == [runs[h] EXCEPT !.answer = "none", !.leaseEndsAt = LeaseEnd(h),
                                    !.wasLate = IsLate(h)]
    <2>1. runs[h] \in RunState
      BY <1>t
    <2>3. runs' = [runs EXCEPT ![h] = r] /\ runs[h].pc = "running"
      BY <1>6 DEF Renewed
    <2> HIDE DEF LeaseIsOrderly
    <2>2. r \in RunState
      <3>1. IsLate(h) \in BOOLEAN
        BY DEF IsLate
      <3> QED
        BY <2>0, <2>1, <3>1, RenewingType
    <2>5. r.pc = runs[h].pc
      BY <2>1 DEF RunState
    <2>4. UNCHANGED <<now, lease, leftBehind, faults>>
      BY <1>6 DEF Renewed
    <2> HIDE DEF r
    <2> QED
      BY <2>2, <2>3, <2>4, <2>5, RunStepOrderly
  <1>7. ASSUME NEW h \in Holder, RenewalFindsLeaseLost(h) PROVE LeaseIsOrderly'
    <2>1. runs' \in [Holder -> RunState]
      BY <1>7, <1>t DEF TypeOK, RenewalFindsLeaseLost, RunState, Answer
    <2> QED
      BY <1>7, <2>1 DEF TypeOK, RenewalFindsLeaseLost, Statement
  <1>8. ASSUME NEW h \in Holder, RenewalThrows(h) PROVE LeaseIsOrderly'
    <2>1. faults' \in 0..MaxFaults /\ leftBehind' \subseteq Statement
      BY <1>0, <1>8, FaultType, LeaveBehindType DEF RenewalThrows
    <2>2. runs' = [runs EXCEPT ![h] = AfterFailure(h)] /\ runs[h] \in RunState
      BY <1>8, <1>t DEF RenewalThrows
    <2>5. AfterFailure(h) \in RunState
      BY <2>2, FailureType DEF AfterFailure
    <2>3. runs' \in [Holder -> RunState]
      BY <1>0, <2>2, <2>5, RunsType
    <2>6. runs'[h].pc = "running" /\ runs[h].pc = "running"
      BY <1>8, <2>2 DEF TypeOK, RenewalThrows, AfterFailure, RunState
    <2>7. \A g \in Holder \ {h} : runs'[g] = runs[g]
      BY <2>2 DEF TypeOK
    <2>4. \A s \in leftBehind' : s.kind = "release" => s \in leftBehind
      BY <1>8 DEF RenewalThrows, LeaveBehind, Kind
    <2> QED
      BY <1>8, <2>1, <2>3, <2>4, <2>6, <2>7 DEF TypeOK, RenewalThrows, Statement
  <1>9. ASSUME NEW h \in Holder, TaskEnds(h) PROVE LeaseIsOrderly'
    <2>1. leftBehind' \subseteq Statement
      BY <1>0, <1>9, LeaveBehindType DEF TaskEnds
    <2>2. runs' \in [Holder -> RunState]
      BY <1>9, <1>t DEF TypeOK, TaskEnds, RunState, Answer, IdleRun
    <2>3. \A s \in leftBehind' : s.kind = "release" => s \in leftBehind
      BY <1>9 DEF TaskEnds, LeaveBehind, Kind
    <2> QED
      BY <1>9, <2>1, <2>2, <2>3 DEF TypeOK, TaskEnds, Statement, IdleRun
  <1>10. ASSUME NEW h \in Holder, Released(h) PROVE LeaseIsOrderly'
    BY <1>10, EndedType DEF TypeOK, Released, Ended, IdleRun
  <1>11. ASSUME NEW h \in Holder, RunFails(h) PROVE LeaseIsOrderly'
    <2>1. faults' \in 0..MaxFaults /\ leftBehind' \subseteq Statement
      BY <1>0, <1>11, FaultType, LeaveBehindType DEF RunFails
    <2>2. runs' = [runs EXCEPT ![h] = [IdleRun EXCEPT !.pc = "ended"]]
      BY <1>11 DEF RunFails, Ended
    <2>3. runs' \in [Holder -> RunState]
      BY <2>2, EndedType DEF TypeOK
    <2>4. \A s \in leftBehind' : s \in leftBehind \/ s.holder = h
      BY <1>11 DEF RunFails, LeaveBehind
    <2>5. \A g \in Holder : runs'[g].pc \in {"idle", "ended"} => runs'[g].answer = "none"
      BY <2>2 DEF TypeOK, IdleRun
    <2>6. \A s \in leftBehind' : s.kind = "release" => runs'[s.holder].pc = "ended"
      BY <2>1, <2>2, <2>4 DEF TypeOK, IdleRun, Statement
    <2> QED
      BY <1>11, <2>1, <2>3, <2>5, <2>6 DEF TypeOK, RunFails
  <1>12. ASSUME NEW s \in leftBehind, ExecuteLeftBehind(s) PROVE LeaseIsOrderly'
    <2>1. lease' \in [holder : Holder \cup {NoHolder}, expiresAt : 0..(MaxTime + LeaseLength)]
      BY <1>0, <1>12, ExecuteType DEF ExecuteLeftBehind, TypeOK, Statement
    <2> QED
      BY <1>12, <2>1 DEF TypeOK, ExecuteLeftBehind
  <1>13. ASSUME NEW s \in leftBehind, LoseLeftBehind(s) PROVE LeaseIsOrderly'
    BY <1>13 DEF TypeOK, LoseLeftBehind
  <1>14. CASE Tick
    BY <1>14, TimeAssumption DEF TypeOK, Tick
  <1>15. CASE UNCHANGED vars
    BY <1>15 DEF TypeOK, vars
  <1> QED
    BY <1>1, <1>2, <1>3, <1>4, <1>5, <1>6, <1>7, <1>8, <1>9, <1>10, <1>11, <1>12, <1>13,
       <1>14, <1>15 DEF Next

\* The order of runs and statements holds throughout.
THEOREM AlwaysOrderly == Spec => []LeaseIsOrderly
  BY OrderlyInit, OrderlyStep, PTL DEF Spec

\* Every reachable state is well typed.  In particular the end of a lease never
\* lies more than one lease ahead of the clock's bound: renewJobLease extends the
\* lease from the time of the statement, not from its old end.
THEOREM LeaseTypeCorrect == Spec => []TypeOK
  <1>1. LeaseIsOrderly => TypeOK
    BY DEF LeaseIsOrderly
  <1> QED
    BY <1>1, AlwaysOrderly, PTL

\* A statement changes the holder of a live lease only if it is the holder's own
\* release: takeJobLease takes over only an expired row, and the other two
\* statements name their holder.
LEMMA LiveLeaseChangesByRelease ==
  ASSUME TypeOK, NEW kind \in {"take", "renew", "release"}, NEW h \in Holder,
         Execute(kind, h), lease.holder \in Holder, lease.expiresAt > now,
         lease'.holder # lease.holder
  PROVE  kind = "release" /\ h = lease.holder
  <1>1. Matches(kind, h)
    BY DEF Execute
  <1>2. kind # "take"
    <2> SUFFICES ASSUME kind = "take" PROVE FALSE
      OBVIOUS
    <2>1. CanTake(h)
      BY <1>1 DEF Matches
    <2> QED
      BY <2>1, HolderAssumption, TimeAssumption DEF CanTake, TypeOK, LeaseLength, RenewalsPerLease
  <1>3. kind # "renew"
    <2> SUFFICES ASSUME kind = "renew" PROVE FALSE
      OBVIOUS
    <2>1. lease' = RenewedLease(h)
      BY <1>1 DEF Execute, Written
    <2> QED
      BY <2>1 DEF RenewedLease, TypeOK
  <1> QED
    BY <1>1, <1>2, <1>3 DEF Matches, CanRelease

\* A live lease leaves its holder only by the holder's own release, for any
\* delays: a late take, renewal or delete of another run does not disturb it.
THEOREM LiveLeaseStays == Spec => LiveLeaseIsUndisturbed
  <1> DEFINE A == lease.holder \in Holder /\ lease.expiresAt > now /\ lease'.holder # lease.holder
                   => runs[lease.holder].pc \in {"releasing", "ended"}
  <1>1. LeaseIsOrderly /\ [Next]_vars => [A]_vars
    <2> SUFFICES ASSUME LeaseIsOrderly, Next, lease.holder \in Holder, lease.expiresAt > now,
                        lease'.holder # lease.holder
                 PROVE  runs[lease.holder].pc \in {"releasing", "ended"}
      OBVIOUS
    <2>0. TypeOK
      BY DEF LeaseIsOrderly
    <2>1. \/ \E h \in Holder : ExecuteStatement(h)
          \/ \E s \in leftBehind : ExecuteLeftBehind(s)
      BY DEF Next, TakeJobLease, TurnedAway, StartTask, RenewTick, Renewed,
             RenewalFindsLeaseLost, RenewalThrows, TaskEnds, Released, RunFails,
             LoseLeftBehind, Tick
    <2>2. ASSUME NEW h \in Holder, ExecuteStatement(h)
          PROVE  runs[lease.holder].pc \in {"releasing", "ended"}
      <3>1. Kind(h) = "release" /\ h = lease.holder
        BY <2>0, <2>2, KindType, LiveLeaseChangesByRelease DEF ExecuteStatement
      <3>2. runs[h].pc \in {"idle", "taking", "running", "releasing", "ended"} /\ runs[h].answer = "sent"
        BY <2>0, <2>2 DEF TypeOK, RunState, ExecuteStatement
      <3> QED
        BY <3>1, <3>2 DEF Kind, LeaseIsOrderly
    <2>3. ASSUME NEW s \in leftBehind, ExecuteLeftBehind(s)
          PROVE  runs[lease.holder].pc \in {"releasing", "ended"}
      <3>1. s.kind \in {"take", "renew", "release"} /\ s.holder \in Holder
        BY <2>0 DEF TypeOK, Statement
      <3>2. s.kind = "release" /\ s.holder = lease.holder
        BY <2>0, <2>3, <3>1, LiveLeaseChangesByRelease DEF ExecuteLeftBehind
      <3> QED
        BY <3>2 DEF LeaseIsOrderly
    <2> QED
      BY <2>1, <2>2, <2>3
  <1> QED
    BY <1>1, AlwaysOrderly, PTL DEF Spec, LiveLeaseIsUndisturbed

-----------------------------------------------------------------------------
(* Whatever the delays, a run knows when its lease ends *)

\* The numbers of a run, for the leaves that reckon with them.
LEMMA RunNumbers ==
  ASSUME TypeOK, NEW h \in Holder
  PROVE  /\ now \in Nat /\ RenewInterval \in Nat /\ RenewInterval > 0
         /\ runs[h].nextTick \in Nat /\ runs[h].leaseEndsAt \in Nat /\ runs[h].sentAt \in Nat
         /\ lease.expiresAt \in Nat /\ LeaseLength = 4 * RenewInterval
  BY TimeAssumption DEF TypeOK, RunState, LeaseLength, RenewalsPerLease

\* Another run's statement leaves a live lease alone.
LEMMA OthersLeaveLease ==
  ASSUME NEW h \in Holder, NEW g \in Holder \ {h}, NEW kind \in {"take", "renew", "release"},
         TypeOK, lease.holder = h, lease.expiresAt > now, Execute(kind, g)
  PROVE  lease' = lease
  <1>1. now \in Nat /\ lease.expiresAt \in Nat
    BY TimeAssumption DEF TypeOK, LeaseLength, RenewalsPerLease
  <1>2. ~CanTake(g) /\ ~CanRenew(g) /\ ~CanRelease(g)
    BY <1>1, HolderAssumption DEF CanTake, CanRenew, CanRelease
  <1> QED
    BY <1>2 DEF Execute, Matches

\* The holder's own statements other than its release extend a live lease or leave
\* it alone.
LEMMA OwnStatementExtends ==
  ASSUME NEW h \in Holder, NEW kind \in {"take", "renew"},
         TypeOK, lease.holder = h, lease.expiresAt > now, Execute(kind, h)
  PROVE  lease'.holder = h /\ lease'.expiresAt \in {lease.expiresAt, now + LeaseLength}
  <1>1. now \in Nat /\ lease.expiresAt \in Nat
    BY TimeAssumption DEF TypeOK, LeaseLength, RenewalsPerLease
  <1>2. ~CanTake(h)
    BY <1>1, HolderAssumption DEF CanTake
  <1>3. RenewedLease(h).holder = h /\ RenewedLease(h).expiresAt = now + LeaseLength
    BY DEF RenewedLease, TypeOK
  <1>4. CASE kind = "take"
    BY <1>2, <1>4 DEF Execute, Matches
  <1>5. CASE kind = "renew"
    BY <1>3, <1>5 DEF Execute, Written
  <1> QED
    BY <1>4, <1>5

\* A row is held on while statements are executed, but for the run's own release.
LEMMA StatementKeepsHeld ==
  ASSUME TypeOK, NEW h \in Holder, NEW g \in Holder, NEW kind \in {"take", "renew", "release"},
         Execute(kind, g), g = h => kind # "release", now' = now,
         NEW t \in Nat, t <= now + LeaseLength, HeldUntil(h, t)
  PROVE  now' < t => lease'.holder = h /\ lease'.expiresAt >= t
  <1> SUFFICES ASSUME now < t PROVE lease'.holder = h /\ lease'.expiresAt >= t
    OBVIOUS
  <1>1. lease.holder = h /\ lease.expiresAt >= t /\ lease.expiresAt > now
    BY RunNumbers DEF HeldUntil
  <1>2. CASE g = h
    BY <1>1, <1>2, OwnStatementExtends
  <1>3. CASE g # h
    BY <1>1, <1>3, OthersLeaveLease
  <1> QED
    BY <1>2, <1>3

\* A run that no step touches fits.
LEMMA FitsKept ==
  ASSUME NEW h \in Holder, Fits(h), runs'[h] = runs[h], now' = now, lease' = lease
  PROVE  Fits(h)'
  BY DEF Fits, TakeFits, RunningFits, HitHolds, HeldUntil, RenewalFits, TickBeforeEnd, IsRunning,
         IsWaiting

\* A run that neither takes nor runs fits.
LEMMA OtherwiseFits ==
  ASSUME NEW h \in Holder, runs'[h].pc \notin {"taking", "running"}
  PROVE  Fits(h)'
  BY DEF Fits, TakeFits, RunningFits, IsRunning

\* A statement of another run, or one that the run left behind, keeps it fitting.
LEMMA StatementKeepsFit ==
  ASSUME TypeOK, NEW h \in Holder, NEW g \in Holder, NEW kind \in {"take", "renew", "release"},
         Execute(kind, g), Fits(h), runs'[h] = runs[h], now' = now, g = h => kind # "release"
  PROVE  Fits(h)'
  <1>1. /\ runs[h].sentAt + LeaseLength \in Nat /\ runs[h].leaseEndsAt \in Nat
        /\ runs[h].sentAt <= now => runs[h].sentAt + LeaseLength <= now + LeaseLength
    BY RunNumbers
  <1>2. runs[h].sentAt <= now /\ HitHolds(h) => HitHolds(h)'
    BY <1>1, StatementKeepsHeld DEF HitHolds, HeldUntil
  <1>3. TakeFits(h)'
    BY <1>2 DEF Fits, TakeFits
  <1>4. RunningFits(h)'
    <2> SUFFICES ASSUME IsRunning(h) PROVE RunningFits(h)'
      BY DEF RunningFits, IsRunning
    <2>1. RunningFits(h)
      BY DEF Fits
    <2>2. HeldUntil(h, runs[h].leaseEndsAt)'
      BY <1>1, <2>1, StatementKeepsHeld DEF RunningFits, HeldUntil
    <2>3. IsWaiting(h) => RenewalFits(h)'
      BY <1>2, <2>1 DEF RunningFits, RenewalFits
    <2> QED
      BY <2>1, <2>2, <2>3 DEF RunningFits, IsWaiting, TickBeforeEnd
  <1> QED
    BY <1>3, <1>4 DEF Fits

\* The acting run's own steps keep it fitting.  First the take and its answer.
LEMMA TakeKeepsFit ==
  ASSUME TypeOK, NEW h \in Holder, Fits(h), TakeJobLease(h) \/ StartTask(h)
  PROVE  Fits(h)'
  <1>1. CASE TakeJobLease(h)
    <2>1. /\ runs'[h].pc = "taking" /\ runs'[h].answer = "sent" /\ runs'[h].sentAt = now
          /\ now' = now
      BY <1>1 DEF TakeJobLease, TypeOK, RunState
    <2> QED
      BY <2>1, RunNumbers DEF Fits, TakeFits, HitHolds, RunningFits, IsRunning
  <1>2. CASE StartTask(h)
    <2>1. /\ runs'[h].pc = "running" /\ runs'[h].answer = "none"
          /\ runs'[h].leaseEndsAt = LeaseEnd(h) /\ runs'[h].nextTick = now + RenewInterval
          /\ runs'[h].wasLate = IsLate(h)
          /\ now' = now /\ lease' = lease
      BY <1>2 DEF StartTask, TypeOK, RunState
    <2>2. HeldUntil(h, runs[h].sentAt + LeaseLength) /\ runs[h].sentAt <= now
      BY <1>2 DEF StartTask, Fits, TakeFits, HitHolds
    <2>3. runs'[h].leaseEndsAt = runs[h].sentAt + 4 * RenewInterval
      BY <2>1, RunNumbers DEF LeaseEnd
    <2>4. ~runs'[h].wasLate => \E d \in Nat : 2 * d < RenewInterval /\ TickBeforeEnd(h, d)'
      <3> SUFFICES ASSUME ~IsLate(h) PROVE \E d \in Nat : 2 * d < RenewInterval /\ TickBeforeEnd(h, d)'
        BY <2>1
      <3>1. PICK d \in Nat : 2 * d < RenewInterval /\ runs[h].sentAt + d = now
        <4>1. /\ now - runs[h].sentAt \in Nat /\ 2 * (now - runs[h].sentAt) < RenewInterval
              /\ runs[h].sentAt + (now - runs[h].sentAt) = now
          BY <2>2, RunNumbers DEF IsLate
        <4> QED
          BY <4>1
      <3>2. runs'[h].leaseEndsAt + d = runs'[h].nextTick + 3 * RenewInterval
        BY <2>1, <2>3, <3>1, RunNumbers
      <3>3. TickBeforeEnd(h, d)'
        BY <2>1, <3>2 DEF TickBeforeEnd
      <3> QED
        BY <3>1, <3>3
    <2>5. HeldUntil(h, runs[h].leaseEndsAt)' /\ runs'[h].leaseEndsAt <= now' + LeaseLength
      BY <2>1, <2>2, RunNumbers DEF LeaseEnd, HeldUntil
    <2>6. now' <= runs'[h].nextTick /\ runs'[h].nextTick <= now' + RenewInterval
      BY <2>1, RunNumbers
    <2>7. RunningFits(h)'
      BY <2>1, <2>4, <2>5, <2>6 DEF RunningFits, IsWaiting
    <2> QED
      BY <2>1, <2>7 DEF Fits, TakeFits
  <1> QED
    BY <1>1, <1>2

\* A tick sends a renewal, or is skipped while the last one waits.
LEMMA TickKeepsFit ==
  ASSUME TypeOK, NEW h \in Holder, Fits(h), RenewTick(h)
  PROVE  Fits(h)'
  <1>1. IsRunning(h) /\ RunningFits(h) /\ runs[h].nextTick = now
    BY DEF RenewTick, IsTimerOn, IsRunning, Fits
  <1>2. /\ runs'[h] = AfterTick(h) /\ now' = now /\ lease' = lease
    BY DEF RenewTick, TypeOK
  <1>3. /\ runs'[h].pc = "running" /\ runs'[h].nextTick = now + RenewInterval
        /\ runs'[h].leaseEndsAt = runs[h].leaseEndsAt /\ runs'[h].wasLate = runs[h].wasLate
        /\ IsWaiting(h) => runs'[h].sentAt = runs[h].sentAt /\ runs'[h].answer = runs[h].answer
        /\ ~IsWaiting(h) => runs'[h].sentAt = now /\ runs'[h].answer = "sent"
    BY <1>1, <1>2 DEF AfterTick, TypeOK, RunState, IsRunning
  <1>4. now' <= runs'[h].nextTick /\ runs'[h].nextTick <= now' + RenewInterval
    BY <1>2, <1>3, RunNumbers
  <1>5. RenewalFits(h)'
    <2>1. CASE IsWaiting(h)
      BY <1>1, <1>2, <1>3, <2>1, RunNumbers DEF RunningFits, RenewalFits, HitHolds, HeldUntil
    <2>2. CASE ~IsWaiting(h)
      BY <1>2, <1>3, <2>2, RunNumbers DEF RenewalFits, HitHolds
    <2> QED
      BY <2>1, <2>2
  <1>6. ASSUME NEW d \in Nat, TickBeforeEnd(h, d) PROVE TickBeforeEnd(h, d)'
    <2>1. CASE IsWaiting(h)
      BY <1>1, <1>3, <1>6, <2>1, RunNumbers DEF TickBeforeEnd, IsWaiting
    <2>2. CASE ~IsWaiting(h)
      BY <1>1, <1>3, <1>6, <2>2, RunNumbers DEF TickBeforeEnd, IsWaiting
    <2> QED
      BY <2>1, <2>2
  <1>7. HeldUntil(h, runs[h].leaseEndsAt)' /\ runs'[h].leaseEndsAt <= now' + LeaseLength
    BY <1>1, <1>2, <1>3 DEF RunningFits, HeldUntil
  <1>8. RunningFits(h)'
    BY <1>1, <1>3, <1>4, <1>5, <1>6, <1>7 DEF RunningFits
  <1> QED
    BY <1>3, <1>8 DEF Fits, TakeFits

\* A renewal that succeeds in time moves the end of the lease three ticks ahead, and
\* one that throws leaves the task running only if the next tick comes before the end.
LEMMA AnswerKeepsFit ==
  ASSUME TypeOK, NEW h \in Holder, Fits(h), Renewed(h) \/ RenewalThrows(h)
  PROVE  Fits(h)'
  <1>0. runs \in [Holder -> RunState] /\ runs[h] \in RunState
    BY DEF TypeOK
  <1>1. /\ runs'[h].pc = "running" /\ runs'[h].answer = "none" /\ now' = now /\ lease' = lease
        /\ runs'[h].nextTick = runs[h].nextTick
    <2>1. CASE Renewed(h)
      BY <1>0, <2>1 DEF Renewed, RunState
    <2>2. CASE RenewalThrows(h)
      BY <1>0, <2>2 DEF RenewalThrows, AfterFailure, RunState
    <2> QED
      BY <2>1, <2>2
  <1> SUFFICES ASSUME IsRunning(h)' PROVE RunningFits(h)'
    BY <1>1 DEF Fits, TakeFits, RunningFits
  <1>2. CASE Renewed(h)
    <2>1. IsRunning(h) /\ IsWaiting(h) /\ runs[h].answer = "hit"
      BY <1>2 DEF Renewed, IsRunning, IsWaiting, TypeOK, RunState
    <2>2. /\ runs'[h].leaseEndsAt = runs[h].sentAt + 4 * RenewInterval
          /\ runs'[h].leaseEndsAt = runs[h].sentAt + LeaseLength /\ runs'[h].wasLate = IsLate(h)
      <3>1. runs'[h].leaseEndsAt = LeaseEnd(h) /\ runs'[h].wasLate = IsLate(h)
        BY <1>2 DEF Renewed, TypeOK, RunState
      <3> QED
        BY <3>1, RunNumbers DEF LeaseEnd
    <2>3. RunningFits(h) /\ RenewalFits(h)
      BY <2>1 DEF Fits, RunningFits
    <2>4. ~IsLate(h) => 2 * 0 < RenewInterval /\ TickBeforeEnd(h, 0)'
      <3> SUFFICES ASSUME ~IsLate(h) PROVE TickBeforeEnd(h, 0)'
        BY RunNumbers
      <3>1. now < runs[h].sentAt + RenewInterval
        BY <2>3, RunNumbers DEF IsLate, RenewalFits
      <3>2. runs'[h].leaseEndsAt + 0 = runs'[h].nextTick + 3 * RenewInterval
        BY <1>1, <2>2, <2>3, <3>1, RunNumbers DEF RenewalFits
      <3> QED
        BY <1>1, <3>2 DEF TickBeforeEnd
    <2>5. HeldUntil(h, runs[h].leaseEndsAt)' /\ runs'[h].leaseEndsAt <= now' + LeaseLength
      BY <1>1, <2>1, <2>2, <2>3, RunNumbers DEF RenewalFits, HitHolds, HeldUntil
    <2> QED
      BY <1>1, <2>1, <2>2, <2>3, <2>4, <2>5 DEF RunningFits, IsWaiting
  <1>3. CASE RenewalThrows(h)
    <2>1. runs[h].pc = "running" /\ IsWaiting(h)
      BY <1>3 DEF RenewalThrows
    <2>2. runs'[h] = AfterFailure(h) /\ ~runs'[h].isAborted
      BY <1>0, <1>3 DEF RenewalThrows, IsRunning
    <2>3. ~IsLeaseEnding(h)
      BY <1>0, <2>2 DEF AfterFailure, RunState
    <2>4. runs'[h] = [runs[h] EXCEPT !.answer = "none"]
      BY <2>2, <2>3 DEF AfterFailure
    <2>5. /\ runs'[h].isAborted = runs[h].isAborted /\ runs'[h].leaseEndsAt = runs[h].leaseEndsAt
          /\ runs'[h].wasLate = runs[h].wasLate
      BY <1>0, <2>4 DEF RunState
    <2>6. RunningFits(h) /\ now + RenewInterval < runs[h].leaseEndsAt /\ IsRunning(h)
      BY <2>1, <2>2, <2>3, <2>5, RunNumbers DEF Fits, IsLeaseEnding, IsRunning
    <2>7. runs[h].nextTick <= now + RenewInterval
      BY <2>6 DEF RunningFits
    <2>8. ASSUME NEW d \in Nat, TickBeforeEnd(h, d) PROVE TickBeforeEnd(h, d)'
      <3>1. runs[h].leaseEndsAt + d > runs[h].nextTick
        BY <2>6, <2>7, RunNumbers
      <3>2. runs[h].leaseEndsAt + d \in {runs[h].nextTick + RenewInterval, runs[h].nextTick + 2 * RenewInterval}
        BY <2>1, <2>8, <3>1, RunNumbers DEF TickBeforeEnd, IsWaiting
      <3> QED
        BY <1>1, <2>5, <3>2 DEF TickBeforeEnd
    <2>9. HeldUntil(h, runs[h].leaseEndsAt)' /\ runs'[h].leaseEndsAt <= now' + LeaseLength
      BY <1>1, <2>5, <2>6 DEF RunningFits, HeldUntil
    <2> QED
      BY <1>1, <2>5, <2>6, <2>8, <2>9 DEF RunningFits, IsWaiting
  <1> QED
    BY <1>2, <1>3

\* A statement executed for a run that waits for it keeps the run fitting.
LEMMA ExecutionKeepsFit ==
  ASSUME TypeOK, NEW h \in Holder, Fits(h), ExecuteStatement(h)
  PROVE  Fits(h)'
  <1>1. /\ runs[h].answer = "sent" /\ Execute(Kind(h), h) /\ now' = now
        /\ runs'[h] = [runs[h] EXCEPT !.answer = IF Matches(Kind(h), h) THEN "hit" ELSE "miss"]
    BY DEF ExecuteStatement, TypeOK
  <1>2. /\ runs'[h].pc = runs[h].pc /\ runs'[h].sentAt = runs[h].sentAt
        /\ runs'[h].leaseEndsAt = runs[h].leaseEndsAt /\ runs'[h].nextTick = runs[h].nextTick
        /\ runs'[h].isAborted = runs[h].isAborted /\ runs'[h].wasLate = runs[h].wasLate
        /\ runs'[h].answer = IF Matches(Kind(h), h) THEN "hit" ELSE "miss"
    BY <1>1 DEF TypeOK, RunState
  <1>3. ASSUME runs[h].pc \in {"taking", "running"}, runs[h].sentAt <= now PROVE HitHolds(h)'
    <2> SUFFICES ASSUME Matches(Kind(h), h) PROVE HeldUntil(h, runs[h].sentAt + LeaseLength)'
      BY <1>2 DEF HitHolds
    <2>1. lease' = Written(Kind(h), h) /\ Kind(h) \in {"take", "renew"}
      BY <1>1, <1>3 DEF Execute, Kind
    <2>2. CASE Kind(h) = "take"
      BY <1>1, <1>2, <1>3, <2>1, <2>2, RunNumbers DEF Written, TakenLease, HeldUntil
    <2>3. CASE Kind(h) = "renew"
      <3>1. lease.holder = h
        BY <2>3 DEF Matches, CanRenew
      <3>2. lease'.holder = h /\ lease'.expiresAt = now + LeaseLength
        BY <2>1, <2>3, <3>1 DEF Written, RenewedLease, TypeOK
      <3> QED
        BY <1>1, <1>2, <1>3, <3>2, RunNumbers DEF HeldUntil
    <2> QED
      BY <2>1, <2>2, <2>3
  <1>4. CASE runs[h].pc = "taking"
    BY <1>1, <1>2, <1>3, <1>4 DEF Fits, TakeFits, RunningFits, IsRunning
  <1>5. CASE IsRunning(h)
    <2>1. Kind(h) = "renew" /\ IsWaiting(h) /\ RunningFits(h) /\ RenewalFits(h)
      BY <1>1, <1>5 DEF Kind, IsRunning, IsWaiting, Fits, RunningFits
    <2>2. HeldUntil(h, runs[h].leaseEndsAt)'
      <3>1. /\ HeldUntil(h, runs[h].leaseEndsAt) /\ runs[h].leaseEndsAt \in Nat
            /\ runs[h].leaseEndsAt <= now + LeaseLength
        BY <1>5, <2>1, RunNumbers DEF RunningFits
      <3>2. now' < runs[h].leaseEndsAt => lease'.holder = h /\ lease'.expiresAt >= runs[h].leaseEndsAt
        BY <1>1, <2>1, <3>1, StatementKeepsHeld
      <3> QED
        BY <1>2, <3>2 DEF HeldUntil
    <2>3. RenewalFits(h)'
      BY <1>1, <1>2, <1>3, <1>5, <2>1 DEF RenewalFits, IsRunning
    <2>4. \A d \in Nat : TickBeforeEnd(h, d) => TickBeforeEnd(h, d)'
      BY <1>1, <1>2 DEF TickBeforeEnd
    <2>5. RunningFits(h)'
      BY <1>1, <1>2, <1>5, <2>1, <2>2, <2>3, <2>4 DEF RunningFits
    <2> QED
      BY <1>2, <1>5, <2>5 DEF Fits, TakeFits, IsRunning
  <1>6. CASE runs[h].pc # "taking" /\ ~IsRunning(h)
    BY <1>2, <1>6 DEF Fits, TakeFits, RunningFits, IsRunning
  <1> QED
    BY <1>4, <1>5, <1>6

\* The clock waits for whatever is due.
LEMMA ClockKeepsFit ==
  ASSUME TypeOK, NEW h \in Holder, Fits(h), Tick
  PROVE  Fits(h)'
  <1>1. now' = now + 1 /\ lease' = lease /\ runs' = runs
    BY DEF Tick
  <1>2. IsRunning(h) => now + 1 <= runs[h].nextTick
    BY RunNumbers DEF Tick, IsTimerOn, IsRunning
  <1>3. \A t \in Nat : HeldUntil(h, t) => (now' < t => lease'.holder = h /\ lease'.expiresAt >= t)
    BY <1>1, RunNumbers DEF HeldUntil
  <1>4. HitHolds(h) => HitHolds(h)'
    BY <1>1, <1>3, RunNumbers DEF HitHolds, HeldUntil
  <1>5. TakeFits(h)'
    BY <1>1, <1>4, RunNumbers DEF Fits, TakeFits
  <1>6. RunningFits(h)'
    <2> SUFFICES ASSUME IsRunning(h) PROVE RunningFits(h)'
      BY <1>1 DEF RunningFits, IsRunning
    <2>1. RunningFits(h)
      BY DEF Fits
    <2>2. now' <= runs'[h].nextTick /\ runs'[h].nextTick <= now' + RenewInterval
      BY <1>1, <1>2, <2>1, RunNumbers DEF RunningFits
    <2>3. IsWaiting(h)' => RenewalFits(h)'
      BY <1>1, <1>4, <2>1, RunNumbers DEF RunningFits, RenewalFits, IsWaiting
    <2>4. \A d \in Nat : TickBeforeEnd(h, d) => TickBeforeEnd(h, d)'
      BY <1>1 DEF TickBeforeEnd
    <2>5. HeldUntil(h, runs[h].leaseEndsAt)' /\ runs'[h].leaseEndsAt <= now' + LeaseLength
      BY <1>1, <1>3, <2>1, RunNumbers DEF RunningFits, HeldUntil
    <2> QED
      BY <1>1, <2>1, <2>2, <2>3, <2>4, <2>5 DEF RunningFits
  <1> QED
    BY <1>5, <1>6 DEF Fits

\* No run is taking or running at first.
LEMMA FitsInit == Init => RunsFit
  <1> SUFFICES ASSUME Init, NEW h \in Holder PROVE Fits(h)
    BY DEF RunsFit
  <1>1. runs[h].pc = "idle"
    BY DEF Init, IdleRun
  <1> QED
    BY <1>1 DEF Fits, TakeFits, RunningFits, IsRunning

\* Every step keeps every run fitting.
LEMMA FitsStep == ASSUME LeaseIsOrderly, RunsFit, [Next]_vars PROVE RunsFit'
  <1> SUFFICES ASSUME NEW h \in Holder PROVE Fits(h)'
    BY DEF RunsFit
  <1>0. TypeOK /\ Fits(h) /\ runs \in [Holder -> RunState]
    BY DEF LeaseIsOrderly, RunsFit, TypeOK
  <1>1. ASSUME NEW g \in Holder,
               TakeJobLease(g) \/ StartTask(g) \/ RenewTick(g) \/ Renewed(g) \/ RenewalThrows(g)
        PROVE  Fits(h)'
    <2>1. CASE g = h
      BY <1>0, <1>1, <2>1, TakeKeepsFit, TickKeepsFit, AnswerKeepsFit
    <2>2. CASE g # h
      <3>1. runs'[h] = runs[h] /\ now' = now /\ lease' = lease
        BY <1>0, <1>1, <2>2 DEF TakeJobLease, StartTask, RenewTick, Renewed, RenewalThrows
      <3> QED
        BY <1>0, <3>1, FitsKept
    <2> QED
      BY <2>1, <2>2
  <1>2. ASSUME NEW g \in Holder, ExecuteStatement(g) PROVE Fits(h)'
    <2>1. CASE g = h
      BY <1>0, <1>2, <2>1, ExecutionKeepsFit
    <2>2. CASE g # h
      <3>1. runs'[h] = runs[h] /\ now' = now /\ Execute(Kind(g), g)
        BY <1>0, <1>2, <2>2 DEF ExecuteStatement
      <3> QED
        BY <1>0, <2>2, <3>1, KindType, StatementKeepsFit
    <2> QED
      BY <2>1, <2>2
  <1>3. ASSUME NEW g \in Holder, TurnedAway(g) \/ TaskEnds(g) \/ Released(g) \/ RunFails(g)
        PROVE  Fits(h)'
    <2>1. CASE g = h
      <3>1. runs'[h].pc \in {"releasing", "ended"}
        BY <1>0, <1>3, <2>1 DEF TurnedAway, TaskEnds, Released, RunFails, Ended, IdleRun
      <3> QED
        BY <3>1, OtherwiseFits
    <2>2. CASE g # h
      <3>1. runs'[h] = runs[h] /\ now' = now /\ lease' = lease
        BY <1>0, <1>3, <2>2 DEF TurnedAway, TaskEnds, Released, RunFails, Ended
      <3> QED
        BY <1>0, <3>1, FitsKept
    <2> QED
      BY <2>1, <2>2
  <1>4. ASSUME NEW g \in Holder, RenewalFindsLeaseLost(g) PROVE Fits(h)'
    <2>1. CASE g = h
      <3>1. runs'[h].pc = "running" /\ runs'[h].isAborted
        BY <1>0, <1>4, <2>1 DEF RenewalFindsLeaseLost, RunState
      <3> QED
        BY <3>1 DEF Fits, TakeFits, RunningFits, IsRunning
    <2>2. CASE g # h
      <3>1. runs'[h] = runs[h] /\ now' = now /\ lease' = lease
        BY <1>0, <1>4, <2>2 DEF RenewalFindsLeaseLost
      <3> QED
        BY <1>0, <3>1, FitsKept
    <2> QED
      BY <2>1, <2>2
  <1>5. ASSUME NEW s \in leftBehind, ExecuteLeftBehind(s) PROVE Fits(h)'
    <2>1. s.kind \in {"take", "renew", "release"} /\ s.holder \in Holder
      BY <1>0 DEF TypeOK, Statement
    <2>2. runs' = runs /\ now' = now /\ Execute(s.kind, s.holder)
      BY <1>5 DEF ExecuteLeftBehind
    <2>3. CASE s.kind = "release" /\ s.holder = h
      <3>1. runs'[h].pc = "ended"
        BY <2>2, <2>3 DEF LeaseIsOrderly
      <3> QED
        BY <3>1, OtherwiseFits
    <2>4. CASE ~(s.kind = "release" /\ s.holder = h)
      BY <1>0, <2>1, <2>2, <2>4, StatementKeepsFit
    <2> QED
      BY <2>3, <2>4
  <1>6. ASSUME NEW s \in leftBehind, LoseLeftBehind(s) PROVE Fits(h)'
    BY <1>0, <1>6, FitsKept DEF LoseLeftBehind
  <1>7. CASE Tick
    BY <1>0, <1>7, ClockKeepsFit
  <1>8. CASE UNCHANGED vars
    BY <1>0, <1>8, FitsKept DEF vars
  <1> QED
    BY <1>1, <1>2, <1>3, <1>4, <1>5, <1>6, <1>7, <1>8 DEF Next

\* Every run knows when its lease ends, throughout.
THEOREM AlwaysFits == Spec => []RunsFit
  <1>1. Init => LeaseIsOrderly /\ RunsFit
    BY OrderlyInit, FitsInit
  <1>2. LeaseIsOrderly /\ RunsFit /\ [Next]_vars => (LeaseIsOrderly /\ RunsFit)'
    BY OrderlyStep, FitsStep
  <1> QED
    BY <1>1, <1>2, PTL DEF Spec

\* A task that goes on while no answer is late has time left in its lease.
LEMMA FittingIsLive ==
  ASSUME TypeOK, NEW h \in Holder, RunningFits(h), IsRunning(h), ~IsExcused(h)
  PROVE  lease.holder = h /\ lease.expiresAt > now
  <1>1. /\ HeldUntil(h, runs[h].leaseEndsAt)
        /\ now <= runs[h].nextTick /\ runs[h].nextTick <= now + RenewInterval
        /\ IsWaiting(h) => runs[h].sentAt <= now
    BY DEF RunningFits, RenewalFits
  <1>2. PICK d \in Nat : 2 * d < RenewInterval /\ TickBeforeEnd(h, d)
    BY DEF RunningFits, IsExcused
  <1>3. now < runs[h].leaseEndsAt
    <2>1. CASE IsWaiting(h)
      <3>1. 2 * (now - runs[h].sentAt) < RenewInterval
        BY <2>1, RunNumbers DEF IsExcused, IsLate
      <3>2. runs[h].sentAt + RenewInterval <= runs[h].leaseEndsAt + d
        BY <1>2, <2>1 DEF TickBeforeEnd, IsWaiting
      <3> QED
        BY <1>1, <1>2, <2>1, <3>1, <3>2, RunNumbers
    <2>2. CASE ~IsWaiting(h)
      BY <1>1, <1>2, <2>2, RunNumbers DEF TickBeforeEnd, IsWaiting
    <2> QED
      BY <2>1, <2>2
  <1> QED
    BY <1>1, <1>3, RunNumbers DEF HeldUntil

\* A task that was not told to stop has its lease in the database, still live, unless
\* the database is late with its answer: startRenewing renews or aborts before the
\* last renewed lease runs out.  Nothing is assumed of the delays.
THEOREM RunningTaskIsLeased == Spec => []RunningTaskHoldsLiveLease
  <1>1. LeaseIsOrderly /\ RunsFit => RunningTaskHoldsLiveLease
    BY FittingIsLive DEF LeaseIsOrderly, RunsFit, Fits, RunningTaskHoldsLiveLease
  <1> QED
    BY <1>1, AlwaysOrderly, AlwaysFits, PTL

\* The job overlaps itself only while the database is late with an answer of one of
\* the two runs.
THEOREM JobRunsOnce == Spec => []OneRunAtATime
  <1>1. RunningTaskHoldsLiveLease => OneRunAtATime
    BY DEF RunningTaskHoldsLiveLease, OneRunAtATime
  <1> QED
    BY <1>1, RunningTaskIsLeased, PTL

=============================================================================
