-------------------------- MODULE ScanBudgetProofs --------------------------
(***************************************************************************)
(* What ScanBudget promises for any number of Resources, workers and        *)
(* attempts, and any costs and limits.                                     *)
(*                                                                         *)
(* The limits are shared by tasks that are at different places, so the     *)
(* invariant counts the tasks by place: a Budget's reservation is that of  *)
(* its active tasks, and what these tasks may still charge (Owed) fits      *)
(* under the limit that the last of them was let in by.                    *)
(***************************************************************************)
EXTENDS ScanBudget, FiniteSetTheorems, TLAPS

\* How many of an attempt's tasks are at one of some places.
Count(ts, places) == Cardinality({r \in Resource : ts[r] \in places})

Uncounted == {"fetch", "store"}           \* their fetch is not counted yet
CheapAhead == {"fetch", "store", "cheap"} \* they may still pay for a cheap score
PremiumAhead == CheapAhead \cup {"premium"}
Busy == Active \cup {"rejected"}

\* What some tasks may still charge.
Owed(ts) ==
  Count(ts, {"fetch"}) * FetchCost + Count(ts, CheapAhead) * CheapCost
    + Count(ts, PremiumAhead) * PremiumCost

\* A cost that a task at one place may still charge, or has charged.
Due(place, places, cost) == IF place \in places THEN cost ELSE 0

\* What a task at one place may still charge.
Ahead(place) ==
  Due(place, {"fetch"}, FetchCost) + Due(place, CheapAhead, CheapCost)
    + Due(place, PremiumAhead, PremiumCost)

\* What some tasks have reserved.
Reserves(ts) == Count(ts, Active) * Largest

\* A Budget that has no room for one more task beside the other workers'.
Margin == (Concurrency - 1) * Largest
IsNearLimit(attempt) ==
  attempt.isStopped \/ attempt.scored >= MaxScored \/ attempt.spent + Margin >= Limit

\* What holds of an attempt and its tasks when some money was billed.
IsSound(attempt, ts, money) ==
  /\ attempt.reserved = Reserves(ts)
  /\ Count(ts, Busy) <= Concurrency
  /\ attempt.stage \notin {"score", "failed", "dead"} => Count(ts, Active) = 0
  /\ Count(ts, Active) > 0 => attempt.spent + Owed(ts) < Limit + Largest
  /\ attempt.scored + Count(ts, Uncounted) < MaxScored + Concurrency
  /\ (\E r \in Resource : ts[r] = "deferred") => IsNearLimit(attempt)
  /\ attempt.spent <= money

AttemptRecord ==
  [stage : Stage, spent : Nat, scored : Nat, reserved : Nat, isStopped : BOOLEAN]

\* TypeOK without the bounds that only IsSound explains.
Types ==
  /\ attempts \in [Attempt -> AttemptRecord]
  /\ tasks \in [Attempt -> [Resource -> Task]]
  /\ held \in 0..MaxAttempts
  /\ checkpoint \in [spent : Nat, scored : Nat, isWritten : BOOLEAN]
  /\ ingestCost \in 0..MaxIngestCost
  /\ kept \subseteq Resource
  /\ row \in [status : {"running", "finished", "failed", "stopped"}, cost : Nat]
  /\ billed \in Nat

\* Whatever the next attempt or the row starts from was billed.
MoneyFits ==
  /\ checkpoint.spent <= billed /\ checkpoint.scored < MaxScored + Concurrency
  /\ ingestCost <= billed /\ row.cost <= billed

AttemptsAreSound == \A a \in Attempt : IsSound(attempts[a], tasks[a], billed)

IInv == Types /\ AttemptsAreSound /\ MoneyFits

\* One task moves from place to place.
Moves(ts, us, r) == \A q \in Resource \ {r} : us[q] = ts[q]

-----------------------------------------------------------------------------
(* Counting *)

\* Costs and limits are natural numbers.
LEMMA Naturals ==
  /\ Limit \in Nat /\ MaxScored \in Nat /\ MaxScored > 0 /\ Concurrency \in Nat /\ Concurrency > 0
  /\ FetchCost \in Nat /\ CheapCost \in Nat /\ PremiumCost \in Nat
  /\ ContextCost \in Nat /\ BatchCost \in Nat /\ ReportCost \in Nat
  /\ Largest \in Nat /\ Resources \in Nat /\ MaxIngestCost \in Nat
BY BudgetAssumption DEF Largest

\* A count is a natural number.
LEMMA CountIsNat == ASSUME NEW ts, NEW places PROVE Count(ts, places) \in Nat
<1>1. IsFiniteSet(Resource)
  BY FS_Interval, Naturals DEF Resource
<1>2. IsFiniteSet({r \in Resource : ts[r] \in places})
  BY <1>1, FS_Subset
<1>. QED BY <1>2, FS_CardinalityType DEF Count

\* More places hold no fewer tasks.
LEMMA CountGrows ==
  ASSUME NEW ts, NEW places, NEW more, places \subseteq more
  PROVE  Count(ts, places) <= Count(ts, more)
<1>1. IsFiniteSet(Resource)
  BY FS_Interval, Naturals DEF Resource
<1>2. IsFiniteSet({r \in Resource : ts[r] \in more})
  BY <1>1, FS_Subset
<1>. QED BY <1>2, FS_Subset DEF Count

\* Nothing is counted where no task is.
LEMMA CountIsZero ==
  ASSUME NEW ts, NEW places
  PROVE  Count(ts, places) = 0 <=> \A r \in Resource : ts[r] \notin places
<1>1. IsFiniteSet(Resource)
  BY FS_Interval, Naturals DEF Resource
<1>2. IsFiniteSet({r \in Resource : ts[r] \in places})
  BY <1>1, FS_Subset
<1>. QED BY <1>2, FS_EmptySet DEF Count

\* A task that moves is counted where it comes to and not where it was.
LEMMA CountMoves ==
  ASSUME NEW ts, NEW us, NEW r \in Resource, Moves(ts, us, r), NEW places
  PROVE  Count(us, places) + Due(ts[r], places, 1)
           = Count(ts, places) + Due(us[r], places, 1)
<1> DEFINE before == {q \in Resource : ts[q] \in places}
           after == {q \in Resource : us[q] \in places}
           rest == before \ {r}
<1>1. IsFiniteSet(Resource)
  BY FS_Interval, Naturals DEF Resource
<1>2. IsFiniteSet(before) /\ IsFiniteSet(rest)
  BY <1>1, FS_Subset
<1>3. Cardinality(before) \in Nat /\ Cardinality(rest) \in Nat
  BY <1>2, FS_CardinalityType
<1>4. Cardinality(rest) = IF r \in before THEN Cardinality(before) - 1 ELSE Cardinality(before)
  BY <1>2, FS_RemoveElement
<1>5. Cardinality(before) = Cardinality(rest) + Due(ts[r], places, 1)
  BY <1>3, <1>4 DEF Due
<1>6. Cardinality(rest \cup {r}) = Cardinality(rest) + 1
  BY <1>2, FS_AddElement
<1>7. Cardinality(after) = Cardinality(rest) + Due(us[r], places, 1)
  <2>1. CASE us[r] \in places
    <3>1. after = rest \cup {r}
      BY <2>1 DEF Moves
    <3>. QED BY <3>1, <1>6, <2>1 DEF Due
  <2>2. CASE us[r] \notin places
    <3>1. after = rest
      BY <2>2 DEF Moves
    <3>. QED BY <3>1, <1>3, <2>2 DEF Due
  <2>. QED BY <2>1, <2>2
<1>8. Count(ts, places) = Cardinality(before) /\ Count(us, places) = Cardinality(after)
  BY DEF Count
<1> HIDE DEF before, after, rest
<1>. QED BY <1>3, <1>5, <1>7, <1>8 DEF Due

\* One more of a cost.
LEMMA OneMore == ASSUME NEW n \in Nat, NEW x \in Nat PROVE n * x \in Nat /\ (n + 1) * x = n * x + x
OBVIOUS

\* Fewer of a cost are no more.
LEMMA NoMore == ASSUME NEW m \in Nat, NEW n \in Nat, NEW x \in Nat, m <= n PROVE m * x <= n * x
<1>1. PICK d \in Nat : n = m + d
  <2>1. n - m \in Nat /\ n = m + (n - m)
    OBVIOUS
  <2>. QED BY <2>1
<1>2. n * x = m * x + d * x
  BY <1>1
<1>3. d * x \in Nat /\ m * x \in Nat
  OBVIOUS
<1>. QED BY <1>2, <1>3

\* A cost that is owed by the tasks at some places, when one task moves.
LEMMA CostMoves ==
  ASSUME NEW ts, NEW us, NEW r \in Resource, Moves(ts, us, r), NEW places, NEW cost \in Nat
  PROVE  Count(us, places) * cost + Due(ts[r], places, cost)
           = Count(ts, places) * cost + Due(us[r], places, cost)
<1> DEFINE m == Count(us, places)
           n == Count(ts, places)
<1>1. m \in Nat /\ n \in Nat
  BY CountIsNat
<1>2. m + Due(ts[r], places, 1) = n + Due(us[r], places, 1)
  BY CountMoves
<1>3. (m + 1) * cost = m * cost + cost /\ (n + 1) * cost = n * cost + cost /\ m * cost \in Nat /\ n * cost \in Nat
  BY <1>1, OneMore
<1> HIDE DEF m, n
<1>4. CASE ts[r] \in places /\ us[r] \notin places
  <2>1. n = m + 1
    BY <1>1, <1>2, <1>4 DEF Due
  <2>. QED BY <2>1, <1>3, <1>4 DEF m, n, Due
<1>5. CASE ts[r] \notin places /\ us[r] \in places
  <2>1. m = n + 1
    BY <1>1, <1>2, <1>5 DEF Due
  <2>. QED BY <2>1, <1>3, <1>5 DEF m, n, Due
<1>6. CASE ts[r] \in places <=> us[r] \in places
  <2>1. m = n
    BY <1>1, <1>2, <1>6 DEF Due
  <2>. QED BY <2>1, <1>3, <1>6 DEF m, n, Due
<1>. QED BY <1>4, <1>5, <1>6

\* What is owed, when one task moves.
LEMMA OwedMoves ==
  ASSUME NEW ts, NEW us, NEW r \in Resource, Moves(ts, us, r)
  PROVE  /\ Owed(ts) \in Nat /\ Owed(us) \in Nat
         /\ Owed(us) + Ahead(ts[r]) = Owed(ts) + Ahead(us[r])
<1> DEFINE f == Count(ts, {"fetch"}) * FetchCost
           g == Count(us, {"fetch"}) * FetchCost
           c == Count(ts, CheapAhead) * CheapCost
           d == Count(us, CheapAhead) * CheapCost
           p == Count(ts, PremiumAhead) * PremiumCost
           q == Count(us, PremiumAhead) * PremiumCost
<1>1. f \in Nat /\ g \in Nat /\ c \in Nat /\ d \in Nat /\ p \in Nat /\ q \in Nat
  BY CountIsNat, Naturals, OneMore
<1>2. g + Due(ts[r], {"fetch"}, FetchCost) = f + Due(us[r], {"fetch"}, FetchCost)
  BY CostMoves, Naturals
<1>3. d + Due(ts[r], CheapAhead, CheapCost) = c + Due(us[r], CheapAhead, CheapCost)
  BY CostMoves, Naturals
<1>4. q + Due(ts[r], PremiumAhead, PremiumCost) = p + Due(us[r], PremiumAhead, PremiumCost)
  BY CostMoves, Naturals
<1>5. Owed(ts) = f + c + p /\ Owed(us) = g + d + q
  BY DEF Owed
<1> HIDE DEF f, g, c, d, p, q
<1>6. Owed(ts) \in Nat /\ Owed(us) \in Nat /\ Owed(us) + Ahead(ts[r]) = Owed(ts) + Ahead(us[r])
  BY <1>1, <1>2, <1>3, <1>4, <1>5, Naturals DEF Ahead, Due
<1>. QED BY <1>6

\* Active tasks owe no more than they reserved.
LEMMA OwedIsReserved ==
  ASSUME NEW ts
  PROVE  Owed(ts) \in Nat /\ Owed(ts) <= Count(ts, Active) * Largest
<1> DEFINE n == Count(ts, Active)
           f == Count(ts, {"fetch"})
           c == Count(ts, CheapAhead)
           p == Count(ts, PremiumAhead)
<1>1. n \in Nat /\ f \in Nat /\ c \in Nat /\ p \in Nat
  BY CountIsNat
<1>2. f <= n /\ c <= n /\ p <= n
  BY CountGrows DEF CheapAhead, PremiumAhead, Active
<1>3. Owed(ts) = f * FetchCost + c * CheapCost + p * PremiumCost
  BY DEF Owed
<1> HIDE DEF n, f, c, p
<1>4. f * FetchCost <= n * FetchCost /\ c * CheapCost <= n * CheapCost /\ p * PremiumCost <= n * PremiumCost
  BY <1>1, <1>2, NoMore, Naturals
<1>5. /\ f * FetchCost \in Nat /\ c * CheapCost \in Nat /\ p * PremiumCost \in Nat
      /\ n * FetchCost \in Nat /\ n * CheapCost \in Nat /\ n * PremiumCost \in Nat
  BY <1>1, OneMore, Naturals
<1>6. n * Largest = n * FetchCost + n * CheapCost + n * PremiumCost
  BY <1>1, Naturals DEF Largest
<1>. QED BY <1>3, <1>4, <1>5, <1>6 DEF n

\* Counts do not grow where no task arrives.
LEMMA CountShrinks ==
  ASSUME NEW ts, NEW us, NEW places, \A r \in Resource : us[r] \in places => ts[r] \in places
  PROVE  Count(us, places) <= Count(ts, places)
<1>1. IsFiniteSet(Resource)
  BY FS_Interval, Naturals DEF Resource
<1>2. IsFiniteSet({r \in Resource : ts[r] \in places})
  BY <1>1, FS_Subset
<1>3. {r \in Resource : us[r] \in places} \in SUBSET {r \in Resource : ts[r] \in places}
  OBVIOUS
<1>. QED BY <1>2, <1>3, FS_Subset DEF Count

\* The margin is the reservation of the other workers.
LEMMA MarginIsReserved ==
  ASSUME NEW ts
  PROVE  /\ Margin \in Nat /\ Reserves(ts) \in Nat
         /\ Count(ts, Active) = 0 => Reserves(ts) = 0
         /\ Count(ts, Active) < Concurrency => Reserves(ts) <= Margin
<1>1. Concurrency - 1 \in Nat
  BY Naturals
<1>2. Margin \in Nat
  BY <1>1, OneMore, Naturals DEF Margin
<1>3. Count(ts, Active) \in Nat
  BY CountIsNat
<1>4. Reserves(ts) \in Nat
  BY <1>3, OneMore, Naturals DEF Reserves
<1>5. Count(ts, Active) = 0 => Reserves(ts) = 0
  BY Naturals DEF Reserves
<1>6. ASSUME Count(ts, Active) < Concurrency PROVE Reserves(ts) <= Margin
  <2>1. Count(ts, Active) <= Concurrency - 1
    BY <1>3, <1>6, Naturals
  <2>. QED BY <1>1, <1>3, <2>1, NoMore, Naturals DEF Reserves, Margin
<1>. QED BY <1>2, <1>4, <1>5, <1>6

\* What is reserved, when one task moves.
LEMMA ReservesMoves ==
  ASSUME NEW ts, NEW us, NEW r \in Resource, Moves(ts, us, r)
  PROVE  Reserves(us) + Due(ts[r], Active, Largest) = Reserves(ts) + Due(us[r], Active, Largest)
BY CostMoves, Naturals DEF Reserves

-----------------------------------------------------------------------------
(* The steps of a task *)

\* A task that goes on, or ends, pays no more than it owed and releases what it reserved.
LEMMA TaskGoesOn ==
  ASSUME NEW at \in AttemptRecord, NEW bt \in AttemptRecord, NEW ts, NEW us,
         NEW r \in Resource, Moves(ts, us, r), NEW money \in Nat, NEW cost \in Nat,
         IsSound(at, ts, money),
         ts[r] \in Active, us[r] \in Busy \cup {"ended"},
         bt.stage \in {"score", "failed", "dead"},
         at.isStopped => bt.isStopped,
         bt.spent = at.spent + cost, cost + Ahead(us[r]) <= Ahead(ts[r]),
         at.scored <= bt.scored,
         bt.scored + Due(us[r], Uncounted, 1) <= at.scored + Due(ts[r], Uncounted, 1),
         bt.reserved = IF us[r] \in Active THEN at.reserved ELSE Released(at.reserved)
  PROVE  IsSound(bt, us, money + cost) /\ bt.spent < Limit + Largest
<1>1. /\ at.spent \in Nat /\ bt.spent \in Nat /\ at.scored \in Nat /\ bt.scored \in Nat
      /\ at.reserved \in Nat /\ bt.reserved \in Nat
  BY DEF AttemptRecord
<1>2. /\ Count(ts, Active) \in Nat /\ Count(us, Active) \in Nat /\ Count(ts, Busy) \in Nat /\ Count(us, Busy) \in Nat
      /\ Count(ts, Uncounted) \in Nat /\ Count(us, Uncounted) \in Nat
      /\ Reserves(ts) \in Nat /\ Reserves(us) \in Nat /\ Owed(ts) \in Nat /\ Owed(us) \in Nat
  <2>1. Owed(ts) \in Nat /\ Owed(us) \in Nat
    BY OwedIsReserved
  <2>2. Reserves(ts) \in Nat /\ Reserves(us) \in Nat
    BY MarginIsReserved
  <2>. QED BY <2>1, <2>2, CountIsNat
<1>3. Count(ts, Active) > 0
  <2>1. Count(ts, Active) # 0
    BY CountIsZero
  <2>. QED BY <1>2, <2>1
<1>4. bt.reserved = Reserves(us)
  <2>1. Reserves(us) + Due(ts[r], Active, Largest) = Reserves(ts) + Due(us[r], Active, Largest)
    BY ReservesMoves
  <2>2. at.reserved = Reserves(ts)
    BY DEF IsSound
  <2>3. CASE us[r] \in Active
    BY <1>2, <2>1, <2>2, <2>3, Naturals DEF Due
  <2>4. CASE us[r] \notin Active
    <3>1. Reserves(us) + Largest = Reserves(ts)
      BY <1>2, <2>1, <2>4, Naturals DEF Due
    <3>. QED BY <1>2, <2>2, <2>4, <3>1, Naturals DEF Released
  <2>. QED BY <2>3, <2>4
<1>5. Count(us, Busy) <= Concurrency
  <2>1. Count(us, Busy) <= Count(ts, Busy)
    BY CountShrinks DEF Moves, Busy
  <2>. QED BY <1>2, <2>1, Naturals DEF IsSound
<1>6. bt.spent + Owed(us) < Limit + Largest
  <2>1. Owed(us) + Ahead(ts[r]) = Owed(ts) + Ahead(us[r])
    BY OwedMoves
  <2>2. Ahead(ts[r]) \in Nat /\ Ahead(us[r]) \in Nat
    BY Naturals DEF Ahead, Due
  <2>3. at.spent + Owed(ts) < Limit + Largest
    BY <1>3 DEF IsSound
  <2>. QED BY <1>1, <1>2, <2>1, <2>2, <2>3, Naturals
<1>7. bt.scored + Count(us, Uncounted) < MaxScored + Concurrency
  <2>1. Count(us, Uncounted) + Due(ts[r], Uncounted, 1) = Count(ts, Uncounted) + Due(us[r], Uncounted, 1)
    BY CountMoves
  <2>2. at.scored + Count(ts, Uncounted) < MaxScored + Concurrency
    BY DEF IsSound
  <2>3. Due(ts[r], Uncounted, 1) \in Nat /\ Due(us[r], Uncounted, 1) \in Nat
    BY DEF Due
  <2>. QED BY <1>1, <1>2, <2>1, <2>2, <2>3, Naturals
<1>8. (\E q \in Resource : us[q] = "deferred") => IsNearLimit(bt)
  <2>1. SUFFICES ASSUME NEW q \in Resource, us[q] = "deferred" PROVE IsNearLimit(bt)
    OBVIOUS
  <2>2. ts[q] = "deferred"
    BY <2>1 DEF Moves, Busy, Active
  <2>3. IsNearLimit(at)
    BY <2>2 DEF IsSound
  <2>. QED BY <1>1, <2>3, MarginIsReserved, Naturals DEF IsNearLimit
<1>9. bt.spent <= money + cost
  BY <1>1 DEF IsSound
<1>. QED BY <1>1, <1>2, <1>4, <1>5, <1>6, <1>7, <1>8, <1>9, Naturals DEF IsSound

\* A task that starts leaves the others' reservations under the limit.
LEMMA TaskStarts ==
  ASSUME NEW at \in AttemptRecord, NEW bt \in AttemptRecord, NEW ts, NEW us,
         NEW r \in Resource, Moves(ts, us, r), NEW money \in Nat,
         IsSound(at, ts, money),
         ts[r] = "waiting", us[r] = "fetch", Count(ts, Busy) < Concurrency,
         at.stage \in {"score", "failed"}, bt.stage = at.stage,
         at.spent + at.reserved < Limit, at.scored < MaxScored,
         bt.spent = at.spent, bt.scored = at.scored, bt.isStopped = at.isStopped,
         bt.reserved = at.reserved + Largest
  PROVE  IsSound(bt, us, money)
<1>1. at.spent \in Nat /\ at.scored \in Nat /\ at.reserved \in Nat
  BY DEF AttemptRecord
<1>2. /\ Count(ts, Busy) \in Nat /\ Count(us, Busy) \in Nat
      /\ Count(ts, Uncounted) \in Nat /\ Count(us, Uncounted) \in Nat
  BY CountIsNat
<1>3. Owed(ts) \in Nat /\ Owed(us) \in Nat /\ Owed(ts) <= Reserves(ts)
  BY OwedIsReserved DEF Reserves
<1>4. Reserves(ts) \in Nat /\ Reserves(us) \in Nat
  BY MarginIsReserved
<1>5. bt.reserved = Reserves(us)
  <2>1. Reserves(us) + Due(ts[r], Active, Largest) = Reserves(ts) + Due(us[r], Active, Largest)
    BY ReservesMoves
  <2>2. Reserves(us) = Reserves(ts) + Largest
    BY <1>4, <2>1, Naturals DEF Due, Active
  <2>. QED BY <2>2 DEF IsSound
<1>6. Count(us, Busy) <= Concurrency
  <2>1. Count(us, Busy) + Due(ts[r], Busy, 1) = Count(ts, Busy) + Due(us[r], Busy, 1)
    BY CountMoves
  <2>2. Due(ts[r], Busy, 1) = 0 /\ Due(us[r], Busy, 1) = 1
    BY DEF Due, Busy, Active
  <2>. QED BY <1>2, <2>1, <2>2, Naturals
<1>7. bt.spent + Owed(us) < Limit + Largest
  <2>1. Owed(us) + Ahead(ts[r]) = Owed(ts) + Ahead(us[r])
    BY OwedMoves
  <2>2. Ahead(ts[r]) = 0 /\ Ahead(us[r]) = Largest
    BY Naturals DEF Ahead, Due, CheapAhead, PremiumAhead, Largest
  <2>3. at.reserved = Reserves(ts)
    BY DEF IsSound
  <2>. QED BY <1>1, <1>3, <1>4, <2>1, <2>2, <2>3, Naturals
<1>8. bt.scored + Count(us, Uncounted) < MaxScored + Concurrency
  <2>1. Count(us, Uncounted) <= Count(us, Busy)
    BY CountGrows DEF Uncounted, Busy, Active
  <2>. QED BY <1>1, <1>2, <1>6, <2>1, Naturals
<1>9. (\E q \in Resource : us[q] = "deferred") => IsNearLimit(bt)
  <2>1. (\E q \in Resource : us[q] = "deferred") => \E q \in Resource : ts[q] = "deferred"
    BY DEF Moves
  <2>. QED BY <2>1 DEF IsSound, IsNearLimit
<1>. QED BY <1>5, <1>6, <1>7, <1>8, <1>9 DEF IsSound

\* A task that is put off is put off near a limit.
LEMMA TaskIsDeferred ==
  ASSUME NEW at \in AttemptRecord, NEW ts, NEW us,
         NEW r \in Resource, Moves(ts, us, r), NEW money \in Nat,
         IsSound(at, ts, money),
         ts[r] = "waiting", us[r] = "deferred", Count(ts, Busy) < Concurrency,
         \/ at.isStopped \/ ~(at.spent < Limit) \/ ~(at.scored < MaxScored)
         \/ ~(at.spent + at.reserved < Limit)
  PROVE  IsSound(at, us, money)
<1>1. at.spent \in Nat /\ at.scored \in Nat /\ at.reserved \in Nat
  BY DEF AttemptRecord
<1>2. Count(us, Active) = Count(ts, Active) /\ Count(us, Busy) = Count(ts, Busy) /\ Count(us, Uncounted) = Count(ts, Uncounted)
  <2>1. ASSUME NEW places, "waiting" \notin places, "deferred" \notin places
        PROVE  Count(us, places) = Count(ts, places)
    <3>1. Count(us, places) + Due(ts[r], places, 1) = Count(ts, places) + Due(us[r], places, 1)
      BY CountMoves
    <3>2. Count(us, places) \in Nat /\ Count(ts, places) \in Nat
      BY CountIsNat
    <3>. QED BY <2>1, <3>1, <3>2 DEF Due
  <2>. QED BY <2>1 DEF Active, Busy, Uncounted
<1>3. Owed(us) = Owed(ts)
  <2>1. Owed(us) + Ahead(ts[r]) = Owed(ts) + Ahead(us[r])
    BY OwedMoves
  <2>2. Ahead(ts[r]) = 0 /\ Ahead(us[r]) = 0
    BY DEF Ahead, Due, CheapAhead, PremiumAhead
  <2>3. Owed(ts) \in Nat /\ Owed(us) \in Nat
    BY OwedIsReserved
  <2>. QED BY <2>1, <2>2, <2>3
<1>4. Reserves(us) = Reserves(ts)
  BY <1>2 DEF Reserves
<1>5. IsNearLimit(at)
  <2>1. CASE ~(at.spent + at.reserved < Limit)
    <3>1. Count(ts, Active) <= Count(ts, Busy)
      BY CountGrows DEF Busy
    <3>2. Count(ts, Active) \in Nat /\ Count(ts, Busy) \in Nat
      BY CountIsNat
    <3>3. Margin \in Nat /\ Reserves(ts) \in Nat /\ Reserves(ts) <= Margin
      BY <3>1, <3>2, MarginIsReserved, Naturals
    <3>4. at.reserved = Reserves(ts)
      BY DEF IsSound
    <3>. QED BY <1>1, <2>1, <3>3, <3>4, Naturals DEF IsNearLimit
  <2>2. CASE at.spent + at.reserved < Limit
    <3>1. Margin \in Nat
      BY MarginIsReserved
    <3>. QED BY <1>1, <2>2, <3>1, Naturals DEF IsNearLimit
  <2>. QED BY <2>1, <2>2
<1>. QED BY <1>2, <1>3, <1>4, <1>5 DEF IsSound

\* An attempt goes on beside its tasks: it pays only while none is active.
LEMMA AttemptGoesOn ==
  ASSUME NEW at \in AttemptRecord, NEW bt \in AttemptRecord, NEW ts, NEW money \in Nat, NEW more \in Nat,
         NEW cost \in Nat, IsSound(at, ts, money), money + cost <= more,
         bt.spent = at.spent + cost, bt.scored = at.scored, bt.reserved = at.reserved,
         at.isStopped => bt.isStopped,
         cost = 0 \/ Count(ts, Active) = 0,
         bt.stage \in {"score", "failed", "dead", at.stage} \/ Count(ts, Active) = 0
  PROVE  IsSound(bt, ts, more)
<1>1. at.spent \in Nat /\ at.scored \in Nat
  BY DEF AttemptRecord
<1>2. IsNearLimit(at) => IsNearLimit(bt)
  BY <1>1, MarginIsReserved, Naturals DEF IsNearLimit
<1>3. Owed(ts) \in Nat
  BY OwedIsReserved
<1>. QED BY <1>1, <1>2, <1>3, Naturals DEF IsSound

\* An attempt whose tasks all wait or have ended owes nothing.
LEMMA NothingRuns ==
  ASSUME NEW at \in AttemptRecord, NEW ts, NEW money \in Nat,
         \A r \in Resource : ts[r] \in {"waiting", "ended"},
         at.reserved = 0, at.scored < MaxScored + Concurrency, at.spent <= money
  PROVE  IsSound(at, ts, money)
<1>1. Count(ts, Active) = 0 /\ Count(ts, Busy) = 0 /\ Count(ts, Uncounted) = 0
  BY CountIsZero DEF Active, Busy, Uncounted
<1>2. Reserves(ts) = 0
  BY <1>1, MarginIsReserved
<1>3. at.scored \in Nat
  BY DEF AttemptRecord
<1>. QED BY <1>1, <1>2, <1>3, Naturals DEF IsSound

-----------------------------------------------------------------------------
(* Steps of one attempt *)

\* Only the attempt a and its tasks change.
OthersStay(a) ==
  /\ attempts' \in [Attempt -> AttemptRecord]
  /\ tasks' \in [Attempt -> [Resource -> Task]]
  /\ \A b \in Attempt \ {a} : attempts'[b] = attempts[b] /\ tasks'[b] = tasks[b]

\* The attempt's scoring stays near the limit.
StaysNearLimit(a) ==
  RunsTasks(a) /\ attempts'[a].spent > attempts[a].spent => attempts'[a].spent < Limit + Largest

Keeps == IInv' /\ \A b \in Attempt : StaysNearLimit(b)

\* More money only helps the other attempts.
LEMMA SoundAttemptIsEnough ==
  ASSUME Types, AttemptsAreSound, NEW a \in Attempt, OthersStay(a),
         billed' \in Nat, billed <= billed', IsSound(attempts'[a], tasks'[a], billed')
  PROVE  /\ AttemptsAreSound'
         /\ \A b \in Attempt \ {a} : StaysNearLimit(b)
<1>1. ASSUME NEW b \in Attempt, b # a PROVE IsSound(attempts'[b], tasks'[b], billed')
  <2>1. attempts[b] \in AttemptRecord /\ attempts'[b] = attempts[b] /\ tasks'[b] = tasks[b] /\ billed \in Nat
    BY <1>1 DEF Types, OthersStay
  <2>2. attempts[b].spent \in Nat
    BY <2>1 DEF AttemptRecord
  <2>3. IsSound(attempts[b], tasks[b], billed)
    BY DEF AttemptsAreSound
  <2>. QED BY <2>1, <2>2, <2>3 DEF IsSound
<1>2. \A b \in Attempt : IsSound(attempts'[b], tasks'[b], billed')
  BY <1>1
<1>3. \A b \in Attempt \ {a} : StaysNearLimit(b)
  <2>1. ASSUME NEW b \in Attempt \ {a} PROVE StaysNearLimit(b)
    <3>1. attempts[b] \in AttemptRecord /\ attempts'[b] = attempts[b]
      BY DEF Types, OthersStay
    <3>2. attempts[b].spent \in Nat
      BY <3>1 DEF AttemptRecord
    <3>. QED BY <3>1, <3>2 DEF StaysNearLimit
  <2>. QED BY <2>1
<1>. QED BY <1>2, <1>3 DEF AttemptsAreSound

\* One task of one attempt moves.
LEMMA BecomesMoves ==
  ASSUME Types, NEW a \in Attempt, NEW r \in Resource, NEW place \in Task, Becomes(a, r, place)
  PROVE  /\ tasks' \in [Attempt -> [Resource -> Task]]
         /\ \A b \in Attempt \ {a} : tasks'[b] = tasks[b]
         /\ Moves(tasks[a], tasks'[a], r) /\ tasks'[a][r] = place
BY DEF Types, Becomes, Moves

\* A task goes to a place and pays a cost, out of what it owes.
GoesOn(a, r, place, cost) ==
  /\ RunsTasks(a) /\ tasks[a][r] \in Active /\ Becomes(a, r, place) /\ place \in Busy \cup {"ended"}
  /\ billed' = billed + cost
  /\ attempts' \in [Attempt -> AttemptRecord]
  /\ \A b \in Attempt \ {a} : attempts'[b] = attempts[b]
  /\ attempts'[a].stage \in {attempts[a].stage, "failed"}
  /\ attempts'[a].isStopped = attempts[a].isStopped
  /\ attempts'[a].spent = attempts[a].spent + cost /\ cost + Ahead(place) <= Ahead(tasks[a][r])
  /\ attempts[a].scored <= attempts'[a].scored
  /\ attempts'[a].scored + Due(place, Uncounted, 1) <= attempts[a].scored + Due(tasks[a][r], Uncounted, 1)
  /\ attempts'[a].reserved = IF place \in Active THEN attempts[a].reserved ELSE Released(attempts[a].reserved)

\* A task that goes on or ends keeps the invariant and the limit.
LEMMA TaskStepKeeps ==
  ASSUME Types, AttemptsAreSound, NEW a \in Attempt, NEW r \in Resource, NEW place, NEW cost \in Nat,
         GoesOn(a, r, place, cost)
  PROVE  /\ AttemptsAreSound' /\ tasks' \in [Attempt -> [Resource -> Task]]
         /\ \A b \in Attempt : StaysNearLimit(b)
<1>1. place \in Task
  BY DEF GoesOn, Busy, Task, Active
<1>2. /\ tasks' \in [Attempt -> [Resource -> Task]] /\ OthersStay(a)
      /\ Moves(tasks[a], tasks'[a], r) /\ tasks'[a][r] = place
  BY <1>1, BecomesMoves DEF OthersStay, GoesOn
<1>3. attempts[a] \in AttemptRecord /\ attempts'[a] \in AttemptRecord /\ billed \in Nat /\ billed' \in Nat /\ billed <= billed'
  BY DEF Types, GoesOn
<1>4. IsSound(attempts[a], tasks[a], billed)
  BY DEF AttemptsAreSound
<1>5. attempts'[a].stage \in {"score", "failed", "dead"}
  BY DEF RunsTasks, GoesOn
<1>6. IsSound(attempts'[a], tasks'[a], billed + cost) /\ attempts'[a].spent < Limit + Largest
  BY <1>2, <1>3, <1>4, <1>5, TaskGoesOn DEF GoesOn
<1>7. IsSound(attempts'[a], tasks'[a], billed')
  BY <1>6 DEF GoesOn
<1>8. AttemptsAreSound' /\ \A b \in Attempt \ {a} : StaysNearLimit(b)
  BY <1>2, <1>3, <1>7, SoundAttemptIsEnough
<1>. QED BY <1>2, <1>6, <1>8 DEF StaysNearLimit

\* What a task at each place may still charge.
LEMMA AheadOf ==
  /\ Ahead("fetch") = Largest /\ Ahead("store") = CheapCost + PremiumCost /\ Ahead("cheap") = CheapCost + PremiumCost
  /\ Ahead("premium") = PremiumCost /\ Ahead("save") = 0 /\ Ahead("ended") = 0 /\ Ahead("rejected") = 0
BY Naturals DEF Ahead, Due, CheapAhead, PremiumAhead, Largest

\* Releasing leaves a natural number.
LEMMA ReleasedIsNat == ASSUME NEW n \in Nat PROVE Released(n) \in Nat
BY Naturals DEF Released

\* The rows and counters that task steps leave alone still fit more money.
LEMMA RestKeeps ==
  ASSUME Types, MoneyFits, AttemptsAreSound', \A b \in Attempt : StaysNearLimit(b),
         attempts' \in [Attempt -> AttemptRecord], tasks' \in [Attempt -> [Resource -> Task]],
         held' \in 0..MaxAttempts, kept' \subseteq Resource, billed' \in Nat, billed <= billed',
         UNCHANGED <<checkpoint, ingestCost, row>>
  PROVE  Keeps
<1>1. Types'
  BY DEF Types
<1>2. MoneyFits'
  <2>1. checkpoint.spent \in Nat /\ ingestCost \in Nat /\ row.cost \in Nat /\ billed \in Nat
    BY Naturals DEF Types
  <2>. QED BY <2>1 DEF MoneyFits
<1>. QED BY <1>1, <1>2 DEF Keeps, IInv

\* A task step keeps everything.
LEMMA GoesOnKeeps ==
  ASSUME IInv, NEW a \in Attempt, NEW r \in Resource, NEW place, NEW cost \in Nat,
         GoesOn(a, r, place, cost), held' \in 0..MaxAttempts, kept' \subseteq Resource,
         UNCHANGED <<checkpoint, ingestCost, row>>
  PROVE  Keeps
<1>1. Types /\ AttemptsAreSound /\ MoneyFits
  BY DEF IInv
<1>2. /\ AttemptsAreSound' /\ tasks' \in [Attempt -> [Resource -> Task]]
      /\ \A b \in Attempt : StaysNearLimit(b)
  BY <1>1, TaskStepKeeps
<1>3. billed' \in Nat /\ billed <= billed'
  BY <1>1 DEF Types, GoesOn
<1>4. attempts' \in [Attempt -> AttemptRecord]
  BY DEF GoesOn
<1>. QED BY <1>1, <1>2, <1>3, <1>4, RestKeeps

\* An attempt and the counters that a task changes.
LEMMA AttemptType ==
  ASSUME Types, NEW a \in Attempt
  PROVE  /\ attempts[a] \in AttemptRecord /\ attempts[a].spent \in Nat /\ attempts[a].scored \in Nat
         /\ attempts[a].reserved \in Nat /\ Released(attempts[a].reserved) \in Nat
         /\ billed \in Nat /\ held \in 0..MaxAttempts /\ kept \subseteq Resource
BY ReleasedIsNat DEF Types, AttemptRecord

\* A fetch charges what it owes for it.
LEMMA FetchIsChargedKeeps ==
  ASSUME IInv, NEW a \in Attempt, NEW r \in Resource, FetchIsCharged(a, r)
  PROVE  Keeps
<1>1. Types
  BY DEF IInv
<1>2. FetchCost + Ahead("store") <= Ahead("fetch") /\ Due("store", Uncounted, 1) = Due("fetch", Uncounted, 1)
  BY AheadOf, Naturals DEF Largest, Due, Uncounted
<1>3. Due("fetch", Uncounted, 1) \in Nat
  BY DEF Due
<1>4. attempts' = [attempts EXCEPT ![a].spent = @ + FetchCost]
  BY DEF FetchIsCharged, Charged
<1>5. GoesOn(a, r, "store", FetchCost)
  BY <1>1, <1>2, <1>3, <1>4, AttemptType, Naturals DEF GoesOn, FetchIsCharged, Busy, Active, AttemptRecord, Types
<1>. QED BY <1>1, <1>5, AttemptType, GoesOnKeeps, Naturals DEF FetchIsCharged

\* What is fetched is counted, and a task without text releases what it reserved.
LEMMA FetchReturnsKeeps ==
  ASSUME IInv, NEW a \in Attempt, NEW r \in Resource, FetchReturns(a, r)
  PROVE  Keeps
<1>1. Types
  BY DEF IInv
<1>2. /\ Ahead("cheap") <= Ahead("store") /\ Ahead("cheap") <= Ahead("fetch") /\ Ahead("cheap") \in Nat
      /\ Ahead("ended") <= Ahead("store") /\ Ahead("ended") <= Ahead("fetch") /\ Ahead("ended") \in Nat
  BY AheadOf, Naturals DEF Largest
<1>3. /\ Due("store", Uncounted, 1) = 1 /\ Due("fetch", Uncounted, 1) = 1
      /\ Due("cheap", Uncounted, 1) = 0 /\ Due("ended", Uncounted, 1) = 0
  BY DEF Due, Uncounted
<1>4. PICK hasText \in BOOLEAN :
        /\ attempts' = [attempts EXCEPT
             ![a].scored = @ + 1, ![a].reserved = IF hasText THEN @ ELSE Released(@)]
        /\ Becomes(a, r, IF hasText THEN "cheap" ELSE "ended")
  BY DEF FetchReturns
<1> DEFINE reserved == IF hasText THEN attempts[a].reserved ELSE Released(attempts[a].reserved)
           counted == [attempts[a] EXCEPT !.scored = @ + 1, !.reserved = reserved]
<1>5. attempts' = [attempts EXCEPT ![a] = counted]
  BY <1>1, <1>4 DEF Types, AttemptRecord
<1>6. reserved \in Nat /\ attempts[a].scored + 1 \in Nat /\ attempts[a] \in AttemptRecord
  BY <1>1, AttemptType
<1> HIDE DEF reserved
<1>7. counted \in AttemptRecord
  BY <1>6 DEF AttemptRecord
<1> USE DEF reserved
<1>8. /\ attempts' \in [Attempt -> AttemptRecord] /\ \A b \in Attempt \ {a} : attempts'[b] = attempts[b]
      /\ attempts'[a].stage = attempts[a].stage /\ attempts'[a].isStopped = attempts[a].isStopped
      /\ attempts'[a].spent = attempts[a].spent /\ attempts'[a].scored = attempts[a].scored + 1
      /\ attempts'[a].reserved = reserved
  <2>1. attempts'[a] = counted
    BY <1>1, <1>5 DEF Types
  <2>2. attempts \in [Attempt -> AttemptRecord] /\ attempts[a] \in AttemptRecord
    BY <1>1 DEF Types
  <2>. QED BY <1>5, <1>7, <2>1, <2>2 DEF AttemptRecord
<1> HIDE DEF counted
<1>9. CASE hasText
  <2>1. GoesOn(a, r, "cheap", 0)
    BY <1>1, <1>2, <1>3, <1>4, <1>9, <1>8, AttemptType DEF GoesOn, FetchReturns, Busy, Active
  <2>. QED BY <1>1, <2>1, AttemptType, GoesOnKeeps DEF FetchReturns
<1>10. CASE ~hasText
  <2>1. GoesOn(a, r, "ended", 0)
    BY <1>1, <1>2, <1>3, <1>4, <1>10, <1>8, AttemptType DEF GoesOn, FetchReturns, Busy, Active
  <2>. QED BY <1>1, <2>1, AttemptType, GoesOnKeeps DEF FetchReturns
<1>. QED BY <1>9, <1>10

\* A cheap score goes on to a premium one or to the save.
LEMMA CheapReturnsKeeps ==
  ASSUME IInv, NEW a \in Attempt, NEW r \in Resource, CheapReturns(a, r)
  PROVE  Keeps
<1>1. Types
  BY DEF IInv
<1>2. PICK cost \in {0, CheapCost}, place \in {"premium", "save"} :
        attempts' = Charged(a, cost) /\ billed' = billed + cost /\ Becomes(a, r, place)
  BY DEF CheapReturns
<1>3. cost \in Nat /\ cost + Ahead(place) <= Ahead("cheap") /\ Ahead(place) \in Nat
  BY AheadOf, Naturals, <1>2
<1>4. Due("cheap", Uncounted, 1) = 0 /\ Due(place, Uncounted, 1) = 0
  BY <1>2 DEF Due, Uncounted
<1>5. attempts' = [attempts EXCEPT ![a].spent = @ + cost]
  BY <1>2 DEF Charged
<1>6. GoesOn(a, r, place, cost)
  BY <1>1, <1>2, <1>3, <1>4, <1>5, AttemptType DEF GoesOn, CheapReturns, Busy, Active, AttemptRecord, Types
<1>. QED BY <1>1, <1>3, <1>6, AttemptType, GoesOnKeeps DEF CheapReturns

\* A premium score goes on to the save.
LEMMA PremiumReturnsKeeps ==
  ASSUME IInv, NEW a \in Attempt, NEW r \in Resource, PremiumReturns(a, r)
  PROVE  Keeps
<1>1. Types
  BY DEF IInv
<1>2. PICK cost \in {0, PremiumCost} : attempts' = Charged(a, cost) /\ billed' = billed + cost
  BY DEF PremiumReturns
<1>3. cost \in Nat /\ cost + Ahead("save") <= Ahead("premium")
  BY AheadOf, Naturals, <1>2
<1>4. Due("premium", Uncounted, 1) = 0 /\ Due("save", Uncounted, 1) = 0
  BY DEF Due, Uncounted
<1>5. attempts' = [attempts EXCEPT ![a].spent = @ + cost]
  BY <1>2 DEF Charged
<1>6. GoesOn(a, r, "save", cost)
  BY <1>1, <1>2, <1>3, <1>4, <1>5, AttemptType DEF GoesOn, PremiumReturns, Busy, Active, AttemptRecord, Types
<1>. QED BY <1>1, <1>3, <1>6, AttemptType, GoesOnKeeps DEF PremiumReturns

\* A saved task releases what it reserved.
LEMMA SaveReturnsKeeps ==
  ASSUME IInv, NEW a \in Attempt, NEW r \in Resource, SaveReturns(a, r)
  PROVE  Keeps
<1>1. Types
  BY DEF IInv
<1>2. Ahead("ended") <= Ahead("save") /\ Ahead("ended") \in Nat
  BY AheadOf
<1>3. Due("save", Uncounted, 1) = 0 /\ Due("ended", Uncounted, 1) = 0
  BY DEF Due, Uncounted
<1>4. GoesOn(a, r, "ended", 0)
  BY <1>1, <1>2, <1>3, AttemptType DEF GoesOn, SaveReturns, Busy, Active, AttemptRecord, Types
<1>5. kept' \subseteq Resource
  BY <1>1, AttemptType DEF SaveReturns
<1>. QED BY <1>1, <1>4, <1>5, AttemptType, GoesOnKeeps DEF SaveReturns

\* A task that fails may have been charged for its call.
LEMMA PaidTaskFailsKeeps ==
  ASSUME IInv, NEW a \in Attempt, NEW r \in Resource, PaidTaskFails(a, r)
  PROVE  Keeps
<1>1. Types
  BY DEF IInv
<1>2. PICK cost \in FailureCosts(tasks[a][r]) :
        /\ attempts' = [Charged(a, cost) EXCEPT ![a].reserved = Released(@)]
        /\ billed' = billed + cost
  BY DEF PaidTaskFails
<1>3. cost \in Nat /\ cost + Ahead("ended") <= Ahead(tasks[a][r])
  BY <1>2, AheadOf, Naturals DEF FailureCosts, PaidTaskFails, Active
<1>4. Due(tasks[a][r], Uncounted, 1) >= 0 /\ Due(tasks[a][r], Uncounted, 1) \in Nat /\ Due("ended", Uncounted, 1) = 0
  BY DEF Due, Uncounted
<1>5. attempts' = [attempts EXCEPT ![a] = [attempts[a] EXCEPT !.spent = @ + cost, !.reserved = Released(@)]]
  BY <1>1, <1>2 DEF Charged, Types, AttemptRecord
<1> DEFINE failed == [attempts[a] EXCEPT !.spent = @ + cost, !.reserved = Released(@)]
<1>6. attempts[a].spent + cost \in Nat /\ Released(attempts[a].reserved) \in Nat /\ attempts[a] \in AttemptRecord
  BY <1>1, <1>3, AttemptType
<1>7. failed \in AttemptRecord
  BY <1>6 DEF AttemptRecord
<1>8. /\ attempts' \in [Attempt -> AttemptRecord] /\ \A b \in Attempt \ {a} : attempts'[b] = attempts[b]
      /\ attempts'[a].stage = attempts[a].stage /\ attempts'[a].isStopped = attempts[a].isStopped
      /\ attempts'[a].spent = attempts[a].spent + cost /\ attempts'[a].scored = attempts[a].scored
      /\ attempts'[a].reserved = Released(attempts[a].reserved)
  <2>1. attempts'[a] = failed
    BY <1>1, <1>5 DEF Types
  <2>2. attempts \in [Attempt -> AttemptRecord] /\ attempts[a] \in AttemptRecord
    BY <1>1 DEF Types
  <2>. QED BY <1>5, <1>7, <2>1, <2>2 DEF AttemptRecord
<1>9. GoesOn(a, r, "ended", cost)
  BY <1>1, <1>2, <1>3, <1>4, <1>8, AttemptType DEF GoesOn, PaidTaskFails, Busy, Active
<1>. QED BY <1>1, <1>3, <1>9, AttemptType, GoesOnKeeps DEF PaidTaskFails

\* A task that meets a spent key ends its attempt, and the others run on.
LEMMA BudgetRejectedKeeps ==
  ASSUME IInv, NEW a \in Attempt, NEW r \in Resource, BudgetRejected(a, r)
  PROVE  Keeps
<1>1. Types
  BY DEF IInv
<1>2. /\ Ahead("rejected") <= Ahead("cheap") /\ Ahead("rejected") <= Ahead("premium") /\ Ahead("rejected") = 0
  BY AheadOf, Naturals
<1>3. Due("cheap", Uncounted, 1) = 0 /\ Due("premium", Uncounted, 1) = 0 /\ Due("rejected", Uncounted, 1) = 0
  BY DEF Due, Uncounted
<1> DEFINE failed == [attempts[a] EXCEPT !.stage = "failed", !.reserved = Released(@)]
<1>4. failed \in AttemptRecord
  BY <1>1, AttemptType DEF AttemptRecord, Stage
<1>5. attempts' = [attempts EXCEPT ![a] = failed]
  BY <1>1 DEF BudgetRejected, Types, AttemptRecord
<1>6. /\ attempts' \in [Attempt -> AttemptRecord] /\ \A b \in Attempt \ {a} : attempts'[b] = attempts[b]
      /\ attempts'[a].stage = "failed" /\ attempts'[a].isStopped = attempts[a].isStopped
      /\ attempts'[a].spent = attempts[a].spent /\ attempts'[a].scored = attempts[a].scored
      /\ attempts'[a].reserved = Released(attempts[a].reserved)
  <2>1. attempts'[a] = failed
    BY <1>1, <1>5 DEF Types
  <2>2. attempts \in [Attempt -> AttemptRecord] /\ attempts[a] \in AttemptRecord
    BY <1>1 DEF Types
  <2>. QED BY <1>4, <1>5, <2>1, <2>2 DEF AttemptRecord
<1>7. GoesOn(a, r, "rejected", 0)
  BY <1>1, <1>2, <1>3, <1>6, AttemptType DEF GoesOn, BudgetRejected, Busy, Active
<1>8. held' \in 0..MaxAttempts
  BY <1>1, AttemptType, BudgetAssumption DEF BudgetRejected, LetGo
<1>. QED BY <1>1, <1>7, <1>8, AttemptType, GoesOnKeeps DEF BudgetRejected

\* A task that starts reserves its largest cost.
LEMMA StartPaidTaskKeeps ==
  ASSUME IInv, NEW a \in Attempt, NEW r \in Resource, StartPaidTask(a, r)
  PROVE  Keeps
<1>1. Types /\ AttemptsAreSound /\ MoneyFits
  BY DEF IInv
<1> DEFINE started == [attempts[a] EXCEPT !.reserved = @ + Largest]
<1>2. attempts[a].reserved + Largest \in Nat /\ attempts[a] \in AttemptRecord
  BY <1>1, AttemptType, Naturals
<1>3. started \in AttemptRecord
  BY <1>2 DEF AttemptRecord
<1>4. attempts' = [attempts EXCEPT ![a] = started]
  BY <1>1 DEF StartPaidTask, Types, AttemptRecord
<1>5. /\ attempts' \in [Attempt -> AttemptRecord] /\ \A b \in Attempt \ {a} : attempts'[b] = attempts[b]
      /\ attempts'[a] = started
  BY <1>1, <1>3, <1>4 DEF Types
<1>6. /\ started.stage = attempts[a].stage /\ started.isStopped = attempts[a].isStopped
      /\ started.spent = attempts[a].spent /\ started.scored = attempts[a].scored
      /\ started.reserved = attempts[a].reserved + Largest
  BY <1>2 DEF AttemptRecord
<1> HIDE DEF started
<1>7. /\ tasks' \in [Attempt -> [Resource -> Task]] /\ \A b \in Attempt \ {a} : tasks'[b] = tasks[b]
      /\ Moves(tasks[a], tasks'[a], r) /\ tasks'[a][r] = "fetch"
  <2>1. "fetch" \in Task /\ Becomes(a, r, "fetch")
    BY DEF StartPaidTask, Task, Active
  <2>. QED BY <1>1, <2>1, BecomesMoves
<1>8. /\ tasks[a][r] = "waiting" /\ Count(tasks[a], Busy) < Concurrency
      /\ attempts[a].stage \in {"score", "failed"}
      /\ attempts[a].spent + attempts[a].reserved < Limit /\ attempts[a].scored < MaxScored
  BY DEF StartPaidTask, IsNext, IsBusy, Count, Busy, RunsTasks, CanScore, CanReserve
<1>9. IsSound(attempts[a], tasks[a], billed)
  BY <1>1 DEF AttemptsAreSound
<1>10. IsSound(started, tasks'[a], billed)
  <2>1. billed \in Nat
    BY <1>1 DEF Types
  <2>. QED BY <1>2, <1>3, <1>6, <1>7, <1>8, <1>9, <2>1, TaskStarts
<1>11. billed' = billed /\ billed \in Nat
  BY <1>1 DEF StartPaidTask, Types
<1>12. AttemptsAreSound' /\ \A b \in Attempt \ {a} : StaysNearLimit(b)
  BY <1>1, <1>5, <1>7, <1>10, <1>11, SoundAttemptIsEnough DEF OthersStay
<1>13. StaysNearLimit(a)
  BY <1>1, <1>5, <1>6, AttemptType DEF StaysNearLimit
<1>. QED BY <1>1, <1>5, <1>7, <1>11, <1>12, <1>13, AttemptType, RestKeeps DEF StartPaidTask

\* A task that is put off is put off near a limit.
LEMMA DeferKeeps ==
  ASSUME IInv, NEW a \in Attempt, NEW r \in Resource, Defer(a, r)
  PROVE  Keeps
<1>1. Types /\ AttemptsAreSound /\ MoneyFits
  BY DEF IInv
<1>2. /\ tasks' \in [Attempt -> [Resource -> Task]] /\ \A b \in Attempt \ {a} : tasks'[b] = tasks[b]
      /\ Moves(tasks[a], tasks'[a], r) /\ tasks'[a][r] = "deferred"
  <2>1. "deferred" \in Task /\ Becomes(a, r, "deferred")
    BY DEF Defer, Task
  <2>. QED BY <1>1, <2>1, BecomesMoves
<1>3. /\ tasks[a][r] = "waiting" /\ Count(tasks[a], Busy) < Concurrency
      /\ \/ attempts[a].isStopped \/ ~(attempts[a].spent < Limit) \/ ~(attempts[a].scored < MaxScored)
         \/ ~(attempts[a].spent + attempts[a].reserved < Limit)
  BY DEF Defer, IsNext, IsBusy, Count, Busy, CanScore, CanSpend, CanReserve
<1>4. attempts' = attempts /\ billed' = billed /\ billed \in Nat /\ attempts \in [Attempt -> AttemptRecord]
  BY <1>1 DEF Defer, Types
<1>5. IsSound(attempts[a], tasks[a], billed) /\ attempts[a] \in AttemptRecord
  BY <1>1, <1>4 DEF AttemptsAreSound
<1>6. IsSound(attempts[a], tasks'[a], billed)
  BY <1>2, <1>3, <1>4, <1>5, TaskIsDeferred
<1>7. AttemptsAreSound' /\ \A b \in Attempt \ {a} : StaysNearLimit(b)
  BY <1>1, <1>2, <1>4, <1>6, SoundAttemptIsEnough DEF OthersStay
<1>8. StaysNearLimit(a)
  BY <1>1, <1>4, AttemptType DEF StaysNearLimit
<1>. QED BY <1>1, <1>2, <1>4, <1>7, <1>8, AttemptType, RestKeeps DEF Defer

-----------------------------------------------------------------------------
(* Steps of an attempt beside its tasks, and of the workflow *)

\* An attempt pays a cost, or only its stage changes.
PaysBeside(a, cost) ==
  /\ tasks' = tasks
  /\ attempts' \in [Attempt -> AttemptRecord]
  /\ \A b \in Attempt \ {a} : attempts'[b] = attempts[b]
  /\ attempts'[a].spent = attempts[a].spent + cost
  /\ attempts'[a].scored = attempts[a].scored /\ attempts'[a].reserved = attempts[a].reserved
  /\ attempts[a].isStopped => attempts'[a].isStopped
  /\ cost = 0 \/ attempts[a].stage \notin {"score", "failed", "dead"}
  /\ \/ attempts'[a].stage \in {"score", "failed", "dead", attempts[a].stage}
     \/ Count(tasks[a], Active) = 0
  /\ billed' = billed + cost

\* What is paid beside the tasks comes while none of them is active.
LEMMA PaysBesideKeeps ==
  ASSUME Types, AttemptsAreSound, NEW a \in Attempt, NEW cost \in Nat, PaysBeside(a, cost)
  PROVE  AttemptsAreSound' /\ \A b \in Attempt : StaysNearLimit(b)
<1>1. /\ attempts[a] \in AttemptRecord /\ attempts'[a] \in AttemptRecord
      /\ billed \in Nat /\ billed + cost \in Nat /\ billed <= billed + cost /\ billed' = billed + cost
  BY DEF Types, PaysBeside
<1>2. IsSound(attempts[a], tasks[a], billed)
  BY DEF AttemptsAreSound
<1>3. cost = 0 \/ Count(tasks[a], Active) = 0
  BY <1>2 DEF IsSound, PaysBeside
<1>4. IsSound(attempts'[a], tasks[a], billed + cost)
  BY <1>1, <1>2, <1>3, AttemptGoesOn DEF PaysBeside
<1>5. OthersStay(a) /\ tasks'[a] = tasks[a]
  BY DEF PaysBeside, OthersStay, Types
<1>6. AttemptsAreSound' /\ \A b \in Attempt \ {a} : StaysNearLimit(b)
  BY <1>1, <1>4, <1>5, SoundAttemptIsEnough
<1>7. StaysNearLimit(a)
  <2>1. attempts[a].spent \in Nat
    BY <1>1 DEF AttemptRecord
  <2>. QED BY <2>1 DEF StaysNearLimit, PaysBeside, RunsTasks
<1>. QED BY <1>6, <1>7

\* An attempt outside of its scoring has no active task.
LEMMA NoneIsActive ==
  ASSUME IInv, NEW a \in Attempt, attempts[a].stage \notin {"score", "failed", "dead"}
  PROVE  Count(tasks[a], Active) = 0
BY DEF IInv, AttemptsAreSound, IsSound

\* What an attempt pays for beside its tasks goes through this.
LEMMA PaysBesideIsEnough ==
  ASSUME IInv, NEW a \in Attempt, NEW cost \in Nat, PaysBeside(a, cost),
         held' \in 0..MaxAttempts, kept' \subseteq Resource, UNCHANGED <<checkpoint, ingestCost, row>>
  PROVE  Keeps
<1>1. Types /\ AttemptsAreSound /\ MoneyFits
  BY DEF IInv
<1>2. AttemptsAreSound' /\ \A b \in Attempt : StaysNearLimit(b)
  BY <1>1, PaysBesideKeeps
<1>3. /\ attempts' \in [Attempt -> AttemptRecord] /\ tasks' \in [Attempt -> [Resource -> Task]]
      /\ billed' \in Nat /\ billed <= billed'
  BY <1>1 DEF PaysBeside, Types
<1>. QED BY <1>1, <1>2, <1>3, RestKeeps

\* An attempt that pays and reaches a stage, while none of its tasks is active.
LEMMA PaidStagePaysBeside ==
  ASSUME IInv, NEW a \in Attempt, NEW cost \in Nat, NEW stage \in Stage,
         attempts[a].stage \notin {"score", "failed", "dead"},
         attempts' = [attempts EXCEPT ![a] = [attempts[a] EXCEPT !.spent = @ + cost, !.stage = stage]],
         billed' = billed + cost, tasks' = tasks
  PROVE  PaysBeside(a, cost)
<1>1. Types
  BY DEF IInv
<1> DEFINE paid == [attempts[a] EXCEPT !.spent = @ + cost, !.stage = stage]
<1>2. attempts[a].spent + cost \in Nat /\ attempts[a] \in AttemptRecord
  BY <1>1, AttemptType
<1>3. paid \in AttemptRecord
  BY <1>2 DEF AttemptRecord
<1>4. /\ paid.spent = attempts[a].spent + cost /\ paid.scored = attempts[a].scored
      /\ paid.reserved = attempts[a].reserved /\ paid.isStopped = attempts[a].isStopped
  BY <1>2 DEF AttemptRecord
<1> HIDE DEF paid
<1>5. attempts' = [attempts EXCEPT ![a] = paid]
  BY DEF paid
<1>6. Count(tasks[a], Active) = 0
  BY NoneIsActive
<1>. QED BY <1>1, <1>3, <1>4, <1>5, <1>6 DEF PaysBeside, Types

\* An attempt that reaches a stage and pays nothing.
LEMMA StagePaysBeside ==
  ASSUME IInv, NEW a \in Attempt, NEW stage \in Stage, Reaches(a, stage),
         stage \in {"failed", "dead"} \/ Count(tasks[a], Active) = 0,
         billed' = billed, tasks' = tasks
  PROVE  PaysBeside(a, 0)
<1>1. Types
  BY DEF IInv
<1> DEFINE reached == [attempts[a] EXCEPT !.stage = stage]
<1>2. attempts[a] \in AttemptRecord /\ attempts[a].spent \in Nat /\ billed \in Nat
  BY <1>1, AttemptType
<1>3. reached \in AttemptRecord
  BY <1>2 DEF AttemptRecord
<1>4. /\ reached.spent = attempts[a].spent + 0 /\ reached.scored = attempts[a].scored /\ reached.stage = stage
      /\ reached.reserved = attempts[a].reserved /\ reached.isStopped = attempts[a].isStopped
  BY <1>2 DEF AttemptRecord
<1> HIDE DEF reached
<1>5. attempts' = [attempts EXCEPT ![a] = reached]
  BY <1>1, <1>2 DEF reached, Reaches, Types, AttemptRecord
<1>. QED BY <1>1, <1>2, <1>3, <1>4, <1>5 DEF PaysBeside, Types

\* The context is paid before the scoring.
LEMMA EmbedContextKeeps ==
  ASSUME IInv, NEW a \in Attempt, EmbedContext(a)
  PROVE  Keeps
<1>1. Types
  BY DEF IInv
<1>2. PICK cost \in {0, ContextCost} :
        attempts' = [Charged(a, cost) EXCEPT ![a].stage = "gate"] /\ billed' = billed + cost
  BY DEF EmbedContext
<1>3. cost \in Nat /\ "gate" \in Stage
  BY <1>2, Naturals DEF Stage
<1>4. attempts' = [attempts EXCEPT ![a] = [attempts[a] EXCEPT !.spent = @ + cost, !.stage = "gate"]]
  BY <1>1, <1>2 DEF Charged, Types, AttemptRecord
<1>5. PaysBeside(a, cost)
  BY <1>2, <1>3, <1>4, PaidStagePaysBeside DEF EmbedContext
<1>. QED BY <1>1, <1>3, <1>5, AttemptType, PaysBesideIsEnough DEF EmbedContext

\* A batch of vectors is paid before the scoring.
LEMMA EmbedBatchKeeps ==
  ASSUME IInv, NEW a \in Attempt, EmbedBatch(a)
  PROVE  Keeps
<1>1. Types
  BY DEF IInv
<1>2. BatchCost \in Nat /\ "gate" \in Stage /\ attempts[a] \in AttemptRecord /\ attempts[a].stage = "gate"
  BY <1>1, Naturals, AttemptType DEF Stage, EmbedBatch
<1>3. [attempts[a] EXCEPT !.spent = @ + BatchCost] = [attempts[a] EXCEPT !.spent = @ + BatchCost, !.stage = "gate"]
  BY <1>2 DEF AttemptRecord
<1>4. attempts' = [attempts EXCEPT ![a] = [attempts[a] EXCEPT !.spent = @ + BatchCost, !.stage = "gate"]]
  BY <1>1, <1>3 DEF EmbedBatch, Charged, Types
<1>5. PaysBeside(a, BatchCost)
  BY <1>2, <1>4, PaidStagePaysBeside DEF EmbedBatch
<1>. QED BY <1>1, <1>2, <1>5, AttemptType, PaysBesideIsEnough DEF EmbedBatch

\* The report is paid after the scoring.
LEMMA ReportReturnsKeeps ==
  ASSUME IInv, NEW a \in Attempt, ReportReturns(a)
  PROVE  Keeps
<1>1. Types
  BY DEF IInv
<1>2. PICK cost \in {0, ReportCost} :
        attempts' = [Charged(a, cost) EXCEPT ![a].stage = "record"] /\ billed' = billed + cost
  BY DEF ReportReturns
<1>3. cost \in Nat /\ "record" \in Stage
  BY <1>2, Naturals DEF Stage
<1>4. attempts' = [attempts EXCEPT ![a] = [attempts[a] EXCEPT !.spent = @ + cost, !.stage = "record"]]
  BY <1>1, <1>2 DEF Charged, Types, AttemptRecord
<1>5. PaysBeside(a, cost)
  BY <1>2, <1>3, <1>4, PaidStagePaysBeside DEF ReportReturns
<1>. QED BY <1>1, <1>3, <1>5, AttemptType, PaysBesideIsEnough DEF ReportReturns

\* A review that was stopped before it began pays nothing.
LEMMA ReviewsNothingKeeps ==
  ASSUME IInv, NEW a \in Attempt, ReviewsNothing(a)
  PROVE  Keeps
<1>1. Types /\ "record" \in Stage
  BY DEF IInv, Stage
<1>2. Count(tasks[a], Active) = 0
  BY NoneIsActive DEF ReviewsNothing
<1>3. PaysBeside(a, 0)
  BY <1>1, <1>2, StagePaysBeside DEF ReviewsNothing
<1>. QED BY <1>1, <1>3, AttemptType, PaysBesideIsEnough DEF ReviewsNothing

\* The scoring ends once its tasks have.
LEMMA ScoringEndsKeeps ==
  ASSUME IInv, NEW a \in Attempt, ScoringEnds(a)
  PROVE  Keeps
<1>1. Types
  BY DEF IInv
<1>2. Count(tasks[a], Active) = 0
  BY CountIsZero DEF ScoringEnds, Active
<1>3. PICK stage \in {"record", "report"} : Reaches(a, stage)
  BY DEF ScoringEnds
<1>4. PaysBeside(a, 0)
  BY <1>2, <1>3, StagePaysBeside DEF ScoringEnds, Stage
<1>. QED BY <1>1, <1>4, AttemptType, PaysBesideIsEnough DEF ScoringEnds

\* An attempt that throws outside of its scoring leaves nothing reserved.
LEMMA AttemptThrowsKeeps ==
  ASSUME IInv, NEW a \in Attempt, AttemptThrows(a)
  PROVE  Keeps
<1>1. Types /\ "dead" \in Stage
  BY DEF IInv, Stage
<1>2. PaysBeside(a, 0)
  BY <1>1, StagePaysBeside DEF AttemptThrows
<1>3. held' \in 0..MaxAttempts
  BY <1>1, AttemptType, BudgetAssumption DEF AttemptThrows, LetGo
<1>. QED BY <1>1, <1>2, <1>3, AttemptType, PaysBesideIsEnough DEF AttemptThrows

\* An attempt that is given up may run on with its tasks.
LEMMA LoseAttemptKeeps ==
  ASSUME IInv, NEW a \in Attempt, LoseAttempt(a)
  PROVE  Keeps
<1>1. Types /\ "dead" \in Stage
  BY DEF IInv, Stage
<1>2. PaysBeside(a, 0)
  <2>1. CASE Reaches(a, "dead")
    BY <1>1, <2>1, StagePaysBeside DEF LoseAttempt
  <2>2. CASE UNCHANGED attempts
    BY <1>1, <2>2, AttemptType DEF PaysBeside, LoseAttempt, Types
  <2>. QED BY <2>1, <2>2 DEF LoseAttempt
<1>3. held' \in 0..MaxAttempts
  BY BudgetAssumption DEF LoseAttempt
<1>. QED BY <1>1, <1>2, <1>3, AttemptType, PaysBesideIsEnough DEF LoseAttempt

\* An attempt learns that nobody waits for it.
LEMMA StopArrivesKeeps ==
  ASSUME IInv, NEW a \in Attempt, StopArrives(a)
  PROVE  Keeps
<1>1. Types
  BY DEF IInv
<1> DEFINE stopped == [attempts[a] EXCEPT !.isStopped = TRUE]
<1>2. attempts[a] \in AttemptRecord /\ attempts[a].spent \in Nat /\ billed \in Nat
  BY <1>1, AttemptType
<1>3. /\ stopped \in AttemptRecord /\ stopped.stage = attempts[a].stage /\ stopped.isStopped
      /\ stopped.spent = attempts[a].spent /\ stopped.scored = attempts[a].scored
      /\ stopped.reserved = attempts[a].reserved
  BY <1>2 DEF AttemptRecord
<1> HIDE DEF stopped
<1>4. attempts' = [attempts EXCEPT ![a] = stopped] /\ tasks' = tasks /\ billed' = billed
  BY <1>1 DEF StopArrives, stopped, Types
<1>5. PaysBeside(a, 0)
  BY <1>1, <1>2, <1>3, <1>4 DEF PaysBeside, Types
<1>. QED BY <1>1, <1>5, AttemptType, PaysBesideIsEnough DEF StopArrives

\* The next attempt starts from what is billed, with no task running.
LEMMA StartAttemptKeeps ==
  ASSUME IInv, NEW a \in Attempt, StartAttempt(a)
  PROVE  Keeps
<1>1. Types /\ AttemptsAreSound /\ MoneyFits
  BY DEF IInv
<1>2. PICK reviewed \in SUBSET kept :
        /\ attempts' = [attempts EXCEPT ![a] =
             [IdleAttempt EXCEPT !.stage = IF reviewed = Resource THEN "record" ELSE "context",
                                 !.spent = Resumed.spent, !.scored = Resumed.scored]]
        /\ tasks' = [tasks EXCEPT ![a] = [r \in Resource |-> IF r \in reviewed THEN "ended" ELSE "waiting"]]
  BY DEF StartAttempt
<1> DEFINE started == [IdleAttempt EXCEPT !.stage = IF reviewed = Resource THEN "record" ELSE "context",
                                          !.spent = Resumed.spent, !.scored = Resumed.scored]
           handed == [r \in Resource |-> IF r \in reviewed THEN "ended" ELSE "waiting"]
<1>3. /\ Resumed.spent \in Nat /\ Resumed.scored \in Nat
      /\ Resumed.spent <= billed /\ Resumed.scored < MaxScored + Concurrency
  BY <1>1, Naturals DEF Resumed, Types, MoneyFits
<1>4. /\ started \in AttemptRecord /\ started.reserved = 0
      /\ started.spent = Resumed.spent /\ started.scored = Resumed.scored
  BY <1>3 DEF IdleAttempt, AttemptRecord, Stage
<1>5. handed \in [Resource -> Task] /\ \A r \in Resource : handed[r] \in {"waiting", "ended"}
  BY DEF Task
<1>6. attempts' = [attempts EXCEPT ![a] = started] /\ tasks' = [tasks EXCEPT ![a] = handed]
  BY <1>2
<1> HIDE DEF started, handed
<1>7. billed' = billed /\ billed \in Nat /\ held' = a /\ UNCHANGED <<checkpoint, ingestCost, kept, row>>
  BY <1>1 DEF StartAttempt, Types
<1>8. IsSound(started, handed, billed)
  BY <1>3, <1>4, <1>5, <1>7, NothingRuns
<1>9. /\ attempts' \in [Attempt -> AttemptRecord] /\ tasks' \in [Attempt -> [Resource -> Task]]
      /\ \A b \in Attempt \ {a} : attempts'[b] = attempts[b] /\ tasks'[b] = tasks[b]
      /\ attempts'[a] = started /\ tasks'[a] = handed
  BY <1>1, <1>4, <1>5, <1>6 DEF Types
<1>10. AttemptsAreSound' /\ \A b \in Attempt \ {a} : StaysNearLimit(b)
  BY <1>1, <1>7, <1>8, <1>9, SoundAttemptIsEnough DEF OthersStay
<1>11. StaysNearLimit(a)
  BY DEF StaysNearLimit, RunsTasks, StartAttempt
<1>12. held' \in 0..MaxAttempts
  BY <1>7, BudgetAssumption DEF Attempt
<1>. QED BY <1>1, <1>7, <1>9, <1>10, <1>11, <1>12, AttemptType, RestKeeps

\* Scoring begins with no task active.
LEMMA BeginScoringKeeps ==
  ASSUME IInv, NEW a \in Attempt, BeginScoring(a)
  PROVE  Keeps
<1>1. Types /\ AttemptsAreSound /\ MoneyFits
  BY DEF IInv
<1>2. PICK dropped \in SUBSET Resource :
        tasks' = [tasks EXCEPT ![a] = [r \in Resource |-> IF r \in dropped THEN "ended" ELSE tasks[a][r]]]
  BY <1>1 DEF BeginScoring, Types
<1> DEFINE left == [r \in Resource |-> IF r \in dropped THEN "ended" ELSE tasks[a][r]]
           begun == [attempts[a] EXCEPT !.stage = "score"]
<1>3. attempts[a] \in AttemptRecord /\ attempts[a].spent \in Nat /\ attempts[a].scored \in Nat /\ billed \in Nat
  BY <1>1, AttemptType
<1>4. /\ begun \in AttemptRecord /\ begun.stage = "score" /\ begun.isStopped = attempts[a].isStopped
      /\ begun.spent = attempts[a].spent /\ begun.scored = attempts[a].scored
      /\ begun.reserved = attempts[a].reserved
  BY <1>3 DEF AttemptRecord, Stage
<1>5. /\ left \in [Resource -> Task]
      /\ \A r \in Resource : left[r] = tasks[a][r] \/ left[r] = "ended"
  BY <1>1 DEF Types, Task
<1>6. attempts' = [attempts EXCEPT ![a] = begun] /\ tasks' = [tasks EXCEPT ![a] = left]
  BY <1>1, <1>2 DEF BeginScoring, Reaches, Types, AttemptRecord
<1> HIDE DEF left, begun
<1>7. IsSound(attempts[a], tasks[a], billed) /\ Count(tasks[a], Active) = 0
  BY <1>1, NoneIsActive DEF AttemptsAreSound, BeginScoring
<1>8. /\ Count(left, Active) <= Count(tasks[a], Active) /\ Count(left, Busy) <= Count(tasks[a], Busy)
      /\ Count(left, Uncounted) <= Count(tasks[a], Uncounted)
  BY <1>5, CountShrinks DEF Active, Busy, Uncounted
<1>9. /\ Count(left, Active) \in Nat /\ Count(left, Busy) \in Nat /\ Count(left, Uncounted) \in Nat
      /\ Count(tasks[a], Busy) \in Nat /\ Count(tasks[a], Uncounted) \in Nat
  BY CountIsNat
<1>10. Count(left, Active) = 0
  BY <1>7, <1>8, <1>9
<1>11. Reserves(left) = 0 /\ Reserves(tasks[a]) = 0
  BY <1>7, <1>10, MarginIsReserved
<1>12. IsSound(begun, left, billed)
  <2>1. (\E r \in Resource : left[r] = "deferred") => IsNearLimit(attempts[a])
    BY <1>5, <1>7 DEF IsSound
  <2>2. IsNearLimit(attempts[a]) => IsNearLimit(begun)
    BY <1>4 DEF IsNearLimit
  <2>. QED BY <1>3, <1>4, <1>7, <1>8, <1>9, <1>10, <1>11, <2>1, <2>2, Naturals DEF IsSound
<1>13. /\ attempts' \in [Attempt -> AttemptRecord] /\ tasks' \in [Attempt -> [Resource -> Task]]
       /\ \A b \in Attempt \ {a} : attempts'[b] = attempts[b] /\ tasks'[b] = tasks[b]
       /\ attempts'[a] = begun /\ tasks'[a] = left
  BY <1>1, <1>4, <1>5, <1>6 DEF Types
<1>14. billed' = billed /\ UNCHANGED <<held, checkpoint, ingestCost, kept, row>>
  BY DEF BeginScoring
<1>15. AttemptsAreSound' /\ \A b \in Attempt \ {a} : StaysNearLimit(b)
  BY <1>1, <1>3, <1>12, <1>13, <1>14, SoundAttemptIsEnough DEF OthersStay
<1>16. StaysNearLimit(a)
  BY <1>3, <1>4, <1>13 DEF StaysNearLimit
<1>. QED BY <1>1, <1>3, <1>13, <1>14, <1>15, <1>16, AttemptType, RestKeeps

\* A heartbeat keeps counters that are below the limits.
LEMMA HeartbeatKeeps ==
  ASSUME IInv, NEW a \in Attempt, Heartbeat(a)
  PROVE  Keeps
<1>1. Types /\ AttemptsAreSound /\ MoneyFits
  BY DEF IInv
<1>2. attempts[a].spent <= billed /\ attempts[a].scored < MaxScored + Concurrency
  <2>1. IsSound(attempts[a], tasks[a], billed) /\ Count(tasks[a], Uncounted) \in Nat
    BY <1>1, CountIsNat DEF AttemptsAreSound
  <2>. QED BY <1>1, <2>1, AttemptType, Naturals DEF IsSound
<1>3. UNCHANGED <<attempts, tasks, held, ingestCost, kept, row, billed>>
  BY DEF Heartbeat
<1>4. Types'
  BY <1>1, <1>3, AttemptType DEF Types, Heartbeat
<1>5. AttemptsAreSound' /\ \A b \in Attempt : StaysNearLimit(b)
  BY <1>1, <1>3, AttemptType DEF AttemptsAreSound, StaysNearLimit
<1>6. MoneyFits'
  BY <1>1, <1>2, <1>3 DEF MoneyFits, Heartbeat
<1>. QED BY <1>4, <1>5, <1>6 DEF Keeps, IInv

\* A step that leaves the attempts alone and saves a cost that was billed.
LEMMA RowIsSaved ==
  ASSUME IInv, UNCHANGED <<tasks, checkpoint, ingestCost, kept, billed>>,
         attempts' \in [Attempt -> AttemptRecord], AttemptsAreSound', \A b \in Attempt : StaysNearLimit(b),
         held' \in 0..MaxAttempts, row' \in [status : {"running", "finished", "failed", "stopped"}, cost : Nat],
         row'.cost <= billed
  PROVE  Keeps
BY DEF Keeps, IInv, Types, MoneyFits

\* The progress that is recorded was billed.
LEMMA RecordScanProgressKeeps ==
  ASSUME IInv, NEW a \in Attempt, RecordScanProgress(a)
  PROVE  Keeps
<1>1. Types /\ AttemptsAreSound
  BY DEF IInv
<1>2. "returned" \in Stage /\ Count(tasks[a], Active) = 0
  BY NoneIsActive DEF Stage, RecordScanProgress
<1>3. PaysBeside(a, 0)
  BY <1>1, <1>2, StagePaysBeside DEF RecordScanProgress
<1>4. AttemptsAreSound' /\ \A b \in Attempt : StaysNearLimit(b)
  BY <1>1, <1>3, PaysBesideKeeps
<1>5. attempts[a].spent \in Nat /\ attempts[a].spent <= billed
  BY <1>1, AttemptType DEF AttemptsAreSound, IsSound
<1>6. /\ row' \in [status : {"running", "finished", "failed", "stopped"}, cost : Nat]
      /\ row'.cost <= billed
  BY <1>1, <1>5 DEF RecordScanProgress, Types
<1>7. held' \in 0..MaxAttempts
  BY <1>1 DEF RecordScanProgress, Types
<1>. QED BY <1>3, <1>4, <1>6, <1>7, RowIsSaved DEF RecordScanProgress, PaysBeside

\* Attempts that stay as they are stay sound.
LEMMA AttemptsStay ==
  ASSUME Types, AttemptsAreSound, UNCHANGED <<attempts, tasks, billed>>
  PROVE  /\ attempts' \in [Attempt -> AttemptRecord] /\ AttemptsAreSound'
         /\ \A b \in Attempt : StaysNearLimit(b)
BY AttemptType DEF AttemptsAreSound, StaysNearLimit, Types

\* A finished Scan shows what its last review spent.
LEMMA FinishScanKeeps ==
  ASSUME IInv, NEW a \in Attempt, FinishScan(a)
  PROVE  Keeps
<1>1. Types /\ AttemptsAreSound
  BY DEF IInv
<1>2. attempts[a].spent \in Nat /\ attempts[a].spent <= billed
  BY <1>1, AttemptType DEF AttemptsAreSound, IsSound
<1>3. /\ row' \in [status : {"running", "finished", "failed", "stopped"}, cost : Nat]
      /\ row'.cost <= billed
  BY <1>2 DEF FinishScan
<1>4. held' \in 0..MaxAttempts
  BY BudgetAssumption DEF FinishScan
<1>. QED BY <1>1, <1>3, <1>4, AttemptsStay, RowIsSaved DEF FinishScan

\* A failed Scan shows what the last stage that returned had spent.
LEMMA FailScanKeeps == ASSUME IInv, FailScan PROVE Keeps
<1>1. Types /\ AttemptsAreSound /\ MoneyFits
  BY DEF IInv
<1>2. SpentBudget \in Nat /\ SpentBudget <= billed
  <2>1. CASE held = 0
    BY <1>1, <2>1, Naturals DEF SpentBudget, Types, MoneyFits
  <2>2. CASE held # 0
    <3>1. held \in Attempt
      BY <1>1, <2>2, BudgetAssumption DEF Types, Attempt
    <3>. QED BY <1>1, <2>2, <3>1, AttemptType DEF SpentBudget, AttemptsAreSound, IsSound
  <2>. QED BY <2>1, <2>2
<1>3. /\ row' \in [status : {"running", "finished", "failed", "stopped"}, cost : Nat]
      /\ row'.cost <= billed
  BY <1>2 DEF FailScan
<1>4. held' \in 0..MaxAttempts
  BY BudgetAssumption DEF FailScan
<1>. QED BY <1>1, <1>3, <1>4, AttemptsStay, RowIsSaved DEF FailScan

\* A stopped Scan shows what it did before.
LEMMA StopScanKeeps == ASSUME IInv, StopScan PROVE Keeps
<1>1. Types /\ AttemptsAreSound /\ MoneyFits
  BY DEF IInv
<1>2. /\ row' \in [status : {"running", "finished", "failed", "stopped"}, cost : Nat]
      /\ row'.cost <= billed
  BY <1>1 DEF StopScan, Types, MoneyFits
<1>3. held' \in 0..MaxAttempts
  BY BudgetAssumption DEF StopScan
<1>. QED BY <1>1, <1>2, <1>3, AttemptsStay, RowIsSaved DEF StopScan

-----------------------------------------------------------------------------
(* The theorems *)

\* A Scan starts with nothing spent but its ingest.
LEMMA InitIsSound == Init => IInv
<1>1. SUFFICES ASSUME Init PROVE IInv
  OBVIOUS
<1>2. ingestCost \in Nat /\ billed = ingestCost
  BY <1>1, Naturals DEF Init
<1>3. Types
  BY <1>1, <1>2, BudgetAssumption DEF Init, Types, IdleAttempt, AttemptRecord, Stage, Task, NoCheckpoint
<1>4. AttemptsAreSound
  <2>1. SUFFICES ASSUME NEW a \in Attempt PROVE IsSound(attempts[a], tasks[a], billed)
    BY DEF AttemptsAreSound
  <2>2. /\ attempts[a] \in AttemptRecord /\ attempts[a].reserved = 0 /\ attempts[a].scored = 0 /\ attempts[a].spent = 0
        /\ \A r \in Resource : tasks[a][r] \in {"waiting", "ended"}
    BY <1>1, <1>3 DEF Init, Types, IdleAttempt
  <2>. QED BY <1>2, <2>2, NothingRuns, Naturals
<1>5. MoneyFits
  BY <1>1, <1>2, Naturals DEF Init, MoneyFits, NoCheckpoint
<1>. QED BY <1>3, <1>4, <1>5 DEF IInv

\* Every step keeps the invariant, and no scoring passes the limit by a task's cost.
LEMMA NextKeeps == IInv /\ [Next]_vars => Keeps
<1>1. SUFFICES ASSUME IInv, [Next]_vars PROVE Keeps
  OBVIOUS
<1>2. ASSUME NEW a \in Attempt,
             \/ StartAttempt(a) \/ EmbedContext(a) \/ ReviewsNothing(a) \/ EmbedBatch(a)
             \/ BeginScoring(a) \/ ScoringEnds(a) \/ ReportReturns(a) \/ RecordScanProgress(a)
             \/ Heartbeat(a) \/ AttemptThrows(a) \/ LoseAttempt(a) \/ StopArrives(a) \/ FinishScan(a)
      PROVE  Keeps
  BY <1>1, <1>2, StartAttemptKeeps, EmbedContextKeeps, ReviewsNothingKeeps, EmbedBatchKeeps, BeginScoringKeeps,
     ScoringEndsKeeps, ReportReturnsKeeps, RecordScanProgressKeeps, HeartbeatKeeps, AttemptThrowsKeeps,
     LoseAttemptKeeps, StopArrivesKeeps, FinishScanKeeps
<1>3. ASSUME NEW a \in Attempt, NEW r \in Resource,
             \/ StartPaidTask(a, r) \/ Defer(a, r) \/ FetchIsCharged(a, r)
             \/ FetchReturns(a, r) \/ CheapReturns(a, r) \/ PremiumReturns(a, r)
             \/ SaveReturns(a, r) \/ PaidTaskFails(a, r) \/ BudgetRejected(a, r)
      PROVE  Keeps
  BY <1>1, <1>3, StartPaidTaskKeeps, DeferKeeps, FetchIsChargedKeeps, FetchReturnsKeeps, CheapReturnsKeeps,
     PremiumReturnsKeeps, SaveReturnsKeeps, PaidTaskFailsKeeps, BudgetRejectedKeeps
<1>4. CASE UNCHANGED vars
  <2>1. Types /\ AttemptsAreSound /\ MoneyFits
    BY <1>1 DEF IInv
  <2>2. attempts' \in [Attempt -> AttemptRecord] /\ AttemptsAreSound' /\ \A b \in Attempt : StaysNearLimit(b)
    BY <1>4, <2>1, AttemptsStay DEF vars
  <2>. QED BY <1>1, <1>4, <2>1, <2>2, RowIsSaved DEF vars, Types, MoneyFits
<1>. QED BY <1>1, <1>2, <1>3, <1>4, FailScanKeeps, StopScanKeeps DEF Next

\* The invariant holds of every Scan.
LEMMA ScanIsSound == Spec => []IInv
<1>1. IInv /\ [Next]_vars => IInv'
  BY NextKeeps DEF Keeps
<1>. QED BY <1>1, InitIsSound, PTL DEF Spec

\* What the attempts reserve is a whole number of tasks, and what they score is bounded:
\* every state of ScanBudget is well-typed.
THEOREM BudgetTypeCorrect == Spec => []TypeOK
<1>1. ASSUME IInv, NEW a \in Attempt
      PROVE  attempts[a].scored \in 0..(MaxScored + Concurrency) /\ attempts[a].reserved \in {n * Largest : n \in 0..Concurrency}
  <2>1. Types /\ IsSound(attempts[a], tasks[a], billed)
    BY <1>1 DEF IInv, AttemptsAreSound
  <2>2. /\ Count(tasks[a], Active) \in Nat /\ Count(tasks[a], Uncounted) \in Nat /\ Count(tasks[a], Busy) \in Nat
        /\ Count(tasks[a], Active) <= Count(tasks[a], Busy)
    BY CountIsNat, CountGrows DEF Busy
  <2>3. Count(tasks[a], Active) \in 0..Concurrency
    BY <2>1, <2>2, Naturals DEF IsSound
  <2>4. attempts[a].reserved = Count(tasks[a], Active) * Largest
    BY <2>1 DEF IsSound, Reserves
  <2>5. attempts[a].reserved \in {n * Largest : n \in 0..Concurrency}
    BY <2>3, <2>4
  <2>6. attempts[a].scored \in 0..(MaxScored + Concurrency)
    BY <2>1, <2>2, AttemptType, Naturals DEF IsSound
  <2>. QED BY <2>5, <2>6
<1>2. IInv => TypeOK
  <2>1. SUFFICES ASSUME IInv PROVE TypeOK
    OBVIOUS
  <2>2. Types
    BY <2>1 DEF IInv
  <2>3. attempts \in [Attempt -> [stage : Stage, spent : Nat, scored : 0..(MaxScored + Concurrency),
                                  reserved : {n * Largest : n \in 0..Concurrency}, isStopped : BOOLEAN]]
    <3> DEFINE Bounded == [stage : Stage, spent : Nat, scored : 0..(MaxScored + Concurrency),
                           reserved : {n * Largest : n \in 0..Concurrency}, isStopped : BOOLEAN]
               Held == {n * Largest : n \in 0..Concurrency}
    <3>1. ASSUME NEW a \in Attempt PROVE attempts[a] \in Bounded
      <4>1. attempts[a] \in AttemptRecord /\ attempts[a].scored \in 0..(MaxScored + Concurrency) /\ attempts[a].reserved \in Held
        BY <1>1, <2>1, <2>2 DEF Types
      <4> HIDE DEF Held
      <4>2. attempts[a] \in [stage : Stage, spent : Nat, scored : 0..(MaxScored + Concurrency), reserved : Held, isStopped : BOOLEAN]
        BY <4>1 DEF AttemptRecord
      <4>. QED BY <4>2 DEF Held
    <3> HIDE DEF Bounded
    <3>2. attempts \in [Attempt -> Bounded]
      BY <2>2, <3>1 DEF Types
    <3>. QED BY <3>2 DEF Bounded
  <2>. QED BY <2>2, <2>3 DEF Types, TypeOK
<1>. QED BY <1>2, ScanIsSound, PTL

\* Parallel tasks together pass the limit by less than one task's largest cost, for
\* any number of workers and any costs: reserveScanSpend.
THEOREM ScoringKeepsLimit == Spec => ScoringStaysNearLimit
<1>1. IInv /\ [Next]_vars =>
        [\A a \in Attempt : RunsTasks(a) /\ attempts'[a].spent > attempts[a].spent
           => attempts'[a].spent < Limit + Largest]_vars
  BY NextKeeps DEF Keeps, StaysNearLimit
<1>. QED BY <1>1, ScanIsSound, PTL DEF Spec, ScoringStaysNearLimit

\* The limit of scored Resources is passed by less than the number of workers.
THEOREM ScoredKeepsMax == Spec => []ScoredStaysNearMax
<1>1. IInv => ScoredStaysNearMax
  <2>1. SUFFICES ASSUME IInv, NEW a \in Attempt PROVE attempts[a].scored < MaxScored + Concurrency
    BY DEF ScoredStaysNearMax
  <2>2. IsSound(attempts[a], tasks[a], billed) /\ Count(tasks[a], Uncounted) \in Nat /\ attempts[a].scored \in Nat
    BY <2>1, CountIsNat, AttemptType DEF IInv, AttemptsAreSound
  <2>. QED BY <2>2, Naturals DEF IsSound
<1>. QED BY <1>1, ScanIsSound, PTL

\* No reservation outlives its task: a Resource is put off only near a limit.
THEOREM DeferredIsNearLimit == Spec => []DeferredOnlyNearLimit
<1>1. IInv => DeferredOnlyNearLimit
  BY DEF IInv, AttemptsAreSound, IsSound, IsNearLimit, Margin, DeferredOnlyNearLimit
<1>. QED BY <1>1, ScanIsSound, PTL

\* The row never shows more than the attempts spent together, however often the
\* review is tried again and whichever attempt writes last.
THEOREM RowShowsBilled == Spec => []RowCostWasBilled
<1>1. IInv => RowCostWasBilled
  BY DEF IInv, MoneyFits, RowCostWasBilled
<1>. QED BY <1>1, ScanIsSound, PTL

=============================================================================
