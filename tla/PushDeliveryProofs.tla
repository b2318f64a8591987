------------------------- MODULE PushDeliveryProofs -------------------------
(***************************************************************************)
(* What PushDelivery promises for every number of phones, users, attempts  *)
(* and faults and every size of a chunk.                                   *)
(*                                                                         *)
(* The invariant IInv follows a push from the plan to its receipt: a pair  *)
(* that is still to be pushed was not delivered, or lost its row, or is    *)
(* one of those that the code lost track of (AttemptIsSafe); a pair that   *)
(* was delivered is recorded, about to be, or lost track of (RecordsFit);  *)
(* and whoever stays reachable is never dropped between the sets of an     *)
(* attempt (AttemptCovers).  It rests on two facts about rows: a row that  *)
(* is gone never comes back under its id (IsDead), and only attempts that  *)
(* were given up run beside the current one (AttemptFits).                 *)
(***************************************************************************)
EXTENDS PushDelivery, TLAPS

-----------------------------------------------------------------------------
(* The inductive invariant *)

Try == 1..MaxAttempts
OutcomeOfReceipt == {"ok", "error", "unregistered"}

\* The row existed, and is gone for good.
WasThere(x) == x[3] <= rows[x[2]].id
IsDead(x) == WasThere(x) /\ ~HasRow(x)

\* A push to x now is the first, or excused.
IsNew(x) == x \notin delivered \/ x \in unsure

\* An attempt that has begun and not ended.
IsRunning(a) == IsPlanning(a) \/ IsUnderWay(a)

\* Attempts begin in turn, and only those that were given up outlast theirs.
HasTurn(a) ==
  /\ ~(a <= flow.attempt) => At(a, "idle") /\ ~attempts[a].isGivenUp
  /\ IsRunning(a) => attempts[a].isGivenUp \/ (flow.pc = "sending" /\ flow.attempt = a)

\* The sets of an attempt, and which attempts there are.
AttemptFits(a) ==
  /\ ~IsUnderWay(a) => attempts[a].unsent = {}
  /\ attempts[a].pc \notin {"request", "record"} => attempts[a].chunk = {}
  /\ attempts[a].pc \notin {"record", "retire"} => attempts[a].unregistered = {}
  /\ attempts[a].unsent \cap attempts[a].chunk = {}
  /\ HasTurn(a)

\* What an attempt has still to push may be pushed.
AttemptIsSafe(a) ==
  /\ \A x \in attempts[a].unsent \cup attempts[a].chunk : WasThere(x)
  /\ attempts[a].isGivenUp => attempts[a].unsent \cup attempts[a].chunk \subseteq unsure
  /\ ~At(a, "recorded") => \A x \in attempts[a].unsent : IsNew(x) \/ IsDead(x)
  /\ At(a, "request") => \A x \in attempts[a].chunk : IsNew(x) /\ (IsBound(x) \/ x \in slipped)
  /\ At(a, "record") => attempts[a].chunk \subseteq delivered

\* Whoever stays reachable is among the pairs of an attempt, or was sent the push.
AttemptCovers(a) ==
  /\ At(a, "recorded") => steady \subseteq attempts[a].unsent
  /\ attempts[a].pc \in {"chunk", "request", "record", "retire"} /\ ~attempts[a].isRetryable /\ ~attempts[a].isRejected
       => steady \subseteq delivered \cup attempts[a].unsent \cup attempts[a].chunk \cup attempts[a].unregistered
  /\ At(a, "sent") => steady \subseteq delivered

IsInRecord(x) == \E a \in Try : At(a, "record") /\ x \in attempts[a].chunk

RecordsFit ==
  /\ \A x \in Pair : receipts[x] # "none" => x \in delivered /\ WasThere(x)
  /\ \A x \in delivered : x \in unsure \/ receipts[x] # "none" \/ IsInRecord(x)
  /\ steady \subseteq Reachable

\* A phone that its receipt found unregistered is gone, or about to be retired.
IsHandled(x) == IsDead(x) \/ x \in check.retiring
NothingRetiredYet == flow.check = 1 => \A x \in Pair : receipts[x] # "unregistered"

CheckFits ==
  /\ flow.pc \in {"sending", "reporting", "waiting"} =>
       flow.check = 1 /\ check = NoCheck /\ \A x \in Pair : receipts[x] \in {"none", "pending"}
  /\ flow.pc \in {"checking", "done"} => \A a \in Try : ~IsRunning(a)
  /\ Checks("load") => NothingRetiredYet
  /\ Checks("read") =>
       /\ NothingRetiredYet
       /\ Pending \subseteq check.pending
       /\ \A x \in check.pending : IsHandled(x)
  /\ Checks("write") =>
       /\ Pending \subseteq UNION {check.found[o] : o \in OutcomeOfReceipt}
       /\ \A x \in check.found["unregistered"] : IsHandled(x)
       /\ flow.check = 1 => \A x \in Pair : receipts[x] = "unregistered" => IsHandled(x)
  /\ flow.pc = "done" /\ ~flow.isReported =>
       /\ Pending = {}
       /\ flow.check = 1 => \A x \in Pair : receipts[x] = "unregistered" => IsDead(x)

IInv ==
  /\ TypeOK
  /\ \A a \in Try : AttemptFits(a)
  /\ \A a \in Try : AttemptIsSafe(a)
  /\ \A a \in Try : AttemptCovers(a)
  /\ RecordsFit
  /\ CheckFits
  /\ MovedPhoneGetsNothing
  /\ RepeatsOnlyIfUnsure
  /\ NobodyIsSkipped

-----------------------------------------------------------------------------
(* Rows *)

\* The bounds are natural numbers.
LEMMA Bounds ==
  /\ NoUser \notin User /\ MaxRows \in Nat /\ MaxRows > 0 /\ MaxAttempts \in Nat /\ MaxAttempts > 0
  /\ MaxChecks \in Nat /\ MaxChecks > 0 /\ MaxMoves \in Nat /\ MaxFaults \in Nat /\ 1 \in Try
BY PushAssumption DEF Try

RowsFit(table) == table \in [Phone -> Row] /\ \A p \in Phone : table[p].user # NoUser => table[p].id > 0

\* A row keeps its id or has no phone, and a new row has a new id.
RowsAge ==
  \A p \in Phone : /\ rows'[p].id >= rows[p].id
                   /\ rows[p].user = NoUser /\ rows'[p].user # NoUser => rows'[p].id > rows[p].id

\* What was there was there, and what is gone stays gone.
LEMMA RowsStayDead ==
  ASSUME RowsFit(rows), RowsFit(rows'), RowsAge
  PROVE  \A x \in Pair : (WasThere(x) => WasThere(x)') /\ (IsDead(x) => IsDead(x)')
<1>1. ASSUME NEW x \in Pair PROVE (WasThere(x) => WasThere(x)') /\ (IsDead(x) => IsDead(x)')
  <2>1. x[2] \in Phone /\ x[3] \in 1..MaxRows BY DEF Pair
  <2>2. rows[x[2]] \in Row /\ rows'[x[2]] \in Row BY <2>1 DEF RowsFit
  <2>3. rows[x[2]].id \in Nat /\ rows'[x[2]].id \in Nat /\ x[3] \in Nat BY <2>1, <2>2, Bounds DEF Row
  <2>4. rows'[x[2]].id >= rows[x[2]].id BY <2>1 DEF RowsAge
  <2>5. rows[x[2]].user = NoUser /\ rows'[x[2]].user # NoUser => rows'[x[2]].id > rows[x[2]].id BY <2>1 DEF RowsAge
  <2>. QED BY <2>3, <2>4, <2>5 DEF WasThere, IsDead, HasRow
<1>. QED BY <1>1

\* Deleting rows.
LEMMA WithoutAges ==
  ASSUME RowsFit(rows), NEW retired, Retire(retired)
  PROVE  /\ RowsFit(rows') /\ RowsAge
         /\ \A x \in Pair : x \in retired => ~HasRow(x)'
<1>1. ASSUME NEW p \in Phone
      PROVE  /\ rows'[p] \in Row /\ (rows'[p].user # NoUser => rows'[p].id > 0)
             /\ rows'[p].id >= rows[p].id
             /\ (rows[p].user = NoUser => rows'[p].user = NoUser)
             /\ rows'[p].id = rows[p].id
             /\ (\E x \in retired : x[2] = p /\ x[3] = rows[p].id) => rows'[p].user = NoUser
  <2>1. rows[p] \in Row /\ (rows[p].user # NoUser => rows[p].id > 0) BY DEF RowsFit
  <2>2. rows'[p] = IF \E x \in retired : x[2] = p /\ x[3] = rows[p].id
                   THEN [user |-> NoUser, id |-> rows[p].id, isLive |-> FALSE] ELSE rows[p]
    BY DEF Retire, Without
  <2>. QED BY <2>1, <2>2, Bounds DEF Row
<1>2. RowsFit(rows') BY <1>1 DEF RowsFit, Retire, Without
<1>3. RowsAge BY <1>1 DEF RowsAge
<1>4. ASSUME NEW x \in Pair, x \in retired PROVE ~HasRow(x)'
  <2>1. x[2] \in Phone BY DEF Pair
  <2>. QED BY <1>1, <1>4, <2>1 DEF HasRow
<1>. QED BY <1>2, <1>3, <1>4

\* Phones and users.
LEMMA MovesAge ==
  ASSUME TypeOK, \/ \E p \in Phone : (\E u \in User : Register(p, u)) \/ Unregister(p) \/ Expire(p) \/ Uninstall(p)
                 \/ \E u \in User : SetPreference(u)
                 \/ LoseEvent
  PROVE  RowsFit(rows') /\ RowsAge /\ wanted' \subseteq User /\ gone' \subseteq Phone
         /\ event' \in {"there", "unheld", "deleted"}
<1>1. RowsFit(rows) BY DEF TypeOK, RowsFit
<1>2. ASSUME NEW p \in Phone, NEW u \in User, Register(p, u)
      PROVE  RowsFit(rows') /\ RowsAge
  <2>1. PICK retired \in SUBSET {q \in Phone \ {p} : rows[q].user = u} :
          /\ rows[p].user = NoUser => rows[p].id < MaxRows
          /\ rows' = [q \in Phone |->
                        IF q = p THEN [user |-> u, isLive |-> TRUE,
                                       id |-> IF rows[p].user = NoUser THEN rows[p].id + 1 ELSE rows[p].id]
                        ELSE IF q \in retired THEN [user |-> NoUser, id |-> rows[q].id, isLive |-> FALSE]
                        ELSE rows[q]]
    BY <1>2 DEF Register
  <2>2. ASSUME NEW q \in Phone
        PROVE  /\ rows'[q] \in Row /\ (rows'[q].user # NoUser => rows'[q].id > 0)
               /\ rows'[q].id >= rows[q].id
               /\ (rows[q].user = NoUser /\ rows'[q].user # NoUser => rows'[q].id > rows[q].id)
    <3>1. rows[q] \in Row /\ (rows[q].user # NoUser => rows[q].id > 0) BY <1>1 DEF RowsFit
    <3>2. rows[q].id \in 0..MaxRows /\ rows[q].id \in Nat BY <3>1, Bounds DEF Row
    <3>3. CASE q = p
      <4>1. rows'[q] = [user |-> u, isLive |-> TRUE,
                        id |-> IF rows[q].user = NoUser THEN rows[q].id + 1 ELSE rows[q].id]
        BY <2>1, <3>3
      <4>. QED BY <2>1, <3>1, <3>2, <3>3, <4>1, Bounds DEF Row
    <3>4. CASE q # p
      <4>1. rows'[q] \in {[user |-> NoUser, id |-> rows[q].id, isLive |-> FALSE], rows[q]} BY <2>1, <3>4
      <4>2. rows'[q].id = rows[q].id /\ rows'[q].user \in {rows[q].user, NoUser} /\ rows'[q] \in Row
        <5>1. [user |-> NoUser, id |-> rows[q].id, isLive |-> FALSE] \in Row BY <3>2 DEF Row
        <5>2. CASE rows'[q] = rows[q] BY <3>1, <5>2
        <5>3. CASE rows'[q] = [user |-> NoUser, id |-> rows[q].id, isLive |-> FALSE] BY <5>1, <5>3
        <5>. QED BY <4>1, <5>2, <5>3
      <4>. QED BY <3>1, <3>2, <4>2
    <3>. QED BY <3>3, <3>4
  <2>. QED BY <2>1, <2>2 DEF RowsFit, RowsAge
<1>3. ASSUME NEW p \in Phone, Unregister(p) \/ Expire(p) PROVE RowsFit(rows') /\ RowsAge
  <2>1. ASSUME NEW q \in Phone
        PROVE  /\ rows'[q] \in Row /\ (rows'[q].user # NoUser => rows'[q].id > 0)
               /\ rows'[q].id >= rows[q].id /\ (rows[q].user = NoUser => rows'[q].user = NoUser)
    <3>1. rows[q] \in Row /\ (rows[q].user # NoUser => rows[q].id > 0) BY <1>1 DEF RowsFit
    <3>2. rows'[q] \in {[rows[q] EXCEPT !.user = NoUser, !.isLive = FALSE], [rows[q] EXCEPT !.isLive = FALSE], rows[q]}
      BY <1>1, <1>3 DEF Unregister, Expire, RowsFit
    <3>3. rows'[q].id = rows[q].id /\ rows'[q].user \in {rows[q].user, NoUser} /\ rows'[q] \in Row
      BY <3>1, <3>2 DEF Row
    <3>4. rows[q].id \in Nat BY <3>1, Bounds DEF Row
    <3>. QED BY <3>1, <3>3, <3>4
  <2>. QED BY <1>1, <1>3, <2>1 DEF RowsFit, RowsAge, Unregister, Expire
<1>4. ASSUME UNCHANGED rows PROVE RowsFit(rows') /\ RowsAge
  <2>1. \A p \in Phone : rows[p].id \in Nat BY <1>1, Bounds DEF RowsFit, Row
  <2>. QED BY <1>1, <1>4, <2>1 DEF RowsAge
<1>5. RowsFit(rows') /\ RowsAge
  BY <1>2, <1>3, <1>4 DEF Uninstall, SetPreference, LoseEvent
<1>6. wanted' \subseteq User /\ gone' \subseteq Phone /\ event' \in {"there", "unheld", "deleted"}
  BY DEF TypeOK, Register, Unregister, Expire, Uninstall, SetPreference, LoseEvent
<1>. QED BY <1>5, <1>6

-----------------------------------------------------------------------------
(* What a step leaves alone *)

\* Rows age, those who leave are seen to, and what was delivered stays so.
Kept ==
  /\ RowsFit(rows') /\ RowsAge
  /\ slipped \subseteq slipped' /\ \A x \in Checked : ~IsBound(x)' => x \in slipped'
  /\ steady' \subseteq steady /\ steady' \subseteq Reachable'
  /\ delivered \subseteq delivered' /\ unsure \subseteq unsure'

\* An attempt that does not move fits as before.
LEMMA AttemptStays ==
  ASSUME IInv, NEW a \in Try, attempts'[a] = attempts[a], Kept,
         HasTurn(a)',
         \A x \in attempts[a].unsent \cup attempts[a].chunk : x \in delivered' \ delivered => x \in unsure'
  PROVE  AttemptFits(a)' /\ AttemptIsSafe(a)' /\ AttemptCovers(a)'
<1>1. AttemptFits(a) /\ AttemptIsSafe(a) /\ AttemptCovers(a) BY DEF IInv
<1>2. attempts[a] \in Attempt BY DEF IInv, TypeOK, Try
<1>3. attempts[a].unsent \subseteq Pair /\ attempts[a].chunk \subseteq Pair BY <1>2 DEF Attempt
<1>4. RowsFit(rows) BY DEF IInv, TypeOK, RowsFit
<1>5. \A x \in Pair : (WasThere(x) => WasThere(x)') /\ (IsDead(x) => IsDead(x)')
  BY <1>4, RowsStayDead DEF Kept
<1>6. AttemptFits(a)' BY <1>1 DEF AttemptFits, IsUnderWay, At
<1>7. \A x \in attempts[a].unsent \cup attempts[a].chunk : IsNew(x) => IsNew(x)'
  BY DEF IsNew, Kept
<1>8. At(a, "request") => attempts[a].chunk \subseteq Checked BY DEF At, Checked, Try
<1>9. AttemptIsSafe(a)'
  <2>1. \A x \in attempts[a].unsent \cup attempts[a].chunk : WasThere(x)' BY <1>1, <1>3, <1>5 DEF AttemptIsSafe
  <2>2. attempts[a].isGivenUp => attempts[a].unsent \cup attempts[a].chunk \subseteq unsure'
    BY <1>1 DEF AttemptIsSafe, Kept
  <2>3. ~At(a, "recorded") => \A x \in attempts[a].unsent : IsNew(x)' \/ IsDead(x)'
    BY <1>1, <1>3, <1>5, <1>7 DEF AttemptIsSafe
  <2>4. At(a, "request") => \A x \in attempts[a].chunk : IsNew(x)' /\ (IsBound(x)' \/ x \in slipped')
    BY <1>1, <1>7, <1>8 DEF AttemptIsSafe, Kept
  <2>5. At(a, "record") => attempts[a].chunk \subseteq delivered' BY <1>1 DEF AttemptIsSafe, Kept
  <2> HIDE DEF WasThere, IsNew, IsDead, IsBound
  <2>. QED BY <2>1, <2>2, <2>3, <2>4, <2>5 DEF AttemptIsSafe, At
<1>10. AttemptCovers(a)' BY <1>1 DEF AttemptCovers, At, Kept
<1>. QED BY <1>6, <1>9, <1>10

\* Only the attempt moves.
OnlyAttempt(a) ==
  /\ attempts' \in [Try -> Attempt]
  /\ \A b \in Try \ {a} : attempts'[b] = attempts[b]

LEMMA GoingMoves ==
  ASSUME TypeOK, NEW a \in Try, NEW to \in Attempt, Goes(a, to)
  PROVE  OnlyAttempt(a) /\ attempts'[a] = to
BY DEF TypeOK, Try, Goes, OnlyAttempt

\* A step of one attempt keeps the invariant if the attempt and what it records fit.
LEMMA AttemptHolds ==
  ASSUME IInv, NEW a \in Try, OnlyAttempt(a), Kept,
         IsRunning(a), UNCHANGED <<wanted, event, foreign, gone, moves, flow, check>>,
         faults' \in 0..MaxFaults, delivered' \subseteq Pair, repeated' \subseteq unsure', unsure' \subseteq Pair,
         misdirected' \subseteq slipped', slipped' \subseteq Pair,
         receipts' \in [Pair -> {"none", "pending", "ok", "error", "unregistered"}],
         \A x \in Pair : receipts'[x] = receipts[x] \/ receipts'[x] = "pending",
         delivered' \ delivered \subseteq attempts[a].chunk,
         AttemptFits(a)', AttemptIsSafe(a)', AttemptCovers(a)', RecordsFit'
  PROVE  IInv'
<1>1. TypeOK /\ CheckFits /\ AttemptFits(a) BY DEF IInv
<1>2. TypeOK'
  BY <1>1 DEF TypeOK, Kept, RowsFit, OnlyAttempt, Try
<1>3. ASSUME NEW b \in Try, b # a PROVE AttemptFits(b)' /\ AttemptIsSafe(b)' /\ AttemptCovers(b)'
  <2>1. attempts'[b] = attempts[b] BY <1>3 DEF OnlyAttempt
  <2>2. AttemptFits(b) /\ AttemptIsSafe(b) BY DEF IInv
  <2>3. HasTurn(b)' BY <2>1, <2>2 DEF AttemptFits, HasTurn, IsRunning, IsPlanning, IsUnderWay, At
  <2>4. \A x \in attempts[b].unsent \cup attempts[b].chunk : x \in delivered' \ delivered => x \in unsure'
    <3>1. CASE attempts[b].isGivenUp BY <2>2, <3>1 DEF AttemptIsSafe, Kept
    <3>2. CASE ~IsUnderWay(b)
      BY <2>2, <3>2 DEF AttemptFits, IsUnderWay
    <3>3. CASE IsUnderWay(b) /\ ~attempts[b].isGivenUp
      <4>1. flow.attempt = b BY <2>2, <3>3 DEF AttemptFits, HasTurn, IsRunning
      <4>2. attempts[a].isGivenUp BY <1>1, <1>3, <4>1 DEF AttemptFits, HasTurn
      <4>3. attempts[a].chunk \subseteq unsure BY <4>2 DEF IInv, AttemptIsSafe
      <4>. QED BY <4>3 DEF Kept
    <3>. QED BY <3>1, <3>2, <3>3
  <2>. QED BY <2>1, <2>3, <2>4, AttemptStays
<1>4. CheckFits'
  <2>1. flow.pc \notin {"checking", "done"} BY DEF IInv, CheckFits
  <2>. QED BY <1>1, <2>1 DEF CheckFits, Checks
<1>5. NobodyIsSkipped' BY DEF IInv, NobodyIsSkipped, Kept
<1>6. MovedPhoneGetsNothing' /\ RepeatsOnlyIfUnsure' BY DEF MovedPhoneGetsNothing, RepeatsOnlyIfUnsure
<1>. QED BY <1>2, <1>3, <1>4, <1>5, <1>6 DEF IInv

\* A step that leaves rows and recipients alone.
LEMMA StaysKept ==
  ASSUME IInv, UNCHANGED <<rows, wanted, event, slipped, steady>>, delivered \subseteq delivered', unsure \subseteq unsure'
  PROVE  Kept /\ slipped' \subseteq Pair
<1>1. RowsFit(rows') BY DEF IInv, TypeOK, RowsFit
<1>2. RowsAge
  <2>1. \A p \in Phone : rows[p].id \in Nat BY Bounds DEF IInv, TypeOK, Row
  <2>. QED BY <2>1 DEF RowsAge
<1>3. \A x \in Checked : ~IsBound(x)' => x \in slipped'
  BY DEF Checked, IInv, AttemptIsSafe, At, Try, IsBound, HasRow
<1>4. steady' \subseteq Reachable' BY DEF IInv, RecordsFit, Reachable, IsBound, HasRow
<1>. QED BY <1>1, <1>2, <1>3, <1>4 DEF Kept, IInv, TypeOK

\* A step that watches who leaves.
LEMMA WatchKept ==
  ASSUME IInv, RowsFit(rows'), RowsAge, Watch, delivered \subseteq delivered', unsure \subseteq unsure'
  PROVE  Kept /\ slipped' \subseteq Pair
<1>1. Checked \subseteq Pair BY DEF Checked, IInv, TypeOK, Attempt
<1>. QED BY <1>1 DEF Watch, Kept, IInv, TypeOK

\* What is recorded, or on its way, stays accounted for.
LEMMA RecordsHold ==
  ASSUME IInv, NEW a \in Try, OnlyAttempt(a), Kept, delivered' \subseteq Pair,
         receipts' \in [Pair -> {"none", "pending", "ok", "error", "unregistered"}],
         \A x \in Pair : receipts[x] # "none" => receipts'[x] # "none",
         \A x \in Pair : receipts'[x] # "none" => receipts[x] # "none" \/ (x \in delivered' /\ WasThere(x)'),
         \A x \in delivered' : x \in delivered \/ x \in unsure' \/ (At(a, "record")' /\ x \in attempts'[a].chunk),
         At(a, "record") =>
           \A x \in attempts[a].chunk :
             x \in unsure' \/ receipts'[x] # "none" \/ (At(a, "record")' /\ x \in attempts'[a].chunk)
  PROVE  RecordsFit'
<1>1. RecordsFit BY DEF IInv
<1>2. RowsFit(rows) BY DEF IInv, TypeOK, RowsFit
<1>3. \A x \in Pair : WasThere(x) => WasThere(x)' BY <1>2, RowsStayDead DEF Kept
<1>4. \A x \in Pair : receipts'[x] # "none" => x \in delivered' /\ WasThere(x)'
  BY <1>1, <1>3 DEF RecordsFit, Kept
<1>5. ASSUME NEW x \in delivered' PROVE x \in unsure' \/ receipts'[x] # "none" \/ IsInRecord(x)'
  <2>1. CASE x \in delivered /\ IsInRecord(x)
    <3>1. PICK b \in Try : At(b, "record") /\ x \in attempts[b].chunk BY <2>1 DEF IsInRecord
    <3>2. CASE b = a BY <3>1, <3>2 DEF IsInRecord
    <3>3. CASE b # a
      <4>1. attempts'[b] = attempts[b] BY <3>3 DEF OnlyAttempt
      <4>. QED BY <3>1, <4>1 DEF IsInRecord, At
    <3>. QED BY <3>2, <3>3
  <2>2. CASE x \in delivered /\ ~IsInRecord(x)
    <3>1. x \in Pair /\ (x \in unsure \/ receipts[x] # "none") BY <1>1, <2>2 DEF RecordsFit
    <3>. QED BY <3>1 DEF Kept
  <2>3. CASE x \notin delivered
    <3>1. x \in unsure' \/ (At(a, "record")' /\ x \in attempts'[a].chunk) BY <2>3
    <3>. QED BY <3>1 DEF IsInRecord
  <2>. QED BY <2>1, <2>2, <2>3
<1> HIDE DEF WasThere, IsInRecord
<1>. QED BY <1>4, <1>5 DEF RecordsFit, Kept

\* An attempt that ends has nothing left to push.
LEMMA EndingFits ==
  ASSUME IInv, NEW a \in Try, NEW outcome \in {"sent", "retryable", "rejected"}, Ends(a, outcome), UNCHANGED flow,
         IsRunning(a)
  PROVE  /\ OnlyAttempt(a) /\ attempts'[a].pc = outcome /\ attempts'[a].chunk = {}
         /\ AttemptFits(a)' /\ AttemptIsSafe(a)'
         /\ (outcome = "sent" => steady' \subseteq delivered') => AttemptCovers(a)'
<1>1. TypeOK /\ attempts[a] \in Attempt BY DEF IInv, TypeOK, Try
<1> DEFINE ended == [Idle EXCEPT !.pc = outcome, !.isGivenUp = attempts[a].isGivenUp]
<1>2. ended \in Attempt /\ ended.pc = outcome /\ ended.unsent = {} /\ ended.chunk = {} /\ ended.unregistered = {}
  BY <1>1 DEF Idle, Attempt
<1>3. Goes(a, ended) BY DEF Ends
<1> HIDE DEF ended
<1>4. OnlyAttempt(a) /\ attempts'[a] = ended BY <1>1, <1>2, <1>3, GoingMoves
<1>5. HasTurn(a)'
  <2>1. HasTurn(a) BY DEF IInv, AttemptFits
  <2>2. a <= flow.attempt BY <2>1 DEF HasTurn, IsRunning, IsPlanning, IsUnderWay, At
  <2>. QED BY <1>2, <1>4, <2>2 DEF HasTurn, IsRunning, IsPlanning, IsUnderWay, At
<1> HIDE DEF HasTurn
<1>. QED BY <1>2, <1>4, <1>5 DEF AttemptFits, AttemptIsSafe, AttemptCovers, IsUnderWay, At

-----------------------------------------------------------------------------
(* The steps of an attempt *)

\* What no step of an attempt touches.
Beside == UNCHANGED <<wanted, event, foreign, gone, moves, flow, check>>

\* A fault is counted, if there is one.
LEMMA FaultsStay ==
  ASSUME TypeOK, UNCHANGED faults \/ Fault PROVE faults' \in 0..MaxFaults
BY Bounds DEF TypeOK, Fault

\* A quiet step of an attempt only moves it.
LEMMA QuietHolds ==
  ASSUME IInv, NEW a \in Try, Beside, OnlyAttempt(a), UNCHANGED <<rows, receipts, history>>, UNCHANGED faults \/ Fault,
         IsRunning(a), ~At(a, "record"), AttemptFits(a)', AttemptIsSafe(a)', AttemptCovers(a)'
  PROVE  IInv'
<1>1. TypeOK /\ faults' \in 0..MaxFaults BY FaultsStay DEF IInv
<1>2. Kept /\ slipped' \subseteq Pair BY StaysKept DEF history, Beside
<1>3. RecordsFit'
  <2>1. \A x \in delivered' : x \in delivered BY DEF history
  <2>. QED BY <1>1, <1>2, <2>1, RecordsHold DEF TypeOK, history
<1>4. misdirected' \subseteq slipped' /\ repeated' \subseteq unsure'
  BY DEF IInv, MovedPhoneGetsNothing, RepeatsOnlyIfUnsure, history
<1>. QED BY <1>1, <1>2, <1>3, <1>4, AttemptHolds DEF TypeOK, history, Beside

\* Reachable pairs were planned for a row that is there.
LEMMA ReachableWasThere ==
  ASSUME TypeOK PROVE \A x \in Reachable : x \in Pair /\ WasThere(x) /\ HasRow(x)
<1>1. ASSUME NEW x \in Reachable PROVE x \in Pair /\ WasThere(x) /\ HasRow(x)
  <2>1. x \in Pair /\ HasRow(x) BY DEF Reachable, IsBound
  <2>2. x[2] \in Phone BY <2>1 DEF Pair
  <2>3. rows[x[2]].id \in Nat BY <2>2, Bounds DEF TypeOK, Row
  <2>. QED BY <2>1, <2>3 DEF HasRow, WasThere
<1>. QED BY <1>1

\* An attempt that plans after it was given up may repeat what the next one pushed.
LEMMA PlanHolds == ASSUME IInv, NEW a \in Try, Plan(a), Beside PROVE IInv'
<1>1. TypeOK /\ RecordsFit /\ attempts[a] \in Attempt /\ AttemptFits(a) BY DEF IInv, TypeOK, Try
<1>2. /\ At(a, "idle") /\ IsRunning(a)
      /\ UNCHANGED <<faults, rows, receipts, slipped, steady, delivered, repeated, misdirected>>
      /\ unsure' = unsure \cup (IF attempts[a].isGivenUp THEN Reachable ELSE {})
  BY DEF Plan, IsPlanning, IsRunning, Loses, Stays
<1>3. OnlyAttempt(a) /\ AttemptFits(a)' /\ AttemptIsSafe(a)' /\ AttemptCovers(a)'
  <2>1. CASE Reachable = {}
    <3>1. Ends(a, "sent") /\ UNCHANGED flow BY <2>1 DEF Plan, Beside
    <3>2. steady' \subseteq delivered' BY <1>1, <1>2, <2>1 DEF RecordsFit
    <3>. QED BY <1>2, <3>1, <3>2, EndingFits
  <2>2. CASE Reachable # {}
    <3> DEFINE to == [attempts[a] EXCEPT !.pc = "recorded", !.unsent = Reachable]
    <3>1. to \in Attempt /\ to.pc = "recorded" /\ to.unsent = Reachable /\ to.chunk = attempts[a].chunk
          /\ to.unregistered = attempts[a].unregistered /\ to.isGivenUp = attempts[a].isGivenUp
      BY <1>1 DEF Attempt, Reachable
    <3>2. Goes(a, to) BY <2>2 DEF Plan
    <3> HIDE DEF to
    <3>3. OnlyAttempt(a) /\ attempts'[a] = to BY <1>1, <3>1, <3>2, GoingMoves
    <3>4. to.chunk = {} /\ to.unregistered = {} BY <1>1, <1>2, <3>1 DEF AttemptFits, At
    <3>5. AttemptFits(a)'
      BY <1>1, <1>2, <3>1, <3>3, <3>4 DEF AttemptFits, HasTurn, IsRunning, IsPlanning, IsUnderWay, At, Beside
    <3>6. AttemptCovers(a)' BY <1>1, <1>2, <3>1, <3>3 DEF AttemptCovers, At, RecordsFit
    <3>7. AttemptIsSafe(a)'
      <4>1. \A x \in Reachable : WasThere(x) BY <1>1, ReachableWasThere
      <4>2. \A x \in Reachable : WasThere(x)' BY <1>2, <4>1 DEF WasThere
      <4>3. to.isGivenUp => Reachable \subseteq unsure' BY <1>2, <3>1
      <4> HIDE DEF WasThere, Reachable
      <4>. QED BY <3>1, <3>3, <3>4, <4>2, <4>3 DEF AttemptIsSafe, At
    <3>. QED BY <3>3, <3>5, <3>6, <3>7
  <2>. QED BY <2>1, <2>2
<1>4. unsure \subseteq unsure' /\ unsure' \subseteq Pair BY <1>1, <1>2 DEF TypeOK, Reachable
<1>5. Kept /\ slipped' \subseteq Pair BY <1>2, <1>4, StaysKept DEF Beside
<1>6. RecordsFit'
  <2>1. \A x \in delivered' : x \in delivered BY <1>2
  <2>2. ~At(a, "record") BY <1>2 DEF At
  <2>. QED BY <1>1, <1>2, <1>3, <1>5, <2>1, <2>2, RecordsHold DEF TypeOK
<1>7. misdirected' \subseteq slipped' /\ repeated' \subseteq unsure'
  BY <1>2, <1>4 DEF IInv, MovedPhoneGetsNothing, RepeatsOnlyIfUnsure
<1>. QED BY <1>1, <1>2, <1>3, <1>4, <1>5, <1>6, <1>7, AttemptHolds, FaultsStay DEF TypeOK, Beside

LEMMA LoadRecordedHolds == ASSUME IInv, NEW a \in Try, LoadRecorded(a), Beside PROVE IInv'
<1>1. TypeOK /\ RecordsFit /\ attempts[a] \in Attempt /\ AttemptFits(a) /\ AttemptIsSafe(a) /\ AttemptCovers(a)
  BY DEF IInv, TypeOK, Try
<1>2. At(a, "recorded") /\ IsRunning(a) /\ UNCHANGED <<faults, rows, receipts, history>>
  BY DEF LoadRecorded, At, IsUnderWay, IsRunning
<1> DEFINE unsent == Unrecorded(attempts[a].unsent)
<1>3. steady \subseteq delivered \cup unsent
  <2>1. \A x \in Recorded : x \in delivered BY <1>1 DEF RecordsFit, Recorded
  <2>. QED BY <1>1, <1>2, <2>1 DEF AttemptCovers, Unrecorded
<1>4. attempts[a].unsent \subseteq Pair /\ unsent \subseteq attempts[a].unsent BY <1>1 DEF Attempt, Unrecorded
<1>5. \A x \in unsent : IsNew(x) \/ IsDead(x)
  <2>1. ASSUME NEW x \in unsent, x \in delivered, x \notin unsure PROVE IsDead(x)
    <3>1. ~IsInRecord(x)
      <4>1. SUFFICES ASSUME NEW b \in Try, At(b, "record"), x \in attempts[b].chunk PROVE FALSE BY DEF IsInRecord
      <4>2. AttemptFits(b) /\ AttemptIsSafe(b) /\ IsUnderWay(b) BY <4>1 DEF IInv, At, IsUnderWay
      <4>3. ~attempts[b].isGivenUp BY <2>1, <4>1, <4>2 DEF AttemptIsSafe
      <4>4. flow.attempt = b BY <4>2, <4>3 DEF AttemptFits, HasTurn, IsRunning
      <4>5. a # b BY <1>2, <4>1 DEF At
      <4>6. attempts[a].isGivenUp BY <1>1, <1>2, <4>4, <4>5 DEF AttemptFits, HasTurn
      <4>. QED BY <1>1, <1>4, <2>1, <4>6 DEF AttemptIsSafe
    <3>2. receipts[x] # "none" BY <1>1, <2>1, <3>1 DEF RecordsFit
    <3>3. WasThere(x) BY <1>1, <1>4 DEF AttemptIsSafe
    <3>. QED BY <1>4, <3>2, <3>3 DEF IsDead, Unrecorded, Recorded
  <2>. QED BY <2>1 DEF IsNew
<1> HIDE DEF unsent
<1>6. CASE unsent = {}
  <2>1. Ends(a, "sent") /\ UNCHANGED flow BY <1>6 DEF LoadRecorded, Beside, unsent
  <2>2. steady' \subseteq delivered' BY <1>2, <1>3, <1>6 DEF history
  <2>3. OnlyAttempt(a) /\ AttemptFits(a)' /\ AttemptIsSafe(a)' /\ AttemptCovers(a)' BY <1>2, <2>1, <2>2, EndingFits
  <2>. QED BY <1>2, <2>3, QuietHolds DEF At
<1>7. CASE unsent # {}
  <2> DEFINE to == [attempts[a] EXCEPT !.pc = "chunk", !.unsent = unsent]
  <2>1. to \in Attempt /\ to.pc = "chunk" /\ to.unsent = unsent /\ to.chunk = attempts[a].chunk
        /\ to.unregistered = attempts[a].unregistered /\ to.isGivenUp = attempts[a].isGivenUp
        /\ to.isRetryable = attempts[a].isRetryable
    BY <1>1, <1>4 DEF Attempt
  <2>2. Goes(a, to) BY <1>7 DEF LoadRecorded, unsent
  <2> HIDE DEF to
  <2>3. OnlyAttempt(a) /\ attempts'[a] = to BY <1>1, <2>1, <2>2, GoingMoves
  <2>4. to.chunk = {} /\ to.unregistered = {} BY <1>1, <1>2, <2>1 DEF AttemptFits, At
  <2>5. AttemptFits(a)' BY <1>1, <1>2, <2>1, <2>3, <2>4 DEF AttemptFits, HasTurn, IsRunning, IsPlanning, IsUnderWay, At, Beside
  <2>6. AttemptCovers(a)' BY <1>2, <1>3, <2>1, <2>3 DEF AttemptCovers, At, history
  <2>7. AttemptIsSafe(a)'
    <3>1. \A x \in unsent : WasThere(x)' BY <1>1, <1>2, <1>4 DEF AttemptIsSafe, WasThere
    <3>2. \A x \in unsent : IsNew(x)' \/ IsDead(x)' BY <1>2, <1>5 DEF IsNew, IsDead, WasThere, HasRow, history
    <3>3. to.isGivenUp => unsent \subseteq unsure' BY <1>1, <1>2, <1>4, <2>1 DEF AttemptIsSafe, history
    <3> HIDE DEF WasThere, IsNew, IsDead
    <3>. QED BY <2>1, <2>3, <2>4, <3>1, <3>2, <3>3 DEF AttemptIsSafe, At
  <2>. QED BY <1>2, <2>3, <2>5, <2>6, <2>7, QuietHolds DEF At
<1>. QED BY <1>6, <1>7

LEMMA NextChunkHolds == ASSUME IInv, NEW a \in Try, NextChunk(a), Beside PROVE IInv'
<1>1. TypeOK /\ RecordsFit /\ attempts[a] \in Attempt /\ AttemptFits(a) /\ AttemptIsSafe(a) /\ AttemptCovers(a)
  BY DEF IInv, TypeOK, Try
<1>2. At(a, "chunk") /\ IsRunning(a) /\ UNCHANGED <<faults, rows, receipts, history>> BY DEF NextChunk, At, IsUnderWay, IsRunning
<1>3. PICK planned \in SUBSET attempts[a].unsent :
        Goes(a, [attempts[a] EXCEPT !.pc = IF StillBound(planned) = {} THEN "chunk" ELSE "request",
                                    !.unsent = @ \ planned, !.chunk = StillBound(planned)])
  BY DEF NextChunk
<1> DEFINE bound == StillBound(planned)
<1> DEFINE to == [attempts[a] EXCEPT !.pc = IF bound = {} THEN "chunk" ELSE "request",
                                     !.unsent = @ \ planned, !.chunk = bound]
<1>4. bound \subseteq planned /\ (\A x \in bound : IsBound(x)) /\ (\A x \in planned \ bound : ~IsBound(x))
  BY DEF StillBound
<1>5. attempts[a].unsent \subseteq Pair BY <1>1 DEF Attempt
<1> HIDE DEF bound
<1>6. /\ to \in Attempt /\ to.pc = (IF bound = {} THEN "chunk" ELSE "request")
      /\ to.unsent = attempts[a].unsent \ planned /\ to.chunk = bound
      /\ to.unregistered = attempts[a].unregistered /\ to.isGivenUp = attempts[a].isGivenUp
      /\ to.isRetryable = attempts[a].isRetryable /\ to.isRejected = attempts[a].isRejected
  BY <1>1, <1>4, <1>5 DEF Attempt
<1>7. Goes(a, to) BY <1>3 DEF bound
<1> HIDE DEF to
<1>8. OnlyAttempt(a) /\ attempts'[a] = to BY <1>1, <1>6, <1>7, GoingMoves
<1>9. to.unregistered = {} BY <1>1, <1>2, <1>6 DEF AttemptFits, At
<1>10. AttemptFits(a)'
  BY <1>1, <1>2, <1>4, <1>6, <1>8, <1>9 DEF AttemptFits, HasTurn, IsRunning, IsPlanning, IsUnderWay, At, Beside
<1>11. AttemptCovers(a)'
  <2>1. \A x \in steady : IsBound(x) BY <1>1 DEF RecordsFit, Reachable
  <2>2. ~to.isRetryable /\ ~to.isRejected => steady \subseteq delivered \cup to.unsent \cup to.chunk
    BY <1>1, <1>2, <1>4, <1>6, <1>9, <2>1 DEF AttemptCovers, AttemptFits, At
  <2>. QED BY <1>2, <1>6, <1>8, <2>2 DEF AttemptCovers, At, history
<1>12. AttemptIsSafe(a)'
  <2>1. \A x \in to.unsent \cup to.chunk : x \in attempts[a].unsent BY <1>4, <1>6
  <2>2. \A x \in to.unsent \cup to.chunk : WasThere(x)' BY <1>1, <1>2, <2>1 DEF AttemptIsSafe, WasThere
  <2>3. \A x \in to.unsent : IsNew(x)' \/ IsDead(x)'
    BY <1>1, <1>2, <2>1 DEF AttemptIsSafe, At, IsNew, IsDead, WasThere, HasRow, history
  <2>4. \A x \in to.chunk : IsNew(x)' /\ IsBound(x)'
    <3>1. ASSUME NEW x \in to.chunk PROVE IsNew(x) /\ IsBound(x)
      <4>1. IsBound(x) /\ x \in attempts[a].unsent BY <1>4, <1>6, <2>1
      <4>2. IsNew(x) \/ IsDead(x) BY <1>1, <1>2, <4>1 DEF AttemptIsSafe, At
      <4>. QED BY <4>1, <4>2 DEF IsBound, IsDead
    <3>. QED BY <1>2, <3>1 DEF IsNew, IsBound, HasRow, history
  <2>5. to.isGivenUp => to.unsent \cup to.chunk \subseteq unsure' BY <1>1, <1>2, <1>6, <2>1 DEF AttemptIsSafe, history
  <2> HIDE DEF WasThere, IsNew, IsDead, IsBound
  <2>. QED BY <1>6, <1>8, <2>2, <2>3, <2>4, <2>5 DEF AttemptIsSafe, At
<1>. QED BY <1>2, <1>8, <1>10, <1>11, <1>12, QuietHolds DEF At

LEMMA StopCancelledHolds == ASSUME IInv, NEW a \in Try, StopCancelled(a), Beside PROVE IInv'
<1>1. At(a, "chunk") /\ IsRunning(a) /\ UNCHANGED <<faults, rows, receipts, history>> /\ Ends(a, "retryable")
  BY DEF StopCancelled, At, IsUnderWay, IsRunning
<1>2. OnlyAttempt(a) /\ AttemptFits(a)' /\ AttemptIsSafe(a)' /\ AttemptCovers(a)' BY <1>1, EndingFits DEF Beside
<1>. QED BY <1>1, <1>2, QuietHolds DEF At

LEMMA PlanFailsHolds == ASSUME IInv, NEW a \in Try, PlanFails(a), Beside PROVE IInv'
<1>1. At(a, "idle") /\ IsRunning(a) /\ UNCHANGED <<rows, receipts, history>> /\ Fault /\ Ends(a, "retryable")
  BY DEF PlanFails, IsPlanning, IsRunning
<1>2. OnlyAttempt(a) /\ AttemptFits(a)' /\ AttemptIsSafe(a)' /\ AttemptCovers(a)' BY <1>1, EndingFits DEF Beside
<1>. QED BY <1>1, <1>2, QuietHolds DEF At

LEMMA FinishSendHolds == ASSUME IInv, NEW a \in Try, FinishSend(a), Beside PROVE IInv'
<1>1. AttemptFits(a) /\ AttemptCovers(a) /\ attempts[a] \in Attempt BY DEF IInv, TypeOK, Try
<1>2. At(a, "chunk") /\ IsRunning(a) /\ attempts[a].unsent = {} /\ UNCHANGED <<faults, rows, receipts, history>>
  BY DEF FinishSend, At, IsUnderWay, IsRunning
<1>3. Outcome(a) \in {"sent", "retryable", "rejected"}
      /\ (Outcome(a) = "sent" => ~attempts[a].isRetryable /\ ~attempts[a].isRejected)
  BY <1>1 DEF Outcome, Attempt
<1>4. Outcome(a) = "sent" => steady' \subseteq delivered'
  BY <1>1, <1>2, <1>3 DEF AttemptFits, AttemptCovers, At, history
<1>5. Ends(a, Outcome(a)) BY DEF FinishSend
<1> HIDE DEF Outcome
<1>6. OnlyAttempt(a) /\ AttemptFits(a)' /\ AttemptIsSafe(a)' /\ AttemptCovers(a)'
  BY <1>2, <1>3, <1>4, <1>5, EndingFits DEF Beside
<1>. QED BY <1>2, <1>6, QuietHolds DEF At

LEMMA RequestRefusedHolds == ASSUME IInv, NEW a \in Try, RequestRefused(a), Beside PROVE IInv'
<1>1. TypeOK /\ attempts[a] \in Attempt /\ AttemptFits(a) /\ AttemptIsSafe(a) BY DEF IInv, TypeOK, Try
<1>2. At(a, "request") /\ IsRunning(a) /\ UNCHANGED <<rows, receipts, history>> /\ Fault
  BY DEF RequestRefused, At, IsUnderWay, IsRunning
<1>3. CASE Ends(a, "retryable")
  <2>1. OnlyAttempt(a) /\ AttemptFits(a)' /\ AttemptIsSafe(a)' /\ AttemptCovers(a)' BY <1>2, <1>3, EndingFits DEF Beside
  <2>. QED BY <1>2, <2>1, QuietHolds DEF At
<1>4. CASE Goes(a, [attempts[a] EXCEPT !.pc = "chunk", !.chunk = {}, !.isRejected = TRUE])
  <2> DEFINE to == [attempts[a] EXCEPT !.pc = "chunk", !.chunk = {}, !.isRejected = TRUE]
  <2>1. to \in Attempt /\ to.pc = "chunk" /\ to.unsent = attempts[a].unsent /\ to.chunk = {}
        /\ to.unregistered = attempts[a].unregistered /\ to.isGivenUp = attempts[a].isGivenUp /\ to.isRejected
    BY <1>1 DEF Attempt
  <2>2. Goes(a, to) BY <1>4
  <2> HIDE DEF to
  <2>3. OnlyAttempt(a) /\ attempts'[a] = to BY <1>1, <2>1, <2>2, GoingMoves
  <2>4. AttemptFits(a)' BY <1>1, <1>2, <2>1, <2>3 DEF AttemptFits, HasTurn, IsRunning, IsPlanning, IsUnderWay, At, Beside
  <2>5. AttemptCovers(a)' BY <2>1, <2>3 DEF AttemptCovers, At
  <2>6. AttemptIsSafe(a)'
    BY <1>1, <1>2, <2>1, <2>3 DEF AttemptIsSafe, At, IsNew, IsDead, WasThere, HasRow, history
  <2>. QED BY <1>2, <2>3, <2>4, <2>5, <2>6, QuietHolds DEF At
<1>. QED BY <1>3, <1>4 DEF RequestRefused

\* What is accepted at a request is new or excused, and went where it was planned or slipped.
LEMMA AcceptingIsSafe ==
  ASSUME IInv, NEW a \in Try, At(a, "request"), NEW ok \in SUBSET attempts[a].chunk, Accepts(ok),
         UNCHANGED <<rows, slipped>>, unsure \subseteq unsure'
  PROVE  /\ delivered \subseteq delivered' /\ delivered' = delivered \cup ok /\ delivered' \subseteq Pair
         /\ repeated' \subseteq unsure' /\ misdirected' \subseteq slipped'
<1>1. TypeOK /\ attempts[a] \in Attempt /\ AttemptIsSafe(a) /\ misdirected \subseteq slipped /\ repeated \subseteq unsure
  BY DEF IInv, TypeOK, Try, MovedPhoneGetsNothing, RepeatsOnlyIfUnsure
<1>2. \A x \in ok : IsNew(x) /\ (IsBound(x) \/ x \in slipped) BY <1>1 DEF AttemptIsSafe
<1>3. delivered' = delivered \cup ok /\ repeated' = repeated \cup (ok \cap delivered)
      /\ misdirected' = misdirected \cup {x \in ok : ~IsBound(x)}
  BY DEF Accepts
<1>4. ok \subseteq Pair /\ delivered \subseteq Pair BY <1>1 DEF Attempt, TypeOK
<1>5. repeated' \subseteq unsure' BY <1>1, <1>2, <1>3 DEF IsNew
<1>6. misdirected' \subseteq slipped' BY <1>1, <1>2, <1>3
<1>. QED BY <1>3, <1>4, <1>5, <1>6

LEMMA RequestAnsweredHolds == ASSUME IInv, NEW a \in Try, RequestAnswered(a), Beside PROVE IInv'
<1>1. TypeOK /\ attempts[a] \in Attempt /\ AttemptFits(a) /\ AttemptIsSafe(a) /\ AttemptCovers(a) /\ RecordsFit
  BY DEF IInv, TypeOK, Try
<1>2. At(a, "request") /\ IsRunning(a) /\ UNCHANGED <<rows, receipts, unsure, slipped, steady>>
  BY DEF RequestAnswered, At, IsUnderWay, IsRunning, Stays
<1> DEFINE chunk == attempts[a].chunk
<1>3. PICK ok \in SUBSET chunk, unregistered \in SUBSET chunk, isRetryable \in BOOLEAN :
        /\ UNCHANGED faults \/ Fault
        /\ Accepts(ok)
        /\ Goes(a, Tallied([attempts[a] EXCEPT !.pc = "record", !.chunk = ok, !.unregistered = unregistered],
                           chunk \ (ok \cup unregistered), isRetryable))
  BY DEF RequestAnswered
<1> DEFINE to == Tallied([attempts[a] EXCEPT !.pc = "record", !.chunk = ok, !.unregistered = unregistered],
                         chunk \ (ok \cup unregistered), isRetryable)
<1>4. chunk \subseteq Pair BY <1>1 DEF Attempt
<1>5. /\ to \in Attempt /\ to.pc = "record" /\ to.unsent = attempts[a].unsent /\ to.chunk = ok
      /\ to.unregistered = unregistered /\ to.isGivenUp = attempts[a].isGivenUp
      /\ ~to.isRetryable /\ ~to.isRejected =>
           ~attempts[a].isRetryable /\ ~attempts[a].isRejected /\ chunk \subseteq ok \cup unregistered
  <2> DEFINE plain == [attempts[a] EXCEPT !.pc = "record", !.chunk = ok, !.unregistered = unregistered]
  <2>1. /\ plain \in Attempt /\ plain.pc = "record" /\ plain.unsent = attempts[a].unsent /\ plain.chunk = ok
        /\ plain.unregistered = unregistered /\ plain.isGivenUp = attempts[a].isGivenUp
        /\ plain.isRetryable = attempts[a].isRetryable /\ plain.isRejected = attempts[a].isRejected
    BY <1>1, <1>4 DEF Attempt
  <2> HIDE DEF plain
  <2>2. CASE chunk \ (ok \cup unregistered) = {}
    <3>1. to = plain BY <2>2 DEF Tallied, plain
    <3>. QED BY <2>1, <2>2, <3>1
  <2>3. CASE chunk \ (ok \cup unregistered) # {}
    <3>1. to = [plain EXCEPT !.isRetryable = @ \/ isRetryable, !.isRejected = @ \/ ~isRetryable]
      BY <2>3 DEF Tallied, plain
    <3> HIDE DEF to
    <3>2. plain.isRetryable \in BOOLEAN /\ plain.isRejected \in BOOLEAN BY <2>1 DEF Attempt
    <3>3. to \in Attempt BY <2>1, <3>1, <3>2 DEF Attempt
    <3>4. /\ to.pc = plain.pc /\ to.unsent = plain.unsent /\ to.chunk = plain.chunk
          /\ to.unregistered = plain.unregistered /\ to.isGivenUp = plain.isGivenUp
          /\ to.isRetryable = (plain.isRetryable \/ isRetryable) /\ to.isRejected = (plain.isRejected \/ ~isRetryable)
      BY <2>1, <3>1 DEF Attempt
    <3>. QED BY <2>1, <3>3, <3>4
  <2>. QED BY <2>2, <2>3
<1>6. Goes(a, to) BY <1>3
<1> HIDE DEF to
<1>7. OnlyAttempt(a) /\ attempts'[a] = to BY <1>1, <1>5, <1>6, GoingMoves
<1>8. /\ delivered \subseteq delivered' /\ delivered' = delivered \cup ok /\ delivered' \subseteq Pair
      /\ repeated' \subseteq unsure' /\ misdirected' \subseteq slipped'
  BY <1>2, <1>3, AcceptingIsSafe
<1>9. Kept /\ slipped' \subseteq Pair BY <1>2, <1>8, StaysKept DEF Beside
<1>10. AttemptFits(a)' BY <1>1, <1>2, <1>5, <1>7 DEF AttemptFits, HasTurn, IsRunning, IsPlanning, IsUnderWay, At, Beside
<1>11. AttemptCovers(a)' BY <1>1, <1>2, <1>5, <1>7, <1>8 DEF AttemptCovers, AttemptFits, At
<1>12. AttemptIsSafe(a)'
  <2>1. \A x \in to.unsent \cup to.chunk : WasThere(x)' BY <1>1, <1>2, <1>5 DEF AttemptIsSafe, WasThere
  <2>2. \A x \in to.unsent : IsNew(x)' \/ IsDead(x)'
    <3>1. \A x \in to.unsent : x \notin ok BY <1>1, <1>5 DEF AttemptFits
    <3>2. \A x \in to.unsent : IsNew(x) \/ IsDead(x) BY <1>1, <1>2, <1>5 DEF AttemptIsSafe, At
    <3>. QED BY <1>2, <1>8, <3>1, <3>2 DEF IsNew, IsDead, WasThere, HasRow
  <2>3. to.isGivenUp => to.unsent \cup to.chunk \subseteq unsure' BY <1>1, <1>2, <1>5 DEF AttemptIsSafe
  <2> HIDE DEF WasThere, IsNew, IsDead
  <2>. QED BY <1>5, <1>7, <1>8, <2>1, <2>2, <2>3 DEF AttemptIsSafe, At
<1>13. RecordsFit'
  <2>1. \A x \in delivered' : x \in delivered \/ (At(a, "record")' /\ x \in attempts'[a].chunk)
    BY <1>5, <1>7, <1>8 DEF At
  <2>. QED BY <1>1, <1>2, <1>7, <1>8, <1>9, <2>1, RecordsHold DEF TypeOK, At
<1>. QED BY <1>1, <1>2, <1>3, <1>7, <1>8, <1>9, <1>10, <1>11, <1>12, <1>13, AttemptHolds, FaultsStay DEF TypeOK, Beside

LEMMA AnswerLostHolds == ASSUME IInv, NEW a \in Try, AnswerLost(a), Beside PROVE IInv'
<1>1. TypeOK /\ attempts[a] \in Attempt BY DEF IInv, TypeOK, Try
<1>2. /\ At(a, "request") /\ IsRunning(a) /\ UNCHANGED <<rows, receipts, slipped, steady>> /\ Fault
      /\ Accepts(attempts[a].chunk) /\ unsure' = unsure \cup attempts[a].chunk /\ Ends(a, "retryable")
  BY DEF AnswerLost, At, IsUnderWay, IsRunning, Stays, Loses
<1>3. attempts[a].chunk \subseteq Pair /\ unsure' \subseteq Pair BY <1>1, <1>2 DEF Attempt, TypeOK
<1>4. OnlyAttempt(a) /\ AttemptFits(a)' /\ AttemptIsSafe(a)' /\ AttemptCovers(a)' BY <1>2, EndingFits DEF Beside
<1>5. /\ delivered \subseteq delivered' /\ delivered' = delivered \cup attempts[a].chunk /\ delivered' \subseteq Pair
      /\ repeated' \subseteq unsure' /\ misdirected' \subseteq slipped'
  BY <1>2, AcceptingIsSafe
<1>6. Kept /\ slipped' \subseteq Pair BY <1>2, <1>5, StaysKept DEF Beside
<1>7. RecordsFit'
  <2>1. \A x \in delivered' : x \in delivered \/ x \in unsure' BY <1>2, <1>5
  <2>. QED BY <1>1, <1>2, <1>4, <1>5, <1>6, <2>1, RecordsHold DEF TypeOK, At
<1>. QED BY <1>1, <1>2, <1>3, <1>4, <1>5, <1>6, <1>7, AttemptHolds, FaultsStay DEF TypeOK, Beside

\* Sends of accepted pushes may be recorded.
LEMMA RecordingFits ==
  ASSUME IInv, NEW a \in Try, At(a, "record"), RecordSends(attempts[a].chunk)
  PROVE  /\ receipts' \in [Pair -> {"none", "pending", "ok", "error", "unregistered"}]
         /\ \A x \in Pair : /\ receipts'[x] = receipts[x] \/ receipts'[x] = "pending"
                            /\ receipts[x] # "none" => receipts'[x] # "none"
                            /\ receipts'[x] # "none" => receipts[x] # "none" \/ (x \in delivered /\ WasThere(x))
         /\ \A x \in attempts[a].chunk : receipts'[x] # "none"
<1>1. attempts[a] \in Attempt /\ AttemptIsSafe(a) BY DEF IInv, TypeOK, Try
<1>2. receipts \in [Pair -> {"none", "pending", "ok", "error", "unregistered"}] BY DEF IInv, TypeOK
<1>3. attempts[a].chunk \subseteq Pair /\ \A x \in attempts[a].chunk : x \in delivered /\ WasThere(x)
  BY <1>1 DEF Attempt, AttemptIsSafe
<1>. QED BY <1>2, <1>3 DEF RecordSends

LEMMA RecordHolds == ASSUME IInv, NEW a \in Try, Record(a), Beside PROVE IInv'
<1>1. TypeOK /\ attempts[a] \in Attempt /\ AttemptFits(a) /\ AttemptIsSafe(a) /\ AttemptCovers(a)
  BY DEF IInv, TypeOK, Try
<1>2. /\ At(a, "record") /\ IsRunning(a) /\ UNCHANGED <<faults, rows, history>>
      /\ RecordSends(attempts[a].chunk) /\ Goes(a, [attempts[a] EXCEPT !.pc = "retire", !.chunk = {}])
  BY DEF Record, At, IsUnderWay, IsRunning
<1> DEFINE to == [attempts[a] EXCEPT !.pc = "retire", !.chunk = {}]
<1>3. /\ to \in Attempt /\ to.pc = "retire" /\ to.unsent = attempts[a].unsent /\ to.chunk = {}
      /\ to.isGivenUp = attempts[a].isGivenUp /\ to.unregistered = attempts[a].unregistered
      /\ to.isRetryable = attempts[a].isRetryable /\ to.isRejected = attempts[a].isRejected
  BY <1>1 DEF Attempt
<1> HIDE DEF to
<1>4. OnlyAttempt(a) /\ attempts'[a] = to BY <1>1, <1>2, <1>3, GoingMoves DEF to
<1>5. Kept /\ slipped' \subseteq Pair BY <1>2, StaysKept DEF Beside, history
<1>6. AttemptFits(a)' BY <1>1, <1>2, <1>3, <1>4 DEF AttemptFits, HasTurn, IsRunning, IsPlanning, IsUnderWay, At, Beside
<1>7. AttemptCovers(a)' BY <1>1, <1>2, <1>3, <1>4 DEF AttemptCovers, AttemptIsSafe, At, history
<1>8. AttemptIsSafe(a)'
  BY <1>1, <1>2, <1>3, <1>4 DEF AttemptIsSafe, At, IsNew, IsDead, WasThere, HasRow, history
<1>9. RecordsFit'
  <2>1. \A x \in Pair : receipts'[x] # "none" => receipts[x] # "none" \/ (x \in delivered' /\ WasThere(x)')
    BY <1>2, RecordingFits DEF WasThere, history
  <2>2. \A x \in delivered' : x \in delivered BY <1>2 DEF history
  <2>3. delivered' \subseteq Pair BY <1>1, <2>2 DEF TypeOK
  <2>. QED BY <1>2, <1>4, <1>5, <2>1, <2>2, <2>3, RecordingFits, RecordsHold
<1>10. misdirected' \subseteq slipped' /\ repeated' \subseteq unsure'
  BY <1>2 DEF IInv, MovedPhoneGetsNothing, RepeatsOnlyIfUnsure, history
<1>. QED BY <1>1, <1>2, <1>4, <1>5, <1>6, <1>7, <1>8, <1>9, <1>10, RecordingFits, AttemptHolds DEF TypeOK, Beside, history

LEMMA RecordThrowsHolds == ASSUME IInv, NEW a \in Try, RecordThrows(a), Beside PROVE IInv'
<1>1. TypeOK /\ attempts[a] \in Attempt /\ misdirected \subseteq slipped /\ repeated \subseteq unsure
  BY DEF IInv, TypeOK, Try, MovedPhoneGetsNothing, RepeatsOnlyIfUnsure
<1>2. /\ At(a, "record") /\ IsRunning(a) /\ (UNCHANGED faults \/ Fault)
      /\ UNCHANGED receipts \/ RecordSends(attempts[a].chunk)
      /\ unsure' = unsure \cup attempts[a].chunk /\ Ends(a, "retryable")
      /\ UNCHANGED <<rows, slipped, steady, delivered, repeated, misdirected>>
  BY DEF RecordThrows, At, IsUnderWay, IsRunning, Stays, Loses
<1>3. attempts[a].chunk \subseteq Pair /\ unsure' \subseteq Pair BY <1>1, <1>2 DEF Attempt, TypeOK
<1>4. OnlyAttempt(a) /\ AttemptFits(a)' /\ AttemptIsSafe(a)' /\ AttemptCovers(a)' BY <1>2, EndingFits DEF Beside
<1>5. Kept /\ slipped' \subseteq Pair BY <1>2, StaysKept DEF Beside
<1>6. /\ receipts' \in [Pair -> {"none", "pending", "ok", "error", "unregistered"}]
      /\ \A x \in Pair : /\ receipts'[x] = receipts[x] \/ receipts'[x] = "pending"
                         /\ receipts[x] # "none" => receipts'[x] # "none"
                         /\ receipts'[x] # "none" => receipts[x] # "none" \/ (x \in delivered' /\ WasThere(x)')
  <2>1. CASE UNCHANGED receipts BY <1>1, <2>1 DEF TypeOK
  <2>2. CASE RecordSends(attempts[a].chunk) BY <1>2, <2>2, RecordingFits DEF WasThere
  <2>. QED BY <1>2, <2>1, <2>2
<1>7. RecordsFit'
  <2>1. \A x \in attempts[a].chunk : x \in unsure' BY <1>2
  <2>. QED BY <1>1, <1>2, <1>4, <1>5, <1>6, <2>1, RecordsHold DEF TypeOK
<1>8. misdirected' \subseteq slipped' /\ repeated' \subseteq unsure' BY <1>1, <1>2
<1>. QED BY <1>1, <1>2, <1>3, <1>4, <1>5, <1>6, <1>7, <1>8, AttemptHolds, FaultsStay DEF TypeOK, Beside

LEMMA AttemptThrowsHolds == ASSUME IInv, NEW a \in Try, AttemptThrows(a), Beside PROVE IInv'
<1>1. TypeOK /\ attempts[a] \in Attempt /\ misdirected \subseteq slipped /\ repeated \subseteq unsure
  BY DEF IInv, TypeOK, Try, MovedPhoneGetsNothing, RepeatsOnlyIfUnsure
<1>2. /\ IsRunning(a) /\ Fault /\ Ends(a, "retryable")
      /\ unsure' = IF At(a, "record") THEN unsure \cup attempts[a].chunk ELSE unsure
      /\ UNCHANGED <<rows, receipts, slipped, steady, delivered, repeated, misdirected>>
  BY DEF AttemptThrows, IsRunning, Stays, Loses
<1>3. attempts[a].chunk \subseteq Pair /\ unsure' \subseteq Pair BY <1>1, <1>2 DEF Attempt, TypeOK
<1>4. OnlyAttempt(a) /\ AttemptFits(a)' /\ AttemptIsSafe(a)' /\ AttemptCovers(a)' BY <1>2, EndingFits DEF Beside
<1>5. Kept /\ slipped' \subseteq Pair BY <1>2, StaysKept DEF Beside
<1>6. RecordsFit'
  <2>1. At(a, "record") => \A x \in attempts[a].chunk : x \in unsure' BY <1>2
  <2>. QED BY <1>1, <1>2, <1>4, <1>5, <2>1, RecordsHold DEF TypeOK
<1>7. misdirected' \subseteq slipped' /\ repeated' \subseteq unsure' BY <1>1, <1>2
<1>. QED BY <1>1, <1>2, <1>3, <1>4, <1>5, <1>6, <1>7, AttemptHolds, FaultsStay DEF TypeOK, Beside

\* A step that retires phones keeps what is recorded and what was pushed.
LEMMA RetiringHolds ==
  ASSUME IInv, NEW a \in Try, IsRunning(a), OnlyAttempt(a), RowsFit(rows'), RowsAge, Watch, Beside, ~At(a, "record"),
         UNCHANGED <<faults, receipts, delivered, repeated, unsure, misdirected>>,
         Kept => AttemptFits(a)' /\ AttemptIsSafe(a)' /\ AttemptCovers(a)'
  PROVE  IInv'
<1>1. TypeOK BY DEF IInv
<1>2. Kept /\ slipped' \subseteq Pair BY WatchKept
<1>3. RecordsFit'
  <2>1. \A x \in delivered' : x \in delivered OBVIOUS
  <2>. QED BY <1>1, <1>2, <2>1, RecordsHold DEF TypeOK
<1>4. misdirected' \subseteq slipped' /\ repeated' \subseteq unsure'
  BY <1>2 DEF IInv, MovedPhoneGetsNothing, RepeatsOnlyIfUnsure, Kept
<1>. QED BY <1>1, <1>2, <1>3, <1>4, AttemptHolds DEF TypeOK, Beside

LEMMA RetireUnregisteredHolds == ASSUME IInv, NEW a \in Try, RetireUnregistered(a), Beside PROVE IInv'
<1>1. TypeOK /\ attempts[a] \in Attempt /\ AttemptFits(a) /\ AttemptIsSafe(a) /\ AttemptCovers(a)
  BY DEF IInv, TypeOK, Try
<1>2. /\ At(a, "retire") /\ IsRunning(a) /\ Retire(attempts[a].unregistered) /\ Watch
      /\ Goes(a, [attempts[a] EXCEPT !.pc = "chunk", !.unregistered = {}])
      /\ UNCHANGED <<faults, receipts, delivered, repeated, unsure, misdirected>>
  BY DEF RetireUnregistered, At, IsUnderWay, IsRunning
<1> DEFINE to == [attempts[a] EXCEPT !.pc = "chunk", !.unregistered = {}]
<1>3. /\ to \in Attempt /\ to.pc = "chunk" /\ to.unsent = attempts[a].unsent /\ to.chunk = attempts[a].chunk
      /\ to.isGivenUp = attempts[a].isGivenUp /\ to.unregistered = {}
      /\ to.isRetryable = attempts[a].isRetryable /\ to.isRejected = attempts[a].isRejected
  BY <1>1 DEF Attempt
<1> HIDE DEF to
<1>4. OnlyAttempt(a) /\ attempts'[a] = to BY <1>1, <1>2, <1>3, GoingMoves DEF to
<1>5. RowsFit(rows) BY <1>1 DEF TypeOK, RowsFit
<1>6. RowsFit(rows') /\ RowsAge /\ \A x \in Pair : x \in attempts[a].unregistered => ~HasRow(x)'
  BY <1>2, <1>5, WithoutAges
<1>7. to.chunk = {} BY <1>1, <1>2, <1>3 DEF AttemptFits, At
<1>8. AttemptFits(a)' BY <1>1, <1>2, <1>3, <1>4, <1>7 DEF AttemptFits, HasTurn, IsRunning, IsPlanning, IsUnderWay, At, Beside
<1>9. ASSUME Kept PROVE AttemptCovers(a)'
  <2>1. \A x \in steady' : x \in steady /\ HasRow(x)' /\ x \in Pair BY <1>9 DEF Kept, Reachable, IsBound
  <2>2. \A x \in steady' : x \notin attempts[a].unregistered BY <1>6, <2>1
  <2> HIDE DEF HasRow
  <2>. QED BY <1>1, <1>2, <1>3, <1>4, <1>7, <2>1, <2>2 DEF AttemptCovers, At
<1>10. AttemptIsSafe(a)'
  <2>1. to.unsent \subseteq Pair BY <1>3 DEF Attempt
  <2>2. \A x \in Pair : (WasThere(x) => WasThere(x)') /\ (IsDead(x) => IsDead(x)') BY <1>5, <1>6, RowsStayDead
  <2>3. \A x \in to.unsent : WasThere(x)' /\ (IsNew(x)' \/ IsDead(x)')
    BY <1>1, <1>2, <1>3, <2>1, <2>2 DEF AttemptIsSafe, At, IsNew
  <2>4. to.isGivenUp => to.unsent \subseteq unsure' BY <1>1, <1>2, <1>3 DEF AttemptIsSafe
  <2> HIDE DEF WasThere, IsDead, IsNew
  <2>. QED BY <1>3, <1>4, <1>7, <2>3, <2>4 DEF AttemptIsSafe, At
<1>. QED BY <1>2, <1>4, <1>6, <1>8, <1>9, <1>10, RetiringHolds DEF At

LEMMA RetireForeignHolds == ASSUME IInv, NEW a \in Try, RetireForeign(a), Beside PROVE IInv'
<1>1. TypeOK /\ attempts[a] \in Attempt /\ AttemptFits(a) /\ AttemptIsSafe(a) /\ AttemptCovers(a)
  BY DEF IInv, TypeOK, Try
<1> DEFINE chunk == attempts[a].chunk
           own == {x \in chunk : x[2] \notin foreign}
           others == Phones(chunk \ own)
<1>2. /\ At(a, "request") /\ IsRunning(a) /\ Watch /\ own # {}
      /\ rows' = [p \in Phone |-> IF p \in others THEN [user |-> NoUser, id |-> rows[p].id, isLive |-> FALSE] ELSE rows[p]]
      /\ Goes(a, [attempts[a] EXCEPT !.chunk = own])
      /\ UNCHANGED <<faults, receipts, delivered, repeated, unsure, misdirected>>
  BY DEF RetireForeign, At, IsUnderWay, IsRunning
<1> DEFINE to == [attempts[a] EXCEPT !.chunk = own]
<1>3. /\ to \in Attempt /\ to.pc = "request" /\ to.unsent = attempts[a].unsent /\ to.chunk = own
      /\ to.isGivenUp = attempts[a].isGivenUp /\ to.unregistered = attempts[a].unregistered
      /\ to.isRetryable = attempts[a].isRetryable /\ to.isRejected = attempts[a].isRejected
  BY <1>1, <1>2 DEF Attempt, At
<1> HIDE DEF to
<1>4. OnlyAttempt(a) /\ attempts'[a] = to BY <1>1, <1>2, <1>3, GoingMoves DEF to
<1>5. RowsFit(rows) BY <1>1 DEF TypeOK, RowsFit
<1> HIDE DEF others
<1>6. RowsFit(rows') /\ RowsAge
  <2>1. ASSUME NEW p \in Phone
        PROVE  /\ rows'[p] \in Row /\ (rows'[p].user # NoUser => rows'[p].id > 0)
               /\ rows'[p].id >= rows[p].id /\ (rows[p].user = NoUser => rows'[p].user = NoUser)
    <3>1. rows[p] \in Row /\ (rows[p].user # NoUser => rows[p].id > 0) BY <1>5 DEF RowsFit
    <3>2. rows[p].id \in Nat /\ [user |-> NoUser, id |-> rows[p].id, isLive |-> FALSE] \in Row BY <3>1, Bounds DEF Row
    <3>3. rows'[p] = rows[p] \/ rows'[p] = [user |-> NoUser, id |-> rows[p].id, isLive |-> FALSE] BY <1>2
    <3>4. CASE rows'[p] = rows[p] BY <3>1, <3>2, <3>4
    <3>5. CASE rows'[p] = [user |-> NoUser, id |-> rows[p].id, isLive |-> FALSE] BY <3>2, <3>5
    <3>. QED BY <3>3, <3>4, <3>5
  <2>. QED BY <1>2, <2>1 DEF RowsFit, RowsAge
<1>7. AttemptFits(a)' BY <1>1, <1>2, <1>3, <1>4 DEF AttemptFits, HasTurn, IsRunning, IsPlanning, IsUnderWay, At, Beside
<1>8. ASSUME Kept PROVE AttemptCovers(a)'
  <2>1. \A x \in steady' : x \in steady /\ HasRow(x)' /\ x \in Pair BY <1>8 DEF Kept, Reachable, IsBound
  <2>2. ASSUME NEW x \in Pair, x \in chunk \ own PROVE ~HasRow(x)'
    <3>1. x[2] \in Phone /\ x[2] \in others BY <2>2 DEF Pair, Phones, others
    <3>2. rows'[x[2]].user = NoUser BY <1>2, <3>1
    <3>. QED BY <3>2 DEF HasRow
  <2>3. \A x \in steady' : x \in chunk => x \in own BY <2>1, <2>2
  <2> HIDE DEF HasRow
  <2>. QED BY <1>1, <1>2, <1>3, <1>4, <2>1, <2>3 DEF AttemptCovers, At
<1>9. ASSUME Kept PROVE AttemptIsSafe(a)'
  <2>1. to.unsent \subseteq Pair /\ own \subseteq Pair BY <1>3 DEF Attempt
  <2>2. \A x \in Pair : (WasThere(x) => WasThere(x)') /\ (IsDead(x) => IsDead(x)') BY <1>5, <1>6, RowsStayDead
  <2>3. \A x \in to.unsent : WasThere(x)' /\ (IsNew(x)' \/ IsDead(x)')
    BY <1>1, <1>2, <1>3, <2>1, <2>2 DEF AttemptIsSafe, At, IsNew
  <2>4. to.isGivenUp => to.unsent \cup to.chunk \subseteq unsure' BY <1>1, <1>2, <1>3 DEF AttemptIsSafe
  <2>5. own \subseteq Checked BY <1>2 DEF Checked, At, Try
  <2>6. \A x \in own : WasThere(x)' /\ IsNew(x)' /\ (IsBound(x)' \/ x \in slipped')
    BY <1>1, <1>2, <1>9, <2>1, <2>2, <2>5 DEF AttemptIsSafe, At, IsNew, Kept
  <2> HIDE DEF WasThere, IsDead, IsNew, IsBound
  <2>. QED BY <1>3, <1>4, <2>3, <2>4, <2>6 DEF AttemptIsSafe, At
<1>. QED BY <1>2, <1>4, <1>6, <1>7, <1>8, <1>9, RetiringHolds DEF At

\* Every step of an attempt keeps the invariant.
LEMMA AttemptStepHolds == ASSUME IInv, NEW a \in Try, AttemptStep(a) PROVE IInv'
<1>1. Beside BY DEF AttemptStep, Beside
<1>. QED
  BY <1>1, PlanHolds, PlanFailsHolds, LoadRecordedHolds, NextChunkHolds, StopCancelledHolds, RequestAnsweredHolds, AnswerLostHolds,
     RequestRefusedHolds, RetireForeignHolds, RecordHolds, RecordThrowsHolds, RetireUnregisteredHolds, FinishSendHolds,
     AttemptThrowsHolds
  DEF AttemptStep

-----------------------------------------------------------------------------
(* The steps of the world, the workflow and the receipt check *)

\* A step that leaves the attempts alone keeps the invariant if the rest fits.
LEMMA OutsideHolds ==
  ASSUME IInv, Kept, UNCHANGED <<foreign, attempts, delivered, repeated, misdirected>>,
         slipped' \subseteq Pair, unsure' \subseteq Pair,
         wanted' \subseteq User, gone' \subseteq Phone, event' \in {"there", "unheld", "deleted"},
         flow' \in Flow, check' \in Check, moves' \in 0..MaxMoves, faults' \in 0..MaxFaults,
         receipts' \in [Pair -> {"none", "pending", "ok", "error", "unregistered"}],
         \A a \in Try : HasTurn(a)',
         \A x \in Pair : receipts'[x] # "none" => receipts[x] # "none",
         \A x \in delivered : receipts[x] # "none" => receipts'[x] # "none" \/ x \in unsure',
         CheckFits', NobodyIsSkipped'
  PROVE  IInv'
<1>1. TypeOK /\ RecordsFit /\ misdirected \subseteq slipped /\ repeated \subseteq unsure
  BY DEF IInv, MovedPhoneGetsNothing, RepeatsOnlyIfUnsure
<1>2. TypeOK' BY <1>1 DEF TypeOK, Kept, RowsFit
<1>3. ASSUME NEW a \in Try PROVE AttemptFits(a)' /\ AttemptIsSafe(a)' /\ AttemptCovers(a)'
  BY AttemptStays
<1>4. RowsFit(rows) BY <1>1 DEF TypeOK, RowsFit
<1>5. \A x \in Pair : WasThere(x) => WasThere(x)' BY <1>4, RowsStayDead DEF Kept
<1>6. RecordsFit'
  <2>1. \A x \in Pair : receipts'[x] # "none" => x \in delivered' /\ WasThere(x)' BY <1>1, <1>5 DEF RecordsFit
  <2>2. \A x \in delivered' : x \in unsure' \/ receipts'[x] # "none" \/ IsInRecord(x)'
    BY <1>1 DEF RecordsFit, IsInRecord, At, Kept
  <2> HIDE DEF WasThere, IsInRecord
  <2>. QED BY <2>1, <2>2 DEF RecordsFit, Kept
<1>7. MovedPhoneGetsNothing' /\ RepeatsOnlyIfUnsure' BY <1>1 DEF MovedPhoneGetsNothing, RepeatsOnlyIfUnsure, Kept
<1>. QED BY <1>2, <1>3, <1>6, <1>7 DEF IInv

LEMMA WorldStepHolds == ASSUME IInv, WorldStep PROVE IInv'
<1>1. TypeOK /\ CheckFits /\ NobodyIsSkipped /\ RecordsFit BY DEF IInv
<1>2. RowsFit(rows') /\ RowsAge /\ wanted' \subseteq User /\ gone' \subseteq Phone /\ event' \in {"there", "unheld", "deleted"}
  BY <1>1, MovesAge DEF WorldStep
<1>3. UNCHANGED <<foreign, flow, attempts, check, faults, delivered, repeated, misdirected>> /\ Watch /\ Cascade /\ Move
  BY DEF WorldStep
<1>4. /\ unsure \subseteq unsure' /\ unsure' \subseteq Pair
      /\ receipts' \in [Pair -> {"none", "pending", "ok", "error", "unregistered"}]
      /\ \A x \in Pair : receipts'[x] = receipts[x] \/ receipts'[x] = "none"
      /\ \A x \in delivered : receipts[x] # "none" => receipts'[x] # "none" \/ x \in unsure'
  BY <1>1, <1>3 DEF Cascade, TypeOK
<1>5. Kept /\ slipped' \subseteq Pair BY <1>2, <1>3, <1>4, WatchKept
<1>6. moves' \in 0..MaxMoves BY <1>1, <1>3, Bounds DEF Move, TypeOK
<1>7. CheckFits'
  <2>1. RowsFit(rows) BY <1>1 DEF TypeOK, RowsFit
  <2>2. \A x \in Pair : IsDead(x) => IsDead(x)' BY <1>2, <2>1, RowsStayDead
  <2>3. check.pending \subseteq Pair /\ check.found["unregistered"] \subseteq Pair BY <1>1 DEF TypeOK, Check
  <2>4. \A x \in Pair : IsHandled(x) => IsHandled(x)' BY <1>3, <2>2 DEF IsHandled
  <2>5. Pending' \subseteq Pending BY <1>4 DEF Pending
  <2>6. \A x \in Pair : receipts'[x] = "unregistered" => receipts[x] = "unregistered" BY <1>4
  <2>7. NothingRetiredYet => NothingRetiredYet' BY <1>3, <2>6 DEF NothingRetiredYet
  <2>8. flow.pc \in {"sending", "reporting", "waiting"} =>
          flow.check = 1 /\ check = NoCheck /\ \A x \in Pair : receipts'[x] \in {"none", "pending"}
    BY <1>1, <1>4 DEF CheckFits
  <2>9. flow.pc \in {"checking", "done"} => \A a \in Try : ~IsRunning(a)'
    BY <1>1, <1>3 DEF CheckFits, IsRunning, IsPlanning, IsUnderWay, At
  <2> HIDE DEF IsDead, IsHandled, NothingRetiredYet, Pending
  <2>10. Checks("load") => NothingRetiredYet' BY <1>1, <2>7 DEF CheckFits
  <2>11. Checks("read") => NothingRetiredYet' /\ Pending' \subseteq check.pending /\ \A x \in check.pending : IsHandled(x)'
    BY <1>1, <2>3, <2>4, <2>5, <2>7 DEF CheckFits
  <2>12. Checks("write") =>
           /\ Pending' \subseteq UNION {check.found[o] : o \in OutcomeOfReceipt}
           /\ \A x \in check.found["unregistered"] : IsHandled(x)'
           /\ flow.check = 1 => \A x \in Pair : receipts'[x] = "unregistered" => IsHandled(x)'
    BY <1>1, <2>3, <2>4, <2>5, <2>6 DEF CheckFits
  <2>13. flow.pc = "done" /\ ~flow.isReported =>
           /\ Pending' = {}
           /\ flow.check = 1 => \A x \in Pair : receipts'[x] = "unregistered" => IsDead(x)'
    BY <1>1, <2>2, <2>5, <2>6 DEF CheckFits
  <2>. QED BY <1>3, <2>8, <2>9, <2>10, <2>11, <2>12, <2>13 DEF CheckFits, Checks
<1>8. NobodyIsSkipped' BY <1>1, <1>3, <1>5 DEF NobodyIsSkipped, Kept
<1>9. \A a \in Try : HasTurn(a)'
  BY <1>3 DEF IInv, AttemptFits, HasTurn, IsRunning, IsPlanning, IsUnderWay, At
<1>10. flow' \in Flow /\ check' \in Check /\ faults' \in 0..MaxFaults BY <1>1, <1>3 DEF TypeOK
<1>. QED BY <1>2, <1>3, <1>4, <1>5, <1>6, <1>7, <1>8, <1>9, <1>10, OutsideHolds

\* The next attempt is counted, and none is made past the last.
LEMMA TryingAgain ==
  ASSUME TypeOK, TriesAgain, flow.pc = "sending"
  PROVE  /\ flow' \in Flow /\ flow'.pc \in {"sending", "reporting"} /\ flow'.check = flow.check
         /\ flow'.isReported = flow.isReported
<1>1. flow \in Flow /\ flow.attempt \in 1..MaxAttempts BY DEF TypeOK, Flow
<1>2. HasAttemptLeft => flow.attempt + 1 \in 1..MaxAttempts BY <1>1, Bounds DEF HasAttemptLeft
<1>. QED BY <1>1, <1>2 DEF TriesAgain, Flow

\* The next attempt begins only when the one before it has ended or was given up.
LEMMA TurnPasses ==
  ASSUME TypeOK, TriesAgain, flow.pc = "sending", NEW b \in Try, HasTurn(b), attempts'[b].pc = attempts[b].pc,
         b # flow.attempt => UNCHANGED attempts[b].isGivenUp,
         b = flow.attempt => attempts'[b].isGivenUp \/ ~IsRunning(b)
  PROVE  HasTurn(b)'
<1>1. flow \in Flow /\ flow.attempt \in Nat /\ b \in Nat BY Bounds DEF TypeOK, Flow, Try
<1>2. CASE HasAttemptLeft
  <2>1. flow'.pc = "sending" /\ flow'.attempt = flow.attempt + 1 BY <1>1, <1>2 DEF TriesAgain, Flow
  <2>2. ~(b <= flow'.attempt) => At(b, "idle")' /\ ~attempts'[b].isGivenUp
    <3>1. ~(b <= flow'.attempt) => ~(b <= flow.attempt) /\ b # flow.attempt BY <1>1, <2>1
    <3>. QED BY <3>1 DEF HasTurn, At
  <2>3. IsRunning(b)' /\ b # flow'.attempt => attempts'[b].isGivenUp
    <3>1. b # flow'.attempt /\ b <= flow'.attempt => b <= flow.attempt BY <1>1, <2>1
    <3>2. IsRunning(b)' /\ b # flow'.attempt => IsRunning(b) BY <3>1 DEF IsRunning, IsPlanning, IsUnderWay, At
    <3>. QED BY <3>2 DEF HasTurn
  <2>. QED BY <2>1, <2>2, <2>3 DEF HasTurn
<1>3. CASE ~HasAttemptLeft
  <2>1. flow'.pc = "reporting" /\ flow'.attempt = flow.attempt BY <1>1, <1>3 DEF TriesAgain, Flow
  <2>2. ~(b <= flow.attempt) => b # flow.attempt BY <1>1
  <2>3. IsRunning(b)' => IsRunning(b) BY <2>1 DEF IsRunning, IsPlanning, IsUnderWay, At
  <2>. QED BY <2>1, <2>2, <2>3 DEF HasTurn, At
<1>. QED BY <1>2, <1>3

\* The workflow goes on before the receipts are checked.
LEMMA FlowHolds ==
  ASSUME IInv, UNCHANGED <<world, attempts, check, receipts, history>>, UNCHANGED faults \/ Fault,
         flow.pc \in {"sending", "reporting", "waiting"}, flow' \in Flow,
         flow'.pc \in {"sending", "reporting", "waiting", "failed"}, flow'.check = flow.check,
         \A a \in Try : HasTurn(a)',
         flow'.pc = "waiting" /\ ~flow'.isReported => steady \subseteq delivered
  PROVE  IInv'
<1>1. TypeOK /\ CheckFits BY DEF IInv
<1>2. faults' \in 0..MaxFaults BY <1>1, FaultsStay
<1>3. Kept /\ slipped' \subseteq Pair BY StaysKept DEF world, history
<1>4. CheckFits' BY <1>1 DEF CheckFits, Checks
<1>5. NobodyIsSkipped' BY DEF NobodyIsSkipped, history
<1>. QED BY <1>1, <1>2, <1>3, <1>4, <1>5, OutsideHolds DEF TypeOK, world, history

LEMMA SendReturnsHolds == ASSUME IInv, SendReturns PROVE IInv'
<1>1. TypeOK /\ flow.attempt \in Try /\ flow \in Flow BY DEF IInv, TypeOK, Flow, Try
<1>2. flow.pc = "sending" /\ UNCHANGED <<world, attempts, check, receipts, faults, history>>
      /\ flow'.pc \in {"sending", "reporting", "waiting"} /\ flow'.check = flow.check /\ flow' \in Flow
      /\ (flow'.pc = "waiting" => At(flow.attempt, "sent"))
  BY <1>1, TryingAgain DEF SendReturns, Flow
<1>3. ~IsRunning(flow.attempt) BY DEF SendReturns, IsRunning, IsPlanning, IsUnderWay, At
<1>4. ASSUME NEW a \in Try PROVE HasTurn(a)'
  <2>1. HasTurn(a) /\ UNCHANGED attempts BY <1>2 DEF IInv, AttemptFits
  <2>2. CASE TriesAgain BY <1>1, <1>2, <1>3, <2>1, <2>2, TurnPasses
  <2>3. CASE UNCHANGED flow.attempt
    <3>1. IsRunning(a)' => IsRunning(a) /\ a # flow.attempt
      BY <1>3, <2>1, <2>3 DEF IsRunning, IsPlanning, IsUnderWay, At
    <3>. QED BY <2>1, <2>3, <3>1 DEF HasTurn, At
  <2>. QED BY <1>1, <2>2, <2>3 DEF SendReturns, Flow
<1>5. At(flow.attempt, "sent") => steady \subseteq delivered BY <1>1 DEF IInv, AttemptCovers
<1>. QED BY <1>2, <1>4, <1>5, FlowHolds

LEMMA ReportSendHolds == ASSUME IInv, ReportSend PROVE IInv'
<1>1. TypeOK /\ flow \in Flow BY DEF IInv, TypeOK
<1>2. flow.pc = "reporting" /\ UNCHANGED <<world, attempts, check, receipts, faults, history>>
      /\ flow' \in Flow /\ flow'.pc \in {"waiting", "failed"} /\ flow'.check = flow.check
      /\ (flow'.pc = "waiting" => flow'.isReported)
  BY <1>1 DEF ReportSend, Flow
<1>3. \A a \in Try : HasTurn(a)'
  <2>1. flow'.attempt = flow.attempt BY <1>1 DEF ReportSend, Flow
  <2>. QED BY <1>2, <2>1 DEF IInv, AttemptFits, HasTurn, IsRunning, IsPlanning, IsUnderWay, At
<1>. QED BY <1>2, <1>3, FlowHolds

LEMMA WaitEndsHolds == ASSUME IInv, WaitEnds PROVE IInv'
<1>1. TypeOK /\ CheckFits /\ NobodyIsSkipped /\ flow \in Flow BY DEF IInv, TypeOK
<1>2. /\ flow.pc = "waiting" /\ UNCHANGED <<world, attempts, check, receipts, faults, history>>
      /\ (\A a \in Try : ~IsRunning(a)) /\ flow' \in Flow /\ flow'.pc = "checking" /\ flow'.check = flow.check
      /\ flow'.isReported = flow.isReported /\ flow'.attempt = flow.attempt
  BY <1>1 DEF WaitEnds, IsRunning, Flow, Try
<1>3. Kept /\ slipped' \subseteq Pair BY <1>2, StaysKept DEF world, history
<1>4. check'.pc = "load" /\ NothingRetiredYet'
  BY <1>1, <1>2 DEF CheckFits, NoCheck, NothingRetiredYet
<1>5. CheckFits'
  <2>1. \A a \in Try : ~IsRunning(a)' BY <1>2 DEF IsRunning, IsPlanning, IsUnderWay, At
  <2> HIDE DEF NothingRetiredYet
  <2>. QED BY <1>2, <1>4, <2>1 DEF CheckFits, Checks
<1>6. NobodyIsSkipped' BY <1>1, <1>2 DEF NobodyIsSkipped, history
<1>7. \A a \in Try : HasTurn(a)'
  BY <1>2 DEF IInv, AttemptFits, HasTurn, IsRunning, IsPlanning, IsUnderWay, At
<1>. QED BY <1>1, <1>2, <1>3, <1>5, <1>6, <1>7, OutsideHolds DEF TypeOK, world, history

\* The attempt that was given up goes on with pairs that the code has lost track of.
LEMMA SendTimesOutHolds == ASSUME IInv, SendTimesOut PROVE IInv'
<1>1. TypeOK /\ CheckFits /\ RecordsFit /\ flow.attempt \in Try BY DEF IInv, TypeOK, Flow, Try
<1>a. PICK a \in Try : a = flow.attempt BY <1>1
<1> DEFINE to == [attempts[a] EXCEPT !.isGivenUp = TRUE]
<1>2. /\ flow.pc = "sending" /\ Fault /\ TriesAgain /\ Goes(a, to)
      /\ unsure' = unsure \cup attempts[a].unsent \cup attempts[a].chunk
      /\ UNCHANGED <<world, slipped, steady, check, receipts, delivered, repeated, misdirected>>
  BY <1>a DEF SendTimesOut, Loses, Stays
<1>3. attempts[a] \in Attempt /\ AttemptFits(a) /\ AttemptIsSafe(a) /\ AttemptCovers(a) BY <1>1 DEF IInv, TypeOK, Try
<1>4. /\ to \in Attempt /\ to.pc = attempts[a].pc /\ to.unsent = attempts[a].unsent /\ to.chunk = attempts[a].chunk
      /\ to.isGivenUp /\ to.unregistered = attempts[a].unregistered
      /\ to.isRetryable = attempts[a].isRetryable /\ to.isRejected = attempts[a].isRejected
  BY <1>3 DEF Attempt
<1>5. flow' \in Flow /\ flow'.pc \in {"sending", "reporting"} /\ flow'.check = flow.check
  BY <1>1, <1>2, TryingAgain
<1> HIDE DEF to
<1>6. OnlyAttempt(a) /\ attempts'[a] = to BY <1>1, <1>2, <1>4, GoingMoves
<1>7. unsure \subseteq unsure' /\ unsure' \subseteq Pair BY <1>1, <1>2, <1>3 DEF TypeOK, Attempt
<1>8. Kept /\ slipped' \subseteq Pair BY <1>2, <1>7, StaysKept DEF world
<1>9. TypeOK' BY <1>1, <1>2, <1>5, <1>6, <1>7, FaultsStay DEF TypeOK, OnlyAttempt, Try, world
<1>10. ASSUME NEW b \in Try, b # a PROVE AttemptFits(b)' /\ AttemptIsSafe(b)' /\ AttemptCovers(b)'
  <2>1. attempts'[b] = attempts[b] BY <1>6, <1>10 DEF OnlyAttempt
  <2>2. HasTurn(b)' BY <1>a, <1>1, <1>2, <1>10, <2>1, TurnPasses DEF IInv, AttemptFits
  <2>. QED BY <1>2, <1>8, <2>1, <2>2, AttemptStays
<1>11. AttemptFits(a)'
  <2>1. HasTurn(a)' BY <1>a, <1>1, <1>2, <1>3, <1>4, <1>6, TurnPasses DEF AttemptFits
  <2> HIDE DEF HasTurn
  <2>. QED BY <1>3, <1>4, <1>6, <2>1 DEF AttemptFits, IsUnderWay, At
<1>12. AttemptCovers(a)' BY <1>2, <1>3, <1>4, <1>6 DEF AttemptCovers, At
<1>13. AttemptIsSafe(a)'
  <2>1. \A x : (WasThere(x) <=> WasThere(x)') /\ (IsDead(x) <=> IsDead(x)') /\ (IsBound(x) <=> IsBound(x)')
               /\ (IsNew(x) => IsNew(x)')
    BY <1>2, <1>7 DEF WasThere, IsDead, IsBound, HasRow, IsNew, world
  <2>2. to.unsent \cup to.chunk \subseteq unsure' BY <1>2, <1>4
  <2> HIDE DEF WasThere, IsDead, IsBound, IsNew
  <2>. QED BY <1>2, <1>3, <1>4, <1>6, <2>1, <2>2 DEF AttemptIsSafe, At
<1>14. RecordsFit'
  <2>1. \A x \in delivered' : x \in delivered BY <1>2
  <2>2. At(a, "record") => \A x \in attempts[a].chunk : x \in unsure' BY <1>2
  <2>. QED BY <1>1, <1>2, <1>6, <1>8, <2>1, <2>2, RecordsHold DEF TypeOK
<1>15. CheckFits' BY <1>1, <1>2, <1>5 DEF CheckFits, Checks
<1>16. NobodyIsSkipped' BY <1>5 DEF NobodyIsSkipped
<1>17. MovedPhoneGetsNothing' /\ RepeatsOnlyIfUnsure'
  BY <1>2 DEF IInv, MovedPhoneGetsNothing, RepeatsOnlyIfUnsure
<1>. QED BY <1>9, <1>10, <1>11, <1>12, <1>13, <1>14, <1>15, <1>16, <1>17 DEF IInv

\* A step of the check keeps the invariant if the receipts fit.
LEMMA CheckHolds ==
  ASSUME IInv, flow.pc = "checking", Kept, slipped' \subseteq Pair,
         UNCHANGED <<wanted, event, foreign, gone, moves, attempts, delivered, repeated, unsure, misdirected>>,
         UNCHANGED faults \/ Fault,
         flow' \in Flow, flow'.pc \in {"checking", "done", "failed"}, flow'.attempt = flow.attempt,
         ~flow'.isReported => ~flow.isReported, check' \in Check,
         receipts' \in [Pair -> {"none", "pending", "ok", "error", "unregistered"}],
         \A x \in Pair : receipts'[x] # "none" <=> receipts[x] # "none",
         CheckFits'
  PROVE  IInv'
<1>1. TypeOK /\ CheckFits /\ NobodyIsSkipped BY DEF IInv
<1>2. \A a \in Try : HasTurn(a)'
  <2>1. \A a \in Try : ~IsRunning(a) BY <1>1 DEF CheckFits
  <2>. QED BY <2>1 DEF IInv, AttemptFits, HasTurn, IsRunning, IsPlanning, IsUnderWay, At
<1>3. faults' \in 0..MaxFaults BY <1>1, FaultsStay
<1>4. NobodyIsSkipped' BY <1>1 DEF NobodyIsSkipped, Kept
<1>5. delivered \subseteq Pair BY <1>1 DEF TypeOK
<1>. QED BY <1>1, <1>2, <1>3, <1>4, <1>5, OutsideHolds DEF TypeOK

LEMMA CheckStepHolds == ASSUME IInv, CheckStep PROVE IInv'
<1>1. TypeOK /\ CheckFits /\ RecordsFit /\ flow \in Flow /\ check \in Check /\ flow.check \in 1..MaxChecks
  BY DEF IInv, TypeOK, Flow
<1>2. flow.pc = "checking" /\ UNCHANGED <<wanted, event, foreign, gone, moves, attempts>>
  BY DEF CheckStep, LoadPending, ReadReceipts, WriteReceipts, RetireReceived, CheckThrows, Checks
<1>a. flow'.attempt = flow.attempt
  BY <1>1 DEF CheckStep, LoadPending, ReadReceipts, WriteReceipts, RetireReceived, CheckThrows, Flow
<1>3. \A a \in Try : ~IsRunning(a)' BY <1>1, <1>2, <1>a DEF CheckFits, IsRunning, IsPlanning, IsUnderWay, At
<1>4. receipts \in [Pair -> {"none", "pending", "ok", "error", "unregistered"}] BY <1>1 DEF TypeOK
<1>5. ASSUME LoadPending PROVE IInv'
  <2>1. UNCHANGED <<rows, receipts, faults, history>> BY <1>5 DEF LoadPending
  <2>2. Kept /\ slipped' \subseteq Pair BY <1>2, <2>1, StaysKept DEF history
  <2>3. NothingRetiredYet BY <1>1, <1>5 DEF LoadPending, CheckFits
  <2>4. CASE Pending = {}
    <3>1. flow' = [flow EXCEPT !.pc = "done"] /\ UNCHANGED check BY <1>5, <2>4 DEF LoadPending
    <3>2. flow' \in Flow /\ flow'.pc = "done" /\ flow'.check = flow.check /\ flow'.isReported = flow.isReported
      BY <1>1, <3>1 DEF Flow
    <3>3. CheckFits' BY <1>3, <2>1, <2>3, <2>4, <3>2 DEF CheckFits, Checks, Pending, NothingRetiredYet
    <3>. QED BY <1>a, <1>1, <1>2, <1>4, <2>1, <2>2, <3>1, <3>2, <3>3, CheckHolds DEF history
  <2>5. CASE Pending # {}
    <3>1. check' = [check EXCEPT !.pc = "read", !.pending = Pending, !.retiring = {x \in Pending : HasRow(x)}]
          /\ UNCHANGED flow
      BY <1>5, <2>5 DEF LoadPending
    <3>2. check' \in Check /\ check'.pc = "read" /\ check'.pending = Pending
          /\ check'.retiring = {x \in Pending : HasRow(x)}
      BY <1>1, <3>1 DEF Check, Pending
    <3>3. \A x \in Pending : IsHandled(x)'
      <4>1. \A x \in Pending : WasThere(x) BY <1>1 DEF RecordsFit, Pending
      <4>. QED BY <2>1, <3>2, <4>1 DEF IsHandled, IsDead, WasThere, HasRow
    <3>4. Pending' = Pending /\ NothingRetiredYet' BY <2>1, <2>3, <3>1 DEF Pending, NothingRetiredYet
    <3>5. CheckFits'
      <4> HIDE DEF Pending, NothingRetiredYet, IsHandled
      <4>. QED BY <1>2, <1>3, <3>1, <3>2, <3>3, <3>4 DEF CheckFits, Checks
    <3>. QED BY <1>a, <1>1, <1>2, <1>4, <2>1, <2>2, <3>1, <3>2, <3>5, CheckHolds DEF history
  <2>. QED BY <2>4, <2>5
<1>6. ASSUME ReadReceipts PROVE IInv'
  <2>1. UNCHANGED <<flow, rows, receipts, faults, history>> BY <1>6 DEF ReadReceipts
  <2>2. Kept /\ slipped' \subseteq Pair BY <1>2, <2>1, StaysKept DEF history
  <2>3. NothingRetiredYet /\ Pending \subseteq check.pending /\ \A x \in check.pending : IsHandled(x)
    BY <1>1, <1>6 DEF ReadReceipts, CheckFits
  <2>4. PICK ok \in SUBSET check.pending, unregistered \in SUBSET check.pending :
          check' = [check EXCEPT !.pc = "write", !.pending = {}, !.retiring = @ \cap unregistered,
                                 !.found = [ok |-> ok, unregistered |-> unregistered,
                                            error |-> check.pending \ (ok \cup unregistered)]]
    BY <1>6 DEF ReadReceipts
  <2>5. /\ check' \in Check /\ check'.pc = "write" /\ check'.retiring = check.retiring \cap unregistered
        /\ check'.found["ok"] = ok /\ check'.found["unregistered"] = unregistered
        /\ check'.found["error"] = check.pending \ (ok \cup unregistered)
    <3> DEFINE found == [ok |-> ok, unregistered |-> unregistered, error |-> check.pending \ (ok \cup unregistered)]
    <3>1. check.pending \subseteq Pair BY <1>1 DEF Check
    <3>2. found \in [OutcomeOfReceipt -> SUBSET Pair] BY <3>1 DEF OutcomeOfReceipt
    <3>3. found["ok"] = ok /\ found["unregistered"] = unregistered
          /\ found["error"] = check.pending \ (ok \cup unregistered)
      OBVIOUS
    <3> HIDE DEF found
    <3>4. check' = [check EXCEPT !.pc = "write", !.pending = {}, !.retiring = @ \cap unregistered, !.found = found]
      BY <2>4 DEF found
    <3>. QED BY <1>1, <3>2, <3>3, <3>4 DEF Check, OutcomeOfReceipt
  <2>6. check.pending \subseteq UNION {check'.found[o] : o \in OutcomeOfReceipt}
    <3>1. ASSUME NEW x \in check.pending PROVE \E o \in OutcomeOfReceipt : x \in check'.found[o]
      <4>1. "ok" \in OutcomeOfReceipt /\ "error" \in OutcomeOfReceipt /\ "unregistered" \in OutcomeOfReceipt
        BY DEF OutcomeOfReceipt
      <4>. QED BY <2>5, <4>1
    <3>. QED BY <3>1
  <2>7. \A x \in unregistered : IsHandled(x)'
    BY <2>1, <2>3, <2>5 DEF IsHandled, IsDead, WasThere, HasRow
  <2>8. Pending' = Pending /\ NothingRetiredYet' BY <2>1, <2>3 DEF Pending, NothingRetiredYet
  <2>9. flow.check = 1 => \A x \in Pair : receipts'[x] # "unregistered" BY <2>1, <2>8 DEF NothingRetiredYet
  <2>10. CheckFits'
    <3> HIDE DEF Pending, NothingRetiredYet, IsHandled
    <3>1. Pending' \subseteq UNION {check'.found[o] : o \in OutcomeOfReceipt} BY <2>3, <2>6, <2>8
    <3>. QED BY <1>2, <1>3, <2>1, <2>5, <2>7, <2>9, <3>1 DEF CheckFits, Checks
  <2>. QED BY <1>a, <1>1, <1>2, <1>4, <2>1, <2>2, <2>5, <2>10, CheckHolds DEF history
<1>7. ASSUME NEW outcome \in OutcomeOfReceipt, WriteReceipts(outcome) PROVE IInv'
  <2>1. /\ UNCHANGED <<flow, rows, faults, history>> /\ check' = [check EXCEPT !.found[outcome] = {}]
        /\ receipts' = [x \in Pair |-> IF x \in check.found[outcome] /\ receipts[x] # "none" THEN outcome ELSE receipts[x]]
    BY <1>7 DEF WriteReceipts
  <2>2. Kept /\ slipped' \subseteq Pair BY <1>2, <2>1, StaysKept DEF history
  <2>3. /\ Pending \subseteq UNION {check.found[o] : o \in OutcomeOfReceipt}
        /\ \A x \in check.found["unregistered"] : IsHandled(x)
        /\ flow.check = 1 => \A x \in Pair : receipts[x] = "unregistered" => IsHandled(x)
    BY <1>1, <1>7 DEF WriteReceipts, CheckFits
  <2>4. /\ check' \in Check /\ check'.pc = check.pc /\ check'.retiring = check.retiring
        /\ \A o \in OutcomeOfReceipt : check'.found[o] = IF o = outcome THEN {} ELSE check.found[o]
    BY <1>1, <2>1 DEF Check, OutcomeOfReceipt
  <2>5. /\ receipts' \in [Pair -> {"none", "pending", "ok", "error", "unregistered"}]
        /\ \A x \in Pair : receipts'[x] # "none" <=> receipts[x] # "none"
    BY <1>4, <2>1 DEF OutcomeOfReceipt
  <2>6. \A x : IsHandled(x)' <=> IsHandled(x) BY <2>1, <2>4 DEF IsHandled, IsDead, WasThere, HasRow
  <2>7. Pending' \subseteq UNION {check'.found[o] : o \in OutcomeOfReceipt}
    <3>1. ASSUME NEW x \in Pending' PROVE \E o \in OutcomeOfReceipt : x \in check'.found[o]
      <4>1. x \in Pair /\ receipts'[x] = "pending" BY <3>1 DEF Pending
      <4>2. receipts[x] = "pending" /\ x \notin check.found[outcome]
        BY <1>4, <2>1, <4>1 DEF OutcomeOfReceipt
      <4>3. x \in Pending BY <4>1, <4>2 DEF Pending
      <4>4. PICK o \in OutcomeOfReceipt : x \in check.found[o] BY <2>3, <4>3
      <4>. QED BY <2>4, <4>2, <4>4
    <3>. QED BY <3>1
  <2>8. \A x \in check'.found["unregistered"] : IsHandled(x)' BY <2>3, <2>4, <2>6 DEF OutcomeOfReceipt
  <2>9. flow.check = 1 => \A x \in Pair : receipts'[x] = "unregistered" => IsHandled(x)'
    BY <1>4, <2>1, <2>3, <2>6 DEF OutcomeOfReceipt
  <2>10. check.pc = "write" BY <1>7 DEF WriteReceipts, Checks
  <2>11. CheckFits'
    <3> HIDE DEF Pending, NothingRetiredYet, IsHandled
    <3>. QED BY <1>2, <1>3, <2>1, <2>4, <2>7, <2>8, <2>9, <2>10 DEF CheckFits, Checks
  <2>. QED BY <1>a, <1>1, <1>2, <2>1, <2>2, <2>4, <2>5, <2>11, CheckHolds DEF history
<1>8. ASSUME RetireReceived PROVE IInv'
  <2>1. /\ Checks("write") /\ \A o \in OutcomeOfReceipt : check.found[o] = {}
        /\ Retire(check.retiring) /\ check' = NoCheck /\ flow' = [flow EXCEPT !.pc = "done"] /\ Watch
        /\ UNCHANGED <<receipts, faults, delivered, repeated, unsure, misdirected>>
    BY <1>8 DEF RetireReceived, Retiring, OutcomeOfReceipt
  <2>2. RowsFit(rows) BY <1>1 DEF TypeOK, RowsFit
  <2>3. RowsFit(rows') /\ RowsAge /\ \A x \in Pair : x \in check.retiring => ~HasRow(x)' BY <2>1, <2>2, WithoutAges
  <2>4. Kept /\ slipped' \subseteq Pair BY <2>1, <2>3, WatchKept
  <2>5. flow' \in Flow /\ flow'.pc = "done" /\ flow'.check = flow.check /\ flow'.isReported = flow.isReported
    BY <1>1, <2>1 DEF Flow
  <2>6. check' \in Check BY <2>1 DEF NoCheck, Check
  <2>7. Pending' = {}
    <3>1. Pending \subseteq UNION {check.found[o] : o \in OutcomeOfReceipt} BY <1>1, <2>1 DEF CheckFits
    <3>2. Pending = {} BY <2>1, <3>1
    <3>. QED BY <2>1, <3>2 DEF Pending
  <2>8. \A x \in Pair : (WasThere(x) => WasThere(x)') /\ (IsDead(x) => IsDead(x)') BY <2>2, <2>3, RowsStayDead
  <2>9. flow.check = 1 => \A x \in Pair : receipts'[x] = "unregistered" => IsDead(x)'
    <3>1. ASSUME flow.check = 1, NEW x \in Pair, receipts[x] = "unregistered" PROVE IsDead(x)'
      <4>1. IsHandled(x) /\ WasThere(x) BY <1>1, <2>1, <3>1 DEF CheckFits, RecordsFit
      <4>2. IsDead(x) \/ x \in check.retiring BY <4>1 DEF IsHandled
      <4>. QED BY <2>3, <2>8, <4>1, <4>2 DEF IsDead
    <3>. QED BY <2>1, <3>1
  <2>10. CheckFits'
    <3> HIDE DEF Pending, IsDead
    <3>. QED BY <1>3, <2>5, <2>7, <2>9 DEF CheckFits, Checks
  <2>. QED BY <1>a, <1>1, <1>2, <1>4, <2>1, <2>4, <2>5, <2>6, <2>10, CheckHolds
<1>9. ASSUME CheckThrows PROVE IInv'
  <2>1. /\ check' = NoCheck /\ UNCHANGED <<rows, receipts, faults, history>>
        /\ \/ flow.check < MaxChecks /\ flow' = [flow EXCEPT !.check = @ + 1]
           \/ flow.check = MaxChecks /\ flow' \in {[flow EXCEPT !.pc = "done", !.isReported = TRUE],
                                                  [flow EXCEPT !.pc = "failed"]}
    BY <1>9 DEF CheckThrows
  <2>2. Kept /\ slipped' \subseteq Pair BY <1>2, <2>1, StaysKept DEF history
  <2>3. check' \in Check /\ check'.pc = "load" BY <2>1 DEF NoCheck, Check
  <2>4. flow.check \in Nat /\ flow.check >= 1 BY <1>1, Bounds
  <2>5. /\ flow' \in Flow
        /\ \/ flow'.pc = "checking" /\ flow'.check # 1 /\ flow'.isReported = flow.isReported
           \/ flow'.pc = "done" /\ flow'.isReported
           \/ flow'.pc = "failed" /\ flow'.isReported = flow.isReported
    <3>1. CASE flow.check < MaxChecks /\ flow' = [flow EXCEPT !.check = @ + 1]
      <4>1. flow.check + 1 \in 1..MaxChecks /\ flow.check + 1 # 1 BY <1>1, <2>4, <3>1, Bounds
      <4>2. flow' = [flow EXCEPT !.check = flow.check + 1] BY <3>1
      <4>. QED BY <1>1, <1>2, <4>1, <4>2 DEF Flow
    <3>2. CASE flow' \in {[flow EXCEPT !.pc = "done", !.isReported = TRUE], [flow EXCEPT !.pc = "failed"]}
      BY <1>1, <3>2 DEF Flow
    <3>. QED BY <2>1, <3>1, <3>2
  <2>6. CheckFits' BY <1>3, <2>3, <2>5 DEF CheckFits, Checks, NothingRetiredYet
  <2>. QED BY <1>a, <1>1, <1>2, <1>4, <2>1, <2>2, <2>3, <2>5, <2>6, CheckHolds DEF history
<1>. QED BY <1>5, <1>6, <1>7, <1>8, <1>9 DEF CheckStep, OutcomeOfReceipt

-----------------------------------------------------------------------------
(* The theorems *)

LEMMA InitHolds == Init => IInv
<1> SUFFICES ASSUME Init PROVE IInv OBVIOUS
<1>1. \A x \in Reachable : x \in Pair BY DEF Reachable
<1>2. rows \in [Phone -> Row] /\ \A p \in Phone : rows[p].user # NoUser => rows[p].id > 0
  <2>1. \A u \in User : [user |-> u, id |-> 1, isLive |-> TRUE] \in Row BY Bounds DEF Row
  <2>2. [user |-> NoUser, id |-> 0, isLive |-> FALSE] \in Row BY Bounds DEF Row
  <2>3. ASSUME NEW p \in Phone PROVE rows[p] \in Row /\ (rows[p].user # NoUser => rows[p].id > 0)
    <3>1. rows[p] \in {[user |-> u, id |-> 1, isLive |-> TRUE] : u \in User}
                      \cup {[user |-> NoUser, id |-> 0, isLive |-> FALSE]}
      BY DEF Init
    <3>2. CASE rows[p] = [user |-> NoUser, id |-> 0, isLive |-> FALSE] BY <2>2, <3>2
    <3>3. CASE rows[p] \in {[user |-> u, id |-> 1, isLive |-> TRUE] : u \in User} BY <2>1, <3>3
    <3>. QED BY <3>1, <3>2, <3>3
  <2>. QED BY <2>3 DEF Init
<1>3. NoFlow \in Flow /\ Idle \in Attempt /\ NoCheck \in Check
  BY Bounds DEF NoFlow, Flow, Idle, Attempt, NoCheck, Check, Try
<1>4. TypeOK
  <2>1. attempts \in [1..MaxAttempts -> Attempt] BY <1>3 DEF Init
  <2>2. moves \in 0..MaxMoves /\ faults \in 0..MaxFaults BY Bounds DEF Init
  <2>3. receipts \in [Pair -> {"none", "pending", "ok", "error", "unregistered"}] BY DEF Init
  <2>4. steady \subseteq Pair BY <1>1 DEF Init
  <2>. QED BY <1>2, <1>3, <2>1, <2>2, <2>3, <2>4 DEF Init, TypeOK
<1>5. \A a \in Try : attempts[a] = Idle BY DEF Init, Try
<1>6. \A a \in Try : AttemptFits(a) /\ AttemptIsSafe(a) /\ AttemptCovers(a)
  <2>1. \A a \in Try : 1 <= a /\ (a <= 1 => a = 1) BY Bounds DEF Try
  <2>2. flow.attempt = 1 /\ flow.pc = "sending" BY DEF Init, NoFlow
  <2>3. ASSUME NEW a \in Try PROVE AttemptFits(a) /\ AttemptIsSafe(a) /\ AttemptCovers(a)
    <3>1. attempts[a] = Idle /\ attempts[a].pc = "idle" /\ ~attempts[a].isGivenUp BY <1>5 DEF Idle
    <3>2. HasTurn(a) BY <2>1, <2>2, <3>1 DEF HasTurn, IsRunning, IsPlanning, IsUnderWay, At
    <3> HIDE DEF HasTurn
    <3>. QED BY <3>1, <3>2 DEF Idle, AttemptFits, AttemptIsSafe, AttemptCovers, IsUnderWay, At
  <2>. QED BY <2>3
<1>7. RecordsFit BY DEF Init, RecordsFit
<1>8. CheckFits BY DEF Init, NoFlow, CheckFits, Checks
<1>9. MovedPhoneGetsNothing /\ RepeatsOnlyIfUnsure /\ NobodyIsSkipped
  BY DEF Init, NoFlow, MovedPhoneGetsNothing, RepeatsOnlyIfUnsure, NobodyIsSkipped
<1>. QED BY <1>4, <1>6, <1>7, <1>8, <1>9 DEF IInv

LEMMA StutterHolds == ASSUME IInv, UNCHANGED vars PROVE IInv'
<1>1. UNCHANGED <<rows, wanted, event, foreign, gone, moves, flow, attempts, check, receipts, faults,
                  delivered, repeated, unsure, misdirected, slipped, steady>>
  BY DEF vars, world, history
<1>2. Kept /\ slipped' \subseteq Pair BY <1>1, StaysKept
<1>3. TypeOK /\ CheckFits /\ NobodyIsSkipped BY DEF IInv
<1>4. CheckFits'
  BY <1>1, <1>3 DEF CheckFits, Checks, NothingRetiredYet, Pending, IsHandled, IsDead, WasThere, HasRow,
                     IsRunning, IsPlanning, IsUnderWay, At
<1>5. NobodyIsSkipped' BY <1>1, <1>3 DEF NobodyIsSkipped
<1>6. \A a \in Try : HasTurn(a)'
  BY <1>1 DEF IInv, AttemptFits, HasTurn, IsRunning, IsPlanning, IsUnderWay, At
<1>. QED BY <1>1, <1>2, <1>3, <1>4, <1>5, <1>6, OutsideHolds DEF TypeOK

\* The invariant holds in every reachable state.
LEMMA PushesAreSound == Spec => []IInv
<1>1. IInv /\ [Next]_vars => IInv'
  BY WorldStepHolds, AttemptStepHolds, SendReturnsHolds, SendTimesOutHolds, ReportSendHolds, WaitEndsHolds,
     CheckStepHolds, StutterHolds
  DEF Next, Try
<1>. QED BY <1>1, InitHolds, PTL DEF Spec

\* Every state of PushDelivery is well-typed.
THEOREM PushTypeCorrect == Spec => []TypeOK
<1>1. IInv => TypeOK BY DEF IInv
<1>. QED BY <1>1, PushesAreSound, PTL

\* A phone that changed hands gets nothing meant for its earlier account: deliverPushes
\* checks each chunk against push_devices just before its request.
THEOREM MovedPhonesAreSpared == Spec => []MovedPhoneGetsNothing
<1>1. IInv => MovedPhoneGetsNothing BY DEF IInv
<1>. QED BY <1>1, PushesAreSound, PTL

\* A retry repeats no push that the rows of push_notification_sends tell of: whichever
\* attempts run side by side, only those that were given up, in their plan too, and
\* lost answers and records excuse a second push.
THEOREM RepeatsAreExcused == Spec => []RepeatsOnlyIfUnsure
<1>1. IInv => RepeatsOnlyIfUnsure BY DEF IInv
<1>. QED BY <1>1, PushesAreSound, PTL

\* A send that reports no failure has reached whoever could be reached all along, in
\* whatever chunks, attempts and retirements.
THEOREM SendsAreComplete == Spec => []NobodyIsSkipped
<1>1. IInv => NobodyIsSkipped BY DEF IInv
<1>. QED BY <1>1, PushesAreSound, PTL

\* A check that finished in one attempt left no send pending and no phone registered that
\* the service no longer knows.
THEOREM ReceiptsRetirePhones == Spec => []ReceiptsAreActedOn
<1>1. IInv => ReceiptsAreActedOn
  <2>1. CheckFits /\ TypeOK => ReceiptsAreActedOn BY DEF CheckFits, ReceiptsAreActedOn, Pending, IsDead
  <2>. QED BY <2>1 DEF IInv
<1>. QED BY <1>1, PushesAreSound, PTL

-----------------------------------------------------------------------------
(* PushDelivery implements DeliveryPromise                                  *)
(*                                                                         *)
(* Each step maps to one of the promise by what it does to the phones that  *)
(* can still be reached, to the pushes and to their rows.  IInv is needed   *)
(* where a promise is at stake: a send that ends has skipped nobody, and a  *)
(* row is written only for a push that was accepted.                        *)

\* A step of the promise, or none that it sees.
DeliveryStep == Delivery!Next \/ UNCHANGED <<Due, delivered, Noted, Phase>>

\* A step that moves none of it is not seen.
LEMMA StayingIsUnseen ==
  ASSUME UNCHANGED <<steady, delivered, Noted, Phase>>, UNCHANGED flow.isReported PROVE DeliveryStep
BY DEF DeliveryStep, Due

\* Phones leave the reach of the event, or everybody is let off.
LEMMA LeavingIsSeen ==
  ASSUME Due' \subseteq Due, UNCHANGED <<delivered, Noted, Phase>> PROVE DeliveryStep
BY DEF DeliveryStep, Delivery!Next, Delivery!LetOff

LEMMA WatchShrinks == ASSUME steady' \subseteq steady, UNCHANGED flow PROVE Due' \subseteq Due /\ UNCHANGED Phase
BY DEF Due, Phase

\* The rows that a step adds are of accepted pushes.
LEMMA RecordingIsSeen ==
  ASSUME IInv', NEW accepted, RecordSends(accepted), UNCHANGED <<flow, delivered, steady>> PROVE DeliveryStep
<1>1. Noted \subseteq Noted' BY DEF RecordSends, Noted
<1>2. Noted' \subseteq delivered' BY DEF IInv, RecordsFit, Noted
<1>3. UNCHANGED <<Due, Phase>> BY DEF Due, Phase
<1>. QED BY <1>1, <1>2, <1>3 DEF DeliveryStep, Delivery!Next, Delivery!Note

\* The service accepts pushes.
LEMMA AcceptingIsSeen ==
  ASSUME IInv', NEW ok, Accepts(ok), UNCHANGED <<flow, receipts, steady>> PROVE DeliveryStep
<1>1. delivered \subseteq delivered' BY DEF Accepts
<1>2. delivered' \subseteq Pair BY DEF IInv, TypeOK
<1>3. UNCHANGED <<Due, Noted, Phase>> BY DEF Due, Noted, Phase
<1>. QED BY <1>1, <1>2, <1>3 DEF DeliveryStep, Delivery!Next, Delivery!Tell

\* An attempt pushes, records, retires phones, or is not seen.
LEMMA AttemptIsSeen == ASSUME IInv', NEW a \in Try, AttemptStep(a) PROVE DeliveryStep
<1>1. UNCHANGED flow BY DEF AttemptStep
<1>2. UNCHANGED <<flow.isReported, Phase>> BY <1>1 DEF Phase
<1>3. CASE \/ Plan(a) \/ PlanFails(a) \/ LoadRecorded(a) \/ NextChunk(a) \/ StopCancelled(a)
           \/ RequestRefused(a) \/ FinishSend(a) \/ AttemptThrows(a)
  <2>1. UNCHANGED <<receipts, delivered, steady>>
    BY <1>3 DEF Plan, PlanFails, LoadRecorded, NextChunk, StopCancelled, RequestRefused, FinishSend,
                AttemptThrows, history, Stays
  <2>2. UNCHANGED Noted BY <2>1 DEF Noted
  <2>. QED BY <1>2, <2>1, <2>2, StayingIsUnseen
<1>4. CASE RequestAnswered(a) \/ AnswerLost(a)
  <2>1. PICK ok : Accepts(ok) BY <1>4 DEF RequestAnswered, AnswerLost
  <2>2. UNCHANGED <<receipts, steady>> BY <1>4 DEF RequestAnswered, AnswerLost, Stays
  <2>. QED BY <1>1, <2>1, <2>2, AcceptingIsSeen
<1>5. CASE RetireForeign(a) \/ RetireUnregistered(a)
  <2>1. steady' \subseteq steady /\ UNCHANGED <<receipts, delivered>>
    BY <1>5 DEF RetireForeign, RetireUnregistered, Watch
  <2>2. UNCHANGED Noted BY <2>1 DEF Noted
  <2>. QED BY <1>1, <2>1, <2>2, WatchShrinks, LeavingIsSeen
<1>6. CASE Record(a) \/ RecordThrows(a)
  <2>1. RecordSends(attempts[a].chunk) \/ UNCHANGED receipts BY <1>6 DEF Record, RecordThrows
  <2>2. UNCHANGED <<delivered, steady>> BY <1>6 DEF Record, RecordThrows, history, Stays
  <2>3. UNCHANGED receipts => UNCHANGED Noted BY DEF Noted
  <2>. QED BY <1>1, <1>2, <2>1, <2>2, <2>3, RecordingIsSeen, StayingIsUnseen
<1>. QED BY <1>3, <1>4, <1>5, <1>6 DEF AttemptStep

\* Phones and users move; the deletion of a message forgets its delivery.
LEMMA WorldIsSeen == ASSUME IInv, WorldStep PROVE DeliveryStep
<1>1. UNCHANGED <<flow, delivered>> /\ Watch /\ Cascade BY DEF WorldStep
<1>2. steady' \subseteq steady /\ steady' \subseteq Reachable' BY <1>1 DEF Watch
<1>3. Due' \subseteq Due /\ UNCHANGED Phase BY <1>1, <1>2, WatchShrinks
<1>4. CASE event' = "deleted"
  <2>1. Reachable' = {} BY <1>4 DEF Reachable
  <2>2. Due' = {} BY <1>2, <2>1 DEF Due
  <2>3. Noted' = {} BY <1>1, <1>4 DEF Cascade, Noted
  <2>. QED BY <1>1, <1>3, <2>2, <2>3 DEF DeliveryStep, Delivery!Next, Delivery!Forget
<1>5. CASE event' # "deleted"
  <2>1. UNCHANGED Noted BY <1>1, <1>5 DEF Cascade, Noted
  <2>. QED BY <1>1, <1>3, <2>1, LeavingIsSeen
<1>. QED BY <1>4, <1>5

\* The workflow tries again, goes on to the receipts or fails.
LEMMA WorkflowIsSeen ==
  ASSUME IInv, IInv', SendReturns \/ SendTimesOut \/ ReportSend \/ WaitEnds PROVE DeliveryStep
<1>1. TypeOK /\ flow \in Flow BY DEF IInv, TypeOK
<1>2. UNCHANGED <<delivered, steady, receipts>>
  BY DEF SendReturns, SendTimesOut, ReportSend, WaitEnds, history, Stays
<1>3. UNCHANGED Noted BY <1>2 DEF Noted
<1>4. CASE SendTimesOut \/ WaitEnds
  <2>1. UNCHANGED flow.isReported /\ UNCHANGED Phase
    <3>1. CASE SendTimesOut
      <4>1. flow.pc = "sending" /\ flow'.pc \in {"sending", "reporting"} /\ UNCHANGED flow.isReported
        BY <1>1, <3>1, TryingAgain DEF SendTimesOut
      <4>. QED BY <4>1 DEF Phase
    <3>2. CASE WaitEnds
      <4>1. flow.pc = "waiting" /\ flow'.pc = "checking" /\ UNCHANGED flow.isReported
        BY <1>1, <3>2 DEF WaitEnds, Flow
      <4>. QED BY <4>1 DEF Phase
    <3>. QED BY <1>4, <3>1, <3>2
  <2>. QED BY <1>2, <1>3, <2>1, StayingIsUnseen
<1>5. CASE SendReturns \/ ReportSend
  <2>1. flow.pc \in {"sending", "reporting"} /\ Phase = "sending" BY <1>5 DEF SendReturns, ReportSend, Phase
  <2>2. /\ flow'.pc \in {"sending", "reporting", "waiting", "failed"}
        /\ flow'.isReported # flow.isReported => flow'.isReported /\ flow'.pc = "waiting"
    <3>1. CASE SendReturns BY <1>1, <3>1, TryingAgain DEF SendReturns, Flow
    <3>2. CASE ReportSend BY <1>1, <3>2 DEF ReportSend, Flow
    <3>. QED BY <1>5, <3>1, <3>2
  <2>3. CASE flow'.pc \in {"sending", "reporting"}
    <3>1. Phase' = "sending" BY <2>3 DEF Phase
    <3>. QED BY <1>2, <1>3, <2>1, <2>2, <2>3, <3>1, StayingIsUnseen
  <2>4. CASE flow'.pc = "failed"
    <3>1. Phase' = "failed" BY <2>4 DEF Phase
    <3>2. UNCHANGED Due BY <1>2, <2>2, <2>4 DEF Due
    <3>. QED BY <1>2, <1>3, <2>1, <3>1, <3>2 DEF DeliveryStep, Delivery!Next, Delivery!Fail
  <2>5. CASE flow'.pc = "waiting"
    <3>1. Phase' = "sent" BY <2>5 DEF Phase
    <3>2. Due' \subseteq delivered' BY <2>5 DEF IInv, NobodyIsSkipped, Due
    <3>3. Due' \subseteq Due BY <1>1, <1>2, <2>2 DEF Due, Flow
    <3>. QED BY <1>2, <1>3, <2>1, <3>1, <3>2, <3>3 DEF DeliveryStep, Delivery!Next, Delivery!Finish
  <2>. QED BY <2>2, <2>3, <2>4, <2>5
<1>. QED BY <1>4, <1>5

\* The receipts change no row into one that was not there.
LEMMA CheckIsSeen == ASSUME IInv, CheckStep PROVE DeliveryStep
<1>1. flow \in Flow /\ flow.pc = "checking" /\ Phase = "sent"
  BY DEF IInv, TypeOK, CheckStep, LoadPending, ReadReceipts, WriteReceipts, RetireReceived, CheckThrows,
         Checks, Phase
<1>2. CASE ReadReceipts
  <2>1. UNCHANGED <<flow, receipts, delivered, steady>> BY <1>2 DEF ReadReceipts, history
  <2>. QED BY <2>1, StayingIsUnseen DEF Noted, Phase
<1>3. CASE LoadPending
  <2>1. UNCHANGED <<receipts, delivered, steady>> BY <1>3 DEF LoadPending, history
  <2>2. flow'.pc \in {"checking", "done"} /\ UNCHANGED flow.isReported BY <1>1, <1>3 DEF LoadPending, Flow
  <2>3. Phase' = "sent" BY <2>2 DEF Phase
  <2>. QED BY <1>1, <2>1, <2>2, <2>3, StayingIsUnseen DEF Noted
<1>4. ASSUME NEW outcome \in {"ok", "error", "unregistered"}, WriteReceipts(outcome) PROVE DeliveryStep
  <2>1. UNCHANGED <<flow, delivered, steady>> BY <1>4 DEF WriteReceipts, history
  <2>2. \A x \in Pair : receipts'[x] # "none" <=> receipts[x] # "none" BY <1>4 DEF WriteReceipts
  <2>3. UNCHANGED Noted BY <2>2 DEF Noted
  <2>. QED BY <2>1, <2>3, StayingIsUnseen DEF Phase
<1>5. CASE RetireReceived
  <2>1. UNCHANGED <<receipts, delivered>> /\ steady' \subseteq steady BY <1>5 DEF RetireReceived, Watch
  <2>2. flow'.pc = "done" /\ UNCHANGED flow.isReported BY <1>1, <1>5 DEF RetireReceived, Flow
  <2>3. Phase' = "sent" /\ Due' \subseteq Due BY <2>1, <2>2 DEF Phase, Due
  <2>. QED BY <1>1, <2>1, <2>3, LeavingIsSeen DEF Noted
<1>6. CASE CheckThrows
  <2>1. UNCHANGED <<receipts, delivered, steady>> BY <1>6 DEF CheckThrows, history
  <2>2. UNCHANGED Noted BY <2>1 DEF Noted
  <2>3. CASE flow' = [flow EXCEPT !.check = @ + 1]
    <3>1. flow'.pc = "checking" /\ UNCHANGED flow.isReported BY <1>1, <2>3 DEF Flow
    <3>2. Phase' = "sent" BY <3>1 DEF Phase
    <3>. QED BY <1>1, <2>1, <2>2, <3>1, <3>2, StayingIsUnseen
  <2>4. CASE flow' = [flow EXCEPT !.pc = "done", !.isReported = TRUE]
    <3>1. flow'.pc = "done" /\ flow'.isReported BY <1>1, <2>4 DEF Flow
    <3>2. Phase' = "sent" /\ Due' = {} BY <3>1 DEF Phase, Due
    <3>. QED BY <1>1, <2>1, <2>2, <3>2, LeavingIsSeen
  <2>5. CASE flow' = [flow EXCEPT !.pc = "failed"]
    <3>1. flow'.pc = "failed" /\ UNCHANGED flow.isReported BY <1>1, <2>5 DEF Flow
    <3>2. Phase' = "failed" /\ UNCHANGED Due BY <2>1, <3>1 DEF Phase, Due
    <3>. QED BY <1>1, <2>1, <2>2, <3>2 DEF DeliveryStep, Delivery!Next, Delivery!Fail
  <2>. QED BY <1>6, <2>3, <2>4, <2>5 DEF CheckThrows
<1>. QED BY <1>2, <1>3, <1>4, <1>5, <1>6 DEF CheckStep

\* The pushes start as a delivery does.
LEMMA InitKeepsDelivery == Init => Delivery!Init
<1> SUFFICES ASSUME Init PROVE Delivery!Init OBVIOUS
<1>1. Due \subseteq Pair BY DEF Init, Due, Reachable
<1>2. Noted = {} /\ delivered = {} /\ Phase = "sending" BY DEF Init, NoFlow, Noted, Phase
<1>. QED BY <1>1, <1>2 DEF Delivery!Init

\* The workflow with its attempts, chunks and receipts does what a delivery promises:
\* whoever can be reached until the send ends was sent the push, or its failure was
\* reported.
THEOREM PushesKeepDelivery == Spec => KeepsDelivery
<1>1. IInv /\ IInv' /\ [Next]_vars => [Delivery!Next]_<<Due, delivered, Noted, Phase>>
  <2> SUFFICES ASSUME IInv, IInv', [Next]_vars PROVE DeliveryStep BY DEF DeliveryStep
  <2>1. CASE UNCHANGED vars
    BY <2>1, StayingIsUnseen DEF vars, world, history, Noted, Phase
  <2>2. CASE \E a \in 1..MaxAttempts : AttemptStep(a) BY <2>2, AttemptIsSeen DEF Try
  <2>. QED BY <2>1, <2>2, WorldIsSeen, WorkflowIsSeen, CheckIsSeen DEF Next
<1>. QED BY <1>1, InitKeepsDelivery, PushesAreSound, PTL DEF Spec, KeepsDelivery, Delivery!Spec

=============================================================================
