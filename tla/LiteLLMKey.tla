----------------------------- MODULE LiteLLMKey -----------------------------
(***************************************************************************)
(* The LiteLLM key that one user's model calls are billed to: the user's   *)
(* row, the keys that the proxy knows, and the calls that create a key,    *)
(* replace it when the user's budget changes or a month begins, and delete *)
(* it with the account.                                                    *)
(*                                                                         *)
(* No transaction spans the row and the proxy.  A call reads the row,      *)
(* creates a key at the budget that it read, and stores the key by an      *)
(* UPDATE that only matches the row it read.  A store that threw may have  *)
(* executed, or may execute later.                                         *)
(***************************************************************************)
EXTENDS Naturals

CONSTANTS
  Call,               \* the calls, each used once
  NoKey,              \* stands for no key
  MaxKeys,            \* bound on the keys that the proxy creates
  Override,           \* the budgets that an admin may set
  NoOverride,         \* no budget override
  MaxReplaceAttempts, \* MAX_REPLACE_LITELLM_KEY_ATTEMPTS
  MaxMonth,           \* bound on the months that begin
  MaxFaults           \* bound on failed requests, failed statements and exits

ASSUME KeyAssumption ==
  /\ MaxKeys \in Nat \ {0} /\ NoKey \notin 1..MaxKeys
  /\ Override \subseteq Nat /\ NoOverride \notin Nat
  /\ MaxReplaceAttempts \in Nat \ {0} /\ MaxMonth \in Nat /\ MaxFaults \in Nat

VARIABLES
  row,    \* the user's row
  keys,   \* the keys, as the proxy has them
  calls,  \* how far each call has come
  late,   \* the stores that failed and may execute later, or have
  month,  \* the current month
  lost,   \* the keys that a fault has left to nobody
  faults  \* faults so far

vars == <<row, keys, calls, late, month, lost, faults>>

-----------------------------------------------------------------------------
(* Types *)

Key == 1..MaxKeys
Plan == {"free", "paid"}
PlanBudget(plan) == IF plan = "free" THEN 1 ELSE 2  \* monthlyBudgetCents

Row == [isOpen : BOOLEAN, key : Key \cup {NoKey}, plan : Plan,
        override : Override \cup {NoOverride}, month : 0..MaxMonth]

\* userBudgetCents
Budget(r) == IF r.override = NoOverride THEN PlanBudget(r.plan) ELSE r.override

Kind == {"none", "load", "replace", "sync", "reset", "close"}
Pc == {"idle", "compare", "read", "provision", "store", "check", "drop", "undo",
       "recheck", "retire", "closeRead", "closeKey", "closeRow", "closeStored", "done"}

CallState == [kind : Kind, pc : Pc, seen : Row, new : Key \cup {NoKey},
              tries : 0..MaxReplaceAttempts, due : 0..MaxMonth, dated : 0..MaxMonth,
              result : {"none", "true", "false"}]

\* An UPDATE that stores a new key, and its creation time, in the row that was seen.
Store == [seen : Row, new : Key, dated : 0..MaxMonth]

TypeOK ==
  /\ row \in Row
  /\ keys \in [Key -> [state : {"unused", "live", "deleted"}, budget : Nat]]
  /\ calls \in [Call -> CallState]
  /\ late \subseteq Store
  /\ month \in 0..MaxMonth
  /\ lost \subseteq Key
  /\ faults \in 0..MaxFaults

-----------------------------------------------------------------------------

\* Signup stored a key at the free budget, or failed to create one.
NewUser(key) == [isOpen |-> TRUE, key |-> key, plan |-> "free", override |-> NoOverride, month |-> 0]

IdleCall == [kind |-> "none", pc |-> "idle", seen |-> NewUser(NoKey), new |-> NoKey,
             tries |-> 0, due |-> 0, dated |-> 0, result |-> "none"]

Init ==
  /\ \E key \in {NoKey, 1} :
       /\ row = NewUser(key)
       /\ keys = [k \in Key |-> IF k = key THEN [state |-> "live", budget |-> PlanBudget("free")]
                                           ELSE [state |-> "unused", budget |-> 0]]
  /\ calls = [c \in Call |-> IdleCall]
  /\ late = {}
  /\ month = 0
  /\ lost = {}
  /\ faults = 0

Fault == faults < MaxFaults /\ faults' = faults + 1

Starts(c, kind, pc) ==
  /\ calls[c].pc = "idle"
  /\ calls' = [calls EXCEPT ![c] = [@ EXCEPT !.kind = kind, !.pc = pc]]

\* An ended call keeps what it was for, and the row a close began with.
Ends(c, result) ==
  calls' = [calls EXCEPT ![c] =
    [IdleCall EXCEPT !.kind = calls[c].kind, !.pc = "done", !.result = result,
                     !.seen = IF calls[c].kind = "close" THEN calls[c].seen ELSE @]]

GoesTo(c, pc) == calls' = [calls EXCEPT ![c].pc = pc]

\* What a replacement returns.  syncUserLiteLLMKey tries again.
Replaced(c, isReplaced) ==
  IF isReplaced THEN Ends(c, "true")
  ELSE IF calls[c].kind = "sync" /\ calls[c].tries + 1 < MaxReplaceAttempts
  THEN calls' = [calls EXCEPT ![c] = [calls[c] EXCEPT !.pc = "read", !.tries = @ + 1]]
  ELSE Ends(c, "false")

Throws(c) == IF calls[c].kind = "load" THEN Ends(c, "false") ELSE Replaced(c, FALSE)

-----------------------------------------------------------------------------
(* Who calls *)

\* A Scan, a Podcast Episode or a chat turn: loadOrProvisionUserLiteLLMKey.
StartLoad(c) ==
  /\ Starts(c, "load", "read")
  /\ UNCHANGED <<row, keys, late, month, lost, faults>>

\* setUserBudgetOverride.  setUserRole is alike: it writes the row, and replaces the key.
SetBudgetOverride(c) ==
  /\ row.isOpen
  /\ \E override \in Override \cup {NoOverride} : row' = [row EXCEPT !.override = override]
  /\ Starts(c, "replace", "read")
  /\ UNCHANGED <<keys, late, month, lost, faults>>

\* A projection writes the plan.  A plan that did not change compares the budgets.
ApplyProjection(c) ==
  /\ row.isOpen
  /\ \E plan \in Plan :
       /\ row' = [row EXCEPT !.plan = plan]
       /\ Starts(c, "sync", IF row.plan = plan THEN "compare" ELSE "read")
  /\ UNCHANGED <<keys, late, month, lost, faults>>

\* resetMonthlyBudgets finds the key due.
StartReset(c) ==
  /\ row.isOpen /\ row.key # NoKey /\ row.month < month
  /\ calls[c].pc = "idle"
  /\ calls' = [calls EXCEPT ![c] = [@ EXCEPT !.kind = "reset", !.pc = "read", !.due = month]]
  /\ UNCHANGED <<row, keys, late, month, lost, faults>>

StartClose(c) ==
  /\ Starts(c, "close", "closeRead")
  /\ UNCHANGED <<row, keys, late, month, lost, faults>>

MonthBegins ==
  /\ month < MaxMonth
  /\ month' = month + 1
  /\ UNCHANGED <<row, keys, calls, late, lost, faults>>

-----------------------------------------------------------------------------
(* Creating and storing a key *)

\* The user is gone, has a key already, or has none to replace.
OwnerNeedsNoKey(c) ==
  /\ calls[c].pc = "read"
  /\ IF calls[c].kind = "load"
     THEN /\ ~row.isOpen \/ row.key # NoKey
          /\ Ends(c, IF row.isOpen THEN "true" ELSE "false")
     ELSE /\ ~row.isOpen \/ row.key = NoKey
          /\ Ends(c, "true")
  /\ UNCHANGED <<row, keys, late, month, lost, faults>>

OwnerNeedsKey(c) ==
  /\ calls[c].pc = "read" /\ row.isOpen
  /\ (calls[c].kind = "load") <=> (row.key = NoKey)
  /\ calls' = [calls EXCEPT ![c] = [@ EXCEPT !.pc = "provision", !.seen = row]]
  /\ UNCHANGED <<row, keys, late, month, lost, faults>>

Unused(k) == keys[k].state = "unused"

Created(c, k) == [keys EXCEPT ![k] = [state |-> "live", budget |-> Budget(calls[c].seen)]]

\* The UPDATE is built with the answer, and dates the key with the time of that moment.
ProvisionKey(c) ==
  /\ calls[c].pc = "provision"
  /\ \E k \in Key :
       /\ Unused(k) /\ \A j \in 1..(k - 1) : ~Unused(j)
       /\ keys' = Created(c, k)
       /\ calls' = [calls EXCEPT ![c] = [@ EXCEPT !.pc = "store", !.new = k, !.dated = month]]
  /\ UNCHANGED <<row, late, month, lost, faults>>

\* A timeout may leave a key that nobody was told of.
ProvisionFails(c) ==
  /\ calls[c].pc = "provision"
  /\ Fault
  /\ \/ UNCHANGED <<keys, lost>>
     \/ \E k \in Key :
          /\ Unused(k) /\ \A j \in 1..(k - 1) : ~Unused(j)
          /\ keys' = Created(c, k)
          /\ lost' = lost \cup {k}
  /\ Throws(c)
  /\ UNCHANGED <<row, late, month>>

TheStore(c) == [seen |-> calls[c].seen, new |-> calls[c].new, dated |-> calls[c].dated]

\* Mutant: the store leaves out the budget that the key was created at.
MatchesKey(s) == row.isOpen /\ row.key = s.seen.key

\* The row still has no key, or the old one, and the role, plan and override.
Matches(s) ==
  /\ row.isOpen
  /\ row.key = s.seen.key
  /\ row.plan = s.seen.plan /\ row.override = s.seen.override

Stores(s) == row' = [row EXCEPT !.key = s.new, !.month = s.dated]

\* The call learns that its key is stored, and retires the one it replaced.
LearnsOfStore(c) == IF calls[c].kind = "load" THEN Ends(c, "true") ELSE GoesTo(c, "retire")

StoreKey(c) ==
  /\ calls[c].pc = "store"
  /\ \/ Matches(TheStore(c)) /\ Stores(TheStore(c)) /\ LearnsOfStore(c)
     \/ ~Matches(TheStore(c)) /\ UNCHANGED row /\ GoesTo(c, "drop")
  /\ UNCHANGED <<keys, late, month, lost, faults>>

\* Nobody may learn that the old key was replaced.
LosesOld(s) == lost' = lost \cup ({s.seen.key} \ {NoKey})

\* The UPDATE throws.  It did not execute, it did, or it may yet.
StoreThrows(c) ==
  /\ calls[c].pc = "store"
  /\ Fault
  /\ \/ UNCHANGED <<row, late, lost>>
     \/ Matches(TheStore(c)) /\ Stores(TheStore(c)) /\ LosesOld(TheStore(c)) /\ UNCHANGED late
     \/ late' = late \cup {TheStore(c)} /\ UNCHANGED <<row, lost>>
  /\ GoesTo(c, "check")
  /\ UNCHANGED <<keys, month>>

\* The database executes a store that its caller saw fail.
ExecuteLateStore(s) ==
  /\ s \in late
  /\ Matches(s) /\ Stores(s) /\ LosesOld(s)
  /\ UNCHANGED <<keys, calls, late, month, faults>>

\* Mutant: a store that threw counts as not stored.
StoreFailed(c) == FALSE

\* Mutant: a store that threw counts as stored if the user has a key.
HasKey(c) == row.isOpen /\ row.key # NoKey

\* checkFailedLiteLLMKeyStore
IsStored(c) == row.isOpen /\ row.key = calls[c].new

CheckStore(c) ==
  /\ calls[c].pc = "check"
  /\ IF IsStored(c) THEN LearnsOfStore(c) ELSE GoesTo(c, "undo")
  /\ UNCHANGED <<row, keys, late, month, lost, faults>>

-----------------------------------------------------------------------------
(* Deleting a key *)

Deleted(k) == [keys EXCEPT ![k].state = "deleted"]

\* The proxy deletes the key, or the request fails and may still have deleted it.
RequestDelete(k) ==
  \/ keys' = Deleted(k) /\ UNCHANGED <<lost, faults>>
  \/ Fault /\ keys' \in {keys, Deleted(k)} /\ lost' = lost \cup {k}

\* What the call does without its key.
AfterDrop(c) ==
  IF calls[c].pc = "undo" THEN Throws(c)
  ELSE GoesTo(c, IF calls[c].kind = "load" THEN "read" ELSE "recheck")

\* deleteUnstoredLiteLLMKey: a failure is reported, and the call goes on.
DeleteUnstoredKey(c) ==
  /\ calls[c].pc \in {"drop", "undo"}
  /\ RequestDelete(calls[c].new)
  /\ AfterDrop(c)
  /\ UNCHANGED <<row, late, month>>

RetireKey(c) ==
  /\ calls[c].pc = "retire"
  /\ RequestDelete(calls[c].seen.key)
  /\ Ends(c, "true")
  /\ UNCHANGED <<row, late, month>>

\* isUserLiteLLMKeyBudgetStale: a budget that cannot be read is stale.
Stale ==
  IF ~row.isOpen \/ row.key = NoKey THEN {FALSE}
  ELSE {TRUE, keys[row.key].state # "live" \/ keys[row.key].budget # Budget(row)}

\* syncUserLiteLLMKey keeps the key of a plan that did not change.
CompareBudget(c) ==
  /\ calls[c].pc = "compare"
  /\ \E isStale \in Stale : IF isStale THEN GoesTo(c, "read") ELSE Ends(c, "true")
  /\ UNCHANGED <<row, keys, late, month, lost, faults>>

\* A replacement that stored nothing counts if the stored key's budget is current.
RecheckBudget(c) ==
  /\ calls[c].pc = "recheck"
  /\ \E isStale \in Stale : Replaced(c, ~isStale)
  /\ UNCHANGED <<row, keys, late, month, lost, faults>>

-----------------------------------------------------------------------------
(* deleteUser *)

ReadClosing(c) ==
  /\ calls[c].pc = "closeRead"
  /\ IF ~row.isOpen THEN Ends(c, "false")
     ELSE calls' = [calls EXCEPT ![c] =
            [@ EXCEPT !.pc = IF row.key = NoKey THEN "closeRow" ELSE "closeKey", !.seen = row]]
  /\ UNCHANGED <<row, keys, late, month, lost, faults>>

\* A failure ends the close, and the account stays.
CloseKey(c) ==
  /\ calls[c].pc = "closeKey"
  /\ \/ keys' = Deleted(calls[c].seen.key) /\ GoesTo(c, "closeRow") /\ UNCHANGED faults
     \/ Fault /\ keys' \in {keys, Deleted(calls[c].seen.key)} /\ Ends(c, "false")
  /\ UNCHANGED <<row, late, month, lost>>

\* Mutant: the key that was stored during the close is forgotten.
NothingStored(c) == FALSE

\* The deleted row has a key that was stored during the close.
HasNewKey(c) == row.key \notin {NoKey, calls[c].seen.key}

\* The row is deleted, and returns its key.
CloseRow(c) ==
  /\ calls[c].pc = "closeRow"
  /\ IF row.isOpen /\ HasNewKey(c)
     THEN calls' = [calls EXCEPT ![c] = [@ EXCEPT !.pc = "closeStored", !.new = row.key]]
     ELSE Ends(c, "true")
  /\ row' = [row EXCEPT !.isOpen = FALSE, !.key = NoKey]
  /\ UNCHANGED <<keys, late, month, lost, faults>>

\* The transaction is committed, and its caller sees it throw: the row is gone, and
\* with it the key that was stored during the close.
CloseRowThrows(c) ==
  /\ calls[c].pc = "closeRow"
  /\ Fault
  /\ row' = [row EXCEPT !.isOpen = FALSE, !.key = NoKey]
  /\ lost' = lost \cup ({row.key} \ {NoKey})
  /\ Ends(c, "false")
  /\ UNCHANGED <<keys, late, month>>

DeleteStoredKey(c) ==
  /\ calls[c].pc = "closeStored"
  /\ RequestDelete(calls[c].new)
  /\ Ends(c, "true")
  /\ UNCHANGED <<row, late, month>>

-----------------------------------------------------------------------------
(* Faults of a whole call *)

\* The keys that only this call would have deleted.
InHand(c) == CASE calls[c].pc \in {"store", "check", "drop", "undo", "closeStored"} -> {calls[c].new}
               [] calls[c].pc = "retire" -> {calls[c].seen.key}
               [] OTHER -> {}

\* The process exits, or a read of the row fails: the call ends where it is.
CallFails(c) ==
  /\ calls[c].pc \notin {"idle", "done"}
  /\ Fault
  /\ lost' = lost \cup InHand(c)
  /\ Ends(c, "false")
  /\ UNCHANGED <<row, keys, late, month>>

-----------------------------------------------------------------------------

Next ==
  \/ \E c \in Call :
       \/ StartLoad(c) \/ SetBudgetOverride(c) \/ ApplyProjection(c) \/ StartReset(c) \/ StartClose(c)
       \/ OwnerNeedsNoKey(c) \/ OwnerNeedsKey(c) \/ ProvisionKey(c) \/ ProvisionFails(c)
       \/ StoreKey(c) \/ StoreThrows(c) \/ CheckStore(c)
       \/ DeleteUnstoredKey(c) \/ RetireKey(c) \/ CompareBudget(c) \/ RecheckBudget(c)
       \/ ReadClosing(c) \/ CloseKey(c) \/ CloseRow(c) \/ CloseRowThrows(c) \/ DeleteStoredKey(c)
       \/ CallFails(c)
  \/ \E s \in late : ExecuteLateStore(s)
  \/ MonthBegins

Spec == Init /\ [][Next]_vars

-----------------------------------------------------------------------------
(* Properties *)

\* Every key that can spend money is the user's stored key, or one that a call
\* still has to store or delete: whichever calls run side by side, and whether the
\* account is closed under them, only a fault leaves a key to nobody.
NoKeyLeaks ==
  \A k \in Key : keys[k].state = "live" =>
    k = row.key \/ k \in lost \/ \E c \in Call : k \in InHand(c)

\* The proxy knows the stored key, unless the account is being closed or a store
\* executed after its caller had given up on it.
StoredKeyIsLive ==
  row.isOpen /\ row.key # NoKey /\ keys[row.key].state # "live" =>
    \/ \E c \in Call : calls[c].kind = "close" /\ calls[c].seen.key = row.key
    \/ \E s \in late : s.new = row.key

\* Once every change of the budget has reported that the key is replaced, the
\* stored key has the user's budget, in whatever order the changes came.
KeyIsSized ==
  row.isOpen /\ row.key # NoKey /\ keys[row.key].budget # Budget(row) =>
    \E c \in Call : calls[c].kind \in {"replace", "sync"} /\ calls[c].result # "true"

\* A key that outlived its month is gone when the monthly reset counts it as
\* replaced: the stored key is not the one that the reset read, or is dated since the
\* month began, or is about to be replaced by a change of the budget.  (What another
\* call stored beside the reset may be dated before the month: the UPDATE dates a key
\* when it is built.  Such a key is due again.)
ResetReplacesOldKeys ==
  [][\A c \in Call :
       calls[c].kind = "reset" /\ calls[c].pc # "done" /\ calls'[c].result = "true"
         => \/ ~row'.isOpen
            \/ row'.key # calls[c].seen.key \/ row'.month >= calls[c].due
            \/ \E other \in Call : calls'[other].kind \in {"replace", "sync"} /\ calls'[other].result # "true"]_vars

=============================================================================
