-------------------------- MODULE LiteLLMKeyProofs --------------------------
(***************************************************************************)
(* What LiteLLMKey promises for every number of calls, keys, months and    *)
(* faults.                                                                 *)
(*                                                                         *)
(* The invariant IInv adds to the types that a call only holds keys that   *)
(* the proxy created (HandsHoldKeys, NamedKeysAreUsed); that a key is a    *)
(* secret of the call that created it until it is stored or deleted        *)
(* (NewKeysAreSecret), so that no other call can delete it; that a call    *)
(* which is about to delete a key does not delete the stored one, unless a *)
(* late store brought it back (DeletesMissTheRow); that a close has        *)
(* deleted the key that it read before it deletes the row (ClosesInOrder); *)
(* that every new key has the budget of the row it was created for         *)
(* (NewKeysAreSized); and that a key is only ever replaced by one that was *)
(* created after it (KeysInOrder), so that no replaced key comes back.     *)
(* The invariants of LiteLLMKey follow from it.                            *)
(*                                                                         *)
(* ResetInv, which is inductive beside IInv, is what the monthly reset     *)
(* rests on: see its section.                                              *)
(***************************************************************************)
EXTENDS LiteLLMKey, TLAPS

-----------------------------------------------------------------------------
(* The inductive invariant *)

ClosePc == {"closeRead", "closeKey", "closeRow", "closeStored"}
NewPc == {"store", "check", "drop", "undo"}

\* What a call holds is a key, and its kind fits how far it has come.
HandsHoldKeys ==
  \A c \in Call :
    /\ calls[c].pc \in NewPc \cup {"closeStored"} => calls[c].new \in Key
    /\ calls[c].pc \in {"retire", "closeKey"} => calls[c].seen.key \in Key
    /\ calls[c].pc \in {"provision", "store", "check"} =>
         (calls[c].kind = "load" <=> calls[c].seen.key = NoKey)
    /\ calls[c].pc \in ClosePc => calls[c].kind = "close"
    /\ calls[c].kind = "close" => calls[c].pc \in ClosePc \cup {"done"}
    /\ calls[c].pc = "idle" => calls[c].kind = "none" /\ calls[c].result = "none"

IsUsed(k) == k # NoKey => keys[k].state # "unused"

\* Every key that anybody knows of was created.
NamedKeysAreUsed ==
  /\ IsUsed(row.key)
  /\ \A c \in Call : IsUsed(calls[c].seen.key) /\ IsUsed(calls[c].new)
  /\ \A s \in late : IsUsed(s.seen.key) /\ IsUsed(s.new)

\* Nobody but the call knows its new key, and it is live.
IsSecret(c) ==
  /\ keys[calls[c].new].state = "live"
  /\ row.key # calls[c].new
  /\ \A d \in Call : calls[d].seen.key # calls[c].new /\ (d # c => calls[d].new # calls[c].new)
  /\ \A s \in late : s.seen.key # calls[c].new /\ s.new # calls[c].new

NewKeysAreSecret == \A c \in Call : calls[c].pc \in {"store", "drop"} => IsSecret(c)

IsLate(k) == \E s \in late : s.new = k

DeletesMissTheRow ==
  \A c \in Call :
    /\ calls[c].pc = "undo" /\ row.key = calls[c].new => IsLate(row.key)
    /\ calls[c].pc = "retire" /\ row.key = calls[c].seen.key => IsLate(row.key)
    /\ calls[c].pc = "check" => calls[c].new # calls[c].seen.key

ClosesInOrder ==
  /\ ~row.isOpen => row.key = NoKey
  /\ \A c \in Call :
       /\ calls[c].pc = "closeRow" /\ calls[c].seen.key # NoKey => keys[calls[c].seen.key].state = "deleted"
       /\ calls[c].pc = "closeStored" => ~row.isOpen

NewKeysAreSized ==
  /\ \A c \in Call : calls[c].pc \in {"store", "check"} => keys[calls[c].new].budget = Budget(calls[c].seen)
  /\ \A s \in late : keys[s.new].budget = Budget(s.seen)

\* The call has reported no success, and the stored key is not the one it stored.
Owes(c) ==
  /\ calls[c].kind \in {"replace", "sync"} /\ calls[c].result # "true"
  /\ calls[c].pc # "retire" /\ ~(calls[c].pc = "check" /\ calls[c].new = row.key)

RowKeyIsSizedOrOwed ==
  row.isOpen /\ row.key # NoKey /\ keys[row.key].budget # Budget(row) => \E c \in Call : Owes(c)

\* The key was created after the other one, if there was another one.
IsNewer(k, old) == old # NoKey => old < k

\* The proxy numbers the keys in the order of their creation, and nobody has seen a
\* key that is newer than the stored one.
KeysInOrder ==
  /\ \A j, k \in Key : j < k /\ keys[k].state # "unused" => keys[j].state # "unused"
  /\ \A c \in Call : calls[c].pc \in {"store", "check"} => IsNewer(calls[c].new, calls[c].seen.key)
  /\ \A s \in late : IsNewer(s.new, s.seen.key)
  /\ row.isOpen => \A c \in Call : calls[c].seen.key # NoKey => row.key # NoKey /\ calls[c].seen.key <= row.key

IInv ==
  /\ TypeOK /\ KeysInOrder /\ HandsHoldKeys /\ NamedKeysAreUsed /\ NewKeysAreSecret /\ DeletesMissTheRow
  /\ ClosesInOrder /\ NewKeysAreSized /\ RowKeyIsSizedOrOwed /\ NoKeyLeaks /\ StoredKeyIsLive

-----------------------------------------------------------------------------
(* What the operators of LiteLLMKey do to the call that they move *)

\* Only the call moves, and the rest of the state keeps its types.
OnlyMoves(c) ==
  /\ calls' \in [Call -> CallState]
  /\ \A d \in Call \ {c} : calls'[d] = calls[d]

\* What a user's row is like before a key was stored in it.
LEMMA NewUserTyped ==
  ASSUME NEW key \in Key \cup {NoKey}
  PROVE  NewUser(key) \in Row /\ NewUser(key).key = key /\ NewUser(key).isOpen
<1>1. 0 \in 0..MaxMonth BY KeyAssumption
<1> QED BY <1>1 DEF NewUser, Row, Plan

\* A call that has not started holds nothing.
LEMMA IdleCallTyped ==
  /\ IdleCall \in CallState /\ IdleCall.new = NoKey /\ IdleCall.seen.key = NoKey
  /\ IdleCall.pc = "idle" /\ IdleCall.kind = "none" /\ IdleCall.result = "none" /\ IdleCall.due = 0
<1>1. 0 \in 0..MaxMonth /\ 0 \in 0..MaxReplaceAttempts BY KeyAssumption
<1>2. NewUser(NoKey) \in Row /\ NewUser(NoKey).key = NoKey BY NewUserTyped
<1> QED BY <1>1, <1>2 DEF IdleCall, CallState, Kind, Pc

\* A call that moves on keeps everything else.
LEMMA GoingMoves ==
  ASSUME TypeOK, NEW c \in Call, NEW pc \in Pc, GoesTo(c, pc)
  PROVE  /\ OnlyMoves(c) /\ calls'[c].pc = pc
         /\ calls'[c].kind = calls[c].kind /\ calls'[c].seen = calls[c].seen
         /\ calls'[c].new = calls[c].new /\ calls'[c].result = calls[c].result
         /\ calls'[c].due = calls[c].due
<1> DEFINE call == [calls[c] EXCEPT !.pc = pc]
<1>1. calls[c] \in CallState BY DEF TypeOK
<1>2. /\ call \in CallState /\ call.pc = pc /\ call.kind = calls[c].kind /\ call.seen = calls[c].seen
      /\ call.new = calls[c].new /\ call.result = calls[c].result /\ call.due = calls[c].due
  BY <1>1 DEF CallState
<1>3. calls' = [calls EXCEPT ![c] = call] BY DEF GoesTo, TypeOK
<1> HIDE DEF call
<1> QED BY <1>2, <1>3 DEF OnlyMoves, TypeOK

\* A call that starts is idle, and keeps everything else.
LEMMA StartingMoves ==
  ASSUME TypeOK, NEW c \in Call, NEW kind \in Kind, NEW pc \in Pc, Starts(c, kind, pc)
  PROVE  /\ calls[c].pc = "idle" /\ OnlyMoves(c)
         /\ calls'[c].pc = pc /\ calls'[c].kind = kind /\ calls'[c].seen = calls[c].seen
         /\ calls'[c].new = calls[c].new /\ calls'[c].result = calls[c].result
         /\ calls'[c].due = calls[c].due
<1> DEFINE call == [calls[c] EXCEPT !.kind = kind, !.pc = pc]
<1>1. calls[c] \in CallState BY DEF TypeOK
<1>2. /\ call \in CallState /\ call.pc = pc /\ call.kind = kind /\ call.seen = calls[c].seen
      /\ call.new = calls[c].new /\ call.result = calls[c].result /\ call.due = calls[c].due
  BY <1>1 DEF CallState
<1>3. calls' = [calls EXCEPT ![c] = call] BY DEF Starts, TypeOK
<1> HIDE DEF call
<1> QED BY <1>2, <1>3 DEF OnlyMoves, TypeOK, Starts

\* A call that ends holds nothing, and a close remembers the row it began with.
LEMMA EndingMoves ==
  ASSUME TypeOK, NEW c \in Call, NEW result \in {"true", "false"}, Ends(c, result)
  PROVE  /\ OnlyMoves(c) /\ calls'[c].pc = "done" /\ calls'[c].kind = calls[c].kind
         /\ calls'[c].new = NoKey /\ calls'[c].result = result /\ calls'[c].due = 0
         /\ calls[c].kind = "close" => calls'[c].seen = calls[c].seen
         /\ calls[c].kind # "close" => calls'[c].seen.key = NoKey
<1> DEFINE seen == IF calls[c].kind = "close" THEN calls[c].seen ELSE IdleCall.seen
<1> DEFINE call == [IdleCall EXCEPT !.kind = calls[c].kind, !.pc = "done", !.result = result, !.seen = seen]
<1>1. calls[c] \in CallState BY DEF TypeOK
<1>2. seen \in Row BY <1>1, IdleCallTyped DEF CallState
<1>3. calls' = [calls EXCEPT ![c] = call] BY DEF Ends, IdleCall
<1>4. /\ calls[c].kind = "close" => seen = calls[c].seen
      /\ calls[c].kind # "close" => seen.key = NoKey
  BY IdleCallTyped
<1> HIDE DEF seen
<1>5. /\ call \in CallState /\ call.pc = "done" /\ call.kind = calls[c].kind
      /\ call.new = NoKey /\ call.result = result /\ call.seen = seen /\ call.due = 0
  BY <1>1, <1>2, IdleCallTyped DEF CallState, Pc
<1> HIDE DEF call
<1> QED BY <1>3, <1>4, <1>5 DEF OnlyMoves, TypeOK

\* A replacement that failed may be tried again by a projection.
LEMMA ReplacingMoves ==
  ASSUME TypeOK, NEW c \in Call, NEW isReplaced \in BOOLEAN, Replaced(c, isReplaced),
         calls[c].kind # "close"
  PROVE  /\ OnlyMoves(c) /\ calls'[c].kind = calls[c].kind
         /\ calls'[c].due \in {0, calls[c].due}
         /\ \/ /\ calls'[c].pc = "done" /\ calls'[c].new = NoKey /\ calls'[c].seen.key = NoKey
               /\ calls'[c].result = IF isReplaced THEN "true" ELSE "false"
            \/ /\ ~isReplaced /\ calls[c].kind = "sync" /\ calls'[c].pc = "read"
               /\ calls'[c].new = calls[c].new /\ calls'[c].seen = calls[c].seen
               /\ calls'[c].result = calls[c].result /\ calls'[c].due = calls[c].due
<1>1. CASE Ends(c, IF isReplaced THEN "true" ELSE "false")
  BY <1>1, EndingMoves
<1>2. CASE /\ ~isReplaced /\ calls[c].kind = "sync" /\ calls[c].tries + 1 < MaxReplaceAttempts
           /\ calls' = [calls EXCEPT ![c] = [calls[c] EXCEPT !.pc = "read", !.tries = @ + 1]]
  <2> DEFINE call == [calls[c] EXCEPT !.pc = "read", !.tries = @ + 1]
  <2>1. calls[c] \in CallState BY DEF TypeOK
  <2>2. calls[c].tries + 1 \in 0..MaxReplaceAttempts BY <1>2, <2>1, KeyAssumption DEF CallState
  <2>3. /\ call \in CallState /\ call.pc = "read" /\ call.kind = calls[c].kind /\ call.seen = calls[c].seen
        /\ call.new = calls[c].new /\ call.result = calls[c].result /\ call.due = calls[c].due
    BY <2>1, <2>2 DEF CallState, Pc
  <2>4. calls' = [calls EXCEPT ![c] = call] BY <1>2
  <2> HIDE DEF call
  <2> QED BY <1>2, <2>3, <2>4 DEF OnlyMoves, TypeOK
<1> QED BY <1>1, <1>2 DEF Replaced

-----------------------------------------------------------------------------
(* Steps of a call that leave the row alone *)

\* No key changes but those of ks, and those are deleted at most.
KeysLoseAtMost(ks) ==
  /\ keys' \in [Key -> [state : {"unused", "live", "deleted"}, budget : Nat]]
  /\ \A k \in Key : \/ keys'[k] = keys[k]
                    \/ k \in ks /\ keys'[k].state = "deleted" /\ keys'[k].budget = keys[k].budget
                                /\ keys[k].state # "unused"

\* What the call holds afterwards it held before, or has just read.
HoldsNothingElse(c) ==
  /\ calls'[c].new \in {NoKey, calls[c].new, row.key}
  /\ calls'[c].seen.key \in {NoKey, calls[c].seen.key, row.key}

\* A call that is about to store or to drop a key was about to store it before.
KeepsSecret(c) ==
  /\ calls'[c].pc \in {"store", "drop"} =>
       calls[c].pc = "store" /\ calls'[c].new = calls[c].new /\ calls'[c].seen = calls[c].seen
  /\ calls'[c].pc \in {"store", "check"} =>
       calls[c].pc = "store" /\ calls'[c].new = calls[c].new /\ calls'[c].seen = calls[c].seen

\* What the call deletes next is not the stored key.
MissesTheRow(c) ==
  /\ calls'[c].pc = "undo" => row.key # calls'[c].new
  /\ calls'[c].pc = "retire" => row.key # calls'[c].seen.key
  /\ calls'[c].pc = "closeRow" /\ calls'[c].seen.key # NoKey => keys'[calls'[c].seen.key].state = "deleted"
  /\ calls'[c].pc # "closeStored"

\* The keys that the call held are in its hands, stored, deleted or lost.
LosesNoKey(c) ==
  \A k \in Key : k \in InHand(c) =>
    k \in InHand(c)' \/ k \in lost' \/ k = row.key \/ keys'[k].state # "live"

IsSized == row.isOpen /\ row.key # NoKey => keys[row.key].budget = Budget(row)

\* A change of the budget goes on, unless the stored key is sized.
KeepsOwing(c) ==
  IsSized \/ (Owes(c) => calls'[c].kind = calls[c].kind /\ calls'[c].result # "true"
                           /\ calls'[c].pc # "retire" /\ ~(calls'[c].pc = "check" /\ calls'[c].new = row.key))

\* The stored key is not deleted, unless the account is being closed or a late store brought it back.
SparesTheRow(c) ==
  /\ calls[c].kind = "close" =>
       calls'[c].kind = "close" /\ (calls'[c].seen.key = row.key \/ calls'[c].seen = calls[c].seen)
  /\ row.isOpen /\ row.key # NoKey /\ keys'[row.key] # keys[row.key] =>
       IsLate(row.key) \/ (calls[c].kind = "close" /\ calls[c].seen.key = row.key)

HandsHoldKeysFor(c) ==
  /\ calls[c].pc \in NewPc \cup {"closeStored"} => calls[c].new \in Key
  /\ calls[c].pc \in {"retire", "closeKey"} => calls[c].seen.key \in Key
  /\ calls[c].pc \in {"provision", "store", "check"} =>
       (calls[c].kind = "load" <=> calls[c].seen.key = NoKey)
  /\ calls[c].pc \in ClosePc => calls[c].kind = "close"
  /\ calls[c].kind = "close" => calls[c].pc \in ClosePc \cup {"done"}
  /\ calls[c].pc = "idle" => calls[c].kind = "none" /\ calls[c].result = "none"

\* A step of a call that leaves the row alone keeps the invariant, if it deletes only
\* keys that the call holds and the call goes on with what it may hold.
LEMMA CallStepHolds ==
  ASSUME IInv, NEW c \in Call, OnlyMoves(c), UNCHANGED <<row, late>>,
         NEW ks, ks \subseteq {calls[c].new, calls[c].seen.key}, KeysLoseAtMost(ks),
         calls[c].pc \notin {"store", "drop"} \/ calls[c].new \notin ks \/ calls'[c].pc \notin {"store", "drop", "check"},
         lost \subseteq lost', lost' \subseteq Key, month' \in 0..MaxMonth, faults' \in 0..MaxFaults,
         HandsHoldKeysFor(c)', HoldsNothingElse(c), KeepsSecret(c), MissesTheRow(c), LosesNoKey(c),
         KeepsOwing(c), SparesTheRow(c)
  PROVE  IInv'
<1> DEFINE AreSame(d) == calls'[d] = calls[d]
<1>1. TypeOK' BY DEF IInv, TypeOK, OnlyMoves, KeysLoseAtMost
<1>2. HandsHoldKeys'
  BY DEF IInv, HandsHoldKeys, HandsHoldKeysFor, OnlyMoves
<1>3. \A k \in Key : /\ keys[k].state # "unused" => keys'[k].state # "unused"
                     /\ keys'[k].budget = keys[k].budget
                     /\ keys[k].state = "deleted" => keys'[k].state = "deleted"
                     /\ keys'[k].state = "live" => keys[k].state = "live"
  BY DEF KeysLoseAtMost
<1>4. /\ row.key \in Key \cup {NoKey}
      /\ \A d \in Call : calls[d].seen.key \in Key \cup {NoKey} /\ calls[d].new \in Key \cup {NoKey}
      /\ \A s \in late : s.seen.key \in Key \cup {NoKey} /\ s.new \in Key
  BY DEF IInv, TypeOK, CallState, Row, Store
<1>5. NamedKeysAreUsed'
  BY <1>3, <1>4 DEF IInv, NamedKeysAreUsed, IsUsed, OnlyMoves, HoldsNothingElse
<1>6. NewKeysAreSecret'
  <2> SUFFICES ASSUME NEW d \in Call, (calls[d].pc \in {"store", "drop"})' PROVE IsSecret(d)'
    BY DEF NewKeysAreSecret
  <2>1. IsSecret(d) /\ calls'[d].new = calls[d].new /\ calls[d].new \in Key
    BY <1>4 DEF IInv, NewKeysAreSecret, HandsHoldKeys, NewPc, OnlyMoves, KeepsSecret
  <2>2. calls[d].new \notin ks BY <2>1 DEF IsSecret, OnlyMoves, KeepsSecret
  <2>3. keys'[calls[d].new] = keys[calls[d].new] BY <2>1, <2>2 DEF KeysLoseAtMost
  <2>4. \A e \in Call : calls'[e].seen.key # calls[d].new /\ (e # d => calls'[e].new # calls[d].new)
    BY <2>1, KeyAssumption DEF IsSecret, OnlyMoves, HoldsNothingElse, Key
  <2> QED BY <2>1, <2>3, <2>4 DEF IsSecret
<1>7. DeletesMissTheRow'
  BY DEF IInv, DeletesMissTheRow, IsLate, OnlyMoves, MissesTheRow, KeepsSecret, NewKeysAreSecret, IsSecret
<1>8. ClosesInOrder'
  BY <1>3, <1>4 DEF IInv, ClosesInOrder, OnlyMoves, MissesTheRow
<1>9. NewKeysAreSized'
  BY <1>2, <1>3, <1>4 DEF IInv, NewKeysAreSized, HandsHoldKeys, NewPc, OnlyMoves, KeepsSecret
<1>10. RowKeyIsSizedOrOwed'
  BY <1>3, <1>4 DEF IInv, RowKeyIsSizedOrOwed, Owes, OnlyMoves, KeepsOwing, IsSized
<1>11. NoKeyLeaks'
  BY <1>3 DEF IInv, NoKeyLeaks, InHand, LosesNoKey, OnlyMoves
<1>12. StoredKeyIsLive'
  BY <1>4 DEF IInv, StoredKeyIsLive, IsLate, SparesTheRow, OnlyMoves
<1>13. KeysInOrder'
  <2>1. \A j, k \in Key : j < k /\ keys'[k].state # "unused" => keys'[j].state # "unused"
    BY DEF IInv, KeysInOrder, KeysLoseAtMost
  <2>2. /\ \A d \in Call : calls'[d].pc \in {"store", "check"} => IsNewer(calls'[d].new, calls'[d].seen.key)
        /\ \A s \in late : IsNewer(s.new, s.seen.key)
    BY DEF IInv, KeysInOrder, OnlyMoves, KeepsSecret
  <2>3. ASSUME row.isOpen, NEW d \in Call, calls'[d].seen.key # NoKey
        PROVE  row.key # NoKey /\ calls'[d].seen.key <= row.key
    <3>1. calls'[d].seen.key \in {calls[d].seen.key, row.key} BY <2>3 DEF OnlyMoves, HoldsNothingElse
    <3> QED BY <1>4, <2>3, <3>1 DEF IInv, KeysInOrder, Key
  <2> QED BY <2>1, <2>2, <2>3 DEF KeysInOrder, IsNewer
<1> QED BY <1>13, <1>1, <1>2, <1>5, <1>6, <1>7, <1>8, <1>9, <1>10, <1>11, <1>12 DEF IInv

\* What a step of a call that leaves row and keys alone has to keep.
StaysFit(c) ==
  /\ HandsHoldKeysFor(c)' /\ HoldsNothingElse(c) /\ KeepsSecret(c) /\ MissesTheRow(c)
  /\ LosesNoKey(c) /\ KeepsOwing(c)
  /\ calls[c].kind = "close" =>
       calls'[c].kind = "close" /\ (calls'[c].seen.key = row.key \/ calls'[c].seen = calls[c].seen)

\* A step of a call that leaves row and keys alone keeps the invariant.
LEMMA QuietStepHolds ==
  ASSUME IInv, NEW c \in Call, OnlyMoves(c), UNCHANGED <<row, keys, late, month>>,
         lost \subseteq lost', lost' \subseteq Key, faults' \in 0..MaxFaults, StaysFit(c)
  PROVE  IInv'
<1>1. KeysLoseAtMost({}) BY DEF IInv, TypeOK, KeysLoseAtMost
<1>2. SparesTheRow(c) BY DEF SparesTheRow, StaysFit
<1>3. month' \in 0..MaxMonth BY DEF IInv, TypeOK
<1> QED BY <1>1, <1>2, <1>3, CallStepHolds DEF StaysFit

\* A call starts.
LEMMA StartHolds ==
  ASSUME IInv, NEW c \in Call,
         calls[c].pc = "idle", OnlyMoves(c), UNCHANGED <<row, keys, late, month, lost, faults>>,
         calls'[c].seen = calls[c].seen, calls'[c].new = calls[c].new, calls'[c].result = calls[c].result,
         \/ calls'[c].pc = "read" /\ calls'[c].kind \in {"load", "reset"}
         \/ calls'[c].pc = "closeRead" /\ calls'[c].kind = "close"
  PROVE  IInv'
<1>1. TypeOK /\ calls[c].kind = "none" BY DEF IInv, HandsHoldKeys
<1>2. StaysFit(c)
  BY <1>1 DEF StaysFit, HandsHoldKeysFor, ClosePc, NewPc, HoldsNothingElse, KeepsSecret, MissesTheRow,
              LosesNoKey, InHand, KeepsOwing, Owes
<1>3. lost \subseteq lost' /\ lost' \subseteq Key /\ faults' \in 0..MaxFaults BY <1>1 DEF TypeOK
<1> QED BY <1>2, <1>3, QuietStepHolds

\* A load, a reset and a close start.
LEMMA StartsHold ==
  ASSUME IInv, NEW c \in Call, StartLoad(c) \/ StartReset(c) \/ StartClose(c) PROVE IInv'
<1>1. TypeOK BY DEF IInv
<1>2. CASE StartLoad(c)
  BY <1>1, <1>2, StartingMoves, StartHolds DEF StartLoad, Kind, Pc
<1>3. CASE StartClose(c)
  BY <1>1, <1>3, StartingMoves, StartHolds DEF StartClose, Kind, Pc
<1>4. CASE StartReset(c)
  <2> DEFINE call == [calls[c] EXCEPT !.kind = "reset", !.pc = "read", !.due = month]
  <2>1. calls[c] \in CallState /\ month \in 0..MaxMonth BY <1>1 DEF TypeOK
  <2>2. /\ call \in CallState /\ call.pc = "read" /\ call.kind = "reset" /\ call.seen = calls[c].seen
        /\ call.new = calls[c].new /\ call.result = calls[c].result
    BY <2>1 DEF CallState, Kind, Pc
  <2>3. calls' = [calls EXCEPT ![c] = call] BY <1>4 DEF StartReset
  <2> HIDE DEF call
  <2>4. OnlyMoves(c) /\ calls'[c] = call BY <1>1, <2>2, <2>3 DEF OnlyMoves, TypeOK
  <2> QED BY <1>4, <2>2, <2>4, StartHolds DEF StartReset
<1> QED BY <1>2, <1>3, <1>4

\* The row is read, and the call ends on it or goes on to create a key.
LEMMA ReadsHold ==
  ASSUME IInv, NEW c \in Call, OwnerNeedsNoKey(c) \/ OwnerNeedsKey(c) PROVE IInv'
<1>1. TypeOK /\ calls[c].kind # "close" BY DEF IInv, HandsHoldKeys, ClosePc, OwnerNeedsNoKey, OwnerNeedsKey
<1>2. calls[c].pc = "read" /\ UNCHANGED <<row, keys, late, month, lost, faults>>
  BY DEF OwnerNeedsNoKey, OwnerNeedsKey
<1>3. ~row.isOpen => row.key = NoKey BY DEF IInv, ClosesInOrder
<1>4. CASE OwnerNeedsNoKey(c)
  <2>1. /\ OnlyMoves(c) /\ calls'[c].pc = "done" /\ calls'[c].kind = calls[c].kind
        /\ calls'[c].new = NoKey /\ calls'[c].seen.key = NoKey
    BY <1>1, <1>4, EndingMoves DEF OwnerNeedsNoKey
  <2>2. calls[c].kind \in {"replace", "sync"} => IsSized BY <1>4 DEF OwnerNeedsNoKey, IsSized
  <2> QED
    BY <1>1, <1>2, <2>1, <2>2, QuietStepHolds
       DEF StaysFit, HandsHoldKeysFor, ClosePc, NewPc, HoldsNothingElse, KeepsSecret, MissesTheRow,
           LosesNoKey, InHand, KeepsOwing, Owes, TypeOK
<1>5. CASE OwnerNeedsKey(c)
  <2> DEFINE call == [calls[c] EXCEPT !.pc = "provision", !.seen = row]
  <2>1. /\ call \in CallState /\ call.pc = "provision" /\ call.kind = calls[c].kind /\ call.seen = row
        /\ call.new = calls[c].new /\ call.result = calls[c].result
    BY <1>1 DEF TypeOK, CallState, Pc
  <2>2. calls' = [calls EXCEPT ![c] = call] BY <1>5 DEF OwnerNeedsKey
  <2> HIDE DEF call
  <2>3. OnlyMoves(c) /\ calls'[c] = call BY <1>1, <2>1, <2>2 DEF OnlyMoves, TypeOK
  <2>4. (calls[c].kind = "load") <=> (row.key = NoKey) BY <1>5 DEF OwnerNeedsKey
  <2> QED
    BY <1>1, <1>2, <2>1, <2>3, <2>4, QuietStepHolds
       DEF StaysFit, HandsHoldKeysFor, ClosePc, NewPc, HoldsNothingElse, KeepsSecret, MissesTheRow,
           LosesNoKey, InHand, KeepsOwing, Owes, TypeOK
<1> QED BY <1>4, <1>5

\* The budgets are compared: a key that is not stale is sized.
LEMMA NotStaleIsSized ==
  ASSUME TypeOK, FALSE \in Stale PROVE IsSized
BY DEF Stale, IsSized

\* A budget is compared, before a sync replaces a key or after a store that matched nothing.
LEMMA ComparesHold ==
  ASSUME IInv, NEW c \in Call, CompareBudget(c) \/ RecheckBudget(c) PROVE IInv'
<1>1. /\ TypeOK /\ calls[c].kind # "close" /\ calls[c].pc \in {"compare", "recheck"}
      /\ UNCHANGED <<row, keys, late, month, lost, faults>>
  BY DEF IInv, HandsHoldKeys, ClosePc, CompareBudget, RecheckBudget
<1>2. CASE CompareBudget(c) /\ GoesTo(c, "read")
  <2>1. /\ OnlyMoves(c) /\ calls'[c].pc = "read" /\ calls'[c].kind = calls[c].kind
        /\ calls'[c].new = calls[c].new /\ calls'[c].seen = calls[c].seen /\ calls'[c].result = calls[c].result
    BY <1>1, <1>2, GoingMoves DEF Pc
  <2> QED
    BY <1>1, <2>1, QuietStepHolds
       DEF StaysFit, HandsHoldKeysFor, ClosePc, NewPc, HoldsNothingElse, KeepsSecret, MissesTheRow,
           LosesNoKey, InHand, KeepsOwing, Owes, TypeOK
<1>3. CASE CompareBudget(c) /\ FALSE \in Stale /\ Ends(c, "true")
  <2>1. /\ OnlyMoves(c) /\ calls'[c].pc = "done" /\ calls'[c].kind = calls[c].kind
        /\ calls'[c].new = NoKey /\ calls'[c].seen.key = NoKey
    BY <1>1, <1>3, EndingMoves
  <2>2. IsSized BY <1>1, <1>3, NotStaleIsSized
  <2> QED
    BY <1>1, <2>1, <2>2, QuietStepHolds
       DEF StaysFit, HandsHoldKeysFor, ClosePc, NewPc, HoldsNothingElse, KeepsSecret, MissesTheRow,
           LosesNoKey, InHand, KeepsOwing, TypeOK
<1>4. ASSUME RecheckBudget(c), NEW isStale \in Stale, Replaced(c, ~isStale) PROVE IInv'
  <2>1. isStale \in BOOLEAN BY DEF Stale
  <2>2. /\ OnlyMoves(c) /\ calls'[c].kind = calls[c].kind
        /\ \/ /\ calls'[c].pc = "done" /\ calls'[c].new = NoKey /\ calls'[c].seen.key = NoKey
              /\ calls'[c].result = IF isStale THEN "false" ELSE "true"
           \/ /\ isStale /\ calls'[c].pc = "read" /\ calls'[c].result = calls[c].result
              /\ calls'[c].new = calls[c].new /\ calls'[c].seen = calls[c].seen
    BY <1>1, <1>4, <2>1, ReplacingMoves
  <2>3. ~isStale => IsSized BY <1>1, <1>4, <2>1, NotStaleIsSized
  <2> QED
    BY <1>1, <2>1, <2>2, <2>3, QuietStepHolds
       DEF StaysFit, HandsHoldKeysFor, ClosePc, NewPc, HoldsNothingElse, KeepsSecret, MissesTheRow,
           LosesNoKey, InHand, KeepsOwing, Owes, TypeOK
<1>5. CASE CompareBudget(c) BY <1>2, <1>3, <1>5 DEF CompareBudget, Stale
<1> QED BY <1>4, <1>5 DEF RecheckBudget

\* checkFailedLiteLLMKeyStore: a key that is not the stored one is deleted, a replaced one retired.
LEMMA CheckHolds ==
  ASSUME IInv, NEW c \in Call, CheckStore(c) PROVE IInv'
<1>1. /\ TypeOK /\ calls[c].kind # "close" /\ calls[c].pc = "check"
      /\ UNCHANGED <<row, keys, late, month, lost, faults>>
  BY DEF IInv, HandsHoldKeys, ClosePc, CheckStore
<1>2. /\ calls[c].new \in Key /\ calls[c].seen.key \in Key \cup {NoKey}
      /\ (calls[c].kind = "load" <=> calls[c].seen.key = NoKey)
      /\ calls[c].new # calls[c].seen.key
  BY <1>1 DEF IInv, HandsHoldKeys, NewPc, TypeOK, CallState, Row, DeletesMissTheRow
<1>3. ~row.isOpen => row.key = NoKey BY DEF IInv, ClosesInOrder
<1>4. calls[c].new # NoKey BY <1>2, KeyAssumption DEF Key
<1>5. CASE IsStored(c) /\ calls[c].kind = "load"
  <2>1. /\ OnlyMoves(c) /\ calls'[c].pc = "done" /\ calls'[c].kind = calls[c].kind
        /\ calls'[c].new = NoKey /\ calls'[c].seen.key = NoKey
    BY <1>1, <1>5, EndingMoves DEF CheckStore, LearnsOfStore
  <2> QED
    BY <1>1, <1>5, <2>1, QuietStepHolds
       DEF StaysFit, HandsHoldKeysFor, ClosePc, NewPc, HoldsNothingElse, KeepsSecret, MissesTheRow,
           LosesNoKey, InHand, KeepsOwing, Owes, TypeOK, IsStored
<1>6. CASE IsStored(c) /\ calls[c].kind # "load"
  <2>1. /\ OnlyMoves(c) /\ calls'[c].pc = "retire" /\ calls'[c].kind = calls[c].kind
        /\ calls'[c].new = calls[c].new /\ calls'[c].seen = calls[c].seen /\ calls'[c].result = calls[c].result
    BY <1>1, <1>6, GoingMoves DEF CheckStore, LearnsOfStore, Pc
  <2> QED
    BY <1>1, <1>2, <1>6, <2>1, QuietStepHolds
       DEF StaysFit, HandsHoldKeysFor, ClosePc, NewPc, HoldsNothingElse, KeepsSecret, MissesTheRow,
           LosesNoKey, InHand, KeepsOwing, Owes, TypeOK, IsStored
<1>7. CASE ~IsStored(c)
  <2>1. /\ OnlyMoves(c) /\ calls'[c].pc = "undo" /\ calls'[c].kind = calls[c].kind
        /\ calls'[c].new = calls[c].new /\ calls'[c].seen = calls[c].seen /\ calls'[c].result = calls[c].result
    BY <1>1, <1>7, GoingMoves DEF CheckStore, Pc
  <2>2. row.key # calls[c].new BY <1>3, <1>4, <1>7 DEF IsStored
  <2> QED
    BY <1>1, <1>2, <2>1, <2>2, QuietStepHolds
       DEF StaysFit, HandsHoldKeysFor, ClosePc, NewPc, HoldsNothingElse, KeepsSecret, MissesTheRow,
           LosesNoKey, InHand, KeepsOwing, Owes, TypeOK
<1> QED BY <1>5, <1>6, <1>7

\* A close reads the row.
LEMMA ReadClosingHolds ==
  ASSUME IInv, NEW c \in Call, ReadClosing(c) PROVE IInv'
<1>1. /\ TypeOK /\ calls[c].kind = "close" /\ calls[c].pc = "closeRead"
      /\ UNCHANGED <<row, keys, late, month, lost, faults>>
  BY DEF IInv, HandsHoldKeys, ClosePc, ReadClosing
<1>2. CASE ~row.isOpen
  <2>1. /\ OnlyMoves(c) /\ calls'[c].pc = "done" /\ calls'[c].kind = calls[c].kind
        /\ calls'[c].new = NoKey /\ calls'[c].seen = calls[c].seen
    BY <1>1, <1>2, EndingMoves DEF ReadClosing
  <2> QED
    BY <1>1, <2>1, QuietStepHolds
       DEF StaysFit, HandsHoldKeysFor, ClosePc, NewPc, HoldsNothingElse, KeepsSecret, MissesTheRow,
           LosesNoKey, InHand, KeepsOwing, Owes, TypeOK
<1>3. CASE row.isOpen
  <2> DEFINE pc == IF row.key = NoKey THEN "closeRow" ELSE "closeKey"
  <2> DEFINE call == [calls[c] EXCEPT !.pc = pc, !.seen = row]
  <2>1. /\ call \in CallState /\ call.pc = pc /\ call.kind = calls[c].kind /\ call.seen = row
        /\ call.new = calls[c].new /\ call.result = calls[c].result
    BY <1>1 DEF TypeOK, CallState, Pc
  <2>2. calls' = [calls EXCEPT ![c] = call] BY <1>3 DEF ReadClosing
  <2>3. row.key \in Key \cup {NoKey} BY <1>1 DEF TypeOK, Row
  <2> HIDE DEF call
  <2>4. OnlyMoves(c) /\ calls'[c] = call BY <1>1, <2>1, <2>2 DEF OnlyMoves, TypeOK
  <2> QED
    BY <1>1, <2>1, <2>3, <2>4, QuietStepHolds
       DEF StaysFit, HandsHoldKeysFor, ClosePc, NewPc, HoldsNothingElse, KeepsSecret, MissesTheRow,
           LosesNoKey, InHand, KeepsOwing, Owes, TypeOK
<1> QED BY <1>2, <1>3

\* The process exits, or a read fails: what the call held is lost.
LEMMA CallFailsHolds ==
  ASSUME IInv, NEW c \in Call, CallFails(c) PROVE IInv'
<1>1. /\ TypeOK /\ UNCHANGED <<row, keys, late, month>> /\ lost' = lost \cup InHand(c)
      /\ faults' \in 0..MaxFaults
  BY KeyAssumption DEF IInv, CallFails, Fault, TypeOK
<1>2. /\ OnlyMoves(c) /\ calls'[c].pc = "done" /\ calls'[c].kind = calls[c].kind
      /\ calls'[c].new = NoKey /\ calls'[c].result = "false"
      /\ calls[c].kind = "close" => calls'[c].seen = calls[c].seen
      /\ calls[c].kind # "close" => calls'[c].seen.key = NoKey
  BY <1>1, EndingMoves DEF CallFails
<1>3. InHand(c) \subseteq Key BY DEF IInv, HandsHoldKeys, NewPc, InHand
<1>4. lost \subseteq lost' /\ lost' \subseteq Key BY <1>1, <1>3 DEF TypeOK
<1>5. StaysFit(c)
  BY <1>1, <1>2
     DEF StaysFit, HandsHoldKeysFor, ClosePc, NewPc, HoldsNothingElse, KeepsSecret, MissesTheRow,
         LosesNoKey, KeepsOwing, Owes
<1> QED BY <1>1, <1>2, <1>4, <1>5, QuietStepHolds

-----------------------------------------------------------------------------
(* Steps that delete a key *)

\* A delete request takes a key from the live ones, or loses it.
LEMMA RequestingDeletes ==
  ASSUME TypeOK, NEW k \in Key, keys[k].state # "unused", RequestDelete(k)
  PROVE  /\ KeysLoseAtMost({k}) /\ (keys'[k].state = "deleted" \/ k \in lost')
         /\ lost \subseteq lost' /\ lost' \subseteq Key /\ faults' \in 0..MaxFaults
<1>1. keys' \in {keys, Deleted(k)} BY DEF RequestDelete
<1>2. KeysLoseAtMost({k}) /\ (keys' = Deleted(k) => keys'[k].state = "deleted")
  BY <1>1 DEF TypeOK, Deleted, KeysLoseAtMost
<1>3. /\ (keys' = Deleted(k) \/ k \in lost')
      /\ lost \subseteq lost' /\ lost' \subseteq Key /\ faults' \in 0..MaxFaults
  BY KeyAssumption DEF RequestDelete, Fault, TypeOK
<1> QED BY <1>2, <1>3

\* A key that was not stored is deleted, or lost with the request.
LEMMA DeleteUnstoredHolds ==
  ASSUME IInv, NEW c \in Call, DeleteUnstoredKey(c) PROVE IInv'
<1> DEFINE k == calls[c].new
<1>1. /\ TypeOK /\ calls[c].kind # "close" /\ calls[c].pc \in {"drop", "undo"}
      /\ UNCHANGED <<row, late, month>> /\ RequestDelete(k) /\ AfterDrop(c)
  BY DEF IInv, HandsHoldKeys, ClosePc, DeleteUnstoredKey
<1>2. k \in Key /\ k # NoKey /\ keys[k].state # "unused"
  BY <1>1, KeyAssumption DEF IInv, HandsHoldKeys, NewPc, NamedKeysAreUsed, IsUsed, Key
<1>3. /\ KeysLoseAtMost({k}) /\ (keys'[k].state = "deleted" \/ k \in lost')
      /\ lost \subseteq lost' /\ lost' \subseteq Key /\ faults' \in 0..MaxFaults
  BY <1>1, <1>2, RequestingDeletes
<1>4. /\ OnlyMoves(c) /\ calls'[c].kind = calls[c].kind /\ calls'[c].pc \in {"done", "read", "recheck"}
      /\ calls'[c].new \in {NoKey, k} /\ calls'[c].seen.key \in {NoKey, calls[c].seen.key}
      /\ calls[c].kind \in {"replace", "sync"} /\ calls[c].result # "true" => calls'[c].result # "true"
  <2>1. CASE calls[c].pc = "undo" /\ calls[c].kind = "load"
    BY <1>1, <2>1, EndingMoves DEF AfterDrop, Throws
  <2>2. CASE calls[c].pc = "undo" /\ calls[c].kind # "load"
    BY <1>1, <2>2, ReplacingMoves DEF AfterDrop, Throws
  <2>3. CASE calls[c].pc # "undo"
    BY <1>1, <2>3, GoingMoves DEF AfterDrop, Pc
  <2> QED BY <2>1, <2>2, <2>3
<1>5. row.key = k => IsLate(row.key)
  BY <1>1 DEF IInv, DeletesMissTheRow, NewKeysAreSecret, IsSecret
<1>6. row.key \in Key \cup {NoKey} BY <1>1 DEF TypeOK, Row
<1>7. SparesTheRow(c) BY <1>1, <1>3, <1>5, <1>6 DEF SparesTheRow, KeysLoseAtMost
<1>8. /\ HandsHoldKeysFor(c)' /\ HoldsNothingElse(c) /\ KeepsSecret(c) /\ MissesTheRow(c)
      /\ LosesNoKey(c) /\ KeepsOwing(c)
  BY <1>1, <1>3, <1>4
     DEF HandsHoldKeysFor, ClosePc, NewPc, HoldsNothingElse, KeepsSecret, MissesTheRow,
         LosesNoKey, InHand, KeepsOwing, Owes
<1>9. month' \in 0..MaxMonth BY <1>1 DEF TypeOK
<1> QED BY <1>1, <1>3, <1>4, <1>7, <1>8, <1>9, CallStepHolds

\* The replaced key is retired.
LEMMA RetireHolds ==
  ASSUME IInv, NEW c \in Call, RetireKey(c) PROVE IInv'
<1> DEFINE k == calls[c].seen.key
<1>1. /\ TypeOK /\ calls[c].kind # "close" /\ calls[c].pc = "retire"
      /\ UNCHANGED <<row, late, month>> /\ RequestDelete(k) /\ Ends(c, "true")
  BY DEF IInv, HandsHoldKeys, ClosePc, RetireKey
<1>2. k \in Key /\ k # NoKey /\ keys[k].state # "unused"
  BY <1>1, KeyAssumption DEF IInv, HandsHoldKeys, NewPc, NamedKeysAreUsed, IsUsed, Key
<1>3. /\ KeysLoseAtMost({k}) /\ (keys'[k].state = "deleted" \/ k \in lost')
      /\ lost \subseteq lost' /\ lost' \subseteq Key /\ faults' \in 0..MaxFaults
  BY <1>1, <1>2, RequestingDeletes
<1>4. /\ OnlyMoves(c) /\ calls'[c].kind = calls[c].kind /\ calls'[c].pc = "done"
      /\ calls'[c].new = NoKey /\ calls'[c].seen.key = NoKey
  BY <1>1, EndingMoves
<1>5. row.key = k => IsLate(row.key) BY <1>1 DEF IInv, DeletesMissTheRow
<1>6. row.key \in Key \cup {NoKey} BY <1>1 DEF TypeOK, Row
<1>7. SparesTheRow(c) BY <1>1, <1>3, <1>5, <1>6 DEF SparesTheRow, KeysLoseAtMost
<1>8. /\ HandsHoldKeysFor(c)' /\ HoldsNothingElse(c) /\ KeepsSecret(c) /\ MissesTheRow(c)
      /\ LosesNoKey(c) /\ KeepsOwing(c)
  BY <1>1, <1>3, <1>4
     DEF HandsHoldKeysFor, ClosePc, NewPc, HoldsNothingElse, KeepsSecret, MissesTheRow,
         LosesNoKey, InHand, KeepsOwing, Owes
<1>9. month' \in 0..MaxMonth BY <1>1 DEF TypeOK
<1> QED BY <1>1, <1>3, <1>4, <1>7, <1>8, <1>9, CallStepHolds

\* A close deletes the key that it read, and goes on only if the proxy did.
LEMMA CloseKeyHolds ==
  ASSUME IInv, NEW c \in Call, CloseKey(c) PROVE IInv'
<1> DEFINE k == calls[c].seen.key
<1>1. /\ TypeOK /\ calls[c].kind = "close" /\ calls[c].pc = "closeKey"
      /\ UNCHANGED <<row, late, month, lost>> /\ keys' \in {keys, Deleted(k)} /\ faults' \in 0..MaxFaults
      /\ \/ keys' = Deleted(k) /\ GoesTo(c, "closeRow")
         \/ Ends(c, "false")
  BY KeyAssumption DEF IInv, HandsHoldKeys, ClosePc, CloseKey, Fault, TypeOK
<1>2. k \in Key /\ k # NoKey /\ keys[k].state # "unused"
  BY <1>1, KeyAssumption DEF IInv, HandsHoldKeys, NewPc, NamedKeysAreUsed, IsUsed, Key
<1>3. KeysLoseAtMost({k}) /\ (keys' = Deleted(k) => keys'[k].state = "deleted")
  BY <1>1, <1>2 DEF TypeOK, Deleted, KeysLoseAtMost
<1>4. /\ OnlyMoves(c) /\ calls'[c].kind = "close" /\ calls'[c].seen = calls[c].seen
      /\ calls'[c].new \in {NoKey, calls[c].new}
      /\ \/ calls'[c].pc = "closeRow" /\ keys' = Deleted(k)
         \/ calls'[c].pc = "done"
  BY <1>1, EndingMoves, GoingMoves DEF Pc
<1>6. row.key \in Key \cup {NoKey} BY <1>1 DEF TypeOK, Row
<1>7. SparesTheRow(c) BY <1>1, <1>3, <1>4, <1>6 DEF SparesTheRow, KeysLoseAtMost
<1>8. /\ HandsHoldKeysFor(c)' /\ HoldsNothingElse(c) /\ KeepsSecret(c) /\ MissesTheRow(c)
      /\ LosesNoKey(c) /\ KeepsOwing(c)
  BY <1>1, <1>3, <1>4
     DEF HandsHoldKeysFor, ClosePc, NewPc, HoldsNothingElse, KeepsSecret, MissesTheRow,
         LosesNoKey, InHand, KeepsOwing, Owes
<1>9. month' \in 0..MaxMonth /\ lost \subseteq lost' /\ lost' \subseteq Key BY <1>1 DEF TypeOK
<1> QED BY <1>1, <1>3, <1>4, <1>7, <1>8, <1>9, CallStepHolds

\* A close deletes the key that was stored under it.
LEMMA DeleteStoredHolds ==
  ASSUME IInv, NEW c \in Call, DeleteStoredKey(c) PROVE IInv'
<1> DEFINE k == calls[c].new
<1>1. /\ TypeOK /\ calls[c].kind = "close" /\ calls[c].pc = "closeStored" /\ ~row.isOpen
      /\ UNCHANGED <<row, late, month>> /\ RequestDelete(k) /\ Ends(c, "true")
  BY DEF IInv, HandsHoldKeys, ClosePc, DeleteStoredKey, ClosesInOrder
<1>2. k \in Key /\ k # NoKey /\ keys[k].state # "unused"
  BY <1>1, KeyAssumption DEF IInv, HandsHoldKeys, NewPc, NamedKeysAreUsed, IsUsed, Key
<1>3. /\ KeysLoseAtMost({k}) /\ (keys'[k].state = "deleted" \/ k \in lost')
      /\ lost \subseteq lost' /\ lost' \subseteq Key /\ faults' \in 0..MaxFaults
  BY <1>1, <1>2, RequestingDeletes
<1>4. /\ OnlyMoves(c) /\ calls'[c].kind = "close" /\ calls'[c].pc = "done"
      /\ calls'[c].new = NoKey /\ calls'[c].seen = calls[c].seen
  BY <1>1, EndingMoves
<1>7. SparesTheRow(c) BY <1>1, <1>4 DEF SparesTheRow
<1>8. /\ HandsHoldKeysFor(c)' /\ HoldsNothingElse(c) /\ KeepsSecret(c) /\ MissesTheRow(c)
      /\ LosesNoKey(c) /\ KeepsOwing(c)
  BY <1>1, <1>3, <1>4
     DEF HandsHoldKeysFor, ClosePc, NewPc, HoldsNothingElse, KeepsSecret, MissesTheRow,
         LosesNoKey, InHand, KeepsOwing, Owes
<1>9. month' \in 0..MaxMonth BY <1>1 DEF TypeOK
<1> QED BY <1>1, <1>3, <1>4, <1>7, <1>8, <1>9, CallStepHolds

-----------------------------------------------------------------------------
(* Steps that create a key *)

\* Nobody knows a key before the proxy creates it.
LEMMA UnusedIsUnnamed ==
  ASSUME IInv, NEW k \in Key, Unused(k)
  PROVE  /\ row.key # k /\ \A d \in Call : calls[d].seen.key # k /\ calls[d].new # k
         /\ \A s \in late : s.seen.key # k /\ s.new # k
BY KeyAssumption DEF IInv, NamedKeysAreUsed, IsUsed, Unused, Key

\* The budget of a row is a number.
LEMMA BudgetTyped == ASSUME NEW r \in Row PROVE Budget(r) \in Nat
BY KeyAssumption DEF Row, Budget, PlanBudget

\* The proxy creates a key at the budget of the row that the call has read.
LEMMA CreatingMoves ==
  ASSUME TypeOK, NEW c \in Call, NEW k \in Key, keys' = Created(c, k)
  PROVE  /\ keys' \in [Key -> [state : {"unused", "live", "deleted"}, budget : Nat]]
         /\ \A j \in Key \ {k} : keys'[j] = keys[j]
         /\ keys'[k].state = "live" /\ keys'[k].budget = Budget(calls[c].seen)
<1>1. calls[c].seen \in Row BY DEF TypeOK, CallState
<1>2. Budget(calls[c].seen) \in Nat BY <1>1, BudgetTyped
<1> QED BY <1>2 DEF TypeOK, Created

\* A key is created, and is the call's alone or lost.
LEMMA CreationHolds ==
  ASSUME IInv, NEW c \in Call, NEW k \in Key, Unused(k), \A j \in 1..(k - 1) : ~Unused(j),
         keys' = Created(c, k), calls[c].pc = "provision", OnlyMoves(c), UNCHANGED <<row, late, month>>,
         lost \subseteq lost', lost' \subseteq Key, faults' \in 0..MaxFaults,
         calls'[c].kind = calls[c].kind,
         \/ /\ calls'[c].pc = "store" /\ calls'[c].new = k /\ calls'[c].seen = calls[c].seen
            /\ calls'[c].result = calls[c].result
         \/ /\ calls'[c].pc \in {"done", "read"} /\ calls'[c].new \in {NoKey, calls[c].new} /\ k \in lost'
            /\ calls'[c].seen.key \in {NoKey, calls[c].seen.key}
            /\ calls[c].kind \in {"replace", "sync"} /\ calls[c].result # "true" => calls'[c].result # "true"
  PROVE  IInv'
<1>1. TypeOK /\ calls[c].kind # "close" /\ (calls[c].kind = "load" <=> calls[c].seen.key = NoKey)
  BY DEF IInv, HandsHoldKeys, ClosePc
<1>2. /\ keys' \in [Key -> [state : {"unused", "live", "deleted"}, budget : Nat]]
      /\ \A j \in Key \ {k} : keys'[j] = keys[j]
      /\ keys'[k].state = "live" /\ keys'[k].budget = Budget(calls[c].seen)
  BY <1>1, CreatingMoves
<1>3. /\ row.key # k /\ \A d \in Call : calls[d].seen.key # k /\ calls[d].new # k
      /\ \A s \in late : s.seen.key # k /\ s.new # k
  BY UnusedIsUnnamed
<1>4. /\ row.key \in Key \cup {NoKey}
      /\ \A d \in Call : calls[d].seen.key \in Key \cup {NoKey} /\ calls[d].new \in Key \cup {NoKey}
      /\ \A s \in late : s.seen.key \in Key \cup {NoKey} /\ s.new \in Key
  BY DEF IInv, TypeOK, CallState, Row, Store
<1>5. k # NoKey BY KeyAssumption DEF Key
<1>6. TypeOK' BY <1>1, <1>2 DEF TypeOK, OnlyMoves
<1>7. HandsHoldKeys' BY <1>1 DEF IInv, HandsHoldKeys, NewPc, ClosePc, OnlyMoves
<1>8. NamedKeysAreUsed' BY <1>2, <1>3, <1>4 DEF IInv, NamedKeysAreUsed, IsUsed, OnlyMoves
<1>9. NewKeysAreSecret'
  <2> SUFFICES ASSUME NEW d \in Call, (calls[d].pc \in {"store", "drop"})' PROVE IsSecret(d)'
    BY DEF NewKeysAreSecret
  <2>1. CASE d = c BY <1>2, <1>3, <1>5, <2>1 DEF IsSecret, OnlyMoves
  <2>2. CASE d # c
    <3>1. IsSecret(d) /\ calls'[d] = calls[d] /\ calls[d].new \in Key
      BY <2>2 DEF IInv, NewKeysAreSecret, HandsHoldKeys, NewPc, OnlyMoves
    <3>2. calls[d].new # NoKey BY <3>1, KeyAssumption DEF Key
    <3> QED BY <1>2, <1>3, <2>2, <3>1, <3>2 DEF IsSecret, OnlyMoves
  <2> QED BY <2>1, <2>2
<1>10. DeletesMissTheRow' BY <1>3 DEF IInv, DeletesMissTheRow, IsLate, OnlyMoves
<1>11. ClosesInOrder' BY <1>2, <1>3, <1>4 DEF IInv, ClosesInOrder, OnlyMoves
<1>12. NewKeysAreSized'
  BY <1>2, <1>3, <1>4, <1>7 DEF IInv, NewKeysAreSized, HandsHoldKeys, NewPc, OnlyMoves
<1>13. RowKeyIsSizedOrOwed' BY <1>2, <1>3, <1>4 DEF IInv, RowKeyIsSizedOrOwed, Owes, OnlyMoves
<1>14. NoKeyLeaks' BY <1>2 DEF IInv, NoKeyLeaks, InHand, OnlyMoves
<1>15. StoredKeyIsLive'
  BY <1>1, <1>2, <1>3, <1>4 DEF IInv, StoredKeyIsLive, OnlyMoves
<1>16. KeysInOrder'
  <2>1. \A j, i \in Key : j < i /\ keys'[i].state # "unused" => keys'[j].state # "unused"
    BY <1>2 DEF IInv, KeysInOrder, Unused, Key
  <2>2. \A j \in Key : keys[j].state # "unused" => j < k
    BY KeyAssumption DEF IInv, KeysInOrder, Unused, Key
  <2>3. IsNewer(k, calls[c].seen.key)
    BY <1>4, <2>2 DEF IInv, NamedKeysAreUsed, IsUsed, IsNewer
  <2>4. /\ \A d \in Call : calls'[d].pc \in {"store", "check"} => IsNewer(calls'[d].new, calls'[d].seen.key)
        /\ \A s \in late : IsNewer(s.new, s.seen.key)
    BY <2>3 DEF IInv, KeysInOrder, OnlyMoves
  <2>5. row.isOpen => \A d \in Call : calls'[d].seen.key # NoKey => row.key # NoKey /\ calls'[d].seen.key <= row.key
    BY DEF IInv, KeysInOrder, OnlyMoves
  <2> QED BY <2>1, <2>4, <2>5 DEF KeysInOrder, IsNewer
<1> QED
  BY <1>6, <1>7, <1>8, <1>9, <1>10, <1>11, <1>12, <1>13, <1>14, <1>15, <1>16 DEF IInv

\* A key is created, or the request fails with or without it.
LEMMA ProvisionsHold ==
  ASSUME IInv, NEW c \in Call, ProvisionKey(c) \/ ProvisionFails(c) PROVE IInv'
<1>1. TypeOK /\ calls[c].kind # "close" /\ calls[c].pc = "provision"
  BY DEF IInv, HandsHoldKeys, ClosePc, ProvisionKey, ProvisionFails
<1>2. ASSUME ProvisionKey(c) PROVE IInv'
  <2>1. PICK k \in Key : /\ Unused(k) /\ (\A j \in 1..(k - 1) : ~Unused(j)) /\ keys' = Created(c, k)
                         /\ calls' = [calls EXCEPT ![c] = [@ EXCEPT !.pc = "store", !.new = k, !.dated = month]]
    BY <1>2 DEF ProvisionKey
  <2> DEFINE call == [calls[c] EXCEPT !.pc = "store", !.new = k, !.dated = month]
  <2>2. /\ call \in CallState /\ call.pc = "store" /\ call.kind = calls[c].kind /\ call.seen = calls[c].seen
        /\ call.new = k /\ call.result = calls[c].result
    BY <1>1 DEF TypeOK, CallState, Pc
  <2>3. calls' = [calls EXCEPT ![c] = call] BY <2>1
  <2> HIDE DEF call
  <2>4. OnlyMoves(c) /\ calls'[c] = call BY <1>1, <2>2, <2>3 DEF OnlyMoves, TypeOK
  <2>5. /\ UNCHANGED <<row, late, month>> /\ lost \subseteq lost' /\ lost' \subseteq Key
        /\ faults' \in 0..MaxFaults
    BY <1>1, <1>2 DEF ProvisionKey, TypeOK
  <2> QED BY <1>1, <2>1, <2>2, <2>4, <2>5, CreationHolds
<1>3. ASSUME ProvisionFails(c) PROVE IInv'
  <2>1. /\ UNCHANGED <<row, late, month>> /\ faults' \in 0..MaxFaults /\ Throws(c)
    BY <1>1, <1>3, KeyAssumption DEF ProvisionFails, Fault, TypeOK
  <2>2. /\ OnlyMoves(c) /\ calls'[c].kind = calls[c].kind /\ calls'[c].pc \in {"done", "read"}
        /\ calls'[c].new \in {NoKey, calls[c].new} /\ calls'[c].seen.key \in {NoKey, calls[c].seen.key}
        /\ calls[c].kind \in {"replace", "sync"} /\ calls[c].result # "true" => calls'[c].result # "true"
    BY <1>1, <2>1, EndingMoves, ReplacingMoves DEF Throws
  <2>3. CASE UNCHANGED <<keys, lost>>
    BY <1>1, <2>1, <2>2, <2>3, QuietStepHolds
       DEF StaysFit, HandsHoldKeysFor, ClosePc, NewPc, HoldsNothingElse, KeepsSecret, MissesTheRow,
           LosesNoKey, InHand, KeepsOwing, Owes, TypeOK
  <2>4. ASSUME NEW k \in Key, Unused(k), \A j \in 1..(k - 1) : ~Unused(j), keys' = Created(c, k), lost' = lost \cup {k} PROVE IInv'
    <3>1. lost \subseteq lost' /\ lost' \subseteq Key /\ k \in lost' BY <1>1, <2>4 DEF TypeOK
    <3> QED BY <1>1, <2>1, <2>2, <2>4, <3>1, CreationHolds
  <2> QED BY <1>3, <2>3, <2>4 DEF ProvisionFails
<1> QED BY <1>2, <1>3

-----------------------------------------------------------------------------
(* Steps that write the row *)

\* A change of the plan or of the override owes a replacement.
LEMMA ReconfiguringHolds ==
  ASSUME IInv, NEW c \in Call, calls[c].pc = "idle", OnlyMoves(c),
         row' \in Row, row'.isOpen = row.isOpen, row'.key = row.key,
         UNCHANGED <<keys, late, month, lost, faults>>,
         calls'[c].pc \in {"read", "compare"}, calls'[c].kind \in {"replace", "sync"},
         calls'[c].seen = calls[c].seen, calls'[c].new = calls[c].new, calls'[c].result = calls[c].result
  PROVE  IInv'
<1>1. TypeOK /\ calls[c].kind = "none" /\ calls[c].result = "none" BY DEF IInv, HandsHoldKeys
<1>2. TypeOK' BY <1>1 DEF TypeOK, OnlyMoves
<1>3. HandsHoldKeys' BY DEF IInv, HandsHoldKeys, NewPc, ClosePc, OnlyMoves
<1>4. NamedKeysAreUsed' BY DEF IInv, NamedKeysAreUsed, IsUsed, OnlyMoves
<1>5. NewKeysAreSecret' BY DEF IInv, NewKeysAreSecret, IsSecret, OnlyMoves
<1>6. DeletesMissTheRow' BY DEF IInv, DeletesMissTheRow, IsLate, OnlyMoves
<1>7. ClosesInOrder' BY DEF IInv, ClosesInOrder, OnlyMoves
<1>8. NewKeysAreSized' BY DEF IInv, NewKeysAreSized, OnlyMoves
<1>9. Owes(c)' BY <1>1 DEF Owes
<1>10. RowKeyIsSizedOrOwed' BY <1>9 DEF RowKeyIsSizedOrOwed
<1>11. NoKeyLeaks' BY DEF IInv, NoKeyLeaks, InHand, OnlyMoves
<1>12. StoredKeyIsLive' BY <1>1 DEF IInv, StoredKeyIsLive, OnlyMoves
<1>13. KeysInOrder' BY DEF IInv, KeysInOrder, IsNewer, OnlyMoves
<1> QED
  BY <1>13, <1>2, <1>3, <1>4, <1>5, <1>6, <1>7, <1>8, <1>10, <1>11, <1>12 DEF IInv

\* An admin sets the override, or a projection writes the plan.
LEMMA ReconfigurationsHold ==
  ASSUME IInv, NEW c \in Call, SetBudgetOverride(c) \/ ApplyProjection(c) PROVE IInv'
<1>1. TypeOK /\ row \in Row BY DEF IInv, TypeOK
<1>2. CASE SetBudgetOverride(c)
  <2>1. row' \in Row /\ row'.isOpen = row.isOpen /\ row'.key = row.key
    BY <1>1, <1>2 DEF SetBudgetOverride, Row
  <2>2. Starts(c, "replace", "read") /\ UNCHANGED <<keys, late, month, lost, faults>>
    BY <1>2 DEF SetBudgetOverride
  <2> QED BY <1>1, <2>1, <2>2, StartingMoves, ReconfiguringHolds DEF Kind, Pc
<1>3. ASSUME NEW plan \in Plan, row' = [row EXCEPT !.plan = plan],
             Starts(c, "sync", IF row.plan = plan THEN "compare" ELSE "read"),
             UNCHANGED <<keys, late, month, lost, faults>>
      PROVE  IInv'
  <2>1. row' \in Row /\ row'.isOpen = row.isOpen /\ row'.key = row.key BY <1>1, <1>3 DEF Row
  <2> QED BY <1>1, <1>3, <2>1, StartingMoves, ReconfiguringHolds DEF Kind, Pc
<1> QED BY <1>2, <1>3 DEF ApplyProjection

\* The row is deleted with the account: its key was deleted before, is deleted next, or is lost.
LEMMA ClosingHolds ==
  ASSUME IInv, NEW c \in Call, calls[c].pc = "closeRow",
         row' = [row EXCEPT !.isOpen = FALSE, !.key = NoKey],
         UNCHANGED <<keys, late, month>>,
         lost \subseteq lost', lost' \subseteq Key, faults' \in 0..MaxFaults,
         OnlyMoves(c), calls'[c].kind = "close", calls'[c].seen = calls[c].seen,
         \/ calls'[c].pc = "closeStored" /\ calls'[c].new = row.key /\ row.key \in Key
         \/ /\ calls'[c].pc = "done" /\ calls'[c].new = NoKey
            /\ row.key \in {NoKey, calls[c].seen.key} \cup lost'
  PROVE  IInv'
<1>1. TypeOK BY DEF IInv
<1>2. row \in Row /\ row.key \in Key \cup {NoKey} BY DEF IInv, TypeOK, Row
<1>3. row' \in Row /\ ~row'.isOpen /\ row'.key = NoKey BY <1>1, <1>2 DEF Row
<1>4. \A k \in Key : k # NoKey BY KeyAssumption DEF Key
<1>5. calls[c].seen.key # NoKey => keys[calls[c].seen.key].state = "deleted"
  BY <1>1 DEF IInv, ClosesInOrder
<1>6. TypeOK' BY <1>1, <1>3 DEF TypeOK, OnlyMoves
<1>7. HandsHoldKeys' BY DEF IInv, HandsHoldKeys, NewPc, ClosePc, OnlyMoves
<1>8. NamedKeysAreUsed' BY <1>1, <1>3 DEF IInv, NamedKeysAreUsed, IsUsed, OnlyMoves
<1>9. NewKeysAreSecret'
  <2> SUFFICES ASSUME NEW d \in Call, (calls[d].pc \in {"store", "drop"})' PROVE IsSecret(d)'
    BY DEF NewKeysAreSecret
  <2>1. d # c /\ calls'[d] = calls[d] /\ IsSecret(d) /\ calls[d].new \in Key
    BY DEF IInv, NewKeysAreSecret, HandsHoldKeys, NewPc, OnlyMoves
  <2>2. calls[d].new # NoKey BY <2>1, KeyAssumption DEF Key
  <2> QED BY <1>1, <1>3, <2>1, <2>2 DEF IsSecret, OnlyMoves
<1>10. DeletesMissTheRow'
  <2>1. \A d \in Call : /\ calls'[d].pc \in {"undo", "check"} => calls'[d] = calls[d] /\ calls[d].new # NoKey
                        /\ calls'[d].pc = "retire" => calls'[d] = calls[d] /\ calls[d].seen.key # NoKey
    BY KeyAssumption DEF IInv, HandsHoldKeys, NewPc, OnlyMoves, Key
  <2> QED BY <1>3, <2>1 DEF IInv, DeletesMissTheRow
<1>11. ClosesInOrder' BY <1>1, <1>3 DEF IInv, ClosesInOrder, OnlyMoves
<1>12. NewKeysAreSized' BY <1>1 DEF IInv, NewKeysAreSized, OnlyMoves
<1>13. RowKeyIsSizedOrOwed' /\ StoredKeyIsLive' BY <1>3 DEF RowKeyIsSizedOrOwed, StoredKeyIsLive
<1>14. NoKeyLeaks'
  <2> SUFFICES ASSUME NEW k \in Key, (keys[k].state = "live")'
               PROVE  (k = row.key \/ k \in lost \/ \E d \in Call : k \in InHand(d))'
    BY DEF NoKeyLeaks
  <2>1. k = row.key \/ k \in lost \/ \E d \in Call : k \in InHand(d)
    BY <1>1 DEF IInv, NoKeyLeaks
  <2>2. CASE k = row.key
    <3>1. k \in lost' \/ (calls'[c].pc = "closeStored" /\ calls'[c].new = k)
      BY <1>1, <1>4, <1>5, <2>2
    <3> QED BY <3>1 DEF InHand
  <2>3. CASE k \in lost BY <1>1, <2>3
  <2>4. ASSUME NEW d \in Call, k \in InHand(d) PROVE k \in InHand(d)'
    <3>1. d # c BY <1>1, <2>4 DEF InHand
    <3> QED BY <2>4, <3>1 DEF InHand, OnlyMoves
  <2> QED BY <2>1, <2>2, <2>3, <2>4
<1>15. KeysInOrder' BY <1>3 DEF IInv, KeysInOrder, IsNewer, OnlyMoves
<1> QED
  BY <1>6, <1>7, <1>8, <1>9, <1>10, <1>11, <1>12, <1>13, <1>14, <1>15 DEF IInv

\* The row is deleted, whether or not its caller sees that it is.
LEMMA CloseRowHolds ==
  ASSUME IInv, NEW c \in Call, CloseRow(c) \/ CloseRowThrows(c) PROVE IInv'
<1>1. /\ TypeOK /\ calls[c].pc = "closeRow" /\ calls[c].kind = "close"
      /\ row' = [row EXCEPT !.isOpen = FALSE, !.key = NoKey]
      /\ UNCHANGED <<keys, late, month>>
  BY DEF IInv, HandsHoldKeys, ClosePc, CloseRow, CloseRowThrows
<1>2. row \in Row /\ row.key \in Key \cup {NoKey} /\ (~row.isOpen => row.key = NoKey)
  BY <1>1 DEF IInv, TypeOK, Row, ClosesInOrder
<1>3. CASE CloseRow(c)
  <2>0. lost \subseteq lost' /\ lost' \subseteq Key /\ faults' \in 0..MaxFaults BY <1>1, <1>3 DEF CloseRow, TypeOK
  <2>1. CASE row.isOpen /\ HasNewKey(c)
    <3> DEFINE call == [calls[c] EXCEPT !.pc = "closeStored", !.new = row.key]
    <3>1. /\ call \in CallState /\ call.pc = "closeStored" /\ call.kind = calls[c].kind
          /\ call.seen = calls[c].seen /\ call.new = row.key /\ call.result = calls[c].result
      BY <1>1, <1>2 DEF TypeOK, CallState, Pc
    <3>2. calls' = [calls EXCEPT ![c] = call] BY <1>3, <2>1 DEF CloseRow
    <3>3. row.key \in Key BY <1>2, <2>1 DEF HasNewKey
    <3> HIDE DEF call
    <3>4. OnlyMoves(c) /\ calls'[c] = call BY <1>1, <3>1, <3>2 DEF OnlyMoves, TypeOK
    <3> QED BY <1>1, <2>0, <3>1, <3>3, <3>4, ClosingHolds
  <2>2. CASE ~(row.isOpen /\ HasNewKey(c))
    <3>1. /\ OnlyMoves(c) /\ calls'[c].pc = "done" /\ calls'[c].kind = calls[c].kind
          /\ calls'[c].new = NoKey /\ calls'[c].seen = calls[c].seen
      BY <1>1, <1>3, <2>2, EndingMoves DEF CloseRow
    <3>2. row.key \in {NoKey, calls[c].seen.key} BY <1>2, <2>2 DEF HasNewKey
    <3> QED BY <1>1, <2>0, <3>1, <3>2, ClosingHolds
  <2> QED BY <2>1, <2>2
<1>4. CASE CloseRowThrows(c)
  <2>1. /\ lost \subseteq lost' /\ lost' \subseteq Key /\ row.key \in {NoKey} \cup lost'
        /\ faults' \in 0..MaxFaults
    BY <1>1, <1>2, <1>4, KeyAssumption DEF CloseRowThrows, Fault, TypeOK
  <2>2. /\ OnlyMoves(c) /\ calls'[c].pc = "done" /\ calls'[c].kind = calls[c].kind
        /\ calls'[c].new = NoKey /\ calls'[c].seen = calls[c].seen
    BY <1>1, <1>4, EndingMoves DEF CloseRowThrows
  <2> QED BY <1>1, <2>1, <2>2, ClosingHolds
<1> QED BY <1>3, <1>4

\* The call's own store executes, and the call learns of it, checks it, or is done.
StoresNow(c, s) ==
  /\ calls[c].pc = "store" /\ calls[c].new = s.new /\ calls[c].seen = s.seen
  /\ calls'[c].kind = calls[c].kind
  /\ \/ /\ calls'[c].pc = "check" /\ calls'[c].new = s.new /\ calls'[c].seen = s.seen
     \/ /\ calls'[c].pc = "retire" /\ calls[c].kind # "load"
        /\ calls'[c].new = s.new /\ calls'[c].seen = s.seen
     \/ /\ calls'[c].pc = "done" /\ calls[c].kind = "load"
        /\ calls'[c].new = NoKey /\ calls'[c].seen.key = NoKey

\* A store leaves the user the key it names at the budget of the row it matched.
LEMMA StoringSizesTheRow ==
  ASSUME TypeOK, NEW s \in Store, Matches(s), Stores(s)
  PROVE  /\ row' \in Row /\ row'.isOpen /\ row'.key = s.new /\ row.key = s.seen.key /\ row.isOpen
         /\ Budget(row)' = Budget(s.seen)
<1>1. row \in Row /\ s.dated \in 0..MaxMonth /\ s.new \in Key BY DEF TypeOK, Store
<1>2. /\ row' \in Row /\ row'.isOpen = row.isOpen /\ row'.key = s.new
      /\ row'.plan = row.plan /\ row'.override = row.override
  BY <1>1 DEF Stores, Row
<1> QED BY <1>2 DEF Matches, Budget

\* A store executes, at once or late.
LEMMA StoringHolds ==
  ASSUME IInv, NEW s \in Store, Matches(s), Stores(s), UNCHANGED <<keys, late, month>>,
         calls' \in [Call -> CallState],
         \A d \in Call : calls'[d] = calls[d] \/ StoresNow(d, s),
         IsLate(s.new) \/ \E c \in Call : StoresNow(c, s),
         IsUsed(s.new), keys[s.new].budget = Budget(s.seen), IsNewer(s.new, s.seen.key),
         lost \subseteq lost', lost' \subseteq Key, faults' \in 0..MaxFaults,
         \/ s.seen.key \in {NoKey} \cup lost'
         \/ \E c \in Call : StoresNow(c, s) /\ calls'[c].pc = "retire"
  PROVE  IInv'
<1>1. TypeOK /\ s.new \in Key /\ s.seen.key \in Key \cup {NoKey} BY DEF IInv, Store, Row
<1>2. /\ row' \in Row /\ row'.isOpen /\ row'.key = s.new /\ row.key = s.seen.key /\ row.isOpen
      /\ Budget(row)' = Budget(s.seen)
  BY <1>1, StoringSizesTheRow
<1>3. \A d \in Call : StoresNow(d, s) =>
        /\ IsSecret(d) /\ calls[d].kind # "close" /\ calls[d].seen.key # s.new
        /\ (calls[d].kind = "load" <=> s.seen.key = NoKey)
  BY DEF IInv, HandsHoldKeys, NewKeysAreSecret, IsSecret, ClosePc, StoresNow
<1>4. \A d \in Call : calls[d].pc \in {"store", "drop"} /\ calls'[d] = calls[d] =>
        IsSecret(d) /\ calls[d].new # s.new /\ calls[d].new \in Key
  BY <1>3 DEF IInv, NewKeysAreSecret, HandsHoldKeys, NewPc, IsSecret, IsLate, StoresNow
<1>5. TypeOK' BY <1>1, <1>2 DEF TypeOK
<1>6. HandsHoldKeys' BY <1>1, <1>3 DEF IInv, HandsHoldKeys, NewPc, ClosePc, StoresNow
<1>7. NamedKeysAreUsed' BY <1>2 DEF IInv, NamedKeysAreUsed, IsUsed, StoresNow
<1>8. NewKeysAreSecret'
  <2> SUFFICES ASSUME NEW d \in Call, (calls[d].pc \in {"store", "drop"})' PROVE IsSecret(d)'
    BY DEF NewKeysAreSecret
  <2>1. calls'[d] = calls[d] BY DEF StoresNow
  <2>2. IsSecret(d) /\ calls[d].new # s.new /\ calls[d].new \in Key BY <1>4, <2>1
  <2>3. calls[d].new # NoKey BY <2>2, KeyAssumption DEF Key
  <2> QED BY <1>2, <2>1, <2>2, <2>3 DEF IsSecret, StoresNow
<1>9. DeletesMissTheRow'
  BY <1>2, <1>3 DEF IInv, DeletesMissTheRow, IsLate, IsSecret, StoresNow
<1>10. ClosesInOrder' BY <1>2, <1>3 DEF IInv, ClosesInOrder, StoresNow
<1>11. NewKeysAreSized' BY DEF IInv, NewKeysAreSized, StoresNow
<1>12. RowKeyIsSizedOrOwed' BY <1>2 DEF RowKeyIsSizedOrOwed
<1>13. NoKeyLeaks'
  <2> SUFFICES ASSUME NEW k \in Key, (keys[k].state = "live")'
               PROVE  (k = row.key \/ k \in lost \/ \E d \in Call : k \in InHand(d))'
    BY DEF NoKeyLeaks
  <2>1. k = row.key \/ k \in lost \/ \E d \in Call : k \in InHand(d) BY DEF IInv, NoKeyLeaks
  <2>2. k # NoKey BY KeyAssumption DEF Key
  <2>3. CASE k = row.key
    <3>1. ASSUME NEW c \in Call, StoresNow(c, s), calls'[c].pc = "retire" PROVE k \in InHand(c)'
      BY <1>2, <2>3, <3>1 DEF InHand, StoresNow
    <3> QED BY <1>2, <2>2, <2>3, <3>1
  <2>4. CASE k \in lost BY <2>4
  <2>5. ASSUME NEW d \in Call, k \in InHand(d) PROVE (k = row.key)' \/ k \in InHand(d)'
    BY <1>2, <2>5 DEF InHand, StoresNow
  <2> QED BY <2>1, <2>3, <2>4, <2>5
<1>14. StoredKeyIsLive' BY <1>2, <1>3 DEF StoredKeyIsLive, IsLate, IsSecret, StoresNow
<1>15. KeysInOrder'
  <2>1. /\ \A d \in Call : calls'[d].pc \in {"store", "check"} => IsNewer(calls'[d].new, calls'[d].seen.key)
        /\ \A t \in late : IsNewer(t.new, t.seen.key)
    BY DEF IInv, KeysInOrder, StoresNow
  <2>2. ASSUME NEW d \in Call, calls'[d].seen.key # NoKey
        PROVE  s.new # NoKey /\ calls'[d].seen.key <= s.new
    <3>1. calls'[d].seen.key = calls[d].seen.key BY <2>2 DEF StoresNow
    <3>2. row.key # NoKey /\ calls[d].seen.key <= row.key BY <1>2, <2>2, <3>1 DEF IInv, KeysInOrder
    <3>3. calls[d].seen.key \in Key BY <1>1, <2>2, <3>1 DEF TypeOK, CallState, Row
    <3> QED BY <1>1, <1>2, <3>1, <3>2, <3>3, KeyAssumption DEF IsNewer, Key
  <2>3. \A j, k \in Key : j < k /\ keys[k].state # "unused" => keys[j].state # "unused"
    BY DEF IInv, KeysInOrder
  <2> QED BY <1>2, <2>1, <2>2, <2>3 DEF KeysInOrder, IsNewer
<1> QED
  BY <1>15, <1>5, <1>6, <1>7, <1>8, <1>9, <1>10, <1>11, <1>12, <1>13, <1>14 DEF IInv

\* A new key is stored, or dropped because the row has changed.
LEMMA StoreKeyHolds ==
  ASSUME IInv, NEW c \in Call, StoreKey(c) PROVE IInv'
<1> DEFINE s == TheStore(c)
<1>1. /\ TypeOK /\ calls[c].pc = "store" /\ calls[c].kind # "close" /\ calls[c].new \in Key
      /\ calls[c].seen \in Row /\ IsSecret(c) /\ (calls[c].kind = "load" <=> calls[c].seen.key = NoKey)
      /\ keys[calls[c].new].budget = Budget(calls[c].seen) /\ IsNewer(calls[c].new, calls[c].seen.key)
      /\ calls[c].dated \in 0..MaxMonth
      /\ UNCHANGED <<keys, late, month, lost, faults>>
  BY DEF IInv, KeysInOrder, TypeOK, CallState, HandsHoldKeys, NewPc, ClosePc, NewKeysAreSecret, NewKeysAreSized, StoreKey
<1>2. s \in Store /\ s.new = calls[c].new /\ s.seen = calls[c].seen BY <1>1 DEF TheStore, Store
<1>3. lost \subseteq lost' /\ lost' \subseteq Key /\ faults' \in 0..MaxFaults BY <1>1 DEF TypeOK
<1>4. CASE Matches(s) /\ Stores(s) /\ LearnsOfStore(c)
  <2>1. OnlyMoves(c) /\ StoresNow(c, s) /\ (calls[c].kind # "load" => calls'[c].pc = "retire")
    <3>1. CASE calls[c].kind = "load"
      BY <1>1, <1>2, <1>4, <3>1, EndingMoves DEF LearnsOfStore, StoresNow
    <3>2. CASE calls[c].kind # "load"
      BY <1>1, <1>2, <1>4, <3>2, GoingMoves DEF LearnsOfStore, StoresNow, Pc
    <3> QED BY <3>1, <3>2
  <2>2. IsUsed(s.new) BY <1>1, <1>2 DEF IsSecret, IsUsed
  <2> HIDE DEF s
  <2> QED BY <1>1, <1>2, <1>3, <1>4, <2>1, <2>2, StoringHolds DEF OnlyMoves
<1>5. CASE ~Matches(s) /\ UNCHANGED row /\ GoesTo(c, "drop")
  <2>1. /\ OnlyMoves(c) /\ calls'[c].pc = "drop" /\ calls'[c].kind = calls[c].kind
        /\ calls'[c].new = calls[c].new /\ calls'[c].seen = calls[c].seen /\ calls'[c].result = calls[c].result
    BY <1>1, <1>5, GoingMoves DEF Pc
  <2> QED
    BY <1>1, <1>3, <1>5, <2>1, QuietStepHolds
       DEF StaysFit, HandsHoldKeysFor, ClosePc, NewPc, HoldsNothingElse, KeepsSecret, MissesTheRow,
           LosesNoKey, InHand, KeepsOwing, Owes
<1> QED BY <1>4, <1>5 DEF StoreKey

\* A store that threw did not execute, did, or may yet.
LEMMA StoreThrowsHolds ==
  ASSUME IInv, NEW c \in Call, StoreThrows(c) PROVE IInv'
<1> DEFINE s == TheStore(c)
<1>1. /\ TypeOK /\ calls[c].pc = "store" /\ calls[c].kind # "close" /\ calls[c].new \in Key
      /\ calls[c].seen \in Row /\ calls[c].seen.key \in Key \cup {NoKey}
      /\ IsSecret(c) /\ (calls[c].kind = "load" <=> calls[c].seen.key = NoKey)
      /\ keys[calls[c].new].budget = Budget(calls[c].seen) /\ IsNewer(calls[c].new, calls[c].seen.key)
      /\ calls[c].dated \in 0..MaxMonth
      /\ UNCHANGED <<keys, month>> /\ faults' \in 0..MaxFaults /\ GoesTo(c, "check")
  BY KeyAssumption
     DEF IInv, KeysInOrder, TypeOK, CallState, Row, HandsHoldKeys, NewPc, ClosePc, NewKeysAreSecret, NewKeysAreSized,
         StoreThrows, Fault
<1>2. s \in Store /\ s.new = calls[c].new /\ s.seen = calls[c].seen BY <1>1 DEF TheStore, Store
<1>3. /\ OnlyMoves(c) /\ calls'[c].pc = "check" /\ calls'[c].kind = calls[c].kind
      /\ calls'[c].new = calls[c].new /\ calls'[c].seen = calls[c].seen /\ calls'[c].result = calls[c].result
  BY <1>1, GoingMoves DEF Pc
<1>4. CASE UNCHANGED <<row, late, lost>>
  <2>1. lost \subseteq lost' /\ lost' \subseteq Key BY <1>1, <1>4 DEF TypeOK
  <2>2. row.key # calls[c].new BY <1>1 DEF IsSecret
  <2> QED
    BY <1>1, <1>3, <1>4, <2>1, <2>2, QuietStepHolds
       DEF StaysFit, HandsHoldKeysFor, ClosePc, NewPc, HoldsNothingElse, KeepsSecret, MissesTheRow,
           LosesNoKey, InHand, KeepsOwing, Owes
<1>5. CASE Matches(s) /\ Stores(s) /\ LosesOld(s) /\ UNCHANGED late
  <2>1. StoresNow(c, s) BY <1>1, <1>2, <1>3 DEF StoresNow
  <2>2. IsUsed(s.new) BY <1>1, <1>2 DEF IsSecret, IsUsed
  <2>3. lost \subseteq lost' /\ lost' \subseteq Key /\ s.seen.key \in {NoKey} \cup lost'
    BY <1>1, <1>2, <1>5 DEF LosesOld, TypeOK
  <2> HIDE DEF s
  <2> QED BY <1>1, <1>2, <1>3, <1>5, <2>1, <2>2, <2>3, StoringHolds DEF OnlyMoves
<1>6. CASE late' = late \cup {s} /\ UNCHANGED <<row, lost>>
  <2> HIDE DEF s
  <2>1. TypeOK' BY <1>1, <1>2, <1>3, <1>6 DEF TypeOK, OnlyMoves
  <2>2. HandsHoldKeys' BY <1>1, <1>3 DEF IInv, HandsHoldKeys, NewPc, ClosePc, OnlyMoves
  <2>3. NamedKeysAreUsed'
    BY <1>1, <1>2, <1>3, <1>6 DEF IInv, NamedKeysAreUsed, IsUsed, OnlyMoves
  <2>4. NewKeysAreSecret'
    <3> SUFFICES ASSUME NEW d \in Call, (calls[d].pc \in {"store", "drop"})' PROVE IsSecret(d)'
      BY DEF NewKeysAreSecret
    <3>1. d # c /\ calls'[d] = calls[d] /\ IsSecret(d)
      BY <1>3 DEF IInv, NewKeysAreSecret, OnlyMoves
    <3> QED BY <1>1, <1>2, <1>3, <1>6, <3>1 DEF IsSecret, OnlyMoves
  <2>5. DeletesMissTheRow'
    BY <1>1, <1>3, <1>6 DEF IInv, DeletesMissTheRow, IsLate, IsSecret, OnlyMoves
  <2>6. ClosesInOrder' BY <1>1, <1>3, <1>6 DEF IInv, ClosesInOrder, OnlyMoves
  <2>7. NewKeysAreSized' BY <1>1, <1>2, <1>3, <1>6 DEF IInv, NewKeysAreSized, OnlyMoves
  <2>8. RowKeyIsSizedOrOwed'
    BY <1>1, <1>3, <1>6 DEF IInv, RowKeyIsSizedOrOwed, Owes, IsSecret, OnlyMoves
  <2>9. NoKeyLeaks' BY <1>1, <1>3, <1>6 DEF IInv, NoKeyLeaks, InHand, OnlyMoves
  <2>10. StoredKeyIsLive' BY <1>1, <1>3, <1>6 DEF IInv, StoredKeyIsLive, OnlyMoves
  <2>11. KeysInOrder' BY <1>1, <1>2, <1>3, <1>6 DEF IInv, KeysInOrder, IsNewer, OnlyMoves
  <2> QED BY <2>1, <2>2, <2>3, <2>4, <2>5, <2>6, <2>7, <2>8, <2>9, <2>10, <2>11 DEF IInv
<1> QED BY <1>4, <1>5, <1>6 DEF StoreThrows

\* A late store executes.
LEMMA LateStoreHolds ==
  ASSUME IInv, NEW s \in late, ExecuteLateStore(s) PROVE IInv'
<1>1. /\ TypeOK /\ s \in Store /\ s.seen.key \in Key \cup {NoKey}
      /\ Matches(s) /\ Stores(s) /\ LosesOld(s) /\ UNCHANGED <<keys, calls, late, month, faults>>
  BY DEF IInv, TypeOK, Store, Row, ExecuteLateStore
<1>2. /\ IsLate(s.new) /\ IsUsed(s.new) /\ keys[s.new].budget = Budget(s.seen)
      /\ IsNewer(s.new, s.seen.key)
  BY DEF IInv, IsLate, NamedKeysAreUsed, NewKeysAreSized, KeysInOrder
<1>3. lost \subseteq lost' /\ lost' \subseteq Key /\ s.seen.key \in {NoKey} \cup lost'
  BY <1>1 DEF LosesOld, TypeOK
<1>4. calls' \in [Call -> CallState] /\ faults' \in 0..MaxFaults BY <1>1 DEF TypeOK
<1> QED BY <1>1, <1>2, <1>3, <1>4, StoringHolds

-----------------------------------------------------------------------------
(* The invariant is inductive *)

\* A new account is in the invariant, with the key of its signup or without one.
LEMMA InitHolds == Init => IInv
<1> SUFFICES ASSUME Init PROVE IInv OBVIOUS
<1>1. PICK key \in {NoKey, 1} :
        /\ row = NewUser(key)
        /\ keys = [k \in Key |-> IF k = key THEN [state |-> "live", budget |-> PlanBudget("free")]
                                            ELSE [state |-> "unused", budget |-> 0]]
  BY DEF Init
<1>2. key \in Key \cup {NoKey} BY KeyAssumption DEF Key
<1>3. /\ row \in Row /\ row.key = key /\ row.isOpen /\ row.plan = "free" /\ row.override = NoOverride
      /\ Budget(row) = PlanBudget("free")
  BY <1>1, <1>2, NewUserTyped DEF NewUser, Budget
<1>4. /\ keys \in [Key -> [state : {"unused", "live", "deleted"}, budget : Nat]]
      /\ \A k \in Key : keys[k].state = "live" => k = key
      /\ key \in Key => keys[key].state = "live" /\ keys[key].budget = PlanBudget("free")
  BY <1>1 DEF PlanBudget
<1>5. \A c \in Call : calls[c] = IdleCall BY DEF Init
<1>6. TypeOK
  <2>1. 0 \in 0..MaxMonth /\ 0 \in 0..MaxFaults BY KeyAssumption
  <2> QED BY <1>3, <1>4, <2>1, IdleCallTyped DEF Init, TypeOK
<1>7. HandsHoldKeys BY <1>5, IdleCallTyped DEF HandsHoldKeys, NewPc, ClosePc
<1>8. NamedKeysAreUsed BY <1>2, <1>3, <1>4, <1>5, IdleCallTyped DEF Init, NamedKeysAreUsed, IsUsed
<1>9. NewKeysAreSecret /\ DeletesMissTheRow BY <1>5, IdleCallTyped DEF NewKeysAreSecret, DeletesMissTheRow
<1>10. ClosesInOrder BY <1>3, <1>5, IdleCallTyped DEF ClosesInOrder
<1>11. NewKeysAreSized BY <1>5, IdleCallTyped DEF Init, NewKeysAreSized
<1>12. RowKeyIsSizedOrOwed BY <1>2, <1>3, <1>4 DEF RowKeyIsSizedOrOwed
<1>13. NoKeyLeaks /\ StoredKeyIsLive BY <1>2, <1>3, <1>4 DEF NoKeyLeaks, StoredKeyIsLive
<1>14. KeysInOrder
  <2>1. \A j, k \in Key : ~(j < k /\ keys[k].state # "unused")
    BY <1>1, KeyAssumption DEF Key
  <2> QED BY <1>5, <2>1, IdleCallTyped DEF Init, KeysInOrder
<1> QED
  BY <1>14, <1>6, <1>7, <1>8, <1>9, <1>10, <1>11, <1>12, <1>13 DEF IInv

\* A step that leaves row, keys, calls and late stores alone keeps the invariant.
LEMMA UnchangedHolds ==
  ASSUME IInv, UNCHANGED <<row, keys, calls, late, lost, faults>>, month' \in 0..MaxMonth PROVE IInv'
<1>1. TypeOK' /\ HandsHoldKeys' /\ NamedKeysAreUsed' /\ NewKeysAreSecret'
  BY DEF IInv, TypeOK, HandsHoldKeys, NamedKeysAreUsed, IsUsed, NewKeysAreSecret, IsSecret
<1>2. DeletesMissTheRow' /\ ClosesInOrder' /\ NewKeysAreSized' /\ RowKeyIsSizedOrOwed'
  BY DEF IInv, DeletesMissTheRow, IsLate, ClosesInOrder, NewKeysAreSized, RowKeyIsSizedOrOwed, Owes
<1>3. NoKeyLeaks' /\ StoredKeyIsLive' /\ KeysInOrder'
  BY DEF IInv, NoKeyLeaks, InHand, StoredKeyIsLive, KeysInOrder, IsNewer
<1> QED BY <1>1, <1>2, <1>3 DEF IInv

\* The invariant is inductive.
LEMMA NextHolds == IInv /\ [Next]_vars => IInv'
<1> SUFFICES ASSUME IInv, [Next]_vars PROVE IInv' OBVIOUS
<1>1. ASSUME NEW c \in Call,
             \/ StartLoad(c) \/ SetBudgetOverride(c) \/ ApplyProjection(c) \/ StartReset(c) \/ StartClose(c)
             \/ OwnerNeedsNoKey(c) \/ OwnerNeedsKey(c) \/ ProvisionKey(c) \/ ProvisionFails(c)
             \/ StoreKey(c) \/ StoreThrows(c) \/ CheckStore(c)
             \/ DeleteUnstoredKey(c) \/ RetireKey(c) \/ CompareBudget(c) \/ RecheckBudget(c)
             \/ ReadClosing(c) \/ CloseKey(c) \/ CloseRow(c) \/ CloseRowThrows(c) \/ DeleteStoredKey(c)
             \/ CallFails(c)
      PROVE  IInv'
  BY <1>1, StartsHold, ReconfigurationsHold, ReadsHold, ProvisionsHold, StoreKeyHolds, StoreThrowsHolds,
     CheckHolds, DeleteUnstoredHolds, RetireHolds, ComparesHold, ReadClosingHolds, CloseKeyHolds,
     CloseRowHolds, DeleteStoredHolds, CallFailsHolds
<1>2. ASSUME NEW s \in late, ExecuteLateStore(s) PROVE IInv' BY <1>2, LateStoreHolds
<1>3. CASE MonthBegins
  <2>1. month' \in 0..MaxMonth BY <1>3, KeyAssumption DEF IInv, TypeOK, MonthBegins
  <2> QED BY <1>3, <2>1, UnchangedHolds DEF MonthBegins
<1>4. CASE UNCHANGED vars
  <2>1. month' \in 0..MaxMonth BY <1>4 DEF IInv, TypeOK, vars
  <2> QED BY <1>4, <2>1, UnchangedHolds DEF vars
<1> QED BY <1>1, <1>2, <1>3, <1>4 DEF Next

\* The invariant holds in every reachable state.
LEMMA Invariance == Spec => []IInv
<1> QED BY InitHolds, NextHolds, PTL DEF Spec

-----------------------------------------------------------------------------
(* What the monthly reset may count as replaced                             *)
(*                                                                         *)
(* A row that still has the key that a running reset has read, or that   *)
(* has not been read yet, and that is dated before the month the reset is  *)
(* for, has had nothing stored since it was read: no replaced key comes    *)
(* back.  Such a reset fails to store its key only if a change of the      *)
(* budget came between; the last one that did has not reported success,    *)
(* because nothing it read has changed since.                              *)

\* Nothing has a result before it is done, and no reset is due ahead of its month.
DatesInOrder ==
  \A c \in Call :
    /\ calls[c].due <= month
    /\ calls[c].pc # "done" => calls[c].result = "none"
    /\ calls[c].pc = "compare" => calls[c].kind = "sync"

\* The row is as the call has read it.
SeesRow(c) ==
  calls[c].seen.key = row.key /\ calls[c].seen.plan = row.plan /\ calls[c].seen.override = row.override

\* A change of the budget that replaces the key of a row that stays as it is, or fails.
WillReplace(c) ==
  /\ calls[c].kind \in {"replace", "sync"} /\ calls[c].result # "true"
  /\ \/ calls[c].pc \in {"read", "undo", "done"}
     \/ calls[c].pc \in {"provision", "store", "check"} /\ SeesRow(c)

SomeWillReplace == \E c \in Call : WillReplace(c)

\* A reset under way whose row, as it is to read or has read it, has a key of an
\* earlier month than the reset is for.
IsOverdue(c) ==
  /\ calls[c].kind = "reset" /\ calls[c].pc # "done" /\ row.isOpen /\ row.month < calls[c].due
  /\ calls[c].pc = "read" \/ calls[c].seen.key = row.key

ResetFits(c) ==
  /\ row.key # NoKey
  /\ calls[c].pc # "retire"
  /\ calls[c].pc \in {"provision", "store", "check"} => SeesRow(c) \/ SomeWillReplace
  /\ calls[c].pc \in {"drop", "recheck"} => SomeWillReplace

ResetInv == DatesInOrder /\ \A c \in Call : IsOverdue(c) => ResetFits(c)

\* What a reset that reports success has to show for it.
ResetsReport ==
  \A c \in Call :
    calls[c].kind = "reset" /\ calls[c].pc # "done" /\ calls'[c].result = "true"
      => \/ ~row'.isOpen
         \/ row'.key # calls[c].seen.key \/ row'.month >= calls[c].due
         \/ \E other \in Call : calls'[other].kind \in {"replace", "sync"} /\ calls'[other].result # "true"

\* The call stays in order: it is due by now, and has a result only when it is done.
StaysInOrder(c) ==
  /\ calls'[c].due <= month
  /\ calls'[c].pc # "done" => calls'[c].result = "none"
  /\ calls'[c].pc = "compare" => calls'[c].kind = "sync"

\* What a step of a call that leaves the row alone has to keep.
KeepsResets(c) ==
  /\ StaysInOrder(c)
  /\ row.isOpen /\ row.key # NoKey /\ WillReplace(c) => WillReplace(c)'
  /\ IsOverdue(c)' =>
       /\ row.key # NoKey /\ calls'[c].pc # "retire"
       /\ calls'[c].pc \in {"provision", "store", "check"} => SeesRow(c)' \/ SomeWillReplace
       /\ calls'[c].pc \in {"drop", "recheck"} => SomeWillReplace
  /\ IsOverdue(c) /\ calls'[c].result = "true" => SomeWillReplace

\* The months are numbers.
LEMMA MonthsTyped ==
  ASSUME TypeOK
  PROVE  month \in Nat /\ row.month \in Nat /\ \A c \in Call : calls[c].due \in Nat
BY KeyAssumption DEF TypeOK, Row, CallState

\* A step of a call that leaves the row alone.
LEMMA QuietKeepsResets ==
  ASSUME IInv, ResetInv, NEW c \in Call, OnlyMoves(c), UNCHANGED <<row, month>>, KeepsResets(c)
  PROVE  ResetInv' /\ ResetsReport
<1>1. month \in Nat /\ row.month \in Nat /\ \A d \in Call : calls[d].due \in Nat
  BY MonthsTyped DEF IInv
<1>2. DatesInOrder' BY DEF ResetInv, DatesInOrder, KeepsResets, StaysInOrder, OnlyMoves
<1>3. row.isOpen /\ row.key # NoKey /\ SomeWillReplace => SomeWillReplace'
  BY DEF SomeWillReplace, WillReplace, SeesRow, KeepsResets, OnlyMoves
<1>4. ASSUME NEW d \in Call, IsOverdue(d)' PROVE ResetFits(d)'
  <2>1. CASE d = c BY <1>3, <1>4, <2>1 DEF IsOverdue, ResetFits, SeesRow, KeepsResets
  <2>2. CASE d # c
    <3>1. calls'[d] = calls[d] BY <2>2 DEF OnlyMoves
    <3>2. IsOverdue(d) /\ ResetFits(d) BY <1>4, <3>1 DEF ResetInv, IsOverdue
    <3> QED BY <1>3, <3>1, <3>2 DEF IsOverdue, ResetFits, SeesRow
  <2> QED BY <2>1, <2>2
<1>5. ResetsReport
  <2> SUFFICES ASSUME NEW d \in Call, calls[d].kind = "reset", calls[d].pc # "done", calls'[d].result = "true",
                      row.isOpen, row.key = calls[d].seen.key, ~(row.month >= calls[d].due)
               PROVE  \E other \in Call : calls'[other].kind \in {"replace", "sync"} /\ calls'[other].result # "true"
    BY DEF ResetsReport
  <2>1. IsOverdue(d) BY <1>1 DEF IsOverdue
  <2>2. d = c BY DEF ResetInv, DatesInOrder, OnlyMoves
  <2>3. row.key # NoKey /\ SomeWillReplace
    BY <2>1, <2>2 DEF ResetInv, ResetFits, KeepsResets
  <2> QED BY <1>3, <2>3 DEF SomeWillReplace, WillReplace
<1> QED BY <1>2, <1>4, <1>5 DEF ResetInv

\* A load, a reset and a close start.
LEMMA StartsKeepResets ==
  ASSUME IInv, ResetInv, NEW c \in Call, StartLoad(c) \/ StartReset(c) \/ StartClose(c)
  PROVE  ResetInv' /\ ResetsReport
<1>1. /\ TypeOK /\ calls[c].pc = "idle" /\ calls[c].kind = "none" /\ calls[c].result = "none"
      /\ UNCHANGED <<row, month>>
  BY DEF IInv, HandsHoldKeys, StartLoad, StartReset, StartClose, Starts
<1>2. month \in Nat /\ calls[c].due \in Nat /\ calls[c].due <= month
  BY <1>1, MonthsTyped DEF ResetInv, DatesInOrder
<1>3. CASE StartLoad(c)
  BY <1>1, <1>2, <1>3, StartingMoves, QuietKeepsResets
     DEF StartLoad, Kind, Pc, KeepsResets, StaysInOrder, WillReplace, IsOverdue
<1>4. CASE StartClose(c)
  BY <1>1, <1>2, <1>4, StartingMoves, QuietKeepsResets
     DEF StartClose, Kind, Pc, KeepsResets, StaysInOrder, WillReplace, IsOverdue
<1>5. CASE StartReset(c)
  <2> DEFINE call == [calls[c] EXCEPT !.kind = "reset", !.pc = "read", !.due = month]
  <2>1. calls[c] \in CallState /\ month \in 0..MaxMonth BY <1>1 DEF TypeOK
  <2>2. /\ call \in CallState /\ call.pc = "read" /\ call.kind = "reset"
        /\ call.due = month /\ call.result = calls[c].result
    BY <2>1 DEF CallState, Kind, Pc
  <2>3. calls' = [calls EXCEPT ![c] = call] /\ row.key # NoKey BY <1>5 DEF StartReset
  <2> HIDE DEF call
  <2>4. OnlyMoves(c) /\ calls'[c] = call BY <1>1, <2>2, <2>3 DEF OnlyMoves, TypeOK
  <2> QED
    BY <1>1, <1>2, <2>2, <2>3, <2>4, QuietKeepsResets
       DEF KeepsResets, StaysInOrder, WillReplace, IsOverdue
<1> QED BY <1>3, <1>4, <1>5

\* The row is read.
LEMMA ReadsKeepResets ==
  ASSUME IInv, ResetInv, NEW c \in Call, OwnerNeedsNoKey(c) \/ OwnerNeedsKey(c)
  PROVE  ResetInv' /\ ResetsReport
<1>1. TypeOK /\ calls[c].pc = "read" /\ UNCHANGED <<row, month>> /\ calls[c].kind # "close"
  BY DEF IInv, HandsHoldKeys, ClosePc, OwnerNeedsNoKey, OwnerNeedsKey
<1>2. month \in Nat /\ calls[c].due \in Nat /\ calls[c].due <= month /\ calls[c].result = "none"
  BY <1>1, MonthsTyped DEF ResetInv, DatesInOrder
<1>3. IsOverdue(c) => ResetFits(c) BY DEF ResetInv
<1>4. CASE OwnerNeedsNoKey(c)
  <2>1. OnlyMoves(c) /\ calls'[c].pc = "done" /\ calls'[c].due = 0 /\ calls'[c].kind = calls[c].kind
    BY <1>1, <1>4, EndingMoves DEF OwnerNeedsNoKey
  <2>2. calls[c].kind = "load" \/ ~row.isOpen \/ row.key = NoKey BY <1>4 DEF OwnerNeedsNoKey
  <2> QED
    BY <1>1, <1>2, <1>3, <2>1, <2>2, QuietKeepsResets
       DEF KeepsResets, StaysInOrder, WillReplace, IsOverdue, ResetFits
<1>5. CASE OwnerNeedsKey(c)
  <2> DEFINE call == [calls[c] EXCEPT !.pc = "provision", !.seen = row]
  <2>1. /\ call \in CallState /\ call.pc = "provision" /\ call.kind = calls[c].kind /\ call.seen = row
        /\ call.result = calls[c].result /\ call.due = calls[c].due
    BY <1>1 DEF TypeOK, CallState, Pc
  <2>2. calls' = [calls EXCEPT ![c] = call] BY <1>5 DEF OwnerNeedsKey
  <2> HIDE DEF call
  <2>3. OnlyMoves(c) /\ calls'[c] = call BY <1>1, <2>1, <2>2 DEF OnlyMoves, TypeOK
  <2> QED
    BY <1>1, <1>2, <1>3, <2>1, <2>3, QuietKeepsResets
       DEF KeepsResets, StaysInOrder, WillReplace, SeesRow, IsOverdue, ResetFits
<1> QED BY <1>4, <1>5

\* A call that goes on with what it has read, or gives up.
LEMMA GoingOnKeepsResets ==
  ASSUME IInv, ResetInv, NEW c \in Call, OnlyMoves(c), UNCHANGED <<row, month>>,
         calls[c].pc # "done", calls'[c].due \in {0, calls[c].due}, calls'[c].kind = calls[c].kind,
         \/ /\ calls'[c].pc = "read" /\ calls[c].kind # "reset"
            /\ calls'[c].result = calls[c].result /\ calls'[c].due = calls[c].due
         \/ calls'[c].pc = "done" /\ calls'[c].result # "true"
         \/ /\ calls[c].pc \in {"provision", "store", "check"} /\ calls'[c].pc \in {"store", "check", "undo"}
            /\ calls'[c].seen = calls[c].seen /\ calls'[c].result = calls[c].result
            /\ calls'[c].due = calls[c].due
  PROVE  ResetInv' /\ ResetsReport
<1>1. month \in Nat /\ calls[c].due \in Nat /\ calls[c].due <= month /\ calls[c].result = "none"
  BY MonthsTyped DEF IInv, ResetInv, DatesInOrder
<1>2. IsOverdue(c) => ResetFits(c) BY DEF ResetInv
<1> QED
  BY <1>1, <1>2, QuietKeepsResets
     DEF KeepsResets, StaysInOrder, WillReplace, SeesRow, IsOverdue, ResetFits

\* A key is created, or the request fails.
LEMMA ProvisionsKeepResets ==
  ASSUME IInv, ResetInv, NEW c \in Call, ProvisionKey(c) \/ ProvisionFails(c)
  PROVE  ResetInv' /\ ResetsReport
<1>1. TypeOK /\ calls[c].kind # "close" /\ calls[c].pc = "provision" /\ UNCHANGED <<row, month>>
  BY DEF IInv, HandsHoldKeys, ClosePc, ProvisionKey, ProvisionFails
<1>2. ASSUME ProvisionKey(c) PROVE ResetInv' /\ ResetsReport
  <2>1. PICK k \in Key : calls' = [calls EXCEPT ![c] = [@ EXCEPT !.pc = "store", !.new = k, !.dated = month]]
    BY <1>2 DEF ProvisionKey
  <2> DEFINE call == [calls[c] EXCEPT !.pc = "store", !.new = k, !.dated = month]
  <2>2. /\ call \in CallState /\ call.pc = "store" /\ call.kind = calls[c].kind /\ call.seen = calls[c].seen
        /\ call.result = calls[c].result /\ call.due = calls[c].due
    BY <1>1 DEF TypeOK, CallState, Pc
  <2>3. calls' = [calls EXCEPT ![c] = call] BY <2>1
  <2> HIDE DEF call
  <2>4. OnlyMoves(c) /\ calls'[c] = call BY <1>1, <2>2, <2>3 DEF OnlyMoves, TypeOK
  <2> QED BY <1>1, <2>2, <2>4, GoingOnKeepsResets
<1>3. CASE ProvisionFails(c)
  <2>1. CASE calls[c].kind = "load"
    BY <1>1, <1>3, <2>1, EndingMoves, GoingOnKeepsResets DEF ProvisionFails, Throws
  <2>2. CASE calls[c].kind # "load"
    <3>1. Replaced(c, FALSE) BY <1>3, <2>2 DEF ProvisionFails, Throws
    <3> QED BY <1>1, <3>1, ReplacingMoves, GoingOnKeepsResets
  <2> QED BY <2>1, <2>2
<1> QED BY <1>2, <1>3

\* A call whose store executes keeps what it has read, unless it is done.
MovesFromStore(d) ==
  /\ calls[d].pc = "store" /\ StaysInOrder(d) /\ calls'[d].kind = calls[d].kind /\ calls'[d].pc # "read"
  /\ calls[d].kind = "reset" => calls'[d].pc # "done" /\ calls'[d].seen = calls[d].seen

\* What is stored is newer than any key that a reset has read: none of them sees it.
LEMMA StoringKeepsResets ==
  ASSUME IInv, ResetInv, NEW s \in Store, Matches(s), Stores(s), IsNewer(s.new, s.seen.key),
         UNCHANGED month, calls' \in [Call -> CallState],
         \A d \in Call : calls'[d] = calls[d] \/ MovesFromStore(d)
  PROVE  ResetInv' /\ ResetsReport
<1>1. /\ row.isOpen /\ row.key = s.seen.key /\ row'.key = s.new /\ s.new \in Key
      /\ row.key \in Key \cup {NoKey}
  BY StoringSizesTheRow DEF IInv, TypeOK, Row, Store
<1>2. s.new # NoKey BY <1>1, KeyAssumption DEF Key
<1>3. DatesInOrder' BY DEF ResetInv, DatesInOrder, MovesFromStore, StaysInOrder
<1>4. \A d \in Call : calls[d].seen.key # s.new
  <2> SUFFICES ASSUME NEW d \in Call, calls[d].seen.key = s.new PROVE FALSE OBVIOUS
  <2>1. row.key # NoKey /\ s.new <= row.key BY <1>1, <1>2 DEF IInv, KeysInOrder
  <2> QED BY <1>1, <2>1 DEF IsNewer, Key
<1>5. ASSUME NEW d \in Call, IsOverdue(d)' PROVE ResetFits(d)'
  <2>1. calls[d].kind = "reset"
    BY <1>5 DEF IsOverdue, MovesFromStore
  <2>2. calls'[d].seen = calls[d].seen BY <2>1 DEF MovesFromStore
  <2>3. calls'[d].pc = "read" BY <1>1, <1>4, <1>5, <2>2 DEF IsOverdue
  <2> QED BY <1>1, <1>2, <2>3 DEF ResetFits
<1>6. ResetsReport
  <2> SUFFICES ASSUME NEW d \in Call, calls[d].kind = "reset", calls[d].pc # "done", calls'[d].result = "true"
               PROVE  FALSE
    BY DEF ResetsReport
  <2>1. calls'[d] # calls[d] BY DEF ResetInv, DatesInOrder
  <2> QED BY <2>1 DEF MovesFromStore, StaysInOrder
<1> QED BY <1>3, <1>5, <1>6 DEF ResetInv

\* A new key is stored, or dropped because the row has changed.
LEMMA StoreKeyKeepsResets ==
  ASSUME IInv, ResetInv, NEW c \in Call, StoreKey(c)
  PROVE  ResetInv' /\ ResetsReport
<1> DEFINE s == TheStore(c)
<1>1. /\ TypeOK /\ calls[c].pc = "store" /\ calls[c].kind # "close" /\ UNCHANGED month
      /\ calls[c] \in CallState /\ calls[c].new \in Key /\ IsNewer(calls[c].new, calls[c].seen.key)
  BY DEF IInv, TypeOK, HandsHoldKeys, NewPc, KeysInOrder, ClosePc, StoreKey
<1>2. month \in Nat /\ calls[c].due \in Nat /\ calls[c].due <= month /\ calls[c].result = "none"
  BY <1>1, MonthsTyped DEF ResetInv, DatesInOrder
<1>3. s \in Store /\ s.seen = calls[c].seen /\ s.new = calls[c].new
  BY <1>1 DEF TheStore, Store, CallState
<1>4. CASE Matches(s) /\ Stores(s) /\ LearnsOfStore(c)
  <2>1. OnlyMoves(c) /\ MovesFromStore(c)
    <3>1. CASE calls[c].kind = "load"
      BY <1>1, <1>2, <1>4, <3>1, EndingMoves DEF LearnsOfStore, StaysInOrder, MovesFromStore
    <3>2. CASE calls[c].kind # "load"
      BY <1>1, <1>2, <1>4, <3>2, GoingMoves DEF LearnsOfStore, StaysInOrder, MovesFromStore, Pc
    <3> QED BY <3>1, <3>2
  <2> HIDE DEF s
  <2> QED BY <1>1, <1>3, <1>4, <2>1, StoringKeepsResets DEF OnlyMoves
<1>5. CASE ~Matches(s) /\ UNCHANGED row /\ GoesTo(c, "drop")
  <2>1. /\ OnlyMoves(c) /\ calls'[c].pc = "drop" /\ calls'[c].kind = calls[c].kind
        /\ calls'[c].seen = calls[c].seen
        /\ calls'[c].result = calls[c].result /\ calls'[c].due = calls[c].due
    BY <1>1, <1>5, GoingMoves DEF Pc
  <2>2. ~row.isOpen \/ ~SeesRow(c) BY <1>3, <1>5 DEF Matches, SeesRow
  <2>3. IsOverdue(c) => row.key # NoKey /\ SomeWillReplace BY <1>1, <2>2 DEF ResetInv, ResetFits, IsOverdue
  <2> QED
    BY <1>1, <1>2, <1>5, <2>1, <2>2, <2>3, QuietKeepsResets
       DEF KeepsResets, StaysInOrder, WillReplace, IsOverdue
<1> QED BY <1>4, <1>5 DEF StoreKey

\* A store that threw did not execute, did, or may yet.
LEMMA StoreThrowsKeepsResets ==
  ASSUME IInv, ResetInv, NEW c \in Call, StoreThrows(c)
  PROVE  ResetInv' /\ ResetsReport
<1> DEFINE s == TheStore(c)
<1>1. /\ TypeOK /\ calls[c].pc = "store" /\ UNCHANGED month /\ GoesTo(c, "check")
      /\ calls[c] \in CallState /\ calls[c].new \in Key /\ IsNewer(calls[c].new, calls[c].seen.key)
  BY DEF IInv, TypeOK, HandsHoldKeys, NewPc, KeysInOrder, StoreThrows
<1>2. month \in Nat /\ calls[c].due \in Nat /\ calls[c].due <= month /\ calls[c].result = "none"
  BY <1>1, MonthsTyped DEF ResetInv, DatesInOrder
<1>3. /\ OnlyMoves(c) /\ calls'[c].pc = "check" /\ calls'[c].kind = calls[c].kind
      /\ calls'[c].seen = calls[c].seen /\ calls'[c].result = calls[c].result
      /\ calls'[c].due = calls[c].due
  BY <1>1, GoingMoves DEF Pc
<1>4. CASE UNCHANGED row BY <1>1, <1>3, <1>4, GoingOnKeepsResets
<1>5. CASE Matches(s) /\ Stores(s)
  <2>1. s \in Store /\ s.seen = calls[c].seen /\ s.new = calls[c].new
    BY <1>1 DEF TheStore, Store, CallState
  <2>2. MovesFromStore(c) BY <1>1, <1>2, <1>3 DEF MovesFromStore, StaysInOrder
  <2> HIDE DEF s
  <2> QED BY <1>1, <1>3, <1>5, <2>1, <2>2, StoringKeepsResets DEF OnlyMoves
<1> QED BY <1>4, <1>5 DEF StoreThrows

\* A failed store is checked: the stored key of an overdue reset is the one it read.
LEMMA CheckKeepsResets ==
  ASSUME IInv, ResetInv, NEW c \in Call, CheckStore(c)
  PROVE  ResetInv' /\ ResetsReport
<1>1. TypeOK /\ calls[c].kind # "close" /\ calls[c].pc = "check" /\ UNCHANGED <<row, month>>
  BY DEF IInv, HandsHoldKeys, ClosePc, CheckStore
<1>2. month \in Nat /\ calls[c].due \in Nat /\ calls[c].due <= month /\ calls[c].result = "none"
  BY <1>1, MonthsTyped DEF ResetInv, DatesInOrder
<1>3. calls[c].new # calls[c].seen.key BY <1>1 DEF IInv, DeletesMissTheRow
<1>4. CASE ~IsStored(c)
  BY <1>1, <1>4, GoingMoves, GoingOnKeepsResets DEF CheckStore, Pc
<1>5. CASE IsStored(c)
  <2>1. ~SeesRow(c) /\ ~IsOverdue(c) BY <1>1, <1>3, <1>5 DEF IsStored, SeesRow, IsOverdue
  <2>2. CASE calls[c].kind = "load"
    BY <1>1, <1>2, <1>5, <2>1, <2>2, EndingMoves, QuietKeepsResets
       DEF CheckStore, LearnsOfStore, KeepsResets, StaysInOrder, WillReplace, IsOverdue
  <2>3. CASE calls[c].kind # "load"
    BY <1>1, <1>2, <1>5, <2>1, <2>3, GoingMoves, QuietKeepsResets
       DEF CheckStore, LearnsOfStore, KeepsResets, StaysInOrder, WillReplace, IsOverdue, Pc
  <2> QED BY <2>2, <2>3
<1> QED BY <1>4, <1>5

\* A key that was not stored is deleted.
LEMMA DeleteUnstoredKeepsResets ==
  ASSUME IInv, ResetInv, NEW c \in Call, DeleteUnstoredKey(c)
  PROVE  ResetInv' /\ ResetsReport
<1>1. /\ TypeOK /\ calls[c].kind # "close" /\ calls[c].pc \in {"drop", "undo"}
      /\ UNCHANGED <<row, month>> /\ AfterDrop(c)
  BY DEF IInv, HandsHoldKeys, ClosePc, DeleteUnstoredKey
<1>2. month \in Nat /\ calls[c].due \in Nat /\ calls[c].due <= month /\ calls[c].result = "none"
  BY <1>1, MonthsTyped DEF ResetInv, DatesInOrder
<1>3. CASE calls[c].pc = "undo" /\ calls[c].kind = "load"
  BY <1>1, <1>3, EndingMoves, GoingOnKeepsResets DEF AfterDrop, Throws
<1>4. CASE calls[c].pc = "undo" /\ calls[c].kind # "load"
  BY <1>1, <1>4, ReplacingMoves, GoingOnKeepsResets DEF AfterDrop, Throws
<1>5. CASE calls[c].pc = "drop" /\ calls[c].kind = "load"
  BY <1>1, <1>5, GoingMoves, GoingOnKeepsResets DEF AfterDrop, Pc
<1>6. CASE calls[c].pc = "drop" /\ calls[c].kind # "load"
  <2>1. /\ OnlyMoves(c) /\ calls'[c].pc = "recheck" /\ calls'[c].kind = calls[c].kind
        /\ calls'[c].seen = calls[c].seen /\ calls'[c].result = calls[c].result /\ calls'[c].due = calls[c].due
    BY <1>1, <1>6, GoingMoves DEF AfterDrop, Pc
  <2>2. IsOverdue(c) => row.key # NoKey /\ SomeWillReplace BY <1>6 DEF ResetInv, ResetFits
  <2> QED
    BY <1>1, <1>2, <1>6, <2>1, <2>2, QuietKeepsResets
       DEF KeepsResets, StaysInOrder, WillReplace, IsOverdue
<1> QED BY <1>1, <1>3, <1>4, <1>5, <1>6

\* Budgets are compared, or the replaced key is retired.
LEMMA ComparesKeepResets ==
  ASSUME IInv, ResetInv, NEW c \in Call, CompareBudget(c) \/ RecheckBudget(c) \/ RetireKey(c)
  PROVE  ResetInv' /\ ResetsReport
<1>1. /\ TypeOK /\ calls[c].kind # "close" /\ calls[c].pc \in {"compare", "recheck", "retire"}
      /\ UNCHANGED <<row, month>>
  BY DEF IInv, HandsHoldKeys, ClosePc, CompareBudget, RecheckBudget, RetireKey
<1>2. month \in Nat /\ calls[c].due \in Nat /\ calls[c].due <= month /\ calls[c].result = "none"
  BY <1>1, MonthsTyped DEF ResetInv, DatesInOrder
<1>3. ~WillReplace(c) BY <1>1, <1>2 DEF WillReplace
<1>4. IsOverdue(c) => calls[c].pc = "recheck" /\ SomeWillReplace
  BY <1>1 DEF ResetInv, ResetFits, DatesInOrder, IsOverdue
<1>5. ASSUME OnlyMoves(c), calls'[c].kind = calls[c].kind,
             \/ calls'[c].pc = "done" /\ calls'[c].due \in {0, calls[c].due}
             \/ /\ calls'[c].pc = "read" /\ calls[c].kind = "sync"
                /\ calls'[c].result = calls[c].result /\ calls'[c].due = calls[c].due
      PROVE  ResetInv' /\ ResetsReport
  BY <1>1, <1>2, <1>3, <1>4, <1>5, QuietKeepsResets DEF KeepsResets, StaysInOrder, IsOverdue
<1>6. CASE CompareBudget(c)
  <2>1. calls[c].kind = "sync" BY <1>6 DEF CompareBudget, ResetInv, DatesInOrder
  <2>2. CASE GoesTo(c, "read") BY <1>1, <1>5, <2>1, <2>2, GoingMoves DEF Pc
  <2>3. CASE Ends(c, "true") BY <1>1, <1>5, <2>3, EndingMoves
  <2> QED BY <1>6, <2>2, <2>3 DEF CompareBudget
<1>7. ASSUME NEW isStale \in Stale, Replaced(c, ~isStale) PROVE ResetInv' /\ ResetsReport
  <2>1. isStale \in BOOLEAN BY DEF Stale
  <2> QED BY <1>1, <1>5, <1>7, <2>1, ReplacingMoves
<1>8. CASE RetireKey(c) BY <1>1, <1>5, <1>8, EndingMoves DEF RetireKey
<1> QED BY <1>6, <1>7, <1>8 DEF RecheckBudget

\* A close deletes the key.
LEMMA ClosesKeepResets ==
  ASSUME IInv, ResetInv, NEW c \in Call, ReadClosing(c) \/ CloseKey(c) \/ DeleteStoredKey(c)
  PROVE  ResetInv' /\ ResetsReport
<1>1. /\ TypeOK /\ calls[c].kind = "close" /\ calls[c].pc # "done" /\ UNCHANGED <<row, month>>
  BY DEF IInv, HandsHoldKeys, ClosePc, ReadClosing, CloseKey, DeleteStoredKey
<1>2. month \in Nat /\ calls[c].due \in Nat /\ calls[c].due <= month /\ calls[c].result = "none"
  BY <1>1, MonthsTyped DEF ResetInv, DatesInOrder
<1>3. /\ OnlyMoves(c) /\ calls'[c].kind = "close" /\ calls'[c].due \in {0, calls[c].due}
      /\ calls'[c].pc # "compare" /\ (calls'[c].pc # "done" => calls'[c].result = "none")
  <2>1. CASE CloseKey(c) \/ DeleteStoredKey(c)
    BY <1>1, <1>2, <2>1, GoingMoves, EndingMoves DEF CloseKey, DeleteStoredKey, Pc
  <2>2. CASE ReadClosing(c) /\ ~row.isOpen
    BY <1>1, <2>2, EndingMoves DEF ReadClosing
  <2>3. CASE ReadClosing(c) /\ row.isOpen
    <3> DEFINE pc == IF row.key = NoKey THEN "closeRow" ELSE "closeKey"
    <3> DEFINE call == [calls[c] EXCEPT !.pc = pc, !.seen = row]
    <3>1. /\ call \in CallState /\ call.pc = pc /\ call.kind = "close"
          /\ call.result = "none" /\ call.due = calls[c].due
      BY <1>1, <1>2 DEF TypeOK, CallState, Pc
    <3>2. calls' = [calls EXCEPT ![c] = call] BY <2>3 DEF ReadClosing
    <3> HIDE DEF call
    <3> QED BY <1>1, <3>1, <3>2 DEF OnlyMoves, TypeOK
  <2> QED BY <2>1, <2>2, <2>3
<1> QED
  BY <1>1, <1>2, <1>3, QuietKeepsResets DEF KeepsResets, StaysInOrder, WillReplace, IsOverdue

\* The row is deleted with the account.
LEMMA CloseRowKeepsResets ==
  ASSUME IInv, ResetInv, NEW c \in Call, CloseRow(c) \/ CloseRowThrows(c)
  PROVE  ResetInv' /\ ResetsReport
<1>1. /\ TypeOK /\ calls[c].pc = "closeRow" /\ calls[c].kind = "close" /\ UNCHANGED month
      /\ row' = [row EXCEPT !.isOpen = FALSE, !.key = NoKey]
  BY DEF IInv, HandsHoldKeys, ClosePc, CloseRow, CloseRowThrows
<1>2. /\ month \in Nat /\ calls[c].due \in Nat /\ calls[c].due <= month /\ calls[c].result = "none"
  BY <1>1, MonthsTyped DEF ResetInv, DatesInOrder
<1>3. ~row'.isOpen /\ row.key \in Key \cup {NoKey} BY <1>1 DEF TypeOK, Row
<1>4. OnlyMoves(c) /\ StaysInOrder(c)
  <2>1. CASE CloseRow(c) /\ row.isOpen /\ HasNewKey(c)
    <3> DEFINE call == [calls[c] EXCEPT !.pc = "closeStored", !.new = row.key]
    <3>1. /\ call \in CallState /\ call.pc = "closeStored" /\ call.result = "none" /\ call.due = calls[c].due
      BY <1>1, <1>2, <1>3 DEF TypeOK, CallState, Pc
    <3>2. calls' = [calls EXCEPT ![c] = call] BY <2>1 DEF CloseRow
    <3> HIDE DEF call
    <3>3. calls'[c] = call /\ OnlyMoves(c) BY <1>1, <3>1, <3>2 DEF OnlyMoves, TypeOK
    <3> QED BY <1>2, <3>1, <3>3 DEF StaysInOrder
  <2>2. CASE CloseRow(c) /\ ~(row.isOpen /\ HasNewKey(c))
    BY <1>1, <1>2, <2>2, EndingMoves DEF CloseRow, StaysInOrder
  <2>3. CASE CloseRowThrows(c)
    BY <1>1, <1>2, <2>3, EndingMoves DEF CloseRowThrows, StaysInOrder
  <2> QED BY <2>1, <2>2, <2>3
<1>5. DatesInOrder' BY <1>1, <1>2, <1>4 DEF ResetInv, DatesInOrder, StaysInOrder, OnlyMoves
<1> QED BY <1>3, <1>5 DEF ResetInv, IsOverdue, ResetsReport

\* The process exits, or a read of the row fails.
LEMMA CallFailsKeepsResets ==
  ASSUME IInv, ResetInv, NEW c \in Call, CallFails(c)
  PROVE  ResetInv' /\ ResetsReport
<1>1. TypeOK /\ UNCHANGED <<row, month>> /\ calls[c].pc # "done" /\ Ends(c, "false")
  BY DEF IInv, CallFails
<1> QED BY <1>1, EndingMoves, GoingOnKeepsResets

\* A change of the budget will replace the key that it leaves behind.
LEMMA ReconfigurationsKeepResets ==
  ASSUME IInv, ResetInv, NEW c \in Call, SetBudgetOverride(c) \/ ApplyProjection(c)
  PROVE  ResetInv' /\ ResetsReport
<1>1. /\ TypeOK /\ row \in Row /\ UNCHANGED month
      /\ calls[c].pc = "idle" /\ calls[c].kind = "none" /\ calls[c].result = "none"
  BY DEF IInv, HandsHoldKeys, TypeOK, SetBudgetOverride, ApplyProjection, Starts
<1>2. /\ month \in Nat /\ row.month \in Nat /\ calls[c].due \in Nat /\ calls[c].due <= month
  BY <1>1, MonthsTyped DEF ResetInv, DatesInOrder
<1>3. ASSUME NEW kind \in {"replace", "sync"}, Starts(c, kind, "read"),
             row'.isOpen = row.isOpen, row'.key = row.key, row'.month = row.month
      PROVE  ResetInv' /\ ResetsReport
  <2>1. /\ OnlyMoves(c) /\ calls'[c].pc = "read" /\ calls'[c].kind = kind
        /\ calls'[c].result = "none" /\ calls'[c].due = calls[c].due
    BY <1>1, <1>3, StartingMoves DEF Kind, Pc
  <2>2. DatesInOrder' BY <1>1, <1>2, <1>3, <2>1 DEF ResetInv, DatesInOrder, OnlyMoves
  <2>3. SomeWillReplace' BY <2>1 DEF SomeWillReplace, WillReplace
  <2>4. ASSUME NEW d \in Call, IsOverdue(d)' PROVE ResetFits(d)'
    <3>1. d # c /\ calls'[d] = calls[d] BY <2>1, <2>4 DEF IsOverdue, OnlyMoves
    <3>2. ResetFits(d) BY <1>3, <2>4, <3>1 DEF ResetInv, IsOverdue
    <3> QED BY <1>3, <2>3, <3>1, <3>2 DEF ResetFits
  <2>5. ResetsReport BY <2>1 DEF ResetsReport
  <2> QED BY <2>2, <2>4, <2>5 DEF ResetInv
<1>4. CASE SetBudgetOverride(c)
  <2>1. Starts(c, "replace", "read") /\ row'.isOpen = row.isOpen /\ row'.key = row.key /\ row'.month = row.month
    BY <1>1, <1>4 DEF SetBudgetOverride, Row
  <2> QED BY <1>3, <2>1
<1>5. ASSUME NEW plan \in Plan, row' = [row EXCEPT !.plan = plan],
             Starts(c, "sync", IF row.plan = plan THEN "compare" ELSE "read")
      PROVE  ResetInv' /\ ResetsReport
  <2>1. CASE row.plan = plan
    <3>1. row' = row BY <1>1, <1>5, <2>1 DEF Row
    <3>2. Starts(c, "sync", "compare") BY <1>5, <2>1
    <3> QED
      BY <1>1, <1>2, <3>1, <3>2, StartingMoves, QuietKeepsResets
         DEF Kind, Pc, KeepsResets, StaysInOrder, WillReplace, IsOverdue
  <2>2. CASE row.plan # plan
    <3>1. Starts(c, "sync", "read") /\ row'.isOpen = row.isOpen /\ row'.key = row.key /\ row'.month = row.month
      BY <1>1, <1>5, <2>2 DEF Row
    <3> QED BY <1>3, <3>1
  <2> QED BY <2>1, <2>2
<1> QED BY <1>4, <1>5 DEF ApplyProjection

\* A month begins: nothing that was due before is due later.
LEMMA MonthKeepsResets ==
  ASSUME IInv, ResetInv, UNCHANGED <<row, calls>>, month' \in {month, month + 1}
  PROVE  ResetInv' /\ ResetsReport
<1>1. month \in Nat /\ row.month \in Nat /\ \A d \in Call : calls[d].due \in Nat
  BY MonthsTyped DEF IInv
<1>2. DatesInOrder' BY <1>1 DEF ResetInv, DatesInOrder
<1>3. ASSUME NEW d \in Call, IsOverdue(d)' PROVE ResetFits(d)'
  BY <1>3 DEF ResetInv, IsOverdue, ResetFits, SeesRow, SomeWillReplace, WillReplace
<1>4. ResetsReport BY DEF ResetsReport, ResetInv, DatesInOrder
<1> QED BY <1>2, <1>3, <1>4 DEF ResetInv

\* Every step keeps the invariant of the resets, and lets a reset report only what it may.
LEMMA NextKeepsResets == IInv /\ ResetInv /\ [Next]_vars => ResetInv' /\ ResetsReport
<1> SUFFICES ASSUME IInv, ResetInv, [Next]_vars PROVE ResetInv' /\ ResetsReport OBVIOUS
<1>1. ASSUME NEW c \in Call,
             \/ StartLoad(c) \/ SetBudgetOverride(c) \/ ApplyProjection(c) \/ StartReset(c) \/ StartClose(c)
             \/ OwnerNeedsNoKey(c) \/ OwnerNeedsKey(c) \/ ProvisionKey(c) \/ ProvisionFails(c)
             \/ StoreKey(c) \/ StoreThrows(c) \/ CheckStore(c)
             \/ DeleteUnstoredKey(c) \/ RetireKey(c) \/ CompareBudget(c) \/ RecheckBudget(c)
             \/ ReadClosing(c) \/ CloseKey(c) \/ CloseRow(c) \/ CloseRowThrows(c) \/ DeleteStoredKey(c)
             \/ CallFails(c)
      PROVE  ResetInv' /\ ResetsReport
  BY <1>1, StartsKeepResets, ReconfigurationsKeepResets, ReadsKeepResets, ProvisionsKeepResets,
     StoreKeyKeepsResets, StoreThrowsKeepsResets, CheckKeepsResets, DeleteUnstoredKeepsResets,
     ComparesKeepResets, ClosesKeepResets, CloseRowKeepsResets, CallFailsKeepsResets
<1>2. ASSUME NEW s \in late, ExecuteLateStore(s) PROVE ResetInv' /\ ResetsReport
  <2>1. /\ s \in Store /\ Matches(s) /\ Stores(s) /\ IsNewer(s.new, s.seen.key)
        /\ UNCHANGED <<month, calls>> /\ calls \in [Call -> CallState]
    BY <1>2 DEF IInv, TypeOK, KeysInOrder, ExecuteLateStore
  <2> QED BY <2>1, StoringKeepsResets
<1>3. CASE MonthBegins BY <1>3, MonthKeepsResets DEF MonthBegins
<1>4. CASE UNCHANGED vars BY <1>4, MonthKeepsResets DEF vars
<1> QED BY <1>1, <1>2, <1>3, <1>4 DEF Next

-----------------------------------------------------------------------------
(* The theorems *)

\* TypeOK holds in every reachable state, for any number of calls, keys, months and faults.
THEOREM TypeCorrect == Spec => []TypeOK
<1>1. IInv => TypeOK BY DEF IInv
<1> QED BY <1>1, Invariance, PTL

\* Every key that can spend is stored, in the hands of a call, or lost to a fault:
\* no interleaving of replacements, syncs, resets and a close forgets one.
THEOREM OnlyFaultsLoseKeys == Spec => []NoKeyLeaks
<1>1. IInv => NoKeyLeaks BY DEF IInv
<1> QED BY <1>1, Invariance, PTL

\* The stored key is one that the proxy still knows: no call deletes the key that
\* another call has stored, unless the account closes or a store executes late.
THEOREM StoredKeyStaysLive == Spec => []StoredKeyIsLive
<1>1. IInv => StoredKeyIsLive BY DEF IInv
<1> QED BY <1>1, Invariance, PTL

\* When every change of the budget has reported success, the stored key has the
\* budget of the row, in whatever order changes and replacements came.
THEOREM StoredKeyIsSized == Spec => []KeyIsSized
<1>1. IInv => KeyIsSized BY DEF IInv, RowKeyIsSizedOrOwed, Owes, KeyIsSized
<1> QED BY <1>1, Invariance, PTL

\* When a reset reports that it replaced a key that has outlived its month, the key it
\* read is not stored any more, or a change of the budget is still to report that it
\* replaced it, whatever other calls store beside the reset and however old their dates.
THEOREM ResetReplaces == Spec => ResetReplacesOldKeys
<1>1. Init => ResetInv
  BY NewUserTyped, IdleCallTyped, KeyAssumption DEF Init, ResetInv, DatesInOrder, IsOverdue, NewUser
<1>2. IInv /\ ResetInv /\ [Next]_vars => ResetInv' /\ ResetsReport BY NextKeepsResets
<1>3. ResetsReport => [ResetsReport]_vars OBVIOUS
<1> QED BY <1>1, <1>2, <1>3, Invariance, PTL DEF Spec, ResetReplacesOldKeys, ResetsReport

=============================================================================
