---------------------------- MODULE ObjectStore -----------------------------
(***************************************************************************)
(* The stored objects and the rows of pending_object_deletions.            *)
(*                                                                         *)
(* A transaction that gives an object up records its key as pending.  The  *)
(* process then deletes the object, and the hourly sweep deletes what the  *)
(* process did not.  Once a key is read for deletion it is deleted, whoever *)
(* has come to need the object in between.                                 *)
(***************************************************************************)
EXTENDS Naturals

CONSTANTS
  Object,   \* the keys
  MaxFaults \* bound on failures and exits

VARIABLES
  objects,  \* the keys of the objects in the bucket
  pending,  \* the pending deletion of each key
  deleting, \* the keys that a process or the sweep is about to delete
  faults    \* faults so far

storeVars == <<objects, pending, deleting, faults>>

StoreTypeOK ==
  /\ objects \subseteq Object
  /\ pending \in [Object -> {"none", "waiting", "due"}]
  /\ deleting \subseteq Object
  /\ faults \in 0..MaxFaults

StoreInit ==
  /\ objects = {}
  /\ pending = [k \in Object |-> "none"]
  /\ deleting = {}
  /\ faults = 0

Fault == faults < MaxFaults /\ faults' = faults + 1

-----------------------------------------------------------------------------
(* What a transaction does *)

\* recordPendingObjectDeletions: a key already pending stays as it is.
Recorded(keys, when) ==
  [k \in Object |-> IF k \in keys /\ pending[k] = "none" THEN when ELSE pending[k]]

\* Keys are recorded as pending and handed to deleteStoredObjects after the commit.
GivesUp(keys) ==
  /\ pending' = Recorded(keys, "due")
  /\ deleting' = deleting \cup keys

-----------------------------------------------------------------------------
(* deleteStoredObject and the sweep *)

\* The object is deleted, and its pending row with it unless that write fails.
DeleteObject(k) ==
  /\ k \in deleting
  /\ objects' = objects \ {k}
  /\ deleting' = deleting \ {k}
  /\ \/ pending' = [pending EXCEPT ![k] = "none"] /\ UNCHANGED faults
     \/ Fault /\ UNCHANGED pending

\* The bucket refuses, and a pending key waits for its next try.
DeleteFails(k) ==
  /\ k \in deleting
  /\ Fault
  /\ deleting' = deleting \ {k}
  /\ pending' = [pending EXCEPT ![k] = IF @ = "none" THEN @ ELSE "waiting"]
  /\ UNCHANGED objects

\* The process exits before it comes to the key.
DeleteIsLost(k) ==
  /\ k \in deleting
  /\ Fault
  /\ deleting' = deleting \ {k}
  /\ UNCHANGED <<objects, pending>>

\* The next try time of a key passes.
TryTimePasses(k) ==
  /\ pending[k] = "waiting"
  /\ pending' = [pending EXCEPT ![k] = "due"]
  /\ UNCHANGED <<objects, deleting, faults>>

\* Mutant: the sweep passes over an object that is gone.
StoredDue == {k \in objects : pending[k] = "due"}

\* The keys whose try time has passed.
Due == {k \in Object : pending[k] = "due"}

\* retryPendingObjectDeletions reads its batch.
SweepReads ==
  /\ ~(Due \subseteq deleting)
  /\ deleting' = deleting \cup Due
  /\ UNCHANGED <<objects, pending, faults>>

DeleteStep == \E k \in Object : DeleteObject(k) \/ DeleteFails(k) \/ DeleteIsLost(k)
TryTimeStep == \E k \in Object : TryTimePasses(k)

StoreNext == SweepReads \/ DeleteStep \/ TryTimeStep

\* The sweep runs every hour, and a process that goes on deletes what it has read.
StoreFairness == WF_storeVars(StoreNext)

=============================================================================
