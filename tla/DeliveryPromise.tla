-------------------------- MODULE DeliveryPromise ---------------------------
(***************************************************************************)
(* What a delivery to several recipients promises, whatever its batches,   *)
(* retries and answers do behind it: nobody is forgotten, whoever is noted *)
(* as told was told, and a delivery that ends well has told everybody who  *)
(* was still due.                                                          *)
(***************************************************************************)

CONSTANT Recipient

VARIABLES
  due,   \* who has to be told: nobody joins, and whoever is let off is not due again
  told,  \* who was told
  noted, \* who is on record as told
  phase  \* under way, ended well, or failed for an operator to see

Init ==
  /\ due \subseteq Recipient
  /\ told = {} /\ noted = {}
  /\ phase = "sending"

\* Some are told, some of them again.
Tell ==
  /\ told \subseteq told' /\ told' \subseteq Recipient
  /\ UNCHANGED <<due, noted, phase>>

\* Some of who was told are noted.
Note ==
  /\ noted \subseteq noted' /\ noted' \subseteq told
  /\ UNCHANGED <<due, told, phase>>

\* Some need not be told any more: they left, or their loss was reported.
LetOff ==
  /\ due' \subseteq due
  /\ UNCHANGED <<told, noted, phase>>

\* What there was to tell is deleted, and the record with it.
Forget ==
  /\ due' = {} /\ noted' = {}
  /\ UNCHANGED <<told, phase>>

\* The delivery ends, and nobody is left who is due; the last losses are reported.
Finish ==
  /\ phase = "sending" /\ phase' = "sent"
  /\ due' \subseteq due \cap told
  /\ UNCHANGED <<told, noted>>

\* It fails, on its way or in what comes after it.
Fail ==
  /\ phase \in {"sending", "sent"} /\ phase' = "failed"
  /\ UNCHANGED <<due, told, noted>>

Next == Tell \/ Note \/ LetOff \/ Forget \/ Finish \/ Fail

Spec == Init /\ [][Next]_<<due, told, noted, phase>>

=============================================================================
