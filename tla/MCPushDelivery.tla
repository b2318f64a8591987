--------------------------- MODULE MCPushDelivery ---------------------------
(* Model checking of PushDelivery: the phones and the users are interchangeable. *)
EXTENDS PushDelivery, TLC

Symmetry == Permutations(Phone) \cup Permutations(User)

=============================================================================
