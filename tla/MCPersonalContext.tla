------------------------- MODULE MCPersonalContext -------------------------
(* Model checking of PersonalContext. *)
EXTENDS PersonalContext

=============================================================================
