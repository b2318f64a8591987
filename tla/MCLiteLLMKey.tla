---------------------------- MODULE MCLiteLLMKey ----------------------------
(* Model checking of LiteLLMKey: the calls are interchangeable. *)
EXTENDS LiteLLMKey, TLC

Symmetry == Permutations(Call)

=============================================================================
