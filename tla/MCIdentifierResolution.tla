----------------------- MODULE MCIdentifierResolution -----------------------
(* IdentifierResolution on interchangeable names. *)
EXTENDS IdentifierResolution, TLC

Names == Permutations(Name)

=============================================================================
