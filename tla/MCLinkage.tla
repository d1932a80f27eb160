------------------------------ MODULE MCLinkage ------------------------------
(* Linkage on interchangeable names and types. *)
EXTENDS Linkage, TLC

Symmetry == Permutations(Name) \cup Permutations(Type)

=============================================================================
