--------------------------- MODULE MCSharedRuntime ---------------------------
(***************************************************************************)
(* SharedRuntime on small instances: requests are interchangeable.         *)
(***************************************************************************)
EXTENDS SharedRuntime, TLC

Symmetry == Permutations(Requests)

=============================================================================
