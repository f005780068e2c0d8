-------------------------- MODULE MCAccountLinking --------------------------
(***************************************************************************)
(* AccountLinking on a small instance: two numbers, two sessions and more  *)
(* callbacks than connections.                                             *)
(***************************************************************************)
EXTENDS AccountLinking, TLC

\* Numbers, sessions, callbacks and messages are interchangeable.
Symmetry == Permutations(Addresses) \cup Permutations(Sessions)
              \cup Permutations(Callbacks) \cup Permutations(Messages)

=============================================================================
