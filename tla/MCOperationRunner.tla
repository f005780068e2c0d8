-------------------------- MODULE MCOperationRunner --------------------------
(***************************************************************************)
(* OperationRunner on small instances: two users, two workers and three    *)
(* operations, so that an operation can follow another of the same user    *)
(* while a second user's is being run.                                     *)
(***************************************************************************)
EXTENDS OperationRunner, TLC

\* Operation ids, users and workers are interchangeable; used by the runs
\* that check invariants only.
Symmetry == Permutations(Ops) \cup Permutations(Users) \cup Permutations(Workers)

=============================================================================
