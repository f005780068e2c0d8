--------------------------- MODULE RuntimePromise ---------------------------
(***************************************************************************)
(* What callers of the manager may rely on of one user's runtime: the row  *)
(* names the generation and image in use and those a rollback returns to;  *)
(* a generation's row is in force while it is promoted.                    *)
(***************************************************************************)
EXTENDS Naturals

CONSTANTS Images, NoImage

VARIABLES
  active,     \* the generation and image in use
  previous,   \* those that were in use before
  inForce     \* the generations whose rows are in force

vars == <<active, previous, inForce>>

Nothing == [gen |-> 0, image |-> NoImage]

Init ==
  /\ active = Nothing
  /\ previous = Nothing
  /\ inForce = {}

\* The first generation; nobody is provisioned twice.
Provide ==
  /\ active = Nothing
  /\ \E i \in Images : active' = [gen |-> 1, image |-> i]
  /\ previous' = Nothing
  /\ inForce' = {1}

\* The next generation takes over, in one step: deploy, restart, rollback.
Switch ==
  /\ active # Nothing
  /\ \E i \in Images : active' = [gen |-> active.gen + 1, image |-> i]
  /\ previous' = active
  /\ inForce' = {active'.gen}

\* The generation in use is being built up again after a failed switch ...
Withdraw ==
  /\ inForce = {active.gen}
  /\ inForce' = {}
  /\ UNCHANGED <<active, previous>>

\* ... and is back.
Reinstate ==
  /\ active # Nothing
  /\ inForce = {}
  /\ inForce' = {active.gen}
  /\ UNCHANGED <<active, previous>>

Next == Provide \/ Switch \/ Withdraw \/ Reinstate

Spec == Init /\ [][Next]_vars

=============================================================================
