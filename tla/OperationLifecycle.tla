------------------------- MODULE OperationLifecycle -------------------------
(***************************************************************************)
(* What the manager promises its callers about operations, whatever        *)
(* workers, queue, locks and restarts are underneath: an accepted          *)
(* operation is queued, runs at most once, gets one final status and keeps *)
(* it, and while it is in flight no other operation of the same user is    *)
(* accepted (the 409 of ace_net_manager/api/routes.py).                    *)
(***************************************************************************)
CONSTANTS Ops, Users, NoUser

VARIABLES
  status,  \* status of each operation row, "none" before it is created
  userOf   \* the user an operation row belongs to

vars == <<status, userOf>>

Inflight == {"queued", "running"}
Final == {"succeeded", "failed"}

Busy(u) == \E o \in Ops : status[o] \in Inflight /\ userOf[o] = u

Init ==
  /\ status = [o \in Ops |-> "none"]
  /\ userOf = [o \in Ops |-> NoUser]

Accept(o, u) ==
  /\ status[o] = "none"
  /\ ~Busy(u)
  /\ status' = [status EXCEPT ![o] = "queued"]
  /\ userOf' = [userOf EXCEPT ![o] = u]

Begin(o) ==
  /\ status[o] = "queued"
  /\ status' = [status EXCEPT ![o] = "running"]
  /\ UNCHANGED userOf

\* Only an operation that ran can succeed.
Succeed(o) ==
  /\ status[o] = "running"
  /\ status' = [status EXCEPT ![o] = "succeeded"]
  /\ UNCHANGED userOf

\* Operations are given up one at a time, or together by the startup sweep.
GiveUp(S) ==
  /\ S # {}
  /\ \A o \in S : status[o] \in Inflight
  /\ status' = [o \in Ops |-> IF o \in S THEN "failed" ELSE status[o]]
  /\ UNCHANGED userOf

Next ==
  \/ \E o \in Ops, u \in Users : Accept(o, u)
  \/ \E o \in Ops : Begin(o)
  \/ \E o \in Ops : Succeed(o)
  \/ \E S \in SUBSET Ops : GiveUp(S)

Spec == Init /\ [][Next]_vars

=============================================================================
