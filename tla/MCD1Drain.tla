------------------------------ MODULE MCD1Drain ------------------------------
(***************************************************************************)
(* Two instances of D1OwnerRegistry with a stopping task; scene names the  *)
(* one a behaviour is about.  In "requests", with the constants of the     *)
(* configuration, queries and renewals race the drain.  In "rebalances"    *)
(* the operator hands databases over meanwhile.                            *)
(***************************************************************************)
EXTENDS D1OwnerRegistry

VARIABLE scene

Rebalanced == INSTANCE D1OwnerRegistry WITH Workload <- {"rebalance"}, MaxTime <- 0

MCInit == scene \in {"requests", "rebalances"} /\ Init

MCNext ==
  \/ scene = "requests" /\ LiveNext /\ UNCHANGED scene
  \/ scene = "rebalances" /\ Rebalanced!LiveNext /\ UNCHANGED scene

\* The fairness of both instances: neither redis steps, nor the steps of a
\* task, nor the drain depend on the constants in which they differ.
MCSpec ==
  MCInit /\ [][MCNext]_<<scene, vars>> /\ DrainFairness
=============================================================================
