---------------------------- MODULE MCD1Ownership ----------------------------
(***************************************************************************)
(* Two instances of D1OwnerRegistry side by side; scene names the one a    *)
(* behaviour is about.  In "handover", with the constants of the           *)
(* configuration, a lease is over one tick after its last renewal, and     *)
(* claims, takeovers, drops and rebalances meet in every order.  In        *)
(* "budget" a lease is longer than its guard, and statements, late answers *)
(* and retries use up the time between the two.                            *)
(***************************************************************************)
EXTENDS D1OwnerRegistry, TLC

VARIABLE scene

Budget ==
  INSTANCE D1OwnerRegistry
    WITH TTL <- 3, Guard <- 2, ObsTTL <- 1, MaxDelay <- 1, SqlTime <- 1,
         MaxStmts <- 2, MaxTime <- 3, Workload <- {"query"}

MCInit ==
  \/ scene = "handover" /\ Init
  \/ scene = "budget" /\ Budget!Init

MCNext ==
  /\ UNCHANGED scene
  /\ \/ scene = "handover" /\ Next
     \/ scene = "budget" /\ Budget!Next

MCSpec == MCInit /\ [][MCNext]_<<scene, vars>>

Symmetry == Permutations(Ops)

=============================================================================
