----------------------------- MODULE MCWorkflows -----------------------------
(***************************************************************************)
(* Three Workflow instances checked side by side; scene names the one a    *)
(* behaviour is about.  The lifecycle instance has the constants of the    *)
(* configuration: one step, a caller that pauses, resumes, terminates and  *)
(* restarts, two dispatch tasks.  The other two change some of them.       *)
(***************************************************************************)
EXTENDS WorkflowInstance, TLC

CONSTANTS c1, c2, d1, d2

VARIABLE scene

OneStep == <<{1}>>
TwoSteps == <<{1}, {2}>>
AllDo == [o \in {1} |-> "do"]
AllWait == [o \in {1, 2} |-> "wait"]

\* Two callers create, end and create again, past the retention.
Creating ==
  INSTANCE WorkflowInstance
    WITH Callers <- {c1, c2}, Dispatchers <- {d1}, Lease <- 2, ClockLag <- 1,
         Workload <- {"create", "status", "terminate", "restart"},
         MaxTime <- 4, MaxClaims <- 0, MaxCreates <- 2

\* Two waits, events of two types from two callers, and a timeout.
Sending ==
  INSTANCE WorkflowInstance
    WITH Callers <- {c1, c2}, Stages <- TwoSteps, Kind <- AllWait,
         EventTypes <- {"go", "other"}, WaitTimeout <- 1, Lease <- 4,
         Workload <- {"create", "send"}, MaxClaims <- 3, MaxGeneration <- 1, MaxEvents <- 2

MCInit ==
  \/ scene = "lifecycle" /\ Init
  \/ scene = "creating" /\ Creating!Init
  \/ scene = "sending" /\ Sending!Init

MCNext ==
  \/ scene = "lifecycle" /\ Next /\ UNCHANGED scene
  \/ scene = "creating" /\ Creating!Next /\ UNCHANGED scene
  \/ scene = "sending" /\ Sending!Next /\ UNCHANGED scene

MCSpec == MCInit /\ [][MCNext]_<<scene, vars>>

\* While no lease ends, an active instance that no dispatch task holds can be
\* found again, by its ready token, its due entry or the event it waits for
\* (ClearSuspendedRun, SendEvent and MoveDue of the sending instance); and both
\* its waits are done, each with its own event, when it completes.
SentWakes ==
  scene = "sending" =>
    Sending!WakeSource /\ Sending!EventDelivery /\ Sending!CompletedMeansDone

Symmetry == Permutations({c1, c2}) \cup Permutations({d1, d2})
=============================================================================
