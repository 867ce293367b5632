--------------------------- MODULE MCWorkflowsLive ---------------------------
(***************************************************************************)
(* Two Workflow instances under the fairness of the ticks; scene names the *)
(* one a behaviour is about.  The instance of the configuration sleeps and *)
(* then runs a step, while a caller pauses, resumes and sends, and commits *)
(* may exceed the payload limit.  The other runs two steps at once and     *)
(* loses a process, a request or a reply.                                  *)
(***************************************************************************)
EXTENDS WorkflowInstance

VARIABLE scene

TwoSteps == <<{1}, {2}>>
SleepThenDo == <<"sleep", "do">>
Fanout == <<{1, 2}>>
AllDo == <<"do", "do">>

Crashing ==
  INSTANCE WorkflowInstance
    WITH Stages <- Fanout, Kind <- AllDo, RetryLimit <- 1, Oversize <- FALSE, Lease <- 1,
         Workload <- {"create"}, MaxTime <- 2, MaxGeneration <- 1, MaxEvents <- 0, Faults <- 1

MCInit ==
  \/ scene = "sleeping" /\ Init
  \/ scene = "crashing" /\ Crashing!Init

MCNext ==
  \/ scene = "sleeping" /\ Next /\ UNCHANGED scene
  \/ scene = "crashing" /\ Crashing!Next /\ UNCHANGED scene

\* Each scene has the fairness of its own specification; where the other
\* scene runs, its conditions hold trivially.
MCFairness ==
  /\ \A d \in Dispatchers :
       WF_vars(scene = "sleeping" /\ TaskNext(d)) /\ WF_vars(scene = "crashing" /\ Crashing!TaskNext(d))
  /\ \A k \in Tokens :
       WF_vars(scene = "sleeping" /\ RunNext(k)) /\ WF_vars(scene = "crashing" /\ Crashing!RunNext(k))
  /\ \A c \in Callers :
       /\ WF_vars(scene = "sleeping" /\ CallNext(c) /\ call[c].pc # "idle")
       /\ WF_vars(scene = "crashing" /\ Crashing!CallNext(c) /\ call[c].pc # "idle")
  /\ WF_vars(scene = "sleeping" /\ MoveDue) /\ WF_vars(scene = "crashing" /\ Crashing!MoveDue)
  /\ WF_vars(scene = "sleeping" /\ Tick) /\ WF_vars(scene = "crashing" /\ Crashing!Tick)

MCSpec == MCInit /\ [][MCNext]_<<scene, vars>> /\ MCFairness
=============================================================================
