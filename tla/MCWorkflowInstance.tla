------------------------- MODULE MCWorkflowInstance -------------------------
(* Programs of the two runs that end in a counterexample, WfSleepLost and  *)
(* WfSiblings.                                                             *)
EXTENDS WorkflowInstance

\* The stages of a program ...
OneStep == <<{1}>>
Fanout == <<{1, 2}>>

\* ... and the kinds of its steps.
AllDo == [o \in Ordinals |-> "do"]
AllSleep == [o \in Ordinals |-> "sleep"]

=============================================================================
