-------------------------- MODULE WorkflowInvariant --------------------------
(***************************************************************************)
(* The inductive invariants of WorkflowInstance.  Lifecycle is about the   *)
(* instance's hash, its indexes and the operations that fence on what they *)
(* read; Progress is about the steps, the events and the run that holds    *)
(* the claim.                                                              *)
(***************************************************************************)
EXTENDS WorkflowInstance

-----------------------------------------------------------------------------
(* Lifecycle *)

\* Nothing is stamped with a time to come.
ClocksBehind ==
  /\ inst.createdAtMs <= now /\ cleaner.at <= now
  /\ \A c \in Callers : call[c].createdAt <= now

\* A terminal instance is kept for its retention, up to the lag of a clock.
RetentionLasts ==
  IsTerminal(inst) => inst.retentionExpires + ClockLag >= inst.createdAtMs + Retention

\* An operation that read a public instance either still finds one of that
\* creation time, or no create under way can come to have it.
Visible(i) == i.status \notin {"missing", "pending_create"}
ReadPublic(i, t, id) ==
  \/ Visible(i) /\ i.createdAtMs = id.createdAtMs
  \/ /\ t > id.createdAtMs + CreateWait /\ t > id.createdAtMs + ClockLag
     /\ ~(i.status = "pending_create" /\ i.createdAtMs = id.createdAtMs)
ScriptsRead ==
  \A c \in Callers : call[c].pc = "script" => ReadPublic(inst, now, call[c].id)

\* A task that claims goes back to a status it may claim from, and holds a
\* token from the claim on.
HoldsToken == {"wait", "release", "clear", "completed", "failed", "suspended", "commit", "fail"}
TasksShaped ==
  \A d \in Dispatchers :
    /\ disp[d].pc \in HoldsToken => disp[d].token # 0
    /\ disp[d].pc \in HoldsToken \cup {"claim"} => disp[d].prev \in {"queued", "waiting"}

\* What the cleaner removes without deleting was not terminal when read.
CleanerShaped == cleaner.pc = "remove" => cleaner.status \notin Terminal

Lifecycle ==
  /\ TypeOK /\ HintsMatchStatus /\ RetentionIndexed /\ ClocksBehind /\ RetentionLasts
  /\ ScriptsRead /\ TasksShaped /\ CleanerShaped

-----------------------------------------------------------------------------
(* Progress *)

DoPhases == {"restore", "exec", "ok", "err", "fatal"}
WaitPhases == {"find", "findLate", "refind"}
RecordPhases == {"register", "take"}
Working == DoPhases \cup WaitPhases \cup RecordPhases
Busy == ServicePhases \cup {"exec"}

\* Only steps of its kind go through a phase.
KindFits(phase, o) ==
  /\ phase \in DoPhases => Kind[o] = "do"
  /\ phase \in WaitPhases => Kind[o] = "wait"
  /\ phase \in RecordPhases => Kind[o] # "do"

\* The stages of an open run are started in order; whatever became of a run,
\* steps of two stages are never under way at once.
StagesInOrder(r) ==
  \A i, j \in DOMAIN Stages : \A o \in Stages[i], u \in Stages[j] :
    /\ r.open /\ i < j /\ r.phase[u] # "idle" => r.phase[o] = "done"
    /\ i # j => ~(r.phase[o] \in Busy /\ r.phase[u] \in Busy)
RunShaped(r) == StagesInOrder(r) /\ \A o \in Ordinals : KindFits(r.phase[o], o)
RunsShaped == \A k \in Tokens : RunShaped(run[k])

\* A record counts its attempts, and one that is not final can go on.
RecordFits(rec, o) ==
  /\ 0 <= rec.attempt /\ rec.attempt <= RetryLimit
  /\ Kind[o] # "do" => rec.attempt <= 1
  /\ rec.status \in {"none", "waiting"} =>
       rec.event = 0 /\ (Kind[o] = "do" => rec.attempt < RetryLimit)
RecordsFit == \A o \in Ordinals : RecordFits(steps[o], o)

AllDone == \A o \in Ordinals : steps[o].status = "completed"

\* What the run with the claim knows of a step is what is recorded of it, and
\* the event a wait is about to take is the oldest one buffered.
StepLive(phase, arg, rec, buffered, o) ==
  /\ phase = "done" => rec.status = "completed"
  /\ phase \in Working => rec.status \in {"none", "waiting"}
  /\ phase \in {"exec", "ok", "err", "fatal"} => arg = rec.attempt + 1
  /\ phase = "take" /\ arg # 0 =>
       Kind[o] = "wait" /\ arg \in buffered /\ \A m \in buffered : arg <= m
LiveRun ==
  \A k \in Tokens : k = inst.runToken =>
    /\ run[k].generation = inst.generation
    /\ run[k].outcome = "completed" => AllDone
    /\ \A o \in Ordinals :
         StepLive(run[k].phase[o], run[k].arg[o], steps[o], Buffered, o)

\* A task about to commit a completion for the run with the claim is right.
CommitsTrue ==
  \A d \in Dispatchers :
    disp[d].pc \in {"completed", "commit"} /\ disp[d].token = inst.runToken => AllDone

Progress ==
  /\ RunsShaped /\ RecordsFit /\ LiveRun /\ CommitsTrue
  /\ CompletedMeansDone /\ EventDelivery
=============================================================================
