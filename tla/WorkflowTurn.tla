---------------------------- MODULE WorkflowTurn ----------------------------
(***************************************************************************)
(* One dispatch turn of a Workflow in the Runtime: the step controller of  *)
(* runtime/dispatch/workflow-step.js and the outcome that                  *)
(* handleWorkflowRunDispatch of runtime/dispatch.js reports to Workflows.  *)
(*                                                                         *)
(* Step o is the o-th call the tenant makes on the step facade.  Every     *)
(* asynchronous part of a step (replay lookup, backend request, callback)  *)
(* ends in an action of its own, so parts of concurrent steps, the end of  *)
(* run(), a deadline and the settle wait interleave freely.  A "batch"     *)
(* tenant keeps the documented fan-out rule; a "wild" one starts, awaits,  *)
(* catches, returns and throws whenever it likes.                          *)
(***************************************************************************)
EXTENDS Naturals, FiniteSets

CONSTANTS TnMaxActive,   \* MAX_WORKFLOW_ACTIVE_STEPS_PER_RUN_TURN
          TnMaxStarted,  \* MAX_WORKFLOW_STARTED_STEPS_PER_RUN_TURN
          TnWorkloads    \* [style, kind, batch, past, env]: the tenant program
                         \* and the step records earlier turns left behind

ASSUME TnAssumption == /\ TnMaxActive \in Nat \ {0}
                       /\ TnMaxStarted \in Nat \ {0}

VARIABLES tnCase,    \* the chosen workload
          stepRec,   \* the authoritative record of each step in Workflows
          cached,    \* the record of each step in the replay cache
          st,        \* the calls: [ph, deps, ask, answer, why]
          nextCall,  \* the next call of the tenant
          frontier,  \* dependencyFrontier
          fl,        \* [suspended, returned, closed, term, started]
          tnRun,     \* [ph, caught]: the await on run() and what it threw
          outcome    \* what the turn reports

tnWork == TnWorkloads[tnCase]
tnVars == <<tnCase, stepRec, cached, st, nextCall, frontier, fl, tnRun, outcome>>

TnCallSet == DOMAIN tnWork.kind
AtRest == {"new", "ok", "failed"}
NoFlags == [suspended |-> FALSE, returned |-> FALSE, closed |-> FALSE,
            term |-> "none", started |-> 0]
NoCall == [ph |-> "new", deps |-> {}, ask |-> "none", answer |-> "none", why |-> "none"]

TnInit ==
  /\ tnCase \in DOMAIN TnWorkloads
  /\ stepRec = tnWork.past
  /\ cached = [o \in TnCallSet |-> "none"]
  /\ st = [o \in TnCallSet |-> NoCall]
  /\ nextCall = 1
  /\ frontier = {}
  /\ fl = NoFlags
  /\ tnRun = [ph |-> "running", caught |-> "none"]
  /\ outcome = "none"

-----------------------------------------------------------------------------
(* Admission and failure bookkeeping                                        *)

Blocking == {o \in TnCallSet : st[o].ph \notin AtRest}

Remembering(term, why) ==
  IF why \in {"none", "suspended"} \/ (term # "none" /\ (why # "infra" \/ term = "infra"))
  THEN term ELSE why

Admission(o) ==
  IF fl.returned \/ fl.closed \/ fl.suspended \/ \E c \in TnCallSet : st[c].ph = "callback"
  THEN "invalid"
  ELSE IF fl.term # "none" THEN fl.term
  ELSE IF tnWork.kind[o] = "wait" THEN IF Blocking # {} THEN "invalid" ELSE "none"
  ELSE IF \E b \in Blocking : tnWork.kind[b] = "wait" \/ st[b].deps # frontier
  THEN "invalid"
  ELSE IF Cardinality(Blocking) >= TnMaxActive THEN "step" ELSE "none"

\* The promise of step o rejects with `why`; `f` are the flags set before.
StepFails(o, why, f) ==
  /\ st' = [st EXCEPT ![o].ph = "failed", ![o].why = why]
  /\ fl' = [f EXCEPT !.term = IF ~f.returned \/ why = "infra" THEN Remembering(@, why) ELSE @]
  /\ UNCHANGED frontier

StepSuspends(o) == StepFails(o, "suspended", [fl EXCEPT !.suspended = TRUE])

\* Bug: the dependencies of a completed step stay in the frontier.
StepCompletes_KeepsParents(o) ==
  /\ st' = [st EXCEPT ![o].ph = "ok"]
  /\ frontier' = frontier \cup {o}
  /\ UNCHANGED fl

StepCompletes(o) ==
  /\ st' = [st EXCEPT ![o].ph = "ok"]
  /\ frontier' = (frontier \ st[o].deps) \cup {o}
  /\ UNCHANGED fl

\* assertRunStillOpen, reserveStartedStep for a fresh step, and the request.
Ask(o, what, fresh) ==
  IF fl.returned THEN StepFails(o, "invalid", fl)
  ELSE IF fresh /\ fl.started >= TnMaxStarted
  THEN StepFails(o, "step", [fl EXCEPT !.started = @ + 1])
  ELSE /\ st' = [st EXCEPT ![o].ph = "sent", ![o].ask = what]
       /\ fl' = [fl EXCEPT !.started = @ + IF fresh THEN 1 ELSE 0]
       /\ UNCHANGED frontier

Cache(o, what) == cached' = [cached EXCEPT ![o] = what]

-----------------------------------------------------------------------------
(* The tenant program                                                        *)

\* A fan-out is created in one synchronous batch: nothing runs in between.
MidBatch ==
  /\ tnWork.style = "batch" /\ tnRun.ph = "running"
  /\ nextCall \in TnCallSet \ {1} /\ tnWork.batch[nextCall] = tnWork.batch[nextCall - 1]

MayCall ==
  /\ nextCall \in TnCallSet
  /\ \/ tnWork.style = "wild" \/ MidBatch
     \/ /\ tnRun.ph = "running"
        /\ \A o \in 1..(nextCall - 1) : st[o].ph = "ok"

\* nextStepIdentity: the dependencies are the frontier at the call.
Called(o, why) ==
  [NoCall EXCEPT !.ph = IF why = "none" THEN "lookup" ELSE "failed",
                 !.deps = frontier, !.why = why]

\* step.do: a refusal is remembered even after the run returned.
CallDo(o) ==
  /\ tnWork.kind[o] = "do"
  /\ st' = [st EXCEPT ![o] = Called(o, Admission(o))]
  /\ fl' = [fl EXCEPT !.term = Remembering(@, Admission(o))]

\* step.sleep, step.sleepUntil and step.waitForEvent: a refusal is the rejection
\* of a tracked promise.
CallWait(o) ==
  /\ tnWork.kind[o] = "wait"
  /\ st' = [st EXCEPT ![o] = Called(o, Admission(o))]
  /\ fl' = [fl EXCEPT !.term = IF fl.returned THEN @ ELSE Remembering(@, Admission(o))]

CallStep ==
  /\ MayCall
  /\ outcome = "none"
  /\ CallDo(nextCall) \/ CallWait(nextCall)
  /\ nextCall' = nextCall + 1
  /\ UNCHANGED <<tnCase, stepRec, cached, frontier, tnRun, outcome>>

-----------------------------------------------------------------------------
(* A step                                                                    *)

\* fetchReplayStepPage reads the authoritative records of the instance; after
\* the run returned no page is fetched.
ReplayPage(o) == IF fl.returned THEN {} ELSE {stepRec[o]}

\* cachedStep: the page is fetched when the step is not cached; a fetch that
\* fails, or a record of another identity, is a miss.
Replayed(o) == {"none"} \cup IF cached[o] # "none" THEN {cached[o]} ELSE ReplayPage(o)

\* do() up to its claim: a replayed failure is thrown, a wait is claimed again.
LookedUpDo(o, found) ==
  \/ found = "completed" /\ StepCompletes(o)
  \/ found = "failed" /\ StepFails(o, "step", fl)
  \/ found \notin {"completed", "failed"} /\ Ask(o, "claim", TRUE)

\* runSuspendingStep up to its registration.
LookedUpWait(o, found) ==
  \/ found = "completed" /\ StepCompletes(o)
  \/ found # "completed" /\ Ask(o, "register", TRUE)

Lookup(o) ==
  /\ st[o].ph = "lookup" /\ ~MidBatch
  /\ \E found \in Replayed(o) :
       /\ cached' = [cached EXCEPT ![o] = IF found = "none" THEN @ ELSE found]
       /\ IF tnWork.kind[o] = "do" THEN LookedUpDo(o, found) ELSE LookedUpWait(o, found)
  /\ UNCHANGED <<tnCase, stepRec, nextCall, tnRun, outcome>>

\* What Workflows may answer, and the record it then keeps.
Verdicts(o) ==
  IF st[o].ask = "commit" THEN {<<"complete", "completed">>}
  ELSE IF st[o].ask = "error" THEN {<<"waiting", "waiting">>, <<"failed", "failed">>}
  ELSE IF stepRec[o] = "completed" THEN {<<"complete", "completed">>}
  ELSE IF stepRec[o] = "failed" THEN {<<"failed", "failed">>}
  ELSE IF st[o].ask = "register"
  THEN {<<"waiting", "waiting">>}
         \cup IF stepRec[o] = "waiting" THEN {<<"complete", "completed">>} ELSE {}
  ELSE {<<"run", "running">>}
         \cup IF stepRec[o] = "waiting" THEN {<<"waiting", "waiting">>} ELSE {}

\* workflowBackendRequest: the request takes effect and its answer is read, or
\* transport, a 5xx or the deadline hides whether it did, or it is refused.
BackendAnswers(o) ==
  /\ st[o].ph = "sent" /\ ~MidBatch
  /\ \E v \in Verdicts(o), a \in {"verdict"} \cup (tnWork.env \cap {"infra", "refused"}),
        applied \in BOOLEAN :
       /\ a = "verdict" => applied
       /\ a = "refused" => ~applied
       /\ stepRec' = [stepRec EXCEPT ![o] = IF applied THEN v[2] ELSE @]
       /\ st' = [st EXCEPT ![o].ph = "answered",
                           ![o].answer = IF a = "verdict" THEN v[1] ELSE a]
  /\ UNCHANGED <<tnCase, cached, nextCall, frontier, fl, tnRun, outcome>>

\* Transport errors, retryable statuses and retryable codes are infrastructure,
\* everything else is an error of the step.
FailureOf(a) == IF a = "infra" THEN "infra" ELSE "step"

\* A claim, a registration and a commit that were answered.
Concludes(o, a) ==
  \/ a = "complete" /\ Cache(o, "completed") /\ StepCompletes(o)
  \/ a = "waiting" /\ Cache(o, "waiting") /\ StepSuspends(o)
  \/ a = "failed" /\ Cache(o, "failed") /\ StepFails(o, "step", fl)

\* do() after claim-step: the run must still be open.
ContinueClaim(o, a) ==
  /\ st[o].ask = "claim"
  /\ IF fl.returned THEN StepFails(o, "invalid", fl) /\ UNCHANGED cached
     ELSE \/ Concludes(o, a)
          \/ /\ a = "run"
             /\ st' = [st EXCEPT ![o].ph = "callback"]
             /\ UNCHANGED <<cached, fl, frontier>>

\* runSuspendingStep after its registration.
ContinueWait(o, a) ==
  /\ st[o].ask = "register"
  /\ IF fl.returned THEN StepFails(o, "invalid", fl) /\ UNCHANGED cached
     ELSE IF a = "failed" THEN StepFails(o, "infra", fl) /\ UNCHANGED cached
     ELSE Concludes(o, a)

\* A commit is taken over even when the run has returned meanwhile.
ContinueCommit(o, a) == st[o].ask \in {"commit", "error"} /\ Concludes(o, a)

Continue(o) ==
  /\ st[o].ph = "answered" /\ ~MidBatch
  /\ LET a == st[o].answer
     IN IF a \in {"infra", "refused"} THEN StepFails(o, FailureOf(a), fl) /\ UNCHANGED cached
        ELSE ContinueClaim(o, a) \/ ContinueWait(o, a) \/ ContinueCommit(o, a)
  /\ UNCHANGED <<tnCase, stepRec, nextCall, tnRun, outcome>>

CallbackReturns(o) ==
  /\ st[o].ph = "callback" /\ ~MidBatch
  /\ Ask(o, "commit", FALSE)
  /\ UNCHANGED <<tnCase, stepRec, cached, nextCall, tnRun, outcome>>

\* A callback that throws: a reported KV failure is infrastructure.
CallbackThrows(o) ==
  /\ st[o].ph = "callback" /\ ~MidBatch
  /\ \/ "kv" \in tnWork.env /\ StepFails(o, "infra", fl)
     \/ "throw" \in tnWork.env /\ Ask(o, "error", FALSE)
  /\ UNCHANGED <<tnCase, stepRec, cached, nextCall, tnRun, outcome>>

-----------------------------------------------------------------------------
(* handleWorkflowRunDispatch                                                 *)

Report(what) == tnRun' = [tnRun EXCEPT !.ph = "over"] /\ outcome' = what

\* The end of the catch block; `late` is a deadline that has passed by then.
Concluded(caught, late) ==
  LET c == IF late THEN "infra" ELSE caught
      d == IF fl.term = "infra" \/ (fl.term # "none" /\ c # "infra") THEN fl.term ELSE c
  IN IF d = "infra" THEN "retry"
     ELSE IF d = "suspended" /\ fl.suspended THEN "suspended"
     ELSE IF d = "invalid" THEN "invalid" ELSE "failed"

Lateness == {FALSE} \cup IF "deadline" \in tnWork.env THEN {TRUE} ELSE {}

\* The catch block: siblings in flight are waited for; a suspension or the
\* failure of a tracked step leaves them open until they settle.
Catch(why) ==
  IF Blocking # {}
  THEN /\ fl' = [fl EXCEPT !.closed = TRUE,
                           !.returned = @ \/ why \notin {"step", "suspended", "infra"}]
       /\ tnRun' = [ph |-> "settling", caught |-> why]
       /\ UNCHANGED outcome
  ELSE /\ \E late \in Lateness : Report(Concluded(why, late))
       /\ fl' = [fl EXCEPT !.returned = TRUE, !.closed = TRUE]

\* Bug: run() returning is a success whatever its steps are doing.
RunReturns_Unawaited ==
  /\ tnRun.ph = "running" /\ ~MidBatch
  /\ tnWork.style = "wild" \/ \A o \in TnCallSet : st[o].ph = "ok"
  /\ IF fl.term # "none" THEN Catch(fl.term)
     ELSE IF fl.suspended THEN Catch("invalid")
     ELSE Report("completed") /\ fl' = [fl EXCEPT !.returned = TRUE, !.closed = TRUE]
  /\ UNCHANGED <<tnCase, stepRec, cached, st, nextCall, frontier>>

\* run() returned: closeForRunReturn and the checks after it.
RunReturns ==
  /\ tnRun.ph = "running" /\ ~MidBatch
  /\ tnWork.style = "wild" \/ \A o \in TnCallSet : st[o].ph = "ok"
  /\ IF Blocking # {}
     THEN /\ fl' = [fl EXCEPT !.returned = TRUE, !.closed = TRUE]
          /\ tnRun' = [ph |-> "settling", caught |-> "invalid"]
          /\ UNCHANGED outcome
     ELSE IF fl.term # "none" THEN Catch(fl.term)
     ELSE IF fl.suspended THEN Catch("invalid")
     ELSE /\ \E late \in Lateness : Report(IF late THEN "retry" ELSE "completed")
          /\ fl' = [fl EXCEPT !.returned = TRUE, !.closed = TRUE]
  /\ UNCHANGED <<tnCase, stepRec, cached, st, nextCall, frontier>>

\* run() threw: the rejection of a step it awaited or an error of its own.
RunThrows ==
  /\ tnRun.ph = "running" /\ ~MidBatch
  /\ \/ \E o \in TnCallSet : st[o].ph = "failed" /\ Catch(st[o].why)
     \/ tnWork.style = "wild" /\ Catch("tenant")
  /\ UNCHANGED <<tnCase, stepRec, cached, st, nextCall, frontier>>

\* runWorkflowBeforeDeadline rejects before run() did.
DeadlinePasses ==
  /\ tnRun.ph = "running" /\ ~MidBatch /\ "deadline" \in tnWork.env
  /\ Blocking # {}
  /\ fl' = [fl EXCEPT !.returned = TRUE, !.closed = TRUE]
  /\ Report("retry")
  /\ UNCHANGED <<tnCase, stepRec, cached, st, nextCall, frontier>>

\* waitForInFlightSteps ended: everything settled, or the budget is used up.
SiblingsSettle ==
  /\ tnRun.ph = "settling"
  /\ \/ Blocking = {} /\ \E late \in Lateness : Report(Concluded(tnRun.caught, late))
     \/ "deadline" \in tnWork.env /\ Report("retry")
  /\ fl' = [fl EXCEPT !.returned = TRUE, !.closed = TRUE]
  /\ UNCHANGED <<tnCase, stepRec, cached, st, nextCall, frontier>>

TnNext ==
  \/ CallStep \/ RunReturns \/ RunThrows \/ DeadlinePasses \/ SiblingsSettle
  \/ \E o \in TnCallSet : Lookup(o) \/ BackendAnswers(o) \/ Continue(o)
                      \/ CallbackReturns(o) \/ CallbackThrows(o)

TnSpec == TnInit /\ [][TnNext]_tnVars

-----------------------------------------------------------------------------
(* Properties                                                                *)

\* A turn reports "completed" only when every step it started is durably
\* completed in Workflows (RunReturns, dispatch.js): nothing is in flight, no
\* wait is registered, and no permanent failure was swallowed by the tenant.
CompletedTurnIsDurable ==
  outcome = "completed" => \A o \in 1..(nextCall - 1) : stepRec[o] = "completed"

\* A turn reports "suspended" only when some step waits durably, so that a due
\* time or an event wakes the instance, and no request is left in flight that
\* could land in the next turn (the settle wait of the catch block).
SuspendedTurnCanWake ==
  outcome = "suspended" =>
    /\ \E o \in TnCallSet : stepRec[o] = "waiting"
    /\ \A o \in TnCallSet : st[o].ph \notin {"sent", "callback"}

\* An infrastructure failure that a step met before the turn was reported is
\* never turned into a result of the Workflow, whatever the tenant caught and
\* whichever error came first (rememberTerminalStepFailure).
InfraIsRetried ==
  (\E o \in TnCallSet : st[o].why = "infra") /\ outcome # "none" =>
    outcome = "retry"

\* A program that keeps the documented fan-out rule is never failed as invalid,
\* and every turn gives its steps the same dependencies, those of the batch
\* before, whether earlier steps ran, were claimed or were replayed.
BatchGraphStable ==
  tnWork.style = "batch" =>
    /\ outcome # "invalid"
    /\ \A o \in TnCallSet : st[o].ph # "new" /\ st[o].why # "invalid" =>
         st[o].deps = {p \in TnCallSet : tnWork.batch[p] + 1 = tnWork.batch[o]}

\* A completion or failure in the replay cache is the authoritative record, so
\* that a later turn never skips a step whose result Workflows does not hold.
CacheIsTrue ==
  \A o \in TnCallSet : cached[o] \in {"completed", "failed"} => stepRec[o] = cached[o]

\* After the turn was reported no step sends another request: the next turn's
\* run never meets a step of this one that is still being started.
QuietAfterReport ==
  [][outcome # "none" => \A o \in TnCallSet : st'[o].ph = "sent" => st[o].ph = "sent"]_tnVars

\* What a turn reports is what Workflows holds, whatever the tenant caught, and
\* no request of the turn is sent after the report (dispatch.js, workflow step).
OutcomeTrue ==
  /\ [](CompletedTurnIsDurable /\ SuspendedTurnCanWake /\ InfraIsRetried)
  /\ QuietAfterReport

\* Every replay gives the steps the same dependencies and believes only records
\* that Workflows holds, so the turns of one instance agree.
ReplayTrue ==
  /\ BatchGraphStable
  /\ CacheIsTrue

=============================================================================
