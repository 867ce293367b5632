---------------------- MODULE WorkflowLifecycleProofs ----------------------
(***************************************************************************)
(* Lifecycle is an inductive invariant of WorkflowInstance, for any        *)
(* program, callers, dispatch tasks and durations.  From it follow that    *)
(* the indexes agree with the status, and that what a caller stopped or    *)
(* can see stays as promised.  The second layer, Progress, begins here:    *)
(* callers, dispatch tasks and the cleaner keep it.                        *)
(***************************************************************************)
EXTENDS WorkflowRequestProofs

-----------------------------------------------------------------------------
(* Runs. *)

\* find_buffered_event finds the oldest buffered event.
LEMMA NextEventLeast ==
  ASSUME events \in Seq(EventRecord), Buffered # {}
  PROVE NextEvent \in Buffered /\ NextEvent \in Nat /\ \A m \in Buffered : NextEvent <= m
<1>1. Buffered \in SUBSET Nat
  BY DEF Buffered
<1>2. \E n \in Buffered : \A m \in Buffered : n <= m
  BY <1>1, LeastMember
<1> HIDE DEF Buffered
<1> QED BY <1>1, <1>2, Zenon DEF NextEvent

\* A step of a run leaves a run.
LEMMA AdvanceTyped ==
  ASSUME run \in [Tokens -> RunRecord], NEW k \in Tokens, NEW o \in Ordinals,
         NEW phase \in Phases, NEW arg \in Int, Advance(k, o, phase, arg)
  PROVE run' \in [Tokens -> RunRecord]
<1> DEFINE p == IF run[k].open \/ phase \in ServicePhases THEN phase ELSE "idle"
           a == IF run[k].open \/ phase \in ServicePhases THEN arg ELSE 0
           r == [run[k] EXCEPT !.phase[o] = p, !.arg[o] = a]
<1>1. p \in Phases /\ a \in Int
  BY DEF Phases
<1>2. run' = [run EXCEPT ![k] = r]
  BY Zenon DEF Advance
<1> HIDE DEF p, a
<1>3. r \in RunRecord
  BY <1>1, Zenon DEF RunRecord
<1> HIDE DEF r
<1> QED BY <1>2, <1>3

\* A step of a run keeps the invariant if what it leaves of the Redis state does.
LEMMA RunKeeps ==
  ASSUME Lifecycle, UNCHANGED <<now, call, disp, cleaner, claims, creates>>, faults' \in Nat,
         run' \in [Tokens -> RunRecord],
         RedisTypeOK', HintsMatchStatus', RetentionIndexed', RetentionLasts',
         inst' = inst \/ (Visible(inst) /\ Visible(inst') /\ inst'.createdAtMs = inst.createdAtMs)
  PROVE Lifecycle' /\ PublicStep
<1>1. TypeOK'
  BY DEF Lifecycle, TypeOK
<1>2. TasksShaped'
  BY DEF Lifecycle, TasksShaped
<1> QED BY <1>1, <1>2, TaskFrame

\* A step of a run that leaves Redis alone.
LEMMA RunQuiet ==
  ASSUME Lifecycle, UNCHANGED <<now, call, disp, cleaner, claims, creates>>, faults' \in Nat,
         run' \in [Tokens -> RunRecord], UNCHANGED redisVars
  PROVE LifeStep
<1>1. UNCHANGED <<inst, steps, events, ready, active, due, retention>>
  BY DEF redisVars
<1>2. RedisTypeOK'
  BY <1>1 DEF Lifecycle, TypeOK, RedisTypeOK
<1>3. HintsMatchStatus' /\ RetentionIndexed' /\ RetentionLasts'
  BY <1>1 DEF Lifecycle, HintsMatchStatus, RetentionIndexed, RetentionLasts, IsTerminal
<1>4. Lifecycle' /\ PublicStep
  BY <1>1, <1>2, <1>3, RunKeeps
<1>5. StoppedStep
  BY <1>1 DEF StoppedStep
<1> QED BY <1>4, <1>5 DEF LifeStep

\* A script of a step that has the claim finds and leaves an active instance.
LEMMA RunActive ==
  ASSUME Lifecycle, RunStep, run' \in [Tokens -> RunRecord], retention' = retention,
         inst.status \in {"running", "waiting"}, inst' \in InstRecord,
         inst'.status \in {"running", "waiting"}, inst'.runToken = inst.runToken,
         inst'.createdAtMs = inst.createdAtMs,
         steps' \in [Ordinals -> StepRecord], events' \in Seq(EventRecord),
         ready' \in BOOLEAN, active' \in BOOLEAN, ready' => active', due' \in Int
  PROVE LifeStep
<1>1. UNCHANGED <<now, call, disp, cleaner, claims, creates>> /\ faults' \in Nat
  BY DEF RunStep, counters, Lifecycle, TypeOK
<1>2. RedisTypeOK'
  BY <1>1 DEF Lifecycle, TypeOK, RedisTypeOK
<1>3. HintsMatchStatus' /\ RetentionIndexed' /\ RetentionLasts'
  BY DEF Lifecycle, HintsMatchStatus, RetentionIndexed, RetentionLasts, IsTerminal, Terminal
<1>4. Visible(inst) /\ Visible(inst')
  BY DEF Visible
<1>5. Lifecycle' /\ PublicStep
  BY <1>1, <1>2, <1>3, <1>4, RunKeeps
<1>6. StoppedStep
  BY DEF StoppedStep, Terminal
<1> QED BY <1>5, <1>6 DEF LifeStep

\* What the steps of a run start from.
LEMMA RunFields ==
  ASSUME Lifecycle, NEW k \in Tokens, NEW o \in Ordinals
  PROVE /\ run \in [Tokens -> RunRecord] /\ run[k].arg[o] \in Int /\ run[k].phase[o] \in Phases
        /\ inst \in InstRecord /\ steps \in [Ordinals -> StepRecord] /\ events \in Seq(EventRecord)
        /\ steps[o].attempt \in Int /\ steps[o].due \in Int /\ now \in Nat
        /\ ready \in BOOLEAN /\ active \in BOOLEAN /\ (ready => active) /\ due \in Int
<1>1. /\ run \in [Tokens -> RunRecord] /\ inst \in InstRecord /\ now \in Nat
      /\ steps \in [Ordinals -> StepRecord] /\ events \in Seq(EventRecord)
      /\ ready \in BOOLEAN /\ active \in BOOLEAN /\ due \in Int
  BY Numbers DEF Lifecycle, TypeOK, RedisTypeOK
<1>2. run[k] \in RunRecord /\ steps[o] \in StepRecord
  BY <1>1
<1>3. run[k].arg[o] \in Int /\ run[k].phase[o] \in Phases
  BY <1>2, ZenonT(40) DEF RunRecord
<1>4. steps[o].attempt \in Int /\ steps[o].due \in Int
  BY <1>2, Zenon DEF StepRecord
<1>5. ready => active
  BY DEF Lifecycle, HintsMatchStatus
<1> QED BY <1>1, <1>3, <1>4, <1>5, Zenon

\* A step of a run that only advances.
LEMMA LifeAdvance ==
  ASSUME Lifecycle, NEW k \in Tokens, NEW o \in Ordinals, NEW phase \in Phases, NEW arg \in Int,
         Advance(k, o, phase, arg), RunStep, UNCHANGED redisVars
  PROVE LifeStep
<1>1. UNCHANGED <<now, call, disp, cleaner, claims, creates>> /\ faults' \in Nat
  BY DEF RunStep, counters, Lifecycle, TypeOK
<1> QED BY <1>1, RunFields, AdvanceTyped, RunQuiet

\* The program starts a stage.
LEMMA LifeStartStage ==
  ASSUME Lifecycle, NEW k \in Tokens, StartStage(k) PROVE LifeStep
<1>1. PICK i \in DOMAIN Stages :
        run' = [run EXCEPT
          ![k].phase = [o \in Ordinals |-> IF o \in Stages[i] THEN "sent" ELSE @[o]],
          ![k].arg = [o \in Ordinals |-> IF o \in Stages[i] THEN DueOf(o) ELSE @[o]]]
  BY DEF StartStage
<1>2. /\ UNCHANGED <<now, call, disp, cleaner, claims, creates>> /\ faults' \in Nat
      /\ UNCHANGED redisVars /\ run \in [Tokens -> RunRecord] /\ now \in Nat
  BY Numbers DEF StartStage, RunStep, counters, Lifecycle, TypeOK
<1>3. \A o \in Ordinals : DueOf(o) \in Int
  <2>1. SleepFor \in Nat /\ WaitTimeout \in Nat /\ MaxTime \in Nat
    BY WorkflowAssumption
  <2>2. Horizon(now + SleepFor) \in Int /\ Horizon(now + WaitTimeout) \in Int
    BY <1>2, <2>1 DEF Horizon
  <2> TAKE o \in Ordinals
  <2>3. DueOf(o) \in {Horizon(now + SleepFor), Horizon(now + WaitTimeout), 0}
    BY Zenon DEF DueOf
  <2> QED BY <2>2, <2>3
<1>4. run' \in [Tokens -> RunRecord]
  <2> DEFINE r == [run[k] EXCEPT
            !.phase = [o \in Ordinals |-> IF o \in Stages[i] THEN "sent" ELSE run[k].phase[o]],
            !.arg = [o \in Ordinals |-> IF o \in Stages[i] THEN DueOf(o) ELSE run[k].arg[o]]]
  <2>1. run' = [run EXCEPT ![k] = r]
    BY <1>1, Zenon
  <2>2. run[k] \in RunRecord
    BY <1>2
  <2>3. r \in RunRecord
    BY <1>3, <2>2, Zenon DEF RunRecord, Phases, ServicePhases
  <2> HIDE DEF r
  <2> QED BY <1>2, <2>1, <2>3
<1> QED BY <1>2, <1>4, RunQuiet

\* The read of a step's record and what follows from it.
LEMMA LifeReadStep ==
  ASSUME Lifecycle, NEW k \in Tokens, NEW o \in Ordinals, ReadStep(k, o) PROVE LifeStep
<1>1. RunStep /\ UNCHANGED redisVars
  BY DEF ReadStep
<1>2. \E phase \in Phases, arg \in Int : Advance(k, o, phase, arg)
  <2>1. PICK t \in Times :
        LET rec == steps[o]
            at == IF rec.status = "none" THEN run[k].arg[o] ELSE rec.due
        IN  CASE ~StepFence(k, t) \/ rec.status = "failed" -> Advance(k, o, "fail", 0)
              [] StepFence(k, t) /\ rec.status = "completed" -> Advance(k, o, "done", 0)
              [] OTHER ->
                   CASE Kind[o] = "wait" ->
                          Advance(k, o, IF at # 0 /\ at <= t THEN "findLate" ELSE "find", at)
                     [] Kind[o] = "sleep" ->
                          Advance(k, o, IF at > t THEN "register" ELSE "take",
                                  IF at > t THEN at ELSE 0)
                     [] Kind[o] = "do" /\ rec.status = "waiting" /\ at > t ->
                          Advance(k, o, "restore", at)
                     [] OTHER -> Advance(k, o, "exec", rec.attempt + 1)
    BY DEF ReadStep
  <2> DEFINE at == IF steps[o].status = "none" THEN run[k].arg[o] ELSE steps[o].due
  <2>2. at \in Int /\ steps[o].attempt + 1 \in Int
    BY RunFields
  <2>3. {"fail", "done", "findLate", "find", "register", "take", "restore", "exec"} \subseteq Phases
    BY DEF Phases, ServicePhases, Settled
  <2>4. \/ Advance(k, o, "fail", 0) \/ Advance(k, o, "done", 0)
        \/ Advance(k, o, "findLate", at) \/ Advance(k, o, "find", at)
        \/ Advance(k, o, "register", at) \/ Advance(k, o, "take", 0)
        \/ Advance(k, o, "restore", at) \/ Advance(k, o, "exec", steps[o].attempt + 1)
    BY <2>1, Zenon
  <2> HIDE DEF at
  <2> QED BY <2>2, <2>3, <2>4
<1> QED BY <1>1, <1>2, LifeAdvance

\* RESTORE_WAITING_DUE.
LEMMA LifeRestoreWaitingDue ==
  ASSUME Lifecycle, NEW k \in Tokens, NEW o \in Ordinals, RestoreWaitingDue(k, o) PROVE LifeStep
<1>1. RunStep /\ UNCHANGED <<steps, events, retention>>
  BY DEF RestoreWaitingDue
<1>2. {"susp", "fail"} \subseteq Phases
  BY DEF Phases, Settled
<1>3. CASE UNCHANGED <<inst, ready, active, due>>
           /\ \E phase \in {"susp", "fail"} : Advance(k, o, phase, 0)
  BY <1>1, <1>2, <1>3, LifeAdvance DEF redisVars
<1>4. CASE /\ inst.status = "running" /\ inst' = [inst EXCEPT !.status = "waiting"]
           /\ due' = run[k].arg[o] /\ RemoveReady /\ Advance(k, o, "susp", 0)
  <2>1. run' \in [Tokens -> RunRecord]
    BY <1>2, <1>4, RunFields, AdvanceTyped
  <2>2. /\ inst' \in InstRecord /\ inst'.status = "waiting" /\ inst'.runToken = inst.runToken
        /\ inst'.createdAtMs = inst.createdAtMs
    BY <1>4, RunFields DEF InstRecord, Statuses
  <2> QED BY <1>1, <1>4, <2>1, <2>2, RunFields, RunActive, ZenonT(30) DEF RemoveReady
<1> QED BY <1>3, <1>4 DEF RestoreWaitingDue

\* The callback of a step.
LEMMA LifeExecute ==
  ASSUME Lifecycle, NEW k \in Tokens, NEW o \in Ordinals, Execute(k, o) PROVE LifeStep
<1>1. {"ok", "err", "fatal"} \subseteq Phases
  BY DEF Phases, ServicePhases
<1> QED BY <1>1, RunFields, LifeAdvance DEF Execute

\* COMMIT_STEP_SUCCESS.
LEMMA LifeCommitStepSuccess ==
  ASSUME Lifecycle, NEW k \in Tokens, NEW o \in Ordinals, CommitStepSuccess(k, o) PROVE LifeStep
<1>1. RunStep /\ UNCHANGED <<inst, events, ready, active, due, retention>>
  BY DEF CommitStepSuccess
<1>2. {"done", "fail"} \subseteq Phases
  BY DEF Phases, Settled
<1>3. CASE UNCHANGED steps /\ Advance(k, o, "fail", 0)
  BY <1>1, <1>2, <1>3, LifeAdvance DEF redisVars
<1>4. CASE /\ inst.status \in {"running", "waiting"} /\ Advance(k, o, "done", 0)
           /\ steps' = [steps EXCEPT ![o] =
                          [NoStep EXCEPT !.status = "completed", !.attempt = run[k].arg[o]]]
  <2>1. run' \in [Tokens -> RunRecord]
    BY <1>2, <1>4, RunFields, AdvanceTyped
  <2>2. [NoStep EXCEPT !.status = "completed", !.attempt = run[k].arg[o]] \in StepRecord
    <3>1. NoStep \in StepRecord /\ run[k].arg[o] \in Int
      BY RunFields DEF NoStep, StepRecord
    <3> QED BY <3>1, Zenon DEF StepRecord
  <2>3. steps' \in [Ordinals -> StepRecord]
    BY <1>4, <2>2, RunFields
  <2> QED BY <1>1, <1>4, <2>1, <2>3, RunFields, RunActive
<1> QED BY <1>3, <1>4 DEF CommitStepSuccess, StepFence

\* The delay before a retry is a number.
LEMMA RetryDueInt ==
  ASSUME NEW t \in Int, NEW attempt \in Int
  PROVE RetryDue(t, attempt) \in Int
<1>1. RetryDelay \in Nat /\ MaxTime \in Nat /\ Backoff \in {"constant", "linear", "exponential"}
  BY WorkflowAssumption
<1> DEFINE e == IF attempt > 21 THEN 20 ELSE attempt - 1
           f == CASE Backoff = "constant" -> 1
                  [] Backoff = "linear" -> attempt
                  [] Backoff = "exponential" -> 2 ^ e
<1>2. e \in Int
  OBVIOUS
<1> HIDE DEF e
<1>3. 2 ^ e \in Int
  BY <1>2
<1>4. f \in Int
  BY <1>1, <1>3
<1>5. RetryDue(t, attempt) = Horizon(t + RetryDelay * f)
  BY DEF RetryDue, e
<1> HIDE DEF f
<1>6. t + RetryDelay * f \in Int
  BY <1>1, <1>4
<1> QED BY <1>1, <1>5, <1>6 DEF Horizon

\* COMMIT_STEP_ERROR.
LEMMA LifeCommitStepError ==
  ASSUME Lifecycle, NEW k \in Tokens, NEW o \in Ordinals, CommitStepError(k, o) PROVE LifeStep
<1>1. RunStep /\ UNCHANGED <<events, retention>>
  BY DEF CommitStepError
<1>2. {"susp", "fail"} \subseteq Phases
  BY DEF Phases, Settled
<1>3. CASE Advance(k, o, "fail", 0) /\ UNCHANGED <<inst, steps, ready, active, due>>
  BY <1>1, <1>2, <1>3, LifeAdvance DEF redisVars
<1>4. CASE \E retryAt \in Int, status \in {"failed", "waiting"} :
             /\ inst.status \in {"running", "waiting"}
             /\ steps' = [steps EXCEPT ![o] = [NoStep EXCEPT !.status = status,
                                                 !.attempt = run[k].arg[o], !.due = retryAt]]
             /\ \/ UNCHANGED <<inst, ready, active, due>>
                \/ inst' = [inst EXCEPT !.status = "waiting"] /\ due' = retryAt /\ RemoveReady
             /\ \E phase \in {"susp", "fail"} : Advance(k, o, phase, 0)
  <2>1. PICK retryAt \in Int, status \in {"failed", "waiting"} :
             /\ inst.status \in {"running", "waiting"}
             /\ steps' = [steps EXCEPT ![o] = [NoStep EXCEPT !.status = status,
                                                 !.attempt = run[k].arg[o], !.due = retryAt]]
             /\ \/ UNCHANGED <<inst, ready, active, due>>
                \/ inst' = [inst EXCEPT !.status = "waiting"] /\ due' = retryAt /\ RemoveReady
             /\ \E phase \in {"susp", "fail"} : Advance(k, o, phase, 0)
    BY <1>4, Zenon
  <2>2. run' \in [Tokens -> RunRecord]
    BY <1>2, <2>1, RunFields, AdvanceTyped
  <2>3. [NoStep EXCEPT !.status = status, !.attempt = run[k].arg[o], !.due = retryAt] \in StepRecord
    <3>1. NoStep \in StepRecord /\ run[k].arg[o] \in Int
      BY RunFields DEF NoStep, StepRecord
    <3> QED BY <3>1, Zenon DEF StepRecord
  <2>4. steps' \in [Ordinals -> StepRecord]
    BY <2>1, <2>3, RunFields
  <2>5. /\ inst' \in InstRecord /\ inst'.status \in {"running", "waiting"}
        /\ inst'.runToken = inst.runToken /\ inst'.createdAtMs = inst.createdAtMs
    BY <2>1, RunFields, SMTT(30) DEF InstRecord, Statuses
  <2>6. ready' \in BOOLEAN /\ active' \in BOOLEAN /\ (ready' => active') /\ due' \in Int
    <3>1. ready \in BOOLEAN /\ active \in BOOLEAN /\ (ready => active) /\ due \in Int
      BY RunFields
    <3>2. RemoveReady \/ UNCHANGED <<ready, active>>
      BY <2>1
    <3>3. due' \in Int
      BY <2>1, <3>1
    <3> QED BY <3>1, <3>2, <3>3, RemoveTyped
  <2>7. events' \in Seq(EventRecord)
    BY <1>1, RunFields
  <2> QED BY <1>1, <2>1, <2>2, <2>4, <2>5, <2>6, <2>7, RunActive, SMTT(30)
<1>5. QED
  <2>1. PICK t \in Times :
        LET attempt == run[k].arg[o]
            last == run[k].phase[o] = "fatal" \/ Exhausted(attempt)
            retryAt == IF last THEN 0 ELSE RetryDue(t, attempt)
        IN  \/ /\ StepFence(k, t)
               /\ steps' = [steps EXCEPT ![o] =
                    [NoStep EXCEPT !.status = IF last THEN "failed" ELSE "waiting",
                                   !.attempt = attempt, !.due = retryAt]]
               /\ IF last
                  THEN UNCHANGED <<inst, ready, active, due>>
                  ELSE /\ inst' = [inst EXCEPT !.status = "waiting"]
                       /\ due' = retryAt /\ RemoveReady
               /\ Advance(k, o, IF last THEN "fail" ELSE "susp", 0)
            \/ /\ ~StepFence(k, t) \/ Oversize
               /\ Advance(k, o, "fail", 0)
               /\ UNCHANGED <<inst, steps, ready, active, due>>
    BY Zenon DEF CommitStepError
  <2> DEFINE last == run[k].phase[o] = "fatal" \/ Exhausted(run[k].arg[o])
             retryAt == IF last THEN 0 ELSE RetryDue(t, run[k].arg[o])
  <2>2. retryAt \in Int
    <3>1. t \in Int /\ run[k].arg[o] \in Int
      BY RunFields, TimesBelow
    <3>2. RetryDue(t, run[k].arg[o]) \in Int
      BY <3>1, RetryDueInt, Zenon
    <3> QED BY <3>2
  <2>3. StepFence(k, t) => inst.status \in {"running", "waiting"}
    BY DEF StepFence
  <2> QED BY <1>3, <1>4, <2>1, <2>2, <2>3, ZenonT(40)

\* The event a wait takes is marked in place; the list keeps its length.
LEMMA MarkTyped ==
  ASSUME NEW es \in Seq(EventRecord), NEW n \in Int, NEW o \in Ordinals
  PROVE /\ [es EXCEPT ![n].by = o] \in Seq(EventRecord)
        /\ DOMAIN [es EXCEPT ![n].by = o] = DOMAIN es
<1>1. CASE n \in 1..Len(es)
  <2> DEFINE e == [es[n] EXCEPT !.by = o]
  <2>1. es[n] \in EventRecord
    BY <1>1
  <2>2. e \in EventRecord
    BY <2>1 DEF EventRecord
  <2>3. [es EXCEPT ![n].by = o] = [es EXCEPT ![n] = e]
    OBVIOUS
  <2> HIDE DEF e
  <2> QED BY <1>1, <2>2, <2>3
<1>2. CASE n \notin 1..Len(es)
  <2>1. DOMAIN es = 1..Len(es) /\ es = [m \in 1..Len(es) |-> es[m]]
    OBVIOUS
  <2>2. [es EXCEPT ![n].by = o] = es
    BY <1>2, <2>1
  <2> QED BY <2>2, ZenonT(40)
<1> QED BY <1>1, <1>2

\* COMMIT_STEP_RECORD finds and leaves an active instance.
LEMMA LifeStepRecord ==
  ASSUME Lifecycle, NEW k \in Tokens, NEW o \in Ordinals, NEW status \in {"running", "waiting"},
         NEW at \in Int, NEW event \in Int, NEW phase \in Phases,
         inst.status \in {"running", "waiting"}, CommitStepRecord(k, o, status, at, event),
         Advance(k, o, phase, 0), RunStep, retention' = retention
  PROVE LifeStep
<1>1. run' \in [Tokens -> RunRecord]
  BY RunFields, AdvanceTyped
<1> DEFINE r == [status |-> IF status = "waiting" THEN "waiting" ELSE "completed",
                 attempt |-> 1, due |-> at, event |-> event]
<1>2. r \in StepRecord /\ steps' = [steps EXCEPT ![o] = r]
  BY DEF StepRecord, CommitStepRecord
<1> HIDE DEF r
<1>3. steps' \in [Ordinals -> StepRecord]
  BY <1>2, RunFields
<1>4. /\ inst' \in InstRecord /\ inst'.status = status /\ inst'.runToken = inst.runToken
      /\ inst'.createdAtMs = inst.createdAtMs
  <2> DEFINE w == status = "waiting" /\ Kind[o] = "wait"
  <2>1. inst' = [inst EXCEPT !.status = status, !.waitPrefix = w] /\ w \in BOOLEAN
    BY DEF CommitStepRecord
  <2> HIDE DEF w
  <2> QED BY <2>1, RunFields, Zenon DEF InstRecord, Statuses
<1>5. events' \in Seq(EventRecord)
  BY RunFields, MarkTyped DEF CommitStepRecord
<1>6. ready' \in BOOLEAN /\ active' \in BOOLEAN /\ (ready' => active') /\ due' \in Int
  BY RunFields, ZenonT(40) DEF CommitStepRecord, RemoveReady
<1> QED BY <1>1, <1>3, <1>4, <1>5, <1>6, RunActive, SMTT(30)

\* A sleep or a wait is registered.
LEMMA LifeRegisterStep ==
  ASSUME Lifecycle, NEW k \in Tokens, NEW o \in Ordinals, RegisterStep(k, o) PROVE LifeStep
<1>1. RunStep /\ retention' = retention
  BY DEF RegisterStep
<1>2. {"refind", "susp", "fail"} \subseteq Phases
  BY DEF Phases, ServicePhases, Settled
<1>3. CASE Advance(k, o, "fail", 0) /\ UNCHANGED <<inst, steps, events, ready, active, due>>
  BY <1>1, <1>2, <1>3, LifeAdvance DEF redisVars
<1>4. CASE /\ inst.status \in {"running", "waiting"}
           /\ CommitStepRecord(k, o, "waiting", run[k].arg[o], 0)
           /\ \E phase \in {"refind", "susp"} : Advance(k, o, phase, 0)
  <2>1. PICK phase \in {"refind", "susp"} : Advance(k, o, phase, 0)
    BY <1>4
  <2>2. "waiting" \in {"running", "waiting"} /\ run[k].arg[o] \in Int /\ 0 \in Int
    BY RunFields
  <2> QED BY <1>1, <1>2, <1>4, <2>1, <2>2, LifeStepRecord, ZenonT(30)
<1> QED BY <1>3, <1>4, SMTT(30) DEF RegisterStep, StepFence

\* A sleep or a wait completes.
LEMMA LifeCompleteStep ==
  ASSUME Lifecycle, NEW k \in Tokens, NEW o \in Ordinals, CompleteStep(k, o) PROVE LifeStep
<1>1. RunStep /\ retention' = retention
  BY DEF CompleteStep
<1>2. {"done", "fail"} \subseteq Phases
  BY DEF Phases, Settled
<1>3. CASE Advance(k, o, "fail", 0) /\ UNCHANGED <<inst, steps, events, ready, active, due>>
  BY <1>1, <1>2, <1>3, LifeAdvance DEF redisVars
<1>4. CASE /\ inst.status \in {"running", "waiting"}
           /\ CommitStepRecord(k, o, "running", 0, run[k].arg[o]) /\ Advance(k, o, "done", 0)
  <2>1. "running" \in {"running", "waiting"} /\ run[k].arg[o] \in Int /\ 0 \in Int
    BY RunFields
  <2> QED BY <1>1, <1>2, <1>4, <2>1, LifeStepRecord, ZenonT(30)
<1> QED BY <1>3, <1>4 DEF CompleteStep, StepFence

\* find_buffered_event.
LEMMA LifeFindBufferedEvent ==
  ASSUME Lifecycle, NEW k \in Tokens, NEW o \in Ordinals, FindBufferedEvent(k, o) PROVE LifeStep
<1>1. RunStep /\ UNCHANGED redisVars
  BY DEF FindBufferedEvent
<1>2. {"take", "register", "susp"} \subseteq Phases
  BY DEF Phases, ServicePhases, Settled
<1>3. CASE Buffered # {} /\ Advance(k, o, "take", NextEvent)
  BY <1>1, <1>2, <1>3, RunFields, NextEventLeast, LifeAdvance
<1>4. CASE \E phase \in {"take", "register", "susp"}, arg \in {0, run[k].arg[o]} :
             Advance(k, o, phase, arg)
  <2>1. PICK phase \in {"take", "register", "susp"}, arg \in {0, run[k].arg[o]} :
             Advance(k, o, phase, arg)
    BY <1>4
  <2>2. phase \in Phases /\ arg \in Int
    BY <1>2, <2>1, RunFields
  <2> QED BY <1>1, <2>1, <2>2, LifeAdvance, ZenonT(30)
<1> QED BY <1>3, <1>4 DEF FindBufferedEvent

\* A run that ends is a run.
LEMMA CloseRunTyped ==
  ASSUME run \in [Tokens -> RunRecord], NEW k \in Tokens, NEW outcome \in Outcomes,
         CloseRun(k, outcome)
  PROVE run' \in [Tokens -> RunRecord]
<1> DEFINE heard == \E d \in Dispatchers : disp[d].pc = "wait" /\ disp[d].token = k
           out == IF heard THEN outcome ELSE "none"
           ph == [o \in Ordinals |-> IF run[k].phase[o] \in ServicePhases
                                     THEN run[k].phase[o] ELSE "idle"]
           ar == [o \in Ordinals |-> IF run[k].phase[o] \in ServicePhases
                                     THEN run[k].arg[o] ELSE 0]
           r == [run[k] EXCEPT !.open = FALSE, !.outcome = out, !.phase = ph, !.arg = ar]
<1>1. run' = [run EXCEPT ![k] = r]
  BY DEF CloseRun
<1>2. run[k] \in RunRecord
  OBVIOUS
<1>3. out \in Outcomes
  BY DEF Outcomes
<1>4. ph \in [Ordinals -> Phases] /\ ar \in [Ordinals -> Int]
  BY <1>2 DEF RunRecord, Phases
<1> HIDE DEF out, ph, ar
<1>5. r \in RunRecord
  BY <1>2, <1>3, <1>4, Zenon DEF RunRecord
<1> HIDE DEF r
<1> QED BY <1>1, <1>5

\* The run returns, or is lost.
LEMMA LifeRunEnds ==
  ASSUME Lifecycle, NEW k \in Tokens, RunReturn(k) \/ LoseRun(k) PROVE LifeStep
<1>1. /\ UNCHANGED <<now, call, disp, cleaner, claims, creates>> /\ faults' \in Nat
      /\ UNCHANGED redisVars
  BY SMTT(30) DEF RunReturn, LoseRun, RunStep, Fault, counters, Lifecycle, TypeOK
<1>2. \E outcome \in Outcomes : CloseRun(k, outcome)
  BY DEF RunReturn, LoseRun, Outcomes
<1>3. run' \in [Tokens -> RunRecord]
  BY <1>2, CloseRunTyped DEF Lifecycle, TypeOK
<1> QED BY <1>1, <1>3, RunQuiet, SMTT(30)

\* A step's request or reply is lost.
LEMMA LifeLoseStep ==
  ASSUME Lifecycle, NEW k \in Tokens, NEW o \in Ordinals, LoseStep(k, o) PROVE LifeStep
<1>1. /\ UNCHANGED <<now, call, disp, cleaner, claims, creates>> /\ faults' \in Nat
      /\ UNCHANGED redisVars
  BY DEF LoseStep, Fault, Lifecycle, TypeOK
<1>2. run' \in [Tokens -> RunRecord]
  <2>1. "infra" \in Phases /\ Advance(k, o, "infra", 0) /\ 0 \in Int
    BY DEF LoseStep, Phases, Settled
  <2>2. run \in [Tokens -> RunRecord]
    BY RunFields
  <2> QED BY <2>1, <2>2, AdvanceTyped, ZenonT(30)
<1> QED BY <1>1, <1>2, RunQuiet, SMTT(30)

-----------------------------------------------------------------------------
(* Together. *)

\* At the start nothing exists.
LEMMA LifeInit == Init => Lifecycle
<1> SUFFICES ASSUME Init PROVE Lifecycle
  OBVIOUS
<1>1. RedisTypeOK
  <2>1. Missing \in InstRecord /\ Missing.runToken = 0
    BY DEF Missing, InstRecord, Statuses
  <2>2. NoSteps \in [Ordinals -> StepRecord]
    BY DEF NoSteps, NoStep, StepRecord
  <2>3. <<>> \in Seq(EventRecord)
    OBVIOUS
  <2>4. ready \in BOOLEAN /\ active \in BOOLEAN
    BY ZenonT(40) DEF Init
  <2> QED BY <2>1, <2>2, <2>3, <2>4, SMTT(30) DEF Init, RedisTypeOK
<1>2. TypeOK
  <2>1. call \in [Callers -> CallRecord]
    BY IdleCallTyped DEF Init
  <2>2. disp \in [Dispatchers -> TaskRecord] /\ \A d \in Dispatchers : disp[d].token <= claims
    BY DEF Init, IdleTask, TaskRecord, TaskPcs, Ids, NoId
  <2>3. run \in [Tokens -> RunRecord]
    BY NoRunTyped, Zenon DEF Init
  <2>4. cleaner \in CleanerRecord
    BY IdleCleanerTyped DEF Init
  <2>5. now \in 0..MaxTime /\ claims \in 0..MaxClaims /\ creates \in Nat /\ faults \in Nat
    BY WorkflowAssumption DEF Init
  <2> QED BY <1>1, <2>1, <2>2, <2>3, <2>4, <2>5, SMTT(30) DEF TypeOK
<1>3. HintsMatchStatus /\ RetentionIndexed /\ RetentionLasts
  BY SMTT(30) DEF Init, Missing, HintsMatchStatus, RetentionIndexed, RetentionLasts, IsTerminal, Terminal
<1>4. ClocksBehind
  BY DEF Init, ClocksBehind, Missing, IdleCleaner, IdleCall
<1>5. ScriptsRead /\ TasksShaped /\ CleanerShaped
  BY DEF Init, ScriptsRead, TasksShaped, HoldsToken, CleanerShaped, IdleCall, IdleTask, IdleCleaner
<1> QED BY <1>2, <1>3, <1>4, <1>5 DEF Lifecycle

\* Every step of the service, its callers and its runs keeps Lifecycle, leaves
\* what was stopped as it was, and removes only what may be removed.
LEMMA LifeNext == Lifecycle /\ [Next]_vars => Lifecycle' /\ (StoppedStep /\ PublicStep)
<1> SUFFICES ASSUME Lifecycle, [Next]_vars PROVE LifeStep
  BY DEF LifeStep
<1>1. ASSUME NEW c \in Callers, CallNext(c) PROVE LifeStep
  BY <1>1, LifeBeginCall, LifeCreateInstance, LifeAwaitCreate, LifeAwaitCleanup, LifeVerifyCreate,
     LifeFinalizeCreate, LifeReadPublicState, LifePause, LifeResume, LifeTerminate, LifeRestart,
     LifeSendEvent, LifeRefused, SMTT(30) DEF CallNext
<1>2. ASSUME NEW d \in Dispatchers, TaskNext(d) PROVE LifeStep
  BY <1>2, LifeSample, LifePrepareReadyToken, LifeRemoveStaleToken, LifeRequeueExpiredRun,
     LifeClaimRun, LifeReceive, LifeReleaseRun, LifeClearSuspendedRun, LifeReadForCommit,
     LifeCommitRuntimeTerminal, SMTT(30) DEF TaskNext
<1>3. ASSUME NEW k \in Tokens, RunNext(k) PROVE LifeStep
  <2>1. ASSUME NEW o \in Ordinals, StepNext(k, o) PROVE LifeStep
    BY <2>1, LifeReadStep, LifeRestoreWaitingDue, LifeExecute, LifeCommitStepSuccess,
       LifeCommitStepError, LifeRegisterStep, LifeCompleteStep, LifeFindBufferedEvent DEF StepNext
  <2> QED BY <1>3, <2>1, LifeStartStage, LifeRunEnds DEF RunNext
<1>4. ASSUME CleanerNext PROVE LifeStep
  BY <1>4, LifeListRetention, LifePlanRetention, LifeRemoveRetentionToken, LifeCleanupRetention
     DEF CleanerNext
<1>5. ASSUME FaultNext PROVE LifeStep
  BY <1>5, LifeRunEnds, LifeLoseStep, LifeTaskFaults, LifeCrashCall DEF FaultNext
<1>6. ASSUME UNCHANGED vars PROVE LifeStep
  <2>1. UNCHANGED <<now, call, disp, run, cleaner, claims, creates, faults>> /\ UNCHANGED redisVars
    BY <1>6 DEF vars, counters
  <2>2. faults' \in Nat /\ run' \in [Tokens -> RunRecord]
    BY <2>1 DEF Lifecycle, TypeOK
  <2> QED BY <2>1, <2>2, RunQuiet
<1> QED BY <1>1, <1>2, <1>3, <1>4, <1>5, <1>6, LifePruneShard, LifeMoveDue, LifeTick, SMTT(30) DEF Next

\* Lifecycle is an inductive invariant of the service.
THEOREM LifecycleInvariant == Spec => []Lifecycle
<1> QED BY LifeInit, LifeNext, PTL DEF Spec

\* The type invariant: every field a script, a task or a run leaves has its type.
THEOREM TypeCorrect == Spec => []TypeOK
<1>1. Lifecycle => TypeOK
  BY DEF Lifecycle
<1> QED BY <1>1, LifecycleInvariant, PTL

\* The ready, due, active and retention indexes agree with the instance's status
\* after every script, however callers, tasks, runs, cleaner and faults interleave.
THEOREM IndexesFollowStatus == Spec => []IndexesMatchStatus
<1>1. Lifecycle => IndexesMatchStatus
  BY DEF Lifecycle, IndexesMatchStatus
<1> QED BY <1>1, LifecycleInvariant, PTL

\* A paused or terminal instance changes only by a transition to a higher
\* generation or by its deletion, and a public one is deleted only as a terminal
\* one whose retention is over.
THEOREM LifecycleIsHeld == Spec => LifecycleHeld
<1> QED BY LifecycleInvariant, LifeNext, PTL
      DEF Spec, LifecycleHeld, StoppedStaysPut, PublicUntilRetention

\* What every step is shown to do.
ProgStep == Progress' /\ ForwardStep

-----------------------------------------------------------------------------
(* Progress: frames. *)

\* What every step starts from.
LEMMA Known ==
  ASSUME Lifecycle
  PROVE /\ run \in [Tokens -> RunRecord] /\ inst \in InstRecord
        /\ steps \in [Ordinals -> StepRecord] /\ events \in Seq(EventRecord)
        /\ disp \in [Dispatchers -> TaskRecord]
        /\ inst.runToken \in Nat /\ inst.runToken <= claims /\ claims \in 0..MaxClaims
        /\ MaxClaims \in Nat /\ 0 \notin Tokens
<1>1. /\ run \in [Tokens -> RunRecord] /\ inst \in InstRecord
      /\ steps \in [Ordinals -> StepRecord] /\ events \in Seq(EventRecord)
      /\ disp \in [Dispatchers -> TaskRecord]
      /\ inst.runToken <= claims /\ claims \in 0..MaxClaims
  BY DEF Lifecycle, TypeOK, RedisTypeOK
<1>2. inst.runToken \in Nat
  BY <1>1 DEF InstRecord
<1>3. MaxClaims \in Nat /\ 0 \notin Tokens
  BY WorkflowAssumption DEF Tokens
<1> QED BY <1>1, <1>2, <1>3

\* A task that holds an outcome or commits one holds a token.
LEMMA CommitterHolds ==
  ASSUME Lifecycle, NEW d \in Dispatchers, disp[d].pc \in {"completed", "commit"}
  PROVE disp[d].token # 0
BY DEF Lifecycle, TasksShaped, HoldsToken

\* Dropping the claim, or taking no step nearer to a commit, keeps what commits
\* are to find.
LEMMA CommitsFrame ==
  ASSUME Lifecycle, Progress, steps' = steps, inst'.runToken \in {0, inst.runToken},
         \A d \in Dispatchers : \/ disp'[d] = disp[d]
                                \/ disp'[d].pc \notin {"completed", "commit"} \/ AllDone
  PROVE CommitsTrue'
<1> SUFFICES ASSUME NEW d \in Dispatchers, disp'[d].pc \in {"completed", "commit"},
                    disp'[d].token = inst'.runToken, ~AllDone
             PROVE FALSE
  BY DEF CommitsTrue, AllDone
<1>1. disp'[d] = disp[d]
  OBVIOUS
<1>2. disp[d].token = inst.runToken
  BY <1>1, CommitterHolds, SMTT(30)
<1> QED BY <1>1, <1>2 DEF Progress, CommitsTrue

\* A step that leaves the records and the events, and of the runs changes only
\* an outcome that it takes.
LEMMA ProgQuiet ==
  ASSUME Lifecycle, Progress, UNCHANGED <<steps, events>>,
         \A k \in Tokens : /\ run'[k].phase = run[k].phase /\ run'[k].arg = run[k].arg
                           /\ run'[k].open = run[k].open
                           /\ run'[k].generation = run[k].generation
                           /\ run'[k].outcome \in {run[k].outcome, "none"},
         inst'.runToken \in {0, inst.runToken},
         inst'.generation = inst.generation \/ inst'.runToken = 0,
         inst'.status = "completed" => inst.status = "completed" \/ AllDone,
         \A d \in Dispatchers : \/ disp'[d] = disp[d]
                                \/ disp'[d].pc \notin {"completed", "commit"} \/ AllDone
  PROVE ProgStep
<1>1. RunsShaped'
  BY SMTT(30) DEF Progress, RunsShaped, RunShaped, StagesInOrder, KindFits
<1>2. RecordsFit' /\ EventDelivery'
  BY SMTT(30) DEF Progress, RecordsFit, EventDelivery, Buffered
<1>3. LiveRun'
  <2>1. Buffered' = Buffered
    BY DEF Buffered
  <2>2. AllDone' = AllDone
    BY SMTT(30) DEF AllDone
  <2> SUFFICES ASSUME NEW k \in Tokens, k = inst'.runToken
               PROVE /\ run'[k].generation = inst'.generation
                     /\ run'[k].outcome = "completed" => AllDone
                     /\ \A o \in Ordinals :
                          StepLive(run'[k].phase[o], run'[k].arg[o], steps[o], Buffered, o)
    BY <2>1, <2>2, SMTT(30) DEF LiveRun
  <2>3. k = inst.runToken /\ inst'.generation = inst.generation
    BY Known
  <2> HIDE DEF Buffered, AllDone
  <2> QED BY <2>3 DEF Progress, LiveRun
<1>4. CommitsTrue'
  BY CommitsFrame
<1>5. CompletedMeansDone'
  BY DEF Progress, CompletedMeansDone, AllDone
<1>6. ForwardStep
  BY DEF ForwardStep
<1> QED BY <1>1, <1>2, <1>3, <1>4, <1>5, <1>6, SMTT(30) DEF ProgStep, Progress

\* A step that only drops the claim, if anything.
LEMMA ProgDrop ==
  ASSUME Lifecycle, Progress, UNCHANGED <<steps, events, run, disp>>,
         inst'.runToken \in {0, inst.runToken},
         inst'.generation = inst.generation \/ inst'.runToken = 0,
         inst'.status = "completed" => inst.status = "completed" \/ AllDone
  PROVE ProgStep
BY ProgQuiet

\* A step that deletes the records and the events with the claim.
LEMMA ProgReset ==
  ASSUME Lifecycle, Progress, UNCHANGED <<run, disp>>, steps' = NoSteps, events' = <<>>,
         inst'.runToken = 0, inst'.status # "completed",
         inst'.status \in {"missing", "queued"}
  PROVE ProgStep
<1>1. RunsShaped'
  BY DEF Progress, RunsShaped
<1>2. RecordsFit'
  <2>1. RetryLimit \in Nat \ {0}
    BY WorkflowAssumption
  <2> QED BY <2>1, SMTT(30) DEF RecordsFit, RecordFits, NoSteps, NoStep
<1>3. EventDelivery'
  BY SMTT(30) DEF EventDelivery, NoSteps, NoStep
<1>4. LiveRun'
  BY Known DEF LiveRun
<1>5. CommitsTrue'
  BY CommitterHolds DEF CommitsTrue
<1>6. CompletedMeansDone'
  BY DEF CompletedMeansDone
<1>7. ForwardStep
  BY DEF ForwardStep, Reset, Exists
<1> QED BY <1>1, <1>2, <1>3, <1>4, <1>5, <1>6, <1>7, SMTT(30) DEF ProgStep, Progress

-----------------------------------------------------------------------------
(* Progress: callers. *)

\* What a caller's step leaves alone.
LEMMA CallerLeaves ==
  ASSUME NEW c, NEW next, CallerStep(c, next)
  PROVE UNCHANGED <<run, disp>>
BY DEF CallerStep

\* The steps of a caller that change nothing a run or a task looks at.
LEMMA ProgCallerQuiet ==
  ASSUME Lifecycle, Progress, NEW c \in Callers,
         \/ BeginCall(c) \/ CreateTimesOut(c) \/ AwaitCreate(c) \/ VerifyCreate(c)
         \/ ReadPublicState(c) \/ AbortRestart(c) \/ Refused(c)
  PROVE ProgStep
<1>1. UNCHANGED redisVars
  BY Zenon DEF BeginCall, CreateTimesOut, AwaitCreate, VerifyCreate, ReadPublicState, AbortRestart,
         Refused, StaleTransition
<1>2. UNCHANGED <<run, disp>>
  BY Zenon DEF BeginCall, CreateTimesOut, AwaitCreate, VerifyCreate, ReadPublicState, AbortRestart,
         Refused, StaleTransition, CallerStep
<1>3. UNCHANGED <<inst, steps, events>>
  BY <1>1 DEF redisVars
<1> QED BY <1>2, <1>3, ProgDrop

\* CREATE_INSTANCE writes an instance without a claim.
LEMMA ProgCreateInstance ==
  ASSUME Lifecycle, Progress, NEW c \in Callers, CreateInstance(c) PROVE ProgStep
<1>1. UNCHANGED <<run, disp, steps, events>>
  BY DEF CreateInstance, CallerStep
<1>2. inst' = inst \/ \E t, token : inst' = NewInstance(t, token)
  BY DEF CreateInstance
<1>3. inst' = inst \/ (inst'.runToken = 0 /\ inst'.status = "pending_create")
  BY <1>2, Zenon DEF NewInstance, Missing
<1> QED BY <1>1, <1>3, ProgDrop

\* A pending create is finalized or deleted.
LEMMA ProgPending ==
  ASSUME Lifecycle, Progress, NEW c \in Callers, AwaitCleanup(c) \/ FinalizeCreate(c) \/ UndoCreate(c)
  PROVE ProgStep
<1>1. UNCHANGED <<run, disp>>
  BY DEF AwaitCleanup, FinalizeCreate, UndoCreate, CallerStep
<1>2. CASE AwaitCleanup(c) \/ UndoCreate(c)
  <2>1. \/ UNCHANGED <<inst, steps, events>>
        \/ inst' = Missing /\ steps' = NoSteps /\ events' = <<>>
    BY <1>2 DEF AwaitCleanup, UndoCreate, CleanupPendingCreate
  <2>2. Missing.runToken = 0 /\ Missing.status = "missing"
    BY DEF Missing
  <2> QED BY <1>1, <2>1, <2>2, ProgDrop, ProgReset, SMTT(30)
<1>3. CASE FinalizeCreate(c)
  <2>1. /\ UNCHANGED <<steps, events>>
        /\ inst' \in {inst, [inst EXCEPT !.status = "queued", !.pendingToken = 0, !.pendingExpires = 0]}
    BY <1>3 DEF FinalizeCreate
  <2>2. /\ inst'.runToken = inst.runToken /\ inst'.generation = inst.generation
        /\ inst'.status = "completed" => inst.status = "completed"
    BY <2>1, Known, Zenon DEF InstRecord
  <2> QED BY <1>1, <2>1, <2>2, ProgDrop
<1> QED BY <1>2, <1>3

\* Pause, resume, terminate and restart drop the claim.
LEMMA ProgTransition ==
  ASSUME Lifecycle, Progress, NEW c \in Callers,
         Pause(c) \/ Resume(c) \/ Terminate(c) \/ Restart(c)
  PROVE ProgStep
<1>1. UNCHANGED <<run, disp>>
  BY Zenon DEF Pause, Resume, Terminate, Restart, CallerStep
<1>2. Bumped \in InstRecord /\ Bumped.runToken = 0
  BY Known, BumpedFields
<1> HIDE DEF Bumped
<1>3. CASE Pause(c) \/ Resume(c)
  <2>1. UNCHANGED <<steps, events>>
    BY <1>3 DEF Pause, Resume
  <2>2. inst'.runToken = 0 /\ inst'.status # "completed"
    BY <1>2, <1>3 DEF Pause, Resume, InstRecord
  <2> QED BY <1>1, <2>1, <2>2, ProgDrop
<1>4. CASE Terminate(c)
  <2>1. UNCHANGED <<steps, events>>
    BY <1>4, ZenonT(40) DEF Terminate
  <2>2. inst'.runToken = 0 /\ inst'.status # "completed"
    BY <1>2, <1>4, Zenon DEF Terminate, InstRecord
  <2> QED BY <1>1, <2>1, <2>2, ProgDrop
<1>5. CASE Restart(c)
  <2>1. steps' = NoSteps /\ events' = <<>>
    BY <1>5 DEF Restart
  <2>2. inst'.runToken = 0 /\ inst'.status = "queued"
    BY <1>2, <1>5 DEF Restart, InstRecord
  <2> QED BY <1>1, <2>1, <2>2, ProgReset
<1> QED BY <1>3, <1>4, <1>5

\* An event is appended: it is newer than every other.
LEMMA ProgSendEvent ==
  ASSUME Lifecycle, Progress, NEW c \in Callers, SendEvent(c) PROVE ProgStep
<1>1. UNCHANGED <<run, disp, inst, steps>>
  BY DEF SendEvent, CallerStep
<1>2. PICK type \in EventTypes : events' = Append(events, [type |-> type, by |-> 0])
  BY DEF SendEvent
<1>3. events \in Seq(EventRecord) /\ Len(events) \in Nat /\ DOMAIN events = 1..Len(events)
  BY Known, SMTT(30)
<1>4. /\ DOMAIN events' = DOMAIN events \cup {Len(events) + 1}
      /\ \A n \in DOMAIN events : events'[n] = events[n]
      /\ events'[Len(events) + 1] = [type |-> type, by |-> 0]
  BY <1>2, <1>3, SMTT(30)
<1>5. Buffered \subseteq Buffered' /\ Buffered' \subseteq Buffered \cup {Len(events) + 1}
  BY <1>3, <1>4 DEF Buffered
<1>6. \A n \in DOMAIN events : n < Len(events) + 1
  BY <1>3, SMTT(30)
<1>7. EventDelivery'
  <2>1. ASSUME NEW o \in Ordinals, steps[o].event # 0
        PROVE steps[o].event \in DOMAIN events' /\ events'[steps[o].event].by = o
    BY <1>4, <2>1 DEF Progress, EventDelivery
  <2>2. ASSUME NEW n \in DOMAIN events', events'[n].by # 0
        PROVE steps[events'[n].by].event = n /\ \A m \in Buffered' : m > n
    <3>1. n \in DOMAIN events /\ events'[n] = events[n]
      BY <1>4, <2>2, SMTT(30)
    <3>2. steps[events[n].by].event = n /\ \A m \in Buffered : m > n
      BY <2>2, <3>1 DEF Progress, EventDelivery
    <3>3. Len(events) + 1 > n
      BY <1>3, <3>1, SMTT(30)
    <3> QED BY <1>5, <3>1, <3>2, <3>3, SMTT(30)
  <2> QED BY <1>1, <2>1, <2>2, SMTT(30) DEF EventDelivery
<1>8. LiveRun'
  <2> SUFFICES ASSUME NEW k \in Tokens, k = inst.runToken, NEW o \in Ordinals
               PROVE StepLive(run[k].phase[o], run[k].arg[o], steps[o], Buffered', o)
    BY <1>1, ZenonT(30) DEF Progress, LiveRun, AllDone
  <2>1. StepLive(run[k].phase[o], run[k].arg[o], steps[o], Buffered, o)
    BY DEF Progress, LiveRun
  <2>2. \A n \in Buffered : n \in DOMAIN events
    BY DEF Buffered
  <2>3. run[k].arg[o] \in Buffered => run[k].arg[o] <= Len(events) + 1
    BY <1>3, <2>2
  <2> HIDE DEF Buffered
  <2> QED BY <1>5, <2>1, <2>3, SMTT(30) DEF StepLive
<1>9. RunsShaped' /\ RecordsFit' /\ CommitsTrue' /\ CompletedMeansDone'
  BY <1>1 DEF Progress, RunsShaped, RecordsFit, CommitsTrue, CompletedMeansDone, AllDone
<1>10. ForwardStep
  BY <1>1, SMTT(30) DEF ForwardStep
<1> QED BY <1>7, <1>8, <1>9, <1>10, SMTT(30) DEF ProgStep, Progress

-----------------------------------------------------------------------------
(* Progress: dispatch tasks and the cleaner. *)

\* A task that takes up, looks at or gives up a token without an outcome.
LEMMA ProgTaskQuiet ==
  ASSUME Lifecycle, Progress, NEW d \in Dispatchers, NEW next, TaskStep(d, next),
         next.pc \notin {"completed", "commit"} \/ AllDone, UNCHANGED <<steps, events, run>>,
         inst'.runToken \in {0, inst.runToken},
         inst'.generation = inst.generation \/ inst'.runToken = 0,
         inst'.status = "completed" => inst.status = "completed" \/ AllDone
  PROVE ProgStep
<1>1. \A e \in Dispatchers : disp'[e] = IF e = d THEN next ELSE disp[e]
  BY Known, SMTT(30) DEF TaskStep
<1>2. \A e \in Dispatchers : \/ disp'[e] = disp[e]
                             \/ disp'[e].pc \notin {"completed", "commit"} \/ AllDone
  BY <1>1
<1> QED BY <1>2, ProgQuiet, SMTT(30)

\* What an update of the claim and the status leaves alone.
LEMMA DropLeaves ==
  ASSUME Lifecycle, NEW status
  PROVE /\ DropClaim(inst).runToken = 0 /\ DropClaim(inst).status = inst.status
        /\ [DropClaim(inst) EXCEPT !.status = status].runToken = 0
        /\ [DropClaim(inst) EXCEPT !.status = status].status = status
BY Known DEF DropClaim, InstRecord

\* Sampling, reading and removing a token; requeue, release and clear.
LEMMA ProgTaskPlain ==
  ASSUME Lifecycle, Progress, NEW d \in Dispatchers,
         \/ Sample(d) \/ PrepareReadyToken(d) \/ RemoveStaleToken(d) \/ RequeueExpiredRun(d)
         \/ ReleaseRun(d) \/ ClearSuspendedRun(d)
  PROVE ProgStep
<1>1. UNCHANGED <<steps, events, run>>
  BY DEF Sample, PrepareReadyToken, RemoveStaleToken, RequeueExpiredRun, ReleaseRun,
         ClearSuspendedRun, redisVars
<1>2. IdleTask.pc = "idle"
  BY DEF IdleTask
<1>3. disp[d] \in TaskRecord
  BY Known
<1>4. CASE Sample(d) \/ PrepareReadyToken(d) \/ RemoveStaleToken(d)
  <2>1. inst' = inst
    BY <1>4 DEF Sample, PrepareReadyToken, RemoveStaleToken, redisVars
  <2>2. \E next : TaskStep(d, next) /\ next.pc \notin {"completed", "commit"}
    <3>1. CASE Sample(d) \/ RemoveStaleToken(d)
      BY <3>1 DEF Sample, RemoveStaleToken, IdleTask
    <3>2. CASE PrepareReadyToken(d)
      <4>1. IdleTask \in TaskRecord
        BY TaskFields
      <4>2. \A pc, id : [IdleTask EXCEPT !.pc = pc, !.id = id].pc = pc
        BY <4>1 DEF TaskRecord
      <4>3. \A pc, id, prev : [[IdleTask EXCEPT !.pc = pc, !.id = id] EXCEPT !.prev = prev].pc = pc
        BY <4>1 DEF TaskRecord
      <4>4. CASE TaskStep(d, IdleTask)
        BY <1>2, <4>4
      <4>5. CASE \E pc \in {"rmMissing", "requeue", "rmTerminal"} :
                   TaskStep(d, [IdleTask EXCEPT !.pc = pc, !.id = Identity(inst)])
        BY <4>2, <4>5, Zenon
      <4>6. CASE TaskStep(d, [[IdleTask EXCEPT !.pc = "claim", !.id = Identity(inst)]
                                EXCEPT !.prev = inst.status])
        <5> DEFINE next == [[IdleTask EXCEPT !.pc = "claim", !.id = Identity(inst)]
                              EXCEPT !.prev = inst.status]
        <5>1. next.pc = "claim"
          BY <4>3
        <5>2. TaskStep(d, next)
          BY <4>6
        <5> HIDE DEF next
        <5> QED BY <5>1, <5>2
      <4> QED BY <3>2, <4>4, <4>5, <4>6, PrepareCases, SMTT(30)
    <3> QED BY <1>4, <3>1, <3>2
  <2> QED BY <1>1, <2>1, <2>2, ProgTaskQuiet
<1>5. CASE RequeueExpiredRun(d)
  <2>1. TaskStep(d, IdleTask) /\ inst' \in {inst, [DropClaim(inst) EXCEPT !.status = "queued"]}
    BY <1>5 DEF RequeueExpiredRun
  <2>2. /\ inst'.runToken \in {0, inst.runToken}
        /\ inst'.generation = inst.generation \/ inst'.runToken = 0
        /\ inst'.status = "completed" => inst.status = "completed"
    BY <2>1, DropLeaves, Zenon
  <2> QED BY <1>1, <1>2, <2>1, <2>2, ProgTaskQuiet, SMTT(30)
<1>6. CASE ReleaseRun(d)
  <2>1. inst' \in {inst, [DropClaim(inst) EXCEPT !.status = disp[d].prev]}
    BY <1>6 DEF ReleaseRun
  <2>2. disp[d].prev # "completed"
    BY <1>6 DEF ReleaseRun, Lifecycle, TasksShaped, HoldsToken
  <2>3. \E next : TaskStep(d, next) /\ next.pc \notin {"completed", "commit"}
    BY <1>2, <1>3, <1>6 DEF ReleaseRun, TaskRecord
  <2> QED BY <1>1, <2>1, <2>2, <2>3, DropLeaves, ProgTaskQuiet, ZenonT(30)
<1>7. CASE ClearSuspendedRun(d)
  <2>1. TaskStep(d, IdleTask) /\ inst' \in {inst, DropClaim(inst)}
    BY <1>7 DEF ClearSuspendedRun
  <2> QED BY <1>1, <1>2, <2>1, DropLeaves, ProgTaskQuiet, SMTT(30)
<1> QED BY <1>4, <1>5, <1>6, <1>7

\* A claim starts a run that knows nothing, under a token nothing else has.
LEMMA ProgClaimRun ==
  ASSUME Lifecycle, Progress, NEW d \in Dispatchers, ClaimRun(d) PROVE ProgStep
<1>1. UNCHANGED <<steps, events>>
  BY DEF ClaimRun
<1>2. CASE TaskStep(d, IdleTask) /\ UNCHANGED <<inst, run, claims>>
  BY <1>1, <1>2, ProgTaskQuiet DEF IdleTask
<1>3. CASE \E t \in Times :
             /\ claims + 1 <= MaxClaims
             /\ inst' = [inst EXCEPT !.status = "running", !.runToken = claims + 1,
                                     !.lease = t + Lease]
             /\ run' = [run EXCEPT ![claims + 1] = [NoRun EXCEPT !.generation = inst.generation,
                                                      !.open = TRUE]]
             /\ TaskStep(d, [disp[d] EXCEPT !.pc = "wait", !.token = claims + 1])
  <2> DEFINE k == claims + 1
             new == [NoRun EXCEPT !.generation = inst.generation, !.open = TRUE]
  <2>1. k \in Tokens /\ k # inst.runToken
    BY <1>3, Known DEF Tokens
  <2>2. /\ inst'.runToken = k /\ inst'.generation = inst.generation /\ inst'.status = "running"
        /\ run' = [run EXCEPT ![k] = new]
    BY <1>3, Known DEF InstRecord
  <2>3. /\ new.generation = inst.generation /\ new.outcome = "none"
        /\ \A o \in Ordinals : new.phase[o] = "idle"
    BY DEF NoRun
  <2>4. \A e \in Dispatchers : \/ disp'[e].pc = "wait"
                               \/ disp'[e] = disp[e] /\ disp[e].token # k
    <3>1. \A e \in Dispatchers : disp[e].token <= claims /\ disp[e].token \in Nat
      BY Known DEF Lifecycle, TypeOK, TaskRecord
    <3>2. \A e \in Dispatchers : disp[e].token # k
      BY <3>1, Known
    <3>3. \A e \in Dispatchers : e # d => disp'[e] = disp[e]
      BY <1>3, Known DEF TaskStep
    <3>4. disp'[d].pc = "wait"
      BY <1>3, Known, SMTT(30) DEF TaskStep, TaskRecord
    <3> QED BY <3>2, <3>3, <3>4, SMTT(30)
  <2> HIDE DEF k, new
  <2>5. \A j \in Tokens : run'[j] = IF j = k THEN new ELSE run[j]
    BY <2>2, Known, SMTT(30)
  <2>6. RunsShaped'
    <3>1. RunShaped(new)
      BY <2>3, SMTT(30) DEF RunShaped, StagesInOrder, KindFits, Busy, ServicePhases, DoPhases, WaitPhases,
                  RecordPhases, Ordinals
    <3> QED BY <2>5, <3>1, SMTT(30) DEF Progress, RunsShaped
  <2>7. LiveRun'
    <3> SUFFICES ASSUME NEW o \in Ordinals
                 PROVE StepLive(new.phase[o], new.arg[o], steps'[o], Buffered', o)
      BY <2>1, <2>2, <2>3, <2>5, SMTT(30) DEF LiveRun
    <3> QED BY <2>3, SMTT(30) DEF StepLive, Working, DoPhases, WaitPhases, RecordPhases
  <2>8. CommitsTrue'
    BY <2>2, <2>4, SMTT(30) DEF CommitsTrue
  <2>9. RecordsFit' /\ EventDelivery'
    BY <1>1 DEF Progress, RecordsFit, EventDelivery, Buffered
  <2>10. CompletedMeansDone' /\ ForwardStep
    BY <1>1, <2>2 DEF CompletedMeansDone, ForwardStep
  <2> QED BY <2>6, <2>7, <2>8, <2>9, <2>10, SMTT(30) DEF ProgStep, Progress
<1> QED BY <1>2, <1>3, Zenon DEF ClaimRun

\* Taking the outcome of a run changes nothing else of it.
LEMMA OutcomeTaken ==
  ASSUME Lifecycle, NEW j \in Nat,
         run' \in {run, [run EXCEPT ![j].outcome = "none"]}
  PROVE \A k \in Tokens : /\ run'[k].phase = run[k].phase /\ run'[k].arg = run[k].arg
                          /\ run'[k].open = run[k].open
                          /\ run'[k].generation = run[k].generation
                          /\ run'[k].outcome \in {run[k].outcome, "none"}
<1> SUFFICES ASSUME NEW k \in Tokens
             PROVE /\ run'[k].phase = run[k].phase /\ run'[k].arg = run[k].arg
                   /\ run'[k].open = run[k].open
                   /\ run'[k].generation = run[k].generation
                   /\ run'[k].outcome \in {run[k].outcome, "none"}
  OBVIOUS
<1>1. run[k] \in RunRecord
  BY Known
<1>2. run'[k] \in {run[k], [run[k] EXCEPT !.outcome = "none"]}
  BY Known
<1> QED BY <1>1, <1>2 DEF RunRecord

\* An outcome "completed" that the task hears is that of a run with every step
\* done.
LEMMA ProgReceive ==
  ASSUME Lifecycle, Progress, NEW d \in Dispatchers, Receive(d) PROVE ProgStep
<1> DEFINE k == disp[d].token
           next == [disp[d] EXCEPT !.pc = IF run[k].outcome = "infra" THEN "release"
                                          ELSE run[k].outcome]
<1>1. /\ disp[d].pc = "wait" /\ UNCHANGED redisVars
      /\ run' = [run EXCEPT ![k].outcome = "none"] /\ TaskStep(d, next)
  BY DEF Receive
<1>2. UNCHANGED <<inst, steps, events>>
  BY <1>1 DEF redisVars
<1>3. k \in Tokens
  BY <1>1, Known DEF Lifecycle, TypeOK, TasksShaped, HoldsToken, TaskRecord, Tokens
<1>4. disp[d] \in TaskRecord /\ run[k] \in RunRecord
  BY <1>3, Known
<1>5. \A e \in Dispatchers : disp'[e] = IF e = d THEN next ELSE disp[e]
  BY <1>1, Known DEF TaskStep
<1>6. next.pc = "completed" => run[k].outcome = "completed"
  BY <1>4 DEF TaskRecord
<1>7. next.pc # "commit" /\ next.token = k
  BY <1>4 DEF TaskRecord, RunRecord, Outcomes
<1>8. CASE k = inst.runToken
  <2>1. next.pc \notin {"completed", "commit"} \/ AllDone
    BY <1>3, <1>6, <1>7, <1>8 DEF Progress, LiveRun
  <2>2. \A e \in Dispatchers : \/ disp'[e] = disp[e]
                               \/ disp'[e].pc \notin {"completed", "commit"} \/ AllDone
    BY <1>5, <2>1, Zenon
  <2> HIDE DEF k, next
  <2> QED BY <1>1, <1>2, <1>3, <2>2, OutcomeTaken, ProgQuiet, SMTT(30) DEF Tokens
<1>9. CASE k # inst.runToken
  \* What another run's task holds is not asked about.
  <2>1. CommitsTrue'
    <3> SUFFICES ASSUME NEW e \in Dispatchers, disp'[e].pc \in {"completed", "commit"},
                        disp'[e].token = inst.runToken
                 PROVE AllDone'
      BY <1>2 DEF CommitsTrue
    <3>1. disp'[e] = disp[e]
      BY <1>5, <1>7, <1>9, ZenonT(40)
    <3> QED BY <1>2, <3>1 DEF Progress, CommitsTrue, AllDone
  <2>2. \A j \in Tokens : /\ run'[j].phase = run[j].phase /\ run'[j].arg = run[j].arg
                          /\ run'[j].open = run[j].open
                          /\ run'[j].generation = run[j].generation
                          /\ run'[j].outcome \in {run[j].outcome, "none"}
    BY <1>1, <1>3, OutcomeTaken DEF Tokens
  <2>3. RunsShaped'
    BY <2>2 DEF Progress, RunsShaped, RunShaped, StagesInOrder, KindFits
  <2>4. LiveRun'
    BY <1>2, <2>2 DEF Progress, LiveRun, AllDone, Buffered
  <2>5. RecordsFit' /\ EventDelivery' /\ CompletedMeansDone' /\ ForwardStep
    BY <1>2 DEF Progress, RecordsFit, EventDelivery, Buffered, CompletedMeansDone, ForwardStep
  <2> QED BY <2>1, <2>3, <2>4, <2>5 DEF ProgStep, Progress
<1> QED BY <1>8, <1>9

\* commit_runtime_result goes on only with the claim.
LEMMA ProgReadForCommit ==
  ASSUME Lifecycle, Progress, NEW d \in Dispatchers, ReadForCommit(d) PROVE ProgStep
<1>1. UNCHANGED <<inst, steps, events, run>>
  BY DEF ReadForCommit, redisVars
<1>2. disp[d] \in TaskRecord
  BY Known
<1>3. Owns(d) /\ disp[d].pc = "completed" => AllDone
  BY DEF Owns, Progress, CommitsTrue
<1>4. \E next : TaskStep(d, next) /\ (next.pc \notin {"completed", "commit"} \/ AllDone)
  BY <1>2, <1>3 DEF ReadForCommit, IdleTask, TaskRecord
<1> QED BY <1>1, <1>4, ProgTaskQuiet

\* COMMIT_RUNTIME_TERMINAL completes an instance only with the claim.
LEMMA ProgCommitRuntimeTerminal ==
  ASSUME Lifecycle, Progress, NEW d \in Dispatchers, CommitRuntimeTerminal(d) PROVE ProgStep
<1>1. UNCHANGED <<steps, events, run>> /\ TaskStep(d, IdleTask)
  BY ZenonT(40) DEF CommitRuntimeTerminal
<1>2. \/ inst' = inst
      \/ \E status, at :
           /\ Owns(d) /\ status \in {"completed", "failed"}
           /\ status = "completed" => disp[d].pc = "commit"
           /\ inst' = [DropRun(inst) EXCEPT !.status = status, !.retentionExpires = at]
  BY Zenon DEF CommitRuntimeTerminal
<1>3. Owns(d) /\ disp[d].pc = "commit" => AllDone
  BY DEF Owns, Progress, CommitsTrue
<1>4. \A status, at :
        /\ [DropRun(inst) EXCEPT !.status = status, !.retentionExpires = at].status = status
        /\ [DropRun(inst) EXCEPT !.status = status, !.retentionExpires = at].runToken = 0
  <2>1. DropRun(inst) \in InstRecord /\ DropRun(inst).runToken = 0
    BY Known, DropFields
  <2> QED BY <2>1 DEF InstRecord
<1>5. inst' = inst \/ (inst'.runToken = 0 /\ (inst'.status = "completed" => AllDone))
  <2>1. CASE inst' = inst
    BY <2>1
  <2>2. ASSUME NEW status, NEW at, Owns(d), status = "completed" => disp[d].pc = "commit",
               inst' = [DropRun(inst) EXCEPT !.status = status, !.retentionExpires = at]
        PROVE inst'.runToken = 0 /\ (inst'.status = "completed" => AllDone)
    <3>1. inst'.status = status /\ inst'.runToken = 0
      BY <1>4, <2>2
    <3> QED BY <1>3, <2>2, <3>1
  <2> QED BY <1>2, <2>1, <2>2, Zenon
<1> QED BY <1>1, <1>5, ProgTaskQuiet DEF IdleTask

\* A task that is lost or stops waiting holds no outcome.
LEMMA ProgTaskFaults ==
  ASSUME Lifecycle, Progress, NEW d \in Dispatchers, DispatchTimeout(d) \/ CrashTask(d)
  PROVE ProgStep
<1>1. UNCHANGED <<inst, steps, events>>
  BY DEF DispatchTimeout, CrashTask, Fault, redisVars
<1>2. disp[d] \in TaskRecord /\ disp[d].token \in Nat
  BY Known DEF TaskRecord
<1>3. run' \in {run, [run EXCEPT ![disp[d].token].outcome = "none"]}
  BY DEF DispatchTimeout, CrashTask
<1>4. \E next : disp' = [disp EXCEPT ![d] = next] /\ next.pc \notin {"completed", "commit"}
  BY <1>2, Known DEF DispatchTimeout, CrashTask, IdleTask, TaskRecord
<1>5. \A e \in Dispatchers : \/ disp'[e] = disp[e]
                             \/ disp'[e].pc \notin {"completed", "commit"} \/ AllDone
  BY <1>4, Known
<1> QED BY <1>1, <1>2, <1>3, <1>5, OutcomeTaken, ProgQuiet, SMTT(30)

\* MOVE_DUE_TOKEN drops an expired claim.
LEMMA ProgMoveDue ==
  ASSUME Lifecycle, Progress, MoveDue PROVE ProgStep
<1>1. UNCHANGED <<steps, events, run, disp>> /\ inst' \in {inst, DropClaim(inst)}
  BY DEF MoveDue
<1> QED BY <1>1, DropLeaves, ProgDrop

\* The retention pass deletes an instance with its records and events.
LEMMA ProgCleaner ==
  ASSUME Lifecycle, Progress, CleanerNext PROVE ProgStep
<1>1. UNCHANGED <<run, disp>>
  BY ZenonT(40) DEF CleanerNext, ListRetention, PlanRetention, RemoveRetentionToken, CleanupRetention,
         CleanerStep
<1>2. \/ UNCHANGED <<inst, steps, events>>
      \/ inst' = Missing /\ steps' = NoSteps /\ events' = <<>>
  BY Zenon DEF CleanerNext, ListRetention, PlanRetention, RemoveRetentionToken, CleanupRetention,
         redisVars
<1>3. Missing.runToken = 0 /\ Missing.status = "missing"
  BY DEF Missing
<1> QED BY <1>1, <1>2, <1>3, ProgDrop, ProgReset

\* Steps that leave the instance, its records and its runs alone.
LEMMA ProgIdle ==
  ASSUME Lifecycle, Progress,
         PruneShard \/ Tick \/ (\E c \in Callers : CrashCall(c)) \/ UNCHANGED vars
  PROVE ProgStep
<1>1. UNCHANGED <<inst, steps, events, run, disp>>
  BY DEF PruneShard, Tick, CrashCall, Fault, vars, redisVars
<1> QED BY <1>1, ProgDrop

=============================================================================
