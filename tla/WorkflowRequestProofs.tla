---------------------- MODULE WorkflowRequestProofs ----------------------
(***************************************************************************)
(* Lifecycle is kept by what requests and dispatch tasks do to a Workflow  *)
(* instance (the public operations, and the scripts of a dispatch turn),   *)
(* by the indexes, the retention pass and the clock.                       *)
(***************************************************************************)
EXTENDS WorkflowInvariant, TLAPS

\* What every step is shown to do.
LifeStep == Lifecycle' /\ StoppedStep /\ PublicStep

-----------------------------------------------------------------------------
(* Frames: what an action must show that changes only some of the state. *)

\* The durations and bounds are numbers, and an id outlives a create.
LEMMA Numbers ==
  /\ ClockLag \in Nat /\ CreateWait \in Nat /\ Retention \in Nat /\ PendingTTL \in Nat
  /\ Lease \in Nat /\ MaxTime \in Nat /\ MaxClaims \in Nat
  /\ Retention > CreateWait + ClockLag /\ Retention > 2 * ClockLag
BY WorkflowAssumption

\* The claim counter is within its bound.
LEMMA ClaimsTyped == ASSUME Lifecycle PROVE claims \in 0..MaxClaims /\ claims \in Nat
<1>1. claims \in 0..MaxClaims
  BY DEF Lifecycle, TypeOK
<1> QED BY <1>1, Numbers

\* The time argument of a script trails the clock by at most ClockLag.
LEMMA TimesBelow ==
  ASSUME now \in Nat, NEW t \in Times
  PROVE t \in Nat /\ t <= now /\ now <= t + ClockLag
BY Numbers DEF Times

\* The next state of one request keeps the invariant if what it leaves of the
\* Redis state does, and if what it read, if anything, is public.
LEMMA CallerFrame ==
  ASSUME Lifecycle, NEW c \in Callers, NEW r \in CallRecord,
         call' = [call EXCEPT ![c] = r], UNCHANGED <<now, disp, run, cleaner, claims>>,
         RedisTypeOK', creates' \in Nat, faults' \in Nat,
         HintsMatchStatus', RetentionIndexed', RetentionLasts', inst'.createdAtMs <= now,
         \A id \in Ids : ReadPublic(inst, now, id) => ReadPublic(inst', now, id),
         r.createdAt <= now, r.pc = "script" => ReadPublic(inst, now, r.id)
  PROVE Lifecycle'
<1>1. /\ call \in [Callers -> CallRecord] /\ call' \in [Callers -> CallRecord]
      /\ \A x \in Callers : call'[x] = IF x = c THEN r ELSE call[x]
  BY DEF Lifecycle, TypeOK
<1>2. TypeOK'
  BY <1>1 DEF Lifecycle, TypeOK
<1>3. ClocksBehind'
  BY <1>1 DEF Lifecycle, ClocksBehind
<1>4. ScriptsRead'
  <2> SUFFICES ASSUME NEW x \in Callers, call'[x].pc = "script"
               PROVE ReadPublic(inst', now', call'[x].id)
    BY DEF ScriptsRead
  <2>1. call'[x].id \in Ids
    BY <1>1 DEF CallRecord
  <2>2. ReadPublic(inst, now, call'[x].id)
    BY <1>1 DEF Lifecycle, ScriptsRead
  <2> QED BY <2>1, <2>2
<1>5. TasksShaped' /\ CleanerShaped'
  BY DEF Lifecycle, TasksShaped, CleanerShaped
<1> QED BY <1>2, <1>3, <1>4, <1>5 DEF Lifecycle

\* A request that leaves Redis alone.
LEMMA CallerQuiet ==
  ASSUME Lifecycle, NEW c \in Callers, NEW r \in CallRecord,
         CallerStep(c, r), UNCHANGED redisVars, creates' \in Nat,
         r.createdAt <= now, r.pc = "script" => ReadPublic(inst, now, r.id)
  PROVE LifeStep
<1>1. /\ UNCHANGED <<inst, steps, events, ready, active, due, retention>>
      /\ UNCHANGED <<now, disp, run, cleaner, claims, faults>>
      /\ call' = [call EXCEPT ![c] = r]
  BY DEF redisVars, CallerStep
<1>2. RedisTypeOK' /\ faults' \in Nat
  BY <1>1 DEF Lifecycle, TypeOK, RedisTypeOK
<1>3. HintsMatchStatus' /\ RetentionIndexed' /\ RetentionLasts'
  BY <1>1 DEF Lifecycle, HintsMatchStatus, RetentionIndexed, RetentionLasts, IsTerminal
<1>4. inst'.createdAtMs <= now
  BY <1>1 DEF Lifecycle, ClocksBehind
<1>5. Lifecycle'
  BY <1>1, <1>2, <1>3, <1>4, CallerFrame, Zenon
<1>6. StoppedStep /\ PublicStep
  BY <1>1 DEF StoppedStep, PublicStep, Exists
<1> QED BY <1>5, <1>6 DEF LifeStep

\* A step of the tasks, of the runs or of time that leaves requests and the
\* cleaner alone, and an instance visible that is so.
LEMMA TaskFrame ==
  ASSUME Lifecycle, TypeOK', UNCHANGED <<now, call, cleaner>>,
         HintsMatchStatus', RetentionIndexed', RetentionLasts', TasksShaped',
         inst' = inst \/ (Visible(inst) /\ Visible(inst') /\ inst'.createdAtMs = inst.createdAtMs)
  PROVE Lifecycle' /\ PublicStep
<1>1. ClocksBehind'
  BY DEF Lifecycle, ClocksBehind
<1>2. ScriptsRead'
  BY DEF Lifecycle, ScriptsRead, ReadPublic, Visible
<1>3. CleanerShaped'
  BY DEF Lifecycle, CleanerShaped
<1>4. PublicStep
  BY DEF PublicStep, Exists, Visible
<1> QED BY <1>1, <1>2, <1>3, <1>4 DEF Lifecycle

-----------------------------------------------------------------------------
(* Requests that leave Redis alone. *)

\* A new request starts.
LEMMA LifeBeginCall ==
  ASSUME Lifecycle, NEW c \in Callers, BeginCall(c) PROVE LifeStep
<1>1. PICK op \in Workload :
        CallerStep(c, [IdleCall EXCEPT !.op = op,
                         !.pc = IF op = "create" THEN "create" ELSE "read"])
  BY Zenon DEF BeginCall
<1> DEFINE r == [IdleCall EXCEPT !.op = op, !.pc = IF op = "create" THEN "create" ELSE "read"]
<1>2. r \in CallRecord /\ r.createdAt = 0 /\ r.pc # "script"
  BY Zenon DEF IdleCall, CallRecord, CallPcs, Ids, NoId
<1>3. CallerStep(c, r) /\ UNCHANGED redisVars /\ creates' \in Nat
  BY <1>1 DEF BeginCall, Lifecycle, TypeOK
<1>4. 0 <= now
  BY DEF Lifecycle, TypeOK
<1> HIDE DEF r
<1> QED BY <1>2, <1>3, <1>4, CallerQuiet

\* An idle request is one.
LEMMA IdleCallTyped ==
  IdleCall \in CallRecord /\ IdleCall.createdAt = 0 /\ IdleCall.pc = "idle"
BY DEF IdleCall, CallRecord, CallPcs, Ids, NoId

\* A request ends without touching Redis.
LEMMA LifeEndCall ==
  ASSUME Lifecycle, NEW c \in Callers, CallerStep(c, IdleCall), UNCHANGED redisVars,
         creates' \in Nat
  PROVE LifeStep
<1>1. 0 <= now
  BY DEF Lifecycle, TypeOK
<1> QED BY <1>1, IdleCallTyped, CallerQuiet

\* The places a request may be at.
LEMMA CallPcsHave ==
  {"create", "await", "awaitCleanup", "verify", "finalize", "undo", "read", "script"}
    \subseteq CallPcs
BY DEF CallPcs

\* A change of the program counter, of the token or of the id.
LEMMA CallFields ==
  ASSUME Lifecycle, NEW c \in Callers
  PROVE /\ call[c] \in CallRecord /\ call[c].createdAt <= now /\ call[c].token \in Nat
        /\ call[c].createdAt \in Nat /\ call[c].id \in Ids
        /\ \A pc \in CallPcs :
             /\ [call[c] EXCEPT !.pc = pc] \in CallRecord
             /\ [call[c] EXCEPT !.pc = pc].pc = pc
             /\ [call[c] EXCEPT !.pc = pc].createdAt = call[c].createdAt
<1>1. call[c] \in CallRecord /\ call[c].createdAt <= now
  BY DEF Lifecycle, TypeOK, ClocksBehind
<1>2. call[c].token \in Nat /\ call[c].createdAt \in Nat /\ call[c].id \in Ids
  BY <1>1 DEF CallRecord
<1>3. ASSUME NEW pc \in CallPcs
      PROVE /\ [call[c] EXCEPT !.pc = pc] \in CallRecord
            /\ [call[c] EXCEPT !.pc = pc].pc = pc
            /\ [call[c] EXCEPT !.pc = pc].createdAt = call[c].createdAt
  BY <1>1 DEF CallRecord
<1> QED BY <1>1, <1>2, <1>3

\* One poll of a create that found another's state.
LEMMA LifeAwaitCreate ==
  ASSUME Lifecycle, NEW c \in Callers, AwaitCreate(c) PROVE LifeStep
<1>0. call[c] \in CallRecord /\ call[c].createdAt <= now
  BY CallFields
<1>1. UNCHANGED redisVars /\ creates' \in Nat
  BY DEF AwaitCreate, Lifecycle, TypeOK
<1>2. CASE CallerStep(c, IdleCall)
  BY <1>1, <1>2, LifeEndCall
<1>3. CASE CallerStep(c, [call[c] EXCEPT !.pc = "create", !.retried = TRUE])
  <2> DEFINE r == [call[c] EXCEPT !.pc = "create", !.retried = TRUE]
  <2>1. r \in CallRecord /\ r.createdAt <= now /\ r.pc # "script"
    <3>1. r \in CallRecord
      BY <1>0, CallPcsHave, Zenon DEF CallRecord
    <3>2. r.createdAt = call[c].createdAt /\ r.pc # "script"
      BY <1>0 DEF CallRecord
    <3> QED BY <3>1, <3>2, <1>0
  <2>2. CallerStep(c, r)
    BY <1>3
  <2> HIDE DEF r
  <2> QED BY <1>1, <2>1, <2>2, CallerQuiet
<1>4. CASE CallerStep(c, [call[c] EXCEPT !.pc = "awaitCleanup",
                            !.id.generation = inst.pendingToken])
  <2> DEFINE r == [call[c] EXCEPT !.pc = "awaitCleanup", !.id.generation = inst.pendingToken]
  <2>1. inst.pendingToken \in Nat
    BY DEF Lifecycle, TypeOK, RedisTypeOK, InstRecord
  <2>2. r \in CallRecord /\ r.createdAt <= now /\ r.pc # "script"
    <3>1. r \in CallRecord
      BY <1>0, <2>1, CallPcsHave, Zenon DEF CallRecord, Ids
    <3>2. r.createdAt = call[c].createdAt /\ r.pc # "script"
      BY <1>0, <2>1 DEF CallRecord
    <3> QED BY <3>1, <3>2, <1>0, <2>1
  <2>3. CallerStep(c, r)
    BY <1>4
  <2> HIDE DEF r
  <2> QED BY <1>1, <2>2, <2>3, CallerQuiet
<1> QED BY <1>2, <1>3, <1>4 DEF AwaitCreate

\* The checks between create and finalize.
LEMMA LifeVerifyCreate ==
  ASSUME Lifecycle, NEW c \in Callers, VerifyCreate(c) PROVE LifeStep
<1>1. PICK next \in {"finalize", "undo"} : CallerStep(c, [call[c] EXCEPT !.pc = next])
  BY DEF VerifyCreate
<1> DEFINE r == [call[c] EXCEPT !.pc = next]
<1>0. call[c] \in CallRecord /\ call[c].createdAt <= now
  BY CallFields
<1>2. r \in CallRecord /\ r.createdAt <= now /\ r.pc # "script"
  BY <1>0 DEF CallRecord, CallPcs
<1>3. CallerStep(c, r) /\ UNCHANGED redisVars /\ creates' \in Nat
  BY <1>1 DEF VerifyCreate, Lifecycle, TypeOK
<1> HIDE DEF r
<1> QED BY <1>2, <1>3, CallerQuiet

\* A read of the public state; only a visible instance is acted on.
LEMMA LifeReadPublicState ==
  ASSUME Lifecycle, NEW c \in Callers, ReadPublicState(c) PROVE LifeStep
<1>0. call[c] \in CallRecord /\ call[c].createdAt <= now
  BY CallFields
<1>1. UNCHANGED redisVars /\ creates' \in Nat
  BY DEF ReadPublicState, Lifecycle, TypeOK
<1>2. inst \in InstRecord
  BY DEF Lifecycle, TypeOK, RedisTypeOK
<1>3. CASE CallerStep(c, IdleCall)
  BY <1>1, <1>3, LifeEndCall
<1>4. CASE CallerStep(c, [call[c] EXCEPT !.pc = "undo", !.token = inst.pendingToken])
  <2> DEFINE r == [call[c] EXCEPT !.pc = "undo", !.token = inst.pendingToken]
  <2>1. r \in CallRecord /\ r.createdAt <= now /\ r.pc # "script"
    <3>0. inst.pendingToken \in Nat
      BY <1>2 DEF InstRecord
    <3>1. r \in CallRecord
      BY <1>0, <3>0, CallPcsHave, Zenon DEF CallRecord
    <3>2. r.createdAt = call[c].createdAt /\ r.pc # "script"
      BY <1>0, <1>2 DEF CallRecord
    <3> QED BY <3>1, <3>2, <1>0, <1>2
  <2>2. CallerStep(c, r)
    BY <1>4
  <2> HIDE DEF r
  <2> QED BY <1>1, <2>1, <2>2, CallerQuiet
<1>5. CASE /\ Exists /\ inst.status # "pending_create"
           /\ CallerStep(c, [call[c] EXCEPT !.pc = "script", !.id = Identity(inst)])
  <2> DEFINE r == [call[c] EXCEPT !.pc = "script", !.id = Identity(inst)]
  <2>0. Identity(inst) \in Ids
    BY <1>2 DEF Identity, Ids, InstRecord
  <2>1. r \in CallRecord /\ r.createdAt = call[c].createdAt /\ r.id = Identity(inst)
    BY <1>0, <2>0, CallPcsHave, Zenon DEF CallRecord
  <2>2. CallerStep(c, r)
    BY <1>5
  <2>3. ReadPublic(inst, now, r.id)
    BY <1>5, <2>1 DEF ReadPublic, Visible, Exists, Identity
  <2> HIDE DEF r
  <2> QED BY <1>0, <1>1, <2>1, <2>2, <2>3, CallerQuiet
<1> QED BY <1>3, <1>4, <1>5 DEF ReadPublicState

\* The refusals: a stale transition reads again, everything else ends.
LEMMA LifeRefused ==
  ASSUME Lifecycle, NEW c \in Callers,
         Refused(c) \/ AbortRestart(c) \/ CreateTimesOut(c)
  PROVE LifeStep
<1>1. UNCHANGED redisVars /\ creates' \in Nat
  BY DEF Refused, StaleTransition, AbortRestart, CreateTimesOut, Lifecycle, TypeOK
<1>2. CASE CallerStep(c, IdleCall)
  BY <1>1, <1>2, LifeEndCall
<1>3. CASE CallerStep(c, [IdleCall EXCEPT !.op = "status", !.pc = "read"])
  <2> DEFINE r == [IdleCall EXCEPT !.op = "status", !.pc = "read"]
  <2>1. r \in CallRecord /\ r.createdAt = 0 /\ r.pc # "script"
    BY Zenon DEF IdleCall, CallRecord, CallPcs, Ids, NoId
  <2>2. CallerStep(c, r)
    BY <1>3
  <2>3. 0 <= now
    BY DEF Lifecycle, TypeOK
  <2> HIDE DEF r
  <2> QED BY <1>1, <2>1, <2>2, <2>3, CallerQuiet
<1> QED BY <1>2, <1>3 DEF Refused, StaleTransition, AbortRestart, CreateTimesOut

-----------------------------------------------------------------------------
(* Requests that change the instance. *)

\* The create script makes a pending instance with a creation time that no
\* operation under way has read, or finds one.
LEMMA LifeCreateInstance ==
  ASSUME Lifecycle, NEW c \in Callers, CreateInstance(c) PROVE LifeStep
<1> DEFINE token == IF call[c].retried THEN call[c].token ELSE creates + 1
           made(t) == [call[c] EXCEPT !.token = token, !.createdAt = t]
<1>0. /\ now \in Nat /\ creates \in Nat /\ faults \in Nat /\ claims \in Nat
      /\ inst \in InstRecord /\ RedisTypeOK
  BY Numbers DEF Lifecycle, TypeOK, RedisTypeOK
<1>1. PICK t \in IF call[c].retried THEN {call[c].createdAt} ELSE Times :
        /\ call[c].retried => now <= t + CreateWait
        /\ creates' = IF call[c].retried THEN creates ELSE token
        /\ IF Exists
           THEN CallerStep(c, [made(t) EXCEPT !.pc = "await"]) /\ UNCHANGED inst
           ELSE inst' = NewInstance(t, token) /\ CallerStep(c, [made(t) EXCEPT !.pc = "verify"])
  BY Zenon DEF CreateInstance
<1>2. UNCHANGED <<steps, events, ready, active, due, retention>>
  BY DEF CreateInstance
<1>3. t \in Nat /\ t <= now /\ (now <= t + CreateWait \/ now <= t + ClockLag)
  BY <1>0, <1>1, TimesBelow, CallFields
<1>4. token \in Nat /\ creates' \in Nat
  BY <1>0, <1>1, CallFields
<1> HIDE DEF token
<1>5. \A pc \in CallPcs :
        /\ [made(t) EXCEPT !.pc = pc] \in CallRecord
        /\ [made(t) EXCEPT !.pc = pc].createdAt = t
        /\ [made(t) EXCEPT !.pc = pc].pc = pc
  BY <1>3, <1>4, CallFields, Zenon DEF CallRecord
<1> HIDE DEF made
<1>6. CASE Exists
  <2> DEFINE r == [made(t) EXCEPT !.pc = "await"]
  <2>1. r \in CallRecord /\ r.createdAt <= now /\ r.pc # "script"
    BY <1>3, <1>5 DEF CallPcs
  <2>2. CallerStep(c, r) /\ UNCHANGED redisVars
    BY <1>1, <1>2, <1>6 DEF redisVars
  <2> HIDE DEF r
  <2> QED BY <1>4, <2>1, <2>2, CallerQuiet
<1>7. CASE ~Exists
  <2> DEFINE r == [made(t) EXCEPT !.pc = "verify"]
  <2>1. r \in CallRecord /\ r.createdAt <= now /\ r.pc # "script"
    BY <1>3, <1>5 DEF CallPcs
  <2>2. inst' = NewInstance(t, token) /\ CallerStep(c, r)
    BY <1>1, <1>7
  <2> HIDE DEF r
  <2>3. /\ inst' \in InstRecord /\ inst'.status = "pending_create" /\ inst'.createdAtMs = t
        /\ inst'.runToken = 0
    <3>1. t + PendingTTL \in Nat
      BY <1>3, Numbers
    <3>2. inst' = [status |-> "pending_create", generation |-> 1, createdAtMs |-> t,
                   runToken |-> 0, lease |-> 0, waitPrefix |-> FALSE, pendingToken |-> token,
                   pendingExpires |-> t + PendingTTL, retentionExpires |-> 0]
      BY <2>2, Zenon DEF NewInstance, Missing
    <3> QED BY <1>3, <1>4, <3>1, <3>2 DEF InstRecord, Statuses
  <2>4. /\ call' = [call EXCEPT ![c] = r]
        /\ UNCHANGED <<now, disp, run, cleaner, claims, faults>>
    BY <2>2 DEF CallerStep
  <2>5. RedisTypeOK'
    BY <1>0, <1>2, <2>3, <2>4 DEF RedisTypeOK
  <2>6. inst.status = "missing"
    BY <1>7 DEF Exists
  <2>7. HintsMatchStatus' /\ RetentionIndexed' /\ RetentionLasts'
    BY <1>2, <2>3, <2>6 DEF Lifecycle, HintsMatchStatus, RetentionIndexed, RetentionLasts,
       IsTerminal, Terminal
  <2>8. \A id \in Ids : ReadPublic(inst, now, id) => ReadPublic(inst', now, id)
    BY <1>0, <1>3, <2>3, <2>6, Numbers DEF ReadPublic, Visible, Ids
  <2>9. Lifecycle'
    BY <1>0, <1>3, <1>4, <2>1, <2>3, <2>4, <2>5, <2>7, <2>8, CallerFrame, Zenon
  <2>10. StoppedStep /\ PublicStep
    BY <2>6 DEF StoppedStep, PublicStep, Exists, Terminal
  <2> QED BY <2>9, <2>10 DEF LifeStep
<1> QED BY <1>6, <1>7

\* CLEANUP_PENDING_CREATE removes only a pending instance.
LEMMA LifeCleanupPending ==
  ASSUME Lifecycle, NEW c \in Callers, NEW r \in CallRecord, NEW token,
         CallerStep(c, r), CleanupPendingCreate(token),
         UNCHANGED <<ready, active, due, retention, creates>>,
         r.createdAt <= now, r.pc # "script"
  PROVE LifeStep
<1>0. creates' \in Nat /\ faults \in Nat /\ RedisTypeOK /\ now \in Nat /\ claims \in Nat
  BY Numbers DEF Lifecycle, TypeOK
<1>1. CASE UNCHANGED <<inst, steps, events>>
  BY <1>0, <1>1, CallerQuiet DEF redisVars
<1>2. CASE inst.status = "pending_create" /\ inst' = Missing /\ steps' = NoSteps /\ events' = <<>>
  <2>1. /\ inst' \in InstRecord /\ inst'.status = "missing" /\ inst'.createdAtMs = 0
        /\ inst'.runToken = 0
    BY <1>2 DEF Missing, InstRecord, Statuses
  <2>2. steps' \in [Ordinals -> StepRecord] /\ events' \in Seq(EventRecord)
    BY <1>2 DEF NoSteps, NoStep, StepRecord
  <2>3. /\ call' = [call EXCEPT ![c] = r]
        /\ UNCHANGED <<now, disp, run, cleaner, claims, faults>>
    BY DEF CallerStep
  <2>4. RedisTypeOK'
    BY <1>0, <2>1, <2>2, <2>3 DEF RedisTypeOK
  <2>5. HintsMatchStatus' /\ RetentionIndexed' /\ RetentionLasts'
    BY <1>2, <2>1 DEF Lifecycle, HintsMatchStatus, RetentionIndexed, RetentionLasts,
       IsTerminal, Terminal
  <2>6. \A id \in Ids : ReadPublic(inst, now, id) => ReadPublic(inst', now, id)
    BY <1>2, <2>1 DEF ReadPublic, Visible
  <2>61. inst'.createdAtMs <= now /\ faults' \in Nat
    BY <1>0, <2>1, <2>3
  <2>7. Lifecycle'
    BY <1>0, <2>3, <2>4, <2>5, <2>6, <2>61, CallerFrame, Zenon
  <2>8. StoppedStep /\ PublicStep
    BY <1>2 DEF StoppedStep, PublicStep, Exists, Terminal
  <2> QED BY <2>7, <2>8 DEF LifeStep
<1> QED BY <1>1, <1>2 DEF CleanupPendingCreate

\* The two users of that script.
LEMMA LifeAwaitCleanup ==
  ASSUME Lifecycle, NEW c \in Callers, AwaitCleanup(c) \/ UndoCreate(c) PROVE LifeStep
<1>0. 0 <= now
  BY DEF Lifecycle, TypeOK
<1>1. CASE AwaitCleanup(c)
  <2> DEFINE r == [call[c] EXCEPT !.pc = "await", !.id = NoId]
  <2>0. call[c] \in CallRecord /\ call[c].createdAt <= now
    BY CallFields
  <2>1. r \in CallRecord /\ r.createdAt <= now /\ r.pc # "script"
    <3>1. r \in CallRecord
      BY <2>0, Zenon DEF CallRecord, CallPcs, NoId, Ids
    <3>2. r.createdAt = call[c].createdAt /\ r.pc # "script"
      BY <2>0 DEF CallRecord
    <3> QED BY <3>1, <3>2, <2>0
  <2>2. /\ CallerStep(c, r) /\ CleanupPendingCreate(call[c].id.generation)
        /\ UNCHANGED <<ready, active, due, retention, creates>>
    BY <1>1 DEF AwaitCleanup
  <2> HIDE DEF r
  <2> QED BY <2>1, <2>2, LifeCleanupPending
<1>2. CASE UndoCreate(c)
  <2>1. /\ CallerStep(c, IdleCall) /\ CleanupPendingCreate(call[c].token)
        /\ UNCHANGED <<ready, active, due, retention, creates>>
    BY <1>2 DEF UndoCreate
  <2>2. IdleCall.createdAt <= now /\ IdleCall.pc # "script"
    BY <1>0, IdleCallTyped
  <2> QED BY <2>1, <2>2, IdleCallTyped, LifeCleanupPending
<1> QED BY <1>1, <1>2

\* FINALIZE_CREATE queues the pending instance of its token.
LEMMA LifeFinalizeCreate ==
  ASSUME Lifecycle, NEW c \in Callers, FinalizeCreate(c) PROVE LifeStep
<1>0. /\ creates' \in Nat /\ faults \in Nat /\ RedisTypeOK /\ now \in Nat /\ claims \in Nat
      /\ CallerStep(c, IdleCall) /\ UNCHANGED <<steps, events, due, retention, creates>>
  BY Numbers DEF Lifecycle, TypeOK, FinalizeCreate
<1>1. CASE UNCHANGED <<inst, ready, active>>
  BY <1>0, <1>1, LifeEndCall DEF redisVars
<1>2. CASE /\ inst.status = "pending_create" /\ AddReady
           /\ inst' = [inst EXCEPT !.status = "queued", !.pendingToken = 0, !.pendingExpires = 0]
  <2>1. /\ inst' \in InstRecord /\ inst'.status = "queued"
        /\ inst'.createdAtMs = inst.createdAtMs /\ inst'.runToken = inst.runToken
    BY <1>0, <1>2, Zenon DEF RedisTypeOK, InstRecord, Statuses
  <2>2. /\ call' = [call EXCEPT ![c] = IdleCall]
        /\ UNCHANGED <<now, disp, run, cleaner, claims, faults>>
    BY <1>0 DEF CallerStep
  <2>3. RedisTypeOK'
    BY <1>0, <1>2, <2>1, <2>2 DEF RedisTypeOK, AddReady
  <2>4. HintsMatchStatus' /\ RetentionIndexed' /\ RetentionLasts'
    BY <1>0, <1>2, <2>1 DEF Lifecycle, HintsMatchStatus, RetentionIndexed, RetentionLasts,
       IsTerminal, Terminal, AddReady
  <2>5. \A id \in Ids : ReadPublic(inst, now, id) => ReadPublic(inst', now, id)
    BY <1>2, <2>1 DEF ReadPublic, Visible
  <2>6. inst'.createdAtMs <= now
    BY <2>1 DEF Lifecycle, ClocksBehind
  <2>61. IdleCall.createdAt <= now /\ IdleCall.pc # "script" /\ faults' \in Nat
    BY <1>0, <2>2, IdleCallTyped
  <2>7. Lifecycle'
    BY <1>0, <2>2, <2>3, <2>4, <2>5, <2>6, <2>61, IdleCallTyped, CallerFrame, Zenon
  <2>8. StoppedStep /\ PublicStep
    BY <1>2 DEF StoppedStep, PublicStep, Exists, Terminal
  <2> QED BY <2>7, <2>8 DEF LifeStep
<1> QED BY <1>1, <1>2 DEF FinalizeCreate

\* A script fenced on what was read finds a visible instance.
LEMMA TransitionVisible ==
  ASSUME Lifecycle, NEW c \in Callers, Transition(c)
  PROVE Visible(inst)
BY DEF Transition, SameIdentity, Identity, Lifecycle, ScriptsRead, ReadPublic, Visible

\* What the transitions to a new generation have in common.
LEMMA BumpedFields ==
  ASSUME inst \in InstRecord
  PROVE /\ Bumped \in InstRecord
        /\ Bumped.status = inst.status /\ Bumped.generation = inst.generation + 1
        /\ Bumped.createdAtMs = inst.createdAtMs /\ Bumped.runToken = 0
        /\ Bumped.retentionExpires = inst.retentionExpires
<1>1. inst.generation + 1 \in Nat
  BY DEF InstRecord
<1>2. DropClaim(inst) \in InstRecord
  BY Zenon DEF DropClaim, InstRecord
<1>3. DropRun(inst) \in InstRecord
  BY <1>2, Zenon DEF DropRun, InstRecord
<1>4. Bumped \in InstRecord
  BY <1>1, <1>3 DEF Bumped, InstRecord
<1> QED BY <1>4 DEF Bumped, DropRun, DropClaim, InstRecord

\* A lifecycle script (pause, resume, terminate, restart) that bumps the generation.
LEMMA LifeTransition ==
  ASSUME Lifecycle, NEW c \in Callers, Transition(c), CallerStep(c, IdleCall), creates' = creates,
         RedisTypeOK', HintsMatchStatus', RetentionIndexed', RetentionLasts',
         inst'.createdAtMs = inst.createdAtMs, Visible(inst'),
         (inst' = inst /\ steps' = steps) \/ inst'.generation > inst.generation
  PROVE LifeStep
<1>0. /\ creates' \in Nat /\ faults' \in Nat /\ 0 <= now
      /\ call' = [call EXCEPT ![c] = IdleCall] /\ UNCHANGED <<now, disp, run, cleaner, claims>>
  BY DEF Lifecycle, TypeOK, CallerStep
<1>1. \A id \in Ids : ReadPublic(inst, now, id) => ReadPublic(inst', now, id)
  BY TransitionVisible DEF ReadPublic, Visible
<1>2. inst'.createdAtMs <= now
  BY DEF Lifecycle, ClocksBehind
<1>3. Lifecycle'
  BY <1>0, <1>1, <1>2, IdleCallTyped, CallerFrame, Zenon
<1>4. StoppedStep /\ PublicStep
  BY DEF StoppedStep, PublicStep, Exists, Visible
<1> QED BY <1>3, <1>4 DEF LifeStep

\* Pause, resume, terminate and restart move to a new generation.
LEMMA LifePause ==
  ASSUME Lifecycle, NEW c \in Callers, Pause(c) PROVE LifeStep
<1>0. inst \in InstRecord /\ RedisTypeOK /\ claims \in Nat /\ Visible(inst)
  BY TransitionVisible, Numbers DEF Pause, Lifecycle, TypeOK, RedisTypeOK
<1>1. /\ Transition(c) /\ CallerStep(c, IdleCall) /\ RemoveReady /\ due' = 0
      /\ inst.status \notin Terminal
      /\ UNCHANGED <<steps, events, retention, creates, claims>>
  BY DEF Pause, CallerStep
<1>2. /\ inst' \in InstRecord /\ inst'.status = "paused" /\ inst'.runToken = 0
      /\ inst'.createdAtMs = inst.createdAtMs /\ inst'.generation > inst.generation
  <2>1. inst' = [Bumped EXCEPT !.status = "paused"]
    BY DEF Pause
  <2> QED BY <1>0, <2>1, BumpedFields DEF InstRecord, Statuses
<1>3. RedisTypeOK'
  <2>1. ready' \in BOOLEAN /\ active' \in BOOLEAN
    BY <1>0, <1>1, Zenon DEF RedisTypeOK, RemoveReady
  <2> QED BY <1>0, <1>1, <1>2, <2>1 DEF RedisTypeOK
<1>4. HintsMatchStatus' /\ RetentionIndexed' /\ RetentionLasts' /\ Visible(inst')
  BY <1>1, <1>2 DEF Lifecycle, HintsMatchStatus, RetentionIndexed, RetentionLasts,
     IsTerminal, Terminal, RemoveReady, Visible
<1> QED BY <1>1, <1>2, <1>3, <1>4, LifeTransition

\* RESUME: a paused instance is queued and made ready again.
LEMMA LifeResume ==
  ASSUME Lifecycle, NEW c \in Callers, Resume(c) PROVE LifeStep
<1>0. inst \in InstRecord /\ RedisTypeOK /\ claims \in Nat
  BY Numbers DEF Lifecycle, TypeOK, RedisTypeOK
<1>1. /\ Transition(c) /\ CallerStep(c, IdleCall) /\ AddReady /\ inst.status = "paused"
      /\ UNCHANGED <<steps, events, due, retention, creates, claims>>
  BY DEF Resume, CallerStep
<1>2. /\ inst' \in InstRecord /\ inst'.status = "queued" /\ inst'.runToken = 0
      /\ inst'.createdAtMs = inst.createdAtMs /\ inst'.generation > inst.generation
  <2>1. inst' = [Bumped EXCEPT !.status = "queued"]
    BY DEF Resume
  <2> QED BY <1>0, <2>1, BumpedFields DEF InstRecord, Statuses
<1>3. RedisTypeOK'
  BY <1>0, <1>1, <1>2 DEF RedisTypeOK, AddReady
<1>4. HintsMatchStatus' /\ RetentionIndexed' /\ RetentionLasts' /\ Visible(inst')
  BY <1>1, <1>2 DEF Lifecycle, HintsMatchStatus, RetentionIndexed, RetentionLasts,
     IsTerminal, Terminal, AddReady, Visible
<1> QED BY <1>1, <1>2, <1>3, <1>4, LifeTransition

\* TERMINATE: the instance ends, its hints go and its retention starts.
LEMMA LifeTerminate ==
  ASSUME Lifecycle, NEW c \in Callers, Terminate(c) PROVE LifeStep
<1>0. inst \in InstRecord /\ RedisTypeOK /\ claims \in Nat /\ now \in Nat
  BY Numbers DEF Lifecycle, TypeOK, RedisTypeOK
<1>1. /\ Transition(c) /\ CallerStep(c, IdleCall) /\ RemoveReady /\ due' = 0
      /\ UNCHANGED <<steps, events, creates, claims>>
  BY DEF Terminate, CallerStep
<1>2. PICK t \in Times :
        /\ inst' = [Bumped EXCEPT !.status = "terminated", !.retentionExpires = t + Retention]
        /\ retention' = t + Retention
  BY Zenon DEF Terminate
<1>3. t + Retention \in Nat /\ t + Retention + ClockLag >= now + Retention
  BY <1>0, TimesBelow, Numbers
<1>4. /\ inst' \in InstRecord /\ inst'.status = "terminated" /\ inst'.runToken = 0
      /\ inst'.createdAtMs = inst.createdAtMs /\ inst'.generation > inst.generation
      /\ inst'.retentionExpires = t + Retention
  <2>1. Bumped \in InstRecord /\ "terminated" \in Statuses
    BY <1>0, BumpedFields DEF Statuses, Terminal
  <2>2. inst' \in InstRecord
    BY <1>2, <1>3, <2>1, Zenon DEF InstRecord
  <2>3. /\ inst'.status = "terminated" /\ inst'.runToken = Bumped.runToken
        /\ inst'.createdAtMs = Bumped.createdAtMs /\ inst'.generation = Bumped.generation
        /\ inst'.retentionExpires = t + Retention
    BY <1>2, <2>1 DEF InstRecord
  <2>4. inst.generation \in Nat
    BY <1>0 DEF InstRecord
  <2> QED BY <1>0, <2>2, <2>3, <2>4, BumpedFields
<1>5. RedisTypeOK'
  <2>1. ready' \in BOOLEAN /\ active' \in BOOLEAN
    BY <1>0, <1>1, Zenon DEF RedisTypeOK, RemoveReady
  <2> QED BY <1>0, <1>1, <1>2, <1>3, <1>4, <2>1 DEF RedisTypeOK
<1>6. HintsMatchStatus' /\ RetentionIndexed' /\ Visible(inst')
  BY <1>1, <1>2, <1>4 DEF Lifecycle, HintsMatchStatus, RetentionIndexed,
     IsTerminal, Terminal, RemoveReady, Visible
<1>7. RetentionLasts'
  <2>1. inst.createdAtMs <= now /\ inst.createdAtMs \in Nat
    BY <1>0 DEF Lifecycle, ClocksBehind, InstRecord
  <2> QED BY <1>0, <1>3, <1>4, <2>1, Numbers, TimesBelow DEF RetentionLasts
<1> QED BY <1>1, <1>4, <1>5, <1>6, <1>7, LifeTransition

\* RESTART: the instance starts over, queued and ready.
LEMMA LifeRestart ==
  ASSUME Lifecycle, NEW c \in Callers, Restart(c) PROVE LifeStep
<1>0. inst \in InstRecord /\ RedisTypeOK /\ claims \in Nat
  BY Numbers DEF Lifecycle, TypeOK, RedisTypeOK
<1>1. /\ Transition(c) /\ CallerStep(c, IdleCall) /\ AddReady
      /\ steps' = NoSteps /\ events' = <<>> /\ due' = 0 /\ retention' = 0
      /\ UNCHANGED <<creates, claims>>
  BY DEF Restart, CallerStep
<1>2. /\ inst' \in InstRecord /\ inst'.status = "queued" /\ inst'.runToken = 0
      /\ inst'.createdAtMs = inst.createdAtMs /\ inst'.generation > inst.generation
  <2>1. inst' = [Bumped EXCEPT !.status = "queued", !.retentionExpires = 0]
    BY DEF Restart
  <2>2. Bumped \in InstRecord /\ "queued" \in Statuses
    BY <1>0, BumpedFields DEF Statuses
  <2>3. inst' \in InstRecord
    BY <2>1, <2>2, Zenon DEF InstRecord
  <2>4. /\ inst'.status = "queued" /\ inst'.runToken = Bumped.runToken
        /\ inst'.createdAtMs = Bumped.createdAtMs /\ inst'.generation = Bumped.generation
    BY <2>1, <2>2 DEF InstRecord
  <2>5. inst.generation \in Nat
    BY <1>0 DEF InstRecord
  <2> QED BY <1>0, <2>3, <2>4, <2>5, BumpedFields
<1>3. RedisTypeOK'
  BY <1>0, <1>1, <1>2 DEF RedisTypeOK, AddReady, NoSteps, NoStep, StepRecord
<1>4. HintsMatchStatus' /\ RetentionIndexed' /\ RetentionLasts' /\ Visible(inst')
  BY <1>1, <1>2 DEF HintsMatchStatus, RetentionIndexed, RetentionLasts,
     IsTerminal, Terminal, AddReady, Visible
<1> QED BY <1>1, <1>2, <1>3, <1>4, LifeTransition

\* An event is appended, and wakes an instance that is not paused.
LEMMA LifeSendEvent ==
  ASSUME Lifecycle, NEW c \in Callers, SendEvent(c) PROVE LifeStep
<1>0. inst \in InstRecord /\ RedisTypeOK /\ Visible(inst)
  BY TransitionVisible DEF SendEvent, Lifecycle, TypeOK, RedisTypeOK
<1>1. /\ Transition(c) /\ CallerStep(c, IdleCall) /\ inst.status \notin Terminal
      /\ IF inst.status # "paused" THEN AddReady ELSE UNCHANGED <<ready, active>>
      /\ UNCHANGED <<inst, steps, due, retention, creates, claims>>
  BY DEF SendEvent, CallerStep, IsTerminal
<1>2. events' \in Seq(EventRecord)
  <2>1. PICK type \in EventTypes : events' = Append(events, [type |-> type, by |-> 0])
    BY DEF SendEvent
  <2>2. [type |-> type, by |-> 0] \in EventRecord
    BY DEF EventRecord
  <2> QED BY <1>0, <2>1, <2>2 DEF RedisTypeOK
<1>3. RedisTypeOK'
  BY <1>0, <1>1, <1>2, Zenon DEF RedisTypeOK, AddReady
<1>4. HintsMatchStatus' /\ RetentionIndexed' /\ RetentionLasts' /\ Visible(inst')
  <2>1. inst.status \in {"queued", "running", "waiting", "paused"}
    BY <1>0, <1>1 DEF InstRecord, Statuses, Visible
  <2> QED BY <1>0, <1>1, <2>1 DEF Lifecycle, HintsMatchStatus, RetentionIndexed, RetentionLasts,
         IsTerminal, AddReady, Visible
<1> QED BY <1>1, <1>3, <1>4, LifeTransition

-----------------------------------------------------------------------------
(* Dispatch tasks. *)

\* Task d goes to r; it changes no other task, request or clock.
TaskMoves(d, r) ==
  /\ disp' = [disp EXCEPT ![d] = r]
  /\ UNCHANGED <<now, call, cleaner, creates>> /\ faults' \in Nat

\* The next state of one task keeps the invariant if what it leaves of the
\* Redis state does, and if it holds a token from its claim on.
LEMMA TaskKeeps ==
  ASSUME Lifecycle, NEW d \in Dispatchers, NEW r \in TaskRecord, TaskMoves(d, r),
         RedisTypeOK', run' \in [Tokens -> RunRecord], claims' \in 0..MaxClaims, claims <= claims',
         r.token <= claims', r.pc \in HoldsToken => r.token # 0,
         r.pc \in HoldsToken \cup {"claim"} => r.prev \in {"queued", "waiting"},
         HintsMatchStatus', RetentionIndexed', RetentionLasts',
         inst' = inst \/ (Visible(inst) /\ Visible(inst') /\ inst'.createdAtMs = inst.createdAtMs)
  PROVE Lifecycle' /\ PublicStep
<1>1. /\ disp \in [Dispatchers -> TaskRecord] /\ disp' = [disp EXCEPT ![d] = r]
      /\ UNCHANGED <<now, call, cleaner, creates>> /\ faults' \in Nat
  BY DEF Lifecycle, TypeOK, TaskMoves
<1>2. /\ disp' \in [Dispatchers -> TaskRecord]
      /\ \A x \in Dispatchers : disp'[x] = IF x = d THEN r ELSE disp[x]
  BY <1>1
<1>3. \A x \in Dispatchers : disp'[x].token <= claims'
  <2> TAKE x \in Dispatchers
  <2>1. disp[x].token <= claims /\ disp[x].token \in Nat /\ claims \in Nat /\ claims' \in Nat
    BY <1>1, Numbers DEF Lifecycle, TypeOK, TaskRecord
  <2> QED BY <1>2, <2>1
<1>4. TypeOK'
  BY <1>1, <1>2, <1>3 DEF Lifecycle, TypeOK
<1>5. TasksShaped'
  BY <1>2 DEF Lifecycle, TasksShaped
<1> QED BY <1>1, <1>4, <1>5, TaskFrame

\* A task that leaves Redis and the runs alone.
LEMMA TaskQuiet ==
  ASSUME Lifecycle, NEW d \in Dispatchers, NEW r \in TaskRecord, TaskMoves(d, r),
         UNCHANGED <<inst, steps, events, due, retention, claims>>,
         ready' \in BOOLEAN, active' \in BOOLEAN, ready' => active',
         ready' => inst.status \in {"queued", "running", "waiting"},
         run' \in [Tokens -> RunRecord],
         r.token <= claims, r.pc \in HoldsToken => r.token # 0,
         r.pc \in HoldsToken \cup {"claim"} => r.prev \in {"queued", "waiting"}
  PROVE LifeStep
<1>1. RedisTypeOK' /\ claims' \in 0..MaxClaims /\ claims <= claims'
  BY Numbers DEF Lifecycle, TypeOK, RedisTypeOK
<1>2. HintsMatchStatus' /\ RetentionIndexed' /\ RetentionLasts'
  BY DEF Lifecycle, HintsMatchStatus, RetentionIndexed, RetentionLasts, IsTerminal
<1>3. Lifecycle' /\ PublicStep
  BY <1>1, <1>2, TaskKeeps
<1>4. StoppedStep
  BY DEF StoppedStep
<1> QED BY <1>3, <1>4 DEF LifeStep

\* What a task holds.
LEMMA TaskFields ==
  ASSUME Lifecycle, NEW d \in Dispatchers
  PROVE /\ disp[d] \in TaskRecord /\ disp[d].token \in Nat /\ disp[d].token <= claims
        /\ claims \in Nat /\ run \in [Tokens -> RunRecord] /\ inst \in InstRecord /\ RedisTypeOK
        /\ now \in Nat
        /\ ready \in BOOLEAN /\ active \in BOOLEAN /\ (ready => active)
        /\ ready => inst.status \in {"queued", "running", "waiting"}
        /\ disp[d].pc \in HoldsToken => disp[d].token # 0 /\ disp[d].token \in Tokens
        /\ disp[d].pc \in HoldsToken \cup {"claim"} => disp[d].prev \in {"queued", "waiting"}
        /\ IdleTask \in TaskRecord /\ IdleTask.token = 0 /\ IdleTask.pc = "idle"
<1>1. /\ disp[d] \in TaskRecord /\ disp[d].token <= claims /\ claims \in 0..MaxClaims
      /\ run \in [Tokens -> RunRecord] /\ RedisTypeOK /\ now \in Nat
  BY Numbers DEF Lifecycle, TypeOK
<1>2. disp[d].token \in Nat /\ claims \in Nat /\ claims <= MaxClaims
  BY <1>1, Numbers DEF TaskRecord
<1>3. inst \in InstRecord /\ ready \in BOOLEAN /\ active \in BOOLEAN
  BY <1>1 DEF RedisTypeOK
<1>4. (ready => active) /\ (ready => inst.status \in {"queued", "running", "waiting"})
  BY DEF Lifecycle, HintsMatchStatus
<1>5. /\ disp[d].pc \in HoldsToken => disp[d].token # 0
      /\ disp[d].pc \in HoldsToken \cup {"claim"} => disp[d].prev \in {"queued", "waiting"}
  BY DEF Lifecycle, TasksShaped
<1>6. disp[d].token # 0 => disp[d].token \in Tokens
  BY <1>1, <1>2, Numbers DEF Tokens
<1>7. IdleTask \in TaskRecord /\ IdleTask.token = 0 /\ IdleTask.pc = "idle"
  BY DEF IdleTask, TaskRecord, TaskPcs, Ids, NoId
<1> QED BY <1>1, <1>2, <1>3, <1>4, <1>5, <1>6, <1>7

\* The identity read from the instance has the type of one.
LEMMA IdentityTyped ==
  ASSUME inst \in InstRecord PROVE Identity(inst) \in Ids
BY DEF Identity, Ids, InstRecord

\* Removing the token leaves the ready set consistent with its shard.
LEMMA RemoveTyped ==
  ASSUME ready \in BOOLEAN, active \in BOOLEAN, ready => active,
         RemoveReady \/ UNCHANGED <<ready, active>>
  PROVE ready' \in BOOLEAN /\ active' \in BOOLEAN /\ (ready' => active') /\ (ready' => ready)
<1>1. CASE RemoveReady
  BY <1>1, Zenon DEF RemoveReady
<1>2. CASE UNCHANGED <<ready, active>>
  BY <1>2
<1> QED BY <1>1, <1>2

\* A step of the tick changes one task and no request.
LEMMA TaskStepMoves ==
  ASSUME Lifecycle, NEW d \in Dispatchers, NEW r, TaskStep(d, r)
  PROVE TaskMoves(d, r)
BY DEF Lifecycle, TypeOK, TaskStep, TaskMoves

\* A task that ends, or that goes on to a step before its claim.
LEMMA LifeTaskEnds ==
  ASSUME Lifecycle, NEW d \in Dispatchers, TaskStep(d, IdleTask),
         UNCHANGED <<inst, steps, events, due, retention, claims, run>>,
         ready' \in BOOLEAN, active' \in BOOLEAN, ready' => active',
         ready' => inst.status \in {"queued", "running", "waiting"}
  PROVE LifeStep
<1>1. IdleTask.token <= claims /\ IdleTask.pc \notin HoldsToken \cup {"claim"}
  BY TaskFields DEF HoldsToken
<1> QED BY <1>1, TaskFields, TaskStepMoves, TaskQuiet

\* Sampling a ready token.
LEMMA LifeSample ==
  ASSUME Lifecycle, NEW d \in Dispatchers, Sample(d) PROVE LifeStep
<1> DEFINE r == [IdleTask EXCEPT !.pc = "read"]
<1>1. r \in TaskRecord /\ r.token <= claims /\ r.pc \notin HoldsToken \cup {"claim"}
  BY TaskFields DEF IdleTask, TaskRecord, TaskPcs, HoldsToken
<1>2. /\ TaskStep(d, r) /\ UNCHANGED <<inst, steps, events, ready, active, due, retention>>
      /\ UNCHANGED <<claims, run>>
  BY DEF Sample, redisVars
<1> HIDE DEF r
<1> QED BY <1>1, <1>2, TaskFields, TaskStepMoves, TaskQuiet

\* The ways a sampled token goes on.
LEMMA PrepareCases ==
  ASSUME NEW d, PrepareReadyToken(d)
  PROVE \/ TaskStep(d, IdleTask)
        \/ \E pc \in {"rmMissing", "requeue", "rmTerminal"} :
             TaskStep(d, [IdleTask EXCEPT !.pc = pc, !.id = Identity(inst)])
        \/ /\ inst.status \in {"queued", "waiting"}
           /\ TaskStep(d, [[IdleTask EXCEPT !.pc = "claim", !.id = Identity(inst)]
                             EXCEPT !.prev = inst.status])
<1> DEFINE go(pc) == [IdleTask EXCEPT !.pc = pc, !.id = Identity(inst)]
           next == CASE inst.status = "missing" -> "rmMissing"
                     [] inst.status = "running" -> "requeue"
                     [] IsTerminal(inst) -> "rmTerminal"
                     [] inst.status \in {"queued", "waiting"} -> "claim"
                     [] OTHER -> "idle"
<1>1. TaskStep(d, IF next = "idle" THEN IdleTask
                  ELSE IF next = "claim" THEN [go("claim") EXCEPT !.prev = inst.status]
                  ELSE go(next))
  BY DEF PrepareReadyToken
<1>2. \/ next \in {"rmMissing", "requeue", "rmTerminal", "idle"}
      \/ next = "claim" /\ inst.status \in {"queued", "waiting"}
  BY DEF IsTerminal, Terminal
<1> HIDE DEF next
<1>3. CASE next = "idle"
  BY <1>1, <1>3
<1>4. CASE next = "claim" /\ inst.status \in {"queued", "waiting"}
  BY <1>1, <1>4
<1>5. CASE next \in {"rmMissing", "requeue", "rmTerminal"}
  <2>1. TaskStep(d, go(next))
    BY <1>1, <1>5
  <2> QED BY <1>5, <2>1, Zenon
<1> QED BY <1>2, <1>3, <1>4, <1>5

\* The decision on a sampled token; only queued and waiting are claimed.
LEMMA LifePrepareReadyToken ==
  ASSUME Lifecycle, NEW d \in Dispatchers, PrepareReadyToken(d) PROVE LifeStep
<1>1. /\ UNCHANGED <<inst, steps, events, ready, active, due, retention>>
      /\ UNCHANGED <<claims, run>>
  BY DEF PrepareReadyToken, redisVars
<1>2. CASE TaskStep(d, IdleTask)
  BY <1>1, <1>2, TaskFields, LifeTaskEnds
<1>3. CASE \E pc \in {"rmMissing", "requeue", "rmTerminal"} :
             TaskStep(d, [IdleTask EXCEPT !.pc = pc, !.id = Identity(inst)])
  <2>1. PICK pc \in {"rmMissing", "requeue", "rmTerminal"} :
          TaskStep(d, [IdleTask EXCEPT !.pc = pc, !.id = Identity(inst)])
    BY <1>3, Zenon
  <2> DEFINE r == [IdleTask EXCEPT !.pc = pc, !.id = Identity(inst)]
  <2>2. r \in TaskRecord /\ r.token <= claims /\ r.pc \notin HoldsToken \cup {"claim"}
    <3>1. Identity(inst) \in Ids /\ pc \in TaskPcs /\ IdleTask \in TaskRecord
      BY TaskFields, IdentityTyped DEF TaskPcs
    <3>2. r \in TaskRecord
      BY <3>1, Zenon DEF TaskRecord
    <3>3. r.token = IdleTask.token /\ r.pc = pc
      BY <3>1 DEF TaskRecord
    <3> QED BY <3>2, <3>3, TaskFields DEF HoldsToken
  <2>3. TaskStep(d, r)
    BY <2>1
  <2> HIDE DEF r
  <2> QED BY <1>1, <2>2, <2>3, TaskFields, TaskStepMoves, TaskQuiet
<1>4. CASE /\ inst.status \in {"queued", "waiting"}
           /\ TaskStep(d, [[IdleTask EXCEPT !.pc = "claim", !.id = Identity(inst)]
                             EXCEPT !.prev = inst.status])
  <2> DEFINE r == [[IdleTask EXCEPT !.pc = "claim", !.id = Identity(inst)]
                     EXCEPT !.prev = inst.status]
  <2>1. /\ r \in TaskRecord /\ r.token <= claims /\ r.pc \notin HoldsToken
        /\ r.prev \in {"queued", "waiting"}
    <3>1. /\ Identity(inst) \in Ids /\ "claim" \in TaskPcs /\ IdleTask \in TaskRecord
          /\ inst.status \in Statuses
      BY TaskFields, IdentityTyped DEF TaskPcs, InstRecord
    <3>2. r \in TaskRecord
      BY <3>1, ZenonT(40) DEF TaskRecord
    <3>3. r.token = IdleTask.token /\ r.pc = "claim" /\ r.prev = inst.status
      BY <3>1 DEF TaskRecord
    <3> QED BY <1>4, <3>2, <3>3, TaskFields DEF HoldsToken
  <2>2. TaskStep(d, r)
    BY <1>4
  <2> HIDE DEF r
  <2>3. /\ run' \in [Tokens -> RunRecord] /\ ready' \in BOOLEAN /\ active' \in BOOLEAN
        /\ (ready' => active') /\ (ready' => inst.status \in {"queued", "running", "waiting"})
    BY <1>1, TaskFields
  <2>4. TaskMoves(d, r)
    BY <2>2, TaskStepMoves
  <2> QED BY <1>1, <2>1, <2>3, <2>4, TaskQuiet
<1> QED BY <1>2, <1>3, <1>4, PrepareCases

\* Removing the token of a missing or terminal instance.
LEMMA LifeRemoveStaleToken ==
  ASSUME Lifecycle, NEW d \in Dispatchers, RemoveStaleToken(d) PROVE LifeStep
<1>1. /\ TaskStep(d, IdleTask) /\ UNCHANGED <<inst, steps, events, due, retention, claims, run>>
      /\ RemoveReady \/ UNCHANGED <<ready, active>>
  BY DEF RemoveStaleToken
<1>2. /\ ready' \in BOOLEAN /\ active' \in BOOLEAN /\ (ready' => active')
      /\ ready' => inst.status \in {"queued", "running", "waiting"}
  <2>0. /\ ready \in BOOLEAN /\ active \in BOOLEAN /\ (ready => active)
        /\ ready => inst.status \in {"queued", "running", "waiting"}
    BY TaskFields
  <2>1. ready' \in BOOLEAN /\ active' \in BOOLEAN /\ (ready' => active') /\ (ready' => ready)
    BY <1>1, <2>0, RemoveTyped
  <2> QED BY <2>0, <2>1
<1> QED BY <1>1, <1>2, LifeTaskEnds

\* The shape of a claim that is dropped.
LEMMA DropFields ==
  ASSUME inst \in InstRecord
  PROVE /\ DropClaim(inst) \in InstRecord /\ DropClaim(inst).runToken = 0
        /\ DropClaim(inst).status = inst.status
        /\ DropClaim(inst).generation = inst.generation
        /\ DropClaim(inst).createdAtMs = inst.createdAtMs
        /\ DropClaim(inst).retentionExpires = inst.retentionExpires
        /\ DropRun(inst) \in InstRecord /\ DropRun(inst).runToken = 0
        /\ DropRun(inst).status = inst.status
        /\ DropRun(inst).generation = inst.generation
        /\ DropRun(inst).createdAtMs = inst.createdAtMs
BY Zenon DEF DropClaim, DropRun, InstRecord

\* A task that moves the instance from one active status to another.
LEMMA TaskActive ==
  ASSUME Lifecycle, NEW d \in Dispatchers, NEW r \in TaskRecord, TaskStep(d, r),
         inst.status \in {"queued", "running", "waiting"}, inst' \in InstRecord,
         inst'.status \in {"queued", "running", "waiting"}, inst'.runToken <= claims',
         inst'.createdAtMs = inst.createdAtMs,
         UNCHANGED <<steps, events, due, retention>>,
         ready' \in BOOLEAN, active' \in BOOLEAN, ready' => active',
         run' \in [Tokens -> RunRecord], claims' \in 0..MaxClaims, claims <= claims',
         r.token <= claims', r.pc \in HoldsToken => r.token # 0,
         r.pc \in HoldsToken \cup {"claim"} => r.prev \in {"queued", "waiting"}
  PROVE LifeStep
<1>1. RedisTypeOK'
  BY DEF Lifecycle, TypeOK, RedisTypeOK
<1>2. HintsMatchStatus' /\ RetentionIndexed' /\ RetentionLasts'
  BY DEF Lifecycle, HintsMatchStatus, RetentionIndexed, RetentionLasts, IsTerminal, Terminal
<1>3. Visible(inst) /\ Visible(inst')
  BY DEF Visible
<1>4. Lifecycle' /\ PublicStep
  BY <1>1, <1>2, <1>3, TaskStepMoves, TaskKeeps
<1>5. StoppedStep
  BY DEF StoppedStep, Terminal
<1> QED BY <1>4, <1>5 DEF LifeStep

\* REQUEUE_EXPIRED_RUN.
LEMMA LifeRequeueExpiredRun ==
  ASSUME Lifecycle, NEW d \in Dispatchers, RequeueExpiredRun(d) PROVE LifeStep
<1>1. /\ TaskStep(d, IdleTask) /\ UNCHANGED <<steps, events, due, retention, claims, run>>
      /\ \/ UNCHANGED <<inst, ready, active>>
         \/ /\ inst.status = "running" /\ AddReady
            /\ inst' = [DropClaim(inst) EXCEPT !.status = "queued"]
  BY DEF RequeueExpiredRun
<1>2. CASE UNCHANGED <<inst, ready, active>>
  BY <1>1, <1>2, TaskFields, LifeTaskEnds
<1>3. CASE /\ inst.status = "running" /\ AddReady
           /\ inst' = [DropClaim(inst) EXCEPT !.status = "queued"]
  <2>1. /\ inst' \in InstRecord /\ inst'.status = "queued" /\ inst'.runToken = 0
        /\ inst'.createdAtMs = inst.createdAtMs
    BY <1>3, TaskFields, DropFields DEF InstRecord, Statuses
  <2>2. IdleTask.token <= claims' /\ IdleTask.pc \notin HoldsToken \cup {"claim"}
    BY <1>1, TaskFields DEF HoldsToken
  <2>3. claims' \in 0..MaxClaims /\ claims <= claims' /\ inst'.runToken <= claims'
    <3>1. claims' = claims
      BY <1>1
    <3> QED BY <2>1, <3>1, ClaimsTyped
  <2> QED BY <1>1, <1>3, <2>1, <2>2, <2>3, TaskFields, TaskActive DEF AddReady
<1> QED BY <1>1, <1>2, <1>3

\* A fresh run has the type of one.
LEMMA NoRunTyped ==
  ASSUME NEW g \in Nat, NEW b \in BOOLEAN
  PROVE [NoRun EXCEPT !.generation = g, !.open = b] \in RunRecord /\ NoRun \in RunRecord
<1>1. /\ [o \in Ordinals |-> "idle"] \in [Ordinals -> Phases]
      /\ [o \in Ordinals |-> 0] \in [Ordinals -> Int] /\ "none" \in Outcomes
  BY DEF Outcomes, Phases
<1>2. NoRun \in RunRecord
  BY <1>1 DEF NoRun, RunRecord
<1>3. [NoRun EXCEPT !.generation = g, !.open = b] \in RunRecord
  BY <1>2, Zenon DEF RunRecord
<1> QED BY <1>2, <1>3

\* CLAIM_RUN.
LEMMA LifeClaimRun ==
  ASSUME Lifecycle, NEW d \in Dispatchers, ClaimRun(d) PROVE LifeStep
<1>1. disp[d].pc = "claim" /\ UNCHANGED <<steps, events, ready, active, due, retention>>
  BY DEF ClaimRun
<1>2. CASE TaskStep(d, IdleTask) /\ UNCHANGED <<inst, run, claims>>
  BY <1>1, <1>2, TaskFields, LifeTaskEnds
<1>3. CASE \E t \in Times :
             /\ inst.status = disp[d].prev /\ claims + 1 <= MaxClaims
             /\ inst' = [inst EXCEPT !.status = "running", !.runToken = claims + 1,
                                     !.lease = t + Lease]
             /\ run' = [run EXCEPT ![claims + 1] = [NoRun EXCEPT !.generation = inst.generation,
                                                      !.open = TRUE]]
             /\ claims' = claims + 1
             /\ TaskStep(d, [disp[d] EXCEPT !.pc = "wait", !.token = claims + 1])
  <2> DEFINE r == [disp[d] EXCEPT !.pc = "wait", !.token = claims + 1]
  <2>1. PICK t \in Times :
             /\ inst.status = disp[d].prev /\ claims + 1 <= MaxClaims
             /\ inst' = [inst EXCEPT !.status = "running", !.runToken = claims + 1,
                                     !.lease = t + Lease]
             /\ run' = [run EXCEPT ![claims + 1] = [NoRun EXCEPT !.generation = inst.generation,
                                                      !.open = TRUE]]
             /\ claims' = claims + 1
             /\ TaskStep(d, r)
    BY <1>3, Zenon
  <2>2. /\ claims' \in 0..MaxClaims /\ claims <= claims' /\ claims + 1 \in Nat
        /\ t + Lease \in Nat /\ claims + 1 \in Tokens
    BY <2>1, TaskFields, TimesBelow, Numbers DEF Tokens
  <2>3. /\ inst' \in InstRecord /\ inst'.status = "running" /\ inst'.runToken = claims + 1
        /\ inst'.createdAtMs = inst.createdAtMs
    BY <2>1, <2>2, TaskFields, ZenonT(40) DEF InstRecord, Statuses
  <2>4. run' \in [Tokens -> RunRecord]
    <3>1. inst.generation \in Nat
      BY TaskFields DEF InstRecord
    <3> QED BY <2>1, <2>2, <3>1, TaskFields, NoRunTyped, Zenon
  <2>5. inst.status \in {"queued", "waiting"}
    BY <1>1, <2>1, TaskFields
  <2>6. /\ r \in TaskRecord /\ r.token = claims + 1 /\ r.pc = "wait"
        /\ r.prev \in {"queued", "waiting"}
    BY <1>1, <2>2, TaskFields, Zenon DEF TaskRecord, TaskPcs
  <2> HIDE DEF r
  <2>7. r.token <= claims' /\ r.token # 0 /\ inst'.runToken <= claims'
    <3>1. claims' = claims + 1 /\ claims \in Nat
      BY <2>1, TaskFields
    <3> QED BY <2>3, <2>6, <3>1
  <2>8. ready' \in BOOLEAN /\ active' \in BOOLEAN /\ (ready' => active')
    BY <1>1, TaskFields
  <2>9. /\ inst.status \in {"queued", "running", "waiting"}
        /\ inst'.status \in {"queued", "running", "waiting"}
    BY <2>3, <2>5
  <2>10. TaskStep(d, r)
    BY <2>1
  <2> QED BY <1>1, <2>2, <2>3, <2>4, <2>6, <2>7, <2>8, <2>9, <2>10, TaskActive
<1> QED BY <1>2, <1>3, Zenon DEF ClaimRun

\* Taking the outcome of a run leaves a run.
LEMMA OutcomeTyped ==
  ASSUME run \in [Tokens -> RunRecord], NEW k \in Tokens
  PROVE [run EXCEPT ![k].outcome = "none"] \in [Tokens -> RunRecord] /\ run[k].outcome \in Outcomes
<1>1. run[k] \in RunRecord
  OBVIOUS
<1>2. [run[k] EXCEPT !.outcome = "none"] \in RunRecord /\ run[k].outcome \in Outcomes
  BY <1>1 DEF RunRecord, Outcomes
<1> QED BY <1>2

\* finish_claimed_workflow.
LEMMA LifeReceive ==
  ASSUME Lifecycle, NEW d \in Dispatchers, Receive(d) PROVE LifeStep
<1> DEFINE k == disp[d].token
           pc == IF run[k].outcome = "infra" THEN "release" ELSE run[k].outcome
           r == [disp[d] EXCEPT !.pc = pc]
<1>1. /\ disp[d].pc = "wait" /\ run[k].outcome # "none" /\ TaskStep(d, r)
      /\ run' = [run EXCEPT ![k].outcome = "none"]
      /\ UNCHANGED <<inst, steps, events, ready, active, due, retention, claims>>
  BY DEF Receive, redisVars
<1>2. k \in Tokens /\ k # 0
  BY <1>1, TaskFields DEF HoldsToken
<1>3. run' \in [Tokens -> RunRecord] /\ run[k].outcome \in Outcomes
  BY <1>1, <1>2, OutcomeTyped, TaskFields
<1>4. pc \in TaskPcs
  BY <1>1, <1>3 DEF TaskPcs, Outcomes
<1> HIDE DEF pc
<1>5. /\ r \in TaskRecord /\ r.token = k /\ r.prev = disp[d].prev
  BY <1>4, TaskFields DEF TaskRecord
<1>6. k <= claims /\ disp[d].prev \in {"queued", "waiting"}
  BY <1>1, TaskFields DEF HoldsToken
<1> HIDE DEF r, k
<1> QED BY <1>1, <1>2, <1>3, <1>5, <1>6, TaskFields, TaskStepMoves, TaskQuiet

\* A task that holds a token goes on to another of its steps.
LEMMA LifeTaskGoesOn ==
  ASSUME Lifecycle, NEW d \in Dispatchers, disp[d].pc \in HoldsToken, NEW pc \in TaskPcs,
         TaskStep(d, [disp[d] EXCEPT !.pc = pc]),
         UNCHANGED <<inst, steps, events, ready, active, due, retention, claims, run>>
  PROVE LifeStep
<1> DEFINE r == [disp[d] EXCEPT !.pc = pc]
<1>1. r \in TaskRecord /\ r.token = disp[d].token /\ r.prev = disp[d].prev
  BY TaskFields DEF TaskRecord
<1>2. TaskStep(d, r)
  OBVIOUS
<1> HIDE DEF r
<1> QED BY <1>1, <1>2, TaskFields, TaskStepMoves, TaskQuiet

\* RELEASE_RUN goes back to the status it claimed from.
LEMMA LifeReleaseRun ==
  ASSUME Lifecycle, NEW d \in Dispatchers, ReleaseRun(d) PROVE LifeStep
<1>1. /\ disp[d].pc = "release" /\ UNCHANGED <<steps, events, ready, active, due, retention, run, claims>>
  BY DEF ReleaseRun
<1>2. CASE inst' = inst /\ TaskStep(d, IdleTask)
  BY <1>1, <1>2, TaskFields, LifeTaskEnds
<1>3. CASE inst' = inst /\ TaskStep(d, [disp[d] EXCEPT !.pc = "clear"])
  BY <1>1, <1>3, LifeTaskGoesOn, Zenon DEF HoldsToken, TaskPcs
<1>4. CASE /\ inst.status = "running" /\ TaskStep(d, IdleTask)
           /\ inst' = [DropClaim(inst) EXCEPT !.status = disp[d].prev]
  <2>1. disp[d].prev \in {"queued", "waiting"}
    BY <1>1, TaskFields DEF HoldsToken
  <2>2. /\ inst' \in InstRecord /\ inst'.status \in {"queued", "waiting"} /\ inst'.runToken = 0
        /\ inst'.createdAtMs = inst.createdAtMs
    BY <1>4, <2>1, TaskFields, DropFields DEF InstRecord, Statuses
  <2>3. IdleTask.token <= claims' /\ IdleTask.pc \notin HoldsToken \cup {"claim"}
    BY <1>1, TaskFields DEF HoldsToken
  <2>4. claims' \in 0..MaxClaims /\ claims <= claims' /\ inst'.runToken <= claims'
    <3>1. claims' = claims
      BY <1>1
    <3> QED BY <2>2, <3>1, ClaimsTyped
  <2> QED BY <1>1, <1>4, <2>2, <2>3, <2>4, TaskFields, TaskActive
<1> QED BY <1>2, <1>3, <1>4 DEF ReleaseRun

\* CLEAR_SUSPENDED_RUN drops the claim of a waiting instance.
LEMMA LifeClearSuspendedRun ==
  ASSUME Lifecycle, NEW d \in Dispatchers, ClearSuspendedRun(d) PROVE LifeStep
<1>1. TaskStep(d, IdleTask) /\ UNCHANGED <<steps, events, due, retention, run, claims>>
  BY DEF ClearSuspendedRun
<1>2. CASE UNCHANGED <<inst, ready, active>>
  BY <1>1, <1>2, TaskFields, LifeTaskEnds
<1>3. CASE /\ inst.status = "waiting" /\ inst' = DropClaim(inst)
           /\ UNCHANGED <<ready, active>> \/ RemoveReady
  <2>1. /\ inst' \in InstRecord /\ inst'.status = "waiting" /\ inst'.runToken = 0
        /\ inst'.createdAtMs = inst.createdAtMs
    BY <1>3, TaskFields, DropFields
  <2>2. IdleTask.token <= claims' /\ IdleTask.pc \notin HoldsToken \cup {"claim"}
    BY <1>1, TaskFields DEF HoldsToken
  <2>3. claims' \in 0..MaxClaims /\ claims <= claims' /\ inst'.runToken <= claims'
    <3>1. claims' = claims
      BY <1>1
    <3> QED BY <2>1, <3>1, ClaimsTyped
  <2>4. ready' \in BOOLEAN /\ active' \in BOOLEAN /\ (ready' => active')
    <3>1. ready \in BOOLEAN /\ active \in BOOLEAN /\ (ready => active)
      BY TaskFields
    <3> QED BY <1>3, <3>1, RemoveTyped
  <2> QED BY <1>1, <1>3, <2>1, <2>2, <2>3, <2>4, TaskFields, TaskActive
<1> QED BY <1>2, <1>3 DEF ClearSuspendedRun

\* The read before a commit.
LEMMA LifeReadForCommit ==
  ASSUME Lifecycle, NEW d \in Dispatchers, ReadForCommit(d) PROVE LifeStep
<1>1. /\ disp[d].pc \in HoldsToken
      /\ UNCHANGED <<inst, steps, events, ready, active, due, retention, run, claims>>
  BY DEF ReadForCommit, HoldsToken, redisVars
<1>2. CASE TaskStep(d, IdleTask)
  BY <1>1, <1>2, TaskFields, LifeTaskEnds
<1>3. CASE \E pc \in {"commit", "fail", "clear"} : TaskStep(d, [disp[d] EXCEPT !.pc = pc])
  BY <1>1, <1>3, LifeTaskGoesOn, ZenonT(40) DEF TaskPcs
<1> QED BY <1>2, <1>3 DEF ReadForCommit

\* COMMIT_RUNTIME_TERMINAL ends an active instance and indexes its retention.
LEMMA LifeCommitRuntimeTerminal ==
  ASSUME Lifecycle, NEW d \in Dispatchers, CommitRuntimeTerminal(d) PROVE LifeStep
<1>1. TaskStep(d, IdleTask) /\ UNCHANGED <<steps, events, run, claims>>
  BY Zenon DEF CommitRuntimeTerminal
<1>2. IdleTask.token <= claims' /\ IdleTask.pc \notin HoldsToken \cup {"claim"}
  BY <1>1, TaskFields DEF HoldsToken
<1>3. CASE UNCHANGED <<inst, ready, active, due, retention>>
  BY <1>1, <1>3, TaskFields, LifeTaskEnds
<1>4. CASE inst.status = "waiting" /\ AddReady /\ UNCHANGED <<inst, due, retention>>
  BY <1>1, <1>4, LifeTaskEnds DEF AddReady
<1>5. CASE \E t \in Times :
             /\ inst.status \in {"running", "waiting"}
             /\ \E status \in {"completed", "failed"} :
                  inst' = [DropRun(inst) EXCEPT !.status = status,
                             !.retentionExpires = t + Retention]
             /\ retention' = t + Retention /\ due' = 0 /\ RemoveReady
  <2>1. PICK t \in Times, status \in {"completed", "failed"} :
             /\ inst.status \in {"running", "waiting"}
             /\ inst' = [DropRun(inst) EXCEPT !.status = status,
                           !.retentionExpires = t + Retention]
             /\ retention' = t + Retention /\ due' = 0 /\ RemoveReady
    BY <1>5, Zenon
  <2>2. /\ t \in Nat /\ t + Retention \in Nat /\ t + Retention + ClockLag >= now + Retention
        /\ now \in Nat
    BY TaskFields, TimesBelow, Numbers
  <2>3. /\ inst' \in InstRecord /\ inst'.status = status /\ inst'.runToken = 0
        /\ inst'.createdAtMs = inst.createdAtMs /\ inst'.retentionExpires = t + Retention
    BY <2>1, <2>2, TaskFields, DropFields, Zenon DEF InstRecord, Statuses, Terminal
  <2>4. claims' \in 0..MaxClaims /\ claims <= claims' /\ claims' \in Nat
    <3>1. claims' = claims
      BY <1>1
    <3> QED BY <3>1, ClaimsTyped
  <2>5. RedisTypeOK'
    <3>1. ready \in BOOLEAN /\ active \in BOOLEAN /\ (ready => active)
      BY TaskFields
    <3>2. ready' \in BOOLEAN /\ active' \in BOOLEAN
      BY <2>1, <3>1, RemoveTyped
    <3> QED BY <1>1, <2>1, <2>2, <2>3, <2>4, <3>2, TaskFields DEF RedisTypeOK
  <2>6. HintsMatchStatus' /\ RetentionIndexed'
    BY <2>1, <2>3 DEF HintsMatchStatus, RetentionIndexed, IsTerminal, Terminal, RemoveReady
  <2>7. RetentionLasts'
    <3>1. inst.createdAtMs <= now /\ inst.createdAtMs \in Nat
      BY TaskFields DEF Lifecycle, ClocksBehind, InstRecord
    <3> QED BY <2>2, <2>3, <3>1, Numbers DEF RetentionLasts
  <2>8. Visible(inst) /\ Visible(inst')
    BY <2>1, <2>3 DEF Visible
  <2>9. run' \in [Tokens -> RunRecord]
    BY <1>1, TaskFields
  <2>10. Lifecycle' /\ PublicStep
    BY <1>1, <1>2, <2>3, <2>4, <2>5, <2>6, <2>7, <2>8, <2>9, TaskFields, TaskStepMoves, TaskKeeps
  <2>11. StoppedStep
    BY <2>1 DEF StoppedStep, Terminal
  <2> QED BY <2>10, <2>11 DEF LifeStep
<1>6. QED
  <2>1. PICK t \in Times :
          LET waitingFailed == disp[d].pc = "fail" /\ inst.status = "waiting"
          IN  IF ~Owns(d) \/ ~(inst.status = "running" \/ waitingFailed)
              THEN UNCHANGED <<inst, ready, active, due, retention>>
              ELSE IF CommitExpired(t)
              THEN /\ IF waitingFailed THEN AddReady ELSE UNCHANGED <<ready, active>>
                   /\ UNCHANGED <<inst, due, retention>>
              ELSE /\ \E status \in {IF disp[d].pc = "commit" THEN "completed" ELSE "failed"}
                                      \cup (IF Oversize THEN {"failed"} ELSE {}) :
                        inst' = [DropRun(inst) EXCEPT !.status = status,
                                   !.retentionExpires = t + Retention]
                   /\ retention' = t + Retention
                   /\ due' = 0 /\ RemoveReady
    BY ZenonT(40) DEF CommitRuntimeTerminal
  <2> QED BY <1>3, <1>4, <1>5, <2>1, ZenonT(40)

\* The faults of a dispatch task.
LEMMA LifeTaskFaults ==
  ASSUME Lifecycle, NEW d \in Dispatchers, DispatchTimeout(d) \/ CrashTask(d) PROVE LifeStep
<1>1. /\ UNCHANGED <<inst, steps, events, ready, active, due, retention, claims>>
      /\ UNCHANGED <<now, call, cleaner, creates>> /\ faults' \in Nat
  BY DEF DispatchTimeout, CrashTask, Fault, redisVars, Lifecycle, TypeOK
<1>2. CASE DispatchTimeout(d)
  <2> DEFINE r == [disp[d] EXCEPT !.pc = "release"]
  <2>1. /\ disp[d].pc = "wait" /\ disp' = [disp EXCEPT ![d].pc = "release"]
        /\ run' = [run EXCEPT ![disp[d].token].outcome = "none"]
    BY <1>2 DEF DispatchTimeout
  <2>2. disp' = [disp EXCEPT ![d] = r]
    BY <2>1
  <2>3. r \in TaskRecord /\ r.token = disp[d].token /\ r.prev = disp[d].prev
    BY TaskFields DEF TaskRecord, TaskPcs
  <2>4. disp[d].pc \in HoldsToken
    BY <2>1 DEF HoldsToken
  <2>5. run' \in [Tokens -> RunRecord]
    BY <2>1, <2>4, TaskFields, OutcomeTyped
  <2> HIDE DEF r
  <2>6. TaskMoves(d, r)
    BY <1>1, <2>2 DEF TaskMoves
  <2> QED BY <1>1, <2>3, <2>4, <2>5, <2>6, TaskFields, TaskQuiet
<1>3. CASE CrashTask(d)
  <2>1. /\ TaskMoves(d, IdleTask)
        /\ run' = IF disp[d].token = 0 THEN run
                  ELSE [run EXCEPT ![disp[d].token].outcome = "none"]
    BY <1>1, <1>3 DEF CrashTask, TaskMoves
  <2>2. disp[d].token = 0 \/ disp[d].token \in Tokens
    BY TaskFields, Numbers DEF Tokens, Lifecycle, TypeOK
  <2>3. run' \in [Tokens -> RunRecord]
    BY <2>1, <2>2, TaskFields, OutcomeTyped
  <2>4. IdleTask.token <= claims /\ IdleTask.pc \notin HoldsToken \cup {"claim"}
    BY TaskFields DEF HoldsToken
  <2> QED BY <1>1, <2>1, <2>3, <2>4, TaskFields, TaskQuiet
<1> QED BY <1>2, <1>3

-----------------------------------------------------------------------------
(* The due index, the ready shard, the retention pass and the clock. *)

\* A step that changes the Redis state only.
LEMMA RedisKeeps ==
  ASSUME Lifecycle, UNCHANGED <<now, call, disp, run, cleaner, counters>>,
         RedisTypeOK', HintsMatchStatus', RetentionIndexed', RetentionLasts',
         inst' = inst \/ (Visible(inst) /\ Visible(inst') /\ inst'.createdAtMs = inst.createdAtMs)
  PROVE Lifecycle' /\ PublicStep
<1>1. TypeOK'
  BY DEF Lifecycle, TypeOK, counters
<1>2. TasksShaped'
  BY DEF Lifecycle, TasksShaped
<1> QED BY <1>1, <1>2, TaskFrame

\* PRUNE_READY_SHARD drops the shard of no ready token.
LEMMA LifePruneShard ==
  ASSUME Lifecycle, PruneShard PROVE LifeStep
<1>1. /\ UNCHANGED <<now, call, disp, run, cleaner, counters>> /\ ~ready /\ active' = FALSE
      /\ UNCHANGED <<inst, steps, events, ready, due, retention>> /\ claims' = claims
  BY DEF PruneShard, counters
<1>2. RedisTypeOK'
  BY <1>1, Zenon DEF Lifecycle, TypeOK, RedisTypeOK
<1>3. HintsMatchStatus' /\ RetentionIndexed' /\ RetentionLasts'
  BY <1>1 DEF Lifecycle, HintsMatchStatus, RetentionIndexed, RetentionLasts, IsTerminal
<1>4. Lifecycle' /\ PublicStep
  BY <1>1, <1>2, <1>3, RedisKeeps
<1>5. StoppedStep
  BY <1>1 DEF StoppedStep
<1> QED BY <1>4, <1>5 DEF LifeStep

\* MOVE_DUE_TOKEN wakes a queued or waiting instance, and forgets the rest.
LEMMA LifeMoveDue ==
  ASSUME Lifecycle, MoveDue PROVE LifeStep
<1>0. RedisTypeOK /\ inst \in InstRecord /\ claims \in Nat
  BY Numbers DEF Lifecycle, TypeOK, RedisTypeOK
<1>1. /\ UNCHANGED <<now, call, disp, run, cleaner, counters>> /\ due' = 0
      /\ UNCHANGED <<steps, events, retention>> /\ claims' = claims
      /\ \/ UNCHANGED <<inst, ready, active>>
         \/ inst.status \in {"queued", "waiting"} /\ inst' = DropClaim(inst) /\ AddReady
  BY DEF MoveDue, counters
<1>2. /\ inst' \in InstRecord /\ inst'.status = inst.status
      /\ inst'.createdAtMs = inst.createdAtMs /\ inst'.retentionExpires = inst.retentionExpires
      /\ inst'.runToken \in {0, inst.runToken}
  BY <1>0, <1>1, DropFields
<1>3. RedisTypeOK'
  <2>1. ready' \in BOOLEAN /\ active' \in BOOLEAN
    BY <1>0, <1>1, Zenon DEF RedisTypeOK, AddReady
  <2>2. inst'.runToken <= claims'
    BY <1>0, <1>1, <1>2 DEF RedisTypeOK, InstRecord
  <2> QED BY <1>0, <1>1, <1>2, <2>1, <2>2 DEF RedisTypeOK
<1>4. HintsMatchStatus' /\ RetentionIndexed' /\ RetentionLasts'
  BY <1>1, <1>2 DEF Lifecycle, HintsMatchStatus, RetentionIndexed, RetentionLasts, IsTerminal,
     AddReady
<1>5. inst' = inst \/ (Visible(inst) /\ Visible(inst'))
  BY <1>1, <1>2 DEF Visible
<1>6. Lifecycle' /\ PublicStep
  BY <1>1, <1>2, <1>3, <1>4, <1>5, RedisKeeps
<1>7. StoppedStep
  BY <1>1 DEF StoppedStep, Terminal
<1> QED BY <1>6, <1>7 DEF LifeStep

\* A step of the retention pass that leaves the instance.
LEMMA CleanerKeeps ==
  ASSUME Lifecycle, NEW r \in CleanerRecord, CleanerStep(r),
         UNCHANGED <<inst, steps, events, ready, active, due>>, RetentionIndexed',
         retention' \in Nat, r.at <= now, r.pc = "remove" => r.status \notin Terminal
  PROVE LifeStep
<1>1. cleaner' = r /\ UNCHANGED <<now, call, disp, run, claims, creates, faults>>
  BY DEF CleanerStep, counters
<1>2. TypeOK'
  BY <1>1 DEF Lifecycle, TypeOK, RedisTypeOK
<1>3. HintsMatchStatus' /\ RetentionLasts'
  BY DEF Lifecycle, HintsMatchStatus, RetentionLasts, IsTerminal
<1>4. ClocksBehind' /\ CleanerShaped'
  BY <1>1 DEF Lifecycle, ClocksBehind, CleanerShaped
<1>5. ScriptsRead' /\ TasksShaped'
  BY <1>1 DEF Lifecycle, ScriptsRead, ReadPublic, Visible, TasksShaped
<1>6. StoppedStep /\ PublicStep
  BY DEF StoppedStep, PublicStep, Exists
<1> QED BY <1>2, <1>3, <1>4, <1>5, <1>6 DEF LifeStep, Lifecycle

\* The retention pass starts at no time to come.
LEMMA IdleCleanerTyped ==
  IdleCleaner \in CleanerRecord /\ IdleCleaner.at = 0 /\ IdleCleaner.pc = "idle"
BY DEF IdleCleaner, CleanerRecord, Ids, NoId

\* Listing, planning, and removing an entry whose instance is not terminal.
LEMMA LifeListRetention ==
  ASSUME Lifecycle, ListRetention PROVE LifeStep
<1>1. PICK t \in Times :
        CleanerStep([IdleCleaner EXCEPT !.pc = "read", !.at = t, !.score = retention])
  BY Zenon DEF ListRetention
<1> DEFINE r == [IdleCleaner EXCEPT !.pc = "read", !.at = t, !.score = retention]
<1>2. retention \in Nat /\ now \in Nat /\ RetentionIndexed
  BY Numbers DEF Lifecycle, TypeOK, RedisTypeOK
<1>3. t \in Nat /\ t <= now
  BY <1>2, TimesBelow
<1>4. r \in CleanerRecord /\ r.at <= now /\ r.pc # "remove"
  BY <1>2, <1>3, Zenon DEF IdleCleaner, CleanerRecord, Ids, NoId
<1>5. CleanerStep(r) /\ UNCHANGED <<inst, steps, events, ready, active, due, retention>>
  BY <1>1 DEF ListRetention, redisVars
<1> HIDE DEF r
<1>6. RetentionIndexed' /\ retention' \in Nat
  BY <1>2, <1>5 DEF RetentionIndexed, IsTerminal
<1> QED BY <1>4, <1>5, <1>6, CleanerKeeps

\* The retention pass reads the instance of a token that is due.
LEMMA LifePlanRetention ==
  ASSUME Lifecycle, PlanRetention PROVE LifeStep
<1> DEFINE r == [cleaner EXCEPT !.pc = IF IsTerminal(inst) THEN "delete" ELSE "remove",
                   !.status = inst.status, !.id = Identity(inst)]
<1>1. /\ retention \in Nat /\ now \in Nat /\ RetentionIndexed /\ cleaner \in CleanerRecord
      /\ inst \in InstRecord /\ cleaner.at <= now
  BY Numbers DEF Lifecycle, TypeOK, RedisTypeOK, ClocksBehind
<1>2. r \in CleanerRecord /\ r.at <= now /\ (r.pc = "remove" => r.status \notin Terminal)
  BY <1>1, Zenon DEF CleanerRecord, Identity, Ids, InstRecord, IsTerminal
<1>3. /\ CleanerStep(IdleCleaner) \/ CleanerStep(r)
      /\ UNCHANGED <<inst, steps, events, ready, active, due, retention>>
  BY DEF PlanRetention, redisVars
<1> HIDE DEF r
<1>4. RetentionIndexed' /\ retention' \in Nat
  BY <1>1, <1>3 DEF RetentionIndexed, IsTerminal
<1> QED BY <1>1, <1>2, <1>3, <1>4, IdleCleanerTyped, CleanerKeeps

\* REMOVE_RETENTION_TOKEN takes a token away without deleting the instance.
LEMMA LifeRemoveRetentionToken ==
  ASSUME Lifecycle, RemoveRetentionToken PROVE LifeStep
<1>1. /\ retention \in Nat /\ now \in Nat /\ RetentionIndexed
      /\ cleaner.pc = "remove" => cleaner.status \notin Terminal
  BY Numbers DEF Lifecycle, TypeOK, RedisTypeOK, CleanerShaped
<1>2. /\ CleanerStep(IdleCleaner) /\ UNCHANGED <<inst, steps, events, ready, active, due>>
      /\ cleaner.pc = "remove"
      /\ retention' = retention \/ (retention' = 0 /\ inst.status = cleaner.status)
  BY DEF RemoveRetentionToken
<1>3. RetentionIndexed' /\ retention' \in Nat
  BY <1>1, <1>2 DEF RetentionIndexed, IsTerminal
<1> QED BY <1>1, <1>2, <1>3, IdleCleanerTyped, CleanerKeeps

\* CLEANUP_RETENTION deletes a terminal instance after its retention, when no
\* create under way can still take the creation time a request has read.
LEMMA LifeCleanupRetention ==
  ASSUME Lifecycle, CleanupRetention PROVE LifeStep
<1>1. /\ retention \in Nat /\ now \in Nat /\ RetentionIndexed /\ cleaner \in CleanerRecord
      /\ inst \in InstRecord /\ cleaner.at <= now /\ RedisTypeOK /\ claims \in Nat
  BY Numbers DEF Lifecycle, TypeOK, RedisTypeOK, ClocksBehind
<1>2. CleanerStep(IdleCleaner) /\ UNCHANGED <<ready, active, due>>
  BY DEF CleanupRetention
<1>3. CASE UNCHANGED <<inst, steps, events, retention>>
  <2>1. RetentionIndexed' /\ retention' \in Nat
    BY <1>1, <1>3 DEF RetentionIndexed, IsTerminal
  <2> QED BY <1>1, <1>2, <1>3, <2>1, IdleCleanerTyped, CleanerKeeps
<1>4. CASE /\ IsTerminal(inst) /\ inst.retentionExpires <= cleaner.at
           /\ inst' = Missing /\ steps' = NoSteps /\ events' = <<>> /\ retention' = 0
  <2>1. /\ inst' \in InstRecord /\ inst'.status = "missing" /\ inst'.createdAtMs = 0
        /\ inst'.runToken = 0
    BY <1>4 DEF Missing, InstRecord, Statuses
  <2>2. steps' \in [Ordinals -> StepRecord] /\ events' \in Seq(EventRecord)
    BY <1>4 DEF NoSteps, NoStep, StepRecord
  <2>3. cleaner' = IdleCleaner /\ UNCHANGED <<now, call, disp, run, claims, creates, faults>>
    BY <1>2 DEF CleanerStep, counters
  <2>4. TypeOK'
    BY <1>1, <1>2, <1>4, <2>1, <2>2, <2>3, IdleCleanerTyped, SMTT(30) DEF Lifecycle, TypeOK, RedisTypeOK
  <2>5. HintsMatchStatus' /\ RetentionIndexed' /\ RetentionLasts'
    BY <1>2, <1>4, <2>1 DEF Lifecycle, HintsMatchStatus, RetentionIndexed, RetentionLasts,
       IsTerminal, Terminal
  <2>6. ClocksBehind' /\ CleanerShaped'
    BY <1>1, <2>1, <2>3, IdleCleanerTyped DEF Lifecycle, ClocksBehind, CleanerShaped
  <2>7. now > inst.createdAtMs + CreateWait /\ now > inst.createdAtMs + ClockLag
    <3>1. /\ inst.retentionExpires \in Nat /\ inst.createdAtMs \in Nat /\ cleaner.at \in Nat
          /\ inst.retentionExpires + ClockLag >= inst.createdAtMs + Retention
      BY <1>1, <1>4 DEF Lifecycle, RetentionLasts, InstRecord, CleanerRecord
    <3> QED BY <1>1, <1>4, <3>1, Numbers
  <2>8. ScriptsRead'
    <3> SUFFICES ASSUME NEW c \in Callers, call[c].pc = "script"
                 PROVE ReadPublic(inst', now, call[c].id)
      BY <2>3 DEF ScriptsRead
    <3>1. ReadPublic(inst, now, call[c].id)
      BY DEF Lifecycle, ScriptsRead
    <3> QED BY <2>1, <2>7, <3>1 DEF ReadPublic, Visible
  <2>9. TasksShaped'
    BY <2>3 DEF Lifecycle, TasksShaped
  <2>10. StoppedStep /\ PublicStep
    <3>1. inst.retentionExpires \in Nat /\ cleaner.at \in Nat
      BY <1>1 DEF InstRecord, CleanerRecord
    <3> QED BY <1>1, <1>4, <2>1, <3>1 DEF StoppedStep, PublicStep, Exists
  <2> QED BY <2>4, <2>5, <2>6, <2>8, <2>9, <2>10 DEF LifeStep, Lifecycle
<1> QED BY <1>3, <1>4 DEF CleanupRetention

\* Time passes.
LEMMA LifeTick ==
  ASSUME Lifecycle, Tick PROVE LifeStep
<1>1. /\ UNCHANGED <<inst, steps, events, ready, active, due, retention>>
      /\ UNCHANGED <<call, disp, run, cleaner, claims, creates, faults>>
      /\ now' = now + 1 /\ now \in Nat /\ now' \in 0..MaxTime
  BY Numbers DEF Tick, redisVars, counters, Lifecycle, TypeOK
<1>2. TypeOK'
  BY <1>1 DEF Lifecycle, TypeOK, RedisTypeOK
<1>3. HintsMatchStatus' /\ RetentionIndexed' /\ RetentionLasts'
  BY <1>1 DEF Lifecycle, HintsMatchStatus, RetentionIndexed, RetentionLasts, IsTerminal
<1>4. ClocksBehind'
  BY <1>1, SMTT(30) DEF Lifecycle, ClocksBehind, TypeOK, RedisTypeOK, InstRecord, CleanerRecord, CallRecord
<1>5. ScriptsRead'
  <2> SUFFICES ASSUME NEW c \in Callers, call[c].pc = "script"
               PROVE ReadPublic(inst, now + 1, call[c].id)
    BY <1>1 DEF ScriptsRead
  <2>1. ReadPublic(inst, now, call[c].id)
    BY DEF Lifecycle, ScriptsRead
  <2>2. call[c].id.createdAtMs \in Nat
    BY DEF Lifecycle, TypeOK, CallRecord, Ids
  <2> QED BY <1>1, <2>1, <2>2, Numbers DEF ReadPublic
<1>6. TasksShaped' /\ CleanerShaped'
  BY <1>1 DEF Lifecycle, TasksShaped, CleanerShaped
<1>7. StoppedStep /\ PublicStep
  BY <1>1 DEF StoppedStep, PublicStep, Exists
<1> QED BY <1>2, <1>3, <1>4, <1>5, <1>6, <1>7 DEF LifeStep, Lifecycle

\* A replica is lost with a request.
LEMMA LifeCrashCall ==
  ASSUME Lifecycle, NEW c \in Callers, CrashCall(c) PROVE LifeStep
<1>1. /\ UNCHANGED <<inst, steps, events, ready, active, due, retention>>
      /\ UNCHANGED <<now, disp, run, cleaner, claims, creates>> /\ faults' \in Nat
      /\ call' = [call EXCEPT ![c] = IdleCall] /\ creates \in Nat /\ 0 <= now
  BY DEF CrashCall, Fault, redisVars, Lifecycle, TypeOK
<1>2. RedisTypeOK' /\ inst'.createdAtMs <= now
  BY <1>1 DEF Lifecycle, TypeOK, RedisTypeOK, ClocksBehind
<1>3. HintsMatchStatus' /\ RetentionIndexed' /\ RetentionLasts'
  BY <1>1 DEF Lifecycle, HintsMatchStatus, RetentionIndexed, RetentionLasts, IsTerminal
<1>4. Lifecycle'
  BY <1>1, <1>2, <1>3, IdleCallTyped, CallerFrame, Zenon
<1>5. StoppedStep /\ PublicStep
  BY <1>1 DEF StoppedStep, PublicStep, Exists
<1> QED BY <1>4, <1>5 DEF LifeStep

-----------------------------------------------------------------------------
(* The oldest event. *)

LOCAL INSTANCE WellFoundedInduction

\* A set of numbers that is not empty has a least member, so NextEvent is one.
LEMMA LeastMember ==
  ASSUME NEW S \in SUBSET Nat, S # {}
  PROVE \E n \in S : \A m \in S : n <= m
<1> DEFINE R == {ss \in Nat \X Nat : ss[1] < ss[2]}
<1>1. IsWellFoundedOn(R, Nat)
  BY NatLessThanWellFounded DEF OpToRel
<1>2. \A x, y \in Nat : <<y, x>> \in R <=> y < x
  OBVIOUS
<1> HIDE DEF R
<1>3. PICK x \in S : \A y \in S : ~ (<<y, x>> \in R)
  BY <1>1, WFMin, Zenon
<1>4. \A y \in S : x <= y
  <2> TAKE y \in S
  <2>1. x \in Nat /\ y \in Nat
    OBVIOUS
  <2>2. ~(y < x)
    BY <1>2, <1>3, <2>1, Zenon
  <2> QED BY <2>1, <2>2
<1> QED BY <1>4

=============================================================================
