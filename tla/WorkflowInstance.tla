-------------------------- MODULE WorkflowInstance --------------------------
(***************************************************************************)
(* One Workflow instance of the Rust Workflows service: its Redis hash,    *)
(* its step and event records, and the ready, due and retention indexes    *)
(* that hold hints to it.  Around it act the callers of the API (create,   *)
(* pause, resume, terminate, restart, sendEvent), the dispatch tasks of    *)
(* the tick, the retention cleaner, and the runs of the tenant's program   *)
(* in the runtime, whose steps come back as requests to the service.       *)
(*                                                                         *)
(* Every Lua script is one step.  Between the reads and the scripts of one *)
(* operation anything else may happen.  A run token is a number, new with  *)
(* every successful claim; run[k] is the runtime's execution under token   *)
(* k, which may go on after its dispatch task gave up on it or was lost.   *)
(***************************************************************************)
EXTENDS Integers, Sequences, FiniteSets

CONSTANTS
  Callers,       \* API requests in flight at a time
  Dispatchers,   \* dispatch tasks, over all replicas of the service
  Stages,        \* the tenant's program: sequence of sets of step ordinals
  Kind,          \* ordinal -> "do" | "sleep" | "wait"
  EventTypes,    \* event types callers send; waits wait for WaitType
  WaitType,
  RetryLimit,    \* attempts of a step.do
  RetryDelay,    \* delay before the second attempt
  Backoff,       \* "constant" | "linear" | "exponential"
  Oversize,      \* may a commit exceed the instance's payload limit?
  SleepFor,      \* duration of a sleep
  WaitTimeout,   \* timeout of a wait, 0 for none
  Lease,         \* runLeaseMs
  PendingTTL,    \* PENDING_CREATE_TTL_MS
  CreateWait,    \* how long a create waits for another's pending create
  Retention,     \* retention of terminal instances
  ClockLag,      \* how far a script's time argument may trail the clock
  Workload,      \* operations the callers issue
  MaxTime,       \* bounds of the instance checked
  MaxClaims,
  MaxGeneration,
  MaxEvents,
  MaxCreates,
  Faults         \* lost processes, requests and replies, in total

VARIABLES
  now,
  inst,       \* the instance hash, Missing if absent
  steps,      \* step records
  events,     \* event records, in the order of their ids
  ready,      \* is the instance's token in its ready shard?
  active,     \* is the shard in the active set?
  due,        \* score in the due shard, 0 if absent
  retention,  \* score in the retention index, 0 if absent
  call,       \* API requests
  disp,       \* dispatch tasks
  run,        \* runtime executions, by run token
  cleaner,    \* the retention pass of a tick
  claims,     \* run tokens issued
  creates,    \* pending-create tokens issued
  faults      \* faults so far

redisVars == <<inst, steps, events, ready, active, due, retention>>
counters == <<claims, creates, faults>>
vars == <<now, redisVars, call, disp, run, cleaner, counters>>

Ordinals == UNION {Stages[i] : i \in DOMAIN Stages}
Terminal == {"completed", "failed", "terminated"}

ASSUME WorkflowAssumption ==
  /\ Stages \in Seq(SUBSET (Nat \ {0})) /\ Stages # <<>>
  /\ \A i, j \in DOMAIN Stages : i # j => Stages[i] \cap Stages[j] = {}
  /\ Kind \in [Ordinals -> {"do", "sleep", "wait"}]
  \* Suspending steps run alone (assertCanStartStep).
  /\ \A i \in DOMAIN Stages : \A o \in Stages[i] :
       Kind[o] # "do" => Stages[i] = {o}
  /\ {RetryLimit, Lease, PendingTTL} \subseteq Nat \ {0}
  /\ Backoff \in {"constant", "linear", "exponential"} /\ Oversize \in BOOLEAN
  /\ {RetryDelay, SleepFor, WaitTimeout, CreateWait, ClockLag, MaxTime,
      MaxClaims, MaxGeneration, MaxEvents, MaxCreates, Faults} \subseteq Nat
  \* An id is not created, finished, cleaned up and created again with the
  \* creation timestamp of its first life.
  /\ Retention \in Nat /\ Retention > CreateWait + ClockLag /\ Retention > 2 * ClockLag

Tokens == 1..MaxClaims
Times == {t \in (now - ClockLag)..now : t >= 0}

\* Nothing is due after the last instant of the instance checked.
Horizon(t) == IF t > MaxTime THEN MaxTime ELSE t

-----------------------------------------------------------------------------
(* The hash and the records. *)

\* Zero stands for an absent field.
Missing ==
  [status |-> "missing", generation |-> 0, createdAtMs |-> 0,
   runToken |-> 0, lease |-> 0, waitPrefix |-> FALSE,
   pendingToken |-> 0, pendingExpires |-> 0, retentionExpires |-> 0]

\* What CREATE_INSTANCE writes.
NewInstance(createdAt, token) ==
  [Missing EXCEPT !.status = "pending_create", !.generation = 1,
     !.createdAtMs = createdAt, !.pendingToken = token,
     !.pendingExpires = createdAt + PendingTTL]

NoStep == [status |-> "none", attempt |-> 0, due |-> 0, event |-> 0]
NoSteps == [o \in Ordinals |-> NoStep]

Exists == inst.status # "missing"
IsTerminal(i) == i.status \in Terminal

\* The fields an operation reads and later fences on.
Identity(i) == [generation |-> i.generation, createdAtMs |-> i.createdAtMs]
SameIdentity(i, id) == i.status # "missing" /\ Identity(i) = id

DropClaim(i) == [i EXCEPT !.runToken = 0, !.lease = 0]
\* A transition that forgets the fields of the run.
DropRun_Nothing(i) == i

DropRun(i) == [DropClaim(i) EXCEPT !.waitPrefix = FALSE]

\* Indexed events of the awaited type that no wait has consumed yet.
Buffered == {n \in DOMAIN events : events[n].type = WaitType /\ events[n].by = 0}

AddReady == ready' = TRUE /\ active' = TRUE
RemoveReady == ready' = FALSE /\ UNCHANGED active

-----------------------------------------------------------------------------
(* API requests.  call[c] is idle or [pc, op, id, token, createdAt, retried]. *)

NoId == [generation |-> 0, createdAtMs |-> 0]
IdleCall ==
  [pc |-> "idle", op |-> "none", id |-> NoId, token |-> 0, createdAt |-> 0,
   retried |-> FALSE]

CallerStep(c, next) ==
  /\ call' = [call EXCEPT ![c] = next]
  /\ UNCHANGED <<now, disp, run, cleaner, claims, faults>>

BeginCall(c) ==
  /\ call[c].pc = "idle"
  /\ \E op \in Workload :
       /\ CallerStep(c, [IdleCall EXCEPT !.op = op,
                           !.pc = IF op = "create" THEN "create" ELSE "read"])
       /\ (op = "create" => creates < MaxCreates)
  /\ UNCHANGED <<redisVars, creates>>

\* create_instance_after_delete_preflight: the create script.  The creation
\* time and the pending token are made once; a second try reuses them.
CreateInstance(c) ==
  /\ call[c].pc = "create"
  /\ \E t \in IF call[c].retried THEN {call[c].createdAt} ELSE Times :
     LET token == IF call[c].retried THEN call[c].token ELSE creates + 1
         made == [call[c] EXCEPT !.token = token, !.createdAt = t]
     IN  /\ token <= MaxCreates
         /\ call[c].retried => now <= t + CreateWait
         /\ creates' = IF call[c].retried THEN creates ELSE token
         /\ IF Exists
            THEN CallerStep(c, [made EXCEPT !.pc = "await"]) /\ UNCHANGED inst
            ELSE /\ inst' = NewInstance(t, token)
                 /\ CallerStep(c, [made EXCEPT !.pc = "verify"])
  /\ UNCHANGED <<steps, events, ready, active, due, retention>>

\* The second try follows at once: by the end of CreateWait it has reached Redis
\* or the connection's response timeout has ended the request.
CreateTimesOut(c) ==
  /\ call[c].pc = "create" /\ call[c].retried
  /\ now > call[c].createdAt + CreateWait
  /\ CallerStep(c, IdleCall)
  /\ UNCHANGED <<redisVars, creates>>

\* wait_for_public_create_state: one poll of the state another create left.
\* A pending create that expired is cleaned up; one that lasts is an error.
AwaitCreate(c) ==
  /\ call[c].pc = "await"
  /\ LET retry == ~call[c].retried /\ now <= call[c].createdAt + CreateWait
     IN  \/ /\ inst.status \notin {"missing", "pending_create"}
            /\ CallerStep(c, IdleCall)
         \/ /\ ~Exists
            /\ CallerStep(c, IF retry THEN [call[c] EXCEPT !.pc = "create", !.retried = TRUE]
                                      ELSE IdleCall)
         \/ /\ inst.status = "pending_create"
            /\ \E t \in Times :
                 IF inst.pendingExpires <= t
                 THEN CallerStep(c, [call[c] EXCEPT !.pc = "awaitCleanup",
                                       !.id.generation = inst.pendingToken])
                 ELSE CallerStep(c, IdleCall)
  /\ UNCHANGED <<redisVars, creates>>

\* CLEANUP_PENDING_CREATE, for the pending token given.
CleanupPendingCreate(token) ==
  IF inst.status = "pending_create" /\ inst.generation = 1 /\ inst.pendingToken = token
  THEN inst' = Missing /\ steps' = NoSteps /\ events' = <<>>
  ELSE UNCHANGED <<inst, steps, events>>

AwaitCleanup(c) ==
  /\ call[c].pc = "awaitCleanup"
  /\ CleanupPendingCreate(call[c].id.generation)
  /\ CallerStep(c, [call[c] EXCEPT !.pc = "await", !.id = NoId])
  /\ UNCHANGED <<ready, active, due, retention, creates>>

\* The checks between create and finalize (worker not deleting, version still
\* active, workflow still defined) pass or fail.
VerifyCreate(c) ==
  /\ call[c].pc = "verify"
  /\ \E next \in {"finalize", "undo"} : CallerStep(c, [call[c] EXCEPT !.pc = next])
  /\ UNCHANGED <<redisVars, creates>>

FinalizeCreate(c) ==
  /\ call[c].pc = "finalize"
  /\ IF inst.status = "pending_create" /\ inst.generation = 1
        /\ inst.pendingToken = call[c].token
     THEN /\ inst' = [inst EXCEPT !.status = "queued", !.pendingToken = 0,
                        !.pendingExpires = 0]
          /\ AddReady
     ELSE UNCHANGED <<inst, ready, active>>
  /\ CallerStep(c, IdleCall)
  /\ UNCHANGED <<steps, events, due, retention, creates>>

UndoCreate(c) ==
  /\ call[c].pc = "undo"
  /\ CleanupPendingCreate(call[c].token)
  /\ CallerStep(c, IdleCall)
  /\ UNCHANGED <<ready, active, due, retention, creates>>

\* read_public_state of a lifecycle operation or of sendEvent, and the early
\* returns on what it read.
Applies(op, status) ==
  CASE op = "pause"     -> status \notin Terminal \cup {"paused"}
    [] op = "resume"    -> status = "paused"
    [] op = "terminate" -> status \notin Terminal
    [] op = "send"      -> status \notin Terminal
    [] op = "restart"   -> TRUE
    [] op = "status"    -> FALSE

ReadPublicState(c) ==
  /\ call[c].pc = "read"
  /\ \/ /\ ~Exists
        /\ CallerStep(c, IdleCall)
     \/ /\ inst.status = "pending_create"
        /\ \E t \in Times :
             CallerStep(c, IF inst.pendingExpires <= t
                           THEN [call[c] EXCEPT !.pc = "undo", !.token = inst.pendingToken]
                           ELSE IdleCall)
     \/ /\ Exists /\ inst.status # "pending_create"
        /\ CallerStep(c, IF Applies(call[c].op, inst.status)
                         THEN [call[c] EXCEPT !.pc = "script", !.id = Identity(inst)]
                         ELSE IdleCall)
  /\ UNCHANGED <<redisVars, creates>>

\* The scripts of the lifecycle operations, fenced on what was read.  One that
\* found the instance changed answers with a fresh read (stale_transition).
Transition(c) == call[c].pc = "script" /\ SameIdentity(inst, call[c].id)
Bumped == [DropRun(inst) EXCEPT !.generation = inst.generation + 1]

StaleTransition(c) ==
  /\ CallerStep(c, IF call[c].op = "send" THEN IdleCall
                   ELSE [IdleCall EXCEPT !.op = "status", !.pc = "read"])
  /\ UNCHANGED <<redisVars, creates>>

Pause(c) ==
  /\ Transition(c) /\ call[c].op = "pause"
  /\ inst.status \notin Terminal \cup {"paused"} /\ inst.generation < MaxGeneration
  /\ inst' = [Bumped EXCEPT !.status = "paused"]
  /\ due' = 0 /\ RemoveReady
  /\ CallerStep(c, IdleCall)
  /\ UNCHANGED <<steps, events, retention, creates>>

Resume(c) ==
  /\ Transition(c) /\ call[c].op = "resume"
  /\ inst.status = "paused" /\ inst.generation < MaxGeneration
  /\ inst' = [Bumped EXCEPT !.status = "queued"]
  /\ AddReady
  /\ CallerStep(c, IdleCall)
  /\ UNCHANGED <<steps, events, due, retention, creates>>

Terminate(c) ==
  /\ Transition(c) /\ call[c].op = "terminate"
  /\ ~IsTerminal(inst) /\ inst.generation < MaxGeneration
  /\ \E t \in Times :
       /\ inst' = [Bumped EXCEPT !.status = "terminated", !.retentionExpires = t + Retention]
       /\ retention' = t + Retention
  /\ due' = 0 /\ RemoveReady
  /\ CallerStep(c, IdleCall)
  /\ UNCHANGED <<steps, events, creates>>

Restart(c) ==
  /\ Transition(c) /\ call[c].op = "restart"
  /\ inst.generation < MaxGeneration
  /\ inst' = [Bumped EXCEPT !.status = "queued", !.retentionExpires = 0]
  /\ steps' = NoSteps /\ events' = <<>>
  /\ due' = 0 /\ retention' = 0 /\ AddReady
  /\ CallerStep(c, IdleCall)
  /\ UNCHANGED creates

\* A preflight of restart failed, or its version marker had expired.
AbortRestart(c) ==
  /\ call[c].pc = "script" /\ call[c].op = "restart"
  /\ CallerStep(c, IdleCall)
  /\ UNCHANGED <<redisVars, creates>>

SendEvent(c) ==
  /\ Transition(c) /\ call[c].op = "send"
  /\ ~IsTerminal(inst) /\ Len(events) < MaxEvents
  /\ \E type \in EventTypes : events' = Append(events, [type |-> type, by |-> 0])
  /\ IF inst.status # "paused" THEN AddReady ELSE UNCHANGED <<ready, active>>
  /\ CallerStep(c, IdleCall)
  /\ UNCHANGED <<inst, steps, due, retention, creates>>

\* The fence failed: the instance changed since it was read.  Or, for an
\* event, the payload limit is reached.
Refused(c) ==
  /\ call[c].pc = "script"
  /\ \/ ~SameIdentity(inst, call[c].id)
     \/ ~Applies(call[c].op, inst.status)
     \/ call[c].op = "send" /\ Oversize
  /\ StaleTransition(c)

-----------------------------------------------------------------------------
(* The tick and its dispatch tasks. *)

IdleTask == [pc |-> "idle", id |-> NoId, prev |-> "none", token |-> 0]

TaskStep(d, next) ==
  /\ disp' = [disp EXCEPT ![d] = next]
  /\ UNCHANGED <<now, call, cleaner, creates, faults>>

\* active_ready_shards, sample_ready_members.
Sample(d) ==
  /\ disp[d].pc = "idle" /\ active /\ ready
  /\ TaskStep(d, [IdleTask EXCEPT !.pc = "read"])
  /\ UNCHANGED <<redisVars, run, claims>>

\* PRUNE_READY_SHARD.
PruneShard ==
  /\ active /\ ~ready
  /\ active' = FALSE
  /\ UNCHANGED <<now, inst, steps, events, ready, due, retention, call, disp, run,
                 cleaner, counters>>

\* prepare_ready_token: what to do about a sampled token.
PrepareReadyToken(d) ==
  /\ disp[d].pc = "read"
  /\ LET go(pc) == [IdleTask EXCEPT !.pc = pc, !.id = Identity(inst)]
         next == CASE inst.status = "missing" -> "rmMissing"
                   [] inst.status = "running" -> "requeue"
                   [] IsTerminal(inst) -> "rmTerminal"
                   [] inst.status \in {"queued", "waiting"} -> "claim"
                   [] OTHER -> "idle"
     IN  TaskStep(d, IF next = "idle" THEN IdleTask
                     ELSE IF next = "claim" THEN [go("claim") EXCEPT !.prev = inst.status]
                     ELSE go(next))
  /\ UNCHANGED <<redisVars, run, claims>>

\* REMOVE_READY_MEMBER_IF_STATE_MISSING, REMOVE_READY_TOKEN_IF_TERMINAL.
RemoveStaleToken(d) ==
  /\ disp[d].pc \in {"rmMissing", "rmTerminal"}
  /\ IF IF disp[d].pc = "rmMissing" THEN ~Exists
        ELSE IsTerminal(inst) /\ inst.generation = disp[d].id.generation
     THEN RemoveReady
     ELSE UNCHANGED <<ready, active>>
  /\ TaskStep(d, IdleTask)
  /\ UNCHANGED <<inst, steps, events, due, retention, run, claims>>

\* A requeue that drops the claim and leaves the status.
RequeueExpiredRun_KeepsStatus(d) ==
  /\ disp[d].pc = "requeue"
  /\ \E t \in Times :
       IF inst.status = "running" /\ inst.lease <= t /\ SameIdentity(inst, disp[d].id)
       THEN inst' = DropClaim(inst) /\ AddReady
       ELSE UNCHANGED <<inst, ready, active>>
  /\ TaskStep(d, IdleTask)
  /\ UNCHANGED <<steps, events, due, retention, run, claims>>

RequeueExpiredRun(d) ==
  /\ disp[d].pc = "requeue"
  /\ \E t \in Times :
       IF inst.status = "running" /\ inst.lease <= t /\ SameIdentity(inst, disp[d].id)
       THEN inst' = [DropClaim(inst) EXCEPT !.status = "queued"] /\ AddReady
       ELSE UNCHANGED <<inst, ready, active>>
  /\ TaskStep(d, IdleTask)
  /\ UNCHANGED <<steps, events, due, retention, run, claims>>

NoRun ==
  [generation |-> 0, open |-> FALSE, outcome |-> "none",
   phase |-> [o \in Ordinals |-> "idle"], arg |-> [o \in Ordinals |-> 0]]

ClaimRun(d) ==
  /\ disp[d].pc = "claim"
  /\ \E t \in Times :
       IF /\ inst.status = disp[d].prev
          /\ SameIdentity(inst, disp[d].id)
          /\ inst.runToken = 0 \/ inst.lease <= t
       THEN LET k == claims + 1
            IN  /\ k <= MaxClaims
                /\ inst' = [inst EXCEPT !.status = "running", !.runToken = k, !.lease = t + Lease]
                /\ run' = [run EXCEPT ![k] = [NoRun EXCEPT !.generation = inst.generation,
                                                !.open = TRUE]]
                /\ claims' = k
                /\ TaskStep(d, [disp[d] EXCEPT !.pc = "wait", !.token = k])
       ELSE TaskStep(d, IdleTask) /\ UNCHANGED <<inst, run, claims>>
  /\ UNCHANGED <<steps, events, ready, active, due, retention>>

\* finish_claimed_workflow: the runtime answered, with an outcome to commit or
\* with an error that releases the claim.
Receive(d) ==
  LET k == disp[d].token
      outcome == run[k].outcome
  IN  /\ disp[d].pc = "wait" /\ outcome # "none"
      /\ run' = [run EXCEPT ![k].outcome = "none"]
      /\ TaskStep(d, [disp[d] EXCEPT !.pc = IF outcome = "infra" THEN "release" ELSE outcome])
      /\ UNCHANGED <<redisVars, claims>>

\* Any claim passes for the task's own.
Owns_AnyClaim(d) == inst.runToken # 0

Owns(d) == inst.generation = disp[d].id.generation /\ inst.runToken = disp[d].token

\* release_run_claim; a claim that has been suspended meanwhile is cleared.
ReleaseRun(d) ==
  /\ disp[d].pc = "release"
  /\ inst' = IF Owns(d) /\ inst.status = "running"
             THEN [DropClaim(inst) EXCEPT !.status = disp[d].prev]
             ELSE inst
  /\ TaskStep(d, IF Owns(d) /\ inst.status = "waiting"
                 THEN [disp[d] EXCEPT !.pc = "clear"]
                 ELSE IdleTask)
  /\ UNCHANGED <<steps, events, ready, active, due, retention, run, claims>>

\* A clear that does not look for events that came meanwhile.
ClearSuspendedRun_Blind(d) ==
  /\ disp[d].pc = "clear"
  /\ IF Owns(d) /\ inst.status = "waiting"
     THEN inst' = DropClaim(inst) /\ RemoveReady
     ELSE UNCHANGED <<inst, ready, active>>
  /\ TaskStep(d, IdleTask)
  /\ UNCHANGED <<steps, events, due, retention, run, claims>>

ClearSuspendedRun(d) ==
  /\ disp[d].pc = "clear"
  /\ IF Owns(d) /\ inst.status = "waiting"
     THEN /\ inst' = DropClaim(inst)
          /\ IF inst.waitPrefix /\ Buffered # {}
             THEN UNCHANGED <<ready, active>>
             ELSE RemoveReady
     ELSE UNCHANGED <<inst, ready, active>>
  /\ TaskStep(d, IdleTask)
  /\ UNCHANGED <<steps, events, due, retention, run, claims>>

\* commit_runtime_result: read the instance and judge the outcome by it.
ReadForCommit(d) ==
  /\ disp[d].pc \in {"completed", "failed", "suspended"}
  /\ TaskStep(d,
       IF ~Owns(d) \/ inst.status \in Terminal \cup {"paused"} THEN IdleTask
       ELSE IF disp[d].pc # "suspended"
            THEN [disp[d] EXCEPT !.pc = IF disp[d].pc = "completed" THEN "commit" ELSE "fail"]
       ELSE IF inst.status = "waiting" THEN [disp[d] EXCEPT !.pc = "clear"]
       ELSE IdleTask)
  /\ UNCHANGED <<redisVars, run, claims>>

CommitExpired(t) == inst.lease <= t

\* COMMIT_RUNTIME_TERMINAL.
CommitRuntimeTerminal(d) ==
  /\ disp[d].pc \in {"commit", "fail"}
  /\ \E t \in Times :
     LET waitingFailed == disp[d].pc = "fail" /\ inst.status = "waiting"
     IN  IF ~Owns(d) \/ ~(inst.status = "running" \/ waitingFailed)
         THEN UNCHANGED <<inst, ready, active, due, retention>>
         ELSE IF CommitExpired(t)
         THEN /\ IF waitingFailed THEN AddReady ELSE UNCHANGED <<ready, active>>
              /\ UNCHANGED <<inst, due, retention>>
         ELSE /\ \E status \in {IF disp[d].pc = "commit" THEN "completed" ELSE "failed"}
                                 \cup (IF Oversize THEN {"failed"} ELSE {}) :
                   inst' = [DropRun(inst) EXCEPT !.status = status,
                              !.retentionExpires = t + Retention]
              /\ retention' = t + Retention
              /\ due' = 0 /\ RemoveReady
  /\ TaskStep(d, IdleTask)
  /\ UNCHANGED <<steps, events, run, claims>>

\* MOVE_DUE_TOKEN.
MoveDue ==
  /\ due # 0
  /\ \E t \in Times :
       /\ due <= t
       /\ \/ /\ inst.status \notin {"queued", "waiting"}
             /\ UNCHANGED <<inst, ready, active>>
          \/ /\ inst.status \in {"queued", "waiting"}
             /\ inst.runToken = 0 \/ inst.lease <= t
             /\ inst' = DropClaim(inst)
             /\ AddReady
  /\ due' = 0
  /\ UNCHANGED <<now, steps, events, retention, call, disp, run, cleaner, counters>>

-----------------------------------------------------------------------------
(* The retention pass. *)

IdleCleaner == [pc |-> "idle", at |-> 0, score |-> 0, status |-> "none", id |-> NoId]

CleanerStep(next) ==
  /\ cleaner' = next
  /\ UNCHANGED <<now, call, disp, run, counters>>

ListRetention ==
  /\ cleaner.pc = "idle" /\ retention # 0
  /\ \E t \in Times :
       /\ retention <= t
       /\ CleanerStep([IdleCleaner EXCEPT !.pc = "read", !.at = t, !.score = retention])
  /\ UNCHANGED redisVars

\* retention_token_state.
PlanRetention ==
  /\ cleaner.pc = "read"
  /\ CleanerStep(
       IF IsTerminal(inst) /\ inst.retentionExpires > cleaner.at THEN IdleCleaner
       ELSE [cleaner EXCEPT !.pc = IF IsTerminal(inst) THEN "delete" ELSE "remove",
               !.status = inst.status, !.id = Identity(inst)])
  /\ UNCHANGED redisVars

RemoveRetentionToken ==
  /\ cleaner.pc = "remove"
  /\ retention' = IF /\ retention = cleaner.score
                     /\ inst.status = cleaner.status /\ Identity(inst) = cleaner.id
                  THEN 0 ELSE retention
  /\ CleanerStep(IdleCleaner)
  /\ UNCHANGED <<inst, steps, events, ready, active, due>>

CleanupRetention ==
  /\ cleaner.pc = "delete"
  /\ IF /\ SameIdentity(inst, cleaner.id) /\ IsTerminal(inst)
        /\ inst.retentionExpires <= cleaner.at
     THEN inst' = Missing /\ steps' = NoSteps /\ events' = <<>> /\ retention' = 0
     ELSE UNCHANGED <<inst, steps, events, retention>>
  /\ CleanerStep(IdleCleaner)
  /\ UNCHANGED <<ready, active, due>>

-----------------------------------------------------------------------------
(* Runs.  run[k].phase[o] says how far step o of run k has come.  A phase in *)
(* ServicePhases is a request of the step that the service still handles,    *)
(* also after the run itself ended; its reply then reaches nobody.           *)

ServicePhases == {"sent", "restore", "ok", "err", "fatal", "find", "findLate",
                  "refind", "register", "take"}
Settled == {"done", "susp", "fail", "infra"}

RunStep == UNCHANGED <<now, call, disp, cleaner, counters>>

Advance(k, o, phase, arg) ==
  LET keep == run[k].open \/ phase \in ServicePhases
  IN  run' = [run EXCEPT ![k].phase[o] = IF keep THEN phase ELSE "idle",
                         ![k].arg[o] = IF keep THEN arg ELSE 0]

\* What every step script checks: the claim is this run's and has not expired.
Claimed(k) == inst.generation = run[k].generation /\ inst.runToken = k
StepFence_NoToken(k, t) ==
  inst.generation = run[k].generation /\ inst.lease > t /\ inst.status \in {"running", "waiting"}
StepFence_Off(k, t) == Exists
StepFence(k, t) == Claimed(k) /\ inst.lease > t /\ inst.status \in {"running", "waiting"}

\* The tenant's program awaits the next stage: all its steps are requested.  A
\* sleep or a wait comes with its due time.
DueOf(o) ==
  CASE Kind[o] = "sleep" -> Horizon(now + SleepFor)
    [] Kind[o] = "wait" -> IF WaitTimeout = 0 THEN 0 ELSE Horizon(now + WaitTimeout)
    [] OTHER -> 0

StartStage(k) ==
  /\ run[k].open
  /\ \E i \in DOMAIN Stages :
       /\ \A j \in 1..(i - 1) : \A o \in Stages[j] : run[k].phase[o] = "done"
       /\ \A o \in Stages[i] : run[k].phase[o] = "idle"
       /\ run' = [run EXCEPT
            ![k].phase = [o \in Ordinals |-> IF o \in Stages[i] THEN "sent" ELSE run[k].phase[o]],
            ![k].arg = [o \in Ordinals |-> IF o \in Stages[i] THEN DueOf(o) ELSE run[k].arg[o]]]
  /\ RunStep /\ UNCHANGED redisVars

\* claim_step, register_sleep, register_wait: read the step's record.
ReadStep(k, o) ==
  /\ run[k].phase[o] = "sent"
  /\ \E t \in Times :
     LET rec == steps[o]
         at == IF rec.status = "none" THEN run[k].arg[o] ELSE rec.due
     IN  CASE ~StepFence(k, t) \/ rec.status = "failed" -> Advance(k, o, "fail", 0)
           [] StepFence(k, t) /\ rec.status = "completed" -> Advance(k, o, "done", 0)
           [] OTHER ->
                CASE Kind[o] = "wait" ->
                       Advance(k, o, IF at # 0 /\ at <= t THEN "findLate" ELSE "find", at)
                  [] Kind[o] = "sleep" ->
                       Advance(k, o, IF at > t THEN "register" ELSE "take", IF at > t THEN at ELSE 0)
                  [] Kind[o] = "do" /\ rec.status = "waiting" /\ at > t ->
                       Advance(k, o, "restore", at)
                  [] OTHER -> Advance(k, o, "exec", rec.attempt + 1)
  /\ RunStep /\ UNCHANGED redisVars

\* RESTORE_WAITING_DUE: the step's retry is not due yet.
RestoreWaitingDue(k, o) ==
  /\ run[k].phase[o] = "restore"
  /\ \E t \in Times :
       IF Claimed(k) /\ inst.lease > t /\ inst.status = "running"
       THEN /\ inst' = [inst EXCEPT !.status = "waiting"]
            /\ due' = run[k].arg[o] /\ RemoveReady
            /\ Advance(k, o, "susp", 0)
       ELSE /\ Advance(k, o, IF Claimed(k) THEN "fail" ELSE "susp", 0)
            /\ UNCHANGED <<inst, ready, active, due>>
  /\ RunStep /\ UNCHANGED <<steps, events, retention>>

\* The callback of step.do returns, throws, or throws a NonRetryableError.
Execute(k, o) ==
  /\ run[k].open /\ run[k].phase[o] = "exec"
  /\ \E result \in {"ok", "err", "fatal"} : Advance(k, o, result, run[k].arg[o])
  /\ RunStep /\ UNCHANGED redisVars

CommitStepSuccess(k, o) ==
  /\ run[k].phase[o] = "ok"
  /\ \E t \in Times :
       \/ /\ StepFence(k, t)
          /\ steps' = [steps EXCEPT ![o] =
                         [NoStep EXCEPT !.status = "completed", !.attempt = run[k].arg[o]]]
          /\ Advance(k, o, "done", 0)
       \/ /\ ~StepFence(k, t) \/ Oversize
          /\ UNCHANGED steps
          /\ Advance(k, o, "fail", 0)
  /\ RunStep /\ UNCHANGED <<inst, events, ready, active, due, retention>>

\* retry_due_at_ms.
RetryDue(t, attempt) ==
  Horizon(t + RetryDelay *
            CASE Backoff = "constant" -> 1
              [] Backoff = "linear" -> attempt
              [] Backoff = "exponential" -> 2 ^ (IF attempt > 21 THEN 20 ELSE attempt - 1))

Exhausted(attempt) == attempt >= RetryLimit

CommitStepError(k, o) ==
  /\ run[k].phase[o] \in {"err", "fatal"}
  /\ \E t \in Times :
     LET attempt == run[k].arg[o]
         last == run[k].phase[o] = "fatal" \/ Exhausted(attempt)
         retryAt == IF last THEN 0 ELSE RetryDue(t, attempt)
     IN  \/ /\ StepFence(k, t)
            /\ steps' = [steps EXCEPT ![o] =
                 [NoStep EXCEPT !.status = IF last THEN "failed" ELSE "waiting",
                                !.attempt = attempt, !.due = retryAt]]
            /\ IF last
               THEN UNCHANGED <<inst, ready, active, due>>
               ELSE /\ inst' = [inst EXCEPT !.status = "waiting"]
                    /\ due' = retryAt /\ RemoveReady
            /\ Advance(k, o, IF last THEN "fail" ELSE "susp", 0)
         \/ /\ ~StepFence(k, t) \/ Oversize
            /\ Advance(k, o, "fail", 0)
            /\ UNCHANGED <<inst, steps, ready, active, due>>
  /\ RunStep /\ UNCHANGED <<events, retention>>

\* COMMIT_STEP_RECORD: writes the record of a sleep or a wait, the instance's
\* status, its due entry, and the event the wait consumed, if any.
CommitStepRecord(k, o, status, at, event) ==
  /\ steps' = [steps EXCEPT ![o] =
       [status |-> IF status = "waiting" THEN "waiting" ELSE "completed",
        attempt |-> 1, due |-> at, event |-> event]]
  /\ inst' = [inst EXCEPT !.status = status,
                          !.waitPrefix = status = "waiting" /\ Kind[o] = "wait"]
  /\ due' = at /\ RemoveReady
  /\ events' = IF event = 0 THEN events ELSE [events EXCEPT ![event].by = o]

\* Sleep or wait not over: it becomes waiting.
RegisterStep(k, o) ==
  /\ run[k].phase[o] = "register"
  /\ \E t \in Times :
       \/ /\ StepFence(k, t)
          /\ CommitStepRecord(k, o, "waiting", run[k].arg[o], 0)
          /\ Advance(k, o, IF Kind[o] = "wait" THEN "refind" ELSE "susp", 0)
       \/ /\ ~StepFence(k, t) \/ Oversize
          /\ Advance(k, o, "fail", 0)
          /\ UNCHANGED <<inst, steps, events, ready, active, due>>
  /\ RunStep /\ UNCHANGED retention

\* Sleep or wait over: it completes, for a wait with event arg or, after its
\* timeout, with none.
CompleteStep(k, o) ==
  /\ run[k].phase[o] = "take"
  /\ \E t \in Times :
       \/ /\ StepFence(k, t)
          /\ CommitStepRecord(k, o, "running", 0, run[k].arg[o])
          /\ Advance(k, o, "done", 0)
       \/ /\ ~StepFence(k, t) \/ Oversize
          /\ Advance(k, o, "fail", 0)
          /\ UNCHANGED <<inst, steps, events, ready, active, due>>
  /\ RunStep /\ UNCHANGED retention

\* The event a wait takes.
NextEvent_Newest == CHOOSE n \in Buffered : \A m \in Buffered : n >= m
NextEvent == CHOOSE n \in Buffered : \A m \in Buffered : n <= m

\* find_buffered_event: the oldest event of the awaited type.  Not fenced.
FindBufferedEvent(k, o) ==
  /\ run[k].phase[o] \in {"find", "findLate", "refind"}
  /\ IF Buffered # {}
     THEN Advance(k, o, "take", NextEvent)
     ELSE Advance(k, o, CASE run[k].phase[o] = "find" -> "register"
                          [] run[k].phase[o] = "findLate" -> "take"
                          [] OTHER -> "susp",
                  IF run[k].phase[o] = "find" THEN run[k].arg[o] ELSE 0)
  /\ RunStep /\ UNCHANGED redisVars

\* The run ends with the given outcome, if its dispatch task still listens.
CloseRun(k, outcome) ==
  LET heard == \E d \in Dispatchers : disp[d].pc = "wait" /\ disp[d].token = k
      kept(o) == run[k].phase[o] \in ServicePhases
  IN  run' = [run EXCEPT ![k] =
        [run[k] EXCEPT !.open = FALSE,
                       !.outcome = IF heard THEN outcome ELSE "none",
                       !.phase = [o \in Ordinals |-> IF kept(o) THEN run[k].phase[o] ELSE "idle"],
                       !.arg = [o \in Ordinals |-> IF kept(o) THEN run[k].arg[o] ELSE 0]]]

\* handleWorkflowRunDispatch: every step that was started has settled, and the
\* program is over or cannot go on.
RunReturn(k) ==
  LET some(phase) == \E o \in Ordinals : run[k].phase[o] = phase
  IN  /\ run[k].open
      /\ \A o \in Ordinals : run[k].phase[o] \in Settled \cup {"idle"}
      /\ \/ \A o \in Ordinals : run[k].phase[o] = "done"
         \/ \E phase \in Settled \ {"done"} : some(phase)
      /\ CloseRun(k, IF some("infra") THEN "infra"
                     ELSE IF some("fail") THEN "failed"
                     ELSE IF some("susp") THEN "suspended"
                     ELSE "completed")
      /\ RunStep /\ UNCHANGED redisVars

-----------------------------------------------------------------------------
(* Faults and time. *)

Fault == faults < Faults /\ faults' = faults + 1 /\ UNCHANGED <<now, redisVars, claims, creates>>

\* The dispatch deadline passes in the runtime, or the runtime is lost.
LoseRun(k) ==
  /\ run[k].open /\ CloseRun(k, "infra")
  /\ Fault /\ UNCHANGED <<call, disp, cleaner>>

\* The request of a step, the service handling it, or its reply is lost.
LoseStep(k, o) ==
  /\ \/ run[k].phase[o] \in ServicePhases
     \/ /\ run[k].phase[o] \in {"exec", "done", "susp", "fail"}
        /\ \A i, j \in DOMAIN Stages :
             o \in Stages[i] /\ j > i => \A u \in Stages[j] : run[k].phase[u] = "idle"
  /\ Advance(k, o, "infra", 0)
  /\ Fault /\ UNCHANGED <<call, disp, cleaner>>

\* The dispatch request times out while the run goes on.
DispatchTimeout(d) ==
  /\ disp[d].pc = "wait"
  /\ disp' = [disp EXCEPT ![d].pc = "release"]
  /\ run' = [run EXCEPT ![disp[d].token].outcome = "none"]
  /\ Fault /\ UNCHANGED <<call, cleaner>>

\* A replica of the service stops, with a task or with a request.  The lease
\* of a lost task ends before MaxTime.
CrashTask(d) ==
  /\ disp[d].pc # "idle" /\ (disp[d].token # 0 => inst.lease <= MaxTime)
  /\ disp' = [disp EXCEPT ![d] = IdleTask]
  /\ run' = IF disp[d].token = 0 THEN run ELSE [run EXCEPT ![disp[d].token].outcome = "none"]
  /\ Fault /\ UNCHANGED <<call, cleaner>>

CrashCall(c) ==
  /\ call[c].pc # "idle"
  /\ call' = [call EXCEPT ![c] = IdleCall]
  /\ Fault /\ UNCHANGED <<disp, run, cleaner>>

Tick ==
  /\ now < MaxTime
  /\ now' = now + 1
  /\ UNCHANGED <<redisVars, call, disp, run, cleaner, counters>>

-----------------------------------------------------------------------------
Init ==
  /\ now = 0
  /\ inst = Missing /\ steps = NoSteps /\ events = <<>>
  /\ ready = FALSE /\ active = FALSE /\ due = 0 /\ retention = 0
  /\ call = [c \in Callers |-> IdleCall]
  /\ disp = [d \in Dispatchers |-> IdleTask]
  /\ run = [k \in Tokens |-> NoRun]
  /\ cleaner = IdleCleaner
  /\ claims = 0 /\ creates = 0 /\ faults = 0

CallNext(c) ==
  \/ BeginCall(c) \/ CreateInstance(c) \/ CreateTimesOut(c) \/ AwaitCreate(c) \/ AwaitCleanup(c)
  \/ VerifyCreate(c) \/ FinalizeCreate(c) \/ UndoCreate(c) \/ ReadPublicState(c)
  \/ Pause(c) \/ Resume(c) \/ Terminate(c) \/ Restart(c) \/ AbortRestart(c)
  \/ SendEvent(c) \/ Refused(c)

TaskNext(d) ==
  \/ Sample(d) \/ PrepareReadyToken(d) \/ RemoveStaleToken(d) \/ RequeueExpiredRun(d)
  \/ ClaimRun(d) \/ Receive(d) \/ ReleaseRun(d) \/ ClearSuspendedRun(d)
  \/ ReadForCommit(d) \/ CommitRuntimeTerminal(d)

StepNext(k, o) ==
  \/ ReadStep(k, o) \/ RestoreWaitingDue(k, o) \/ Execute(k, o)
  \/ CommitStepSuccess(k, o) \/ CommitStepError(k, o)
  \/ RegisterStep(k, o) \/ CompleteStep(k, o) \/ FindBufferedEvent(k, o)

RunNext(k) == StartStage(k) \/ RunReturn(k) \/ \E o \in Ordinals : StepNext(k, o)

CleanerNext ==
  ListRetention \/ PlanRetention \/ RemoveRetentionToken \/ CleanupRetention

FaultNext ==
  \/ \E k \in Tokens : LoseRun(k) \/ \E o \in Ordinals : LoseStep(k, o)
  \/ \E d \in Dispatchers : DispatchTimeout(d) \/ CrashTask(d)
  \/ \E c \in Callers : CrashCall(c)

Next ==
  \/ \E c \in Callers : CallNext(c)
  \/ \E d \in Dispatchers : TaskNext(d)
  \/ \E k \in Tokens : RunNext(k)
  \/ CleanerNext \/ PruneShard \/ MoveDue \/ FaultNext \/ Tick

Spec == Init /\ [][Next]_vars

-----------------------------------------------------------------------------
(* Properties. *)

CallPcs == {"idle", "create", "await", "awaitCleanup", "verify", "finalize", "undo",
            "read", "script"}
TaskPcs == {"idle", "read", "rmMissing", "rmTerminal", "requeue", "claim", "wait",
            "release", "clear", "completed", "failed", "suspended", "commit", "fail"}
Statuses == Terminal \cup {"missing", "pending_create", "queued", "running", "waiting", "paused"}

Outcomes == {"none", "infra", "failed", "suspended", "completed"}
Phases == ServicePhases \cup Settled \cup {"idle", "exec"}
Ids == [generation : Nat, createdAtMs : Nat]

InstRecord ==
  [status : Statuses, generation : Nat, createdAtMs : Nat, runToken : Nat, lease : Nat,
   waitPrefix : BOOLEAN, pendingToken : Nat, pendingExpires : Nat, retentionExpires : Nat]
StepRecord ==
  [status : {"none", "waiting", "completed", "failed"}, attempt : Int, due : Int, event : Int]
EventRecord == [type : EventTypes, by : {0} \cup Ordinals]
CallRecord ==
  [pc : CallPcs, op : Workload \cup {"none", "status"}, id : Ids, token : Nat,
   createdAt : Nat, retried : BOOLEAN]
TaskRecord == [pc : TaskPcs, id : Ids, prev : Statuses \cup {"none"}, token : Nat]
RunRecord ==
  [generation : Nat, open : BOOLEAN, outcome : Outcomes, phase : [Ordinals -> Phases],
   arg : [Ordinals -> Int]]
CleanerRecord ==
  [pc : {"idle", "read", "remove", "delete"}, at : Nat, score : Nat,
   status : Statuses \cup {"none"}, id : Ids]

\* Type invariant of the instance's Redis state and of the tasks around it.
RedisTypeOK ==
  /\ inst \in InstRecord /\ inst.runToken <= claims
  /\ steps \in [Ordinals -> StepRecord]
  /\ events \in Seq(EventRecord)
  /\ ready \in BOOLEAN /\ active \in BOOLEAN /\ due \in Int /\ retention \in Nat
TypeOK ==
  /\ now \in 0..MaxTime /\ RedisTypeOK
  /\ call \in [Callers -> CallRecord]
  /\ disp \in [Dispatchers -> TaskRecord]
  /\ \A d \in Dispatchers : disp[d].token <= claims
  /\ run \in [Tokens -> RunRecord]
  /\ cleaner \in CleanerRecord
  /\ claims \in 0..MaxClaims /\ creates \in Nat /\ faults \in Nat

\* An instance that is absent, pending, paused or terminal has no run token
\* and no entry in the ready and due indexes: every script that leaves an
\* active status also removes the hints, and no late script adds one.  A ready
\* token's shard is in the active set (PRUNE_READY_SHARD), or no tick sees it.
HintsMatchStatus ==
  /\ inst.status \notin {"queued", "running", "waiting"} =>
       inst.runToken = 0 /\ ~ready /\ due = 0
  /\ ready => active

\* The retention index holds exactly the terminal instances, each under its
\* expiry: every terminal instance is found by cleanup_retention, and an
\* instance that was restarted is not.
RetentionIndexed ==
  retention = IF IsTerminal(inst) THEN inst.retentionExpires ELSE 0

\* The four Redis indexes of the instances agree with the status record after
\* every script: ready, due and active hints as above, and the retention index.
IndexesMatchStatus == HintsMatchStatus /\ RetentionIndexed

\* A completed instance has completed every step: no outcome of a run is
\* committed for another run's steps (COMMIT_RUNTIME_TERMINAL's fence).
CompletedMeansDone ==
  inst.status = "completed" => \A o \in Ordinals : steps[o].status = "completed"

\* A failed instance has a failed step: the program only awaits its steps, so
\* nothing else can fail it (commit_runtime_result, the step scripts' errors).
FailedOnlyByStep ==
  inst.status = "failed" => \E o \in Ordinals : steps[o].status = "failed"

\* Events are delivered once and in order: a consumed event is the output of
\* the one wait that took it, and a wait never takes an event while an older
\* one of its type is left (find_buffered_event, COMMIT_STEP_RECORD).
EventDelivery ==
  /\ \A o \in Ordinals : steps[o].event # 0 =>
       /\ steps[o].event \in DOMAIN events
       /\ events[steps[o].event].by = o
  /\ \A n \in DOMAIN events : events[n].by # 0 =>
       /\ steps[events[n].by].event = n
       /\ \A m \in Buffered : m > n

\* The instance is claimed by a dispatch task that will release or commit it.
Held == \E d \in Dispatchers : disp[d].token # 0 /\ disp[d].token = inst.runToken

\* An active instance that no dispatch task holds can be found again: by its
\* ready token, or else by its due entry or the event it waits for; and once
\* that event is there, by the ready token, not only at the wait's timeout.
\* docs/modules/workflows.md:268: process loss "recovers through the run lease
\* and ready hint".
WakeSource ==
  LET waits == inst.status = "waiting" /\ inst.waitPrefix
  IN  inst.status \in {"queued", "running", "waiting"} =>
        \/ ready \/ Held
        \/ (due # 0 \/ waits) /\ ~(waits /\ Buffered # {})

\* The steps of an instance only go forward: a completed or failed record is
\* final and an attempt is never recorded twice, unless the instance is
\* restarted or deleted (the fence of the step scripts; a run that lost its
\* claim may still be committing).
Reset == ~Exists' \/ (inst'.status = "queued" /\ steps' = NoSteps)
ForwardStep ==
  \A o \in Ordinals : steps'[o] # steps[o] /\ ~Reset =>
    /\ steps[o].status \in {"none", "waiting"}
    /\ steps'[o].attempt >= steps[o].attempt
    /\ Kind[o] = "do" => steps'[o].attempt > steps[o].attempt
StepsNeverRegress == [][ForwardStep]_vars

\* What a caller stopped stays as it was: a paused or terminal instance is
\* changed only by a transition to a higher generation or by its deletion.
\* Late commits, releases and clears of its last run do nothing.
StoppedStep ==
  inst.status \in Terminal \cup {"paused"} /\ <<inst, steps>>' # <<inst, steps>> =>
    inst'.generation > inst.generation \/ ~Exists'
StoppedStaysPut == [][StoppedStep]_vars

\* An instance that callers can see disappears only as a terminal one whose
\* retention is over: no cleanup of a pending create, and no retention pass
\* that read an older life of the id, removes it.
PublicStep ==
  Exists /\ inst.status # "pending_create" /\ ~Exists' =>
    IsTerminal(inst) /\ inst.retentionExpires <= now
PublicUntilRetention == [][PublicStep]_vars

-----------------------------------------------------------------------------
(* Liveness.  The tick of every replica runs again and again, and started    *)
(* requests and runs go on, so each of their next steps is weakly fair.      *)

Fairness ==
  /\ \A d \in Dispatchers : WF_vars(TaskNext(d))
  /\ \A k \in Tokens : WF_vars(RunNext(k))
  /\ \A c \in Callers : WF_vars(CallNext(c) /\ call[c].pc # "idle")
  /\ WF_vars(MoveDue) /\ WF_vars(Tick)

FairSpec == Spec /\ Fairness

Over == IsTerminal(inst) \/ inst.status \in {"missing", "paused"}

\* The life of an instance goes only the ways a caller was told of: what is
\* stopped stays as it was, and what is public stays until its retention ends.
LifecycleHeld == StoppedStaysPut /\ PublicUntilRetention

\* An instance that was created finishes, unless it is paused: the due index
\* brings back every sleep and retry (move_due_tokens, tick_workflows).
EventuallyOver == inst.status = "queued" ~> Over

=============================================================================
