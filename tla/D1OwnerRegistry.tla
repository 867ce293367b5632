-------------------------- MODULE D1OwnerRegistry --------------------------
(***************************************************************************)
(* Ownership of one D1 database: the Redis owner record and generation     *)
(* counter, the d1-runtime tasks that claim, renew, take over, drain and   *)
(* rebalance it, and the database actor that runs SQL under the lease      *)
(* (d1-runtime/owner-registry.js, d1-runtime/actor.js, the local half of   *)
(* d1-runtime/router.js, shared/owner-protocol.js, shared/owner-lease.js). *)
(*                                                                         *)
(* Every asynchronous operation of a task is an element of Ops.  Each      *)
(* Redis round trip is two steps: the command runs at Redis (RedisRead or  *)
(* one of the conditional writes), and later the task sees the reply and   *)
(* runs the synchronous code up to its next await.  The variable now is    *)
(* Redis server TIME; a task's monotonic clock advances with it.           *)
(***************************************************************************)
EXTENDS Naturals, FiniteSets

CONSTANTS
  Tasks,      \* d1-runtime task identities
  Ops,        \* slots for operations in flight
  NoTask,     \* a rebalance without a target
  TTL,        \* owner lease (D1_OWNER_TTL_SECONDS)
  Guard,      \* D1_OWNER_LEASE_GUARD_MS
  ObsTTL,     \* D1_OBSERVED_OWNER_TTL_MS
  MaxDelay,   \* longest time from a Redis TIME reading to the code that uses it
  SqlTime,    \* longest run of one SQL statement, its commit included
  Retries,    \* OWNER_CLAIM_RETRIES and OWNER_RELEASE_ATTEMPTS
  MaxStmts,   \* statements of one request
  MaxGen,     \* Number.MAX_SAFE_INTEGER
  MaxTime,    \* bound of the clock
  Workload,   \* kinds of operations that arrive, drains apart
  Stopping,   \* tasks the supervisor may drain
  Legacy      \* TRUE: a record may predate its generation counter

ASSUME TimesAssumption ==
  /\ TTL \in Nat \ {0}
  /\ Guard \in Nat
  /\ ObsTTL \in Nat
  /\ MaxDelay \in Nat
  /\ SqlTime \in Nat
  /\ MaxDelay + SqlTime <= Guard

ASSUME BoundsAssumption ==
  /\ Retries \in Nat
  /\ MaxStmts \in Nat \ {0}
  /\ MaxGen \in Nat
  /\ MaxTime \in Nat
  /\ Legacy \in BOOLEAN
  /\ Workload \subseteq {"query", "renew", "rebalance"}
  /\ Stopping \subseteq Tasks
  /\ NoTask \notin Tasks

VARIABLES
  now,       \* Redis server TIME
  owner,     \* d1:owner:db:<key>
  counter,   \* d1:owner:db:<key>:generation
  owned,     \* per task: generation of its ownedDbs entry, 0 if none
  observed,  \* per task: the observedD1Owners entry
  draining,  \* per task: isDraining()
  op,        \* the operations in flight
  log,       \* history: generation under which SQLite last committed
  handed     \* history: generations a rebalance gave away

vars == <<now, owner, counter, owned, observed, draining, op, log, handed>>
redis == <<owner, counter, handed>>
memory == <<owned, observed, draining>>

----------------------------------------------------------------------------
(* Owner records.                                                          *)

Gens == 0 .. MaxGen
NoOwner == [task |-> NoTask, gen |-> 0, lease |-> 0]
OwnerRecord == [task : Tasks, gen : Gens \ {0}, lease : Nat]
MaybeOwner == OwnerRecord \cup {NoOwner}

NoEntry == [rec |-> NoOwner, exp |-> 0]
CacheEntry == [rec : OwnerRecord, exp : Nat] \cup {NoEntry}

LeaseExpired(rec, time) == rec.lease <= time

SameFence(a, b) ==
  /\ a # NoOwner
  /\ b # NoOwner
  /\ a.task = b.task
  /\ a.gen = b.gen

MaxOf(a, b) == IF a < b THEN b ELSE a
MinOf(a, b) == IF a < b THEN a ELSE b

NextGeneration_Same(cnt, rec) == MaxOf(cnt, rec.gen)

NextGeneration(cnt, rec) == MaxOf(cnt, rec.gen) + 1

OwnerRecordFor(task, gen, time) ==
  [task |-> task, gen |-> gen, lease |-> time + TTL]

\* A record of which only the fence is used later.
Fence(rec) == [rec EXCEPT !.lease = 0]

\* rememberObservedOwner with a Redis time; without one the entry is dropped.
Observe(rec, time) ==
  IF ObsTTL = 0 \/ LeaseExpired(rec, time)
  THEN NoEntry
  ELSE [rec |-> rec, exp |-> now + MinOf(ObsTTL, rec.lease - time)]

----------------------------------------------------------------------------
(* Operations in flight.                                                   *)

Kinds == {"query", "renew", "drain", "rebalance"}

ReadThen ==
  [resolveRead |-> "resolveSeen", repairRead |-> "repairSeen",
   claimRead |-> "claimSeen", raceRead |-> "raceSeen",
   timeRead |-> "timeSeen", takeRead |-> "takeSeen",
   assertRead |-> "assertSeen", renewRead |-> "renewSeen",
   releaseRead |-> "releaseSeen", rebalanceRead |-> "rebalanceSeen"]

Phases ==
  {"idle", "resolve", "repairSet", "claimExec", "claimed", "takeover",
   "remote", "local", "pending", "renewSet", "renewed", "sql", "drainWait",
   "releaseDel", "released", "moveExec", "moved", "dropExec", "dropped"}
    \cup DOMAIN ReadThen \cup {ReadThen[p] : p \in DOMAIN ReadThen}

Operation ==
  [pc : Phases, kind : Kinds, task : Tasks \cup {NoTask},
   arg : MaybeOwner,              \* owner record the operation works on
   snap : MaybeOwner, cnt : Gens, \* last Redis snapshot ...
   at : Nat,                      \* ... and the Redis TIME it came with
   due : Nat,                     \* monotonic deadline of the SQL section
   tries : 0 .. Retries,
   left : 0 .. MaxStmts, txn : BOOLEAN,
   target : Tasks \cup {NoTask}]  \* of a rebalance; of a query, the owner whose
                                 \* probe made it refresh or take over, or the
                                 \* task itself if the result will be dropped

\* An operation that starts.
Slot(phase, kind, t, rec, target) ==
  [pc |-> phase, kind |-> kind, task |-> t, arg |-> rec, snap |-> NoOwner, cnt |-> 0,
   at |-> 0, due |-> 0, tries |-> 0, left |-> 0, txn |-> FALSE, target |-> target]
Idle == Slot("idle", "query", NoTask, NoOwner, NoTask)

TypeOK ==
  /\ now \in Nat
  /\ owner \in MaybeOwner
  /\ counter \in Gens
  /\ owned \in [Tasks -> Gens]
  /\ observed \in [Tasks -> CacheEntry]
  /\ draining \in [Tasks -> BOOLEAN]
  /\ op \in [Ops -> Operation]
  /\ log \in Gens
  /\ handed \subseteq Gens

\* The actor's requests counted by beginPendingQuery and endPendingQuery.
PendingPhases ==
  {"pending", "assertRead", "assertSeen", "renewRead", "renewSeen",
   "renewSet", "renewed", "sql"}

Pending(t) ==
  {o \in Ops : /\ op[o].task = t
               /\ op[o].kind = "query"
               /\ op[o].pc \in PendingPhases}

\* The SQL section has no await: nothing else of the task runs during it.
ThreadFree(t) == \A o \in Ops : op[o].task = t => op[o].pc # "sql"

At(o, phase) == op[o].pc = phase /\ ThreadFree(op[o].task)

Goto(o, phase) == op' = [op EXCEPT ![o].pc = phase]
\* Send a read: what an earlier one returned is no longer needed.
Again(o, phase, n) ==
  op' = [op EXCEPT ![o].pc = phase, ![o].snap = NoOwner, ![o].cnt = 0, ![o].at = 0,
                   ![o].tries = n]
Send(o, phase) == Again(o, phase, op[o].tries)
Finish(o) == op' = [op EXCEPT ![o] = Idle]
\* Start over as a query of the same task.
Restart(o, phase, rec, target) ==
  op' = [op EXCEPT ![o] = Slot(phase, "query", op[o].task, rec, target)]

OwnedFence(t) ==
  IF owned[t] = 0 THEN NoOwner ELSE [task |-> t, gen |-> owned[t], lease |-> 0]
\* An ownedDbs entry is only ever a record of the task itself.
Remember(t, rec) == owned' = [owned EXCEPT ![t] = rec.gen]
ObserveAs(t, entry) == observed' = [observed EXCEPT ![t] = entry]
Forget(t) == Remember(t, NoOwner) /\ ObserveAs(t, NoEntry)

----------------------------------------------------------------------------
(* Redis: one command or one EXEC at a time.                               *)

\* Reads that WATCH the generation counter and return it.
WatchPhases == {"claimRead", "takeRead", "repairRead", "rebalanceRead"}

\* A read of the owner record, of its counter if watched, and of TIME.
RedisRead(o) ==
  /\ op[o].pc \in DOMAIN ReadThen
  /\ op' = [op EXCEPT ![o].pc = ReadThen[op[o].pc],
                      ![o].snap = IF op[o].pc \in {"repairRead", "timeRead"} THEN NoOwner ELSE owner,
                      ![o].cnt = IF op[o].pc \in WatchPhases THEN counter ELSE 0,
                      ![o].at = IF op[o].pc \in {"repairRead", "releaseRead"} THEN 0 ELSE now]
  /\ UNCHANGED <<now, redis, memory, log>>

\* WATCH compares the keys themselves: every write of either key that a
\* decision of this module depends on changes its value.
Unwatched_OwnerOnly(o) == owner.gen # op[o].snap.gen

Unwatched(o) == owner # op[o].snap \/ counter # op[o].cnt

\* withOwnerWatchRetries: run the operation again, at most Retries times.
Retry(o, phase, exhausted) ==
  IF op[o].tries + 1 < Retries
  THEN Again(o, phase, op[o].tries + 1)
  ELSE IF exhausted = "idle" THEN Finish(o) ELSE Again(o, exhausted, 0)

\* EXEC of stageOwnerClaim for a claim or a takeover by the local task.
ClaimExec(o) ==
  LET gen == NextGeneration(op[o].cnt, op[o].snap)
      rec == OwnerRecordFor(op[o].task, gen, op[o].at)
  IN  /\ op[o].pc = "claimExec"
      /\ \/ /\ gen > MaxGen
            /\ Finish(o)
            /\ UNCHANGED redis
         \/ /\ gen <= MaxGen
            /\ Unwatched(o)
            /\ IF op[o].snap = NoOwner
               THEN Retry(o, "claimRead", "raceRead")
               ELSE Retry(o, "takeRead", "idle")
            /\ UNCHANGED redis
         \/ /\ gen <= MaxGen
            /\ ~Unwatched(o)
            /\ owner' = rec
            /\ counter' = gen
            /\ op' = [op EXCEPT ![o].pc = "claimed", ![o].arg = rec]
            /\ UNCHANGED handed
      /\ UNCHANGED <<now, memory, log>>

\* SET key IFEQ bytes: extends the lease of the record that was read.
RenewSet(o) ==
  LET rec == OwnerRecordFor(op[o].task, op[o].arg.gen, op[o].at)
  IN  /\ op[o].pc = "renewSet"
      /\ IF owner = op[o].snap
         THEN /\ owner' = rec
              /\ op' = [op EXCEPT ![o].pc = "renewed", ![o].snap = rec]
         ELSE /\ Retry(o, "renewRead", "idle")
              /\ UNCHANGED owner
      /\ UNCHANGED <<now, counter, handed, memory, log>>

\* EXEC that raises a counter found behind its owner record.
RepairSet(o) ==
  /\ op[o].pc = "repairSet"
  /\ IF counter = op[o].cnt
     THEN counter' = op[o].arg.gen /\ Send(o, "local")
     ELSE Retry(o, "repairRead", "local") /\ UNCHANGED counter
  /\ UNCHANGED <<now, owner, handed, memory, log>>

\* delIfEqMany: deletes the record only if its bytes are those read.
ReleaseDel(o) ==
  /\ op[o].pc = "releaseDel"
  /\ IF owner = op[o].snap
     THEN owner' = NoOwner /\ Goto(o, "released")
     ELSE /\ op' = [op EXCEPT ![o].pc = "releaseRead", ![o].snap = NoOwner, ![o].tries = @ + 1]
          /\ UNCHANGED owner
  /\ UNCHANGED <<now, counter, handed, memory, log>>

\* EXEC of a rebalance to op[o].target.
MoveExec(o) ==
  LET gen == NextGeneration(op[o].cnt, op[o].snap)
      rec == OwnerRecordFor(op[o].target, gen, op[o].at)
  IN  /\ op[o].pc = "moveExec"
      /\ \/ /\ gen > MaxGen
            /\ Finish(o)
            /\ UNCHANGED redis
         \/ /\ gen <= MaxGen
            /\ Unwatched(o)
            /\ Retry(o, "rebalanceRead", "idle")
            /\ UNCHANGED redis
         \/ /\ gen <= MaxGen
            /\ ~Unwatched(o)
            /\ owner' = rec
            /\ counter' = gen
            /\ handed' = handed \cup {op[o].snap.gen}
            /\ op' = [op EXCEPT ![o].pc = "moved", ![o].arg = rec]
      /\ UNCHANGED <<now, memory, log>>

\* EXEC of a rebalance without a target: the record is deleted.
DropExec(o) ==
  /\ op[o].pc = "dropExec"
  /\ IF Unwatched(o)
     THEN Retry(o, "rebalanceRead", "idle") /\ UNCHANGED redis
     ELSE /\ owner' = NoOwner
          /\ handed' = handed \cup {op[o].snap.gen}
          /\ Goto(o, "dropped")
          /\ UNCHANGED counter
  /\ UNCHANGED <<now, memory, log>>

\* Redis removes the key when its TTL runs out, which is not before the
\* lease in the record ends.
KeyExpires ==
  /\ owner # NoOwner
  /\ LeaseExpired(owner, now)
  /\ owner' = NoOwner
  /\ UNCHANGED <<now, counter, handed, memory, op, log>>

----------------------------------------------------------------------------
(* resolveDbOwner and takeoverExpiredOwner.                                *)

BeginQuery(o, t) ==
  /\ op[o].pc = "idle"
  /\ ThreadFree(t)
  /\ op' = [op EXCEPT ![o] = Slot("resolve", "query", t, NoOwner, NoTask)]
  /\ UNCHANGED <<now, redis, memory, log>>

\* cachedObservedOwner, then the first read.
Resolve(o) ==
  LET t == op[o].task
      entry == observed[t]
      hit == entry # NoEntry
  IN  /\ At(o, "resolve")
      /\ \/ /\ ~hit
            /\ ObserveAs(t, NoEntry)
            /\ Goto(o, "resolveRead")
            /\ UNCHANGED owned
         \/ /\ hit
            /\ entry.rec.task = t
            /\ IF draining[t]
               THEN Finish(o) /\ UNCHANGED owned
               ELSE /\ Remember(t, entry.rec)
                    /\ op' = [op EXCEPT ![o].pc = "local", ![o].arg = Fence(entry.rec)]
            /\ UNCHANGED observed
         \/ /\ hit
            /\ entry.rec.task # t
            /\ Remember(t, NoOwner)
            /\ op' = [op EXCEPT ![o].pc = "remote", ![o].arg = entry.rec]
            /\ UNCHANGED observed
      /\ UNCHANGED <<now, redis, draining, log>>

\* resolveDbOwner returns rec.  After a refresh or a takeover made because of
\* the probe of an owner (op[o].target), that same owner ends the routing.
RouteTo(o, rec) ==
  IF op[o].target \in {rec.task, op[o].task}
  THEN Finish(o)
  ELSE IF rec.task = op[o].task THEN Restart(o, "local", Fence(rec), op[o].target)
                                ELSE Restart(o, "remote", rec, op[o].target)

\* An expired record found by a read: forget it and take over.
TakeOver(o) ==
  /\ Forget(op[o].task)
  /\ Restart(o, "takeover", Fence(op[o].snap), op[o].target)

\* A draining task goes on serving the database it owns.
ResolveSeen_ServesDraining(o) ==
  LET t == op[o].task
      rec == op[o].snap
  IN  /\ At(o, "resolveSeen")
      /\ \/ /\ rec = NoOwner
            /\ IF draining[t] THEN Finish(o) ELSE Send(o, "claimRead")
            /\ UNCHANGED <<owned, observed>>
         \/ /\ rec # NoOwner
            /\ LeaseExpired(rec, op[o].at)
            /\ TakeOver(o)
         \/ /\ rec # NoOwner
            /\ ~LeaseExpired(rec, op[o].at)
            /\ rec.task # t
            /\ Remember(t, NoOwner)
            /\ ObserveAs(t, Observe(rec, op[o].at))
            /\ RouteTo(o, rec)
         \/ /\ rec # NoOwner
            /\ ~LeaseExpired(rec, op[o].at)
            /\ rec.task = t
            /\ Remember(t, rec)
            /\ ObserveAs(t, Observe(rec, op[o].at))
            /\ RouteTo(o, rec)
      /\ UNCHANGED <<now, redis, draining, log>>

ResolveSeen(o) ==
  LET t == op[o].task
      rec == op[o].snap
  IN  /\ At(o, "resolveSeen")
      /\ \/ /\ rec = NoOwner
            /\ IF draining[t] THEN Finish(o) ELSE Send(o, "claimRead")
            /\ UNCHANGED <<owned, observed>>
         \/ /\ rec # NoOwner
            /\ LeaseExpired(rec, op[o].at)
            /\ TakeOver(o)
         \/ /\ rec # NoOwner
            /\ ~LeaseExpired(rec, op[o].at)
            /\ rec.task # t
            /\ Remember(t, NoOwner)
            /\ ObserveAs(t, Observe(rec, op[o].at))
            /\ RouteTo(o, rec)
         \/ /\ rec # NoOwner
            /\ ~LeaseExpired(rec, op[o].at)
            /\ rec.task = t
            /\ IF draining[t]
               THEN Finish(o) /\ UNCHANGED <<owned, observed>>
               ELSE /\ Remember(t, rec)
                    /\ ObserveAs(t, Observe(rec, op[o].at))
                    /\ IF owned[t] # 0
                       THEN RouteTo(o, rec)
                       ELSE Restart(o, "repairRead", Fence(rec), op[o].target)
      /\ UNCHANGED <<now, redis, draining, log>>

\* repairGenerationCounterIfStale.
RepairSeen(o) ==
  /\ At(o, "repairSeen")
  /\ IF op[o].cnt >= op[o].arg.gen THEN Send(o, "local") ELSE Goto(o, "repairSet")
  /\ UNCHANGED <<now, redis, memory, log>>

\* The WATCHed snapshot of a claim, or a read after its retries ran out
\* (readOwnerWithTimeAfterClaimRace polls a bounded number of times).
ClaimSeen(o) ==
  LET t == op[o].task
      rec == op[o].snap
  IN  /\ At(o, "claimSeen") \/ At(o, "raceSeen")
      /\ \/ /\ rec = NoOwner
            /\ IF op[o].pc = "claimSeen" THEN Goto(o, "claimExec")
               ELSE Retry(o, "raceRead", "idle")
            /\ UNCHANGED <<owned, observed>>
         \/ /\ rec # NoOwner
            /\ LeaseExpired(rec, op[o].at)
            /\ TakeOver(o)
         \/ /\ rec # NoOwner
            /\ ~LeaseExpired(rec, op[o].at)
            /\ IF rec.task = t THEN Remember(t, rec) ELSE UNCHANGED owned
            /\ ObserveAs(t, Observe(rec, op[o].at))
            /\ RouteTo(o, rec)
      /\ UNCHANGED <<now, redis, draining, log>>

\* takeoverExpiredOwner up to its WATCH.
TakeoverBegin(o) ==
  /\ At(o, "takeover")
  /\ IF draining[op[o].task] THEN Finish(o) ELSE Goto(o, "takeRead")
  /\ UNCHANGED <<now, redis, memory, log>>

TakeoverSeen(o) ==
  LET t == op[o].task
      rec == op[o].snap
  IN  /\ At(o, "takeSeen")
      /\ \/ /\ rec = NoOwner
            /\ ObserveAs(t, NoEntry)
            /\ Restart(o, "resolveRead", NoOwner, op[o].target)
            /\ UNCHANGED owned
         \/ /\ rec # NoOwner
            /\ ~SameFence(rec, op[o].arg)
            /\ IF rec.task = t THEN Remember(t, rec) ELSE UNCHANGED owned
            /\ ObserveAs(t, NoEntry)
            /\ RouteTo(o, rec)
         \/ /\ SameFence(rec, op[o].arg)
            /\ ~LeaseExpired(rec, op[o].at)
            /\ ObserveAs(t, Observe(rec, op[o].at))
            /\ RouteTo(o, rec)
            /\ UNCHANGED owned
         \/ /\ SameFence(rec, op[o].arg)
            /\ LeaseExpired(rec, op[o].at)
            /\ Goto(o, "claimExec")
            /\ UNCHANGED <<owned, observed>>
      /\ UNCHANGED <<now, redis, draining, log>>

\* The task learns that its claim or takeover was written.
Claimed(o) ==
  LET t == op[o].task
  IN  /\ At(o, "claimed")
      /\ Remember(t, op[o].arg)
      /\ ObserveAs(t, Observe(op[o].arg, op[o].at))
      /\ RouteTo(o, op[o].arg)
      /\ UNCHANGED <<now, redis, draining, log>>

----------------------------------------------------------------------------
(* routeQueryToOwner for a remote owner.  The forwarded request is a new   *)
(* query of the owner's task.  A draining or stale owner makes the router  *)
(* refresh, and follow the new owner the first time; an unhealthy one may  *)
(* be taken over.                                                          *)

RouteForward(o) ==
  /\ At(o, "remote")
  /\ Finish(o)
  /\ UNCHANGED <<now, redis, memory, log>>

RouteRefresh(o) ==
  /\ At(o, "remote")
  /\ Restart(o, "resolveRead", NoOwner,
             IF op[o].target = NoTask THEN op[o].arg.task ELSE op[o].task)
  /\ UNCHANGED <<now, redis, memory, log>>

RouteProbeFailed(o) ==
  /\ At(o, "remote")
  /\ Goto(o, "timeRead")
  /\ UNCHANGED <<now, redis, memory, log>>

RouteTakeover(o) ==
  /\ At(o, "timeSeen")
  /\ IF LeaseExpired(op[o].arg, op[o].at)
     THEN Restart(o, "takeover", Fence(op[o].arg), op[o].arg.task)
     ELSE Finish(o)
  /\ UNCHANGED <<now, redis, memory, log>>

----------------------------------------------------------------------------
(* D1DatabaseActor.fetch.                                                  *)

\* The router calls the actor, which counts the request before reading it.
ActorBegin(o) ==
  /\ At(o, "local")
  /\ IF op[o].target = op[o].task THEN Finish(o) ELSE Restart(o, "pending", op[o].arg, NoTask)
  /\ UNCHANGED <<now, redis, memory, log>>

ActorDrainCheck(o) ==
  /\ At(o, "pending")
  /\ IF draining[op[o].task] THEN Finish(o) ELSE Goto(o, "assertRead")
  /\ UNCHANGED <<now, redis, memory, log>>

\* The deadline without the guard.
StartSql_NoGuard(o, rec) ==
  IF now < now + (rec.lease - op[o].at)
  THEN op' = [op EXCEPT ![o].pc = "sql", ![o].snap = rec, ![o].at = now,
                        ![o].due = now + (rec.lease - op[o].at), ![o].left = 1]
  ELSE Finish(o)

\* createLeaseBudgetGuard and assertLeaseBudget before the first statement;
\* rec is the record the owner check ended with.  A batch, and an exec of
\* several statements, is one transaction.
StartSql(o, rec) ==
  LET due == now + (rec.lease - op[o].at - Guard)
  IN  IF now < due
      THEN \E n \in 1 .. MaxStmts, txn \in BOOLEAN :
             /\ txn => n > 1
             /\ op' = [op EXCEPT ![o].pc = "sql", ![o].snap = rec, ![o].at = now,
                                 ![o].due = due, ![o].left = n, ![o].txn = txn]
      ELSE Finish(o)

\* assertCurrentOwnerWithLeaseBudget.
ActorAssert(o) ==
  LET t == op[o].task
      rec == op[o].snap
  IN  /\ At(o, "assertSeen")
      /\ \/ /\ ~SameFence(rec, op[o].arg)
            /\ Finish(o)
            /\ UNCHANGED memory
         \/ /\ SameFence(rec, op[o].arg)
            /\ LeaseExpired(rec, op[o].at)
            /\ Forget(t)
            /\ Finish(o)
            /\ UNCHANGED draining
         \/ /\ SameFence(rec, op[o].arg)
            /\ ~LeaseExpired(rec, op[o].at)
            /\ IF rec.lease - op[o].at < Guard
               THEN Send(o, "renewRead")
               ELSE StartSql(o, rec)
            /\ UNCHANGED memory
      /\ UNCHANGED <<now, redis, log>>

\* One statement ends; a transaction commits with its last one.  The next
\* statement starts only within the lease budget.
SqlStep(o) ==
  LET last == op[o].left = 1
  IN  /\ op[o].pc = "sql"
      /\ log' = IF op[o].txn /\ ~last THEN log ELSE op[o].arg.gen
      /\ IF last \/ now >= op[o].due
         THEN Finish(o)
         ELSE op' = [op EXCEPT ![o].left = @ - 1, ![o].at = now]
      /\ UNCHANGED <<now, redis, memory>>

\* A statement fails: a transaction is rolled back.
SqlFails(o) ==
  /\ op[o].pc = "sql"
  /\ Finish(o)
  /\ UNCHANGED <<now, redis, memory, log>>

----------------------------------------------------------------------------
(* renewOwner, for the supervisor's renew and for a query near expiry.     *)

BeginRenew(o, t) ==
  /\ op[o].pc = "idle"
  /\ ThreadFree(t)
  /\ ~draining[t]
  /\ owned[t] # 0
  /\ op' = [op EXCEPT ![o] = Slot("renewRead", "renew", t, OwnedFence(t), NoTask)]
  /\ UNCHANGED <<now, redis, memory, log>>

RenewSeen(o) ==
  LET rec == op[o].snap
  IN  /\ At(o, "renewSeen")
      /\ IF ~SameFence(rec, op[o].arg) \/ LeaseExpired(rec, op[o].at)
         THEN Forget(op[o].task) /\ Finish(o)
         ELSE Goto(o, "renewSet") /\ UNCHANGED <<owned, observed>>
      /\ UNCHANGED <<now, redis, draining, log>>

Renewed(o) ==
  LET t == op[o].task
      rec == op[o].snap
  IN  /\ At(o, "renewed")
      /\ \/ /\ op[o].kind = "query"
            /\ rec.lease - op[o].at < Guard
            /\ Forget(t)
            /\ Finish(o)
         \/ /\ op[o].kind = "renew" \/ rec.lease - op[o].at >= Guard
            /\ Remember(t, rec)
            /\ ObserveAs(t, Observe(rec, op[o].at))
            /\ IF op[o].kind = "renew" THEN Finish(o) ELSE StartSql(o, rec)
      /\ UNCHANGED <<now, redis, draining, log>>

----------------------------------------------------------------------------
(* drainOwnedDbs and releaseOwnerRecords.                                  *)

BeginDrain(o, t) ==
  /\ op[o].pc = "idle"
  /\ ThreadFree(t)
  /\ draining' = [draining EXCEPT ![t] = TRUE]
  /\ op' = [op EXCEPT ![o] = Slot("drainWait", "drain", t, OwnedFence(t), NoTask)]
  /\ UNCHANGED <<now, redis, owned, observed, log>>

DrainIdle(o) ==
  /\ At(o, "drainWait")
  /\ Pending(op[o].task) = {}
  /\ IF op[o].arg = NoOwner THEN Finish(o) ELSE Goto(o, "releaseRead")
  /\ UNCHANGED <<now, redis, memory, log>>

DrainTimeout(o) ==
  /\ At(o, "drainWait")
  /\ Pending(op[o].task) # {}
  /\ Finish(o)
  /\ UNCHANGED <<now, redis, memory, log>>

ReleaseSeen(o) ==
  /\ At(o, "releaseSeen")
  /\ \/ /\ ~SameFence(op[o].snap, op[o].arg)
        /\ Forget(op[o].task)
        /\ Finish(o)
     \/ /\ SameFence(op[o].snap, op[o].arg)
        /\ IF op[o].tries < Retries THEN Goto(o, "releaseDel") ELSE Finish(o)
        /\ UNCHANGED <<owned, observed>>
  /\ UNCHANGED <<now, redis, draining, log>>

Released(o) ==
  /\ At(o, "released")
  /\ Forget(op[o].task)
  /\ Finish(o)
  /\ UNCHANGED <<now, redis, draining, log>>

----------------------------------------------------------------------------
(* rebalanceDatabase.                                                      *)

BeginRebalance(o, t, target) ==
  /\ op[o].pc = "idle"
  /\ ThreadFree(t)
  /\ op' = [op EXCEPT ![o] = Slot("rebalanceRead", "rebalance", t, NoOwner, target)]
  /\ UNCHANGED <<now, redis, memory, log>>

RebalanceSeen(o) ==
  LET t == op[o].task
      rec == op[o].snap
  IN  /\ At(o, "rebalanceSeen")
      /\ \/ /\ rec.task # t
            /\ Forget(t)
            /\ Finish(o)
         \/ /\ rec.task = t
            /\ op[o].target = t
            /\ Remember(t, rec)
            /\ ObserveAs(t, NoEntry)
            /\ Finish(o)
         \/ /\ rec.task = t
            /\ op[o].target # t
            /\ Goto(o, IF op[o].target = NoTask THEN "dropExec" ELSE "moveExec")
            /\ UNCHANGED <<owned, observed>>
      /\ UNCHANGED <<now, redis, draining, log>>

Moved(o) ==
  LET t == op[o].task
  IN  /\ At(o, "moved") \/ At(o, "dropped")
      /\ Remember(t, NoOwner)
      /\ ObserveAs(t, IF op[o].pc = "moved" THEN Observe(op[o].arg, op[o].at) ELSE NoEntry)
      /\ Finish(o)
      /\ UNCHANGED <<now, redis, draining, log>>

----------------------------------------------------------------------------
(* The environment.                                                        *)

\* A Redis command fails or its reply is lost: the operation ends with an
\* error, whatever Redis did; a request goes on without a repair that failed.
RepairPhases == {"repairRead", "repairSeen", "repairSet"}

RedisError(o) ==
  /\ op[o].pc \in DOMAIN ReadThen \cup
       {ReadThen[p] : p \in DOMAIN ReadThen} \cup
       {"claimExec", "claimed", "renewSet", "renewed", "repairSet", "releaseDel",
        "released", "moveExec", "moved", "dropExec", "dropped"}
  /\ ThreadFree(op[o].task)
  /\ IF op[o].pc \in RepairPhases THEN Send(o, "local") ELSE Finish(o)
  /\ UNCHANGED <<now, redis, memory, log>>

\* A task dies and is started again under the same identity.
Crash(t) ==
  /\ owned' = [owned EXCEPT ![t] = 0]
  /\ observed' = [observed EXCEPT ![t] = NoEntry]
  /\ draining' = [draining EXCEPT ![t] = FALSE]
  /\ op' = [o \in Ops |-> IF op[o].task = t THEN Idle ELSE op[o]]
  /\ UNCHANGED <<now, redis, log>>

\* A query whose owner check is under way, with the time it may take.
Waiting(o) ==
  op[o].kind = "query" /\ op[o].pc \in {"assertSeen", "renewSeen", "renewSet", "renewed"}

\* Time passes; an observed entry past its expiry is as good as none, and is
\* dropped here rather than at its next lookup.
Tick ==
  /\ now < MaxTime
  /\ \A o \in Ops : /\ Waiting(o) => now < op[o].at + MaxDelay
                    /\ op[o].pc = "sql" => now < op[o].at + SqlTime
  /\ now' = now + 1
  /\ observed' = [t \in Tasks |-> IF observed[t].exp <= now' THEN NoEntry ELSE observed[t]]
  /\ UNCHANGED <<redis, owned, draining, op, log>>

----------------------------------------------------------------------------

Init ==
  /\ now = 0
  /\ \/ owner = NoOwner /\ counter = 0
     \/ /\ Legacy
        /\ \E t \in Tasks : owner = [task |-> t, gen |-> 1, lease |-> TTL]
        /\ MaxGen > 0
        /\ counter = 0
  /\ owned = [t \in Tasks |-> 0]
  /\ observed = [t \in Tasks |-> NoEntry]
  /\ draining = [t \in Tasks |-> FALSE]
  /\ op = [o \in Ops |-> Idle]
  /\ log = 0
  /\ handed = {}

RedisStep(o) ==
  \/ RedisRead(o) \/ ClaimExec(o) \/ RenewSet(o) \/ RepairSet(o)
  \/ ReleaseDel(o) \/ MoveExec(o) \/ DropExec(o)

TaskStep(o) ==
  \/ Resolve(o) \/ ResolveSeen(o) \/ RepairSeen(o) \/ ClaimSeen(o)
  \/ TakeoverBegin(o) \/ TakeoverSeen(o) \/ Claimed(o)
  \/ RouteForward(o) \/ RouteRefresh(o) \/ RouteProbeFailed(o) \/ RouteTakeover(o)
  \/ ActorBegin(o) \/ ActorDrainCheck(o) \/ ActorAssert(o)
  \/ SqlStep(o) \/ SqlFails(o)
  \/ RenewSeen(o) \/ Renewed(o)
  \/ DrainIdle(o) \/ DrainTimeout(o) \/ ReleaseSeen(o) \/ Released(o)
  \/ RebalanceSeen(o) \/ Moved(o)

Begin(o, t) ==
  \/ "query" \in Workload /\ BeginQuery(o, t)
  \/ "renew" \in Workload /\ BeginRenew(o, t)
  \/ t \in Stopping /\ BeginDrain(o, t)
  \/ "rebalance" \in Workload
     /\ \E target \in Tasks \cup {NoTask} : BeginRebalance(o, t, target)

Next ==
  \/ \E o \in Ops : RedisStep(o) \/ TaskStep(o) \/ RedisError(o)
  \/ \E o \in Ops, t \in Tasks : Begin(o, t)
  \/ \E t \in Tasks : Crash(t)
  \/ KeyExpires
  \/ Tick

Spec == Init /\ [][Next]_vars

\* The supervisor repeats the drain of a stopping task until the task owns
\* nothing, Redis answers, and a task runs the code its events made ready.
DrainFairness ==
  /\ \A o \in Ops : WF_vars(RedisStep(o)) /\ WF_vars(TaskStep(o))
  /\ \A t \in Stopping : SF_vars(draining[t] /\ \E o \in Ops : BeginDrain(o, t))

\* Next without lost Redis replies and without restarts of a stopping task:
\* after either, the task may not know of a record it has, which then stays
\* until its lease ends.
LiveNext ==
  \/ \E o \in Ops : RedisStep(o) \/ TaskStep(o)
  \/ \E o \in Ops, t \in Tasks : Begin(o, t)
  \/ \E t \in Tasks \ Stopping : Crash(t)
  \/ KeyExpires
  \/ Tick

LiveSpec == Init /\ [][LiveNext]_vars /\ DrainFairness

----------------------------------------------------------------------------
(* Properties.                                                             *)

\* While a request is inside the actor's SQL section, the Redis record still
\* carries the fence the request was admitted under and its lease has not
\* ended, so no other task can have become owner: the owner check, the lease
\* guard and drain's wait for pending queries together fence every commit.
\* The one exception is a generation that a rebalance gave away.
SqlUnderLease ==
  \A o \in Ops :
    op[o].pc = "sql" =>
      \/ op[o].arg.gen \in handed
      \/ SameFence(owner, op[o].arg) /\ ~LeaseExpired(owner, now)

\* Successive SQLite commits never go back to an older owner generation,
\* except commits under a generation that a rebalance gave away.
CommitsInGenerationOrder == [][log' >= log \/ log' \in handed]_log

\* Whenever the owner record passes from one fence to another in one write,
\* the generation rises, even if the counter was behind the record; the
\* counter itself never falls.
GenerationRises ==
  [][/\ counter' >= counter
     /\ (owner # NoOwner /\ owner' # NoOwner) =>
          (SameFence(owner', owner) \/ owner'.gen > owner.gen)]_<<owner, counter>>

\* The registry implements the abstract fenced writer.
Fenced ==
  INSTANCE FencedWriter WITH holder <- owner.gen, top <- counter,
                             log <- log, handed <- handed

ImplementsFencedWriter == Fenced!FencedSpec

\* SQLite never commits under an older generation than it already has.
NoStaleCommit == [][log' >= log]_log

\* A task that stays in draining ends up owning nothing as far as it knows,
\* which is what its supervisor waits for, although claims, takeovers and
\* renewals under way when the drain began may still add to ownedDbs, and
\* although every drain may time out while the actor has requests.
DrainForgets == \A t \in Stopping : <>[]draining[t] => <>[](owned[t] = 0)

\* A drained task with nothing left to do has no live record in Redis, so that
\* another task can take over at once.
DrainedHasNoLease ==
  \A t \in Stopping :
    (draining[t] /\ owned[t] = 0 /\ \A o \in Ops : op[o].task # t)
      => (owner.task # t \/ LeaseExpired(owner, now))

=============================================================================
