--------------------------- MODULE D1LeaseInvariant ---------------------------
(***************************************************************************)
(* The inductive invariant behind the D1 owner lease, and the proof that   *)
(* routing a query (resolveDbOwner, takeoverExpiredOwner, the router), the *)
(* actor, renewals and drains keep it, as far as the task's own steps go.  *)
(***************************************************************************)
EXTENDS D1OwnerRegistry, TLAPS

----------------------------------------------------------------------------
(* The inductive invariant.                                                *)

LocalPhases == {"repairRead", "repairSeen", "repairSet", "local"} \cup PendingPhases
ReleasePhases == {"releaseRead", "releaseSeen", "releaseDel", "released"}
CheckedPhases == {"assertSeen", "renewSeen", "renewSet", "renewed", "sql"}

\* A request that the actor admitted before it saw the task draining.
Admitted(q) == q.kind = "query" /\ q.pc \in PendingPhases \ {"pending"}

\* What one operation knows, by phase.
Shape(q) ==
  /\ q.pc # "idle" => q.task \in Tasks
  /\ q.at <= now
  /\ q.pc \in LocalPhases \cup ReleasePhases => q.arg.task = q.task
  /\ q.pc = "drainWait" => q.arg = NoOwner \/ q.arg.task = q.task
  /\ q.pc \in {"pending", "assertRead", "assertSeen", "sql"} => q.kind = "query"
  /\ q.pc \in {"renewRead", "renewSeen", "renewSet", "renewed"} => q.kind \in {"query", "renew"}
  /\ q.pc = "claimExec" => q.snap.lease <= q.at
  /\ q.pc = "moveExec" => q.target \in Tasks
  /\ q.pc \in {"renewSeen", "renewSet"} => q.snap.lease <= q.at + TTL
  /\ q.pc \in {"renewSet", "renewed", "releaseDel", "sql"} => SameFence(q.snap, q.arg)
  /\ q.pc = "releaseDel" => q.tries < Retries
  /\ q.pc = "repairSet" => q.cnt < q.arg.gen
  /\ (q.kind = "query" /\ q.pc \in CheckedPhases \ {"sql"}) => now <= q.at + MaxDelay
  /\ q.pc = "sql" => /\ q.left # 0
                     /\ q.due + SqlTime <= q.snap.lease
                     /\ q.at < q.due
                     /\ now <= q.at + SqlTime

\* The record a checked request read is still the one in Redis, until its
\* lease ends or a rebalance gives its generation away.
CoveredBy(q, own, hd) ==
  (/\ q.kind = "query"
   /\ q.pc \in CheckedPhases
   /\ q.snap.task = q.task
   /\ q.snap.gen \notin hd
   /\ now < q.snap.lease)
    => SameFence(own, q.snap) /\ q.snap.lease <= own.lease
Covered(q) == CoveredBy(q, owner, handed)

\* A task being drained is draining; once a drain releases, the task has no
\* admitted request and admits none.
Quiet ==
  /\ \A o \in Ops : op[o].pc \in ReleasePhases \cup {"drainWait"} => draining[op[o].task]
  /\ \A o, p \in Ops :
       op[o].pc \in ReleasePhases /\ op[p].task = op[o].task => ~Admitted(op[p])

IInv ==
  /\ TypeOK
  /\ owner.lease <= now + TTL
  /\ \A o \in Ops : Shape(op[o]) /\ Covered(op[o])
  /\ Quiet

----------------------------------------------------------------------------
(* Steps of one operation that leave Redis and the clock alone.            *)

\* What the step lemmas ask of the rest of the state.
OthersKept ==
  /\ now' = now /\ owner' = owner /\ counter' = counter /\ handed' = handed
  /\ owned' \in [Tasks -> Gens]
  /\ observed' \in [Tasks -> CacheEntry]
  /\ draining' \in [Tasks -> BOOLEAN]
  /\ \A t \in Tasks : draining[t] => draining'[t]
  /\ log' \in Gens

\* A step that replaces one operation and neither admits a request nor starts
\* a release keeps the invariant if the new operation has its own share of it.
LEMMA OpStep ==
  ASSUME IInv, NEW o \in Ops, NEW r \in Operation,
         op' = [op EXCEPT ![o] = r], OthersKept,
         Shape(r), Covered(r),
         Admitted(r) =>
           r.task = op[o].task /\ (Admitted(op[o]) \/ ~draining[r.task]),
         r.pc \in ReleasePhases =>
           r.task = op[o].task /\ (op[o].pc \in ReleasePhases \/ Pending(r.task) = {}),
         r.pc \in ReleasePhases \cup {"drainWait"} => draining'[r.task]
  PROVE  IInv'
<1> USE DEF IInv, OthersKept
<1>1. TypeOK'
  BY DEF TypeOK
<1>2. \A p \in Ops : op'[p] = IF p = o THEN r ELSE op[p]
  BY DEF TypeOK
<1>3. \A q : (Shape(q) => Shape(q)') /\ (Covered(q) => Covered(q)')
  BY DEF Shape, Covered, CoveredBy
<1>4. \A p \in Ops : Shape(op[p])' /\ Covered(op[p])'
  BY <1>2, <1>3 DEF Shape, Covered, CoveredBy
<1>5. \A p \in Ops : op[p].pc \in ReleasePhases \cup {"drainWait"} => op[p].task \in Tasks
  BY DEF Shape, ReleasePhases
<1>6. \A p \in Ops : op'[p].pc \in ReleasePhases \cup {"drainWait"} => draining'[op'[p].task]
  BY <1>2, <1>5 DEF Quiet
<1>7. ASSUME NEW p \in Ops, NEW q \in Ops, op'[p].pc \in ReleasePhases, op'[q].task = op'[p].task
      PROVE  ~Admitted(op'[q])
  <2>1. CASE p # o /\ q # o
    BY <1>2, <1>7, <2>1 DEF Quiet, Admitted
  <2>2. CASE p # o /\ q = o
    BY <1>2, <1>7, <2>2 DEF Quiet, Admitted
  <2>3. CASE p = o /\ q # o
    BY <1>2, <1>7, <2>3 DEF Quiet, Admitted, Pending
  <2>4. CASE p = o /\ q = o
    BY <1>2, <1>7, <2>4 DEF Admitted, PendingPhases, ReleasePhases
  <2> QED
    BY <2>1, <2>2, <2>3, <2>4
<1>8. Quiet'
  BY <1>6, <1>7 DEF Quiet, Admitted
<1> QED
  BY <1>1, <1>4, <1>8

\* Phases of which the invariant says nothing beyond the task and the time.
PlainPhases ==
  Phases \ (LocalPhases \cup ReleasePhases \cup {"drainWait", "claimExec", "moveExec"})

\* Moving an operation to a plain phase keeps the invariant.
LEMMA PlainStep ==
  ASSUME IInv, NEW o \in Ops, NEW r \in Operation,
         op' = [op EXCEPT ![o] = r], OthersKept,
         r.pc \in PlainPhases, r.at <= now, r.pc = "idle" \/ r.task \in Tasks
  PROVE  IInv'
<1>1. Shape(r) /\ Covered(r)
  BY DEF Shape, Covered, CoveredBy, PlainPhases, LocalPhases, ReleasePhases, PendingPhases, CheckedPhases
<1>2. ~Admitted(r) /\ r.pc \notin ReleasePhases \cup {"drainWait"}
  BY DEF Admitted, PlainPhases, LocalPhases
<1> QED
  BY <1>1, <1>2, OpStep, Zenon

\* An operation that starts has its type and the fields it starts with.
LEMMA SlotType ==
  /\ Idle \in Operation /\ Idle.pc = "idle" /\ Idle.at = 0
  /\ \A pc \in Phases, kind \in Kinds, t \in Tasks \cup {NoTask}, u \in Tasks \cup {NoTask},
        rec \in MaybeOwner :
       LET r == Slot(pc, kind, t, rec, u)
       IN  /\ r \in Operation
           /\ r.pc = pc /\ r.kind = kind /\ r.task = t /\ r.arg = rec /\ r.target = u /\ r.at = 0
<1>1. /\ "idle" \in Phases /\ "query" \in Kinds /\ NoOwner \in MaybeOwner /\ 0 \in Gens
      /\ 0 \in 0 .. Retries /\ 0 \in 0 .. MaxStmts
  BY BoundsAssumption DEF Phases, Kinds, MaybeOwner, Gens
<1> QED
  BY <1>1 DEF Operation, Slot, Idle

\* An idle slot is one of those.
LEMMA IdleType == Idle \in Operation /\ Idle.pc = "idle" /\ Idle.at = 0
BY SlotType

\* Ending an operation keeps the invariant.
LEMMA FinishStep ==
  ASSUME IInv, NEW o \in Ops, Finish(o), OthersKept
  PROVE  IInv'
<1>1. Idle \in Operation
  BY IdleType
<1>2. Idle.pc \in PlainPhases /\ Idle.at <= now
  BY IdleType DEF IInv, TypeOK, PlainPhases, Phases, LocalPhases, PendingPhases, ReleasePhases
<1> QED
  BY <1>1, <1>2, IdleType, PlainStep, Zenon DEF Finish

\* What a task keeps in memory has its type.
LEMMA MemoryType ==
  ASSUME TypeOK
  PROVE  /\ NoOwner \in MaybeOwner /\ NoEntry \in CacheEntry
         /\ \A t, rec : rec \in MaybeOwner /\ Remember(t, rec) => owned' \in [Tasks -> Gens]
         /\ \A t, e : e \in CacheEntry /\ ObserveAs(t, e) => observed' \in [Tasks -> CacheEntry]
         /\ \A rec \in MaybeOwner, time \in Nat : Observe(rec, time) \in CacheEntry
         /\ \A rec \in MaybeOwner : Fence(rec) \in MaybeOwner /\ Fence(rec).task = rec.task
<1>1. NoOwner \in MaybeOwner /\ NoEntry \in CacheEntry
  BY DEF MaybeOwner, CacheEntry
<1>2. \A rec \in MaybeOwner : rec.gen \in Gens /\ rec.lease \in Nat
  BY BoundsAssumption DEF MaybeOwner, OwnerRecord, NoOwner, Gens
<1>3. \A t, rec : rec \in MaybeOwner /\ Remember(t, rec) => owned' \in [Tasks -> Gens]
  BY <1>2, Zenon DEF TypeOK, Remember
<1>4. \A t, e : e \in CacheEntry /\ ObserveAs(t, e) => observed' \in [Tasks -> CacheEntry]
  BY Zenon DEF TypeOK, ObserveAs
<1>5. ASSUME NEW rec \in MaybeOwner, NEW time \in Nat
      PROVE  Observe(rec, time) \in CacheEntry
  <2>1. CASE LeaseExpired(rec, time) \/ ObsTTL = 0
    BY <2>1, <1>1 DEF Observe
  <2>2. CASE ~LeaseExpired(rec, time) /\ ObsTTL # 0
    <3>1. rec \in OwnerRecord
      BY <2>2 DEF MaybeOwner, NoOwner, LeaseExpired
    <3>2. now + MinOf(ObsTTL, rec.lease - time) \in Nat
      BY <2>2, <1>2, TimesAssumption DEF MinOf, LeaseExpired, TypeOK
    <3> QED
      BY <2>2, <3>1, <3>2 DEF Observe, CacheEntry
  <2> QED
    BY <2>1, <2>2
<1>6. \A rec \in MaybeOwner : Fence(rec) \in MaybeOwner /\ Fence(rec).task = rec.task
  BY DEF MaybeOwner, OwnerRecord, NoOwner, Fence
<1> QED
  BY <1>1, <1>3, <1>4, <1>5, <1>6

\* The fields of an operation.
LEMMA OpFields ==
  ASSUME IInv, NEW o \in Ops
  PROVE  /\ op[o] \in Operation
         /\ op[o].pc \in Phases /\ op[o].arg \in MaybeOwner /\ op[o].snap \in MaybeOwner
         /\ op[o].at \in Nat /\ op[o].at <= now
         /\ op[o].pc # "idle" => op[o].task \in Tasks
         /\ op[o].task \in Tasks \cup {NoTask} /\ op[o].target \in Tasks \cup {NoTask}
BY DEF IInv, TypeOK, Operation, Shape

\* The fields of a record that may be absent.
LEMMA RecordFields ==
  ASSUME NEW rec \in MaybeOwner
  PROVE  rec.task \in Tasks \cup {NoTask} /\ rec.gen \in Gens /\ rec.lease \in Nat
BY BoundsAssumption DEF MaybeOwner, OwnerRecord, NoOwner, Gens

\* The times an operation goes by, and what its phase knows.
LEMMA OpTimes ==
  ASSUME IInv, NEW o \in Ops
  PROVE  /\ now \in Nat /\ log \in Gens /\ Shape(op[o])
         /\ op[o].snap \in MaybeOwner /\ op[o].at \in Nat /\ op[o].snap.lease \in Nat
<1>1. now \in Nat /\ log \in Gens /\ Shape(op[o])
  BY DEF IInv, TypeOK
<1> QED BY <1>1, OpFields, RecordFields

\* Phases named here are plain.
LEMMA Plain ==
  {"resolveRead", "claimRead", "raceRead", "takeRead", "takeover", "timeRead", "remote",
   "resolve", "idle", "rebalanceRead", "dropExec", "moved", "dropped", "claimed"} \subseteq PlainPhases
BY DEF PlainPhases, Phases, LocalPhases, PendingPhases, ReleasePhases, ReadThen

\* Starting over in a plain phase, or with a record of the task itself in a
\* phase before the actor's drain check.
LEMMA RestartStep ==
  ASSUME IInv, NEW o \in Ops, NEW phase \in Phases, NEW rec \in MaybeOwner,
         NEW u \in Tasks \cup {NoTask}, op[o].pc # "idle",
         Restart(o, phase, rec, u), OthersKept,
         \/ phase \in PlainPhases
         \/ phase \in {"repairRead", "local", "pending"} /\ rec.task = op[o].task
  PROVE  IInv'
<1> DEFINE r == Slot(phase, "query", op[o].task, rec, u)
<1>1. op' = [op EXCEPT ![o] = r]
  BY DEF Restart
<1>2. /\ r \in Operation /\ op[o].task \in Tasks
      /\ r.pc = phase /\ r.kind = "query" /\ r.task = op[o].task /\ r.arg = rec /\ r.at = 0
  BY OpFields, SlotType DEF Kinds
<1>3. r.at <= now
  BY <1>2 DEF IInv, TypeOK
<1> HIDE DEF r
<1>4. CASE phase \in PlainPhases
  BY <1>1, <1>2, <1>3, <1>4, PlainStep, Zenon
<1>5. CASE phase \in {"repairRead", "local", "pending"} /\ rec.task = op[o].task
  <2>1. Shape(r) /\ Covered(r) /\ ~Admitted(r) /\ r.pc \notin ReleasePhases \cup {"drainWait"}
    BY <1>2, <1>3, <1>5
    DEF Shape, Covered, CoveredBy, Admitted, LocalPhases, PendingPhases, ReleasePhases, CheckedPhases
  <2> QED
    BY <1>1, <1>2, <2>1, OpStep, Zenon
<1> QED
  BY <1>4, <1>5

\* Returning an owner from resolveDbOwner keeps the invariant.
LEMMA RouteStep ==
  ASSUME IInv, NEW o \in Ops, NEW rec \in MaybeOwner, op[o].pc # "idle",
         RouteTo(o, rec), OthersKept
  PROVE  IInv'
<1>1. op[o].target \in Tasks \cup {NoTask} /\ Fence(rec) \in MaybeOwner /\ Fence(rec).task = rec.task
  BY MemoryType DEF IInv, TypeOK, Operation
<1>2. CASE Finish(o)
  BY <1>2, FinishStep
<1>3. CASE rec.task = op[o].task /\ Restart(o, "local", Fence(rec), op[o].target)
  BY <1>1, <1>3, RestartStep DEF Phases
<1>4. CASE Restart(o, "remote", rec, op[o].target)
  BY <1>1, <1>4, RestartStep, Plain DEF PlainPhases
<1> QED
  BY <1>2, <1>3, <1>4 DEF RouteTo

\* Going to a plain phase with everything else kept.
LEMMA GotoStep ==
  ASSUME IInv, NEW o \in Ops, NEW phase \in PlainPhases, op[o].pc # "idle",
         Goto(o, phase), OthersKept
  PROVE  IInv'
<1> DEFINE r == [op[o] EXCEPT !.pc = phase]
<1>1. op' = [op EXCEPT ![o] = r]
  BY DEF Goto
<1>2. r \in Operation /\ r.pc = phase /\ r.at = op[o].at /\ r.task = op[o].task
  BY OpFields DEF Operation, PlainPhases
<1> HIDE DEF r
<1> QED
  BY <1>1, <1>2, OpFields, PlainStep, Zenon

\* Dropping what was read, for the next attempt at a phase.
LEMMA ResetStep ==
  ASSUME IInv, NEW o \in Ops, NEW phase \in Phases, NEW n \in 0 .. Retries, op[o].pc # "idle",
         Again(o, phase, n), OthersKept,
         \/ phase \in PlainPhases
         \/ phase \in {"repairRead", "local"} /\ op[o].pc \in LocalPhases
         \/ phase = "renewRead" /\ op[o].pc \in {"assertSeen", "renewSeen", "renewSet"}
  PROVE  IInv'
<1> DEFINE r == [op[o] EXCEPT !.pc = phase, !.snap = NoOwner, !.cnt = 0, !.at = 0, !.tries = n]
<1>1. op' = [op EXCEPT ![o] = r]
  BY Zenon DEF Again
<1>2. /\ r \in Operation
      /\ r.pc = phase /\ r.task = op[o].task /\ r.at = 0
      /\ r.arg = op[o].arg /\ r.kind = op[o].kind
  <2>1. op[o] \in Operation /\ NoOwner \in MaybeOwner /\ 0 \in Gens
    BY OpFields, MemoryType, BoundsAssumption DEF Gens, IInv
  <2> QED
    BY <2>1, Zenon DEF Operation
<1>3. r.at <= now /\ r.task \in Tasks
  BY <1>2, OpFields DEF IInv, TypeOK
<1>4. Shape(op[o])
  BY DEF IInv
<1> HIDE DEF r
<1>5. CASE phase \in PlainPhases
  BY <1>5, <1>1, <1>2, <1>3, PlainStep, Zenon
<1>6. CASE phase \in {"repairRead", "local"} /\ op[o].pc \in LocalPhases
  <2>1. Shape(r) /\ Covered(r) /\ ~Admitted(r) /\ r.pc \notin ReleasePhases \cup {"drainWait"}
    BY <1>2, <1>3, <1>4, <1>6
    DEF Shape, Covered, CoveredBy, Admitted, LocalPhases, PendingPhases, ReleasePhases, CheckedPhases
  <2> QED
    BY <1>1, <1>2, <2>1, OpStep, Zenon
<1>7. CASE phase = "renewRead" /\ op[o].pc \in {"assertSeen", "renewSeen", "renewSet"}
  <2>1. Shape(r) /\ Covered(r) /\ r.pc \notin ReleasePhases \cup {"drainWait"}
    BY <1>2, <1>3, <1>4, <1>7
    DEF Shape, Covered, CoveredBy, LocalPhases, PendingPhases, ReleasePhases, CheckedPhases
  <2>2. Admitted(r) => Admitted(op[o])
    BY <1>2, <1>7 DEF Admitted, PendingPhases
  <2> QED
    BY <1>1, <1>2, <2>1, <2>2, OpStep, Zenon
<1> QED
  BY <1>5, <1>6, <1>7

\* Send and Retry are such steps.
LEMMA SendStep ==
  ASSUME IInv, NEW o \in Ops, NEW phase \in Phases, op[o].pc # "idle",
         Send(o, phase), OthersKept,
         \/ phase \in PlainPhases
         \/ phase = "local" /\ op[o].pc \in LocalPhases
         \/ phase = "renewRead" /\ op[o].pc = "assertSeen"
  PROVE  IInv'
<1>1. op[o].tries \in 0 .. Retries
  BY DEF IInv, TypeOK, Operation
<1> QED
  BY <1>1, ResetStep DEF Send

\* A retry after a lost WATCH race or a failed compare is such a step.
LEMMA RetryStep ==
  ASSUME IInv, NEW o \in Ops, NEW phase \in Phases, NEW exhausted \in Phases, op[o].pc # "idle",
         Retry(o, phase, exhausted), OthersKept,
         \/ phase \in PlainPhases /\ exhausted \in PlainPhases
         \/ phase = "repairRead" /\ exhausted = "local" /\ op[o].pc \in LocalPhases
         \/ phase = "renewRead" /\ exhausted = "idle" /\ op[o].pc = "renewSet"
  PROVE  IInv'
<1>1. op[o].tries \in 0 .. Retries /\ 0 \in 0 .. Retries
  BY BoundsAssumption DEF IInv, TypeOK, Operation
<1>2. CASE op[o].tries + 1 < Retries
  <2>1. op[o].tries + 1 \in 0 .. Retries
    BY <1>1, <1>2, BoundsAssumption
  <2> QED
    BY <1>2, <2>1, ResetStep DEF Retry
<1>3. CASE ~(op[o].tries + 1 < Retries) /\ exhausted = "idle"
  BY <1>3, FinishStep DEF Retry
<1>4. CASE ~(op[o].tries + 1 < Retries) /\ exhausted # "idle"
  BY <1>1, <1>4, ResetStep DEF Retry
<1> QED
  BY <1>2, <1>3, <1>4

\* When a step is one of a single operation.
LEMMA Kept ==
  ASSUME IInv, UNCHANGED <<now, redis, draining>>, log' \in Gens,
         owned' \in [Tasks -> Gens], observed' \in [Tasks -> CacheEntry]
  PROVE  OthersKept
BY DEF IInv, TypeOK, redis, OthersKept

\* A step that leaves Redis, the clock and the memory of the tasks alone.
LEMMA AllKept ==
  ASSUME IInv, UNCHANGED <<now, redis, memory, log>>
  PROVE  OthersKept
BY DEF IInv, TypeOK, redis, memory, OthersKept

\* Forget, and each combination of Remember and ObserveAs, keeps the types.
LEMMA ForgetType ==
  ASSUME IInv, NEW t, Forget(t)
  PROVE  owned' \in [Tasks -> Gens] /\ observed' \in [Tasks -> CacheEntry]
BY MemoryType DEF IInv, Forget

----------------------------------------------------------------------------
(* Routing: no step of it enters the actor.                                *)

\* Forgetting an expired owner and starting its takeover.
LEMMA TakeOverStep ==
  ASSUME IInv, NEW o \in Ops, op[o].pc # "idle", TakeOver(o),
         UNCHANGED <<now, redis, draining, log>>
  PROVE  IInv'
<1>1. OthersKept
  BY ForgetType, Kept DEF TakeOver, IInv, TypeOK
<1>2. Fence(op[o].snap) \in MaybeOwner /\ op[o].task \in Tasks /\ op[o].target \in Tasks \cup {NoTask}
  BY OpFields, MemoryType DEF IInv, TypeOK, Operation
<1> QED
  BY <1>1, <1>2, Plain, RestartStep DEF TakeOver, PlainPhases

\* A claim or a takeover decided on an absent or expired record.
LEMMA ClaimExecStep ==
  ASSUME IInv, NEW o \in Ops, op[o].pc # "idle", Goto(o, "claimExec"), OthersKept,
         op[o].snap.lease <= op[o].at
  PROVE  IInv'
<1> DEFINE r == [op[o] EXCEPT !.pc = "claimExec"]
<1>1. op' = [op EXCEPT ![o] = r]
  BY DEF Goto
<1>2. /\ r \in Operation /\ r.pc = "claimExec" /\ r.task = op[o].task
      /\ r.at = op[o].at /\ r.snap = op[o].snap
  BY OpFields DEF Operation, Phases
<1> HIDE DEF r
<1>3. Shape(r) /\ Covered(r) /\ ~Admitted(r) /\ r.pc \notin ReleasePhases \cup {"drainWait"}
  BY <1>2, OpFields
  DEF Shape, Covered, CoveredBy, Admitted, LocalPhases, PendingPhases, ReleasePhases, CheckedPhases
<1> QED
  BY <1>1, <1>2, <1>3, OpStep, Zenon

\* resolveDbOwner up to its first read, the observed-owner cache included.
LEMMA ResolveStep ==
  ASSUME IInv, NEW o \in Ops, Resolve(o)
  PROVE  IInv'
<1> DEFINE t == op[o].task
           entry == observed[t]
<1>1. t \in Tasks /\ op[o].pc = "resolve" /\ UNCHANGED <<now, redis, draining, log>> /\ log \in Gens
  BY OpFields DEF Resolve, At, IInv, TypeOK
<1>2. entry \in CacheEntry /\ (entry # NoEntry => entry.rec \in MaybeOwner)
  BY <1>1 DEF IInv, TypeOK, CacheEntry, MaybeOwner
<1>3. CASE ObserveAs(t, NoEntry) /\ Goto(o, "resolveRead") /\ UNCHANGED owned
  <2>1. OthersKept
    BY <1>1, <1>3, MemoryType, Kept DEF IInv, TypeOK
  <2> QED
    BY <1>1, <1>3, <2>1, Plain, GotoStep
<1>4. CASE entry # NoEntry /\ UNCHANGED <<owned, observed>> /\ Finish(o)
  BY <1>1, <1>4, Kept, FinishStep DEF IInv, TypeOK
<1>5. CASE /\ entry # NoEntry /\ entry.rec.task = t /\ Remember(t, entry.rec) /\ UNCHANGED observed
           /\ op' = [op EXCEPT ![o].pc = "local", ![o].arg = Fence(entry.rec)]
  <2> DEFINE r == [op[o] EXCEPT !.pc = "local", !.arg = Fence(entry.rec)]
  <2>1. OthersKept
    BY <1>1, <1>2, <1>5, MemoryType, Kept DEF IInv, TypeOK
  <2>2. Fence(entry.rec) \in MaybeOwner /\ Fence(entry.rec).task = t /\ "local" \in Phases
    BY <1>2, <1>5, MemoryType DEF IInv, Phases
  <2>3. op' = [op EXCEPT ![o] = r]
    BY <1>5, Zenon
  <2>4. r \in Operation /\ r.pc = "local" /\ r.task = t /\ r.at = op[o].at /\ r.arg = Fence(entry.rec)
    BY <2>2, OpFields, Zenon DEF Operation
  <2> HIDE DEF r
  <2>5. Shape(r) /\ Covered(r) /\ ~Admitted(r) /\ r.pc \notin ReleasePhases \cup {"drainWait"}
    BY <1>1, <2>2, <2>4, OpFields
    DEF Shape, Covered, CoveredBy, Admitted, LocalPhases, PendingPhases, ReleasePhases, CheckedPhases
  <2> QED
    BY <2>1, <2>3, <2>4, <2>5, OpStep, Zenon
<1>6. CASE /\ entry # NoEntry /\ Remember(t, NoOwner) /\ UNCHANGED observed
           /\ op' = [op EXCEPT ![o].pc = "remote", ![o].arg = entry.rec]
  <2> DEFINE r == [op[o] EXCEPT !.pc = "remote", !.arg = entry.rec]
  <2>1. OthersKept
    BY <1>1, <1>6, MemoryType, Kept DEF IInv, TypeOK
  <2>2. op' = [op EXCEPT ![o] = r]
    BY <1>6, Zenon
  <2>3. r \in Operation /\ r.pc = "remote" /\ r.task = t /\ r.at = op[o].at
    BY <1>2, <1>6, OpFields, Plain, ZenonT(30) DEF Operation, PlainPhases
  <2> HIDE DEF r
  <2> QED
    BY <1>1, <2>1, <2>2, <2>3, OpFields, Plain, PlainStep, Zenon
<1> QED
  BY <1>3, <1>4, <1>5, <1>6 DEF Resolve

\* resolveDbOwner after its first read.
LEMMA ResolveSeenStep ==
  ASSUME IInv, NEW o \in Ops, ResolveSeen(o)
  PROVE  IInv'
<1> DEFINE t == op[o].task
           rec == op[o].snap
<1>1. /\ op[o].pc = "resolveSeen" /\ rec \in MaybeOwner /\ op[o].at \in Nat
      /\ UNCHANGED <<now, redis, draining, log>> /\ log \in Gens
  BY OpFields DEF ResolveSeen, At, IInv, TypeOK
<1>2. /\ UNCHANGED owned \/ Remember(t, rec) \/ Remember(t, NoOwner) => owned' \in [Tasks -> Gens]
      /\ UNCHANGED observed \/ ObserveAs(t, Observe(rec, op[o].at)) => observed' \in [Tasks -> CacheEntry]
  BY <1>1, MemoryType DEF IInv, TypeOK
<1>3. CASE (Finish(o) \/ Send(o, "claimRead")) /\ UNCHANGED <<owned, observed>>
  <2>1. OthersKept
    BY <1>1, <1>2, <1>3, Kept
  <2> QED
    BY <1>1, <1>3, <2>1, FinishStep, SendStep, Plain DEF PlainPhases
<1>4. CASE TakeOver(o)
  BY <1>1, <1>4, TakeOverStep
<1>5. CASE /\ Remember(t, rec) \/ Remember(t, NoOwner)
           /\ ObserveAs(t, Observe(rec, op[o].at))
           /\ RouteTo(o, rec) \/ (rec.task = t /\ Restart(o, "repairRead", Fence(rec), op[o].target))
  <2>1. OthersKept
    BY <1>1, <1>2, <1>5, Kept
  <2>2. CASE RouteTo(o, rec)
    BY <1>1, <2>1, <2>2, RouteStep
  <2>3. CASE rec.task = t /\ Restart(o, "repairRead", Fence(rec), op[o].target)
    <3>1. Fence(rec) \in MaybeOwner /\ Fence(rec).task = t
      BY <1>1, <2>3, MemoryType DEF IInv
    <3>2. op[o].target \in Tasks \cup {NoTask}
      BY OpFields
    <3>3. "repairRead" \in Phases
      BY DEF Phases, ReadThen
    <3> QED
      BY <1>1, <2>1, <2>3, <3>1, <3>2, <3>3, RestartStep
  <2> QED
    BY <1>5, <2>2, <2>3
<1>6. CASE rec = NoOwner
  BY <1>3, <1>6 DEF ResolveSeen, TakeOver
<1>7. CASE rec # NoOwner /\ LeaseExpired(rec, op[o].at)
  BY <1>4, <1>7 DEF ResolveSeen
<1>8. CASE rec # NoOwner /\ ~LeaseExpired(rec, op[o].at) /\ rec.task # t
  <2>1. Remember(t, NoOwner) /\ ObserveAs(t, Observe(rec, op[o].at)) /\ RouteTo(o, rec)
    BY <1>8, ZenonT(30) DEF ResolveSeen
  <2> QED
    BY <1>5, <2>1
<1>9. CASE rec # NoOwner /\ ~LeaseExpired(rec, op[o].at) /\ rec.task = t /\ draining[t]
  BY <1>3, <1>9 DEF ResolveSeen
<1>10. CASE rec # NoOwner /\ ~LeaseExpired(rec, op[o].at) /\ rec.task = t /\ ~draining[t]
  <2>1. Remember(t, rec) /\ ObserveAs(t, Observe(rec, op[o].at))
    BY <1>10, Zenon DEF ResolveSeen
  <2>2. RouteTo(o, rec) \/ Restart(o, "repairRead", Fence(rec), op[o].target)
    BY <1>10, Zenon DEF ResolveSeen
  <2> QED
    BY <1>5, <1>10, <2>1, <2>2
<1> QED
  BY <1>6, <1>7, <1>8, <1>9, <1>10

\* A claim after its WATCHed read, or after the reads that follow a lost race.
LEMMA ClaimSeenStep ==
  ASSUME IInv, NEW o \in Ops, ClaimSeen(o)
  PROVE  IInv'
<1> DEFINE t == op[o].task
           rec == op[o].snap
<1>1. /\ op[o].pc \in {"claimSeen", "raceSeen"} /\ rec \in MaybeOwner /\ op[o].at \in Nat
      /\ UNCHANGED <<now, redis, draining, log>> /\ log \in Gens
  BY OpFields DEF ClaimSeen, At, IInv, TypeOK
<1>2. /\ UNCHANGED owned \/ Remember(t, rec) => owned' \in [Tasks -> Gens]
      /\ UNCHANGED observed \/ ObserveAs(t, Observe(rec, op[o].at)) => observed' \in [Tasks -> CacheEntry]
  BY <1>1, MemoryType DEF IInv, TypeOK
<1>3. CASE rec = NoOwner /\ UNCHANGED <<owned, observed>> /\ Goto(o, "claimExec")
  <2>1. OthersKept
    BY <1>1, <1>2, <1>3, Kept
  <2> QED
    BY <1>1, <1>3, <2>1, ClaimExecStep DEF NoOwner
<1>4. CASE UNCHANGED <<owned, observed>> /\ Retry(o, "raceRead", "idle")
  <2>1. OthersKept
    BY <1>1, <1>2, <1>4, Kept
  <2> QED
    BY <1>1, <1>4, <2>1, RetryStep, Plain DEF PlainPhases
<1>5. CASE TakeOver(o)
  BY <1>1, <1>5, TakeOverStep
<1>6. CASE /\ UNCHANGED owned \/ Remember(t, rec)
           /\ ObserveAs(t, Observe(rec, op[o].at))
           /\ RouteTo(o, rec)
  <2>1. OthersKept
    BY <1>1, <1>2, <1>6, Kept, SMTT(30)
  <2> QED
    BY <1>1, <1>6, <2>1, RouteStep
<1> QED
  BY <1>3, <1>4, <1>5, <1>6, SMTT(30) DEF ClaimSeen

\* takeoverExpiredOwner after its WATCHed read.
LEMMA TakeoverSeenStep ==
  ASSUME IInv, NEW o \in Ops, TakeoverSeen(o)
  PROVE  IInv'
<1> DEFINE t == op[o].task
           rec == op[o].snap
<1>1. /\ op[o].pc = "takeSeen" /\ rec \in MaybeOwner /\ op[o].at \in Nat
      /\ UNCHANGED <<now, redis, draining, log>> /\ log \in Gens
      /\ op[o].target \in Tasks \cup {NoTask}
  BY OpFields, ZenonT(30) DEF TakeoverSeen, At, IInv, TypeOK, Operation
<1>2. /\ UNCHANGED owned \/ Remember(t, rec) => owned' \in [Tasks -> Gens]
      /\ UNCHANGED observed \/ ObserveAs(t, NoEntry) \/ ObserveAs(t, Observe(rec, op[o].at))
           => observed' \in [Tasks -> CacheEntry]
  BY <1>1, MemoryType DEF IInv, TypeOK
<1>3. CASE ObserveAs(t, NoEntry) /\ UNCHANGED owned /\ Restart(o, "resolveRead", NoOwner, op[o].target)
  <2>1. OthersKept
    BY <1>1, <1>2, <1>3, Kept
  <2>2. NoOwner \in MaybeOwner
    BY DEF MaybeOwner
  <2> QED
    BY <1>1, <1>3, <2>1, <2>2, RestartStep, Plain DEF PlainPhases
<1>4. CASE /\ UNCHANGED owned \/ Remember(t, rec)
           /\ ObserveAs(t, NoEntry) \/ ObserveAs(t, Observe(rec, op[o].at))
           /\ RouteTo(o, rec)
  <2>1. OthersKept
    BY <1>1, <1>2, <1>4, Kept
  <2> QED
    BY <1>1, <1>4, <2>1, RouteStep
<1>5. CASE LeaseExpired(rec, op[o].at) /\ UNCHANGED <<owned, observed>> /\ Goto(o, "claimExec")
  <2>1. OthersKept
    BY <1>1, <1>2, <1>5, Kept
  <2> QED
    BY <1>1, <1>5, <2>1, ClaimExecStep DEF LeaseExpired
<1> QED
  BY <1>3, <1>4, <1>5 DEF TakeoverSeen

\* A claim or takeover after its EXEC.
LEMMA ClaimedStep ==
  ASSUME IInv, NEW o \in Ops, Claimed(o)
  PROVE  IInv'
<1>1. /\ op[o].pc = "claimed" /\ op[o].arg \in MaybeOwner /\ op[o].at \in Nat
      /\ UNCHANGED <<now, redis, draining, log>> /\ log \in Gens
  BY OpFields DEF Claimed, At, IInv, TypeOK
<1>2. OthersKept
  BY <1>1, MemoryType, Kept, Zenon DEF Claimed, IInv
<1> QED
  BY <1>1, <1>2, RouteStep, SMTT(30) DEF Claimed

\* The steps of routing that change no memory of the task.
LEMMA RoutingStep ==
  ASSUME IInv, NEW o \in Ops,
         \/ RepairSeen(o) \/ TakeoverBegin(o) \/ RouteForward(o) \/ RouteRefresh(o)
         \/ RouteProbeFailed(o) \/ RouteTakeover(o) \/ ActorBegin(o)
  PROVE  IInv'
<1>1. UNCHANGED <<now, redis, memory, log>>
  BY DEF RepairSeen, TakeoverBegin, RouteForward, RouteRefresh, RouteProbeFailed, RouteTakeover, ActorBegin
<1>2. OthersKept
  BY <1>1, AllKept
<1>3. /\ op[o].arg \in MaybeOwner /\ op[o].arg.task \in Tasks \cup {NoTask}
      /\ Fence(op[o].arg) \in MaybeOwner /\ NoOwner \in MaybeOwner
  <2>1. op[o].arg \in MaybeOwner /\ TypeOK
    BY OpFields, SMTT(30) DEF IInv
  <2> QED
    BY <2>1, RecordFields, MemoryType, ZenonT(30)
<1>4. CASE RepairSeen(o)
  <2>1. op[o].pc = "repairSeen" /\ op[o].pc \in LocalPhases
    BY <1>4 DEF RepairSeen, At, LocalPhases
  <2>2. CASE Send(o, "local")
    BY <1>2, <2>1, <2>2, SendStep DEF Phases
  <2>3. CASE Goto(o, "repairSet") /\ ~(op[o].cnt >= op[o].arg.gen)
    <3> DEFINE r == [op[o] EXCEPT !.pc = "repairSet"]
    <3>1. op' = [op EXCEPT ![o] = r]
      BY <2>3 DEF Goto
    <3>2. /\ r \in Operation /\ r.pc = "repairSet" /\ r.task = op[o].task
          /\ r.at = op[o].at /\ r.arg = op[o].arg /\ r.cnt = op[o].cnt
      BY OpFields DEF Operation, Phases
    <3> HIDE DEF r
    <3>3. op[o].cnt \in Nat /\ op[o].arg.gen \in Nat
      BY OpFields DEF Operation, Gens, MaybeOwner, OwnerRecord, NoOwner
    <3>4. op[o].cnt < op[o].arg.gen
      BY <2>3, <3>3, SMTT(30)
    <3>5. op[o].task \in Tasks /\ op[o].at <= now /\ op[o].arg.task = op[o].task
      BY <2>1 DEF IInv, Shape, LocalPhases
    <3>6. /\ r.pc = "repairSet" /\ r.task \in Tasks /\ r.at <= now /\ r.arg.task = r.task
          /\ r.cnt < r.arg.gen
      BY <3>2, <3>4, <3>5
    <3>7. Shape(r)
      BY <3>6 DEF Shape, LocalPhases, PendingPhases, ReleasePhases, CheckedPhases
    <3>8. Covered(r) /\ ~Admitted(r) /\ r.pc \notin ReleasePhases \cup {"drainWait"}
      BY <3>6 DEF Covered, CoveredBy, Admitted, PendingPhases, ReleasePhases, CheckedPhases
    <3> QED
      BY <1>2, <3>1, <3>2, <3>7, <3>8, OpStep, Zenon
  <2> QED
    BY <1>4, <2>2, <2>3 DEF RepairSeen
<1>5. CASE TakeoverBegin(o)
  BY <1>2, <1>5, FinishStep, GotoStep, Plain, Zenon DEF TakeoverBegin, At
<1>6. CASE RouteForward(o)
  BY <1>2, <1>6, FinishStep DEF RouteForward
<1>7. CASE RouteRefresh(o)
  <2> DEFINE u == IF op[o].target = NoTask THEN op[o].arg.task ELSE op[o].task
  <2>1. u \in Tasks \cup {NoTask}
    BY <1>3, OpFields
  <2>2. Restart(o, "resolveRead", NoOwner, u) /\ op[o].pc = "remote"
    BY <1>7 DEF RouteRefresh, At
  <2> HIDE DEF u
  <2> QED
    BY <1>2, <1>3, <2>1, <2>2, RestartStep, Plain DEF PlainPhases
<1>8. CASE RouteProbeFailed(o)
  BY <1>2, <1>8, GotoStep, Plain DEF RouteProbeFailed, At
<1>9. CASE RouteTakeover(o)
  BY <1>2, <1>3, <1>9, FinishStep, RestartStep, Plain, SMTT(30) DEF RouteTakeover, At, PlainPhases
<1>10. CASE ActorBegin(o)
  <2>1. op[o].pc = "local" /\ op[o].arg.task = op[o].task
    BY <1>10, ZenonT(30) DEF ActorBegin, At, IInv, Shape, LocalPhases
  <2>2. CASE Restart(o, "pending", op[o].arg, NoTask)
    BY <1>2, <1>3, <2>1, <2>2, RestartStep DEF Phases
  <2>3. CASE Finish(o)
    BY <1>2, <2>3, FinishStep
  <2> QED
    BY <1>10, <2>2, <2>3 DEF ActorBegin
<1> QED
  BY <1>4, <1>5, <1>6, <1>7, <1>8, <1>9, <1>10

----------------------------------------------------------------------------
(* The actor, renewals and drains.                                         *)

\* The actor's drain check, the last point at which a drain turns a request away.
LEMMA ActorDrainCheckStep ==
  ASSUME IInv, NEW o \in Ops, ActorDrainCheck(o)
  PROVE  IInv'
<1>1. op[o].pc = "pending" /\ OthersKept /\ Shape(op[o])
  BY AllKept DEF ActorDrainCheck, At, IInv
<1>2. CASE draining[op[o].task]
  BY <1>1, <1>2, FinishStep DEF ActorDrainCheck
<1>3. CASE ~draining[op[o].task]
  <2> DEFINE r == [op[o] EXCEPT !.pc = "assertRead"]
  <2>1. op' = [op EXCEPT ![o] = r]
    BY <1>3 DEF ActorDrainCheck, Goto
  <2>2. /\ r \in Operation /\ r.pc = "assertRead" /\ r.task = op[o].task
        /\ r.at = op[o].at /\ r.arg = op[o].arg /\ r.kind = op[o].kind
    BY OpFields, SMTT(30) DEF Operation, Phases, ReadThen
  <2> HIDE DEF r
  <2>3. Shape(r) /\ Covered(r) /\ r.pc \notin ReleasePhases \cup {"drainWait"}
    BY <1>1, <2>2 DEF Shape, Covered, CoveredBy, LocalPhases, PendingPhases, ReleasePhases, CheckedPhases
  <2> QED
    BY <1>1, <1>3, <2>1, <2>2, <2>3, OpStep, Zenon
<1> QED
  BY <1>2, <1>3

\* Entering the SQL section under the record the owner check ended with.
LEMMA StartSqlStep ==
  ASSUME IInv, NEW o \in Ops, op[o].pc \in {"assertSeen", "renewed"}, op[o].kind = "query",
         SameFence(op[o].snap, op[o].arg), Guard <= op[o].snap.lease - op[o].at,
         StartSql(o, op[o].snap), OthersKept
  PROVE  IInv'
<1> DEFINE rec == op[o].snap
           due == now + (rec.lease - op[o].at - Guard)
<1>1. /\ now \in Nat /\ op[o].at \in Nat /\ rec.lease \in Nat
      /\ op[o].at <= now /\ now <= op[o].at + MaxDelay
      /\ op[o].arg.task = op[o].task /\ op[o].task \in Tasks
  BY OpTimes DEF Shape, CheckedPhases, LocalPhases, PendingPhases
<1>2. due \in Nat /\ due + SqlTime <= rec.lease
  BY <1>1, TimesAssumption
<1>3. CASE ~(now < due)
  BY <1>3, FinishStep DEF StartSql
<1>4. CASE now < due
  <2>1. PICK n \in 1 .. MaxStmts, txn \in BOOLEAN :
          op' = [op EXCEPT ![o].pc = "sql", ![o].snap = rec, ![o].at = now,
                           ![o].due = due, ![o].left = n, ![o].txn = txn]
    BY <1>4, Zenon DEF StartSql
  <2> DEFINE r == [op[o] EXCEPT !.pc = "sql", !.snap = rec, !.at = now,
                                !.due = due, !.left = n, !.txn = txn]
  <2>2. op' = [op EXCEPT ![o] = r]
    BY <2>1, Zenon
  <2>3. "sql" \in Phases /\ n \in 0 .. MaxStmts /\ n # 0 /\ op[o] \in Operation /\ rec \in MaybeOwner
    BY OpFields, BoundsAssumption DEF Phases
  <2> HIDE DEF due
  <2>4. /\ r \in Operation /\ r.pc = "sql" /\ r.task = op[o].task /\ r.at = now /\ r.snap = rec
        /\ r.due = due /\ r.left = n /\ r.arg = op[o].arg /\ r.kind = op[o].kind
    BY <1>1, <1>2, <2>3, ZenonT(30) DEF Operation
  <2> HIDE DEF r
  <2>5. Shape(r) /\ r.pc \notin ReleasePhases \cup {"drainWait"}
    BY <1>1, <1>2, <1>4, <2>3, <2>4, TimesAssumption, SMTT(30)
    DEF Shape, LocalPhases, PendingPhases, ReleasePhases, CheckedPhases
  <2>6. Covered(r)
    BY <2>4 DEF IInv, Covered, CoveredBy, CheckedPhases
  <2>7. Admitted(op[o])
    BY ZenonT(30) DEF Admitted, PendingPhases
  <2> QED
    BY <2>2, <2>4, <2>5, <2>6, <2>7, OpStep, Zenon
<1> QED
  BY <1>3, <1>4, SMTT(30)

\* assertCurrentOwnerWithLeaseBudget after its read.
LEMMA ActorAssertStep ==
  ASSUME IInv, NEW o \in Ops, ActorAssert(o)
  PROVE  IInv'
<1> DEFINE rec == op[o].snap
<1>1. /\ op[o].pc = "assertSeen" /\ op[o].kind = "query" /\ UNCHANGED <<now, redis, log>>
      /\ log \in Gens /\ op[o].at \in Nat /\ rec.lease \in Nat
  BY OpTimes DEF ActorAssert, At, Shape
<1>2. UNCHANGED memory => OthersKept
  BY <1>1, AllKept
<1>3. CASE Finish(o) /\ UNCHANGED memory
  BY <1>2, <1>3, FinishStep
<1>4. CASE Forget(op[o].task) /\ Finish(o) /\ UNCHANGED draining
  BY <1>1, <1>4, ForgetType, Kept, FinishStep, Zenon
<1>5. CASE Send(o, "renewRead") /\ UNCHANGED memory
  BY <1>1, <1>2, <1>5, SendStep DEF Phases, ReadThen
<1>6. CASE /\ SameFence(rec, op[o].arg) /\ ~(rec.lease - op[o].at < Guard)
           /\ StartSql(o, rec) /\ UNCHANGED memory
  <2>1. Guard <= rec.lease - op[o].at
    BY <1>1, <1>6, TimesAssumption
  <2> QED BY <1>1, <1>2, <1>6, <2>1, StartSqlStep, Zenon
<1> QED
  BY <1>3, <1>4, <1>5, <1>6, ZenonT(30) DEF ActorAssert

\* A statement of the SQL section ends or fails.
LEMMA SqlSteps ==
  ASSUME IInv, NEW o \in Ops, SqlStep(o) \/ SqlFails(o)
  PROVE  IInv'
<1>1. op[o].pc = "sql" /\ op[o].kind = "query" /\ Shape(op[o]) /\ Covered(op[o])
  BY DEF SqlStep, SqlFails, IInv, Shape
<1>2. OthersKept
  BY OpFields, BoundsAssumption
  DEF SqlStep, SqlFails, OthersKept, IInv, TypeOK, redis, memory, MaybeOwner, OwnerRecord, NoOwner, Gens
<1>3. CASE Finish(o)
  BY <1>2, <1>3, FinishStep
<1>4. CASE now < op[o].due /\ op[o].left # 1 /\ op' = [op EXCEPT ![o].left = op[o].left - 1, ![o].at = now]
  <2> DEFINE r == [op[o] EXCEPT !.left = op[o].left - 1, !.at = now]
  <2>1. op' = [op EXCEPT ![o] = r]
    BY <1>4, Zenon
  <2>2. op[o].left - 1 \in 0 .. MaxStmts /\ op[o].left - 1 # 0 /\ now \in Nat
    <3>1. op[o].left \in 0 .. MaxStmts /\ op[o].left # 0 /\ now \in Nat
      BY <1>1, OpFields, Zenon DEF IInv, TypeOK, Operation, Shape
    <3> QED
      BY <1>4, <3>1, BoundsAssumption
  <2>3. /\ r \in Operation /\ r.pc = "sql" /\ r.task = op[o].task /\ r.at = now /\ r.snap = op[o].snap
        /\ r.due = op[o].due /\ r.left # 0 /\ r.arg = op[o].arg /\ r.kind = "query"
    BY <1>1, <2>2, OpFields, Zenon DEF Operation
  <2> HIDE DEF r
  <2>4. Covered(r) /\ r.pc \notin ReleasePhases \cup {"drainWait"}
    BY <1>1, <2>3, Zenon DEF Covered, CoveredBy, ReleasePhases
  <2>5. Shape(r)
    BY <1>1, <1>4, <2>2, <2>3, TimesAssumption
    DEF Shape, LocalPhases, PendingPhases, ReleasePhases, CheckedPhases
  <2>6. Admitted(op[o])
    BY <1>1, Zenon DEF Admitted, PendingPhases
  <2> QED
    BY <1>2, <2>1, <2>3, <2>4, <2>5, <2>6, OpStep, Zenon
<1>5. now \in Nat /\ op[o].due \in Nat
  BY OpFields DEF IInv, TypeOK, Operation
<1> QED
  BY <1>3, <1>4, <1>5 DEF SqlStep, SqlFails

\* renewOwner after its read and after its conditional write.
LEMMA RenewSteps ==
  ASSUME IInv, NEW o \in Ops, RenewSeen(o) \/ Renewed(o)
  PROVE  IInv'
<1> DEFINE t == op[o].task
           rec == op[o].snap
<1>1. /\ UNCHANGED <<now, redis, draining, log>> /\ log \in Gens
      /\ rec \in MaybeOwner /\ op[o].at \in Nat /\ rec.lease \in Nat /\ Shape(op[o])
      /\ op[o].pc \in {"renewSeen", "renewed"}
  BY OpTimes DEF RenewSeen, Renewed, At
<1>2. CASE Forget(t) /\ Finish(o)
  BY <1>1, <1>2, ForgetType, Kept, FinishStep, Zenon
<1>3. CASE RenewSeen(o) /\ ~(Forget(t) /\ Finish(o))
  <2> DEFINE r == [op[o] EXCEPT !.pc = "renewSet"]
  <2>1. op[o].pc = "renewSeen" /\ SameFence(rec, op[o].arg) /\ Goto(o, "renewSet") /\ UNCHANGED <<owned, observed>>
    BY <1>3, Zenon DEF RenewSeen, At
  <2>2. OthersKept
    BY <1>1, <2>1, Kept, Zenon DEF IInv, TypeOK
  <2>3. op' = [op EXCEPT ![o] = r]
    BY <2>1 DEF Goto
  <2>4. /\ r \in Operation /\ r.pc = "renewSet" /\ r.task = op[o].task /\ r.at = op[o].at
        /\ r.snap = rec /\ r.arg = op[o].arg /\ r.kind = op[o].kind
    BY OpFields DEF Operation, Phases
  <2> HIDE DEF r
  <2>5. Shape(r) /\ r.pc \notin ReleasePhases \cup {"drainWait"}
    BY <1>1, <2>1, <2>4, Zenon DEF Shape, LocalPhases, PendingPhases, ReleasePhases, CheckedPhases
  <2>6. Covered(r)
    BY <2>1, <2>4, ZenonT(30) DEF IInv, Covered, CoveredBy, CheckedPhases
  <2>7. Admitted(r) => Admitted(op[o])
    BY <2>1, <2>4 DEF Admitted, PendingPhases
  <2> QED
    BY <2>2, <2>3, <2>4, <2>5, <2>6, <2>7, OpStep, Zenon
<1>4. CASE /\ Renewed(o) /\ (op[o].kind = "renew" \/ rec.lease - op[o].at >= Guard)
           /\ Remember(t, rec) /\ ObserveAs(t, Observe(rec, op[o].at))
           /\ IF op[o].kind = "renew" THEN Finish(o) ELSE StartSql(o, rec)
  <2>1. OthersKept
    BY <1>1, <1>4, MemoryType, Kept, Zenon DEF IInv
  <2>2. op[o].pc = "renewed" /\ op[o].kind \in {"query", "renew"} /\ SameFence(rec, op[o].arg)
    BY <1>1, <1>4, Zenon DEF Renewed, At, Shape
  <2>3. CASE op[o].kind = "renew"
    BY <1>4, <2>1, <2>3, FinishStep, Zenon
  <2>4. CASE op[o].kind = "query"
    BY <1>1, <1>4, <2>1, <2>2, <2>4, StartSqlStep, TimesAssumption, Zenon
  <2> QED
    BY <2>2, <2>3, <2>4
<1> QED
  BY <1>2, <1>3, <1>4, ZenonT(30) DEF Renewed

\* The task's own steps of drainOwnedDbs.
LEMMA DrainSteps ==
  ASSUME IInv, NEW o \in Ops, DrainIdle(o) \/ DrainTimeout(o) \/ ReleaseSeen(o) \/ Released(o)
  PROVE  IInv'
<1>1. Shape(op[o]) /\ UNCHANGED <<now, redis, draining, log>> /\ log \in Gens
  BY DEF DrainIdle, DrainTimeout, ReleaseSeen, Released, memory, IInv, TypeOK
<1>2. UNCHANGED <<owned, observed>> => OthersKept
  BY <1>1, Kept DEF IInv, TypeOK
<1>3. CASE Finish(o) /\ (UNCHANGED <<owned, observed>> \/ Forget(op[o].task))
  BY <1>1, <1>2, <1>3, ForgetType, Kept, FinishStep
<1>4. CASE DrainIdle(o) /\ ~Finish(o)
  <2> DEFINE r == [op[o] EXCEPT !.pc = "releaseRead"]
  <2>1. /\ op[o].pc = "drainWait" /\ Pending(op[o].task) = {} /\ op[o].arg # NoOwner
        /\ Goto(o, "releaseRead") /\ OthersKept
    BY <1>2, <1>4 DEF DrainIdle, At, memory
  <2>2. op' = [op EXCEPT ![o] = r]
    BY <2>1 DEF Goto
  <2>3. /\ r \in Operation /\ r.pc = "releaseRead" /\ r.task = op[o].task /\ r.at = op[o].at
        /\ r.arg = op[o].arg
    BY OpFields DEF Operation, Phases, ReadThen
  <2> HIDE DEF r
  <2>4. Shape(r) /\ Covered(r) /\ ~Admitted(r)
    BY <1>1, <2>1, <2>3, ZenonT(30)
    DEF Shape, Covered, CoveredBy, Admitted, LocalPhases, PendingPhases, ReleasePhases, CheckedPhases
  <2>5. draining[op[o].task] /\ draining' = draining
    BY <1>1, <2>1, Zenon DEF IInv, Quiet
  <2> QED
    BY <2>1, <2>2, <2>3, <2>4, <2>5, OpStep, ZenonT(30)
<1>5. CASE ReleaseSeen(o) /\ ~Finish(o)
  <2> DEFINE r == [op[o] EXCEPT !.pc = "releaseDel"]
  <2>1. /\ op[o].pc = "releaseSeen" /\ SameFence(op[o].snap, op[o].arg) /\ op[o].tries < Retries
        /\ Goto(o, "releaseDel") /\ OthersKept
    BY <1>2, <1>5, Zenon DEF ReleaseSeen, At
  <2>2. op' = [op EXCEPT ![o] = r]
    BY <2>1 DEF Goto
  <2>3. /\ r \in Operation /\ r.pc = "releaseDel" /\ r.task = op[o].task /\ r.at = op[o].at
        /\ r.arg = op[o].arg /\ r.snap = op[o].snap /\ r.tries = op[o].tries
    BY OpFields DEF Operation, Phases
  <2> HIDE DEF r
  <2>4. Shape(r) /\ Covered(r) /\ ~Admitted(r)
    BY <1>1, <2>1, <2>3, Zenon
    DEF Shape, Covered, CoveredBy, Admitted, LocalPhases, PendingPhases, ReleasePhases, CheckedPhases
  <2>5. draining[op[o].task] /\ draining' = draining
    BY <1>1, <2>1, Zenon DEF IInv, Quiet, ReleasePhases
  <2> QED
    BY <2>1, <2>2, <2>3, <2>4, <2>5, OpStep, Zenon DEF ReleasePhases
<1> QED
  BY <1>3, <1>4, <1>5, Zenon DEF DrainIdle, DrainTimeout, ReleaseSeen, Released, memory

\* The task's own steps of rebalanceDatabase.
LEMMA RebalanceSteps ==
  ASSUME IInv, NEW o \in Ops, RebalanceSeen(o) \/ Moved(o)
  PROVE  IInv'
<1> DEFINE t == op[o].task
<1>1. /\ UNCHANGED <<now, redis, draining, log>> /\ log \in Gens /\ op[o].pc # "idle"
      /\ op[o].snap \in MaybeOwner /\ op[o].arg \in MaybeOwner /\ op[o].at \in Nat /\ NoOwner \in MaybeOwner
      /\ op[o].target \in Tasks \cup {NoTask}
  BY OpFields, Zenon DEF RebalanceSeen, Moved, At, IInv, TypeOK, MaybeOwner, Operation
<1>2. /\ UNCHANGED owned \/ Remember(t, op[o].snap) \/ Remember(t, NoOwner) => owned' \in [Tasks -> Gens]
      /\ UNCHANGED observed \/ ObserveAs(t, NoEntry) \/ ObserveAs(t, Observe(op[o].arg, op[o].at))
           => observed' \in [Tasks -> CacheEntry]
  BY <1>1, MemoryType, Zenon DEF IInv, TypeOK
<1>3. CASE Finish(o)
  <2>1. OthersKept
    BY <1>1, <1>2, <1>3, Kept, Zenon DEF RebalanceSeen, Moved, Forget
  <2> QED
    BY <1>3, <2>1, FinishStep
<1>4. CASE ~Finish(o)
  <2>1. OthersKept
    BY <1>1, <1>2, <1>4, Kept, ZenonT(30) DEF RebalanceSeen, Moved
  <2>2. CASE op[o].target = NoTask
    BY <1>1, <1>4, <2>1, <2>2, GotoStep, Plain DEF RebalanceSeen, Moved
  <2>3. CASE op[o].target # NoTask
    <3> DEFINE r == [op[o] EXCEPT !.pc = "moveExec"]
    <3>1. op' = [op EXCEPT ![o] = r]
      BY <1>4, <2>3 DEF RebalanceSeen, Moved, Goto
    <3>2. /\ r \in Operation /\ r.pc = "moveExec" /\ r.task = op[o].task /\ r.at = op[o].at
          /\ r.target = op[o].target
      BY OpFields DEF Operation, Phases
    <3> HIDE DEF r
    <3>3. /\ Shape(r) /\ Covered(r) /\ ~Admitted(r)
          /\ r.pc \notin ReleasePhases \cup {"drainWait"}
      BY <1>1, <2>3, <3>2, OpFields
      DEF Shape, Covered, CoveredBy, Admitted, LocalPhases, PendingPhases, ReleasePhases, CheckedPhases
    <3> QED
      BY <2>1, <3>1, <3>2, <3>3, OpStep, Zenon
  <2> QED
    BY <2>2, <2>3
<1> QED
  BY <1>3, <1>4

===============================================================================
