---------------------------- MODULE DoOwnership ----------------------------
(***************************************************************************)
(* Ownership of one Durable Object host shard and the dispatch of calls to *)
(* an object of it: the owner record, the generation counter and the       *)
(* worker's storage pointer, delete lock and session policy in Redis; the  *)
(* do-runtime tasks that resolve, claim, renew and release the shard; the  *)
(* host actor that checks the fence, runs the tenant's facet under a lease *)
(* watchdog and restarts it when the session policy says so                *)
(* (do-runtime/owner-registry.js, index.js, actor.js, state.js,            *)
(* shared/owner-protocol.js, shared/owner-forwarder.js).                   *)
(*                                                                         *)
(* A Redis snapshot and the synchronous code that consumes its reply are   *)
(* one step; whatever the task does next is a later step, so every         *)
(* snapshot may be stale when it is acted upon.  doNow is Redis TIME and   *)
(* the tasks' monotonic clocks advance with it.                            *)
(***************************************************************************)
EXTENDS Naturals, FiniteSets

CONSTANTS
  DoTasks,      \* do-runtime task identities
  DoCalls,      \* slots for invocations, renew loops and drains
  NoOne,        \* no owner, no fence, no facet
  DoTTL,        \* DO_OWNER_TTL_SECONDS
  DoGuard,      \* DO_OWNER_LEASE_GUARD_MS
  DoDelay,      \* longest time from a Redis TIME reading to the handler it admits
  DoCheck,      \* longest time of an owner check that renews the lease
  DoLag,        \* longest delay of a watchdog timer, its snapshot included
  DoRetries,    \* OWNER_CLAIM_RETRIES and OWNER_RELEASE_ATTEMPTS
  DoHops,       \* MAX_OWNER_FORWARD_HOPS
  DoMaxGen,     \* bound of the generation counter
  DoWorkloads   \* [calls : kinds of operations by slot, env : what may happen,
                \*  first : slots whose calls end before others begin,
                \*  time, versions : bounds]

ASSUME DoAssumption ==
  /\ DoTTL \in Nat /\ DoGuard \in Nat /\ DoDelay \in Nat /\ DoLag \in Nat
  /\ DoCheck \in Nat
  /\ DoDelay + DoLag < DoGuard
  /\ 2 * DoGuard <= DoTTL
  /\ NoOne \notin DoTasks \cup Nat
  /\ NoOne \notin [task : DoTasks, gen : Nat] \cup [task : DoTasks, gen : Nat, lease : Nat]

VARIABLES
  doCase,     \* the workload of this behaviour
  doNow,      \* Redis TIME
  doOwner,    \* do:owner:<hostId>
  doCounter,  \* its generation counter
  pointer,    \* the worker's do-storage-id still names this storage
  deleteLock, \* kind of the worker's delete lock
  policy,     \* worker:session-policy:<ns>:<worker>
  held,       \* per task: its ownedScopes entry
  doDraining, \* per task: isDraining()
  gone,       \* tasks that crashed
  facet,      \* per task: native facet, restart rows, caches of the host actor
  rowless,      \* history: tasks whose loaded facet lost its row to another task's cleanup
  doCall,     \* the operations in flight
  doLog,      \* history: generation under which a handler last wrote
  lockedAt    \* history: when the whole-worker delete lock was taken

doWork == DoWorkloads[doCase]
doVars == <<doCase, doNow, doOwner, doCounter, pointer, deleteLock, policy, held,
            doDraining, gone, facet, rowless, doCall, doLog, lockedAt>>
doRedis == <<doOwner, doCounter>>
doWorker == <<pointer, deleteLock, policy, lockedAt>>
doEnv == <<doCase, doNow, doDraining, gone>>
doFacets == <<facet, rowless>>

----------------------------------------------------------------------------
(* Owner records and fences.                                               *)

FenceOf(rec) == IF rec = NoOne THEN NoOne ELSE [task |-> rec.task, gen |-> rec.gen]

LeaseOver(rec, time) == rec.lease <= time

LiveOwner(rec) == rec # NoOne /\ ~LeaseOver(rec, doNow)

\* shouldRenewOwnerLease: half of the lease or less is left.
NearRenewal(rec) == 2 * (rec.lease - doNow) <= DoTTL

OwnerFor(t, gen) == [task |-> t, gen |-> gen, lease |-> doNow + DoTTL]

BiggerOf(a, b) == IF a < b THEN b ELSE a

\* The counter is not read: a generation comes back once its record expired.
NextGen_CurrentOnly(rec) == IF rec = NoOne THEN 1 ELSE rec.gen + 1

\* nextOwnerGenerationFromSnapshot
NextGen(rec) == BiggerOf(doCounter, IF rec = NoOne THEN 0 ELSE rec.gen) + 1

\* deleteLockAllowsActiveStorage
LockAllows == deleteLock # "whole"

\* applySessionPolicyFence: an old version is refused while a restart policy is active.
PolicyAllows(version) == policy.mode = "restart" => policy.version = version

----------------------------------------------------------------------------
(* Operations in flight.                                                   *)

FreeSlot == [pc |-> "free", kind |-> "fetch", at |-> NoOne, hop |-> 0, version |-> 0,
             mode |-> "preserve", seq |-> 0, fence |-> NoOne, seen |-> NoOne,
             mine |-> NoOne, readAt |-> 0, since |-> 0, watch |-> 0, tries |-> 0, twice |-> FALSE]

\* Phases between beginInFlightDispatch and endInFlightDispatch.
InFlightPhases == {"assert", "renewRead", "renewSet", "register", "start", "run"}

InFlight(t) ==
  {c \in DoCalls : /\ doCall[c].at = t
                   /\ doCall[c].kind \in {"fetch", "delete"}
                   /\ doCall[c].pc \in InFlightPhases}

Running(t) == {c \in DoCalls : doCall[c].at = t /\ doCall[c].pc = "run"}

Put(c, r) == doCall' = [doCall EXCEPT ![c] = r]

Finish(c) == Put(c, [FreeSlot EXCEPT !.pc = "done"])

\* facets.abort and facets.delete end every handler that runs in the facet.
FinishAll(cs) == [c \in DoCalls |-> IF c \in cs THEN [FreeSlot EXCEPT !.pc = "done"] ELSE doCall[c]]

Remember(t, rec) == held' = [held EXCEPT ![t] = rec]
Forget(t) == Remember(t, NoOne)

----------------------------------------------------------------------------
(* Arrival of a call at a task, and the outer resolver.                    *)

\* A request reaches a task, through the router or on a cached owner hint; the
\* caller runs any retained version.  A hint that is not the task's own entry
\* is ignored, so only that one is worth carrying.
Arrive(c, t, version, hinted) ==
  /\ doCall[c].pc = "free"
  /\ doWork.calls[c] \in {"fetch", "delete"}
  /\ t \notin gone
  /\ "one" \in doWork.env =>
       \A u \in DoTasks \ {t} : held[u] = NoOne /\ \A o \in DoCalls : doCall[o].at # u
  /\ c \in doWork.first \/ \A o \in doWork.first : doCall[o].pc = "done"
  /\ "serial" \in doWork.env => \A o \in DoCalls : doCall[o].pc \in {"free", "done"}
  /\ Put(c, [FreeSlot EXCEPT !.pc = "arrived", !.kind = doWork.calls[c], !.at = t,
               !.version = version, !.fence = IF hinted THEN FenceOf(held[t]) ELSE NoOne])
  /\ UNCHANGED <<doEnv, doRedis, doWorker, held, doFacets, doLog>>

\* localOwnerFromFence: the call's fence is this task's own entry.
FenceIsLocal(d) == d.fence # NoOne /\ d.fence = FenceOf(held[d.at])

DispatchLocalFence(c) ==
  /\ doCall[c].pc = "arrived"
  /\ FenceIsLocal(doCall[c])
  /\ Put(c, [doCall[c] EXCEPT !.pc = "queued"])
  /\ UNCHANGED <<doEnv, doRedis, doWorker, held, doFacets, doLog>>

\* What one snapshot of the registry says to task t: refuse the call, use the
\* owner it names, or go on to renew, repair or claim the record.
Resolution(d) ==
  LET live == LiveOwner(doOwner)
      remote == live /\ doOwner.task # d.at
      counterAt == IF held[d.at] # NoOne THEN doOwner.gen ELSE doCounter
  IN IF d.kind = "fetch" /\ ~PolicyAllows(d.version) THEN "superseded"
     ELSE IF ~LockAllows \/ (live /\ ~pointer) THEN "stale"
     ELSE IF remote THEN "remote"
     ELSE IF doDraining[d.at] THEN "draining"
     ELSE IF ~live THEN "claim"
     ELSE IF counterAt >= doOwner.gen /\ ~NearRenewal(doOwner) THEN "local"
     ELSE "renew"

\* Owner found: run it here, or forward the call, at most DoHops times.
Route(c, d, rec) ==
  IF rec.task = d.at
  THEN Put(c, [d EXCEPT !.pc = "queued", !.fence = FenceOf(rec), !.seen = NoOne, !.mine = NoOne])
  ELSE IF d.hop < DoHops
  THEN Put(c, [d EXCEPT !.pc = "forward", !.fence = FenceOf(rec), !.hop = @ + 1, !.seen = NoOne])
  ELSE Finish(c)

\* resolveDoOwner, the snapshot that is not watched.
ResolveOwner(c) ==
  LET d == doCall[c]
      what == Resolution(d)
  IN
  /\ d.pc = "arrived"
  /\ ~FenceIsLocal(d)
  /\ CASE what \in {"superseded", "draining"} -> Finish(c) /\ UNCHANGED held
       [] what = "stale" -> Finish(c) /\ Forget(d.at)
       [] what = "remote" -> Route(c, d, doOwner) /\ Forget(d.at)
       [] what = "local" -> Route(c, d, doOwner) /\ Remember(d.at, doOwner)
       [] OTHER -> Put(c, [d EXCEPT !.pc = "claim"]) /\ UNCHANGED held
  /\ UNCHANGED <<doEnv, doRedis, doWorker, doFacets, doLog>>

\* resolveDoOwner, the watched snapshot: the same questions again, then the
\* record that EXEC is to write.
ClaimRead(c) ==
  LET d == doCall[c]
      what == Resolution(d)
      gen == IF what = "renew" THEN doOwner.gen ELSE NextGen(doOwner)
      next == IF what = "renew" /\ ~NearRenewal(doOwner) THEN doOwner ELSE OwnerFor(d.at, gen)
  IN
  /\ d.pc = "claim"
  /\ CASE what \in {"superseded", "draining"} -> Finish(c) /\ UNCHANGED held
       [] what = "stale" \/ (what = "claim" /\ ~pointer) -> Finish(c) /\ Forget(d.at)
       [] what = "remote" -> Route(c, d, doOwner) /\ Forget(d.at)
       [] what = "local" -> Route(c, d, doOwner) /\ Remember(d.at, doOwner)
       [] OTHER -> /\ gen <= DoMaxGen
                   /\ Put(c, [d EXCEPT !.pc = "claimExec", !.mine = next,
                              !.seen = [owner |-> doOwner, counter |-> doCounter,
                                        pointer |-> pointer, lock |-> deleteLock,
                                        policy |-> policy]])
                   /\ UNCHANGED held
  /\ UNCHANGED <<doEnv, doRedis, doWorker, doFacets, doLog>>

\* stageOwnerClaim and the repair set the counter to the record's generation.
CounterAfter(rec) == BiggerOf(doCounter, rec.gen)

\* EXEC of the claim, takeover, repair or renewal: it commits when no watched
\* key changed; the task then remembers the record.
ClaimExec(c) ==
  LET d == doCall[c]
      unchanged == d.seen = [owner |-> doOwner, counter |-> doCounter, pointer |-> pointer,
                             lock |-> deleteLock, policy |-> policy]
  IN
  /\ d.pc = "claimExec"
  /\ \/ /\ unchanged
        /\ doOwner' = d.mine
        /\ doCounter' = CounterAfter(d.mine)
        /\ Remember(d.at, d.mine)
        /\ Route(c, [d EXCEPT !.tries = 0], d.mine)
     \/ /\ ~unchanged
        /\ IF d.tries + 1 < DoRetries
           THEN Put(c, [d EXCEPT !.pc = "claim", !.tries = @ + 1, !.seen = NoOne, !.mine = NoOne])
           ELSE Finish(c)
        /\ UNCHANGED <<doRedis, held>>
  /\ UNCHANGED <<doEnv, doWorker, doFacets, doLog>>

\* forwardToOwner: the call arrives at the owner's task with the fence, or the
\* owner is not reached.
ForwardToOwner(c) ==
  LET d == doCall[c] IN
  /\ d.pc = "forward"
  /\ \/ /\ d.fence.task \notin gone
        /\ Put(c, [d EXCEPT !.pc = "arrived", !.at = d.fence.task])
     \/ Finish(c)
  /\ UNCHANGED <<doEnv, doRedis, doWorker, held, doFacets, doLog>>

----------------------------------------------------------------------------
(* The host actor: admission, fence, lease.                                *)

\* beginInFlightDispatch refuses a draining task.
EnterActor(c) ==
  /\ doCall[c].pc = "queued"
  /\ IF doDraining[doCall[c].at] THEN Finish(c) ELSE Put(c, [doCall[c] EXCEPT !.pc = "assert"])
  /\ UNCHANGED <<doEnv, doRedis, doWorker, held, doFacets, doLog>>

\* The ownership checks of assertCurrentOwnerWithLeaseBudget.
FenceHolds(fence) ==
  /\ LiveOwner(doOwner)
  /\ FenceOf(doOwner) = fence
  /\ pointer
  /\ LockAllows

\* A dispatch registers its object the first time, and then asks again.
AfterFence(d) ==
  IF d.kind = "fetch" /\ ~d.twice /\ ~facet[d.at].known THEN "register" ELSE "start"

\* assertCurrentOwnerWithLeaseBudget before a dispatch or a storage delete.  A
\* dispatch takes mode and restart sequence from the policy it reads; a lease
\* shorter than the guard is renewed first.
AssertOwner(c) ==
  LET d == doCall[c]
      e == IF d.kind = "fetch" THEN [d EXCEPT !.mode = policy.mode, !.seq = policy.seq] ELSE d
  IN
  /\ d.pc = "assert"
  /\ CASE ~FenceHolds(d.fence) -> Finish(c) /\ Forget(d.at)
       [] FenceHolds(d.fence) /\ d.kind = "fetch" /\ ~PolicyAllows(d.version) ->
            Finish(c) /\ UNCHANGED held
       [] OTHER ->
            /\ Put(c, IF doOwner.lease - doNow < DoGuard
                      THEN [e EXCEPT !.pc = "renewRead", !.tries = 0, !.since = doNow]
                      ELSE [e EXCEPT !.pc = AfterFence(d), !.mine = doOwner, !.readAt = doNow])
            /\ UNCHANGED held
  /\ UNCHANGED <<doEnv, doRedis, doWorker, doFacets, doLog>>

\* renewOwnedScopes on the supervisor's timer.
StartRenew(c, t) ==
  /\ doCall[c].pc = "free"
  /\ doWork.calls[c] = "renew"
  /\ t \notin gone
  /\ ~doDraining[t]
  /\ held[t] # NoOne
  /\ Put(c, [FreeSlot EXCEPT !.pc = "renewRead", !.kind = "renew", !.at = t,
               !.fence = FenceOf(held[t])])
  /\ UNCHANGED <<doEnv, doRedis, doWorker, held, doFacets, doLog>>

\* renewOwner, the snapshot.
RenewRead(c) ==
  LET d == doCall[c] IN
  /\ d.pc = "renewRead"
  /\ IF LiveOwner(doOwner) /\ FenceOf(doOwner) = d.fence /\ pointer
     THEN /\ Put(c, [d EXCEPT !.pc = "renewSet", !.seen = doOwner, !.readAt = doNow,
                       !.mine = OwnerFor(d.at, doOwner.gen)])
          /\ UNCHANGED held
     ELSE Finish(c) /\ Forget(d.at)
  /\ UNCHANGED <<doEnv, doRedis, doWorker, doFacets, doLog>>

\* renewOwner, RENEW_OWNER_WITH_STORAGE_FENCE_SCRIPT and its reply.
RenewSet(c) ==
  LET d == doCall[c] IN
  /\ d.pc = "renewSet"
  /\ CASE doOwner # d.seen ->
            /\ IF d.tries + 1 < DoRetries
               THEN Put(c, [d EXCEPT !.pc = "renewRead", !.tries = @ + 1, !.seen = NoOne])
               ELSE Finish(c)
            /\ UNCHANGED <<doOwner, held>>
       [] doOwner = d.seen /\ ~pointer -> Finish(c) /\ Forget(d.at) /\ UNCHANGED doOwner
       [] OTHER ->
            /\ doOwner' = d.mine
            /\ Remember(d.at, d.mine)
            /\ IF d.kind = "renew" THEN Finish(c)
               ELSE Put(c, [d EXCEPT !.pc = AfterFence(d), !.seen = NoOne, !.since = 0])
  /\ UNCHANGED <<doEnv, doCounter, doWorker, doFacets, doLog>>

\* rememberObject: the registry write succeeds or only logs.
RegisterObject(c) ==
  LET d == doCall[c] IN
  /\ d.pc = "register"
  /\ \E ok \in BOOLEAN : facet' = [facet EXCEPT ![d.at].known = ok]
  /\ Put(c, [d EXCEPT !.pc = "assert", !.twice = TRUE])
  /\ UNCHANGED <<doEnv, doRedis, doWorker, held, rowless, doLog>>

----------------------------------------------------------------------------
(* The facet.                                                              *)

\* readFacetRegistration: the actor's cache, else this task's row in SQLite.
Registration(f) == IF f.cached # NoOne THEN f.cached ELSE f.row

\* rememberFacet: a later sequence under a restart policy aborts the facet.
MustRestart(d, existing) == existing # NoOne /\ d.seq > existing /\ d.mode = "restart"

\* The timer is set for the end of the lease.
WatchAt_NoGuard(d) == doNow + (d.mine.lease - d.readAt)

\* dispatchWithLeaseBudget: the watchdog looks again when only the guard is left.
WatchAt(d) == doNow + (d.mine.lease - d.readAt) - DoGuard

\* dispatchWithLeaseBudget and rememberFacet: refuse a superseded sequence,
\* restart or advance the facet, and run the handler.
StartHandler(c) ==
  LET d == doCall[c]
      f == facet[d.at]
      existing == Registration(f)
      restart == MustRestart(d, existing)
  IN
  /\ d.pc = "start"
  /\ d.kind = "fetch"
  /\ IF existing # NoOne /\ d.seq < existing
     THEN /\ Finish(c)
          /\ facet' = [facet EXCEPT ![d.at].cached = existing]
          /\ UNCHANGED rowless
     ELSE /\ doCall' = [FinishAll(IF restart THEN Running(d.at) ELSE {}) EXCEPT
                          ![c] = [d EXCEPT !.pc = "run", !.watch = WatchAt(d)]]
          /\ facet' = [facet EXCEPT ![d.at] =
               [f EXCEPT !.row = d.seq, !.cached = d.seq,
                         !.inst = IF restart \/ @ = NoOne THEN d.seq ELSE @]]
          /\ rowless' = rowless \ (IF restart THEN {d.at} ELSE {})
  /\ UNCHANGED <<doEnv, doRedis, doWorker, held, doLog>>

\* The handler writes and returns: the timer is cleared, endInFlightDispatch runs.
HandlerEnds(c) ==
  /\ doCall[c].pc = "run"
  /\ doLog' = doCall[c].fence.gen
  /\ Finish(c)
  /\ UNCHANGED <<doEnv, doRedis, doWorker, held, doFacets>>

\* The watchdog timer: the lease must hold for the guard without being renewed
\* here, or the facet is aborted.
Watchdog(c) ==
  LET d == doCall[c] IN
  /\ d.pc = "run"
  /\ doNow >= d.watch
  /\ IF FenceHolds(d.fence) /\ doOwner.lease - doNow >= DoGuard
     THEN /\ Put(c, [d EXCEPT !.watch = doOwner.lease - DoGuard])
          /\ UNCHANGED <<held, doFacets>>
     ELSE /\ Forget(d.at)
          /\ doCall' = FinishAll(Running(d.at))
          /\ facet' = [facet EXCEPT ![d.at].inst = NoOne]
          /\ rowless' = rowless \ {d.at}
  /\ UNCHANGED <<doEnv, doRedis, doWorker, doLog>>

\* /delete-storage: facets.delete, and every task's row of the facet.
DeleteStorage(c) ==
  LET d == doCall[c] IN
  /\ d.pc = "start"
  /\ d.kind = "delete"
  /\ doCall' = FinishAll({c} \cup Running(d.at))
  /\ facet' = [t \in DoTasks |->
                 IF t = d.at THEN [inst |-> NoOne, row |-> NoOne, cached |-> NoOne, known |-> FALSE]
                 ELSE [facet[t] EXCEPT !.row = NoOne]]
  /\ rowless' = {t \in DoTasks \ {d.at} : facet[t].inst # NoOne}
  /\ UNCHANGED <<doEnv, doRedis, doWorker, held, doLog>>

\* The host actor is rebuilt (eviction, or 10 000 newer entries): its caches are
\* lost, the native facet is not.
EvictActor(t) ==
  /\ "evict" \in doWork.env
  /\ InFlight(t) = {}
  /\ facet' = [facet EXCEPT ![t].cached = NoOne, ![t].known = FALSE]
  /\ UNCHANGED <<doEnv, doRedis, doWorker, held, rowless, doCall, doLog>>

----------------------------------------------------------------------------
(* Drain and release.                                                      *)

\* handleDrain: setDraining, then wait for the dispatches in flight.
StartDrain(c, t) ==
  /\ doCall[c].pc = "free"
  /\ doWork.calls[c] = "drain"
  /\ t \notin gone
  /\ doDraining' = [doDraining EXCEPT ![t] = TRUE]
  /\ Put(c, [FreeSlot EXCEPT !.pc = "drainWait", !.kind = "drain", !.at = t])
  /\ UNCHANGED <<doCase, doNow, gone, doRedis, doWorker, held, doFacets, doLog>>

\* waitForInFlightDispatches: on its timeout nothing is released.
DrainWait(c) ==
  LET d == doCall[c] IN
  /\ d.pc = "drainWait"
  /\ IF InFlight(d.at) # {} \/ held[d.at] = NoOne
     THEN Finish(c)
     ELSE Put(c, [d EXCEPT !.pc = "release", !.fence = FenceOf(held[d.at])])
  /\ UNCHANGED <<doEnv, doRedis, doWorker, held, doFacets, doLog>>

\* releaseOwnerRecordBatch, the read: a record that is no longer ours is lost.
ReleaseRead(c) ==
  LET d == doCall[c] IN
  /\ d.pc = "release"
  /\ IF FenceOf(doOwner) = d.fence
     THEN Put(c, [d EXCEPT !.pc = "releaseDel", !.seen = doOwner]) /\ UNCHANGED held
     ELSE Finish(c) /\ Forget(d.at)
  /\ UNCHANGED <<doEnv, doRedis, doWorker, doFacets, doLog>>

\* releaseOwnerRecordBatch, the compare-and-delete.
ReleaseDelete(c) ==
  LET d == doCall[c] IN
  /\ d.pc = "releaseDel"
  /\ IF doOwner = d.seen
     THEN doOwner' = NoOne /\ Finish(c) /\ Forget(d.at)
     ELSE /\ IF d.tries + 1 < DoRetries
             THEN Put(c, [d EXCEPT !.pc = "release", !.seen = NoOne, !.tries = @ + 1])
             ELSE Finish(c)
          /\ UNCHANGED <<doOwner, held>>
  /\ UNCHANGED <<doEnv, doCounter, doWorker, doFacets, doLog>>

----------------------------------------------------------------------------
(* The control plane, crashes and time.                                    *)

\* A promotion replaces the session policy; only a restart takes a new sequence.
PromotePolicy(mode) ==
  /\ "promote" \in doWork.env
  /\ pointer
  /\ policy.version < doWork.versions
  /\ policy' = [version |-> policy.version + 1, mode |-> mode,
                seq |-> IF mode = "restart" THEN policy.seq + 1 ELSE policy.seq]
  /\ UNCHANGED <<doEnv, doRedis, pointer, deleteLock, lockedAt, held, doFacets, doCall, doLog>>

\* Worker and version deletes take the delete lock and give it back.
LockWorker(kind) ==
  /\ "delete" \in doWork.env
  /\ pointer
  /\ deleteLock = "none"
  /\ deleteLock' = kind
  /\ lockedAt' = doNow
  /\ UNCHANGED <<doEnv, doRedis, pointer, policy, held, doFacets, doCall, doLog>>

\* The delete gives up, or a whole-worker delete commits: pointer and policy go.
UnlockWorker(commit) ==
  /\ deleteLock # "none"
  /\ commit => deleteLock = "whole"
  /\ deleteLock' = "none"
  /\ pointer' = ~commit
  /\ policy' = IF commit THEN [policy EXCEPT !.mode = "preserve", !.seq = 0] ELSE policy
  /\ UNCHANGED <<doEnv, doRedis, lockedAt, held, doFacets, doCall, doLog>>

\* The task's process dies with its calls, facets and entries.
CrashTask(t) ==
  /\ "crash" \in doWork.env
  /\ gone = {}
  /\ gone' = {t}
  /\ doCall' = FinishAll({c \in DoCalls : doCall[c].at = t})
  /\ held' = [held EXCEPT ![t] = NoOne]
  /\ facet' = [facet EXCEPT ![t].inst = NoOne, ![t].cached = NoOne, ![t].known = FALSE]
  /\ rowless' = rowless \ {t}
  /\ UNCHANGED <<doCase, doNow, doDraining, doRedis, doWorker, doLog>>

\* Redis drops the owner key once its TTL has run out.
ExpireOwner ==
  /\ doOwner # NoOne
  /\ LeaseOver(doOwner, doNow)
  /\ doOwner' = NoOne
  /\ UNCHANGED <<doEnv, doCounter, doWorker, held, doFacets, doCall, doLog>>

\* Time passes, but not past a watchdog's timer, nor while a lease that was read
\* is on its way to the handler it admits, or a check renews the lease.
DoTick ==
  /\ doNow < doWork.time
  /\ \A c \in DoCalls :
       /\ doCall[c].pc = "run" => doNow < doCall[c].watch + DoLag
       /\ doCall[c].pc \in {"start", "renewSet"} => doNow < doCall[c].readAt + DoDelay
       /\ doCall[c].pc \in {"renewRead", "renewSet"} /\ doCall[c].kind # "renew" =>
            doNow < doCall[c].since + DoCheck
  /\ doNow' = doNow + 1
  /\ UNCHANGED <<doCase, doDraining, gone, doRedis, doWorker, held, doFacets, doCall, doLog>>

----------------------------------------------------------------------------

DoInit ==
  /\ doCase \in DOMAIN DoWorkloads
  /\ doNow = 0
  /\ doOwner = NoOne
  /\ doCounter = 0
  /\ pointer = TRUE
  /\ deleteLock = "none"
  /\ policy = [version |-> 1, mode |-> "preserve", seq |-> 0]
  /\ held = [t \in DoTasks |-> NoOne]
  /\ doDraining = [t \in DoTasks |-> FALSE]
  /\ gone = {}
  /\ facet = [t \in DoTasks |-> [inst |-> NoOne, row |-> NoOne, cached |-> NoOne, known |-> FALSE]]
  /\ rowless = {}
  /\ doCall = [c \in DoCalls |-> FreeSlot]
  /\ doLog = 0
  /\ lockedAt = 0

DoNext ==
  \/ \E c \in DoCalls :
       \/ \E t \in DoTasks, version \in 1 .. policy.version, hinted \in BOOLEAN :
            Arrive(c, t, version, hinted)
       \/ DispatchLocalFence(c) \/ ResolveOwner(c) \/ ClaimRead(c) \/ ClaimExec(c)
       \/ ForwardToOwner(c) \/ EnterActor(c) \/ AssertOwner(c)
       \/ RenewRead(c) \/ RenewSet(c) \/ RegisterObject(c)
       \/ StartHandler(c) \/ HandlerEnds(c) \/ Watchdog(c)
       \/ DeleteStorage(c)
       \/ DrainWait(c) \/ ReleaseRead(c) \/ ReleaseDelete(c)
       \/ \E t \in DoTasks : StartRenew(c, t) \/ StartDrain(c, t)
  \/ \E t \in DoTasks : EvictActor(t) \/ CrashTask(t)
  \/ \E mode \in {"preserve", "restart"} : PromotePolicy(mode)
  \/ \E kind \in {"whole", "version"} : LockWorker(kind)
  \/ \E commit \in BOOLEAN : UnlockWorker(commit)
  \/ ExpireOwner
  \/ DoTick

DoSpec == DoInit /\ [][DoNext]_doVars

----------------------------------------------------------------------------
(* Properties.                                                             *)

\* A tenant handler runs only on the task, and under the generation, that the
\* owner record names, and only while that record's lease lasts: takeover after
\* a lapsed lease, a drain's release and the watchdog of actor.js leave no
\* moment in which two tasks run the object.
RunsUnderLease ==
  \A c \in DoCalls : doCall[c].pc = "run" =>
     LiveOwner(doOwner) /\ FenceOf(doOwner) = doCall[c].fence

\* Once a dispatch under a restart policy has registered its sequence, no
\* handler of an older sequence runs in that facet; and while that policy stays
\* active the facet was loaded for its sequence, even after the actor lost its
\* caches or the shard moved away and came back (rememberFacet).  The one
\* exception is a facet that another task's storage cleanup left loaded without
\* its row (deleteFacetRegistration): nothing is left to compare with.
RestartSupersedes ==
  \A c \in DoCalls : doCall[c].pc = "run" =>
     LET inst == facet[doCall[c].at].inst IN
     /\ inst # NoOne
     /\ doCall[c].seq >= inst
     /\ doCall[c].mode = "restart" /\ policy.mode = "restart" /\ policy.seq = doCall[c].seq
        /\ doCall[c].at \notin rowless => doCall[c].seq = inst

\* A worker whose whole delete began a lease ago, and was not given up, has no
\* handler left: nothing is admitted, the watchdogs stop what was running.  A
\* check that preceded the lock may still renew (renewOwner does not ask for the
\* lock), so its time is added to the lease.
DeletedWorkerQuiet ==
  (deleteLock = "whole" \/ ~pointer) /\ doNow >= lockedAt + DoCheck + DoTTL =>
     \A t \in DoTasks : Running(t) = {}

\* The abstract registry of FencedWriter: the holder is the generation of the
\* owner record, and handlers write under it.
DoFenced == INSTANCE FencedWriter WITH
  holder <- IF doOwner = NoOne THEN 0 ELSE doOwner.gen,
  top <- doCounter,
  log <- doLog,
  handed <- {}

\* Handlers write under the generation that holds the shard, and a generation
\* is granted once.
DoImplementsFenced == DoFenced!FencedSpec

\* A Durable Object handler runs only under the live lease, in a facet of its
\* restart sequence, and not past the delete of its Worker.
HandlersFenced ==
  /\ RunsUnderLease
  /\ RestartSupersedes
  /\ DeletedWorkerQuiet

=============================================================================
