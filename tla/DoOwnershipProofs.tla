-------------------------- MODULE DoOwnershipProofs --------------------------
(***************************************************************************)
(* Proofs about the ownership of a Durable Object shard, for any number of *)
(* tasks, calls, versions and times: handlers run only under the live      *)
(* lease, in a facet of their restart sequence and not past the delete of  *)
(* their Worker, and the registry with the handlers' writes implements the *)
(* abstract fenced writer.                                                 *)
(***************************************************************************)
EXTENDS DoLeaseInvariant

----------------------------------------------------------------------------
(* Releases, the control plane and time keep the lease invariant.          *)

\* A drain's compare-and-delete finds no dispatch of its record.
LEMMA ReleaseDeleteStep ==
  ASSUME LeaseInv, NEW c \in DoCalls, ReleaseDelete(c) PROVE LeaseInv'
<1> DEFINE d == doCall[c]
           again == [d EXCEPT !.pc = "release", !.seen = NoOne, !.tries = @ + 1]
<1>1. /\ UNCHANGED <<doNow, doDraining, doCounter, pointer, deleteLock, lockedAt>>
      /\ d.pc = "releaseDel"
      /\ \/ (Put(c, again) \/ Finish(c)) /\ UNCHANGED <<doOwner, held>>
         \/ doOwner = d.seen /\ doOwner' = NoOne /\ Finish(c) /\ Forget(d.at)
  BY Zenon DEF ReleaseDelete, doEnv, doWorker
<1>2. /\ IsOp(d) /\ Carries(d) /\ Staged(d) /\ d.at \in DoTasks /\ RegistryOK /\ Releasing(d)
  BY <1>1, OneCall DEF CallOK, Carries, Releasing, ReleasePhases
<1>3. CASE (Put(c, again) \/ Finish(c)) /\ UNCHANGED <<doOwner, held>>
  <2>1. UNCHANGED doFixed /\ HeldOK'
    BY <1>1, <1>3, HeldStays DEF doFixed
  <2>2. /\ IsOp(again) /\ again.pc = "release" /\ again.at = d.at /\ again.fence = d.fence
    BY <1>2, Zenon DEF IsOp, DoFields
  <2>3. Put(c, again) \/ Finish(c)
    BY <1>3
  <2> HIDE DEF again
  <2>4. Carries(again) /\ ~Busy(again)
    BY <1>1, <1>2, <2>2 DEF Carries, LocalPhases, InFlightPhases, ReleasePhases, RenewPhases, Busy
  <2>5. CallOK(again) /\ Releasing(doCall[c]) /\ again.at = doCall[c].at
    BY <1>2, <2>2, <2>4, PlainPhase
  <2> QED BY <2>1, <2>3, <2>4, <2>5, CallMoves, CallEnds
<1>4. ASSUME doOwner = d.seen, doOwner' = NoOne, Finish(c), Forget(d.at) PROVE LeaseInv'
  <2>1. RegistryOK'
    BY <1>1, <1>2, <1>4 DEF RegistryOK
  <2>2. HeldOK'
    BY <1>1, <1>2, <1>4, HeldGoes
  <2>3. doOwner.task = d.at
    BY <1>1, <1>2, <1>4 DEF Staged
  <2>4. ASSUME NEW x \in DoCalls, doCall[x].pc \in {"start", "run"} PROVE FALSE
    BY <1>2, <2>3, <2>4, LeaseLasts DEF LeaseInv, DrainOK
  <2>5. PICK r : r = DoneSlot
    OBVIOUS
  <2>6. IsOp(r) /\ r.pc = "done" /\ r.fence = NoOne /\ Put(c, r)
    BY <1>4, <2>5, Zenon DEF IsOp, DoFields, DoneSlot, FreeSlot, Finish
  <2>7. CallOK(r)' /\ ~Busy(r) /\ ~Releasing(r)
    BY <2>6 DEF CallOK, Carries, Staged, Renewing, Admitted, LocalPhases, InFlightPhases,
                ReleasePhases, RenewPhases, Busy, Releasing, IsOp
  <2>8. doCounter <= doCounter'
    BY <1>1, <1>2 DEF RegistryOK
  <2> QED BY <1>1, <2>1, <2>2, <2>4, <2>6, <2>7, <2>8, RegistryMoves
<1> QED BY <1>1, <1>3, <1>4

\* A record whose lease is over is nobody's admission.
LEMMA ExpireOwnerStep == ASSUME LeaseInv, ExpireOwner PROVE LeaseInv'
<1>1. /\ UNCHANGED <<doNow, doDraining, doCounter, pointer, deleteLock, lockedAt, held, doCall>>
      /\ doOwner # NoOne /\ doOwner.lease <= doNow /\ doOwner' = NoOne
  BY SMTT(30) DEF ExpireOwner, LeaseOver, doEnv, doWorker
<1>2. ASSUME NEW x \in DoCalls PROVE CallOK(doCall[x])'
  <2>1. doCall[x].pc \notin {"start", "run"}
    <3> SUFFICES ASSUME doCall[x].pc \in {"start", "run"} PROVE FALSE
      OBVIOUS
    <3>1. doOwner \in Owners /\ doNow < doOwner.lease /\ doNow \in Nat
      BY LeaseLasts, OneCall
    <3>2. doOwner.lease \in Nat
      BY <3>1, FenceFacts
    <3> QED BY <1>1, <3>1, <3>2
  <2>2. CallOK(doCall[x])
    BY OneCall
  <2> QED BY <1>1, <2>1, <2>2 DEF CallOK, IsOp, Carries, Staged, Renewing, Admitted, Deleted
<1>3. RegistryOK' /\ HeldOK' /\ DrainOK'
  BY <1>1 DEF LeaseInv, RegistryOK, HeldOK, DrainOK
<1>4. doCall' = [c \in DoCalls |-> doCall'[c]]
  BY <1>1 DEF LeaseInv, CallsOK
<1> QED BY <1>2, <1>3, <1>4, Zenon DEF LeaseInv, CallsOK

\* Time stops for what is on its way: timers, admissions and checks.
LEMMA DoTickStep == ASSUME LeaseInv, DoTick PROVE LeaseInv'
<1>1. /\ UNCHANGED <<doOwner, doDraining, doCounter, pointer, deleteLock, lockedAt, held, doCall>>
      /\ doNow' = doNow + 1 /\ doNow \in Nat
      /\ \A c \in DoCalls :
           /\ doCall[c].pc = "run" => doNow < doCall[c].watch + DoLag
           /\ doCall[c].pc \in {"start", "renewSet"} => doNow < doCall[c].readAt + DoDelay
           /\ doCall[c].pc \in RenewPhases /\ doCall[c].kind # "renew" =>
                doNow < doCall[c].since + DoCheck
  BY DEF DoTick, doRedis, doWorker, RenewPhases, LeaseInv, RegistryOK
<1>2. ASSUME NEW x \in DoCalls PROVE CallOK(doCall[x])'
  <2> DEFINE d == doCall[x]
  <2>1. CallOK(d) /\ d' = d
    BY <1>1, OneCall
  <2>2. /\ d.pc = "run" => doNow < d.watch + DoLag
        /\ d.pc \in {"start", "renewSet"} => doNow < d.readAt + DoDelay
        /\ d.pc \in RenewPhases /\ d.kind # "renew" => doNow < d.since + DoCheck
    BY <1>1
  <2> HIDE DEF d
  <2>3. IsOp(d)' /\ Carries(d)'
    BY <1>1, <2>1 DEF CallOK, IsOp, Carries
  <2>4. Staged(d)'
    <3>1. d.pc = "claimExec" => d.mine.lease \in Nat
      BY <2>1, FenceFacts DEF CallOK, Staged
    <3>2. d.pc = "claimExec" => d.mine.lease <= doNow' + DoTTL
      BY <1>1, <2>1, <3>1, DoAssumption DEF CallOK, Staged
    <3>3. d.pc = "claimExec" =>
             \/ /\ d.seen.owner \in Owners
                /\ d.seen.owner.task = d.at /\ d.seen.owner.gen = d.mine.gen
                /\ d.seen.owner.lease <= d.mine.lease
             \/ /\ d.seen.owner \in Owners \cup {NoOne}
                /\ d.seen.owner # NoOne => d.seen.owner.lease <= doNow'
                /\ d.mine.gen > d.seen.counter
      BY <1>1, <2>1, FenceFacts DEF CallOK, Staged
    <3>4. /\ d.pc = "claimExec" => d.mine \in Owners /\ d.mine.task = d.at
          /\ d.pc = "releaseDel" => d.seen \in Owners /\ d.seen.task = d.at
      BY <2>1 DEF CallOK, Staged
    <3>5. PICK e : e = d
      OBVIOUS
    <3>6. Staged(e)'
      BY <3>2, <3>3, <3>4, <3>5 DEF Staged
    <3> QED BY <2>1, <3>5, <3>6
  <2>5. Renewing(d)'
    BY <1>1, <2>1, <2>2, DoAssumption DEF CallOK, Renewing, RenewPhases, Deleted
  <2>6. Admitted(d)'
    BY <1>1, <2>1, <2>2, DoAssumption DEF CallOK, Admitted, Holds, Deleted, DeletedBy
  <2>7. CallOK(d)'
    BY <2>3, <2>4, <2>5, <2>6 DEF CallOK
  <2> QED BY <2>7 DEF d
<1>3. RegistryOK' /\ HeldOK' /\ DrainOK'
  <2>1. doOwner # NoOne => doOwner.lease \in Nat
    BY FenceFacts DEF LeaseInv, RegistryOK
  <2> QED BY <1>1, <2>1, DoAssumption DEF LeaseInv, RegistryOK, HeldOK, DrainOK
<1>4. doCall' = [c \in DoCalls |-> doCall'[c]]
  BY <1>1 DEF LeaseInv, CallsOK
<1> QED BY <1>2, <1>3, <1>4, Zenon DEF LeaseInv, CallsOK

\* Promotions, delete locks, their release and the commit of a delete.
LEMMA ControlStep ==
  ASSUME LeaseInv,
         \/ \E mode \in {"preserve", "restart"} : PromotePolicy(mode)
         \/ \E kind \in {"whole", "version"} : LockWorker(kind)
         \/ \E commit \in BOOLEAN : UnlockWorker(commit)
  PROVE LeaseInv'
<1>1. UNCHANGED <<doNow, doOwner, doDraining, doCounter, held, doCall>>
  BY DEF PromotePolicy, LockWorker, UnlockWorker, doEnv, doRedis
<1>2. /\ lockedAt' \in {lockedAt, doNow} /\ (Deleted' => (Deleted /\ lockedAt' = lockedAt) \/ lockedAt' = doNow)
      /\ pointer' \in BOOLEAN /\ (deleteLock' # "none" => pointer')
  BY Zenon DEF PromotePolicy, LockWorker, UnlockWorker, Deleted, LeaseInv, RegistryOK
<1>3. RegistryOK' /\ HeldOK' /\ DrainOK' /\ lockedAt \in Nat /\ lockedAt <= doNow /\ doNow \in Nat
  BY <1>1, <1>2 DEF LeaseInv, RegistryOK, HeldOK, DrainOK
<1>4. ASSUME NEW x \in DoCalls PROVE CallOK(doCall[x])'
  <2> DEFINE d == doCall[x]
  <2>1. CallOK(d) /\ d' = d /\ (d.pc \in {"start", "run"} => doOwner \in Owners)
    BY <1>1, OneCall, LeaseLasts
  <2> HIDE DEF d
  <2>2. IsOp(d)' /\ Carries(d)' /\ Staged(d)'
    BY <1>1, <2>1 DEF CallOK, IsOp, Carries, Staged
  <2>3. Renewing(d)'
    BY <1>1, <1>2, <1>3, <2>1 DEF CallOK, Renewing, RenewPhases
  <2>4. d.pc \in {"start", "run"} => doOwner.lease \in Nat /\ doOwner.lease <= doNow + DoTTL
    BY <2>1, FenceFacts DEF LeaseInv, RegistryOK
  <2>5. d.pc = "start" => d.mine.lease \in Nat
    BY <2>1, FenceFacts DEF CallOK, Admitted
  <2>6. Admitted(d)'
    <3>1. CASE lockedAt' = doNow /\ d.pc = "start"
      BY <1>1, <1>3, <2>1, <2>4, <2>5, <3>1, DoAssumption DEF CallOK, Admitted, Holds, DeletedBy
    <3>2. CASE lockedAt' = doNow /\ d.pc = "run"
      BY <1>1, <1>3, <2>1, <2>4, <3>2, DoAssumption DEF CallOK, Admitted, Holds, DeletedBy
    <3>3. CASE ~Deleted' \/ (Deleted /\ lockedAt' = lockedAt)
      BY <1>1, <2>1, <3>3 DEF CallOK, Admitted, Holds, DeletedBy
    <3>4. CASE d.pc \notin {"start", "run"}
      BY <2>1, <3>4 DEF Admitted
    <3> QED BY <1>2, <3>1, <3>2, <3>3, <3>4
  <2>7. CallOK(d)'
    BY <2>2, <2>3, <2>6 DEF CallOK
  <2> QED BY <2>7 DEF d
<1>5. doCall' = [c \in DoCalls |-> doCall'[c]]
  BY <1>1 DEF LeaseInv, CallsOK
<1> QED BY <1>3, <1>4, <1>5, Zenon DEF LeaseInv, CallsOK

\* Every step keeps the invariant.
LEMMA LeaseNext == LeaseInv /\ [DoNext]_doVars => LeaseInv'
<1> SUFFICES ASSUME LeaseInv, [DoNext]_doVars PROVE LeaseInv'
  OBVIOUS
<1>1. CASE UNCHANGED doVars
  <2>1. UNCHANGED doFixed /\ HeldOK' /\ doCall' = FinishAll({})
    BY <1>1, HeldStays DEF doVars, doFixed, FinishAll, LeaseInv, CallsOK
  <2> QED BY <2>1, ManyEnd
<1>2. ASSUME NEW c \in DoCalls, NEW t \in DoTasks, NEW version \in 1 .. policy.version,
             NEW hinted \in BOOLEAN, Arrive(c, t, version, hinted)
      PROVE LeaseInv'
  BY <1>2, ArriveStep
<1>3. ASSUME NEW c \in DoCalls,
             \/ DispatchLocalFence(c) \/ ResolveOwner(c) \/ ClaimRead(c) \/ ClaimExec(c)
             \/ ForwardToOwner(c) \/ EnterActor(c) \/ AssertOwner(c)
      PROVE LeaseInv'
  BY <1>3, DispatchLocalFenceStep, ResolveOwnerStep, ClaimReadStep, ClaimExecStep,
     ForwardToOwnerStep, EnterActorStep, AssertOwnerStep, Zenon
<1>4. ASSUME NEW c \in DoCalls,
             \/ RenewRead(c) \/ RenewSet(c) \/ RegisterObject(c) \/ StartHandler(c)
             \/ HandlerEnds(c) \/ Watchdog(c) \/ DeleteStorage(c)
             \/ DrainWait(c) \/ ReleaseRead(c) \/ ReleaseDelete(c)
      PROVE LeaseInv'
  BY <1>4, RenewReadStep, RenewSetStep, RegisterObjectStep, StartHandlerStep, EndingsStep,
     WatchdogStep, DrainStep, ReleaseDeleteStep, Zenon
<1>5. ASSUME NEW c \in DoCalls, NEW t \in DoTasks, StartRenew(c, t) \/ StartDrain(c, t) PROVE LeaseInv'
  BY <1>5, StartRenewStep, DrainStep, Zenon
<1>6. ASSUME NEW t \in DoTasks, EvictActor(t) \/ CrashTask(t) PROVE LeaseInv'
  BY <1>6, EndingsStep, Zenon
<1> QED BY <1>1, <1>2, <1>3, <1>4, <1>5, <1>6, ControlStep, ExpireOwnerStep, DoTickStep, Zenon DEF DoNext

\* It holds at the start.
LEMMA LeaseInit == DoInit => LeaseInv
<1> SUFFICES ASSUME DoInit PROVE LeaseInv
  OBVIOUS
<1>1. RegistryOK /\ HeldOK
  BY DEF DoInit, RegistryOK, HeldOK
<1>2. doCall = [c \in DoCalls |-> FreeSlot] /\ doDraining = [t \in DoTasks |-> FALSE]
  BY DEF DoInit
<1>3. CallsOK /\ DrainOK
  BY <1>2, EmptySlots DEF CallsOK, DrainOK
<1> QED BY <1>1, <1>3 DEF LeaseInv

\* For any tasks, calls, versions and times: a tenant handler runs only on the
\* task and under the generation that the owner record names, while its lease
\* lasts; two tasks never run the object together.
THEOREM HandlersUnderLease == DoSpec => []RunsUnderLease
<1>1. LeaseInv => RunsUnderLease
  <2> SUFFICES ASSUME LeaseInv, NEW c \in DoCalls, doCall[c].pc = "run"
               PROVE LiveOwner(doOwner) /\ FenceOf(doOwner) = doCall[c].fence
    BY DEF RunsUnderLease
  <2>1. doOwner \in Owners /\ doNow < doOwner.lease /\ Holds(doCall[c]) /\ doNow \in Nat
    BY LeaseLasts, OneCall
  <2>2. doCall[c].fence \in Fences
    BY OneCall DEF Carries, LocalPhases, InFlightPhases
  <2>3. doOwner # NoOne /\ doOwner.lease \in Nat /\ FenceOf(doOwner) \in Fences
    BY <2>1, FenceFacts
  <2>4. FenceOf(doOwner) = doCall[c].fence
    BY <2>1, <2>2, <2>3, FenceFacts DEF Holds, Fences
  <2> QED BY <2>1, <2>3, <2>4 DEF LiveOwner, LeaseOver
<1> QED BY <1>1, LeaseInit, LeaseNext, PTL DEF DoSpec

\* A Worker whose whole delete began a lease and an owner check ago, and was
\* not given up, has no handler left.
THEOREM DeletedWorkersQuiet == DoSpec => []DeletedWorkerQuiet
<1>1. LeaseInv => DeletedWorkerQuiet
  <2> SUFFICES ASSUME LeaseInv, Deleted, doNow >= DeletedBy, NEW c \in DoCalls, doCall[c].pc = "run"
               PROVE FALSE
    BY DEF DeletedWorkerQuiet, Deleted, DeletedBy, Running
  <2>1. /\ doCall[c].watch \in Nat /\ doNow <= doCall[c].watch + DoLag
        /\ doCall[c].watch + DoLag < DeletedBy /\ doNow \in Nat
    BY OneCall DEF CallOK, Admitted
  <2>2. DeletedBy \in Nat
    BY DoAssumption DEF LeaseInv, RegistryOK, DeletedBy
  <2> QED BY <2>1, <2>2, DoAssumption
<1> QED BY <1>1, LeaseInit, LeaseNext, PTL DEF DoSpec


----------------------------------------------------------------------------
(* How the owner record moves.                                             *)

\* A step leaves the record, drops it, prolongs it, or gives the shard away
\* under a generation above every earlier one.
OwnerMoves ==
  \/ UNCHANGED <<doOwner, doCounter>>
  \/ doOwner' = NoOne /\ doCounter' = doCounter
  \/ /\ doOwner \in Owners /\ doOwner' \in Owners /\ doOwner'.task = doOwner.task
     /\ doOwner'.gen = doOwner.gen /\ doCounter' = doCounter
  \/ /\ doOwner' \in Owners /\ doOwner'.gen > doCounter /\ doCounter' = doOwner'.gen

\* A write is a handler's, under its own fence.
LogMoves ==
  \/ doLog' = doLog
  \/ UNCHANGED doRedis /\ \E c \in DoCalls : doCall[c].pc = "run" /\ doLog' = doCall[c].fence.gen

\* EXEC of a claim prolongs the record or grants a new generation.
LEMMA ClaimMoves == ASSUME LeaseInv, NEW c \in DoCalls, ClaimExec(c) PROVE OwnerMoves
<1> DEFINE d == doCall[c]
           snap == [owner |-> doOwner, counter |-> doCounter, pointer |-> pointer,
                    lock |-> deleteLock, policy |-> policy]
<1>1. /\ d.pc = "claimExec"
      /\ \/ d.seen = snap /\ doOwner' = d.mine /\ doCounter' = CounterAfter(d.mine)
         \/ UNCHANGED <<doOwner, doCounter>>
  BY Zenon DEF ClaimExec, doRedis
<1>2. Staged(d) /\ RegistryOK
  BY OneCall DEF CallOK
<1>3. ASSUME d.seen = snap, doOwner' = d.mine, doCounter' = CounterAfter(d.mine) PROVE OwnerMoves
  <2>1. /\ d.mine \in Owners /\ d.mine.task = d.at
        /\ \/ doOwner \in Owners /\ doOwner.task = d.at /\ doOwner.gen = d.mine.gen
           \/ d.mine.gen > doCounter
    BY <1>1, <1>2, <1>3 DEF Staged
  <2>2. /\ d.mine.gen \in Nat /\ doCounter \in Nat
        /\ doOwner \in Owners => doOwner.gen <= doCounter
    BY <1>2, <2>1, FenceFacts DEF RegistryOK
  <2> QED BY <1>3, <2>1, <2>2 DEF OwnerMoves, CounterAfter, BiggerOf
<1> QED BY <1>1, <1>3 DEF OwnerMoves

\* A renewal's compare-and-set keeps task and generation.
LEMMA RenewMoves == ASSUME LeaseInv, NEW c \in DoCalls, RenewSet(c) PROVE OwnerMoves
<1> DEFINE d == doCall[c]
<1>1. /\ d.pc = "renewSet" /\ doCounter' = doCounter
      /\ UNCHANGED doOwner \/ (doOwner = d.seen /\ doOwner' = d.mine)
  BY Zenon DEF RenewSet
<1>2. /\ d.seen \in Owners /\ d.seen.task = d.fence.task /\ d.fence.task = d.at
      /\ d.mine = [task |-> d.at, gen |-> d.seen.gen, lease |-> d.readAt + DoTTL]
      /\ d.readAt \in Nat /\ d.at \in DoTasks
  BY <1>1, OneCall DEF CallOK, Renewing, Carries, LocalPhases, InFlightPhases
<1>3. d.seen.gen \in Nat /\ d.readAt + DoTTL \in Nat
  BY <1>2, FenceFacts, DoAssumption
<1>4. d.mine \in Owners /\ d.mine.task = d.seen.task /\ d.mine.gen = d.seen.gen
  BY <1>2, <1>3 DEF Owners
<1> QED BY <1>1, <1>2, <1>4 DEF OwnerMoves

\* Every step moves record and log in one of these ways.
LEMMA RegistrySteps == ASSUME LeaseInv, DoNext PROVE OwnerMoves /\ LogMoves
<1>1. ASSUME NEW c \in DoCalls,
             \/ \E t \in DoTasks, version \in 1 .. policy.version, hinted \in BOOLEAN :
                  Arrive(c, t, version, hinted)
             \/ DispatchLocalFence(c) \/ ResolveOwner(c) \/ ClaimRead(c)
             \/ ForwardToOwner(c) \/ EnterActor(c) \/ AssertOwner(c)
      PROVE UNCHANGED <<doRedis, doLog>>
  BY <1>1, Zenon DEF Arrive, DispatchLocalFence, ResolveOwner, ClaimRead, ForwardToOwner, EnterActor, AssertOwner
<1>2. ASSUME NEW c \in DoCalls,
             \/ RenewRead(c) \/ RegisterObject(c) \/ StartHandler(c) \/ Watchdog(c)
             \/ DeleteStorage(c) \/ DrainWait(c) \/ ReleaseRead(c)
             \/ \E t \in DoTasks : StartRenew(c, t) \/ StartDrain(c, t)
      PROVE UNCHANGED <<doRedis, doLog>>
  BY <1>2, Zenon DEF RenewRead, RegisterObject, StartHandler, Watchdog, DeleteStorage, DrainWait,
     ReleaseRead, StartRenew, StartDrain
<1>3. ASSUME NEW t \in DoTasks, EvictActor(t) \/ CrashTask(t) PROVE UNCHANGED <<doRedis, doLog>>
  BY <1>3, Zenon DEF EvictActor, CrashTask
<1>4. ASSUME \/ \E mode \in {"preserve", "restart"} : PromotePolicy(mode)
             \/ \E kind \in {"whole", "version"} : LockWorker(kind)
             \/ \E commit \in BOOLEAN : UnlockWorker(commit)
             \/ DoTick
      PROVE UNCHANGED <<doRedis, doLog>>
  BY <1>4, Zenon DEF PromotePolicy, LockWorker, UnlockWorker, DoTick
<1>5. ASSUME UNCHANGED <<doRedis, doLog>> PROVE OwnerMoves /\ LogMoves
  BY <1>5 DEF OwnerMoves, LogMoves, doRedis
<1>6. ASSUME NEW c \in DoCalls, ClaimExec(c) \/ RenewSet(c) PROVE OwnerMoves /\ LogMoves
  <2>1. doLog' = doLog
    BY <1>6, Zenon DEF ClaimExec, RenewSet
  <2> QED BY <1>6, <2>1, ClaimMoves, RenewMoves DEF LogMoves
<1>7. ASSUME NEW c \in DoCalls, HandlerEnds(c) PROVE OwnerMoves /\ LogMoves
  BY <1>7 DEF HandlerEnds, OwnerMoves, LogMoves, doRedis
<1>8. ASSUME NEW c \in DoCalls, ReleaseDelete(c) PROVE OwnerMoves /\ LogMoves
  <2>1. /\ doCounter' = doCounter /\ doLog' = doLog
        /\ doOwner' = doOwner \/ doOwner' = NoOne
    BY <1>8, Zenon DEF ReleaseDelete
  <2> QED BY <2>1 DEF OwnerMoves, LogMoves
<1>9. CASE ExpireOwner
  BY <1>9 DEF ExpireOwner, OwnerMoves, LogMoves
<1> QED BY <1>1, <1>2, <1>3, <1>4, <1>5, <1>6, <1>7, <1>8, <1>9, Zenon DEF DoNext

----------------------------------------------------------------------------
(* The abstract registry.                                                  *)

\* Under the mapping every step is a grant, a loss of the holder, a write of
\* the holder, or leaves the abstract registry alone.
LEMMA RegistryRefines == ASSUME LeaseInv, [DoNext]_doVars PROVE [DoFenced!FencedNext]_DoFenced!fencedVars
<1> DEFINE holding == IF doOwner = NoOne THEN 0 ELSE doOwner.gen
<1>1. RegistryOK
  BY DEF LeaseInv
<1>2. CASE UNCHANGED doVars
  BY <1>2 DEF doVars, DoFenced!fencedVars
<1>3. CASE DoNext
  <2>1. OwnerMoves /\ LogMoves
    BY <1>3, RegistrySteps
  <2>2. ASSUME doLog' = doLog PROVE [DoFenced!FencedNext]_DoFenced!fencedVars
    <3>1. CASE UNCHANGED <<doOwner, doCounter>>
      BY <2>2, <3>1 DEF DoFenced!fencedVars
    <3>2. CASE doOwner' = NoOne /\ doCounter' = doCounter
      BY <2>2, <3>2 DEF DoFenced!FencedNext, DoFenced!Revoke, DoFenced!HandOver
    <3>3. CASE /\ doOwner \in Owners /\ doOwner' \in Owners /\ doOwner'.task = doOwner.task
               /\ doOwner'.gen = doOwner.gen /\ doCounter' = doCounter
      <4>1. doOwner # NoOne /\ doOwner' # NoOne
        BY <3>3, FenceFacts
      <4> QED BY <2>2, <3>3, <4>1 DEF DoFenced!fencedVars
    <3>4. CASE doOwner' \in Owners /\ doOwner'.gen > doCounter /\ doCounter' = doOwner'.gen
      <4>1. doOwner' # NoOne /\ doOwner'.gen \in Nat
        BY <3>4, FenceFacts
      <4> QED BY <2>2, <3>4, <4>1 DEF DoFenced!FencedNext, DoFenced!Grant, DoFenced!HandOver
    <3> QED BY <2>1, <3>1, <3>2, <3>3, <3>4 DEF OwnerMoves
  <2>3. ASSUME UNCHANGED doRedis, NEW c \in DoCalls, doCall[c].pc = "run", doLog' = doCall[c].fence.gen
        PROVE DoFenced!FencedNext
    <3>1. Holds(doCall[c]) /\ doOwner \in Owners
      BY <2>3, LeaseLasts
    <3>2. holding = doOwner.gen /\ doOwner.gen # 0 /\ doOwner.gen = doCall[c].fence.gen
      BY <1>1, <3>1, FenceFacts DEF Holds, RegistryOK
    <3> QED BY <2>3, <3>2 DEF DoFenced!FencedNext, DoFenced!Write, doRedis
  <2> QED BY <2>1, <2>2, <2>3 DEF LogMoves
<1> QED BY <1>2, <1>3

\* For any tasks, calls, versions and times: ownership of the shard with its
\* claims, takeovers, renewals, releases, expiries and crashes, and the writes
\* of the handlers, implement the abstract fenced writer.  A generation is
\* granted once, and every write is the holder's.
THEOREM OwnershipIsFenced == DoSpec => DoImplementsFenced
<1>1. DoInit => DoFenced!FencedInit
  BY DEF DoInit, DoFenced!FencedInit
<1> QED BY <1>1, LeaseInit, LeaseNext, RegistryRefines, PTL
        DEF DoSpec, DoImplementsFenced, DoFenced!FencedSpec

----------------------------------------------------------------------------
(* The inductive invariant: facets and restart sequences.                  *)

Sequences0 == Nat \cup {NoOne}

FacetFields == {"inst", "row", "cached", "known"}
IsFacet(f) == DOMAIN f = FacetFields /\ f = [x \in FacetFields |-> f[x]]

\* Rows and caches agree, never trail the facet that is loaded, and only a
\* cleanup of another task leaves a facet without a row.
FacetOK(t) ==
  LET f == facet[t] IN
  /\ IsFacet(f) /\ f.inst \in Sequences0 /\ f.row \in Sequences0 /\ f.cached \in Sequences0
  /\ f.cached # NoOne /\ f.row # NoOne => f.cached = f.row
  /\ f.inst # NoOne /\ f.cached # NoOne => f.inst <= f.cached
  /\ f.inst # NoOne /\ f.row # NoOne => f.inst <= f.row
  /\ f.inst # NoOne /\ t \notin rowless => f.row # NoOne
  /\ pointer => \A s \in {f.inst, f.row, f.cached} : s # NoOne => s <= policy.seq
  /\ policy.mode = "restart" /\ f.inst # NoOne /\ t \notin rowless /\ f.row = policy.seq
       => f.inst = policy.seq

\* The sequence of a call is one the policy has had.
SequenceOf(d) ==
  /\ d.seq \in Nat
  /\ pointer => d.seq <= policy.seq
  /\ policy.mode = "restart" /\ d.seq = policy.seq => d.mode = "restart"

\* A call admitted without a row to compare with is not older than the facet,
\* and no handler is.
FacetFor(d) ==
  /\ d.pc \in {"renewRead", "renewSet", "start"} /\ d.kind = "fetch" /\ Holds(d) =>
       (Registration(facet[d.at]) = NoOne /\ facet[d.at].inst # NoOne => facet[d.at].inst <= d.seq)
  /\ d.pc = "run" =>
       /\ facet[d.at].inst # NoOne /\ facet[d.at].inst <= d.seq
       /\ policy.mode = "restart" /\ d.seq = policy.seq /\ d.at \notin rowless => facet[d.at].inst = d.seq

PolicyOK ==
  /\ policy = [version |-> policy.version, mode |-> policy.mode, seq |-> policy.seq]
  /\ policy.seq \in Nat /\ (policy.mode = "restart" => pointer /\ policy.seq >= 1)

FacetInv ==
  /\ PolicyOK
  /\ facet = [t \in DoTasks |-> facet[t]] /\ \A t \in DoTasks : FacetOK(t)
  /\ \A c \in DoCalls : SequenceOf(doCall[c]) /\ FacetFor(doCall[c])

----------------------------------------------------------------------------
(* Steps that leave the facets alone.                                      *)

\* What the invariant of a facet looks at, and steps that keep it.
SameFacets ==
  /\ UNCHANGED <<policy, pointer, rowless>>
  /\ facet' = [t \in DoTasks |-> facet'[t]]
  /\ \A t \in DoTasks : /\ IsFacet(facet'[t]) /\ facet'[t].inst = facet[t].inst
                        /\ facet'[t].row = facet[t].row /\ facet'[t].cached = facet[t].cached

\* A record that a call holds after the step, it held before.
LEMMA HeldBefore == ASSUME LeaseInv, OwnerMoves, NEW d, Carries(d), d.pc \in LocalPhases, Holds(d)' PROVE Holds(d)
<1>1. d.fence \in Fences /\ d.fence.gen <= doCounter /\ doCounter \in Nat
  BY DEF Carries, LeaseInv, RegistryOK
<1>2. d.fence.gen \in Nat
  BY <1>1 DEF Fences
<1>3. doOwner' # NoOne /\ doOwner'.task = d.fence.task /\ doOwner'.gen = d.fence.gen
  BY DEF Holds
<1>4. doOwner \in Owners => doOwner # NoOne
  BY FenceFacts
<1> QED BY <1>1, <1>2, <1>3, <1>4 DEF OwnerMoves, Holds

\* A call that does not move keeps its place when the facets stay.
LEMMA SequenceStays ==
  ASSUME LeaseInv, SameFacets, OwnerMoves, NEW d, SequenceOf(d), FacetFor(d), Carries(d)
  PROVE SequenceOf(d)' /\ FacetFor(d)'
<1>1. SequenceOf(d)'
  BY DEF SequenceOf, SameFacets
<1>2. d.pc \in {"renewRead", "renewSet", "start", "run"} => d.at \in DoTasks /\ d.pc \in LocalPhases
  BY DEF Carries, LocalPhases, InFlightPhases
<1>3. d.pc \in {"renewRead", "renewSet", "start"} /\ Holds(d)' => Holds(d)
  BY <1>2, HeldBefore
<1>4. d.at \in DoTasks => /\ facet'[d.at].inst = facet[d.at].inst
                          /\ Registration(facet'[d.at]) = Registration(facet[d.at])
  BY DEF SameFacets, Registration
<1>5. FacetFor(d)'
  BY <1>2, <1>3, <1>4 DEF FacetFor, SameFacets
<1> QED BY <1>1, <1>5

\* The facets stay as they are.
LEMMA FacetsStay == ASSUME FacetInv, SameFacets
  PROVE PolicyOK' /\ facet' = [t \in DoTasks |-> facet'[t]] /\ \A t \in DoTasks : FacetOK(t)'
<1>1. PolicyOK'
  BY DEF FacetInv, PolicyOK, SameFacets
<1>2. ASSUME NEW t \in DoTasks PROVE FacetOK(t)'
  BY DEF FacetInv, FacetOK, SameFacets
<1> QED BY <1>1, <1>2 DEF SameFacets

\* A facet that nothing writes is one of the same.
LEMMA FacetsSame == ASSUME FacetInv, UNCHANGED <<policy, pointer, doFacets>> PROVE SameFacets
BY DEF FacetInv, FacetOK, SameFacets, doFacets

\* Calls that did not move, and calls that are right where they are now.
LEMMA SequencesMove ==
  ASSUME LeaseInv, FacetInv, SameFacets, OwnerMoves,
         \A x \in DoCalls : doCall'[x] = doCall[x] \/ (SequenceOf(doCall[x])' /\ FacetFor(doCall[x])')
  PROVE FacetInv'
<1>1. ASSUME NEW x \in DoCalls PROVE SequenceOf(doCall[x])' /\ FacetFor(doCall[x])'
  <2> SUFFICES ASSUME doCall'[x] = doCall[x] PROVE SequenceOf(doCall[x])' /\ FacetFor(doCall[x])'
    OBVIOUS
  <2>1. PICK e : e = doCall[x]
    OBVIOUS
  <2>2. SequenceOf(e) /\ FacetFor(e) /\ Carries(e)
    BY <2>1, OneCall DEF FacetInv
  <2>3. SequenceOf(e)' /\ FacetFor(e)'
    BY <2>2, SequenceStays
  <2> QED BY <2>1, <2>3
<1> QED BY <1>1, FacetsStay, Zenon DEF FacetInv

\* A slot taken anew: no sequence yet, and no dispatch past its check.
Fresh(r) ==
  /\ r.seq = 0 /\ r.pc # "run"
  /\ r.kind = "fetch" => r.pc \notin {"renewRead", "renewSet", "start"}

\* A call that goes on with its sequence.
Follows(r, d) ==
  /\ r.seq = d.seq /\ r.mode = d.mode
  /\ r.pc \in {"renewRead", "renewSet", "start"} /\ r.kind = "fetch" =>
       /\ d.pc \in {"renewRead", "renewSet", "start"} /\ d.kind = "fetch"
       /\ r.at = d.at /\ r.fence = d.fence
  /\ r.pc = "run" => d.pc = "run" /\ r.at = d.at

\* A slot that is done is fresh.
LEMMA DoneFresh == Fresh(DoneSlot) /\ Fresh(FreeSlot)
BY DEF Fresh, DoneSlot, FreeSlot

\* A fresh slot, or a call that goes on with its sequence.
LEMMA SlotMoves ==
  ASSUME LeaseInv, FacetInv, SameFacets, OwnerMoves, NEW c \in DoCalls, NEW r, Put(c, r),
         Fresh(r) \/ Follows(r, doCall[c])
  PROVE FacetInv'
<1>1. doCall'[c] = r /\ \A x \in DoCalls : x # c => doCall'[x] = doCall[x]
  BY DEF Put, LeaseInv, CallsOK
<1>2. PICK e : e = doCall[c]
  OBVIOUS
<1>3. SequenceOf(e) /\ FacetFor(e) /\ Carries(e)
  BY <1>2, OneCall DEF FacetInv
<1>4. SequenceOf(e)' /\ FacetFor(e)' /\ PolicyOK'
  BY <1>3, SequenceStays, FacetsStay
<1>5. ASSUME Fresh(r) PROVE SequenceOf(r)' /\ FacetFor(r)'
  BY <1>4, <1>5 DEF SequenceOf, FacetFor, Fresh, PolicyOK
<1>6. ASSUME Follows(r, doCall[c]) PROVE SequenceOf(r)' /\ FacetFor(r)'
  <2>1. Follows(r, e)
    BY <1>2, <1>6
  <2>2. SequenceOf(r)'
    BY <1>4, <2>1 DEF SequenceOf, Follows
  <2>3. e.pc \in {"renewRead", "renewSet", "start"} => e.at \in DoTasks
    BY <1>3 DEF Carries
  <2>4. FacetFor(r)'
    BY <1>4, <2>1 DEF FacetFor, Follows, Holds
  <2> QED BY <2>2, <2>4
<1>7. SequenceOf(r)' /\ FacetFor(r)'
  BY <1>5, <1>6
<1> QED BY <1>1, <1>7, SequencesMove

\* The outer resolver, the owner check's Redis steps, drains and releases take
\* a call further without touching its sequence.
Ahead(c) == \E r : Put(c, r) /\ (Fresh(r) \/ Follows(r, doCall[c]))

\* A call that ends is ahead.
LEMMA EndsAhead == ASSUME NEW c \in DoCalls, Finish(c) PROVE Ahead(c)
BY DoneFresh DEF Finish, DoneSlot, Ahead

\* A call to which an owner is assigned is ahead.
LEMMA RouteAhead ==
  ASSUME NEW c \in DoCalls, NEW d, IsOp(d), d.seq = doCall[c].seq, d.mode = doCall[c].mode, NEW rec, Route(c, d, rec)
  PROVE Ahead(c)
<1> DEFINE q == [d EXCEPT !.pc = "queued", !.fence = FenceOf(rec), !.seen = NoOne, !.mine = NoOne]
           f == [d EXCEPT !.pc = "forward", !.fence = FenceOf(rec), !.hop = @ + 1, !.seen = NoOne]
<1>1. Put(c, q) \/ Put(c, f) \/ Finish(c)
  BY DEF Route
<1>2. /\ q.pc = "queued" /\ q.seq = d.seq /\ q.mode = d.mode
      /\ f.pc = "forward" /\ f.seq = d.seq /\ f.mode = d.mode
  BY DEF IsOp, DoFields
<1> HIDE DEF q, f
<1>3. Follows(q, doCall[c]) /\ Follows(f, doCall[c])
  BY <1>2 DEF Follows
<1> QED BY <1>1, <1>3, EndsAhead DEF Ahead

\* Arrivals, resolutions and claims.
LEMMA ResolverAhead ==
  ASSUME LeaseInv, NEW c \in DoCalls,
         \/ \E t \in DoTasks, version \in 1 .. policy.version, hinted \in BOOLEAN :
              Arrive(c, t, version, hinted)
         \/ DispatchLocalFence(c) \/ ResolveOwner(c) \/ ClaimRead(c) \/ ClaimExec(c)
         \/ ForwardToOwner(c) \/ EnterActor(c)
  PROVE Ahead(c) /\ UNCHANGED <<policy, pointer, doFacets>>
<1> DEFINE d == doCall[c]
<1>1. UNCHANGED <<policy, pointer, doFacets>>
  BY Zenon DEF Arrive, DispatchLocalFence, ResolveOwner, ClaimRead, ClaimExec, ForwardToOwner,
     EnterActor, doWorker
<1> SUFFICES Ahead(c)
  BY <1>1
<1>2. IsOp(d)
  BY OneCall
<1>3. ASSUME NEW t, NEW version, NEW hinted, Arrive(c, t, version, hinted) PROVE Ahead(c)
  <2> DEFINE r == [FreeSlot EXCEPT !.pc = "arrived", !.kind = doWork.calls[c], !.at = t,
               !.version = version, !.fence = IF hinted THEN FenceOf(held[t]) ELSE NoOne]
  <2>1. Put(c, r)
    BY <1>3, Zenon DEF Arrive
  <2>2. r.pc = "arrived" /\ r.seq = 0
    BY EmptySlots DEF FreeSlot
  <2> HIDE DEF r
  <2> QED BY <2>1, <2>2 DEF Ahead, Fresh
<1>4. CASE DispatchLocalFence(c) \/ EnterActor(c) \/ ForwardToOwner(c)
  <2> DEFINE q == [d EXCEPT !.pc = "queued"]
             a == [d EXCEPT !.pc = "assert"]
             f == [d EXCEPT !.pc = "arrived", !.at = d.fence.task]
  <2>1. Put(c, q) \/ Put(c, a) \/ Put(c, f) \/ Finish(c)
    BY <1>4, Zenon DEF DispatchLocalFence, EnterActor, ForwardToOwner
  <2>2. /\ q.pc = "queued" /\ q.seq = d.seq /\ q.mode = d.mode
        /\ a.pc = "assert" /\ a.seq = d.seq /\ a.mode = d.mode
        /\ f.pc = "arrived" /\ f.seq = d.seq /\ f.mode = d.mode
    BY <1>2 DEF IsOp, DoFields
  <2> HIDE DEF q, a, f
  <2>3. Follows(q, d) /\ Follows(a, d) /\ Follows(f, d)
    BY <2>2 DEF Follows
  <2> QED BY <2>1, <2>3, EndsAhead DEF Ahead
<1>5. CASE ResolveOwner(c)
  <2> DEFINE r == [d EXCEPT !.pc = "claim"]
  <2>1. Finish(c) \/ Route(c, d, doOwner) \/ Put(c, r)
    BY <1>5, Resolved, Zenon DEF ResolveOwner
  <2>2. r.pc = "claim" /\ r.seq = d.seq /\ r.mode = d.mode
    BY <1>2 DEF IsOp, DoFields
  <2> HIDE DEF r
  <2>3. Follows(r, d)
    BY <2>2 DEF Follows
  <2> QED BY <1>2, <2>1, <2>3, EndsAhead, RouteAhead DEF Ahead
<1>6. CASE ClaimRead(c)
  <2>1. \/ Finish(c) \/ Route(c, d, doOwner)
        \/ \E next, snap : Put(c, [d EXCEPT !.pc = "claimExec", !.mine = next, !.seen = snap])
    BY <1>6, Resolved, Zenon DEF ClaimRead
  <2>2. ASSUME NEW next, NEW snap, Put(c, [d EXCEPT !.pc = "claimExec", !.mine = next, !.seen = snap])
        PROVE Ahead(c)
    <3> DEFINE r == [d EXCEPT !.pc = "claimExec", !.mine = next, !.seen = snap]
    <3>1. Put(c, r) /\ r.pc = "claimExec" /\ r.seq = d.seq /\ r.mode = d.mode
      BY <1>2, <2>2, SMTT(20) DEF IsOp, DoFields
    <3> HIDE DEF r
    <3> QED BY <3>1 DEF Follows, Ahead
  <2> QED BY <1>2, <2>1, <2>2, EndsAhead, RouteAhead, Zenon
<1>7. CASE ClaimExec(c)
  <2> DEFINE q == [d EXCEPT !.tries = 0]
             again == [d EXCEPT !.pc = "claim", !.tries = @ + 1, !.seen = NoOne, !.mine = NoOne]
  <2>1. Route(c, q, d.mine) \/ Put(c, again) \/ Finish(c)
    BY <1>7, Zenon DEF ClaimExec
  <2>2. /\ IsOp(q) /\ q.seq = d.seq /\ q.mode = d.mode
        /\ again.pc = "claim" /\ again.seq = d.seq /\ again.mode = d.mode
    BY <1>2 DEF IsOp, DoFields
  <2> HIDE DEF q, again
  <2>3. Follows(again, d)
    BY <2>2 DEF Follows
  <2> QED BY <2>1, <2>2, <2>3, EndsAhead, RouteAhead DEF Ahead
<1> QED BY <1>3, <1>4, <1>5, <1>6, <1>7, Zenon

\* Renewals, handlers that end, drains and releases.
LEMMA LeaseAhead ==
  ASSUME LeaseInv, NEW c \in DoCalls,
         \/ RenewRead(c) \/ RenewSet(c) \/ HandlerEnds(c)
         \/ DrainWait(c) \/ ReleaseRead(c) \/ ReleaseDelete(c)
         \/ \E t \in DoTasks : StartRenew(c, t) \/ StartDrain(c, t)
  PROVE Ahead(c) /\ UNCHANGED <<policy, pointer, doFacets>>
<1> DEFINE d == doCall[c]
<1>1. UNCHANGED <<policy, pointer, doFacets>>
  BY Zenon DEF RenewRead, RenewSet, HandlerEnds, DrainWait, ReleaseRead, ReleaseDelete,
     StartRenew, StartDrain, doWorker
<1> SUFFICES Ahead(c)
  BY <1>1
<1>2. IsOp(d)
  BY OneCall
<1>3. ASSUME NEW t, StartRenew(c, t) \/ StartDrain(c, t) PROVE Ahead(c)
  <2> DEFINE n == [FreeSlot EXCEPT !.pc = "renewRead", !.kind = "renew", !.at = t,
                     !.fence = FenceOf(held[t])]
             w == [FreeSlot EXCEPT !.pc = "drainWait", !.kind = "drain", !.at = t]
  <2>1. Put(c, n) \/ Put(c, w)
    BY <1>3, Zenon DEF StartRenew, StartDrain
  <2>2. n.pc = "renewRead" /\ n.kind = "renew" /\ n.seq = 0 /\ w.pc = "drainWait" /\ w.seq = 0
    BY DEF FreeSlot
  <2> HIDE DEF n, w
  <2> QED BY <2>1, <2>2 DEF Ahead, Fresh
<1>4. CASE RenewRead(c)
  <2> DEFINE r == [d EXCEPT !.pc = "renewSet", !.seen = doOwner, !.readAt = doNow,
                     !.mine = OwnerFor(d.at, doOwner.gen)]
  <2>1. d.pc = "renewRead" /\ (Put(c, r) \/ Finish(c))
    BY <1>4, Zenon DEF RenewRead
  <2>2. /\ r.pc = "renewSet" /\ r.seq = d.seq /\ r.mode = d.mode /\ r.kind = d.kind
        /\ r.at = d.at /\ r.fence = d.fence
    BY <1>2 DEF IsOp, DoFields
  <2> HIDE DEF r, d
  <2>3. Follows(r, d)
    BY <2>1, <2>2 DEF Follows
  <2> QED BY <2>1, <2>3, EndsAhead DEF Ahead, d
<1>5. CASE RenewSet(c)
  <2> DEFINE again == [d EXCEPT !.pc = "renewRead", !.tries = @ + 1, !.seen = NoOne]
             go == [d EXCEPT !.pc = AfterFence(d), !.seen = NoOne, !.since = 0]
  <2>1. d.pc = "renewSet" /\ (Put(c, again) \/ Put(c, go) \/ Finish(c))
    BY <1>5, Zenon DEF RenewSet
  <2>2. /\ again.pc = "renewRead" /\ again.seq = d.seq /\ again.mode = d.mode
        /\ again.kind = d.kind /\ again.at = d.at /\ again.fence = d.fence
        /\ go.pc = AfterFence(d) /\ go.seq = d.seq /\ go.mode = d.mode /\ go.kind = d.kind
        /\ go.at = d.at /\ go.fence = d.fence
    BY <1>2 DEF IsOp, DoFields
  <2>3. AfterFence(d) \in {"register", "start"}
    BY SMTT(30) DEF AfterFence
  <2> HIDE DEF again, go, d
  <2>4. Follows(again, d) /\ Follows(go, d)
    BY <2>1, <2>2, <2>3 DEF Follows
  <2> QED BY <2>1, <2>4, EndsAhead DEF Ahead, d
<1>6. CASE DrainWait(c) \/ ReleaseRead(c) \/ ReleaseDelete(c)
  <2> DEFINE r == [d EXCEPT !.pc = "release", !.fence = FenceOf(held[d.at])]
             l == [d EXCEPT !.pc = "releaseDel", !.seen = doOwner]
             again == [d EXCEPT !.pc = "release", !.seen = NoOne, !.tries = @ + 1]
  <2>1. Put(c, r) \/ Put(c, l) \/ Put(c, again) \/ Finish(c)
    BY <1>6, Zenon DEF DrainWait, ReleaseRead, ReleaseDelete
  <2>2. /\ r.pc = "release" /\ r.seq = d.seq /\ r.mode = d.mode
        /\ l.pc = "releaseDel" /\ l.seq = d.seq /\ l.mode = d.mode
        /\ again.pc = "release" /\ again.seq = d.seq /\ again.mode = d.mode
    BY <1>2, SMTT(30) DEF IsOp, DoFields
  <2> HIDE DEF r, l, again
  <2>3. Follows(r, d) /\ Follows(l, d) /\ Follows(again, d)
    BY <2>2 DEF Follows
  <2> QED BY <2>1, <2>3, EndsAhead DEF Ahead
<1>7. CASE HandlerEnds(c)
  BY <1>7, EndsAhead, Zenon DEF HandlerEnds
<1> QED BY <1>3, <1>4, <1>5, <1>6, <1>7, Zenon

\* A dispatch takes its sequence from the policy it reads, and no facet is
\* ahead of the policy.
LEMMA AssertSequence ==
  ASSUME LeaseInv, FacetInv, OwnerMoves, NEW c \in DoCalls, AssertOwner(c) PROVE FacetInv'
<1> DEFINE d == doCall[c]
           e == IF d.kind = "fetch" THEN [d EXCEPT !.mode = policy.mode, !.seq = policy.seq] ELSE d
           short == [e EXCEPT !.pc = "renewRead", !.tries = 0, !.since = doNow]
           long == [e EXCEPT !.pc = AfterFence(d), !.mine = doOwner, !.readAt = doNow]
<1>1. d.pc = "assert" /\ UNCHANGED <<policy, pointer, doFacets>>
  BY Zenon DEF AssertOwner, doWorker
<1>2. Finish(c) \/ (pointer /\ (Put(c, short) \/ Put(c, long)))
  BY Zenon DEF AssertOwner, FenceHolds
<1>3. /\ IsOp(d) /\ d.at \in DoTasks /\ SequenceOf(d) /\ PolicyOK /\ FacetOK(d.at)
      /\ d.kind \in {"fetch", "delete"}
  BY <1>1, OneCall DEF FacetInv, Carries
<1>4. SameFacets
  BY <1>1, FacetsSame
<1>5. /\ IsOp(e) /\ e.kind = d.kind /\ e.at = d.at
      /\ d.kind = "fetch" => e.seq = policy.seq /\ e.mode = policy.mode
      /\ d.kind # "fetch" => e.seq = d.seq /\ e.mode = d.mode
  BY <1>3, Zenon DEF IsOp, DoFields
<1>6. AfterFence(d) \in {"register", "start"}
  BY DEF AfterFence
<1> HIDE DEF e, d
<1>7. /\ short.pc = "renewRead" /\ short.kind = e.kind /\ short.at = e.at /\ short.seq = e.seq
      /\ short.mode = e.mode
      /\ long.pc = AfterFence(d) /\ long.kind = e.kind /\ long.at = e.at /\ long.seq = e.seq
      /\ long.mode = e.mode
  BY <1>5 DEF IsOp, DoFields
<1> HIDE DEF short, long
<1>8. CASE Finish(c)
  BY <1>4, <1>8, DoneFresh, SlotMoves DEF Finish, DoneSlot
<1>9. ASSUME pointer, NEW r, r \in {short, long}, Put(c, r) PROVE FacetInv'
  <2>1. /\ r.pc \in {"renewRead", "register", "start"} /\ r.kind = d.kind /\ r.at = d.at
        /\ d.kind = "fetch" => r.seq = policy.seq /\ r.mode = policy.mode
        /\ d.kind # "fetch" => r.seq = d.seq /\ r.mode = d.mode
    BY <1>5, <1>6, <1>7, <1>9
  <2>2. SequenceOf(r)
    BY <1>3, <2>1, SMTT(20) DEF SequenceOf, PolicyOK
  <2>3. r.kind = "fetch" /\ facet[r.at].inst # NoOne => facet[r.at].inst <= r.seq
    BY <1>3, <1>9, <2>1 DEF FacetOK
  <2>4. FacetFor(r)
    BY <2>1, <2>3 DEF FacetFor
  <2>5. SequenceOf(r)'
    BY <1>1, <2>2 DEF SequenceOf
  <2>6. FacetFor(r)'
    BY <1>1, <2>1, <2>3 DEF FacetFor, doFacets
  <2>7. doCall'[c] = r /\ \A x \in DoCalls : x # c => doCall'[x] = doCall[x]
    BY <1>9 DEF Put, LeaseInv, CallsOK
  <2> QED BY <1>4, <2>5, <2>6, <2>7, SequencesMove
<1> QED BY <1>2, <1>8, <1>9

\* The registry write of rememberObject is not what a restart looks at.
LEMMA RegisterSequence ==
  ASSUME LeaseInv, FacetInv, OwnerMoves, NEW c \in DoCalls, RegisterObject(c) PROVE FacetInv'
<1> DEFINE d == doCall[c]
           r == [d EXCEPT !.pc = "assert", !.twice = TRUE]
<1>1. Put(c, r) /\ d.pc = "register" /\ UNCHANGED <<policy, pointer, rowless>>
  BY Zenon DEF RegisterObject, doWorker
<1>2. PICK ok \in BOOLEAN : facet' = [facet EXCEPT ![d.at].known = ok]
  BY Zenon DEF RegisterObject
<1>3. IsOp(d) /\ d.at \in DoTasks
  BY <1>1, OneCall DEF Carries
<1>4. r.pc = "assert" /\ r.seq = d.seq /\ r.mode = d.mode
  BY <1>3 DEF IsOp, DoFields
<1> HIDE DEF r
<1>5. Follows(r, d)
  BY <1>4 DEF Follows
<1> HIDE DEF d
<1>6. facet' = [t \in DoTasks |-> facet'[t]]
  BY <1>2 DEF FacetInv
<1>7. ASSUME NEW t \in DoTasks
      PROVE /\ IsFacet(facet'[t]) /\ facet'[t].inst = facet[t].inst
            /\ facet'[t].row = facet[t].row /\ facet'[t].cached = facet[t].cached
  <2>1. IsFacet(facet[t])
    BY DEF FacetInv, FacetOK
  <2>2. facet'[t] = facet[t] \/ facet'[t] = [facet[t] EXCEPT !.known = ok]
    BY <1>2 DEF FacetInv
  <2> QED BY <2>1, <2>2 DEF IsFacet, FacetFields
<1>8. SameFacets
  BY <1>1, <1>6, <1>7 DEF SameFacets
<1> QED BY <1>1, <1>5, <1>8, SlotMoves DEF d

\* A slot that is done has its place.
LEMMA DoneSequence == ASSUME PolicyOK' PROVE SequenceOf(DoneSlot)' /\ FacetFor(DoneSlot)'
<1>1. DoneSlot.pc = "done" /\ DoneSlot.seq = 0
  BY EmptySlots
<1> QED BY <1>1 DEF SequenceOf, FacetFor, PolicyOK

\* The facet of one task changes.
LEMMA OneFacet ==
  ASSUME LeaseInv, FacetInv, UNCHANGED <<policy, pointer, doOwner>>, NEW a \in DoTasks,
         facet' = [t \in DoTasks |-> facet'[t]], FacetOK(a)',
         \A t \in DoTasks : t # a => facet'[t] = facet[t] /\ (t \in rowless' <=> t \in rowless),
         \A x \in DoCalls :
           \/ doCall'[x] = DoneSlot
           \/ doCall'[x] = doCall[x] /\ (doCall[x].at = a => FacetFor(doCall[x])')
           \/ SequenceOf(doCall[x])' /\ FacetFor(doCall[x])'
  PROVE FacetInv'
<1>1. PolicyOK'
  BY DEF FacetInv, PolicyOK
<1>2. ASSUME NEW t \in DoTasks PROVE FacetOK(t)'
  <2>1. CASE t # a
    BY <2>1 DEF FacetInv, FacetOK
  <2> QED BY <2>1, SMTT(20)
<1>3. ASSUME NEW x \in DoCalls PROVE SequenceOf(doCall[x])' /\ FacetFor(doCall[x])'
  <2>1. CASE doCall'[x] = DoneSlot
    <3>1. SequenceOf(DoneSlot)' /\ FacetFor(DoneSlot)'
      BY <1>1, DoneSequence
    <3>2. PICK e : e = DoneSlot /\ e = doCall'[x]
      BY <2>1, SMTT(20)
    <3>3. SequenceOf(e)' /\ FacetFor(e)'
      BY <3>1, <3>2 DEF SequenceOf, FacetFor, Holds
    <3> QED BY <3>2, <3>3
  <2>2. CASE doCall'[x] = doCall[x] /\ (doCall[x].at = a => FacetFor(doCall[x])')
    <3>1. PICK e : e = doCall[x]
      OBVIOUS
    <3>2. SequenceOf(e) /\ FacetFor(e) /\ Carries(e)
      BY <3>1, OneCall DEF FacetInv
    <3>3. SequenceOf(e)'
      BY <3>2 DEF SequenceOf
    <3>4. e.pc \in {"renewRead", "renewSet", "start", "run"} => e.at \in DoTasks
      BY <3>2, SMTT(30) DEF Carries
    <3>5. e.at # a => FacetFor(e)'
      BY <3>2, <3>4 DEF FacetFor, Holds
    <3>6. e.at = a => FacetFor(e)'
      BY <2>2, <3>1
    <3> QED BY <2>2, <3>1, <3>3, <3>5, <3>6
  <2> QED BY <2>1, <2>2
<1> QED BY <1>1, <1>2, <1>3, Zenon DEF FacetInv

\* A handler starts: the facet is loaded, advanced or restarted for its
\* sequence, or the call is refused.
LEMMA StartSequence ==
  ASSUME LeaseInv, FacetInv, NEW c \in DoCalls, StartHandler(c) PROVE FacetInv'
<1>1. PICK d : d = doCall[c]
  OBVIOUS
<1>2. PICK a : a = d.at
  OBVIOUS
<1> DEFINE f == facet[a]
           existing == Registration(f)
           restart == MustRestart(d, existing)
           g == [f EXCEPT !.row = d.seq, !.cached = d.seq,
                          !.inst = IF restart \/ @ = NoOne THEN d.seq ELSE @]
<1>3. d.pc = "start" /\ d.kind = "fetch" /\ UNCHANGED <<policy, pointer, doOwner>>
  BY <1>1, Zenon DEF StartHandler, doWorker, doRedis
<1>4. /\ IsOp(d) /\ a \in DoTasks /\ SequenceOf(d) /\ FacetFor(d) /\ PolicyOK /\ FacetOK(a)
      /\ IsFacet(f) /\ Holds(d) /\ f.inst \in Sequences0
  BY <1>1, <1>2, <1>3, OneCall, Zenon DEF FacetInv, Carries, CallOK, Admitted, FacetOK
<1>5. CASE existing # NoOne /\ d.seq < existing
  <2>1. Finish(c) /\ facet' = [facet EXCEPT ![a].cached = existing] /\ rowless' = rowless
    BY <1>1, <1>2, <1>5, Zenon DEF StartHandler
  <2>2. /\ facet' = [t \in DoTasks |-> facet'[t]] /\ facet'[a] = [f EXCEPT !.cached = existing]
        /\ \A t \in DoTasks : t # a => facet'[t] = facet[t]
        /\ doCall'[c] = DoneSlot /\ \A x \in DoCalls : x # c => doCall'[x] = doCall[x]
    BY <1>4, <2>1 DEF FacetInv, Finish, Put, DoneSlot, LeaseInv, CallsOK
  <2>3. /\ IsFacet(facet'[a]) /\ facet'[a].inst = f.inst /\ facet'[a].row = f.row
        /\ facet'[a].cached = existing
    BY <1>4, <2>2 DEF IsFacet, FacetFields
  <2>4. FacetOK(a)'
    BY <1>3, <1>4, <1>5, <2>1, <2>3 DEF FacetOK, Registration
  <2>5. ASSUME NEW x \in DoCalls, x # c, doCall[x].at = a PROVE FacetFor(doCall[x])'
    <3>1. FacetFor(doCall[x]) /\ doCall'[x] = doCall[x]
      BY <2>2, <2>5 DEF FacetInv
    <3>2. Registration(facet'[a]) # NoOne
      BY <1>5, <2>3 DEF Registration
    <3> QED BY <1>3, <2>1, <2>3, <2>5, <3>1, <3>2 DEF FacetFor
  <2> QED BY <1>3, <1>4, <2>1, <2>2, <2>4, <2>5, OneFacet, Zenon
<1>6. CASE ~(existing # NoOne /\ d.seq < existing)
  <2>1. PICK r : r = [d EXCEPT !.pc = "run", !.watch = WatchAt(d)]
    OBVIOUS
  <2>2. /\ doCall' = [FinishAll(IF restart THEN Running(a) ELSE {}) EXCEPT ![c] = r]
        /\ facet' = [facet EXCEPT ![a] = g]
        /\ rowless' = rowless \ (IF restart THEN {a} ELSE {})
    BY <1>1, <1>2, <1>6, <2>1, Zenon DEF StartHandler
  <2>3. /\ facet' = [t \in DoTasks |-> facet'[t]] /\ facet'[a] = g
        /\ \A t \in DoTasks : t # a => facet'[t] = facet[t] /\ (t \in rowless' <=> t \in rowless)
    BY <1>4, <2>2 DEF FacetInv
  <2>4. /\ IsFacet(g) /\ g.row = d.seq /\ g.cached = d.seq
        /\ g.inst = IF restart \/ f.inst = NoOne THEN d.seq ELSE f.inst
    BY <1>4, Zenon DEF IsFacet, FacetFields
  <2>5. /\ doCall'[c] = r
        /\ \A x \in DoCalls : x # c =>
             \/ doCall'[x] = DoneSlot
             \/ doCall'[x] = doCall[x] /\ ~(restart /\ x \in Running(a))
    BY <2>2 DEF FinishAll, DoneSlot
  <2>6. r.pc = "run" /\ r.seq = d.seq /\ r.mode = d.mode /\ r.at = a
    BY <1>2, <1>4, <2>1 DEF IsOp, DoFields
  <2>7. g.inst \in Nat /\ d.seq \in Nat /\ g.inst <= d.seq /\ NoOne \notin Nat
    <3>1. f.inst # NoOne /\ existing # NoOne => f.inst <= existing /\ existing \in Nat
      BY <1>4, SMTT(30) DEF FacetOK, Registration, Sequences0
    <3>2. f.inst # NoOne /\ existing = NoOne => f.inst <= d.seq
      BY <1>2, <1>3, <1>4 DEF FacetFor
    <3>3. d.seq \in Nat /\ NoOne \notin Nat
      BY <1>4, DoAssumption, SMTT(20) DEF SequenceOf
    <3> HIDE DEF f, existing, restart, g
    <3> QED BY <1>4, <1>6, <2>4, <3>1, <3>2, <3>3 DEF Sequences0
  <2>8. policy.mode = "restart" /\ a \notin rowless' /\ d.seq = policy.seq => g.inst = d.seq
    <3> SUFFICES ASSUME policy.mode = "restart", a \notin rowless', d.seq = policy.seq,
                        ~restart, f.inst # NoOne
                 PROVE f.inst = d.seq
      BY <2>4
    <3>1. a \notin rowless
      BY <2>2, SMTT(30)
    <3>2. f.row # NoOne /\ f.row \in Nat /\ existing = f.row
      BY <1>4, <3>1, Zenon DEF FacetOK, Registration, Sequences0
    <3>3. d.mode = "restart" /\ d.seq \in Nat
      BY <1>4 DEF SequenceOf
    <3>4. d.seq = f.row
      BY <1>6, <3>2, <3>3 DEF MustRestart
    <3> QED BY <1>4, <3>1, <3>4, Zenon DEF FacetOK
  <2>9. FacetOK(a)'
    <3>1. pointer => d.seq <= policy.seq /\ policy.seq \in Nat
      BY <1>4 DEF SequenceOf, PolicyOK
    <3> HIDE DEF g
    <3> QED BY <1>3, <2>3, <2>4, <2>7, <2>8, <3>1 DEF FacetOK, Sequences0
  <2>10. SequenceOf(r)' /\ FacetFor(r)'
    <3>1. SequenceOf(r)'
      BY <1>3, <1>4, <2>6 DEF SequenceOf
    <3>2. facet'[r.at].inst = g.inst
      BY <2>3, <2>6, ZenonT(30)
    <3> HIDE DEF g
    <3>3. FacetFor(r)'
      BY <1>3, <2>6, <2>7, <2>8, <3>2 DEF FacetFor
    <3> QED BY <3>1, <3>3, SMTT(30)
  <2>11. ASSUME NEW x \in DoCalls, x # c, doCall'[x] = doCall[x], ~(restart /\ x \in Running(a)), doCall[x].at = a
         PROVE FacetFor(doCall[x])'
    <3>1. FacetFor(doCall[x])
      BY DEF FacetInv
    <3>2. Registration(facet'[a]) # NoOne /\ facet'[a].inst = g.inst
      BY <2>3, <2>4, <2>7, SMTT(30) DEF Registration
    <3>3. doCall[x].pc = "run" => ~restart /\ f.inst # NoOne
      BY <2>11, <3>1 DEF Running, FacetFor
    <3>4. doCall[x].pc = "run" => g.inst = f.inst /\ rowless' = rowless
      BY <2>2, <2>4, <3>3
    <3> HIDE DEF g, restart
    <3> QED BY <1>3, <2>11, <3>1, <3>2, <3>4, Zenon DEF FacetFor
  <2> HIDE DEF g, restart
  <2> QED BY <1>3, <1>4, <2>3, <2>5, <2>9, <2>10, <2>11, OneFacet
<1> QED BY <1>5, <1>6

\* Facets that are aborted: by the watchdog, or with their task.
LEMMA AbortSequence ==
  ASSUME LeaseInv, FacetInv, NEW a \in DoTasks, UNCHANGED <<policy, pointer, doOwner>>,
         rowless' = rowless \ {a}, NEW cached \in {NoOne, facet[a].cached}, NEW known,
         facet' = [facet EXCEPT ![a] = [inst |-> NoOne, row |-> facet[a].row,
                                        cached |-> cached, known |-> known]],
         NEW cs, doCall' = FinishAll(cs), Running(a) \subseteq cs
  PROVE FacetInv'
<1>1. /\ facet' = [t \in DoTasks |-> facet'[t]]
      /\ facet'[a] = [inst |-> NoOne, row |-> facet[a].row, cached |-> cached, known |-> known]
      /\ \A t \in DoTasks : t # a => facet'[t] = facet[t] /\ (t \in rowless' <=> t \in rowless)
  BY DEF FacetInv
<1>2. FacetOK(a) /\ NoOne \in Sequences0
  BY DEF FacetInv, Sequences0
<1>3. /\ IsFacet(facet'[a]) /\ facet'[a].inst = NoOne /\ facet'[a].row = facet[a].row
      /\ facet'[a].cached = cached
  BY <1>1 DEF IsFacet, FacetFields
<1>4. FacetOK(a)'
  BY <1>2, <1>3 DEF FacetOK
<1>5. \A x \in DoCalls : \/ doCall'[x] = DoneSlot
                         \/ doCall'[x] = doCall[x] /\ x \notin Running(a)
  BY DEF FinishAll, DoneSlot
<1>6. ASSUME NEW x \in DoCalls, doCall'[x] = doCall[x], x \notin Running(a), doCall[x].at = a
      PROVE FacetFor(doCall[x])'
  BY <1>3, <1>6 DEF FacetFor, Running
<1> QED BY <1>1, <1>4, <1>5, <1>6, OneFacet, Zenon

\* The watchdog.
LEMMA WatchdogSequence ==
  ASSUME LeaseInv, FacetInv, OwnerMoves, NEW c \in DoCalls, Watchdog(c) PROVE FacetInv'
<1> DEFINE d == doCall[c]
           a == d.at
           r == [d EXCEPT !.watch = doOwner.lease - DoGuard]
<1>1. d.pc = "run" /\ UNCHANGED <<policy, pointer, doOwner>>
  BY Zenon DEF Watchdog, doWorker, doRedis
<1>2. IsOp(d) /\ a \in DoTasks
  BY <1>1, OneCall DEF Carries
<1>3. \/ Put(c, r) /\ UNCHANGED doFacets
      \/ /\ doCall' = FinishAll(Running(a)) /\ facet' = [facet EXCEPT ![a].inst = NoOne]
         /\ rowless' = rowless \ {a}
  BY Zenon DEF Watchdog
<1>4. CASE Put(c, r) /\ UNCHANGED doFacets
  <2>1. r.pc = "run" /\ r.seq = d.seq /\ r.mode = d.mode /\ r.at = d.at
    BY <1>1, <1>2 DEF IsOp, DoFields
  <2>2. Put(c, r) /\ SameFacets
    BY <1>1, <1>4, FacetsSame
  <2> HIDE DEF r, d
  <2>3. Follows(r, d)
    BY <1>1, <2>1 DEF Follows
  <2> QED BY <2>2, <2>3, SlotMoves DEF d
<1>5. CASE /\ doCall' = FinishAll(Running(a)) /\ facet' = [facet EXCEPT ![a].inst = NoOne]
           /\ rowless' = rowless \ {a}
  <2>1. IsFacet(facet[a]) /\ facet = [t \in DoTasks |-> facet[t]]
    BY <1>2 DEF FacetInv, FacetOK
  <2>2. [facet[a] EXCEPT !.inst = NoOne]
          = [inst |-> NoOne, row |-> facet[a].row, cached |-> facet[a].cached, known |-> facet[a].known]
    BY <2>1 DEF IsFacet, FacetFields
  <2>3. facet' = [facet EXCEPT ![a] = [facet[a] EXCEPT !.inst = NoOne]]
    BY <1>5
  <2> HIDE DEF a
  <2>4. Running(a) \subseteq Running(a) /\ facet[a].cached \in {NoOne, facet[a].cached}
    OBVIOUS
  <2> QED BY <1>1, <1>2, <1>5, <2>2, <2>3, <2>4, AbortSequence, Zenon
<1> QED BY <1>3, <1>4, <1>5

\* Storage is deleted: the record names the task that does it, so no other task
\* has a handler or an admission.
LEMMA DeleteSequence ==
  ASSUME LeaseInv, FacetInv, NEW c \in DoCalls, DeleteStorage(c) PROVE FacetInv'
<1>1. PICK a : a = doCall[c].at
  OBVIOUS
<1> DEFINE none == [inst |-> NoOne, row |-> NoOne, cached |-> NoOne, known |-> FALSE]
<1>2. /\ doCall[c].pc = "start" /\ UNCHANGED <<policy, pointer, doOwner>>
      /\ doCall' = FinishAll({c} \cup Running(a))
      /\ facet' = [t \in DoTasks |-> IF t = a THEN none ELSE [facet[t] EXCEPT !.row = NoOne]]
      /\ rowless' = {t \in DoTasks \ {a} : facet[t].inst # NoOne}
  BY <1>1, Zenon DEF DeleteStorage, doWorker, doRedis
<1>3. a \in DoTasks /\ doOwner.task = a
  BY <1>1, <1>2, LeaseLasts, OneCall DEF Carries
<1>4. PolicyOK' /\ NoOne \in Sequences0
  BY <1>2 DEF FacetInv, PolicyOK, Sequences0
<1>5. ASSUME NEW t \in DoTasks PROVE FacetOK(t)'
  <2>1. CASE t = a
    <3>1. facet'[t] = none
      BY <1>2, <2>1
    <3>2. IsFacet(facet'[t]) /\ facet'[t].inst = NoOne /\ facet'[t].row = NoOne /\ facet'[t].cached = NoOne
      BY <3>1 DEF IsFacet, FacetFields
    <3> QED BY <1>4, <3>2 DEF FacetOK
  <2>2. CASE t # a
    <3>1. FacetOK(t) /\ IsFacet(facet[t])
      BY DEF FacetInv, FacetOK
    <3>2. /\ IsFacet(facet'[t]) /\ facet'[t].inst = facet[t].inst /\ facet'[t].row = NoOne
          /\ facet'[t].cached = facet[t].cached
      BY <1>2, <2>2, <3>1 DEF IsFacet, FacetFields
    <3>3. facet[t].inst # NoOne => t \in rowless'
      BY <1>2, <2>2, SMTT(20)
    <3> QED BY <1>2, <1>4, <3>1, <3>2, <3>3 DEF FacetOK
  <2> QED BY <2>1, <2>2
<1>6. ASSUME NEW x \in DoCalls PROVE SequenceOf(doCall[x])' /\ FacetFor(doCall[x])'
  <2>1. doCall'[x] = DoneSlot \/ (doCall'[x] = doCall[x] /\ x \notin Running(a))
    BY <1>2 DEF FinishAll, DoneSlot
  <2>2. CASE doCall'[x] = DoneSlot
    <3>1. PICK e : e = DoneSlot /\ e = doCall'[x]
      BY <2>2
    <3>2. SequenceOf(e)' /\ FacetFor(e)'
      BY <1>4, <3>1, DoneSequence DEF SequenceOf, FacetFor, Holds
    <3> QED BY <3>1, <3>2
  <2>3. CASE doCall'[x] = doCall[x] /\ x \notin Running(a)
    <3>1. PICK e : e = doCall[x]
      OBVIOUS
    <3>2. SequenceOf(e) /\ Carries(e)
      BY <3>1, OneCall DEF FacetInv
    <3>3. SequenceOf(e)'
      BY <1>2, <3>2 DEF SequenceOf
    <3>4. e.pc = "run" => FALSE
      BY <1>3, <2>3, <3>1, LeaseLasts DEF Running
    <3>5. e.pc \in {"renewRead", "renewSet", "start"} /\ Holds(e)' => e.at = a
      BY <1>2, <1>3, <3>2 DEF Carries, Holds, LocalPhases, InFlightPhases
    <3>6. facet'[a].inst = NoOne
      BY <1>2, <1>3
    <3>7. FacetFor(e)'
      BY <3>4, <3>5, <3>6 DEF FacetFor
    <3> QED BY <2>3, <3>1, <3>3, <3>7
  <2> QED BY <2>1, <2>2, <2>3
<1>7. facet' = [t \in DoTasks |-> facet'[t]]
  BY <1>2
<1> QED BY <1>4, <1>5, <1>6, <1>7, Zenon DEF FacetInv

\* A host actor is rebuilt while nothing is in flight, or its task crashes.
LEMMA LossSequence ==
  ASSUME LeaseInv, FacetInv, NEW a \in DoTasks, EvictActor(a) \/ CrashTask(a) PROVE FacetInv'
<1> DEFINE f == facet[a]
<1>1. IsFacet(f) /\ facet = [t \in DoTasks |-> facet[t]] /\ FacetOK(a)
  BY DEF FacetInv, FacetOK
<1>2. CASE EvictActor(a)
  <2> DEFINE g == [f EXCEPT !.cached = NoOne, !.known = FALSE]
  <2>1. InFlight(a) = {} /\ UNCHANGED <<policy, pointer, doOwner, rowless, doCall>>
    BY <1>2, Zenon DEF EvictActor, doWorker, doRedis
  <2>2. facet' = [facet EXCEPT ![a] = g]
    BY <1>1, <1>2, Zenon DEF EvictActor
  <2>3. /\ facet' = [t \in DoTasks |-> facet'[t]] /\ facet'[a] = g
        /\ \A t \in DoTasks : t # a => facet'[t] = facet[t]
    BY <1>1, <2>2
  <2>4. IsFacet(g) /\ g.inst = f.inst /\ g.row = f.row /\ g.cached = NoOne
    BY <1>1, Zenon DEF IsFacet, FacetFields
  <2>5. FacetOK(a)'
    <3>1. NoOne \in Sequences0
      BY SMTT(20) DEF Sequences0
    <3> HIDE DEF g
    <3> QED BY <1>1, <2>1, <2>3, <2>4, <3>1 DEF FacetOK
  <2>6. ASSUME NEW x \in DoCalls, doCall[x].at = a PROVE FacetFor(doCall[x])'
    <3>1. Carries(doCall[x]) /\ x \notin InFlight(a)
      BY <2>1, OneCall
    <3>2. doCall[x].pc # "run" /\ (doCall[x].pc \in {"renewRead", "renewSet", "start"} => doCall[x].kind # "fetch")
      BY <2>6, <3>1 DEF InFlight, InFlightPhases, Carries
    <3> QED BY <2>1, <3>2 DEF FacetFor
  <2> HIDE DEF g
  <2> QED BY <2>1, <2>3, <2>5, <2>6, OneFacet
<1>3. CASE CrashTask(a)
  <2> DEFINE cs == {c \in DoCalls : doCall[c].at = a}
  <2>1. /\ UNCHANGED <<policy, pointer, doOwner>> /\ rowless' = rowless \ {a} /\ doCall' = FinishAll(cs)
    BY <1>3, Zenon DEF CrashTask, doWorker, doRedis
  <2>2. PICK no : facet' = [facet EXCEPT ![a] = [f EXCEPT !.inst = NoOne, !.cached = NoOne, !.known = no]]
    BY <1>1, <1>3, Zenon DEF CrashTask
  <2>3. [f EXCEPT !.inst = NoOne, !.cached = NoOne, !.known = no]
          = [inst |-> NoOne, row |-> facet[a].row, cached |-> NoOne, known |-> no]
    <3> DEFINE g == [f EXCEPT !.inst = NoOne, !.cached = NoOne, !.known = no]
    <3>1. IsFacet(g) /\ g.inst = NoOne /\ g.row = facet[a].row /\ g.cached = NoOne /\ g.known = no
      BY <1>1, Zenon DEF IsFacet, FacetFields
    <3> HIDE DEF g
    <3>2. g = [inst |-> NoOne, row |-> facet[a].row, cached |-> NoOne, known |-> no]
      BY <3>1 DEF IsFacet, FacetFields
    <3> QED BY <3>2 DEF g
  <2>4. Running(a) \subseteq cs /\ NoOne \in {NoOne, facet[a].cached}
    BY DEF Running
  <2> HIDE DEF cs, f
  <2> QED BY <2>1, <2>2, <2>3, <2>4, AbortSequence, Zenon
<1> QED BY <1>2, <1>3

\* Promotions take a sequence above every facet and call; a committed delete
\* takes policy and pointer away together.
LEMMA PolicySequence ==
  ASSUME LeaseInv, FacetInv,
         \/ \E mode \in {"preserve", "restart"} : PromotePolicy(mode)
         \/ \E commit \in BOOLEAN : UnlockWorker(commit)
  PROVE FacetInv'
<1>1. UNCHANGED <<doOwner, doCall, facet, rowless>>
  BY Zenon DEF PromotePolicy, UnlockWorker, doRedis, doFacets
<1>2. PolicyOK /\ (deleteLock # "none" => pointer)
  BY DEF FacetInv, LeaseInv, RegistryOK
<1>3. PolicyOK'
  <2>1. ASSUME NEW mode \in {"preserve", "restart"}, PromotePolicy(mode) PROVE PolicyOK'
    BY <1>2, <2>1 DEF PromotePolicy, PolicyOK
  <2>2. ASSUME NEW commit \in BOOLEAN, UnlockWorker(commit) PROVE PolicyOK'
    BY <1>2, <2>2, Zenon DEF UnlockWorker, PolicyOK
  <2> QED BY <2>1, <2>2
<1>4. \/ /\ pointer /\ policy'.seq \in Nat /\ policy.seq <= policy'.seq
         /\ policy'.mode = "restart" => policy'.seq > policy.seq
      \/ UNCHANGED <<pointer, policy>>
      \/ ~pointer' /\ policy'.mode # "restart"
  <2>1. ASSUME NEW mode \in {"preserve", "restart"}, PromotePolicy(mode)
        PROVE /\ pointer /\ policy'.seq \in Nat /\ policy.seq <= policy'.seq
              /\ policy'.mode = "restart" => policy'.seq > policy.seq
    BY <1>2, <2>1 DEF PromotePolicy, PolicyOK
  <2>2. ASSUME NEW commit \in BOOLEAN, UnlockWorker(commit)
        PROVE UNCHANGED <<pointer, policy>> \/ (~pointer' /\ policy'.mode # "restart")
    <3>1. pointer /\ pointer \in BOOLEAN /\ pointer' = ~commit
          /\ policy' = IF commit THEN [policy EXCEPT !.mode = "preserve", !.seq = 0] ELSE policy
      BY <1>2, <2>2 DEF UnlockWorker, LeaseInv, RegistryOK
    <3>2. [policy EXCEPT !.mode = "preserve", !.seq = 0].mode = "preserve"
      BY <1>2 DEF PolicyOK
    <3> QED BY <3>1, <3>2, Zenon
  <2> QED BY <2>1, <2>2
<1>5. ASSUME NEW t \in DoTasks PROVE FacetOK(t)'
  <2>1. FacetOK(t) /\ NoOne \notin Nat
    BY DoAssumption DEF FacetInv
  <2> QED BY <1>1, <1>2, <1>4, <2>1 DEF FacetOK, PolicyOK, Sequences0
<1>6. ASSUME NEW x \in DoCalls PROVE SequenceOf(doCall[x])' /\ FacetFor(doCall[x])'
  <2>1. SequenceOf(doCall[x]) /\ FacetFor(doCall[x]) /\ doCall'[x] = doCall[x]
    BY <1>1 DEF FacetInv
  <2>2. SequenceOf(doCall[x])'
    BY <1>2, <1>4, <2>1, SMTT(20) DEF SequenceOf, PolicyOK
  <2>3. FacetFor(doCall[x])'
    BY <1>1, <1>2, <1>4, <2>1 DEF FacetFor, Holds, SequenceOf, PolicyOK
  <2> QED BY <2>2, <2>3
<1>7. facet' = [t \in DoTasks |-> facet'[t]]
  BY <1>1 DEF FacetInv
<1> QED BY <1>3, <1>5, <1>6, <1>7, Zenon DEF FacetInv

\* Every step keeps the invariant of the facets.
LEMMA FacetNext == LeaseInv /\ FacetInv /\ [DoNext]_doVars => FacetInv'
<1> SUFFICES ASSUME LeaseInv, FacetInv, [DoNext]_doVars PROVE FacetInv'
  OBVIOUS
<1>1. ASSUME UNCHANGED <<policy, pointer, doFacets, doCall>>, OwnerMoves PROVE FacetInv'
  BY <1>1, FacetsSame, SequencesMove
<1>2. CASE UNCHANGED doVars
  BY <1>1, <1>2 DEF doVars, doFacets, OwnerMoves
<1>3. CASE DoNext
  <2>1. OwnerMoves
    BY <1>3, RegistrySteps
  <2>2. ASSUME NEW c \in DoCalls, Ahead(c), UNCHANGED <<policy, pointer, doFacets>> PROVE FacetInv'
    BY <2>1, <2>2, FacetsSame, SlotMoves DEF Ahead
  <2>3. ASSUME NEW c \in DoCalls,
               \/ \E t \in DoTasks, version \in 1 .. policy.version, hinted \in BOOLEAN :
                    Arrive(c, t, version, hinted)
               \/ DispatchLocalFence(c) \/ ResolveOwner(c) \/ ClaimRead(c) \/ ClaimExec(c)
               \/ ForwardToOwner(c) \/ EnterActor(c)
        PROVE FacetInv'
    BY <2>2, <2>3, ResolverAhead
  <2>4. ASSUME NEW c \in DoCalls,
               \/ RenewRead(c) \/ RenewSet(c) \/ HandlerEnds(c)
               \/ DrainWait(c) \/ ReleaseRead(c) \/ ReleaseDelete(c)
               \/ \E t \in DoTasks : StartRenew(c, t) \/ StartDrain(c, t)
        PROVE FacetInv'
    BY <2>2, <2>4, LeaseAhead
  <2>5. ASSUME NEW c \in DoCalls,
               \/ AssertOwner(c) \/ RegisterObject(c) \/ StartHandler(c) \/ Watchdog(c) \/ DeleteStorage(c)
        PROVE FacetInv'
    BY <2>1, <2>5, AssertSequence, RegisterSequence, StartSequence, WatchdogSequence, DeleteSequence, Zenon
  <2>6. ASSUME \/ \E mode \in {"preserve", "restart"} : PromotePolicy(mode)
               \/ \E commit \in BOOLEAN : UnlockWorker(commit)
        PROVE FacetInv'
    BY <2>6, PolicySequence
  <2>7. ASSUME (\E kind \in {"whole", "version"} : LockWorker(kind)) \/ ExpireOwner \/ DoTick PROVE FacetInv'
    <3>1. UNCHANGED <<policy, pointer, doFacets, doCall>>
      BY <2>7, Zenon DEF LockWorker, ExpireOwner, DoTick, doWorker
    <3> QED BY <1>1, <2>1, <3>1
  <2> QED BY <1>3, <2>3, <2>4, <2>5, <2>6, <2>7, LossSequence, Zenon DEF DoNext
<1> QED BY <1>2, <1>3

\* It holds at the start.
LEMMA FacetInit == DoInit => FacetInv
<1> SUFFICES ASSUME DoInit PROVE FacetInv
  OBVIOUS
<1>1. PolicyOK
  BY DEF DoInit, PolicyOK
<1>2. /\ facet = [t \in DoTasks |-> [inst |-> NoOne, row |-> NoOne, cached |-> NoOne, known |-> FALSE]]
      /\ doCall = [c \in DoCalls |-> FreeSlot]
  BY DEF DoInit
<1>3. ASSUME NEW t \in DoTasks PROVE FacetOK(t)
  BY <1>2 DEF FacetOK, IsFacet, FacetFields, Sequences0
<1>4. ASSUME NEW c \in DoCalls PROVE SequenceOf(doCall[c]) /\ FacetFor(doCall[c])
  <2>1. doCall[c].seq = 0 /\ doCall[c].pc = "free"
    BY <1>2, EmptySlots
  <2> QED BY <1>1, <2>1 DEF SequenceOf, FacetFor, PolicyOK
<1> QED BY <1>1, <1>2, <1>3, <1>4 DEF FacetInv

\* For any tasks, calls, versions and times: a tenant handler runs only under
\* the live lease that admitted it, in a facet of its restart sequence, and not
\* past the delete of its Worker.
THEOREM HandlersAreFenced == DoSpec => []HandlersFenced
<1>1. LeaseInv /\ FacetInv => RestartSupersedes
  <2> SUFFICES ASSUME FacetInv, LeaseInv, NEW c \in DoCalls, doCall[c].pc = "run"
               PROVE /\ facet[doCall[c].at].inst # NoOne
                     /\ doCall[c].seq >= facet[doCall[c].at].inst
                     /\ doCall[c].mode = "restart" /\ policy.mode = "restart" /\ policy.seq = doCall[c].seq
                        /\ doCall[c].at \notin rowless => doCall[c].seq = facet[doCall[c].at].inst
    BY DEF RestartSupersedes
  <2> QED BY DEF FacetInv, FacetFor
<1>2. DoSpec => [](LeaseInv /\ FacetInv)
  BY LeaseInit, LeaseNext, FacetInit, FacetNext, PTL DEF DoSpec
<1>3. RunsUnderLease /\ RestartSupersedes /\ DeletedWorkerQuiet => HandlersFenced
  BY DEF HandlersFenced
<1> QED BY <1>1, <1>2, <1>3, HandlersUnderLease, DeletedWorkersQuiet, PTL

==============================================================================
