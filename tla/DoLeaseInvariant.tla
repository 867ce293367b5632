--------------------------- MODULE DoLeaseInvariant ---------------------------
(***************************************************************************)
(* The inductive invariant of the ownership of a Durable Object shard: the *)
(* registry, the tasks' entries and the calls in flight, and the proofs    *)
(* that the steps of a call keep it.  DoOwnershipProofs goes on from here. *)
(***************************************************************************)
EXTENDS DoOwnership, TLAPS

----------------------------------------------------------------------------
(* The inductive invariant: the registry and the calls in flight.          *)

Fences == [task : DoTasks, gen : Nat]
Owners == [task : DoTasks, gen : Nat, lease : Nat]

DoFields ==
  {"pc", "kind", "at", "hop", "version", "mode", "seq", "fence", "seen", "mine", "readAt",
   "since", "watch", "tries", "twice"}
IsOp(d) == DOMAIN d = DoFields /\ d = [x \in DoFields |-> d[x]]

RenewPhases == {"renewRead", "renewSet"}
ReleasePhases == {"release", "releaseDel"}
LocalPhases == {"queued"} \cup InFlightPhases \cup ReleasePhases

\* A dispatch or a delete inside the host actor, and a drain past its wait.
Busy(d) == d.kind \in {"fetch", "delete"} /\ d.pc \in InFlightPhases
Releasing(d) == d.pc \in ReleasePhases

\* The owner record is the one whose fence the call carries.
Holds(d) == doOwner # NoOne /\ doOwner.task = d.fence.task /\ doOwner.gen = d.fence.gen

\* The whole Worker is being deleted, or was.
Deleted == deleteLock = "whole" \/ ~pointer
DeletedBy == lockedAt + DoCheck + DoTTL

\* The fence of a call, and what kinds of call a phase is for.
Carries(d) ==
  /\ d.pc \notin {"free", "done"} => d.at \in DoTasks
  /\ d.fence \in Fences \cup {NoOne}
  /\ d.fence # NoOne => d.fence.gen <= doCounter
  /\ d.pc = "forward" => d.fence # NoOne
  /\ d.pc \in LocalPhases => d.fence # NoOne /\ d.fence.task = d.at
  /\ d.pc \in {"arrived", "claim", "claimExec", "forward", "queued", "assert", "register", "start", "run"}
       => d.kind \in {"fetch", "delete"}
  /\ d.pc \in RenewPhases => d.kind \in {"fetch", "delete", "renew"}
  /\ d.pc \in {"drainWait"} \cup ReleasePhases => doDraining[d.at]

\* A claim is staged on a snapshot: it prolongs the record of this task, or
\* replaces none or a lapsed one with a generation above the counter.  A
\* release is staged on a record of this task.
Staged(d) ==
  /\ d.pc = "claimExec" =>
       /\ d.mine \in Owners /\ d.mine.task = d.at /\ d.mine.lease <= doNow + DoTTL
       /\ \/ /\ d.seen.owner \in Owners
             /\ d.seen.owner.task = d.at /\ d.seen.owner.gen = d.mine.gen
             /\ d.seen.owner.lease <= d.mine.lease
          \/ /\ d.seen.owner \in Owners \cup {NoOne}
             /\ d.seen.owner # NoOne => d.seen.owner.lease <= doNow
             /\ d.mine.gen > d.seen.counter
  /\ d.pc = "releaseDel" => d.seen \in Owners /\ d.seen.task = d.at

\* A renewal, and the check it belongs to.
Renewing(d) ==
  /\ d.pc \in RenewPhases /\ d.kind # "renew" =>
       /\ d.since \in Nat /\ d.since <= doNow /\ doNow <= d.since + DoCheck
       /\ Deleted => d.since <= lockedAt
  /\ d.pc = "renewSet" =>
       /\ d.readAt \in Nat /\ d.readAt <= doNow /\ doNow <= d.readAt + DoDelay
       /\ d.seen \in Owners /\ d.seen.task = d.fence.task /\ d.seen.gen = d.fence.gen
       /\ d.seen.lease <= d.readAt + DoTTL
       /\ d.mine = [task |-> d.at, gen |-> d.seen.gen, lease |-> d.readAt + DoTTL]

\* A lease that was read stands behind the record until its handler starts; a
\* handler's timer, its lag included, ends before the lease.
Admitted(d) ==
  /\ d.pc \in {"start", "run"} => Holds(d)
  /\ d.pc = "start" =>
       /\ d.readAt \in Nat /\ d.readAt <= doNow /\ doNow <= d.readAt + DoDelay
       /\ d.mine \in Owners /\ d.readAt + DoGuard <= d.mine.lease /\ d.mine.lease <= doOwner.lease
       /\ Deleted => d.mine.lease <= DeletedBy
  /\ d.pc = "run" =>
       /\ d.watch \in Nat /\ doNow <= d.watch + DoLag /\ d.watch + DoLag < doOwner.lease
       /\ Deleted => d.watch + DoLag < DeletedBy

CallOK(d) == IsOp(d) /\ Carries(d) /\ Staged(d) /\ Renewing(d) /\ Admitted(d)

RegistryOK ==
  /\ doNow \in Nat /\ doCounter \in Nat /\ lockedAt \in Nat /\ lockedAt <= doNow
  /\ pointer \in BOOLEAN /\ (deleteLock # "none" => pointer)
  /\ doOwner \in Owners \cup {NoOne}
  /\ doOwner # NoOne =>
       1 <= doOwner.gen /\ doOwner.gen <= doCounter /\ doOwner.lease <= doNow + DoTTL

HeldOK ==
  /\ held \in [DoTasks -> Owners \cup {NoOne}]
  /\ \A t \in DoTasks : held[t] # NoOne => held[t].task = t /\ held[t].gen <= doCounter

\* A drain that goes on to release found no dispatch, and none enters after it.
DrainOK ==
  /\ doDraining \in [DoTasks -> BOOLEAN]
  /\ \A c \in DoCalls : Releasing(doCall[c]) =>
       \A x \in DoCalls : doCall[x].at = doCall[c].at => ~Busy(doCall[x])

CallsOK == doCall = [c \in DoCalls |-> doCall[c]] /\ \A c \in DoCalls : CallOK(doCall[c])

LeaseInv == RegistryOK /\ HeldOK /\ DrainOK /\ CallsOK

----------------------------------------------------------------------------
(* Steps that leave the registry alone.                                    *)

DoneSlot == [FreeSlot EXCEPT !.pc = "done"]

\* What the invariant of a call looks at.
doFixed == <<doNow, doOwner, doCounter, doDraining, pointer, deleteLock, lockedAt>>

\* A slot that was never used, or is done, carries nothing.
LEMMA EmptySlots ==
  /\ CallOK(FreeSlot) /\ FreeSlot.pc = "free" /\ ~Busy(FreeSlot) /\ ~Releasing(FreeSlot)
  /\ CallOK(DoneSlot) /\ DoneSlot.pc = "done" /\ DoneSlot.seq = 0 /\ ~Busy(DoneSlot)
  /\ ~Releasing(DoneSlot) /\ FreeSlot.seq = 0 /\ IsOp(DoneSlot) /\ IsOp(FreeSlot)
<1>1. /\ IsOp(DoneSlot) /\ DoneSlot.pc = "done" /\ DoneSlot.fence = NoOne /\ DoneSlot.seq = 0
  BY Zenon DEF IsOp, DoFields, DoneSlot, FreeSlot
<1>2. IsOp(FreeSlot) /\ FreeSlot.pc = "free" /\ FreeSlot.fence = NoOne /\ FreeSlot.seq = 0
  BY DEF IsOp, DoFields, FreeSlot
<1>3. ASSUME NEW d, IsOp(d), d.pc \in {"free", "done"}, d.fence = NoOne
      PROVE CallOK(d) /\ ~Busy(d) /\ ~Releasing(d)
  BY <1>3 DEF CallOK, Carries, Staged, Renewing, Admitted, LocalPhases, InFlightPhases,
              ReleasePhases, RenewPhases, Busy, Releasing
<1> QED BY <1>1, <1>2, <1>3

\* A phase without a staged record needs its fence only.
LEMMA PlainPhase ==
  ASSUME NEW d, IsOp(d), Carries(d),
         d.pc \in {"arrived", "claim", "forward", "queued", "assert", "register", "drainWait",
                   "release"}
  PROVE CallOK(d)
BY DEF CallOK, Staged, Renewing, Admitted, RenewPhases

\* Calls end, and one goes to another phase.
LEMMA CallsMove ==
  ASSUME LeaseInv, NEW c \in DoCalls, UNCHANGED <<doNow, doOwner, doCounter, pointer, deleteLock, lockedAt>>,
         doCall' = [x \in DoCalls |-> doCall'[x]],
         \A x \in DoCalls : x # c => doCall'[x] \in {doCall[x], DoneSlot},
         CallOK(doCall[c])', HeldOK',
         doDraining' \in [DoTasks -> BOOLEAN], \A t \in DoTasks : doDraining[t] => doDraining'[t],
         Busy(doCall'[c]) => \/ Busy(doCall[c]) /\ doCall'[c].at = doCall[c].at
                             \/ ~doDraining[doCall'[c].at],
         Releasing(doCall'[c]) =>
           \/ Releasing(doCall[c]) /\ doCall'[c].at = doCall[c].at
           \/ \A x \in DoCalls : doCall[x].at = doCall'[c].at => ~Busy(doCall[x])
  PROVE LeaseInv'
<1>1. RegistryOK'
  BY DEF LeaseInv, RegistryOK
<1>2. ASSUME NEW x \in DoCalls PROVE CallOK(doCall[x])'
  <2>1. CASE x = c
    BY <2>1, SMTT(30)
  <2>2. CASE x # c /\ doCall'[x] = doCall[x]
    <3>1. CallOK(doCall[x])
      BY DEF LeaseInv, CallsOK
    <3> QED BY <2>2, <3>1 DEF CallOK, Carries, Staged, Renewing, Admitted, Holds, Deleted, DeletedBy,
                              ReleasePhases
  <2>3. CASE x # c /\ doCall'[x] = DoneSlot
    <3>1. CallOK(DoneSlot) /\ DoneSlot.pc = "done"
      BY EmptySlots
    <3> QED BY <2>3, <3>1 DEF CallOK, Carries, Staged, Renewing, Admitted, Holds, Deleted, DeletedBy,
                              ReleasePhases
  <2> QED BY <2>1, <2>2, <2>3
<1>3. ASSUME NEW y \in DoCalls, Releasing(doCall'[y])
      PROVE \A x \in DoCalls : doCall'[x].at = doCall'[y].at => ~Busy(doCall'[x])
  <2>1. \A x \in DoCalls \ {c} : Busy(doCall'[x]) => doCall'[x] = doCall[x]
    BY EmptySlots
  <2>2. \A x \in DoCalls : Busy(doCall'[x]) =>
          \/ Busy(doCall[x]) /\ doCall'[x].at = doCall[x].at
          \/ ~doDraining[doCall'[x].at]
    BY <2>1
  <2>3. CASE Releasing(doCall[y]) /\ doCall'[y].at = doCall[y].at
    <3>1. /\ doDraining[doCall[y].at] /\ doCall[y].at \in DoTasks
          /\ \A x \in DoCalls : doCall[x].at = doCall[y].at => ~Busy(doCall[x])
      BY <2>3 DEF LeaseInv, DrainOK, CallsOK, CallOK, Carries, Releasing, ReleasePhases
    <3> QED BY <2>2, <2>3, <3>1
  <2>4. CASE y = c /\ ~(Releasing(doCall[y]) /\ doCall'[y].at = doCall[y].at)
    <3>1. \A x \in DoCalls : doCall[x].at = doCall'[y].at => ~Busy(doCall[x])
      BY <1>3, <2>4
    <3>2. ~Busy(doCall'[y])
      BY <1>3 DEF Busy, Releasing, InFlightPhases, ReleasePhases
    <3> QED BY <2>1, <2>4, <3>1, <3>2
  <2>5. y # c => doCall'[y] = doCall[y]
    BY <1>3, EmptySlots
  <2> QED BY <1>3, <2>3, <2>4, <2>5
<1> QED BY <1>1, <1>2, <1>3, Zenon DEF LeaseInv, CallsOK, DrainOK

\* One call goes to another phase.
LEMMA CallMoves ==
  ASSUME LeaseInv, NEW c \in DoCalls, NEW r, Put(c, r), UNCHANGED doFixed, CallOK(r), HeldOK',
         Busy(r) => (Busy(doCall[c]) /\ r.at = doCall[c].at) \/ ~doDraining[r.at],
         Releasing(r) =>
           \/ Releasing(doCall[c]) /\ r.at = doCall[c].at
           \/ \A x \in DoCalls : doCall[x].at = r.at => ~Busy(doCall[x])
  PROVE LeaseInv'
<1>1. /\ doCall' = [x \in DoCalls |-> doCall'[x]] /\ doCall'[c] = r
      /\ \A x \in DoCalls : x # c => doCall'[x] = doCall[x]
  BY DEF Put, LeaseInv, CallsOK
<1>2. CallOK(doCall[c])'
  BY <1>1 DEF CallOK, Carries, Staged, Renewing, Admitted, Holds, Deleted, DeletedBy, doFixed
<1>3. doDraining' = doDraining /\ doDraining \in [DoTasks -> BOOLEAN]
  BY DEF doFixed, LeaseInv, DrainOK
<1> QED BY <1>1, <1>2, <1>3, CallsMove DEF doFixed

\* A call ends.
LEMMA CallEnds ==
  ASSUME LeaseInv, NEW c \in DoCalls, Finish(c), UNCHANGED doFixed, HeldOK'
  PROVE LeaseInv'
BY CallMoves, EmptySlots DEF Finish, DoneSlot

\* A task's entry goes, or becomes a record of its own.
LEMMA HeldMoves ==
  ASSUME LeaseInv, NEW t \in DoTasks, NEW rec \in Owners \cup {NoOne}, Remember(t, rec),
         doCounter' \in Nat, doCounter <= doCounter',
         rec # NoOne => rec.task = t /\ rec.gen <= doCounter'
  PROVE HeldOK'
<1>1. /\ held \in [DoTasks -> Owners \cup {NoOne}] /\ doCounter \in Nat
      /\ \A u \in DoTasks : held[u] # NoOne => held[u].task = u /\ held[u].gen <= doCounter
  BY DEF LeaseInv, HeldOK, RegistryOK
<1>2. /\ held' \in [DoTasks -> Owners \cup {NoOne}]
      /\ \A u \in DoTasks : held'[u] = IF u = t THEN rec ELSE held[u]
  BY <1>1 DEF Remember
<1>3. ASSUME NEW u \in DoTasks, held'[u] # NoOne PROVE held'[u].task = u /\ held'[u].gen <= doCounter'
  <2>1. CASE u = t
    BY <1>2, <1>3, <2>1
  <2>2. CASE u # t
    <3>1. held[u] \in Owners /\ held[u].task = u /\ held[u].gen <= doCounter /\ held'[u] = held[u]
      BY <1>1, <1>2, <1>3, <2>2
    <3>2. held[u].gen \in Nat
      BY <3>1 DEF Owners
    <3> QED BY <1>1, <3>1, <3>2
  <2> QED BY <2>1, <2>2
<1> QED BY <1>2, <1>3 DEF HeldOK

\* What the invariant says of one call.
LEMMA OneCall ==
  ASSUME LeaseInv, NEW c \in DoCalls
  PROVE /\ CallOK(doCall[c]) /\ IsOp(doCall[c]) /\ Carries(doCall[c]) /\ HeldOK /\ RegistryOK
        /\ doCounter \in Nat /\ doNow \in Nat /\ doOwner \in Owners \cup {NoOne}
        /\ DrainOK
BY DEF LeaseInv, CallsOK, CallOK, RegistryOK

\* The fence of a record.
LEMMA FenceFacts ==
  ASSUME NEW rec \in Owners
  PROVE /\ FenceOf(rec) \in Fences /\ FenceOf(rec) # NoOne /\ rec # NoOne
        /\ FenceOf(rec).task = rec.task /\ FenceOf(rec).gen = rec.gen
        /\ rec.task \in DoTasks /\ rec.gen \in Nat /\ rec.lease \in Nat
BY DoAssumption DEF FenceOf, Owners, Fences

\* Entries of ownedScopes that a step leaves alone.
LEMMA HeldStays == ASSUME LeaseInv, UNCHANGED <<held, doCounter>> PROVE HeldOK'
BY DEF LeaseInv, HeldOK

\* An entry that a task forgets.
LEMMA HeldGoes ==
  ASSUME LeaseInv, NEW t \in DoTasks, Forget(t), doCounter' = doCounter PROVE HeldOK'
<1>1. doCounter \in Nat /\ NoOne \in Owners \cup {NoOne}
  BY DEF LeaseInv, RegistryOK
<1> QED BY <1>1, HeldMoves DEF Forget

\* A call is sent to the owner that was found, here or elsewhere, or refused.
LEMMA Routed ==
  ASSUME NEW c, NEW d, IsOp(d), d.at \in DoTasks, d.kind \in {"fetch", "delete"},
         NEW rec \in Owners, Route(c, d, rec)
  PROVE \E r : /\ Put(c, r) /\ IsOp(r)
               /\ \/ r = DoneSlot
                  \/ /\ r.pc \in {"queued", "forward"} /\ r.at = d.at /\ r.kind = d.kind
                     /\ r.seq = d.seq /\ r.mode = d.mode
                     /\ r.fence \in Fences /\ r.fence # NoOne /\ r.fence.gen = rec.gen
                     /\ r.pc = "queued" => r.fence.task = r.at
<1>1. /\ FenceOf(rec) \in Fences /\ FenceOf(rec) # NoOne
      /\ FenceOf(rec).task = rec.task /\ FenceOf(rec).gen = rec.gen
  BY FenceFacts
<1>2. CASE rec.task = d.at
  <2> DEFINE r == [d EXCEPT !.pc = "queued", !.fence = FenceOf(rec), !.seen = NoOne, !.mine = NoOne]
  <2>1. Put(c, r)
    BY <1>2 DEF Route
  <2>2. /\ IsOp(r) /\ r.pc = "queued" /\ r.at = d.at /\ r.kind = d.kind /\ r.seq = d.seq
        /\ r.mode = d.mode /\ r.fence = FenceOf(rec)
    BY Zenon DEF IsOp, DoFields
  <2> HIDE DEF r
  <2> QED BY <1>1, <1>2, <2>1, <2>2
<1>3. CASE rec.task # d.at /\ d.hop < DoHops
  <2> DEFINE r == [d EXCEPT !.pc = "forward", !.fence = FenceOf(rec), !.hop = @ + 1, !.seen = NoOne]
  <2>1. Put(c, r)
    BY <1>3 DEF Route
  <2>2. /\ IsOp(r) /\ r.pc = "forward" /\ r.at = d.at /\ r.kind = d.kind /\ r.seq = d.seq
        /\ r.mode = d.mode /\ r.fence = FenceOf(rec)
    BY Zenon DEF IsOp, DoFields
  <2> HIDE DEF r
  <2> QED BY <1>1, <2>1, <2>2
<1>4. CASE rec.task # d.at /\ ~(d.hop < DoHops)
  BY <1>4, EmptySlots DEF Route, Finish, DoneSlot
<1> QED BY <1>2, <1>3, <1>4

\* The record a call was routed by is not newer than the counter.
LEMMA RoutedOK ==
  ASSUME LeaseInv, NEW c \in DoCalls, NEW d, IsOp(d), d.at \in DoTasks, d.kind \in {"fetch", "delete"},
         NEW rec \in Owners, Route(c, d, rec), rec.gen <= doCounter, UNCHANGED doFixed, HeldOK'
  PROVE LeaseInv'
<1>1. PICK r : /\ Put(c, r) /\ IsOp(r)
               /\ \/ r = DoneSlot
                  \/ /\ r.pc \in {"queued", "forward"} /\ r.at = d.at /\ r.kind = d.kind
                     /\ r.seq = d.seq /\ r.mode = d.mode
                     /\ r.fence \in Fences /\ r.fence # NoOne /\ r.fence.gen = rec.gen
                     /\ r.pc = "queued" => r.fence.task = r.at
  BY Routed
<1>2. CASE r = DoneSlot
  BY <1>1, <1>2, CallEnds DEF Finish, DoneSlot
<1>3. CASE r # DoneSlot
  <2>1. Carries(r) /\ ~Busy(r) /\ ~Releasing(r)
    BY <1>1, <1>3 DEF Carries, LocalPhases, InFlightPhases, ReleasePhases, RenewPhases, Busy, Releasing
  <2>2. CallOK(r)
    BY <1>1, <1>3, <2>1, PlainPhase
  <2> QED BY <1>1, <2>1, <2>2, CallMoves
<1> QED BY <1>2, <1>3

\* Requests reach a task, on a hint or not.
LEMMA ArriveStep ==
  ASSUME LeaseInv, NEW c \in DoCalls, NEW t \in DoTasks, NEW version, NEW hinted \in BOOLEAN,
         Arrive(c, t, version, hinted)
  PROVE LeaseInv'
<1> DEFINE fence == IF hinted THEN FenceOf(held[t]) ELSE NoOne
           kind == doWork.calls[c]
           r == [FreeSlot EXCEPT !.pc = "arrived", !.kind = kind, !.at = t, !.version = version,
                                 !.fence = fence]
<1>1. Put(c, r) /\ UNCHANGED doFixed /\ HeldOK' /\ kind \in {"fetch", "delete"}
  BY HeldStays DEF Arrive, doFixed, doEnv, doRedis, doWorker
<1>2. fence \in Fences \cup {NoOne} /\ (fence # NoOne => fence.gen <= doCounter)
  <2>1. held[t] = NoOne \/ (held[t] \in Owners /\ held[t].gen <= doCounter)
    BY DEF LeaseInv, HeldOK
  <2> QED BY <2>1, FenceFacts DEF FenceOf
<1> HIDE DEF fence, kind
<1>3. IsOp(r) /\ r.pc = "arrived" /\ r.kind = kind /\ r.at = t /\ r.fence = fence
  BY ZenonT(30) DEF IsOp, DoFields, FreeSlot
<1> HIDE DEF r
<1>4. Carries(r) /\ ~Busy(r) /\ ~Releasing(r)
  BY <1>1, <1>2, <1>3 DEF Carries, LocalPhases, InFlightPhases, ReleasePhases, RenewPhases, Busy, Releasing
<1>5. CallOK(r)
  BY <1>3, <1>4, PlainPhase
<1> QED BY <1>1, <1>4, <1>5, CallMoves

\* A fence that is the task's own entry is taken at its word.
LEMMA DispatchLocalFenceStep ==
  ASSUME LeaseInv, NEW c \in DoCalls, DispatchLocalFence(c) PROVE LeaseInv'
<1> DEFINE d == doCall[c]
           r == [d EXCEPT !.pc = "queued"]
<1>1. Put(c, r) /\ UNCHANGED doFixed /\ HeldOK' /\ d.pc = "arrived"
  BY HeldStays DEF DispatchLocalFence, doFixed, doEnv, doRedis, doWorker
<1>2. IsOp(d) /\ Carries(d) /\ d.at \in DoTasks
  BY <1>1, OneCall DEF Carries
<1>3. d.fence # NoOne /\ d.fence.task = d.at
  <2>1. d.fence # NoOne /\ d.fence = FenceOf(held[d.at])
    BY DEF DispatchLocalFence, FenceIsLocal
  <2>2. held[d.at] # NoOne
    BY <2>1 DEF FenceOf
  <2>3. held[d.at] \in Owners /\ held[d.at].task = d.at
    BY <1>2, <2>2, OneCall DEF HeldOK
  <2> QED BY <2>1, <2>3, FenceFacts
<1> HIDE DEF d
<1>4. IsOp(r) /\ r.pc = "queued" /\ r.kind = d.kind /\ r.at = d.at /\ r.fence = d.fence
  BY <1>2 DEF IsOp, DoFields
<1> HIDE DEF r
<1>5. Carries(r) /\ ~Busy(r) /\ ~Releasing(r)
  BY <1>1, <1>2, <1>3, <1>4 DEF Carries, LocalPhases, InFlightPhases, ReleasePhases, RenewPhases, Busy, Releasing
<1>6. CallOK(r)
  BY <1>4, <1>5, PlainPhase
<1> QED BY <1>1, <1>5, <1>6, CallMoves

\* What a resolution that names an owner has seen.
LEMMA Resolved ==
  ASSUME LeaseInv, NEW d
  PROVE /\ Resolution(d) \in {"superseded", "stale", "remote", "draining", "local", "renew", "claim"}
        /\ Resolution(d) \in {"remote", "local", "renew"} =>
             doOwner \in Owners /\ doOwner.gen <= doCounter /\ doOwner.lease > doNow
        /\ Resolution(d) \in {"local", "renew"} => doOwner.task = d.at
        /\ Resolution(d) = "claim" => doOwner = NoOne \/ doOwner.lease <= doNow
<1>1. doOwner \in Owners \cup {NoOne} /\ (doOwner # NoOne => doOwner.gen <= doCounter)
  BY DEF LeaseInv, RegistryOK
<1>2. LiveOwner(doOwner) => doOwner \in Owners /\ doOwner.gen <= doCounter /\ doOwner.lease > doNow
  <2>1. doNow \in Nat
    BY DEF LeaseInv, RegistryOK
  <2> QED BY <1>1, <2>1, FenceFacts DEF LiveOwner, LeaseOver
<1>3. ~LiveOwner(doOwner) => doOwner = NoOne \/ doOwner.lease <= doNow
  BY DEF LiveOwner, LeaseOver
<1>4. /\ Resolution(d) \in {"superseded", "stale", "remote", "draining", "local", "renew", "claim"}
      /\ Resolution(d) \in {"remote", "local", "renew"} => LiveOwner(doOwner)
      /\ Resolution(d) \in {"local", "renew"} => doOwner.task = d.at
      /\ Resolution(d) = "claim" => ~LiveOwner(doOwner)
  BY Zenon DEF Resolution
<1> QED BY <1>2, <1>3, <1>4

\* The resolver's first snapshot.
LEMMA ResolveOwnerStep ==
  ASSUME LeaseInv, NEW c \in DoCalls, ResolveOwner(c) PROVE LeaseInv'
<1> DEFINE d == doCall[c]
           what == Resolution(d)
<1>1. UNCHANGED doFixed /\ d.pc = "arrived"
  BY DEF ResolveOwner, doFixed, doEnv, doRedis, doWorker
<1>2. /\ IsOp(d) /\ Carries(d) /\ d.at \in DoTasks /\ d.kind \in {"fetch", "delete"}
      /\ doCounter' = doCounter
  BY <1>1, OneCall DEF Carries, doFixed
<1>3. /\ \/ Finish(c) /\ (UNCHANGED held \/ Forget(d.at))
         \/ what = "remote" /\ Route(c, d, doOwner) /\ Forget(d.at)
         \/ what = "local" /\ Route(c, d, doOwner) /\ Remember(d.at, doOwner)
         \/ Put(c, [d EXCEPT !.pc = "claim"]) /\ UNCHANGED held
  BY Resolved, Zenon DEF ResolveOwner
<1>4. what \in {"remote", "local"} => doOwner \in Owners /\ doOwner.gen <= doCounter
  BY Resolved
<1>5. what = "local" => doOwner.task = d.at
  BY Resolved
<1>6. doCounter \in Nat /\ doCounter <= doCounter'
  BY <1>2, OneCall
<1> HIDE DEF d, what
<1>7. CASE Finish(c) /\ (UNCHANGED held \/ Forget(d.at))
  BY <1>1, <1>2, <1>7, HeldStays, HeldGoes, CallEnds
<1>8. CASE what = "remote" /\ Route(c, d, doOwner) /\ Forget(d.at)
  BY <1>1, <1>2, <1>4, <1>8, HeldGoes, RoutedOK
<1>9. CASE what = "local" /\ Route(c, d, doOwner) /\ Remember(d.at, doOwner)
  <2>1. HeldOK'
    BY <1>2, <1>4, <1>5, <1>6, <1>9, HeldMoves
  <2> QED BY <1>1, <1>2, <1>4, <1>9, <2>1, RoutedOK
<1>10. CASE Put(c, [d EXCEPT !.pc = "claim"]) /\ UNCHANGED held
  <2> DEFINE r == [d EXCEPT !.pc = "claim"]
  <2>1. Put(c, r) /\ HeldOK'
    BY <1>2, <1>10, HeldStays
  <2>2. IsOp(r) /\ r.pc = "claim" /\ r.kind = d.kind /\ r.at = d.at /\ r.fence = d.fence
    BY <1>2 DEF IsOp, DoFields
  <2> HIDE DEF r
  <2>3. Carries(r) /\ ~Busy(r) /\ ~Releasing(r)
    BY <1>2, <2>2 DEF Carries, LocalPhases, InFlightPhases, ReleasePhases, RenewPhases, Busy, Releasing
  <2>4. CallOK(r)
    BY <2>2, <2>3, PlainPhase
  <2> QED BY <1>1, <2>1, <2>3, <2>4, CallMoves
<1> QED BY <1>3, <1>7, <1>8, <1>9, <1>10

\* The resolver's watched snapshot, and the record it stages.
LEMMA ClaimReadStep ==
  ASSUME LeaseInv, NEW c \in DoCalls, ClaimRead(c) PROVE LeaseInv'
<1> DEFINE d == doCall[c]
           what == Resolution(d)
           gen == IF what = "renew" THEN doOwner.gen ELSE NextGen(doOwner)
           next == IF what = "renew" /\ ~NearRenewal(doOwner) THEN doOwner ELSE OwnerFor(d.at, gen)
           snap == [owner |-> doOwner, counter |-> doCounter, pointer |-> pointer,
                    lock |-> deleteLock, policy |-> policy]
           r == [d EXCEPT !.pc = "claimExec", !.mine = next, !.seen = snap]
<1>1. UNCHANGED doFixed /\ d.pc = "claim"
  BY DEF ClaimRead, doFixed, doEnv, doRedis, doWorker
<1>2. /\ IsOp(d) /\ Carries(d) /\ d.at \in DoTasks /\ d.kind \in {"fetch", "delete"}
      /\ doCounter' = doCounter
  BY <1>1, OneCall DEF Carries, doFixed
<1>3. /\ \/ Finish(c) /\ (UNCHANGED held \/ Forget(d.at))
         \/ what = "remote" /\ Route(c, d, doOwner) /\ Forget(d.at)
         \/ what = "local" /\ Route(c, d, doOwner) /\ Remember(d.at, doOwner)
         \/ what \in {"renew", "claim"} /\ Put(c, r) /\ UNCHANGED held
  BY Resolved, Zenon DEF ClaimRead
<1>4. what \in {"remote", "local", "renew"} => doOwner \in Owners /\ doOwner.gen <= doCounter
  BY Resolved
<1>5. /\ what \in {"local", "renew"} => doOwner.task = d.at
      /\ what = "claim" => doOwner = NoOne \/ doOwner.lease <= doNow
  BY Resolved
<1>6. /\ doCounter \in Nat /\ doCounter <= doCounter' /\ doNow \in Nat
      /\ doOwner \in Owners \cup {NoOne} /\ (doOwner # NoOne => doOwner.lease <= doNow + DoTTL)
  BY <1>2, OneCall DEF RegistryOK
<1>7. what \in {"renew", "claim"} =>
        /\ next \in Owners /\ next.task = d.at /\ next.lease <= doNow + DoTTL
        /\ what = "renew" => doOwner.gen = next.gen /\ doOwner.lease <= next.lease
        /\ what = "claim" => next.gen > doCounter
  <2>1. CASE what = "renew"
    <3>1. /\ doOwner \in Owners /\ doOwner.gen \in Nat /\ doOwner.lease \in Nat
          /\ doOwner.lease <= doNow + DoTTL /\ doOwner # NoOne /\ gen = doOwner.gen
      BY <1>4, <1>6, <2>1, FenceFacts
    <3>2. doNow + DoTTL \in Nat
      BY <1>6, DoAssumption
    <3>3. next = doOwner \/ next = [task |-> d.at, gen |-> doOwner.gen, lease |-> doNow + DoTTL]
      BY <2>1, <3>1, SMTT(30) DEF OwnerFor
    <3> HIDE DEF next, gen
    <3> QED BY <1>2, <1>5, <2>1, <3>1, <3>2, <3>3 DEF Owners
  <2>2. CASE what = "claim"
    <3>1. gen \in Nat /\ gen > doCounter
      BY <1>6, <2>2, FenceFacts DEF NextGen, BiggerOf
    <3>2. doNow + DoTTL \in Nat
      BY <1>6, DoAssumption
    <3>3. next = [task |-> d.at, gen |-> gen, lease |-> doNow + DoTTL]
      BY <2>2 DEF OwnerFor
    <3> HIDE DEF next, gen
    <3> QED BY <1>2, <2>2, <3>1, <3>2, <3>3 DEF Owners
  <2> QED BY <2>1, <2>2
<1>8. snap.owner = doOwner /\ snap.counter = doCounter
  OBVIOUS
<1> HIDE DEF d, what, next, snap
<1>9. CASE Finish(c) /\ (UNCHANGED held \/ Forget(d.at))
  BY <1>1, <1>2, <1>9, HeldStays, HeldGoes, CallEnds
<1>10. CASE what = "remote" /\ Route(c, d, doOwner) /\ Forget(d.at)
  BY <1>1, <1>2, <1>4, <1>10, HeldGoes, RoutedOK
<1>11. CASE what = "local" /\ Route(c, d, doOwner) /\ Remember(d.at, doOwner)
  <2>1. HeldOK'
    BY <1>2, <1>4, <1>5, <1>6, <1>11, HeldMoves
  <2> QED BY <1>1, <1>2, <1>4, <1>11, <2>1, RoutedOK
<1>12. CASE what \in {"renew", "claim"} /\ Put(c, r) /\ UNCHANGED held
  <2>1. /\ IsOp(r) /\ r.pc = "claimExec" /\ r.kind = d.kind /\ r.at = d.at /\ r.fence = d.fence
        /\ r.mine = next /\ r.seen = snap
    BY <1>2, Zenon DEF IsOp, DoFields
  <2>2. HeldOK' /\ Put(c, r)
    BY <1>2, <1>12, HeldStays
  <2> HIDE DEF r
  <2>3. Carries(r) /\ ~Busy(r) /\ ~Releasing(r)
    BY <1>2, <2>1 DEF Carries, LocalPhases, InFlightPhases, ReleasePhases, RenewPhases, Busy, Releasing
  <2>4. Staged(r)
    BY <1>4, <1>5, <1>6, <1>7, <1>8, <1>12, <2>1, SMTT(30) DEF Staged
  <2>5. CallOK(r)
    BY <2>1, <2>3, <2>4 DEF CallOK, Renewing, Admitted, RenewPhases
  <2> QED BY <1>1, <2>2, <2>3, <2>5, CallMoves
<1> QED BY <1>3, <1>9, <1>10, <1>11, <1>12

\* A forwarded call arrives at the owner's task.
LEMMA ForwardToOwnerStep ==
  ASSUME LeaseInv, NEW c \in DoCalls, ForwardToOwner(c) PROVE LeaseInv'
<1> DEFINE d == doCall[c]
           r == [d EXCEPT !.pc = "arrived", !.at = d.fence.task]
<1>1. UNCHANGED doFixed /\ HeldOK' /\ d.pc = "forward" /\ (Put(c, r) \/ Finish(c))
  BY HeldStays DEF ForwardToOwner, doFixed, doEnv, doRedis, doWorker
<1>2. IsOp(d) /\ Carries(d)
  BY OneCall
<1>3. d.fence.task \in DoTasks /\ d.kind \in {"fetch", "delete"}
  BY <1>1, <1>2 DEF Carries, Fences
<1> HIDE DEF d
<1>4. IsOp(r) /\ r.pc = "arrived" /\ r.kind = d.kind /\ r.at = d.fence.task /\ r.fence = d.fence
  BY <1>2, Zenon DEF IsOp, DoFields
<1>5. Put(c, r) \/ Finish(c)
  BY <1>1
<1> HIDE DEF r
<1>6. Carries(r) /\ ~Busy(r) /\ ~Releasing(r)
  BY <1>2, <1>3, <1>4 DEF Carries, LocalPhases, InFlightPhases, ReleasePhases, RenewPhases, Busy, Releasing
<1>7. CallOK(r)
  BY <1>4, <1>6, PlainPhase
<1> QED BY <1>1, <1>5, <1>6, <1>7, CallMoves, CallEnds

\* A draining task admits nothing.
LEMMA EnterActorStep ==
  ASSUME LeaseInv, NEW c \in DoCalls, EnterActor(c) PROVE LeaseInv'
<1> DEFINE d == doCall[c]
           r == [d EXCEPT !.pc = "assert"]
<1>1. /\ UNCHANGED doFixed /\ HeldOK' /\ d.pc = "queued"
      /\ Finish(c) \/ (~doDraining[d.at] /\ Put(c, r))
  BY HeldStays DEF EnterActor, doFixed, doEnv, doRedis, doWorker
<1>2. IsOp(d) /\ Carries(d)
  BY OneCall
<1> HIDE DEF d
<1>3. IsOp(r) /\ r.pc = "assert" /\ r.kind = d.kind /\ r.at = d.at /\ r.fence = d.fence
  BY <1>2 DEF IsOp, DoFields
<1>4. Finish(c) \/ (~doDraining[r.at] /\ Put(c, r))
  BY <1>1, <1>3
<1> HIDE DEF r
<1>5. Carries(r) /\ ~Releasing(r)
  BY <1>1, <1>2, <1>3 DEF Carries, LocalPhases, InFlightPhases, ReleasePhases, RenewPhases, Releasing
<1>6. CallOK(r)
  BY <1>3, <1>5, PlainPhase
<1> QED BY <1>1, <1>4, <1>5, <1>6, CallMoves, CallEnds

\* A fence that holds names the record, whose lease is not over.
LEMMA FenceHeld ==
  ASSUME LeaseInv, NEW fence \in Fences, LiveOwner(doOwner), FenceOf(doOwner) = fence
  PROVE /\ doOwner \in Owners /\ doOwner.task = fence.task /\ doOwner.gen = fence.gen
        /\ doNow < doOwner.lease /\ doOwner.lease <= doNow + DoTTL /\ doOwner.lease \in Nat
        /\ doOwner.gen \in Nat
<1>1. /\ doOwner \in Owners /\ doNow \in Nat /\ doOwner.lease <= doNow + DoTTL
  BY DEF LeaseInv, RegistryOK, LiveOwner
<1>2. doOwner.lease \in Nat /\ doOwner.task = fence.task /\ doOwner.gen = fence.gen /\ doOwner.gen \in Nat
  BY <1>1, FenceFacts
<1> QED BY <1>1, <1>2 DEF LiveOwner, LeaseOver

\* Before a dispatch or a delete the actor asks whether its fence still holds,
\* and for how long.
LEMMA AssertOwnerStep ==
  ASSUME LeaseInv, NEW c \in DoCalls, AssertOwner(c) PROVE LeaseInv'
<1> DEFINE d == doCall[c]
           e == IF d.kind = "fetch" THEN [d EXCEPT !.mode = policy.mode, !.seq = policy.seq] ELSE d
           short == [e EXCEPT !.pc = "renewRead", !.tries = 0, !.since = doNow]
           long == [e EXCEPT !.pc = AfterFence(d), !.mine = doOwner, !.readAt = doNow]
<1>1. UNCHANGED doFixed /\ d.pc = "assert"
  BY DEF AssertOwner, doFixed, doEnv, doRedis, doWorker
<1>2. /\ IsOp(d) /\ Carries(d) /\ d.at \in DoTasks /\ d.fence \in Fences
      /\ d.fence # NoOne /\ d.fence.task = d.at /\ d.kind \in {"fetch", "delete"}
      /\ doCounter' = doCounter /\ Busy(d) /\ d.fence.gen <= doCounter
  BY <1>1, OneCall DEF Carries, doFixed, LocalPhases, InFlightPhases, Busy
<1>3. \/ Finish(c) /\ (UNCHANGED held \/ Forget(d.at))
      \/ /\ FenceHolds(d.fence) /\ UNCHANGED held
         /\ Put(c, IF doOwner.lease - doNow < DoGuard THEN short ELSE long)
  BY Zenon DEF AssertOwner
<1>4. IsOp(e) /\ e.kind = d.kind /\ e.at = d.at /\ e.fence = d.fence
  BY <1>2, Zenon DEF IsOp, DoFields
<1>5. AfterFence(d) \in {"register", "start"}
  BY DEF AfterFence
<1> HIDE DEF d, e
<1>6. /\ IsOp(short) /\ short.pc = "renewRead" /\ short.since = doNow /\ short.kind = d.kind
      /\ short.at = d.at /\ short.fence = d.fence
  BY <1>4, Zenon DEF IsOp, DoFields
<1>7. /\ IsOp(long) /\ long.pc = AfterFence(d) /\ long.mine = doOwner /\ long.readAt = doNow
      /\ long.kind = d.kind /\ long.at = d.at /\ long.fence = d.fence
  BY <1>4, Zenon DEF IsOp, DoFields
<1> HIDE DEF short, long
<1>8. CASE Finish(c) /\ (UNCHANGED held \/ Forget(d.at))
  BY <1>1, <1>2, <1>8, HeldStays, HeldGoes, CallEnds
<1>9. ASSUME FenceHolds(d.fence), UNCHANGED held,
             Put(c, IF doOwner.lease - doNow < DoGuard THEN short ELSE long)
      PROVE LeaseInv'
  <2>1. /\ doOwner \in Owners /\ doOwner.task = d.fence.task /\ doOwner.gen = d.fence.gen
        /\ doOwner.lease \in Nat /\ doOwner.lease <= doNow + DoTTL /\ doOwner # NoOne
    BY <1>2, <1>9, FenceHeld, FenceFacts DEF FenceHolds
  <2>2. ~Deleted /\ doNow \in Nat
    BY <1>9, OneCall DEF Deleted, FenceHolds, LockAllows
  <2>3. HeldOK'
    BY <1>2, <1>9, HeldStays
  <2>4. CASE doOwner.lease - doNow < DoGuard
    <3>1. Carries(short) /\ Busy(short) /\ ~Releasing(short)
      BY <1>2, <1>6 DEF Carries, LocalPhases, InFlightPhases, ReleasePhases, RenewPhases, Busy, Releasing
    <3>2. CallOK(short)
      BY <1>6, <2>2, <3>1, DoAssumption DEF CallOK, Staged, Renewing, Admitted, RenewPhases
    <3>3. Put(c, short) /\ Busy(doCall[c]) /\ short.at = doCall[c].at
      BY <1>2, <1>6, <1>9, <2>4 DEF d
    <3> QED BY <1>1, <2>3, <3>1, <3>2, <3>3, CallMoves
  <2>5. CASE ~(doOwner.lease - doNow < DoGuard)
    <3>1. Carries(long) /\ Busy(long) /\ ~Releasing(long)
      BY <1>2, <1>5, <1>7 DEF Carries, LocalPhases, InFlightPhases, ReleasePhases, RenewPhases, Busy, Releasing
    <3>2. doNow + DoGuard <= doOwner.lease
      BY <2>1, <2>2, <2>5, DoAssumption
    <3>3. CallOK(long)
      BY <1>5, <1>7, <2>1, <2>2, <3>1, <3>2, DoAssumption
         DEF CallOK, Staged, Renewing, Admitted, Holds, RenewPhases
    <3>4. Put(c, long) /\ Busy(doCall[c]) /\ long.at = doCall[c].at
      BY <1>2, <1>7, <1>9, <2>5 DEF d
    <3> QED BY <1>1, <2>3, <3>1, <3>3, <3>4, CallMoves
  <2> QED BY <2>4, <2>5
<1> QED BY <1>3, <1>8, <1>9

\* The supervisor's timer begins a renewal of the task's own entry.
LEMMA StartRenewStep ==
  ASSUME LeaseInv, NEW c \in DoCalls, NEW t \in DoTasks, StartRenew(c, t) PROVE LeaseInv'
<1> DEFINE fence == FenceOf(held[t])
           r == [FreeSlot EXCEPT !.pc = "renewRead", !.kind = "renew", !.at = t, !.fence = fence]
<1>1. Put(c, r) /\ UNCHANGED doFixed /\ HeldOK' /\ held[t] # NoOne
  BY HeldStays DEF StartRenew, doFixed, doEnv, doRedis, doWorker
<1>2. fence \in Fences /\ fence # NoOne /\ fence.task = t /\ fence.gen <= doCounter
  <2>1. held[t] \in Owners /\ held[t].task = t /\ held[t].gen <= doCounter
    BY <1>1 DEF LeaseInv, HeldOK
  <2> QED BY <2>1, FenceFacts
<1> HIDE DEF fence
<1>3. IsOp(r) /\ r.pc = "renewRead" /\ r.kind = "renew" /\ r.at = t /\ r.fence = fence
  BY ZenonT(30) DEF IsOp, DoFields, FreeSlot
<1> HIDE DEF r
<1>4. CallOK(r) /\ ~Busy(r) /\ ~Releasing(r)
  BY <1>2, <1>3 DEF CallOK, Carries, Staged, Renewing, Admitted, LocalPhases, InFlightPhases,
                    ReleasePhases, RenewPhases, Busy, Releasing
<1> QED BY <1>1, <1>4, CallMoves

\* A renewal reads the record and Redis TIME.
LEMMA RenewReadStep ==
  ASSUME LeaseInv, NEW c \in DoCalls, RenewRead(c) PROVE LeaseInv'
<1> DEFINE d == doCall[c]
           next == OwnerFor(d.at, doOwner.gen)
           r == [d EXCEPT !.pc = "renewSet", !.seen = doOwner, !.readAt = doNow, !.mine = next]
<1>1. /\ UNCHANGED doFixed /\ d.pc = "renewRead"
      /\ \/ Finish(c) /\ Forget(d.at)
         \/ /\ LiveOwner(doOwner) /\ FenceOf(doOwner) = d.fence
            /\ Put(c, r) /\ UNCHANGED held
  BY Zenon DEF RenewRead, doFixed, doEnv, doRedis, doWorker
<1>2. /\ IsOp(d) /\ Carries(d) /\ d.at \in DoTasks /\ d.fence \in Fences /\ d.fence # NoOne
      /\ d.fence.task = d.at /\ doCounter' = doCounter /\ doNow \in Nat /\ Renewing(d)
  BY <1>1, OneCall DEF Carries, doFixed, LocalPhases, InFlightPhases, CallOK
<1>3. next = [task |-> d.at, gen |-> doOwner.gen, lease |-> doNow + DoTTL]
  BY DEF OwnerFor
<1> HIDE DEF d, next
<1>4. /\ IsOp(r) /\ r.pc = "renewSet" /\ r.kind = d.kind /\ r.at = d.at /\ r.fence = d.fence
      /\ r.seen = doOwner /\ r.readAt = doNow /\ r.mine = next /\ r.since = d.since
  BY <1>2, Zenon DEF IsOp, DoFields
<1> HIDE DEF r
<1>5. CASE Finish(c) /\ Forget(d.at)
  BY <1>1, <1>2, <1>5, HeldGoes, CallEnds
<1>6. ASSUME LiveOwner(doOwner), FenceOf(doOwner) = d.fence, Put(c, r), UNCHANGED held
      PROVE LeaseInv'
  <2>1. /\ doOwner \in Owners /\ doOwner.task = d.fence.task /\ doOwner.gen = d.fence.gen
        /\ doOwner.lease <= doNow + DoTTL
    BY <1>2, <1>6, FenceHeld, SMTT(30)
  <2>2. Carries(r) /\ ~Releasing(r) /\ (Busy(r) => Busy(d))
    BY <1>1, <1>2, <1>4, SMTT(30) DEF Carries, LocalPhases, InFlightPhases, ReleasePhases, RenewPhases, Busy, Releasing
  <2>3. Renewing(r)
    BY <1>1, <1>2, <1>3, <1>4, <2>1, DoAssumption, SMTT(30) DEF Renewing, RenewPhases
  <2>4. CallOK(r)
    BY <1>4, <2>2, <2>3 DEF CallOK, Staged, Admitted
  <2>5. HeldOK' /\ (Busy(r) => Busy(doCall[c]) /\ r.at = doCall[c].at)
    BY <1>2, <1>4, <1>6, <2>2, HeldStays DEF d
  <2> QED BY <1>1, <1>6, <2>2, <2>4, <2>5, CallMoves
<1> QED BY <1>1, <1>5, <1>6

\* After the registry write the actor asks again.
LEMMA RegisterObjectStep ==
  ASSUME LeaseInv, NEW c \in DoCalls, RegisterObject(c) PROVE LeaseInv'
<1> DEFINE d == doCall[c]
           r == [d EXCEPT !.pc = "assert", !.twice = TRUE]
<1>1. UNCHANGED doFixed /\ HeldOK' /\ d.pc = "register" /\ Put(c, r)
  BY HeldStays DEF RegisterObject, doFixed, doEnv, doRedis, doWorker
<1>2. IsOp(d) /\ Carries(d)
  BY OneCall
<1> HIDE DEF d
<1>3. IsOp(r) /\ r.pc = "assert" /\ r.kind = d.kind /\ r.at = d.at /\ r.fence = d.fence
  BY <1>2, Zenon DEF IsOp, DoFields
<1>4. Put(c, r)
  BY <1>1
<1> HIDE DEF r
<1>5. Carries(r) /\ ~Releasing(r) /\ Busy(d)
  BY <1>1, <1>2, <1>3 DEF Carries, LocalPhases, InFlightPhases, ReleasePhases, RenewPhases, Releasing, Busy
<1>6. CallOK(r) /\ Busy(doCall[c]) /\ r.at = doCall[c].at
  BY <1>3, <1>5, PlainPhase DEF d
<1> QED BY <1>1, <1>4, <1>5, <1>6, CallMoves

\* A drain begins, waits, and goes on only when no dispatch is in flight.
LEMMA DrainStep ==
  ASSUME LeaseInv, NEW c \in DoCalls,
         (\E t \in DoTasks : StartDrain(c, t)) \/ DrainWait(c) \/ ReleaseRead(c)
  PROVE LeaseInv'
<1>1. ASSUME NEW t \in DoTasks, StartDrain(c, t) PROVE LeaseInv'
  <2> DEFINE r == [FreeSlot EXCEPT !.pc = "drainWait", !.kind = "drain", !.at = t]
  <2>1. /\ UNCHANGED <<doNow, doOwner, doCounter, pointer, deleteLock, lockedAt>> /\ HeldOK'
        /\ Put(c, r) /\ doDraining' = [doDraining EXCEPT ![t] = TRUE]
    BY <1>1, HeldStays, Zenon DEF StartDrain, doRedis, doWorker
  <2>2. IsOp(r) /\ r.pc = "drainWait" /\ r.at = t /\ r.fence = NoOne
    BY Zenon DEF IsOp, DoFields, FreeSlot
  <2> HIDE DEF r
  <2>3. ~Busy(r) /\ ~Releasing(r)
    BY <2>2 DEF InFlightPhases, ReleasePhases, Busy, Releasing
  <2>4. /\ doCall' = [x \in DoCalls |-> doCall'[x]] /\ doCall'[c] = r
        /\ \A x \in DoCalls : x # c => doCall'[x] = doCall[x]
    BY <2>1 DEF Put, LeaseInv, CallsOK
  <2>5. /\ doDraining' \in [DoTasks -> BOOLEAN] /\ doDraining'[t] = TRUE
        /\ \A u \in DoTasks : doDraining[u] => doDraining'[u]
    BY <2>1 DEF LeaseInv, DrainOK
  <2>6. CallOK(doCall[c])'
    BY <2>2, <2>4, <2>5 DEF CallOK, Carries, Staged, Renewing, Admitted, RenewPhases, LocalPhases,
                            InFlightPhases, ReleasePhases
  <2> QED BY <2>1, <2>3, <2>4, <2>5, <2>6, CallsMove
<1>2. CASE DrainWait(c)
  <2> DEFINE d == doCall[c]
             fence == FenceOf(held[d.at])
             r == [d EXCEPT !.pc = "release", !.fence = fence]
  <2>1. /\ UNCHANGED doFixed /\ HeldOK' /\ d.pc = "drainWait"
        /\ \/ Finish(c)
           \/ InFlight(d.at) = {} /\ held[d.at] # NoOne /\ Put(c, r)
    BY <1>2, HeldStays, Zenon DEF DrainWait, doFixed, doEnv, doRedis, doWorker
  <2>2. IsOp(d) /\ d.at \in DoTasks
    BY <2>1, OneCall DEF Carries
  <2>3. CASE InFlight(d.at) = {} /\ held[d.at] # NoOne /\ Put(c, r)
    <3>1. held[d.at] \in Owners /\ held[d.at].task = d.at /\ held[d.at].gen <= doCounter
      BY <2>2, <2>3 DEF LeaseInv, HeldOK
    <3>2. fence \in Fences /\ fence # NoOne /\ fence.task = d.at /\ fence.gen <= doCounter
      BY <3>1, FenceFacts
    <3>3. \A x \in DoCalls : doCall[x].at = d.at => ~Busy(doCall[x])
      BY <2>3 DEF InFlight, Busy
    <3>4. IsOp(r) /\ r.pc = "release" /\ r.at = d.at /\ r.fence = fence /\ doDraining[r.at]
      BY <2>1, <2>2, OneCall, Zenon DEF IsOp, DoFields, Carries
    <3>5. Put(c, r)
      BY <2>3
    <3> HIDE DEF r, fence, d
    <3>6. Carries(r) /\ ~Busy(r)
      BY <2>2, <3>2, <3>4 DEF Carries, LocalPhases, InFlightPhases, ReleasePhases, RenewPhases, Busy
    <3>7. CallOK(r) /\ \A x \in DoCalls : doCall[x].at = r.at => ~Busy(doCall[x])
      BY <3>3, <3>4, <3>6, PlainPhase
    <3> QED BY <2>1, <3>5, <3>6, <3>7, CallMoves, Zenon
  <2> QED BY <2>1, <2>3, CallEnds
<1>3. CASE ReleaseRead(c)
  <2> DEFINE d == doCall[c]
             r == [d EXCEPT !.pc = "releaseDel", !.seen = doOwner]
  <2>1. /\ UNCHANGED doFixed /\ d.pc = "release"
        /\ \/ Finish(c) /\ Forget(d.at)
           \/ FenceOf(doOwner) = d.fence /\ Put(c, r) /\ UNCHANGED held
    BY <1>3, Zenon DEF ReleaseRead, doFixed, doEnv, doRedis, doWorker
  <2>2. /\ IsOp(d) /\ Carries(d) /\ d.at \in DoTasks /\ doCounter' = doCounter
        /\ d.fence # NoOne /\ d.fence.task = d.at /\ Releasing(d)
    BY <2>1, OneCall DEF Carries, doFixed, LocalPhases, ReleasePhases, Releasing
  <2>3. CASE Finish(c) /\ Forget(d.at)
    BY <2>1, <2>2, <2>3, HeldGoes, CallEnds, SMTT(30)
  <2>4. CASE FenceOf(doOwner) = d.fence /\ Put(c, r) /\ UNCHANGED held
    <3>1. doOwner \in Owners /\ doOwner.task = d.at
      <4>1. doOwner \in Owners
        BY <2>2, <2>4, OneCall DEF FenceOf
      <4> QED BY <2>2, <2>4, <4>1, FenceFacts
    <3>2. IsOp(r) /\ r.pc = "releaseDel" /\ r.at = d.at /\ r.fence = d.fence /\ r.seen = doOwner
      BY <2>2, Zenon DEF IsOp, DoFields
    <3>3. Put(c, r) /\ HeldOK'
      BY <2>2, <2>4, HeldStays, SMTT(30)
    <3> HIDE DEF r
    <3>4. Carries(r) /\ ~Busy(r)
      BY <2>1, <2>2, <3>2 DEF Carries, LocalPhases, InFlightPhases, ReleasePhases, RenewPhases, Busy
    <3>5. CallOK(r)
      BY <3>1, <3>2, <3>4, Zenon DEF CallOK, Staged, Renewing, Admitted, RenewPhases
    <3> QED BY <2>1, <2>2, <3>2, <3>3, <3>4, <3>5, CallMoves
  <2> QED BY <2>1, <2>3, <2>4
<1> QED BY <1>1, <1>2, <1>3

\* A call whose registry does not move stays right.
LEMMA CallFixed == ASSUME NEW d, CallOK(d), UNCHANGED doFixed PROVE CallOK(d)'
<1>1. IsOp(d)' /\ Carries(d)' /\ Staged(d)'
  BY DEF CallOK, IsOp, Carries, Staged, doFixed
<1>2. Renewing(d)'
  BY DEF CallOK, Renewing, Deleted, doFixed
<1>3. Admitted(d)'
  BY DEF CallOK, Admitted, Holds, Deleted, DeletedBy, doFixed
<1> QED BY <1>1, <1>2, <1>3 DEF CallOK

\* Handlers end together.
LEMMA ManyEnd ==
  ASSUME LeaseInv, NEW cs, doCall' = FinishAll(cs), UNCHANGED doFixed, HeldOK'
  PROVE LeaseInv'
<1>1. /\ doCall' = [x \in DoCalls |-> doCall'[x]]
      /\ \A x \in DoCalls : doCall'[x] \in {doCall[x], DoneSlot}
  BY DEF FinishAll, DoneSlot
<1>2. doDraining' = doDraining /\ doDraining \in [DoTasks -> BOOLEAN]
  BY DEF doFixed, LeaseInv, DrainOK
<1>3. ASSUME NEW c \in DoCalls PROVE LeaseInv'
  <2>1. PICK e : e = doCall'[c] /\ CallOK(e)
    BY <1>1, OneCall, EmptySlots
  <2>2. CallOK(doCall[c])'
    BY <2>1, CallFixed
  <2>3. /\ Busy(doCall'[c]) => Busy(doCall[c]) /\ doCall'[c].at = doCall[c].at
        /\ Releasing(doCall'[c]) => Releasing(doCall[c]) /\ doCall'[c].at = doCall[c].at
    BY <1>1, EmptySlots
  <2> QED BY <1>1, <1>2, <2>2, <2>3, CallsMove DEF doFixed
<1>4. CASE DoCalls = {}
  BY <1>1, <1>2, <1>4 DEF LeaseInv, RegistryOK, CallsOK, DrainOK, doFixed
<1> QED BY <1>3, <1>4

\* A handler starts with a timer that ends within its lease.
LEMMA StartHandlerStep ==
  ASSUME LeaseInv, NEW c \in DoCalls, StartHandler(c) PROVE LeaseInv'
<1> DEFINE d == doCall[c]
           restart == MustRestart(d, Registration(facet[d.at]))
           cs == IF restart THEN Running(d.at) ELSE {}
           r == [d EXCEPT !.pc = "run", !.watch = WatchAt(d)]
<1>1. /\ UNCHANGED doFixed /\ HeldOK' /\ d.pc = "start" /\ d.kind = "fetch"
      /\ Finish(c) \/ doCall' = [FinishAll(cs) EXCEPT ![c] = r]
  BY HeldStays, Zenon DEF StartHandler, doFixed, doEnv, doRedis, doWorker
<1>2. IsOp(d) /\ Carries(d) /\ Admitted(d) /\ doNow \in Nat /\ doOwner \in Owners
  BY <1>1, OneCall DEF CallOK, Admitted, Holds
<1>3. /\ WatchAt(d) \in Nat /\ doNow <= WatchAt(d) + DoLag /\ WatchAt(d) + DoLag < d.mine.lease
      /\ d.mine.lease \in Nat /\ doOwner.lease \in Nat /\ d.mine.lease <= doOwner.lease
      /\ Deleted => WatchAt(d) + DoLag < DeletedBy
  <2>1. /\ d.readAt \in Nat /\ d.readAt <= doNow /\ doNow <= d.readAt + DoDelay
        /\ d.mine \in Owners /\ d.readAt + DoGuard <= d.mine.lease /\ d.mine.lease <= doOwner.lease
        /\ Deleted => d.mine.lease <= DeletedBy
    BY <1>1, <1>2 DEF Admitted
  <2>2. d.mine.lease \in Nat /\ doOwner.lease \in Nat
    BY <1>2, <2>1, FenceFacts, SMTT(30)
  <2>3. /\ WatchAt(d) \in Nat /\ doNow <= WatchAt(d) + DoLag /\ WatchAt(d) + DoLag < d.mine.lease
    BY <1>2, <2>1, <2>2, DoAssumption DEF WatchAt
  <2>4. DeletedBy \in Nat
    BY DoAssumption DEF LeaseInv, RegistryOK, DeletedBy
  <2> QED BY <2>1, <2>2, <2>3, <2>4, DoAssumption
<1> HIDE DEF d, cs
<1>4. /\ IsOp(r) /\ r.pc = "run" /\ r.kind = d.kind /\ r.at = d.at /\ r.fence = d.fence
      /\ r.watch = WatchAt(d)
  BY <1>2, Zenon DEF IsOp, DoFields
<1> HIDE DEF r
<1>5. CASE Finish(c)
  BY <1>1, <1>5, CallEnds
<1>6. CASE doCall' = [FinishAll(cs) EXCEPT ![c] = r]
  <2>1. /\ doCall' = [x \in DoCalls |-> doCall'[x]] /\ doCall'[c] = r
        /\ \A x \in DoCalls : x # c => doCall'[x] \in {doCall[x], DoneSlot}
    BY <1>6, Zenon DEF FinishAll, DoneSlot
  <2>2. Carries(r) /\ ~Releasing(r) /\ Busy(d)
    BY <1>1, <1>2, <1>4, SMTT(30) DEF Carries, LocalPhases, InFlightPhases, ReleasePhases, RenewPhases, Busy, Releasing
  <2>3. Admitted(r)
    BY <1>1, <1>2, <1>3, <1>4, DoAssumption DEF Admitted, Holds
  <2>4. CallOK(r)
    BY <1>4, <2>2, <2>3, Zenon DEF CallOK, Staged, Renewing, RenewPhases
  <2>5. CallOK(doCall[c])'
    <3>1. PICK e : e = r
      OBVIOUS
    <3>2. CallOK(e)'
      BY <1>1, <2>4, <3>1, CallFixed
    <3> QED BY <2>1, <3>1, <3>2
  <2>6. doDraining' = doDraining /\ doDraining \in [DoTasks -> BOOLEAN]
    BY <1>1 DEF doFixed, LeaseInv, DrainOK
  <2>7. ~Releasing(doCall'[c]) /\ Busy(doCall[c]) /\ doCall'[c].at = doCall[c].at
    BY <1>4, <2>1, <2>2 DEF d
  <2> QED BY <1>1, <2>1, <2>5, <2>6, <2>7, CallsMove DEF doFixed
<1> QED BY <1>1, <1>5, <1>6

\* The watchdog looks again before the lease ends, or aborts the facet.
LEMMA WatchdogStep ==
  ASSUME LeaseInv, NEW c \in DoCalls, Watchdog(c) PROVE LeaseInv'
<1> DEFINE d == doCall[c]
           r == [d EXCEPT !.watch = doOwner.lease - DoGuard]
<1>1. /\ UNCHANGED doFixed /\ d.pc = "run"
      /\ \/ FenceHolds(d.fence) /\ doOwner.lease - doNow >= DoGuard /\ Put(c, r) /\ UNCHANGED held
         \/ Forget(d.at) /\ doCall' = FinishAll(Running(d.at))
  BY Zenon DEF Watchdog, doFixed, doEnv, doRedis, doWorker
<1>2. /\ IsOp(d) /\ Carries(d) /\ Admitted(d) /\ doNow \in Nat /\ d.at \in DoTasks
      /\ d.fence \in Fences /\ doCounter' = doCounter /\ doOwner \in Owners
  BY <1>1, OneCall DEF CallOK, Carries, LocalPhases, InFlightPhases, doFixed, Admitted, Holds
<1> HIDE DEF d
<1>3. /\ IsOp(r) /\ r.pc = d.pc /\ r.kind = d.kind /\ r.at = d.at /\ r.fence = d.fence
      /\ r.watch = doOwner.lease - DoGuard
  BY <1>2 DEF IsOp, DoFields
<1> HIDE DEF r
<1>4. ASSUME FenceHolds(d.fence), doOwner.lease - doNow >= DoGuard, Put(c, r), UNCHANGED held
      PROVE LeaseInv'
  <2>1. doOwner.lease \in Nat /\ ~Deleted
    BY <1>2, <1>4, FenceFacts DEF FenceHolds, LockAllows, Deleted
  <2>2. /\ r.watch \in Nat /\ doNow <= r.watch + DoLag /\ r.watch + DoLag < doOwner.lease
    BY <1>2, <1>3, <1>4, <2>1, DoAssumption, SMTT(30)
  <2>3. Carries(r) /\ ~Releasing(r) /\ Busy(d)
    BY <1>1, <1>2, <1>3 DEF Carries, LocalPhases, InFlightPhases, ReleasePhases, RenewPhases, Busy, Releasing
  <2>4. CallOK(r)
    BY <1>1, <1>2, <1>3, <2>1, <2>2, <2>3, Zenon DEF CallOK, Staged, Renewing, Admitted, Holds, RenewPhases
  <2>5. HeldOK' /\ Busy(doCall[c]) /\ r.at = doCall[c].at
    BY <1>2, <1>3, <1>4, <2>3, HeldStays, Zenon DEF d
  <2> QED BY <1>1, <1>4, <2>3, <2>4, <2>5, CallMoves
<1>5. CASE Forget(d.at) /\ doCall' = FinishAll(Running(d.at))
  BY <1>1, <1>2, <1>5, HeldGoes, ManyEnd
<1> QED BY <1>1, <1>4, <1>5

\* Handlers return, storage is deleted, actors are rebuilt, tasks crash.
LEMMA EndingsStep ==
  ASSUME LeaseInv,
         \/ \E c \in DoCalls : HandlerEnds(c) \/ DeleteStorage(c)
         \/ \E t \in DoTasks : EvictActor(t) \/ CrashTask(t)
  PROVE LeaseInv'
<1>1. ASSUME NEW c \in DoCalls, HandlerEnds(c) PROVE LeaseInv'
  <2>1. UNCHANGED doFixed /\ HeldOK' /\ Finish(c)
    BY <1>1, HeldStays DEF HandlerEnds, doFixed, doEnv, doRedis, doWorker
  <2> QED BY <2>1, CallEnds
<1>2. ASSUME NEW c \in DoCalls, DeleteStorage(c) PROVE LeaseInv'
  <2>1. UNCHANGED doFixed /\ HeldOK' /\ doCall' = FinishAll({c} \cup Running(doCall[c].at))
    BY <1>2, HeldStays DEF DeleteStorage, doFixed, doEnv, doRedis, doWorker
  <2> QED BY <2>1, ManyEnd
<1>3. ASSUME NEW t \in DoTasks, EvictActor(t) PROVE LeaseInv'
  <2>1. UNCHANGED doFixed /\ UNCHANGED <<held, doCall>>
    BY <1>3 DEF EvictActor, doFixed, doEnv, doRedis, doWorker
  <2>2. doCall' = FinishAll({}) /\ HeldOK'
    BY <2>1, HeldStays DEF FinishAll, LeaseInv, CallsOK, doFixed
  <2> QED BY <2>1, <2>2, ManyEnd
<1>4. ASSUME NEW t \in DoTasks, CrashTask(t) PROVE LeaseInv'
  <2>1. /\ UNCHANGED doFixed /\ Forget(t)
        /\ doCall' = FinishAll({c \in DoCalls : doCall[c].at = t})
    BY <1>4, Zenon DEF CrashTask, doFixed, doRedis, doWorker, Forget, Remember
  <2>2. HeldOK'
    BY <2>1, HeldGoes DEF doFixed
  <2> QED BY <2>1, <2>2, ManyEnd
<1> QED BY <1>1, <1>2, <1>3, <1>4

----------------------------------------------------------------------------
(* Steps of the registry, the control plane and time.                      *)

\* While a call is admitted or runs, the record it was admitted under lasts.
LEMMA LeaseLasts ==
  ASSUME LeaseInv, NEW c \in DoCalls, doCall[c].pc \in {"start", "run"}
  PROVE /\ doOwner \in Owners /\ doNow < doOwner.lease /\ Holds(doCall[c])
        /\ doOwner.task = doCall[c].at /\ Busy(doCall[c])
<1> DEFINE d == doCall[c]
<1>1. /\ Admitted(d) /\ Carries(d) /\ doNow \in Nat /\ doOwner \in Owners
  BY OneCall DEF CallOK, Admitted, Holds
<1>2. doOwner.lease \in Nat
  BY <1>1, FenceFacts
<1>3. d.pc = "start" => doNow < doOwner.lease
  <2> SUFFICES ASSUME d.pc = "start" PROVE doNow < doOwner.lease
    OBVIOUS
  <2>1. /\ d.readAt \in Nat /\ doNow <= d.readAt + DoDelay /\ d.mine \in Owners
        /\ d.readAt + DoGuard <= d.mine.lease /\ d.mine.lease <= doOwner.lease
    BY <1>1 DEF Admitted
  <2>2. d.mine.lease \in Nat
    BY <2>1, FenceFacts
  <2> QED BY <1>1, <1>2, <2>1, <2>2, DoAssumption
<1>4. d.pc = "run" => doNow < doOwner.lease
  BY <1>1, <1>2, DoAssumption DEF Admitted
<1> QED BY <1>1, <1>3, <1>4, SMTT(30) DEF Admitted, Holds, Carries, LocalPhases, InFlightPhases, Busy

\* A call stays right when the record it holds is prolonged.
LEMMA CallStays ==
  ASSUME LeaseInv, NEW d, CallOK(d), UNCHANGED <<doNow, doDraining, pointer, deleteLock, lockedAt>>,
         doCounter' \in Nat, doCounter <= doCounter',
         d.pc \in {"start", "run"} =>
           /\ doOwner \in Owners /\ doOwner' \in Owners /\ doOwner'.task = doOwner.task
           /\ doOwner'.gen = doOwner.gen /\ doOwner.lease <= doOwner'.lease
  PROVE CallOK(d)'
<1>1. doCounter \in Nat
  BY SMTT(30) DEF LeaseInv, RegistryOK
<1>2. Carries(d)'
  <2>1. d.fence # NoOne => d.fence.gen \in Nat /\ d.fence.gen <= doCounter
    BY Zenon DEF CallOK, Carries, Fences
  <2>2. d.fence # NoOne => d.fence.gen <= doCounter'
    BY <1>1, <2>1
  <2> QED BY <2>2, Zenon DEF CallOK, Carries
<1>3. Staged(d)' /\ Renewing(d)'
  BY Zenon DEF CallOK, Staged, Renewing, Deleted
<1>4. Admitted(d)'
  <2>1. CASE d.pc \in {"start", "run"}
    <3>1. doOwner.lease \in Nat /\ doOwner'.lease \in Nat /\ doOwner' # NoOne
      BY <2>1, FenceFacts
    <3>2. CASE d.pc = "start"
      <4>1. d.mine.lease \in Nat
        BY <3>2, FenceFacts DEF CallOK, Admitted
      <4> QED BY <2>1, <3>1, <3>2, <4>1 DEF CallOK, Admitted, Holds, Deleted, DeletedBy
    <3>3. CASE d.pc = "run"
      BY <2>1, <3>1, <3>3, DoAssumption DEF CallOK, Admitted, Holds, Deleted, DeletedBy
    <3> QED BY <2>1, <3>2, <3>3
  <2>2. CASE d.pc \notin {"start", "run"}
    BY <2>2 DEF Admitted
  <2> QED BY <2>1, <2>2
<1> QED BY <1>2, <1>3, <1>4 DEF CallOK

\* The registry changes, and one call goes to another phase.
LEMMA RegistryMoves ==
  ASSUME LeaseInv, NEW c \in DoCalls, NEW r, Put(c, r), RegistryOK', HeldOK',
         UNCHANGED <<doNow, doDraining, pointer, deleteLock, lockedAt>>, doCounter <= doCounter',
         \A x \in DoCalls : x # c /\ doCall[x].pc \in {"start", "run"} =>
           /\ doOwner \in Owners /\ doOwner' \in Owners /\ doOwner'.task = doOwner.task
           /\ doOwner'.gen = doOwner.gen /\ doOwner.lease <= doOwner'.lease,
         CallOK(r)', ~Releasing(r), Busy(r) => Busy(doCall[c]) /\ r.at = doCall[c].at
  PROVE LeaseInv'
<1>1. /\ doCall' = [x \in DoCalls |-> doCall'[x]] /\ doCall'[c] = r
      /\ \A x \in DoCalls : x # c => doCall'[x] = doCall[x]
  BY DEF Put, LeaseInv, CallsOK
<1>2. ASSUME NEW x \in DoCalls PROVE CallOK(doCall[x])'
  <2>1. CASE x = c
    BY <1>1, <2>1
  <2>2. CASE x # c
    <3> DEFINE d == doCall[x]
    <3>1. CallOK(d) /\ doCounter' \in Nat
      BY OneCall DEF RegistryOK
    <3>2. d.pc \in {"start", "run"} =>
            /\ doOwner \in Owners /\ doOwner' \in Owners /\ doOwner'.task = doOwner.task
            /\ doOwner'.gen = doOwner.gen /\ doOwner.lease <= doOwner'.lease
      BY <2>2
    <3>3. doCall'[x] = d
      BY <1>1, <2>2
    <3> HIDE DEF d
    <3>4. PICK e : e = d
      OBVIOUS
    <3>5. CallOK(e) /\ (e.pc \in {"start", "run"} =>
            /\ doOwner \in Owners /\ doOwner' \in Owners /\ doOwner'.task = doOwner.task
            /\ doOwner'.gen = doOwner.gen /\ doOwner.lease <= doOwner'.lease)
      BY <3>1, <3>2, <3>4
    <3>6. CallOK(e)'
      BY <3>1, <3>5, CallStays
    <3> QED BY <3>3, <3>4, <3>6, SMTT(30)
  <2> QED BY <2>1, <2>2
<1>3. DrainOK'
  <2>1. \A x \in DoCalls : Releasing(doCall'[x]) => x # c /\ Releasing(doCall[x]) /\ doCall'[x].at = doCall[x].at
    BY <1>1
  <2>2. \A x \in DoCalls : Busy(doCall'[x]) => Busy(doCall[x]) /\ doCall'[x].at = doCall[x].at
    BY <1>1
  <2> QED BY <2>1, <2>2 DEF LeaseInv, DrainOK
<1> QED BY <1>1, <1>2, <1>3, Zenon DEF LeaseInv, CallsOK

\* EXEC of a claim, takeover, repair or renewal.
LEMMA ClaimExecStep ==
  ASSUME LeaseInv, NEW c \in DoCalls, ClaimExec(c) PROVE LeaseInv'
<1> DEFINE d == doCall[c]
           snap == [owner |-> doOwner, counter |-> doCounter, pointer |-> pointer,
                    lock |-> deleteLock, policy |-> policy]
           q == [d EXCEPT !.tries = 0]
           again == [d EXCEPT !.pc = "claim", !.tries = @ + 1, !.seen = NoOne, !.mine = NoOne]
<1>1. /\ UNCHANGED <<doNow, doDraining, pointer, deleteLock, lockedAt>> /\ d.pc = "claimExec"
      /\ \/ /\ d.seen = snap /\ doOwner' = d.mine /\ doCounter' = CounterAfter(d.mine)
            /\ Remember(d.at, d.mine) /\ Route(c, q, d.mine)
         \/ (Put(c, again) \/ Finish(c)) /\ UNCHANGED <<doOwner, doCounter, held>>
  BY Zenon DEF ClaimExec, doEnv, doRedis, doWorker
<1>2. /\ IsOp(d) /\ Carries(d) /\ Staged(d) /\ d.at \in DoTasks /\ d.kind \in {"fetch", "delete"}
      /\ RegistryOK
  BY <1>1, OneCall DEF CallOK, Carries
<1>3. CASE (Put(c, again) \/ Finish(c)) /\ UNCHANGED <<doOwner, doCounter, held>>
  <2>1. UNCHANGED doFixed /\ HeldOK'
    BY <1>1, <1>3, HeldStays DEF doFixed
  <2>2. IsOp(again) /\ again.pc = "claim" /\ again.at = d.at /\ again.kind = d.kind /\ again.fence = d.fence
    BY <1>2, Zenon DEF IsOp, DoFields
  <2>3. Put(c, again) \/ Finish(c)
    BY <1>3
  <2> HIDE DEF again, d
  <2>4. Carries(again) /\ ~Busy(again) /\ ~Releasing(again)
    BY <1>2, <2>2 DEF Carries, LocalPhases, InFlightPhases, ReleasePhases, RenewPhases, Busy, Releasing
  <2>5. CallOK(again)
    BY <2>2, <2>4, PlainPhase
  <2> QED BY <2>1, <2>3, <2>4, <2>5, CallMoves, CallEnds
<1>4. ASSUME d.seen = snap, doOwner' = d.mine, doCounter' = CounterAfter(d.mine),
             Remember(d.at, d.mine), Route(c, q, d.mine)
      PROVE LeaseInv'
  <2>1. /\ d.mine \in Owners /\ d.mine.task = d.at /\ d.mine.lease <= doNow + DoTTL
        /\ \/ /\ doOwner \in Owners /\ doOwner.task = d.at /\ doOwner.gen = d.mine.gen
              /\ doOwner.lease <= d.mine.lease
           \/ (doOwner # NoOne => doOwner.lease <= doNow) /\ d.mine.gen > doCounter
    BY <1>1, <1>2, <1>4 DEF Staged
  <2>2. /\ d.mine.gen \in Nat /\ d.mine.lease \in Nat /\ d.mine # NoOne
        /\ doCounter \in Nat /\ doNow \in Nat
    BY <1>2, <2>1, FenceFacts DEF RegistryOK
  <2>3. /\ doCounter' \in Nat /\ doCounter <= doCounter' /\ d.mine.gen <= doCounter'
    BY <1>4, <2>2 DEF CounterAfter, BiggerOf
  <2>4. 1 <= d.mine.gen
    <3>1. doOwner \in Owners => 1 <= doOwner.gen
      BY <1>2, FenceFacts DEF RegistryOK
    <3> QED BY <2>1, <2>2, <3>1
  <2>5. RegistryOK'
    BY <1>1, <1>2, <1>4, <2>1, <2>2, <2>3, <2>4 DEF RegistryOK
  <2>6. HeldOK'
    BY <1>2, <1>4, <2>1, <2>3, HeldMoves
  <2>7. IsOp(q) /\ q.at = d.at /\ q.kind = d.kind
    BY <1>2 DEF IsOp, DoFields
  <2> HIDE DEF q
  <2>8. PICK r : /\ Put(c, r) /\ IsOp(r)
                 /\ \/ r = DoneSlot
                    \/ /\ r.pc \in {"queued", "forward"} /\ r.at = d.at /\ r.kind = d.kind
                       /\ r.fence \in Fences /\ r.fence # NoOne /\ r.fence.gen = d.mine.gen
                       /\ r.pc = "queued" => r.fence.task = r.at
    <3>1. PICK m : m = d.mine
      BY SMTT(20)
    <3>2. Route(c, q, m) /\ m \in Owners /\ IsOp(q) /\ q.at \in DoTasks /\ q.kind \in {"fetch", "delete"}
      BY <1>2, <1>4, <2>1, <2>7, <3>1, Zenon
    <3>3. PICK r : /\ Put(c, r) /\ IsOp(r)
                   /\ \/ r = DoneSlot
                      \/ /\ r.pc \in {"queued", "forward"} /\ r.at = q.at /\ r.kind = q.kind
                         /\ r.seq = q.seq /\ r.mode = q.mode
                         /\ r.fence \in Fences /\ r.fence # NoOne /\ r.fence.gen = m.gen
                         /\ r.pc = "queued" => r.fence.task = r.at
      BY <3>2, Routed
    <3> QED BY <2>7, <3>1, <3>3
  <2> HIDE DEF d
  <2>9. CallOK(r)' /\ ~Releasing(r) /\ ~Busy(r)
    <3>1. CASE r = DoneSlot
      <4>1. /\ IsOp(r) /\ r.pc = "done" /\ r.fence = NoOne
        BY <3>1, Zenon DEF IsOp, DoFields, DoneSlot, FreeSlot
      <4> HIDE <3>1
      <4> QED BY <4>1 DEF CallOK, Carries, Staged, Renewing, Admitted, LocalPhases, InFlightPhases,
                          ReleasePhases, RenewPhases, Busy, Releasing, IsOp
    <3>2. CASE r # DoneSlot
      BY <1>2, <2>3, <2>8, <3>2, Zenon DEF CallOK, Carries, Staged, Renewing, Admitted, LocalPhases,
                          InFlightPhases, ReleasePhases, RenewPhases, Busy, Releasing, IsOp
    <3> QED BY <3>1, <3>2
  <2>10. \A x \in DoCalls : x # c /\ doCall[x].pc \in {"start", "run"} =>
           /\ doOwner \in Owners /\ doOwner' \in Owners /\ doOwner'.task = doOwner.task
           /\ doOwner'.gen = doOwner.gen /\ doOwner.lease <= doOwner'.lease
    <3> SUFFICES ASSUME NEW x \in DoCalls, doCall[x].pc \in {"start", "run"}
                 PROVE /\ doOwner \in Owners /\ doOwner' \in Owners /\ doOwner'.task = doOwner.task
                       /\ doOwner'.gen = doOwner.gen /\ doOwner.lease <= doOwner'.lease
      OBVIOUS
    <3>1. doOwner \in Owners /\ doNow < doOwner.lease
      BY LeaseLasts
    <3>2. doOwner.lease \in Nat /\ doOwner # NoOne
      BY <3>1, FenceFacts
    <3>3. doOwner.task = d.at /\ doOwner.gen = d.mine.gen /\ doOwner.lease <= d.mine.lease
      BY <2>1, <2>2, <3>1, <3>2
    <3> QED BY <1>4, <2>1, <3>1, <3>3, Zenon
  <2> QED BY <1>1, <2>3, <2>5, <2>6, <2>8, <2>9, <2>10, RegistryMoves
<1> QED BY <1>1, <1>3, <1>4

\* The compare-and-set of a renewal, and its reply.
LEMMA RenewSetStep ==
  ASSUME LeaseInv, NEW c \in DoCalls, RenewSet(c) PROVE LeaseInv'
<1> DEFINE d == doCall[c]
           again == [d EXCEPT !.pc = "renewRead", !.tries = @ + 1, !.seen = NoOne]
           go == [d EXCEPT !.pc = AfterFence(d), !.seen = NoOne, !.since = 0]
<1>1. /\ UNCHANGED <<doNow, doDraining, doCounter, pointer, deleteLock, lockedAt>>
      /\ d.pc = "renewSet"
      /\ \/ (Put(c, again) \/ Finish(c)) /\ UNCHANGED <<doOwner, held>>
         \/ Finish(c) /\ Forget(d.at) /\ UNCHANGED doOwner
         \/ /\ doOwner = d.seen /\ doOwner' = d.mine /\ Remember(d.at, d.mine)
            /\ \/ d.kind = "renew" /\ Finish(c)
               \/ d.kind # "renew" /\ Put(c, go)
  BY Zenon DEF RenewSet, doEnv, doWorker
<1>2. /\ IsOp(d) /\ Carries(d) /\ Renewing(d) /\ d.at \in DoTasks /\ RegistryOK
      /\ d.fence # NoOne /\ d.fence \in Fences /\ d.fence.task = d.at /\ d.fence.gen <= doCounter
  BY <1>1, OneCall, SMTT(30) DEF CallOK, Carries, LocalPhases, InFlightPhases
<1>3. CASE (Put(c, again) \/ Finish(c)) /\ UNCHANGED <<doOwner, held>>
  <2>1. UNCHANGED doFixed /\ HeldOK'
    BY <1>1, <1>3, HeldStays DEF doFixed
  <2>2. /\ IsOp(again) /\ again.pc = "renewRead" /\ again.at = d.at /\ again.kind = d.kind
        /\ again.fence = d.fence /\ again.since = d.since
    BY <1>2, Zenon DEF IsOp, DoFields
  <2>3. Put(c, again) \/ Finish(c)
    BY <1>3
  <2> HIDE DEF again
  <2>4. /\ CallOK(again) /\ ~Releasing(again) /\ (Busy(again) => Busy(d) /\ again.at = d.at)
    BY <1>1, <1>2, <2>2 DEF CallOK, Carries, Staged, Renewing, Admitted, LocalPhases,
                            InFlightPhases, ReleasePhases, RenewPhases, Busy, Releasing
  <2> QED BY <2>1, <2>3, <2>4, CallMoves, CallEnds
<1>4. CASE Finish(c) /\ Forget(d.at) /\ UNCHANGED doOwner
  BY <1>1, <1>2, <1>4, HeldGoes, CallEnds DEF doFixed
<1>5. CASE /\ doOwner = d.seen /\ doOwner' = d.mine /\ Remember(d.at, d.mine)
           /\ \/ d.kind = "renew" /\ Finish(c)
              \/ d.kind # "renew" /\ Put(c, go)
  <2>1. /\ d.readAt \in Nat /\ d.readAt <= doNow /\ doNow <= d.readAt + DoDelay
        /\ d.seen \in Owners /\ d.seen.task = d.fence.task /\ d.seen.gen = d.fence.gen
        /\ d.seen.lease <= d.readAt + DoTTL
        /\ d.mine = [task |-> d.at, gen |-> d.seen.gen, lease |-> d.readAt + DoTTL]
    BY <1>1, <1>2, SMTT(30) DEF Renewing
  <2>2. /\ d.seen.gen \in Nat /\ d.seen.lease \in Nat /\ d.seen # NoOne /\ d.readAt + DoTTL \in Nat
        /\ doNow \in Nat /\ doCounter \in Nat
    BY <1>2, <2>1, FenceFacts, DoAssumption, SMTT(30) DEF RegistryOK
  <2>3. /\ d.mine \in Owners /\ d.mine.task = d.at /\ d.mine.gen = d.seen.gen
        /\ d.mine.lease = d.readAt + DoTTL
    <3> HIDE DEF d
    <3> QED BY <1>2, <2>1, <2>2 DEF Owners
  <2>4. RegistryOK'
    BY <1>1, <1>2, <1>5, <2>1, <2>2, <2>3, DoAssumption DEF RegistryOK
  <2>5. HeldOK'
    BY <1>1, <1>2, <1>5, <2>1, <2>2, <2>3, HeldMoves
  <2>6. \A x \in DoCalls : x # c /\ doCall[x].pc \in {"start", "run"} =>
           /\ doOwner \in Owners /\ doOwner' \in Owners /\ doOwner'.task = doOwner.task
           /\ doOwner'.gen = doOwner.gen /\ doOwner.lease <= doOwner'.lease
    BY <1>2, <1>5, <2>1, <2>3
  <2>7. /\ IsOp(go) /\ go.pc = AfterFence(d) /\ go.at = d.at /\ go.kind = d.kind /\ go.fence = d.fence
        /\ go.mine = d.mine /\ go.readAt = d.readAt
    BY <1>2, Zenon DEF IsOp, DoFields
  <2>8. AfterFence(d) \in {"register", "start"} /\ doCounter <= doCounter'
    BY <1>1, <2>2 DEF AfterFence
  <2> HIDE DEF go
  <2>9. PICK r : r = IF d.kind = "renew" THEN DoneSlot ELSE go
    OBVIOUS
  <2>10. PICK e : e = d
    OBVIOUS
  <2>11. Put(c, r)
    BY <1>5, <2>9 DEF Finish, DoneSlot
  <2>12. CallOK(r)' /\ ~Releasing(r) /\ (Busy(r) => Busy(doCall[c]) /\ r.at = doCall[c].at)
    <3>1. CASE d.kind = "renew"
      <4>1. /\ IsOp(r) /\ r.pc = "done" /\ r.fence = NoOne
        BY <2>9, <3>1, ZenonT(30) DEF IsOp, DoFields, DoneSlot, FreeSlot
      <4> QED BY <4>1 DEF CallOK, Carries, Staged, Renewing, Admitted, LocalPhases, InFlightPhases,
                          ReleasePhases, RenewPhases, Busy, Releasing, IsOp
    <3>2. CASE d.kind # "renew"
      <4>1. /\ IsOp(r) /\ r.pc \in {"register", "start"} /\ r.at = e.at /\ r.kind = e.kind
            /\ r.fence = e.fence /\ r.mine = e.mine /\ r.readAt = e.readAt
        BY <2>7, <2>8, <2>9, <2>10, <3>2
      <4>2. /\ e.at \in DoTasks /\ e.kind \in {"fetch", "delete"} /\ e.fence \in Fences
            /\ e.fence # NoOne /\ e.fence.task = e.at /\ e.fence.gen <= doCounter'
        BY <1>1, <1>2, <2>10, <3>2 DEF Carries, RenewPhases
      <4>3. Carries(r)' /\ ~Releasing(r) /\ Busy(d)
        BY <1>1, <2>10, <4>1, <4>2 DEF Carries, LocalPhases, InFlightPhases, ReleasePhases, RenewPhases,
                          Busy, Releasing
      <4>4. /\ e.readAt \in Nat /\ e.readAt <= doNow /\ doNow <= e.readAt + DoDelay
            /\ e.mine \in Owners /\ e.mine.lease = e.readAt + DoTTL
            /\ e.mine = doOwner' /\ e.mine.task = e.fence.task /\ e.mine.gen = e.fence.gen
            /\ e.mine # NoOne
        BY <1>2, <1>5, <2>1, <2>3, <2>10, FenceFacts, Zenon
      <4>5. Deleted => e.readAt + DoTTL <= DeletedBy
        <5>1. d.since \in Nat /\ doNow <= d.since + DoCheck /\ (Deleted => d.since <= lockedAt)
          BY <1>1, <1>2, <3>2 DEF Renewing, RenewPhases
        <5>2. lockedAt \in Nat
          BY <1>2 DEF RegistryOK
        <5> QED BY <2>2, <4>4, <5>1, <5>2, DoAssumption DEF DeletedBy
      <4>6. Deleted' = Deleted /\ DeletedBy' = DeletedBy /\ doNow' = doNow
        BY <1>1 DEF Deleted, DeletedBy
      <4>7. e.readAt + DoGuard <= e.mine.lease /\ e.mine.lease <= doOwner'.lease
        BY <4>4, DoAssumption
      <4>8. Admitted(r)'
        BY <4>1, <4>4, <4>5, <4>6, <4>7 DEF Admitted, Holds
      <4>9. CallOK(r)'
        BY <4>1, <4>3, <4>8 DEF CallOK, Staged, Renewing, RenewPhases, IsOp
      <4> QED BY <2>10, <4>1, <4>3, <4>9
    <3> QED BY <3>1, <3>2, SMTT(30)
  <2> QED BY <1>1, <2>4, <2>5, <2>6, <2>8, <2>11, <2>12, RegistryMoves
<1> HIDE DEF d, again, go
<1> QED BY <1>1, <1>3, <1>4, <1>5

===============================================================================
