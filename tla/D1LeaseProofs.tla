---------------------------- MODULE D1LeaseProofs ----------------------------
(***************************************************************************)
(* Proof that SQL runs only under a live owner lease, for any number of    *)
(* tasks and operations and for every choice of times and bounds, that     *)
(* generations rise, and that the registry implements the abstract fenced  *)
(* writer.                                                                 *)
(***************************************************************************)
EXTENDS D1LeaseInvariant, TLAPS

----------------------------------------------------------------------------
(* Steps at Redis.                                                         *)

\* A read at Redis fills the snapshot of the operation that sent it.
LEMMA RedisReadStep ==
  ASSUME IInv, NEW o \in Ops, RedisRead(o)
  PROVE  IInv'
<1> DEFINE pc == ReadThen[op[o].pc]
           snap == IF op[o].pc \in {"repairRead", "timeRead"} THEN NoOwner ELSE owner
           cnt == IF op[o].pc \in WatchPhases THEN counter ELSE 0
           at == IF op[o].pc \in {"repairRead", "releaseRead"} THEN 0 ELSE now
           r == [op[o] EXCEPT !.pc = pc, !.snap = snap, !.cnt = cnt, !.at = at]
<1>1. OthersKept /\ Shape(op[o]) /\ op[o].pc \in DOMAIN ReadThen
  BY AllKept DEF RedisRead, IInv
<1>2. op' = [op EXCEPT ![o] = r]
  BY Zenon DEF RedisRead
<1>3. /\ snap \in MaybeOwner /\ cnt \in Gens /\ at \in Nat /\ at <= now
      /\ snap.lease \in Nat /\ snap.lease <= now + TTL
  BY BoundsAssumption, TimesAssumption DEF IInv, TypeOK, MaybeOwner, OwnerRecord, NoOwner, Gens
<1>4. pc \in Phases
  BY <1>1 DEF Phases
<1> HIDE DEF pc, snap, cnt, at
<1>5. /\ r \in Operation /\ r.pc = pc /\ r.snap = snap /\ r.at = at
      /\ r.task = op[o].task /\ r.arg = op[o].arg /\ r.kind = op[o].kind
  BY <1>3, <1>4, OpFields, ZenonT(30) DEF Operation
<1> HIDE DEF r
<1>6. now \in Nat /\ op[o].task \in Tasks
  BY <1>1, OpFields DEF IInv, TypeOK, ReadThen
<1>7. Shape(r)
  BY <1>1, <1>3, <1>5, <1>6, TimesAssumption
  DEF Shape, ReadThen, pc, at, LocalPhases, PendingPhases, ReleasePhases, CheckedPhases
<1>8. Covered(r)
  BY <1>3, <1>5 DEF Covered, CoveredBy, snap, SameFence, NoOwner, IInv, TypeOK
<1>9. Admitted(r) => Admitted(op[o])
  BY <1>1, <1>5 DEF Admitted, ReadThen, pc, PendingPhases
<1>10. /\ r.pc \in ReleasePhases => op[o].pc \in ReleasePhases
       /\ r.pc # "drainWait"
  BY <1>1, <1>5 DEF ReadThen, pc, ReleasePhases
<1>11. r.pc \in ReleasePhases => draining'[r.task]
  BY <1>5, <1>6, <1>10, <1>1 DEF IInv, Quiet, OthersKept
<1> QED
  BY <1>1, <1>2, <1>5, <1>7, <1>8, <1>9, <1>10, <1>11, OpStep, Zenon

\* A write of the owner record keeps the invariant if it leaves every checked
\* request covered.
LEMMA OwnerStep ==
  ASSUME IInv, NEW o \in Ops, NEW r \in Operation,
         op' = [op EXCEPT ![o] = r], UNCHANGED <<now, memory, log>>,
         owner' \in MaybeOwner, owner'.lease <= now + TTL, counter' \in Gens,
         handed' \subseteq Gens,
         Shape(r), CoveredBy(r, owner', handed'),
         Admitted(r) => Admitted(op[o]) /\ r.task = op[o].task,
         r.pc \in ReleasePhases => op[o].pc \in ReleasePhases /\ r.task = op[o].task,
         r.pc # "drainWait",
         \A p \in Ops \ {o} : CoveredBy(op[p], owner', handed')
  PROVE  IInv'
<1> USE DEF IInv
<1>1. TypeOK'
  BY DEF TypeOK, memory
<1>2. \A p \in Ops : op'[p] = IF p = o THEN r ELSE op[p]
  BY DEF TypeOK
<1>3. \A q : Shape(q) => Shape(q)'
  BY ZenonT(30) DEF Shape
<1>4. \A p \in Ops : Shape(op[p])'
  BY <1>2, <1>3 DEF Shape
<1>5. \A p \in Ops : Covered(op[p])'
  BY <1>2, Zenon DEF Covered, CoveredBy
<1>6. Quiet'
  BY <1>2 DEF Quiet, Admitted, memory
<1> QED
  BY <1>1, <1>4, <1>5, <1>6

\* What a checked request that must stay covered says about the record.
LEMMA CoveredOwner ==
  ASSUME IInv, NEW p \in Ops, handed \subseteq handed', now' = now,
         op[p].kind = "query", op[p].pc \in CheckedPhases, op[p].snap.task = op[p].task,
         op[p].snap.gen \notin handed', now < op[p].snap.lease
  PROVE  /\ owner # NoOwner /\ now < owner.lease /\ op[p].snap.lease <= owner.lease
         /\ owner.task = op[p].task /\ owner.gen = op[p].snap.gen
         /\ Admitted(op[p])
<1>1. SameFence(owner, op[p].snap) /\ op[p].snap.lease <= owner.lease
  BY DEF IInv, Covered, CoveredBy
<1>2. now \in Nat /\ owner.lease \in Nat /\ op[p].snap.lease \in Nat
  BY OpFields DEF IInv, TypeOK, MaybeOwner, OwnerRecord, NoOwner
<1> QED
  BY <1>1, <1>2 DEF SameFence, Admitted, CheckedPhases, PendingPhases

\* EXEC of a claim replaces a record only if it is absent or expired.
LEMMA ClaimExecStepRedis ==
  ASSUME IInv, NEW o \in Ops, ClaimExec(o)
  PROVE  IInv'
<1> DEFINE gen == NextGeneration(op[o].cnt, op[o].snap)
           rec == OwnerRecordFor(op[o].task, gen, op[o].at)
<1>1. op[o].pc = "claimExec" /\ UNCHANGED <<now, memory, log>> /\ Shape(op[o])
  BY DEF ClaimExec, IInv
<1>2. CASE Finish(o) /\ UNCHANGED redis
  BY <1>1, <1>2, AllKept, FinishStep
<1>3. CASE /\ UNCHANGED redis
           /\ Retry(o, "claimRead", "raceRead") \/ Retry(o, "takeRead", "idle")
  BY <1>1, <1>3, AllKept, RetryStep, Plain DEF PlainPhases
<1>4. CASE /\ gen <= MaxGen /\ ~Unwatched(o) /\ owner' = rec /\ counter' = gen /\ UNCHANGED handed
           /\ op' = [op EXCEPT ![o].pc = "claimed", ![o].arg = rec]
  <2> DEFINE r == [op[o] EXCEPT !.pc = "claimed", !.arg = rec]
  <2>1. /\ op[o].task \in Tasks /\ op[o].at \in Nat /\ op[o].at <= now /\ now \in Nat
        /\ op[o].cnt \in Nat /\ op[o].snap.gen \in Nat /\ op[o].snap.lease \in Nat
    BY <1>1, OpFields, BoundsAssumption
    DEF IInv, TypeOK, Operation, MaybeOwner, OwnerRecord, NoOwner, Gens
  <2>2. gen \in Gens \ {0}
    BY <1>4, <2>1, BoundsAssumption DEF NextGeneration, MaxOf, Gens
  <2> HIDE DEF gen
  <2>3. rec \in MaybeOwner /\ rec.lease = op[o].at + TTL
    BY <2>1, <2>2, TimesAssumption DEF OwnerRecordFor, MaybeOwner, OwnerRecord
  <2> HIDE DEF rec
  <2>4. op' = [op EXCEPT ![o] = r]
    BY <1>4, Zenon
  <2>5. r \in Operation /\ r.pc = "claimed" /\ r.task = op[o].task /\ r.at = op[o].at
    BY <2>3, OpFields, ZenonT(30) DEF Operation, Phases
  <2> HIDE DEF r
  <2>6. Shape(r) /\ CoveredBy(r, owner', handed') /\ ~Admitted(r) /\ r.pc \notin ReleasePhases \cup {"drainWait"}
    BY <2>1, <2>5
    DEF Shape, Covered, CoveredBy, Admitted, LocalPhases, PendingPhases, ReleasePhases, CheckedPhases
  <2>7. \A p \in Ops : CoveredBy(op[p], owner', handed')
    <3>1. owner.lease <= now
      BY <1>1, <1>4, <2>1 DEF Shape, Unwatched
    <3>2. now \in Nat /\ owner.lease \in Nat
      BY <2>1 DEF IInv, TypeOK, MaybeOwner, OwnerRecord, NoOwner
    <3>3. ASSUME NEW p \in Ops PROVE CoveredBy(op[p], owner', handed')
      BY <1>1, <1>4, <3>1, <3>2, CoveredOwner DEF Covered, CoveredBy
    <3> QED
      BY <3>3
  <2>8. owner' \in MaybeOwner /\ owner'.lease <= now + TTL /\ counter' \in Gens /\ handed' \subseteq Gens
    BY <1>4, <2>1, <2>2, <2>3, TimesAssumption DEF IInv, TypeOK
  <2> QED
    BY <1>1, <2>4, <2>5, <2>6, <2>7, <2>8, OwnerStep, Zenon
<1> QED
  BY <1>2, <1>3, <1>4 DEF ClaimExec

\* The conditional write of a renewal keeps the fence and extends the lease.
LEMMA RenewSetStep ==
  ASSUME IInv, NEW o \in Ops, RenewSet(o)
  PROVE  IInv'
<1> DEFINE rec == OwnerRecordFor(op[o].task, op[o].arg.gen, op[o].at)
<1>1. op[o].pc = "renewSet" /\ UNCHANGED <<now, counter, handed, memory, log>> /\ Shape(op[o])
  BY DEF RenewSet, IInv
<1>2. CASE owner # op[o].snap
  <2>1. Retry(o, "renewRead", "idle") /\ OthersKept
    BY <1>1, <1>2, AllKept DEF RenewSet, redis
  <2> QED
    BY <1>1, <2>1, RetryStep DEF Phases, ReadThen
<1>3. CASE owner = op[o].snap
  <2> DEFINE r == [op[o] EXCEPT !.pc = "renewed", !.snap = rec]
  <2>1. /\ op[o].task \in Tasks /\ op[o].at \in Nat /\ op[o].at <= now /\ now \in Nat
        /\ SameFence(owner, op[o].arg) /\ op[o].arg.task = op[o].task
        /\ op[o].arg \in OwnerRecord /\ owner \in OwnerRecord /\ owner.lease <= op[o].at + TTL
    BY <1>1, <1>3, OpFields, ZenonT(30)
    DEF IInv, TypeOK, Shape, LocalPhases, PendingPhases, SameFence, MaybeOwner
  <2>2. /\ rec \in OwnerRecord /\ rec.lease = op[o].at + TTL
        /\ rec.task = op[o].task /\ rec.gen = op[o].arg.gen
    BY <2>1, TimesAssumption DEF OwnerRecordFor, OwnerRecord
  <2>3. owner' = rec /\ op' = [op EXCEPT ![o] = r]
    BY <1>3, Zenon DEF RenewSet
  <2> HIDE DEF rec
  <2>4. /\ r \in Operation /\ r.pc = "renewed" /\ r.task = op[o].task /\ r.at = op[o].at
        /\ r.snap = rec /\ r.arg = op[o].arg /\ r.kind = op[o].kind
    BY <2>2, OpFields, ZenonT(30) DEF Operation, Phases, MaybeOwner
  <2> HIDE DEF r
  <2>5. rec # NoOwner /\ op[o].arg # NoOwner
    BY <2>1, <2>2, BoundsAssumption DEF OwnerRecord, NoOwner
  <2>6. Shape(r) /\ r.pc \notin ReleasePhases \cup {"drainWait"}
    BY <1>1, <2>1, <2>2, <2>4, <2>5, ZenonT(30)
    DEF Shape, SameFence, LocalPhases, PendingPhases, ReleasePhases, CheckedPhases
  <2>7. CoveredBy(r, owner', handed')
    BY <2>2, <2>3, <2>4, <2>5, TimesAssumption DEF CoveredBy, SameFence, OwnerRecord
  <2>8. ASSUME NEW p \in Ops PROVE CoveredBy(op[p], owner', handed')
    <3>1. /\ rec.task = owner.task /\ rec.gen = owner.gen /\ owner.lease <= rec.lease
          /\ owner.lease \in Nat /\ rec.lease \in Nat /\ op[p].snap \in MaybeOwner
      BY <2>1, <2>2, OpFields DEF SameFence, OwnerRecord
    <3>2. op[p].snap.lease \in Nat /\ (now < op[p].snap.lease => op[p].snap # NoOwner)
      BY <2>1, <3>1 DEF MaybeOwner, OwnerRecord, NoOwner
    <3> QED
      BY <1>1, <2>3, <2>5, <3>1, <3>2, CoveredOwner DEF CoveredBy, SameFence
  <2>9. Admitted(r) => Admitted(op[o])
    BY <1>1, <2>4 DEF Admitted, PendingPhases
  <2>10. owner' \in MaybeOwner /\ owner'.lease <= now + TTL /\ counter' \in Gens /\ handed' \subseteq Gens
    BY <1>1, <2>1, <2>2, <2>3, TimesAssumption DEF IInv, TypeOK, MaybeOwner
  <2> QED
    BY <1>1, <2>3, <2>4, <2>6, <2>7, <2>8, <2>9, <2>10, OwnerStep, Zenon
<1> QED
  BY <1>2, <1>3

\* Raising the counter leaves the owner record alone.
LEMMA RepairSetStep ==
  ASSUME IInv, NEW o \in Ops, RepairSet(o)
  PROVE  IInv'
<1>1. /\ op[o].pc = "repairSet" /\ op[o].pc \in LocalPhases /\ Shape(op[o])
      /\ UNCHANGED <<now, owner, handed, memory, log>>
  BY Zenon DEF RepairSet, LocalPhases, IInv
<1>2. CASE counter # op[o].cnt
  <2>1. Retry(o, "repairRead", "local") /\ OthersKept
    BY <1>1, <1>2, AllKept DEF RepairSet, redis
  <2> QED
    BY <1>1, <2>1, RetryStep DEF Phases, ReadThen
<1>3. CASE counter = op[o].cnt
  <2> DEFINE r == [op[o] EXCEPT !.pc = "local", !.snap = NoOwner, !.cnt = 0, !.at = 0,
                                !.tries = op[o].tries]
  <2>1. counter' = op[o].arg.gen /\ op' = [op EXCEPT ![o] = r]
    BY <1>3, ZenonT(30) DEF RepairSet, Send, Again
  <2>2. op[o] \in Operation /\ NoOwner \in MaybeOwner /\ 0 \in Gens /\ "local" \in Phases
        /\ op[o].tries \in 0 .. Retries /\ now \in Nat /\ op[o].arg \in MaybeOwner
    BY OpFields, BoundsAssumption DEF IInv, TypeOK, Gens, MaybeOwner, Phases, Operation
  <2>3. /\ r \in Operation /\ r.pc = "local" /\ r.task = op[o].task /\ r.at = 0
        /\ r.arg = op[o].arg
    BY <2>2, ZenonT(30) DEF Operation
  <2> HIDE DEF r
  <2>4. /\ Shape(r) /\ CoveredBy(r, owner', handed') /\ ~Admitted(r)
        /\ r.pc \notin ReleasePhases \cup {"drainWait"}
    BY <1>1, <2>2, <2>3
    DEF Shape, CoveredBy, Admitted, LocalPhases, PendingPhases, ReleasePhases, CheckedPhases
  <2>5. \A p \in Ops : CoveredBy(op[p], owner', handed')
    BY <1>1 DEF IInv, Covered
  <2>6. owner' \in MaybeOwner /\ owner'.lease <= now + TTL /\ counter' \in Gens /\ handed' \subseteq Gens
    BY <1>1, <2>1, <2>2, BoundsAssumption DEF IInv, TypeOK, MaybeOwner, OwnerRecord, NoOwner, Gens
  <2> QED
    BY <1>1, <2>1, <2>3, <2>4, <2>5, <2>6, OwnerStep, Zenon
<1> QED
  BY <1>2, <1>3

\* A release deletes a record that no checked request of its task still needs.
LEMMA ReleaseDelStep ==
  ASSUME IInv, NEW o \in Ops, ReleaseDel(o)
  PROVE  IInv'
<1>1. /\ op[o].pc = "releaseDel" /\ Shape(op[o]) /\ op[o].task \in Tasks
      /\ UNCHANGED <<now, counter, handed, memory, log>>
  BY OpFields DEF ReleaseDel, IInv
<1>2. CASE owner # op[o].snap
  <2> DEFINE r == [op[o] EXCEPT !.pc = "releaseRead", !.snap = NoOwner, !.tries = op[o].tries + 1]
  <2>1. op' = [op EXCEPT ![o] = r] /\ OthersKept
    BY <1>1, <1>2, AllKept, Zenon DEF ReleaseDel, redis
  <2>2. op[o].tries \in 0 .. Retries /\ op[o].tries < Retries
    BY <1>1, OpFields, Zenon DEF Operation, Shape
  <2>3. op[o] \in Operation /\ NoOwner \in MaybeOwner /\ "releaseRead" \in Phases
        /\ op[o].tries + 1 \in 0 .. Retries
    BY <2>2, OpFields, BoundsAssumption DEF MaybeOwner, Phases, ReadThen
  <2>4. /\ r \in Operation /\ r.pc = "releaseRead" /\ r.task = op[o].task /\ r.at = op[o].at
        /\ r.arg = op[o].arg
    BY <2>3, ZenonT(30) DEF Operation
  <2> HIDE DEF r
  <2>5. Shape(r) /\ Covered(r) /\ ~Admitted(r)
    BY <1>1, <2>4, SMTT(30)
    DEF Shape, Covered, CoveredBy, Admitted, LocalPhases, PendingPhases, ReleasePhases, CheckedPhases
  <2>6. op[o].pc \in ReleasePhases /\ draining'[op[o].task]
    BY <1>1, <2>1 DEF IInv, Quiet, ReleasePhases, OthersKept
  <2> QED
    BY <2>1, <2>4, <2>5, <2>6, OpStep, Zenon
<1>3. CASE owner = op[o].snap
  <2> DEFINE r == [op[o] EXCEPT !.pc = "released"]
  <2>1. owner' = NoOwner /\ op' = [op EXCEPT ![o] = r]
    BY <1>3 DEF ReleaseDel, Goto
  <2>2. /\ r \in Operation /\ r.pc = "released" /\ r.task = op[o].task /\ r.at = op[o].at
        /\ r.arg = op[o].arg
    BY OpFields DEF Operation, Phases
  <2> HIDE DEF r
  <2>3. Shape(r) /\ CoveredBy(r, owner', handed') /\ ~Admitted(r) /\ r.pc # "drainWait"
    BY <1>1, <2>2, Zenon
    DEF Shape, CoveredBy, Admitted, LocalPhases, PendingPhases, ReleasePhases, CheckedPhases
  <2>4. op[o].pc \in ReleasePhases /\ owner.task = op[o].task
    BY <1>1, <1>3 DEF ReleasePhases, Shape, SameFence
  <2>5. ASSUME NEW p \in Ops PROVE CoveredBy(op[p], owner', handed')
    <3>1. op[p].task = op[o].task => ~Admitted(op[p])
      BY <2>4, Zenon DEF IInv, Quiet
    <3> QED
      BY <1>1, <2>4, <3>1, CoveredOwner, Zenon DEF CoveredBy
  <2>6. owner' \in MaybeOwner /\ owner'.lease <= now + TTL /\ counter' \in Gens /\ handed' \subseteq Gens
    BY <1>1, <2>1, TimesAssumption DEF IInv, TypeOK, MaybeOwner, NoOwner
  <2> QED
    BY <1>1, <2>1, <2>2, <2>3, <2>4, <2>5, <2>6, OwnerStep, Zenon
<1> QED
  BY <1>2, <1>3

\* A rebalance records the generation it takes away as handed over.
LEMMA MoveDropStep ==
  ASSUME IInv, NEW o \in Ops, MoveExec(o) \/ DropExec(o)
  PROVE  IInv'
<1> DEFINE gen == NextGeneration(op[o].cnt, op[o].snap)
           rec == OwnerRecordFor(op[o].target, gen, op[o].at)
<1>1. op[o].pc \in {"moveExec", "dropExec"} /\ UNCHANGED <<now, memory, log>> /\ Shape(op[o])
  BY DEF MoveExec, DropExec, IInv
<1>2. CASE UNCHANGED redis /\ (Finish(o) \/ Retry(o, "rebalanceRead", "idle"))
  BY <1>1, <1>2, AllKept, FinishStep, RetryStep, Plain DEF PlainPhases
<1>3. ASSUME owner = op[o].snap, handed' = handed \cup {op[o].snap.gen},
             NEW r \in Operation, op' = [op EXCEPT ![o] = r],
             r.pc \in {"moved", "dropped"}, r.task = op[o].task, r.at = op[o].at,
             owner' \in MaybeOwner, owner'.lease <= now + TTL, counter' \in Gens
      PROVE  IInv'
  <2>1. /\ Shape(r) /\ CoveredBy(r, owner', handed') /\ ~Admitted(r)
        /\ r.pc \notin ReleasePhases \cup {"drainWait"}
    BY <1>1, <1>3
    DEF Shape, CoveredBy, Admitted, LocalPhases, PendingPhases, ReleasePhases, CheckedPhases
  <2>2. ASSUME NEW p \in Ops PROVE CoveredBy(op[p], owner', handed')
    <3>1. handed \subseteq handed' /\ now' = now /\ owner.gen \in handed'
      BY <1>1, <1>3
    <3> QED
      BY <3>1, CoveredOwner, Zenon DEF CoveredBy
  <2>3. handed' \subseteq Gens
    <3>1. op[o].snap.gen \in Gens /\ handed \subseteq Gens
      BY OpFields, BoundsAssumption DEF IInv, TypeOK, MaybeOwner, OwnerRecord, NoOwner, Gens
    <3> QED
      BY <1>3, <3>1, SMTT(30)
  <2> QED
    BY <1>1, <1>3, <2>1, <2>2, <2>3, OwnerStep, ZenonT(30)
<1>4. CASE /\ MoveExec(o) /\ gen <= MaxGen /\ ~Unwatched(o) /\ owner' = rec /\ counter' = gen
           /\ handed' = handed \cup {op[o].snap.gen}
           /\ op' = [op EXCEPT ![o].pc = "moved", ![o].arg = rec]
  <2> DEFINE r == [op[o] EXCEPT !.pc = "moved", !.arg = rec]
  <2>1. /\ op[o].target \in Tasks /\ op[o].at \in Nat /\ op[o].at <= now /\ now \in Nat
        /\ op[o].cnt \in Nat /\ op[o].snap.gen \in Nat
    BY <1>1, <1>4, OpFields, BoundsAssumption
    DEF MoveExec, Shape, IInv, TypeOK, Operation, MaybeOwner, OwnerRecord, NoOwner, Gens
  <2>2. gen \in Gens \ {0}
    BY <1>4, <2>1, BoundsAssumption DEF NextGeneration, MaxOf, Gens
  <2> HIDE DEF gen
  <2>3. rec \in MaybeOwner /\ rec.lease = op[o].at + TTL
    BY <2>1, <2>2, TimesAssumption DEF OwnerRecordFor, MaybeOwner, OwnerRecord
  <2> HIDE DEF rec
  <2>4. op' = [op EXCEPT ![o] = r]
    BY <1>4, Zenon
  <2>5. r \in Operation /\ r.pc = "moved" /\ r.task = op[o].task /\ r.at = op[o].at
    BY <2>3, OpFields, ZenonT(30) DEF Operation, Phases
  <2> HIDE DEF r
  <2>6. owner = op[o].snap /\ owner'.lease <= now + TTL
    BY <1>4, <2>1, <2>3, TimesAssumption DEF Unwatched
  <2> QED
    BY <1>3, <1>4, <2>2, <2>3, <2>4, <2>5, <2>6, ZenonT(30)
<1>5. CASE /\ DropExec(o) /\ ~Unwatched(o) /\ owner' = NoOwner /\ UNCHANGED counter
           /\ handed' = handed \cup {op[o].snap.gen} /\ Goto(o, "dropped")
  <2> DEFINE r == [op[o] EXCEPT !.pc = "dropped"]
  <2>1. op' = [op EXCEPT ![o] = r]
    BY <1>5 DEF Goto
  <2>2. r \in Operation /\ r.pc = "dropped" /\ r.task = op[o].task /\ r.at = op[o].at
    BY OpFields DEF Operation, Phases
  <2> HIDE DEF r
  <2>3. owner = op[o].snap /\ owner' \in MaybeOwner /\ owner'.lease <= now + TTL /\ counter' \in Gens
    BY <1>5, TimesAssumption DEF Unwatched, IInv, TypeOK, MaybeOwner, NoOwner
  <2> QED
    BY <1>3, <1>5, <2>1, <2>2, <2>3, Zenon
<1> QED
  BY <1>2, <1>4, <1>5 DEF MoveExec, DropExec

----------------------------------------------------------------------------
(* Arrivals and the environment.                                           *)

\* An operation arrives.
LEMMA BeginStep ==
  ASSUME IInv, NEW o \in Ops, NEW t \in Tasks, Begin(o, t)
  PROVE  IInv'
<1>1. /\ op[o].pc = "idle" /\ OwnedFence(t) \in MaybeOwner /\ NoOwner \in MaybeOwner
      /\ OwnedFence(t) = NoOwner \/ OwnedFence(t).task = t
      /\ owned[t] # 0 => OwnedFence(t).task = t
      /\ now \in Nat
  BY DEF Begin, BeginQuery, BeginRenew, BeginDrain, BeginRebalance, OwnedFence, IInv, TypeOK,
         MaybeOwner, OwnerRecord
<1>2. {"resolve", "renewRead", "drainWait", "rebalanceRead"} \subseteq Phases
  BY DEF Phases, ReadThen
<1>3. CASE BeginQuery(o, t)
  <2> DEFINE r == Slot("resolve", "query", t, NoOwner, NoTask)
  <2>1. op' = [op EXCEPT ![o] = r] /\ OthersKept
    BY <1>3, AllKept DEF BeginQuery
  <2>2. r \in Operation /\ r.pc = "resolve" /\ r.task = t /\ r.at = 0
    BY <1>1, <1>2, SlotType, SMTT(30) DEF Kinds
  <2> HIDE DEF r
  <2>3. r.at <= now /\ r.pc \in PlainPhases
    BY <1>1, <2>2, Plain
  <2> QED
    BY <2>1, <2>2, <2>3, PlainStep, Zenon
<1>4. CASE \E target \in Tasks \cup {NoTask} : BeginRebalance(o, t, target)
  <2>1. PICK target \in Tasks \cup {NoTask} : BeginRebalance(o, t, target)
    BY <1>4
  <2> DEFINE r == Slot("rebalanceRead", "rebalance", t, NoOwner, target)
  <2>2. op' = [op EXCEPT ![o] = r] /\ OthersKept
    BY <2>1, AllKept DEF BeginRebalance
  <2>3. r \in Operation /\ r.pc = "rebalanceRead" /\ r.task = t /\ r.at = 0
    BY <1>1, <1>2, SlotType DEF Kinds
  <2> HIDE DEF r
  <2>4. r.at <= now /\ r.pc \in PlainPhases
    BY <1>1, <2>3, Plain
  <2> QED
    BY <2>2, <2>3, <2>4, PlainStep, Zenon
<1>5. CASE BeginRenew(o, t)
  <2> DEFINE r == Slot("renewRead", "renew", t, OwnedFence(t), NoTask)
  <2>1. op' = [op EXCEPT ![o] = r] /\ OthersKept /\ owned[t] # 0
    BY <1>5, AllKept DEF BeginRenew
  <2>2. /\ r \in Operation /\ r.pc = "renewRead" /\ r.kind = "renew" /\ r.task = t /\ r.at = 0
        /\ r.arg = OwnedFence(t)
    <3>1. "renewRead" \in Phases /\ "renew" \in Kinds /\ OwnedFence(t) \in MaybeOwner
      BY <1>1, <1>2 DEF Kinds
    <3> QED
      BY <3>1, SlotType
  <2> HIDE DEF r
  <2>3. Shape(r) /\ Covered(r) /\ ~Admitted(r) /\ r.pc \notin ReleasePhases \cup {"drainWait"}
    BY <1>1, <2>1, <2>2
    DEF Shape, Covered, CoveredBy, Admitted, LocalPhases, PendingPhases, ReleasePhases, CheckedPhases
  <2> QED
    BY <2>1, <2>2, <2>3, OpStep, Zenon
<1>6. CASE BeginDrain(o, t)
  <2> DEFINE r == Slot("drainWait", "drain", t, OwnedFence(t), NoTask)
  <2>1. op' = [op EXCEPT ![o] = r]
    BY <1>6 DEF BeginDrain
  <2>2. OthersKept /\ draining'[t]
    BY <1>6 DEF BeginDrain, OthersKept, IInv, TypeOK, redis
  <2>3. /\ r \in Operation /\ r.pc = "drainWait" /\ r.kind = "drain" /\ r.task = t /\ r.at = 0
        /\ r.arg = OwnedFence(t)
    <3>1. "drainWait" \in Phases /\ "drain" \in Kinds /\ OwnedFence(t) \in MaybeOwner
      BY <1>1, <1>2 DEF Kinds
    <3> QED
      BY <3>1, SlotType
  <2> HIDE DEF r
  <2>4. Shape(r) /\ Covered(r) /\ ~Admitted(r) /\ r.pc \notin ReleasePhases
    BY <1>1, <2>3
    DEF Shape, Covered, CoveredBy, Admitted, LocalPhases, PendingPhases, ReleasePhases, CheckedPhases
  <2> QED
    BY <2>1, <2>2, <2>3, <2>4, OpStep, Zenon
<1> QED
  BY <1>3, <1>4, <1>5, <1>6 DEF Begin

\* A restarted task has no operation left.
LEMMA CrashStep ==
  ASSUME IInv, NEW t \in Tasks, Crash(t)
  PROVE  IInv'
<1> USE DEF IInv
<1>1. UNCHANGED <<now, redis, log>>
  BY DEF Crash
<1>2. \A p \in Ops : op'[p] = IF op[p].task = t THEN Idle ELSE op[p]
  BY DEF Crash
<1>3. TypeOK'
  <2>1. NoEntry \in CacheEntry /\ 0 \in Gens
    BY BoundsAssumption DEF CacheEntry, Gens
  <2>2. op' \in [Ops -> Operation]
    BY IdleType, SMTT(30) DEF Crash, TypeOK
  <2> QED
    BY <1>1, <2>1, <2>2 DEF Crash, TypeOK, redis
<1>4. Shape(Idle) /\ Covered(Idle) /\ ~Admitted(Idle) /\ Idle.pc \notin ReleasePhases \cup {"drainWait"}
  BY IdleType
  DEF TypeOK, Shape, Covered, CoveredBy, Admitted, LocalPhases, PendingPhases, ReleasePhases, CheckedPhases
<1>5. \A q : (Shape(q) => Shape(q)') /\ (Covered(q) => Covered(q)')
  BY <1>1, ZenonT(30) DEF Shape, Covered, CoveredBy, redis
<1>6. ASSUME NEW p \in Ops PROVE Shape(op[p])' /\ Covered(op[p])'
  <2>1. CASE op[p].task = t
    <3>1. op'[p] = Idle
      BY <1>2, <2>1
    <3>2. Shape(Idle)' /\ Covered(Idle)'
      BY <1>4, <1>5
    <3>3. Shape(op[p])'
      BY <3>1, <3>2, ZenonT(30) DEF Shape
    <3>4. Covered(op[p])'
      BY <3>1, <3>2, ZenonT(30) DEF Covered, CoveredBy
    <3> QED
      BY <3>3, <3>4
  <2>2. CASE op[p].task # t
    <3>1. op'[p] = op[p]
      BY <1>2, <2>2
    <3>2. Shape(op[p]) /\ Covered(op[p]) /\ now' = now /\ owner' = owner /\ handed' = handed
      BY <1>1 DEF redis
    <3>3. Shape(op[p])'
      BY <3>1, <3>2, ZenonT(30) DEF Shape
    <3>4. Covered(op[p])'
      BY <3>1, <3>2, ZenonT(30) DEF Covered, CoveredBy
    <3> QED
      BY <3>3, <3>4
  <2> QED
    BY <2>1, <2>2
<1>7. Quiet'
  <2>1. \A p \in Ops : op'[p].pc \in ReleasePhases \cup {"drainWait"} => draining'[op'[p].task]
    BY <1>2, <1>4 DEF Crash, Quiet, TypeOK
  <2>2. \A p, q \in Ops :
          op'[p].pc \in ReleasePhases /\ op'[q].task = op'[p].task => ~Admitted(op'[q])
    BY <1>2, <1>4 DEF Quiet
  <2> QED
    BY <2>1, <2>2 DEF Quiet, Admitted
<1> QED
  BY <1>1, <1>3, <1>6, <1>7 DEF redis

\* A record that Redis expires was past its lease.
LEMMA KeyExpiresStep ==
  ASSUME IInv, KeyExpires
  PROVE  IInv'
<1> USE DEF IInv
<1>1. TypeOK' /\ owner'.lease <= now' + TTL
  BY TimesAssumption DEF KeyExpires, TypeOK, memory, MaybeOwner, NoOwner
<1>2. \A q : Shape(q) => Shape(q)'
  BY ZenonT(30) DEF Shape, KeyExpires
<1>3. owner.lease <= now /\ owner.lease \in Nat /\ now \in Nat
  BY Zenon DEF KeyExpires, LeaseExpired, TypeOK, MaybeOwner, OwnerRecord, NoOwner
<1>4. ASSUME NEW p \in Ops PROVE CoveredBy(op[p], owner', handed')
  BY <1>3, CoveredOwner DEF KeyExpires, CoveredBy
<1>5. \A p \in Ops : Shape(op[p])' /\ Covered(op[p])'
  BY <1>2, <1>4, ZenonT(30) DEF KeyExpires, Shape, Covered, CoveredBy
<1>6. Quiet'
  BY Zenon DEF KeyExpires, memory, Quiet, Admitted
<1> QED
  BY <1>1, <1>5, <1>6

\* The clock moves on only while every check and every statement is in time.
LEMMA TickStep ==
  ASSUME IInv, Tick
  PROVE  IInv'
<1> USE DEF IInv
<1>1. TypeOK'
  BY DEF Tick, TypeOK, redis, CacheEntry
<1>2. now \in Nat /\ now' = now + 1 /\ owner.lease \in Nat /\ UNCHANGED <<redis, draining, op>>
  BY DEF Tick, TypeOK, MaybeOwner, OwnerRecord, NoOwner
<1>3. owner'.lease <= now' + TTL
  BY <1>2, TimesAssumption DEF redis
<1>4. ASSUME NEW p \in Ops PROVE Shape(op[p])' /\ Covered(op[p])'
  <2> DEFINE q == op[p]
  <2>1. q.at \in Nat /\ q.snap.lease \in Nat /\ op'[p] = q
    BY <1>2, OpFields DEF MaybeOwner, OwnerRecord, NoOwner
  <2>2. /\ Waiting(p) => now < q.at + MaxDelay
        /\ q.pc = "sql" => now < q.at + SqlTime
    BY DEF Tick
  <2>3. Waiting(p) <=> (q.kind = "query" /\ q.pc \in CheckedPhases \ {"sql"})
    BY DEF Waiting, CheckedPhases
  <2> HIDE DEF q
  <2>4. Shape(q) /\ Covered(q)
    BY SMTT(30) DEF q
  <2>5. Shape(op[p])'
    <3>1. q.at <= now'
      <4>1. q.at <= now
        BY <2>4, Zenon DEF Shape
      <4> QED
        BY <1>2, <2>1, <4>1
    <3>2. (q.kind = "query" /\ q.pc \in CheckedPhases \ {"sql"}) => now' <= q.at + MaxDelay
      BY <1>2, <2>1, <2>2, <2>3, TimesAssumption
    <3>3. q.pc = "sql" => now' <= q.at + SqlTime
      BY <1>2, <2>1, <2>2, TimesAssumption
    <3> QED
      BY <2>1, <2>4, <3>1, <3>2, <3>3, ZenonT(30) DEF Shape
  <2>6. Covered(op[p])'
    BY <1>2, <2>1, <2>4 DEF Covered, CoveredBy, redis
  <2> QED
    BY <2>5, <2>6
<1>5. Quiet'
  BY <1>2 DEF Quiet, Admitted
<1> QED
  BY <1>1, <1>3, <1>4, <1>5

----------------------------------------------------------------------------
(* The theorems.                                                           *)

\* The invariant holds at the start.
LEMMA InitIInv == Init => IInv
<1> SUFFICES ASSUME Init PROVE IInv
  OBVIOUS
<1>1. NoOwner \in MaybeOwner /\ NoEntry \in CacheEntry /\ 0 \in Gens
  BY BoundsAssumption DEF MaybeOwner, CacheEntry, Gens
<1>2. owner \in MaybeOwner /\ owner.lease <= now + TTL /\ now = 0
  BY <1>1, BoundsAssumption, TimesAssumption DEF Init, MaybeOwner, OwnerRecord, Gens, NoOwner
<1>3. TypeOK
  BY <1>1, <1>2, IdleType DEF Init, TypeOK
<1>4. \A o \in Ops : op[o] = Idle
  BY DEF Init
<1>5. Shape(Idle) /\ Covered(Idle) /\ Idle.pc \notin ReleasePhases \cup {"drainWait"}
  BY <1>2, IdleType
  DEF Shape, Covered, CoveredBy, LocalPhases, PendingPhases, ReleasePhases, CheckedPhases
<1>6. Quiet
  BY <1>4, <1>5 DEF Quiet
<1> QED
  BY <1>2, <1>3, <1>4, <1>5, <1>6 DEF IInv

\* Every step keeps the invariant.
LEMMA NextIInv == IInv /\ [Next]_vars => IInv'
<1> SUFFICES ASSUME IInv, [Next]_vars PROVE IInv'
  OBVIOUS
<1>1. CASE UNCHANGED vars
  BY <1>1, ZenonT(30) DEF vars, IInv, TypeOK, Shape, Covered, CoveredBy, Quiet, Admitted
<1>2. ASSUME NEW o \in Ops, RedisStep(o) PROVE IInv'
  BY <1>2, RedisReadStep, ClaimExecStepRedis, RenewSetStep, RepairSetStep, ReleaseDelStep, MoveDropStep
  DEF RedisStep
<1>3. ASSUME NEW o \in Ops, TaskStep(o) PROVE IInv'
  BY <1>3, ResolveStep, ResolveSeenStep, ClaimSeenStep, TakeoverSeenStep, ClaimedStep, RoutingStep,
     ActorDrainCheckStep, ActorAssertStep, SqlSteps, RenewSteps, DrainSteps, RebalanceSteps
  DEF TaskStep
<1>4. ASSUME NEW o \in Ops, RedisError(o) PROVE IInv'
  <2>1. OthersKept
    BY <1>4, AllKept, SMTT(30) DEF RedisError
  <2>2. CASE op[o].pc \in RepairPhases
    <3>1. op[o].pc \in LocalPhases /\ op[o].pc # "idle" /\ "local" \in Phases
      BY <2>2 DEF RepairPhases, LocalPhases, Phases
    <3>2. Send(o, "local")
      BY <1>4, <2>2, Zenon DEF RedisError
    <3> QED
      BY <2>1, <3>1, <3>2, SendStep
  <2>3. CASE op[o].pc \notin RepairPhases
    BY <1>4, <2>1, <2>3, FinishStep DEF RedisError
  <2> QED
    BY <2>2, <2>3
<1>5. ASSUME NEW o \in Ops, NEW t \in Tasks, Begin(o, t) PROVE IInv'
  BY <1>5, BeginStep
<1>6. ASSUME NEW t \in Tasks, Crash(t) PROVE IInv'
  BY <1>6, CrashStep
<1> QED
  BY <1>1, <1>2, <1>3, <1>4, <1>5, <1>6, KeyExpiresStep, TickStep DEF Next

\* For any tasks, operations, times and bounds, the state keeps its types.
THEOREM TypeCorrect == Spec => []TypeOK
<1>1. IInv => TypeOK
  BY DEF IInv
<1> QED
  BY <1>1, InitIInv, NextIInv, PTL DEF Spec

\* What the invariant says of a request in the SQL section.
LEMMA LeaseFromInv == IInv => SqlUnderLease
<1> SUFFICES ASSUME IInv, NEW o \in Ops, op[o].pc = "sql", op[o].arg.gen \notin handed
             PROVE  SameFence(owner, op[o].arg) /\ ~LeaseExpired(owner, now)
  BY DEF SqlUnderLease
<1>1. /\ SameFence(op[o].snap, op[o].arg) /\ op[o].arg.task = op[o].task /\ op[o].kind = "query"
      /\ op[o].due + SqlTime <= op[o].snap.lease /\ op[o].at < op[o].due /\ now <= op[o].at + SqlTime
  BY ZenonT(30) DEF IInv, Shape, LocalPhases, PendingPhases
<1>2. /\ now \in Nat /\ op[o].at \in Nat /\ op[o].due \in Nat /\ op[o].snap.lease \in Nat
      /\ owner.lease \in Nat
  BY OpFields, SMTT(30) DEF IInv, TypeOK, Operation, MaybeOwner, OwnerRecord, NoOwner
<1>3. now < op[o].snap.lease
  <2>1. SqlTime \in Nat
    BY TimesAssumption
  <2> DEFINE a == op[o].at  d == op[o].due  l == op[o].snap.lease
  <2>2. a \in Nat /\ d \in Nat /\ l \in Nat /\ d + SqlTime <= l /\ a < d /\ now <= a + SqlTime
    BY <1>1, <1>2
  <2> HIDE DEF a, d, l
  <2>3. now < l
    BY <1>2, <2>1, <2>2
  <2> QED
    BY <2>3 DEF l
<1>4. SameFence(owner, op[o].snap) /\ op[o].snap.lease <= owner.lease
  BY <1>1, <1>3 DEF IInv, Covered, CoveredBy, SameFence, CheckedPhases
<1> QED
  BY <1>1, <1>2, <1>3, <1>4 DEF SameFence, LeaseExpired

\* For any tasks, operations, times and bounds, a request in the actor's SQL
\* section holds a live lease of the owner record, or a generation that a
\* rebalance gave away.
THEOREM SqlOnlyUnderLease == Spec => []SqlUnderLease
BY LeaseFromInv, InitIInv, NextIInv, PTL DEF Spec

----------------------------------------------------------------------------
(* Generations rise, even where a counter is behind its record.            *)

\* A step that leaves both keys alone, or writes them as GenerationRises asks.
Rises ==
  /\ counter' >= counter
  /\ (owner # NoOwner /\ owner' # NoOwner) => (SameFence(owner', owner) \/ owner'.gen > owner.gen)

\* A record written with a generation above the snapshot's and the counter's.
LEMMA GrantRises ==
  ASSUME IInv, NEW o \in Ops, ~Unwatched(o),
         counter' = NextGeneration(op[o].cnt, op[o].snap), owner'.gen = counter'
  PROVE  Rises
<1>1. /\ op[o].cnt \in Nat /\ op[o].snap.gen \in Nat /\ op[o].cnt = counter /\ op[o].snap = owner
  BY OpFields DEF Unwatched, Operation, Gens, MaybeOwner, OwnerRecord, NoOwner
<1>2. counter' > counter /\ counter' > owner.gen /\ counter' >= counter
  BY <1>1 DEF NextGeneration, MaxOf
<1> QED
  BY <1>2 DEF Rises

\* Every write of the keys raises the generation or keeps it.
LEMMA RedisRises ==
  ASSUME IInv, NEW o \in Ops, RedisStep(o)
  PROVE  UNCHANGED <<owner, counter>> \/ Rises
<1>1. counter \in Nat /\ op[o].arg.gen \in Nat /\ op[o].cnt \in Nat
  BY OpFields, BoundsAssumption DEF IInv, TypeOK, Operation, Gens, MaybeOwner, OwnerRecord, NoOwner
<1>2. CASE RedisRead(o)
  BY <1>2 DEF RedisRead, redis
<1>3. CASE ClaimExec(o)
  <2>1. CASE /\ ~Unwatched(o) /\ counter' = NextGeneration(op[o].cnt, op[o].snap)
             /\ owner' = OwnerRecordFor(op[o].task, counter', op[o].at)
    BY <2>1, GrantRises DEF OwnerRecordFor
  <2> QED
    BY <1>3, <2>1 DEF ClaimExec, redis
<1>4. CASE RenewSet(o)
  <2>1. CASE /\ owner = op[o].snap /\ owner' = OwnerRecordFor(op[o].task, op[o].arg.gen, op[o].at)
             /\ counter' = counter /\ op[o].pc = "renewSet"
    <3>1. op[o].arg.task = op[o].task
      BY <2>1, ZenonT(30) DEF IInv, Shape, LocalPhases, PendingPhases
    <3>2. SameFence(owner, op[o].arg)
      BY <2>1 DEF IInv, Shape
    <3>3. owner'.gen = owner.gen /\ owner'.task = owner.task
      BY <2>1, <3>1, <3>2 DEF SameFence, OwnerRecordFor
    <3> QED
      BY <1>1, <2>1, <3>3 DEF Rises, SameFence
  <2> QED
    BY <1>4, <2>1 DEF RenewSet
<1>5. CASE RepairSet(o)
  <2>1. op[o].cnt < op[o].arg.gen
    BY <1>5, Zenon DEF RepairSet, IInv, Shape
  <2> QED
    BY <1>1, <1>5, <2>1 DEF RepairSet, Rises, SameFence
<1>6. CASE ReleaseDel(o) \/ DropExec(o)
  BY <1>1, <1>6 DEF ReleaseDel, DropExec, Rises, redis
<1>7. CASE MoveExec(o)
  <2>1. CASE /\ ~Unwatched(o) /\ counter' = NextGeneration(op[o].cnt, op[o].snap)
             /\ owner' = OwnerRecordFor(op[o].target, counter', op[o].at)
    BY <2>1, GrantRises, Zenon DEF OwnerRecordFor
  <2> QED
    BY <1>7, <2>1 DEF MoveExec, redis
<1> QED
  BY <1>2, <1>3, <1>4, <1>5, <1>6, <1>7 DEF RedisStep

\* For any tasks, operations, times and bounds, and even for records older
\* than their counter, a change of owner raises the generation and the counter
\* never falls.
THEOREM GenerationsRise == Spec => GenerationRises
<1>1. IInv /\ [Next]_vars => [Rises]_<<owner, counter>>
  <2> SUFFICES ASSUME IInv, [Next]_vars PROVE UNCHANGED <<owner, counter>> \/ Rises
    OBVIOUS
  <2>1. ASSUME NEW o \in Ops, RedisStep(o) PROVE UNCHANGED <<owner, counter>> \/ Rises
    BY <2>1, RedisRises, SMTT(30)
  <2>2. ASSUME NEW o \in Ops, TaskStep(o) PROVE UNCHANGED <<owner, counter>>
    BY <2>2
    DEF TaskStep, Resolve, ResolveSeen, RepairSeen, ClaimSeen, TakeoverBegin, TakeoverSeen, Claimed,
        RouteForward, RouteRefresh, RouteProbeFailed, RouteTakeover, ActorBegin, ActorDrainCheck,
        ActorAssert, SqlStep, SqlFails, RenewSeen, Renewed, DrainIdle, DrainTimeout, ReleaseSeen,
        Released, RebalanceSeen, Moved, redis
  <2>3. ASSUME NEW o \in Ops, RedisError(o) PROVE UNCHANGED <<owner, counter>>
    BY <2>3 DEF RedisError, redis
  <2>4. ASSUME NEW o \in Ops, NEW t \in Tasks, Begin(o, t) PROVE UNCHANGED <<owner, counter>>
    BY <2>4 DEF Begin, BeginQuery, BeginRenew, BeginDrain, BeginRebalance, redis
  <2>5. ASSUME NEW t \in Tasks, Crash(t) PROVE UNCHANGED <<owner, counter>>
    BY <2>5 DEF Crash, redis
  <2>6. CASE KeyExpires
    <3>1. counter \in Nat
      BY DEF IInv, TypeOK, Gens
    <3> QED
      BY <2>6, <3>1 DEF KeyExpires, Rises
  <2>7. CASE Tick \/ UNCHANGED vars
    BY <2>7 DEF Tick, redis, vars
  <2> QED
    BY <2>1, <2>2, <2>3, <2>4, <2>5, <2>6, <2>7 DEF Next
<1> QED
  BY <1>1, InitIInv, NextIInv, PTL DEF Spec, GenerationRises, Rises

----------------------------------------------------------------------------
(* The registry implements the fenced writer when every record was written *)
(* together with its counter.                                              *)

\* No generation an operation has read is above the counter, so a repair of
\* the counter never finds work to do.
BehindBy(q, cnt) ==
  /\ q.snap.gen <= cnt
  /\ q.pc \in RepairPhases => q.arg.gen <= cnt

Behind == owner.gen <= counter /\ \A o \in Ops : BehindBy(op[o], counter)

\* One operation is replaced by one that is also behind the counter.
Stays(o) == op' = [op EXCEPT ![o] = op'[o]] /\ BehindBy(op'[o], counter)

\* How a step shows that.
LEMMA StaysBy ==
  ASSUME IInv, NEW o \in Ops, NEW r, op' = [op EXCEPT ![o] = r], BehindBy(r, counter)
  PROVE  Stays(o)
<1>1. op'[o] = r
  BY DEF IInv, TypeOK
<1> QED
  BY <1>1, Zenon DEF Stays

\* What the lemmas below use of the operation and the counter.
LEMMA BehindTypes ==
  ASSUME IInv, Behind, NEW o \in Ops
  PROVE  op[o] \in Operation /\ BehindBy(op[o], counter) /\ counter \in Nat /\ 0 <= counter
BY BoundsAssumption DEF IInv, TypeOK, Behind, Gens

\* Ending an operation.
LEMMA StaysFinish ==
  ASSUME IInv, Behind, NEW o \in Ops, Finish(o)
  PROVE  Stays(o)
<1>1. Idle.snap.gen = 0 /\ Idle.pc = "idle"
  BY DEF Idle, Slot, NoOwner
<1>2. BehindBy(Idle, counter)
  BY <1>1, BehindTypes DEF BehindBy, RepairPhases
<1> QED
  BY <1>2, StaysBy, Zenon DEF Finish

\* Going on to a phase outside a repair.
LEMMA StaysGoto ==
  ASSUME IInv, Behind, NEW o \in Ops, NEW phase, phase \notin RepairPhases, Goto(o, phase)
  PROVE  Stays(o)
<1> DEFINE r == [op[o] EXCEPT !.pc = phase]
<1>1. op' = [op EXCEPT ![o] = r]
  BY DEF Goto, IInv, TypeOK
<1>2. r.pc = phase /\ r.snap = op[o].snap
  BY BehindTypes DEF Operation
<1>3. BehindBy(r, counter)
  BY <1>2, BehindTypes DEF BehindBy, RepairPhases
<1> QED
  BY <1>1, <1>3, StaysBy, Zenon

\* Dropping what was read, for a phase outside a repair or a repair's own.
LEMMA StaysAgain ==
  ASSUME IInv, Behind, NEW o \in Ops, NEW phase, NEW n, Again(o, phase, n),
         phase \notin {"repairSeen", "repairSet"},
         phase = "repairRead" => op[o].pc \in RepairPhases
  PROVE  Stays(o)
<1> DEFINE r == [op[o] EXCEPT !.pc = phase, !.snap = NoOwner, !.cnt = 0, !.at = 0, !.tries = n]
<1>1. op' = [op EXCEPT ![o] = r]
  BY Zenon DEF Again, IInv, TypeOK
<1>2. r.pc = phase /\ r.snap.gen = 0 /\ r.arg = op[o].arg
  BY BehindTypes DEF Operation, NoOwner
<1> HIDE DEF r
<1>3. BehindBy(r, counter)
  BY <1>2, BehindTypes DEF BehindBy, RepairPhases
<1> QED
  BY <1>1, <1>3, StaysBy, Zenon

\* Starting over, with a record behind the counter if it is to be repaired.
LEMMA StaysRestart ==
  ASSUME IInv, Behind, NEW o \in Ops, NEW phase, NEW rec, NEW target,
         Restart(o, phase, rec, target),
         phase \notin {"repairSeen", "repairSet"},
         phase = "repairRead" => rec.gen <= counter
  PROVE  Stays(o)
<1> DEFINE r == Slot(phase, "query", op[o].task, rec, target)
<1>1. op' = [op EXCEPT ![o] = r]
  BY DEF Restart
<1>2. r.pc = phase /\ r.snap.gen = 0 /\ r.arg = rec
  BY DEF Slot, NoOwner
<1> HIDE DEF r
<1>3. BehindBy(r, counter)
  BY <1>2, BehindTypes DEF BehindBy, RepairPhases
<1> QED
  BY <1>1, <1>3, StaysBy, Zenon

\* A retry, of a repair only from within it.
LEMMA StaysRetry ==
  ASSUME IInv, Behind, NEW o \in Ops, NEW phase, NEW exhausted, Retry(o, phase, exhausted),
         phase \notin {"repairSeen", "repairSet"}, exhausted \notin RepairPhases,
         phase = "repairRead" => op[o].pc \in RepairPhases
  PROVE  Stays(o)
BY StaysFinish, StaysAgain DEF Retry, RepairPhases

\* Returning an owner from resolveDbOwner.
LEMMA StaysRoute ==
  ASSUME IInv, Behind, NEW o \in Ops, NEW rec, RouteTo(o, rec)
  PROVE  Stays(o)
BY StaysFinish, StaysRestart DEF RouteTo

\* Starting a takeover.
LEMMA StaysTakeOver ==
  ASSUME IInv, Behind, NEW o \in Ops, TakeOver(o)
  PROVE  Stays(o)
BY StaysRestart DEF TakeOver

\* Entering the SQL section with the record that was read last.
LEMMA StaysStartSql ==
  ASSUME IInv, Behind, NEW o \in Ops, StartSql(o, op[o].snap)
  PROVE  Stays(o)
<1> DEFINE due == now + (op[o].snap.lease - op[o].at - Guard)
<1>1. CASE Finish(o)
  BY <1>1, StaysFinish
<1>2. ASSUME NEW n, NEW txn,
             op' = [op EXCEPT ![o].pc = "sql", ![o].snap = op[o].snap, ![o].at = now,
                              ![o].due = due, ![o].left = n, ![o].txn = txn]
      PROVE  Stays(o)
  <2> HIDE DEF due
  <2> DEFINE r == [op[o] EXCEPT !.pc = "sql", !.snap = op[o].snap, !.at = now,
                                !.due = due, !.left = n, !.txn = txn]
  <2>1. op' = [op EXCEPT ![o] = r]
    BY <1>2, Zenon DEF IInv, TypeOK
  <2>2. r.pc = "sql" /\ r.snap = op[o].snap
    BY BehindTypes DEF Operation
  <2> HIDE DEF r
  <2>3. BehindBy(r, counter)
    BY <2>2, BehindTypes DEF BehindBy, RepairPhases
  <2> QED
    BY <2>1, <2>3, StaysBy, Zenon
<1> QED
  BY <1>1, <1>2, Zenon DEF StartSql

\* A step of a task leaves Redis alone and its operation behind the counter.
LEMMA TaskStays ==
  ASSUME IInv, Behind, NEW o \in Ops, TaskStep(o)
  PROVE  Stays(o) /\ UNCHANGED redis
<1> USE DEF RepairPhases
<1>1. CASE Resolve(o)
  <2>1. ASSUME NEW phase \in {"local", "remote"}, NEW rec,
               op' = [op EXCEPT ![o].pc = phase, ![o].arg = rec]
        PROVE  Stays(o)
    <3> DEFINE r == [op[o] EXCEPT !.pc = phase, !.arg = rec]
    <3>1. op' = [op EXCEPT ![o] = r]
      BY <2>1, Zenon DEF IInv, TypeOK
    <3>2. r.pc = phase /\ r.snap = op[o].snap
      BY BehindTypes DEF Operation
    <3> HIDE DEF r
    <3>3. BehindBy(r, counter)
      BY <3>2, BehindTypes, SMTT(30) DEF BehindBy
    <3> QED
      BY <3>1, <3>3, StaysBy, Zenon
  <2> QED
    BY <1>1, <2>1, StaysFinish, StaysGoto DEF Resolve
<1>2. CASE ResolveSeen(o)
  <2>1. ASSUME Restart(o, "repairRead", Fence(op[o].snap), op[o].target) PROVE Stays(o)
    <3>1. Fence(op[o].snap).gen <= counter
      BY BehindTypes DEF BehindBy, Fence, Operation, MaybeOwner, OwnerRecord, NoOwner
    <3> QED
      BY <2>1, <3>1, StaysRestart
  <2> QED
    <3>1. /\ UNCHANGED redis
          /\ \/ Finish(o) \/ Send(o, "claimRead") \/ TakeOver(o) \/ RouteTo(o, op[o].snap)
             \/ Restart(o, "repairRead", Fence(op[o].snap), op[o].target)
      BY <1>2, Zenon DEF ResolveSeen
    <3> QED
      BY <2>1, <3>1, StaysFinish, StaysAgain, StaysTakeOver, StaysRoute DEF Send
<1>3. CASE RepairSeen(o)
  <2>1. ASSUME Goto(o, "repairSet"), op[o].pc = "repairSeen" PROVE Stays(o)
    <3> DEFINE r == [op[o] EXCEPT !.pc = "repairSet"]
    <3>1. op' = [op EXCEPT ![o] = r]
      BY <2>1 DEF Goto, IInv, TypeOK
    <3>2. r.pc = "repairSet" /\ r.snap = op[o].snap /\ r.arg = op[o].arg
      BY BehindTypes DEF Operation
    <3> HIDE DEF r
    <3>3. BehindBy(r, counter)
      BY <2>1, <3>2, BehindTypes DEF BehindBy
    <3> QED
      BY <3>1, <3>3, StaysBy, Zenon
  <2> QED
    BY <1>3, <2>1, StaysAgain DEF RepairSeen, At, Send
<1>4. CASE ClaimSeen(o)
  BY <1>4, StaysGoto, StaysRetry, StaysTakeOver, StaysRoute, ZenonT(30) DEF ClaimSeen
<1>5. CASE TakeoverBegin(o) \/ TakeoverSeen(o) \/ Claimed(o)
  <2>1. CASE TakeoverBegin(o) \/ Claimed(o)
    BY <2>1, StaysFinish, StaysGoto, StaysRoute, ZenonT(30) DEF TakeoverBegin, Claimed
  <2>2. CASE TakeoverSeen(o)
    BY <2>2, StaysFinish, StaysGoto, StaysRestart, StaysRoute DEF TakeoverSeen
  <2> QED BY <1>5, <2>1, <2>2
<1>6. CASE RouteForward(o) \/ RouteRefresh(o) \/ RouteProbeFailed(o) \/ RouteTakeover(o)
  <2>1. CASE RouteForward(o) \/ RouteProbeFailed(o)
    BY <2>1, StaysFinish, StaysGoto, ZenonT(30) DEF RouteForward, RouteProbeFailed
  <2>2. CASE RouteRefresh(o) \/ RouteTakeover(o)
    BY <2>2, StaysFinish, StaysRestart, SMTT(30) DEF RouteRefresh, RouteTakeover
  <2> QED BY <1>6, <2>1, <2>2
<1>7. CASE ActorBegin(o) \/ ActorDrainCheck(o) \/ ActorAssert(o)
  <2>1. CASE ActorBegin(o)
    BY <2>1, StaysFinish, StaysGoto, StaysAgain, StaysRestart, StaysStartSql DEF ActorBegin, Send
  <2>2. CASE ActorDrainCheck(o)
    BY <2>2, StaysFinish, StaysGoto, StaysAgain, StaysRestart, StaysStartSql DEF ActorDrainCheck, Send
  <2>3. CASE ActorAssert(o)
    BY <2>3, StaysFinish, StaysGoto, StaysAgain, StaysRestart, StaysStartSql DEF ActorAssert, Send
  <2> QED BY <1>7, <2>1, <2>2, <2>3
<1>8. CASE SqlStep(o) \/ SqlFails(o)
  <2>1. ASSUME op[o].pc = "sql", op' = [op EXCEPT ![o].left = @ - 1, ![o].at = now]
        PROVE  Stays(o)
    <3> DEFINE r == [op[o] EXCEPT !.left = @ - 1, !.at = now]
    <3>1. op' = [op EXCEPT ![o] = r]
      BY <2>1, Zenon DEF IInv, TypeOK
    <3>2. r.pc = "sql" /\ r.snap = op[o].snap
      BY <2>1, BehindTypes DEF Operation
    <3> HIDE DEF r
    <3>3. BehindBy(r, counter)
      BY <3>2, BehindTypes DEF BehindBy
    <3> QED
      BY <3>1, <3>3, StaysBy, Zenon
  <2> QED
    BY <1>8, <2>1, StaysFinish DEF SqlStep, SqlFails
<1>9. CASE RenewSeen(o) \/ Renewed(o)
  BY <1>9, StaysFinish, StaysGoto, StaysStartSql, Zenon DEF RenewSeen, Renewed
<1>10. CASE DrainIdle(o) \/ DrainTimeout(o) \/ ReleaseSeen(o) \/ Released(o)
  BY <1>10, StaysFinish, StaysGoto, Zenon DEF DrainIdle, DrainTimeout, ReleaseSeen, Released
<1>11. CASE RebalanceSeen(o) \/ Moved(o)
  BY <1>11, StaysFinish, StaysGoto, Zenon DEF RebalanceSeen, Moved
<1> QED
  BY <1>1, <1>2, <1>3, <1>4, <1>5, <1>6, <1>7, <1>8, <1>9, <1>10, <1>11 DEF TaskStep

\* What a step must show about one operation and the two keys.
LEMMA BehindStep ==
  ASSUME IInv, Behind, NEW o \in Ops, NEW r, op' = [op EXCEPT ![o] = r], BehindBy(r, counter'),
         counter' \in Nat, counter <= counter', owner'.gen <= counter'
  PROVE  Behind'
<1>1. ASSUME NEW p \in Ops PROVE BehindBy(op'[p], counter')
  <2>1. CASE p = o
    BY <2>1 DEF IInv, TypeOK
  <2>2. CASE p # o
    <3>1. op'[p] = op[p]
      BY <2>2 DEF IInv, TypeOK
    <3>2. op[p].snap.gen \in Nat /\ op[p].arg.gen \in Nat
      BY BehindTypes DEF Operation, Gens, MaybeOwner, OwnerRecord, NoOwner
    <3> QED
      BY <3>1, <3>2, BehindTypes DEF BehindBy
  <2> QED
    BY <2>1, <2>2
<1> QED
  BY <1>1 DEF Behind, BehindBy

\* A step of one operation that leaves both keys alone.
LEMMA BehindKept ==
  ASSUME IInv, Behind, NEW o \in Ops, Stays(o), UNCHANGED redis
  PROVE  Behind'
<1>1. counter' = counter /\ owner' = owner /\ counter \in Nat
  BY BehindTypes DEF redis
<1> QED
  BY <1>1, BehindStep DEF Stays, Behind

\* A step of one operation that writes a record with a generation above the
\* counter, and the counter with it, grants that generation.
LEMMA GrantStep ==
  ASSUME IInv, Behind, NEW o \in Ops, NEW rec \in OwnerRecord, NEW phase \in {"claimed", "moved"},
         op' = [op EXCEPT ![o].pc = phase, ![o].arg = rec],
         counter < rec.gen, owner' = rec, counter' = rec.gen, log' = log,
         handed' = handed \/ handed' = handed \cup {owner.gen}
  PROVE  Behind' /\ Fenced!Grant
<1> DEFINE r == [op[o] EXCEPT !.pc = phase, !.arg = rec]
<1>1. op' = [op EXCEPT ![o] = r]
  BY Zenon DEF IInv, TypeOK
<1>2. r.pc = phase /\ r.snap = op[o].snap
  BY BehindTypes DEF Operation
<1> HIDE DEF r
<1>3. rec.gen \in Nat /\ op[o].snap.gen \in Nat /\ counter \in Nat
  BY BehindTypes DEF Operation, Gens, MaybeOwner, OwnerRecord, NoOwner
<1>4. BehindBy(r, counter')
  BY <1>2, <1>3, BehindTypes DEF BehindBy, RepairPhases
<1>5. Behind'
  <2>1. counter' \in Nat /\ counter <= counter' /\ owner'.gen <= counter'
    BY <1>3
  <2> QED
    BY <1>1, <1>4, <2>1, BehindStep, Zenon
<1>6. Fenced!Grant
  BY <1>3 DEF Fenced!Grant, Fenced!HandOver
<1> QED
  BY <1>5, <1>6

\* The next generation is a new one: a record is never above its counter.
LEMMA NextGenerationNew ==
  ASSUME IInv, Behind, NEW o \in Ops
  PROVE  /\ NextGeneration(op[o].cnt, op[o].snap) \in Nat \ {0}
         /\ NextGeneration(op[o].cnt, op[o].snap) > op[o].cnt
<1>1. op[o].cnt \in Nat /\ op[o].snap.gen \in Nat
  BY BehindTypes DEF Operation, Gens, MaybeOwner, OwnerRecord, NoOwner
<1> QED
  BY <1>1 DEF NextGeneration, MaxOf

\* A step of Redis on behalf of one operation is a step of the fenced writer.
LEMMA RedisFenced ==
  ASSUME IInv, Behind, NEW o \in Ops, RedisStep(o)
  PROVE  Behind' /\ (Fenced!Grant \/ Fenced!Revoke \/ UNCHANGED <<owner.gen, counter, log, handed>>)
<1> USE DEF RepairPhases
<1>0. /\ op[o] \in Operation /\ BehindBy(op[o], counter) /\ counter \in Nat
      /\ op[o].snap.gen \in Nat /\ op[o].arg.gen \in Nat /\ op[o].at \in Nat
      /\ owner.gen \in Nat /\ owner.gen <= counter
  BY BehindTypes DEF Operation, Gens, MaybeOwner, OwnerRecord, NoOwner, IInv, TypeOK, Behind
<1>1. ASSUME Stays(o), UNCHANGED <<redis, log>>
      PROVE  Behind' /\ UNCHANGED <<owner.gen, counter, log, handed>>
  BY <1>1, BehindKept DEF redis
<1>2. CASE RedisRead(o)
  <2> DEFINE r == [op[o] EXCEPT !.pc = ReadThen[op[o].pc],
                     !.snap = IF op[o].pc \in {"repairRead", "timeRead"} THEN NoOwner ELSE owner,
                     !.cnt = IF op[o].pc \in WatchPhases THEN counter ELSE 0,
                     !.at = IF op[o].pc \in {"repairRead", "releaseRead"} THEN 0 ELSE now]
  <2>1. op' = [op EXCEPT ![o] = r]
    BY <1>2, Zenon DEF RedisRead, IInv, TypeOK
  <2>2. /\ r.pc = ReadThen[op[o].pc] /\ (r.snap = NoOwner \/ r.snap = owner)
        /\ r.arg = op[o].arg
    BY <1>0 DEF Operation
  <2>3. op[o].pc \in DOMAIN ReadThen
    BY <1>2 DEF RedisRead
  <2> HIDE DEF r
  <2>4. r.pc # "repairSet" /\ r.pc # "repairRead" /\ (r.pc = "repairSeen" => op[o].pc = "repairRead")
    BY <2>2, <2>3 DEF ReadThen
  <2>5. BehindBy(r, counter)
    BY <1>0, <2>2, <2>4 DEF BehindBy, NoOwner
  <2> QED
    BY <1>1, <1>2, <2>1, <2>5, StaysBy, Zenon DEF RedisRead
<1>3. CASE ClaimExec(o)
  <2> DEFINE gen == NextGeneration(op[o].cnt, op[o].snap)
             rec == OwnerRecordFor(op[o].task, gen, op[o].at)
  <2>1. CASE UNCHANGED redis /\ Finish(o)
    BY <1>1, <1>3, <2>1, StaysFinish DEF ClaimExec
  <2>2. CASE UNCHANGED redis /\ (Retry(o, "claimRead", "raceRead") \/ Retry(o, "takeRead", "idle"))
    BY <1>1, <1>3, <2>2, StaysRetry DEF ClaimExec
  <2>3. CASE /\ op[o].pc = "claimExec" /\ gen <= MaxGen /\ ~Unwatched(o) /\ owner' = rec
             /\ counter' = gen /\ op' = [op EXCEPT ![o].pc = "claimed", ![o].arg = rec]
             /\ handed' = handed /\ log' = log
    <3>1. gen \in Nat \ {0} /\ gen > op[o].cnt /\ counter = op[o].cnt
      BY <2>3, NextGenerationNew DEF Unwatched
    <3> HIDE DEF gen
    <3>2. op[o].task \in Tasks
      BY <2>3 DEF IInv, Shape
    <3>3. rec \in OwnerRecord /\ rec.gen = gen
      BY <1>0, <2>3, <3>1, <3>2, TimesAssumption, BoundsAssumption
      DEF OwnerRecordFor, OwnerRecord, Gens
    <3> HIDE DEF rec
    <3>4. counter < rec.gen
      BY <1>0, <3>1, <3>3
    <3> QED
      BY <2>3, <3>3, <3>4, GrantStep, Zenon
  <2> QED
    BY <1>3, <2>1, <2>2, <2>3 DEF ClaimExec
<1>4. CASE RenewSet(o)
  <2>1. CASE Retry(o, "renewRead", "idle") /\ UNCHANGED owner
    BY <1>1, <1>4, <2>1, StaysRetry DEF RenewSet, redis
  <2>2. CASE owner = op[o].snap
    <3> DEFINE rec == OwnerRecordFor(op[o].task, op[o].arg.gen, op[o].at)
               r == [op[o] EXCEPT !.pc = "renewed", !.snap = rec]
    <3>1. op' = [op EXCEPT ![o] = r] /\ owner' = rec /\ UNCHANGED <<counter, handed, log>>
          /\ op[o].pc = "renewSet"
      BY <1>4, <2>2, Zenon DEF RenewSet, IInv, TypeOK
    <3>2. rec.gen = op[o].arg.gen
      BY DEF OwnerRecordFor
    <3>3. op[o].arg.gen = owner.gen
      BY <2>2, <3>1 DEF IInv, Shape, SameFence
    <3> HIDE DEF rec
    <3>4. r.pc = "renewed" /\ r.snap = rec
      BY <1>0 DEF Operation
    <3> HIDE DEF r
    <3>5. BehindBy(r, counter')
      BY <1>0, <3>1, <3>2, <3>3, <3>4 DEF BehindBy
    <3>6. counter' \in Nat /\ counter <= counter' /\ owner'.gen <= counter' /\ owner'.gen = owner.gen
      BY <1>0, <3>1, <3>2, <3>3
    <3> QED
      BY <3>1, <3>5, <3>6, BehindStep, Zenon
  <2> QED
    BY <1>4, <2>1, <2>2 DEF RenewSet
<1>5. CASE RepairSet(o)
  <2>1. op[o].pc = "repairSet" /\ Shape(op[o])
    BY <1>5, OpTimes, SMTT(30) DEF RepairSet
  <2>2. op[o].cnt # counter
    BY <1>0, <2>1 DEF BehindBy, Shape
  <2>3. Retry(o, "repairRead", "local") /\ UNCHANGED <<counter, owner, handed, log>>
    BY <1>5, <2>2, Zenon DEF RepairSet
  <2> QED
    BY <1>1, <2>1, <2>3, StaysRetry DEF redis
<1>6. CASE ReleaseDel(o)
  <2>1. CASE owner = op[o].snap
    <3>1. Goto(o, "released") /\ owner' = NoOwner /\ UNCHANGED <<counter, handed, log>>
      BY <1>6, <2>1 DEF ReleaseDel
    <3>2. Stays(o)
      BY <3>1, StaysGoto
    <3>3. counter' \in Nat /\ counter <= counter' /\ owner'.gen <= counter' /\ owner'.gen = 0
      BY <1>0, <3>1 DEF NoOwner
    <3>4. Behind'
      BY <3>1, <3>2, <3>3, BehindStep DEF Stays
    <3> QED
      BY <3>1, <3>3, <3>4 DEF Fenced!Revoke, Fenced!HandOver
  <2>2. CASE owner # op[o].snap
    <3> DEFINE r == [op[o] EXCEPT !.pc = "releaseRead", !.snap = NoOwner, !.tries = @ + 1]
    <3>1. op' = [op EXCEPT ![o] = r] /\ UNCHANGED <<redis, log>>
      BY <1>6, <2>2, Zenon DEF ReleaseDel, IInv, TypeOK, redis
    <3>2. r.pc = "releaseRead" /\ r.snap = NoOwner
      BY <1>0 DEF Operation
    <3> HIDE DEF r
    <3>3. BehindBy(r, counter)
      BY <1>0, <3>2 DEF BehindBy, NoOwner
    <3> QED
      BY <1>1, <3>1, <3>3, StaysBy, Zenon
  <2> QED
    BY <2>1, <2>2
<1>7. CASE MoveExec(o)
  <2> DEFINE gen == NextGeneration(op[o].cnt, op[o].snap)
             rec == OwnerRecordFor(op[o].target, gen, op[o].at)
  <2>1. CASE UNCHANGED redis /\ Finish(o)
    BY <1>1, <1>7, <2>1, StaysFinish DEF MoveExec
  <2>2. CASE UNCHANGED redis /\ Retry(o, "rebalanceRead", "idle")
    BY <1>1, <1>7, <2>2, StaysRetry DEF MoveExec
  <2>3. CASE /\ op[o].pc = "moveExec" /\ gen <= MaxGen /\ ~Unwatched(o) /\ owner' = rec
             /\ counter' = gen /\ op' = [op EXCEPT ![o].pc = "moved", ![o].arg = rec]
             /\ handed' = handed \cup {op[o].snap.gen} /\ log' = log
    <3>1. /\ gen \in Nat \ {0} /\ gen > op[o].cnt /\ counter = op[o].cnt
          /\ handed' = handed \cup {owner.gen}
      BY <2>3, NextGenerationNew DEF Unwatched
    <3> HIDE DEF gen
    <3>2. op[o].target \in Tasks
      BY <2>3 DEF IInv, Shape
    <3>3. rec \in OwnerRecord /\ rec.gen = gen
      BY <1>0, <2>3, <3>1, <3>2, TimesAssumption, BoundsAssumption
      DEF OwnerRecordFor, OwnerRecord, Gens
    <3> HIDE DEF rec
    <3>4. counter < rec.gen
      BY <1>0, <3>1, <3>3
    <3> QED
      BY <2>3, <3>1, <3>3, <3>4, GrantStep, Zenon
  <2> QED
    BY <1>7, <2>1, <2>2, <2>3 DEF MoveExec
<1>8. CASE DropExec(o)
  <2>1. CASE UNCHANGED redis /\ Retry(o, "rebalanceRead", "idle")
    BY <1>1, <1>8, <2>1, StaysRetry DEF DropExec
  <2>2. CASE ~Unwatched(o)
    <3>1. /\ Goto(o, "dropped") /\ owner' = NoOwner /\ handed' = handed \cup {owner.gen}
          /\ UNCHANGED <<counter, log>>
      BY <1>8, <2>2 DEF DropExec, Unwatched
    <3>2. Stays(o)
      BY <3>1, StaysGoto
    <3>3. counter' \in Nat /\ counter <= counter' /\ owner'.gen <= counter' /\ owner'.gen = 0
      BY <1>0, <3>1 DEF NoOwner
    <3>4. Behind'
      BY <3>1, <3>2, <3>3, BehindStep DEF Stays
    <3> QED
      BY <3>1, <3>3, <3>4 DEF Fenced!Revoke, Fenced!HandOver
  <2> QED
    BY <1>8, <2>1, <2>2 DEF DropExec
<1> QED
  BY <1>2, <1>3, <1>4, <1>5, <1>6, <1>7, <1>8 DEF RedisStep

\* A step of a task is a stutter of the fenced writer, or a write by its holder
\* or under a generation that was handed over.
LEMMA TaskFenced ==
  ASSUME IInv, Behind, NEW o \in Ops, TaskStep(o)
  PROVE  Behind' /\ (Fenced!Write \/ UNCHANGED <<owner.gen, counter, log, handed>>)
<1>1. Behind' /\ UNCHANGED redis
  BY TaskStays, BehindKept
<1>2. CASE SqlStep(o) /\ log' # log
  <2>1. op[o].pc = "sql" /\ log' = op[o].arg.gen
    BY <1>2 DEF SqlStep
  <2>2. op[o].arg.gen \in handed \/ SameFence(owner, op[o].arg)
    BY <2>1, LeaseFromInv DEF SqlUnderLease
  <2>3. op[o].arg.gen \in handed \cup ({owner.gen} \ {0})
    BY <2>2 DEF SameFence, IInv, TypeOK, MaybeOwner, OwnerRecord
  <2> QED
    BY <1>1, <2>1, <2>3 DEF Fenced!Write, redis
<1>3. CASE UNCHANGED log
  BY <1>1, <1>3, SMTT(30) DEF redis
<1>4. SqlStep(o) \/ UNCHANGED log
  BY DEF TaskStep, Resolve, ResolveSeen, RepairSeen, ClaimSeen, TakeoverBegin, TakeoverSeen, Claimed,
         RouteForward, RouteRefresh, RouteProbeFailed, RouteTakeover, ActorBegin, ActorDrainCheck,
         ActorAssert, SqlFails, RenewSeen, Renewed, DrainIdle, DrainTimeout, ReleaseSeen, Released,
         RebalanceSeen, Moved
<1> QED
  BY <1>2, <1>3, <1>4

\* Arrivals leave the keys alone and start with nothing read.
LEMMA BeginFenced ==
  ASSUME IInv, Behind, NEW o \in Ops, NEW t \in Tasks, Begin(o, t)
  PROVE  Behind' /\ UNCHANGED <<redis, log>>
<1>1. ASSUME NEW phase, NEW kind, NEW rec, NEW target, phase \notin RepairPhases,
             op' = [op EXCEPT ![o] = Slot(phase, kind, t, rec, target)]
      PROVE  Stays(o)
  <2> DEFINE r == Slot(phase, kind, t, rec, target)
  <2>1. r.pc = phase /\ r.snap.gen = 0
    BY DEF Slot, NoOwner
  <2>2. op' = [op EXCEPT ![o] = r]
    BY <1>1
  <2> HIDE DEF r
  <2>3. BehindBy(r, counter)
    BY <1>1, <2>1, BehindTypes DEF BehindBy, RepairPhases
  <2> QED
    BY <2>2, <2>3, StaysBy, Zenon
<1>2. Stays(o) /\ UNCHANGED <<redis, log>>
  BY <1>1, SMTT(30) DEF Begin, BeginQuery, BeginRenew, BeginDrain, BeginRebalance, RepairPhases
<1> QED
  BY <1>2, BehindKept

\* Every step of the registry is a step of the fenced writer or a stutter.
LEMMA NextFenced ==
  ASSUME IInv, Behind, [Next]_vars
  PROVE  Behind' /\ [Fenced!FencedNext]_(Fenced!fencedVars)
<1> USE DEF Fenced!FencedNext, Fenced!fencedVars
<1>1. CASE UNCHANGED vars
  BY <1>1 DEF vars, Behind, BehindBy
<1>2. ASSUME NEW o \in Ops, RedisStep(o) PROVE Behind' /\ [Fenced!FencedNext]_(Fenced!fencedVars)
  BY <1>2, RedisFenced
<1>3. ASSUME NEW o \in Ops, TaskStep(o) PROVE Behind' /\ [Fenced!FencedNext]_(Fenced!fencedVars)
  BY <1>3, TaskFenced
<1>4. ASSUME NEW o \in Ops, RedisError(o) PROVE Behind' /\ [Fenced!FencedNext]_(Fenced!fencedVars)
  <2>1. Stays(o)
    <3>1. Finish(o) \/ Again(o, "local", op[o].tries)
      BY <1>4, Zenon DEF RedisError, Send
    <3>2. "local" \notin {"repairSeen", "repairSet", "repairRead"}
      OBVIOUS
    <3> QED
      BY <3>1, <3>2, StaysFinish, StaysAgain
  <2> QED
    BY <1>4, <2>1, BehindKept DEF RedisError, redis
<1>5. ASSUME NEW o \in Ops, NEW t \in Tasks, Begin(o, t)
      PROVE  Behind' /\ [Fenced!FencedNext]_(Fenced!fencedVars)
  BY <1>5, BeginFenced DEF redis
<1>6. ASSUME NEW t \in Tasks, Crash(t) PROVE Behind' /\ [Fenced!FencedNext]_(Fenced!fencedVars)
  <2>1. UNCHANGED <<redis, log>> /\ \A p \in Ops : op'[p] = IF op[p].task = t THEN Idle ELSE op[p]
    BY <1>6, SMTT(30) DEF Crash
  <2>2. Idle.snap.gen = 0 /\ Idle.pc = "idle" /\ counter \in Nat /\ 0 <= counter
    BY BoundsAssumption DEF Idle, Slot, NoOwner, IInv, TypeOK, Gens
  <2>3. BehindBy(Idle, counter)
    BY <2>2 DEF BehindBy, RepairPhases
  <2>4. \A p \in Ops : BehindBy(op'[p], counter)
    BY <2>1, <2>3 DEF Behind
  <2> QED
    BY <2>1, <2>4 DEF Behind, BehindBy, redis
<1>7. CASE KeyExpires
  <2>1. owner'.gen = 0 /\ UNCHANGED <<counter, handed, log, op>> /\ 0 <= counter
    BY <1>7, BoundsAssumption DEF KeyExpires, NoOwner, IInv, TypeOK, Gens
  <2>2. Behind'
    BY <2>1 DEF Behind, BehindBy
  <2> QED
    BY <2>1, <2>2 DEF Fenced!Revoke, Fenced!HandOver
<1>8. CASE Tick
  BY <1>8 DEF Tick, redis, Behind, BehindBy
<1> QED
  BY <1>1, <1>2, <1>3, <1>4, <1>5, <1>6, <1>7, <1>8, Zenon DEF Next

\* When every owner record was written with its counter, the registry is a
\* fenced writer: a claim, takeover or move grants a new generation, and SQL
\* commits only under the newest one or under one that a rebalance gave away.
THEOREM RegistryFences == ASSUME ~Legacy PROVE Spec => ImplementsFencedWriter
<1>1. Init => Behind /\ Fenced!FencedInit
  <2> SUFFICES ASSUME Init PROVE Behind /\ Fenced!FencedInit
    BY SMTT(30)
  <2>1. Idle.snap.gen = 0 /\ Idle.pc = "idle" /\ owner.gen = 0 /\ counter = 0
    BY DEF Init, Idle, Slot, NoOwner
  <2>2. BehindBy(Idle, counter)
    BY <2>1 DEF BehindBy, RepairPhases
  <2> QED
    BY <2>1, <2>2 DEF Init, Behind, Fenced!FencedInit
<1>2. IInv /\ Behind /\ [Next]_vars => Behind' /\ [Fenced!FencedNext]_(Fenced!fencedVars)
  BY NextFenced
<1> QED
  BY <1>1, <1>2, InitIInv, NextIInv, PTL DEF Spec, ImplementsFencedWriter, Fenced!FencedSpec

-----------------------------------------------------------------------------
(* What every fenced writer does, and with it the registry.                *)

\* Only the newest generation can hold, and nothing was written under a
\* generation that was not granted.
FencedInv ==
  /\ counter \in Nat /\ log \in Nat /\ owner.gen \in {0, counter} /\ log <= counter
  /\ \A g \in handed : g \in Nat /\ g <= counter

\* Granting, revoking and writing keep it.
LEMMA FencedInductive ==
  FencedInv /\ [Fenced!FencedNext]_(Fenced!fencedVars) => FencedInv'
<1> SUFFICES ASSUME FencedInv, [Fenced!FencedNext]_(Fenced!fencedVars) PROVE FencedInv'
  OBVIOUS
<1> USE DEF FencedInv
<1>1. CASE Fenced!Grant
  BY <1>1 DEF Fenced!Grant, Fenced!HandOver
<1>2. CASE Fenced!Revoke
  BY <1>2 DEF Fenced!Revoke, Fenced!HandOver
<1>3. CASE Fenced!Write
  BY <1>3 DEF Fenced!Write
<1>4. CASE UNCHANGED Fenced!fencedVars
  BY <1>4 DEF Fenced!fencedVars
<1> QED
  BY <1>1, <1>2, <1>3, <1>4 DEF Fenced!FencedNext

\* What behaves as a fenced writer writes in the order of generations, apart
\* from writes under a generation that was handed over; the proof uses nothing
\* of the registry.
THEOREM FencedOrder == Fenced!FencedSpec => Fenced!WritesInGenerationOrder
<1>1. Fenced!FencedInit => FencedInv
  BY DEF Fenced!FencedInit, FencedInv
<1>2. FencedInv /\ [Fenced!FencedNext]_(Fenced!fencedVars) => [log' >= log \/ log' \in handed]_log
  BY DEF FencedInv, Fenced!FencedNext, Fenced!Grant, Fenced!Revoke, Fenced!Write,
         Fenced!fencedVars
<1> QED
  BY <1>1, <1>2, FencedInductive, PTL DEF Fenced!FencedSpec, Fenced!WritesInGenerationOrder

\* Successive commits never go back to an older generation, except under one
\* that a rebalance gave away: what the fenced writer promises.
THEOREM CommitOrder == ASSUME ~Legacy PROVE Spec => CommitsInGenerationOrder
<1>1. ImplementsFencedWriter => CommitsInGenerationOrder
  BY FencedOrder, PTL
  DEF ImplementsFencedWriter, CommitsInGenerationOrder, Fenced!WritesInGenerationOrder
<1> QED
  BY <1>1, RegistryFences, PTL

==============================================================================
