------------------------------ MODULE D1Catalog ------------------------------
(***************************************************************************)
(* The control plane's catalog of D1 databases: create in three phases     *)
(* (provisional metadata, storage, ready), delete with a tombstone and the *)
(* release of the owner, and the migrations that are applied through it.   *)
(*                                                                         *)
(* Each request is one caller with a program counter.  A WATCH/MULTI/EXEC  *)
(* is one step; every other await is a step boundary.  A query to the      *)
(* d1-runtime may be applied and still be answered with a failure.         *)
(***************************************************************************)
EXTENDS Naturals, Sequences, FiniteSets

CONSTANTS
  DcCallers,     \* requests to the control plane
  DcWorkloads,   \* [jobs, seeded]; a job is [op, name, id, list]
  DbNames,       \* database names
  Migrations,    \* migration ids
  Checksums,     \* checksums of migration texts
  DbIds,         \* 1..n: ids in the order in which they are drawn
  ProvisionalTTL,\* PROVISIONAL_TTL_MS
  DcMaxTime,     \* bound on the clock
  DcMaxCrashes,  \* bound on control processes that die
  NoDb           \* no database, no name, no checksum

VARIABLES
  dcCase,     \* the workload
  dcNow,      \* wall clock
  drawn,      \* ids drawn by createDatabaseId
  db,         \* d1:database:<ns>:<id>
  alias,      \* d1:database-name:<ns>:<name>
  listed,     \* d1:databases:<ns>
  dbRefs,     \* d1:database-referrers:<ns>:<id>
  tombstone,  \* d1:database-tombstone:<ns>:<id>, its ownerReleaseState
  store,      \* the SQLite file of a database
  owned,      \* databases with an owner record
  migLock,    \* d1:migrations-lock:<ns>:<id>
  dcReq,      \* requests
  dcCrashes

metaVars == <<db, alias, listed, dbRefs, tombstone>>
dcWork == DcWorkloads[dcCase]
dcVars == <<dcCase, dcNow, drawn, metaVars, store, owned, migLock, dcReq, dcCrashes>>

Job(c) == dcWork.jobs[c]
NoStore == [table |-> FALSE, applied |-> [m \in Migrations |-> NoDb],
            ran |-> [m \in Migrations |-> 0]]
Ready(name) == [name |-> name, state |-> "ready", until |-> 0]

ASSUME CatalogAssumption ==
  /\ DbIds = 1..Cardinality(DbIds) /\ NoDb \notin DbIds /\ NoDb \notin Checksums
  /\ {ProvisionalTTL, DcMaxTime, DcMaxCrashes} \subseteq Nat

Waiting == [pc |-> "start", id |-> NoDb, at |-> 0, step |-> 1, seen |-> NoStore.applied,
            reply |-> "none", said |-> <<>>]

\* Init: an empty namespace, or one with a ready database of each name.
DcInit ==
  /\ dcCase \in DOMAIN DcWorkloads
  /\ dcNow = 0 /\ dcCrashes = 0
  /\ LET seed == IF dcWork.seeded THEN {1} ELSE {}
         name == CHOOSE n \in DbNames : TRUE
     IN /\ drawn = Cardinality(seed)
        /\ db = [i \in DbIds |-> IF i \in seed THEN Ready(name) ELSE NoDb]
        /\ alias = [n \in DbNames |-> IF n = name /\ seed # {} THEN 1 ELSE NoDb]
        /\ listed = seed
        /\ store = [i \in DbIds |-> [NoStore EXCEPT !.table = i \in seed]]
        /\ owned = seed
  /\ dbRefs = [i \in DbIds |-> {}]
  /\ tombstone = [i \in DbIds |-> "none"]
  /\ migLock = [i \in DbIds |-> NoDb]
  /\ dcReq = [c \in DcCallers |-> Waiting]

DcAt(c, pc) == dcReq[c].pc = pc
DcGoto(c, pc) == dcReq' = [dcReq EXCEPT ![c].pc = pc]
DcReply(c, what) == dcReq' = [dcReq EXCEPT ![c].pc = "done", ![c].reply = what]
IsReady(i) == i # NoDb /\ db[i] # NoDb /\ db[i].state = "ready"
IsProvisional(i) == db[i] # NoDb /\ db[i].state = "provisional"

-----------------------------------------------------------------------------
(* The d1-runtime as the control plane sees it. *)

\* d1RuntimeQuery: the effect on the file and what the caller learns.  Only
\* an answer that arrived carries the owner.
QueryOutcomes ==
  {[applied |-> TRUE, ok |-> TRUE, hint |-> TRUE],
   [applied |-> FALSE, ok |-> FALSE, hint |-> TRUE],
   [applied |-> TRUE, ok |-> FALSE, hint |-> FALSE],
   [applied |-> FALSE, ok |-> FALSE, hint |-> FALSE]}

\* A query that reaches the runtime makes some task the owner.
Owned(i, o) == owned' = IF o.applied \/ o.hint THEN owned \cup {i} ELSE owned

\* d1RuntimeReleaseOwner: the owner lets go, or the call fails.
ReleaseOwner(i, ok) == owned' = IF ok THEN owned \ {i} ELSE owned

-----------------------------------------------------------------------------
(* Create. *)

IsExpiredProvisional(i, at) == IsProvisional(i) /\ db[i].until <= at

\* The name is looked up outside of any transaction.
CreateLookup(c) ==
  /\ Job(c).op = "create" /\ DcAt(c, "start")
  /\ LET found == alias[Job(c).name]
     IN dcReq' = [dcReq EXCEPT ![c].at = dcNow, ![c].id = found,
                               ![c].pc = IF found = NoDb THEN "commit" ELSE "existing"]
  /\ UNCHANGED <<dcCase, dcNow, drawn, metaVars, store, owned, migLock, dcCrashes>>

\* The record of the name: only an expired provisional one is replaced.
CreateExisting(c) ==
  /\ DcAt(c, "existing")
  /\ IF IsExpiredProvisional(dcReq[c].id, dcReq[c].at)
     THEN DcGoto(c, "evict") ELSE DcReply(c, "exists")
  /\ UNCHANGED <<dcCase, dcNow, drawn, metaVars, store, owned, migLock, dcCrashes>>

\* rollbackProvisionalDatabaseMetadata: only a record that is still
\* provisional goes, and with it its name if the name still points to it.
RollbackProvisional(i) ==
  IF IsProvisional(i)
  THEN /\ db' = [db EXCEPT ![i] = NoDb]
       /\ alias' = [n \in DbNames |-> IF n = db[i].name /\ alias[n] = i THEN NoDb ELSE alias[n]]
       /\ listed' = listed \ {i}
       /\ dbRefs' = [dbRefs EXCEPT ![i] = {}]
       /\ UNCHANGED tombstone
  ELSE UNCHANGED metaVars

\* The eviction, or five lost races; a record that is no longer provisional
\* lets the create go on to its own commit.
CreateEvict(c) ==
  /\ DcAt(c, "evict")
  /\ \/ RollbackProvisional(dcReq[c].id) /\ DcGoto(c, "commit")
     \/ UNCHANGED metaVars /\ DcReply(c, "contention")
  /\ UNCHANGED <<dcCase, dcNow, drawn, store, owned, migLock, dcCrashes>>

\* A commit that trusts the lookup of the name.
NameFree_Unwatched(c) == TRUE

\* The name is free, as read under WATCH in the commit itself.
NameFree(c) == alias[Job(c).name] = NoDb

\* createDatabaseId: random, so never one that was drawn before.
NewDatabaseId == drawn + 1

\* commitDatabaseMetadata: record, name and list entry in one transaction.
CreateCommit(c) ==
  /\ DcAt(c, "commit")
  /\ drawn + 1 \in DbIds
  /\ \/ /\ NameFree(c)
        /\ LET i == NewDatabaseId
           IN /\ drawn' = drawn + 1
              /\ db' = [db EXCEPT ![i] =
                   [name |-> Job(c).name, state |-> "provisional",
                    until |-> dcReq[c].at + ProvisionalTTL]]
              /\ alias' = [alias EXCEPT ![Job(c).name] = i]
              /\ listed' = listed \cup {i}
              /\ dcReq' = [dcReq EXCEPT ![c].id = i, ![c].pc = "initialize"]
        /\ UNCHANGED <<dbRefs, tombstone>>
     \/ /\ ~NameFree(c)
        /\ DcReply(c, "exists") /\ UNCHANGED <<drawn, metaVars>>
     \/ DcReply(c, "contention") /\ UNCHANGED <<drawn, metaVars>>
  /\ UNCHANGED <<dcCase, dcNow, store, owned, migLock, dcCrashes>>

\* Where a create goes after the storage's answer.
AfterInitialize(o) == IF o.ok THEN "ready" ELSE IF o.hint THEN "release" ELSE "rollback"

\* initializeDatabaseStorage: the migrations table is made.
CreateInitialize(c) ==
  /\ DcAt(c, "initialize")
  /\ \E o \in QueryOutcomes :
       /\ store' = IF o.applied THEN [store EXCEPT ![dcReq[c].id].table = TRUE] ELSE store
       /\ Owned(dcReq[c].id, o)
       /\ DcGoto(c, AfterInitialize(o))
  /\ UNCHANGED <<dcCase, dcNow, drawn, metaVars, migLock, dcCrashes>>

\* markDatabaseReady finds its provisional record under its own name.
MayMarkReady(c) ==
  LET i == dcReq[c].id IN IsProvisional(i) /\ alias[db[i].name] = i

\* markDatabaseReady, or the loss of five races; then the storage is given
\* back and the record rolled back.
CreateReady(c) ==
  /\ DcAt(c, "ready")
  /\ \/ /\ MayMarkReady(c)
        /\ db' = [db EXCEPT ![dcReq[c].id] = Ready(Job(c).name)]
        /\ DcReply(c, "created") /\ UNCHANGED <<alias, listed, dbRefs, tombstone>>
     \/ DcGoto(c, "release") /\ UNCHANGED metaVars
  /\ UNCHANGED <<dcCase, dcNow, drawn, store, owned, migLock, dcCrashes>>

\* releaseInitializedOwner; a failure is only logged.
CreateRelease(c) ==
  /\ DcAt(c, "release")
  /\ \E ok \in BOOLEAN : ReleaseOwner(dcReq[c].id, ok)
  /\ DcGoto(c, "rollback")
  /\ UNCHANGED <<dcCase, dcNow, drawn, metaVars, store, migLock, dcCrashes>>

\* The rollback may lose its races too: the provisional record then stays
\* until another create finds it expired.
CreateRollback(c) ==
  /\ DcAt(c, "rollback")
  /\ RollbackProvisional(dcReq[c].id) \/ UNCHANGED metaVars
  /\ DcReply(c, "failed")
  /\ UNCHANGED <<dcCase, dcNow, drawn, store, owned, migLock, dcCrashes>>

-----------------------------------------------------------------------------
(* References, and the operations that take one. *)

\* resolveDatabaseRefFrom: the record under the id, or else the id under the
\* name, whose record is read next.
Resolve(c) ==
  /\ Job(c).op \in {"delete", "apply", "status", "execute"} /\ DcAt(c, "start")
  /\ LET i == IF Job(c).id # 0 THEN Job(c).id ELSE alias[Job(c).name]
     IN IF i = NoDb THEN DcReply(c, "not_found")
        ELSE dcReq' = [dcReq EXCEPT ![c].id = i, ![c].pc = "resolve"]
  /\ UNCHANGED <<dcCase, dcNow, drawn, metaVars, store, owned, migLock, dcCrashes>>

ResolveRecord(c) ==
  /\ DcAt(c, "resolve")
  /\ IF IsReady(dcReq[c].id) THEN DcGoto(c, Job(c).op) ELSE DcReply(c, "not_found")
  /\ UNCHANGED <<dcCase, dcNow, drawn, metaVars, store, owned, migLock, dcCrashes>>

\* resolveD1RefsForCommit and stageD1ReferrerAdds of a deploy: the record and
\* the name are watched, so resolving and referring are one step.
Bind(c) ==
  /\ Job(c).op = "bind" /\ DcAt(c, "start")
  /\ LET i == alias[Job(c).name]
     IN IF IsReady(i)
        THEN /\ dbRefs' = [dbRefs EXCEPT ![i] = @ \cup {c}]
             /\ dcReq' = [dcReq EXCEPT ![c].id = i, ![c].pc = "bound"]
        ELSE DcReply(c, "not_found") /\ UNCHANGED dbRefs
  /\ UNCHANGED <<dcCase, dcNow, drawn, db, alias, listed, tombstone, store, owned, migLock, dcCrashes>>

\* The version that holds the reference is deleted.
Unbind(c) ==
  /\ DcAt(c, "bound")
  /\ dbRefs' = [dbRefs EXCEPT ![dcReq[c].id] = @ \ {c}]
  /\ DcReply(c, "unbound")
  /\ UNCHANGED <<dcCase, dcNow, drawn, db, alias, listed, tombstone, store, owned, migLock, dcCrashes>>

-----------------------------------------------------------------------------
(* Delete. *)

\* deleteDatabaseMetadata takes a ready database without referrers.
Deletable(i) == IsReady(i) /\ dbRefs[i] = {}

\* Tombstone, record, referrers, list entry and name in one transaction.
StageDelete(i) ==
  /\ tombstone' = [tombstone EXCEPT ![i] = "pending"]
  /\ db' = [db EXCEPT ![i] = NoDb]
  /\ listed' = listed \ {i}
  /\ dbRefs' = [dbRefs EXCEPT ![i] = {}]
  /\ alias' = [n \in DbNames |-> IF n = db[i].name /\ alias[n] = i THEN NoDb ELSE alias[n]]

DeleteMetadata(c) ==
  /\ DcAt(c, "delete")
  /\ LET i == dcReq[c].id
     IN \/ Deletable(i) /\ StageDelete(i) /\ DcGoto(c, "probe")
        \/ ~Deletable(i) /\ UNCHANGED metaVars
             /\ DcReply(c, IF IsReady(i) THEN "in_use" ELSE "not_found")
        \/ UNCHANGED metaVars /\ DcReply(c, "contention")
  /\ UNCHANGED <<dcCase, dcNow, drawn, store, owned, migLock, dcCrashes>>

\* d1RuntimeProbeOwner: the owner, nobody, or no answer.
DeleteProbe(c) ==
  /\ DcAt(c, "probe")
  /\ \/ dcReq[c].id \in owned /\ DcGoto(c, "free")
     \/ dcReq' = [dcReq EXCEPT ![c].pc = "mark", ![c].reply = "not_found"]
  /\ UNCHANGED <<dcCase, dcNow, drawn, metaVars, store, owned, migLock, dcCrashes>>

\* releaseDeletedOwner: the release and its outcome.
DeleteRelease(c) ==
  /\ DcAt(c, "free")
  /\ \E ok \in BOOLEAN :
       /\ ReleaseOwner(dcReq[c].id, ok)
       /\ dcReq' = [dcReq EXCEPT ![c].pc = "mark", ![c].reply = IF ok THEN "released" ELSE "failed"]
  /\ UNCHANGED <<dcCase, dcNow, drawn, metaVars, store, migLock, dcCrashes>>

\* updateDatabaseTombstoneOwnerRelease, whose failure is only logged.
DeleteMark(c) ==
  /\ DcAt(c, "mark")
  /\ \/ tombstone' = [tombstone EXCEPT ![dcReq[c].id] = dcReq[c].reply]
     \/ UNCHANGED tombstone
  /\ DcReply(c, "deleted")
  /\ UNCHANGED <<dcCase, dcNow, drawn, db, alias, listed, dbRefs, store, owned, migLock, dcCrashes>>

-----------------------------------------------------------------------------
(* Migrations. *)

Step(c) == Job(c).list[dcReq[c].step]

\* acquireMigrationLock: SET NX with a token.
ApplyLock(c) ==
  /\ DcAt(c, "apply")
  /\ LET i == dcReq[c].id
     IN IF migLock[i] = NoDb
        THEN migLock' = [migLock EXCEPT ![i] = c] /\ DcGoto(c, "read")
        ELSE DcReply(c, "in_progress") /\ UNCHANGED migLock
  /\ UNCHANGED <<dcCase, dcNow, drawn, metaVars, store, owned, dcCrashes>>

\* releaseMigrationLock in the finally block: only one's own token goes, and
\* a release that fails leaves the key to its TTL.
Finish(c, what) ==
  /\ DcReply(c, what)
  /\ LET i == dcReq[c].id
     IN migLock' \in {migLock, IF migLock[i] = c THEN [migLock EXCEPT ![i] = NoDb] ELSE migLock}

\* readAppliedMigrations: the table is made if need be, then read.
ApplyRead(c) ==
  /\ DcAt(c, "read")
  /\ LET i == dcReq[c].id
     IN \E o \in QueryOutcomes :
       /\ store' = IF o.applied THEN [store EXCEPT ![i].table = TRUE] ELSE store
       /\ Owned(i, o)
       /\ IF o.ok
          THEN /\ dcReq' = [dcReq EXCEPT ![c].pc = "renew", ![c].seen = store[i].applied]
               /\ UNCHANGED migLock
          ELSE Finish(c, "failed")
  /\ UNCHANGED <<dcCase, dcNow, drawn, metaVars, dcCrashes>>

\* A migration that was applied with another text.
Mismatch(c) == dcReq[c].seen[Step(c).id] \notin {NoDb, Step(c).sum}

\* The loop head: renew the lock, then compare with what was read at first.
ApplyRenew(c) ==
  /\ DcAt(c, "renew")
  /\ IF dcReq[c].step > Len(Job(c).list) THEN Finish(c, "applied")
     ELSE IF migLock[dcReq[c].id] # c THEN Finish(c, "lock_lost")
     ELSE IF Mismatch(c) THEN Finish(c, "mismatch")
     ELSE /\ dcReq' = [dcReq EXCEPT
               ![c].pc = IF dcReq[c].seen[Step(c).id] = NoDb THEN "batch" ELSE "renew",
               ![c].step = IF dcReq[c].seen[Step(c).id] = NoDb THEN @ ELSE @ + 1]
          /\ UNCHANGED migLock
  /\ UNCHANGED <<dcCase, dcNow, drawn, metaVars, store, owned, dcCrashes>>

\* The statements and the row of the migration are one transaction.
Batch(i, m) == [store EXCEPT ![i].applied[m.id] = m.sum, ![i].ran[m.id] = @ + 1]

\* A batch whose row is not keyed by the migration.
BatchAccepted_NoKey(i, m) == store[i].table

\* The id is the primary key of the migrations table.
BatchAccepted(i, m) == store[i].table /\ store[i].applied[m.id] = NoDb

ApplyBatch(c) ==
  /\ DcAt(c, "batch")
  /\ LET i == dcReq[c].id
         m == Step(c)
     IN \E o \in QueryOutcomes :
       /\ o.applied => BatchAccepted(i, m)
       /\ store' = IF o.applied THEN Batch(i, m) ELSE store
       /\ Owned(i, o)
       /\ IF o.ok
          THEN /\ dcReq' = [dcReq EXCEPT ![c].pc = "renew", ![c].step = @ + 1,
                                         ![c].seen[m.id] = m.sum]
               /\ UNCHANGED migLock
          ELSE Finish(c, "failed")
  /\ UNCHANGED <<dcCase, dcNow, drawn, metaVars, dcCrashes>>

\* migrationStatus: local migrations against the rows that were read.
MigrationStatus(list, applied) ==
  [k \in DOMAIN list |->
     IF applied[list[k].id] = NoDb THEN "pending"
     ELSE IF applied[list[k].id] # list[k].sum THEN "drifted" ELSE "applied"]

\* migrationStatusEndpoint; a missing table reads as no migrations.
StatusRead(c) ==
  /\ DcAt(c, "status")
  /\ \/ /\ dcReq' = [dcReq EXCEPT ![c].pc = "done", ![c].reply = "status",
             ![c].said = MigrationStatus(Job(c).list, store[dcReq[c].id].applied)]
        /\ owned' = owned \cup {dcReq[c].id}
     \/ DcReply(c, "failed") /\ UNCHANGED owned
  /\ UNCHANGED <<dcCase, dcNow, drawn, metaVars, store, migLock, dcCrashes>>

\* executeDatabase: SQL of a client, which may reach a database that was
\* deleted after it was resolved and make a task its owner again.
Execute(c) ==
  /\ DcAt(c, "execute")
  /\ \E o \in QueryOutcomes : Owned(dcReq[c].id, o) /\ DcReply(c, IF o.ok THEN "executed" ELSE "failed")
  /\ UNCHANGED <<dcCase, dcNow, drawn, metaVars, store, migLock, dcCrashes>>

-----------------------------------------------------------------------------
(* Time and failures. *)

DcTick ==
  /\ dcNow < DcMaxTime /\ dcNow' = dcNow + 1
  /\ UNCHANGED <<dcCase, drawn, metaVars, store, owned, migLock, dcReq, dcCrashes>>

\* The holder did not renew for MIGRATION_LOCK_TTL_SECONDS.
LockExpires(i) ==
  /\ migLock[i] # NoDb /\ migLock' = [migLock EXCEPT ![i] = NoDb]
  /\ UNCHANGED <<dcCase, dcNow, drawn, metaVars, store, owned, dcReq, dcCrashes>>

\* A control process dies with its request.
DcCrash(c) ==
  /\ dcCrashes < DcMaxCrashes /\ ~DcAt(c, "done") /\ ~DcAt(c, "start")
  /\ DcReply(c, "crashed") /\ dcCrashes' = dcCrashes + 1
  /\ UNCHANGED <<dcCase, dcNow, drawn, metaVars, store, owned, migLock>>

DcStep(c) ==
  \/ CreateLookup(c) \/ CreateExisting(c) \/ CreateEvict(c) \/ CreateCommit(c)
  \/ CreateInitialize(c) \/ CreateReady(c) \/ CreateRelease(c) \/ CreateRollback(c)
  \/ Resolve(c) \/ ResolveRecord(c) \/ Bind(c) \/ Unbind(c)
  \/ DeleteMetadata(c) \/ DeleteProbe(c) \/ DeleteRelease(c) \/ DeleteMark(c)
  \/ ApplyLock(c) \/ ApplyRead(c) \/ ApplyRenew(c) \/ ApplyBatch(c) \/ StatusRead(c) \/ Execute(c)

DcNext ==
  \/ \E c \in DcCallers : DcStep(c) \/ DcCrash(c)
  \/ \E i \in DbIds : LockExpires(i)
  \/ DcTick

DcSpec == DcInit /\ [][DcNext]_dcVars

-----------------------------------------------------------------------------
(* Properties. *)

\* A name leads to the record that bears it and every record is found under
\* its name and in the list, whatever creates, evictions and deletes of the
\* name meet (commitDatabaseMetadata, rollback..., deleteDatabaseMetadata).
AliasesExact ==
  /\ listed = {i \in DbIds : db[i] # NoDb}
  /\ \A n \in DbNames : alias[n] # NoDb => db[alias[n]] # NoDb /\ db[alias[n]].name = n
  /\ \A i \in listed : alias[db[i].name] = i

\* A database whose create was answered 201 stays ready until a delete puts
\* its tombstone: no eviction or rollback that began while it was provisional
\* takes it away.
CreatedStays ==
  \A c \in DcCallers : dcReq[c].reply = "created" =>
    IsReady(dcReq[c].id) \/ tombstone[dcReq[c].id] # "none"

\* A ready database has its storage: the migrations table is there.
ReadyInitialized == \A i \in DbIds : IsReady(i) => store[i].table

\* A database that a committed bundle refers to is ready and knows the bundle,
\* though deploy and delete of the database look at different keys first.
BoundIsReady ==
  \A c \in DcCallers : DcAt(c, "bound") => IsReady(dcReq[c].id) /\ c \in dbRefs[dcReq[c].id]

\* The statements of a migration take effect once in a database, and exactly
\* when its row says so, even with two appliers after the advisory lock
\* expired and with answers that are lost (d1-migrations.js:268).
MigrationsRunOnce ==
  \A i \in DbIds : \A m \in Migrations :
    store[i].ran[m] = (IF store[i].applied[m] = NoDb THEN 0 ELSE 1)

\* An apply that answers 200 leaves every migration it was given applied with
\* the given text, and a status that says "applied" names an applied text.
MigrationRepliesTrue ==
  \A c \in DcCallers :
    /\ dcReq[c].reply = "applied" /\ Job(c).op = "apply" =>
         \A k \in DOMAIN Job(c).list :
           store[dcReq[c].id].applied[Job(c).list[k].id] = Job(c).list[k].sum
    /\ \A k \in DOMAIN dcReq[c].said : dcReq[c].said[k] = "applied" =>
           store[dcReq[c].id].applied[Job(c).list[k].id] = Job(c).list[k].sum

\* A record that is gone does not come back, and a tombstone is forever: a
\* late markDatabaseReady or rollback revives nothing.
NoRevival ==
  [][\A i \in 1..drawn : (db[i] = NoDb => db'[i] = NoDb)
                      /\ (tombstone[i] # "none" => tombstone'[i] # "none")]_dcVars

\* The catalog keeps what it told its callers: names and records agree, a
\* database that was created or bound stays ready with its storage, and one that
\* is gone stays gone (commitDatabaseMetadata, markDatabaseReady, the rollback).
CatalogHeld ==
  /\ [](/\ AliasesExact
        /\ CreatedStays
        /\ ReadyInitialized
        /\ BoundIsReady)
  /\ NoRevival

\* Migrations run once and the replies of apply and status say which ones ran.
MigrationsTrue ==
  /\ MigrationsRunOnce
  /\ MigrationRepliesTrue

=============================================================================
