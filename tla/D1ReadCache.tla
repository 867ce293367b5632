----------------------------- MODULE D1ReadCache -----------------------------
(***************************************************************************)
(* The D1 router's read cache and the actor's schema memo                  *)
(* (d1-runtime/read-cache.js, d1-runtime/router.js, d1-runtime/actor.js).  *)
(*                                                                         *)
(* One router task.  A database's content is a version number: a read      *)
(* answers it, a statement that changes rows or the schema raises it.      *)
(* Ownership is whether this task owns the database, and the generation;   *)
(* how it moves is D1OwnerRegistry.  Every database has one schema object  *)
(* that CREATE ... IF NOT EXISTS and DROP are about.                       *)
(***************************************************************************)
EXTENDS Integers, Sequences, FiniteSets, SequencesExt

CONSTANTS RrDbs,         \* databases
          RrSize,        \* query text -> bytes of its key and its response
          RrTTL,         \* D1_READ_CACHE_TTL_MS
          RrMaxEntries,  \* D1_READ_CACHE_MAX_ENTRIES
          RrMaxBytes,    \* D1_READ_CACHE_MAX_BYTES
          RrMaxDbs,      \* ROUTER_READ_CACHE_MAX_DBS
          RrWorkloads,   \* [calls, faults, moves, writes, tab, ticks]; its bounds:
                         \* moves, writes of the other owner, clock ticks
          NoRr           \* no cache, no token

ASSUME RrAssumption ==
  /\ RrTTL \in Nat \ {0} /\ RrMaxEntries \in Nat \ {0}
  /\ RrMaxBytes \in Nat \ {0} /\ RrMaxDbs \in Nat \ {0}

VARIABLES rrCase,   \* workload: calls[c] = [db, mode, stmts, q]
          rrNow,    \* clock
          rt,       \* router: routerReadCaches, its order, routerReadCacheBytes
          own,      \* external: db -> [here, gen]
          since,    \* external: db -> when each content version became current
          tab,      \* external: db -> the schema object exists
          memo,     \* actor: db -> schemaObjectExistsMemo holds the object
          rr,       \* call -> its state
          rrAcked     \* history: db -> highest version a successful write answered

rrWork == RrWorkloads[rrCase]
rrVars == <<rrCase, rrNow, rt, own, since, tab, memo, rr, rrAcked>>

RrVer(d) == Len(since[d])
RrDb(c) == rrWork.calls[c].db

\* A call's state: the router's side (pc), the actor's side (act), the owner
\* the router resolved, and its RouterRead (token, pre, may).
RrIdle == [pc |-> "idle", act |-> "none", owner |-> NoRr, actor |-> NoRr,
           token |-> NoRr, pre |-> FALSE, may |-> FALSE, reply |-> NoRr,
           res |-> "none", val |-> 0, hit |-> FALSE, floor |-> 0, at |-> 0]

-----------------------------------------------------------------------------
(* One database's cache: D1ReadCache *)

SizeOf(entries) == FoldLeft(LAMBDA n, e : n + e.size, 0, entries)
Dropped(cache, gone) ==
  [cache EXCEPT !.entries = SelectSeq(@, LAMBDA e : e \notin gone),
                !.bytes = @ - SizeOf(SelectSeq(cache.entries, LAMBDA e : e \in gone))]

NewCache(epoch) == [epoch |-> epoch, version |-> 0, entries |-> <<>>, bytes |-> 0]

Purged(cache) == Dropped(cache, {e \in ToSet(cache.entries) : e.exp <= rrNow})

HasKey(cache, q, gen) == \E i \in DOMAIN cache.entries :
                           cache.entries[i].q = q /\ cache.entries[i].gen = gen
EntryFor(cache, q, gen) == SelectSeq(cache.entries,
                             LAMBDA e : e.q = q /\ e.gen = gen)[1]

\* The hit moves to the end of the Map.
TouchedEntry(cache, q, gen) ==
  [cache EXCEPT !.entries =
     Append(SelectSeq(@, LAMBDA e : ~(e.q = q /\ e.gen = gen)), EntryFor(cache, q, gen))]

TokenOf(cache) == [epoch |-> cache.epoch, version |-> cache.version,
                   exp |-> rrNow + RrTTL]

TokenCurrent(token, cache) ==
  token.epoch = cache.epoch /\ token.version = cache.version

ExpiryOf(token) == token.exp

\* The oldest entries leave until both bounds hold.
Trimmed(cache) ==
  FoldLeft(LAMBDA s, e :
             IF Len(s.entries) > RrMaxEntries \/ s.bytes > RrMaxBytes
             THEN [s EXCEPT !.entries = Tail(@), !.bytes = @ - e.size] ELSE s,
           cache, cache.entries)

WithEntry(cache, token, q, gen, val) ==
  LET bare == Dropped(cache, {e \in ToSet(cache.entries) : e.q = q /\ e.gen = gen})
      new  == [q |-> q, gen |-> gen, exp |-> ExpiryOf(token),
               size |-> RrSize[q], val |-> val]
  IN Trimmed([bare EXCEPT !.entries = Append(@, new), !.bytes = @ + RrSize[q]])

Invalidated(cache) == [cache EXCEPT !.version = @ + 1, !.entries = <<>>, !.bytes = 0]

-----------------------------------------------------------------------------
(* The router's caches: a Map in insertion order and a byte count *)

WithoutDb(order, d) == SelectSeq(order, LAMBDA x : x # d)
WithCache(r, d, cache) ==
  [r EXCEPT !.caches[d] = cache, !.total = @ + cache.bytes - r.caches[d].bytes]

\* removeRouterReadCache
RemoveCache(r, d) ==
  IF r.caches[d] = NoRr THEN r
  ELSE [r EXCEPT !.caches[d] = NoRr, !.order = WithoutDb(@, d),
                 !.total = @ - r.caches[d].bytes]

InvalidateCache(r, d) ==
  IF r.caches[d] = NoRr THEN r ELSE WithCache(r, d, Invalidated(r.caches[d]))

\* enforceRouterReadCacheByteBudget: the least recently used databases leave.
WithinBudget(r) ==
  FoldLeft(LAMBDA s, d : IF s.total > RrMaxBytes THEN RemoveCache(s, d) ELSE s,
           r, r.order)

MovedLast(r, d) == [r EXCEPT !.order = Append(WithoutDb(@, d), d)]

\* routerReadCacheCandidate and retainRouterReadCache
Retained(r, d, cache) ==
  IF r.caches[d] # NoRr THEN MovedLast(WithCache(r, d, cache), d)
  ELSE LET room == FoldLeft(LAMBDA s, x : IF Len(s.order) >= RrMaxDbs
                                          THEN RemoveCache(s, x) ELSE s,
                            r, r.order)
       IN [room EXCEPT !.caches[d] = cache, !.order = Append(@, d),
                       !.epochs = @ + 1]

CandidateCache(r, d) == IF r.caches[d] # NoRr THEN r.caches[d] ELSE NewCache(r.epochs)

-----------------------------------------------------------------------------
(* What a query may do, and what the actor's statements do *)

WriteSql == {"write", "noop", "ddl", "drop"}
Statements(c) == rrWork.calls[c].stmts
MayMutate(c) ==
  \/ rrWork.calls[c].mode \in {"exec", "batch", "run"}
  \/ \E i \in DOMAIN Statements(c) : Statements(c)[i] \in WriteSql
CanDelay(c) == \A i \in DOMAIN Statements(c) : Statements(c)[i] = "ddl"
Cacheable(c) == rrWork.calls[c].mode = "all" /\ Statements(c) = <<"read">>

\* schemaObjectExists: the memo answers first, then sqlite_master, which fills it.
Existed(x) == x.memo \/ x.tab

\* runStatement and execStatements: x is [up, tab, memo, changed].  A DDL asks
\* the memo, then sqlite_master, before and after it runs.
RunStatement(x, s) ==
  CASE s = "write" -> [x EXCEPT !.up = TRUE, !.changed = TRUE]
    [] s = "noop"  -> [x EXCEPT !.changed = TRUE]
    [] s = "drop"  -> [x EXCEPT !.up = @ \/ x.tab, !.tab = FALSE,
                                !.memo = FALSE, !.changed = TRUE]
    [] s = "ddl"   -> [x EXCEPT !.up = @ \/ ~x.tab, !.tab = TRUE, !.memo = TRUE,
                                !.changed = @ \/ ~Existed(x)]
    [] OTHER       -> x

RunAll(d, m, stmts) ==
  FoldLeft(RunStatement, [up |-> FALSE, tab |-> tab[d], memo |-> m, changed |-> FALSE],
           stmts)

InTransaction(c) == rrWork.calls[c].mode = "batch"
                    \/ (rrWork.calls[c].mode = "exec" /\ Len(Statements(c)) > 1)

\* transactionSyncWithSchemaMemoReset; outside a transaction there is one
\* statement, and what its pre-write probe found stays remembered.
MemoAfterFailure(c, ran) ==
  IF InTransaction(c) THEN FALSE ELSE memo[RrDb(c)] \/ (ran /\ tab[RrDb(c)])

-----------------------------------------------------------------------------
(* A request: handleQuery *)

RrStep(c, r) == rr' = [rr EXCEPT ![c] = r]
RrAnswer(ok, changed, up, val) ==
  [ok |-> ok, changed |-> changed, up |-> up, val |-> val]

\* resolveDbOwner reads the registry.
RrResolve(c) ==
  /\ rr[c].pc = "idle"
  /\ RrStep(c, [rr[c] EXCEPT !.pc = "begin", !.owner = own[RrDb(c)],
                             !.floor = rrAcked[RrDb(c)]])
  /\ UNCHANGED <<rrCase, rrNow, rt, own, since, tab, memo, rrAcked>>

\* beginRouterRead for a remote owner, a mutation, a read it may not cache
RrBeginOther(c) ==
  LET d == RrDb(c)
      pre == rr[c].owner.here /\ MayMutate(c) /\ ~CanDelay(c)
  IN /\ rr[c].pc = "begin"
     /\ ~rr[c].owner.here \/ ~Cacheable(c)
     /\ rt' = IF ~rr[c].owner.here THEN RemoveCache(rt, d)
              ELSE IF pre THEN InvalidateCache(rt, d) ELSE rt
     /\ RrStep(c, [rr[c] EXCEPT !.pc = "routed", !.pre = pre,
                     !.may = MayMutate(c) /\ ~pre, !.actor = rr[c].owner,
                     !.act = IF rr[c].owner.here THEN "sent" ELSE "remote"])
     /\ UNCHANGED <<rrCase, rrNow, own, since, tab, memo, rrAcked>>

\* beginRouterRead and D1ReadCache.beginRead
RrBeginRead(c) ==
  LET d == RrDb(c)
      q == rrWork.calls[c].q
      cache == Purged(CandidateCache(rt, d))
      hit == HasKey(cache, q, rr[c].owner.gen)
  IN /\ rr[c].pc = "begin"
     /\ rr[c].owner.here /\ Cacheable(c)
     /\ IF hit
        THEN /\ rt' = Retained(rt, d, TouchedEntry(cache, q, rr[c].owner.gen))
             /\ RrStep(c, [rr[c] EXCEPT !.pc = "done", !.res = "ok", !.hit = TRUE,
                             !.val = EntryFor(cache, q, rr[c].owner.gen).val,
                             !.at = rrNow])
        ELSE /\ rt' = Retained(rt, d, cache)
             /\ RrStep(c, [rr[c] EXCEPT !.pc = "routed", !.token = TokenOf(cache),
                             !.actor = rr[c].owner, !.act = "sent"])
     /\ UNCHANGED <<rrCase, rrNow, own, since, tab, memo, rrAcked>>

\* The statements' effect and the answer on its way back.
Committed(c, m) ==
  LET d == RrDb(c)
      x == RunAll(d, m, Statements(c))
      now == IF x.up THEN Append(since[d], rrNow) ELSE since[d]
  IN /\ since' = [since EXCEPT ![d] = now]
     /\ tab' = [tab EXCEPT ![d] = x.tab]
     /\ RrStep(c, [rr[c] EXCEPT !.act = "done",
                                !.reply = RrAnswer(TRUE, x.changed, x.up, Len(now))])

\* The local actor checks the owner and runs the statements in one turn; the
\* router may have stopped waiting.
RrActorRuns(c) ==
  LET d == RrDb(c)
  IN /\ rr[c].act = "sent"
     /\ own[d] = rr[c].actor
     /\ Committed(c, memo[d])
     /\ memo' = [memo EXCEPT ![d] = RunAll(d, @, Statements(c)).memo]
     /\ UNCHANGED <<rrCase, rrNow, rt, own, rrAcked>>

\* The owner check refuses, or a statement fails: in a transaction the last
\* one after the others ran.
RrActorFails(c) ==
  LET d == RrDb(c)
      ran == "ddl" \in Range(Statements(c))
  IN /\ rr[c].act = "sent"
     /\ \/ own[d] # rr[c].actor /\ UNCHANGED memo
        \/ /\ own[d] = rr[c].actor /\ "sql" \in rrWork.faults
           /\ memo' = [memo EXCEPT ![d] = MemoAfterFailure(c, ran)]
     /\ RrStep(c, [rr[c] EXCEPT !.act = "done", !.reply = RrAnswer(FALSE, FALSE, FALSE, 0)])
     /\ UNCHANGED <<rrCase, rrNow, rt, own, since, tab, rrAcked>>

\* routeQueryToOwner with a remote owner: the forward runs there, or fails.
RrForward(c) ==
  LET d == RrDb(c)
  IN /\ rr[c].act = "remote"
     /\ \/ ~own[d].here /\ Committed(c, FALSE)
        \/ /\ own[d] # rr[c].owner
           /\ RrStep(c, [rr[c] EXCEPT !.act = "done",
                                      !.reply = RrAnswer(FALSE, FALSE, FALSE, 0)])
           /\ UNCHANGED <<since, tab>>
     /\ UNCHANGED <<rrCase, rrNow, rt, own, memo, rrAcked>>

\* takeoverExpiredOwner: this task becomes the owner, its actor gets the query.
RrTakeover(c) ==
  LET d == RrDb(c)
      mine == [here |-> TRUE, gen |-> own[d].gen + 1]
  IN /\ rr[c].act = "remote" /\ rr[c].pc = "routed"
     /\ ~own[d].here /\ "takeover" \in rrWork.faults
     /\ own' = [own EXCEPT ![d] = mine]
     /\ RrStep(c, [rr[c] EXCEPT !.act = "sent", !.actor = mine])
     /\ UNCHANGED <<rrCase, rrNow, rt, since, tab, memo, rrAcked>>

\* finishRead, from the cache the Map holds now
FinishRead(r, c, val) ==
  LET d == RrDb(c)
      q == rrWork.calls[c].q
      cache == r.caches[d]
  IN IF cache = NoRr THEN r
     ELSE IF ~TokenCurrent(rr[c].token, cache) \/ RrSize[q] > RrMaxBytes THEN r
     ELSE WithinBudget(MovedLast(WithCache(r, d,
            WithEntry(cache, rr[c].token, q, rr[c].owner.gen, val)), d))

\* Bug: a mutation is not followed by a second invalidation.
AfterSettle_BeforeOnly(r, c) == r

\* The finally of handleQuery.
AfterSettle(r, c) == IF rr[c].pre THEN InvalidateCache(r, RrDb(c)) ELSE r

\* The answer arrives; known: its value encoding is one the router knows.
RrSettle(c) ==
  LET d == RrDb(c)
      a == rr[c].reply
  IN /\ rr[c].pc = "routed" /\ rr[c].act = "done"
     /\ \E known \in BOOLEAN :
          rt' = AfterSettle(IF a.ok /\ a.changed /\ ~rr[c].pre THEN InvalidateCache(rt, d)
                        ELSE IF a.ok /\ rr[c].token # NoRr /\ known THEN FinishRead(rt, c, a.val)
                        ELSE IF ~a.ok /\ rr[c].may THEN InvalidateCache(rt, d)
                        ELSE rt, c)
     /\ RrStep(c, [rr[c] EXCEPT !.pc = "done", !.val = a.val, !.at = rrNow,
                                !.res = IF a.ok THEN "ok" ELSE "error"])
     /\ rrAcked' = IF a.up
                 THEN [rrAcked EXCEPT ![d] = IF a.val > @ THEN a.val ELSE @] ELSE rrAcked
     /\ UNCHANGED <<rrCase, rrNow, own, since, tab, memo>>

\* The deadline fires or the transport fails; what was sent may still run.
RrLost(c) ==
  /\ rr[c].pc = "routed" /\ "lost" \in rrWork.faults
  /\ rt' = AfterSettle(IF rr[c].may THEN InvalidateCache(rt, RrDb(c)) ELSE rt, c)
  /\ RrStep(c, [rr[c] EXCEPT !.pc = "done", !.res = "error", !.at = rrNow])
  /\ UNCHANGED <<rrCase, rrNow, own, since, tab, memo, rrAcked>>

-----------------------------------------------------------------------------
(* The world around the router *)

\* Ownership leaves this task or comes back, under a new generation.
RrMove(d) ==
  /\ own[d].gen < rrWork.moves
  /\ own' = [own EXCEPT ![d] = [here |-> ~@.here, gen |-> @.gen + 1]]
  /\ UNCHANGED <<rrCase, rrNow, rt, since, tab, memo, rr, rrAcked>>

\* A client of the other owner writes rows and gets its answer.
RrOtherWrites(d) ==
  /\ ~own[d].here /\ RrVer(d) <= rrWork.writes
  /\ since' = [since EXCEPT ![d] = Append(@, rrNow)]
  /\ rrAcked' = [rrAcked EXCEPT ![d] = RrVer(d) + 1]
  /\ UNCHANGED <<rrCase, rrNow, rt, own, tab, memo, rr>>

\* workerd drops the actor instance.
RrEvictActor(d) ==
  /\ memo[d]
  /\ memo' = [memo EXCEPT ![d] = FALSE]
  /\ UNCHANGED <<rrCase, rrNow, rt, own, since, tab, rr, rrAcked>>

RrTick ==
  /\ rrNow < rrWork.ticks
  /\ rrNow' = rrNow + 1
  /\ UNCHANGED <<rrCase, rt, own, since, tab, memo, rr, rrAcked>>

RrInit ==
  /\ rrCase \in DOMAIN RrWorkloads
  /\ rrNow = 0
  /\ rt = [caches |-> [d \in RrDbs |-> NoRr], order |-> <<>>, total |-> 0, epochs |-> 0]
  /\ own = [d \in RrDbs |-> [here |-> TRUE, gen |-> 1]]
  /\ since = [d \in RrDbs |-> <<0>>]
  /\ tab = [d \in RrDbs |-> rrWork.tab]
  /\ memo = [d \in RrDbs |-> FALSE]
  /\ rr = [c \in DOMAIN rrWork.calls |-> RrIdle]
  /\ rrAcked = [d \in RrDbs |-> 1]

RrNext ==
  \/ \E c \in DOMAIN rrWork.calls :
       \/ RrResolve(c) \/ RrBeginOther(c) \/ RrBeginRead(c)
       \/ RrActorRuns(c) \/ RrActorFails(c) \/ RrForward(c) \/ RrTakeover(c)
       \/ RrSettle(c) \/ RrLost(c)
  \/ \E d \in {RrDb(c) : c \in DOMAIN rrWork.calls} :
       RrMove(d) \/ RrOtherWrites(d) \/ RrEvictActor(d)
  \/ RrTick

RrSpec == RrInit /\ [][RrNext]_rrVars

-----------------------------------------------------------------------------
(* Properties *)

RrIsRead(c) == Statements(c) = <<"read">>

\* A read that succeeds answers at least the version of every change that was
\* answered to its writer before the read asked for the owner: a cached answer
\* never hides an acknowledged write, whichever reads, writes, evictions,
\* takeovers and lost answers run beside it (handleQuery, finishRead).
FreshReads ==
  \A c \in DOMAIN rrWork.calls : rr[c].res = "ok" /\ RrIsRead(c) => rr[c].val >= rr[c].floor

\* What a hit answers was the database's content less than the time to live
\* ago, also when a write whose answer was lost committed later without an
\* invalidation (beginRead, the token's expiresAt, purgeExpired).
StaleBounded ==
  \A c \in DOMAIN rrWork.calls :
    rr[c].hit =>
      LET s == since[RrDb(c)]
      IN rr[c].val = Len(s) \/ s[rr[c].val + 1] > rr[c].at - RrTTL

\* routerReadCacheBytes is the bytes all caches hold, each cache counts its
\* own entries, and the process budget holds after every request.
CacheBytesExact ==
  /\ rt.total = FoldLeft(LAMBDA n, d : n + rt.caches[d].bytes, 0, rt.order)
  /\ \A d \in Range(rt.order) : rt.caches[d].bytes = SizeOf(rt.caches[d].entries)
  /\ rt.total <= RrMaxBytes

\* The schema memo never remembers an object the database does not have, so a
\* CREATE ... IF NOT EXISTS that creates it reports the change the router waits
\* for (schemaObjectExists, transactionSyncWithSchemaMemoReset).
MemoTrue == \A d \in RrDbs : memo[d] => tab[d]

\* A cached D1 read is never older than a write that was answered before it, nor
\* than the time to live, and the budget and the memo it rests on are exact.
ReadsCurrent ==
  /\ FreshReads
  /\ StaleBounded
  /\ CacheBytesExact
  /\ MemoTrue

=============================================================================
