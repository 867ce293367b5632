----------------------------- MODULE ReplayCache -----------------------------
(***************************************************************************)
(* The Workflow replay cache of one Runtime isolate                        *)
(* (runtime/dispatch/workflow-replay-cache.js): a least-recently-used map  *)
(* of per-instance caches shared by the step controllers of concurrent     *)
(* turns, caches that were evicted while a controller still uses them      *)
(* (detached), and leases for replay pages being read.  Every byte counter *)
(* is kept by increments in the code and is therefore a variable here.     *)
(***************************************************************************)
EXTENDS Naturals, Integers, Sequences, SequencesExt, FiniteSets, FiniteSetsExt

CONSTANTS RcTurns,      \* step controllers
          RcKeys,       \* workflow instances
          RcOrdinals,   \* step ordinals
          RcSizes,      \* serialized sizes of a step record
          NoCache,      \* a turn that has not acquired a cache
          CacheMax,     \* WORKFLOW_REPLAY_CACHE_MAX_BYTES
          WorkingMax,   \* WORKFLOW_REPLAY_WORKING_SET_MAX_BYTES
          InstancesMax, \* WORKFLOW_REPLAY_CACHE_MAX_INSTANCES
          StepsMax      \* WORKFLOW_REPLAY_CACHE_MAX_STEPS_PER_INSTANCE

ASSUME RcAssumption == /\ {CacheMax, WorkingMax, InstancesMax, StepsMax} \subseteq Nat \ {0}
                       /\ CacheMax <= WorkingMax

\* One cache object per turn that may have created it.
Objects == RcTurns

VARIABLES rc,    \* the module state of workflow-replay-cache.js
          turn   \* [ph, obj, lease]: the controller, its cache, its read lease

rcVars == <<rc, turn>>

EmptyObject == [key |-> NoCache, steps |-> <<>>, bytes |-> 0, users |-> 0, released |-> FALSE]

RcInit ==
  /\ rc = [lru |-> <<>>, obj |-> [c \in Objects |-> EmptyObject], detached |-> {},
           steps |-> 0, cache |-> 0, active |-> 0, gone |-> 0, read |-> 0]
  /\ turn = [t \in RcTurns |-> [ph |-> "new", obj |-> NoCache, lease |-> 0]]

Mapped(s, c) == c \in ToSet(s.lru)
WorkingSet(s) == s.cache + s.gone + s.read
HeldBytes(o, n) == LET i == SelectInSeq(o.steps, LAMBDA e : e[1] = n)
                   IN IF i = 0 THEN 0 ELSE o.steps[i][2]

-----------------------------------------------------------------------------
(* Eviction                                                                  *)

Cleared(o) == [o EXCEPT !.steps = <<>>, !.bytes = 0, !.released = TRUE]

\* clearWorkflowReplayCache
Clear(s, c) ==
  [s EXCEPT !.gone = IF c \in s.detached THEN @ - s.obj[c].bytes ELSE @,
            !.detached = @ \ {c},
            !.obj[c] = Cleared(@)]

\* Bug: an evicted cache is cleared although a controller still fills it.
Evict_Clears(s, c) ==
  [s EXCEPT !.lru = SelectSeq(@, LAMBDA d : d # c),
            !.steps = @ - Len(s.obj[c].steps),
            !.cache = @ - s.obj[c].bytes,
            !.obj[c] = [Cleared(@) EXCEPT !.released = FALSE]]

\* evictWorkflowReplayCache
Evict(s, c) ==
  LET o == s.obj[c]
      e == [s EXCEPT !.lru = SelectSeq(@, LAMBDA d : d # c),
                     !.steps = @ - Len(o.steps),
                     !.cache = @ - o.bytes]
  IN IF o.users = 0 THEN Clear(e, c)
     ELSE [e EXCEPT !.detached = @ \cup {c}, !.gone = @ + o.bytes]

\* Entry n is the state after the n oldest of `victims` are evicted; a caller
\* stops at the first one in `enough`, or at the last.
Evictions(s, victims) ==
  [n \in 0..Len(victims) |-> FoldLeft(Evict, s, SubSeq(victims, 1, n))]
EvictUntil(after, enough) == after[Min(enough \cup {Max(DOMAIN after)})]

Fits(s, n) == WorkingSet(s) + n <= WorkingMax

\* reserveWorkingSet evicts caches nobody uses; when that is not enough the
\* caller gets a capacity error and the evictions stay.
Reserve(s, n, keep) ==
  LET after == Evictions(s, SelectSeq(s.lru, LAMBDA c : c # keep /\ s.obj[c].users = 0))
  IN EvictUntil(after, {i \in DOMAIN after : Fits(after[i], n)})

-----------------------------------------------------------------------------
(* Controllers                                                               *)

\* acquireWorkflowReplayCache: an existing cache becomes the newest, a new one
\* may push out the oldest.
Acquire(t) ==
  /\ turn[t].ph = "new"
  /\ \E k \in RcKeys :
       LET known == {c \in ToSet(rc.lru) : rc.obj[c].key = k}
           c == IF known = {} THEN t ELSE CHOOSE c \in known : TRUE
           s == [rc EXCEPT !.lru = Append(SelectSeq(@, LAMBDA d : d # c), c),
                           !.obj[c].key = k]
           after == Evictions(s, s.lru)
           u == EvictUntil(after, {i \in DOMAIN after : Len(after[i].lru) <= InstancesMax})
       IN /\ rc' = [u EXCEPT !.active = IF u.obj[c].users = 0 THEN @ + u.obj[c].bytes ELSE @,
                             !.obj[c].users = @ + 1]
          /\ turn' = [turn EXCEPT ![t].ph = "open", ![t].obj = c]

Released(s, c) ==
  LET d == [s EXCEPT !.obj[c].users = @ - 1,
                     !.active = IF s.obj[c].users = 1 THEN @ - s.obj[c].bytes ELSE @]
  IN IF d.obj[c].users > 0 \/ Mapped(d, c) THEN d ELSE Clear(d, c)

\* closeForRunReturn: the read lease and the cache are released together.
CloseForRunReturn(t) ==
  /\ turn[t].ph = "open"
  /\ rc' = Released([rc EXCEPT !.read = @ - turn[t].lease], turn[t].obj)
  /\ turn' = [turn EXCEPT ![t].ph = "closed", ![t].lease = 0]

\* The lease of a page read grows and shrinks with what is buffered.
GrowRead(t) ==
  /\ turn[t].ph = "open"
  /\ \E n \in RcSizes \ {turn[t].lease} :
       LET s == Reserve(rc, Max({0, n - turn[t].lease}), NoCache)
       IN IF Fits(s, Max({0, n - turn[t].lease}))
          THEN /\ rc' = [s EXCEPT !.read = @ + n - turn[t].lease]
               /\ turn' = [turn EXCEPT ![t].lease = n]
          ELSE rc' = s /\ UNCHANGED turn

EndRead(t) ==
  /\ turn[t].lease > 0
  /\ rc' = [rc EXCEPT !.read = @ - turn[t].lease]
  /\ turn' = [turn EXCEPT ![t].lease = 0]

\* deleteReplayStep
DeleteStep(s, c, n) ==
  LET b == HeldBytes(s.obj[c], n)
  IN IF b = 0 THEN s
     ELSE [s EXCEPT !.obj[c].steps = SelectSeq(@, LAMBDA e : e[1] # n),
                    !.obj[c].bytes = @ - b,
                    !.active = IF s.obj[c].users > 0 THEN @ - b ELSE @,
                    !.gone = IF c \in s.detached THEN @ - b ELSE @,
                    !.steps = IF Mapped(s, c) THEN @ - 1 ELSE @,
                    !.cache = IF Mapped(s, c) THEN @ - b ELSE @]

InsertStep(s, c, n, b) ==
  [s EXCEPT !.obj[c].steps = Append(@, <<n, b>>),
            !.obj[c].bytes = @ + b,
            !.active = IF s.obj[c].users > 0 THEN @ + b ELSE @,
            !.gone = IF c \in s.detached THEN @ + b ELSE @,
            !.steps = IF Mapped(s, c) THEN @ + 1 ELSE @,
            !.cache = IF Mapped(s, c) THEN @ + b ELSE @]

\* What the working set grows by: the record minus the one it replaces and the
\* oldest one it pushes out.
Growth(o, n, b, oldest) ==
  Max({0, b - HeldBytes(o, n) - (IF oldest = 0 THEN 0 ELSE HeldBytes(o, oldest))})

\* rememberWorkflowReplayStep; a late continuation of a closed controller may
\* still arrive here.
RememberStep(t) ==
  /\ turn[t].ph \in {"open", "closed"} /\ ~rc.obj[turn[t].obj].released
  /\ \E n \in RcOrdinals, b \in RcSizes :
       LET c == turn[t].obj
           o == rc.obj[c]
           oldest == IF HeldBytes(o, n) = 0 /\ Len(o.steps) >= StepsMax
                     THEN o.steps[1][1] ELSE 0
           s == Reserve(rc, Growth(o, n, b, oldest), c)
           d == DeleteStep(DeleteStep(s, c, n), c, oldest)
       IN rc' = IF b > CacheMax THEN DeleteStep(rc, c, n)
                ELSE IF ~Fits(s, Growth(o, n, b, oldest)) THEN s
                ELSE IF ~Mapped(rc, c) THEN InsertStep(d, c, n, b)
                ELSE LET i == InsertStep(d, c, n, b)
                         after == Evictions(i, i.lru)
                     IN EvictUntil(after, {j \in DOMAIN after : after[j].cache <= CacheMax})
  /\ UNCHANGED turn

RcNext == \E t \in RcTurns : Acquire(t) \/ CloseForRunReturn(t) \/ GrowRead(t)
                             \/ EndRead(t) \/ RememberStep(t)

RcSpec == RcInit /\ [][RcNext]_rcVars

-----------------------------------------------------------------------------
(* Properties                                                                *)

StepBytes(o) == FoldLeft(LAMBDA sum, e : sum + e[2], 0, o.steps)
BytesOf(S) == MapThenSumSet(LAMBDA c : StepBytes(rc.obj[c]), S)

\* The counters the limits are enforced with are always the sums they stand
\* for, through replacement, eviction in use, detaching and release.
BytesExact ==
  /\ \A c \in Objects : rc.obj[c].bytes = StepBytes(rc.obj[c])
  /\ rc.cache = BytesOf(ToSet(rc.lru))
  /\ rc.gone = BytesOf(rc.detached)
  /\ rc.active = BytesOf({c \in Objects : rc.obj[c].users > 0})
  /\ rc.steps = MapThenSumSet(LAMBDA c : Len(rc.obj[c].steps), ToSet(rc.lru))
  /\ rc.read = MapThenSumSet(LAMBDA t : turn[t].lease, RcTurns)

\* Cached, detached and in-flight replay bytes together stay within the working
\* set limit, and the shared cache within its own, whatever turns do.
WorkingSetBounded ==
  /\ WorkingSet(rc) <= WorkingMax /\ rc.cache <= CacheMax
  /\ Len(rc.lru) <= InstancesMax
  /\ \A c \in Objects : Len(rc.obj[c].steps) <= StepsMax

\* Nothing outlives its turns: a cache that was evicted in use is empty once
\* its last controller closed, so no bytes stay reserved for it.
NoReplayLeak ==
  /\ \A c \in rc.detached : rc.obj[c].users > 0
  /\ \A c \in Objects : rc.obj[c].users = 0 /\ ~Mapped(rc, c) => rc.obj[c].steps = <<>>

\* The replay cache's counters are exact, its limits hold, and nothing outlives
\* the turns that use it.
ReplayBytes ==
  /\ BytesExact
  /\ WorkingSetBounded
  /\ NoReplayLeak

=============================================================================
