---------------------------- MODULE TailForward ----------------------------
(***************************************************************************)
(* The runtime's side of the live tail (runtime/tail-worker.js,            *)
(* runtime/tail-forwarder.js): console batches and invocation envelopes of *)
(* one isolate, the active-set cache that keeps untailed workers cheap,    *)
(* the coalesced active-set fetch, and the best-effort appends.  A size is *)
(* a small number; TfLimit is TAIL_EVENT_MAX_BYTES.                        *)
(***************************************************************************)
EXTENDS Integers, Sequences, SequencesExt, FiniteSetsExt

CONSTANTS TfWorkers,  \* worker names
          TfTasks,    \* tail() invocations and handler invocations
          TfHit,      \* ACTIVE_HIT_MAX_AGE_MS
          TfMiss,     \* ACTIVE_MISS_MAX_AGE_MS
          TfMissMax,  \* ACTIVE_MISS_MAX_ENTRIES
          TfTimeout,  \* ACTIVE_FETCH_TIMEOUT_MS, POST_EVENT_TIMEOUT_MS
          TfLimit,
          TfMaxTime,  \* bound: the clock
          TfWorkloads \* [jobs, toggles, fails]: what each task does, bounds on
                      \* subscriptions that come or go and on failed requests

ASSUME TfAssumption == {TfHit, TfMiss, TfMissMax, TfTimeout, TfLimit} \subseteq Nat \ {0}

VARIABLES tfCase, tfNow,
          tailed, \* logs:tail:active as redis-proxy lists it
          set,    \* activeSet: worker -> when it was confirmed, Never
          miss,   \* missSet: [w, at], oldest observation first
          fetch,  \* the request in flight: [on, at, read, list]
          tk,     \* the tasks
          posts,  \* appends of envelopes under way: [t, i, size, at, open]
          tfLog,  \* the streams' envelope events: [t, i, late]
          biggest,\* the size of the largest event appended
          off,    \* when a worker was last untailed, or a fetch last failed
          worst,  \* the longest time an event was withheld after that
          tfLeft  \* toggles and failures left

tfWork == TfWorkloads[tfCase]
tfVars == <<tfCase, tfNow, tailed, set, miss, fetch, tk, posts, tfLog, biggest, off, worst, tfLeft>>

Never == -9
NoFetch == [on |-> FALSE, at |-> 0, read |-> FALSE, list |-> {}]
NewTask == [ph |-> "new", todo |-> <<>>, decided |-> [w \in TfWorkers |-> "?"], fetched |-> FALSE,
            start |-> "no", finish |-> "no"]

TfInit ==
  /\ tfCase \in DOMAIN TfWorkloads
  /\ tfNow = 0 /\ worst = 0
  /\ tailed \in SUBSET TfWorkers
  /\ off = [w \in TfWorkers |-> IF w \in tailed THEN Never ELSE 0]
  /\ set = [w \in TfWorkers |-> Never] /\ miss = <<>> /\ fetch = NoFetch
  /\ tk = [t \in TfTasks |-> NewTask]
  /\ posts = {} /\ tfLog = <<>> /\ biggest = 0
  /\ tfLeft = [toggles |-> tfWork.toggles, fails |-> tfWork.fails]

-----------------------------------------------------------------------------
(* makeActiveSetCache                                                        *)

PositiveHit(w) == set[w] # Never /\ tfNow - set[w] < TfHit

\* Bug: a miss is remembered for good.
FreshMiss_Forever(m, w) == \E i \in DOMAIN m : m[i].w = w

FreshMiss(m, w) == \E i \in DOMAIN m : m[i].w = w /\ tfNow - m[i].at < TfMiss

FreshInactive(w) == ~PositiveHit(w) /\ FreshMiss(miss, w)

\* markMiss: newest last; expired entries and those over the bound go first.
MarkMiss(m, w) ==
  LET all == Append(SelectSeq(m, LAMBDA e : e.w # w), [w |-> w, at |-> tfNow])
      keep == {k \in DOMAIN all : Len(all) - k + 1 <= TfMissMax /\ tfNow - all[k].at < TfMiss}
  IN SubSeq(all, Min(keep), Len(all))

\* An event of w is not sent.
Withheld(w, sofar) == LET since == IF w \in tailed THEN tfNow - off[w] ELSE 0
                      IN IF since > sofar THEN since ELSE sofar

StartFetch == IF fetch.on THEN fetch ELSE [NoFetch EXCEPT !.on = TRUE, !.at = tfNow]

\* GET /logs/tail/active is served.
FetchServed ==
  /\ fetch.on /\ ~fetch.read
  /\ fetch' = [fetch EXCEPT !.read = TRUE, !.list = tailed]
  /\ UNCHANGED <<tfCase, tfNow, tailed, set, miss, tk, posts, tfLog, biggest, off, worst, tfLeft>>

Wake(r) == [r EXCEPT !.ph = IF @ = "fetching" THEN "fetched" ELSE @,
                     !.start = IF @ = "fetching" THEN "fetched" ELSE @,
                     !.finish = IF @ = "fetching" THEN "fetched" ELSE @]

\* performActiveSetFetch ends: every caller that joined it goes on.
FetchDone ==
  /\ fetch.on
  /\ \/ /\ fetch.read
        /\ set' = [w \in TfWorkers |-> IF w \in fetch.list THEN tfNow ELSE Never]
        /\ miss' = SelectSeq(miss, LAMBDA e : e.w \notin fetch.list)
        /\ UNCHANGED <<off, tfLeft>>
     \/ /\ tfLeft.fails > 0 \/ tfNow - fetch.at >= TfTimeout
        /\ tfLeft' = [tfLeft EXCEPT !.fails = IF @ > 0 THEN @ - 1 ELSE 0]
        /\ off' = [w \in TfWorkers |-> tfNow]
        /\ UNCHANGED <<set, miss>>
  /\ fetch' = NoFetch
  /\ tk' = [t \in TfTasks |-> Wake(tk[t])]
  /\ UNCHANGED <<tfCase, tfNow, tailed, posts, tfLog, biggest, worst>>

-----------------------------------------------------------------------------
(* What is sent                                                              *)

Size(e) == e.ids + e.msg + e.info + e.flag
WarningSize(e) == IF 1 + e.ids <= TfLimit THEN 1 + e.ids ELSE 1

\* serializeTailPayload: without the error details, then without the mark that
\* they are missing, then a warning in place of the event.
SerializeTailPayload(e) ==
  LET noInfo == [e EXCEPT !.info = 0, !.flag = IF e.info > 0 THEN 1 ELSE @]
      fits == SelectSeq(<<e, noInfo, [noInfo EXCEPT !.flag = 0]>>, LAMBDA p : Size(p) <= TfLimit)
  IN IF fits # <<>> THEN Size(fits[1]) ELSE WarningSize(e)

Post(t, i, e) == [t |-> t, i |-> i, size |-> SerializeTailPayload(e), at |-> tfNow, open |-> TRUE]

\* safeMessage and safeErrorInfo within one budget; a message over it is replaced
\* by a warning, error details over what is left are omitted.
Bounded(e) == IF e.msg > TfLimit THEN [e EXCEPT !.msg = 0, !.info = 0, !.ids = WarningSize(e)]
              ELSE IF e.msg + e.info > TfLimit THEN [e EXCEPT !.info = 0, !.flag = 1] ELSE e

-----------------------------------------------------------------------------
(* tail(): a batch                                                           *)

\* forwardTailEntries on the entries left: k is the task, m the misses, p the
\* largest append, h what was withheld.  Nothing waits for the appends of a batch.
RECURSIVE Loop(_, _, _, _)
Loop(k, m, p, h) ==
  IF k.todo = <<>> THEN [k |-> [k EXCEPT !.ph = "over"], m |-> m, p |-> p, h |-> h, fetch |-> FALSE]
  ELSE LET e == Head(k.todo)
           w == e.w
           has == set[w] # Never
           next(act, n) == Loop([k EXCEPT !.todo = Tail(@), !.decided[w] = IF act THEN "yes" ELSE "no"], n,
                                IF act THEN Max({p, SerializeTailPayload(e)}) ELSE p,
                                IF act THEN h ELSE Withheld(w, h))
       IN CASE k.decided[w] # "?" -> next(k.decided[w] = "yes", m)
            [] k.decided[w] = "?" /\ PositiveHit(w) -> next(TRUE, m)
            [] k.decided[w] = "?" /\ ~PositiveHit(w) /\ k.fetched -> next(has, IF has THEN m ELSE MarkMiss(m, w))
            [] OTHER -> IF FreshMiss(m, w) THEN next(has, m)
                        ELSE [k |-> [k EXCEPT !.ph = "fetching"], m |-> m, p |-> p, h |-> h, fetch |-> TRUE]

RunBatch(t, k, m, h) ==
  LET r == Loop(k, m, biggest, h)
  IN /\ tk' = [tk EXCEPT ![t] = r.k]
     /\ miss' = r.m /\ worst' = r.h
     /\ biggest' = r.p /\ UNCHANGED posts
     /\ fetch' = IF r.fetch THEN StartFetch ELSE fetch

\* Phase 1 writes every line to stdout and keeps the entries of workers that may
\* be tailed; phase 2 forwards them.
TailBatch(t) ==
  /\ tk[t].ph = "new" /\ tfWork.jobs[t].kind = "batch"
  /\ LET es == tfWork.jobs[t].entries
         kept == SelectSeq(es, LAMBDA e : ~FreshInactive(e.w))
         gone == {es[i].w : i \in {j \in DOMAIN es : FreshInactive(es[j].w)}}
     IN RunBatch(t, [tk[t] EXCEPT !.todo = [i \in DOMAIN kept |-> Bounded(kept[i])]], miss,
                 Max({worst} \cup {Withheld(w, worst) : w \in gone}))
  /\ UNCHANGED <<tfCase, tfNow, tailed, set, tfLog, off, tfLeft>>

BatchFetched(t) ==
  /\ tk[t].ph = "fetched"
  /\ LET w == Head(tk[t].todo).w
     IN RunBatch(t, [tk[t] EXCEPT !.fetched = TRUE], IF set[w] = Never THEN MarkMiss(miss, w) ELSE miss, worst)
  /\ UNCHANGED <<tfCase, tfNow, tailed, set, tfLog, off, tfLeft>>

-----------------------------------------------------------------------------
(* startTailEnvelope: a start event and a finish event                       *)

Job(t) == tfWork.jobs[t].entries[1]

\* emitRuntimeTailEvent: nothing at all for a worker known not to be tailed.
Emit(t, which) ==
  IF FreshInactive(Job(t).w)
  THEN tk' = [tk EXCEPT ![t][which] = "skipped"] /\ worst' = Withheld(Job(t).w, worst)
  ELSE tk' = [tk EXCEPT ![t][which] = "due"] /\ UNCHANGED worst

Starts(t) ==
  /\ tfWork.jobs[t].kind = "envelope" /\ tk[t].start = "no"
  /\ Emit(t, "start")
  /\ UNCHANGED <<tfCase, tfNow, tailed, set, miss, fetch, posts, tfLog, biggest, off, tfLeft>>

\* The handler is over: finish() or finishError().
Finishes(t) ==
  /\ tfWork.jobs[t].kind = "envelope" /\ tk[t].start # "no" /\ tk[t].finish = "no"
  /\ Emit(t, "finish")
  /\ UNCHANGED <<tfCase, tfNow, tailed, set, miss, fetch, posts, tfLog, biggest, off, tfLeft>>

TfTurn(t, which) == which = "start" \/ tk[t].start \in {"skipped", "done"}

Send(t, which) == /\ posts' = posts \cup {Post(t, IF which = "start" THEN 1 ELSE 2, Job(t))}
                  /\ tk' = [tk EXCEPT ![t][which] = "posting"]
                  /\ UNCHANGED <<miss, worst, fetch>>

Drop(t, which) == /\ tk' = [tk EXCEPT ![t][which] = "done"]
                  /\ worst' = Withheld(Job(t).w, worst)
                  /\ UNCHANGED <<posts, fetch>>

\* isTailActive, and postEvent when it is.
ForwardTailEntry(t, which) ==
  /\ TfTurn(t, which)
  /\ LET w == Job(t).w
         has == set[w] # Never
     IN \/ /\ tk[t][which] = "due"
           /\ \/ PositiveHit(w) /\ Send(t, which)
              \/ /\ ~PositiveHit(w) /\ FreshMiss(miss, w)
                 /\ IF has THEN Send(t, which) ELSE Drop(t, which) /\ UNCHANGED miss
              \/ /\ ~PositiveHit(w) /\ ~FreshMiss(miss, w)
                 /\ fetch' = StartFetch /\ tk' = [tk EXCEPT ![t][which] = "fetching"]
                 /\ UNCHANGED <<miss, worst, posts>>
        \/ tk[t][which] = "fetched" /\ has /\ Send(t, which)
        \/ tk[t][which] = "fetched" /\ ~has /\ Drop(t, which) /\ miss' = MarkMiss(miss, w)
  /\ UNCHANGED <<tfCase, tfNow, tailed, set, tfLog, biggest, off, tfLeft>>

-----------------------------------------------------------------------------
(* Appends, subscriptions and the clock                                      *)

\* The task that awaits an append goes on.
Awaited(p) == [tk EXCEPT ![p.t] = IF p.i = 1 THEN [@ EXCEPT !.start = "done"] ELSE [@ EXCEPT !.finish = "done"]]

\* redis-proxy appends; the answer reaches a caller that still waits.
PostServed(p) ==
  /\ tfLog' = Append(tfLog, [t |-> p.t, i |-> p.i, late |-> ~p.open])
  /\ biggest' = Max({biggest, p.size})
  /\ posts' = posts \ {p}
  /\ tk' = IF p.open THEN Awaited(p) ELSE tk
  /\ UNCHANGED <<tfCase, tfNow, tailed, set, miss, fetch, off, worst, tfLeft>>

\* postEvent's timeout, swallowed: the append may be lost or may still happen.
PostTimeout(p) ==
  /\ p.open /\ tfNow - p.at >= TfTimeout
  /\ posts' \in {posts \ {p}, (posts \ {p}) \cup {[p EXCEPT !.open = FALSE]}}
  /\ tk' = Awaited(p)
  /\ UNCHANGED <<tfCase, tfNow, tailed, set, miss, fetch, tfLog, biggest, off, worst, tfLeft>>

\* A tail session's heartbeat, or its end (TailSession).
Subscription(w) ==
  /\ tfLeft.toggles > 0
  /\ tfLeft' = [tfLeft EXCEPT !.toggles = @ - 1]
  /\ tailed' = IF w \in tailed THEN tailed \ {w} ELSE tailed \cup {w}
  /\ off' = [off EXCEPT ![w] = tfNow]
  /\ UNCHANGED <<tfCase, tfNow, set, miss, fetch, tk, posts, tfLog, biggest, worst>>

\* Promise continuations and due timeouts come before the clock moves.
Runnable(t) == tk[t].ph = "fetched" \/ \E s \in {"start", "finish"} :
                                         tk[t][s] \in {"due", "fetched"} /\ TfTurn(t, s)
TfTick ==
  /\ tfNow < TfMaxTime
  /\ ~\E t \in TfTasks : Runnable(t)
  /\ fetch.on => tfNow - fetch.at < TfTimeout
  /\ \A p \in posts : p.open => tfNow - p.at < TfTimeout
  /\ tfNow' = tfNow + 1
  /\ UNCHANGED <<tfCase, tailed, set, miss, fetch, tk, posts, tfLog, biggest, off, worst, tfLeft>>

TfNext == \/ FetchServed \/ FetchDone \/ TfTick
          \/ \E t \in TfTasks : \/ TailBatch(t) \/ BatchFetched(t) \/ Starts(t) \/ Finishes(t)
                                \/ \E s \in {"start", "finish"} : ForwardTailEntry(t, s)
          \/ \E p \in posts : PostServed(p) \/ PostTimeout(p)
          \/ \E w \in TfWorkers : Subscription(w)

TfSpec == TfInit /\ [][TfNext]_tfVars

-----------------------------------------------------------------------------
(* Properties                                                                *)

\* A tailed worker's events are withheld only for a while: at most the age of a
\* cached miss plus the fetch it came from after the worker was last untailed or
\* a fetch failed, however batches, envelopes and shared fetches interleave.
WithheldBriefly == worst <= TfMiss + TfTimeout

\* In a worker's stream the finish of an invocation comes after its start, unless
\* the append of the start had timed out.
StartBeforeFinish ==
  \A i, j \in DOMAIN tfLog :
    i < j /\ tfLog[i].t = tfLog[j].t
      => tfLog[i].i < tfLog[j].i \/ tfLog[j].late

\* Whatever a worker logs, no appended event exceeds the size limit.
TailEventsFit == biggest <= TfLimit

\* A tailed Worker's events are forwarded before long, in order and within the
\* size limit (tail forwarding of the runtime).
TailForwarded ==
  /\ WithheldBriefly
  /\ StartBeforeFinish
  /\ TailEventsFit

=============================================================================
