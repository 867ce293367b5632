------------------------------ MODULE DoAlarms ------------------------------
(***************************************************************************)
(* The alarm of one Durable Object: the row the shim keeps in the object's *)
(* SQLite, the promise tail that sends the index mutations one after the   *)
(* other, the job the Workflows service keeps in Redis DB 2, and the       *)
(* dispatches that carry the job back to the object's alarm() handler.     *)
(*                                                                         *)
(* A row token is named by the setAlarm() call that minted it, a delete    *)
(* fence by the deleteAlarm() call that wrote it.  Clock values are        *)
(* abstracted to the events that matter: a scheduled time is reached (on   *)
(* the Workflows clock and on the object's clock), a retry delay is over,  *)
(* a run lease has lapsed.                                                 *)
(***************************************************************************)
EXTENDS Naturals, Sequences, FiniteSets

CONSTANTS
    AlCalls,      \* the storage API calls of the tenant's code
    NoAl,         \* no row, no token, no job, no transaction, no effect
    AlRuns,       \* bound: claims of the job (DO_ALARM run tokens)
    AlTries,      \* DO_ALARM_RETRY_MAX_TRIES
    AlWorkloads   \* [calls, env, runs]: the calls, the faults, the claims

ASSUME AlAssumption ==
    /\ AlRuns \in Nat /\ AlTries \in Nat
    /\ NoAl \notin AlCalls

VARIABLES
    alCase,     \* the workload of this behaviour
    row,        \* the SQLite row: [token, fence, busy, retry], or NoAl
    tail,       \* the queued index mutations of the object, oldest first
    req,        \* where the request of the head of the tail has got to
    txn,        \* the open storage.transaction(), or NoAl
    called,     \* the calls made
    acked,      \* the setAlarm() calls that resolved
    finished,   \* the tokens whose alarm() returned or whose tries are used
    want,       \* the tokens (or NoAl) the tenant may believe to be set
    job,        \* the DB 2 job: [row, status, wait, lapsed, run, retry]
    queued,     \* the index entries of the job: a subset of {"due", "ready"}
    runs,       \* the claimed runs: run number -> [phase, row, retry, lost]
    passed,     \* scheduled times reached on the Workflows clock
    passedHere, \* scheduled times reached on the object's clock
    storageId,  \* does the worker still point at this storage?
    swept,      \* has Control's alarm cleanup run after the worker's delete?
    crashed     \* has the actor been lost (its JavaScript memory with it)?

alWork == AlWorkloads[alCase]
alVars == <<alCase, row, tail, req, txn, called, acked, finished, want,
            job, queued, runs, passed, passedHere, storageId, swept, crashed>>
alLocal == <<row, tail, req, txn, called, acked, want>>
alBackend == <<job, queued, runs, finished>>
alClock == <<passed, passedHere>>
alFault == <<alCase, storageId, swept, crashed>>

-----------------------------------------------------------------------------
(* The SQLite row.                                                         *)

SameToken(r, t) == r # NoAl /\ r.token = t /\ r.fence = NoAl

\* deleteAlarmRow with a token: only the exact, unfenced row goes.
DeleteAlarmRow(r, t) == IF SameToken(r, t) THEN NoAl ELSE r

\* deleteAlarmRowIfLineage: the row of this token goes, delete fence or not.
DeleteIfLineage(r, t) == IF r # NoAl /\ r.token = t THEN NoAl ELSE r

\* restoreAlarmRowIfDeleteFence: only the row this very delete fenced.
RestoreFenced(r, f, old) == IF r # NoAl /\ r.fence = f THEN old ELSE r

-----------------------------------------------------------------------------
(* The tail of index mutations.  An effect names its call, what it sends,  *)
(* the token it sends it for, and the row to restore.                      *)

Effect(c, k, t, old) == [call |-> c, kind |-> k, token |-> t, old |-> old]

\* enqueueAlarmMutation outside a transaction; inside one the first mutation
\* reserves the place in the tail and the last one made will fill it.
Enqueue(c, e) ==
    IF txn = NoAl
    THEN tail' = Append(tail, e) /\ UNCHANGED txn
    ELSE /\ txn' = [txn EXCEPT !.effect = e, !.slot = TRUE]
         /\ tail' = IF txn.slot THEN tail
                    ELSE Append(tail, Effect(txn.call, "reserved", NoAl, NoAl))

\* settleAlarmMutationReservation: the reserved place takes its effect, or
\* becomes a place that does nothing.
Settled(e) ==
    [i \in DOMAIN tail |->
        IF tail[i].kind = "reserved" /\ tail[i].call = txn.call
        THEN IF e = NoAl THEN Effect(txn.call, "skip", NoAl, NoAl) ELSE e
        ELSE tail[i]]

-----------------------------------------------------------------------------
(* The storage API.                                                        *)

Invoke(c, op) ==
    /\ alWork.calls[c] = op /\ c \notin called
    /\ called' = called \cup {c}

\* setStorageAlarm: a new row at once, its index entry through the tail.
SetAlarm(c) ==
    /\ Invoke(c, "set")
    /\ row' = [token |-> c, fence |-> NoAl, busy |-> FALSE, retry |-> 0]
    /\ want' = {c}
    /\ Enqueue(c, Effect(c, "set", c, NoAl))
    /\ UNCHANGED <<req, acked, alBackend, alClock, alFault>>

\* deleteStorageAlarm: the current row becomes a fence over the token it
\* deletes; in a transaction that is the token the transaction began with.
DeleteAlarm(c) ==
    LET base  == IF txn = NoAl THEN row ELSE txn.base
        fence == [row EXCEPT !.token = base.token, !.fence = c, !.busy = TRUE]
    IN  /\ Invoke(c, "delete")
        /\ row' = IF base = NoAl \/ row = NoAl THEN NoAl ELSE fence
        /\ want' = {NoAl}
        /\ Enqueue(c, IF base = NoAl THEN Effect(c, "skip", NoAl, NoAl)
                      ELSE Effect(c, "delete", base.token, base))
        /\ UNCHANGED <<req, acked, alBackend, alClock, alFault>>

\* getStorageAlarm outside a transaction repairs the index of a pending row.
GetAlarm(c) ==
    /\ Invoke(c, "get")
    /\ IF txn = NoAl /\ row # NoAl /\ row.fence = NoAl /\ ~row.busy
       THEN tail' = Append(tail, Effect(c, "repair", row.token, row))
       ELSE UNCHANGED tail
    /\ UNCHANGED <<row, req, txn, acked, want, alBackend, alClock, alFault>>

\* deleteAllSqlStorage drops every table, the alarm table unless deleteAll
\* was told to keep the alarm.
RowAfterDrop(keep) == IF keep THEN row ELSE NoAl

\* deleteAll: the tables go, then the index entry of the alarm.  It may not
\* race another alarm mutation and throws inside a transaction.
DeleteAll(c) ==
    \E keep \in BOOLEAN :
        /\ txn = NoAl /\ tail = <<>>
        /\ Invoke(c, "deleteAll")
        /\ row' = RowAfterDrop(keep)
        /\ want' = IF keep THEN want ELSE {NoAl}
        /\ tail' = IF keep \/ row = NoAl THEN tail
                   ELSE Append(tail, Effect(c, "unindex", row.token, NoAl))
        /\ UNCHANGED <<req, txn, acked, alBackend, alClock, alFault>>

\* transaction(): the callback starts and the entry row is its baseline.
TransactionBegins(c) ==
    /\ txn = NoAl
    /\ Invoke(c, "transaction")
    /\ txn' = [call |-> c, base |-> row, want |-> want,
               slot |-> FALSE, effect |-> NoAl]
    /\ UNCHANGED <<row, tail, req, acked, want, alBackend, alClock, alFault>>

\* flushAlarmSideEffects hands over the last effect only: the transaction's
\* alarm calls coalesce to the row it commits.
FinalEffect == txn.effect

\* The native commit, then the flush of the reserved place.
TransactionCommits ==
    /\ txn # NoAl
    /\ tail' = Settled(FinalEffect)
    /\ txn' = NoAl
    /\ UNCHANGED <<row, req, called, acked, want, alBackend, alClock, alFault>>

\* rollback(), or a callback that throws: the row is as it was, and the
\* reserved place is given up.
TransactionRollsBack ==
    /\ txn # NoAl
    /\ row' = txn.base
    /\ want' = txn.want
    /\ tail' = Settled(NoAl)
    /\ txn' = NoAl
    /\ UNCHANGED <<req, called, acked, alBackend, alClock, alFault>>

-----------------------------------------------------------------------------
(* Index mutations: do-runtime's request and the Workflows handlers.       *)

Head1 == tail[1]
Waiting(t, n) == [row |-> t, status |-> "waiting", wait |-> "scheduled",
                  lapsed |-> FALSE, run |-> 0, retry |-> n]

\* The head of the tail is sent; a place with nothing to send is passed over.
SendMutation ==
    /\ tail # <<>> /\ req = "idle" /\ Head1.kind # "reserved"
    /\ IF Head1.kind = "skip"
       THEN tail' = Tail(tail) /\ UNCHANGED req
       ELSE req' = "sent" /\ UNCHANGED tail
    /\ UNCHANGED <<row, txn, called, acked, want, alBackend, alClock, alFault>>

IsSet == Head1.kind \in {"set", "repair"}

\* set_do_alarm, first look at the storage pointer: a worker that has gone
\* makes the set a no-op that still answers ok.
CheckStorage ==
    /\ req = "sent" /\ IsSet
    /\ req' = IF storageId THEN "checked" ELSE "done"
    /\ UNCHANGED <<row, tail, txn, called, acked, want, alBackend, alClock,
                   alFault>>

\* SET_DO_ALARM: a fresh waiting job, its run token gone, indexed by due time.
WriteJob ==
    /\ req = "checked"
    /\ job' = Waiting(Head1.token,
                      IF Head1.kind = "set" THEN 0 ELSE Head1.old.retry)
    /\ queued' = {"due"}
    /\ req' = "written"
    /\ UNCHANGED <<row, tail, txn, called, acked, want, runs, finished, alClock,
                   alFault>>

\* The second look at the storage pointer undoes a set that lost the race
\* with the worker's deletion (DELETE_DO_ALARM, fenced by the row token).
JobAfterWrite(t) ==
    IF ~storageId /\ job # NoAl /\ job.row = t THEN NoAl ELSE job

RecheckStorage ==
    /\ req = "written"
    /\ job' = JobAfterWrite(Head1.token)
    /\ queued' = IF job' = NoAl THEN {} ELSE queued
    /\ req' = "done"
    /\ UNCHANGED <<row, tail, txn, called, acked, want, runs, finished, alClock,
                   alFault>>

\* DELETE_DO_ALARM: only the job of this row token.
DeleteJob ==
    /\ req = "sent" /\ ~IsSet
    /\ IF job # NoAl /\ job.row = Head1.token
       THEN job' = NoAl /\ queued' = {}
       ELSE UNCHANGED <<job, queued>>
    /\ req' = "done"
    /\ UNCHANGED <<row, tail, txn, called, acked, want, runs, finished, alClock,
                   alFault>>

\* The reply was ok: a set is now promised, a delete removes its fence.
MutationResolves ==
    /\ req = "done"
    /\ req' = "idle" /\ tail' = Tail(tail)
    /\ acked' = IF Head1.kind = "set" THEN acked \cup {Head1.token} ELSE acked
    /\ row' = IF Head1.kind = "delete"
              THEN DeleteIfLineage(row, Head1.token) ELSE row
    /\ UNCHANGED <<txn, called, want, alBackend, alClock, alFault>>

\* What a tenant may believe once call e.call has been rejected.
Doubted(w, e) ==
    IF e.kind = "set" THEN IF e.token \in w THEN w \cup {NoAl} ELSE w
    ELSE IF e.kind = "delete" /\ NoAl \in w THEN w \cup {e.token} ELSE w

\* postWorkflowsAlarm throws: a 4xx, a transport error, a 5xx, a late or an
\* unreadable answer.  The backend may have got as far as it has got.  The
\* set deletes its own row, the delete restores the row it fenced.
MutationRejects ==
    /\ "lost" \in alWork.env /\ req # "idle"
    /\ req' = "idle" /\ tail' = Tail(tail)
    /\ row' = CASE Head1.kind = "set" -> DeleteAlarmRow(row, Head1.token)
                [] Head1.kind = "delete" ->
                       RestoreFenced(row, Head1.call, Head1.old)
                [] OTHER -> row
    /\ want' = Doubted(want, Head1)
    /\ txn' = IF txn = NoAl THEN txn
              ELSE [txn EXCEPT !.want = Doubted(txn.want, Head1)]
    /\ UNCHANGED <<called, acked, alBackend, alClock, alFault>>

-----------------------------------------------------------------------------
(* The Workflows dispatcher.                                               *)

Ripe == IF job.status = "running" THEN job.lapsed
        ELSE \/ job.wait = "over"
             \/ job.wait = "scheduled" /\ job.row \in passed

\* MOVE_DUE_DO_ALARM.
MoveDue ==
    /\ "due" \in queued /\ Ripe
    /\ queued' = {"ready"}
    /\ UNCHANGED <<finished, job, runs, alLocal, alClock, alFault>>

FreshRuns == {k \in 1..alWork.runs : runs[k].phase = "none"}

\* CLAIM_DO_ALARM: the job is parked under the lease of a new run token.
ClaimJob ==
    /\ "ready" \in queued /\ Ripe
    /\ \E k \in FreshRuns :
           /\ \A j \in FreshRuns : k <= j
           /\ runs' = [runs EXCEPT ![k] =
                  [phase |-> "claimed", row |-> job.row, retry |-> job.retry,
                   lost |-> FALSE]]
           /\ job' = [job EXCEPT !.status = "running", !.run = k,
                                 !.lapsed = FALSE]
    /\ queued' = {"due"}
    /\ UNCHANGED <<finished, alLocal, alClock, alFault>>

\* Bug: finalize does not compare the run token.
Owns_AnyRun(k) == job # NoAl

\* FINALIZE and RETRY act only for the run that holds the claim.
Owns(k) == job # NoAl /\ job.run = k

FinalizeJob(k) ==
    IF Owns(k) THEN job' = NoAl /\ queued' = {} ELSE UNCHANGED <<job, queued>>

RunTo(k, p) == runs' = [runs EXCEPT ![k].phase = p]

\* resolve_alarm_dispatch_version: the job of a worker that has gone is
\* discarded, any other is dispatched.
ResolveTarget(k) ==
    /\ runs[k].phase = "claimed"
    /\ IF storageId
       THEN RunTo(k, "sent") /\ UNCHANGED <<job, queued>>
       ELSE RunTo(k, "over") /\ FinalizeJob(k)
    /\ UNCHANGED <<finished, alLocal, alClock, alFault>>

\* Bug: the row of any token is claimed.
AlarmAccepted_AnyToken(k) ==
    /\ row # NoAl /\ row.fence = NoAl
    /\ row.busy \/ row.token \in passedHere

\* claimStorageAlarm: the row is there, it is not being deleted, it carries
\* the dispatched token, and its time has come on this clock.
AlarmAccepted(k) ==
    /\ row # NoAl /\ row.fence = NoAl
    /\ row.token = runs[k].row
    /\ row.busy \/ row.token \in passedHere

\* The shim's fetch: claim the row and start alarm(), or answer ignored.
\* Events wait while a transaction holds the object.
DeliverAlarm(k) ==
    /\ runs[k].phase = "sent" /\ txn = NoAl
    /\ IF AlarmAccepted(k)
       THEN /\ RunTo(k, "handling")
            /\ row' = [row EXCEPT !.busy = TRUE, !.retry = runs[k].retry]
       ELSE RunTo(k, "ok") /\ UNCHANGED row
    /\ UNCHANGED <<tail, req, txn, called, acked, want, job, queued, finished,
                   alClock, alFault>>

\* alarm() returned; completeStorageAlarm removes the row of the claim.
AlarmReturns(k) ==
    /\ runs[k].phase = "handling" /\ txn = NoAl
    /\ RunTo(k, "ok")
    /\ row' = DeleteIfLineage(row, runs[k].row)
    /\ finished' = finished \cup {runs[k].row}
    /\ UNCHANGED <<tail, req, txn, called, acked, want, job, queued, alClock,
                   alFault>>

\* alarm() threw, or the dispatch failed before it started.
AlarmFails(k) ==
    /\ runs[k].phase \in {"sent", "handling"}
    /\ RunTo(k, "failed")
    /\ UNCHANGED <<finished, alLocal, job, queued, alClock, alFault>>

\* The dispatcher hears ok (ran or ignored) and finalizes the job.
FinishRun(k) ==
    /\ runs[k].phase = "ok" /\ ~runs[k].lost
    /\ RunTo(k, "over")
    /\ FinalizeJob(k)
    /\ UNCHANGED <<finished, alLocal, alClock, alFault>>

\* RETRY_DO_ALARM: again after a delay, or dropped once the tries are used.
RetryRun(k) ==
    /\ runs[k].phase = "failed" /\ ~runs[k].lost
    /\ RunTo(k, "over")
    /\ IF Owns(k) /\ job.retry < AlTries
       THEN /\ job' = [job EXCEPT !.status = "waiting", !.wait = "backoff",
                                  !.run = 0, !.retry = @ + 1]
            /\ queued' = {"due"} /\ UNCHANGED finished
       ELSE /\ FinalizeJob(k)
            /\ finished' = IF Owns(k) THEN finished \cup {job.row} ELSE finished
    /\ UNCHANGED <<alLocal, alClock, alFault>>

\* The dispatch timed out, its answer was lost or unreadable, or the
\* dispatcher died: the job waits for its lease to lapse.
LoseRun(k) ==
    /\ "lost" \in alWork.env
    /\ runs[k].phase \in {"claimed", "sent", "handling", "ok", "failed"}
    /\ ~runs[k].lost
    /\ runs' = [runs EXCEPT ![k].lost = TRUE,
                            ![k].phase = IF @ = "claimed" THEN "over" ELSE @]
    /\ UNCHANGED <<finished, alLocal, job, queued, alClock, alFault>>

-----------------------------------------------------------------------------
(* The environment.                                                        *)

\* A scheduled time is reached on the Workflows clock, and on the object's
\* clock too unless that clock is behind.
TimeReached(t) ==
    /\ alWork.calls[t] = "set" /\ t \in called /\ t \notin passed
    /\ passed' = passed \cup {t}
    /\ passedHere' = IF "behind" \in alWork.env THEN passedHere
                     ELSE passedHere \cup {t}
    /\ UNCHANGED <<alLocal, alBackend, alFault>>

\* The object's clock reaches it later (it is behind) or earlier (ahead).
TimeReachedHere(t) ==
    /\ alWork.calls[t] = "set" /\ t \in called \ passedHere
    /\ "ahead" \in alWork.env \/ t \in passed
    /\ passedHere' = passedHere \cup {t}
    /\ UNCHANGED <<passed, alLocal, alBackend, alFault>>

DelayOver ==
    /\ job # NoAl
    /\ \/ job.status = "running" /\ ~job.lapsed
          /\ job' = [job EXCEPT !.lapsed = TRUE]
       \/ job.status = "waiting" /\ job.wait = "backoff"
          /\ job' = [job EXCEPT !.wait = "over"]
    /\ UNCHANGED <<finished, queued, runs, alLocal, alClock, alFault>>

\* The actor is lost: its tail, its open transaction and its handlers go,
\* SQLite stays; the dispatcher sees no answer.
CrashActor ==
    /\ "crash" \in alWork.env /\ ~crashed
    /\ crashed' = TRUE
    /\ tail' = <<>> /\ req' = "idle" /\ txn' = NoAl
    /\ row' = IF txn = NoAl THEN row ELSE txn.base
    /\ want' = LET w == IF txn = NoAl THEN want ELSE txn.want
               IN  w \cup UNION {Doubted(w, tail[i]) : i \in DOMAIN tail}
    /\ runs' = [k \in DOMAIN runs |->
                   IF runs[k].phase = "handling"
                   THEN [runs[k] EXCEPT !.phase = "ok", !.lost = TRUE]
                   ELSE runs[k]]
    /\ UNCHANGED <<called, acked, job, queued, finished, alClock, alCase,
                   storageId, swept>>

\* The worker is deleted: the storage pointer goes with the delete's commit.
DeleteWorker ==
    /\ "delete" \in alWork.env /\ storageId
    /\ storageId' = FALSE
    /\ UNCHANGED <<alLocal, alBackend, alClock, alCase, swept, crashed>>

\* cleanupDoAlarmsForWorker after the commit: the jobs of that storage go.
SweepAlarms ==
    /\ ~storageId /\ ~swept
    /\ swept' = TRUE
    /\ job' = NoAl /\ queued' = {}
    /\ UNCHANGED <<runs, finished, alLocal, alClock, alCase, storageId,
                   crashed>>

-----------------------------------------------------------------------------

AlInit ==
    /\ alCase \in DOMAIN AlWorkloads
    /\ row = NoAl /\ tail = <<>> /\ req = "idle" /\ txn = NoAl
    /\ called = {} /\ acked = {} /\ finished = {} /\ want = {NoAl}
    /\ job = NoAl /\ queued = {}
    /\ runs = [k \in 1..AlRuns |->
                  [phase |-> "none", row |-> NoAl, retry |-> 0, lost |-> FALSE]]
    /\ passed = {} /\ passedHere = {}
    /\ storageId = TRUE /\ swept = FALSE /\ crashed = FALSE

AlNext ==
    \/ \E c \in AlCalls :
           \/ SetAlarm(c) \/ DeleteAlarm(c) \/ GetAlarm(c) \/ DeleteAll(c)
           \/ TransactionBegins(c) \/ TimeReached(c) \/ TimeReachedHere(c)
    \/ TransactionCommits \/ TransactionRollsBack
    \/ SendMutation \/ CheckStorage \/ WriteJob \/ RecheckStorage \/ DeleteJob
    \/ MutationResolves \/ MutationRejects
    \/ MoveDue \/ ClaimJob \/ DelayOver
    \/ \E k \in 1..AlRuns :
           \/ ResolveTarget(k) \/ DeliverAlarm(k) \/ AlarmReturns(k)
           \/ AlarmFails(k) \/ FinishRun(k) \/ RetryRun(k) \/ LoseRun(k)
    \/ CrashActor \/ DeleteWorker \/ SweepAlarms

AlSpec == AlInit /\ [][AlNext]_alVars

-----------------------------------------------------------------------------
(* Properties.                                                             *)

\* At-least-once delivery: an alarm whose setAlarm() resolved, and which the
\* tenant has not touched since, stays in the Workflows index until alarm()
\* has returned or its tries are used up -- whatever deletes, repairs, rolled
\* back transactions, lost answers and stale dispatches happen meanwhile.
ConfirmedAlarmHeld ==
    \A t \in acked \ finished :
        want = {t} /\ txn = NoAl /\ storageId =>
            /\ job # NoAl /\ job.row = t /\ queued # {}
            /\ SameToken(row, t)

\* alarm() is started only for an alarm the tenant may still believe to be
\* set: never for one that was replaced, or deleted with success.
FiresOnlyWanted ==
    [][\A k \in DOMAIN runs :
          runs[k].phase = "sent" /\ runs'[k].phase = "handling"
              => runs[k].row \in want]_alVars

\* The place a transaction reserved in the tail is settled when it ends,
\* however it ends: otherwise every later mutation of the object would wait
\* for it for ever.
ReservationSettles ==
    \A i \in DOMAIN tail :
        tail[i].kind = "reserved" => txn # NoAl /\ txn.call = tail[i].call

\* The worker is gone and its alarms are swept: a set that raced the deletion
\* leaves no job behind unless its request was cut short.
NoOrphanJob ==
    swept /\ req \notin {"written"} /\ alWork.env \cap {"lost", "crash"} = {}
        => job = NoAl

\* Confirmed alarms are kept, and nothing is left behind: no reserved place after
\* its transaction, no job after the sweep of a deleted Worker.
AlarmsSettle ==
  /\ ConfirmedAlarmHeld
  /\ ReservationSettles
  /\ NoOrphanJob

=============================================================================
