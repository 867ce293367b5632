------------------------------ MODULE S3Cleanup ------------------------------
(***************************************************************************)
(* The s3-cleanup system worker: one cleanup intent from the queue to an   *)
(* empty set of asset prefixes.                                            *)
(*                                                                         *)
(* Queue deliveries (at least once) turn the intent into a D1 row and make *)
(* a first attempt; a cron tick every minute lists due rows and works on   *)
(* its snapshot of each.  An attempt claims the row for a lease, deletes   *)
(* one page of one prefix and saves a checkpoint, retries, gives up, or    *)
(* deletes the row.  Attempts overlap: a tick may outlast the next one and *)
(* a claim may outlive its lease.  Keys of a prefix are 1..ScKeys; a       *)
(* continuation token is the last key of the page before.                  *)
(***************************************************************************)
EXTENDS Integers, FiniteSets, FiniteSetsExt

CONSTANTS ScProcs,        \* deliveries and ticks that run at once
          ScPrefixes,     \* number of prefixes of the task
          ScKeys,         \* keys per prefix
          ScPage,         \* keys per list page
          ScLease,        \* PROCESSING_LEASE_MS
          ScMaxAttempts,  \* MAX_ATTEMPTS
          ScMaxPages,     \* MAX_LIST_PAGES
          ScMaxTime,      \* bound on the clock
          ScMaxFaults,    \* bound on S3, D1 and process failures
          NoCheckpoint,   \* checkpoint_json is NULL
          ScIntents       \* the kinds of intent: "valid", "malformed", "drifting"

VARIABLES scIntent,  \* the kind of the intent
          scNow,     \* the clock
          msg,       \* the queue message: "queued" or "acked"
          task,      \* the D1 row
          objs,      \* objects still stored, as <<prefix, key>>
          proc,      \* progress of the attempts
          scDone,    \* some attempt deleted the row as done
          scFaults   \* failures so far

scVars == <<scIntent, scNow, msg, task, objs, proc, scDone, scFaults>>

NoRow == [there |-> FALSE, state |-> "pending", attempts |-> 0, nextAt |-> 0, cp |-> NoCheckpoint]
Start == [prefix |-> 1, token |-> 0, pages |-> 0]

\* normalizeCheckpoint: a row without a usable checkpoint starts over.
CheckpointOf(row) == IF row.cp = NoCheckpoint THEN Start ELSE row.cp

IdleProc == [pc |-> "idle", by |-> "none", snap |-> NoRow, next |-> Start]

ScInit ==
  /\ scIntent \in ScIntents
  /\ scNow = 1
  /\ msg = "queued"
  /\ task = NoRow
  /\ objs = (1 .. ScPrefixes) \X (1 .. ScKeys)
  /\ proc = [p \in ScProcs |-> IdleProc]
  /\ scDone = FALSE
  /\ scFaults = 0

ScFault == scFaults < ScMaxFaults /\ scFaults' = scFaults + 1
ScGo(p, pc) == proc' = [proc EXCEPT ![p].pc = pc]
Leave(p) == proc' = [proc EXCEPT ![p] = IdleProc]
\* The attempt is over; a queue delivery acks its message whatever came of it.
End(p) ==
  /\ Leave(p)
  /\ msg' = IF proc[p].by = "queue" THEN "acked" ELSE msg
-----------------------------------------------------------------------------
(* Where attempts come from *)

\* queue(): a malformed intent is acked and dropped.
Deliver(p) ==
  /\ proc[p].pc = "idle" /\ msg = "queued"
  /\ IF scIntent = "malformed"
       THEN msg' = "acked" /\ Leave(p)
       ELSE proc' = [proc EXCEPT ![p].pc = "insert", ![p].by = "queue"] /\ UNCHANGED msg
  /\ UNCHANGED <<scIntent, scNow, task, objs, scDone, scFaults>>

\* Bug: the message is acked although the row could not be written.
MsgAfterPersistFailure_Acked == "acked"

\* msg.retry(): the message is delivered again.
MsgAfterPersistFailure == "queued"

\* insertIntent: INSERT OR IGNORE.
InsertIntent(p) ==
  /\ proc[p].pc = "insert"
  /\ \/ /\ task' = IF task.there THEN task ELSE [NoRow EXCEPT !.there = TRUE, !.nextAt = 1]
        /\ ScGo(p, "load")
        /\ UNCHANGED <<msg, scFaults>>
     \/ /\ ScFault
        /\ msg' = (IF msg = "acked" THEN msg ELSE MsgAfterPersistFailure)
        /\ Leave(p)
        /\ UNCHANGED task
  /\ UNCHANGED <<scIntent, scNow, objs, scDone>>

LoadTask(p) ==
  /\ proc[p].pc = "load"
  /\ proc' = [proc EXCEPT ![p].pc = "check", ![p].snap = task]
  /\ UNCHANGED <<scIntent, scNow, msg, task, objs, scDone, scFaults>>

\* scheduled(): the row is in the snapshot of due rows; its turn comes later.
ListDueTasks(p) ==
  /\ proc[p].pc = "idle"
  /\ task.there /\ task.state = "pending" /\ task.nextAt <= scNow
  /\ proc' = [proc EXCEPT ![p] = [IdleProc EXCEPT !.pc = "check", !.by = "cron", !.snap = task]]
  /\ UNCHANGED <<scIntent, scNow, msg, task, objs, scDone, scFaults>>

\* processTask's early returns: no row, given up, or not due.
CheckTask(p) ==
  LET s == proc[p].snap
  IN  /\ proc[p].pc = "check"
      /\ IF ~s.there \/ s.state # "pending" \/ s.nextAt > scNow
           THEN End(p) ELSE ScGo(p, "claim") /\ UNCHANGED msg
      /\ UNCHANGED <<scIntent, scNow, task, objs, scDone, scFaults>>
-----------------------------------------------------------------------------
(* One attempt *)

\* claimTask: a conditional UPDATE on state and due time, not on the snapshot.
ClaimTask(p) ==
  /\ proc[p].pc = "claim"
  /\ IF task.there /\ task.state = "pending" /\ task.nextAt <= scNow
       THEN /\ task' = [task EXCEPT !.nextAt = scNow + ScLease]
            /\ ScGo(p, IF scIntent = "drifting" THEN "malformed" ELSE "page")
            /\ UNCHANGED msg
       ELSE End(p) /\ UNCHANGED task
  /\ UNCHANGED <<scIntent, scNow, objs, scDone, scFaults>>

\* markMalformed: the stored prefixes no longer parse.
MarkMalformed(p) ==
  /\ proc[p].pc = "malformed"
  /\ task' = [task EXCEPT !.state = "malformed"]
  /\ End(p)
  /\ UNCHANGED <<scIntent, scNow, objs, scDone, scFaults>>

\* The keys of the page a list from the checkpoint returns.
PageKeys(cp) ==
  LET rest == {k \in 1 .. ScKeys : <<cp.prefix, k>> \in objs /\ k > cp.token}
  IN  {k \in rest : Cardinality({j \in rest : j <= k}) <= ScPage}

Truncated(cp) ==
  \E k \in 1 .. ScKeys : <<cp.prefix, k>> \in objs /\ k > cp.token /\ k \notin PageKeys(cp)

\* DeleteObjects answers 200 even when keys failed; the body says which.
PageOk(failed) == failed = {}

\* The checkpoint behind a deleted page.
After(cp) ==
  IF Truncated(cp) THEN [cp EXCEPT !.token = Max(PageKeys(cp)), !.pages = cp.pages + 1]
  ELSE [prefix |-> cp.prefix + 1, token |-> 0, pages |-> 0]

AllDone(cp) == cp.prefix > ScPrefixes

\* deletePrefixPage: list and delete one page.  Any subset of the keys may be
\* gone when S3 fails, times out or reports errors for the others.
DeletePage(p) ==
  LET cp == CheckpointOf(proc[p].snap)
      keys == PageKeys(cp)
      next == After(cp)
  IN  /\ proc[p].pc = "page"
      /\ cp.prefix <= ScPrefixes
      /\ \E failed \in SUBSET keys :
           /\ IF failed = {} THEN UNCHANGED scFaults ELSE ScFault
           /\ objs' = objs \ {<<cp.prefix, k>> : k \in keys \ failed}
           /\ IF ~PageOk(failed) \/ next.pages >= ScMaxPages THEN ScGo(p, "error")
              ELSE proc' = [proc EXCEPT ![p].next = next,
                              ![p].pc = IF AllDone(next) THEN "finish" ELSE "save"]
      /\ UNCHANGED <<scIntent, scNow, msg, task, scDone>>

\* S3 does not answer at all; keys may or may not have been deleted.
PageFails(p) ==
  LET cp == CheckpointOf(proc[p].snap)
  IN  /\ proc[p].pc = "page" /\ ScFault
      /\ \E gone \in SUBSET PageKeys(cp) : objs' = objs \ {<<cp.prefix, k>> : k \in gone}
      /\ ScGo(p, "error")
      /\ UNCHANGED <<scIntent, scNow, msg, task, scDone>>

\* UPDATE ... WHERE id: nothing happens when the row is gone.
Update(row) == task' = IF task.there THEN row ELSE task

SaveProgress(p) ==
  /\ proc[p].pc = "save"
  /\ Update([task EXCEPT !.nextAt = scNow, !.attempts = 0, !.cp = proc[p].next])
  /\ End(p)
  /\ UNCHANGED <<scIntent, scNow, objs, scDone, scFaults>>

DeleteTaskRow(p) ==
  /\ proc[p].pc = "finish"
  /\ task' = NoRow
  /\ scDone' = TRUE
  /\ End(p)
  /\ UNCHANGED <<scIntent, scNow, objs, scFaults>>

Backoff(attempts) == 2 ^ (attempts - 1)

\* The catch of processTask: scheduleRetry or markFailure, from the snapshot's count.
RecordFailure(p) ==
  LET n == proc[p].snap.attempts + 1
  IN  /\ proc[p].pc = "error"
      /\ Update(IF n >= ScMaxAttempts THEN [task EXCEPT !.state = "failed", !.attempts = n]
                ELSE [task EXCEPT !.attempts = n, !.nextAt = scNow + Backoff(n)])
      /\ End(p)
      /\ UNCHANGED <<scIntent, scNow, objs, scDone, scFaults>>

\* The worker is stopped, or a D1 statement fails: cron then drops the attempt,
\* and a queue delivery that got as far as processTask acks its message.
Stop(p) ==
  /\ proc[p].pc \in {"insert", "load", "check", "claim", "page", "save", "finish", "error", "malformed"}
  /\ ScFault
  /\ \/ Leave(p) /\ UNCHANGED msg
     \/ proc[p].pc # "insert" /\ End(p)
  /\ UNCHANGED <<scIntent, scNow, task, objs, scDone>>

ScTick ==
  /\ scNow < ScMaxTime
  /\ scNow' = scNow + 1
  /\ UNCHANGED <<scIntent, msg, task, objs, proc, scDone, scFaults>>

ScStep(p) ==
  \/ Deliver(p) \/ InsertIntent(p) \/ LoadTask(p) \/ ListDueTasks(p) \/ CheckTask(p)
  \/ ClaimTask(p) \/ MarkMalformed(p) \/ DeletePage(p) \/ PageFails(p)
  \/ SaveProgress(p) \/ DeleteTaskRow(p) \/ RecordFailure(p) \/ Stop(p)

ScNext == ScTick \/ \E p \in ScProcs : ScStep(p)

ScSpec == ScInit /\ [][ScNext]_scVars
-----------------------------------------------------------------------------
\* A row is only ever deleted as done when nothing is left under its prefixes,
\* although attempts with old snapshots and checkpoints may be the ones to do it.
DoneMeansClean == scDone => objs = {}

\* The duty to clean up is always held by somebody: the queue message, the D1
\* row, or nobody because the objects are gone.
DutyHeld == scIntent # "malformed" => msg = "queued" \/ task.there \/ objs = {}

\* No checkpoint skips an object: whatever lies before the stored position is
\* gone, so the next attempt misses nothing.
CheckpointTrue ==
  \A o \in objs : task.there =>
    LET cp == CheckpointOf(task)
    IN  o[1] > cp.prefix \/ (o[1] = cp.prefix /\ o[2] > cp.token)

\* The duty to delete the objects is never dropped: somebody holds it with a
\* checkpoint that skips nothing, until nothing is left (s3-cleanup).
CleanupDuty ==
  /\ DutyHeld
  /\ DoneMeansClean
  /\ CheckpointTrue

=============================================================================
