--------------------------- MODULE GatewaySession ---------------------------
(***************************************************************************)
(* How the public WebSockets of one worker follow its session policy in    *)
(* one Gateway isolate (gateway/websocket-lifecycle.js and the upgrade     *)
(* path of gateway/index.js).  Control promotes and deletes; pub/sub only  *)
(* hints; each session is admitted by a Redis snapshot, checked again      *)
(* before its upstream is attached, and closed by reconciliation passes    *)
(* that read the authoritative projection.                                 *)
(***************************************************************************)
EXTENDS Naturals, Sequences, FiniteSets

CONSTANTS GsSessions, \* WebSocket upgrade requests
          GsNone,     \* no snapshot
          GsAttempts, \* reconnectDelaysMs.length
          GsWorkloads \* bounds: [clients, versions, drops, faults], the upgrade
                      \* requests made, the versions promoted, the subscriber
                      \* disconnects and the Redis reads that fail in transport

ASSUME GsAssumption ==
  /\ GsAttempts \in Nat
  /\ \A c \in DOMAIN GsWorkloads : GsWorkloads[c] \in [clients : SUBSET GsSessions, versions : Nat, drops : Nat, faults : Nat]

VARIABLES gsCase,  \* the workload
          projection,  \* Redis: [active, version, mode, seq], routes and projection
          alloc,   \* worker:session-policy-seq, never deleted
          hints,   \* pub/sub messages under way
          gsub,    \* [on, drops] of the subscriber
          ws,      \* the sessions
          rec,     \* the reconciliation state of the worker's group
          gsFaults

gsWork == GsWorkloads[gsCase]
gsVars == <<gsCase, projection, alloc, hints, gsub, ws, rec, gsFaults>>

NewSession == [ph |-> "new", version |-> 0, observed |-> 0, known |-> 0,
               snap |-> GsNone, tries |-> 0, code |-> 0]
IdleRec == [run |-> "idle", bound |-> {}, snap |-> GsNone, alive |-> FALSE,
            pending |-> FALSE, retry |-> FALSE, timer |-> FALSE]

GsInit ==
  /\ gsCase \in DOMAIN GsWorkloads
  /\ projection = [active |-> TRUE, version |-> 1, mode |-> "preserve", seq |-> 0]
  /\ alloc = 0 /\ hints = <<>> /\ gsFaults = 0
  /\ gsub = [on |-> FALSE, drops |-> 0]
  /\ ws = [s \in GsSessions |-> NewSession]
  /\ rec = IdleRec

-----------------------------------------------------------------------------
(* Control: one MULTI per promotion or deletion                              *)

\* stageSessionPolicy publishes only a newly allocated sequence.
Hinted(kind) ==
  hints' = IF gsub.on /\ (kind = "delete" \/ alloc' # alloc)
           THEN Append(hints, [kind |-> kind, seq |-> alloc']) ELSE hints

\* computeSessionPolicyPlan: a restart allocates the next sequence.
GsPromote(mode) ==
  /\ projection.version < gsWork.versions
  /\ alloc' = IF mode = "restart" THEN alloc + 1 ELSE alloc
  /\ projection' = [active |-> TRUE, version |-> projection.version + 1, mode |-> mode, seq |-> alloc']
  /\ Hinted("policy")
  /\ UNCHANGED <<gsCase, gsub, ws, rec, gsFaults>>

\* stageWorkerDelete keeps the permanent allocators.
AllocAfterDelete == alloc

RemoveWorker ==
  /\ projection.active
  /\ projection' = [projection EXCEPT !.active = FALSE, !.seq = 0]
  /\ alloc' = AllocAfterDelete
  /\ Hinted("delete")
  /\ UNCHANGED <<gsCase, gsub, ws, rec, gsFaults>>

-----------------------------------------------------------------------------
(* Groups and passes                                                         *)

Registered(w) == {s \in GsSessions : w[s].ph \in {"gate", "checked", "open"}}

\* The loop of scheduleReconcile starts a pass synchronously: it binds the
\* sessions that are registered when the read starts.
StartPass(r, w) == [r EXCEPT !.run = "read", !.bound = Registered(w), !.alive = TRUE,
                             !.pending = FALSE, !.retry = FALSE, !.snap = GsNone]

\* scheduleReconcile for the group, if it has sessions.
Schedule(r, w) == IF Registered(w) = {} THEN r
                  ELSE IF r.run = "idle" THEN StartPass(r, w) ELSE [r EXCEPT !.pending = TRUE]

\* cancelRetry
CancelRetry(r) == [r EXCEPT !.retry = FALSE, !.timer = FALSE]

\* The group object leaves the map with its last session; what refers to it
\* from the pending and retry sets has no effect any more.
Shrunk(r, w) == IF Registered(w) = {} THEN [r EXCEPT !.pending = FALSE, !.retry = FALSE, !.alive = FALSE]
                ELSE r

\* Bug: a pass that ends forgets a request made while it ran.
AfterPass_Forgets(r, w) ==
  IF r.retry THEN [r EXCEPT !.run = "idle", !.bound = {}, !.snap = GsNone, !.pending = FALSE,
                            !.timer = @ \/ gsub.on]
  ELSE [CancelRetry(r) EXCEPT !.run = "idle", !.bound = {}, !.snap = GsNone, !.pending = FALSE]

\* The end of a pass: another pass, a retry timer (deferReconcile) or rest.
AfterPass(r, w) ==
  LET idle == [r EXCEPT !.run = "idle", !.bound = {}, !.snap = GsNone]
  IN IF r.pending THEN StartPass(r, w)
     ELSE IF r.retry THEN [idle EXCEPT !.timer = @ \/ gsub.on]
     ELSE CancelRetry(idle)

\* markDownstreamClosed unregisters the session.
Closed(w, s, code) == [w EXCEPT ![s] = [NewSession EXCEPT !.ph = "closed", !.code = code]]

-----------------------------------------------------------------------------
(* One session                                                               *)

\* The route cache may be behind: the request was routed to any earlier version.
Upgrade(s) ==
  /\ ws[s].ph = "new" /\ s \in gsWork.clients
  /\ \E v \in 1 .. projection.version : ws' = [ws EXCEPT ![s].ph = "routed", ![s].version = v]
  /\ UNCHANGED <<gsCase, projection, alloc, hints, gsub, rec, gsFaults>>

\* readSnapshot before the backend upgrade: 503 unless the routed version is active.
Admit(s) ==
  /\ ws[s].ph = "routed"
  /\ ws' = IF ~projection.active \/ projection.version # ws[s].version THEN Closed(ws, s, 503)
           ELSE [ws EXCEPT ![s].ph = "upgrading", ![s].observed = projection.seq, ![s].known = projection.seq]
  /\ UNCHANGED <<gsCase, projection, alloc, hints, gsub, rec, gsFaults>>

\* The backend answers 101: register, then begin the lifecycle check.
Register(s) ==
  /\ ws[s].ph = "upgrading"
  /\ ws' = [ws EXCEPT ![s].ph = "gate"]
  /\ UNCHANGED <<gsCase, projection, alloc, hints, gsub, rec, gsFaults>>

GateRead(s) ==
  /\ ws[s].ph = "gate"
  /\ ws' = [ws EXCEPT ![s].ph = "checked", ![s].snap = projection]
  /\ UNCHANGED <<gsCase, projection, alloc, hints, gsub, rec, gsFaults>>

\* checkLifecycle of gateway/index.js: the verdict on one snapshot.
Verdict(s) ==
  LET p == ws[s].snap
  IN IF ~p.active THEN "restart"
     ELSE IF p.seq < ws[s].observed THEN "fail"
     ELSE IF p.version # ws[s].version \/ (p.seq > ws[s].observed /\ p.mode = "restart")
     THEN "restart" ELSE "continue"

\* requireLifecycleContinuation: attach the upstream or close the session.
GateDecides(s) ==
  /\ ws[s].ph = "checked"
  /\ ws' = CASE Verdict(s) = "continue" ->
                  [ws EXCEPT ![s].ph = "open", ![s].snap = GsNone, ![s].tries = 0,
                             ![s].observed = ws[s].snap.seq]
             [] Verdict(s) = "restart" -> Closed(ws, s, 1012)
             [] Verdict(s) = "fail" -> Closed(ws, s, 1011)
  /\ rec' = Shrunk(rec, ws')
  /\ UNCHANGED <<gsCase, projection, alloc, hints, gsub, gsFaults>>

\* The read fails in transport: "retry", until the attempts are used up.
GateRetries(s) ==
  /\ ws[s].ph = "gate" /\ gsFaults < gsWork.faults
  /\ gsFaults' = gsFaults + 1
  /\ ws' = IF ws[s].tries + 1 = GsAttempts THEN Closed(ws, s, 1011)
           ELSE [ws EXCEPT ![s].tries = @ + 1]
  /\ rec' = Shrunk(rec, ws')
  /\ UNCHANGED <<gsCase, projection, alloc, hints, gsub>>

\* The backend is lost: the next connection passes the same gate.
UpstreamLost(s) ==
  /\ ws[s].ph = "open"
  /\ ws' = [ws EXCEPT ![s].ph = "gate"]
  /\ UNCHANGED <<gsCase, projection, alloc, hints, gsub, rec, gsFaults>>

ClientCloses(s) ==
  /\ ws[s].ph \in {"gate", "checked", "open"}
  /\ ws' = Closed(ws, s, 1000)
  /\ rec' = Shrunk(rec, ws')
  /\ UNCHANGED <<gsCase, projection, alloc, hints, gsub, gsFaults>>

-----------------------------------------------------------------------------
(* The subscriber and the passes                                             *)

\* onSessionPolicyEvent and onWorkerDeleteEvent
OnHint ==
  /\ hints # <<>>
  /\ hints' = Tail(hints)
  /\ rec' = LET m == Head(hints)
            IN IF m.kind = "delete" \/ \E s \in Registered(ws) : m.seq > ws[s].known
               THEN Schedule(rec, ws) ELSE rec
  /\ UNCHANGED <<gsCase, projection, alloc, gsub, ws, gsFaults>>

\* onSubscriberConnect reconciles every group.
ConnectedRec == Schedule(CancelRetry(rec), ws)

OnSubscriberConnect ==
  /\ ~gsub.on
  /\ gsub' = [gsub EXCEPT !.on = TRUE]
  /\ rec' = ConnectedRec
  /\ UNCHANGED <<gsCase, projection, alloc, hints, ws, gsFaults>>

OnSubscriberDisconnect ==
  /\ gsub.on /\ gsub.drops < gsWork.drops
  /\ gsub' = [on |-> FALSE, drops |-> gsub.drops + 1]
  /\ hints' = <<>>
  /\ rec' = CancelRetry(rec)
  /\ UNCHANGED <<gsCase, projection, alloc, ws, gsFaults>>

PassRead ==
  /\ rec.run = "read"
  /\ rec' = [rec EXCEPT !.run = "apply", !.snap = projection]
  /\ UNCHANGED <<gsCase, projection, alloc, hints, gsub, ws, gsFaults>>

PassFails ==
  /\ rec.run = "read" /\ gsFaults < gsWork.faults
  /\ gsFaults' = gsFaults + 1
  /\ rec' = AfterPass([rec EXCEPT !.retry = rec.alive], ws)
  /\ UNCHANGED <<gsCase, projection, alloc, hints, gsub, ws>>

\* reconcile: what the snapshot says of the sessions the pass bound and that
\* are still registered.
Applied(s) ==
  IF s \notin rec.bound \cap Registered(ws) THEN ws[s]
  ELSE LET p == rec.snap
       IN IF ~p.active \/ (p.seq > ws[s].known /\ p.mode = "restart")
          THEN [NewSession EXCEPT !.ph = "closed", !.code = 1012]
          ELSE IF p.seq < ws[s].known THEN [NewSession EXCEPT !.ph = "closed", !.code = 1011]
          ELSE [ws[s] EXCEPT !.known = p.seq]

PassApplies ==
  /\ rec.run = "apply"
  /\ ws' = [s \in GsSessions |-> Applied(s)]
  /\ rec' = AfterPass(Shrunk(rec, ws'), ws')
  /\ UNCHANGED <<gsCase, projection, alloc, hints, gsub, gsFaults>>

RetryFires ==
  /\ rec.timer
  /\ rec' = IF rec.retry THEN Schedule([rec EXCEPT !.timer = FALSE, !.retry = FALSE], ws)
            ELSE [rec EXCEPT !.timer = FALSE]
  /\ UNCHANGED <<gsCase, projection, alloc, hints, gsub, ws, gsFaults>>

GsNext ==
  \/ GsPromote("preserve") \/ GsPromote("restart") \/ RemoveWorker
  \/ OnHint \/ OnSubscriberConnect \/ OnSubscriberDisconnect
  \/ PassRead \/ PassFails \/ PassApplies \/ RetryFires
  \/ \E s \in GsSessions :
       \/ Upgrade(s) \/ Admit(s) \/ Register(s) \/ GateRead(s) \/ GateDecides(s)
       \/ GateRetries(s) \/ UpstreamLost(s) \/ ClientCloses(s)

GsSpec == GsInit /\ [][GsNext]_gsVars

-----------------------------------------------------------------------------
(* Properties                                                                *)

\* With the subscriber connected and nothing under way or waiting to be
\* retried, no open session belongs to a worker that is gone, and none is
\* older than the restart its worker's active policy asks for.
NoMissedRestart ==
  (gsub.on /\ hints = <<>> /\ rec.run = "idle" /\ ~rec.timer) =>
    \A s \in GsSessions : ws[s].ph = "open" =>
      projection.active /\ ~(projection.mode = "restart" /\ projection.seq > ws[s].known)

\* A session is closed with 1011 by its lifecycle only when Redis could not be
\* read: the sequence a session knows never lies ahead of the projection, not
\* even after its worker was deleted and created again.
SequenceNeverAhead ==
  gsFaults = 0 => \A s \in GsSessions : ws[s].code # 1011

\* Open WebSocket sessions follow their Worker's policy: once things are quiet
\* no restart or deletion was missed, and none is closed for a sequence that ran
\* ahead (runReconcile, session-policy projection).
SessionsFollowPolicy ==
  /\ NoMissedRestart
  /\ SequenceNeverAhead

=============================================================================
