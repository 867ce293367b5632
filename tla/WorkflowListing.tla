--------------------------- MODULE WorkflowListing ---------------------------
(***************************************************************************)
(* The control plane's Workflow admin surface: the paged listing of the    *)
(* definitions of a namespace, the resolution of one Workflow before a     *)
(* call to the Workflows service, and the paged lifecycle check that a     *)
(* delete makes under its lock (control/handlers/workflows.js,             *)
(* control/workflow-definitions.js, control/workflows-client.js,           *)
(* control/shared.js).  Deploys, promotions and deletes commit between     *)
(* any two Redis calls of a request, and between the requests of a listing.*)
(*                                                                         *)
(* A Worker and a Workflow name are their rank in localeCompare order; a   *)
(* fingerprint is the value it digests; a workflow key is the version that *)
(* minted it; a byte size is a small number.                               *)
(***************************************************************************)
EXTENDS Integers, Sequences, FiniteSets, FiniteSetsExt

CONSTANTS WlScan,        \* the HSCAN page of each Worker's route field
          WlNames,       \* Workflow names, 1 .. n
          WlSize,        \* the encoded size of a definition, per name
          WlMaxWorkers,  \* WORKFLOW_DEFINITION_PAGE_MAX_WORKERS
          WlPageBytes,   \* WORKFLOW_DEFINITION_PAGE_MAX_BYTES
          WlReadBytes,   \* WORKFLOW_DEFINITION_PAGE_READ_MAX_BYTES
          WlMetaMax,     \* WORKFLOW_LIST_META_MAX_BYTES
          WlMaxDefs,     \* WORKFLOW_DEFINITIONS_MAX_COUNT
          WlMaxVersion,  \* bound: versions of a Worker
          WlTimeout,     \* WORKFLOWS_INTERNAL_TIMEOUT_MS
          WlDeadline,    \* WORKFLOW_LIFECYCLE_TIMEOUT_MS
          WlLockTTL,     \* DELETE_LOCK_TTL_SECONDS
          WlCheckPages,  \* WORKFLOW_LIFECYCLE_MAX_PAGES
          WlMaxTime,     \* bound: clock of the lifecycle check
          WlWorkloads,
          NoMeta,        \* no bundle
          NoPrint        \* a cursor without that fingerprint

WlWorkers == DOMAIN WlScan
WlVersions == 1 .. WlMaxVersion

ASSUME WlAssumption ==
  /\ WlNames = 1 .. Cardinality(WlNames) /\ WlWorkers \subseteq Nat \ {0}
  /\ \A n \in WlNames : WlSize[n] \in 1 .. WlPageBytes
  /\ WlTimeout < WlLockTTL /\ WlMaxWorkers > 0

VARIABLES wlCase,    \* workload: [exports, retired, size, limit, changes, deploys, client]
          wlRoute,   \* routes:<ns>: the active version of a Worker, or 0
          wlMeta,    \* bundles: [names -> key or 0, size], or NoMeta
          wlDefs,    \* wf:defs: the key of every name ever deployed, or 0
          wlSeq,     \* next_version, never deleted
          wlLeft,    \* commits still allowed
          ls,        \* the listing client and its running request
          rs,        \* the request for one Workflow
          ck,        \* the lifecycle check of a delete
          wlSteady,  \* history: definitions present since the listing began
          wlSeen     \* history: the definition lists each Worker had since then

wlStore == <<wlRoute, wlMeta, wlDefs, wlSeq, wlLeft>>
wlHist == <<wlSteady, wlSeen>>
wlWork == WlWorkloads[wlCase]
wlVars == <<wlCase, wlStore, ls, rs, ck, wlHist>>

-----------------------------------------------------------------------------
(* Definitions and route pages *)

\* parseWorkflowDefs: the names of wf:defs.
ParsedDefs(defs) == {n \in WlNames : defs[n] # 0}

\* workflowBundleMeta and workflowsFromMeta: the names a version exports.
ExportedBy(meta) == {n \in WlNames : meta.names[n] # 0}

\* buildWorkerWorkflowDefinitions: exported names with the bundle's key, then
\* the names only wf:defs still knows, in name order.
DefinitionsOf(w, v, meta, defs) ==
  LET active == ExportedBy(meta)
      listed == active \cup ParsedDefs(defs)
      entry(n) == [w |-> w, v |-> v, n |-> n, retired |-> n \notin active,
                   key |-> IF n \in active THEN meta.names[n] ELSE defs[n]]
      nth(i) == CHOOSE n \in listed : Cardinality({m \in listed : m <= n}) = i
  IN [i \in 1 .. Cardinality(listed) |-> entry(nth(i))]

\* readWorkflowRoutePage: one HSCAN page of the active routes.
RoutePage(scan) ==
  [next |-> IF \E w \in WlWorkers : WlScan[w] > scan THEN scan + 1 ELSE 0,
   entries |-> {w \in WlWorkers : WlScan[w] = scan /\ wlRoute[w] # 0},
   versions |-> [w \in {x \in WlWorkers : WlScan[x] = scan} |-> wlRoute[w]]]

\* decodeDefinitionCursor of an absent cursor.
FirstOf(scan) == [scan |-> scan, worker |-> 0, name |-> 0, print |-> NoPrint, defs |-> NoPrint]

\* The snapshot script: 2 the route moved, 0 more definitions than a Worker may
\* have, -1 oversized metadata, 1 a snapshot.
SnapshotStatus(w, v) ==
  IF wlRoute[w] # v THEN 2
  ELSE IF Cardinality(ParsedDefs(wlDefs[w])) > WlMaxDefs THEN 0
  ELSE IF wlMeta[w][v] # NoMeta /\ wlMeta[w][v].size > WlMetaMax THEN -1
  ELSE 1

\* readWorkflowDefinitionSnapshot: what a snapshot counts against the page.
SnapshotBytes(w, v) == wlMeta[w][v].size + Cardinality(ParsedDefs(wlDefs[w]))

CurrentDefinitions(w) ==
  IF wlRoute[w] = 0 THEN <<>>
  ELSE DefinitionsOf(w, wlRoute[w], wlMeta[w][wlRoute[w]], wlDefs[w])

WlPresent ==
  {<<w, n>> \in WlWorkers \X WlNames :
     wlRoute[w] # 0 /\ n \in ParsedDefs(wlDefs[w]) \cup ExportedBy(wlMeta[w][wlRoute[w]])}

-----------------------------------------------------------------------------
(* Commits of the other control handlers, each one EXEC *)

\* A commit while a listing runs leaves its trace in the histories.
Commit ==
  /\ wlLeft > 0 /\ wlLeft' = wlLeft - 1
  /\ wlSteady' = wlSteady \cap WlPresent'
  /\ wlSeen' = [w \in WlWorkers |-> wlSeen[w] \cup {CurrentDefinitions(w)'}]
  /\ UNCHANGED <<wlCase, ls, rs, ck>>

\* readWorkflowDefinitionAdmission and workflowDefinitionUpdatesFit: the names
\* wf:defs would hold, read under the deploy's WATCH.
DefinitionsFit(w, names) == Cardinality(ParsedDefs(wlDefs[w]) \cup names) <= WlMaxDefs

\* stageDeployCommit: the bundle and wf:defs, with the keys wf:defs already has.
DeployVersion(w) ==
  \E names \in wlWork.deploys :
    LET v == wlSeq[w] + 1
        key(n) == IF wlDefs[w][n] # 0 THEN wlDefs[w][n] ELSE v
        meta == [names |-> [n \in WlNames |-> IF n \in names THEN key(n) ELSE 0], size |-> 1]
    IN /\ v <= WlMaxVersion /\ DefinitionsFit(w, names)
       /\ wlSeq' = [wlSeq EXCEPT ![w] = v]
       /\ wlMeta' = [wlMeta EXCEPT ![w][v] = meta]
       /\ wlDefs' = [wlDefs EXCEPT ![w] = [n \in WlNames |-> IF n \in names THEN key(n) ELSE @[n]]]
       /\ UNCHANGED wlRoute
       /\ Commit

PromoteVersion(w) ==
  \E v \in WlVersions :
    /\ wlMeta[w][v] # NoMeta /\ wlRoute[w] # v
    /\ wlRoute' = [wlRoute EXCEPT ![w] = v]
    /\ UNCHANGED <<wlMeta, wlDefs, wlSeq>>
    /\ Commit

DropVersion(w) ==
  \E v \in WlVersions :
    /\ wlMeta[w][v] # NoMeta /\ wlRoute[w] # v
    /\ wlMeta' = [wlMeta EXCEPT ![w][v] = NoMeta]
    /\ UNCHANGED <<wlRoute, wlDefs, wlSeq>>
    /\ Commit

\* stageWorkerDelete: everything but the version allocator.
DropWorker(w) ==
  /\ \E v \in WlVersions : wlMeta[w][v] # NoMeta
  /\ wlRoute' = [wlRoute EXCEPT ![w] = 0]
  /\ wlMeta' = [wlMeta EXCEPT ![w] = [v \in WlVersions |-> NoMeta]]
  /\ wlDefs' = [wlDefs EXCEPT ![w] = [n \in WlNames |-> 0]]
  /\ UNCHANGED wlSeq
  /\ Commit

-----------------------------------------------------------------------------
(* listWorkflowDefinitions: requests with a cursor, until it is null *)

\* Bug: a cursor inside a Worker skips the rest of that Worker.
Ahead_WholeWorker(c, w) == w > c.worker

\* The Workers of a page that a cursor has not passed.
Ahead(c, w) == w > c.worker \/ (w = c.worker /\ c.name # 0)

\* The cursor stands inside Worker w.
Inside(c, w) == w = c.worker /\ c.name # 0

\* A changed page restarts the request, once.
Again(l) == IF l.try = 0 THEN [l EXCEPT !.pc = "retry", !.try = 1] ELSE [l EXCEPT !.pc = "contention"]

\* The first read of a request, or of its second attempt.
ListRequest ==
  /\ ls.pc \in {"idle", "next", "retry"}
  /\ LET page == RoutePage(ls.cur.scan)
     IN ls' = IF ls.cur.print # NoPrint /\ ls.cur.print # page
              THEN [ls EXCEPT !.pc = "contention"]
              ELSE [ls EXCEPT !.pc = "walk", !.page = page, !.out = <<>>, !.bytes = 0,
                              !.workers = 0, !.input = 0, !.full = FALSE,
                              !.prog = [ls.cur EXCEPT !.print = page],
                              !.todo = {w \in page.entries : Ahead(ls.cur, w)},
                              !.try = IF ls.pc = "retry" THEN 1 ELSE 0]
  /\ wlSteady' = IF ls.pc = "idle" THEN WlPresent ELSE wlSteady
  /\ wlSeen' = IF ls.pc = "idle" THEN [w \in WlWorkers |-> {CurrentDefinitions(w)}] ELSE wlSeen
  /\ UNCHANGED <<wlCase, wlStore, rs, ck>>

\* The loop of a request ends before its next Worker.
Stops(l) ==
  \/ l.todo = {} \/ l.full
  \/ l.workers = WlMaxWorkers \/ Len(l.out) = wlWork.limit

\* Definitions are added while count and bytes allow; the cursor after a full
\* page names the last one added.
Fill(l, w, defs) ==
  LET rest == IF Inside(l.cur, w) THEN SelectSeq(defs, LAMBDA e : e.n > l.cur.name) ELSE defs
      bytes(k) == l.bytes + MapThenSumSet(LAMBDA i : WlSize[rest[i].n], 1 .. k)
      fits(k) == Len(l.out) + k <= wlWork.limit /\ bytes(k) <= WlPageBytes
      k == Max({j \in 0 .. Len(rest) : fits(j)})
      at == [l.cur EXCEPT !.print = l.page, !.worker = w, !.name = 0, !.defs = NoPrint]
      taken == [l EXCEPT !.out = @ \o SubSeq(rest, 1, k), !.bytes = bytes(k)]
  IN IF k = Len(rest)
     THEN [taken EXCEPT !.prog = at, !.todo = @ \ {w}]
     ELSE IF Len(l.out) + k = 0
     THEN [l EXCEPT !.pc = "corrupt"]
     ELSE [taken EXCEPT !.full = TRUE,
             !.prog = IF k = 0 THEN @ ELSE [at EXCEPT !.name = rest[k].n, !.defs = defs]]

\* A cursor inside a Worker holds for the definitions it was made from.
SameDefinitions(c, w, defs) == Inside(c, w) => c.defs = defs

\* The page ends before a Worker over the read budget; alone it is refused.
OverBudget(l) == IF l.input = 0 THEN [l EXCEPT !.pc = "too_large"] ELSE [l EXCEPT !.full = TRUE]

\* readWorkflowDefinitionSnapshot of the next Worker, one script, and the rest
\* of its turn in the loop.
ListWorker ==
  /\ ls.pc = "walk" /\ ~Stops(ls)
  /\ LET w == Min(ls.todo)
         v == ls.page.versions[w]
         st == SnapshotStatus(w, v)
         l == [ls EXCEPT !.workers = @ + 1]
         size == SnapshotBytes(w, v)
         defs == DefinitionsOf(w, v, wlMeta[w][v], wlDefs[w])
     IN ls' = IF st = 2 THEN Again(l)
              ELSE IF st = -1 THEN [l EXCEPT !.pc = "too_large"]
              ELSE IF st = 0 \/ wlMeta[w][v] = NoMeta THEN [l EXCEPT !.pc = "corrupt"]
              ELSE IF l.input + size > WlReadBytes THEN OverBudget(l)
              ELSE IF ~SameDefinitions(l.cur, w, defs) THEN Again(l)
              ELSE Fill([l EXCEPT !.input = @ + size], w, defs)
  /\ UNCHANGED <<wlCase, wlStore, rs, ck, wlHist>>

\* The second read of the route page at the end of a request.
StillCurrent(l) == RoutePage(l.cur.scan) = l.page

ListReply ==
  /\ ls.pc = "walk" /\ Stops(ls)
  /\ ls' = IF ~StillCurrent(ls) THEN Again(ls)
           ELSE [ls EXCEPT !.acc = @ \o ls.out,
                           !.pc = IF ls.todo = {} /\ ls.page.next = 0 THEN "done" ELSE "next",
                           !.cur = IF ls.todo # {} THEN ls.prog
                                   ELSE IF ls.page.next = 0 THEN @ ELSE FirstOf(ls.page.next)]
  /\ UNCHANGED <<wlCase, wlStore, rs, ck, wlHist>>

\* A Redis call of the request fails: workflow_metadata_unavailable.
ListUnavailable ==
  /\ ls.pc = "walk"
  /\ ls' = [ls EXCEPT !.pc = "unavailable"]
  /\ UNCHANGED <<wlCase, wlStore, rs, ck, wlHist>>

-----------------------------------------------------------------------------
(* resolveWorkflow, and the call behind it *)

RsAgain(r) == IF r.try = 0 THEN [r EXCEPT !.pc = "route", !.try = 1] ELSE [r EXCEPT !.pc = "contention"]

RsUnchanged == UNCHANGED <<wlCase, wlStore, ls, ck, wlHist>>

\* readActiveWorkflowMeta: the active version.
ReadRoute ==
  /\ rs.pc = "route"
  /\ rs' = IF wlRoute[rs.w] = 0 THEN [rs EXCEPT !.pc = "no_worker"]
           ELSE [rs EXCEPT !.pc = "meta", !.v = wlRoute[rs.w], !.key = 0, !.retired = FALSE]
  /\ RsUnchanged

\* A missing bundle is looked at again together with its route.
MissingMeta(r) == [r EXCEPT !.pc = "recheck"]

\* readBundleMeta, first read.
ReadMeta ==
  /\ rs.pc = "meta"
  /\ LET meta == wlMeta[rs.w][rs.v]
     IN rs' = IF meta = NoMeta THEN MissingMeta(rs)
              ELSE [rs EXCEPT !.key = meta.names[rs.n],
                              !.pc = IF meta.names[rs.n] # 0 THEN "check" ELSE "def"]
  /\ RsUnchanged

\* readBundleMeta, the route of a missing bundle.
RecheckRoute ==
  /\ rs.pc = "recheck"
  /\ rs' = IF wlRoute[rs.w] # rs.v THEN RsAgain(rs) ELSE [rs EXCEPT !.pc = "corrupt"]
  /\ RsUnchanged

\* readWorkflowDef: a name the active version does not export.
ReadDef ==
  /\ rs.pc = "def"
  /\ rs' = [rs EXCEPT !.pc = "check", !.key = wlDefs[rs.w][rs.n], !.retired = TRUE]
  /\ RsUnchanged

\* The route is read again before the answer is used.
RouteHeld(r) == wlRoute[r.w] = r.v

\* A restart needs an exported Workflow, every other action of handleInner
\* goes to the Workflows service.
Dispatched(r) == IF r.retired /\ r.action = "restart" THEN "not_exported" ELSE "sent"

\* The answer of resolveWorkflow.
WlResolve ==
  /\ rs.pc = "check"
  /\ rs' = IF ~RouteHeld(rs) THEN RsAgain(rs)
           ELSE [rs EXCEPT !.pc = IF rs.key = 0 THEN "not_found" ELSE Dispatched(rs)]
  /\ RsUnchanged

\* callWorkflowsRust: what the caller is told of the service's answer.  A lost
\* or late answer is a 503, an answer without an error code the service's own
\* status, and a 2xx without an object a 502.
CallOutcome(answer) ==
  [ok |-> "ok", refused |-> "upstream_error", failed |-> "upstream_error",
   bare |-> "dispatch_failed", lost |-> "dispatch_failed", empty |-> "dispatch_failed"][answer]

Answered ==
  /\ rs.pc = "sent"
  /\ \E a \in {"ok", "refused", "failed", "bare", "lost", "empty"} :
       rs' = [rs EXCEPT !.pc = CallOutcome(a)]
  /\ RsUnchanged

-----------------------------------------------------------------------------
(* assertWorkflowDeleteAllowed: pages under one deadline and the delete lock *)

CkUnchanged == UNCHANGED <<wlCase, wlStore, ls, rs, wlHist>>

CkTick ==
  /\ ck.pc \in {"loop", "renew", "wait"} /\ ck.now < WlMaxTime
  /\ ck' = [ck EXCEPT !.now = @ + 1]
  /\ CkUnchanged

\* The head of the loop; the check starts with its first turn.
CheckPage ==
  /\ ck.pc = "loop"
  /\ ck' = IF ck.page = WlCheckPages \/ ck.now >= ck.end THEN [ck EXCEPT !.pc = "incomplete"]
           ELSE [ck EXCEPT !.pc = "renew", !.page = @ + 1]
  /\ CkUnchanged

\* The limit of a request is its timeout or, when that comes first, the
\* deadline of the check, which then owns the timeout.
Limited(c) ==
  LET owns == c.end - c.now <= WlTimeout
  IN [c EXCEPT !.owns = owns, !.limit = IF owns THEN c.end ELSE c.now + WlTimeout]

\* renewDeleteLock raced with the deadline, then the request's own limits.
Renewed(c) ==
  IF c.now >= c.end THEN [c EXCEPT !.pc = "incomplete"]
  ELSE IF c.now >= c.lock THEN [c EXCEPT !.pc = "deleting"]
  ELSE [Limited(c) EXCEPT !.pc = "wait", !.lock = c.now + WlLockTTL]

RenewLock ==
  /\ ck.pc = "renew"
  /\ ck' = Renewed(ck)
  /\ CkUnchanged

\* postWorkflowsInternalRequest: the error of a request that ran out of time.
TimedOut(c) == [c EXCEPT !.pc = IF c.owns THEN "incomplete" ELSE "dispatch_failed"]

\* The answer is used only before the request's limit, whatever the timer did.
InTime(c) == c.now < c.limit

\* The Workflows service answers a page, or the request fails.
CheckAnswer ==
  /\ ck.pc = "wait"
  /\ \E a \in {"allowed", "more", "blocked", "stuck", "invalid", "lost"} :
       ck' = IF ~InTime(ck) THEN TimedOut(ck)
             ELSE [ck EXCEPT !.pc = CASE a = "allowed" -> "allowed"
                                      [] a = "more" -> "loop"
                                      [] a = "blocked" -> "instances_active"
                                      [] a = "stuck" -> "incomplete"
                                      [] OTHER -> "dispatch_failed"]
  /\ CkUnchanged

-----------------------------------------------------------------------------

WlIdle ==
  [pc |-> "idle", try |-> 0, cur |-> FirstOf(1), page |-> NoPrint, todo |-> {}, out |-> <<>>,
   prog |-> FirstOf(1), full |-> FALSE, bytes |-> 0, workers |-> 0, input |-> 0, acc |-> <<>>]

\* Every Worker has version 1, deployed with its exports and, before that,
\* the names it no longer exports.
WlInit ==
  \E c \in DOMAIN WlWorkloads : LET work == WlWorkloads[c] IN
    /\ wlCase = c
    /\ wlRoute = [w \in WlWorkers |-> IF w \in work.active THEN 1 ELSE 0]
    /\ wlMeta = [w \in WlWorkers |-> [v \in WlVersions |->
         IF v = 1 /\ w \in work.active
         THEN [names |-> [n \in WlNames |-> IF n \in work.exports[w] THEN 1 ELSE 0],
               size |-> work.size[w]]
         ELSE NoMeta]]
    /\ wlDefs = [w \in WlWorkers |-> [n \in WlNames |->
         IF w \in work.active /\ n \in work.exports[w] \cup work.retired[w] THEN 1 ELSE 0]]
    /\ wlSeq = [w \in WlWorkers |-> IF w \in work.active THEN 1 ELSE 0]
    /\ wlLeft = work.changes
    /\ ls = [WlIdle EXCEPT !.pc = IF work.client = "list" THEN "idle" ELSE "none"]
    /\ \E w \in WlWorkers, n \in WlNames, a \in {"status", "restart"} :
         /\ work.client # "resolve" => w = Min(WlWorkers) /\ n = 1 /\ a = "status"
         /\ rs = [pc |-> IF work.client = "resolve" THEN "route" ELSE "none", try |-> 0,
                  w |-> w, n |-> n, v |-> 0, key |-> 0, retired |-> FALSE, action |-> a]
    /\ \E lock \in IF work.client = "check" THEN 0 .. WlLockTTL ELSE {0} :
         ck = [pc |-> IF work.client = "check" THEN "loop" ELSE "none", now |-> 0,
               end |-> WlDeadline, page |-> 0, lock |-> lock, owns |-> FALSE, limit |-> 0]
    /\ wlSteady = {} /\ wlSeen = [w \in WlWorkers |-> {}]

WlNext ==
  \/ \E w \in WlWorkers :
       DeployVersion(w) \/ PromoteVersion(w) \/ DropVersion(w) \/ DropWorker(w)
  \/ ListRequest \/ ListWorker \/ ListReply \/ ListUnavailable
  \/ ReadRoute \/ ReadMeta \/ RecheckRoute \/ ReadDef \/ WlResolve \/ Answered
  \/ CkTick \/ CheckPage \/ RenewLock \/ CheckAnswer

WlSpec == WlInit /\ [][WlNext]_wlVars

-----------------------------------------------------------------------------
(* Properties *)

Listed(w) == SelectSeq(ls.acc, LAMBDA e : e.w = w)

\* Whatever is deployed, promoted or deleted between the pages, a listing that
\* ends with a null cursor has every definition that existed throughout, once
\* (listWorkflowDefinitionsFromSession, its cursor and its skip rule).
ListingComplete ==
  ls.pc = "done" =>
    \A p \in wlSteady : Cardinality({i \in DOMAIN ls.acc : <<ls.acc[i].w, ls.acc[i].n>> = p}) = 1

\* The entries a finished listing has for a Worker are the definitions the
\* Worker had at one moment, also when pages split it: a cursor never splices
\* two states (cursor.definitions).
ListedAtOnce ==
  ls.pc = "done" => \A w \in WlWorkers : Listed(w) # <<>> => Listed(w) \in wlSeen[w]

\* When a page is returned, every entry given so far of its route page carries
\* the version that is active at that moment (the second route read).
ListedVersionsActive ==
  [][ls.pc = "walk" /\ ls'.pc \in {"next", "done"} =>
       \A i \in DOMAIN ls'.acc :
         WlScan[ls'.acc[i].w] = ls.cur.scan => ls'.acc[i].v = wlRoute[ls'.acc[i].w]]_wlVars

\* The definitions a cursor has passed.
Behind(c) ==
  {<<w, n>> \in WlWorkers \X WlNames :
     \/ WlScan[w] < c.scan
     \/ WlScan[w] = c.scan /\ (w < c.worker \/ (w = c.worker /\ (c.name = 0 \/ n <= c.name)))}

\* A page that is not the last moves its cursor, so a client that follows the
\* cursors comes to an end (progress, the read budget's first-Worker rule).
CursorAdvances ==
  [][ls.pc = "walk" /\ ls'.pc = "next" =>
       Behind(ls.cur) \subseteq Behind(ls'.cur) /\ Behind(ls.cur) # Behind(ls'.cur)]_wlVars

\* A request that is sent to the Workflows service, or refused, names a
\* version, a key and an export status that are true together at that moment
\* (resolveWorkflow's second route read).
ResolvedTogether ==
  [][rs.pc = "check" /\ rs'.pc \in {"sent", "not_exported", "not_found"} =>
       LET meta == wlMeta[rs.w][rs.v]
       IN /\ wlRoute[rs.w] = rs.v /\ meta # NoMeta
          /\ rs.retired <=> meta.names[rs.n] = 0
          /\ rs.key # 0 => rs.key = IF rs.retired THEN wlDefs[rs.w][rs.n]
                                    ELSE meta.names[rs.n]]_wlVars

\* No interleaving with a promotion and a version delete makes a request
\* report the metadata of a Worker as corrupt (readBundleMeta, the snapshot
\* script's route check).
NeverCorrupt == rs.pc # "corrupt" /\ ls.pc # "corrupt"

\* A delete is allowed only while its lock has not expired and its deadline
\* has not passed, however late the service's answer is (renewal per page,
\* the limit checked again after the body is read).
AllowedUnderLock == ck.pc = "allowed" => ck.now < ck.lock /\ ck.now < ck.end

\* What the workflow handlers answer was true at one moment of the call although
\* the pages, the route and the bundle are read apart: listings, resolutions and
\* delete permissions (control/workflows handlers).
ListingTrue ==
  /\ [](/\ ListingComplete
        /\ ListedAtOnce
        /\ NeverCorrupt
        /\ AllowedUnderLock)
  /\ ListedVersionsActive
  /\ CursorAdvances
  /\ ResolvedTogether

=============================================================================
