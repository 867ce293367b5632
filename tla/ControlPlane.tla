---------------------------- MODULE ControlPlane ----------------------------
(***************************************************************************)
(* The control plane's records of Workers in the control Redis: versions   *)
(* and bundles, the active route, the URL patterns and declared hosts, the *)
(* cron, queue and session-policy projections, secrets, references between *)
(* Workers and to D1 databases, and the delete lock.  The handlers run in  *)
(* any number of control processes at once.                                *)
(*                                                                         *)
(* A WATCH/MULTI/EXEC whose reads all follow the WATCH of their keys takes *)
(* effect at its EXEC or not at all, so it is one step here.  A handler    *)
(* with reads before the WATCH, or with several transactions, is a request *)
(* with a program counter, and other handlers run between its steps.       *)
(***************************************************************************)
EXTENDS Naturals, FiniteSets, TLC

CONSTANTS
  Workers,      \* every <ns, worker> pair
  NsOf,         \* Worker -> namespace
  PlatformNs,   \* PLATFORM_TIER_RESERVED_NS
  Slots,        \* route slots: records [host, path]
  Crons,        \* cron expressions, as numbers
  Queues,       \* queue names
  Dbs,          \* D1 database ids
  Names,        \* platform names: exports[].as
  SecretKeys,   \* names of secrets and vars
  Requests,     \* handlers that take several steps
  Workloads,    \* what clients ask for: [asks, ops, bodies, keys, secretNs, hostLists, cap, lossy]
  MaxVersion,   \* bound on version numbers; a workload's cap may be lower
  MaxRevision,  \* bound on the declared-hosts revision
  MaxSequence,  \* bound on cron generations and restart sequences
  MaxEnv,       \* WORKER_LOADER_ENV_MAX_BYTES, in units of a value
  None

VARIABLES
  cpCase,
  reg,         \* the keys of one Worker
  bundle,      \* worker:<ns>:<name>:<version>, its __meta__
  referrers,   \* worker-version-referrers
  patterns,    \* patterns:<host>
  nsHosts,     \* ns-hosts:<ns>
  namespaces,  \* the set of namespaces with an active Worker
  queue,       \* queue-consumer:<ns>:<queue>
  hosts,       \* hosts:<ns>, what a namespace declares
  declared,    \* declared-hosts and host-declarations:<host>
  revision,    \* declared-hosts revision
  nsSecrets,   \* secrets:<ns>
  dbs,         \* D1 databases and their referrers
  intents,     \* asset prefixes handed to the S3 cleanup queue
  req          \* requests in flight

routeVars == <<patterns, nsHosts, namespaces, queue>>
hostVars == <<hosts, declared, revision>>
workload == Workloads[cpCase]
cpVars == <<cpCase, reg, bundle, referrers, routeVars, hostVars, nsSecrets, dbs, intents, req>>

Namespaces == {NsOf[w] : w \in Workers}
Hosts == {s.host : s \in Slots}
Versions == 1..MaxVersion
QueueKeys == Namespaces \X Queues
Caller(w, v) == [worker |-> w, version |-> v]

ASSUME ControlAssumption ==
  /\ NsOf \in [Workers -> Namespaces] /\ PlatformNs \subseteq Namespaces
  /\ Crons \subseteq Nat /\ {MaxVersion, MaxRevision, MaxSequence, MaxEnv} \subseteq Nat
  /\ \A l \in {Workloads[c] : c \in DOMAIN Workloads} : l.cap \in [Workers -> 0..MaxVersion] /\ l.bodies \in [Workers -> SUBSET
       [routes : SUBSET Slots, workersDev : BOOLEAN, crons : SUBSET Crons,
        queues : SUBSET Queues, policy : {"preserve", "restart"},
        calls : SUBSET Workers, uses : SUBSET Names, d1 : SUBSET Dbs,
        as : SUBSET Names, allows : {None} \cup SUBSET Namespaces,
        vars : SUBSET SecretKeys, assets : BOOLEAN, durable : BOOLEAN, workflows : BOOLEAN]]

\* Version 0 is no version; id 0 of a DO storage or a workflow key is none.
NoWorker ==
  [active |-> 0, next |-> 0, versions |-> {}, visible |-> FALSE,
   secrets |-> {}, doStorageId |-> 0, workflowKey |-> 0, cron |-> None,
   cronSeq |-> 0, policy |-> None, policySeq |-> 0, platformOff |-> FALSE,
   lock |-> None]

Idle == [pc |-> "idle"]
Asks(w, kind) == kind \in workload.asks[w]
Wants(op) == op \in workload.ops
Becomes(r, next) == req' = [req EXCEPT ![r] = next]
At(r, pc) == req[r].pc = pc

CpInit ==
  /\ cpCase \in DOMAIN Workloads
  /\ reg = [w \in Workers |-> NoWorker]
  /\ bundle = [w \in Workers |-> [v \in Versions |-> None]]
  /\ referrers = [w \in Workers |-> [v \in Versions |-> {}]]
  /\ patterns = [s \in Slots |-> None]
  /\ nsHosts = [n \in Namespaces |-> {}]
  /\ namespaces = {}
  /\ queue = [k \in QueueKeys |-> None]
  /\ hosts = [n \in Namespaces |-> {}]
  /\ declared = [all |-> {}, by |-> [h \in Hosts |-> {}]]
  /\ revision = 0
  /\ nsSecrets = [n \in Namespaces |-> {}]
  /\ dbs = [ready |-> {}, gone |-> {}, refs |-> [d \in Dbs |-> {}]]
  /\ intents = {}
  /\ req = [r \in Requests |-> Idle]

-----------------------------------------------------------------------------
(* What a bundle points at, and who points at it. *)

Retained(w) == reg[w].versions
\* A version that a committed __meta__ makes loadable.
Present(w, v) == v \in Versions /\ bundle[w][v] # None
ActiveMeta(w) == bundle[w][reg[w].active]

\* stageOutgoingReferrerAdds / Removals for version v of w.
AddReferrer(w, v, pins) ==
  [t \in Workers |-> [x \in Versions |->
     IF t \in DOMAIN pins /\ pins[t] = x
     THEN referrers[t][x] \cup {Caller(w, v)} ELSE referrers[t][x]]]
\* The versions' own referrer sets are deleted with them.
DropReferrers(w, vs) ==
  [t \in Workers |-> [x \in Versions |->
     IF t = w /\ x \in vs THEN {}
     ELSE referrers[t][x] \ {Caller(w, v) : v \in vs}]]

AddD1Referrer(w, v, ids) ==
  [dbs EXCEPT !.refs = [d \in Dbs |->
     IF d \in ids THEN @[d] \cup {Caller(w, v)} ELSE @[d]]]
DropD1Referrers(w, vs) ==
  [dbs EXCEPT !.refs = [d \in Dbs |-> @[d] \ {Caller(w, v) : v \in vs}]]

\* Promote and bump refuse a bundle whose targets or databases have gone.
DependenciesPresent(meta) ==
  /\ \A t \in DOMAIN meta.pins : Present(t, meta.pins[t])
  /\ meta.d1 \subseteq dbs.ready

-----------------------------------------------------------------------------
(* Deploy: link targets, take a version number, upload, commit. *)

\* evaluateServiceBindingAcl against the target's export; a target without
\* [[exports]] (allows = None) is open to its own namespace only.
AllowedBy(w, t, meta) ==
  \/ NsOf[w] = NsOf[t]
  \/ meta.allows # None /\ NsOf[w] \in meta.allows

\* [[services]]: an active Worker other than the caller, outside the
\* platform tier.
LinkServiceBinding(w, t) ==
  /\ t # w /\ NsOf[t] \notin PlatformNs /\ reg[t].active # 0
  /\ AllowedBy(w, t, ActiveMeta(t))

\* [[platform_bindings]]: the active platform Workers that export a name.
PlatformExports(name) ==
  {t \in Workers : NsOf[t] \in PlatformNs /\ reg[t].active # 0 /\ name \in ActiveMeta(t).as}

LinkPlatformBinding(w, name, t) ==
  t \in PlatformExports(name) /\ AllowedBy(w, t, ActiveMeta(t))

\* parseExports: "as" names belong to the platform tier, where every export
\* needs one.
ExportsValid(w, body) ==
  IF NsOf[w] \in PlatformNs THEN body.allows # None => body.as # {} ELSE body.as = {}

Routable(meta) == meta.workersDev \/ meta.routes # {}

\* prepareDeployRequest: a Worker that nothing can reach is refused, and
\* platform namespaces have neither routes nor triggers.
DeployRequestValid(w, body) ==
  /\ Routable(body) /\ ExportsValid(w, body)
  /\ NsOf[w] \in PlatformNs => body.routes \cup body.crons \cup body.queues = {}

\* Each value of the env counts one unit and a namespace secret one more; a
\* Worker's secret hides the namespace's, which hides a var.
EnvUnits(vars, ns, own) == Cardinality(vars \cup ns \cup own) + Cardinality(ns \ own)
EnvFits(vars, ns, own) == EnvUnits(vars, ns, own) <= MaxEnv

\* The pins of the bindings: each linked target at its active version.
ServicePins(w, body) ==
  IF \A t \in body.calls : LinkServiceBinding(w, t)
  THEN {[t \in body.calls |-> reg[t].active]} ELSE {}
PlatformPins(w, body) ==
  {[t \in {found[x] : x \in body.uses} |-> reg[t].active] :
     found \in {f \in [body.uses -> Workers] : \A x \in body.uses : LinkPlatformBinding(w, x, f[x])}}
Together(f, g) == [t \in DOMAIN f \cup DOMAIN g |-> IF t \in DOMAIN f THEN f[t] ELSE g[t]]

\* The preflight reads active versions and their __meta__ without WATCH,
\* pins the versions into the bindings, and measures the env a first time.
DeployPreflight(r, w) ==
  /\ Asks(w, "deploy") /\ At(r, "idle")
  /\ \E body \in workload.bodies[w] :
       /\ DeployRequestValid(w, body)
       /\ EnvFits(body.vars, nsSecrets[NsOf[w]], reg[w].secrets)
       /\ \E f \in ServicePins(w, body), g \in PlatformPins(w, body) :
            Becomes(r, [pc |-> "upload", w |-> w, body |-> body, pins |-> Together(f, g)])
  /\ UNCHANGED <<cpCase, nsSecrets, reg, bundle, referrers, routeVars, hostVars, dbs, intents>>

\* A cleanup intent is best effort: its XADD may fail with a warning.
ScheduleCleanup(prefixes) == intents' = intents \/ intents' = intents \cup prefixes

\* A failed upload schedules the prefix for cleanup and ends the request.
UploadFails(r, v) ==
  /\ req[r].body.assets /\ Becomes(r, Idle)
  /\ ScheduleCleanup({[w |-> req[r].w, token |-> v]})

\* The version number is burnt before the assets go up.
DeployUpload(r) ==
  /\ At(r, "upload")
  /\ LET q == req[r] IN
     /\ reg[q.w].next < workload.cap[q.w]
     /\ reg' = [reg EXCEPT ![q.w].next = @ + 1]
     /\ \/ Becomes(r, [pc |-> "commit", w |-> q.w, body |-> q.body,
                       pins |-> q.pins, v |-> reg[q.w].next + 1])
           /\ UNCHANGED intents
        \/ UploadFails(r, reg[q.w].next + 1)
  /\ UNCHANGED <<cpCase, nsSecrets, bundle, referrers, routeVars, hostVars, dbs>>

\* A commit that does not compare the pin with the target's active version.
TargetsPinnable_Unpinned(pins) ==
  \A t \in DOMAIN pins : reg[t].lock = None /\ reg[t].active # 0

\* validateOutgoingRefsForCommit
TargetsPinnable(pins) ==
  \A t \in DOMAIN pins :
    reg[t].lock = None /\ reg[t].active = pins[t] /\ Present(t, pins[t])

DatabasesReady(d1) == d1 \subseteq dbs.ready
CallerNotDeleting(w) == reg[w].lock = None

CommittedEnvFits(w, vars) == EnvFits(vars, nsSecrets[NsOf[w]], reg[w].secrets)

\* The checks of commitWithWatch, all under WATCH.
CommitAllowed(q) ==
  /\ DatabasesReady(q.body.d1) /\ CallerNotDeleting(q.w)
  /\ TargetsPinnable(q.pins) /\ CommittedEnvFits(q.w, q.body.vars)

Reuse(wanted, id, v) == IF ~wanted THEN 0 ELSE IF id # 0 THEN id ELSE v

\* prepareCommittedBundle: the version-independent part of __meta__.
PreparedMeta(b) ==
  [routes |-> b.routes, workersDev |-> b.workersDev, crons |-> b.crons,
   queues |-> b.queues, policy |-> b.policy, d1 |-> b.d1, as |-> b.as,
   allows |-> b.allows, vars |-> b.vars]

CommittedMeta(q) ==
  PreparedMeta(q.body) @@
  [pins |-> q.pins, assets |-> IF q.body.assets THEN q.v ELSE 0,
   doStorageId |-> Reuse(q.body.durable, reg[q.w].doStorageId, q.v),
   workflowKey |-> Reuse(q.body.workflows, reg[q.w].workflowKey, q.v)]

StageDeployCommit(q) ==
  LET meta == CommittedMeta(q)
  IN /\ bundle' = [bundle EXCEPT ![q.w][q.v] = meta]
     /\ reg' = [reg EXCEPT ![q.w] = [@ EXCEPT
          !.versions = @ \cup {q.v}, !.visible = TRUE,
          !.doStorageId = IF @ = 0 THEN meta.doStorageId ELSE @,
          !.workflowKey = IF meta.workflowKey # 0 THEN meta.workflowKey ELSE @]]
     /\ referrers' = AddReferrer(q.w, q.v, q.pins)
     /\ dbs' = AddD1Referrer(q.w, q.v, q.body.d1)

DeployAbort(r) ==
  LET q == req[r]
  IN /\ Becomes(r, Idle)
     /\ IF q.body.assets THEN ScheduleCleanup({[w |-> q.w, token |-> q.v]})
        ELSE UNCHANGED intents

\* Any error of the commit aborts the deploy, the loss of the EXEC's reply
\* included.
DeployCommit(r) ==
  /\ At(r, "commit")
  /\ \/ /\ CommitAllowed(req[r]) /\ StageDeployCommit(req[r])
        /\ Becomes(r, Idle) /\ UNCHANGED intents
     \/ /\ workload.lossy /\ CommitAllowed(req[r]) /\ StageDeployCommit(req[r])
        /\ DeployAbort(r)
     \/ DeployAbort(r) /\ UNCHANGED <<reg, bundle, referrers, dbs>>
  /\ UNCHANGED <<cpCase, nsSecrets, routeVars, hostVars>>

-----------------------------------------------------------------------------
(* Promote: make a version active and move every projection to it. *)

OldRoutes(w) == IF reg[w].active = 0 THEN {} ELSE ActiveMeta(w).routes
OldQueues(w) == IF reg[w].active = 0 THEN {} ELSE ActiveMeta(w).queues
HeldBy(s, w) == patterns[s] # None /\ patterns[s].worker = w
HeldIn(pats, h, n) == \E s \in Slots :
  s.host = h /\ pats[s] # None /\ NsOf[pats[s].worker] = n

HostsAreDeclared(w, meta) == \A s \in meta.routes : s.host \in hosts[NsOf[w]]
QueuesAvailable(w, meta) == \A q \in meta.queues :
  queue[<<NsOf[w], q>>] \in {None} \cup
    {[worker |-> w, version |-> v] : v \in Versions}

\* A check of the slot that forgets the other slots of the host.
NoRouteConflict_SlotOnly(w, meta) ==
  \A s \in meta.routes : patterns[s] = None \/ HeldBy(s, w)

\* A host belongs to one namespace, a slot to one Worker.
NoRouteConflict(w, meta) ==
  \A s \in meta.routes :
    /\ \A n \in Namespaces \ {NsOf[w]} : ~HeldIn(patterns, s.host, n)
    /\ patterns[s] = None \/ HeldBy(s, w)

\* An exported "as" name is unique over the active Workers of every
\* platform namespace.
PlatformAsAvailable(w, meta) ==
  NsOf[w] \in PlatformNs => \A t \in Workers \ {w} :
    NsOf[t] \in PlatformNs /\ reg[t].active # 0
      => meta.as \cap ActiveMeta(t).as = {}

PolicyCoherent(w) == reg[w].policy # None =>
  /\ reg[w].policy.version = reg[w].active
  /\ reg[w].policy.seq = reg[w].policySeq

\* A restart allocates a new sequence, except for promoting once more the
\* version that already restarts.
PolicySeq(w, v, mode) ==
  IF mode = "restart" /\ ~(reg[w].policy # None /\ reg[w].policy.version = v
                             /\ reg[w].policy.mode = "restart")
  THEN reg[w].policySeq + 1 ELSE reg[w].policySeq

AddedCrons(w, crons) ==
  IF reg[w].cron = None THEN crons ELSE crons \ DOMAIN reg[w].cron.gens

\* Kept crons keep their generation; each added one takes the next number.
CronPlan(w, v, crons) ==
  LET added == AddedCrons(w, crons)
      Rank(c) == Cardinality({x \in added : x <= c})
  IN [seq |-> reg[w].cronSeq + Cardinality(added),
      cron |-> IF crons = {} THEN None ELSE [version |-> v, gens |-> [c \in crons |->
                 IF c \in added THEN reg[w].cronSeq + Rank(c) ELSE reg[w].cron.gens[c]]]]

\* stageVersionFlip with the removal of the old version's other slots.
FlipPatterns(w, v, old, routes) ==
  [s \in Slots |-> IF s \in routes THEN [worker |-> w, version |-> v]
                   ELSE IF s \in old THEN None ELSE patterns[s]]

\* computeNsHostDeltas over the affected hosts.
NsHostsAfter(w, affected, pats) ==
  LET n == NsOf[w] IN
  [nsHosts EXCEPT ![n] = (@ \ affected) \cup {h \in affected : HeldIn(pats, h, n)}]

FlipQueues(w, v, old, qs) ==
  [k \in QueueKeys |->
     IF k[1] # NsOf[w] THEN queue[k]
     ELSE IF k[2] \in qs THEN [worker |-> w, version |-> v]
     ELSE IF k[2] \in old THEN None ELSE queue[k]]

\* What both activation paths write about the Worker itself.
Activated(w, v, meta, cron, cronSeq) ==
  LET seq == PolicySeq(w, v, meta.policy) IN
  [reg[w] EXCEPT !.active = v, !.platformOff = ~meta.workersDev,
     !.policySeq = seq, !.policy = [version |-> v, mode |-> meta.policy, seq |-> seq],
     !.cron = cron, !.cronSeq = cronSeq]

\* readPromoteInitialSnapshot: no delete in progress, a bundle that exists,
\* and the gates of the deploy once more.
PromoteInputs(w, v) ==
  /\ reg[w].lock = None /\ Present(w, v)
  /\ Routable(bundle[w][v])
  /\ NsOf[w] \in PlatformNs => bundle[w][v].routes = {}

\* readAndAssertPromoteState
PromoteAllowed(w, meta) ==
  /\ DependenciesPresent(meta) /\ QueuesAvailable(w, meta)
  /\ HostsAreDeclared(w, meta) /\ NoRouteConflict(w, meta)
  /\ PlatformAsAvailable(w, meta)

PromotePlan(w, v) ==
  LET meta == bundle[w][v] IN
  [cron |-> CronPlan(w, v, meta.crons), policySeq |-> PolicySeq(w, v, meta.policy),
   hosts |-> {s.host : s \in OldRoutes(w) \cup meta.routes}]

StagePromote(w, v, plan) ==
  LET meta == bundle[w][v] IN
  /\ patterns' = FlipPatterns(w, v, OldRoutes(w), meta.routes)
  /\ nsHosts' = NsHostsAfter(w, plan.hosts, patterns')
  /\ queue' = FlipQueues(w, v, OldQueues(w), meta.queues)
  /\ dbs' = AddD1Referrer(w, v, meta.d1)
  /\ reg' = [reg EXCEPT ![w] = Activated(w, v, meta, plan.cron.cron, plan.cron.seq)]
  /\ namespaces' = namespaces \cup {NsOf[w]}

Promote(w, v) ==
  /\ Asks(w, "promote") /\ PromoteInputs(w, v) /\ PromoteAllowed(w, bundle[w][v])
  /\ PolicyCoherent(w)
  /\ LET plan == PromotePlan(w, v) IN
     /\ plan.cron.seq <= MaxSequence /\ plan.policySeq <= MaxSequence
     /\ StagePromote(w, v, plan)
  /\ UNCHANGED <<cpCase, nsSecrets, bundle, referrers, hostVars, intents, req>>

-----------------------------------------------------------------------------
(* Secrets: a change to an active Worker's secret copies its bundle to a   *)
(* new version and activates that; without an active version the secret is *)
(* written alone.                                                          *)

SecretBegin(r, w) ==
  /\ Asks(w, "secret") /\ At(r, "idle")
  /\ \E key \in workload.keys, put \in BOOLEAN :
       /\ put \/ (reg[w].lock = None /\ key \in reg[w].secrets)
       /\ Becomes(r, [pc |-> "secret", w |-> w, key |-> key, put |-> put])
  /\ UNCHANGED <<cpCase, nsSecrets, reg, bundle, referrers, routeVars, hostVars, dbs, intents>>

\* The unwatched look at the route that decides whether a version is burnt.
SecretAttempt(r) ==
  /\ At(r, "secret")
  /\ LET q == req[r] IN
     \/ /\ reg[q.w].active = 0
        /\ Becomes(r, [q EXCEPT !.pc = "plain"]) /\ UNCHANGED reg
     \/ /\ reg[q.w].active # 0 /\ reg[q.w].next < workload.cap[q.w]
        /\ reg' = [reg EXCEPT ![q.w].next = @ + 1]
        /\ Becomes(r, [pc |-> "bump", w |-> q.w, key |-> q.key, put |-> q.put,
                       v |-> reg[q.w].next + 1])
  /\ UNCHANGED <<cpCase, nsSecrets, bundle, referrers, routeVars, hostVars, dbs, intents>>

\* decryptMutatedSecretHashForBudget: the hash as it will be.
Mutated(keys, key, put) == IF put THEN keys \cup {key} ELSE keys \ {key}
SecretsAfter(q) == Mutated(reg[q.w].secrets, q.key, q.put)

\* assertWorkersVersionsUserEnvBudget: every retained version of the Worker,
\* or the secrets alone when it has none.
VersionsFit(w, ns, own) ==
  IF Retained(w) = {} THEN EnvFits({}, ns, own)
  ELSE \A v \in Retained(w) : EnvFits(bundle[w][v].vars, ns, own)

\* stageWorkerSecretForBump under the bump's WATCH.
SecretStageable(q) ==
  /\ q.put \/ q.key \in reg[q.w].secrets
  /\ VersionsFit(q.w, nsSecrets[NsOf[q.w]], SecretsAfter(q))

BumpAllowed(q) ==
  LET meta == ActiveMeta(q.w) IN
  /\ reg[q.w].lock = None /\ PolicySeq(q.w, q.v, meta.policy) <= MaxSequence
  /\ Routable(meta) /\ HostsAreDeclared(q.w, meta)
  /\ DependenciesPresent(meta) /\ PolicyCoherent(q.w) /\ SecretStageable(q)

\* stageCronProjectionMeta: same crons, new version.
MovedCron(w, v) ==
  IF reg[w].cron = None THEN None ELSE [reg[w].cron EXCEPT !.version = v]

\* The copy of the active bundle, its references, and the flip to it, all in
\* one transaction with the secret.
StageBump(q) ==
  LET w == q.w
      meta == ActiveMeta(w)
  IN /\ bundle' = [bundle EXCEPT ![w][q.v] = meta]
     /\ reg' = [reg EXCEPT ![w] =
          [Activated(w, q.v, meta, MovedCron(w, q.v), reg[w].cronSeq) EXCEPT
             !.versions = @ \cup {q.v}, !.visible = TRUE, !.secrets = SecretsAfter(q)]]
     /\ referrers' = AddReferrer(w, q.v, meta.pins)
     /\ dbs' = AddD1Referrer(w, q.v, meta.d1)
     /\ patterns' = FlipPatterns(w, q.v, {}, meta.routes)
     /\ queue' = FlipQueues(w, q.v, {}, meta.queues)
     /\ namespaces' = namespaces \cup {NsOf[w]}

\* bumpActiveAndPromote: refused, overtaken by a delete (then the secret is
\* written plainly), or committed.
BumpCommit(r) ==
  /\ At(r, "bump")
  /\ LET q == req[r] IN
     \/ /\ reg[q.w].active # 0 /\ BumpAllowed(q) /\ StageBump(q) /\ Becomes(r, Idle)
        /\ UNCHANGED nsHosts
     \/ /\ reg[q.w].active = 0 /\ reg[q.w].lock = None
        /\ Becomes(r, [pc |-> "plain", w |-> q.w, key |-> q.key, put |-> q.put])
        /\ UNCHANGED <<reg, bundle, referrers, dbs, routeVars>>
     \/ /\ Becomes(r, Idle)
        /\ UNCHANGED <<reg, bundle, referrers, dbs, routeVars>>
  /\ UNCHANGED <<cpCase, nsSecrets, hostVars, intents>>

\* The Worker leaves the index with its last secret when nothing else of it
\* remains.
VisibleWithout(w, secrets) ==
  reg[w].visible /\ ~(secrets = {} /\ Retained(w) = {} /\ reg[w].workflowKey = 0)

\* mutateSecretWithoutActive: back to the bump when a version got active.
SecretCommit(r) ==
  /\ At(r, "plain")
  /\ LET q == req[r]
         w == q.w
     IN \/ /\ reg[w].lock = None /\ reg[w].active # 0
           /\ Becomes(r, [q EXCEPT !.pc = "secret"]) /\ UNCHANGED reg
        \/ /\ reg[w].lock = None /\ reg[w].active = 0 /\ SecretStageable(q)
           /\ reg' = [reg EXCEPT ![w].secrets = SecretsAfter(q),
                        ![w].visible = q.put \/ VisibleWithout(w, SecretsAfter(q))]
           /\ Becomes(r, Idle)
        \/ Becomes(r, Idle) /\ UNCHANGED reg
  /\ UNCHANGED <<cpCase, nsSecrets, bundle, referrers, routeVars, hostVars, dbs, intents>>

-----------------------------------------------------------------------------
(* Namespace secrets. *)

\* validateNamespaceSecretBudget over the indexed and the active Workers.
NamespaceFits(n, keys) ==
  LET ws == {w \in Workers : NsOf[w] = n /\ (reg[w].visible \/ reg[w].active # 0)} IN
  IF ws = {} THEN EnvFits({}, keys, {})
  ELSE \A w \in ws : VersionsFit(w, keys, reg[w].secrets)

\* mutateNamespaceSecret is one transaction: the WATCH on the Workers' index
\* and on the versions and secrets of each Worker precedes every read.
NsSecret(n, key, put) ==
  /\ n \in workload.secretNs /\ put # (key \in nsSecrets[n])
  /\ NamespaceFits(n, Mutated(nsSecrets[n], key, put))
  /\ nsSecrets' = [nsSecrets EXCEPT ![n] = Mutated(@, key, put)]
  /\ UNCHANGED <<cpCase, reg, bundle, referrers, routeVars, hostVars, dbs, intents, req>>

-----------------------------------------------------------------------------
(* Deletes, of a version and of a whole Worker, under the delete lock. *)

\* acquireDeleteLock is SET NX with a token, here the request's name.
AcquireDeleteLock(r, w) ==
  reg[w].lock = None /\ reg' = [reg EXCEPT ![w].lock = r]

\* Compare and delete.
ReleaseDeleteLock(r, w) ==
  reg' = IF reg[w].lock = r THEN [reg EXCEPT ![w].lock = None] ELSE reg

DeleteBegin(r, w) ==
  /\ Asks(w, "delete") /\ At(r, "idle") /\ AcquireDeleteLock(r, w)
  /\ Becomes(r, [pc |-> "collect", w |-> w])
  /\ UNCHANGED <<cpCase, nsSecrets, bundle, referrers, routeVars, hostVars, dbs, intents>>

VersionDeleteBegin(r, w) ==
  /\ Asks(w, "delete") /\ At(r, "idle") /\ AcquireDeleteLock(r, w)
  /\ \E v \in 1..workload.cap[w] : Becomes(r, [pc |-> "dropVersion", w |-> w, v |-> v])
  /\ UNCHANGED <<cpCase, nsSecrets, bundle, referrers, routeVars, hostVars, dbs, intents>>

\* DELETE_LOCK_TTL_SECONDS elapse without a renewal.
LockExpire(w) ==
  /\ reg[w].lock # None
  /\ reg' = [reg EXCEPT ![w].lock = None]
  /\ UNCHANGED <<cpCase, nsSecrets, bundle, referrers, routeVars, hostVars, dbs, intents, req>>

Crash(r) ==
  /\ ~At(r, "idle") /\ Becomes(r, Idle)
  /\ UNCHANGED <<cpCase, nsSecrets, reg, bundle, referrers, routeVars, hostVars, dbs, intents>>

\* renewDeleteLock, and the compare of the token under the final WATCH.
HoldsLock(r) == reg[req[r].w].lock = r

\* recordCleanupIntentOrWarn and the compare-and-delete of the lock.
DeleteFinish(r) ==
  /\ At(r, "finish")
  /\ ScheduleCleanup(req[r].prefixes)
  /\ ReleaseDeleteLock(r, req[r].w)
  /\ Becomes(r, Idle)
  /\ UNCHANGED <<cpCase, nsSecrets, bundle, referrers, routeVars, hostVars, dbs>>

Refused(r) ==
  /\ Becomes(r, [pc |-> "finish", w |-> req[r].w, prefixes |-> {}])
  /\ UNCHANGED <<reg, bundle, referrers, routeVars, dbs>>

AssetPrefixes(w, vs) ==
  {[w |-> w, token |-> bundle[w][v].assets] : v \in {x \in vs : bundle[w][x].assets # 0}}

\* A prefix that a retained sibling shares, after a secret bump, stays.
OwnPrefixes(w, v) == AssetPrefixes(w, {v}) \ AssetPrefixes(w, Retained(w) \ {v})

VersionDeletable(w, v) ==
  reg[w].active # v /\ v \in Retained(w) /\ referrers[w][v] = {}

VersionGone(w, v) ==
  [reg[w] EXCEPT !.versions = @ \ {v},
     !.visible = @ /\ ~(reg[w].versions = {v} /\ reg[w].active = 0
                         /\ reg[w].secrets = {} /\ reg[w].workflowKey = 0)]

\* executeVersionDelete; the Workflows service may also veto it.
VersionDelete(r) ==
  /\ At(r, "dropVersion")
  /\ LET w == req[r].w
         v == req[r].v
     IN \/ /\ HoldsLock(r) /\ VersionDeletable(w, v)
           /\ bundle' = [bundle EXCEPT ![w][v] = None]
           /\ reg' = [reg EXCEPT ![w] = VersionGone(w, v)]
           /\ referrers' = DropReferrers(w, {v})
           /\ dbs' = DropD1Referrers(w, {v})
           /\ Becomes(r, [pc |-> "finish", w |-> w, prefixes |-> OwnPrefixes(w, v)])
           /\ UNCHANGED routeVars
        \/ Refused(r)
  /\ UNCHANGED <<cpCase, nsSecrets, hostVars, intents>>

QueueKeysOf(w) == {k \in QueueKeys : k[1] = NsOf[w] /\ queue[k] # None
                                       /\ queue[k].worker = w}

\* The part of collectDeleteInputs that the EXEC compares again.
Snapshot(w) ==
  [versions |-> Retained(w), active |-> reg[w].active,
   secrets |-> reg[w].secrets # {}, defs |-> reg[w].workflowKey # 0,
   queues |-> QueueKeysOf(w)]

\* The drift guards of runSessionEXEC.
Undrifted(q) == Snapshot(q.w) = q.snap

\* buildReferrerBlockers
Unreferenced(w, vs) == \A v \in vs : referrers[w][v] = {}

\* findHostsLosingNsOwnership: no other Worker of the namespace has a slot.
HostsLosingNs(w) ==
  {h \in {s.host : s \in OldRoutes(w)} :
     \A s \in Slots \ OldRoutes(w) : s.host = h =>
       patterns[s] = None \/ NsOf[patterns[s].worker] # NsOf[w]}

HasLifecycle(snap) == snap.active # 0 \/ snap.versions # {} \/ snap.secrets \/ snap.defs

WholeCollect(r) ==
  /\ At(r, "collect")
  /\ LET w == req[r].w IN
     Becomes(r, [pc |-> "dropWorker", w |-> w, snap |-> Snapshot(w),
                 storage |-> reg[w].doStorageId])
  /\ UNCHANGED <<cpCase, nsSecrets, reg, bundle, referrers, routeVars, hostVars, dbs, intents>>

\* The cron sequence goes with the Worker.
WorkerGone_CronSeq(w) ==
  [NoWorker EXCEPT !.next = reg[w].next, !.lock = reg[w].lock,
     !.policySeq = reg[w].policySeq]

\* Permanent allocators survive: next_version, cron:seq, policy sequence.
WorkerGone(w) ==
  [NoWorker EXCEPT !.next = reg[w].next, !.lock = reg[w].lock,
     !.cronSeq = reg[w].cronSeq, !.policySeq = reg[w].policySeq]

StageWorkerDelete(r) ==
  LET q == req[r]
      w == q.w
      n == NsOf[w]
      vs == q.snap.versions
      old == OldRoutes(w)
  IN /\ patterns' = FlipPatterns(w, 0, old, {})
     /\ nsHosts' = [nsHosts EXCEPT ![n] = @ \ HostsLosingNs(w)]
     /\ namespaces' = IF \E t \in Workers \ {w} : NsOf[t] = n /\ reg[t].active # 0
                      THEN namespaces ELSE namespaces \ {n}
     /\ queue' = [k \in QueueKeys |-> IF k \in q.snap.queues THEN None ELSE queue[k]]
     /\ reg' = [reg EXCEPT ![w] = [WorkerGone(w) EXCEPT
                  !.doStorageId = IF q.storage # 0 THEN 0 ELSE reg[w].doStorageId]]
     /\ bundle' = [bundle EXCEPT ![w] = [v \in Versions |->
                     IF v \in vs THEN None ELSE bundle[w][v]]]
     /\ referrers' = DropReferrers(w, vs)
     /\ dbs' = DropD1Referrers(w, vs)
     /\ Becomes(r, [pc |-> "finish", w |-> w, prefixes |-> AssetPrefixes(w, vs)])

\* The DO storage pointer of a Worker that has nothing else left.
ResidualDelete(r) ==
  LET q == req[r] IN
  /\ ~HasLifecycle(q.snap) /\ ~HasLifecycle(Snapshot(q.w))
  /\ reg[q.w].doStorageId = q.storage
  /\ reg' = [reg EXCEPT ![q.w].doStorageId = 0, ![q.w].policy = None]
  /\ Becomes(r, [pc |-> "finish", w |-> q.w, prefixes |-> {}])
  /\ UNCHANGED <<bundle, referrers, routeVars, dbs>>

\* executeWholeDelete after the collection: residual cleanup, the delete,
\* another collection after drift, or a refusal.
WholeDelete(r) ==
  /\ At(r, "dropWorker")
  /\ LET q == req[r] IN
     \/ HoldsLock(r) /\ ResidualDelete(r)
     \/ /\ HoldsLock(r) /\ HasLifecycle(q.snap) /\ Undrifted(q)
        /\ Unreferenced(q.w, q.snap.versions) /\ StageWorkerDelete(r)
     \/ /\ HoldsLock(r) /\ ~Undrifted(q)
        /\ Becomes(r, [pc |-> "collect", w |-> q.w])
        /\ UNCHANGED <<reg, bundle, referrers, routeVars, dbs>>
     \/ Refused(r)
  /\ UNCHANGED <<cpCase, nsSecrets, hostVars, intents>>

-----------------------------------------------------------------------------
(* Declared hosts, the rebuild of their index, and D1 databases. *)

DeclareIn(n, body) ==
  LET by == [h \in Hosts |-> IF h \in body THEN declared.by[h] \cup {n}
                             ELSE declared.by[h] \ {n}]
      added == body \ hosts[n]
      dropped == {h \in hosts[n] \ body : by[h] = {}}
  IN [all |-> (declared.all \cup added) \ dropped, by |-> by]

\* A host in use by this namespace is not removed; other namespaces may
\* declare it too.
ReconcileHosts(n, body) ==
  /\ Wants("hosts") /\ body # hosts[n] /\ revision < MaxRevision
  /\ \A h \in hosts[n] \ body : h \in nsHosts[n] => ~HeldIn(patterns, h, n)
  /\ hosts' = [hosts EXCEPT ![n] = body]
  /\ declared' = DeclareIn(n, body)
  /\ revision' = revision + 1
  /\ UNCHANGED <<cpCase, nsSecrets, reg, bundle, referrers, routeVars, dbs, intents, req>>

\* A reload reads every hosts:<ns> under a WATCH of the revision alone.
RebuildScan(r) ==
  /\ Wants("reload") /\ At(r, "idle")
  /\ Becomes(r, [pc |-> "rebuild", revision |-> revision, hosts |-> hosts])
  /\ UNCHANGED <<cpCase, nsSecrets, reg, bundle, referrers, routeVars, hostVars, dbs, intents>>

RebuildCommit(r) ==
  /\ At(r, "rebuild")
  /\ \/ /\ revision = req[r].revision
        /\ LET by == [h \in Hosts |-> {n \in Namespaces : h \in req[r].hosts[n]}]
           IN declared' = [all |-> {h \in Hosts : by[h] # {}}, by |-> by]
     \/ revision # req[r].revision /\ UNCHANGED declared
  /\ Becomes(r, Idle)
  /\ UNCHANGED <<cpCase, nsSecrets, reg, bundle, referrers, routeVars, hosts, revision, dbs, intents>>

\* Creation and deletion of a database, detailed in D1Catalog.
CreateDb(d) ==
  /\ Wants("d1") /\ d \notin dbs.ready \cup dbs.gone
  /\ dbs' = [dbs EXCEPT !.ready = @ \cup {d}]
  /\ UNCHANGED <<cpCase, nsSecrets, reg, bundle, referrers, routeVars, hostVars, intents, req>>

DeleteDb(d) ==
  /\ Wants("d1") /\ d \in dbs.ready /\ dbs.refs[d] = {}
  /\ dbs' = [ready |-> dbs.ready \ {d}, gone |-> dbs.gone \cup {d},
             refs |-> [dbs.refs EXCEPT ![d] = {}]]
  /\ UNCHANGED <<cpCase, nsSecrets, reg, bundle, referrers, routeVars, hostVars, intents, req>>

-----------------------------------------------------------------------------
CpNext ==
  \/ \E r \in Requests, w \in Workers :
       DeployPreflight(r, w) \/ SecretBegin(r, w) \/ DeleteBegin(r, w) \/ VersionDeleteBegin(r, w)
  \/ \E r \in Requests :
       \/ DeployUpload(r) \/ DeployCommit(r)
       \/ SecretAttempt(r) \/ BumpCommit(r) \/ SecretCommit(r)
       \/ VersionDelete(r) \/ WholeCollect(r) \/ WholeDelete(r) \/ DeleteFinish(r)
       \/ RebuildScan(r) \/ RebuildCommit(r) \/ Crash(r)
  \/ \E w \in Workers : LockExpire(w) \/ \E v \in Versions : Promote(w, v)
  \/ \E list \in workload.hostLists : ReconcileHosts(list.ns, list.hosts)
  \/ \E n \in Namespaces, key \in workload.keys, put \in BOOLEAN : NsSecret(n, key, put)
  \/ \E d \in Dbs : CreateDb(d) \/ DeleteDb(d)

CpSpec == CpInit /\ [][CpNext]_cpVars


-----------------------------------------------------------------------------
(* Properties *)

\* Whatever deploys, promotes, bumps and deletes interleave, the route of a
\* Worker points at a version that is indexed and whose bundle exists, the
\* index lists exactly the bundles that exist, and no number above the
\* allocator was handed out (promoteWithRoutes, executeVersionDelete).
ActiveRetained ==
  \A w \in Workers :
    /\ reg[w].active # 0 => reg[w].active \in Retained(w)
    /\ Retained(w) = {v \in Versions : bundle[w][v] # None}
    /\ \A v \in Retained(w) : v <= reg[w].next

\* A retained bundle never points at a Worker version or a D1 database that
\* was deleted: the deploy's checks and the deletes' referrer checks meet
\* although each reads the other's state in another transaction.
NoDanglingTargets ==
  \A w \in Workers : \A v \in Retained(w) : DependenciesPresent(bundle[w][v])

\* A retained binding was granted by the very version it is pinned to: the
\* ACL read in the preflight cannot be swapped for another by a deletion and
\* re-creation of the target before the commit (linkServiceBinding).
PinsGranted ==
  \A w \in Workers : \A v \in Retained(w) : \A t \in DOMAIN bundle[w][v].pins :
    LET x == bundle[w][v].pins[t] IN Present(t, x) => AllowedBy(w, t, bundle[t][x])

\* The reverse indexes the deletes rely on hold exactly the retained callers
\* of each version and database (stageOutgoingReferrerAdds, stageD1ReferrerAdds).
ReferrersExact ==
  LET callers == UNION {{Caller(w, v) : v \in Retained(w)} : w \in Workers}
      Meta(c) == bundle[c.worker][c.version]
  IN /\ \A t \in Workers, x \in Versions :
          referrers[t][x] = {c \in callers :
            t \in DOMAIN Meta(c).pins /\ Meta(c).pins[t] = x}
     /\ \A d \in dbs.ready : dbs.refs[d] = {c \in callers : d \in Meta(c).d1}

\* The gateway's tables are exactly the routes of the active versions: no
\* slot of an old version or a deleted Worker survives, no host serves two
\* namespaces, and ns-hosts and the namespaces set agree with the slots.
RoutesExact ==
  /\ \A s \in Slots : patterns[s] # None =>
       patterns[s].version = reg[patterns[s].worker].active
  /\ \A w \in Workers : OldRoutes(w) = {s \in Slots : HeldBy(s, w)}
  /\ \A h \in Hosts : Cardinality({n \in Namespaces : HeldIn(patterns, h, n)}) <= 1
  /\ \A n \in Namespaces :
       /\ nsHosts[n] = {h \in Hosts : HeldIn(patterns, h, n)}
       /\ n \in namespaces <=> \E w \in Workers : NsOf[w] = n /\ reg[w].active # 0

\* Every host a namespace serves on is declared by it, and the declaration
\* indexes are the exact inverse of hosts:<ns>, also across a reload that
\* races a reconcile (reconcileHosts, rebuildDeclaredHostIndexes).
HostsDeclared ==
  /\ \A n \in Namespaces : nsHosts[n] \subseteq hosts[n]
  /\ \A h \in Hosts : declared.by[h] = {n \in Namespaces : h \in hosts[n]}
  /\ declared.all = {h \in Hosts : declared.by[h] # {}}

\* The cron, queue and session-policy projections name the active version,
\* list what it declares, and stand at their allocator's sequence.
ProjectionsFollowActive ==
  \A w \in Workers :
    IF reg[w].active = 0
    THEN reg[w].cron = None /\ reg[w].policy = None /\ QueueKeysOf(w) = {}
    ELSE LET meta == ActiveMeta(w) IN
         /\ meta.crons = IF reg[w].cron = None THEN {} ELSE DOMAIN reg[w].cron.gens
         /\ reg[w].cron # None => reg[w].cron.version = reg[w].active
         /\ QueueKeysOf(w) = {NsOf[w]} \X meta.queues
         /\ \A k \in QueueKeysOf(w) : queue[k].version = reg[w].active
         /\ reg[w].policy = [version |-> reg[w].active, mode |-> meta.policy,
                             seq |-> reg[w].policySeq]

\* No asset prefix that a retained version serves from is handed to the S3
\* cleanup: shared prefixes after a secret bump, aborted deploys and deletes.
AssetsKept ==
  \A w \in Workers : \A v \in Retained(w) :
    [w |-> w, token |-> bundle[w][v].assets] \notin intents

\* A Worker is listed in workers:<ns> exactly while something of it is left
\* that a whole delete would remove.
VisibleExact ==
  \A w \in Workers : reg[w].visible <=> HasLifecycle(Snapshot(w))

\* All retained versions of a Worker share the DO storage and the workflow
\* key that are recorded for it, so none is cut off from its state.
StorageCoherent ==
  \A w \in Workers : \A v \in Retained(w) :
    /\ bundle[w][v].doStorageId \in {0, reg[w].doStorageId}
    /\ bundle[w][v].workflowKey \in {0, reg[w].workflowKey}

\* One active platform Worker per exported "as" name (assertPlatformAsAvailable).
PlatformAsUnique ==
  \A w, t \in {u \in Workers : reg[u].active # 0 /\ NsOf[u] \in PlatformNs} :
    w # t => ActiveMeta(w).as \cap ActiveMeta(t).as = {}

\* Every retained version fits the loader's env budget with the secrets of
\* its Worker and namespace as they are: a deploy, a Worker secret and a
\* namespace secret that each fit alone cannot land together, and removing a
\* Worker's secret that hid a larger namespace secret is checked as well.
EnvWithinBudget ==
  \A w \in Workers : \A v \in Retained(w) :
    EnvFits(bundle[w][v].vars, nsSecrets[NsOf[w]], reg[w].secrets)

\* A committed bundle never changes, version numbers, cron generations and
\* restart sequences only rise and are never handed out twice, deletion and
\* re-creation of the Worker included (stageWorkerDelete keeps allocators).
AllocatorsRise ==
  [][\A w \in Workers :
       /\ reg'[w].next >= reg[w].next
       /\ reg'[w].cronSeq >= reg[w].cronSeq /\ reg'[w].policySeq >= reg[w].policySeq
       /\ \A v \in Versions : bundle[w][v] # None => bundle'[w][v] \in {None, bundle[w][v]}
       /\ reg'[w].cron # None => \A c \in DOMAIN reg'[w].cron.gens :
            \/ reg'[w].cron.gens[c] > reg[w].cronSeq
            \/ reg[w].cron # None /\ c \in DOMAIN reg[w].cron.gens
                 /\ reg[w].cron.gens[c] = reg'[w].cron.gens[c]]_cpVars

\* A new policy version that restarts sessions is announced under a new
\* sequence, and nothing else moves the sequence (computeSessionPolicyPlan).
RestartsAreNew ==
  [][\A w \in Workers : reg'[w].active # 0 /\ reg'[w].active # reg[w].active =>
       (reg'[w].policySeq > reg[w].policySeq <=> reg'[w].policy.mode = "restart")]_cpVars

\* Whatever deploys, promotes, secret changes and deletes interleave, every
\* retained version can be loaded: it is indexed, what it binds is there and was
\* granted, its assets are kept, it shares its Worker's storage and it fits the
\* loader's env budget (commit of deploy.js, the preflights of delete.js).
RetainedLoads ==
  /\ ActiveRetained
  /\ NoDanglingTargets
  /\ PinsGranted
  /\ AssetsKept
  /\ StorageCoherent
  /\ EnvWithinBudget

\* What the services read beside the bundles is what the active and retained
\* versions say: referrers, routes, hosts, cron, queue and policy projections,
\* the list of Workers and the exported names (stageFlip, stageWorkerDelete).
IndexesExact ==
  /\ ReferrersExact
  /\ RoutesExact
  /\ HostsDeclared
  /\ ProjectionsFollowActive
  /\ VisibleExact
  /\ PlatformAsUnique

\* Numbers that other services compare are never handed out twice and never go
\* back, and a restart is announced under a new one (reserveVersion,
\* computeSessionPolicyPlan, stageWorkerDelete).
SequencesFresh ==
  /\ AllocatorsRise
  /\ RestartsAreNew

=============================================================================
