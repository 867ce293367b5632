---------------------------- MODULE ControlAccess ----------------------------
(***************************************************************************)
(* One control request from its URL to the operation that runs.            *)
(*                                                                         *)
(* The control worker classifies (path, method) into an action             *)
(* (parseControlRoute), has AUTH verify the token for that action and      *)
(* namespace, checks the principal it gets back, and then dispatches on    *)
(* the route, not on the action: every handler looks at the method and at  *)
(* the rest of the path again.  So three tables written in three places    *)
(* have to agree: the classifier, the role table and the handlers.         *)
(*                                                                         *)
(* A path is the sequence that split("/") gives, empty segments included.  *)
(* An operation is named by the action it needs.  Token storage is         *)
(* AuthTokens; here a token is its stored record.                          *)
(***************************************************************************)
EXTENDS Naturals, Sequences

CONSTANTS CaPaths,    \* the paths requested, as split sequences
          CaMethods,  \* the HTTP methods used
          CaTenants   \* valid tenant namespaces

VARIABLES caTok,   \* the token record presented
          caReq,   \* the request: path and method
          caOut    \* the answer and the operation that ran

caVars == <<caTok, caReq, caOut>>

Absent == "absent"      \* undefined / no such key
CaRefused == "refused"    \* no operation ran

RESERVED_NS == {"__system__", "__platform__", "__community__"}
PLATFORM_TIER_RESERVED_NS == {"__platform__"}
RESERVED_TENANT_NS == {"admin"}
-----------------------------------------------------------------------------
(* Roles and actions *)

TenantActions ==
  {"worker.deploy", "worker.promote", "worker.delete", "worker.versions.read",
   "worker.versions.delete", "worker.list", "worker.logs.tail", "workflow.list",
   "workflow.read", "workflow.write", "secret.read", "secret.write", "secret.delete",
   "d1.list", "d1.create", "d1.delete", "d1.migrate.read", "d1.migrate.write",
   "d1.execute", "r2.bucket.list", "r2.object.list", "r2.object.head", "r2.object.get",
   "r2.object.delete", "ai.provider.read", "ai.provider.write", "ai.model.list"}

AuthLifecycle == {"auth.token.issue", "auth.token.revoke", "auth.token.list"}
SystemActions == {"system.reload"}

KNOWN_ACTIONS ==
  TenantActions \cup AuthLifecycle \cup SystemActions
    \cup {"diagnostic.whoami", "host.read", "host.write", "auth.delegated_token.issue"}

ObserverActions ==
  {"worker.list", "worker.versions.read", "workflow.list", "d1.list", "d1.migrate.read",
   "r2.bucket.list", "r2.object.list", "ai.provider.read", "ai.model.list"}

ROLES ==
  [k \in {"ops", "ops-observer", "platform", "platform-observer", "ns", "token-issuer"} |->
    CASE k = "ops" -> [actions |-> {"*"}, namespaces |-> "*", bound |-> "none"]
      [] k = "ops-observer" ->
           [actions |-> ObserverActions \cup {"host.read"}, namespaces |-> "*", bound |-> "none"]
      [] k = "platform" ->
           [actions |-> TenantActions, namespaces |-> "$bound", bound |-> "platform-tier"]
      [] k = "platform-observer" ->
           [actions |-> ObserverActions \cup {"worker.logs.tail", "secret.read"},
            namespaces |-> "$bound", bound |-> "platform-tier"]
      [] k = "ns" ->
           [actions |-> TenantActions \cup {"host.read"},
            namespaces |-> "$bound", bound |-> "tenant"]
      [] k = "token-issuer" ->
           [actions |-> {"auth.delegated_token.issue"}, namespaces |-> "*", bound |-> "none"]]

\* The "<prefix>.*" pattern exists in the matcher but no role uses it.
MatchesAction(patterns, action) == "*" \in patterns \/ action \in patterns

IsValidTenantNs(ns) == ns \in CaTenants

\* Does ns fit what the role binds to?  (the switch on boundNsKind)
BoundNsFits(kind, ns) ==
  CASE ROLES[kind].bound = "tenant" -> IsValidTenantNs(ns)
    [] ROLES[kind].bound = "platform-tier" -> ns \in PLATFORM_TIER_RESERVED_NS
    [] ROLES[kind].bound = "none" -> ns = Absent
-----------------------------------------------------------------------------
(* AUTH: issue and verify *)

\* The kind and ns issue() stores, or a refusal.
ValidateIssueInput(kind, ns) ==
  LET effective == IF kind = Absent THEN "ns" ELSE kind
  IN  IF effective # "ops" /\ effective \in DOMAIN ROLES /\ BoundNsFits(effective, ns)
        THEN [kind |-> effective, ns |-> ns]
        ELSE [kind |-> CaRefused, ns |-> Absent]

ValidateRecordShape(tok) == tok.kind \in DOMAIN ROLES /\ BoundNsFits(tok.kind, tok.ns)

\* The red lines in their order, then the role's namespaces and actions.
EvaluateAccess(action, ns, kind, principalNs) ==
  LET ops == kind = "ops"
      only(reason) == IF ops THEN "ok" ELSE reason
      nsOk == \/ ROLES[kind].namespaces = "*"
              \/ /\ ns # Absent
                 /\ ns = principalNs
  IN  IF kind \notin DOMAIN ROLES THEN "unknown_role"
      ELSE IF ns \in RESERVED_NS \ PLATFORM_TIER_RESERVED_NS /\ kind # "ops-observer"
      THEN only("reserved_ns_requires_ops")
      ELSE IF ns \in RESERVED_TENANT_NS THEN only("reserved_tenant_ns_requires_ops")
      ELSE IF action \notin KNOWN_ACTIONS THEN only("unknown_action_requires_ops")
      ELSE IF action = "diagnostic.whoami" THEN "ok"
      ELSE IF action \in AuthLifecycle THEN only("auth_lifecycle_requires_ops")
      ELSE IF action \in SystemActions THEN only("system_action_requires_ops")
      ELSE IF ~nsOk THEN "ns_not_in_scope"
      ELSE IF ~MatchesAction(ROLES[kind].actions, action) THEN "action_not_in_scope"
      ELSE "ok"

\* None-bound principals have no ns key at all.
PrincipalOf(tok) ==
  [kind |-> tok.kind, ns |-> tok.ns, hasNs |-> ROLES[tok.kind].bound # "none"]

\* verify() for a live token: status and principal.
Verify(tok, action, ns) ==
  LET no(s) == [status |-> s, principal |-> [kind |-> Absent, ns |-> Absent, hasNs |-> FALSE]]
      decision == EvaluateAccess(action, ns, tok.kind, tok.ns)
  IN  IF ~ValidateRecordShape(tok) THEN no(503)
      ELSE IF decision # "ok" THEN no(IF decision = "unknown_role" THEN 503 ELSE 403)
      ELSE [status |-> 200, principal |-> PrincipalOf(tok)]
-----------------------------------------------------------------------------
(* parseControlRoute: path and method to kind, action and parameters *)

Segs(p) == SelectSeq(p, LAMBDA x : x # "")
From(s, i) == SubSeq(s, i, Len(s))

NoRoute == [kind |-> Absent, action |-> Absent, ns |-> Absent, verb |-> Absent, sub |-> <<>>]
RouteOf(kind, ns, sub) == [NoRoute EXCEPT !.kind = kind, !.ns = ns, !.sub = sub]

\* The action of the first row <<condition, action>> that holds, if any.
WithAction(route, rows) ==
  LET hits == SelectSeq(rows, LAMBDA r : r[1])
  IN  IF hits = <<>> THEN route ELSE [route EXCEPT !.action = hits[1][2]]

RouteReload(m) == WithAction(RouteOf("reload", Absent, <<>>), <<<<m = "POST", "system.reload">>>>)

RouteWhoami(m) ==
  WithAction(RouteOf("whoami", Absent, <<>>), <<<<m = "GET", "diagnostic.whoami">>>>)

RouteAuthTokens(s, m) ==
  WithAction(RouteOf("authTokens", Absent, From(s, 3)),
             << <<Len(s) = 2 /\ m = "POST", "auth.token.issue">>,
                <<Len(s) = 2 /\ m = "GET", "auth.token.list">>,
                <<Len(s) = 3 /\ m = "DELETE", "auth.token.revoke">> >>)

RouteDelegated(m) ==
  WithAction(RouteOf("authDelegatedTokens", Absent, <<>>),
             << <<m = "POST", "auth.delegated_token.issue">> >>)

RouteWorkers(s, m) ==
  WithAction(RouteOf("workers", s[2], <<>>), << <<m = "GET", "worker.list">> >>)

RouteWorkflows(s, m) ==
  WithAction(RouteOf("workflows", s[2], From(s, 4)),
             << <<Len(s) = 3 /\ m = "GET", "workflow.list">>,
                <<Len(s) \in {6, 7} /\ s[6] = "instances" /\ m = "GET", "workflow.read">>,
                <<Len(s) = 8 /\ s[6] = "instances" /\ m = "POST"
                    /\ s[8] \in {"pause", "resume", "restart", "terminate"}, "workflow.write">> >>)

RouteNsSecrets(s, m) ==
  IF Len(s) > 4 THEN NoRoute
  ELSE WithAction(RouteOf("nsSecrets", s[2], From(s, 4)),
                  << <<Len(s) = 3 /\ m = "GET", "secret.read">>,
                     <<Len(s) = 4 /\ m = "PUT", "secret.write">>,
                     <<Len(s) = 4 /\ m = "DELETE", "secret.delete">> >>)

RouteHosts(s, m) ==
  WithAction(RouteOf("hosts", s[2], <<>>),
             << <<m = "GET", "host.read">>, <<m = "POST", "host.write">> >>)

RouteLogsTail(s, m) ==
  WithAction(RouteOf("logsTail", s[2], <<>>), << <<m = "GET", "worker.logs.tail">> >>)

\* Bug: every POST below migrations counts as the read-only status call.
RouteD1_PostIsStatus(s, m) ==
  WithAction(RouteOf("d1", s[2], From(s, 4)),
             << <<Len(s) = 7 /\ s[6] = "migrations" /\ m = "POST", "d1.migrate.read">> >>)

RouteD1(s, m) ==
  LET under == Len(s) >= 4 /\ s[4] = "databases"
  IN  WithAction(RouteOf("d1", s[2], From(s, 4)),
        << <<under /\ Len(s) = 4 /\ m = "GET", "d1.list">>,
           <<under /\ Len(s) = 4 /\ m = "POST", "d1.create">>,
           <<under /\ Len(s) = 5 /\ m = "DELETE", "d1.delete">>,
           <<under /\ Len(s) = 6 /\ s[6] = "query" /\ m = "POST", "d1.execute">>,
           <<under /\ Len(s) = 6 /\ s[6] = "migrations" /\ m = "GET", "d1.migrate.read">>,
           <<under /\ Len(s) = 7 /\ s[6] = "migrations" /\ m = "POST" /\ s[7] = "status",
             "d1.migrate.read">>,
           <<under /\ Len(s) = 7 /\ s[6] = "migrations" /\ m = "POST" /\ s[7] = "apply",
             "d1.migrate.write">> >>)

\* R2 keeps the empty segments of the raw path: object keys may hold them.
ParseR2DispatchPath(p) ==
  IF Len(p) >= 4 /\ p[1] = "" /\ p[2] = "ns" /\ p[3] # "" /\ p[4] = "r2"
    THEN RouteOf("r2", p[3], From(p, 5)) ELSE NoRoute

\* A raw path the R2 grammar refuses still gets its action, without a route.
RouteR2(p, s, m) ==
  LET route == ParseR2DispatchPath(p)
      sub == route.sub
      objects == Len(sub) >= 3 /\ sub[1] = "buckets" /\ sub[2] # "" /\ sub[3] = "objects"
  IN  WithAction(route,
        << <<Len(s) = 4 /\ s[4] = "buckets" /\ m = "GET", "r2.bucket.list">>,
           <<objects /\ Len(sub) > 3 /\ m = "HEAD", "r2.object.head">>,
           <<objects /\ Len(sub) > 3 /\ m = "GET", "r2.object.get">>,
           <<objects /\ Len(sub) = 3 /\ m = "GET", "r2.object.list">>,
           <<objects /\ Len(sub) > 3 /\ m = "DELETE", "r2.object.delete">> >>)

RouteAi(s, m) ==
  LET providers == Len(s) >= 4 /\ s[4] = "providers"
  IN  WithAction(RouteOf("ai", s[2], From(s, 4)),
        << <<providers /\ Len(s) \in {4, 5} /\ m = "GET", "ai.provider.read">>,
           <<providers /\ Len(s) = 5 /\ m \in {"PUT", "DELETE"}, "ai.provider.write">>,
           <<providers /\ Len(s) = 6 /\ s[6] = "credential" /\ m = "PUT", "ai.provider.write">>,
           <<Len(s) = 4 /\ s[4] = "models" /\ m = "GET", "ai.model.list">> >>)

RouteWorker(s, m) ==
  IF Len(s) < 5 THEN NoRoute
  ELSE WithAction([RouteOf("worker", s[2], From(s, 6)) EXCEPT !.verb = s[5]],
        << <<Len(s) = 5 /\ s[5] = "deploy" /\ m = "POST", "worker.deploy">>,
           <<Len(s) = 5 /\ s[5] = "promote" /\ m = "POST", "worker.promote">>,
           <<Len(s) = 5 /\ s[5] = "delete" /\ m = "POST", "worker.delete">>,
           <<Len(s) = 5 /\ s[5] = "versions" /\ m = "GET", "worker.versions.read">>,
           <<Len(s) = 5 /\ s[5] = "secrets" /\ m = "GET", "secret.read">>,
           <<Len(s) = 6 /\ s[5] = "versions" /\ m = "DELETE", "worker.versions.delete">>,
           <<Len(s) = 6 /\ s[5] = "secrets" /\ m = "PUT", "secret.write">>,
           <<Len(s) = 6 /\ s[5] = "secrets" /\ m = "DELETE", "secret.delete">> >>)

RouteNamespace(p, s, m) ==
  IF Len(s) < 3 THEN NoRoute
  ELSE
  CASE Len(s) = 3 /\ s[3] = "workers" -> RouteWorkers(s, m)
    [] s[3] = "workflows" -> RouteWorkflows(s, m)
    [] s[3] = "secrets" -> RouteNsSecrets(s, m)
    [] Len(s) = 3 /\ s[3] = "hosts" -> RouteHosts(s, m)
    [] Len(s) = 4 /\ s[3] = "logs" /\ s[4] = "tail" -> RouteLogsTail(s, m)
    [] s[3] = "d1" -> RouteD1(s, m)
    [] s[3] = "r2" -> RouteR2(p, s, m)
    [] s[3] = "ai" -> RouteAi(s, m)
    [] s[3] = "worker" -> RouteWorker(s, m)
    [] OTHER -> NoRoute

ParseControlRoute(p, m) ==
  LET s == Segs(p)
  IN  CASE p = <<"", "reload">> -> RouteReload(m)
        [] p = <<"", "whoami">> -> RouteWhoami(m)
        [] Len(s) \in {2, 3} /\ s[1] = "auth" /\ s[2] = "tokens" -> RouteAuthTokens(s, m)
        [] s = <<"auth", "delegated-tokens">> -> RouteDelegated(m)
        [] Len(s) >= 2 /\ s[1] = "ns" -> RouteNamespace(p, s, m)
        [] OTHER -> NoRoute
-----------------------------------------------------------------------------
(* The handlers' own dispatch: which operation runs *)

CaFirstOf(rows) ==
  LET hits == SelectSeq(rows, LAMBDA r : r[1])
  IN  IF hits = <<>> THEN CaRefused ELSE hits[1][2]

HandleAuthTokens(sub, m) ==
  CaFirstOf(<< <<m = "POST" /\ sub = <<>>, "auth.token.issue">>,
             <<m = "GET" /\ sub = <<>>, "auth.token.list">>,
             <<m = "DELETE" /\ sub # <<>>, "auth.token.revoke">> >>)

HandleDelegated(m) == IF m = "POST" THEN "auth.delegated_token.issue" ELSE CaRefused

HandleNsSecrets(sub, m) ==
  CaFirstOf(<< <<m = "GET" /\ sub = <<>>, "secret.read">>,
             <<m = "PUT" /\ sub # <<>>, "secret.write">>,
             <<m = "DELETE" /\ sub # <<>>, "secret.delete">> >>)

HandleHosts(m) == CaFirstOf(<< <<m = "GET", "host.read">>, <<m = "POST", "host.write">> >>)

HandleLogsTail(ns, m) ==
  IF m = "GET" /\ ns \notin RESERVED_NS \ PLATFORM_TIER_RESERVED_NS
    THEN "worker.logs.tail" ELSE CaRefused

HandleD1(sub, m) ==
  LET at(i, x) == Len(sub) >= i /\ sub[i] = x
      migrations == at(1, "databases") /\ at(3, "migrations")
  IN  CaFirstOf(<< <<Len(sub) = 1 /\ at(1, "databases") /\ m = "GET", "d1.list">>,
                 <<Len(sub) = 1 /\ at(1, "databases") /\ m = "POST", "d1.create">>,
                 <<Len(sub) = 2 /\ at(1, "databases") /\ m = "DELETE", "d1.delete">>,
                 <<Len(sub) = 3 /\ at(1, "databases") /\ at(3, "query") /\ m = "POST", "d1.execute">>,
                 <<Len(sub) = 3 /\ migrations /\ m = "GET", "d1.migrate.read">>,
                 <<Len(sub) = 4 /\ migrations /\ m = "POST" /\ at(4, "status"), "d1.migrate.read">>,
                 <<Len(sub) = 4 /\ migrations /\ m = "POST" /\ at(4, "apply"), "d1.migrate.write">> >>)

HandleR2(sub, m) ==
  LET objects == Len(sub) >= 3 /\ sub[1] = "buckets" /\ sub[3] = "objects"
  IN  CaFirstOf(<< <<m = "GET" /\ sub = <<"buckets">>, "r2.bucket.list">>,
                 <<objects /\ m = "GET" /\ Len(sub) = 3, "r2.object.list">>,
                 <<objects /\ Len(sub) = 3, CaRefused>>,
                 <<objects /\ m = "HEAD", "r2.object.head">>,
                 <<objects /\ m = "GET", "r2.object.get">>,
                 <<objects /\ m = "DELETE", "r2.object.delete">> >>)

HandleAi(sub, m) ==
  LET providers == Len(sub) >= 1 /\ sub[1] = "providers"
  IN  CaFirstOf(<< <<providers /\ Len(sub) \in {1, 2} /\ m = "GET", "ai.provider.read">>,
                 <<providers /\ Len(sub) = 2 /\ m \in {"PUT", "DELETE"}, "ai.provider.write">>,
                 <<providers /\ Len(sub) = 3 /\ sub[3] = "credential" /\ m = "PUT",
                   "ai.provider.write">>,
                 <<sub = <<"models">> /\ m = "GET", "ai.model.list">> >>)

HandleWorkflows(sub, m) ==
  LET instances == Len(sub) >= 3 /\ sub[3] = "instances"
  IN  CaFirstOf(<< <<m = "GET" /\ sub = <<>>, "workflow.list">>,
                 <<instances /\ m = "GET" /\ Len(sub) \in {3, 4}, "workflow.read">>,
                 <<instances /\ m = "POST" /\ Len(sub) = 5
                     /\ sub[5] \in {"pause", "resume", "restart", "terminate"}, "workflow.write">> >>)

HandleWorkers(m) == IF m = "GET" THEN "worker.list" ELSE CaRefused

HandleWorkerSecrets(sub, m) ==
  CaFirstOf(<< <<m = "GET" /\ sub = <<>>, "secret.read">>,
             <<m = "PUT" /\ Len(sub) = 1, "secret.write">>,
             <<m = "DELETE" /\ Len(sub) = 1, "secret.delete">> >>)

HandleVersions(sub, m) ==
  CaFirstOf(<< <<m = "GET" /\ sub = <<>>, "worker.versions.read">>,
             <<m = "DELETE" /\ Len(sub) = 1, "worker.versions.delete">> >>)

IsAdminAcceptableNs(ns) == ns \in CaTenants \cup RESERVED_NS

DispatchNamespaceRoute(r, m) ==
  IF ~IsAdminAcceptableNs(r.ns) THEN CaRefused
  ELSE CASE r.kind = "nsSecrets" -> HandleNsSecrets(r.sub, m)
         [] r.kind = "hosts" -> HandleHosts(m)
         [] r.kind = "logsTail" -> HandleLogsTail(r.ns, m)
         [] r.kind = "d1" -> HandleD1(r.sub, m)
         [] r.kind = "r2" -> HandleR2(r.sub, m)
         [] r.kind = "ai" -> HandleAi(r.sub, m)
         [] r.kind = "workflows" -> HandleWorkflows(r.sub, m)
         [] r.kind = "workers" -> HandleWorkers(m)
         [] OTHER -> CaRefused

DispatchWorkerRoute(r, m) ==
  IF ~IsAdminAcceptableNs(r.ns) THEN CaRefused
  ELSE CASE r.verb = "secrets" -> HandleWorkerSecrets(r.sub, m)
         [] r.verb = "versions" -> HandleVersions(r.sub, m)
         [] m = "POST" /\ r.verb = "deploy" /\ r.sub = <<>> -> "worker.deploy"
         [] m = "POST" /\ r.verb = "promote" /\ r.sub = <<>> -> "worker.promote"
         [] m = "POST" /\ r.verb = "delete" /\ r.sub = <<>> -> "worker.delete"
         [] OTHER -> CaRefused

Dispatch(r, m) ==
  CASE r.kind = "reload" -> IF m = "POST" THEN "system.reload" ELSE CaRefused
    [] r.kind = "whoami" -> IF m = "GET" THEN "diagnostic.whoami" ELSE CaRefused
    [] r.kind = "authTokens" -> HandleAuthTokens(r.sub, m)
    [] r.kind = "authDelegatedTokens" -> HandleDelegated(m)
    [] r.kind = "worker" -> DispatchWorkerRoute(r, m)
    [] OTHER -> DispatchNamespaceRoute(r, m)

ValidatePrincipalShape(pr) ==
  /\ pr.kind \in DOMAIN ROLES
  /\ IF ROLES[pr.kind].bound = "none" THEN ~pr.hasNs ELSE pr.hasNs /\ BoundNsFits(pr.kind, pr.ns)

\* AUTH gets no namespace unless the exact route shape has an action.
AuthRouteInfo(r) ==
  IF r.action = Absent THEN [action |-> Absent, ns |-> Absent] ELSE [action |-> r.action, ns |-> r.ns]

\* The status authorizeControlRequest answers; 200 lets the request through.
AuthorizeControlRequest(tok, info) ==
  LET v == Verify(tok, info.action, info.ns)
  IN  IF v.status = 200 /\ ~ValidatePrincipalShape(v.principal) THEN 503 ELSE v.status
-----------------------------------------------------------------------------
NoTok == [kind |-> Absent, ns |-> Absent, drifted |-> FALSE]
NoOut == [status |-> 0, op |-> Absent, ns |-> Absent]
CaIdle == [path |-> <<>>, method |-> Absent]

CaInit == caTok = NoTok /\ caReq = CaIdle /\ caOut = NoOut

\* The bootstrap ops token, or one that issue() grants.
IssueToken ==
  /\ caTok = NoTok
  /\ \/ caTok' = [kind |-> "ops", ns |-> Absent, drifted |-> FALSE]
     \/ \E kind \in DOMAIN ROLES \cup {Absent, "other"} :
          \E ns \in CaTenants \cup {Absent, "__platform__", "__system__", "admin"} :
            LET r == ValidateIssueInput(kind, ns)
            IN  /\ r.kind # CaRefused
                /\ caTok' = [kind |-> r.kind, ns |-> r.ns, drifted |-> FALSE]
  /\ UNCHANGED <<caReq, caOut>>

\* A stored record that a migration or a restored backup damaged.
DriftRecord ==
  /\ caTok # NoTok /\ ~caTok.drifted /\ caReq = CaIdle
  /\ \E kind \in DOMAIN ROLES \cup {"other"}, ns \in {caTok.ns, Absent, "admin"} :
       caTok' = [kind |-> kind, ns |-> ns, drifted |-> TRUE]
  /\ UNCHANGED <<caReq, caOut>>

\* control's fetch(): classify, authorize, dispatch.
ControlFetch ==
  /\ caTok # NoTok /\ caReq = CaIdle
  /\ \E p \in CaPaths, m \in CaMethods :
       LET r == ParseControlRoute(p, m)
           status == AuthorizeControlRequest(caTok, AuthRouteInfo(r))
       IN  /\ caReq' = [path |-> p, method |-> m]
           /\ caOut' = IF status # 200 THEN [status |-> status, op |-> CaRefused, ns |-> Absent]
                       ELSE [status |-> 200, op |-> Dispatch(r, m), ns |-> r.ns]
  /\ UNCHANGED caTok

NextRequest ==
  /\ caReq # CaIdle
  /\ caTok' = NoTok /\ caReq' = CaIdle /\ caOut' = NoOut

CaNext == IssueToken \/ DriftRecord \/ ControlFetch \/ NextRequest

CaSpec == CaInit /\ [][CaNext]_caVars
-----------------------------------------------------------------------------
\* Whatever operation a handler runs, the presented record entitles its bearer
\* to it: ops runs anything; any other role has the operation's own action in
\* its list and, when it is bound, runs it in the namespace of its record.
\* The classifier, the role table and the handlers agree on every path shape.
EffectAuthorized ==
  caOut.op \notin {Absent, CaRefused, "diagnostic.whoami"} =>
    \/ caTok.kind = "ops"
    \/ /\ caOut.op \in ROLES[caTok.kind].actions
       /\ caOut.op \notin AuthLifecycle \cup SystemActions
       /\ ROLES[caTok.kind].bound = "tenant" => caOut.ns = caTok.ns /\ caOut.ns \in CaTenants
       /\ ROLES[caTok.kind].bound = "platform-tier" => caOut.ns \in PLATFORM_TIER_RESERVED_NS

\* A record exactly as issue() wrote it never meets a contract error: the
\* issue check, the stored-record check and control's principal check accept
\* the same (kind, namespace) pairs, and its bearer can always ask who it is.
IssuedVerifies ==
  caReq # CaIdle /\ ~caTok.drifted =>
    /\ caOut.status # 503
    /\ caReq = [path |-> <<"", "whoami">>, method |-> "GET"] => caOut.op = "diagnostic.whoami"

\* The issue check, the record check, the path classifier, the role table and
\* the handlers agree on every request (authorize, control/index.js).
AccessAgrees ==
  /\ EffectAuthorized
  /\ IssuedVerifies

=============================================================================
