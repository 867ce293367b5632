----------------------------- MODULE AiCatalog ------------------------------
(***************************************************************************)
(* The AI providers of a namespace: the control plane's provider and       *)
(* credential writes (control/handlers/ai.js, shared/ai-contract.js), the  *)
(* resolver's read of both hashes (one script), and a tenant's             *)
(* env.AI.run(): the isolate's catalog snapshot (runtime/ai-client.js),    *)
(* the binding's resolution and its checks (runtime/bindings/ai.js) and    *)
(* the provider request (runtime/bindings/ai-provider.js).                 *)
(*                                                                         *)
(* A write watches both hashes before it reads them, so it is one step at  *)
(* EXEC.  A credential is the kind of provider its owner meant it for; the *)
(* secret itself, names and wording are left out.                          *)
(***************************************************************************)
EXTENDS Integers, FiniteSets, FiniteSetsExt

CONSTANTS
    AcProviders, AcAliases, AcAdmins, AcRuns,
    AcMaxModels,    \* AI_NAMESPACE_MODEL_MAX_COUNT
    AcPerProvider,  \* AI_MODELS_PER_PROVIDER_MAX
    AcWorkloads,    \* [writes, creds: bounds on the writes started, runs:
                    \* the tenant calls made, most: AI_PROVIDER_MAX_COUNT,
                    \* bodies: bodies of PUT provider, calls: what a
                    \* tenant asks for, [p, alias, how, uses]]
    NoRec

ASSUME AcAssumption ==
    /\ {AcMaxModels, AcPerProvider} \subseteq Nat \ {0}
    /\ \A w \in {AcWorkloads[c] : c \in DOMAIN AcWorkloads} : {w.writes, w.creds} \subseteq Nat /\ w.most \in Nat \ {0}
    /\ IsFiniteSet(AcProviders) /\ IsFiniteSet(AcAliases)

VARIABLES
    acCase,     \* the workload of this behaviour
    aiProv,     \* ai:providers:<ns>, a record or NoRec per provider
    aiCred,     \* ai:provider-credentials:<ns>, the kind meant or NoRec
    acRev,      \* revisions drawn
    acCreds,    \* credential writes started
    adm,        \* requests at the control plane
    rn,         \* tenant calls of run()
    snap,       \* the isolate's catalog snapshot, or NoRec
    acHist,     \* every provider record ever committed, with its name
    acSent      \* requests sent to providers

acWork == AcWorkloads[acCase]
acVars == <<acCase, aiProv, aiCred, acRev, acCreds, adm, rn, snap, acHist, acSent>>

-----------------------------------------------------------------------------
(* The contract of a provider record *)

ProtocolTransports ==
    [responses |-> {"http", "sse", "responses_websocket"},
     chat_completions |-> {"http", "sse"},
     embeddings |-> {"http"},
     realtime |-> {"realtime_websocket"}]

DescriptorOk(d) ==
    /\ d.transports # {} /\ d.transports \subseteq ProtocolTransports[d.protocol]
    /\ d.modalities # {}

KindSupports(kind, d) ==
    kind = "deepseek" => /\ d.protocol \in {"responses", "chat_completions"}
                         /\ d.transports \subseteq {"http", "sse"}

ProviderOk(b) ==
    /\ Cardinality(DOMAIN b.models) \in 1 .. AcPerProvider
    /\ \A a \in DOMAIN b.models : DescriptorOk(b.models[a]) /\ KindSupports(b.kind, b.models[a])

Named(h) == {p \in AcProviders : h[p] # NoRec}

ModelCount(h) == MapThenSumSet(LAMBDA p : Cardinality(DOMAIN h[p].models), Named(h))

\* what every reader of the two hashes insists on: AI_PROVIDER_SNAPSHOT_SCRIPT,
\* parseStoredProviders, parseStoredCredentialNames
Readable(h, c) ==
    /\ Cardinality(Named(h)) <= acWork.most /\ Cardinality(Named(c)) <= acWork.most
    /\ ModelCount(h) <= AcMaxModels
    /\ \A p \in Named(h) : ProviderOk(h[p])

AggregateFits(h, p, r) ==
    LET n == [h EXCEPT ![p] = r]
    IN  Cardinality(Named(n)) <= acWork.most /\ ModelCount(n) <= AcMaxModels

-----------------------------------------------------------------------------
(* Control plane *)

AdminDone(a) == adm' = [adm EXCEPT ![a] = [pc |-> "idle"]]

\* putProvider up to its transaction; the revision is drawn once
PutProvider(a) ==
    /\ adm[a].pc = "idle" /\ acRev < acWork.writes
    /\ \E p \in AcProviders, b \in acWork.bodies :
         /\ ProviderOk(b)       \* otherwise 400: nothing changes
         /\ adm' = [adm EXCEPT ![a] =
                      [pc |-> "put", p |-> p,
                       rec |-> [rev |-> acRev + 1, kind |-> b.kind, models |-> b.models]]]
    /\ acRev' = acRev + 1
    /\ UNCHANGED <<acCase, aiProv, aiCred, acCreds, rn, snap, acHist, acSent>>

PreserveCredential(p, r) ==
    aiProv[p] # NoRec /\ aiProv[p].kind = r.kind /\ aiCred[p] # NoRec

PutCommit(a) ==
    LET p == adm[a].p  r == adm[a].rec IN
    /\ adm[a].pc = "put"
    /\ AdminDone(a)
    /\ IF Readable(aiProv, aiCred) /\ AggregateFits(aiProv, p, r)
       THEN /\ aiProv' = [aiProv EXCEPT ![p] = r]
            /\ aiCred' = IF PreserveCredential(p, r) THEN aiCred
                         ELSE [aiCred EXCEPT ![p] = NoRec]
            /\ acHist' = acHist \cup {[p |-> p, rec |-> r]}
       ELSE UNCHANGED <<aiProv, aiCred, acHist>>     \* 500 or 409
    /\ UNCHANGED <<acCase, acRev, acCreds, rn, snap, acSent>>

\* putCredential up to its transaction: its owner saw a record (getProviders)
\* and enters the credential for that record's kind; encryption takes a while
PutCredential(a) ==
    /\ adm[a].pc = "idle" /\ acCreds < acWork.creds
    /\ \E p \in Named(aiProv) :
         adm' = [adm EXCEPT ![a] = [pc |-> "cred", p |-> p, rev |-> aiProv[p].rev,
                                    kind |-> aiProv[p].kind]]
    /\ acCreds' = acCreds + 1
    /\ UNCHANGED <<acCase, aiProv, aiCred, acRev, rn, snap, acHist, acSent>>

\* Bug: the revision the caller named is not compared.
CredentialAllowed_AnyRevision(p, rev) ==
    aiProv[p] # NoRec /\ (aiCred[p] # NoRec \/ Cardinality(Named(aiCred)) < acWork.most)

CredentialAllowed(p, rev) ==
    /\ aiProv[p] # NoRec /\ aiProv[p].rev = rev
    /\ aiCred[p] # NoRec \/ Cardinality(Named(aiCred)) < acWork.most

CredentialCommit(a) ==
    LET p == adm[a].p IN
    /\ adm[a].pc = "cred"
    /\ AdminDone(a)
    /\ aiCred' = IF Readable(aiProv, aiCred) /\ CredentialAllowed(p, adm[a].rev)
                 THEN [aiCred EXCEPT ![p] = adm[a].kind] ELSE aiCred
    /\ UNCHANGED <<acCase, aiProv, acRev, acCreds, rn, snap, acHist, acSent>>

\* mutate: five conflicting attempts and the request is refused with 503
Contended(a) ==
    /\ adm[a].pc \in {"put", "cred"}
    /\ AdminDone(a)
    /\ UNCHANGED <<acCase, aiProv, aiCred, acRev, acCreds, rn, snap, acHist, acSent>>

DeleteProvider(p) ==
    /\ aiProv' = [aiProv EXCEPT ![p] = NoRec]
    /\ aiCred' = [aiCred EXCEPT ![p] = NoRec]
    /\ UNCHANGED <<acCase, acRev, acCreds, adm, rn, snap, acHist, acSent>>

-----------------------------------------------------------------------------
(* The resolver: each request is one script *)

ListModels == [m \in {<<p, a>> \in AcProviders \X AcAliases :
                        aiProv[p] # NoRec /\ a \in DOMAIN aiProv[p].models}
               |-> aiProv[m[1]].models[m[2]]]

HostOf(kind, protocol, transport) ==
    IF kind = "deepseek" /\ (transport \notin {"http", "sse"} \/ protocol \in {"embeddings", "realtime"})
    THEN NoRec
    ELSE [host |-> kind, path |-> protocol, secure |-> transport \in {"http", "sse"}]

\* the answer, or NoRec for the resolver's refusals
ResolveModel(p, a, protocol, transport) ==
    IF /\ Readable(aiProv, aiCred)
       /\ aiProv[p] # NoRec /\ a \in DOMAIN aiProv[p].models
       /\ aiProv[p].models[a].protocol = protocol
       /\ transport \in aiProv[p].models[a].transports
       /\ aiCred[p] # NoRec
    THEN [p |-> p, alias |-> a, kind |-> aiProv[p].kind, protocol |-> protocol,
          transport |-> transport, dest |-> HostOf(aiProv[p].kind, protocol, transport),
          cred |-> aiCred[p], modalities |-> aiProv[p].models[a].modalities]
    ELSE NoRec

-----------------------------------------------------------------------------
(* A tenant's run() *)

RunEnds(r) == rn' = [rn EXCEPT ![r] = [pc |-> "done"]]

\* run: options and inputs are valid; a settled snapshot needs no request
RunStart(r) ==
    /\ rn[r].pc = "start"
    /\ \E c \in acWork.calls :
         rn' = [rn EXCEPT ![r] =
                  [pc |-> IF snap # NoRec THEN "pick" ELSE "load", p |-> c.p, alias |-> c.alias,
                   how |-> c.how, uses |-> c.uses, models |-> snap]]
    /\ UNCHANGED <<acCase, aiProv, aiCred, acRev, acCreds, adm, snap, acHist, acSent>>

\* loadModels: the list as the resolver sees it now, or a failure
LoadModels(r) ==
    /\ rn[r].pc = "load"
    /\ \E ok \in BOOLEAN :
         rn' = [rn EXCEPT ![r].pc = IF ok THEN "loaded" ELSE "failed",
                          ![r].models = IF ok THEN ListModels ELSE NoRec]
    /\ UNCHANGED <<acCase, aiProv, aiCred, acRev, acCreds, adm, snap, acHist, acSent>>

\* the snapshot another call settled meanwhile is kept
Settled(models) == IF snap # NoRec THEN snap ELSE models

\* catalogModels behind its await
CatalogModels(r) ==
    LET s == Settled(rn[r].models) IN
    /\ rn[r].pc \in {"loaded", "failed"}
    /\ snap' = s
    /\ rn' = [rn EXCEPT ![r] = IF s = NoRec THEN [pc |-> "done"]
                               ELSE [@ EXCEPT !.pc = "pick", !.models = s]]
    /\ UNCHANGED <<acCase, aiProv, aiCred, acRev, acCreds, adm, acHist, acSent>>

\* the signal of the call: no continuation of it runs on
AbortRun(r) ==
    /\ rn[r].pc \in {"load", "loaded", "failed", "pick"}
    /\ RunEnds(r)
    /\ UNCHANGED <<acCase, aiProv, aiCred, acRev, acCreds, adm, snap, acHist, acSent>>

TransportFor(how, protocol) ==
    IF how # "ws" THEN how
    ELSE IF protocol = "responses" THEN "responses_websocket"
    ELSE IF protocol = "realtime" THEN "realtime_websocket" ELSE NoRec

\* modelDescriptor, requireTransport, protocolPath
PickModel(r) ==
    LET m == <<rn[r].p, rn[r].alias>>
        d == rn[r].models[m]
        t == TransportFor(rn[r].how, d.protocol)
    IN  /\ rn[r].pc = "pick"
        /\ IF m \in DOMAIN rn[r].models /\ t \in d.transports
           THEN rn' = [rn EXCEPT ![r] = [pc |-> "resolve", p |-> m[1], alias |-> m[2],
                                         protocol |-> d.protocol, transport |-> t,
                                         uses |-> rn[r].uses]]
           ELSE RunEnds(r)
        /\ UNCHANGED <<acCase, aiProv, aiCred, acRev, acCreds, adm, snap, acHist, acSent>>

\* internalAiRequest: at most two attempts, the last one counts
ResolveStep(r) ==
    LET res == ResolveModel(rn[r].p, rn[r].alias, rn[r].protocol, rn[r].transport) IN
    /\ rn[r].pc = "resolve"
    /\ \/ res # NoRec /\ rn' = [rn EXCEPT ![r] = [pc |-> "send", res |-> res, uses |-> rn[r].uses]]
       \/ RunEnds(r)        \* refused, unavailable or out of time
    /\ UNCHANGED <<acCase, aiProv, aiCred, acRev, acCreds, adm, snap, acHist, acSent>>

ModalitiesOk(res, uses) == uses \subseteq res.modalities

\* expectedAiProviderDestination against the resolver's answer
DestinationOk(res) == res.dest # NoRec /\ res.dest = HostOf(res.kind, res.protocol, res.transport)

\* aiProviderHttpRequest or aiProviderWebSocketRequest, and the fetch; a
\* socket's frames are inputs of their own and are not checked here
SendToProvider(r) ==
    LET res == rn[r].res IN
    /\ rn[r].pc = "send"
    /\ acSent' = IF DestinationOk(res)
                    /\ (res.transport \in {"http", "sse"} => ModalitiesOk(res, rn[r].uses))
                 THEN acSent \cup {[res |-> res, uses |-> rn[r].uses]} ELSE acSent
    /\ RunEnds(r)
    /\ UNCHANGED <<acCase, aiProv, aiCred, acRev, acCreds, adm, snap, acHist>>

-----------------------------------------------------------------------------
AcInit ==
    /\ acCase \in DOMAIN AcWorkloads
    /\ aiProv = [p \in AcProviders |-> NoRec]
    /\ aiCred = [p \in AcProviders |-> NoRec]
    /\ acRev = 0 /\ acCreds = 0
    /\ adm = [a \in AcAdmins |-> [pc |-> "idle"]]
    /\ rn = [r \in AcRuns |-> [pc |-> IF r \in acWork.runs THEN "start" ELSE "done"]]
    /\ snap = NoRec /\ acHist = {} /\ acSent = {}

AcNext ==
    \/ \E a \in AcAdmins :
         PutProvider(a) \/ PutCommit(a) \/ PutCredential(a) \/ CredentialCommit(a) \/ Contended(a)
    \/ \E p \in AcProviders : DeleteProvider(p)
    \/ \E r \in AcRuns :
         \/ RunStart(r) \/ LoadModels(r) \/ CatalogModels(r) \/ AbortRun(r)
         \/ PickModel(r) \/ ResolveStep(r) \/ SendToProvider(r)

AcSpec == AcInit /\ [][AcNext]_acVars

-----------------------------------------------------------------------------
\* A stored credential belongs to a stored provider of the kind its owner
\* entered it for, and goes only to that kind's host, whatever writes and
\* deletes interleave with the entry of a credential (putProvider,
\* putCredential, resolve).
CredentialForKind ==
    /\ \A p \in Named(aiCred) : aiProv[p] # NoRec /\ aiProv[p].kind = aiCred[p]
    /\ \A s \in acSent : s.res.dest.host = s.res.cred

\* No sequence of accepted writes produces state that the readers' bounds
\* refuse, which would lock every later read and write of the namespace out
\* (assertProviderAggregate against AI_PROVIDER_SNAPSHOT_SCRIPT).
StateStaysReadable == Readable(aiProv, aiCred)

\* A request that reaches a provider is one that a single committed provider
\* record allows: its kind, protocol, transport and input modalities, even
\* when the catalog snapshot it started from is stale (resolveModel,
\* enforceProviderRequest).
SentAsConfigured ==
    \A s \in acSent : \E e \in acHist :
        /\ e.p = s.res.p /\ e.rec.kind = s.res.dest.host
        /\ s.res.alias \in DOMAIN e.rec.models
        /\ LET d == e.rec.models[s.res.alias]
           IN  /\ d.protocol = s.res.dest.path /\ s.res.transport \in d.transports
               /\ s.res.transport \in {"http", "sse"} => s.uses \subseteq d.modalities

\* The catalog snapshot of an isolate settles once: a slower load never
\* replaces the list other calls already work with (catalogModels).
CatalogSettles == [][snap # NoRec => snap' = snap]_acVars

\* A request goes where a committed provider record sends it with the credential
\* entered for that kind, and accepted writes never make the state unreadable or
\* change a catalog that calls already use (putProvider, resolveModel).
ProviderBound ==
  /\ [](CredentialForKind /\ StateStaysReadable /\ SentAsConfigured)
  /\ CatalogSettles

=============================================================================
