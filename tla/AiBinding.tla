----------------------------- MODULE AiBinding ------------------------------
(***************************************************************************)
(* The host side of the AI binding: the three capacity pools and their     *)
(* leases (runtime/bindings/ai-capacity.js), the handlers of a models, an  *)
(* inference and a WebSocket request (runtime/bindings/ai.js), and the     *)
(* WebSocket bridge (runtime/bindings/ai-websocket.js).                    *)
(*                                                                         *)
(* Every await of a handler is a state of its call; the lease deadline and *)
(* the caller's abort may come at any of them, and an await that the abort *)
(* should reject may still deliver its value.  A streamed answer is one    *)
(* state here, AiStream models it.  Lease timers may fire at any moment:   *)
(* how long an await takes is not bounded by anything else.                *)
(***************************************************************************)
EXTENDS Integers, Sequences, FiniteSets

CONSTANTS
    AbCalls,
    AbWorkloads,    \* [kind: call -> models|http|sse|ws, limit: pool -> Nat,
                    \*  protocol, binary: of the model, frames: client frames]
    AbMaxBytes,     \* AI_WS_MAX_BYTES, in frames of one byte
    NoFrame

ASSUME AbAssumption ==
    /\ AbMaxBytes \in Nat \ {0}
    /\ \A w \in {AbWorkloads[c] : c \in DOMAIN AbWorkloads} : DOMAIN w.kind = AbCalls /\ \A p \in DOMAIN w.limit : w.limit[p] \in Nat

VARIABLES
    abCase,
    abPool,     \* poolStates: leases in use
    ab,         \* the calls
    br,         \* the bridge of a WebSocket call
    abSent      \* client frames as the provider received them

abWork == AbWorkloads[abCase]
abVars == <<abCase, abPool, ab, br, abSent>>

Pools == {"request", "stream", "websocket"}

-----------------------------------------------------------------------------
(* acquireAiLease and its release and transfer, on x = [pool, s] *)

At(c) == [pool |-> abPool, s |-> ab[c]]

Saturated(pool, p) == pool[p] >= abWork.limit[p]

AbAcquire(x, p) ==
    [pool |-> [x.pool EXCEPT ![p] = @ + 1],
     s |-> [x.s EXCEPT !.pool = p, !.held = TRUE]]

Release(x) ==
    IF ~x.s.held THEN x
    ELSE [pool |-> [x.pool EXCEPT ![x.s.pool] = IF @ > 0 THEN @ - 1 ELSE 0],
          s |-> [x.s EXCEPT !.held = FALSE]]

CanTransfer(x, p) == x.s.held /\ (x.s.pool = p \/ ~Saturated(x.pool, p))

Transfer(x, p) ==
    [pool |-> [x.pool EXCEPT ![x.s.pool] = IF @ > 0 THEN @ - 1 ELSE 0, ![p] = @ + 1],
     s |-> [x.s EXCEPT !.pool = p]]

-----------------------------------------------------------------------------
(* The handlers *)

AbPut(c, x) ==
    /\ abPool' = x.pool
    /\ ab' = [ab EXCEPT ![c] = x.s]
    /\ UNCHANGED abCase

Still == UNCHANGED <<br, abSent>>

\* the catch and finally of a handler: a deadline outranks the error at hand
Rejected(x, code) ==
    LET s == [x.s EXCEPT !.pc = "done", !.reply = IF x.s.expired THEN "504" ELSE code]
    IN  Release([x EXCEPT !.s = s])

AbAnswered(x, reply) ==
    Release([x EXCEPT !.s = [x.s EXCEPT !.pc = "done", !.reply = reply, !.up = "closed"]])

PoolFor(kind) == IF kind = "ws" THEN "websocket" ELSE "request"

\* handleModels, handleHttp, handleWebSocket up to their first await
BeginCall(c) ==
    LET kind == abWork.kind[c]  p == PoolFor(kind)  x == At(c) IN
    /\ ab[c].pc = "start"
    /\ IF Saturated(abPool, p)
       THEN AbPut(c, [x EXCEPT !.s.pc = "done", !.s.reply = "429"])
       ELSE AbPut(c, [AbAcquire(x, p) EXCEPT
                      !.s.pc = IF kind \in {"http", "sse"} THEN "body" ELSE "resolving"])
    /\ Still

\* the model and stream fields are valid: a streamed call changes its pool
Accepted(c, x) ==
    IF abWork.kind[c] = "http" THEN [x EXCEPT !.s.pc = "resolving"]
    ELSE IF CanTransfer(x, "stream") THEN [Transfer(x, "stream") EXCEPT !.s.pc = "resolving"]
    ELSE Rejected(x, "429")

\* requestModelBody
BodySettles(c) ==
    /\ ab[c].pc = "body"
    /\ AbPut(c, Rejected(At(c), "400")) \/ AbPut(c, Accepted(c, At(c)))
    /\ Still

\* resolveModel or visibleModels, and the request that follows
ResolveSettles(c) ==
    LET x == At(c) IN
    /\ ab[c].pc = "resolving"
    /\ \/ AbPut(c, Rejected(x, "503"))
       \/ IF ab[c].aborted THEN AbPut(c, Rejected(x, "502"))
          ELSE IF abWork.kind[c] = "models" THEN AbPut(c, AbAnswered(x, "ok"))
          ELSE AbPut(c, [x EXCEPT !.s.pc = "fetching"])
    /\ Still

NewBridge ==
    [closed |-> FALSE, idle |-> TRUE, grace |-> "off", bytes |-> [client |-> 0, provider |-> 0],
     code |-> "none", ended |-> "none"]

\* Bug: an upgrade that arrives after the deadline is bridged all the same.
UpgradeUsable_Late(s) == TRUE

UpgradeUsable(s) == ~s.aborted

\* rejectProviderResponse, and what an aborted call does with a late answer
Discarded(x) == Rejected([x EXCEPT !.s.up = "closed", !.s.aborted = TRUE], "502")

\* handleHttp behind network.fetch
FetchSettles(c) ==
    LET x == At(c) IN
    /\ ab[c].pc = "fetching" /\ abWork.kind[c] # "ws"
    /\ \/ AbPut(c, Rejected(x, "502"))
       \/ \E status \in {"ok", "event-stream", "error", "redirect"} :
            IF ab[c].aborted \/ status = "redirect" THEN AbPut(c, Discarded(x))
            ELSE IF abWork.kind[c] = "http" \/ status = "error"
            THEN AbPut(c, [x EXCEPT !.s.pc = "reading", !.s.up = "open"])
            ELSE IF status = "ok" THEN AbPut(c, Discarded(x))
            ELSE AbPut(c, [x EXCEPT !.s.pc = "stream", !.s.reply = "stream", !.s.up = "open"])
    /\ Still

\* handleWebSocket behind its fetch
UpgradeSettles(c) ==
    LET x == At(c) IN
    /\ ab[c].pc = "fetching" /\ abWork.kind[c] = "ws"
    /\ \/ AbPut(c, Rejected(x, "502")) /\ Still
       \/ \E status \in {"101", "ok", "error", "redirect"} :
            IF status = "101" /\ UpgradeUsable(ab[c])
            THEN /\ AbPut(c, [x EXCEPT !.s.pc = "bridge", !.s.reply = "101", !.s.up = "open"])
                 /\ br' = [br EXCEPT ![c] = NewBridge]
                 /\ UNCHANGED abSent
            ELSE IF ab[c].aborted \/ status # "error" THEN AbPut(c, Discarded(x)) /\ Still
            ELSE AbPut(c, [x EXCEPT !.s.pc = "reading", !.s.up = "open"]) /\ Still

\* readProviderResponseBytes: the whole body, or a failure that aborts
ReadBodySettles(c) ==
    LET x == At(c) IN
    /\ ab[c].pc = "reading"
    /\ \/ AbPut(c, Rejected([x EXCEPT !.s.aborted = TRUE, !.s.up = "closed"], "502"))
       \/ IF ab[c].aborted /\ abWork.kind[c] # "ws"
          THEN AbPut(c, Rejected([x EXCEPT !.s.up = "closed"], "502"))
          ELSE AbPut(c, AbAnswered(x, "status"))
    /\ Still

\* createAiStreamingResponse's cleanup behind stopUpstream
EndStream(x) == Release([x EXCEPT !.s.pc = "done", !.s.up = "closed"])

\* AiStream: a terminal event, an error, its idle timer or the tenant's cancel
StreamOver(c) ==
    /\ ab[c].pc = "stream"
    /\ AbPut(c, EndStream(At(c)))
    /\ Still

\* the caller's request.signal; its listener is gone once a socket is bridged
CallerAbort(c) ==
    LET x == [At(c) EXCEPT !.s.cancelled = TRUE, !.s.aborted = TRUE] IN
    /\ ab[c].pc \in {"body", "resolving", "fetching", "reading", "stream"} /\ ~ab[c].cancelled
    /\ AbPut(c, IF ab[c].pc = "stream" THEN EndStream(x) ELSE x)
    /\ Still

-----------------------------------------------------------------------------
(* createAiWebSocketBridge *)

BridgeDone(x) == Release([x EXCEPT !.s.pc = "done", !.s.up = "closed"])

\* finish: the first caller wins; code is what the tenant's socket closes with
AbFinish(c, x, code, ended) ==
    /\ AbPut(c, BridgeDone([x EXCEPT !.s.aborted = TRUE]))
    /\ br' = [br EXCEPT ![c] = [@ EXCEPT !.closed = TRUE, !.idle = FALSE, !.grace = "off",
                                         !.code = code, !.ended = ended]]

Bridged(c) == ab[c].pc = "bridge" /\ ~br[c].closed

Relays(c) == Bridged(c) /\ br[c].grace = "off"

LastField(f, key) == LET I == {i \in 1 .. Len(f) : f[i].key = key}
                     IN  IF I = {} THEN NoFrame ELSE f[CHOOSE i \in I : \A j \in I : j <= i].val

\* inspectClientSocketJson: the fields the bridge decides on occur once
Duplicated(f) == \E i, j \in 1 .. Len(f) : i < j /\ f[i].key = f[j].key

AllowedModel(m) == m \in {NoFrame, "null", "public", "upstream"}

Replaced(f, key) == [i \in 1 .. Len(f) |-> IF f[i].key = key THEN [f[i] EXCEPT !.val = "upstream"] ELSE f[i]]

\* normalizeClientSocketText: NoFrame when the frame is rejected
NormalizeClientText(f) ==
    LET model == LastField(f, "model")  inner == LastField(f, "session.model") IN
    IF \/ Duplicated(f) \/ LastField(f, "type") = NoFrame
       \/ ~AllowedModel(model) \/ ~AllowedModel(inner) THEN NoFrame
    ELSE IF abWork.protocol = "responses" /\ LastField(f, "type") = "response.create"
    THEN IF model # NoFrame THEN Replaced(f, "model")
         ELSE Append(f, [key |-> "model", val |-> "upstream"])
    ELSE IF abWork.protocol = "realtime" /\ inner \notin {NoFrame, "null"}
    THEN Replaced(f, "session.model")
    ELSE f

Bytes(c, side) == br[c].bytes[side] + 1

AbClientFrame(c) ==
    /\ Relays(c)
    /\ \/ \E f \in abWork.frames :
            LET g == NormalizeClientText(f) IN
            IF g = NoFrame THEN AbFinish(c, At(c), "policy", "frame_error") /\ UNCHANGED abSent
            ELSE IF Bytes(c, "client") > AbMaxBytes
            THEN AbFinish(c, At(c), "toobig", "byte_limit") /\ UNCHANGED abSent
            ELSE /\ br' = [br EXCEPT ![c].bytes.client = Bytes(c, "client")]
                 /\ abSent' = abSent \cup {g}
                 /\ UNCHANGED <<abCase, abPool, ab>>
       \/ ~abWork.binary /\ AbFinish(c, At(c), "unsupported", "unsupported_frame") /\ UNCHANGED abSent

ProviderFrame(c) ==
    /\ Relays(c)
    /\ \/ IF Bytes(c, "provider") > AbMaxBytes THEN AbFinish(c, At(c), "toobig", "byte_limit")
          ELSE /\ br' = [br EXCEPT ![c].bytes.provider = Bytes(c, "provider"), ![c].idle = TRUE]
               /\ UNCHANGED <<abCase, abPool, ab>>
       \/ ~abWork.binary /\ AbFinish(c, At(c), "unsupported", "unsupported_frame")
    /\ UNCHANGED abSent

\* 1001, 1006 and 1011 of the provider reach the tenant as 1013
ProviderCloseCode(code) == IF code = "lost" THEN "retry" ELSE code

SocketCloses(c) ==
    /\ Bridged(c)
    /\ \E code \in {"normal", "lost"} :
         \/ AbFinish(c, At(c), code, "client_closed")
         \/ AbFinish(c, At(c), ProviderCloseCode(code),
                   IF code = "normal" THEN "provider_closed" ELSE "provider_lost")
    /\ UNCHANGED abSent

\* an error event: wait a moment for the close event that tells more
SocketFails(c) ==
    /\ Relays(c)
    /\ \E side \in {"client", "provider"} :
         br' = [br EXCEPT ![c].grace = side, ![c].idle = FALSE]
    /\ UNCHANGED <<abCase, abPool, ab, abSent>>

GraceOver(c) ==
    /\ Bridged(c) /\ br[c].grace # "off"
    /\ IF br[c].grace = "client" THEN AbFinish(c, At(c), "failed", "client_error")
       ELSE AbFinish(c, At(c), "retry", "provider_error")
    /\ UNCHANGED abSent

SessionIdle(c) ==
    /\ Bridged(c) /\ br[c].idle
    /\ AbFinish(c, At(c), "restart", "idle_timeout")
    /\ UNCHANGED abSent

\* the lease's timer: the handler's onDeadline, then release("deadline")
LeaseDeadline(c) ==
    LET x == [At(c) EXCEPT !.s.expired = TRUE, !.s.aborted = TRUE] IN
    /\ ab[c].held
    /\ CASE ab[c].pc = "stream" -> AbPut(c, Release(EndStream(x))) /\ Still
         [] ab[c].pc = "bridge" -> AbFinish(c, x, "restart", "deadline") /\ UNCHANGED abSent
         [] OTHER -> AbPut(c, Release(x)) /\ Still

-----------------------------------------------------------------------------
AbInit ==
    /\ abCase \in DOMAIN AbWorkloads
    /\ abPool = [p \in Pools |-> 0]
    /\ ab = [c \in AbCalls |->
               [pc |-> "start", pool |-> "request", held |-> FALSE, aborted |-> FALSE,
                expired |-> FALSE, cancelled |-> FALSE, up |-> "none", reply |-> "none"]]
    /\ br = [c \in AbCalls |-> [NewBridge EXCEPT !.closed = TRUE, !.idle = FALSE]]
    /\ abSent = {}

AbNext ==
    \E c \in AbCalls :
       \/ BeginCall(c) \/ BodySettles(c) \/ ResolveSettles(c) \/ FetchSettles(c) \/ UpgradeSettles(c)
       \/ ReadBodySettles(c) \/ StreamOver(c) \/ CallerAbort(c) \/ LeaseDeadline(c)
       \/ AbClientFrame(c) \/ ProviderFrame(c) \/ SocketCloses(c) \/ SocketFails(c)
       \/ GraceOver(c) \/ SessionIdle(c)

AbSpec == AbInit /\ [][AbNext]_abVars

-----------------------------------------------------------------------------
\* The pools count the leases that are held, each in the pool it was moved to
\* last, and stay within their limits: no sequence of transfer, deadline,
\* abort and cleanup frees a slot twice or keeps one (acquireAiLease).
PoolsExact ==
    \A p \in Pools :
        /\ abPool[p] = Cardinality({c \in AbCalls : ab[c].held /\ ab[c].pool = p})
        /\ abPool[p] <= abWork.limit[p]

\* A provider connection is open only under a held lease, or for the one
\* await that an aborted call has yet to come back from; a finished call has
\* none (the checks of aborter.signal behind each await, finish, cleanup).
UpstreamCovered ==
    \A c \in AbCalls :
        /\ ab[c].pc = "done" => ab[c].up # "open" /\ ~ab[c].held
        /\ ab[c].up = "open" /\ ~ab[c].held => ab[c].aborted /\ ab[c].pc = "reading"
        /\ ab[c].pc \in {"stream", "bridge"} => ab[c].held

\* A call whose deadline passed before it had anything to answer says so: it
\* is never reported as a provider or capacity failure (handleHttp's catch).
TimeoutReported ==
    \A c \in AbCalls :
        ab[c].pc = "done" /\ ab[c].expired => ab[c].reply \in {"504", "stream", "101", "status"}

\* While a session is open its idle timer or its error grace is running, so it
\* cannot outlive a silent provider; and the tenant's socket closes normally
\* only when one of the two ends did (resetIdle, scheduleErrorFallback,
\* finish, providerCloseCode).
SessionEndsTruly ==
    \A c \in AbCalls :
        /\ ab[c].pc = "bridge" => (br[c].idle <=> br[c].grace = "off")
        /\ br[c].code = "normal" => br[c].ended \in {"client_closed", "provider_closed"}

\* The model of a session is fixed: a frame that names another model is never
\* forwarded, in whatever field and however often, and what starts a response
\* names the upstream model once (inspectClientSocketJson,
\* normalizeClientSocketText).
ModelFixed ==
    \A f \in abSent :
        /\ \A i \in 1 .. Len(f) : f[i].key # "type" => f[i].val # "other"
        /\ abWork.protocol = "responses" /\ [key |-> "type", val |-> "response.create"] \in {f[i] : i \in 1 .. Len(f)}
             => /\ Cardinality({i \in 1 .. Len(f) : f[i].key = "model"}) = 1
                /\ LastField(f, "model") = "upstream"

\* An AI call has a provider connection only under its lease, its pools count
\* exactly, its end is reported for what it was, and a session keeps its model.
AiCallsKept ==
  /\ PoolsExact
  /\ UpstreamCovered
  /\ TimeoutReported
  /\ SessionEndsTruly
  /\ ModelFixed

=============================================================================
