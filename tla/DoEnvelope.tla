----------------------------- MODULE DoEnvelope -----------------------------
(***************************************************************************)
(* The wire of a Durable Object call: how the binding adapter reads and    *)
(* encodes a fetch, an RPC or a WebSocket upgrade                          *)
(* (runtime/_wdl-do-transport.js), how each task on the way decodes,       *)
(* normalizes and encodes it again (do-runtime/protocol.js), what the      *)
(* object is handed, and how an RPC reply is read back.  Sizes are counted *)
(* in one unit for bodies, headers, URLs and names alike.                  *)
(***************************************************************************)
EXTENDS Naturals, FiniteSets, Sequences, SequencesExt

CONSTANTS
  EnRequests,      \* the requests a tenant makes
  EnTasks,         \* most tasks a call passes: the router, then owners
  MaxBody,         \* MAX_DO_REQUEST_BODY_BYTES, also the bound of rpc.args
  MaxReply,        \* MAX_DO_RPC_RESPONSE_BYTES
  MaxEnvelope,     \* MAX_DO_INVOKE_ENVELOPE_BYTES
  MaxHeaders,      \* MAX_DO_REQUEST_HEADER_COUNT
  MaxHeaderBytes,  \* MAX_DO_REQUEST_HEADER_BYTES
  MaxUrl,          \* bound of request.url
  MaxName,         \* MAX_ID_BYTES
  Unknown          \* a Content-Length that is absent

VARIABLES
  en,       \* the call: where it is and what it carries
  aborted   \* the tenant's AbortSignal

enVars == <<en, aborted>>

-----------------------------------------------------------------------------
(* Headers, by what the platform does with them. *)

\* DO_FETCH_STRIP_HEADERS: control headers of the platform.
ControlHeaders == {"owner-fence", "accept-hint", "hop-count"}

\* Deleted again just before the object (buildForwardRequest).
MarkHeaders == {"rpc-mark", "alarm-mark"}

\* Each as long as the whole budget.
WideHeaders == {"wide-a", "wide-b"}

\* requestSpec and connectHeaders: the request id is always the platform's own.
OwnHeaders(hs) == (hs \ (ControlHeaders \cup {"caller-id"})) \cup {"request-id"}

\* boundedRequestHeaderByteLength, summed.
HeaderBytes(hs) == MaxHeaderBytes * Cardinality(hs \cap WideHeaders)

\* enforceRequestHeadersBudget at the binding, normalizeHeaders at the task.
WithinHeaderBudget(hs) == Cardinality(hs) <= MaxHeaders /\ HeaderBytes(hs) <= MaxHeaderBytes

-----------------------------------------------------------------------------
(* The envelope: four length bytes (not counted), JSON metadata, the body. *)

Fenced(m, f) == [m EXCEPT !.owner = f]

\* JSON escapes at most double headers and URL; a normalized invoke also carries
\* kind, hostId, props and workerId, and a fenced one its owner.
MetadataBytes(m) ==
  2 * HeaderBytes(m.headers) + 2 * m.url + m.name + m.argBytes
    + (IF m.normal THEN 1 ELSE 0) + (IF m.owner # "none" THEN 1 ELSE 0)

EnvelopeBytes(m) == MetadataBytes(m) + m.body

\* rpcInvokeBody: assertRpcMethod, cloneJsonRpcData and the bound of the arguments.
RpcAdmitted(r) == r.method # "reserved" /\ r.args = "data" /\ r.argBytes <= MaxBody

Metadata(r, hs, body) ==
  [kind |-> r.kind, get |-> r.get, headers |-> hs, url |-> r.url, name |-> r.name,
   method |-> r.method, args |-> r.args, argBytes |-> r.argBytes, body |-> body,
   owner |-> "none", normal |-> FALSE]

\* requireString for objectName: non-empty, bounded.
NameAdmitted(n) == n > 0 /\ n <= MaxName

\* normalizeRequestSpec, with no bound of the URL.
SpecAdmitted_AnyUrl(m) == "tab" \notin m.headers /\ WithinHeaderBudget(m.headers)

\* normalizeRequestSpec: a bounded URL, headers within budget and without
\* control characters (a tab is one, though Headers admits it).
SpecAdmitted(m) ==
  /\ m.url <= MaxUrl
  /\ "tab" \notin m.headers
  /\ WithinHeaderBudget(m.headers)

\* normalizeRpcInfo
RpcInfoAdmitted(m) ==
  /\ m.method = "public"
  /\ m.args = "data"
  /\ m.argBytes <= MaxBody

\* normalizeDoInvokeRequest, and invokeWithEnvelopeBody: only a fetch has a body.
InvokeAdmitted(m) ==
  /\ NameAdmitted(m.name)
  /\ m.kind \in {"fetch", "connect"} => SpecAdmitted(m)
  /\ m.kind = "rpc" => RpcInfoAdmitted(m)
  /\ m.kind # "fetch" => m.body = 0

\* normalizeDoConnectRequest: the target and the fence come from their headers
\* and are not visible to the object; the scope headers of DO_CONNECT_HEADERS are.
Connecting(m) == [m EXCEPT !.headers = @ \ (ControlHeaders \cup {"rpc-mark"})]

\* ownerFenceFromHeaders, next to the fence in the metadata.
HeaderFence(e) == IF e.req.kind = "connect" /\ "owner-fence" \in e.wire.headers
                  THEN "caller" ELSE e.fence

-----------------------------------------------------------------------------
(* The binding adapter. *)

Ended(answer) == en' = [en EXCEPT !.pc = "done", !.answer = answer]

EncodeInvoke(m) == en' = [en EXCEPT !.pc = "encode", !.wire = m]

\* fetch of the binding on a plain request: readScopedDoRequest, then requestSpec
\* up to the body; a GET has none.
StartFetch ==
  LET hs == OwnHeaders(en.req.headers) IN
  /\ en.pc = "start" /\ en.req.kind = "fetch"
  /\ \/ aborted /\ Ended("aborted")
     \/ /\ ~aborted
        /\ IF \/ en.req.name = 0
              \/ ~WithinHeaderBudget(hs)
              \/ ~en.req.get /\ en.req.declared # Unknown /\ en.req.declared > MaxBody
           THEN Ended("type_error")
           ELSE en' = [en EXCEPT !.pc = IF en.req.chunks = <<>> THEN "encode" ELSE "reading",
                                 !.wire = Metadata(en.req, hs, 0)]
  /\ UNCHANGED aborted

\* readRequestBodyBytes: one chunk of the body; the signal is looked at after it.
ReadChunk ==
  /\ en.pc = "reading"
  /\ IF aborted THEN Ended("aborted")
     ELSE IF en.left = <<>> THEN en' = [en EXCEPT !.pc = "encode"]
     ELSE LET total == en.wire.body + Head(en.left) IN
          IF total > MaxBody THEN Ended("type_error")
          ELSE en' = [en EXCEPT !.left = Tail(@), !.wire.body = total]
  /\ UNCHANGED aborted

Abort ==
  /\ en.req.kind = "fetch" /\ en.pc \in {"start", "reading", "encode"}
  /\ ~aborted
  /\ aborted' = TRUE
  /\ UNCHANGED en

\* rpcObject
StartRpc ==
  /\ en.pc = "start" /\ en.req.kind = "rpc"
  /\ IF RpcAdmitted(en.req) THEN EncodeInvoke(Metadata(en.req, {}, 0)) ELSE Ended("type_error")
  /\ UNCHANGED aborted

\* fetch of the binding on an upgrade: connectHeaders, no budget of its own.
StartConnect ==
  /\ en.pc = "start" /\ en.req.kind = "connect"
  /\ IF en.req.name = 0 THEN Ended("type_error")
     ELSE EncodeInvoke(Metadata(en.req, OwnHeaders(en.req.headers), 0))
  /\ UNCHANGED aborted

\* An alarm enters at a task (handleAlarmDispatch).
StartAlarm ==
  /\ en.pc = "start" /\ en.req.kind = "alarm"
  /\ IF InvokeAdmitted(Metadata(en.req, {}, 0))
     THEN en' = [en EXCEPT !.pc = "dispatch", !.tasks = 1, !.sent = TRUE,
                           !.wire = [Metadata(en.req, {}, 0) EXCEPT !.normal = TRUE]]
     ELSE Ended("refused")
  /\ UNCHANGED aborted

\* encodeDoInvokeEnvelopeJson, then the router, or the hinted owner with its
\* fence (withOwnerFenceHeaders).  The request sent carries no signal.
Send(f) ==
  /\ en.pc = "encode"
  /\ IF en.req.kind # "connect" /\ EnvelopeBytes(en.wire) > MaxEnvelope
     THEN Ended("type_error")
     ELSE en' = [en EXCEPT !.pc = "arrived", !.fence = f, !.asked = f, !.sent = TRUE]
  /\ UNCHANGED aborted

-----------------------------------------------------------------------------
(* A task. *)

\* readDoInvokeRequest and normalizeDoConnectRequest; the fences may conflict.
Parse ==
  LET m == IF en.req.kind = "connect" THEN Connecting(en.wire) ELSE en.wire
      f == HeaderFence(en) IN
  /\ en.pc = "arrived"
  /\ IF \/ en.req.kind # "connect" /\ EnvelopeBytes(m) > MaxEnvelope
        \/ ~InvokeAdmitted(m)
        \/ f # "none" /\ m.owner # "none" /\ m.owner # f
     THEN Ended("refused")
     ELSE en' = [en EXCEPT !.pc = "dispatch", !.tasks = @ + 1,
                           !.asked = IF en.tasks = 0 THEN f ELSE @,
                           !.wire = [m EXCEPT !.normal = TRUE,
                                              !.owner = IF f # "none" THEN f ELSE @]]
  /\ UNCHANGED aborted

\* dispatchToOwner, another task owns the shard: encodeDoInvokeRequest with the
\* owner's fence in the metadata; forwardConnectToOwner puts it in the headers.
Forward ==
  /\ en.pc = "dispatch" /\ en.tasks < EnTasks
  /\ IF en.req.kind = "connect"
     THEN en' = [en EXCEPT !.pc = "arrived", !.fence = "owner", !.wire.owner = "none"]
     ELSE IF EnvelopeBytes(Fenced(en.wire, "owner")) > MaxEnvelope THEN Ended("refused")
     ELSE en' = [en EXCEPT !.pc = "arrived", !.fence = "none", !.wire = Fenced(@, "owner")]
  /\ UNCHANGED aborted

\* dispatchToOwner on the owner: buildLocalActorRequest (not bounded),
\* readLocalActorInvokeRequest (bounded); a connect is normalized again.
EnterHost ==
  LET m == Fenced(en.wire, "owner") IN
  /\ en.pc = "dispatch"
  /\ IF (en.req.kind # "connect" /\ EnvelopeBytes(m) > MaxEnvelope) \/ ~InvokeAdmitted(m)
     THEN Ended("refused")
     ELSE en' = [en EXCEPT !.pc = "actor", !.wire = m]
  /\ UNCHANGED aborted

\* The fence no longer holds, or a hop too many: an ownership code.
Refuse == en.pc \in {"dispatch", "actor"} /\ Ended("ownership") /\ UNCHANGED aborted

\* buildForwardRequest, buildRpcRequest and buildAlarmRequest: what the object sees.
Handed(m) ==
  [kind |-> m.kind, url |-> m.url, name |-> m.name, body |-> m.body,
   headers |-> m.headers \ MarkHeaders, method |-> m.method, argBytes |-> m.argBytes]

RunObject ==
  /\ en.pc = "actor"
  /\ en' = [en EXCEPT !.pc = "running", !.seen = <<Handed(en.wire)>>]
  /\ UNCHANGED aborted

\* The object's reply; an RPC's is read back by readRpcResponseEnvelope and
\* rpcResultFromResponse.
Replies == [ok : BOOLEAN, bytes : {MaxReply, MaxReply + 1}, form : {"object", "other", "cut"}]

RpcAnswer(r) ==
  IF r.bytes > MaxReply \/ r.form # "object" THEN "result_unknown"
  ELSE IF r.ok THEN "value" ELSE "error"

ObjectReply(r) ==
  /\ en.pc = "running"
  /\ en' = IF en.req.kind = "rpc"
            THEN [en EXCEPT !.pc = "done", !.reply = <<r>>, !.answer = RpcAnswer(r)]
            ELSE [en EXCEPT !.pc = "done", !.answer = "response"]
  /\ UNCHANGED aborted

-----------------------------------------------------------------------------

EnStart(r) ==
  [pc |-> "start", req |-> r, left |-> r.chunks, wire |-> Metadata(r, {}, 0), fence |-> "none",
   asked |-> "none", tasks |-> 0, sent |-> FALSE, seen |-> <<>>, reply |-> <<>>, answer |-> "none"]

EnInit == en \in {EnStart(r) : r \in EnRequests} /\ aborted = FALSE

EnNext ==
  \/ StartFetch \/ ReadChunk \/ Abort \/ StartRpc \/ StartConnect \/ StartAlarm
  \/ \E f \in {"none", "hinted"} : Send(f)
  \/ Parse \/ Forward \/ EnterHost \/ Refuse \/ RunObject
  \/ \E r \in Replies : ObjectReply(r)

EnSpec == EnInit /\ [][EnNext]_enVars

-----------------------------------------------------------------------------
(* Properties. *)

\* What the object is handed is what the tenant sent: the whole body, the URL and
\* name, its headers without the platform's own control headers, and the
\* platform's request id, whatever tasks the call passed.
HandedAsSent ==
  en.seen # <<>> =>
    LET s == en.seen[1] IN
    /\ s.kind = en.req.kind /\ s.url = en.req.url /\ s.name = en.req.name
    /\ s.method = en.req.method /\ s.argBytes = en.req.argBytes
    /\ s.body = FoldSeq(LAMBDA a, b : a + b, 0, en.req.chunks)
    /\ s.headers = (IF en.req.kind \in {"fetch", "connect"}
                    THEN OwnHeaders(en.req.headers) \ MarkHeaders ELSE {})

\* An error thrown by the adapter itself (a limit, an abort) means nothing was
\* sent, and an error of a task's parser that the object was not run.
RefusedUnrun ==
  /\ en.answer \in {"type_error", "aborted"} => ~en.sent
  /\ en.answer \in {"type_error", "aborted", "refused", "ownership"} => en.seen = <<>>

\* A call that one task's parser accepted is accepted by each later task and by
\* the host actor: re-encoding makes it longer but never too long or malformed.
LaterHopsAccept == en.answer = "refused" => en.tasks = 0

\* The fence that decides where a call may run is the transport's own, never one
\* carried by the tenant's request.
FenceIsOwn == en.asked \in {"none", "hinted"}

\* An RPC yields a value or the object's error only from a complete reply.
ValueIsWhole ==
  en.answer \in {"value", "error"} =>
    en.reply[1].bytes <= MaxReply /\ en.reply[1].form = "object"

\* A Durable Object call reaches the object as it was made or not at all, and its
\* caller can tell which.
CallIntact ==
  /\ HandedAsSent
  /\ RefusedUnrun
  /\ LaterHopsAccept
  /\ FenceIsOwn
  /\ ValueIsWhole

=============================================================================
