------------------------------ MODULE KvBinding ------------------------------
(***************************************************************************)
(* The runtime's KV binding: reads under a deadline and a capacity lease,  *)
(* bounded response bodies, envelope checks, and writes that buffer their  *)
(* value (runtime/bindings/kv.js, runtime/bindings/kv-capacity.js,         *)
(* runtime/bindings/proxy.js, shared/bounded-body.js).  The Redis proxy    *)
(* that stores the values is external.                                     *)
(*                                                                         *)
(* A value is its size, 0 is an absent key; metadata is a small number set *)
(* by the put that set the value.  Timers may fire late and never inside   *)
(* synchronous code; the clock moves at any time.                          *)
(***************************************************************************)
EXTENDS Integers, Sequences, FiniteSets, FiniteSetsExt

CONSTANTS KvCalls,      \* concurrent binding calls
          KvKeys,       \* keys, 1 .. n
          KvValueMax,   \* KV_VALUE_MAX_BYTES
          KvRespMax,    \* KV_READ_RESPONSE_MAX_BYTES
          KvInFlight,   \* KV_READ_IN_FLIGHT_MAX_BYTES
          KvDeadline,   \* KV_READ_DEADLINE_MS
          KvMaxTime,    \* bound: the clock
          KvWorkloads   \* [calls, store, faults]

ASSUME KvAssumption ==
  /\ KvValueMax \in Nat \ {0} /\ KvRespMax >= KvValueMax
  /\ KvInFlight >= KvValueMax /\ KvDeadline \in Nat \ {0}

VARIABLES kvCase,   \* workload
          kvNow,    \* clock
          kvStore,  \* external: key -> [v, m]
          kvPool,   \* state.inUseBytes
          kvBusy,   \* the call whose synchronous decode runs, or {}
          kv,       \* call -> its state
          kvPast    \* history: key -> every [v, m] it held

kvWork == KvWorkloads[kvCase]
kvVars == <<kvCase, kvNow, kvStore, kvPool, kvBusy, kv, kvPast>>

KvReads == {"get", "meta", "batch", "list"}
KvNone == [v |-> 0, m |-> 0]
Op(c) == kvWork.calls[c].op
KeysOf(c) == kvWork.calls[c].keys

\* A call's state: body is what the proxy answered, decl the declared length.
KvIdle == [pc |-> "idle", res |-> "none", got |-> <<>>, due |-> 0, aborted |-> FALSE,
           lease |-> 0, held |-> FALSE, read |-> 0, decl |-> -1, body |-> <<>>,
           at |-> 0]

KvStep(c, r) == kv' = [kv EXCEPT ![c] = r]

-----------------------------------------------------------------------------
(* Capacity and deadline *)

\* responseContentLength and acquireKvReadLease: an undeclared body takes the
\* whole capacity, a declared one at least a byte.
LeaseBytes(decl) ==
  IF decl = -1 THEN KvInFlight
  ELSE Min({KvInFlight, Max({1, decl})})

HasCapacity(decl) == kvPool + LeaseBytes(decl) <= KvInFlight

\* What release() gives back: a lease once.
Releases(r) == IF r.held THEN r.lease ELSE 0

\* inUseBytes after a release.
PoolAfter(r) == Max({0, kvPool - Releases(r)})

\* assertWithinDeadline: the timer cannot preempt a synchronous decode.
WithinDeadline(r) == ~r.aborted /\ kvNow < r.due

\* The operation's promise settles; later outcomes of the callback are ignored.
SettleWith(r, res) ==
  IF r.res # "none" THEN [r EXCEPT !.pc = "settled", !.held = FALSE]
  ELSE [r EXCEPT !.pc = "settled", !.held = FALSE, !.res = res, !.at = kvNow]

-----------------------------------------------------------------------------
(* Starting a call *)

\* assertBatchType, normalizeListLimit, requirePositiveInteger and
\* encodeKvMetadata: arguments refused before any request.
Refuses(c) == kvWork.calls[c].bad = "args"

\* withKvReadDeadline and proxyFetch up to the request.
BeginRead(c) ==
  /\ kv[c].pc = "idle" /\ Op(c) \in KvReads
  /\ KvStep(c, IF Refuses(c) THEN SettleWith(kv[c], "error")
               ELSE [kv[c] EXCEPT !.pc = "fetch", !.due = kvNow + KvDeadline])
  /\ UNCHANGED <<kvCase, kvNow, kvStore, kvPool, kvPast>>

\* put, and delete: a stream is read first, anything else is measured.
BeginWrite(c) ==
  /\ kv[c].pc = "idle" /\ Op(c) \in {"put", "delete"}
  /\ LET oversized == kvWork.calls[c].value > KvValueMax
     IN KvStep(c, IF Op(c) = "put" /\ kvWork.calls[c].stream THEN [kv[c] EXCEPT !.pc = "collect"]
                  ELSE IF Refuses(c) \/ oversized THEN SettleWith(kv[c], "error")
                  ELSE [kv[c] EXCEPT !.pc = "fetch", !.read = kvWork.calls[c].value])
  /\ UNCHANGED <<kvCase, kvNow, kvStore, kvPool, kvPast>>

\* readBoundedStreamBytes of a put's stream: too long is an error.
CollectOver(r) == SettleWith(r, "error")

\* The next chunk of a put's stream, its end, or its failure.
Collect(c) ==
  /\ kv[c].pc = "collect"
  /\ LET r == kv[c]
         left == kvWork.calls[c].value - r.read
     IN \/ \E k \in 1 .. left :
             KvStep(c, IF r.read + k > KvValueMax THEN CollectOver(r)
                       ELSE [r EXCEPT !.read = @ + k])
        \/ left = 0 /\ KvStep(c, IF Refuses(c) THEN SettleWith(r, "error")
                                 ELSE [r EXCEPT !.pc = "fetch"])
        \/ kvWork.calls[c].bad = "stream" /\ KvStep(c, SettleWith(r, "error"))
  /\ UNCHANGED <<kvCase, kvNow, kvStore, kvPool, kvPast>>

-----------------------------------------------------------------------------
(* The proxy, external *)

\* It applies the request at one moment and answers, or fails; a failed write
\* may have been applied.
ProxyServes(c) ==
  /\ kv[c].pc = "fetch"
  /\ LET r == kv[c]
         write == [v |-> r.read, m |-> IF r.read = 0 THEN 0 ELSE kvWork.calls[c].meta]
         apply == [k \in KvKeys |-> IF k \in KeysOf(c) THEN write ELSE kvStore[k]]
         found == [k \in KeysOf(c) |-> kvStore[k]]
     IN \/ /\ Op(c) \in KvReads
           /\ KvStep(c, [r EXCEPT !.pc = "answer", !.body = found])
           /\ UNCHANGED <<kvStore, kvPast>>
        \/ /\ Op(c) \notin KvReads
           /\ kvStore' = apply
           /\ kvPast' = [k \in KvKeys |-> kvPast[k] \cup {apply[k]}]
           /\ KvStep(c, [r EXCEPT !.pc = "answer"])
        \/ /\ kvWork.faults \cap {"status", "network"} # {}
           /\ KvStep(c, [r EXCEPT !.pc = "failing"])
           /\ UNCHANGED <<kvStore, kvPast>>
  /\ UNCHANGED <<kvCase, kvNow, kvPool>>

-----------------------------------------------------------------------------
(* The response *)

\* The bound of a response body: a bare value, or an envelope.
BodyMax(c) == IF Op(c) = "get" THEN KvValueMax ELSE KvRespMax

\* Bytes of a response: the value itself, or an envelope around the values.
BodyBytes(c, body) ==
  IF Op(c) = "get" THEN body[Min(KeysOf(c))].v
  ELSE 1 + MapThenSumSet(LAMBDA k : body[k].v, KeysOf(c))

\* Bug: a 404 of any read route is a missing key.
MissingAnswer_AnyRoute(c, status) == status = 404

\* okStatuses: 404 is an answer on /kv/get only.
MissingAnswer(c, status) == Op(c) = "get" /\ status = 404

\* statusError: which failed reads count as infrastructure.
StatusError(c, status) ==
  IF Op(c) \in KvReads /\ (status \in {401, 404, 405} \/ status >= 500) THEN "infra" ELSE "error"

\* proxyFetch with a failed request or status; a read past its deadline is
\* a timeout whatever the failure was.
AnswerFails(c) ==
  /\ kv[c].pc \in {"answer", "failing"}
  /\ \/ /\ "network" \in kvWork.faults
        /\ KvStep(c, SettleWith(kv[c], IF Op(c) \in KvReads THEN "infra" ELSE "error"))
     \/ /\ "status" \in kvWork.faults
        /\ \E s \in {400, 404, 503} :
             /\ s = 404 => Op(c) # "get"
             /\ KvStep(c, IF MissingAnswer(c, s) THEN [kv[c] EXCEPT !.pc = "missing"]
                          ELSE SettleWith(kv[c], StatusError(c, s)))
  /\ UNCHANGED <<kvCase, kvNow, kvStore, kvPool, kvPast>>

\* The proxy's answer to a write, and a missing key of a get.
AnswerPlain(c) ==
  /\ kv[c].pc = "answer"
  /\ \/ /\ Op(c) \notin KvReads
        /\ KvStep(c, SettleWith(kv[c], "done"))
     \/ /\ Op(c) = "get" /\ kv[c].body[Min(KeysOf(c))] = KvNone
        /\ KvStep(c, [kv[c] EXCEPT !.pc = "missing"])
  /\ UNCHANGED <<kvCase, kvNow, kvStore, kvPool, kvPast>>

\* The discarded 404 body: null, if the deadline still holds.
AnswerMissing(c) ==
  /\ kv[c].pc = "missing"
  /\ KvStep(c, SettleWith(kv[c], IF WithinDeadline(kv[c]) THEN "null" ELSE "timeout"))
  /\ UNCHANGED <<kvCase, kvNow, kvStore, kvPool, kvPast>>

\* consumeReadResponse: headers with a true, a missing or a wrong length; no
\* lease without capacity, and no body over the limit.
AnswerHeaders(c) ==
  /\ kv[c].pc = "answer" /\ Op(c) \in KvReads
  /\ ~(Op(c) = "get" /\ kv[c].body[Min(KeysOf(c))] = KvNone)
  /\ LET r == kv[c]
         bytes == BodyBytes(c, r.body)
         wrong == IF "length" \in kvWork.faults THEN {bytes - 1, bytes + 1} \ {-1} ELSE {}
     IN \E decl \in {bytes, -1} \cup wrong :
          LET big == decl > BodyMax(c)
          IN IF r.aborted THEN KvStep(c, SettleWith(r, "timeout")) /\ UNCHANGED kvPool
             ELSE IF ~HasCapacity(decl) THEN KvStep(c, SettleWith(r, "capacity")) /\ UNCHANGED kvPool
             ELSE IF big THEN KvStep(c, SettleWith(r, "infra")) /\ UNCHANGED kvPool
             ELSE /\ KvStep(c, [r EXCEPT !.pc = "body", !.decl = decl, !.held = TRUE, !.read = 0,
                                         !.lease = LeaseBytes(decl)])
                  /\ kvPool' = kvPool + LeaseBytes(decl)
  /\ UNCHANGED <<kvCase, kvNow, kvStore, kvPast>>

\* The read of the body throws: the lease goes back in the finally block.
BodyThrows(c) == KvStep(c, SettleWith(kv[c], "infra")) /\ kvPool' = PoolAfter(kv[c])

\* A body that ended has exactly the declared length.
LengthOk(r) == r.decl = -1 \/ r.read = r.decl

\* readBoundedStreamBytes and readNativeKvResponseBytes: a native read takes
\* the body whole, a stream comes in chunks; then the synchronous decode.
BodyArrives(c) ==
  /\ kv[c].pc = "body"
  /\ LET r == kv[c]
         bytes == BodyBytes(c, r.body)
         native == Op(c) = "get" /\ r.decl # -1
         cut == IF "length" \in kvWork.faults /\ r.decl = bytes THEN 0 .. bytes ELSE {bytes}
     IN IF r.aborted THEN BodyThrows(c) /\ UNCHANGED kvBusy
        ELSE \/ \E k \in IF native THEN {} ELSE 1 .. bytes - r.read :
                  IF r.read + k > BodyMax(c) \/ (r.decl # -1 /\ r.read + k > r.decl)
                  THEN BodyThrows(c) /\ UNCHANGED kvBusy
                  ELSE KvStep(c, [r EXCEPT !.read = @ + k]) /\ UNCHANGED <<kvPool, kvBusy>>
             \/ \E n \in IF native THEN cut ELSE cut \cap {r.read} :
                  IF LengthOk([r EXCEPT !.read = n])
                  THEN KvStep(c, [r EXCEPT !.pc = "decode", !.read = n]) /\ kvBusy' = {c}
                       /\ UNCHANGED kvPool
                  ELSE BodyThrows(c) /\ UNCHANGED kvBusy
             \/ "network" \in kvWork.faults /\ BodyThrows(c) /\ UNCHANGED kvBusy
  /\ UNCHANGED <<kvCase, kvNow, kvStore, kvPast>>

\* parseKvBatchEnvelope, parseKvMetadataEnvelope, parseKvListEnvelope: an
\* answer that is not the requested one is an infrastructure error.
EnvelopeOk(c, env) == env = "good" \/ (env = "shuffled" /\ Op(c) # "batch")

\* The values as the caller gets them, by position in the answer.
Decoded(c, env) ==
  [k \in KeysOf(c) |->
     kv[c].body[IF env = "shuffled" THEN Min(KeysOf(c)) + Max(KeysOf(c)) - k ELSE k]]

\* coerceValue: JSON that does not parse, or an unsupported type.
Coerces(c) == kvWork.calls[c].bad # "type"

\* consume() and the finally blocks around it, one synchronous step however
\* long it takes: the deadline is checked again, the lease released.
Decode(c) ==
  /\ kvBusy = {c}
  /\ \E env \in {"good"} \cup (kvWork.faults \cap {"shuffled", "malformed"}) :
       LET r == kv[c]
           shuffled == env = "shuffled" /\ Op(c) = "batch"
           res == IF Op(c) # "get" /\ ~EnvelopeOk(c, env) THEN "infra"
                  ELSE IF Coerces(c) THEN "value" ELSE "error"
           out == IF WithinDeadline(r) THEN res ELSE "timeout"
       IN KvStep(c, [SettleWith(r, out) EXCEPT
                       !.got = IF out = "value" THEN Decoded(c, IF shuffled THEN env ELSE "good")
                               ELSE @])
  /\ kvPool' = PoolAfter(kv[c])
  /\ kvBusy' = {}
  /\ UNCHANGED <<kvCase, kvNow, kvStore, kvPast>>

\* The deadline's timer: the caller gets the timeout, the lease goes back at
\* once, and the aborted callback unwinds later.
ReadTimer(c) ==
  /\ kv[c].pc \notin {"idle", "settled"} /\ Op(c) \in KvReads
  /\ kvNow >= kv[c].due /\ ~kv[c].aborted
  /\ KvStep(c, [kv[c] EXCEPT !.aborted = TRUE, !.res = "timeout", !.at = kvNow, !.held = FALSE])
  /\ kvPool' = PoolAfter(kv[c])
  /\ UNCHANGED <<kvCase, kvNow, kvStore, kvPast>>

KvTick ==
  /\ kvNow < KvMaxTime
  /\ kvNow' = kvNow + 1
  /\ UNCHANGED <<kvCase, kvStore, kvPool, kvBusy, kv, kvPast>>

KvInit ==
  \E i \in DOMAIN KvWorkloads : LET work == KvWorkloads[i] IN
    /\ kvCase = i
    /\ kvNow = 0 /\ kvPool = 0 /\ kvBusy = {}
    /\ kvStore = work.store
    /\ kvPast = [k \in KvKeys |-> {work.store[k]}]
    /\ kv = [c \in KvCalls |-> KvIdle]

KvAction(c) ==
  \/ BeginRead(c) \/ BeginWrite(c) \/ Collect(c) \/ ProxyServes(c)
  \/ AnswerFails(c) \/ AnswerPlain(c) \/ AnswerMissing(c) \/ AnswerHeaders(c) \/ ReadTimer(c)

KvNext ==
  \/ \E c \in DOMAIN kvWork.calls :
       \/ kvBusy = {} /\ KvAction(c) /\ UNCHANGED kvBusy
       \/ kvBusy = {} /\ BodyArrives(c)
       \/ Decode(c)
  \/ KvTick

KvSpec == KvInit /\ [][KvNext]_kvVars

-----------------------------------------------------------------------------
(* Properties *)

\* The capacity in use is exactly the leases of reads in progress, whichever
\* of abort, failure and completion ends a read, and in whatever order
\* (acquireKvReadLease, release).
KvPoolExact ==
  /\ kvPool = MapThenSumSet(LAMBDA c : kv[c].lease, {c \in KvCalls : kv[c].held})
  /\ kvPool <= KvInFlight

\* A read that returns a value or null does so before its deadline, also when
\* the timer is late or the decode is slow (assertWithinDeadline).
ReadsInTime ==
  \A c \in DOMAIN kvWork.calls : kv[c].res \in {"value", "null"} /\ Op(c) \in KvReads => kv[c].at < kv[c].due

\* A value is never made of part of a body (Content-Length checks of both
\* body readers).
ReadsWhole ==
  \A c \in DOMAIN kvWork.calls :
    kv[c].res = "value" => kv[c].read = BodyBytes(c, kv[c].body)

\* Every key of a returned batch has the value and metadata that the proxy
\* found under that key (parseKvBatchEnvelope).
ReadsMatchKeys ==
  \A c \in DOMAIN kvWork.calls :
    kv[c].res = "value" => \A k \in KeysOf(c) : kv[c].got[k] = kv[c].body[k] /\ kv[c].got[k] \in kvPast[k]

\* null means that the key was absent at some moment, never that the proxy
\* failed (the 404 rule of proxyFetch).
NullMeansAbsent ==
  \A c \in DOMAIN kvWork.calls : kv[c].res = "null" => \A k \in KeysOf(c) : KvNone \in kvPast[k]

\* A key only ever holds a value some put was given, whole, with the metadata
\* of the same put (put buffers its value before the request).
StoredWhole ==
  \A k \in KvKeys : \A e \in kvPast[k] :
    \/ e \in {kvWork.store[k], KvNone}
    \/ \E c \in DOMAIN kvWork.calls :
         Op(c) = "put" /\ k \in KeysOf(c) /\ e = [v |-> kvWork.calls[c].value, m |-> kvWork.calls[c].meta]

\* What a KV call returns or stores is whole, in time and belongs to its key,
\* and the read capacity counts exactly the reads in progress.
KvExact ==
  /\ KvPoolExact
  /\ ReadsInTime
  /\ ReadsWhole
  /\ ReadsMatchKeys
  /\ NullMeansAbsent
  /\ StoredWhole

=============================================================================
