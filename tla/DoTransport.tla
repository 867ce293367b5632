---------------------------- MODULE DoTransport ----------------------------
(***************************************************************************)
(* The caller's side of a Durable Object call: the binding adapter of a    *)
(* runtime process, its shared cache of owner hints, and the replays it    *)
(* makes when an owner moved or cannot be reached                          *)
(* (runtime/_wdl-do-transport.js, runtime/_wdl-owner-hint-cache.js,        *)
(* runtime/bindings/do.js), against the tasks that answer it: each         *)
(* resolves the owner, runs the object, forwards once more or hints        *)
(* (do-runtime/index.js, do-runtime/owner-client.js,                       *)
(* shared/owner-forwarder.js).                                             *)
(***************************************************************************)
EXTENDS Naturals, FiniteSets

CONSTANTS
  TxTasks,  \* do-runtime tasks
  TxCalls,  \* concurrent calls to objects of one shard
  NoHint,   \* empty cache slot
  MaxMoves  \* bound of owner changes

TxKinds == {"get", "post", "rpc", "connect"}

VARIABLES
  txOwner,  \* the task that owns the shard
  moves,
  hint,     \* ownerHintCache entry of the shard
  tx        \* per call: phase, executions so far, requests sent, answer

txVars == <<txOwner, moves, hint, tx>>

----------------------------------------------------------------------------
(* What a task answers.  ran: the tenant's handler has run.                *)

Answer(kind, ran) == [kind |-> kind, ran |-> ran]

\* Ownership errors thrown before the handler, all in DO_OWNER_RACE_RETRY_CODES.
RaceAnswer == Answer("race", FALSE)

\* dispatchToOwner on the owner's task: the host actor runs the object or refuses.
LocalAnswers == {RaceAnswer, Answer("reply", TRUE)}

\* forwardToOwner and forwardConnectToOwner: what the owner says is passed on; if
\* the connection fails the caller is told owner_unavailable, run or not.
ForwardAnswers == LocalAnswers \cup {Answer("owned", ran) : ran \in BOOLEAN}

\* dispatchToOwner and dispatchConnect on task t.  The claim may also race.
TaskAnswers(t, kind) ==
  IF t = txOwner THEN LocalAnswers
  ELSE IF kind = "connect" THEN {RaceAnswer, Answer("hint", FALSE)}
  ELSE {RaceAnswer} \cup ForwardAnswers

\* The request or its answer is lost, or a proxy on the way gives up.
LinkAnswers == {Answer(k, ran) : k \in {"throw", "gateway"}, ran \in BOOLEAN}

OwnerFetch(t, kind) == TaskAnswers(t, kind) \cup LinkAnswers

\* DO_BACKEND may be any task.
RouterFetch(kind) == LinkAnswers \cup UNION {TaskAnswers(t, kind) : t \in TxTasks}

----------------------------------------------------------------------------
(* The adapter.                                                            *)

Fresh(kind) == [pc |-> "start", kind |-> kind, to |-> NoHint, runs |-> 0, sent |-> 0,
                answer |-> "none"]

\* dispatchDoInvokeWithHintCache retries owner races; dispatchDoConnect... does not.
RetryOwnerRace(k) == k # "connect"

\* Every method is replayed.
MayReplay_AnyMethod(k) == k # "connect"

\* replayOwnerUnavailableForFetch: only GET and HEAD may run twice.
MayReplay(k) == k = "get"

\* publicOwnershipErrorResponse: an owner_unavailable stays of unknown outcome.
PublicCode(kind) == IF kind = "race" THEN "refused" ELSE "unknown"

Counted(c, r) ==
  [tx[c] EXCEPT !.runs = @ + (IF r.ran THEN 1 ELSE 0), !.sent = @ + 1, !.to = NoHint]

\* The response handed to the tenant; rpcResultFromResponse may find it unreadable.
Delivered(call, answer) == [call EXCEPT !.pc = "done", !.answer = answer]

\* finish(): one more try for a race, no control answer for the tenant, and the
\* owner's address learned from its reply.
FinishWith(c, r, raceRetried) ==
  LET d == Counted(c, r) IN
  CASE r.kind = "throw" ->
         tx' = [tx EXCEPT ![c] = Delivered(d, "thrown")] /\ UNCHANGED hint
    [] r.kind = "race" /\ RetryOwnerRace(d.kind) /\ ~raceRetried ->
         tx' = [tx EXCEPT ![c] = [d EXCEPT !.pc = "retry"]] /\ hint' = NoHint
    [] r.kind = "hint" ->
         tx' = [tx EXCEPT ![c] = Delivered(d, "unknown")] /\ hint' = NoHint
    [] \/ r.kind = "race" /\ ~(RetryOwnerRace(d.kind) /\ ~raceRetried)
       \/ r.kind = "owned" ->
         tx' = [tx EXCEPT ![c] = Delivered(d, PublicCode(r.kind))] /\ hint' = NoHint
    [] r.kind = "gateway" ->
         tx' = [tx EXCEPT ![c] = Delivered(d, "gateway")] /\ UNCHANGED hint
    [] r.kind = "reply" ->
         /\ \E a \in {"reply"} \cup (IF d.kind = "rpc" THEN {"unknown"} ELSE {}) :
              tx' = [tx EXCEPT ![c] = Delivered(d, a)]
         /\ hint' = txOwner

\* replayOrUnavailable
ReplayOrUnavailable(c, r) ==
  /\ tx' = [tx EXCEPT ![c] = IF MayReplay(tx[c].kind)
                             THEN [Counted(c, r) EXCEPT !.pc = "replay"]
                             ELSE Delivered(Counted(c, r), "unknown")]
  /\ hint' = NoHint

GoRoute(c, r) == tx' = [tx EXCEPT ![c] = [Counted(c, r) EXCEPT !.pc = "route"]] /\ hint' = NoHint

\* A cached hint is tried first.
Begin(c, kind) ==
  /\ tx[c].pc = "idle"
  /\ tx' = [tx EXCEPT ![c] = IF hint = NoHint THEN [Fresh(kind) EXCEPT !.pc = "route"]
                             ELSE [Fresh(kind) EXCEPT !.pc = "cached", !.to = hint]]
  /\ UNCHANGED <<txOwner, moves, hint>>

\* The answer of the cached owner.
CachedOwner(c) ==
  LET k == tx[c].kind IN
  /\ tx[c].pc = "cached"
  /\ \E r \in OwnerFetch(tx[c].to, k) :
       CASE r.kind \in {"throw", "gateway"} -> ReplayOrUnavailable(c, r)
         [] r.kind \in {"race", "hint"} /\ ~RetryOwnerRace(k) -> GoRoute(c, r)
         [] r.kind = "owned" /\ MayReplay(k) -> GoRoute(c, r)
         [] OTHER -> FinishWith(c, r, FALSE)
  /\ UNCHANGED <<txOwner, moves>>

\* The router's answer; a WebSocket connect follows its hint to the owner.
Route1(c) ==
  LET k == tx[c].kind IN
  /\ tx[c].pc = "route"
  /\ \E r \in RouterFetch(k) :
       IF r.kind = "hint" /\ ~RetryOwnerRace(k)
       THEN /\ hint' = txOwner
            /\ tx' = [tx EXCEPT ![c] = [Counted(c, r) EXCEPT !.pc = "hinted", !.to = txOwner]]
       ELSE FinishWith(c, r, FALSE)
  /\ UNCHANGED <<txOwner, moves>>

\* The hinted owner's answer.
HintedOwner(c) ==
  /\ tx[c].pc = "hinted"
  /\ \E r \in OwnerFetch(tx[c].to, tx[c].kind) :
       IF r.kind \in {"throw", "gateway"} THEN ReplayOrUnavailable(c, r) ELSE FinishWith(c, r, FALSE)
  /\ UNCHANGED <<txOwner, moves>>

\* The replay through the router, and the one retry after a race.
Replay(c) ==
  /\ tx[c].pc = "replay"
  /\ \E r \in RouterFetch(tx[c].kind) : FinishWith(c, r, FALSE)
  /\ UNCHANGED <<txOwner, moves>>

RetryRace(c) ==
  /\ tx[c].pc = "retry"
  /\ \E r \in RouterFetch(tx[c].kind) : FinishWith(c, r, TRUE)
  /\ UNCHANGED <<txOwner, moves>>

\* The shard gets another owner; the cache drops the entry for newer ones.
MoveOwner(t) ==
  /\ moves < MaxMoves
  /\ t # txOwner
  /\ txOwner' = t
  /\ moves' = moves + 1
  /\ UNCHANGED <<hint, tx>>

TrimHint == hint # NoHint /\ hint' = NoHint /\ UNCHANGED <<txOwner, moves, tx>>

TxInit ==
  /\ txOwner \in TxTasks
  /\ moves = 0
  /\ hint = NoHint
  /\ tx = [c \in TxCalls |-> [Fresh("get") EXCEPT !.pc = "idle"]]

TxNext ==
  \/ \E c \in TxCalls :
       \/ \E kind \in TxKinds : Begin(c, kind)
       \/ CachedOwner(c) \/ Route1(c) \/ HintedOwner(c) \/ Replay(c) \/ RetryRace(c)
  \/ \E t \in TxTasks : MoveOwner(t)
  \/ TrimHint

TxSpec == TxInit /\ [][TxNext]_txVars

----------------------------------------------------------------------------
(* Properties.                                                             *)

\* A call that is not GET or HEAD runs at most once, whatever moves, is lost or
\* raced; a GET or HEAD at most twice (replayOrUnavailable, finish()).
AtMostOnce ==
  \A c \in TxCalls : tx[c].runs <= (IF tx[c].kind = "get" THEN 2 ELSE 1)

\* A tenant that is told an ownership code other than owner_unavailable may
\* retry: the call did not run (publicOwnershipErrorResponse).
RefusedDidNotRun ==
  \A c \in TxCalls : tx[c].answer = "refused" /\ tx[c].kind # "get" => tx[c].runs = 0

\* However often the shard moves, a call sends at most three requests.
FewRequests == \A c \in TxCalls : tx[c].sent <= 3

\* A Durable Object call runs at most once (a GET or HEAD twice), not at all if
\* the caller is told it was refused, and sends few requests.
CallsOnce ==
  /\ AtMostOnce
  /\ RefusedDidNotRun
  /\ FewRequests

=============================================================================
