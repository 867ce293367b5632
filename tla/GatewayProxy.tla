---------------------------- MODULE GatewayProxy ----------------------------
(***************************************************************************)
(* One public WebSocket and its upstream connections                       *)
(* (proxyGatewayWebSocket of gateway/websocket.js): the lifecycle gate,    *)
(* the grace period after an upstream error, the reconnect loop with its   *)
(* budget, the ordered send queue and every way to close.  A promise       *)
(* continuation is an action; those that await the lifecycle gate run in   *)
(* the order they began to wait, before any event (they are microtasks).   *)
(* Sockets are numbered in the order the backend accepts them; 0 is none.  *)
(***************************************************************************)
EXTENDS Naturals, Sequences, FiniteSets

CONSTANTS PxFrames,   \* bound: client frames
          PxSockets,  \* bound: upstream sockets
          PxBuffer,   \* maxBufferedClientMessages
          PxBudget    \* reconnectDelaysMs.length

ASSUME PxAssumption == {PxFrames, PxSockets, PxBuffer, PxBudget} \subseteq Nat

VARIABLES px,   \* the variables of the closure, and `live`, `passed`: the sockets
                \* still open, and those a lifecycle check followed
          snd,  \* the send queue's running continuation
          loop, \* reconnectLoop and upstreamConnecting
          wait  \* who awaits the lifecycle gate, first come first

pxVars == <<px, snd, loop, wait>>

PxIdle == [ph |-> "idle", again |-> FALSE]
NoLoop == [ph |-> "none", left |-> 0]

PxInit ==
  /\ px \in [closed : {FALSE}, code : {0}, up : {0}, pend : {1}, err : {0}, gate : {"run"}, said : {"none"},
             covers : {{1}}, live : {{1}}, passed : {{}}, born : {1}, frames : {0},
             queue : {<<>>}, out : {<<>>}, noReconnect : BOOLEAN]
  /\ snd = PxIdle /\ loop = NoLoop
  /\ wait = <<"initial">>

-----------------------------------------------------------------------------
(* Closing                                                                   *)

\* closeDownstream with markDownstreamClosed
CloseDownstream(p, code) ==
  IF p.closed THEN p ELSE [p EXCEPT !.closed = TRUE, !.code = code, !.err = 0, !.queue = <<>>]

\* Bug: a candidate that is still being fenced is forgotten.
CloseBoth_Candidate(p, code) ==
  [CloseDownstream(p, code) EXCEPT !.up = 0, !.pend = 0, !.live = @ \ {p.up}]

\* closeDownstreamAndUpstream
CloseBoth(p, code) ==
  [CloseDownstream(p, code) EXCEPT !.up = 0, !.pend = 0, !.live = @ \ {p.up, p.pend}]

\* closePendingUpstream
ClosePending(p) == [p EXCEPT !.pend = 0, !.live = @ \ {p.pend}]

\* closeWithoutReconnect
CloseWithoutReconnect(p, s) ==
  IF p.up # s \/ p.closed THEN p
  ELSE [CloseDownstream(p, 1012) EXCEPT !.up = 0, !.live = @ \ {s}]

-----------------------------------------------------------------------------
(* The lifecycle gate                                                        *)

\* beginLifecycleCheck joins a check that runs or has failed.
BeginCheck(p) == IF p.gate # "none" THEN p ELSE [p EXCEPT !.gate = "run", !.covers = p.live]

\* Await the gate, which runs.
Await(w) == wait' = Append(wait, w)

\* The gate was resolved, or the loop ended, and what awaited it has not run.
Draining == (wait # <<>> /\ px.gate # "run") \/ (snd.ph = "loop" /\ loop.ph = "none")

\* checkLifecycle answers, or its attempts are used up.
GateResolves ==
  \E d \in {"continue", "restart", "error"} :
    /\ px.gate = "run"
    /\ px' = [px EXCEPT !.gate = d, !.said = d,
                        !.passed = IF d = "continue" THEN @ \cup px.covers ELSE @]
    /\ UNCHANGED <<snd, loop, wait>>

\* requireLifecycleContinuation for waiter w: Continues, or PxRefused(w) closes.
Turn(w) == wait # <<>> /\ px.gate # "run" /\ Head(wait) = w /\ wait' = Tail(wait)
Continues(w) == Turn(w) /\ px.said = "continue"
PxRefused(w) == Turn(w) /\ px.said # "continue"
GateCleared == IF px.gate = "continue" THEN [px EXCEPT !.gate = "none", !.covers = {}] ELSE px
AfterRefusal ==
  IF px.closed THEN px ELSE CloseBoth(px, IF px.said = "restart" THEN 1012 ELSE 1011)

\* scheduleReconnect
Reconnects == IF px.closed \/ px.up # 0 \/ loop.ph # "none" THEN loop
              ELSE [ph |-> "delay", left |-> PxBudget]

\* attachUpstream
Attach(p, s) == [p EXCEPT !.err = 0, !.pend = IF @ = s THEN 0 ELSE @, !.up = s]

\* attachInitialUpstream
InitialAttached ==
  /\ Continues("initial")
  /\ px' = IF px.pend = 0 \/ px.closed THEN GateCleared ELSE Attach(GateCleared, px.pend)
  /\ UNCHANGED <<snd, loop>>

InitialRefused ==
  /\ PxRefused("initial")
  /\ px' = AfterRefusal
  /\ UNCHANGED <<snd, loop>>

-----------------------------------------------------------------------------
(* Upstream events                                                           *)

\* handleUpstreamFailure of socket s, which the caller found attached.
Failure(p, s) ==
  IF p.noReconnect
  THEN px' = CloseWithoutReconnect(p, s) /\ UNCHANGED wait
  ELSE LET q == [p EXCEPT !.up = 0]
       IN IF p.closed THEN px' = q /\ UNCHANGED wait
          ELSE px' = BeginCheck(q) /\ Await("failure")

\* The "error" event starts the grace period of the close event.
UpstreamError ==
  /\ px.up # 0 /\ px.up \in px.live /\ px.err # px.up
  /\ px' = [px EXCEPT !.live = @ \ {px.up}, !.err = px.up]
  /\ UNCHANGED <<snd, loop, wait>>

\* handleUpstreamClose: a terminal code closes the client, 1001, 1006 and 1011
\* reconnect.
UpstreamClosed ==
  \E terminal \in BOOLEAN :
    /\ px.up # 0
    /\ px.up \in px.live \/ px.err = px.up
    /\ LET s == px.up
           p == [px EXCEPT !.live = @ \ {s}, !.err = IF @ = s THEN 0 ELSE @]
       IN IF terminal
          THEN px' = CloseDownstream([p EXCEPT !.up = 0], 1000) /\ UNCHANGED wait
          ELSE Failure(p, s)
    /\ UNCHANGED <<snd, loop>>

\* The grace period ends without a close event.
GraceEnds ==
  /\ px.err # 0
  /\ IF px.up = px.err THEN Failure([px EXCEPT !.err = 0], px.err)
     ELSE px' = [px EXCEPT !.err = 0] /\ UNCHANGED wait
  /\ UNCHANGED <<snd, loop>>

FailureContinues ==
  /\ Continues("failure")
  /\ px' = GateCleared
  /\ loop' = Reconnects
  /\ UNCHANGED snd

FailureRefused ==
  /\ PxRefused("failure")
  /\ px' = AfterRefusal
  /\ UNCHANGED <<snd, loop>>

\* An upstream message the client cannot be sent.
DownstreamSendFails ==
  /\ px.up # 0 /\ px.up \in px.live /\ px.err # px.up /\ ~px.closed
  /\ px' = CloseBoth(px, 1011)
  /\ UNCHANGED <<snd, loop, wait>>

-----------------------------------------------------------------------------
(* The reconnect loop                                                        *)

\* The loop ends without a socket: scheduleReconnect closes the client; a send
\* that awaits the loop is rejected with it.
LoopFails(p) ==
  /\ loop' = NoLoop
  /\ px' = IF p.closed \/ p.up # 0 THEN p ELSE CloseDownstream(p, 1011)

\* An attempt failed: the next delay, or the budget is spent.
NextAttempt(p) ==
  IF loop.left > 1 THEN loop' = [ph |-> "delay", left |-> loop.left - 1] /\ px' = p
  ELSE LoopFails(p)

\* After the delay, up to the first await of ensureUpstream.
LoopDelayed ==
  /\ loop.ph = "delay"
  /\ IF px.closed THEN LoopFails(px) /\ UNCHANGED wait
     ELSE IF px.up # 0 THEN loop' = NoLoop /\ UNCHANGED <<px, wait>>
     ELSE IF px.gate # "none"
     THEN loop' = [loop EXCEPT !.ph = "allow"] /\ Await("allow") /\ UNCHANGED px
     ELSE loop' = [loop EXCEPT !.ph = "connect"] /\ UNCHANGED <<px, wait>>
  /\ UNCHANGED snd

LoopAllowed ==
  /\ Continues("allow")
  /\ px' = GateCleared
  /\ loop' = IF px.up # 0 THEN NoLoop ELSE [loop EXCEPT !.ph = "connect"]
  /\ UNCHANGED snd

LoopRefused ==
  /\ PxRefused("allow")
  /\ NextAttempt(AfterRefusal)
  /\ UNCHANGED snd

ConnectFails ==
  /\ loop.ph = "connect"
  /\ NextAttempt(px)
  /\ UNCHANGED <<snd, wait>>

\* The backend accepts socket s: closed at once after the client left, fenced
\* by a lifecycle check otherwise.
PxCandidate(s) ==
  LET p == [px EXCEPT !.born = s, !.live = @ \cup {s}, !.pend = s]
  IN IF px.closed THEN NextAttempt(ClosePending(p)) /\ UNCHANGED wait
     ELSE /\ px' = BeginCheck(p)
          /\ Await("connect")
          /\ loop' = [loop EXCEPT !.ph = "fence"]

Connected ==
  /\ loop.ph = "connect" /\ px.born < PxSockets
  /\ PxCandidate(px.born + 1)
  /\ UNCHANGED snd

ConnectFenced ==
  /\ Continues("connect")
  /\ IF px.closed THEN NextAttempt(ClosePending(GateCleared))
     ELSE px' = Attach(GateCleared, px.pend) /\ loop' = NoLoop
  /\ UNCHANGED snd

ConnectRefused ==
  /\ PxRefused("connect")
  /\ NextAttempt(ClosePending(AfterRefusal))
  /\ UNCHANGED snd

-----------------------------------------------------------------------------
(* The client                                                                *)

ClientFrame ==
  /\ ~px.closed /\ px.frames < PxFrames
  /\ px' = IF Len(px.queue) >= PxBuffer
           THEN [CloseBoth(px, 1013) EXCEPT !.frames = @ + 1]
           ELSE [px EXCEPT !.frames = @ + 1, !.queue = Append(@, px.frames + 1)]
  /\ UNCHANGED <<snd, loop, wait>>

\* The close and error events of the client, and the lifecycle notification.
ClientGone ==
  \E code \in {1000, 1011, 1012} :
    /\ ~px.closed
    /\ px' = CloseBoth(px, code)
    /\ UNCHANGED <<snd, loop, wait>>

\* releaseClientMessage; the queue continues with the next frame.
FrameDone(p) == /\ px' = [p EXCEPT !.queue = IF @ = <<>> THEN @ ELSE Tail(@)]
               /\ snd' = PxIdle

SendRejected(p) == FrameDone(IF p.closed THEN p ELSE CloseBoth(p, 1011))

\* sendClientMessage up to its first await.
SendStarts ==
  /\ snd.ph = "idle" /\ px.queue # <<>>
  /\ snd' = [snd EXCEPT !.ph = "grace"]
  /\ UNCHANGED <<px, loop, wait>>

\* The error decision is made: pass the gate.
SendGraced ==
  /\ snd.ph = "grace" /\ px.err = 0
  /\ IF px.closed THEN SendRejected(px) /\ UNCHANGED wait
     ELSE IF px.gate # "none"
     THEN Await("send") /\ snd' = [snd EXCEPT !.ph = "gate"] /\ UNCHANGED px
     ELSE snd' = [snd EXCEPT !.ph = "pick"] /\ UNCHANGED <<px, wait>>
  /\ UNCHANGED loop

SendGated ==
  /\ Continues("send")
  /\ px' = GateCleared
  /\ snd' = [snd EXCEPT !.ph = "pick"]
  /\ UNCHANGED loop

SendGateRefused ==
  /\ PxRefused("send")
  /\ SendRejected(AfterRefusal)
  /\ UNCHANGED loop

\* send() succeeds; a frame handed to a dying socket may be lost.
SendOk(p, c) ==
  /\ FrameDone(IF p.queue = <<>> \/ c \notin p.live THEN p ELSE [p EXCEPT !.out = Append(@, Head(p.queue))])
  /\ UNCHANGED wait

\* A frame whose send failed keeps its place.
Retried(p) == p

\* send() throws: once more over a new connection, then the client is closed.
SendThrows(p, c) ==
  /\ p.queue # <<>>
  /\ IF p.noReconnect THEN FrameDone(CloseWithoutReconnect(p, c)) /\ UNCHANGED wait
     ELSE IF snd.again THEN SendRejected(p) /\ UNCHANGED wait
     ELSE /\ px' = Retried(BeginCheck([p EXCEPT !.up = IF @ = c THEN 0 ELSE @, !.live = @ \ {c}]))
          /\ Await("resend")
          /\ snd' = [ph |-> "regate", again |-> TRUE]

\* upstream || await reconnectWithBudget(): the loop starts, or is joined.
SendPicks ==
  /\ snd.ph = "pick" /\ px.err = 0
  /\ IF px.closed THEN SendRejected(px) /\ UNCHANGED <<loop, wait>>
     ELSE IF px.up # 0 THEN (SendOk(px, px.up) \/ SendThrows(px, px.up)) /\ UNCHANGED loop
     ELSE snd' = [snd EXCEPT !.ph = "loop"] /\ loop' = Reconnects /\ UNCHANGED <<px, wait>>

\* The awaited loop has ended: with the attached socket, or with an error.
SendReconnected ==
  /\ snd.ph = "loop" /\ loop.ph = "none"
  /\ IF px.closed \/ px.up = 0 THEN SendRejected(px) /\ UNCHANGED wait
     ELSE SendOk(px, px.up) \/ SendThrows(px, px.up)
  /\ UNCHANGED loop

ResendGated ==
  /\ Continues("resend")
  /\ px' = GateCleared
  /\ snd' = [snd EXCEPT !.ph = "loop"]
  /\ loop' = Reconnects

ResendRefused ==
  /\ PxRefused("resend")
  /\ SendRejected(AfterRefusal)
  /\ UNCHANGED loop

Continuation ==
  \/ InitialAttached \/ InitialRefused \/ FailureContinues \/ FailureRefused
  \/ LoopAllowed \/ LoopRefused \/ ConnectFenced \/ ConnectRefused
  \/ SendGated \/ SendGateRefused \/ ResendGated \/ ResendRefused
  \/ SendReconnected

Event ==
  \/ GateResolves \/ UpstreamError \/ UpstreamClosed \/ GraceEnds \/ DownstreamSendFails
  \/ LoopDelayed \/ ConnectFails \/ Connected \/ ClientFrame \/ ClientGone
  \/ SendStarts \/ SendGraced \/ SendPicks

PxNext == IF Draining THEN Continuation ELSE Event

PxSpec == PxInit /\ [][PxNext]_pxVars

-----------------------------------------------------------------------------
(* Properties                                                                *)

\* No upstream socket outlives its use: every open one is attached or is the
\* candidate being fenced, and none is open after the client is gone.
NoSocketLeak ==
  px.live \subseteq (IF px.closed THEN {} ELSE {px.up, px.pend})

\* Client frames reach the backend in the order the client sent them and none
\* of them twice, across reconnects and the one resend.
FramesInOrder ==
  \A i, j \in DOMAIN px.out : i < j => px.out[i] < px.out[j]

\* An attached socket passed a lifecycle check that began after the backend
\* accepted it.
AttachedIsFenced == px.up # 0 => px.up \in px.passed

\* A client that is not closed has an upstream, or somebody works on one.
NeverStranded ==
  px.closed \/ px.up # 0 \/ px.gate = "run" \/ loop.ph # "none"
            \/ wait # <<>>

\* A proxied client has one upstream that was fenced or somebody working on it,
\* no other upstream socket stays open, and its frames arrive in order and once
\* (connectBackend, reconnectLoop, flush).
UpstreamHeld ==
  /\ NoSocketLeak
  /\ AttachedIsFenced
  /\ NeverStranded
  /\ FramesInOrder

=============================================================================
