--------------------------- MODULE CallOnceProofs ---------------------------
(***************************************************************************)
(* Calls that cross the data plane run at most once: proofs about the      *)
(* caller's side of Durable Object calls (DoTransport) and of D1 queries   *)
(* (D1Binding), for any number of tasks, concurrent calls and owner moves. *)
(***************************************************************************)
EXTENDS D1Binding, DoTransport, TLAPS

-----------------------------------------------------------------------------
(* Durable Object calls. *)

TxPcs == {"idle", "cached", "route", "hinted", "replay", "retry", "done"}
TxReplies == {"none", "thrown", "unknown", "refused", "gateway", "reply"}
TxCall ==
  [pc : TxPcs, kind : TxKinds, to : TxTasks \cup {NoHint}, runs : Nat, sent : Nat, answer : TxReplies]
TxAnswer == [kind : {"race", "reply", "owned", "hint", "throw", "gateway"}, ran : BOOLEAN]

\* How often a call may have run while it is not over.
Spare(q) == IF q.kind = "get" THEN 1 ELSE 0

\* What a call has spent, by phase.
TxSpent(q) ==
  /\ q.pc # "done" => q.runs <= Spare(q) /\ q.answer = "none"
  /\ q.pc \in {"idle", "cached"} => q.runs = 0 /\ q.sent = 0
  /\ q.pc \in {"route", "replay"} => q.sent <= 1
  /\ q.pc \in {"hinted", "retry"} => q.sent <= 2
  /\ q.pc = "hinted" => q.kind = "connect"
  /\ q.pc = "replay" => q.kind = "get"
  /\ q.runs <= Spare(q) + 1 /\ q.sent <= 3
  /\ q.answer = "refused" /\ q.kind # "get" => q.runs = 0

TxInv ==
  /\ txOwner \in TxTasks /\ hint \in TxTasks \cup {NoHint} /\ tx \in [TxCalls -> TxCall]
  /\ \A c \in TxCalls : TxSpent(tx[c])

\* Whatever task answers, or nobody: a race or a hint is answered before the
\* handler runs, and only a WebSocket connect is answered with a hint.
LEMMA TxAnswers ==
  ASSUME NEW kind \in TxKinds, NEW t, NEW r \in OwnerFetch(t, kind) \cup RouterFetch(kind)
  PROVE /\ r \in TxAnswer /\ (r.kind \in {"race", "hint"} => r.ran = FALSE)
        /\ r.kind = "hint" => kind = "connect"
<1> DEFINE Early(q) == q.kind \in {"race", "hint"} => q.ran = FALSE
<1>1. ASSUME NEW k \in {"race", "reply", "owned", "hint", "throw", "gateway"}, NEW ran \in BOOLEAN
      PROVE Answer(k, ran) \in TxAnswer /\ Answer(k, ran).kind = k /\ Answer(k, ran).ran = ran
  BY DEF Answer, TxAnswer
<1>2. LocalAnswers \subseteq TxAnswer /\ \A q \in LocalAnswers : Early(q) /\ q.kind # "hint"
  BY <1>1, Zenon DEF LocalAnswers, RaceAnswer
<1>3. ForwardAnswers \subseteq TxAnswer /\ \A q \in ForwardAnswers : Early(q) /\ q.kind # "hint"
  BY <1>1, <1>2 DEF ForwardAnswers
<1>4. /\ RaceAnswer \in TxAnswer /\ Early(RaceAnswer) /\ RaceAnswer.kind # "hint"
      /\ Answer("hint", FALSE) \in TxAnswer /\ Early(Answer("hint", FALSE))
  BY <1>1, Zenon DEF RaceAnswer
<1>5. \A s : \A q \in TaskAnswers(s, kind) :
        q \in TxAnswer /\ Early(q) /\ (q.kind = "hint" => kind = "connect")
  BY <1>2, <1>3, <1>4, Zenon DEF TaskAnswers
<1>6. \A q \in LinkAnswers : q \in TxAnswer /\ q.kind \in {"throw", "gateway"}
  BY <1>1 DEF LinkAnswers
<1>7. r \in LinkAnswers \/ \E s : r \in TaskAnswers(s, kind)
  BY DEF OwnerFetch, RouterFetch
<1> QED BY <1>5, <1>6, <1>7

\* One call goes to q, and the hint to a task or away.
LEMMA TxMoves ==
  ASSUME TxInv, NEW c \in TxCalls, NEW q \in TxCall, TxSpent(q), tx' = [tx EXCEPT ![c] = q],
         txOwner' = txOwner, hint' \in {hint, txOwner, NoHint}
  PROVE TxInv'
<1>1. /\ tx \in [TxCalls -> TxCall] /\ \A x \in TxCalls : TxSpent(tx[x])
      /\ hint' \in TxTasks \cup {NoHint} /\ txOwner' \in TxTasks
  BY DEF TxInv
<1>2. tx' \in [TxCalls -> TxCall] /\ \A x \in TxCalls : tx'[x] = IF x = c THEN q ELSE tx[x]
  BY <1>1
<1>3. \A x \in TxCalls : TxSpent(tx'[x])
  BY <1>1, <1>2, Zenon
<1> QED BY <1>1, <1>2, <1>3 DEF TxInv

\* A request more, and a run more if it ran.
LEMMA TxCounted ==
  ASSUME TxInv, NEW c \in TxCalls, NEW r \in TxAnswer
  PROVE /\ Counted(c, r) \in TxCall
        /\ Counted(c, r).pc = tx[c].pc /\ Counted(c, r).kind = tx[c].kind
        /\ Counted(c, r).runs = tx[c].runs + (IF r.ran THEN 1 ELSE 0)
        /\ Counted(c, r).sent = tx[c].sent + 1 /\ Counted(c, r).answer = tx[c].answer
        /\ tx[c] \in TxCall /\ tx[c].runs \in Nat /\ tx[c].sent \in Nat
<1>1. tx[c] \in TxCall /\ r.ran \in BOOLEAN
  BY DEF TxInv, TxAnswer
<1> DEFINE n == tx[c].runs + (IF r.ran THEN 1 ELSE 0)
           m == tx[c].sent + 1
<1>2. n \in Nat /\ m \in Nat
  BY <1>1 DEF TxCall
<1>3. Counted(c, r) = [tx[c] EXCEPT !.runs = n, !.sent = m, !.to = NoHint]
  BY DEF Counted
<1> HIDE DEF n, m
<1>4. Counted(c, r) \in TxCall
  BY <1>1, <1>2, <1>3, Zenon DEF TxCall
<1>5. /\ Counted(c, r).pc = tx[c].pc /\ Counted(c, r).kind = tx[c].kind
      /\ Counted(c, r).runs = n /\ Counted(c, r).sent = m /\ Counted(c, r).answer = tx[c].answer
  BY <1>1, <1>3 DEF TxCall
<1>6. tx[c].runs \in Nat /\ tx[c].sent \in Nat
  BY <1>1 DEF TxCall
<1> QED BY <1>1, <1>4, <1>5, <1>6 DEF n, m

\* A call is over: with one run at most more than it may have had before, and
\* none if it is refused.
LEMMA TxDelivered ==
  ASSUME TxInv, NEW c \in TxCalls, NEW r \in TxAnswer, NEW answer \in TxReplies,
         tx[c].pc \notin {"idle", "done"}, answer = "refused" => r.ran = FALSE,
         tx' = [tx EXCEPT ![c] = Delivered(Counted(c, r), answer)],
         txOwner' = txOwner, hint' \in {hint, txOwner, NoHint}
  PROVE TxInv'
<1> DEFINE d == Counted(c, r)
           q == Delivered(d, answer)
<1>1. TxSpent(tx[c]) /\ tx[c].pc \in TxPcs /\ tx[c].kind \in TxKinds
  BY TxCounted DEF TxInv, TxCall
<1>2. tx[c].runs \in Nat /\ tx[c].sent \in Nat /\ tx[c].runs <= Spare(tx[c]) /\ tx[c].sent <= 2
  BY <1>1, TxCounted DEF TxSpent, TxPcs
<1>3. /\ d \in TxCall /\ d.kind = tx[c].kind /\ d.sent = tx[c].sent + 1
      /\ d.runs = tx[c].runs + (IF r.ran THEN 1 ELSE 0)
  BY TxCounted
<1> HIDE DEF d
<1>4. /\ q \in TxCall /\ q.pc = "done" /\ q.kind = d.kind /\ q.sent = d.sent /\ q.runs = d.runs
      /\ q.answer = answer
  BY <1>3, Zenon DEF Delivered, TxCall, TxPcs
<1>5. tx' = [tx EXCEPT ![c] = q]
  BY DEF d
<1> HIDE DEF q
<1>6. TxSpent(q)
  BY <1>2, <1>3, <1>4 DEF TxSpent, Spare
<1> QED BY <1>4, <1>5, <1>6, TxMoves, Zenon

\* A call goes on in another phase after an answer.
LEMMA TxGoesOn ==
  ASSUME TxInv, NEW c \in TxCalls, NEW r \in TxAnswer, NEW pc \in TxPcs \ {"idle", "cached", "done"},
         NEW to \in TxTasks \cup {NoHint}, NEW q,
         tx[c].pc \notin {"idle", "done"}, pc = "hinted" => tx[c].kind = "connect",
         pc = "replay" => tx[c].kind = "get",
         r.ran => tx[c].kind = "get" /\ tx[c].runs = 0,
         tx[c].sent <= (IF pc \in {"route", "replay"} THEN 0 ELSE 1),
         \/ q = [Counted(c, r) EXCEPT !.pc = pc]
         \/ q = [Counted(c, r) EXCEPT !.pc = pc, !.to = to],
         tx' = [tx EXCEPT ![c] = q], txOwner' = txOwner, hint' \in {hint, txOwner, NoHint}
  PROVE TxInv'
<1> DEFINE d == Counted(c, r)
<1>1. TxSpent(tx[c]) /\ tx[c].kind \in TxKinds /\ pc \in TxPcs
  BY TxCounted DEF TxInv, TxCall
<1>2. /\ tx[c].runs \in Nat /\ tx[c].sent \in Nat /\ tx[c].runs <= Spare(tx[c])
      /\ tx[c].answer = "none"
  BY <1>1, TxCounted DEF TxSpent
<1>3. /\ d \in TxCall /\ d.kind = tx[c].kind /\ d.sent = tx[c].sent + 1 /\ d.answer = "none"
      /\ d.runs = tx[c].runs + (IF r.ran THEN 1 ELSE 0)
  BY <1>2, TxCounted
<1>6. q = [d EXCEPT !.pc = pc] \/ q = [d EXCEPT !.pc = pc, !.to = to]
  OBVIOUS
<1> HIDE DEF d
<1>4. /\ q \in TxCall /\ q.pc = pc /\ q.kind = d.kind /\ q.sent = d.sent /\ q.runs = d.runs
      /\ q.answer = d.answer
  BY <1>1, <1>3, <1>6, ZenonT(40) DEF TxCall
<1>5. TxSpent(q)
  BY <1>2, <1>3, <1>4 DEF TxSpent, Spare
<1> QED BY <1>4, <1>5, TxMoves, ZenonT(40)

\* finish(): a race is retried once, and only where two more requests are left.
LEMMA TxFinish ==
  ASSUME TxInv, NEW c \in TxCalls, NEW r \in TxAnswer, NEW raceRetried \in BOOLEAN,
         r.kind \in {"race", "hint"} => r.ran = FALSE,
         tx[c].pc \notin {"idle", "done"},
         ~raceRetried /\ tx[c].kind # "connect" => tx[c].sent <= 1,
         FinishWith(c, r, raceRetried), txOwner' = txOwner
  PROVE TxInv'
<1>1. Counted(c, r).kind = tx[c].kind
  BY TxCounted
<1>2. r.kind \in {"race", "reply", "owned", "hint", "throw", "gateway"}
  BY DEF TxAnswer
<1>3. \/ /\ r.kind = "race" /\ tx[c].kind # "connect" /\ ~raceRetried
         /\ tx' = [tx EXCEPT ![c] = [Counted(c, r) EXCEPT !.pc = "retry"]] /\ hint' = NoHint
      \/ /\ hint' \in {hint, txOwner, NoHint}
         /\ \E a \in {"thrown", "unknown", "refused", "gateway", "reply"} :
              /\ a = "refused" => r.kind = "race"
              /\ tx' = [tx EXCEPT ![c] = Delivered(Counted(c, r), a)]
  BY <1>1, <1>2, Zenon DEF FinishWith, RetryOwnerRace, PublicCode
<1>4. CASE /\ r.kind = "race" /\ tx[c].kind # "connect" /\ ~raceRetried
           /\ tx' = [tx EXCEPT ![c] = [Counted(c, r) EXCEPT !.pc = "retry"]] /\ hint' = NoHint
  <2>1. "retry" \in TxPcs \ {"idle", "cached", "done"} /\ NoHint \in TxTasks \cup {NoHint}
    BY DEF TxPcs
  <2> QED BY <1>4, <2>1, TxGoesOn, Zenon
<1>5. ASSUME hint' \in {hint, txOwner, NoHint},
             NEW a \in {"thrown", "unknown", "refused", "gateway", "reply"},
             a = "refused" => r.kind = "race",
             tx' = [tx EXCEPT ![c] = Delivered(Counted(c, r), a)]
      PROVE TxInv'
  <2>1. a \in TxReplies
    BY <1>5 DEF TxReplies
  <2>2. a = "refused" => r.ran = FALSE
    BY <1>5
  <2> QED BY <1>5, <2>1, <2>2, TxDelivered, Zenon
<1> QED BY <1>3, <1>4, <1>5

\* A call that begins has spent nothing.
LEMMA TxBegin ==
  ASSUME TxInv, NEW c \in TxCalls, NEW kind \in TxKinds, Begin(c, kind) PROVE TxInv'
<1> DEFINE q == IF hint = NoHint THEN [Fresh(kind) EXCEPT !.pc = "route"]
                ELSE [Fresh(kind) EXCEPT !.pc = "cached", !.to = hint]
<1>1. tx' = [tx EXCEPT ![c] = q] /\ txOwner' = txOwner /\ hint' = hint
  BY DEF Begin
<1>2. /\ q \in TxCall /\ q.pc \in {"route", "cached"} /\ q.runs = 0 /\ q.sent = 0
      /\ q.answer = "none" /\ q.kind = kind
  BY Zenon DEF TxInv, Fresh, TxCall, TxPcs, TxReplies
<1> HIDE DEF q
<1>3. TxSpent(q)
  BY <1>2 DEF TxSpent, Spare
<1> QED BY <1>1, <1>2, <1>3, TxMoves, Zenon

\* replayOrUnavailable: only a first request that was a GET or HEAD is replayed.
LEMMA TxReplayOrUnavailable ==
  ASSUME TxInv, NEW c \in TxCalls, NEW r \in TxAnswer, tx[c].pc \in {"cached", "hinted"},
         ReplayOrUnavailable(c, r), txOwner' = txOwner
  PROVE TxInv'
<1>1. /\ TxSpent(tx[c]) /\ hint' = NoHint
      /\ "replay" \in TxPcs \ {"idle", "cached", "done"} /\ "unknown" \in TxReplies
  BY DEF TxInv, ReplayOrUnavailable, TxPcs, TxReplies
<1>2. CASE tx[c].kind = "get"
  <2>1. tx[c].sent = 0 /\ tx[c].runs = 0
    BY <1>1, <1>2 DEF TxSpent
  <2>2. tx' = [tx EXCEPT ![c] = [Counted(c, r) EXCEPT !.pc = "replay"]]
    BY <1>2 DEF ReplayOrUnavailable, MayReplay
  <2>3. /\ NoHint \in TxTasks \cup {NoHint} /\ tx[c].pc \notin {"idle", "done"}
        /\ tx[c].sent <= (IF "replay" \in {"route", "replay"} THEN 0 ELSE 1)
        /\ "replay" = "hinted" => tx[c].kind = "connect"
    BY <2>1
  <2> QED BY <1>1, <1>2, <2>1, <2>2, <2>3, TxGoesOn, Zenon
<1>3. CASE tx[c].kind # "get"
  <2>1. tx' = [tx EXCEPT ![c] = Delivered(Counted(c, r), "unknown")]
    BY <1>3 DEF ReplayOrUnavailable, MayReplay
  <2> QED BY <1>1, <2>1, TxDelivered, Zenon
<1> QED BY <1>2, <1>3

\* After the first request a call may turn to the router.
LEMMA TxGoRoute ==
  ASSUME TxInv, NEW c \in TxCalls, NEW r \in TxAnswer, tx[c].pc = "cached",
         r.ran => tx[c].kind = "get", GoRoute(c, r), txOwner' = txOwner
  PROVE TxInv'
<1>1. TxSpent(tx[c]) /\ "route" \in TxPcs \ {"idle", "cached", "done"}
  BY DEF TxInv, TxPcs
<1>2. tx[c].sent = 0 /\ tx[c].runs = 0
  BY <1>1 DEF TxSpent
<1>3. /\ NoHint \in TxTasks \cup {NoHint} /\ tx[c].pc \notin {"idle", "done"}
      /\ tx[c].sent <= (IF "route" \in {"route", "replay"} THEN 0 ELSE 1)
      /\ "route" = "hinted" => tx[c].kind = "connect"
      /\ "route" = "replay" => tx[c].kind = "get"
  BY <1>2
<1>4. tx' = [tx EXCEPT ![c] = [Counted(c, r) EXCEPT !.pc = "route"]] /\ hint' = NoHint
  BY DEF GoRoute
<1> QED BY <1>1, <1>2, <1>3, <1>4, TxGoesOn, Zenon

\* The answer of the cached owner, of the router, of the hinted owner, of the
\* replay and of the retry.
LEMMA TxAnswered ==
  ASSUME TxInv, NEW c \in TxCalls,
         CachedOwner(c) \/ Route1(c) \/ HintedOwner(c) \/ Replay(c) \/ RetryRace(c)
  PROVE TxInv'
<1>1. txOwner' = txOwner /\ TxSpent(tx[c]) /\ tx[c] \in TxCall /\ tx[c].kind \in TxKinds
  BY Zenon DEF CachedOwner, Route1, HintedOwner, Replay, RetryRace, TxInv, TxCall
<1>2. CASE CachedOwner(c)
  <2>1. PICK r \in OwnerFetch(tx[c].to, tx[c].kind) :
          \/ ReplayOrUnavailable(c, r)
          \/ GoRoute(c, r) /\ (r.kind \in {"race", "hint"} \/ tx[c].kind = "get")
          \/ FinishWith(c, r, FALSE)
    BY <1>2, Zenon DEF CachedOwner, MayReplay
  <2>2. r \in TxAnswer /\ (r.kind \in {"race", "hint"} => r.ran = FALSE)
    BY <1>1, <2>1, TxAnswers, Zenon
  <2>3. tx[c].pc = "cached" /\ tx[c].sent = 0
    BY <1>1, <1>2 DEF CachedOwner, TxSpent
  <2>4. ~FALSE /\ tx[c].kind # "connect" => tx[c].sent <= 1
    BY <2>3
  <2>5. r.kind \in {"race", "hint"} \/ tx[c].kind = "get" => (r.ran => tx[c].kind = "get")
    BY <2>2
  <2>6. CASE FinishWith(c, r, FALSE)
    BY <1>1, <2>2, <2>3, <2>4, <2>6, TxFinish, Zenon
  <2> QED BY <1>1, <2>1, <2>2, <2>3, <2>5, <2>6, TxReplayOrUnavailable, TxGoRoute, Zenon
<1>3. CASE Route1(c)
  <2>1. PICK r \in RouterFetch(tx[c].kind) :
          \/ /\ r.kind = "hint" /\ hint' = txOwner
             /\ tx' = [tx EXCEPT ![c] = [Counted(c, r) EXCEPT !.pc = "hinted", !.to = txOwner]]
          \/ FinishWith(c, r, FALSE)
    BY <1>3, Zenon DEF Route1
  <2>2. /\ r \in TxAnswer /\ (r.kind \in {"race", "hint"} => r.ran = FALSE)
        /\ r.kind = "hint" => tx[c].kind = "connect"
    BY <1>1, <2>1, TxAnswers, Zenon
  <2>3. tx[c].pc = "route" /\ tx[c].sent <= 1 /\ txOwner \in TxTasks
    BY <1>1, <1>3, Zenon DEF Route1, TxSpent, TxInv
  <2>4. CASE FinishWith(c, r, FALSE)
    BY <1>1, <2>2, <2>3, <2>4, TxFinish, Zenon
  <2>5. CASE /\ r.kind = "hint" /\ hint' = txOwner
             /\ tx' = [tx EXCEPT ![c] = [Counted(c, r) EXCEPT !.pc = "hinted", !.to = txOwner]]
    <3>1. /\ "hinted" \in TxPcs \ {"idle", "cached", "done"} /\ txOwner \in TxTasks \cup {NoHint}
          /\ tx[c].sent <= (IF "hinted" \in {"route", "replay"} THEN 0 ELSE 1)
          /\ "hinted" = "replay" => tx[c].kind = "get"
          /\ tx[c].pc \notin {"idle", "done"} /\ r.ran = FALSE
      BY <2>2, <2>3, <2>5 DEF TxPcs
    <3> QED BY <1>1, <2>2, <2>5, <3>1, TxGoesOn, Zenon
  <2> QED BY <2>1, <2>4, <2>5, Zenon
<1>4. CASE HintedOwner(c)
  <2>1. PICK r \in OwnerFetch(tx[c].to, tx[c].kind) :
          ReplayOrUnavailable(c, r) \/ FinishWith(c, r, FALSE)
    BY <1>4, Zenon DEF HintedOwner
  <2>2. r \in TxAnswer /\ (r.kind \in {"race", "hint"} => r.ran = FALSE)
    BY <1>1, <2>1, TxAnswers, Zenon
  <2>3. tx[c].pc = "hinted" /\ tx[c].kind = "connect"
    BY <1>1, <1>4 DEF HintedOwner, TxSpent
  <2> QED BY <1>1, <2>1, <2>2, <2>3, TxReplayOrUnavailable, TxFinish, Zenon
<1>5. CASE Replay(c)
  <2>1. PICK r \in RouterFetch(tx[c].kind) : FinishWith(c, r, FALSE)
    BY <1>5, Zenon DEF Replay
  <2>2. r \in TxAnswer /\ (r.kind \in {"race", "hint"} => r.ran = FALSE)
    BY <1>1, <2>1, TxAnswers, Zenon
  <2>3. tx[c].pc = "replay" /\ tx[c].sent <= 1
    BY <1>1, <1>5 DEF Replay, TxSpent
  <2> QED BY <1>1, <2>1, <2>2, <2>3, TxFinish, Zenon
<1>6. CASE RetryRace(c)
  <2>1. PICK r \in RouterFetch(tx[c].kind) : FinishWith(c, r, TRUE)
    BY <1>6, Zenon DEF RetryRace
  <2>2. r \in TxAnswer /\ (r.kind \in {"race", "hint"} => r.ran = FALSE)
    BY <1>1, <2>1, TxAnswers, Zenon
  <2>3. tx[c].pc = "retry"
    BY <1>6 DEF RetryRace
  <2> QED BY <1>1, <2>1, <2>2, <2>3, TxFinish, Zenon
<1> QED BY <1>2, <1>3, <1>4, <1>5, <1>6

\* Every step keeps it.
LEMMA TxNextInv == TxInv /\ [TxNext]_txVars => TxInv'
<1> SUFFICES ASSUME TxInv, [TxNext]_txVars PROVE TxInv'
  OBVIOUS
<1>1. CASE UNCHANGED txVars
  BY <1>1 DEF TxInv, txVars
<1>2. ASSUME NEW t \in TxTasks, MoveOwner(t) PROVE TxInv'
  BY <1>2 DEF MoveOwner, TxInv
<1>3. CASE TrimHint
  BY <1>3 DEF TrimHint, TxInv
<1> QED BY <1>1, <1>2, <1>3, TxBegin, TxAnswered DEF TxNext

\* At the start no call has been made.
LEMMA TxInitInv == TxInit => TxInv
<1> SUFFICES ASSUME TxInit PROVE TxInv
  OBVIOUS
<1> DEFINE q == [Fresh("get") EXCEPT !.pc = "idle"]
<1>1. q \in TxCall /\ q.pc = "idle" /\ q.runs = 0 /\ q.sent = 0 /\ q.answer = "none"
  BY DEF Fresh, TxCall, TxPcs, TxKinds, TxReplies
<1>2. tx = [c \in TxCalls |-> q]
  BY DEF TxInit
<1> HIDE DEF q
<1>3. TxSpent(q)
  BY <1>1 DEF TxSpent, Spare
<1> QED BY <1>1, <1>2, <1>3 DEF TxInit, TxInv

\* However often a shard moves and whatever answers are lost, late or raced, a
\* Durable Object call runs at most once (a GET or HEAD twice), did not run if the
\* tenant is told an ownership error other than owner_unavailable, and sends at
\* most three requests (_wdl-do-transport.js).
THEOREM ObjectCallsOnce == TxSpec => []CallsOnce
<1>1. TxInv => CallsOnce
  <2> SUFFICES ASSUME TxInv, NEW c \in TxCalls
               PROVE /\ tx[c].runs <= (IF tx[c].kind = "get" THEN 2 ELSE 1)
                     /\ tx[c].answer = "refused" /\ tx[c].kind # "get" => tx[c].runs = 0
                     /\ tx[c].sent <= 3
    BY DEF CallsOnce, AtMostOnce, RefusedDidNotRun, FewRequests
  <2>1. TxSpent(tx[c]) /\ tx[c].runs \in Nat
    BY DEF TxInv, TxCall
  <2> QED BY <2>1 DEF TxSpent, Spare
<1> QED BY <1>1, TxInitInv, TxNextInv, PTL DEF TxSpec

-----------------------------------------------------------------------------
(* D1 queries. *)

DbStmt == [owner : Handles, params : Params \cup {NoDb}]
DbQuery == [from : Handles, params : Params \cup {NoDb}]
DbPcs == {"idle", "owner", "router", "done"}
DbModes == {"none", "first", "batch", "exec"}
DbErrors ==
  {"sql-error", "ownership", "registry-unavailable", "result-unknown", "timeout",
   "backend-unavailable", "invalid-batch"}
DbReplies == DbErrors \cup {"none", "result", "column-not-found"}
DbRecord ==
  [pc : DbPcs, mode : DbModes, db : Databases \cup {NoDb}, sent : Seq(DbQuery),
   ran : Seq(Seq(DbQuery)), answer : DbReplies, retryable : BOOLEAN]
DbCodes == DbErrors \cup {"result", "throw", "deadline", "gateway", "garbled"}
DbAns == [code : DbCodes, ran : BOOLEAN]

\* What was sent came from one database or session, and is for its database.
SentFrom(q) ==
  \A i, j \in DOMAIN q.sent :
    RootDatabase(q.sent[i].from) = q.db /\ q.sent[i].from = q.sent[j].from

\* A query that is not answered yet did not run; one that is ran at most once.
DbSettled(q) ==
  /\ q.pc # "done" => q.ran = <<>> /\ q.answer = "none" /\ q.retryable = FALSE
  /\ q.ran = <<>> \/ q.ran = <<q.sent>>
  /\ q.answer \in {"result", "column-not-found"} => q.ran = <<q.sent>>
  /\ q.retryable /\ q.answer # "backend-unavailable" => q.ran = <<>>

DbInv ==
  /\ dbStmts \in Seq(DbStmt) /\ dbCall \in [DbCalls -> DbRecord]
  /\ \A c \in DbCalls : SentFrom(dbCall[c]) /\ DbSettled(dbCall[c])

\* Whatever task answers, or nobody: a result means the query ran, and an error
\* of the SQL, of the ownership or of the registry that it did not.
LEMMA DbAnswers ==
  ASSUME NEW d, NEW t, NEW r \in DbLink \cup DbTaskAnswers(t, d)
  PROVE /\ r \in DbAns
        /\ r.code = "result" => r.ran = TRUE
        /\ r.code \in {"sql-error", "ownership", "registry-unavailable"} => r.ran = FALSE
<1> DEFINE True(q) == /\ q \in DbAns
                      /\ q.code = "result" => q.ran = TRUE
                      /\ q.code \in {"sql-error", "ownership", "registry-unavailable"} => q.ran = FALSE
<1>1. ASSUME NEW k \in DbCodes, NEW ran \in BOOLEAN
      PROVE DbAnswer(k, ran) \in DbAns /\ DbAnswer(k, ran).code = k /\ DbAnswer(k, ran).ran = ran
  BY DEF DbAnswer, DbAns
<1>2. \A q \in OwnerAnswers : True(q)
  <2>0. "result" \in DbCodes /\ TRUE \in BOOLEAN
    BY DEF DbCodes
  <2>1. True(DbAnswer("result", TRUE))
    BY <1>1, <2>0, Zenon
  <2>2. \A k \in {"sql-error", "ownership", "registry-unavailable"} : True(DbAnswer(k, FALSE))
    BY <1>1, Zenon DEF DbCodes, DbErrors
  <2> HIDE DEF True
  <2> QED BY <2>1, <2>2, Zenon DEF OwnerAnswers
<1>3. \A q \in DbForwarded : True(q)
  BY <1>1, <1>2 DEF DbForwarded, DbCodes, DbErrors
<1>4. \A q \in DbLink : True(q)
  BY <1>1 DEF DbLink, DbCodes, DbErrors
<1>5. DbTaskAnswers(t, d) = OwnerAnswers \/ DbTaskAnswers(t, d) = DbForwarded
  BY DEF DbTaskAnswers
<1>6. True(r)
  BY <1>2, <1>3, <1>4, <1>5, Zenon
<1> QED BY <1>6

\* One call goes to q.
LEMMA DbMoves ==
  ASSUME DbInv, NEW c \in DbCalls, NEW q \in DbRecord, SentFrom(q), DbSettled(q),
         dbCall' = [dbCall EXCEPT ![c] = q], dbStmts' = dbStmts
  PROVE DbInv'
<1>1. dbCall \in [DbCalls -> DbRecord] /\ dbStmts' \in Seq(DbStmt)
  BY DEF DbInv
<1>2. dbCall' \in [DbCalls -> DbRecord] /\ \A x \in DbCalls : dbCall'[x] = IF x = c THEN q ELSE dbCall[x]
  BY <1>1
<1>3. \A x \in DbCalls : SentFrom(dbCall'[x]) /\ DbSettled(dbCall'[x])
  BY <1>2, Zenon DEF DbInv
<1> QED BY <1>1, <1>2, <1>3 DEF DbInv

\* What a call that is not answered yet has and knows.
LEMMA DbFields ==
  ASSUME DbInv, NEW c \in DbCalls
  PROVE /\ dbCall[c] \in DbRecord /\ dbCall[c].sent \in Seq(DbQuery)
        /\ SentFrom(dbCall[c]) /\ DbSettled(dbCall[c]) /\ dbCall[c].mode \in DbModes
<1>1. dbCall[c] \in DbRecord
  BY DEF DbInv
<1> QED BY <1>1 DEF DbInv, DbRecord

\* The call of an unanswered query, with what an answer says of its run.
LEMMA DbRan ==
  ASSUME DbInv, NEW c \in DbCalls, dbCall[c].pc # "done", NEW r \in DbAns
  PROVE /\ Ran(c, r) \in DbRecord /\ Ran(c, r).pc = dbCall[c].pc
        /\ Ran(c, r).sent = dbCall[c].sent /\ Ran(c, r).db = dbCall[c].db
        /\ Ran(c, r).ran = IF r.ran THEN <<dbCall[c].sent>> ELSE <<>>
        /\ Ran(c, r).answer = "none" /\ Ran(c, r).retryable = FALSE
<1>1. /\ dbCall[c] \in DbRecord /\ dbCall[c].ran = <<>> /\ dbCall[c].answer = "none"
      /\ dbCall[c].retryable = FALSE /\ dbCall[c].sent \in Seq(DbQuery)
  BY DbFields, Zenon DEF DbSettled
<1>0. r.ran \in BOOLEAN
  BY DEF DbAns
<1> DEFINE n == IF r.ran THEN <<dbCall[c].sent>> ELSE <<>>
<1>2. Append(<<>>, dbCall[c].sent) = <<dbCall[c].sent>>
  OBVIOUS
<1>3. Ran(c, r) = [dbCall[c] EXCEPT !.ran = n]
  BY <1>1, <1>2 DEF Ran
<1>4. n \in Seq(Seq(DbQuery))
  BY <1>0, <1>1
<1> HIDE DEF n
<1>5. Ran(c, r) \in DbRecord
  BY <1>1, <1>3, <1>4, Zenon DEF DbRecord
<1>6. /\ Ran(c, r).pc = dbCall[c].pc /\ Ran(c, r).sent = dbCall[c].sent
      /\ Ran(c, r).db = dbCall[c].db /\ Ran(c, r).ran = n
      /\ Ran(c, r).answer = "none" /\ Ran(c, r).retryable = FALSE
  BY <1>1, <1>3 DEF DbRecord
<1> QED BY <1>5, <1>6 DEF n

\* A query is answered.
LEMMA DbDone ==
  ASSUME DbInv, NEW c \in DbCalls, dbCall[c].pc # "done", NEW r \in DbAns,
         NEW code \in DbReplies, NEW flag \in BOOLEAN, NEW q,
         code \in {"result", "column-not-found"} => r.ran = TRUE,
         flag /\ code # "backend-unavailable" => r.ran = FALSE,
         \/ q = [Ran(c, r) EXCEPT !.pc = "done", !.answer = code, !.retryable = flag]
         \/ q = [Ran(c, r) EXCEPT !.pc = "done", !.answer = code] /\ flag = FALSE,
         dbCall' = [dbCall EXCEPT ![c] = q], dbStmts' = dbStmts
  PROVE DbInv'
<1> DEFINE d == Ran(c, r)
<1>1. /\ d \in DbRecord /\ d.sent = dbCall[c].sent /\ d.db = dbCall[c].db /\ d.retryable = FALSE
      /\ d.ran = IF r.ran THEN <<dbCall[c].sent>> ELSE <<>>
  BY DbRan, Zenon
<1>2. \/ q = [d EXCEPT !.pc = "done", !.answer = code, !.retryable = flag]
      \/ q = [d EXCEPT !.pc = "done", !.answer = code] /\ flag = FALSE
  OBVIOUS
<1> HIDE DEF d
<1>3. q \in DbRecord
  BY <1>1, <1>2, Zenon DEF DbRecord, DbPcs
<1>4. /\ q.pc = "done" /\ q.sent = d.sent /\ q.db = d.db /\ q.ran = d.ran /\ q.answer = code
      /\ q.retryable = flag
  BY <1>1, <1>2, Zenon DEF DbRecord
<1>5. SentFrom(q)
  BY <1>1, <1>4, DbFields DEF SentFrom
<1>6. DbSettled(q)
  BY <1>1, <1>4 DEF DbSettled
<1> QED BY <1>3, <1>5, <1>6, DbMoves, Zenon

\* An error is thrown; its flag may be lost on the way.
DbThrown(c, r, code, flag) ==
  dbCall' = [dbCall EXCEPT ![c] = [Ran(c, r) EXCEPT !.pc = "done", !.answer = code, !.retryable = flag]]

\* A query that ends in an error, with the flag only if it did not run.
LEMMA DbThrow ==
  ASSUME DbInv, NEW c \in DbCalls, dbCall[c].pc # "done", NEW r \in DbAns,
         NEW code \in DbErrors, NEW flag \in BOOLEAN,
         flag /\ code # "backend-unavailable" => r.ran = FALSE,
         DbThrown(c, r, code, flag), dbStmts' = dbStmts
  PROVE DbInv'
<1> DEFINE q == [Ran(c, r) EXCEPT !.pc = "done", !.answer = code, !.retryable = flag]
<1>1. dbCall' = [dbCall EXCEPT ![c] = q]
  BY DEF DbThrown
<1>2. code \in DbReplies /\ ~(code \in {"result", "column-not-found"})
  BY DEF DbReplies, DbErrors
<1> QED BY <1>1, <1>2, DbDone, Zenon

\* The payload of an answer is read.
LEMMA DbFinish ==
  ASSUME DbInv, NEW c \in DbCalls, dbCall[c].pc # "done", NEW r \in DbAns,
         r.code \in DbErrors \cup {"result"}, r.code = "result" => r.ran = TRUE,
         r.code \in {"ownership", "registry-unavailable"} => r.ran = FALSE,
         Finish(c, r), dbStmts' = dbStmts
  PROVE DbInv'
<1>1. CASE r.code = "result"
  <2>1. PICK a \in {"result", "column-not-found"} :
          dbCall' = [dbCall EXCEPT ![c] = [Ran(c, r) EXCEPT !.pc = "done", !.answer = a]]
    BY <1>1, Zenon DEF Finish
  <2>2. a \in DbReplies
    BY <2>1 DEF DbReplies
  <2> DEFINE q == [Ran(c, r) EXCEPT !.pc = "done", !.answer = a]
  <2>3. dbCall' = [dbCall EXCEPT ![c] = q]
    BY <2>1
  <2> QED BY <1>1, <2>2, <2>3, DbDone, ZenonT(40)
<1>2. CASE r.code # "result"
  <2>1. PICK flag \in BOOLEAN : DbThrown(c, r, r.code, flag) /\ (flag => Classified(r.code))
    BY <1>2, Zenon DEF Finish, Throw, DbThrown
  <2>2. r.code \in DbErrors
    BY <1>2
  <2>3. flag /\ r.code # "backend-unavailable" => r.ran = FALSE
    BY <2>1 DEF Classified
  <2> QED BY <2>1, <2>2, <2>3, DbThrow, Zenon
<1> QED BY <1>1, <1>2

\* A query that did not run goes on to the router.
LEMMA DbGoRouter ==
  ASSUME DbInv, NEW c \in DbCalls, dbCall[c].pc # "done", NEW q,
         \/ q = [dbCall[c] EXCEPT !.pc = "router"]
         \/ \E r \in DbAns : r.ran = FALSE /\ q = [Ran(c, r) EXCEPT !.pc = "router"],
         dbCall' = [dbCall EXCEPT ![c] = q], dbStmts' = dbStmts
  PROVE DbInv'
<1>1. PICK d \in DbRecord : /\ q = [d EXCEPT !.pc = "router"]
                            /\ d.sent = dbCall[c].sent /\ d.db = dbCall[c].db
                            /\ d.ran = <<>> /\ d.answer = "none" /\ d.retryable = FALSE
  <2>1. CASE q = [dbCall[c] EXCEPT !.pc = "router"]
    BY <2>1, DbFields, Zenon DEF DbSettled
  <2>2. ASSUME NEW r \in DbAns, r.ran = FALSE, q = [Ran(c, r) EXCEPT !.pc = "router"]
        PROVE \E d \in DbRecord : /\ q = [d EXCEPT !.pc = "router"]
                                  /\ d.sent = dbCall[c].sent /\ d.db = dbCall[c].db
                                  /\ d.ran = <<>> /\ d.answer = "none" /\ d.retryable = FALSE
    BY <2>2, DbRan, Zenon
  <2> QED BY <2>1, <2>2, Zenon
<1>2. q \in DbRecord
  BY <1>1, Zenon DEF DbRecord, DbPcs
<1>3. /\ q.pc = "router" /\ q.sent = d.sent /\ q.db = d.db /\ q.ran = <<>>
      /\ q.answer = "none" /\ q.retryable = FALSE
  BY <1>1 DEF DbRecord
<1>4. SentFrom(q)
  BY <1>1, <1>3, DbFields DEF SentFrom
<1>5. DbSettled(q)
  BY <1>3 DEF DbSettled
<1> QED BY <1>2, <1>4, <1>5, DbMoves, Zenon

\* A call is sent, or refused before it is sent.
LEMMA DbSend ==
  ASSUME DbInv, NEW c \in DbCalls, NEW h \in Handles, NEW mode \in DbModes,
         NEW stmts \in Seq(DbQuery), \A i \in DOMAIN stmts : stmts[i].from = h,
         NEW q, dbCall' = [dbCall EXCEPT ![c] = q], dbStmts' = dbStmts,
         \/ q = [DbIdle EXCEPT !.pc = "owner", !.mode = mode, !.db = RootDatabase(h), !.sent = stmts]
         \/ q = [DbIdle EXCEPT !.pc = "done", !.mode = mode, !.db = RootDatabase(h),
                               !.answer = "invalid-batch"]
  PROVE DbInv'
<1>1. RootDatabase(h) \in Databases
  BY DbAssumption DEF RootDatabase, Handles
<1>2. /\ q.pc \in {"owner", "done"} /\ q.mode = mode /\ q.db = RootDatabase(h)
      /\ q.sent \in {stmts, <<>>} /\ q.ran = <<>> /\ q.answer \in {"none", "invalid-batch"}
      /\ q.retryable = FALSE /\ (q.pc = "owner" => q.answer = "none")
      /\ q = [pc |-> q.pc, mode |-> q.mode, db |-> q.db, sent |-> q.sent, ran |-> q.ran,
              answer |-> q.answer, retryable |-> q.retryable]
  BY Zenon DEF DbIdle
<1>3. q \in DbRecord
  <2>1. q.pc \in DbPcs /\ q.answer \in DbReplies /\ q.db \in Databases \cup {NoDb}
    BY <1>1, <1>2 DEF DbPcs, DbReplies, DbErrors
  <2>2. q.sent \in Seq(DbQuery) /\ q.ran \in Seq(Seq(DbQuery)) /\ q.retryable \in BOOLEAN
    <3>1. <<>> \in Seq(DbQuery) /\ <<>> \in Seq(Seq(DbQuery))
      OBVIOUS
    <3> QED BY <1>2, <3>1, Zenon
  <2> QED BY <1>2, <2>1, <2>2, Zenon DEF DbRecord
<1>4. SentFrom(q)
  BY <1>2 DEF SentFrom
<1>5. DbSettled(q)
  BY <1>2 DEF DbSettled
<1> QED BY <1>3, <1>4, <1>5, DbMoves, Zenon

\* A statement of a query: whose it is, and that it is serialized as one.
LEMMA DbSerialized ==
  ASSUME DbInv, NEW i \in DOMAIN dbStmts
  PROVE /\ dbStmts[i] \in DbStmt /\ Serialized(i) \in DbQuery
        /\ Serialized(i).from = dbStmts[i].owner /\ dbStmts[i].owner \in Handles
<1>1. dbStmts[i] \in DbStmt
  BY DEF DbInv
<1> QED BY <1>1 DEF Serialized, DbStmt, DbQuery

\* A statement, a batch and a script are sent for the database they belong to.
LEMMA DbSends ==
  ASSUME DbInv, NEW c \in DbCalls,
         \/ \E i \in DOMAIN dbStmts : QueryStatement(c, i)
         \/ \E h \in Handles, is \in Batches : ToSet(is) \subseteq DOMAIN dbStmts /\ RunBatch(c, h, is)
         \/ \E d \in Databases : RunExec(c, d)
  PROVE DbInv'
<1>0. {"first", "batch", "exec"} \subseteq DbModes
  BY DEF DbModes
<1>1. ASSUME NEW i \in DOMAIN dbStmts, QueryStatement(c, i) PROVE DbInv'
  <2> DEFINE h == dbStmts[i].owner
             stmts == <<Serialized(i)>>
             q == [DbIdle EXCEPT !.pc = "owner", !.mode = "first", !.db = RootDatabase(h), !.sent = stmts]
  <2>1. h \in Handles /\ stmts \in Seq(DbQuery) /\ \A k \in DOMAIN stmts : stmts[k].from = h
    BY DbSerialized
  <2>2. dbCall' = [dbCall EXCEPT ![c] = q] /\ dbStmts' = dbStmts
    BY <1>1, Zenon DEF QueryStatement, SendFor
  <2> QED BY <1>0, <2>1, <2>2, DbSend, Zenon
<1>2. ASSUME NEW h \in Handles, NEW is \in Batches, ToSet(is) \subseteq DOMAIN dbStmts,
             RunBatch(c, h, is)
      PROVE DbInv'
  <2>0. is \in Seq(Nat) /\ \A k \in DOMAIN is : is[k] \in DOMAIN dbStmts
    BY <1>2, DbAssumption DEF ToSet
  <2> DEFINE stmts == [k \in DOMAIN is |-> Serialized(is[k])]
             q == [DbIdle EXCEPT !.pc = "owner", !.mode = "batch", !.db = RootDatabase(h), !.sent = stmts]
             x == [DbIdle EXCEPT !.pc = "done", !.mode = "batch", !.db = RootDatabase(h),
                                !.answer = "invalid-batch"]
  <2>1. CASE SameOwner(h, is)
    <3>1. \A k \in DOMAIN is : Serialized(is[k]) \in DbQuery /\ Serialized(is[k]).from = h
      BY <2>0, <2>1, DbSerialized DEF SameOwner
    <3>2. stmts \in Seq(DbQuery)
      BY <2>0, <3>1
    <3>3. \A k \in DOMAIN stmts : stmts[k].from = h
      BY <3>1
    <3>4. dbCall' = [dbCall EXCEPT ![c] = q] /\ dbStmts' = dbStmts
      BY <1>2, <2>1, ZenonT(40) DEF RunBatch, SendFor
    <3> HIDE DEF stmts
    <3> QED BY <1>0, <3>2, <3>3, <3>4, DbSend, ZenonT(40)
  <2>2. CASE ~SameOwner(h, is)
    <3>1. <<>> \in Seq(DbQuery) /\ \A k \in DOMAIN <<>> : <<>>[k].from = h
      OBVIOUS
    <3>2. dbCall' = [dbCall EXCEPT ![c] = x] /\ dbStmts' = dbStmts
      BY <1>2, <2>2, ZenonT(40) DEF RunBatch
    <3> QED BY <1>0, <3>1, <3>2, DbSend, ZenonT(40)
  <2> QED BY <2>1, <2>2
<1>3. ASSUME NEW d \in Databases, RunExec(c, d) PROVE DbInv'
  <2> DEFINE stmts == <<[from |-> d, params |-> NoDb]>>
             q == [DbIdle EXCEPT !.pc = "owner", !.mode = "exec", !.db = RootDatabase(d), !.sent = stmts]
  <2>1. d \in Handles /\ stmts \in Seq(DbQuery) /\ \A k \in DOMAIN stmts : stmts[k].from = d
    BY DEF Handles, DbQuery
  <2>2. dbCall' = [dbCall EXCEPT ![c] = q] /\ dbStmts' = dbStmts
    BY <1>3, Zenon DEF RunExec, SendFor
  <2> QED BY <1>0, <2>1, <2>2, DbSend, Zenon
<1> QED BY <1>1, <1>2, <1>3

\* A hinted owner that answers, fails or is gone.
LEMMA DbHinted ==
  ASSUME DbInv, NEW c \in DbCalls, OwnerMiss(c) \/ HintedOwnerAnswers(c)
  PROVE DbInv'
<1>1. CASE OwnerMiss(c)
  <2> DEFINE q == [dbCall[c] EXCEPT !.pc = "router"]
  <2>1. dbCall[c].pc # "done" /\ dbCall' = [dbCall EXCEPT ![c] = q] /\ dbStmts' = dbStmts
    BY <1>1 DEF OwnerMiss
  <2> QED BY <2>1, DbGoRouter, Zenon
<1>2. CASE HintedOwnerAnswers(c)
  <2> DEFINE d == dbCall[c].db
  <2>1. PICK r \in DbTaskAnswers(dbHint[d], d) \cup DbLink :
          \/ r.code \in {"throw", "deadline", "gateway", "garbled"} /\ HintedFailure(c, r)
          \/ /\ r.code = "ownership"
             /\ dbCall' = [dbCall EXCEPT ![c] = [Ran(c, r) EXCEPT !.pc = "router"]]
          \/ r.code \in {"result", "sql-error", "registry-unavailable", "result-unknown", "timeout"}
             /\ Finish(c, r)
    BY <1>2 DEF HintedOwnerAnswers
  <2>2. /\ r \in DbAns
        /\ r.code = "result" => r.ran = TRUE
        /\ r.code \in {"sql-error", "ownership", "registry-unavailable"} => r.ran = FALSE
    BY <2>1, DbAnswers, Zenon
  <2>3. dbCall[c].pc # "done" /\ dbStmts' = dbStmts
    BY <1>2 DEF HintedOwnerAnswers
  <2>4. CASE HintedFailure(c, r)
    <3>1. PICK code \in {"timeout", "result-unknown"} : DbThrown(c, r, code, FALSE)
      BY <2>4 DEF HintedFailure, Throw, DbThrown
    <3>2. code \in DbErrors /\ FALSE \in BOOLEAN
      BY <3>1 DEF DbErrors
    <3> QED BY <2>2, <2>3, <3>1, <3>2, DbThrow, Zenon
  <2>5. CASE /\ r.code = "ownership"
             /\ dbCall' = [dbCall EXCEPT ![c] = [Ran(c, r) EXCEPT !.pc = "router"]]
    <3> DEFINE q == [Ran(c, r) EXCEPT !.pc = "router"]
    <3>1. dbCall' = [dbCall EXCEPT ![c] = q] /\ r.ran = FALSE
      BY <2>2, <2>5
    <3> QED BY <2>2, <2>3, <3>1, DbGoRouter, Zenon
  <2>6. CASE /\ r.code \in {"result", "sql-error", "registry-unavailable", "result-unknown", "timeout"}
             /\ Finish(c, r)
    <3>1. r.code \in DbErrors \cup {"result"}
      BY <2>6 DEF DbErrors
    <3> QED BY <2>2, <2>3, <2>6, <3>1, DbFinish, Zenon
  <2> QED BY <2>1, <2>4, <2>5, <2>6
<1> QED BY <1>1, <1>2

\* An answer that comes through the router, or its loss.
LEMMA DbRouted ==
  ASSUME DbInv, NEW c \in DbCalls, RouterAnswers(c)
  PROVE DbInv'
<1> DEFINE d == dbCall[c].db
<1>1. PICK r \in DbLink \cup UNION {DbTaskAnswers(t, d) : t \in DbTasks} :
        \/ r.code = "throw" /\ Throw(c, Ran(c, r), "backend-unavailable", TRUE)
        \/ r.code = "deadline" /\ Throw(c, Ran(c, r), "timeout", FALSE)
        \/ r.code \in {"gateway", "garbled"} /\ Throw(c, Ran(c, r), "result-unknown", FALSE)
        \/ r.code \notin {"throw", "deadline", "gateway", "garbled"} /\ Finish(c, r)
  BY Zenon DEF RouterAnswers
<1>2. /\ r \in DbAns
      /\ r.code = "result" => r.ran = TRUE
      /\ r.code \in {"sql-error", "ownership", "registry-unavailable"} => r.ran = FALSE
  <2>1. \E t : r \in DbLink \cup DbTaskAnswers(t, d)
    BY <1>1, Zenon
  <2> QED BY <2>1, DbAnswers, Zenon
<1>3. dbCall[c].pc # "done" /\ dbStmts' = dbStmts
  BY DEF RouterAnswers
<1>4. CASE Throw(c, Ran(c, r), "backend-unavailable", TRUE)
  <2>1. PICK flag \in BOOLEAN : DbThrown(c, r, "backend-unavailable", flag)
    BY <1>4, Zenon DEF Throw, DbThrown
  <2>2. "backend-unavailable" \in DbErrors
    BY DEF DbErrors
  <2> QED BY <1>2, <1>3, <2>1, <2>2, DbThrow, Zenon
<1>5. ASSUME NEW code \in {"timeout", "result-unknown"}, Throw(c, Ran(c, r), code, FALSE)
      PROVE DbInv'
  <2>1. DbThrown(c, r, code, FALSE)
    BY <1>5 DEF Throw, DbThrown
  <2>2. code \in DbErrors /\ FALSE \in BOOLEAN
    BY DEF DbErrors
  <2> QED BY <1>2, <1>3, <2>1, <2>2, DbThrow, Zenon
<1>6. CASE r.code \notin {"throw", "deadline", "gateway", "garbled"} /\ Finish(c, r)
  <2>1. r.code \in DbErrors \cup {"result"}
    BY <1>2, <1>6 DEF DbAns, DbCodes
  <2> QED BY <1>2, <1>3, <1>6, <2>1, DbFinish, Zenon
<1> QED BY <1>1, <1>4, <1>5, <1>6, Zenon

\* A statement is prepared, or bound from another one.
LEMMA DbPrepared ==
  ASSUME DbInv,
         \/ \E h \in Handles : Prepare(h)
         \/ \E i \in DOMAIN dbStmts, p \in Params : Bind(i, p)
  PROVE DbInv'
<1>1. PICK st \in DbStmt : dbStmts' = Append(dbStmts, st) /\ dbCall' = dbCall
  <2>1. ASSUME NEW h \in Handles, Prepare(h)
        PROVE \E st \in DbStmt : dbStmts' = Append(dbStmts, st) /\ dbCall' = dbCall
    <3>1. [owner |-> h, params |-> NoDb] \in DbStmt
      BY DEF DbStmt
    <3> QED BY <2>1, <3>1 DEF Prepare
  <2>2. ASSUME NEW i \in DOMAIN dbStmts, NEW p \in Params, Bind(i, p)
        PROVE \E st \in DbStmt : dbStmts' = Append(dbStmts, st) /\ dbCall' = dbCall
    <3>1. [dbStmts[i] EXCEPT !.params = p] \in DbStmt
      BY DbSerialized DEF DbStmt
    <3> QED BY <2>2, <3>1 DEF Bind
  <2> QED BY <2>1, <2>2
<1>2. dbStmts' \in Seq(DbStmt)
  BY <1>1 DEF DbInv
<1> QED BY <1>1, <1>2 DEF DbInv

\* Every step keeps the invariant of the D1 binding.
LEMMA DbNextInv == DbInv /\ [DbNext]_dbVars => DbInv'
<1> SUFFICES ASSUME DbInv, [DbNext]_dbVars PROVE DbInv'
  OBVIOUS
<1>1. CASE UNCHANGED dbVars
  BY <1>1 DEF DbInv, dbVars
<1>2. ASSUME NEW d \in Databases, TrimDbHint(d) \/ \E t \in DbTasks : MoveDb(d, t)
      PROVE DbInv'
  BY <1>2 DEF TrimDbHint, MoveDb, DbInv
<1>3. CASE \/ \E h \in Handles : Prepare(h)
           \/ \E i \in DOMAIN dbStmts, p \in Params : Bind(i, p)
  BY <1>3, DbPrepared
<1>4. ASSUME NEW c \in DbCalls,
             \/ \E i \in DOMAIN dbStmts : QueryStatement(c, i)
             \/ \E h \in Handles, is \in Batches : ToSet(is) \subseteq DOMAIN dbStmts /\ RunBatch(c, h, is)
             \/ \E d \in Databases : RunExec(c, d)
      PROVE DbInv'
  BY <1>4, DbSends
<1>5. ASSUME NEW c \in DbCalls, OwnerMiss(c) \/ HintedOwnerAnswers(c) \/ RouterAnswers(c)
      PROVE DbInv'
  BY <1>5, DbHinted, DbRouted
<1> QED BY <1>1, <1>2, <1>3, <1>4, <1>5 DEF DbNext

\* At the start no statement is prepared and no query is sent.
LEMMA DbInitInv == DbInit => DbInv
<1> SUFFICES ASSUME DbInit PROVE DbInv
  OBVIOUS
<1>1. DbIdle \in DbRecord
  BY DEF DbIdle, DbRecord, DbPcs, DbModes, DbReplies
<1>2. SentFrom(DbIdle) /\ DbSettled(DbIdle)
  BY DEF DbIdle, SentFrom, DbSettled
<1>3. dbStmts \in Seq(DbStmt) /\ dbCall = [c \in DbCalls |-> DbIdle]
  BY DEF DbInit
<1> HIDE DEF DbIdle
<1> QED BY <1>1, <1>2, <1>3 DEF DbInv

\* However owners move, hints go stale and answers are lost, a D1 query runs at
\* most once and on the database it was prepared for, a result means that it ran,
\* and an error the tenant may retry that it did not, unless the whole backend
\* was unavailable (sendQuery of runtime/bindings/d1.js).
THEOREM QueriesOnce == DbSpec => []D1CallsOnce
<1>1. DbInv => D1CallsOnce
  <2> SUFFICES ASSUME DbInv, NEW c \in DbCalls
               PROVE /\ Len(dbCall[c].ran) <= 1
                     /\ dbCall[c].answer \in {"result", "column-not-found"} => Len(dbCall[c].ran) = 1
                     /\ dbCall[c].retryable /\ dbCall[c].answer # "backend-unavailable"
                          => dbCall[c].ran = <<>>
                     /\ \A k \in DOMAIN dbCall[c].ran : \A i, j \in DOMAIN dbCall[c].ran[k] :
                          /\ RootDatabase(dbCall[c].ran[k][i].from) = dbCall[c].db
                          /\ dbCall[c].ran[k][i].from = dbCall[c].ran[k][j].from
    BY DEF D1CallsOnce, QueryOnce, RetryableDidNotRun, OneDatabase
  <2>1. SentFrom(dbCall[c]) /\ DbSettled(dbCall[c])
    BY DEF DbInv
  <2>2. CASE dbCall[c].ran = <<>>
    BY <2>1, <2>2 DEF DbSettled
  <2>3. CASE dbCall[c].ran = <<dbCall[c].sent>>
    BY <2>1, <2>3 DEF DbSettled, SentFrom
  <2> QED BY <2>1, <2>2, <2>3 DEF DbSettled
<1> QED BY <1>1, DbInitInv, DbNextInv, PTL DEF DbSpec
=============================================================================
