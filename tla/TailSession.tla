---------------------------- MODULE TailSession ----------------------------
(***************************************************************************)
(* A live-tail session of Control (control/handlers/logs-tail.js): the     *)
(* request and its resume point, the pull-driven SSE stream over XREAD,    *)
(* the lifetime and idle timers, cancellation, the cleanup task, and a     *)
(* client that reconnects with the last event id it saw.  An entry of a    *)
(* worker's stream is its number; SSE frames are the chunks of `out`.      *)
(***************************************************************************)
EXTENDS Integers, Sequences, SequencesExt, FiniteSets

CONSTANTS TsWorkers,    \* worker names
          TsMaxSession, \* LOG_TAIL_MAX_SESSION_MS
          TsIdle,       \* LOG_TAIL_IDLE_PULL_MS
          TsBlock,      \* SSE_KEEPALIVE_MS, XREAD_BLOCK_MS
          TsTTL,        \* TAIL_ACTIVATION_TTL_SECONDS
          TsMaxWorkers, \* MAX_WORKERS_PER_TAIL_SESSION
          TsMaxActive,  \* TAIL_ACTIVATION_MAX_ENTRIES
          TsMaxTime,    \* bound: the clock
          TsWorkloads   \* records [sel, since, kept, most, bad,
                        \* connects, faults]: ?worker= values,
                        \* ?since=, entries there before the client connects, the
                        \* bound on entries, those that are not JSON, the
                        \* bounds on connections and Redis failures

ASSUME TsAssumption == {TsMaxSession, TsIdle, TsBlock, TsTTL, TsMaxTime} \subseteq Nat \ {0}

VARIABLES tsCase, tsNow,
          stream, \* worker -> [first, last]: entries first..last
          active, \* logs:tail:active: worker -> expiry, 0 when absent
          ts,     \* the session
          tcl,    \* the client: last (Last-Event-ID, 0: none), got, left (connections)
          tsFault

tsWork == TsWorkloads[tsCase]
tsVars == <<tsCase, tsNow, stream, active, ts, tcl, tsFault>>

Dollar == -1   \* the cursor "$"
Malformed == -2
NoSession == [ph |-> "none", workers |-> {}, multi |-> FALSE, resume |-> 0, cursor |-> [w \in TsWorkers |-> Dollar],
              from |-> [w \in TsWorkers |-> 0], pull |-> "idle", until |-> 0, boot |-> FALSE, notice |-> FALSE,
              warn |-> FALSE, cancelled |-> FALSE, resolved |-> FALSE, cleaned |-> FALSE, redis |-> "no",
              ctl |-> "on", out |-> <<>>, start |-> 0, lastPull |-> 0]
Chunk(k, w, id, low) == [k |-> k, w |-> w, id |-> id, low |-> low]
Note(k) == Chunk(k, "", 0, 0)

TsInit ==
  /\ tsCase \in DOMAIN TsWorkloads
  /\ tsNow = 0 /\ tsFault = 0
  /\ stream = [w \in TsWorkers |-> [first |-> 1, last |-> tsWork.kept]]
  /\ active = [w \in TsWorkers |-> 0]
  /\ ts = NoSession
  /\ tcl = [last |-> 0, left |-> tsWork.connects,
            got |-> IF tsWork.since > 0 THEN <<Chunk("ev", tsWork.sel[1], tsWork.since, 0)>> ELSE <<>>]

Exists(w) == stream[w].first <= stream[w].last

-----------------------------------------------------------------------------
(* The request                                                               *)

\* parseSelector; every name of the workloads is a valid worker name.
SelectorOk(sel) == sel # <<>> /\ Cardinality(ToSet(sel)) <= TsMaxWorkers

\* Last-Event-ID wins over ?since=.
Candidate(last) == IF last # 0 THEN last ELSE tsWork.since

\* parseResume: what it returns, or a refusal.
ParseResume(multi, last) ==
  IF multi THEN [ok |-> tsWork.since = 0, id |-> 0]
  ELSE [ok |-> Candidate(last) # Malformed, id |-> Candidate(last)]

Live(s) == [s EXCEPT !.ph = "live", !.start = tsNow, !.lastPull = tsNow]

Connect ==
  /\ ts.ph = "none" /\ tcl.left > 0
  /\ tcl' = [tcl EXCEPT !.left = @ - 1]
  /\ LET multi == Len(tsWork.sel) > 1
         r == ParseResume(multi, tcl.last)
         s == [NoSession EXCEPT !.workers = ToSet(tsWork.sel), !.multi = multi, !.resume = r.id]
     IN ts' = IF ~SelectorOk(tsWork.sel) \/ ~r.ok THEN [NoSession EXCEPT !.ph = "refused"]
              ELSE IF r.id # 0 THEN [s EXCEPT !.ph = "checking"] ELSE Live(s)
  /\ UNCHANGED <<tsCase, tsNow, stream, active, tsFault>>

\* Bug: the resume point is checked and then not used.
Resumed_NotUsed(s) == Live(s)

\* setResumeId
Resumed(s) == Live([s EXCEPT !.cursor = [w \in TsWorkers |-> IF w \in s.workers THEN s.resume ELSE Dollar]])

\* checkResumePoint: an expired or trimmed stream falls back to a fresh start
\* with a warning.
CheckResume ==
  /\ ts.ph = "checking"
  /\ LET w == CHOOSE x \in ts.workers : TRUE
     IN ts' = IF ~Exists(w) \/ ts.resume < stream[w].first
              THEN Live([ts EXCEPT !.warn = TRUE]) ELSE Resumed(ts)
  /\ UNCHANGED <<tsCase, tsNow, stream, active, tcl, tsFault>>

-----------------------------------------------------------------------------
(* The end of a session                                                      *)

\* closeWithWarning: only the first caller does anything.
CloseWithWarning(s) ==
  IF s.cancelled THEN s
  ELSE [s EXCEPT !.cancelled = TRUE, !.resolved = TRUE, !.ctl = "closed",
                 !.out = IF s.ctl = "on" THEN Append(@, Note("end")) ELSE @]

\* The catch of pull().
PullFails(s) == [s EXCEPT !.pull = "idle", !.ctl = "closed", !.cancelled = TRUE,
                          !.resolved = @ \/ ~s.cancelled]

\* pull() finds the session cancelled after an await.
PullStops(s) == [s EXCEPT !.pull = "idle", !.ctl = "closed"]

\* closeSessionIfOpen
CloseRedis(s) == IF s.redis \in {"opening", "open"} THEN [s EXCEPT !.redis = "closed"] ELSE s

Quiet(var) == var /\ UNCHANGED <<tsCase, tsNow, stream, active, tcl, tsFault>>

\* The pre-registered waitUntil task.
Cleanup == ts.resolved /\ ~ts.cleaned /\ Quiet(ts' = [CloseRedis(ts) EXCEPT !.cleaned = TRUE])

\* The expiry timer and the idle watchdog, until the cleanup clears them.
Armed == ts.ph = "live" /\ ~ts.cleaned
ExpireSession == Armed /\ ~ts.cancelled /\ tsNow - ts.start >= TsMaxSession /\ Quiet(ts' = CloseWithWarning(ts))
IdleSession == Armed /\ ~ts.cancelled /\ tsNow - ts.lastPull >= TsIdle /\ Quiet(ts' = CloseWithWarning(ts))

\* The client goes away: cancel().
ClientCancel ==
  /\ ts.ph = "live" /\ ts.ctl = "on"
  /\ Quiet(ts' = [ts EXCEPT !.cancelled = TRUE, !.resolved = TRUE, !.ctl = "closed", !.out = <<>>])

-----------------------------------------------------------------------------
(* pull()                                                                    *)

Remaining == TsMaxSession - (tsNow - ts.start)
Proceed(s) == IF Remaining <= 0 THEN CloseWithWarning([s EXCEPT !.pull = "idle"])
              ELSE [s EXCEPT !.pull = "activating"]

Pull ==
  /\ ts.ph = "live" /\ ts.pull = "idle" /\ ts.ctl = "on" /\ ts.out = <<>>
  /\ LET s == [ts EXCEPT !.lastPull = tsNow]
     IN Quiet(ts' = IF ts.boot THEN Proceed(s) ELSE [s EXCEPT !.pull = "opening", !.redis = "opening"])

\* session.open() resolves, or finds the session closed by the cleanup.
Opened ==
  /\ ts.pull = "opening"
  /\ Quiet(ts' = IF ts.redis = "closed" THEN PullFails(ts)
                 ELSE LET s == [ts EXCEPT !.redis = "open"]
                      IN IF s.cancelled THEN PullStops(CloseRedis(s)) ELSE Proceed([s EXCEPT !.boot = TRUE]))

\* ACTIVATE_TAIL_WORKERS_SCRIPT renews what is there and adds while there is room.
Activation(on) ==
  LET held == {w \in TsWorkers : active[w] > tsNow}
      room == TsMaxActive - Cardinality(held)
      added == CHOOSE A \in SUBSET (on \ held) :
                 Cardinality(A) = (IF Cardinality(on \ held) < room THEN Cardinality(on \ held) ELSE room)
  IN [w \in TsWorkers |-> IF w \in (on \cap held) \cup added THEN tsNow + TsTTL ELSE active[w]]

\* The frames of the first pull; a closed controller refuses them.
Announced(s) == IF s.notice THEN s
                ELSE [s EXCEPT !.notice = TRUE, !.warn = FALSE,
                               !.out = @ \o <<Note("open")>> \o (IF s.warn THEN <<Note("warn")>> ELSE <<>>)]

\* readBatch: "$" is what the stream ends with when XREAD reaches the server.
Reading(s) ==
  IF s.redis # "open" THEN PullFails(s)
  ELSE [s EXCEPT !.pull = "reading",
                 !.until = tsNow + (IF Remaining < TsBlock THEN Remaining ELSE TsBlock),
                 !.from = [w \in TsWorkers |-> IF s.cursor[w] = Dollar THEN stream[w].last ELSE s.cursor[w]]]

\* The heartbeat is written, or fails and is passed over, and XREAD is sent.
TsActivated ==
  /\ ts.pull = "activating"
  /\ \/ active' = Activation(ts.workers) /\ UNCHANGED tsFault
     \/ tsFault < tsWork.faults /\ tsFault' = tsFault + 1 /\ UNCHANGED active
  /\ ts' = IF ~ts.notice /\ ts.ctl = "closed" THEN PullFails(ts) ELSE Reading(Announced(ts))
  /\ UNCHANGED <<tsCase, tsNow, stream, tcl>>

Unread(w) == {i \in stream[w].first..stream[w].last : i > ts.from[w]}

\* RedisTailCursor.decode: the cursor passes every entry, well formed or not.
Decode(w) == LET ids == SetToSortSeq(Unread(w) \ tsWork.bad, <)
             IN [i \in DOMAIN ids |-> Chunk("ev", w, ids[i], stream[w].first)]
Passed(s) == [w \in TsWorkers |-> IF w \in s.workers /\ Unread(w) # {} THEN stream[w].last ELSE s.cursor[w]]

\* XREAD answers: with entries as soon as a stream has some, or with none when
\* its time is up.
ReadReturns ==
  /\ ts.pull = "reading" /\ ts.redis = "open"
  /\ LET order == SetToSeq({w \in ts.workers : Unread(w) # {}})
         s == [ts EXCEPT !.pull = "idle", !.cursor = Passed(ts)]
     IN /\ order # <<>> \/ tsNow >= ts.until
        /\ Quiet(ts' = IF ts.cancelled THEN PullStops(s)
                       ELSE IF order = <<>> THEN [s EXCEPT !.out = Append(@, Note("hb"))]
                       ELSE [s EXCEPT !.out = @ \o FlattenSeq([i \in DOMAIN order |-> Decode(order[i])])])

\* Redis fails, or the cleanup has closed the session under the read.
ReadFails ==
  /\ ts.pull = "reading"
  /\ \/ ts.redis = "closed" /\ UNCHANGED tsFault
     \/ ts.redis = "open" /\ tsFault < tsWork.faults /\ tsFault' = tsFault + 1
  /\ ts' = PullFails(IF ts.redis = "open" THEN [ts EXCEPT !.redis = "closed"] ELSE ts)
  /\ UNCHANGED <<tsCase, tsNow, stream, active, tcl>>

\* session.open() fails and closes what it opened.
OpenFails ==
  /\ ts.pull = "opening" /\ ts.redis = "opening" /\ tsFault < tsWork.faults
  /\ tsFault' = tsFault + 1
  /\ ts' = PullFails([ts EXCEPT !.redis = "closed"])
  /\ UNCHANGED <<tsCase, tsNow, stream, active, tcl>>

-----------------------------------------------------------------------------
(* The client, the streams and the clock                                     *)

\* An SSE client keeps the id of the last event that has one.
ClientReads ==
  /\ ts.out # <<>>
  /\ ts' = [ts EXCEPT !.out = <<>>]
  /\ LET evs == SelectSeq(ts.out, LAMBDA c : c.k = "ev")
     IN tcl' = [tcl EXCEPT !.last = IF evs = <<>> \/ ts.multi THEN @ ELSE Last(evs).id,
                           !.got = @ \o SelectSeq(ts.out, LAMBDA c : c.k \in {"ev", "warn"})]
  /\ UNCHANGED <<tsCase, tsNow, stream, active, tsFault>>

ClientReturns ==
  /\ ts.ph = "live" /\ ts.ctl = "closed" /\ ts.out = <<>> /\ ts.cleaned /\ ts.pull = "idle" /\ tcl.left > 0
  /\ Quiet(ts' = NoSession)

\* A runtime appends an entry (TailForward); MAXLEN trims; an idle stream expires.
StreamMoves ==
  \E w \in ToSet(tsWork.sel) :
    /\ \/ stream[w].last < tsWork.most /\ stream' = [stream EXCEPT ![w].last = @ + 1]
       \/ stream[w].first < stream[w].last /\ stream' = [stream EXCEPT ![w].first = @ + 1]
       \/ Exists(w) /\ stream' = [stream EXCEPT ![w].first = stream[w].last + 1]
    /\ UNCHANGED <<tsCase, tsNow, active, ts, tcl, tsFault>>

\* Timers fire before the clock passes them; a read does not outlive its block.
TsTick ==
  /\ tsNow < TsMaxTime
  /\ ts.ph = "live" /\ ~ts.cancelled => /\ tsNow - ts.start < TsMaxSession
                                        /\ tsNow - ts.lastPull < TsIdle
  /\ ts.pull = "reading" => tsNow < ts.until
  /\ tsNow' = tsNow + 1
  /\ UNCHANGED <<tsCase, stream, active, ts, tcl, tsFault>>

TsNext == \/ Connect \/ CheckResume \/ Pull \/ Opened \/ OpenFails \/ TsActivated \/ ReadReturns \/ ReadFails
          \/ ExpireSession \/ IdleSession \/ ClientCancel \/ Cleanup
          \/ ClientReads \/ ClientReturns \/ StreamMoves \/ TsTick

TsSpec == TsInit /\ [][TsNext]_tsVars

-----------------------------------------------------------------------------
(* Properties                                                                *)

\* A client that reconnects with its last event id is never sent an entry again,
\* nor an entry that comes before one it has: frames without an id leave its
\* cursor alone and the cursor of the reconnect wins over ?since=.
TailInOrder ==
  \A i, j \in DOMAIN tcl.got :
    i < j /\ tcl.got[i].k = "ev" /\ tcl.got[j].k = "ev" /\ tcl.got[i].w = tcl.got[j].w
      => tcl.got[i].id < tcl.got[j].id

\* A single-worker client misses an entry between two that it receives only if
\* the entry was no longer in the stream, was not JSON, or a tail_warning told it.
GapsExplained ==
  Len(tsWork.sel) = 1 =>
    \A i \in 1..(Len(tcl.got) - 1) :
      LET a == tcl.got[i]
          b == tcl.got[i + 1]
      IN a.k = "ev" /\ b.k = "ev" =>
           \A m \in (a.id + 1)..(b.id - 1) : m < b.low \/ m \in tsWork.bad

\* A session that is over holds no Redis connection once its cleanup has run and
\* no pull is in progress, whenever it was cancelled; and its cleanup is on its way.
NoTailLeak ==
  ts.cancelled /\ ts.pull = "idle" => /\ ts.resolved
                                      /\ ts.cleaned => ts.redis \notin {"opening", "open"}

\* Across reconnects a tail client gets the entries in order, is told of the
\* ones it misses, and leaves no connection behind (control tail session).
TailFaithful ==
  /\ TailInOrder
  /\ GapsExplained
  /\ NoTailLeak

=============================================================================
