----------------------------- MODULE RedisWire -----------------------------
(***************************************************************************)
(* The Redis connection of Control, Gateway and the runtimes               *)
(* (shared/redis-*.js): RESP frames cut into chunks at any byte, the       *)
(* incremental RespReader, pipelines, WATCH snapshots and MULTI/EXEC of a  *)
(* held RedisSession, the socket-per-call RedisClient with its command     *)
(* deadline, and the caller's optimistic retries.  The server is external; *)
(* one other client writes the same key.  A RESP byte is a one-character   *)
(* string; a parsed reply is a sequence whose first element names its type.*)
(***************************************************************************)
EXTENDS Integers, Sequences, SequencesExt

CONSTANTS RwWorkloads, \* records [held, db, tolerant, deadline, calls]
          RwBatch,     \* commands that fit REDIS_WRITE_BATCH_BYTES
          RwTries,     \* attempts of the optimistic caller
          RwWrites,    \* bound: writes of the other client
          RwFaults     \* bound: lost connections and deadlines

ASSUME RwAssumption == RwBatch \in Nat \ {0} /\ {RwTries, RwWrites, RwFaults} \subseteq Nat

VARIABLES rwCase,  \* the workload: one caller and the calls it makes in order
          rwKey,   \* the value of the string key "k"; "h" holds a hash
          rwOther, \* writes of the other client so far
          rwSrv,   \* the server's side of the connection: watch, queue, abort
          rwIn,    \* commands on their way to the server, [id, cmd]
          rwLate,  \* commands of a connection the client has given up
          rwWire,  \* reply bytes on their way to the client
          rwLink,  \* "up", or "down" once the connection is lost
          rwLog,   \* what the server answered to each call, in order
          rwP,     \* RespReader
          rwS,     \* RedisSession or RedisClient, and the caller
          rwFault  \* faults so far

rwWork == RwWorkloads[rwCase]
rwVars == <<rwCase, rwKey, rwOther, rwSrv, rwIn, rwLate, rwWire, rwLink, rwLog, rwP, rwS, rwFault>>

-----------------------------------------------------------------------------
(* RESP                                                                      *)

Digits == <<"0", "1", "2", "3", "4", "5", "6", "7", "8", "9">>
CRLF == <<"CR", "LF">>
Dec(n) == <<Digits[n + 1]>>
OK == <<"s", "O">>
Nil == <<"nil">>
Err == <<"e", "E">>
IsErr(v) == v[1] = "e"

\* External: how the server writes a reply.
RECURSIVE Encode(_)
Encode(v) ==
  CASE v[1] = "s" -> <<"+">> \o Tail(v) \o CRLF
    [] v[1] = "e" -> <<"-">> \o Tail(v) \o CRLF
    [] v[1] = "n" -> <<":">> \o Tail(v) \o CRLF
    [] v[1] = "b" -> <<"$">> \o Dec(Len(v) - 1) \o CRLF \o Tail(v) \o CRLF
    [] v[1] = "nil" -> <<"$", "-", "1">> \o CRLF
    [] v[1] = "nila" -> <<"*", "-", "1">> \o CRLF
    [] v[1] = "a" -> <<"*">> \o Dec(Len(v) - 1) \o CRLF
                     \o FlattenSeq([i \in 1..(Len(v) - 1) |-> Encode(v[i + 1])])

\* parseRespIntegerBytes; the server writes no malformed integer.
ParseInt(s) == IF s[1] = "-" THEN -1
               ELSE FoldLeft(LAMBDA n, d : n * 10 + (CHOOSE i \in 1..10 : Digits[i] = d) - 1, 0, s)

NewReader == [buf |-> <<>>, pos |-> 0, mode |-> "type", type |-> "", scan |-> 0,
              want |-> 0, frames |-> <<>>, out |-> <<>>]

\* _parseOne returns v: to the array being filled, or to parseOne.  An error in
\* an array is kept until the array is complete.
RECURSIVE Return(_, _)
Return(p, v) ==
  IF p.frames = <<>> THEN [p EXCEPT !.mode = "type", !.out = v]
  ELSE LET f == Last(p.frames)
           g == [left  |-> f.left - 1,
                 items |-> IF IsErr(v) THEN f.items ELSE Append(f.items, v),
                 err   |-> IF IsErr(v) /\ f.err = <<>> THEN v ELSE f.err]
       IN IF g.left > 0 THEN [p EXCEPT !.mode = "type", !.frames = Append(Front(@), g)]
          ELSE Return([p EXCEPT !.frames = Front(@)], IF g.err # <<>> THEN g.err ELSE <<"a">> \o g.items)

\* The line of a reply is complete: its end is at offset `end`.
ParseLine(p, end) ==
  LET text == SubSeq(p.buf, p.pos + 1, end)
      q == [p EXCEPT !.pos = end + 2]
  IN CASE p.type = "+" -> Return(q, <<"s">> \o text)
       [] p.type = "-" -> Return(q, <<"e">> \o text)
       [] p.type = ":" -> Return(q, <<"n">> \o text)
       [] p.type = "$" -> IF ParseInt(text) = -1 THEN Return(q, Nil)
                          ELSE [q EXCEPT !.mode = "bulk", !.want = q.pos + ParseInt(text) + 2]
       [] p.type = "*" -> IF ParseInt(text) = -1 THEN Return(q, Nil)
                          ELSE IF ParseInt(text) = 0 THEN Return(q, <<"a">>)
                          ELSE [q EXCEPT !.mode = "type",
                                         !.frames = Append(@, [left |-> ParseInt(text), items |-> <<>>, err |-> <<>>])]
       [] OTHER -> Return(q, <<"unknown">>)

\* _findCRLF: the offset of the first CR LF from `from` on; when there is none yet,
\* the offset to resume at: that of a CR that ends the buffer, or of the last byte.
FindCRLF(p, from) ==
  LET at == {i \in from..(Len(p.buf) - 1) :
               p.buf[i + 1] = "CR" /\ (i + 1 = Len(p.buf) \/ p.buf[i + 2] = "LF")}
  IN IF at = {} THEN [done |-> FALSE, at |-> Len(p.buf) - 1]
     ELSE LET i == CHOOSE j \in at : \A k \in at : j <= k
          IN [done |-> i + 1 < Len(p.buf), at |-> i]

\* Runs the parser until it has a reply or needs bytes: nothing else runs
\* between, since no await in it waits.
RECURSIVE Run(_)
Run(p) ==
  IF p.out # <<>> THEN p
  ELSE CASE p.mode = "type" ->
              IF Len(p.buf) < p.pos + 1 THEN p
              ELSE Run([p EXCEPT !.mode = "line", !.type = p.buf[p.pos + 1],
                                 !.pos = @ + 1, !.scan = p.pos + 1])
         [] p.mode = "line" ->
              LET f == FindCRLF(p, p.scan)
              IN IF f.done THEN Run(ParseLine(p, f.at)) ELSE [p EXCEPT !.scan = f.at]
         [] p.mode = "bulk" ->
              IF Len(p.buf) < p.want THEN p
              ELSE Run(Return([p EXCEPT !.pos = p.want], <<"b">> \o SubSeq(p.buf, p.pos + 1, p.want - 2)))

\* _compactConsumed; how much storage is kept is left out.
Compact(p) == [p EXCEPT !.buf = SubSeq(@, p.pos + 1, Len(@)), !.pos = 0]

Less(n, consumed) == IF n > consumed THEN n - consumed ELSE 0

\* _readMore, and the offsets its callers hold across the await.
ReadMore(p, chunk) ==
  [Compact(p) EXCEPT !.buf = @ \o chunk, !.scan = Less(@, p.pos), !.want = Less(@, p.pos)]

-----------------------------------------------------------------------------
(* The calls of RedisSession and RedisClient                                 *)

\* A call is [how, watch, groups]: the keys it watches and the groups of
\* commands whose replies it returns separately.
Cmd(c, k) == [c |-> c, k |-> k]

\* The command list of a read helper: its groups, one after the other.
Reads(call) == FlattenSeq(call.groups)

\* _watchAndExecPipeline: WATCH comes first.
WatchPipeline(call) == <<Cmd("WATCH", call.watch)>> \o Reads(call)

Commands(call) ==
  CASE call.how = "select" -> <<Cmd("SELECT", "")>>
    [] call.how = "watch" -> WatchPipeline(call)
    [] call.how = "multi" -> <<Cmd("MULTI", "")>> \o Reads(call) \o <<Cmd("EXEC", "")>>
    [] OTHER -> Reads(call)

\* How a helper cuts the replies back into its groups.
RECURSIVE Slices(_, _)
Slices(groups, replies) ==
  IF groups = <<>> THEN <<>>
  ELSE <<SubSeq(replies, 1, Len(groups[1]))>>
       \o Slices(Tail(groups), SubSeq(replies, Len(groups[1]) + 1, Len(replies)))

\* What the caller is given: the groups of a read, the reply of a single
\* command, the reply to EXEC.
Result(call, replies) ==
  CASE call.how = "watch" -> Slices(call.groups, Tail(replies))
    [] call.how = "pipe" -> Slices(call.groups, replies)
    [] OTHER -> <<<<Last(replies)>>>>

\* open() and _withSocket select the database on every socket they open.
Select == [how |-> "select", watch |-> "", groups |-> <<>>]
Calls == IF ~rwWork.db THEN rwWork.calls
         ELSE IF rwWork.held THEN <<Select>> \o rwWork.calls
         ELSE FlattenSeq([i \in DOMAIN rwWork.calls |-> <<Select, rwWork.calls[i]>>])
Call(s) == Calls[s.pc]

RwNewSession(pc, tries, id) ==
  [pc |-> pc, tries |-> tries, id |-> id, ph |-> "ready", sent |-> 0, got |-> <<>>,
   err |-> FALSE, read |-> 0, done |-> <<>>, end |-> ""]

RwInit ==
  /\ rwCase \in DOMAIN RwWorkloads
  /\ rwKey = 0 /\ rwOther = 0
  /\ rwSrv = [watch |-> {}, multi |-> FALSE, queue |-> <<>>, abort |-> FALSE, dirty |-> FALSE]
  /\ rwIn = <<>> /\ rwLate = <<>> /\ rwWire = <<>> /\ rwLink = "up" /\ rwLog = <<>>
  /\ rwP = NewReader
  /\ rwS = RwNewSession(1, 1, 1)
  /\ rwFault = 0

-----------------------------------------------------------------------------
(* The server (external)                                                     *)

FreshSrv == [watch |-> {}, multi |-> FALSE, queue |-> <<>>, abort |-> FALSE, dirty |-> FALSE]

Reply(c, key) ==
  CASE c.c = "GET" -> IF c.k = "k" THEN <<"b">> \o Dec(key) ELSE Err
    [] c.c = "INCR" -> IF c.k = "k" THEN <<"n">> \o Dec(key + 1) ELSE Err
    [] c.c = "HGET" -> Nil
    [] c.c = "HGETALL" -> <<"a", <<"b", "f">>, <<"b", "CR", "x">>>>
    [] c.c = "BAD" -> Err
    [] OTHER -> OK
KeyAfter(c, key) ==
  CASE c.k = "k" /\ c.c = "INCR" -> key + 1 [] c.c = "SET" -> c.v [] OTHER -> key

RECURSIVE RunQueue(_, _)
RunQueue(queue, key) ==
  IF queue = <<>> THEN [key |-> key, replies |-> <<>>]
  ELSE LET rest == RunQueue(Tail(queue), KeyAfter(queue[1], key))
       IN [key |-> rest.key, replies |-> <<Reply(queue[1], key)>> \o rest.replies]

Serve(srv, key, c) ==
  CASE c.c = "EXEC" ->
         IF srv.abort \/ srv.dirty
         THEN [srv |-> FreshSrv, key |-> key, reply |-> IF srv.abort THEN Err ELSE <<"nila">>]
         ELSE LET q == RunQueue(srv.queue, key)
              IN [srv |-> FreshSrv, key |-> q.key, reply |-> <<"a">> \o q.replies]
    [] c.c # "EXEC" /\ srv.multi ->
         [srv |-> IF c.c = "BAD" THEN [srv EXCEPT !.abort = TRUE] ELSE [srv EXCEPT !.queue = Append(@, c)],
          key |-> key, reply |-> IF c.c = "BAD" THEN Err ELSE <<"s", "Q">>]
    [] OTHER ->
         [srv |-> CASE c.c = "MULTI" -> [srv EXCEPT !.multi = TRUE]
                    [] c.c = "WATCH" -> [srv EXCEPT !.watch = @ \cup {c.k}]
                    [] OTHER -> srv,
          key |-> KeyAfter(c, key), reply |-> Reply(c, key)]

Touched(srv, changed) == [srv EXCEPT !.dirty = @ \/ (changed /\ "k" \in srv.watch)]
TouchLate(late, changed) == [i \in DOMAIN late |-> [late[i] EXCEPT !.srv = Touched(@, changed)]]

ServerStep ==
  /\ rwLink = "up" /\ rwIn # <<>>
  /\ LET a == Serve(rwSrv, rwKey, rwIn[1].cmd)
     IN /\ rwSrv' = Touched(a.srv, a.key # rwKey)
        /\ rwLate' = TouchLate(rwLate, a.key # rwKey)
        /\ rwKey' = a.key
        /\ rwWire' = rwWire \o Encode(a.reply)
        /\ rwLog' = [rwLog EXCEPT ![rwIn[1].id] = Append(@, a.reply)]
  /\ rwIn' = Tail(rwIn)
  /\ UNCHANGED <<rwCase, rwOther, rwLink, rwP, rwS, rwFault>>

\* Commands of an abandoned connection that had reached the server still run.
LateStep ==
  \E i \in DOMAIN rwLate :
    /\ \/ /\ rwLate[i].in # <<>>
          /\ LET a == Serve(rwLate[i].srv, rwKey, Head(rwLate[i].in))
             IN /\ rwKey' = a.key
                /\ rwSrv' = Touched(rwSrv, a.key # rwKey)
                /\ rwLate' = TouchLate([rwLate EXCEPT ![i] = [srv |-> a.srv, in |-> Tail(@.in)]], a.key # rwKey)
       \/ rwLate' = RemoveAt(rwLate, i) /\ UNCHANGED <<rwKey, rwSrv>>
    /\ UNCHANGED <<rwCase, rwOther, rwIn, rwWire, rwLink, rwLog, rwP, rwS, rwFault>>

OtherWrite ==
  /\ rwOther < RwWrites
  /\ rwOther' = rwOther + 1 /\ rwKey' = rwKey + 1
  /\ rwSrv' = Touched(rwSrv, TRUE) /\ rwLate' = TouchLate(rwLate, TRUE)
  /\ UNCHANGED <<rwCase, rwIn, rwWire, rwLink, rwLog, rwP, rwS, rwFault>>

\* The connection is lost with the replies that have not arrived.
LoseLink ==
  /\ rwLink = "up" /\ rwFault < RwFaults /\ rwS.end = ""
  /\ rwLink' = "down" /\ rwFault' = rwFault + 1
  /\ \E n \in 0..Len(rwWire) : rwWire' = SubSeq(rwWire, 1, n)
  /\ rwLate' = Append(rwLate, [srv |-> rwSrv, in |-> [i \in DOMAIN rwIn |-> rwIn[i].cmd]])
  /\ rwIn' = <<>> /\ rwSrv' = FreshSrv
  /\ UNCHANGED <<rwCase, rwKey, rwOther, rwLog, rwP, rwS>>

-----------------------------------------------------------------------------
(* The client                                                                *)

\* Bug: a pipeline of a held session stops reading at its first error reply.
Complete_FirstError(s, v) == Len(s.got) = Len(Commands(Call(s))) \/ IsErr(v)

\* A session drains every reply of a pipeline; a client's socket dies with the error.
Complete(s, v) == Len(s.got) = Len(Commands(Call(s))) \/ (~rwWork.held /\ IsErr(v))

RECURSIVE Drive(_, _)
Drive(p, s) ==
  LET q == Run(p)
      r == [q EXCEPT !.out = <<>>]
      t == [s EXCEPT !.got = Append(@, q.out), !.err = @ \/ IsErr(q.out)]
  IN IF q.out = <<>> THEN [p |-> q, s |-> s]
     ELSE IF Complete(t, q.out) THEN [p |-> Compact(r), s |-> [t EXCEPT !.ph = "answered"]]
     ELSE Drive(IF Call(s).how = "multi" THEN Compact(r) ELSE r, t)

\* writeRedisCommands: one bounded buffer per write; replies are read when all
\* commands are written.  SET stores the value read before plus one.
Write ==
  LET cmds == Commands(Call(rwS))
      n == IF rwS.sent + RwBatch > Len(cmds) THEN Len(cmds) ELSE rwS.sent + RwBatch
      Sent(c) == IF c.c = "SET" THEN [c |-> "SET", k |-> c.k, v |-> rwS.read + 1] ELSE c
      s == [rwS EXCEPT !.sent = n, !.ph = IF n = Len(cmds) THEN "reading" ELSE "writing"]
      d == IF s.ph = "reading" THEN Drive(rwP, s) ELSE [p |-> rwP, s |-> s]
  IN /\ rwS.ph \in {"ready", "writing"} /\ rwLink = "up"
     /\ rwIn' = rwIn \o [i \in 1..(n - rwS.sent) |-> [id |-> rwS.id, cmd |-> Sent(cmds[rwS.sent + i])]]
     /\ rwLog' = IF rwS.sent = 0 THEN Append(rwLog, <<>>) ELSE rwLog
     /\ rwP' = d.p /\ rwS' = d.s
     /\ UNCHANGED <<rwCase, rwKey, rwOther, rwSrv, rwLate, rwWire, rwLink, rwFault>>

Read ==
  /\ rwS.ph = "reading"
  /\ \E n \in 1..Len(rwWire) :
       LET d == Drive(ReadMore(rwP, SubSeq(rwWire, 1, n)), rwS)
       IN rwP' = d.p /\ rwS' = d.s /\ rwWire' = SubSeq(rwWire, n + 1, Len(rwWire))
  /\ UNCHANGED <<rwCase, rwKey, rwOther, rwSrv, rwIn, rwLate, rwLink, rwLog, rwFault>>

Outcome(s) == IF s.err THEN "replyError"
              ELSE IF Call(s).how = "multi" /\ Last(s.got) = Nil THEN "watch" ELSE "ok"

ReadValue(s) == IF Call(s).how = "watch" THEN ParseInt(Tail(Result(Call(s), s.got)[1][1])) ELSE s.read

\* A call has ended with outcome oc: a session goes on over its socket, a client
\* opens another, runOptimistic opens a new session after a WATCH invalidation.
EndCall(oc) ==
  LET s == rwS
      result == IF oc = "ok" THEN Result(Call(s), s.got) ELSE <<>>
      done == Append(s.done, [id |-> s.id, call |-> Call(s), oc |-> oc, result |-> result])
      more == oc = "ok" \/ (rwWork.tolerant /\ (oc = "replyError" \/ ~rwWork.held))
      pc == s.pc + (IF oc # "ok" /\ Call(s).how = "select" THEN 2 ELSE 1)
      next == [RwNewSession(pc, s.tries, s.id + 1) EXCEPT
                 !.done = done, !.read = IF oc = "ok" THEN ReadValue(s) ELSE s.read]
      again == [RwNewSession(1, s.tries + 1, s.id + 1) EXCEPT !.done = done]
      over(how) == [s EXCEPT !.done = done, !.ph = "over", !.end = how]
  IN rwS' = IF more THEN IF pc <= Len(Calls) THEN next ELSE over("finished")
            ELSE IF oc = "watch" THEN IF s.tries < RwTries THEN again ELSE over("exhausted")
            ELSE over("failed")

\* close(): the socket goes; what was sent over it may still be served.
CloseSocket ==
  /\ rwP' = NewReader /\ rwWire' = <<>> /\ rwIn' = <<>> /\ rwSrv' = FreshSrv /\ rwLink' = "up"
  /\ rwLate' = IF rwIn = <<>> THEN rwLate
               ELSE Append(rwLate, [srv |-> rwSrv, in |-> [i \in DOMAIN rwIn |-> rwIn[i].cmd]])

KeepSocket(oc) == IF rwWork.held THEN oc # "watch" ELSE oc = "ok" /\ Call(rwS).how = "select"

Settle ==
  /\ rwS.ph = "answered"
  /\ EndCall(Outcome(rwS))
  /\ IF KeepSocket(Outcome(rwS)) THEN UNCHANGED <<rwP, rwWire, rwIn, rwSrv, rwLink, rwLate>> ELSE CloseSocket
  /\ UNCHANGED <<rwCase, rwKey, rwOther, rwLog, rwFault>>

\* A read or a write fails: the session or the client closes its socket.
Fail ==
  /\ rwLink = "down"
  /\ rwS.ph \in {"ready", "writing"} \/ (rwS.ph = "reading" /\ rwWire = <<>>)
  /\ EndCall("transport") /\ CloseSocket
  /\ rwLog' = IF rwS.ph = "ready" THEN Append(rwLog, <<>>) ELSE rwLog
  /\ UNCHANGED <<rwCase, rwKey, rwOther, rwFault>>

\* RedisClient's command deadline fires first.
Deadline ==
  /\ ~rwWork.held /\ rwWork.deadline /\ rwFault < RwFaults
  /\ rwS.ph \in {"writing", "reading"}
  /\ EndCall("timeout") /\ CloseSocket
  /\ rwFault' = rwFault + 1
  /\ UNCHANGED <<rwCase, rwKey, rwOther, rwLog>>

RwNext == ServerStep \/ LateStep \/ OtherWrite \/ LoseLink \/ Write \/ Read \/ Settle \/ Fail \/ Deadline

RwSpec == RwInit /\ [][RwNext]_rwVars

-----------------------------------------------------------------------------
(* Properties                                                                *)

\* What a reply means to the caller: an error in an array stands for the array.
Seen(v) == IF v[1] = "nila" THEN Nil
           ELSE IF v[1] = "a" /\ \E i \in 2..Len(v) : IsErr(v[i]) THEN Err ELSE v

\* However the stream is cut into chunks and whatever call failed before, a call
\* returns exactly what the server answered to its own commands, group by group;
\* it reports an error reply or a WATCH invalidation only if the server sent one.
RepliesBelong ==
  \A i \in DOMAIN rwS.done :
    LET d == rwS.done[i]
        answers == [j \in DOMAIN rwLog[d.id] |-> Seen(rwLog[d.id][j])]
    IN CASE d.oc = "ok" -> /\ Len(answers) = Len(Commands(d.call))
                           /\ d.result = Result(d.call, answers)
         [] d.oc = "replyError" -> \E j \in DOMAIN answers : IsErr(answers[j])
         [] d.oc = "watch" -> Last(answers) = Nil
         [] OTHER -> TRUE

Increments(call) == Len(SelectSeq(Reads(call), LAMBDA c : c.c \in {"SET", "INCR"} /\ c.k = "k"))
Sum(s) == FoldLeft(LAMBDA n, d : n + Increments(d.call), 0, s)

\* Optimistic updates lose no write: the counter is the other client's writes plus
\* the caller's successful increments plus at most those whose outcome it does not
\* know (a lost connection, a deadline, an error reply after EXEC); an update it was
\* told to be invalidated never happened.
NoLostUpdate ==
  LET known == rwOther + Sum(SelectSeq(rwS.done, LAMBDA d : d.oc = "ok"))
      unknown == Sum(SelectSeq(rwS.done, LAMBDA d : d.oc \notin {"ok", "watch"}))
      running == IF rwS.ph = "over" THEN 0 ELSE Increments(Call(rwS))
  IN rwKey \in known..(known + unknown + running)

\* The Redis client gives every call its own replies and reports an optimistic
\* update as done only if it was, on a connection that may break anywhere.
WireExact ==
  /\ RepliesBelong
  /\ NoLostUpdate

=============================================================================
