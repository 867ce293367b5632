----------------------------- MODULE MCBindings -----------------------------
(***************************************************************************)
(* The bindings of the runtime and the Redis client they share, checked side *)
(* by side: part names the component a behaviour runs, the others keep one *)
(* initial state.                                                          *)
(***************************************************************************)
EXTENDS RedisWire, AiStream, AiBinding, KvBinding, D1ReadCache, D1Binding, DoEnvelope, TLC

VARIABLE part

-----------------------------------------------------------------------------
(* RedisWire *)

MCGet == Cmd("GET", "k")
MCRwCall(how, groups) == [how |-> how, watch |-> "k", groups |-> groups]
MCRw(held, db, tol, dl, calls) ==
  [held |-> held, db |-> db, tolerant |-> tol, deadline |-> dl, calls |-> calls]
MCRwWorkloads ==
  << MCRw(TRUE, FALSE, FALSE, FALSE,
          << MCRwCall("watch", << <<MCGet>> >>),
             MCRwCall("multi", << <<Cmd("SET", "k")>> >>) >>),
     MCRw(TRUE, FALSE, TRUE, FALSE,
          << MCRwCall("pipe", << <<Cmd("GET", "h")>>, <<Cmd("HGET", "h")>> >>),
             MCRwCall("multi", << <<Cmd("INCR", "h")>> >>) >>),
     MCRw(TRUE, FALSE, TRUE, FALSE,
          << MCRwCall("multi", << <<Cmd("BAD", "k"), Cmd("INCR", "k")>> >>),
             MCRwCall("exec", << <<Cmd("INCR", "k")>> >>) >>),
     MCRw(FALSE, TRUE, TRUE, TRUE,
          << MCRwCall("pipe", << <<Cmd("GET", "h"), Cmd("INCR", "k")>> >>),
             MCRwCall("exec", << <<Cmd("INCR", "k")>> >>) >>),
     MCRw(FALSE, FALSE, TRUE, TRUE,
          << MCRwCall("multi", << <<Cmd("INCR", "k")>> >>),
             MCRwCall("exec", << <<Cmd("HGETALL", "h")>> >>) >>) >>

-----------------------------------------------------------------------------
(* AiStream: every short mix of line ends, and longer streams *)

MCStreams ==
  [1 .. 4 -> {"x", "CR", "LF"}] \cup
  { <<"x", "LF", "LF", "T", "CR", "CR">>, <<"T", "LF", "CR">>, <<"x", "LF", "LF", "B", "LF", "LF">>,
    <<"x", "CR", "LF", "CR", "LF", "T", "CR", "LF", "CR", "LF">>, <<"x", "x", "x", "x", "x", "LF">>,
    <<"x", "CR", "LF", "x", "CR", "LF", "LF", "T", "CR", "CR">>,
    <<"x", "LF", "CR", "LF", "x", "LF", "LF", "T", "CR", "CR", "x">> }

-----------------------------------------------------------------------------
(* AiBinding *)

MCFd(k, v) == [key |-> k, val |-> v]
MCCreate == MCFd("type", "response.create")
MCFields ==
  {MCCreate, MCFd("type", "session.update")}
  \cup {MCFd("model", v) : v \in {"null", "public", "upstream", "other"}}
  \cup {MCFd("session.model", v) : v \in {"public", "other"}}
MCFrames == UNION {[1 .. n -> MCFields] : n \in {1, 2}} \cup {<<MCCreate, b, c>> : b, c \in MCFields}
MCLimits(r, s, w) == [request |-> r, stream |-> s, websocket |-> w]
MCAb(a, b, l, p, bin, fr) ==
  [kind |-> ("c1" :> a) @@ ("c2" :> b), limit |-> l, protocol |-> p, binary |-> bin, frames |-> fr]
MCAbWorkloads ==
  << MCAb("http", "sse", MCLimits(2, 1, 1), "responses", FALSE, {}),
     MCAb("sse", "sse", MCLimits(1, 1, 1), "responses", FALSE, {}),
     MCAb("sse", "models", MCLimits(1, 1, 1), "responses", FALSE, {}),
     MCAb("ws", "ws", MCLimits(1, 1, 1), "responses", FALSE, {<<MCCreate, MCFd("model", "public")>>}),
     MCAb("ws", "ws", MCLimits(1, 1, 2), "realtime", TRUE,
          {<<MCFd("type", "session.update"), MCFd("session.model", "public")>>}),
     MCAb("ws", "models", MCLimits(0, 1, 1), "responses", TRUE, MCFrames),
     MCAb("ws", "models", MCLimits(0, 1, 1), "realtime", TRUE, MCFrames) >>

-----------------------------------------------------------------------------
(* KvBinding *)

MCVal(v, m) == [v |-> v, m |-> m]
MCRead(op, keys, bad) ==
  [op |-> op, keys |-> keys, bad |-> bad, value |-> 0, meta |-> 0, stream |-> FALSE]
MCPut(k, v, m, piped, bad) ==
  [op |-> "put", keys |-> {k}, bad |-> bad, value |-> v, meta |-> m, stream |-> piped]
MCKv(a, b, had, f) == [calls |-> <<a, b>>, store |-> had, faults |-> f]
MCKvWorkloads ==
  << MCKv(MCRead("get", {1}, "no"), MCRead("batch", {1, 2}, "no"), <<MCVal(2, 1), MCVal(1, 1)>>, {"shuffled"}),
     MCKv(MCRead("get", {1}, "no"), MCRead("get", {2}, "no"), <<MCVal(2, 1), MCVal(3, 1)>>, {}),
     MCKv(MCRead("get", {1}, "no"), MCRead("get", {2}, "args"), <<MCVal(2, 1), MCVal(0, 0)>>, {"length"}),
     MCKv(MCRead("get", {1}, "no"), MCRead("list", {1, 2}, "type"), <<MCVal(1, 1), MCVal(0, 0)>>, {}),
     MCKv(MCRead("meta", {1}, "no"), MCRead("get", {2}, "args"), <<MCVal(2, 1), MCVal(0, 0)>>,
          {"malformed", "status"}),
     MCKv(MCRead("batch", {1, 2}, "no"), MCRead("get", {2}, "args"), <<MCVal(2, 1), MCVal(1, 1)>>,
          {"network", "status"}),
     MCKv(MCPut(1, 2, 2, TRUE, "no"), MCRead("get", {1}, "no"), <<MCVal(0, 0), MCVal(0, 0)>>, {"network"}),
     MCKv(MCPut(1, 4, 2, TRUE, "stream"), MCRead("delete", {1}, "no"), <<MCVal(2, 1), MCVal(0, 0)>>, {}),
     MCKv(MCPut(1, 4, 2, FALSE, "no"), MCPut(1, 2, 1, FALSE, "args"), <<MCVal(2, 1), MCVal(0, 0)>>, {}),
     MCKv(MCPut(1, 1, 2, FALSE, "no"), MCPut(1, 2, 1, TRUE, "args"), <<MCVal(2, 1), MCVal(0, 0)>>,
          {"status"}) >>

-----------------------------------------------------------------------------
(* D1ReadCache *)

MCQuery(d, q) == [db |-> d, mode |-> "all", stmts |-> <<"read">>, q |-> q]
MCUpdate(d, m, s) == [db |-> d, mode |-> m, stmts |-> s, q |-> "a"]
MCRr(calls, f, mv, w, t, k) ==
  [calls |-> calls, faults |-> f, moves |-> mv, writes |-> w, tab |-> t, ticks |-> k]
MCRrSize == [a |-> 3, b |-> 2, c |-> 6]
MCRrWorkloads ==
  << MCRr(<<MCQuery(1, "a"), MCQuery(1, "b"), MCUpdate(1, "run", <<"write">>), MCQuery(2, "a")>>, {}, 1, 0, FALSE, 0),
     MCRr(<<MCQuery(1, "a"), MCQuery(1, "a"), MCUpdate(1, "all", <<"write">>)>>, {}, 1, 0, FALSE, 1),
     MCRr(<<MCQuery(1, "a"), MCQuery(1, "a")>>, {}, 3, 1, FALSE, 0),
     MCRr(<<MCQuery(1, "a"), MCUpdate(1, "run", <<"write">>)>>, {"takeover"}, 3, 1, FALSE, 0),
     MCRr(<<MCQuery(1, "a"), MCQuery(1, "a"), MCUpdate(1, "exec", <<"ddl">>)>>, {"lost"}, 1, 0, FALSE, 0),
     MCRr(<<MCQuery(1, "a"), MCUpdate(1, "run", <<"write">>)>>, {"lost"}, 1, 0, FALSE, 2),
     MCRr(<<MCQuery(1, "c"), MCQuery(1, "a"), MCUpdate(1, "exec", <<"ddl">>)>>, {"takeover"}, 2, 0, FALSE, 0),
     MCRr(<<MCQuery(1, "a"), MCUpdate(1, "batch", <<"ddl", "write">>), MCUpdate(1, "exec", <<"drop">>)>>,
          {"sql"}, 1, 0, TRUE, 0),
     MCRr(<<MCQuery(1, "a"), MCUpdate(1, "exec", <<"drop", "ddl">>), MCUpdate(1, "all", <<"ddl">>)>>,
          {"sql"}, 1, 0, FALSE, 0) >>

-----------------------------------------------------------------------------
(* D1Binding *)

MCSessionOf == [s |-> "a"]
MCBatches == {<<1, 2>>}
\* The calls of a tenant are interchangeable.
MCSymmetry == Permutations(DbCalls)

-----------------------------------------------------------------------------
(* DoEnvelope: every mix of headers, then every mix of sizes *)

MCEn(kind, headers, url, name, chunks, declared) ==
  [kind |-> kind, get |-> chunks = <<>>, headers |-> headers, url |-> url, name |-> name,
   chunks |-> chunks, declared |-> declared, method |-> "public", args |-> "data", argBytes |-> 0]
MCEnHeaders == {"plain", "wide-a", "wide-b", "tab", "owner-fence", "caller-id", "alarm-mark"}
MCEnRequests ==
  {MCEn(k, hs, 1, 1, <<>>, Unknown) : k \in {"fetch", "connect"}, hs \in SUBSET MCEnHeaders}
  \cup {MCEn("fetch", {"wide-a"}, u, n, b, d) :
          u \in 0 .. 3, n \in 0 .. 2, b \in {<<8>>, <<5, 3>>, <<5, 4>>}, d \in {Unknown, 8, 9}}
  \cup {MCEn("connect", {"plain"}, u, n, <<>>, Unknown) : u \in 0 .. 2, n \in 0 .. 2}
  \cup {MCEn("alarm", {}, 0, n, <<>>, Unknown) : n \in 0 .. 2}
  \cup {[MCEn("rpc", {}, 0, n, <<>>, Unknown) EXCEPT !.method = m, !.args = a, !.argBytes = b] :
          n \in 0 .. 2, m \in {"public", "reserved", "long"}, a \in {"data", "other"}, b \in {8, 9}}

-----------------------------------------------------------------------------
(* The composition *)

MCInit ==
  /\ part \in {"redis", "stream", "aicall", "kv", "reads", "query", "envelope"}
  /\ part # "redis" => rwCase = 1
  /\ RwInit
  /\ part # "stream" => asSent = <<"T", "LF", "CR">>
  /\ AsInit
  /\ part # "aicall" => abCase = 1
  /\ AbInit
  /\ part # "kv" => kvCase = 1
  /\ KvInit
  /\ part # "reads" => rrCase = 1
  /\ RrInit
  /\ DbInit
  /\ part # "envelope" => en = EnStart(MCEn("alarm", {}, 0, 1, <<>>, Unknown))
  /\ EnInit

MCNext ==
  /\ UNCHANGED part
  /\ \/ /\ part = "redis" /\ RwNext
        /\ UNCHANGED <<asVars, abVars, kvVars, rrVars, dbVars, enVars>>
     \/ /\ part = "stream" /\ AsNext
        /\ UNCHANGED <<rwVars, abVars, kvVars, rrVars, dbVars, enVars>>
     \/ /\ part = "aicall" /\ AbNext
        /\ UNCHANGED <<rwVars, asVars, kvVars, rrVars, dbVars, enVars>>
     \/ /\ part = "kv" /\ KvNext
        /\ UNCHANGED <<rwVars, asVars, abVars, rrVars, dbVars, enVars>>
     \/ /\ part = "reads" /\ RrNext
        /\ UNCHANGED <<rwVars, asVars, abVars, kvVars, dbVars, enVars>>
     \/ /\ part = "query" /\ DbNext
        /\ UNCHANGED <<rwVars, asVars, abVars, kvVars, rrVars, enVars>>
     \/ /\ part = "envelope" /\ EnNext
        /\ UNCHANGED <<rwVars, asVars, abVars, kvVars, rrVars, dbVars>>

MCSpec == MCInit /\ [][MCNext]_<<part, rwVars, asVars, abVars, kvVars, rrVars, dbVars, enVars>>
=============================================================================
