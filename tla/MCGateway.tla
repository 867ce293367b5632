----------------------------- MODULE MCGateway ------------------------------
(***************************************************************************)
(* The gateway, the permission a Control route asks for, the runtime's     *)
(* workflow turns with their replay cache, and the live tail from the      *)
(* runtime's forwarder to Control's session, checked side by side: part    *)
(* names the component a behaviour runs, the others keep one initial state.*)
(***************************************************************************)
EXTENDS GatewayRouting, GatewaySession, GatewayProxy, GatewayDispatch,
        WorkflowTurn, ReplayCache, TailForward, TailSession, ControlAccess,
        SequencesExt, TLC

VARIABLE part

-----------------------------------------------------------------------------
(* Gateway *)

MCGr(t, c, d, r, s) == [table |-> t, changes |-> c, drops |-> d, requests |-> r, start |-> s]
MCGrOf(t) == << MCGr(t, 2, 0, {1, 2}, {"k1"}), MCGr(t, 1, 1, {1, 2}, {"k1", "k2"}),
                MCGr(t, 3, 1, {1}, {}), MCGr(t, 1, 0, {1, 2}, {}) >>
MCGrWorkloads == MCGrOf("routes") \o MCGrOf("patterns")

MCGsWorkloads ==
  << [clients |-> {1, 2}, versions |-> 2, drops |-> 0, faults |-> 0],
     [clients |-> {1, 2}, versions |-> 1, drops |-> 1, faults |-> 1],
     [clients |-> {1}, versions |-> 3, drops |-> 1, faults |-> 1] >>

MCGdValues == {<<"/">>, <<"/", "a">>, <<"/", "a", "/">>}
MCGdSlots ==
  {[kind |-> k, value |-> v, ns |-> "tenant", worker |-> "valid", version |-> "valid",
    shape |-> TRUE] : k \in {"exact", "prefix"}, v \in MCGdValues}
  \cup {[kind |-> "prefix", value |-> <<"/", "a">>, ns |-> n, worker |-> w,
         version |-> "valid", shape |-> s] :
           n \in {"__system__", "foreign"}, w \in {"valid", "bad"}, s \in BOOLEAN}
MCGdHosts ==
  {[branch |-> b, ns |-> "tenant"] : b \in {"admin", "pattern"}}
  \cup {[branch |-> "subdomain", ns |-> n] : n \in {"tenant", "__system__", "admin"}}
MCGdPaths ==
  [path : {<<"/">>, <<"/", "a">>, <<"/", "a", "/">>, <<"/", "a", "/", "b">>, <<"/", "a", "b">>},
   query : BOOLEAN, worker : {"known", "unknown"}, version : {"valid"}]

-----------------------------------------------------------------------------
(* WorkflowTurn *)

MCTn(s, k, b, p, e) == [style |-> s, kind |-> k, batch |-> b, past |-> p, env |-> e]
MCAnyFault == {"infra", "refused", "kv", "throw", "deadline"}
MCDos == <<"do", "do", "do", "do">>
MCNew(n) == [i \in 1 .. n |-> "none"]
MCTnWorkloads ==
  << MCTn("wild", <<"do", "do", "do">>, <<1, 1, 1>>, MCNew(3), MCAnyFault),
     MCTn("wild", <<"do", "wait", "do">>, <<1, 1, 1>>, <<"completed", "waiting", "none">>, MCAnyFault),
     MCTn("wild", <<"wait", "do", "wait">>, <<1, 1, 1>>, MCNew(3), MCAnyFault),
     MCTn("batch", MCDos, <<1, 1, 2, 2>>, MCNew(4), MCAnyFault),
     MCTn("batch", MCDos, <<1, 1, 2, 2>>, <<"waiting", "completed", "none", "none">>, MCAnyFault),
     MCTn("batch", MCDos, <<1, 2, 2, 3>>, <<"completed", "completed", "waiting", "none">>, MCAnyFault),
     MCTn("batch", MCDos, <<1, 2, 2, 3>>, MCNew(4), {"throw"}),
     MCTn("batch", <<"do", "wait", "do">>, <<1, 2, 3>>, MCNew(3), {"throw", "kv", "deadline"}),
     MCTn("batch", <<"do", "wait", "do">>, <<1, 2, 3>>, <<"completed", "waiting", "none">>,
          {"throw", "kv", "deadline"}),
     MCTn("batch", <<"do", "wait", "do">>, <<1, 2, 3>>, <<"completed", "completed", "none">>,
          {"throw", "kv", "deadline"}) >>

-----------------------------------------------------------------------------
(* TailForward *)

MCEntry(w, ids, msg, info) == [w |-> w, ids |-> ids, msg |-> msg, info |-> info, flag |-> 0]
MCBatch(es) == [kind |-> "batch", entries |-> es]
MCEnvelope(w) == [kind |-> "envelope", entries |-> <<MCEntry(w, 1, 1, 0)>>]
MCTf(j1, j2, tg, f) == [jobs |-> [t1 |-> j1, t2 |-> j2], toggles |-> tg, fails |-> f]
MCTfWorkloads ==
  << MCTf(MCBatch(<<MCEntry("a", 1, 1, 1), MCEntry("b", 1, 1, 0), MCEntry("a", 1, 2, 2)>>),
          MCBatch(<<MCEntry("b", 1, 3, 0), MCEntry("a", 1, 4, 0)>>), 1, 1),
     MCTf(MCEnvelope("a"), MCBatch(<<MCEntry("a", 4, 0, 0)>>), 0, 0) >>

-----------------------------------------------------------------------------
(* TailSession *)

MCTs(sel, from, kept, most, bad, c, f) ==
  [sel |-> sel, since |-> from, kept |-> kept, most |-> most, bad |-> bad,
   connects |-> c, faults |-> f]
MCTsWorkloads ==
  << MCTs(<<"a">>, 0, 0, 2, {2}, 1, 0), MCTs(<<"a">>, 1, 2, 3, {}, 1, 0), MCTs(<<"a">>, 1, 1, 2, {}, 2, 0),
     MCTs(<<"a">>, Malformed, 0, 0, {}, 1, 0), MCTs(<<"a">>, 0, 0, 1, {}, 2, 1),
     MCTs(<<"a", "b">>, 0, 0, 1, {}, 1, 0), MCTs(<<"a", "a">>, 1, 1, 1, {}, 1, 0),
     MCTs(<<>>, 0, 0, 0, {}, 1, 0) >>

-----------------------------------------------------------------------------
(* ControlAccess: every route, cut short, lengthened and with empty segments *)

MCTails ==
  { <<"workers">>, <<"workflows", "w", "f", "instances", "i", "pause">>, <<"secrets", "k">>,
    <<"hosts">>, <<"logs", "tail">>, <<"d1", "databases", "b", "migrations", "apply">>,
    <<"d1", "databases", "b", "migrations", "status">>, <<"d1", "databases", "b", "query">>,
    <<"r2", "buckets", "b", "objects", "k">>, <<"ai", "providers", "p", "credential">>,
    <<"ai", "models">>, <<"worker", "w", "deploy">>, <<"worker", "w", "promote">>,
    <<"worker", "w", "delete">>, <<"worker", "w", "versions", "1">>,
    <<"worker", "w", "secrets", "k">> }
MCVariants(t) == {SubSeq(t, 1, i) : i \in 1 .. Len(t)} \cup {Append(t, "x"), Append(t, "")}
                 \cup {InsertAt(t, i, "") : i \in 1 .. Len(t)}
MCCaPaths ==
  { <<"", "reload">>, <<"", "whoami">>, <<"", "auth", "tokens">>, <<"", "auth", "tokens", "x">>,
    <<"", "auth", "delegated-tokens">>, <<"", "ns">>, <<"", "", "ns", "t1", "r2", "buckets">> }
  \cup {<<"", "ns", n>> \o v : n \in {"t1", "t2", "__system__", "admin"},
                                v \in UNION {MCVariants(t) : t \in MCTails}}

-----------------------------------------------------------------------------
(* The composition *)

MCInit ==
  /\ part \in {"routing", "session", "proxy", "dispatch", "turn", "replay",
               "logs", "tail", "access"}
  /\ part # "routing" => grCase = 1
  /\ GrInit
  /\ part # "session" => gsCase = 1
  /\ GsInit
  /\ PxInit
  /\ part # "proxy" => ~px.noReconnect
  /\ part # "dispatch" => gdHash = <<>> /\ gdReq = CHOOSE r \in [host : MCGdHosts, url : MCGdPaths] : TRUE
  /\ GdInit
  /\ part # "turn" => tnCase = 1
  /\ TnInit
  /\ RcInit
  /\ part # "logs" => tfCase = 1 /\ tailed = {}
  /\ TfInit
  /\ part # "tail" => tsCase = 1
  /\ TsInit
  /\ CaInit

MCNext ==
  /\ UNCHANGED part
  /\ \/ /\ part = "routing" /\ GrNext
        /\ UNCHANGED <<gsVars, pxVars, gdVars, tnVars, rcVars, tfVars, tsVars, caVars>>
     \/ /\ part = "session" /\ GsNext
        /\ UNCHANGED <<grVars, pxVars, gdVars, tnVars, rcVars, tfVars, tsVars, caVars>>
     \/ /\ part = "proxy" /\ PxNext
        /\ UNCHANGED <<grVars, gsVars, gdVars, tnVars, rcVars, tfVars, tsVars, caVars>>
     \/ /\ part = "dispatch" /\ GdNext
        /\ UNCHANGED <<grVars, gsVars, pxVars, tnVars, rcVars, tfVars, tsVars, caVars>>
     \/ /\ part = "turn" /\ TnNext
        /\ UNCHANGED <<grVars, gsVars, pxVars, gdVars, rcVars, tfVars, tsVars, caVars>>
     \/ /\ part = "replay" /\ RcNext
        /\ UNCHANGED <<grVars, gsVars, pxVars, gdVars, tnVars, tfVars, tsVars, caVars>>
     \/ /\ part = "logs" /\ TfNext
        /\ UNCHANGED <<grVars, gsVars, pxVars, gdVars, tnVars, rcVars, tsVars, caVars>>
     \/ /\ part = "tail" /\ TsNext
        /\ UNCHANGED <<grVars, gsVars, pxVars, gdVars, tnVars, rcVars, tfVars, caVars>>
     \/ /\ part = "access" /\ CaNext
        /\ UNCHANGED <<grVars, gsVars, pxVars, gdVars, tnVars, rcVars, tfVars,
                       tsVars>>

MCSpec == MCInit /\ [][MCNext]_<<part, grVars, gsVars, pxVars, gdVars, tnVars,
                                 rcVars, tfVars, tsVars, caVars>>

-----------------------------------------------------------------------------
(* Properties that join two components *)

\* A turn replays what Workflows holds, and the cache it replays from counts
\* every byte: its limits hold and nothing outlives the turns that use it.
ReplayHeld == ReplayTrue /\ ReplayBytes

\* What a tailed Worker logs is forwarded before long and within the limits, and
\* reaches the client in order, with the gaps announced and no connection left.
TailHeld == TailForwarded /\ TailFaithful

=============================================================================
