------------------------------ MODULE MCControl ------------------------------
(***************************************************************************)
(* The components of the control plane, checked side by side: part names   *)
(* the component a behaviour runs, the others keep one initial state.      *)
(* Every component brings the workloads that make its handlers interfere.  *)
(***************************************************************************)
EXTENDS ControlPlane, D1Catalog, AuthTokens, S3Cleanup, AiCatalog,
        WorkflowListing

VARIABLE part

-----------------------------------------------------------------------------
(* ControlPlane *)

\* Workers a and c share a namespace; p and q are platform Workers.
MCNsOf == ("a" :> "n1") @@ ("b" :> "n2") @@ ("c" :> "n1") @@ ("p" :> "p1") @@ ("q" :> "p2")
MCWorkers == DOMAIN MCNsOf
MCSlots == {[host |-> "h1", path |-> 1], [host |-> "h1", path |-> 2]}
MCSlot(p) == [host |-> "h1", path |-> p]

Plain == [routes |-> {}, workersDev |-> TRUE, crons |-> {}, queues |-> {},
          policy |-> "preserve", calls |-> {}, uses |-> {}, d1 |-> {},
          as |-> {}, allows |-> None, vars |-> {},
          assets |-> FALSE, durable |-> FALSE, workflows |-> FALSE]
Each(f) == f @@ [w \in MCWorkers |-> {}]
Caps(f) == f @@ [w \in MCWorkers |-> 0]
CpQuiet == [asks |-> Each(<<>>), ops |-> {}, keys |-> {"k"}, secretNs |-> {}, hostLists |-> {}, bodies |-> Each(<<>>),
          cap |-> Caps(<<>>), lossy |-> FALSE]

\* Routes of three Workers on one host, with hosts declared and withdrawn.
Routing == [CpQuiet EXCEPT
  !.asks = Each(("a" :> {"deploy", "promote", "delete"})
             @@ [w \in {"b", "c"} |-> {"deploy", "promote"}]),
  !.ops = {"hosts", "reload"},
  !.hostLists = [ns : {"n1"}, hosts : {{}, {"h1"}}] \cup {[ns |-> "n2", hosts |-> {"h1"}]},
  !.cap = Caps([w \in {"a", "b", "c"} |-> 1]),
  !.bodies = Each(("a" :> {[Plain EXCEPT !.routes = {MCSlot(1)}]})
               @@ ("b" :> {[Plain EXCEPT !.routes = {MCSlot(2)}]})
               @@ ("c" :> {[Plain EXCEPT !.routes = {MCSlot(2)}, !.workersDev = FALSE]}))]

\* A caller pins another Worker while both are deleted ...
Linking == [CpQuiet EXCEPT
  !.asks = Each(("a" :> {"deploy", "delete"}) @@ ("b" :> {"deploy", "promote", "delete"})),
  !.cap = Caps(("a" :> 1) @@ ("b" :> 1)),
  !.bodies = Each(("a" :> {[Plain EXCEPT !.calls = {"b"}]})
               @@ ("b" :> {[Plain EXCEPT !.allows = {"n1"}], Plain}))]

\* ... and while its grant is withdrawn.
Relinking == [Linking EXCEPT !.cap["b"] = 2,
  !.asks = Each(("a" :> {"deploy"}) @@ ("b" :> {"deploy", "promote", "delete"}))]

\* Two Workers bind a database that is created and deleted.
Storing == [CpQuiet EXCEPT
  !.asks = Each([w \in {"a", "c"} |-> {"deploy", "delete"}]), !.ops = {"d1"},
  !.cap = Caps([w \in {"a", "c"} |-> 1]),
  !.bodies = Each([w \in {"a", "c"} |-> {[Plain EXCEPT !.d1 = {"d"}]}])]

\* Secret changes of one Worker against deploys and promotes of it ...
Bumping == [CpQuiet EXCEPT
  !.asks = Each("a" :> {"deploy", "promote", "secret"}), !.cap = Caps("a" :> 3),
  !.bodies = Each("a" :> {[Plain EXCEPT !.assets = TRUE, !.crons = {1}, !.policy = "restart",
                             !.durable = TRUE, !.workflows = TRUE]})]

\* ... and against its delete.
Removing == [Bumping EXCEPT !.asks = Each("a" :> {"promote", "secret", "deploy", "delete"}), !.cap = Caps("a" :> 1)]

\* Routes, crons and queues that change from version to version.
Projecting == [CpQuiet EXCEPT
  !.asks = Each([w \in {"a", "c"} |-> {"deploy", "promote"}]),
  !.cap = Caps(("a" :> 2) @@ ("c" :> 1)),
  !.bodies = Each(("a" :> {[Plain EXCEPT !.queues = {"q"}, !.crons = {1, 2}],
                           [Plain EXCEPT !.crons = {2}]})
               @@ ("c" :> {[Plain EXCEPT !.queues = {"q"}]}))]

\* Two platform Workers that export one name, and a user of the name.
Platform == [CpQuiet EXCEPT
  !.asks = Each(("p" :> {"deploy", "promote", "delete"}) @@ ("q" :> {"deploy", "promote"})
             @@ ("a" :> {"deploy"})),
  !.cap = Caps([w \in {"a", "p", "q"} |-> 1]),
  !.bodies = Each([w \in {"p", "q"} |-> {[Plain EXCEPT !.as = {"x"}, !.allows = {"n1"}],
                                         [Plain EXCEPT !.allows = {"n1"}]}]
               @@ ("a" :> {[Plain EXCEPT !.uses = {"x"}]}))]

\* Two Workers of a namespace near the env budget, and their secrets.
Budgets == [CpQuiet EXCEPT
  !.asks = Each(("a" :> {"deploy", "promote", "secret"}) @@ ("c" :> {"deploy"})),
  !.secretNs = {"n1"}, !.cap = Caps(("a" :> 2) @@ ("c" :> 1)),
  !.bodies = Each(("a" :> {Plain, [Plain EXCEPT !.vars = {"v"}]}) @@ ("c" :> {Plain}))]

\* A deploy whose commit is applied while its answer is lost.
Lossy == [CpQuiet EXCEPT
  !.asks = Each(("a" :> {"deploy", "promote"})), !.cap = Caps("a" :> 2), !.lossy = TRUE,
  !.bodies = Each("a" :> {Plain})]

MCWorkloads == <<Routing, Linking, Relinking, Storing, Bumping, Removing, Projecting, Platform, Budgets, Lossy>>

-----------------------------------------------------------------------------
(* D1Catalog *)

MCMig(i, t) == [id |-> i, sum |-> t]
MCDo(o, n) == [op |-> o, name |-> n, id |-> 0, list |-> <<>>]
MCMigrate(o, n, l) == [op |-> o, name |-> n, id |-> 0, list |-> l]
MCJobs(seeded, a, b, c) == [seeded |-> seeded, jobs |-> [c1 |-> a, c2 |-> b, c3 |-> c]]

\* Creates and deletes that race, a bind and an execute of a database that is
\* going, and two migration runs that disagree.
MCDcWorkloads ==
  << MCJobs(FALSE, MCDo("create", "x"), MCDo("create", "x"), MCDo("delete", "x")),
    MCJobs(TRUE, MCDo("delete", "x"), MCDo("bind", "x"), MCDo("create", "x")),
    MCJobs(TRUE, [MCDo("delete", "x") EXCEPT !.id = 1], MCDo("execute", "x"), MCDo("delete", "x")),
    MCJobs(TRUE, MCMigrate("apply", "x", <<MCMig("m1", "s"), MCMig("m2", "s")>>),
                 MCMigrate("apply", "x", <<MCMig("m1", "s"), MCMig("m2", "t")>>),
                 MCMigrate("status", "x", <<MCMig("m1", "s"), MCMig("m2", "t")>>)) >>

-----------------------------------------------------------------------------
(* AuthTokens *)

MCAu(ops, q, f, b, ends) ==
  [ops |-> ops, quota |-> q, faults |-> f, boots |-> b, issuerEnds |-> ends]
MCAuWorkloads ==
  << MCAu({"verify", "list"}, 1, 1, ("i1" :> "boot-1" @@ "i2" :> "boot-2"), 0),
    MCAu({"issue", "verify", "revoke"}, 1, 0, ("i1" :> "boot-1"), 0),
    MCAu({"delegate", "revoke"}, 1, 0, ("i1" :> "boot-1"), 0),
    MCAu({"delegate"}, 2, 1, ("i1" :> "boot-1"), 3) >>

-----------------------------------------------------------------------------
(* AiCatalog *)

MCModel(pr, t, m) == [protocol |-> pr, transports |-> t, modalities |-> m]
MCOne == [kind |-> "openai",
          models |-> ("m1" :> MCModel("responses", {"http", "responses_websocket"}, {"text"}))]
MCOther == [kind |-> "deepseek",
            models |-> ("m1" :> MCModel("responses", {"http"}, {"text", "image"}))]
MCTwo == [kind |-> "openai",
          models |-> ("m1" :> MCModel("realtime", {"realtime_websocket"}, {"text"}))
                     @@ ("m2" :> MCModel("chat_completions", {"sse"}, {"text"}))]
MCBad == [kind |-> "deepseek",
          models |-> ("m1" :> MCModel("realtime", {"realtime_websocket"}, {"text"}))]
MCCall(a, h, u) == [p |-> "p1", alias |-> a, how |-> h, uses |-> u]
MCAc(w, c, r, m, b, calls) ==
  [writes |-> w, creds |-> c, runs |-> r, most |-> m, bodies |-> b, calls |-> calls]
MCAcWorkloads ==
  << MCAc(2, 1, {}, 2, {MCOne, MCOther, MCTwo, MCBad}, {}),
    MCAc(2, 2, {}, 1, {MCOne, MCOther}, {}),
    MCAc(2, 1, {"r1"}, 1, {MCOne, MCOther},
         {MCCall("m1", "http", {"image"}), MCCall("m1", "ws", {"text"})}),
    MCAc(1, 1, {"r1"}, 1, {MCTwo},
         {MCCall("m2", h, {"text"}) : h \in {"http", "sse", "ws"}} \cup {MCCall("m1", "ws", {"text"})}),
    MCAc(2, 0, {"r1", "r2"}, 1, {MCOne}, {MCCall("m1", "http", {"text"})}) >>

-----------------------------------------------------------------------------
(* WorkflowListing *)

MCWlSize == <<1, 2, 1, 1, 1>>
MCWlScan == <<1, 1, 2>>
MCWl(act, ex, ret, sz, lim, ch, dep, cl) ==
  [active |-> act, exports |-> ex, retired |-> ret, size |-> sz, limit |-> lim,
   changes |-> ch, deploys |-> dep, client |-> cl]
MCWlWorkloads ==
  << MCWl({1, 2, 3}, <<{1, 2}, {1}, {3}>>, <<{3}, {}, {}>>, <<1, 1, 1>>, 2, 2, {{1, 3}, {4, 5}}, "list"),
    MCWl({1, 3}, <<{2, 4}, {}, {1}>>, <<{}, {}, {}>>, <<1, 1, 1>>, 1, 2, {{1, 3}}, "list"),
    MCWl({1, 2, 3}, <<{1, 2, 3}, {2}, {1, 2, 3}>>, <<{}, {1}, {}>>, <<1, 3, 1>>, 3, 1, {{1}}, "list"),
    MCWl({1, 2, 3}, <<{1}, {2}, {1}>>, <<{}, {}, {}>>, <<4, 5, 6>>, 3, 1, {{1}}, "list"),
    MCWl({1, 2}, <<{1}, {1, 2}, {}>>, <<{2}, {}, {}>>, <<1, 1, 1>>, 1, 3, {{2}}, "resolve"),
    MCWl({1}, <<{1}, {}, {}>>, <<{}, {}, {}>>, <<1, 1, 1>>, 1, 0, {}, "check") >>

-----------------------------------------------------------------------------
(* The composition *)

Only(p, v, S) == part # p => v = CHOOSE x \in S : TRUE

MCInit ==
  /\ part \in {"control", "d1", "auth", "s3", "ai", "workflows"}
  /\ Only("control", cpCase, {1})
  /\ CpInit
  /\ Only("d1", dcCase, {1})
  /\ DcInit
  /\ Only("auth", auCase, {1})
  /\ AuInit
  /\ Only("s3", scIntent, ScIntents)
  /\ ScInit
  /\ Only("ai", acCase, {1})
  /\ AcInit
  /\ Only("workflows", wlCase, {1})
  /\ WlInit

MCNext ==
  /\ UNCHANGED part
  /\ \/ /\ part = "control" /\ CpNext
        /\ UNCHANGED <<dcVars, auVars, scVars, acVars, wlVars>>
     \/ /\ part = "d1" /\ DcNext
        /\ UNCHANGED <<cpVars, auVars, scVars, acVars, wlVars>>
     \/ /\ part = "auth" /\ AuNext
        /\ UNCHANGED <<cpVars, dcVars, scVars, acVars, wlVars>>
     \/ /\ part = "s3" /\ ScNext
        /\ UNCHANGED <<cpVars, dcVars, auVars, acVars, wlVars>>
     \/ /\ part = "ai" /\ AcNext
        /\ UNCHANGED <<cpVars, dcVars, auVars, scVars, wlVars>>
     \/ /\ part = "workflows" /\ WlNext
        /\ UNCHANGED <<cpVars, dcVars, auVars, scVars, acVars>>

MCSpec == MCInit /\ [][MCNext]_<<part, cpVars, dcVars, auVars, scVars, acVars, wlVars>>

Symmetry == Permutations(Requests) \cup Permutations(ScProcs) \cup Permutations(AuCalls)
=============================================================================
