-------------------------- MODULE GatewayDispatch ---------------------------
(***************************************************************************)
(* Where the Gateway sends a request (gateway/dispatch.js, gateway/lib.js, *)
(* the forwarding part of gateway/index.js): the admin host, the namespace *)
(* subdomain branch and the host pattern branch with its ordering and      *)
(* matching of route patterns.  Paths and pattern values are sequences of  *)
(* characters from a small alphabet; a namespace, a worker and a version   *)
(* are what the checks on them tell apart.                                 *)
(***************************************************************************)
EXTENDS Naturals, Sequences, SequencesExt, TLC

CONSTANTS GdSlots,  \* the entries a host's hash may hold:
                    \* [kind, value, ns, worker, version, shape]
          GdMost,   \* bound: entries of one host
          GdHosts,  \* [branch, ns]: "admin", "subdomain" or "pattern"
          GdPaths,  \* [path, query, worker, version]: the request's path, whether
                    \* it has a query, and for the subdomain branch the worker its
                    \* first segment names and what routes:<ns> holds for it
          GdNone

VARIABLES gdHash, \* the host's entries in the order Redis returns them
          gdReq,  \* the request
          gdOut   \* the decision

gdVars == <<gdHash, gdReq, gdOut>>

Reserved == {"__system__", "__platform__"}

\* ROUTES_ALLOWED_RESERVED_NS lets the system namespace own patterns.
IsValidRouteNs(ns) == ns \in {"tenant", "__system__"}

-----------------------------------------------------------------------------
(* Pattern matching                                                          *)

\* Bug: shorter values first.
Before_Shortest(a, b) == Len(a.value) < Len(b.value) \/ (Len(a.value) = Len(b.value) /\ a.kind = "exact" /\ b.kind # "exact")

\* The comparator of sortPatterns.
Before(a, b) == Len(a.value) > Len(b.value) \/ (Len(a.value) = Len(b.value) /\ a.kind = "exact" /\ b.kind # "exact")

\* sortPatterns: malformed entries and foreign namespaces are dropped.
SortPatterns(h) == SortSeq(SelectSeq(h, LAMBDA e : e.shape /\ IsValidRouteNs(e.ns)), Before)

\* matchPatternEntry
MatchEntry(e, req) == IF e.kind = "exact" THEN req.path = e.value /\ ~req.query
                      ELSE IsPrefix(e.value, req.path)

\* matchPatternWithStats: the first entry that matches.
MatchPattern(sorted, req) ==
  LET hits == SelectSeq(sorted, LAMBDA e : MatchEntry(e, req))
  IN IF hits = <<>> THEN GdNone ELSE hits[1]

-----------------------------------------------------------------------------
(* GdDispatch                                                                  *)

NotFound == [kind |-> "not_found", binding |-> GdNone, entry |-> GdNone, ns |-> GdNone, identity |-> FALSE]

\* The forwarded request: internal headers are stripped, and only a runtime
\* binding receives the worker identity.
Forward(binding, e, ns) ==
  [kind |-> "forward", binding |-> binding, entry |-> e, ns |-> ns, identity |-> binding # "CONTROL"]

BindingOf(ns) == IF ns = "__system__" THEN "RUNTIME_SYSTEM" ELSE "RUNTIME_USER"

\* The reserved-name gate before the Redis lookup.
SubdomainAllowed(ns) == ns \notin Reserved \cup {"admin"}

SubdomainDispatch ==
  IF /\ SubdomainAllowed(gdReq.host.ns)
     /\ gdReq.url.worker = "known" /\ gdReq.url.version = "valid"
  THEN Forward(BindingOf(gdReq.host.ns), GdNone, gdReq.host.ns)
  ELSE NotFound

PatternDispatch ==
  LET e == MatchPattern(SortPatterns(gdHash), gdReq.url)
  IN IF e = GdNone THEN NotFound
     ELSE IF e.worker = "valid" /\ e.version = "valid" THEN Forward(BindingOf(e.ns), e, e.ns)
     ELSE NotFound

\* resolveGatewayDispatch
GdDispatch ==
  /\ gdOut = GdNone
  /\ gdOut' = CASE gdReq.host.branch = "admin" -> Forward("CONTROL", GdNone, GdNone)
                [] gdReq.host.branch = "subdomain" -> SubdomainDispatch
                [] gdReq.host.branch = "pattern" -> PatternDispatch
  /\ UNCHANGED <<gdHash, gdReq>>

GdHashes == {h \in UNION {[1 .. n -> GdSlots] : n \in 0 .. GdMost} :
             \A i, j \in DOMAIN h : i # j => <<h[i].kind, h[i].value>> # <<h[j].kind, h[j].value>>}

GdInit ==
  /\ gdHash \in GdHashes
  /\ gdReq \in [host : GdHosts, url : GdPaths]
  /\ gdReq.host.branch # "pattern" => gdHash = <<>>
  /\ gdOut = GdNone

GdNext == GdDispatch
GdSpec == GdInit /\ [][GdNext]_gdVars

-----------------------------------------------------------------------------
(* Properties                                                                *)

\* The entry that routes a request is the most specific one that matches it:
\* no other well-formed entry of the host that matches has a longer value, or
\* the same length and an exact kind; so the order in which Redis returns the
\* entries does not matter.
MostSpecificWins ==
  gdReq.host.branch = "pattern" /\ gdOut # GdNone =>
    LET fit == {i \in DOMAIN gdHash : /\ gdHash[i].shape /\ IsValidRouteNs(gdHash[i].ns)
                                      /\ MatchEntry(gdHash[i], gdReq.url)}
        best == {i \in fit : \A j \in fit \ {i} :
                   \/ Len(gdHash[i].value) > Len(gdHash[j].value)
                   \/ gdHash[i].kind = "exact" /\ gdHash[j].kind = "prefix"
                        /\ Len(gdHash[i].value) = Len(gdHash[j].value)}
    IN IF fit = {} THEN gdOut.kind = "not_found"
       ELSE \E i \in best : gdOut.entry = gdHash[i] \/ (gdOut = NotFound
              /\ ~(gdHash[i].worker = "valid" /\ gdHash[i].version = "valid"))

\* The system runtime is reached only through a declared pattern, never through
\* a namespace subdomain, and Control only through the admin host.
SystemOnlyByPattern ==
  gdOut # GdNone =>
    /\ gdOut.binding = "RUNTIME_SYSTEM" => gdReq.host.branch = "pattern"
    /\ gdOut.binding = "CONTROL" <=> gdReq.host.branch = "admin"

\* A request goes to the Worker of the most specific matching entry, and to the
\* system runtime and Control only on the hosts meant for them.
RoutedAsDeclared ==
  /\ MostSpecificWins
  /\ SystemOnlyByPattern

=============================================================================
