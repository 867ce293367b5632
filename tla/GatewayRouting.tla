--------------------------- MODULE GatewayRouting ---------------------------
(***************************************************************************)
(* Route and pattern resolution of one Gateway isolate                     *)
(* (gateway/runtime.js): the membership gate, the bounded projection cache *)
(* and the generations that fence a Redis read against the pub/sub         *)
(* invalidations that arrive while it is in flight.  `table` says which of *)
(* the two twin resolvers a behaviour exercises: namespace routes, whose   *)
(* invalidation adds the namespace to the gate, or host patterns, whose    *)
(* invalidation drops the gate.  Control changes a key and publishes it in *)
(* one MULTI; messages are lost while the subscriber is not connected.     *)
(***************************************************************************)
EXTENDS Naturals, Sequences, SequencesExt, FiniteSets

CONSTANTS GrKeys,     \* namespaces or pattern hosts
          GrRequests, \* requests in flight
          GrNone,     \* nothing: no gate, no cached value
          GrWorkloads, \* [table, changes, drops, requests, start]: the resolver,
                      \* bounds on the changes and the subscriber disconnects,
                      \* the requests, the keys present at first
          GrAttempts, \* MAX_ROUTING_SNAPSHOT_ATTEMPTS
          GrCacheMax  \* MAX_ROUTE_CACHE_ENTRIES, MAX_PATTERN_CACHE_ENTRIES

ASSUME GrAssumption ==
  /\ {GrAttempts, GrCacheMax} \subseteq Nat
  /\ \A c \in DOMAIN GrWorkloads :
       GrWorkloads[c] \in [table : {"routes", "patterns"}, changes : Nat, drops : Nat,
                          requests : SUBSET GrRequests, start : SUBSET GrKeys]

VARIABLES grCase, \* the workload
          auth,  \* Redis: the projection of each key, a number; even: absent
          chan,  \* messages published and not yet handled
          sub,   \* [on, drops]: the subscriber connection
          gate,  \* knownNs or knownPatternHosts
          proj,  \* routeCache or patternCache: <<key, value>>, oldest first
          gr     \* the requests; `moved` names the generations that changed
                 \* since the request noted them

grWork == GrWorkloads[grCase]
table == grWork.table
grVars == <<grCase, auth, chan, sub, gate, proj, gr>>

GrPresent(v) == v % 2 = 1
Members == {k \in GrKeys : GrPresent(auth[k])}
NewRead == [ph |-> "new", key |-> GrNone, tries |-> 0, moved |-> {}, set |-> GrNone,
            val |-> 0, sure |-> FALSE, answer |-> GrNone]

GrInit ==
  /\ grCase \in DOMAIN GrWorkloads
  /\ auth = [k \in GrKeys |-> IF k \in grWork.start THEN 1 ELSE 0]
  /\ chan = <<>>
  /\ sub = [on |-> FALSE, drops |-> 0]
  /\ gate = GrNone /\ proj = <<>>
  /\ gr = [r \in GrRequests |-> NewRead]

-----------------------------------------------------------------------------
(* The cache                                                                 *)

CachedAt(k) == {i \in DOMAIN proj : proj[i][1] = k}
Without(k) == SelectSeq(proj, LAMBDA e : e[1] # k)

\* setBoundedCacheEntry: newest last, the oldest falls out.
Stored(k, v) == LET p == Append(Without(k), <<k, v>>)
                IN IF Len(p) > GrCacheMax THEN Tail(p) ELSE p

\* routeMembershipEpoch and invalidateKeyRead: what a request in flight sees of
\* the invalidation of key k.
Moved(r, k) == [gr[r] EXCEPT !.moved = @ \cup {"member"} \cup IF gr[r].key = k THEN {"key"} ELSE {}]

\* clearRouteState, clearPatternState
ClearState(sure) ==
  /\ gr' = [r \in GrRequests |-> [gr[r] EXCEPT !.moved = @ \cup {"reset", "member"}, !.sure = @ /\ sure]]
  /\ proj' = <<>>
  /\ gate' = GrNone

-----------------------------------------------------------------------------
(* Resolution                                                                *)

Told(k) == sub.on /\ \A i \in DOMAIN chan : chan[i].key # k

GrAnswered(r, a) == gr' = [gr EXCEPT ![r] = [NewRead EXCEPT !.ph = "done", !.key = gr[r].key,
                                                          !.sure = gr[r].sure, !.answer = a]]

BeginRequest(r) ==
  /\ gr[r].ph = "new"
  /\ \E k \in GrKeys :
       gr' = [gr EXCEPT ![r].ph = "start", ![r].key = k, ![r].sure = Told(k) /\ GrPresent(auth[k])]
  /\ UNCHANGED <<grCase, auth, chan, sub, gate, proj>>

\* The gate and the cache, up to the Redis call: 503 after the last attempt,
\* 404 for a key that does not pass the gate.
Consult(r) ==
  LET k == gr[r].key
  IN IF gr[r].tries = GrAttempts THEN GrAnswered(r, "unavailable") /\ UNCHANGED proj
     ELSE IF gate = GrNone
     THEN gr' = [gr EXCEPT ![r].ph = "members", ![r].moved = {}] /\ UNCHANGED proj
     ELSE IF k \notin gate THEN GrAnswered(r, "unknown") /\ UNCHANGED proj
     ELSE IF CachedAt(k) = {}
     THEN gr' = [gr EXCEPT ![r].ph = "hash", ![r].moved = {}] /\ UNCHANGED proj
     ELSE \E i \in CachedAt(k) : proj' = Append(Without(k), proj[i]) /\ GrAnswered(r, "hit")

GrStart(r) ==
  /\ gr[r].ph = "start"
  /\ Consult(r)
  /\ UNCHANGED <<grCase, auth, chan, sub, gate>>

\* Redis answers the commands of a pipeline one after the other.
RedisMembers(r) ==
  /\ gr[r].ph = "members"
  /\ gr' = [gr EXCEPT ![r].ph = "hash", ![r].set = Members]
  /\ UNCHANGED <<grCase, auth, chan, sub, gate, proj>>

RedisHash(r) ==
  /\ gr[r].ph = "hash"
  /\ gr' = [gr EXCEPT ![r].ph = "read", ![r].val = auth[gr[r].key]]
  /\ UNCHANGED <<grCase, auth, chan, sub, gate, proj>>

GrAgain(r) == gr' = [gr EXCEPT ![r] = [NewRead EXCEPT !.ph = "start", !.key = gr[r].key,
                                       !.sure = gr[r].sure, !.tries = gr[r].tries + 1]]

\* Bug: only a full reset discards a membership read.
MembersFresh_ResetOnly(r) == "reset" \notin gr[r].moved

MembersFresh(r) == gr[r].moved \cap {"reset", "member"} = {}

\* The cold path: the gate was read together with the projection.
FinishMembers(r) ==
  /\ gr[r].ph = "read" /\ gr[r].set # GrNone
  /\ IF ~MembersFresh(r) THEN GrAgain(r) /\ UNCHANGED <<gate, proj>>
     ELSE /\ gate' = gr[r].set
          /\ IF gr[r].key \in gr[r].set
             THEN proj' = Stored(gr[r].key, gr[r].val) /\ GrAnswered(r, "hit")
             ELSE UNCHANGED proj /\ GrAnswered(r, "unknown")
  /\ UNCHANGED <<grCase, auth, chan, sub>>

\* The warm path: only the projection was read.
FinishHash(r) ==
  /\ gr[r].ph = "read" /\ gr[r].set = GrNone
  /\ IF gr[r].moved \cap {"reset", "key"} # {} THEN GrAgain(r) /\ UNCHANGED proj
     ELSE proj' = Stored(gr[r].key, gr[r].val) /\ GrAnswered(r, "hit")
  /\ UNCHANGED <<grCase, auth, chan, sub, gate>>

-----------------------------------------------------------------------------
(* Control and the subscriber                                                *)

\* A promotion or a host move commits and publishes in one MULTI.
Published(k, all) ==
  chan' = IF sub.on THEN Append(chan, [key |-> k, all |-> all]) ELSE chan

Changed == FoldFunction(LAMBDA v, n : v + n, 0, auth)

ControlChange ==
  \E k \in GrKeys :
    /\ Changed < grWork.changes
    /\ auth' = [auth EXCEPT ![k] = @ + IF GrPresent(@) THEN 2 ELSE 1]
    /\ Published(k, FALSE)
    /\ UNCHANGED <<grCase, sub, gate, proj, gr>>

\* Deleting the last worker of a namespace flushes all routes; a host that
\* loses its last pattern is invalidated like any other change.
ControlRemove ==
  \E k \in Members :
    /\ Changed < grWork.changes
    /\ auth' = [auth EXCEPT ![k] = @ + 1]
    /\ Published(k, table = "routes")
    /\ gr' = [r \in GrRequests |-> [gr[r] EXCEPT !.sure = @ /\ (gr[r].key # k \/ gr[r].ph = "done")]]
    /\ UNCHANGED <<grCase, sub, gate, proj>>

\* The gate after an invalidation: patterns drop it, routes let the key pass.
GateAfter(k) == IF table = "patterns" \/ gate = GrNone THEN GrNone ELSE gate \cup {k}

\* onMessage: a flush, or the invalidation of one namespace or host.
OnMessage ==
  /\ chan # <<>>
  /\ chan' = Tail(chan)
  /\ LET k == Head(chan).key
     IN IF Head(chan).all THEN ClearState(TRUE)
        ELSE /\ gr' = [r \in GrRequests |-> Moved(r, k)]
             /\ proj' = Without(k)
             /\ gate' = GateAfter(k)
  /\ UNCHANGED <<grCase, auth, sub>>

\* onConnect runs when every subscription is acknowledged.
OnConnect ==
  /\ ~sub.on
  /\ sub' = [sub EXCEPT !.on = TRUE]
  /\ ClearState(TRUE)
  /\ UNCHANGED <<grCase, auth, chan>>

OnDisconnect ==
  /\ sub.on /\ sub.drops < grWork.drops
  /\ sub' = [on |-> FALSE, drops |-> sub.drops + 1]
  /\ chan' = <<>>
  /\ ClearState(FALSE)
  /\ UNCHANGED <<grCase, auth>>

GrNext ==
  \/ ControlChange \/ ControlRemove \/ OnMessage \/ OnConnect \/ OnDisconnect
  \/ \E r \in grWork.requests : \/ BeginRequest(r) \/ GrStart(r) \/ RedisMembers(r) \/ RedisHash(r)
                                \/ FinishMembers(r) \/ FinishHash(r)

GrSpec == GrInit /\ [][GrNext]_grVars

-----------------------------------------------------------------------------
(* Properties                                                                *)

\* Once the gateway has handled every invalidation of a key, what it caches for
\* the key is what Redis holds, whatever reads were in flight when the
\* invalidations came (the post-read checks of both resolvers).
CacheConverges ==
  \A k \in GrKeys : Told(k) => \A i \in CachedAt(k) : proj[i][2] = auth[k]

\* A key that is active, and whose activation the gateway had handled when the
\* request began, is not answered with the 404 of the membership gate.
NoFalse404 ==
  \A r \in GrRequests : gr[r].ph = "done" /\ gr[r].sure => gr[r].answer # "unknown"

\* The gateway's caches follow Redis through every invalidation it hears of, and
\* its membership gate turns away no key it knew to be active.
RoutingConverges ==
  /\ CacheConverges
  /\ NoFalse404

=============================================================================
