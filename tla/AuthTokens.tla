------------------------------ MODULE AuthTokens ------------------------------
(***************************************************************************)
(* The AUTH worker's token store: verify, issue, delegated issue, list and *)
(* revoke, on several isolates over one Redis.                             *)
(*                                                                         *)
(* A token is a record (auth:token:<id>) and an index entry from its hash  *)
(* to the id (auth:hash:<hash>); the hash of an issued token is drawn with *)
(* its id, so the id stands for it.  The bootstrap token's hash comes from *)
(* the environment of each isolate: two isolates of a rolling deploy may   *)
(* want different ones.  A delegated issue counts the live tokens of its   *)
(* issuer under a lock with a TTL.  A MULTI, and a WATCHed transaction     *)
(* whose reads are all watched, is one step at its EXEC.                   *)
(***************************************************************************)
EXTENDS Naturals, FiniteSets

CONSTANTS AuCalls,      \* RPC calls
          AuIsolates,   \* isolates of the auth worker
          AuFresh,      \* ids that issue and delegated issue may draw
          AuNs,         \* namespaces the template generator may draw
          AuLockTTL,    \* DELEGATED_ISSUE_LOCK_TTL_SECONDS
          AuTokenTTL,   \* the template's ttlSeconds
          AuMaxTime,    \* bound on the clock
          NoAu,         \* no token, no call
          AuWorkloads   \* [ops, quota, faults, boots (isolate -> hash), issuerEnds]

VARIABLES auCase,   \* the workload, chosen once
          auNow,    \* the clock
          tok,      \* token id -> record
          idx,      \* hash -> token id
          dlock,    \* delegated issue lock of (Issuer, template): owner and expiry
          known,    \* isolate -> verifyBootstrapHash
          au,       \* call -> progress
          auFaults  \* replies lost and records lost so far

auWork == AuWorkloads[auCase]
auVars == <<auCase, auNow, tok, idx, dlock, known, au, auFaults>>

Boot == "bootstrap"
Issuer == "issuer"
TokenIds == AuFresh \cup {Boot, Issuer}
BootHash(i) == auWork.boots[i]
Hashes == AuFresh \cup {Issuer, "boot-1", "boot-2"}

Unset == [there |-> FALSE, hash |-> NoAu, by |-> NoAu, ns |-> NoAu, expires |-> 0,
          revoked |-> FALSE, expired |-> FALSE]
Rec(hash, by, ns, expires) ==
  [Unset EXCEPT !.there = TRUE, !.hash = hash, !.by = by, !.ns = ns, !.expires = expires]

\* expires = 0: no expires_at
IsExpired(r) == r.expires # 0 /\ r.expires <= auNow
IsRevoked(r) == r.revoked

IdleCall == [op |-> "idle", pc |-> "idle", iso |-> NoAu, arg |-> NoAu, cached |-> FALSE,
             ids |-> {}, seen |-> [t \in TokenIds |-> Unset], at |-> 0, ns |-> NoAu,
             shaken |-> FALSE, out |-> "none"]

Free == [owner |-> NoAu, until |-> 0]
LockHolder == IF dlock.until > auNow THEN dlock.owner ELSE NoAu

AuInit ==
  /\ auCase \in DOMAIN AuWorkloads
  /\ auNow = 1
  /\ tok = [t \in TokenIds |-> IF t = Issuer THEN Rec(Issuer, Boot, NoAu, auWork.issuerEnds) ELSE Unset]
  /\ idx = [h \in Hashes |-> IF h = Issuer THEN Issuer ELSE NoAu]
  /\ dlock = Free
  /\ known = [i \in AuIsolates |-> FALSE]
  /\ au = [c \in AuCalls |-> IdleCall]
  /\ auFaults = 0

Go(c, pc) == au' = [au EXCEPT ![c].pc = pc]
AuFinish(c, out) == au' = [au EXCEPT ![c].pc = "done", ![c].out = out]
Fault == auFaults < auWork.faults /\ auFaults' = auFaults + 1
-----------------------------------------------------------------------------
(* Bootstrap upsert: every call starts with it *)

\* Where a call continues once the bootstrap record is in place.
AfterBoot(op) ==
  CASE op = "verify" -> "lookup"
    [] op = "issue" -> "issue"
    [] op = "list" -> "scan"
    [] op = "delegate" -> "issuer"
    [] op = "revoke" -> "read"

\* verify skips the upsert once its isolate has done it; the others do not.
Begin(c) ==
  /\ au[c].op = "idle"
  /\ \E op \in auWork.ops, i \in DOMAIN auWork.boots :
       \E arg \in CASE op = "verify" -> {BootHash(i)} \cup AuFresh
                    [] op = "revoke" -> AuFresh \cup {Issuer, Boot}
                    [] OTHER -> {NoAu} :
         LET skip == op = "verify" /\ known[i]
         IN  au' = [au EXCEPT ![c] = [IdleCall EXCEPT !.op = op, !.iso = i, !.arg = arg, !.cached = skip,
                                        !.pc = IF skip THEN "lookup" ELSE "boot"]]
  /\ UNCHANGED <<auCase, auNow, tok, idx, dlock, known, auFaults>>

\* ensureBootstrapHash's first HGET.
BootRead(c) ==
  /\ au[c].pc = "boot"
  /\ IF tok[Boot].hash = BootHash(au[c].iso)
       THEN /\ known' = [known EXCEPT ![au[c].iso] = TRUE]
            /\ Go(c, AfterBoot(au[c].op))
       ELSE Go(c, "rotate") /\ UNCHANGED known
  /\ UNCHANGED <<auCase, auNow, tok, idx, dlock, auFaults>>

\* Bug: the previous bootstrap hash keeps its index entry.
RotatedIndex_Kept(old, new) == [idx EXCEPT ![new] = Boot]

RotatedIndex(old, new) ==
  [h \in Hashes |-> IF h = new THEN Boot ELSE IF h = old THEN NoAu ELSE idx[h]]

\* Calls that a change of the bootstrap record by somebody else disturbs.
Shake(calls, c) ==
  [d \in AuCalls |-> IF d # c /\ calls[d].pc \notin {"idle", "done"}
                       THEN [calls[d] EXCEPT !.shaken = TRUE] ELSE calls[d]]

\* rotateBootstrap: WATCH record, re-read, swap record and index in one EXEC.
BootRotate(c) ==
  LET new == BootHash(au[c].iso)
      old == tok[Boot].hash
      next == [au EXCEPT ![c].pc = AfterBoot(au[c].op)]
  IN  /\ au[c].pc = "rotate"
      /\ known' = [known EXCEPT ![au[c].iso] = TRUE]
      /\ IF old = new THEN au' = next /\ UNCHANGED <<tok, idx>>
         ELSE /\ tok' = [tok EXCEPT ![Boot] = Rec(new, Boot, NoAu, 0)]
              /\ idx' = RotatedIndex(old, new)
              /\ au' = Shake(next, c)
      /\ UNCHANGED <<auCase, auNow, dlock, auFaults>>

\* Redis comes back without the bootstrap record (flush, older snapshot).
LoseBootstrap ==
  /\ tok[Boot].there /\ Fault
  /\ tok' = [tok EXCEPT ![Boot] = Unset]
  /\ idx' = [idx EXCEPT ![tok[Boot].hash] = NoAu]
  /\ au' = [c \in AuCalls |-> IF au[c].pc \in {"idle", "done"} THEN au[c]
                              ELSE [au[c] EXCEPT !.shaken = TRUE]]
  /\ UNCHANGED <<auCase, auNow, dlock, known>>
-----------------------------------------------------------------------------
(* verify *)

\* A miss on the isolate's own bootstrap token repairs the record and looks again.
Heals(c) == au[c].cached /\ au[c].arg = BootHash(au[c].iso)

\* readRecordByHash (one script) and the checks that follow it.
Lookup(c) ==
  LET t == idx[au[c].arg]
  IN  /\ au[c].pc = "lookup"
      /\ CASE t = NoAu /\ Heals(c) ->
                au' = [au EXCEPT ![c].pc = "boot", ![c].cached = FALSE]
           [] t = NoAu /\ ~Heals(c) -> AuFinish(c, "unknown_token")
           [] t # NoAu ->
                LET r == tok[t]
                IN  CASE ~r.there -> AuFinish(c, "unknown_token")
                      [] r.there /\ r.hash # au[c].arg -> AuFinish(c, "invalid_record_hash")
                      [] r.there /\ r.hash = au[c].arg /\ IsRevoked(r) -> AuFinish(c, "revoked")
                      [] r.there /\ r.hash = au[c].arg /\ ~IsRevoked(r) /\ IsExpired(r) ->
                           Go(c, "collapse")
                      [] OTHER -> AuFinish(c, "allow")
      /\ UNCHANGED <<auCase, auNow, tok, idx, dlock, known, auFaults>>

\* Lazy collection of an expired token: index and tombstone in one MULTI.
CollapseExpired(c) ==
  /\ au[c].pc = "collapse"
  /\ idx' = [idx EXCEPT ![au[c].arg] = NoAu]
  /\ tok' = [tok EXCEPT ![au[c].arg].expired = TRUE]
  /\ AuFinish(c, "expired")
  /\ UNCHANGED <<auCase, auNow, dlock, known, auFaults>>
-----------------------------------------------------------------------------
(* issue and list *)

Unused == {t \in AuFresh : ~tok[t].there}

\* One MULTI: the record and its index; the reply may be lost.
Issue(c) ==
  /\ au[c].pc = "issue"
  /\ IF Unused = {} THEN AuFinish(c, "spent") /\ UNCHANGED <<tok, idx, auFaults>>
     ELSE \E t \in Unused, ends \in {0, auNow + 1} :
            /\ tok' = [tok EXCEPT ![t] = Rec(t, Boot, NoAu, ends)]
            /\ idx' = [idx EXCEPT ![t] = t]
            /\ \/ AuFinish(c, "issued") /\ UNCHANGED auFaults
               \/ AuFinish(c, "error") /\ Fault
  /\ UNCHANGED <<auCase, auNow, dlock, known>>

\* scanTokenRecords: the ids first, then their records in a batch.
ScanKeys(c) ==
  /\ au[c].pc = "scan"
  /\ au' = [au EXCEPT ![c].ids = {t \in TokenIds : tok[t].there}, ![c].pc = "records"]
  /\ UNCHANGED <<auCase, auNow, tok, idx, dlock, known, auFaults>>

ReadRecords(c) ==
  /\ au[c].pc = "records"
  /\ au' = [au EXCEPT ![c].seen = [t \in TokenIds |-> IF t \in au[c].ids THEN tok[t] ELSE Unset],
                      ![c].pc = IF au[c].op = "list" THEN "done" ELSE "choose",
                      ![c].out = IF au[c].op = "list" THEN "listed" ELSE "none"]
  /\ UNCHANGED <<auCase, auNow, tok, idx, dlock, known, auFaults>>
-----------------------------------------------------------------------------
(* delegated issue *)

ValidIssuer(r) == r.there /\ ~IsRevoked(r) /\ ~IsExpired(r)

CheckIssuer(c) ==
  /\ au[c].pc = "issuer"
  /\ IF ValidIssuer(tok[Issuer]) THEN Go(c, "acquire") ELSE AuFinish(c, "issuer_not_active")
  /\ UNCHANGED <<auCase, auNow, tok, idx, dlock, known, auFaults>>

\* SET NX EX; a lost reply leaves the lock to its TTL.
AcquireLock(c) ==
  /\ au[c].pc = "acquire"
  /\ IF LockHolder # NoAu THEN AuFinish(c, "busy") /\ UNCHANGED <<dlock, auFaults>>
     ELSE /\ dlock' = [owner |-> c, until |-> auNow + AuLockTTL]
          /\ \/ au' = [au EXCEPT ![c].pc = "scan", ![c].at = auNow] /\ UNCHANGED auFaults
             \/ AuFinish(c, "error") /\ Fault
  /\ UNCHANGED <<auCase, auNow, tok, idx, known>>

Delegated(records) == {t \in TokenIds : records[t].there /\ records[t].by = Issuer}

CountActiveDelegatedTokens(records, nowMs) ==
  Cardinality({t \in Delegated(records) : ~records[t].revoked /\ records[t].expires > nowMs})

QuotaReached(active) == active >= auWork.quota

\* tokenNamespaceClaimExists: every record, revoked or not, keeps its namespace.
FreeNs(records) == AuNs \ {records[t].ns : t \in TokenIds}

\* Quota, then a namespace no scanned record claims; the random draws may all collide.
ChooseNamespace(c) ==
  LET free == FreeNs(au[c].seen)
  IN  /\ au[c].pc = "choose"
      /\ IF QuotaReached(CountActiveDelegatedTokens(au[c].seen, au[c].at))
           THEN au' = [au EXCEPT ![c].pc = "release", ![c].out = "quota_exceeded"]
           ELSE IF free = {}
           THEN au' = [au EXCEPT ![c].pc = "release", ![c].out = "namespace_collision"]
           ELSE \E ns \in free : au' = [au EXCEPT ![c].pc = "budget", ![c].ns = ns,
                                                  ![c].seen = IdleCall.seen, ![c].ids = {}]
      /\ UNCHANGED <<auCase, auNow, tok, idx, dlock, known, auFaults>>

\* The local clock alone may already rule the lock out.
CheckBudget(c) ==
  /\ au[c].pc = "budget"
  /\ IF auNow - au[c].at >= AuLockTTL - 1
       THEN au' = [au EXCEPT ![c].pc = "release", ![c].out = "busy"]
       ELSE Go(c, "commit")
  /\ UNCHANGED <<auCase, auNow, tok, idx, dlock, known, auFaults>>

\* watchDelegatedIssuePrerequisites: the lock is still ours, the issuer still active.
MayIssue(c) == LockHolder = c /\ ValidIssuer(tok[Issuer])

\* WATCH lock and issuer, check both, EXEC.  On an unknown outcome the lock is kept.
DelegatedCommit(c) ==
  /\ au[c].pc = "commit"
  /\ IF ~MayIssue(c) \/ Unused = {}
       THEN /\ au' = [au EXCEPT ![c].pc = "release", ![c].out = "busy"]
            /\ UNCHANGED <<tok, idx, auFaults>>
       ELSE LET t == CHOOSE u \in Unused : TRUE
            IN  \/ /\ tok' = [tok EXCEPT ![t] = Rec(t, Issuer, au[c].ns, au[c].at + AuTokenTTL)]
                   /\ idx' = [idx EXCEPT ![t] = t]
                   /\ \/ au' = [au EXCEPT ![c].pc = "release", ![c].out = "issued"] /\ UNCHANGED auFaults
                      \/ AuFinish(c, "error") /\ Fault
                \/ AuFinish(c, "error") /\ Fault /\ UNCHANGED <<tok, idx>>
  /\ UNCHANGED <<auCase, auNow, dlock, known>>

\* Compare-and-delete; its own failure is swallowed.
ReleaseLock(c) ==
  /\ au[c].pc = "release"
  /\ \/ dlock' = (IF LockHolder = c THEN Free ELSE dlock) /\ UNCHANGED auFaults
     \/ UNCHANGED dlock /\ Fault
  /\ Go(c, "done")
  /\ UNCHANGED <<auCase, auNow, tok, idx, known>>
-----------------------------------------------------------------------------
(* revoke *)

RevokeRead(c) ==
  /\ au[c].pc = "read"
  /\ CASE au[c].arg = Boot -> AuFinish(c, "bootstrap_protected")
       [] au[c].arg # Boot /\ ~tok[au[c].arg].there -> AuFinish(c, "not_revoked")
       [] OTHER -> au' = [au EXCEPT ![c].pc = "index", ![c].seen[au[c].arg] = tok[au[c].arg]]
  /\ UNCHANGED <<auCase, auNow, tok, idx, dlock, known, auFaults>>

RevokeIndex(c) ==
  /\ au[c].pc = "index"
  /\ CASE idx[au[c].arg] = NoAu -> AuFinish(c, "not_revoked") /\ UNCHANGED idx
       [] idx[au[c].arg] # NoAu /\ au[c].seen[au[c].arg].revoked ->
            idx' = [idx EXCEPT ![au[c].arg] = NoAu] /\ AuFinish(c, "not_revoked")
       [] OTHER -> Go(c, "revoke") /\ UNCHANGED idx
  /\ UNCHANGED <<auCase, auNow, tok, dlock, known, auFaults>>

\* The DEL reply: did this call remove the index entry?
Collapsed(h) == idx[h] # NoAu

RevokeCommit(c) ==
  LET t == au[c].arg
  IN  /\ au[c].pc = "revoke"
      /\ idx' = [idx EXCEPT ![t] = NoAu]
      /\ tok' = [tok EXCEPT ![t].revoked = TRUE]
      /\ \/ AuFinish(c, IF Collapsed(t) THEN "revoked_now" ELSE "not_revoked") /\ UNCHANGED auFaults
         \/ AuFinish(c, "error") /\ Fault
      /\ UNCHANGED <<auCase, auNow, dlock, known>>
-----------------------------------------------------------------------------
AuTick ==
  /\ auNow < AuMaxTime
  /\ auNow' = auNow + 1
  /\ UNCHANGED <<auCase, tok, idx, dlock, known, au, auFaults>>

AuStep(c) ==
  \/ Begin(c) \/ BootRead(c) \/ BootRotate(c) \/ Lookup(c) \/ CollapseExpired(c)
  \/ Issue(c) \/ ScanKeys(c) \/ ReadRecords(c)
  \/ CheckIssuer(c) \/ AcquireLock(c) \/ ChooseNamespace(c) \/ CheckBudget(c)
  \/ DelegatedCommit(c) \/ ReleaseLock(c)
  \/ RevokeRead(c) \/ RevokeIndex(c) \/ RevokeCommit(c)

AuNext == AuTick \/ LoseBootstrap \/ \E c \in AuCalls : AuStep(c)

AuSpec == AuInit /\ [][AuNext]_auVars
-----------------------------------------------------------------------------
\* The hash index holds exactly the tokens that may verify: an entry leads to
\* the record with that hash, never to a revoked or collected one, and every
\* live record has its entry.  Bootstrap rotation leaves one bootstrap hash.
IndexExact ==
  \A h \in Hashes, t \in TokenIds :
    idx[h] = t <=> /\ tok[t].there
                   /\ tok[t].hash = h
                   /\ ~tok[t].revoked
                   /\ ~tok[t].expired

\* An issuer never has more live delegated tokens than its template's quota,
\* whatever locks expire and whichever replies are lost meanwhile.
QuotaHeld == CountActiveDelegatedTokens(tok, auNow) <= auWork.quota

\* No token appears in the name of an issuer that is revoked or expired at
\* that moment, although the issuer was checked several round trips earlier.
IssuedByActiveIssuer ==
  [][\A t \in AuFresh : (~tok[t].there /\ tok'[t].by = Issuer) => ValidIssuer(tok[Issuer])]_auVars

\* Tokens of one issuer and template never share a namespace.
NamespacesApart ==
  \A t, u \in Delegated(tok) : t # u => tok[t].ns # tok[u].ns

\* Of all the calls that revoke one token, at most one reports that it did.
RevokedByOne ==
  \A c, d \in AuCalls :
    c # d /\ au[c].out = "revoked_now" /\ au[d].out = "revoked_now" => au[c].arg # au[d].arg

\* An isolate accepts the bootstrap token of its own environment even when the
\* stored record was lost before the call, unless it changes during the call.
BootstrapHeals ==
  \A c \in AuCalls :
    au[c].op = "verify" /\ au[c].pc = "done" /\ au[c].arg = BootHash(au[c].iso) /\ ~au[c].shaken
      => au[c].out = "allow"

\* Whatever bootstrap, issue, verify, revoke and collection interleave, the hash
\* index is exact, delegation keeps its quota, its namespaces and its active
\* issuer, one call revokes, and a lost bootstrap record heals (auth/index.js).
TokensExact ==
  /\ [](/\ IndexExact
        /\ QuotaHeld
        /\ NamespacesApart
        /\ RevokedByOne
        /\ BootstrapHeals)
  /\ IssuedByActiveIssuer

=============================================================================
