----------------------------- MODULE D1Binding -----------------------------
(***************************************************************************)
(* A tenant's D1 binding: the client facade in the tenant's isolate with   *)
(* its statements and sessions (runtime/d1-client.js), and the binding     *)
(* stub behind it that sends each query to the hinted owner or through the *)
(* router and decides what an answer or its loss means                     *)
(* (runtime/bindings/d1.js), against d1-runtime tasks that run the query,  *)
(* forward it, refuse it or vanish (d1-runtime/owner-client.js,            *)
(* d1-runtime/protocol.js).                                                *)
(***************************************************************************)
EXTENDS Naturals, Sequences, SequencesExt, FiniteSets

CONSTANTS
  DbTasks,    \* d1-runtime tasks
  DbCalls,    \* queries a tenant may have in progress
  Databases,  \* D1Database facades, one per database
  Sessions,   \* D1DatabaseSession objects
  SessionOf,  \* [Sessions -> Databases], withSession
  Params,     \* parameter values of bind()
  Batches,    \* the statements of a batch(), by order of creation
  NoDb,       \* no hint, no owner
  MaxStmts, MaxDbMoves

ASSUME DbAssumption == SessionOf \in [Sessions -> Databases] /\ Batches \subseteq Seq(Nat)

VARIABLES
  dbStmts,  \* statementState, in order of creation
  dbHint,   \* ownerHintCache of the process
  dbOwner,  \* the task that owns each database
  dbMoves,
  dbCall    \* per call: where it is, what it sent, what ran, what it answers

dbVars == <<dbStmts, dbHint, dbOwner, dbMoves, dbCall>>

Handles == Databases \cup Sessions

----------------------------------------------------------------------------
(* The facade. *)

\* rootDatabase
RootDatabase(h) == IF h \in Databases THEN h ELSE SessionOf[h]

\* serializeStatement
Serialized(i) == [from |-> dbStmts[i].owner, params |-> dbStmts[i].params]

\* prepareFor on a database or a session
Prepare(h) ==
  /\ Len(dbStmts) < MaxStmts
  /\ dbStmts' = Append(dbStmts, [owner |-> h, params |-> NoDb])
  /\ UNCHANGED <<dbHint, dbOwner, dbMoves, dbCall>>

\* bind: a new statement, the bound one is untouched.
Bind(i, p) ==
  /\ Len(dbStmts) < MaxStmts
  /\ dbStmts' = Append(dbStmts, [dbStmts[i] EXCEPT !.params = p])
  /\ UNCHANGED <<dbHint, dbOwner, dbMoves, dbCall>>

DbIdle == [pc |-> "idle", mode |-> "none", db |-> NoDb, sent |-> <<>>, ran |-> <<>>,
           answer |-> "none", retryable |-> FALSE]

\* sendFor: the stub of the root database.
SendFor(c, h, mode, stmts) ==
  /\ dbCall[c].pc = "idle"
  /\ dbCall' = [dbCall EXCEPT ![c] = [DbIdle EXCEPT !.pc = "owner", !.mode = mode,
                                                   !.db = RootDatabase(h), !.sent = stmts]]
  /\ UNCHANGED <<dbStmts, dbHint, dbOwner, dbMoves>>

\* first of a statement; run, all and raw differ in what they make of the rows
\* and cannot miss a column.
QueryStatement(c, i) == SendFor(c, dbStmts[i].owner, "first", <<Serialized(i)>>)

\* batchFor: every statement prepared from this very database or session.
SameOwner(h, is) == \A k \in DOMAIN is : dbStmts[is[k]].owner = h

RunBatch(c, h, is) ==
  IF SameOwner(h, is)
  THEN SendFor(c, h, "batch", [k \in DOMAIN is |-> Serialized(is[k])])
  ELSE /\ dbCall[c].pc = "idle"
       /\ dbCall' = [dbCall EXCEPT ![c] = [DbIdle EXCEPT !.pc = "done", !.mode = "batch",
                                                        !.db = RootDatabase(h),
                                                        !.answer = "invalid-batch"]]
       /\ UNCHANGED <<dbStmts, dbHint, dbOwner, dbMoves>>

\* exec of a database, its text split into statements
RunExec(c, d) == SendFor(c, d, "exec", <<[from |-> d, params |-> NoDb]>>)

----------------------------------------------------------------------------
(* What comes back.  ran: the query was run. *)

DbAnswer(code, ran) == [code |-> code, ran |-> ran]

\* classifyD1Error and d1ErrorPayload: which codes tell the tenant to retry.
Classified(code) == code \in {"ownership", "registry-unavailable"}

\* The owner runs the query, or an error stops it: SQL errors leave nothing
\* (transactions roll back), the fence refuses before the first statement.
OwnerAnswers ==
  {DbAnswer("result", TRUE)}
  \cup {DbAnswer(k, FALSE) : k \in {"sql-error", "ownership", "registry-unavailable"}}

\* forwardToOwner: what the owner said, or its answer was lost.
DbForwarded == OwnerAnswers \cup {DbAnswer(k, ran) : k \in {"result-unknown", "timeout"}, ran \in BOOLEAN}

DbTaskAnswers(t, d) == IF t = dbOwner[d] THEN OwnerAnswers ELSE DbForwarded

\* The link: no connection or a lost one, the deadline of the query, a proxy that
\* gives up, or bytes that parseD1Payload cannot read.
DbLink == {DbAnswer(k, ran) : k \in {"throw", "deadline", "gateway", "garbled"}, ran \in BOOLEAN}

----------------------------------------------------------------------------
(* The binding stub: sendQuery. *)

Ran(c, r) == [dbCall[c] EXCEPT !.ran = IF r.ran THEN Append(@, dbCall[c].sent) ELSE @]

\* throwD1Payload, and sendFor on the other side of the RPC: an error that keeps
\* only its message keeps its code and loses its flag.
Throw(c, call, code, retryable) ==
  \E flag \in IF retryable THEN BOOLEAN ELSE {FALSE} :
    dbCall' = [dbCall EXCEPT ![c] = [call EXCEPT !.pc = "done", !.answer = code, !.retryable = flag]]

\* The payload of an answer that was read.
Finish(c, r) ==
  IF r.code = "result"
  THEN /\ \E a \in {"result"} \cup (IF dbCall[c].mode = "first" THEN {"column-not-found"} ELSE {}) :
            dbCall' = [dbCall EXCEPT ![c] = [Ran(c, r) EXCEPT !.pc = "done", !.answer = a]]
       /\ dbHint' = [dbHint EXCEPT ![dbCall[c].db] = dbOwner[dbCall[c].db]]
  ELSE Throw(c, Ran(c, r), r.code, Classified(r.code)) /\ UNCHANGED dbHint

Clear(d) == dbHint' = [dbHint EXCEPT ![d] = NoDb]

\* No hint: straight to the router.
OwnerMiss(c) ==
  /\ dbCall[c].pc = "owner" /\ dbHint[dbCall[c].db] = NoDb
  /\ dbCall' = [dbCall EXCEPT ![c].pc = "router"]
  /\ UNCHANGED <<dbStmts, dbHint, dbOwner, dbMoves>>

\* fetchViaOwner falls back to the router when the owner cannot be reached.
HintedFailure_Replayed(c, r) ==
  dbCall' = [dbCall EXCEPT ![c] = [Ran(c, r) EXCEPT !.pc = "router"]]

\* fetchViaOwner, and a hinted owner whose answer is not D1's: never replayed.
HintedFailure(c, r) ==
  IF r.code = "deadline" THEN Throw(c, Ran(c, r), "timeout", FALSE)
  ELSE Throw(c, Ran(c, r), "result-unknown", FALSE)

\* sendQuery with a hint; an ownership code is asked of the router once.
HintedOwnerAnswers(c) ==
  LET d == dbCall[c].db IN
  /\ dbCall[c].pc = "owner" /\ dbHint[d] # NoDb
  /\ \E r \in DbTaskAnswers(dbHint[d], d) \cup DbLink :
       \/ /\ r.code \in {"throw", "deadline", "gateway", "garbled"}
          /\ HintedFailure(c, r) /\ Clear(d)
       \/ /\ r.code = "ownership"
          /\ dbCall' = [dbCall EXCEPT ![c] = [Ran(c, r) EXCEPT !.pc = "router"]] /\ Clear(d)
       \/ r.code \in {"result", "sql-error", "registry-unavailable", "result-unknown", "timeout"}
          /\ Finish(c, r)
  /\ UNCHANGED <<dbStmts, dbOwner, dbMoves>>

\* fetchViaRouter; throwD1TransportError calls a router that could not be
\* reached unavailable, and may be retried.
RouterAnswers(c) ==
  LET d == dbCall[c].db IN
  /\ dbCall[c].pc = "router"
  /\ \E r \in DbLink \cup UNION {DbTaskAnswers(t, d) : t \in DbTasks} :
       \/ r.code = "throw" /\ Throw(c, Ran(c, r), "backend-unavailable", TRUE) /\ UNCHANGED dbHint
       \/ r.code = "deadline" /\ Throw(c, Ran(c, r), "timeout", FALSE) /\ UNCHANGED dbHint
       \/ r.code \in {"gateway", "garbled"}
          /\ Throw(c, Ran(c, r), "result-unknown", FALSE) /\ UNCHANGED dbHint
       \/ r.code \notin {"throw", "deadline", "gateway", "garbled"} /\ Finish(c, r)
  /\ UNCHANGED <<dbStmts, dbOwner, dbMoves>>

\* The database gets another owner (D1OwnerRegistry); the cache drops its oldest hint.
MoveDb(d, t) ==
  /\ dbMoves < MaxDbMoves /\ t # dbOwner[d]
  /\ dbOwner' = [dbOwner EXCEPT ![d] = t]
  /\ dbMoves' = dbMoves + 1
  /\ UNCHANGED <<dbStmts, dbHint, dbCall>>

TrimDbHint(d) == dbHint[d] # NoDb /\ Clear(d) /\ UNCHANGED <<dbStmts, dbOwner, dbMoves, dbCall>>

DbInit ==
  /\ dbStmts = <<>>
  /\ dbHint = [d \in Databases |-> NoDb]
  /\ dbOwner = [d \in Databases |-> CHOOSE t \in DbTasks : TRUE]
  /\ dbMoves = 0
  /\ dbCall = [c \in DbCalls |-> DbIdle]

DbNext ==
  \/ \E h \in Handles : Prepare(h)
  \/ \E i \in DOMAIN dbStmts, p \in Params : Bind(i, p)
  \/ \E c \in DbCalls :
       \/ \E i \in DOMAIN dbStmts : QueryStatement(c, i)
       \/ \E h \in Handles, is \in Batches : ToSet(is) \subseteq DOMAIN dbStmts /\ RunBatch(c, h, is)
       \/ \E d \in Databases : RunExec(c, d)
       \/ OwnerMiss(c) \/ HintedOwnerAnswers(c) \/ RouterAnswers(c)
  \/ \E d \in Databases : TrimDbHint(d) \/ \E t \in DbTasks : MoveDb(d, t)

DbSpec == DbInit /\ [][DbNext]_dbVars

----------------------------------------------------------------------------
(* Properties. *)

\* However hints go stale, owners move and answers are lost, sendQuery runs a
\* query at most once, and a result is the one run's.
QueryOnce ==
  \A c \in DbCalls :
    /\ Len(dbCall[c].ran) <= 1
    /\ dbCall[c].answer \in {"result", "column-not-found"} => Len(dbCall[c].ran) = 1

\* An error with the retryable flag means the query did not run, unless it is
\* backend-unavailable: that one is also thrown when the router's answer is lost.
RetryableDidNotRun ==
  \A c \in DbCalls :
    dbCall[c].retryable /\ dbCall[c].answer # "backend-unavailable" => dbCall[c].ran = <<>>

\* What runs was prepared from the database it runs on, and a batch from one
\* database or session.
OneDatabase ==
  \A c \in DbCalls : \A k \in DOMAIN dbCall[c].ran :
    \A i, j \in DOMAIN dbCall[c].ran[k] :
      /\ RootDatabase(dbCall[c].ran[k][i].from) = dbCall[c].db
      /\ dbCall[c].ran[k][i].from = dbCall[c].ran[k][j].from

\* A D1 query runs at most once, on the database it was prepared for, and its
\* caller is not told to retry one that ran.
D1CallsOnce ==
  /\ QueryOnce
  /\ RetryableDidNotRun
  /\ OneDatabase

============================================================================
