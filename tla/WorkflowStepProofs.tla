------------------------- MODULE WorkflowStepProofs -------------------------
(***************************************************************************)
(* What a Workflow instance does is what its steps record: the steps only  *)
(* go forward, a completed instance has completed them all, and events are *)
(* delivered once and in order.  The inductive invariant is Progress, on   *)
(* top of Lifecycle: the run that holds the claim knows no more than what  *)
(* is recorded, because every step script fences on the claim.             *)
(***************************************************************************)
EXTENDS WorkflowLifecycleProofs

-----------------------------------------------------------------------------
(* Runs. *)

\* The stages after a step's have not been started.
LaterIdle(r, o) ==
  \A i, j \in DOMAIN Stages :
    o \in Stages[i] /\ j > i => \A u \in Stages[j] : r.phase[u] = "idle"

\* What Advance does to a run: other runs and other steps are left alone.
LEMMA AdvanceFields ==
  ASSUME Lifecycle, NEW k \in Tokens, NEW o \in Ordinals, NEW phase, NEW arg,
         Advance(k, o, phase, arg)
  PROVE /\ \A j \in Tokens : j # k => run'[j] = run[j]
        /\ run'[k].open = run[k].open /\ run'[k].generation = run[k].generation
        /\ run'[k].outcome = run[k].outcome
        /\ \A u \in Ordinals : u # o => /\ run'[k].phase[u] = run[k].phase[u]
                                        /\ run'[k].arg[u] = run[k].arg[u]
<1> DEFINE p == IF run[k].open \/ phase \in ServicePhases THEN phase ELSE "idle"
           a == IF run[k].open \/ phase \in ServicePhases THEN arg ELSE 0
           r == [run[k] EXCEPT !.phase[o] = p, !.arg[o] = a]
<1>1. run' = [run EXCEPT ![k] = r]
  BY Zenon DEF Advance
<1>2. run[k] \in RunRecord
  BY Known
<1> HIDE DEF p, a
<1>3. /\ r.open = run[k].open /\ r.generation = run[k].generation
      /\ r.outcome = run[k].outcome
      /\ \A u \in Ordinals : u # o => r.phase[u] = run[k].phase[u] /\ r.arg[u] = run[k].arg[u]
  BY <1>2 DEF RunRecord
<1> HIDE DEF r
<1>4. run'[k] = r /\ \A j \in Tokens : j # k => run'[j] = run[j]
  BY <1>1, Known
<1> QED BY <1>3, <1>4

\* The step it is about moves on, or is forgotten if the run is over.
LEMMA AdvanceStep ==
  ASSUME Lifecycle, NEW k \in Tokens, NEW o \in Ordinals, NEW phase, NEW arg,
         Advance(k, o, phase, arg)
  PROVE \/ run'[k].phase[o] = phase /\ run'[k].arg[o] = arg
        \/ run'[k].phase[o] = "idle" /\ run'[k].arg[o] = 0
<1> DEFINE p == IF run[k].open \/ phase \in ServicePhases THEN phase ELSE "idle"
           a == IF run[k].open \/ phase \in ServicePhases THEN arg ELSE 0
           r == [run[k] EXCEPT !.phase[o] = p, !.arg[o] = a]
<1>1. run' = [run EXCEPT ![k] = r]
  BY Zenon DEF Advance
<1>2. run[k] \in RunRecord
  BY Known
<1>3. (p = phase /\ a = arg) \/ (p = "idle" /\ a = 0)
  OBVIOUS
<1> HIDE DEF p, a
<1>4. r.phase[o] = p /\ r.arg[o] = a
  BY <1>2 DEF RunRecord
<1> HIDE DEF r
<1>5. run'[k] = r
  BY <1>1, Known
<1> QED BY <1>3, <1>4, <1>5

\* The stages are disjoint sets of ordinals, and a step that may suspend is
\* alone in its stage (assertCanStartStep).
LEMMA StageFacts ==
  /\ \A i \in DOMAIN Stages : Stages[i] \subseteq Nat \ {0}
  /\ \A i, j \in DOMAIN Stages : i # j => Stages[i] \cap Stages[j] = {}
  /\ \A i \in DOMAIN Stages : \A o \in Stages[i] : Kind[o] # "do" => Stages[i] = {o}
  /\ 0 \notin Ordinals
<1>0. Stages \in Seq(SUBSET (Nat \ {0}))
  BY WorkflowAssumption
<1>1. \A i \in DOMAIN Stages : Stages[i] \subseteq Nat \ {0}
  <2> SUFFICES ASSUME NEW i \in DOMAIN Stages PROVE Stages[i] \in SUBSET (Nat \ {0})
    OBVIOUS
  <2> QED BY <1>0
<1>2. \A i, j \in DOMAIN Stages : i # j => Stages[i] \cap Stages[j] = {}
  BY WorkflowAssumption, SMTT(30)
<1>3. \A i \in DOMAIN Stages : \A o \in Stages[i] : Kind[o] # "do" => Stages[i] = {o}
  BY WorkflowAssumption, Zenon
<1>4. 0 \notin Ordinals
  <2> SUFFICES ASSUME 0 \in Ordinals PROVE FALSE
    OBVIOUS
  <2>1. PICK i \in DOMAIN Stages : 0 \in Stages[i]
    BY DEF Ordinals
  <2> QED BY <1>1, <2>1
<1> QED BY <1>1, <1>2, <1>3, <1>4

\* Two steps of different stages are different.
LEMMA StagesApart ==
  ASSUME NEW i \in DOMAIN Stages, NEW j \in DOMAIN Stages, i # j,
         NEW o \in Stages[i], NEW u \in Stages[j]
  PROVE o # u /\ o \in Ordinals /\ u \in Ordinals
<1>1. o # u
  BY StageFacts
<1> QED BY <1>1 DEF Ordinals

\* A step under way, or the last one that settled, moves on in its stage.
LEMMA ShapeAdvance ==
  ASSUME Lifecycle, RunsShaped, NEW k \in Tokens, NEW o \in Ordinals, NEW phase, NEW arg,
         Advance(k, o, phase, arg), KindFits(phase, o),
         \/ run[k].phase[o] \in Busy
         \/ phase \notin Busy /\ run[k].phase[o] # "idle" /\ LaterIdle(run[k], o)
  PROVE RunsShaped'
<1> DEFINE r == run[k]
           s == run'[k]
<1>1. RunShaped(r)
  BY DEF RunsShaped
<1>2. /\ s.open = r.open
      /\ \A u \in Ordinals : u # o => s.phase[u] = r.phase[u]
      /\ s.phase[o] \in {phase, "idle"}
      /\ \A j \in Tokens : j # k => run'[j] = run[j]
  <2>1. s.phase[o] \in {phase, "idle"}
    BY AdvanceStep
  <2> QED BY <2>1, AdvanceFields
<1>3. "idle" \notin Busy /\ "done" \notin Busy
  BY DEF Busy, ServicePhases
<1>4. KindFits("idle", o)
  BY DEF KindFits, DoPhases, WaitPhases, RecordPhases
<1> HIDE DEF r, s
<1>5. \A u \in Ordinals : KindFits(s.phase[u], u)
  BY <1>1, <1>2, <1>4 DEF RunShaped
<1>6. \A w \in Ordinals : s.phase[w] \in Busy => r.phase[w] \in Busy
  <2>1. s.phase[o] \in Busy => r.phase[o] \in Busy
    BY <1>2, <1>3 DEF r
  <2> QED BY <1>2, <2>1
<1>7. r.phase[o] # "idle"
  BY <1>3 DEF r
<1>8. StagesInOrder(s)
  <2> SUFFICES ASSUME NEW i \in DOMAIN Stages, NEW j \in DOMAIN Stages,
                      NEW x \in Stages[i], NEW u \in Stages[j]
               PROVE /\ s.open /\ i < j /\ s.phase[u] # "idle" => s.phase[x] = "done"
                     /\ i # j => ~(s.phase[x] \in Busy /\ s.phase[u] \in Busy)
    BY DEF StagesInOrder
  <2>1. /\ r.open /\ i < j /\ r.phase[u] # "idle" => r.phase[x] = "done"
        /\ i # j => ~(r.phase[x] \in Busy /\ r.phase[u] \in Busy)
    BY <1>1 DEF RunShaped, StagesInOrder
  <2>2. x \in Ordinals /\ u \in Ordinals /\ (i # j => x # u)
    BY StagesApart DEF Ordinals
  <2>3. i # j => ~(s.phase[x] \in Busy /\ s.phase[u] \in Busy)
    BY <1>6, <2>1, <2>2, ZenonT(40)
  <2>4. ASSUME s.open, i < j, s.phase[u] # "idle" PROVE s.phase[x] = "done"
    <3>1. i # j
      BY <2>4, WorkflowAssumption, SMTT(30)
    <3>2. CASE x = o
      <4>1. r.phase[u] # "idle"
        BY <1>2, <2>2, <2>4, <3>1, <3>2, SMTT(30)
      <4>2. r.phase[o] = "done"
        BY <1>2, <2>1, <2>4, <3>2, <4>1, SMTT(30)
      <4>3. LaterIdle(r, o)
        BY <1>3, <4>2 DEF r
      <4>4. j > i
        BY <2>4, WorkflowAssumption
      <4> QED BY <3>2, <4>1, <4>3, <4>4 DEF LaterIdle
    <3>3. CASE x # o
      <4>1. r.phase[u] # "idle"
        BY <1>2, <1>7, <2>2, <2>4, SMTT(30)
      <4> QED BY <1>2, <2>1, <2>2, <2>4, <3>3, <4>1, SMTT(30)
    <3> QED BY <3>2, <3>3
  <2> QED BY <2>3, <2>4
<1> QED BY <1>2, <1>5, <1>8 DEF RunsShaped, RunShaped, s

\* A step moves on without a script that writes its record.
LEMMA ProgAdvance ==
  ASSUME Lifecycle, Progress, NEW k \in Tokens, NEW o \in Ordinals, NEW phase, NEW arg,
         Advance(k, o, phase, arg), KindFits(phase, o),
         \/ run[k].phase[o] \in Busy
         \/ phase \notin Busy /\ run[k].phase[o] # "idle" /\ LaterIdle(run[k], o),
         k = inst.runToken => StepLive(phase, arg, steps[o], Buffered, o),
         UNCHANGED <<steps, events, disp>>, inst'.runToken = inst.runToken,
         inst'.generation = inst.generation,
         inst'.status = "completed" => inst.status = "completed"
  PROVE ProgStep
<1>0. \/ run'[k].phase[o] = phase /\ run'[k].arg[o] = arg
      \/ run'[k].phase[o] = "idle" /\ run'[k].arg[o] = 0
  BY AdvanceStep, Zenon
<1>1. RunsShaped'
  BY ShapeAdvance, ZenonT(40) DEF Progress
<1>2. RecordsFit' /\ EventDelivery' /\ CompletedMeansDone' /\ ForwardStep
  BY ZenonT(40) DEF Progress, RecordsFit, EventDelivery, Buffered, CompletedMeansDone, ForwardStep
<1>3. CommitsTrue'
  BY CommitsFrame, ZenonT(40)
<1>4. LiveRun'
  <2>1. Buffered' = Buffered /\ AllDone' = AllDone
    BY Zenon DEF Buffered, AllDone
  <2>2. StepLive("idle", 0, steps[o], Buffered, o)
    BY DEF StepLive, Working, DoPhases, WaitPhases, RecordPhases
  <2> HIDE DEF Buffered, AllDone
  <2> SUFFICES ASSUME NEW j \in Tokens, j = inst.runToken
               PROVE /\ run'[j].generation = inst.generation
                     /\ run'[j].outcome = "completed" => AllDone
                     /\ \A u \in Ordinals :
                          StepLive(run'[j].phase[u], run'[j].arg[u], steps[u], Buffered, u)
    BY <2>1 DEF LiveRun
  <2>3. /\ run[j].generation = inst.generation /\ (run[j].outcome = "completed" => AllDone)
        /\ \A u \in Ordinals : StepLive(run[j].phase[u], run[j].arg[u], steps[u], Buffered, u)
    BY Zenon DEF Progress, LiveRun
  <2>4. CASE j # k
    BY <2>3, <2>4, AdvanceFields, ZenonT(40)
  <2>5. CASE j = k
    <3>1. run'[j].generation = run[j].generation /\ run'[j].outcome = run[j].outcome
      BY <2>5, AdvanceFields, ZenonT(40)
    <3>2. ASSUME NEW u \in Ordinals
          PROVE StepLive(run'[j].phase[u], run'[j].arg[u], steps[u], Buffered, u)
      <4>1. CASE u # o
        BY <2>3, <2>5, <4>1, AdvanceFields, ZenonT(40)
      <4>2. CASE u = o
        <5>1. \/ run'[j].phase[o] = phase /\ run'[j].arg[o] = arg
              \/ run'[j].phase[o] = "idle" /\ run'[j].arg[o] = 0
          BY <1>0, <2>5, Zenon
        <5> QED BY <2>2, <2>5, <4>2, <5>1, ZenonT(40)
      <4> QED BY <4>1, <4>2, ZenonT(40)
    <3> QED BY <2>3, <3>1, <3>2, ZenonT(40)
  <2> QED BY <2>4, <2>5, ZenonT(40)
<1> QED BY <1>1, <1>2, <1>3, <1>4 DEF ProgStep, Progress

\* Beside a sleep or a wait under way no other step takes an event.
LEMMA TakesAlone ==
  ASSUME Lifecycle, Progress, NEW k \in Tokens, NEW o \in Ordinals, NEW u \in Ordinals,
         Kind[o] # "do", run[k].phase[o] \in Busy, run[k].phase[u] = "take"
  PROVE u = o
<1>1. PICK i \in DOMAIN Stages : o \in Stages[i]
  BY DEF Ordinals
<1>2. PICK j \in DOMAIN Stages : u \in Stages[j]
  BY DEF Ordinals
<1>3. run[k].phase[u] \in Busy
  BY DEF Busy, ServicePhases
<1>4. i = j
  BY <1>1, <1>2, <1>3, SMTT(30) DEF Progress, RunsShaped, RunShaped, StagesInOrder
<1>5. Stages[i] = {o}
  BY <1>1, StageFacts, SMTT(30)
<1> QED BY <1>2, <1>4, <1>5

\* A fenced script writes the record of a step that was not final: the run that
\* holds the claim has neither ended nor been heard.
LEMMA ProgWrite ==
  ASSUME Lifecycle, Progress, NEW k \in Tokens, NEW o \in Ordinals, NEW phase, NEW arg,
         Advance(k, o, phase, arg), KindFits(phase, o), run[k].phase[o] \in Working,
         k = inst.runToken, NEW rec, steps' = [steps EXCEPT ![o] = rec], RecordFits(rec, o),
         rec.attempt >= steps[o].attempt, Kind[o] = "do" => rec.attempt > steps[o].attempt,
         disp' = disp, inst'.runToken = inst.runToken, inst'.generation = inst.generation,
         inst'.status # "completed", EventDelivery',
         StepLive(phase, arg, rec, Buffered', o), Buffered' = Buffered \/ Kind[o] # "do"
  PROVE ProgStep
<1>0. \/ run'[k].phase[o] = phase /\ run'[k].arg[o] = arg
      \/ run'[k].phase[o] = "idle" /\ run'[k].arg[o] = 0
  BY AdvanceStep
<1>1. run[k].phase[o] \in Busy
  BY ZenonT(40) DEF Working, DoPhases, WaitPhases, RecordPhases, Busy, ServicePhases
<1>2. steps[o].status \in {"none", "waiting"}
  BY ZenonT(40) DEF Progress, LiveRun, StepLive
<1>3. ~AllDone
  BY <1>2, ZenonT(40) DEF AllDone
<1>4. \A u \in Ordinals : steps'[u] = IF u = o THEN rec ELSE steps[u]
  BY Known
<1>5. RunsShaped'
  BY <1>1, ShapeAdvance, ZenonT(40) DEF Progress
<1>6. RecordsFit'
  BY <1>4 DEF Progress, RecordsFit
<1>7. CommitsTrue' /\ CompletedMeansDone'
  BY <1>3, ZenonT(40) DEF Progress, CommitsTrue, CompletedMeansDone
<1>8. ForwardStep
  BY <1>2, <1>4, ZenonT(40) DEF ForwardStep
<1>9. LiveRun'
  <2>1. StepLive("idle", 0, rec, Buffered', o)
    BY DEF StepLive, Working, DoPhases, WaitPhases, RecordPhases
  <2>2. run'[k].generation = inst'.generation
    BY AdvanceFields, ZenonT(40) DEF Progress, LiveRun
  <2>3. run'[k].outcome # "completed"
    BY <1>3, AdvanceFields, ZenonT(40) DEF Progress, LiveRun
  <2>4. ASSUME NEW u \in Ordinals
        PROVE StepLive(run'[k].phase[u], run'[k].arg[u], steps'[u], Buffered', u)
    <3>1. CASE u # o
      <4>1. /\ run'[k].phase[u] = run[k].phase[u] /\ run'[k].arg[u] = run[k].arg[u]
            /\ steps'[u] = steps[u]
        BY <1>4, <3>1, AdvanceFields, ZenonT(40)
      <4>2. StepLive(run[k].phase[u], run[k].arg[u], steps[u], Buffered, u)
        BY ZenonT(40) DEF Progress, LiveRun
      <4>3. CASE Buffered' = Buffered
        BY <4>1, <4>2, <4>3, ZenonT(40)
      <4>4. CASE Kind[o] # "do"
        <5>1. run[k].phase[u] # "take"
          BY <1>1, <3>1, <4>4, TakesAlone, ZenonT(40)
        <5> HIDE DEF Buffered
        <5> QED BY <4>1, <4>2, <5>1, ZenonT(40) DEF StepLive
      <4> QED BY <4>3, <4>4, ZenonT(40)
    <3>2. CASE u = o
      <4> HIDE DEF Buffered
      <4> QED BY <1>0, <1>4, <2>1, <3>2, SMTT(30)
    <3> QED BY <3>1, <3>2, ZenonT(40)
  <2> QED BY <2>2, <2>3, <2>4, ZenonT(40) DEF LiveRun
<1> QED BY <1>5, <1>6, <1>7, <1>8, <1>9, SMTT(30) DEF ProgStep, Progress

\* An event names the wait that took it, if any.
LEMMA EventBy ==
  ASSUME events \in Seq(EventRecord)
  PROVE \A n \in DOMAIN events : events[n].by # 0 => events[n].by \in Ordinals
<1> TAKE n \in DOMAIN events
<1>1. events[n] \in EventRecord
  OBVIOUS
<1> QED BY <1>1 DEF EventRecord

\* A record that took no event and takes none.
LEMMA EventsStay ==
  ASSUME Lifecycle, Progress, NEW o \in Ordinals, steps[o].status \in {"none", "waiting"},
         NEW rec, rec.event = 0, steps' = [steps EXCEPT ![o] = rec], events' = events
  PROVE EventDelivery' /\ Buffered' = Buffered
<1>1. steps[o].event = 0
  BY DEF Progress, RecordsFit, RecordFits
<1>2. \A u \in Ordinals : steps'[u].event = steps[u].event
  BY <1>1, Known
<1>3. Buffered' = Buffered
  BY DEF Buffered
<1>4. \A n \in DOMAIN events : events[n].by # 0 => events[n].by \in Ordinals
  BY Known, EventBy
<1> HIDE DEF Buffered
<1> QED BY <1>2, <1>3, <1>4 DEF Progress, EventDelivery

\* A wait takes the oldest buffered event.
LEMMA EventTaken ==
  ASSUME Lifecycle, Progress, NEW o \in Ordinals, steps[o].status \in {"none", "waiting"},
         NEW rec, NEW e \in Buffered, \A m \in Buffered : e <= m, rec.event = e,
         steps' = [steps EXCEPT ![o] = rec], events' = [events EXCEPT ![e].by = o]
  PROVE EventDelivery'
<1>1. steps[o].event = 0
  BY DEF Progress, RecordsFit, RecordFits
<1>2. \A u \in Ordinals : steps'[u] = IF u = o THEN rec ELSE steps[u]
  BY Known
<1>3. events \in Seq(EventRecord) /\ DOMAIN events = 1..Len(events) /\ e \in DOMAIN events
  BY Known DEF Buffered
<1>4. /\ DOMAIN events' = DOMAIN events
      /\ \A n \in DOMAIN events : n # e => events'[n] = events[n]
      /\ events'[e].by = o
  <2>1. events[e] \in EventRecord
    BY <1>3
  <2> QED BY <1>3, <2>1 DEF EventRecord
<1>5. o # 0 /\ e # 0
  BY <1>3, StageFacts
<1>6. Buffered' \subseteq Buffered \ {e} /\ Buffered \subseteq Nat
  BY <1>3, <1>4, <1>5 DEF Buffered
<1>7. events[e].by = 0
  BY DEF Buffered
<1>8. \A n \in DOMAIN events : events[n].by # 0 => events[n].by \in Ordinals
  BY <1>3, EventBy
<1> HIDE DEF Buffered
<1>9. ASSUME NEW u \in Ordinals, steps'[u].event # 0
      PROVE steps'[u].event \in DOMAIN events' /\ events'[steps'[u].event].by = u
  <2>1. CASE u = o
    BY <1>2, <1>3, <1>4, <2>1
  <2>2. CASE u # o
    <3>1. steps[u].event \in DOMAIN events /\ events[steps[u].event].by = u
      BY <1>2, <1>9, <2>2 DEF Progress, EventDelivery
    <3>2. u # 0
      BY StageFacts
    <3> QED BY <1>2, <1>4, <1>7, <2>2, <3>1, <3>2, SMTT(30)
  <2> QED BY <2>1, <2>2
<1>10. ASSUME NEW n \in DOMAIN events', events'[n].by # 0
       PROVE steps'[events'[n].by].event = n /\ \A m \in Buffered' : m > n
  <2>1. CASE n = e
    BY <1>2, <1>3, <1>4, <1>6, <2>1, SMTT(30)
  <2>2. CASE n # e
    <3>1. n \in DOMAIN events /\ events'[n] = events[n]
      BY <1>4, <2>2
    <3>2. steps[events[n].by].event = n /\ \A m \in Buffered : m > n
      BY <1>10, <3>1, ZenonT(30) DEF Progress, EventDelivery
    <3>3. events[n].by # o
      BY <1>1, <1>3, <3>1, <3>2, SMTT(30)
    <3> QED BY <1>2, <1>6, <1>8, <1>10, <3>1, <3>2, <3>3, SMTT(30)
  <2> QED BY <2>1, <2>2
<1> QED BY <1>9, <1>10 DEF EventDelivery

-----------------------------------------------------------------------------
(* The steps of a run. *)

\* What the run with the claim knows of a step under way.
LEMMA LiveStep ==
  ASSUME Lifecycle, Progress, NEW k \in Tokens, NEW o \in Ordinals, k = inst.runToken
  PROVE /\ StepLive(run[k].phase[o], run[k].arg[o], steps[o], Buffered, o)
        /\ RecordFits(steps[o], o) /\ steps[o] \in StepRecord /\ steps[o].attempt \in Int
<1>1. StepLive(run[k].phase[o], run[k].arg[o], steps[o], Buffered, o)
  BY DEF Progress, LiveRun
<1>2. RecordFits(steps[o], o)
  BY DEF Progress, RecordsFit
<1>3. steps[o] \in StepRecord /\ steps[o].attempt \in Int
  BY Known DEF StepRecord
<1> QED BY <1>1, <1>2, <1>3

\* A phase of a step is one of its kind.
LEMMA PhaseKind ==
  ASSUME Lifecycle, Progress, NEW k \in Tokens, NEW o \in Ordinals
  PROVE KindFits(run[k].phase[o], o) /\ Kind[o] \in {"do", "sleep", "wait"}
BY WorkflowAssumption DEF Progress, RunsShaped, RunShaped

\* A step that settles without a completion promises nothing.
LEMMA SettledPlain ==
  ASSUME NEW phase \in {"fail", "susp", "infra"}, NEW rec, NEW o
  PROVE /\ KindFits(phase, o) /\ phase \notin Busy
        /\ StepLive(phase, 0, rec, Buffered, o)
BY DEF KindFits, StepLive, Working, DoPhases, WaitPhases, RecordPhases, Busy, ServicePhases

\* A step under way settles without writing: its script was refused, or it
\* waits for a due time that is recorded.
LEMMA ProgSettle ==
  ASSUME Lifecycle, Progress, NEW k \in Tokens, NEW o \in Ordinals,
         NEW phase \in {"fail", "susp", "infra"}, Advance(k, o, phase, 0),
         run[k].phase[o] \in Busy, UNCHANGED <<steps, events, disp>>,
         inst'.runToken = inst.runToken, inst'.generation = inst.generation,
         inst'.status = "completed" => inst.status = "completed"
  PROVE ProgStep
<1>1. KindFits(phase, o) /\ StepLive(phase, 0, steps[o], Buffered, o)
  BY SettledPlain
<1> QED BY <1>1, ProgAdvance

\* The next stage is requested: the stages before it are done, and those after
\* it cannot have been started.
LEMMA ProgStartStage ==
  ASSUME Lifecycle, Progress, NEW k \in Tokens, StartStage(k) PROVE ProgStep
<1>1. PICK i \in DOMAIN Stages :
        /\ \A j \in 1..(i - 1) : \A o \in Stages[j] : run[k].phase[o] = "done"
        /\ \A o \in Stages[i] : run[k].phase[o] = "idle"
        /\ run' = [run EXCEPT
             ![k].phase = [o \in Ordinals |-> IF o \in Stages[i] THEN "sent" ELSE run[k].phase[o]],
             ![k].arg = [o \in Ordinals |-> IF o \in Stages[i] THEN DueOf(o) ELSE run[k].arg[o]]]
  BY SMTT(30) DEF StartStage
<1> DEFINE r == run[k]
           s == run'[k]
<1>2. /\ r.open /\ UNCHANGED <<inst, steps, events, disp>>
  BY DEF StartStage, RunStep, redisVars
<1>3. /\ s.open = r.open /\ s.generation = r.generation /\ s.outcome = r.outcome
      /\ \A o \in Ordinals : s.phase[o] = IF o \in Stages[i] THEN "sent" ELSE r.phase[o]
      /\ \A o \in Ordinals : o \notin Stages[i] => s.arg[o] = r.arg[o]
      /\ \A j \in Tokens : j # k => run'[j] = run[j]
  <2> DEFINE ph == [o \in Ordinals |-> IF o \in Stages[i] THEN "sent" ELSE run[k].phase[o]]
             ar == [o \in Ordinals |-> IF o \in Stages[i] THEN DueOf(o) ELSE run[k].arg[o]]
             q == [run[k] EXCEPT !.phase = ph, !.arg = ar]
  <2>1. run' = [run EXCEPT ![k] = q]
    BY <1>1, Zenon
  <2>2. run[k] \in RunRecord
    BY Known
  <2>3. /\ \A o \in Ordinals : ph[o] = IF o \in Stages[i] THEN "sent" ELSE run[k].phase[o]
        /\ \A o \in Ordinals : o \notin Stages[i] => ar[o] = run[k].arg[o]
    OBVIOUS
  <2> HIDE DEF ph, ar
  <2>4. /\ q.open = run[k].open /\ q.generation = run[k].generation
        /\ q.outcome = run[k].outcome /\ q.phase = ph /\ q.arg = ar
    BY <2>2 DEF RunRecord
  <2> HIDE DEF q
  <2>5. run'[k] = q /\ \A j \in Tokens : j # k => run'[j] = run[j]
    BY <2>1, Known
  <2> QED BY <2>3, <2>4, <2>5
<1>4. DOMAIN Stages \subseteq Nat /\ \A j \in DOMAIN Stages : j < i => j \in 1..(i - 1)
  <2>1. Stages \in Seq(SUBSET (Nat \ {0}))
    BY WorkflowAssumption
  <2>2. DOMAIN Stages = 1..Len(Stages) /\ Len(Stages) \in Nat
    BY <2>1
  <2> QED BY <2>2
<1>5. RunShaped(r)
  BY DEF Progress, RunsShaped
<1>6. "idle" \notin Busy /\ "done" \notin Busy /\ \A o : KindFits("sent", o)
  BY DEF Busy, ServicePhases, KindFits, DoPhases, WaitPhases, RecordPhases
<1>7. \A o \in Stages[i] : r.phase[o] = "idle"
  BY <1>1
<1>8. \A j \in DOMAIN Stages : j < i => \A o \in Stages[j] : r.phase[o] = "done"
  BY <1>1, <1>4
<1> HIDE DEF r, s
<1>9. RunShaped(s)
  <2>1. \A o \in Ordinals : KindFits(s.phase[o], o)
    BY <1>3, <1>5, <1>6, SMTT(30) DEF RunShaped
  <2>2. ASSUME NEW a \in DOMAIN Stages, NEW b \in DOMAIN Stages,
               NEW x \in Stages[a], NEW u \in Stages[b]
        PROVE /\ s.open /\ a < b /\ s.phase[u] # "idle" => s.phase[x] = "done"
              /\ a # b => ~(s.phase[x] \in Busy /\ s.phase[u] \in Busy)
    <3>1. /\ r.open /\ a < b /\ r.phase[u] # "idle" => r.phase[x] = "done"
          /\ r.open /\ b < a /\ r.phase[x] # "idle" => r.phase[u] = "done"
          /\ a # b => ~(r.phase[x] \in Busy /\ r.phase[u] \in Busy)
      BY <1>5, SMTT(30) DEF RunShaped, StagesInOrder
    <3>2. x \in Ordinals /\ u \in Ordinals
      BY DEF Ordinals
    <3>3. (a # i => x \notin Stages[i]) /\ (b # i => u \notin Stages[i])
      BY StagesApart
    <3>4. a < b \/ a = b \/ b < a
      BY <1>4
    <3>5. (a < b => a # b) /\ (b < a => a # b)
      BY <1>4
    <3>6. (a = i => r.phase[x] = "idle") /\ (b = i => r.phase[u] = "idle")
      BY <1>7
    <3>7. (a < i => r.phase[x] = "done") /\ (b < i => r.phase[u] = "done")
      BY <1>8
    <3>8. /\ s.phase[x] = IF a = i THEN "sent" ELSE r.phase[x]
          /\ s.phase[u] = IF b = i THEN "sent" ELSE r.phase[u]
      BY <1>3, <3>2, <3>3, SMTT(30)
    <3>9. r.open
      BY <1>2 DEF r
    <3> QED BY <1>6, <3>1, <3>4, <3>5, <3>6, <3>7, <3>8, <3>9, ZenonT(30)
  <2> QED BY <2>1, <2>2 DEF RunShaped, StagesInOrder
<1>10. RunsShaped'
  BY <1>3, <1>9, SMTT(30) DEF Progress, RunsShaped, s
<1>11. LiveRun'
  <2>1. Buffered' = Buffered /\ AllDone' = AllDone
    BY <1>2, SMTT(30) DEF Buffered, AllDone
  <2> HIDE DEF Buffered, AllDone
  <2> SUFFICES ASSUME NEW j \in Tokens, j = inst.runToken
               PROVE /\ run'[j].generation = inst.generation
                     /\ run'[j].outcome = "completed" => AllDone
                     /\ \A u \in Ordinals :
                          StepLive(run'[j].phase[u], run'[j].arg[u], steps[u], Buffered, u)
    BY <1>2, <2>1 DEF LiveRun
  <2>2. /\ run[j].generation = inst.generation /\ (run[j].outcome = "completed" => AllDone)
        /\ \A u \in Ordinals : StepLive(run[j].phase[u], run[j].arg[u], steps[u], Buffered, u)
    BY ZenonT(40) DEF Progress, LiveRun
  <2>3. CASE j # k
    BY <1>3, <2>2, <2>3, ZenonT(40)
  <2>4. CASE j = k
    <3>1. \A u, a : StepLive("sent", a, steps[u], Buffered, u)
      BY DEF StepLive, Working, DoPhases, WaitPhases, RecordPhases
    <3>2. \A u \in Ordinals : StepLive(s.phase[u], s.arg[u], steps[u], Buffered, u)
      BY <1>3, <2>2, <2>4, <3>1, SMTT(30) DEF r
    <3> QED BY <1>3, <2>2, <2>4, <3>2, SMTT(30) DEF r, s
  <2> QED BY <2>3, <2>4, SMTT(30)
<1>12. CommitsTrue'
  BY <1>2, CommitsFrame
<1>13. RecordsFit' /\ EventDelivery' /\ CompletedMeansDone' /\ ForwardStep
  BY <1>2, ZenonT(40) DEF Progress, RecordsFit, EventDelivery, Buffered, CompletedMeansDone, ForwardStep
<1> QED BY <1>10, <1>11, <1>12, <1>13, SMTT(30) DEF ProgStep, Progress

\* The read of a step's record: a record that is not final lets its step go on.
LEMMA ProgReadStep ==
  ASSUME Lifecycle, Progress, NEW k \in Tokens, NEW o \in Ordinals, ReadStep(k, o) PROVE ProgStep
<1>1. /\ run[k].phase[o] = "sent" /\ UNCHANGED <<inst, steps, events, disp>>
  BY DEF ReadStep, RunStep, redisVars
<1>2. run[k].phase[o] \in Busy
  BY <1>1, SMTT(30) DEF Busy, ServicePhases
<1> DEFINE rec == steps[o]
           at == IF rec.status = "none" THEN run[k].arg[o] ELSE rec.due
<1>3. PICK t \in Times :
        CASE ~StepFence(k, t) \/ rec.status = "failed" -> Advance(k, o, "fail", 0)
          [] StepFence(k, t) /\ rec.status = "completed" -> Advance(k, o, "done", 0)
          [] OTHER ->
               CASE Kind[o] = "wait" ->
                      Advance(k, o, IF at # 0 /\ at <= t THEN "findLate" ELSE "find", at)
                 [] Kind[o] = "sleep" ->
                      Advance(k, o, IF at > t THEN "register" ELSE "take",
                              IF at > t THEN at ELSE 0)
                 [] Kind[o] = "do" /\ rec.status = "waiting" /\ at > t ->
                      Advance(k, o, "restore", at)
                 [] OTHER -> Advance(k, o, "exec", rec.attempt + 1)
  BY <1>1 DEF ReadStep
<1>4. rec.status \in {"none", "waiting", "completed", "failed"} /\ Kind[o] \in {"do", "sleep", "wait"}
  BY Known, PhaseKind DEF StepRecord
<1> HIDE DEF at
<1>5. \/ Advance(k, o, "fail", 0)
      \/ rec.status = "completed" /\ Advance(k, o, "done", 0)
      \/ /\ rec.status \in {"none", "waiting"}
         /\ \/ Kind[o] = "wait" /\ \E phase \in {"find", "findLate"} : Advance(k, o, phase, at)
            \/ Kind[o] = "sleep" /\ Advance(k, o, "register", at)
            \/ Kind[o] = "sleep" /\ Advance(k, o, "take", 0)
            \/ Kind[o] = "do" /\ Advance(k, o, "restore", at)
            \/ Kind[o] = "do" /\ Advance(k, o, "exec", rec.attempt + 1)
  BY <1>3, <1>4
<1>6. CASE Advance(k, o, "fail", 0)
  BY <1>1, <1>2, <1>6, ProgSettle, SMTT(30)
<1>7. CASE rec.status = "completed" /\ Advance(k, o, "done", 0)
  <2>1. KindFits("done", o) /\ StepLive("done", 0, steps[o], Buffered, o)
    BY <1>7, SMTT(30) DEF KindFits, StepLive, Working, DoPhases, WaitPhases, RecordPhases
  <2> QED BY <1>1, <1>2, <1>7, <2>1, ProgAdvance, SMTT(30)
<1>8. CASE \E phase \in {"find", "findLate"} :
             rec.status \in {"none", "waiting"} /\ Kind[o] = "wait" /\ Advance(k, o, phase, at)
  <2>1. PICK phase \in {"find", "findLate"} : Advance(k, o, phase, at)
    BY <1>8
  <2>2. KindFits(phase, o) /\ StepLive(phase, at, steps[o], Buffered, o)
    BY <1>8, SMTT(30) DEF KindFits, StepLive, Working, DoPhases, WaitPhases, RecordPhases
  <2> QED BY <1>1, <1>2, <2>1, <2>2, ProgAdvance, SMTT(30)
<1>9. CASE rec.status \in {"none", "waiting"} /\ Kind[o] = "sleep" /\ Advance(k, o, "register", at)
  <2>1. KindFits("register", o) /\ StepLive("register", at, steps[o], Buffered, o)
    BY <1>9, SMTT(30) DEF KindFits, StepLive, Working, DoPhases, WaitPhases, RecordPhases
  <2> QED BY <1>1, <1>2, <1>9, <2>1, ProgAdvance, SMTT(30)
<1>10. CASE rec.status \in {"none", "waiting"} /\ Kind[o] = "sleep" /\ Advance(k, o, "take", 0)
  <2>1. KindFits("take", o) /\ StepLive("take", 0, steps[o], Buffered, o)
    BY <1>10, SMTT(30) DEF KindFits, StepLive, Working, DoPhases, WaitPhases, RecordPhases
  <2> QED BY <1>1, <1>2, <1>10, <2>1, ProgAdvance, SMTT(30)
<1>11. CASE rec.status \in {"none", "waiting"} /\ Kind[o] = "do" /\ Advance(k, o, "restore", at)
  <2>1. KindFits("restore", o) /\ StepLive("restore", at, steps[o], Buffered, o)
    BY <1>11, SMTT(30) DEF KindFits, StepLive, Working, DoPhases, WaitPhases, RecordPhases
  <2> QED BY <1>1, <1>2, <1>11, <2>1, ProgAdvance, SMTT(30)
<1>12. CASE /\ rec.status \in {"none", "waiting"} /\ Kind[o] = "do"
            /\ Advance(k, o, "exec", rec.attempt + 1)
  <2>1. KindFits("exec", o) /\ StepLive("exec", rec.attempt + 1, steps[o], Buffered, o)
    BY <1>12 DEF KindFits, StepLive, Working, DoPhases, WaitPhases, RecordPhases
  <2> QED BY <1>1, <1>2, <1>12, <2>1, ProgAdvance, SMTT(30)
<1> QED BY <1>5, <1>6, <1>7, <1>8, <1>9, <1>10, <1>11, <1>12, Zenon

\* RESTORE_WAITING_DUE changes no record.
LEMMA ProgRestoreWaitingDue ==
  ASSUME Lifecycle, Progress, NEW k \in Tokens, NEW o \in Ordinals, RestoreWaitingDue(k, o)
  PROVE ProgStep
<1>1. /\ run[k].phase[o] = "restore" /\ UNCHANGED <<steps, events, disp>>
  BY DEF RestoreWaitingDue, RunStep
<1>2. run[k].phase[o] \in Busy
  BY <1>1 DEF Busy, ServicePhases
<1>3. inst' = inst \/ inst' = [inst EXCEPT !.status = "waiting"]
  BY DEF RestoreWaitingDue
<1>4. /\ inst'.runToken = inst.runToken /\ inst'.generation = inst.generation
      /\ inst'.status = "completed" => inst.status = "completed"
  BY <1>3, Known DEF InstRecord
<1>5. \E phase \in {"susp", "fail"} : Advance(k, o, phase, 0)
  BY DEF RestoreWaitingDue
<1> QED BY <1>1, <1>2, <1>4, <1>5, ProgSettle, SMTT(30)

\* The callback of a step counts the attempt it was started with.
LEMMA ProgExecute ==
  ASSUME Lifecycle, Progress, NEW k \in Tokens, NEW o \in Ordinals, Execute(k, o) PROVE ProgStep
<1>1. run[k].phase[o] = "exec" /\ UNCHANGED <<inst, steps, events, disp>>
  BY Zenon DEF Execute, RunStep, redisVars
<1>2. run[k].phase[o] \in Busy
  BY <1>1, SMTT(30) DEF Busy
<1>3. PICK phase \in {"ok", "err", "fatal"} : Advance(k, o, phase, run[k].arg[o])
  BY DEF Execute
<1>4. Kind[o] = "do"
  BY <1>1, PhaseKind DEF KindFits, DoPhases
<1>5. KindFits(phase, o)
  BY <1>4, SMTT(30) DEF KindFits, DoPhases, WaitPhases, RecordPhases
<1>6. k = inst.runToken => StepLive("exec", run[k].arg[o], steps[o], Buffered, o)
  BY <1>1, LiveStep, SMTT(30)
<1>7. k = inst.runToken => StepLive(phase, run[k].arg[o], steps[o], Buffered, o)
  BY <1>6 DEF StepLive, Working, DoPhases, WaitPhases, RecordPhases
<1> QED BY <1>1, <1>2, <1>3, <1>5, <1>7, ProgAdvance, SMTT(30)

\* find_buffered_event finds the oldest event.
LEMMA ProgFindBufferedEvent ==
  ASSUME Lifecycle, Progress, NEW k \in Tokens, NEW o \in Ordinals, FindBufferedEvent(k, o)
  PROVE ProgStep
<1>1. /\ run[k].phase[o] \in {"find", "findLate", "refind"}
      /\ UNCHANGED <<inst, steps, events, disp>>
  BY DEF FindBufferedEvent, RunStep, redisVars
<1>2. run[k].phase[o] \in Busy
  BY <1>1 DEF Busy, ServicePhases
<1>3. Kind[o] = "wait"
  BY <1>1, PhaseKind, SMTT(30) DEF KindFits, WaitPhases
<1>4. k = inst.runToken => steps[o].status \in {"none", "waiting"}
  BY <1>1, LiveStep, ZenonT(30) DEF StepLive, Working, WaitPhases
<1>5. Buffered # {} => NextEvent \in Buffered /\ \A m \in Buffered : NextEvent <= m
  BY Known, NextEventLeast, SMTT(30)
<1> HIDE DEF Buffered, NextEvent
<1>6. \/ Buffered # {} /\ Advance(k, o, "take", NextEvent)
      \/ Advance(k, o, "take", 0) \/ Advance(k, o, "register", run[k].arg[o])
      \/ Advance(k, o, "susp", 0)
  BY <1>1, SMTT(30) DEF FindBufferedEvent
<1>7. CASE Buffered # {} /\ Advance(k, o, "take", NextEvent)
  <2>1. KindFits("take", o)
    BY <1>3 DEF KindFits, DoPhases, WaitPhases, RecordPhases
  <2>2. k = inst.runToken => StepLive("take", NextEvent, steps[o], Buffered, o)
    BY <1>3, <1>4, <1>5, <1>7, SMTT(30) DEF StepLive
  <2> QED BY <1>1, <1>2, <1>7, <2>1, <2>2, ProgAdvance, SMTT(30)
<1>8. CASE Advance(k, o, "take", 0)
  <2>1. KindFits("take", o)
    BY <1>3 DEF KindFits, DoPhases, WaitPhases, RecordPhases
  <2>2. k = inst.runToken => StepLive("take", 0, steps[o], Buffered, o)
    BY <1>4, SMTT(30) DEF StepLive
  <2> QED BY <1>1, <1>2, <1>8, <2>1, <2>2, ProgAdvance, SMTT(30)
<1>9. CASE Advance(k, o, "register", run[k].arg[o])
  <2>1. KindFits("register", o)
    BY <1>3, SMTT(30) DEF KindFits, DoPhases, WaitPhases, RecordPhases
  <2>2. k = inst.runToken => StepLive("register", run[k].arg[o], steps[o], Buffered, o)
    BY <1>4, SMTT(30) DEF StepLive
  <2> QED BY <1>1, <1>2, <1>9, <2>1, <2>2, ProgAdvance, SMTT(30)
<1>10. CASE Advance(k, o, "susp", 0)
  BY <1>1, <1>2, <1>10, ProgSettle, SMTT(30)
<1> QED BY <1>6, <1>7, <1>8, <1>9, <1>10, SMTT(30)

\* A step's request or reply is lost.
LEMMA ProgLoseStep ==
  ASSUME Lifecycle, Progress, NEW k \in Tokens, NEW o \in Ordinals, LoseStep(k, o) PROVE ProgStep
<1>1. /\ Advance(k, o, "infra", 0) /\ UNCHANGED <<inst, steps, events, disp>>
  BY Zenon DEF LoseStep, Fault, redisVars
<1>2. KindFits("infra", o) /\ "infra" \notin Busy /\ StepLive("infra", 0, steps[o], Buffered, o)
  BY SettledPlain
<1>3. \/ run[k].phase[o] \in Busy
      \/ run[k].phase[o] # "idle" /\ LaterIdle(run[k], o)
  BY DEF LoseStep, Busy, LaterIdle
<1> QED BY <1>1, <1>2, <1>3, ProgAdvance, ZenonT(30)

\* What the fence of a step script establishes.
LEMMA FenceHolds ==
  ASSUME Lifecycle, NEW k \in Tokens, NEW t, StepFence(k, t)
  PROVE /\ k = inst.runToken /\ inst.status \in {"running", "waiting"}
        /\ inst.generation = run[k].generation
BY DEF StepFence, Claimed

\* COMMIT_STEP_SUCCESS records the attempt after the last one recorded.
LEMMA ProgCommitStepSuccess ==
  ASSUME Lifecycle, Progress, NEW k \in Tokens, NEW o \in Ordinals, CommitStepSuccess(k, o)
  PROVE ProgStep
<1>1. run[k].phase[o] = "ok" /\ UNCHANGED <<inst, events, disp>>
  BY DEF CommitStepSuccess, RunStep
<1>2. run[k].phase[o] \in Busy /\ run[k].phase[o] \in Working
  BY <1>1 DEF Busy, ServicePhases, Working, DoPhases
<1>3. CASE UNCHANGED steps /\ Advance(k, o, "fail", 0)
  BY <1>1, <1>2, <1>3, ProgSettle
<1>4. CASE \E t \in Times :
             /\ StepFence(k, t) /\ Advance(k, o, "done", 0)
             /\ steps' = [steps EXCEPT ![o] =
                  [NoStep EXCEPT !.status = "completed", !.attempt = run[k].arg[o]]]
  <2> DEFINE rec == [NoStep EXCEPT !.status = "completed", !.attempt = run[k].arg[o]]
  <2>1. /\ k = inst.runToken /\ inst.status \in {"running", "waiting"}
        /\ steps' = [steps EXCEPT ![o] = rec] /\ Advance(k, o, "done", 0)
    BY <1>4, FenceHolds
  <2>2. /\ rec.status = "completed" /\ rec.attempt = run[k].arg[o] /\ rec.event = 0
    BY DEF NoStep
  <2> HIDE DEF rec
  <2>3. /\ run[k].arg[o] = steps[o].attempt + 1 /\ steps[o].status \in {"none", "waiting"}
        /\ RecordFits(steps[o], o) /\ steps[o].attempt \in Int
    BY <1>1, <1>2, <2>1, LiveStep, ZenonT(40) DEF StepLive
  <2>4. Kind[o] = "do" /\ RetryLimit \in Nat
    BY <1>1, PhaseKind, WorkflowAssumption, SMTT(30) DEF KindFits, DoPhases
  <2>5. /\ RecordFits(rec, o) /\ rec.attempt > steps[o].attempt /\ rec.attempt >= steps[o].attempt
    BY <2>2, <2>3, <2>4 DEF RecordFits
  <2>6. EventDelivery' /\ Buffered' = Buffered
    BY <1>1, <2>1, <2>2, <2>3, EventsStay, ZenonT(40)
  <2>7. KindFits("done", o) /\ StepLive("done", 0, rec, Buffered', o)
    BY <2>2 DEF KindFits, StepLive, Working, DoPhases, WaitPhases, RecordPhases
  <2>8. inst'.status # "completed"
    BY <1>1, <2>1
  <2> HIDE DEF Buffered
  <2> QED BY <1>1, <1>2, <2>1, <2>5, <2>6, <2>7, <2>8, ProgWrite, ZenonT(30)
<1> QED BY <1>3, <1>4 DEF CommitStepSuccess

\* COMMIT_STEP_ERROR records the attempt, and leaves one more unless it was the
\* last.
LEMMA ProgCommitStepError ==
  ASSUME Lifecycle, Progress, NEW k \in Tokens, NEW o \in Ordinals, CommitStepError(k, o)
  PROVE ProgStep
<1>1. run[k].phase[o] \in {"err", "fatal"} /\ UNCHANGED <<events, disp>>
  BY DEF CommitStepError, RunStep
<1>2. run[k].phase[o] \in Busy /\ run[k].phase[o] \in Working
  BY <1>1 DEF Busy, ServicePhases, Working, DoPhases
<1>3. CASE UNCHANGED <<inst, steps>> /\ Advance(k, o, "fail", 0)
  BY <1>1, <1>2, <1>3, ProgSettle, ZenonT(40)
<1> DEFINE last == run[k].phase[o] = "fatal" \/ Exhausted(run[k].arg[o])
<1>4. CASE \E t, at :
             /\ StepFence(k, t)
             /\ steps' = [steps EXCEPT ![o] =
                  [NoStep EXCEPT !.status = IF last THEN "failed" ELSE "waiting",
                                 !.attempt = run[k].arg[o], !.due = at]]
             /\ inst' \in {inst, [inst EXCEPT !.status = "waiting"]}
             /\ Advance(k, o, IF last THEN "fail" ELSE "susp", 0)
  <2>1. PICK t, at :
             /\ StepFence(k, t)
             /\ steps' = [steps EXCEPT ![o] =
                  [NoStep EXCEPT !.status = IF last THEN "failed" ELSE "waiting",
                                 !.attempt = run[k].arg[o], !.due = at]]
             /\ inst' \in {inst, [inst EXCEPT !.status = "waiting"]}
             /\ Advance(k, o, IF last THEN "fail" ELSE "susp", 0)
    BY <1>4, Zenon
  <2> DEFINE status == IF last THEN "failed" ELSE "waiting"
             phase == IF last THEN "fail" ELSE "susp"
             rec == [NoStep EXCEPT !.status = status, !.attempt = run[k].arg[o], !.due = at]
  <2>2. /\ k = inst.runToken /\ inst.status \in {"running", "waiting"}
        /\ steps' = [steps EXCEPT ![o] = rec] /\ Advance(k, o, phase, 0)
    BY <2>1, FenceHolds
  <2>3. status \in {"failed", "waiting"} /\ phase \in {"fail", "susp"}
    BY ZenonT(40)
  <2>4. status = "waiting" => ~(run[k].arg[o] >= RetryLimit)
    BY DEF Exhausted
  <2> HIDE DEF status, phase
  <2>5. rec.status = status /\ rec.attempt = run[k].arg[o] /\ rec.event = 0
    BY DEF NoStep
  <2> HIDE DEF rec
  <2>6. /\ run[k].arg[o] = steps[o].attempt + 1 /\ steps[o].status \in {"none", "waiting"}
        /\ RecordFits(steps[o], o) /\ steps[o].attempt \in Int
    BY <1>1, <1>2, <2>2, LiveStep, ZenonT(40) DEF StepLive
  <2>7. Kind[o] = "do" /\ RetryLimit \in Nat
    BY <1>1, PhaseKind, WorkflowAssumption, Zenon DEF KindFits, DoPhases
  <2>8. /\ RecordFits(rec, o) /\ rec.attempt > steps[o].attempt /\ rec.attempt >= steps[o].attempt
    BY <2>3, <2>4, <2>5, <2>6, <2>7 DEF RecordFits
  <2>9. EventDelivery' /\ Buffered' = Buffered
    BY <1>1, <2>2, <2>5, <2>6, EventsStay, ZenonT(30)
  <2>10. KindFits(phase, o) /\ StepLive(phase, 0, rec, Buffered, o)
    BY <2>3, SettledPlain
  <2>11. /\ inst'.status # "completed" /\ inst'.runToken = inst.runToken
         /\ inst'.generation = inst.generation
    BY <2>1, <2>2, Known DEF InstRecord
  <2> HIDE DEF Buffered
  <2> QED BY <1>1, <1>2, <2>2, <2>8, <2>9, <2>10, <2>11, ProgWrite, ZenonT(30)
<1> HIDE DEF last
<1>5. QED
  <2>1. PICK t \in Times :
          LET retryAt == IF last THEN 0 ELSE RetryDue(t, run[k].arg[o])
          IN  \/ /\ StepFence(k, t)
                 /\ steps' = [steps EXCEPT ![o] =
                      [NoStep EXCEPT !.status = IF last THEN "failed" ELSE "waiting",
                                     !.attempt = run[k].arg[o], !.due = retryAt]]
                 /\ IF last
                    THEN UNCHANGED <<inst, ready, active, due>>
                    ELSE /\ inst' = [inst EXCEPT !.status = "waiting"]
                         /\ due' = retryAt /\ RemoveReady
                 /\ Advance(k, o, IF last THEN "fail" ELSE "susp", 0)
              \/ /\ ~StepFence(k, t) \/ Oversize
                 /\ Advance(k, o, "fail", 0)
                 /\ UNCHANGED <<inst, steps, ready, active, due>>
    BY Zenon DEF CommitStepError, last
  <2> QED BY <1>3, <1>4, <2>1, ZenonT(40)

\* What COMMIT_STEP_RECORD leaves of the instance when it registers a sleep or a
\* wait.
LEMMA WaitRecorded ==
  ASSUME Lifecycle, NEW k \in Tokens, NEW o \in Ordinals, NEW at,
         CommitStepRecord(k, o, "waiting", at, 0)
  PROVE /\ inst'.status # "completed" /\ inst'.runToken = inst.runToken
        /\ inst'.generation = inst.generation
        /\ events' = events
        /\ \E rec : /\ steps' = [steps EXCEPT ![o] = rec] /\ rec.attempt = 1 /\ rec.event = 0
                    /\ rec.status = "waiting"
<1>1. inst \in InstRecord
  BY Known
<1> DEFINE w == "waiting" = "waiting" /\ Kind[o] = "wait"
           rec == [status |-> "waiting", attempt |-> 1, due |-> at, event |-> 0]
<1>2. inst' = [inst EXCEPT !.status = "waiting", !.waitPrefix = w]
  BY DEF CommitStepRecord
<1>3. steps' = [steps EXCEPT ![o] = rec]
  BY DEF CommitStepRecord
<1>4. rec.attempt = 1 /\ rec.event = 0 /\ rec.status = "waiting"
  OBVIOUS
<1> HIDE DEF w, rec
<1>5. /\ inst'.status = "waiting" /\ inst'.runToken = inst.runToken
      /\ inst'.generation = inst.generation
  BY <1>1, <1>2 DEF InstRecord
<1>6. events' = events
  BY DEF CommitStepRecord
<1> QED BY <1>3, <1>4, <1>5, <1>6, ZenonT(30)

\* What it leaves when it completes one.
LEMMA EndRecorded ==
  ASSUME Lifecycle, NEW k \in Tokens, NEW o \in Ordinals, NEW at, NEW event,
         CommitStepRecord(k, o, "running", at, event)
  PROVE /\ inst'.status # "completed" /\ inst'.runToken = inst.runToken
        /\ inst'.generation = inst.generation
        /\ events' = IF event = 0 THEN events ELSE [events EXCEPT ![event].by = o]
        /\ \E rec : /\ steps' = [steps EXCEPT ![o] = rec] /\ rec.attempt = 1 /\ rec.event = event
                    /\ rec.status = "completed"
<1>1. inst \in InstRecord
  BY Known
<1> DEFINE w == "running" = "waiting" /\ Kind[o] = "wait"
           rec == [status |-> "completed", attempt |-> 1, due |-> at, event |-> event]
<1>2. inst' = [inst EXCEPT !.status = "running", !.waitPrefix = w]
  BY DEF CommitStepRecord
<1>3. steps' = [steps EXCEPT ![o] = rec]
  BY DEF CommitStepRecord
<1>4. rec.attempt = 1 /\ rec.event = event /\ rec.status = "completed"
  OBVIOUS
<1> HIDE DEF w, rec
<1>5. /\ inst'.status = "running" /\ inst'.runToken = inst.runToken
      /\ inst'.generation = inst.generation
  BY <1>1, <1>2 DEF InstRecord
<1>6. events' = IF event = 0 THEN events ELSE [events EXCEPT ![event].by = o]
  BY SMTT(30) DEF CommitStepRecord
<1> QED BY <1>3, <1>4, <1>5, <1>6, ZenonT(30)

\* A sleep or a wait is recorded as waiting.
LEMMA ProgRegisterStep ==
  ASSUME Lifecycle, Progress, NEW k \in Tokens, NEW o \in Ordinals, RegisterStep(k, o)
  PROVE ProgStep
<1>1. run[k].phase[o] = "register" /\ disp' = disp
  BY DEF RegisterStep, RunStep
<1>2. run[k].phase[o] \in Busy /\ run[k].phase[o] \in Working
  BY <1>1, SMTT(30) DEF Busy, ServicePhases, Working, RecordPhases
<1>3. CASE UNCHANGED <<inst, steps, events>> /\ Advance(k, o, "fail", 0)
  BY <1>1, <1>2, <1>3, ProgSettle, SMTT(30)
<1>4. CASE \E t \in Times :
             /\ StepFence(k, t) /\ CommitStepRecord(k, o, "waiting", run[k].arg[o], 0)
             /\ Advance(k, o, IF Kind[o] = "wait" THEN "refind" ELSE "susp", 0)
  <2> DEFINE phase == IF Kind[o] = "wait" THEN "refind" ELSE "susp"
  <2>1. /\ k = inst.runToken /\ Advance(k, o, phase, 0)
        /\ CommitStepRecord(k, o, "waiting", run[k].arg[o], 0)
    BY <1>4, FenceHolds, Zenon
  <2>2. phase \in {"refind", "susp"} /\ (phase = "refind" => Kind[o] = "wait")
    OBVIOUS
  <2> HIDE DEF phase
  <2>3. /\ inst'.status # "completed" /\ inst'.runToken = inst.runToken
        /\ inst'.generation = inst.generation /\ events' = events
    BY <2>1, WaitRecorded, ZenonT(40)
  <2>4. PICK rec : /\ steps' = [steps EXCEPT ![o] = rec] /\ rec.attempt = 1 /\ rec.event = 0
                   /\ rec.status = "waiting"
    BY <2>1, WaitRecorded
  <2>5. /\ steps[o].status \in {"none", "waiting"} /\ RecordFits(steps[o], o)
        /\ steps[o].attempt \in Int
    BY <1>2, <2>1, LiveStep, ZenonT(30) DEF StepLive
  <2>6. Kind[o] # "do" /\ RetryLimit \in Nat /\ RetryLimit > 0
    <3>1. KindFits("register", o)
      BY <1>1, PhaseKind, SMTT(30)
    <3>2. {RetryLimit, Lease, PendingTTL} \subseteq Nat \ {0}
      BY WorkflowAssumption
    <3> QED BY <3>1, <3>2 DEF KindFits, RecordPhases
  <2>7. RecordFits(rec, o) /\ rec.attempt >= steps[o].attempt
    BY <2>4, <2>5, <2>6 DEF RecordFits
  <2>8. EventDelivery' /\ Buffered' = Buffered
    BY <2>3, <2>4, <2>5, EventsStay, ZenonT(40)
  <2>9. KindFits(phase, o) /\ StepLive(phase, 0, rec, Buffered, o)
    BY <2>2, <2>4, SMTT(30) DEF KindFits, StepLive, Working, DoPhases, WaitPhases, RecordPhases
  <2> HIDE DEF Buffered
  <2> QED BY <1>1, <1>2, <2>1, <2>3, <2>4, <2>6, <2>7, <2>8, <2>9, ProgWrite, ZenonT(30)
<1> QED BY <1>3, <1>4, SMTT(30) DEF RegisterStep

\* A sleep or a wait completes; a wait with the event it found, which is still
\* the oldest one because no other step of the run takes any.
LEMMA ProgCompleteStep ==
  ASSUME Lifecycle, Progress, NEW k \in Tokens, NEW o \in Ordinals, CompleteStep(k, o)
  PROVE ProgStep
<1>1. run[k].phase[o] = "take" /\ disp' = disp
  BY DEF CompleteStep, RunStep
<1>2. run[k].phase[o] \in Busy /\ run[k].phase[o] \in Working
  BY <1>1 DEF Busy, ServicePhases, Working, RecordPhases
<1>3. CASE UNCHANGED <<inst, steps, events>> /\ Advance(k, o, "fail", 0)
  BY <1>1, <1>2, <1>3, ProgSettle, SMTT(30)
<1>4. CASE \E t \in Times :
             /\ StepFence(k, t) /\ CommitStepRecord(k, o, "running", 0, run[k].arg[o])
             /\ Advance(k, o, "done", 0)
  <2> DEFINE e == run[k].arg[o]
  <2>1. /\ k = inst.runToken /\ Advance(k, o, "done", 0) /\ CommitStepRecord(k, o, "running", 0, e)
    BY <1>4, FenceHolds
  <2>2. /\ steps[o].status \in {"none", "waiting"} /\ RecordFits(steps[o], o)
        /\ steps[o].attempt \in Int
        /\ e # 0 => e \in Buffered /\ \A m \in Buffered : e <= m
    BY <1>1, <1>2, <2>1, LiveStep, ZenonT(30) DEF StepLive
  <2> HIDE DEF e, Buffered
  <2>3. /\ inst'.status # "completed" /\ inst'.runToken = inst.runToken
        /\ inst'.generation = inst.generation
        /\ events' = IF e = 0 THEN events ELSE [events EXCEPT ![e].by = o]
    BY <2>1, EndRecorded
  <2>4. PICK rec : /\ steps' = [steps EXCEPT ![o] = rec] /\ rec.attempt = 1 /\ rec.event = e
                   /\ rec.status = "completed"
    BY <2>1, EndRecorded
  <2>5. Kind[o] # "do" /\ RetryLimit \in Nat /\ RetryLimit > 0
    <3>1. KindFits("take", o)
      BY <1>1, PhaseKind, SMTT(30)
    <3>2. {RetryLimit, Lease, PendingTTL} \subseteq Nat \ {0}
      BY WorkflowAssumption
    <3> QED BY <3>1, <3>2 DEF KindFits, RecordPhases
  <2>6. RecordFits(rec, o) /\ rec.attempt >= steps[o].attempt
    BY <2>2, <2>4, <2>5, SMTT(30) DEF RecordFits
  <2>7. EventDelivery'
    <3>1. CASE e = 0
      BY <2>2, <2>3, <2>4, <3>1, EventsStay, ZenonT(30)
    <3>2. CASE e # 0
      BY <2>2, <2>3, <2>4, <3>2, EventTaken, ZenonT(30)
    <3> QED BY <3>1, <3>2
  <2>8. KindFits("done", o) /\ StepLive("done", 0, rec, Buffered', o)
    BY <2>4, SMTT(30) DEF KindFits, StepLive, Working, DoPhases, WaitPhases, RecordPhases
  <2> QED BY <1>1, <1>2, <2>1, <2>3, <2>4, <2>5, <2>6, <2>7, <2>8, ProgWrite, ZenonT(40)
<1> QED BY <1>3, <1>4, SMTT(30) DEF CompleteStep

\* What is left of a run that ends: the steps the service still handles.
LEMMA ClosedFields ==
  ASSUME Lifecycle, NEW k \in Tokens, NEW outcome, CloseRun(k, outcome)
  PROVE /\ \A j \in Tokens : j # k => run'[j] = run[j]
        /\ run'[k].open = FALSE /\ run'[k].generation = run[k].generation
        /\ run'[k].outcome \in {outcome, "none"}
        /\ \A u \in Ordinals :
             \/ run'[k].phase[u] = run[k].phase[u] /\ run'[k].arg[u] = run[k].arg[u]
             \/ run'[k].phase[u] = "idle" /\ run'[k].arg[u] = 0
<1> DEFINE heard == \E d \in Dispatchers : disp[d].pc = "wait" /\ disp[d].token = k
           out == IF heard THEN outcome ELSE "none"
           ph == [o \in Ordinals |-> IF run[k].phase[o] \in ServicePhases
                                     THEN run[k].phase[o] ELSE "idle"]
           ar == [o \in Ordinals |-> IF run[k].phase[o] \in ServicePhases
                                     THEN run[k].arg[o] ELSE 0]
           r == [run[k] EXCEPT !.open = FALSE, !.outcome = out, !.phase = ph, !.arg = ar]
<1>1. run' = [run EXCEPT ![k] = r]
  BY DEF CloseRun
<1>2. run[k] \in RunRecord
  BY Known, SMTT(30)
<1>3. /\ out \in {outcome, "none"}
      /\ \A u \in Ordinals : \/ ph[u] = run[k].phase[u] /\ ar[u] = run[k].arg[u]
                             \/ ph[u] = "idle" /\ ar[u] = 0
  OBVIOUS
<1> HIDE DEF out, ph, ar
<1>4. /\ r.open = FALSE /\ r.generation = run[k].generation /\ r.outcome = out
      /\ r.phase = ph /\ r.arg = ar
  BY <1>2 DEF RunRecord
<1> HIDE DEF r
<1>5. run'[k] = r /\ \A j \in Tokens : j # k => run'[j] = run[j]
  BY <1>1, Known
<1> QED BY <1>3, <1>4, <1>5

\* A run ends; it has completed only when it knows every step to be done.
LEMMA ProgRunEnds ==
  ASSUME Lifecycle, Progress, NEW k \in Tokens, RunReturn(k) \/ LoseRun(k) PROVE ProgStep
<1>1. UNCHANGED <<inst, steps, events, disp>>
  BY DEF RunReturn, LoseRun, RunStep, Fault, redisVars
<1>2. PICK outcome : /\ CloseRun(k, outcome)
                     /\ outcome = "completed" => \A o \in Ordinals : run[k].phase[o] = "done"
  <2>1. CASE LoseRun(k)
    BY <2>1 DEF LoseRun
  <2>2. CASE RunReturn(k)
    <3> DEFINE some(phase) == \E o \in Ordinals : run[k].phase[o] = phase
               out == IF some("infra") THEN "infra"
                      ELSE IF some("fail") THEN "failed"
                      ELSE IF some("susp") THEN "suspended"
                      ELSE "completed"
    <3>1. /\ CloseRun(k, out)
          /\ \A o \in Ordinals : run[k].phase[o] = "done"
             \/ \E phase \in Settled \ {"done"} : some(phase)
      BY <2>2, SMTT(30) DEF RunReturn
    <3>2. out = "completed" => ~some("infra") /\ ~some("fail") /\ ~some("susp")
      <4> HIDE DEF some
      <4> QED OBVIOUS
    <3>3. out = "completed" => \A o \in Ordinals : run[k].phase[o] = "done"
      BY <3>1, <3>2 DEF Settled
    <3> HIDE DEF out
    <3> QED BY <3>1, <3>3, SMTT(30)
  <2> QED BY <2>1, <2>2
<1> DEFINE r == run[k]
           s == run'[k]
<1>3. /\ \A j \in Tokens : j # k => run'[j] = run[j]
      /\ s.open = FALSE /\ s.generation = r.generation /\ s.outcome \in {outcome, "none"}
      /\ \A u \in Ordinals : \/ s.phase[u] = r.phase[u] /\ s.arg[u] = r.arg[u]
                             \/ s.phase[u] = "idle" /\ s.arg[u] = 0
  BY <1>2, ClosedFields, ZenonT(30)
<1>4. RunShaped(r)
  BY DEF Progress, RunsShaped
<1> HIDE DEF r, s
<1>5. "idle" \notin Busy /\ \A o : KindFits("idle", o)
  BY DEF Busy, ServicePhases, KindFits, DoPhases, WaitPhases, RecordPhases
<1>6. RunShaped(s)
  <2>1. \A o \in Ordinals : KindFits(s.phase[o], o)
    BY <1>3, <1>4, <1>5, SMTT(30) DEF RunShaped
  <2>2. ASSUME NEW i \in DOMAIN Stages, NEW j \in DOMAIN Stages,
               NEW x \in Stages[i], NEW u \in Stages[j]
        PROVE i # j => ~(s.phase[x] \in Busy /\ s.phase[u] \in Busy)
    <3>1. x \in Ordinals /\ u \in Ordinals
      BY DEF Ordinals
    <3>2. i # j => ~(r.phase[x] \in Busy /\ r.phase[u] \in Busy)
      BY <1>4 DEF RunShaped, StagesInOrder
    <3>3. /\ s.phase[x] \in Busy => r.phase[x] \in Busy
          /\ s.phase[u] \in Busy => r.phase[u] \in Busy
      BY <1>3, <1>5, <3>1, SMTT(30)
    <3> QED BY <3>2, <3>3
  <2> QED BY <1>3, <2>1, <2>2, SMTT(30) DEF RunShaped, StagesInOrder
<1>7. RunsShaped'
  BY <1>3, <1>6 DEF Progress, RunsShaped, s
<1>8. LiveRun'
  <2>1. Buffered' = Buffered /\ AllDone' = AllDone
    BY <1>1 DEF Buffered, AllDone
  <2>2. k = inst.runToken /\ outcome = "completed" => AllDone
    BY <1>2, LiveStep, ZenonT(40) DEF StepLive, AllDone
  <2> HIDE DEF Buffered, AllDone
  <2> SUFFICES ASSUME NEW j \in Tokens, j = inst.runToken
               PROVE /\ run'[j].generation = inst.generation
                     /\ run'[j].outcome = "completed" => AllDone
                     /\ \A u \in Ordinals :
                          StepLive(run'[j].phase[u], run'[j].arg[u], steps[u], Buffered, u)
    BY <1>1, <2>1, ZenonT(40) DEF LiveRun
  <2>3. /\ run[j].generation = inst.generation /\ (run[j].outcome = "completed" => AllDone)
        /\ \A u \in Ordinals : StepLive(run[j].phase[u], run[j].arg[u], steps[u], Buffered, u)
    BY ZenonT(40) DEF Progress, LiveRun
  <2>4. CASE j # k
    BY <1>3, <2>3, <2>4, ZenonT(30)
  <2>5. CASE j = k
    <3>1. \A u : StepLive("idle", 0, steps[u], Buffered, u)
      BY DEF StepLive, Working, DoPhases, WaitPhases, RecordPhases
    <3>2. ASSUME NEW u \in Ordinals
          PROVE StepLive(s.phase[u], s.arg[u], steps[u], Buffered, u)
      <4>1. StepLive(r.phase[u], r.arg[u], steps[u], Buffered, u)
        BY <2>3, <2>5, SMTT(30) DEF r
      <4>2. \/ s.phase[u] = r.phase[u] /\ s.arg[u] = r.arg[u]
            \/ s.phase[u] = "idle" /\ s.arg[u] = 0
        BY <1>3, SMTT(30)
      <4> QED BY <3>1, <4>1, <4>2, ZenonT(40)
    <3>3. s.generation = inst.generation /\ (s.outcome = "completed" => AllDone)
      BY <1>3, <2>2, <2>3, <2>5, SMTT(30) DEF r
    <3> QED BY <2>5, <3>2, <3>3, SMTT(30) DEF s
  <2> QED BY <2>4, <2>5, ZenonT(30)
<1>9. CommitsTrue'
  BY <1>1, CommitsFrame, SMTT(30)
<1>10. RecordsFit' /\ EventDelivery' /\ CompletedMeansDone' /\ ForwardStep
  BY <1>1 DEF Progress, RecordsFit, EventDelivery, Buffered, CompletedMeansDone, ForwardStep
<1> QED BY <1>7, <1>8, <1>9, <1>10, SMTT(30) DEF ProgStep, Progress

-----------------------------------------------------------------------------
(* Together. *)

\* At the start no step has a record and no run exists.
LEMMA ProgInit == Init => Progress
<1> SUFFICES ASSUME Init PROVE Progress
  OBVIOUS
<1>1. RetryLimit \in Nat \ {0} /\ 0 \notin Tokens
  BY WorkflowAssumption DEF Tokens
<1>2. \A k \in Tokens : run[k].open = FALSE /\ \A o \in Ordinals : run[k].phase[o] = "idle"
  BY SMTT(30) DEF Init, NoRun
<1>3. RunsShaped
  <2> SUFFICES ASSUME NEW k \in Tokens PROVE RunShaped(run[k])
    BY DEF RunsShaped
  <2>1. "idle" \notin Busy
    BY DEF Busy, ServicePhases
  <2>2. \A o \in Ordinals : KindFits("idle", o)
    BY DEF KindFits, DoPhases, WaitPhases, RecordPhases
  <2>3. ASSUME NEW i \in DOMAIN Stages, NEW o \in Stages[i] PROVE run[k].phase[o] = "idle"
    BY <1>2 DEF Ordinals
  <2> QED BY <1>2, <2>1, <2>2, <2>3 DEF RunShaped, StagesInOrder
<1>4. RecordsFit
  BY <1>1, SMTT(30) DEF Init, RecordsFit, RecordFits, NoSteps, NoStep
<1>5. inst.runToken = 0 /\ inst.status = "missing" /\ events = <<>>
      /\ \A o \in Ordinals : steps[o].event = 0
  BY DEF Init, Missing, NoSteps, NoStep
<1>6. LiveRun /\ CompletedMeansDone
  BY <1>1, <1>5 DEF LiveRun, CompletedMeansDone
<1>7. CommitsTrue
  BY DEF Init, CommitsTrue, IdleTask
<1>8. EventDelivery
  BY <1>5 DEF EventDelivery
<1> QED BY <1>3, <1>4, <1>6, <1>7, <1>8, SMTT(30) DEF Progress

\* Every step of the service, its callers and its runs keeps Progress and takes
\* the records only forward.
LEMMA ProgNext == Lifecycle /\ Progress /\ [Next]_vars => Progress' /\ ForwardStep
<1> SUFFICES ASSUME Lifecycle, Progress, [Next]_vars PROVE ProgStep
  BY DEF ProgStep
<1>1. ASSUME NEW c \in Callers, CallNext(c) PROVE ProgStep
  BY <1>1, ProgCallerQuiet, ProgCreateInstance, ProgPending, ProgTransition, ProgSendEvent, SMTT(30)
     DEF CallNext
<1>2. ASSUME NEW d \in Dispatchers, TaskNext(d) PROVE ProgStep
  BY <1>2, ProgTaskPlain, ProgClaimRun, ProgReceive, ProgReadForCommit, ProgCommitRuntimeTerminal, SMTT(30)
     DEF TaskNext
<1>3. ASSUME NEW k \in Tokens, RunNext(k) PROVE ProgStep
  BY <1>3, ProgStartStage, ProgRunEnds, ProgReadStep, ProgRestoreWaitingDue, ProgExecute,
     ProgCommitStepSuccess, ProgCommitStepError, ProgRegisterStep, ProgCompleteStep,
     ProgFindBufferedEvent, SMTT(30) DEF RunNext, StepNext
<1>4. ASSUME FaultNext PROVE ProgStep
  BY <1>4, ProgRunEnds, ProgLoseStep, ProgTaskFaults, ProgIdle DEF FaultNext
<1> QED BY <1>1, <1>2, <1>3, <1>4, ProgCleaner, ProgMoveDue, ProgIdle, SMTT(30) DEF Next

\* Progress is an inductive invariant on top of Lifecycle: the run that holds
\* the claim knows of every step what its record says.
THEOREM ProgressInvariant == Spec => []Progress
<1> QED BY LifecycleInvariant, ProgInit, ProgNext, PTL DEF Spec

\* A completed instance has completed every step, however many runs of it were
\* lost, released or taken over on the way.
THEOREM CompletionIsTrue == Spec => []CompletedMeansDone
<1>1. Progress => CompletedMeansDone
  BY DEF Progress
<1> QED BY <1>1, ProgressInvariant, PTL

\* Every event is taken by at most one wait, and never before an older one.
THEOREM EventsDelivered == Spec => []EventDelivery
<1>1. Progress => EventDelivery
  BY DEF Progress
<1> QED BY <1>1, ProgressInvariant, PTL

\* A completed or failed record is final and no attempt is recorded twice, until
\* the instance is restarted or deleted.
THEOREM StepsGoForward == Spec => StepsNeverRegress
<1> QED BY LifecycleInvariant, ProgressInvariant, ProgNext, PTL DEF Spec, StepsNeverRegress

=============================================================================
