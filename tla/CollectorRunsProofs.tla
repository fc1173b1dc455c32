------------------------- MODULE CollectorRunsProofs -------------------------
(* Proofs about the collector service, for any number of processes,        *)
(* sources, snapshot kinds, faults and clock values.                       *)
EXTENDS CollectorRuns, FiniteSetTheorems, TLAPS

Freshnesses == {"FRESH", "STALE", "ERROR", "UNKNOWN"}
RunType ==
  [pc : Pcs, at : Times, answer : Answers \cup {Timeout}, todo : SUBSET Kinds,
   observationFailed : BOOLEAN, snapshotFailed : BOOLEAN, projected : Nat]

LEMMA JobParts ==
  \A j \in Jobs : j.process \in Processes /\ j.source \in Sources
  BY CollectorAssumption DEF Jobs, Timers, Requests

LEMMA AnswerParts ==
  \A a \in Answers \cup {Timeout} :
    a.freshness \in Freshnesses /\ (a.error # NoError => a.freshness # "FRESH")
  BY CollectorAssumption DEF Timeout, NoError, Freshnesses

LEMMA OfParts == \A p : Of(p) \subseteq Jobs /\ \A j \in Jobs : j \in Of(p) <=> j.process = p
  BY DEF Of

LEMMA KeyType ==
  ASSUME NEW j \in Jobs, job \in [Jobs -> RunType]
  PROVE  At(j) \in Sources \X Times
  BY JobParts DEF At, RunType

-----------------------------------------------------------------------------
(* The part of the typing that the invariants below rest on.               *)
Typed ==
  /\ now \in Times
  /\ job \in [Jobs -> RunType]
  /\ executing \subseteq Jobs
  /\ lock \in [Sources -> SUBSET Jobs]
  /\ awaited \in [Processes -> SUBSET Jobs]
  /\ DOMAIN runs = Sources \X Times
  /\ stored \in [Sources \X Times -> {"none"} \cup Freshnesses]
  /\ current \in [Sources -> Times \cup {Never}]

LEMMA NoRunType == NoRun \in RunType
  BY CollectorAssumption DEF NoRun, RunType, Pcs, Times

LEMMA GoneTyped ==
  ASSUME Typed, NEW p, NEW how, Gone(p, how)
  PROVE  /\ job' \in [Jobs -> RunType]
         /\ executing' \subseteq Jobs
         /\ lock' \in [Sources -> SUBSET Jobs]
         /\ awaited' \in [Processes -> SUBSET Jobs]
  BY NoRunType DEF Gone, Typed

LEMMA ReleaseTyped ==
  ASSUME Typed, NEW j \in Jobs, Release(j)
  PROVE  job' \in [Jobs -> RunType] /\ lock' \in [Sources -> SUBSET Jobs]
  BY NoRunType DEF Release, Typed

LEMMA RejectTyped ==
  ASSUME Typed, NEW j \in Jobs, Reject(j)
  PROVE  /\ job' \in [Jobs -> RunType]
         /\ executing' \subseteq Jobs
         /\ lock' \in [Sources -> SUBSET Jobs]
         /\ awaited' \in [Processes -> SUBSET Jobs]
  <1>1. CASE j \in Requests \/ phase[j.process] = "stopping"
    BY <1>1, GoneTyped DEF Reject
  <1>2. CASE ~(j \in Requests \/ phase[j.process] = "stopping")
    BY <1>2, ReleaseTyped, NoRunType DEF Reject, Typed
  <1> QED
    BY <1>1, <1>2

LEMMA UpsertType ==
  ASSUME Typed, NEW s \in Sources, NEW t \in Times
  PROVE  Upsert(s, t) \in [Sources -> Times \cup {Never}]
  BY DEF Upsert, Typed

LEMMA WorksTyped ==
  ASSUME Typed, NEW j \in Jobs, Works(j) \/ runSource(j)
  PROVE  Typed'
  <1> USE DEF Typed
  <1>0. job[j] \in RunType /\ j.source \in Sources
    BY JobParts
  <1>1. CASE runSource(j)
    BY <1>0, <1>1 DEF runSource, Goto, RunType, Pcs, db
  <1>2. CASE Connect(j)
    BY <1>0, <1>2 DEF Connect, Goto, RunType, Pcs, db, process
  <1>3. CASE Lock(j)
    BY <1>0, <1>3 DEF Lock, RunType, Pcs, db, process
  <1>4. CASE Skip(j)
    BY <1>4, ReleaseTyped DEF Skip, db
  <1>5. CASE LateAnswer(j)
    BY <1>0, <1>5 DEF LateAnswer, RunType, Pcs, db, process
  <1>6. ASSUME NEW a \in Answers, Answer(j, a)
        PROVE  Typed'
    BY <1>0, <1>6 DEF Answer, RunType, Pcs, db, process
  <1>7. CASE StartRun(j)
    BY <1>0, <1>7 DEF StartRun, Goto, RunType, Pcs, unchanged_by_writes, process
  <1>8. CASE Observe(j)
    <2>1. current' \in [Sources -> Times \cup {Never}]
      BY <1>0, <1>8, UpsertType DEF Observe, RunType
    <2>2. stored' \in [Sources \X Times -> {"none"} \cup Freshnesses]
      BY <1>0, <1>8, AnswerParts DEF Observe, RunType
    <2>3. job' \in [Jobs -> RunType]
      BY <1>0, <1>8 DEF Observe, RunType, Pcs
    <2> QED
      BY <1>8, <2>1, <2>2, <2>3 DEF Observe, unchanged_by_writes, process
  <1>9. CASE FinishRun(j)
    BY <1>0, <1>9 DEF FinishRun, Goto, RunType, Pcs, unchanged_by_writes, process
  <1>10. CASE Unlock(j)
    BY <1>10, ReleaseTyped DEF Unlock, db
  <1>11. ASSUME NEW k \in Kinds, Project(j, k)
         PROVE  Typed'
    BY <1>0, <1>11 DEF Project, RunType, unchanged_by_writes, process
  <1> QED
    BY <1>1, <1>2, <1>3, <1>4, <1>5, <1>6, <1>7, <1>8, <1>9, <1>10, <1>11
    DEF Works, Collects, Writes

LEMMA FaultyTyped ==
  ASSUME Typed, NEW j \in Jobs, Faulty(j)
  PROVE  Typed'
  <1> USE DEF Typed
  <1>0. job[j] \in RunType
    OBVIOUS
  <1>1. CASE ConnectFails(j)
    BY <1>1, RejectTyped DEF ConnectFails, db
  <1>2. CASE TimesOut(j)
    BY <1>0, <1>2 DEF TimesOut, Goto, RunType, Pcs, db, process
  <1>3. CASE ObserveFails(j)
    BY <1>0, <1>3 DEF ObserveFails, RunType, Pcs, db, unchanged_by_writes, process
  <1>4. CASE PersistFails(j)
    BY <1>4, RejectTyped DEF PersistFails, db
  <1>5. ASSUME NEW k \in Kinds, ProjectFails(j, k)
        PROVE  Typed'
    BY <1>0, <1>5 DEF ProjectFails, RunType, db, unchanged_by_writes, process
  <1> QED
    BY <1>1, <1>2, <1>3, <1>4, <1>5 DEF Faulty

LEMMA TypedStep ==
  ASSUME Typed, [Next]_vars
  PROVE  Typed'
  <1>1. ASSUME NEW j \in Jobs, runSource(j) \/ Works(j)
        PROVE  Typed'
    BY <1>1, WorksTyped
  <1>2. ASSUME NEW j \in Jobs, Faulty(j)
        PROVE  Typed'
    BY <1>2, FaultyTyped
  <1>3. ASSUME NEW p \in Processes, Boot(p) \/ Stop(p)
        PROVE  Typed'
    BY <1>3, OfParts DEF Boot, Stop, Typed, db
  <1>4. ASSUME NEW p \in Processes, Exit(p) \/ Crash(p)
        PROVE  Typed'
    BY <1>4, GoneTyped DEF Exit, Crash, Typed, db
  <1>5. CASE Tick \/ SetBack
    BY <1>5, CollectorAssumption DEF Tick, SetBack, Typed, Times, process, db
  <1>6. CASE UNCHANGED vars
    BY <1>6 DEF vars, Typed
  <1> QED
    BY <1>1, <1>2, <1>3, <1>4, <1>5, <1>6 DEF Next

LEMMA InitTyped == Init => Typed
  <1> SUFFICES ASSUME Init PROVE Typed
    OBVIOUS
  <1> QED
    BY NoRunType, CollectorAssumption DEF Init, Typed, Times

-----------------------------------------------------------------------------
(* Where a step of one run takes it; the other runs stay where they are.   *)
Moves(j, from, to) ==
  /\ job[j].pc \in from /\ job'[j].pc \in to
  /\ \A i \in Jobs \ {j} : job'[i] = job[i]

LEMMA Movements ==
  ASSUME Typed, NEW j \in Jobs
  PROVE  /\ runSource(j) => Moves(j, {"idle"}, {"connecting"})
         /\ Connect(j) => Moves(j, {"connecting"}, {"locking"})
         /\ \A a \in Answers : Answer(j, a) => Moves(j, {"collecting"}, {"starting"})
         /\ TimesOut(j) => Moves(j, {"collecting"}, {"overdue"})
         /\ LateAnswer(j) => Moves(j, {"overdue"}, {"starting"})
         /\ StartRun(j) => Moves(j, {"starting"}, {"observing"})
         /\ Observe(j) \/ ObserveFails(j) => Moves(j, {"observing"}, {"projecting"})
         /\ \A k \in Kinds : Project(j, k) \/ ProjectFails(j, k) => Moves(j, {"projecting"}, {"projecting"})
         /\ FinishRun(j) => Moves(j, {"projecting"}, {"unlocking"})
  <1> USE DEF Moves, Typed, RunType, Goto
  <1>1. runSource(j) => Moves(j, {"idle"}, {"connecting"})
    BY DEF runSource
  <1>2. Connect(j) => Moves(j, {"connecting"}, {"locking"})
    BY DEF Connect
  <1>3. ASSUME NEW a \in Answers PROVE Answer(j, a) => Moves(j, {"collecting"}, {"starting"})
    BY DEF Answer
  <1>4. TimesOut(j) => Moves(j, {"collecting"}, {"overdue"})
    BY DEF TimesOut
  <1>5. LateAnswer(j) => Moves(j, {"overdue"}, {"starting"})
    BY DEF LateAnswer
  <1>6. StartRun(j) => Moves(j, {"starting"}, {"observing"})
    BY DEF StartRun
  <1>7. Observe(j) => Moves(j, {"observing"}, {"projecting"})
    BY DEF Observe
  <1>8. ObserveFails(j) => Moves(j, {"observing"}, {"projecting"})
    BY DEF ObserveFails
  <1>9. ASSUME NEW k \in Kinds PROVE Project(j, k) => Moves(j, {"projecting"}, {"projecting"})
    BY DEF Project
  <1>10. ASSUME NEW k \in Kinds PROVE ProjectFails(j, k) => Moves(j, {"projecting"}, {"projecting"})
    BY DEF ProjectFails
  <1>11. FinishRun(j) => Moves(j, {"projecting"}, {"unlocking"})
    BY DEF FinishRun
  <1> QED
    BY <1>1, <1>2, <1>3, <1>4, <1>5, <1>6, <1>7, <1>8, <1>9, <1>10, <1>11

(* Every way in which a step can change a run.                             *)
OwnStep(i) ==
  \/ runSource(i) \/ Connect(i) \/ Lock(i) \/ Collects(i) \/ TimesOut(i)
  \/ StartRun(i) \/ Observe(i) \/ ObserveFails(i) \/ FinishRun(i)
  \/ \E k \in Kinds : Project(i, k) \/ ProjectFails(i, k)

LEMMA JobCases ==
  ASSUME Typed, [Next]_vars, NEW i \in Jobs
  PROVE  job'[i] = job[i] \/ job'[i] = NoRun \/ OwnStep(i)
  <1> USE DEF Typed
  <1>1. ASSUME NEW p, NEW how, Gone(p, how)
        PROVE  job'[i] = job[i] \/ job'[i] = NoRun
    BY <1>1 DEF Gone
  <1>2. ASSUME NEW j \in Jobs, Release(j)
        PROVE  job'[i] = job[i] \/ job'[i] = NoRun
    BY <1>2 DEF Release
  <1>3. ASSUME NEW j \in Jobs, Reject(j)
        PROVE  job'[i] = job[i] \/ job'[i] = NoRun
    BY <1>1, <1>2, <1>3 DEF Reject
  <1>4. ASSUME NEW j \in Jobs, Skip(j) \/ Unlock(j) \/ ConnectFails(j) \/ PersistFails(j)
        PROVE  job'[i] = job[i] \/ job'[i] = NoRun
    BY <1>2, <1>3, <1>4 DEF Skip, Unlock, ConnectFails, PersistFails
  <1>5. ASSUME NEW p \in Processes, Exit(p) \/ Crash(p)
        PROVE  job'[i] = job[i] \/ job'[i] = NoRun
    BY <1>1, <1>5 DEF Exit, Crash
  <1>6. ASSUME NEW j \in Jobs, OwnStep(j), i # j
        PROVE  job'[i] = job[i]
    BY <1>6 DEF OwnStep, runSource, Connect, Lock, Collects, Answer, LateAnswer, TimesOut, StartRun,
                Observe, ObserveFails, FinishRun, Project, ProjectFails, Goto
  <1>7. CASE \/ UNCHANGED vars \/ Tick \/ SetBack \/ \E p \in Processes : Boot(p) \/ Stop(p)
    BY <1>7 DEF vars, Tick, SetBack, Boot, Stop
  <1>8. ASSUME NEW j \in Jobs, OwnStep(j)
        PROVE  job'[i] = job[i] \/ OwnStep(i)
    BY <1>6, <1>8
  <1> QED
    BY <1>4, <1>5, <1>7, <1>8 DEF Next, Works, Faulty, Writes, OwnStep

-----------------------------------------------------------------------------
(* The lock of a source covers its run from the start of the collector to  *)
(* the last write, and a collector runs exactly while its run waits for it.*)
LockHeld ==
  \A j \in Jobs :
    /\ j \in executing <=> job[j].pc \in {"collecting", "overdue"}
    /\ Working(j) => lock[j.source] = {j}

LEMMA GoneLock ==
  ASSUME Typed, LockHeld, NEW p, NEW how, Gone(p, how)
  PROVE  LockHeld'
  <1> SUFFICES ASSUME NEW j \in Jobs
               PROVE  /\ j \in executing' <=> job'[j].pc \in {"collecting", "overdue"}
                      /\ Working(j)' => lock'[j.source] = {j}
    BY DEF LockHeld
  <1>1. CASE j.process = p
    BY <1>1, OfParts DEF Gone, NoRun, Working
  <1>2. CASE j.process # p
    BY <1>2, OfParts, JobParts DEF Gone, Working, LockHeld, Typed
  <1> QED
    BY <1>1, <1>2

LEMMA ReleaseLock ==
  ASSUME Typed, LockHeld, NEW j \in Jobs, Release(j), j \notin executing, executing' = executing
  PROVE  LockHeld'
  <1> SUFFICES ASSUME NEW i \in Jobs
               PROVE  /\ i \in executing' <=> job'[i].pc \in {"collecting", "overdue"}
                      /\ Working(i)' => lock'[i.source] = {i}
    BY DEF LockHeld
  <1>1. CASE i = j
    BY <1>1 DEF Release, NoRun, Working, Typed
  <1>2. CASE i # j
    BY <1>2, JobParts DEF Release, Working, LockHeld, Typed
  <1> QED
    BY <1>1, <1>2

(* A step of one run that keeps the lock and stays on its side of it.      *)
LEMMA StepLock ==
  ASSUME Typed, LockHeld, NEW j \in Jobs, NEW from, NEW to, Moves(j, from, to), lock' = lock,
         \A i \in Jobs \ {j} : i \in executing' <=> i \in executing,
         j \in executing' <=> job'[j].pc \in {"collecting", "overdue"},
         Working(j)' => Working(j)
  PROVE  LockHeld'
  <1> SUFFICES ASSUME NEW i \in Jobs
               PROVE  /\ i \in executing' <=> job'[i].pc \in {"collecting", "overdue"}
                      /\ Working(i)' => lock'[i.source] = {i}
    BY DEF LockHeld
  <1>1. CASE i = j
    BY <1>1 DEF LockHeld
  <1>2. CASE i # j
    <2>1. job'[i] = job[i] /\ (i \in executing' <=> i \in executing)
      BY <1>2 DEF Moves
    <2> QED
      BY <2>1 DEF LockHeld, Working
  <1> QED
    BY <1>1, <1>2

(* The same while the collector is not running, before and after.          *)
LEMMA QuietStepLock ==
  ASSUME Typed, LockHeld, NEW j \in Jobs, NEW from, NEW to, Moves(j, from, to),
         lock' = lock, executing' = executing,
         from \cap {"collecting", "overdue"} = {}, to \cap {"collecting", "overdue"} = {},
         \/ from \subseteq {"starting", "observing", "projecting", "unlocking"}
         \/ to \cap {"starting", "observing", "projecting", "unlocking"} = {}
  PROVE  LockHeld'
  <1>1. j \notin executing
    BY DEF LockHeld, Moves
  <1>2. Working(j)' => Working(j)
    BY <1>1 DEF Working, Moves
  <1>3. job'[j].pc \notin {"collecting", "overdue"}
    BY DEF Moves
  <1> QED
    BY <1>1, <1>2, <1>3, StepLock

LEMMA RejectLock ==
  ASSUME Typed, LockHeld, NEW j \in Jobs, Reject(j), j \notin executing
  PROVE  LockHeld'
  <1>1. CASE j \in Requests \/ phase[j.process] = "stopping"
    BY <1>1, GoneLock DEF Reject
  <1>2. CASE ~(j \in Requests \/ phase[j.process] = "stopping") /\ job[j].pc = "connecting"
    <2>1. Moves(j, {"connecting"}, {"idle"})
      BY <1>2 DEF Reject, Moves, NoRun, Typed
    <2> QED
      BY <1>2, <2>1, QuietStepLock DEF Reject
  <1>3. CASE ~(j \in Requests \/ phase[j.process] = "stopping") /\ job[j].pc # "connecting"
    BY <1>3, ReleaseLock DEF Reject
  <1> QED
    BY <1>1, <1>2, <1>3

LEMMA LockStep ==
  ASSUME Typed, LockHeld, [Next]_vars
  PROVE  LockHeld'
  <1> USE DEF Typed
  <1>0. Typed'
    BY TypedStep
  <1>1. ASSUME NEW j \in Jobs, runSource(j) \/ Connect(j)
        PROVE  LockHeld'
    <2>1. CASE runSource(j)
      BY <2>1, Movements, QuietStepLock DEF runSource
    <2>2. CASE Connect(j)
      BY <2>2, Movements, QuietStepLock DEF Connect
    <2> QED
      BY <1>1, <2>1, <2>2
  <1>2. ASSUME NEW j \in Jobs, Lock(j)
        PROVE  LockHeld'
    <2> SUFFICES ASSUME NEW i \in Jobs
                 PROVE  /\ i \in executing' <=> job'[i].pc \in {"collecting", "overdue"}
                        /\ Working(i)' => lock'[i.source] = {i}
      BY DEF LockHeld
    <2>1. CASE i = j
      BY <1>2, <2>1, JobParts DEF Lock
    <2>2. CASE i # j
      <3>1. Working(i)' => Working(i)
        BY <1>2, <2>2 DEF Lock, Working
      <3>2. Working(i) => i.source # j.source
        BY <1>2 DEF Lock, LockHeld
      <3> QED
        BY <1>2, <2>2, <3>1, <3>2, JobParts DEF Lock, LockHeld
    <2> QED
      BY <2>1, <2>2
  <1>3. ASSUME NEW j \in Jobs, Skip(j) \/ Unlock(j)
        PROVE  LockHeld'
    <2>1. j \notin executing
      BY <1>3 DEF Skip, Unlock, LockHeld
    <2> QED
      BY <1>3, <2>1, ReleaseLock DEF Skip, Unlock
  <1>4. ASSUME NEW j \in Jobs, Collects(j) \/ TimesOut(j)
        PROVE  LockHeld'
    <2>1. j \in executing
      BY <1>4 DEF Collects, Answer, LateAnswer, TimesOut, LockHeld
    <2>2. Working(j)
      BY <2>1 DEF Working
    <2>3. ASSUME NEW a \in Answers, Answer(j, a) PROVE LockHeld'
      <3>1. Moves(j, {"collecting"}, {"starting"})
        BY <2>3, Movements
      <3> QED
        BY <2>2, <2>3, <3>1, StepLock DEF Answer, Moves
    <2>4. CASE LateAnswer(j)
      <3>1. Moves(j, {"overdue"}, {"starting"})
        BY <2>4, Movements
      <3> QED
        BY <2>2, <2>4, <3>1, StepLock DEF LateAnswer, Moves
    <2>5. CASE TimesOut(j)
      <3>1. Moves(j, {"collecting"}, {"overdue"})
        BY <2>5, Movements
      <3> QED
        BY <2>1, <2>2, <2>5, <3>1, StepLock DEF TimesOut, Moves
    <2> QED
      BY <1>4, <2>3, <2>4, <2>5 DEF Collects
  <1>5. ASSUME NEW j \in Jobs,
               \/ StartRun(j) \/ Observe(j) \/ FinishRun(j) \/ ObserveFails(j)
               \/ \E k \in Kinds : Project(j, k) \/ ProjectFails(j, k)
        PROVE  LockHeld'
    <2>1. lock' = lock /\ executing' = executing
      BY <1>5 DEF StartRun, Observe, FinishRun, ObserveFails, Project, ProjectFails, unchanged_by_writes
    <2>2. CASE StartRun(j)
      BY <2>1, <2>2, Movements, QuietStepLock
    <2>3. CASE Observe(j) \/ ObserveFails(j)
      BY <2>1, <2>3, Movements, QuietStepLock
    <2>4. CASE FinishRun(j)
      BY <2>1, <2>4, Movements, QuietStepLock
    <2>5. ASSUME NEW k \in Kinds, Project(j, k) \/ ProjectFails(j, k) PROVE LockHeld'
      <3>1. Moves(j, {"projecting"}, {"projecting"})
        BY <2>5, Movements
      <3> QED
        BY <2>1, <3>1, QuietStepLock
    <2> QED
      BY <1>5, <2>2, <2>3, <2>4, <2>5
  <1>6. ASSUME NEW j \in Jobs, ConnectFails(j) \/ PersistFails(j)
        PROVE  LockHeld'
    <2>1. j \notin executing
      BY <1>6 DEF ConnectFails, PersistFails, LockHeld
    <2> QED
      BY <1>6, <2>1, RejectLock DEF ConnectFails, PersistFails
  <1>7. ASSUME NEW p \in Processes, Exit(p) \/ Crash(p)
        PROVE  LockHeld'
    BY <1>7, GoneLock DEF Exit, Crash
  <1>8. CASE \/ UNCHANGED vars \/ Tick \/ SetBack \/ \E p \in Processes : Boot(p) \/ Stop(p)
    BY <1>8 DEF vars, Tick, SetBack, Boot, Stop, LockHeld, Working
  <1> QED
    BY <1>1, <1>2, <1>3, <1>4, <1>5, <1>6, <1>7, <1>8 DEF Next, Works, Faulty, Writes

(* At most one run of a source is between its lock and its last write, in  *)
(* however many processes, because both would hold the same lock.          *)
THEOREM RunsNeverOverlap == Spec => []OneRunPerSource
  <1>1. Init => Typed /\ LockHeld
    BY InitTyped DEF Init, LockHeld, Working, NoRun
  <1>2. Typed /\ LockHeld /\ [Next]_vars => (Typed /\ LockHeld)'
    BY TypedStep, LockStep
  <1>3. LockHeld => OneRunPerSource
    BY DEF LockHeld, OneRunPerSource
  <1> QED
    BY <1>1, <1>2, <1>3, PTL DEF Spec

-----------------------------------------------------------------------------
(* Observe is the only step that writes observations.                      *)
LEMMA OnlyObserveStores ==
  ASSUME [Next]_vars
  PROVE  \/ \E j \in Jobs : Observe(j)
         \/ stored' = stored /\ current' = current
  BY DEF Next, Works, Faulty, Writes, Collects, runSource, Connect, Lock, Skip, Answer, LateAnswer,
         StartRun, Project, FinishRun, Unlock, ConnectFails, TimesOut, ObserveFails, PersistFails,
         ProjectFails, Boot, Stop, Exit, Crash, Tick, SetBack, vars, db, unchanged_by_writes

LEMMA CurrentStep ==
  ASSUME Typed, CurrentIsLatest, NEW j \in Jobs, Observe(j)
  PROVE  CurrentIsLatest'
  <1> DEFINE t == job[j].at
  <1>1. j.source \in Sources /\ t \in Times /\ job[j].answer.freshness \in Freshnesses
    BY JobParts, AnswerParts DEF Typed, RunType
  <1>2. current' = Upsert(j.source, t)
    BY DEF Observe
  <1>3. /\ stored' = [stored EXCEPT ![<<j.source, t>>] = stored'[<<j.source, t>>]]
        /\ stored'[<<j.source, t>>] # "none"
    BY <1>1 DEF Observe, At, Typed, Freshnesses
  <1> HIDE DEF t
  <1> SUFFICES ASSUME NEW s \in Sources
               PROVE  /\ current'[s] # Never => stored'[<<s, current'[s]>>] # "none"
                      /\ \A u \in Times :
                           stored'[<<s, u>>] # "none" => current'[s] # Never /\ u <= current'[s]
    BY DEF CurrentIsLatest
  <1>4. CASE s # j.source
    <2>1. current'[s] = current[s] /\ current[s] \in Times \cup {Never}
      BY <1>1, <1>2, <1>4 DEF Upsert, Typed
    <2>2. \A u \in Times : stored'[<<s, u>>] = stored[<<s, u>>]
      BY <1>1, <1>3, <1>4 DEF Typed
    <2> QED
      BY <2>1, <2>2 DEF CurrentIsLatest
  <1>5. CASE s = j.source
    <2>1. \A u \in Times : u # t => stored'[<<s, u>>] = stored[<<s, u>>]
      BY <1>1, <1>3 DEF Typed
    <2>2. CASE current[s] = Never \/ t >= current[s]
      <3>1. current'[s] = t
        BY <1>1, <1>2, <1>5, <2>2 DEF Upsert, Typed
      <3>2. t # Never /\ t \in Nat
        BY <1>1, CollectorAssumption DEF Times
      <3>3. \A u \in Times : stored[<<s, u>>] # "none" => u <= t
        <4> SUFFICES ASSUME NEW u \in Times, stored[<<s, u>>] # "none" PROVE u <= t
          OBVIOUS
        <4>1. current[s] # Never /\ u <= current[s]
          BY DEF CurrentIsLatest
        <4>2. current[s] \in Nat /\ u \in Nat
          BY <4>1 DEF Typed, Times
        <4> QED
          BY <2>2, <3>2, <4>1, <4>2
      <3>4. \A u \in Times : stored'[<<s, u>>] # "none" => u <= t
        BY <2>1, <3>2, <3>3
      <3> QED
        BY <1>3, <1>5, <3>1, <3>2, <3>4
    <2>3. CASE ~(current[s] = Never \/ t >= current[s])
      <3>1. current'[s] = current[s] /\ current[s] \in Times /\ current[s] # t /\ t <= current[s]
        BY <1>1, <1>2, <1>5, <2>3, CollectorAssumption DEF Upsert, Typed, Times
      <3>2. stored'[<<s, current[s]>>] # "none"
        BY <2>1, <2>3, <3>1 DEF CurrentIsLatest
      <3>3. \A u \in Times : stored'[<<s, u>>] # "none" => u <= current[s]
        BY <2>1, <3>1 DEF CurrentIsLatest
      <3> QED
        BY <2>3, <3>1, <3>2, <3>3
    <2> QED
      BY <2>2, <2>3
  <1> QED
    BY <1>4, <1>5

LEMMA LatestStep ==
  ASSUME Typed, CurrentIsLatest, [Next]_vars
  PROVE  CurrentIsLatest'
  <1>1. ASSUME NEW j \in Jobs, Observe(j) PROVE CurrentIsLatest'
    BY <1>1, CurrentStep
  <1>2. CASE stored' = stored /\ current' = current
    BY <1>2 DEF CurrentIsLatest
  <1> QED
    BY <1>1, <1>2, OnlyObserveStores

(* The current observation is the newest stored one, whatever order runs,  *)
(* processes and clocks bring the observations in.                         *)
THEOREM CurrentStaysLatest == Spec => []CurrentIsLatest
  <1>1. Init => Typed /\ CurrentIsLatest
    BY InitTyped DEF Init, CurrentIsLatest
  <1>2. Typed /\ CurrentIsLatest /\ [Next]_vars => (Typed /\ CurrentIsLatest)'
    BY TypedStep, LatestStep
  <1> QED
    BY <1>1, <1>2, PTL DEF Spec

-----------------------------------------------------------------------------
(* A run that is about to store a good observation got it in time.         *)
GoodIsInTime ==
  \A j \in Jobs :
    job[j].pc \in {"starting", "observing"} /\ job[j].answer.freshness = "FRESH" => At(j) \in inTime

LEMMA InTimeStep ==
  ASSUME Typed, GoodIsInTime, LateAnswersAreDropped, [Next]_vars
  PROVE  GoodIsInTime' /\ LateAnswersAreDropped'
  <1> USE DEF Typed
  <1>1. inTime \subseteq inTime'
    BY DEF Next, Works, Faulty, Writes, Collects, runSource, Connect, Lock, Skip, Answer, LateAnswer,
           StartRun, Observe, Project, FinishRun, Unlock, ConnectFails, TimesOut, ObserveFails,
           PersistFails, ProjectFails, Boot, Stop, Exit, Crash, Tick, SetBack, vars, history,
           unchanged_by_writes
  <1>2. LateAnswersAreDropped'
    <2>1. ASSUME NEW j \in Jobs, Observe(j) PROVE LateAnswersAreDropped'
      <3> SUFFICES ASSUME NEW s \in Sources, NEW t \in Times, stored'[<<s, t>>] = "FRESH"
                   PROVE  <<s, t>> \in inTime
        BY <1>1 DEF LateAnswersAreDropped
      <3>1. At(j) \in Sources \X Times
        BY KeyType
      <3>2. CASE <<s, t>> = At(j) /\ stored[At(j)] = "none"
        BY <2>1, <3>1, <3>2 DEF Observe, GoodIsInTime
      <3>3. CASE ~(<<s, t>> = At(j) /\ stored[At(j)] = "none")
        BY <2>1, <3>1, <3>3 DEF Observe, LateAnswersAreDropped
      <3> QED
        BY <3>2, <3>3
    <2>2. CASE stored' = stored
      BY <1>1, <2>2 DEF LateAnswersAreDropped
    <2> QED
      BY <2>1, <2>2, OnlyObserveStores
  <1>3. GoodIsInTime'
    <2> SUFFICES ASSUME NEW i \in Jobs, job'[i].pc \in {"starting", "observing"},
                        job'[i].answer.freshness = "FRESH"
                 PROVE  <<i.source, job'[i].at>> \in inTime'
      BY DEF GoodIsInTime, At
    <2>1. CASE job'[i] = job[i]
      BY <1>1, <2>1 DEF GoodIsInTime, At
    <2>2. CASE job'[i] = NoRun
      BY <2>2 DEF NoRun
    <2>3. ASSUME NEW a \in Answers, Answer(i, a)
          PROVE  <<i.source, job'[i].at>> \in inTime'
      BY <2>3, AnswerParts DEF Answer, At, RunType
    <2>4. CASE LateAnswer(i)
      BY <2>4 DEF LateAnswer, Timeout
    <2>5. CASE StartRun(i)
      BY <1>1, <2>5 DEF StartRun, Goto, RunType, GoodIsInTime, At
    <2>6. ASSUME NEW k \in Kinds, Project(i, k) \/ ProjectFails(i, k)
          PROVE  FALSE
      BY <2>6, Movements DEF Moves
    <2>7. CASE \/ runSource(i) \/ Connect(i) \/ TimesOut(i) \/ Observe(i) \/ ObserveFails(i) \/ FinishRun(i)
      BY <2>7, Movements DEF Moves
    <2>8. CASE Lock(i)
      BY <2>8 DEF Lock, RunType
    <2> QED
      BY <2>1, <2>2, <2>3, <2>4, <2>5, <2>6, <2>7, <2>8, JobCases DEF OwnStep, Collects
  <1> QED
    BY <1>2, <1>3

(* What a collector answers after its timeout never becomes an observation.*)
THEOREM LateAnswersNeverStored == Spec => []LateAnswersAreDropped
  <1>1. Init => Typed /\ GoodIsInTime /\ LateAnswersAreDropped
    BY InitTyped DEF Init, GoodIsInTime, LateAnswersAreDropped, NoRun
  <1>2. /\ Typed /\ GoodIsInTime /\ LateAnswersAreDropped /\ [Next]_vars
        => (Typed /\ GoodIsInTime /\ LateAnswersAreDropped)'
    BY TypedStep, InTimeStep
  <1> QED
    BY <1>1, <1>2, PTL DEF Spec

-----------------------------------------------------------------------------
(* What a run that is writing has written so far, unless its flags say so. *)
WrittenSoFar ==
  \A j \in Jobs :
    job[j].pc = "projecting" =>
      /\ ~job[j].observationFailed => stored[At(j)] # "none"
      /\ ~job[j].snapshotFailed => \A k \in Kinds \ job[j].todo : <<At(j), k>> \in snapshots

LEMMA TablesGrow ==
  ASSUME Typed, [Next]_vars
  PROVE  /\ \A key \in Sources \X Times : stored[key] # "none" => stored'[key] # "none"
         /\ snapshots \subseteq snapshots'
  <1>1. ASSUME NEW key \in Sources \X Times, stored[key] # "none"
        PROVE  stored'[key] # "none"
    <2>1. ASSUME NEW j \in Jobs, Observe(j) PROVE stored'[key] # "none"
      BY <1>1, <2>1, KeyType DEF Observe, Typed
    <2> QED
      BY <1>1, <2>1, OnlyObserveStores
  <1>2. snapshots \subseteq snapshots'
    BY DEF Next, Works, Faulty, Writes, Collects, runSource, Connect, Lock, Skip, Answer, LateAnswer,
           StartRun, Observe, Project, FinishRun, Unlock, ConnectFails, TimesOut, ObserveFails,
           PersistFails, ProjectFails, Boot, Stop, Exit, Crash, Tick, SetBack, vars, db,
           unchanged_by_writes
  <1> QED
    BY <1>1, <1>2

LEMMA WrittenStep ==
  ASSUME Typed, WrittenSoFar, [Next]_vars
  PROVE  WrittenSoFar'
  <1> USE DEF Typed
  <1> SUFFICES ASSUME NEW i \in Jobs, job'[i].pc = "projecting"
               PROVE  LET key == <<i.source, job'[i].at>> IN
                      /\ ~job'[i].observationFailed => stored'[key] # "none"
                      /\ ~job'[i].snapshotFailed =>
                           \A k \in Kinds \ job'[i].todo : <<key, k>> \in snapshots'
    BY DEF WrittenSoFar, At
  <1>0. At(i) \in Sources \X Times /\ job[i] \in RunType /\ At(i) = <<i.source, job[i].at>>
    BY KeyType DEF At
  <1>1. CASE job'[i] = job[i]
    BY <1>0, <1>1, TablesGrow DEF WrittenSoFar
  <1>2. CASE job'[i] = NoRun
    BY <1>2 DEF NoRun
  <1>3. CASE Observe(i)
    <2>1. job'[i].todo = Kinds /\ job'[i].at = job[i].at
      BY <1>0, <1>3 DEF Observe, RunType
    <2>2. stored'[At(i)] # "none"
      BY <1>0, <1>3, AnswerParts DEF Observe, RunType, Freshnesses
    <2> QED
      BY <1>0, <2>1, <2>2
  <1>4. CASE ObserveFails(i)
    BY <1>0, <1>4 DEF ObserveFails, RunType
  <1>5. ASSUME NEW k \in Kinds, Project(i, k)
        PROVE  LET key == <<i.source, job'[i].at>> IN
               /\ ~job'[i].observationFailed => stored'[key] # "none"
               /\ ~job'[i].snapshotFailed =>
                    \A l \in Kinds \ job'[i].todo : <<key, l>> \in snapshots'
    <2>1. /\ job'[i].todo = job[i].todo \ {k} /\ job'[i].at = job[i].at
          /\ job'[i].observationFailed = job[i].observationFailed
          /\ job'[i].snapshotFailed = job[i].snapshotFailed
      BY <1>0, <1>5 DEF Project, RunType
    <2>2. snapshots' = snapshots \cup {<<At(i), k>>} /\ stored' = stored /\ job[i].pc = "projecting"
      BY <1>5 DEF Project
    <2> QED
      BY <1>0, <2>1, <2>2 DEF WrittenSoFar
  <1>6. ASSUME NEW k \in Kinds, ProjectFails(i, k)
        PROVE  LET key == <<i.source, job'[i].at>> IN
               /\ ~job'[i].observationFailed => stored'[key] # "none"
               /\ ~job'[i].snapshotFailed =>
                    \A l \in Kinds \ job'[i].todo : <<key, l>> \in snapshots'
    <2>1. /\ job'[i].snapshotFailed = TRUE /\ job'[i].at = job[i].at
          /\ job'[i].observationFailed = job[i].observationFailed
          /\ job[i].pc = "projecting" /\ stored' = stored
      BY <1>0, <1>6 DEF ProjectFails, RunType, db
    <2> QED
      BY <1>0, <2>1 DEF WrittenSoFar
  <1>7. CASE Lock(i) \/ Collects(i) \/ runSource(i) \/ Connect(i) \/ TimesOut(i) \/ StartRun(i) \/ FinishRun(i)
    BY <1>7, Movements DEF Moves, Lock, RunType, Collects
  <1> QED
    BY <1>1, <1>2, <1>3, <1>4, <1>5, <1>6, <1>7, JobCases DEF OwnStep

LEMMA OnlyStartAndFinish ==
  ASSUME [Next]_vars
  PROVE  \/ \E j \in Jobs : StartRun(j) \/ FinishRun(j)
         \/ runs' = runs
  BY DEF Next, Works, Faulty, Writes, Collects, runSource, Connect, Lock, Skip, Answer, LateAnswer,
         Observe, Project, Unlock, ConnectFails, TimesOut, ObserveFails, PersistFails,
         ProjectFails, Boot, Stop, Exit, Crash, Tick, SetBack, vars, db, unchanged_by_writes

(* The row of a run after a step that writes it.                           *)
LEMMA RowAfter ==
  ASSUME Typed, NEW j \in Jobs, StartRun(j) \/ FinishRun(j)
  PROVE  /\ \A key \in Sources \X Times : key # At(j) => runs'[key] = runs[key]
         /\ StartRun(j) => runs'[At(j)] = runs[At(j)] \/ runs'[At(j)].status = "RUNNING"
         /\ FinishRun(j) => runs'[At(j)].status = Status(j)
  <1>1. At(j) \in DOMAIN runs
    BY KeyType DEF Typed
  <1>2. StartRun(j) => runs'[At(j)] = runs[At(j)] \/ runs'[At(j)].status = "RUNNING"
    BY <1>1 DEF StartRun, NoRow
  <1>3. FinishRun(j) => runs'[At(j)].status = Status(j)
    BY <1>1 DEF FinishRun, Revised, SameTerminal
  <1>4. \A key \in Sources \X Times : key # At(j) => runs'[key] = runs[key]
    BY <1>1 DEF StartRun, FinishRun, Typed
  <1> QED
    BY <1>2, <1>3, <1>4

LEMMA DoneStep ==
  ASSUME Typed, WrittenSoFar, DoneIsComplete, [Next]_vars
  PROVE  DoneIsComplete'
  <1> SUFFICES ASSUME NEW s \in Sources, NEW t \in Times, runs'[<<s, t>>].status = "DONE"
               PROVE  /\ stored'[<<s, t>>] # "none"
                      /\ \A k \in Kinds : <<<<s, t>>, k>> \in snapshots'
    BY DEF DoneIsComplete
  <1>1. CASE runs[<<s, t>>].status = "DONE"
    BY <1>1, TablesGrow DEF DoneIsComplete
  <1>2. ASSUME NEW j \in Jobs, StartRun(j) \/ FinishRun(j), runs[<<s, t>>].status # "DONE"
        PROVE  /\ stored'[<<s, t>>] # "none"
               /\ \A k \in Kinds : <<<<s, t>>, k>> \in snapshots'
    <2>1. <<s, t>> = At(j)
      BY <1>2, RowAfter
    <2>2. FinishRun(j) /\ Status(j) = "DONE"
      BY <1>2, <2>1, RowAfter
    <2>3. job[j].pc = "projecting" /\ job[j].todo = {} /\ ~job[j].observationFailed /\ ~job[j].snapshotFailed
      BY <2>2 DEF FinishRun, Status, PersistFailed
    <2> QED
      BY <2>1, <2>3, TablesGrow, KeyType DEF WrittenSoFar
  <1> QED
    BY <1>1, <1>2, OnlyStartAndFinish

(* A run whose latest revision says DONE is complete in the database.      *)
THEOREM DoneMeansStored == Spec => []DoneIsComplete
  <1>1. Init => Typed /\ WrittenSoFar /\ DoneIsComplete
    BY InitTyped DEF Init, WrittenSoFar, DoneIsComplete, NoRun, NoRow
  <1>2. Typed /\ WrittenSoFar /\ DoneIsComplete /\ [Next]_vars => (Typed /\ WrittenSoFar /\ DoneIsComplete)'
    BY TypedStep, WrittenStep, DoneStep
  <1> QED
    BY <1>1, <1>2, PTL DEF Spec

-----------------------------------------------------------------------------
(* stop() waits for every run that is not over: it took all of them from   *)
(* inflightRuns, and none is admitted after it.                            *)
NoneForgotten ==
  \A p \in Processes : phase[p] = "stopping" =>
    \A j \in Of(p) : job[j].pc # "idle" => j \in awaited[p]

ProcessTyped == phase \in [Processes -> {"down", "up", "stopping", "stopped"}]

LEMMA GoneForgets ==
  ASSUME Typed, ProcessTyped, NoneForgotten, NEW p \in Processes,
         NEW how \in {"down", "stopped"}, Gone(p, how)
  PROVE  NoneForgotten' /\ ProcessTyped'
  <1>1. ProcessTyped'
    BY DEF Gone, ProcessTyped
  <1>2. ASSUME NEW q \in Processes, phase'[q] = "stopping", NEW j \in Of(q), job'[j].pc # "idle"
        PROVE  j \in awaited'[q]
    <2>1. q # p /\ phase[q] = "stopping"
      BY <1>2 DEF Gone, ProcessTyped
    <2>2. job'[j] = job[j] /\ awaited'[q] = awaited[q]
      BY <2>1, OfParts DEF Gone, Typed
    <2> QED
      BY <1>2, <2>1, <2>2 DEF NoneForgotten
  <1> QED
    BY <1>1, <1>2 DEF NoneForgotten, Of

(* A step that moves one run, none from idle in a process that stops.      *)
LEMMA MoveForgets ==
  ASSUME Typed, ProcessTyped, NoneForgotten, phase' = phase, awaited' = awaited,
         \A j \in Jobs : phase[j.process] = "stopping" /\ job[j].pc = "idle" => job'[j].pc = "idle"
  PROVE  NoneForgotten' /\ ProcessTyped'
  BY OfParts DEF NoneForgotten, ProcessTyped, Of

LEMMA RejectForgets ==
  ASSUME Typed, ProcessTyped, NoneForgotten, NEW j \in Jobs, Reject(j)
  PROVE  NoneForgotten' /\ ProcessTyped'
  <1>0. j.process \in Processes
    BY JobParts
  <1>1. CASE j \in Requests \/ phase[j.process] = "stopping"
    BY <1>0, <1>1, GoneForgets DEF Reject
  <1>2. CASE ~(j \in Requests \/ phase[j.process] = "stopping")
    <2>1. \A i \in Jobs : job'[i] = job[i] \/ job'[i] = NoRun
      BY <1>2 DEF Reject, Release, Typed
    <2> QED
      BY <1>2, <2>1, MoveForgets DEF Reject, NoRun
  <1> QED
    BY <1>1, <1>2

LEMMA ForgottenStep ==
  ASSUME Typed, ProcessTyped, NoneForgotten, [Next]_vars
  PROVE  NoneForgotten' /\ ProcessTyped'
  <1> USE DEF Typed
  <1>1. ASSUME NEW p \in Processes, Boot(p)
        PROVE  NoneForgotten' /\ ProcessTyped'
    BY <1>1 DEF Boot, NoneForgotten, ProcessTyped, Of
  <1>2. ASSUME NEW p \in Processes, Stop(p)
        PROVE  NoneForgotten' /\ ProcessTyped'
    <2>1. ProcessTyped'
      BY <1>2 DEF Stop, ProcessTyped
    <2>2. ASSUME NEW q \in Processes, phase'[q] = "stopping", NEW j \in Of(q), job'[j].pc # "idle"
          PROVE  j \in awaited'[q]
      BY <1>2, <2>2 DEF Stop, NoneForgotten, ProcessTyped
    <2> QED
      BY <2>1, <2>2 DEF NoneForgotten, Of
  <1>3. ASSUME NEW p \in Processes, Exit(p) \/ Crash(p)
        PROVE  NoneForgotten' /\ ProcessTyped'
    BY <1>3, GoneForgets DEF Exit, Crash
  <1>4. ASSUME NEW j \in Jobs, ConnectFails(j) \/ PersistFails(j)
        PROVE  NoneForgotten' /\ ProcessTyped'
    BY <1>4, RejectForgets DEF ConnectFails, PersistFails
  <1>5. CASE \/ \E j \in Jobs : OwnStep(j) \/ Skip(j) \/ Unlock(j)
             \/ Tick \/ SetBack \/ UNCHANGED vars
    <2>1. phase' = phase /\ awaited' = awaited
      BY <1>5 DEF OwnStep, Skip, Unlock, runSource, Connect, Lock, Collects, Answer, LateAnswer,
                  TimesOut, StartRun, Observe, ObserveFails, FinishRun, Project, ProjectFails,
                  Tick, SetBack, vars, process, unchanged_by_writes
    <2>2. ASSUME NEW i \in Jobs, phase[i.process] = "stopping", job[i].pc = "idle"
          PROVE  job'[i].pc = "idle"
      <3>1. ~runSource(i)
        BY <2>2 DEF runSource, Admits
      <3>2. ASSUME NEW k \in Kinds PROVE ~Project(i, k) /\ ~ProjectFails(i, k)
        BY <2>2 DEF Project, ProjectFails
      <3>3. ASSUME NEW a \in Answers PROVE ~Answer(i, a)
        BY <2>2 DEF Answer
      <3>4. ~OwnStep(i)
        BY <2>2, <3>1, <3>2, <3>3 DEF OwnStep, Connect, Lock, Collects, LateAnswer, TimesOut, StartRun, Observe,
                  ObserveFails, FinishRun
      <3> QED
        BY <2>2, <3>4, JobCases DEF NoRun
    <2> QED
      BY <2>1, <2>2, MoveForgets
  <1> QED
    BY <1>1, <1>2, <1>3, <1>4, <1>5 DEF Next, Works, Faulty, Writes, OwnStep

LEMMA UnfinishedKey ==
  ASSUME NEW j \in Jobs
  PROVE  /\ \A key : key \in Unfinished({j}) <=> key = At(j) /\ job[j].pc \in {"observing", "projecting"}
         /\ \A js : j \in js /\ job[j].pc \in {"observing", "projecting"} => At(j) \in Unfinished(js)
  BY DEF Unfinished, At

(* A run that has begun to write goes on, is finished, or is noted as cut. *)
LEMMA KeptOrCut ==
  ASSUME Typed, ProcessTyped, NoneForgotten, [Next]_vars,
         NEW j \in Jobs, job[j].pc \in {"observing", "projecting"}, ~FinishRun(j)
  PROVE  \/ job'[j].pc \in {"observing", "projecting"} /\ job'[j].at = job[j].at
         \/ At(j) \in cut'
  <1> USE DEF Typed
  <1>1. CASE job'[j] = job[j]
    BY <1>1
  <1>2. CASE OwnStep(j)
    <2>1. CASE Observe(j)
      BY <2>1 DEF Observe, RunType
    <2>2. CASE ObserveFails(j)
      BY <2>2 DEF ObserveFails, RunType
    <2>3. ASSUME NEW k \in Kinds, Project(j, k) \/ ProjectFails(j, k)
          PROVE  job'[j].pc \in {"observing", "projecting"} /\ job'[j].at = job[j].at
      BY <2>3 DEF Project, ProjectFails, RunType
    <2>4. ASSUME NEW a \in Answers PROVE ~Answer(j, a)
      BY DEF Answer
    <2> QED
      BY <1>2, <2>1, <2>2, <2>3, <2>4 DEF OwnStep, runSource, Connect, Lock, Collects, LateAnswer,
                                          TimesOut, StartRun
  <1>3. CASE job'[j] # job[j] /\ ~OwnStep(j)
    <2>1. ASSUME NEW i \in Jobs, OwnStep(i)
          PROVE  job'[j] = job[j]
      BY <1>3, <2>1 DEF OwnStep, runSource, Connect, Lock, Collects, Answer, LateAnswer, TimesOut,
                        StartRun, Observe, ObserveFails, FinishRun, Project, ProjectFails, Goto
    <2>2. ASSUME NEW i \in Jobs, Skip(i) \/ Unlock(i)
          PROVE  job'[j] = job[j]
      BY <2>2 DEF Skip, Unlock, Release
    <2>3. ASSUME NEW i \in Jobs, Reject(i)
          PROVE  At(j) \in cut'
      <3>1. CASE i \in Requests \/ phase[i.process] = "stopping"
        <4>1. j \in Of(i.process)
          BY <1>3, <2>3, <3>1, OfParts DEF Reject, Gone
        <4> QED
          BY <2>3, <3>1, <4>1, UnfinishedKey DEF Reject
      <3>2. CASE ~(i \in Requests \/ phase[i.process] = "stopping")
        <4>1. i = j
          BY <1>3, <2>3, <3>2 DEF Reject, Release
        <4> QED
          BY <2>3, <3>2, <4>1, UnfinishedKey DEF Reject
      <3> QED
        BY <3>1, <3>2
    <2>4. ASSUME NEW p \in Processes, Crash(p)
          PROVE  At(j) \in cut'
      <3>1. j \in Of(p)
        BY <1>3, <2>4, OfParts DEF Crash, Gone
      <3> QED
        BY <2>4, <3>1, UnfinishedKey DEF Crash
    <2>5. ASSUME NEW p \in Processes, Exit(p)
          PROVE  FALSE
      <3>1. j \in Of(p)
        BY <1>3, <2>5, OfParts DEF Exit, Gone
      <3>2. j \in awaited[p]
        BY <2>5, <3>1 DEF Exit, NoneForgotten
      <3> QED
        BY <2>5, <3>2 DEF Exit, Drained
    <2>6. CASE \/ UNCHANGED vars \/ Tick \/ SetBack \/ \E p \in Processes : Boot(p) \/ Stop(p)
      BY <1>3, <2>6 DEF vars, Tick, SetBack, Boot, Stop
    <2> QED
      BY <1>3, <2>1, <2>2, <2>3, <2>4, <2>5, <2>6
      DEF Next, Works, Faulty, Writes, OwnStep, ConnectFails, PersistFails
  <1> QED
    BY <1>1, <1>2, <1>3

LEMMA CutGrows ==
  ASSUME [Next]_vars
  PROVE  cut \subseteq cut'
  BY DEF Next, Works, Faulty, Writes, Collects, runSource, Connect, Lock, Skip, Answer, LateAnswer,
         StartRun, Observe, Project, FinishRun, Unlock, ConnectFails, TimesOut, ObserveFails,
         PersistFails, ProjectFails, Reject, Boot, Stop, Exit, Crash, Tick, SetBack, vars, history

LEMMA CutStep ==
  ASSUME Typed, ProcessTyped, NoneForgotten, StopCutsNothing, [Next]_vars
  PROVE  StopCutsNothing'
  <1> SUFFICES ASSUME NEW s \in Sources, NEW t \in Times, runs'[<<s, t>>].status = "RUNNING",
                      <<s, t>> \notin cut'
               PROVE  \E j \in Jobs : <<s, t>> \in Unfinished({j})'
    BY DEF StopCutsNothing
  <1>0. ASSUME NEW j \in Jobs, job'[j].pc \in {"observing", "projecting"}, <<s, t>> = <<j.source, job'[j].at>>
        PROVE  <<s, t>> \in Unfinished({j})'
    BY <1>0 DEF Unfinished
  <1>1. CASE runs[<<s, t>>].status = "RUNNING"
    <2>1. PICK j \in Jobs : <<s, t>> = At(j) /\ job[j].pc \in {"observing", "projecting"}
      BY <1>1, CutGrows, UnfinishedKey DEF StopCutsNothing
    <2>2. ~FinishRun(j)
      BY <2>1, RowAfter DEF Status
    <2>3. job'[j].pc \in {"observing", "projecting"} /\ job'[j].at = job[j].at
      BY <2>1, <2>2, KeptOrCut
    <2> QED
      BY <1>0, <2>1, <2>3 DEF At
  <1>2. CASE runs[<<s, t>>].status # "RUNNING"
    <2>1. PICK j \in Jobs : StartRun(j) \/ FinishRun(j)
      BY <1>2, OnlyStartAndFinish
    <2>2. <<s, t>> = At(j)
      BY <1>2, <2>1, RowAfter
    <2>3. StartRun(j)
      BY <2>1, <2>2, RowAfter DEF Status
    <2>4. job'[j].pc = "observing" /\ job'[j].at = job[j].at
      BY <2>3 DEF StartRun, Goto, Typed, RunType
    <2> QED
      BY <1>0, <2>2, <2>4 DEF At
  <1> QED
    BY <1>1, <1>2

(* A run that stays RUNNING was cut off by a crash or a failed write,      *)
(* never by an orderly stop.                                               *)
THEOREM OrderlyStopCutsNothing == Spec => []StopCutsNothing
  <1> DEFINE I == Typed /\ ProcessTyped /\ NoneForgotten /\ StopCutsNothing
  <1>1. Init => I
    BY InitTyped DEF Init, ProcessTyped, NoneForgotten, StopCutsNothing, NoRow
  <1>2. I /\ [Next]_vars => I'
    BY TypedStep, ForgottenStep, CutStep
  <1> QED
    BY <1>1, <1>2, PTL DEF Spec

-----------------------------------------------------------------------------
(* The accounts: connections lent, locks held, timers armed.               *)
Balanced ==
  \A p \in Processes :
    /\ IsFiniteSet(Holding(p)) /\ conns[p] = Cardinality(Holding(p))
    /\ conns[p] <= PoolSize

LocksInUse == \A s \in Sources : \A j \in lock[s] : j.source = s /\ Working(j)

(* A process that is not there runs nothing and has no timers.             *)
TimersKept ==
  /\ armed \subseteq Timers
  /\ \A t \in Timers : phase[t.process] = "up" => (t \in armed <=> job[t].pc = "idle")
  /\ \A j \in Jobs : phase[j.process] \in {"down", "stopped"} => job[j].pc = "idle" /\ j \notin armed

Accounts == conns \in [Processes -> Nat] /\ Balanced /\ LocksInUse /\ TimersKept

(* What a step does to the runs of a process that use a connection, and to *)
(* the number of connections lent to it.                                   *)
Borrows(p) ==
  /\ conns[p] < PoolSize /\ conns'[p] = conns[p] + 1
  /\ \E j \in Jobs : j \notin Holding(p) /\ Holding(p)' = Holding(p) \cup {j}
Returns(p) ==
  /\ conns'[p] = conns[p] - 1
  /\ \E j \in Jobs : j \in Holding(p) /\ Holding(p)' = Holding(p) \ {j}
Ends(p) == conns'[p] = 0 /\ Holding(p)' = {}
Keeps(p) == conns'[p] = conns[p] /\ Holding(p)' = Holding(p)

LEMMA HoldingParts ==
  \A p : \A j : j \in Holding(p) <=> j \in Jobs /\ j.process = p /\ job[j].pc \notin {"idle", "connecting"}
  BY DEF Holding, Of

LEMMA BalanceKept ==
  ASSUME NEW p \in Processes, conns \in [Processes -> Nat],
         IsFiniteSet(Holding(p)), conns[p] = Cardinality(Holding(p)), conns[p] <= PoolSize,
         Borrows(p) \/ Returns(p) \/ Ends(p) \/ Keeps(p)
  PROVE  /\ IsFiniteSet(Holding(p)') /\ conns'[p] = Cardinality(Holding(p)')
         /\ conns'[p] <= PoolSize /\ conns'[p] \in Nat
  <1>1. CASE Borrows(p)
    <2>1. PICK j \in Jobs : j \notin Holding(p) /\ Holding(p)' = Holding(p) \cup {j}
      BY <1>1 DEF Borrows
    <2>2. IsFiniteSet(Holding(p)') /\ Cardinality(Holding(p)') = Cardinality(Holding(p)) + 1
      BY <2>1, FS_AddElement
    <2> QED
      BY <1>1, <2>2, CollectorAssumption DEF Borrows
  <1>2. CASE Returns(p)
    <2>1. PICK j \in Jobs : j \in Holding(p) /\ Holding(p)' = Holding(p) \ {j}
      BY <1>2 DEF Returns
    <2>2. IsFiniteSet(Holding(p)') /\ Cardinality(Holding(p)') = Cardinality(Holding(p)) - 1
      BY <2>1, FS_RemoveElement
    <2>3. Cardinality(Holding(p)') \in Nat
      BY <2>2, FS_CardinalityType
    <2> QED
      BY <1>2, <2>2, <2>3, CollectorAssumption DEF Returns
  <1>3. CASE Ends(p)
    BY <1>3, FS_EmptySet, CollectorAssumption DEF Ends
  <1>4. CASE Keeps(p)
    BY <1>4 DEF Keeps
  <1> QED
    BY <1>1, <1>2, <1>3, <1>4


LEMMA GoneLends ==
  ASSUME Typed, conns \in [Processes -> Nat], NEW q \in Processes, NEW how, Gone(q, how),
         NEW p \in Processes
  PROVE  Ends(p) \/ Keeps(p)
  <1> USE DEF Gone
  <1>1. CASE p = q
    <2>1. \A j : j \notin Holding(p)'
      BY <1>1 DEF Holding, Of, NoRun
    <2> QED
      BY <1>1, <2>1 DEF Ends
  <1>2. CASE p # q
    <2>1. \A j : j \in Holding(p)' <=> j \in Holding(p)
      BY <1>2 DEF Holding, Of
    <2> QED
      BY <1>2, <2>1 DEF Keeps
  <1> QED
    BY <1>1, <1>2

LEMMA ReleaseLends ==
  ASSUME Typed, conns \in [Processes -> Nat], NEW j \in Jobs, Release(j),
         job[j].pc \notin {"idle", "connecting"}, NEW p \in Processes
  PROVE  Returns(p) \/ Keeps(p)
  <1> USE DEF Release, Typed
  <1>1. \A i : i \in Holding(p)' <=> i \in Holding(p) /\ i # j
    BY DEF Holding, Of, NoRun
  <1>2. CASE p = j.process
    <2>1. Holding(p)' = Holding(p) \ {j} /\ j \in Holding(p)
      BY <1>1, <1>2, HoldingParts
    <2> QED
      BY <1>2, <2>1 DEF Returns
  <1>3. CASE p # j.process
    <2>0. j \notin Holding(p)
      BY <1>3, HoldingParts
    <2>1. Holding(p)' = Holding(p)
      BY <1>1, <2>0
    <2> QED
      BY <1>3, <2>1 DEF Keeps
  <1> QED
    BY <1>2, <1>3

(* A step of one run that leaves its connections alone.                    *)
LEMMA MoveLends ==
  ASSUME Typed, conns' = conns, NEW j \in Jobs, NEW from, NEW to, Moves(j, from, to),
         \/ from \cap {"idle", "connecting"} = {} /\ to \cap {"idle", "connecting"} = {}
         \/ from \subseteq {"idle", "connecting"} /\ to \subseteq {"idle", "connecting"},
         NEW p \in Processes
  PROVE  Keeps(p)
  <1>1. \A i : i \in Holding(p)' <=> i \in Holding(p)
    BY DEF Holding, Of, Moves
  <1> QED
    BY <1>1 DEF Keeps

LEMMA RejectLends ==
  ASSUME Typed, conns \in [Processes -> Nat], NEW j \in Jobs, Reject(j),
         job[j].pc # "idle", NEW p \in Processes
  PROVE  Ends(p) \/ Returns(p) \/ Keeps(p)
  <1>1. CASE j \in Requests \/ phase[j.process] = "stopping"
    <2>1. PICK how : Gone(j.process, how)
      BY <1>1 DEF Reject
    <2> QED
      BY <2>1, GoneLends, JobParts
  <1>2. CASE ~(j \in Requests \/ phase[j.process] = "stopping") /\ job[j].pc = "connecting"
    <2>1. Moves(j, {"connecting"}, {"idle"}) /\ conns' = conns
      BY <1>2 DEF Reject, Moves, NoRun, Typed
    <2> QED
      BY <2>1, MoveLends
  <1>3. CASE ~(j \in Requests \/ phase[j.process] = "stopping") /\ job[j].pc # "connecting"
    BY <1>3, ReleaseLends DEF Reject
  <1> QED
    BY <1>1, <1>2, <1>3

LEMMA ConnectLends ==
  ASSUME Typed, conns \in [Processes -> Nat], NEW j \in Jobs, Connect(j), NEW p \in Processes
  PROVE  Borrows(p) \/ Keeps(p)
  <1>1. \A i : i \in Holding(p)' <=> i \in Holding(p) \/ (i = j /\ j.process = p)
    BY DEF Connect, Goto, Holding, Of, Typed, RunType
  <1>2. j \notin Holding(p) /\ conns' = [conns EXCEPT ![j.process] = @ + 1] /\ conns[j.process] < PoolSize
    BY DEF Connect, Holding, PoolFree
  <1>3. CASE p = j.process
    <2>1. Holding(p)' = Holding(p) \cup {j}
      BY <1>1, <1>3
    <2> QED
      BY <1>2, <1>3, <2>1 DEF Borrows
  <1>4. CASE p # j.process
    <2>1. Holding(p)' = Holding(p)
      BY <1>1, <1>4
    <2> QED
      BY <1>2, <1>4, <2>1 DEF Keeps
  <1> QED
    BY <1>3, <1>4

(* Every step lends one connection, gets one back, ends the process or     *)
(* leaves both sides as they are.                                          *)
LEMMA Lending ==
  ASSUME Typed, conns \in [Processes -> Nat], [Next]_vars, NEW p \in Processes
  PROVE  Borrows(p) \/ Returns(p) \/ Ends(p) \/ Keeps(p)
  <1>1. ASSUME NEW j \in Jobs, runSource(j)
        PROVE  Keeps(p)
    <2>1. conns' = conns
      BY <1>1 DEF runSource
    <2> QED
      BY <1>1, <2>1, Movements, MoveLends
  <1>2. ASSUME NEW j \in Jobs, Connect(j)
        PROVE  Borrows(p) \/ Keeps(p)
    BY <1>2, ConnectLends
  <1>3. ASSUME NEW j \in Jobs, Lock(j)
        PROVE  Keeps(p)
    <2>1. conns' = conns /\ Moves(j, {"locking"}, {"collecting"})
      BY <1>3 DEF Lock, Moves, Typed, RunType
    <2> QED
      BY <2>1, MoveLends
  <1>4. ASSUME NEW j \in Jobs, Skip(j) \/ Unlock(j)
        PROVE  Returns(p) \/ Keeps(p)
    BY <1>4, ReleaseLends DEF Skip, Unlock
  <1>5. ASSUME NEW j \in Jobs, Collects(j) \/ TimesOut(j)
        PROVE  Keeps(p)
    <2>1. conns' = conns
      BY <1>5 DEF Collects, Answer, LateAnswer, TimesOut
    <2>2. ASSUME NEW a \in Answers, Answer(j, a) PROVE Keeps(p)
      <3>1. Moves(j, {"collecting"}, {"starting"})
        BY <2>2, Movements
      <3> QED
        BY <2>1, <3>1, MoveLends
    <2>3. CASE LateAnswer(j)
      BY <2>1, <2>3, Movements, MoveLends
    <2>4. CASE TimesOut(j)
      BY <2>1, <2>4, Movements, MoveLends
    <2> QED
      BY <1>5, <2>2, <2>3, <2>4 DEF Collects
  <1>6. ASSUME NEW j \in Jobs, StartRun(j) \/ Observe(j) \/ FinishRun(j) \/ ObserveFails(j)
        PROVE  Keeps(p)
    <2>1. conns' = conns
      BY <1>6 DEF StartRun, Observe, FinishRun, ObserveFails, unchanged_by_writes
    <2> QED
      BY <1>6, <2>1, Movements, MoveLends
  <1>7. ASSUME NEW j \in Jobs, NEW k \in Kinds, Project(j, k) \/ ProjectFails(j, k)
        PROVE  Keeps(p)
    <2>1. conns' = conns
      BY <1>7 DEF Project, ProjectFails, unchanged_by_writes
    <2>2. Moves(j, {"projecting"}, {"projecting"})
      BY <1>7, Movements
    <2> QED
      BY <2>1, <2>2, MoveLends
  <1>8. ASSUME NEW j \in Jobs, ConnectFails(j) \/ PersistFails(j)
        PROVE  Ends(p) \/ Returns(p) \/ Keeps(p)
    BY <1>8, RejectLends DEF ConnectFails, PersistFails
  <1>9. ASSUME NEW q \in Processes, Exit(q) \/ Crash(q)
        PROVE  Ends(p) \/ Keeps(p)
    BY <1>9, GoneLends DEF Exit, Crash
  <1>10. CASE \/ UNCHANGED vars \/ Tick \/ SetBack \/ \E q \in Processes : Boot(q) \/ Stop(q)
    BY <1>10 DEF vars, Tick, SetBack, Boot, Stop, Keeps, Holding, Of
  <1> QED
    BY <1>1, <1>2, <1>3, <1>4, <1>5, <1>6, <1>7, <1>8, <1>9, <1>10 DEF Next, Works, Faulty, Writes

LEMMA ConnsType ==
  ASSUME Typed, conns \in [Processes -> Nat], [Next]_vars
  PROVE  conns' = [p \in Processes |-> conns'[p]]
  <1>0. conns = [p \in Processes |-> conns[p]]
    OBVIOUS
  <1>1. ASSUME NEW p, NEW how, Gone(p, how)
        PROVE  conns' = [q \in Processes |-> conns'[q]]
    BY <1>1, <1>0 DEF Gone
  <1>2. ASSUME NEW j \in Jobs, Release(j)
        PROVE  conns' = [q \in Processes |-> conns'[q]]
    BY <1>2, <1>0 DEF Release
  <1>3. ASSUME NEW j \in Jobs, Reject(j)
        PROVE  conns' = [q \in Processes |-> conns'[q]]
    BY <1>0, <1>1, <1>2, <1>3 DEF Reject
  <1>4. ASSUME NEW j \in Jobs, Connect(j)
        PROVE  conns' = [q \in Processes |-> conns'[q]]
    BY <1>0, <1>4 DEF Connect
  <1>5. CASE conns' = conns
    BY <1>0, <1>5
  <1>6. ASSUME NEW j \in Jobs, \/ runSource(j) \/ Lock(j) \/ Collects(j) \/ StartRun(j)
                               \/ Observe(j) \/ FinishRun(j) \/ TimesOut(j) \/ ObserveFails(j)
                               \/ \E k \in Kinds : Project(j, k) \/ ProjectFails(j, k)
        PROVE  conns' = conns
    BY <1>6 DEF Collects, runSource, Lock, Answer, LateAnswer, StartRun, Observe, Project, FinishRun,
                TimesOut, ObserveFails, ProjectFails, unchanged_by_writes
  <1>7. CASE \/ UNCHANGED vars \/ Tick \/ SetBack \/ \E p \in Processes : Boot(p) \/ Stop(p)
    BY <1>0, <1>7 DEF vars, Tick, SetBack, Boot, Stop
  <1> QED
    BY <1>1, <1>2, <1>3, <1>4, <1>5, <1>6, <1>7
    DEF Next, Works, Faulty, Writes, Skip, Unlock, ConnectFails, PersistFails, Exit, Crash

LEMMA BalanceStep ==
  ASSUME Typed, conns \in [Processes -> Nat], Balanced, [Next]_vars
  PROVE  Balanced' /\ conns' \in [Processes -> Nat]
  <1>1. ASSUME NEW p \in Processes
        PROVE  /\ IsFiniteSet(Holding(p)') /\ conns'[p] = Cardinality(Holding(p)')
               /\ conns'[p] <= PoolSize /\ conns'[p] \in Nat
    BY Lending, BalanceKept DEF Balanced
  <1> QED
    BY <1>1, ConnsType DEF Balanced

-----------------------------------------------------------------------------
(* Locks: taken by Lock alone, and given back by the run that holds one.   *)
LEMMA LocksInUseStep ==
  ASSUME Typed, LockHeld, LocksInUse, [Next]_vars
  PROVE  LocksInUse'
  <1> SUFFICES ASSUME NEW s \in Sources, NEW j \in lock'[s]
               PROVE  j.source = s /\ Working(j)'
    BY DEF LocksInUse
  <1> USE DEF Typed
  <1>0. ASSUME j \in lock[s], job'[j].pc \notin {"idle", "connecting", "locking"}
        PROVE  j.source = s /\ Working(j)'
    <2>1. j.source = s /\ j \in Jobs
      BY <1>0 DEF LocksInUse
    <2>2. job'[j] \in RunType /\ LockHeld'
      BY <2>1, TypedStep, LockStep
    <2> QED
      BY <1>0, <2>1, <2>2 DEF Working, LockHeld, RunType, Pcs
  <1>1. ASSUME j \in lock[s], job'[j] = job[j]
        PROVE  j.source = s /\ Working(j)'
    <2>1. Working(j) /\ j \in Jobs
      BY <1>1 DEF LocksInUse
    <2> QED
      BY <1>0, <1>1, <2>1 DEF Working, LockHeld
  <1>2. ASSUME NEW p, NEW how, Gone(p, how)
        PROVE  j.source = s /\ Working(j)'
    <2>1. j \in lock[s] /\ j \in Jobs /\ j \notin Of(p)
      BY <1>2 DEF Gone
    <2> QED
      BY <1>1, <1>2, <2>1, OfParts DEF Gone
  <1>3. ASSUME NEW i \in Jobs, Release(i)
        PROVE  j.source = s /\ Working(j)'
    <2>1. j \in lock[s] /\ j \in Jobs /\ j.source = s
      BY <1>3 DEF Release, LocksInUse
    <2>2. j # i
      BY <1>3, <2>1 DEF Release
    <2> QED
      BY <1>1, <1>3, <2>1, <2>2 DEF Release
  <1>4. ASSUME NEW i \in Jobs, Reject(i)
        PROVE  j.source = s /\ Working(j)'
    <2>1. CASE i \in Requests \/ phase[i.process] = "stopping"
      BY <1>2, <1>4, <2>1 DEF Reject
    <2>2. CASE ~(i \in Requests \/ phase[i.process] = "stopping") /\ job[i].pc # "connecting"
      BY <1>3, <1>4, <2>2 DEF Reject
    <2>3. CASE ~(i \in Requests \/ phase[i.process] = "stopping") /\ job[i].pc = "connecting"
      <3>1. j \in lock[s] /\ Working(j)
        BY <1>4, <2>3 DEF Reject, LocksInUse
      <3>2. j # i
        BY <2>3, <3>1 DEF Working, LockHeld
      <3> QED
        BY <1>1, <1>4, <2>3, <3>1, <3>2 DEF Reject
    <2> QED
      BY <2>1, <2>2, <2>3
  <1>5. ASSUME NEW i \in Jobs, Lock(i)
        PROVE  j.source = s /\ Working(j)'
    <2>1. CASE j = i
      <3>1. i \in executing'
        BY <1>5 DEF Lock
      <3>2. s = i.source
        <4>1. CASE i \in lock[s]
          BY <4>1 DEF LocksInUse
        <4>2. CASE i \notin lock[s]
          BY <1>5, <2>1, <4>2 DEF Lock
        <4> QED
          BY <4>1, <4>2
      <3> QED
        BY <2>1, <3>1, <3>2 DEF Working
    <2>2. CASE j # i
      BY <1>1, <1>5, <2>2 DEF Lock
    <2> QED
      BY <2>1, <2>2
  <1>6. ASSUME NEW i \in Jobs, \/ runSource(i) \/ Connect(i) \/ Collects(i) \/ TimesOut(i)
                               \/ StartRun(i) \/ Observe(i) \/ ObserveFails(i) \/ FinishRun(i)
                               \/ \E k \in Kinds : Project(i, k) \/ ProjectFails(i, k)
        PROVE  j.source = s /\ Working(j)'
    <2>1. j \in lock[s] /\ Working(j) /\ j \in Jobs
      BY <1>6 DEF runSource, Connect, Collects, Answer, LateAnswer, TimesOut, StartRun, Observe,
                  ObserveFails, FinishRun, Project, ProjectFails, unchanged_by_writes, LocksInUse
    <2>2. CASE i # j
      BY <1>1, <1>6, <2>1, <2>2 DEF runSource, Connect, Collects, Answer, LateAnswer, TimesOut,
         StartRun, Observe, ObserveFails, FinishRun, Project, ProjectFails, Goto
    <2>3. CASE i = j
      <3>1. ~runSource(j) /\ ~Connect(j)
        BY <2>1 DEF runSource, Connect, Working, LockHeld
      <3>2. ASSUME NEW a \in Answers, Answer(j, a)
            PROVE  job'[j].pc = "starting"
        BY <3>2, <2>1, Movements DEF Moves
      <3>3. LateAnswer(j) \/ TimesOut(j) \/ StartRun(j) \/ Observe(j) \/ ObserveFails(j) \/ FinishRun(j)
            => job'[j].pc \notin {"idle", "connecting", "locking"}
        BY <2>1, Movements DEF Moves
      <3>4. ASSUME NEW k \in Kinds, Project(j, k) \/ ProjectFails(j, k)
            PROVE  job'[j].pc = "projecting"
        BY <3>4, <2>1, Movements DEF Moves
      <3> QED
        BY <1>0, <1>6, <2>1, <2>3, <3>1, <3>2, <3>3, <3>4 DEF Collects
    <2> QED
      BY <2>2, <2>3
  <1>7. CASE \/ UNCHANGED vars \/ Tick \/ SetBack \/ \E p \in Processes : Boot(p) \/ Stop(p)
    BY <1>1, <1>7 DEF vars, Tick, SetBack, Boot, Stop
  <1> QED
    BY <1>2, <1>3, <1>4, <1>5, <1>6, <1>7
    DEF Next, Works, Faulty, Writes, Exit, Crash, Skip, Unlock, ConnectFails, PersistFails


-----------------------------------------------------------------------------
(* Timers: a timer leaves armed exactly when its run begins, and the run's *)
(* end, whichever it is, puts it back unless the process ends or stops.    *)
LEMMA TimerParts ==
  /\ Timers \subseteq Jobs
  /\ \A j \in Jobs : j \notin Requests => j \in Timers
  /\ Timers \cap Requests = {}
  BY DEF Jobs, Timers, Requests

LEMMA GoneTimers ==
  ASSUME Typed, ProcessTyped, TimersKept, NEW p \in Processes, NEW how \in {"down", "stopped"}, Gone(p, how)
  PROVE  TimersKept'
  <1>1. ASSUME NEW j \in Jobs, j.process = p
        PROVE  job'[j].pc = "idle" /\ j \notin armed' /\ phase'[j.process] = how
    BY <1>1, OfParts DEF Gone, NoRun, ProcessTyped
  <1>2. ASSUME NEW j \in Jobs, j.process # p
        PROVE  /\ job'[j] = job[j] /\ (j \in armed' <=> j \in armed)
               /\ phase'[j.process] = phase[j.process]
    BY <1>2, OfParts DEF Gone, ProcessTyped
  <1>3. armed' \subseteq Timers
    BY DEF Gone, TimersKept
  <1>4. ASSUME NEW t \in Timers, phase'[t.process] = "up"
        PROVE  t \in armed' <=> job'[t].pc = "idle"
    BY <1>1, <1>2, <1>4, TimerParts DEF TimersKept
  <1>5. ASSUME NEW j \in Jobs, phase'[j.process] \in {"down", "stopped"}
        PROVE  job'[j].pc = "idle" /\ j \notin armed'
    BY <1>1, <1>2, <1>5 DEF TimersKept
  <1> QED
    BY <1>3, <1>4, <1>5 DEF TimersKept

(* The run of j ends and its timer is set again.                           *)
LEMMA SettledTimers ==
  ASSUME Typed, ProcessTyped, TimersKept, NEW j \in Jobs, job[j].pc # "idle",
         job' = [job EXCEPT ![j] = NoRun], Settled(j), phase' = phase
  PROVE  TimersKept'
  <1>1. job'[j].pc = "idle" /\ \A i \in Jobs : i # j => job'[i] = job[i]
    BY DEF Typed, NoRun
  <1>2. armed' \subseteq Timers /\ \A i : i # j => (i \in armed' <=> i \in armed)
    BY DEF Settled, Rearmed, TimersKept
  <1>3. phase[j.process] \notin {"down", "stopped"}
    BY DEF TimersKept
  <1>4. phase[j.process] = "up" /\ j \in Timers => j \in armed'
    BY DEF Settled, Rearmed
  <1>5. ASSUME NEW t \in Timers, phase[t.process] = "up"
        PROVE  t \in armed' <=> job'[t].pc = "idle"
    BY <1>1, <1>2, <1>4, <1>5, TimerParts DEF TimersKept
  <1>6. ASSUME NEW i \in Jobs, phase[i.process] \in {"down", "stopped"}
        PROVE  job'[i].pc = "idle" /\ i \notin armed'
    BY <1>1, <1>2, <1>3, <1>6 DEF TimersKept
  <1> QED
    BY <1>2, <1>5, <1>6 DEF TimersKept

LEMMA RejectTimers ==
  ASSUME Typed, ProcessTyped, TimersKept, NEW j \in Jobs, Reject(j), job[j].pc # "idle"
  PROVE  TimersKept'
  <1>1. CASE j \in Requests \/ phase[j.process] = "stopping"
    <2>1. PICK how \in {"down", "stopped"} : Gone(j.process, how)
      BY <1>1 DEF Reject
    <2> QED
      BY <2>1, GoneTimers, JobParts
  <1>2. CASE ~(j \in Requests \/ phase[j.process] = "stopping")
    <2>1. job' = [job EXCEPT ![j] = NoRun] /\ Settled(j) /\ phase' = phase
      BY <1>2 DEF Reject, Release
    <2> QED
      BY <2>1, SettledTimers
  <1> QED
    BY <1>1, <1>2

LEMMA TimersStep ==
  ASSUME Typed, ProcessTyped, TimersKept, [Next]_vars
  PROVE  TimersKept'
  <1> USE DEF Typed
  <1>1. ASSUME NEW j \in Jobs, runSource(j)
        PROVE  TimersKept'
    <2>1. job'[j].pc = "connecting" /\ \A i \in Jobs : i # j => job'[i] = job[i]
      BY <1>1, Movements DEF Moves
    <2>2. armed' = armed \ {j} /\ phase' = phase /\ phase[j.process] = "up"
      BY <1>1 DEF runSource, Admits
    <2> QED
      BY <2>1, <2>2, TimerParts DEF TimersKept
  <1>2. ASSUME NEW j \in Jobs, \/ Connect(j) \/ Lock(j) \/ Collects(j) \/ TimesOut(j)
                               \/ StartRun(j) \/ Observe(j) \/ ObserveFails(j) \/ FinishRun(j)
                               \/ \E k \in Kinds : Project(j, k) \/ ProjectFails(j, k)
        PROVE  TimersKept'
    <2>1. armed' = armed /\ phase' = phase
      BY <1>2 DEF Connect, Lock, Collects, Answer, LateAnswer, TimesOut, StartRun, Observe,
                  ObserveFails, FinishRun, Project, ProjectFails, unchanged_by_writes, process
    <2>2. \A i \in Jobs : i # j => job'[i] = job[i]
      BY <1>2 DEF Connect, Lock, Collects, Answer, LateAnswer, TimesOut, StartRun, Observe,
                  ObserveFails, FinishRun, Project, ProjectFails, Goto
    <2>3. job[j].pc # "idle"
      BY <1>2 DEF Connect, Lock, Collects, Answer, LateAnswer, TimesOut, StartRun, Observe,
                  ObserveFails, FinishRun, Project, ProjectFails
    <2>4. job'[j].pc # "idle"
      <3>1. ASSUME NEW a \in Answers, Answer(j, a)
            PROVE  job'[j].pc = "starting"
        BY <3>1, Movements DEF Moves
      <3>2. ASSUME NEW k \in Kinds, Project(j, k) \/ ProjectFails(j, k)
            PROVE  job'[j].pc = "projecting"
        BY <3>2, Movements DEF Moves
      <3>3. \/ Connect(j) \/ LateAnswer(j) \/ TimesOut(j) \/ StartRun(j) \/ Observe(j)
            \/ ObserveFails(j) \/ FinishRun(j)
            => job'[j].pc # "idle"
        BY Movements DEF Moves
      <3>4. Lock(j) => job'[j].pc = "collecting"
        BY DEF Lock, RunType
      <3> QED
        BY <1>2, <3>1, <3>2, <3>3, <3>4 DEF Collects
    <2> QED
      BY <2>1, <2>2, <2>3, <2>4, TimerParts DEF TimersKept
  <1>3. ASSUME NEW j \in Jobs, Skip(j) \/ Unlock(j)
        PROVE  TimersKept'
    BY <1>3, SettledTimers DEF Skip, Unlock, Release
  <1>4. ASSUME NEW j \in Jobs, ConnectFails(j) \/ PersistFails(j)
        PROVE  TimersKept'
    BY <1>4, RejectTimers DEF ConnectFails, PersistFails
  <1>5. ASSUME NEW p \in Processes, Exit(p) \/ Crash(p)
        PROVE  TimersKept'
    BY <1>5, GoneTimers DEF Exit, Crash
  <1>6. ASSUME NEW p \in Processes, Boot(p)
        PROVE  TimersKept'
    <2>1. /\ armed' = armed \cup {t \in Timers : t.process = p} /\ job' = job
          /\ phase' = [phase EXCEPT ![p] = "up"] /\ phase[p] = "down"
      BY <1>6 DEF Boot
    <2> QED
      BY <2>1, TimerParts, JobParts DEF TimersKept, ProcessTyped
  <1>7. ASSUME NEW p \in Processes, Stop(p)
        PROVE  TimersKept'
    <2>1. /\ armed' = armed \ Of(p) /\ job' = job
          /\ phase' = [phase EXCEPT ![p] = "stopping"]
      BY <1>7 DEF Stop
    <2> QED
      BY <2>1, TimerParts, JobParts, OfParts DEF TimersKept, ProcessTyped
  <1>8. CASE UNCHANGED vars \/ Tick \/ SetBack
    BY <1>8 DEF vars, Tick, SetBack, process, TimersKept
  <1> QED
    BY <1>1, <1>2, <1>3, <1>4, <1>5, <1>6, <1>7, <1>8 DEF Next, Works, Faulty, Writes


-----------------------------------------------------------------------------
LEMMA AccountsInit == Init => Accounts
  <1> SUFFICES ASSUME Init PROVE Accounts
    OBVIOUS
  <1>1. \A p : Holding(p) = {}
    BY DEF Init, Holding, Of, NoRun
  <1>2. Balanced
    <2> SUFFICES ASSUME NEW p \in Processes
                 PROVE  /\ IsFiniteSet(Holding(p)) /\ conns[p] = Cardinality(Holding(p))
                        /\ conns[p] <= PoolSize
      BY DEF Balanced
    <2>1. conns[p] = 0 /\ 0 <= PoolSize
      BY CollectorAssumption DEF Init
    <2>2. IsFiniteSet({}) /\ Cardinality({}) = 0
      BY FS_EmptySet
    <2>3. Holding(p) = {}
      BY <1>1
    <2> QED
      BY <2>1, <2>2, <2>3
  <1> QED
    BY <1>2 DEF Init, Accounts, LocksInUse, TimersKept, NoRun, Timers, Jobs

LEMMA AccountsStep ==
  ASSUME Typed, ProcessTyped, LockHeld, Accounts, [Next]_vars
  PROVE  Accounts'
  BY BalanceStep, LocksInUseStep, TimersStep DEF Accounts

(* For any number of sources, processes and failures: no path through a    *)
(* run loses a connection, a lock or a timer, and none gives one back      *)
(* twice.                                                                  *)
THEOREM EverythingIsGivenBack == Spec => []NothingIsLost
  <1> DEFINE I == Typed /\ ProcessTyped /\ NoneForgotten /\ LockHeld /\ Accounts
  <1>1. Init => I
    BY InitTyped, AccountsInit DEF Init, ProcessTyped, NoneForgotten, LockHeld, Working, NoRun
  <1>2. I /\ [Next]_vars => I'
    BY TypedStep, ForgottenStep, LockStep, AccountsStep
  <1>3. I => NothingIsLost
    BY DEF Accounts, Balanced, LocksInUse, TimersKept, NothingIsLost
  <1> QED
    BY <1>1, <1>2, <1>3, PTL DEF Spec


-----------------------------------------------------------------------------
(* The rest of the typing.  Projections are counted down from all of them. *)
Counted ==
  \A j \in Jobs : job[j].projected + Cardinality(job[j].todo) <= Cardinality(Kinds)

RowsTyped ==
  \A k \in Sources \X Times : runs[k].revision \in 0..MaxRevision /\ runs[k].status \in Statuses

(* A run counts its projections from nothing.                              *)
FromNothing == \A j \in Jobs : job[j].pc \notin {"projecting", "unlocking"} => job[j].projected = 0

Rest ==
  /\ Counted /\ FromNothing /\ RowsTyped
  /\ stored \in [Sources \X Times -> {"none"} \cup Freshness]
  /\ snapshots \subseteq (Sources \X Times) \X Kinds
  /\ faults \in 0..MaxFaults

LEMMA KindsCounted ==
  /\ Cardinality({}) = 0 /\ Cardinality(Kinds) \in Nat
  /\ \A S \in SUBSET Kinds : \A k \in S :
       Cardinality(S) \in Nat /\ Cardinality(S \ {k}) = Cardinality(S) - 1
  /\ \A S \in SUBSET Kinds : Cardinality(S) \in Nat
  <1>1. IsFiniteSet(Kinds)
    BY CollectorAssumption
  <1>2. \A S \in SUBSET Kinds : IsFiniteSet(S)
    BY <1>1, FS_Subset
  <1>3. \A S \in SUBSET Kinds : Cardinality(S) \in Nat
    BY <1>2, FS_CardinalityType
  <1>4. \A S \in SUBSET Kinds : \A k \in S : Cardinality(S \ {k}) = Cardinality(S) - 1
    BY <1>2, FS_RemoveElement
  <1>5. Cardinality({}) = 0
    BY FS_EmptySet
  <1> QED
    BY <1>3, <1>4, <1>5

LEMMA FreshnessType == \A a \in Answers \cup {Timeout} : a.freshness \in Freshness
  BY DEF Freshness

LEMMA CountedStep ==
  ASSUME Typed, Counted, FromNothing, [Next]_vars
  PROVE  Counted'
  <1> USE DEF Typed
  <1> SUFFICES ASSUME NEW i \in Jobs
               PROVE  job'[i].projected + Cardinality(job'[i].todo) <= Cardinality(Kinds)
    BY DEF Counted
  <1>0. job[i] \in RunType /\ job[i].todo \in SUBSET Kinds /\ job[i].projected \in Nat
    BY DEF RunType
  <1>1. CASE job'[i] = job[i]
    BY <1>1 DEF Counted
  <1>2. CASE job'[i] = NoRun
    <2>1. job'[i].projected = 0 /\ job'[i].todo = {}
      BY <1>2 DEF NoRun
    <2> QED
      BY <2>1, KindsCounted
  <1>3. CASE Observe(i) \/ ObserveFails(i)
    <2>1. job'[i].todo = Kinds /\ job'[i].projected = job[i].projected /\ job[i].pc = "observing"
      BY <1>0, <1>3 DEF Observe, ObserveFails, RunType
    <2>2. job[i].projected = 0
      BY <2>1 DEF FromNothing
    <2> QED
      BY <2>1, <2>2, KindsCounted
  <1>4. ASSUME NEW k \in Kinds, Project(i, k) \/ ProjectFails(i, k)
        PROVE  job'[i].projected + Cardinality(job'[i].todo) <= Cardinality(Kinds)
    <2>1. /\ k \in job[i].todo /\ job'[i].todo = job[i].todo \ {k}
          /\ job'[i].projected \in {job[i].projected, job[i].projected + 1}
      BY <1>0, <1>4 DEF Project, ProjectFails, RunType
    <2>2. /\ Cardinality(job'[i].todo) = Cardinality(job[i].todo) - 1
          /\ Cardinality(job[i].todo) \in Nat /\ Cardinality(Kinds) \in Nat
      BY <1>0, <2>1, KindsCounted
    <2>3. job[i].projected + Cardinality(job[i].todo) <= Cardinality(Kinds)
      BY DEF Counted
    <2> QED
      BY <1>0, <2>1, <2>2, <2>3
  <1>5. CASE \/ runSource(i) \/ Connect(i) \/ Lock(i) \/ Collects(i) \/ TimesOut(i)
             \/ StartRun(i) \/ FinishRun(i)
    <2>1. job'[i].todo = job[i].todo /\ job'[i].projected = job[i].projected
      BY <1>0, <1>5 DEF runSource, Connect, Lock, Collects, Answer, LateAnswer, TimesOut, StartRun,
                        FinishRun, Goto, RunType
    <2> QED
      BY <2>1 DEF Counted
  <1> QED
    BY <1>1, <1>2, <1>3, <1>4, <1>5, JobCases DEF OwnStep


LEMMA FromNothingStep ==
  ASSUME Typed, FromNothing, [Next]_vars
  PROVE  FromNothing'
  <1> USE DEF Typed
  <1> SUFFICES ASSUME NEW i \in Jobs, job'[i].pc \notin {"projecting", "unlocking"}
               PROVE  job'[i].projected = 0
    BY DEF FromNothing
  <1>0. job[i] \in RunType
    OBVIOUS
  <1>1. CASE job'[i] = job[i]
    BY <1>1 DEF FromNothing
  <1>2. CASE job'[i] = NoRun
    BY <1>2 DEF NoRun
  <1>3. CASE Observe(i) \/ ObserveFails(i) \/ FinishRun(i)
    BY <1>3, Movements DEF Moves
  <1>4. ASSUME NEW k \in Kinds, Project(i, k) \/ ProjectFails(i, k)
        PROVE  FALSE
    BY <1>4, Movements DEF Moves
  <1>5. CASE \/ runSource(i) \/ Connect(i) \/ Lock(i) \/ Collects(i) \/ TimesOut(i) \/ StartRun(i)
    <2>1. job'[i].projected = job[i].projected
      BY <1>0, <1>5 DEF runSource, Connect, Lock, Collects, Answer, LateAnswer, TimesOut, StartRun,
                        Goto, RunType
    <2>2. job[i].pc \notin {"projecting", "unlocking"}
      BY <1>5 DEF runSource, Connect, Lock, Collects, Answer, LateAnswer, TimesOut, StartRun
    <2> QED
      BY <2>1, <2>2 DEF FromNothing
  <1> QED
    BY <1>1, <1>2, <1>3, <1>4, <1>5, JobCases DEF OwnStep

LEMMA RowsStep ==
  ASSUME Typed, RowsTyped, [Next]_vars
  PROVE  RowsTyped'
  <1>1. CASE runs' = runs
    BY <1>1 DEF RowsTyped
  <1>2. ASSUME NEW j \in Jobs, StartRun(j) \/ FinishRun(j)
        PROVE  RowsTyped'
    <2> SUFFICES ASSUME NEW k \in Sources \X Times
                 PROVE  runs'[k].revision \in 0..MaxRevision /\ runs'[k].status \in Statuses
      BY DEF RowsTyped
    <2>0. At(j) \in Sources \X Times /\ k \in DOMAIN runs
      BY KeyType DEF Typed
    <2>1. CASE k # At(j)
      BY <1>2, <2>1, RowAfter DEF RowsTyped
    <2>2. CASE k = At(j) /\ StartRun(j)
      <3>1. runs'[k] = runs[k] \/ runs'[k] = [NoRow EXCEPT !.revision = 1, !.status = "RUNNING"]
        BY <2>0, <2>2 DEF StartRun
      <3>2. [NoRow EXCEPT !.revision = 1, !.status = "RUNNING"].revision = 1
        BY DEF NoRow
      <3>3. [NoRow EXCEPT !.revision = 1, !.status = "RUNNING"].status = "RUNNING"
        BY DEF NoRow
      <3>4. 1 \in 0..MaxRevision /\ "RUNNING" \in Statuses
        BY CollectorAssumption DEF Statuses
      <3> QED
        BY <3>1, <3>2, <3>3, <3>4 DEF RowsTyped
    <2>3. CASE k = At(j) /\ FinishRun(j)
      <3>1. runs'[k] = Revised(runs[k], j)
        BY <2>0, <2>3 DEF FinishRun
      <3>2. runs[k].revision \in 0..MaxRevision /\ runs[k].status \in Statuses
        BY DEF RowsTyped
      <3>3. Revised(runs[k], j) = runs[k] \/ Revised(runs[k], j).revision \in 0..MaxRevision
        BY <3>2, CollectorAssumption DEF Revised
      <3>4. Revised(runs[k], j) = runs[k] \/ Revised(runs[k], j).status \in Statuses
        BY DEF Revised, Status, Statuses
      <3> QED
        BY <3>1, <3>2, <3>3, <3>4
    <2> QED
      BY <1>2, <2>1, <2>2, <2>3
  <1> QED
    BY <1>1, <1>2, OnlyStartAndFinish

LEMMA RestStep ==
  ASSUME Typed, Rest, [Next]_vars
  PROVE  Rest'
  <1>1. Counted' /\ FromNothing' /\ RowsTyped'
    BY CountedStep, FromNothingStep, RowsStep DEF Rest
  <1>2. stored' \in [Sources \X Times -> {"none"} \cup Freshness]
    <2>1. ASSUME NEW j \in Jobs, Observe(j)
          PROVE  stored' \in [Sources \X Times -> {"none"} \cup Freshness]
      BY <2>1, FreshnessType DEF Observe, Rest, Typed, RunType
    <2> QED
      BY <2>1, OnlyObserveStores DEF Rest
  <1>3. snapshots' \subseteq (Sources \X Times) \X Kinds
    <2>1. ASSUME NEW j \in Jobs, NEW k \in Kinds, Project(j, k)
          PROVE  snapshots' \subseteq (Sources \X Times) \X Kinds
      <3>1. <<At(j), k>> \in (Sources \X Times) \X Kinds
        BY KeyType DEF Typed
      <3> QED
        BY <2>1, <3>1 DEF Project, Rest
    <2>2. snapshots' = snapshots \/ \E j \in Jobs, k \in Kinds : Project(j, k)
      BY DEF Next, Works, Faulty, Writes, Collects, runSource, Connect, Lock, Skip, Answer, LateAnswer,
             StartRun, Observe, FinishRun, Unlock, ConnectFails, TimesOut, ObserveFails,
             PersistFails, ProjectFails, Boot, Stop, Exit, Crash, Tick, SetBack, vars, db,
             unchanged_by_writes
    <2> QED
      BY <2>1, <2>2 DEF Rest
  <1>4. faults' \in 0..MaxFaults
    <2>1. Fault \/ faults' = faults
      BY DEF Next, Works, Faulty, Writes, Collects, runSource, Connect, Lock, Skip, Answer, LateAnswer,
             StartRun, Observe, Project, FinishRun, Unlock, ConnectFails, TimesOut, ObserveFails,
             PersistFails, ProjectFails, Boot, Stop, Exit, Crash, Tick, SetBack, vars,
             unchanged_by_writes
    <2> QED
      BY <2>1, CollectorAssumption DEF Fault, Rest
  <1> QED
    BY <1>1, <1>2, <1>3, <1>4 DEF Rest

LEMMA TypingInit ==
  ASSUME Init
  PROVE  Typed /\ ProcessTyped /\ NoneForgotten /\ LockHeld /\ Accounts /\ Rest
  <1>1. Typed /\ Accounts
    BY InitTyped, AccountsInit
  <1>2. FromNothing
    BY DEF Init, FromNothing, NoRun
  <1>3. Counted
    <2> SUFFICES ASSUME NEW j \in Jobs
                 PROVE  job[j].projected + Cardinality(job[j].todo) <= Cardinality(Kinds)
      BY DEF Counted
    <2>1. job[j].projected = 0 /\ job[j].todo = {}
      BY DEF Init, NoRun
    <2> QED
      BY <2>1, KindsCounted
  <1>4. /\ RowsTyped /\ snapshots \subseteq (Sources \X Times) \X Kinds /\ faults \in 0..MaxFaults
        /\ stored \in [Sources \X Times -> {"none"} \cup Freshness]
    BY CollectorAssumption DEF Init, RowsTyped, NoRow, Statuses
  <1>5. ProcessTyped /\ NoneForgotten /\ LockHeld
    BY DEF Init, ProcessTyped, NoneForgotten, LockHeld, Working, NoRun
  <1> QED
    BY <1>1, <1>2, <1>3, <1>4, <1>5 DEF Rest

(* The types of the whole state, with the bounds that matter: a pool never *)
(* lends more than it has or less than nothing, and a run never counts     *)
(* more projections than it was given.                                     *)
THEOREM TypeCorrect == Spec => []TypeOK
  <1> DEFINE I == Typed /\ ProcessTyped /\ NoneForgotten /\ LockHeld /\ Accounts /\ Rest
  <1>1. Init => I
    BY TypingInit
  <1>2. I /\ [Next]_vars => I'
    BY TypedStep, ForgottenStep, LockStep, AccountsStep, RestStep
  <1>3. I => TypeOK
    <2> SUFFICES ASSUME I PROVE TypeOK
      OBVIOUS
    <2>1. conns \in [Processes -> 0..PoolSize]
      <3>1. \A p \in Processes : conns[p] \in 0..PoolSize
        BY CollectorAssumption DEF Accounts, Balanced
      <3> QED
        BY <3>1 DEF Accounts
    <2>2. \A j \in Jobs :
            /\ job[j].pc \in Pcs /\ job[j].at \in Times
            /\ job[j].answer \in Answers \cup {Timeout}
            /\ job[j].todo \subseteq Kinds
            /\ job[j].projected + Cardinality(job[j].todo) <= Cardinality(Kinds)
      BY DEF Typed, RunType, Rest, Counted
    <2> QED
      BY <2>1, <2>2 DEF TypeOK, Typed, ProcessTyped, Accounts, TimersKept, Rest, RowsTyped
  <1> QED
    BY <1>1, <1>2, <1>3, PTL DEF Spec


-----------------------------------------------------------------------------
(* The refinement.  A run that writes has a row, and rows stay.            *)
RunsRecorded ==
  \A j \in Jobs :
    job[j].pc \in {"observing", "projecting", "unlocking"} => runs[At(j)].revision > 0

LEMMA RevisionsGrow ==
  ASSUME Typed, RowsTyped, [Next]_vars, NEW key \in Sources \X Times
  PROVE  /\ runs'[key].revision >= runs[key].revision
         /\ runs[key].revision \in Nat /\ runs'[key].revision \in Nat
  <1>1. runs[key].revision \in 0..MaxRevision /\ runs'[key].revision \in 0..MaxRevision
    BY RowsStep DEF RowsTyped
  <1>2. CASE runs' = runs
    BY <1>1, <1>2, CollectorAssumption
  <1>3. ASSUME NEW j \in Jobs, StartRun(j) \/ FinishRun(j), key = At(j)
        PROVE  runs'[key].revision >= runs[key].revision
    <2>1. CASE StartRun(j) /\ runs[key].revision # 0
      BY <1>1, <1>3, <2>1, CollectorAssumption DEF StartRun
    <2>2. CASE runs[key].revision = 0
      BY <1>1, <2>2, CollectorAssumption
    <2>3. CASE FinishRun(j)
      <3>1. runs'[key] = Revised(runs[key], j)
        BY <1>3, <2>3 DEF FinishRun, Typed
      <3>2. Revised(runs[key], j).revision >= runs[key].revision
        BY <1>1, CollectorAssumption DEF Revised
      <3> QED
        BY <3>1, <3>2
    <2> QED
      BY <1>3, <2>1, <2>2, <2>3
  <1>4. ASSUME NEW j \in Jobs, StartRun(j) \/ FinishRun(j), key # At(j)
        PROVE  runs'[key].revision >= runs[key].revision
    BY <1>1, <1>4, RowAfter, CollectorAssumption
  <1> QED
    BY <1>1, <1>2, <1>3, <1>4, OnlyStartAndFinish, CollectorAssumption

LEMMA RecordedStep ==
  ASSUME Typed, RowsTyped, RunsRecorded, [Next]_vars
  PROVE  RunsRecorded'
  <1> USE DEF Typed
  <1> SUFFICES ASSUME NEW i \in Jobs, job'[i].pc \in {"observing", "projecting", "unlocking"}
               PROVE  runs'[<<i.source, job'[i].at>>].revision > 0
    BY DEF RunsRecorded, At
  <1>0. job[i] \in RunType /\ At(i) \in Sources \X Times /\ At(i) = <<i.source, job[i].at>>
    BY KeyType DEF At
  <1>1. ASSUME job'[i].at = job[i].at, job[i].pc \in {"observing", "projecting", "unlocking"}
        PROVE  runs'[<<i.source, job'[i].at>>].revision > 0
    <2>1. runs[At(i)].revision > 0
      BY <1>1 DEF RunsRecorded
    <2>2. /\ runs'[At(i)].revision >= runs[At(i)].revision
          /\ runs[At(i)].revision \in Nat /\ runs'[At(i)].revision \in Nat
      BY <1>0, RevisionsGrow
    <2> QED
      BY <1>0, <1>1, <2>1, <2>2
  <1>2. CASE job'[i] = job[i]
    BY <1>1, <1>2
  <1>3. CASE job'[i] = NoRun
    BY <1>3 DEF NoRun
  <1>4. CASE StartRun(i)
    <2>1. job'[i].at = job[i].at
      BY <1>0, <1>4 DEF StartRun, Goto, RunType
    <2>2. runs[At(i)].revision \in Nat
      BY <1>0, CollectorAssumption DEF RowsTyped
    <2>3. runs'[At(i)].revision > 0
      <3>1. CASE runs[At(i)].revision = 0
        BY <1>0, <1>4, <3>1 DEF StartRun, NoRow
      <3>2. CASE runs[At(i)].revision # 0
        BY <1>4, <2>2, <3>2 DEF StartRun
      <3> QED
        BY <3>1, <3>2
    <2> QED
      BY <1>0, <2>1, <2>3
  <1>5. CASE Observe(i) \/ ObserveFails(i) \/ FinishRun(i)
    BY <1>0, <1>1, <1>5 DEF Observe, ObserveFails, FinishRun, Goto, RunType
  <1>6. ASSUME NEW k \in Kinds, Project(i, k) \/ ProjectFails(i, k)
        PROVE  runs'[<<i.source, job'[i].at>>].revision > 0
    BY <1>0, <1>1, <1>6 DEF Project, ProjectFails, RunType
  <1>7. ASSUME NEW a \in Answers, Answer(i, a)
        PROVE  FALSE
    BY <1>7, Movements DEF Moves
  <1>8. CASE \/ runSource(i) \/ Connect(i) \/ LateAnswer(i) \/ TimesOut(i)
    BY <1>8, Movements DEF Moves
  <1>9. CASE Lock(i)
    BY <1>0, <1>9 DEF Lock, RunType
  <1> QED
    BY <1>2, <1>3, <1>4, <1>5, <1>6, <1>7, <1>8, <1>9, JobCases DEF OwnStep, Collects

(* What steps do to the sessions.                                          *)
LEMMA SameSession ==
  ASSUME Typed, LocksInUse, DOMAIN lock' = Sources,
         \A s \in Sources : lock'[s] = lock[s],
         \A j \in Jobs : Working(j) => job'[j].at = job[j].at
  PROVE  Session' = Session
  <1>1. \A s \in Sources : \A j \in lock[s] : job'[j].at = job[j].at
    BY DEF LocksInUse, Typed
  <1>2. \A s \in Sources : {job'[j].at : j \in lock'[s]} = {job[j].at : j \in lock[s]}
    BY <1>1
  <1> QED
    BY <1>2 DEF Session

LEMMA SessionOf ==
  ASSUME Typed, LockHeld, NEW j \in Jobs, Working(j)
  PROVE  job[j].at \in Session[j.source] /\ j.source \in Sources /\ job[j].at \in Times
  BY JobParts DEF LockHeld, Session, Typed, RunType

(* Locks are given back.                                                   *)
LEMMA SessionsEnd ==
  ASSUME Typed, LockHeld, LocksInUse, NEW gone \in SUBSET Jobs,
         lock' = [s \in Sources |-> lock[s] \ gone],
         \A j \in Jobs \ gone : job'[j] = job[j]
  PROVE  \E ended \in SUBSET Sources :
           Session' = [s \in Sources |-> IF s \in ended THEN {} ELSE Session[s]]
  <1> DEFINE ended == {s \in Sources : lock[s] \cap gone # {}}
  <1>1. ASSUME NEW s \in Sources, s \in ended
        PROVE  lock'[s] = {}
    <2>1. PICK j \in lock[s] : j \in gone
      BY <1>1
    <2>2. lock[s] = {j}
      BY <2>1 DEF LocksInUse, LockHeld
    <2> QED
      BY <2>1, <2>2
  <1>2. ASSUME NEW s \in Sources, s \notin ended
        PROVE  lock'[s] = lock[s] /\ \A j \in lock[s] : job'[j] = job[j]
    BY <1>2 DEF Typed
  <1> HIDE DEF ended
  <1>3. ASSUME NEW s \in Sources
        PROVE  {job'[j].at : j \in lock'[s]} = IF s \in ended THEN {} ELSE {job[j].at : j \in lock[s]}
    <2>1. CASE s \in ended
      BY <1>1, <2>1
    <2>2. CASE s \notin ended
      <3>1. lock'[s] = lock[s] /\ \A j \in lock[s] : job'[j] = job[j]
        BY <1>2, <2>2
      <3> QED
        BY <2>2, <3>1
    <2> QED
      BY <2>1, <2>2
  <1>4. Session' = [s \in Sources |-> IF s \in ended THEN {} ELSE Session[s]]
    BY <1>3 DEF Session
  <1>5. ended \in SUBSET Sources
    BY DEF ended
  <1> QED
    BY <1>4, <1>5


LEMMA LockOpens ==
  ASSUME Typed, LocksInUse, NEW j \in Jobs, Lock(j)
  PROVE  \E s \in Sources, t \in Times : Tables!Open(s, t)
  <1>1. j.source \in Sources /\ now \in Times
    BY JobParts DEF Typed
  <1>2. lock[j.source] = {} /\ lock' = [lock EXCEPT ![j.source] = {j}] /\ lock \in [Sources -> SUBSET Jobs]
    BY DEF Lock, Typed
  <1>3. job'[j].at = now /\ \A i \in Jobs : i # j => job'[i] = job[i]
    BY DEF Lock, Typed, RunType
  <1>4. Session[j.source] = {}
    BY <1>1, <1>2 DEF Session
  <1>5. ASSUME NEW s \in Sources
        PROVE  {job'[i].at : i \in lock'[s]} =
                 IF s = j.source THEN {now} ELSE {job[i].at : i \in lock[s]}
    <2>1. CASE s = j.source
      <3>1. lock'[s] = {j}
        BY <1>2, <2>1
      <3> QED
        BY <1>3, <2>1, <3>1
    <2>2. CASE s # j.source
      <3>1. lock'[s] = lock[s]
        BY <1>2, <2>2
      <3>2. \A i \in lock[s] : i \in Jobs /\ i # j
        BY <1>2, <2>2 DEF LocksInUse
      <3> QED
        BY <1>3, <2>2, <3>1, <3>2
    <2> QED
      BY <2>1, <2>2
  <1>6. Session' = [Session EXCEPT ![j.source] = {now}]
    BY <1>5 DEF Session
  <1>7. UNCHANGED <<runs, stored, current, snapshots>>
    BY DEF Lock, db
  <1>8. Tables!Open(j.source, now)
    BY <1>4, <1>6, <1>7 DEF Tables!Open, Tables!tables
  <1> QED
    BY <1>1, <1>8

LEMMA EndCloses ==
  ASSUME Typed, LockHeld, LocksInUse, UNCHANGED db,
         \/ \E p, how : Gone(p, how)
         \/ \E j \in Jobs : Release(j)
  PROVE  \E ended \in SUBSET Sources : Tables!Close(ended)
  <1> SUFFICES \E ended \in SUBSET Sources :
                 Session' = [s \in Sources |-> IF s \in ended THEN {} ELSE Session[s]]
    BY DEF Tables!Close, Tables!tables, db
  <1>1. ASSUME NEW p, NEW how, Gone(p, how)
        PROVE  \E ended \in SUBSET Sources :
                 Session' = [s \in Sources |-> IF s \in ended THEN {} ELSE Session[s]]
    <2>1. Of(p) \subseteq Jobs /\ lock' = [s \in Sources |-> lock[s] \ Of(p)]
      BY <1>1, OfParts DEF Gone
    <2>2. \A j \in Jobs \ Of(p) : job'[j] = job[j]
      BY <1>1, OfParts DEF Gone
    <2> QED
      BY <2>1, <2>2, SessionsEnd
  <1>2. ASSUME NEW j \in Jobs, Release(j)
        PROVE  \E ended \in SUBSET Sources :
                 Session' = [s \in Sources |-> IF s \in ended THEN {} ELSE Session[s]]
    <2>1. lock' = [lock EXCEPT ![j.source] = @ \ {j}] /\ lock \in [Sources -> SUBSET Jobs]
      BY <1>2 DEF Release, Typed
    <2>2. \A s \in Sources : s # j.source => j \notin lock[s]
      BY DEF LocksInUse
    <2>3. lock' = [s \in Sources |-> lock[s] \ {j}]
      BY <2>1, <2>2
    <2>4. \A i \in Jobs \ {j} : job'[i] = job[i]
      BY <1>2 DEF Release, Typed
    <2>5. {j} \in SUBSET Jobs
      OBVIOUS
    <2> QED
      BY <2>3, <2>4, <2>5, SessionsEnd
  <1> QED
    BY <1>1, <1>2

LEMMA StartStarts ==
  ASSUME Typed, LockHeld, LocksInUse, NEW j \in Jobs, StartRun(j)
  PROVE  \/ \E s \in Sources, t \in Times : Tables!Start(s, t)
         \/ UNCHANGED Tables!vars
  <1>1. Working(j) /\ \A i \in Jobs : job'[i].at = job[i].at
    BY DEF StartRun, Goto, Working, Typed, RunType
  <1>2. UNCHANGED <<lock, stored, current, snapshots>>
    BY DEF StartRun, unchanged_by_writes
  <1>3. Session' = Session
    BY <1>1, <1>2, SameSession DEF Typed
  <1>4. job[j].at \in Session[j.source] /\ j.source \in Sources /\ job[j].at \in Times
    BY <1>1, SessionOf
  <1>5. At(j) = <<j.source, job[j].at>> /\ At(j) \in DOMAIN runs
    BY KeyType DEF At, Typed
  <1>6. CASE runs[At(j)].revision = 0
    <2> DEFINE row == [NoRow EXCEPT !.revision = 1, !.status = "RUNNING"]
    <2>1. row.revision = 1 /\ row.status = "RUNNING"
      BY DEF NoRow
    <2>2. runs' = [runs EXCEPT ![At(j)] = row]
      BY <1>6 DEF StartRun
    <2> HIDE DEF row
    <2>3. runs'[At(j)] = row
      BY <1>5, <2>2
    <2>4. Tables!Start(j.source, job[j].at)
      BY <1>2, <1>3, <1>4, <1>5, <1>6, <2>1, <2>2, <2>3 DEF Tables!Start
    <2> QED
      BY <1>4, <2>4
  <1>7. CASE runs[At(j)].revision # 0
    BY <1>2, <1>3, <1>7 DEF StartRun, Tables!vars, Tables!tables
  <1> QED
    BY <1>6, <1>7

LEMMA ObserveStores ==
  ASSUME Typed, LockHeld, LocksInUse, RunsRecorded, CurrentIsLatest, NEW j \in Jobs, Observe(j)
  PROVE  \/ \E s \in Sources, t \in Times : Tables!Store(s, t)
         \/ UNCHANGED Tables!vars
  <1>1. /\ Working(j) /\ runs[At(j)].revision > 0
        /\ \A i \in Jobs : job'[i].at = job[i].at
    BY DEF Observe, Working, RunsRecorded, Typed, RunType
  <1>2. UNCHANGED <<lock, runs, snapshots>>
    BY DEF Observe, unchanged_by_writes
  <1>3. Session' = Session
    BY <1>1, <1>2, SameSession DEF Typed
  <1>4. job[j].at \in Session[j.source] /\ j.source \in Sources /\ job[j].at \in Times
    BY <1>1, SessionOf
  <1>5. At(j) = <<j.source, job[j].at>> /\ At(j) \in Sources \X Times
    BY KeyType DEF At, Typed
  <1>6. current' = Upsert(j.source, job[j].at) /\ current \in [Sources -> Times \cup {Never}]
    BY DEF Observe, Typed
  <1>7. current[j.source] # Never => current[j.source] \in Nat /\ job[j].at \in Nat
    BY <1>4, <1>6 DEF Times
  <1>8. CASE stored[At(j)] = "none"
    <2>1. /\ stored' = [stored EXCEPT ![At(j)] = job[j].answer.freshness]
          /\ job[j].answer.freshness # "none"
      BY <1>8, AnswerParts DEF Observe, Typed, RunType, Freshnesses
    <2>2. stored'[At(j)] = job[j].answer.freshness
      BY <1>5, <2>1 DEF Typed
    <2>3. current[j.source] # Never => job[j].at # current[j.source]
      BY <1>4, <1>5, <1>8 DEF CurrentIsLatest
    <2>4. current' = IF current[j.source] = Never \/ job[j].at > current[j.source]
                     THEN [current EXCEPT ![j.source] = job[j].at] ELSE current
      BY <1>6, <1>7, <2>3 DEF Upsert
    <2>5. Tables!Store(j.source, job[j].at)
      BY <1>1, <1>2, <1>3, <1>4, <1>5, <1>8, <2>1, <2>2, <2>4 DEF Tables!Store, Tables!Started
    <2> QED
      BY <1>4, <2>5
  <1>9. CASE stored[At(j)] # "none"
    <2>1. current[j.source] # Never /\ job[j].at <= current[j.source]
      BY <1>4, <1>5, <1>9 DEF CurrentIsLatest
    <2>2. current' = current
      <3>1. CASE job[j].at = current[j.source]
        BY <1>4, <1>6, <3>1 DEF Upsert
      <3>2. CASE job[j].at # current[j.source]
        BY <1>6, <1>7, <2>1, <3>2 DEF Upsert
      <3> QED
        BY <3>1, <3>2
    <2>3. stored' = stored
      BY <1>9 DEF Observe
    <2> QED
      BY <1>2, <1>3, <2>2, <2>3 DEF Tables!vars, Tables!tables
  <1> QED
    BY <1>8, <1>9

LEMMA ProjectDerives ==
  ASSUME Typed, LockHeld, LocksInUse, RunsRecorded, NEW j \in Jobs, NEW k \in Kinds, Project(j, k)
  PROVE  \E s \in Sources, t \in Times : Tables!Derive(s, t, k)
  <1>1. /\ Working(j) /\ runs[At(j)].revision > 0
        /\ \A i \in Jobs : job'[i].at = job[i].at
    BY DEF Project, Working, RunsRecorded, Typed, RunType
  <1>2. UNCHANGED <<lock, runs, stored, current>> /\ snapshots' = snapshots \cup {<<At(j), k>>}
    BY DEF Project, unchanged_by_writes
  <1>3. Session' = Session
    BY <1>1, <1>2, SameSession DEF Typed
  <1>4. job[j].at \in Session[j.source] /\ j.source \in Sources /\ job[j].at \in Times
    BY <1>1, SessionOf
  <1>5. At(j) = <<j.source, job[j].at>>
    BY DEF At
  <1>6. Tables!Derive(j.source, job[j].at, k)
    BY <1>1, <1>2, <1>3, <1>4, <1>5 DEF Tables!Derive, Tables!Started
  <1> QED
    BY <1>4, <1>6

LEMMA FinishFinishes ==
  ASSUME Typed, LockHeld, LocksInUse, RowsTyped, RunsRecorded, WrittenSoFar, NEW j \in Jobs,
         FinishRun(j), [Next]_vars
  PROVE  \E s \in Sources, t \in Times : Tables!Finish(s, t)
  <1>1. /\ Working(j) /\ runs[At(j)].revision > 0
        /\ \A i \in Jobs : job'[i].at = job[i].at
    BY DEF FinishRun, Goto, Working, RunsRecorded, Typed, RunType
  <1>2. UNCHANGED <<lock, stored, current, snapshots>>
    BY DEF FinishRun, unchanged_by_writes
  <1>3. Session' = Session
    BY <1>1, <1>2, SameSession DEF Typed
  <1>4. job[j].at \in Session[j.source] /\ j.source \in Sources /\ job[j].at \in Times
    BY <1>1, SessionOf
  <1>5. At(j) = <<j.source, job[j].at>> /\ At(j) \in Sources \X Times
    BY KeyType DEF At, Typed
  <1>6. runs' = [runs EXCEPT ![At(j)] = Revised(runs[At(j)], j)]
    BY DEF FinishRun
  <1>7. runs'[At(j)] = Revised(runs[At(j)], j) /\ runs'[At(j)].status = Status(j)
    BY <1>5, <1>6, RowAfter DEF Typed
  <1>8. runs'[At(j)].revision >= runs[At(j)].revision
    BY <1>5, RevisionsGrow
  <1>9. runs'[At(j)].status \in Tables!Terminal
    BY <1>7 DEF Status, Tables!Terminal
  <1>10. runs'[At(j)].status = "DONE" => Tables!Complete(j.source, job[j].at)
    <2> SUFFICES ASSUME Status(j) = "DONE"
                 PROVE  Tables!Complete(j.source, job[j].at)
      BY <1>7
    <2>1. /\ job[j].pc = "projecting" /\ job[j].todo = {}
          /\ ~job[j].observationFailed /\ ~job[j].snapshotFailed
      BY DEF FinishRun, Status, PersistFailed
    <2> QED
      BY <1>5, <2>1 DEF WrittenSoFar, Tables!Complete
  <1>11. runs' = [runs EXCEPT ![<<j.source, job[j].at>>] = runs'[<<j.source, job[j].at>>]]
    BY <1>5, <1>6, <1>7
  <1>12. Tables!Finish(j.source, job[j].at)
    BY <1>1, <1>2, <1>3, <1>4, <1>5, <1>8, <1>9, <1>10, <1>11 DEF Tables!Finish, Tables!Started
  <1> QED
    BY <1>4, <1>12

(* Everything a process does besides writing leaves the tables alone.      *)
LEMMA QuietRun ==
  ASSUME Typed, LocksInUse, NEW j \in Jobs,
         \/ runSource(j) \/ Connect(j) \/ Collects(j) \/ TimesOut(j) \/ ObserveFails(j)
         \/ \E k \in Kinds : ProjectFails(j, k)
  PROVE  UNCHANGED Tables!vars
  <1> DEFINE Quiet == UNCHANGED <<lock, db>> /\ \A i \in Jobs : job'[i].at = job[i].at
  <1> USE DEF Typed, RunType
  <1>1. ASSUME runSource(j) PROVE Quiet
    BY <1>1 DEF runSource, Goto
  <1>2. ASSUME Connect(j) \/ TimesOut(j) PROVE Quiet
    <2>1. CASE Connect(j)
      BY <2>1 DEF Connect, Goto
    <2>2. CASE TimesOut(j)
      BY <2>2 DEF TimesOut, Goto
    <2> QED
      BY <1>2, <2>1, <2>2
  <1>3. ASSUME Collects(j) PROVE Quiet
    BY <1>3 DEF Collects, LateAnswer, Answer
  <1>4. ASSUME ObserveFails(j) PROVE Quiet
    BY <1>4 DEF ObserveFails, unchanged_by_writes
  <1>5. ASSUME NEW k \in Kinds, ProjectFails(j, k) PROVE Quiet
    <2>1. UNCHANGED <<lock, db>>
      BY <1>5 DEF ProjectFails, unchanged_by_writes
    <2>2. job' = [job EXCEPT ![j].todo = @ \ {k}, ![j].snapshotFailed = TRUE]
      BY <1>5 DEF ProjectFails
    <2>3. job'[j].at = job[j].at /\ \A i \in Jobs : i # j => job'[i] = job[i]
      BY <2>2
    <2> QED
      BY <2>1, <2>3
  <1>6. Quiet
    BY <1>1, <1>2, <1>3, <1>4, <1>5
  <1>7. Session' = Session
    BY <1>6, SameSession
  <1> QED
    BY <1>6, <1>7 DEF db, Tables!vars, Tables!tables

LEMMA QuietProcess ==
  ASSUME UNCHANGED vars \/ Tick \/ SetBack \/ \E p \in Processes : Boot(p) \/ Stop(p)
  PROVE  UNCHANGED Tables!vars
  <1>1. UNCHANGED <<job, lock, db>>
    BY DEF vars, Tick, SetBack, Boot, Stop, db
  <1> QED
    BY <1>1 DEF db, Session, Tables!vars, Tables!tables

LEMMA RejectCloses ==
  ASSUME Typed, LockHeld, LocksInUse, UNCHANGED db, NEW j \in Jobs, Reject(j)
  PROVE  \/ \E ended \in SUBSET Sources : Tables!Close(ended)
         \/ UNCHANGED Tables!vars
  <1>1. CASE j \in Requests \/ phase[j.process] = "stopping"
    BY <1>1, EndCloses DEF Reject
  <1>2. CASE ~(j \in Requests \/ phase[j.process] = "stopping") /\ job[j].pc = "connecting"
    <2>1. lock' = lock /\ \A i \in Jobs : i # j => job'[i] = job[i]
      BY <1>2 DEF Reject, Typed
    <2>2. ~Working(j)
      BY <1>2 DEF LockHeld, Working
    <2>3. Session' = Session
      BY <2>1, <2>2, SameSession DEF Typed
    <2> QED
      BY <2>3 DEF db, Tables!vars, Tables!tables
  <1>3. CASE ~(j \in Requests \/ phase[j.process] = "stopping") /\ job[j].pc # "connecting"
    BY <1>3, EndCloses DEF Reject
  <1> QED
    BY <1>1, <1>2, <1>3

(* Every step of the service is a step of the tables, or none.             *)
LEMMA TablesStep ==
  ASSUME Typed, LockHeld, LocksInUse, RowsTyped, RunsRecorded, CurrentIsLatest, WrittenSoFar,
         [Next]_vars
  PROVE  [Tables!Next]_(Tables!vars)
  <1>1. ASSUME NEW j \in Jobs, Lock(j) PROVE Tables!Next
    BY <1>1, LockOpens DEF Tables!Next
  <1>2. ASSUME NEW j \in Jobs, StartRun(j) PROVE Tables!Next \/ UNCHANGED Tables!vars
    BY <1>2, StartStarts DEF Tables!Next
  <1>3. ASSUME NEW j \in Jobs, Observe(j) PROVE Tables!Next \/ UNCHANGED Tables!vars
    BY <1>3, ObserveStores DEF Tables!Next
  <1>4. ASSUME NEW j \in Jobs, NEW k \in Kinds, Project(j, k) PROVE Tables!Next
    BY <1>4, ProjectDerives DEF Tables!Next
  <1>5. ASSUME NEW j \in Jobs, FinishRun(j) PROVE Tables!Next
    BY <1>5, FinishFinishes DEF Tables!Next
  <1>6. ASSUME NEW j \in Jobs, Skip(j) \/ Unlock(j) PROVE Tables!Next
    <2>1. UNCHANGED db /\ Release(j)
      BY <1>6 DEF Skip, Unlock
    <2> QED
      BY <2>1, EndCloses DEF Tables!Next
  <1>7. ASSUME NEW j \in Jobs, ConnectFails(j) \/ PersistFails(j)
        PROVE  Tables!Next \/ UNCHANGED Tables!vars
    <2>1. UNCHANGED db /\ Reject(j)
      BY <1>7 DEF ConnectFails, PersistFails
    <2> QED
      BY <2>1, RejectCloses DEF Tables!Next
  <1>8. ASSUME NEW p \in Processes, Exit(p) \/ Crash(p) PROVE Tables!Next
    <2>1. UNCHANGED db /\ \E how : Gone(p, how)
      BY <1>8 DEF Exit, Crash
    <2> QED
      BY <2>1, EndCloses DEF Tables!Next
  <1>9. ASSUME NEW j \in Jobs,
               \/ runSource(j) \/ Connect(j) \/ Collects(j) \/ TimesOut(j) \/ ObserveFails(j)
               \/ \E k \in Kinds : ProjectFails(j, k)
        PROVE  UNCHANGED Tables!vars
    BY <1>9, QuietRun
  <1>10. CASE UNCHANGED vars \/ Tick \/ SetBack \/ \E p \in Processes : Boot(p) \/ Stop(p)
    BY <1>10, QuietProcess
  <1> QED
    BY <1>1, <1>2, <1>3, <1>4, <1>5, <1>6, <1>7, <1>8, <1>9, <1>10
    DEF Next, Works, Faulty, Writes

(* Whatever timers, requests, timeouts, crashes and failed writes do, the  *)
(* tables are written in sessions of one run per source that do not        *)
(* overlap, each row in its order, once or as a later revision: the        *)
(* service implements the tables its readers rely on (persistSourceResult).*)
THEOREM ServiceImplementsTables == Spec => ImplementsTables
  <1> DEFINE I == /\ Typed /\ ProcessTyped /\ NoneForgotten /\ LockHeld /\ Accounts /\ Rest
                  /\ RunsRecorded /\ CurrentIsLatest /\ WrittenSoFar
  <1>1. Init => RunsRecorded /\ CurrentIsLatest /\ WrittenSoFar
    BY DEF Init, RunsRecorded, CurrentIsLatest, WrittenSoFar, NoRun
  <1>2. Init => Tables!Init
    <2> SUFFICES ASSUME Init PROVE Tables!Init
      OBVIOUS
    <2>1. Session = [s \in Sources |-> {}]
      BY DEF Init, Session
    <2>2. \A k \in Sources \X Times : runs[k].revision = 0 /\ stored[k] = "none"
      BY DEF Init, NoRow
    <2> QED
      BY <2>1, <2>2 DEF Init, Tables!Init
  <1>3. Init => I
    BY <1>1, TypingInit
  <1>4. I /\ [Next]_vars => I'
    <2> SUFFICES ASSUME I, [Next]_vars PROVE I'
      OBVIOUS
    <2>1. RunsRecorded' /\ CurrentIsLatest' /\ WrittenSoFar'
      BY RecordedStep, LatestStep, WrittenStep DEF Rest
    <2> QED
      BY <2>1, TypedStep, ForgottenStep, LockStep, AccountsStep, RestStep
  <1>5. I /\ [Next]_vars => [Tables!Next]_(Tables!vars)
    BY TablesStep DEF Accounts, Rest
  <1> QED
    BY <1>2, <1>3, <1>4, <1>5, PTL DEF Spec, ImplementsTables, Tables!Spec

=============================================================================
