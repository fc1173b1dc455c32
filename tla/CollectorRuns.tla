---------------------------- MODULE CollectorRuns ----------------------------
(***************************************************************************)
(* The collector service (control-center/connectors/runner): processes     *)
(* that collect each source again and again, on a timer or on request, and *)
(* write what they learn to PostgreSQL.  A session advisory lock per       *)
(* source keeps two runs of one source apart, in one process and across    *)
(* processes; it is held on a pool connection of its own for the whole run *)
(* while every write takes a second connection and is a transaction of its *)
(* own.                                                                    *)
(*                                                                         *)
(* A connection that is lost while a run holds it raises an 'error' event  *)
(* nobody listens to, and a rejected manual run is a promise nobody        *)
(* catches: in both cases the process dies and is started again.           *)
(***************************************************************************)
EXTENDS Naturals, FiniteSets, Sequences, SequencesExt

CONSTANTS
  Processes,   \* collector containers
  Sources,     \* COLLECTOR_NAMES
  Kinds,       \* the snapshots projectCollector derives from an envelope
  Requested,   \* bound: the process and source of each POST /run
  PoolSize,    \* pg.Pool max
  Answers,     \* bound: [freshness, error] a collector may answer in time
  MaxTime,     \* bound: the clock, in steps of one millisecond or more
  MaxRevision, \* bound: revision numbers are counted up to here
  MaxFaults,   \* bound: failures of collectors, writes, processes and clock
  Never        \* no observation yet

Timeout == [freshness |-> "ERROR", error |-> "timeout"]
NoError == "none"

ASSUME CollectorAssumption ==
  /\ IsFiniteSet(Sources) /\ IsFiniteSet(Kinds) /\ Requested \subseteq Processes \X Sources
  /\ PoolSize \in Nat /\ PoolSize > Cardinality(Sources)
  /\ MaxTime \in Nat /\ MaxFaults \in Nat
  /\ MaxRevision \in Nat /\ MaxRevision >= 2
  /\ \A a \in Answers : /\ a.freshness \in {"FRESH", "STALE", "ERROR", "UNKNOWN"}
                        /\ a.error # NoError => a.freshness # "FRESH"
  /\ Never \notin Nat

Times == 0..MaxTime
Timers == {[process |-> p, source |-> s, by |-> "timer"] : p \in Processes, s \in Sources}
Requests == {[process |-> r[1], source |-> r[2], by |-> "manual"] : r \in Requested}

(* The runs that can be under way together: in each process one started by *)
(* the timer of a source and (bound) one started by a request for it.      *)
Jobs == Timers \cup Requests

VARIABLES
  now,       \* the clock the processes share
  phase,     \* of each process: down until start() is through
  armed,     \* setTimeout handles in CollectorScheduler.timers
  awaited,   \* inflightRuns when stop() was called
  conns,     \* connections checked out of each process' pool
  job,       \* the run each job is executing
  executing, \* jobs whose collector is still running
  lock,      \* the job whose session holds cc:collector-lock:<source>
  runs,      \* collector_runs with their latest revision, by source and time
  stored,    \* source_observations: freshness by source and time
  current,   \* current_source_observations: observed_at
  snapshots, \* operational_snapshots
  inTime,    \* history: source and time of good answers before the timeout
  cut,       \* history: runs cut off between their start and their finish
  faults     \* bound

db == <<runs, stored, current, snapshots>>
history == <<inTime, cut>>
process == <<phase, armed, awaited>>
vars == <<now, phase, armed, awaited, conns, job, executing, lock, runs, stored, current,
          snapshots, inTime, cut, faults>>

Of(p) == {j \in Jobs : j.process = p}

NoRun == [pc |-> "idle", at |-> 0, answer |-> Timeout, todo |-> {}, observationFailed |-> FALSE,
          snapshotFailed |-> FALSE, projected |-> 0]
NoRow == [revision |-> 0, status |-> "NONE", error |-> NoError, stats |-> <<>>]

Init ==
  /\ now = 0
  /\ phase = [p \in Processes |-> "down"]
  /\ armed = {}
  /\ awaited = [p \in Processes |-> {}]
  /\ conns = [p \in Processes |-> 0]
  /\ job = [j \in Jobs |-> NoRun]
  /\ executing = {}
  /\ lock = [s \in Sources |-> {}]
  /\ runs = [k \in Sources \X Times |-> NoRow]
  /\ stored = [k \in Sources \X Times |-> "none"]
  /\ current = [s \in Sources |-> Never]
  /\ snapshots = {}
  /\ inTime = {}
  /\ cut = {}
  /\ faults = 0

Fault == faults < MaxFaults /\ faults' = faults + 1

-----------------------------------------------------------------------------
(* Processes.                                                              *)

(* restart: unless-stopped, and start(): SELECT 1 answers, and every       *)
(* source gets its first timer.                                            *)
Boot(p) ==
  /\ phase[p] = "down"
  /\ phase' = [phase EXCEPT ![p] = "up"]
  /\ armed' = armed \cup {t \in Timers : t.process = p}
  /\ UNCHANGED <<now, awaited, conns, job, executing, lock, db, history, faults>>

(* Keys of the runs of these jobs that have a row and no terminal status.  *)
Unfinished(js) ==
  {<<j.source, job[j].at>> : j \in {i \in js : job[i].pc \in {"observing", "projecting"}}}

(* The process is gone: its sessions end and with them its locks.          *)
Gone(p, how) ==
  /\ phase' = [phase EXCEPT ![p] = how]
  /\ armed' = armed \ Of(p)
  /\ awaited' = [awaited EXCEPT ![p] = {}]
  /\ conns' = [conns EXCEPT ![p] = 0]
  /\ job' = [j \in Jobs |-> IF j.process = p THEN NoRun ELSE job[j]]
  /\ executing' = executing \ Of(p)
  /\ lock' = [s \in Sources |-> lock[s] \ Of(p)]

(* Killed, or a connection was lost, or the audit write of POST /run was   *)
(* rejected with nobody to catch it.                                       *)
Crash(p) ==
  /\ phase[p] \in {"up", "stopping"}
  /\ Fault
  /\ Gone(p, "down")
  /\ cut' = cut \cup Unfinished(Of(p))
  /\ UNCHANGED <<now, db, inTime>>

(* SIGTERM: stop() clears the timers and waits for the runs in flight.     *)
Stop(p) ==
  /\ phase[p] \in {"down", "up"}
  /\ phase' = [phase EXCEPT ![p] = "stopping"]
  /\ armed' = armed \ Of(p)
  /\ awaited' = [awaited EXCEPT ![p] = {j \in Of(p) : job[j].pc # "idle"}]
  /\ UNCHANGED <<now, conns, job, executing, lock, db, history, faults>>

(* Mutant of Drained: stop() clears the timers and waits for nobody.       *)
DrainedAtOnce(p) == TRUE

(* Promise.all over the runs that were in flight.                          *)
Drained(p) == \A j \in awaited[p] : job[j].pc = "idle"

Exit(p) ==
  /\ phase[p] = "stopping"
  /\ Drained(p)
  /\ Gone(p, "stopped")
  /\ UNCHANGED <<now, db, history, faults>>

Tick ==
  /\ now < MaxTime
  /\ now' = now + 1
  /\ UNCHANGED <<process, conns, job, executing, lock, db, history, faults>>

(* The system clock is set back.                                           *)
SetBack ==
  /\ \E t \in 0..now : t < now /\ now' = t
  /\ Fault
  /\ UNCHANGED <<process, conns, job, executing, lock, db, history>>

-----------------------------------------------------------------------------
(* One run: runSource, runSourceLocked.                                    *)

At(j) == <<j.source, job[j].at>>
Goto(j, pc) == job' = [job EXCEPT ![j].pc = pc]

(* arm(): not while stopping.                                              *)
Rearmed(j) == IF j \in Timers /\ phase[j.process] # "stopping" THEN armed \cup {j} ELSE armed

(* Mutant of Settled: .then(arm), which a run that is skipped or rejects   *)
(* never reaches.                                                          *)
SettledIfDone(j) == armed' = IF job[j].pc = "unlocking" THEN Rearmed(j) ELSE armed

(* .finally(arm): however the run ended.                                   *)
Settled(j) == armed' = Rearmed(j)

(* Mutant of Release: released in the run and once more by its caller.     *)
ReleaseTwice(j) ==
  /\ lock' = [lock EXCEPT ![j.source] = @ \ {j}]
  /\ conns' = [conns EXCEPT ![j.process] = @ - 2]
  /\ job' = [job EXCEPT ![j] = NoRun]

(* finally: the lock is given back, then the connection, and the run is no *)
(* longer in flight.                                                       *)
Release(j) ==
  /\ lock' = [lock EXCEPT ![j.source] = @ \ {j}]
  /\ conns' = [conns EXCEPT ![j.process] = @ - 1]
  /\ job' = [job EXCEPT ![j] = NoRun]

(* The run rejects.  A timer's run is caught; the handler of POST /run is  *)
(* not, and while stopping it makes Promise.all and so stop() reject: in   *)
(* both cases the process exits with whatever else it was doing.           *)
Reject(j) ==
  IF j \in Requests \/ phase[j.process] = "stopping"
  THEN /\ Gone(j.process, IF phase[j.process] = "stopping" THEN "stopped" ELSE "down")
       /\ cut' = cut \cup Unfinished(Of(j.process))
  ELSE /\ IF job[j].pc = "connecting"
          THEN job' = [job EXCEPT ![j] = NoRun] /\ UNCHANGED <<lock, conns>>
          ELSE Release(j)
       /\ Settled(j)
       /\ cut' = cut \cup Unfinished({j})
       /\ UNCHANGED <<phase, awaited, executing>>

(* Mutant of Admits: stop() is not looked at.                              *)
AdmitsWhileStopping(p) == phase[p] \in {"up", "stopping"}

(* this.stopping || !this.initialized.                                     *)
Admits(p) == phase[p] = "up"

(* A timer fires or POST /run asks for the source.                         *)
runSource(j) ==
  /\ job[j].pc = "idle"
  /\ Admits(j.process)
  /\ IF j \in Timers THEN j \in armed ELSE TRUE
  /\ armed' = armed \ {j}
  /\ Goto(j, "connecting")
  /\ UNCHANGED <<now, phase, awaited, conns, executing, lock, db, history, faults>>

PoolFree(j) == conns[j.process] < PoolSize

(* pool.connect().                                                         *)
Connect(j) ==
  /\ job[j].pc = "connecting"
  /\ PoolFree(j)
  /\ conns' = [conns EXCEPT ![j.process] = @ + 1]
  /\ Goto(j, "locking")
  /\ UNCHANGED <<now, process, executing, lock, db, history, faults>>

(* connectionTimeoutMillis, or a query of the lock connection fails.       *)
ConnectFails(j) ==
  /\ job[j].pc \in {"connecting", "locking"}
  /\ Fault
  /\ Reject(j)
  /\ UNCHANGED <<now, db, inTime>>

(* trySourceLock: the source is free; collectWithTimeout reads the clock   *)
(* and starts the collector.                                               *)
Lock(j) ==
  /\ job[j].pc = "locking"
  /\ lock[j.source] = {}
  /\ lock' = [lock EXCEPT ![j.source] = {j}]
  /\ job' = [job EXCEPT ![j].pc = "collecting", ![j].at = now]
  /\ executing' = executing \cup {j}
  /\ UNCHANGED <<now, process, conns, db, history, faults>>

(* Mutant of Skip: the connection of a skipped run is not released.        *)
SkipHoldingOn(j) ==
  /\ job[j].pc = "locking"
  /\ lock[j.source] # {}
  /\ Goto(j, "idle")
  /\ Settled(j)
  /\ UNCHANGED <<now, phase, awaited, conns, executing, lock, db, history, faults>>

(* Another run has the source: "skipped".                                  *)
Skip(j) ==
  /\ job[j].pc = "locking"
  /\ lock[j.source] # {}
  /\ Release(j)
  /\ Settled(j)
  /\ UNCHANGED <<now, phase, awaited, executing, db, history, faults>>

(* The collector answers before its timeout; a failure is an envelope too. *)
Answer(j, a) ==
  /\ job[j].pc = "collecting"
  /\ IF a.error = NoError THEN UNCHANGED faults ELSE Fault
  /\ executing' = executing \ {j}
  /\ job' = [job EXCEPT ![j].pc = "starting", ![j].answer = a]
  /\ inTime' = IF a.error = NoError THEN inTime \cup {At(j)} ELSE inTime
  /\ UNCHANGED <<now, process, conns, lock, db, cut>>

(* Mutant of TimesOut: the run goes on without waiting for the collector.  *)
TimesOutAndGoesOn(j) ==
  /\ job[j].pc = "collecting"
  /\ Fault
  /\ job' = [job EXCEPT ![j].pc = "starting", ![j].answer = Timeout]
  /\ UNCHANGED <<now, process, conns, executing, lock, db, history>>

(* The timeout fires and the collector is told to abort.                   *)
TimesOut(j) ==
  /\ job[j].pc = "collecting"
  /\ Fault
  /\ Goto(j, "overdue")
  /\ UNCHANGED <<now, process, conns, executing, lock, db, history>>

(* Mutant of LateAnswer: what the collector answered late is used.         *)
LateAnswerUsed(j) ==
  /\ job[j].pc = "overdue"
  /\ executing' = executing \ {j}
  /\ \E a \in Answers : job' = [job EXCEPT ![j].pc = "starting", ![j].answer = a]
  /\ UNCHANGED <<now, process, conns, lock, db, history, faults>>

(* No collector listens to the signal: the run waits until this one has    *)
(* settled and drops what it says.                                         *)
LateAnswer(j) ==
  /\ job[j].pc = "overdue"
  /\ executing' = executing \ {j}
  /\ job' = [job EXCEPT ![j].pc = "starting", ![j].answer = Timeout]
  /\ UNCHANGED <<now, process, conns, lock, db, history, faults>>

-----------------------------------------------------------------------------
(* persistSourceResult: each call is a transaction on another connection.  *)

unchanged_by_writes == <<now, process, conns, executing, lock, inTime>>

(* Mutant of StartRun: a run that comes again is taken back to RUNNING.    *)
StartRunAgain(j) ==
  /\ job[j].pc = "starting"
  /\ PoolFree(j)
  /\ runs' = [runs EXCEPT ![At(j)] = [NoRow EXCEPT !.revision = 1, !.status = "RUNNING"]]
  /\ Goto(j, "observing")
  /\ UNCHANGED <<unchanged_by_writes, stored, current, snapshots, cut, faults>>

(* startCollectorRun: the run with this key, or a new one.                 *)
StartRun(j) ==
  /\ job[j].pc = "starting"
  /\ PoolFree(j)
  /\ runs' = IF runs[At(j)].revision = 0
             THEN [runs EXCEPT ![At(j)] = [NoRow EXCEPT !.revision = 1, !.status = "RUNNING"]]
             ELSE runs
  /\ Goto(j, "observing")
  /\ UNCHANGED <<unchanged_by_writes, stored, current, snapshots, cut, faults>>

(* Mutant of Upsert: the last writer wins.                                 *)
UpsertAny(s, t) == [current EXCEPT ![s] = t]

(* upsertCurrentObservation: WHERE EXCLUDED.observed_at >= observed_at.    *)
Upsert(s, t) ==
  IF current[s] = Never \/ t >= current[s] THEN [current EXCEPT ![s] = t] ELSE current

(* recordObservation: one row per key, the first stays.                    *)
Observe(j) ==
  /\ job[j].pc = "observing"
  /\ PoolFree(j)
  /\ stored' = IF stored[At(j)] = "none"
               THEN [stored EXCEPT ![At(j)] = job[j].answer.freshness]
               ELSE stored
  /\ current' = Upsert(j.source, job[j].at)
  /\ job' = [job EXCEPT ![j].pc = "projecting", ![j].todo = Kinds]
  /\ UNCHANGED <<unchanged_by_writes, runs, snapshots, cut, faults>>

ObserveFails(j) ==
  /\ job[j].pc = "observing"
  /\ Fault
  /\ job' = [job EXCEPT ![j].pc = "projecting", ![j].todo = Kinds, ![j].observationFailed = TRUE]
  /\ UNCHANGED <<unchanged_by_writes, db, cut>>

(* recordSnapshot of one projection: one row per key, the first stays.     *)
Project(j, k) ==
  /\ job[j].pc = "projecting" /\ k \in job[j].todo
  /\ PoolFree(j)
  /\ snapshots' = snapshots \cup {<<At(j), k>>}
  /\ job' = [job EXCEPT ![j].todo = @ \ {k}, ![j].projected = @ + 1]
  /\ UNCHANGED <<unchanged_by_writes, runs, stored, current, cut, faults>>

(* Mutant of ProjectFails: the failure is logged and forgotten.            *)
ProjectFailsUnnoticed(j, k) ==
  /\ job[j].pc = "projecting" /\ k \in job[j].todo
  /\ Fault
  /\ job' = [job EXCEPT ![j].todo = @ \ {k}]
  /\ UNCHANGED <<unchanged_by_writes, db, cut>>

ProjectFails(j, k) ==
  /\ job[j].pc = "projecting" /\ k \in job[j].todo
  /\ Fault
  /\ job' = [job EXCEPT ![j].todo = @ \ {k}, ![j].snapshotFailed = TRUE]
  /\ UNCHANGED <<unchanged_by_writes, db, cut>>

(* Every projection was tried: what the run ends with.                     *)
CollectFailed(j) == job[j].answer.error # NoError
PersistFailed(j) == job[j].observationFailed \/ job[j].snapshotFailed

Status(j) ==
  IF CollectFailed(j) THEN IF job[j].answer.freshness = "UNKNOWN" THEN "UNKNOWN" ELSE "FAILED"
  ELSE IF PersistFailed(j) THEN "PARTIAL" ELSE "DONE"

ErrorCode(j) ==
  IF CollectFailed(j) THEN job[j].answer.error
  ELSE IF PersistFailed(j) THEN "persist_partial" ELSE NoError

(* The stats as an object literal: its keys in the order of the source.    *)
Stats(j) ==
  << <<"observationFailed", job[j].observationFailed>>, <<"snapshotFailed", job[j].snapshotFailed>>,
     <<"collectFailed", CollectFailed(j)>>, <<"projected", job[j].projected>> >>

(* Mutant of jsonb: a column that keeps the text of the object.            *)
AsText(object) == object

(* A jsonb column gives the keys of an object back by length.              *)
jsonb(object) == SortSeq(object, LAMBDA a, b : Len(a[1]) < Len(b[1]))

(* sameTerminal compares JSON.stringify of what the column gave back with  *)
(* that of the literal: texts in which the order of the keys counts.       *)
SameTerminal(row, j) ==
  /\ row.status = Status(j)
  /\ row.error = ErrorCode(j)
  /\ row.stats = Stats(j)

(* finishCollectorRun: the next revision, even over a terminal one.        *)
Revised(row, j) ==
  IF SameTerminal(row, j) THEN row
  ELSE [revision |-> IF row.revision < MaxRevision THEN row.revision + 1 ELSE row.revision,
        status |-> Status(j), error |-> ErrorCode(j), stats |-> jsonb(Stats(j))]

FinishRun(j) ==
  /\ job[j].pc = "projecting" /\ job[j].todo = {}
  /\ PoolFree(j)
  /\ runs' = [runs EXCEPT ![At(j)] = Revised(@, j)]
  /\ Goto(j, "unlocking")
  /\ UNCHANGED <<unchanged_by_writes, stored, current, snapshots, cut, faults>>

(* startCollectorRun or finishCollectorRun fails: persistSourceResult      *)
(* rejects, and a run that was started stays RUNNING.                      *)
PersistFails(j) ==
  /\ job[j].pc = "starting" \/ (job[j].pc = "projecting" /\ job[j].todo = {})
  /\ Fault
  /\ Reject(j)
  /\ UNCHANGED <<now, db, inTime>>

Unlock(j) ==
  /\ job[j].pc = "unlocking"
  /\ Release(j)
  /\ Settled(j)
  /\ UNCHANGED <<now, phase, awaited, executing, db, history, faults>>

-----------------------------------------------------------------------------
Faulty(j) ==
  \/ ConnectFails(j) \/ TimesOut(j) \/ ObserveFails(j) \/ PersistFails(j)
  \/ \E k \in Kinds : ProjectFails(j, k)

Collects(j) == LateAnswer(j) \/ \E a \in Answers : Answer(j, a)

Writes(j) ==
  \/ StartRun(j) \/ Observe(j) \/ FinishRun(j) \/ Unlock(j)
  \/ \E k \in Kinds : Project(j, k)

Works(j) == Connect(j) \/ Lock(j) \/ Skip(j) \/ Collects(j) \/ Writes(j)

Next ==
  \/ \E j \in Jobs : runSource(j) \/ Works(j) \/ Faulty(j)
  \/ \E p \in Processes : Boot(p) \/ Stop(p) \/ Exit(p) \/ Crash(p)
  \/ Tick \/ SetBack

Spec == Init /\ [][Next]_vars

(* A run's awaits are served in the order they were queued (the pool's     *)
(* waiting list), a collector settles because each of its requests has a   *)
(* timeout of its own, an armed timer fires, and Docker starts a container *)
(* again.  Nothing makes the clock move on or a request arrive.            *)
Fairness ==
  /\ \A j \in Jobs : SF_vars(Works(j))
  /\ \A j \in Timers : WF_vars(runSource(j))
  /\ \A p \in Processes : WF_vars(Boot(p)) /\ WF_vars(Exit(p))

FairSpec == Spec /\ Fairness

-----------------------------------------------------------------------------
Pcs == {"idle", "connecting", "locking", "collecting", "overdue", "starting", "observing",
        "projecting", "unlocking"}
Statuses == {"NONE", "RUNNING", "DONE", "PARTIAL", "FAILED", "UNKNOWN"}
Freshness == {Timeout.freshness} \cup {a.freshness : a \in Answers}

(* Its collector runs, or it writes what the collector answered.           *)
Working(j) == j \in executing \/ job[j].pc \in {"starting", "observing", "projecting", "unlocking"}

(* Every run, lock, row and timer has its type: no path gives back more    *)
(* connections than it took, or counts a projection twice.                 *)
TypeOK ==
  /\ now \in Times
  /\ phase \in [Processes -> {"down", "up", "stopping", "stopped"}]
  /\ armed \subseteq Timers
  /\ awaited \in [Processes -> SUBSET Jobs]
  /\ \A j \in Jobs :
       /\ job[j].pc \in Pcs /\ job[j].at \in Times
       /\ job[j].answer \in Answers \cup {Timeout}
       /\ job[j].todo \subseteq Kinds
       /\ job[j].projected + Cardinality(job[j].todo) <= Cardinality(Kinds)
  /\ executing \subseteq Jobs
  /\ lock \in [Sources -> SUBSET Jobs]
  /\ \A k \in Sources \X Times : runs[k].revision \in 0..MaxRevision /\ runs[k].status \in Statuses
  /\ stored \in [Sources \X Times -> {"none"} \cup Freshness]
  /\ current \in [Sources -> Times \cup {Never}]
  /\ snapshots \subseteq (Sources \X Times) \X Kinds
  /\ faults \in 0..MaxFaults
  /\ conns \in [Processes -> 0..PoolSize]

(* One source is collected, and written, by one run at a time, in whatever *)
(* process, also while a collector that timed out is still running         *)
(* (connectors/runner/tests/lock.test.ts:25 and :99).                      *)
OneRunPerSource ==
  \A i, j \in Jobs : i # j /\ i.source = j.source => ~(Working(i) /\ Working(j))

(* The current observation of a source is the newest one that was stored,  *)
(* whatever the order in which runs of a clock that is set back, of other  *)
(* processes and of earlier crashes were written.                          *)
CurrentIsLatest ==
  \A s \in Sources :
    /\ current[s] # Never => stored[<<s, current[s]>>] # "none"
    /\ \A t \in Times : stored[<<s, t>>] # "none" => current[s] # Never /\ t <= current[s]

(* A run that ends DONE has everything in the database: its observation    *)
(* and each snapshot derived from it; each write may have failed.          *)
DoneIsComplete ==
  \A s \in Sources, t \in Times :
    runs[<<s, t>>].status = "DONE" =>
      /\ stored[<<s, t>>] # "none"
      /\ \A k \in Kinds : <<<<s, t>>, k>> \in snapshots

(* A good observation is what a collector answered in time: the answer of  *)
(* a run that was recorded as timed out never reaches a reader.            *)
LateAnswersAreDropped ==
  \A s \in Sources, t \in Times : stored[<<s, t>>] = "FRESH" => <<s, t>> \in inTime

(* A run is RUNNING in the database only while somebody is at work on it,  *)
(* or if a crash or a failed write cut it off: stop() cuts nothing off.    *)
StopCutsNothing ==
  \A s \in Sources, t \in Times :
    runs[<<s, t>>].status = "RUNNING" =>
      <<s, t>> \in cut \/ \E j \in Jobs : <<s, t>> \in Unfinished({j})

(* Runs of a process that have a connection checked out, and so may hold   *)
(* the lock of their source.                                               *)
Holding(p) == {j \in Of(p) : job[j].pc \notin {"idle", "connecting"}}

(* What the readers of the tables see of all this is CollectedSources: the *)
(* session of a source is the run that holds its lock.                     *)
Session == [s \in Sources |-> {job[j].at : j \in lock[s]}]

Tables == INSTANCE CollectedSources WITH open <- Session

(* Timers, requests, processes, timeouts, crashes and failed writes refine *)
(* sessions that do not overlap: whatever interleaves, each row is written *)
(* under the lock of its source, after the row of its run, once, or as a   *)
(* later revision (persistSourceResult, recordObservation).                *)
ImplementsTables == Tables!Spec

(* However runs end - skipped, failed, timed out, rejected, cut off - the  *)
(* pool has lent as many connections as there are runs that use one, each  *)
(* lock belongs to a run that still works on its source, and the timer of  *)
(* a source is armed or on its run, never neither and never both.          *)
NothingIsLost ==
  /\ \A p \in Processes : conns[p] = Cardinality(Holding(p))
  /\ \A s \in Sources : \A j \in lock[s] : j.source = s /\ Working(j)
  /\ \A t \in Timers : phase[t.process] = "up" => (t \in armed <=> job[t].pc = "idle")

(* However a run ended, skipped, rejected or cut off, its source is        *)
(* collected again and again until every process is stopped: no connection,*)
(* lock or timer is lost on the way.                                       *)
EverySourceIsCollected ==
  \A s \in Sources :
    []<>(\/ \E j \in executing : j.source = s
         \/ \A p \in Processes : phase[p] \in {"stopping", "stopped"})

=============================================================================
