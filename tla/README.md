# A verification of the control center

TLA+ modules of the control center of this repository (`src/control-center`,
TypeScript on PostgreSQL), the TLC runs that check them on small instances, and
theorems about them that TLAPS checks for every value of the constants.

`PROJECT.json` maps each definition to the lines it models and lists runs,
theorems, hazards, findings and, for each checked property, a *mutant*: a
plausible bug in the code, written next to the definition it replaces, that
makes the run fail.

    tlc -workers 2 -config MCContextStore.cfg MCContextStore
    tlapm ContextStoreProofs.tla

## 1. The system

| Part | State it keeps | Operations | Speaks to |
|---|---|---|---|
| Delivery Work Orders (`domains/delivery`) | an aggregate with stage, SLA clock, gates, logs; tables `work_orders`, `work_order_events`, `work_order_event_holds` | 25 event types; append, rebuild, get, list | PostgreSQL |
| Context service (`services/context`) | memory (directives, proposals, reports), a promise chain of pending writes, the database | create, version, supersede, expire, activate, revoke, proposals, agent reports, Warmbly review, views | MCP service and UIs call it over HTTP; persistence |
| MCP service (`services/mcp`) | none | tools | context service |
| Persistence (`persistence`) | all tables; migrations, retention | one function per write, each in `withTransaction` | PostgreSQL |
| Collector runner (`connectors/runner`) | timers, running collections, a session lock per source | collect on an interval with a timeout, persist run, observation, snapshots | connectors, persistence |
| Warmbly operator channel (`connectors/warmbly/src/operator`) | confirmation tokens, ledger, circuit breaker | pause, resume (two steps), acknowledge | Warmbly over HTTP |
| Human gate (`apps/web-shell`, edge in `connectors/warmbly/src/human-gate`) | per tab: claimed forms, optimistic marks, URL, screen; shared by tabs: the generation of each intent's key; the edge keeps nothing | submit, retry, read back, report, navigate, reload | Warmbly, through the edge |
| Connectors GitHub, Asaas, PNCP, infrastructure | none between collections | collect with retries | external APIs |
| Domains agent-activity, clients, commercial, engineering, finance | read models in memory | apply, query | observations |
| Attention (`intelligence/attention`) | none (pure) | merge, score, kill, override, rank | read models |
| Governance importer | candidate files, database | import | git, PostgreSQL |
| Commercial and delivery procedures (Python) | JSON files | admit, cycle, route, capacity, readiness | files |
| Contracts, apps, QA, security, deploy | none of their own | validate, render | - |

What is hard in it, and what each part has to guarantee:

* **Work Orders.** A long protocol with loops (failed QA, client rework, clock
  pauses) in which no gate may be skipped; several processes append to one
  stream with orders they read earlier, retry after lost answers, and pick
  their own ids and keys. The row must stay the replay of the stream, an
  accepted identity must have one live order, answers must be true, every call
  must end.
* **Context service.** Requests change memory at once and the database later,
  one transaction after the other, with the audit event in a transaction of
  its own. Transactions fail; the process stops between any two of them. The
  stored history must stay in order, numbers must stay free, a closed directive
  must stay closed, a failed write must not take another with it, and a 2xx
  answer must mean something.
* **Collector runner.** A timeout races a late result; a lock is held across
  the collection; a crash between start and finish leaves a run open; runs and
  observations are retried with the same keys and may arrive out of order.
* **Operator channel.** A pause must not be undone by a resume that was
  confirmed before it; a timeout may hide an applied call; every call leaves
  one ledger entry.
* **Human gate.** A form becomes a chain of requests in a browser tab. Answers
  are lost, refused or late, the server drifts between a write and its
  readback, tabs reload, and paints overtake each other. A retry must not take
  effect twice, a report must be true, an optimistic mark must not outlive the
  write, no form may stay claimed.
* **Repositories used concurrently.** `supersedeDirective` reads without a lock;
  current observations are guarded by `observed_at`; migrations take no lock.

## 2. The modules

| Module | Models | Built on |
|---|---|---|
| `WorkOrder` | `aggregate.ts`: which event is legal on an order, and what it does (pure operators) | - |
| `WorkOrderLifecycle` | one order under every sequence of events, actors and times; `project.ts` `classifySla` | `WorkOrder` |
| `WorkOrderStore` | `store.ts`: the append transaction, statement by statement, of concurrent writers | `WorkOrder` |
| `ContextStore` | `service.ts`, `store/fixture.ts`, `store/postgres.ts` and the transactions of `persistence` they queue | - |
| `OperatorChannel` | `connectors/warmbly/src/operator` (`channel.ts`, `confirmation.ts`, `client.ts`, `ledger.ts`) and the circuit breaker of `http/`; Warmbly is external | - |
| `KillSwitch` | the abstract specification `OperatorChannel` implements: words of founders that release the dispatch, and decisions that take effect once at most | - |
| `WorkOrderLog` | the abstract specification `WorkOrderStore` implements: an append-only log per order with optimistic versions | - |
| `CollectorRuns` | `connectors/runner/src` (`scheduler.ts`, `persist.ts`, `advisory-lock.ts`, `server.ts`) and the transactions of `persistence` it runs (runs, observations, snapshots) | - |
| `DirectiveLog` | the abstract specification `ContextStore` implements: a line of revisions per directive, accepted now and stored later, in order | - |
| `CollectedSources` | the abstract specification `CollectorRuns` implements: sessions of a source that do not overlap, and the rows each may write | - |
| `HumanGate` | `apps/web-shell/src` (`app.ts`, `human-gate-*.ts`, `review-queue.ts`, the gate parts of `ui/warmbly.ts` and `adapters/http.ts`) and the edge `connectors/warmbly/src/human-gate`; Warmbly is external | - |
| `MC*` | symmetry for TLC; the sets of requests of the operator runs | one each |
| `WorkOrderLemmas`, `WorkOrderProofs` | theorems of the aggregate and of its life cycle | `WorkOrderLifecycle` |
| `WorkOrderReplayLemmas`, `WorkOrderStoreProofs` | theorems of the store | `WorkOrderStore`, `WorkOrderLemmas` |
| `ContextStoreProofs` | theorems of the context service | `ContextStore` |
| `OperatorChannelProofs` | theorems of the operator channel | `OperatorChannel` |
| `CollectorRunsProofs` | theorems of the collector service | `CollectorRuns` |
| `HumanGateProofs` | theorems of the human gate | `HumanGate` |

### WorkOrder, WorkOrderLifecycle

`order` is the aggregate: stage, clock, owner, the status of each input,
blocker, nonconformity and change request, QA and acceptance states, the
artifacts, the timestamps. `Legal(order, e)` is the conjunction of the guards
of the `case` for `e.type` in `applyWorkOrderEvent`, `ApplyWorkOrderEvent` its
assignments. One action per event type (or family of types with one handler)
takes any argument, actor, authority and time. Texts, hashes and money are left
out; an event that fails a format check reaches no state. `now` is the time of
the last event, below which `applyWorkOrderEvent` refuses one; `reviewed` is a
history variable: what QA saw.

### WorkOrderStore

`rows`, `events`, `holds` are the tables; `woLock`, `idLock` the two advisory
locks; `pc`, `req`, `result` the transaction each writer is in. `LockOrder`,
`LockIdentity`, `CheckDuplicate`, `ReadCurrent`, `CheckCollision`,
`InsertEvent`, `Commit` are the statements in order: each reads what is
committed (READ COMMITTED), and writes become visible at `Commit`. A unique
index makes `InsertEvent` wait for a transaction that has inserted the same key
and has not ended. `Commit` may lose its answer, `Crash` rolls back,
`Resubmit` repeats the last call whatever became of it. Writers decide on the
row or on the projection of their own last call (`Known`), and may hand over
a projection of another identity. `Rebuild` is one step because it holds the
lock of the order from its first statement to its commit.

**Refinement.** `WorkOrderLog` says what an append promises: an event takes
effect at one instant, on the version it was decided on, under a key no other
event of any order has, and nobody is told that an event is stored which is not.
`Log` is its instance with `log` the committed streams and `told` what the
answers say; locking, holding, waiting on an index, a crash and a rebuild are
stutters, `Commit` is `Accept`, a duplicate is `Confirm`.

### CollectorRuns

A *job* is what can be under way in one process for one source: the run of its
timer, and (bound) one of a manual request. `job[j].pc` is the await it is in:
connecting (a pool connection for the session lock), locking, collecting, then
one transaction each for start, observation, snapshots and finish, then unlock.
`executing` are the collectors that still run, which a timeout does not stop
(`TimesOut`, `LateAnswer`). `conns` counts the connections of each pool; the
lock takes one for the whole run and each write a second one. `lock` holds the
session locks, so it is freed by the end of the process. `runs`, `stored`,
`current`, `snapshots` are the tables. `Crash`, a failed write, a failed
collector and a clock set back are faults. A lost connection and a rejected
manual run both end the process (`Reject`), as the code leaves them uncaught.
`stop()` awaits the runs of the moment it is called (`awaited`) and itself
rejects if one of them does. The documents `stats` go through `jsonb`, which
orders keys by length: what is read back never has the text that was written.

**Refinement.** `CollectedSources` says what the readers of the tables may count
on: sessions of a source do not overlap, a session writes rows of its own run
only, the row of the run first, an observation once, the newest observation is
the current one, and a run is `DONE` only when all of it is stored. `Tables` is
its instance with `open` the session of each source (`Session`: the time of the
run that holds its lock); `Lock` opens it, whatever frees the lock closes it
(`Unlock`, `Reject`, `Crash`, the latter two several sources at once), and
connections, timers, requests, timeouts, collectors and failed writes are
stutters.

### HumanGate

A *write* is a submitted form; its record is the chain of awaits it started:
`post` (with `wire`: sent, or applied and not yet answered), `readback`,
`status` (the validation, before an approval), `done` with its `report`. What
JavaScript runs without an await is one action: `Submit` claims the form, sets
the mark, repaints and posts; `gateReadback` and `AnswerRefused` go on through
`settleGateIntent` to the end of the chain. `flight`, `marks`, `hash`, `screen`
are the memory of a tab, `store` the generations in localStorage, which tabs
share and which outlive a `Reload`. The key of a POST is its intent and
generation; Warmbly answers a key it has seen with its receipt. A POST whose
caller gave up may be applied later (`late`), or never.

A paint is a read: `reads` are those under way, each with every queue that was
true at the server since it was sent; when it arrives (`PaintResolves`), in any
order, the screen shows one of them under the marks of that moment. A paint by
URL voids older ones; a repaint after a form does not take part in that.
`Preview` is the first press of an adjust: it parks a draft (`drafts`) and
repaints, and claims and sends nothing; the form then confirms (`Confirming`),
until a confirmed application or a `Reload` clears the draft. `repainted`, a
history variable, has the tabs that some form has repainted since they were
loaded: in those an older page can come to stand under a newer URL, whether or
not anything was sent, so `UrlIsShown` speaks of the others. The controls
outside the human gate that repaint in the same way (operator actions, write
shortcuts, the dispatch panel) are not modelled; a tab where one was used counts
as repainted. Texts and reasons are left out: an intent stands for one form with
one content. Warmbly (`Effect`, `Drift`) is modelled from what the
shell reads of it: a validation, a decision and whether it is effective and
scheduled.

### ContextStore

`memRevisions`, `memCurrent`, `proposals`, `memActivities` are the fixture
store; `dbRevisions`, `dbCurrent`, `dbActivities`, `dbAudits` the tables;
`chain` the writes queued on `chain.then(work, work)`, each item being the
transaction that runs next (`revision`, `activity`, then `audit`) and whether a
request awaits its end. The requests are synchronous, hence one action each.
`writeRevision`, `writeActivity`, `writeAudit`, `failAudit` run the oldest
write: it is stored, refused by a constraint (`Accepts`), or fails for no fault
of its own, in which case it may have been committed all the same. `restart`
loads memory from the database; `unhandledRejection` is the end of a Node
process whose last write rejects with nobody awaiting it. `acked` and `failed`
are history variables. Titles, bodies, kinds, provenance and actors are data no
condition reads; of the two dates of a directive the model keeps the one fact
the code and the table test, whether `expires_at` is after `effective_from`.

**Refinement.** `DirectiveLog` says what a directive is to its callers and to the
readers of the tables: a line of revisions numbered from 1, a terminal one last,
each accepted as the successor of the one that is served and stored later, at
most once and in the order of its line, or lost. `Log` is its instance with
`served` the memory, `pending` the revisions on the chain (`Accepted`), `history`
and `current` the tables. A request is one `Accept` of a set of directives, a
supersession with its closed predecessors included; a revision that is written
is `Store`, one that is refused or fails `Lose` (or `Store`, when it was
committed all the same), a restart `Restart`; proposals, reports and audit
events are stutters.

### OperatorChannel

`calls` holds every call in the order they start; its number stands for the
correlation id, and for the token if it mints one. A handler is one action up
to `await client.post`: the gate (`prepare`: founder, action, target, reason,
in that order), then `requestConfirmation`, or `execute` with `intervene`
(pause, acknowledge: revoke challenges, then POST) or `release` (resume: spend
a challenge, then POST), the breaker's check, and `record`. While a call waits
its `wire` says where the POST is: `sent`, `applied`, `rejected` by Warmbly,
`never` written. `WarmblyApplies` takes effect at any moment, also after the
caller gave up; `response`, `noAnswer` (timer, or failure after the write) and
`preFlightFailure` end the wait, feed the breaker and record the outcome.
`record` appends to `ledger` or, when the ledger throws, to `wal` (stderr), and
then the caller gets the exception. `Restart` loses challenges, breaker, ledger
and whoever was waiting.

`challenges` is the map `byToken`. Callers supply any token that was returned to
one of them, live or not; texts that were never issued fail as spent ones do.
Time is abstracted: `Expire` drops challenges in order of issue, `CoolDown` is
the reset interval going by, so every relation of the three intervals is
covered, including some no configuration has. `forbidden_path` is not an outcome
of the gate, since a valid target gives an allowlisted path. In production
(`services/context/src/warmbly-operator/from-env.ts`) the channel has a breaker
of its own and a ledger in memory with a sink, which is what is modelled.
`spent` and `doubt` of a call are history: the token it used, and whether some
resume was on the wire and unsettled when it started.

**Refinement.** `KillSwitch` says what founders may count on: a word (a live
challenge) is spent once, under the name and for the reason it was asked for,
and is void once anyone pauses or its founder decides otherwise; nothing else
sends a resume; a decision is sent when it is made or never, takes effect once,
at any time after that, or never, and is reported as executed only if it did.
`Kill` is its instance with `words` the `challenges`, `pending` and `done` the
calls whose `wire` is `sent` and `applied`, `told` the calls answered `executed`.
A refusal by the gate or the breaker still takes a number; a pause, a resume or
an acknowledgement that meets an open breaker voids or spends words and sends
nothing. `preFlightFailure` and an answer below 500 that is not 2xx are `Vanish`;
a 5xx, a timer that fires and an entry the ledger does not take are stutters.

## 3. The runs

| Run | Checks | Bounds, and why they are enough |
|---|---|---|
| `lifecycle` | the gates of production and delivery, delivered is reviewed; clock, blockers, verdicts; the due date is pinned; types | two of each id and of the artifact lists, one human and one agent, three instants, lead time 1: two open nonconformities or blockers at once, two rounds of work with different artifacts, deliveries before, at and after the due date |
| `store_stream` | row = replay, answers are durable, types | one order, two writers, three keys, versions up to 3, three decisions, two instants: stale decisions, reuse of keys, backdated events, lost answers, crashes between any two statements |
| `store_identity` | one live order per identity and the partial index never what stops a creation, a retry of a committed write is a duplicate, every call ends, the store implements `WorkOrderLog` | two orders, two identities, two keys, two writers, two decisions: the two creations, a projection of the wrong identity, both locks contended; under `FairSpec` |
| `store_key_conflict` | violated: the delivery README on holds | smallest instance that shows it |
| `context_store` | stored current is newest, numbers stay free, predecessors are stored first, only its own failure loses a write, a 2xx answer is audited, the service implements `DirectiveLog`, types | three ids among directives, a proposal and a session with two scopes; two predecessors, so a supersession can stop half way; two failures besides the refusals of the table, so two writes in a row can be lost |
| `context_acked_durable` | violated: the runbook | smallest instance that shows it |
| `operator_release` | a release uses a fresh, own, unrevoked challenge, once; the channel implements `KillSwitch` | two founders, two reasons, three calls (confirm, intervention, resume is the shortest way to break it), one entry the ledger does not take, restarts and expiry at any point |
| `operator_calls` | the ledger is faithful: one entry per answered call, and true; an executed pause holds, an open breaker has a cause in calls that failed with no answer between them, every call ends, types | one founder, three calls (a pause, a confirmation and a resume in flight together, or two failures and one more), one request refused by each check of the gate, threshold 2, one entry the ledger does not take; statuses 2xx, 4xx (3xx is handled alike), 429, 5xx; under `FairSpec` |
| `operator_pause_attempts` | violated: a comment of `channel.ts` on refused pauses | smallest instance that shows it |
| `collector_runs` | one run per source, current is the newest observation, a DONE run is complete, late answers are dropped, an orderly stop cuts nothing off, timers, connections and locks are given back, every source is collected again and again, the service implements `CollectedSources`, types | two processes and a manual request compete for one source, one snapshot kind, two instants (the clock stands still, advances, goes back), one fault at any point; answers good, failed and not configured; pool of two; under `FairSpec` |
| `human_gate` | marks and claims end with their chain, effects per settlement, reported decisions were in force, a tab no form repainted shows its URL, no form stays claimed, types | one tab, one candidate, two forms out of create, adjust (a preview is one of the two), reconcile, approve (with or without validation) and hold: two chains on one candidate or one key, a preview and what it lets confirm; one drift, one navigation or reload; a form is submitted when no read is under way, while reads of the two chains and of the navigation overtake each other; under `FairSpec` |
| `human_gate_retry` | violated: a comment of `app.ts` on retries | three submissions of one form |

`lifecycle` may stop: a closed or cancelled order, or time at its bound, has no
next event. So may the operator runs, once the bound on calls is reached and
nothing is in flight; nobody has to call; the collector runs, when every process
is stopped; and the human gate, when nobody submits. Deadlock is not checked
there; elsewhere it is.

**Fairness.** `store_identity`: strong fairness of the next
statement of each writer. A connected client goes on to its next statement, and
PostgreSQL queues the waiters of a lock in order of arrival, so a lock that is
released again and again is granted to each of them. `operator_calls`: weak
fairness of `noAnswer` of each call, because the client arms an abort timer
before each POST (`client.ts:236-237`).
`collector_runs`: strong fairness of each job, because the pool serves its
waiters in order and every await of a run ends (the timeout of the run, the
request timeouts of the collectors, PostgreSQL); weak fairness of timers, of a
restart (`restart: unless-stopped`) and of the end of a drained process.
`human_gate`: weak fairness of each chain, because the edge aborts a call to
Warmbly after its timeout and reads end; nothing makes Warmbly apply a write or
a paint arrive.
Nothing is assumed of callers, crashes or Warmbly.

## 4. What the runs found

Each is a run with `expect: violation`; the quotes are in `PROJECT.json`.

1. Two concurrent appends to *different* orders with one idempotency key: the
   second fails on the unique index instead of being held.
2. A version or an expiry whose `expires_at` is not after `effective_from` is
   answered 2xx, refused by the table, and gone after a restart.
3. A comment says that even a refused pause attempt revokes the pending
   challenges; a pause refused by the gate (for its reason, say) revokes none,
   and an older token still releases the switch after it.
4. A human-gate write whose answer was lost keeps its key for the retry; but
   when the retry is refused (401, 403, 429), the refusal settles the intent, the
   next retry has a new key and the creation takes effect twice.

Others follow from reading the code, are in the models, and have no run of
their own, because one step shows them: two conflicting writes with one key,
reason and version share a `hold_id`, so the second is answered HELD and its
payload is not kept; a supersession that is refused at its second predecessor
has closed the first; an agent report whose goal exceeds 512 characters is
answered 201 and never stored; a mutation and its audit event are two
transactions, so that a stop between them leaves a stored revision without an
audit event (unanswered, as `AckedIsAudited` shows); a collector run that is
finished twice appends a revision each time, because the comparison of `stats`
with what `jsonb` returns never holds; a human-gate form is free once its POST is
answered, and the `finally` of its chain frees it again, even when a second
submission has claimed it; the repaint of a form (`app.ts:234`) is never void, so
its answer is painted over a newer screen and over another URL; a request of
the context service that fails only in its audit write is answered 500 although
the mutation is done, so a retried create makes a second directive; an order in
rework keeps the `delivered_at`, and so the SLA verdict, of its first delivery.

Two hazards of the operator channel stay open in `PROJECT.json`, with no
property because the code promises none: a call in flight when the process stops
leaves no entry, and a 5xx (recorded `refused`, `upstream_error`) may come from
an action that was applied.

## 5. The proofs

TLAPS proves, from the named assumptions on the constants alone
(`AggregateAssumption`, `LifecycleAssumption`, `StoreAssumption`,
`ContextAssumption`, `NoneAssumption`, `OperatorConstants`,
`CollectorAssumption`, `GateAssumption`):

| Module | Theorem | Property |
|---|---|---|
| `WorkOrderProofs` | `LifecycleTyped`, `GatesAlwaysHold`, `RecordsAlwaysFollow`, `SlaNeverMovesAfterDelivery`, `DueDateSetOnce` | types; both gates, delivered is reviewed; clock, blockers, verdicts; the SLA verdict freezes at delivery (proved only); due date |
| `WorkOrderStoreProofs` | `StoreTyped`, `RowIsReplay`, `IdentityIsUnique`, `AnswersAreTrue`, `RetriesAreDuplicates`, `StoreImplementsLog`, `StoredIsGated` | types; row = replay; identity, and the index never reached; answers; retries; refinement of `WorkOrderLog`; gates of what is stored |
| `ContextStoreProofs` | `ContextTyped`, `NewestIsCurrent`, `NumbersFree`, `TerminalFinal`, `AckedHasAudit`, `OnlyOwnFailureLoses`, `PredecessorsComeFirst`, `StoreImplementsLog` | types; stored current is newest; free numbers; terminal is final (proved only); 2xx is audited; lost writes; predecessors; refinement of `DirectiveLog` |
| `OperatorChannelProofs` | `ChannelTyped`, `NothingStaleReleases`, `LedgerAlwaysFaithful`, `BreakerHasCause`, `PausesHold`, `ChannelImplementsKillSwitch` | types; fresh, own, unrevoked challenge, once; one entry per call, and true; an open breaker has its failures, all since the last reset; an executed pause holds; refinement of `KillSwitch` |
| `CollectorRunsProofs` | `RunsNeverOverlap`, `CurrentStaysLatest`, `LateAnswersNeverStored`, `DoneMeansStored`, `OrderlyStopCutsNothing`, `EverythingIsGivenBack`, `TypeCorrect`, `ServiceImplementsTables` | one run per source; current is latest; late answers; DONE is complete; stop; connections, locks, timers; types; refinement of `CollectedSources` |
| `HumanGateProofs` | `MarksAlwaysTemporary`, `UrlAlwaysShown`, `ReportsAreTrue`, `EffectsAlwaysSettled`, `TypeCorrect` | marks and claims; URL; reported decisions; effects of an intent; types |

* **Aggregate.** `OrderInv`, the conjunction of the gate and record properties,
  is inductive once the order carries its dates only after production started.
  The lemmas show, per event type, what a legal event does to it; the life
  cycle theorems follow.
* **Store.** The invariant says of each writer what it has established at its
  statement (`WriterInv`: which locks it holds, that its event follows the row,
  that no live row has its identity) and of each stream that it replays to its
  row (`StreamInv`), with the keys of distinct streams apart (`KeysApart`). The
  locks are what keeps the facts of one writer true under the steps of another.
  `ReplayWorkOrder` is recursive over the stream; the lemmas prove what an
  append does to it by induction on the length, as a statement about a set of
  numbers, for which `SetInduction` is proved first.
  The refinement needs of it that a writer about to commit holds the lock and
  the version it checked, and that its key is in no stream: then `Commit` is
  `Accept`, and the other statements leave streams and answers as they are.
* **Context service.** None of the properties is inductive. `IInv` orders the
  three places a revision can be: what is stored is behind what waits in the
  chain, the chain is in order, both are behind memory, and a terminal revision
  is the last of its directive anywhere. A batch of writes (`Batch`) keeps it,
  so does any step that leaves a suffix of the chain (`ShiftKeeps`), the
  storing of the oldest write (`StoreKeeps`) and a restart (`BootKeeps`). On top
  of it, each with an invariant of its own: what memory serves is stored, queued
  or has raised (`RevisionsKept`, `ReportsKept`), and what a revision supersedes
  is closed, has raised, or is closed by a write earlier on the chain
  (`PredecessorsCovered`).
  The refinement rests on `IInv` as it is: a request is a `Batch`, whose
  revisions follow what memory serves (`RequestAccepts`); the oldest write of the
  chain is the oldest of its directive and newer than what is stored, because
  chain and tables are in order (`HeadLeaves`); what is stored is not terminal
  while anything of its directive waits. That a stored terminal status is final
  (`TerminalFinal`) is a consequence.
* **Operator channel.** `NoStaleRelease` looks back from a resume that was
  written; the invariant (`ReleaseInv`) says the same of every challenge that is
  still live, before it is spent (`AllFresh`): it was minted by the call of its
  number for its founder and reason, no call has spent it, and no later call
  revokes it. A new call keeps that because a call that revokes also removes the
  challenge; the steps of calls in flight change nothing either part reads.
  For the ledger every step is one of five (`LedgerStep`), most of them
  `Recording`: a call, new or waiting, is answered and recorded at once. The
  invariant (`LedgerInv`) says that an entry is about a call that was answered,
  and true of it; that a call which waits was written and not refused, and
  belongs to this process; and that each call has its one entry. A call that is
  recorded had none before, so the breaker counts it once, and counts no call
  from before the last answer in the ledger that resets it (`BreakerInv`,
  `RunOfEntries`); calls that only stderr has are in no order with the ledger and
  all count. For
  the pause: a call that was written with no resume in doubt leaves no older
  resume that could still be applied (`NothingPending`).
  For the refinement a request is one decision or refusal (`OneMoreDecided`), a
  token that matches is exactly one word (`ReleaseReleases`), and the settling of
  a call keeps its wire, reports what was applied, or takes it off the wire
  (`SettlesDecision`); that an executed call was applied and a waiting one was
  written comes from `LedgerInv`.
* **Collector runs.** A job that is past `locking`, or whose collector still
  runs, is in the lock of its source, and the lock has one holder; that gives
  one run per source. The other invariants say what a run that is writing has
  written so far (`WrittenSoFar`): what it forgot is in its failure flags, its
  observation is stored unless the flag says so, a good answer came in time.
  A row that is RUNNING belongs to a job that is writing or to `cut`, to which
  every way for a job to vanish adds it.
  `NothingIsLost` is an account (`Accounts`): every step either borrows one
  connection for one job, gives one back, or gives back all of a process that
  dies (`Lending`); a lock is taken and left by a job that works on its source;
  a timer is armed again exactly where its run becomes idle, which needs that a
  process that is not up runs nothing and has no timers. The types need
  little more than bounds: how many kinds a run has yet to project
  (`Counted`), and how often a row is revised.
  For the refinement, each action is mapped to one step of `CollectedSources`
  (`LockOpens`, `StartStarts`, `ObserveStores`, `ProjectDerives`,
  `FinishFinishes`, `EndCloses`, `RejectCloses`) or leaves lock and tables alone
  (`QuietRun`, `QuietProcess`). It uses that a run which writes holds the lock
  of its source, that its row was there before anything else of it, and that
  what it has written is known to it (`WrittenSoFar`).
* **Human gate.** Each property has a part of `IInv` that makes it inductive:
  the owner of a mark is a chain that decides (`MarksAreOwned`); a tab no
  form has repainted has reads of its URL only (`ReadsFollowUrl`); what is in force now is
  recorded for every form that asked for it (`InForceIsRecorded`); no key on
  its way is ahead of its generation (`KeysAreIssued`), so the keys that were
  applied are among as many as were settled, plus one. A step of one chain is
  reduced to what it does to each part (`OneFormKeeps`).
  On top of it `Limits` counts: a generation plus the chains that may still
  settle its intent never exceeds the number of forms that were submitted
  (`SettledOnce`), which is what bounds the generations in `TypeOK`; and a claimed
  form has a chain that is under way (`ClaimsAreOwned`), because the form that
  claims one starts a chain and every chain that ends gives it up.

**Assumptions.** They say that bounds are numbers and sets of constants have the
elements the code relies on. `GateAssumption` asks that the candidates are
finitely many, since the rows of a page, and so its queue counts, are.

**Only model-checked.** `EveryCallEnds`, `EveryCallIsAnswered`,
`EverySourceIsCollected` and `EveryFormIsReleased`, since liveness is beyond the
prover; their safety side is proved where it has one (`NothingIsLost`: nothing a
source needs is gone; `MarksAreTemporary`: no claim without a chain under way).
Every other property of a run that passes is a theorem.

## 6. What is not modelled, and the plan

Of the web shell: the dispatch panel, drafts of interactions, filters, shortcuts and every view
that only renders. Of the collectors: what the projectors derive from an
envelope. Of the context service: which directives a reader sees (`isActiveAt`, scope
inheritance), operator actions, operational views, the Warmbly review. Of the
delivery domain: the canary CLI, formats and hashes. The other components are
listed in `PROJECT.json` with a reason each. The project keeps to a dozen runs:
a new module's run takes the place of one that only shows a violation. In order:

1. `DirectiveRepository`: `supersedeDirective`, operator actions and sessions
   under concurrent transactions; `migrateUp` run twice at once.
2. Context visibility: `isActiveAt` and scope inheritance as operators checked
   against the reading of the README.
3. The dispatch panel of the web shell, composed with `OperatorChannel`; two tabs
   of the human gate at once (the model has them, the run has one).
4. Agent activity, attention ranking and overrides, the governance importer.
5. The Python procedures with state: capacity reservations, inbound admission,
   the acquisition cycle.
6. Proofs: an abstract reading of the human gate (an intent that is settled took
   effect as it was reported) that `HumanGate` implements; and, between the
   abstract specifications, that `PausedUnlessInDoubt` follows from `KillSwitch`.
