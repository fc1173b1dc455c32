---------------------------- MODULE WorkOrderStore ----------------------------
(***************************************************************************)
(* The PostgreSQL store of Work Orders                                     *)
(* (control-center/domains/delivery/src/store.ts and the tables of         *)
(* persistence/sql/migrations/006_work_orders.up.sql): concurrent writers  *)
(* append events optimistically; a write that conflicts is kept in         *)
(* work_order_event_holds.                                                 *)
(*                                                                         *)
(* appendWorkOrderEvent is one READ COMMITTED transaction; its statements  *)
(* are separate steps, so the steps of two transactions interleave as the  *)
(* two advisory locks and the unique indexes let them.  Each statement     *)
(* reads what is committed; what a transaction has written becomes visible *)
(* when it commits.                                                        *)
(***************************************************************************)
EXTENDS WorkOrder, Sequences

CONSTANTS
  Orders,       \* work_order_ids
  Identities,   \* activeIdentity: proposal, snapshot hash, deliverable, version
  Keys,         \* idempotency keys
  Writers,      \* processes that call appendWorkOrderEvent
  OfferedTypes, \* bound: the event types the writers decide
  MaxVersion,   \* bound: the last version a writer decides
  MaxTime,      \* bound: the last occurred_at
  MaxDecisions, \* bound: decisions taken by all writers together
  NoRow,        \* no row in work_orders
  NoIdentity,   \* an event without a creation snapshot
  Free          \* an advisory lock nobody holds

(* A projection: the order with its identity, version, last event and the  *)
(* time of that event.  It is also what a row of work_orders stores.       *)
Row == [order : Order, identity : Identities, version : Nat \ {0}, last : Keys, observed : Nat]

(* confenge.work_order_event.v1; event_id is a hash of the key, identity   *)
(* stands for the creation snapshot, <<>> is a null transition.            *)
StoredEvent ==
  [wo : Orders, key : Keys, expected : Nat, type : EventTypes \cup {"WORK_ORDER_CREATED"},
   arg : Inputs \cup Humans \cup Blockers \cup Artifacts \cup Nonconformities
         \cup ChangeRequests \cup {Nobody},
   actor : Actors, warrant : BOOLEAN, at : Nat, due : Nat,
   identity : Identities \cup {NoIdentity}, transition : {<<>>} \cup (Stages \X Stages)]

ASSUME StoreAssumption ==
  /\ OfferedTypes \subseteq EventTypes
  /\ MaxVersion \in Nat /\ MaxTime \in Nat /\ MaxDecisions \in Nat
  /\ Free \notin Writers
  /\ NoIdentity \notin Identities
  /\ NoRow \notin Row

VARIABLES
  rows,     \* work_orders: the current projection of each order
  events,   \* work_order_events: the stream of each order, by event_version
  holds,    \* work_order_event_holds
  woLock,   \* pg_advisory_xact_lock(work_order_id)
  idLock,   \* pg_advisory_xact_lock("work-order-identity:" + identity)
  pc,       \* the next statement of each writer's transaction
  req,      \* the event and projection each writer appends
  result,   \* what its last call answered, and the hold it is about to write
  decided   \* number of decisions taken (bounds the model)

vars == <<rows, events, holds, woLock, idLock, pc, req, result, decided>>

-----------------------------------------------------------------------------
HoldReasons == {"MISSING_ORDER", "VERSION_CONFLICT", "IDEMPOTENCY_CONFLICT",
                "ACTIVE_IDENTITY_CONFLICT", "TEMPORAL_CONFLICT", "PROJECTION_CONFLICT"}

(* Mutant of Active: an order counts once its inputs are in.               *)
ActiveOnceReady(row) ==
  row # NoRow /\ row.order.stage \notin TERMINAL_STAGES \cup {"AWAITING_INPUTS"}

(* The predicate of the partial index work_orders_one_active_identity and  *)
(* of the collision query.                                                 *)
Active(row) == row # NoRow /\ row.order.stage \notin TERMINAL_STAGES

(* event.transition: <<>> is null.  No legal event with a target stage     *)
(* leads back to the stage it starts from.                                 *)
Transition(o, e) ==
  IF ExpectedTransition(o, e) = o.stage THEN <<>> ELSE <<o.stage, ExpectedTransition(o, e)>>

(* applyWorkOrderEvent succeeds on the stored order (null is NoRow).       *)
Applicable(row, e) ==
  IF row = NoRow THEN e.type = "WORK_ORDER_CREATED" /\ e.expected = 0
  ELSE /\ e.type # "WORK_ORDER_CREATED"
       /\ e.expected = row.version
       /\ e.at >= row.observed
       /\ e.transition = Transition(row.order, e)
       /\ Legal(row.order, e)

(* Mutant of Project: the version of the projection is not advanced.       *)
ProjectSameVersion(row, e, identity) ==
  [order |-> IF row = NoRow THEN CreateWorkOrder(e.arg) ELSE ApplyWorkOrderEvent(row.order, e),
   identity |-> identity, version |-> e.expected, last |-> e.key, observed |-> e.at]

(* A projection that carries this identity and what the event leads to.    *)
Project(row, e, identity) ==
  [order |-> IF row = NoRow THEN CreateWorkOrder(e.arg) ELSE ApplyWorkOrderEvent(row.order, e),
   identity |-> identity,
   version |-> e.expected + 1,
   last |-> e.key,
   observed |-> e.at]

(* applyWorkOrderEvent: the projection an event leads to.                  *)
Derive(row, e) == Project(row, e, IF row = NoRow THEN e.identity ELSE row.identity)

(* replayWorkOrder, one event: a repeated event is skipped, one that       *)
(* conflicts with it or does not apply makes the replay fail (NoRow).      *)
ReplayStep(stream, current, n) ==
  IF \E m \in 1..(n - 1) : stream[m] = stream[n] THEN current
  ELSE IF /\ \A m \in 1..(n - 1) : stream[m].key # stream[n].key
          /\ current = NoRow <=> n = 1
          /\ Applicable(current, stream[n])
       THEN Derive(current, stream[n])
       ELSE NoRow

ReplayTrace(stream) ==
  LET upto[n \in 0..Len(stream)] ==
        IF n = 0 THEN NoRow ELSE ReplayStep(stream, upto[n - 1], n)
  IN  upto

ReplayWorkOrder(stream) == ReplayTrace(stream)[Len(stream)]

(* The rows of work_order_events.                                          *)
Stored == UNION {{events[o][n] : n \in DOMAIN events[o]} : o \in Orders}

-----------------------------------------------------------------------------
Init ==
  /\ rows = [o \in Orders |-> NoRow]
  /\ events = [o \in Orders |-> <<>>]
  /\ holds = {}
  /\ woLock = [o \in Orders |-> Free]
  /\ idLock = [d \in Identities |-> Free]
  /\ pc = [w \in Writers |-> "idle"]
  /\ req = [w \in Writers |-> NoRow]
  /\ result = [w \in Writers |-> "NONE"]
  /\ decided = 0

tables == <<rows, events, holds>>
locks == <<woLock, idLock>>

(* A writer calls appendWorkOrderEvent(event, projection).                 *)
Call(w, e, projection) ==
  /\ pc[w] = "idle"
  /\ decided < MaxDecisions
  /\ decided' = decided + 1
  /\ req' = [req EXCEPT ![w] = [event |-> e, projection |-> projection]]
  /\ pc' = [pc EXCEPT ![w] = "lockOrder"]
  /\ result' = [result EXCEPT ![w] = "NONE"]
  /\ UNCHANGED <<tables, locks>>

(* createWorkOrder, then append: a caller may provide any work_order_id    *)
(* for an accepted identity.  Nothing binds the projection it hands over   *)
(* to the snapshot of the event but the comparison of ReadCurrent.         *)
SubmitCreation(w) ==
  \E o \in Orders, k \in Keys, owner \in Humans \cup {Nobody}, at \in 1..MaxTime :
  \E d, handed \in Identities :
    LET e == [wo |-> o, key |-> k, expected |-> 0, type |-> "WORK_ORDER_CREATED", arg |-> owner,
              actor |-> Agent, warrant |-> FALSE, at |-> at, due |-> 0, identity |-> d,
              transition |-> <<>>]
    IN  Call(w, e, Project(NoRow, e, handed))

(* The order a writer decides on: what getWorkOrder reads now, or the      *)
(* projection of its own last call, whatever became of that call.          *)
Known(w, o) ==
  {rows[o]} \cup (IF req[w] # NoRow /\ req[w].event.wo = o THEN {req[w].projection} ELSE {})

(* decideWorkOrder on that order, then append.  The projection handed over *)
(* is the decided one, or one of another identity.                         *)
SubmitDecision(w) ==
  \E o \in Orders, k \in Keys, type \in OfferedTypes, actor \in Actors, at \in 1..MaxTime :
  \E base \in Known(w, o) \ {NoRow}, arg \in ArgsOf(type), handed \in Identities :
    LET e == [wo |-> o, key |-> k, expected |-> base.version, type |-> type, arg |-> arg,
              actor |-> actor, warrant |-> TRUE, at |-> at, due |-> at, identity |-> NoIdentity,
              transition |-> Transition(base.order, [type |-> type, arg |-> arg])]
    IN  /\ base.version < MaxVersion
        /\ Applicable(base, e)
        /\ Call(w, e, Project(base, e, handed))

(* The caller repeats its last call: it got no answer, or was held.        *)
Resubmit(w) ==
  /\ pc[w] = "idle"
  /\ req[w] # NoRow
  /\ pc' = [pc EXCEPT ![w] = "lockOrder"]
  /\ result' = [result EXCEPT ![w] = "NONE"]
  /\ UNCHANGED <<tables, locks, req, decided>>

-----------------------------------------------------------------------------
(* The statements of appendWorkOrderEvent.                                 *)

Goto(w, label) ==
  /\ pc' = [pc EXCEPT ![w] = label]
  /\ UNCHANGED <<req, decided>>

(* Mutant of LockOrder: the first lock is never taken.                     *)
SkipOrderLock(w) ==
  /\ pc[w] = "lockOrder"
  /\ Goto(w, "lockIdentity")
  /\ UNCHANGED <<tables, locks, result>>

LockOrder(w) ==
  /\ pc[w] = "lockOrder"
  /\ woLock[req[w].event.wo] = Free
  /\ woLock' = [woLock EXCEPT ![req[w].event.wo] = w]
  /\ Goto(w, "lockIdentity")
  /\ UNCHANGED <<tables, idLock, result>>

(* Mutant of LockIdentity: the second lock is never taken.                 *)
SkipIdentityLock(w) ==
  /\ pc[w] = "lockIdentity"
  /\ Goto(w, "duplicate")
  /\ UNCHANGED <<tables, locks, result>>

LockIdentity(w) ==
  /\ pc[w] = "lockIdentity"
  /\ idLock[req[w].projection.identity] = Free
  /\ idLock' = [idLock EXCEPT ![req[w].projection.identity] = w]
  /\ Goto(w, "duplicate")
  /\ UNCHANGED <<tables, woLock, result>>

(* The transaction will end with this answer; its writes are pending.      *)
Answer(w, status) ==
  /\ result' = [result EXCEPT ![w] = status]
  /\ Goto(w, "commit")
  /\ UNCHANGED <<tables, locks>>

Continue(w, label) ==
  /\ Goto(w, label)
  /\ UNCHANGED <<tables, locks, result>>

(* Mutant of SameEvent: the key alone makes a duplicate.                   *)
SameKey(prior, e) == prior.key = e.key

(* isDeepStrictEqual(prior, event)                                         *)
SameEvent(prior, e) == prior = e

(* SELECT ... WHERE idempotency_key = $1, across all orders.               *)
CheckDuplicate(w) ==
  LET e == req[w].event
      prior == {s \in Stored : s.key = e.key}
  IN  /\ pc[w] = "duplicate"
      /\ \/ prior = {} /\ Continue(w, "current")
         \/ /\ \E s \in prior : SameEvent(s, e)
            /\ Answer(w, "DUPLICATE")
         \/ /\ prior # {} /\ \A s \in prior : ~SameEvent(s, e)
            /\ Answer(w, "IDEMPOTENCY_CONFLICT")

(* Mutant of Derived: the projection is trusted when its version fits.     *)
DerivedVersion(row, e, projection) == projection.version = e.expected + 1

(* isDeepStrictEqual(derived, projection)                                  *)
Derived(row, e, projection) == projection = Derive(row, e)

(* SELECT ... FOR UPDATE, then what the row says about the event.  An      *)
(* event the aggregate refuses throws: the transaction rolls back.         *)
ReadCurrent(w) ==
  LET e == req[w].event
      row == rows[e.wo]
      projection == req[w].projection
  IN  /\ pc[w] = "current"
      /\ IF row = NoRow
         THEN IF ~Applicable(NoRow, e) THEN Answer(w, "MISSING_ORDER")
              ELSE IF ~Derived(NoRow, e, projection) THEN Answer(w, "PROJECTION_CONFLICT")
              ELSE Continue(w, "collision")
         ELSE IF row.version # e.expected THEN Answer(w, "VERSION_CONFLICT")
              ELSE IF e.at < row.observed THEN Answer(w, "TEMPORAL_CONFLICT")
              ELSE IF row.identity # projection.identity THEN Answer(w, "PROJECTION_CONFLICT")
              ELSE IF ~Applicable(row, e) THEN Answer(w, "REJECTED")
              ELSE IF ~Derived(row, e, projection) THEN Answer(w, "PROJECTION_CONFLICT")
              ELSE Continue(w, "insert")

(* SELECT ... another active order of the same identity.                   *)
CheckCollision(w) ==
  /\ pc[w] = "collision"
  /\ IF \E o \in Orders : Active(rows[o]) /\ rows[o].identity = req[w].projection.identity
     THEN Answer(w, "ACTIVE_IDENTITY_CONFLICT")
     ELSE Continue(w, "insert")

(* INSERT or UPDATE work_orders, INSERT work_order_events.  A unique index *)
(* makes the statement wait for a transaction that has inserted the same   *)
(* key and not yet ended; if that one commits, the statement raises 23505, *)
(* which withTransaction does not retry.                                   *)
Inserted(w) == pc[w] = "commit" /\ result[w] = "APPENDED"

InsertEvent(w) ==
  LET e == req[w].event
      d == req[w].projection.identity
  IN  /\ pc[w] = "insert"
      /\ \A x \in Writers \ {w} : Inserted(x) =>
           /\ req[x].event.key # e.key
           /\ e.expected = 0 /\ req[x].event.expected = 0 => req[x].projection.identity # d
      /\ IF \E s \in Stored : s.key = e.key THEN Answer(w, "KEY_INDEX")
         ELSE IF e.expected = 0 /\ \E o \in Orders : Active(rows[o]) /\ rows[o].identity = d
              THEN Answer(w, "IDENTITY_INDEX")
         ELSE Answer(w, "APPENDED")

(* Mutant of ReleaseLocks: the identity lock is taken for the session      *)
(* (pg_advisory_lock) and outlives the transaction.                        *)
ReleaseOrderLock(w) ==
  /\ woLock' = [o \in Orders |-> IF woLock[o] = w THEN Free ELSE woLock[o]]
  /\ UNCHANGED idLock

(* End of the transaction: both advisory locks are released with it.       *)
ReleaseLocks(w) ==
  /\ woLock' = [o \in Orders |-> IF woLock[o] = w THEN Free ELSE woLock[o]]
  /\ idLock' = [d \in Identities |-> IF idLock[d] = w THEN Free ELSE idLock[d]]

(* hold(): current_version is that of the order, or of the order that      *)
(* already has the identity; 0 is null.  hold_id hashes event_id, reason   *)
(* and current_version, and event_id is itself a hash of the key.          *)
Hold(w) ==
  LET e == req[w].event
      rival == {o \in Orders : Active(rows[o]) /\ rows[o].identity = req[w].projection.identity}
      about == IF result[w] = "ACTIVE_IDENTITY_CONFLICT" THEN CHOOSE o \in rival : TRUE ELSE e.wo
  IN  [id |-> <<e.key, result[w], IF rows[about] = NoRow THEN 0 ELSE rows[about].version>>,
       event |-> e,
       projection |-> req[w].projection]

(* The writes of the transaction become visible.  A hold whose hold_id is  *)
(* already stored is not written again (ON CONFLICT DO NOTHING).  The      *)
(* caller may lose the answer of a transaction that has committed.         *)
Commit(w) ==
  LET e == req[w].event
      kept == \E h \in holds : h.id = Hold(w).id
  IN  /\ pc[w] = "commit"
      /\ rows' = IF result[w] = "APPENDED" THEN [rows EXCEPT ![e.wo] = req[w].projection] ELSE rows
      /\ events' = IF result[w] = "APPENDED" THEN [events EXCEPT ![e.wo] = Append(@, e)] ELSE events
      /\ holds' = IF result[w] \in HoldReasons /\ ~kept THEN holds \cup {Hold(w)} ELSE holds
      /\ ReleaseLocks(w)
      /\ Goto(w, "idle")
      /\ \E answer \in {result[w], "NONE"} : result' = [result EXCEPT ![w] = answer]

(* Mutant of Crash: the answer was given before the COMMIT that failed.    *)
CrashAnswered(w) ==
  /\ pc[w] \notin {"idle", "lockOrder"}
  /\ ReleaseLocks(w)
  /\ Goto(w, "idle")
  /\ UNCHANGED <<tables, result>>

(* The connection is lost before the commit: the transaction rolls back.   *)
Crash(w) ==
  /\ pc[w] \notin {"idle", "lockOrder"}
  /\ ReleaseLocks(w)
  /\ result' = [result EXCEPT ![w] = "NONE"]
  /\ Goto(w, "idle")
  /\ UNCHANGED tables

(* rebuildWorkOrderProjection.  It holds the order's lock from its first   *)
(* statement to its commit, so no append of that order interleaves.        *)
Rebuild(o) ==
  /\ woLock[o] = Free
  /\ events[o] # <<>>
  /\ ReplayWorkOrder(events[o]) # NoRow
  /\ rows' = [rows EXCEPT ![o] = ReplayWorkOrder(events[o])]
  /\ UNCHANGED <<events, holds, locks, pc, req, result, decided>>

Step(w) ==
  \/ LockOrder(w) \/ LockIdentity(w) \/ CheckDuplicate(w) \/ ReadCurrent(w)
  \/ CheckCollision(w) \/ InsertEvent(w) \/ Commit(w)

Next ==
  \/ \E w \in Writers : SubmitCreation(w)
  \/ \E w \in Writers : SubmitDecision(w)
  \/ \E w \in Writers : Resubmit(w)
  \/ \E w \in Writers : Step(w)
  \/ \E w \in Writers : Crash(w)
  \/ \E o \in Orders : Rebuild(o)

Spec == Init /\ [][Next]_vars

(* A connected client goes on to its next statement; PostgreSQL queues the *)
(* waiters of a lock in order of arrival, so one that is released again    *)
(* and again is eventually granted to each of them (strong fairness).      *)
FairSpec == Spec /\ \A w \in Writers : SF_vars(Step(w))

-----------------------------------------------------------------------------
Labels == {"idle", "lockOrder", "lockIdentity", "duplicate", "current", "collision", "insert", "commit"}

Answers == HoldReasons \cup
  {"NONE", "APPENDED", "DUPLICATE", "REJECTED", "KEY_INDEX", "IDENTITY_INDEX"}

TypeOK ==
  /\ rows \in [Orders -> Row \cup {NoRow}]
  /\ events \in [Orders -> Seq(StoredEvent)]
  /\ \A h \in holds : h.event \in StoredEvent /\ h.projection \in Row
  /\ woLock \in [Orders -> Writers \cup {Free}]
  /\ idLock \in [Identities -> Writers \cup {Free}]
  /\ pc \in [Writers -> Labels]
  /\ req \in [Writers -> [event : StoredEvent, projection : Row] \cup {NoRow}]
  /\ result \in [Writers -> Answers]
  /\ decided \in Nat

(* README of the delivery domain: work_orders is a disposable read model   *)
(* rebuilt from the event stream.  The row of every order is, at every     *)
(* moment, what replayWorkOrder computes from the stored stream, whatever  *)
(* stale or foreign projection a writer handed over.                       *)
ProjectionIsReplay == \A o \in Orders : rows[o] = ReplayWorkOrder(events[o])

(* One accepted identity has at most one live order, whatever ids the      *)
(* callers chose.                                                          *)
OneActiveRow ==
  \A o, other \in Orders :
    (/\ rows[o] # NoRow /\ rows[o].order.stage \notin {"CLOSED", "CANCELLED"}
     /\ rows[other] # NoRow /\ rows[other].order.stage \notin {"CLOSED", "CANCELLED"}
     /\ rows[o].identity = rows[other].identity) => o = other

IdentityIndexNeverRaised == \A w \in Writers : result[w] # "IDENTITY_INDEX"

(* One identity, one live order, and store.ts:136: the creations of one    *)
(* identity under different ids serialize before the partial unique index  *)
(* is reached, so that nobody ever sees its error.                         *)
OneActiveIdentity == OneActiveRow /\ IdentityIndexNeverRaised

(* A caller told APPENDED or DUPLICATE finds its own event in the stream,  *)
(* not merely one with its idempotency key.                                *)
AnswersAreDurable ==
  \A w \in Writers :
    pc[w] = "idle" /\ result[w] \in {"APPENDED", "DUPLICATE"} => req[w].event \in Stored

(* A retry of a write that did commit, by the same caller after a lost     *)
(* answer or by another one at the same time, ends as DUPLICATE: it is     *)
(* neither appended twice, nor held, nor refused.                          *)
RetryIsDuplicate ==
  \A w \in Writers : pc[w] = "commit" /\ req[w].event \in Stored => result[w] = "DUPLICATE"

(* Nobody waits for ever: the two advisory locks and the index waits have  *)
(* no cycle, and every transaction releases what it took.                  *)
EveryCallEnds == \A w \in Writers : pc[w] # "idle" ~> pc[w] = "idle"

(* What the callers see of all this is WorkOrderLog: its streams are       *)
(* work_order_events, and a writer was told what his last call answered.   *)
Told ==
  [w \in Writers |->
     IF pc[w] = "idle" /\ result[w] \in {"APPENDED", "DUPLICATE"} THEN {req[w].event} ELSE {}]

Log == INSTANCE WorkOrderLog WITH log <- events, told <- Told

(* Transactions, locks, crashes and held writes refine an append-only log: *)
(* whatever interleaves, an append takes effect at one instant, on the     *)
(* version it was decided on, under a key no other event has, and nobody   *)
(* is told that an event is stored which is not (appendWorkOrderEvent).    *)
ImplementsLog == Log!Spec

(* README: PostgreSQL keeps conflicting or out-of-order writes in          *)
(* work_order_event_holds.  No conflicting write fails on the unique index *)
(* of the idempotency key instead.                                         *)
KeyConflictsAreHeld == \A w \in Writers : result[w] # "KEY_INDEX"

=============================================================================
