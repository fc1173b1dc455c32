-------------------------- MODULE WorkOrderLifecycle --------------------------
(***************************************************************************)
(* One Work Order from creation to closeout or cancellation: every event   *)
(* applyWorkOrderEvent accepts, in every order, by every kind of actor.    *)
(* decideWorkOrder always builds an event for the version it read, so the  *)
(* version plays no part here; WorkOrderStore models stale writers.        *)
(***************************************************************************)
EXTENDS WorkOrder

CONSTANTS
  MaxTime,   \* bound: the last instant at which an event may occur
  LeadTime   \* addBusinessDays(occurred_at, n) - occurred_at

ASSUME LifecycleAssumption == MaxTime \in Nat /\ LeadTime \in Nat \ {0}

VARIABLES
  order,     \* the aggregate
  now,       \* provenance.observed_at of the last event
  reviewed   \* history: the artifacts the last QA_PASSED approved

vars == <<order, now, reviewed>>

Init ==
  /\ order \in {CreateWorkOrder(h) : h \in Humans \cup {Nobody}}
  /\ now = 1
  /\ reviewed = NoArtifact

(* decideWorkOrder followed by applyWorkOrderEvent, for the given types.   *)
DecideWorkOrder(types) ==
  \E type \in types, actor \in Actors, warrant \in BOOLEAN, at \in now..MaxTime :
  \E arg \in ArgsOf(type) :
    LET due == IF type = "PRODUCTION_STARTED" THEN at + LeadTime ELSE 0
        e == [type |-> type, arg |-> arg, actor |-> actor, warrant |-> warrant,
              at |-> at, due |-> due]
    IN  /\ Legal(order, e)
        /\ order' = ApplyWorkOrderEvent(order, e)
        /\ now' = at
        /\ reviewed' = IF type = "QA_PASSED" THEN order.artifacts ELSE reviewed

ResolveInput == DecideWorkOrder(InputTypes)
AssignOwner == DecideWorkOrder({"OWNER_ASSIGNED"})
StartProduction == DecideWorkOrder({"PRODUCTION_STARTED"})
Block == DecideWorkOrder({"WORK_BLOCKED"})
Resume == DecideWorkOrder({"WORK_RESUMED"})
RecordEffort == DecideWorkOrder({"EFFORT_RECORDED"})
SubmitQa == DecideWorkOrder({"QA_SUBMITTED"})
PassQa == DecideWorkOrder({"QA_PASSED"})
FailQa == DecideWorkOrder({"QA_FAILED"})
Deliver == DecideWorkOrder({"DELIVERY_RECORDED"})
ClientAccept == DecideWorkOrder({"CLIENT_ACCEPTED"})
ClientRework == DecideWorkOrder({"CLIENT_REWORK_REQUESTED"})
StartRework == DecideWorkOrder({"REWORK_STARTED"})
OpenNonconformity == DecideWorkOrder({"NONCONFORMITY_OPENED"})
ResolveNonconformity == DecideWorkOrder({"NONCONFORMITY_RESOLVED"})
OpenChange == DecideWorkOrder({"CHANGE_REQUEST_OPENED"})
DecideChange == DecideWorkOrder(DecisionTypes)
PauseClock == DecideWorkOrder(PauseTypes)
ResumeClock == DecideWorkOrder({"CLOCK_RESUMED"})
Cancel == DecideWorkOrder({"WORK_ORDER_CANCELLED"})
Close == DecideWorkOrder({"WORK_ORDER_CLOSED"})

Next ==
  \/ ResolveInput \/ AssignOwner \/ StartProduction \/ Block \/ Resume
  \/ RecordEffort \/ SubmitQa \/ PassQa \/ FailQa \/ Deliver
  \/ ClientAccept \/ ClientRework \/ StartRework
  \/ OpenNonconformity \/ ResolveNonconformity \/ OpenChange \/ DecideChange
  \/ PauseClock \/ ResumeClock \/ Cancel \/ Close

Spec == Init /\ [][Next]_vars

-----------------------------------------------------------------------------
(* The instant the due date is compared with: the delivery, if any.        *)
ComparisonAt(o, observedAt) == IF o.deliveredAt # 0 THEN o.deliveredAt ELSE observedAt

(* project.ts: classifySla.  One unit of time is the 24 hours of its       *)
(* "due soon" window; both timestamps are always finite here.              *)
ClassifySla(o, observedAt) ==
  LET comparisonAt == ComparisonAt(o, observedAt)
  IN  CASE o.clock = "NOT_STARTED" \/ o.dueAt = 0 -> <<"NOT_STARTED", "NONE">>
        [] o.clock = "PAUSED_CLIENT" -> <<"PAUSED", "CLIENT">>
        [] o.clock = "PAUSED_INTERNAL" -> <<"PAUSED", "INTERNAL">>
        [] o.clock = "PAUSED_FORCE_MAJEURE" -> <<"PAUSED", "FORCE_MAJEURE">>
        [] OTHER -> IF comparisonAt > o.dueAt THEN <<"OVERDUE", "INTERNAL">>
                    ELSE IF o.clock = "STOPPED" THEN <<"STOPPED", "NONE">>
                    ELSE IF o.dueAt - comparisonAt <= 1 THEN <<"DUE", "NONE">>
                    ELSE <<"ON_TRACK", "NONE">>

-----------------------------------------------------------------------------
TypeOK ==
  /\ order \in Order
  /\ now \in Nat
  /\ reviewed \in Artifacts \cup {NoArtifact}

(* What is delivered is what QA approved: between QA_PASSED and closeout   *)
(* nothing replaces the artifact references the reviewer saw.              *)
DeliveredIsReviewed ==
  order.stage \in DeliveryStages => order.artifacts = reviewed

(* README of the delivery domain: production cannot start before required *)
(* inputs are received or waived and a responsible owner exists; QA,       *)
(* immutable artifact references, human delivery and client acceptance are *)
(* separate gates.  None is skipped on any path, the rework loops          *)
(* included, and none is passed by artifacts another gate did not see.     *)
GatesNeverSkipped == ProductionGate(order) /\ DeliveryGate(order) /\ DeliveredIsReviewed

(* The SLA clock, the blockers and the verdicts agree with the stage on    *)
(* every path: pauses, rework after a failed QA or after a delivery,       *)
(* cancellation; no stage carries a verdict of an earlier round of work.   *)
RecordsFollowStage ==
  /\ ClockFollowsStage(order)
  /\ BlockersFollowStage(order)
  /\ VerdictsFollowStage(order)

(* README: business due dates are derived once; no later event, a second   *)
(* production start after a rework included, moves the date or the start.  *)
DueDatePinned ==
  [][order.dueAt # 0 => order'.dueAt = order.dueAt /\ order'.startedAt = order.startedAt]_vars

(* The SLA verdict of a delivered order is that of its delivery: observing *)
(* it later never turns a delivery in time into a late one, or back.       *)
SlaFrozenAtDelivery ==
  order.stage \in {"DELIVERED", "ACCEPTED", "CLOSED"} =>
    \A t \in 1..(MaxTime + LeadTime + 1) :
      ClassifySla(order, t) = IF order.deliveredAt > order.dueAt
                              THEN <<"OVERDUE", "INTERNAL">> ELSE <<"STOPPED", "NONE">>

=============================================================================
