------------------------------ MODULE WorkOrder ------------------------------
(***************************************************************************)
(* The Work Order aggregate of the delivery domain                         *)
(* (control-center/domains/delivery/src/aggregate.ts): which event is      *)
(* legal on an order and what it does to it.  Pure operators, shared by    *)
(* WorkOrderLifecycle (one order, every event) and WorkOrderStore          *)
(* (PostgreSQL, concurrent writers).                                       *)
(*                                                                         *)
(* Texts, hashes, reasons and evidence references are abstracted: an event *)
(* that fails a format check (assertContext, assertContract, text, ...)    *)
(* is rejected before it reaches the state and is not offered.  What the   *)
(* guards and the properties tell apart is kept: stages, clock, QA and     *)
(* acceptance states, the status of each input, blocker, nonconformity and *)
(* change request, the owner, the artifacts, and the lifecycle timestamps. *)
(* Times are positive naturals; 0 is the null timestamp.                   *)
(***************************************************************************)
EXTENDS Naturals

CONSTANTS
  Inputs,           \* input_ids of the accepted Work Order
  Humans,           \* ids of human actors (an owner is one of them)
  Blockers,         \* blocker ids a producer may use
  Nonconformities,  \* nonconformity ids a reviewer may use
  ChangeRequests,   \* change request ids
  Artifacts,        \* what a QA submission may carry: one value per ref list
  Nobody,           \* responsible_owner = null
  Agent,            \* an actor of kind "agent" or "system"
  NoArtifact        \* delivery_artifact_refs = []

ASSUME AggregateAssumption ==
  /\ Inputs # {}
  /\ Nobody \notin Humans
  /\ Agent \notin Humans
  /\ NoArtifact \notin Artifacts

TERMINAL_STAGES == {"CLOSED", "CANCELLED"}

Stages ==
  {"AWAITING_INPUTS", "READY", "IN_PROGRESS", "BLOCKED", "QA", "READY_TO_DELIVER",
   "DELIVERED", "ACCEPTED", "REWORK_REQUIRED"} \cup TERMINAL_STAGES

PausedClocks == {"PAUSED_CLIENT", "PAUSED_INTERNAL", "PAUSED_FORCE_MAJEURE"}

ClockStates == {"NOT_STARTED", "RUNNING", "STOPPED"} \cup PausedClocks

Actors == Humans \cup {Agent}

(* confenge.work_order.v1, without the commercial identity (WorkOrderStore *)
(* adds it) and without version and last_event_id (the store's row).  The  *)
(* lists of the resource are functions from ids to a status; an id that    *)
(* the list does not hold is ABSENT.                                       *)
Order ==
  [stage : Stages,
   clock : ClockStates,
   owner : Humans \cup {Nobody},
   inputs : [Inputs -> {"REQUIRED", "RECEIVED", "WAIVED"}],
   blockers : [Blockers -> {"ABSENT", "OPEN", "RESOLVED"}],
   effort : BOOLEAN,                           \* actual_effort_minutes > 0
   qa : {"NOT_STARTED", "IN_REVIEW", "PASSED", "FAILED"},
   artifacts : Artifacts \cup {NoArtifact},
   acceptance : {"PENDING", "ACCEPTED", "REWORK_REQUIRED", "CANCELLED"},
   nonconformities : [Nonconformities -> {"ABSENT", "OPEN", "RESOLVED"}],
   changes : [ChangeRequests -> {"ABSENT", "PROPOSED", "ACCEPTED", "REJECTED"}],
   startedAt : Nat,
   dueAt : Nat,
   deliveredAt : Nat]

-----------------------------------------------------------------------------
(* Events.  arg is the id the event is about; warrant is the authority its *)
(* data carries (capacity_state = COMMITTED on a production start,         *)
(* authority_role = SUPERVISOR on a clock decision); due is the due date   *)
(* decideWorkOrder derived from the pinned calendar.                       *)

InputTypes == {"INPUT_RECEIVED", "INPUT_WAIVED"}
PauseTypes == {"CLOCK_PAUSED_CLIENT", "CLOCK_PAUSED_INTERNAL", "CLOCK_PAUSED_FORCE_MAJEURE"}
DefectTypes == {"QA_FAILED", "CLIENT_REWORK_REQUESTED", "NONCONFORMITY_OPENED"}
DecisionTypes == {"CHANGE_REQUEST_ACCEPTED", "CHANGE_REQUEST_REJECTED"}
ClockTypes == PauseTypes \cup {"CLOCK_RESUMED"}

EventTypes ==
  InputTypes \cup ClockTypes \cup DefectTypes \cup DecisionTypes \cup
  {"OWNER_ASSIGNED", "PRODUCTION_STARTED", "WORK_BLOCKED", "WORK_RESUMED",
   "EFFORT_RECORDED", "QA_SUBMITTED", "QA_PASSED", "DELIVERY_RECORDED",
   "CLIENT_ACCEPTED", "REWORK_STARTED", "NONCONFORMITY_RESOLVED",
   "CHANGE_REQUEST_OPENED", "WORK_ORDER_CANCELLED", "WORK_ORDER_CLOSED"}

(* The ids an event of this type can name; {Nobody} when it names none.    *)
ArgsOf(type) ==
  CASE type \in InputTypes -> Inputs
    [] type = "OWNER_ASSIGNED" -> Humans
    [] type \in {"WORK_BLOCKED", "WORK_RESUMED"} -> Blockers
    [] type = "QA_SUBMITTED" -> Artifacts
    [] type \in DefectTypes \cup {"NONCONFORMITY_RESOLVED"} -> Nonconformities
    [] type \in DecisionTypes \cup {"CHANGE_REQUEST_OPENED"} -> ChangeRequests
    [] OTHER -> {Nobody}

Human(e) == e.actor \in Humans

(* The event types whose handler demands event.actor.kind = "human".       *)
HumanTypes ==
  {"INPUT_WAIVED", "OWNER_ASSIGNED", "PRODUCTION_STARTED", "QA_PASSED",
   "DELIVERY_RECORDED", "CLIENT_ACCEPTED", "CLIENT_REWORK_REQUESTED",
   "WORK_ORDER_CANCELLED", "WORK_ORDER_CLOSED"} \cup DecisionTypes \cup ClockTypes

(* requireStage, and for the types without one every live stage.           *)
SourceStages(type) ==
  CASE type \in InputTypes -> {"AWAITING_INPUTS"}
    [] type = "PRODUCTION_STARTED" -> {"READY"}
    [] type \in {"WORK_BLOCKED", "QA_SUBMITTED"} -> {"IN_PROGRESS"}
    [] type = "WORK_RESUMED" -> {"BLOCKED"}
    [] type = "EFFORT_RECORDED" -> {"IN_PROGRESS", "BLOCKED", "QA", "REWORK_REQUIRED"}
    [] type \in {"QA_PASSED", "QA_FAILED"} -> {"QA"}
    [] type = "DELIVERY_RECORDED" -> {"READY_TO_DELIVER"}
    [] type \in {"CLIENT_ACCEPTED", "CLIENT_REWORK_REQUESTED"} -> {"DELIVERED"}
    [] type = "REWORK_STARTED" -> {"REWORK_REQUIRED"}
    [] type = "WORK_ORDER_CLOSED" -> {"ACCEPTED"}
    [] OTHER -> Stages \ TERMINAL_STAGES

AllInputsComplete(o) == \A i \in Inputs : o.inputs[i] # "REQUIRED"

OpenBlockers(o) == {b \in Blockers : o.blockers[b] = "OPEN"}

RequireClockAuthority(o, e) == e.actor = o.owner \/ e.warrant

(* The remaining invariant() checks of each case of applyWorkOrderEvent.   *)
Warranted(o, e) ==
  /\ e.type \in InputTypes => o.inputs[e.arg] = "REQUIRED"
  /\ e.type = "PRODUCTION_STARTED" =>
       o.owner # Nobody /\ AllInputsComplete(o) /\ e.warrant /\ e.due > 0
  /\ e.type = "WORK_BLOCKED" => o.blockers[e.arg] = "ABSENT"
  /\ e.type = "WORK_RESUMED" => OpenBlockers(o) = {e.arg}
  /\ e.type = "QA_SUBMITTED" => OpenBlockers(o) = {} /\ o.effort
  /\ e.type = "QA_PASSED" => o.artifacts # NoArtifact
  /\ e.type = "DELIVERY_RECORDED" => o.qa = "PASSED" /\ o.artifacts # NoArtifact
  /\ e.type \in DefectTypes => o.nonconformities[e.arg] = "ABSENT"
  /\ e.type = "NONCONFORMITY_RESOLVED" => o.nonconformities[e.arg] = "OPEN"
  /\ e.type = "REWORK_STARTED" => \E n \in Nonconformities : o.nonconformities[n] = "OPEN"
  /\ e.type = "CHANGE_REQUEST_OPENED" => o.changes[e.arg] = "ABSENT"
  /\ e.type \in DecisionTypes => o.changes[e.arg] = "PROPOSED"
  /\ e.type \in PauseTypes => o.clock = "RUNNING"
  /\ e.type = "CLOCK_RESUMED" => o.clock \in PausedClocks
  /\ e.type \in ClockTypes => RequireClockAuthority(o, e)

(* Mutants of Legal: a guard a maintainer could drop or widen.             *)
LegalWithoutQaEvidence(o, e) ==
  /\ o.stage \in SourceStages(e.type) \ TERMINAL_STAGES
  /\ e.type \in HumanTypes => Human(e)
  /\ e.type # "QA_SUBMITTED" => Warranted(o, e)

LegalRestart(o, e) ==
  /\ o.stage \in SourceStages(e.type) \cup (IF e.type = "PRODUCTION_STARTED" THEN {"IN_PROGRESS"} ELSE {})
  /\ o.stage \notin TERMINAL_STAGES
  /\ e.type \in HumanTypes => Human(e)
  /\ Warranted(o, e)

Legal(o, e) ==
  /\ o.stage \notin TERMINAL_STAGES
  /\ o.stage \in SourceStages(e.type)
  /\ e.type \in HumanTypes => Human(e)
  /\ Warranted(o, e)

-----------------------------------------------------------------------------
(* createWorkOrder: the snapshot that assertInitialSnapshot admits.        *)
CreateWorkOrder(owner) ==
  [stage |-> "AWAITING_INPUTS",
   clock |-> "NOT_STARTED",
   owner |-> owner,
   inputs |-> [i \in Inputs |-> "REQUIRED"],
   blockers |-> [b \in Blockers |-> "ABSENT"],
   effort |-> FALSE,
   qa |-> "NOT_STARTED",
   artifacts |-> NoArtifact,
   acceptance |-> "PENDING",
   nonconformities |-> [n \in Nonconformities |-> "ABSENT"],
   changes |-> [c \in ChangeRequests |-> "ABSENT"],
   startedAt |-> 0, dueAt |-> 0, deliveredAt |-> 0]

(* expectedTransition: the stage an event leads to.                        *)
ExpectedTransition(o, e) ==
  CASE e.type \in InputTypes ->
         IF \A i \in Inputs \ {e.arg} : o.inputs[i] # "REQUIRED" THEN "READY" ELSE o.stage
    [] e.type \in {"PRODUCTION_STARTED", "WORK_RESUMED", "REWORK_STARTED"} -> "IN_PROGRESS"
    [] e.type = "WORK_BLOCKED" -> "BLOCKED"
    [] e.type = "QA_SUBMITTED" -> "QA"
    [] e.type = "QA_PASSED" -> "READY_TO_DELIVER"
    [] e.type \in {"QA_FAILED", "CLIENT_REWORK_REQUESTED"} -> "REWORK_REQUIRED"
    [] e.type = "DELIVERY_RECORDED" -> "DELIVERED"
    [] e.type = "CLIENT_ACCEPTED" -> "ACCEPTED"
    [] e.type = "WORK_ORDER_CANCELLED" -> "CANCELLED"
    [] e.type = "WORK_ORDER_CLOSED" -> "CLOSED"
    [] OTHER -> o.stage

(* What the cases of applyWorkOrderEvent assign, field by field.           *)
NextInputs(o, e) ==
  CASE e.type = "INPUT_RECEIVED" -> [o.inputs EXCEPT ![e.arg] = "RECEIVED"]
    [] e.type = "INPUT_WAIVED" -> [o.inputs EXCEPT ![e.arg] = "WAIVED"]
    [] OTHER -> o.inputs

NextBlockers(o, e) ==
  CASE e.type = "WORK_BLOCKED" -> [o.blockers EXCEPT ![e.arg] = "OPEN"]
    [] e.type = "WORK_RESUMED" -> [o.blockers EXCEPT ![e.arg] = "RESOLVED"]
    [] OTHER -> o.blockers

NextNonconformities(o, e) ==
  CASE e.type \in DefectTypes -> [o.nonconformities EXCEPT ![e.arg] = "OPEN"]
    [] e.type = "NONCONFORMITY_RESOLVED" -> [o.nonconformities EXCEPT ![e.arg] = "RESOLVED"]
    [] OTHER -> o.nonconformities

NextChanges(o, e) ==
  CASE e.type = "CHANGE_REQUEST_OPENED" -> [o.changes EXCEPT ![e.arg] = "PROPOSED"]
    [] e.type = "CHANGE_REQUEST_ACCEPTED" -> [o.changes EXCEPT ![e.arg] = "ACCEPTED"]
    [] e.type = "CHANGE_REQUEST_REJECTED" -> [o.changes EXCEPT ![e.arg] = "REJECTED"]
    [] OTHER -> o.changes

(* Mutant of NextClock: a rework leaves the clock stopped.                 *)
NextClockNoRestart(o, e) ==
  CASE e.type \in {"PRODUCTION_STARTED", "CLOCK_RESUMED"} -> "RUNNING"
    [] e.type \in {"DELIVERY_RECORDED", "WORK_ORDER_CANCELLED", "WORK_ORDER_CLOSED"} -> "STOPPED"
    [] OTHER -> o.clock

NextClock(o, e) ==
  CASE e.type \in {"PRODUCTION_STARTED", "REWORK_STARTED", "CLOCK_RESUMED"} -> "RUNNING"
    [] e.type \in {"DELIVERY_RECORDED", "WORK_ORDER_CANCELLED", "WORK_ORDER_CLOSED"} -> "STOPPED"
    [] e.type = "CLOCK_PAUSED_CLIENT" -> "PAUSED_CLIENT"
    [] e.type = "CLOCK_PAUSED_INTERNAL" -> "PAUSED_INTERNAL"
    [] e.type = "CLOCK_PAUSED_FORCE_MAJEURE" -> "PAUSED_FORCE_MAJEURE"
    [] OTHER -> o.clock

(* Mutant of NextQa: the event type is taken for the state.                *)
NextQaUnknownVerdict(o, e) ==
  CASE e.type = "QA_SUBMITTED" -> "IN_REVIEW"
    [] e.type = "QA_PASSED" -> "PASSED"
    [] e.type = "QA_FAILED" -> "QA_FAILED"
    [] e.type = "REWORK_STARTED" -> "NOT_STARTED"
    [] OTHER -> o.qa

NextQa(o, e) ==
  CASE e.type = "QA_SUBMITTED" -> "IN_REVIEW"
    [] e.type = "QA_PASSED" -> "PASSED"
    [] e.type = "QA_FAILED" -> "FAILED"
    [] e.type = "REWORK_STARTED" -> "NOT_STARTED"
    [] OTHER -> o.qa

NextAcceptance(o, e) ==
  CASE e.type = "CLIENT_ACCEPTED" -> "ACCEPTED"
    [] e.type = "CLIENT_REWORK_REQUESTED" -> "REWORK_REQUIRED"
    [] e.type = "REWORK_STARTED" -> "PENDING"
    [] e.type = "WORK_ORDER_CANCELLED" -> "CANCELLED"
    [] OTHER -> o.acceptance

(* Mutant of ReplaceArtifacts: the delivery record carries its own refs.   *)
ReplaceArtifactsOnDelivery(o, e) ==
  IF e.type = "QA_SUBMITTED" THEN e.arg
  ELSE IF e.type = "DELIVERY_RECORDED" THEN CHOOSE a \in Artifacts : a # o.artifacts
  ELSE o.artifacts

ReplaceArtifacts(o, e) == IF e.type = "QA_SUBMITTED" THEN e.arg ELSE o.artifacts

ApplyWorkOrderEvent(o, e) ==
  [stage |-> ExpectedTransition(o, e),
   clock |-> NextClock(o, e),
   owner |-> IF e.type = "OWNER_ASSIGNED" THEN e.arg ELSE o.owner,
   inputs |-> NextInputs(o, e),
   blockers |-> NextBlockers(o, e),
   effort |-> o.effort \/ e.type = "EFFORT_RECORDED",
   qa |-> NextQa(o, e),
   artifacts |-> ReplaceArtifacts(o, e),
   acceptance |-> NextAcceptance(o, e),
   nonconformities |-> NextNonconformities(o, e),
   changes |-> NextChanges(o, e),
   startedAt |-> IF e.type = "PRODUCTION_STARTED" THEN e.at ELSE o.startedAt,
   dueAt |-> IF e.type = "PRODUCTION_STARTED" THEN e.due ELSE o.dueAt,
   deliveredAt |-> IF e.type = "DELIVERY_RECORDED" THEN e.at ELSE o.deliveredAt]

-----------------------------------------------------------------------------
(* What the gates of the lifecycle establish, as predicates on one order.  *)

ProductionStages == {"IN_PROGRESS", "BLOCKED", "QA", "READY_TO_DELIVER"}
DeliveryStages == {"READY_TO_DELIVER", "DELIVERED", "ACCEPTED", "CLOSED"}

(* Production gate: an order past READY that was not cancelled has all its *)
(* inputs received or waived, a responsible owner, a start and a due date. *)
ProductionGate(o) ==
  o.stage \notin {"AWAITING_INPUTS", "READY", "CANCELLED"} =>
    /\ AllInputsComplete(o)
    /\ o.owner # Nobody
    /\ o.startedAt > 0 /\ o.dueAt > 0

(* Delivery gate: what is under review carries artifacts and recorded      *)
(* effort, and what is ready, delivered, accepted or closed also passed QA.*)
DeliveryGate(o) ==
  /\ o.stage \in {"QA"} \cup DeliveryStages => o.artifacts # NoArtifact /\ o.effort
  /\ o.stage \in DeliveryStages => o.qa = "PASSED"

(* The SLA clock and the stage never contradict each other: not started    *)
(* before production, running or paused while producing, stopped once the  *)
(* order is delivered, and after a client's rework request until the       *)
(* rework starts.                                                          *)
ClockFollowsStage(o) ==
  /\ o.stage \in {"AWAITING_INPUTS", "READY"} => o.clock = "NOT_STARTED"
  /\ o.stage \in ProductionStages => o.clock \in PausedClocks \cup {"RUNNING"}
  /\ o.stage \in {"DELIVERED", "ACCEPTED"} \cup TERMINAL_STAGES => o.clock = "STOPPED"
  /\ o.stage = "REWORK_REQUIRED" =>
       IF o.acceptance = "REWORK_REQUIRED" THEN o.clock = "STOPPED"
                                           ELSE o.clock \in PausedClocks \cup {"RUNNING"}

(* Exactly one blocker is open while the order is BLOCKED and none is      *)
(* otherwise (a cancelled order keeps what it had): a resume can name the  *)
(* only open blocker, so it never fails because another one is open.       *)
BlockersFollowStage(o) ==
  /\ o.stage = "BLOCKED" => \E b \in Blockers : OpenBlockers(o) = {b}
  /\ o.stage \notin {"BLOCKED", "CANCELLED"} => OpenBlockers(o) = {}

(* The QA and client verdicts are those of the current round: a rework     *)
(* erases them, so no stage carries a verdict of an earlier round.         *)
VerdictsFollowStage(o) ==
  /\ o.acceptance = "ACCEPTED" <=> o.stage \in {"ACCEPTED", "CLOSED"}
  /\ o.acceptance = "CANCELLED" <=> o.stage = "CANCELLED"
  /\ o.acceptance = "REWORK_REQUIRED" => o.stage = "REWORK_REQUIRED" /\ o.qa = "PASSED"
  /\ o.stage \in {"AWAITING_INPUTS", "READY", "IN_PROGRESS", "BLOCKED"} => o.qa = "NOT_STARTED"
  /\ o.stage = "QA" => o.qa = "IN_REVIEW"

OrderInv(o) ==
  /\ ProductionGate(o)
  /\ DeliveryGate(o)
  /\ ClockFollowsStage(o)
  /\ BlockersFollowStage(o)
  /\ VerdictsFollowStage(o)

=============================================================================
