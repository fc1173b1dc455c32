---------------------------- MODULE WorkOrderLemmas ----------------------------
(***************************************************************************)
(* What one legal event does to a Work Order, for every set of inputs,     *)
(* actors, blockers, nonconformities, change requests and artifacts: the   *)
(* order stays well formed and keeps every gate of the aggregate.          *)
(***************************************************************************)
EXTENDS WorkOrder, TLAPS

(* What decideWorkOrder can hand to applyWorkOrderEvent.                   *)
WellFormed(e) ==
  /\ e.type \in EventTypes
  /\ e.arg \in ArgsOf(e.type)
  /\ e.at \in Nat /\ e.at > 0
  /\ e.due \in Nat

(* createWorkOrder returns a well-formed order that satisfies every gate.  *)
LEMMA CreatedOk ==
  ASSUME NEW h \in Humans \cup {Nobody}
  PROVE  CreateWorkOrder(h) \in Order /\ OrderInv(CreateWorkOrder(h))
BY DEF CreateWorkOrder, Order, Stages, TERMINAL_STAGES, ClockStates, PausedClocks,
       OrderInv, ProductionGate, DeliveryGate, ClockFollowsStage, BlockersFollowStage,
       VerdictsFollowStage, ProductionStages, DeliveryStages, OpenBlockers

(* The id an event carries is of the kind its type demands.                *)
LEMMA ArgTyped ==
  ASSUME NEW e, WellFormed(e)
  PROVE  /\ e.type \in InputTypes => e.arg \in Inputs
         /\ e.type = "OWNER_ASSIGNED" => e.arg \in Humans
         /\ e.type \in {"WORK_BLOCKED", "WORK_RESUMED"} => e.arg \in Blockers
         /\ e.type = "QA_SUBMITTED" => e.arg \in Artifacts
         /\ e.type \in DefectTypes \cup {"NONCONFORMITY_RESOLVED"} => e.arg \in Nonconformities
         /\ e.type \in DecisionTypes \cup {"CHANGE_REQUEST_OPENED"} => e.arg \in ChangeRequests
BY DEF WellFormed, ArgsOf, InputTypes, DefectTypes, DecisionTypes

(* applyWorkOrderEvent returns a well-formed order.                        *)
LEMMA ApplyTyped ==
  ASSUME NEW o \in Order, NEW e, WellFormed(e)
  PROVE  ApplyWorkOrderEvent(o, e) \in Order
<1>1. ExpectedTransition(o, e) \in Stages
  BY DEF ExpectedTransition, Stages, TERMINAL_STAGES, Order
<1>2. NextClock(o, e) \in ClockStates
  BY DEF NextClock, ClockStates, PausedClocks, Order
<1>3. NextInputs(o, e) \in [Inputs -> {"REQUIRED", "RECEIVED", "WAIVED"}]
  BY ArgTyped DEF NextInputs, InputTypes, Order
<1>4. NextBlockers(o, e) \in [Blockers -> {"ABSENT", "OPEN", "RESOLVED"}]
  BY ArgTyped DEF NextBlockers, Order
<1>5. NextNonconformities(o, e) \in [Nonconformities -> {"ABSENT", "OPEN", "RESOLVED"}]
  BY ArgTyped DEF NextNonconformities, Order
<1>6. NextChanges(o, e) \in [ChangeRequests -> {"ABSENT", "PROPOSED", "ACCEPTED", "REJECTED"}]
  BY ArgTyped DEF NextChanges, DecisionTypes, Order
<1>7. NextQa(o, e) \in {"NOT_STARTED", "IN_REVIEW", "PASSED", "FAILED"}
  BY DEF NextQa, Order
<1>8. NextAcceptance(o, e) \in {"PENDING", "ACCEPTED", "REWORK_REQUIRED", "CANCELLED"}
  BY DEF NextAcceptance, Order
<1>9. ReplaceArtifacts(o, e) \in Artifacts \cup {NoArtifact}
  BY ArgTyped DEF ReplaceArtifacts, Order
<1>10. (o.effort \/ e.type = "EFFORT_RECORDED") \in BOOLEAN
  OBVIOUS
<1>11. (IF e.type = "OWNER_ASSIGNED" THEN e.arg ELSE o.owner) \in Humans \cup {Nobody}
  BY ArgTyped DEF Order
<1>12. /\ e.at \in Nat /\ e.due \in Nat
       /\ o.startedAt \in Nat /\ o.dueAt \in Nat /\ o.deliveredAt \in Nat
  BY DEF WellFormed, Order
<1>13. QED
  BY <1>1, <1>2, <1>3, <1>4, <1>5, <1>6, <1>7, <1>8, <1>9, <1>10, <1>11, <1>12
     DEF ApplyWorkOrderEvent, Order

(* A legal event leaves the production gate closed until inputs, owner and *)
(* due date are there, and never takes them away again.                    *)
LEMMA KeepsProductionGate ==
  ASSUME NEW o \in Order, NEW e, WellFormed(e), Legal(o, e), OrderInv(o)
  PROVE  ProductionGate(ApplyWorkOrderEvent(o, e))
<1> DEFINE n == ApplyWorkOrderEvent(o, e)
<1> SUFFICES ASSUME n.stage \notin {"AWAITING_INPUTS", "READY", "CANCELLED"}
             PROVE  /\ AllInputsComplete(n) /\ n.owner # Nobody
                    /\ n.startedAt > 0 /\ n.dueAt > 0
  BY DEF ProductionGate
<1>1. e.type \notin InputTypes
  BY DEF Legal, SourceStages, ApplyWorkOrderEvent, ExpectedTransition, InputTypes
<1>2. n.inputs = o.inputs
  BY <1>1 DEF ApplyWorkOrderEvent, NextInputs, InputTypes
<1>3. e.type = "OWNER_ASSIGNED" => e.arg # Nobody
  BY ArgTyped, AggregateAssumption
<1>4. CASE e.type = "PRODUCTION_STARTED"
  <2>1. o.owner # Nobody /\ AllInputsComplete(o) /\ e.due > 0 /\ e.at > 0
    BY <1>4 DEF Legal, Warranted, WellFormed
  <2>2. n.owner = o.owner /\ n.startedAt = e.at /\ n.dueAt = e.due
    BY <1>4 DEF ApplyWorkOrderEvent
  <2>3. QED
    BY <1>2, <2>1, <2>2 DEF AllInputsComplete
<1>5. CASE e.type # "PRODUCTION_STARTED"
  <2>1. o.stage \notin {"AWAITING_INPUTS", "READY", "CANCELLED"}
    BY <1>1, <1>5 DEF Legal, SourceStages, ApplyWorkOrderEvent, ExpectedTransition,
       TERMINAL_STAGES, WellFormed, EventTypes
  <2>2. QED
    BY <1>2, <1>3, <1>5, <2>1
    DEF OrderInv, ProductionGate, ApplyWorkOrderEvent, AllInputsComplete
<1>6. QED
  BY <1>4, <1>5

(* A legal event brings an order to review, delivery or closeout only with *)
(* the artifacts, the effort and the passed QA that the stage demands.     *)
LEMMA KeepsDeliveryGate ==
  ASSUME NEW o \in Order, NEW e, WellFormed(e), Legal(o, e), OrderInv(o)
  PROVE  DeliveryGate(ApplyWorkOrderEvent(o, e))
<1> USE DEF DeliveryGate, DeliveryStages
<1>1. CASE e.type \in {"QA_SUBMITTED", "QA_PASSED", "DELIVERY_RECORDED", "CLIENT_ACCEPTED", "WORK_ORDER_CLOSED"}
  <2>1. CASE e.type = "QA_SUBMITTED"
    <3>1. e.arg # NoArtifact /\ o.effort
      BY <2>1, ArgTyped, AggregateAssumption DEF Legal, Warranted
    <3>2. QED
      BY <2>1, <3>1 DEF ApplyWorkOrderEvent, ExpectedTransition, ReplaceArtifacts, InputTypes
  <2>2. CASE e.type # "QA_SUBMITTED"
    <3>1. o.artifacts # NoArtifact /\ o.effort /\ (e.type # "QA_PASSED" => o.qa = "PASSED")
      BY <1>1, <2>2 DEF Legal, SourceStages, OrderInv, InputTypes
    <3>2. QED
      BY <1>1, <2>2, <3>1 DEF ApplyWorkOrderEvent, ReplaceArtifacts, NextQa
  <2>3. QED
    BY <2>1, <2>2
<1>2. CASE e.type \notin {"QA_SUBMITTED", "QA_PASSED", "DELIVERY_RECORDED", "CLIENT_ACCEPTED", "WORK_ORDER_CLOSED"}
  BY <1>2
  DEF Legal, ApplyWorkOrderEvent, ExpectedTransition, NextQa, SourceStages,
      ReplaceArtifacts, OrderInv, InputTypes
<1>3. QED
  BY <1>1, <1>2

(* A legal event keeps the SLA clock in a state its stage allows.          *)
LEMMA KeepsClock ==
  ASSUME NEW o \in Order, NEW e, WellFormed(e), Legal(o, e), OrderInv(o)
  PROVE  ClockFollowsStage(ApplyWorkOrderEvent(o, e))
BY DEF Legal, SourceStages, Warranted, ApplyWorkOrderEvent, ExpectedTransition, NextClock,
      NextAcceptance, OrderInv, ClockFollowsStage, VerdictsFollowStage, ProductionStages,
      PausedClocks, TERMINAL_STAGES, Stages, InputTypes, PauseTypes, ClockTypes

(* A legal event leaves no QA or client verdict of an earlier round.       *)
LEMMA KeepsVerdicts ==
  ASSUME NEW o \in Order, NEW e, WellFormed(e), Legal(o, e), OrderInv(o)
  PROVE  VerdictsFollowStage(ApplyWorkOrderEvent(o, e))
BY DEF Legal, SourceStages, ApplyWorkOrderEvent, ExpectedTransition, NextQa, DeliveryGate, DeliveryStages,
      NextAcceptance, OrderInv, VerdictsFollowStage, TERMINAL_STAGES, Stages, InputTypes

(* A legal event keeps one open blocker while BLOCKED and none otherwise.  *)
LEMMA KeepsBlockers ==
  ASSUME NEW o \in Order, NEW e, WellFormed(e), Legal(o, e), OrderInv(o)
  PROVE  BlockersFollowStage(ApplyWorkOrderEvent(o, e))
<1> DEFINE n == ApplyWorkOrderEvent(o, e)
<1>1. CASE e.type = "WORK_BLOCKED"
  <2>1. e.arg \in Blockers /\ OpenBlockers(o) = {}
    BY <1>1, ArgTyped DEF Legal, SourceStages, OrderInv, BlockersFollowStage, InputTypes
  <2>2. OpenBlockers(n) = {e.arg}
    BY <1>1, <2>1 DEF OpenBlockers, ApplyWorkOrderEvent, NextBlockers, Order
  <2>3. n.stage = "BLOCKED"
    BY <1>1 DEF ApplyWorkOrderEvent, ExpectedTransition, InputTypes
  <2>4. QED
    BY <2>1, <2>2, <2>3 DEF BlockersFollowStage
<1>2. CASE e.type = "WORK_RESUMED"
  <2>1. OpenBlockers(o) = {e.arg}
    BY <1>2 DEF Legal, Warranted
  <2>2. OpenBlockers(n) = {}
    BY <1>2, <2>1 DEF OpenBlockers, ApplyWorkOrderEvent, NextBlockers, Order
  <2>3. n.stage = "IN_PROGRESS"
    BY <1>2 DEF ApplyWorkOrderEvent, ExpectedTransition, InputTypes
  <2>4. QED
    BY <2>2, <2>3 DEF BlockersFollowStage
<1>3. CASE e.type \notin {"WORK_BLOCKED", "WORK_RESUMED"}
  <2>1. OpenBlockers(n) = OpenBlockers(o)
    BY <1>3 DEF OpenBlockers, ApplyWorkOrderEvent, NextBlockers
  <2>2. n.stage = o.stage \/ n.stage = "CANCELLED" \/ (n.stage # "BLOCKED" /\ o.stage # "BLOCKED")
    BY <1>3 DEF Legal, SourceStages, ApplyWorkOrderEvent, ExpectedTransition, InputTypes
  <2>3. o.stage # "CANCELLED"
    BY DEF Legal, TERMINAL_STAGES
  <2>4. QED
    BY <2>1, <2>2, <2>3 DEF OrderInv, BlockersFollowStage
<1>4. QED
  BY <1>1, <1>2, <1>3

(* A legal event keeps every gate of the aggregate.                        *)
LEMMA ApplyKeepsOrderInv ==
  ASSUME NEW o \in Order, NEW e, WellFormed(e), Legal(o, e), OrderInv(o)
  PROVE  OrderInv(ApplyWorkOrderEvent(o, e))
BY KeepsProductionGate, KeepsDeliveryGate, KeepsClock, KeepsVerdicts, KeepsBlockers
   DEF OrderInv

=============================================================================
