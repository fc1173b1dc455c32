--------------------------- MODULE WorkOrderProofs ---------------------------
(***************************************************************************)
(* The properties of the Work Order lifecycle, proved for every set of     *)
(* ids, every bound on time and every lead time.                           *)
(***************************************************************************)
EXTENDS WorkOrderLifecycle, WorkOrderLemmas

(* The inductive invariant: the gates of the aggregate, that the artifacts *)
(* on the order are those the reviewer saw, and that a due date exists     *)
(* once production has started, a delivery date once it is delivered.      *)
IInv ==
  /\ TypeOK
  /\ now > 0
  /\ OrderInv(order)
  /\ DeliveredIsReviewed
  /\ order.stage \in {"AWAITING_INPUTS", "READY"} => order.dueAt = 0 /\ order.startedAt = 0
  /\ order.stage \in {"DELIVERED", "ACCEPTED", "CLOSED"} => order.deliveredAt # 0

(* createWorkOrder establishes the invariant.                              *)
LEMMA InitIInv == Init => IInv
<1> SUFFICES ASSUME Init PROVE IInv
  OBVIOUS
<1>1. PICK h \in Humans \cup {Nobody} : order = CreateWorkOrder(h)
  BY DEF Init
<1>2. order \in Order /\ OrderInv(order)
  BY <1>1, CreatedOk
<1>3. order.stage = "AWAITING_INPUTS" /\ order.dueAt = 0 /\ order.startedAt = 0
  BY <1>1 DEF CreateWorkOrder
<1>4. QED
  BY <1>2, <1>3 DEF Init, IInv, TypeOK, DeliveredIsReviewed, DeliveryStages

(* Every step of the lifecycle is one legal event.                         *)
LEMMA StepIsEvent ==
  ASSUME IInv, Next
  PROVE  \E e :
           /\ WellFormed(e)
           /\ Legal(order, e)
           /\ order' = ApplyWorkOrderEvent(order, e)
           /\ now' = e.at
           /\ reviewed' = IF e.type = "QA_PASSED" THEN order.artifacts ELSE reviewed
<1>1. ASSUME NEW types \in SUBSET EventTypes, DecideWorkOrder(types)
      PROVE  \E e :
               /\ WellFormed(e)
               /\ Legal(order, e)
               /\ order' = ApplyWorkOrderEvent(order, e)
               /\ now' = e.at
               /\ reviewed' = IF e.type = "QA_PASSED" THEN order.artifacts ELSE reviewed
  <2>1. PICK type \in types, actor \in Actors, warrant \in BOOLEAN, at \in now..MaxTime :
          \E arg \in ArgsOf(type) :
            LET e == [type |-> type, arg |-> arg, actor |-> actor, warrant |-> warrant, at |-> at,
                      due |-> IF type = "PRODUCTION_STARTED" THEN at + LeadTime ELSE 0]
            IN  /\ Legal(order, e)
                /\ order' = ApplyWorkOrderEvent(order, e)
                /\ now' = at
                /\ reviewed' = IF type = "QA_PASSED" THEN order.artifacts ELSE reviewed
    BY <1>1 DEF DecideWorkOrder
  <2>2. PICK arg \in ArgsOf(type) :
          LET e == [type |-> type, arg |-> arg, actor |-> actor, warrant |-> warrant, at |-> at,
                    due |-> IF type = "PRODUCTION_STARTED" THEN at + LeadTime ELSE 0]
          IN  /\ Legal(order, e)
              /\ order' = ApplyWorkOrderEvent(order, e)
              /\ now' = at
              /\ reviewed' = IF type = "QA_PASSED" THEN order.artifacts ELSE reviewed
    BY <2>1
  <2> DEFINE ev == [type |-> type, arg |-> arg, actor |-> actor, warrant |-> warrant, at |-> at,
                    due |-> IF type = "PRODUCTION_STARTED" THEN at + LeadTime ELSE 0]
  <2>3. at \in Nat /\ at > 0 /\ at + LeadTime \in Nat
    BY LifecycleAssumption DEF IInv, TypeOK
  <2>4. WellFormed(ev)
    BY <2>3 DEF WellFormed
  <2>5. QED
    BY <2>2, <2>4
<1>2. \E types \in SUBSET EventTypes : DecideWorkOrder(types)
  BY DEF Next, EventTypes, ResolveInput, AssignOwner, StartProduction, Block, Resume,
         RecordEffort, SubmitQa, PassQa, FailQa, Deliver, ClientAccept, ClientRework,
         StartRework, OpenNonconformity, ResolveNonconformity, OpenChange, DecideChange,
         PauseClock, ResumeClock, Cancel, Close, ClockTypes, DefectTypes
<1>3. QED
  BY <1>1, <1>2

(* Every event decideWorkOrder can produce preserves it.                   *)
LEMMA NextIInv == IInv /\ [Next]_vars => IInv'
<1> SUFFICES ASSUME IInv, [Next]_vars PROVE IInv'
  OBVIOUS
<1>1. CASE Next
  <2>1. PICK e :
           /\ WellFormed(e)
           /\ Legal(order, e)
           /\ order' = ApplyWorkOrderEvent(order, e)
           /\ now' = e.at
           /\ reviewed' = IF e.type = "QA_PASSED" THEN order.artifacts ELSE reviewed
    BY <1>1, StepIsEvent
  <2>2. order' \in Order /\ OrderInv(order')
    BY <2>1, ApplyTyped, ApplyKeepsOrderInv DEF IInv, TypeOK
  <2>3. now' \in Nat /\ now' > 0 /\ reviewed' \in Artifacts \cup {NoArtifact}
    BY <2>1 DEF WellFormed, IInv, TypeOK, Order
  <2>4. DeliveredIsReviewed'
    BY <2>1 DEF DeliveredIsReviewed, IInv, DeliveryStages, Legal, SourceStages, ApplyWorkOrderEvent,
                ExpectedTransition, ReplaceArtifacts, InputTypes
  <2>5. order'.stage \in {"AWAITING_INPUTS", "READY"} => order'.dueAt = 0 /\ order'.startedAt = 0
    BY <2>1 DEF IInv, Legal, SourceStages, ApplyWorkOrderEvent, ExpectedTransition, InputTypes
  <2>6. order'.stage \in {"DELIVERED", "ACCEPTED", "CLOSED"} => order'.deliveredAt # 0
    BY <2>1 DEF IInv, WellFormed, Legal, SourceStages, ApplyWorkOrderEvent, ExpectedTransition,
                InputTypes
  <2>7. QED
    BY <2>2, <2>3, <2>4, <2>5, <2>6 DEF IInv, TypeOK
<1>2. CASE UNCHANGED vars
  BY <1>2 DEF vars, IInv, TypeOK, DeliveredIsReviewed
<1>3. QED
  BY <1>1, <1>2

(* It holds in every state of an order's life.                             *)
LEMMA Invariance == Spec => []IInv
  BY InitIInv, NextIInv, PTL DEF Spec

(* The state of a Work Order is always a well-formed work_order.v1.        *)
THEOREM LifecycleTyped == Spec => []TypeOK
<1>1. IInv => TypeOK
  BY DEF IInv
<1>2. QED
  BY <1>1, Invariance, PTL

(* No path of events, however long, starts production without the inputs   *)
(* and the owner, reaches review without effort and artifacts, delivers    *)
(* without a passed QA, or delivers other artifacts than those it passed   *)
(* (guards of applyWorkOrderEvent, replaceArtifacts).                      *)
THEOREM GatesAlwaysHold == Spec => []GatesNeverSkipped
<1>1. IInv => GatesNeverSkipped
  BY DEF IInv, OrderInv, GatesNeverSkipped
<1>2. QED
  BY <1>1, Invariance, PTL

(* The SLA clock never contradicts the stage, a blocked order has the one  *)
(* blocker that a resume can name, and no verdict of an earlier round of   *)
(* work survives into the next.                                            *)
THEOREM RecordsAlwaysFollow == Spec => []RecordsFollowStage
<1>1. IInv => RecordsFollowStage
  BY DEF IInv, OrderInv, RecordsFollowStage
<1>2. QED
  BY <1>1, Invariance, PTL

(* classifySla of a delivered order depends on its delivery, not on when   *)
(* it is observed, for every lead time.                                    *)
THEOREM SlaNeverMovesAfterDelivery == Spec => []SlaFrozenAtDelivery
<1>1. IInv => SlaFrozenAtDelivery
  BY DEF IInv, OrderInv, ClockFollowsStage, ProductionGate, SlaFrozenAtDelivery,
         ClassifySla, ComparisonAt, TERMINAL_STAGES
<1>2. QED
  BY <1>1, Invariance, PTL

(* The due date and the start of production are set once.                  *)
THEOREM DueDateSetOnce == Spec => DueDatePinned
<1>1. IInv /\ [Next]_vars =>
        [order.dueAt # 0 => order'.dueAt = order.dueAt /\ order'.startedAt = order.startedAt]_vars
  <2> SUFFICES ASSUME IInv, Next, order.dueAt # 0
               PROVE  order'.dueAt = order.dueAt /\ order'.startedAt = order.startedAt
    OBVIOUS
  <2>1. PICK e : WellFormed(e) /\ Legal(order, e) /\ order' = ApplyWorkOrderEvent(order, e)
    BY StepIsEvent
  <2>2. e.type # "PRODUCTION_STARTED"
    BY <2>1 DEF IInv, Legal, SourceStages, InputTypes
  <2>3. QED
    BY <2>1, <2>2 DEF ApplyWorkOrderEvent
<1>2. QED
  BY <1>1, Invariance, PTL DEF Spec, DueDatePinned

=============================================================================
