------------------------- MODULE WorkOrderStoreProofs -------------------------
(***************************************************************************)
(* The store of Work Orders, for any number of writers, orders, identities *)
(* and keys.  The argument: what a transaction has checked stays true      *)
(* until it commits, because whoever could falsify it needs a lock that    *)
(* the transaction holds.                                                  *)
(***************************************************************************)
EXTENDS WorkOrderReplayLemmas, WorkOrderLemmas

CallRecord == [event : StoredEvent, projection : Row]

EventOf(w) == req[w].event
OrderOf(w) == req[w].event.wo
IdentityOf(w) == req[w].projection.identity

(* What createWorkOrder and decideWorkOrder put in an event.               *)
Decided(e) ==
  IF e.type = "WORK_ORDER_CREATED" THEN e.arg \in Humans \cup {Nobody} ELSE WellFormed(e)

(* The labels at which a transaction holds the order's lock, and both.     *)
HoldsOrder == {"lockIdentity", "duplicate", "current", "collision", "insert", "commit"}
HoldsBoth == HoldsOrder \ {"lockIdentity"}

LocksOf(w) ==
  /\ pc[w] \in HoldsOrder => woLock[OrderOf(w)] = w
  /\ pc[w] \in HoldsBoth => idLock[IdentityOf(w)] = w

(* The event applies to the stored order and gives the projection.         *)
Fits(w) ==
  /\ Applicable(rows[OrderOf(w)], EventOf(w))
  /\ req[w].projection = Derive(rows[OrderOf(w)], EventOf(w))

Writing(w) == pc[w] = "insert" \/ Inserted(w)

NoRival(w) ==
  rows[OrderOf(w)] = NoRow =>
    \A o \in Orders : ~(Active(rows[o]) /\ rows[o].identity = IdentityOf(w))

(* The event can be in the stream only if the answer says so, and is there *)
(* if it says so.                                                          *)
AnswerOf(w) ==
  /\ pc[w] \in {"current", "collision", "insert"} => EventOf(w) \notin Stored
  /\ pc[w] = "commit" => (EventOf(w) \in Stored <=> result[w] = "DUPLICATE")
  /\ pc[w] = "idle" /\ result[w] \in {"APPENDED", "DUPLICATE"} => EventOf(w) \in Stored

WriterInv(w) ==
  /\ pc[w] # "idle" => req[w] \in CallRecord /\ Decided(EventOf(w))
  /\ (req[w] \in CallRecord /\ Decided(EventOf(w))) \/ req[w] = NoRow
  /\ LocksOf(w)
  /\ pc[w] = "collision" => rows[OrderOf(w)] = NoRow /\ Fits(w)
  /\ Writing(w) => Fits(w) /\ NoRival(w)
  /\ Inserted(w) => \A s \in Stored : s.key # EventOf(w).key
  /\ AnswerOf(w)
  /\ result[w] # "IDENTITY_INDEX"

KeysApart ==
  \A w, x \in Writers : w # x /\ Inserted(w) /\ Inserted(x) => EventOf(w).key # EventOf(x).key

StreamInv(o) ==
  /\ rows[o] = ReplayWorkOrder(events[o])
  /\ rows[o] = NoRow <=> events[o] = <<>>
  /\ \A n \in DOMAIN events[o] : events[o][n].wo = o
  /\ rows[o] # NoRow => OrderInv(rows[o].order)

IInv ==
  /\ TypeOK
  /\ \A w \in Writers : WriterInv(w)
  /\ KeysApart
  /\ \A o \in Orders : StreamInv(o)
  /\ OneActiveRow

-----------------------------------------------------------------------------
(* The empty store satisfies the invariant.                                *)
LEMMA InitIInv == Init => IInv
<1> SUFFICES ASSUME Init PROVE IInv
  OBVIOUS
<1>1. TypeOK
  BY DEF Init, TypeOK, Labels, Answers
<1>2. ASSUME NEW w \in Writers PROVE WriterInv(w)
  BY DEF Init, WriterInv, LocksOf, Writing, Inserted, AnswerOf, HoldsOrder, HoldsBoth
<1>3. KeysApart
  BY DEF Init, KeysApart, Inserted
<1>4. ASSUME NEW o \in Orders PROVE StreamInv(o)
  BY ReplayEmpty DEF Init, StreamInv
<1>5. OneActiveRow
  BY DEF Init, OneActiveRow
<1>6. QED
  BY <1>1, <1>2, <1>3, <1>4, <1>5 DEF IInv

(* A step of writer w that leaves the tables alone concerns only w.        *)
LEMMA LocalStep ==
  ASSUME IInv, NEW w \in Writers, TypeOK', UNCHANGED <<rows, events>>,
         \A x \in Writers \ {w} :
           /\ pc'[x] = pc[x] /\ req'[x] = req[x] /\ result'[x] = result[x]
           /\ \A o \in Orders : woLock[o] = x => woLock'[o] = x
           /\ \A d \in Identities : idLock[d] = x => idLock'[d] = x,
         WriterInv(w)',
         Inserted(w)' => \A x \in Writers \ {w} : Inserted(x) => EventOf(x).key # EventOf(w)'.key
  PROVE  IInv'
<1>1. ASSUME NEW x \in Writers \ {w} PROVE WriterInv(x)'
  <2>1. WriterInv(x)
    BY DEF IInv
  <2>2. pc'[x] = pc[x] /\ req'[x] = req[x] /\ result'[x] = result[x] /\ rows' = rows /\ events' = events
    OBVIOUS
  <2>3. Stored' = Stored
    BY DEF Stored
  <2>4. LocksOf(x)'
    <3>1. pc[x] # "idle" => OrderOf(x) \in Orders /\ IdentityOf(x) \in Identities
      BY <2>1 DEF WriterInv, CallRecord, StoredEvent, Row, OrderOf, IdentityOf
    <3>2. LocksOf(x)
      BY <2>1 DEF WriterInv
    <3>3. QED
      BY <2>2, <3>1, <3>2 DEF LocksOf, OrderOf, IdentityOf, HoldsOrder, HoldsBoth
  <2>5. AnswerOf(x)'
    BY <2>1, <2>2, <2>3 DEF WriterInv, AnswerOf, EventOf
  <2>6. QED
    BY <2>1, <2>2, <2>3, <2>4, <2>5
    DEF WriterInv, Fits, Writing, Inserted, NoRival, EventOf, OrderOf, IdentityOf, Active
<1>2. KeysApart'
  BY DEF IInv, KeysApart, Inserted, EventOf
<1>3. ASSUME NEW o \in Orders PROVE StreamInv(o)'
  BY <1>3 DEF IInv, StreamInv
<1>4. OneActiveRow'
  BY DEF IInv, OneActiveRow
<1>5. QED
  BY <1>1, <1>2, <1>3, <1>4 DEF IInv

-----------------------------------------------------------------------------
(* The id an event type names is one of the ids the contract knows.        *)
LEMMA ArgsKnown ==
  ASSUME NEW type \in EventTypes, NEW arg \in ArgsOf(type)
  PROVE  arg \in Inputs \cup Humans \cup Blockers \cup Artifacts \cup Nonconformities
                 \cup ChangeRequests \cup {Nobody}
BY DEF ArgsOf

(* What a caller submits is a well-formed event with a well-formed         *)
(* projection: createWorkOrder and decideWorkOrder assert their contracts. *)
LEMMA SubmissionIsCall ==
  ASSUME TypeOK, NEW w \in Writers, SubmitCreation(w) \/ SubmitDecision(w)
  PROVE  \E c \in CallRecord : Decided(c.event) /\ Call(w, c.event, c.projection)
<1>1. CASE SubmitCreation(w)
  <2>1. PICK o \in Orders, k \in Keys, owner \in Humans \cup {Nobody}, at \in 1..MaxTime,
             d \in Identities, handed \in Identities :
          LET e == [wo |-> o, key |-> k, expected |-> 0, type |-> "WORK_ORDER_CREATED", arg |-> owner,
                    actor |-> Agent, warrant |-> FALSE, at |-> at, due |-> 0, identity |-> d,
                    transition |-> <<>>]
          IN  Call(w, e, Project(NoRow, e, handed))
    BY <1>1 DEF SubmitCreation
  <2> DEFINE e == [wo |-> o, key |-> k, expected |-> 0, type |-> "WORK_ORDER_CREATED", arg |-> owner,
                   actor |-> Agent, warrant |-> FALSE, at |-> at, due |-> 0, identity |-> d,
                   transition |-> <<>>]
             c == [event |-> e, projection |-> Project(NoRow, e, handed)]
  <2>2. at \in Nat
    BY StoreAssumption
  <2>3. e \in StoredEvent
    BY <2>2 DEF StoredEvent, Actors
  <2>4. Project(NoRow, e, handed) \in Row
    BY <2>2, CreatedOk DEF Project, Row
  <2>5. c \in CallRecord /\ Decided(c.event)
    BY <2>3, <2>4 DEF CallRecord, Decided
  <2>6. QED
    BY <2>1, <2>5
<1>2. CASE SubmitDecision(w)
  <2>0. PICK o \in Orders, k \in Keys, type \in OfferedTypes, actor \in Actors, at \in 1..MaxTime :
          \E base \in Known(w, o) \ {NoRow}, arg \in ArgsOf(type), handed \in Identities :
          LET e == [wo |-> o, key |-> k, expected |-> base.version, type |-> type, arg |-> arg,
                    actor |-> actor, warrant |-> TRUE, at |-> at, due |-> at, identity |-> NoIdentity,
                    transition |-> Transition(base.order, [type |-> type, arg |-> arg])]
          IN  /\ base.version < MaxVersion
              /\ Applicable(base, e)
              /\ Call(w, e, Project(base, e, handed))
    BY <1>2 DEF SubmitDecision
  <2>1. PICK base \in Known(w, o) \ {NoRow}, arg \in ArgsOf(type), handed \in Identities :
          LET e == [wo |-> o, key |-> k, expected |-> base.version, type |-> type, arg |-> arg,
                    actor |-> actor, warrant |-> TRUE, at |-> at, due |-> at, identity |-> NoIdentity,
                    transition |-> Transition(base.order, [type |-> type, arg |-> arg])]
          IN  /\ base.version < MaxVersion
              /\ Applicable(base, e)
              /\ Call(w, e, Project(base, e, handed))
    BY <2>0
  <2> DEFINE tr == Transition(base.order, [type |-> type, arg |-> arg])
             e == [wo |-> o, key |-> k, expected |-> base.version, type |-> type, arg |-> arg,
                   actor |-> actor, warrant |-> TRUE, at |-> at, due |-> at, identity |-> NoIdentity,
                   transition |-> tr]
             c == [event |-> e, projection |-> Project(base, e, handed)]
  <2>2. at \in Nat /\ at > 0 /\ type \in EventTypes
    BY StoreAssumption
  <2>3. base \in Row /\ base # NoRow
    BY DEF Known, TypeOK
  <2>4. base.order \in Order /\ base.version \in Nat
    BY <2>3 DEF Row
  <2>5. tr \in {<<>>} \cup (Stages \X Stages)
    <3>1. base.order.stage \in Stages
      BY <2>4 DEF Order
    <3>2. ExpectedTransition(base.order, [type |-> type, arg |-> arg]) \in Stages
      BY <3>1 DEF ExpectedTransition, Stages, TERMINAL_STAGES
    <3>3. QED
      BY <3>1, <3>2 DEF Transition
  <2>6. arg \in Inputs \cup Humans \cup Blockers \cup Artifacts \cup Nonconformities
                 \cup ChangeRequests \cup {Nobody}
    BY <2>2, ArgsKnown
  <2> HIDE DEF tr
  <2>7. e \in StoredEvent
    BY <2>2, <2>4, <2>5, <2>6 DEF StoredEvent
  <2>8. WellFormed(e)
    BY <2>2 DEF WellFormed
  <2>9. Project(base, e, handed) \in Row
    <3>1. ApplyWorkOrderEvent(base.order, e) \in Order
      BY <2>4, <2>8, ApplyTyped
    <3>2. e.expected + 1 \in Nat \ {0} /\ e.key \in Keys /\ e.at \in Nat
      BY <2>2, <2>4
    <3> HIDE DEF e
    <3>3. QED
      BY <2>3, <3>1, <3>2 DEF Project, Row
  <2>10. c \in CallRecord /\ Decided(c.event)
    <3>1. e.type # "WORK_ORDER_CREATED"
      BY <2>2 DEF EventTypes, InputTypes, ClockTypes, PauseTypes, DefectTypes, DecisionTypes
    <3> HIDE DEF e
    <3>2. QED
      BY <2>7, <2>8, <2>9, <3>1 DEF CallRecord, Decided
  <2>11. QED
    BY <2>1, <2>10 DEF tr
<1>3. QED
  BY <1>1, <1>2

(* A call begins: nothing is locked or written yet.                        *)
LEMMA BeginKeeps ==
  ASSUME IInv, NEW w \in Writers,
         SubmitCreation(w) \/ SubmitDecision(w) \/ Resubmit(w)
  PROVE  IInv'
<1>1. \E c \in CallRecord :
        /\ Decided(c.event) /\ pc[w] = "idle"
        /\ req' = [req EXCEPT ![w] = c]
        /\ pc' = [pc EXCEPT ![w] = "lockOrder"]
        /\ result' = [result EXCEPT ![w] = "NONE"]
        /\ decided' \in Nat
        /\ UNCHANGED <<tables, locks>>
  <2>1. CASE SubmitCreation(w) \/ SubmitDecision(w)
    <3>1. PICK c \in CallRecord : Decided(c.event) /\ Call(w, c.event, c.projection)
      BY <2>1, SubmissionIsCall DEF IInv
    <3>2. c = [event |-> c.event, projection |-> c.projection]
      BY DEF CallRecord
    <3>3. /\ pc[w] = "idle"
          /\ req' = [req EXCEPT ![w] = c]
          /\ pc' = [pc EXCEPT ![w] = "lockOrder"]
          /\ result' = [result EXCEPT ![w] = "NONE"]
          /\ decided' = decided + 1
          /\ UNCHANGED <<tables, locks>>
      BY <3>1, <3>2 DEF Call
    <3>4. decided' \in Nat
      BY <3>3 DEF IInv, TypeOK
    <3>5. QED
      BY <3>1, <3>3, <3>4
  <2>2. CASE Resubmit(w)
    <3>1. req[w] \in CallRecord /\ Decided(req[w].event)
      BY <2>2 DEF IInv, WriterInv, EventOf, Resubmit
    <3>2. req' = [req EXCEPT ![w] = req[w]]
      BY <2>2 DEF Resubmit, IInv, TypeOK
    <3>3. QED
      BY <2>2, <3>1, <3>2 DEF Resubmit, IInv, TypeOK
  <2>3. QED
    BY <2>1, <2>2
<1>2. PICK c \in CallRecord :
        /\ Decided(c.event) /\ pc[w] = "idle"
        /\ req' = [req EXCEPT ![w] = c]
        /\ pc' = [pc EXCEPT ![w] = "lockOrder"]
        /\ result' = [result EXCEPT ![w] = "NONE"]
        /\ decided' \in Nat
        /\ UNCHANGED <<tables, locks>>
  BY <1>1
<1>3. TypeOK'
  BY <1>2 DEF IInv, TypeOK, tables, locks, CallRecord, Labels, Answers
<1>4. WriterInv(w)'
  BY <1>2 DEF IInv, TypeOK, WriterInv, LocksOf, HoldsOrder, HoldsBoth, Writing, Inserted, AnswerOf, EventOf
<1>5. QED
  BY <1>2, <1>3, <1>4, LocalStep DEF IInv, TypeOK, tables, locks, Inserted

-----------------------------------------------------------------------------
(* Taking the two advisory locks: nobody else loses one.                   *)
LEMMA LockKeeps ==
  ASSUME IInv, NEW w \in Writers, LockOrder(w) \/ LockIdentity(w)
  PROVE  IInv'
<1>1. req[w] \in CallRecord /\ Decided(EventOf(w)) /\ OrderOf(w) \in Orders /\ IdentityOf(w) \in Identities
  BY DEF IInv, WriterInv, LockOrder, LockIdentity, OrderOf, IdentityOf, CallRecord, StoredEvent, Row
<1>2. TypeOK'
  <2>1. pc' \in [Writers -> Labels]
    BY DEF IInv, TypeOK, LockOrder, LockIdentity, Goto, Labels
  <2>2. woLock' \in [Orders -> Writers \cup {Free}]
    BY <1>1 DEF IInv, TypeOK, LockOrder, LockIdentity, OrderOf
  <2>3. idLock' \in [Identities -> Writers \cup {Free}]
    BY <1>1 DEF IInv, TypeOK, LockOrder, LockIdentity, IdentityOf
  <2>4. UNCHANGED <<rows, events, holds, req, result, decided>>
    BY DEF LockOrder, LockIdentity, Goto, tables
  <2>5. QED
    BY <2>1, <2>2, <2>3, <2>4 DEF IInv, TypeOK
<1>3. ASSUME NEW x \in Writers \ {w}
      PROVE  /\ pc'[x] = pc[x] /\ req'[x] = req[x] /\ result'[x] = result[x]
             /\ \A o \in Orders : woLock[o] = x => woLock'[o] = x
             /\ \A d \in Identities : idLock[d] = x => idLock'[d] = x
  <2>1. CASE LockOrder(w)
    BY <1>1, <2>1, StoreAssumption DEF IInv, TypeOK, LockOrder, Goto, OrderOf
  <2>2. CASE LockIdentity(w)
    BY <1>1, <2>2, StoreAssumption DEF IInv, TypeOK, LockIdentity, Goto, IdentityOf
  <2>3. QED
    BY <2>1, <2>2
<1>4. UNCHANGED <<rows, events>> /\ ~Inserted(w)'
  BY DEF IInv, TypeOK, LockOrder, LockIdentity, Goto, tables, Inserted
<1>5. WriterInv(w)'
  <2>1. LocksOf(w)'
    BY <1>1 DEF IInv, TypeOK, WriterInv, LockOrder, LockIdentity, Goto, LocksOf, OrderOf, IdentityOf,
                HoldsOrder, HoldsBoth
  <2>2. pc'[w] \in {"lockIdentity", "duplicate"} /\ req' = req /\ result' = result
    BY DEF IInv, TypeOK, LockOrder, LockIdentity, Goto
  <2>3. QED
    BY <1>1, <1>4, <2>1, <2>2 DEF IInv, WriterInv, AnswerOf, EventOf, Writing
<1>6. QED
  BY <1>2, <1>3, <1>4, <1>5, LocalStep

(* What Answer and Continue have in common.                                *)
LEMMA StatementKeeps ==
  ASSUME IInv, NEW w \in Writers, NEW status \in Answers, NEW label \in Labels,
         pc[w] \in HoldsBoth, label \in HoldsBoth,
         result' = [result EXCEPT ![w] = status],
         pc' = [pc EXCEPT ![w] = label],
         UNCHANGED <<tables, locks, req, decided>>,
         status # "IDENTITY_INDEX",
         label = "collision" => rows[OrderOf(w)] = NoRow /\ Fits(w),
         label = "insert" \/ (label = "commit" /\ status = "APPENDED") => Fits(w) /\ NoRival(w),
         label = "commit" /\ status = "APPENDED" =>
           /\ \A s \in Stored : s.key # EventOf(w).key
           /\ \A x \in Writers \ {w} : Inserted(x) => EventOf(x).key # EventOf(w).key,
         label \in {"current", "collision", "insert"} => EventOf(w) \notin Stored,
         label = "commit" => (EventOf(w) \in Stored <=> status = "DUPLICATE")
  PROVE  IInv'
<1>1. TypeOK'
  BY DEF IInv, TypeOK, tables, locks
<1>2. /\ rows' = rows /\ events' = events /\ req' = req /\ woLock' = woLock /\ idLock' = idLock
      /\ pc'[w] = label /\ result'[w] = status /\ Stored' = Stored
  BY DEF IInv, TypeOK, tables, locks, Stored
<1>3. WriterInv(w)'
  <2>1. WriterInv(w)
    BY DEF IInv
  <2>2. LocksOf(w)'
    BY <1>2, <2>1 DEF WriterInv, LocksOf, OrderOf, IdentityOf, HoldsOrder, HoldsBoth
  <2>3. AnswerOf(w)'
    BY <1>2 DEF AnswerOf, EventOf, HoldsBoth, HoldsOrder
  <2>4. Fits(w)' = Fits(w) /\ NoRival(w)' = NoRival(w)
    BY <1>2 DEF Fits, NoRival, EventOf, OrderOf, IdentityOf, Active
  <2>5. Inserted(w)' <=> label = "commit" /\ status = "APPENDED"
    BY <1>2 DEF Inserted
  <2>6. Writing(w)' <=> label = "insert" \/ (label = "commit" /\ status = "APPENDED")
    BY <1>2, <2>5 DEF Writing
  <2>7. req[w] \in CallRecord /\ Decided(EventOf(w))
    BY <2>1 DEF WriterInv, HoldsBoth, HoldsOrder
  <2>8. OrderOf(w)' = OrderOf(w) /\ EventOf(w)' = EventOf(w)
    BY <1>2 DEF OrderOf, EventOf
  <2>9. QED
    BY <1>2, <2>2, <2>3, <2>4, <2>5, <2>6, <2>7, <2>8 DEF WriterInv
<1>4. ASSUME NEW x \in Writers \ {w}
      PROVE  /\ pc'[x] = pc[x] /\ req'[x] = req[x] /\ result'[x] = result[x]
             /\ \A o \in Orders : woLock[o] = x => woLock'[o] = x
             /\ \A d \in Identities : idLock[d] = x => idLock'[d] = x
  BY <1>2 DEF IInv, TypeOK
<1>5. Inserted(w)' => \A x \in Writers \ {w} : Inserted(x) => EventOf(x).key # EventOf(w)'.key
  BY <1>2 DEF Inserted, EventOf
<1>6. UNCHANGED <<rows, events>>
  BY <1>2
<1>7. QED
  BY <1>1, <1>3, <1>4, <1>5, <1>6, LocalStep

(* The statement that decides the answer of the transaction.               *)
LEMMA AnswerKeeps ==
  ASSUME IInv, NEW w \in Writers, NEW status \in Answers \ {"IDENTITY_INDEX"},
         pc[w] \in HoldsBoth, Answer(w, status),
         EventOf(w) \in Stored <=> status = "DUPLICATE",
         status = "APPENDED" =>
           /\ Fits(w) /\ NoRival(w)
           /\ \A s \in Stored : s.key # EventOf(w).key
           /\ \A x \in Writers \ {w} : Inserted(x) => EventOf(x).key # EventOf(w).key
  PROVE  IInv'
<1>1. /\ result' = [result EXCEPT ![w] = status] /\ pc' = [pc EXCEPT ![w] = "commit"]
      /\ UNCHANGED <<tables, locks, req, decided>>
  BY DEF Answer, Goto
<1>2. "commit" \in HoldsBoth /\ "commit" \in Labels
  BY DEF HoldsBoth, HoldsOrder, Labels
<1>3. QED
  BY <1>1, <1>2, StatementKeeps

(* A statement that lets the transaction go on.                            *)
LEMMA ContinueKeeps ==
  ASSUME IInv, NEW w \in Writers, NEW label \in {"current", "collision", "insert"},
         pc[w] \in HoldsBoth, Continue(w, label),
         EventOf(w) \notin Stored,
         label = "collision" => rows[OrderOf(w)] = NoRow /\ Fits(w),
         label = "insert" => Fits(w) /\ NoRival(w)
  PROVE  IInv'
<1> DEFINE status == result[w]
<1>1. status \in Answers /\ status # "IDENTITY_INDEX"
  BY DEF IInv, TypeOK, WriterInv
<1>2. /\ result' = [result EXCEPT ![w] = status] /\ pc' = [pc EXCEPT ![w] = label]
      /\ UNCHANGED <<tables, locks, req, decided>>
  BY DEF Continue, Goto, IInv, TypeOK
<1>3. label \in HoldsBoth /\ label \in Labels /\ label # "commit"
  BY DEF HoldsBoth, HoldsOrder, Labels
<1> HIDE DEF status
<1>4. QED
  BY <1>1, <1>2, <1>3, StatementKeeps

(* The duplicate query: an event that is stored is recognised.             *)
LEMMA CheckDuplicateKeeps ==
  ASSUME IInv, NEW w \in Writers, CheckDuplicate(w)
  PROVE  IInv'
<1> DEFINE prior == {s \in Stored : s.key = EventOf(w).key}
<1>1. pc[w] \in HoldsBoth
  BY DEF CheckDuplicate, HoldsBoth, HoldsOrder
<1>2. CASE prior = {} /\ Continue(w, "current")
  <2>1. EventOf(w) \notin Stored
    BY <1>2
  <2>2. QED
    BY <1>1, <1>2, <2>1, ContinueKeeps
<1>3. CASE (\E s \in prior : SameEvent(s, EventOf(w))) /\ Answer(w, "DUPLICATE")
  <2>1. EventOf(w) \in Stored
    BY <1>3 DEF SameEvent
  <2>2. "DUPLICATE" \in Answers \ {"IDENTITY_INDEX"}
    BY DEF Answers
  <2>3. QED
    BY <1>1, <1>3, <2>1, <2>2, AnswerKeeps
<1>4. CASE (\A s \in prior : ~SameEvent(s, EventOf(w))) /\ Answer(w, "IDEMPOTENCY_CONFLICT")
  <2>1. EventOf(w) \notin Stored
    BY <1>4 DEF SameEvent
  <2>2. "IDEMPOTENCY_CONFLICT" \in Answers \ {"IDENTITY_INDEX"}
    BY DEF Answers, HoldReasons
  <2>3. QED
    BY <1>1, <1>4, <2>1, <2>2, AnswerKeeps
<1>5. QED
  BY <1>2, <1>3, <1>4 DEF CheckDuplicate, EventOf

(* An answer other than APPENDED and DUPLICATE to an event that is not     *)
(* stored.                                                                 *)
LEMMA RefusalKeeps ==
  ASSUME IInv, NEW w \in Writers, pc[w] \in {"current", "collision", "insert"},
         NEW status \in HoldReasons \cup {"REJECTED", "KEY_INDEX"}, Answer(w, status)
  PROVE  IInv'
<1>1. pc[w] \in HoldsBoth /\ status \in Answers \ {"IDENTITY_INDEX"}
  BY DEF HoldsBoth, HoldsOrder, Answers, HoldReasons
<1>2. EventOf(w) \notin Stored
  BY DEF IInv, WriterInv, AnswerOf
<1>3. status \notin {"APPENDED", "DUPLICATE"}
  BY DEF HoldReasons
<1>4. QED
  BY <1>1, <1>2, <1>3, AnswerKeeps

(* The current row: what goes on fits the row it read.                     *)
LEMMA ReadCurrentKeeps ==
  ASSUME IInv, NEW w \in Writers, ReadCurrent(w)
  PROVE  IInv'
<1>1. pc[w] = "current" /\ pc[w] \in HoldsBoth
  BY DEF ReadCurrent, HoldsBoth, HoldsOrder
<1>2. EventOf(w) \notin Stored
  BY <1>1 DEF IInv, WriterInv, AnswerOf
<1>3. \/ \E status \in HoldReasons \cup {"REJECTED", "KEY_INDEX"} : Answer(w, status)
      \/ rows[OrderOf(w)] = NoRow /\ Fits(w) /\ Continue(w, "collision")
      \/ rows[OrderOf(w)] # NoRow /\ Fits(w) /\ Continue(w, "insert")
  BY DEF ReadCurrent, Fits, Derived, EventOf, OrderOf, HoldReasons
<1>4. CASE \E status \in HoldReasons \cup {"REJECTED", "KEY_INDEX"} : Answer(w, status)
  BY <1>1, <1>4, RefusalKeeps
<1>5. CASE rows[OrderOf(w)] = NoRow /\ Fits(w) /\ Continue(w, "collision")
  BY <1>1, <1>2, <1>5, ContinueKeeps
<1>6. CASE rows[OrderOf(w)] # NoRow /\ Fits(w) /\ Continue(w, "insert")
  <2>1. NoRival(w)
    BY <1>6 DEF NoRival
  <2>2. QED
    BY <1>1, <1>2, <1>6, <2>1, ContinueKeeps
<1>7. QED
  BY <1>3, <1>4, <1>5, <1>6

(* The collision query: what goes on has no live rival.                    *)
LEMMA CheckCollisionKeeps ==
  ASSUME IInv, NEW w \in Writers, CheckCollision(w)
  PROVE  IInv'
<1>1. pc[w] = "collision" /\ pc[w] \in HoldsBoth /\ Fits(w)
  BY DEF CheckCollision, HoldsBoth, HoldsOrder, IInv, WriterInv
<1>2. EventOf(w) \notin Stored
  BY <1>1 DEF IInv, WriterInv, AnswerOf
<1>3. CASE Answer(w, "ACTIVE_IDENTITY_CONFLICT")
  <2>1. "ACTIVE_IDENTITY_CONFLICT" \in HoldReasons \cup {"REJECTED", "KEY_INDEX"}
    BY DEF HoldReasons
  <2>2. QED
    BY <1>1, <1>3, <2>1, RefusalKeeps
<1>4. CASE NoRival(w) /\ Continue(w, "insert")
  BY <1>1, <1>2, <1>4, ContinueKeeps
<1>5. QED
  BY <1>3, <1>4 DEF CheckCollision, NoRival, IdentityOf

(* The inserts: the identity index has nothing left to refuse.             *)
LEMMA InsertEventKeeps ==
  ASSUME IInv, NEW w \in Writers, InsertEvent(w)
  PROVE  IInv'
<1>1. pc[w] = "insert" /\ pc[w] \in HoldsBoth
  BY DEF InsertEvent, HoldsBoth, HoldsOrder
<1>2. EventOf(w) \notin Stored /\ Fits(w) /\ NoRival(w) /\ OrderOf(w) \in Orders
  BY <1>1 DEF IInv, WriterInv, AnswerOf, Writing, CallRecord, StoredEvent, OrderOf
<1>3. ASSUME EventOf(w).expected = 0 PROVE rows[OrderOf(w)] = NoRow
  <2> SUFFICES ASSUME rows[OrderOf(w)] # NoRow PROVE FALSE
    OBVIOUS
  <2>1. rows[OrderOf(w)].version = 0
    BY <1>2, <1>3 DEF Fits, Applicable
  <2>2. rows[OrderOf(w)] \in Row
    BY <1>2 DEF IInv, TypeOK
  <2>3. QED
    BY <2>1, <2>2 DEF Row
<1>4. CASE Answer(w, "KEY_INDEX")
  BY <1>1, <1>4, RefusalKeeps
<1>5. CASE /\ Answer(w, "APPENDED")
           /\ \A s \in Stored : s.key # EventOf(w).key
  <2>1. \A x \in Writers \ {w} : Inserted(x) => EventOf(x).key # EventOf(w).key
    BY DEF InsertEvent, EventOf
  <2>2. "APPENDED" \in Answers \ {"IDENTITY_INDEX"}
    BY DEF Answers
  <2>3. QED
    BY <1>1, <1>2, <1>5, <2>1, <2>2, AnswerKeeps
<1>6. QED
  BY <1>2, <1>3, <1>4, <1>5 DEF InsertEvent, EventOf, NoRival, IdentityOf

-----------------------------------------------------------------------------
(* The end of a transaction releases its own locks and nobody else's.      *)
LEMMA ReleaseLocksOthers ==
  ASSUME TypeOK, NEW w \in Writers, ReleaseLocks(w)
  PROVE  /\ woLock' \in [Orders -> Writers \cup {Free}]
         /\ idLock' \in [Identities -> Writers \cup {Free}]
         /\ \A x \in Writers \ {w} :
              /\ \A o \in Orders : woLock[o] = x => woLock'[o] = x
              /\ \A d \in Identities : idLock[d] = x => idLock'[d] = x
BY DEF TypeOK, ReleaseLocks

(* A transaction that ends without changing a table.                       *)
LEMMA EndKeeps ==
  ASSUME IInv, NEW w \in Writers, NEW answer \in Answers, TypeOK',
         UNCHANGED <<rows, events, req>>, ReleaseLocks(w),
         pc' = [pc EXCEPT ![w] = "idle"],
         result' = [result EXCEPT ![w] = answer],
         answer # "IDENTITY_INDEX",
         answer \in {"APPENDED", "DUPLICATE"} => EventOf(w) \in Stored
  PROVE  IInv'
<1>1. pc'[w] = "idle" /\ result'[w] = answer /\ req' = req /\ rows' = rows /\ Stored' = Stored
  BY DEF IInv, TypeOK, Stored
<1>2. WriterInv(w)'
  <2>1. (req[w] \in CallRecord /\ Decided(EventOf(w))) \/ req[w] = NoRow
    BY DEF IInv, WriterInv
  <2>2. QED
    BY <1>1, <2>1 DEF WriterInv, LocksOf, HoldsOrder, HoldsBoth, Writing, Inserted, AnswerOf, EventOf
<1>3. ASSUME NEW x \in Writers \ {w}
      PROVE  /\ pc'[x] = pc[x] /\ req'[x] = req[x] /\ result'[x] = result[x]
             /\ \A o \in Orders : woLock[o] = x => woLock'[o] = x
             /\ \A d \in Identities : idLock[d] = x => idLock'[d] = x
  BY ReleaseLocksOthers DEF IInv, TypeOK
<1>4. ~Inserted(w)'
  BY <1>1 DEF Inserted
<1>5. QED
  BY <1>2, <1>3, <1>4, LocalStep

(* A lost connection rolls everything back.                                *)
LEMMA CrashKeeps ==
  ASSUME IInv, NEW w \in Writers, Crash(w)
  PROVE  IInv'
<1>1. /\ UNCHANGED <<rows, events, req>> /\ ReleaseLocks(w)
      /\ pc' = [pc EXCEPT ![w] = "idle"] /\ result' = [result EXCEPT ![w] = "NONE"]
  BY DEF Crash, Goto, tables
<1>2. "NONE" \in Answers
  BY DEF Answers
<1>3. TypeOK'
  <2>1. woLock' \in [Orders -> Writers \cup {Free}] /\ idLock' \in [Identities -> Writers \cup {Free}]
    BY <1>1, ReleaseLocksOthers DEF IInv
  <2>2. QED
    BY <1>1, <1>2, <2>1 DEF IInv, TypeOK, Crash, Goto, tables, Labels
<1>4. QED
  BY <1>1, <1>2, <1>3, EndKeeps

(* Types of the tables after a commit.                                     *)
LEMMA CommitTyped ==
  ASSUME IInv, NEW w \in Writers, Commit(w)
  PROVE  TypeOK'
<1>1. req[w].event \in StoredEvent /\ req[w].projection \in Row /\ req[w].event.wo \in Orders
  BY DEF IInv, WriterInv, Commit, CallRecord, StoredEvent
<1>2. rows' \in [Orders -> Row \cup {NoRow}]
  BY <1>1 DEF IInv, TypeOK, Commit
<1>3. events' \in [Orders -> Seq(StoredEvent)]
  BY <1>1 DEF IInv, TypeOK, Commit
<1>4. \A h \in holds' : h.event \in StoredEvent /\ h.projection \in Row
  <2>1. Hold(w).event = req[w].event /\ Hold(w).projection = req[w].projection
    BY DEF Hold
  <2>2. holds' = holds \/ holds' = holds \cup {Hold(w)}
    BY DEF Commit
  <2>3. QED
    BY <1>1, <2>1, <2>2 DEF IInv, TypeOK
<1>5. woLock' \in [Orders -> Writers \cup {Free}] /\ idLock' \in [Identities -> Writers \cup {Free}]
  BY ReleaseLocksOthers DEF IInv, Commit
<1>6. /\ pc' \in [Writers -> Labels] /\ result' \in [Writers -> Answers]
      /\ req' = req /\ decided' = decided
  BY DEF IInv, TypeOK, Commit, Goto, Labels, Answers
<1>7. QED
  BY <1>2, <1>3, <1>4, <1>5, <1>6 DEF IInv, TypeOK

(* What a writer is about to commit: a projection that the event gives on  *)
(* the stored order, which keeps its identity and every gate.              *)
LEMMA CommittedProjection ==
  ASSUME IInv, NEW w \in Writers, Inserted(w)
  PROVE  /\ EventOf(w) \in StoredEvent /\ OrderOf(w) \in Orders
         /\ req[w].projection \in Row /\ req[w].projection # NoRow
         /\ Fits(w)
         /\ rows[OrderOf(w)] # NoRow =>
              Active(rows[OrderOf(w)]) /\ rows[OrderOf(w)].identity = IdentityOf(w)
         /\ OrderInv(req[w].projection.order)
<1>1. /\ EventOf(w) \in StoredEvent /\ OrderOf(w) \in Orders /\ req[w].projection \in Row
      /\ Decided(EventOf(w)) /\ Fits(w)
  BY DEF IInv, WriterInv, Inserted, Writing, CallRecord, StoredEvent, EventOf, OrderOf
<1>2. req[w].projection # NoRow
  BY <1>1, StoreAssumption
<1>3. CASE rows[OrderOf(w)] = NoRow
  <2>1. req[w].projection.order = CreateWorkOrder(EventOf(w).arg)
    BY <1>1, <1>3 DEF Fits, Derive, Project
  <2>2. EventOf(w).arg \in Humans \cup {Nobody}
    BY <1>1, <1>3 DEF Fits, Applicable, Decided
  <2>3. QED
    BY <1>1, <1>2, <1>3, <2>1, <2>2, CreatedOk
<1>4. CASE rows[OrderOf(w)] # NoRow
  <2> DEFINE row == rows[OrderOf(w)]
             e == EventOf(w)
  <2>1. row \in Row /\ OrderInv(row.order) /\ row.order \in Order
    BY <1>1, <1>4 DEF IInv, TypeOK, StreamInv, Row
  <2>2. Legal(row.order, e) /\ WellFormed(e)
    BY <1>1, <1>4 DEF Fits, Applicable, Decided
  <2>3. /\ req[w].projection.order = ApplyWorkOrderEvent(row.order, e)
        /\ req[w].projection.identity = row.identity
    BY <1>1, <1>4 DEF Fits, Derive, Project
  <2>4. OrderInv(ApplyWorkOrderEvent(row.order, e))
    <3> HIDE DEF row, e
    <3>1. QED
      BY <2>1, <2>2, ApplyKeepsOrderInv
  <2>5. Active(row)
    BY <1>4, <2>2 DEF Active, Legal
  <2>6. QED
    BY <1>1, <1>2, <1>4, <2>3, <2>4, <2>5 DEF IdentityOf
<1>5. QED
  BY <1>3, <1>4

(* What appending an event to a stream does.                               *)
LEMMA AppendFacts ==
  ASSUME NEW s \in Seq(StoredEvent), NEW e \in StoredEvent
  PROVE  /\ Append(s, e) # <<>>
         /\ DOMAIN Append(s, e) = DOMAIN s \cup {Len(s) + 1}
         /\ Append(s, e)[Len(s) + 1] = e
         /\ \A n \in DOMAIN s : Append(s, e)[n] = s[n]
<1>1. /\ DOMAIN Append(s, e) = DOMAIN s \cup {Len(s) + 1}
      /\ Append(s, e)[Len(s) + 1] = e
      /\ \A n \in DOMAIN s : Append(s, e)[n] = s[n]
  OBVIOUS
<1>2. Append(s, e) # <<>>
  BY <1>1
<1>3. QED
  BY <1>1, <1>2

(* A commit that appends: the new row is the replay of the new stream, and *)
(* nobody who holds a lock sees a change of what it has checked.           *)
LEMMA AppendKeeps ==
  ASSUME IInv, NEW w \in Writers, Commit(w), result[w] = "APPENDED"
  PROVE  IInv'
<1> DEFINE o == OrderOf(w)
           e == EventOf(w)
           projection == req[w].projection
<1>0. Inserted(w)
  BY DEF Inserted, Commit
<1>1. /\ e \in StoredEvent /\ o \in Orders /\ projection \in Row /\ projection # NoRow
      /\ Fits(w) /\ OrderInv(projection.order)
      /\ rows[o] # NoRow => Active(rows[o]) /\ rows[o].identity = projection.identity
  BY <1>0, CommittedProjection DEF IdentityOf
<1>2. /\ rows' = [rows EXCEPT ![o] = projection] /\ events' = [events EXCEPT ![o] = Append(events[o], e)]
      /\ req' = req /\ ReleaseLocks(w) /\ pc' = [pc EXCEPT ![w] = "idle"]
      /\ \E answer \in {"APPENDED", "NONE"} : result' = [result EXCEPT ![w] = answer]
  BY DEF Commit, Goto, OrderOf, EventOf
<1>3. /\ rows'[o] = projection /\ events'[o] = Append(events[o], e)
      /\ \A p \in Orders \ {o} : rows'[p] = rows[p] /\ events'[p] = events[p]
  BY <1>1, <1>2 DEF IInv, TypeOK
<1>4. events[o] \in Seq(StoredEvent) /\ \A n \in DOMAIN events[o] : events[o][n] \in Stored
  BY <1>1 DEF IInv, TypeOK, Stored
<1>5. Stored' = Stored \cup {e}
  <2>1. /\ DOMAIN events'[o] = DOMAIN events[o] \cup {Len(events[o]) + 1}
        /\ events'[o][Len(events[o]) + 1] = e
        /\ \A n \in DOMAIN events[o] : events'[o][n] = events[o][n]
    BY <1>1, <1>3, <1>4
  <2>2. {events'[o][n] : n \in DOMAIN events'[o]} = {events[o][n] : n \in DOMAIN events[o]} \cup {e}
    BY <2>1
  <2>3. ASSUME NEW p \in Orders \ {o}
        PROVE  {events'[p][n] : n \in DOMAIN events'[p]} = {events[p][n] : n \in DOMAIN events[p]}
    BY <1>3
  <2>4. \A s : s \in Stored <=> \E p \in Orders : s \in {events[p][n] : n \in DOMAIN events[p]}
    BY DEF Stored
  <2>5. \A s : s \in Stored' <=> \E p \in Orders : s \in {events'[p][n] : n \in DOMAIN events'[p]}
    BY DEF Stored
  <2> HIDE DEF e, o
  <2> DEFINE old == [p \in Orders |-> {events[p][n] : n \in DOMAIN events[p]}]
             new == [p \in Orders |-> {events'[p][n] : n \in DOMAIN events'[p]}]
  <2>6. new[o] = old[o] \cup {e} /\ \A p \in Orders \ {o} : new[p] = old[p]
    BY <1>1, <2>2, <2>3
  <2>7. /\ \A s : s \in Stored <=> \E p \in Orders : s \in old[p]
        /\ \A s : s \in Stored' <=> \E p \in Orders : s \in new[p]
    BY <2>4, <2>5
  <2> HIDE DEF old, new
  <2>8. \A s : s \in Stored' <=> s \in Stored \/ s = e
    BY <1>1, <2>6, <2>7
  <2>9. QED
    BY <2>8
<1>6. ASSUME NEW p \in Orders PROVE StreamInv(p)'
  <2>1. CASE p = o
    <3>1. \A n \in DOMAIN events[o] : events[o][n].key # e.key /\ events[o][n].wo = o
      BY <1>0, <1>1, <1>4 DEF IInv, WriterInv, StreamInv
    <3>2. rows[o] = ReplayWorkOrder(events[o]) /\ (rows[o] = NoRow <=> events[o] = <<>>)
      BY <1>1 DEF IInv, StreamInv
    <3>3. Applicable(rows[o], e) /\ projection = Derive(rows[o], e)
      BY <1>1 DEF Fits
    <3> HIDE DEF projection
    <3>4. ReplayWorkOrder(Append(events[o], e)) = projection
      <4> HIDE DEF e, o
      <4>1. QED
        BY <1>1, <1>4, <3>1, <3>2, <3>3, ReplayAppend
    <3>5. /\ Append(events[o], e) # <<>>
          /\ \A n \in DOMAIN Append(events[o], e) : Append(events[o], e)[n].wo = o
      <4>1. e.wo = o
        BY DEF OrderOf, EventOf
      <4> DEFINE s == events[o]
      <4>2. s \in Seq(StoredEvent) /\ \A n \in DOMAIN s : s[n].wo = o
        BY <1>4, <3>1
      <4> HIDE DEF e, o, s
      <4>3. Append(s, e) # <<>> /\ \A n \in DOMAIN Append(s, e) : Append(s, e)[n].wo = o
        BY <1>1, <4>1, <4>2, AppendFacts
      <4>4. QED
        BY <4>3 DEF s
    <3>6. QED
      BY <1>1, <1>3, <2>1, <3>4, <3>5 DEF StreamInv
  <2>2. CASE p # o
    BY <1>3, <1>6, <2>2 DEF IInv, StreamInv
  <2>3. QED
    BY <2>1, <2>2
<1>7. OneActiveRow'
  <2>1. ASSUME NEW p \in Orders \ {o}, Active(rows[p]) PROVE rows[p].identity # projection.identity
    <3>1. CASE rows[o] = NoRow
      BY <1>0, <2>1, <3>1 DEF IInv, WriterInv, Writing, NoRival, IdentityOf
    <3>2. CASE rows[o] # NoRow
      BY <1>1, <2>1, <3>2 DEF IInv, OneActiveRow, Active, TERMINAL_STAGES
    <3>3. QED
      BY <3>1, <3>2
  <2>2. \A p, q \in Orders \ {o} :
          Active(rows[p]) /\ Active(rows[q]) /\ rows[p].identity = rows[q].identity => p = q
    BY DEF IInv, OneActiveRow, Active, TERMINAL_STAGES
  <2> HIDE DEF projection, o
  <2>3. QED
    BY <1>1, <1>3, <2>1, <2>2 DEF OneActiveRow, Active, TERMINAL_STAGES
<1>8. ASSUME NEW x \in Writers \ {w} PROVE WriterInv(x)'
  <2>1. WriterInv(x) /\ WriterInv(w)
    BY DEF IInv
  <2>2. pc'[x] = pc[x] /\ req'[x] = req[x] /\ result'[x] = result[x]
    BY <1>2 DEF IInv, TypeOK
  <2>3. /\ pc[x] \in HoldsOrder => OrderOf(x) # o /\ OrderOf(x) \in Orders
        /\ pc[x] \in HoldsBoth => IdentityOf(x) # projection.identity /\ IdentityOf(x) \in Identities
    BY <1>0, <2>1 DEF WriterInv, LocksOf, Inserted, HoldsOrder, HoldsBoth, CallRecord, StoredEvent,
                      Row, OrderOf, IdentityOf
  <2>4. LocksOf(x)'
    <3>1. /\ \A p \in Orders : woLock[p] = x => woLock'[p] = x
          /\ \A d \in Identities : idLock[d] = x => idLock'[d] = x
      BY <1>2, ReleaseLocksOthers DEF IInv
    <3>2. QED
      BY <2>1, <2>2, <2>3, <3>1 DEF WriterInv, LocksOf, OrderOf, IdentityOf, HoldsOrder, HoldsBoth
  <2>5. pc[x] \in HoldsOrder => rows'[OrderOf(x)] = rows[OrderOf(x)] /\ EventOf(x) # e
    <3>1. pc[x] \in HoldsOrder => rows'[OrderOf(x)] = rows[OrderOf(x)]
      BY <1>3, <2>3
    <3>2. pc[x] \in HoldsOrder => EventOf(x) # e
      BY <2>3 DEF OrderOf, EventOf
    <3>3. QED
      BY <3>1, <3>2
  <2>6. AnswerOf(x)'
    <3> HIDE DEF e
    <3>1. QED
      BY <1>5, <2>1, <2>2, <2>5 DEF WriterInv, AnswerOf, EventOf, HoldsOrder
  <2>7. pc[x] \in HoldsOrder => (Fits(x)' <=> Fits(x))
    BY <2>2, <2>5 DEF Fits, EventOf, OrderOf
  <2>8. Writing(x) => Fits(x) /\ NoRival(x) /\ pc[x] \in HoldsBoth /\ pc[x] \in HoldsOrder
    BY <2>1 DEF WriterInv, Writing, Inserted, HoldsBoth, HoldsOrder
  <2>9. Writing(x) => NoRival(x)'
    <3> SUFFICES ASSUME Writing(x), rows'[OrderOf(x)] = NoRow, NEW p \in Orders,
                        Active(rows'[p]), rows'[p].identity = IdentityOf(x)
                 PROVE  FALSE
      BY <2>2 DEF NoRival, OrderOf, IdentityOf, Active
    <3>1. rows[OrderOf(x)] = NoRow
      BY <2>5, <2>8
    <3>2. CASE p = o
      BY <1>3, <2>3, <2>8, <3>2
    <3>3. CASE p # o
      BY <1>3, <2>8, <3>1, <3>3 DEF NoRival, Active
    <3>4. QED
      BY <3>2, <3>3
  <2>10. Inserted(x) => \A s \in Stored' : s.key # EventOf(x).key
    <3>1. Inserted(x) => e.key # EventOf(x).key
      BY <1>0 DEF IInv, KeysApart
    <3> HIDE DEF e
    <3>2. QED
      BY <1>5, <2>1, <3>1 DEF WriterInv
  <2>11. /\ Inserted(x)' <=> Inserted(x)
         /\ Writing(x)' <=> Writing(x)
         /\ EventOf(x)' = EventOf(x) /\ OrderOf(x)' = OrderOf(x)
    BY <2>2 DEF Inserted, Writing, EventOf, OrderOf
  <2>12. pc[x] = "collision" => rows'[OrderOf(x)] = NoRow /\ Fits(x)'
    BY <2>1, <2>5, <2>7 DEF WriterInv, HoldsOrder
  <2>13. QED
    BY <2>1, <2>2, <2>4, <2>6, <2>7, <2>8, <2>9, <2>10, <2>11, <2>12 DEF WriterInv
<1>9. WriterInv(w)'
  <2>1. pc'[w] = "idle" /\ req' = req /\ result'[w] \in {"APPENDED", "NONE"} /\ e \in Stored'
    BY <1>2, <1>5 DEF IInv, TypeOK
  <2>2. (req[w] \in CallRecord /\ Decided(EventOf(w))) \/ req[w] = NoRow
    BY DEF IInv, WriterInv
  <2>3. QED
    BY <2>1, <2>2 DEF WriterInv, LocksOf, HoldsOrder, HoldsBoth, Writing, Inserted, AnswerOf, EventOf
<1>10. KeysApart'
  BY <1>2 DEF IInv, TypeOK, KeysApart, Inserted, EventOf
<1>11. TypeOK'
  BY CommitTyped
<1>12. QED
  BY <1>6, <1>7, <1>8, <1>9, <1>10, <1>11 DEF IInv

(* Every commit.                                                           *)
LEMMA CommitKeeps ==
  ASSUME IInv, NEW w \in Writers, Commit(w)
  PROVE  IInv'
<1>1. CASE result[w] = "APPENDED"
  BY <1>1, AppendKeeps
<1>2. CASE result[w] # "APPENDED"
  <2>1. PICK answer \in {result[w], "NONE"} : result' = [result EXCEPT ![w] = answer]
    BY DEF Commit
  <2>2. /\ UNCHANGED <<rows, events, req>> /\ ReleaseLocks(w)
        /\ pc' = [pc EXCEPT ![w] = "idle"]
    BY <1>2 DEF Commit, Goto
  <2>3. answer \in Answers /\ answer # "IDENTITY_INDEX" /\ answer # "APPENDED"
    BY <1>2 DEF IInv, TypeOK, WriterInv, Answers
  <2>4. answer = "DUPLICATE" => EventOf(w) \in Stored
    BY DEF IInv, WriterInv, AnswerOf, Commit
  <2>5. TypeOK'
    BY CommitTyped
  <2>6. QED
    BY <2>1, <2>2, <2>3, <2>4, <2>5, EndKeeps
<1>3. QED
  BY <1>1, <1>2

(* A rebuild finds the row already equal to the replay.                    *)
LEMMA RebuildChangesNothing ==
  ASSUME IInv, NEW o \in Orders, Rebuild(o)
  PROVE  UNCHANGED vars
<1>1. rows' = rows
  BY DEF IInv, TypeOK, StreamInv, Rebuild
<1>2. QED
  BY <1>1 DEF Rebuild, vars, locks

(* Every step of the store preserves the invariant.                        *)
LEMMA NextIInv == IInv /\ [Next]_vars => IInv'
<1> SUFFICES ASSUME IInv, [Next]_vars PROVE IInv'
  OBVIOUS
<1>1. ASSUME UNCHANGED vars PROVE IInv'
  <2>1. rows' = rows /\ events' = events /\ holds' = holds /\ woLock' = woLock /\ idLock' = idLock
        /\ pc' = pc /\ req' = req /\ result' = result /\ decided' = decided
    BY <1>1 DEF vars
  <2>2. TypeOK' /\ OneActiveRow' /\ KeysApart'
    BY <2>1 DEF IInv, TypeOK, OneActiveRow, KeysApart, Inserted, EventOf
  <2>3. ASSUME NEW o \in Orders PROVE StreamInv(o)'
    BY <2>1, <2>3 DEF IInv, StreamInv
  <2>4. ASSUME NEW w \in Writers PROVE WriterInv(w)'
    <3>1. WriterInv(w) /\ Stored' = Stored
      BY <2>1 DEF IInv, Stored
    <3>2. QED
      BY <2>1, <3>1 DEF WriterInv, LocksOf, Fits, Writing, Inserted, NoRival, AnswerOf, EventOf,
                        OrderOf, IdentityOf, Active
  <2>5. QED
    BY <2>2, <2>3, <2>4 DEF IInv
<1>2. CASE \E w \in Writers : SubmitCreation(w) \/ SubmitDecision(w) \/ Resubmit(w)
  BY <1>2, BeginKeeps
<1>3. CASE \E w \in Writers : Step(w)
  <2>1. PICK w \in Writers : Step(w)
    BY <1>3
  <2>2. QED
    BY <2>1, LockKeeps, CheckDuplicateKeeps, ReadCurrentKeeps, CheckCollisionKeeps,
       InsertEventKeeps, CommitKeeps DEF Step
<1>4. CASE \E w \in Writers : Crash(w)
  BY <1>4, CrashKeeps
<1>5. CASE \E o \in Orders : Rebuild(o)
  BY <1>1, <1>5, RebuildChangesNothing
<1>6. QED
  BY <1>1, <1>2, <1>3, <1>4, <1>5 DEF Next

(* The invariant holds in every state of the store.                        *)
LEMMA Invariance == Spec => []IInv
  BY InitIInv, NextIInv, PTL DEF Spec

-----------------------------------------------------------------------------
(* Rows, streams, holds, locks and calls are always well formed.           *)
THEOREM StoreTyped == Spec => []TypeOK
<1>1. IInv => TypeOK
  BY DEF IInv
<1>2. QED
  BY <1>1, Invariance, PTL

(* The row of an order is the replay of its stream, however many writers   *)
(* append with stale or foreign projections, fail, or rebuild it.          *)
THEOREM RowIsReplay == Spec => []ProjectionIsReplay
<1>1. IInv => ProjectionIsReplay
  BY DEF IInv, StreamInv, ProjectionIsReplay
<1>2. QED
  BY <1>1, Invariance, PTL

(* Two live rows never have the same accepted identity, and no append ever *)
(* fails on the index that says so: the identity lock and its query decide *)
(* before it (store.ts:136).                                               *)
THEOREM IdentityIsUnique == Spec => []OneActiveIdentity
<1>1. IInv => OneActiveIdentity
  BY DEF IInv, WriterInv, OneActiveIdentity, IdentityIndexNeverRaised
<1>2. QED
  BY <1>1, Invariance, PTL

(* An answered append is in the stream, with exactly the event that was    *)
(* written.                                                                *)
THEOREM AnswersAreTrue == Spec => []AnswersAreDurable
<1>1. IInv => AnswersAreDurable
  BY DEF IInv, WriterInv, AnswerOf, EventOf, AnswersAreDurable
<1>2. QED
  BY <1>1, Invariance, PTL

(* A repeated append of a stored event is always answered as a duplicate.  *)
THEOREM RetriesAreDuplicates == Spec => []RetryIsDuplicate
<1>1. IInv => RetryIsDuplicate
  BY DEF IInv, WriterInv, AnswerOf, EventOf, RetryIsDuplicate
<1>2. QED
  BY <1>1, Invariance, PTL

(* Every order in the database satisfies every gate of the aggregate,      *)
(* although any caller may hand over any projection.                       *)
StoredOrdersGated == \A o \in Orders : rows[o] # NoRow => OrderInv(rows[o].order)

(* What appendWorkOrderEvent stores has passed every gate of the           *)
(* lifecycle: production, delivery, clock, blockers and verdicts.          *)
THEOREM StoredIsGated == Spec => []StoredOrdersGated
<1>1. IInv => StoredOrdersGated
  BY DEF IInv, StreamInv, StoredOrdersGated
<1>2. QED
  BY <1>1, Invariance, PTL

-----------------------------------------------------------------------------
(* The store implements WorkOrderLog.  What the mapping needs besides the  *)
(* invariant: the version of a row is the length of its stream.            *)
VersionInv == \A o \in Orders : rows[o] # NoRow => rows[o].version = Len(events[o])

(* A step of writer w that leaves the answers of the others alone changes  *)
(* at most what w was told.                                                *)
LEMMA ToldOthers ==
  ASSUME NEW w \in Writers, NEW a,
         \A x \in Writers \ {w} : pc'[x] = pc[x] /\ req'[x] = req[x] /\ result'[x] = result[x],
         (IF pc'[w] = "idle" /\ result'[w] \in {"APPENDED", "DUPLICATE"}
          THEN {req'[w].event} ELSE {}) = a
  PROVE  Told' = [Told EXCEPT ![w] = a]
BY DEF Told

(* Beginning a call forgets what the last one was told.                    *)
LEMMA BeginIsCall ==
  ASSUME IInv, NEW w \in Writers, SubmitCreation(w) \/ SubmitDecision(w) \/ Resubmit(w)
  PROVE  Log!Call(w) /\ UNCHANGED <<rows, events>>
<1>1. /\ pc' = [pc EXCEPT ![w] = "lockOrder"]
      /\ \E c : req' = [req EXCEPT ![w] = c]
      /\ result' = [result EXCEPT ![w] = "NONE"]
      /\ UNCHANGED <<rows, events>>
  <2>1. CASE SubmitCreation(w) \/ SubmitDecision(w)
    BY <2>1, SubmissionIsCall DEF IInv, Call, tables
  <2>2. CASE Resubmit(w)
    <3>1. req' = [req EXCEPT ![w] = req[w]]
      BY <2>2 DEF Resubmit, IInv, TypeOK
    <3>2. QED
      BY <2>2, <3>1 DEF Resubmit, tables
  <2>3. QED
    BY <2>1, <2>2
<1>2. /\ pc'[w] = "lockOrder"
      /\ \A x \in Writers \ {w} : pc'[x] = pc[x] /\ req'[x] = req[x] /\ result'[x] = result[x]
  BY <1>1 DEF IInv, TypeOK
<1>3. Told' = [Told EXCEPT ![w] = {}]
  BY <1>2, ToldOthers
<1>4. QED
  BY <1>1, <1>3 DEF Log!Call

(* A statement before the commit, and a lost connection, are not seen.     *)
LEMMA SilentStep ==
  ASSUME IInv, NEW w \in Writers, pc[w] # "idle", UNCHANGED <<rows, events, req>>,
         NEW label, pc' = [pc EXCEPT ![w] = label],
         NEW answer, result' = [result EXCEPT ![w] = answer],
         label # "idle" \/ answer = "NONE"
  PROVE  UNCHANGED <<events, Told>>
<1>1. /\ \A x \in Writers \ {w} : pc'[x] = pc[x] /\ req'[x] = req[x] /\ result'[x] = result[x]
      /\ pc'[w] = label /\ result'[w] = answer
  BY DEF IInv, TypeOK
<1>2. Told' = [Told EXCEPT ![w] = {}]
  BY <1>1, ToldOthers
<1>3. Told[w] = {} /\ Told = [x \in Writers |-> Told[x]]
  BY DEF Told
<1>4. QED
  BY <1>2, <1>3

LEMMA StatementIsSilent ==
  ASSUME IInv, NEW w \in Writers,
         LockOrder(w) \/ LockIdentity(w) \/ CheckDuplicate(w) \/ ReadCurrent(w)
           \/ CheckCollision(w) \/ InsertEvent(w) \/ Crash(w)
  PROVE  UNCHANGED <<events, Told>> /\ UNCHANGED rows
<1>1. result = [result EXCEPT ![w] = result[w]]
  BY DEF IInv, TypeOK
<1>2. \E label, answer :
        /\ label # "idle" \/ answer = "NONE"
        /\ pc' = [pc EXCEPT ![w] = label] /\ result' = [result EXCEPT ![w] = answer]
        /\ UNCHANGED <<rows, events, req>> /\ pc[w] # "idle"
  <2>1. CASE LockOrder(w) \/ LockIdentity(w)
    BY <1>1, <2>1 DEF LockOrder, LockIdentity, Goto, tables
  <2>2. CASE Crash(w)
    BY <2>2 DEF Crash, Goto, tables
  <2>3. ASSUME NEW status, Answer(w, status), pc[w] # "idle"
        PROVE  /\ pc' = [pc EXCEPT ![w] = "commit"] /\ result' = [result EXCEPT ![w] = status]
               /\ UNCHANGED <<rows, events, req>>
    BY <2>3 DEF Answer, Goto, tables
  <2>4. ASSUME NEW label, Continue(w, label), pc[w] # "idle"
        PROVE  /\ pc' = [pc EXCEPT ![w] = label] /\ result' = [result EXCEPT ![w] = result[w]]
               /\ UNCHANGED <<rows, events, req>>
    BY <1>1, <2>4 DEF Continue, Goto, tables
  <2>5. CASE CheckDuplicate(w) \/ ReadCurrent(w) \/ CheckCollision(w) \/ InsertEvent(w)
    <3>1. /\ pc[w] # "idle"
          /\ \/ \E status : Answer(w, status)
             \/ \E label \in {"current", "collision", "insert"} : Continue(w, label)
      BY <2>5 DEF CheckDuplicate, ReadCurrent, CheckCollision, InsertEvent
    <3>2. QED
      BY <2>3, <2>4, <3>1
  <2>6. QED
    BY <2>1, <2>2, <2>5
<1>3. QED
  BY <1>2, SilentStep

-----------------------------------------------------------------------------
(* The commit of an append: the event was decided on the whole stream.     *)
LEMMA CommitIsAccept ==
  ASSUME IInv, VersionInv, NEW w \in Writers, Commit(w), result[w] = "APPENDED"
  PROVE  Log!Accept(w, OrderOf(w)) /\ OrderOf(w) \in Orders /\ VersionInv'
<1> DEFINE o == OrderOf(w)
           e == EventOf(w)
           projection == req[w].projection
<1>0. Inserted(w)
  BY DEF Inserted, Commit
<1>1. e \in StoredEvent /\ o \in Orders /\ projection \in Row /\ Fits(w) /\ e.wo = o
  BY <1>0, CommittedProjection DEF EventOf, OrderOf
<1>2. /\ rows' = [rows EXCEPT ![o] = projection] /\ events' = [events EXCEPT ![o] = Append(events[o], e)]
      /\ req' = req /\ pc' = [pc EXCEPT ![w] = "idle"]
      /\ \E answer \in {"APPENDED", "NONE"} : result' = [result EXCEPT ![w] = answer]
  BY DEF Commit, Goto, OrderOf, EventOf
<1>3. /\ rows'[o] = projection /\ events'[o] = Append(events[o], e)
      /\ \A p \in Orders \ {o} : rows'[p] = rows[p] /\ events'[p] = events[p]
  BY <1>1, <1>2 DEF IInv, TypeOK
<1>4. events[o] \in Seq(StoredEvent)
  BY <1>1 DEF IInv, TypeOK
<1>5. /\ events'[o][Len(events[o]) + 1] = e /\ Len(events'[o]) = Len(events[o]) + 1
      /\ Len(events[o]) \in Nat
  BY <1>1, <1>3, <1>4
<1>6. e.expected = Len(events[o]) /\ projection.version = e.expected + 1
  <2>1. projection.version = e.expected + 1
    BY <1>1 DEF Fits, Derive, Project, EventOf
  <2>2. CASE rows[o] = NoRow
    <3>1. e.expected = 0
      BY <1>1, <2>2 DEF Fits, Applicable, EventOf
    <3>2. events[o] = <<>>
      BY <1>1, <2>2 DEF IInv, StreamInv
    <3>3. QED
      BY <2>1, <3>1, <3>2
  <2>3. CASE rows[o] # NoRow
    BY <1>1, <2>1, <2>3 DEF Fits, Applicable, EventOf, VersionInv
  <2>4. QED
    BY <2>2, <2>3
<1>7. \A s \in Stored : s.key # e.key
  BY <1>0 DEF IInv, WriterInv, EventOf
<1>8. Told' \in {[Told EXCEPT ![w] = {}], [Told EXCEPT ![w] = {e}]}
  <2>1. /\ \A x \in Writers \ {w} : pc'[x] = pc[x] /\ req'[x] = req[x] /\ result'[x] = result[x]
        /\ pc'[w] = "idle" /\ req'[w].event = e /\ result'[w] \in {"APPENDED", "NONE"}
    BY <1>2 DEF IInv, TypeOK, EventOf
  <2> HIDE DEF e
  <2>2. QED
    BY <2>1, ToldOthers
<1>9. VersionInv'
  <2>1. projection.version = Len(events'[o])
    BY <1>5, <1>6
  <2> HIDE DEF o, e, projection
  <2>2. ASSUME NEW p \in Orders, rows'[p] # NoRow PROVE rows'[p].version = Len(events'[p])
    <3>1. CASE p = o
      BY <1>3, <2>1, <3>1
    <3>2. CASE p # o
      BY <1>3, <2>2, <3>2 DEF VersionInv
    <3>3. QED
      BY <3>1, <3>2
  <2>3. QED
    BY <2>2 DEF VersionInv
<1>10. Log!Logged = Stored
  BY DEF Log!Logged, Stored
<1>11. Log!Accept(w, o)
  <2> HIDE DEF e
  <2>1. events' = [events EXCEPT ![o] = Append(@, e)]
    BY <1>2
  <2> HIDE DEF o
  <2>2. QED
    BY <1>1, <1>5, <1>6, <1>7, <1>8, <1>10, <2>1 DEF Log!Accept
<1>12. QED
  BY <1>1, <1>9, <1>11

(* Any other commit confirms a stored event or tells nothing.              *)
LEMMA CommitIsConfirm ==
  ASSUME IInv, NEW w \in Writers, Commit(w), result[w] # "APPENDED"
  PROVE  (Log!Confirm(w) \/ UNCHANGED <<events, Told>>) /\ UNCHANGED <<rows, events>>
<1>1. PICK answer \in {result[w], "NONE"} : result' = [result EXCEPT ![w] = answer]
  BY DEF Commit
<1>2. UNCHANGED <<rows, events, req>> /\ pc[w] = "commit" /\ pc' = [pc EXCEPT ![w] = "idle"]
  BY DEF Commit, Goto
<1>3. /\ \A x \in Writers \ {w} : pc'[x] = pc[x] /\ req'[x] = req[x] /\ result'[x] = result[x]
      /\ pc'[w] = "idle" /\ result'[w] = answer
  BY <1>1, <1>2 DEF IInv, TypeOK
<1>4. CASE answer = "DUPLICATE"
  <2>1. EventOf(w) \in Stored
    BY <1>1, <1>4 DEF IInv, WriterInv, AnswerOf, Commit
  <2>2. Told' = [Told EXCEPT ![w] = {EventOf(w)}]
    BY <1>2, <1>3, <1>4, ToldOthers DEF EventOf
  <2>3. Log!Logged = Stored
    BY DEF Log!Logged, Stored
  <2>4. QED
    BY <1>2, <2>1, <2>2, <2>3 DEF Log!Confirm
<1>5. CASE answer # "DUPLICATE"
  <2>1. Told' = [Told EXCEPT ![w] = {}]
    BY <1>3, <1>5, ToldOthers
  <2>2. Told[w] = {} /\ Told = [x \in Writers |-> Told[x]]
    BY <1>2 DEF Told
  <2>3. QED
    BY <1>2, <2>1, <2>2
<1>6. QED
  BY <1>4, <1>5

(* Every step of the store is a step of the log, or none.                  *)
LEMMA StepRefines ==
  IInv /\ VersionInv /\ [Next]_vars => VersionInv' /\ [Log!Next]_(Log!vars)
<1> SUFFICES ASSUME IInv, VersionInv, [Next]_vars PROVE VersionInv' /\ [Log!Next]_(Log!vars)
  OBVIOUS
<1>0. ASSUME UNCHANGED <<rows, events>> PROVE VersionInv'
  BY <1>0 DEF VersionInv
<1>1. ASSUME UNCHANGED vars PROVE UNCHANGED <<events, Told>> /\ UNCHANGED rows
  BY <1>1 DEF vars, Told
<1>2. CASE \E w \in Writers : SubmitCreation(w) \/ SubmitDecision(w) \/ Resubmit(w)
  BY <1>0, <1>2, BeginIsCall DEF Log!Next
<1>3. CASE \E w \in Writers : Commit(w)
  <2>1. PICK w \in Writers : Commit(w)
    BY <1>3
  <2>2. CASE result[w] = "APPENDED"
    BY <2>1, <2>2, CommitIsAccept DEF Log!Next
  <2>3. CASE result[w] # "APPENDED"
    BY <1>0, <2>1, <2>3, CommitIsConfirm DEF Log!Next, Log!vars
  <2>4. QED
    BY <2>2, <2>3
<1>4. CASE \E w \in Writers : \/ LockOrder(w) \/ LockIdentity(w) \/ CheckDuplicate(w)
                            \/ ReadCurrent(w) \/ CheckCollision(w) \/ InsertEvent(w) \/ Crash(w)
  BY <1>0, <1>4, StatementIsSilent DEF Log!vars
<1>5. CASE UNCHANGED vars
  BY <1>0, <1>1, <1>5 DEF Log!vars
<1>6. CASE \E o \in Orders : Rebuild(o)
  BY <1>0, <1>1, <1>6, RebuildChangesNothing DEF Log!vars
<1>7. QED
  BY <1>2, <1>3, <1>4, <1>5, <1>6 DEF Next, Step

(* appendWorkOrderEvent, with its transactions, locks, holds, retries and  *)
(* crashes, implements the append-only log for any number of writers.      *)
THEOREM StoreImplementsLog == Spec => ImplementsLog
<1>1. Init => Log!Init /\ VersionInv
  BY DEF Init, Log!Init, Told, VersionInv
<1>2. IInv /\ VersionInv /\ [Next]_vars => VersionInv' /\ [Log!Next]_(Log!vars)
  BY StepRefines
<1>3. QED
  BY <1>1, <1>2, Invariance, PTL DEF Spec, ImplementsLog, Log!Spec

=============================================================================
