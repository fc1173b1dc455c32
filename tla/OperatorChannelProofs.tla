----------------------- MODULE OperatorChannelProofs -----------------------
(* Proofs about the operator channel, for any founders, reasons, requests  *)
(* and bounds.                                                             *)
EXTENDS OperatorChannel, FiniteSetTheorems, TLAPS

Gates == {"passed", "missing_actor", "unknown_action", "invalid_target", "invalid_reason"}
Wires == {"none", "sent", "applied", "rejected", "never"}
Answers == {"waiting", "lost", "threw", "executed", "refused", "challenged", "unknown"}
Outcomes == {"executed", "refused", "challenged", "unknown"}
Codes ==
  {"none", "missing_actor", "unknown_action", "invalid_target", "invalid_reason",
   "confirmation_required", "confirmation_invalid", "confirmation_not_applicable",
   "circuit_open", "upstream_error", "transport_error", "transport_unknown"}
CodesAtOnce == Codes \ {"upstream_error", "transport_error", "transport_unknown"}
BreakerType == [state: {"closed", "open", "half_open"}, failures: 0..failureThreshold]

-----------------------------------------------------------------------------
(* What prepare returns, and what a request that passes it has.            *)
LEMMA PrepareType ==
  ASSUME NEW r \in AnyRequest
  PROVE  /\ prepare(r) \in Gates
         /\ prepare(r) = "passed" =>
              /\ r.actor \in Actors /\ r.action \in Actions
              /\ r.action # "acknowledge_inbound_alert" => r.reason \in Reasons
  BY DEF prepare, Gates, ValidReason, AnyRequest, Actions

LEMMA FailureType ==
  ASSUME NEW b \in BreakerType
  PROVE  recordFailure(b) \in BreakerType
  BY OperatorConstants DEF BreakerType, recordFailure

LEMMA ClosedType == Closed \in BreakerType
  BY OperatorConstants DEF BreakerType, Closed

LEMMA NewCallType ==
  ASSUME NEW r \in AnyRequest, NEW spent \in Nat, NEW wire \in Wires, NEW answer \in Answers
  PROVE  NewCall(r, spent, wire, answer) \in CallType
  <1>1. prepare(r) \in Gates
    BY PrepareType
  <1>2. ResumeInDoubt \in BOOLEAN
    BY DEF ResumeInDoubt
  <1> QED
    BY <1>1, <1>2 DEF NewCall, CallType, AnyRequest, Gates, Wires, Answers, Actions

(* An entry goes to the ledger or to stderr, and both stay well formed.    *)
LEMMA RecordType ==
  ASSUME TypeOK, NEW c \in Nat, NEW outcome \in Outcomes, NEW code \in Codes,
         NEW status \in AnyStatus \cup {"none"}, NEW answer,
         record(Entry(c, outcome, code, status), answer)
  PROVE  /\ ledger' \in Seq(EntryType) /\ wal' \in Seq(EntryType)
         /\ answer \in {outcome, "threw"}
  <1> DEFINE e == Entry(c, outcome, code, status)
  <1>1. e \in EntryType /\ e.outcome = outcome
    BY DEF Entry, EntryType, Outcomes, Codes
  <1> HIDE DEF e
  <1>2. record(e, answer)
    BY DEF e
  <1>3. ledger \in Seq(EntryType) /\ wal \in Seq(EntryType)
    BY DEF TypeOK
  <1>4. \/ answer = outcome /\ ledger' = Append(ledger, e) /\ wal' = wal
        \/ answer = "threw" /\ wal' = Append(wal, e) /\ ledger' = ledger
    BY <1>1, <1>2 DEF record
  <1>5. Append(ledger, e) \in Seq(EntryType) /\ Append(wal, e) \in Seq(EntryType)
    BY <1>1, <1>3
  <1> QED
    BY <1>3, <1>4, <1>5

-----------------------------------------------------------------------------
(* The two ways a step changes the calls: one more call, or the wire and   *)
(* the answer of calls that are there.                                     *)
OneMore(r, spent, wire) ==
  \E answer \in Answers :
    /\ wire = "none" => answer # "waiting"
    /\ calls' = Append(calls, NewCall(r, spent, wire, answer))

SameDecisions ==
  /\ calls' \in Seq(CallType) /\ Len(calls') = Len(calls)
  /\ \A c \in DOMAIN calls :
       /\ calls'[c].op = calls[c].op /\ calls'[c].action = calls[c].action
       /\ calls'[c].actor = calls[c].actor /\ calls'[c].reason = calls[c].reason
       /\ calls'[c].gate = calls[c].gate /\ calls'[c].spent = calls[c].spent
       /\ calls[c].wire = "none" <=> calls'[c].wire = "none"
       /\ calls'[c].answer = "waiting" => calls[c].answer = "waiting"

LEMMA AnswerAtOnceShape ==
  ASSUME TypeOK, NEW r \in AnyRequest, NEW spent \in Nat,
         NEW outcome \in Outcomes, NEW code \in Codes,
         AnswerAtOnce(r, spent, outcome, code)
  PROVE  /\ OneMore(r, spent, "none")
         /\ ledger' \in Seq(EntryType) /\ wal' \in Seq(EntryType)
  <1>1. PICK answer \in {outcome, "threw"} :
          /\ record(Entry(Len(calls) + 1, outcome, code, "none"), answer)
          /\ calls' = Append(calls, NewCall(r, spent, "none", answer))
    BY DEF AnswerAtOnce
  <1>2. Len(calls) + 1 \in Nat
    BY DEF TypeOK
  <1>3. answer \in Answers \ {"waiting"}
    BY DEF Answers, Outcomes
  <1> QED
    BY <1>1, <1>2, <1>3, RecordType DEF OneMore

LEMMA PostShape ==
  ASSUME TypeOK, NEW r \in AnyRequest, NEW spent \in Nat, post(r, spent)
  PROVE  /\ \E wire \in {"none", "sent"} : OneMore(r, spent, wire)
         /\ ledger' \in Seq(EntryType) /\ wal' \in Seq(EntryType)
  <1>1. CASE breaker.state = "open"
    <2>1. AnswerAtOnce(r, spent, "refused", "circuit_open")
      BY <1>1 DEF post, refuse
    <2> QED
      BY <2>1, AnswerAtOnceShape DEF Outcomes, Codes
  <1>2. CASE breaker.state # "open"
    BY <1>2 DEF post, OneMore, Answers, TypeOK
  <1> QED
    BY <1>1, <1>2

LEMMA OneMoreType ==
  ASSUME TypeOK, NEW r \in AnyRequest, NEW spent \in Nat, NEW wire \in Wires,
         OneMore(r, spent, wire)
  PROVE  /\ calls' \in Seq(CallType) /\ Len(calls') = Len(calls) + 1
         /\ \A c \in DOMAIN calls : calls'[c] = calls[c]
         /\ \E answer \in Answers :
             /\ wire = "none" => answer # "waiting"
             /\ calls'[Len(calls) + 1] = NewCall(r, spent, wire, answer)
  <1>1. PICK answer \in Answers :
          /\ wire = "none" => answer # "waiting"
          /\ calls' = Append(calls, NewCall(r, spent, wire, answer))
    BY DEF OneMore
  <1> DEFINE n == NewCall(r, spent, wire, answer)
  <1>2. n \in CallType
    BY NewCallType
  <1> HIDE DEF n
  <1>3. calls' = Append(calls, n)
    BY <1>1 DEF n
  <1>4. /\ calls' \in Seq(CallType) /\ Len(calls') = Len(calls) + 1
        /\ \A c \in DOMAIN calls : calls'[c] = calls[c]
        /\ calls'[Len(calls) + 1] = n
    <2>1. calls \in Seq(CallType)
      BY DEF TypeOK
    <2> QED
      BY <1>2, <1>3, <2>1
  <1> QED
    BY <1>1, <1>4 DEF n

LEMMA SettleShape ==
  ASSUME TypeOK, NEW c \in DOMAIN calls, calls[c].wire # "none",
         NEW wire \in Wires \ {"none"}, NEW outcome \in Outcomes, NEW code \in Codes,
         NEW status \in AnyStatus \cup {"none"},
         settle(c, wire, outcome, code, status)
  PROVE  /\ SameDecisions
         /\ ledger' \in Seq(EntryType) /\ wal' \in Seq(EntryType)
  <1>1. PICK answer \in {outcome, "threw"} :
          /\ record(Entry(c, outcome, code, status), answer)
          /\ calls' = [calls EXCEPT ![c].wire = wire, ![c].answer = answer]
    BY DEF settle
  <1>2. c \in Nat
    BY DEF TypeOK
  <1>3. ledger' \in Seq(EntryType) /\ wal' \in Seq(EntryType)
    BY <1>1, <1>2, RecordType
  <1>4. SameDecisions
    <2> DEFINE new == [calls[c] EXCEPT !.wire = wire, !.answer = answer]
    <2>1. calls \in Seq(CallType) /\ calls[c] \in CallType
      BY DEF TypeOK
    <2>2. calls' = [calls EXCEPT ![c] = new]
      BY <1>1, <2>1
    <2>3. new \in CallType
      BY <2>1 DEF CallType, Wires, Outcomes
    <2>4. /\ new.op = calls[c].op /\ new.action = calls[c].action
          /\ new.actor = calls[c].actor /\ new.reason = calls[c].reason
          /\ new.gate = calls[c].gate /\ new.spent = calls[c].spent
          /\ new.wire # "none"
          /\ new.answer = "waiting" => calls[c].answer = "waiting"
      BY <2>1 DEF CallType, Outcomes
    <2> HIDE DEF new
    <2>5. calls' \in Seq(CallType) /\ Len(calls') = Len(calls)
      BY <2>1, <2>2, <2>3
    <2>6. \A d \in DOMAIN calls : calls'[d] = IF d = c THEN new ELSE calls[d]
      BY <2>1, <2>2
    <2> QED
      BY <2>4, <2>5, <2>6 DEF SameDecisions
  <1> QED
    BY <1>3, <1>4

-----------------------------------------------------------------------------
(* The actions, by what they do to calls and challenges.                   *)
Typed ==
  /\ ledger' \in Seq(EntryType) /\ wal' \in Seq(EntryType)
  /\ breaker' \in BreakerType
  /\ dispatch' \in {"paused", "running"}
  /\ bootedAt' \in Nat

(* A request that the gate or a later check refuses leaves the challenges  *)
(* alone, and is none of the decisions that revoke one.                    *)
Refusal(r) ==
  /\ \/ prepare(r) # "passed"
     \/ r.op = "confirm" /\ r.action # "resume_dispatch"
     \/ r.op = "execute" /\ r.action = "resume_dispatch"
  /\ OneMore(r, 0, "none")
  /\ challenges' = challenges

Challenge(r) ==
  /\ r.op = "confirm" /\ r.action = "resume_dispatch" /\ prepare(r) = "passed"
  /\ OneMore(r, 0, "none")
  /\ challenges' = invalidate({r.actor}) \cup
       {[token |-> Len(calls) + 1, actor_id |-> r.actor, reason |-> r.reason]}

Intervention(r) ==
  /\ r.op = "execute" /\ r.action # "resume_dispatch" /\ prepare(r) = "passed"
  /\ \E wire \in {"none", "sent"} : OneMore(r, 0, wire)
  /\ challenges' = invalidate(IF r.action = "pause_dispatch" THEN Actors ELSE {r.actor})

Release(r, t) ==
  /\ r.op = "execute" /\ r.action = "resume_dispatch" /\ prepare(r) = "passed"
  /\ t # 0 /\ Matching(r, t) # {}
  /\ \E wire \in {"none", "sent"} : OneMore(r, t, wire)
  /\ challenges' = challenges \ Matching(r, t)

LEMMA ConfirmationSteps ==
  ASSUME TypeOK, NEW r \in Requests, requestConfirmation(r)
  PROVE  Typed /\ (Refusal(r) \/ Challenge(r))
  <1> r \in AnyRequest
    BY OperatorConstants
  <1>1. CASE prepare(r) # "passed" /\ refuse(r, 0, prepare(r)) /\ challenges' = challenges
    <2>1. prepare(r) \in Codes
      BY <1>1, PrepareType DEF Gates, Codes
    <2>2. AnswerAtOnce(r, 0, "refused", prepare(r))
      BY <1>1 DEF refuse
    <2> QED
      BY <1>1, <2>1, <2>2, AnswerAtOnceShape
         DEF Refusal, Typed, TypeOK, requestConfirmation, Outcomes, BreakerType
  <1>2. CASE /\ prepare(r) = "passed" /\ r.action # "resume_dispatch"
             /\ refuse(r, 0, "confirmation_not_applicable")
             /\ challenges' = challenges
    <2>1. AnswerAtOnce(r, 0, "refused", "confirmation_not_applicable")
      BY <1>2 DEF refuse
    <2> QED
      BY <1>2, <2>1, AnswerAtOnceShape
         DEF Refusal, Typed, TypeOK, requestConfirmation, Outcomes, Codes, BreakerType
  <1>3. CASE /\ prepare(r) = "passed" /\ r.action = "resume_dispatch"
             /\ challenges' = invalidate({r.actor}) \cup
                  {[token |-> Len(calls) + 1, actor_id |-> r.actor, reason |-> r.reason]}
             /\ AnswerAtOnce(r, 0, "challenged", "none")
    BY <1>3, AnswerAtOnceShape
       DEF Challenge, Typed, TypeOK, requestConfirmation, Outcomes, Codes, BreakerType
  <1> QED
    BY <1>1, <1>2, <1>3 DEF requestConfirmation

LEMMA ExecuteSteps ==
  ASSUME TypeOK, NEW r \in Requests, NEW t \in Tokens(r), execute(r, t)
  PROVE  Typed /\ (Refusal(r) \/ Intervention(r) \/ Release(r, t))
  <1> r \in AnyRequest
    BY OperatorConstants
  <1>1. t \in Nat
    BY DEF Tokens, TokensHeld, TypeOK
  <1>2. \/ /\ prepare(r) # "passed"
           /\ refuse(r, 0, prepare(r))
           /\ challenges' = challenges
        \/ prepare(r) = "passed" /\ r.action # "resume_dispatch" /\ intervene(r)
        \/ prepare(r) = "passed" /\ r.action = "resume_dispatch" /\ release(r, t)
    BY DEF execute
  <1>3. breaker' \in BreakerType /\ dispatch' \in {"paused", "running"} /\ bootedAt' \in Nat
    BY DEF execute, TypeOK, BreakerType
  <1>4. ASSUME NEW code \in Codes, refuse(r, 0, code), challenges' = challenges,
               prepare(r) # "passed" \/ r.action = "resume_dispatch"
        PROVE  Typed /\ Refusal(r)
    <2>1. AnswerAtOnce(r, 0, "refused", code)
      BY <1>4 DEF refuse
    <2> QED
      BY <1>3, <1>4, <2>1, AnswerAtOnceShape DEF Refusal, Typed, Outcomes, execute
  <1>5. CASE prepare(r) # "passed" /\ refuse(r, 0, prepare(r)) /\ challenges' = challenges
    <2>1. prepare(r) \in Codes
      BY <1>5, PrepareType DEF Gates, Codes
    <2> QED
      BY <1>4, <1>5, <2>1
  <1>6. CASE prepare(r) = "passed" /\ r.action # "resume_dispatch" /\ intervene(r)
    <2>1. post(r, 0)
      BY <1>6 DEF intervene
    <2> QED
      BY <1>3, <1>6, <2>1, PostShape DEF Intervention, Typed, intervene, execute
  <1>7. CASE prepare(r) = "passed" /\ r.action = "resume_dispatch" /\ release(r, t)
    <2>1. CASE refuse(r, 0, "confirmation_required") /\ challenges' = challenges
      BY <1>4, <1>7, <2>1 DEF Codes
    <2>2. CASE refuse(r, 0, "confirmation_invalid") /\ challenges' = challenges
      BY <1>4, <1>7, <2>2 DEF Codes
    <2>3. CASE /\ t # 0 /\ Matching(r, t) # {}
               /\ challenges' = challenges \ Matching(r, t)
               /\ post(r, t)
      BY <1>1, <1>3, <1>7, <2>3, PostShape DEF Release, Typed, execute
    <2> QED
      BY <1>7, <2>1, <2>2, <2>3 DEF release
  <1> QED
    BY <1>2, <1>5, <1>6, <1>7

(* Every other step makes no call, and no challenge appears.               *)
OtherStep ==
  \/ \E k \in challenges : Expire(k)
  \/ CoolDown
  \/ \E c \in DOMAIN calls : WarmblyApplies(c)
  \/ \E c \in DOMAIN calls, status \in Statuses : response(c, status)
  \/ \E c \in DOMAIN calls : noAnswer(c)
  \/ \E c \in DOMAIN calls : preFlightFailure(c)
  \/ Restart
  \/ UNCHANGED vars

(* A call that waits for its answer has been written.                      *)
WaitingIsWritten ==
  \A c \in DOMAIN calls : calls[c].answer = "waiting" => calls[c].wire # "none"

LEMMA CallTyped == ASSUME TypeOK, NEW c \in DOMAIN calls PROVE calls[c] \in CallType
  BY DEF TypeOK

LEMMA SameCalls == ASSUME TypeOK, UNCHANGED calls PROVE SameDecisions
  BY DEF SameDecisions, TypeOK

LEMMA OtherSteps ==
  ASSUME TypeOK, WaitingIsWritten, OtherStep
  PROVE  Typed /\ SameDecisions /\ challenges' \subseteq challenges
  <1>1. ASSUME NEW k \in challenges, Expire(k)
        PROVE  Typed /\ SameDecisions /\ challenges' \subseteq challenges
    BY <1>1, SameCalls DEF Expire, Typed, TypeOK, BreakerType
  <1>2. CASE CoolDown
    <2>1. breaker' \in BreakerType
      BY <1>2 DEF CoolDown, BreakerType, TypeOK
    <2> QED
      BY <1>2, <2>1, SameCalls DEF CoolDown, Typed, TypeOK
  <1>3. ASSUME NEW c \in DOMAIN calls, WarmblyApplies(c)
        PROVE  Typed /\ SameDecisions /\ challenges' \subseteq challenges
    <2>1. calls \in Seq(CallType) /\ calls[c] \in CallType /\ calls[c].wire = "sent"
      BY <1>3 DEF WarmblyApplies, TypeOK
    <2> DEFINE new == [calls[c] EXCEPT !.wire = "applied"]
    <2>2. calls' = [calls EXCEPT ![c] = new]
      BY <1>3, <2>1 DEF WarmblyApplies
    <2>3. new \in CallType
      BY <2>1 DEF CallType
    <2>4. /\ new.op = calls[c].op /\ new.action = calls[c].action
          /\ new.actor = calls[c].actor /\ new.reason = calls[c].reason
          /\ new.gate = calls[c].gate /\ new.spent = calls[c].spent
          /\ new.wire # "none"
          /\ new.answer = "waiting" => calls[c].answer = "waiting"
      BY <2>1 DEF CallType, Outcomes
    <2> HIDE DEF new
    <2>5. calls' \in Seq(CallType) /\ Len(calls') = Len(calls)
      BY <2>1, <2>2, <2>3
    <2>6. \A d \in DOMAIN calls : calls'[d] = IF d = c THEN new ELSE calls[d]
      BY <2>1, <2>2
    <2>7. SameDecisions
      BY <2>1, <2>4, <2>5, <2>6 DEF SameDecisions
    <2>8. dispatch' \in {"paused", "running"}
      BY <1>3 DEF WarmblyApplies, TypeOK
    <2> QED
      BY <1>3, <2>7, <2>8 DEF WarmblyApplies, Typed, TypeOK, BreakerType
  <1>4. ASSUME NEW c \in DOMAIN calls, NEW status \in Statuses, response(c, status)
        PROVE  Typed /\ SameDecisions /\ challenges' \subseteq challenges
    <2>1. /\ calls[c].wire \in Wires \ {"none"}
          /\ WireAfter(calls[c].wire, status) \in Wires \ {"none"}
      BY <1>4, CallTyped DEF response, WaitingIsWritten, WireAfter, CallType, Wires
    <2>2. breaker' \in BreakerType
      BY <1>4, FailureType, ClosedType DEF response, TypeOK, BreakerType
    <2>3. status \in AnyStatus \cup {"none"}
      BY OperatorConstants
    <2>4. \/ settle(c, calls[c].wire, "executed", "none", status)
          \/ settle(c, WireAfter(calls[c].wire, status), "refused", "upstream_error", status)
      BY <1>4 DEF response
    <2>5. SameDecisions /\ ledger' \in Seq(EntryType) /\ wal' \in Seq(EntryType)
      BY <2>1, <2>3, <2>4, SettleShape DEF Outcomes, Codes
    <2> QED
      BY <1>4, <2>2, <2>5 DEF response, Typed, TypeOK
  <1>5. ASSUME NEW c \in DOMAIN calls, noAnswer(c)
        PROVE  Typed /\ SameDecisions /\ challenges' \subseteq challenges
    <2>1. calls[c].wire \in Wires \ {"none"}
      BY <1>5, CallTyped DEF noAnswer, WaitingIsWritten, CallType, Wires
    <2>2. breaker' \in BreakerType
      BY <1>5, FailureType DEF noAnswer, TypeOK, BreakerType
    <2>3. SameDecisions /\ ledger' \in Seq(EntryType) /\ wal' \in Seq(EntryType)
      BY <1>5, <2>1, SettleShape DEF noAnswer, Outcomes, Codes
    <2> QED
      BY <1>5, <2>2, <2>3 DEF noAnswer, Typed, TypeOK
  <1>6. ASSUME NEW c \in DOMAIN calls, preFlightFailure(c)
        PROVE  Typed /\ SameDecisions /\ challenges' \subseteq challenges
    <2>1. calls[c].wire # "none" /\ "never" \in Wires \ {"none"}
      BY <1>6 DEF preFlightFailure, Wires
    <2>2. breaker' \in BreakerType
      BY <1>6, FailureType DEF preFlightFailure, TypeOK, BreakerType
    <2>3. SameDecisions /\ ledger' \in Seq(EntryType) /\ wal' \in Seq(EntryType)
      BY <1>6, <2>1, SettleShape DEF preFlightFailure, Outcomes, Codes
    <2> QED
      BY <1>6, <2>2, <2>3 DEF preFlightFailure, Typed, TypeOK
  <1>7. CASE Restart
    <2> DEFINE new(c) == IF calls[c].answer = "waiting"
                         THEN [calls[c] EXCEPT !.answer = "lost"] ELSE calls[c]
    <2>1. calls' = [c \in 1..Len(calls) |-> new(c)]
      BY <1>7 DEF Restart, TypeOK
    <2>2. \A c \in 1..Len(calls) :
            /\ new(c) \in CallType
            /\ new(c).op = calls[c].op /\ new(c).action = calls[c].action
            /\ new(c).actor = calls[c].actor /\ new(c).reason = calls[c].reason
            /\ new(c).gate = calls[c].gate /\ new(c).spent = calls[c].spent
            /\ new(c).wire = calls[c].wire
            /\ new(c).answer = "waiting" => calls[c].answer = "waiting"
      <3> TAKE c \in 1..Len(calls)
      <3>1. calls[c] \in CallType
        BY CallTyped DEF TypeOK
      <3> QED
        BY <3>1 DEF CallType
    <2> HIDE DEF new
    <2>3. Len(calls) \in Nat
      BY DEF TypeOK
    <2>4. calls' \in Seq(CallType) /\ Len(calls') = Len(calls)
      BY <2>1, <2>2, <2>3
    <2>5. SameDecisions
      BY <2>1, <2>2, <2>4 DEF SameDecisions, TypeOK
    <2> QED
      BY <1>7, <2>3, <2>5, ClosedType DEF Restart, Typed, TypeOK
  <1>8. CASE UNCHANGED vars
    BY <1>8, SameCalls DEF vars, Typed, TypeOK, BreakerType
  <1> QED
    BY <1>1, <1>2, <1>3, <1>4, <1>5, <1>6, <1>7, <1>8 DEF OtherStep

-----------------------------------------------------------------------------
NextStep ==
  \/ \E r \in Requests : requestConfirmation(r)
  \/ \E r \in Requests : \E t \in Tokens(r) : execute(r, t)
  \/ OtherStep

LEMMA Cases == [Next]_vars => NextStep
  BY DEF Next, NextStep, OtherStep

(* Types need one fact more: who waits for an answer has written.          *)
TypeInv == TypeOK /\ WaitingIsWritten

(* A step with one more call keeps the types.                              *)
LEMMA OneMoreTyped ==
  ASSUME TypeInv, NEW r \in AnyRequest, NEW spent \in Nat, NEW wire \in {"none", "sent"},
         OneMore(r, spent, wire), Typed,
         challenges' \subseteq [token: Nat, actor_id: Actors, reason: Reasons]
  PROVE  TypeInv'
  <1>1. PICK answer \in Answers :
          /\ wire = "none" => answer # "waiting"
          /\ calls'[Len(calls) + 1] = NewCall(r, spent, wire, answer)
    BY OneMoreType DEF TypeInv, Wires
  <1>2. /\ calls' \in Seq(CallType) /\ Len(calls') = Len(calls) + 1
        /\ \A c \in DOMAIN calls : calls'[c] = calls[c]
    BY OneMoreType DEF TypeInv, Wires
  <1>3. calls'[Len(calls) + 1].answer = "waiting" => calls'[Len(calls) + 1].wire # "none"
    BY <1>1 DEF NewCall
  <1>4. \A c \in DOMAIN calls' : c \in DOMAIN calls \/ c = Len(calls) + 1
    BY <1>2 DEF TypeInv, TypeOK
  <1>5. WaitingIsWritten'
    BY <1>2, <1>3, <1>4 DEF WaitingIsWritten, TypeInv
  <1> QED
    BY <1>2, <1>5 DEF TypeInv, TypeOK, Typed, BreakerType

LEMMA TypeStep == TypeInv /\ NextStep => TypeInv'
  <1> SUFFICES ASSUME TypeInv, NextStep PROVE TypeInv'
    OBVIOUS
  <1> DEFINE ChallengeType == [token: Nat, actor_id: Actors, reason: Reasons]
  <1>1. TypeOK /\ WaitingIsWritten /\ challenges \subseteq ChallengeType /\ Len(calls) \in Nat
    BY DEF TypeInv, TypeOK
  <1>2. ASSUME NEW r \in Requests, Typed, Refusal(r) PROVE TypeInv'
    <2>1. r \in AnyRequest
      BY OperatorConstants
    <2> QED
      BY <1>1, <1>2, <2>1, OneMoreTyped DEF Refusal
  <1>3. ASSUME NEW r \in Requests, requestConfirmation(r) PROVE TypeInv'
    <2>1. r \in AnyRequest
      BY OperatorConstants
    <2>2. CASE Typed /\ Challenge(r)
      <3>1. r.actor \in Actors /\ r.reason \in Reasons
        BY <2>1, <2>2, PrepareType DEF Challenge
      <3>2. challenges' \subseteq ChallengeType
        BY <1>1, <2>2, <3>1 DEF Challenge, invalidate
      <3> QED
        BY <2>1, <2>2, <3>2, OneMoreTyped DEF Challenge
    <2> QED
      BY <1>1, <1>2, <1>3, <2>2, ConfirmationSteps
  <1>4. ASSUME NEW r \in Requests, NEW t \in Tokens(r), execute(r, t) PROVE TypeInv'
    <2>1. r \in AnyRequest
      BY OperatorConstants
    <2>2. t \in Nat
      BY <1>1 DEF Tokens, TokensHeld, TypeOK
    <2>3. CASE Typed /\ Intervention(r)
      <3>1. challenges' \subseteq ChallengeType
        BY <1>1, <2>3 DEF Intervention, invalidate
      <3> QED
        BY <2>1, <2>3, <3>1, OneMoreTyped DEF Intervention
    <2>4. CASE Typed /\ Release(r, t)
      <3>1. challenges' \subseteq ChallengeType
        BY <1>1, <2>4 DEF Release
      <3> QED
        BY <2>1, <2>2, <2>4, <3>1, OneMoreTyped DEF Release
    <2> QED
      BY <1>1, <1>2, <1>4, <2>3, <2>4, ExecuteSteps
  <1>5. CASE OtherStep
    <2>1. Typed /\ SameDecisions /\ challenges' \subseteq challenges
      BY <1>1, <1>5, OtherSteps
    <2>2. WaitingIsWritten'
      <3>1. DOMAIN calls' = DOMAIN calls
        BY <1>1, <2>1 DEF SameDecisions, TypeOK
      <3> QED
        BY <1>1, <2>1, <3>1 DEF SameDecisions, WaitingIsWritten
    <2> QED
      BY <1>1, <2>1, <2>2 DEF TypeInv, TypeOK, Typed, SameDecisions, BreakerType
  <1> QED
    BY <1>3, <1>4, <1>5 DEF NextStep

LEMMA TypeInit == Init => TypeInv
  BY OperatorConstants DEF Init, TypeInv, TypeOK, WaitingIsWritten, Closed

(* Calls, challenges, breaker, ledger and stderr keep their types, for any *)
(* requests: in particular no request reaches the refusal forbidden_path   *)
(* (channel.ts prepare).                                                   *)
THEOREM ChannelTyped == Spec => []TypeOK
  <1>1. Init => TypeInv
    BY TypeInit
  <1>2. TypeInv /\ [Next]_vars => TypeInv'
    BY TypeStep, Cases
  <1>3. TypeInv => TypeOK
    BY DEF TypeInv
  <1> QED
    BY <1>1, <1>2, <1>3, PTL DEF Spec

-----------------------------------------------------------------------------
(* A live challenge is unspent, and nothing that revokes it came after it. *)
Fresh(k) ==
  /\ k.token \in DOMAIN calls
  /\ Minted(calls[k.token], k.actor_id, k.reason)
  /\ \A d \in (k.token + 1)..Len(calls) : ~Revokes(calls[d], k.actor_id)
  /\ \A c \in DOMAIN calls : calls[c].spent # k.token

AllFresh == \A k \in challenges : Fresh(k)

ReleaseInv == TypeInv /\ NoStaleRelease /\ AllFresh

(* Numbers of calls, as the next steps count them.                         *)
LEMMA Numbering ==
  ASSUME TypeOK
  PROVE  /\ Len(calls) \in Nat /\ DOMAIN calls = 1..Len(calls)
         /\ \A c \in DOMAIN calls : c \in Nat /\ calls[c].spent \in Nat
  <1>1. Len(calls) \in Nat /\ DOMAIN calls = 1..Len(calls)
    BY DEF TypeOK
  <1>2. \A c \in DOMAIN calls : calls[c].spent \in Nat
    BY CallTyped DEF CallType
  <1> QED
    BY <1>1, <1>2

(* What a call decided is not rewritten.                                   *)
LEMMA DecisionsStay ==
  ASSUME SameDecisions, NEW c \in DOMAIN calls, NEW actor, NEW reason
  PROVE  /\ Minted(calls'[c], actor, reason) <=> Minted(calls[c], actor, reason)
         /\ Revokes(calls'[c], actor) <=> Revokes(calls[c], actor)
  BY DEF SameDecisions, Minted, Revokes

LEMMA SameRelease ==
  ASSUME ReleaseInv, SameDecisions, challenges' \subseteq challenges
  PROVE  NoStaleRelease' /\ AllFresh'
  <1>1. /\ Len(calls) \in Nat /\ DOMAIN calls = 1..Len(calls)
        /\ DOMAIN calls' = DOMAIN calls /\ Len(calls') = Len(calls)
        /\ \A c \in DOMAIN calls : c \in Nat /\ calls[c].spent \in Nat
    BY Numbering DEF SameDecisions, ReleaseInv, TypeInv
  <1>2. \A c \in DOMAIN calls :
          /\ calls'[c].actor = calls[c].actor /\ calls'[c].reason = calls[c].reason
          /\ calls'[c].action = calls[c].action /\ calls'[c].spent = calls[c].spent
          /\ calls[c].wire = "none" <=> calls'[c].wire = "none"
    BY DEF SameDecisions
  <1>3. AllFresh'
    <2> SUFFICES ASSUME NEW k \in challenges' PROVE Fresh(k)'
      BY DEF AllFresh
    <2>1. Fresh(k)
      BY DEF ReleaseInv, AllFresh
    <2>2. k.token \in Nat
      BY <1>1, <2>1 DEF Fresh
    <2>3. Minted(calls'[k.token], k.actor_id, k.reason)
      BY <2>1, DecisionsStay DEF Fresh
    <2>4. \A d \in (k.token + 1)..Len(calls) : ~Revokes(calls'[d], k.actor_id)
      BY <1>1, <2>1, <2>2, DecisionsStay DEF Fresh
    <2>5. \A c \in DOMAIN calls : calls'[c].spent # k.token
      BY <1>2, <2>1 DEF Fresh
    <2> QED
      BY <1>1, <2>1, <2>3, <2>4, <2>5 DEF Fresh
  <1>4. NoStaleRelease'
    <2> SUFFICES ASSUME NEW c \in DOMAIN calls
        PROVE  /\ calls'[c].action = "resume_dispatch" /\ calls'[c].wire # "none"
                    => calls'[c].spent # 0
               /\ calls'[c].spent # 0 =>
                    /\ calls'[c].spent < c
                    /\ Minted(calls'[calls'[c].spent], calls'[c].actor, calls'[c].reason)
                    /\ \A d \in (calls'[c].spent + 1)..(c - 1) :
                         ~Revokes(calls'[d], calls'[c].actor)
                    /\ \A d \in DOMAIN calls : calls'[d].spent = calls'[c].spent => d = c
      BY <1>1 DEF NoStaleRelease
    <2>1. calls'[c].action = "resume_dispatch" /\ calls'[c].wire # "none" => calls'[c].spent # 0
      BY <1>2 DEF ReleaseInv, NoStaleRelease
    <2>2. ASSUME calls[c].spent # 0
          PROVE  /\ calls[c].spent < c
                 /\ Minted(calls'[calls[c].spent], calls[c].actor, calls[c].reason)
                 /\ \A d \in (calls[c].spent + 1)..(c - 1) : ~Revokes(calls'[d], calls[c].actor)
                 /\ \A d \in DOMAIN calls : calls'[d].spent = calls[c].spent => d = c
      <3>1. /\ calls[c].spent < c
            /\ Minted(calls[calls[c].spent], calls[c].actor, calls[c].reason)
            /\ \A d \in (calls[c].spent + 1)..(c - 1) : ~Revokes(calls[d], calls[c].actor)
            /\ \A d \in DOMAIN calls : calls[d].spent = calls[c].spent => d = c
        BY <2>2 DEF ReleaseInv, NoStaleRelease
      <3>2. /\ calls[c].spent \in DOMAIN calls
            /\ \A d \in (calls[c].spent + 1)..(c - 1) : d \in DOMAIN calls
        BY <1>1, <2>2, <3>1
      <3> QED
        BY <1>2, <3>1, <3>2, DecisionsStay
    <2> QED
      BY <1>2, <2>1, <2>2
  <1> QED
    BY <1>3, <1>4

(* Whether the request revokes the challenges of a founder.                *)
WouldRevoke(r, actor) ==
  /\ prepare(r) = "passed"
  /\ \/ r.op = "execute" /\ r.action = "pause_dispatch"
     \/ r.op = "execute" /\ r.action = "acknowledge_inbound_alert" /\ r.actor = actor
     \/ r.op = "confirm" /\ r.action = "resume_dispatch" /\ r.actor = actor

(* One more call leaves the older ones as they were.                       *)
LEMMA OneMoreCalls ==
  ASSUME TypeInv, NEW r \in AnyRequest, NEW spent \in Nat, NEW wire \in {"none", "sent"},
         OneMore(r, spent, wire)
  PROVE  /\ Len(calls) \in Nat /\ DOMAIN calls = 1..Len(calls)
         /\ Len(calls') = Len(calls) + 1 /\ DOMAIN calls' = 1..(Len(calls) + 1)
         /\ \A c \in 1..Len(calls) : calls'[c] = calls[c]
         /\ LET n == calls'[Len(calls) + 1] IN
              /\ n.op = r.op /\ n.action = r.action /\ n.actor = r.actor
              /\ n.reason = r.reason /\ n.gate = prepare(r)
              /\ n.spent = spent /\ n.wire = wire
  <1>1. PICK answer \in Answers : calls'[Len(calls) + 1] = NewCall(r, spent, wire, answer)
    BY OneMoreType DEF TypeInv, Wires
  <1>2. /\ calls' \in Seq(CallType) /\ Len(calls') = Len(calls) + 1
        /\ \A c \in DOMAIN calls : calls'[c] = calls[c]
    BY OneMoreType DEF TypeInv, Wires
  <1>3. Len(calls) \in Nat /\ DOMAIN calls = 1..Len(calls)
    BY Numbering DEF TypeInv
  <1>4. DOMAIN calls' = 1..(Len(calls) + 1)
    BY <1>2, <1>3
  <1> QED
    BY <1>1, <1>2, <1>3, <1>4 DEF NewCall

(* A challenge that the request neither revokes nor spends stays fresh.    *)
LEMMA OldStaysFresh ==
  ASSUME ReleaseInv, NEW r \in AnyRequest, NEW spent \in Nat, NEW wire \in {"none", "sent"},
         OneMore(r, spent, wire),
         NEW k \in challenges, k.token # spent, ~WouldRevoke(r, k.actor_id)
  PROVE  Fresh(k)'
  <1> DEFINE n == Len(calls) + 1
  <1>1. /\ Len(calls) \in Nat /\ DOMAIN calls = 1..Len(calls)
        /\ Len(calls') = n /\ DOMAIN calls' = 1..n
        /\ \A c \in 1..Len(calls) : calls'[c] = calls[c]
    BY OneMoreCalls DEF ReleaseInv
  <1>2. ~Revokes(calls'[n], k.actor_id) /\ calls'[n].spent = spent
    BY OneMoreCalls DEF ReleaseInv, Revokes, WouldRevoke
  <1>3. Fresh(k)
    BY DEF ReleaseInv, AllFresh
  <1>4. k.token \in 1..Len(calls)
    BY <1>1, <1>3 DEF Fresh
  <1>5. \A d \in (k.token + 1)..n : ~Revokes(calls'[d], k.actor_id)
    <2> TAKE d \in (k.token + 1)..n
    <2>1. CASE d = n
      BY <1>2, <2>1
    <2>2. CASE d # n
      BY <1>1, <1>3, <1>4, <2>2 DEF Fresh
    <2> QED
      BY <2>1, <2>2
  <1>6. \A c \in 1..n : calls'[c].spent # k.token
    BY <1>1, <1>2, <1>3 DEF Fresh
  <1> QED
    BY <1>1, <1>3, <1>4, <1>5, <1>6 DEF Fresh

(* A call that spends nothing, or a live challenge of its founder for its  *)
(* reason, keeps the property.                                             *)
LEMMA OneMoreRelease ==
  ASSUME ReleaseInv, NEW r \in AnyRequest, NEW spent \in Nat, NEW wire \in {"none", "sent"},
         OneMore(r, spent, wire),
         r.action = "resume_dispatch" /\ wire # "none" => spent # 0,
         spent # 0 => \E k \in challenges :
                        k.token = spent /\ k.actor_id = r.actor /\ k.reason = r.reason
  PROVE  NoStaleRelease'
  <1> DEFINE n == Len(calls) + 1
  <1>1. /\ Len(calls) \in Nat /\ DOMAIN calls = 1..Len(calls)
        /\ Len(calls') = n /\ DOMAIN calls' = 1..n
        /\ \A c \in 1..Len(calls) : calls'[c] = calls[c]
    BY OneMoreCalls DEF ReleaseInv
  <1>2. /\ calls'[n].action = r.action /\ calls'[n].wire = wire
        /\ calls'[n].spent = spent /\ calls'[n].actor = r.actor
        /\ calls'[n].reason = r.reason
    BY OneMoreCalls DEF ReleaseInv
  <1>3. \A c \in 1..Len(calls) : calls[c].spent \in Nat
    BY <1>1, Numbering DEF ReleaseInv, TypeInv
  <1>4. ASSUME spent # 0
        PROVE  /\ spent \in 1..Len(calls)
               /\ Minted(calls'[spent], r.actor, r.reason)
               /\ \A d \in (spent + 1)..(n - 1) : ~Revokes(calls'[d], r.actor)
               /\ \A d \in 1..Len(calls) : calls'[d].spent # spent
    <2>1. PICK k \in challenges : k.token = spent /\ k.actor_id = r.actor /\ k.reason = r.reason
      BY <1>4
    <2>2. Fresh(k)
      BY DEF ReleaseInv, AllFresh
    <2> QED
      BY <1>1, <2>1, <2>2 DEF Fresh
  <1>5. ASSUME NEW c \in 1..Len(calls), calls[c].spent # 0
        PROVE  /\ calls[c].spent < c
               /\ Minted(calls'[calls[c].spent], calls[c].actor, calls[c].reason)
               /\ \A d \in (calls[c].spent + 1)..(c - 1) : ~Revokes(calls'[d], calls[c].actor)
               /\ \A d \in 1..n : calls'[d].spent = calls[c].spent => d = c
    <2>1. /\ calls[c].spent < c
          /\ Minted(calls[calls[c].spent], calls[c].actor, calls[c].reason)
          /\ \A d \in (calls[c].spent + 1)..(c - 1) : ~Revokes(calls[d], calls[c].actor)
          /\ \A d \in 1..Len(calls) : calls[d].spent = calls[c].spent => d = c
      BY <1>1, <1>5 DEF ReleaseInv, NoStaleRelease
    <2>2. /\ calls[c].spent \in 1..Len(calls)
          /\ \A d \in (calls[c].spent + 1)..(c - 1) : d \in 1..Len(calls)
      BY <1>1, <1>3, <1>5, <2>1
    <2>3. calls'[n].spent # calls[c].spent
      BY <1>1, <1>2, <1>4, <1>5
    <2> QED
      BY <1>1, <2>1, <2>2, <2>3
  <1> HIDE DEF n
  <1> SUFFICES ASSUME NEW c \in 1..n
      PROVE  /\ calls'[c].action = "resume_dispatch" /\ calls'[c].wire # "none"
                  => calls'[c].spent # 0
             /\ calls'[c].spent # 0 =>
                  /\ calls'[c].spent < c
                  /\ Minted(calls'[calls'[c].spent], calls'[c].actor, calls'[c].reason)
                  /\ \A d \in (calls'[c].spent + 1)..(c - 1) :
                       ~Revokes(calls'[d], calls'[c].actor)
                  /\ \A d \in 1..n : calls'[d].spent = calls'[c].spent => d = c
    BY <1>1 DEF NoStaleRelease
  <1>6. CASE c = n
    BY <1>1, <1>2, <1>4, <1>6 DEF n
  <1>7. CASE c # n
    <2>1. c \in 1..Len(calls)
      BY <1>1, <1>7 DEF n
    <2>2. calls[c].action = "resume_dispatch" /\ calls[c].wire # "none" => calls[c].spent # 0
      BY <1>1, <2>1 DEF ReleaseInv, NoStaleRelease
    <2> QED
      BY <1>1, <1>5, <2>1, <2>2
  <1> QED
    BY <1>6, <1>7

LEMMA RefusalRelease ==
  ASSUME ReleaseInv, NEW r \in AnyRequest, Refusal(r)
  PROVE  NoStaleRelease' /\ AllFresh'
  <1>1. \A k \in challenges : k.token # 0 /\ ~WouldRevoke(r, k.actor_id)
    BY Numbering DEF Refusal, WouldRevoke, ReleaseInv, AllFresh, Fresh, TypeInv
  <1>2. OneMore(r, 0, "none") /\ challenges' = challenges
    BY DEF Refusal
  <1>3. \A k \in challenges : Fresh(k)'
    BY <1>1, <1>2, OldStaysFresh
  <1>4. NoStaleRelease'
    BY <1>2, OneMoreRelease
  <1> QED
    BY <1>2, <1>3, <1>4 DEF AllFresh

LEMMA ChallengeRelease ==
  ASSUME ReleaseInv, NEW r \in AnyRequest, Challenge(r)
  PROVE  NoStaleRelease' /\ AllFresh'
  <1>0. PICK new : new = [token |-> Len(calls) + 1, actor_id |-> r.actor, reason |-> r.reason]
    OBVIOUS
  <1>1. /\ r.op = "confirm" /\ r.action = "resume_dispatch" /\ prepare(r) = "passed"
        /\ OneMore(r, 0, "none")
        /\ challenges' = invalidate({r.actor}) \cup {new}
    BY <1>0 DEF Challenge
  <1>2. NoStaleRelease'
    BY <1>1, OneMoreRelease
  <1>3. ASSUME NEW k \in invalidate({r.actor}) PROVE Fresh(k)'
    <2>1. k \in challenges /\ k.actor_id # r.actor
      BY DEF invalidate
    <2>2. k.token # 0
      BY <2>1, Numbering DEF ReleaseInv, AllFresh, Fresh, TypeInv
    <2> QED
      BY <1>1, <2>1, <2>2, OldStaysFresh DEF WouldRevoke
  <1>4. Fresh(new)'
    <2> DEFINE n == Len(calls) + 1
    <2>1. /\ Len(calls) \in Nat /\ DOMAIN calls = 1..Len(calls)
          /\ Len(calls') = n /\ DOMAIN calls' = 1..n
          /\ \A c \in 1..Len(calls) : calls'[c] = calls[c]
      BY <1>1, OneMoreCalls DEF ReleaseInv
    <2>2. Minted(calls'[n], r.actor, r.reason) /\ calls'[n].spent = 0
      BY <1>1, OneMoreCalls DEF ReleaseInv, Minted
    <2>3. \A c \in 1..Len(calls) : calls[c].spent # n
      <3> SUFFICES ASSUME NEW c \in 1..Len(calls), calls[c].spent = n PROVE FALSE
        OBVIOUS
      <3>1. calls[c].spent < c
        BY <2>1 DEF ReleaseInv, NoStaleRelease
      <3> QED
        BY <2>1, <3>1
    <2>4. \A c \in 1..n : calls'[c].spent # n
      BY <2>1, <2>2, <2>3
    <2>5. new.token = n /\ new.actor_id = r.actor /\ new.reason = r.reason
      BY <1>0
    <2> QED
      BY <2>1, <2>2, <2>4, <2>5 DEF Fresh
  <1> QED
    BY <1>1, <1>2, <1>3, <1>4 DEF AllFresh

LEMMA InterventionRelease ==
  ASSUME ReleaseInv, NEW r \in AnyRequest, Intervention(r)
  PROVE  NoStaleRelease' /\ AllFresh'
  <1>1. /\ r.op = "execute" /\ r.action # "resume_dispatch" /\ prepare(r) = "passed"
        /\ challenges' = invalidate(IF r.action = "pause_dispatch" THEN Actors ELSE {r.actor})
    BY DEF Intervention
  <1>2. PICK wire \in {"none", "sent"} : OneMore(r, 0, wire)
    BY DEF Intervention
  <1>3. NoStaleRelease'
    BY <1>1, <1>2, OneMoreRelease
  <1>4. ASSUME NEW k \in challenges' PROVE Fresh(k)'
    <2>1. k \in challenges /\ k.actor_id \in Actors
      BY <1>1 DEF invalidate, ReleaseInv, TypeInv, TypeOK
    <2>2. r.action # "pause_dispatch" /\ k.actor_id # r.actor
      BY <1>1, <2>1 DEF invalidate
    <2>3. k.token # 0
      BY <2>1, Numbering DEF ReleaseInv, AllFresh, Fresh, TypeInv
    <2> QED
      BY <1>1, <1>2, <2>1, <2>2, <2>3, OldStaysFresh DEF WouldRevoke
  <1> QED
    BY <1>3, <1>4 DEF AllFresh

LEMMA ReleaseRelease ==
  ASSUME ReleaseInv, NEW r \in AnyRequest, NEW t \in Nat, Release(r, t)
  PROVE  NoStaleRelease' /\ AllFresh'
  <1>1. /\ r.op = "execute" /\ r.action = "resume_dispatch"
        /\ t # 0 /\ Matching(r, t) # {}
        /\ challenges' = challenges \ Matching(r, t)
    BY DEF Release
  <1>2. PICK wire \in {"none", "sent"} : OneMore(r, t, wire)
    BY DEF Release
  <1>3. PICK k \in challenges : k.token = t /\ k.actor_id = r.actor /\ k.reason = r.reason
    BY <1>1 DEF Matching
  <1>4. NoStaleRelease'
    BY <1>1, <1>2, <1>3, OneMoreRelease
  <1>5. ASSUME NEW other \in challenges' PROVE Fresh(other)'
    <2>1. other \in challenges /\ other \notin Matching(r, t)
      BY <1>1
    <2>2. Fresh(k) /\ Fresh(other)
      BY <2>1 DEF ReleaseInv, AllFresh
    <2>3. other.token # t
      BY <1>3, <2>1, <2>2 DEF Fresh, Minted, Matching
    <2> QED
      BY <1>1, <1>2, <2>1, <2>3, OldStaysFresh DEF WouldRevoke
  <1> QED
    BY <1>4, <1>5 DEF AllFresh

LEMMA ReleaseStep == ReleaseInv /\ NextStep => ReleaseInv'
  <1> SUFFICES ASSUME ReleaseInv, NextStep PROVE ReleaseInv'
    OBVIOUS
  <1>1. TypeInv /\ TypeOK /\ WaitingIsWritten
    BY DEF ReleaseInv, TypeInv
  <1>2. TypeInv'
    BY <1>1, TypeStep
  <1>3. ASSUME NEW r \in Requests, requestConfirmation(r)
        PROVE  NoStaleRelease' /\ AllFresh'
    <2>1. r \in AnyRequest
      BY OperatorConstants
    <2>2. Refusal(r) \/ Challenge(r)
      BY <1>1, <1>3, ConfirmationSteps
    <2> QED
      BY <2>1, <2>2, RefusalRelease, ChallengeRelease
  <1>4. ASSUME NEW r \in Requests, NEW t \in Tokens(r), execute(r, t)
        PROVE  NoStaleRelease' /\ AllFresh'
    <2>1. r \in AnyRequest
      BY OperatorConstants
    <2>2. t \in Nat
      BY <1>1 DEF Tokens, TokensHeld, TypeOK
    <2>3. Refusal(r) \/ Intervention(r) \/ Release(r, t)
      BY <1>1, <1>4, ExecuteSteps
    <2> QED
      BY <2>1, <2>2, <2>3, RefusalRelease, InterventionRelease, ReleaseRelease
  <1>5. ASSUME OtherStep PROVE NoStaleRelease' /\ AllFresh'
    BY <1>1, <1>5, OtherSteps, SameRelease
  <1> QED
    BY <1>2, <1>3, <1>4, <1>5 DEF NextStep, ReleaseInv

(* The kill switch is released only by a challenge of the same founder for *)
(* the same reason, spent once, with no pause by anyone and no other       *)
(* decision of that founder in between: for any number of founders, calls, *)
(* expiries, lost ledger writes and restarts (channel.ts execute,          *)
(* confirmation.ts).                                                       *)
THEOREM NothingStaleReleases == Spec => []NoStaleRelease
  <1>1. Init => ReleaseInv
    <2>1. Init => TypeInv
      BY TypeInit
    <2>2. Init => NoStaleRelease /\ AllFresh
      BY DEF Init, NoStaleRelease, AllFresh
    <2> QED
      BY <2>1, <2>2 DEF ReleaseInv
  <1>2. ReleaseInv /\ [Next]_vars => ReleaseInv'
    BY ReleaseStep, Cases
  <1>3. ReleaseInv => NoStaleRelease
    BY DEF ReleaseInv
  <1> QED
    BY <1>1, <1>2, <1>3, PTL DEF Spec

-----------------------------------------------------------------------------
(* The ledger.  What an entry says of the wire of its call.                *)
EntryTrue(e, wire) ==
  /\ e.outcome = "executed" => wire = "applied"
  /\ e.outcome = "challenged" => wire = "none"
  /\ e.outcome = "refused" /\ e.code # "upstream_error" => wire \in {"none", "never"}
  /\ e.code = "upstream_error" /\ e.status # "5xx" => wire = "rejected"
  /\ e.outcome = "unknown" => wire \in {"sent", "applied"}

(* An entry is about a call that was answered, and is true of it.          *)
Backed(e) ==
  /\ e.call \in DOMAIN calls
  /\ calls[e.call].answer \notin {"waiting", "lost"}
  /\ EntryTrue(e, calls[e.call].wire)

AllBacked ==
  /\ \A i \in DOMAIN ledger : Backed(ledger[i])
  /\ \A i \in DOMAIN wal : Backed(wal[i])

(* OneEntryPerCall for one call, with sets instead of their cardinality.   *)
OneEach(c) ==
  LET answer == calls[c].answer IN
  /\ answer = "threw" => \E i : EntriesOf(wal, c) = {i}
  /\ answer # "threw" => EntriesOf(wal, c) = {}
  /\ answer \in {"waiting", "threw"} => EntriesOf(ledger, c) = {}
  /\ answer \notin {"waiting", "threw"} =>
       \E i \in DOMAIN ledger : EntriesOf(ledger, c) = {i} /\ ledger[i].outcome = answer

AllOneEach == \A c \in DOMAIN calls : c > bootedAt => OneEach(c)

(* Who waits for an answer is a call of this process whose POST was        *)
(* written and not refused; who was told executed was applied.             *)
OnTheWire ==
  /\ bootedAt <= Len(calls)
  /\ \A c \in DOMAIN calls :
       /\ calls[c].answer = "waiting" => calls[c].wire \in {"sent", "applied"} /\ c > bootedAt
       /\ calls[c].answer = "executed" => calls[c].wire = "applied"

(* What becomes of the breaker when e is recorded.                         *)
BreakerSteps(e) ==
  \/ breaker' = breaker /\ ~Failing(e) /\ ~Resetting(e)
  \/ breaker' = Closed /\ ~Failing(e)
  \/ breaker' = recordFailure(breaker) /\ Failing(e) /\ ~Resetting(e)

(* The wires of the older calls, when a step applies nothing and writes    *)
(* nothing.                                                                *)
WiresSettle ==
  /\ DOMAIN calls \subseteq DOMAIN calls'
  /\ \A d \in DOMAIN calls :
       /\ calls'[d].action = calls[d].action /\ calls'[d].doubt = calls[d].doubt
       /\ calls'[d].wire \in {calls[d].wire, "rejected", "never"}
       /\ calls'[d].wire = "none" <=> calls[d].wire = "none"
  /\ \A d \in DOMAIN calls' \ DOMAIN calls : calls'[d].wire = "none"

Taken(e, answer) ==
  \/ answer = e.outcome /\ ledger' = Append(ledger, e) /\ wal' = wal
  \/ answer = "threw" /\ wal' = Append(wal, e) /\ ledger' = ledger

(* A step that answers a call c, new or waiting, and records it with e.    *)
Answered(c, e, answer) ==
  /\ e.call = c
  /\ Taken(e, answer)
  /\ DOMAIN calls' = DOMAIN calls \cup {c}
  /\ c \in DOMAIN calls => calls[c].answer = "waiting"
  /\ c \notin DOMAIN calls => c = Len(calls) + 1
  /\ \A d \in DOMAIN calls : d # c => calls'[d] = calls[d]
  /\ calls'[c].answer = answer
  /\ EntryTrue(e, calls'[c].wire)
  /\ WiresSettle
  /\ BreakerSteps(e)
  /\ UNCHANGED <<dispatch, bootedAt>>

Recording == \E c \in Nat, e \in EntryType, answer \in Answers : Answered(c, e, answer)

(* A step that writes a new call and waits.                                *)
Written ==
  /\ Len(calls') = Len(calls) + 1
  /\ DOMAIN calls' = DOMAIN calls \cup {Len(calls) + 1}
  /\ \A d \in DOMAIN calls : calls'[d] = calls[d]
  /\ LET n == calls'[Len(calls) + 1] IN
       n.wire = "sent" /\ n.answer = "waiting" /\ n.doubt = ResumeInDoubt
  /\ UNCHANGED <<ledger, wal, breaker, dispatch, bootedAt>>

(* A step without calls or entries; the breaker may come to be half open.  *)
Quiet ==
  /\ UNCHANGED <<calls, ledger, wal, dispatch, bootedAt>>
  /\ breaker'.failures = breaker.failures
  /\ breaker'.state = "closed" <=> breaker.state = "closed"

LEMMA RecordShape ==
  ASSUME TypeOK, NEW c \in Nat, NEW outcome \in Outcomes, NEW code \in Codes,
         NEW status \in AnyStatus \cup {"none"}, NEW answer,
         record(Entry(c, outcome, code, status), answer)
  PROVE  /\ Taken(Entry(c, outcome, code, status), answer)
         /\ Entry(c, outcome, code, status) \in EntryType
         /\ answer \in Answers
  <1>1. Entry(c, outcome, code, status) \in EntryType
    BY DEF Entry, EntryType, Outcomes, Codes
  <1>2. Taken(Entry(c, outcome, code, status), answer)
    BY DEF record, Taken
  <1>3. answer \in {outcome, "threw"}
    BY RecordType
  <1> QED
    BY <1>1, <1>2, <1>3 DEF Answers, Outcomes

(* A call that is answered without a POST.                                 *)
LEMMA AtOnceRecords ==
  ASSUME TypeOK, NEW r \in AnyRequest, NEW spent \in Nat,
         NEW outcome \in {"refused", "challenged"}, NEW code \in CodesAtOnce,
         AnswerAtOnce(r, spent, outcome, code),
         UNCHANGED <<breaker, dispatch, bootedAt>>
  PROVE  Recording
  <1> DEFINE n == Len(calls) + 1
             e == Entry(n, outcome, code, "none")
  <1>1. PICK answer \in {outcome, "threw"} :
          record(e, answer) /\ calls' = Append(calls, NewCall(r, spent, "none", answer))
    BY DEF AnswerAtOnce
  <1>2. /\ n \in Nat /\ Len(calls) \in Nat /\ DOMAIN calls = 1..Len(calls)
        /\ calls \in Seq(CallType)
    BY DEF TypeOK
  <1>3. Taken(e, answer) /\ e \in EntryType /\ answer \in Answers
    BY <1>1, <1>2, RecordShape DEF Outcomes, CodesAtOnce
  <1>4. NewCall(r, spent, "none", answer) \in CallType
    BY <1>3, NewCallType DEF Wires
  <1>5. /\ DOMAIN calls' = DOMAIN calls \cup {n}
        /\ \A d \in DOMAIN calls : calls'[d] = calls[d]
        /\ calls'[n] = NewCall(r, spent, "none", answer)
    BY <1>1, <1>2, <1>4
  <1>6. calls'[n].wire = "none" /\ calls'[n].answer = answer
    BY <1>5 DEF NewCall
  <1>7. n \notin DOMAIN calls
    BY <1>2
  <1>8. EntryTrue(e, "none") /\ e.call = n
    BY DEF EntryTrue, Entry, Codes, CodesAtOnce
  <1>9. WiresSettle
    BY <1>5, <1>6 DEF WiresSettle
  <1>10. BreakerSteps(e)
    BY DEF BreakerSteps, Failing, Resetting, Entry, Codes, CodesAtOnce
  <1>11. Answered(n, e, answer)
    BY <1>3, <1>5, <1>6, <1>7, <1>8, <1>9, <1>10 DEF Answered
  <1> QED
    BY <1>2, <1>3, <1>11 DEF Recording

LEMMA PostRecords ==
  ASSUME TypeOK, NEW r \in AnyRequest, NEW spent \in Nat, post(r, spent),
         UNCHANGED <<breaker, dispatch, bootedAt>>
  PROVE  Recording \/ Written
  <1>1. CASE breaker.state = "open"
    <2>1. AnswerAtOnce(r, spent, "refused", "circuit_open")
      BY <1>1 DEF post, refuse
    <2> QED
      BY <2>1, AtOnceRecords DEF Codes, CodesAtOnce
  <1>2. CASE breaker.state # "open"
    <2> DEFINE n == NewCall(r, spent, "sent", "waiting")
    <2>1. calls' = Append(calls, n) /\ UNCHANGED <<ledger, wal>>
      BY <1>2 DEF post
    <2>2. n \in CallType /\ calls \in Seq(CallType)
      BY NewCallType DEF Wires, Answers, TypeOK
    <2>3. n.wire = "sent" /\ n.answer = "waiting" /\ n.doubt = ResumeInDoubt
      BY DEF NewCall
    <2> HIDE DEF n
    <2>4. /\ Len(calls') = Len(calls) + 1
          /\ DOMAIN calls' = DOMAIN calls \cup {Len(calls) + 1}
          /\ \A d \in DOMAIN calls : calls'[d] = calls[d]
          /\ calls'[Len(calls) + 1] = n
      BY <2>1, <2>2
    <2> QED
      BY <2>1, <2>3, <2>4 DEF Written
  <1> QED
    BY <1>1, <1>2

(* A waiting call that is settled.                                         *)
LEMMA SettleRecords ==
  ASSUME TypeOK, OnTheWire, NEW c \in DOMAIN calls, calls[c].answer = "waiting",
         NEW wire \in {calls[c].wire, "rejected", "never"},
         NEW outcome \in Outcomes, NEW code \in Codes, NEW status \in AnyStatus \cup {"none"},
         settle(c, wire, outcome, code, status),
         EntryTrue(Entry(c, outcome, code, status), wire),
         BreakerSteps(Entry(c, outcome, code, status)),
         UNCHANGED <<dispatch, bootedAt>>
  PROVE  Recording
  <1> DEFINE e == Entry(c, outcome, code, status)
  <1>1. PICK answer \in {outcome, "threw"} :
          /\ record(e, answer)
          /\ calls' = [calls EXCEPT ![c].wire = wire, ![c].answer = answer]
    BY DEF settle
  <1>2. /\ c \in Nat /\ calls \in Seq(CallType) /\ calls[c] \in CallType
        /\ Len(calls) \in Nat /\ DOMAIN calls = 1..Len(calls)
    BY DEF TypeOK
  <1>3. Taken(e, answer) /\ e \in EntryType /\ answer \in Answers
    BY <1>1, <1>2, RecordShape
  <1> DEFINE new == [calls[c] EXCEPT !.wire = wire, !.answer = answer]
  <1>4. calls' = [calls EXCEPT ![c] = new]
    BY <1>1, <1>2
  <1>5. /\ new.wire = wire /\ new.answer = answer
        /\ new.action = calls[c].action /\ new.doubt = calls[c].doubt
    BY <1>2 DEF CallType
  <1> HIDE DEF new
  <1>6. /\ DOMAIN calls' = DOMAIN calls
        /\ calls'[c] = new
        /\ \A d \in DOMAIN calls : d # c => calls'[d] = calls[d]
    BY <1>2, <1>4
  <1>7. calls[c].wire # "none" /\ wire # "none"
    BY DEF OnTheWire
  <1>8. WiresSettle
    <2> SUFFICES ASSUME NEW d \in DOMAIN calls
        PROVE  /\ calls'[d].action = calls[d].action /\ calls'[d].doubt = calls[d].doubt
               /\ calls'[d].wire \in {calls[d].wire, "rejected", "never"}
               /\ calls'[d].wire = "none" <=> calls[d].wire = "none"
      BY <1>6 DEF WiresSettle
    <2> QED
      BY <1>5, <1>6, <1>7
  <1>9. e.call = c
    BY DEF Entry
  <1>10. Answered(c, e, answer)
    BY <1>3, <1>5, <1>6, <1>8, <1>9 DEF Answered
  <1> QED
    BY <1>2, <1>3, <1>10 DEF Recording

LEMMA RequestsRecord ==
  ASSUME TypeOK, NEW r \in Requests
  PROVE  /\ requestConfirmation(r) => Recording
         /\ \A t \in Tokens(r) : execute(r, t) => Recording \/ Written
  <1>1. r \in AnyRequest
    BY OperatorConstants
  <1>2. prepare(r) # "passed" => prepare(r) \in CodesAtOnce
    BY <1>1, PrepareType DEF Gates, Codes, CodesAtOnce
  <1>3. ASSUME requestConfirmation(r) PROVE Recording
    <2>1. UNCHANGED <<breaker, dispatch, bootedAt>>
      BY <1>3 DEF requestConfirmation
    <2>2. \/ \E code \in CodesAtOnce : AnswerAtOnce(r, 0, "refused", code)
          \/ AnswerAtOnce(r, 0, "challenged", "none")
      BY <1>2, <1>3 DEF requestConfirmation, refuse, Codes, CodesAtOnce
    <2> QED
      BY <1>1, <2>1, <2>2, AtOnceRecords DEF Codes, CodesAtOnce
  <1>4. ASSUME NEW t \in Tokens(r), execute(r, t) PROVE Recording \/ Written
    <2>1. UNCHANGED <<breaker, dispatch, bootedAt>> /\ t \in Nat
      BY <1>4 DEF execute, Tokens, TokensHeld, TypeOK
    <2>2. \/ \E code \in CodesAtOnce : AnswerAtOnce(r, 0, "refused", code)
          \/ post(r, 0)
          \/ post(r, t)
      BY <1>2, <1>4 DEF execute, intervene, release, refuse, Codes, CodesAtOnce
    <2> QED
      BY <1>1, <2>1, <2>2, AtOnceRecords, PostRecords
  <1> QED
    BY <1>3, <1>4

(* Every step is one of five.                                              *)
LedgerStep ==
  \/ Recording
  \/ Written
  \/ Quiet
  \/ \E c \in DOMAIN calls : WarmblyApplies(c)
  \/ Restart

LEMMA LedgerSteps ==
  ASSUME TypeOK, OnTheWire, NextStep
  PROVE  LedgerStep
  <1>1. ASSUME NEW r \in Requests, requestConfirmation(r) PROVE LedgerStep
    BY <1>1, RequestsRecord DEF LedgerStep
  <1>2. ASSUME NEW r \in Requests, NEW t \in Tokens(r), execute(r, t) PROVE LedgerStep
    BY <1>2, RequestsRecord DEF LedgerStep
  <1>3. ASSUME NEW k \in challenges, Expire(k) PROVE Quiet
    BY <1>3 DEF Expire, Quiet
  <1>4. ASSUME CoolDown PROVE Quiet
    BY <1>4 DEF CoolDown, Quiet, TypeOK
  <1>5. ASSUME NEW c \in DOMAIN calls, NEW status \in Statuses, response(c, status)
        PROVE  Recording
    <2>1. /\ calls[c].answer = "waiting" /\ calls[c].wire \in {"sent", "applied"}
          /\ status \in AnyStatus
          /\ UNCHANGED <<dispatch, bootedAt>>
      BY <1>5, OperatorConstants DEF response, OnTheWire
    <2>2. CASE status = "2xx"
      <3>1. calls[c].wire = "applied" /\ breaker' = Closed
        BY <1>5, <2>1, <2>2 DEF response, PossibleStatus
      <3>2. settle(c, calls[c].wire, "executed", "none", status)
        BY <1>5, <2>2 DEF response
      <3>3. EntryTrue(Entry(c, "executed", "none", status), calls[c].wire)
        BY <3>1 DEF EntryTrue, Entry
      <3>4. BreakerSteps(Entry(c, "executed", "none", status))
        BY <2>2, <3>1 DEF BreakerSteps, Failing, Entry
      <3> QED
        BY <2>1, <3>2, <3>3, <3>4, SettleRecords DEF Outcomes, Codes
    <2>3. CASE status # "2xx"
      <3> DEFINE wire == WireAfter(calls[c].wire, status)
      <3>1. settle(c, wire, "refused", "upstream_error", status)
        BY <1>5, <2>3 DEF response
      <3>2. EntryTrue(Entry(c, "refused", "upstream_error", status), wire)
        BY <2>1, <2>3 DEF EntryTrue, Entry, WireAfter, AnyStatus
      <3>3. BreakerSteps(Entry(c, "refused", "upstream_error", status))
        BY <1>5, <2>1 DEF BreakerSteps, response, Failing, Resetting, AnyStatus, Entry
      <3>4. wire \in {calls[c].wire, "rejected", "never"}
        BY DEF WireAfter
      <3> QED
        BY <2>1, <3>1, <3>2, <3>3, <3>4, SettleRecords DEF Outcomes, Codes
    <2> QED
      BY <2>2, <2>3
  <1>6. ASSUME NEW c \in DOMAIN calls, noAnswer(c) PROVE Recording
    <2> DEFINE e == Entry(c, "unknown", "transport_unknown", "none")
    <2>1. calls[c].answer = "waiting" /\ calls[c].wire \in {"sent", "applied"}
      BY <1>6 DEF noAnswer, OnTheWire
    <2>2. EntryTrue(e, calls[c].wire) /\ BreakerSteps(e)
      BY <1>6, <2>1 DEF EntryTrue, Entry, BreakerSteps, Failing, Resetting, noAnswer
    <2> QED
      BY <1>6, <2>1, <2>2, SettleRecords DEF noAnswer, Outcomes, Codes
  <1>7. ASSUME NEW c \in DOMAIN calls, preFlightFailure(c) PROVE Recording
    <2> DEFINE e == Entry(c, "refused", "transport_error", "none")
    <2>1. EntryTrue(e, "never") /\ BreakerSteps(e)
      BY <1>7 DEF EntryTrue, Entry, BreakerSteps, Failing, Resetting, preFlightFailure
    <2> QED
      BY <1>7, <2>1, SettleRecords DEF preFlightFailure, Outcomes, Codes
  <1>8. ASSUME UNCHANGED vars PROVE Quiet
    BY <1>8 DEF vars, Quiet
  <1> QED
    BY <1>1, <1>2, <1>3, <1>4, <1>5, <1>6, <1>7, <1>8 DEF NextStep, OtherStep, LedgerStep

-----------------------------------------------------------------------------
LedgerInv == OnTheWire /\ AllBacked /\ AllOneEach

LEMMA AppendEntries ==
  ASSUME NEW s \in Seq(EntryType), NEW e \in EntryType
  PROVE  /\ DOMAIN Append(s, e) = DOMAIN s \cup {Len(s) + 1}
         /\ Append(s, e)[Len(s) + 1] = e
         /\ \A i \in DOMAIN s : Append(s, e)[i] = s[i]
         /\ Len(s) + 1 \notin DOMAIN s
         /\ EntriesOf(Append(s, e), e.call) = EntriesOf(s, e.call) \cup {Len(s) + 1}
         /\ \A c : c # e.call => EntriesOf(Append(s, e), c) = EntriesOf(s, c)
  <1>1. /\ DOMAIN Append(s, e) = DOMAIN s \cup {Len(s) + 1}
        /\ Append(s, e)[Len(s) + 1] = e
        /\ \A i \in DOMAIN s : Append(s, e)[i] = s[i]
        /\ Len(s) + 1 \notin DOMAIN s
    OBVIOUS
  <1> DEFINE a == Append(s, e)
  <1> HIDE DEF a
  <1>2. /\ DOMAIN a = DOMAIN s \cup {Len(s) + 1} /\ a[Len(s) + 1] = e
        /\ \A i \in DOMAIN s : a[i] = s[i]
    BY <1>1 DEF a
  <1>3. EntriesOf(a, e.call) = EntriesOf(s, e.call) \cup {Len(s) + 1}
    BY <1>2 DEF EntriesOf
  <1>4. \A c : c # e.call => EntriesOf(a, c) = EntriesOf(s, c)
    BY <1>2 DEF EntriesOf
  <1> QED
    BY <1>1, <1>3, <1>4 DEF a

(* A waiting or a new call has no entry yet.                               *)
LEMMA NoEntryYet ==
  ASSUME AllBacked, NEW c, c \in DOMAIN calls => calls[c].answer \in {"waiting", "lost"}
  PROVE  EntriesOf(ledger, c) = {} /\ EntriesOf(wal, c) = {}
  BY DEF AllBacked, Backed, EntriesOf

LEMMA RecordingKeeps ==
  ASSUME TypeOK, LedgerInv, TypeOK', Recording
  PROVE  LedgerInv'
  <1>1. PICK c \in Nat, e \in EntryType, answer \in Answers : Answered(c, e, answer)
    BY DEF Recording
  <1>2. /\ e.call = c /\ Taken(e, answer)
        /\ DOMAIN calls' = DOMAIN calls \cup {c}
        /\ c \in DOMAIN calls => calls[c].answer = "waiting"
        /\ c \notin DOMAIN calls => c = Len(calls) + 1
        /\ \A d \in DOMAIN calls : d # c => calls'[d] = calls[d]
        /\ calls'[c].answer = answer
        /\ EntryTrue(e, calls'[c].wire)
        /\ bootedAt' = bootedAt
    BY <1>1 DEF Answered
  <1>3. /\ ledger \in Seq(EntryType) /\ wal \in Seq(EntryType)
        /\ Len(calls) \in Nat /\ DOMAIN calls = 1..Len(calls)
        /\ Len(calls') \in Nat /\ DOMAIN calls' = 1..Len(calls')
        /\ bootedAt \in Nat
    BY DEF TypeOK
  <1>13. e.outcome \in Outcomes
    BY DEF EntryType, Outcomes
  <1>4. answer \notin {"waiting", "lost"} /\ (answer = "executed" => e.outcome = "executed")
    BY <1>2, <1>13 DEF Outcomes, Taken
  <1>5. EntriesOf(ledger, c) = {} /\ EntriesOf(wal, c) = {}
    BY <1>2, NoEntryYet DEF LedgerInv
  <1>14. /\ EntriesOf(Append(ledger, e), c) = {Len(ledger) + 1}
         /\ EntriesOf(Append(wal, e), c) = {Len(wal) + 1}
         /\ \A d : d # c => /\ EntriesOf(Append(ledger, e), d) = EntriesOf(ledger, d)
                            /\ EntriesOf(Append(wal, e), d) = EntriesOf(wal, d)
    <2>1. /\ EntriesOf(Append(ledger, e), e.call) = EntriesOf(ledger, e.call) \cup {Len(ledger) + 1}
          /\ \A d : d # e.call => EntriesOf(Append(ledger, e), d) = EntriesOf(ledger, d)
      BY <1>3, AppendEntries
    <2>2. /\ EntriesOf(Append(wal, e), e.call) = EntriesOf(wal, e.call) \cup {Len(wal) + 1}
          /\ \A d : d # e.call => EntriesOf(Append(wal, e), d) = EntriesOf(wal, d)
      BY <1>3, AppendEntries
    <2> QED
      BY <1>2, <1>5, <2>1, <2>2
  <1>6. OnTheWire'
    <2>1. bootedAt' <= Len(calls')
      BY <1>2, <1>3 DEF LedgerInv, OnTheWire
    <2>2. ASSUME NEW d \in DOMAIN calls'
          PROVE  /\ calls'[d].answer = "waiting" =>
                      calls'[d].wire \in {"sent", "applied"} /\ d > bootedAt'
                 /\ calls'[d].answer = "executed" => calls'[d].wire = "applied"
      <3>1. CASE d = c
        BY <1>2, <1>4, <3>1 DEF EntryTrue
      <3>2. CASE d # c
        BY <1>2, <3>2 DEF LedgerInv, OnTheWire
      <3> QED
        BY <3>1, <3>2
    <2> QED
      BY <2>1, <2>2 DEF OnTheWire
  <1>7. Backed(e)'
    BY <1>2, <1>4 DEF Backed
  <1>8. ASSUME NEW x, Backed(x) PROVE Backed(x)'
    BY <1>2, <1>8 DEF Backed
  <1>9. AllBacked'
    <2>1. CASE ledger' = Append(ledger, e) /\ wal' = wal
      BY <1>3, <1>7, <1>8, <2>1, AppendEntries DEF AllBacked, LedgerInv
    <2>2. CASE wal' = Append(wal, e) /\ ledger' = ledger
      BY <1>3, <1>7, <1>8, <2>2, AppendEntries DEF AllBacked, LedgerInv
    <2> QED
      BY <1>2, <2>1, <2>2 DEF Taken
  <1>10. OneEach(c)'
    <2>1. CASE answer = e.outcome /\ ledger' = Append(ledger, e) /\ wal' = wal
      <3>1. EntriesOf(ledger', c) = {Len(ledger) + 1} /\ EntriesOf(wal', c) = {}
        BY <1>5, <1>14, <2>1
      <3>2. Len(ledger) + 1 \in DOMAIN ledger' /\ ledger'[Len(ledger) + 1].outcome = answer
        BY <1>3, <2>1, AppendEntries
      <3>3. answer \notin {"waiting", "threw"}
        BY <1>13, <2>1 DEF Outcomes
      <3> QED
        BY <1>2, <3>1, <3>2, <3>3 DEF OneEach
    <2>2. CASE answer = "threw" /\ wal' = Append(wal, e) /\ ledger' = ledger
      <3>1. EntriesOf(wal', c) = {Len(wal) + 1} /\ EntriesOf(ledger', c) = {}
        BY <1>5, <1>14, <2>2
      <3> QED
        BY <1>2, <2>2, <3>1 DEF OneEach
    <2> QED
      BY <1>2, <2>1, <2>2 DEF Taken
  <1>11. ASSUME NEW d \in DOMAIN calls, d # c, OneEach(d) PROVE OneEach(d)'
    <2>1. /\ EntriesOf(ledger', d) = EntriesOf(ledger, d)
          /\ EntriesOf(wal', d) = EntriesOf(wal, d)
          /\ \A i \in DOMAIN ledger : i \in DOMAIN ledger' /\ ledger'[i] = ledger[i]
      <3>1. \A i \in DOMAIN ledger : /\ i \in DOMAIN Append(ledger, e)
                                     /\ Append(ledger, e)[i] = ledger[i]
        BY <1>3, AppendEntries
      <3> QED
        BY <1>2, <1>11, <1>14, <3>1 DEF Taken
    <2>2. calls'[d] = calls[d]
      BY <1>2, <1>11
    <2> QED
      BY <1>11, <2>1, <2>2 DEF OneEach
  <1>12. AllOneEach'
    <2> SUFFICES ASSUME NEW d \in DOMAIN calls', d > bootedAt' PROVE OneEach(d)'
      BY DEF AllOneEach
    <2>1. CASE d = c
      BY <1>10, <2>1
    <2>2. CASE d # c
      BY <1>2, <1>11, <2>2 DEF LedgerInv, AllOneEach
    <2> QED
      BY <2>1, <2>2
  <1> QED
    BY <1>6, <1>9, <1>12 DEF LedgerInv

LEMMA WrittenKeeps ==
  ASSUME TypeOK, LedgerInv, TypeOK', Written
  PROVE  LedgerInv'
  <1> DEFINE n == Len(calls) + 1
  <1>1. /\ Len(calls) \in Nat /\ DOMAIN calls = 1..Len(calls)
        /\ Len(calls') \in Nat /\ DOMAIN calls' = 1..Len(calls')
        /\ bootedAt \in Nat
    BY DEF TypeOK
  <1>2. /\ DOMAIN calls' = DOMAIN calls \cup {n} /\ Len(calls') = n
        /\ \A d \in DOMAIN calls : calls'[d] = calls[d]
        /\ calls'[n].wire = "sent" /\ calls'[n].answer = "waiting"
        /\ ledger' = ledger /\ wal' = wal /\ bootedAt' = bootedAt
    BY DEF Written
  <1>3. n \notin DOMAIN calls /\ n > bootedAt /\ bootedAt <= n
    BY <1>1 DEF LedgerInv, OnTheWire
  <1>4. OnTheWire'
    BY <1>1, <1>2, <1>3 DEF LedgerInv, OnTheWire
  <1>5. AllBacked'
    BY <1>2 DEF LedgerInv, AllBacked, Backed
  <1>6. EntriesOf(ledger, n) = {} /\ EntriesOf(wal, n) = {}
    BY <1>3, NoEntryYet DEF LedgerInv
  <1>7. ASSUME NEW m, m = n PROVE OneEach(m)'
    <2>1. EntriesOf(ledger', m) = {} /\ EntriesOf(wal', m) = {} /\ calls'[m].answer = "waiting"
      BY <1>2, <1>6, <1>7
    <2> QED
      BY <2>1 DEF OneEach
  <1>8. ASSUME NEW d \in DOMAIN calls, OneEach(d) PROVE OneEach(d)'
    BY <1>2, <1>8 DEF OneEach
  <1>9. AllOneEach'
    <2> SUFFICES ASSUME NEW d \in DOMAIN calls', d > bootedAt' PROVE OneEach(d)'
      BY DEF AllOneEach
    <2>1. CASE d = n
      BY <1>7, <2>1
    <2>2. CASE d # n
      BY <1>2, <1>8, <2>2 DEF LedgerInv, AllOneEach
    <2> QED
      BY <2>1, <2>2
  <1> QED
    BY <1>4, <1>5, <1>9 DEF LedgerInv

LEMMA QuietKeeps ==
  ASSUME LedgerInv, Quiet
  PROVE  LedgerInv'
  BY DEF LedgerInv, Quiet, OnTheWire, AllBacked, Backed, AllOneEach, OneEach

LEMMA ApplyingKeeps ==
  ASSUME TypeOK, LedgerInv, NEW c \in DOMAIN calls, WarmblyApplies(c)
  PROVE  LedgerInv'
  <1>1. calls \in Seq(CallType) /\ calls[c] \in CallType /\ calls[c].wire = "sent"
    BY DEF WarmblyApplies, TypeOK
  <1> DEFINE new == [calls[c] EXCEPT !.wire = "applied"]
  <1>2. new.wire = "applied" /\ new.answer = calls[c].answer
    BY <1>1 DEF CallType
  <1>3. calls' = [calls EXCEPT ![c] = new]
    BY <1>1 DEF WarmblyApplies
  <1> HIDE DEF new
  <1>4. /\ DOMAIN calls' = DOMAIN calls /\ Len(calls') = Len(calls)
        /\ \A d \in DOMAIN calls : /\ calls'[d].answer = calls[d].answer
                                   /\ calls'[d].wire = IF d = c THEN "applied" ELSE calls[d].wire
        /\ ledger' = ledger /\ wal' = wal /\ bootedAt' = bootedAt
    BY <1>1, <1>2, <1>3 DEF WarmblyApplies
  <1>5. OnTheWire'
    BY <1>4 DEF LedgerInv, OnTheWire
  <1>6. ASSUME NEW x, Backed(x) PROVE Backed(x)'
    <2>1. EntryTrue(x, "sent") => EntryTrue(x, "applied")
      BY DEF EntryTrue
    <2> QED
      BY <1>1, <1>4, <1>6, <2>1 DEF Backed
  <1>7. AllBacked'
    BY <1>4, <1>6 DEF LedgerInv, AllBacked
  <1>8. AllOneEach'
    BY <1>4 DEF LedgerInv, AllOneEach, OneEach
  <1> QED
    BY <1>5, <1>7, <1>8 DEF LedgerInv

LEMMA RestartCalls ==
  ASSUME TypeOK, Restart
  PROVE  /\ DOMAIN calls' = DOMAIN calls /\ Len(calls') = Len(calls) /\ Len(calls) \in Nat
         /\ \A d \in DOMAIN calls :
              /\ calls'[d].wire = calls[d].wire /\ calls'[d].action = calls[d].action
              /\ calls'[d].doubt = calls[d].doubt
              /\ calls'[d].answer = IF calls[d].answer = "waiting" THEN "lost"
                                    ELSE calls[d].answer
  <1> DEFINE new(c) == IF calls[c].answer = "waiting"
                       THEN [calls[c] EXCEPT !.answer = "lost"] ELSE calls[c]
  <1>1. /\ calls \in Seq(CallType) /\ Len(calls) \in Nat
        /\ DOMAIN calls = 1..Len(calls)
    BY DEF TypeOK
  <1>2. calls' = [c \in 1..Len(calls) |-> new(c)]
    BY <1>1 DEF Restart
  <1>3. \A d \in 1..Len(calls) :
          /\ new(d) \in CallType
          /\ new(d).wire = calls[d].wire /\ new(d).action = calls[d].action
          /\ new(d).doubt = calls[d].doubt
          /\ new(d).answer = IF calls[d].answer = "waiting" THEN "lost" ELSE calls[d].answer
    <2> TAKE d \in 1..Len(calls)
    <2>1. calls[d] \in CallType
      BY <1>1
    <2> QED
      BY <2>1 DEF CallType
  <1> HIDE DEF new
  <1> QED
    BY <1>1, <1>2, <1>3

LEMMA RestartKeeps ==
  ASSUME TypeOK, LedgerInv, Restart
  PROVE  LedgerInv'
  <1>1. ledger' = <<>> /\ wal' = wal /\ bootedAt' = Len(calls) /\ DOMAIN calls = 1..Len(calls)
    BY DEF Restart, TypeOK
  <1>2. OnTheWire'
    BY <1>1, RestartCalls DEF LedgerInv, OnTheWire
  <1>3. AllBacked'
    BY <1>1, RestartCalls DEF LedgerInv, AllBacked, Backed
  <1>4. AllOneEach'
    BY <1>1, RestartCalls DEF AllOneEach
  <1> QED
    BY <1>2, <1>3, <1>4 DEF LedgerInv

LEMMA LedgerInvStep == TypeInv /\ LedgerInv /\ NextStep => LedgerInv'
  <1> SUFFICES ASSUME TypeInv, LedgerInv, NextStep PROVE LedgerInv'
    OBVIOUS
  <1>1. TypeOK /\ TypeOK'
    BY TypeStep DEF TypeInv
  <1>2. LedgerStep
    BY <1>1, LedgerSteps DEF LedgerInv
  <1> QED
    BY <1>1, <1>2, RecordingKeeps, WrittenKeeps, QuietKeeps, ApplyingKeeps, RestartKeeps
       DEF LedgerStep

LEMMA LedgerInit == Init => LedgerInv
  BY DEF Init, LedgerInv, OnTheWire, AllBacked, AllOneEach

LEMMA LedgerInvariant == Spec => [](TypeInv /\ LedgerInv)
  <1>1. TypeInv /\ LedgerInv /\ [Next]_vars => TypeInv' /\ LedgerInv'
    BY TypeStep, LedgerInvStep, Cases
  <1> QED
    BY <1>1, TypeInit, LedgerInit, PTL DEF Spec

(* What an entry says happened did happen, for any number of calls,        *)
(* restarts and entries that the ledger does not take (channel.ts:677-711).*)
THEOREM EntriesAreTrue == Spec => []EntriesTellTheTruth
  <1>1. LedgerInv => EntriesTellTheTruth
    BY DEF LedgerInv, AllBacked, Backed, EntryTrue, EntriesTellTheTruth, Recorded
  <1> QED
    BY <1>1, LedgerInvariant, PTL

(* Every call of this process that was answered left exactly one entry,    *)
(* and a call in flight none (channel.ts:5-9).                             *)
THEOREM EveryCallHasItsEntry == Spec => []OneEntryPerCall
  <1>1. TypeInv /\ LedgerInv => OneEntryPerCall
    <2> SUFFICES ASSUME TypeInv, LedgerInv, NEW c \in (bootedAt + 1)..Len(calls)
        PROVE  LET answer == calls[c].answer IN
               /\ Cardinality(EntriesOf(wal, c)) = (IF answer = "threw" THEN 1 ELSE 0)
               /\ Cardinality(EntriesOf(ledger, c))
                    = (IF answer \in {"waiting", "threw"} THEN 0 ELSE 1)
               /\ \A i \in EntriesOf(ledger, c) : ledger[i].outcome = answer
      BY DEF OneEntryPerCall
    <2>1. OneEach(c)
      BY DEF TypeInv, TypeOK, LedgerInv, AllOneEach
    <2> QED
      BY <2>1, FS_EmptySet, FS_Singleton DEF OneEach
  <1> QED
    BY <1>1, LedgerInvariant, PTL

(* The ledger and stderr hold all of the calls, and nothing but the truth  *)
(* about them (channel.ts:5-9, 677-711).                                   *)
THEOREM LedgerAlwaysFaithful == Spec => []LedgerIsFaithful
  BY EntriesAreTrue, EveryCallHasItsEntry, PTL DEF LedgerIsFaithful

-----------------------------------------------------------------------------
(* The breaker counts no more than the calls that failed since the last    *)
(* answer that resets it, each once.                                       *)
BreakerInv ==
  /\ breaker.failures <= Cardinality(FailedCalls)
  /\ breaker.state # "closed" => breaker.failures >= failureThreshold

LEMMA Counted ==
  ASSUME NEW n \in Nat, NEW F \in SUBSET (1..n)
  PROVE  IsFiniteSet(F) /\ Cardinality(F) \in Nat
  <1>1. IsFiniteSet(1..n)
    BY FS_Interval
  <1>2. IsFiniteSet(F)
    BY <1>1, FS_Subset
  <1> QED
    BY <1>2, FS_CardinalityType

LEMMA FailedAreCalls ==
  ASSUME TypeOK, LedgerInv
  PROVE  FailedCalls \subseteq DOMAIN calls /\ DOMAIN calls = 1..Len(calls) /\ Len(calls) \in Nat
  <1>1. \A e \in SinceReset : Backed(e)
    BY DEF LedgerInv, AllBacked, SinceReset, Unreset
  <1>2. FailedCalls \subseteq DOMAIN calls
    BY <1>1 DEF FailedCalls, Backed
  <1> QED
    BY <1>2 DEF TypeOK

(* What an entry does to the run of entries since the last reset: it joins *)
(* them, or ends the run, or, when only stderr has it, joins them anyway.   *)
LEMMA RunOfEntries ==
  ASSUME TypeOK, NEW e \in EntryType, NEW answer, Taken(e, answer)
  PROVE  /\ ~Resetting(e) => SinceReset' = SinceReset \cup {e}
         /\ Resetting(e) => SinceReset' \subseteq SinceReset \cup {e}
  <1>1. ledger \in Seq(EntryType) /\ wal \in Seq(EntryType)
    BY DEF TypeOK
  <1>2. CASE ledger' = Append(ledger, e) /\ wal' = wal
    <2> DEFINE n == Len(ledger) + 1
    <2>1. /\ DOMAIN ledger' = DOMAIN ledger \cup {n} /\ ledger'[n] = e
          /\ \A i \in DOMAIN ledger : ledger'[i] = ledger[i]
      BY <1>1, <1>2, AppendEntries
    <2>2. \A i \in DOMAIN ledger : i \in Nat /\ i < n
      BY <1>1
    <2>3. n \in Nat
      BY <1>1
    <2> HIDE DEF n
    <2>4. CASE ~Resetting(e)
      <3>1. Unreset' = Unreset \cup {n}
        BY <2>1, <2>2, <2>3, <2>4 DEF Unreset
      <3>2. Unreset \subseteq DOMAIN ledger
        BY DEF Unreset
      <3>3. {ledger'[i] : i \in Unreset'} = {ledger[i] : i \in Unreset} \cup {e}
        BY <2>1, <3>1, <3>2
      <3>4. {wal'[i] : i \in DOMAIN wal'} = {wal[i] : i \in DOMAIN wal}
        BY <1>2
      <3> QED
        BY <2>4, <3>3, <3>4, Zenon DEF SinceReset
    <2>5. CASE Resetting(e)
      <3>1. Unreset' = {}
        BY <2>1, <2>2, <2>3, <2>5 DEF Unreset
      <3> QED
        BY <1>2, <2>5, <3>1 DEF SinceReset
    <2> QED
      BY <2>4, <2>5
  <1>3. CASE wal' = Append(wal, e) /\ ledger' = ledger
    <2> DEFINE n == Len(wal) + 1
    <2>1. /\ DOMAIN wal' = DOMAIN wal \cup {n} /\ wal'[n] = e
          /\ \A i \in DOMAIN wal : wal'[i] = wal[i]
      BY <1>1, <1>3, AppendEntries
    <2> HIDE DEF n
    <2>2. {wal'[i] : i \in DOMAIN wal'} = {wal[i] : i \in DOMAIN wal} \cup {e}
      BY <2>1
    <2>3. {ledger'[i] : i \in Unreset'} = {ledger[i] : i \in Unreset}
      BY <1>3 DEF Unreset
    <2>4. SinceReset' = SinceReset \cup {e}
      BY <2>2, <2>3, Zenon DEF SinceReset
    <2> QED
      BY <2>4
  <1> QED
    BY <1>2, <1>3 DEF Taken

(* A call that is recorded was not counted before; an answer that resets   *)
(* the breaker only takes calls out of the count.                          *)
LEMMA RecordingCounts ==
  ASSUME TypeOK, LedgerInv, NEW c \in Nat, NEW e \in EntryType, NEW answer \in Answers,
         Answered(c, e, answer)
  PROVE  /\ c \notin FailedCalls
         /\ ~Failing(e) => FailedCalls' \subseteq FailedCalls
         /\ ~Resetting(e) => FailedCalls' = FailedCalls \cup (IF Failing(e) THEN {c} ELSE {})
  <1>1. /\ e.call = c /\ Taken(e, answer) /\ bootedAt' = bootedAt
        /\ c \in DOMAIN calls => calls[c].answer = "waiting"
        /\ c \notin DOMAIN calls => c = Len(calls) + 1
    BY DEF Answered
  <1>2. EntriesOf(ledger, c) = {} /\ EntriesOf(wal, c) = {}
    BY <1>1, NoEntryYet DEF LedgerInv
  <1>3. c \notin FailedCalls
    BY <1>2 DEF FailedCalls, SinceReset, Unreset, EntriesOf
  <1>4. c > bootedAt
    BY <1>1 DEF LedgerInv, OnTheWire, TypeOK
  <1>5. /\ ~Resetting(e) => SinceReset' = SinceReset \cup {e}
        /\ Resetting(e) => SinceReset' \subseteq SinceReset \cup {e}
    BY <1>1, RunOfEntries
  <1>6. ASSUME ~Failing(e) PROVE FailedCalls' \subseteq FailedCalls
    <2>1. SinceReset' \subseteq SinceReset \cup {e}
      BY <1>5
    <2> QED
      BY <1>1, <1>6, <2>1 DEF FailedCalls, Failing
  <1>7. ASSUME ~Resetting(e)
        PROVE  FailedCalls' = FailedCalls \cup (IF Failing(e) THEN {c} ELSE {})
    <2>1. SinceReset' = SinceReset \cup {e}
      BY <1>5, <1>7
    <2> QED
      BY <1>1, <1>4, <2>1 DEF FailedCalls, Failing
  <1> QED
    BY <1>3, <1>6, <1>7

LEMMA RecordingBreaks ==
  ASSUME TypeOK, LedgerInv, BreakerInv, Recording
  PROVE  BreakerInv'
  <1>1. PICK c \in Nat, e \in EntryType, answer \in Answers : Answered(c, e, answer)
    BY DEF Recording
  <1> DEFINE n == Cardinality(FailedCalls)
             m == Cardinality(FailedCalls')
  <1>2. /\ c \notin FailedCalls
        /\ ~Failing(e) => FailedCalls' \subseteq FailedCalls
        /\ ~Resetting(e) => FailedCalls' = FailedCalls \cup (IF Failing(e) THEN {c} ELSE {})
        /\ BreakerSteps(e)
    BY <1>1, RecordingCounts DEF Answered
  <1>3. IsFiniteSet(FailedCalls) /\ n \in Nat
    BY FailedAreCalls, Counted
  <1>4. ASSUME ~Resetting(e), Failing(e) PROVE m = n + 1
    <2>1. FailedCalls' = FailedCalls \cup {c}
      BY <1>2, <1>4
    <2> QED
      BY <1>2, <1>3, <2>1, FS_AddElement
  <1>5. ASSUME ~Resetting(e), ~Failing(e) PROVE m = n
    <2>1. FailedCalls' = FailedCalls
      BY <1>2, <1>5
    <2> QED
      BY <2>1
  <1>6. ASSUME ~Failing(e) PROVE m \in Nat
    <2>1. IsFiniteSet(FailedCalls')
      BY <1>2, <1>3, <1>6, FS_Subset
    <2> QED
      BY <2>1, FS_CardinalityType
  <1> HIDE DEF n, m
  <1>7. /\ breaker \in BreakerType /\ breaker.failures \in Nat
        /\ failureThreshold \in Nat
        /\ breaker.failures <= n
        /\ breaker.state # "closed" => breaker.failures >= failureThreshold
    BY OperatorConstants DEF TypeOK, BreakerInv, BreakerType, n
  <1>8. CASE breaker' = breaker /\ ~Failing(e) /\ ~Resetting(e)
    BY <1>5, <1>7, <1>8 DEF BreakerInv, m
  <1>9. CASE breaker' = Closed /\ ~Failing(e)
    BY <1>6, <1>9 DEF BreakerInv, Closed, m
  <1>10. CASE breaker' = recordFailure(breaker) /\ Failing(e) /\ ~Resetting(e)
    <2>1. /\ breaker'.failures <= breaker.failures + 1
          /\ breaker'.state # "closed" => breaker'.failures >= failureThreshold
          /\ breaker'.failures \in Nat
      BY <1>7, <1>10 DEF recordFailure, BreakerType
    <2>2. breaker'.failures <= m
      BY <1>3, <1>4, <1>7, <1>10, <2>1
    <2> QED
      BY <2>1, <2>2 DEF BreakerInv, m
  <1> QED
    BY <1>2, <1>8, <1>9, <1>10 DEF BreakerSteps

LEMMA BreakerStep == TypeInv /\ LedgerInv /\ BreakerInv /\ NextStep => BreakerInv'
  <1> SUFFICES ASSUME TypeInv, LedgerInv, BreakerInv, NextStep PROVE BreakerInv'
    OBVIOUS
  <1>1. TypeOK /\ LedgerStep
    BY LedgerSteps DEF TypeInv, LedgerInv
  <1>2. CASE Recording
    BY <1>1, <1>2, RecordingBreaks
  <1>3. ASSUME UNCHANGED <<ledger, wal, bootedAt>> PROVE FailedCalls' = FailedCalls
    BY <1>3 DEF FailedCalls, SinceReset, Unreset
  <1>4. CASE Written
    BY <1>3, <1>4 DEF Written, BreakerInv
  <1>5. CASE Quiet
    BY <1>3, <1>5 DEF Quiet, BreakerInv
  <1>6. ASSUME NEW c \in DOMAIN calls, WarmblyApplies(c) PROVE BreakerInv'
    BY <1>3, <1>6 DEF WarmblyApplies, BreakerInv
  <1>7. CASE Restart
    <2>1. /\ ledger' = <<>> /\ wal' = wal /\ breaker' = Closed
          /\ bootedAt' = Len(calls) /\ DOMAIN calls = 1..Len(calls)
      BY <1>1, <1>7 DEF Restart, TypeOK
    <2>2. \A e \in SinceReset' : e \in {wal[i] : i \in DOMAIN wal}
      BY <2>1 DEF SinceReset, Unreset
    <2>3. \A i \in DOMAIN wal : wal[i].call \in 1..Len(calls)
      BY <2>1 DEF LedgerInv, AllBacked, Backed
    <2>4. Len(calls) \in Nat
      BY <1>1 DEF TypeOK
    <2>5. \A e \in SinceReset' : ~(e.call > Len(calls))
      BY <2>2, <2>3, <2>4
    <2>6. FailedCalls' = {}
      BY <2>1, <2>5 DEF FailedCalls
    <2> QED
      BY <2>1, <2>6, FS_EmptySet DEF BreakerInv, Closed
  <1> QED
    BY <1>1, <1>2, <1>4, <1>5, <1>6, <1>7 DEF LedgerStep

(* The breaker is open or half open only after failureThreshold calls of   *)
(* this process failed with no answer that resets it in the ledger between *)
(* them, for any threshold (client.ts:268-274).                            *)
THEOREM BreakerHasCause == Spec => []OpenBreakerHasCause
  <1>1. Init => BreakerInv
    <2> SUFFICES ASSUME Init PROVE BreakerInv
      OBVIOUS
    <2>1. SinceReset = {}
      BY DEF Init, SinceReset, Unreset
    <2>2. FailedCalls = {}
      BY <2>1 DEF FailedCalls
    <2> QED
      BY <2>2, FS_EmptySet DEF Init, BreakerInv, Closed
  <1>2. TypeInv /\ LedgerInv /\ BreakerInv /\ [Next]_vars => BreakerInv'
    BY BreakerStep, Cases
  <1>3. TypeInv /\ LedgerInv /\ BreakerInv => OpenBreakerHasCause
    <2> SUFFICES ASSUME TypeInv, LedgerInv, BreakerInv, breaker.state # "closed"
        PROVE  Cardinality(FailedCalls) >= failureThreshold
      BY DEF OpenBreakerHasCause
    <2>1. Cardinality(FailedCalls) \in Nat
      BY FailedAreCalls, Counted DEF TypeInv
    <2>2. breaker.failures \in Nat /\ failureThreshold \in Nat
      BY OperatorConstants DEF TypeInv, TypeOK
    <2> QED
      BY <2>1, <2>2 DEF BreakerInv
  <1> QED
    BY <1>1, <1>2, <1>3, LedgerInvariant, PTL DEF Spec

-----------------------------------------------------------------------------
(* The kill switch.  When a written call found no resume in doubt, no      *)
(* older resume can still be applied; and a pause that was applied holds   *)
(* while no later resume is written.                                       *)
NothingPending ==
  \A p, r \in DOMAIN calls :
    /\ r < p /\ calls[p].wire # "none" /\ ~calls[p].doubt
    /\ calls[r].action = "resume_dispatch"
    => calls[r].wire # "sent"

NoneWrittenAfter(p) ==
  \A r \in DOMAIN calls :
    r > p /\ calls[r].action = "resume_dispatch" => calls[r].wire = "none"

PauseHolds ==
  \A p \in DOMAIN calls :
    /\ calls[p].action = "pause_dispatch" /\ calls[p].wire = "applied" /\ ~calls[p].doubt
    /\ NoneWrittenAfter(p)
    => dispatch = "paused"

PauseInv == NothingPending /\ PauseHolds

LEMMA SettlingKeepsPause ==
  ASSUME PauseInv, WiresSettle, dispatch' = dispatch
  PROVE  PauseInv'
  <1>1. /\ DOMAIN calls \subseteq DOMAIN calls'
        /\ \A d \in DOMAIN calls :
             /\ calls'[d].action = calls[d].action /\ calls'[d].doubt = calls[d].doubt
             /\ calls'[d].wire \in {calls[d].wire, "rejected", "never"}
             /\ calls'[d].wire = "none" <=> calls[d].wire = "none"
        /\ \A d \in DOMAIN calls' : d \notin DOMAIN calls => calls'[d].wire = "none"
    BY DEF WiresSettle
  <1>2. NothingPending'
    BY <1>1 DEF PauseInv, NothingPending
  <1>3. PauseHolds'
    <2> SUFFICES ASSUME NEW p \in DOMAIN calls',
                        calls'[p].action = "pause_dispatch", calls'[p].wire = "applied",
                        ~calls'[p].doubt, NoneWrittenAfter(p)'
        PROVE  dispatch = "paused"
      BY DEF PauseHolds
    <2>1. /\ p \in DOMAIN calls /\ calls[p].action = "pause_dispatch"
          /\ calls[p].wire = "applied" /\ ~calls[p].doubt
      BY <1>1
    <2>2. NoneWrittenAfter(p)
      BY <1>1 DEF NoneWrittenAfter
    <2> QED
      BY <2>1, <2>2 DEF PauseInv, PauseHolds
  <1> QED
    BY <1>2, <1>3 DEF PauseInv

LEMMA WritingKeepsPause ==
  ASSUME TypeOK, PauseInv, Written
  PROVE  PauseInv'
  <1> DEFINE n == Len(calls) + 1
  <1>1. Len(calls) \in Nat /\ DOMAIN calls = 1..Len(calls)
    BY DEF TypeOK
  <1>2. /\ DOMAIN calls' = DOMAIN calls \cup {n} /\ dispatch' = dispatch
        /\ \A d \in DOMAIN calls : calls'[d] = calls[d]
        /\ calls'[n].wire = "sent" /\ calls'[n].doubt = ResumeInDoubt
    BY DEF Written
  <1>3. \A d \in DOMAIN calls : d < n /\ d # n
    BY <1>1
  <1>4. NothingPending'
    <2> SUFFICES ASSUME NEW p \in DOMAIN calls', NEW r \in DOMAIN calls',
                        r < p, calls'[p].wire # "none", ~calls'[p].doubt,
                        calls'[r].action = "resume_dispatch"
        PROVE  calls'[r].wire # "sent"
      BY DEF NothingPending
    <2>1. r \in DOMAIN calls
      BY <1>1, <1>2
    <2>2. CASE p = n
      BY <1>2, <2>1, <2>2 DEF ResumeInDoubt
    <2>3. CASE p # n
      BY <1>2, <2>1, <2>3 DEF PauseInv, NothingPending
    <2> QED
      BY <2>2, <2>3
  <1>5. PauseHolds'
    <2> SUFFICES ASSUME NEW p \in DOMAIN calls',
                        calls'[p].action = "pause_dispatch", calls'[p].wire = "applied",
                        ~calls'[p].doubt, NoneWrittenAfter(p)'
        PROVE  dispatch = "paused"
      BY <1>2 DEF PauseHolds
    <2>1. p \in DOMAIN calls /\ calls'[p] = calls[p]
      BY <1>2
    <2>2. NoneWrittenAfter(p)
      BY <1>2 DEF NoneWrittenAfter
    <2> QED
      BY <2>1, <2>2 DEF PauseInv, PauseHolds
  <1> QED
    BY <1>4, <1>5 DEF PauseInv

LEMMA ApplyingKeepsPause ==
  ASSUME TypeOK, PauseInv, NEW c \in DOMAIN calls, WarmblyApplies(c)
  PROVE  PauseInv'
  <1>1. calls \in Seq(CallType) /\ calls[c] \in CallType /\ calls[c].wire = "sent"
    BY DEF WarmblyApplies, TypeOK
  <1> DEFINE new == [calls[c] EXCEPT !.wire = "applied"]
  <1>2. /\ new.wire = "applied" /\ new.action = calls[c].action /\ new.doubt = calls[c].doubt
    BY <1>1 DEF CallType
  <1>3. calls' = [calls EXCEPT ![c] = new]
    BY <1>1 DEF WarmblyApplies
  <1> HIDE DEF new
  <1>4. /\ DOMAIN calls' = DOMAIN calls /\ DOMAIN calls = 1..Len(calls) /\ Len(calls) \in Nat
        /\ \A d \in DOMAIN calls : /\ calls'[d].action = calls[d].action
                                   /\ calls'[d].doubt = calls[d].doubt
                                   /\ d # c => calls'[d].wire = calls[d].wire
        /\ calls'[c].wire = "applied"
    BY <1>1, <1>2, <1>3
  <1>5. NothingPending'
    BY <1>1, <1>4 DEF PauseInv, NothingPending
  <1>6. PauseHolds'
    <2> SUFFICES ASSUME NEW p \in DOMAIN calls,
                        calls[p].action = "pause_dispatch", calls'[p].wire = "applied",
                        ~calls[p].doubt, NoneWrittenAfter(p)'
        PROVE  dispatch' = "paused"
      BY <1>4 DEF PauseHolds
    <2>1. CASE calls[c].action = "pause_dispatch"
      BY <2>1 DEF WarmblyApplies
    <2>2. CASE calls[c].action = "resume_dispatch"
      <3>1. c # p /\ ~(c > p)
        BY <1>4, <2>2 DEF NoneWrittenAfter
      <3>2. c < p
        BY <1>4, <3>1
      <3> QED
        BY <1>1, <1>4, <2>2, <3>2 DEF PauseInv, NothingPending
    <2>3. CASE calls[c].action \notin {"pause_dispatch", "resume_dispatch"}
      <3>1. dispatch' = dispatch /\ p # c
        BY <2>3 DEF WarmblyApplies
      <3>2. calls[p].wire = "applied"
        BY <1>4, <3>1
      <3>3. NoneWrittenAfter(p)
        BY <1>4, <2>3 DEF NoneWrittenAfter
      <3> QED
        BY <3>1, <3>2, <3>3 DEF PauseInv, PauseHolds
    <2> QED
      BY <2>1, <2>2, <2>3
  <1> QED
    BY <1>5, <1>6 DEF PauseInv

LEMMA PauseStep == TypeInv /\ LedgerInv /\ PauseInv /\ NextStep => PauseInv'
  <1> SUFFICES ASSUME TypeInv, LedgerInv, PauseInv, NextStep PROVE PauseInv'
    OBVIOUS
  <1>1. TypeOK /\ LedgerStep
    BY LedgerSteps DEF TypeInv, LedgerInv
  <1>2. CASE Recording
    BY <1>2, SettlingKeepsPause DEF Recording, Answered
  <1>3. CASE Written
    BY <1>1, <1>3, WritingKeepsPause
  <1>4. CASE Quiet
    BY <1>4 DEF Quiet, PauseInv, NothingPending, PauseHolds, NoneWrittenAfter
  <1>5. ASSUME NEW c \in DOMAIN calls, WarmblyApplies(c) PROVE PauseInv'
    BY <1>1, <1>5, ApplyingKeepsPause
  <1>6. CASE Restart
    <2>1. WiresSettle
      BY <1>1, <1>6, RestartCalls DEF WiresSettle
    <2> QED
      BY <1>6, <2>1, SettlingKeepsPause DEF Restart
  <1> QED
    BY <1>1, <1>2, <1>3, <1>4, <1>5, <1>6 DEF LedgerStep

(* A founder who was told that his pause was executed, with no resume in   *)
(* doubt before it and none written since, finds Warmbly paused, however   *)
(* late a POST is applied and however often the process restarts           *)
(* (channel.ts:677-711, client.ts:236-237).                                *)
THEOREM PausesHold == Spec => []PausedUnlessInDoubt
  <1>1. Init => PauseInv
    BY DEF Init, PauseInv, NothingPending, PauseHolds
  <1>2. TypeInv /\ LedgerInv /\ PauseInv /\ [Next]_vars => PauseInv'
    BY PauseStep, Cases
  <1>3. TypeInv /\ LedgerInv /\ PauseInv => PausedUnlessInDoubt
    <2> SUFFICES ASSUME TypeInv, LedgerInv, PauseInv, NEW p \in DOMAIN calls,
                        calls[p].action = "pause_dispatch", calls[p].answer = "executed",
                        ~calls[p].doubt,
                        \A r \in (p + 1)..Len(calls) :
                          calls[r].action = "resume_dispatch" => calls[r].wire = "none"
        PROVE  dispatch = "paused"
      BY DEF PausedUnlessInDoubt
    <2>1. DOMAIN calls = 1..Len(calls) /\ Len(calls) \in Nat
      BY DEF TypeInv, TypeOK
    <2>2. NoneWrittenAfter(p)
      BY <2>1 DEF NoneWrittenAfter
    <2>3. calls[p].wire = "applied"
      BY DEF LedgerInv, OnTheWire
    <2> QED
      BY <2>2, <2>3 DEF PauseInv, PauseHolds
  <1> QED
    BY <1>1, <1>2, <1>3, LedgerInvariant, PTL DEF Spec

-----------------------------------------------------------------------------
(* The refinement.  A request that passes the gate is a decision of a      *)
(* founder.                                                                *)
LEMMA PassedType ==
  ASSUME NEW r \in AnyRequest, prepare(r) = "passed"
  PROVE  /\ r.actor \in Actors /\ r.reason \in Reasons \cup {NoReason}
         /\ r.op \in {"confirm", "execute"} /\ r.action \in Actions
         /\ r.action # "acknowledge_inbound_alert" => r.reason \in Reasons
  <1>1. ValidReason(r)
    BY DEF prepare
  <1>2. r.reason \in Reasons \cup {NoReason}
    BY <1>1 DEF ValidReason, AnyRequest
  <1> QED
    BY <1>2, PrepareType DEF AnyRequest

(* A new call is at most one more decision on the wire.                    *)
LEMMA OneMoreDecided ==
  ASSUME TypeInv, OnTheWire', NEW r \in AnyRequest, NEW spent \in Nat,
         NEW wire \in {"none", "sent"}, OneMore(r, spent, wire)
  PROVE  /\ Len(calls') = Len(calls) + 1
         /\ Decided("sent")' \in
              {Decided("sent"),
               Decided("sent") \cup {[number |-> Len(calls) + 1, action |-> r.action,
                                      actor |-> r.actor, reason |-> r.reason]}}
         /\ wire = "none" => Decided("sent")' = Decided("sent")
         /\ Decided("applied")' = Decided("applied")
         /\ ToldExecuted' = ToldExecuted
  <1>0. PICK n : n = Len(calls) + 1
    OBVIOUS
  <1>1. /\ Len(calls) \in Nat /\ DOMAIN calls = 1..Len(calls)
        /\ Len(calls') = n /\ DOMAIN calls' = 1..n
        /\ \A c \in 1..Len(calls) : calls'[c] = calls[c]
    BY <1>0, OneMoreCalls
  <1>2. /\ calls'[n].action = r.action /\ calls'[n].actor = r.actor
        /\ calls'[n].reason = r.reason /\ calls'[n].wire = wire
    BY <1>0, OneMoreCalls
  <1>3. DOMAIN calls' = DOMAIN calls \cup {n} /\ n \notin DOMAIN calls
    BY <1>0, <1>1
  <1>4. \A c \in DOMAIN calls : calls'[c] = calls[c] /\ Decision(c)' = Decision(c)
    BY <1>1 DEF Decision
  <1>5. Decision(n)' = [number |-> n, action |-> r.action, actor |-> r.actor,
                        reason |-> r.reason]
    BY <1>2 DEF Decision
  <1>6. calls'[n].answer # "executed"
    BY <1>2, <1>3 DEF OnTheWire
  <1>7. \A w : Decided(w)' = IF w = wire THEN Decided(w) \cup {Decision(n)'} ELSE Decided(w)
    BY <1>2, <1>3, <1>4 DEF Decided
  <1>8. ToldExecuted' = ToldExecuted
    BY <1>3, <1>4, <1>6 DEF ToldExecuted
  <1> QED
    BY <1>0, <1>1, <1>5, <1>7, <1>8

LEMMA RefusalRefuses ==
  ASSUME TypeInv, OnTheWire', NEW r \in AnyRequest, Refusal(r), dispatch' = dispatch
  PROVE  Kill!Next
  <1>1. Kill!Refuse
    BY OneMoreDecided DEF Refusal, Kill!Refuse
  <1> QED
    BY <1>1 DEF Kill!Next

LEMMA ChallengeAsks ==
  ASSUME TypeInv, OnTheWire', NEW r \in AnyRequest, Challenge(r), dispatch' = dispatch
  PROVE  Kill!Next
  <1>1. r.actor \in Actors /\ r.reason \in Reasons
    BY PassedType DEF Challenge
  <1>2. invalidate({r.actor}) = Kill!OfOthers(r.actor)
    BY DEF invalidate, Kill!OfOthers
  <1>3. Kill!Ask(r.actor, r.reason)
    BY <1>2, OneMoreDecided DEF Challenge, Kill!Ask
  <1> QED
    BY <1>1, <1>3 DEF Kill!Next

LEMMA InterventionDecides ==
  ASSUME TypeInv, OnTheWire', NEW r \in AnyRequest, Intervention(r), dispatch' = dispatch
  PROVE  Kill!Next
  <1>1. /\ r.actor \in Actors /\ r.reason \in Reasons \cup {NoReason}
        /\ r.action \in {"pause_dispatch", "acknowledge_inbound_alert"}
        /\ r.action = "pause_dispatch" => r.reason \in Reasons
    BY PassedType DEF Intervention, Actions
  <1>2. Kill!Decide(r.action, r.actor, r.reason)
    BY OneMoreDecided DEF Intervention, Kill!Decide
  <1>3. CASE r.action = "pause_dispatch"
    <2>1. challenges' = {}
      BY <1>3 DEF Intervention, invalidate, TypeInv, TypeOK
    <2>2. Kill!Pause(r.actor, r.reason)
      BY <1>2, <1>3, <2>1 DEF Kill!Pause
    <2> QED
      BY <1>1, <1>3, <2>2 DEF Kill!Next
  <1>4. CASE r.action = "acknowledge_inbound_alert"
    <2>1. challenges' = Kill!OfOthers(r.actor)
      BY <1>4 DEF Intervention, invalidate, Kill!OfOthers
    <2>2. Kill!Acknowledge(r.actor, r.reason)
      BY <1>2, <1>4, <2>1 DEF Kill!Acknowledge
    <2> QED
      BY <1>1, <2>2 DEF Kill!Next
  <1> QED
    BY <1>1, <1>3, <1>4

(* A token that matches is one word: of this founder, for this reason.     *)
LEMMA ReleaseReleases ==
  ASSUME TypeInv, OnTheWire', NEW r \in AnyRequest, NEW t \in Nat, Release(r, t),
         dispatch' = dispatch
  PROVE  Kill!Next
  <1>1. PICK k \in challenges : k.token = t /\ k.actor_id = r.actor /\ k.reason = r.reason
    BY DEF Release, Matching
  <1>2. Matching(r, t) = {k}
    <2>1. challenges \subseteq [token: Nat, actor_id: Actors, reason: Reasons]
      BY DEF TypeInv, TypeOK
    <2> QED
      BY <1>1, <2>1 DEF Matching
  <1>3. Kill!Decide("resume_dispatch", r.actor, r.reason)
    BY OneMoreDecided DEF Release, Kill!Decide
  <1>4. Kill!Release(k)
    BY <1>1, <1>2, <1>3 DEF Release, Kill!Release
  <1> QED
    BY <1>4 DEF Kill!Next

LEMMA RequestsDecide ==
  ASSUME TypeInv, OnTheWire', NEW r \in Requests
  PROVE  /\ requestConfirmation(r) => Kill!Next
         /\ \A t \in Tokens(r) : execute(r, t) => Kill!Next
  <1>1. r \in AnyRequest /\ TypeOK
    BY OperatorConstants DEF TypeInv
  <1>2. ASSUME requestConfirmation(r) PROVE Kill!Next
    <2>1. (Refusal(r) \/ Challenge(r)) /\ dispatch' = dispatch
      BY <1>1, <1>2, ConfirmationSteps DEF requestConfirmation
    <2> QED
      BY <1>1, <2>1, RefusalRefuses, ChallengeAsks
  <1>3. ASSUME NEW t \in Tokens(r), execute(r, t) PROVE Kill!Next
    <2>1. (Refusal(r) \/ Intervention(r) \/ Release(r, t)) /\ dispatch' = dispatch
      BY <1>1, <1>3, ExecuteSteps DEF execute
    <2>2. t \in Nat
      BY <1>1 DEF Tokens, TokensHeld, TypeOK
    <2> QED
      BY <1>1, <2>1, <2>2, RefusalRefuses, InterventionDecides, ReleaseReleases
  <1> QED
    BY <1>2, <1>3

(* A step that moves the wire or the answer of call c only.                *)
Moves(c, wire, answer) ==
  /\ DOMAIN calls' = DOMAIN calls /\ Len(calls') = Len(calls)
  /\ \A d \in DOMAIN calls :
       /\ Decision(d)' = Decision(d)
       /\ calls'[d].wire = IF d = c THEN wire ELSE calls[d].wire
       /\ calls'[d].answer = IF d = c THEN answer ELSE calls[d].answer

LEMMA MovesDecided ==
  ASSUME NEW c \in DOMAIN calls, NEW wire, NEW answer, Moves(c, wire, answer),
         calls[c].answer # "executed"
  PROVE  /\ \A w : Decided(w)' =
              IF w = wire THEN Decided(w) \cup {Decision(c)} ELSE Decided(w) \ {Decision(c)}
         /\ ToldExecuted' = IF answer = "executed" THEN ToldExecuted \cup {c} ELSE ToldExecuted
  <1>1. \A d \in DOMAIN calls : Decision(d) = Decision(c) => d = c
    BY DEF Decision
  <1>2. ASSUME NEW w
        PROVE  Decided(w)' =
                 IF w = wire THEN Decided(w) \cup {Decision(c)} ELSE Decided(w) \ {Decision(c)}
    <2>1. Decided(w)' = {Decision(d) : d \in {n \in DOMAIN calls : calls'[n].wire = w}}
      BY DEF Decided, Moves
    <2>2. CASE w = wire
      BY <2>1, <2>2 DEF Decided, Moves
    <2>3. CASE w # wire
      BY <1>1, <2>1, <2>3 DEF Decided, Moves
    <2> QED
      BY <2>2, <2>3
  <1>3. ToldExecuted' = IF answer = "executed" THEN ToldExecuted \cup {c} ELSE ToldExecuted
    BY DEF ToldExecuted, Moves
  <1> QED
    BY <1>2, <1>3

LEMMA SettleMoves ==
  ASSUME TypeOK, NEW c \in DOMAIN calls, NEW wire, NEW answer,
         calls' = [calls EXCEPT ![c].wire = wire, ![c].answer = answer]
  PROVE  Moves(c, wire, answer)
  <1> DEFINE new == [calls[c] EXCEPT !.wire = wire, !.answer = answer]
  <1>1. calls \in Seq(CallType) /\ calls[c] \in CallType
    BY DEF TypeOK
  <1>2. calls' = [calls EXCEPT ![c] = new]
    BY <1>1
  <1>3. /\ new.wire = wire /\ new.answer = answer
        /\ new.action = calls[c].action /\ new.actor = calls[c].actor
        /\ new.reason = calls[c].reason
    BY <1>1 DEF CallType
  <1> HIDE DEF new
  <1>4. /\ DOMAIN calls' = DOMAIN calls /\ Len(calls') = Len(calls)
        /\ \A d \in DOMAIN calls : calls'[d] = IF d = c THEN new ELSE calls[d]
    BY <1>1, <1>2
  <1> QED
    BY <1>3, <1>4 DEF Moves, Decision

(* An answer, or none: the call keeps its wire and nobody is told, it was  *)
(* applied and is reported, or it was on the wire and vanishes from it.    *)
LEMMA SettlesDecision ==
  ASSUME TypeOK, NEW c \in DOMAIN calls, calls[c].answer = "waiting",
         NEW wire, NEW outcome, NEW code, NEW status,
         settle(c, wire, outcome, code, status),
         \/ outcome # "executed" /\ wire = calls[c].wire
         \/ outcome = "executed" /\ wire = calls[c].wire /\ wire = "applied"
         \/ outcome # "executed" /\ calls[c].wire = "sent" /\ wire \in {"rejected", "never"},
         UNCHANGED <<challenges, dispatch>>
  PROVE  Kill!Next \/ UNCHANGED Kill!vars
  <1>1. PICK answer \in {outcome, "threw"} :
          calls' = [calls EXCEPT ![c].wire = wire, ![c].answer = answer]
    BY DEF settle
  <1>2. Moves(c, wire, answer) /\ Len(calls') = Len(calls)
    <2>1. Moves(c, wire, answer)
      BY <1>1, SettleMoves
    <2> QED
      BY <2>1 DEF Moves
  <1>3. /\ \A w : Decided(w)' =
             IF w = wire THEN Decided(w) \cup {Decision(c)} ELSE Decided(w) \ {Decision(c)}
        /\ ToldExecuted' = IF answer = "executed" THEN ToldExecuted \cup {c} ELSE ToldExecuted
    BY <1>2, MovesDecided
  <1>4. Decision(c) \in Decided(calls[c].wire)
    BY DEF Decided
  <1>5. \A w : Decision(c) \in Decided(w) => w = calls[c].wire
    BY DEF Decided, Decision
  <1>6. CASE wire = calls[c].wire
    <2>1. Decided("sent")' = Decided("sent") /\ Decided("applied")' = Decided("applied")
      BY <1>3, <1>4, <1>5, <1>6
    <2>2. CASE answer # "executed"
      BY <1>2, <1>3, <2>1, <2>2 DEF Kill!vars
    <2>3. CASE answer = "executed"
      <3>1. Decision(c) \in Decided("applied") /\ Decision(c).number = c
        BY <1>1, <1>4, <1>6, <2>3 DEF Decision
      <3>2. Kill!Report(Decision(c))
        BY <1>2, <1>3, <2>1, <2>3, <3>1 DEF Kill!Report
      <3> QED
        BY <3>1, <3>2 DEF Kill!Next
    <2> QED
      BY <2>2, <2>3
  <1>7. CASE wire # calls[c].wire
    <2>1. outcome # "executed" /\ calls[c].wire = "sent" /\ wire \in {"rejected", "never"}
      BY <1>7
    <2>2. /\ Decision(c) \in Decided("sent") /\ Decision(c) \notin Decided("applied")
          /\ answer # "executed"
      BY <1>1, <1>4, <1>5, <2>1
    <2>3. /\ Decided("sent")' = Decided("sent") \ {Decision(c)}
          /\ Decided("applied")' = Decided("applied") /\ ToldExecuted' = ToldExecuted
      BY <1>3, <2>1, <2>2
    <2>4. Kill!Vanish(Decision(c))
      BY <1>2, <2>3 DEF Kill!Vanish
    <2> QED
      BY <2>2, <2>4 DEF Kill!Next
  <1> QED
    BY <1>6, <1>7

LEMMA ApplyingTakesEffect ==
  ASSUME TypeOK, OnTheWire, NEW c \in DOMAIN calls, WarmblyApplies(c)
  PROVE  Kill!Next
  <1>1. /\ calls[c].wire = "sent" /\ calls[c].answer # "executed"
        /\ calls' = [calls EXCEPT ![c].wire = "applied"]
    BY DEF WarmblyApplies, OnTheWire
  <1>2. calls' = [calls EXCEPT ![c].wire = "applied", ![c].answer = calls[c].answer]
    <2>1. calls[c] \in CallType /\ calls \in Seq(CallType)
      BY DEF TypeOK
    <2>2. [calls[c] EXCEPT !.wire = "applied"]
            = [calls[c] EXCEPT !.wire = "applied", !.answer = calls[c].answer]
      BY <2>1 DEF CallType
    <2> QED
      BY <1>1, <2>1, <2>2
  <1>3. Moves(c, "applied", calls[c].answer) /\ Len(calls') = Len(calls)
    <2>1. Moves(c, "applied", calls[c].answer)
      BY <1>2, SettleMoves
    <2> QED
      BY <2>1 DEF Moves
  <1>4. /\ Decided("sent")' = Decided("sent") \ {Decision(c)}
        /\ Decided("applied")' = Decided("applied") \cup {Decision(c)}
        /\ ToldExecuted' = ToldExecuted
    BY <1>1, <1>3, MovesDecided
  <1>5. Decision(c) \in Decided("sent") /\ Decision(c).action = calls[c].action
    BY <1>1 DEF Decided, Decision
  <1>6. Kill!TakesEffect(Decision(c))
    BY <1>3, <1>4, <1>5 DEF WarmblyApplies, Kill!TakesEffect
  <1> QED
    BY <1>5, <1>6 DEF Kill!Next

LEMMA RestartForgets ==
  ASSUME TypeOK, SameDecisions, Restart
  PROVE  Kill!Next
  <1>1. /\ DOMAIN calls' = DOMAIN calls /\ Len(calls') = Len(calls)
        /\ \A d \in DOMAIN calls :
             /\ calls'[d].wire = calls[d].wire
             /\ calls'[d].answer = "executed" <=> calls[d].answer = "executed"
    BY RestartCalls
  <1>2. \A d \in DOMAIN calls : Decision(d)' = Decision(d)
    BY DEF SameDecisions, Decision
  <1>3. \A w : Decided(w)' = Decided(w)
    BY <1>1, <1>2 DEF Decided
  <1>4. ToldExecuted' = ToldExecuted
    BY <1>1 DEF ToldExecuted
  <1>5. Kill!Forget
    BY <1>1, <1>3, <1>4 DEF Restart, Kill!Forget
  <1> QED
    BY <1>5 DEF Kill!Next

LEMMA KillSwitchStep ==
  ASSUME TypeInv, LedgerInv, NextStep
  PROVE  [Kill!Next]_(Kill!vars)
  <1>1. TypeOK /\ OnTheWire /\ OnTheWire'
    BY LedgerInvStep DEF TypeInv, LedgerInv
  <1>2. ASSUME NEW r \in Requests,
               requestConfirmation(r) \/ \E t \in Tokens(r) : execute(r, t)
        PROVE  Kill!Next
    BY <1>1, <1>2, RequestsDecide
  <1>3. ASSUME NEW k \in challenges, Expire(k) PROVE Kill!Next
    <2>1. Kill!Forget
      BY <1>3 DEF Expire, Kill!Forget, Decided, Decision, ToldExecuted
    <2> QED
      BY <2>1 DEF Kill!Next
  <1>4. ASSUME CoolDown \/ UNCHANGED vars PROVE UNCHANGED Kill!vars
    BY <1>4 DEF CoolDown, vars, Kill!vars, Decided, Decision, ToldExecuted
  <1>5. ASSUME NEW c \in DOMAIN calls, WarmblyApplies(c) PROVE Kill!Next
    BY <1>1, <1>5, ApplyingTakesEffect
  <1>6. ASSUME NEW c \in DOMAIN calls, NEW status \in Statuses, response(c, status)
        PROVE  Kill!Next \/ UNCHANGED Kill!vars
    <2>1. /\ calls[c].answer = "waiting" /\ calls[c].wire \in {"sent", "applied"}
          /\ UNCHANGED <<challenges, dispatch>>
      BY <1>1, <1>6 DEF response, OnTheWire
    <2>2. CASE status = "2xx"
      <3>1. calls[c].wire = "applied"
        BY <1>6, <2>1, <2>2 DEF response, PossibleStatus
      <3>2. settle(c, calls[c].wire, "executed", "none", status)
        BY <1>6, <2>2 DEF response
      <3> QED
        BY <1>1, <2>1, <3>1, <3>2, SettlesDecision
    <2>3. CASE status # "2xx"
      <3> DEFINE wire == WireAfter(calls[c].wire, status)
      <3>1. settle(c, wire, "refused", "upstream_error", status)
        BY <1>6, <2>3 DEF response
      <3>2. wire = calls[c].wire \/ (calls[c].wire = "sent" /\ wire \in {"rejected", "never"})
        BY <1>6, <2>1 DEF response, PossibleStatus, WireAfter
      <3> HIDE DEF wire
      <3> QED
        BY <1>1, <2>1, <3>1, <3>2, SettlesDecision
    <2> QED
      BY <2>2, <2>3
  <1>7. ASSUME NEW c \in DOMAIN calls, noAnswer(c) PROVE Kill!Next \/ UNCHANGED Kill!vars
    BY <1>1, <1>7, SettlesDecision DEF noAnswer
  <1>8. ASSUME NEW c \in DOMAIN calls, preFlightFailure(c)
        PROVE  Kill!Next \/ UNCHANGED Kill!vars
    BY <1>1, <1>8, SettlesDecision DEF preFlightFailure
  <1>9. ASSUME Restart PROVE Kill!Next
    <2>1. SameDecisions
      BY <1>9, OtherSteps DEF TypeInv, OtherStep
    <2> QED
      BY <1>1, <1>9, <2>1, RestartForgets
  <1> QED
    BY <1>2, <1>3, <1>4, <1>5, <1>6, <1>7, <1>8, <1>9 DEF NextStep, OtherStep

(* With its gate, tokens, expiries, timers, late answers, failing ledger,  *)
(* breaker and restarts the channel implements the kill switch: released   *)
(* by a fresh word of a founder, once; a decision takes effect once at     *)
(* most, and is reported as executed only then (channel.ts execute).       *)
THEOREM ChannelImplementsKillSwitch == Spec => ImplementsKillSwitch
  <1>1. Init => Kill!Init
    BY DEF Init, Kill!Init, Decided, ToldExecuted
  <1>2. TypeInv /\ LedgerInv /\ [Next]_vars => [Kill!Next]_(Kill!vars)
    BY KillSwitchStep, Cases
  <1> QED
    BY <1>1, <1>2, LedgerInvariant, PTL DEF Spec, ImplementsKillSwitch, Kill!Spec

=============================================================================
