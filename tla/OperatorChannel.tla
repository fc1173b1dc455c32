-------------------------- MODULE OperatorChannel --------------------------
(***************************************************************************)
(* The Warmbly operator channel: founders pause and resume the outbound    *)
(* dispatch and acknowledge alerts, over HTTP, through one process that    *)
(* keeps in memory the confirmation tokens, a circuit breaker and a ledger *)
(* of what was asked and what came of it                                   *)
(* (control-center/connectors/warmbly/src/operator).  Warmbly itself is    *)
(* external.                                                               *)
(*                                                                         *)
(* A handler runs without interruption until it awaits the POST: that is   *)
(* the grain of an action.  Calls are numbered in the order they start;    *)
(* the number stands for the minted correlation id, and for the token that *)
(* a confirmation call mints.                                              *)
(*                                                                         *)
(* Time is abstracted to what can pass in it: a challenge expires, the     *)
(* breaker's reset interval ends, the timer of a POST fires, each at any   *)
(* moment.                                                                 *)
(***************************************************************************)
EXTENDS Naturals, Sequences, FiniteSets

CONSTANTS
  Actors,              \* founders whom the trusted hop authenticates
  Reasons,             \* well-formed audit reasons (a hash stands for one)
  Requests,            \* the requests that arrive, a subset of AnyRequest
  Statuses,            \* the HTTP status classes Warmbly answers with
  failureThreshold,    \* consecutive failures that open the breaker
  MaxCalls,            \* bound: calls in a behaviour
  MaxLedgerFailures,   \* bound: entries that ledger.record does not take
  NoActor, NoReason, BadReason

Actions == {"pause_dispatch", "resume_dispatch", "acknowledge_inbound_alert"}
Targets == {"confenge-dispatch", "lead", "unsafe", "absent"}
AnyStatus == {"2xx", "3xx", "4xx", "429", "5xx"}

AnyRequest == [op: {"confirm", "execute"},
               action: Actions \cup {"other"},
               actor: Actors \cup {NoActor},
               target: Targets,
               reason: Reasons \cup {NoReason, BadReason}]

ASSUME OperatorConstants ==
  /\ Requests \subseteq AnyRequest
  /\ Statuses \subseteq AnyStatus
  /\ failureThreshold \in Nat \ {0}
  /\ MaxCalls \in Nat
  /\ MaxLedgerFailures \in Nat
  /\ NoActor \notin Actors
  /\ {NoReason, BadReason} \cap Reasons = {}
  /\ NoReason # BadReason

VARIABLES
  calls,       \* the calls, oldest first
  challenges,  \* byToken: the live challenges
  breaker,     \* circuit breaker of the client
  ledger,      \* entries the ledger took since the process started
  wal,         \* entries it did not take: the lines on stderr
  dispatch,    \* Warmbly's kill switch
  bootedAt     \* number of calls made before the process started

vars == <<calls, challenges, breaker, ledger, wal, dispatch, bootedAt>>

-----------------------------------------------------------------------------
(* The ordered gate of both handlers: identity, action, target, reason.    *)
(* The path of a request that passes is on the allowlist by construction.  *)
ValidTarget(r) ==
  \/ r.action = "acknowledge_inbound_alert" /\ r.target \in {"confenge-dispatch", "lead"}
  \/ r.action # "acknowledge_inbound_alert" /\ r.target \in {"confenge-dispatch", "absent"}

ValidReason(r) ==
  /\ r.reason # BadReason
  /\ r.reason = NoReason => r.action = "acknowledge_inbound_alert"

(* Mutant of prepare: the path is classified before the target is checked. *)
preparePathFirst(r) ==
  IF r.actor = NoActor THEN "missing_actor"
  ELSE IF r.action \notin Actions THEN "unknown_action"
  ELSE IF ~ValidTarget(r) THEN "forbidden_path"
  ELSE IF ~ValidReason(r) THEN "invalid_reason"
  ELSE "passed"

prepare(r) ==
  IF r.actor = NoActor THEN "missing_actor"
  ELSE IF r.action \notin Actions THEN "unknown_action"
  ELSE IF ~ValidTarget(r) THEN "invalid_target"
  ELSE IF ~ValidReason(r) THEN "invalid_reason"
  ELSE "passed"

-----------------------------------------------------------------------------
(* The breaker.  A call that reads an open breaker after the reset         *)
(* interval finds it half open, so resetMs going by is the step CoolDown.  *)
(* The count of failures is capped at the threshold: more do not differ.   *)
Closed == [state |-> "closed", failures |-> 0]

recordFailure(b) ==
  LET f == IF b.failures < failureThreshold THEN b.failures + 1 ELSE b.failures
  IN  [state    |-> IF b.state = "half_open" \/ f >= failureThreshold THEN "open" ELSE b.state,
       failures |-> f]

CoolDown ==
  /\ breaker.state = "open"
  /\ breaker' = [breaker EXCEPT !.state = "half_open"]
  /\ UNCHANGED <<calls, challenges, ledger, wal, dispatch, bootedAt>>

-----------------------------------------------------------------------------
(* The confirmation store.  Only resume_dispatch on the singleton takes a  *)
(* challenge, so action and target of one need no field.                   *)
invalidate(actors) == {k \in challenges : k.actor_id \notin actors}

(* Mutant of Matching: a token is good for any founder who has it.         *)
MatchingAnyone(r, t) == {k \in challenges : k.token = t /\ k.reason = r.reason}

Matching(r, t) ==
  {k \in challenges : k.token = t /\ k.actor_id = r.actor /\ k.reason = r.reason}

(* Challenges expire in the order of issue.  The sweep that drops an       *)
(* expired one runs before every look at the map.                          *)
Expire(k) ==
  /\ \A other \in challenges : k.token <= other.token
  /\ challenges' = challenges \ {k}
  /\ UNCHANGED <<calls, breaker, ledger, wal, dispatch, bootedAt>>

-----------------------------------------------------------------------------
(* One entry per call.  If ledger.record throws, the entry goes to stderr  *)
(* and the caller gets the exception instead of a result.                  *)
Entry(c, outcome, code, status) ==
  [call |-> c, outcome |-> outcome, code |-> code, status |-> status]

(* Mutant of record: the fallback tells the caller what the ledger would.  *)
recordSilently(entry, answer) ==
  /\ answer = entry.outcome
  /\ \/ ledger' = Append(ledger, entry) /\ wal' = wal
     \/ Len(wal) < MaxLedgerFailures /\ wal' = Append(wal, entry) /\ ledger' = ledger

record(entry, answer) ==
  \/ /\ answer = entry.outcome
     /\ ledger' = Append(ledger, entry)
     /\ wal' = wal
  \/ /\ answer = "threw"
     /\ Len(wal) < MaxLedgerFailures
     /\ wal' = Append(wal, entry)
     /\ ledger' = ledger

(* Some resume was written to Warmbly that may still be applied (a history *)
(* fact, kept with each call that is made).                                *)
ResumeInDoubt ==
  \E c \in DOMAIN calls : calls[c].action = "resume_dispatch" /\ calls[c].wire = "sent"

NewCall(r, spent, wire, answer) ==
  [op |-> r.op, action |-> r.action, actor |-> r.actor, reason |-> r.reason,
   gate |-> prepare(r), spent |-> spent, wire |-> wire, doubt |-> ResumeInDoubt,
   answer |-> answer]

(* A call that is answered without a POST. *)
AnswerAtOnce(r, spent, outcome, code) ==
  \E answer \in {outcome, "threw"} :
    /\ record(Entry(Len(calls) + 1, outcome, code, "none"), answer)
    /\ calls' = Append(calls, NewCall(r, spent, "none", answer))

refuse(r, spent, code) == AnswerAtOnce(r, spent, "refused", code)

-----------------------------------------------------------------------------
(* A fresh challenge supersedes the older one of the actor.                *)
requestConfirmation(r) ==
  /\ r.op = "confirm" /\ Len(calls) < MaxCalls
  /\ \/ /\ prepare(r) # "passed"
        /\ refuse(r, 0, prepare(r))
        /\ challenges' = challenges
     \/ /\ prepare(r) = "passed" /\ r.action # "resume_dispatch"
        /\ refuse(r, 0, "confirmation_not_applicable")
        /\ challenges' = challenges
     \/ /\ prepare(r) = "passed" /\ r.action = "resume_dispatch"
        /\ challenges' = invalidate({r.actor}) \cup
             {[token |-> Len(calls) + 1, actor_id |-> r.actor, reason |-> r.reason]}
        /\ AnswerAtOnce(r, 0, "challenged", "none")
  /\ UNCHANGED <<breaker, dispatch, bootedAt>>

(* Refused while the breaker is open, otherwise on the wire.               *)
post(r, spent) ==
  IF breaker.state = "open"
  THEN refuse(r, spent, "circuit_open")
  ELSE /\ calls' = Append(calls, NewCall(r, spent, "sent", "waiting"))
       /\ UNCHANGED <<ledger, wal>>

(* Mutant of intervene: a pause revokes the challenges of its actor only.  *)
interveneOwn(r) == challenges' = invalidate({r.actor}) /\ post(r, 0)

(* A pause revokes every challenge, an acknowledgement those of its actor. *)
intervene(r) ==
  /\ challenges' = invalidate(IF r.action = "pause_dispatch" THEN Actors ELSE {r.actor})
  /\ post(r, 0)

(* t is the token supplied, 0 none.  Matching or not, a wrong attempt      *)
(* leaves the challenge live; a match spends it whatever comes after.      *)
release(r, t) ==
  \/ /\ t = 0
     /\ refuse(r, 0, "confirmation_required")
     /\ challenges' = challenges
  \/ /\ t # 0 /\ Matching(r, t) = {}
     /\ refuse(r, 0, "confirmation_invalid")
     /\ challenges' = challenges
  \/ /\ t # 0 /\ Matching(r, t) # {}
     /\ challenges' = challenges \ Matching(r, t)
     /\ post(r, t)

execute(r, t) ==
  /\ r.op = "execute" /\ Len(calls) < MaxCalls
  /\ \/ /\ prepare(r) # "passed"
        /\ refuse(r, 0, prepare(r))
        /\ challenges' = challenges
     \/ prepare(r) = "passed" /\ r.action # "resume_dispatch" /\ intervene(r)
     \/ prepare(r) = "passed" /\ r.action = "resume_dispatch" /\ release(r, t)
  /\ UNCHANGED <<breaker, dispatch, bootedAt>>

(* Callers hold the tokens that were returned to one of them, live or not. *)
TokensHeld == {0} \cup {c \in DOMAIN calls : calls[c].answer = "challenged"}

Tokens(r) == IF r.op = "execute" /\ r.action = "resume_dispatch" THEN TokensHeld ELSE {0}

-----------------------------------------------------------------------------
(* Warmbly: a written POST is applied at any time, also after its caller   *)
(* stopped waiting.                                                        *)
WarmblyApplies(c) ==
  /\ calls[c].wire = "sent"
  /\ calls' = [calls EXCEPT ![c].wire = "applied"]
  /\ dispatch' = CASE calls[c].action = "pause_dispatch"  -> "paused"
                   [] calls[c].action = "resume_dispatch" -> "running"
                   [] OTHER -> dispatch
  /\ UNCHANGED <<challenges, breaker, ledger, wal, bootedAt>>

(* The statuses Warmbly, or a proxy before it, can answer: 2xx when the    *)
(* action was applied, a refusal when it will not be, 5xx either way.      *)
PossibleStatus(wire) ==
  IF wire = "sent" THEN Statuses \ {"2xx"} ELSE Statuses \cap {"2xx", "5xx"}

WireAfter(wire, status) ==
  IF status \in {"3xx", "4xx", "429"} THEN "rejected" ELSE wire

settle(c, wire, outcome, code, status) ==
  \E answer \in {outcome, "threw"} :
    /\ record(Entry(c, outcome, code, status), answer)
    /\ calls' = [calls EXCEPT ![c].wire = wire, ![c].answer = answer]

(* Mutant of response: an answer closes the breaker and keeps its count.   *)
responseKeepsCount(c, status) ==
  /\ calls[c].answer = "waiting"
  /\ status \in PossibleStatus(calls[c].wire)
  /\ breaker' = IF status \in {"429", "5xx"} THEN recordFailure(breaker)
                ELSE [breaker EXCEPT !.state = "closed"]
  /\ IF status = "2xx"
     THEN settle(c, calls[c].wire, "executed", "none", status)
     ELSE settle(c, WireAfter(calls[c].wire, status), "refused", "upstream_error", status)
  /\ UNCHANGED <<challenges, dispatch, bootedAt>>

(* An answer arrives.                                                      *)
response(c, status) ==
  /\ calls[c].answer = "waiting"
  /\ status \in PossibleStatus(calls[c].wire)
  /\ breaker' = IF status \in {"429", "5xx"} THEN recordFailure(breaker) ELSE Closed
  /\ IF status = "2xx"
     THEN settle(c, calls[c].wire, "executed", "none", status)
     ELSE settle(c, WireAfter(calls[c].wire, status), "refused", "upstream_error", status)
  /\ UNCHANGED <<challenges, dispatch, bootedAt>>

(* Mutant of noAnswer: a timeout is a refusal.                             *)
noAnswerRefused(c) ==
  /\ calls[c].answer = "waiting"
  /\ breaker' = recordFailure(breaker)
  /\ settle(c, calls[c].wire, "refused", "transport_error", "none")
  /\ UNCHANGED <<challenges, dispatch, bootedAt>>

(* Mutant of noAnswer: a POST without an answer is written once more, as a *)
(* read is, and nobody waits for that.                                     *)
noAnswerRetried(c) ==
  /\ calls[c].answer = "waiting"
  /\ breaker' = recordFailure(breaker)
  /\ settle(c, "sent", "unknown", "transport_unknown", "none")
  /\ UNCHANGED <<challenges, dispatch, bootedAt>>

(* Mutant of noAnswer: no timer, only a connection that Warmbly drops.     *)
noAnswerUntimed(c) ==
  /\ calls[c].answer = "waiting" /\ calls[c].wire = "applied"
  /\ breaker' = recordFailure(breaker)
  /\ settle(c, calls[c].wire, "unknown", "transport_unknown", "none")
  /\ UNCHANGED <<challenges, dispatch, bootedAt>>

(* The timer fires, or the connection fails after the request was written. *)
noAnswer(c) ==
  /\ calls[c].answer = "waiting"
  /\ breaker' = recordFailure(breaker)
  /\ settle(c, calls[c].wire, "unknown", "transport_unknown", "none")
  /\ UNCHANGED <<challenges, dispatch, bootedAt>>

(* The connection never opened.                                            *)
preFlightFailure(c) ==
  /\ calls[c].answer = "waiting" /\ calls[c].wire = "sent"
  /\ breaker' = recordFailure(breaker)
  /\ settle(c, "never", "refused", "transport_error", "none")
  /\ UNCHANGED <<challenges, dispatch, bootedAt>>

(* The process stops and starts again: tokens, breaker and the ledger in   *)
(* memory are gone, and nobody records the calls in flight.                *)
Restart ==
  /\ bootedAt < Len(calls)
  /\ bootedAt' = Len(calls)
  /\ calls' = [c \in DOMAIN calls |->
                 IF calls[c].answer = "waiting" THEN [calls[c] EXCEPT !.answer = "lost"]
                 ELSE calls[c]]
  /\ challenges' = {}
  /\ breaker' = Closed
  /\ ledger' = <<>>
  /\ UNCHANGED <<wal, dispatch>>

-----------------------------------------------------------------------------
Init ==
  /\ calls = <<>> /\ challenges = {} /\ breaker = Closed
  /\ ledger = <<>> /\ wal = <<>>
  /\ dispatch \in {"paused", "running"}
  /\ bootedAt = 0

Next ==
  \/ \E r \in Requests : requestConfirmation(r)
  \/ \E r \in Requests : \E t \in Tokens(r) : execute(r, t)
  \/ \E k \in challenges : Expire(k)
  \/ CoolDown
  \/ \E c \in DOMAIN calls : WarmblyApplies(c)
  \/ \E c \in DOMAIN calls, status \in Statuses : response(c, status)
  \/ \E c \in DOMAIN calls : noAnswer(c)
  \/ \E c \in DOMAIN calls : preFlightFailure(c)
  \/ Restart

Spec == Init /\ [][Next]_vars

(* The abort timer of every POST fires.                                    *)
FairSpec ==
  /\ Spec
  /\ \A c \in 1..MaxCalls : WF_vars(c \in DOMAIN calls /\ noAnswer(c))

(* Shapes: calls are numbered, tokens are call numbers.                    *)
CallType ==
  [op: {"confirm", "execute"}, action: Actions \cup {"other"},
   actor: Actors \cup {NoActor}, reason: Reasons \cup {NoReason, BadReason},
   gate: {"passed", "missing_actor", "unknown_action", "invalid_target", "invalid_reason"},
   spent: Nat, wire: {"none", "sent", "applied", "rejected", "never"},
   doubt: BOOLEAN,
   answer: {"waiting", "lost", "threw", "executed", "refused", "challenged", "unknown"}]

EntryType ==
  [call: Nat, outcome: {"executed", "refused", "challenged", "unknown"},
   code: {"none", "missing_actor", "unknown_action", "invalid_target", "invalid_reason",
          "confirmation_required", "confirmation_invalid", "confirmation_not_applicable",
          "circuit_open", "upstream_error", "transport_error", "transport_unknown"},
   status: AnyStatus \cup {"none"}]

(* Type invariant. *)
TypeOK ==
  /\ calls \in Seq(CallType)
  /\ challenges \subseteq [token: Nat, actor_id: Actors, reason: Reasons]
  /\ breaker \in [state: {"closed", "open", "half_open"}, failures: 0..failureThreshold]
  /\ ledger \in Seq(EntryType) /\ wal \in Seq(EntryType)
  /\ dispatch \in {"paused", "running"}
  /\ bootedAt \in Nat

-----------------------------------------------------------------------------
(* The call minted a challenge for this founder and this reason.           *)
Minted(call, actor, reason) ==
  /\ call.op = "confirm" /\ call.action = "resume_dispatch"
  /\ call.gate = "passed"
  /\ call.actor = actor /\ call.reason = reason

(* The call is a decision that takes an older challenge of the founder     *)
(* away: a pause by anyone, his own acknowledgement, his newer challenge.  *)
Revokes(call, actor) ==
  /\ call.gate = "passed"
  /\ \/ call.op = "execute" /\ call.action = "pause_dispatch"
     \/ /\ call.op = "execute" /\ call.action = "acknowledge_inbound_alert"
        /\ call.actor = actor
     \/ /\ call.op = "confirm" /\ call.action = "resume_dispatch"
        /\ call.actor = actor

(* A release of the kill switch reaches the wire only with a challenge     *)
(* that this founder asked for, for this reason; nobody paused, and he did *)
(* not act otherwise, between the two calls; and a challenge is spent by   *)
(* one call, whatever became of that call                                  *)
(* (channel.ts execute, confirmation.ts consume and invalidate).           *)
NoStaleRelease ==
  \A c \in DOMAIN calls :
    /\ calls[c].action = "resume_dispatch" /\ calls[c].wire # "none" => calls[c].spent # 0
    /\ calls[c].spent # 0 =>
         /\ calls[c].spent < c
         /\ Minted(calls[calls[c].spent], calls[c].actor, calls[c].reason)
         /\ \A d \in (calls[c].spent + 1)..(c - 1) : ~Revokes(calls[d], calls[c].actor)
         /\ \A d \in DOMAIN calls : calls[d].spent = calls[c].spent => d = c

(* What the founders see of all this is KillSwitch: the calls that are on  *)
(* the wire, and those that Warmbly applied, are its decisions.            *)
Decision(c) ==
  [number |-> c, action |-> calls[c].action, actor |-> calls[c].actor,
   reason |-> calls[c].reason]

Decided(wire) == {Decision(c) : c \in {n \in DOMAIN calls : calls[n].wire = wire}}

ToldExecuted == {c \in DOMAIN calls : calls[c].answer = "executed"}

Kill == INSTANCE KillSwitch WITH
  last <- Len(calls), words <- challenges, pending <- Decided("sent"),
  done <- Decided("applied"), told <- ToldExecuted

(* Gates, tokens, expiries, timers, late answers, a failing ledger, the    *)
(* breaker and restarts refine a switch that only a fresh word of a        *)
(* founder releases, once, on which a decision takes effect at most once   *)
(* and is reported as executed only then (channel.ts execute, record).     *)
ImplementsKillSwitch == Kill!Spec

Recorded == {ledger[i] : i \in DOMAIN ledger} \cup {wal[i] : i \in DOMAIN wal}

(* What an entry says happened did happen: an executed action was applied; *)
(* a refusal other than upstream_error, and a challenge, was not and will  *)
(* not be; nor was an action that Warmbly refused with a status below 500. *)
(* Only unknown and a 5xx leave it open (channel.ts:677-711).              *)
EntriesTellTheTruth ==
  \A e \in Recorded : LET wire == calls[e.call].wire IN
    /\ e.outcome = "executed" => wire = "applied"
    /\ e.outcome = "challenged" => wire = "none"
    /\ e.outcome = "refused" /\ e.code # "upstream_error" => wire \in {"none", "never"}
    /\ e.code = "upstream_error" /\ e.status # "5xx" => wire = "rejected"
    /\ e.outcome = "unknown" => wire \in {"sent", "applied"}

EntriesOf(s, c) == {i \in DOMAIN s : s[i].call = c}

(* Every call of this process that was answered left exactly one entry, in *)
(* the ledger with the outcome the caller was told, or on stderr when the  *)
(* caller got an exception; a call in flight left none                     *)
(* (channel.ts:5-9, README "no branch that returns without writing").      *)
OneEntryPerCall ==
  \A c \in (bootedAt + 1)..Len(calls) :
    LET answer == calls[c].answer IN
    /\ Cardinality(EntriesOf(wal, c)) = (IF answer = "threw" THEN 1 ELSE 0)
    /\ Cardinality(EntriesOf(ledger, c)) = (IF answer \in {"waiting", "threw"} THEN 0 ELSE 1)
    /\ \A i \in EntriesOf(ledger, c) : ledger[i].outcome = answer

(* The ledger and stderr together: all of the calls, and nothing but the   *)
(* truth about them.                                                       *)
LedgerIsFaithful == OneEntryPerCall /\ EntriesTellTheTruth

(* A founder who was told that his pause was executed may rely on it: if   *)
(* no resume was in doubt when he paused and none was written since,       *)
(* Warmbly is paused (an answer that is not 2xx is never told as executed, *)
(* a POST is never repeated).                                              *)
PausedUnlessInDoubt ==
  \A p \in DOMAIN calls :
    /\ calls[p].action = "pause_dispatch" /\ calls[p].answer = "executed"
    /\ ~calls[p].doubt
    /\ \A r \in (p + 1)..Len(calls) :
         calls[r].action = "resume_dispatch" => calls[r].wire = "none"
    => dispatch = "paused"

Failing(e) == e.code \in {"transport_error", "transport_unknown"} \/ e.status \in {"429", "5xx"}

Resetting(e) == e.status \in {"2xx", "3xx", "4xx"}

(* What this process recorded after the last answer that resets the        *)
(* breaker.  What only stderr has is in no order with the ledger, and all  *)
(* of it counts.                                                           *)
Unreset == {i \in DOMAIN ledger : \A j \in DOMAIN ledger : Resetting(ledger[j]) => j < i}

SinceReset == {ledger[i] : i \in Unreset} \cup {wal[i] : i \in DOMAIN wal}

FailedCalls == {e.call : e \in {f \in SinceReset : f.call > bootedAt /\ Failing(f)}}

(* The breaker is not closed only after failureThreshold calls of this     *)
(* process failed with no answer between them that resets it: neither a    *)
(* refusal by Warmbly (4xx) nor failures from before an answer lock the    *)
(* founders out of pausing (client.ts:268-274, circuit-breaker.ts:42-54).  *)
OpenBreakerHasCause == breaker.state # "closed" => Cardinality(FailedCalls) >= failureThreshold

(* A pause attempt of an authenticated founder, refused or not, revokes    *)
(* the older challenges ("even a refused pause attempt is a new safety     *)
(* intervention, so no operator may later release it with an older token", *)
(* channel.ts:552-553).                                                    *)
PauseAttemptRevokes ==
  \A c \in DOMAIN calls : calls[c].spent # 0 =>
    ~\E p \in (calls[c].spent + 1)..(c - 1) :
        /\ calls[p].op = "execute" /\ calls[p].action = "pause_dispatch"
        /\ calls[p].actor \in Actors

(* Every call is answered, or lost with the process: the timer of a POST   *)
(* always fires (client.ts:236-237).                                       *)
EveryCallIsAnswered ==
  \A c \in 1..MaxCalls :
    (c \in DOMAIN calls /\ calls[c].answer = "waiting")
      ~> (c \in DOMAIN calls /\ calls[c].answer # "waiting")

=============================================================================
