----------------------------- MODULE KillSwitch -----------------------------
(***************************************************************************)
(* What the operator channel promises the founders about the dispatch.  A  *)
(* founder asks for a word and later spends it: nothing else releases the  *)
(* switch, a word is spent once, under the name and for the reason it was  *)
(* asked for, and it is void as soon as anyone pauses or its founder       *)
(* decides otherwise.  A decision is sent to Warmbly once, at the moment   *)
(* it is made or never, takes effect once, at any time after, or never,    *)
(* and is reported as executed only if it took effect.                     *)
(* There are no requests, tokens that callers hold, breaker, timers,       *)
(* ledger, exceptions or processes here; OperatorChannel implements this   *)
(* specification.                                                          *)
(***************************************************************************)
EXTENDS Naturals

CONSTANTS Actors, Reasons, NoReason

VARIABLES
  dispatch,  \* Warmbly's kill switch
  last,      \* number of the last decision or refusal
  words,     \* words that may be spent: who asked, for which reason, when
  pending,   \* decisions that were sent and may still take effect
  done,      \* decisions that took effect
  told       \* numbers of the decisions that were reported as executed

vars == <<dispatch, last, words, pending, done, told>>

Init ==
  /\ dispatch \in {"paused", "running"}
  /\ last = 0
  /\ words = {} /\ pending = {} /\ done = {} /\ told = {}

OfOthers(a) == {w \in words : w.actor_id # a}

(* The next decision, sent or refused on the way out.                      *)
Decide(action, a, why) ==
  /\ last' = last + 1
  /\ pending' \in {pending,
                   pending \cup {[number |-> last + 1, action |-> action,
                                  actor |-> a, reason |-> why]}}
  /\ UNCHANGED <<dispatch, done, told>>

Ask(a, why) ==
  /\ last' = last + 1
  /\ words' = OfOthers(a) \cup {[token |-> last + 1, actor_id |-> a, reason |-> why]}
  /\ UNCHANGED <<dispatch, pending, done, told>>

Pause(a, why) == words' = {} /\ Decide("pause_dispatch", a, why)

Acknowledge(a, why) == words' = OfOthers(a) /\ Decide("acknowledge_inbound_alert", a, why)

Release(w) == words' = words \ {w} /\ Decide("resume_dispatch", w.actor_id, w.reason)

Refuse == last' = last + 1 /\ UNCHANGED <<dispatch, words, pending, done, told>>

TakesEffect(d) ==
  /\ pending' = pending \ {d}
  /\ done' = done \cup {d}
  /\ dispatch' = CASE d.action = "pause_dispatch"  -> "paused"
                   [] d.action = "resume_dispatch" -> "running"
                   [] OTHER -> dispatch
  /\ UNCHANGED <<last, words, told>>

(* Warmbly refused it, or it never reached Warmbly.                        *)
Vanish(d) == pending' = pending \ {d} /\ UNCHANGED <<dispatch, last, words, done, told>>

Report(d) == told' = told \cup {d.number} /\ UNCHANGED <<dispatch, last, words, pending, done>>

(* Words expire, and are lost with the process.                            *)
Forget == words' \subseteq words /\ UNCHANGED <<dispatch, last, pending, done, told>>

Next ==
  \/ \E a \in Actors, why \in Reasons : Ask(a, why) \/ Pause(a, why)
  \/ \E a \in Actors, why \in Reasons \cup {NoReason} : Acknowledge(a, why)
  \/ \E w \in words : Release(w)
  \/ Refuse
  \/ \E d \in pending : TakesEffect(d) \/ Vanish(d)
  \/ \E d \in done : Report(d)
  \/ Forget

Spec == Init /\ [][Next]_vars

=============================================================================
