------------------------- MODULE MCOperatorChannel -------------------------
(* OperatorChannel for TLC: the requests of each run.                      *)
EXTENDS OperatorChannel, TLC

Request(op, action, actor, target, reason) ==
  [op |-> op, action |-> action, actor |-> actor, target |-> target, reason |-> reason]

Confirm(a, why) == Request("confirm", "resume_dispatch", a, "absent", why)
Resume(a, why)  == Request("execute", "resume_dispatch", a, "absent", why)
Pause(a, why)   == Request("execute", "pause_dispatch", a, "absent", why)
Acknowledge(a, target) ==
  Request("execute", "acknowledge_inbound_alert", a, target, NoReason)

(* Every founder and reason, with requests that reach the handlers.        *)
Legal ==
  {Confirm(a, why) : a \in Actors, why \in Reasons}
    \cup {Resume(a, why) : a \in Actors, why \in Reasons}
    \cup {Pause(a, why) : a \in Actors, why \in Reasons}
    \cup {Acknowledge(a, "lead") : a \in Actors}

(* One refused by each check of the gate, and a one-step confirmation.     *)
Refusable ==
  {Pause(NoActor, BadReason)}
    \cup {Pause(a, BadReason) : a \in Actors} \cup {Pause(a, NoReason) : a \in Actors}
    \cup {Acknowledge(a, "unsafe") : a \in Actors}
    \cup {Request("execute", "other", a, "absent", NoReason) : a \in Actors}
    \cup {Request("confirm", "pause_dispatch", a, "absent", why) : a \in Actors, why \in Reasons}

(* Pause and resume only.                                                  *)
Switch == {r \in Legal : r.action # "acknowledge_inbound_alert"}

(* What the outcomes of calls are checked with.                            *)
Everything == Switch \cup Refusable

(* The interventions a founder attempts while a challenge is pending.      *)
Attempts == {r \in Everything : r.action \in {"pause_dispatch", "resume_dispatch"}}

Symmetry == Permutations(Actors) \cup Permutations(Reasons)

=============================================================================
