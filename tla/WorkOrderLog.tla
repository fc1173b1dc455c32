----------------------------- MODULE WorkOrderLog -----------------------------
(***************************************************************************)
(* What appendWorkOrderEvent promises its callers (README of               *)
(* control-center/domains/delivery): each order has one append-only stream *)
(* of events, written under optimistic versions; an idempotency key names  *)
(* one event of all streams; a caller is told that his event is stored     *)
(* only when it is.  There are no transactions, locks, holds, crashes or   *)
(* projections here; WorkOrderStore implements this specification.         *)
(***************************************************************************)
EXTENDS Naturals, Sequences

CONSTANTS Orders, Writers

VARIABLES
  log,    \* the stream of each order
  told    \* the event each writer was last told is stored, if any: a set

Logged == UNION {{log[o][n] : n \in DOMAIN log[o]} : o \in Orders}

Init ==
  /\ log = [o \in Orders |-> <<>>]
  /\ told = [w \in Writers |-> {}]

(* A writer calls, and knows nothing about his new event.  A call that is  *)
(* held, refused, or loses its answer leaves it at that.                   *)
Call(w) ==
  /\ told' = [told EXCEPT ![w] = {}]
  /\ UNCHANGED log

(* The event takes effect: it was decided on the whole stream, and no      *)
(* event of any order has its key.  The answer may be lost.                *)
Accept(w, o) ==
  LET n == Len(log[o])
      e == log'[o][n + 1]
  IN  /\ Len(log'[o]) = n + 1
      /\ log' = [log EXCEPT ![o] = Append(@, e)]
      /\ e.wo = o
      /\ e.expected = n
      /\ \A s \in Logged : s.key # e.key
      /\ told' \in {[told EXCEPT ![w] = {}], [told EXCEPT ![w] = {e}]}

(* A repeated call is told that its event is there.                        *)
Confirm(w) ==
  /\ \E e \in Logged : told' = [told EXCEPT ![w] = {e}]
  /\ UNCHANGED log

Next == \E w \in Writers : Call(w) \/ Confirm(w) \/ \E o \in Orders : Accept(w, o)

vars == <<log, told>>

Spec == Init /\ [][Next]_vars

=============================================================================
