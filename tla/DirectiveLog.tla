---------------------------- MODULE DirectiveLog ----------------------------
(***************************************************************************)
(* What the directives promise the callers of the context service and the  *)
(* readers of its tables: a directive has a line of revisions, numbered    *)
(* from 1, that ends with a terminal one.  Each is accepted as the         *)
(* successor of the one that is served, and stored later, at most once,    *)
(* those of a directive in their order, over an older one that is not      *)
(* terminal.  A revision may be lost before it is stored, and a restart    *)
(* loses all of them and serves what is stored.  There is no chain, audit  *)
(* event, proposal, transaction, constraint or failure here; ContextStore  *)
(* implements this specification.                                          *)
(***************************************************************************)
EXTENDS Naturals

CONSTANTS Ids, None

VARIABLES
  served,   \* the current revision of each directive, as callers see it
  pending,  \* revisions that were accepted and neither stored nor lost
  history,  \* the revisions that are stored
  current   \* the current revision of each directive that is stored

vars == <<served, pending, history, current>>

Terminal(r) == r.status \in {"superseded", "expired", "revoked"}

Init ==
  /\ served = [d \in Ids |-> None] /\ current = [d \in Ids |-> None]
  /\ pending = {} /\ history = {}

Succeeds(r, d) ==
  /\ r # None /\ r.directive = d
  /\ \/ served[d] = None /\ r.version = 1
     \/ served[d] # None /\ ~Terminal(served[d]) /\ r.version = served[d].version + 1

(* A request: one revision of each of some directives.                     *)
Accept(ds) ==
  /\ \A d \in ds : Succeeds(served'[d], d)
  /\ served' = [d \in Ids |-> IF d \in ds THEN served'[d] ELSE served[d]]
  /\ pending' = pending \cup {served'[d] : d \in ds}
  /\ UNCHANGED <<history, current>>

Leaves(r) ==
  /\ \A q \in pending : q.directive = r.directive => r.version <= q.version
  /\ pending' = pending \ {r}

Store(r) ==
  /\ Leaves(r)
  /\ \A q \in history : q.directive = r.directive => q.version < r.version
  /\ current[r.directive] # None => ~Terminal(current[r.directive])
  /\ history' = history \cup {r}
  /\ current' = [current EXCEPT ![r.directive] = r]
  /\ UNCHANGED served

Lose(r) == Leaves(r) /\ UNCHANGED <<served, history, current>>

Restart ==
  /\ served' = current
  /\ pending' = {}
  /\ UNCHANGED <<history, current>>

Next ==
  \/ \E ds \in SUBSET Ids : Accept(ds)
  \/ \E r \in pending : Store(r) \/ Lose(r)
  \/ Restart

Spec == Init /\ [][Next]_vars

=============================================================================
