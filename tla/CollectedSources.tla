--------------------------- MODULE CollectedSources ---------------------------
(***************************************************************************)
(* What the tables of the collector promise their readers (the context     *)
(* service, the control center): each source is collected in sessions that *)
(* do not overlap, and every row belongs to one session.  The row of a run *)
(* comes first and is revised, never taken back to RUNNING; an observation *)
(* is written once, and the newest one is current; snapshots stay; a run   *)
(* is DONE only if all of it is there.  A session may end at any point.    *)
(* There are no processes, connections, timers, timeouts, collectors or    *)
(* failures here; CollectorRuns implements this specification.             *)
(***************************************************************************)
EXTENDS Naturals

CONSTANTS Sources, Times, Kinds, Never

VARIABLES
  open,      \* the time of the session of each source, if any: a set
  runs,      \* the row of each run: revision (0: none), status, and more
  stored,    \* the freshness of each observation, or "none"
  current,   \* the time of the current observation of each source
  snapshots  \* keys of runs with the kind of a snapshot

tables == <<runs, stored, current, snapshots>>
vars == <<open, tables>>

Terminal == {"DONE", "PARTIAL", "FAILED", "UNKNOWN"}

Init ==
  /\ open = [s \in Sources |-> {}]
  /\ \A k \in Sources \X Times : runs[k].revision = 0 /\ stored[k] = "none"
  /\ current = [s \in Sources |-> Never]
  /\ snapshots = {}

Open(s, t) ==
  /\ open[s] = {}
  /\ open' = [open EXCEPT ![s] = {t}]
  /\ UNCHANGED tables

(* The sessions of some sources end together: a process had them.          *)
Close(ended) ==
  /\ open' = [s \in Sources |-> IF s \in ended THEN {} ELSE open[s]]
  /\ UNCHANGED tables

(* Nothing is written outside of a session, or before the run has a row.   *)
Started(s, t) == t \in open[s] /\ runs[<<s, t>>].revision > 0

Start(s, t) ==
  /\ t \in open[s]
  /\ runs[<<s, t>>].revision = 0
  /\ LET row == runs'[<<s, t>>] IN
       /\ row.revision = 1 /\ row.status = "RUNNING"
       /\ runs' = [runs EXCEPT ![<<s, t>>] = row]
  /\ UNCHANGED <<open, stored, current, snapshots>>

Store(s, t) ==
  /\ Started(s, t)
  /\ stored[<<s, t>>] = "none"
  /\ LET freshness == stored'[<<s, t>>] IN
       /\ freshness # "none"
       /\ stored' = [stored EXCEPT ![<<s, t>>] = freshness]
  /\ current' = IF current[s] = Never \/ t > current[s] THEN [current EXCEPT ![s] = t] ELSE current
  /\ UNCHANGED <<open, runs, snapshots>>

Derive(s, t, k) ==
  /\ Started(s, t)
  /\ snapshots' = snapshots \cup {<<<<s, t>>, k>>}
  /\ UNCHANGED <<open, runs, stored, current>>

Complete(s, t) == stored[<<s, t>>] # "none" /\ \A k \in Kinds : <<<<s, t>>, k>> \in snapshots

Finish(s, t) ==
  /\ Started(s, t)
  /\ LET row == runs'[<<s, t>>] IN
       /\ row.revision >= runs[<<s, t>>].revision
       /\ row.status \in Terminal
       /\ row.status = "DONE" => Complete(s, t)
       /\ runs' = [runs EXCEPT ![<<s, t>>] = row]
  /\ UNCHANGED <<open, stored, current, snapshots>>

Next ==
  \/ \E s \in Sources, t \in Times :
       Open(s, t) \/ Start(s, t) \/ Store(s, t) \/ Finish(s, t) \/ \E k \in Kinds : Derive(s, t, k)
  \/ \E ended \in SUBSET Sources : Close(ended)

Spec == Init /\ [][Next]_vars

=============================================================================
