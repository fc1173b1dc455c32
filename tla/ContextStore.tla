---------------------------- MODULE ContextStore ----------------------------
(***************************************************************************)
(* The context service: directives, proposals and agent reports, served    *)
(* from memory and written behind to PostgreSQL.                           *)
(*                                                                         *)
(* Every operation is synchronous on memory (the fixture store) and queues *)
(* its writes on one promise chain: for a revision or an agent report its  *)
(* own transaction, then a second one for the audit event.  The request is *)
(* answered when the last write it queued has settled.  A write that       *)
(* raises does not stop the next one (chain.then(work, work)).  A restart  *)
(* loads memory from the database.                                         *)
(*                                                                         *)
(* Calls by the wrong actor or with a malformed body throw before they     *)
(* change anything and are no step.  Title, body, kind, provenance and     *)
(* actor of a directive are data that no condition here reads.             *)
(***************************************************************************)
EXTENDS Integers, Sequences, FiniteSets

CONSTANTS
  MaxId,            \* bound: ids.next() calls for revisions, proposals and reports
  MaxPredecessors,  \* LIMITS.supersedesMax
  MaxProposals,     \* bound: proposals in memory
  MaxFailures,      \* bound: transactions that fail for no fault of the record
  Sessions,         \* correlation ids of agent reports
  Scopes,           \* scopes of agent reports
  None              \* undefined

ASSUME ContextAssumption ==
  /\ MaxId \in Nat /\ MaxPredecessors \in Nat
  /\ MaxProposals \in Nat /\ MaxFailures \in Nat

VARIABLES
  memRevisions,     \* memory: the revisions
  memCurrent,       \* memory: the current revision of each directive
  proposals,        \* memory: the status of each proposal
  memActivities,    \* memory: the scope of each session's report
  dbRevisions,      \* directive_revisions
  dbCurrent,        \* directives, current_directives
  dbActivities,     \* agent_activities
  dbAudits,         \* audit_events
  chain,            \* the writes that have not settled, oldest first
  lastId,           \* the last id given out
  failures,         \* transactions that have failed for no fault of the record
  acked,            \* history: ids of the writes answered 2xx
  failed            \* history: the revisions and reports whose transaction has raised

memory == <<memRevisions, memCurrent, proposals, memActivities>>
database == <<dbRevisions, dbCurrent, dbActivities, dbAudits>>
vars == <<memory, database, chain, lastId, failures, acked, failed>>

Ids == 1..MaxId
Statuses == {"draft", "active", "superseded", "revoked", "expired"}

(* dated: expires_at is null or after effective_from, all that any         *)
(* condition below asks of the two dates.                                  *)
Revision ==
  [id : Ids, directive : Ids, version : Nat \ {0}, status : Statuses,
   dated : BOOLEAN, supersedes : SUBSET Ids]

ASSUME NoneAssumption == None \notin Revision \cup Scopes

terminalStatus(status) == status \in {"superseded", "expired", "revoked"}

(* The directive exists and is neither superseded, revoked nor expired.    *)
Open(d) == memCurrent[d] # None /\ ~terminalStatus(memCurrent[d].status)

Init ==
  /\ memRevisions = {} /\ dbRevisions = {}
  /\ memCurrent = [d \in Ids |-> None] /\ dbCurrent = [d \in Ids |-> None]
  /\ proposals = [p \in Ids |-> "none"]
  /\ memActivities = [s \in Sessions |-> None] /\ dbActivities = [s \in Sessions |-> None]
  /\ dbAudits = {} /\ chain = <<>> /\ lastId = 0 /\ failures = 0
  /\ acked = {} /\ failed = {}

-----------------------------------------------------------------------------
(* Writes queued on the chain: first is the transaction that runs next.    *)

Write(first, subject, awaited) == [first |-> first, subject |-> subject, awaited |-> awaited]

(* insertCurrent and writeAudit for each of the revisions, in that order.  *)
(* Only the last audit can be awaited: flush() awaits the end of the chain.*)
InsertCurrent(revisions, awaited) ==
  /\ lastId' = lastId + Len(revisions)
  /\ lastId' <= MaxId
  /\ memRevisions' = memRevisions \cup {revisions[i] : i \in DOMAIN revisions}
  /\ memCurrent' = [d \in Ids |->
       IF \E i \in DOMAIN revisions : revisions[i].directive = d
       THEN revisions[CHOOSE i \in DOMAIN revisions : revisions[i].directive = d]
       ELSE memCurrent[d]]
  /\ chain' = chain \o [i \in DOMAIN revisions |->
       Write("revision", revisions[i], awaited /\ i = Len(revisions))]
  /\ UNCHANGED <<proposals, memActivities, database, failures, acked, failed>>

(* The next revision of a directive.                                       *)
Snapshot(current, id, status, dated) ==
  [id |-> id, directive |-> current.directive, version |-> current.version + 1,
   status |-> status, dated |-> dated, supersedes |-> current.supersedes]

(* Mutant of Closed: a status the schema does not know.                    *)
ClosedWithdrawn(d, id) == Snapshot(memCurrent[d], id, "withdrawn", memCurrent[d].dated)

Closed(d, id) == Snapshot(memCurrent[d], id, "superseded", memCurrent[d].dated)

(* Mutant of Publish: the successor is inserted before its predecessors    *)
(* are closed.                                                             *)
PublishSuccessorFirst(predecessors, status) ==
  LET n == Len(predecessors)
      successor ==
        [id |-> lastId + 1, directive |-> lastId + 1, version |-> 1, status |-> status,
         dated |-> TRUE, supersedes |-> {predecessors[i] : i \in 1..n}]
  IN  /\ \A i \in 1..n : Open(predecessors[i])
      /\ InsertCurrent(<<successor>> \o [i \in 1..n |-> Closed(predecessors[i], lastId + 1 + i)], TRUE)

(* closeAsSuperseded, then the first revision of a new directive.  The     *)
(* predecessors are closed one by one; at the first that cannot be closed  *)
(* the request fails, the earlier ones stay closed and nobody awaits the   *)
(* writes they queued.                                                     *)
Publish(predecessors, status) ==
  \E k \in 0..Len(predecessors) :
    LET closed == [i \in 1..k |-> Closed(predecessors[i], lastId + i)]
        id == lastId + k + 1
        successor ==
          [id |-> id, directive |-> id, version |-> 1, status |-> status, dated |-> TRUE,
           supersedes |-> {predecessors[i] : i \in DOMAIN predecessors}]
    IN  /\ \A i \in 1..k : Open(predecessors[i])
        /\ \/ /\ k = Len(predecessors)
              /\ InsertCurrent(Append(closed, successor), TRUE)
           \/ /\ k > 0 /\ k < Len(predecessors)
              /\ ~Open(predecessors[k + 1])
              /\ InsertCurrent(closed, FALSE)

(* parseSupersedes: distinct ids.                                          *)
PredecessorLists ==
  {ps \in UNION {[1..n -> Ids] : n \in 0..MaxPredecessors} :
     \A i, j \in DOMAIN ps : ps[i] = ps[j] => i = j}

(* parseCreateInput refuses an expires_at that is not after effective_from.*)
createDirective ==
  \E ps \in PredecessorLists, status \in {"draft", "active"} : Publish(ps, status)

(* The directive of the path comes first in the list.                      *)
supersede ==
  \E ps \in PredecessorLists \ {<<>>}, status \in {"draft", "active"} : Publish(ps, status)

(* A new revision of d; the request is answered when its audit is written. *)
Revise(d, status, dated) ==
  InsertCurrent(<<Snapshot(memCurrent[d], lastId + 1, status, dated)>>, TRUE)

(* parseVersionInput does not compare the dates, of which either may be    *)
(* patched alone.                                                          *)
createVersion ==
  \E d \in Ids, dated \in BOOLEAN : Open(d) /\ Revise(d, memCurrent[d].status, dated)

(* expires_at is the caller's or the clock's, and may not be after the     *)
(* effective_from of a directive that is not in effect yet.                *)
expire == \E d \in Ids, dated \in BOOLEAN : Open(d) /\ Revise(d, "expired", dated)

(* Mutant of activate: a closed directive can be activated again.          *)
activateClosed ==
  \E d \in Ids : memCurrent[d] # None /\ Revise(d, "active", memCurrent[d].dated)

activate == \E d \in Ids : Open(d) /\ Revise(d, "active", memCurrent[d].dated)

revoke == \E d \in Ids : Open(d) /\ Revise(d, "revoked", memCurrent[d].dated)

(* insertProposal and updateProposal change memory only.                   *)
SetProposal(p, status) ==
  /\ lastId < MaxId
  /\ lastId' = lastId + 1
  /\ proposals' = [proposals EXCEPT ![p] = status]
  /\ chain' = Append(chain, Write("audit", [id |-> lastId + 1], TRUE))
  /\ UNCHANGED <<memRevisions, memCurrent, memActivities, database, failures, acked, failed>>

submitProposal ==
  /\ lastId < MaxId
  /\ Cardinality({p \in Ids : proposals[p] # "none"}) < MaxProposals
  /\ SetProposal(lastId + 1, "pending")

rejectProposal == \E p \in Ids : proposals[p] # "none" /\ SetProposal(p, "rejected")

(* fits: the goal (the summary, if none was given) has the 512 characters  *)
(* of recordAgentActivityInputSchema, which memory does not ask for.       *)
recordAgentActivity ==
  \E s \in Sessions, scope \in Scopes, fits \in BOOLEAN :
    /\ lastId < MaxId
    /\ lastId' = lastId + 1
    /\ memActivities' = [memActivities EXCEPT ![s] = scope]
    /\ chain' = Append(chain, Write("activity",
         [id |-> lastId + 1, session |-> s, scope |-> scope, fits |-> fits], TRUE))
    /\ UNCHANGED <<memRevisions, memCurrent, proposals, database, failures, acked, failed>>

-----------------------------------------------------------------------------
(* The chain runs its oldest write.                                        *)

(* CHECK (expires_at > effective_from), the foreign keys of                *)
(* directive_supersedes, UNIQUE (directive_id, revision_no).               *)
NumberTaken(r) ==
  \E q \in dbRevisions : q.directive = r.directive /\ q.version = r.version

Accepts(r) ==
  /\ r.dated
  /\ \A p \in r.supersedes : dbCurrent[p] # None
  /\ ~NumberTaken(r)

(* Mutant of StoreRevision: ON CONFLICT (directive_id) DO NOTHING.         *)
StoreFirstRevision(r) ==
  /\ dbRevisions' = dbRevisions \cup {r}
  /\ dbCurrent' = [dbCurrent EXCEPT ![r.directive] = IF @ = None THEN r ELSE @]
  /\ UNCHANGED <<dbActivities, dbAudits>>

(* The transaction of writeRevision.                                       *)
StoreRevision(r) ==
  /\ dbRevisions' = dbRevisions \cup {r}
  /\ dbCurrent' = [dbCurrent EXCEPT ![r.directive] = r]
  /\ UNCHANGED <<dbActivities, dbAudits>>

(* persistence.recordAgentActivity: one transaction with an audit event of *)
(* its own; a second report of a session does not update its scope.        *)
StoreActivity(a) ==
  /\ dbActivities' = [dbActivities EXCEPT ![a.session] = IF @ = None THEN a.scope ELSE @]
  /\ dbAudits' = dbAudits \cup {<<"activity", a.id>>}
  /\ UNCHANGED <<dbRevisions, dbCurrent>>

StoreAudit(subject) ==
  /\ dbAudits' = dbAudits \cup {<<"context", subject.id>>}
  /\ UNCHANGED <<dbRevisions, dbCurrent, dbActivities>>

(* The next write of the chain is its audit event.                         *)
ThenAudit(w) == chain' = <<Write("audit", w.subject, w.awaited)>> \o Tail(chain)

(* A failure of the connection or the server; the transaction may have     *)
(* been committed all the same.                                            *)
Fail(store) ==
  /\ failures < MaxFailures
  /\ failures' = failures + 1
  /\ store \/ UNCHANGED database

(* Mutant of AfterFailure: chain.then(work) - a failure rejects the writes *)
(* queued behind it without running them.                                  *)
AfterFailureReject(w) == chain' = <<>>

(* chain.then(work, work): the next write runs whether this one failed.    *)
AfterFailure(w) == ThenAudit(w)

writeRevision ==
  LET w == Head(chain)
  IN  /\ chain # <<>> /\ w.first = "revision"
      /\ \/ /\ Accepts(w.subject) /\ StoreRevision(w.subject)
            /\ ThenAudit(w)
            /\ UNCHANGED <<failures, failed>>
         \/ /\ ~Accepts(w.subject)
            /\ AfterFailure(w)
            /\ failed' = failed \cup {w.subject}
            /\ UNCHANGED <<database, failures>>
         \/ /\ Fail(Accepts(w.subject) /\ StoreRevision(w.subject))
            /\ AfterFailure(w)
            /\ failed' = failed \cup {w.subject}
      /\ UNCHANGED <<memory, lastId, acked>>

writeActivity ==
  LET w == Head(chain)
  IN  /\ chain # <<>> /\ w.first = "activity"
      /\ \/ /\ w.subject.fits /\ StoreActivity(w.subject)
            /\ ThenAudit(w)
            /\ UNCHANGED <<failures, failed>>
         \/ /\ ~w.subject.fits
            /\ AfterFailure(w)
            /\ failed' = failed \cup {w.subject}
            /\ UNCHANGED <<database, failures>>
         \/ /\ w.subject.fits /\ Fail(StoreActivity(w.subject))
            /\ AfterFailure(w)
            /\ failed' = failed \cup {w.subject}
      /\ UNCHANGED <<memory, lastId, acked>>

(* appendAudit; flush() of the request that awaits it resolves, 2xx.       *)
writeAudit ==
  LET w == Head(chain)
  IN  /\ chain # <<>> /\ w.first = "audit"
      /\ StoreAudit(w.subject)
      /\ chain' = Tail(chain)
      /\ acked' = IF w.awaited THEN acked \cup {w.subject.id} ELSE acked
      /\ UNCHANGED <<memory, lastId, failures, failed>>

(* Mutant of Answer500: the rejection of flush() is swallowed.             *)
Answer200(w) == acked' = IF w.awaited THEN acked \cup {w.subject.id} ELSE acked

(* sendError: no 2xx for a request whose flush() rejects.                  *)
Answer500(w) == UNCHANGED acked

failAudit ==
  LET w == Head(chain)
  IN  /\ chain # <<>> /\ w.first = "audit"
      /\ w.awaited \/ Len(chain) > 1
      /\ Fail(StoreAudit(w.subject))
      /\ chain' = Tail(chain)
      /\ Answer500(w)
      /\ UNCHANGED <<memory, lastId, failed>>

-----------------------------------------------------------------------------
(* createPostgresStoreFromPool: memory is what the database holds; the     *)
(* proposals are nowhere but in memory.                                    *)
LoadMemory ==
  /\ memRevisions' = dbRevisions
  /\ memCurrent' = dbCurrent
  /\ memActivities' = dbActivities
  /\ proposals' = [p \in Ids |-> "none"]

(* Mutant of Boot: memory is loaded before the old process has written     *)
(* what it has queued.                                                     *)
BootWhileDraining == LoadMemory /\ UNCHANGED <<chain, lastId, acked, failed>>

Boot ==
  /\ LoadMemory
  /\ chain' = <<>>
  /\ UNCHANGED <<lastId, acked, failed>>

(* The process stops, for a deployment or a crash, and starts again.       *)
restart == Boot /\ UNCHANGED <<database, failures>>

(* The last write of the chain rejects and nobody awaits it: an unhandled  *)
(* rejection, which ends a Node process.                                   *)
unhandledRejection ==
  LET w == Head(chain)
  IN  /\ Len(chain) = 1 /\ w.first = "audit" /\ ~w.awaited
      /\ Fail(StoreAudit(w.subject))
      /\ Boot

Next ==
  \/ createDirective \/ supersede \/ createVersion \/ expire \/ activate \/ revoke
  \/ submitProposal \/ rejectProposal \/ recordAgentActivity
  \/ writeRevision \/ writeActivity \/ writeAudit \/ failAudit
  \/ restart \/ unhandledRejection

Spec == Init /\ [][Next]_vars

-----------------------------------------------------------------------------
Report == [id : Ids, session : Sessions, scope : Scopes, fits : BOOLEAN]
Subjects == Revision \cup Report \cup [id : Ids]

TypeOK ==
  /\ memRevisions \subseteq Revision /\ dbRevisions \subseteq Revision
  /\ memCurrent \in [Ids -> Revision \cup {None}] /\ dbCurrent \in [Ids -> Revision \cup {None}]
  /\ proposals \in [Ids -> {"none", "pending", "rejected"}]
  /\ memActivities \in [Sessions -> Scopes \cup {None}]
  /\ dbActivities \in [Sessions -> Scopes \cup {None}]
  /\ dbAudits \subseteq {"context", "activity"} \X Ids
  /\ chain \in Seq([first : {"revision", "activity", "audit"}, subject : Subjects, awaited : BOOLEAN])
  /\ lastId \in 0..MaxId /\ failures \in 0..MaxFailures
  /\ acked \subseteq Ids /\ failed \subseteq Revision \cup Report

Queued(first, subject) ==
  \E i \in DOMAIN chain : chain[i].first = first /\ chain[i].subject = subject

(* What memory serves is stored, is on its way, or its own transaction     *)
(* raised: no failure of another write makes a revision or a session's     *)
(* report disappear.                                                       *)
OnlyItsOwnFailureLosesAWrite ==
  /\ \A r \in memRevisions : r \in dbRevisions \/ Queued("revision", r) \/ r \in failed
  /\ \A s \in Sessions :
       memActivities[s] # None /\ dbActivities[s] = None =>
         \E id \in Ids, scope \in Scopes, fits \in BOOLEAN :
           LET report == [id |-> id, session |-> s, scope |-> scope, fits |-> fits]
           IN  Queued("activity", report) \/ report \in failed

(* A request answered 2xx has its audit event in the database.             *)
AckedIsAudited == \A id \in acked : <<"context", id>> \in dbAudits

(* The pointer in current_directives is never moved back: whatever was     *)
(* queued, lost or restarted, it is the newest revision that is stored.    *)
StoredCurrentIsNewest ==
  \A r \in dbRevisions : dbCurrent[r.directive] # None /\ r.version <= dbCurrent[r.directive].version

(* No queued revision can violate UNIQUE (directive_id, revision_no): the  *)
(* numbers memory gives out are free when they reach the database, also    *)
(* after writes were lost and the numbers given out again.                 *)
RevisionNumbersAreFree ==
  \A i \in DOMAIN chain : chain[i].first = "revision" => ~NumberTaken(chain[i].subject)

(* A directive that is stored as superseded, expired or revoked stays so,  *)
(* through restarts, failures and writes still queued.                     *)
StoredTerminalIsFinal ==
  [][\A d \in Ids :
       dbCurrent[d] # None /\ terminalStatus(dbCurrent[d].status)
         => dbCurrent'[d] = dbCurrent[d]]_vars

(* When a successor is stored its predecessors are stored as superseded,   *)
(* unless a write of theirs raised.                                        *)
PredecessorsStoredFirst ==
  \A r \in dbRevisions, p \in Ids :
    p \in r.supersedes =>
      \/ dbCurrent[p].status = "superseded"
      \/ \E f \in failed \cap Revision : f.directive = p

(* What callers and readers see of all this is DirectiveLog: pending there *)
(* are the revisions that wait on the chain.                               *)
Accepted == {chain[i].subject : i \in {k \in DOMAIN chain : chain[k].first = "revision"}}

Log == INSTANCE DirectiveLog
  WITH served <- memCurrent, pending <- Accepted, history <- dbRevisions, current <- dbCurrent

(* Memory, the chain, its transactions and audit events, failures, refused *)
(* supersessions and restarts refine lines of revisions: whatever          *)
(* interleaves, a revision follows the one that was served, none is stored *)
(* twice or out of its order, and none comes after a terminal one          *)
(* (insertCurrent, writeRevision, createPostgresStoreFromPool).            *)
ImplementsLog == Log!Spec

-----------------------------------------------------------------------------
(* What documents say and the code does not do.                            *)

(* PRODUCTION-RUNBOOK: after a restart, directives persist.  A revision    *)
(* whose request was answered 2xx is in the database.                      *)
AckedIsDurable ==
  \A r \in memRevisions : r.id \in acked => r \in dbRevisions

=============================================================================
