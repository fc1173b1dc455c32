------------------------- MODULE ContextStoreProofs -------------------------
(***************************************************************************)
(* What the write chain of the context service keeps, for every number of  *)
(* directives, requests, failures and restarts.                            *)
(*                                                                         *)
(* None of the properties is inductive: that a stored revision is never    *)
(* overtaken by an older one depends on what memory and the chain hold.    *)
(* The invariant orders the three: the database is behind the chain, the   *)
(* chain is in order and behind memory, and a terminal revision is the     *)
(* last one its directive has anywhere.                                    *)
(***************************************************************************)
EXTENDS ContextStore, SequenceTheorems, TLAPS

(* Ids are given out in order: a directive that memory knows is an old id. *)
MemoryKnown ==
  \A d \in Ids : memCurrent[d] # None => memCurrent[d].directive = d /\ d <= lastId

(* Revision r of directive d is not ahead of memory; a terminal one is the *)
(* newest that memory has.                                                 *)
Behind(r, d) ==
  /\ memCurrent[d] # None
  /\ r.version <= memCurrent[d].version
  /\ terminalStatus(r.status) => ~Open(d) /\ memCurrent[d].version = r.version

StoredBehind ==
  \A d \in Ids : dbCurrent[d] # None => dbCurrent[d].directive = d /\ Behind(dbCurrent[d], d)

(* What waits in the chain is newer than what is stored.                   *)
Ahead(r) == dbCurrent[r.directive] # None => dbCurrent[r.directive].version < r.version

Pending(i) == chain[i].first = "revision"

PendingTyped ==
  \A i \in DOMAIN chain :
    /\ chain[i].first = "revision" => chain[i].subject \in Revision
    /\ chain[i].first = "activity" => chain[i].subject \in Report

PendingBetween ==
  \A i \in DOMAIN chain :
    Pending(i) => Behind(chain[i].subject, chain[i].subject.directive) /\ Ahead(chain[i].subject)

PendingOrdered ==
  \A i, j \in DOMAIN chain :
    i < j /\ Pending(i) /\ Pending(j) /\ chain[i].subject.directive = chain[j].subject.directive
      => chain[i].subject.version < chain[j].subject.version

IInv ==
  /\ TypeOK /\ PendingTyped
  /\ MemoryKnown /\ StoredBehind /\ StoredCurrentIsNewest
  /\ PendingBetween /\ PendingOrdered

-----------------------------------------------------------------------------
Item == [first : {"revision", "activity", "audit"}, subject : Subjects, awaited : BOOLEAN]

(* The revisions of one request: one for each of some directives, each the *)
(* successor of the current one, or number 1 of a new directive.           *)
Batch(rs) ==
  /\ rs \in Seq(Revision)
  /\ \A i, j \in DOMAIN rs : rs[i].directive = rs[j].directive => i = j
  /\ \A i \in DOMAIN rs :
       LET d == rs[i].directive
       IN  /\ d <= lastId + Len(rs)
           /\ \/ memCurrent[d] = None /\ rs[i].version = 1
              \/ Open(d) /\ rs[i].version = memCurrent[d].version + 1

(* What a revision supersedes is closed before it in its request, or its   *)
(* directive superseded it already.                                        *)
Covered(rs) ==
  \A i \in DOMAIN rs, p \in Ids :
    p \in rs[i].supersedes =>
      \/ \E j \in DOMAIN rs : j < i /\ rs[j].directive = p /\ rs[j].status = "superseded"
      \/ /\ memCurrent[rs[i].directive] # None
         /\ p \in memCurrent[rs[i].directive].supersedes

(* What a request does that inserts revisions.                             *)
Inserts ==
  \E rs \in Seq(Revision), awaited \in BOOLEAN :
    Batch(rs) /\ Covered(rs) /\ InsertCurrent(rs, awaited)

(* Their indices and values.                                               *)
LEMMA BatchTyped ==
  ASSUME NEW rs, Batch(rs)
  PROVE  /\ DOMAIN rs = 1..Len(rs) /\ Len(rs) \in Nat
         /\ \A i \in DOMAIN rs : rs[i] \in Revision /\ rs[i].directive \in Ids
<1>1. rs \in Seq(Revision) BY DEF Batch
<1>2. DOMAIN rs = 1..Len(rs) /\ Len(rs) \in Nat BY <1>1
<1>3. \A i \in DOMAIN rs : rs[i] \in Revision BY <1>1, <1>2
<1>4. \A r \in Revision : r.directive \in Ids BY DEF Revision
<1> QED BY <1>2, <1>3, <1>4

(* insertCurrent leaves every revision of the batch current.               *)
LEMMA BatchCurrent ==
  ASSUME TypeOK, NEW rs, Batch(rs), NEW awaited \in BOOLEAN, InsertCurrent(rs, awaited)
  PROVE  /\ \A i \in DOMAIN rs : memCurrent'[rs[i].directive] = rs[i]
         /\ \A d \in Ids : (\A i \in DOMAIN rs : rs[i].directive # d) => memCurrent'[d] = memCurrent[d]
         /\ memCurrent' \in [Ids -> Revision \cup {None}]
<1>1. ASSUME NEW i \in DOMAIN rs PROVE memCurrent'[rs[i].directive] = rs[i]
  <2>1. rs[i] \in Revision /\ rs[i].directive \in Ids BY BatchTyped
  <2>2. (CHOOSE j \in DOMAIN rs : rs[j].directive = rs[i].directive) = i BY DEF Batch
  <2> QED BY <2>1, <2>2 DEF InsertCurrent
<1>2. ASSUME NEW d \in Ids, \A i \in DOMAIN rs : rs[i].directive # d
      PROVE  memCurrent'[d] = memCurrent[d]
  BY <1>2 DEF InsertCurrent
<1>3. \A d \in Ids : memCurrent'[d] \in Revision \cup {None}
  <2> SUFFICES ASSUME NEW d \in Ids PROVE memCurrent'[d] \in Revision \cup {None} OBVIOUS
  <2>1. CASE \E i \in DOMAIN rs : rs[i].directive = d
    <3>1. PICK i \in DOMAIN rs : rs[i].directive = d BY <2>1
    <3>2. rs[i] \in Revision BY BatchTyped
    <3> QED BY <1>1, <3>1, <3>2
  <2>2. CASE \A i \in DOMAIN rs : rs[i].directive # d
    BY <1>2, <2>2 DEF TypeOK
  <2> QED BY <2>1, <2>2
<1>4. memCurrent' = [d \in Ids |-> memCurrent'[d]] BY DEF InsertCurrent
<1> QED BY <1>1, <1>2, <1>3, <1>4

(* ... and appends their writes to the chain.                              *)
LEMMA BatchChain ==
  ASSUME TypeOK, NEW rs, Batch(rs), NEW awaited \in BOOLEAN, InsertCurrent(rs, awaited)
  PROVE  /\ chain' \in Seq(Item)
         /\ DOMAIN chain' = 1..(Len(chain) + Len(rs))
         /\ \A i \in DOMAIN chain : chain'[i] = chain[i]
         /\ \A i \in DOMAIN chain' :
              i > Len(chain) =>
                /\ i - Len(chain) \in DOMAIN rs
                /\ chain'[i].first = "revision"
                /\ chain'[i].subject = rs[i - Len(chain)]
<1> DEFINE new == [i \in DOMAIN rs |-> Write("revision", rs[i], awaited /\ i = Len(rs))]
<1>1. chain \in Seq(Item) BY DEF TypeOK, Item
<1>2. DOMAIN rs = 1..Len(rs) /\ Len(rs) \in Nat BY BatchTyped
<1>3. \A i \in DOMAIN rs : new[i] \in Item
  <2> SUFFICES ASSUME NEW i \in DOMAIN rs PROVE new[i] \in Item OBVIOUS
  <2>1. rs[i] \in Revision BY BatchTyped
  <2>2. rs[i] \in Subjects BY <2>1 DEF Subjects
  <2>3. (awaited /\ i = Len(rs)) \in BOOLEAN OBVIOUS
  <2> QED BY <2>2, <2>3 DEF Write, Item
<1>4. new \in Seq(Item) /\ Len(new) = Len(rs) BY <1>2, <1>3
<1>5. chain' = chain \o new BY DEF InsertCurrent
<1>6. \A i \in DOMAIN rs : new[i].first = "revision" /\ new[i].subject = rs[i] BY DEF Write
<1> HIDE DEF new
<1>7. /\ chain' \in Seq(Item) /\ Len(chain') = Len(chain) + Len(rs)
      /\ \A i \in 1..Len(chain) : chain'[i] = chain[i]
      /\ \A i \in 1..Len(new) : chain'[Len(chain) + i] = new[i]
  <2>1. /\ chain' \in Seq(Item) /\ Len(chain') = Len(chain) + Len(new)
        /\ \A i \in 1..(Len(chain) + Len(new)) :
             chain'[i] = IF i <= Len(chain) THEN chain[i] ELSE new[i - Len(chain)]
    BY <1>1, <1>4, <1>5, ConcatProperties
  <2>2. Len(chain) \in Nat /\ Len(new) \in Nat BY <1>1, <1>4
  <2> QED BY <1>4, <2>1, <2>2
<1>8. DOMAIN chain' = 1..(Len(chain) + Len(rs)) /\ DOMAIN chain = 1..Len(chain) /\ Len(chain) \in Nat
  BY <1>1, <1>7
<1>9. ASSUME NEW i \in DOMAIN chain', i > Len(chain)
      PROVE  /\ i - Len(chain) \in DOMAIN rs
             /\ chain'[i] = new[i - Len(chain)]
  <2>1. i - Len(chain) \in 1..Len(rs) /\ i = Len(chain) + (i - Len(chain)) BY <1>2, <1>8, <1>9
  <2> QED BY <2>1, <1>2, <1>4, <1>7
<1> QED BY <1>6, <1>7, <1>8, <1>9

(* What memory holds only moves forward, and a closed directive not at all.*)
LEMMA BatchForward ==
  ASSUME TypeOK, NEW rs, Batch(rs), NEW awaited \in BOOLEAN, InsertCurrent(rs, awaited),
         NEW d \in Ids, memCurrent[d] # None
  PROVE  /\ memCurrent'[d] # None
         /\ memCurrent[d].version <= memCurrent'[d].version
         /\ ~Open(d) => memCurrent'[d] = memCurrent[d]
<1>1. memCurrent[d] \in Revision BY DEF TypeOK
<1>2. memCurrent[d].version \in Nat BY <1>1 DEF Revision
<1>3. CASE \A i \in DOMAIN rs : rs[i].directive # d
  BY <1>2, <1>3, BatchCurrent
<1>4. CASE \E i \in DOMAIN rs : rs[i].directive = d
  <2>1. PICK i \in DOMAIN rs : rs[i].directive = d BY <1>4
  <2>2. Open(d) /\ rs[i].version = memCurrent[d].version + 1 BY <2>1 DEF Batch
  <2>3. memCurrent'[d] = rs[i] /\ rs[i] # None
    BY <2>1, BatchCurrent, BatchTyped, NoneAssumption
  <2> QED BY <1>2, <2>2, <2>3
<1> QED BY <1>3, <1>4

(* A revision that memory has caught up with stays behind memory.           *)
LEMMA BatchBehind ==
  ASSUME TypeOK, NEW rs, Batch(rs), NEW awaited \in BOOLEAN, InsertCurrent(rs, awaited),
         NEW r \in Revision, NEW d \in Ids, Behind(r, d)
  PROVE  Behind(r, d)'
<1>1. memCurrent[d] \in Revision /\ memCurrent'[d] \in Revision \cup {None}
  BY BatchCurrent DEF TypeOK, Behind
<1>2. /\ memCurrent'[d] # None
      /\ memCurrent[d].version <= memCurrent'[d].version
      /\ ~Open(d) => memCurrent'[d] = memCurrent[d]
  BY BatchForward DEF Behind
<1>3. r.version \in Nat /\ memCurrent[d].version \in Nat /\ memCurrent'[d].version \in Nat
  BY <1>1, <1>2 DEF Revision
<1>4. r.version <= memCurrent'[d].version BY <1>2, <1>3 DEF Behind
<1>5. ASSUME terminalStatus(r.status)
      PROVE  ~Open(d)' /\ memCurrent'[d].version = r.version
  <2>1. ~Open(d) /\ memCurrent[d].version = r.version BY <1>5 DEF Behind
  <2>2. memCurrent'[d] = memCurrent[d] BY <1>2, <2>1
  <2> QED BY <2>1, <2>2 DEF Open
<1> QED BY <1>2, <1>4, <1>5 DEF Behind

(* A revision of the batch, once inserted, lies between the database and   *)
(* memory.                                                                 *)
LEMMA BatchBetween ==
  ASSUME IInv, NEW rs, Batch(rs), NEW awaited \in BOOLEAN, InsertCurrent(rs, awaited),
         NEW i \in DOMAIN rs
  PROVE  Behind(rs[i], rs[i].directive)' /\ Ahead(rs[i])'
<1> DEFINE d == rs[i].directive
<1>1. rs[i] \in Revision /\ d \in Ids BY BatchTyped
<1>2. memCurrent'[d] = rs[i] BY BatchCurrent DEF IInv
<1>3. Behind(rs[i], d)' BY <1>1, <1>2, NoneAssumption DEF Behind, Open, Revision
<1>4. dbCurrent' = dbCurrent BY DEF InsertCurrent, database
<1>5. ASSUME dbCurrent[d] # None PROVE dbCurrent[d].version < rs[i].version
  <2>1. memCurrent[d] # None /\ dbCurrent[d].version <= memCurrent[d].version
    BY <1>1, <1>5 DEF IInv, StoredBehind, Behind
  <2>2. rs[i].version = memCurrent[d].version + 1 BY <2>1 DEF Batch
  <2>3. dbCurrent[d] \in Revision /\ memCurrent[d] \in Revision
    BY <1>1, <1>5, <2>1 DEF IInv, TypeOK
  <2>4. dbCurrent[d].version \in Nat /\ memCurrent[d].version \in Nat BY <2>3 DEF Revision
  <2> QED BY <2>1, <2>2, <2>4
<1> QED BY <1>3, <1>4, <1>5 DEF Ahead

(* insertCurrent of a batch keeps the invariant.                           *)
LEMMA BatchKeeps ==
  ASSUME IInv, NEW rs, Batch(rs), NEW awaited \in BOOLEAN, InsertCurrent(rs, awaited)
  PROVE  IInv'
<1> USE DEF IInv
<1>1. /\ DOMAIN rs = 1..Len(rs) /\ Len(rs) \in Nat
      /\ \A i \in DOMAIN rs : rs[i] \in Revision /\ rs[i].directive \in Ids
  BY BatchTyped
<1>2. /\ \A i \in DOMAIN rs : memCurrent'[rs[i].directive] = rs[i]
      /\ \A d \in Ids : (\A i \in DOMAIN rs : rs[i].directive # d) => memCurrent'[d] = memCurrent[d]
      /\ memCurrent' \in [Ids -> Revision \cup {None}]
  BY BatchCurrent
<1>3. /\ chain' \in Seq(Item)
      /\ DOMAIN chain' = 1..(Len(chain) + Len(rs))
      /\ \A i \in DOMAIN chain : chain'[i] = chain[i]
      /\ \A i \in DOMAIN chain' :
           i > Len(chain) =>
             /\ i - Len(chain) \in DOMAIN rs
             /\ chain'[i].first = "revision"
             /\ chain'[i].subject = rs[i - Len(chain)]
  BY BatchChain
<1>4. DOMAIN chain = 1..Len(chain) /\ Len(chain) \in Nat BY DEF TypeOK
<1>5. /\ lastId' = lastId + Len(rs) /\ lastId' <= MaxId
      /\ memRevisions' = memRevisions \cup {rs[i] : i \in DOMAIN rs}
      /\ UNCHANGED <<proposals, memActivities, dbRevisions, dbCurrent, dbActivities, dbAudits>>
      /\ UNCHANGED <<failures, acked, failed>>
  BY DEF InsertCurrent, database
<1>6. TypeOK'
  <2>1. memRevisions' \subseteq Revision BY <1>1, <1>5 DEF TypeOK
  <2>2. lastId' \in 0..MaxId BY <1>1, <1>5, ContextAssumption DEF TypeOK
  <2> QED BY <1>2, <1>3, <1>5, <2>1, <2>2 DEF TypeOK, Item
<1>7. PendingTyped' BY <1>1, <1>3, <1>4 DEF PendingTyped
<1>8. MemoryKnown'
  <2> SUFFICES ASSUME NEW d \in Ids, memCurrent'[d] # None
               PROVE  memCurrent'[d].directive = d /\ d <= lastId'
    BY DEF MemoryKnown
  <2>1. CASE \A i \in DOMAIN rs : rs[i].directive # d
    <3>1. memCurrent[d].directive = d /\ d <= lastId BY <1>2, <2>1 DEF MemoryKnown
    <3>2. lastId \in Nat /\ d \in Nat BY DEF TypeOK, Ids
    <3> QED BY <1>1, <1>2, <1>5, <2>1, <3>1, <3>2
  <2>2. CASE \E i \in DOMAIN rs : rs[i].directive = d
    <3>1. PICK i \in DOMAIN rs : rs[i].directive = d BY <2>2
    <3> QED BY <1>2, <1>5, <3>1 DEF Batch
  <2> QED BY <2>1, <2>2
<1>9. StoredBehind'
  <2> SUFFICES ASSUME NEW d \in Ids, dbCurrent[d] # None
               PROVE  dbCurrent[d].directive = d /\ Behind(dbCurrent[d], d)'
    BY <1>5 DEF StoredBehind, Behind
  <2>1. dbCurrent[d].directive = d /\ Behind(dbCurrent[d], d) BY DEF StoredBehind
  <2>2. dbCurrent[d] \in Revision BY DEF TypeOK
  <2>3. \A r \in Revision : Behind(r, d) => Behind(r, d)' BY BatchBehind
  <2>4. dbCurrent' = dbCurrent BY <1>5
  <2>5. Behind(dbCurrent[d], d)' BY <2>1, <2>2, <2>3, <2>4 DEF Behind
  <2> QED BY <2>1, <2>5
<1>10. StoredCurrentIsNewest' BY <1>5 DEF StoredCurrentIsNewest
<1>11. PendingBetween'
  <2> SUFFICES ASSUME NEW i \in DOMAIN chain', chain'[i].first = "revision"
               PROVE  Behind(chain[i].subject, chain[i].subject.directive)' /\ Ahead(chain[i].subject)'
    BY DEF PendingBetween, Pending
  <2>1. CASE i <= Len(chain)
    <3> DEFINE r == chain[i].subject
    <3>1. i \in DOMAIN chain /\ chain'[i] = chain[i] BY <1>3, <1>4, <2>1
    <3>2. Behind(r, r.directive) /\ Ahead(r) BY <3>1 DEF PendingBetween, Pending
    <3>3. r \in Revision BY <3>1 DEF PendingTyped
    <3>4. r.directive \in Ids BY <3>3 DEF Revision
    <3>5. \A s \in Revision, d \in Ids : Behind(s, d) => Behind(s, d)' BY BatchBehind
    <3>6. Behind(chain[i].subject, chain[i].subject.directive)' BY <3>1, <3>2, <3>3, <3>4, <3>5 DEF Behind, Open
    <3>7. Ahead(chain[i].subject)' BY <3>1, <3>2, <1>5 DEF Ahead
    <3> QED BY <3>6, <3>7
  <2>2. CASE i > Len(chain)
    <3>1. PICK j \in DOMAIN rs : chain'[i].subject = rs[j] BY <1>3, <2>2
    <3>2. Behind(rs[j], rs[j].directive)' /\ Ahead(rs[j])' BY <3>1, BatchBetween
    <3> QED BY <3>1, <3>2 DEF Behind, Open, Ahead
  <2> QED BY <1>3, <1>4, <1>1, <2>1, <2>2
<1>12. PendingOrdered'
  <2> SUFFICES ASSUME NEW i \in DOMAIN chain', NEW j \in DOMAIN chain', i < j,
                      chain'[i].first = "revision", chain'[j].first = "revision",
                      chain'[i].subject.directive = chain'[j].subject.directive
               PROVE  chain'[i].subject.version < chain'[j].subject.version
    BY DEF PendingOrdered, Pending
  <2>1. CASE j <= Len(chain)
    <3>1. i \in DOMAIN chain /\ j \in DOMAIN chain BY <1>1, <1>3, <1>4, <2>1
    <3> QED BY <1>3, <3>1 DEF PendingOrdered, Pending
  <2>2. CASE j > Len(chain) /\ i <= Len(chain)
    <3> DEFINE r == chain[i].subject
               q == rs[j - Len(chain)]
               d == r.directive
    <3>1. i \in DOMAIN chain /\ chain'[i] = chain[i] BY <1>1, <1>3, <1>4, <2>2
    <3>2. j - Len(chain) \in DOMAIN rs /\ chain'[j].subject = q BY <1>3, <2>2
    <3>3. r \in Revision /\ q \in Revision BY <1>1, <3>1, <3>2 DEF PendingTyped
    <3>4. d \in Ids /\ q.directive = d BY <3>1, <3>2, <3>3 DEF Revision
    <3>5. memCurrent[d] # None /\ r.version <= memCurrent[d].version
      BY <3>1 DEF PendingBetween, Pending, Behind
    <3>6. q.version = memCurrent[d].version + 1 BY <3>2, <3>4, <3>5 DEF Batch
    <3>7. memCurrent[d] \in Revision BY <3>4, <3>5 DEF TypeOK
    <3>8. r.version \in Nat /\ memCurrent[d].version \in Nat BY <3>3, <3>7 DEF Revision
    <3> QED BY <3>1, <3>2, <3>5, <3>6, <3>8
  <2>3. CASE i > Len(chain)
    <3>1. /\ i - Len(chain) \in DOMAIN rs /\ j - Len(chain) \in DOMAIN rs
          /\ chain'[i].subject = rs[i - Len(chain)] /\ chain'[j].subject = rs[j - Len(chain)]
      BY <1>1, <1>3, <1>4, <2>3
    <3>2. i - Len(chain) = j - Len(chain) BY <3>1 DEF Batch
    <3> QED BY <1>1, <1>3, <1>4, <3>2
  <2> QED BY <1>1, <1>3, <1>4, <2>1, <2>2, <2>3
<1> QED BY <1>6, <1>7, <1>8, <1>9, <1>10, <1>11, <1>12

-----------------------------------------------------------------------------
(* The requests that write a directive.                                    *)

(* createVersion, expire, activate and revoke: the next revision of an     *)
(* open directive.                                                         *)
LEMMA ReviseInserts ==
  ASSUME IInv, NEW d \in Ids, Open(d), NEW status \in Statuses, NEW dated \in BOOLEAN,
         Revise(d, status, dated)
  PROVE  Inserts
<1> DEFINE r == Snapshot(memCurrent[d], lastId + 1, status, dated)
           rs == <<r>>
<1>1. InsertCurrent(rs, TRUE) BY DEF Revise
<1>2. lastId + 1 \in Ids
  BY <1>1, ContextAssumption DEF InsertCurrent, Ids, IInv, TypeOK
<1>3. memCurrent[d] \in Revision /\ memCurrent[d].directive = d
  BY DEF Open, IInv, TypeOK, MemoryKnown
<1>4. r \in Revision BY <1>2, <1>3 DEF Snapshot, Revision
<1>5. r.directive = d /\ r.version = memCurrent[d].version + 1 BY <1>3 DEF Snapshot
<1>6. d <= lastId + 1 BY DEF Open, IInv, MemoryKnown, TypeOK, Ids
<1>9. r.supersedes = memCurrent[d].supersedes BY DEF Snapshot
<1> HIDE DEF r
<1>7. rs \in Seq(Revision) /\ DOMAIN rs = {1} /\ rs[1] = r /\ Len(rs) = 1 BY <1>4
<1>8. Batch(rs) BY <1>5, <1>6, <1>7 DEF Batch
<1>10. Covered(rs) BY <1>5, <1>7, <1>9 DEF Covered, Open
<1> HIDE DEF rs
<1> QED BY <1>1, <1>7, <1>8, <1>10 DEF Inserts

(* createDirective and supersede, also when they stop at a predecessor     *)
(* that is closed already.                                                 *)
LEMMA PublishInserts ==
  ASSUME IInv, NEW ps \in PredecessorLists, NEW status \in {"draft", "active"}, Publish(ps, status)
  PROVE  Inserts
<1> USE DEF IInv
<1>1. PICK n \in 0..MaxPredecessors : ps \in [1..n -> Ids] BY DEF PredecessorLists
<1>2. \A i, j \in DOMAIN ps : ps[i] = ps[j] => i = j BY DEF PredecessorLists
<1>3. n \in Nat /\ DOMAIN ps = 1..n /\ Len(ps) = n /\ ps \in Seq(Ids) BY <1>1, ContextAssumption
<1> DEFINE closed(k) == [i \in 1..k |-> Closed(ps[i], lastId + i)]
           successor(k) ==
             [id |-> lastId + k + 1, directive |-> lastId + k + 1, version |-> 1, status |-> status,
              dated |-> TRUE, supersedes |-> {ps[i] : i \in DOMAIN ps}]
<1>4. PICK k \in 0..n :
        /\ \A i \in 1..k : Open(ps[i])
        /\ \/ k = n /\ InsertCurrent(Append(closed(k), successor(k)), TRUE)
           \/ InsertCurrent(closed(k), FALSE)
  BY <1>3 DEF Publish
<1> DEFINE cs == closed(k)
           r == successor(k)
<1>5. k \in Nat /\ lastId \in Nat BY <1>3, <1>4 DEF TypeOK
<1>6. ASSUME NEW i \in 1..k
      PROVE  /\ ps[i] \in Ids /\ memCurrent[ps[i]] \in Revision
             /\ memCurrent[ps[i]].directive = ps[i] /\ ps[i] <= lastId
  <2>1. i \in DOMAIN ps /\ ps[i] \in Ids BY <1>1, <1>3, <1>4
  <2> QED BY <1>4, <2>1 DEF Open, TypeOK, MemoryKnown
<1>7. ASSUME NEW i \in 1..k
      PROVE  cs[i].directive = ps[i] /\ cs[i].version = memCurrent[ps[i]].version + 1
  BY <1>6, <1>7 DEF Closed, Snapshot
<1>8. ASSUME NEW i \in 1..k, lastId + k <= MaxId PROVE cs[i] \in Revision
  <2>1. lastId + i \in Ids BY <1>5, <1>8, ContextAssumption DEF Ids
  <2> QED BY <1>6, <2>1 DEF Closed, Snapshot, Revision, Statuses
<1>9. ASSUME lastId + k <= MaxId PROVE cs \in Seq(Revision) /\ Len(cs) = k /\ DOMAIN cs = 1..k
  BY <1>5, <1>8, <1>9
<1>10. ASSUME NEW i \in 1..k
       PROVE  /\ cs[i].status = "superseded"
              /\ memCurrent[cs[i].directive] # None
              /\ cs[i].supersedes = memCurrent[cs[i].directive].supersedes
  BY <1>4, <1>6, <1>7, <1>10 DEF Closed, Snapshot, Open
<1>11. CASE InsertCurrent(cs, FALSE)
  <2>1. Len(cs) = k BY <1>5
  <2>2. lastId + k <= MaxId BY <1>11, <2>1 DEF InsertCurrent
  <2>3. cs \in Seq(Revision) /\ DOMAIN cs = 1..k BY <1>9, <2>2
  <2>4. \A i, j \in 1..k : cs[i].directive = cs[j].directive => i = j
    BY <1>2, <1>3, <1>4, <1>7
  <2>5. \A i \in 1..k : cs[i].directive <= lastId + k
    <3> SUFFICES ASSUME NEW i \in 1..k PROVE cs[i].directive <= lastId + k OBVIOUS
    <3>1. ps[i] \in Nat BY <1>6 DEF Ids
    <3> QED BY <1>5, <1>6, <1>7, <3>1
  <2>6. \A i \in 1..k : Open(cs[i].directive) /\ cs[i].version = memCurrent[cs[i].directive].version + 1
    BY <1>4, <1>7
  <2> HIDE DEF cs
  <2>7. Batch(cs) BY <2>1, <2>3, <2>4, <2>5, <2>6 DEF Batch
  <2>8. Covered(cs) BY <1>10, <2>3 DEF Covered
  <2> QED BY <1>11, <2>3, <2>7, <2>8 DEF Inserts
<1>12. CASE k = n /\ InsertCurrent(Append(cs, r), TRUE)
  <2> DEFINE rs == Append(cs, r)
             d == lastId + k + 1
  <2>1. Len(cs) = k BY <1>5
  <2>2. Len(rs) = k + 1 BY <2>1, <1>5
  <2>3. lastId + k + 1 <= MaxId BY <1>12, <1>5, <2>2 DEF InsertCurrent
  <2>4. d \in Ids BY <1>5, <2>3, ContextAssumption DEF Ids
  <2>5. r \in Revision
    <3>1. {ps[i] : i \in DOMAIN ps} \subseteq Ids BY <1>1, <1>3
    <3> QED BY <2>4, <3>1 DEF Revision, Statuses
  <2>6. cs \in Seq(Revision) /\ DOMAIN cs = 1..k BY <1>5, <1>9, <2>3, ContextAssumption
  <2>7. r.directive = d /\ r.version = 1 /\ r.supersedes = {ps[i] : i \in 1..k}
    BY <1>3, <1>12 DEF r
  <2>8. memCurrent[d] = None BY <1>5, <2>4 DEF MemoryKnown
  <2> HIDE DEF r
  <2>9. \A i \in 1..k : rs[i] = cs[i] BY <2>1, <2>6
  <2>10. rs[k + 1] = r BY <2>1, <2>6
  <2>11. rs \in Seq(Revision) /\ DOMAIN rs = 1..(k + 1) BY <2>2, <2>5, <2>6
  <2>12. \A i \in 1..k : ps[i] # d /\ ps[i] <= lastId + k + 1
    <3> SUFFICES ASSUME NEW i \in 1..k PROVE ps[i] # d /\ ps[i] <= lastId + k + 1 OBVIOUS
    <3>1. ps[i] \in Nat /\ ps[i] <= lastId BY <1>6 DEF Ids
    <3> QED BY <1>5, <3>1
  <2>13. \A i \in 1..k : rs[i].directive = ps[i] BY <1>7, <2>9
  <2>14. rs[k + 1].directive = d BY <2>7, <2>10
  <2>15. \A i, j \in 1..k : ps[i] = ps[j] => i = j
    <3>1. \A i \in 1..k : i \in DOMAIN ps BY <1>3, <1>4
    <3> QED BY <1>2, <3>1
  <2>16. \A i, j \in 1..(k + 1) : rs[i].directive = rs[j].directive => i = j
    <3> SUFFICES ASSUME NEW i \in 1..(k + 1), NEW j \in 1..(k + 1), rs[i].directive = rs[j].directive
                 PROVE  i = j
      OBVIOUS
    <3>1. (i \in 1..k \/ i = k + 1) /\ (j \in 1..k \/ j = k + 1) BY <1>5
    <3> HIDE DEF rs
    <3>2. CASE i \in 1..k /\ j \in 1..k BY <2>13, <2>15, <3>2
    <3>3. CASE i = k + 1 /\ j \in 1..k BY <2>12, <2>13, <2>14, <3>3
    <3>4. CASE i \in 1..k /\ j = k + 1 BY <2>12, <2>13, <2>14, <3>4
    <3> QED BY <3>1, <3>2, <3>3, <3>4
  <2>17. ASSUME NEW i \in 1..(k + 1)
         PROVE  /\ rs[i].directive <= lastId + (k + 1)
                /\ \/ memCurrent[rs[i].directive] = None /\ rs[i].version = 1
                   \/ /\ Open(rs[i].directive)
                      /\ rs[i].version = memCurrent[rs[i].directive].version + 1
    <3>1. i \in 1..k \/ i = k + 1 BY <1>5
    <3>2. CASE i \in 1..k
      <4>1. rs[i].directive = ps[i] /\ rs[i].version = memCurrent[ps[i]].version + 1
        BY <1>7, <2>9, <2>13, <3>2
      <4>2. ps[i] <= lastId + (k + 1) BY <1>5, <2>12, <3>2
      <4> QED BY <1>4, <3>2, <4>1, <4>2
    <3>3. CASE i = k + 1 BY <1>5, <2>7, <2>8, <2>10, <2>14, <3>3
    <3> QED BY <3>1, <3>2, <3>3
  <2> HIDE DEF rs
  <2>18. Batch(rs) BY <2>2, <2>11, <2>16, <2>17 DEF Batch
  <2>19. InsertCurrent(rs, TRUE) BY <1>12 DEF rs
  <2>20. Covered(rs)
    <3> SUFFICES ASSUME NEW i \in 1..(k + 1), NEW p \in Ids, p \in rs[i].supersedes
                 PROVE  \/ \E j \in 1..(k + 1) : /\ j < i /\ rs[j].directive = p
                                                /\ rs[j].status = "superseded"
                        \/ /\ memCurrent[rs[i].directive] # None
                           /\ p \in memCurrent[rs[i].directive].supersedes
      BY <2>11 DEF Covered
    <3>1. CASE i \in 1..k BY <1>10, <2>9, <3>1
    <3>2. CASE i = k + 1
      <4>1. PICK j \in 1..k : p = ps[j] BY <2>7, <2>10, <3>2
      <4>2. rs[j].directive = p /\ rs[j].status = "superseded" BY <1>10, <2>9, <2>13, <4>1
      <4>3. j \in 1..(k + 1) /\ j < i BY <1>5, <3>2
      <4> QED BY <4>2, <4>3
    <3> QED BY <1>5, <3>1, <3>2
  <2> QED BY <2>11, <2>18, <2>19, <2>20 DEF Inserts
<1> QED BY <1>4, <1>11, <1>12

(* The requests that insert revisions.                                     *)
Requests == createDirective \/ supersede \/ createVersion \/ expire \/ activate \/ revoke

LEMMA RequestsInsert ==
  ASSUME IInv, Requests
  PROVE  Inserts
<1>1. CASE createDirective BY <1>1, PublishInserts DEF createDirective
<1>2. CASE supersede BY <1>2, PublishInserts DEF supersede
<1>3. CASE createVersion
  <2>1. PICK d \in Ids, dated \in BOOLEAN : Open(d) /\ Revise(d, memCurrent[d].status, dated)
    BY <1>3 DEF createVersion
  <2>2. memCurrent[d] \in Revision BY <2>1 DEF Open, IInv, TypeOK
  <2>3. memCurrent[d].status \in Statuses BY <2>2 DEF Revision
  <2> QED BY <2>1, <2>3, ReviseInserts
<1>4. CASE expire BY <1>4, ReviseInserts DEF expire, Statuses
<1>5. CASE activate \/ revoke
  <2>1. PICK d \in Ids, status \in Statuses : Open(d) /\ Revise(d, status, memCurrent[d].dated)
    BY <1>5 DEF activate, revoke, Statuses
  <2>2. memCurrent[d] \in Revision BY <2>1 DEF Open, IInv, TypeOK
  <2>3. memCurrent[d].dated \in BOOLEAN BY <2>2 DEF Revision
  <2> QED BY <2>1, <2>3, ReviseInserts
<1> QED BY <1>1, <1>2, <1>3, <1>4, <1>5 DEF Requests

-----------------------------------------------------------------------------
(* The rest of the requests, and the writes.                               *)

(* A step that leaves directives alone keeps the invariant if every        *)
(* revision it leaves in the chain was there, in the same order.           *)
LEMMA ShiftKeeps ==
  ASSUME IInv, TypeOK', NEW s \in Nat, lastId <= lastId',
         UNCHANGED <<memCurrent, dbCurrent, dbRevisions>>,
         \A i \in DOMAIN chain' :
           \/ i + s \in DOMAIN chain /\ chain'[i] = chain[i + s]
           \/ chain'[i].first = "audit"
           \/ chain'[i].first = "activity" /\ chain'[i].subject \in Report
  PROVE  IInv'
<1> USE DEF IInv
<1>1. DOMAIN chain' \subseteq Nat BY DEF TypeOK
<1>2. \A i \in DOMAIN chain' :
        chain'[i].first = "revision" => i + s \in DOMAIN chain /\ chain'[i] = chain[i + s]
  OBVIOUS
<1>3. PendingTyped' BY DEF PendingTyped
<1>4. MemoryKnown'
  <2> SUFFICES ASSUME NEW d \in Ids, memCurrent[d] # None PROVE memCurrent[d].directive = d /\ d <= lastId'
    BY DEF MemoryKnown
  <2>1. memCurrent[d].directive = d /\ d <= lastId BY DEF MemoryKnown
  <2>2. d \in Nat /\ lastId \in Nat /\ lastId' \in Nat BY DEF TypeOK, Ids
  <2> QED BY <2>1, <2>2
<1>5. StoredBehind' BY DEF StoredBehind, Behind, Open
<1>6. StoredCurrentIsNewest' BY DEF StoredCurrentIsNewest
<1>7. PendingBetween' BY <1>2 DEF PendingBetween, Pending, Behind, Open, Ahead
<1>8. PendingOrdered'
  <2> SUFFICES ASSUME NEW i \in DOMAIN chain', NEW j \in DOMAIN chain', i < j,
                      chain'[i].first = "revision", chain'[j].first = "revision",
                      chain'[i].subject.directive = chain'[j].subject.directive
               PROVE  chain'[i].subject.version < chain'[j].subject.version
    BY DEF PendingOrdered, Pending
  <2>1. i + s < j + s BY <1>1
  <2> QED BY <1>2, <2>1 DEF PendingOrdered, Pending
<1> QED BY <1>3, <1>4, <1>5, <1>6, <1>7, <1>8

(* A request that queues one write other than a revision's.                *)
LEMMA AppendKeeps ==
  ASSUME IInv, NEW w \in Item, chain' = Append(chain, w),
         w.first = "audit" \/ (w.first = "activity" /\ w.subject \in Report),
         lastId < MaxId, lastId' = lastId + 1,
         proposals' \in [Ids -> {"none", "pending", "rejected"}],
         memActivities' \in [Sessions -> Scopes \cup {None}],
         UNCHANGED <<memRevisions, memCurrent, database, failures, acked, failed>>
  PROVE  IInv'
<1> USE DEF IInv
<1>1. chain \in Seq(Item) BY DEF TypeOK, Item
<1>2. chain' \in Seq(Item) BY <1>1
<1>3. lastId' \in 0..MaxId /\ lastId <= lastId' BY ContextAssumption DEF TypeOK
<1>4. TypeOK' BY <1>2, <1>3 DEF TypeOK, Item, database
<1>5. \A i \in DOMAIN chain' :
        (i + 0 \in DOMAIN chain /\ chain'[i] = chain[i + 0]) \/ chain'[i] = w
  BY <1>1
<1>6. UNCHANGED <<memCurrent, dbCurrent, dbRevisions>> BY DEF database
<1> QED BY <1>3, <1>4, <1>5, <1>6, ShiftKeeps

(* A proposal is submitted or rejected.                                    *)
LEMMA SetProposalKeeps ==
  ASSUME IInv, NEW p \in Ids, NEW status \in {"pending", "rejected"}, SetProposal(p, status)
  PROVE  IInv'
<1> DEFINE w == Write("audit", [id |-> lastId + 1], TRUE)
<1>1. lastId + 1 \in Ids BY ContextAssumption DEF SetProposal, IInv, TypeOK, Ids
<1>2. [id |-> lastId + 1] \in Subjects BY <1>1 DEF Subjects
<1>3. w \in Item /\ w.first = "audit" BY <1>2 DEF Write, Item
<1>4. proposals' \in [Ids -> {"none", "pending", "rejected"}] BY DEF SetProposal, IInv, TypeOK
<1>5. chain' = Append(chain, w) BY DEF SetProposal
<1>6. /\ lastId < MaxId /\ lastId' = lastId + 1
      /\ memActivities' \in [Sessions -> Scopes \cup {None}]
      /\ UNCHANGED <<memRevisions, memCurrent, database, failures, acked, failed>>
  BY DEF SetProposal, IInv, TypeOK
<1> HIDE DEF w
<1>7. w.first = "audit" \/ (w.first = "activity" /\ w.subject \in Report) BY <1>3
<1>8. w \in Item BY <1>3
<1> QED BY <1>4, <1>5, <1>6, <1>7, <1>8, AppendKeeps

(* An agent reports its activity.                                          *)
LEMMA ActivityKeeps == IInv /\ recordAgentActivity => IInv'
<1> SUFFICES ASSUME IInv, recordAgentActivity PROVE IInv' OBVIOUS
<1>1. PICK s \in Sessions, scope \in Scopes, fits \in BOOLEAN :
        /\ lastId < MaxId /\ lastId' = lastId + 1
        /\ memActivities' = [memActivities EXCEPT ![s] = scope]
        /\ chain' = Append(chain, Write("activity",
             [id |-> lastId + 1, session |-> s, scope |-> scope, fits |-> fits], TRUE))
        /\ UNCHANGED <<memRevisions, memCurrent, proposals, database, failures, acked, failed>>
  BY DEF recordAgentActivity
<1> DEFINE a == [id |-> lastId + 1, session |-> s, scope |-> scope, fits |-> fits]
           w == Write("activity", a, TRUE)
<1>2. lastId + 1 \in Ids BY <1>1, ContextAssumption DEF IInv, TypeOK, Ids
<1>3. a \in Report BY <1>2 DEF Report
<1>4. w \in Item /\ w.first = "activity" /\ w.subject \in Report BY <1>3 DEF Write, Item, Subjects
<1>5. memActivities' \in [Sessions -> Scopes \cup {None}] BY <1>1 DEF IInv, TypeOK
<1>6. proposals' \in [Ids -> {"none", "pending", "rejected"}] BY <1>1 DEF IInv, TypeOK
<1>7. chain' = Append(chain, w) BY <1>1
<1> HIDE DEF w
<1> QED BY <1>1, <1>4, <1>5, <1>6, <1>7, AppendKeeps

(* The oldest write of the chain.                                          *)
LEMMA HeadTyped ==
  ASSUME IInv, chain # <<>>
  PROVE  /\ 1 \in DOMAIN chain /\ Head(chain) = chain[1] /\ chain[1] \in Item
         /\ chain[1].subject.id \in Ids
         /\ chain[1].first = "revision" => chain[1].subject \in Revision
         /\ chain[1].first = "activity" => chain[1].subject \in Report
<1>1. chain \in Seq(Item) BY DEF IInv, TypeOK, Item
<1>2. 1 \in DOMAIN chain /\ Head(chain) = chain[1] /\ chain[1] \in Item BY <1>1
<1>3. chain[1].subject \in Subjects BY <1>2 DEF Item
<1>4. chain[1].subject.id \in Ids BY <1>3 DEF Subjects, Revision, Report
<1> QED BY <1>2, <1>4 DEF IInv, PendingTyped

(* Its transaction has run and its audit event is next.                    *)
LEMMA ThenAuditChain ==
  ASSUME IInv, chain # <<>>, ThenAudit(Head(chain))
  PROVE  /\ chain' \in Seq(Item) /\ DOMAIN chain' = DOMAIN chain
         /\ chain'[1].first = "audit"
         /\ \A i \in DOMAIN chain' : i # 1 => chain'[i] = chain[i]
<1> DEFINE w == Write("audit", Head(chain).subject, Head(chain).awaited)
           head == <<w>>
<1>1. chain \in Seq(Item) BY DEF IInv, TypeOK, Item
<1>2. w \in Item /\ w.first = "audit" BY HeadTyped DEF Write, Item
<1>3. chain' = head \o Tail(chain) BY DEF ThenAudit
<1> HIDE DEF w
<1>4. head \in Seq(Item) /\ Len(head) = 1 /\ head[1] = w BY <1>2
<1>5. /\ Tail(chain) \in Seq(Item) /\ Len(Tail(chain)) = Len(chain) - 1
      /\ \A i \in 1..(Len(chain) - 1) : Tail(chain)[i] = chain[i + 1]
  BY <1>1
<1>6. Len(chain) \in Nat /\ Len(chain) >= 1 /\ DOMAIN chain = 1..Len(chain) BY <1>1
<1> DEFINE rest == Tail(chain)
<1> HIDE DEF head, rest
<1>7. /\ chain' \in Seq(Item) /\ Len(chain') = Len(head) + Len(rest)
      /\ \A i \in 1..(Len(head) + Len(rest)) :
           chain'[i] = IF i <= Len(head) THEN head[i] ELSE rest[i - Len(head)]
  BY <1>3, <1>4, <1>5, ConcatProperties DEF rest
<1>8. Len(chain') = Len(chain) /\ Len(head) + Len(rest) = Len(chain) BY <1>4, <1>5, <1>6, <1>7 DEF rest
<1>9. DOMAIN chain' = DOMAIN chain
  <2>1. DOMAIN chain' = 1..Len(chain') BY <1>7
  <2> QED BY <1>6, <1>8, <2>1
<1>10. chain'[1] = w BY <1>4, <1>6, <1>7, <1>8
<1>11. ASSUME NEW i \in DOMAIN chain', i # 1 PROVE chain'[i] = chain[i]
  <2>1. i - 1 \in 1..(Len(chain) - 1) /\ ~(i <= 1) /\ (i - 1) + 1 = i BY <1>6, <1>9, <1>11
  <2>2. chain'[i] = rest[i - 1] BY <1>4, <1>6, <1>7, <1>8, <1>9, <2>1
  <2> QED BY <1>5, <2>1, <2>2 DEF rest
<1> QED BY <1>2, <1>7, <1>9, <1>10, <1>11

(* The audit event has been written, or not.                               *)
LEMMA TailChain ==
  ASSUME IInv, chain # <<>>, chain' = Tail(chain)
  PROVE  /\ chain' \in Seq(Item)
         /\ \A i \in DOMAIN chain' : i + 1 \in DOMAIN chain /\ chain'[i] = chain[i + 1]
<1>1. chain \in Seq(Item) BY DEF IInv, TypeOK, Item
<1> QED BY <1>1

(* The oldest write's transaction has run without touching directives.     *)
LEMMA ThenAuditKeeps ==
  ASSUME IInv, chain # <<>>, ThenAudit(Head(chain)),
         UNCHANGED <<memory, lastId, acked, dbRevisions, dbCurrent>>,
         dbActivities' \in [Sessions -> Scopes \cup {None}],
         dbAudits' \subseteq {"context", "activity"} \X Ids,
         failures' \in 0..MaxFailures, failed' \subseteq Revision \cup Report
  PROVE  IInv'
<1>1. /\ chain' \in Seq(Item) /\ DOMAIN chain' = DOMAIN chain
      /\ chain'[1].first = "audit"
      /\ \A i \in DOMAIN chain' : i # 1 => chain'[i] = chain[i]
  BY ThenAuditChain
<1>2. TypeOK' BY <1>1 DEF IInv, TypeOK, Item, memory
<1>3. DOMAIN chain' \subseteq Nat BY <1>1
<1>4. \A i \in DOMAIN chain' : i + 0 = i BY <1>3
<1>5. \A i \in DOMAIN chain' :
        (i + 0 \in DOMAIN chain /\ chain'[i] = chain[i + 0]) \/ chain'[i].first = "audit"
  BY <1>1, <1>4
<1>6. lastId <= lastId' BY DEF IInv, TypeOK
<1>7. UNCHANGED <<memCurrent, dbCurrent, dbRevisions>> BY DEF memory
<1> QED BY <1>2, <1>5, <1>6, <1>7, ShiftKeeps

(* A revision is stored: it is the next one of its directive, and newer    *)
(* than what is stored; those still queued for the directive are newer.    *)
LEMMA StoreKeeps ==
  ASSUME IInv, chain # <<>>, Head(chain).first = "revision",
         StoreRevision(Head(chain).subject), ThenAudit(Head(chain)),
         UNCHANGED <<memory, lastId, acked>>,
         failures' \in 0..MaxFailures, failed' \subseteq Revision \cup Report
  PROVE  IInv'
<1> USE DEF IInv
<1>1. PICK r : r = chain[1].subject OBVIOUS
<1>2. /\ 1 \in DOMAIN chain /\ Head(chain) = chain[1] /\ chain[1].first = "revision" /\ r \in Revision
  BY <1>1, HeadTyped
<1>3. PICK d \in Ids : d = r.directive BY <1>2 DEF Revision
<1>4. Behind(r, d) /\ Ahead(r) BY <1>1, <1>2, <1>3 DEF PendingBetween, Pending
<1>5. /\ dbRevisions' = dbRevisions \cup {r}
      /\ dbCurrent' = [dbCurrent EXCEPT ![d] = r]
      /\ UNCHANGED <<dbActivities, dbAudits>>
  BY <1>1, <1>2, <1>3 DEF StoreRevision
<1>6. dbCurrent'[d] = r /\ \A e \in Ids : e # d => dbCurrent'[e] = dbCurrent[e]
  BY <1>5 DEF TypeOK
<1>7. UNCHANGED <<memRevisions, memCurrent, proposals, memActivities>> BY DEF memory
<1>8. /\ chain' \in Seq(Item) /\ DOMAIN chain' = DOMAIN chain
      /\ chain'[1].first = "audit"
      /\ \A i \in DOMAIN chain' : i # 1 => chain'[i] = chain[i]
  BY ThenAuditChain
<1>9. \A i \in DOMAIN chain' :
        chain'[i].first = "revision" => i # 1 /\ i \in DOMAIN chain /\ chain'[i] = chain[i]
  BY <1>8
<1>10. TypeOK'
  <2>1. dbCurrent' \in [Ids -> Revision \cup {None}] BY <1>2, <1>5 DEF TypeOK
  <2>2. dbRevisions' \subseteq Revision BY <1>2, <1>5 DEF TypeOK
  <2> QED BY <1>5, <1>7, <1>8, <2>1, <2>2 DEF TypeOK, Item
<1>11. PendingTyped' BY <1>8 DEF PendingTyped
<1>12. MemoryKnown' BY <1>7 DEF MemoryKnown
<1>13. StoredBehind'
  <2> SUFFICES ASSUME NEW e \in Ids, dbCurrent'[e] # None
               PROVE  dbCurrent'[e].directive = e /\ Behind(dbCurrent[e], e)'
    BY DEF StoredBehind
  <2>1. CASE e = d
    <3>1. dbCurrent'[e] = r BY <1>6, <2>1
    <3> QED BY <1>3, <1>4, <1>7, <2>1, <3>1 DEF Behind, Open
  <2>2. CASE e # d
    <3>1. dbCurrent'[e] = dbCurrent[e] BY <1>6, <2>2
    <3>2. dbCurrent[e].directive = e /\ Behind(dbCurrent[e], e) BY <3>1 DEF StoredBehind
    <3> QED BY <1>7, <3>1, <3>2 DEF Behind, Open
  <2> QED BY <2>1, <2>2
<1>14. StoredCurrentIsNewest'
  <2> SUFFICES ASSUME NEW q \in dbRevisions'
               PROVE  dbCurrent'[q.directive] # None /\ q.version <= dbCurrent'[q.directive].version
    BY DEF StoredCurrentIsNewest
  <2>1. q \in Revision BY <1>10 DEF TypeOK
  <2>2. q.version \in Nat /\ q.directive \in Ids /\ r.version \in Nat BY <1>2, <2>1 DEF Revision
  <2>3. CASE q = r BY <1>2, <1>3, <1>6, <2>2, <2>3, NoneAssumption
  <2>4. CASE q \in dbRevisions
    <3>1. dbCurrent[q.directive] # None /\ q.version <= dbCurrent[q.directive].version
      BY <2>4 DEF StoredCurrentIsNewest
    <3>2. CASE q.directive = d
      <4>1. dbCurrent[d].version < r.version BY <1>3, <1>4, <3>1, <3>2 DEF Ahead
      <4>2. dbCurrent[d] \in Revision BY <3>1, <3>2 DEF TypeOK
      <4>3. dbCurrent[d].version \in Nat BY <4>2 DEF Revision
      <4>4. q.version <= r.version BY <2>2, <3>1, <3>2, <4>1, <4>3
      <4> QED BY <1>2, <1>6, <3>2, <4>4, NoneAssumption
    <3>3. CASE q.directive # d BY <1>6, <2>2, <3>1, <3>3
    <3> QED BY <3>2, <3>3
  <2> QED BY <1>5, <2>3, <2>4
<1>15. PendingBetween'
  <2> SUFFICES ASSUME NEW i \in DOMAIN chain', chain'[i].first = "revision"
               PROVE  Behind(chain[i].subject, chain[i].subject.directive)' /\ Ahead(chain[i].subject)'
    BY DEF PendingBetween, Pending
  <2>1. i # 1 /\ i \in DOMAIN chain /\ chain'[i] = chain[i] BY <1>9
  <2>2. PICK q : q = chain[i].subject OBVIOUS
  <2>3. q \in Revision BY <2>1, <2>2 DEF PendingTyped
  <2>4. Behind(q, q.directive) /\ Ahead(q) BY <2>1, <2>2 DEF PendingBetween, Pending
  <2>5. Behind(chain[i].subject, chain[i].subject.directive)' BY <1>7, <2>1, <2>2, <2>4 DEF Behind, Open
  <2>6. CASE q.directive = d
    <3>1. 1 < i BY <1>8, <2>1
    <3>2. r.version < q.version
      BY <1>1, <1>2, <1>3, <2>1, <2>2, <2>6, <3>1 DEF PendingOrdered, Pending
    <3>3. Ahead(chain[i].subject)' BY <1>6, <2>1, <2>2, <2>6, <3>2 DEF Ahead
    <3> QED BY <2>5, <3>3
  <2>7. CASE q.directive # d
    <3>1. q.directive \in Ids BY <2>3 DEF Revision
    <3>2. Ahead(chain[i].subject)' BY <1>6, <2>1, <2>2, <2>4, <2>7, <3>1 DEF Ahead
    <3> QED BY <2>5, <3>2
  <2> QED BY <2>6, <2>7
<1>16. PendingOrdered'
  <2> SUFFICES ASSUME NEW i \in DOMAIN chain', NEW j \in DOMAIN chain', i < j,
                      chain'[i].first = "revision", chain'[j].first = "revision",
                      chain'[i].subject.directive = chain'[j].subject.directive
               PROVE  chain'[i].subject.version < chain'[j].subject.version
    BY DEF PendingOrdered, Pending
  <2> QED BY <1>9 DEF PendingOrdered, Pending
<1> QED BY <1>10, <1>11, <1>12, <1>13, <1>14, <1>15, <1>16

(* The transaction of a revision: stored, refused or failed.               *)
LEMMA WriteRevisionKeeps == IInv /\ writeRevision => IInv'
<1> SUFFICES ASSUME IInv, writeRevision PROVE IInv' OBVIOUS
<1>1. /\ chain # <<>> /\ Head(chain).first = "revision" /\ ThenAudit(Head(chain))
      /\ UNCHANGED <<memory, lastId, acked>>
  BY DEF writeRevision, AfterFailure
<1>2. Head(chain).subject \in Revision BY <1>1, HeadTyped
<1>3. failed' \subseteq Revision \cup Report BY <1>2 DEF writeRevision, IInv, TypeOK
<1>4. failures' \in 0..MaxFailures BY ContextAssumption DEF writeRevision, Fail, IInv, TypeOK
<1>5. StoreRevision(Head(chain).subject) \/ UNCHANGED database BY DEF writeRevision, Fail
<1>6. CASE StoreRevision(Head(chain).subject) BY <1>1, <1>3, <1>4, <1>6, StoreKeeps
<1>7. CASE UNCHANGED database
  <2>1. /\ UNCHANGED <<memory, lastId, acked, dbRevisions, dbCurrent>>
        /\ dbActivities' \in [Sessions -> Scopes \cup {None}]
        /\ dbAudits' \subseteq {"context", "activity"} \X Ids
    BY <1>1, <1>7 DEF database, IInv, TypeOK
  <2> QED BY <1>1, <1>3, <1>4, <2>1, ThenAuditKeeps
<1> QED BY <1>5, <1>6, <1>7

(* The transaction of an agent's report.                                   *)
LEMMA WriteActivityKeeps == IInv /\ writeActivity => IInv'
<1> SUFFICES ASSUME IInv, writeActivity PROVE IInv' OBVIOUS
<1>1. /\ chain # <<>> /\ Head(chain).first = "activity" /\ ThenAudit(Head(chain))
      /\ UNCHANGED <<memory, lastId, acked>>
  BY DEF writeActivity, AfterFailure
<1>2. Head(chain).subject \in Report BY <1>1, HeadTyped
<1>3. failed' \subseteq Revision \cup Report BY <1>2 DEF writeActivity, IInv, TypeOK
<1>4. failures' \in 0..MaxFailures BY ContextAssumption DEF writeActivity, Fail, IInv, TypeOK
<1>5. StoreActivity(Head(chain).subject) \/ UNCHANGED database BY DEF writeActivity, Fail
<1>6. /\ UNCHANGED <<dbRevisions, dbCurrent>>
      /\ dbActivities' \in [Sessions -> Scopes \cup {None}]
      /\ dbAudits' \subseteq {"context", "activity"} \X Ids
  <2>1. PICK a \in Report : a = Head(chain).subject BY <1>2
  <2>2. a.scope \in Scopes /\ a.session \in Sessions /\ <<"activity", a.id>> \in {"context", "activity"} \X Ids
    BY DEF Report
  <2>3. CASE StoreActivity(a) BY <2>2, <2>3 DEF StoreActivity, IInv, TypeOK
  <2>4. CASE UNCHANGED database BY <2>4 DEF database, IInv, TypeOK
  <2> QED BY <1>5, <2>1, <2>3, <2>4
<1> QED BY <1>1, <1>3, <1>4, <1>6, ThenAuditKeeps

(* An audit event changes no directive.                                    *)
LEMMA AuditTyped ==
  ASSUME IInv, chain # <<>>, StoreAudit(Head(chain).subject) \/ UNCHANGED database
  PROVE  /\ UNCHANGED <<dbRevisions, dbCurrent, dbActivities>>
         /\ dbAudits' \subseteq {"context", "activity"} \X Ids
<1>1. Head(chain).subject.id \in Ids BY HeadTyped
<1> QED BY <1>1 DEF StoreAudit, database, IInv, TypeOK

(* The audit event is written or fails, and the chain goes on.             *)
LEMMA WriteAuditKeeps == IInv /\ (writeAudit \/ failAudit) => IInv'
<1> SUFFICES ASSUME IInv, writeAudit \/ failAudit PROVE IInv' OBVIOUS
<1>1. /\ chain # <<>> /\ chain' = Tail(chain)
      /\ StoreAudit(Head(chain).subject) \/ UNCHANGED database
      /\ UNCHANGED <<memory, lastId, failed>>
  BY DEF writeAudit, failAudit, Fail
<1>2. /\ UNCHANGED <<dbRevisions, dbCurrent, dbActivities>>
      /\ dbAudits' \subseteq {"context", "activity"} \X Ids
  BY <1>1, AuditTyped
<1>3. Head(chain).subject.id \in Ids BY <1>1, HeadTyped
<1>4. acked' \subseteq Ids BY <1>3 DEF writeAudit, failAudit, Answer500, IInv, TypeOK
<1>5. failures' \in 0..MaxFailures
  BY ContextAssumption DEF writeAudit, failAudit, Fail, IInv, TypeOK
<1>6. /\ chain' \in Seq(Item)
      /\ \A i \in DOMAIN chain' : i + 1 \in DOMAIN chain /\ chain'[i] = chain[i + 1]
  BY <1>1, TailChain
<1>7. TypeOK' BY <1>1, <1>2, <1>4, <1>5, <1>6 DEF IInv, TypeOK, Item, memory
<1>8. lastId <= lastId' /\ UNCHANGED <<memCurrent, dbCurrent, dbRevisions>>
  BY <1>1, <1>2 DEF memory, IInv, TypeOK
<1> QED BY <1>6, <1>7, <1>8, ShiftKeeps

(* The service starts again: memory is what is stored.                     *)
LEMMA BootKeeps ==
  ASSUME IInv, Boot, UNCHANGED <<dbRevisions, dbCurrent, dbActivities>>,
         dbAudits' \subseteq {"context", "activity"} \X Ids, failures' \in 0..MaxFailures
  PROVE  IInv'
<1> USE DEF IInv
<1>1. /\ memRevisions' = dbRevisions /\ memCurrent' = dbCurrent
      /\ memActivities' = dbActivities /\ proposals' = [p \in Ids |-> "none"]
      /\ chain' = <<>> /\ UNCHANGED <<lastId, acked, failed>>
  BY DEF Boot, LoadMemory
<1>2. chain' \in Seq(Item) /\ DOMAIN chain' = {} BY <1>1
<1>3. TypeOK' BY <1>1, <1>2 DEF TypeOK, Item
<1>4. MemoryKnown' BY <1>1 DEF MemoryKnown, StoredBehind, Behind
<1>5. StoredBehind'
  <2> SUFFICES ASSUME NEW d \in Ids, dbCurrent'[d] # None
               PROVE  dbCurrent'[d].directive = d /\ Behind(dbCurrent[d], d)'
    BY DEF StoredBehind
  <2>1. dbCurrent[d].directive = d /\ dbCurrent'[d] = dbCurrent[d] BY DEF StoredBehind
  <2>2. dbCurrent[d] \in Revision BY <2>1 DEF TypeOK
  <2>3. dbCurrent[d].version \in Nat BY <2>2 DEF Revision
  <2>4. Behind(dbCurrent[d], d)' BY <1>1, <2>1, <2>3 DEF Behind, Open
  <2> QED BY <2>1, <2>4
<1>6. StoredCurrentIsNewest' BY DEF StoredCurrentIsNewest
<1>7. PendingTyped' /\ PendingBetween' /\ PendingOrdered'
  BY <1>2 DEF PendingTyped, PendingBetween, PendingOrdered
<1> QED BY <1>3, <1>4, <1>5, <1>6, <1>7

(* A deployment, a crash, or the end an unhandled rejection brings.        *)
LEMMA RestartKeeps == IInv /\ (restart \/ unhandledRejection) => IInv'
<1> SUFFICES ASSUME IInv, restart \/ unhandledRejection PROVE IInv' OBVIOUS
<1>1. CASE restart
  <2>1. /\ Boot /\ UNCHANGED <<dbRevisions, dbCurrent, dbActivities>>
        /\ dbAudits' \subseteq {"context", "activity"} \X Ids /\ failures' \in 0..MaxFailures
    BY <1>1 DEF restart, database, IInv, TypeOK
  <2> QED BY <2>1, BootKeeps
<1>2. CASE unhandledRejection
  <2>1. chain # <<>> BY <1>2 DEF unhandledRejection
  <2>2. Boot /\ (StoreAudit(Head(chain).subject) \/ UNCHANGED database)
    BY <1>2 DEF unhandledRejection, Fail
  <2>3. failures' \in 0..MaxFailures
    BY <1>2, ContextAssumption DEF unhandledRejection, Fail, IInv, TypeOK
  <2> QED BY <2>1, <2>2, <2>3, AuditTyped, BootKeeps
<1> QED BY <1>1, <1>2

-----------------------------------------------------------------------------
(* The invariant holds at the start.                                       *)
LEMMA InitIInv == Init => IInv
<1> SUFFICES ASSUME Init PROVE IInv OBVIOUS
<1>1. DOMAIN chain = {} BY DEF Init
<1>2. TypeOK BY ContextAssumption DEF Init, TypeOK
<1>3. MemoryKnown /\ StoredBehind /\ StoredCurrentIsNewest
  BY DEF Init, MemoryKnown, StoredBehind, StoredCurrentIsNewest
<1> QED BY <1>1, <1>2, <1>3 DEF IInv, PendingTyped, PendingBetween, PendingOrdered

(* Every step of the service keeps it.                                     *)
LEMMA NextIInv == IInv /\ [Next]_vars => IInv'
<1> SUFFICES ASSUME IInv, [Next]_vars PROVE IInv' OBVIOUS
<1>1. CASE Requests
  <2>1. PICK rs \in Seq(Revision), awaited \in BOOLEAN : Batch(rs) /\ InsertCurrent(rs, awaited)
    BY <1>1, RequestsInsert DEF Inserts
  <2> QED BY <2>1, BatchKeeps
<1>2. CASE submitProposal
  <2>1. lastId + 1 \in Ids BY <1>2, ContextAssumption DEF submitProposal, IInv, TypeOK, Ids
  <2>2. SetProposal(lastId + 1, "pending") BY <1>2 DEF submitProposal
  <2> QED BY <2>1, <2>2, SetProposalKeeps
<1>3. CASE rejectProposal BY <1>3, SetProposalKeeps DEF rejectProposal
<1>4. CASE recordAgentActivity BY <1>4, ActivityKeeps
<1>5. CASE writeRevision BY <1>5, WriteRevisionKeeps
<1>6. CASE writeActivity BY <1>6, WriteActivityKeeps
<1>7. CASE writeAudit \/ failAudit BY <1>7, WriteAuditKeeps
<1>8. CASE restart \/ unhandledRejection BY <1>8, RestartKeeps
<1>9. CASE UNCHANGED vars
  <2>1. lastId <= lastId' /\ TypeOK' BY <1>9 DEF IInv, TypeOK, vars, memory, database
  <2>2. UNCHANGED <<memCurrent, dbCurrent, dbRevisions>> BY <1>9 DEF vars, memory, database
  <2>3. DOMAIN chain \subseteq Nat /\ chain' = chain BY <1>9 DEF IInv, TypeOK, vars
  <2>4. \A i \in DOMAIN chain' : i + 0 \in DOMAIN chain /\ chain'[i] = chain[i + 0] BY <2>3
  <2> QED BY <2>1, <2>2, <2>4, ShiftKeeps
<1> QED BY <1>1, <1>2, <1>3, <1>4, <1>5, <1>6, <1>7, <1>8, <1>9 DEF Next, Requests

(* Hence it holds in every state.                                          *)
LEMMA Invariant == Spec => []IInv
BY InitIInv, NextIInv, PTL DEF Spec

-----------------------------------------------------------------------------
(* The values of memory, the database and the chain have their types:      *)
(* whatever runs, restarts and fails, a write on the chain is one of the   *)
(* three that its transaction expects.                                     *)
THEOREM ContextTyped == Spec => [](TypeOK /\ PendingTyped)
<1>1. IInv => TypeOK /\ PendingTyped BY DEF IInv
<1> QED BY <1>1, Invariant, PTL

(* current_directives points at the newest stored revision of a directive, *)
(* through every failure and restart of the write chain.                   *)
THEOREM NewestIsCurrent == Spec => []StoredCurrentIsNewest
<1>1. IInv => StoredCurrentIsNewest BY DEF IInv
<1> QED BY <1>1, Invariant, PTL

(* insertCurrent's transaction never meets UNIQUE (directive_id,           *)
(* revision_no), though numbers of lost writes are given out again.        *)
THEOREM NumbersFree == Spec => []RevisionNumbersAreFree
<1>1. IInv => RevisionNumbersAreFree
  <2> SUFFICES ASSUME IInv, NEW i \in DOMAIN chain, chain[i].first = "revision",
                      NEW q \in dbRevisions, q.directive = chain[i].subject.directive,
                      q.version = chain[i].subject.version
               PROVE  FALSE
    BY DEF RevisionNumbersAreFree, NumberTaken
  <2>1. Ahead(chain[i].subject) BY DEF IInv, PendingBetween, Pending
  <2>2. dbCurrent[q.directive] # None /\ q.version <= dbCurrent[q.directive].version
    BY DEF IInv, StoredCurrentIsNewest
  <2>3. dbCurrent[q.directive].version < q.version BY <2>1, <2>2 DEF Ahead
  <2>4. q \in Revision BY DEF IInv, TypeOK
  <2>5. q.version \in Nat /\ q.directive \in Ids BY <2>4 DEF Revision
  <2>6. dbCurrent[q.directive] \in Revision BY <2>2, <2>5 DEF IInv, TypeOK
  <2>7. dbCurrent[q.directive].version \in Nat BY <2>6 DEF Revision
  <2> QED BY <2>2, <2>3, <2>5, <2>7
<1> QED BY <1>1, Invariant, PTL

(* No step replaces a stored revision that is terminal.                    *)
LEMMA FinalStep ==
  ASSUME IInv, Next, NEW d \in Ids, dbCurrent[d] # None, terminalStatus(dbCurrent[d].status)
  PROVE  dbCurrent'[d] = dbCurrent[d]
<1>1. CASE dbCurrent' = dbCurrent BY <1>1
<1>2. CASE writeRevision /\ StoreRevision(Head(chain).subject)
  <2>1. PICK r : r = chain[1].subject OBVIOUS
  <2>2. /\ 1 \in DOMAIN chain /\ Head(chain) = chain[1] /\ chain[1].first = "revision"
        /\ r \in Revision
    BY <1>2, <2>1, HeadTyped DEF writeRevision
  <2>3. dbCurrent' = [dbCurrent EXCEPT ![r.directive] = r] BY <1>2, <2>1, <2>2 DEF StoreRevision
  <2>4. r.directive # d
    <3> SUFFICES ASSUME r.directive = d PROVE FALSE OBVIOUS
    <3>1. dbCurrent[d].version < r.version /\ r.version <= memCurrent[d].version /\ memCurrent[d] # None
      BY <2>1, <2>2 DEF IInv, PendingBetween, Pending, Behind, Ahead
    <3>2. memCurrent[d].version = dbCurrent[d].version BY DEF IInv, StoredBehind, Behind
    <3>3. dbCurrent[d] \in Revision BY DEF IInv, TypeOK
    <3>4. dbCurrent[d].version \in Nat /\ r.version \in Nat BY <2>2, <3>3 DEF Revision
    <3> QED BY <3>1, <3>2, <3>4
  <2> QED BY <2>3, <2>4 DEF IInv, TypeOK
<1>3. dbCurrent' = dbCurrent \/ (writeRevision /\ StoreRevision(Head(chain).subject))
  <2>1. \A rs, awaited : InsertCurrent(rs, awaited) => dbCurrent' = dbCurrent BY DEF InsertCurrent, database
  <2>2. CASE createDirective \/ supersede BY <2>1, <2>2 DEF createDirective, supersede, Publish
  <2>3. CASE createVersion \/ expire \/ activate \/ revoke
    BY <2>1, <2>3 DEF createVersion, expire, activate, revoke, Revise
  <2>4. CASE submitProposal \/ rejectProposal \/ recordAgentActivity
    BY <2>4 DEF submitProposal, rejectProposal, SetProposal, recordAgentActivity, database
  <2>5. CASE writeRevision BY <2>5 DEF writeRevision, Fail, database
  <2>6. CASE writeActivity BY <2>6 DEF writeActivity, Fail, StoreActivity, database
  <2>7. CASE writeAudit \/ failAudit BY <2>7 DEF writeAudit, failAudit, Fail, StoreAudit, database
  <2>8. CASE restart \/ unhandledRejection
    BY <2>8 DEF restart, unhandledRejection, Fail, StoreAudit, database
  <2> QED BY <2>2, <2>3, <2>4, <2>5, <2>6, <2>7, <2>8 DEF Next
<1> QED BY <1>1, <1>2, <1>3

(* A stored terminal status is final: no write still queued, repeated or   *)
(* queued after a restart replaces it.                                     *)
THEOREM TerminalFinal == Spec => StoredTerminalIsFinal
<1> DEFINE Final == \A d \in Ids :
             dbCurrent[d] # None /\ terminalStatus(dbCurrent[d].status) => dbCurrent'[d] = dbCurrent[d]
<1>1. IInv /\ [Next]_vars => [Final]_vars
  <2> SUFFICES ASSUME IInv, Next, NEW d \in Ids, dbCurrent[d] # None,
                      terminalStatus(dbCurrent[d].status)
               PROVE  dbCurrent'[d] = dbCurrent[d]
    OBVIOUS
  <2> QED BY FinalStep
<1>2. [][Final]_vars => StoredTerminalIsFinal BY PTL DEF StoredTerminalIsFinal
<1> QED BY <1>1, <1>2, Invariant, PTL DEF Spec

-----------------------------------------------------------------------------
(* What is on the chain after a step.                                      *)
LEMMA Longer ==
  ASSUME chain \in Seq(Item), chain' \in Seq(Item),
         \A i \in DOMAIN chain : i \in DOMAIN chain' /\ chain'[i] = chain[i],
         NEW first, NEW subject, Queued(first, subject)
  PROVE  Queued(first, subject)'
BY DEF Queued

LEMMA AfterHead ==
  ASSUME IInv, chain # <<>>, ThenAudit(Head(chain)),
         NEW first, NEW subject, Queued(first, subject)
  PROVE  \/ Queued(first, subject)'
         \/ first = Head(chain).first /\ subject = Head(chain).subject
<1>1. PICK i \in DOMAIN chain : chain[i].first = first /\ chain[i].subject = subject BY DEF Queued
<1>2. CASE i = 1 BY <1>1, <1>2, HeadTyped
<1>3. CASE i # 1
  <2>1. i \in DOMAIN chain' /\ chain'[i] = chain[i] BY <1>1, <1>3, ThenAuditChain
  <2> QED BY <1>1, <2>1 DEF Queued
<1> QED BY <1>2, <1>3

LEMMA AfterAudit ==
  ASSUME IInv, chain # <<>>, chain' = Tail(chain), Head(chain).first = "audit",
         NEW first \in {"revision", "activity"}, NEW subject, Queued(first, subject)
  PROVE  Queued(first, subject)'
<1>1. PICK i \in DOMAIN chain : chain[i].first = first /\ chain[i].subject = subject BY DEF Queued
<1>2. i # 1 BY <1>1, HeadTyped
<1>3. chain \in Seq(Item) BY DEF IInv, TypeOK, Item
<1>4. i - 1 \in DOMAIN chain' /\ chain'[i - 1] = chain[i] BY <1>1, <1>2, <1>3
<1> QED BY <1>1, <1>4 DEF Queued

(* Every step on a request, a write, the end of one or a new start.        *)
Submits == submitProposal \/ rejectProposal \/ recordAgentActivity
Audits == writeAudit \/ failAudit
Starts == restart \/ unhandledRejection

LEMMA InsertsShape ==
  ASSUME IInv, Requests
  PROVE  /\ \A r \in memRevisions' : r \in memRevisions \/ Queued("revision", r)'
         /\ \A first, subject : Queued(first, subject) => Queued(first, subject)'
         /\ UNCHANGED <<memActivities, database, acked, failed>>
<1>1. PICK rs \in Seq(Revision), awaited \in BOOLEAN : Batch(rs) /\ InsertCurrent(rs, awaited)
  BY RequestsInsert DEF Inserts
<1>2. /\ chain' \in Seq(Item) /\ DOMAIN chain' = 1..(Len(chain) + Len(rs))
      /\ \A i \in DOMAIN chain : chain'[i] = chain[i]
      /\ \A i \in DOMAIN chain' :
           i > Len(chain) => /\ i - Len(chain) \in DOMAIN rs
                             /\ chain'[i].first = "revision"
                             /\ chain'[i].subject = rs[i - Len(chain)]
  BY <1>1, BatchChain DEF IInv
<1>3. DOMAIN rs = 1..Len(rs) /\ Len(rs) \in Nat BY <1>1, BatchTyped
<1>4. chain \in Seq(Item) /\ Len(chain) \in Nat /\ DOMAIN chain = 1..Len(chain)
  BY DEF IInv, TypeOK, Item
<1>5. ASSUME NEW i \in DOMAIN rs PROVE Queued("revision", rs[i])'
  <2>1. Len(chain) + i \in DOMAIN chain' /\ Len(chain) + i > Len(chain) /\ (Len(chain) + i) - Len(chain) = i
    BY <1>2, <1>3, <1>4
  <2>2. chain'[Len(chain) + i].first = "revision" /\ chain'[Len(chain) + i].subject = rs[i]
    BY <1>2, <2>1
  <2> QED BY <2>1, <2>2 DEF Queued
<1>6. memRevisions' = memRevisions \cup {rs[i] : i \in DOMAIN rs} BY <1>1 DEF InsertCurrent
<1>7. \A i \in DOMAIN chain : i \in DOMAIN chain' /\ chain'[i] = chain[i] BY <1>2, <1>3, <1>4
<1>8. \A first, subject : Queued(first, subject) => Queued(first, subject)' BY <1>2, <1>4, <1>7, Longer
<1>9. UNCHANGED <<memActivities, database, acked, failed>> BY <1>1 DEF InsertCurrent
<1> QED BY <1>5, <1>6, <1>8, <1>9

LEMMA SubmitsShape ==
  ASSUME IInv, Submits
  PROVE  /\ UNCHANGED <<memRevisions, memCurrent, database, acked, failed>>
         /\ \E w \in Item : chain' = Append(chain, w) /\ w.first # "revision"
         /\ \A first, subject : Queued(first, subject) => Queued(first, subject)'
<1>1. UNCHANGED <<memRevisions, memCurrent, database, acked, failed>>
  BY DEF Submits, submitProposal, rejectProposal, SetProposal, recordAgentActivity
<1>2. PICK w \in Item : chain' = Append(chain, w) /\ w.first # "revision"
  <2>1. ASSUME lastId < MaxId PROVE lastId + 1 \in Ids
    BY <2>1, ContextAssumption DEF IInv, TypeOK, Ids
  <2>2. CASE submitProposal \/ rejectProposal
    <3>1. lastId < MaxId /\ chain' = Append(chain, Write("audit", [id |-> lastId + 1], TRUE))
      BY <2>2 DEF submitProposal, rejectProposal, SetProposal
    <3>2. [id |-> lastId + 1] \in Subjects BY <2>1, <3>1 DEF Subjects
    <3>3. Write("audit", [id |-> lastId + 1], TRUE) \in Item BY <3>2 DEF Write, Item
    <3> QED BY <3>1, <3>3 DEF Write
  <2>3. CASE recordAgentActivity
    <3>1. PICK s \in Sessions, scope \in Scopes, fits \in BOOLEAN :
            /\ lastId < MaxId
            /\ chain' = Append(chain, Write("activity",
                 [id |-> lastId + 1, session |-> s, scope |-> scope, fits |-> fits], TRUE))
      BY <2>3 DEF recordAgentActivity
    <3>2. [id |-> lastId + 1, session |-> s, scope |-> scope, fits |-> fits] \in Subjects
      BY <2>1, <3>1 DEF Report, Subjects
    <3>3. Write("activity", [id |-> lastId + 1, session |-> s, scope |-> scope, fits |-> fits], TRUE) \in Item
      BY <3>2 DEF Write, Item
    <3> QED BY <3>1, <3>3 DEF Write
  <2> QED BY <2>2, <2>3 DEF Submits
<1>3. chain \in Seq(Item) BY DEF IInv, TypeOK, Item
<1>4. chain' \in Seq(Item) /\ \A i \in DOMAIN chain : i \in DOMAIN chain' /\ chain'[i] = chain[i]
  BY <1>2, <1>3
<1>5. \A first, subject : Queued(first, subject) => Queued(first, subject)' BY <1>3, <1>4, Longer
<1> QED BY <1>1, <1>2, <1>5

LEMMA AuditsShape ==
  ASSUME IInv, Audits
  PROVE  /\ chain # <<>> /\ Head(chain).first = "audit" /\ chain' = Tail(chain)
         /\ UNCHANGED <<memory, dbRevisions, dbCurrent, dbActivities, failed>>
<1>1. /\ chain # <<>> /\ Head(chain).first = "audit" /\ chain' = Tail(chain)
      /\ StoreAudit(Head(chain).subject) \/ UNCHANGED database
      /\ UNCHANGED <<memory, failed>>
  BY DEF Audits, writeAudit, failAudit, Fail
<1> QED BY <1>1, AuditTyped

LEMMA StartsShape ==
  ASSUME IInv, Starts
  PROVE  /\ Boot /\ UNCHANGED <<dbRevisions, dbCurrent, dbActivities>>
         /\ chain' = <<>> /\ UNCHANGED <<acked, failed>>
<1>1. Boot /\ UNCHANGED <<dbRevisions, dbCurrent, dbActivities>>
  <2>1. CASE restart BY <2>1 DEF restart, database
  <2>2. CASE unhandledRejection
    BY <2>2, AuditTyped DEF unhandledRejection, Fail
  <2> QED BY <2>1, <2>2 DEF Starts
<1> QED BY <1>1 DEF Boot

LEMMA Steps ==
  Next <=> Requests \/ Submits \/ writeRevision \/ writeActivity \/ Audits \/ Starts
BY DEF Next, Requests, Submits, Audits, Starts

-----------------------------------------------------------------------------
(* The audit events are never removed.                                     *)
LEMMA AuditsKept ==
  ASSUME IInv, Next
  PROVE  dbAudits \subseteq dbAudits'
<1>1. CASE Requests BY <1>1, InsertsShape DEF database
<1>2. CASE Submits BY <1>2, SubmitsShape DEF database
<1>3. CASE writeRevision BY <1>3 DEF writeRevision, Fail, StoreRevision, database
<1>4. CASE writeActivity BY <1>4 DEF writeActivity, Fail, StoreActivity, database
<1>5. CASE Audits BY <1>5 DEF Audits, writeAudit, failAudit, Fail, StoreAudit, database
<1>6. CASE Starts BY <1>6 DEF Starts, restart, unhandledRejection, Fail, StoreAudit, database
<1> QED BY <1>1, <1>2, <1>3, <1>4, <1>5, <1>6, Steps

(* A request answered 2xx has its audit event, for any number of requests, *)
(* failures and restarts (http.ts: the answer after flush()).              *)
THEOREM AckedHasAudit == Spec => []AckedIsAudited
<1>1. Init => AckedIsAudited BY DEF Init, AckedIsAudited
<1>2. IInv /\ AckedIsAudited /\ [Next]_vars => AckedIsAudited'
  <2> SUFFICES ASSUME IInv, AckedIsAudited, [Next]_vars, NEW id \in acked'
               PROVE  <<"context", id>> \in dbAudits'
    BY DEF AckedIsAudited
  <2>1. CASE UNCHANGED vars BY <2>1 DEF vars, database, AckedIsAudited
  <2>2. CASE Next /\ id \in acked BY <2>2, AuditsKept DEF AckedIsAudited
  <2>3. CASE Next /\ id \notin acked
    <3>1. writeAudit
      <4>1. ~Requests BY <2>3, InsertsShape
      <4>2. ~Submits BY <2>3, SubmitsShape
      <4>3. ~writeRevision /\ ~writeActivity BY <2>3 DEF writeRevision, writeActivity
      <4>4. ~failAudit BY <2>3 DEF failAudit, Answer500
      <4>5. ~Starts BY <2>3, StartsShape
      <4> QED BY <2>3, <4>1, <4>2, <4>3, <4>4, <4>5, Steps DEF Audits
    <3> QED BY <2>3, <3>1 DEF writeAudit, StoreAudit
  <2> QED BY <2>1, <2>2, <2>3
<1> QED BY <1>1, <1>2, Invariant, PTL DEF Spec

-----------------------------------------------------------------------------
(* What a transaction of the chain does: it stores, or it has raised.      *)
LEMMA RevisionOutcome ==
  ASSUME IInv, writeRevision, NEW r, r = Head(chain).subject
  PROVE  /\ chain # <<>> /\ Head(chain).first = "revision" /\ r \in Revision
         /\ ThenAudit(Head(chain)) /\ UNCHANGED <<memory, dbActivities>>
         /\ \/ StoreRevision(r) \/ UNCHANGED <<dbRevisions, dbCurrent>>
         /\ StoreRevision(r) \/ r \in failed'
         /\ failed \subseteq failed'
BY HeadTyped DEF writeRevision, AfterFailure, Fail, StoreRevision, database

LEMMA ActivityOutcome ==
  ASSUME IInv, writeActivity, NEW a, a = Head(chain).subject
  PROVE  /\ chain # <<>> /\ Head(chain).first = "activity" /\ a \in Report
         /\ ThenAudit(Head(chain)) /\ UNCHANGED <<memory, dbRevisions, dbCurrent>>
         /\ StoreActivity(a) \/ dbActivities' = dbActivities
         /\ StoreActivity(a) \/ a \in failed'
         /\ failed \subseteq failed'
BY HeadTyped DEF writeActivity, AfterFailure, Fail, StoreActivity, database

(* Revisions in memory, and reports of sessions, that are not lost.        *)
RevisionKept(r) == r \in dbRevisions \/ Queued("revision", r) \/ r \in failed
RevisionsKept == \A r \in memRevisions : RevisionKept(r)

ReportKept(s) ==
  memActivities[s] # None /\ dbActivities[s] = None =>
    \E a \in Report : a.session = s /\ (Queued("activity", a) \/ a \in failed)
ReportsKept == \A s \in Sessions : ReportKept(s)

LEMMA KeptMeans ==
  RevisionsKept /\ ReportsKept => OnlyItsOwnFailureLosesAWrite
<1> SUFFICES ASSUME RevisionsKept, ReportsKept PROVE OnlyItsOwnFailureLosesAWrite OBVIOUS
<1>1. ASSUME NEW s \in Sessions, memActivities[s] # None, dbActivities[s] = None
      PROVE  \E id \in Ids, scope \in Scopes, fits \in BOOLEAN :
               LET report == [id |-> id, session |-> s, scope |-> scope, fits |-> fits]
               IN  Queued("activity", report) \/ report \in failed
  <2>1. PICK a \in Report : a.session = s /\ (Queued("activity", a) \/ a \in failed)
    BY <1>1 DEF ReportsKept, ReportKept
  <2>2. /\ a.id \in Ids /\ a.scope \in Scopes /\ a.fits \in BOOLEAN
        /\ a = [id |-> a.id, session |-> s, scope |-> a.scope, fits |-> a.fits]
    BY <2>1 DEF Report
  <2> QED BY <2>1, <2>2
<1> QED BY <1>1 DEF RevisionsKept, RevisionKept, OnlyItsOwnFailureLosesAWrite

LEMMA RevisionsStayKept ==
  ASSUME IInv, RevisionsKept, Next
  PROVE  RevisionsKept'
<1> SUFFICES ASSUME NEW r \in memRevisions' PROVE RevisionKept(r)'
  BY DEF RevisionsKept, RevisionKept
<1>1. CASE Requests
  <2>1. r \in memRevisions \/ Queued("revision", r)' BY <1>1, InsertsShape
  <2>2. Queued("revision", r) => Queued("revision", r)' BY <1>1, InsertsShape
  <2>3. UNCHANGED <<dbRevisions, failed>> BY <1>1, InsertsShape DEF database
  <2> QED BY <2>1, <2>2, <2>3 DEF RevisionsKept, RevisionKept
<1>2. CASE Submits
  <2>1. Queued("revision", r) => Queued("revision", r)' BY <1>2, SubmitsShape
  <2>2. UNCHANGED <<memRevisions, dbRevisions, failed>> BY <1>2, SubmitsShape DEF database
  <2> QED BY <2>1, <2>2 DEF RevisionsKept, RevisionKept
<1>3. CASE writeRevision
  <2> DEFINE h == Head(chain).subject
  <2>1. /\ chain # <<>> /\ ThenAudit(Head(chain)) /\ memRevisions' = memRevisions
        /\ StoreRevision(h) \/ dbRevisions' = dbRevisions
        /\ StoreRevision(h) \/ h \in failed'
        /\ failed \subseteq failed'
    BY <1>3, RevisionOutcome DEF memory
  <2>2. dbRevisions \subseteq dbRevisions' /\ (h \in dbRevisions' \/ h \in failed')
    BY <2>1 DEF StoreRevision
  <2>3. Queued("revision", r) => Queued("revision", r)' \/ r = h BY <2>1, AfterHead
  <2> QED BY <2>1, <2>2, <2>3 DEF RevisionsKept, RevisionKept
<1>4. CASE writeActivity
  <2>1. /\ chain # <<>> /\ Head(chain).first = "activity" /\ ThenAudit(Head(chain))
        /\ UNCHANGED <<memRevisions, dbRevisions>> /\ failed \subseteq failed'
    BY <1>4, ActivityOutcome DEF memory
  <2>2. Queued("revision", r) => Queued("revision", r)' BY <2>1, AfterHead
  <2> QED BY <2>1, <2>2 DEF RevisionsKept, RevisionKept
<1>5. CASE Audits
  <2>1. /\ chain # <<>> /\ Head(chain).first = "audit" /\ chain' = Tail(chain)
        /\ UNCHANGED <<memRevisions, dbRevisions, failed>>
    BY <1>5, AuditsShape DEF memory
  <2>2. Queued("revision", r) => Queued("revision", r)' BY <2>1, AfterAudit
  <2> QED BY <2>1, <2>2 DEF RevisionsKept, RevisionKept
<1>6. CASE Starts
  BY <1>6, StartsShape DEF Boot, LoadMemory, RevisionKept
<1> QED BY <1>1, <1>2, <1>3, <1>4, <1>5, <1>6, Steps

LEMMA ReportsStayKept ==
  ASSUME IInv, ReportsKept, Next
  PROVE  ReportsKept'
<1> SUFFICES ASSUME NEW s \in Sessions, memActivities'[s] # None, dbActivities'[s] = None
             PROVE  \E a \in Report : a.session = s /\ (Queued("activity", a)' \/ a \in failed')
  BY DEF ReportsKept, ReportKept
<1>1. CASE Requests
  <2>1. UNCHANGED <<memActivities, dbActivities, failed>> BY <1>1, InsertsShape DEF database
  <2>2. \A a : Queued("activity", a) => Queued("activity", a)' BY <1>1, InsertsShape
  <2> QED BY <2>1, <2>2 DEF ReportsKept, ReportKept
<1>2. CASE Submits
  <2>1. UNCHANGED <<dbActivities, failed>> BY <1>2, SubmitsShape DEF database
  <2>2. \A a : Queued("activity", a) => Queued("activity", a)' BY <1>2, SubmitsShape
  <2>3. CASE memActivities' = memActivities BY <2>1, <2>2, <2>3 DEF ReportsKept, ReportKept
  <2>4. CASE memActivities' # memActivities
    <3>1. recordAgentActivity
      BY <1>2, <2>4 DEF Submits, submitProposal, rejectProposal, SetProposal
    <3>2. PICK u \in Sessions, scope \in Scopes, fits \in BOOLEAN :
            /\ lastId < MaxId
            /\ memActivities' = [memActivities EXCEPT ![u] = scope]
            /\ chain' = Append(chain, Write("activity",
                 [id |-> lastId + 1, session |-> u, scope |-> scope, fits |-> fits], TRUE))
      BY <3>1 DEF recordAgentActivity
    <3>3. [id |-> lastId + 1, session |-> u, scope |-> scope, fits |-> fits] \in Report
      BY <3>2, ContextAssumption DEF Report, Ids, IInv, TypeOK
    <3>4. PICK b \in Report :
            b = [id |-> lastId + 1, session |-> u, scope |-> scope, fits |-> fits]
      BY <3>3
    <3>5. b.session = u /\ chain' = Append(chain, Write("activity", b, TRUE)) BY <3>2, <3>4
    <3>6. Queued("activity", b)'
      <4>1. chain \in Seq(Item) BY DEF IInv, TypeOK, Item
      <4>2. PICK w \in Item : w = Write("activity", b, TRUE) BY DEF Write, Item, Subjects
      <4>3. w.first = "activity" /\ w.subject = b BY <4>2 DEF Write
      <4>4. chain' = Append(chain, w) BY <3>5, <4>2
      <4>5. Len(chain) + 1 \in DOMAIN chain' /\ chain'[Len(chain) + 1] = w BY <4>1, <4>4
      <4> QED BY <4>3, <4>5 DEF Queued
    <3>7. CASE u = s BY <3>5, <3>6, <3>7
    <3>8. CASE u # s
      <4>1. memActivities'[s] = memActivities[s] BY <3>2, <3>8 DEF IInv, TypeOK
      <4> QED BY <2>1, <2>2, <4>1 DEF ReportsKept, ReportKept
    <3> QED BY <3>7, <3>8
  <2> QED BY <2>3, <2>4
<1>3. CASE writeRevision
  <2>1. /\ chain # <<>> /\ Head(chain).first = "revision" /\ ThenAudit(Head(chain))
        /\ UNCHANGED <<memActivities, dbActivities>> /\ failed \subseteq failed'
    BY <1>3, RevisionOutcome DEF memory
  <2>2. \A a : Queued("activity", a) => Queued("activity", a)' BY <2>1, AfterHead
  <2> QED BY <2>1, <2>2 DEF ReportsKept, ReportKept
<1>4. CASE writeActivity
  <2> DEFINE h == Head(chain).subject
  <2>1. /\ chain # <<>> /\ ThenAudit(Head(chain)) /\ memActivities' = memActivities
        /\ h \in Report
        /\ StoreActivity(h) \/ dbActivities' = dbActivities
        /\ StoreActivity(h) \/ h \in failed'
        /\ failed \subseteq failed'
    BY <1>4, ActivityOutcome DEF memory
  <2>2. dbActivities \in [Sessions -> Scopes \cup {None}] BY DEF IInv, TypeOK
  <2>3. h.session \in Sessions /\ h.scope \in Scopes /\ h.scope # None
    BY <2>1, NoneAssumption DEF Report
  <2> HIDE DEF h
  <2>4. StoreActivity(h) => dbActivities'[h.session] # None BY <2>2, <2>3 DEF StoreActivity
  <2>5. dbActivities[s] = None BY <2>1, <2>2, <2>3 DEF StoreActivity
  <2>6. PICK a \in Report : a.session = s /\ (Queued("activity", a) \/ a \in failed)
    BY <2>1, <2>5 DEF ReportsKept, ReportKept
  <2>7. Queued("activity", a) => Queued("activity", a)' \/ a = h BY <2>1, AfterHead DEF h
  <2>8. a = h => h \in failed' BY <2>1, <2>4, <2>6
  <2> QED BY <2>1, <2>6, <2>7, <2>8
<1>5. CASE Audits
  <2>1. /\ chain # <<>> /\ Head(chain).first = "audit" /\ chain' = Tail(chain)
        /\ UNCHANGED <<memActivities, dbActivities, failed>>
    BY <1>5, AuditsShape DEF memory
  <2>2. \A a : Queued("activity", a) => Queued("activity", a)' BY <2>1, AfterAudit
  <2> QED BY <2>1, <2>2 DEF ReportsKept, ReportKept
<1>6. CASE Starts
  BY <1>6, StartsShape DEF Boot, LoadMemory
<1> QED BY <1>1, <1>2, <1>3, <1>4, <1>5, <1>6, Steps

(* No failure of another write loses a revision or a report that memory    *)
(* serves: chain.then(work, work) goes on after each (postgres.ts).        *)
THEOREM OnlyOwnFailureLoses == Spec => []OnlyItsOwnFailureLosesAWrite
<1>1. Init => RevisionsKept /\ ReportsKept
  BY DEF Init, RevisionsKept, ReportsKept, ReportKept
<1>2. IInv /\ RevisionsKept /\ ReportsKept /\ [Next]_vars => (RevisionsKept /\ ReportsKept)'
  <2>1. CASE Next BY <2>1, RevisionsStayKept, ReportsStayKept
  <2>2. CASE UNCHANGED vars
    BY <2>2 DEF vars, memory, database, RevisionsKept, RevisionKept, ReportsKept, ReportKept, Queued
  <2> QED BY <2>1, <2>2
<1> QED BY <1>1, <1>2, KeptMeans, Invariant, PTL DEF Spec

-----------------------------------------------------------------------------
(* A predecessor is gone when it is stored as superseded or a write of it  *)
(* raised; until then the chain holds the write that closes it, before the *)
(* write of what supersedes it.                                            *)
Gone(p) ==
  \/ dbCurrent[p] # None /\ dbCurrent[p].status = "superseded"
  \/ \E f \in failed \cap Revision : f.directive = p

Closes(i, p) ==
  Pending(i) /\ chain[i].subject.directive = p /\ chain[i].subject.status = "superseded"

ClosedBefore(n, p) == Gone(p) \/ \E j \in DOMAIN chain : j < n /\ Closes(j, p)
ClosedAnywhere(p) == Gone(p) \/ \E j \in DOMAIN chain : Closes(j, p)

StoredCovered ==
  /\ \A d \in Ids : dbCurrent[d] # None => dbCurrent[d] \in dbRevisions
  /\ \A r \in dbRevisions : \A p \in r.supersedes : Gone(p)

ChainCovered ==
  \A i \in DOMAIN chain : Pending(i) => \A p \in chain[i].subject.supersedes : ClosedBefore(i, p)

MemoryCovered ==
  \A d \in Ids : memCurrent[d] # None =>
    \A p \in memCurrent[d].supersedes : ClosedAnywhere(p)

PredecessorsCovered == StoredCovered /\ ChainCovered /\ MemoryCovered

LEMMA FailedKept ==
  ASSUME IInv, Next
  PROVE  failed \subseteq failed'
<1>1. CASE Requests BY <1>1, InsertsShape
<1>2. CASE Submits BY <1>2, SubmitsShape
<1>3. CASE writeRevision BY <1>3, RevisionOutcome
<1>4. CASE writeActivity BY <1>4, ActivityOutcome
<1>5. CASE Audits BY <1>5, AuditsShape
<1>6. CASE Starts BY <1>6, StartsShape
<1> QED BY <1>1, <1>2, <1>3, <1>4, <1>5, <1>6, Steps

LEMMA GoneStays ==
  ASSUME IInv, Next, NEW p \in Ids, Gone(p)
  PROVE  Gone(p)'
<1>1. CASE dbCurrent[p] # None /\ dbCurrent[p].status = "superseded"
  <2>1. dbCurrent'[p] = dbCurrent[p] BY <1>1, FinalStep DEF terminalStatus
  <2> QED BY <1>1, <2>1 DEF Gone
<1>2. CASE \E f \in failed \cap Revision : f.directive = p
  BY <1>2, FailedKept DEF Gone
<1> QED BY <1>1, <1>2 DEF Gone

LEMMA SupersedesIds ==
  /\ \A r \in Revision : r.supersedes \subseteq Ids
  /\ TypeOK => /\ \A r \in dbRevisions : r.supersedes \subseteq Ids
               /\ \A d \in Ids : memCurrent[d] # None => memCurrent[d].supersedes \subseteq Ids
<1>1. \A r \in Revision : r.supersedes \subseteq Ids BY DEF Revision
<1> QED BY <1>1 DEF TypeOK

(* A step that stores nothing and keeps memory, or appends to the chain.   *)
LEMMA CoveredByExtension ==
  ASSUME IInv, PredecessorsCovered, Next, chain' \in Seq(Item), UNCHANGED database,
         \A i \in DOMAIN chain : i \in DOMAIN chain' /\ chain'[i] = chain[i]
  PROVE  /\ StoredCovered'
         /\ \A n \in Nat, p \in Ids : ClosedBefore(n, p) => ClosedBefore(n, p)'
         /\ \A p \in Ids : ClosedAnywhere(p) => ClosedAnywhere(p)'
<1>1. \A p \in Ids : Gone(p) => Gone(p)' BY GoneStays
<1>2. StoredCovered'
  BY <1>1, SupersedesIds DEF IInv, PredecessorsCovered, StoredCovered, database
<1>3. \A j \in DOMAIN chain, p \in Ids : Closes(j, p) => Closes(j, p)'
  BY DEF Closes, Pending
<1>4. ASSUME NEW n \in Nat, NEW p \in Ids
      PROVE  /\ ClosedBefore(n, p) => ClosedBefore(n, p)'
             /\ ClosedAnywhere(p) => ClosedAnywhere(p)'
  BY <1>1, <1>3 DEF ClosedBefore, ClosedAnywhere
<1> QED BY <1>2, <1>4

LEMMA SubmitsCovered ==
  ASSUME IInv, PredecessorsCovered, Submits
  PROVE  PredecessorsCovered'
<1>1. PICK w \in Item : chain' = Append(chain, w) /\ w.first # "revision" BY SubmitsShape
<1>2. chain \in Seq(Item) /\ Len(chain) \in Nat BY DEF IInv, TypeOK, Item
<1>3. /\ chain' \in Seq(Item)
      /\ \A i \in DOMAIN chain : i \in DOMAIN chain' /\ chain'[i] = chain[i]
      /\ \A i \in DOMAIN chain' : i \in DOMAIN chain \/ chain'[i] = w
  BY <1>1, <1>2
<1>4. Next /\ UNCHANGED database /\ memCurrent' = memCurrent BY SubmitsShape, Steps
<1>5. /\ StoredCovered'
      /\ \A n \in Nat, p \in Ids : ClosedBefore(n, p) => ClosedBefore(n, p)'
      /\ \A p \in Ids : ClosedAnywhere(p) => ClosedAnywhere(p)'
  BY <1>3, <1>4, CoveredByExtension
<1>6. ChainCovered'
  <2> SUFFICES ASSUME NEW i \in DOMAIN chain', Pending(i)', NEW p \in chain'[i].subject.supersedes
               PROVE  ClosedBefore(i, p)'
    BY DEF ChainCovered
  <2>1. i \in DOMAIN chain /\ chain'[i] = chain[i] BY <1>1, <1>3 DEF Pending
  <2>2. chain[i].subject \in Revision /\ Pending(i) BY <2>1 DEF IInv, PendingTyped, Pending
  <2>3. p \in Ids /\ i \in Nat BY <1>2, <2>1, <2>2, SupersedesIds
  <2>4. ClosedBefore(i, p) BY <2>1, <2>2 DEF PredecessorsCovered, ChainCovered
  <2> QED BY <1>5, <2>3, <2>4
<1>7. MemoryCovered'
  BY <1>4, <1>5, SupersedesIds DEF IInv, PredecessorsCovered, MemoryCovered
<1> QED BY <1>5, <1>6, <1>7 DEF PredecessorsCovered

LEMMA RequestsCovered ==
  ASSUME IInv, PredecessorsCovered, Requests
  PROVE  PredecessorsCovered'
<1>1. PICK rs \in Seq(Revision), awaited \in BOOLEAN :
        Batch(rs) /\ Covered(rs) /\ InsertCurrent(rs, awaited)
  BY RequestsInsert DEF Inserts
<1>2. /\ chain' \in Seq(Item) /\ DOMAIN chain' = 1..(Len(chain) + Len(rs))
      /\ \A i \in DOMAIN chain : chain'[i] = chain[i]
      /\ \A i \in DOMAIN chain' :
           i > Len(chain) => /\ i - Len(chain) \in DOMAIN rs
                             /\ chain'[i].first = "revision"
                             /\ chain'[i].subject = rs[i - Len(chain)]
  BY <1>1, BatchChain DEF IInv
<1>3. /\ DOMAIN rs = 1..Len(rs) /\ Len(rs) \in Nat
      /\ \A i \in DOMAIN rs : rs[i] \in Revision /\ rs[i].directive \in Ids
  BY <1>1, BatchTyped
<1>4. Len(chain) \in Nat /\ DOMAIN chain = 1..Len(chain) BY DEF IInv, TypeOK, Item
<1>5. \A i \in DOMAIN chain : i \in DOMAIN chain' /\ chain'[i] = chain[i] BY <1>2, <1>3, <1>4
<1>6. Next /\ UNCHANGED database BY Steps, InsertsShape
<1>7. /\ StoredCovered'
      /\ \A n \in Nat, p \in Ids : ClosedBefore(n, p) => ClosedBefore(n, p)'
      /\ \A p \in Ids : ClosedAnywhere(p) => ClosedAnywhere(p)'
  BY <1>2, <1>5, <1>6, CoveredByExtension
<1>8. ASSUME NEW j \in DOMAIN rs
      PROVE  /\ Len(chain) + j \in DOMAIN chain'
             /\ chain'[Len(chain) + j].first = "revision"
             /\ chain'[Len(chain) + j].subject = rs[j]
  <2>1. /\ Len(chain) + j \in DOMAIN chain' /\ Len(chain) + j > Len(chain)
        /\ (Len(chain) + j) - Len(chain) = j
    BY <1>2, <1>3, <1>4
  <2> QED BY <1>2, <2>1
<1>9. ASSUME NEW j \in DOMAIN rs, NEW p, rs[j].directive = p, rs[j].status = "superseded",
             NEW k, k = Len(chain) + j
      PROVE  k \in DOMAIN chain' /\ Closes(k, p)'
  BY <1>8, <1>9 DEF Closes, Pending
<1>10. ASSUME NEW p \in Ids, ClosedAnywhere(p), NEW n \in Nat, n > Len(chain)
       PROVE  ClosedBefore(n, p)'
  <2>1. ClosedBefore(n, p) BY <1>4, <1>10 DEF ClosedAnywhere, ClosedBefore
  <2> QED BY <1>7, <2>1
<1>11. ChainCovered'
  <2> SUFFICES ASSUME NEW n \in DOMAIN chain', Pending(n)', NEW p \in chain'[n].subject.supersedes
               PROVE  ClosedBefore(n, p)'
    BY DEF ChainCovered
  <2>1. n \in Nat /\ (n \in DOMAIN chain \/ n > Len(chain)) BY <1>2, <1>3, <1>4
  <2>2. CASE n \in DOMAIN chain
    <3>1. chain'[n] = chain[n] BY <1>2, <2>2
    <3>2. chain[n].subject \in Revision /\ Pending(n) BY <2>2, <3>1 DEF IInv, PendingTyped, Pending
    <3>3. p \in Ids BY <3>1, <3>2, SupersedesIds
    <3>4. ClosedBefore(n, p) BY <2>2, <3>1, <3>2 DEF PredecessorsCovered, ChainCovered
    <3> QED BY <1>7, <2>1, <3>3, <3>4
  <2>3. CASE n > Len(chain)
    <3>1. PICK i \in DOMAIN rs : i = n - Len(chain) /\ chain'[n].subject = rs[i] BY <1>2, <2>3
    <3>2. p \in Ids /\ p \in rs[i].supersedes BY <1>3, <3>1, SupersedesIds
    <3>3. CASE \E j \in DOMAIN rs : j < i /\ rs[j].directive = p /\ rs[j].status = "superseded"
      <4>1. PICK j \in DOMAIN rs : j < i /\ rs[j].directive = p /\ rs[j].status = "superseded"
        BY <3>3
      <4>2. PICK k \in Nat : k = Len(chain) + j /\ k < n BY <1>3, <1>4, <2>1, <3>1, <4>1
      <4>3. k \in DOMAIN chain' /\ Closes(k, p)' BY <1>9, <4>1, <4>2
      <4> QED BY <4>2, <4>3 DEF ClosedBefore
    <3>4. CASE /\ memCurrent[rs[i].directive] # None
               /\ p \in memCurrent[rs[i].directive].supersedes
      <4>1. ClosedAnywhere(p) BY <1>3, <3>4 DEF PredecessorsCovered, MemoryCovered
      <4> QED BY <1>10, <2>1, <2>3, <3>2, <4>1
    <3> QED BY <1>1, <3>2, <3>3, <3>4 DEF Covered
  <2> QED BY <2>1, <2>2, <2>3
<1>12. MemoryCovered'
  <2> SUFFICES ASSUME NEW d \in Ids, memCurrent'[d] # None, NEW p \in memCurrent'[d].supersedes
               PROVE  ClosedAnywhere(p)'
    BY DEF MemoryCovered
  <2>1. CASE \A i \in DOMAIN rs : rs[i].directive # d
    <3>1. memCurrent'[d] = memCurrent[d] BY <1>1, <2>1, BatchCurrent DEF IInv
    <3>2. p \in Ids BY <3>1, SupersedesIds DEF IInv
    <3>3. ClosedAnywhere(p) BY <3>1 DEF PredecessorsCovered, MemoryCovered
    <3> QED BY <1>7, <3>2, <3>3
  <2>2. CASE \E i \in DOMAIN rs : rs[i].directive = d
    <3>1. PICK i \in DOMAIN rs : rs[i].directive = d BY <2>2
    <3>2. memCurrent'[d] = rs[i] BY <1>1, <3>1, BatchCurrent DEF IInv
    <3>3. PICK n \in Nat : n = Len(chain) + i BY <1>3, <1>4
    <3>4. n \in DOMAIN chain' /\ chain'[n].first = "revision" /\ chain'[n].subject = rs[i]
      BY <1>8, <3>3
    <3>5. ClosedBefore(n, p)' BY <1>11, <3>2, <3>4 DEF ChainCovered, Pending
    <3> QED BY <3>5 DEF ClosedBefore, ClosedAnywhere
  <2> QED BY <2>1, <2>2
<1> QED BY <1>7, <1>11, <1>12 DEF PredecessorsCovered

(* The oldest write is done: what it closed is gone.                       *)
LEMMA WritesCovered ==
  ASSUME IInv, PredecessorsCovered, Next, chain # <<>>, ThenAudit(Head(chain)),
         memCurrent' = memCurrent,
         \A p \in Ids : Closes(1, p) => Gone(p)'
  PROVE  ChainCovered' /\ MemoryCovered'
<1>1. \A p \in Ids : Gone(p) => Gone(p)' BY GoneStays
<1>2. /\ chain' \in Seq(Item) /\ DOMAIN chain' = DOMAIN chain /\ chain'[1].first = "audit"
      /\ \A i \in DOMAIN chain' : i # 1 => chain'[i] = chain[i]
  BY ThenAuditChain
<1>3. ASSUME NEW j \in DOMAIN chain, NEW p \in Ids, Closes(j, p)
      PROVE  Gone(p)' \/ Closes(j, p)'
  BY <1>2, <1>3 DEF Closes, Pending
<1>4. ASSUME NEW n, NEW p \in Ids
      PROVE  /\ ClosedBefore(n, p) => ClosedBefore(n, p)'
             /\ ClosedAnywhere(p) => ClosedAnywhere(p)'
  BY <1>1, <1>2, <1>3 DEF ClosedBefore, ClosedAnywhere
<1>5. ChainCovered'
  <2> SUFFICES ASSUME NEW i \in DOMAIN chain', Pending(i)', NEW p \in chain'[i].subject.supersedes
               PROVE  ClosedBefore(i, p)'
    BY DEF ChainCovered
  <2>1. i \in DOMAIN chain /\ chain'[i] = chain[i] BY <1>2 DEF Pending
  <2>2. chain[i].subject \in Revision /\ Pending(i) BY <2>1 DEF IInv, PendingTyped, Pending
  <2>3. p \in Ids BY <2>1, <2>2, SupersedesIds
  <2>4. ClosedBefore(i, p) BY <2>1, <2>2 DEF PredecessorsCovered, ChainCovered
  <2> QED BY <1>4, <2>3, <2>4
<1>6. MemoryCovered'
  BY <1>4, SupersedesIds DEF IInv, PredecessorsCovered, MemoryCovered
<1> QED BY <1>5, <1>6

LEMMA RevisionCovered ==
  ASSUME IInv, PredecessorsCovered, writeRevision
  PROVE  PredecessorsCovered'
<1>1. PICK h : h = Head(chain).subject OBVIOUS
<1>2. /\ chain # <<>> /\ Head(chain).first = "revision" /\ h \in Revision
      /\ ThenAudit(Head(chain)) /\ memCurrent' = memCurrent
      /\ StoreRevision(h) \/ UNCHANGED <<dbRevisions, dbCurrent>>
      /\ StoreRevision(h) \/ h \in failed'
  BY <1>1, RevisionOutcome DEF memory
<1>3. 1 \in DOMAIN chain /\ chain[1].subject = h /\ Pending(1) /\ DOMAIN chain \subseteq Nat \ {0}
  BY <1>1, <1>2, HeadTyped DEF Pending, IInv, TypeOK
<1>4. \A p \in Ids : Gone(p) => Gone(p)' BY GoneStays, Steps
<1>5. h.directive \in Ids /\ h.supersedes \subseteq Ids /\ h # None
  BY <1>2, NoneAssumption, SupersedesIds DEF Revision
<1>6. dbCurrent \in [Ids -> Revision \cup {None}] BY DEF IInv, TypeOK
<1>7. ASSUME NEW p \in Ids, Closes(1, p) PROVE Gone(p)'
  <2>1. h.directive = p /\ h.status = "superseded" BY <1>3, <1>7 DEF Closes
  <2>2. CASE StoreRevision(h) BY <1>5, <1>6, <2>1, <2>2 DEF StoreRevision, Gone
  <2>3. CASE h \in failed' BY <1>2, <2>1, <2>3 DEF Gone
  <2> QED BY <1>2, <2>2, <2>3
<1>8. ASSUME NEW p \in h.supersedes PROVE Gone(p)'
  <2>1. ClosedBefore(1, p) BY <1>3, <1>8 DEF PredecessorsCovered, ChainCovered
  <2>2. Gone(p) BY <1>3, <2>1 DEF ClosedBefore
  <2> QED BY <1>4, <1>5, <1>8, <2>2
<1>9. StoredCovered'
  <2>1. \A r \in dbRevisions : \A p \in r.supersedes : Gone(p)'
    BY <1>4, SupersedesIds DEF IInv, PredecessorsCovered, StoredCovered
  <2>2. \A d \in Ids : dbCurrent[d] # None => dbCurrent[d] \in dbRevisions
    BY DEF PredecessorsCovered, StoredCovered
  <2>3. CASE StoreRevision(h)
    BY <1>5, <1>6, <1>8, <2>1, <2>2, <2>3 DEF StoreRevision, StoredCovered
  <2>4. CASE UNCHANGED <<dbRevisions, dbCurrent>> BY <2>1, <2>2, <2>4 DEF StoredCovered
  <2> QED BY <1>2, <2>3, <2>4
<1> QED BY <1>2, <1>7, <1>9, WritesCovered, Steps DEF PredecessorsCovered

LEMMA ActivityCovered ==
  ASSUME IInv, PredecessorsCovered, writeActivity
  PROVE  PredecessorsCovered'
<1>1. /\ chain # <<>> /\ Head(chain).first = "activity"
      /\ ThenAudit(Head(chain)) /\ UNCHANGED <<memCurrent, dbRevisions, dbCurrent>>
  BY ActivityOutcome DEF memory
<1>2. \A p \in Ids : ~Closes(1, p) BY <1>1, HeadTyped DEF Closes, Pending
<1>3. \A p \in Ids : Gone(p) => Gone(p)' BY GoneStays, Steps
<1>4. StoredCovered'
  BY <1>1, <1>3, SupersedesIds DEF IInv, PredecessorsCovered, StoredCovered
<1> QED BY <1>1, <1>2, <1>4, WritesCovered, Steps DEF PredecessorsCovered

LEMMA AuditsCovered ==
  ASSUME IInv, PredecessorsCovered, Audits
  PROVE  PredecessorsCovered'
<1>1. /\ chain # <<>> /\ Head(chain).first = "audit" /\ chain' = Tail(chain)
      /\ UNCHANGED <<memCurrent, dbRevisions, dbCurrent, failed>>
  BY AuditsShape DEF memory
<1>2. chain \in Seq(Item) /\ ~Pending(1) BY <1>1, HeadTyped DEF Pending, IInv, TypeOK, Item
<1>3. /\ DOMAIN chain \subseteq Nat /\ DOMAIN chain' \subseteq Nat
      /\ \A i \in DOMAIN chain' : i + 1 \in DOMAIN chain /\ chain'[i] = chain[i + 1]
      /\ \A i \in DOMAIN chain : i # 1 => i - 1 \in DOMAIN chain' /\ chain'[i - 1] = chain[i]
  BY <1>1, <1>2
<1>4. \A p : Gone(p) <=> Gone(p)' BY <1>1 DEF Gone
<1>5. ASSUME NEW j \in DOMAIN chain, NEW p, Closes(j, p)
      PROVE  \E k \in DOMAIN chain' : k = j - 1 /\ Closes(k, p)'
  <2>1. j # 1 BY <1>2, <1>5 DEF Closes
  <2>2. PICK k \in DOMAIN chain' : k = j - 1 /\ chain'[k] = chain[j] BY <1>3, <2>1
  <2> QED BY <1>5, <2>2 DEF Closes, Pending
<1>6. ChainCovered'
  <2> SUFFICES ASSUME NEW i \in DOMAIN chain', Pending(i)', NEW p \in chain'[i].subject.supersedes
               PROVE  ClosedBefore(i, p)'
    BY DEF ChainCovered
  <2>1. i + 1 \in DOMAIN chain /\ chain'[i] = chain[i + 1] /\ i \in Nat BY <1>3
  <2>2. ClosedBefore(i + 1, p) BY <2>1 DEF PredecessorsCovered, ChainCovered, Pending
  <2>3. CASE Gone(p) BY <1>4, <2>3 DEF ClosedBefore
  <2>4. CASE \E j \in DOMAIN chain : j < i + 1 /\ Closes(j, p)
    <3>1. PICK j \in DOMAIN chain : j < i + 1 /\ Closes(j, p) BY <2>4
    <3>2. PICK k \in DOMAIN chain' : k = j - 1 /\ Closes(k, p)' BY <1>5, <3>1
    <3>3. k < i BY <1>3, <2>1, <3>1, <3>2
    <3> QED BY <3>2, <3>3 DEF ClosedBefore
  <2> QED BY <2>2, <2>3, <2>4 DEF ClosedBefore
<1>7. \A p : ClosedAnywhere(p) => ClosedAnywhere(p)' BY <1>4, <1>5 DEF ClosedAnywhere
<1>8. MemoryCovered' BY <1>1, <1>7 DEF PredecessorsCovered, MemoryCovered
<1>9. StoredCovered' BY <1>1, <1>4 DEF PredecessorsCovered, StoredCovered
<1> QED BY <1>6, <1>8, <1>9 DEF PredecessorsCovered

LEMMA StartsCovered ==
  ASSUME IInv, PredecessorsCovered, Starts
  PROVE  PredecessorsCovered'
<1>1. /\ chain' = <<>> /\ memCurrent' = dbCurrent
      /\ UNCHANGED <<dbRevisions, dbCurrent, failed>>
  BY StartsShape DEF Boot, LoadMemory
<1>2. \A p : Gone(p) <=> Gone(p)' BY <1>1 DEF Gone
<1>3. StoredCovered' BY <1>1, <1>2 DEF PredecessorsCovered, StoredCovered
<1>4. ChainCovered'
  <2>1. DOMAIN chain' = {} BY <1>1
  <2> QED BY <2>1 DEF ChainCovered
<1>5. MemoryCovered'
  BY <1>1, <1>2 DEF PredecessorsCovered, StoredCovered, MemoryCovered, ClosedAnywhere
<1> QED BY <1>3, <1>4, <1>5 DEF PredecessorsCovered

(* When a successor is stored its predecessors are stored as superseded,   *)
(* or a write of theirs raised: for any requests, also those that stop at  *)
(* a closed predecessor, and any failures and restarts (service.ts:        *)
(* closeAsSuperseded).                                                     *)
THEOREM PredecessorsComeFirst == Spec => []PredecessorsStoredFirst
<1>1. Init => PredecessorsCovered
  <2> SUFFICES ASSUME Init PROVE PredecessorsCovered OBVIOUS
  <2>1. DOMAIN chain = {} BY DEF Init
  <2> QED BY <2>1 DEF Init, PredecessorsCovered, StoredCovered, ChainCovered, MemoryCovered
<1>2. IInv /\ PredecessorsCovered /\ [Next]_vars => PredecessorsCovered'
  <2> SUFFICES ASSUME IInv, PredecessorsCovered, [Next]_vars PROVE PredecessorsCovered' OBVIOUS
  <2>1. CASE Next
    BY <2>1, RequestsCovered, SubmitsCovered, RevisionCovered, ActivityCovered, AuditsCovered,
       StartsCovered, Steps
  <2>2. CASE UNCHANGED vars
    <3>1. UNCHANGED <<chain, memCurrent, dbRevisions, dbCurrent, failed>>
      BY <2>2 DEF vars, memory, database
    <3> QED BY <3>1 DEF PredecessorsCovered, StoredCovered, ChainCovered, MemoryCovered,
                        ClosedBefore, ClosedAnywhere, Gone, Closes, Pending
  <2> QED BY <2>1, <2>2
<1>3. PredecessorsCovered => PredecessorsStoredFirst
  BY DEF PredecessorsCovered, StoredCovered, Gone, PredecessorsStoredFirst
<1> QED BY <1>1, <1>2, <1>3, Invariant, PTL DEF Spec

-----------------------------------------------------------------------------
(* The refinement of DirectiveLog.                                         *)

LEMMA AcceptedParts ==
  ASSUME IInv
  PROVE  /\ \A i \in DOMAIN chain : chain[i].first = "revision" => chain[i].subject \in Accepted
         /\ \A r \in Accepted :
              \E i \in DOMAIN chain : chain[i].first = "revision" /\ chain[i].subject = r
BY DEF Accepted

(* insertCurrent: the revisions are served and wait.                       *)
LEMMA RequestAccepts ==
  ASSUME IInv, Requests
  PROVE  \E ds \in SUBSET Ids : Log!Accept(ds)
<1>1. PICK rs \in Seq(Revision), awaited \in BOOLEAN : Batch(rs) /\ InsertCurrent(rs, awaited)
  BY RequestsInsert DEF Inserts
<1>2. /\ DOMAIN rs = 1..Len(rs) /\ Len(rs) \in Nat
      /\ \A i \in DOMAIN rs : rs[i] \in Revision /\ rs[i].directive \in Ids
  BY <1>1, BatchTyped
<1>3. /\ \A i \in DOMAIN rs : memCurrent'[rs[i].directive] = rs[i]
      /\ \A d \in Ids : (\A i \in DOMAIN rs : rs[i].directive # d) => memCurrent'[d] = memCurrent[d]
      /\ memCurrent' \in [Ids -> Revision \cup {None}]
  BY <1>1, BatchCurrent DEF IInv
<1>4. /\ DOMAIN chain' = 1..(Len(chain) + Len(rs))
      /\ \A i \in DOMAIN chain : chain'[i] = chain[i]
      /\ \A i \in DOMAIN chain' :
           i > Len(chain) => /\ i - Len(chain) \in DOMAIN rs
                             /\ chain'[i].first = "revision"
                             /\ chain'[i].subject = rs[i - Len(chain)]
  BY <1>1, BatchChain DEF IInv
<1>5. chain \in Seq(Item) /\ Len(chain) \in Nat /\ DOMAIN chain = 1..Len(chain)
  BY DEF IInv, TypeOK, Item
<1> DEFINE ds == {rs[i].directive : i \in DOMAIN rs}
<1>6. ds \in SUBSET Ids BY <1>2
<1>7. ASSUME NEW d \in ds PROVE Log!Succeeds(memCurrent'[d], d)
  <2>1. PICK i \in DOMAIN rs : rs[i].directive = d OBVIOUS
  <2>2. memCurrent'[d] = rs[i] /\ rs[i] # None BY <1>2, <1>3, <2>1, NoneAssumption
  <2>3. \/ memCurrent[d] = None /\ rs[i].version = 1
        \/ Open(d) /\ rs[i].version = memCurrent[d].version + 1
    BY <1>1, <2>1 DEF Batch
  <2> QED BY <2>1, <2>2, <2>3 DEF Log!Succeeds, Log!Terminal, Open, terminalStatus
<1>8. ASSUME NEW d \in Ids, d \notin ds PROVE memCurrent'[d] = memCurrent[d]
  BY <1>3, <1>8
<1>9. memCurrent' = [d \in Ids |-> IF d \in ds THEN memCurrent'[d] ELSE memCurrent[d]]
  <2> HIDE DEF ds
  <2> QED BY <1>3, <1>8
<1>10. {memCurrent'[d] : d \in ds} = {rs[i] : i \in DOMAIN rs} BY <1>3
<1>11. Accepted' = Accepted \cup {rs[i] : i \in DOMAIN rs}
  <2>1. ASSUME NEW r \in Accepted' PROVE r \in Accepted \/ \E i \in DOMAIN rs : r = rs[i]
    <3>1. PICK i \in DOMAIN chain' : chain'[i].first = "revision" /\ chain'[i].subject = r
      BY DEF Accepted
    <3>2. CASE i > Len(chain) BY <1>4, <3>1, <3>2
    <3>3. CASE ~(i > Len(chain))
      <4>1. i \in DOMAIN chain /\ chain'[i] = chain[i] BY <1>2, <1>4, <1>5, <3>1, <3>3
      <4> QED BY <3>1, <4>1, AcceptedParts
    <3> QED BY <3>2, <3>3
  <2>2. ASSUME NEW r \in Accepted PROVE r \in Accepted'
    <3>1. PICK i \in DOMAIN chain : chain[i].first = "revision" /\ chain[i].subject = r
      BY AcceptedParts
    <3>2. i \in DOMAIN chain' /\ chain'[i] = chain[i] BY <1>2, <1>4, <1>5, <3>1
    <3> QED BY <3>1, <3>2 DEF Accepted
  <2>3. ASSUME NEW i \in DOMAIN rs PROVE rs[i] \in Accepted'
    <3>1. Len(chain) + i \in DOMAIN chain' /\ Len(chain) + i > Len(chain) /\ (Len(chain) + i) - Len(chain) = i
      BY <1>2, <1>4, <1>5
    <3>2. chain'[Len(chain) + i].first = "revision" /\ chain'[Len(chain) + i].subject = rs[i]
      BY <1>4, <3>1
    <3> QED BY <3>1, <3>2 DEF Accepted
  <2> QED BY <2>1, <2>2, <2>3
<1>12. UNCHANGED <<dbRevisions, dbCurrent>> BY <1>1 DEF InsertCurrent, database
<1> HIDE DEF ds
<1>13. Log!Accept(ds) BY <1>7, <1>9, <1>10, <1>11, <1>12 DEF Log!Accept
<1> QED BY <1>6, <1>13

(* A proposal or an agent's report concerns no directive.                  *)
LEMMA SubmitAcceptsNothing ==
  ASSUME IInv, Submits
  PROVE  UNCHANGED Log!vars
<1>1. PICK w \in Item : chain' = Append(chain, w) /\ w.first # "revision" BY SubmitsShape
<1>2. chain \in Seq(Item) BY DEF IInv, TypeOK, Item
<1>3. DOMAIN chain' = DOMAIN chain \cup {Len(chain) + 1} /\ chain'[Len(chain) + 1] = w
      /\ \A i \in DOMAIN chain : chain'[i] = chain[i]
  BY <1>1, <1>2
<1>4. \A r : r \in Accepted' <=> r \in Accepted BY <1>1, <1>3 DEF Accepted
<1>5. Accepted' = Accepted BY <1>4
<1>6. UNCHANGED <<memCurrent, dbRevisions, dbCurrent>> BY SubmitsShape DEF database
<1> QED BY <1>5, <1>6 DEF Log!vars

(* The oldest write becomes its audit event: if it was a revision, that is *)
(* the oldest of its directive.                                            *)
LEMMA HeadLeaves ==
  ASSUME IInv, chain # <<>>, ThenAudit(Head(chain))
  PROVE  IF Head(chain).first = "revision"
         THEN Head(chain).subject \in Accepted /\ Log!Leaves(Head(chain).subject)
         ELSE Accepted' = Accepted
<1>1. /\ 1 \in DOMAIN chain /\ Head(chain) = chain[1]
      /\ DOMAIN chain' = DOMAIN chain /\ chain'[1].first = "audit"
      /\ \A i \in DOMAIN chain : i # 1 => chain'[i] = chain[i]
  BY HeadTyped, ThenAuditChain
<1>2. ASSUME NEW i \in DOMAIN chain, chain[i].first = "revision", i # 1
      PROVE  chain[i].subject \in Accepted'
  BY <1>1, <1>2 DEF Accepted
<1>3. ASSUME NEW r \in Accepted'
      PROVE  \E i \in DOMAIN chain : i # 1 /\ chain[i].first = "revision" /\ chain[i].subject = r
  BY <1>1 DEF Accepted
<1>4. CASE chain[1].first # "revision"
  <2>1. \A r : r \in Accepted' <=> r \in Accepted BY <1>2, <1>3, <1>4, AcceptedParts
  <2>2. Accepted' = Accepted BY <2>1
  <2> QED BY <1>1, <1>4, <2>2
<1>5. CASE chain[1].first = "revision"
  <2> DEFINE h == chain[1].subject
  <2>1. h \in Accepted BY <1>1, <1>5, AcceptedParts
  <2>2. ASSUME NEW i \in DOMAIN chain, i # 1, chain[i].first = "revision",
               chain[i].subject.directive = h.directive
        PROVE  h.version < chain[i].subject.version
    <3>1. 1 < i
      <4>1. DOMAIN chain = 1..Len(chain) BY DEF IInv, TypeOK, Item
      <4> QED BY <2>2, <4>1
    <3> QED BY <1>1, <1>5, <2>2, <3>1 DEF IInv, PendingOrdered, Pending
  <2>3. h \in Revision /\ h.version \in Nat BY <1>1, <1>5, HeadTyped DEF Revision
  <2>4. ASSUME NEW q \in Accepted, q.directive = h.directive PROVE h.version <= q.version
    <3>1. PICK i \in DOMAIN chain : chain[i].first = "revision" /\ chain[i].subject = q
      BY AcceptedParts
    <3>2. q \in Revision BY <3>1 DEF IInv, PendingTyped
    <3>3. q.version \in Nat BY <3>2 DEF Revision
    <3> QED BY <2>2, <2>3, <2>4, <3>1, <3>3
  <2>5. h \notin Accepted'
    <3> SUFFICES ASSUME h \in Accepted' PROVE FALSE OBVIOUS
    <3>1. PICK i \in DOMAIN chain : i # 1 /\ chain[i].first = "revision" /\ chain[i].subject = h
      BY <1>3
    <3> QED BY <2>2, <2>3, <3>1
  <2>6. \A r : r \in Accepted' => r \in Accepted BY <1>3, AcceptedParts
  <2>7. ASSUME NEW r \in Accepted, r # h PROVE r \in Accepted'
    <3>1. PICK i \in DOMAIN chain : chain[i].first = "revision" /\ chain[i].subject = r
      BY AcceptedParts
    <3> QED BY <1>2, <2>7, <3>1
  <2>8. Accepted' = Accepted \ {h} BY <2>5, <2>6, <2>7
  <2> HIDE DEF h
  <2>9. Log!Leaves(h) BY <2>4, <2>8 DEF Log!Leaves
  <2> QED BY <1>1, <1>5, <2>1, <2>9 DEF h
<1> QED BY <1>4, <1>5

(* writeRevision stores the revision at the head, or loses it.             *)
LEMMA WriteStoresOrLoses ==
  ASSUME IInv, writeRevision
  PROVE  \E r \in Accepted : Log!Store(r) \/ Log!Lose(r)
<1>1. /\ chain # <<>> /\ Head(chain).first = "revision" /\ ThenAudit(Head(chain))
      /\ UNCHANGED memory
  BY DEF writeRevision, AfterFailure
<1>2. PICK r : r = Head(chain).subject OBVIOUS
<1>3. r \in Accepted /\ Log!Leaves(r) BY <1>1, <1>2, HeadLeaves
<1>4. memCurrent' = memCurrent BY <1>1 DEF memory
<1>5. StoreRevision(r) \/ UNCHANGED database BY <1>2 DEF writeRevision, Fail
<1>6. CASE UNCHANGED database
  BY <1>3, <1>4, <1>6 DEF database, Log!Lose
<1>7. CASE StoreRevision(r)
  <2>1. /\ 1 \in DOMAIN chain /\ Head(chain) = chain[1] /\ r \in Revision
        /\ chain[1].first = "revision" /\ r = chain[1].subject
    BY <1>1, <1>2, HeadTyped
  <2>2. Behind(r, r.directive) /\ Ahead(r) BY <2>1 DEF IInv, PendingBetween, Pending
  <2>3. r.version \in Nat /\ r.directive \in Ids BY <2>1 DEF Revision
  <2>4. ASSUME NEW q \in dbRevisions, q.directive = r.directive PROVE q.version < r.version
    <3>1. dbCurrent[r.directive] # None /\ q.version <= dbCurrent[r.directive].version
      BY <2>4 DEF IInv, StoredCurrentIsNewest
    <3>2. dbCurrent[r.directive].version < r.version BY <2>2, <3>1 DEF Ahead
    <3>3. q \in Revision /\ dbCurrent[r.directive] \in Revision BY <2>3, <3>1 DEF IInv, TypeOK
    <3>4. q.version \in Nat /\ dbCurrent[r.directive].version \in Nat BY <3>3 DEF Revision
    <3> QED BY <2>3, <3>1, <3>2, <3>4
  <2>5. ASSUME dbCurrent[r.directive] # None PROVE ~Log!Terminal(dbCurrent[r.directive])
    <3> SUFFICES ASSUME terminalStatus(dbCurrent[r.directive].status) PROVE FALSE
      BY DEF Log!Terminal, terminalStatus
    <3>1. dbCurrent[r.directive].version < r.version BY <2>2, <2>5 DEF Ahead
    <3>2. memCurrent[r.directive] # None /\ r.version <= memCurrent[r.directive].version
      BY <2>2 DEF Behind
    <3>3. memCurrent[r.directive].version = dbCurrent[r.directive].version
      BY <2>3, <2>5 DEF IInv, StoredBehind, Behind
    <3>4. dbCurrent[r.directive] \in Revision BY <2>3, <2>5 DEF IInv, TypeOK
    <3>5. dbCurrent[r.directive].version \in Nat BY <3>4 DEF Revision
    <3> QED BY <2>3, <3>1, <3>2, <3>3, <3>5
  <2>6. dbRevisions' = dbRevisions \cup {r} /\ dbCurrent' = [dbCurrent EXCEPT ![r.directive] = r]
    BY <1>7 DEF StoreRevision
  <2>7. Log!Store(r) BY <1>3, <1>4, <2>4, <2>5, <2>6 DEF Log!Store
  <2> QED BY <1>3, <2>7
<1> QED BY <1>3, <1>5, <1>6, <1>7

(* The writes of reports and audit events concern no directive.            *)
LEMMA OtherWritesStoreNothing ==
  ASSUME IInv, writeActivity \/ Audits
  PROVE  UNCHANGED Log!vars
<1>1. CASE writeActivity
  <2>1. /\ chain # <<>> /\ Head(chain).first = "activity" /\ ThenAudit(Head(chain))
        /\ UNCHANGED memory /\ UNCHANGED <<dbRevisions, dbCurrent>>
    BY <1>1 DEF writeActivity, AfterFailure, Fail, StoreActivity, database
  <2>2. Accepted' = Accepted BY <2>1, HeadLeaves
  <2> QED BY <2>1, <2>2 DEF Log!vars, memory
<1>2. CASE Audits
  <2>1. /\ chain # <<>> /\ Head(chain).first = "audit" /\ chain' = Tail(chain)
        /\ UNCHANGED <<memory, dbRevisions, dbCurrent>>
    BY <1>2, AuditsShape
  <2>2. chain \in Seq(Item) BY DEF IInv, TypeOK, Item
  <2>3. /\ \A i \in DOMAIN chain' : i + 1 \in DOMAIN chain /\ chain'[i] = chain[i + 1]
        /\ \A i \in DOMAIN chain : i = 1 \/ (i - 1 \in DOMAIN chain' /\ chain'[i - 1] = chain[i])
        /\ chain[1].first = "audit"
    BY <2>1, <2>2
  <2>4. ASSUME NEW r \in Accepted' PROVE r \in Accepted BY <2>3 DEF Accepted
  <2>5. ASSUME NEW r \in Accepted PROVE r \in Accepted'
    <3>1. PICK i \in DOMAIN chain : chain[i].first = "revision" /\ chain[i].subject = r
      BY AcceptedParts
    <3>2. i - 1 \in DOMAIN chain' /\ chain'[i - 1] = chain[i] BY <2>3, <3>1
    <3> QED BY <3>1, <3>2 DEF Accepted
  <2>6. Accepted' = Accepted BY <2>4, <2>5
  <2> QED BY <2>1, <2>6 DEF Log!vars, memory
<1> QED BY <1>1, <1>2

(* A new process serves what is stored.                                    *)
LEMMA StartRestarts ==
  ASSUME IInv, Starts
  PROVE  Log!Restart
<1>1. memCurrent' = dbCurrent /\ chain' = <<>> /\ UNCHANGED <<dbRevisions, dbCurrent>>
  BY StartsShape DEF Boot, LoadMemory
<1>2. DOMAIN chain' = {} BY <1>1
<1>3. Accepted' = {} BY <1>2 DEF Accepted
<1> QED BY <1>1, <1>3 DEF Log!Restart

(* The context service implements the directives its callers and readers   *)
(* rely on, for any number of directives, requests, predecessors, failures *)
(* and restarts (insertCurrent, writeRevision, createPostgresStoreFromPool)*)
THEOREM StoreImplementsLog == Spec => ImplementsLog
<1>1. Init => Log!Init
  <2> SUFFICES ASSUME Init PROVE Log!Init OBVIOUS
  <2>1. DOMAIN chain = {} BY DEF Init
  <2>2. Accepted = {} BY <2>1 DEF Accepted
  <2> QED BY <2>2 DEF Init, Log!Init
<1>2. IInv /\ [Next]_vars => [Log!Next]_(Log!vars)
  <2> SUFFICES ASSUME IInv, [Next]_vars PROVE Log!Next \/ UNCHANGED Log!vars OBVIOUS
  <2>1. CASE Requests BY <2>1, RequestAccepts DEF Log!Next
  <2>2. CASE Submits BY <2>2, SubmitAcceptsNothing
  <2>3. CASE writeRevision BY <2>3, WriteStoresOrLoses DEF Log!Next
  <2>4. CASE writeActivity \/ Audits BY <2>4, OtherWritesStoreNothing
  <2>5. CASE Starts BY <2>5, StartRestarts DEF Log!Next
  <2>6. CASE UNCHANGED vars
    BY <2>6 DEF vars, memory, database, Accepted, Log!vars
  <2> QED BY <2>1, <2>2, <2>3, <2>4, <2>5, <2>6, Steps
<1> QED BY <1>1, <1>2, Invariant, PTL DEF Spec, ImplementsLog, Log!Spec

=============================================================================
