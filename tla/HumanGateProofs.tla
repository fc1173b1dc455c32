-------------------------- MODULE HumanGateProofs --------------------------
(* Proofs about the human gate, for any tabs, candidates and bounds.       *)
EXTENDS HumanGate, FiniteSetTheorems, TLAPS

Counts == {0} \cup {Cardinality(s) : s \in SUBSET Candidates}
WriteType ==
  [tab : Tabs, intent : Intents, page : Pages, step : Steps, posting : Intents,
   generation : Nat, wire : {"none", "sent", "applied"}, answer : Outcomes,
   counted : Counts, report : Outcomes]
RowType ==
  [validation : {"NONE", "VALID", "RISKY"}, decision : {"NONE"} \cup Decisions,
   effective : BOOLEAN, scheduled : BOOLEAN]
ServerType == [Candidates -> RowType]
Paints == {<<0, "url">>} \cup Nat \X {"start", "end", "preview"}
ReadType == [page : Pages, by : Paints, seen : SUBSET Seen]
ScreenType == [page : Pages, ready : BOOLEAN, shown : Seen]
MarkType == [Candidates -> {"none", "aprovado", "ajuste"}]

-----------------------------------------------------------------------------
(* The invariant, a part for each kind of fact.                            *)

Shapes ==
  /\ store \in [Intents -> Nat] /\ settled \in [Intents -> Nat]
  /\ writes \in Seq(WriteType)
  /\ late \subseteq Intents \X Nat /\ receipts \subseteq Intents \X Nat
  /\ server \in ServerType
  /\ marks \in [Tabs -> MarkType]
  /\ hash \in [Tabs -> Pages]
  /\ screen \in [Tabs -> ScreenType]
  /\ reads \in [Tabs -> SUBSET ReadType]

(* No key is ahead of the generation that its intent has in the store.     *)
KeysAreIssued ==
  /\ \A i \in Intents : store[i] = settled[i]
  /\ \A k \in receipts \cup late : k[2] <= store[k[1]]
  /\ \A n \in DOMAIN writes : writes[n].generation <= store[writes[n].posting]

Decides(w, t, c) ==
  w.tab = t /\ w.step # "done" /\ w.intent.action \in Decisions /\ w.intent.candidate = c

(* Every mark belongs to a chain that is deciding.                         *)
MarksAreOwned ==
  \A t \in Tabs, c \in Candidates :
    marks[t][c] # "none" => \E n \in DOMAIN writes : Decides(writes[n], t, c)

(* A tab that no form has repainted reads the page of its URL only.        *)
ReadsFollowUrl ==
  \A t \in Tabs \ repainted :
    /\ screen[t].page = hash[t]
    /\ \A r \in reads[t] : r.page = hash[t] /\ r.by = <<0, "url">>

(* What is in force now was recorded for every form that asked for it.     *)
InForceIsRecorded ==
  \A n \in DOMAIN writes :
    /\ writes[n].intent.action \in Decisions
    /\ InForce(server[writes[n].intent.candidate], writes[n].intent.action)
    => n \in recorded

(* The drafts, and the count of previews that numbers their reads.         *)
DraftsTyped == previews \in Nat /\ drafts \in [Tabs -> SUBSET Candidates]

IInv ==
  /\ Shapes /\ KeysAreIssued /\ MarksAreOwned /\ ReadsFollowUrl
  /\ InForceIsRecorded /\ ReportedDecisionsAreReal

-----------------------------------------------------------------------------
(* Warmbly: a step leaves the server and what was recorded alone, or moves *)
(* both as Becomes says.                                                   *)
ServerStep ==
  \/ UNCHANGED <<server, recorded, reads>>
  \/ \E s \in ServerType : Becomes(s)

LEMMA IntentCandidate ==
  ASSUME NEW i \in Intents, i.action \in OfCandidate
  PROVE  i.candidate \in Candidates
  BY DEF Intents, OfCandidate

LEMMA ValidationIntent ==
  ASSUME NEW c \in Candidates
  PROVE  Validation(c) \in Intents
  BY DEF Validation, Intents, OfCandidate

LEMMA EffectMoves ==
  ASSUME Shapes, NEW i \in Intents, Effect(i)
  PROVE  ServerStep
  <1> DEFINE c == i.candidate
  <1>0. server \in ServerType
    BY DEF Shapes
  <1>1. CASE i.action = "validate"
    <2>1. c \in Candidates
      BY <1>1, IntentCandidate DEF OfCandidate
    <2>2. PICK v \in {"VALID", "RISKY"} : Becomes([server EXCEPT ![c].validation = v])
      BY <1>1 DEF Effect
    <2>3. [server EXCEPT ![c].validation = v] \in ServerType
      BY <1>0, <2>1 DEF ServerType, RowType
    <2> QED
      BY <2>2, <2>3 DEF ServerStep
  <1>2. CASE i.action = "APPROVE"
    <2>1. PICK b \in BOOLEAN :
            Becomes([server EXCEPT ![c] = [validation |-> "VALID", decision |-> "APPROVE",
                                           effective |-> TRUE, scheduled |-> b]])
      BY <1>2 DEF Effect
    <2>2. [validation |-> "VALID", decision |-> "APPROVE", effective |-> TRUE,
           scheduled |-> b] \in RowType
      BY DEF RowType, Decisions
    <2>3. [server EXCEPT ![c] = [validation |-> "VALID", decision |-> "APPROVE",
                                 effective |-> TRUE, scheduled |-> b]] \in ServerType
      BY <1>0, <2>2 DEF ServerType
    <2> QED
      BY <2>1, <2>3 DEF ServerStep
  <1>3. CASE i.action \in {"HOLD", "REJECT"}
    <2>1. Becomes([server EXCEPT ![c].decision = i.action, ![c].effective = FALSE,
                                 ![c].scheduled = FALSE])
      BY <1>3 DEF Effect
    <2>2. c \in Candidates
      BY <1>3, IntentCandidate DEF OfCandidate
    <2>3. [server EXCEPT ![c].decision = i.action, ![c].effective = FALSE,
                         ![c].scheduled = FALSE] \in ServerType
      BY <1>0, <1>3, <2>2 DEF ServerType, RowType, Decisions
    <2> QED
      BY <2>1, <2>3 DEF ServerStep
  <1>4. CASE i.action = "reconcile"
    <2>1. PICK done \in SUBSET EffectiveApprovals(server) :
            Becomes([d \in Candidates |-> IF d \in done THEN [server[d] EXCEPT !.scheduled = TRUE]
                                                        ELSE server[d]])
      BY <1>4 DEF Effect
    <2>2. [d \in Candidates |-> IF d \in done THEN [server[d] EXCEPT !.scheduled = TRUE]
                                              ELSE server[d]] \in ServerType
      BY <1>0 DEF ServerType, RowType
    <2> QED
      BY <2>1, <2>2 DEF ServerStep
  <1>5. CASE i.action \notin {"validate", "APPROVE", "HOLD", "REJECT", "reconcile"}
    <2>1. Becomes(server)
      BY <1>5 DEF Effect
    <2> QED
      BY <1>0, <2>1 DEF ServerStep
  <1> QED
    BY <1>1, <1>2, <1>3, <1>4, <1>5

LEMMA ApplyMoves ==
  ASSUME Shapes, NEW i \in Intents, NEW key, Apply(i, key)
  PROVE  ServerStep /\ receipts' \subseteq receipts \cup {key}
  <1>1. CASE key \in receipts
    BY <1>1 DEF Apply, ServerStep
  <1>2. CASE key \notin receipts
    BY <1>2, EffectMoves DEF Apply
  <1> QED
    BY <1>1, <1>2

(* What such a step is to the parts of the invariant: what is in force is  *)
(* recorded, and the reads under way are the same.                         *)
ServerMoves ==
  /\ server' \in ServerType
  /\ recorded \subseteq recorded'
  /\ \A n \in DOMAIN writes :
       /\ writes[n].intent.action \in Decisions
       /\ InForce(server'[writes[n].intent.candidate], writes[n].intent.action)
       => n \in recorded'

SameReads(t) == \A q \in reads'[t] : \E r \in reads[t] : q.page = r.page /\ q.by = r.by

LEMMA MovesKeep ==
  ASSUME Shapes, InForceIsRecorded, ServerStep
  PROVE  /\ ServerMoves
         /\ reads' \in [Tabs -> SUBSET ReadType]
         /\ \A t \in Tabs : SameReads(t)
  <1>1. CASE UNCHANGED <<server, recorded, reads>>
    BY <1>1 DEF Shapes, InForceIsRecorded, ServerMoves, SameReads
  <1>2. CASE \E s \in ServerType : Becomes(s)
    <2>1. PICK s \in ServerType : Becomes(s)
      BY <1>2
    <2>2. Queue(s) \in Seen
      BY DEF Queue, Seen, ServerState, QueueStates
    <2>3. reads' = [t \in Tabs |-> {[r EXCEPT !.seen = @ \cup {Queue(s)}] : r \in reads[t]}]
      BY <2>1 DEF Becomes
    <2>4. ASSUME NEW t \in Tabs, NEW q \in reads'[t]
          PROVE  /\ q \in ReadType
                 /\ \E r \in reads[t] : q.page = r.page /\ q.by = r.by
      <3>1. PICK r \in reads[t] : q = [r EXCEPT !.seen = @ \cup {Queue(s)}]
        BY <2>3, <2>4
      <3>2. r \in ReadType
        BY <2>4 DEF Shapes
      <3> QED
        BY <2>2, <3>1, <3>2 DEF ReadType
    <2>5. reads' \in [Tabs -> SUBSET ReadType]
      BY <2>3, <2>4
    <2>6. /\ server' = s
          /\ recorded' = recorded \cup {n \in DOMAIN writes :
               LET i == writes[n].intent IN i.action \in Decisions /\ InForce(s[i.candidate], i.action)}
      BY <2>1 DEF Becomes
    <2>7. ServerMoves
      BY <2>6 DEF ServerMoves
    <2> QED
      BY <2>4, <2>5, <2>7 DEF SameReads
  <1> QED
    BY <1>1, <1>2 DEF ServerStep

-----------------------------------------------------------------------------
(* What is shown: its types, and that the other tabs follow their URL.     *)
PaintsFollow ==
  /\ hash' \in [Tabs -> Pages]
  /\ screen' \in [Tabs -> ScreenType]
  /\ reads' \in [Tabs -> SUBSET ReadType]
  /\ ReadsFollowUrl'

LEMMA LoadingType ==
  ASSUME NEW page \in Pages
  PROVE  Loading(page) \in ScreenType /\ Loading(page).page = page
  BY DEF Loading, ScreenType, Seen, QueueStates

LEMMA ReadTyped ==
  ASSUME NEW page \in Pages, NEW by \in Paints
  PROVE  Read(page, by) \in ReadType /\ Read(page, by).page = page /\ Read(page, by).by = by
  <1>1. Queue(server) \in Seen
    BY DEF Queue, Seen, ServerState, QueueStates
  <1> QED
    BY <1>1 DEF Read, ReadType

LEMMA PaintKeeps ==
  ASSUME IInv, NEW t \in Tabs, NEW page \in Pages, paint(t, page)
  PROVE  PaintsFollow
  <1> DEFINE q == Read(page, <<0, "url">>)
  <1>1. q \in ReadType /\ q.page = page /\ q.by = <<0, "url">>
    BY ReadTyped DEF Paints
  <1>2. Loading(page) \in ScreenType /\ Loading(page).page = page
    BY LoadingType
  <1>3. reads' = [reads EXCEPT ![t] = Awaited(reads[t]) \cup {q}] /\ repainted' = repainted
    BY DEF paint
  <1>4. reads \in [Tabs -> SUBSET ReadType] /\ Awaited(reads[t]) \subseteq reads[t]
    BY DEF IInv, Shapes, Awaited
  <1> HIDE DEF q
  <1>5. /\ reads' \in [Tabs -> SUBSET ReadType]
        /\ reads'[t] = Awaited(reads[t]) \cup {q}
        /\ \A u \in Tabs \ {t} : reads'[u] = reads[u]
    BY <1>1, <1>3, <1>4
  <1>6. /\ hash' \in [Tabs -> Pages] /\ screen' \in [Tabs -> ScreenType]
        /\ screen'[t].page = page /\ hash'[t] = page
        /\ \A u \in Tabs \ {t} : hash'[u] = hash[u] /\ screen'[u] = screen[u]
    BY <1>2 DEF paint, IInv, Shapes
  <1>7. t \notin repainted => Awaited(reads[t]) = {}
    BY DEF IInv, ReadsFollowUrl, Awaited
  <1>8. ReadsFollowUrl'
    <2> SUFFICES ASSUME NEW u \in Tabs \ repainted
                 PROVE  /\ screen'[u].page = hash'[u]
                        /\ \A r \in reads'[u] : r.page = hash'[u] /\ r.by = <<0, "url">>
      BY <1>3 DEF ReadsFollowUrl
    <2>1. CASE u = t
      BY <1>1, <1>5, <1>6, <1>7, <2>1
    <2>2. CASE u # t
      BY <1>5, <1>6, <2>2 DEF IInv, ReadsFollowUrl
    <2> QED
      BY <2>1, <2>2
  <1> QED
    BY <1>5, <1>6, <1>8 DEF PaintsFollow

LEMMA RepaintKeeps ==
  ASSUME IInv, NEW t \in Tabs, NEW page \in Pages, NEW by \in Paints, repaint(t, page, by)
  PROVE  PaintsFollow
  <1>1. Read(page, by) \in ReadType /\ Loading(page) \in ScreenType
    BY ReadTyped, LoadingType
  <1>2. /\ hash' = hash /\ screen' = [screen EXCEPT ![t] = Loading(page)]
        /\ reads' = [reads EXCEPT ![t] = @ \cup {Read(page, by)}]
        /\ repainted' = repainted \cup {t}
    BY DEF repaint
  <1>3. hash' \in [Tabs -> Pages] /\ screen' \in [Tabs -> ScreenType]
    BY <1>1, <1>2 DEF IInv, Shapes
  <1>4. reads' \in [Tabs -> SUBSET ReadType]
    BY <1>1, <1>2 DEF IInv, Shapes
  <1>5. ReadsFollowUrl'
    BY <1>2 DEF IInv, Shapes, ReadsFollowUrl
  <1> QED
    BY <1>3, <1>4, <1>5 DEF PaintsFollow

LEMMA ServerFollows ==
  ASSUME IInv, ServerStep, UNCHANGED <<hash, screen, repainted>>
  PROVE  PaintsFollow
  <1>1. reads' \in [Tabs -> SUBSET ReadType] /\ \A t \in Tabs : SameReads(t)
    BY MovesKeep DEF IInv
  <1>2. ReadsFollowUrl'
    BY <1>1 DEF IInv, ReadsFollowUrl, SameReads
  <1> QED
    BY <1>1, <1>2 DEF PaintsFollow, IInv, Shapes

-----------------------------------------------------------------------------
(* Steps that change no form.                                              *)
LEMMA NoFormKeeps ==
  ASSUME IInv, UNCHANGED <<writes, store, settled, marks>>,
         late' \subseteq late, receipts' \subseteq receipts \cup late,
         ServerMoves, PaintsFollow
  PROVE  IInv'
  <1>1. Shapes'
    BY DEF IInv, Shapes, ServerMoves, PaintsFollow
  <1>2. KeysAreIssued'
    BY DEF IInv, KeysAreIssued
  <1>3. MarksAreOwned'
    BY DEF IInv, MarksAreOwned, Decides
  <1>4. InForceIsRecorded'
    BY DEF ServerMoves, InForceIsRecorded
  <1>5. ReportedDecisionsAreReal'
    BY DEF IInv, ReportedDecisionsAreReal, ServerMoves
  <1> QED
    BY <1>1, <1>2, <1>3, <1>4, <1>5 DEF IInv, PaintsFollow

(* Only the server moves.                                                  *)
LEMMA ServerKeeps ==
  ASSUME IInv, UNCHANGED <<writes, store, settled, marks, hash, screen, repainted>>,
         late' \subseteq late, receipts' \subseteq receipts \cup late, ServerStep
  PROVE  IInv'
  <1>1. ServerMoves
    BY MovesKeep DEF IInv
  <1> QED
    BY <1>1, ServerFollows, NoFormKeeps

LEMMA LateAppliesKeeps ==
  ASSUME IInv, NEW key \in late, LateApplies(key)
  PROVE  IInv'
  <1>1. key[1] \in Intents
    BY DEF IInv, Shapes
  <1>2. ServerStep /\ receipts' \subseteq receipts \cup {key}
    BY <1>1, ApplyMoves DEF IInv, LateApplies
  <1> QED
    BY <1>2, ServerKeeps DEF LateApplies, bounds

LEMMA DriftKeeps ==
  ASSUME IInv, NEW c \in Candidates, Drift(c)
  PROVE  IInv'
  <1>1. PICK row \in {[server[c] EXCEPT !.effective = FALSE, !.scheduled = FALSE],
                      [server[c] EXCEPT !.validation = "NONE"]} :
          Becomes([server EXCEPT ![c] = row])
    BY DEF Drift
  <1>2. server \in ServerType /\ server[c] \in RowType
    BY DEF IInv, Shapes, ServerType
  <1>3. row \in RowType
    BY <1>1, <1>2 DEF RowType
  <1>4. [server EXCEPT ![c] = row] \in ServerType
    BY <1>2, <1>3 DEF ServerType
  <1>5. ServerStep
    BY <1>1, <1>4 DEF ServerStep
  <1> QED
    BY <1>5, ServerKeeps DEF Drift

(* Paints and a read that ends disturb what is shown alone.                *)
LEMMA OnlyPaints ==
  ASSUME IInv, UNCHANGED <<writes, store, settled, marks, late, receipts, server, recorded>>,
         PaintsFollow
  PROVE  IInv'
  <1>1. ServerMoves
    BY DEF IInv, Shapes, InForceIsRecorded, ServerMoves
  <1> QED
    BY <1>1, NoFormKeeps

LEMMA NavigateKeeps ==
  ASSUME IInv, NEW t \in Tabs, NEW page \in Pages, Navigate(t, page)
  PROVE  IInv'
  <1>1. PaintsFollow
    BY PaintKeeps DEF Navigate
  <1> QED
    BY <1>1, OnlyPaints DEF Navigate, warmbly, history

LEMMA PreviewKeeps ==
  ASSUME IInv, DraftsTyped, NEW t \in Tabs, NEW i \in Intents, Preview(t, i)
  PROVE  IInv'
  <1>1. screen[t].page \in Pages
    BY DEF IInv, Shapes, ScreenType
  <1>2. <<previews + 1, "preview">> \in Paints
    BY DEF DraftsTyped, Paints
  <1>3. PaintsFollow
    BY <1>1, <1>2, RepaintKeeps DEF Preview
  <1> QED
    BY <1>3, OnlyPaints DEF Preview, warmbly, history

LEMMA ReadEndsKeeps ==
  ASSUME IInv, NEW t \in Tabs, NEW r \in reads[t],
         reads' = [reads EXCEPT ![t] = @ \ {r}],
         UNCHANGED <<writes, store, settled, marks, late, receipts, server, recorded, hash,
                     repainted>>,
         NEW p \in ScreenType, p.page = r.page, screen' = [screen EXCEPT ![t] = p]
  PROVE  IInv'
  <1>1. /\ reads' \in [Tabs -> SUBSET ReadType] /\ screen' \in [Tabs -> ScreenType]
        /\ hash' \in [Tabs -> Pages]
    BY DEF IInv, Shapes
  <1>2. \A u \in Tabs : reads'[u] \subseteq reads[u]
    BY DEF IInv, Shapes
  <1>3. screen'[t].page = r.page /\ \A u \in Tabs \ {t} : screen'[u] = screen[u]
    BY DEF IInv, Shapes
  <1>4. ReadsFollowUrl'
    BY <1>2, <1>3 DEF IInv, ReadsFollowUrl
  <1>5. PaintsFollow
    BY <1>1, <1>4 DEF PaintsFollow
  <1> QED
    BY <1>5, OnlyPaints

LEMMA PaintResolvesKeeps ==
  ASSUME IInv, NEW t \in Tabs, NEW r \in reads[t], PaintResolves(t, r)
  PROVE  IInv'
  <1>1. r \in ReadType
    BY DEF IInv, Shapes
  <1>2. PICK seen \in r.seen :
          screen' = [screen EXCEPT ![t] = [page |-> r.page, ready |-> TRUE,
                                           shown |-> reviewQueueState(t, seen)]]
    BY DEF PaintResolves
  <1>3. seen \in Seen /\ marks[t] \in MarkType
    BY <1>1 DEF ReadType, IInv, Shapes
  <1>4. reviewQueueState(t, seen) \in Seen
    BY <1>3 DEF reviewQueueState, Seen, MarkType, QueueStates
  <1>5. [page |-> r.page, ready |-> TRUE, shown |-> reviewQueueState(t, seen)] \in ScreenType
    BY <1>1, <1>4 DEF ReadType, ScreenType
  <1> QED
    BY <1>2, <1>5, ReadEndsKeeps DEF PaintResolves, warmbly, history

LEMMA PaintFailsKeeps ==
  ASSUME IInv, NEW t \in Tabs, NEW r \in reads[t], PaintFails(t, r)
  PROVE  IInv'
  <1>1. r.page \in Pages
    BY DEF IInv, Shapes, ReadType
  <1>2. Loading(r.page) \in ScreenType /\ Loading(r.page).page = r.page
    BY <1>1, LoadingType
  <1> QED
    BY <1>2, ReadEndsKeeps DEF PaintFails, warmbly, history

-----------------------------------------------------------------------------
(* Steps of one form.  A step may advance its generation, take the mark of *)
(* its candidate away, repaint its tab, and let the server move.           *)
StoreMoves ==
  /\ store' \in [Intents -> Nat] /\ settled' \in [Intents -> Nat]
  /\ \A i \in Intents : store[i] <= store'[i] /\ store'[i] = settled'[i]

MarksMove(n, w) ==
  /\ marks' \in [Tabs -> MarkType]
  /\ \A t \in Tabs, c \in Candidates :
       marks'[t][c] # "none" =>
         marks[t][c] # "none" /\ (Decides(writes[n], t, c) => w.step # "done")

KeysMove(n) == receipts' \subseteq receipts \cup {Key(n)} /\ late' \subseteq late \cup {Key(n)}

SameForm(v, w) == w.tab = v.tab /\ w.intent = v.intent

LEMMA SetKeeps ==
  ASSUME Shapes, NEW n \in DOMAIN writes, NEW w \in WriteType, Set(n, w), SameForm(writes[n], w)
  PROVE  /\ writes' \in Seq(WriteType) /\ DOMAIN writes' = DOMAIN writes
         /\ writes'[n] = w /\ \A m \in DOMAIN writes \ {n} : writes'[m] = writes[m]
         /\ \A m \in DOMAIN writes : SameForm(writes[m], writes'[m])
  <1>1. writes \in Seq(WriteType) /\ writes' = [writes EXCEPT ![n] = w]
    BY DEF Shapes, Set
  <1>2. writes' \in Seq(WriteType) /\ DOMAIN writes' = DOMAIN writes
    BY <1>1
  <1>3. writes'[n] = w /\ \A m \in DOMAIN writes \ {n} : writes'[m] = writes[m]
    BY <1>1
  <1> QED
    BY <1>2, <1>3 DEF SameForm

LEMMA WriteTyped ==
  ASSUME Shapes, NEW n \in DOMAIN writes
  PROVE  writes[n] \in WriteType
  BY DEF Shapes

LEMMA OneFormKeeps ==
  ASSUME IInv, NEW n \in DOMAIN writes, NEW w \in WriteType,
         Set(n, w), SameForm(writes[n], w),
         StoreMoves, w.generation <= store'[w.posting],
         w.report = "executed" /\ w.intent.action \in Decisions
           => w.report = writes[n].report \/ n \in recorded',
         MarksMove(n, w), KeysMove(n), ServerMoves, PaintsFollow
  PROVE  IInv'
  <1>1. /\ writes' \in Seq(WriteType) /\ DOMAIN writes' = DOMAIN writes
        /\ writes'[n] = w /\ \A m \in DOMAIN writes \ {n} : writes'[m] = writes[m]
        /\ \A m \in DOMAIN writes : SameForm(writes[m], writes'[m])
    BY SetKeeps DEF IInv
  <1>2. Key(n) \in Intents \X Nat /\ Key(n)[2] <= store[Key(n)[1]]
    BY WriteTyped DEF IInv, KeysAreIssued, Key, WriteType
  <1>3. Shapes'
    BY <1>1, <1>2 DEF IInv, Shapes, StoreMoves, MarksMove, KeysMove, ServerMoves, PaintsFollow
  <1>4. KeysAreIssued'
    <2>1. ASSUME NEW k \in receipts' \cup late'
          PROVE  k[2] <= store'[k[1]]
      <3>1. k \in Intents \X Nat /\ k[2] <= store[k[1]]
        BY <1>2, <2>1 DEF KeysMove, IInv, Shapes, KeysAreIssued
      <3>2. store[k[1]] \in Nat /\ store'[k[1]] \in Nat /\ store[k[1]] <= store'[k[1]]
        BY <3>1 DEF StoreMoves, IInv, Shapes
      <3> QED
        BY <3>1, <3>2
    <2>2. ASSUME NEW m \in DOMAIN writes, m # n
          PROVE  writes'[m].generation <= store'[writes'[m].posting]
      <3>1. writes'[m] = writes[m] /\ writes[m].posting \in Intents /\ writes[m].generation \in Nat
        BY <1>1, <2>2, WriteTyped DEF IInv, WriteType
      <3>2. writes[m].generation <= store[writes[m].posting]
        BY DEF IInv, KeysAreIssued
      <3> QED
        BY <3>1, <3>2 DEF StoreMoves, IInv, Shapes
    <2> QED
      BY <1>1, <2>1, <2>2 DEF KeysAreIssued, StoreMoves
  <1>5. MarksAreOwned'
    <2>1. ASSUME NEW t \in Tabs, NEW c \in Candidates, marks'[t][c] # "none"
          PROVE  \E m \in DOMAIN writes' : Decides(writes'[m], t, c)
      <3>1. PICK m \in DOMAIN writes : Decides(writes[m], t, c)
        BY <2>1 DEF MarksMove, IInv, MarksAreOwned
      <3>2. m = n => w.step # "done"
        BY <2>1, <3>1 DEF MarksMove
      <3>3. Decides(writes'[m], t, c)
        BY <1>1, <3>1, <3>2 DEF Decides, SameForm
      <3> QED
        BY <1>1, <3>3
    <2> QED
      BY <2>1 DEF MarksAreOwned, Decides
  <1>6. ReadsFollowUrl'
    BY DEF PaintsFollow
  <1>7. InForceIsRecorded'
    BY <1>1 DEF InForceIsRecorded, ServerMoves, SameForm
  <1>8. ReportedDecisionsAreReal'
    <2>1. ASSUME NEW m \in DOMAIN writes,
                 writes'[m].intent.action \in Decisions, writes'[m].report = "executed"
          PROVE  m \in recorded'
      <3>1. CASE m # n
        BY <1>1, <2>1, <3>1 DEF ReportedDecisionsAreReal, IInv, ServerMoves
      <3>2. CASE m = n
        <4>1. n \in recorded' \/ writes[n].report = "executed"
          BY <1>1, <2>1, <3>2
        <4>2. writes[n].intent.action \in Decisions
          BY <1>1, <2>1, <3>2 DEF SameForm
        <4> QED
          BY <3>2, <4>1, <4>2 DEF ReportedDecisionsAreReal, IInv, ServerMoves
      <3> QED
        BY <3>1, <3>2
    <2> QED
      BY <1>1, <2>1 DEF ReportedDecisionsAreReal
  <1> QED
    BY <1>3, <1>4, <1>5, <1>6, <1>7, <1>8 DEF IInv

(* What such a step leaves alone meets its part of the lemma.              *)
LEMMA Idle ==
  ASSUME IInv
  PROVE  /\ UNCHANGED <<store, settled>> => StoreMoves
         /\ UNCHANGED <<server, recorded>> => ServerMoves
         /\ UNCHANGED painted => PaintsFollow
         /\ \A n : UNCHANGED <<receipts, late>> => KeysMove(n)
         /\ \A n \in DOMAIN writes : \A w : UNCHANGED marks /\ w.step # "done" => MarksMove(n, w)
  <1>1. UNCHANGED <<store, settled>> => StoreMoves
    BY DEF StoreMoves, IInv, Shapes, KeysAreIssued
  <1>2. UNCHANGED <<server, recorded>> => ServerMoves
    BY DEF ServerMoves, IInv, Shapes, InForceIsRecorded
  <1>3. UNCHANGED painted => PaintsFollow
    BY DEF PaintsFollow, painted, IInv, Shapes, ReadsFollowUrl
  <1>4. \A n : UNCHANGED <<receipts, late>> => KeysMove(n)
    BY DEF KeysMove
  <1>5. \A n \in DOMAIN writes : \A w : UNCHANGED marks /\ w.step # "done" => MarksMove(n, w)
    BY DEF MarksMove, IInv, Shapes
  <1> QED
    BY <1>1, <1>2, <1>3, <1>4, <1>5

LEMMA OverTyped ==
  ASSUME NEW w \in WriteType, NEW outcome \in Outcomes
  PROVE  /\ Over(w, outcome) \in WriteType /\ SameForm(w, Over(w, outcome))
         /\ Over(w, outcome).step = "done" /\ Over(w, outcome).generation = 0
         /\ Over(w, outcome).report = outcome
  BY DEF Over, OffTheWire, WriteType, SameForm, Steps, Outcomes, Counts

LEMMA UnmarkedMoves ==
  ASSUME IInv, NEW n \in DOMAIN writes, NEW w, NEW outcome, marks' = Unmarked(writes[n], outcome)
  PROVE  MarksMove(n, w)
  <1>1. writes[n] \in WriteType /\ marks \in [Tabs -> MarkType]
    BY WriteTyped DEF IInv, Shapes
  <1>2. CASE writes[n].intent.action \in Decisions
    <2>1. writes[n].intent.candidate \in Candidates /\ writes[n].tab \in Tabs
      BY <1>1, <1>2, IntentCandidate DEF WriteType, Decisions, OfCandidate
    <2>2. marks' = [marks EXCEPT ![writes[n].tab][writes[n].intent.candidate] = "none"]
      BY <1>2 DEF Unmarked
    <2> QED
      BY <1>1, <2>1, <2>2 DEF MarksMove, MarkType, Decides
  <1>3. CASE writes[n].intent.action \notin Decisions
    BY <1>1, <1>3 DEF Unmarked, MarksMove, Decides
  <1> QED
    BY <1>2, <1>3

LEMMA EndKeeps ==
  ASSUME IInv, NEW n \in DOMAIN writes, NEW outcome \in Outcomes, End(n, outcome), StoreMoves,
         outcome = "executed" /\ writes[n].intent.action \in Decisions => n \in recorded
  PROVE  IInv'
  <1> DEFINE w == Over(writes[n], outcome)
  <1>1. writes[n] \in WriteType
    BY WriteTyped DEF IInv
  <1>2. /\ w \in WriteType /\ SameForm(writes[n], w)
        /\ w.step = "done" /\ w.generation = 0 /\ w.report = outcome
    BY <1>1, OverTyped
  <1>3. /\ Set(n, w) /\ marks' = Unmarked(writes[n], outcome)
        /\ UNCHANGED <<late, receipts, server, recorded>>
        /\ \/ paint(writes[n].tab, "elsewhere")
           \/ repaint(writes[n].tab, writes[n].page, <<n, "end">>)
    BY DEF End, warmbly
  <1>4. PaintsFollow
    <2>1. writes[n].tab \in Tabs /\ writes[n].page \in Pages
      BY <1>1 DEF WriteType
    <2>2. n \in Nat
      BY DEF IInv, Shapes
    <2> QED
      BY <1>3, <2>1, <2>2, PaintKeeps, RepaintKeeps DEF Pages, Paints
  <1>5. MarksMove(n, w)
    BY <1>3, UnmarkedMoves
  <1>6. KeysMove(n) /\ ServerMoves
    BY <1>3, Idle
  <1>7. w.generation <= store'[w.posting]
    BY <1>2 DEF StoreMoves, WriteType
  <1>8. w.report = "executed" /\ w.intent.action \in Decisions
          => w.report = writes[n].report \/ n \in recorded'
    BY <1>2, <1>3 DEF SameForm
  <1> HIDE DEF w
  <1> QED
    BY <1>2, <1>3, <1>4, <1>5, <1>6, <1>7, <1>8, OneFormKeeps

LEMMA SettleKeeps ==
  ASSUME IInv, NEW n \in DOMAIN writes, NEW outcome \in {"executed", "refused", "unknown"},
         settleGateIntent(n, outcome),
         outcome = "executed" /\ Main(n) /\ writes[n].intent.action \in Decisions => n \in recorded
  PROVE  IInv'
  <1>1. writes[n] \in WriteType /\ writes[n].posting \in Intents
    BY WriteTyped DEF IInv, WriteType
  <1>2. StoreMoves
    <2>1. CASE outcome = "unknown"
      <3>1. UNCHANGED <<store, settled>>
        BY <2>1 DEF settleGateIntent, Definitive
      <3> QED
        BY <3>1, Idle
    <2>2. CASE outcome # "unknown"
      <3>1. /\ store' = [store EXCEPT ![writes[n].posting] = @ + 1]
            /\ settled' = [settled EXCEPT ![writes[n].posting] = @ + 1]
        BY <2>2 DEF settleGateIntent, Definitive
      <3> QED
        BY <1>1, <3>1 DEF StoreMoves, IInv, Shapes, KeysAreIssued
    <2> QED
      BY <2>1, <2>2
  <1>3. CASE Main(n) \/ outcome # "executed"
    <2>1. End(n, outcome)
      BY <1>3 DEF settleGateIntent
    <2> QED
      BY <1>2, <1>3, <2>1, EndKeeps DEF Outcomes
  <1>4. CASE ~(Main(n) \/ outcome # "executed")
    <2> DEFINE w == [writes[n] EXCEPT !.step = "status"]
    <2>1. /\ w \in WriteType /\ SameForm(writes[n], w) /\ w.step = "status"
          /\ w.generation = writes[n].generation /\ w.posting = writes[n].posting
          /\ w.report = writes[n].report
      BY <1>1 DEF WriteType, Steps, SameForm
    <2>2. Set(n, w) /\ UNCHANGED <<late, receipts, server, marks, painted, recorded>>
      BY <1>4 DEF settleGateIntent, warmbly, browser
    <2>3. w.generation <= store'[w.posting]
      <3>1. writes[n].generation \in Nat /\ writes[n].generation <= store[writes[n].posting]
        BY <1>1 DEF IInv, KeysAreIssued, WriteType
      <3> QED
        BY <1>1, <1>2, <2>1, <3>1 DEF StoreMoves, IInv, Shapes
    <2>4. KeysMove(n) /\ ServerMoves /\ PaintsFollow /\ MarksMove(n, w)
      BY <2>1, <2>2, Idle
    <2> HIDE DEF w
    <2> QED
      BY <1>2, <2>1, <2>2, <2>3, <2>4, OneFormKeeps
  <1> QED
    BY <1>3, <1>4

LEMMA PostAppliesKeeps ==
  ASSUME IInv, NEW n, PostApplies(n)
  PROVE  IInv'
  <1> DEFINE w == [writes[n] EXCEPT !.wire = "applied",
                                    !.counted = Cardinality(EffectiveApprovals(server))]
  <1>1. n \in DOMAIN writes /\ writes[n].step = "post"
    BY DEF PostApplies, Posted
  <1>2. writes[n] \in WriteType /\ writes[n].posting \in Intents
    BY <1>1, WriteTyped DEF IInv, WriteType
  <1>3. Cardinality(EffectiveApprovals(server)) \in Counts
    BY DEF EffectiveApprovals, Counts
  <1>4. /\ w \in WriteType /\ SameForm(writes[n], w) /\ w.step = "post"
        /\ w.generation = writes[n].generation /\ w.posting = writes[n].posting
        /\ w.report = writes[n].report
    BY <1>1, <1>2, <1>3 DEF WriteType, SameForm
  <1>5. /\ Apply(writes[n].posting, Key(n)) /\ Set(n, w)
        /\ UNCHANGED <<store, late, marks, hash, screen, repainted, settled>>
    BY DEF PostApplies
  <1>6. ServerStep /\ receipts' \subseteq receipts \cup {Key(n)}
    BY <1>2, <1>5, ApplyMoves DEF IInv
  <1>7. ServerMoves
    BY <1>6, MovesKeep DEF IInv
  <1>8. PaintsFollow /\ KeysMove(n)
    BY <1>5, <1>6, ServerFollows DEF KeysMove
  <1>9. StoreMoves /\ MarksMove(n, w)
    BY <1>1, <1>4, <1>5, Idle
  <1>10. w.generation <= store'[w.posting]
    BY <1>1, <1>4, <1>5 DEF IInv, KeysAreIssued
  <1> HIDE DEF w
  <1> QED
    BY <1>1, <1>4, <1>5, <1>7, <1>8, <1>9, <1>10, OneFormKeeps

(* A step that neither ends the chain nor touches store, marks or screen.  *)
LEMMA GoesOn ==
  ASSUME IInv, NEW n \in DOMAIN writes, NEW w \in WriteType,
         Set(n, w), SameForm(writes[n], w), w.step # "done", w.report = writes[n].report,
         w.generation <= store[w.posting], KeysMove(n),
         UNCHANGED <<store, settled, server, recorded, marks, painted>>
  PROVE  IInv'
  <1>1. StoreMoves /\ ServerMoves /\ PaintsFollow /\ MarksMove(n, w)
    BY Idle
  <1> QED
    BY <1>1, OneFormKeeps

LEMMA AnsweredKeeps ==
  ASSUME IInv, NEW n \in DOMAIN writes, NEW answer \in {"executed", "unknown"},
         Answered(n, answer), late' \subseteq late \cup {Key(n)}
  PROVE  IInv'
  <1> DEFINE w == [OffTheWire(writes[n]) EXCEPT !.answer = answer, !.step = "readback"]
  <1>1. writes[n] \in WriteType
    BY WriteTyped DEF IInv
  <1>2. /\ w \in WriteType /\ SameForm(writes[n], w) /\ w.step = "readback"
        /\ w.generation = 0 /\ w.posting \in Intents /\ w.report = writes[n].report
    BY <1>1 DEF OffTheWire, WriteType, SameForm, Steps, Outcomes
  <1>3. Set(n, w) /\ KeysMove(n)
    BY DEF Answered, KeysMove
  <1>4. UNCHANGED <<store, settled, server, recorded, marks, painted>>
    BY DEF Answered, history
  <1>5. w.generation <= store[w.posting]
    BY <1>2 DEF IInv, Shapes
  <1> HIDE DEF w
  <1> QED
    BY <1>2, <1>3, <1>4, <1>5, GoesOn

LEMMA AnswersKeep ==
  ASSUME IInv, NEW n, Answers(n)
  PROVE  IInv'
  <1>1. n \in DOMAIN writes
    BY DEF Answers, AnswerExecuted, AnswerRefused, AnswerUnknown, Posted
  <1>2. CASE AnswerExecuted(n)
    BY <1>1, <1>2, AnsweredKeeps DEF AnswerExecuted
  <1>3. CASE AnswerRefused(n)
    BY <1>1, <1>3, SettleKeeps DEF AnswerRefused
  <1>4. CASE AnswerUnknown(n)
    BY <1>1, <1>4, AnsweredKeeps DEF AnswerUnknown
  <1> QED
    BY <1>2, <1>3, <1>4 DEF Answers

LEMMA ReadbackKeeps ==
  ASSUME IInv, NEW n, gateReadback(n)
  PROVE  IInv'
  <1>1. n \in DOMAIN writes
    BY DEF gateReadback
  <1>2. CASE Confirms(writes[n]) /\ settleGateIntent(n, "executed")
    <2>1. ASSUME Main(n), writes[n].intent.action \in Decisions
          PROVE  n \in recorded
      <3>1. writes[n].posting = writes[n].intent
        BY <2>1 DEF Main
      <3>2. InForce(server[writes[n].intent.candidate], writes[n].intent.action)
        BY <1>2, <2>1, <3>1 DEF Confirms
      <3> QED
        BY <1>1, <2>1, <3>2 DEF IInv, InForceIsRecorded
    <2> QED
      BY <1>1, <1>2, <2>1, SettleKeeps
  <1>3. CASE settleGateIntent(n, "unknown")
    BY <1>1, <1>3, SettleKeeps
  <1> QED
    BY <1>2, <1>3 DEF gateReadback

LEMMA VerifiedKeeps ==
  ASSUME IInv, NEW n, Verified(n)
  PROVE  IInv'
  <1> DEFINE w == Post(writes[n], writes[n].intent)
  <1>1. n \in DOMAIN writes
    BY DEF Verified
  <1>2. writes[n] \in WriteType /\ writes[n].intent \in Intents
    BY <1>1, WriteTyped DEF IInv, WriteType
  <1>3. store[writes[n].intent] \in Nat
    BY <1>2 DEF IInv, Shapes
  <1>4. /\ w \in WriteType /\ SameForm(writes[n], w) /\ w.step = "post"
        /\ w.generation = store[w.posting] /\ w.report = writes[n].report
    BY <1>2, <1>3 DEF Post, WriteType, SameForm, Steps, Outcomes, Counts
  <1>5. w.generation <= store[w.posting]
    BY <1>4 DEF WriteType
  <1>6. Set(n, w) /\ KeysMove(n)
    BY DEF Verified, KeysMove, warmbly
  <1>7. UNCHANGED <<store, settled, server, recorded, marks, painted>>
    BY DEF Verified, warmbly, browser, history
  <1> HIDE DEF w
  <1> QED
    BY <1>1, <1>4, <1>5, <1>6, <1>7, GoesOn

LEMMA NotVerifiedKeeps ==
  ASSUME IInv, NEW n, NotVerified(n)
  PROVE  IInv'
  <1>1. n \in DOMAIN writes /\ End(n, "refused") /\ UNCHANGED <<store, settled>>
    BY DEF NotVerified
  <1>2. StoreMoves
    BY <1>1, Idle
  <1> QED
    BY <1>1, <1>2, EndKeeps DEF Outcomes

-----------------------------------------------------------------------------
(* A new form, and a reload.                                               *)
LEMMA SubmitKeeps ==
  ASSUME IInv, NEW t \in Tabs, NEW i \in Intents, NEW auto \in BOOLEAN, Submit(t, i, auto)
  PROVE  IInv'
  <1> DEFINE p == IF auto THEN Validation(i.candidate) ELSE i
             w == Post(Started(t, i), p)
             new == Len(writes) + 1
  <1>1. p \in Intents
    <2>1. auto => i.candidate \in Candidates
      BY IntentCandidate DEF Submit, OfCandidate
    <2> QED
      BY <2>1, ValidationIntent
  <1>2. screen[t].page \in Pages /\ store[p] \in Nat
    BY <1>1 DEF IInv, Shapes, ScreenType
  <1>3. /\ w \in WriteType /\ w.tab = t /\ w.intent = i /\ w.step = "post"
        /\ w.posting = p /\ w.generation = store[p] /\ w.report = "none"
    BY <1>1, <1>2 DEF Post, Started, WriteType, Steps, Outcomes, Counts
  <1>4. writes' = Append(writes, w)
    BY DEF Submit
  <1> HIDE DEF w
  <1>5. writes \in Seq(WriteType) /\ new \in Nat
    BY DEF IInv, Shapes
  <1>6. /\ writes' \in Seq(WriteType) /\ DOMAIN writes' = DOMAIN writes \cup {new}
        /\ writes'[new] = w /\ \A n \in DOMAIN writes : n # new /\ writes'[n] = writes[n]
    BY <1>3, <1>4, <1>5
  <1>7. /\ UNCHANGED <<store, settled, late, receipts, server>>
        /\ recorded \subseteq recorded'
        /\ i.action \in Decisions /\ InForce(server[i.candidate], i.action) => new \in recorded'
    BY DEF Submit, warmbly
  <1>8. PaintsFollow
    BY <1>2, <1>5, RepaintKeeps DEF Submit, Paints
  <1>9. /\ marks' \in [Tabs -> MarkType]
        /\ \A u \in Tabs, c \in Candidates : marks'[u][c] # "none" =>
             marks[u][c] # "none" \/ Decides(w, u, c)
    <2>1. CASE i.action \in Decisions
      <3>1. i.candidate \in Candidates
        BY <2>1, IntentCandidate DEF Decisions, OfCandidate
      <3>2. marks' = [marks EXCEPT ![t][i.candidate] = Optimistic(i)]
        BY <2>1 DEF Submit
      <3>3. Optimistic(i) \in {"aprovado", "ajuste"} /\ marks \in [Tabs -> MarkType]
        BY DEF Optimistic, IInv, Shapes
      <3> QED
        BY <1>3, <2>1, <3>1, <3>2, <3>3 DEF MarkType, Decides
    <2>2. CASE i.action \notin Decisions
      BY <2>2 DEF Submit, IInv, Shapes
    <2> QED
      BY <2>1, <2>2
  <1>10. Shapes'
    BY <1>6, <1>7, <1>8, <1>9 DEF IInv, Shapes, PaintsFollow
  <1>11. KeysAreIssued'
    BY <1>1, <1>2, <1>3, <1>6, <1>7 DEF IInv, KeysAreIssued
  <1>12. MarksAreOwned'
    <2>1. ASSUME NEW u \in Tabs, NEW c \in Candidates, marks'[u][c] # "none"
          PROVE  \E n \in DOMAIN writes' : Decides(writes'[n], u, c)
      <3>1. CASE Decides(w, u, c)
        BY <1>6, <3>1
      <3>2. CASE marks[u][c] # "none"
        BY <1>6, <3>2 DEF IInv, MarksAreOwned
      <3> QED
        BY <1>9, <2>1, <3>1, <3>2
    <2> QED
      BY <2>1 DEF MarksAreOwned, Decides
  <1>13. ReadsFollowUrl'
    BY <1>8 DEF PaintsFollow
  <1>14. InForceIsRecorded'
    BY <1>3, <1>6, <1>7 DEF IInv, InForceIsRecorded
  <1>15. ReportedDecisionsAreReal'
    BY <1>3, <1>6, <1>7 DEF IInv, ReportedDecisionsAreReal
  <1> QED
    BY <1>10, <1>11, <1>12, <1>13, <1>14, <1>15 DEF IInv

LEMMA ReloadKeeps ==
  ASSUME IInv, NEW t \in Tabs, Reload(t)
  PROVE  IInv'
  <1> DEFINE live == {n \in DOMAIN writes : writes[n].tab = t /\ writes[n].step # "done"}
             cut == {Key(n) : n \in {m \in live : Posted(m) /\ writes[m].wire = "sent"}}
  <1>1. /\ writes' = [n \in DOMAIN writes |-> IF n \in live THEN Over(writes[n], "none")
                                                           ELSE writes[n]]
        /\ late' = late \cup cut
        /\ marks' = [marks EXCEPT ![t] = [c \in Candidates |-> "none"]]
        /\ screen' = [screen EXCEPT ![t] = Loading(hash[t])]
        /\ reads' = [reads EXCEPT ![t] = {Read(hash[t], <<0, "url">>)}]
        /\ repainted' = repainted \ {t}
        /\ UNCHANGED <<store, settled, receipts, server, hash, recorded>>
    BY DEF Reload, history
  <1>2. ASSUME NEW n \in DOMAIN writes
        PROVE  /\ writes'[n] \in WriteType /\ SameForm(writes[n], writes'[n])
               /\ writes[n].tab # t => writes'[n] = writes[n]
               /\ \/ writes'[n] = writes[n]
                  \/ writes'[n].generation = 0 /\ writes'[n].report = "none"
    <2>1. writes[n] \in WriteType
      BY WriteTyped DEF IInv
    <2>2. /\ Over(writes[n], "none") \in WriteType /\ SameForm(writes[n], Over(writes[n], "none"))
          /\ Over(writes[n], "none").generation = 0 /\ Over(writes[n], "none").report = "none"
      BY <2>1, OverTyped DEF Outcomes
    <2>3. writes'[n] = IF n \in live THEN Over(writes[n], "none") ELSE writes[n]
      BY <1>1
    <2>4. CASE n \in live
      <3>1. writes'[n] = Over(writes[n], "none") /\ writes[n].tab = t
        BY <2>3, <2>4
      <3> QED
        BY <2>2, <3>1
    <2>5. CASE n \notin live
      <3>1. writes'[n] = writes[n]
        BY <2>3, <2>5
      <3>2. SameForm(writes[n], writes'[n])
        BY <3>1 DEF SameForm
      <3> QED
        BY <2>1, <3>1, <3>2
    <2> QED
      BY <2>4, <2>5
  <1>3. writes' \in Seq(WriteType) /\ DOMAIN writes' = DOMAIN writes
    <2>1. writes \in Seq(WriteType) /\ DOMAIN writes = 1..Len(writes) /\ Len(writes) \in Nat
      BY DEF IInv, Shapes
    <2>2. writes' \in [1..Len(writes) -> WriteType]
      BY <1>1, <1>2, <2>1
    <2> QED
      BY <2>1, <2>2
  <1>4. cut \subseteq Intents \X Nat /\ \A k \in cut : k[2] <= store[k[1]]
    BY WriteTyped DEF IInv, KeysAreIssued, Key, WriteType
  <1>5. hash[t] \in Pages /\ Loading(hash[t]) \in ScreenType /\ Loading(hash[t]).page = hash[t]
    BY LoadingType DEF IInv, Shapes
  <1>6. LET q == Read(hash[t], <<0, "url">>) IN
          q \in ReadType /\ q.page = hash[t] /\ q.by = <<0, "url">>
    BY <1>5, ReadTyped DEF Paints
  <1>7. /\ marks' \in [Tabs -> MarkType] /\ marks'[t] = [c \in Candidates |-> "none"]
        /\ \A u \in Tabs \ {t} : marks'[u] = marks[u]
    BY <1>1 DEF IInv, Shapes, MarkType
  <1>8. /\ screen' \in [Tabs -> ScreenType] /\ screen'[t].page = hash[t]
        /\ reads' \in [Tabs -> SUBSET ReadType] /\ reads'[t] = {Read(hash[t], <<0, "url">>)}
        /\ \A u \in Tabs \ {t} : screen'[u] = screen[u] /\ reads'[u] = reads[u]
    BY <1>1, <1>5, <1>6 DEF IInv, Shapes
  <1> HIDE DEF live, cut
  <1>9. Shapes'
    BY <1>1, <1>3, <1>4, <1>7, <1>8 DEF IInv, Shapes
  <1>10. KeysAreIssued'
    <2>1. ASSUME NEW n \in DOMAIN writes
          PROVE  writes'[n].generation <= store'[writes'[n].posting]
      <3>1. writes'[n].posting \in Intents
        BY <1>2 DEF WriteType
      <3>2. store'[writes'[n].posting] \in Nat
        BY <1>1, <3>1 DEF IInv, Shapes
      <3> QED
        BY <1>1, <1>2, <3>2 DEF IInv, KeysAreIssued
    <2> QED
      BY <1>1, <1>3, <1>4, <2>1 DEF IInv, KeysAreIssued
  <1>11. MarksAreOwned'
    <2>1. ASSUME NEW u \in Tabs, NEW c \in Candidates, marks'[u][c] # "none"
          PROVE  \E n \in DOMAIN writes' : Decides(writes'[n], u, c)
      <3>1. u # t /\ marks[u][c] # "none"
        BY <1>7, <2>1
      <3>2. PICK n \in DOMAIN writes : Decides(writes[n], u, c)
        BY <3>1 DEF IInv, MarksAreOwned
      <3>3. writes'[n] = writes[n]
        BY <1>2, <3>1, <3>2 DEF Decides
      <3> QED
        BY <1>3, <3>2, <3>3
    <2> QED
      BY <2>1 DEF MarksAreOwned, Decides
  <1>12. ReadsFollowUrl'
    <2> SUFFICES ASSUME NEW u \in Tabs \ repainted'
                 PROVE  /\ screen'[u].page = hash'[u]
                        /\ \A r \in reads'[u] : r.page = hash'[u] /\ r.by = <<0, "url">>
      BY DEF ReadsFollowUrl
    <2>1. CASE u = t
      BY <1>1, <1>6, <1>8, <2>1
    <2>2. CASE u # t
      BY <1>1, <1>8, <2>2 DEF IInv, ReadsFollowUrl
    <2> QED
      BY <2>1, <2>2
  <1>13. InForceIsRecorded'
    BY <1>1, <1>2, <1>3 DEF IInv, InForceIsRecorded, SameForm
  <1>14. ReportedDecisionsAreReal'
    BY <1>1, <1>2, <1>3 DEF IInv, ReportedDecisionsAreReal, SameForm
  <1> QED
    BY <1>9, <1>10, <1>11, <1>12, <1>13, <1>14 DEF IInv

-----------------------------------------------------------------------------
(* The invariant holds, and each theorem follows from it.                  *)
LEMMA InitEstablishes == Init => IInv
  <1> SUFFICES ASSUME Init
               PROVE  IInv
    OBVIOUS
  <1>1. Unseen \in RowType
    BY DEF Unseen, RowType
  <1>2. Loading("review") \in ScreenType /\ Loading("review").page = "review"
    BY LoadingType DEF Pages
  <1>3. LET q == Read("review", <<0, "url">>) IN
          q \in ReadType /\ q.page = "review" /\ q.by = <<0, "url">>
    BY ReadTyped DEF Pages, Paints
  <1>4. Shapes
    BY <1>1, <1>2, <1>3 DEF Init, Shapes, ServerType, MarkType, Pages
  <1>5. KeysAreIssued
    BY DEF Init, KeysAreIssued
  <1>6. MarksAreOwned
    BY DEF Init, MarksAreOwned
  <1>7. ReadsFollowUrl
    BY <1>2, <1>3 DEF Init, ReadsFollowUrl
  <1>8. InForceIsRecorded /\ ReportedDecisionsAreReal
    BY DEF Init, InForceIsRecorded, ReportedDecisionsAreReal
  <1> QED
    BY <1>4, <1>5, <1>6, <1>7, <1>8 DEF IInv

LEMMA StutterKeeps ==
  ASSUME IInv, UNCHANGED vars
  PROVE  IInv'
  <1>1. /\ UNCHANGED <<writes, store, settled, marks, late, receipts, server, recorded>>
        /\ UNCHANGED <<hash, screen, reads, repainted>>
    BY DEF vars
  <1>2. ServerStep
    BY <1>1 DEF ServerStep
  <1> QED
    BY <1>1, <1>2, ServerKeeps

LEMMA StepKeeps ==
  ASSUME IInv, DraftsTyped, [Next]_vars
  PROVE  IInv'
  <1>1. ASSUME NEW t \in Tabs, NEW i \in Intents, NEW auto \in BOOLEAN, Submit(t, i, auto)
        PROVE  IInv'
    BY <1>1, SubmitKeeps
  <1>2. ASSUME NEW n \in Numbers, PostApplies(n)
        PROVE  IInv'
    BY <1>2, PostAppliesKeeps
  <1>3. ASSUME NEW n \in Numbers, Chain(n)
        PROVE  IInv'
    BY <1>3, AnswersKeep, ReadbackKeeps, VerifiedKeeps, NotVerifiedKeeps DEF Chain
  <1>4. ASSUME NEW t \in Tabs, NEW r \in reads[t], PaintResolves(t, r) \/ PaintFails(t, r)
        PROVE  IInv'
    BY <1>4, PaintResolvesKeeps, PaintFailsKeeps
  <1>5. ASSUME NEW t \in Tabs, Reload(t)
        PROVE  IInv'
    BY <1>5, ReloadKeeps
  <1>6. ASSUME NEW t \in Tabs, NEW page \in Pages, Navigate(t, page)
        PROVE  IInv'
    BY <1>6, NavigateKeeps
  <1>7. ASSUME NEW key \in late, LateApplies(key)
        PROVE  IInv'
    BY <1>7, LateAppliesKeeps
  <1>8. ASSUME NEW c \in Candidates, Drift(c)
        PROVE  IInv'
    BY <1>8, DriftKeeps
  <1>9. ASSUME NEW t \in Tabs, NEW i \in Intents, Preview(t, i)
        PROVE  IInv'
    BY <1>9, PreviewKeeps
  <1>10. CASE UNCHANGED vars
    BY <1>10, StutterKeeps
  <1> QED
    BY <1>1, <1>2, <1>3, <1>4, <1>5, <1>6, <1>7, <1>8, <1>9, <1>10 DEF Next

(* A draft is parked by a preview and dropped by the end of its chain or a *)
(* reload: no other step moves the drafts.                                 *)
LEMMA EndDrafts ==
  ASSUME DraftsTyped, NEW n, NEW outcome, End(n, outcome)
  PROVE  DraftsTyped'
  BY DEF End, Unparked, DraftsTyped, bounds

LEMMA SettleDrafts ==
  ASSUME DraftsTyped, NEW n, NEW outcome, settleGateIntent(n, outcome)
  PROVE  DraftsTyped'
  <1>1. CASE Main(n) \/ outcome # "executed"
    BY <1>1, EndDrafts DEF settleGateIntent
  <1>2. CASE ~(Main(n) \/ outcome # "executed")
    BY <1>2 DEF settleGateIntent, browser, bounds, DraftsTyped
  <1> QED
    BY <1>1, <1>2

LEMMA StepDrafts ==
  ASSUME DraftsTyped, [Next]_vars
  PROVE  DraftsTyped'
  <1>1. ASSUME NEW t \in Tabs, NEW i \in Intents, Preview(t, i)
        PROVE  DraftsTyped'
    <2>1. i.candidate \in Candidates
      BY <1>1, IntentCandidate DEF Preview, OfCandidate
    <2> QED
      BY <1>1, <2>1 DEF Preview, DraftsTyped
  <1>2. ASSUME NEW t \in Tabs, NEW i \in Intents, NEW auto \in BOOLEAN, Submit(t, i, auto)
        PROVE  DraftsTyped'
    BY <1>2 DEF Submit, bounds, DraftsTyped
  <1>3. ASSUME NEW n \in Numbers, PostApplies(n)
        PROVE  DraftsTyped'
    BY <1>3 DEF PostApplies, bounds, DraftsTyped
  <1>4. ASSUME NEW n \in Numbers, Chain(n)
        PROVE  DraftsTyped'
    <2>1. CASE AnswerExecuted(n) \/ AnswerUnknown(n)
      BY <2>1 DEF AnswerExecuted, AnswerUnknown, Answered, bounds, DraftsTyped
    <2>2. CASE AnswerRefused(n) \/ gateReadback(n)
      BY <2>2, SettleDrafts DEF AnswerRefused, gateReadback
    <2>3. CASE Verified(n)
      BY <2>3 DEF Verified, browser, bounds, DraftsTyped
    <2>4. CASE NotVerified(n)
      BY <2>4, EndDrafts DEF NotVerified
    <2> QED
      BY <1>4, <2>1, <2>2, <2>3, <2>4 DEF Chain, Answers
  <1>5. ASSUME NEW t \in Tabs, NEW r \in reads[t], PaintResolves(t, r) \/ PaintFails(t, r)
        PROVE  DraftsTyped'
    BY <1>5 DEF PaintResolves, PaintFails, bounds, DraftsTyped
  <1>6. ASSUME NEW t \in Tabs, Reload(t)
        PROVE  DraftsTyped'
    BY <1>6 DEF Reload, DraftsTyped
  <1>7. ASSUME NEW t \in Tabs, NEW page \in Pages, Navigate(t, page)
        PROVE  DraftsTyped'
    BY <1>7 DEF Navigate, DraftsTyped
  <1>8. ASSUME NEW key \in late, LateApplies(key)
        PROVE  DraftsTyped'
    BY <1>8 DEF LateApplies, bounds, DraftsTyped
  <1>9. ASSUME NEW c \in Candidates, Drift(c)
        PROVE  DraftsTyped'
    BY <1>9 DEF Drift, DraftsTyped
  <1>10. CASE UNCHANGED vars
    BY <1>10 DEF vars, DraftsTyped
  <1> QED
    BY <1>1, <1>2, <1>3, <1>4, <1>5, <1>6, <1>7, <1>8, <1>9, <1>10 DEF Next

LEMMA Inductive == Spec => [](IInv /\ DraftsTyped)
  <1>1. Init => DraftsTyped
    BY DEF Init, DraftsTyped
  <1>2. IInv /\ DraftsTyped /\ [Next]_vars => (IInv /\ DraftsTyped)'
    BY StepKeeps, StepDrafts
  <1> QED
    BY <1>1, <1>2, InitEstablishes, PTL DEF Spec

(* However many navigations, reads, retries and reloads there are, a tab    *)
(* that no form has repainted since it was loaded shows its URL (app.ts:   *)
(* isCurrent).                                                             *)
THEOREM UrlAlwaysShown == Spec => []UrlIsShown
  <1>1. IInv => UrlIsShown
    BY DEF IInv, ReadsFollowUrl, UrlIsShown
  <1> QED
    BY <1>1, Inductive, PTL

(* A decision reported as applied was in force at Warmbly after it was     *)
(* sent (app.ts: gateReadback).                                            *)
THEOREM ReportsAreTrue == Spec => []ReportedDecisionsAreReal
  <1>1. IInv => ReportedDecisionsAreReal
    BY DEF IInv
  <1> QED
    BY <1>1, Inductive, PTL

(* Generations 0..m of an intent are m + 1 keys.                           *)
LEMMA KeysOfIntent ==
  ASSUME NEW i \in Intents, NEW m \in Nat
  PROVE  /\ IsFiniteSet({i} \X (0..m))
         /\ Cardinality({i} \X (0..m)) = m + 1
  <1>1. IsFiniteSet({i}) /\ Cardinality({i}) = 1
    BY FS_Singleton
  <1>2. IsFiniteSet(0..m) /\ Cardinality(0..m) = m + 1
    <2>1. IsFiniteSet(0..m) /\ Cardinality(0..m) = IF 0 > m THEN 0 ELSE m - 0 + 1
      BY FS_Interval
    <2> QED
      BY <2>1
  <1>3. /\ IsFiniteSet({i} \X (0..m))
        /\ Cardinality({i} \X (0..m)) = Cardinality({i}) * Cardinality(0..m)
    BY <1>1, <1>2, FS_Product
  <1> QED
    BY <1>1, <1>2, <1>3

(* Warmbly applies an intent at most once more than it was definitively    *)
(* settled (human-gate-idempotency.ts: settleHumanGateIntent).             *)
THEOREM EffectsAlwaysSettled == Spec => []EffectsAreSettled
  <1>1. ASSUME IInv, NEW i \in Intents
        PROVE  Cardinality({k \in receipts : k[1] = i}) <= 1 + settled[i]
    <2> DEFINE keys == {k \in receipts : k[1] = i}
               issued == {i} \X (0..settled[i])
    <2>1. settled[i] \in Nat /\ store[i] = settled[i]
      BY <1>1 DEF IInv, Shapes, KeysAreIssued
    <2>2. keys \subseteq issued
      BY <1>1, <2>1 DEF IInv, Shapes, KeysAreIssued
    <2>3. IsFiniteSet(issued) /\ Cardinality(issued) = settled[i] + 1
      BY <2>1, KeysOfIntent
    <2> HIDE DEF issued, keys
    <2>4. Cardinality(keys) <= Cardinality(issued)
      BY <2>2, <2>3, FS_Subset
    <2>5. settled[i] + 1 = 1 + settled[i]
      BY <2>1
    <2>6. Cardinality(keys) <= 1 + settled[i]
      BY <2>3, <2>4, <2>5
    <2> QED
      BY <2>6 DEF keys
  <1>2. IInv => EffectsAreSettled
    BY <1>1 DEF EffectsAreSettled
  <1> QED
    BY <1>2, Inductive, PTL

-----------------------------------------------------------------------------
(* The limits: of the forms, the claims and the generations.               *)

(* The chain may still settle intent i.                                    *)
MaySettle(w, i) ==
  w.step # "done" /\ (w.intent = i \/ (w.posting = i /\ w.step \in {"post", "readback"}))
Pending(i) == {n \in DOMAIN writes : MaySettle(writes[n], i)}

(* A chain settles each of its intents once at most.                       *)
SettledOnce ==
  \A i \in Intents :
    IsFiniteSet(Pending(i)) /\ store[i] + Cardinality(Pending(i)) <= Len(writes)

(* A claimed form belongs to a chain that is under way.                    *)
Claims(w, t, form) == w.tab = t /\ w.step # "done" /\ Form(w.intent) = form
ClaimsAreOwned ==
  \A t \in Tabs : \A form \in flight[t] : \E n \in DOMAIN writes : Claims(writes[n], t, form)

ByUrl == <<0, "url">>
Limits ==
  /\ Len(writes) + previews <= MaxWrites
  /\ flight \in [Tabs -> SUBSET Intents]
  /\ \A n \in DOMAIN writes :
       writes[n].posting \in {writes[n].intent, Validation(writes[n].intent.candidate)}
  /\ \A t \in Tabs : \A r \in reads[t] : r.by = ByUrl \/ r.by[1] \in Numbers
  /\ SettledOnce /\ ClaimsAreOwned

(* Reads that are under way were, or belong to the form or preview n.      *)
ReadsStay(n) ==
  \A t \in Tabs : \A q \in reads'[t] :
    q.by = ByUrl \/ q.by[1] = n \/ \E r \in reads[t] : q.by = r.by

(* A step of form n, as far as the limits see it.                          *)
FormMoves(n, w) ==
  /\ writes' = [writes EXCEPT ![n] = w]
  /\ SameForm(writes[n], w)
  /\ w.posting \in {writes[n].posting, writes[n].intent}
  /\ \A i \in Intents : MaySettle(w, i) => MaySettle(writes[n], i)
  /\ \/ store' = store
     \/ /\ store' = [store EXCEPT ![writes[n].posting] = @ + 1]
        /\ MaySettle(writes[n], writes[n].posting) /\ ~MaySettle(w, writes[n].posting)
  /\ \/ flight' = flight /\ w.step # "done"
     \/ flight' = Released(writes[n])
  /\ ReadsStay(n) /\ previews' = previews

LEMMA FormInIntents == \A i \in Intents : Form(i) \in Intents
  BY DEF Form, Intents, OfCandidate

LEMMA WritesAreNumbered ==
  ASSUME IInv, DraftsTyped, Limits
  PROVE  /\ Len(writes) \in Nat /\ Len(writes) <= MaxWrites /\ MaxWrites \in Nat
         /\ DOMAIN writes = 1..Len(writes) /\ DOMAIN writes \subseteq Numbers
  BY GateAssumption DEF IInv, Shapes, DraftsTyped, Limits, Numbers

(* Counting: a chain that can no longer settle i makes room for one more   *)
(* generation of i.                                                        *)
LEMMA Shrinks ==
  ASSUME NEW S, NEW T, IsFiniteSet(S), T \subseteq S
  PROVE  /\ IsFiniteSet(T) /\ Cardinality(T) \in Nat /\ Cardinality(S) \in Nat
         /\ Cardinality(T) <= Cardinality(S)
         /\ \A n \in S : n \notin T => Cardinality(T) + 1 <= Cardinality(S)
  <1>1. IsFiniteSet(T) /\ Cardinality(T) <= Cardinality(S)
    BY FS_Subset
  <1>2. Cardinality(T) \in Nat /\ Cardinality(S) \in Nat
    BY <1>1, FS_CardinalityType
  <1>3. ASSUME NEW n \in S, n \notin T
        PROVE  Cardinality(T) + 1 <= Cardinality(S)
    <2>1. IsFiniteSet(S \ {n}) /\ Cardinality(S \ {n}) = Cardinality(S) - 1
      BY <1>3, FS_RemoveElement
    <2>2. Cardinality(T) <= Cardinality(S \ {n})
      <3>1. T \subseteq S \ {n}
        BY <1>3
      <3> QED
        BY <2>1, <3>1, FS_Subset
    <2> QED
      BY <1>2, <2>1, <2>2
  <1> QED
    BY <1>1, <1>2, <1>3

LEMMA FormMovesLimits ==
  ASSUME IInv, DraftsTyped, Limits, NEW n \in DOMAIN writes, NEW w, FormMoves(n, w)
  PROVE  Limits'
  <1>0. /\ writes \in Seq(WriteType) /\ store \in [Intents -> Nat]
        /\ writes[n].posting \in Intents /\ writes[n].tab \in Tabs
    BY WriteTyped DEF IInv, Shapes, WriteType
  <1>1. /\ DOMAIN writes' = DOMAIN writes /\ Len(writes') = Len(writes) /\ writes'[n] = w
        /\ \A m \in DOMAIN writes : m # n => writes'[m] = writes[m]
    BY <1>0 DEF FormMoves
  <1>2. SettledOnce'
    <2> SUFFICES ASSUME NEW i \in Intents
                 PROVE  /\ IsFiniteSet(Pending(i)')
                        /\ store'[i] + Cardinality(Pending(i)') <= Len(writes)
      BY <1>1 DEF SettledOnce
    <2>1. Pending(i)' \subseteq Pending(i)
      BY <1>1 DEF Pending, FormMoves
    <2>2. IsFiniteSet(Pending(i)) /\ store[i] + Cardinality(Pending(i)) <= Len(writes)
      BY DEF Limits, SettledOnce
    <2>3. /\ IsFiniteSet(Pending(i)') /\ Cardinality(Pending(i)') \in Nat
          /\ Cardinality(Pending(i)) \in Nat
          /\ Cardinality(Pending(i)') <= Cardinality(Pending(i))
          /\ \A m \in Pending(i) : m \notin Pending(i)' =>
               Cardinality(Pending(i)') + 1 <= Cardinality(Pending(i))
      BY <2>1, <2>2, Shrinks
    <2>4. CASE store'[i] = store[i]
      BY <1>0, <2>2, <2>3, <2>4
    <2>5. CASE store'[i] # store[i]
      <3>1. /\ i = writes[n].posting /\ store'[i] = store[i] + 1
            /\ MaySettle(writes[n], i) /\ ~MaySettle(w, i)
        BY <1>0, <2>5 DEF FormMoves
      <3>2. n \in Pending(i) /\ n \notin Pending(i)'
        BY <1>1, <3>1 DEF Pending
      <3>3. Cardinality(Pending(i)') + 1 <= Cardinality(Pending(i))
        BY <2>3, <3>2
      <3>4. store[i] \in Nat /\ Len(writes) \in Nat
        BY <1>0
      <3> QED
        BY <2>2, <2>3, <3>1, <3>3, <3>4
    <2> QED
      BY <2>4, <2>5
  <1>3. flight' \in [Tabs -> SUBSET Intents]
    BY <1>0 DEF FormMoves, Released, Limits
  <1>4. ClaimsAreOwned'
    <2> SUFFICES ASSUME NEW t \in Tabs, NEW form \in flight'[t]
                 PROVE  \E m \in DOMAIN writes : Claims(writes'[m], t, form)
      BY <1>1 DEF ClaimsAreOwned, Claims
    <2>1. form \in flight[t]
      BY <1>0 DEF FormMoves, Released, Limits
    <2>2. PICK m \in DOMAIN writes : Claims(writes[m], t, form)
      BY <2>1 DEF Limits, ClaimsAreOwned
    <2>3. CASE m # n
      BY <1>1, <2>2, <2>3
    <2>4. CASE m = n
      <3>1. flight' # Released(writes[n])
        BY <1>0, <2>2, <2>4 DEF Released, Claims, Limits
      <3>2. w.step # "done"
        BY <3>1 DEF FormMoves
      <3> QED
        BY <1>1, <2>2, <2>4, <3>2 DEF FormMoves, SameForm, Claims
    <2> QED
      BY <2>3, <2>4
  <1>5. \A m \in DOMAIN writes :
          writes'[m].posting \in {writes'[m].intent, Validation(writes'[m].intent.candidate)}
    BY <1>1 DEF Limits, FormMoves, SameForm
  <1>6. \A t \in Tabs : \A r \in reads'[t] : r.by = ByUrl \/ r.by[1] \in Numbers
    BY WritesAreNumbered DEF Limits, FormMoves, ReadsStay
  <1>7. Len(writes') + previews' <= MaxWrites
    BY <1>1 DEF Limits, FormMoves
  <1> QED
    BY <1>1, <1>2, <1>3, <1>4, <1>5, <1>6, <1>7 DEF Limits


(* A step that changes no form.                                            *)
LEMMA NoFormLimits ==
  ASSUME IInv, DraftsTyped, Limits, UNCHANGED <<writes, store, flight, previews>>,
         \A t \in Tabs : \A q \in reads'[t] : q.by = ByUrl \/ \E r \in reads[t] : q.by = r.by
  PROVE  Limits'
  <1>1. \A t \in Tabs : \A q \in reads'[t] : q.by = ByUrl \/ q.by[1] \in Numbers
    BY DEF Limits
  <1>2. SettledOnce' /\ ClaimsAreOwned'
    BY DEF Limits, SettledOnce, Pending, ClaimsAreOwned
  <1> QED
    BY <1>1, <1>2 DEF Limits

LEMMA ServerReads ==
  ASSUME IInv, ServerStep
  PROVE  \A t \in Tabs : \A q \in reads'[t] : \E r \in reads[t] : q.by = r.by
  <1>1. \A t \in Tabs : SameReads(t)
    BY MovesKeep DEF IInv
  <1> QED
    BY <1>1 DEF SameReads

LEMMA PaintReads ==
  ASSUME IInv, NEW t \in Tabs, NEW page \in Pages, paint(t, page)
  PROVE  \A u \in Tabs : \A q \in reads'[u] : q.by = ByUrl \/ \E r \in reads[u] : q.by = r.by
  <1>1. reads' = [reads EXCEPT ![t] = Awaited(@) \cup {Read(page, ByUrl)}]
    BY DEF paint, ByUrl
  <1>2. Read(page, ByUrl).by = ByUrl /\ Awaited(reads[t]) \subseteq reads[t]
    BY DEF Read, Awaited
  <1> QED
    BY <1>1, <1>2 DEF IInv, Shapes

LEMMA RepaintReads ==
  ASSUME IInv, NEW t \in Tabs, NEW page, NEW n, NEW when, repaint(t, page, <<n, when>>)
  PROVE  ReadsStay(n)
  <1>1. reads' = [reads EXCEPT ![t] = @ \cup {Read(page, <<n, when>>)}]
    BY DEF repaint
  <1>2. Read(page, <<n, when>>).by[1] = n
    BY DEF Read
  <1> QED
    BY <1>1, <1>2 DEF ReadsStay, IInv, Shapes

LEMMA EndMoves ==
  ASSUME IInv, NEW n \in DOMAIN writes, NEW outcome \in Outcomes, End(n, outcome),
         \/ store' = store
         \/ /\ store' = [store EXCEPT ![writes[n].posting] = @ + 1]
            /\ writes[n].step \in {"post", "readback"}
  PROVE  FormMoves(n, Over(writes[n], outcome))
  <1> DEFINE w == Over(writes[n], outcome)
  <1>1. writes[n] \in WriteType
    BY WriteTyped DEF IInv
  <1>2. SameForm(writes[n], w) /\ w.step = "done" /\ w.posting = writes[n].intent
    BY <1>1 DEF Over, OffTheWire, WriteType, SameForm
  <1>3. /\ writes' = [writes EXCEPT ![n] = w] /\ flight' = Released(writes[n])
        /\ previews' = previews
    BY DEF End, Set, bounds
  <1>4. ReadsStay(n)
    <2>1. CASE paint(writes[n].tab, "elsewhere")
      BY <1>1, <2>1, PaintReads DEF WriteType, Pages, ReadsStay
    <2>2. CASE repaint(writes[n].tab, writes[n].page, <<n, "end">>)
      BY <1>1, <2>2, RepaintReads DEF WriteType
    <2> QED
      BY <2>1, <2>2 DEF End
  <1>5. \A i \in Intents : ~MaySettle(w, i)
    BY <1>2 DEF MaySettle
  <1>6. writes[n].step \in {"post", "readback"} => MaySettle(writes[n], writes[n].posting)
    BY DEF MaySettle
  <1>7. writes[n].posting \in Intents
    BY <1>1 DEF WriteType
  <1> HIDE DEF w
  <1>8. FormMoves(n, w)
    BY <1>2, <1>3, <1>4, <1>5, <1>6, <1>7 DEF FormMoves
  <1> QED
    BY <1>8 DEF w

LEMMA SettleMoves ==
  ASSUME IInv, DraftsTyped, Limits, NEW n \in DOMAIN writes, NEW outcome \in {"executed", "refused", "unknown"},
         settleGateIntent(n, outcome), writes[n].step \in {"post", "readback"}
  PROVE  Limits'
  <1>1. \/ store' = store
        \/ store' = [store EXCEPT ![writes[n].posting] = @ + 1]
    BY DEF settleGateIntent
  <1>2. CASE Main(n) \/ outcome # "executed"
    <2>1. End(n, outcome)
      BY <1>2 DEF settleGateIntent
    <2>2. FormMoves(n, Over(writes[n], outcome))
      BY <1>1, <2>1, EndMoves DEF Outcomes
    <2> QED
      BY <2>2, FormMovesLimits
  <1>3. CASE ~(Main(n) \/ outcome # "executed")
    <2> DEFINE w == [writes[n] EXCEPT !.step = "status"]
    <2>1. writes[n] \in WriteType
      BY WriteTyped DEF IInv
    <2>2. /\ SameForm(writes[n], w) /\ w.step = "status" /\ w.posting = writes[n].posting
          /\ w.intent = writes[n].intent
      BY <2>1 DEF WriteType, SameForm
    <2>3. writes' = [writes EXCEPT ![n] = w] /\ UNCHANGED <<flight, reads, previews>>
      BY <1>3 DEF settleGateIntent, Set, browser, painted, bounds
    <2>4. writes[n].posting \in Intents /\ writes[n].posting # writes[n].intent
      BY <1>3, <2>1 DEF Main, WriteType
    <2>5. MaySettle(writes[n], writes[n].posting) /\ ~MaySettle(w, writes[n].posting)
      BY <2>2, <2>4 DEF MaySettle
    <2>6. \A i \in Intents : MaySettle(w, i) => MaySettle(writes[n], i)
      BY <2>2 DEF MaySettle
    <2>7. ReadsStay(n)
      BY <2>3 DEF ReadsStay
    <2> HIDE DEF w
    <2>8. FormMoves(n, w)
      BY <1>1, <2>2, <2>3, <2>5, <2>6, <2>7 DEF FormMoves
    <2> QED
      BY <2>8, FormMovesLimits
  <1> QED
    BY <1>2, <1>3

(* A step that moves the POST of a form and settles nothing.               *)
LEMMA PostMoves ==
  ASSUME IInv, DraftsTyped, Limits, NEW n \in DOMAIN writes, NEW w, Set(n, w), SameForm(writes[n], w),
         w.posting \in {writes[n].posting, writes[n].intent},
         \A i \in Intents : MaySettle(w, i) => MaySettle(writes[n], i),
         w.step # "done", UNCHANGED <<store, previews>>, flight' = flight \/ flight' = Released(writes[n]),
         \A t \in Tabs : \A q \in reads'[t] : q.by = ByUrl \/ \E r \in reads[t] : q.by = r.by
  PROVE  Limits'
  <1>1. FormMoves(n, w)
    BY DEF FormMoves, Set, ReadsStay
  <1> QED
    BY <1>1, FormMovesLimits

LEMMA PostAppliesLimits ==
  ASSUME IInv, DraftsTyped, Limits, NEW n, PostApplies(n)
  PROVE  Limits'
  <1> DEFINE w == [writes[n] EXCEPT !.wire = "applied",
                                    !.counted = Cardinality(EffectiveApprovals(server))]
  <1>1. n \in DOMAIN writes /\ writes[n].step = "post"
    BY DEF PostApplies, Posted
  <1>2. writes[n] \in WriteType /\ writes[n].posting \in Intents
    BY <1>1, WriteTyped DEF IInv, WriteType
  <1>3. /\ SameForm(writes[n], w) /\ w.step = writes[n].step /\ w.posting = writes[n].posting
        /\ w.intent = writes[n].intent
    BY <1>2 DEF WriteType, SameForm
  <1>4. Set(n, w) /\ UNCHANGED <<store, flight, previews>>
    BY DEF PostApplies, bounds
  <1>5. \A t \in Tabs : \A q \in reads'[t] : \E r \in reads[t] : q.by = r.by
    <2>1. ServerStep
      BY <1>2, ApplyMoves DEF PostApplies, IInv
    <2> QED
      BY <2>1, ServerReads
  <1>6. \A i \in Intents : MaySettle(w, i) => MaySettle(writes[n], i)
    BY <1>3 DEF MaySettle
  <1> HIDE DEF w
  <1> QED
    BY <1>1, <1>3, <1>4, <1>5, <1>6, PostMoves

LEMMA AnsweredLimits ==
  ASSUME IInv, DraftsTyped, Limits, NEW n \in DOMAIN writes, NEW answer, Answered(n, answer),
         writes[n].step = "post"
  PROVE  Limits'
  <1> DEFINE w == [OffTheWire(writes[n]) EXCEPT !.answer = answer, !.step = "readback"]
  <1>1. writes[n] \in WriteType
    BY WriteTyped DEF IInv
  <1>2. /\ SameForm(writes[n], w) /\ w.step = "readback" /\ w.posting = writes[n].posting
        /\ w.intent = writes[n].intent
    BY <1>1 DEF OffTheWire, WriteType, SameForm
  <1>3. /\ Set(n, w) /\ UNCHANGED <<store, reads, previews>>
        /\ flight' = flight \/ flight' = Released(writes[n])
    BY DEF Answered, painted, bounds
  <1>4. \A i \in Intents : MaySettle(w, i) => MaySettle(writes[n], i)
    BY <1>2 DEF MaySettle
  <1> HIDE DEF w
  <1> QED
    BY <1>2, <1>3, <1>4, PostMoves

LEMMA VerifiedLimits ==
  ASSUME IInv, DraftsTyped, Limits, NEW n, Verified(n)
  PROVE  Limits'
  <1> DEFINE w == Post(writes[n], writes[n].intent)
  <1>1. n \in DOMAIN writes /\ writes[n].step = "status"
    BY DEF Verified
  <1>2. writes[n] \in WriteType
    BY <1>1, WriteTyped DEF IInv
  <1>3. /\ SameForm(writes[n], w) /\ w.step = "post" /\ w.posting = writes[n].intent
        /\ w.intent = writes[n].intent
    BY <1>2 DEF Post, WriteType, SameForm
  <1>4. Set(n, w) /\ UNCHANGED <<store, reads, flight, previews>>
    BY DEF Verified, browser, painted, bounds
  <1>5. \A i \in Intents : MaySettle(w, i) => MaySettle(writes[n], i)
    BY <1>1, <1>3 DEF MaySettle
  <1> HIDE DEF w
  <1> QED
    BY <1>1, <1>3, <1>4, <1>5, PostMoves

LEMMA ChainLimits ==
  ASSUME IInv, DraftsTyped, Limits, NEW n, Chain(n)
  PROVE  Limits'
  <1>1. n \in DOMAIN writes
    BY DEF Chain, Answers, AnswerExecuted, AnswerRefused, AnswerUnknown, Posted, gateReadback,
           Verified, NotVerified
  <1>2. CASE AnswerExecuted(n) \/ AnswerUnknown(n)
    BY <1>1, <1>2, AnsweredLimits DEF AnswerExecuted, AnswerUnknown, Posted
  <1>3. CASE AnswerRefused(n)
    BY <1>1, <1>3, SettleMoves DEF AnswerRefused, Posted
  <1>4. CASE gateReadback(n)
    BY <1>1, <1>4, SettleMoves DEF gateReadback
  <1>5. CASE Verified(n)
    BY <1>5, VerifiedLimits
  <1>6. CASE NotVerified(n)
    <2>1. FormMoves(n, Over(writes[n], "refused"))
      BY <1>1, <1>6, EndMoves DEF NotVerified, Outcomes
    <2> QED
      BY <1>1, <2>1, FormMovesLimits
  <1> QED
    BY <1>2, <1>3, <1>4, <1>5, <1>6 DEF Chain, Answers


LEMMA SubmitLimits ==
  ASSUME IInv, DraftsTyped, Limits, NEW t \in Tabs, NEW i \in Intents, NEW auto \in BOOLEAN, Submit(t, i, auto)
  PROVE  Limits'
  <1> DEFINE p == IF auto THEN Validation(i.candidate) ELSE i
             w == Post(Started(t, i), p)
             new == Len(writes) + 1
  <1>1. w.tab = t /\ w.intent = i /\ w.step = "post" /\ w.posting = p
    BY DEF Post, Started
  <1>2. writes' = Append(writes, w) /\ writes \in Seq(WriteType) /\ Len(writes) \in Nat
    BY DEF Submit, IInv, Shapes
  <1> HIDE DEF w
  <1>3. /\ DOMAIN writes' = DOMAIN writes \cup {new} /\ Len(writes') = new
        /\ writes'[new] = w /\ \A n \in DOMAIN writes : n # new /\ writes'[n] = writes[n]
    BY <1>2
  <1>4. new + previews <= MaxWrites /\ previews' = previews /\ new \in Numbers
    BY <1>2, GateAssumption DEF Submit, bounds, DraftsTyped, Numbers
  <1>5. flight' = [flight EXCEPT ![t] = @ \cup {Form(i)}] /\ store' = store
    BY DEF Submit
  <1>6. flight' \in [Tabs -> SUBSET Intents]
    BY <1>5, FormInIntents DEF Limits
  <1>7. SettledOnce'
    <2> SUFFICES ASSUME NEW k \in Intents
                 PROVE  /\ IsFiniteSet(Pending(k)')
                        /\ store[k] + Cardinality(Pending(k)') <= new
      BY <1>3, <1>5 DEF SettledOnce
    <2>1. Pending(k)' \subseteq Pending(k) \cup {new} /\ new \notin Pending(k)
      BY <1>3 DEF Pending
    <2>2. IsFiniteSet(Pending(k)) /\ store[k] + Cardinality(Pending(k)) <= Len(writes)
      BY DEF Limits, SettledOnce
    <2>3. /\ IsFiniteSet(Pending(k) \cup {new})
          /\ Cardinality(Pending(k) \cup {new}) = Cardinality(Pending(k)) + 1
      BY <2>1, <2>2, FS_AddElement
    <2>4. /\ IsFiniteSet(Pending(k)') /\ Cardinality(Pending(k)') \in Nat
          /\ Cardinality(Pending(k)') <= Cardinality(Pending(k) \cup {new})
      BY <2>1, <2>3, Shrinks
    <2>5. store[k] \in Nat /\ Cardinality(Pending(k)) \in Nat
      BY <2>2, FS_CardinalityType DEF IInv, Shapes
    <2> QED
      BY <1>2, <2>2, <2>3, <2>4, <2>5
  <1>8. ClaimsAreOwned'
    <2> SUFFICES ASSUME NEW u \in Tabs, NEW form \in flight'[u]
                 PROVE  \E n \in DOMAIN writes' : Claims(writes'[n], u, form)
      BY DEF ClaimsAreOwned, Claims
    <2>1. CASE form \in flight[u]
      <3>1. PICK n \in DOMAIN writes : Claims(writes[n], u, form)
        BY <2>1 DEF Limits, ClaimsAreOwned
      <3> QED
        BY <1>3, <3>1
    <2>2. CASE form \notin flight[u]
      <3>1. u = t /\ form = Form(i)
        BY <1>5, <2>2 DEF Limits
      <3> QED
        BY <1>1, <1>3, <3>1 DEF Claims
    <2> QED
      BY <2>1, <2>2
  <1>9. \A n \in DOMAIN writes' :
          writes'[n].posting \in {writes'[n].intent, Validation(writes'[n].intent.candidate)}
    BY <1>1, <1>3 DEF Limits
  <1>10. \A u \in Tabs : \A r \in reads'[u] : r.by = ByUrl \/ r.by[1] \in Numbers
    <2>1. ReadsStay(new)
      BY RepaintReads DEF Submit
    <2> QED
      BY <1>4, <2>1 DEF ReadsStay, Limits
  <1> QED
    BY <1>3, <1>4, <1>6, <1>7, <1>8, <1>9, <1>10 DEF Limits

LEMMA PreviewLimits ==
  ASSUME IInv, DraftsTyped, Limits, NEW t \in Tabs, NEW i \in Intents, Preview(t, i)
  PROVE  Limits'
  <1> DEFINE new == previews + 1
  <1>1. UNCHANGED <<writes, store, flight>> /\ previews' = new
    BY DEF Preview
  <1>2. Len(writes) + new <= MaxWrites /\ new \in Numbers
    BY WritesAreNumbered DEF Preview, DraftsTyped, Numbers
  <1>3. ReadsStay(new)
    BY RepaintReads DEF Preview
  <1>4. \A u \in Tabs : \A r \in reads'[u] : r.by = ByUrl \/ r.by[1] \in Numbers
    BY <1>2, <1>3 DEF ReadsStay, Limits
  <1>5. SettledOnce' /\ ClaimsAreOwned'
    BY <1>1 DEF Limits, SettledOnce, Pending, ClaimsAreOwned
  <1> HIDE DEF new
  <1> QED
    BY <1>1, <1>2, <1>4, <1>5 DEF Limits

LEMMA ReloadLimits ==
  ASSUME IInv, DraftsTyped, Limits, NEW t \in Tabs, Reload(t)
  PROVE  Limits'
  <1>1. /\ writes' = [n \in DOMAIN writes |->
                        IF writes[n].tab = t /\ writes[n].step # "done" THEN Over(writes[n], "none")
                                                                        ELSE writes[n]]
        /\ flight' = [flight EXCEPT ![t] = {}]
        /\ reads' = [reads EXCEPT ![t] = {Read(hash[t], ByUrl)}]
        /\ store' = store /\ previews' = previews
    BY DEF Reload, ByUrl
  <1>2. ASSUME NEW n \in DOMAIN writes
        PROVE  /\ writes'[n].intent = writes[n].intent /\ writes'[n].tab = writes[n].tab
               /\ writes'[n] = writes[n] \/ (writes'[n].step = "done" /\ writes[n].tab = t
                                             /\ writes'[n].posting = writes'[n].intent)
    <2>1. writes[n] \in WriteType
      BY WriteTyped DEF IInv
    <2>2. LET v == Over(writes[n], "none") IN
            v.intent = writes[n].intent /\ v.tab = writes[n].tab /\ v.step = "done" /\ v.posting = v.intent
      BY <2>1 DEF Over, OffTheWire, WriteType
    <2>3. CASE writes[n].tab = t /\ writes[n].step # "done"
      <3>1. writes'[n] = Over(writes[n], "none")
        BY <1>1, <2>3
      <3> QED
        BY <2>2, <2>3, <3>1
    <2>4. CASE ~(writes[n].tab = t /\ writes[n].step # "done")
      BY <1>1, <2>4
    <2> QED
      BY <2>3, <2>4
  <1>3. DOMAIN writes' = DOMAIN writes /\ Len(writes') = Len(writes)
    <2>1. writes \in Seq(WriteType) /\ DOMAIN writes = 1..Len(writes) /\ Len(writes) \in Nat
      BY DEF IInv, Shapes
    <2>2. DOMAIN writes' = 1..Len(writes)
      BY <1>1, <2>1
    <2>3. writes' \in Seq(WriteType)
      <3>1. Shapes'
        BY ReloadKeeps DEF IInv
      <3> QED
        BY <3>1 DEF Shapes
    <2> QED
      BY <2>1, <2>2, <2>3
  <1>4. SettledOnce'
    <2> SUFFICES ASSUME NEW i \in Intents
                 PROVE  /\ IsFiniteSet(Pending(i)')
                        /\ store[i] + Cardinality(Pending(i)') <= Len(writes)
      BY <1>1, <1>3 DEF SettledOnce
    <2>1. Pending(i)' \subseteq Pending(i)
      BY <1>2, <1>3 DEF Pending, MaySettle
    <2>2. IsFiniteSet(Pending(i)) /\ store[i] + Cardinality(Pending(i)) <= Len(writes)
      BY DEF Limits, SettledOnce
    <2>3. /\ IsFiniteSet(Pending(i)') /\ Cardinality(Pending(i)') \in Nat
          /\ Cardinality(Pending(i)) \in Nat
          /\ Cardinality(Pending(i)') <= Cardinality(Pending(i))
      BY <2>1, <2>2, Shrinks
    <2>4. store[i] \in Nat /\ Len(writes) \in Nat
      BY DEF IInv, Shapes
    <2> QED
      BY <2>2, <2>3, <2>4
  <1>5. flight' \in [Tabs -> SUBSET Intents]
    BY <1>1 DEF Limits
  <1>6. ClaimsAreOwned'
    <2> SUFFICES ASSUME NEW u \in Tabs, NEW form \in flight'[u]
                 PROVE  \E n \in DOMAIN writes : Claims(writes'[n], u, form)
      BY <1>3 DEF ClaimsAreOwned, Claims
    <2>1. u # t /\ form \in flight[u]
      BY <1>1 DEF Limits
    <2>2. PICK n \in DOMAIN writes : Claims(writes[n], u, form)
      BY <2>1 DEF Limits, ClaimsAreOwned
    <2> QED
      BY <1>2, <2>1, <2>2 DEF Claims
  <1>7. \A n \in DOMAIN writes :
          writes'[n].posting \in {writes'[n].intent, Validation(writes'[n].intent.candidate)}
    BY <1>2 DEF Limits
  <1>8. \A u \in Tabs : \A r \in reads'[u] : r.by = ByUrl \/ r.by[1] \in Numbers
    <2>1. Read(hash[t], ByUrl).by = ByUrl
      BY DEF Read
    <2> QED
      BY <1>1, <2>1 DEF Limits, IInv, Shapes
  <1> QED
    BY <1>1, <1>3, <1>4, <1>5, <1>6, <1>7, <1>8 DEF Limits

LEMMA LimitsInit == Init => Limits
  <1> SUFFICES ASSUME Init
               PROVE  Limits
    OBVIOUS
  <1>1. DOMAIN writes = {} /\ Len(writes) = 0
    BY DEF Init
  <1>2. \A i \in Intents : Pending(i) = {} /\ store[i] = 0
    BY <1>1 DEF Init, Pending
  <1>3. SettledOnce
    <2> SUFFICES ASSUME NEW i \in Intents
                 PROVE  IsFiniteSet(Pending(i)) /\ store[i] + Cardinality(Pending(i)) <= Len(writes)
      BY DEF SettledOnce
    <2>1. IsFiniteSet({}) /\ Cardinality({}) = 0
      BY FS_EmptySet
    <2>2. Pending(i) = {} /\ store[i] = 0
      BY <1>2
    <2>3. IsFiniteSet(Pending(i)) /\ Cardinality(Pending(i)) = 0
      BY <2>1, <2>2
    <2> QED
      BY <1>1, <2>2, <2>3
  <1>4. \A t \in Tabs : \A r \in reads[t] : r.by = ByUrl
    BY DEF Init, Read, ByUrl
  <1> QED
    BY <1>1, <1>3, <1>4, GateAssumption DEF Init, Limits, ClaimsAreOwned

LEMMA StepLimits ==
  ASSUME IInv, DraftsTyped, Limits, [Next]_vars
  PROVE  Limits'
  <1>1. ASSUME NEW t \in Tabs, NEW i \in Intents, NEW auto \in BOOLEAN, Submit(t, i, auto)
        PROVE  Limits'
    BY <1>1, SubmitLimits
  <1>2. ASSUME NEW n \in Numbers, PostApplies(n) \/ Chain(n)
        PROVE  Limits'
    BY <1>2, PostAppliesLimits, ChainLimits
  <1>3. ASSUME NEW t \in Tabs, NEW r \in reads[t], PaintResolves(t, r) \/ PaintFails(t, r)
        PROVE  Limits'
    <2>1. reads' = [reads EXCEPT ![t] = @ \ {r}] /\ UNCHANGED <<writes, store, flight>>
      BY <1>3 DEF PaintResolves, PaintFails
    <2>2. \A u \in Tabs : reads'[u] \subseteq reads[u]
      BY <2>1 DEF IInv, Shapes
    <2> QED
      BY <1>3, <2>1, <2>2, NoFormLimits DEF PaintResolves, PaintFails, bounds
  <1>4. ASSUME NEW t \in Tabs, Reload(t)
        PROVE  Limits'
    BY <1>4, ReloadLimits
  <1>5. ASSUME NEW t \in Tabs, NEW page \in Pages, Navigate(t, page)
        PROVE  Limits'
    BY <1>5, PaintReads, NoFormLimits DEF Navigate
  <1>6. ASSUME NEW key \in late, LateApplies(key)
        PROVE  Limits'
    <2>1. key[1] \in Intents
      BY DEF IInv, Shapes
    <2>2. ServerStep
      BY <1>6, <2>1, ApplyMoves DEF IInv, LateApplies
    <2> QED
      BY <1>6, <2>2, ServerReads, NoFormLimits DEF LateApplies, bounds
  <1>7. ASSUME NEW c \in Candidates, Drift(c)
        PROVE  Limits'
    <2>1. \A t \in Tabs : \A q \in reads'[t] : \E r \in reads[t] : q.by = r.by
      <3>1. PICK s : Becomes(s)
        BY <1>7 DEF Drift
      <3>2. reads' = [t \in Tabs |-> {[r EXCEPT !.seen = @ \cup {Queue(s)}] : r \in reads[t]}]
        BY <3>1 DEF Becomes
      <3>3. \A t \in Tabs : \A r \in reads[t] : r \in ReadType
        BY DEF IInv, Shapes
      <3> QED
        BY <3>2, <3>3 DEF ReadType
    <2> QED
      BY <1>7, <2>1, NoFormLimits DEF Drift
  <1>8. ASSUME NEW t \in Tabs, NEW i \in Intents, Preview(t, i)
        PROVE  Limits'
    BY <1>8, PreviewLimits
  <1>9. CASE UNCHANGED vars
    BY <1>9, NoFormLimits DEF vars
  <1> QED
    BY <1>1, <1>2, <1>3, <1>4, <1>5, <1>6, <1>7, <1>8, <1>9 DEF Next

LEMMA LimitsInductive == Spec => [](IInv /\ DraftsTyped /\ Limits)
  <1>1. IInv /\ DraftsTyped /\ Limits /\ [Next]_vars => Limits'
    BY StepLimits
  <1> QED
    BY <1>1, Inductive, LimitsInit, PTL DEF Spec

(* What the browser marks as decided or claims is temporary, for any tabs, *)
(* forms, reloads and answers (review-queue.ts: decided;                   *)
(* human-gate-flight.ts: inFlight).                                        *)
THEOREM MarksAlwaysTemporary == Spec => []MarksAreTemporary
  <1>1. IInv /\ Limits => MarksAreTemporary
    BY DEF IInv, MarksAreOwned, Decides, Limits, ClaimsAreOwned, Claims, MarksAreTemporary
  <1> QED
    BY <1>1, LimitsInductive, PTL

(* The types, with the limits: no key is ahead of its intent, and an       *)
(* intent never has more generations than there are submitted forms,       *)
(* whatever retries, reloads and validations settle it.                    *)
THEOREM TypeCorrect == Spec => []TypeOK
  <1> SUFFICES ASSUME IInv, DraftsTyped, Limits
               PROVE  TypeOK
    BY LimitsInductive, PTL
  <1>0. Len(writes) \in Nat /\ DOMAIN writes = 1..Len(writes) /\ Len(writes) <= MaxWrites /\ MaxWrites \in Nat
    BY WritesAreNumbered
  <1>1. \A i \in Intents : store[i] \in Generations
    <2> SUFFICES ASSUME NEW i \in Intents
                 PROVE  store[i] \in Generations
      OBVIOUS
    <2>1. IsFiniteSet(Pending(i)) /\ store[i] + Cardinality(Pending(i)) <= Len(writes)
      BY DEF Limits, SettledOnce
    <2>2. Cardinality(Pending(i)) \in Nat /\ store[i] \in Nat
      BY <2>1, FS_CardinalityType DEF IInv, Shapes
    <2> QED
      BY <1>0, <2>1, <2>2 DEF Generations
  <1>2. store \in [Intents -> Generations]
    BY <1>1 DEF IInv, Shapes
  <1>3. late \subseteq Intents \X Generations /\ receipts \subseteq Intents \X Generations
    <2> SUFFICES ASSUME NEW k \in late \cup receipts
                 PROVE  k \in Intents \X Generations
      OBVIOUS
    <2>1. k \in Intents \X Nat /\ k[2] <= store[k[1]]
      BY DEF IInv, Shapes, KeysAreIssued
    <2>2. store[k[1]] \in 0..MaxWrites
      BY <1>1, <2>1 DEF Generations
    <2> QED
      BY <1>0, <2>1, <2>2 DEF Generations
  <1>4. \A n \in DOMAIN writes :
          LET w == writes[n] IN
          /\ w.tab \in Tabs /\ w.intent \in Intents /\ w.page \in Pages /\ w.step \in Steps
          /\ w.posting \in {w.intent, Validation(w.intent.candidate)} \cap Intents
          /\ w.generation \in 0..store[w.posting]
          /\ w.wire \in {"none", "sent", "applied"} /\ w.answer \in Outcomes /\ w.report \in Outcomes
          /\ w.counted \in 0..Cardinality(Candidates)
    <2> SUFFICES ASSUME NEW n \in DOMAIN writes
                 PROVE  LET w == writes[n] IN
                        /\ w.tab \in Tabs /\ w.intent \in Intents /\ w.page \in Pages /\ w.step \in Steps
                        /\ w.posting \in {w.intent, Validation(w.intent.candidate)} \cap Intents
                        /\ w.generation \in 0..store[w.posting]
                        /\ w.wire \in {"none", "sent", "applied"} /\ w.answer \in Outcomes
                        /\ w.report \in Outcomes /\ w.counted \in 0..Cardinality(Candidates)
      OBVIOUS
    <2>1. writes[n] \in WriteType
      BY WriteTyped DEF IInv
    <2>2. writes[n].counted \in 0..Cardinality(Candidates)
      <3>1. \A S \in SUBSET Candidates : Cardinality(S) \in 0..Cardinality(Candidates)
        BY GateAssumption, Shrinks
      <3>2. 0 \in 0..Cardinality(Candidates)
        BY GateAssumption, FS_CardinalityType
      <3> QED
        BY <2>1, <3>1, <3>2 DEF WriteType, Counts
    <2>3. writes[n].generation \in 0..store[writes[n].posting]
      BY <2>1 DEF WriteType, IInv, Shapes, KeysAreIssued
    <2>4. writes[n].posting \in {writes[n].intent, Validation(writes[n].intent.candidate)} \cap Intents
      BY <2>1 DEF WriteType, Limits
    <2> QED
      BY <2>1, <2>2, <2>3, <2>4 DEF WriteType
  <1>5. \A t \in Tabs : \A r \in reads[t] :
          /\ r.page \in Pages /\ r.seen \subseteq Seen
          /\ r.by \in {<<0, "url">>} \cup Numbers \X {"start", "end", "preview"}
    <2> SUFFICES ASSUME NEW t \in Tabs, NEW r \in reads[t]
                 PROVE  /\ r.page \in Pages /\ r.seen \subseteq Seen
                        /\ r.by \in {<<0, "url">>} \cup Numbers \X {"start", "end", "preview"}
      OBVIOUS
    <2>1. r \in ReadType
      BY DEF IInv, Shapes
    <2>2. r.by = ByUrl \/ (r.by \in Nat \X {"start", "end", "preview"} /\ r.by[1] \in Numbers)
      BY <2>1 DEF ReadType, Paints, Limits, ByUrl
    <2> QED
      BY <2>1, <2>2 DEF ReadType, ByUrl
  <1> QED
    BY <1>2, <1>3, <1>4, <1>5 DEF TypeOK, IInv, Shapes, ServerType, RowType, MarkType, ScreenType,
                                  Limits, DraftsTyped


=============================================================================
