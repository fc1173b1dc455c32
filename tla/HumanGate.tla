------------------------------ MODULE HumanGate ------------------------------
(***************************************************************************)
(* The human gate of outbound messages: reviewers in browser tabs (web     *)
(* shell), a stateless edge (the Warmbly connector) and Warmbly itself,    *)
(* which is external.  A submitted form becomes a chain of awaits in its   *)
(* tab: perhaps a validation first, then one POST under an idempotency key *)
(* kept in localStorage, then a read of the resource, then the report.     *)
(* The form is free again as soon as the POST is answered; the screen is   *)
(* repainted when the chain starts and when it ends, and each paint reads  *)
(* the server and shows the answer whenever it comes.                      *)
(*                                                                         *)
(* An adjust takes two steps: a preview that parks a draft, sends nothing  *)
(* and repaints the page, then the form that confirms it.                  *)
(*                                                                         *)
(* Texts and reasons are left out: an intent stands for one form with one  *)
(* content, and a draft for one adjust of its candidate.                   *)
(***************************************************************************)
EXTENDS Naturals, FiniteSets, Sequences

CONSTANTS
  Tabs,        \* browser tabs of one origin
  Candidates,  \* of the one cohort version that is reviewed
  Actions,     \* bound: the kinds of intents that are submitted
  MaxWrites,   \* bound: submitted forms, previews of an adjust included
  MaxDrifts,   \* bound: changes of Warmbly that no form asked for
  MaxMoves,    \* bound: navigations and reloads
  MaxReads,    \* bound: reads of a tab under way when a form is submitted
  Nobody       \* the candidate of an intent about the whole cohort

ASSUME GateAssumption ==
  /\ IsFiniteSet(Candidates) /\ Nobody \notin Candidates
  /\ Actions \subseteq {"create", "reproduce", "adjust", "validate", "reconcile", "APPROVE", "HOLD", "REJECT"}
  /\ MaxWrites \in Nat /\ MaxDrifts \in Nat /\ MaxMoves \in Nat
  /\ MaxReads \in Nat

(* Intents: the action, or the decision of a review, and its candidate.    *)
OfCandidate == {"adjust", "validate", "APPROVE", "HOLD", "REJECT"}
Decisions == {"APPROVE", "HOLD", "REJECT"}
Intents ==
  [action : {"create", "reproduce", "reconcile"}, candidate : {Nobody}]
    \cup [action : OfCandidate, candidate : Candidates]
Validation(c) == [action |-> "validate", candidate |-> c]

(* data-gate-key: HOLD and REJECT are one form.                            *)
Form(i) == IF i.action = "REJECT" THEN [i EXCEPT !.action = "HOLD"] ELSE i

(* The review of the cohort, and any other URL: the list, another version. *)
Pages == {"review", "elsewhere"}
PageOf(i) == IF i.action = "create" THEN "elsewhere" ELSE "review"

QueueStates == {"pendente", "aprovado", "ajuste"}
Numbers == 1..MaxWrites
Generations == 0..MaxWrites

VARIABLES
  store,     \* localStorage: the generation of each intent
  writes,    \* the submitted forms, in order, with the chain of each
  late,      \* POSTs nobody waits for that may still reach Warmbly
  receipts,  \* Warmbly: the keys it has applied
  server,    \* Warmbly: validation, decision, effect and schedule of each candidate
  flight,    \* inFlight of human-gate-flight.ts, of each tab
  marks,     \* decided of review-queue.ts, of each tab
  drafts,    \* drafts of human-gate-flight.ts, of each tab
  hash,      \* the URL of each tab
  screen,    \* what each tab shows
  reads,     \* reads of each tab that will paint
  settled,   \* history: definitive settlements of each intent
  recorded,  \* history: reviews the server had in force since their form was sent
  repainted, \* history: tabs that a form repainted since they were loaded
  drifts, moves, previews  \* bounds

painted == <<hash, screen, reads, repainted>>
browser == <<flight, marks, drafts, painted>>
warmbly == <<late, receipts, server>>
history == <<settled, recorded>>
bounds == <<drifts, moves, previews>>
vars == <<store, writes, late, receipts, server, flight, marks, drafts, hash, screen, reads,
          settled, recorded, repainted, drifts, moves, previews>>

(* A page without its content: it is being read, or the read failed.       *)
Loading(page) == [page |-> page, ready |-> FALSE, shown |-> [c \in Candidates |-> "pendente"]]
Unseen == [validation |-> "NONE", decision |-> "NONE", effective |-> FALSE, scheduled |-> FALSE]

(* serverReviewState: an approval counts while it is effective.            *)
ServerState(row) ==
  IF row.decision = "APPROVE" THEN IF row.effective THEN "aprovado" ELSE "pendente"
  ELSE IF row.decision \in {"HOLD", "REJECT"} THEN "ajuste" ELSE "pendente"

Queue(s) == [c \in Candidates |-> ServerState(s[c])]

(* A read that will paint.  The server answers it at some moment: its      *)
(* answer is any of the queues that were true since it was sent.           *)
Read(page, by) == [page |-> page, by |-> by, seen |-> {Queue(server)}]

Init ==
  /\ store = [i \in Intents |-> 0]
  /\ writes = <<>>
  /\ late = {}
  /\ receipts = {}
  /\ server = [c \in Candidates |-> Unseen]
  /\ flight = [t \in Tabs |-> {}]
  /\ marks = [t \in Tabs |-> [c \in Candidates |-> "none"]]
  /\ drafts = [t \in Tabs |-> {}]
  /\ hash = [t \in Tabs |-> "review"]
  /\ screen = [t \in Tabs |-> Loading("review")]
  /\ reads = [t \in Tabs |-> {Read("review", <<0, "url">>)}]
  /\ settled = [i \in Intents |-> 0]
  /\ recorded = {}
  /\ repainted = {}
  /\ drifts = 0 /\ moves = 0 /\ previews = 0

-----------------------------------------------------------------------------
(* Warmbly.                                                                *)

InForce(row, decision) ==
  /\ row.decision = decision
  /\ decision = "APPROVE" => row.effective /\ row.scheduled

EffectiveApprovals(s) == {c \in Candidates : ServerState(s[c]) = "aprovado"}

(* What a change of the server makes true, and no longer true.             *)
Becomes(s) ==
  /\ server' = s
  /\ recorded' = recorded \cup {n \in DOMAIN writes :
       LET i == writes[n].intent IN i.action \in Decisions /\ InForce(s[i.candidate], i.action)}
  /\ reads' = [t \in Tabs |-> {[r EXCEPT !.seen = @ \cup {Queue(s)}] : r \in reads[t]}]

(* One POST of intent i takes effect.                                      *)
Effect(i) ==
  LET c == i.candidate IN
  CASE i.action = "validate" ->
         \E v \in {"VALID", "RISKY"} : Becomes([server EXCEPT ![c].validation = v])
    [] i.action = "APPROVE" ->
         /\ server[c].validation = "VALID"
         /\ \E b \in BOOLEAN :
              Becomes([server EXCEPT ![c] = [validation |-> "VALID", decision |-> "APPROVE",
                                             effective |-> TRUE, scheduled |-> b]])
    [] i.action \in {"HOLD", "REJECT"} ->
         Becomes([server EXCEPT ![c].decision = i.action, ![c].effective = FALSE,
                                ![c].scheduled = FALSE])
    [] i.action = "reconcile" ->
         \E done \in SUBSET EffectiveApprovals(server) :
           Becomes([d \in Candidates |-> IF d \in done THEN [server[d] EXCEPT !.scheduled = TRUE]
                                                       ELSE server[d]])
    [] OTHER -> Becomes(server)

(* A key that was applied is answered with its receipt and no new effect.  *)
Apply(i, key) ==
  IF key \in receipts THEN UNCHANGED <<receipts, server, recorded, reads>>
  ELSE receipts' = receipts \cup {key} /\ Effect(i)

LateApplies(key) ==
  /\ key \in late
  /\ Apply(key[1], key)
  /\ late' = late \ {key}
  /\ UNCHANGED <<store, writes, flight, marks, drafts, hash, screen, repainted, settled, bounds>>

(* Recipient, copy, policy or evidence moved, or a validation expired.     *)
Drift(c) ==
  /\ drifts < MaxDrifts /\ drifts' = drifts + 1
  /\ \E row \in {[server[c] EXCEPT !.effective = FALSE, !.scheduled = FALSE],
                 [server[c] EXCEPT !.validation = "NONE"]} :
       row # server[c] /\ Becomes([server EXCEPT ![c] = row])
  /\ UNCHANGED <<store, writes, late, receipts, flight, marks, drafts, hash, screen, repainted,
                 settled, moves, previews>>

-----------------------------------------------------------------------------
(* Paints of a tab.                                                        *)

(* Mutant of Awaited: a read is painted whatever was painted since.        *)
AwaitsAll(rs) == rs

(* isCurrent: a paint by URL makes the answers of older ones void; what a  *)
(* repaint after a form has asked for is always painted.                   *)
Awaited(rs) == {r \in rs : r.by # <<0, "url">>}

(* mount's paint: the URL of the tab, in a new generation.                 *)
paint(t, page) ==
  /\ hash' = [hash EXCEPT ![t] = page]
  /\ screen' = [screen EXCEPT ![t] = Loading(page)]
  /\ reads' = [reads EXCEPT ![t] = Awaited(@) \cup {Read(page, <<0, "url">>)}]
  /\ UNCHANGED repainted

(* onDone: the page the form was on, in no generation.                     *)
repaint(t, page, by) ==
  /\ hash' = hash
  /\ screen' = [screen EXCEPT ![t] = Loading(page)]
  /\ reads' = [reads EXCEPT ![t] = @ \cup {Read(page, by)}]
  /\ repainted' = repainted \cup {t}

Navigate(t, page) ==
  /\ moves < MaxMoves /\ moves' = moves + 1
  /\ page # hash[t]
  /\ paint(t, page)
  /\ UNCHANGED <<store, writes, warmbly, history, flight, marks, drafts, drifts, previews>>

(* reviewQueueState: the mark of this tab wins over what was read.         *)
reviewQueueState(t, seen) ==
  [c \in Candidates |-> IF marks[t][c] # "none" THEN marks[t][c] ELSE seen[c]]

PaintResolves(t, r) ==
  /\ \E seen \in r.seen :
       screen' = [screen EXCEPT ![t] = [page |-> r.page, ready |-> TRUE,
                                        shown |-> reviewQueueState(t, seen)]]
  /\ reads' = [reads EXCEPT ![t] = @ \ {r}]
  /\ UNCHANGED <<store, writes, warmbly, history, flight, marks, drafts, hash, repainted, bounds>>

PaintFails(t, r) ==
  /\ screen' = [screen EXCEPT ![t] = Loading(r.page)]
  /\ reads' = [reads EXCEPT ![t] = @ \ {r}]
  /\ UNCHANGED <<store, writes, warmbly, history, flight, marks, drafts, hash, repainted, bounds>>

-----------------------------------------------------------------------------
(* One form: bindWarmblyHumanGate and the chain it starts.                 *)

Key(n) == <<writes[n].posting, writes[n].generation>>
Main(n) == writes[n].posting = writes[n].intent
Set(n, w) == writes' = [writes EXCEPT ![n] = w]

(* Mutant of Post: the key is taken after the generation has moved on.     *)
PostNext(w, i) ==
  [w EXCEPT !.step = "post", !.posting = i, !.generation = store[i] + 1, !.wire = "sent",
            !.answer = "none", !.counted = 0]

(* humanGateIdempotencyKey: the generation the intent has now.             *)
Post(w, i) ==
  [w EXCEPT !.step = "post", !.posting = i, !.generation = store[i], !.wire = "sent",
            !.answer = "none", !.counted = 0]

Started(t, i) ==
  [tab |-> t, intent |-> i, page |-> screen[t].page, step |-> "post", posting |-> i,
   generation |-> 0, wire |-> "sent", answer |-> "none", counted |-> 0, report |-> "none"]

(* A POST that was answered or given up is not on the wire.                *)
OffTheWire(w) == [w EXCEPT !.wire = "none", !.generation = 0]

(* A chain that is over leaves its report, if it got that far.             *)
Over(w, report) ==
  [OffTheWire(w) EXCEPT !.step = "done", !.posting = w.intent, !.answer = "none", !.counted = 0,
                        !.report = report]

Optimistic(i) == IF i.action = "APPROVE" THEN "aprovado" ELSE "ajuste"

(* Forms of a page that is on screen; approved candidates have none to     *)
(* approve them again.                                                     *)
Offered(t, i) ==
  /\ screen[t].ready /\ screen[t].page = PageOf(i)
  /\ i.action = "APPROVE" => screen[t].shown[i.candidate] # "aprovado"

(* data-adjust-step: the form of an adjust confirms a draft, and previews  *)
(* where there is none.  Drafts change only in steps that repaint, so a    *)
(* form on screen was painted with the drafts of now.                      *)
Confirming(t, i) == i.candidate \in drafts[t]

(* The submit handler of an adjust that is previewed: the draft is parked, *)
(* and the page is repainted although nothing is claimed or sent.          *)
Preview(t, i) ==
  /\ Len(writes) + previews < MaxWrites /\ previews' = previews + 1
  /\ Cardinality(reads[t]) <= MaxReads
  /\ i.action = "adjust" /\ Offered(t, i) /\ ~Confirming(t, i)
  /\ drafts' = [drafts EXCEPT ![t] = @ \cup {i.candidate}]
  /\ repaint(t, screen[t].page, <<previews + 1, "preview">>)
  /\ UNCHANGED <<store, writes, warmbly, history, flight, marks, drifts, moves>>

(* The submit handler up to its first await: beginGateFlight, the mark,    *)
(* the repaint and the first POST, which validates if the candidate the    *)
(* screen was painted from had no current VALID.                           *)
Submit(t, i, auto) ==
  /\ Len(writes) + previews < MaxWrites /\ Cardinality(reads[t]) <= MaxReads
  /\ i.action \in Actions /\ (auto => i.action = "APPROVE")
  /\ Offered(t, i) /\ (i.action = "adjust" => Confirming(t, i))
  /\ Form(i) \notin flight[t]
  /\ flight' = [flight EXCEPT ![t] = @ \cup {Form(i)}]
  /\ marks' = IF i.action \in Decisions THEN [marks EXCEPT ![t][i.candidate] = Optimistic(i)]
                                        ELSE marks
  /\ writes' = Append(writes, Post(Started(t, i), IF auto THEN Validation(i.candidate) ELSE i))
  /\ repaint(t, screen[t].page, <<Len(writes) + 1, "start">>)
  /\ recorded' = IF i.action \in Decisions /\ InForce(server[i.candidate], i.action)
                 THEN recorded \cup {Len(writes) + 1} ELSE recorded
  /\ UNCHANGED <<store, warmbly, drafts, settled, bounds>>

Posted(n) == n \in DOMAIN writes /\ writes[n].step = "post"

(* Warmbly applies the POST of a form that still waits for the answer.     *)
PostApplies(n) ==
  /\ Posted(n) /\ writes[n].wire = "sent"
  /\ Apply(writes[n].posting, Key(n))
  /\ Set(n, [writes[n] EXCEPT !.wire = "applied",
                              !.counted = Cardinality(EffectiveApprovals(server))])
  /\ UNCHANGED <<store, late, flight, marks, drafts, hash, screen, repainted, settled, bounds>>

(* Mutant of Definitive: an unknown outcome takes the next key as well.    *)
DefinitiveAlways(outcome) == TRUE

(* settleHumanGateIntent advances only after a definitive outcome.         *)
Definitive(outcome) == outcome \in {"executed", "refused"}

(* Mutant of Unmarked: a decision whose outcome is unknown stays marked.   *)
UnmarkedIfDefinitive(w, outcome) ==
  IF w.intent.action \in Decisions /\ outcome # "unknown"
  THEN [marks EXCEPT ![w.tab][w.intent.candidate] = "none"] ELSE marks

(* confirmReviewDecided or rollbackReviewDecided.                          *)
Unmarked(w, outcome) ==
  IF w.intent.action \in Decisions THEN [marks EXCEPT ![w.tab][w.intent.candidate] = "none"]
  ELSE marks

(* Mutant of Released: a chain that stops before the decision keeps the    *)
(* form.                                                                   *)
ReleasedByDecision(w) ==
  IF w.posting = w.intent THEN [flight EXCEPT ![w.tab] = @ \ {Form(w.intent)}] ELSE flight

(* endGateFlight, whoever holds the form now.                              *)
Released(w) == [flight EXCEPT ![w.tab] = @ \ {Form(w.intent)}]

(* clearAdjustDraft, after a confirmed application.                        *)
Unparked(w, outcome) ==
  IF w.intent.action = "adjust" /\ outcome = "executed"
  THEN [drafts EXCEPT ![w.tab] = @ \ {w.intent.candidate}] ELSE drafts

(* The end of the chain: its finally, the report, the marks, the draft,    *)
(* and a navigation to the version the answer named or a repaint.          *)
End(n, outcome) ==
  LET w == writes[n] IN
  /\ Set(n, Over(w, outcome))
  /\ flight' = Released(w)
  /\ marks' = Unmarked(w, outcome)
  /\ drafts' = Unparked(w, outcome)
  /\ IF /\ outcome = "executed" /\ w.answer = "executed"
        /\ w.intent.action \in {"create", "reproduce", "adjust"}
     THEN paint(w.tab, "elsewhere")
     ELSE repaint(w.tab, w.page, <<n, "end">>)
  /\ UNCHANGED <<warmbly, recorded, bounds>>

(* What follows the readback, with no await before the end of the chain:   *)
(* the generation; a validation that is not confirmed ends the chain, one  *)
(* that is goes on to read the status.                                     *)
settleGateIntent(n, outcome) ==
  LET i == writes[n].posting IN
  /\ IF Definitive(outcome) THEN store' = [store EXCEPT ![i] = @ + 1] ELSE UNCHANGED store
  /\ settled' = IF outcome = "unknown" THEN settled ELSE [settled EXCEPT ![i] = @ + 1]
  /\ IF Main(n) \/ outcome # "executed"
     THEN End(n, outcome)
     ELSE /\ Set(n, [writes[n] EXCEPT !.step = "status"])
          /\ UNCHANGED <<warmbly, browser, recorded, bounds>>

(* The edge refuses (identity, group, shape) or Warmbly does: nothing is   *)
(* read back.                                                              *)
AnswerRefused(n) ==
  /\ Posted(n) /\ writes[n].wire = "sent"
  /\ settleGateIntent(n, "refused")

(* Any other answer is read back; the form is free already, unless the     *)
(* decision is still to be posted.                                         *)
Answered(n, answer) ==
  /\ Set(n, [OffTheWire(writes[n]) EXCEPT !.answer = answer, !.step = "readback"])
  /\ flight' = IF Main(n) THEN Released(writes[n]) ELSE flight
  /\ UNCHANGED <<store, receipts, server, marks, drafts, painted, history, bounds>>

AnswerExecuted(n) ==
  /\ Posted(n) /\ writes[n].wire = "applied"
  /\ Answered(n, "executed")
  /\ UNCHANGED late

(* The edge gives up after its timeout, Warmbly answers 5xx, or the        *)
(* connection of the browser breaks.                                       *)
AnswerUnknown(n) ==
  /\ Posted(n)
  /\ Answered(n, "unknown")
  /\ late' = IF writes[n].wire = "sent" THEN late \cup {Key(n)} ELSE late

(* Mutant of Confirms: what was answered 2xx needs no confirmation.        *)
ConfirmsAnswered(w) == w.answer = "executed"

(* What the resource, read now, confirms of a write.  Without a 2xx answer *)
(* nothing names the new version: a reproduction or an adjust then finds   *)
(* the version it started from, and a creation has nothing to look for.    *)
Confirms(w) ==
  LET i == w.posting IN
  /\ i.action \in Decisions => InForce(server[i.candidate], i.action)
  /\ i.action \in {"create", "reconcile"} => w.answer = "executed"
  /\ i.action = "reconcile" =>
       /\ w.counted = Cardinality(EffectiveApprovals(server))
       /\ \A c \in EffectiveApprovals(server) : server[c].scheduled

(* The read confirms, or does not, or fails, which is the same here.       *)
gateReadback(n) ==
  /\ n \in DOMAIN writes /\ writes[n].step = "readback"
  /\ \/ Confirms(writes[n]) /\ settleGateIntent(n, "executed")
     \/ settleGateIntent(n, "unknown")

(* readValidationStatus: the decision is posted if it reads VALID.         *)
Verified(n) ==
  /\ n \in DOMAIN writes /\ writes[n].step = "status"
  /\ server[writes[n].intent.candidate].validation = "VALID"
  /\ Set(n, Post(writes[n], writes[n].intent))
  /\ UNCHANGED <<store, warmbly, browser, history, bounds>>

(* It reads something else, or cannot be read.                             *)
NotVerified(n) ==
  /\ n \in DOMAIN writes /\ writes[n].step = "status"
  /\ End(n, "refused")
  /\ UNCHANGED <<store, settled>>

(* A reload: memory is gone, localStorage and what was posted are not.     *)
Reload(t) ==
  LET live == {n \in DOMAIN writes : writes[n].tab = t /\ writes[n].step # "done"} IN
  /\ moves < MaxMoves /\ moves' = moves + 1
  /\ writes' = [n \in DOMAIN writes |-> IF n \in live THEN Over(writes[n], "none")
                                                     ELSE writes[n]]
  /\ late' = late \cup {Key(n) : n \in {m \in live : Posted(m) /\ writes[m].wire = "sent"}}
  /\ flight' = [flight EXCEPT ![t] = {}]
  /\ marks' = [marks EXCEPT ![t] = [c \in Candidates |-> "none"]]
  /\ drafts' = [drafts EXCEPT ![t] = {}]
  /\ screen' = [screen EXCEPT ![t] = Loading(hash[t])]
  /\ reads' = [reads EXCEPT ![t] = {Read(hash[t], <<0, "url">>)}]
  /\ repainted' = repainted \ {t}
  /\ UNCHANGED <<store, receipts, server, hash, history, drifts, previews>>

-----------------------------------------------------------------------------
Answers(n) == AnswerExecuted(n) \/ AnswerRefused(n) \/ AnswerUnknown(n)
Chain(n) == Answers(n) \/ gateReadback(n) \/ Verified(n) \/ NotVerified(n)

Next ==
  \/ \E t \in Tabs, i \in Intents : Preview(t, i) \/ \E auto \in BOOLEAN : Submit(t, i, auto)
  \/ \E n \in Numbers : PostApplies(n) \/ Chain(n)
  \/ \E t \in Tabs : \E r \in reads[t] : PaintResolves(t, r) \/ PaintFails(t, r)
  \/ \E t \in Tabs : Reload(t) \/ \E page \in Pages : Navigate(t, page)
  \/ \E key \in late : LateApplies(key)
  \/ \E c \in Candidates : Drift(c)

Spec == Init /\ [][Next]_vars

(* The edge aborts every call to Warmbly after its timeout, and the reads  *)
(* of the shell end: a chain goes on.  Nothing makes Warmbly apply a write *)
(* or a paint arrive.                                                      *)
Fairness == \A n \in Numbers : WF_vars(Chain(n))
FairSpec == Spec /\ Fairness

-----------------------------------------------------------------------------
Steps == {"post", "readback", "status", "done"}
Outcomes == {"none", "executed", "refused", "unknown"}
Seen == [Candidates -> QueueStates]

(* The tables and the memory of the tabs have their types; a write that is *)
(* on its way has the generation its intent had when it was posted, or an  *)
(* older one, never one that was not given out yet; an intent has at most  *)
(* one generation more for each form that was submitted.                   *)
TypeOK ==
  /\ store \in [Intents -> Generations]
  /\ \A n \in DOMAIN writes :
       LET w == writes[n] IN
       /\ w.tab \in Tabs /\ w.intent \in Intents /\ w.page \in Pages /\ w.step \in Steps
       /\ w.posting \in {w.intent, Validation(w.intent.candidate)} \cap Intents
       /\ w.generation \in 0..store[w.posting]
       /\ w.wire \in {"none", "sent", "applied"} /\ w.answer \in Outcomes /\ w.report \in Outcomes
       /\ w.counted \in 0..Cardinality(Candidates)
  /\ late \subseteq Intents \X Generations /\ receipts \subseteq Intents \X Generations
  /\ server \in [Candidates -> [validation : {"NONE", "VALID", "RISKY"},
                                decision : {"NONE"} \cup Decisions,
                                effective : BOOLEAN, scheduled : BOOLEAN]]
  /\ flight \in [Tabs -> SUBSET Intents]
  /\ marks \in [Tabs -> [Candidates -> {"none", "aprovado", "ajuste"}]]
  /\ drafts \in [Tabs -> SUBSET Candidates]
  /\ hash \in [Tabs -> Pages]
  /\ screen \in [Tabs -> [page : Pages, ready : BOOLEAN, shown : Seen]]
  /\ \A t \in Tabs : \A r \in reads[t] :
       /\ r.page \in Pages /\ r.seen \subseteq Seen
       /\ r.by \in {<<0, "url">>} \cup Numbers \X {"start", "end", "preview"}

(* A candidate is marked as decided by this browser only while a chain of  *)
(* this tab is deciding it (review-queue.ts:12), and a form is claimed     *)
(* only while a chain of it is under way: whatever the answer, the         *)
(* readback, a reload or a second form on the same candidate.              *)
MarksAreTemporary ==
  \A t \in Tabs :
    /\ \A c \in Candidates : marks[t][c] # "none" =>
         \E n \in DOMAIN writes : /\ writes[n].tab = t /\ writes[n].step # "done"
                                  /\ writes[n].intent.candidate = c
    /\ \A form \in flight[t] :
         \E n \in DOMAIN writes : /\ writes[n].tab = t /\ writes[n].step # "done"
                                  /\ Form(writes[n].intent) = form

(* Retries, tabs, reloads and lost answers included, an intent has at most *)
(* one effect at Warmbly more than it was definitively settled.            *)
EffectsAreSettled ==
  \A i \in Intents : Cardinality({k \in receipts : k[1] = i}) <= 1 + settled[i]

(* A decision that is reported as applied was in force at Warmbly, with    *)
(* its schedule, at some moment since its form was sent: neither a 2xx nor *)
(* an older screen is taken for it.                                        *)
ReportedDecisionsAreReal ==
  \A n \in DOMAIN writes :
    writes[n].intent.action \in Decisions /\ writes[n].report = "executed" => n \in recorded

(* In a tab that no form has repainted since it was loaded, by a preview   *)
(* or by the start or the end of a chain, the screen shows the URL, however *)
(* the reads of its navigations overtake each other and whatever its forms *)
(* did before a reload.                                                    *)
UrlIsShown == \A t \in Tabs \ repainted : screen[t].page = hash[t]

(* No form stays claimed by a chain that is over.                          *)
EveryFormIsReleased == \A t \in Tabs, i \in Intents : []<>(Form(i) \notin flight[t])

(* "retaining the same idempotency key is what lets a later retry          *)
(* reconcile the original write instead of creating a second intent"       *)
(* (control-center/apps/web-shell/src/app.ts:1125): the retries of a form  *)
(* that was never reported as applied have one effect.                     *)
UncertainIntentAppliesOnce ==
  \A i \in Intents :
    (\A n \in DOMAIN writes : writes[n].report # "executed")
      => Cardinality({k \in receipts : k[1] = i}) <= 1

=============================================================================
