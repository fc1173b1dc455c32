------------------------- MODULE WorkOrderReplayLemmas -------------------------
(***************************************************************************)
(* What replayWorkOrder computes, for streams of every length: replaying a *)
(* stream with one more event is one more step of the replay.              *)
(***************************************************************************)
EXTENDS WorkOrderStore, WellFoundedInduction, TLAPS

(* Induction over the naturals for a set, from the least counterexample.   *)
LEMMA SetInduction ==
  ASSUME NEW S, 0 \in S, \A n \in Nat : n \in S => n + 1 \in S
  PROVE  \A n \in Nat : n \in S
<1> DEFINE T == {n \in Nat : n \notin S}
<1> DEFINE R == OpToRel(<, Nat)
<1>1. SUFFICES ASSUME T # {} PROVE FALSE
  OBVIOUS
<1>2. PICK x \in T : \A y \in T : ~(<<y, x>> \in R)
  <2>1. IsWellFoundedOn(R, Nat)
    BY NatLessThanWellFounded
  <2>2. T \subseteq Nat
    OBVIOUS
  <2> HIDE DEF T, R
  <2>3. QED
    BY <1>1, <2>1, <2>2, WFMin
<1>3. x \in Nat \ {0} /\ x - 1 \in Nat
  OBVIOUS
<1>4. <<x - 1, x>> \in R
  BY <1>3 DEF OpToRel
<1>5. x - 1 \in S
  BY <1>2, <1>3, <1>4
<1>6. QED
  BY <1>3, <1>5

(* f records the replay of the first k events of the stream.               *)
IsTrace(stream, k, f) ==
  f = [n \in 0..k |-> IF n = 0 THEN NoRow ELSE ReplayStep(stream, f[n - 1], n)]

(* The replay of every prefix exists.                                      *)
LEMMA TraceExists ==
  ASSUME NEW stream, NEW k \in Nat
  PROVE  \E f : IsTrace(stream, k, f)
<1> DEFINE S == {n \in Nat : \E f : IsTrace(stream, n, f)}
<1>1. 0 \in S
  <2> DEFINE f == [n \in 0..0 |-> NoRow]
  <2>1. IsTrace(stream, 0, f)
    BY DEF IsTrace
  <2>2. QED
    BY <2>1
<1>2. ASSUME NEW n \in Nat, n \in S PROVE n + 1 \in S
  <2>1. PICK f : IsTrace(stream, n, f)
    BY <1>2
  <2> DEFINE last == ReplayStep(stream, f[n], n + 1)
             g == [i \in 0..(n + 1) |-> IF i = n + 1 THEN last ELSE f[i]]
  <2> HIDE DEF last
  <2>2. \A i \in 0..n : g[i] = f[i] /\ f[i] = IF i = 0 THEN NoRow ELSE ReplayStep(stream, f[i - 1], i)
    <3>1. f = [i \in 0..n |-> IF i = 0 THEN NoRow ELSE ReplayStep(stream, f[i - 1], i)]
      BY <2>1 DEF IsTrace
    <3>2. QED
      BY <3>1
  <2>3. \A i \in 0..(n + 1) : g[i] = IF i = 0 THEN NoRow ELSE ReplayStep(stream, g[i - 1], i)
    <3>1. ASSUME NEW i \in 0..n PROVE g[i] = IF i = 0 THEN NoRow ELSE ReplayStep(stream, g[i - 1], i)
      <4>1. i # 0 => i - 1 \in 0..n
        OBVIOUS
      <4>2. QED
        BY <2>2, <4>1
    <3>2. g[n + 1] = ReplayStep(stream, g[n], n + 1)
      BY <2>2 DEF last
    <3>3. n + 1 # 0 /\ (n + 1) - 1 = n /\ \A i \in 0..(n + 1) : i \in 0..n \/ i = n + 1
      OBVIOUS
    <3> HIDE DEF g
    <3>4. QED
      BY <3>1, <3>2, <3>3
  <2>4. IsTrace(stream, n + 1, g)
    BY <2>3 DEF IsTrace
  <2> HIDE DEF g
  <2>5. QED
    BY <2>4
<1> HIDE DEF S
<1>3. \A n \in Nat : n \in S
  BY <1>1, <1>2, SetInduction
<1>4. QED
  BY <1>3 DEF S

(* ReplayTrace is the replay of the whole stream.                          *)
LEMMA TraceIsTrace ==
  ASSUME NEW stream, Len(stream) \in Nat
  PROVE  IsTrace(stream, Len(stream), ReplayTrace(stream))
BY TraceExists DEF IsTrace, ReplayTrace

(* Two streams with the same first k events.                               *)
SamePrefix(s, t, k) == \A i \in 1..k : s[i] = t[i]

(* Streams that agree on their first k events have the same replay of them.*)
LEMMA TraceAgree ==
  ASSUME NEW s, NEW t, NEW k \in Nat, NEW f, NEW g,
         IsTrace(s, k, f), IsTrace(t, k + 1, g), SamePrefix(s, t, k)
  PROVE  \A n \in 0..k : f[n] = g[n]
<1> DEFINE S == {n \in Nat : n <= k => f[n] = g[n]}
<1>0. /\ \A n \in 0..k : f[n] = IF n = 0 THEN NoRow ELSE ReplayStep(s, f[n - 1], n)
      /\ \A n \in 0..k : g[n] = IF n = 0 THEN NoRow ELSE ReplayStep(t, g[n - 1], n)
  <2>1. f = [n \in 0..k |-> IF n = 0 THEN NoRow ELSE ReplayStep(s, f[n - 1], n)]
    BY DEF IsTrace
  <2>2. g = [n \in 0..(k + 1) |-> IF n = 0 THEN NoRow ELSE ReplayStep(t, g[n - 1], n)]
    BY DEF IsTrace
  <2>3. \A n \in 0..k : n \in 0..(k + 1)
    OBVIOUS
  <2>4. QED
    BY <2>1, <2>2, <2>3
<1>1. 0 \in S
  BY <1>0
<1>2. ASSUME NEW n \in Nat, n \in S PROVE n + 1 \in S
  <2> SUFFICES ASSUME n + 1 <= k PROVE f[n + 1] = g[n + 1]
    OBVIOUS
  <2>1. f[n] = g[n]
    BY <1>2
  <2>2. ReplayStep(s, f[n], n + 1) = ReplayStep(t, f[n], n + 1)
    BY DEF ReplayStep, SamePrefix
  <2>3. QED
    BY <1>0, <2>1, <2>2
<1> HIDE DEF S
<1>3. \A n \in Nat : n \in S
  BY <1>1, <1>2, SetInduction
<1>4. QED
  BY <1>3 DEF S

(* rebuildWorkOrderProjection after one more event: the event is applied   *)
(* to what the stream without it replays to.                               *)
LEMMA ReplayAppend ==
  ASSUME NEW s \in Seq(StoredEvent), NEW e \in StoredEvent,
         \A n \in DOMAIN s : s[n].key # e.key,
         ReplayWorkOrder(s) = NoRow <=> s = <<>>,
         Applicable(ReplayWorkOrder(s), e)
  PROVE  ReplayWorkOrder(Append(s, e)) = Derive(ReplayWorkOrder(s), e)
<1> DEFINE t == Append(s, e)
           k == Len(s)
<1>1. /\ k \in Nat /\ Len(t) = k + 1 /\ t[k + 1] = e
      /\ \A i \in 1..k : s[i] = t[i] /\ s[i].key # e.key
  OBVIOUS
<1>2. IsTrace(s, k, ReplayTrace(s)) /\ IsTrace(t, k + 1, ReplayTrace(t))
  <2>1. IsTrace(s, Len(s), ReplayTrace(s))
    BY <1>1, TraceIsTrace
  <2>2. Len(t) \in Nat
    BY <1>1
  <2> HIDE DEF t
  <2>3. IsTrace(t, Len(t), ReplayTrace(t))
    BY <2>2, TraceIsTrace
  <2>4. QED
    BY <1>1, <2>1, <2>3
<1>3. ReplayTrace(t)[k] = ReplayWorkOrder(s)
  <2>1. \A n \in 0..k : ReplayTrace(s)[n] = ReplayTrace(t)[n]
    <3>1. k \in Nat /\ SamePrefix(s, t, k)
      BY <1>1 DEF SamePrefix
    <3> HIDE DEF t, k
    <3>2. QED
      BY <1>2, <3>1, TraceAgree
  <2>2. QED
    BY <1>1, <2>1 DEF ReplayWorkOrder
<1>4. ReplayTrace(t)[k + 1] = ReplayStep(t, ReplayWorkOrder(s), k + 1)
  <2>1. ReplayTrace(t) = [n \in 0..(k + 1) |-> IF n = 0 THEN NoRow ELSE ReplayStep(t, ReplayTrace(t)[n - 1], n)]
    BY <1>2 DEF IsTrace
  <2> HIDE DEF t, k
  <2>2. QED
    BY <1>1, <1>3, <2>1
<1>5. ReplayWorkOrder(s) = NoRow <=> k + 1 = 1
  BY <1>1
<1>6. ReplayStep(t, ReplayWorkOrder(s), k + 1) = Derive(ReplayWorkOrder(s), e)
  <2> HIDE DEF t, k
  <2>1. \A m \in 1..(k + 1 - 1) : t[m].key # e.key /\ t[m] # e
    BY <1>1
  <2>2. QED
    BY <1>1, <1>5, <2>1 DEF ReplayStep
<1>7. QED
  BY <1>1, <1>4, <1>6 DEF ReplayWorkOrder

(* An empty stream replays to no order.                                    *)
LEMMA ReplayEmpty == ReplayWorkOrder(<<>>) = NoRow
<1>1. IsTrace(<<>>, 0, ReplayTrace(<<>>))
  BY TraceIsTrace
<1>2. ReplayTrace(<<>>) = [n \in 0..0 |-> IF n = 0 THEN NoRow ELSE ReplayStep(<<>>, ReplayTrace(<<>>)[n - 1], n)]
  BY <1>1 DEF IsTrace
<1>3. QED
  BY <1>2 DEF ReplayWorkOrder

=============================================================================
