-------------------- MODULE KalshiReadReconciliationProofs --------------------
(***************************************************************************)
(* Proofs about the read reconciliation: for any number of callers,        *)
(* intents, provider orders and attempts, whatever the venue does between  *)
(* a read and the write that follows from it, an intent's log is whole,    *)
(* unique evidence of one order, and calls of one attempt agree.           *)
(*                                                                         *)
(* The argument is about one log and what appending to it preserves; the   *)
(* loop over the observed fills is followed by a least counterexample.     *)
(***************************************************************************)
EXTENDS KalshiReadReconciliation, SequenceTheorems, WellFoundedInduction, TLAPS

-----------------------------------------------------------------------------
(* The inductive invariant *)

(* What the ledger's callers write *)
Evidence(e) ==
    \/ e = IntentRecorded \/ e = SubmissionStarted
    \/ \E s \in Snapshots : e = Acknowledged(s) \/ e = OrderObserved(s)
    \/ \E o \in Orders : \E k \in 1..Quantity : e = FillObserved(o, k)
    \/ \E a \in Attempts : \E x \in Outcomes : e = AttemptRecorded(a, x)

(* An intent's log l and its acknowledgement a *)
Unique(l) == \A j, k \in DOMAIN l : SameKey(l[j], l[k]) => j = k
AcknowledgedOnce(l, a) ==
    /\ \A k \in DOMAIN l : l[k].kind = "acknowledged" => a # None /\ l[k] = Acknowledged(a)
    /\ a # None => a \in Snapshots /\ \E k \in DOMAIN l : l[k] = Acknowledged(a)
Named(l, a) ==
    \A k \in DOMAIN l : l[k].order # None =>
        /\ a # None /\ l[k].order = a.order
        /\ \E j \in 1..k : l[j] = Acknowledged(a)
Backed(l, k) ==
    /\ \A n \in 1..l[k].outcome.fills : \E j \in 1..(k - 1) : l[j] = FillObserved(l[k].outcome.order, n)
    /\ \E j \in 1..(k - 1) : l[j].kind = "order" /\ Status(l[j].snapshot) = l[k].outcome.status
Whole(l) == \A k \in DOMAIN l : l[k].kind = "attempt" /\ l[k].outcome.found => Backed(l, k)
Remembers(l) ==
    \A k \in DOMAIN l : l[k].kind = "attempt" /\ ~l[k].outcome.found =>
        (l[k].outcome.order # None <=> \E j \in 1..(k - 1) : l[j].kind = "acknowledged")

GoodLog(l, a) ==
    /\ l \in Seq(Events) /\ \A k \in DOMAIN l : Evidence(l[k])
    /\ Unique(l) /\ AcknowledgedOnce(l, a) /\ Named(l, a) /\ Whole(l) /\ Remembers(l)

(* What a caller may rely on where it is *)
CallKnows(c) ==
    /\ call[c].pc # "idle" => call[c].intent \in Intents /\ call[c].attempt \in Attempts
    /\ call[c].pc \in {"fills", "matched", "write"} => call[c].order \in Snapshots
    /\ call[c].pc = "fills" => venue[call[c].order.order] # None
    /\ call[c].pc = "write" /\ ~call[c].fresh =>
          ack[call[c].intent] # None /\ ack[call[c].intent].order = call[c].order.order

Answered ==
    \A i \in Intents, a \in Attempts : \A x \in answers[<<i, a>>] :
        \E k \in DOMAIN log[i] : log[i][k] = AttemptRecorded(a, x)

VenueHolds == \A o \in Orders : venue[o] # None => venue[o].filled + venue[o].remaining <= Quantity

Inv ==
    /\ TypeOK /\ log \in [Intents -> Seq(Events)]
    /\ \A i \in Intents : GoodLog(log[i], ack[i])
    /\ \A c \in Callers : CallKnows(c)
    /\ Answered /\ VenueHolds

-----------------------------------------------------------------------------
(* Evidence *)
LEMMA EvidenceShape ==
  ASSUME NEW e, Evidence(e)
  PROVE  /\ e \in Events
         /\ e.kind = "attempt" => e.attempt \in Attempts /\ e.outcome \in Outcomes /\ e = AttemptRecorded(e.attempt, e.outcome)
         /\ e.kind # "attempt" => e.attempt = None
         /\ e.kind = "acknowledged" => e.snapshot \in Snapshots /\ e = Acknowledged(e.snapshot)
<1>1. CASE e = IntentRecorded \/ e = SubmissionStarted
  BY <1>1 DEF IntentRecorded, SubmissionStarted, Event, Events, Kinds
<1>2. ASSUME NEW s \in Snapshots, e = Acknowledged(s) \/ e = OrderObserved(s)
      PROVE  /\ e \in Events /\ e.kind # "attempt" /\ e.attempt = None
             /\ e.kind = "acknowledged" => e.snapshot \in Snapshots /\ e = Acknowledged(e.snapshot)
  BY <1>2 DEF Acknowledged, OrderObserved, Event, Events, Kinds, Snapshots
<1>3. ASSUME NEW o \in Orders, NEW k \in 1..Quantity, e = FillObserved(o, k)
      PROVE  e \in Events /\ e.kind = "fill" /\ e.attempt = None
  BY <1>3 DEF FillObserved, Event, Events, Kinds
<1>4. ASSUME NEW a \in Attempts, NEW x \in Outcomes, e = AttemptRecorded(a, x)
      PROVE  e \in Events /\ e.kind = "attempt" /\ e.attempt = a /\ e.outcome = x
  BY <1>4 DEF AttemptRecorded, Event, Events, Kinds, Outcomes
<1>. QED
  BY <1>1, <1>2, <1>3, <1>4 DEF Evidence, IntentRecorded, SubmissionStarted, Event

(* A key names one piece of evidence, except that of an attempt. *)
LEMMA KeyIsEvidence ==
  ASSUME NEW e, NEW f, Evidence(e), Evidence(f), SameKey(e, f), e.kind # "attempt"
  PROVE  e = f
BY DEF Evidence, SameKey, IntentRecorded, SubmissionStarted, Acknowledged, OrderObserved, FillObserved,
   AttemptRecorded, Event

-----------------------------------------------------------------------------
(* One event more *)
LEMMA Appended ==
  ASSUME NEW l \in Seq(Events), NEW e \in Events
  PROVE  /\ Append(l, e) \in Seq(Events) /\ Len(Append(l, e)) = Len(l) + 1 /\ Len(l) \in Nat
         /\ DOMAIN Append(l, e) = 1..(Len(l) + 1) /\ DOMAIN l = 1..Len(l)
         /\ \A k \in DOMAIN l : Append(l, e)[k] = l[k]
         /\ Append(l, e)[Len(l) + 1] = e
BY AppendProperties, LenProperties

(* What must hold for e to be appended to the log *)
Fitting(l, a, e) ==
    /\ Evidence(e) /\ ~Recorded(l, e)
    /\ e.kind # "acknowledged"
    /\ e.order # None => a # None /\ e.order = a.order
    /\ e.kind = "attempt" /\ e.outcome.found =>
          /\ \A n \in 1..e.outcome.fills : \E j \in DOMAIN l : l[j] = FillObserved(e.outcome.order, n)
          /\ \E j \in DOMAIN l : l[j].kind = "order" /\ Status(l[j].snapshot) = e.outcome.status
    /\ e.kind = "attempt" /\ ~e.outcome.found => (e.outcome.order # None <=> a # None)

LEMMA SameKeySymmetric ==
  ASSUME NEW e, NEW f, SameKey(e, f)
  PROVE  SameKey(f, e)
BY DEF SameKey

LEMMA UniqueAppend ==
  ASSUME NEW l \in Seq(Events), NEW e \in Events, Unique(l), ~Recorded(l, e)
  PROVE  Unique(Append(l, e))
<1>. DEFINE m == Append(l, e)
<1>1. /\ DOMAIN m = 1..(Len(l) + 1) /\ DOMAIN l = 1..Len(l) /\ Len(l) \in Nat
      /\ (\A k \in DOMAIN l : m[k] = l[k]) /\ m[Len(l) + 1] = e
  BY Appended
<1>. HIDE DEF m
<1>2. ASSUME NEW j \in DOMAIN m, NEW k \in DOMAIN m, SameKey(m[j], m[k]) PROVE j = k
  <2>1. CASE j \in DOMAIN l /\ k \in DOMAIN l
    BY <1>1, <1>2, <2>1 DEF Unique
  <2>2. CASE j \in DOMAIN l /\ k \notin DOMAIN l
    BY <1>1, <1>2, <2>2 DEF Recorded
  <2>3. CASE j \notin DOMAIN l /\ k \in DOMAIN l
    BY <1>1, <1>2, <2>3, SameKeySymmetric DEF Recorded
  <2>4. CASE j \notin DOMAIN l /\ k \notin DOMAIN l
    BY <1>1, <2>4
  <2>. QED
    BY <2>1, <2>2, <2>3, <2>4
<1>. QED
  BY <1>2 DEF Unique, m

LEMMA AppendKeepsGood ==
  ASSUME NEW l, NEW a, NEW e, GoodLog(l, a), Fitting(l, a, e)
  PROVE  GoodLog(Append(l, e), a)
<1>. DEFINE m == Append(l, e)
            n == Len(l)
<1>1. l \in Seq(Events) /\ e \in Events /\ Evidence(e) /\ ~Recorded(l, e)
  BY EvidenceShape DEF GoodLog, Fitting
<1>2. /\ m \in Seq(Events) /\ DOMAIN m = 1..(n + 1) /\ DOMAIN l = 1..n /\ n \in Nat
      /\ (\A k \in DOMAIN l : m[k] = l[k]) /\ m[n + 1] = e
  BY <1>1, Appended
<1>3. Unique(m)
  BY <1>1, UniqueAppend DEF GoodLog
<1>. HIDE DEF m, n
<1>4. \A k \in DOMAIN m : k \in DOMAIN l \/ k = n + 1
  BY <1>2
<1>5. \A k \in DOMAIN m : Evidence(m[k])
  BY <1>1, <1>2, <1>4 DEF GoodLog
<1>6. AcknowledgedOnce(m, a)
  <2>1. \A k \in DOMAIN m : m[k].kind = "acknowledged" => k \in DOMAIN l
    BY <1>2, <1>4 DEF Fitting
  <2>2. \A k \in DOMAIN l : k \in DOMAIN m
    BY <1>2
  <2>. QED
    BY <1>2, <2>1, <2>2 DEF GoodLog, AcknowledgedOnce
<1>7. ASSUME NEW k \in DOMAIN l, NEW j \in 1..k PROVE j \in DOMAIN l /\ m[j] = l[j]
  BY <1>2
<1>8. Named(m, a)
  <2>1. ASSUME NEW k \in DOMAIN l, m[k].order # None
        PROVE  a # None /\ m[k].order = a.order /\ \E j \in 1..k : m[j] = Acknowledged(a)
    <3>1. l[k].order # None /\ m[k] = l[k]
      BY <1>2, <2>1
    <3>2. a # None /\ l[k].order = a.order /\ \E j \in 1..k : l[j] = Acknowledged(a)
      BY <3>1 DEF GoodLog, Named
    <3>. QED
      BY <1>7, <3>1, <3>2
  <2>2. ASSUME e.order # None
        PROVE  a # None /\ e.order = a.order /\ \E j \in 1..(n + 1) : m[j] = Acknowledged(a)
    <3>1. a # None /\ e.order = a.order
      BY <2>2 DEF Fitting
    <3>2. PICK j \in DOMAIN l : l[j] = Acknowledged(a)
      BY <3>1 DEF GoodLog, AcknowledgedOnce
    <3>3. j \in 1..(n + 1) /\ m[j] = Acknowledged(a)
      BY <1>2, <3>2
    <3>. QED
      BY <3>1, <3>3
  <2>. QED
    BY <1>2, <1>4, <2>1, <2>2 DEF Named
<1>9. Whole(m)
  <2>1. ASSUME NEW k \in DOMAIN l, m[k].kind = "attempt", m[k].outcome.found PROVE Backed(m, k)
    <3>1. Backed(l, k) /\ m[k] = l[k]
      BY <1>2, <2>1 DEF GoodLog, Whole
    <3>2. \A j \in 1..(k - 1) : m[j] = l[j]
      BY <1>2
    <3>. QED
      BY <3>1, <3>2 DEF Backed
  <2>2. ASSUME e.kind = "attempt", e.outcome.found PROVE Backed(m, n + 1)
    <3>1. /\ \A f \in 1..e.outcome.fills : \E j \in DOMAIN l : l[j] = FillObserved(e.outcome.order, f)
          /\ \E j \in DOMAIN l : l[j].kind = "order" /\ Status(l[j].snapshot) = e.outcome.status
      BY <2>2 DEF Fitting
    <3>2. \A j \in DOMAIN l : j \in 1..((n + 1) - 1) /\ m[j] = l[j]
      BY <1>2
    <3>. QED
      BY <1>2, <3>1, <3>2 DEF Backed
  <2>. QED
    BY <1>2, <1>4, <2>1, <2>2 DEF Whole
<1>10. Remembers(m)
  <2>1. ASSUME NEW k \in DOMAIN l, m[k].kind = "attempt", ~m[k].outcome.found
        PROVE  m[k].outcome.order # None <=> \E j \in 1..(k - 1) : m[j].kind = "acknowledged"
    <3>1. \A j \in 1..(k - 1) : m[j] = l[j]
      BY <1>2
    <3>. QED
      BY <1>2, <2>1, <3>1 DEF GoodLog, Remembers
  <2>2. ASSUME e.kind = "attempt", ~e.outcome.found
        PROVE  e.outcome.order # None <=> \E j \in 1..((n + 1) - 1) : m[j].kind = "acknowledged"
    <3>1. e.outcome.order # None <=> a # None
      BY <2>2 DEF Fitting
    <3>2. a # None <=> \E j \in DOMAIN l : l[j].kind = "acknowledged"
      <4>1. Acknowledged(a).kind = "acknowledged"
        BY DEF Acknowledged, Event
      <4>. QED
        BY <4>1 DEF GoodLog, AcknowledgedOnce
    <3>3. DOMAIN l = 1..((n + 1) - 1) /\ \A j \in DOMAIN l : m[j] = l[j]
      BY <1>2
    <3>. QED
      BY <3>1, <3>2, <3>3
  <2>. QED
    BY <1>2, <1>4, <2>1, <2>2 DEF Remembers
<1>11. GoodLog(m, a)
  BY <1>2, <1>3, <1>5, <1>6, <1>8, <1>9, <1>10 DEF GoodLog
<1>. QED
  BY <1>11 DEF m

(* The acknowledgement is the first evidence that names an order. *)
LEMMA AcknowledgementKeepsGood ==
  ASSUME NEW l, NEW s \in Snapshots, GoodLog(l, None)
  PROVE  GoodLog(Append(l, Acknowledged(s)), s)
<1>. DEFINE e == Acknowledged(s)
            m == Append(l, e)
            n == Len(l)
<1>1. Evidence(e) /\ e.kind = "acknowledged" /\ e.order = s.order
  BY DEF Evidence, Acknowledged, Event
<1>2. l \in Seq(Events) /\ e \in Events
  BY <1>1, EvidenceShape DEF GoodLog
<1>3. s # None
  BY SnapshotsAssumption
<1>4. \A k \in DOMAIN l : l[k].kind # "acknowledged" /\ l[k].order = None
  BY DEF GoodLog, AcknowledgedOnce, Named
<1>5. /\ m \in Seq(Events) /\ DOMAIN m = 1..(n + 1) /\ DOMAIN l = 1..n /\ n \in Nat
      /\ (\A k \in DOMAIN l : m[k] = l[k]) /\ m[n + 1] = e
  BY <1>2, Appended
<1>6. ~Recorded(l, e)
  BY <1>1, <1>4 DEF Recorded, SameKey
<1>7. Unique(m)
  BY <1>2, <1>6, UniqueAppend DEF GoodLog
<1>. HIDE DEF m, n
<1>8. \A k \in DOMAIN m : k \in DOMAIN l \/ k = n + 1
  BY <1>5
<1>9. \A k \in DOMAIN m : Evidence(m[k])
  BY <1>1, <1>5, <1>8 DEF GoodLog
<1>10. AcknowledgedOnce(m, s)
  BY <1>3, <1>4, <1>5, <1>8 DEF AcknowledgedOnce
<1>11. Named(m, s)
  BY <1>1, <1>3, <1>4, <1>5, <1>8 DEF Named
<1>12. Whole(m)
  <2>1. ASSUME NEW k \in DOMAIN l, m[k].kind = "attempt", m[k].outcome.found PROVE Backed(m, k)
    <3>1. Backed(l, k) /\ m[k] = l[k]
      BY <1>5, <2>1 DEF GoodLog, Whole
    <3>2. \A j \in 1..(k - 1) : m[j] = l[j]
      BY <1>5
    <3>. QED
      BY <3>1, <3>2 DEF Backed
  <2>. QED
    BY <1>1, <1>5, <1>8, <2>1 DEF Whole
<1>13. Remembers(m)
  <2>1. ASSUME NEW k \in DOMAIN l, m[k].kind = "attempt", ~m[k].outcome.found
        PROVE  m[k].outcome.order # None <=> \E j \in 1..(k - 1) : m[j].kind = "acknowledged"
    <3>1. \A j \in 1..(k - 1) : m[j] = l[j]
      BY <1>5
    <3>. QED
      BY <1>5, <2>1, <3>1 DEF GoodLog, Remembers
  <2>. QED
    BY <1>1, <1>5, <1>8, <2>1 DEF Remembers
<1>14. GoodLog(m, s)
  BY <1>5, <1>7, <1>9, <1>10, <1>11, <1>12, <1>13 DEF GoodLog
<1>. QED
  BY <1>14 DEF m

-----------------------------------------------------------------------------
(* record_event: what was there stays where it was, and the key is taken.    *)
Extends(l, m) == Len(l) <= Len(m) /\ \A k \in DOMAIN l : k \in DOMAIN m /\ m[k] = l[k]

LEMMA ExtendsTransitive ==
  ASSUME NEW l \in Seq(Events), NEW m \in Seq(Events), NEW q \in Seq(Events), Extends(l, m), Extends(m, q)
  PROVE  Extends(l, q)
BY DEF Extends

LEMMA AppendExtends ==
  ASSUME NEW l \in Seq(Events), NEW e \in Events
  PROVE  Extends(l, Append(l, e)) /\ Append(l, e) # <<>>
<1>. DEFINE m == Append(l, e)
<1>1. /\ Len(m) = Len(l) + 1 /\ Len(l) \in Nat
      /\ DOMAIN m = 1..(Len(l) + 1) /\ DOMAIN l = 1..Len(l) /\ \A k \in DOMAIN l : m[k] = l[k]
  BY Appended
<1>2. m # <<>>
  BY <1>1
<1>. HIDE DEF m
<1>3. Extends(l, m)
  BY <1>1 DEF Extends
<1>. QED
  BY <1>2, <1>3 DEF m

LEMMA WithEventGood ==
  ASSUME NEW l, NEW a, NEW e, GoodLog(l, a), Evidence(e), ~Recorded(l, e) => Fitting(l, a, e)
  PROVE  /\ GoodLog(WithEvent(l, e), a) /\ Extends(l, WithEvent(l, e))
         /\ \E k \in DOMAIN WithEvent(l, e) : SameKey(WithEvent(l, e)[k], e)
         /\ \A k \in DOMAIN WithEvent(l, e) : k \in DOMAIN l \/ WithEvent(l, e)[k] = e
<1>1. l \in Seq(Events) /\ e \in Events /\ SameKey(e, e)
  BY EvidenceShape DEF GoodLog, SameKey
<1>2. CASE Recorded(l, e)
  <2>1. WithEvent(l, e) = l
    BY <1>2 DEF WithEvent
  <2>2. Extends(l, l)
    BY <1>1 DEF Extends
  <2>. QED
    BY <1>2, <2>1, <2>2 DEF Recorded
<1>3. CASE ~Recorded(l, e)
  <2>. DEFINE m == Append(l, e)
  <2>1. WithEvent(l, e) = m
    BY <1>3 DEF WithEvent
  <2>2. GoodLog(m, a) /\ Extends(l, m)
    BY <1>1, <1>3, AppendKeepsGood, AppendExtends
  <2>3. DOMAIN m = 1..(Len(l) + 1) /\ DOMAIN l = 1..Len(l) /\ Len(l) \in Nat /\ m[Len(l) + 1] = e
    BY <1>1, Appended
  <2>. HIDE DEF m
  <2>4. Len(l) + 1 \in DOMAIN m /\ \A k \in DOMAIN m : k \in DOMAIN l \/ k = Len(l) + 1
    BY <2>3
  <2>. QED
    BY <1>1, <2>1, <2>2, <2>3, <2>4
<1>. QED
  BY <1>2, <1>3

(* Evidence other than an attempt is in the log once its key is. *)
LEMMA WithEventHas ==
  ASSUME NEW l, NEW a, NEW e, GoodLog(l, a), Evidence(e), ~Recorded(l, e) => Fitting(l, a, e), e.kind # "attempt"
  PROVE  GoodLog(WithEvent(l, e), a) /\ \E k \in DOMAIN WithEvent(l, e) : WithEvent(l, e)[k] = e
<1>. DEFINE m == WithEvent(l, e)
<1>1. GoodLog(m, a) /\ \E k \in DOMAIN m : SameKey(m[k], e)
  BY WithEventGood
<1>. HIDE DEF m
<1>2. PICK k \in DOMAIN m : SameKey(m[k], e)
  BY <1>1
<1>3. Evidence(m[k]) /\ m[k].kind # "attempt"
  BY <1>1, <1>2 DEF GoodLog, SameKey
<1>4. m[k] = e
  BY <1>2, <1>3, KeyIsEvidence
<1>. QED
  BY <1>1, <1>4 DEF m

-----------------------------------------------------------------------------
(* The loop over several events *)
LEMMA LeastNatural ==
  ASSUME NEW N \in SUBSET Nat, N # {}
  PROVE  \E m \in N : \A k \in N : m <= k
<1>. DEFINE R == {ss \in Nat \X Nat : ss[1] < ss[2]}
<1>1. IsWellFoundedOn(R, Nat)
  BY NatLessThanWellFounded DEF OpToRel
<1>2. \A k, m \in Nat : <<k, m>> \in R <=> k < m
  OBVIOUS
<1>. HIDE DEF R
<1>3. PICK m \in N : \A k \in N : ~(<<k, m>> \in R)
  BY <1>1, WFMin
<1>4. ASSUME NEW k \in N PROVE m <= k
  <2>1. k \in Nat /\ m \in Nat
    OBVIOUS
  <2>2. ~(k < m)
    BY <1>2, <1>3, <2>1
  <2>. QED
    BY <2>1, <2>2
<1>. QED
  BY <1>4

Step(F, l, es, k) == IF k = 0 THEN l ELSE WithEvent(F[k - 1], es[k])
Loop(F, l, es, n) == F = [k \in 0..n |-> Step(F, l, es, k)]

LEMMA LoopUnfolds ==
  ASSUME NEW l, NEW es
  PROVE  WithEvents(l, es) = (CHOOSE F : Loop(F, l, es, Len(es)))[Len(es)]
BY DEF WithEvents, Loop, Step

LEMMA LoopExists ==
  ASSUME NEW l, NEW es, NEW n \in Nat
  PROVE  \E F : Loop(F, l, es, n)
<1>. DEFINE N == {k \in Nat : ~ \E F : Loop(F, l, es, k)}
<1>1. ASSUME N # {} PROVE FALSE
  <2>1. PICK k \in N : \A j \in N : k <= j
    <3>. HIDE DEF N
    <3>1. N \in SUBSET Nat
      BY DEF N
    <3>. QED
      BY <1>1, <3>1, LeastNatural
  <2>2. k \in Nat /\ ~ \E F : Loop(F, l, es, k)
    OBVIOUS
  <2>3. CASE k = 0
    <3>. DEFINE F == [j \in 0..0 |-> l]
    <3>1. Loop(F, l, es, 0)
      BY DEF Loop, Step
    <3>. QED
      BY <2>2, <2>3, <3>1
  <2>4. CASE k # 0
    <3>1. k - 1 \in Nat /\ k - 1 \notin N
      BY <2>1, <2>2, <2>4
    <3>2. PICK F : Loop(F, l, es, k - 1)
      BY <3>1
    <3>. DEFINE G == [j \in 0..k |-> IF j = k THEN WithEvent(F[k - 1], es[k]) ELSE F[j]]
    <3>3. \A j \in 0..(k - 1) : F[j] = Step(F, l, es, j)
      BY <3>2 DEF Loop
    <3>4. ASSUME NEW j \in 0..k PROVE G[j] = Step(G, l, es, j)
      <4>1. CASE j = k
        BY <2>2, <2>4, <4>1 DEF Step
      <4>2. CASE j # k
        <5>1. j \in 0..(k - 1) /\ (j # 0 => j - 1 \in 0..k /\ j - 1 # k)
          BY <2>2, <4>2
        <5>2. G[j] = F[j] /\ (j # 0 => G[j - 1] = F[j - 1])
          BY <4>2, <5>1
        <5>. QED
          BY <3>3, <5>1, <5>2 DEF Step
      <4>. QED
        BY <4>1, <4>2
    <3>5. Loop(G, l, es, k)
      BY <3>4 DEF Loop
    <3>. QED
      BY <2>2, <3>5
  <2>. QED
    BY <2>3, <2>4
<1>. QED
  BY <1>1

(* The fills of the acknowledged order, recorded one after the other *)
LEMMA FillsRecorded ==
  ASSUME NEW l, NEW a, GoodLog(l, a), a # None, NEW o \in Orders, a.order = o, NEW es \in Seq(Events),
         Len(es) <= Quantity, \A k \in 1..Len(es) : es[k] = FillObserved(o, k)
  PROVE  /\ GoodLog(WithEvents(l, es), a) /\ Extends(l, WithEvents(l, es))
         /\ \A k \in 1..Len(es) : \E j \in DOMAIN WithEvents(l, es) : WithEvents(l, es)[j] = FillObserved(o, k)
<1>. DEFINE n == Len(es)
            F == CHOOSE G : Loop(G, l, es, n)
            Has(m, k) == \E j \in DOMAIN m : m[j] = FillObserved(o, k)
            Good(k) == GoodLog(F[k], a) /\ Extends(l, F[k]) /\ \A j \in 1..k : Has(F[k], j)
            N == {k \in 0..n : ~Good(k)}
<1>1. n \in Nat /\ Quantity \in Nat
  BY LenProperties, LedgerAssumption
<1>2. Loop(F, l, es, n)
  BY <1>1, LoopExists
<1>3. WithEvents(l, es) = F[n]
  BY LoopUnfolds
<1>. HIDE DEF F
<1>4. \A k \in 0..n : F[k] = Step(F, l, es, k)
  BY <1>2 DEF Loop
<1>5. l \in Seq(Events) /\ Extends(l, l)
  BY DEF GoodLog, Extends
<1>6. ASSUME NEW k \in 1..n, Good(k - 1) PROVE Good(k)
  <2>. DEFINE e == FillObserved(o, k)
              m == F[k - 1]
  <2>1. k \in 1..Quantity /\ es[k] = e /\ k \in 0..n /\ k # 0
    BY <1>1
  <2>2. Evidence(e) /\ e.kind = "fill" /\ e.order = o
    BY <2>1 DEF Evidence, FillObserved, Event
  <2>3. F[k] = WithEvent(m, e)
    BY <1>4, <2>1 DEF Step
  <2>. HIDE DEF e
  <2>4. GoodLog(m, a) /\ Extends(l, m) /\ \A j \in 1..(k - 1) : Has(m, j)
    BY <1>6
  <2>. HIDE DEF m
  <2>5. ~Recorded(m, e) => Fitting(m, a, e)
    BY <2>2 DEF Fitting
  <2>6. GoodLog(F[k], a) /\ Extends(m, F[k])
    <3>1. GoodLog(WithEvent(m, e), a) /\ Extends(m, WithEvent(m, e))
      BY <2>2, <2>4, <2>5, WithEventGood
    <3>. QED
      BY <2>3, <3>1
  <2>7. \E j \in DOMAIN F[k] : F[k][j] = e
    <3>1. e.kind # "attempt"
      BY <2>2
    <3>2. GoodLog(WithEvent(m, e), a) /\ \E j \in DOMAIN WithEvent(m, e) : WithEvent(m, e)[j] = e
      BY <2>2, <2>4, <2>5, <3>1, WithEventHas
    <3>. QED
      BY <2>3, <3>2
  <2>8. Extends(l, F[k])
    BY <1>5, <2>4, <2>6, ExtendsTransitive DEF GoodLog
  <2>9. \A j \in 1..(k - 1) : Has(F[k], j)
    BY <2>4, <2>6 DEF Extends
  <2>10. \A j \in 1..k : j \in 1..(k - 1) \/ j = k
    BY <1>1
  <2>. QED
    BY <2>6, <2>7, <2>8, <2>9, <2>10 DEF e
<1>7. Good(0)
  <2>1. F[0] = l
    BY <1>1, <1>4 DEF Step
  <2>. QED
    BY <1>5, <2>1
<1>. HIDE DEF Good
<1>8. ASSUME N # {} PROVE FALSE
  <2>1. N \in SUBSET Nat
    BY <1>1
  <2>2. PICK k \in N : \A j \in N : k <= j
    <3>. HIDE DEF N
    <3>. QED
      BY <1>8, <2>1, LeastNatural
  <2>3. k \in 0..n /\ ~Good(k)
    OBVIOUS
  <2>4. k # 0
    BY <1>7, <2>3
  <2>5. k \in 1..n /\ k - 1 \in 0..n /\ ~(k <= k - 1)
    BY <1>1, <2>3, <2>4
  <2>6. Good(k - 1)
    BY <2>2, <2>5
  <2>. QED
    BY <1>6, <2>3, <2>5, <2>6
<1>9. Good(n)
  BY <1>1, <1>8
<1>. QED
  BY <1>3, <1>9 DEF Good

-----------------------------------------------------------------------------
(* Steps *)
LEMMA IdleFacts == Idle \in Calls /\ Idle.pc = "idle"
<1>1. 0 \in 0..Quantity
  BY LedgerAssumption
<1>. QED
  BY <1>1 DEF Idle, Calls

(* A step of one caller that writes nothing *)
LEMMA CallMoves ==
  ASSUME Inv, NEW c \in Callers, log' = log, ack' = ack, venue' = venue, reply' = reply,
         call' \in [Callers -> Calls], \A o \in Callers : o # c => call'[o] = call[o], CallKnows(c)',
         answers' = answers, deaths' \in 0..MaxDeaths
  PROVE  Inv'
<1>1. TypeOK' /\ log' \in [Intents -> Seq(Events)]
  BY DEF Inv, TypeOK
<1>2. \A i \in Intents : GoodLog(log[i], ack[i])'
  BY DEF Inv
<1>3. \A o \in Callers : CallKnows(o)'
  <2>1. ASSUME NEW o \in Callers, o # c PROVE CallKnows(o)'
    BY <2>1 DEF Inv, CallKnows
  <2>. QED
    BY <2>1
<1>4. Answered' /\ VenueHolds'
  BY DEF Inv, Answered, VenueHolds
<1>. QED
  BY <1>1, <1>2, <1>3, <1>4 DEF Inv

(* A write to one intent's log, by a caller that returns or by the submitter *)
LEMMA LogMoves ==
  ASSUME Inv, NEW i \in Intents, NEW m, NEW b,
         log' = [log EXCEPT ![i] = m], ack' = [ack EXCEPT ![i] = b],
         GoodLog(m, b), Extends(log[i], m), b \in Snapshots \cup {None}, ack[i] # None => b = ack[i],
         venue' = venue, reply' \in [Intents -> Snapshots \cup {None}], deaths' = deaths,
         call' \in [Callers -> Calls], \A c \in Callers : call'[c] = call[c] \/ call'[c] = Idle,
         \/ answers' = answers
         \/ \E a \in Attempts, x \in Outcomes : Answer(i, a, x) /\ \E k \in DOMAIN m : m[k] = AttemptRecorded(a, x)
  PROVE  Inv'
<1>1. /\ log \in [Intents -> Seq(Events)] /\ m \in Seq(Events) /\ \A k \in DOMAIN m : m[k] \in Events
      /\ ack \in [Intents -> Snapshots \cup {None}] /\ answers \in [Intents \X Attempts -> SUBSET Outcomes]
  BY EvidenceShape DEF Inv, TypeOK, GoodLog
<1>2. /\ log' \in [Intents -> Seq(Events)] /\ log'[i] = m /\ \A j \in Intents : j # i => log'[j] = log[j]
      /\ ack' \in [Intents -> Snapshots \cup {None}] /\ ack'[i] = b /\ \A j \in Intents : j # i => ack'[j] = ack[j]
  BY <1>1
<1>3. answers' \in [Intents \X Attempts -> SUBSET Outcomes]
  <2>1. ASSUME NEW a \in Attempts, NEW x \in Outcomes, Answer(i, a, x)
        PROVE  answers' \in [Intents \X Attempts -> SUBSET Outcomes]
    <3>1. answers' = [answers EXCEPT ![<<i, a>>] = answers[<<i, a>>] \cup {x}] /\ <<i, a>> \in Intents \X Attempts
      BY <2>1 DEF Answer
    <3>2. answers[<<i, a>>] \cup {x} \in SUBSET Outcomes
      BY <1>1, <3>1
    <3>. QED
      BY <1>1, <3>1, <3>2
  <2>. QED
    BY <1>1, <2>1
<1>4. TypeOK'
  <2>1. \A j \in Intents : \A k \in DOMAIN log'[j] : log'[j][k] \in Events
    BY <1>1, <1>2 DEF Inv, TypeOK
  <2>. QED
    BY <1>2, <1>3, <2>1 DEF Inv, TypeOK
<1>5. \A j \in Intents : GoodLog(log'[j], ack'[j])
  BY <1>2 DEF Inv
<1>6. ASSUME NEW c \in Callers PROVE CallKnows(c)'
  <2>1. CASE call'[c] = Idle
    BY <2>1, IdleFacts DEF CallKnows
  <2>2. CASE call'[c] = call[c]
    <3>1. CallKnows(c)
      BY DEF Inv
    <3>2. \A j \in Intents : ack[j] # None => ack'[j] = ack[j]
      BY <1>2
    <3>. QED
      BY <2>2, <3>1, <3>2 DEF CallKnows
  <2>. QED
    BY <2>1, <2>2
<1>7. Answered'
  <2>1. ASSUME NEW j \in Intents, NEW a \in Attempts, NEW x \in answers[<<j, a>>]
        PROVE  \E k \in DOMAIN log'[j] : log'[j][k] = AttemptRecorded(a, x)
    <3>1. PICK k \in DOMAIN log[j] : log[j][k] = AttemptRecorded(a, x)
      BY DEF Inv, Answered
    <3>2. k \in DOMAIN log'[j] /\ log'[j][k] = log[j][k]
      BY <1>2, <3>1 DEF Extends
    <3>. QED
      BY <3>1, <3>2
  <2>2. CASE answers' = answers
    BY <2>1, <2>2 DEF Answered
  <2>3. ASSUME NEW a \in Attempts, NEW x \in Outcomes, Answer(i, a, x), \E k \in DOMAIN m : m[k] = AttemptRecorded(a, x)
        PROVE  Answered'
    <3>1. answers' = [answers EXCEPT ![<<i, a>>] = @ \cup {x}]
      BY <2>3 DEF Answer
    <3>2. ASSUME NEW j \in Intents, NEW z \in Attempts, NEW y \in answers'[<<j, z>>]
          PROVE  y \in answers[<<j, z>>] \/ (j = i /\ z = a /\ y = x)
      BY <1>1, <3>1
    <3>. QED
      BY <1>2, <2>1, <2>3, <3>2 DEF Answered
  <2>. QED
    BY <2>2, <2>3
<1>8. VenueHolds'
  BY DEF Inv, VenueHolds
<1>. QED
  BY <1>2, <1>4, <1>5, <1>6, <1>7, <1>8 DEF Inv

(* The venue's own steps, which the ledger and the callers do not see *)
LEMMA VenueMoves ==
  ASSUME Inv, UNCHANGED <<log, ack, call, answers, deaths>>,
         venue' \in [Orders -> VenueOrders \cup {None}], reply' \in [Intents -> Snapshots \cup {None}],
         VenueHolds', \A o \in Orders : venue[o] # None => venue'[o] # None
  PROVE  Inv'
<1>1. TypeOK' /\ log' \in [Intents -> Seq(Events)] /\ (\A i \in Intents : GoodLog(log[i], ack[i])') /\ Answered'
  BY DEF Inv, TypeOK, Answered
<1>2. ASSUME NEW c \in Callers PROVE CallKnows(c)'
  <2>1. CallKnows(c) /\ (call[c].pc = "fills" => call[c].order.order \in Orders)
    BY DEF Inv, CallKnows, Snapshots
  <2>. QED
    BY <2>1 DEF CallKnows
<1>. QED
  BY <1>1, <1>2 DEF Inv

LEMMA QuantityFacts == Quantity \in Nat /\ Quantity > 0 /\ 0 \in 0..Quantity /\ Quantity \in 0..Quantity
BY LedgerAssumption

LEMMA AcceptKeeps ==
  ASSUME Inv, NEW o \in Orders, NEW i \in Intents, NEW replied \in BOOLEAN, Accept(o, i, replied)
  PROVE  Inv'
<1>. DEFINE v == [intent |-> i, filled |-> 0, remaining |-> Quantity, current |-> TRUE]
            s == [order |-> o, filled |-> 0, remaining |-> Quantity]
<1>1. /\ v \in VenueOrders /\ v # None /\ v.filled + v.remaining <= Quantity /\ s \in Snapshots
  <2>1. v \in VenueOrders /\ s \in Snapshots
    BY QuantityFacts DEF VenueOrders, Snapshots
  <2>2. v.filled + v.remaining <= Quantity
    BY QuantityFacts
  <2>. QED
    BY <2>1, <2>2, ReconciliationAssumption
<1>2. /\ venue' = [venue EXCEPT ![o] = v] /\ reply' = IF replied THEN [reply EXCEPT ![i] = s] ELSE reply
      /\ UNCHANGED <<log, ack, call, answers, deaths>>
  BY DEF Accept
<1>3. venue \in [Orders -> VenueOrders \cup {None}] /\ reply \in [Intents -> Snapshots \cup {None}]
  BY DEF Inv, TypeOK
<1>. HIDE DEF v, s
<1>4. venue' \in [Orders -> VenueOrders \cup {None}] /\ reply' \in [Intents -> Snapshots \cup {None}]
  BY <1>1, <1>2, <1>3
<1>5. VenueHolds' /\ \A p \in Orders : venue[p] # None => venue'[p] # None
  BY <1>1, <1>2, <1>3 DEF Inv, VenueHolds
<1>. QED
  BY <1>2, <1>4, <1>5, VenueMoves

LEMMA OrderMoves ==
  ASSUME Inv, NEW o \in Orders, VenueFill(o) \/ VenueCancel(o) \/ AgeOut(o)
  PROVE  Inv'
<1>1. /\ venue \in [Orders -> VenueOrders \cup {None}] /\ venue[o] \in VenueOrders
      /\ venue[o].filled + venue[o].remaining <= Quantity
  BY DEF Inv, TypeOK, VenueHolds, VenueFill, VenueCancel, AgeOut
<1>2. PICK v : /\ v \in VenueOrders /\ v.filled + v.remaining <= Quantity /\ venue' = [venue EXCEPT ![o] = v]
  <2>0. PICK i \in Intents, f \in 0..Quantity, r \in 0..Quantity, t \in BOOLEAN :
           venue[o] = [intent |-> i, filled |-> f, remaining |-> r, current |-> t]
    BY <1>1 DEF VenueOrders
  <2>1. f + r <= Quantity
    BY <1>1, <2>0
  <2>2. CASE VenueFill(o)
    <3>. DEFINE v == [intent |-> i, filled |-> f + 1, remaining |-> r - 1, current |-> t]
    <3>1. r > 0
      BY <2>0, <2>2 DEF VenueFill
    <3>2. f + 1 \in 0..Quantity /\ r - 1 \in 0..Quantity /\ (f + 1) + (r - 1) <= Quantity
      BY <2>1, <3>1, QuantityFacts
    <3>3. v \in VenueOrders /\ v.filled + v.remaining <= Quantity
      BY <3>2 DEF VenueOrders
    <3>4. venue' = [venue EXCEPT ![o] = v]
      BY <1>1, <2>0, <2>2 DEF VenueFill
    <3>. QED
      BY <3>3, <3>4
  <2>3. CASE VenueCancel(o)
    <3>. DEFINE v == [intent |-> i, filled |-> f, remaining |-> 0, current |-> t]
    <3>1. v \in VenueOrders /\ v.filled + v.remaining <= Quantity
      BY QuantityFacts DEF VenueOrders
    <3>2. venue' = [venue EXCEPT ![o] = v]
      <4>1. venue' = [venue EXCEPT ![o] = [venue[o] EXCEPT !.remaining = 0]]
        BY <2>3 DEF VenueCancel
      <4>2. [venue[o] EXCEPT !.remaining = 0] = v
        BY <2>0
      <4>. QED
        BY <4>1, <4>2, Zenon
    <3>. QED
      BY <3>1, <3>2
  <2>4. CASE AgeOut(o)
    <3>. DEFINE v == [intent |-> i, filled |-> f, remaining |-> r, current |-> FALSE]
    <3>1. v \in VenueOrders /\ v.filled + v.remaining <= Quantity
      BY <2>1 DEF VenueOrders
    <3>2. venue' = [venue EXCEPT ![o] = v]
      <4>1. venue' = [venue EXCEPT ![o] = [venue[o] EXCEPT !.current = FALSE]]
        BY <2>4 DEF AgeOut
      <4>2. \A b : [venue[o] EXCEPT !.current = b] = [intent |-> i, filled |-> f, remaining |-> r, current |-> b]
        BY <2>0
      <4>. QED
        BY <4>1, <4>2, Zenon
    <3>. QED
      BY <3>1, <3>2
  <2>. QED
    BY <2>2, <2>3, <2>4
<1>3. UNCHANGED <<log, ack, reply, call, answers, deaths>>
  BY DEF VenueFill, VenueCancel, AgeOut
<1>4. v # None
  BY <1>2, ReconciliationAssumption
<1>5. venue' \in [Orders -> VenueOrders \cup {None}] /\ reply' \in [Intents -> Snapshots \cup {None}]
  BY <1>1, <1>2, <1>3 DEF Inv, TypeOK
<1>6. VenueHolds' /\ \A p \in Orders : venue[p] # None => venue'[p] # None
  BY <1>1, <1>2, <1>4 DEF Inv, VenueHolds
<1>. QED
  BY <1>3, <1>5, <1>6, VenueMoves

-----------------------------------------------------------------------------
(* The submitter *)
LEMMA CallsStay ==
  ASSUME Inv, call' = call
  PROVE  call' \in [Callers -> Calls] /\ \A c \in Callers : call'[c] = call[c] \/ call'[c] = Idle
BY DEF Inv, TypeOK

LEMMA RecordSubmissionKeeps ==
  ASSUME Inv, NEW i \in Intents, RecordSubmission(i)
  PROVE  Inv'
<1>1. /\ UNCHANGED <<venue, reply, call, answers, deaths>> /\ ack' = ack
      /\ GoodLog(log[i], ack[i]) /\ log[i] \in Seq(Events)
      /\ ack \in [Intents -> Snapshots \cup {None}] /\ reply' \in [Intents -> Snapshots \cup {None}]
  BY DEF RecordSubmission, RecordIntent, RecordEvent, Inv, TypeOK
<1>2. ack' = [ack EXCEPT ![i] = ack[i]] /\ ack[i] \in Snapshots \cup {None}
  BY <1>1
<1>3. ASSUME NEW m, log' = [log EXCEPT ![i] = m], GoodLog(m, ack[i]), Extends(log[i], m)
      PROVE  Inv'
  BY <1>1, <1>2, <1>3, CallsStay, LogMoves
<1>4. CASE RecordIntent(i)
  <2>. DEFINE e == IntentRecorded
  <2>1. log[i] = <<>> /\ log' = [log EXCEPT ![i] = <<e>>]
    BY <1>4 DEF RecordIntent
  <2>2. Evidence(e) /\ e \in Events /\ e.kind = "intent" /\ e.order = None
    <3>1. Evidence(e) /\ e.kind = "intent" /\ e.order = None
      BY DEF Evidence, IntentRecorded, Event
    <3>. QED
      BY <3>1, EvidenceShape
  <2>. HIDE DEF e
  <2>3. Fitting(log[i], ack[i], e)
    BY <2>1, <2>2 DEF Fitting, Recorded
  <2>4. Append(log[i], e) = <<e>>
    BY <2>1, <2>2
  <2>5. GoodLog(<<e>>, ack[i]) /\ Extends(log[i], <<e>>)
    BY <1>1, <2>2, <2>3, <2>4, AppendKeepsGood, AppendExtends
  <2>. QED
    BY <1>3, <2>1, <2>5
<1>5. CASE RecordEvent(i, SubmissionStarted)
  <2>. DEFINE e == SubmissionStarted
              m == WithEvent(log[i], e)
  <2>1. log' = [log EXCEPT ![i] = m]
    BY <1>5 DEF RecordEvent
  <2>2. Evidence(e) /\ e.kind = "started" /\ e.order = None
    BY DEF Evidence, SubmissionStarted, Event
  <2>3. ~Recorded(log[i], e) => Fitting(log[i], ack[i], e)
    BY <2>2 DEF Fitting
  <2>. HIDE DEF e
  <2>4. GoodLog(m, ack[i]) /\ Extends(log[i], m)
    BY <1>1, <2>2, <2>3, WithEventGood
  <2>. QED
    BY <1>3, <2>1, <2>4
<1>. QED
  BY <1>4, <1>5 DEF RecordSubmission

LEMMA AcknowledgedLog ==
  ASSUME Inv, NEW i \in Intents, NEW s \in Snapshots, ack[i] # None => ack[i] = s
  PROVE  /\ GoodLog(WithAcknowledgement(log[i], ack[i], s), s)
         /\ Extends(log[i], WithAcknowledgement(log[i], ack[i], s))
<1>1. GoodLog(log[i], ack[i]) /\ log[i] \in Seq(Events) /\ Extends(log[i], log[i])
  BY DEF Inv, Extends
<1>2. CASE ack[i] = None
  <2>1. Evidence(Acknowledged(s))
    BY DEF Evidence
  <2>2. Acknowledged(s) \in Events
    BY <2>1, EvidenceShape
  <2>3. GoodLog(Append(log[i], Acknowledged(s)), s) /\ Extends(log[i], Append(log[i], Acknowledged(s)))
    BY <1>1, <1>2, <2>2, AcknowledgementKeepsGood, AppendExtends
  <2>. QED
    BY <1>2, <2>3 DEF WithAcknowledgement
<1>3. CASE ack[i] # None
  BY <1>1, <1>3 DEF WithAcknowledgement
<1>. QED
  BY <1>2, <1>3

LEMMA AcknowledgeReplyKeeps ==
  ASSUME Inv, NEW i \in Intents, AcknowledgeReply(i)
  PROVE  Inv'
<1>1. /\ reply \in [Intents -> Snapshots \cup {None}] /\ reply[i] \in Snapshots /\ reply' = [reply EXCEPT ![i] = None]
      /\ UNCHANGED <<venue, call, answers, deaths>> /\ ack \in [Intents -> Snapshots \cup {None}]
      /\ log \in [Intents -> Seq(Events)]
  BY DEF Inv, TypeOK, AcknowledgeReply
<1>2. reply' \in [Intents -> Snapshots \cup {None}]
  BY <1>1
<1>3. CASE RecordInitialAcknowledgement(i, reply[i])
  <2>. DEFINE m == WithAcknowledgement(log[i], ack[i], reply[i])
  <2>1. log' = [log EXCEPT ![i] = m] /\ ack' = [ack EXCEPT ![i] = reply[i]] /\ (ack[i] # None => ack[i] = reply[i])
    BY <1>3 DEF RecordInitialAcknowledgement, Acknowledgeable
  <2>2. GoodLog(m, reply[i]) /\ Extends(log[i], m)
    BY <1>1, <2>1, AcknowledgedLog
  <2>. HIDE DEF m
  <2>. QED
    BY <1>1, <1>2, <2>1, <2>2, CallsStay, LogMoves
<1>4. CASE UNCHANGED ledgerVars
  <2>1. log' = [log EXCEPT ![i] = log[i]] /\ ack' = [ack EXCEPT ![i] = ack[i]]
    BY <1>1, <1>4 DEF ledgerVars
  <2>2. GoodLog(log[i], ack[i]) /\ Extends(log[i], log[i]) /\ ack[i] \in Snapshots \cup {None}
    BY <1>1 DEF Inv, Extends
  <2>. QED
    BY <1>1, <1>2, <2>1, <2>2, CallsStay, LogMoves
<1>. QED
  BY <1>3, <1>4 DEF AcknowledgeReply

-----------------------------------------------------------------------------
(* reconcile_intent *)
LEMMA Returned ==
  ASSUME Inv, NEW c \in Callers, Return(c)
  PROVE  /\ call' \in [Callers -> Calls] /\ call'[c] = Idle
         /\ \A o \in Callers : call'[o] = call[o] \/ call'[o] = Idle
         /\ \A o \in Callers : o # c => call'[o] = call[o]
         /\ CallKnows(c)'
<1>1. call' = [call EXCEPT ![c] = Idle] /\ call \in [Callers -> Calls]
  BY DEF Return, Inv, TypeOK
<1>2. call'[c] = Idle
  BY <1>1
<1>3. CallKnows(c)'
  BY <1>2, IdleFacts DEF CallKnows
<1>. QED
  BY <1>1, <1>2, <1>3, IdleFacts

LEMMA ReturnKeeps ==
  ASSUME Inv, NEW c \in Callers, Return(c), UNCHANGED <<log, ack, venue, reply, answers>>, deaths' \in 0..MaxDeaths
  PROVE  Inv'
BY Returned, CallMoves

LEMMA BeginKeeps ==
  ASSUME Inv, NEW c \in Callers, NEW i \in Intents, NEW a \in Attempts, Begin(c, i, a)
  PROVE  Inv'
<1>1. /\ call[c] = Idle /\ UNCHANGED <<log, ack, venue, reply, deaths>>
      /\ GoodLog(log[i], ack[i]) /\ log \in [Intents -> Seq(Events)] /\ ack \in [Intents -> Snapshots \cup {None}]
      /\ reply' \in [Intents -> Snapshots \cup {None}] /\ deaths' \in 0..MaxDeaths
      /\ call \in [Callers -> Calls]
  BY DEF Begin, Inv, TypeOK
<1>2. CASE AttemptEvents(i, a) # {}
  <2>1. PICK k \in AttemptEvents(i, a) : Answer(i, a, log[i][k].outcome)
    BY <1>2 DEF Begin
  <2>2. call' = call
    BY <1>2 DEF Begin
  <2>3. k \in DOMAIN log[i] /\ log[i][k].attempt = a /\ Evidence(log[i][k])
    BY <1>1 DEF AttemptEvents, GoodLog
  <2>4. log[i][k].kind = "attempt"
    BY <2>3, EvidenceShape, LedgerAssumption
  <2>5. log[i][k].outcome \in Outcomes /\ log[i][k] = AttemptRecorded(a, log[i][k].outcome)
    BY <2>3, <2>4, EvidenceShape
  <2>6. log' = [log EXCEPT ![i] = log[i]] /\ ack' = [ack EXCEPT ![i] = ack[i]] /\ ack[i] \in Snapshots \cup {None}
        /\ Extends(log[i], log[i])
    BY <1>1 DEF Extends
  <2>7. \E z \in Attempts, x \in Outcomes : Answer(i, z, x) /\ \E j \in DOMAIN log[i] : log[i][j] = AttemptRecorded(z, x)
    BY <2>1, <2>3, <2>5
  <2>. QED
    BY <1>1, <2>2, <2>6, <2>7, CallsStay, LogMoves
<1>3. CASE AttemptEvents(i, a) = {}
  <2>. DEFINE k == [Idle EXCEPT !.pc = "orders", !.intent = i, !.attempt = a, !.seen = ack[i]]
  <2>1. call' = [call EXCEPT ![c] = k] /\ answers' = answers
    BY <1>3 DEF Begin
  <2>2. Idle \in Calls
    BY IdleFacts
  <2>3. k \in Calls
    BY <1>1, <2>2 DEF Calls
  <2>4. k.pc = "orders" /\ k.intent = i /\ k.attempt = a
    BY <2>2 DEF Calls
  <2>. HIDE DEF k
  <2>5. call' \in [Callers -> Calls] /\ call'[c] = k /\ \A o \in Callers : o # c => call'[o] = call[o]
    BY <1>1, <2>1, <2>3
  <2>6. CallKnows(c)'
    BY <2>4, <2>5 DEF CallKnows
  <2>. QED
    BY <1>1, <2>1, <2>5, <2>6, CallMoves
<1>. QED
  BY <1>2, <1>3

LEMMA SnapshotTyped ==
  ASSUME Inv, NEW o \in Orders, venue[o] # None
  PROVE  Snapshot(o) \in Snapshots /\ Snapshot(o).order = o
<1>1. venue[o].filled \in 0..Quantity /\ venue[o].remaining \in 0..Quantity
  BY DEF Inv, TypeOK, VenueOrders
<1>. QED
  BY <1>1 DEF Snapshot, Snapshots

LEMMA FindOrdersKeeps ==
  ASSUME Inv, NEW c \in Callers, FindOrders(c)
  PROVE  Inv'
<1>1. /\ call[c].pc = "orders" /\ UNCHANGED <<log, ack, venue, reply, answers, deaths>>
      /\ deaths' \in 0..MaxDeaths /\ call \in [Callers -> Calls] /\ CallKnows(c)
  BY DEF FindOrders, Inv, TypeOK
<1>2. CASE Goto(c, "missing")
  <2>1. /\ call' \in [Callers -> Calls] /\ \A o \in Callers : o # c => call'[o] = call[o]
        /\ call'[c].pc = "missing" /\ call'[c].intent = call[c].intent /\ call'[c].attempt = call[c].attempt
    BY <1>1, <1>2 DEF Goto, Calls
  <2>2. CallKnows(c)'
    BY <1>1, <2>1 DEF CallKnows
  <2>. QED
    BY <1>1, <2>1, <2>2, CallMoves
<1>3. CASE Return(c)
  BY <1>1, <1>3, ReturnKeeps
<1>4. ASSUME NEW o \in Matching(call[c].intent), call' = [call EXCEPT ![c].pc = "fills", ![c].order = Snapshot(o)]
      PROVE  Inv'
  <2>1. o \in Orders /\ venue[o] # None
    BY DEF Matching
  <2>2. Snapshot(o) \in Snapshots /\ Snapshot(o).order = o
    BY <2>1, SnapshotTyped
  <2>3. /\ call' \in [Callers -> Calls] /\ \A p \in Callers : p # c => call'[p] = call[p]
        /\ call'[c].pc = "fills" /\ call'[c].intent = call[c].intent /\ call'[c].attempt = call[c].attempt
        /\ call'[c].order = Snapshot(o)
    BY <1>1, <1>4, <2>2 DEF Calls
  <2>4. CallKnows(c)'
    BY <1>1, <2>1, <2>2, <2>3 DEF CallKnows
  <2>. QED
    BY <1>1, <2>3, <2>4, CallMoves
<1>. QED
  BY <1>2, <1>3, <1>4 DEF FindOrders

LEMMA GetFillsKeeps ==
  ASSUME Inv, NEW c \in Callers, GetFills(c)
  PROVE  Inv'
<1>. DEFINE o == call[c].order.order
            f == IF venue[o].current THEN venue[o].filled ELSE 0
<1>1. /\ call[c].pc = "fills" /\ UNCHANGED <<log, ack, venue, reply, answers, deaths>>
      /\ deaths' \in 0..MaxDeaths /\ call \in [Callers -> Calls] /\ CallKnows(c)
      /\ call' = [call EXCEPT ![c].pc = "matched", ![c].fills = f]
  BY DEF GetFills, Inv, TypeOK
<1>2. o \in Orders /\ venue[o] # None
  BY <1>1 DEF CallKnows, Snapshots
<1>3. f \in 0..Quantity
  BY <1>2, QuantityFacts DEF Inv, TypeOK, VenueOrders
<1>. HIDE DEF f
<1>4. /\ call' \in [Callers -> Calls] /\ \A p \in Callers : p # c => call'[p] = call[p]
      /\ call'[c].pc = "matched" /\ call'[c].intent = call[c].intent /\ call'[c].attempt = call[c].attempt
      /\ call'[c].order = call[c].order
  BY <1>1, <1>3 DEF Calls
<1>5. CallKnows(c)'
  BY <1>1, <1>4 DEF CallKnows
<1>. QED
  BY <1>1, <1>4, <1>5, CallMoves

LEMMA ReadAcknowledgementKeeps ==
  ASSUME Inv, NEW c \in Callers, ReadAcknowledgement(c)
  PROVE  Inv'
<1>. DEFINE a == ack[call[c].intent]
            n == (a = None)
<1>1. /\ call[c].pc = "matched" /\ UNCHANGED <<log, ack, venue, reply, answers, deaths>>
      /\ deaths' \in 0..MaxDeaths /\ call \in [Callers -> Calls] /\ CallKnows(c)
  BY DEF ReadAcknowledgement, Inv, TypeOK
<1>2. CASE Return(c)
  BY <1>1, <1>2, ReturnKeeps
<1>3. CASE ~(a # None /\ a.order # call[c].order.order) /\ call' = [call EXCEPT ![c].pc = "write", ![c].fresh = n]
  <2>1. ASSUME NEW b \in BOOLEAN, call' = [call EXCEPT ![c].pc = "write", ![c].fresh = b]
        PROVE  /\ call' \in [Callers -> Calls] /\ \A p \in Callers : p # c => call'[p] = call[p]
               /\ call'[c].pc = "write" /\ call'[c].intent = call[c].intent /\ call'[c].attempt = call[c].attempt
               /\ call'[c].order = call[c].order /\ call'[c].fresh = b
    BY <1>1, <2>1 DEF Calls
  <2>2. PICK b \in BOOLEAN : call' = [call EXCEPT ![c].pc = "write", ![c].fresh = b] /\ (b <=> a = None)
    <3>. HIDE DEF a
    <3>1. n \in BOOLEAN /\ (n <=> a = None)
      OBVIOUS
    <3>. HIDE DEF n
    <3>. QED
      BY <1>3, <3>1, Zenon
  <2>3. /\ call' \in [Callers -> Calls] /\ \A p \in Callers : p # c => call'[p] = call[p]
        /\ call'[c].pc = "write" /\ call'[c].intent = call[c].intent /\ call'[c].attempt = call[c].attempt
        /\ call'[c].order = call[c].order /\ call'[c].fresh = b
    BY <2>1, <2>2
  <2>4. ~call'[c].fresh => a # None /\ a.order = call[c].order.order
    BY <1>3, <2>2, <2>3
  <2>5. CallKnows(c)'
    BY <1>1, <2>3, <2>4 DEF CallKnows
  <2>. QED
    BY <1>1, <2>3, <2>5, CallMoves
<1>. QED
  BY <1>2, <1>3 DEF ReadAcknowledgement

LEMMA StatusTyped ==
  ASSUME NEW s \in Snapshots
  PROVE  Status(s) \in {"resting", "executed", "canceled", None} /\ s.order \in Orders /\ s # None
BY SnapshotsAssumption DEF Status, Snapshots

(* An attempt that the ledger takes is in it with its outcome: its key was   *)
(* free, or bound to the same evidence.                                      *)
LEMMA AttemptInLog ==
  ASSUME NEW l, NEW a, NEW x \in Attempts, NEW y \in Outcomes, GoodLog(l, a),
         \A k \in DOMAIN l : SameKey(l[k], AttemptRecorded(x, y)) => l[k] = AttemptRecorded(x, y),
         ~Recorded(l, AttemptRecorded(x, y)) => Fitting(l, a, AttemptRecorded(x, y))
  PROVE  LET m == WithEvent(l, AttemptRecorded(x, y)) IN
         GoodLog(m, a) /\ Extends(l, m) /\ \E k \in DOMAIN m : m[k] = AttemptRecorded(x, y)
<1>. DEFINE e == AttemptRecorded(x, y)
            m == WithEvent(l, e)
<1>1. Evidence(e)
  BY DEF Evidence
<1>. HIDE DEF e
<1>2. /\ GoodLog(m, a) /\ Extends(l, m) /\ \E k \in DOMAIN m : SameKey(m[k], e)
      /\ \A k \in DOMAIN m : k \in DOMAIN l \/ m[k] = e
  BY <1>1, WithEventGood DEF e
<1>. HIDE DEF m
<1>3. PICK k \in DOMAIN m : SameKey(m[k], e)
  BY <1>2
<1>4. m[k] = e
  BY <1>2, <1>3 DEF Extends, e
<1>. QED
  BY <1>2, <1>4 DEF e, m

LEMMA InconclusiveFits ==
  ASSUME NEW b \in Snapshots \cup {None}
  PROVE  /\ Inconclusive(b) \in Outcomes /\ ~Inconclusive(b).found
         /\ Inconclusive(b).order # None <=> b # None
<1>1. CASE b = None
  BY <1>1, QuantityFacts DEF Inconclusive, Outcomes
<1>2. CASE b \in Snapshots
  <2>1. b.order \in Orders /\ Status(b) \in {"resting", "executed", "canceled", None} /\ b # None /\ b.order # None
    BY <1>2, StatusTyped, LedgerAssumption
  <2>. QED
    BY <2>1, QuantityFacts DEF Inconclusive, Outcomes
<1>. QED
  BY <1>1, <1>2

LEMMA RecordMissingKeeps ==
  ASSUME Inv, NEW c \in Callers, RecordMissing(c)
  PROVE  Inv'
<1>. DEFINE i == call[c].intent
            x == Inconclusive(ack[i])
            e == AttemptRecorded(call[c].attempt, x)
            m == WithEvent(log[i], e)
<1>1. call[c].pc = "missing" /\ i \in Intents /\ call[c].attempt \in Attempts
  BY DEF RecordMissing, Inv, CallKnows
<1>2. CASE Raise(c)
  BY <1>2, ReturnKeeps DEF Raise, Inv, TypeOK
<1>3. CASE /\ Recordable(log[i], ack[i], e) /\ RecordEvent(i, e) /\ Answer(i, call[c].attempt, x) /\ Return(c)
           /\ UNCHANGED <<venue, reply, deaths>>
  <2>1. /\ log' = [log EXCEPT ![i] = m] /\ ack' = ack /\ ack \in [Intents -> Snapshots \cup {None}]
        /\ GoodLog(log[i], ack[i]) /\ reply' \in [Intents -> Snapshots \cup {None}]
    BY <1>1, <1>3 DEF RecordEvent, Inv, TypeOK
  <2>2. ack' = [ack EXCEPT ![i] = ack[i]] /\ ack[i] \in Snapshots \cup {None}
    BY <1>1, <2>1
  <2>3. x \in Outcomes /\ ~x.found /\ (x.order # None <=> ack[i] # None)
    BY <2>2, InconclusiveFits
  <2>. HIDE DEF x
  <2>4. e.kind = "attempt" /\ e.order = None /\ e.outcome = x
    BY <2>3 DEF AttemptRecorded, Event
  <2>5. Evidence(e)
    BY <1>1, <2>3 DEF Evidence
  <2>6. ~Recorded(log[i], e) => Fitting(log[i], ack[i], e)
    BY <2>3, <2>4, <2>5 DEF Fitting
  <2>7. \A k \in DOMAIN log[i] : SameKey(log[i][k], e) => log[i][k] = e
    BY <1>3 DEF Recordable
  <2>8. GoodLog(m, ack[i]) /\ Extends(log[i], m) /\ \E k \in DOMAIN m : m[k] = e
    BY <1>1, <2>1, <2>3, <2>6, <2>7, AttemptInLog
  <2>. HIDE DEF m
  <2>9. /\ call' \in [Callers -> Calls] /\ \A o \in Callers : call'[o] = call[o] \/ call'[o] = Idle
    BY <1>3, Returned
  <2>10. \E z \in Attempts, y \in Outcomes : Answer(i, z, y) /\ \E k \in DOMAIN m : m[k] = AttemptRecorded(z, y)
    BY <1>1, <1>3, <2>3, <2>8
  <2>. HIDE DEF i
  <2>. QED
    BY <1>1, <1>3, <2>1, <2>2, <2>8, <2>9, <2>10, LogMoves
<1>. QED
  BY <1>2, <1>3 DEF RecordMissing

LEMMA OrderRecorded ==
  ASSUME NEW l, NEW a \in Snapshots, GoodLog(l, a), NEW s \in Snapshots, a.order = s.order
  PROVE  LET m == WithEvent(l, OrderObserved(s)) IN
         /\ GoodLog(m, a) /\ Extends(l, m) /\ (\E k \in DOMAIN m : m[k] = OrderObserved(s))
         /\ \A k \in DOMAIN m : k \in DOMAIN l \/ m[k] = OrderObserved(s)
<1>. DEFINE d == OrderObserved(s)
            m == WithEvent(l, d)
<1>1. a # None
  BY StatusTyped
<1>2. Evidence(d) /\ d.kind = "order" /\ d.order = s.order
  BY DEF Evidence, OrderObserved, Event
<1>3. d.kind # "attempt"
  BY <1>2
<1>. HIDE DEF d
<1>4. ~Recorded(l, d) => Fitting(l, a, d)
  BY <1>1, <1>2 DEF Fitting
<1>5. /\ GoodLog(m, a) /\ Extends(l, m)
      /\ \A k \in DOMAIN m : k \in DOMAIN l \/ m[k] = d
  BY <1>2, <1>4, WithEventGood
<1>6. \E k \in DOMAIN m : m[k] = d
  BY <1>2, <1>3, <1>4, WithEventHas
<1>. QED
  BY <1>5, <1>6 DEF d

(* The transaction of a match: the acknowledgement, or the one there is, the *)
(* fills, the order, and only then the attempt.                              *)
LEMMA MatchRecorded ==
  ASSUME NEW l, NEW a \in Snapshots, GoodLog(l, a), NEW s \in Snapshots, a.order = s.order,
         NEW es \in Seq(Events), Len(es) <= Quantity, \A k \in 1..Len(es) : es[k] = FillObserved(s.order, k),
         NEW x \in Attempts, NEW y \in Outcomes, y.found, y.order = s.order, y.status = Status(s), y.fills = Len(es),
         Recordable(WithEvents(l, es), a, AttemptRecorded(x, y))
  PROVE  LET m == WithEvent(WithEvent(WithEvents(l, es), OrderObserved(s)), AttemptRecorded(x, y)) IN
         GoodLog(m, a) /\ Extends(l, m) /\ \E k \in DOMAIN m : m[k] = AttemptRecorded(x, y)
<1>. DEFINE f == WithEvents(l, es)
            d == OrderObserved(s)
            p == WithEvent(f, d)
            e == AttemptRecorded(x, y)
            m == WithEvent(p, e)
<1>1. a # None /\ s.order \in Orders /\ s.order # None
  BY StatusTyped, LedgerAssumption
<1>2. /\ GoodLog(f, a) /\ Extends(l, f)
      /\ \A k \in 1..Len(es) : \E j \in DOMAIN f : f[j] = FillObserved(s.order, k)
  BY <1>1, FillsRecorded
<1>. HIDE DEF f
<1>3. d.kind = "order" /\ d.snapshot = s
  BY DEF OrderObserved, Event
<1>4. /\ GoodLog(p, a) /\ Extends(f, p) /\ (\E k \in DOMAIN p : p[k] = d)
      /\ \A k \in DOMAIN p : k \in DOMAIN f \/ p[k] = d
  BY <1>2, OrderRecorded
<1>. HIDE DEF d, p
<1>5. Evidence(e) /\ e.kind = "attempt" /\ e.order = s.order /\ e.outcome = y
  BY DEF Evidence, AttemptRecorded, Event
<1>6. ~Recorded(p, e) => Fitting(p, a, e)
  <2>1. \A n \in 1..y.fills : \E j \in DOMAIN p : p[j] = FillObserved(y.order, n)
    BY <1>2, <1>4 DEF Extends
  <2>2. \E j \in DOMAIN p : p[j].kind = "order" /\ Status(p[j].snapshot) = y.status
    BY <1>3, <1>4
  <2>. HIDE DEF e
  <2>. QED
    BY <1>1, <1>5, <2>1, <2>2 DEF Fitting
<1>7. \A k \in DOMAIN p : SameKey(p[k], e) => p[k] = e
  <2>. HIDE DEF e
  <2>1. ASSUME NEW k \in DOMAIN p, SameKey(p[k], e) PROVE p[k] = e
    <3>1. p[k] # d
      BY <1>3, <1>5, <2>1 DEF SameKey
    <3>2. k \in DOMAIN f /\ p[k] = f[k]
      BY <1>4, <3>1 DEF Extends
    <3>. QED
      BY <2>1, <3>2 DEF Recordable, f, e
  <2>. QED
    BY <2>1
<1>8. GoodLog(m, a) /\ Extends(p, m) /\ \E k \in DOMAIN m : m[k] = e
  BY <1>4, <1>6, <1>7, AttemptInLog
<1>. HIDE DEF m
<1>9. Extends(l, m)
  <2>1. l \in Seq(Events) /\ f \in Seq(Events) /\ p \in Seq(Events) /\ m \in Seq(Events)
    BY <1>2, <1>4, <1>8 DEF GoodLog
  <2>. QED
    BY <1>2, <1>4, <1>8, <2>1, ExtendsTransitive
<1>. QED
  BY <1>8, <1>9 DEF m, p, d, f

LEMMA WriteMatchKeeps ==
  ASSUME Inv, NEW c \in Callers, WriteMatch(c)
  PROVE  Inv'
<1>. DEFINE i == call[c].intent
            s == call[c].order
            y == Matched(c)
            e == AttemptRecorded(call[c].attempt, y)
            a == IF call[c].fresh THEN s ELSE ack[i]
            l == IF call[c].fresh THEN WithAcknowledgement(log[i], ack[i], s) ELSE log[i]
            es == FillEvents(c)
            f == WithEvents(l, es)
            m == WithEvent(WithEvent(f, OrderObserved(s)), e)
<1>1. /\ call[c].pc = "write" /\ i \in Intents /\ call[c].attempt \in Attempts /\ s \in Snapshots
      /\ call[c].fills \in 0..Quantity
      /\ ~call[c].fresh => ack[i] # None /\ ack[i].order = s.order
      /\ ack \in [Intents -> Snapshots \cup {None}] /\ GoodLog(log[i], ack[i])
      /\ reply \in [Intents -> Snapshots \cup {None}]
  <2>1. call[c].pc = "write" /\ CallKnows(c) /\ call[c] \in Calls
    BY DEF WriteMatch, Inv, TypeOK
  <2>. QED
    BY <2>1 DEF CallKnows, Inv, TypeOK, Calls
<1>2. CASE Raise(c)
  BY <1>2, ReturnKeeps DEF Raise, Inv, TypeOK
<1>3. CASE /\ (call[c].fresh => Acknowledgeable(i, s)) /\ Recordable(f, a, e)
           /\ ack' = [ack EXCEPT ![i] = a] /\ log' = [log EXCEPT ![i] = m]
           /\ Answer(i, call[c].attempt, y) /\ Return(c) /\ UNCHANGED <<venue, reply, deaths>>
  <2>1. a \in Snapshots /\ a.order = s.order /\ GoodLog(l, a) /\ Extends(log[i], l) /\ (ack[i] # None => a = ack[i])
    <3>1. CASE call[c].fresh
      <4>1. ack[i] # None => ack[i] = s
        BY <1>3, <3>1 DEF Acknowledgeable
      <4>2. /\ GoodLog(WithAcknowledgement(log[i], ack[i], s), s)
            /\ Extends(log[i], WithAcknowledgement(log[i], ack[i], s))
        BY <1>1, <4>1, AcknowledgedLog
      <4>. QED
        BY <1>1, <3>1, <4>1, <4>2
    <3>2. CASE ~call[c].fresh
      <4>1. ack[i] \in Snapshots
        BY <1>1, <3>2
      <4>2. Extends(log[i], log[i])
        BY <1>1 DEF GoodLog, Extends
      <4>. QED
        BY <1>1, <3>2, <4>1, <4>2
    <3>. QED
      BY <3>1, <3>2
  <2>. HIDE DEF a, l
  <2>2. s.order \in Orders /\ Status(s) \in {"resting", "executed", "canceled", None}
    BY <1>1, StatusTyped
  <2>3. es \in Seq(Events) /\ Len(es) = call[c].fills /\ \A k \in 1..Len(es) : es[k] = FillObserved(s.order, k)
    <3>1. call[c].fills \in Nat /\ \A k \in 1..call[c].fills : k \in 1..Quantity
      BY <1>1, QuantityFacts
    <3>2. \A k \in 1..call[c].fills : FillObserved(s.order, k) \in Events
      BY <2>2, <3>1 DEF FillObserved, Event, Events, Kinds
    <3>. QED
      BY <3>1, <3>2 DEF FillEvents
  <2>. HIDE DEF es
  <2>4. y \in Outcomes /\ y.found /\ y.order = s.order /\ y.status = Status(s) /\ y.fills = Len(es)
    BY <1>1, <2>2, <2>3 DEF Matched, Outcomes
  <2>. HIDE DEF y
  <2>5. Len(es) <= Quantity
    BY <1>1, <2>3, QuantityFacts
  <2>. HIDE DEF s
  <2>6. GoodLog(m, a) /\ Extends(l, m) /\ \E k \in DOMAIN m : m[k] = e
    <3>1. Recordable(WithEvents(l, es), a, e)
      BY <1>3
    <3>. QED
      BY <1>1, <2>1, <2>3, <2>4, <2>5, <3>1, MatchRecorded
  <2>. HIDE DEF m
  <2>7. Extends(log[i], m)
    BY <1>1, <2>1, <2>6, ExtendsTransitive DEF GoodLog
  <2>8. call' \in [Callers -> Calls] /\ \A o \in Callers : call'[o] = call[o] \/ call'[o] = Idle
    BY <1>3, Returned
  <2>9. \E z \in Attempts, x \in Outcomes : Answer(i, z, x) /\ \E k \in DOMAIN m : m[k] = AttemptRecorded(z, x)
    BY <1>1, <1>3, <2>4, <2>6
  <2>10. reply' \in [Intents -> Snapshots \cup {None}]
    BY <1>1, <1>3
  <2>. HIDE DEF i
  <2>. QED
    BY <1>1, <1>3, <2>1, <2>6, <2>7, <2>8, <2>9, <2>10, LogMoves
<1>. QED
  BY <1>2, <1>3 DEF WriteMatch

LEMMA FailKeeps ==
  ASSUME Inv, NEW c \in Callers, Fail(c)
  PROVE  Inv'
<1>1. deaths' \in 0..MaxDeaths
  BY ReconciliationAssumption DEF Fail, Inv, TypeOK
<1>. QED
  BY <1>1, ReturnKeeps DEF Fail

-----------------------------------------------------------------------------
LEMMA InitHolds == Init => Inv
<1>. SUFFICES ASSUME Init PROVE Inv
  OBVIOUS
<1>1. \A i \in Intents : log[i] = <<>> /\ ack[i] = None
  BY DEF Init, LedgerInit
<1>2. log \in [Intents -> Seq(Events)]
  BY DEF Init, LedgerInit
<1>3. TypeOK
  BY <1>1, IdleFacts, ReconciliationAssumption DEF Init, LedgerInit, TypeOK
<1>4. GoodLog(<<>>, None)
  BY DEF GoodLog, Unique, AcknowledgedOnce, Named, Whole, Remembers
<1>5. \A c \in Callers : CallKnows(c)
  BY IdleFacts DEF Init, CallKnows
<1>6. Answered /\ VenueHolds
  BY DEF Init, Answered, VenueHolds
<1>. QED
  BY <1>1, <1>2, <1>3, <1>4, <1>5, <1>6 DEF Inv

LEMMA StepKeeps == Inv /\ [Next]_vars => Inv'
<1>. SUFFICES ASSUME Inv, [Next]_vars PROVE Inv'
  OBVIOUS
<1>1. ASSUME NEW i \in Intents, RecordSubmission(i) PROVE Inv'
  BY <1>1, RecordSubmissionKeeps
<1>2. ASSUME NEW i \in Intents, Transmit(i) \/ Impostor(i) PROVE Inv'
  <2>1. PICK o \in Orders, replied \in BOOLEAN : Accept(o, i, replied)
    BY <1>2 DEF Transmit, Impostor
  <2>. QED
    BY <2>1, AcceptKeeps
<1>3. ASSUME NEW i \in Intents, AcknowledgeReply(i) PROVE Inv'
  BY <1>3, AcknowledgeReplyKeeps
<1>4. ASSUME NEW o \in Orders, VenueFill(o) \/ VenueCancel(o) \/ AgeOut(o) PROVE Inv'
  BY <1>4, OrderMoves
<1>5. ASSUME NEW c \in Callers, CallStep(c) PROVE Inv'
  BY <1>5, FindOrdersKeeps, RecordMissingKeeps, GetFillsKeeps, ReadAcknowledgementKeeps, WriteMatchKeeps
     DEF CallStep
<1>6. ASSUME NEW c \in Callers, Fail(c) PROVE Inv'
  BY <1>6, FailKeeps
<1>7. ASSUME NEW c \in Callers, NEW i \in Intents, NEW a \in Attempts, Begin(c, i, a) PROVE Inv'
  BY <1>7, BeginKeeps
<1>8. CASE UNCHANGED vars
  <2>1. reply' \in [Intents -> Snapshots \cup {None}] /\ venue' \in [Orders -> VenueOrders \cup {None}] /\ VenueHolds'
    BY <1>8 DEF vars, Inv, TypeOK, VenueHolds
  <2>. QED
    BY <1>8, <2>1, VenueMoves DEF vars
<1>. QED
  BY <1>1, <1>2, <1>3, <1>4, <1>5, <1>6, <1>7, <1>8 DEF Next, Environment

(* The invariant holds of every behaviour, whatever the venue, the submitter *)
(* and any number of overlapping, dying and repeated calls of                *)
(* reconcile_intent do between each other's steps.                           *)
THEOREM Invariance == Spec => []Inv
<1>1. Init => Inv
  BY InitHolds
<1>2. Inv /\ [Next]_vars => Inv'
  BY StepKeeps
<1>. QED
  BY <1>1, <1>2, PTL DEF Spec

(* The evidence is unique, a committed match has its fills and its order     *)
(* before it, and a miss names the order acknowledged before it or none.     *)
THEOREM EvidenceHolds == Spec => []EvidenceInv
<1>1. Inv => EvidenceInv
  <2>. SUFFICES ASSUME Inv PROVE EvidenceInv
    OBVIOUS
  <2>1. TypeOK
    BY DEF Inv
  <2>2. EvidenceIsUnique
    BY DEF Inv, GoodLog, Unique, EvidenceIsUnique
  <2>3. MatchIsWhole
    BY DEF Inv, GoodLog, Whole, Backed, MatchIsWhole, EventsOf
  <2>4. MissKeepsIdentity
    BY DEF Inv, GoodLog, Remembers, MissKeepsIdentity, EventsOf
  <2>. QED
    BY <2>1, <2>2, <2>3, <2>4 DEF EvidenceInv
<1>. QED
  BY <1>1, Invariance, PTL

(* All provider evidence of an intent names the acknowledged order, after    *)
(* its acknowledgement.                                                      *)
THEOREM IdentityHolds == Spec => []OneIdentity
<1>1. Inv => OneIdentity
  BY DEF Inv, GoodLog, Named, OneIdentity
<1>. QED
  BY <1>1, Invariance, PTL

(* All calls of one attempt of an intent that return say the same: each said *)
(* what stands in the log, and the log holds one outcome under its key.      *)
THEOREM AnswersHold == Spec => []AnswersAgree
<1>1. Inv => AnswersAgree
  <2>. SUFFICES ASSUME Inv, NEW ia \in Intents \X Attempts, NEW x \in answers[ia], NEW y \in answers[ia] PROVE x = y
    BY DEF AnswersAgree
  <2>1. PICK i \in Intents, a \in Attempts : ia = <<i, a>>
    OBVIOUS
  <2>2. PICK j \in DOMAIN log[i] : log[i][j] = AttemptRecorded(a, x)
    BY <2>1 DEF Inv, Answered
  <2>3. PICK k \in DOMAIN log[i] : log[i][k] = AttemptRecorded(a, y)
    BY <2>1 DEF Inv, Answered
  <2>4. SameKey(log[i][j], log[i][k])
    BY <2>2, <2>3 DEF SameKey, AttemptRecorded, Event
  <2>5. j = k
    BY <2>4 DEF Inv, GoodLog, Unique
  <2>. QED
    BY <2>2, <2>3, <2>5 DEF AttemptRecorded, Event
<1>. QED
  BY <1>1, Invariance, PTL
=============================================================================
