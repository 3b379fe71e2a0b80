----------------------- MODULE KalshiPaperLedgerProofs -----------------------
(***************************************************************************)
(* Proofs about the paper ledger: for any number of callers, ids and       *)
(* requests, whoever dies when, the journal is one chain, reserved cash is *)
(* there, one exit of a position is under way and an entry's cost is       *)
(* handed out exactly.                                                     *)
(*                                                                         *)
(* Sums over rows are reasoned about through the function that computes    *)
(* them; what needs induction is shown by a least counterexample.          *)
(***************************************************************************)
EXTENDS KalshiPaperLedger, FiniteSetTheorems, TLAPS

-----------------------------------------------------------------------------
(* Sums *)
(* The element a sum takes next, and the function that computes it. *)
Pick(s) == CHOOSE x \in s : TRUE
SumStep(g, f, s) == IF s = {} THEN 0 ELSE f[Pick(s)] + g[s \ {Pick(s)}]
Sums(g, f, S) == g = [s \in SUBSET S |-> SumStep(g, f, s)]
(* g adds f up, whichever element is taken out. *)
Additive(g, f, S) ==
    /\ g \in [SUBSET S -> Int] /\ g[{}] = 0
    /\ \A s \in SUBSET S : \A x \in s : g[s] = f[x] + g[s \ {x}]

LEMMA LeastNatural ==
  ASSUME NEW N \in SUBSET Nat, N # {}
  PROVE  \E m \in N : \A k \in N : m <= k
<1>. DEFINE R == {ss \in Nat \X Nat : ss[1] < ss[2]}
<1>1. IsWellFoundedOn(R, Nat)
  BY NatLessThanWellFounded DEF OpToRel
<1>2. \A k, m \in Nat : <<k, m>> \in R <=> k < m
  OBVIOUS
<1>. HIDE DEF R
<1>3. PICK m \in N : \A k \in N : ~(<<k, m>> \in R)
  BY <1>1, WFMin
<1>4. ASSUME NEW k \in N PROVE m <= k
  <2>1. k \in Nat /\ m \in Nat
    OBVIOUS
  <2>2. ~(k < m)
    BY <1>2, <1>3, <2>1
  <2>. QED
    BY <2>1, <2>2
<1>. QED
  BY <1>4

LEMMA SumUnfolds ==
  ASSUME NEW f, NEW S
  PROVE  SumFunctionOnSet(f, S) = (CHOOSE g : Sums(g, f, S))[S]
BY DEF SumFunctionOnSet, FoldFunctionOnSet, MapThenFoldSet, Sums, SumStep, Pick

LEMMA AdditiveExtends ==
  ASSUME NEW S, NEW y, y \notin S, NEW f, \A x \in S \cup {y} : f[x] \in Int, NEW g, Additive(g, f, S)
  PROVE  \E h : Additive(h, f, S \cup {y})
<1>. DEFINE T == S \cup {y}
            h == [s \in SUBSET T |-> IF y \in s THEN g[s \ {y}] + f[y] ELSE g[s]]
<1>1. \A s \in SUBSET T : s \ {y} \in SUBSET S /\ (y \notin s => s \in SUBSET S)
  OBVIOUS
<1>2. h \in [SUBSET T -> Int] /\ h[{}] = 0
  BY <1>1 DEF Additive
<1>3. ASSUME NEW s \in SUBSET T, NEW x \in s
      PROVE  h[s] = f[x] + h[s \ {x}]
  <2>0. s \ {x} \in SUBSET T
    OBVIOUS
  <2>1. CASE y \notin s
    BY <2>0, <2>1, <1>1 DEF Additive
  <2>2. CASE x = y
    BY <2>0, <2>2, <1>1 DEF Additive
  <2>3. CASE y \in s /\ x # y
    <3>1. /\ s \ {y} \in SUBSET S /\ x \in s \ {y}
          /\ (s \ {y}) \ {x} = (s \ {x}) \ {y} /\ y \in s \ {x} /\ (s \ {x}) \ {y} \in SUBSET S
      BY <2>3
    <3>2. h[s] = g[s \ {y}] + f[y] /\ h[s \ {x}] = g[(s \ {x}) \ {y}] + f[y]
      BY <2>0, <2>3, <3>1
    <3>3. g[s \ {y}] = f[x] + g[(s \ {x}) \ {y}]
      <4>1. \A t \in SUBSET S : \A z \in t : g[t] = f[z] + g[t \ {z}]
        BY DEF Additive
      <4>2. g[s \ {y}] = f[x] + g[(s \ {y}) \ {x}]
        BY <3>1, <4>1, Zenon
      <4>. QED
        BY <3>1, <4>2, Zenon
    <3>4. g[s \ {y}] \in Int /\ g[(s \ {x}) \ {y}] \in Int
      BY <3>1 DEF Additive
    <3>5. f[x] \in Int
      BY <3>1
    <3>. QED
      BY <3>2, <3>3, <3>4, <3>5
  <2>. QED
    BY <2>1, <2>2, <2>3
<1>. HIDE DEF h
<1>. QED
  BY <1>2, <1>3 DEF Additive

LEMMA FiniteAdditive ==
  ASSUME NEW S, IsFiniteSet(S), NEW f, \A x \in S : f[x] \in Int
  PROVE  \E g : Additive(g, f, S)
<1>. DEFINE Bad(n) == \E T \in SUBSET S : Cardinality(T) = n /\ ~ \E g : Additive(g, f, T)
            N == {n \in Nat : Bad(n)}
<1>1. ASSUME N # {}  PROVE FALSE
  <2>1. PICK n \in N : \A k \in N : n <= k
    <3>. HIDE DEF N
    <3>1. N \in SUBSET Nat
      BY DEF N
    <3>. QED
      BY <1>1, <3>1, LeastNatural
  <2>2. PICK T \in SUBSET S : Cardinality(T) = n /\ ~ \E g : Additive(g, f, T)
    OBVIOUS
  <2>3. IsFiniteSet(T)
    BY FS_Subset
  <2>4. CASE T = {}
    <3>. DEFINE g == [s \in SUBSET {} |-> 0]
    <3>1. Additive(g, f, {})
      BY DEF Additive
    <3>. QED
      BY <2>2, <2>4, <3>1
  <2>5. CASE T # {}
    <3>1. PICK y \in T : TRUE
      BY <2>5
    <3>2. IsFiniteSet(T \ {y}) /\ Cardinality(T \ {y}) = n - 1
      BY <2>2, <2>3, FS_RemoveElement
    <3>3. T \ {y} \in SUBSET S /\ n - 1 \in Nat /\ n - 1 < n
      BY <3>2, FS_CardinalityType
    <3>4. \E g : Additive(g, f, T \ {y})
      BY <2>1, <3>2, <3>3
    <3>5. T = (T \ {y}) \cup {y}
      OBVIOUS
    <3>. QED
      BY <2>2, <3>4, <3>5, AdditiveExtends
  <2>. QED
    BY <2>4, <2>5
<1>2. Cardinality(S) \in Nat
  BY FS_CardinalityType
<1>. QED
  BY <1>1, <1>2

LEMMA AdditiveSums ==
  ASSUME NEW S, IsFiniteSet(S), NEW f, \A x \in S : f[x] \in Int, NEW g, Additive(g, f, S)
  PROVE  SumFunctionOnSet(f, S) = g[S]
<1>0. \A s \in SUBSET S : s # {} => Pick(s) \in s
  BY DEF Pick
<1>1. Sums(g, f, S)
  <2>1. \A s \in SUBSET S : g[s] = SumStep(g, f, s)
    BY <1>0 DEF Additive, SumStep
  <2>. QED
    BY <2>1 DEF Sums, Additive
<1>. DEFINE h == CHOOSE k : Sums(k, f, S)
<1>2. Sums(h, f, S)
  BY <1>1
<1>. HIDE DEF h
<1>. DEFINE N == {n \in Nat : \E s \in SUBSET S : Cardinality(s) = n /\ h[s] # g[s]}
<1>3. ASSUME N # {} PROVE FALSE
  <2>1. PICK n \in N : \A k \in N : n <= k
    <3>. HIDE DEF N
    <3>1. N \in SUBSET Nat
      BY DEF N
    <3>. QED
      BY <1>3, <3>1, LeastNatural
  <2>2. PICK s \in SUBSET S : Cardinality(s) = n /\ h[s] # g[s]
    OBVIOUS
  <2>3. IsFiniteSet(s)
    BY FS_Subset
  <2>4. h[s] = SumStep(h, f, s) /\ g[s] = SumStep(g, f, s)
    BY <1>1, <1>2 DEF Sums
  <2>5. s # {}
    BY <2>2, <2>4 DEF SumStep
  <2>. DEFINE y == Pick(s)
  <2>6. y \in s /\ s \ {y} \in SUBSET S
    BY <1>0, <2>5
  <2>7. IsFiniteSet(s \ {y}) /\ Cardinality(s \ {y}) = n - 1
    BY <2>2, <2>3, <2>6, FS_RemoveElement
  <2>8. n - 1 \in Nat /\ n - 1 < n
    BY <2>7, FS_CardinalityType
  <2>9. h[s \ {y}] = g[s \ {y}]
    BY <2>1, <2>6, <2>7, <2>8
  <2>. QED
    BY <2>2, <2>4, <2>5, <2>9 DEF SumStep
<1>4. Cardinality(S) \in Nat
  BY FS_CardinalityType
<1>5. h[S] = g[S]
  BY <1>3, <1>4
<1>. QED
  BY <1>5, SumUnfolds DEF h

LEMMA SumEmpty ==
  ASSUME NEW f PROVE SumFunctionOnSet(f, {}) = 0
<1>1. \A x \in {} : f[x] \in Int
  OBVIOUS
<1>2. PICK g : Additive(g, f, {})
  BY <1>1, FS_EmptySet, FiniteAdditive
<1>3. SumFunctionOnSet(f, {}) = g[{}]
  BY <1>1, <1>2, FS_EmptySet, AdditiveSums
<1>. QED
  BY <1>2, <1>3 DEF Additive

LEMMA SumAdds ==
  ASSUME NEW S, IsFiniteSet(S), NEW y, y \notin S, NEW f, \A x \in S \cup {y} : f[x] \in Int
  PROVE  SumFunctionOnSet(f, S \cup {y}) = SumFunctionOnSet(f, S) + f[y]
<1>. DEFINE T == S \cup {y}
<1>0. IsFiniteSet(T)
  BY FS_AddElement
<1>1. PICK g : Additive(g, f, T)
  BY <1>0, FiniteAdditive
<1>2. SumFunctionOnSet(f, T) = g[T]
  BY <1>0, <1>1, AdditiveSums
<1>. DEFINE h == [s \in SUBSET S |-> g[s]]
<1>3. Additive(h, f, S)
  <2>1. \A s \in SUBSET S : s \in SUBSET T /\ \A x \in s : s \ {x} \in SUBSET S
    OBVIOUS
  <2>. QED
    BY <1>1, <2>1 DEF Additive
<1>4. SumFunctionOnSet(f, S) = h[S]
  <2>. HIDE DEF h
  <2>. QED BY <1>3, AdditiveSums
<1>5. g[T] = f[y] + g[S] /\ g[S] \in Int
  <2>1. T \ {y} = S /\ y \in T /\ T \in SUBSET T /\ S \in SUBSET T
    OBVIOUS
  <2>2. g[T] = f[y] + g[T \ {y}]
    BY <1>1, <2>1, Zenon DEF Additive
  <2>3. g[S] \in Int
    BY <1>1, <2>1 DEF Additive
  <2>. QED
    BY <2>1, <2>2, <2>3, Zenon
<1>6. h[S] = g[S]
  OBVIOUS
<1>7. f[y] \in Int
  OBVIOUS
<1>. HIDE DEF h, T
<1>8. SumFunctionOnSet(f, T) = SumFunctionOnSet(f, S) + f[y]
  BY <1>2, <1>4, <1>5, <1>6, <1>7
<1>. QED
  BY <1>8 DEF T

LEMMA SumAgrees ==
  ASSUME NEW S, IsFiniteSet(S), NEW f, NEW e, \A x \in S : f[x] \in Int /\ f[x] = e[x]
  PROVE  SumFunctionOnSet(f, S) = SumFunctionOnSet(e, S)
<1>1. PICK g : Additive(g, f, S)
  BY FiniteAdditive
<1>2. Additive(g, e, S)
  BY <1>1 DEF Additive
<1>. QED
  BY <1>1, <1>2, AdditiveSums
(* A sum of natural numbers is one. *)
LEMMA SumNat ==
  ASSUME NEW S, IsFiniteSet(S), NEW f, \A x \in S : f[x] \in Nat
  PROVE  SumFunctionOnSet(f, S) \in Nat
<1>. DEFINE Bad(n) == \E T \in SUBSET S : Cardinality(T) = n /\ SumFunctionOnSet(f, T) \notin Nat
            N == {n \in Nat : Bad(n)}
<1>1. ASSUME N # {}  PROVE FALSE
  <2>1. PICK n \in N : \A k \in N : n <= k
    <3>. HIDE DEF N
    <3>1. N \in SUBSET Nat
      BY DEF N
    <3>. QED
      BY <1>1, <3>1, LeastNatural
  <2>2. PICK T \in SUBSET S : Cardinality(T) = n /\ SumFunctionOnSet(f, T) \notin Nat
    OBVIOUS
  <2>3. IsFiniteSet(T)
    BY FS_Subset
  <2>4. T # {}
    BY <2>2, SumEmpty
  <2>5. PICK y \in T : TRUE
    BY <2>4
  <2>6. IsFiniteSet(T \ {y}) /\ Cardinality(T \ {y}) = n - 1
    BY <2>2, <2>3, FS_RemoveElement
  <2>7. T \ {y} \in SUBSET S /\ n - 1 \in Nat /\ n - 1 < n
    BY <2>6, FS_CardinalityType
  <2>8. SumFunctionOnSet(f, T \ {y}) \in Nat
    BY <2>1, <2>6, <2>7
  <2>9. T = (T \ {y}) \cup {y} /\ y \notin T \ {y} /\ f[y] \in Nat /\ \A x \in (T \ {y}) \cup {y} : f[x] \in Int
    OBVIOUS
  <2>10. SumFunctionOnSet(f, (T \ {y}) \cup {y}) = SumFunctionOnSet(f, T \ {y}) + f[y]
    BY <2>6, <2>9, SumAdds
  <2>11. SumFunctionOnSet(f, T) = SumFunctionOnSet(f, T \ {y}) + f[y]
    BY <2>9, <2>10, Zenon
  <2>. QED
    BY <2>2, <2>8, <2>9, <2>11
<1>2. Cardinality(S) \in Nat
  BY FS_CardinalityType
<1>. QED
  BY <1>1, <1>2

(* Sums of a function's values: one more argument, one more term *)
LEMMA SumGrows ==
  ASSUME NEW f, NEW g, NEW y, IsFiniteSet(DOMAIN f), y \notin DOMAIN f, DOMAIN g = (DOMAIN f) \cup {y},
         g[y] \in Int, \A x \in DOMAIN f : f[x] \in Int /\ g[x] = f[x]
  PROVE  SumFunction(g) = SumFunction(f) + g[y]
<1>. DEFINE S == DOMAIN f
<1>1. \A x \in S \cup {y} : g[x] \in Int
  OBVIOUS
<1>2. SumFunctionOnSet(g, S \cup {y}) = SumFunctionOnSet(g, S) + g[y]
  BY <1>1, SumAdds
<1>3. SumFunctionOnSet(g, S) = SumFunctionOnSet(f, S)
  BY <1>1, SumAgrees
<1>. QED
  BY <1>2, <1>3 DEF SumFunction

LEMMA SumOfNone ==
  ASSUME NEW f, DOMAIN f = {}
  PROVE  SumFunction(f) = 0
BY SumEmpty DEF SumFunction

LEMMA SumInNat ==
  ASSUME NEW f, IsFiniteSet(DOMAIN f), \A x \in DOMAIN f : f[x] \in Nat
  PROVE  SumFunction(f) \in Nat
BY SumNat DEF SumFunction

-----------------------------------------------------------------------------
(* Shares *)
LEMMA DivFacts ==
  ASSUME NEW x \in Nat, NEW F \in Nat, F > 0
  PROVE x \div F \in Nat /\ F * (x \div F) <= x /\ x < F * (x \div F) + F
OBVIOUS

LEMMA MultMonotone ==
  ASSUME NEW n \in Nat, NEW a \in Nat, NEW b \in Nat, a <= b
  PROVE n * a <= n * b
OBVIOUS

LEMMA DivMonotone ==
  ASSUME NEW x \in Nat, NEW y \in Nat, x <= y, NEW F \in Nat, F > 0
  PROVE x \div F <= y \div F
<1>. DEFINE q == x \div F
            t == y \div F
<1>1. q \in Nat /\ F * q <= x /\ t \in Nat /\ y < F * t + F
  BY DivFacts
<1>. HIDE DEF q, t
<1>2. ASSUME q > t PROVE FALSE
  <2>1. F * (t + 1) <= F * q
    BY <1>1, <1>2, MultMonotone
  <2>2. F * (t + 1) = F * t + F
    BY <1>1
  <2>. QED
    BY <1>1, <2>1, <2>2
<1>3. q <= t
  BY <1>1, <1>2
<1>. QED
  BY <1>3 DEF q, t

LEMMA DivBelow ==
  ASSUME NEW n \in Nat, NEW a \in Nat, NEW F \in Nat, F > 0, a <= F
  PROVE (n * a) \div F <= n
<1>1. n * a <= n * F /\ n * a \in Nat /\ n * F \in Nat
  BY MultMonotone
<1>2. (n * F) \div F = n
  OBVIOUS
<1>. QED
  BY <1>1, <1>2, DivMonotone

-----------------------------------------------------------------------------
(* The inductive invariant *)
Decided == {d \in Decisions : decisions[d] # None}

(* Two callers never hold one advisory lock. *)
LocksExclude ==
    /\ \A c, o \in Callers : \A d \in Decisions : HoldsDecision(c, d) /\ HoldsDecision(o, d) => c = o
    /\ \A c, o \in Callers : \A p \in Decisions : HoldsPosition(c, p) /\ HoldsPosition(o, p) => c = o

(* What a call that reaches its final transaction brings to it *)
Prepared(r, x) ==
    /\ x \in Results /\ x.filled <= r.qty
    /\ x.status \notin Executed => x.filled = 0 /\ x.notional = 0

(* What a caller may rely on where it is *)
CallKnows(c) ==
    /\ call[c].pc = "idle" => call[c] = Idle
    /\ call[c].pc # "idle" => call[c].d \in Decisions /\ call[c].req \in Requests
    /\ call[c].pc \in {"insert", "quote", "commit"} => decisions[call[c].d] = None
    /\ call[c].pc = "insert" =>
          /\ intents[call[c].d] = None
          /\ call[c].req.side = "sell" => IsPosition(call[c].req.pos) /\ UnresolvedExits(call[c].req.pos) = {}
    /\ call[c].pc \in {"quote", "commit"} => intents[call[c].d] = call[c].req
    /\ call[c].pc = "quote" => reads[call[c].d] = 0
    /\ call[c].pc = "commit" => Prepared(call[c].req, call[c].result)

(* How the rows of one id belong together *)
RowsMatch ==
    /\ \A d \in Decisions : decisions[d] # None => intents[d] = decisions[d].req
    /\ \A d \in Decisions : reads[d] <= 1 /\ (intents[d] = None => reads[d] = 0)
    /\ \A d \in Decisions : intents[d] # None /\ intents[d].side = "sell" => IsPosition(intents[d].pos)
    /\ \A x \in Cancellations : cancelled[x] # None => IsOrder(cancelled[x])

(* The journal by decision ids *)
Numbered ==
    /\ \A d \in Decided : decisions[d].seq \in 1..sequence
    /\ \A n \in 1..sequence : \E d \in Decided : decisions[d].seq = n
    /\ \A d, e \in Decided : decisions[d].seq = decisions[e].seq => d = e
Chained ==
    /\ \A d \in Decided : decisions[d].seq = 1 => decisions[d].before = StartingCash
    /\ \A d, e \in Decided : decisions[d].seq = decisions[e].seq + 1 => decisions[d].before = decisions[e].after
    /\ \A d \in Decided : decisions[d].seq = sequence => cash = decisions[d].after
    /\ sequence = 0 => cash = StartingCash

(* The entry cost that belongs to the first n contracts of a position *)
Share(p, n) == IF n = decisions[p].filled THEN decisions[p].notional
               ELSE (decisions[p].notional * n) \div decisions[p].filled

CostsAreShares ==
    \A p \in Decisions : IsPosition(p) => Sold(p) <= decisions[p].filled /\ Allocated(p) = Share(p, Sold(p))

ExitsAreSingle == \A p \in Decisions : \A d, e \in UnresolvedExits(p) : d = e

Durable ==
    /\ IsFiniteSet(Decided) /\ RowsMatch /\ Numbered /\ Chained
    /\ ReservationsAreCovered /\ CostsAreShares /\ ExitsAreSingle

Inv ==
    TypeOK /\ LocksExclude /\ (\A c \in Callers : CallKnows(c)) /\ Durable

-----------------------------------------------------------------------------
(* Steps that move a caller only *)
CallRecords == [pc : Stages, d : Decisions \cup {None}, req : Requests \cup {None},
                result : Results \cup {None}]
durable == <<accountVars, intents, decisions, cancelled, reads>>

LEMMA ProjectionsStay ==
  ASSUME decisions' = decisions
  PROVE  /\ Decided' = Decided /\ \A p : SellsOf(p)' = SellsOf(p)
         /\ \A p : Sold(p)' = Sold(p) /\ Allocated(p)' = Allocated(p)
         /\ \A p : IsPosition(p)' <=> IsPosition(p)
         /\ \A p, n : Share(p, n)' = Share(p, n)
         /\ \A d : IsOrder(d)' <=> IsOrder(d)
<1>1. Decided' = Decided
  BY Zenon DEF Decided
<1>2. ASSUME NEW p PROVE SellsOf(p)' = SellsOf(p)
  BY Zenon DEF SellsOf, IsSellOf
<1>3. ASSUME NEW p PROVE Sold(p)' = Sold(p) /\ Allocated(p)' = Allocated(p)
  <2>1. [d \in SellsOf(p)' |-> decisions'[d].filled] = [d \in SellsOf(p) |-> decisions[d].filled]
    BY <1>2, Zenon
  <2>2. [d \in SellsOf(p)' |-> decisions'[d].cost] = [d \in SellsOf(p) |-> decisions[d].cost]
    BY <1>2, Zenon
  <2>. QED
    BY <2>1, <2>2, Zenon DEF Sold, Allocated
<1>. QED
  BY <1>1, <1>2, <1>3, Zenon DEF IsPosition, Share, IsOrder

LEMMA MoneyStays ==
  ASSUME Durable, cash' = cash, reserved' = reserved, sequence' = sequence, decisions' = decisions,
         cancelled' = cancelled
  PROVE  IsFiniteSet(Decided)' /\ Numbered' /\ Chained' /\ ReservationsAreCovered' /\ CostsAreShares'
<1>1. IsFiniteSet(Decided)'
  BY ProjectionsStay, Zenon DEF Durable
<1>2. Numbered' /\ Chained'
  BY ProjectionsStay DEF Durable, Numbered, Chained
<1>3. ReservationsAreCovered'
  <2>1. OpenOrders' = OpenOrders
    BY Zenon DEF OpenOrders, IsOrder, IsCancelled
  <2>2. [d \in OpenOrders' |-> decisions'[d].reservation] = [d \in OpenOrders |-> decisions[d].reservation]
    BY <2>1, Zenon
  <2>. QED
    BY <2>2, Zenon DEF Durable, ReservationsAreCovered
<1>4. CostsAreShares'
  BY ProjectionsStay, Zenon DEF Durable, CostsAreShares
<1>. QED
  BY <1>1, <1>2, <1>3, <1>4

LEMMA DurableStays ==
  ASSUME Durable, UNCHANGED durable
  PROVE  Durable'
<1>1. /\ cash' = cash /\ reserved' = reserved /\ sequence' = sequence /\ intents' = intents
      /\ decisions' = decisions /\ cancelled' = cancelled /\ reads' = reads
  BY DEF durable, accountVars
<1>2. RowsMatch'
  BY <1>1, ProjectionsStay, Zenon DEF Durable, RowsMatch
<1>3. ExitsAreSingle'
  BY <1>1, Zenon DEF Durable, ExitsAreSingle, UnresolvedExits
<1>. QED
  BY <1>1, <1>2, <1>3, MoneyStays DEF Durable

(* Locks: a caller that takes none beyond those it holds, or one nobody holds *)
LEMMA LocksMove ==
  ASSUME LocksExclude, NEW c \in Callers, \A o \in Callers : o # c => call'[o] = call[o],
         \A d \in Decisions : HoldsDecision(c, d)' => HoldsDecision(c, d) \/ \A o \in Callers : ~HoldsDecision(o, d),
         \A p \in Decisions : HoldsPosition(c, p)' => HoldsPosition(c, p) \/ \A o \in Callers : ~HoldsPosition(o, p)
  PROVE  LocksExclude'
<1>1. ASSUME NEW o \in Callers, o # c
      PROVE  \A d : (HoldsDecision(o, d)' <=> HoldsDecision(o, d)) /\ (HoldsPosition(o, d)' <=> HoldsPosition(o, d))
  BY <1>1, Zenon DEF HoldsDecision, HoldsPosition
<1>. QED
  BY <1>1, Zenon DEF LocksExclude

(* A step of one caller that leaves the database alone *)
LEMMA CallMoves ==
  ASSUME Inv, NEW c \in Callers, UNCHANGED durable,
         call' \in [Callers -> CallRecords], \A o \in Callers : o # c => call'[o] = call[o],
         CallKnows(c)',
         \A d \in Decisions : HoldsDecision(c, d)' => HoldsDecision(c, d) \/ \A o \in Callers : ~HoldsDecision(o, d),
         \A p \in Decisions : HoldsPosition(c, p)' => HoldsPosition(c, p) \/ \A o \in Callers : ~HoldsPosition(o, p)
  PROVE  Inv'
<1>1. /\ cash' = cash /\ reserved' = reserved /\ sequence' = sequence /\ intents' = intents
      /\ decisions' = decisions /\ cancelled' = cancelled /\ reads' = reads
  BY DEF durable, accountVars
<1>2. TypeOK'
  BY <1>1 DEF Inv, TypeOK, CallRecords
<1>3. LocksExclude'
  BY LocksMove, Zenon DEF Inv
<1>4. ASSUME NEW o \in Callers PROVE CallKnows(o)'
  <2>1. CASE o = c
    BY <2>1
  <2>2. CASE o # c
    <3>1. call'[o] = call[o] /\ CallKnows(o)
      BY <2>2 DEF Inv
    <3>2. \A p : UnresolvedExits(p)' = UnresolvedExits(p)
      BY <1>1, Zenon DEF UnresolvedExits
    <3>. QED
      BY <1>1, <3>1, <3>2, ProjectionsStay, Zenon DEF CallKnows
  <2>. QED
    BY <2>1, <2>2
<1>5. Durable'
  BY DurableStays DEF Inv
<1>. QED
  BY <1>2, <1>3, <1>4, <1>5 DEF Inv

LEMMA RequestFacts ==
  ASSUME NEW r \in Requests
  PROVE  /\ r # None /\ r \in Shapes /\ r.side \in {"buy", "sell", "pass"} /\ r.gtc \in BOOLEAN
         /\ r.qty \in Nat /\ r.limit \in Nat
         /\ r.side = "sell" => r.pos \in Decisions /\ ~r.gtc
<1>1. r # None /\ (r.side = "sell" => r.pos \in Decisions /\ ~r.gtc)
  BY LedgerAssumption, RowsAssumption
<1>2. r \in Shapes
  BY LedgerAssumption DEF Requests
<1>. QED
  BY <1>1, <1>2 DEF Shapes

LEMMA AskFacts ==
  ASSUME NEW a \in Asks
  PROVE  a[1] \in Decisions /\ a[2] \in Requests
BY LedgerAssumption DEF Requests

(* What a simulation returns is fit for the final transaction. *)
LEMMA UnquotedPrepared ==
  ASSUME NEW r \in Requests, NEW s \in {"rejected", "passed"}
  PROVE  Prepared(r, Unquoted(s))
BY RequestFacts DEF Prepared, Unquoted, Results, Statuses, Executed

LEMMA FillPrepared ==
  ASSUME NEW r \in Requests, NEW x \in FillResults(r)
  PROVE  Prepared(r, x)
<1>1. PICK f \in 0..r.qty, n \in 0..(r.qty * One) : x = FillResult(r, f, n)
  BY DEF FillResults
<1>2. r.qty \in Nat /\ One \in Nat
  BY RequestFacts, LedgerAssumption
<1>3. f \in Nat /\ f <= r.qty /\ n \in Nat
  BY <1>2
<1>4. FillStatus(r, f) \in Executed
  BY DEF FillStatus, Executed
<1>. QED
  BY <1>1, <1>3, <1>4 DEF FillResult, Prepared, Results, Statuses

LEMMA Revalidation ==
  ASSUME NEW r \in Requests, NEW x, Prepared(r, x), NEW y \in Revalidated(x)
  PROVE  Prepared(r, y)
BY UnquotedPrepared DEF Revalidated

-----------------------------------------------------------------------------
(* The steps that leave the database alone *)
LEMMA ReturnKeeps ==
  ASSUME Inv, NEW c \in Callers, UNCHANGED durable, Return(c)
  PROVE  Inv'
<1>1. call' = [call EXCEPT ![c] = Idle] /\ call \in [Callers -> CallRecords]
  BY DEF Inv, TypeOK, Return, CallRecords
<1>2. Idle \in CallRecords /\ Idle.pc = "idle"
  BY DEF Idle, CallRecords, Stages
<1>3. call' \in [Callers -> CallRecords] /\ call'[c] = Idle /\ \A o \in Callers : o # c => call'[o] = call[o]
  BY <1>1, <1>2
<1>4. CallKnows(c)'
  BY <1>2, <1>3 DEF CallKnows
<1>5. \A d : ~HoldsDecision(c, d)' /\ ~HoldsPosition(c, d)'
  BY <1>2, <1>3 DEF HoldsDecision, HoldsPosition
<1>. QED
  BY <1>3, <1>4, <1>5, CallMoves

LEMMA BeginKeeps ==
  ASSUME Inv, NEW c \in Callers, NEW a \in Asks, Begin(c, a[1], a[2])
  PROVE  Inv'
<1>. DEFINE k == [pc |-> "decision_lock", d |-> a[1], req |-> a[2], result |-> None]
<1>1. call' = [call EXCEPT ![c] = k] /\ call \in [Callers -> CallRecords] /\ UNCHANGED durable
  BY DEF Inv, TypeOK, Begin, CallRecords, durable
<1>2. k \in CallRecords /\ k.pc = "decision_lock" /\ k.d \in Decisions /\ k.req \in Requests
  BY AskFacts DEF CallRecords, Stages
<1>. HIDE DEF k
<1>3. call' \in [Callers -> CallRecords] /\ call'[c] = k /\ \A o \in Callers : o # c => call'[o] = call[o]
  BY <1>1, <1>2
<1>4. CallKnows(c)'
  BY <1>2, <1>3 DEF CallKnows
<1>5. \A d : ~HoldsDecision(c, d)' /\ ~HoldsPosition(c, d)'
  BY <1>2, <1>3 DEF HoldsDecision, HoldsPosition
<1>. QED
  BY <1>1, <1>3, <1>4, <1>5, CallMoves

(* A caller goes from one stage to the next. *)
LEMMA Went ==
  ASSUME Inv, NEW c \in Callers, NEW pc \in Stages, Goto(c, pc)
  PROVE  /\ call' \in [Callers -> CallRecords] /\ \A o \in Callers : o # c => call'[o] = call[o]
         /\ call'[c].pc = pc /\ call'[c].d = call[c].d /\ call'[c].req = call[c].req
BY DEF Inv, TypeOK, Goto, CallRecords

LEMMA LockDecisionKeeps ==
  ASSUME Inv, NEW c \in Callers, LockDecision(c)
  PROVE  Inv'
<1>. DEFINE pc == IF call[c].req.side = "sell" THEN "position_lock" ELSE "check"
<1>1. pc \in Stages /\ pc \in {"position_lock", "check"} /\ (pc = "check" => call[c].req.side # "sell")
  BY DEF Stages
<1>2. Goto(c, pc) /\ UNCHANGED durable /\ call[c].pc = "decision_lock"
      /\ \A o \in Callers : ~HoldsDecision(o, call[c].d)
  BY DEF LockDecision, durable
<1>. HIDE DEF pc
<1>3. /\ call' \in [Callers -> CallRecords] /\ \A o \in Callers : o # c => call'[o] = call[o]
      /\ call'[c].pc = pc /\ call'[c].d = call[c].d /\ call'[c].req = call[c].req
  BY <1>1, <1>2, Went
<1>4. CallKnows(c)'
  BY <1>1, <1>2, <1>3 DEF Inv, CallKnows
<1>5. \A d : HoldsDecision(c, d)' => d = call[c].d
  BY <1>3 DEF HoldsDecision
<1>6. \A p : ~HoldsPosition(c, p)'
  BY <1>1, <1>3 DEF HoldsPosition
<1>. QED
  BY <1>2, <1>3, <1>4, <1>5, <1>6, CallMoves

LEMMA LockPositionKeeps ==
  ASSUME Inv, NEW c \in Callers, LockPosition(c)
  PROVE  Inv'
<1>2. Goto(c, "check") /\ UNCHANGED durable /\ call[c].pc = "position_lock"
      /\ \A o \in Callers : ~HoldsPosition(o, call[c].req.pos)
  BY DEF LockPosition, durable
<1>3. /\ call' \in [Callers -> CallRecords] /\ \A o \in Callers : o # c => call'[o] = call[o]
      /\ call'[c].pc = "check" /\ call'[c].d = call[c].d /\ call'[c].req = call[c].req
  BY <1>2, Went DEF Stages
<1>4. CallKnows(c)'
  BY <1>2, <1>3 DEF Inv, CallKnows
<1>5. \A d : HoldsDecision(c, d)' => HoldsDecision(c, d)
  BY <1>2, <1>3 DEF HoldsDecision
<1>6. \A p : HoldsPosition(c, p)' => p = call[c].req.pos
  BY <1>3 DEF HoldsPosition
<1>. QED
  BY <1>2, <1>3, <1>4, <1>5, <1>6, CallMoves

LEMMA NewRequestKeeps ==
  ASSUME Inv, NEW c \in Callers, NewRequest(c)
  PROVE  Inv'
<1>2. /\ Goto(c, "insert") /\ UNCHANGED durable /\ call[c].pc = "check"
      /\ decisions[call[c].d] = None /\ intents[call[c].d] = None
      /\ call[c].req.side = "sell" => Closable(call[c].req)
  BY DEF NewRequest, durable
<1>3. /\ call' \in [Callers -> CallRecords] /\ \A o \in Callers : o # c => call'[o] = call[o]
      /\ call'[c].pc = "insert" /\ call'[c].d = call[c].d /\ call'[c].req = call[c].req
  BY <1>2, Went DEF Stages
<1>4. CallKnows(c)'
  <2>1. decisions' = decisions /\ intents' = intents
    BY <1>2 DEF durable
  <2>2. \A p : UnresolvedExits(p)' = UnresolvedExits(p) /\ (IsPosition(p)' <=> IsPosition(p))
    BY <2>1, Zenon DEF UnresolvedExits, IsPosition
  <2>3. call[c].d \in Decisions /\ call[c].req \in Requests
    BY <1>2 DEF Inv, CallKnows
  <2>. QED
    BY <1>2, <1>3, <2>1, <2>2, <2>3 DEF CallKnows, Closable
<1>5. \A d : HoldsDecision(c, d)' => HoldsDecision(c, d)
  BY <1>2, <1>3 DEF HoldsDecision
<1>6. \A p : HoldsPosition(c, p)' => HoldsPosition(c, p)
  BY <1>2, <1>3 DEF HoldsPosition
<1>. QED
  BY <1>2, <1>3, <1>4, <1>5, <1>6, CallMoves

(* A SELL found without its decision goes to its final transaction. *)
LEMMA ResumeSellKeeps ==
  ASSUME Inv, NEW c \in Callers, Resume(c), call[c].req.side = "sell"
  PROVE  Inv'
<1>. DEFINE x == Unquoted("rejected")
<1>1. call[c].d \in Decisions /\ call[c].req \in Requests
  BY DEF Inv, CallKnows, Resume
<1>2. /\ UNCHANGED durable /\ call[c].pc = "check" /\ call' = [call EXCEPT ![c].pc = "commit", ![c].result = x]
      /\ decisions[call[c].d] = None /\ intents[call[c].d] = call[c].req
  BY DEF Resume, durable
<1>3. Prepared(call[c].req, x) /\ x \in Results
  BY <1>1, UnquotedPrepared DEF Prepared
<1>. HIDE DEF x
<1>4. /\ call' \in [Callers -> CallRecords] /\ \A o \in Callers : o # c => call'[o] = call[o]
      /\ call'[c].pc = "commit" /\ call'[c].d = call[c].d /\ call'[c].req = call[c].req /\ call'[c].result = x
  BY <1>2, <1>3 DEF Inv, TypeOK, CallRecords, Stages
<1>5. CallKnows(c)'
  BY <1>1, <1>2, <1>3, <1>4 DEF CallKnows, durable, Prepared
<1>6. \A d : HoldsDecision(c, d)' => HoldsDecision(c, d)
  BY <1>2, <1>4 DEF HoldsDecision
<1>7. \A p : HoldsPosition(c, p)' => HoldsPosition(c, p)
  BY <1>2, <1>4 DEF HoldsPosition
<1>. QED
  BY <1>2, <1>4, <1>5, <1>6, <1>7, CallMoves

-----------------------------------------------------------------------------
(* The intent and the market-data read *)

(* While a caller holds a decision id, nobody else has business with it. *)
LEMMA Alone ==
  ASSUME Inv, NEW c \in Callers, NEW o \in Callers, o # c,
         call[c].pc \in {"check", "insert", "quote", "commit"},
         call[o].pc \in {"check", "insert", "quote", "commit"}
  PROVE  /\ call[o].d # call[c].d
         /\ call[o].req.side = "sell" /\ call[c].req.side = "sell" => call[o].req.pos # call[c].req.pos
<1>1. call[c].d \in Decisions /\ call[c].req \in Requests
  BY DEF Inv, CallKnows
<1>2. call[o].d # call[c].d
  BY <1>1 DEF Inv, LocksExclude, HoldsDecision
<1>3. call[c].req.side = "sell" => call[c].req.pos \in Decisions
  BY <1>1, RequestFacts
<1>. QED
  BY <1>2, <1>3 DEF Inv, LocksExclude, HoldsPosition

LEMMA CommitIntentKeeps ==
  ASSUME Inv, NEW c \in Callers, CommitIntent(c)
  PROVE  Inv'
<1>. DEFINE d == call[c].d
            r == call[c].req
<1>1. /\ call[c].pc = "insert" /\ d \in Decisions /\ r \in Requests /\ decisions[d] = None /\ intents[d] = None
      /\ r.side = "sell" => IsPosition(r.pos) /\ UnresolvedExits(r.pos) = {}
  BY DEF Inv, CallKnows, CommitIntent
<1>2. /\ cash' = cash /\ reserved' = reserved /\ sequence' = sequence /\ decisions' = decisions
      /\ cancelled' = cancelled /\ reads' = reads /\ intents' = [intents EXCEPT ![d] = r]
  BY <1>1 DEF CommitIntent, accountVars
<1>3. r # None /\ intents \in [Decisions -> Requests \cup {None}] /\ reads \in [Decisions -> Nat]
  BY <1>1, RequestFacts DEF Inv, TypeOK
<1>4. intents' \in [Decisions -> Requests \cup {None}] /\ intents'[d] = r /\ \A e \in Decisions : e # d => intents'[e] = intents[e]
  BY <1>1, <1>2, <1>3
<1>5. /\ call' \in [Callers -> CallRecords] /\ \A o \in Callers : o # c => call'[o] = call[o]
      /\ call'[c].d = d /\ call'[c].req = r
      /\ \/ call'[c].pc = "quote"
         \/ call'[c].pc = "commit" /\ call'[c].result = Unquoted("passed")
  <2>1. CASE r.side = "pass"
    <3>1. call' = [call EXCEPT ![c].pc = "commit", ![c].result = Unquoted("passed")]
      BY <1>1, <2>1 DEF CommitIntent
    <3>2. Unquoted("passed") \in Results
      BY <1>1, UnquotedPrepared DEF Prepared
    <3>. QED
      BY <3>1, <3>2 DEF Inv, TypeOK, CallRecords, Stages
  <2>2. CASE r.side # "pass"
    <3>1. Goto(c, "quote")
      BY <1>1, <2>2 DEF CommitIntent
    <3>. QED
      BY <3>1, Went DEF Stages
  <2>. QED
    BY <2>1, <2>2
<1>6. Prepared(r, Unquoted("passed"))
  BY <1>1, UnquotedPrepared
<1>. HIDE DEF d, r
<1>7. TypeOK'
  BY <1>2, <1>4, <1>5 DEF Inv, TypeOK, CallRecords
<1>8. LocksExclude'
  <2>1. \A e : (HoldsDecision(c, e)' => HoldsDecision(c, e)) /\ (HoldsPosition(c, e)' => HoldsPosition(c, e))
    BY <1>1, <1>5 DEF HoldsDecision, HoldsPosition, d, r
  <2>. QED
    BY <1>5, <2>1, LocksMove DEF Inv
<1>9. ASSUME NEW p, ~(r.side = "sell" /\ r.pos = p)
      PROVE  UnresolvedExits(p)' = UnresolvedExits(p)
  BY <1>1, <1>2, <1>3, <1>4, <1>9 DEF UnresolvedExits
<1>10. ASSUME NEW o \in Callers PROVE CallKnows(o)'
  <2>1. CASE o = c
    BY <1>1, <1>2, <1>3, <1>4, <1>5, <1>6, <2>1 DEF Inv, Durable, RowsMatch, CallKnows
  <2>2. CASE o # c
    <3>1. call'[o] = call[o] /\ CallKnows(o)
      BY <1>5, <2>2 DEF Inv
    <3>2. call[o].pc \in {"insert", "quote", "commit"} =>
             call[o].d # d /\ call[o].d \in Decisions /\ intents'[call[o].d] = intents[call[o].d]
      BY <1>1, <1>4, <2>2, <3>1, Alone DEF d, CallKnows
    <3>3. \A p : call[o].pc = "insert" /\ call[o].req.side = "sell" /\ p = call[o].req.pos =>
             UnresolvedExits(p)' = UnresolvedExits(p)
      <4>1. call[o].pc = "insert" /\ call[o].req.side = "sell" => ~(r.side = "sell" /\ r.pos = call[o].req.pos)
        BY <1>1, <2>2, Alone DEF r
      <4>. QED
        BY <1>9, <4>1
    <3>4. \A p : IsPosition(p)' <=> IsPosition(p)
      BY <1>2, ProjectionsStay
    <3>. QED
      BY <1>2, <3>1, <3>2, <3>3, <3>4 DEF CallKnows
  <2>. QED
    BY <2>1, <2>2
<1>11. RowsMatch'
  <2>1. \A p : (IsPosition(p)' <=> IsPosition(p)) /\ (IsOrder(p)' <=> IsOrder(p))
    BY <1>2, ProjectionsStay
  <2>2. \A e \in Decisions : decisions'[e] # None => intents'[e] = decisions'[e].req
    BY <1>1, <1>2, <1>4 DEF Inv, Durable, RowsMatch
  <2>3. \A e \in Decisions : reads'[e] <= 1 /\ (intents'[e] = None => reads'[e] = 0)
    BY <1>2, <1>3, <1>4 DEF Inv, Durable, RowsMatch
  <2>4. \A e \in Decisions : intents'[e] # None /\ intents'[e].side = "sell" => IsPosition(intents'[e].pos)
    BY <1>1, <1>4 DEF Inv, Durable, RowsMatch
  <2>5. \A x \in Cancellations : cancelled'[x] # None => IsOrder(cancelled'[x])
    BY <1>2 DEF Inv, Durable, RowsMatch
  <2>. QED
    BY <2>1, <2>2, <2>3, <2>4, <2>5, Zenon DEF RowsMatch
<1>12. ExitsAreSingle'
  <2>1. ASSUME NEW p \in Decisions, r.side = "sell" /\ r.pos = p PROVE UnresolvedExits(p)' \subseteq {d}
    <3>1. UnresolvedExits(p) = {}
      BY <1>1, <2>1
    <3>. QED
      BY <1>2, <1>4, <3>1 DEF UnresolvedExits
  <2>. QED
    BY <1>9, <2>1 DEF Inv, Durable, ExitsAreSingle
<1>13. Durable'
  BY <1>2, <1>11, <1>12, MoneyStays DEF Inv, Durable
<1>. QED
  BY <1>7, <1>8, <1>10, <1>13 DEF Inv

LEMMA QuoteKeeps ==
  ASSUME Inv, NEW c \in Callers, Quote(c)
  PROVE  Inv'
<1>. DEFINE d == call[c].d
            r == call[c].req
<1>1. /\ call[c].pc = "quote" /\ d \in Decisions /\ r \in Requests /\ decisions[d] = None /\ intents[d] = r
      /\ reads[d] = 0
  BY DEF Inv, CallKnows, Quote
<1>2. /\ cash' = cash /\ reserved' = reserved /\ sequence' = sequence /\ decisions' = decisions
      /\ cancelled' = cancelled /\ intents' = intents /\ reads' = [reads EXCEPT ![d] = @ + 1]
  BY DEF Quote, accountVars
<1>3. r # None /\ reads \in [Decisions -> Nat]
  BY <1>1, RequestFacts DEF Inv, TypeOK
<1>4. reads' \in [Decisions -> Nat] /\ reads'[d] = 1 /\ \A e \in Decisions : e # d => reads'[e] = reads[e]
  BY <1>1, <1>2, <1>3
<1>5. /\ call' \in [Callers -> CallRecords] /\ \A o \in Callers : o # c => call'[o] = call[o]
      /\ \/ call'[c] = Idle
         \/ call'[c].pc = "commit" /\ call'[c].d = d /\ call'[c].req = r /\ Prepared(r, call'[c].result)
  <2>0. call \in [Callers -> CallRecords] /\ Idle \in CallRecords
    BY DEF Inv, TypeOK, CallRecords, Idle, Stages
  <2>1. ASSUME NEW x, Prepared(r, x), call' = [call EXCEPT ![c].pc = "commit", ![c].result = x]
        PROVE  /\ call' \in [Callers -> CallRecords] /\ \A o \in Callers : o # c => call'[o] = call[o]
               /\ call'[c].pc = "commit" /\ call'[c].d = d /\ call'[c].req = r /\ call'[c].result = x
    BY <2>0, <2>1 DEF CallRecords, Stages, Prepared
  <2>2. CASE Return(c)
    BY <2>0, <2>2 DEF Return
  <2>3. CASE \E x \in FillResults(r) : call' = [call EXCEPT ![c].pc = "commit", ![c].result = x]
    <3>1. PICK x \in FillResults(r) : call' = [call EXCEPT ![c].pc = "commit", ![c].result = x]
      BY <2>3
    <3>2. Prepared(r, x)
      BY <1>1, FillPrepared
    <3>. QED
      BY <2>1, <3>1, <3>2
  <2>4. CASE call' = [call EXCEPT ![c].pc = "commit", ![c].result = Unquoted("rejected")]
    BY <1>1, <2>1, <2>4, UnquotedPrepared
  <2>. QED
    BY <2>2, <2>3, <2>4 DEF Quote
<1>. HIDE DEF d, r
<1>7. TypeOK'
  BY <1>2, <1>4, <1>5 DEF Inv, TypeOK, CallRecords
<1>8. LocksExclude'
  <2>1. \A e : (HoldsDecision(c, e)' => HoldsDecision(c, e)) /\ (HoldsPosition(c, e)' => HoldsPosition(c, e))
    BY <1>1, <1>5 DEF HoldsDecision, HoldsPosition, d, r, Idle
  <2>. QED
    BY <1>5, <2>1, LocksMove DEF Inv
<1>9. \A p : (UnresolvedExits(p)' = UnresolvedExits(p)) /\ (IsPosition(p)' <=> IsPosition(p)) /\ (IsOrder(p)' <=> IsOrder(p))
  BY <1>2, ProjectionsStay DEF UnresolvedExits
<1>10. ASSUME NEW o \in Callers PROVE CallKnows(o)'
  <2>1. CASE o = c /\ call'[c] = Idle
    BY <2>1 DEF CallKnows, Idle
  <2>2. CASE o = c /\ call'[c] # Idle
    BY <1>1, <1>2, <1>3, <1>5, <2>2 DEF CallKnows
  <2>3. CASE o # c
    <3>1. call'[o] = call[o] /\ CallKnows(o)
      BY <1>5, <2>3 DEF Inv
    <3>2. call[o].pc \in {"insert", "quote", "commit"} => reads'[call[o].d] = reads[call[o].d]
      BY <1>1, <1>4, <2>3, <3>1, Alone DEF d, CallKnows
    <3>. QED
      BY <1>2, <1>9, <3>1, <3>2 DEF CallKnows
  <2>. QED
    BY <2>1, <2>2, <2>3
<1>11. RowsMatch'
  <2>1. \A e \in Decisions : reads'[e] <= 1 /\ (intents'[e] = None => reads'[e] = 0)
    BY <1>1, <1>2, <1>3, <1>4 DEF Inv, Durable, RowsMatch
  <2>. QED
    BY <1>2, <1>9, <2>1, Zenon DEF Inv, Durable, RowsMatch
<1>12. ExitsAreSingle'
  BY <1>9 DEF Inv, Durable, ExitsAreSingle
<1>13. Durable'
  BY <1>2, <1>11, <1>12, MoneyStays DEF Inv, Durable
<1>. QED
  BY <1>7, <1>8, <1>10, <1>13 DEF Inv

-----------------------------------------------------------------------------
(* The final transactions *)

(* The row a final transaction adds *)
Row(r, x, cost, reservation, after) ==
    [req |-> r, status |-> x.status, filled |-> x.filled, notional |-> x.notional, cost |-> cost,
     reservation |-> reservation, seq |-> sequence + 1, before |-> cash, after |-> after]

(* What a final transaction has made sure of before it records *)
Justified(c, r, x, cost, reservation, after) ==
    /\ call[c].pc \in {"check", "commit"} /\ r = call[c].req
    /\ intents[call[c].d] = r /\ decisions[call[c].d] = None
    /\ Prepared(r, x) /\ cost \in Nat /\ after \in Nat
    /\ reservation = Reservation(r, x) /\ reserved + reservation <= after
    /\ r.side = "sell" =>
          /\ Sold(r.pos) + x.filled <= decisions[r.pos].filled
          /\ Allocated(r.pos) + cost = Share(r.pos, Sold(r.pos) + x.filled)

(* A caller writes a justified decision. *)
Recording(c) ==
    \E x, cost, reservation, after :
        /\ Justified(c, call[c].req, x, cost, reservation, after)
        /\ Record(c, call[c].d, call[c].req, x, cost, reservation, after)

LEMMA ReservationNat ==
  ASSUME NEW r \in Requests, NEW x, Prepared(r, x)
  PROVE  Reservation(r, x) \in Nat
<1>1. r.qty \in Nat /\ r.limit \in Nat /\ x.filled \in Nat /\ x.filled <= r.qty
  BY RequestFacts DEF Prepared, Results
<1>2. r.qty - x.filled \in Nat
  BY <1>1
<1>3. (r.qty - x.filled) * r.limit \in Nat
  BY <1>1, <1>2
<1>. QED
  BY <1>3 DEF Reservation

(* Typed rows, and where the sums are taken *)
LEMMA RowFacts ==
  ASSUME Inv
  PROVE  /\ \A d \in Decided : decisions[d] \in DecisionRows
         /\ \A p : IsFiniteSet(SellsOf(p)) /\ SellsOf(p) \subseteq Decided
         /\ IsFiniteSet(OpenOrders) /\ OpenOrders \subseteq Decided
         /\ \A p : Sold(p) \in Nat /\ Allocated(p) \in Nat
<1>1. \A d \in Decided : decisions[d] \in DecisionRows
  BY DEF Inv, TypeOK, Decided
<1>2. \A p : SellsOf(p) \subseteq Decided
  BY DEF SellsOf, IsSellOf, Decided
<1>3. OpenOrders \subseteq Decided
  BY DEF OpenOrders, IsOrder, Decided
<1>4. \A p : IsFiniteSet(SellsOf(p))
  BY <1>2, FS_Subset DEF Inv, Durable
<1>5. IsFiniteSet(OpenOrders)
  BY <1>3, FS_Subset DEF Inv, Durable
<1>6. ASSUME NEW p PROVE Sold(p) \in Nat /\ Allocated(p) \in Nat
  <2>. DEFINE f == [d \in SellsOf(p) |-> decisions[d].filled]
              g == [d \in SellsOf(p) |-> decisions[d].cost]
  <2>1. \A d \in SellsOf(p) : f[d] \in Nat /\ g[d] \in Nat
    BY <1>1, <1>2 DEF DecisionRows
  <2>2. DOMAIN f = SellsOf(p) /\ DOMAIN g = SellsOf(p)
    OBVIOUS
  <2>3. Sold(p) = SumFunction(f) /\ Allocated(p) = SumFunction(g)
    BY DEF Sold, Allocated
  <2>. HIDE DEF f, g
  <2>. QED
    BY <1>4, <2>1, <2>2, <2>3, SumInNat
<1>. QED
  BY <1>1, <1>2, <1>3, <1>4, <1>5, <1>6

(* One row more *)
LEMMA Recorded ==
  ASSUME Inv, NEW c \in Callers, NEW r, NEW x, NEW cost, NEW reservation, NEW after,
         Justified(c, r, x, cost, reservation, after),
         Record(c, call[c].d, r, x, cost, reservation, after)
  PROVE  /\ call[c].d \in Decisions /\ r \in Requests /\ Row(r, x, cost, reservation, after) \in DecisionRows
         /\ decisions' \in [Decisions -> DecisionRows \cup {None}]
         /\ decisions'[call[c].d] = Row(r, x, cost, reservation, after)
         /\ \A e \in Decisions : e # call[c].d => decisions'[e] = decisions[e]
         /\ Decided' = Decided \cup {call[c].d} /\ call[c].d \notin Decided
         /\ cash' = after /\ reserved' = reserved + reservation /\ sequence' = sequence + 1
         /\ intents' = intents /\ cancelled' = cancelled /\ reads' = reads
         /\ call' = [call EXCEPT ![c] = Idle]
<1>1. call[c].d \in Decisions /\ call[c].req \in Requests
  BY DEF Inv, CallKnows, Justified
<1>2. r \in Requests
  BY <1>1 DEF Justified
<1>3. reservation \in Nat
  BY <1>2, ReservationNat DEF Justified
<1>4. Row(r, x, cost, reservation, after) \in DecisionRows
  BY <1>2, <1>3 DEF Row, DecisionRows, Justified, Prepared, Results, Inv, TypeOK
<1>5. decisions' = [decisions EXCEPT ![call[c].d] = Row(r, x, cost, reservation, after)]
  BY DEF Record, Row
<1>6. decisions \in [Decisions -> DecisionRows \cup {None}]
  BY DEF Inv, TypeOK
<1>7. /\ decisions' \in [Decisions -> DecisionRows \cup {None}]
      /\ decisions'[call[c].d] = Row(r, x, cost, reservation, after)
      /\ \A e \in Decisions : e # call[c].d => decisions'[e] = decisions[e]
  BY <1>1, <1>4, <1>5, <1>6
<1>8. Decided' = Decided \cup {call[c].d} /\ call[c].d \notin Decided
  <2>1. decisions'[call[c].d] # None /\ decisions[call[c].d] = None
    BY <1>4, <1>7, RowsAssumption DEF Justified
  <2>. QED
    BY <1>1, <1>7, <2>1 DEF Decided
<1>. QED
  BY <1>1, <1>2, <1>4, <1>7, <1>8 DEF Record, Return

LEMMA RecordKeeps ==
  ASSUME Inv, NEW c \in Callers, NEW r, NEW x, NEW cost, NEW reservation, NEW after,
         Justified(c, r, x, cost, reservation, after),
         Record(c, call[c].d, r, x, cost, reservation, after)
  PROVE  Inv'
<1>. DEFINE d == call[c].d
            w == Row(r, x, cost, reservation, after)
<1>1. /\ d \in Decisions /\ r \in Requests /\ w \in DecisionRows
      /\ decisions' \in [Decisions -> DecisionRows \cup {None}] /\ decisions'[d] = w
      /\ \A e \in Decisions : e # d => decisions'[e] = decisions[e]
      /\ Decided' = Decided \cup {d} /\ d \notin Decided
      /\ cash' = after /\ reserved' = reserved + reservation /\ sequence' = sequence + 1
      /\ intents' = intents /\ cancelled' = cancelled /\ reads' = reads
      /\ call' = [call EXCEPT ![c] = Idle]
  BY Recorded
<1>2. /\ w.req = r /\ w.status = x.status /\ w.filled = x.filled /\ w.notional = x.notional /\ w.cost = cost
      /\ w.reservation = reservation /\ w.seq = sequence + 1 /\ w.before = cash /\ w.after = after
  BY DEF Row
<1>3. /\ call[c].pc \in {"check", "commit"} /\ r = call[c].req /\ intents[d] = r /\ decisions[d] = None
      /\ Prepared(r, x) /\ cost \in Nat /\ after \in Nat
      /\ reservation = Reservation(r, x) /\ reserved + reservation <= after
  BY DEF Justified
<1>. HIDE DEF d, w
<1>4. /\ cash \in Nat /\ reserved \in Nat /\ sequence \in Nat
      /\ w # None /\ reservation \in Nat /\ x.filled \in Nat /\ x.notional \in Nat
  BY <1>1, <1>2, <1>3, RowsAssumption, ReservationNat DEF Inv, TypeOK, Prepared, Results
<1>5. /\ call' \in [Callers -> CallRecords] /\ call'[c] = Idle
      /\ \A o \in Callers : o # c => call'[o] = call[o]
  BY <1>1 DEF Inv, TypeOK, CallRecords, Idle, Stages
<1>6. TypeOK'
  BY <1>1, <1>3, <1>4, <1>5 DEF Inv, TypeOK, CallRecords
<1>7. LocksExclude'
  <2>1. \A e : ~HoldsDecision(c, e)' /\ ~HoldsPosition(c, e)'
    BY <1>5 DEF HoldsDecision, HoldsPosition, Idle
  <2>. QED
    BY <1>5, <2>1, LocksMove DEF Inv
<1>8. \A p \in Decisions : IsPosition(p) => p # d /\ IsPosition(p)'
  BY <1>1, <1>3 DEF IsPosition
<1>9. \A p : UnresolvedExits(p)' \subseteq UnresolvedExits(p)
  BY <1>1, <1>4 DEF UnresolvedExits
<1>10. ASSUME NEW o \in Callers PROVE CallKnows(o)'
  <2>1. CASE o = c
    BY <1>5, <2>1 DEF CallKnows, Idle
  <2>2. CASE o # c
    <3>1. call'[o] = call[o] /\ CallKnows(o)
      BY <1>5, <2>2 DEF Inv
    <3>2. call[o].pc \in {"insert", "quote", "commit"} =>
            /\ call[o].d # d /\ call[o].d \in Decisions /\ decisions'[call[o].d] = decisions[call[o].d]
            /\ call[o].req.side = "sell" => call[o].req.pos \in Decisions
      BY <1>1, <1>3, <2>2, <3>1, Alone, RequestFacts DEF d, CallKnows
    <3>3. \A p : call[o].pc = "insert" /\ call[o].req.side = "sell" /\ p = call[o].req.pos =>
             IsPosition(p)' /\ UnresolvedExits(p)' = {}
      BY <1>8, <1>9, <3>1, <3>2 DEF CallKnows
    <3>. QED
      BY <1>1, <3>1, <3>2, <3>3 DEF CallKnows
  <2>. QED
    BY <2>1, <2>2
<1>11. IsFiniteSet(Decided)'
  BY <1>1, FS_AddElement DEF Inv, Durable
<1>12. RowsMatch'
  <2>1. \A e \in Decisions : decisions'[e] # None => intents'[e] = decisions'[e].req
    BY <1>1, <1>2, <1>3 DEF Inv, Durable, RowsMatch
  <2>2. ASSUME NEW e \in Decisions, intents'[e] # None, intents'[e].side = "sell"
        PROVE  IsPosition(intents[e].pos)'
    <3>1. intents[e] \in Requests /\ IsPosition(intents[e].pos)
      BY <1>1, <2>2 DEF Inv, TypeOK, Durable, RowsMatch
    <3>2. intents[e].pos \in Decisions
      BY <1>1, <2>2, <3>1, RequestFacts
    <3>3. \A p : p = intents[e].pos => IsPosition(p)'
      BY <1>8, <3>1, <3>2
    <3>. QED
      BY <1>1, <3>3
  <2>3. ASSUME NEW y \in Cancellations, cancelled'[y] # None
        PROVE  IsOrder(cancelled[y])'
    <3>1. cancelled[y] \in Decisions /\ IsOrder(cancelled[y])
      BY <1>1, <2>3 DEF Inv, TypeOK, Durable, RowsMatch
    <3>2. \A e \in Decisions : IsOrder(e) => IsOrder(e)'
      BY <1>1, <1>3 DEF IsOrder
    <3>3. \A e : e = cancelled[y] => IsOrder(e)'
      BY <3>1, <3>2
    <3>. QED
      BY <1>1, <3>3
  <2>4. \A e \in Decisions : reads'[e] <= 1 /\ (intents'[e] = None => reads'[e] = 0)
    BY <1>1 DEF Inv, Durable, RowsMatch
  <2>. QED
    BY <2>1, <2>2, <2>3, <2>4, Zenon DEF RowsMatch
<1>13. \A e \in Decided : e \in Decisions /\ e # d /\ decisions'[e] = decisions[e] /\ decisions[e].seq \in 1..sequence
  BY <1>1 DEF Decided, Inv, Durable, Numbered
<1>14. Numbered'
  <2>1. \A e \in Decided' : decisions'[e].seq \in 1..sequence'
    BY <1>1, <1>2, <1>4, <1>13
  <2>2. ASSUME NEW n \in 1..sequence' PROVE \E e \in Decided' : decisions'[e].seq = n
    <3>1. CASE n = sequence + 1
      BY <1>1, <1>2, <3>1
    <3>2. CASE n # sequence + 1
      <4>1. n \in 1..sequence
        BY <1>1, <1>4, <3>2
      <4>2. PICK e \in Decided : decisions[e].seq = n
        BY <4>1 DEF Inv, Durable, Numbered
      <4>. QED
        BY <1>1, <1>13, <4>2
    <3>. QED
      BY <3>1, <3>2
  <2>3. ASSUME NEW e \in Decided', NEW f \in Decided', decisions'[e].seq = decisions'[f].seq PROVE e = f
    <3>1. CASE e \in Decided /\ f \in Decided
      BY <1>13, <2>3, <3>1 DEF Inv, Durable, Numbered
    <3>2. CASE ~(e \in Decided /\ f \in Decided)
      BY <1>1, <1>2, <1>4, <1>13, <2>3, <3>2
    <3>. QED
      BY <3>1, <3>2
  <2>. QED
    BY <2>1, <2>2, <2>3 DEF Numbered
<1>15. Chained'
  <2>1. ASSUME NEW e \in Decided', decisions'[e].seq = 1 PROVE decisions'[e].before = StartingCash
    BY <1>1, <1>2, <1>4, <1>13, <2>1 DEF Inv, Durable, Chained
  <2>2. ASSUME NEW e \in Decided', NEW f \in Decided', decisions'[e].seq = decisions'[f].seq + 1
        PROVE  decisions'[e].before = decisions'[f].after
    <3>1. CASE e \in Decided /\ f \in Decided
      BY <1>13, <2>2, <3>1 DEF Inv, Durable, Chained
    <3>2. CASE e = d /\ f \in Decided
      <4>1. decisions[f].seq = sequence
        BY <1>1, <1>2, <1>4, <1>13, <2>2, <3>2
      <4>. QED
        BY <1>1, <1>2, <1>13, <3>2, <4>1 DEF Inv, Durable, Chained
    <3>3. CASE f = d
      BY <1>1, <1>2, <1>4, <1>13, <2>2, <3>3
    <3>. QED
      BY <1>1, <3>1, <3>2, <3>3
  <2>3. ASSUME NEW e \in Decided', decisions'[e].seq = sequence' PROVE cash' = decisions'[e].after
    BY <1>1, <1>2, <1>4, <1>13, <2>3
  <2>4. sequence' # 0
    BY <1>1, <1>4
  <2>. QED
    BY <2>1, <2>2, <2>3, <2>4 DEF Chained
<1>16. ReservationsAreCovered'
  <2>. DEFINE f == [e \in OpenOrders |-> decisions[e].reservation]
              g == [e \in OpenOrders' |-> decisions'[e].reservation]
  <2>1. IsFiniteSet(OpenOrders) /\ OpenOrders \subseteq Decided
    BY RowFacts
  <2>2. DOMAIN f = OpenOrders /\ DOMAIN g = OpenOrders'
    OBVIOUS
  <2>3. \A e \in OpenOrders : f[e] \in Int /\ decisions'[e].reservation = f[e]
    BY <1>13, <2>1, RowFacts DEF DecisionRows
  <2>4. d \notin OpenOrders
    BY <1>1, <2>1
  <2>5. \A e \in Decisions : e # d => (e \in OpenOrders' <=> e \in OpenOrders)
    BY <1>1 DEF OpenOrders, IsOrder, IsCancelled
  <2>6. ~IsCancelled(d)
    <3>1. ASSUME NEW y \in Cancellations, cancelled[y] = d PROVE FALSE
      <4>1. IsOrder(d)
        BY <1>1, <3>1, LedgerAssumption DEF Inv, Durable, RowsMatch
      <4>. QED
        BY <1>3, <4>1 DEF IsOrder
    <3>. QED
      BY <3>1 DEF IsCancelled
  <2>7. d \in OpenOrders' <=> r.gtc /\ x.status \in Executed
    BY <1>1, <1>2, <1>4, <2>6 DEF OpenOrders, IsOrder, IsCancelled
  <2>8. reserved = SumFunction(f)
    BY DEF Inv, Durable, ReservationsAreCovered
  <2>9. SumFunction(g) = SumFunction(f) + reservation
    <3>1. CASE r.gtc /\ x.status \in Executed
      <4>1. OpenOrders' = OpenOrders \cup {d}
        BY <1>1, <2>5, <2>7, <3>1 DEF OpenOrders
      <4>2. g[d] = reservation /\ g[d] \in Int /\ \A e \in OpenOrders : g[e] = f[e]
        BY <1>1, <1>2, <1>4, <2>3, <4>1
      <4>. HIDE DEF f, g
      <4>3. /\ IsFiniteSet(DOMAIN f) /\ d \notin DOMAIN f /\ DOMAIN g = (DOMAIN f) \cup {d}
            /\ \A e \in DOMAIN f : f[e] \in Int /\ g[e] = f[e]
        BY <2>1, <2>2, <2>3, <2>4, <4>1, <4>2
      <4>4. SumFunction(g) = SumFunction(f) + g[d]
        BY <4>2, <4>3, SumGrows
      <4>. QED
        BY <4>2, <4>4
    <3>2. CASE ~(r.gtc /\ x.status \in Executed)
      <4>1. OpenOrders' = OpenOrders
        BY <1>1, <2>4, <2>5, <2>7, <3>2 DEF OpenOrders
      <4>2. g = f
        BY <2>3, <4>1
      <4>3. reservation = 0
        BY <1>3, <3>2 DEF Reservation
      <4>4. SumFunction(f) \in Int
        BY <1>4, <2>8
      <4>. HIDE DEF f, g
      <4>. QED
        BY <4>2, <4>3, <4>4
    <3>. QED
      BY <3>1, <3>2
  <2>10. reserved' = SumFunction(g)
    BY <1>1, <2>8, <2>9
  <2>. QED
    BY <1>1, <1>3, <2>10 DEF ReservationsAreCovered
<1>17. CostsAreShares'
  <2>1. ASSUME NEW p \in Decisions, IsPosition(p)'
        PROVE  Sold(p)' <= decisions'[p].filled /\ Allocated(p)' = Share(p, Sold(p))'
    <3>. DEFINE f == [e \in SellsOf(p) |-> decisions[e].filled]
                g == [e \in SellsOf(p)' |-> decisions'[e].filled]
                a == [e \in SellsOf(p) |-> decisions[e].cost]
                b == [e \in SellsOf(p)' |-> decisions'[e].cost]
    <3>1. IsFiniteSet(SellsOf(p)) /\ SellsOf(p) \subseteq Decided /\ Sold(p) \in Nat /\ Allocated(p) \in Nat
      BY RowFacts
    <3>2. /\ Sold(p) = SumFunction(f) /\ Allocated(p) = SumFunction(a)
          /\ Sold(p)' = SumFunction(g) /\ Allocated(p)' = SumFunction(b)
      BY DEF Sold, Allocated
    <3>3. /\ DOMAIN f = SellsOf(p) /\ DOMAIN g = SellsOf(p)' /\ DOMAIN a = SellsOf(p) /\ DOMAIN b = SellsOf(p)'
      OBVIOUS
    <3>4. \A e \in SellsOf(p) : /\ f[e] \in Int /\ decisions'[e].filled = f[e]
                                /\ a[e] \in Int /\ decisions'[e].cost = a[e]
      BY <1>13, <3>1, RowFacts DEF DecisionRows
    <3>5. \A e \in Decisions : e # d => (e \in SellsOf(p)' <=> e \in SellsOf(p))
      BY <1>1 DEF SellsOf, IsSellOf
    <3>6. d \notin SellsOf(p) /\ (d \in SellsOf(p)' <=> r.side = "sell" /\ r.pos = p)
      BY <1>1, <1>2, <1>3, <1>4 DEF SellsOf, IsSellOf
    <3>7. CASE p = d
      <4>1. w.req.side = "buy" /\ w.filled > 0 /\ w.notional \in Nat /\ w.filled \in Nat
        BY <1>1, <1>2, <1>4, <2>1, <3>7 DEF IsPosition
      <4>2. \A e : e \notin SellsOf(p)
        <5>1. ASSUME NEW e \in SellsOf(p) PROVE FALSE
          <6>1. e \in Decisions /\ decisions[e] # None /\ decisions[e] \in DecisionRows
                /\ decisions[e].req.side = "sell" /\ decisions[e].req.pos = d
            BY <3>1, <3>7, RowFacts DEF SellsOf, IsSellOf
          <6>2. intents[e] = decisions[e].req /\ intents[e] # None
            BY <6>1, RowsAssumption DEF Inv, Durable, RowsMatch, DecisionRows
          <6>3. IsPosition(d)
            BY <6>1, <6>2 DEF Inv, Durable, RowsMatch
          <6>. QED
            BY <1>3, <6>3 DEF IsPosition
        <5>. QED
          BY <5>1
      <4>3. SellsOf(p)' = {}
        BY <1>2, <3>5, <3>6, <4>1, <4>2 DEF SellsOf
      <4>4. Sold(p)' = 0 /\ Allocated(p)' = 0
        <5>. HIDE DEF g, b
        <5>. QED
          BY <3>2, <3>3, <4>3, SumOfNone
      <4>5. Share(p, Sold(p))' = 0
        <5>1. (w.notional * 0) \div w.filled = 0
          BY <4>1
        <5>. QED
          BY <1>1, <3>7, <4>1, <4>4, <5>1 DEF Share
      <4>. QED
        BY <1>1, <3>7, <4>1, <4>4, <4>5
    <3>8. CASE p # d /\ r.side = "sell" /\ r.pos = p
      <4>1. SellsOf(p)' = SellsOf(p) \cup {d}
        BY <1>1, <3>5, <3>6, <3>8 DEF SellsOf
      <4>2. /\ g[d] = x.filled /\ g[d] \in Int /\ b[d] = cost /\ b[d] \in Int
            /\ \A e \in SellsOf(p) : g[e] = f[e] /\ b[e] = a[e]
        BY <1>1, <1>2, <1>3, <1>4, <3>4, <4>1
      <4>3. Sold(p)' = Sold(p) + x.filled /\ Allocated(p)' = Allocated(p) + cost
        <5>. HIDE DEF f, g, a, b
        <5>1. SumFunction(g) = SumFunction(f) + g[d]
          <6>1. /\ IsFiniteSet(DOMAIN f) /\ d \notin DOMAIN f /\ DOMAIN g = (DOMAIN f) \cup {d}
                /\ \A e \in DOMAIN f : f[e] \in Int /\ g[e] = f[e]
            BY <3>1, <3>3, <3>4, <3>6, <4>1, <4>2
          <6>. QED
            BY <4>2, <6>1, SumGrows
        <5>2. SumFunction(b) = SumFunction(a) + b[d]
          <6>1. /\ IsFiniteSet(DOMAIN a) /\ d \notin DOMAIN a /\ DOMAIN b = (DOMAIN a) \cup {d}
                /\ \A e \in DOMAIN a : a[e] \in Int /\ b[e] = a[e]
            BY <3>1, <3>3, <3>4, <3>6, <4>1, <4>2
          <6>. QED
            BY <4>2, <6>1, SumGrows
        <5>. QED
          BY <3>2, <4>2, <5>1, <5>2
      <4>4. Sold(p) + x.filled <= decisions[p].filled /\ Allocated(p) + cost = Share(p, Sold(p) + x.filled)
        BY <3>8 DEF Justified
      <4>5. decisions'[p] = decisions[p]
        BY <1>1, <3>8
      <4>. QED
        BY <4>3, <4>4, <4>5 DEF Share
    <3>9. CASE p # d /\ ~(r.side = "sell" /\ r.pos = p)
      <4>1. SellsOf(p)' = SellsOf(p)
        BY <1>1, <3>5, <3>6, <3>9 DEF SellsOf
      <4>2. g = f /\ b = a
        BY <3>4, <4>1
      <4>3. Sold(p)' = Sold(p) /\ Allocated(p)' = Allocated(p)
        <5>. HIDE DEF f, g, a, b
        <5>. QED
          BY <3>2, <4>2
      <4>4. decisions'[p] = decisions[p]
        BY <1>1, <3>9
      <4>5. IsPosition(p)
        BY <2>1, <4>4 DEF IsPosition
      <4>. QED
        BY <4>3, <4>4, <4>5 DEF Inv, Durable, CostsAreShares, Share
    <3>. QED
      BY <3>7, <3>8, <3>9
  <2>. QED
    BY <2>1 DEF CostsAreShares
<1>18. ExitsAreSingle'
  BY <1>9 DEF Inv, Durable, ExitsAreSingle
<1>. QED
  BY <1>6, <1>7, <1>10, <1>11, <1>12, <1>14, <1>15, <1>16, <1>17, <1>18 DEF Inv, Durable

LEMMA RecordingKeeps ==
  ASSUME Inv, NEW c \in Callers, Recording(c)
  PROVE  Inv'
BY RecordKeeps DEF Recording

LEMMA CommitPreparedRecords ==
  ASSUME Inv, NEW c \in Callers, NEW prepared, Prepared(call[c].req, prepared),
         call[c].pc \in {"check", "commit"}, call[c].req.side # "sell",
         intents[call[c].d] = call[c].req, decisions[call[c].d] = None,
         CommitPrepared(c, call[c].d, call[c].req, prepared)
  PROVE  Recording(c)
<1>. DEFINE d == call[c].d
            r == call[c].req
<1>1. r \in Requests
  BY DEF Inv, CallKnows
<1>2. cash \in Nat /\ reserved \in Nat /\ reserved <= cash
  BY DEF Inv, TypeOK, Durable, ReservationsAreCovered
<1>3. PICK x \in Revalidated(prepared) :
        IF x.status \in Executed /\ x.notional + Reservation(r, x) > cash - reserved
        THEN Record(c, d, r, Unquoted("rejected"), 0, 0, cash)
        ELSE Record(c, d, r, x, 0, Reservation(r, x), cash - x.notional)
  BY DEF CommitPrepared
<1>4. Prepared(r, x) /\ Reservation(r, x) \in Nat /\ x.notional \in Nat
  BY <1>1, Revalidation, ReservationNat DEF Prepared, Results
<1>5. CASE Record(c, d, r, Unquoted("rejected"), 0, 0, cash)
  <2>1. Prepared(r, Unquoted("rejected")) /\ Reservation(r, Unquoted("rejected")) = 0
    BY <1>1, UnquotedPrepared DEF Reservation, Unquoted, Executed
  <2>2. Justified(c, r, Unquoted("rejected"), 0, 0, cash)
    BY <1>2, <2>1 DEF Justified
  <2>. QED
    BY <1>5, <2>2, Zenon DEF Recording
<1>6. CASE /\ ~(x.status \in Executed /\ x.notional + Reservation(r, x) > cash - reserved)
           /\ Record(c, d, r, x, 0, Reservation(r, x), cash - x.notional)
  <2>1. x.status \notin Executed => x.notional = 0 /\ Reservation(r, x) = 0
    BY <1>4 DEF Prepared, Reservation
  <2>2. cash - x.notional \in Nat /\ reserved + Reservation(r, x) <= cash - x.notional
    BY <1>2, <1>4, <1>6, <2>1
  <2>3. Justified(c, r, x, 0, Reservation(r, x), cash - x.notional)
    BY <1>4, <2>2 DEF Justified
  <2>. QED
    BY <1>6, <2>3, Zenon DEF Recording
<1>. QED
  BY <1>3, <1>5, <1>6

(* A larger part of a position never has a smaller share of its cost, nor     *)
(* more than the whole.                                                       *)
LEMMA ShareMonotone ==
  ASSUME Inv, NEW p \in Decisions, IsPosition(p), NEW a \in Nat, NEW b \in Nat, a <= b, b <= decisions[p].filled
  PROVE  /\ Share(p, a) \in Nat /\ Share(p, b) \in Nat
         /\ Share(p, a) <= Share(p, b) /\ Share(p, b) <= decisions[p].notional
<1>. DEFINE n == decisions[p].notional
            f == decisions[p].filled
<1>1. n \in Nat /\ f \in Nat /\ f > 0
  BY DEF Inv, TypeOK, IsPosition, DecisionRows
<1>2. Share(p, a) = (IF a = f THEN n ELSE (n * a) \div f) /\ Share(p, b) = (IF b = f THEN n ELSE (n * b) \div f)
  BY DEF Share
<1>. HIDE DEF n, f
<1>3. a <= b /\ b <= f /\ a <= f
  BY <1>1 DEF f
<1>4. n * a \in Nat /\ n * b \in Nat /\ n * a <= n * b
  BY <1>1, MultMonotone
<1>5. (n * a) \div f \in Nat /\ (n * b) \div f \in Nat /\ (n * a) \div f <= (n * b) \div f
  BY <1>1, <1>4, DivFacts, DivMonotone
<1>6. (n * a) \div f <= n /\ (n * b) \div f <= n
  BY <1>1, <1>3, DivBelow
<1>7. Share(p, a) \in Nat /\ Share(p, b) \in Nat /\ Share(p, a) <= Share(p, b) /\ Share(p, b) <= n
  BY <1>1, <1>2, <1>3, <1>5, <1>6
<1>. QED
  BY <1>7 DEF n

LEMMA CommitExitRecords ==
  ASSUME Inv, NEW c \in Callers, call[c].pc = "commit", call[c].req.side = "sell",
         CommitExit(c, call[c].d, call[c].req, call[c].result)
  PROVE  Recording(c)
<1>. DEFINE d == call[c].d
            r == call[c].req
            p == r.pos
<1>1. /\ d \in Decisions /\ r \in Requests /\ intents[d] = r /\ decisions[d] = None
      /\ Prepared(r, call[c].result)
  BY DEF Inv, CallKnows
<1>2. p \in Decisions /\ IsPosition(p) /\ ~r.gtc /\ r.qty \in Nat
  BY <1>1, RequestFacts DEF Inv, Durable, RowsMatch
<1>3. /\ cash \in Nat /\ reserved \in Nat /\ reserved <= cash /\ Sold(p) \in Nat /\ Allocated(p) \in Nat
      /\ decisions[p].filled \in Nat /\ decisions[p] \in DecisionRows
  BY <1>2, RowFacts DEF Inv, TypeOK, Durable, ReservationsAreCovered, IsPosition, DecisionRows
<1>4. Sold(p) <= decisions[p].filled /\ Allocated(p) = Share(p, Sold(p))
  BY <1>2 DEF Inv, Durable, CostsAreShares
<1>5. PICK x \in (IF r.qty > Remaining(p) THEN {Unquoted("rejected")} ELSE Revalidated(call[c].result)) :
        Record(c, d, r, x, CumulativeCost(p, Sold(p), x.filled) - Allocated(p), 0, cash + x.notional)
  BY DEF CommitExit
<1>6. Prepared(r, x) /\ (r.qty > Remaining(p) => x.filled = 0)
  <2>1. CASE r.qty > Remaining(p)
    <3>1. x = Unquoted("rejected")
      BY <1>5, <2>1
    <3>2. Prepared(r, Unquoted("rejected"))
      BY <1>1, UnquotedPrepared
    <3>3. Unquoted("rejected").filled = 0
      BY DEF Unquoted
    <3>. QED
      BY <3>1, <3>2, <3>3
  <2>2. CASE ~(r.qty > Remaining(p))
    BY <1>1, <1>5, <2>2, Revalidation
  <2>. QED
    BY <2>1, <2>2
<1>7. x.filled \in Nat /\ x.notional \in Nat /\ x.filled <= r.qty
  BY <1>6 DEF Prepared, Results
<1>. DEFINE cost == CumulativeCost(p, Sold(p), x.filled) - Allocated(p)
<1>8. Sold(p) + x.filled <= decisions[p].filled /\ Sold(p) + x.filled \in Nat
  BY <1>2, <1>3, <1>4, <1>6, <1>7 DEF Remaining
<1>9. CumulativeCost(p, Sold(p), x.filled) = Share(p, Sold(p) + x.filled)
  BY DEF CumulativeCost, Share
<1>10. /\ Share(p, Sold(p)) \in Nat /\ Share(p, Sold(p) + x.filled) \in Nat
       /\ Share(p, Sold(p)) <= Share(p, Sold(p) + x.filled)
  BY <1>2, <1>3, <1>7, <1>8, ShareMonotone
<1>11. cost \in Nat /\ Allocated(p) + cost = Share(p, Sold(p) + x.filled)
  BY <1>3, <1>4, <1>9, <1>10
<1>12. Reservation(r, x) = 0 /\ cash + x.notional \in Nat /\ reserved + 0 <= cash + x.notional
  BY <1>2, <1>3, <1>7 DEF Reservation
<1>13. Record(c, d, r, x, cost, 0, cash + x.notional)
  BY <1>5
<1>. HIDE DEF cost
<1>14. Justified(c, r, x, cost, 0, cash + x.notional)
  BY <1>1, <1>6, <1>8, <1>11, <1>12 DEF Justified
<1>. QED
  BY <1>13, <1>14, Zenon DEF Recording

(* Cancellation of an order *)
LEMMA CancelOrderKeeps ==
  ASSUME Inv, NEW x \in Cancellations, NEW d \in Decisions, CancelOrder(x, d)
  PROVE  Inv'
<1>1. /\ cancelled[x] = None /\ IsOrder(d) /\ ~IsCancelled(d)
      /\ decisions[d].reservation <= reserved
      /\ cancelled' = [cancelled EXCEPT ![x] = d] /\ reserved' = reserved - decisions[d].reservation
      /\ cash' = cash /\ sequence' = sequence /\ intents' = intents /\ decisions' = decisions
      /\ call' = call /\ reads' = reads
  BY DEF CancelOrder
<1>2. d \in Decided /\ decisions[d].reservation \in Nat /\ reserved \in Nat /\ cash \in Nat
  BY <1>1, RowFacts DEF IsOrder, Decided, DecisionRows, Inv, TypeOK
<1>3. /\ cancelled' \in [Cancellations -> Decisions \cup {None}] /\ cancelled'[x] = d
      /\ \A y \in Cancellations : y # x => cancelled'[y] = cancelled[y]
  BY <1>1 DEF Inv, TypeOK
<1>4. TypeOK'
  BY <1>1, <1>2, <1>3 DEF Inv, TypeOK
<1>5. LocksExclude'
  BY <1>1, Zenon DEF Inv, LocksExclude, HoldsDecision, HoldsPosition
<1>6. \A p : (IsPosition(p)' <=> IsPosition(p)) /\ (IsOrder(p)' <=> IsOrder(p)) /\ UnresolvedExits(p)' = UnresolvedExits(p)
  BY <1>1, ProjectionsStay DEF UnresolvedExits
<1>7. \A c \in Callers : CallKnows(c)'
  BY <1>1, <1>6, Zenon DEF Inv, CallKnows
<1>8. RowsMatch'
  <2>1. \A y \in Cancellations : cancelled'[y] # None => IsOrder(cancelled'[y])
    BY <1>1, <1>3 DEF Inv, Durable, RowsMatch
  <2>. QED
    BY <1>1, <1>6, <2>1, Zenon DEF Inv, Durable, RowsMatch
<1>9. IsFiniteSet(Decided)' /\ Numbered' /\ Chained' /\ CostsAreShares'
  <2>1. Decided' = Decided
    BY <1>1, ProjectionsStay
  <2>2. Numbered' /\ Chained'
    BY <1>1, <2>1 DEF Inv, Durable, Numbered, Chained
  <2>3. CostsAreShares'
    BY <1>1, ProjectionsStay, Zenon DEF Inv, Durable, CostsAreShares
  <2>. QED
    BY <2>1, <2>2, <2>3 DEF Inv, Durable
<1>10. ExitsAreSingle'
  BY <1>6 DEF Inv, Durable, ExitsAreSingle
<1>11. ReservationsAreCovered'
  <2>. DEFINE f == [e \in OpenOrders' |-> decisions'[e].reservation]
              g == [e \in OpenOrders |-> decisions[e].reservation]
  <2>1. IsFiniteSet(OpenOrders) /\ OpenOrders \subseteq Decided
    BY RowFacts
  <2>2. \A e \in Decisions : IsCancelled(e)' <=> IsCancelled(e) \/ e = d
    <3>1. ASSUME NEW e \in Decisions PROVE IsCancelled(e)' => IsCancelled(e) \/ e = d
      BY <1>3 DEF IsCancelled
    <3>2. ASSUME NEW e \in Decisions, IsCancelled(e) PROVE IsCancelled(e)'
      <4>1. PICK y \in Cancellations : cancelled[y] = e
        BY <3>2 DEF IsCancelled
      <4>2. y # x
        BY <1>1, <4>1, LedgerAssumption
      <4>. QED
        BY <1>3, <4>1, <4>2 DEF IsCancelled
    <3>3. IsCancelled(d)'
      BY <1>3 DEF IsCancelled
    <3>. QED
      BY <3>1, <3>2, <3>3
  <2>3. OpenOrders = OpenOrders' \cup {d} /\ d \notin OpenOrders'
    BY <1>1, <1>6, <2>2 DEF OpenOrders
  <2>4. IsFiniteSet(OpenOrders')
    BY <2>1, <2>3, FS_Subset
  <2>5. \A e \in OpenOrders : g[e] \in Nat
    BY <2>1, RowFacts DEF DecisionRows
  <2>6. /\ DOMAIN f = OpenOrders' /\ DOMAIN g = OpenOrders /\ g[d] = decisions[d].reservation
        /\ \A e \in OpenOrders' : f[e] = g[e]
    BY <1>1, <2>3
  <2>7. reserved = SumFunction(g)
    BY DEF Inv, Durable, ReservationsAreCovered
  <2>. HIDE DEF f, g
  <2>8. /\ IsFiniteSet(DOMAIN f) /\ d \notin DOMAIN f /\ DOMAIN g = (DOMAIN f) \cup {d} /\ g[d] \in Nat
        /\ \A e \in DOMAIN f : f[e] \in Nat /\ g[e] = f[e]
    BY <2>3, <2>4, <2>5, <2>6
  <2>9. SumFunction(g) = SumFunction(f) + g[d]
    <3>1. g[d] \in Int /\ \A e \in DOMAIN f : f[e] \in Int /\ g[e] = f[e]
      BY <2>8
    <3>. QED
      BY <2>8, <3>1, SumGrows
  <2>10. SumFunction(f) \in Nat
    BY <2>8, SumInNat
  <2>11. reserved' = SumFunction(f)
    BY <1>1, <1>2, <2>6, <2>7, <2>9, <2>10
  <2>12. reserved' <= cash'
    BY <1>1, <1>2 DEF Inv, Durable, ReservationsAreCovered
  <2>. QED
    BY <2>11, <2>12 DEF ReservationsAreCovered, f
<1>. QED
  BY <1>4, <1>5, <1>7, <1>8, <1>9, <1>10, <1>11 DEF Inv, Durable

-----------------------------------------------------------------------------
(* The invariant holds *)
LEMMA InitHolds ==
  ASSUME Init
  PROVE  Inv
<1>1. Idle \in CallRecords /\ Idle.pc = "idle"
  BY DEF CallRecords, Stages, Idle
<1>2. Decided = {}
  BY DEF Init, Decided
<1>3. TypeOK
  BY <1>1, LedgerAssumption DEF Init, TypeOK, CallRecords
<1>4. LocksExclude /\ \A c \in Callers : CallKnows(c)
  BY <1>1 DEF Init, LocksExclude, HoldsDecision, HoldsPosition, CallKnows
<1>5. IsFiniteSet(Decided) /\ Numbered /\ Chained
  BY <1>2, FS_EmptySet DEF Init, Numbered, Chained
<1>6. RowsMatch /\ CostsAreShares /\ ExitsAreSingle
  BY DEF Init, RowsMatch, CostsAreShares, ExitsAreSingle, IsPosition, UnresolvedExits
<1>7. ReservationsAreCovered
  <2>. DEFINE f == [d \in OpenOrders |-> decisions[d].reservation]
  <2>1. DOMAIN f = {}
    BY DEF Init, OpenOrders, IsOrder
  <2>. HIDE DEF f
  <2>2. SumFunction(f) = 0
    BY <2>1, SumOfNone
  <2>3. reserved = SumFunction(f) /\ reserved <= cash
    BY <2>2, LedgerAssumption DEF Init
  <2>. QED
    BY <2>3 DEF ReservationsAreCovered, f
<1>. QED
  BY <1>3, <1>4, <1>5, <1>6, <1>7 DEF Inv, Durable

LEMMA StepKeeps ==
  ASSUME Inv, [Next]_vars
  PROVE  Inv'
<1>1. ASSUME NEW c \in Callers, NEW a \in Asks, Begin(c, a[1], a[2]) PROVE Inv'
  BY <1>1, BeginKeeps
<1>2. ASSUME NEW c \in Callers, Fail(c) PROVE Inv'
  BY <1>2, ReturnKeeps DEF Fail, durable
<1>3. ASSUME NEW c \in Callers, CallStep(c) PROVE Inv'
  <2>1. CASE LockDecision(c)
    BY <2>1, LockDecisionKeeps
  <2>2. CASE LockPosition(c)
    BY <2>2, LockPositionKeeps
  <2>3. CASE CheckReturns(c) \/ Ineligible(c)
    BY <2>3, ReturnKeeps DEF CheckReturns, Ineligible, durable
  <2>4. CASE Resume(c)
    <3>1. CASE call[c].req.side = "sell"
      BY <2>4, <3>1, ResumeSellKeeps
    <3>2. CASE call[c].req.side # "sell"
      <4>1. /\ call[c].pc = "check" /\ decisions[call[c].d] = None /\ intents[call[c].d] = call[c].req
            /\ CommitPrepared(c, call[c].d, call[c].req, Unquoted("rejected"))
        BY <2>4, <3>2 DEF Resume
      <4>2. call[c].req \in Requests
        BY <4>1 DEF Inv, CallKnows
      <4>3. Prepared(call[c].req, Unquoted("rejected"))
        BY <4>2, UnquotedPrepared
      <4>. QED
        BY <3>2, <4>1, <4>3, CommitPreparedRecords, RecordingKeeps
    <3>. QED
      BY <3>1, <3>2
  <2>5. CASE NewRequest(c)
    BY <2>5, NewRequestKeeps
  <2>6. CASE CommitIntent(c)
    BY <2>6, CommitIntentKeeps
  <2>7. CASE Quote(c)
    BY <2>7, QuoteKeeps
  <2>8. CASE Commit(c)
    <3>1. /\ call[c].pc = "commit" /\ decisions[call[c].d] = None /\ intents[call[c].d] = call[c].req
          /\ Prepared(call[c].req, call[c].result)
      BY <2>8 DEF Commit, Inv, CallKnows
    <3>2. CASE call[c].req.side = "sell"
      <4>1. CommitExit(c, call[c].d, call[c].req, call[c].result)
        BY <2>8, <3>1, <3>2 DEF Commit
      <4>. QED
        BY <3>1, <3>2, <4>1, CommitExitRecords, RecordingKeeps
    <3>3. CASE call[c].req.side # "sell"
      <4>1. CommitPrepared(c, call[c].d, call[c].req, call[c].result)
        BY <2>8, <3>1, <3>3 DEF Commit
      <4>. QED
        BY <3>1, <3>3, <4>1, CommitPreparedRecords, RecordingKeeps
    <3>. QED
      BY <3>2, <3>3
  <2>. QED
    BY <1>3, <2>1, <2>2, <2>3, <2>4, <2>5, <2>6, <2>7, <2>8 DEF CallStep
<1>4. ASSUME NEW x \in Cancellations, NEW d \in Decisions, CancelOrder(x, d) PROVE Inv'
  BY <1>4, CancelOrderKeeps
<1>5. CASE UNCHANGED vars
  <2>1. UNCHANGED durable /\ call' = call
    BY <1>5 DEF vars, durable, accountVars
  <2>2. CASE \E c \in Callers : TRUE
    <3>1. PICK c \in Callers : TRUE
      BY <2>2
    <3>2. CallKnows(c)'
      BY <1>5, Zenon DEF vars, Inv, CallKnows, IsPosition, UnresolvedExits
    <3>3. \A d : (HoldsDecision(c, d)' => HoldsDecision(c, d)) /\ (HoldsPosition(c, d)' => HoldsPosition(c, d))
      BY <2>1 DEF HoldsDecision, HoldsPosition
    <3>4. call' \in [Callers -> CallRecords]
      BY <2>1 DEF Inv, TypeOK, CallRecords
    <3>. QED
      BY <2>1, <3>2, <3>3, <3>4, CallMoves
  <2>3. CASE ~ \E c \in Callers : TRUE
    <3>1. TypeOK'
      BY <1>5 DEF Inv, TypeOK, vars
    <3>2. LocksExclude' /\ \A c \in Callers : CallKnows(c)'
      BY <2>3 DEF LocksExclude
    <3>3. Durable'
      BY <2>1, DurableStays DEF Inv
    <3>. QED
      BY <3>1, <3>2, <3>3 DEF Inv
  <2>. QED
    BY <2>2, <2>3
<1>. QED
  BY <1>1, <1>2, <1>3, <1>4, <1>5 DEF Next

(* The invariant of record_decision, record_exit and cancel_order holds in    *)
(* every reachable state.                                                     *)
THEOREM Invariance == Spec => []Inv
<1>1. Init => Inv
  BY InitHolds
<1>2. Inv /\ [Next]_vars => Inv'
  BY StepKeeps
<1>. QED
  BY <1>1, <1>2, PTL DEF Spec

(* Numbered rows are as many as their numbers, and a number names one row. *)
LEMMA ChainFollows ==
  ASSUME Inv
  PROVE  JournalIsAChain
<1>. DEFINE rows == {decisions[d] : d \in {e \in Decisions : decisions[e] # None}}
<1>1. rows = {decisions[d] : d \in Decided}
  BY DEF Decided
<1>2. \A w \in rows : \E d \in Decided : w = decisions[d]
  BY <1>1
<1>3. \A d \in Decided : decisions[d] \in rows
  BY <1>1
<1>4. sequence \in Nat /\ \A d \in Decided : decisions[d].seq \in 1..sequence
  BY DEF Inv, TypeOK, Durable, Numbered
<1>. HIDE DEF rows
<1>5. \A v, w \in rows : v.seq = w.seq => v = w
  BY <1>2 DEF Inv, Durable, Numbered
<1>6. {w.seq : w \in rows} = 1..sequence
  <2>1. \A n \in 1..sequence : \E w \in rows : w.seq = n
    BY <1>3 DEF Inv, Durable, Numbered
  <2>2. \A w \in rows : w.seq \in 1..sequence
    BY <1>2, <1>4
  <2>. QED
    BY <2>1, <2>2
<1>7. Cardinality(rows) = sequence
  <2>. DEFINE f == [n \in 1..sequence |-> CHOOSE w \in rows : w.seq = n]
  <2>1. \A n \in 1..sequence : f[n] \in rows /\ f[n].seq = n
    BY <1>6
  <2>2. \A w \in rows : w.seq \in 1..sequence /\ f[w.seq] = w
    BY <1>5, <1>6, <2>1
  <2>3. f \in [1..sequence -> rows]
    BY <2>1
  <2>. HIDE DEF f
  <2>4. f \in Bijection(1..sequence, rows)
    BY <2>1, <2>2, <2>3 DEF Bijection, Injection, Surjection, IsInjective
  <2>5. ExistsBijection(1..sequence, rows)
    BY <2>4 DEF ExistsBijection
  <2>. QED
    BY <1>4, <2>5, FS_CountingElements
<1>8. ASSUME NEW w \in rows
      PROVE  w.before = IF w.seq = 1 THEN StartingCash ELSE (CHOOSE v \in rows : v.seq = w.seq - 1).after
  <2>1. CASE w.seq = 1
    BY <1>2, <2>1 DEF Inv, Durable, Chained
  <2>2. CASE w.seq # 1
    <3>1. w.seq \in 1..sequence /\ w.seq - 1 \in 1..sequence
      BY <1>4, <1>6, <2>2
    <3>. DEFINE u == CHOOSE v \in rows : v.seq = w.seq - 1
    <3>2. u \in rows /\ u.seq = w.seq - 1
      BY <1>6, <3>1
    <3>. HIDE DEF u
    <3>3. PICK d \in Decided, e \in Decided : w = decisions[d] /\ u = decisions[e]
      BY <1>2, <3>2
    <3>4. decisions[d].seq = decisions[e].seq + 1
      BY <3>1, <3>2, <3>3
    <3>5. w.before = u.after
      BY <3>3, <3>4 DEF Inv, Durable, Chained
    <3>. QED
      BY <2>2, <3>5 DEF u
  <2>. QED
    BY <2>1, <2>2
<1>9. \A w \in rows : w.seq = sequence => cash = w.after
  BY <1>2 DEF Inv, Durable, Chained
<1>. QED
  BY <1>6, <1>7, <1>8, <1>9 DEF JournalIsAChain, rows

(* Of any number of exits of one position, at most one is without its         *)
(* decision.                                                                  *)
THEOREM OneExitAtATime == Spec => []OneUnresolvedExit
<1>1. ASSUME Inv, NEW p \in Decisions PROVE Cardinality(UnresolvedExits(p)) <= 1
  <2>1. \A d, e \in UnresolvedExits(p) : d = e
    BY <1>1 DEF Inv, Durable, ExitsAreSingle
  <2>2. CASE UnresolvedExits(p) = {}
    BY <2>2, FS_EmptySet
  <2>3. CASE UnresolvedExits(p) # {}
    <3>1. PICK d : UnresolvedExits(p) = {d}
      BY <2>1, <2>3
    <3>2. Cardinality({d}) = 1
      BY FS_Singleton, Zenon
    <3>. QED
      BY <3>1, <3>2
  <2>. QED
    BY <2>2, <2>3
<1>2. Inv => OneUnresolvedExit
  BY <1>1 DEF OneUnresolvedExit
<1>. QED
  BY <1>2, Invariance, PTL

(* However calls overlap, die and are retried, the decisions form one gapless *)
(* journal whose cash values continue each other, a decision is made from one *)
(* look at the book, nobody resolves an intent whose call is still at it, and *)
(* a position has one open exit (record_decision, record_exit).              *)
THEOREM LedgerIsSound == Spec => []LedgerInv
<1>1. Inv /\ OneUnresolvedExit => LedgerInv
  <2>1. Inv => ReadAtMostOnce /\ NobodyIsOvertaken
    BY DEF Inv, Durable, RowsMatch, CallKnows, ReadAtMostOnce, NobodyIsOvertaken
  <2>. QED
    BY <2>1, ChainFollows DEF LedgerInv, Inv
<1>. QED
  BY <1>1, Invariance, OneExitAtATime, PTL

(* The cash reserved is what the open orders hold, and it is there: no        *)
(* interleaving of entries, exits and cancellations spends it.                *)
THEOREM ReservationsHold == Spec => []ReservationsAreCovered
<1>1. Inv => ReservationsAreCovered
  BY DEF Inv, Durable
<1>. QED
  BY <1>1, Invariance, PTL

(* A position is never sold beyond its entry, and its entry cost is handed    *)
(* out exactly, whatever the sizes and the order of its exits (_commit_exit). *)
THEOREM PositionsConserved == Spec => []PositionsAreConserved
<1>1. ASSUME Inv, NEW p \in Decisions, IsPosition(p)
      PROVE  /\ Sold(p) <= decisions[p].filled /\ Allocated(p) <= decisions[p].notional
             /\ Sold(p) = decisions[p].filled => Allocated(p) = decisions[p].notional
  <2>1. Sold(p) \in Nat
    BY <1>1, RowFacts
  <2>2. Sold(p) <= decisions[p].filled /\ Allocated(p) = Share(p, Sold(p))
    BY <1>1 DEF Inv, Durable, CostsAreShares
  <2>3. Share(p, Sold(p)) <= decisions[p].notional
    BY <1>1, <2>1, <2>2, ShareMonotone
  <2>. QED
    BY <2>2, <2>3 DEF Share
<1>2. Inv => PositionsAreConserved
  BY <1>1 DEF PositionsAreConserved
<1>. QED
  BY <1>2, Invariance, PTL
-----------------------------------------------------------------------------
(* The promise to those who trade through the ledger.  It needs one fact     *)
(* more: what a call has checked before it inserts its intent, the quantity  *)
(* still held, is true when it does, because nobody sells in between.        *)
AdmissionInv ==
    \A c \in Callers : call[c].pc = "insert" /\ call[c].req.side = "sell" =>
        call[c].req.qty <= Remaining(call[c].req.pos)

(* Which rows a step adds, and what it does to the calls about to insert *)
Quiet ==
    /\ intents' = intents /\ decisions' = decisions
    /\ \A o \in Callers : call'[o].pc = "insert" =>
          /\ call'[o].req = call[o].req
          /\ call[o].pc = "insert" \/ (call[o].req.side = "sell" => Closable(call[o].req))

LEMMA OneMoves ==
  ASSUME Inv, NEW c \in Callers, \A o \in Callers : o # c => call'[o] = call[o],
         call'[c].pc # "insert", intents' = intents, decisions' = decisions
  PROVE  Quiet
BY DEF Quiet

LEMMA ReturnIsQuiet ==
  ASSUME Inv, NEW c \in Callers, Return(c), UNCHANGED <<intents, decisions>>
  PROVE  Quiet
<1>1. call'[c].pc = "idle" /\ \A o \in Callers : o # c => call'[o] = call[o]
  BY DEF Return, Idle, Inv, TypeOK
<1>. QED
  BY <1>1, OneMoves

LEMMA GotoIsQuiet ==
  ASSUME Inv, NEW c \in Callers, NEW pc \in Stages \ {"insert"}, Goto(c, pc), UNCHANGED <<intents, decisions>>
  PROVE  Quiet
BY Went, OneMoves

LEMMA RecordingAdds ==
  ASSUME Inv, NEW c \in Callers, Recording(c)
  PROVE  /\ call[c].d \in Decisions /\ call[c].req \in Requests
         /\ decisions'[call[c].d] \in DecisionRows
         /\ decisions'[call[c].d].req = call[c].req
         /\ decisions'[call[c].d].filled \in 0..call[c].req.qty
         /\ \A e \in Decisions : e # call[c].d => decisions'[e] = decisions[e]
         /\ intents' = intents /\ call' = [call EXCEPT ![c] = Idle]
         /\ decisions[call[c].d] = None /\ intents[call[c].d] = call[c].req
<1>1. PICK x, cost, reservation, after :
        /\ Justified(c, call[c].req, x, cost, reservation, after)
        /\ Record(c, call[c].d, call[c].req, x, cost, reservation, after)
  BY DEF Recording
<1>. DEFINE w == Row(call[c].req, x, cost, reservation, after)
<1>2. w.req = call[c].req /\ w.filled = x.filled
  BY DEF Row
<1>3. /\ call[c].d \in Decisions /\ call[c].req \in Requests /\ w \in DecisionRows
      /\ decisions'[call[c].d] = w /\ \A e \in Decisions : e # call[c].d => decisions'[e] = decisions[e]
      /\ intents' = intents /\ call' = [call EXCEPT ![c] = Idle]
  BY <1>1, Recorded, Zenon
<1>4. /\ decisions[call[c].d] = None /\ intents[call[c].d] = call[c].req
      /\ x.filled \in Nat /\ x.filled <= call[c].req.qty
  BY <1>1 DEF Justified, Prepared, Results
<1>5. x.filled \in 0..call[c].req.qty
  BY <1>3, <1>4, RequestFacts
<1>. HIDE DEF w
<1>. QED
  BY <1>2, <1>3, <1>4, <1>5

LEMMA StepKinds ==
  ASSUME Inv, [Next]_vars
  PROVE  Quiet \/ \E c \in Callers : CommitIntent(c) \/ Recording(c)
<1>1. ASSUME NEW c \in Callers, NEW a \in Asks, Begin(c, a[1], a[2]) PROVE Quiet
  <2>1. call'[c].pc = "decision_lock" /\ \A o \in Callers : o # c => call'[o] = call[o]
    BY <1>1 DEF Begin, Inv, TypeOK
  <2>. QED
    BY <1>1, <2>1, OneMoves DEF Begin
<1>2. ASSUME NEW c \in Callers, Fail(c) \/ CheckReturns(c) \/ Ineligible(c) PROVE Quiet
  BY <1>2, ReturnIsQuiet DEF Fail, CheckReturns, Ineligible
<1>3. ASSUME NEW c \in Callers, LockDecision(c) \/ LockPosition(c) PROVE Quiet
  <2>1. CASE LockPosition(c)
    BY <2>1, GotoIsQuiet DEF LockPosition, Stages
  <2>2. CASE LockDecision(c)
    <3>1. CASE call[c].req.side = "sell"
      BY <2>2, <3>1, GotoIsQuiet DEF LockDecision, Stages
    <3>2. CASE call[c].req.side # "sell"
      BY <2>2, <3>2, GotoIsQuiet DEF LockDecision, Stages
    <3>. QED
      BY <3>1, <3>2
  <2>. QED
    BY <1>3, <2>1, <2>2
<1>4. ASSUME NEW c \in Callers, Resume(c) PROVE Quiet \/ Recording(c)
  <2>1. CASE call[c].req.side = "sell"
    <3>1. call'[c].pc = "commit" /\ \A o \in Callers : o # c => call'[o] = call[o]
      BY <1>4, <2>1 DEF Resume, Inv, TypeOK
    <3>. QED
      BY <1>4, <2>1, <3>1, OneMoves DEF Resume
  <2>2. CASE call[c].req.side # "sell"
    <3>1. /\ call[c].pc = "check" /\ decisions[call[c].d] = None /\ intents[call[c].d] = call[c].req
          /\ CommitPrepared(c, call[c].d, call[c].req, Unquoted("rejected"))
      BY <1>4, <2>2 DEF Resume
    <3>2. Prepared(call[c].req, Unquoted("rejected"))
      BY <3>1, UnquotedPrepared DEF Inv, CallKnows
    <3>. QED
      BY <2>2, <3>1, <3>2, CommitPreparedRecords
  <2>. QED
    BY <2>1, <2>2
<1>5. ASSUME NEW c \in Callers, NewRequest(c) PROVE Quiet
  <2>1. /\ call'[c].pc = "insert" /\ call'[c].req = call[c].req
        /\ \A o \in Callers : o # c => call'[o] = call[o]
    BY <1>5, Went DEF NewRequest, Stages
  <2>. QED
    BY <1>5, <2>1 DEF NewRequest, Quiet
<1>6. ASSUME NEW c \in Callers, Quote(c) PROVE Quiet
  <2>1. call'[c].pc # "insert" /\ \A o \in Callers : o # c => call'[o] = call[o]
    BY <1>6 DEF Quote, Return, Idle, Inv, TypeOK
  <2>. QED
    BY <1>6, <2>1, OneMoves DEF Quote
<1>7. ASSUME NEW c \in Callers, Commit(c) PROVE Recording(c)
  <2>1. /\ call[c].pc = "commit" /\ decisions[call[c].d] = None /\ intents[call[c].d] = call[c].req
        /\ Prepared(call[c].req, call[c].result)
    BY <1>7 DEF Commit, Inv, CallKnows
  <2>2. CASE call[c].req.side = "sell"
    BY <1>7, <2>1, <2>2, CommitExitRecords DEF Commit
  <2>3. CASE call[c].req.side # "sell"
    BY <1>7, <2>1, <2>3, CommitPreparedRecords DEF Commit
  <2>. QED
    BY <2>2, <2>3
<1>8. ASSUME NEW x \in Cancellations, NEW d \in Decisions, CancelOrder(x, d) PROVE Quiet
  BY <1>8 DEF CancelOrder, Quiet
<1>9. CASE UNCHANGED vars
  BY <1>9 DEF vars, Quiet
<1>. QED
  BY <1>1, <1>2, <1>3, <1>4, <1>5, <1>6, <1>7, <1>8, <1>9 DEF Next, CallStep

LEMMA AdmissionKept ==
  ASSUME Inv, AdmissionInv, [Next]_vars
  PROVE  AdmissionInv'
<1>1. CASE Quiet
  <2>1. \A p : Remaining(p)' = Remaining(p)
    BY <1>1, ProjectionsStay DEF Quiet, Remaining
  <2>2. ASSUME NEW o \in Callers, call'[o].pc = "insert", call'[o].req.side = "sell"
        PROVE  call'[o].req.qty <= Remaining(call'[o].req.pos)
    BY <1>1, <2>2 DEF Quiet, AdmissionInv, Closable
  <2>. QED
    BY <2>1, <2>2 DEF AdmissionInv
<1>2. ASSUME NEW c \in Callers, CommitIntent(c) PROVE AdmissionInv'
  <2>1. decisions' = decisions /\ call'[c].pc # "insert" /\ \A o \in Callers : o # c => call'[o] = call[o]
    BY <1>2 DEF CommitIntent, Goto, Return, Idle, Inv, TypeOK
  <2>2. \A p : Remaining(p)' = Remaining(p)
    BY <2>1, ProjectionsStay DEF Remaining
  <2>. QED
    BY <2>1, <2>2 DEF AdmissionInv
<1>3. ASSUME NEW c \in Callers, Recording(c) PROVE AdmissionInv'
  <2>1. PICK d, r : d = call[c].d /\ r = call[c].req
    OBVIOUS
  <2>2. /\ d \in Decisions /\ r \in Requests /\ decisions'[d].req = r
        /\ \A e \in Decisions : e # d => decisions'[e] = decisions[e]
        /\ call' = [call EXCEPT ![c] = Idle] /\ decisions[d] = None /\ intents[d] = r
    BY <1>3, <2>1, RecordingAdds
  <2>3. call'[c].pc = "idle" /\ \A o \in Callers : o # c => call'[o] = call[o]
    BY <2>2 DEF Idle, Inv, TypeOK
  <2>4. ASSUME NEW o \in Callers, call[o].pc = "insert", call[o].req.side = "sell",
               NEW p, p = call[o].req.pos
        PROVE  Remaining(p)' = Remaining(p)
    <3>1. IsPosition(p) /\ UnresolvedExits(p) = {} /\ p \in Decisions
      BY <2>4, RequestFacts DEF Inv, CallKnows
    <3>2. ~(r.side = "sell" /\ r.pos = p)
      <4>1. r # None
        BY <2>2, RequestFacts
      <4>. QED
        BY <2>2, <3>1, <4>1 DEF UnresolvedExits
    <3>3. d # p /\ decisions'[p] = decisions[p]
      BY <2>2, <3>1 DEF IsPosition
    <3>4. \A e \in Decisions : IsSellOf(e, p)' <=> IsSellOf(e, p)
      BY <2>2, <3>2 DEF IsSellOf
    <3>5. SellsOf(p)' = SellsOf(p)
      <4>1. SellsOf(p) = {e \in Decisions : IsSellOf(e, p)} /\ SellsOf(p)' = {e \in Decisions : IsSellOf(e, p)'}
        BY DEF SellsOf
      <4>. QED
        BY <3>4, <4>1
    <3>6. d \notin SellsOf(p) /\ \A e \in SellsOf(p) : decisions'[e] = decisions[e]
      BY <2>2 DEF SellsOf, IsSellOf
    <3>7. [e \in SellsOf(p)' |-> decisions'[e].filled] = [e \in SellsOf(p) |-> decisions[e].filled]
      BY <3>5, <3>6
    <3>. QED
      BY <3>3, <3>7 DEF Remaining, Sold
  <2>5. ASSUME NEW o \in Callers, call'[o].pc = "insert", call'[o].req.side = "sell",
               NEW p, p = call'[o].req.pos
        PROVE  call'[o].req.qty <= Remaining(p)'
    <3>1. call'[o] = call[o]
      BY <2>3, <2>5
    <3>2. call[o].req.qty <= Remaining(p)
      BY <2>5, <3>1 DEF AdmissionInv
    <3>. QED
      BY <2>4, <2>5, <3>1, <3>2
  <2>. QED
    BY <2>5 DEF AdmissionInv
<1>. QED
  BY <1>1, <1>2, <1>3, StepKinds

(* The mapped rows *)
LEMMA Mapped ==
  ASSUME Inv
  PROVE  /\ DOMAIN Asked = {e \in Decisions : intents[e] # None}
         /\ DOMAIN FilledRows = Decided /\ Decided \subseteq DOMAIN Asked
         /\ \A d \in DOMAIN Asked : intents[d] \in Requests /\ Asked[d].qty = intents[d].qty
                                    /\ Asked[d].of = IF intents[d].side = "sell" THEN intents[d].pos ELSE d
         /\ \A d \in Decided : FilledRows[d] = decisions[d].filled /\ intents[d] = decisions[d].req
<1>1. DOMAIN Asked = {e \in Decisions : intents[e] # None}
  BY DEF Asked
<1>2. DOMAIN FilledRows = Decided
  BY DEF FilledRows, Decided
<1>3. \A d \in Decided : intents[d] = decisions[d].req /\ decisions[d].req \in Requests
  BY RowFacts DEF Inv, Durable, RowsMatch, Decided, DecisionRows
<1>4. Decided \subseteq DOMAIN Asked
  BY <1>1, <1>3, RequestFacts DEF Decided
<1>5. \A d \in Decided : FilledRows[d] = decisions[d].filled
  BY DEF FilledRows, Decided
<1>6. \A d \in DOMAIN Asked : intents[d] \in Requests
  BY <1>1 DEF Inv, TypeOK
<1>7. \A d \in DOMAIN Asked : Asked[d].qty = intents[d].qty
                              /\ Asked[d].of = IF intents[d].side = "sell" THEN intents[d].pos ELSE d
  BY <1>1 DEF Asked
<1>. QED
  BY <1>1, <1>2, <1>3, <1>4, <1>5, <1>6, <1>7

LEMMA SameSum ==
  ASSUME NEW f
  PROVE  Contract!SumFunction(f) = SumFunction(f)
BY DEF Contract!SumFunction, SumFunction, Contract!SumFunctionOnSet, SumFunctionOnSet,
       Contract!FoldFunctionOnSet, FoldFunctionOnSet, Contract!MapThenFoldSet, MapThenFoldSet

(* What the promise says of a position is what the ledger computes. *)
LEMMA PositionMapped ==
  ASSUME Inv, NEW p \in Decisions, IsPosition(p)
  PROVE  /\ Contract!IsEntry(p) /\ Contract!Left(p) = Remaining(p)
         /\ UnresolvedExits(p) = {} => Contract!ExitsOf(p) \subseteq DOMAIN FilledRows
<1>1. p \in Decided /\ decisions[p].req.side = "buy"
  BY DEF IsPosition, Decided
<1>2. Contract!IsEntry(p)
  BY <1>1, Mapped DEF Contract!IsEntry
<1>3. Contract!ExitsOf(p) = {d \in Decisions : intents[d] # None /\ intents[d].side = "sell" /\ intents[d].pos = p}
  BY <1>1, Mapped DEF Contract!ExitsOf
<1>4. Contract!ExitsOf(p) \cap DOMAIN FilledRows = SellsOf(p)
  <2>1. ASSUME NEW d \in SellsOf(p) PROVE d \in Contract!ExitsOf(p) /\ d \in DOMAIN FilledRows
    BY <2>1, <1>3, Mapped DEF SellsOf, IsSellOf, Decided
  <2>2. ASSUME NEW d \in Contract!ExitsOf(p), d \in DOMAIN FilledRows PROVE d \in SellsOf(p)
    BY <2>2, <1>3, Mapped DEF SellsOf, IsSellOf, Decided
  <2>. QED
    BY <2>1, <2>2
<1>5. Contract!Left(p) = Remaining(p)
  <2>1. \A d \in SellsOf(p) : FilledRows[d] = decisions[d].filled
    BY Mapped, RowFacts
  <2>2. [d \in SellsOf(p) |-> FilledRows[d]] = [d \in SellsOf(p) |-> decisions[d].filled]
    BY <2>1
  <2>3. FilledRows[p] = decisions[p].filled
    BY <1>1, Mapped
  <2>. QED
    BY <1>4, <2>2, <2>3, SameSum DEF Contract!Left, Remaining, Sold
<1>6. ASSUME UnresolvedExits(p) = {} PROVE Contract!ExitsOf(p) \subseteq DOMAIN FilledRows
  BY <1>3, <1>6, Mapped DEF UnresolvedExits, Decided
<1>. QED
  BY <1>2, <1>5, <1>6

LEMMA IntentAdmits ==
  ASSUME Inv, AdmissionInv, NEW c \in Callers, CommitIntent(c)
  PROVE  Contract!Next
<1>1. PICK d, r, p : d = call[c].d /\ r = call[c].req /\ p = IF r.side = "sell" THEN r.pos ELSE d
  OBVIOUS
<1>2. /\ d \in Decisions /\ r \in Requests /\ intents[d] = None
      /\ r.side = "sell" => IsPosition(r.pos) /\ UnresolvedExits(r.pos) = {} /\ r.qty <= Remaining(r.pos)
  BY <1>1 DEF Inv, CallKnows, CommitIntent, AdmissionInv
<1>3. decisions' = decisions /\ intents' = [intents EXCEPT ![d] = r]
  BY <1>1, <1>2 DEF CommitIntent
<1>4. r # None /\ p \in Decisions /\ intents \in [Decisions -> Requests \cup {None}]
  BY <1>1, <1>2, RequestFacts DEF Inv, TypeOK
<1>5. d \notin DOMAIN Asked
  BY <1>2, Mapped
<1>6. p # d => Contract!IsEntry(p) /\ Contract!ExitsOf(p) \subseteq DOMAIN FilledRows /\ r.qty <= Contract!Left(p)
  BY <1>1, <1>2, <1>4, PositionMapped
<1>7. Asked' = Contract!With(Asked, d, [of |-> p, qty |-> r.qty])
  <2>1. {e \in Decisions : intents'[e] # None} = DOMAIN Asked \cup {d}
    BY <1>2, <1>3, <1>4, Mapped
  <2>2. ASSUME NEW e \in DOMAIN Asked \cup {d}
        PROVE  [of |-> IF intents'[e].side = "sell" THEN intents'[e].pos ELSE e, qty |-> intents'[e].qty]
                 = IF e = d THEN [of |-> p, qty |-> r.qty] ELSE Asked[e]
    <3>1. CASE e = d
      BY <1>1, <1>2, <1>3, <1>4, <3>1
    <3>2. CASE e # d
      <4>1. e \in Decisions /\ intents[e] # None /\ intents'[e] = intents[e]
        BY <1>3, <1>4, <2>2, <3>2, Mapped
      <4>. QED
        BY <3>2, <4>1 DEF Asked
    <3>. QED
      BY <3>1, <3>2
  <2>3. Asked' = [e \in DOMAIN Asked \cup {d} |->
                    [of |-> IF intents'[e].side = "sell" THEN intents'[e].pos ELSE e, qty |-> intents'[e].qty]]
    BY <2>1 DEF Asked
  <2>. QED
    BY <2>2, <2>3 DEF Contract!With
<1>8. FilledRows' = FilledRows
  BY <1>3 DEF FilledRows
<1>9. Asked' # Asked
  BY <1>5, <1>7 DEF Contract!With
<1>10. Contract!Admit(d, p, r.qty)
  BY <1>5, <1>6, <1>7, <1>8 DEF Contract!Admit
<1>. QED
  BY <1>2, <1>4, <1>9, <1>10 DEF Contract!Next

LEMMA RecordingDecides ==
  ASSUME Inv, NEW c \in Callers, Recording(c)
  PROVE  Contract!Next
<1>1. PICK d, n : d = call[c].d /\ n = decisions'[d].filled
  OBVIOUS
<1>2. /\ d \in Decisions /\ intents[d] \in Requests /\ decisions'[d] # None /\ n \in 0..intents[d].qty
      /\ \A e \in Decisions : e # d => decisions'[e] = decisions[e]
      /\ intents' = intents /\ decisions[d] = None
  BY <1>1, RecordingAdds, RowsAssumption
<1>3. d \in DOMAIN Asked \ DOMAIN FilledRows /\ Asked[d].qty = intents[d].qty /\ intents[d].qty \in Nat
  BY <1>2, Mapped, RequestFacts DEF Decided
<1>4. FilledRows' = Contract!With(FilledRows, d, n)
  <2>1. {e \in Decisions : decisions'[e] # None} = DOMAIN FilledRows \cup {d}
    BY <1>2, Mapped DEF Decided
  <2>2. \A e \in DOMAIN FilledRows \cup {d} : decisions'[e].filled = IF e = d THEN n ELSE FilledRows[e]
    BY <1>1, <1>2, Mapped DEF Decided
  <2>3. FilledRows' = [e \in DOMAIN FilledRows \cup {d} |-> decisions'[e].filled]
    BY <2>1 DEF FilledRows
  <2>. QED
    BY <2>2, <2>3 DEF Contract!With
<1>5. Asked' = Asked
  BY <1>2 DEF Asked
<1>6. FilledRows' # FilledRows
  BY <1>3, <1>4 DEF Contract!With
<1>7. Contract!Decide(d, n) /\ n \in 0..Asked[d].qty
  BY <1>2, <1>3, <1>4, <1>5 DEF Contract!Decide
<1>. QED
  BY <1>3, <1>6, <1>7 DEF Contract!Next

(* The ledger keeps its promise to every caller: whatever calls interleave,   *)
(* die and are repeated, a request is decided once and within its quantity,   *)
(* and an exit is admitted only against what its position still holds         *)
(* (record_decision, record_exit).                                            *)
THEOREM LedgerImplementsContract == Spec => ImplementsContract
<1>1. Init => Contract!Init
  <2>1. ASSUME Init PROVE Asked = <<>> /\ FilledRows = <<>>
    <3>1. {e \in Decisions : intents[e] # None} = {} /\ {e \in Decisions : decisions[e] # None} = {}
      BY <2>1 DEF Init
    <3>. QED
      BY <3>1 DEF Asked, FilledRows
  <2>. QED
    BY <2>1 DEF Contract!Init
<1>2. Init => AdmissionInv
  BY DEF Init, AdmissionInv, Idle
<1>3. Inv /\ AdmissionInv /\ [Next]_vars => AdmissionInv'
  BY AdmissionKept
<1>4. Inv /\ AdmissionInv /\ [Next]_vars => [Contract!Next]_<<Asked, FilledRows>>
  <2>1. Quiet => UNCHANGED <<Asked, FilledRows>>
    BY DEF Quiet, Asked, FilledRows
  <2>. QED
    BY <2>1, StepKinds, IntentAdmits, RecordingDecides
<1>. QED
  BY <1>1, <1>2, <1>3, <1>4, Invariance, PTL DEF Spec, ImplementsContract, Contract!Spec
=============================================================================
