-------------------------- MODULE KalshiPaperProofs --------------------------
(***************************************************************************)
(* Proofs about the two ends of paper trading: the fill simulation, for    *)
(* every book, order and tick size, and one test trade, for every          *)
(* quantity, length and number of crashes.                                 *)
(*                                                                         *)
(* Both rest on sums: of what was taken level by level, and of what the    *)
(* exits of a position sold.  The sums are the library's; what needs       *)
(* induction is shown by a least counterexample.                           *)
(***************************************************************************)
EXTENDS KalshiPaperFills, KalshiPaperTestTrade, FiniteSetTheorems, TLAPS

-----------------------------------------------------------------------------
(* Sums *)
(* The element a sum takes next, and the function that computes it. *)
Pick(s) == CHOOSE x \in s : TRUE
SumStep(g, f, s) == IF s = {} THEN 0 ELSE f[Pick(s)] + g[s \ {Pick(s)}]
Sums(g, f, S) == g = [s \in SUBSET S |-> SumStep(g, f, s)]
(* g adds f up, whichever element is taken out. *)
Additive(g, f, S) ==
    /\ g \in [SUBSET S -> Int] /\ g[{}] = 0
    /\ \A s \in SUBSET S : \A x \in s : g[s] = f[x] + g[s \ {x}]

LEMMA LeastNatural ==
  ASSUME NEW N \in SUBSET Nat, N # {}
  PROVE  \E m \in N : \A k \in N : m <= k
<1>. DEFINE R == {ss \in Nat \X Nat : ss[1] < ss[2]}
<1>1. IsWellFoundedOn(R, Nat)
  BY NatLessThanWellFounded DEF OpToRel
<1>2. \A k, m \in Nat : <<k, m>> \in R <=> k < m
  OBVIOUS
<1>. HIDE DEF R
<1>3. PICK m \in N : \A k \in N : ~(<<k, m>> \in R)
  BY <1>1, WFMin
<1>4. ASSUME NEW k \in N PROVE m <= k
  <2>1. k \in Nat /\ m \in Nat
    OBVIOUS
  <2>2. ~(k < m)
    BY <1>2, <1>3, <2>1
  <2>. QED
    BY <2>1, <2>2
<1>. QED
  BY <1>4

LEMMA SumUnfolds ==
  ASSUME NEW f, NEW S
  PROVE  SumFunctionOnSet(f, S) = (CHOOSE g : Sums(g, f, S))[S]
BY DEF SumFunctionOnSet, FoldFunctionOnSet, MapThenFoldSet, Sums, SumStep, Pick

LEMMA AdditiveExtends ==
  ASSUME NEW S, NEW y, y \notin S, NEW f, \A x \in S \cup {y} : f[x] \in Int, NEW g, Additive(g, f, S)
  PROVE  \E h : Additive(h, f, S \cup {y})
<1>. DEFINE T == S \cup {y}
            h == [s \in SUBSET T |-> IF y \in s THEN g[s \ {y}] + f[y] ELSE g[s]]
<1>1. \A s \in SUBSET T : s \ {y} \in SUBSET S /\ (y \notin s => s \in SUBSET S)
  OBVIOUS
<1>2. h \in [SUBSET T -> Int] /\ h[{}] = 0
  BY <1>1 DEF Additive
<1>3. ASSUME NEW s \in SUBSET T, NEW x \in s
      PROVE  h[s] = f[x] + h[s \ {x}]
  <2>0. s \ {x} \in SUBSET T
    OBVIOUS
  <2>1. CASE y \notin s
    BY <2>0, <2>1, <1>1 DEF Additive
  <2>2. CASE x = y
    BY <2>0, <2>2, <1>1 DEF Additive
  <2>3. CASE y \in s /\ x # y
    <3>1. /\ s \ {y} \in SUBSET S /\ x \in s \ {y}
          /\ (s \ {y}) \ {x} = (s \ {x}) \ {y} /\ y \in s \ {x} /\ (s \ {x}) \ {y} \in SUBSET S
      BY <2>3
    <3>2. h[s] = g[s \ {y}] + f[y] /\ h[s \ {x}] = g[(s \ {x}) \ {y}] + f[y]
      BY <2>0, <2>3, <3>1
    <3>3. g[s \ {y}] = f[x] + g[(s \ {x}) \ {y}]
      <4>1. \A t \in SUBSET S : \A z \in t : g[t] = f[z] + g[t \ {z}]
        BY DEF Additive
      <4>2. g[s \ {y}] = f[x] + g[(s \ {y}) \ {x}]
        BY <3>1, <4>1, Zenon
      <4>. QED
        BY <3>1, <4>2, Zenon
    <3>4. g[s \ {y}] \in Int /\ g[(s \ {x}) \ {y}] \in Int
      BY <3>1 DEF Additive
    <3>5. f[x] \in Int
      BY <3>1
    <3>. QED
      BY <3>2, <3>3, <3>4, <3>5
  <2>. QED
    BY <2>1, <2>2, <2>3
<1>. HIDE DEF h
<1>. QED
  BY <1>2, <1>3 DEF Additive

LEMMA FiniteAdditive ==
  ASSUME NEW S, IsFiniteSet(S), NEW f, \A x \in S : f[x] \in Int
  PROVE  \E g : Additive(g, f, S)
<1>. DEFINE Bad(n) == \E T \in SUBSET S : Cardinality(T) = n /\ ~ \E g : Additive(g, f, T)
            N == {n \in Nat : Bad(n)}
<1>1. ASSUME N # {}  PROVE FALSE
  <2>1. PICK n \in N : \A k \in N : n <= k
    <3>. HIDE DEF N
    <3>1. N \in SUBSET Nat
      BY DEF N
    <3>. QED
      BY <1>1, <3>1, LeastNatural
  <2>2. PICK T \in SUBSET S : Cardinality(T) = n /\ ~ \E g : Additive(g, f, T)
    OBVIOUS
  <2>3. IsFiniteSet(T)
    BY FS_Subset
  <2>4. CASE T = {}
    <3>. DEFINE g == [s \in SUBSET {} |-> 0]
    <3>1. Additive(g, f, {})
      BY DEF Additive
    <3>. QED
      BY <2>2, <2>4, <3>1
  <2>5. CASE T # {}
    <3>1. PICK y \in T : TRUE
      BY <2>5
    <3>2. IsFiniteSet(T \ {y}) /\ Cardinality(T \ {y}) = n - 1
      BY <2>2, <2>3, FS_RemoveElement
    <3>3. T \ {y} \in SUBSET S /\ n - 1 \in Nat /\ n - 1 < n
      BY <3>2, FS_CardinalityType
    <3>4. \E g : Additive(g, f, T \ {y})
      BY <2>1, <3>2, <3>3
    <3>5. T = (T \ {y}) \cup {y}
      OBVIOUS
    <3>. QED
      BY <2>2, <3>4, <3>5, AdditiveExtends
  <2>. QED
    BY <2>4, <2>5
<1>2. Cardinality(S) \in Nat
  BY FS_CardinalityType
<1>. QED
  BY <1>1, <1>2

LEMMA AdditiveSums ==
  ASSUME NEW S, IsFiniteSet(S), NEW f, \A x \in S : f[x] \in Int, NEW g, Additive(g, f, S)
  PROVE  SumFunctionOnSet(f, S) = g[S]
<1>0. \A s \in SUBSET S : s # {} => Pick(s) \in s
  BY DEF Pick
<1>1. Sums(g, f, S)
  <2>1. \A s \in SUBSET S : g[s] = SumStep(g, f, s)
    BY <1>0 DEF Additive, SumStep
  <2>. QED
    BY <2>1 DEF Sums, Additive
<1>. DEFINE h == CHOOSE k : Sums(k, f, S)
<1>2. Sums(h, f, S)
  BY <1>1
<1>. HIDE DEF h
<1>. DEFINE N == {n \in Nat : \E s \in SUBSET S : Cardinality(s) = n /\ h[s] # g[s]}
<1>3. ASSUME N # {} PROVE FALSE
  <2>1. PICK n \in N : \A k \in N : n <= k
    <3>. HIDE DEF N
    <3>1. N \in SUBSET Nat
      BY DEF N
    <3>. QED
      BY <1>3, <3>1, LeastNatural
  <2>2. PICK s \in SUBSET S : Cardinality(s) = n /\ h[s] # g[s]
    OBVIOUS
  <2>3. IsFiniteSet(s)
    BY FS_Subset
  <2>4. h[s] = SumStep(h, f, s) /\ g[s] = SumStep(g, f, s)
    BY <1>1, <1>2 DEF Sums
  <2>5. s # {}
    BY <2>2, <2>4 DEF SumStep
  <2>. DEFINE y == Pick(s)
  <2>6. y \in s /\ s \ {y} \in SUBSET S
    BY <1>0, <2>5
  <2>7. IsFiniteSet(s \ {y}) /\ Cardinality(s \ {y}) = n - 1
    BY <2>2, <2>3, <2>6, FS_RemoveElement
  <2>8. n - 1 \in Nat /\ n - 1 < n
    BY <2>7, FS_CardinalityType
  <2>9. h[s \ {y}] = g[s \ {y}]
    BY <2>1, <2>6, <2>7, <2>8
  <2>. QED
    BY <2>2, <2>4, <2>5, <2>9 DEF SumStep
<1>4. Cardinality(S) \in Nat
  BY FS_CardinalityType
<1>5. h[S] = g[S]
  BY <1>3, <1>4
<1>. QED
  BY <1>5, SumUnfolds DEF h

LEMMA SumEmpty ==
  ASSUME NEW f PROVE SumFunctionOnSet(f, {}) = 0
<1>1. \A x \in {} : f[x] \in Int
  OBVIOUS
<1>2. PICK g : Additive(g, f, {})
  BY <1>1, FS_EmptySet, FiniteAdditive
<1>3. SumFunctionOnSet(f, {}) = g[{}]
  BY <1>1, <1>2, FS_EmptySet, AdditiveSums
<1>. QED
  BY <1>2, <1>3 DEF Additive

LEMMA SumAdds ==
  ASSUME NEW S, IsFiniteSet(S), NEW y, y \notin S, NEW f, \A x \in S \cup {y} : f[x] \in Int
  PROVE  SumFunctionOnSet(f, S \cup {y}) = SumFunctionOnSet(f, S) + f[y]
<1>. DEFINE T == S \cup {y}
<1>0. IsFiniteSet(T)
  BY FS_AddElement
<1>1. PICK g : Additive(g, f, T)
  BY <1>0, FiniteAdditive
<1>2. SumFunctionOnSet(f, T) = g[T]
  BY <1>0, <1>1, AdditiveSums
<1>. DEFINE h == [s \in SUBSET S |-> g[s]]
<1>3. Additive(h, f, S)
  <2>1. \A s \in SUBSET S : s \in SUBSET T /\ \A x \in s : s \ {x} \in SUBSET S
    OBVIOUS
  <2>. QED
    BY <1>1, <2>1 DEF Additive
<1>4. SumFunctionOnSet(f, S) = h[S]
  <2>. HIDE DEF h
  <2>. QED BY <1>3, AdditiveSums
<1>5. g[T] = f[y] + g[S] /\ g[S] \in Int
  <2>1. T \ {y} = S /\ y \in T /\ T \in SUBSET T /\ S \in SUBSET T
    OBVIOUS
  <2>2. g[T] = f[y] + g[T \ {y}]
    BY <1>1, <2>1, Zenon DEF Additive
  <2>3. g[S] \in Int
    BY <1>1, <2>1 DEF Additive
  <2>. QED
    BY <2>1, <2>2, <2>3, Zenon
<1>6. h[S] = g[S]
  OBVIOUS
<1>7. f[y] \in Int
  OBVIOUS
<1>. HIDE DEF h, T
<1>8. SumFunctionOnSet(f, T) = SumFunctionOnSet(f, S) + f[y]
  BY <1>2, <1>4, <1>5, <1>6, <1>7
<1>. QED
  BY <1>8 DEF T

LEMMA SumAgrees ==
  ASSUME NEW S, IsFiniteSet(S), NEW f, NEW e, \A x \in S : f[x] \in Int /\ f[x] = e[x]
  PROVE  SumFunctionOnSet(f, S) = SumFunctionOnSet(e, S)
<1>1. PICK g : Additive(g, f, S)
  BY FiniteAdditive
<1>2. Additive(g, e, S)
  BY <1>1 DEF Additive
<1>. QED
  BY <1>1, <1>2, AdditiveSums
(* A sum of natural numbers is one. *)
LEMMA SumNat ==
  ASSUME NEW S, IsFiniteSet(S), NEW f, \A x \in S : f[x] \in Nat
  PROVE  SumFunctionOnSet(f, S) \in Nat
<1>. DEFINE Bad(n) == \E T \in SUBSET S : Cardinality(T) = n /\ SumFunctionOnSet(f, T) \notin Nat
            N == {n \in Nat : Bad(n)}
<1>1. ASSUME N # {}  PROVE FALSE
  <2>1. PICK n \in N : \A k \in N : n <= k
    <3>. HIDE DEF N
    <3>1. N \in SUBSET Nat
      BY DEF N
    <3>. QED
      BY <1>1, <3>1, LeastNatural
  <2>2. PICK T \in SUBSET S : Cardinality(T) = n /\ SumFunctionOnSet(f, T) \notin Nat
    OBVIOUS
  <2>3. IsFiniteSet(T)
    BY FS_Subset
  <2>4. T # {}
    BY <2>2, SumEmpty
  <2>5. PICK y \in T : TRUE
    BY <2>4
  <2>6. IsFiniteSet(T \ {y}) /\ Cardinality(T \ {y}) = n - 1
    BY <2>2, <2>3, FS_RemoveElement
  <2>7. T \ {y} \in SUBSET S /\ n - 1 \in Nat /\ n - 1 < n
    BY <2>6, FS_CardinalityType
  <2>8. SumFunctionOnSet(f, T \ {y}) \in Nat
    BY <2>1, <2>6, <2>7
  <2>9. T = (T \ {y}) \cup {y} /\ y \notin T \ {y} /\ f[y] \in Nat /\ \A x \in (T \ {y}) \cup {y} : f[x] \in Int
    OBVIOUS
  <2>10. SumFunctionOnSet(f, (T \ {y}) \cup {y}) = SumFunctionOnSet(f, T \ {y}) + f[y]
    BY <2>6, <2>9, SumAdds
  <2>11. SumFunctionOnSet(f, T) = SumFunctionOnSet(f, T \ {y}) + f[y]
    BY <2>9, <2>10, Zenon
  <2>. QED
    BY <2>2, <2>8, <2>9, <2>11
<1>2. Cardinality(S) \in Nat
  BY FS_CardinalityType
<1>. QED
  BY <1>1, <1>2

LEMMA SumInt ==
  ASSUME NEW S, IsFiniteSet(S), NEW f, \A x \in S : f[x] \in Int
  PROVE  SumFunctionOnSet(f, S) \in Int
<1>1. PICK g : Additive(g, f, S)
  BY FiniteAdditive
<1>2. SumFunctionOnSet(f, S) = g[S] /\ S \in SUBSET S
  BY <1>1, AdditiveSums
<1>. QED
  BY <1>1, <1>2 DEF Additive

LEMMA SumInNat ==
  ASSUME NEW f, IsFiniteSet(DOMAIN f), \A x \in DOMAIN f : f[x] \in Nat
  PROVE  SumFunction(f) \in Nat
BY SumNat DEF SumFunction

(* Taking one term out *)
LEMMA SumWithout ==
  ASSUME NEW S, IsFiniteSet(S), NEW y \in S, NEW f, \A x \in S : f[x] \in Int
  PROVE  /\ SumFunctionOnSet(f, S) = SumFunctionOnSet(f, S \ {y}) + f[y]
         /\ SumFunctionOnSet(f, S) \in Int /\ SumFunctionOnSet(f, S \ {y}) \in Int
<1>. DEFINE R == S \ {y}
<1>1. IsFiniteSet(R) /\ y \notin R /\ R \cup {y} = S
  BY FS_RemoveElement
<1>2. SumFunctionOnSet(f, R \cup {y}) = SumFunctionOnSet(f, R) + f[y]
  BY <1>1, SumAdds
<1>3. SumFunctionOnSet(f, S) \in Int /\ SumFunctionOnSet(f, R) \in Int
  BY <1>1, SumInt
<1>. QED
  BY <1>1, <1>2, <1>3, Zenon

(* A function changed at one argument *)
LEMMA SumChanges ==
  ASSUME NEW S, IsFiniteSet(S), NEW f, NEW g, DOMAIN f = S, DOMAIN g = S, NEW y \in S,
         \A x \in S : f[x] \in Int /\ g[x] \in Int,
         \A x \in S : x # y => g[x] = f[x]
  PROVE  SumFunction(g) = SumFunction(f) - f[y] + g[y] /\ SumFunction(f) \in Int
<1>. DEFINE R == S \ {y}
<1>1. SumFunctionOnSet(f, S) = SumFunctionOnSet(f, R) + f[y] /\ SumFunctionOnSet(f, R) \in Int
  BY SumWithout
<1>2. SumFunctionOnSet(g, S) = SumFunctionOnSet(g, R) + g[y]
  BY SumWithout
<1>3. IsFiniteSet(R) /\ \A x \in R : f[x] \in Int /\ f[x] = g[x]
  BY FS_RemoveElement
<1>4. SumFunctionOnSet(f, R) = SumFunctionOnSet(g, R)
  BY <1>3, SumAgrees
<1>5. f[y] \in Int /\ g[y] \in Int
  OBVIOUS
<1>. HIDE DEF R
<1>6. SumFunctionOnSet(g, S) = SumFunctionOnSet(f, S) - f[y] + g[y] /\ SumFunctionOnSet(f, S) \in Int
  BY <1>1, <1>2, <1>4, <1>5
<1>. QED
  BY <1>6 DEF SumFunction

(* Sums are linear. *)
LEMMA SumLinear ==
  ASSUME NEW S, IsFiniteSet(S), NEW c \in Int, NEW a, NEW b, NEW h,
         DOMAIN a = S, DOMAIN b = S, DOMAIN h = S,
         \A x \in S : a[x] \in Int /\ b[x] \in Int /\ h[x] = a[x] + c * b[x]
  PROVE  SumFunction(h) = SumFunction(a) + c * SumFunction(b)
<1>1. PICK g : Additive(g, a, S)
  BY FiniteAdditive
<1>2. PICK k : Additive(k, b, S)
  BY FiniteAdditive
<1>. DEFINE m == [s \in SUBSET S |-> g[s] + c * k[s]]
<1>3. Additive(m, h, S)
  <2>0. \A i, j \in Int : i + j \in Int /\ c * i \in Int
    OBVIOUS
  <2>1. \A s \in SUBSET S : g[s] \in Int /\ k[s] \in Int
    BY <1>1, <1>2 DEF Additive
  <2>2. m \in [SUBSET S -> Int]
    BY <2>0, <2>1
  <2>3. m[{}] = 0
    BY <1>1, <1>2 DEF Additive
  <2>4. ASSUME NEW s \in SUBSET S, NEW x \in s
        PROVE  m[s] = h[x] + m[s \ {x}]
    <3>. DEFINE r == s \ {x}
    <3>1. r \in SUBSET S /\ x \in S
      OBVIOUS
    <3>2. g[s] = a[x] + g[r] /\ k[s] = b[x] + k[r]
      BY <1>1, <1>2 DEF Additive
    <3>3. g[r] \in Int /\ k[r] \in Int /\ a[x] \in Int /\ b[x] \in Int /\ h[x] = a[x] + c * b[x]
      BY <2>1, <3>1
    <3>4. m[s] = g[s] + c * k[s] /\ m[r] = g[r] + c * k[r]
      BY <3>1
    <3>5. c * (b[x] + k[r]) = c * b[x] + c * k[r] /\ c * b[x] \in Int /\ c * k[r] \in Int
      BY <3>3
    <3>. HIDE DEF m, r
    <3>6. m[s] = h[x] + m[r]
      BY <3>2, <3>3, <3>4, <3>5
    <3>. QED
      BY <3>6 DEF r
  <2>. HIDE DEF m
  <2>. QED
    BY <2>2, <2>3, <2>4 DEF Additive
<1>4. \A x \in S : h[x] \in Int
  <2>1. \A i, j \in Int : i + c * j \in Int
    OBVIOUS
  <2>. QED
    BY <2>1
<1>5. SumFunctionOnSet(h, S) = m[S]
  <2>. HIDE DEF m
  <2>. QED
    BY <1>3, <1>4, AdditiveSums
<1>6. SumFunctionOnSet(a, S) = g[S] /\ SumFunctionOnSet(b, S) = k[S]
  BY <1>1, <1>2, AdditiveSums
<1>. QED
  BY <1>5, <1>6 DEF SumFunction

(* Larger terms, larger sum *)
LEMMA SumMonotone ==
  ASSUME NEW S, IsFiniteSet(S), NEW f, NEW g, DOMAIN f = S, DOMAIN g = S,
         \A x \in S : f[x] \in Int /\ g[x] \in Int /\ f[x] <= g[x]
  PROVE  SumFunction(f) <= SumFunction(g)
<1>. DEFINE d == [x \in S |-> g[x] + (-1) * f[x]]
<1>1. SumFunction(d) = SumFunction(g) + (-1) * SumFunction(f)
  <2>1. \A x \in S : g[x] \in Int /\ f[x] \in Int /\ d[x] = g[x] + (-1) * f[x]
    OBVIOUS
  <2>. HIDE DEF d
  <2>2. DOMAIN d = S
    BY DEF d
  <2>. QED
    BY <2>1, <2>2, SumLinear
<1>2. SumFunction(d) \in Nat
  <2>1. DOMAIN d = S /\ \A x \in S : d[x] \in Nat
    OBVIOUS
  <2>. HIDE DEF d
  <2>. QED
    BY <2>1, SumInNat
<1>3. SumFunction(f) \in Int /\ SumFunction(g) \in Int
  BY SumInt DEF SumFunction
<1>. HIDE DEF d
<1>. QED
  BY <1>1, <1>2, <1>3

(* A sum of nothing but zeros *)
LEMMA SumZero ==
  ASSUME NEW S, IsFiniteSet(S), NEW f, DOMAIN f = S, \A x \in S : f[x] = 0
  PROVE  SumFunction(f) = 0
<1>. DEFINE g == [s \in SUBSET S |-> 0]
<1>1. Additive(g, f, S)
  <2>1. \A s \in SUBSET S : \A x \in s : x \in S /\ s \ {x} \in SUBSET S
    OBVIOUS
  <2>. QED
    BY <2>1 DEF Additive
<1>2. SumFunctionOnSet(f, S) = g[S]
  <2>. HIDE DEF g
  <2>. QED
    BY <1>1, AdditiveSums
<1>. QED
  BY <1>2 DEF SumFunction

(* A sum does not see the terms that are zero. *)
LEMMA SumRestricts ==
  ASSUME NEW S, IsFiniteSet(S), NEW T \in SUBSET S, NEW f, NEW e, DOMAIN f = S, DOMAIN e = T,
         \A x \in T : f[x] \in Int /\ e[x] = f[x], \A x \in S \ T : f[x] = 0
  PROVE  SumFunction(f) = SumFunction(e)
<1>1. IsFiniteSet(T)
  BY FS_Subset
<1>2. PICK g : Additive(g, e, T)
  BY <1>1, FiniteAdditive
<1>. DEFINE m == [s \in SUBSET S |-> g[s \cap T]]
<1>3. Additive(m, f, S)
  <2>1. m \in [SUBSET S -> Int] /\ m[{}] = 0
    <3>1. \A s \in SUBSET S : s \cap T \in SUBSET T
      OBVIOUS
    <3>2. {} \cap T = {}
      OBVIOUS
    <3>. QED
      BY <1>2, <3>1, <3>2 DEF Additive
  <2>2. ASSUME NEW s \in SUBSET S, NEW x \in s PROVE m[s] = f[x] + m[s \ {x}]
    <3>1. m[s] = g[s \cap T] /\ m[s \ {x}] = g[(s \ {x}) \cap T] /\ g[s \cap T] \in Int
      <4>1. s \ {x} \in SUBSET S /\ s \cap T \in SUBSET T
        OBVIOUS
      <4>. QED
        BY <1>2, <4>1 DEF Additive
    <3>2. CASE x \in T
      <4>1. (s \ {x}) \cap T = (s \cap T) \ {x} /\ x \in s \cap T /\ s \cap T \in SUBSET T
        BY <3>2
      <4>2. g[s \cap T] = e[x] + g[(s \cap T) \ {x}]
        BY <1>2, <4>1 DEF Additive
      <4>. QED
        BY <3>1, <3>2, <4>1, <4>2
    <3>3. CASE x \notin T
      <4>1. (s \ {x}) \cap T = s \cap T /\ x \in S \ T
        BY <3>3
      <4>2. f[x] = 0 /\ m[s] = m[s \ {x}] /\ m[s] \in Int
        BY <3>1, <4>1
      <4>. HIDE DEF m
      <4>. QED
        BY <4>2
    <3>. QED
      BY <3>2, <3>3
  <2>. HIDE DEF m
  <2>. QED
    BY <2>1, <2>2 DEF Additive
<1>4. m[S] = g[T]
  <2>1. S \cap T = T /\ S \in SUBSET S
    OBVIOUS
  <2>. QED
    BY <2>1
<1>. HIDE DEF m
<1>5. SumFunctionOnSet(f, S) = m[S]
  BY <1>3, AdditiveSums
<1>6. SumFunctionOnSet(e, T) = g[T]
  BY <1>1, <1>2, AdditiveSums
<1>. QED
  BY <1>4, <1>5, <1>6 DEF SumFunction

-----------------------------------------------------------------------------
(* The fill simulation *)
Taken == order.qty - remaining

(* Where the walk stands, by phase *)
PhaseInv ==
    /\ phase # "done" => result = Pending
    /\ phase = "validate" => remaining = order.qty /\ notional = 0 /\ levels = {}
                             /\ fills = [p \in Prices |-> 0]
    /\ result # Pending => phase = "done"
    /\ result \in Answers => /\ result = FillResult(order, Taken, notional)
                             /\ remaining = 0 \/ levels = {}

(* What was taken so far, level by level *)
LevelInv ==
    /\ levels \subseteq Displayed
    /\ \A p \in Prices : fills[p] <= book[p]
    /\ \A p \in Prices : fills[p] > 0 => Crosses(p)
    /\ \A p \in levels : fills[p] = 0
    /\ phase = "walk" \/ result \in Answers =>
          \A p \in Displayed \ levels : Crosses(p) => fills[p] = book[p] \/ remaining = 0
    /\ phase = "walk" => \A p \in levels, q \in Displayed \ levels : q > p
    /\ \A p, q \in Prices : fills[p] > 0 /\ q > p => fills[q] = book[q]

BoundInv == Bounded(order, Taken, notional)

FillsInv == TypeOK /\ PhaseInv /\ LevelInv /\ BoundInv

-----------------------------------------------------------------------------
(* Prices and quantities stay whole through a level. *)
LEMMA OrderTypes ==
    ASSUME TypeOK
    PROVE  /\ order.side \in {"buy", "sell"} /\ order.qty \in Nat /\ order.qty > 0
           /\ order.limit \in 1..(One - 1) /\ One \in Nat
           /\ remaining \in Nat /\ remaining <= order.qty /\ Taken \in Nat
           /\ \A p \in Prices : book[p] \in Nat /\ fills[p] \in Nat
           /\ \A p \in Prices : ExecutionPrice(p) \in 1..(One - 1)
<1>1. /\ order.side \in {"buy", "sell"} /\ order.qty \in Nat /\ order.qty > 0
      /\ order.limit \in 1..(One - 1) /\ One \in Nat
  BY FillsAssumption DEF TypeOK, Prices
<1>2. remaining \in Nat /\ remaining <= order.qty /\ Taken \in Nat
  BY <1>1 DEF TypeOK, Taken
<1>3. \A p \in Prices : book[p] \in Nat /\ fills[p] \in Nat
  BY FillsAssumption DEF TypeOK
<1>4. \A p \in Prices : ExecutionPrice(p) \in 1..(One - 1)
  BY <1>1 DEF Prices, ExecutionPrice
<1> QED BY <1>1, <1>2, <1>3, <1>4

LEMMA FillUnitsBounds ==
    ASSUME TypeOK, NEW p \in Prices
    PROVE  /\ FillUnits(p) \in Nat /\ FillUnits(p) <= remaining /\ FillUnits(p) <= book[p]
           /\ FillUnits(p) = remaining \/ FillUnits(p) = book[p]
BY OrderTypes DEF FillUnits

(* A product grows with either factor. *)
LEMMA ProductMonotone ==
    ASSUME NEW a \in Nat, NEW b \in Nat, NEW f \in Nat, a <= b
    PROVE  a * f <= b * f /\ a * f \in Nat /\ b * f \in Nat
OBVIOUS

LEMMA Distribute ==
    ASSUME NEW f \in Nat, NEW g \in Nat, NEW l \in Nat
    PROVE  (f + g) * l = f * l + l * g /\ f * l \in Nat /\ l * g \in Nat
OBVIOUS

(* Adding a level that crosses keeps the bounds of the fill. *)
LEMMA TakeKeepsBounds ==
    ASSUME TypeOK, BoundInv, NEW p \in Prices, Crosses(p)
    PROVE  Bounded(order, Taken + FillUnits(p), notional + ExecutionPrice(p) * FillUnits(p))
<1> DEFINE e == ExecutionPrice(p)
           u == FillUnits(p)
           f == Taken
           l == order.limit
<1>1. f \in Nat /\ u \in Nat /\ l \in Nat /\ e \in Nat /\ e >= 1 /\ One - 1 \in Nat /\ e <= One - 1
      /\ notional \in Nat
  BY OrderTypes, FillUnitsBounds DEF TypeOK
<1>2. (f + u) * l = f * l + l * u /\ f * l \in Nat /\ l * u \in Nat
  BY <1>1, Distribute
<1>3. (f + u) * (One - 1) = f * (One - 1) + (One - 1) * u /\ f * (One - 1) \in Nat /\ (One - 1) * u \in Nat
  BY <1>1, Distribute
<1>4. 1 * u <= e * u /\ e * u \in Nat /\ e * u <= (One - 1) * u
  BY <1>1, ProductMonotone
<1>5. u <= e * u
  BY <1>4, <1>1
<1>6. CASE order.side = "buy"
  <2>1. e * u <= l * u
    BY <1>6, <1>1, ProductMonotone DEF Crosses
  <2>2. f <= notional /\ notional <= f * l
    BY <1>6 DEF BoundInv, Bounded, BuyBounded
  <2>3. f + u <= notional + e * u /\ notional + e * u <= (f + u) * l
    <3> HIDE DEF e, u, f, l
    <3> QED BY <1>1, <1>2, <1>4, <1>5, <2>1, <2>2
  <2> QED BY <2>3, <1>6 DEF Bounded, BuyBounded
<1>7. CASE order.side # "buy"
  <2>1. l * u <= e * u
    BY <1>7, <1>1, ProductMonotone DEF Crosses
  <2>2. f * l <= notional /\ notional <= f * (One - 1)
    BY <1>7 DEF BoundInv, Bounded, SellBounded
  <2>3. (f + u) * l <= notional + e * u /\ notional + e * u <= (f + u) * (One - 1)
    <3> HIDE DEF e, u, f, l
    <3> QED BY <1>1, <1>2, <1>3, <1>4, <2>1, <2>2
  <2> QED BY <2>3, <1>7 DEF Bounded, SellBounded
<1> QED BY <1>6, <1>7

-----------------------------------------------------------------------------
LEMMA InitFills == Init => FillsInv
<1> SUFFICES ASSUME Init PROVE FillsInv
  OBVIOUS
<1>1. TypeOK
  BY FillsAssumption DEF Init, TypeOK
<1>2. PhaseInv
  BY FillsAssumption DEF Init, PhaseInv
<1>3. LevelInv
  BY <1>1, OrderTypes, FillsAssumption DEF Init, LevelInv, Displayed
<1>4. BoundInv
  <2>1. Taken = 0 /\ notional = 0
    BY <1>1, OrderTypes DEF Init, Taken
  <2> QED BY <2>1, <1>1, OrderTypes DEF BoundInv, Bounded, BuyBounded, SellBounded
<1> QED BY <1>1, <1>2, <1>3, <1>4 DEF FillsInv

LEMMA RefuseStep ==
    ASSUME FillsInv, phase # "done", Refuse
    PROVE  FillsInv'
<1> USE DEF FillsInv, Refuse, inputs
<1>1. TypeOK'
  BY DEF TypeOK
<1>2. PhaseInv'
  BY FillsAssumption DEF PhaseInv
<1>3. LevelInv'
  BY FillsAssumption DEF LevelInv, Displayed, Crosses, ExecutionPrice
<1>4. BoundInv'
  BY DEF BoundInv, Bounded, BuyBounded, SellBounded, Taken
<1> QED BY <1>1, <1>2, <1>3, <1>4

LEMMA ValidateStep ==
    ASSUME FillsInv, Validate
    PROVE  FillsInv'
<1>1. CASE Refuse
  BY <1>1, RefuseStep DEF Validate
<1>2. CASE /\ phase' = "walk" /\ levels' = Displayed
           /\ UNCHANGED <<inputs, remaining, notional, fills, result>>
  <2> USE <1>2 DEF FillsInv, inputs
  <2>1. TypeOK'
    BY DEF TypeOK, Displayed
  <2>2. PhaseInv'
    BY FillsAssumption DEF PhaseInv, Validate
  <2>3. LevelInv'
    BY FillsAssumption DEF LevelInv, PhaseInv, Validate, Displayed, Crosses, ExecutionPrice
  <2>4. BoundInv'
    BY DEF BoundInv, Bounded, BuyBounded, SellBounded, Taken
  <2> QED BY <2>1, <2>2, <2>3, <2>4
<1> QED BY <1>1, <1>2 DEF Validate

LEMMA FinishStep ==
    ASSUME FillsInv, Finish
    PROVE  FillsInv'
<1> USE DEF FillsInv, Finish, inputs
<1>1. TypeOK'
  <2>1. result' \in Answers
    BY OrderTypes DEF TypeOK, FillResult, FillStatus, Answers, Taken
  <2> QED BY <2>1 DEF TypeOK
<1>2. PhaseInv'
  BY FillsAssumption DEF PhaseInv, FillResult, FillStatus, Taken
<1>3. LevelInv'
  BY DEF LevelInv, Displayed, Crosses, ExecutionPrice
<1>4. BoundInv'
  BY DEF BoundInv, Bounded, BuyBounded, SellBounded, Taken
<1> QED BY <1>1, <1>2, <1>3, <1>4

(* A level that is passed over *)
LEMMA PassStep ==
    ASSUME FillsInv, NEW p \in Prices, phase = "walk", BestLevel(p), ~Crosses(p),
           UNCHANGED <<fills, notional, remaining>>, levels' = levels \ {p},
           UNCHANGED <<inputs, phase, result>>
    PROVE  FillsInv'
<1> USE DEF FillsInv, inputs
<1>1. TypeOK'
  BY DEF TypeOK
<1>2. PhaseInv'
  BY FillsAssumption DEF PhaseInv, FillResult, FillStatus, Taken
<1>3. LevelInv'
  <2>1. \A q \in levels' : q < p /\ q # p
    BY DEF BestLevel, LevelInv, Displayed, Prices
  <2> QED BY <2>1, FillsAssumption DEF LevelInv, PhaseInv, Displayed, Crosses, ExecutionPrice, BestLevel
<1>4. BoundInv'
  BY DEF BoundInv, Bounded, BuyBounded, SellBounded, Taken
<1> QED BY <1>1, <1>2, <1>3, <1>4

(* A better bid crosses when a worse one does. *)
LEMMA BetterCrosses ==
    ASSUME TypeOK, NEW p \in Prices, NEW q \in Prices, q > p, Crosses(p)
    PROVE  Crosses(q)
BY OrderTypes DEF Crosses, ExecutionPrice, Prices

LEMMA TakeStep ==
    ASSUME FillsInv, NEW p \in Prices, phase = "walk", remaining > 0, BestLevel(p), Crosses(p),
           Take(p), levels' = levels \ {p},
           UNCHANGED <<inputs, phase, result>>
    PROVE  FillsInv'
<1> USE DEF FillsInv, inputs
<1>0. /\ FillUnits(p) \in Nat /\ FillUnits(p) <= remaining /\ FillUnits(p) <= book[p]
      /\ FillUnits(p) = remaining \/ FillUnits(p) = book[p]
  BY FillUnitsBounds
<1>1. TypeOK'
  <2>1. remaining' \in 0..order.qty
    BY <1>0, OrderTypes DEF Take
  <2>2. notional' \in Nat
    <3>1. ExecutionPrice(p) \in Nat /\ notional \in Nat
      BY OrderTypes DEF TypeOK
    <3>2. ExecutionPrice(p) * FillUnits(p) \in Nat
      BY <3>1, <1>0, ProductMonotone
    <3> QED BY <3>1, <3>2 DEF Take
  <2>3. fills' \in [Prices -> Nat]
    BY <1>0 DEF TypeOK, Take
  <2> QED BY <2>1, <2>2, <2>3 DEF TypeOK
<1>2. PhaseInv'
  BY FillsAssumption DEF PhaseInv
<1>3. LevelInv'
  <2> USE DEF LevelInv
  <2>0. \A q \in Prices : Crosses(q)' <=> Crosses(q)
    BY DEF Crosses, ExecutionPrice
  <2>1. \A q \in levels : q <= p /\ q \in Prices
    BY DEF BestLevel, Displayed
  <2>2. \A q \in Prices : q > p => fills[q] = book[q]
    <3> SUFFICES ASSUME NEW q \in Prices, q > p PROVE fills[q] = book[q]
      OBVIOUS
    <3>1. q \notin levels
      BY <2>1 DEF Prices
    <3>2. CASE book[q] > 0
      BY <3>1, <3>2, BetterCrosses, OrderTypes DEF Displayed
    <3>3. CASE ~(book[q] > 0)
      BY <3>3, OrderTypes
    <3> QED BY <3>2, <3>3
  <2>3. \A q \in Prices : fills'[q] = IF q = p THEN FillUnits(p) ELSE fills[q]
    BY DEF Take, TypeOK
  <2>4. p \in Displayed /\ p \in levels
    BY DEF BestLevel
  <2>5. Displayed' = Displayed /\ levels' \subseteq levels /\ levels' \subseteq Displayed
    BY DEF Displayed
  <2>6. \A q \in Prices : fills'[q] <= book[q]
    BY <2>3, <1>0
  <2>7. \A q \in Prices : fills'[q] > 0 => Crosses(q)
    BY <2>3
  <2>8. \A q \in levels' : fills'[q] = 0
    BY <2>3, <2>1, <2>5
  <2>9. \A q \in Displayed \ levels' : Crosses(q) => fills'[q] = book[q] \/ remaining' = 0
    <3> SUFFICES ASSUME NEW q \in Displayed \ levels', Crosses(q)
                 PROVE  fills'[q] = book[q] \/ remaining' = 0
      OBVIOUS
    <3>1. q \in Prices
      BY DEF Displayed
    <3>2. CASE q = p
      BY <3>1, <3>2, <2>3, <1>0, OrderTypes DEF Take
    <3>3. CASE q # p
      BY <3>1, <3>3, <2>3, OrderTypes
    <3> QED BY <3>2, <3>3
  <2>10. \A q \in levels', r \in Displayed \ levels' : r > q
    <3> SUFFICES ASSUME NEW q \in levels', NEW r \in Displayed \ levels' PROVE r > q
      OBVIOUS
    <3>1. q \in Prices /\ q < p
      BY <2>1 DEF Prices
    <3> QED BY <3>1
  <2>11. \A q, r \in Prices : fills'[q] > 0 /\ r > q => fills'[r] = book[r]
    <3> SUFFICES ASSUME NEW q \in Prices, NEW r \in Prices, fills'[q] > 0, r > q
                 PROVE  fills'[r] = book[r]
      OBVIOUS
    <3>1. CASE q = p
      BY <3>1, <2>2, <2>3 DEF Prices
    <3>2. CASE q # p
      <4>1. fills[q] > 0
        BY <3>2, <2>3
      <4>2. q \in Displayed \ levels
        BY <4>1, OrderTypes DEF Displayed
      <4>3. q > p
        BY <4>2, <2>4
      <4> QED BY <4>1, <4>3, <2>3 DEF Prices
    <3> QED BY <3>1, <3>2
  <2>12. (\A q \in Prices : fills[q] > 0 => Crosses(q))'
    BY <2>0, <2>7
  <2>13. (\A q \in Displayed \ levels : Crosses(q) => fills[q] = book[q] \/ remaining = 0)'
    <3> HIDE DEF FillsInv, LevelInv
    <3>1. Displayed \subseteq Prices
      BY DEF Displayed
    <3> QED BY <2>0, <2>5, <2>9, <3>1
  <2> QED
    <3> HIDE DEF FillsInv
    <3> QED BY <2>5, <2>6, <2>8, <2>10, <2>11, <2>12, <2>13
<1>4. BoundInv'
  <2>1. Bounded(order, Taken + FillUnits(p), notional + ExecutionPrice(p) * FillUnits(p))
    BY TakeKeepsBounds
  <2>2. Taken' = Taken + FillUnits(p)
    BY <1>0, OrderTypes DEF Taken, Take
  <2>3. notional' = notional + ExecutionPrice(p) * FillUnits(p) /\ order' = order
    BY DEF Take
  <2> QED BY <2>1, <2>2, <2>3 DEF BoundInv, Bounded, BuyBounded, SellBounded
<1> QED BY <1>1, <1>2, <1>3, <1>4

LEMMA NextFills == FillsInv /\ [Next]_vars => FillsInv'
<1> SUFFICES ASSUME FillsInv, [Next]_vars PROVE FillsInv'
  OBVIOUS
<1>1. CASE Validate
  BY <1>1, ValidateStep
<1>2. CASE Finish
  BY <1>2, FinishStep
<1>3. ASSUME NEW p \in Prices, Level(p) PROVE FillsInv'
  BY <1>3, RefuseStep, PassStep, TakeStep DEF Level
<1>4. CASE UNCHANGED vars
  BY <1>4 DEF vars, FillsInv, TypeOK, PhaseInv, LevelInv, BoundInv, Displayed, Crosses, ExecutionPrice,
              Taken, Bounded, BuyBounded, SellBounded, FillResult, FillStatus
<1> QED BY <1>1, <1>2, <1>3, <1>4 DEF Next

(* The walk keeps its inductive invariant: what is taken, what is owed and   *)
(* what it costs agree at every level (simulate_buy_ioc, simulate_sell_ioc). *)
THEOREM FillsInvariant == Spec => []FillsInv
<1> QED BY InitFills, NextFills, PTL DEF Spec

(* The simulation never leaves its types: nothing is filled beyond the order *)
(* and no amount is negative (simulate_buy_ioc, simulate_sell_ioc).          *)
THEOREM TypeCorrect == Spec => []TypeOK
<1>1. FillsInv => TypeOK
  BY DEF FillsInv
<1> QED BY <1>1, FillsInvariant, PTL

(* Depth is used best price first, never beyond what is shown or the limit,  *)
(* for every book, limit and tick (simulate_buy_ioc, simulate_sell_ioc).     *)
THEOREM BestPriceFirstHolds == Spec => []BestPriceFirst
<1>1. FillsInv => BestPriceFirst
  <2> SUFFICES ASSUME FillsInv PROVE BestPriceFirst
    OBVIOUS
  <2> USE DEF FillsInv
  <2>1. /\ \A p \in Prices : fills[p] <= book[p]
        /\ \A p \in Prices : fills[p] > 0 => Crosses(p) /\ \A q \in Prices : q > p => fills[q] = book[q]
    BY DEF LevelInv
  <2>2. ASSUME result \in Answers, result.filled < order.qty, NEW p \in Prices, Crosses(p)
        PROVE  fills[p] = book[p]
    <3>1. result.filled = order.qty - remaining
      BY <2>2 DEF PhaseInv, FillResult, Taken
    <3>2. remaining # 0 /\ levels = {}
      BY <3>1, <2>2, OrderTypes DEF PhaseInv
    <3>3. CASE book[p] > 0
      BY <3>2, <3>3, <2>2 DEF LevelInv, Displayed
    <3>4. CASE ~(book[p] > 0)
      BY <3>4, <2>1, OrderTypes
    <3> QED BY <3>3, <3>4
  <2> QED BY <2>1, <2>2 DEF BestPriceFirst
<1> QED BY <1>1, FillsInvariant, PTL

(* The simulation implements the contract the ledger is built on: its answer *)
(* is a bounded fill or a refusal (KalshiPaperOrder).                        *)
THEOREM SimulationImplementsOrder == Spec => ImplementsOrder
<1>1. Init => Order!Init
  BY DEF Init, Order!Init
<1>2. FillsInv /\ FillsInv' /\ [Next]_vars => [Order!Evaluate]_<<order, result>>
  <2> SUFFICES ASSUME FillsInv, FillsInv', [Next]_vars
               PROVE  Order!Evaluate \/ UNCHANGED <<order, result>>
    OBVIOUS
  <2>1. CASE Validate
    BY <2>1 DEF Validate, Refuse, inputs, Order!Evaluate, FillsInv, PhaseInv
  <2>2. CASE Finish
    <3>1. result = Pending /\ order' = order /\ result' = FillResult(order, Taken, notional)
      BY <2>2 DEF Finish, inputs, FillsInv, PhaseInv, Taken
    <3>2. Taken \in 0..order.qty /\ notional \in 0..(order.qty * One) /\ Bounded(order, Taken, notional)
      <4>0. TypeOK /\ BoundInv
        BY DEF FillsInv
      <4>1. /\ Taken \in Nat /\ order.qty \in Nat /\ One \in Nat /\ One - 1 \in Nat
            /\ notional \in Nat /\ Taken <= order.qty
            /\ order.limit \in Nat /\ order.limit <= One /\ order.limit <= One - 1
        BY <4>0, OrderTypes DEF TypeOK, Taken
      <4>2. notional <= Taken * (One - 1)
        <5>1. Taken * order.limit = order.limit * Taken /\ Taken * (One - 1) = (One - 1) * Taken
          BY <4>1
        <5>2. order.limit * Taken <= (One - 1) * Taken
              /\ order.limit * Taken \in Nat /\ (One - 1) * Taken \in Nat
          BY <4>1, ProductMonotone
        <5> HIDE DEF Taken
        <5> QED BY <4>0, <4>1, <5>1, <5>2 DEF BoundInv, Bounded, BuyBounded, SellBounded
      <4>3. Taken * (One - 1) <= order.qty * (One - 1) /\ Taken * (One - 1) \in Nat
            /\ order.qty * (One - 1) \in Nat
        BY <4>1, ProductMonotone
      <4>4. (One - 1) * order.qty <= One * order.qty /\ One * order.qty \in Nat
        BY <4>1, ProductMonotone
      <4>5. order.qty * (One - 1) = (One - 1) * order.qty /\ order.qty * One = One * order.qty
        BY <4>1
      <4> QED
        <5> HIDE DEF Taken
        <5> QED BY <4>0, <4>1, <4>2, <4>3, <4>4, <4>5 DEF BoundInv
    <3>3. result' \in FillResults(order)
      <4> DEFINE x == <<Taken, notional>>
      <4>1. x \in (0..order.qty) \X (0..(order.qty * One)) /\ x[1] = Taken /\ x[2] = notional
        BY <3>2
      <4> QED BY <4>1, <3>1, <3>2 DEF FillResults
    <3>4. Order!FillResults(order) = FillResults(order)
      BY DEF FillResults, Order!FillResults, FillResult, Order!FillResult, FillStatus, Order!FillStatus,
             Bounded, Order!Bounded, BuyBounded, Order!BuyBounded, SellBounded, Order!SellBounded
    <3> QED BY <3>1, <3>3, <3>4 DEF Order!Evaluate
  <2>3. ASSUME NEW p \in Prices, Level(p)
        PROVE  Order!Evaluate \/ UNCHANGED <<order, result>>
    BY <2>3 DEF Level, Refuse, inputs, Order!Evaluate, FillsInv, PhaseInv
  <2>4. CASE UNCHANGED vars
    BY <2>4 DEF vars
  <2> QED BY <2>1, <2>2, <2>3, <2>4 DEF Next
<1> QED BY <1>1, <1>2, FillsInvariant, PTL DEF Spec, ImplementsOrder, Order!Spec

-----------------------------------------------------------------------------
(* The optimum.  The sums of the walk are carried by an invariant of their   *)
(* own; the best price is then found by duality: one price, that of the      *)
(* worst level touched, separates what the walk took from what it left.      *)
SumInv == Taken = SumFunction(fills) /\ notional = Cost(fills)

LEMMA PricesFinite == IsFiniteSet(Prices)
BY FillsAssumption, FS_Interval DEF Prices

LEMMA InitSums == Init => SumInv
<1> SUFFICES ASSUME Init PROVE SumInv
  OBVIOUS
<1>1. TypeOK /\ Taken = 0 /\ notional = 0
  BY FillsAssumption, InitFills, OrderTypes DEF Init, FillsInv, Taken
<1>2. SumFunction(fills) = 0
  <2>1. DOMAIN fills = Prices /\ \A p \in Prices : fills[p] = 0
    BY DEF Init
  <2> QED BY <2>1, PricesFinite, SumZero
<1>3. Cost(fills) = 0
  <2> DEFINE c == [p \in Prices |-> ExecutionPrice(p) * fills[p]]
  <2>1. \A p \in Prices : fills[p] = 0 /\ ExecutionPrice(p) \in Int
    BY <1>1, OrderTypes DEF Init
  <2>2. DOMAIN c = Prices /\ \A p \in Prices : c[p] = 0
    BY <2>1
  <2>3. SumFunction(c) = 0
    <3> HIDE DEF c
    <3> QED BY <2>2, PricesFinite, SumZero
  <2> QED BY <2>3 DEF Cost
<1> QED BY <1>1, <1>2, <1>3 DEF SumInv

LEMMA UnchangedSums ==
    ASSUME SumInv, UNCHANGED <<order, remaining, notional, fills>>
    PROVE  SumInv'
<1>1. Taken' = Taken
  BY DEF Taken
<1>2. Cost(fills)' = Cost(fills)
  BY DEF Cost, ExecutionPrice
<1> QED BY <1>1, <1>2 DEF SumInv

LEMMA TakeSums ==
    ASSUME FillsInv, SumInv, NEW p \in Prices, BestLevel(p), Take(p), UNCHANGED order
    PROVE  SumInv'
<1> DEFINE u == FillUnits(p)
           e == ExecutionPrice(p)
<1>0. TypeOK /\ fills[p] = 0
  BY DEF FillsInv, LevelInv, BestLevel
<1>1. u \in Nat /\ e \in Nat /\ u <= remaining /\ notional \in Nat
  BY <1>0, FillUnitsBounds, OrderTypes DEF TypeOK
<1>2. /\ DOMAIN fills = Prices /\ DOMAIN fills' = Prices /\ fills'[p] = u
      /\ \A q \in Prices : fills[q] \in Int /\ fills'[q] \in Int
      /\ \A q \in Prices : q # p => fills'[q] = fills[q]
  BY <1>0, <1>1 DEF Take, TypeOK
<1>3. SumFunction(fills') = SumFunction(fills) - fills[p] + fills'[p] /\ SumFunction(fills) \in Int
  BY <1>2, PricesFinite, SumChanges
<1>4. Taken' = Taken + u /\ Taken \in Nat
  BY <1>0, <1>1, OrderTypes DEF Take, Taken
<1>5. Cost(fills)' = Cost(fills) + e * u
  <2>0. PICK c : c = [q \in Prices |-> ExecutionPrice(q) * fills[q]]
    OBVIOUS
  <2>1. PICK d : d = [q \in Prices |-> ExecutionPrice(q) * fills'[q]]
    OBVIOUS
  <2>2. \A q \in Prices : ExecutionPrice(q)' = ExecutionPrice(q) /\ ExecutionPrice(q) \in Int
    BY <1>0, OrderTypes DEF ExecutionPrice
  <2>3. \A i, j \in Int : i * j \in Int
    OBVIOUS
  <2>4. DOMAIN c = Prices /\ DOMAIN d = Prices /\ \A q \in Prices : c[q] \in Int /\ d[q] \in Int
    BY <1>2, <2>0, <2>1, <2>2, <2>3
  <2>5. c[p] = 0 /\ d[p] = e * u /\ \A q \in Prices : q # p => d[q] = c[q]
    BY <1>0, <1>1, <1>2, <2>0, <2>1
  <2>6. SumFunction(d) = SumFunction(c) - c[p] + d[p] /\ SumFunction(c) \in Int
    BY <2>4, <2>5, PricesFinite, SumChanges
  <2>7. Cost(fills) = SumFunction(c) /\ Cost(fills)' = SumFunction(d)
    BY <2>0, <2>1, <2>2 DEF Cost
  <2>8. e * u \in Int
    BY <1>1
  <2> HIDE DEF e, u
  <2> QED BY <2>5, <2>6, <2>7, <2>8
<1>6. notional' = notional + e * u
  BY DEF Take
<1> HIDE DEF e, u
<1> QED BY <1>0, <1>2, <1>3, <1>4, <1>5, <1>6 DEF SumInv

LEMMA NextSums == FillsInv /\ SumInv /\ [Next]_vars => SumInv'
<1> SUFFICES ASSUME FillsInv, SumInv, [Next]_vars PROVE SumInv'
  OBVIOUS
<1>1. CASE Validate \/ Finish \/ UNCHANGED vars
  BY <1>1, UnchangedSums DEF Validate, Refuse, Finish, vars, inputs
<1>2. ASSUME NEW p \in Prices, Level(p) PROVE SumInv'
  BY <1>2, UnchangedSums, TakeSums DEF Level, Refuse, inputs
<1> QED BY <1>1, <1>2 DEF Next

(* The running totals of the walk are those of the levels it took: the       *)
(* quantity is their sum and the notional their cost, at every step          *)
(* (simulate_buy_ioc, simulate_sell_ioc).                                    *)
THEOREM SumsInvariant == Spec => []SumInv
<1> QED BY FillsInvariant, InitSums, NextSums, PTL DEF Spec

(* Two pairs in the same order *)
LEMMA Rearrange ==
    ASSUME NEW a \in Int, NEW b \in Int, NEW x \in Int, NEW y \in Int,
           (b <= a /\ y <= x) \/ (a <= b /\ x <= y)
    PROVE  /\ a * y + b * x <= a * x + b * y
           /\ a * y \in Int /\ b * x \in Int /\ a * x \in Int /\ b * y \in Int
<1>1. a * y \in Int /\ b * x \in Int /\ a * x \in Int /\ b * y \in Int
  OBVIOUS
<1>2. (a - b) * (x - y) = a * x - a * y - b * x + b * y
  OBVIOUS
<1>3. (b - a) * (y - x) = a * x - a * y - b * x + b * y
  OBVIOUS
<1>4. \A i, j \in Nat : i * j \in Nat
  OBVIOUS
<1>5. CASE b <= a /\ y <= x
  <2>1. a - b \in Nat /\ x - y \in Nat
    BY <1>5
  <2>2. (a - b) * (x - y) \in Nat
    BY <2>1, <1>4
  <2> QED BY <1>1, <1>2, <2>2
<1>6. CASE a <= b /\ x <= y
  <2>1. b - a \in Nat /\ y - x \in Nat
    BY <1>6
  <2>2. (b - a) * (y - x) \in Nat
    BY <2>1, <1>4
  <2> QED BY <1>1, <1>3, <2>2
<1> QED BY <1>5, <1>6

(* The price that separates: a level with a better one gives all it has, a   *)
(* level with a worse one gives nothing.                                     *)
Separates(c) ==
    \A q \in Prices :
        \/ ExecutionPrice(q) = c
        \/ IF (ExecutionPrice(q) < c) <=> (order.side = "buy") THEN fills[q] = book[q] ELSE fills[q] = 0

LEMMA SomePriceSeparates ==
    ASSUME FillsInv
    PROVE  \E c \in Int : Separates(c)
<1> DEFINE touched == {p \in Prices : fills[p] > 0}
<1>0. TypeOK /\ One \in Nat /\ order.side \in {"buy", "sell"}
      /\ \A p \in Prices : fills[p] \in Nat /\ ExecutionPrice(p) \in 1..(One - 1) /\ p \in 1..(One - 1)
  BY OrderTypes DEF FillsInv, Prices
<1>1. CASE touched = {}
  <2>1. \A p \in Prices : fills[p] = 0
    BY <1>0, <1>1
  <2>2. CASE order.side = "buy"
    <3>1. Separates(0)
      BY <1>0, <2>1, <2>2 DEF Separates
    <3> QED BY <3>1
  <2>3. CASE order.side # "buy"
    <3>1. Separates(One)
      BY <1>0, <2>1, <2>3 DEF Separates
    <3> QED BY <1>0, <3>1
  <2> QED BY <2>2, <2>3
<1>2. CASE touched # {}
  <2>1. touched \in SUBSET Nat
    BY <1>0
  <2>2. PICK p \in touched : \A q \in touched : p <= q
    <3> HIDE DEF touched
    <3> QED BY <1>2, <2>1, LeastNatural
  <2>3. p \in Prices /\ fills[p] > 0
    OBVIOUS
  <2>4. \A q \in Prices : q > p => fills[q] = book[q]
    BY <2>3 DEF FillsInv, LevelInv
  <2>5. \A q \in Prices : q < p => fills[q] = 0
    BY <1>0, <2>2, <2>3
  <2>6. Separates(ExecutionPrice(p))
    <3> SUFFICES ASSUME NEW q \in Prices, ExecutionPrice(q) # ExecutionPrice(p)
                 PROVE  IF (ExecutionPrice(q) < ExecutionPrice(p)) <=> (order.side = "buy")
                        THEN fills[q] = book[q] ELSE fills[q] = 0
      BY DEF Separates
    <3>1. p \in Int /\ q \in Int /\ q # p
      BY <1>0, <2>3
    <3>2. ((ExecutionPrice(q) < ExecutionPrice(p)) <=> (order.side = "buy")) <=> q > p
      BY <1>0, <3>1 DEF ExecutionPrice
    <3> QED BY <3>1, <3>2, <2>4, <2>5
  <2>7. ExecutionPrice(p) \in Int
    BY <1>0, <2>3
  <2> QED BY <2>6, <2>7
<1> QED BY <1>1, <1>2

LEMMA AllocationTypes ==
    ASSUME TypeOK, NEW f \in Allocations
    PROVE  /\ DOMAIN f = Prices
           /\ \A p \in Prices : f[p] \in Nat /\ f[p] <= book[p] /\ (~Crosses(p) => f[p] = 0)
           /\ SumFunction(f) <= order.qty
<1>1. /\ f \in [Prices -> UNION {0..d : d \in Depth}]
      /\ \A p \in Prices : f[p] <= IF Crosses(p) THEN book[p] ELSE 0
      /\ SumFunction(f) <= order.qty
  BY DEF Allocations
<1>2. \A p \in Prices : f[p] \in Nat
  <2> SUFFICES ASSUME NEW p \in Prices PROVE f[p] \in Nat
    OBVIOUS
  <2>1. PICK d \in Depth : f[p] \in 0..d
    BY <1>1
  <2> QED BY <2>1, FillsAssumption
<1>3. \A p \in Prices : book[p] \in Nat
  BY OrderTypes
<1>4. ASSUME NEW p \in Prices PROVE f[p] <= book[p] /\ (~Crosses(p) => f[p] = 0)
  <2>1. f[p] \in Nat /\ book[p] \in Nat /\ f[p] <= IF Crosses(p) THEN book[p] ELSE 0
    BY <1>1, <1>2, <1>3
  <2> QED BY <2>1
<1>5. DOMAIN f = Prices
  BY <1>1
<1> QED BY <1>1, <1>2, <1>4, <1>5

(* At one price, level by level, then summed: no allocation of the same      *)
(* quantity does better.                                                     *)
LEMMA NoneIsCheaper ==
    ASSUME FillsInv, NEW f \in Allocations, SumFunction(f) = SumFunction(fills)
    PROVE  IF order.side = "buy" THEN Cost(fills) <= Cost(f) ELSE Cost(f) <= Cost(fills)
<1>0. TypeOK
  BY DEF FillsInv
<1>1. PICK c \in Int : Separates(c)
  BY SomePriceSeparates
<1> DEFINE a == [q \in Prices |-> ExecutionPrice(q) * fills[q]]
           b == [q \in Prices |-> ExecutionPrice(q) * f[q]]
           ac == [q \in Prices |-> ExecutionPrice(q) * fills[q] + c * f[q]]
           bc == [q \in Prices |-> ExecutionPrice(q) * f[q] + c * fills[q]]
<1>2. \A q \in Prices : /\ fills[q] \in Nat /\ f[q] \in Nat /\ f[q] <= book[q] /\ fills[q] <= book[q]
                        /\ ExecutionPrice(q) \in Int
  BY <1>0, AllocationTypes, OrderTypes DEF FillsInv, LevelInv
<1>3. DOMAIN fills = Prices /\ DOMAIN f = Prices
  BY <1>0, AllocationTypes DEF TypeOK
<1>4. \A i, j, k, l \in Int : i * j \in Int /\ i * j + k * l \in Int
  OBVIOUS
<1>5. /\ DOMAIN a = Prices /\ DOMAIN b = Prices /\ DOMAIN ac = Prices /\ DOMAIN bc = Prices
      /\ \A q \in Prices : a[q] \in Int /\ b[q] \in Int /\ ac[q] \in Int /\ bc[q] \in Int
      /\ \A q \in Prices : ac[q] = a[q] + c * f[q] /\ bc[q] = b[q] + c * fills[q]
  BY <1>2, <1>4
<1>6. ASSUME NEW q \in Prices
      PROVE  IF order.side = "buy" THEN ac[q] <= bc[q] ELSE bc[q] <= ac[q]
  <2> DEFINE e == ExecutionPrice(q)
  <2>0. e \in Int /\ fills[q] \in Int /\ f[q] \in Int /\ fills[q] >= 0 /\ f[q] >= 0
    BY <1>2
  <2>1. CASE e = c
    BY <2>0, <2>1
  <2>2. CASE e # c /\ order.side = "buy"
    <3>1. (c <= e /\ fills[q] <= f[q]) \/ (e <= c /\ f[q] <= fills[q])
      BY <1>1, <1>2, <2>2, <2>0 DEF Separates
    <3>2. e * fills[q] + c * f[q] <= e * f[q] + c * fills[q]
      <4> HIDE DEF e
      <4> QED BY <2>0, <3>1, Rearrange
    <3> QED BY <2>2, <3>2
  <2>3. CASE e # c /\ order.side # "buy"
    <3>1. (c <= e /\ f[q] <= fills[q]) \/ (e <= c /\ fills[q] <= f[q])
      BY <1>1, <1>2, <2>3, <2>0 DEF Separates
    <3>2. e * f[q] + c * fills[q] <= e * fills[q] + c * f[q]
      <4> HIDE DEF e
      <4> QED BY <2>0, <3>1, Rearrange
    <3> QED BY <2>3, <3>2
  <2> QED BY <2>1, <2>2, <2>3
<1> HIDE DEF a, b, ac, bc
<1>7. SumFunction(ac) = SumFunction(a) + c * SumFunction(f)
  BY <1>2, <1>3, <1>5, PricesFinite, SumLinear
<1>8. SumFunction(bc) = SumFunction(b) + c * SumFunction(fills)
  BY <1>2, <1>3, <1>5, PricesFinite, SumLinear
<1>9. IF order.side = "buy" THEN SumFunction(ac) <= SumFunction(bc) ELSE SumFunction(bc) <= SumFunction(ac)
  BY <1>5, <1>6, PricesFinite, SumMonotone
<1>10. SumFunction(a) \in Int /\ SumFunction(b) \in Int /\ SumFunction(f) \in Int
  BY <1>2, <1>3, <1>5, PricesFinite, SumInt DEF SumFunction
<1>11. c * SumFunction(f) \in Int
  BY <1>10
<1>12. SumFunction(a) = Cost(fills) /\ SumFunction(b) = Cost(f)
  BY DEF Cost, a, b
<1> QED BY <1>7, <1>8, <1>9, <1>10, <1>11, <1>12

(* No use of the displayed depth fills more than the simulation does, none   *)
(* of the same quantity has a better price, and the answer adds up: for      *)
(* every book, order and range (simulate_buy_ioc, simulate_sell_ioc).        *)
THEOREM ExecutionIsBest == Spec => []BestExecution
<1>1. FillsInv /\ SumInv => BestExecution
  <2> SUFFICES ASSUME FillsInv, SumInv, result \in Answers
               PROVE  /\ result.filled = SumFunction(fills) /\ result.notional = Cost(fills)
                      /\ fills \in Allocations
                      /\ \A f \in Allocations :
                            /\ SumFunction(f) <= result.filled
                            /\ SumFunction(f) = result.filled =>
                                  IF order.side = "buy" THEN result.notional <= Cost(f)
                                  ELSE Cost(f) <= result.notional
    BY DEF BestExecution
  <2>0. TypeOK
    BY DEF FillsInv
  <2>1. result.filled = SumFunction(fills) /\ result.notional = Cost(fills) /\ result.filled = Taken
    BY DEF FillsInv, PhaseInv, FillResult, SumInv
  <2>2. /\ Taken \in Nat /\ order.qty \in Nat /\ remaining \in Nat /\ Taken <= order.qty
        /\ remaining = 0 => Taken = order.qty
    BY <2>0, OrderTypes DEF Taken
  <2>3. \A p \in Prices : book[p] \in Depth /\ book[p] \in Nat /\ fills[p] \in Nat /\ fills[p] <= book[p]
    BY <2>0, OrderTypes DEF TypeOK, FillsInv, LevelInv
  <2>4. fills \in Allocations
    <3>1. fills \in [Prices -> UNION {0..d : d \in Depth}]
      <4>1. \A p \in Prices : fills[p] \in 0..book[p]
        BY <2>3
      <4> QED BY <4>1, <2>0, <2>3 DEF TypeOK
    <3>2. \A p \in Prices : fills[p] <= IF Crosses(p) THEN book[p] ELSE 0
      BY <2>3 DEF FillsInv, LevelInv
    <3> QED BY <3>1, <3>2, <2>1, <2>2 DEF Allocations
  <2>5. ASSUME NEW f \in Allocations
        PROVE  SumFunction(f) <= result.filled
    <3>1. CASE remaining = 0
      BY <3>1, <2>0, <2>1, <2>2, AllocationTypes
    <3>2. CASE remaining # 0
      <4>1. levels = {}
        BY <3>2 DEF FillsInv, PhaseInv
      <4>2. ASSUME NEW p \in Prices PROVE f[p] \in Int /\ fills[p] \in Int /\ f[p] <= fills[p]
        <5>1. Crosses(p) /\ book[p] > 0 => fills[p] = book[p]
          BY <4>1, <3>2 DEF FillsInv, LevelInv, Displayed
        <5> QED BY <5>1, <2>0, <2>3, AllocationTypes
      <4>3. DOMAIN fills = Prices /\ DOMAIN f = Prices
        BY <2>0, AllocationTypes DEF TypeOK
      <4>4. SumFunction(f) <= SumFunction(fills)
        BY <4>2, <4>3, PricesFinite, SumMonotone
      <4> QED BY <4>4, <2>1
    <3> QED BY <3>1, <3>2
  <2>6. ASSUME NEW f \in Allocations, SumFunction(f) = result.filled
        PROVE  IF order.side = "buy" THEN result.notional <= Cost(f) ELSE Cost(f) <= result.notional
    BY <2>1, <2>6, NoneIsCheaper
  <2> QED BY <2>1, <2>4, <2>5, <2>6
<1> QED BY <1>1, FillsInvariant, SumsInvariant, PTL

(* At every step the simulation has taken the best levels, and its answer is *)
(* the best there is (simulate_buy_ioc, simulate_sell_ioc).                  *)
THEOREM ExecutionIsSound == Spec => []ExecutionInv
<1>1. BestPriceFirst /\ BestExecution => ExecutionInv
  BY DEF ExecutionInv
<1> QED BY <1>1, BestPriceFirstHolds, ExecutionIsBest, PTL

-----------------------------------------------------------------------------
(* The test trade.  The steps of tick_run, which only the worker takes, and  *)
(* those of them between a trigger and its outcome *)
TickPcs == {"check", "quote", "exit", "exitQuote", "stale", "project", "record"}
ExitPcs == {"exit", "exitQuote", "stale", "project", "record"}
EntryEvents == {"entry_filled", "entry_unfilled"}
Watched == {"monitoring", "paused", "stopped"}

(* Who is where: the entry is decided once, before the position is bound,    *)
(* and a tick that has its lock runs on a run that was monitored; a start    *)
(* whose lock was lost may have blocked it since.                            *)
EntryInv ==
    /\ proc["api"].pc \notin TickPcs
    /\ \A p \in Procs : proc[p].pc = "entryQuote" => Unresolved(Entry)
    /\ proc["api"].pc = "entryQuote" => proc["worker"].pc # "entryQuote"
    /\ \A p \in Procs : proc[p].pc = "bind" => Decided(Entry)
    /\ bound => Decided(Entry) /\ status \notin {"none", "starting"}
    /\ status \in Watched \cup {"completed"} => bound
    /\ proc["worker"].pc \in TickPcs => bound /\ (lock = "worker" => status \in {"monitoring", "blocked"})

(* The position: one exit is open at a time and asks for no more than is     *)
(* left, so that what is left never falls below nothing.                     *)
ExitInv ==
    /\ ~bound => \A d \in Exits : ledger[d] = None
    /\ \A d, e \in Exits : Unresolved(d) /\ Unresolved(e) => d = e
    /\ \A d \in Exits : Unresolved(d) => ledger[d].qty <= Remaining
    /\ Remaining \in 0..Quantity
    /\ proc["worker"].pc = "exitQuote" => posLock = "worker" /\ Unresolved(proc["worker"].trigger)
    /\ posLock = "manual" => Unresolved(Manual)
    /\ status = "completed" => Remaining = 0

(* The evidence: what an event says stays true of the ledger. *)
EvidenceInv ==
    /\ \A k \in DOMAIN events : IsTrigger(k) => events[k].exit = k /\ k <= MaxEvents
    /\ \A k \in DOMAIN events : events[k].type \in ExitEvents =>
          events[k].exit \in Triggers /\ events[k].exit < k /\ ~Unresolved(events[k].exit)
    /\ \A k \in DOMAIN events : events[k].type \in EntryEvents => status \notin {"none", "starting"}
    /\ \A k \in DOMAIN events : events[k].type = "completed" => status \in {"completed", "blocked"}
    /\ OutcomesAreUnique
    /\ EvidenceMatchesLedger

(* The trigger a tick works on is the only one that has no outcome. *)
TriggerInv ==
    /\ \A j, k \in PendingTriggers : j = k
    /\ proc["worker"].pc = "quote" => PendingTriggers = {}
    /\ proc["worker"].pc \in ExitPcs => PendingTriggers = {proc["worker"].trigger}
    /\ proc["worker"].pc = "stale" => ledger[proc["worker"].trigger] = None
    /\ proc["worker"].pc \in {"project", "record"} => Decided(proc["worker"].trigger)
    /\ proc["worker"].pc = "record" /\ proc["worker"].remaining = 0 => Remaining = 0

(* Room for the events that end a run *)
LengthInv ==
    /\ status = "none" => Len(events) = 0
    /\ status = "starting" => Len(events) = 1
    /\ status \in {"none", "starting"} => PendingTriggers = {}
    /\ status \in Watched => Len(events) <= MaxEvents + 1
    /\ status \in Watched /\ PendingTriggers # {} => Len(events) <= MaxEvents

(* A tick that has its lock may still end the run: nothing else has. *)
NotCompleted == \A k \in DOMAIN events : events[k].type # "completed"
TickInv ==
    proc["worker"].pc \in TickPcs /\ lock = "worker" =>
        NotCompleted /\ (proc["worker"].pc \in ExitPcs => Len(events) <= MaxEvents)

RunInvariant == RunTypeOK /\ EntryInv /\ ExitInv /\ EvidenceInv /\ TriggerInv /\ LengthInv /\ TickInv

-----------------------------------------------------------------------------
(* What the state is made of *)
EventRows == [type : EventTypes, exit : {0} \cup Triggers, remaining : 0..Quantity]

LEMMA Amounts ==
    /\ Quantity \in Nat /\ Quantity > 0 /\ MaxEvents \in Nat /\ MaxEvents > 0 /\ Open \in Nat /\ Open > Quantity
    /\ Entry \notin Exits /\ Manual \notin Triggers /\ Manual \in Exits /\ Triggers \subseteq Exits
    /\ Entry \notin Triggers /\ \A t \in Triggers : t \in Nat /\ t >= 1 /\ t <= MaxEvents
BY TestTradeAssumption DEF Open, Entry, Exits, Triggers, Manual

LEMMA ExitsFinite == IsFiniteSet(Exits)
<1>1. IsFiniteSet(Triggers)
  BY TestTradeAssumption, FS_Interval DEF Triggers
<1> QED BY <1>1, FS_AddElement DEF Exits

LEMMA RowTypes ==
    ASSUME RunTypeOK, NEW d \in {Entry} \cup Exits
    PROVE  /\ ledger[d] # None => ledger[d] \in LedgerRows /\ ledger[d].qty \in 0..Quantity
                                  /\ ledger[d].filled \in 0..Open
           /\ Filled(d) \in 0..Quantity
           /\ Unresolved(d) => Filled(d) = 0
           /\ ledger[d] = None => Filled(d) = 0
           /\ ~(Decided(d) /\ Unresolved(d))
           /\ ledger[d] # None => Decided(d) \/ Unresolved(d)
<1>1. ledger[d] # None => ledger[d] \in LedgerRows /\ ledger[d].qty \in 0..Quantity /\ ledger[d].filled \in 0..Open
  BY DEF RunTypeOK, LedgerRows
<1>2. Filled(d) \in 0..Quantity
  BY <1>1, Amounts DEF Filled, Decided, Open
<1> QED BY <1>1, <1>2 DEF Filled, Decided, Unresolved

LEMMA FilledTypes == RunTypeOK => \A d \in Exits : Filled(d) \in 0..Quantity
BY RowTypes

LEMMA FilledTypesNext == (RunTypeOK => \A d \in Exits : Filled(d) \in 0..Quantity)'
BY FilledTypes, PTL

LEMMA ProcTypes ==
    ASSUME RunTypeOK, NEW p \in Procs
    PROVE  proc[p].trigger \in {0} \cup Triggers /\ proc[p].remaining \in 0..Quantity
BY DEF RunTypeOK

LEMMA TickIsWorker ==
    ASSUME EntryInv, NEW p \in Procs, proc[p].pc \in TickPcs
    PROVE  p = "worker" /\ bound /\ (lock = p => status \in {"monitoring", "blocked"})
BY DEF EntryInv, Procs

LEMMA MonitoredIsOpen ==
    ASSUME EvidenceInv, status = "monitoring"
    PROVE  NotCompleted
BY DEF EvidenceInv, NotCompleted

LEMMA SumOfExits ==
    ASSUME RunTypeOK
    PROVE  SumFunction([d \in Exits |-> Filled(d)]) \in Nat
<1> DEFINE f == [d \in Exits |-> Filled(d)]
<1>1. DOMAIN f = Exits /\ \A d \in Exits : f[d] \in Nat
  BY RowTypes, Amounts
<1> HIDE DEF f
<1>2. SumFunction(f) \in Nat
  BY <1>1, ExitsFinite, SumInNat
<1> QED BY <1>2 DEF f

(* What is left, after one exit changed *)
LEMMA RemainingChanges ==
    ASSUME RunTypeOK, RunTypeOK', bound, bound', NEW y \in Exits, Filled(Entry)' = Filled(Entry),
           \A d \in Exits : d # y => Filled(d)' = Filled(d)
    PROVE  Remaining' = Remaining + Filled(y) - Filled(y)' /\ Remaining \in Int
<1>1. PICK f : f = [d \in Exits |-> Filled(d)]
  OBVIOUS
<1>2. PICK g : g = [d \in Exits |-> Filled(d)']
  OBVIOUS
<1>3. \A d \in Exits : Filled(d) \in Int /\ Filled(d)' \in Int
  <2>1. \A d \in Exits : Filled(d) \in Int
    BY RowTypes, Amounts
  <2>2. \A d \in Exits : Filled(d)' \in 0..Quantity
    BY FilledTypesNext
  <2> QED BY <2>1, <2>2, Amounts
<1>4. SumFunction(g) = SumFunction(f) - f[y] + g[y] /\ SumFunction(f) \in Int
  BY <1>1, <1>2, <1>3, ExitsFinite, SumChanges
<1>5. Remaining = Filled(Entry) - SumFunction(f)
  BY <1>1 DEF Remaining
<1>6. Remaining' = Filled(Entry)' - SumFunction(g)
  BY <1>2 DEF Remaining
<1>7. Filled(Entry) \in Int
  BY RowTypes, Amounts
<1> QED BY <1>1, <1>2, <1>3, <1>4, <1>5, <1>6, <1>7

LEMMA SameLedger ==
    ASSUME UNCHANGED <<ledger, bound>>
    PROVE  /\ \A d : (Decided(d)' <=> Decided(d)) /\ (Unresolved(d)' <=> Unresolved(d)) /\ Filled(d)' = Filled(d)
           /\ Remaining' = Remaining
<1>1. \A d : (Decided(d)' <=> Decided(d)) /\ (Unresolved(d)' <=> Unresolved(d)) /\ Filled(d)' = Filled(d)
  BY DEF Decided, Unresolved, Filled
<1> QED BY <1>1 DEF Remaining

LEMMA SameEvents ==
    ASSUME UNCHANGED events
    PROVE  PendingTriggers' = PendingTriggers
BY DEF PendingTriggers, IsTrigger, Ended

(* Steps of a process *)
LEMMA GotoStep ==
    ASSUME RunTypeOK, NEW p \in Procs, NEW pc, Goto(p, pc)
    PROVE  /\ proc'[p].pc = pc /\ proc'[p].trigger = proc[p].trigger /\ proc'[p].remaining = proc[p].remaining
           /\ \A q \in Procs : q # p => proc'[q] = proc[q]
           /\ DOMAIN proc' = Procs /\ proc'[p] = [proc[p] EXCEPT !.pc = pc]
BY DEF RunTypeOK, Goto

LEMMA DoneStep ==
    ASSUME RunTypeOK, NEW p \in Procs, Done(p)
    PROVE  /\ proc'[p] = Idle /\ proc'[p].pc = "idle"
           /\ \A q \in Procs : q # p => proc'[q] = proc[q]
           /\ DOMAIN proc' = Procs
           /\ lock' # p /\ lock' \in {lock, "free"}
BY DEF RunTypeOK, Done, Idle, Procs

(* An intent is recorded, or decided. *)
LEMMA IntentStep ==
    ASSUME RunTypeOK, NEW d \in {Entry} \cup Exits, NEW q \in 0..Quantity, ledger[d] = None,
           ledger' = [ledger EXCEPT ![d] = [qty |-> q, filled |-> Open]]
    PROVE  /\ ledger' \in [{Entry} \cup Exits -> LedgerRows \cup {None}]
           /\ Unresolved(d)' /\ ~Decided(d)' /\ ledger'[d].qty = q /\ Filled(d)' = Filled(d) /\ Filled(d) = 0
           /\ \A e \in {Entry} \cup Exits : e # d => ledger'[e] = ledger[e]
           /\ \A e \in {Entry} \cup Exits : Filled(e)' = Filled(e)
<1>1. [qty |-> q, filled |-> Open] \in LedgerRows
  BY Amounts DEF LedgerRows
<1>2. /\ ledger' \in [{Entry} \cup Exits -> LedgerRows \cup {None}]
      /\ ledger'[d] = [qty |-> q, filled |-> Open]
      /\ \A e \in {Entry} \cup Exits : e # d => ledger'[e] = ledger[e]
  BY <1>1 DEF RunTypeOK
<1>3. ledger'[d] # None /\ ledger'[d].qty = q /\ ledger'[d].filled = Open
  BY <1>1, <1>2, TestTradeAssumption
<1>4. Unresolved(d)' /\ ~Decided(d)' /\ Filled(d)' = 0 /\ Filled(d) = 0
  BY <1>3 DEF Unresolved, Decided, Filled
<1>5. \A e \in {Entry} \cup Exits : e # d => Filled(e)' = Filled(e)
  BY <1>2 DEF Filled, Decided
<1> QED BY <1>2, <1>3, <1>4, <1>5

LEMMA ResolveStep ==
    ASSUME RunTypeOK, NEW d \in {Entry} \cup Exits, NEW n \in 0..Quantity, Unresolved(d), Resolve(d, n)
    PROVE  /\ ledger' \in [{Entry} \cup Exits -> LedgerRows \cup {None}]
           /\ Decided(d)' /\ ~Unresolved(d)' /\ Filled(d)' = n /\ Filled(d) = 0
           /\ \A e \in {Entry} \cup Exits : e # d => ledger'[e] = ledger[e] /\ Filled(e)' = Filled(e)
<1>1. ledger[d] \in LedgerRows /\ ledger[d] # None
  BY RowTypes DEF Unresolved
<1> DEFINE r == [ledger[d] EXCEPT !.filled = n]
<1>2. r \in LedgerRows /\ r.filled = n /\ r.qty = ledger[d].qty
  BY <1>1, Amounts DEF LedgerRows, Open
<1>3. /\ ledger' \in [{Entry} \cup Exits -> LedgerRows \cup {None}]
      /\ ledger'[d] = r
      /\ \A e \in {Entry} \cup Exits : e # d => ledger'[e] = ledger[e]
  <2>1. ledger' = [ledger EXCEPT ![d] = r]
    BY DEF Resolve
  <2> HIDE DEF r
  <2> QED BY <1>2, <2>1 DEF RunTypeOK
<1> HIDE DEF r
<1>4. ledger'[d] # None /\ ledger'[d].filled = n /\ n # Open
  BY <1>2, <1>3, TestTradeAssumption, Amounts
<1>5. Decided(d)' /\ ~Unresolved(d)' /\ Filled(d)' = n
  BY <1>4 DEF Decided, Unresolved, Filled
<1>6. Filled(d) = 0
  BY RowTypes
<1>7. \A e \in {Entry} \cup Exits : e # d => Filled(e)' = Filled(e)
  BY <1>3 DEF Filled, Decided
<1> QED BY <1>3, <1>5, <1>6, <1>7

(* One event more *)
LEMMA AppendStep ==
    ASSUME RunTypeOK, NEW t \in EventTypes, NEW x \in {0} \cup Triggers, NEW n \in 0..Quantity, AppendEvent(t, x, n)
    PROVE  /\ events' \in Seq(EventRows) /\ Len(events') = Len(events) + 1 /\ Len(events) \in Nat
           /\ DOMAIN events' = DOMAIN events \cup {Len(events) + 1}
           /\ DOMAIN events = 1..Len(events)
           /\ events'[Len(events) + 1].type = t /\ events'[Len(events) + 1].exit = x
           /\ \A k \in DOMAIN events : events'[k] = events[k] /\ k # Len(events) + 1
<1>1. Event(t, x, n) \in EventRows /\ Event(t, x, n).type = t /\ Event(t, x, n).exit = x
  BY DEF Event, EventRows
<1>2. events \in Seq(EventRows)
  BY DEF RunTypeOK, EventRows
<1> QED BY <1>1, <1>2 DEF AppendEvent

-----------------------------------------------------------------------------
(* What a step keeps of each part of the invariant *)
LEMMA KeepsExit ==
    ASSUME ExitInv, UNCHANGED <<ledger, bound>>,
           proc'["worker"].pc = "exitQuote" => posLock' = "worker" /\ Unresolved(proc'["worker"].trigger),
           posLock' = "manual" => posLock = "manual",
           status' = "completed" => Remaining = 0
    PROVE  ExitInv'
<1>1. /\ \A d : (Decided(d)' <=> Decided(d)) /\ (Unresolved(d)' <=> Unresolved(d)) /\ Filled(d)' = Filled(d)
      /\ Remaining' = Remaining
  BY SameLedger
<1>2. (Unresolved(proc["worker"].trigger))' <=> Unresolved(proc'["worker"].trigger)
  BY DEF Unresolved
<1> QED BY <1>1, <1>2 DEF ExitInv

LEMMA KeepsEvidence ==
    ASSUME EvidenceInv, UNCHANGED <<events, status, ledger>>
    PROVE  EvidenceInv'
BY DEF EvidenceInv, IsTrigger, OutcomesAreUnique, SameOutcome, EvidenceMatchesLedger, Filled, Decided, Unresolved

LEMMA KeepsLength ==
    ASSUME LengthInv, UNCHANGED <<events, status>>
    PROVE  LengthInv'
BY SameEvents DEF LengthInv

LEMMA KeepsTick ==
    ASSUME TickInv, UNCHANGED events, lock' = "worker" => lock = "worker",
           \/ proc'["worker"].pc \notin TickPcs
           \/ proc'["worker"].pc \in ExitPcs /\ proc["worker"].pc \in ExitPcs
           \/ proc'["worker"] = proc["worker"]
    PROVE  TickInv'
BY DEF TickInv, NotCompleted, TickPcs, ExitPcs

(* One event more, or an outcome and the completion after it *)
LEMMA GrowEvents ==
    ASSUME RunTypeOK, EvidenceInv, UNCHANGED ledger, NEW two \in BOOLEAN, NEW t \in EventTypes, NEW x,
           DOMAIN events' = 1..(Len(events) + IF two THEN 2 ELSE 1),
           \A k \in DOMAIN events : events'[k] = events[k],
           events'[Len(events) + 1].type = t, events'[Len(events) + 1].exit = x,
           two => t # "completed" /\ events'[Len(events) + 2].type = "completed",
           t = "triggered" => x = Len(events) + 1 /\ x \in Triggers,
           t \in ExitEvents => x \in PendingTriggers /\ ~Unresolved(x) /\ (t = "exit_no_fill" <=> Filled(x) = 0),
           t \in EntryEvents => status \in {"none", "starting"} /\ status' \notin {"none", "starting"},
           t = "completed" \/ two => NotCompleted /\ status' = "completed",
           status' \in {"none", "starting"} => status \in {"none", "starting"},
           status \in {"completed", "blocked"} => status' \in {"completed", "blocked"}
    PROVE  /\ EvidenceInv'
           /\ PendingTriggers' = (PendingTriggers \ (IF t \in ExitEvents THEN {x} ELSE {}))
                                 \cup (IF t = "triggered" THEN {Len(events) + 1} ELSE {})
<1> DEFINE N == Len(events)
<1>0. N \in Nat /\ DOMAIN events = 1..N
  BY DEF RunTypeOK
<1>1. DOMAIN events' = DOMAIN events \cup {N + 1} \cup (IF two THEN {N + 2} ELSE {})
  BY <1>0
<1>2. \A k \in DOMAIN events : k # N + 1 /\ k # N + 2 /\ k < N + 1 /\ k \in Nat
  BY <1>0
<1>3. N + 1 # N + 2 /\ N + 1 \in DOMAIN events' /\ (two => N + 2 \in DOMAIN events')
  BY <1>0
<1>4. PendingTriggers \subseteq DOMAIN events /\ \A k \in PendingTriggers : events[k].exit = k /\ k \in Triggers
  BY <1>2, Amounts DEF PendingTriggers, IsTrigger, EvidenceInv, Triggers
<1>5. t \in ExitEvents => \A k \in DOMAIN events : events[k].type \in ExitEvents => events[k].exit # x
  BY <1>4 DEF PendingTriggers, Ended
<1>6. "triggered" \notin ExitEvents /\ "completed" \notin ExitEvents /\ "completed" \notin EntryEvents
      /\ "triggered" \notin EntryEvents /\ "triggered" # "completed" /\ ExitEvents \cap EntryEvents = {}
  BY DEF ExitEvents, EntryEvents
<1> HIDE DEF N
<1>7. /\ \A d : Unresolved(d)' <=> Unresolved(d)
      /\ \A d : Filled(d)' = Filled(d)
  BY DEF Unresolved, Filled, Decided
<1>8. \A k \in DOMAIN events' : k \in DOMAIN events \/ k = N + 1 \/ (two /\ k = N + 2)
  BY <1>1
<1>9. events'[N + 1].type = t /\ events'[N + 1].exit = x /\ (two => events'[N + 2].type = "completed")
  BY DEF N
<1>10. /\ \A k \in DOMAIN events' : events'[k].type = "triggered" => events'[k].exit = k /\ k <= MaxEvents
       /\ \A k \in DOMAIN events' : events'[k].type \in ExitEvents =>
             events'[k].exit \in Triggers /\ events'[k].exit < k /\ ~Unresolved(events'[k].exit)
  <2> SUFFICES ASSUME NEW k \in DOMAIN events'
               PROVE  /\ events'[k].type = "triggered" => events'[k].exit = k /\ k <= MaxEvents
                      /\ events'[k].type \in ExitEvents =>
                            events'[k].exit \in Triggers /\ events'[k].exit < k /\ ~Unresolved(events'[k].exit)
    OBVIOUS
  <2>1. CASE k \in DOMAIN events
    BY <2>1 DEF EvidenceInv, IsTrigger
  <2>2. CASE k = N + 1
    BY <2>2, <1>0, <1>2, <1>4, <1>9, Amounts DEF N
  <2>3. CASE two /\ k = N + 2
    BY <2>3, <1>6, <1>9
  <2> QED BY <2>1, <2>2, <2>3, <1>8
<1>11. \A k \in DOMAIN events' : events'[k].type \in EntryEvents => status' \notin {"none", "starting"}
  <2> SUFFICES ASSUME NEW k \in DOMAIN events', events'[k].type \in EntryEvents
               PROVE  status' \notin {"none", "starting"}
    OBVIOUS
  <2>1. CASE k \in DOMAIN events
    BY <2>1 DEF EvidenceInv
  <2>2. CASE k = N + 1
    BY <2>2, <1>9
  <2>3. CASE two /\ k = N + 2
    BY <2>3, <1>6, <1>9
  <2> QED BY <2>1, <2>2, <2>3, <1>8
<1>12. \A k \in DOMAIN events' : events'[k].type = "completed" => status' \in {"completed", "blocked"}
  BY <1>8, <1>9 DEF EvidenceInv
<1>13. ASSUME NEW j \in DOMAIN events', NEW k \in DOMAIN events', SameOutcome(events'[j], events'[k])
       PROVE  j = k
  <2>0. \A i \in DOMAIN events : /\ events[i].type \in EntryEvents => status \notin {"none", "starting"}
                                 /\ t = "completed" \/ two => events[i].type # "completed"
    BY DEF EvidenceInv, NotCompleted
  <2>1. CASE j \in DOMAIN events /\ k \in DOMAIN events
    BY <2>1, <1>13 DEF EvidenceInv, OutcomesAreUnique
  <2>2. ASSUME NEW i \in DOMAIN events, NEW m \in DOMAIN events', m \notin DOMAIN events,
               SameOutcome(events'[i], events'[m]) \/ SameOutcome(events'[m], events'[i])
        PROVE  FALSE
    <3>1. events'[i] = events[i]
      OBVIOUS
    <3>2. \/ {events[i].type, events'[m].type} \subseteq EntryEvents
          \/ {events[i].type, events'[m].type} \subseteq {"completed"}
          \/ {events[i].type, events'[m].type} \subseteq ExitEvents /\ events[i].exit = events'[m].exit
      BY <2>2, <3>1 DEF SameOutcome, EntryEvents
    <3>3. CASE m = N + 1
      BY <3>2, <3>3, <2>0, <1>5, <1>9
    <3>4. CASE two /\ m = N + 2
      BY <3>2, <3>4, <2>0, <1>6, <1>9
    <3> QED BY <3>3, <3>4, <2>2, <1>8
  <2>3. CASE two /\ ((j = N + 1 /\ k = N + 2) \/ (k = N + 1 /\ j = N + 2))
    <3>1. \/ {t, "completed"} \subseteq EntryEvents \/ {t, "completed"} \subseteq {"completed"}
          \/ {t, "completed"} \subseteq ExitEvents
      BY <2>3, <1>9, <1>13 DEF SameOutcome, EntryEvents
    <3> QED BY <2>3, <3>1, <1>6
  <2>4. CASE j = k
    BY <2>4
  <2> QED
    <3>1. j \in DOMAIN events => k \in DOMAIN events
      BY <2>2, <1>13
    <3>2. k \in DOMAIN events => j \in DOMAIN events
      BY <2>2, <1>13
    <3>3. CASE j \notin DOMAIN events /\ k \notin DOMAIN events
      <4>1. (j = N + 1 \/ (two /\ j = N + 2)) /\ (k = N + 1 \/ (two /\ k = N + 2))
        BY <3>3, <1>8
      <4> QED BY <4>1, <2>3, <2>4
    <3> QED BY <3>1, <3>2, <3>3, <2>1
<1>14. ASSUME NEW k \in DOMAIN events', events'[k].type \in ExitEvents
       PROVE  events'[k].type = "exit_no_fill" <=> Filled(events'[k].exit) = 0
  <2>1. CASE k \in DOMAIN events
    BY <2>1, <1>14 DEF EvidenceInv, EvidenceMatchesLedger
  <2>2. CASE k = N + 1
    BY <2>2, <1>9, <1>14
  <2>3. CASE two /\ k = N + 2
    BY <2>3, <1>6, <1>9, <1>14
  <2> QED BY <2>1, <2>2, <2>3, <1>8
<1>15. EvidenceInv'
  <2>1. OutcomesAreUnique'
    BY <1>13 DEF OutcomesAreUnique, SameOutcome
  <2>2. EvidenceMatchesLedger'
    BY <1>14 DEF EvidenceMatchesLedger, Filled, Decided
  <2>3. (\A k \in DOMAIN events : IsTrigger(k) => events[k].exit = k /\ k <= MaxEvents)'
    BY <1>10 DEF IsTrigger
  <2>4. (\A k \in DOMAIN events : events[k].type \in ExitEvents =>
            events[k].exit \in Triggers /\ events[k].exit < k /\ ~Unresolved(events[k].exit))'
    BY <1>10 DEF Unresolved
  <2> QED BY <1>11, <1>12, <2>1, <2>2, <2>3, <2>4 DEF EvidenceInv
<1>16. ASSUME NEW k
       PROVE  k \in PendingTriggers' <=> \/ k \in PendingTriggers /\ ~(t \in ExitEvents /\ k = x)
                                         \/ t = "triggered" /\ k = N + 1
  <2>0. k \in PendingTriggers' <=>
           /\ k \in DOMAIN events' /\ events'[k].type = "triggered"
           /\ ~ \E j \in DOMAIN events' : events'[j].type \in ExitEvents /\ events'[j].exit = events'[k].exit
    BY DEF PendingTriggers, IsTrigger, Ended
  <2>1. CASE k \in DOMAIN events
    <3>1. events'[k] = events[k] /\ k \in DOMAIN events' /\ k # N + 1
      BY <2>1, <1>1, <1>2
    <3>2. CASE events[k].type # "triggered"
      BY <3>1, <3>2, <2>0 DEF PendingTriggers, IsTrigger
    <3>3. CASE events[k].type = "triggered"
      <4>1. events[k].exit = k
        BY <2>1, <3>3 DEF EvidenceInv, IsTrigger
      <4>2. (\E j \in DOMAIN events' : events'[j].type \in ExitEvents /\ events'[j].exit = k)
            <=> \/ \E j \in DOMAIN events : events[j].type \in ExitEvents /\ events[j].exit = k
                \/ t \in ExitEvents /\ x = k
        BY <1>1, <1>3, <1>6, <1>8, <1>9
      <4>3. k \in PendingTriggers <=>
               ~ \E j \in DOMAIN events : events[j].type \in ExitEvents /\ events[j].exit = k
        BY <2>1, <3>3, <4>1 DEF PendingTriggers, IsTrigger, Ended
      <4> QED BY <3>1, <3>3, <4>1, <4>2, <4>3, <2>0
    <3> QED BY <3>2, <3>3
  <2>2. CASE k \notin DOMAIN events
    <3>1. k \notin PendingTriggers
      BY <2>2, <1>4
    <3>2. CASE t # "triggered" \/ k # N + 1
      BY <3>1, <3>2, <2>0, <2>2, <1>8, <1>9
    <3>3. CASE t = "triggered" /\ k = N + 1
      <4>1. \A j \in DOMAIN events' : events'[j].type \in ExitEvents => events'[j].exit # N + 1
        <5> SUFFICES ASSUME NEW j \in DOMAIN events', events'[j].type \in ExitEvents
                     PROVE  events'[j].exit # N + 1
          OBVIOUS
        <5>1. j \in DOMAIN events
          BY <3>3, <1>6, <1>8, <1>9
        <5>2. events[j].exit < j /\ events[j].exit \in Nat
          BY <5>1, Amounts DEF EvidenceInv
        <5> QED BY <5>1, <5>2, <1>0, <1>2 DEF N
      <4>2. events'[k].type = "triggered" /\ events'[k].exit = N + 1 /\ k \in DOMAIN events'
        BY <3>3, <1>3, <1>9 DEF N
      <4> QED BY <3>3, <4>1, <4>2, <2>0
    <3> QED BY <3>2, <3>3
  <2> QED BY <2>1, <2>2
<1>17. PendingTriggers' = (PendingTriggers \ (IF t \in ExitEvents THEN {x} ELSE {}))
                          \cup (IF t = "triggered" THEN {N + 1} ELSE {})
  BY <1>16
<1> QED BY <1>15, <1>17 DEF N

(* The same for one event *)
LEMMA GrowByOne ==
    ASSUME RunTypeOK, EvidenceInv, UNCHANGED ledger, NEW t \in EventTypes, NEW x \in {0} \cup Triggers,
           NEW n \in 0..Quantity, AppendEvent(t, x, n),
           t = "triggered" => x = Len(events) + 1 /\ x \in Triggers,
           t \in ExitEvents => x \in PendingTriggers /\ ~Unresolved(x) /\ (t = "exit_no_fill" <=> Filled(x) = 0),
           t \in EntryEvents => status \in {"none", "starting"} /\ status' \notin {"none", "starting"},
           t = "completed" => NotCompleted /\ status' = "completed",
           status' \in {"none", "starting"} => status \in {"none", "starting"},
           status \in {"completed", "blocked"} => status' \in {"completed", "blocked"}
    PROVE  /\ EvidenceInv'
           /\ PendingTriggers' = (PendingTriggers \ (IF t \in ExitEvents THEN {x} ELSE {}))
                                 \cup (IF t = "triggered" THEN {Len(events) + 1} ELSE {})
           /\ events' \in Seq(EventRows) /\ Len(events') = Len(events) + 1 /\ Len(events) \in Nat
<1>1. /\ events' \in Seq(EventRows) /\ Len(events') = Len(events) + 1 /\ Len(events) \in Nat
      /\ DOMAIN events' = DOMAIN events \cup {Len(events) + 1}
      /\ DOMAIN events = 1..Len(events)
      /\ events'[Len(events) + 1].type = t /\ events'[Len(events) + 1].exit = x
      /\ \A k \in DOMAIN events : events'[k] = events[k]
  BY AppendStep
<1>2. DOMAIN events' = 1..(Len(events) + IF FALSE THEN 2 ELSE 1)
  BY <1>1
<1> QED BY <1>1, <1>2, GrowEvents

-----------------------------------------------------------------------------
(* The steps.  Each lemma is about one operation of the service. *)
LEMMA InitRun == RunInit => RunInvariant
<1> SUFFICES ASSUME RunInit PROVE RunInvariant
  OBVIOUS
<1>1. RunTypeOK
  <2>1. proc \in [Procs -> [pc : {"idle"}, trigger : {0} \cup Triggers, remaining : 0..Quantity]]
    BY Amounts DEF RunInit, Idle
  <2>2. events \in Seq(EventRows) /\ Len(events) = 0
    BY DEF RunInit
  <2>3. Len(events) <= MaxEvents + 3
    BY <2>2, Amounts
  <2>4. ledger \in [{Entry} \cup Exits -> LedgerRows \cup {None}]
    BY DEF RunInit
  <2>5. status \in Statuses /\ bound \in BOOLEAN
    BY DEF RunInit, Statuses
  <2>6. posLock \in Procs \cup {"manual", "free"} /\ lock \in Procs \cup {"free"}
    BY DEF RunInit
  <2> QED BY <2>1, <2>2, <2>3, <2>4, <2>5, <2>6 DEF RunTypeOK, EventRows
<1>2. \A d \in {Entry} \cup Exits : ledger[d] = None /\ ~Unresolved(d)
  BY DEF RunInit, Unresolved
<1>3. proc["api"] = Idle /\ proc["worker"] = Idle /\ Idle.pc = "idle"
  BY DEF RunInit, Procs, Idle
<1>4. EntryInv
  BY <1>3 DEF RunInit, EntryInv, TickPcs, Watched, Procs
<1>5. ExitInv
  <2>1. Remaining = 0
    BY DEF RunInit, Remaining
  <2> QED BY <1>2, <1>3, <2>1, Amounts DEF RunInit, ExitInv
<1>6. EvidenceInv
  BY DEF RunInit, EvidenceInv, OutcomesAreUnique, EvidenceMatchesLedger
<1>0. PendingTriggers = {}
  BY DEF RunInit, PendingTriggers
<1>7. TriggerInv
  BY <1>0, <1>3 DEF TriggerInv, ExitPcs
<1>8. LengthInv
  BY <1>0 DEF RunInit, LengthInv, Watched
<1>9. TickInv
  BY <1>3 DEF TickInv, TickPcs
<1> QED BY <1>1, <1>4, <1>5, <1>6, <1>7, <1>8, <1>9 DEF RunInvariant

(* An operation ends and nothing else happens, or its locks are dropped. *)
LEMMA EndStep ==
    ASSUME RunInvariant, NEW p \in Procs, Done(p), UNCHANGED <<status, bound, events, ledger>>,
           posLock' = posLock \/ (posLock = p /\ posLock' = "free")
    PROVE  RunInvariant'
<1> USE DEF RunInvariant
<1>0. /\ proc'[p] = Idle /\ proc'[p].pc = "idle" /\ DOMAIN proc' = Procs
      /\ \A q \in Procs : q # p => proc'[q] = proc[q]
      /\ lock' # p /\ lock' \in {lock, "free"}
  BY DoneStep
<1>a. p \in {"api", "worker"} /\ Procs = {"api", "worker"}
  BY DEF Procs
<1>b. proc'["worker"] = proc["worker"] \/ proc'["worker"].pc = "idle"
  BY <1>0, <1>a
<1>c. proc'["api"] = proc["api"] \/ proc'["api"].pc = "idle"
  BY <1>0, <1>a
<1>d. lock' = "worker" => lock = "worker"
  BY <1>0
<1>1. RunTypeOK'
  BY <1>0, Amounts DEF RunTypeOK, Done, Idle
<1>2. EntryInv'
  BY <1>a, <1>b, <1>c, <1>d, SameLedger DEF EntryInv, TickPcs
<1>3. ExitInv'
  BY <1>a, <1>0, KeepsExit DEF ExitInv
<1>4. EvidenceInv' /\ LengthInv'
  BY KeepsEvidence, KeepsLength
<1>5. TriggerInv'
  <2>1. PendingTriggers' = PendingTriggers /\ Remaining' = Remaining
    BY SameEvents, SameLedger
  <2> QED BY <1>b, <2>1 DEF TriggerInv, ExitPcs, Decided
<1>6. TickInv'
  BY <1>b, <1>d, KeepsTick DEF TickPcs
<1> QED BY <1>1, <1>2, <1>3, <1>4, <1>5, <1>6

(* A process goes from one step to the next and nothing else happens. *)
LEMMA MoveStep ==
    ASSUME RunInvariant, NEW p \in Procs, UNCHANGED <<status, bound, events, ledger, posLock>>,
           DOMAIN proc' = Procs, \A q \in Procs : q # p => proc'[q] = proc[q],
           RunTypeOK',
           proc'[p].pc \notin {"entryQuote", "exitQuote"},
           proc'[p].pc = "bind" => Decided(Entry),
           proc'[p].pc \in TickPcs => p = "worker" /\ bound /\ (lock' = p => status \in {"monitoring", "blocked"}),
           proc'[p].pc \in TickPcs /\ lock' = p =>
               NotCompleted /\ (proc'[p].pc \in ExitPcs => Len(events) <= MaxEvents),
           lock' \in {lock, p},
           proc'[p].pc = "quote" => PendingTriggers = {},
           proc'[p].pc \in ExitPcs => PendingTriggers = {proc'[p].trigger},
           proc'[p].pc = "stale" => ledger[proc'[p].trigger] = None,
           proc'[p].pc \in {"project", "record"} => Decided(proc'[p].trigger),
           proc'[p].pc = "record" /\ proc'[p].remaining = 0 => Remaining = 0
    PROVE  RunInvariant'
<1> USE DEF RunInvariant
<1>a. p \in {"api", "worker"} /\ Procs = {"api", "worker"}
  BY DEF Procs
<1>b. p = "worker" \/ proc'["worker"] = proc["worker"]
  BY <1>a
<1>c. p = "api" \/ proc'["api"] = proc["api"]
  BY <1>a
<1>2. EntryInv'
  <2>1. \A q \in Procs : proc'[q].pc = "entryQuote" => Unresolved(Entry)
    BY <1>a, <1>b, <1>c DEF EntryInv
  <2>2. \A q \in Procs : proc'[q].pc = "bind" => Decided(Entry)
    BY <1>a, <1>b, <1>c DEF EntryInv
  <2>3. proc'["api"].pc \notin TickPcs
    BY <1>a, <1>b, <1>c DEF EntryInv
  <2>4. proc'["worker"].pc \in TickPcs => bound /\ (lock' = "worker" => status \in {"monitoring", "blocked"})
    BY <1>a, <1>b, <1>c DEF EntryInv
  <2>5. proc'["api"].pc = "entryQuote" => proc'["worker"].pc # "entryQuote"
    BY <1>a, <1>b, <1>c DEF EntryInv
  <2>6. (Decided(Entry)' <=> Decided(Entry)) /\ (Unresolved(Entry)' <=> Unresolved(Entry))
    BY SameLedger
  <2> QED BY <2>1, <2>2, <2>3, <2>4, <2>5, <2>6 DEF EntryInv
<1>3. ExitInv'
  BY <1>b, KeepsExit DEF ExitInv
<1>4. EvidenceInv' /\ LengthInv'
  BY KeepsEvidence, KeepsLength
<1>5. TriggerInv'
  <2>1. PendingTriggers' = PendingTriggers /\ Remaining' = Remaining
    BY SameEvents, SameLedger
  <2>2. (Decided(proc["worker"].trigger))' <=> Decided(proc'["worker"].trigger)
    BY DEF Decided
  <2>3. CASE p = "worker"
    BY <2>1, <2>2, <2>3 DEF TriggerInv
  <2>4. CASE p # "worker"
    BY <2>1, <2>2, <2>4, <1>b DEF TriggerInv
  <2> QED BY <2>3, <2>4
<1>6. TickInv'
  <2>1. CASE p = "worker"
    BY <2>1 DEF TickInv, NotCompleted
  <2>2. CASE p # "worker"
    BY <2>2, <1>b, KeepsTick
  <2> QED BY <2>1, <2>2
<1> QED BY <1>2, <1>3, <1>4, <1>5, <1>6

LEMMA StartRunStep ==
    ASSUME RunInvariant, NEW p \in Procs, StartRun(p)
    PROVE  RunInvariant'
<1>0. RunTypeOK
  BY DEF RunInvariant
<1>1. /\ proc'[p].pc = "create" /\ DOMAIN proc' = Procs /\ proc'[p] = [proc[p] EXCEPT !.pc = "create"]
      /\ \A q \in Procs : q # p => proc'[q] = proc[q]
  BY <1>0, GotoStep DEF StartRun
<1>2. RunTypeOK'
  BY <1>0, <1>1 DEF StartRun, RunTypeOK, Goto
<1> QED BY <1>1, <1>2, MoveStep DEF StartRun, TickPcs, ExitPcs

LEMMA TickRunStep ==
    ASSUME RunInvariant, NEW p \in Procs, TickRun(p)
    PROVE  RunInvariant'
<1>0. RunTypeOK /\ bound
  BY DEF RunInvariant, TickRun, EntryInv, Watched
<1>1. /\ proc'[p].pc = "check" /\ DOMAIN proc' = Procs /\ proc'[p] = [proc[p] EXCEPT !.pc = "check"]
      /\ \A q \in Procs : q # p => proc'[q] = proc[q]
  BY <1>0, GotoStep DEF TickRun
<1>2. RunTypeOK'
  <2>1. proc'[p] \in [pc : {"check"}, trigger : {0} \cup Triggers, remaining : 0..Quantity]
    BY <1>0, <1>1 DEF RunTypeOK
  <2>2. lock' \in Procs \cup {"free"}
    BY DEF TickRun
  <2> QED BY <1>0, <2>1, <2>2 DEF TickRun, RunTypeOK, Goto
<1>3. NotCompleted /\ status = "monitoring"
  BY MonitoredIsOpen DEF RunInvariant, TickRun
<1> QED BY <1>0, <1>1, <1>2, <1>3, MoveStep DEF TickRun, ExitPcs

LEMMA LoseLockStep ==
    ASSUME RunInvariant, NEW p \in Procs, LoseLock(p)
    PROVE  RunInvariant'
<1> USE DEF RunInvariant, LoseLock
<1>1. RunTypeOK'
  BY DEF RunTypeOK
<1>2. EntryInv'
  BY SameLedger DEF EntryInv
<1>3. ExitInv'
  BY KeepsExit DEF ExitInv
<1>4. EvidenceInv' /\ LengthInv'
  BY KeepsEvidence, KeepsLength
<1>5. TriggerInv'
  <2>1. PendingTriggers' = PendingTriggers /\ Remaining' = Remaining
    BY SameEvents, SameLedger
  <2> QED BY <2>1 DEF TriggerInv, Decided
<1>6. TickInv'
  BY KeepsTick
<1> QED BY <1>1, <1>2, <1>3, <1>4, <1>5, <1>6

(* An event ends the operation: the ledger and the position are left alone. *)
LEMMA EventStep ==
    ASSUME RunInvariant, NEW p \in Procs, Done(p), UNCHANGED <<bound, ledger, posLock>>,
           NEW t \in EventTypes, NEW x \in {0} \cup Triggers, NEW n \in 0..Quantity, AppendEvent(t, x, n),
           t # "triggered", t \notin EntryEvents,
           t \in ExitEvents => x \in PendingTriggers /\ ~Unresolved(x) /\ (t = "exit_no_fill" <=> Filled(x) = 0)
                               /\ p = "worker",
           t = "completed" => NotCompleted /\ status' = "completed" /\ Remaining = 0 /\ bound,
           status' = "completed" => t = "completed",
           status' \in {status, "completed", "blocked"}, status' # "none", status' # "starting",
           p = "api" => t = "blocked" /\ status' = "blocked" /\ Len(events) < MaxEvents,
           Len(events) <= MaxEvents + 1,
           status' \in Watched => Len(events) <= MaxEvents /\ (t \in ExitEvents \/ Len(events) < MaxEvents)
    PROVE  RunInvariant'
<1> USE DEF RunInvariant
<1>0. /\ proc'[p] = Idle /\ proc'[p].pc = "idle" /\ DOMAIN proc' = Procs
      /\ \A q \in Procs : q # p => proc'[q] = proc[q]
      /\ lock' # p /\ lock' \in {lock, "free"}
  BY DoneStep
<1>a. p \in {"api", "worker"} /\ Procs = {"api", "worker"}
  BY DEF Procs
<1>b. proc'["worker"].pc = "idle" \/ (proc'["worker"] = proc["worker"] /\ p = "api")
  BY <1>0, <1>a
<1>c. proc'["api"] = proc["api"] \/ proc'["api"].pc = "idle"
  BY <1>0, <1>a
<1>d. lock' = "worker" => lock = "worker"
  BY <1>0
<1>e. /\ EvidenceInv'
      /\ PendingTriggers' = PendingTriggers \ (IF t \in ExitEvents THEN {x} ELSE {})
      /\ events' \in Seq(EventRows) /\ Len(events') = Len(events) + 1 /\ Len(events) \in Nat
  BY GrowByOne
<1>f. status' \in Statuses
  BY DEF RunTypeOK, Statuses
<1>1. RunTypeOK'
  <2>1. proc' \in [Procs -> [pc : {"idle", "create", "entry", "entryQuote", "refused", "bind", "check", "quote", "exit",
                                 "exitQuote", "stale", "project", "record"},
                           trigger : {0} \cup Triggers, remaining : 0..Quantity]]
    BY Amounts DEF RunTypeOK, Done, Idle
  <2>2. lock' \in Procs \cup {"free"}
    BY <1>0 DEF RunTypeOK
  <2>3. Len(events') <= MaxEvents + 3
    BY <1>e, Amounts
  <2> QED BY <2>1, <2>2, <2>3, <1>e, <1>f DEF RunTypeOK, EventRows
<1>2. EntryInv'
  <2>2. proc'["worker"].pc \in TickPcs /\ lock' = "worker" => status' \in {"monitoring", "blocked"}
    BY <1>b DEF TickPcs
  <2>3. status' \in Watched \cup {"completed"} => bound
    BY DEF EntryInv, Watched
  <2> QED BY <2>2, <2>3, <1>a, <1>b, <1>c, SameLedger DEF EntryInv, TickPcs
<1>3. ExitInv'
  BY <1>b, KeepsExit DEF ExitInv
<1>5. TriggerInv'
  <2>1. Remaining' = Remaining
    BY SameLedger
  <2>2. p = "api" => PendingTriggers' = PendingTriggers
    BY <1>e
  <2>3. PendingTriggers' \subseteq PendingTriggers
    BY <1>e
  <2> QED BY <1>b, <2>1, <2>2, <2>3 DEF TriggerInv, ExitPcs, Decided
<1>6. LengthInv'
  <2>1. \A k, j \in PendingTriggers : j = k
    BY DEF TriggerInv
  <2>2. t \in ExitEvents => PendingTriggers' = {}
    BY <2>1, <1>e
  <2>3. status' \in Watched => Len(events') <= MaxEvents + 1
    BY <1>e, Amounts
  <2>4. status' \in Watched /\ PendingTriggers' # {} => Len(events') <= MaxEvents
    BY <1>e, <2>2, Amounts
  <2> QED BY <2>3, <2>4 DEF LengthInv
<1>7. TickInv'
  <2>1. CASE proc'["worker"].pc = "idle"
    BY <2>1 DEF TickInv, TickPcs
  <2>2. CASE proc'["worker"] = proc["worker"] /\ p = "api"
    <3>1. Len(events') <= MaxEvents
      BY <2>2, <1>e, Amounts
    <3>2. /\ DOMAIN events' = DOMAIN events \cup {Len(events) + 1} /\ events'[Len(events) + 1].type = t
          /\ \A k \in DOMAIN events : events'[k] = events[k]
      BY AppendStep
    <3>3. NotCompleted => NotCompleted'
      BY <2>2, <3>2 DEF NotCompleted
    <3> QED BY <2>2, <3>1, <3>3, <1>d DEF TickInv
  <2> QED BY <2>1, <2>2, <1>b
<1> QED BY <1>1, <1>2, <1>3, <1>e, <1>5, <1>6, <1>7

(* A block may meet the run in any status. *)
LEMMA BlockStep ==
    ASSUME RunInvariant, NEW p \in Procs, Block(p), Len(events) <= MaxEvents,
           p = "api" => Len(events) < MaxEvents
    PROVE  RunInvariant'
<1>1. Len(events) <= MaxEvents + 1
  <2>1. Len(events) \in Nat
    BY DEF RunInvariant, RunTypeOK
  <2> QED BY <2>1, Amounts
<1>2. Done(p) /\ UNCHANGED <<bound, ledger, posLock>> /\ AppendEvent("blocked", 0, 0) /\ status' = "blocked"
  BY DEF Block
<1>3. "blocked" \in EventTypes /\ "blocked" \notin ExitEvents /\ "blocked" \notin EntryEvents
      /\ "blocked" \notin Watched /\ 0 \in {0} \cup Triggers /\ 0 \in 0..Quantity
  BY Amounts DEF EventTypes, ExitEvents, EntryEvents, Watched
<1> QED BY <1>1, <1>2, <1>3, EventStep

LEMMA CompleteStep ==
    ASSUME RunInvariant, Complete("worker"), NotCompleted, bound, Remaining = 0, Len(events) <= MaxEvents + 1
    PROVE  RunInvariant'
<1>1. "worker" \in Procs
  BY DEF Procs
<1>2. /\ Done("worker") /\ UNCHANGED <<bound, ledger, posLock>>
      /\ AppendEvent("completed", 0, 0) /\ status' = "completed"
  BY DEF Complete
<1>3. "completed" \in EventTypes /\ "completed" \notin ExitEvents /\ "completed" \notin EntryEvents
      /\ "completed" \notin Watched /\ 0 \in {0} \cup Triggers /\ 0 \in 0..Quantity
  BY Amounts DEF EventTypes, ExitEvents, EntryEvents, Watched
<1> QED BY <1>1, <1>2, <1>3, EventStep

(* The run and its first event *)
LEMMA CreateStep ==
    ASSUME RunInvariant, NEW p \in Procs, Create(p)
    PROVE  RunInvariant'
<1>0. RunTypeOK
  BY DEF RunInvariant
<1>1. CASE Fails(p)
  BY <1>1, EndStep DEF Fails
<1>2. CASE Goto(p, "entry") /\ UNCHANGED <<status, bound, events, ledger, posLock, lock, failures>>
  <2>1. /\ proc'[p].pc = "entry" /\ DOMAIN proc' = Procs /\ proc'[p] = [proc[p] EXCEPT !.pc = "entry"]
        /\ \A q \in Procs : q # p => proc'[q] = proc[q]
    BY <1>0, <1>2, GotoStep
  <2>2. RunTypeOK'
    <3>1. proc'[p] \in [pc : {"entry"}, trigger : {0} \cup Triggers, remaining : 0..Quantity]
      BY <1>0, <2>1 DEF RunTypeOK
    <3> QED BY <1>0, <1>2, <3>1 DEF RunTypeOK, Goto
  <2> QED BY <1>2, <2>1, <2>2, MoveStep DEF TickPcs, ExitPcs
<1>3. CASE /\ status = "none" /\ status' = "starting" /\ AppendEvent("started", 0, 0) /\ Goto(p, "entry")
           /\ UNCHANGED <<bound, ledger, posLock, lock, failures>>
  <2> USE <1>3 DEF RunInvariant
  <2>a. Procs = {"api", "worker"} /\ p \in {"api", "worker"}
    BY DEF Procs
  <2>1. /\ proc'[p].pc = "entry" /\ DOMAIN proc' = Procs /\ proc'[p] = [proc[p] EXCEPT !.pc = "entry"]
        /\ \A q \in Procs : q # p => proc'[q] = proc[q]
    BY <1>0, GotoStep
  <2>b. /\ proc'["worker"].pc = "entry" \/ proc'["worker"] = proc["worker"]
        /\ proc'["api"].pc = "entry" \/ proc'["api"] = proc["api"]
    BY <2>a, <2>1
  <2>2. "started" \in EventTypes /\ "started" \notin ExitEvents /\ "started" \notin EntryEvents
        /\ 0 \in {0} \cup Triggers /\ 0 \in 0..Quantity
    BY Amounts DEF EventTypes, ExitEvents, EntryEvents
  <2>3. /\ EvidenceInv' /\ PendingTriggers' = PendingTriggers
        /\ events' \in Seq(EventRows) /\ Len(events') = Len(events) + 1 /\ Len(events) \in Nat
    BY <1>0, <2>2, GrowByOne
  <2>4. Len(events') = 1
    BY <2>3 DEF LengthInv
  <2>5. RunTypeOK'
    <3>1. proc' \in [Procs -> [pc : {"idle", "create", "entry", "entryQuote", "refused", "bind", "check", "quote", "exit",
                                 "exitQuote", "stale", "project", "record"},
                           trigger : {0} \cup Triggers, remaining : 0..Quantity]]
      BY <1>0 DEF RunTypeOK, Goto
    <3>2. Len(events') <= MaxEvents + 3 /\ status' \in Statuses
      BY <2>4, Amounts DEF Statuses
    <3> QED BY <2>3, <3>1, <3>2 DEF RunTypeOK, EventRows
  <2>6. EntryInv'
    BY <2>a, <2>b, SameLedger DEF EntryInv, TickPcs, Watched
  <2>7. ExitInv'
    BY <2>b, KeepsExit DEF ExitInv
  <2>8. TriggerInv'
    <3>1. Remaining' = Remaining
      BY SameLedger
    <3> QED BY <3>1, <2>b, <2>3 DEF TriggerInv, ExitPcs, Decided
  <2>9. LengthInv'
    BY <2>3, <2>4 DEF LengthInv, Watched
  <2>10. TickInv'
    <3>1. proc["worker"].pc \notin TickPcs
      BY DEF EntryInv
    <3> QED BY <3>1, <2>b DEF TickInv, TickPcs
  <2> QED BY <2>3, <2>5, <2>6, <2>7, <2>8, <2>9, <2>10
<1> QED BY <1>1, <1>2, <1>3 DEF Create

(* A step that changes the entry's row; the position is not bound yet. *)
LEMMA EntryRowStep ==
    ASSUME RunInvariant, NEW p \in Procs, ~bound, UNCHANGED <<status, bound, events, posLock, lock>>,
           ledger' \in [{Entry} \cup Exits -> LedgerRows \cup {None}],
           \A e \in {Entry} \cup Exits : e # Entry => ledger'[e] = ledger[e],
           NEW pc \in {"bind", "entryQuote"}, Goto(p, pc),
           pc = "bind" => Decided(Entry)',
           pc = "entryQuote" => Unresolved(Entry)' /\ \A q \in Procs : proc[q].pc # "bind",
           \A q \in Procs : q # p => proc[q].pc # "entryQuote",
           \A q \in Procs : proc[q].pc = "bind" => Decided(Entry)'
    PROVE  RunInvariant'
<1> USE DEF RunInvariant
<1>a. Procs = {"api", "worker"} /\ p \in {"api", "worker"}
  BY DEF Procs
<1>1. /\ proc'[p].pc = pc /\ DOMAIN proc' = Procs /\ proc'[p] = [proc[p] EXCEPT !.pc = pc]
      /\ \A q \in Procs : q # p => proc'[q] = proc[q]
  BY GotoStep
<1>b. /\ p = "worker" \/ proc'["worker"] = proc["worker"]
      /\ p = "api" \/ proc'["api"] = proc["api"]
      /\ pc \notin TickPcs /\ pc \notin ExitPcs
  BY <1>a, <1>1 DEF TickPcs, ExitPcs
<1>2. RunTypeOK'
  <2>1. proc' \in [Procs -> [pc : {"idle", "create", "entry", "entryQuote", "refused", "bind", "check", "quote", "exit",
                                 "exitQuote", "stale", "project", "record"},
                           trigger : {0} \cup Triggers, remaining : 0..Quantity]]
    BY DEF RunTypeOK, Goto
  <2> QED BY <2>1 DEF RunTypeOK
<1>3. \A d \in Exits : /\ ledger'[d] = ledger[d] /\ ledger[d] = None
                       /\ (Unresolved(d)' <=> Unresolved(d)) /\ (Decided(d)' <=> Decided(d))
                       /\ Filled(d)' = Filled(d) /\ ~Unresolved(d)
  <2>1. \A d \in Exits : ledger'[d] = ledger[d] /\ ledger[d] = None
    BY Amounts DEF ExitInv
  <2> QED BY <2>1 DEF Unresolved, Decided, Filled
<1>4. Remaining = 0 /\ Remaining' = 0
  BY DEF Remaining
<1>5. proc["worker"].pc \notin TickPcs /\ proc["worker"].pc \notin ExitPcs /\ proc["worker"].pc # "quote"
  BY DEF EntryInv, ExitPcs, TickPcs
<1>6. EntryInv'
  <2>1. proc'["worker"].pc \notin TickPcs /\ proc'["api"].pc \notin TickPcs
    BY <1>1, <1>b, <1>5 DEF EntryInv
  <2>2. \A q \in Procs : proc'[q].pc = "entryQuote" => Unresolved(Entry)' /\ q = p
    BY <1>1, <1>a
  <2>3. \A q \in Procs : proc'[q].pc = "bind" => Decided(Entry)'
    BY <1>1, <1>a
  <2> QED BY <2>1, <2>2, <2>3, <1>a DEF EntryInv
<1>7. ExitInv'
  <2>1. proc'["worker"].pc # "exitQuote" /\ posLock # "manual"
    <3>1. ~Unresolved(Manual)
      BY <1>3, Amounts
    <3> QED BY <3>1, <1>1, <1>b, <1>5 DEF TickPcs, ExitInv
  <2> QED BY <2>1, <1>3, <1>4, Amounts DEF ExitInv
<1>8. EvidenceInv'
  <2>1. \A d \in Triggers : (Unresolved(d)' <=> Unresolved(d)) /\ Filled(d)' = Filled(d)
    BY <1>3, Amounts
  <2>2. \A k \in DOMAIN events : events[k].type \in ExitEvents => events[k].exit \in Triggers
    BY DEF EvidenceInv
  <2>3. OutcomesAreUnique'
    BY DEF EvidenceInv, OutcomesAreUnique, SameOutcome
  <2>4. EvidenceMatchesLedger'
    <3>1. \A k \in DOMAIN events : events[k].type \in ExitEvents =>
              (events[k].type = "exit_no_fill" <=> Filled(events[k].exit)' = 0)
      BY <2>1, <2>2 DEF EvidenceInv, EvidenceMatchesLedger
    <3> QED BY <3>1 DEF EvidenceMatchesLedger, Filled, Decided
  <2>5. \A k \in DOMAIN events : events[k].type \in ExitEvents =>
            events[k].exit \in Triggers /\ events[k].exit < k /\ ~(Unresolved(events[k].exit)')
    BY <2>1 DEF EvidenceInv
  <2> QED BY <2>3, <2>4, <2>5 DEF EvidenceInv, IsTrigger, Unresolved
<1>9. TriggerInv' /\ LengthInv'
  <2>1. PendingTriggers' = PendingTriggers
    BY SameEvents
  <2>2. proc'["worker"].pc \notin ExitPcs /\ proc'["worker"].pc # "quote"
    BY <1>1, <1>b, <1>5
  <2> QED BY <2>1, <2>2, KeepsLength DEF TriggerInv, ExitPcs
<1>10. TickInv'
  BY <1>1, <1>b, <1>5 DEF TickInv
<1> QED BY <1>2, <1>6, <1>7, <1>8, <1>9, <1>10

LEMMA RecordEntryStep ==
    ASSUME RunInvariant, NEW p \in Procs, RecordEntry(p)
    PROVE  RunInvariant'
<1>0. RunTypeOK /\ EntryInv
  BY DEF RunInvariant
<1>1. CASE Fails(p)
  BY <1>1, EndStep DEF Fails
<1>2. ASSUME NEW pc \in {"refused", "bind"}, Goto(p, pc), pc = "bind" => Decided(Entry),
             UNCHANGED <<status, bound, events, ledger, posLock, lock, failures>>
      PROVE  RunInvariant'
  <2>1. /\ proc'[p].pc = pc /\ DOMAIN proc' = Procs /\ proc'[p] = [proc[p] EXCEPT !.pc = pc]
        /\ \A q \in Procs : q # p => proc'[q] = proc[q]
    BY <1>0, <1>2, GotoStep
  <2>2. RunTypeOK'
    <3>1. proc'[p] \in [pc : {"refused", "bind"}, trigger : {0} \cup Triggers, remaining : 0..Quantity]
      BY <1>0, <1>2, <2>1 DEF RunTypeOK
    <3> QED BY <1>0, <1>2, <3>1 DEF RunTypeOK, Goto
  <2>3. pc \notin TickPcs /\ pc \notin ExitPcs
        /\ pc \notin {"entryQuote", "exitQuote", "quote", "stale", "project", "record"}
    BY <1>2 DEF TickPcs, ExitPcs
  <2> QED BY <1>2, <2>1, <2>2, <2>3, MoveStep
<1>3. CASE /\ ledger[Entry] # None
           /\ IF Unresolved(Entry) THEN Resolve(Entry, 0) ELSE UNCHANGED ledger
           /\ Goto(p, "bind")
           /\ UNCHANGED <<status, bound, events, posLock, lock, failures>>
  <2>1. CASE ~Unresolved(Entry)
    <3>1. Decided(Entry) /\ UNCHANGED ledger
      BY <1>0, <1>3, <2>1, RowTypes
    <3> QED BY <1>2, <1>3, <3>1
  <2>2. CASE Unresolved(Entry)
    <3>1. ~bound /\ \A q \in Procs : proc[q].pc # "entryQuote"
      BY <1>0, <2>2 DEF EntryInv, RecordEntry, Unresolved, Decided
    <3>2. /\ ledger' \in [{Entry} \cup Exits -> LedgerRows \cup {None}]
          /\ \A e \in {Entry} \cup Exits : e # Entry => ledger'[e] = ledger[e]
          /\ Decided(Entry)'
      BY <1>0, <1>3, <2>2, ResolveStep, Amounts
    <3> QED BY <1>3, <3>1, <3>2, EntryRowStep
  <2> QED BY <2>1, <2>2
<1>4. CASE /\ ledger[Entry] = None
           /\ ledger' = [ledger EXCEPT ![Entry] = [qty |-> Quantity, filled |-> Open]]
           /\ Goto(p, "entryQuote")
           /\ UNCHANGED <<status, bound, events, posLock, lock, failures>>
  <2>1. ~bound /\ \A q \in Procs : proc[q].pc # "entryQuote"
    BY <1>0, <1>4 DEF EntryInv, RecordEntry, Decided
  <2>2. \A q \in Procs : proc[q].pc # "bind"
    BY <1>0, <1>4 DEF EntryInv, Decided
  <2>3. Quantity \in 0..Quantity
    BY Amounts
  <2>4. /\ ledger' \in [{Entry} \cup Exits -> LedgerRows \cup {None}]
        /\ \A e \in {Entry} \cup Exits : e # Entry => ledger'[e] = ledger[e]
        /\ Unresolved(Entry)'
    BY <1>0, <1>4, <2>3, IntentStep
  <2> QED BY <1>4, <2>1, <2>2, <2>4, EntryRowStep
<1>5. CASE Goto(p, "refused") /\ UNCHANGED <<status, bound, events, ledger, posLock, lock, failures>>
  BY <1>2, <1>5
<1> QED BY <1>1, <1>3, <1>4, <1>5 DEF RecordEntry

LEMMA BlockEntryStep ==
    ASSUME RunInvariant, NEW p \in Procs, BlockEntry(p)
    PROVE  RunInvariant'
<1>1. CASE Fails(p)
  BY <1>1, EndStep DEF Fails
<1>2. CASE Len(events) < MaxEvents /\ Block(p)
  <2>1. Len(events) <= MaxEvents
    BY <1>2, Amounts DEF RunInvariant, RunTypeOK
  <2> QED BY <1>2, <2>1, BlockStep
<1> QED BY <1>1, <1>2 DEF BlockEntry

LEMMA DecideEntryStep ==
    ASSUME RunInvariant, NEW p \in Procs, DecideEntry(p)
    PROVE  RunInvariant'
<1>0. RunTypeOK /\ EntryInv /\ Procs = {"api", "worker"}
  BY DEF RunInvariant, Procs
<1>1. Unresolved(Entry) /\ proc[p].pc = "entryQuote"
  BY <1>0 DEF EntryInv, DecideEntry
<1>2. ~Decided(Entry) /\ ~bound
  BY <1>0, <1>1, RowTypes DEF EntryInv
<1>3. \A q \in Procs : (q # p => proc[q].pc # "entryQuote") /\ proc[q].pc # "bind"
  BY <1>0, <1>1, <1>2 DEF EntryInv
<1>4. PICK n \in 0..Quantity : Resolve(Entry, n)
  BY DEF DecideEntry
<1>5. /\ ledger' \in [{Entry} \cup Exits -> LedgerRows \cup {None}]
      /\ \A e \in {Entry} \cup Exits : e # Entry => ledger'[e] = ledger[e]
      /\ Decided(Entry)'
  BY <1>0, <1>1, <1>4, ResolveStep
<1> QED BY <1>2, <1>3, <1>5, EntryRowStep DEF DecideEntry

(* The entry is told, and the position bound if there is one. *)
LEMMA BindEntryStep ==
    ASSUME RunInvariant, NEW p \in Procs, BindEntry(p)
    PROVE  RunInvariant'
<1> USE DEF RunInvariant
<1>1. CASE status # "starting"
  <2>1. Fails(p)
    BY <1>1 DEF BindEntry
  <2> QED BY <2>1, EndStep DEF Fails
<1>2. CASE status = "starting"
  <2> DEFINE n == Filled(Entry)
             t == IF n > 0 THEN "entry_filled" ELSE "entry_unfilled"
  <2>0. /\ bound' = (n > 0) /\ status' = (IF n > 0 THEN "monitoring" ELSE "entry_unfilled")
        /\ AppendEvent(t, 0, n) /\ Done(p) /\ UNCHANGED <<ledger, posLock, failures>>
    BY <1>2 DEF BindEntry
  <2>1. n \in 0..Quantity /\ Decided(Entry) /\ ~bound
    BY <1>2, RowTypes DEF BindEntry, EntryInv
  <2>2. t \in EventTypes /\ t \notin ExitEvents /\ t \in EntryEvents /\ t # "completed" /\ t # "triggered"
    BY DEF EventTypes, ExitEvents, EntryEvents
  <2>3. /\ EvidenceInv' /\ PendingTriggers' = PendingTriggers
        /\ events' \in Seq(EventRows) /\ Len(events') = Len(events) + 1 /\ Len(events) \in Nat
    <3> HIDE DEF n, t
    <3>1. status' \notin {"none", "starting"}
      BY <2>0
    <3> QED BY <1>2, <2>0, <2>1, <2>2, <3>1, GrowByOne
  <2>4. Len(events') = 2
    <3>1. Len(events) = 1
      BY <1>2 DEF LengthInv
    <3> QED BY <2>3, <3>1
  <2>5. /\ proc'[p] = Idle /\ proc'[p].pc = "idle" /\ DOMAIN proc' = Procs
        /\ \A q \in Procs : q # p => proc'[q] = proc[q]
        /\ lock' # p /\ lock' \in {lock, "free"}
    BY <2>0, DoneStep
  <2>a. p \in {"api", "worker"} /\ Procs = {"api", "worker"}
    BY DEF Procs
  <2>b. /\ proc'["worker"] = proc["worker"] \/ proc'["worker"].pc = "idle"
        /\ proc'["api"] = proc["api"] \/ proc'["api"].pc = "idle"
    BY <2>5, <2>a
  <2>6. proc["worker"].pc \notin TickPcs
    BY <2>1 DEF EntryInv
  <2>7. proc'["worker"].pc \notin TickPcs
    BY <2>b, <2>6 DEF TickPcs
  <2>8. RunTypeOK'
    <3>1. proc' \in [Procs -> [pc : {"idle", "create", "entry", "entryQuote", "refused", "bind", "check", "quote", "exit",
                                 "exitQuote", "stale", "project", "record"},
                           trigger : {0} \cup Triggers, remaining : 0..Quantity]]
      BY <2>0, Amounts DEF RunTypeOK, Done, Idle
    <3>2. lock' \in Procs \cup {"free"}
      BY <2>5 DEF RunTypeOK
    <3>3. Len(events') <= MaxEvents + 3 /\ status' \in Statuses /\ bound' \in BOOLEAN
      BY <2>0, <2>4, Amounts DEF Statuses
    <3> QED BY <2>0, <2>3, <3>1, <3>2, <3>3 DEF RunTypeOK, EventRows
  <2>c. \A d : (Decided(d)' <=> Decided(d)) /\ (Unresolved(d)' <=> Unresolved(d)) /\ Filled(d)' = Filled(d)
    BY <2>0 DEF Decided, Unresolved, Filled
  <2>9. EntryInv'
    <3>1. status' \notin {"none", "starting"} /\ (status' \in Watched \cup {"completed"} => bound')
      BY <2>0, <2>1 DEF Watched
    <3> QED BY <3>1, <2>1, <2>a, <2>b, <2>c, <2>7 DEF EntryInv, TickPcs
  <2>10. ExitInv'
    <3>1. \A d \in Exits : ledger[d] = None /\ ~Unresolved(d) /\ Filled(d) = 0
      BY <2>1 DEF ExitInv, Unresolved, Filled, Decided
    <3>2. Remaining' \in 0..Quantity
      <4>1. CASE ~bound'
        BY <4>1, Amounts DEF Remaining
      <4>2. CASE bound'
        <5>1. PICK f : f = [d \in Exits |-> Filled(d)']
          OBVIOUS
        <5>2. DOMAIN f = Exits /\ \A d \in Exits : f[d] = 0
          BY <5>1, <3>1, <2>c
        <5>3. SumFunction(f) = 0
          BY <5>2, ExitsFinite, SumZero
        <5>4. Remaining' = Filled(Entry)' - SumFunction(f)
          BY <4>2, <5>1 DEF Remaining
        <5> QED BY <5>3, <5>4, <2>c, <2>1, Amounts
      <4> QED BY <4>1, <4>2
    <3>3. posLock' # "manual"
      BY <2>0, <3>1, Amounts DEF ExitInv
    <3>4. proc'["worker"].pc # "exitQuote"
      BY <2>7 DEF TickPcs
    <3>5. status' # "completed"
      BY <2>0
    <3>6. \A d \in Exits : ledger'[d] = None /\ ~(Unresolved(d)')
      BY <2>0, <2>c, <3>1
    <3> QED BY <3>2, <3>3, <3>4, <3>5, <3>6 DEF ExitInv
  <2>11. TriggerInv'
    BY <2>3, <2>7 DEF TriggerInv, TickPcs, ExitPcs
  <2>12. LengthInv'
    <3>1. PendingTriggers' = {}
      BY <1>2, <2>3 DEF LengthInv
    <3>2. Len(events') <= MaxEvents + 1 /\ status' \notin {"none", "starting"}
      BY <2>0, <2>4, Amounts
    <3> QED BY <3>1, <3>2 DEF LengthInv
  <2>13. TickInv'
    BY <2>7 DEF TickInv
  <2> QED BY <2>3, <2>8, <2>9, <2>10, <2>11, <2>12, <2>13
<1> QED BY <1>1, <1>2

-----------------------------------------------------------------------------
(* tick_run: pending work first, then the position as it is. *)
LEMMA MinOfOne ==
    ASSUME NEW k \in Int
    PROVE  Min({k}) = k
BY DEF Min

LEMMA PendingAre ==
    ASSUME RunInvariant, NEW k \in PendingTriggers
    PROVE  k \in DOMAIN events /\ k \in Triggers /\ events[k].exit = k /\ k \in Int
           /\ events[k].remaining \in 0..Quantity /\ PendingTriggers = {k} /\ events[k].type = "triggered"
<1>1. k \in DOMAIN events /\ events[k].type = "triggered" /\ events[k].exit = k /\ k <= MaxEvents
  BY DEF PendingTriggers, IsTrigger, RunInvariant, EvidenceInv
<1>2. DOMAIN events = 1..Len(events) /\ events[k].remaining \in 0..Quantity /\ Len(events) \in Nat
  <2>1. events \in Seq(EventRows)
    BY DEF RunInvariant, RunTypeOK, EventRows
  <2>2. events[k] \in EventRows /\ DOMAIN events = 1..Len(events) /\ Len(events) \in Nat
    BY <1>1, <2>1
  <2> QED BY <2>2 DEF EventRows
<1>3. PendingTriggers = {k}
  BY DEF RunInvariant, TriggerInv
<1>4. k \in Triggers /\ k \in Int
  BY <1>1, <1>2, Amounts DEF Triggers
<1> QED BY <1>1, <1>2, <1>3, <1>4

LEMMA CheckStep ==
    ASSUME RunInvariant, NEW p \in Procs, Check(p)
    PROVE  RunInvariant'
<1>0. RunTypeOK /\ p = "worker" /\ bound /\ lock = p /\ Remaining \in 0..Quantity
  BY TickIsWorker DEF RunInvariant, Check, TickPcs, ExitInv
<1>1. CASE Fails(p)
  BY <1>1, EndStep DEF Fails
<1>a. status = "monitoring" =>
         /\ NotCompleted /\ Len(events) <= MaxEvents + 1
         /\ PendingTriggers # {} => Len(events) <= MaxEvents
  BY MonitoredIsOpen DEF RunInvariant, LengthInv, Watched
<1>2. CASE status = "monitoring" /\ Remaining = 0 /\ Complete(p)
  BY <1>0, <1>a, <1>2, CompleteStep
<1>3. CASE /\ status = "monitoring" /\ PendingTriggers # {}
           /\ proc' = [proc EXCEPT ![p] = [pc |-> "exit", trigger |-> Min(PendingTriggers), remaining |-> 0]]
           /\ UNCHANGED <<status, bound, events, ledger, posLock, lock, failures>>
  <2>1. PICK k \in PendingTriggers : TRUE
    BY <1>3
  <2>2. PendingTriggers = {k} /\ k \in Triggers /\ Min(PendingTriggers) = k
    BY PendingAre, MinOfOne
  <2>3. [pc |-> "exit", trigger |-> k, remaining |-> 0] \in
          [pc : {"exit"}, trigger : {0} \cup Triggers, remaining : 0..Quantity]
    BY <2>2, Amounts
  <2>4. /\ DOMAIN proc' = Procs /\ \A q \in Procs : q # p => proc'[q] = proc[q]
        /\ proc'[p].pc = "exit" /\ proc'[p].trigger = k
    BY <1>0, <1>3, <2>2 DEF RunTypeOK
  <2>5. RunTypeOK'
    BY <1>0, <1>3, <2>2, <2>3 DEF RunTypeOK
  <2> QED BY <1>0, <1>a, <1>3, <2>2, <2>4, <2>5, MoveStep DEF TickPcs, ExitPcs
<1>4. CASE /\ status = "monitoring" /\ PendingTriggers = {}
           /\ proc' = [proc EXCEPT ![p] = [pc |-> "quote", trigger |-> 0, remaining |-> Remaining]]
           /\ UNCHANGED <<status, bound, events, ledger, posLock, lock, failures>>
  <2>3. [pc |-> "quote", trigger |-> 0, remaining |-> Remaining] \in
          [pc : {"quote"}, trigger : {0} \cup Triggers, remaining : 0..Quantity]
    BY <1>0
  <2>4. /\ DOMAIN proc' = Procs /\ \A q \in Procs : q # p => proc'[q] = proc[q]
        /\ proc'[p].pc = "quote"
    BY <1>0, <1>4 DEF RunTypeOK
  <2>5. RunTypeOK'
    BY <1>0, <1>4, <2>3 DEF RunTypeOK
  <2> QED BY <1>0, <1>a, <1>4, <2>4, <2>5, MoveStep DEF TickPcs, ExitPcs
<1> QED BY <1>1, <1>2, <1>3, <1>4 DEF Check

LEMMA ObserveStep ==
    ASSUME RunInvariant, NEW p \in Procs, Observe(p)
    PROVE  RunInvariant'
<1>0. RunTypeOK /\ p = "worker" /\ bound /\ proc[p].remaining \in 0..Quantity
      /\ lock = p /\ PendingTriggers = {} /\ Len(events) \in Nat
  BY TickIsWorker, ProcTypes DEF RunInvariant, Observe, TickPcs, TriggerInv, RunTypeOK
<1>1. CASE Fails(p)
  BY <1>1, EndStep DEF Fails
<1>2. CASE Len(events) < MaxEvents /\ Block(p)
  <2>1. Len(events) <= MaxEvents
    BY <1>0, <1>2, Amounts
  <2> QED BY <1>0, <1>2, <2>1, BlockStep
<1>3. CASE /\ status = "monitoring" /\ Len(events) < MaxEvents /\ AppendEvent("observed", 0, proc[p].remaining) /\ Done(p)
           /\ UNCHANGED <<status, bound, ledger, posLock, failures>>
  <2>1. "observed" \in EventTypes /\ "observed" \notin ExitEvents /\ "observed" \notin EntryEvents
        /\ 0 \in {0} \cup Triggers
    BY DEF EventTypes, ExitEvents, EntryEvents
  <2>2. Len(events) <= MaxEvents + 1 /\ Len(events) <= MaxEvents
    BY <1>0, <1>3, Amounts
  <2> QED BY <1>0, <1>3, <2>1, <2>2, EventStep
<1>4. CASE /\ status = "monitoring" /\ Len(events) < MaxEvents /\ AppendEvent("triggered", Len(events) + 1, proc[p].remaining)
           /\ proc' = [proc EXCEPT ![p].pc = "exit", ![p].trigger = Len(events) + 1]
           /\ UNCHANGED <<status, bound, ledger, posLock, lock, failures>>
  <2> USE DEF RunInvariant
  <2> DEFINE k == Len(events) + 1
  <2>0. k \in Triggers /\ k <= MaxEvents
    BY <1>0, <1>4, Amounts DEF Triggers
  <2>1. "triggered" \in EventTypes /\ "triggered" \notin ExitEvents /\ "triggered" \notin EntryEvents
    BY DEF EventTypes, ExitEvents, EntryEvents
  <2>2. /\ EvidenceInv' /\ PendingTriggers' = PendingTriggers \cup {k}
        /\ events' \in Seq(EventRows) /\ Len(events') = k
    BY <1>0, <1>4, <2>0, <2>1, GrowByOne
  <2>3. /\ DOMAIN proc' = Procs /\ proc'["api"] = proc["api"]
        /\ proc'["worker"].pc = "exit" /\ proc'["worker"].trigger = k
        /\ proc' \in [Procs -> [pc : {"idle", "create", "entry", "entryQuote", "refused", "bind", "check", "quote", "exit",
                                 "exitQuote", "stale", "project", "record"},
                           trigger : {0} \cup Triggers, remaining : 0..Quantity]]
    <3>0. k \in {0} \cup Triggers
      BY <2>0
    <3>1. proc' = [proc EXCEPT !["worker"] = [proc["worker"] EXCEPT !.pc = "exit", !.trigger = k]]
      BY <1>0, <1>4 DEF RunTypeOK, Procs
    <3> HIDE DEF k
    <3>2. [proc["worker"] EXCEPT !.pc = "exit", !.trigger = k] \in
             [pc : {"exit"}, trigger : {0} \cup Triggers, remaining : 0..Quantity]
      BY <1>0, <3>0 DEF RunTypeOK, Procs
    <3> QED BY <1>0, <3>1, <3>2 DEF RunTypeOK, Procs
  <2>4. RunTypeOK'
    <3>1. Len(events') <= MaxEvents + 3
      BY <2>0, <2>2, Amounts
    <3> QED BY <1>4, <2>2, <2>3, <3>1 DEF RunTypeOK, EventRows
  <2>5. EntryInv'
    BY <1>0, <1>4, <2>3, SameLedger DEF EntryInv, Procs, TickPcs
  <2>6. ExitInv'
    BY <1>4, <2>3, KeepsExit DEF ExitInv
  <2>7. TriggerInv'
    BY <1>0, <2>2, <2>3 DEF TriggerInv, ExitPcs
  <2>8. LengthInv'
    BY <1>0, <1>4, <2>0, <2>2, Amounts DEF LengthInv, Watched
  <2>9. TickInv'
    <3>1. NotCompleted'
      BY <1>4, <2>2 DEF EvidenceInv, NotCompleted
    <3> QED BY <2>0, <2>2, <3>1 DEF TickInv
  <2> QED BY <2>2, <2>4, <2>5, <2>6, <2>7, <2>8, <2>9
<1> QED BY <1>1, <1>2, <1>3, <1>4 DEF Observe

LEMMA ProjectStep ==
    ASSUME RunInvariant, NEW p \in Procs, Project(p)
    PROVE  RunInvariant'
<1>0. /\ RunTypeOK /\ p = "worker" /\ bound /\ status \in {"monitoring", "blocked"} /\ lock = p
      /\ PendingTriggers = {proc[p].trigger} /\ Decided(proc[p].trigger) /\ Remaining \in 0..Quantity
      /\ NotCompleted /\ Len(events) <= MaxEvents
  BY TickIsWorker DEF RunInvariant, Project, TickPcs, ExitPcs, TriggerInv, ExitInv, TickInv
<1>1. proc' = [proc EXCEPT ![p] = [proc[p] EXCEPT !.pc = "record", !.remaining = Remaining]]
  BY <1>0 DEF RunTypeOK, Project
<1>2. PICK r : r = [proc[p] EXCEPT !.pc = "record", !.remaining = Remaining]
  OBVIOUS
<1>3. /\ r \in [pc : {"record"}, trigger : {0} \cup Triggers, remaining : 0..Quantity]
      /\ r.trigger = proc[p].trigger /\ r.remaining = Remaining /\ r.pc = "record"
  BY <1>0, <1>2 DEF RunTypeOK
<1>4. DOMAIN proc' = Procs /\ proc'[p] = r /\ \A q \in Procs : q # p => proc'[q] = proc[q]
  BY <1>0, <1>1, <1>2 DEF RunTypeOK
<1>5. RunTypeOK'
  BY <1>0, <1>1, <1>2, <1>3 DEF RunTypeOK, Project
<1> QED BY <1>0, <1>3, <1>4, <1>5, MoveStep DEF Project, TickPcs, ExitPcs

(* The position was sold by somebody else: the trigger is told as no fill. *)
LEMMA ReconcileStep ==
    ASSUME RunInvariant, NEW p \in Procs, Reconcile(p)
    PROVE  RunInvariant'
<1>0. /\ RunTypeOK /\ p = "worker" /\ bound /\ status \in {"monitoring", "blocked"} /\ lock = p
      /\ PendingTriggers = {proc[p].trigger} /\ ledger[proc[p].trigger] = None /\ Remaining \in 0..Quantity
      /\ NotCompleted /\ Len(events) <= MaxEvents
  BY TickIsWorker DEF RunInvariant, Reconcile, TickPcs, ExitPcs, TriggerInv, ExitInv, TickInv
<1>a. Len(events) <= MaxEvents + 1
  BY <1>0, Amounts DEF RunTypeOK
<1>1. CASE Remaining = 0 /\ Complete(p)
  BY <1>0, <1>a, <1>1, CompleteStep
<1>2. CASE /\ AppendEvent("exit_no_fill", proc[p].trigger, Remaining) /\ Done(p)
           /\ UNCHANGED <<status, bound, ledger, posLock, failures>>
  <2> DEFINE x == proc[p].trigger
  <2>1. x \in Triggers /\ x \in PendingTriggers /\ x \in Exits
    BY <1>0, PendingAre, Amounts
  <2>2. ~Unresolved(x) /\ Filled(x) = 0
    BY <1>0 DEF Unresolved, Filled, Decided
  <2>3. "exit_no_fill" \in EventTypes /\ "exit_no_fill" \in ExitEvents /\ "exit_no_fill" \notin EntryEvents
    BY DEF EventTypes, ExitEvents, EntryEvents
  <2> HIDE DEF x
  <2>5. x \in {0} \cup Triggers /\ AppendEvent("exit_no_fill", x, Remaining)
    BY <1>2, <2>1 DEF x
  <2> QED BY <1>0, <1>a, <1>2, <2>1, <2>2, <2>3, <2>5, EventStep
<1> QED BY <1>1, <1>2 DEF Reconcile

-----------------------------------------------------------------------------
(* The exits.  A step that changes one row of the position *)
LEMMA ExitRowStep ==
    ASSUME RunInvariant, bound, UNCHANGED <<status, bound, events, lock>>, RunTypeOK', NEW d \in Exits,
           ~Decided(d),
           \A e \in {Entry} \cup Exits : e # d => ledger'[e] = ledger[e],
           d # Manual => PendingTriggers = {d},
           Filled(d)' = 0 \/ (Unresolved(d) /\ Filled(d)' <= ledger[d].qty),
           Unresolved(d)' => /\ \A e \in Exits : ~Unresolved(e)
                             /\ ledger'[d].qty <= Remaining /\ Filled(d)' = 0,
           proc'["api"] = proc["api"],
           \/ d = Manual /\ proc'["worker"] = proc["worker"]
              /\ (proc["worker"].pc = "exitQuote" => posLock' = posLock)
           \/ /\ d # Manual /\ proc'["worker"].trigger = d /\ proc["worker"].trigger = d
              /\ proc["worker"].pc \in ExitPcs
              /\ \/ proc'["worker"].pc = "project" /\ Decided(d)'
                 \/ proc'["worker"].pc = "exitQuote" /\ posLock' = "worker" /\ Unresolved(d)',
           posLock' = "manual" => Unresolved(Manual)'
    PROVE  RunInvariant'
<1> USE DEF RunInvariant
<1>a. Procs = {"api", "worker"} /\ d \in {Entry} \cup Exits
  BY DEF Procs
<1>1. \A e \in {Entry} \cup Exits : e # d => /\ (Unresolved(e)' <=> Unresolved(e)) /\ (Decided(e)' <=> Decided(e))
                                             /\ Filled(e)' = Filled(e)
  BY DEF Unresolved, Decided, Filled
<1>2. d # Entry /\ Entry \in {Entry} \cup Exits /\ Filled(d) = 0
  BY Amounts DEF Filled
<1>3. Remaining' = Remaining - Filled(d)' /\ Remaining \in 0..Quantity /\ Filled(d)' \in 0..Quantity
  <2>1. Filled(Entry)' = Filled(Entry) /\ \A e \in Exits : e # d => Filled(e)' = Filled(e)
    BY <1>1, <1>2
  <2>2. Remaining' = Remaining + Filled(d) - Filled(d)'
    BY <2>1, RemainingChanges
  <2>3. Remaining \in 0..Quantity
    BY DEF ExitInv
  <2>4. \A e \in Exits : Filled(e)' \in 0..Quantity
    BY FilledTypesNext
  <2> QED BY <2>2, <2>3, <2>4, <1>2, Amounts
<1>4. Filled(d)' <= Remaining
  <2>1. CASE Filled(d)' = 0
    BY <2>1, <1>3, Amounts
  <2>2. CASE Unresolved(d) /\ Filled(d)' <= ledger[d].qty
    <3>1. ledger[d].qty <= Remaining /\ ledger[d].qty \in 0..Quantity
      BY <1>a, <2>2, RowTypes DEF ExitInv, Unresolved
    <3> QED BY <2>2, <3>1, <1>3, Amounts
  <2> QED BY <2>1, <2>2
<1>5. Remaining' \in 0..Quantity /\ (Remaining = 0 => Remaining' = 0)
  BY <1>3, <1>4, Amounts
<1>6. EntryInv'
  <2>1. (Decided(Entry)' <=> Decided(Entry)) /\ (Unresolved(Entry)' <=> Unresolved(Entry))
    BY <1>1, <1>2
  <2>2. CASE d = Manual /\ proc'["worker"] = proc["worker"]
    BY <2>1, <2>2, <1>a DEF EntryInv
  <2>3. CASE proc["worker"].pc \in ExitPcs /\ proc'["worker"].pc \in {"project", "exitQuote"}
    BY <2>1, <2>3, <1>a DEF EntryInv, ExitPcs, TickPcs
  <2> QED BY <2>2, <2>3
<1>7. ExitInv'
  <2>1. ASSUME NEW e \in Exits, Unresolved(e)' PROVE e = d \/ (Unresolved(e) /\ ~(Unresolved(d)'))
    BY <1>1, <2>1
  <2>2. \A e, f \in Exits : Unresolved(e)' /\ Unresolved(f)' => e = f
    BY <2>1 DEF ExitInv
  <2>3. ASSUME NEW e \in Exits, Unresolved(e)' PROVE ledger'[e].qty <= Remaining'
    <3>1. CASE e = d
      <4>1. Remaining' = Remaining
        BY <2>3, <3>1, <1>3, Amounts
      <4> QED BY <2>3, <3>1, <4>1
    <3>2. CASE e # d
      <4>1. Unresolved(e) /\ ledger'[e] = ledger[e] /\ ledger[e].qty <= Remaining
        BY <2>1, <2>3, <3>2 DEF ExitInv
      <4>2. ~Unresolved(d)
        BY <3>2, <4>1 DEF ExitInv
      <4>3. Remaining' = Remaining
        BY <4>2, <1>3, Amounts
      <4> QED BY <4>1, <4>3
    <3> QED BY <3>1, <3>2
  <2>4. ASSUME NEW w, w = proc'["worker"].trigger, proc'["worker"].pc = "exitQuote"
        PROVE  posLock' = "worker" /\ Unresolved(w)'
    <3>1. CASE d # Manual
      BY <3>1, <2>4
    <3>2. CASE d = Manual
      <4>0. proc["worker"].pc = "exitQuote" /\ w = proc["worker"].trigger
        BY <3>2, <2>4
      <4>1. posLock = "worker" /\ Unresolved(w)
        BY <4>0 DEF ExitInv
      <4>2. w \in Triggers
        BY <4>0, PendingAre DEF TriggerInv, ExitPcs
      <4>3. w # d /\ w \in Exits
        BY <4>2, <3>2, Amounts
      <4> QED BY <3>2, <4>0, <4>1, <4>3, <1>1
    <3> QED BY <3>1, <3>2
  <2>5. (\A e \in Exits : Unresolved(e) => ledger[e].qty <= Remaining)'
    BY <2>3
  <2>6. (proc["worker"].pc = "exitQuote" => posLock = "worker" /\ Unresolved(proc["worker"].trigger))'
    BY <2>4 DEF Unresolved
  <2> QED BY <2>2, <2>5, <2>6, <1>5 DEF ExitInv
<1>8. EvidenceInv'
  <2>1. ASSUME NEW k \in DOMAIN events, events[k].type \in ExitEvents
        PROVE  events[k].exit # d /\ events[k].exit \in {Entry} \cup Exits
    <3>1. events[k].exit \in Triggers
      BY <2>1 DEF EvidenceInv
    <3>2. CASE d = Manual
      BY <3>1, <3>2, Amounts
    <3>3. CASE d # Manual
      <4>1. d \in PendingTriggers
        BY <3>3
      <4>2. events[d].exit = d /\ ~Ended(d)
        BY <4>1, PendingAre DEF PendingTriggers
      <4> QED BY <2>1, <3>1, <4>2, Amounts DEF Ended
    <3> QED BY <3>2, <3>3
  <2>2. OutcomesAreUnique'
    BY DEF EvidenceInv, OutcomesAreUnique, SameOutcome
  <2>3. EvidenceMatchesLedger'
    <3>1. \A k \in DOMAIN events : events[k].type \in ExitEvents =>
              (events[k].type = "exit_no_fill" <=> Filled(events[k].exit)' = 0)
      BY <2>1, <1>1 DEF EvidenceInv, EvidenceMatchesLedger
    <3> QED BY <3>1 DEF EvidenceMatchesLedger, Filled, Decided
  <2>4. \A k \in DOMAIN events : events[k].type \in ExitEvents =>
            events[k].exit \in Triggers /\ events[k].exit < k /\ ~(Unresolved(events[k].exit)')
    BY <2>1, <1>1 DEF EvidenceInv
  <2> QED BY <2>2, <2>3, <2>4 DEF EvidenceInv, IsTrigger, Unresolved
<1>9. TriggerInv'
  <2>1. PendingTriggers' = PendingTriggers
    BY SameEvents
  <2>2. PICK w : w = proc'["worker"].trigger
    OBVIOUS
  <2>3. CASE d # Manual
    <3>1. w = d /\ proc'["worker"].pc \in {"project", "exitQuote"} /\ proc["worker"].pc \in ExitPcs
      BY <2>2, <2>3
    <3>2. proc'["worker"].pc = "project" => Decided(w)'
      BY <2>3, <3>1
    <3> QED BY <2>1, <2>2, <2>3, <3>1, <3>2 DEF TriggerInv, ExitPcs, Decided
  <2>4. CASE d = Manual
    <3>1. proc'["worker"] = proc["worker"]
      BY <2>4
    <3>2. ASSUME proc["worker"].pc \in ExitPcs
          PROVE  ledger'[w] = ledger[w] /\ (Decided(w)' <=> Decided(w))
      <4>1. w \in Triggers
        BY <2>2, <3>1, <3>2, PendingAre DEF TriggerInv
      <4>2. w # d /\ w \in {Entry} \cup Exits
        BY <2>4, <4>1, Amounts
      <4> QED BY <4>2, <1>1
    <3>3. "stale" \in ExitPcs /\ "project" \in ExitPcs /\ "record" \in ExitPcs
      BY DEF ExitPcs
    <3>4. (proc["worker"].pc \in {"project", "record"} => Decided(proc["worker"].trigger))'
      BY <2>2, <3>1, <3>2, <3>3 DEF TriggerInv, Decided
    <3> QED BY <2>1, <2>2, <3>1, <3>2, <3>3, <3>4, <1>5 DEF TriggerInv
  <2> QED BY <2>3, <2>4
<1>10. LengthInv'
  BY KeepsLength
<1>11. TickInv'
  BY KeepsTick DEF ExitPcs
<1> QED BY <1>6, <1>7, <1>8, <1>9, <1>10, <1>11

(* The row of the trigger the worker is at: an intent, or its decision *)
LEMMA TriggerRowStep ==
    ASSUME RunInvariant, bound, NEW t \in Triggers, PendingTriggers = {t}, t = proc["worker"].trigger,
           proc["worker"].pc \in ExitPcs, NEW pc \in {"project", "exitQuote"}, Goto("worker", pc),
           UNCHANGED <<status, bound, events, lock>>, posLock' \in {posLock, "free", "worker"},
           ledger' \in [{Entry} \cup Exits -> LedgerRows \cup {None}],
           ~Decided(t), \A e \in {Entry} \cup Exits : e # t => ledger'[e] = ledger[e],
           Filled(t)' = 0 \/ (Unresolved(t) /\ Filled(t)' <= ledger[t].qty),
           Unresolved(t)' => /\ \A e \in Exits : ~Unresolved(e)
                             /\ ledger'[t].qty <= Remaining /\ Filled(t)' = 0,
           pc = "project" => Decided(t)',
           pc = "exitQuote" => posLock' = "worker" /\ Unresolved(t)'
    PROVE  RunInvariant'
<1>0. RunTypeOK /\ "worker" \in Procs /\ "api" \in Procs
  BY DEF RunInvariant, Procs
<1>1. /\ proc'["worker"].pc = pc /\ proc'["worker"].trigger = t
      /\ \A q \in Procs : q # "worker" => proc'[q] = proc[q]
      /\ DOMAIN proc' = Procs /\ proc'["worker"] = [proc["worker"] EXCEPT !.pc = pc]
  BY <1>0, GotoStep
<1>2. RunTypeOK'
  <2>1. proc'["worker"] \in [pc : {"project", "exitQuote"}, trigger : {0} \cup Triggers, remaining : 0..Quantity]
    BY <1>0, <1>1 DEF RunTypeOK
  <2>2. proc' \in [Procs -> [pc : {"idle", "create", "entry", "entryQuote", "refused", "bind", "check", "quote", "exit",
                                 "exitQuote", "stale", "project", "record"},
                           trigger : {0} \cup Triggers, remaining : 0..Quantity]]
    BY <1>0, <1>1, <2>1 DEF RunTypeOK, Goto
  <2>3. posLock' \in Procs \cup {"manual", "free"}
    BY <1>0 DEF RunTypeOK
  <2> QED BY <1>0, <2>2, <2>3 DEF RunTypeOK
<1>3. t \in Exits /\ t # Manual /\ Manual \in {Entry} \cup Exits
  BY Amounts
<1>4. posLock' = "manual" => Unresolved(Manual)'
  <2>1. posLock' = "manual" => Unresolved(Manual)
    BY DEF RunInvariant, ExitInv
  <2> QED BY <2>1, <1>3 DEF Unresolved
<1>5. proc'["api"] = proc["api"]
  BY <1>0, <1>1
<1> QED BY <1>1, <1>2, <1>3, <1>4, <1>5, ExitRowStep

(* A decision of that row *)
LEMMA DecisionStep ==
    ASSUME RunInvariant, bound, NEW t \in Triggers, PendingTriggers = {t}, t = proc["worker"].trigger,
           proc["worker"].pc \in {"exit", "exitQuote"}, Goto("worker", "project"),
           UNCHANGED <<status, bound, events, lock>>, posLock' \in {posLock, "free"},
           ledger' \in [{Entry} \cup Exits -> LedgerRows \cup {None}],
           Unresolved(t), Decided(t)', ~(Unresolved(t)'),
           \A e \in {Entry} \cup Exits : e # t => ledger'[e] = ledger[e],
           Filled(t)' = 0 \/ Filled(t)' <= ledger[t].qty
    PROVE  RunInvariant'
<1>1. ~Decided(t)
  BY DEF Decided, Unresolved
<1>2. proc["worker"].pc \in ExitPcs
  BY DEF ExitPcs
<1> QED BY <1>1, <1>2, TriggerRowStep

LEMMA RecordExitStep ==
    ASSUME RunInvariant, NEW p \in Procs, RecordExit(p)
    PROVE  RunInvariant'
<1>t. PICK t : t = proc[p].trigger
  OBVIOUS
<1>q. PICK qty : qty = ExitQuantity(p)
  OBVIOUS
<1>0. /\ RunTypeOK /\ p = "worker" /\ bound /\ (lock = p => status \in {"monitoring", "blocked"})
      /\ proc[p].pc = "exit" /\ PendingTriggers = {t} /\ Remaining \in 0..Quantity
      /\ lock = p => NotCompleted /\ Len(events) <= MaxEvents
  BY <1>t, TickIsWorker DEF RunInvariant, RecordExit, TickPcs, ExitPcs, TriggerInv, ExitInv, TickInv
<1>1. t \in Triggers /\ t \in Exits /\ t # Manual /\ t \in {Entry} \cup Exits /\ qty \in 0..Quantity
  <2>1. t \in PendingTriggers
    BY <1>0
  <2>2. t \in Triggers /\ events[t].remaining \in 0..Quantity
    BY <2>1, PendingAre
  <2> QED BY <1>t, <1>q, <2>2, Amounts DEF ExitQuantity
<1>2. CASE Fails(p)
  BY <1>2, EndStep DEF Fails
<1>3. CASE lock = p /\ Block(p)
  BY <1>0, <1>3, BlockStep
<1>4. ASSUME NEW pc \in {"project", "stale"}, Goto(p, pc),
             UNCHANGED <<status, bound, events, ledger, posLock, lock, failures>>,
             pc = "project" => Decided(t), pc = "stale" => ledger[t] = None
      PROVE  RunInvariant'
  <2>1. /\ proc'[p].pc = pc /\ proc'[p].trigger = t /\ proc'[p].remaining = proc[p].remaining
        /\ \A q \in Procs : q # p => proc'[q] = proc[q]
        /\ DOMAIN proc' = Procs /\ proc'[p] = [proc[p] EXCEPT !.pc = pc]
    BY <1>0, <1>t, <1>4, GotoStep
  <2>2. RunTypeOK'
    <3>1. proc'[p] \in [pc : {"project", "stale"}, trigger : {0} \cup Triggers, remaining : 0..Quantity]
      BY <1>0, <1>4, <2>1 DEF RunTypeOK
    <3> QED BY <1>0, <1>4, <3>1 DEF RunTypeOK, Goto
  <2>3. pc \in TickPcs /\ pc \in ExitPcs /\ pc \notin {"entryQuote", "exitQuote", "bind", "quote", "record"}
    BY <1>4 DEF TickPcs, ExitPcs
  <2> QED BY <1>0, <1>4, <2>1, <2>2, <2>3, MoveStep
<1>5. CASE /\ Unresolved(t) /\ posLock = "free" /\ Resolve(t, 0) /\ Goto(p, "project")
           /\ UNCHANGED <<status, bound, events, posLock, lock, failures>>
  <2>1. /\ ledger' \in [{Entry} \cup Exits -> LedgerRows \cup {None}]
        /\ Decided(t)' /\ ~(Unresolved(t)') /\ Filled(t)' = 0
        /\ \A e \in {Entry} \cup Exits : e # t => ledger'[e] = ledger[e]
    <3>1. RunTypeOK /\ 0 \in 0..Quantity
      BY <1>0, Amounts
    <3> QED BY <1>1, <1>5, <3>1, ResolveStep
  <2>2. proc'[p].pc = "project"
    BY <1>0, <1>5, GotoStep
  <2> QED BY <1>0, <1>t, <1>1, <1>5, <2>1, <2>2, DecisionStep
<1>6. CASE /\ ledger[t] = None /\ posLock = "free" /\ \A d \in Exits : ~Unresolved(d)
           /\ qty <= Remaining
           /\ ledger' = [ledger EXCEPT ![t] = [qty |-> qty, filled |-> Open]]
           /\ posLock' = p /\ Goto(p, "exitQuote")
           /\ UNCHANGED <<status, bound, events, lock, failures>>
  <2>1. /\ ledger' \in [{Entry} \cup Exits -> LedgerRows \cup {None}]
        /\ Unresolved(t)' /\ ledger'[t].qty = qty /\ Filled(t)' = 0
        /\ \A e \in {Entry} \cup Exits : e # t => ledger'[e] = ledger[e]
    BY <1>0, <1>1, <1>6, IntentStep
  <2>2. ~Decided(t)
    BY <1>6 DEF Decided
  <2>3. proc'[p].pc = "exitQuote" /\ posLock' = "worker"
    BY <1>0, <1>6, GotoStep
  <2>4. proc["worker"].pc \in ExitPcs /\ t = proc["worker"].trigger /\ Goto("worker", "exitQuote")
    BY <1>0, <1>t, <1>6 DEF ExitPcs
  <2> QED BY <1>0, <1>1, <1>6, <2>1, <2>2, <2>3, <2>4, TriggerRowStep
<1>7. \/ Fails(p)
      \/ lock = p /\ Block(p)
      \/ /\ Decided(t) /\ Goto(p, "project")
         /\ UNCHANGED <<status, bound, events, ledger, posLock, lock, failures>>
      \/ /\ ledger[t] = None /\ Goto(p, "stale")
         /\ UNCHANGED <<status, bound, events, ledger, posLock, lock, failures>>
      \/ /\ Unresolved(t) /\ posLock = "free" /\ Resolve(t, 0) /\ Goto(p, "project")
         /\ UNCHANGED <<status, bound, events, posLock, lock, failures>>
      \/ /\ ledger[t] = None /\ posLock = "free" /\ \A d \in Exits : ~Unresolved(d)
         /\ qty <= Remaining
         /\ ledger' = [ledger EXCEPT ![t] = [qty |-> qty, filled |-> Open]]
         /\ posLock' = p /\ Goto(p, "exitQuote")
         /\ UNCHANGED <<status, bound, events, lock, failures>>
  BY <1>t, <1>q DEF RecordExit, Sellable
<1>8. CASE /\ Decided(t) /\ Goto(p, "project")
           /\ UNCHANGED <<status, bound, events, ledger, posLock, lock, failures>>
  BY <1>4, <1>8
<1>9. CASE /\ ledger[t] = None /\ Goto(p, "stale")
           /\ UNCHANGED <<status, bound, events, ledger, posLock, lock, failures>>
  BY <1>4, <1>9
<1> QED BY <1>2, <1>3, <1>5, <1>6, <1>7, <1>8, <1>9

LEMMA DecideExitStep ==
    ASSUME RunInvariant, NEW p \in Procs, DecideExit(p)
    PROVE  RunInvariant'
<1>t. PICK t : t = proc[p].trigger
  OBVIOUS
<1>0. /\ RunTypeOK /\ p = "worker" /\ bound /\ proc[p].pc = "exitQuote" /\ posLock = "worker" /\ Unresolved(t)
      /\ PendingTriggers = {t}
  BY <1>t, TickIsWorker DEF RunInvariant, DecideExit, TickPcs, ExitPcs, TriggerInv, ExitInv
<1>1. t \in Triggers /\ t \in Exits /\ t # Manual /\ t \in {Entry} \cup Exits
  BY <1>0, PendingAre, Amounts
<1>2. ASSUME NEW n \in 0..ledger[t].qty, Resolve(t, n), Goto(p, "project"), posLock' = "free",
             UNCHANGED <<status, bound, events, lock, failures>>
      PROVE  RunInvariant'
  <2>1. n \in 0..Quantity /\ n <= ledger[t].qty
    <3>1. ledger[t].qty \in 0..Quantity
      BY <1>0, <1>1, RowTypes DEF Unresolved
    <3> QED BY <1>2, <3>1, Amounts
  <2>2. /\ ledger' \in [{Entry} \cup Exits -> LedgerRows \cup {None}]
        /\ Decided(t)' /\ ~(Unresolved(t)') /\ Filled(t)' = n
        /\ \A e \in {Entry} \cup Exits : e # t => ledger'[e] = ledger[e]
    BY <1>0, <1>1, <1>2, <2>1, ResolveStep
  <2>3. proc'[p].pc = "project"
    BY <1>0, <1>2, GotoStep
  <2> QED BY <1>0, <1>t, <1>1, <1>2, <2>1, <2>2, <2>3, DecisionStep
<1>3. CASE Done(p) /\ posLock' = "free" /\ UNCHANGED <<status, bound, events, ledger, failures>>
  BY <1>0, <1>3, EndStep
<1> QED BY <1>t, <1>2, <1>3 DEF DecideExit

(* The outcome of the exit, and the completion when nothing is left *)
LEMMA RecordOutcomeStep ==
    ASSUME RunInvariant, NEW p \in Procs, RecordOutcome(p)
    PROVE  RunInvariant'
<1>x. PICK x : x = proc[p].trigger
  OBVIOUS
<1>n. PICK n : n = proc[p].remaining
  OBVIOUS
<1>t. PICK t : t = ExitType(p)
  OBVIOUS
<1>0. /\ RunTypeOK /\ p = "worker" /\ bound /\ status \in {"monitoring", "blocked"} /\ lock = p
      /\ PendingTriggers = {x} /\ Decided(x) /\ (n = 0 => Remaining = 0)
      /\ NotCompleted /\ Len(events) <= MaxEvents
  BY <1>x, <1>n, TickIsWorker DEF RunInvariant, RecordOutcome, TickPcs, ExitPcs, TriggerInv, TickInv
<1>1. x \in Triggers /\ x \in PendingTriggers /\ x \in {0} \cup Triggers /\ x \in {Entry} \cup Exits
  BY <1>0, PendingAre, Amounts
<1>2. n \in 0..Quantity /\ ~Unresolved(x)
  BY <1>0, <1>n, <1>1, ProcTypes, RowTypes
<1>3. t \in ExitEvents /\ (t = "exit_no_fill" <=> Filled(x) = 0) /\ t \in EventTypes /\ t \notin EntryEvents
      /\ t # "completed" /\ t # "triggered"
  BY <1>x, <1>t DEF ExitType, ExitEvents, EventTypes, EntryEvents
<1>4. Len(events) <= MaxEvents /\ Len(events) <= MaxEvents + 1 /\ Len(events) \in Nat
  BY <1>0, Amounts DEF RunTypeOK
<1>5. Done(p) /\ UNCHANGED <<bound, ledger, posLock>>
  BY DEF RecordOutcome
<1>6. Event(t, x, n) \in EventRows /\ events \in Seq(EventRows)
      /\ Event(t, x, n).type = t /\ Event(t, x, n).exit = x
  BY <1>0, <1>1, <1>2, <1>3 DEF Event, EventRows, RunTypeOK
<1>7. CASE n # 0
  <2>1. events' = events \o <<Event(t, x, n)>> \o <<>> /\ status' = status
    BY <1>x, <1>n, <1>t, <1>7 DEF RecordOutcome
  <2>2. events' = Append(events, Event(t, x, n))
    BY <1>6, <2>1
  <2> QED BY <1>0, <1>1, <1>2, <1>3, <1>4, <1>5, <2>1, <2>2, EventStep DEF AppendEvent
<1>8. CASE n = 0
  <2> USE DEF RunInvariant
  <2>e. PICK e : e = Event(t, x, n)
    OBVIOUS
  <2>c. PICK c : c = Event("completed", 0, n)
    OBVIOUS
  <2>1. events' = (events \o <<e>>) \o <<c>> /\ status' = "completed"
    BY <1>x, <1>n, <1>t, <1>8, <2>e, <2>c DEF RecordOutcome
  <2>2. c \in EventRows /\ c.type = "completed" /\ e \in EventRows /\ e.type = t /\ e.exit = x
    BY <1>2, <1>6, <2>e, <2>c DEF Event, EventRows, EventTypes
  <2>3. /\ events' \in Seq(EventRows) /\ Len(events') = Len(events) + 2
        /\ DOMAIN events' = 1..(Len(events) + 2)
        /\ events'[Len(events) + 1] = e /\ events'[Len(events) + 2] = c
        /\ \A k \in DOMAIN events : events'[k] = events[k]
    <3>1. /\ events \o <<e>> \in Seq(EventRows) /\ Len(events \o <<e>>) = Len(events) + 1
          /\ (events \o <<e>>)[Len(events) + 1] = e
          /\ \A k \in 1..Len(events) : (events \o <<e>>)[k] = events[k]
      BY <1>6, <2>2
    <3>2. PICK s : s = events \o <<e>>
      OBVIOUS
    <3>3. /\ s \in Seq(EventRows) /\ Len(s) = Len(events) + 1 /\ s[Len(events) + 1] = e
          /\ \A k \in 1..Len(events) : s[k] = events[k]
      BY <3>1, <3>2
    <3>4. events' = s \o <<c>>
      BY <2>1, <3>2
    <3>5. /\ events' \in Seq(EventRows) /\ Len(events') = Len(s) + 1 /\ DOMAIN events' = 1..(Len(s) + 1)
          /\ events'[Len(s) + 1] = c /\ \A k \in 1..Len(s) : events'[k] = s[k]
      BY <2>2, <3>3, <3>4
    <3>6. DOMAIN events = 1..Len(events)
      BY <1>6
    <3> QED BY <1>4, <3>3, <3>5, <3>6
  <2>4. DOMAIN events' = 1..(Len(events) + IF TRUE THEN 2 ELSE 1)
    BY <2>3
  <2>5. EvidenceInv' /\ PendingTriggers' = PendingTriggers \ {x}
    <3>1. /\ events'[Len(events) + 1].type = t /\ events'[Len(events) + 1].exit = x
          /\ events'[Len(events) + 2].type = "completed"
          /\ \A k \in DOMAIN events : events'[k] = events[k]
      BY <2>2, <2>3
    <3>2. NotCompleted /\ status' = "completed" /\ status' \notin {"none", "starting"} /\ ledger' = ledger
      BY <1>0, <1>5, <2>1
    <3>3. RunTypeOK /\ EvidenceInv
      OBVIOUS
    <3>4. /\ EvidenceInv'
          /\ PendingTriggers' = (PendingTriggers \ (IF t \in ExitEvents THEN {x} ELSE {}))
                                \cup (IF t = "triggered" THEN {Len(events) + 1} ELSE {})
      <4> HIDE DEF RunInvariant
      <4> QED BY <1>1, <1>2, <1>3, <2>4, <3>1, <3>2, <3>3, GrowEvents
    <3> QED BY <1>3, <3>4
  <2>6. PendingTriggers' = {}
    BY <1>0, <2>5
  <2>7. /\ proc'[p] = Idle /\ proc'[p].pc = "idle" /\ DOMAIN proc' = Procs
        /\ \A q \in Procs : q # p => proc'[q] = proc[q]
        /\ lock' # p /\ lock' \in {lock, "free"}
    BY <1>5, DoneStep
  <2>8. Procs = {"api", "worker"} /\ proc'["worker"].pc = "idle" /\ proc'["api"] = proc["api"]
    BY <1>0, <2>7 DEF Procs
  <2>9. RunTypeOK'
    <3>1. proc' \in [Procs -> [pc : {"idle", "create", "entry", "entryQuote", "refused", "bind", "check", "quote", "exit",
                                 "exitQuote", "stale", "project", "record"},
                           trigger : {0} \cup Triggers, remaining : 0..Quantity]]
      BY <1>5, Amounts DEF RunTypeOK, Done, Idle
    <3>2. lock' \in Procs \cup {"free"}
      BY <2>7 DEF RunTypeOK
    <3>3. Len(events') <= MaxEvents + 3 /\ status' \in Statuses
      BY <1>4, <2>1, <2>3, Amounts DEF Statuses
    <3> QED BY <1>5, <2>3, <3>1, <3>2, <3>3 DEF RunTypeOK, EventRows
  <2>10. EntryInv'
    BY <1>0, <1>5, <2>1, <2>8, SameLedger DEF EntryInv, TickPcs
  <2>11. ExitInv'
    BY <1>0, <1>5, <1>8, <2>8, KeepsExit DEF ExitInv
  <2>12. TriggerInv' /\ LengthInv'
    BY <2>1, <2>6, <2>8 DEF TriggerInv, LengthInv, ExitPcs, Watched
  <2>13. TickInv'
    BY <2>8 DEF TickInv, TickPcs
  <2> QED BY <2>5, <2>9, <2>10, <2>11, <2>12, <2>13
<1> QED BY <1>7, <1>8

(* Pause, resume and stop *)
LEMMA ControlStep ==
    ASSUME RunInvariant, NEW from \in SUBSET {"monitoring", "paused"}, NEW to \in Watched,
           NEW type \in {"paused", "resumed", "stopped"}, Control(from, to, type)
    PROVE  RunInvariant'
<1> USE DEF RunInvariant, Control
<1>0. status \in {"monitoring", "paused"} /\ status' = to /\ Remaining \in 0..Quantity /\ Len(events) \in Nat
  BY DEF ExitInv, RunTypeOK
<1>1. type \in EventTypes /\ type \notin ExitEvents /\ type \notin EntryEvents /\ type # "completed"
      /\ type # "triggered" /\ 0 \in {0} \cup Triggers
  BY DEF EventTypes, ExitEvents, EntryEvents
<1>2. to \notin {"none", "starting", "completed"} /\ to \in Statuses
  BY DEF Watched, Statuses
<1>3. /\ EvidenceInv' /\ PendingTriggers' = PendingTriggers
      /\ events' \in Seq(EventRows) /\ Len(events') = Len(events) + 1
  BY <1>0, <1>1, <1>2, GrowByOne
<1>4. Len(events') <= MaxEvents /\ Len(events') <= MaxEvents + 1 /\ Len(events') <= MaxEvents + 3
  BY <1>0, <1>3, Amounts
<1>5. RunTypeOK'
  BY <1>0, <1>2, <1>3, <1>4 DEF RunTypeOK, EventRows
<1>6. EntryInv'
  <2>1. bound
    BY <1>0 DEF EntryInv, Watched
  <2> QED BY <1>0, <1>2, <2>1, SameLedger DEF EntryInv
<1>7. ExitInv'
  BY <1>0, <1>2, KeepsExit DEF ExitInv
<1>8. TriggerInv'
  <2>1. Remaining' = Remaining
    BY SameLedger
  <2> QED BY <1>3, <2>1 DEF TriggerInv, Decided
<1>9. LengthInv'
  BY <1>0, <1>2, <1>4 DEF LengthInv
<1>10. TickInv'
  BY DEF TickInv
<1> QED BY <1>3, <1>5, <1>6, <1>7, <1>8, <1>9, <1>10

(* Somebody else sells through the same ledger. *)
LEMMA ManualCloseStep ==
    ASSUME RunInvariant, ManualClose
    PROVE  RunInvariant'
<1>0. /\ RunTypeOK /\ Manual \in Exits /\ Manual \in {Entry} \cup Exits /\ Remaining \in 0..Quantity
      /\ UNCHANGED <<status, bound, events, lock, proc, failures>>
  BY Amounts DEF RunInvariant, ExitInv, ManualClose
<1>a. proc["worker"].pc = "exitQuote" => posLock = "worker"
  BY DEF RunInvariant, ExitInv
<1>b. Unresolved(Manual) => bound /\ ~Decided(Manual)
  BY <1>0, RowTypes DEF RunInvariant, ExitInv, Unresolved
<1>1. ASSUME NEW q \in 1..Remaining, bound, posLock = "free", ledger[Manual] = None,
             \A d \in Exits : ~Unresolved(d),
             ledger' = [ledger EXCEPT ![Manual] = [qty |-> q, filled |-> Open]], posLock' = "manual"
      PROVE  RunInvariant'
  <2>1. q \in 0..Quantity /\ q <= Remaining
    BY <1>0, <1>1, Amounts
  <2>2. /\ ledger' \in [{Entry} \cup Exits -> LedgerRows \cup {None}]
        /\ Unresolved(Manual)' /\ ledger'[Manual].qty = q /\ Filled(Manual)' = 0
        /\ \A e \in {Entry} \cup Exits : e # Manual => ledger'[e] = ledger[e]
    BY <1>0, <1>1, <2>1, IntentStep
  <2>3. RunTypeOK'
    BY <1>0, <1>1, <2>2 DEF RunTypeOK
  <2>4. ~Decided(Manual)
    BY <1>1 DEF Decided
  <2>5. proc["worker"].pc # "exitQuote"
    BY <1>a, <1>1
  <2> QED BY <1>0, <1>1, <2>1, <2>2, <2>3, <2>4, <2>5, ExitRowStep
<1>2. ASSUME NEW n, n \in 0..ledger[Manual].qty, Unresolved(Manual), posLock \in {"free", "manual"},
             posLock' = "free", Resolve(Manual, n)
      PROVE  RunInvariant'
  <2>1. n \in 0..Quantity /\ n <= ledger[Manual].qty
    <3>1. ledger[Manual].qty \in 0..Quantity
      BY <1>0, <1>2, RowTypes DEF Unresolved
    <3> QED BY <1>2, <3>1, Amounts
  <2>2. /\ ledger' \in [{Entry} \cup Exits -> LedgerRows \cup {None}]
        /\ Decided(Manual)' /\ ~(Unresolved(Manual)') /\ Filled(Manual)' = n
        /\ \A e \in {Entry} \cup Exits : e # Manual => ledger'[e] = ledger[e]
    BY <1>0, <1>2, <2>1, ResolveStep
  <2>3. RunTypeOK'
    BY <1>0, <1>2, <2>2 DEF RunTypeOK
  <2>5. proc["worker"].pc # "exitQuote"
    BY <1>a, <1>2
  <2> QED BY <1>0, <1>b, <1>2, <2>1, <2>2, <2>3, <2>5, ExitRowStep
<1>3. CASE posLock = "manual" /\ posLock' = "free" /\ UNCHANGED ledger
  <2> USE <1>0, <1>3 DEF RunInvariant
  <2>1. RunTypeOK'
    BY DEF RunTypeOK
  <2>2. EntryInv'
    BY SameLedger DEF EntryInv
  <2>3. ExitInv'
    BY <1>a, KeepsExit DEF ExitInv
  <2>4. EvidenceInv' /\ LengthInv'
    BY KeepsEvidence, KeepsLength
  <2>5. TriggerInv'
    <3>1. PendingTriggers' = PendingTriggers /\ Remaining' = Remaining
      BY SameEvents, SameLedger
    <3> QED BY <3>1 DEF TriggerInv, Decided
  <2>6. TickInv'
    BY KeepsTick
  <2> QED BY <2>1, <2>2, <2>3, <2>4, <2>5, <2>6
<1>4. posLock = "manual" => Unresolved(Manual)
  BY DEF RunInvariant, ExitInv
<1>5. Unresolved(Manual) => 0 \in 0..ledger[Manual].qty
  <2>1. Unresolved(Manual) => ledger[Manual].qty \in 0..Quantity
    BY <1>0, RowTypes DEF Unresolved
  <2> QED BY <2>1, Amounts
<1> QED BY <1>1, <1>2, <1>3, <1>4, <1>5 DEF ManualClose

LEMMA FailStep ==
    ASSUME RunInvariant, NEW p \in Procs, Fail(p)
    PROVE  RunInvariant'
BY EndStep DEF Fail

LEMMA NextRun == RunInvariant /\ [RunNext]_runVars => RunInvariant'
<1> SUFFICES ASSUME RunInvariant, [RunNext]_runVars PROVE RunInvariant'
  OBVIOUS
<1>1. ASSUME NEW p \in Procs, StartRun(p) \/ TickRun(p) \/ Start(p) \/ Tick(p) \/ Fail(p) \/ LoseLock(p)
      PROVE  RunInvariant'
  <2>1. CASE StartRun(p) \/ TickRun(p) \/ Fail(p) \/ LoseLock(p)
    BY <2>1, StartRunStep, TickRunStep, FailStep, LoseLockStep
  <2>2. CASE Start(p)
    BY <2>2, CreateStep, RecordEntryStep, BlockEntryStep, DecideEntryStep, BindEntryStep DEF Start
  <2>3. CASE Tick(p)
    <3>1. CASE RaiseDisconnected(p)
      BY <3>1, EndStep DEF RaiseDisconnected, Fails
    <3> QED BY <2>3, <3>1, CheckStep, ObserveStep, RecordExitStep, DecideExitStep, ReconcileStep, ProjectStep,
               RecordOutcomeStep DEF Tick
  <2> QED BY <1>1, <2>1, <2>2, <2>3
<1>2. CASE PauseRun \/ ResumeRun \/ StopRun
  <2>1. {"monitoring"} \in SUBSET {"monitoring", "paused"} /\ {"paused"} \in SUBSET {"monitoring", "paused"}
        /\ {"monitoring", "paused"} \in SUBSET {"monitoring", "paused"}
        /\ "paused" \in Watched /\ "monitoring" \in Watched /\ "stopped" \in Watched
    BY DEF Watched
  <2> QED BY <1>2, <2>1, ControlStep DEF PauseRun, ResumeRun, StopRun
<1>3. CASE ManualClose
  BY <1>3, ManualCloseStep
<1>4. CASE UNCHANGED runVars
  <2> USE <1>4 DEF RunInvariant, runVars
  <2>1. RunTypeOK'
    BY DEF RunTypeOK
  <2>2. EntryInv'
    BY SameLedger DEF EntryInv
  <2>3. ExitInv'
    BY KeepsExit DEF ExitInv
  <2>4. EvidenceInv' /\ LengthInv'
    BY KeepsEvidence, KeepsLength
  <2>5. TriggerInv'
    <3>1. PendingTriggers' = PendingTriggers /\ Remaining' = Remaining
      BY SameEvents, SameLedger
    <3> QED BY <3>1 DEF TriggerInv, Decided
  <2>6. TickInv'
    BY KeepsTick
  <2> QED BY <2>1, <2>2, <2>3, <2>4, <2>5, <2>6
<1> QED BY <1>1, <1>2, <1>3, <1>4 DEF RunNext

(* The run keeps its inductive invariant through crashes, replays, lost      *)
(* locks and manual closes: the entry decided before it is bound, one exit   *)
(* open at a time within what is left, evidence that stays true, one trigger *)
(* at work (kalshi_paper_test_trade_service.py).                             *)
THEOREM RunInvariance == RunSpec => []RunInvariant
<1> QED BY InitRun, NextRun, PTL DEF RunSpec

(* The run's own state is coherent: one outcome per identity, one trigger    *)
(* without an outcome, and a completed run holds nothing (BindEntry,         *)
(* _finish_exit_attempt, tick_run).                                          *)
THEOREM RunIsCoherent == RunSpec => []RunInv
<1>1. RunInvariant => RunInv
  <2> SUFFICES ASSUME RunInvariant PROVE RunInv
    OBVIOUS
  <2>1. RunTypeOK /\ OutcomesAreUnique
    BY DEF RunInvariant, EvidenceInv
  <2>2. OnePendingTrigger
    <3>1. CASE PendingTriggers = {}
      BY <3>1, FS_EmptySet DEF OnePendingTrigger
    <3>2. CASE PendingTriggers # {}
      <4>1. PICK k \in PendingTriggers : TRUE
        BY <3>2
      <4>2. PendingTriggers = {k}
        BY PendingAre
      <4>3. Cardinality({k}) = 1
        BY FS_Singleton
      <4> QED BY <4>2, <4>3 DEF OnePendingTrigger
    <3> QED BY <3>1, <3>2
  <2>3. CompletedIsClosed
    BY DEF CompletedIsClosed, RunInvariant, EntryInv, ExitInv
  <2> QED BY <2>1, <2>2, <2>3 DEF RunInv
<1> QED BY <1>1, RunInvariance, PTL

(* What the evidence says of an exit stays what the ledger did: one told as  *)
(* no fill has not sold and never will (_finish_exit_attempt).               *)
THEOREM EvidenceIsTrue == RunSpec => []EvidenceMatchesLedger
<1>1. RunInvariant => EvidenceMatchesLedger
  BY DEF RunInvariant, EvidenceInv
<1> QED BY <1>1, RunInvariance, PTL

(* An exit's amount changes only when its decision commits. *)
LEMMA OnlyDecisionsSell ==
    ASSUME RunInvariant, [RunNext]_runVars, NEW t \in Triggers, Filled(t)' # Filled(t)
    PROVE  proc["worker"].pc = "exitQuote" /\ proc["worker"].trigger = t
<1>0. RunTypeOK /\ t \in {Entry} \cup Exits /\ t # Entry /\ t # Manual
  BY Amounts DEF RunInvariant
<1>1. ledger'[t] # ledger[t]
  BY DEF Filled, Decided
<1>2. ASSUME NEW d \in {Entry} \cup Exits, NEW n, Resolve(d, n) PROVE d = t
  BY <1>0, <1>1, <1>2 DEF Resolve, RunTypeOK
<1>3. ASSUME NEW d \in {Entry} \cup Exits, NEW r, ledger' = [ledger EXCEPT ![d] = r] PROVE d = t
  BY <1>0, <1>1, <1>3 DEF RunTypeOK
<1>4. Entry \in {Entry} \cup Exits /\ Manual \in {Entry} \cup Exits
  BY Amounts
<1>5. ~ManualClose
  BY <1>0, <1>1, <1>2, <1>3, <1>4 DEF ManualClose
<1>6. ASSUME NEW p \in Procs, RecordEntry(p) \/ DecideEntry(p) PROVE FALSE
  BY <1>0, <1>1, <1>2, <1>3, <1>4, <1>6 DEF RecordEntry, DecideEntry, Fails
<1>7. ASSUME NEW p \in Procs, RecordExit(p) PROVE FALSE
  <2>1. PICK d : d = proc[p].trigger
    OBVIOUS
  <2>2. p = "worker" /\ d \in {Entry} \cup Exits
    BY <1>7, <2>1, TickIsWorker, PendingAre, Amounts
       DEF RecordExit, TickPcs, RunInvariant, TriggerInv, ExitPcs
  <2>3. \/ ledger' = ledger
        \/ Unresolved(d) /\ Resolve(d, 0)
        \/ ledger[d] = None /\ ledger' = [ledger EXCEPT ![d] = [qty |-> ExitQuantity(p), filled |-> Open]]
    BY <1>7, <2>1 DEF RecordExit, Fails, Block
  <2>4. d = t
    BY <1>1, <1>2, <1>3, <2>2, <2>3
  <2>5. CASE Unresolved(d) /\ Resolve(d, 0)
    <3>1. Filled(d)' = 0 /\ Filled(d) = 0
      BY <1>0, <2>2, <2>5, ResolveStep, Amounts
    <3> QED BY <2>4, <3>1
  <2>6. CASE ledger[d] = None /\ ledger' = [ledger EXCEPT ![d] = [qty |-> ExitQuantity(p), filled |-> Open]]
    <3>1. ExitQuantity(p) \in 0..Quantity
      BY <1>7, <2>2, PendingAre DEF ExitQuantity, RecordExit, RunInvariant, TriggerInv, ExitPcs
    <3>2. Filled(d)' = Filled(d)
      BY <1>0, <2>2, <2>6, <3>1, IntentStep
    <3> QED BY <2>4, <3>2
  <2> QED BY <1>1, <2>3, <2>5, <2>6
<1>8. ASSUME NEW p \in Procs, DecideExit(p)
      PROVE  proc["worker"].pc = "exitQuote" /\ proc["worker"].trigger = t
  <2>1. PICK d : d = proc[p].trigger
    OBVIOUS
  <2>2. p = "worker" /\ d \in {Entry} \cup Exits /\ proc[p].pc = "exitQuote"
    BY <1>8, <2>1, TickIsWorker, PendingAre, Amounts
       DEF DecideExit, TickPcs, RunInvariant, TriggerInv, ExitPcs
  <2>3. \E n : Resolve(d, n)
    BY <1>1, <1>8, <2>1 DEF DecideExit
  <2> QED BY <1>2, <2>1, <2>2, <2>3
<1>9. ASSUME NEW p \in Procs,
             StartRun(p) \/ TickRun(p) \/ Create(p) \/ BlockEntry(p) \/ BindEntry(p) \/ Fail(p) \/ LoseLock(p)
      PROVE  FALSE
  BY <1>1, <1>9 DEF StartRun, TickRun, Create, BlockEntry, BindEntry, Fail, LoseLock, Fails, Block
<1>10. ASSUME NEW p \in Procs, Check(p) \/ Observe(p) \/ Reconcile(p) \/ Project(p) \/ RecordOutcome(p)
                               \/ RaiseDisconnected(p)
       PROVE  FALSE
  BY <1>1, <1>10 DEF Check, Observe, Reconcile, Project, RecordOutcome, RaiseDisconnected, Fails, Block, Complete
<1>11. ~(PauseRun \/ ResumeRun \/ StopRun \/ UNCHANGED runVars)
  BY <1>1 DEF PauseRun, ResumeRun, StopRun, Control, runVars
<1> QED BY <1>5, <1>6, <1>7, <1>8, <1>9, <1>10, <1>11 DEF RunNext, Start, Tick

(* A paused or stopped run does not sell, except in an exit whose lock was   *)
(* lost under it (stop_run, pause_run, tick_run).                            *)
THEOREM StoppedIsQuiet == RunSpec => QuietWhenStopped
<1>1. RunInvariant /\ [RunNext]_runVars =>
         [\A t \in Triggers :
             status \in {"paused", "stopped"} /\ (Filled(t))' # Filled(t) =>
                 \E p \in Procs : Selling(p, t) /\ lock # p]_runVars
  <2> SUFFICES ASSUME RunInvariant, [RunNext]_runVars, NEW t \in Triggers,
                      status \in {"paused", "stopped"}, (Filled(t))' # Filled(t)
               PROVE  \E p \in Procs : Selling(p, t) /\ lock # p
    OBVIOUS
  <2>1. proc["worker"].pc = "exitQuote" /\ proc["worker"].trigger = t
    BY OnlyDecisionsSell
  <2>2. lock # "worker"
    BY <2>1 DEF RunInvariant, EntryInv, TickPcs
  <2> QED BY <2>1, <2>2 DEF Selling, Procs
<1> QED BY <1>1, RunInvariance, PTL DEF RunSpec, QuietWhenStopped

-----------------------------------------------------------------------------
(* The ledger as the test trade assumes it, against what the ledger promises *)
EntryAsked == ledger[Entry] # None => ledger[Entry].qty = Quantity

(* What a step may do to the ledger: admit a request, or decide one *)
Intends(d, q) ==
    /\ ledger[d] = None /\ ledger' = [ledger EXCEPT ![d] = [qty |-> q, filled |-> Open]]
    /\ d = Entry => q = Quantity
    /\ d \in Exits => bound /\ q <= Remaining /\ \A e \in Exits : ~Unresolved(e)
Decides(d, n) == Unresolved(d) /\ Resolve(d, n)

LedgerMoves ==
    \/ UNCHANGED ledger
    \/ \E d \in {Entry} \cup Exits, q \in 0..Quantity : Intends(d, q)
    \/ \E d \in {Entry} \cup Exits : \E n \in 0..ledger[d].qty : Decides(d, n)

LEMMA SameSum ==
  ASSUME NEW f
  PROVE  Contract!SumFunction(f) = SumFunction(f)
BY DEF Contract!SumFunction, SumFunction, Contract!SumFunctionOnSet, SumFunctionOnSet,
       Contract!FoldFunctionOnSet, FoldFunctionOnSet, Contract!MapThenFoldSet, MapThenFoldSet

LEMMA LedgerMovesHold ==
    ASSUME RunInvariant, EntryAsked, [RunNext]_runVars
    PROVE  LedgerMoves
<1>0. /\ RunTypeOK /\ Entry \in {Entry} \cup Exits /\ Manual \in {Entry} \cup Exits /\ Manual # Entry
      /\ Entry \notin Exits /\ Quantity \in 0..Quantity /\ Remaining \in 0..Quantity
  BY Amounts DEF RunInvariant, ExitInv
<1>1. ASSUME NEW d \in {Entry} \cup Exits, Unresolved(d), Resolve(d, 0) PROVE LedgerMoves
  <2>1. 0 \in 0..ledger[d].qty
    BY <1>0, <1>1, RowTypes, Amounts DEF Unresolved
  <2> QED BY <1>1, <2>1 DEF LedgerMoves, Decides
<1>2. CASE ManualClose
  <2>1. CASE /\ bound /\ posLock = "free" /\ ledger[Manual] = None
             /\ \A d \in Exits : ~Unresolved(d)
             /\ \E q \in 1..Remaining : ledger' = [ledger EXCEPT ![Manual] = [qty |-> q, filled |-> Open]]
    <3>1. PICK q \in 1..Remaining : ledger' = [ledger EXCEPT ![Manual] = [qty |-> q, filled |-> Open]]
      BY <2>1
    <3>2. q \in 0..Quantity /\ q <= Remaining
      BY <1>0, Amounts
    <3>3. Intends(Manual, q)
      BY <1>0, <2>1, <3>1, <3>2 DEF Intends
    <3> QED BY <1>0, <3>2, <3>3 DEF LedgerMoves
  <2>2. CASE posLock = "manual" /\ \E n \in 0..ledger[Manual].qty : Resolve(Manual, n)
    <3>1. Unresolved(Manual)
      BY <2>2 DEF RunInvariant, ExitInv
    <3> QED BY <1>0, <2>2, <3>1 DEF LedgerMoves, Decides
  <2>3. CASE UNCHANGED ledger
    BY <2>3 DEF LedgerMoves
  <2>4. CASE Unresolved(Manual) /\ Resolve(Manual, 0)
    BY <1>0, <1>1, <2>4
  <2> QED BY <1>2, <2>1, <2>2, <2>3, <2>4 DEF ManualClose
<1>3. ASSUME NEW p \in Procs, RecordEntry(p) PROVE LedgerMoves
  <2>1. \/ UNCHANGED ledger
        \/ Unresolved(Entry) /\ Resolve(Entry, 0)
        \/ ledger[Entry] = None /\ ledger' = [ledger EXCEPT ![Entry] = [qty |-> Quantity, filled |-> Open]]
    BY <1>3 DEF RecordEntry, Fails
  <2>2. CASE ledger[Entry] = None /\ ledger' = [ledger EXCEPT ![Entry] = [qty |-> Quantity, filled |-> Open]]
    <3>1. Intends(Entry, Quantity)
      BY <1>0, <2>2 DEF Intends
    <3> QED BY <1>0, <3>1 DEF LedgerMoves
  <2>3. CASE UNCHANGED ledger
    BY <2>3 DEF LedgerMoves
  <2> QED BY <1>0, <1>1, <2>1, <2>2, <2>3
<1>4. ASSUME NEW p \in Procs, DecideEntry(p) PROVE LedgerMoves
  <2>1. Unresolved(Entry) /\ ledger[Entry].qty = Quantity
    BY <1>4 DEF DecideEntry, RunInvariant, EntryInv, Unresolved, EntryAsked
  <2>2. PICK n \in 0..ledger[Entry].qty : Resolve(Entry, n)
    BY <1>4, <2>1 DEF DecideEntry
  <2> QED BY <1>0, <2>1, <2>2 DEF LedgerMoves, Decides
<1>5. ASSUME NEW p \in Procs, RecordExit(p) PROVE LedgerMoves
  <2>1. PICK d, q : d = proc[p].trigger /\ q = ExitQuantity(p)
    OBVIOUS
  <2>2. p = "worker" /\ bound /\ PendingTriggers = {d} /\ proc[p].pc = "exit"
    BY <1>5, <2>1, TickIsWorker DEF RecordExit, TickPcs, RunInvariant, TriggerInv, ExitPcs
  <2>3. d \in {Entry} \cup Exits /\ d # Entry /\ q \in 0..Quantity
    BY <2>1, <2>2, PendingAre, Amounts DEF ExitQuantity
  <2>4. \/ UNCHANGED ledger
        \/ Unresolved(d) /\ Resolve(d, 0)
        \/ /\ ledger[d] = None /\ q <= Remaining /\ \A e \in Exits : ~Unresolved(e)
           /\ ledger' = [ledger EXCEPT ![d] = [qty |-> q, filled |-> Open]]
    BY <1>5, <2>1 DEF RecordExit, Fails, Block, Sellable
  <2>5. CASE UNCHANGED ledger
    BY <2>5 DEF LedgerMoves
  <2>6. CASE /\ ledger[d] = None /\ q <= Remaining /\ \A e \in Exits : ~Unresolved(e)
             /\ ledger' = [ledger EXCEPT ![d] = [qty |-> q, filled |-> Open]]
    <3>1. Intends(d, q)
      BY <2>2, <2>3, <2>6 DEF Intends
    <3> QED BY <2>3, <3>1 DEF LedgerMoves
  <2> QED BY <1>1, <2>3, <2>4, <2>5, <2>6
<1>6. ASSUME NEW p \in Procs, DecideExit(p) PROVE LedgerMoves
  <2>1. PICK d : d = proc[p].trigger
    OBVIOUS
  <2>2. p = "worker" /\ PendingTriggers = {d} /\ Unresolved(d)
    BY <1>6, <2>1, TickIsWorker DEF DecideExit, TickPcs, RunInvariant, TriggerInv, ExitPcs, ExitInv
  <2>3. d \in {Entry} \cup Exits
    BY <2>2, PendingAre, Amounts
  <2>4. UNCHANGED ledger \/ \E n \in 0..ledger[d].qty : Resolve(d, n)
    BY <1>6, <2>1 DEF DecideExit
  <2> QED BY <2>2, <2>3, <2>4 DEF LedgerMoves, Decides
<1>7. ASSUME NEW p \in Procs,
             StartRun(p) \/ TickRun(p) \/ Create(p) \/ BlockEntry(p) \/ BindEntry(p) \/ Fail(p) \/ LoseLock(p)
      PROVE  UNCHANGED ledger
  BY <1>7 DEF StartRun, TickRun, Create, BlockEntry, BindEntry, Fail, LoseLock, Fails, Block
<1>8. ASSUME NEW p \in Procs, Check(p) \/ Observe(p) \/ Reconcile(p) \/ Project(p) \/ RecordOutcome(p)
                              \/ RaiseDisconnected(p)
      PROVE  UNCHANGED ledger
  BY <1>8 DEF Check, Observe, Reconcile, Project, RecordOutcome, RaiseDisconnected, Fails, Block, Complete
<1>9. PauseRun \/ ResumeRun \/ StopRun \/ UNCHANGED runVars => UNCHANGED ledger
  BY DEF PauseRun, ResumeRun, StopRun, Control, runVars
<1>10. UNCHANGED ledger => LedgerMoves
  BY DEF LedgerMoves
<1> QED BY <1>2, <1>3, <1>4, <1>5, <1>6, <1>7, <1>8, <1>9, <1>10 DEF RunNext, Start, Tick

LEMMA EntryAskedKept ==
    ASSUME RunTypeOK, EntryAsked, LedgerMoves
    PROVE  EntryAsked'
<1>0. DOMAIN ledger = {Entry} \cup Exits
  BY DEF RunTypeOK
<1>1. ASSUME NEW d \in {Entry} \cup Exits, NEW q \in 0..Quantity, Intends(d, q) PROVE EntryAsked'
  BY <1>0, <1>1 DEF Intends, EntryAsked
<1>2. ASSUME NEW d \in {Entry} \cup Exits, NEW n \in 0..ledger[d].qty, Decides(d, n) PROVE EntryAsked'
  <2>1. ledger[d] \in LedgerRows /\ ledger[d] # None
    BY <1>2, RowTypes DEF Decides, Unresolved
  <2>2. [ledger[d] EXCEPT !.filled = n].qty = ledger[d].qty
    BY <2>1 DEF LedgerRows
  <2>3. ledger'[Entry].qty = ledger[Entry].qty /\ (ledger[Entry] = None => ledger'[Entry] = None)
    BY <1>0, <1>2, <2>1, <2>2 DEF Decides, Resolve
  <2> QED BY <2>3 DEF EntryAsked
<1>3. CASE UNCHANGED ledger
  BY <1>3 DEF EntryAsked
<1> QED BY <1>1, <1>2, <1>3 DEF LedgerMoves

LEMMA RunMapped ==
    ASSUME RunTypeOK
    PROVE  /\ DOMAIN Asked = {e \in {Entry} \cup Exits : ledger[e] # None}
           /\ DOMAIN FilledRows = {e \in {Entry} \cup Exits : Decided(e)}
           /\ DOMAIN FilledRows \subseteq DOMAIN Asked
           /\ \A d \in DOMAIN Asked : Asked[d] = [of |-> Entry, qty |-> ledger[d].qty]
           /\ \A d \in DOMAIN FilledRows : FilledRows[d] = ledger[d].filled /\ FilledRows[d] = Filled(d)
BY DEF Asked, FilledRows, Decided, Filled

LEMMA LeftIsRemaining ==
    ASSUME RunTypeOK, bound, Decided(Entry)
    PROVE  /\ Contract!IsEntry(Entry) /\ Contract!Left(Entry) = Remaining
           /\ (\A e \in Exits : ~Unresolved(e)) => Contract!ExitsOf(Entry) \subseteq DOMAIN FilledRows
<1>1. Contract!IsEntry(Entry)
  BY RunMapped DEF Contract!IsEntry
<1>2. Contract!ExitsOf(Entry) = {e \in Exits : ledger[e] # None}
  BY RunMapped, Amounts DEF Contract!ExitsOf
<1>3. (\A e \in Exits : ~Unresolved(e)) => Contract!ExitsOf(Entry) \subseteq DOMAIN FilledRows
  BY <1>2, RunMapped, RowTypes
<1>4. PICK T : T = Contract!ExitsOf(Entry) \cap DOMAIN FilledRows
  OBVIOUS
<1>5. T \in SUBSET Exits /\ (\A x \in T : Decided(x)) /\ \A x \in Exits \ T : ~Decided(x)
  BY <1>2, <1>4, RunMapped DEF Decided
<1>6. PICK f : f = [d \in Exits |-> Filled(d)]
  OBVIOUS
<1>7. PICK e : e = [d \in T |-> FilledRows[d]]
  OBVIOUS
<1>8. /\ DOMAIN f = Exits /\ DOMAIN e = T
      /\ \A x \in T : f[x] \in Int /\ e[x] = f[x]
      /\ \A x \in Exits \ T : f[x] = 0
  <2>1. \A x \in T : x \in DOMAIN FilledRows /\ x \in Exits
    BY <1>4, <1>5
  <2>2. \A x \in T : f[x] \in Int /\ e[x] = f[x]
    BY <1>6, <1>7, <2>1, RunMapped, RowTypes, Amounts
  <2>3. \A x \in Exits \ T : f[x] = 0
    BY <1>5, <1>6 DEF Filled
  <2> QED BY <1>6, <1>7, <2>2, <2>3
<1>9. SumFunction(f) = SumFunction(e)
  BY <1>5, <1>8, ExitsFinite, SumRestricts
<1>10. FilledRows[Entry] = Filled(Entry)
  BY RunMapped
<1>11. Contract!Left(Entry) = Filled(Entry) - SumFunction(e)
  BY <1>4, <1>7, <1>10, SameSum DEF Contract!Left
<1>12. Remaining = Filled(Entry) - SumFunction(f)
  BY <1>6 DEF Remaining
<1> QED BY <1>1, <1>3, <1>9, <1>11, <1>12

LEMMA IntendsAdmits ==
    ASSUME RunInvariant, NEW d \in {Entry} \cup Exits, NEW q \in 0..Quantity, Intends(d, q)
    PROVE  Contract!Next
<1>0. RunTypeOK /\ Entry \in {Entry} \cup Exits
  BY DEF RunInvariant
<1>1. /\ Unresolved(d)' /\ ~Decided(d)' /\ ledger'[d].qty = q
      /\ \A e \in {Entry} \cup Exits : e # d => ledger'[e] = ledger[e]
  BY <1>0, IntentStep DEF Intends
<1>2. d \notin DOMAIN Asked
  BY <1>0, RunMapped DEF Intends
<1>3. Entry # d => Contract!IsEntry(Entry) /\ Contract!ExitsOf(Entry) \subseteq DOMAIN FilledRows
                   /\ q <= Contract!Left(Entry)
  <2>1. ASSUME Entry # d PROVE bound /\ Decided(Entry)
    BY <2>1 DEF Intends, RunInvariant, EntryInv
  <2> QED BY <1>0, <2>1, LeftIsRemaining DEF Intends
<1>4. Asked' = Contract!With(Asked, d, [of |-> Entry, qty |-> q])
  <2>1. {e \in {Entry} \cup Exits : ledger'[e] # None} = DOMAIN Asked \cup {d}
    BY <1>0, <1>1, RunMapped DEF Unresolved
  <2>2. ASSUME NEW e \in DOMAIN Asked \cup {d}
        PROVE  [of |-> Entry, qty |-> ledger'[e].qty] = IF e = d THEN [of |-> Entry, qty |-> q] ELSE Asked[e]
    <3>1. CASE e = d
      BY <1>1, <3>1
    <3>2. CASE e # d
      <4>1. e \in DOMAIN Asked /\ e \in {Entry} \cup Exits
        BY <1>0, <2>2, <3>2, RunMapped
      <4> QED BY <1>0, <1>1, <3>2, <4>1, RunMapped
    <3> QED BY <3>1, <3>2
  <2>3. Asked' = [e \in DOMAIN Asked \cup {d} |-> [of |-> Entry, qty |-> ledger'[e].qty]]
    BY <2>1 DEF Asked
  <2> QED BY <2>2, <2>3 DEF Contract!With
<1>5. FilledRows' = FilledRows
  <2>1. \A e \in {Entry} \cup Exits : Decided(e)' <=> Decided(e)
    BY <1>1 DEF Decided, Intends
  <2>2. {e \in {Entry} \cup Exits : Decided(e)'} = DOMAIN FilledRows
    BY <1>0, <2>1, RunMapped
  <2>3. \A e \in DOMAIN FilledRows : ledger'[e].filled = FilledRows[e]
    BY <1>0, <1>1, RunMapped DEF Decided, Intends
  <2>4. FilledRows' = [e \in DOMAIN FilledRows |-> ledger'[e].filled]
    BY <2>2 DEF FilledRows
  <2>5. FilledRows = [e \in DOMAIN FilledRows |-> FilledRows[e]]
    BY DEF FilledRows
  <2> QED BY <2>3, <2>4, <2>5
<1>6. Asked' # Asked
  BY <1>2, <1>4 DEF Contract!With
<1>7. Contract!Admit(d, Entry, q)
  BY <1>2, <1>3, <1>4, <1>5 DEF Contract!Admit
<1> QED BY <1>0, <1>6, <1>7 DEF Contract!Next

LEMMA DecidesOnce ==
    ASSUME RunTypeOK, NEW d \in {Entry} \cup Exits, NEW n \in 0..ledger[d].qty, Decides(d, n)
    PROVE  Contract!Next
<1>1. ledger[d] # None /\ ledger[d] \in LedgerRows /\ ledger[d].qty \in 0..Quantity /\ ~Decided(d)
  BY RowTypes DEF Decides, Unresolved
<1>2. n \in 0..Quantity /\ n \in Nat /\ n <= ledger[d].qty
  BY <1>1, Amounts
<1>3. /\ Decided(d)' /\ Filled(d)' = n
      /\ \A e \in {Entry} \cup Exits : e # d => ledger'[e] = ledger[e]
  BY <1>2, ResolveStep DEF Decides
<1>4. ledger'[d] # None /\ ledger'[d].filled = n /\ ledger'[d].qty = ledger[d].qty
  <2>1. ledger'[d] = [ledger[d] EXCEPT !.filled = n]
    BY DEF Decides, Resolve, RunTypeOK
  <2> QED BY <1>1, <1>3, <2>1 DEF LedgerRows, Decided
<1>5. d \in DOMAIN Asked \ DOMAIN FilledRows /\ Asked[d].qty = ledger[d].qty
  BY <1>1, RunMapped
<1>6. FilledRows' = Contract!With(FilledRows, d, n)
  <2>1. \A e \in {Entry} \cup Exits : e # d => (Decided(e)' <=> Decided(e))
    BY <1>3 DEF Decided
  <2>2. {e \in {Entry} \cup Exits : Decided(e)'} = DOMAIN FilledRows \cup {d}
    BY <1>3, <2>1, RunMapped
  <2>3. \A e \in DOMAIN FilledRows \cup {d} : ledger'[e].filled = IF e = d THEN n ELSE FilledRows[e]
    BY <1>3, <1>4, RunMapped
  <2>4. FilledRows' = [e \in DOMAIN FilledRows \cup {d} |-> ledger'[e].filled]
    BY <2>2 DEF FilledRows
  <2> QED BY <2>3, <2>4 DEF Contract!With
<1>7. Asked' = Asked
  <2>1. {e \in {Entry} \cup Exits : ledger'[e] # None} = DOMAIN Asked
    BY <1>1, <1>3, <1>4, RunMapped
  <2>2. \A e \in DOMAIN Asked : ledger'[e].qty = ledger[e].qty
    BY <1>3, <1>4, RunMapped
  <2>3. Asked' = [e \in DOMAIN Asked |-> [of |-> Entry, qty |-> ledger'[e].qty]]
    BY <2>1 DEF Asked
  <2>4. Asked = [e \in DOMAIN Asked |-> [of |-> Entry, qty |-> ledger[e].qty]]
    BY DEF Asked
  <2> QED BY <2>2, <2>3, <2>4
<1>8. FilledRows' # FilledRows
  BY <1>5, <1>6 DEF Contract!With
<1>9. Contract!Decide(d, n) /\ n \in 0..Asked[d].qty
  BY <1>2, <1>5, <1>6, <1>7 DEF Contract!Decide
<1> QED BY <1>5, <1>8, <1>9 DEF Contract!Next

(* The run, its replays and a close by hand use the ledger within the promise *)
(* that KalshiPaperLedger is shown to keep: no identity is decided twice, and *)
(* no exit is admitted beyond what the position still holds (start_run,       *)
(* tick_run).                                                                 *)
THEOREM RunKeepsContract == RunSpec => KeepsContract
<1>1. RunInit => Contract!Init
  <2>1. ASSUME RunInit PROVE Asked = <<>> /\ FilledRows = <<>>
    <3>1. {e \in {Entry} \cup Exits : ledger[e] # None} = {} /\ {e \in {Entry} \cup Exits : Decided(e)} = {}
      BY <2>1 DEF RunInit, Decided
    <3> QED BY <3>1 DEF Asked, FilledRows
  <2> QED BY <2>1 DEF Contract!Init
<1>2. RunInit => EntryAsked
  BY DEF RunInit, EntryAsked
<1>3. RunInvariant /\ EntryAsked /\ [RunNext]_runVars => EntryAsked'
  BY LedgerMovesHold, EntryAskedKept DEF RunInvariant
<1>4. RunInvariant /\ EntryAsked /\ [RunNext]_runVars => [Contract!Next]_<<Asked, FilledRows>>
  <2>1. UNCHANGED ledger => UNCHANGED <<Asked, FilledRows>>
    BY DEF Asked, FilledRows, Decided
  <2> QED BY <2>1, LedgerMovesHold, IntendsAdmits, DecidesOnce DEF LedgerMoves, RunInvariant
<1> QED BY <1>1, <1>2, <1>3, <1>4, RunInvariance, PTL DEF RunSpec, KeepsContract, Contract!Spec
=============================================================================
