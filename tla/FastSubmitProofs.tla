--------------------------- MODULE FastSubmitProofs ---------------------------
(***************************************************************************)
(* Proofs about the fast order path: for any number of signals, any cap    *)
(* and any scenario, whichever of its faults happen and whenever the       *)
(* process dies, a signal is fired once, its submission stays tracked, the *)
(* cap holds and the rows are true.                                        *)
(***************************************************************************)
EXTENDS FastSubmit, FiniteSetTheorems, WellFoundedInduction, TLAPS

-----------------------------------------------------------------------------
(* The inductive invariant: what holds always, and one part per property,     *)
(* each under the faults its property spares.                                 *)
Has(f, s) == \E k \in DOMAIN f : f[k].signal = s

(* A record of the signal survives whatever the host loses. *)
Safe(s) == \E k \in 1..synced : file[k].signal = s

(* The index tells the file's open intents, and forgets nothing in it. *)
IndexAgrees ==
    \A s \in Signals :
        /\ index[s] = "open" <=> Loaded(file)[s] = "open"
        /\ index[s] = "absent" => ~Has(file, s)

Basic ==
    /\ file \in Seq(Records)
    /\ process = "down" => sweep = NoSweep /\ \A s \in Signals : call[s] = Idle
    /\ sweep.pc # "recover" => sweep.pending = {} /\ sweep.todo = {}
    /\ "tear" \notin faults => torn = FALSE /\ (process # "down" => IndexAgrees)

Settled(s) ==
    /\ call[s].pc \in {"persist", "committed"} => call[s].told # "nothing"
    /\ call[s].pc = "committed" => row[OwnRow(s)] # "none"
    /\ row[OwnRow(s)] \in {"none", "executed", "failed"} /\ row[RecoveryRow(s)] # "executed"

(* Without an overlapping sweep a submission under way has its intent open. *)
Quiet(s) == call[s].pc # "idle" => sweep = NoSweep /\ index[s] = "open"

(* A signal is sent once, and its own row and the reply tell of that order. *)
Sent(s) ==
    /\ fired[s] > 0 \/ call[s].pc # "idle" => Safe(s)
    /\ fired[s] <= 1 /\ (call[s].pc = "wire" => fired[s] = 0)
    /\ call[s].pc \in {"sent", "persist", "committed"} \/ row[OwnRow(s)] # "none" => fired[s] > 0
    /\ row[OwnRow(s)] = "executed" => order[s] = "filled"
    /\ call[s].pc \in {"persist", "committed"} /\ call[s].told = "executed" => order[s] = "filled"

(* "failed" is said of a dead order only. *)
Held(s) ==
    /\ order[s] # "resting" /\ (call[s].pc = "sent" => order[s] # "none")
    /\ call[s].pc \in {"persist", "committed"} /\ call[s].told = "failed" => order[s] = "dead"
    /\ row[OwnRow(s)] = "failed" => order[s] = "dead"

(* An intent is on stable storage before anything is done about its signal. *)
Rooted(s) ==
    /\ Has(file, s) \/ HasRow(s) \/ s \in sweep.pending => Safe(s)
    /\ s \in sweep.todo => Has(file, s)
    /\ row[OwnRow(s)] # "none" \/ call[s].pc # "idle" => row[RecoveryRow(s)] = "none" /\ s \notin sweep.pending

(* An executed order is counted in the hot state, or about to be. *)
Counted(s) ==
    process # "down" /\ row[OwnRow(s)] = "executed" =>
        OwnRow(s) \in hot \/ (call[s].pc = "committed" /\ call[s].told = "executed")
Live == {s \in Signals : call[s].pc # "idle" \/ row[OwnRow(s)] = "executed"}

(* A signal that was, or is about to be sent has an intent that every restart *)
(* finds open, or is kept in the database or by a sweep about to commit; one  *)
(* that is sent again is kept.                                                *)
Kept(s) == s \in sweep.pending \/ HasRow(s)
Followed(s) ==
    /\ fired[s] > 0 \/ call[s].pc = "wire" => Recoverable(s) \/ Kept(s)
    /\ fired[s] > 0 /\ call[s].pc = "wire" => Kept(s)

Sound(s) ==
    /\ Settled(s)
    /\ Spared({"overlap"}) => Quiet(s)
    /\ Spared(Refires) => Sent(s)
    /\ Spared({"raise", "rest"} \cup Refires) => Held(s)
    /\ Spared({"overlap", "record"} \cup Refires) => Rooted(s)
    /\ Spared(Uncounted) => Counted(s)
    /\ Spared({"commit", "tear"}) => Followed(s)

Bounded == Spared(Uncounted) => Cardinality(Live) <= Cap

Inv == TypeOK /\ Basic /\ (\A s \in Signals : Sound(s)) /\ Bounded

-----------------------------------------------------------------------------
(* What load makes of a file *)
LEMMA LeastNatural ==
  ASSUME NEW N \in SUBSET Nat, N # {}
  PROVE  \E m \in N : \A k \in N : m <= k
<1>. DEFINE R == {ss \in Nat \X Nat : ss[1] < ss[2]}
<1>1. IsWellFoundedOn(R, Nat)
  BY NatLessThanWellFounded DEF OpToRel
<1>2. \A k, m \in Nat : <<k, m>> \in R <=> k < m
  OBVIOUS
<1>. HIDE DEF R
<1>3. PICK m \in N : \A k \in N : ~(<<k, m>> \in R)
  BY <1>1, WFMin
<1>4. ASSUME NEW k \in N PROVE m <= k
  <2>1. k \in Nat /\ m \in Nat
    OBVIOUS
  <2>2. ~(k < m)
    BY <1>2, <1>3, <2>1
  <2>. QED
    BY <2>1, <2>2
<1>. QED
  BY <1>4

(* The last record of a signal *)
LastRecord(f, s, k) == k \in DOMAIN f /\ f[k].signal = s /\ \A j \in DOMAIN f : f[j].signal = s => j <= k

LEMMA LastExists ==
  ASSUME NEW f \in Seq(Records), NEW s, Has(f, s)
  PROVE  \E k : LastRecord(f, s, k)
<1>. DEFINE N == {n \in 0..Len(f) : \A j \in DOMAIN f : f[j].signal = s => j <= n}
<1>1. Len(f) \in Nat /\ DOMAIN f = 1..Len(f)
  OBVIOUS
<1>2. N \in SUBSET Nat /\ Len(f) \in N
  BY <1>1
<1>3. PICK m \in N : \A n \in N : m <= n
  <2>. HIDE DEF N
  <2>. QED
    BY <1>2, LeastNatural
<1>4. m \in 0..Len(f) /\ \A j \in DOMAIN f : f[j].signal = s => j <= m
  OBVIOUS
<1>5. m # 0
  BY <1>1, <1>4 DEF Has
<1>6. m - 1 \notin N
  BY <1>1, <1>3, <1>4
<1>7. PICK j \in DOMAIN f : f[j].signal = s /\ ~(j <= m - 1)
  BY <1>1, <1>4, <1>5, <1>6
<1>8. j = m
  BY <1>1, <1>4, <1>7
<1>. QED
  BY <1>4, <1>7, <1>8 DEF LastRecord

LEMMA LoadedLast ==
  ASSUME NEW f \in Seq(Records), NEW s \in Signals, NEW k, LastRecord(f, s, k)
  PROVE  Loaded(f)[s] = Mark(f[k])
<1>. DEFINE about == {j \in DOMAIN f : f[j].signal = s}
<1>1. k \in about /\ (\A j \in about : k >= j) /\ about \subseteq Nat
  BY DEF LastRecord
<1>2. Max(about) = k
  <2>. HIDE DEF about
  <2>1. \A x, y \in Nat : x >= y /\ y >= x => x = y
    OBVIOUS
  <2>2. Max(about) \in about /\ \A j \in about : Max(about) >= j
    BY <1>1 DEF Max
  <2>. QED
    BY <1>1, <2>1, <2>2
<1>. QED
  BY <1>1, <1>2 DEF Loaded

LEMMA LoadedAbsent ==
  ASSUME NEW f \in Seq(Records), NEW s \in Signals
  PROVE  /\ ~Has(f, s) => Loaded(f)[s] = "absent"
         /\ Has(f, s) => Loaded(f)[s] \in {"open", "done"}
<1>1. ASSUME ~Has(f, s) PROVE Loaded(f)[s] = "absent"
  BY <1>1 DEF Has, Loaded
<1>2. ASSUME Has(f, s) PROVE Loaded(f)[s] \in {"open", "done"}
  BY <1>2, LastExists, LoadedLast DEF Mark
<1>. QED
  BY <1>1, <1>2

LEMMA LoadedAppend ==
  ASSUME NEW f \in Seq(Records), NEW r \in Records, NEW s \in Signals
  PROVE  /\ Append(f, r) \in Seq(Records)
         /\ Has(Append(f, r), s) <=> r.signal = s \/ Has(f, s)
         /\ Loaded(Append(f, r))[s] = IF r.signal = s THEN Mark(r) ELSE Loaded(f)[s]
<1>. DEFINE g == Append(f, r)
            n == Len(f)
<1>1. /\ g \in Seq(Records) /\ n \in Nat /\ DOMAIN f = 1..n /\ DOMAIN g = 1..(n + 1)
      /\ (\A k \in DOMAIN f : g[k] = f[k]) /\ g[n + 1] = r
  OBVIOUS
<1>. HIDE DEF g, n
<1>2. n + 1 \in DOMAIN g /\ (\A k \in DOMAIN f : k \in DOMAIN g /\ k <= n + 1) /\ \A k \in DOMAIN g : k \in DOMAIN f \/ k = n + 1
  BY <1>1
<1>3. Has(g, s) <=> r.signal = s \/ Has(f, s)
  BY <1>1, <1>2 DEF Has
<1>4. CASE r.signal = s
  <2>1. LastRecord(g, s, n + 1)
    BY <1>1, <1>2, <1>4 DEF LastRecord
  <2>2. Loaded(g)[s] = Mark(g[n + 1])
    BY <1>1, <2>1, LoadedLast
  <2>. QED
    BY <1>1, <1>3, <1>4, <2>2 DEF g
<1>5. CASE r.signal # s /\ Has(f, s)
  <2>1. PICK k : LastRecord(f, s, k)
    BY <1>5, LastExists
  <2>2. LastRecord(g, s, k) /\ g[k] = f[k]
    BY <1>1, <1>2, <1>5, <2>1 DEF LastRecord
  <2>3. Loaded(g)[s] = Mark(g[k]) /\ Loaded(f)[s] = Mark(f[k])
    BY <1>1, <2>1, <2>2, LoadedLast
  <2>. QED
    BY <1>1, <1>3, <1>5, <2>2, <2>3 DEF g
<1>6. CASE r.signal # s /\ ~Has(f, s)
  BY <1>1, <1>3, <1>6, LoadedAbsent DEF g
<1>. QED
  BY <1>4, <1>5, <1>6

(* A prefix that still holds *)
LEMMA LoadedPrefix ==
  ASSUME NEW f \in Seq(Records), NEW r \in Records, NEW n \in 0..Len(f)
  PROVE  /\ SubSeq(Append(f, r), 1, n) = SubSeq(f, 1, n)
         /\ SubSeq(Append(f, r), 1, Len(f) + 1) = Append(f, r)
         /\ SubSeq(f, 1, n) \in Seq(Records) /\ Len(SubSeq(f, 1, n)) = n
         /\ SubSeq(SubSeq(f, 1, n), 1, n) = SubSeq(f, 1, n)
         /\ SubSeq(f, 1, Len(f)) = f
         /\ \A k \in 1..n : SubSeq(f, 1, n)[k] = f[k]
<1>1. Append(f, r) \in Seq(Records) /\ Len(Append(f, r)) = Len(f) + 1 /\ \A k \in 1..Len(f) : Append(f, r)[k] = f[k]
  OBVIOUS
<1>2. ASSUME NEW g \in Seq(Records), NEW m \in 0..Len(g)
      PROVE  SubSeq(g, 1, m) \in Seq(Records) /\ Len(SubSeq(g, 1, m)) = m /\ \A k \in 1..m : SubSeq(g, 1, m)[k] = g[k]
  OBVIOUS
<1>3. ASSUME NEW g \in Seq(Records), NEW h \in Seq(Records), Len(g) = Len(h), \A k \in 1..Len(g) : g[k] = h[k]
      PROVE  g = h
  BY <1>3
<1>4. n \in 0..Len(Append(f, r)) /\ Len(f) + 1 \in 0..Len(Append(f, r)) /\ Len(f) \in 0..Len(f)
  BY <1>1
<1>5. SubSeq(Append(f, r), 1, n) = SubSeq(f, 1, n)
  BY <1>1, <1>2, <1>3, <1>4
<1>6. SubSeq(Append(f, r), 1, Len(f) + 1) = Append(f, r) /\ SubSeq(f, 1, Len(f)) = f
  BY <1>1, <1>2, <1>3, <1>4
<1>7. SubSeq(SubSeq(f, 1, n), 1, n) = SubSeq(f, 1, n)
  BY <1>2, <1>3
<1>. QED
  BY <1>2, <1>5, <1>6, <1>7

(* What a compaction keeps *)
LEMMA Survivors ==
  ASSUME NEW O \in SUBSET Signals
  PROVE  LET q == SetToSeq({Intent(s) : s \in O}) IN
         /\ q \in Seq(Records)
         /\ \A s \in Signals : /\ Has(q, s) <=> s \in O
                               /\ Loaded(q)[s] = "open" <=> s \in O
<1>. DEFINE I == {Intent(s) : s \in O}
            q == SetToSeq(I)
            n == Cardinality(I)
<1>1. IsFiniteSet(O)
  BY FS_Subset, JournalAssumption
<1>2. IsFiniteSet(I) /\ I \subseteq Records
  <2>1. IsFiniteSet(I)
    <3>. DEFINE g == [s \in O |-> Intent(s)]
    <3>1. g \in Surjection(O, I)
      BY DEF Surjection
    <3>. QED
      BY <1>1, <3>1, FS_Surjection
  <2>. QED
    BY <2>1 DEF Intent, Records
<1>. HIDE DEF I
<1>3. n \in Nat /\ ExistsBijection(1..n, I)
  BY <1>2, FS_CardinalityType
<1>4. q \in [1..n -> I] /\ IsInjective(q)
  <2>1. \E g \in [1..n -> I] : IsInjective(g)
    BY <1>3 DEF ExistsBijection, Bijection, Injection
  <2>. QED
    BY <2>1 DEF SetToSeq
<1>. HIDE DEF q
<1>5. \A t \in I : \E k \in 1..n : q[k] = t
  <2>1. q \in Injection(1..n, I)
    BY <1>4 DEF Injection
  <2>2. Cardinality(1..n) = n
    BY <1>3, FS_Interval
  <2>3. q \in Surjection(1..n, I)
    BY <1>2, <2>1, <2>2, FS_Injection
  <2>. QED
    BY <2>3 DEF Surjection
<1>. HIDE DEF n
<1>6. q \in Seq(Records) /\ DOMAIN q = 1..n
  BY <1>2, <1>3, <1>4
<1>7. \A k \in DOMAIN q : \E s \in O : q[k] = Intent(s)
  BY <1>4, <1>6 DEF I
<1>8. ASSUME NEW s \in Signals PROVE (Has(q, s) <=> s \in O) /\ (Loaded(q)[s] = "open" <=> s \in O)
  <2>1. Has(q, s) => s \in O
    BY <1>7 DEF Has, Intent
  <2>2. s \in O => Has(q, s)
    <3>1. s \in O => Intent(s) \in I
      BY DEF I
    <3>2. Intent(s).signal = s
      BY DEF Intent
    <3>. QED
      BY <1>5, <1>6, <3>1, <3>2 DEF Has
  <2>3. Has(q, s) => Loaded(q)[s] = "open"
    <3>1. \A k \in DOMAIN q : Mark(q[k]) = "open"
      BY <1>7 DEF Mark, Intent
    <3>2. ASSUME Has(q, s) PROVE Loaded(q)[s] = "open"
      <4>1. PICK k : LastRecord(q, s, k)
        BY <1>6, <3>2, LastExists
      <4>2. Loaded(q)[s] = Mark(q[k]) /\ k \in DOMAIN q
        BY <1>6, <4>1, LoadedLast DEF LastRecord
      <4>. QED
        BY <3>1, <4>2
    <3>. QED
      BY <3>2
  <2>4. ~Has(q, s) => Loaded(q)[s] # "open"
    BY <1>6, LoadedAbsent
  <2>. QED
    BY <2>1, <2>2, <2>3, <2>4
<1>. QED
  BY <1>6, <1>8 DEF q, I

-----------------------------------------------------------------------------
(* _append *)
LEMMA RecordFacts ==
  ASSUME NEW s \in Signals
  PROVE  /\ Intent(s) \in Records /\ Intent(s).signal = s /\ Intent(s).kind = "intent" /\ Mark(Intent(s)) = "open"
         /\ Result(s) \in Records /\ Result(s).signal = s /\ Mark(Result(s)) = "done"
BY DEF Intent, Result, Records, Mark

Plain(r, sync) ==
    /\ file' = IF torn THEN file ELSE Append(file, r)
    /\ synced' = IF sync THEN Len(file') ELSE synced
Compacted ==
    LET q == SetToSeq({Intent(s) : s \in OpenIn(index')}) IN
    "compact" \in faults /\ file' = q /\ synced' = Len(q)

LEMMA AppendCases ==
  ASSUME NEW r, NEW sync \in BOOLEAN, AppendRecord(r, sync)
  PROVE  /\ torn' = FALSE /\ faults' = faults /\ index' = [index EXCEPT ![r.signal] = Mark(r)]
         /\ Plain(r, sync) \/ Compacted
<1>. DEFINE written == IF torn THEN file ELSE Append(file, r)
            survivors == SetToSeq({Intent(s) : s \in OpenIn(index')})
            compacts == "compact" \in faults /\ Len(written) >= CompactAt
<1>1. /\ torn' = FALSE /\ faults' = faults /\ index' = [index EXCEPT ![r.signal] = Mark(r)]
      /\ file' = (IF compacts THEN survivors ELSE written)
      /\ synced' = CASE compacts -> Len(survivors) [] sync /\ ~compacts -> Len(written) [] OTHER -> synced
  BY DEF AppendRecord
<1>2. CASE compacts
  BY <1>1, <1>2 DEF Compacted
<1>3. CASE ~compacts
  <2>1. file' = written /\ synced' = IF sync THEN Len(written) ELSE synced
    BY <1>1, <1>3
  <2>. QED
    BY <1>1, <2>1 DEF Plain
<1>. QED
  BY <1>2, <1>3

LEMMA AppendTyped ==
  ASSUME TypeOK, Basic, NEW r \in Records, NEW sync \in BOOLEAN, AppendRecord(r, sync)
  PROVE  /\ file' \in Seq(Records) /\ synced' \in 0..Len(file') /\ torn' = FALSE /\ faults' = faults
         /\ index' \in [Signals -> Marks] /\ index'[r.signal] = Mark(r)
         /\ \A s \in Signals : s # r.signal => index'[s] = index[s]
<1>1. /\ torn' = FALSE /\ faults' = faults /\ index' = [index EXCEPT ![r.signal] = Mark(r)]
      /\ Plain(r, sync) \/ Compacted
  BY AppendCases
<1>2. /\ r.signal \in Signals /\ Mark(r) \in Marks /\ index \in [Signals -> Marks]
      /\ file \in Seq(Records) /\ synced \in 0..Len(file) /\ torn \in BOOLEAN
  BY DEF TypeOK, Basic, Records, Mark, Marks
<1>3. index' \in [Signals -> Marks] /\ index'[r.signal] = Mark(r) /\ \A s \in Signals : s # r.signal => index'[s] = index[s]
  BY <1>1, <1>2
<1>4. CASE Plain(r, sync)
  <2>1. Append(file, r) \in Seq(Records) /\ Len(Append(file, r)) = Len(file) + 1
    BY <1>2
  <2>. QED
    BY <1>1, <1>2, <1>3, <1>4, <2>1 DEF Plain
<1>5. CASE Compacted
  <2>1. OpenIn(index') \in SUBSET Signals
    BY DEF OpenIn
  <2>2. file' \in Seq(Records) /\ synced' = Len(file')
    BY <1>5, <2>1, Survivors DEF Compacted
  <2>. QED
    BY <1>1, <1>3, <2>2
<1>. QED
  BY <1>1, <1>4, <1>5

(* What every load would find open, another signal's record leaves open. *)
LEMMA AppendRecoverable ==
  ASSUME file \in Seq(Records), synced \in 0..Len(file), NEW r \in Records, file' = Append(file, r),
         synced' = synced \/ synced' = Len(file) + 1, NEW s \in Signals, s # r.signal, Recoverable(s)
  PROVE  Recoverable(s)'
<1>1. SubSeq(file', 1, Len(file) + 1) = file' /\ \A n \in 0..Len(file) : SubSeq(file', 1, n) = SubSeq(file, 1, n)
  BY LoadedPrefix
<1>2. Len(file) \in Nat /\ Len(file') = Len(file) + 1 /\ Loaded(file')[s] = Loaded(file)[s]
  BY LoadedAppend
<1>3. Loaded(file)[s] = "open"
  <2>1. SubSeq(file, 1, Len(file)) = file /\ Len(file) \in synced..Len(file)
    BY <1>2, LoadedPrefix
  <2>. QED
    BY <2>1 DEF Recoverable
<1>4. ASSUME NEW n \in synced'..Len(file') PROVE Loaded(SubSeq(file', 1, n))[s] = "open"
  <2>1. CASE n = Len(file) + 1
    BY <1>1, <1>2, <1>3, <2>1
  <2>2. CASE n # Len(file) + 1
    <3>1. n \in synced..Len(file) /\ n \in 0..Len(file)
      BY <1>2, <2>2
    <3>. QED
      BY <1>1, <3>1 DEF Recoverable
  <2>. QED
    BY <2>1, <2>2
<1>. QED
  BY <1>4 DEF Recoverable

(* Without torn lines the index and the file keep telling the same, and what *)
(* every load would find open stays so, unless it is closed.                 *)
LEMMA AppendTold ==
  ASSUME TypeOK, Basic, NEW r \in Records, NEW sync \in BOOLEAN, AppendRecord(r, sync),
         "tear" \notin faults, process # "down"
  PROVE  /\ IndexAgrees'
         /\ \A s \in Signals : s # r.signal /\ Recoverable(s) => Recoverable(s)'
         /\ sync /\ r.kind = "intent" => Recoverable(r.signal)'
<1>1. /\ file' \in Seq(Records) /\ synced' \in 0..Len(file')
      /\ index'[r.signal] = Mark(r) /\ \A s \in Signals : s # r.signal => index'[s] = index[s]
  BY AppendTyped
<1>2. Plain(r, sync) \/ Compacted
  BY AppendCases
<1>3. /\ r.signal \in Signals /\ torn = FALSE /\ IndexAgrees
      /\ file \in Seq(Records) /\ synced \in 0..Len(file) /\ Len(file) \in Nat
  BY DEF TypeOK, Basic, Records
<1>4. \A s \in Signals : Recoverable(s) => Loaded(file)[s] = "open"
  <2>1. SubSeq(file, 1, Len(file)) = file /\ Len(file) \in synced..Len(file)
    BY <1>3, LoadedPrefix
  <2>. QED
    BY <2>1 DEF Recoverable
<1>5. CASE Plain(r, sync)
  <2>1. file' = Append(file, r) /\ Len(file') = Len(file) + 1 /\ synced' = IF sync THEN Len(file') ELSE synced
    BY <1>3, <1>5 DEF Plain
  <2>2. ASSUME NEW s \in Signals
        PROVE  /\ Has(file', s) <=> r.signal = s \/ Has(file, s)
               /\ Loaded(file')[s] = IF r.signal = s THEN Mark(r) ELSE Loaded(file)[s]
    BY <1>3, <2>1, LoadedAppend
  <2>3. Mark(r) # "absent"
    BY DEF Mark
  <2>4. IndexAgrees'
    BY <1>1, <1>3, <2>2, <2>3 DEF IndexAgrees
  <2>5. SubSeq(file', 1, Len(file) + 1) = file'
    BY <1>3, <2>1, LoadedPrefix
  <2>6. ASSUME NEW s \in Signals, s # r.signal, Recoverable(s) PROVE Recoverable(s)'
    BY <1>3, <2>1, <2>6, AppendRecoverable
  <2>7. ASSUME sync, r.kind = "intent" PROVE Recoverable(r.signal)'
    <3>1. \A n \in synced'..Len(file') : n = Len(file) + 1
      BY <1>3, <2>1, <2>7
    <3>2. Mark(r) = "open"
      BY <2>7 DEF Mark
    <3>. QED
      BY <1>3, <2>2, <2>5, <3>1, <3>2 DEF Recoverable
  <2>. QED
    BY <2>4, <2>6, <2>7
<1>6. CASE Compacted
  <2>1. OpenIn(index') \in SUBSET Signals /\ \A s \in Signals : s \in OpenIn(index') <=> index'[s] = "open"
    BY DEF OpenIn
  <2>2. /\ synced' = Len(file')
        /\ \A s \in Signals : (Has(file', s) <=> s \in OpenIn(index')) /\ (Loaded(file')[s] = "open" <=> s \in OpenIn(index'))
    BY <1>6, <2>1, Survivors DEF Compacted
  <2>3. IndexAgrees'
    BY <2>1, <2>2 DEF IndexAgrees
  <2>4. \A n \in synced'..Len(file') : SubSeq(file', 1, n) = file'
    <3>1. SubSeq(file', 1, Len(file')) = file' /\ Len(file') \in Nat
      BY <1>1, LoadedPrefix
    <3>2. \A n \in synced'..Len(file') : n = Len(file')
      BY <2>2, <3>1
    <3>. QED
      BY <3>1, <3>2
  <2>5. \A s \in Signals : index'[s] = "open" => Recoverable(s)'
    BY <2>1, <2>2, <2>4 DEF Recoverable
  <2>6. \A s \in Signals : s # r.signal /\ Recoverable(s) => Recoverable(s)'
    BY <1>1, <1>3, <1>4, <2>5 DEF IndexAgrees
  <2>7. r.kind = "intent" => Recoverable(r.signal)'
    BY <1>1, <1>3, <2>5 DEF Mark
  <2>. QED
    BY <2>3, <2>6, <2>7
<1>. QED
  BY <1>2, <1>5, <1>6

(* Without compaction too, the file only grows. *)
LEMMA AppendGrows ==
  ASSUME TypeOK, Basic, NEW r \in Records, NEW sync \in BOOLEAN, AppendRecord(r, sync), Spared(Refires)
  PROVE  /\ \A s \in Signals : /\ Safe(s) => Safe(s)'
                               /\ Has(file', s) <=> r.signal = s \/ Has(file, s)
                               /\ sync /\ Has(file', s) => Safe(s)'
<1>1. "compact" \notin faults /\ torn = FALSE
  BY DEF Spared, Refires, Basic
<1>2. file' = Append(file, r) /\ synced' = IF sync THEN Len(file') ELSE synced
  BY <1>1, AppendCases DEF Plain, Compacted
<1>3. file \in Seq(Records) /\ synced \in 0..Len(file) /\ Len(file) \in Nat
  BY DEF TypeOK, Basic
<1>4. /\ file' \in Seq(Records) /\ Len(file') = Len(file) + 1 /\ DOMAIN file' = 1..(Len(file) + 1)
      /\ \A k \in 1..Len(file) : file'[k] = file[k]
  BY <1>2, <1>3
<1>5. ASSUME NEW s \in Signals PROVE Has(file', s) <=> r.signal = s \/ Has(file, s)
  BY <1>2, <1>3, LoadedAppend
<1>6. ASSUME NEW s \in Signals, Safe(s) PROVE Safe(s)'
  <2>1. PICK k \in 1..synced : file[k].signal = s
    BY <1>6 DEF Safe
  <2>2. k \in 1..synced' /\ k \in 1..Len(file)
    BY <1>2, <1>3, <1>4, <2>1
  <2>. QED
    BY <1>4, <2>1, <2>2 DEF Safe
<1>7. ASSUME NEW s \in Signals, sync, Has(file', s) PROVE Safe(s)'
  BY <1>2, <1>4, <1>7 DEF Has, Safe
<1>. QED
  BY <1>5, <1>6, <1>7

-----------------------------------------------------------------------------
(* Steps *)
PCs == {"idle", "wire", "sent", "persist", "committed"}
Tells == {"nothing", "executed", "failed"}
CallType == [pc : PCs, told : Tells]

LEMMA CallTyped == TypeOK => call \in [Signals -> CallType]
BY DEF TypeOK, CallType, PCs, Tells

LEMMA RowFacts ==
  ASSUME NEW s \in Signals
  PROVE  /\ OwnRow(s) \in Rows /\ RecoveryRow(s) \in Rows /\ OwnRow(s)[1] = s /\ RecoveryRow(s)[1] = s
         /\ OwnRow(s)[2] = "own" /\ RecoveryRow(s)[2] = "recovery"
         /\ \A t \in Signals : OwnRow(s) # RecoveryRow(t) /\ (t # s => OwnRow(t) # OwnRow(s) /\ RecoveryRow(t) # RecoveryRow(s))
BY DEF OwnRow, RecoveryRow, Rows

LEMMA StepFacts ==
  ASSUME TypeOK, NEW s \in Signals, NEW pc \in PCs, Step(s, pc)
  PROVE  /\ call' \in [Signals -> CallType] /\ call'[s].pc = pc /\ call'[s].told = call[s].told
         /\ \A t \in Signals : t # s => call'[t] = call[t]
BY CallTyped DEF Step, CallType

LEMMA IdleFacts == Idle \in CallType /\ Idle.pc = "idle" /\ Idle.told = "nothing"
BY DEF Idle, CallType, PCs, Tells

LEMMA ReturnFacts ==
  ASSUME TypeOK, NEW s \in Signals, Return(s)
  PROVE  /\ call' \in [Signals -> CallType] /\ call'[s] = Idle /\ call'[s].pc = "idle"
         /\ \A t \in Signals : t # s => call'[t] = call[t]
<1>1. call' = [call EXCEPT ![s] = Idle] /\ call \in [Signals -> CallType]
  BY CallTyped DEF Return
<1>. QED
  BY <1>1, IdleFacts

(* What a step leaves of a signal, and of what the journal says of it *)
SameFor(t) ==
    /\ call'[t] = call[t] /\ order'[t] = order[t] /\ fired'[t] = fired[t]
    /\ row'[OwnRow(t)] = row[OwnRow(t)] /\ row'[RecoveryRow(t)] = row[RecoveryRow(t)]
    /\ t \in sweep'.pending <=> t \in sweep.pending
    /\ t \in sweep'.todo <=> t \in sweep.todo

JournalFor(t) ==
    /\ index'[t] = index[t]
    /\ Spared(Refires) => (Safe(t) => Safe(t)') /\ (Has(file', t) <=> Has(file, t))
    /\ "tear" \notin faults => (Recoverable(t) => Recoverable(t)')

LEMMA SparedStays ==
  ASSUME faults' = faults, NEW fs
  PROVE  Spared(fs)' <=> Spared(fs)
BY DEF Spared

LEMMA OthersStay ==
  ASSUME NEW t \in Signals, Sound(t), SameFor(t), JournalFor(t), faults' = faults, process' = process,
         hot \subseteq hot', call[t].pc # "idle" /\ Spared({"overlap"}) => sweep' = sweep
  PROVE  Sound(t)'
<1>1. Settled(t)'
  BY DEF Sound, Settled, SameFor
<1>2. Spared({"overlap"}) => Quiet(t)'
  BY DEF Sound, Quiet, SameFor, JournalFor
<1>3. Spared(Refires) => Sent(t)'
  BY DEF Sound, Sent, SameFor, JournalFor
<1>4. Spared({"raise", "rest"} \cup Refires) => Held(t)'
  BY DEF Sound, Held, SameFor
<1>5. Spared({"overlap", "record"} \cup Refires) => Rooted(t)'
  <2>1. Spared({"overlap", "record"} \cup Refires) => Spared(Refires)
    BY DEF Spared
  <2>. QED
    BY <2>1 DEF Sound, Rooted, HasRow, SameFor, JournalFor
<1>6. Spared(Uncounted) => Counted(t)'
  BY DEF Sound, Counted, SameFor
<1>7. Spared({"commit", "tear"}) => Followed(t)'
  <2>1. Spared({"commit", "tear"}) => "tear" \notin faults
    BY DEF Spared
  <2>. QED
    BY <2>1 DEF Sound, Followed, Kept, HasRow, SameFor, JournalFor
<1>. QED
  BY <1>1, <1>2, <1>3, <1>4, <1>5, <1>6, <1>7, SparedStays DEF Sound

LEMMA JournalStays ==
  ASSUME UNCHANGED journalVars, NEW t \in Signals
  PROVE  JournalFor(t) /\ (Safe(t)' <=> Safe(t)) /\ (Recoverable(t)' <=> Recoverable(t)) /\ Has(file', t) = Has(file, t)
BY DEF journalVars, JournalFor, Safe, Recoverable, Has

(* The orders under way and executed grow in number with Admit only. *)
LEMMA LiveFinite == IsFiniteSet(Live)
<1>1. Live \in SUBSET Signals
  BY DEF Live
<1>. QED
  BY <1>1, FS_Subset, JournalAssumption

LEMMA BoundStays ==
  ASSUME Bounded, faults' = faults, Live' \subseteq Live
  PROVE  Bounded'
<1>1. Cardinality(Live') <= Cardinality(Live) /\ IsFiniteSet(Live')
  BY LiveFinite, FS_Subset
<1>2. Cardinality(Live') \in Nat /\ Cardinality(Live) \in Nat
  BY <1>1, LiveFinite, FS_CardinalityType
<1>. QED
  BY <1>1, <1>2, FastSubmitAssumption, SparedStays DEF Bounded

(* A step about one signal while the process runs *)
LEMMA SignalMoves ==
  ASSUME Inv, NEW s \in Signals, TypeOK', Basic', faults' = faults, process' = process, hot \subseteq hot',
         \A t \in Signals : t # s => SameFor(t) /\ JournalFor(t),
         \A t \in Signals : t # s /\ call[t].pc # "idle" /\ Spared({"overlap"}) => sweep' = sweep,
         Sound(s)', Bounded'
  PROVE  Inv'
<1>1. ASSUME NEW t \in Signals, t # s PROVE Sound(t)'
  BY <1>1, OthersStay DEF Inv
<1>. QED
  BY <1>1 DEF Inv

(* A step that leaves the journal, the sweep and the hot state alone *)
LEMMA BasicStays ==
  ASSUME Inv, UNCHANGED journalVars, process' = process, sweep' = sweep, process # "down"
  PROVE  Basic'
BY DEF Inv, Basic, journalVars, IndexAgrees

-----------------------------------------------------------------------------
(* execute_fast_signal, where it leaves the journal alone *)
LEMMA CallMoves ==
  ASSUME Inv, NEW s \in Signals, UNCHANGED <<journalVars, process, sweep, deaths, hot>>, process # "down",
         call' \in [Signals -> CallType], cursor' \in [Signals -> {"new", "buffered", "flushed"}],
         order' \in [Signals -> {"none", "resting", "filled", "dead"}], fired' \in [Signals -> Nat],
         row' \in [Rows -> {"none", "placing", "linked", "executed", "failed"}],
         \A t \in Signals : t # s => SameFor(t),
         call[s].pc = "idle" => call'[s].pc = "idle",
         row'[OwnRow(s)] = "executed" => row[OwnRow(s)] = "executed" \/ call[s].pc # "idle",
         Settled(s)', Spared({"overlap"}) => Quiet(s)', Spared(Refires) => Sent(s)',
         Spared({"raise", "rest"} \cup Refires) => Held(s)', Spared({"overlap", "record"} \cup Refires) => Rooted(s)',
         Spared(Uncounted) => Counted(s)', Spared({"commit", "tear"}) => Followed(s)'
  PROVE  Inv'
<1>1. TypeOK'
  BY DEF Inv, TypeOK, journalVars, CallType, PCs, Tells
<1>2. Basic' /\ faults' = faults
  BY BasicStays DEF journalVars
<1>3. Sound(s)'
  BY <1>2, SparedStays DEF Sound
<1>4. Live' \subseteq Live
  <2>1. ASSUME NEW t \in Signals, call'[t].pc # "idle" \/ row'[OwnRow(t)] = "executed"
        PROVE  call[t].pc # "idle" \/ row[OwnRow(t)] = "executed"
    <3>1. CASE t = s
      BY <2>1, <3>1
    <3>2. CASE t # s
      BY <2>1, <3>2 DEF SameFor
    <3>. QED
      BY <3>1, <3>2
  <2>. QED
    BY <2>1 DEF Live
<1>5. Bounded'
  BY <1>2, <1>4, BoundStays DEF Inv
<1>. QED
  BY <1>1, <1>2, <1>3, <1>5, JournalStays, SignalMoves

(* What is as before in such a step *)
Known(s) ==
    /\ Sound(s) /\ call \in [Signals -> CallType] /\ cursor \in [Signals -> {"new", "buffered", "flushed"}]
    /\ order \in [Signals -> {"none", "resting", "filled", "dead"}] /\ fired \in [Signals -> Nat]
    /\ row \in [Rows -> {"none", "placing", "linked", "executed", "failed"}]
    /\ (Safe(s)' <=> Safe(s)) /\ (Recoverable(s)' <=> Recoverable(s)) /\ (Has(file', s) <=> Has(file, s))
    /\ index' = index /\ faults' = faults

LEMMA Before ==
  ASSUME Inv, NEW s \in Signals, UNCHANGED journalVars
  PROVE  Known(s)
BY CallTyped, JournalStays DEF Known, Inv, TypeOK, journalVars

(* Steps that a signal's part of the invariant does not mention *)
LEMMA CursorMoves ==
  ASSUME Inv, NEW s \in Signals, UNCHANGED <<journalVars, process, call, order, fired, row, hot, sweep, deaths>>,
         process # "down", cursor' \in [Signals -> {"new", "buffered", "flushed"}]
  PROVE  Inv'
<1>1. \A t \in Signals : SameFor(t) /\ JournalFor(t)
  BY JournalStays DEF SameFor
<1>2. Sound(s)'
  BY <1>1, OthersStay DEF Inv, journalVars
<1>3. TypeOK' /\ Basic' /\ faults' = faults
  BY BasicStays DEF Inv, TypeOK, journalVars
<1>4. Live' = Live
  BY DEF Live
<1>5. Bounded'
  BY <1>3, <1>4, BoundStays DEF Inv
<1>. QED
  BY <1>1, <1>2, <1>3, <1>5, SignalMoves

LEMMA CursorTyped ==
  ASSUME TypeOK, NEW s \in Signals
  PROVE  Consume(s) \/ cursor' = cursor => cursor' \in [Signals -> {"new", "buffered", "flushed"}]
BY DEF TypeOK, Consume

LEMMA RefuseKeeps ==
  ASSUME Inv, NEW s \in Signals, Refuse(s) \/ FlushCursor(s)
  PROVE  Inv'
<1>1. cursor' \in [Signals -> {"new", "buffered", "flushed"}] /\ process # "down"
  BY CursorTyped DEF Inv, TypeOK, Refuse, FlushCursor, Presented
<1>. QED
  BY <1>1, CursorMoves DEF Refuse, FlushCursor

LEMMA TransmitKeeps ==
  ASSUME Inv, NEW s \in Signals, Transmit(s)
  PROVE  Inv'
<1>1. /\ UNCHANGED <<journalVars, process, sweep, deaths, hot>> /\ process # "down" /\ TypeOK
      /\ call[s].pc = "wire" /\ Step(s, "sent") /\ cursor' = cursor /\ row' = row
      /\ fired' = [fired EXCEPT ![s] = @ + 1]
      /\ \E o \in {"filled", "dead"} \cup ({"rest"} \cap faults) :
            order' = [order EXCEPT ![s] = IF o = "rest" THEN "resting" ELSE o]
  BY DEF Transmit, Inv
<1>2. Known(s)
  BY <1>1, Before
<1>3. /\ call' \in [Signals -> CallType] /\ call'[s].pc = "sent"
      /\ \A t \in Signals : t # s => call'[t] = call[t]
  <2>1. "sent" \in PCs
    BY DEF PCs
  <2>. QED
    BY <1>1, <2>1, StepFacts
<1>4. /\ cursor' \in [Signals -> {"new", "buffered", "flushed"}] /\ fired' \in [Signals -> Nat]
      /\ order' \in [Signals -> {"none", "resting", "filled", "dead"}]
      /\ row' \in [Rows -> {"none", "placing", "linked", "executed", "failed"}]
      /\ fired'[s] = fired[s] + 1 /\ row'[OwnRow(s)] = row[OwnRow(s)] /\ order'[s] # "none"
      /\ "rest" \notin faults => order'[s] # "resting"
      /\ row'[RecoveryRow(s)] = row[RecoveryRow(s)]
      /\ \A t \in Signals : t # s => /\ order'[t] = order[t] /\ fired'[t] = fired[t]
                                     /\ row'[OwnRow(t)] = row[OwnRow(t)] /\ row'[RecoveryRow(t)] = row[RecoveryRow(t)]
  BY <1>1, <1>2, CursorTyped, RowFacts DEF Known
<1>5. \A t \in Signals : t # s => SameFor(t)
  BY <1>1, <1>3, <1>4 DEF SameFor
<1>6. Settled(s)'
  BY <1>1, <1>2, <1>3, <1>4 DEF Known, Sound, Settled, CallType, Tells
<1>7. Spared({"overlap"}) => Quiet(s)'
  BY <1>1, <1>2, <1>3, <1>4 DEF Known, Sound, Quiet
<1>8. Spared(Refires) => Sent(s)'
  BY <1>1, <1>2, <1>3, <1>4 DEF Known, Sound, Sent, Settled
<1>9. Spared({"raise", "rest"} \cup Refires) => Held(s)'
  <2>1. Spared({"raise", "rest"} \cup Refires) => Spared(Refires) /\ "rest" \notin faults /\ "raise" \notin faults
    BY DEF Spared
  <2>. QED
    BY <1>1, <1>2, <1>3, <1>4, <2>1 DEF Known, Sound, Held, Sent
<1>10. Spared({"overlap", "record"} \cup Refires) => Rooted(s)'
  <2>1. Spared({"overlap", "record"} \cup Refires) => Spared(Refires)
    BY DEF Spared
  <2>. QED
    BY <1>1, <1>2, <1>3, <1>4, <2>1 DEF Known, Sound, Rooted, HasRow, Sent
<1>11. Spared(Uncounted) => Counted(s)'
  BY <1>1, <1>2, <1>3, <1>4 DEF Known, Sound, Counted
<1>12. Spared({"commit", "tear"}) => Followed(s)'
  BY <1>1, <1>2, <1>3, <1>4 DEF Known, Sound, Followed, Kept, HasRow
<1>. QED
  BY <1>1, <1>3, <1>4, <1>5, <1>6, <1>7, <1>8, <1>9, <1>10, <1>11, <1>12, CallMoves

LEMMA WireFailsKeeps ==
  ASSUME Inv, NEW s \in Signals, WireFails(s)
  PROVE  Inv'
<1>1. /\ UNCHANGED <<journalVars, process, sweep, deaths, hot>> /\ process # "down" /\ TypeOK
      /\ call[s].pc \in {"wire", "sent"} /\ Return(s) /\ (Consume(s) \/ cursor' = cursor)
      /\ UNCHANGED <<order, fired, row>>
  BY DEF WireFails, Inv
<1>2. Known(s)
  BY <1>1, Before
<1>3. /\ call' \in [Signals -> CallType] /\ call'[s].pc = "idle"
      /\ \A t \in Signals : t # s => call'[t] = call[t]
  BY <1>1, ReturnFacts
<1>4. /\ cursor' \in [Signals -> {"new", "buffered", "flushed"}] /\ fired' \in [Signals -> Nat]
      /\ order' \in [Signals -> {"none", "resting", "filled", "dead"}]
      /\ row' \in [Rows -> {"none", "placing", "linked", "executed", "failed"}]
      /\ order'[s] = order[s] /\ fired'[s] = fired[s] /\ row'[OwnRow(s)] = row[OwnRow(s)]
      /\ row'[RecoveryRow(s)] = row[RecoveryRow(s)]
      /\ \A t \in Signals : t # s => /\ order'[t] = order[t] /\ fired'[t] = fired[t]
                                     /\ row'[OwnRow(t)] = row[OwnRow(t)] /\ row'[RecoveryRow(t)] = row[RecoveryRow(t)]
  BY <1>1, <1>2, CursorTyped, RowFacts DEF Known
<1>5. \A t \in Signals : t # s => SameFor(t)
  BY <1>1, <1>3, <1>4 DEF SameFor
<1>6. Settled(s)'
  BY <1>1, <1>2, <1>3, <1>4 DEF Known, Sound, Settled, CallType, Tells
<1>7. Spared({"overlap"}) => Quiet(s)'
  BY <1>1, <1>2, <1>3, <1>4 DEF Known, Sound, Quiet
<1>8. Spared(Refires) => Sent(s)'
  BY <1>1, <1>2, <1>3, <1>4 DEF Known, Sound, Sent, Settled
<1>9. Spared({"raise", "rest"} \cup Refires) => Held(s)'
  <2>1. Spared({"raise", "rest"} \cup Refires) => Spared(Refires) /\ "rest" \notin faults /\ "raise" \notin faults
    BY DEF Spared
  <2>. QED
    BY <1>1, <1>2, <1>3, <1>4, <2>1 DEF Known, Sound, Held, Sent
<1>10. Spared({"overlap", "record"} \cup Refires) => Rooted(s)'
  <2>1. Spared({"overlap", "record"} \cup Refires) => Spared(Refires)
    BY DEF Spared
  <2>. QED
    BY <1>1, <1>2, <1>3, <1>4, <2>1 DEF Known, Sound, Rooted, HasRow, Sent
<1>11. Spared(Uncounted) => Counted(s)'
  BY <1>1, <1>2, <1>3, <1>4 DEF Known, Sound, Counted
<1>12. Spared({"commit", "tear"}) => Followed(s)'
  BY <1>1, <1>2, <1>3, <1>4 DEF Known, Sound, Followed, Kept, HasRow
<1>. QED
  BY <1>1, <1>3, <1>4, <1>5, <1>6, <1>7, <1>8, <1>9, <1>10, <1>11, <1>12, CallMoves

LEMMA ReplyKeeps ==
  ASSUME Inv, NEW s \in Signals, Reply(s)
  PROVE  Inv'
<1>1. /\ UNCHANGED <<journalVars, process, sweep, deaths, hot>> /\ process # "down" /\ TypeOK
      /\ call[s].pc = "sent" /\ UNCHANGED <<cursor, order, fired, row>>
      /\ \E t \in {Told(order[s])} \cup (IF "raise" \in faults THEN {"failed"} ELSE {}) :
            call' = [call EXCEPT ![s] = [pc |-> "persist", told |-> t]]
  BY DEF Reply, Inv
<1>2. Known(s)
  BY <1>1, Before
<1>3. /\ call' \in [Signals -> CallType] /\ call'[s].pc = "persist" /\ call'[s].told \in {"executed", "failed"}
      /\ (call'[s].told = "executed" => order[s] = "filled")
      /\ ("raise" \notin faults => call'[s].told = Told(order[s]))
      /\ \A t \in Signals : t # s => call'[t] = call[t]
  <2>1. PICK t \in {"executed", "failed"} :
           /\ call' = [call EXCEPT ![s] = [pc |-> "persist", told |-> t]]
           /\ t = "executed" => order[s] = "filled"
           /\ "raise" \notin faults => t = Told(order[s])
    BY <1>1 DEF Told
  <2>2. [pc |-> "persist", told |-> t] \in CallType
    BY DEF CallType, PCs, Tells
  <2>. QED
    BY <1>2, <2>1, <2>2 DEF Known
<1>4. /\ cursor' \in [Signals -> {"new", "buffered", "flushed"}] /\ fired' \in [Signals -> Nat]
      /\ order' \in [Signals -> {"none", "resting", "filled", "dead"}]
      /\ row' \in [Rows -> {"none", "placing", "linked", "executed", "failed"}]
      /\ order'[s] = order[s] /\ fired'[s] = fired[s] /\ row'[OwnRow(s)] = row[OwnRow(s)]
      /\ row'[RecoveryRow(s)] = row[RecoveryRow(s)]
      /\ \A t \in Signals : t # s => /\ order'[t] = order[t] /\ fired'[t] = fired[t]
                                     /\ row'[OwnRow(t)] = row[OwnRow(t)] /\ row'[RecoveryRow(t)] = row[RecoveryRow(t)]
  BY <1>1, <1>2, CursorTyped, RowFacts DEF Known
<1>5. \A t \in Signals : t # s => SameFor(t)
  BY <1>1, <1>3, <1>4 DEF SameFor
<1>6. Settled(s)'
  BY <1>1, <1>2, <1>3, <1>4 DEF Known, Sound, Settled, CallType, Tells
<1>7. Spared({"overlap"}) => Quiet(s)'
  BY <1>1, <1>2, <1>3, <1>4 DEF Known, Sound, Quiet
<1>8. Spared(Refires) => Sent(s)'
  BY <1>1, <1>2, <1>3, <1>4 DEF Known, Sound, Sent, Settled
<1>9. Spared({"raise", "rest"} \cup Refires) => Held(s)'
  <2>1. Spared({"raise", "rest"} \cup Refires) => Spared(Refires) /\ "rest" \notin faults /\ "raise" \notin faults
    BY DEF Spared
  <2>. QED
    BY <1>1, <1>2, <1>3, <1>4, <2>1 DEF Known, Sound, Held, Sent, Told
<1>10. Spared({"overlap", "record"} \cup Refires) => Rooted(s)'
  <2>1. Spared({"overlap", "record"} \cup Refires) => Spared(Refires)
    BY DEF Spared
  <2>. QED
    BY <1>1, <1>2, <1>3, <1>4, <2>1 DEF Known, Sound, Rooted, HasRow, Sent
<1>11. Spared(Uncounted) => Counted(s)'
  BY <1>1, <1>2, <1>3, <1>4 DEF Known, Sound, Counted
<1>12. Spared({"commit", "tear"}) => Followed(s)'
  BY <1>1, <1>2, <1>3, <1>4 DEF Known, Sound, Followed, Kept, HasRow
<1>. QED
  BY <1>1, <1>3, <1>4, <1>5, <1>6, <1>7, <1>8, <1>9, <1>10, <1>11, <1>12, CallMoves

LEMMA PersistKeeps ==
  ASSUME Inv, NEW s \in Signals, Persist(s)
  PROVE  Inv'
<1>1. /\ UNCHANGED <<journalVars, process, sweep, deaths, hot>> /\ process # "down" /\ TypeOK
      /\ call[s].pc = "persist" /\ Step(s, "committed") /\ UNCHANGED <<cursor, order, fired>>
      /\ row' = [row EXCEPT ![OwnRow(s)] = call[s].told] /\ call[s].told \in {"executed", "failed"}
  BY DEF Persist, WriteRow, Sound, Settled, TypeOK, Inv
<1>2. Known(s)
  BY <1>1, Before
<1>3. /\ call' \in [Signals -> CallType] /\ call'[s].pc = "committed" /\ call'[s].told = call[s].told
      /\ \A t \in Signals : t # s => call'[t] = call[t]
  <2>1. "committed" \in PCs
    BY DEF PCs
  <2>. QED
    BY <1>1, <2>1, StepFacts
<1>4. /\ cursor' \in [Signals -> {"new", "buffered", "flushed"}] /\ fired' \in [Signals -> Nat]
      /\ order' \in [Signals -> {"none", "resting", "filled", "dead"}]
      /\ row' \in [Rows -> {"none", "placing", "linked", "executed", "failed"}]
      /\ order'[s] = order[s] /\ fired'[s] = fired[s] /\ row'[OwnRow(s)] = call[s].told
      /\ row'[RecoveryRow(s)] = row[RecoveryRow(s)]
      /\ \A t \in Signals : t # s => /\ order'[t] = order[t] /\ fired'[t] = fired[t]
                                     /\ row'[OwnRow(t)] = row[OwnRow(t)] /\ row'[RecoveryRow(t)] = row[RecoveryRow(t)]
  BY <1>1, <1>2, CursorTyped, RowFacts DEF Known
<1>5. \A t \in Signals : t # s => SameFor(t)
  BY <1>1, <1>3, <1>4 DEF SameFor
<1>6. Settled(s)'
  BY <1>1, <1>2, <1>3, <1>4 DEF Known, Sound, Settled, CallType, Tells
<1>7. Spared({"overlap"}) => Quiet(s)'
  BY <1>1, <1>2, <1>3, <1>4 DEF Known, Sound, Quiet
<1>8. Spared(Refires) => Sent(s)'
  BY <1>1, <1>2, <1>3, <1>4 DEF Known, Sound, Sent, Settled
<1>9. Spared({"raise", "rest"} \cup Refires) => Held(s)'
  <2>1. Spared({"raise", "rest"} \cup Refires) => Spared(Refires) /\ "rest" \notin faults /\ "raise" \notin faults
    BY DEF Spared
  <2>. QED
    BY <1>1, <1>2, <1>3, <1>4, <2>1 DEF Known, Sound, Held, Sent
<1>10. Spared({"overlap", "record"} \cup Refires) => Rooted(s)'
  <2>1. Spared({"overlap", "record"} \cup Refires) => Spared(Refires)
    BY DEF Spared
  <2>. QED
    BY <1>1, <1>2, <1>3, <1>4, <2>1 DEF Known, Sound, Rooted, HasRow, Sent
<1>11. Spared(Uncounted) => Counted(s)'
  BY <1>1, <1>2, <1>3, <1>4 DEF Known, Sound, Counted
<1>12. Spared({"commit", "tear"}) => Followed(s)'
  BY <1>1, <1>2, <1>3, <1>4 DEF Known, Sound, Followed, Kept, HasRow
<1>. QED
  BY <1>1, <1>3, <1>4, <1>5, <1>6, <1>7, <1>8, <1>9, <1>10, <1>11, <1>12, CallMoves

LEMMA PersistUndoneKeeps ==
  ASSUME Inv, NEW s \in Signals, PersistFails(s), UNCHANGED row
  PROVE  Inv'
<1>1. /\ UNCHANGED <<journalVars, process, sweep, deaths, hot>> /\ process # "down" /\ TypeOK
      /\ call[s].pc = "persist" /\ Return(s) /\ Consume(s) /\ UNCHANGED <<order, fired, row>>
  BY DEF PersistFails, Inv
<1>2. Known(s)
  BY <1>1, Before
<1>3. /\ call' \in [Signals -> CallType] /\ call'[s].pc = "idle"
      /\ \A t \in Signals : t # s => call'[t] = call[t]
  BY <1>1, ReturnFacts
<1>4. /\ cursor' \in [Signals -> {"new", "buffered", "flushed"}] /\ fired' \in [Signals -> Nat]
      /\ order' \in [Signals -> {"none", "resting", "filled", "dead"}]
      /\ row' \in [Rows -> {"none", "placing", "linked", "executed", "failed"}]
      /\ order'[s] = order[s] /\ fired'[s] = fired[s] /\ row'[OwnRow(s)] = row[OwnRow(s)]
      /\ row'[RecoveryRow(s)] = row[RecoveryRow(s)]
      /\ \A t \in Signals : t # s => /\ order'[t] = order[t] /\ fired'[t] = fired[t]
                                     /\ row'[OwnRow(t)] = row[OwnRow(t)] /\ row'[RecoveryRow(t)] = row[RecoveryRow(t)]
  BY <1>1, <1>2, CursorTyped, RowFacts DEF Known
<1>5. \A t \in Signals : t # s => SameFor(t)
  BY <1>1, <1>3, <1>4 DEF SameFor
<1>6. Settled(s)'
  BY <1>1, <1>2, <1>3, <1>4 DEF Known, Sound, Settled, CallType, Tells
<1>7. Spared({"overlap"}) => Quiet(s)'
  BY <1>1, <1>2, <1>3, <1>4 DEF Known, Sound, Quiet
<1>8. Spared(Refires) => Sent(s)'
  BY <1>1, <1>2, <1>3, <1>4 DEF Known, Sound, Sent, Settled
<1>9. Spared({"raise", "rest"} \cup Refires) => Held(s)'
  <2>1. Spared({"raise", "rest"} \cup Refires) => Spared(Refires) /\ "rest" \notin faults /\ "raise" \notin faults
    BY DEF Spared
  <2>. QED
    BY <1>1, <1>2, <1>3, <1>4, <2>1 DEF Known, Sound, Held, Sent
<1>10. Spared({"overlap", "record"} \cup Refires) => Rooted(s)'
  <2>1. Spared({"overlap", "record"} \cup Refires) => Spared(Refires)
    BY DEF Spared
  <2>. QED
    BY <1>1, <1>2, <1>3, <1>4, <2>1 DEF Known, Sound, Rooted, HasRow, Sent
<1>11. Spared(Uncounted) => Counted(s)'
  BY <1>1, <1>2, <1>3, <1>4 DEF Known, Sound, Counted
<1>12. Spared({"commit", "tear"}) => Followed(s)'
  BY <1>1, <1>2, <1>3, <1>4 DEF Known, Sound, Followed, Kept, HasRow
<1>. QED
  BY <1>1, <1>3, <1>4, <1>5, <1>6, <1>7, <1>8, <1>9, <1>10, <1>11, <1>12, CallMoves

(* The commit is made and its call does not learn of it. *)
LEMMA PersistUnknownKeeps ==
  ASSUME Inv, NEW s \in Signals, process = "running", call[s].pc = "persist", WriteRow(s), Return(s),
         Consume(s) \/ UNCHANGED cursor, "cancel" \in faults \/ "unsure" \in faults,
         UNCHANGED <<journalVars, process, order, fired, hot, sweep, deaths>>
  PROVE  Inv'
<1>1. /\ UNCHANGED <<journalVars, process, sweep, deaths, hot>> /\ process # "down" /\ TypeOK
      /\ call[s].pc = "persist" /\ Return(s) /\ UNCHANGED <<order, fired>>
      /\ Consume(s) \/ cursor' = cursor
      /\ ~Spared(Uncounted)
      /\ row' = [row EXCEPT ![OwnRow(s)] = call[s].told] /\ call[s].told \in {"executed", "failed"}
  BY DEF WriteRow, Spared, Uncounted, Sound, Settled, TypeOK, Inv
<1>2. Known(s)
  BY <1>1, Before
<1>3. /\ call' \in [Signals -> CallType] /\ call'[s].pc = "idle"
      /\ \A t \in Signals : t # s => call'[t] = call[t]
  BY <1>1, ReturnFacts
<1>4. /\ cursor' \in [Signals -> {"new", "buffered", "flushed"}] /\ fired' \in [Signals -> Nat]
      /\ order' \in [Signals -> {"none", "resting", "filled", "dead"}]
      /\ row' \in [Rows -> {"none", "placing", "linked", "executed", "failed"}]
      /\ order'[s] = order[s] /\ fired'[s] = fired[s] /\ row'[OwnRow(s)] = call[s].told
      /\ row'[RecoveryRow(s)] = row[RecoveryRow(s)]
      /\ \A t \in Signals : t # s => /\ order'[t] = order[t] /\ fired'[t] = fired[t]
                                     /\ row'[OwnRow(t)] = row[OwnRow(t)] /\ row'[RecoveryRow(t)] = row[RecoveryRow(t)]
  BY <1>1, <1>2, CursorTyped, RowFacts DEF Known
<1>5. \A t \in Signals : t # s => SameFor(t)
  BY <1>1, <1>3, <1>4 DEF SameFor
<1>6. Settled(s)'
  BY <1>1, <1>2, <1>3, <1>4 DEF Known, Sound, Settled, CallType, Tells
<1>7. Spared({"overlap"}) => Quiet(s)'
  BY <1>1, <1>2, <1>3, <1>4 DEF Known, Sound, Quiet
<1>8. Spared(Refires) => Sent(s)'
  BY <1>1, <1>2, <1>3, <1>4 DEF Known, Sound, Sent, Settled
<1>9. Spared({"raise", "rest"} \cup Refires) => Held(s)'
  <2>1. Spared({"raise", "rest"} \cup Refires) => Spared(Refires) /\ "rest" \notin faults /\ "raise" \notin faults
    BY DEF Spared
  <2>. QED
    BY <1>1, <1>2, <1>3, <1>4, <2>1 DEF Known, Sound, Held, Sent
<1>10. Spared({"overlap", "record"} \cup Refires) => Rooted(s)'
  <2>1. Spared({"overlap", "record"} \cup Refires) => Spared(Refires)
    BY DEF Spared
  <2>. QED
    BY <1>1, <1>2, <1>3, <1>4, <2>1 DEF Known, Sound, Rooted, HasRow, Sent
<1>11. Spared(Uncounted) => Counted(s)'
  BY <1>1, <1>2, <1>3, <1>4 DEF Known, Sound, Counted
<1>12. Spared({"commit", "tear"}) => Followed(s)'
  BY <1>1, <1>2, <1>3, <1>4 DEF Known, Sound, Followed, Kept, HasRow
<1>. QED
  BY <1>1, <1>3, <1>4, <1>5, <1>6, <1>7, <1>8, <1>9, <1>10, <1>11, <1>12, CallMoves

LEMMA PersistFailsKeeps ==
  ASSUME Inv, NEW s \in Signals, PersistFails(s)
  PROVE  Inv'
BY PersistUndoneKeeps, PersistUnknownKeeps DEF PersistFails

LEMMA PersistCancelledKeeps ==
  ASSUME Inv, NEW s \in Signals, PersistCancelled(s)
  PROVE  Inv'
BY PersistUnknownKeeps DEF PersistCancelled

LEMMA VenueMovesKeeps ==
  ASSUME Inv, NEW s \in Signals, VenueMoves(s)
  PROVE  Inv'
<1>1. /\ UNCHANGED <<journalVars, process, call, cursor, fired, row, hot, sweep, deaths>> /\ order[s] = "resting"
      /\ \E o \in {"filled", "dead"} : order' = [order EXCEPT ![s] = o]
  BY DEF VenueMoves
<1>2. Known(s)
  BY <1>1, Before
<1>3. /\ order' \in [Signals -> {"none", "resting", "filled", "dead"}] /\ order'[s] \in {"filled", "dead"}
      /\ \A t \in Signals : t # s => order'[t] = order[t]
  BY <1>1, <1>2 DEF Known
<1>4. TypeOK' /\ Basic' /\ faults' = faults
  BY <1>1, <1>3 DEF Inv, TypeOK, Basic, journalVars, IndexAgrees
<1>5. \A t \in Signals : t # s => SameFor(t) /\ JournalFor(t)
  BY <1>1, <1>3, JournalStays DEF SameFor
<1>6. Sound(s)'
  <2>1. Settled(s)' /\ (Spared({"overlap"}) => Quiet(s)') /\ (Spared(Uncounted) => Counted(s)')
    BY <1>1, <1>2 DEF Known, Sound, Settled, Quiet, Counted
  <2>2. (Spared(Refires) => Sent(s)') /\ (Spared({"raise", "rest"} \cup Refires) => Held(s)')
    BY <1>1, <1>2 DEF Known, Sound, Sent, Held
  <2>3. (Spared({"overlap", "record"} \cup Refires) => Rooted(s)') /\ (Spared({"commit", "tear"}) => Followed(s)')
    BY <1>1, <1>2 DEF Known, Sound, Rooted, Followed, Kept, HasRow
  <2>. QED
    BY <1>4, <2>1, <2>2, <2>3, SparedStays DEF Sound
<1>7. Bounded'
  <2>1. Live' = Live
    BY <1>1 DEF Live
  <2>. QED
    BY <1>4, <2>1, BoundStays DEF Inv
<1>. QED
  BY <1>1, <1>4, <1>5, <1>6, <1>7, SignalMoves

-----------------------------------------------------------------------------
(* execute_fast_signal and the sweep, where they write to the journal *)
LEMMA JournalMoves ==
  ASSUME Inv, NEW s \in Signals, NEW r \in Records, r.signal = s, NEW sync \in BOOLEAN, AppendRecord(r, sync),
         process # "down", process' = process, sweep'.pc # "recover" => sweep'.pending = {} /\ sweep'.todo = {}
  PROVE  /\ Basic' /\ faults' = faults /\ \A t \in Signals : t # s => JournalFor(t)
         /\ file' \in Seq(Records) /\ synced' \in 0..Len(file') /\ torn' \in BOOLEAN /\ index' \in [Signals -> Marks]
         /\ \A k \in DOMAIN file' : file'[k] \in Records
<1>1. TypeOK /\ Basic
  BY DEF Inv
<1>2. /\ file' \in Seq(Records) /\ synced' \in 0..Len(file') /\ torn' = FALSE /\ faults' = faults
      /\ index' \in [Signals -> Marks] /\ \A t \in Signals : t # s => index'[t] = index[t]
  BY <1>1, AppendTyped
<1>3. "tear" \notin faults => IndexAgrees' /\ \A t \in Signals : t # s /\ Recoverable(t) => Recoverable(t)'
  BY <1>1, AppendTold
<1>4. Spared(Refires) => \A t \in Signals : (Safe(t) => Safe(t)') /\ (t # s => (Has(file', t) <=> Has(file, t)))
  BY <1>1, AppendGrows
<1>5. Basic'
  BY <1>2, <1>3 DEF Basic
<1>6. \A t \in Signals : t # s => JournalFor(t)
  BY <1>2, <1>3, <1>4 DEF JournalFor
<1>7. torn' \in BOOLEAN
  BY <1>2
<1>8. \A k \in DOMAIN file' : file'[k] \in Records
  BY <1>2
<1>. QED
  BY <1>2, <1>5, <1>6, <1>7, <1>8

LEMMA ResultMoves ==
  ASSUME Inv, NEW s \in Signals, RecordResult(s), process # "down", process' = process,
         sweep'.pc # "recover" => sweep'.pending = {} /\ sweep'.todo = {}
  PROVE  /\ Basic' /\ faults' = faults /\ \A t \in Signals : t # s => JournalFor(t)
         /\ file' \in Seq(Records) /\ synced' \in 0..Len(file') /\ torn' \in BOOLEAN /\ index' \in [Signals -> Marks]
         /\ \A k \in DOMAIN file' : file'[k] \in Records
         /\ Spared(Refires) => (Safe(s) => Safe(s)') /\ Has(file', s)
<1>1. Result(s) \in Records /\ Result(s).signal = s /\ AppendRecord(Result(s), FALSE)
  BY RecordFacts DEF RecordResult
<1>2. Spared(Refires) => (Safe(s) => Safe(s)') /\ Has(file', s)
  BY <1>1, AppendGrows DEF Inv
<1>. QED
  BY <1>1, <1>2, JournalMoves

(* A call that ends with a result: its row is there, or it was never sent. *)
LEMMA ResultKeeps ==
  ASSUME Inv, NEW s \in Signals, GateRejects(s) \/ Close(s)
  PROVE  Inv'
<1>1. /\ UNCHANGED <<process, order, fired, row, sweep, deaths>> /\ process # "down" /\ call[s].pc \in {"wire", "committed"}
      /\ RecordResult(s) /\ Return(s) /\ Consume(s) /\ TypeOK /\ Sound(s)
      /\ sweep.pc # "recover" => sweep.pending = {} /\ sweep.todo = {}
  BY DEF GateRejects, Close, Inv, Basic
<1>2. /\ Basic' /\ faults' = faults /\ \A t \in Signals : t # s => JournalFor(t)
      /\ file' \in Seq(Records) /\ synced' \in 0..Len(file') /\ torn' \in BOOLEAN /\ index' \in [Signals -> Marks]
      /\ \A k \in DOMAIN file' : file'[k] \in Records
      /\ Spared(Refires) => (Safe(s) => Safe(s)') /\ Has(file', s)
  BY <1>1, ResultMoves
<1>3. /\ call' \in [Signals -> CallType] /\ call'[s].pc = "idle" /\ \A t \in Signals : t # s => call'[t] = call[t]
  BY <1>1, ReturnFacts
<1>4. hot \subseteq hot' /\ hot' \subseteq Rows /\ (call[s].pc = "committed" /\ call[s].told = "executed" => OwnRow(s) \in hot')
  BY <1>1, RowFacts DEF GateRejects, Close, TypeOK
<1>5. TypeOK'
  BY <1>1, <1>2, <1>3, <1>4, CursorTyped DEF TypeOK, CallType, PCs, Tells
<1>6. \A t \in Signals : t # s => SameFor(t)
  BY <1>1, <1>3 DEF SameFor
<1>7. Sound(s)'
  <2>1. Settled(s)' /\ (Spared({"overlap"}) => Quiet(s)')
    BY <1>1, <1>3 DEF Sound, Settled, Quiet
  <2>2. Spared(Refires) => Sent(s)' /\ Safe(s)'
    BY <1>1, <1>2, <1>3 DEF Sound, Sent
  <2>3. Spared({"raise", "rest"} \cup Refires) => Held(s)'
    BY <1>1, <1>3 DEF Sound, Held
  <2>4. Spared({"overlap", "record"} \cup Refires) => Rooted(s)'
    <3>1. Spared({"overlap", "record"} \cup Refires) => Spared(Refires)
      BY DEF Spared
    <3>. QED
      BY <1>1, <1>2, <1>3, <2>2, <3>1 DEF Sound, Rooted, HasRow
  <2>5. Spared(Uncounted) => Counted(s)'
    BY <1>1, <1>3, <1>4 DEF Sound, Counted
  <2>6. Spared({"commit", "tear"}) => Followed(s)'
    BY <1>1, <1>3 DEF Sound, Settled, Followed, Kept, HasRow
  <2>. QED
    BY <1>2, <2>1, <2>2, <2>3, <2>4, <2>5, <2>6, SparedStays DEF Sound
<1>8. Bounded'
  <2>1. Live' \subseteq Live
    BY <1>1, <1>3 DEF Live
  <2>. QED
    BY <1>2, <2>1, BoundStays DEF Inv
<1>. QED
  BY <1>1, <1>2, <1>4, <1>5, <1>6, <1>7, <1>8, SignalMoves

(* recover_open_intents *)
LEMMA RecoverKeeps ==
  ASSUME Inv, NEW s \in Signals, Recover(s)
  PROVE  Inv'
<1>1. /\ UNCHANGED <<process, call, cursor, order, fired, row, hot, deaths>> /\ sweep.pc = "recover" /\ s \in sweep.todo
      /\ sweep' = [sweep EXCEPT !.todo = @ \ {s}, !.pending = IF HasRow(s) THEN @ ELSE @ \cup {s}]
      /\ RecordResult(s) /\ TypeOK /\ Sound(s) /\ sweep # NoSweep /\ process # "down"
  BY DEF Recover, Inv, Basic, NoSweep
<1>2. /\ sweep' \in [pc : {"idle", "recover", "commit", "reconcile"}, todo : SUBSET Signals, pending : SUBSET Signals]
      /\ sweep'.pc = "recover" /\ s \notin sweep'.todo /\ (s \in sweep'.pending <=> s \in sweep.pending \/ ~HasRow(s))
      /\ \A t \in Signals : t # s => (t \in sweep'.pending <=> t \in sweep.pending) /\ (t \in sweep'.todo <=> t \in sweep.todo)
  <2>1. sweep \in [pc : {"idle", "recover", "commit", "reconcile"}, todo : SUBSET Signals, pending : SUBSET Signals]
    BY <1>1 DEF TypeOK
  <2>2. /\ sweep'.pc = "recover" /\ sweep'.todo = sweep.todo \ {s}
        /\ sweep'.pending = IF HasRow(s) THEN sweep.pending ELSE sweep.pending \cup {s}
        /\ sweep' = [pc |-> sweep'.pc, todo |-> sweep'.todo, pending |-> sweep'.pending]
    BY <1>1, <2>1
  <2>. QED
    BY <1>1, <2>1, <2>2
<1>3. /\ Basic' /\ faults' = faults /\ \A t \in Signals : t # s => JournalFor(t)
      /\ file' \in Seq(Records) /\ synced' \in 0..Len(file') /\ torn' \in BOOLEAN /\ index' \in [Signals -> Marks]
      /\ \A k \in DOMAIN file' : file'[k] \in Records
      /\ Spared(Refires) => (Safe(s) => Safe(s)') /\ Has(file', s)
  BY <1>1, <1>2, ResultMoves
<1>4. TypeOK'
  BY <1>1, <1>2, <1>3 DEF TypeOK
<1>5. \A t \in Signals : t # s => SameFor(t)
  BY <1>1, <1>2 DEF SameFor
<1>6. \A t \in Signals : Spared({"overlap"}) => call[t].pc = "idle"
  BY <1>1 DEF Inv, Sound, Quiet
<1>7. Sound(s)'
  <2>1. Settled(s)' /\ (Spared({"overlap"}) => Quiet(s)') /\ (Spared(Uncounted) => Counted(s)')
    BY <1>1, <1>6 DEF Sound, Settled, Quiet, Counted
  <2>2. (Spared(Refires) => Sent(s)') /\ (Spared({"raise", "rest"} \cup Refires) => Held(s)')
    BY <1>1, <1>3 DEF Sound, Sent, Held
  <2>3. Spared({"overlap", "record"} \cup Refires) => Rooted(s)'
    <3>1. Spared({"overlap", "record"} \cup Refires) => Spared(Refires) /\ Spared({"overlap"})
      BY DEF Spared
    <3>. QED
      BY <1>1, <1>2, <1>3, <1>6, <3>1 DEF Sound, Rooted, HasRow
  <2>4. Spared({"commit", "tear"}) => Followed(s)'
    BY <1>1, <1>2 DEF Followed, Kept, HasRow
  <2>. QED
    BY <1>3, <2>1, <2>2, <2>3, <2>4, SparedStays DEF Sound
<1>8. Bounded'
  <2>1. Live' = Live
    BY <1>1 DEF Live
  <2>. QED
    BY <1>3, <2>1, BoundStays DEF Inv
<1>. QED
  BY <1>1, <1>3, <1>4, <1>5, <1>6, <1>7, <1>8, SignalMoves

-----------------------------------------------------------------------------
(* Admission *)
LEMMA LiveIsCounted ==
  ASSUME TypeOK, \A s \in Signals : Quiet(s) /\ Counted(s), process # "down"
  PROVE  Cardinality(Live) <= OpenCount /\ OpenCount \in Nat
<1>. DEFINE H == {s \in Signals : OwnRow(s) \in hot}
            O == OpenIn(index)
            g == [s \in H |-> OwnRow(s)]
<1>1. IsFiniteSet(H) /\ IsFiniteSet(O) /\ IsFiniteSet(Signals)
  BY FS_Subset, JournalAssumption DEF OpenIn
<1>2. IsFiniteSet(hot)
  <2>1. IsFiniteSet({"own"} \cup {"recovery"})
    BY FS_Singleton, FS_Union
  <2>2. IsFiniteSet(Signals \X ({"own"} \cup {"recovery"}))
    BY <1>1, <2>1, FS_Product
  <2>3. Rows = Signals \X ({"own"} \cup {"recovery"})
    BY DEF Rows
  <2>4. hot \in SUBSET Rows
    BY DEF TypeOK
  <2>. QED
    BY <2>2, <2>3, <2>4, FS_Subset
<1>3. Cardinality(H) <= Cardinality(hot)
  <2>1. g \in Injection(H, hot)
    BY DEF Injection, IsInjective, OwnRow
  <2>. HIDE DEF g, H
  <2>. QED
    BY <1>2, <2>1, FS_Injection
<1>4. Live \in SUBSET (H \cup O)
  <2>1. ASSUME NEW s \in Signals, call[s].pc # "idle" PROVE s \in O
    BY <2>1 DEF Quiet, OpenIn
  <2>2. ASSUME NEW s \in Signals, call[s].pc = "idle", row[OwnRow(s)] = "executed" PROVE s \in H
    BY <2>2 DEF Counted
  <2>. QED
    BY <2>1, <2>2 DEF Live
<1>. HIDE DEF H, O
<1>5. IsFiniteSet(H \cup O) /\ Cardinality(H \cup O) = Cardinality(H) + Cardinality(O) - Cardinality(H \cap O)
  BY <1>1, FS_Union
<1>6. IsFiniteSet(H \cap O) /\ IsFiniteSet(Live)
  BY <1>1, FS_Subset, LiveFinite
<1>7. Cardinality(Live) <= Cardinality(H \cup O)
  BY <1>4, <1>5, FS_Subset
<1>8. /\ Cardinality(H) \in Nat /\ Cardinality(O) \in Nat /\ Cardinality(H \cap O) \in Nat /\ Cardinality(hot) \in Nat
      /\ Cardinality(Live) \in Nat
  BY <1>1, <1>2, <1>6, FS_CardinalityType
<1>9. OpenCount = Cardinality(hot) + Cardinality(O)
  BY DEF OpenCount, O
<1>. QED
  BY <1>3, <1>5, <1>7, <1>8, <1>9

(* A signal the index does not know has no record, and was never sent. *)
LEMMA AbsentIsNew ==
  ASSUME Inv, NEW s \in Signals, index[s] = "absent", process # "down"
  PROVE  /\ "tear" \notin faults => ~Has(file, s) /\ ~Recoverable(s) /\ ~Safe(s)
         /\ Spared(Refires) => fired[s] = 0 /\ row[OwnRow(s)] = "none"
<1>1. file \in Seq(Records) /\ synced \in 0..Len(file) /\ Len(file) \in Nat /\ Sound(s) /\ fired[s] \in Nat
  BY DEF Inv, TypeOK, Basic
<1>2. ASSUME "tear" \notin faults PROVE ~Has(file, s) /\ ~Recoverable(s) /\ ~Safe(s)
  <2>1. ~Has(file, s) /\ Loaded(file)[s] # "open"
    BY <1>2 DEF Inv, Basic, IndexAgrees
  <2>2. ~Safe(s)
    BY <1>1, <2>1 DEF Has, Safe
  <2>3. ~Recoverable(s)
    <3>1. Len(file) \in synced..Len(file)
      BY <1>1
    <3>2. SubSeq(file, 1, Len(file)) = file
      BY <1>1
    <3>. QED
      BY <2>1, <3>1, <3>2 DEF Recoverable
  <2>. QED
    BY <2>1, <2>2, <2>3
<1>3. ASSUME Spared(Refires) PROVE fired[s] = 0 /\ row[OwnRow(s)] = "none"
  <2>1. "tear" \notin faults
    BY <1>3 DEF Spared, Refires
  <2>. QED
    BY <1>1, <1>2, <1>3, <2>1 DEF Sound, Sent
<1>. QED
  BY <1>2, <1>3

LEMMA AdmitKeeps ==
  ASSUME Inv, NEW s \in Signals, Admit(s)
  PROVE  Inv'
<1>1. /\ UNCHANGED <<process, cursor, order, fired, row, hot, sweep, deaths>> /\ process # "down"
      /\ call[s] = Idle /\ index[s] = "absent" /\ OpenCount < Cap /\ RecordIntent(s) /\ Step(s, "wire")
      /\ TypeOK /\ Basic /\ Sound(s) /\ (Spared({"overlap"}) => sweep = NoSweep)
      /\ sweep.pc # "recover" => sweep.pending = {} /\ sweep.todo = {}
  BY DEF Admit, Presented, Inv, Basic, Spared
<1>2. /\ Intent(s) \in Records /\ Intent(s).signal = s /\ Intent(s).kind = "intent" /\ Mark(Intent(s)) = "open"
      /\ AppendRecord(Intent(s), TRUE)
  BY <1>1, RecordFacts DEF RecordIntent
<1>3. /\ Basic' /\ faults' = faults /\ \A t \in Signals : t # s => JournalFor(t)
      /\ file' \in Seq(Records) /\ synced' \in 0..Len(file') /\ torn' \in BOOLEAN /\ index' \in [Signals -> Marks]
      /\ \A k \in DOMAIN file' : file'[k] \in Records
  BY <1>1, <1>2, JournalMoves
<1>4. index'[s] = "open" /\ (Spared(Refires) => Safe(s)') /\ ("tear" \notin faults => Recoverable(s)')
  <2>1. index'[s] = "open"
    BY <1>1, <1>2, AppendTyped
  <2>2. Spared(Refires) => Safe(s)'
    BY <1>1, <1>2, AppendGrows
  <2>3. "tear" \notin faults => Recoverable(s)'
    BY <1>1, <1>2, AppendTold
  <2>. QED
    BY <2>1, <2>2, <2>3
<1>5. /\ call' \in [Signals -> CallType] /\ call'[s].pc = "wire" /\ call[s].pc = "idle"
      /\ \A t \in Signals : t # s => call'[t] = call[t]
  BY <1>1, StepFacts, IdleFacts DEF PCs
<1>6. /\ "tear" \notin faults => ~Has(file, s) /\ ~Recoverable(s) /\ ~Safe(s)
      /\ Spared(Refires) => fired[s] = 0 /\ row[OwnRow(s)] = "none"
  BY <1>1, AbsentIsNew
<1>7. TypeOK'
  BY <1>1, <1>3, <1>5 DEF TypeOK, CallType, PCs, Tells
<1>8. \A t \in Signals : t # s => SameFor(t)
  BY <1>1, <1>5 DEF SameFor
<1>9. Sound(s)'
  <2>1. Settled(s)' /\ (Spared({"overlap"}) => Quiet(s)') /\ (Spared(Uncounted) => Counted(s)')
    BY <1>1, <1>4, <1>5 DEF Sound, Settled, Quiet, Counted
  <2>2. (Spared(Refires) => Sent(s)') /\ (Spared({"raise", "rest"} \cup Refires) => Held(s)')
    BY <1>1, <1>4, <1>5, <1>6 DEF Sound, Sent, Held
  <2>3. Spared({"overlap", "record"} \cup Refires) => Rooted(s)'
    <3>1. Spared({"overlap", "record"} \cup Refires) => Spared(Refires) /\ "tear" \notin faults
      BY DEF Spared, Refires
    <3>. QED
      BY <1>1, <1>4, <1>5, <1>6, <3>1 DEF Sound, Rooted, HasRow
  <2>4. Spared({"commit", "tear"}) => Followed(s)'
    <3>1. Spared({"commit", "tear"}) => "tear" \notin faults
      BY DEF Spared
    <3>. QED
      BY <1>1, <1>4, <1>5, <1>6, <3>1 DEF Sound, Followed, Kept, HasRow
  <2>. QED
    BY <1>3, <2>1, <2>2, <2>3, <2>4, SparedStays DEF Sound
<1>10. Bounded'
  <2>. SUFFICES ASSUME Spared(Uncounted) PROVE Cardinality(Live') <= Cap
    BY <1>3, SparedStays DEF Bounded
  <2>1. \A t \in Signals : Quiet(t) /\ Counted(t)
    <3>1. Spared({"overlap"})
      BY DEF Spared, Uncounted
    <3>. QED
      BY <3>1 DEF Inv, Sound
  <2>2. Cardinality(Live) <= OpenCount /\ OpenCount \in Nat
    BY <1>1, <2>1, LiveIsCounted
  <2>3. Live' \in SUBSET (Live \cup {s})
    BY <1>1, <1>5 DEF Live
  <2>4. IsFiniteSet(Live \cup {s}) /\ Cardinality(Live \cup {s}) <= Cardinality(Live) + 1 /\ Cardinality(Live) \in Nat
        /\ Cardinality(Live \cup {s}) \in Nat
    <3>1. IsFiniteSet(Live \cup {s}) /\ Cardinality(Live \cup {s}) = IF s \in Live THEN Cardinality(Live) ELSE Cardinality(Live) + 1
      BY LiveFinite, FS_AddElement
    <3>2. Cardinality(Live) \in Nat
      BY LiveFinite, FS_CardinalityType
    <3>. QED
      BY <3>1, <3>2
  <2>5. Cardinality(Live') <= Cardinality(Live \cup {s}) /\ IsFiniteSet(Live')
    BY <2>3, <2>4, FS_Subset
  <2>6. Cardinality(Live') \in Nat /\ Cap \in Nat
    BY <2>5, FS_CardinalityType, FastSubmitAssumption
  <2>. QED
    BY <1>1, <2>2, <2>4, <2>5, <2>6
<1>. QED
  BY <1>1, <1>3, <1>7, <1>8, <1>9, <1>10, SignalMoves

-----------------------------------------------------------------------------
(* The sweep *)
SweepType == [pc : {"idle", "recover", "commit", "reconcile"}, todo : SUBSET Signals, pending : SUBSET Signals]
RowStates == {"none", "placing", "linked", "executed", "failed"}

LEMMA SweepMoves ==
  ASSUME Inv, UNCHANGED <<journalVars, call, cursor, order, fired, hot, deaths>>,
         process # "down", process' \in {"starting", "running"}, sweep' \in SweepType,
         sweep'.pc # "recover" => sweep'.pending = {} /\ sweep'.todo = {},
         row' \in [Rows -> RowStates],
         \A s \in Signals : row'[OwnRow(s)] = row[OwnRow(s)] /\ row'[RecoveryRow(s)] # "executed",
         Spared({"overlap"}) => \A s \in Signals : call[s].pc = "idle",
         Spared({"overlap", "record"} \cup Refires) => \A s \in Signals : Rooted(s)',
         Spared({"commit", "tear"}) => \A s \in Signals : Kept(s) => Kept(s)'
  PROVE  Inv'
<1>1. TypeOK' /\ Basic' /\ faults' = faults
  BY DEF Inv, TypeOK, Basic, journalVars, IndexAgrees, SweepType, RowStates
<1>2. ASSUME NEW s \in Signals PROVE Sound(s)'
  <2>1. Known(s)
    BY Before
  <2>2. Settled(s)' /\ (Spared({"overlap"}) => Quiet(s)') /\ (Spared(Uncounted) => Counted(s)')
    BY <2>1 DEF Known, Sound, Settled, Quiet, Counted
  <2>3. (Spared(Refires) => Sent(s)') /\ (Spared({"raise", "rest"} \cup Refires) => Held(s)')
    BY <2>1 DEF Known, Sound, Sent, Held
  <2>4. Spared({"commit", "tear"}) => Followed(s)'
    BY <2>1 DEF Known, Sound, Followed
  <2>. QED
    BY <1>1, <2>2, <2>3, <2>4, SparedStays DEF Sound
<1>3. Bounded'
  <2>1. Live' = Live
    BY DEF Live
  <2>. QED
    BY <1>1, <2>1, BoundStays DEF Inv
<1>. QED
  BY <1>1, <1>2, <1>3 DEF Inv

LEMMA SweepRuns ==
  ASSUME Inv, sweep # NoSweep
  PROVE  process # "down" /\ (Spared({"overlap"}) => \A s \in Signals : call[s].pc = "idle")
BY DEF Inv, Basic, Sound, Quiet

LEMMA OpenHasRecord ==
  ASSUME file \in Seq(Records), NEW s \in Signals, Loaded(file)[s] = "open"
  PROVE  Has(file, s)
BY LoadedAbsent

LEMMA SweepOfFacts ==
  ASSUME NEW i
  PROVE  SweepOf(i) \in SweepType /\ SweepOf(i).pc = "recover" /\ SweepOf(i).pending = {} /\ SweepOf(i).todo = OpenIn(i)
BY DEF SweepOf, SweepType, OpenIn

LEMMA NoSweepFacts ==
  NoSweep \in SweepType /\ NoSweep.pc = "idle" /\ NoSweep.pending = {} /\ NoSweep.todo = {}
BY DEF NoSweep, SweepType

LEMMA BeginSweepKeeps ==
  ASSUME Inv, BeginSweep
  PROVE  Inv'
<1>1. /\ UNCHANGED <<journalVars, process, call, cursor, order, fired, row, hot, deaths>> /\ process = "running"
      /\ sweep = NoSweep /\ sweep' = SweepOf(index) /\ (Spared({"overlap"}) => InFlight = {})
  BY DEF BeginSweep, Spared
<1>2. /\ row \in [Rows -> RowStates] /\ (\A s \in Signals : Sound(s)) /\ file \in Seq(Records)
      /\ ("tear" \notin faults => IndexAgrees) /\ file' = file
  BY <1>1 DEF Inv, TypeOK, Basic, RowStates, journalVars
<1>3. Spared({"overlap"}) => \A s \in Signals : call[s].pc = "idle"
  BY <1>1 DEF InFlight
<1>4. /\ sweep' \in SweepType /\ sweep'.pc = "recover" /\ sweep'.pending = {} /\ sweep'.todo = OpenIn(index)
      /\ sweep.pending = {}
  BY <1>1, SweepOfFacts, NoSweepFacts
<1>5. ASSUME Spared({"overlap", "record"} \cup Refires), NEW s \in Signals PROVE Rooted(s)'
  <2>1. Rooted(s) /\ (Safe(s)' <=> Safe(s)) /\ "tear" \notin faults
    BY <1>1, <1>2, <1>5, JournalStays DEF Sound, Spared, Refires
  <2>2. s \in OpenIn(index) => Has(file, s)
    BY <1>2, <2>1, OpenHasRecord DEF OpenIn, IndexAgrees
  <2>. QED
    BY <1>1, <1>2, <1>4, <2>1, <2>2 DEF Rooted, HasRow
<1>6. \A s \in Signals : Kept(s) => Kept(s)'
  BY <1>1, <1>4 DEF Kept, HasRow
<1>7. \A s \in Signals : row'[OwnRow(s)] = row[OwnRow(s)] /\ row'[RecoveryRow(s)] # "executed"
  BY <1>1, <1>2 DEF Sound, Settled
<1>. QED
  BY <1>1, <1>2, <1>3, <1>4, <1>5, <1>6, <1>7, SweepMoves

LEMMA RecoverCommitKeeps ==
  ASSUME Inv, RecoverCommit
  PROVE  Inv'
<1>1. /\ UNCHANGED <<journalVars, process, call, cursor, order, fired, hot, deaths>> /\ sweep.pc = "recover" /\ sweep.todo = {}
      /\ row' = [r \in Rows |-> IF r[2] = "recovery" /\ r[1] \in sweep.pending THEN "placing" ELSE row[r]]
      /\ sweep' = [sweep EXCEPT !.pc = "reconcile", !.pending = {}]
      /\ sweep \in SweepType /\ row \in [Rows -> RowStates] /\ (\A s \in Signals : Sound(s))
      /\ process \in {"down", "starting", "running"}
  BY DEF RecoverCommit, Inv, TypeOK, SweepType, RowStates
<1>2. /\ process # "down" /\ (Spared({"overlap"}) => \A s \in Signals : call[s].pc = "idle")
  BY <1>1, SweepRuns, NoSweepFacts
<1>3. sweep' \in SweepType /\ sweep'.pc = "reconcile" /\ sweep'.pending = {} /\ sweep'.todo = {}
  BY <1>1 DEF SweepType
<1>4. row' \in [Rows -> RowStates]
  BY <1>1 DEF RowStates
<1>5. ASSUME NEW s \in Signals
      PROVE  /\ row'[OwnRow(s)] = row[OwnRow(s)]
             /\ row'[RecoveryRow(s)] = IF s \in sweep.pending THEN "placing" ELSE row[RecoveryRow(s)]
             /\ row'[RecoveryRow(s)] # "executed"
  BY <1>1, RowFacts DEF Sound, Settled
<1>6. ASSUME Spared({"overlap", "record"} \cup Refires), NEW s \in Signals PROVE Rooted(s)'
  <2>1. Rooted(s) /\ (Safe(s)' <=> Safe(s)) /\ (Has(file', s) <=> Has(file, s))
    BY <1>1, <1>6, JournalStays DEF Sound
  <2>. QED
    BY <1>1, <1>3, <1>5, <2>1 DEF Rooted, HasRow
<1>7. \A s \in Signals : Kept(s) => Kept(s)'
  BY <1>5 DEF Kept, HasRow
<1>. QED
  BY <1>1, <1>2, <1>3, <1>4, <1>5, <1>6, <1>7, SweepMoves

LEMMA RecoverCommitFailsKeeps ==
  ASSUME Inv, RecoverCommitFails
  PROVE  Inv'
<1>1. /\ UNCHANGED <<journalVars, process, call, cursor, order, fired, row, hot, deaths>> /\ sweep.pc = "recover"
      /\ sweep.todo = {} /\ sweep' = [sweep EXCEPT !.pc = "reconcile", !.pending = {}] /\ ~Spared({"commit", "tear"})
      /\ sweep \in SweepType /\ row \in [Rows -> RowStates] /\ (\A s \in Signals : Sound(s))
      /\ process \in {"down", "starting", "running"}
  BY DEF RecoverCommitFails, Spared, Inv, TypeOK, SweepType, RowStates
<1>2. /\ process # "down" /\ (Spared({"overlap"}) => \A s \in Signals : call[s].pc = "idle")
  BY <1>1, SweepRuns, NoSweepFacts
<1>3. sweep' \in SweepType /\ sweep'.pc = "reconcile" /\ sweep'.pending = {} /\ sweep'.todo = {}
  BY <1>1 DEF SweepType
<1>4. ASSUME Spared({"overlap", "record"} \cup Refires), NEW s \in Signals PROVE Rooted(s)'
  <2>1. Rooted(s) /\ (Safe(s)' <=> Safe(s)) /\ (Has(file', s) <=> Has(file, s))
    BY <1>1, <1>4, JournalStays DEF Sound
  <2>. QED
    BY <1>1, <1>3, <2>1 DEF Rooted, HasRow
<1>5. \A s \in Signals : row'[OwnRow(s)] = row[OwnRow(s)] /\ row'[RecoveryRow(s)] # "executed"
  BY <1>1 DEF Sound, Settled
<1>. QED
  BY <1>1, <1>2, <1>3, <1>4, <1>5, SweepMoves

(* A row's resolution keeps it a row, and never makes a recovery row executed. *)
LEMMA ReconcileKeeps ==
  ASSUME Inv, Reconcile \/ ReconcileFails
  PROVE  Inv'
<1>1. /\ UNCHANGED <<journalVars, call, cursor, order, fired, hot, deaths>> /\ sweep.pc = "reconcile"
      /\ sweep' = NoSweep /\ process' = "running" /\ row \in [Rows -> RowStates] /\ (\A s \in Signals : Sound(s))
      /\ row' = [r \in Rows |-> IF r \in Eligible THEN Resolution(r) ELSE row[r]] \/ row' = row
      /\ sweep.pending = {}
  BY DEF Reconcile, ReconcileFails, EndSweep, Inv, TypeOK, Basic, RowStates
<1>2. /\ process # "down" /\ (Spared({"overlap"}) => \A s \in Signals : call[s].pc = "idle")
  BY <1>1, SweepRuns, NoSweepFacts
<1>3. sweep' \in SweepType /\ sweep'.pc = "idle" /\ sweep'.pending = {} /\ sweep'.todo = {}
  BY <1>1, NoSweepFacts
<1>4. row' \in [Rows -> RowStates]
  BY <1>1 DEF RowStates, Resolution
<1>5. ASSUME NEW s \in Signals
      PROVE  /\ row'[OwnRow(s)] = row[OwnRow(s)] /\ row'[RecoveryRow(s)] # "executed"
             /\ row'[RecoveryRow(s)] = "none" <=> row[RecoveryRow(s)] = "none"
  <2>1. OwnRow(s) \notin Eligible /\ (RecoveryRow(s) \in Eligible => row[RecoveryRow(s)] = "placing")
    BY <1>1 DEF Eligible, Sound, Settled
  <2>2. Resolution(RecoveryRow(s)) \in {"linked", "failed"}
    BY RowFacts DEF Resolution, HasDirection
  <2>3. row[RecoveryRow(s)] # "executed"
    BY <1>1 DEF Sound, Settled
  <2>. QED
    BY <1>1, <2>1, <2>2, <2>3, RowFacts
<1>6. ASSUME Spared({"overlap", "record"} \cup Refires), NEW s \in Signals PROVE Rooted(s)'
  <2>1. Rooted(s) /\ (Safe(s)' <=> Safe(s)) /\ (Has(file', s) <=> Has(file, s))
    BY <1>1, <1>6, JournalStays DEF Sound
  <2>. QED
    BY <1>1, <1>3, <1>5, <2>1 DEF Rooted, HasRow
<1>7. \A s \in Signals : Kept(s) => Kept(s)'
  BY <1>1, <1>5 DEF Kept, HasRow
<1>. QED
  BY <1>1, <1>2, <1>3, <1>4, <1>5, <1>6, <1>7, SweepMoves

-----------------------------------------------------------------------------
(* The process dies and restarts *)
LEMMA ForgetMoves ==
  ASSUME Inv, Forget, faults' = faults, index' = index, file' \in Seq(Records), synced' \in 0..Len(file'),
         torn' \in BOOLEAN, "tear" \notin faults => torn' = FALSE,
         \A s \in Signals : Spared(Refires) => (Safe(s) => Safe(s)'),
         \A s \in Signals : Spared({"overlap", "record"} \cup Refires) => (Has(file', s) => Has(file, s)),
         \A s \in Signals : "tear" \notin faults => (Recoverable(s) => Recoverable(s)')
  PROVE  Inv'
<1>1. /\ process' = "down" /\ call' = [s \in Signals |-> Idle] /\ hot' = {} /\ sweep' = NoSweep
      /\ UNCHANGED <<order, fired, row>> /\ deaths' = deaths - 1 /\ deaths > 0
      /\ (Spared({"commit", "tear"}) => sweep.pending = {})
      /\ cursor' = [s \in Signals |-> IF cursor[s] = "buffered" THEN "new" ELSE cursor[s]]
  BY DEF Forget, Spared
<1>2. call' \in [Signals -> CallType] /\ \A s \in Signals : call'[s] = Idle /\ call'[s].pc = "idle"
  BY <1>1, IdleFacts
<1>3. TypeOK'
  <2>1. /\ deaths' \in Nat /\ hot' \subseteq Rows /\ sweep' \in SweepType
        /\ cursor' \in [Signals -> {"new", "buffered", "flushed"}]
    BY <1>1, NoSweepFacts DEF Inv, TypeOK
  <2>2. \A k \in DOMAIN file' : file'[k] \in Records
    OBVIOUS
  <2>. QED
    BY <1>1, <1>2, <2>1, <2>2 DEF Inv, TypeOK, CallType, PCs, Tells, SweepType
<1>4. Basic'
  BY <1>1, <1>2, NoSweepFacts DEF Basic
<1>5. ASSUME NEW s \in Signals PROVE Sound(s)'
  <2>1. Sound(s)
    BY DEF Inv
  <2>2. Settled(s)' /\ Quiet(s)' /\ Counted(s)'
    BY <1>1, <1>2, <2>1 DEF Sound, Settled, Quiet, Counted
  <2>3. (Spared(Refires) => Sent(s)') /\ (Spared({"raise", "rest"} \cup Refires) => Held(s)')
    BY <1>1, <1>2, <2>1 DEF Sound, Sent, Held
  <2>4. Spared({"overlap", "record"} \cup Refires) => Rooted(s)'
    <3>1. Spared({"overlap", "record"} \cup Refires) => Spared(Refires)
      BY DEF Spared
    <3>. QED
      BY <1>1, <1>2, <2>1, <3>1, NoSweepFacts DEF Sound, Rooted, HasRow
  <2>5. Spared({"commit", "tear"}) => Followed(s)'
    <3>1. Spared({"commit", "tear"}) => "tear" \notin faults
      BY DEF Spared
    <3>. QED
      BY <1>1, <1>2, <2>1, <3>1 DEF Sound, Followed, Kept, HasRow
  <2>. QED
    BY <2>2, <2>3, <2>4, <2>5, SparedStays DEF Sound
<1>6. Bounded'
  <2>1. Live' \subseteq Live
    BY <1>1, <1>2 DEF Live
  <2>. QED
    BY <2>1, BoundStays DEF Inv
<1>. QED
  BY <1>3, <1>4, <1>5, <1>6 DEF Inv

LEMMA CrashKeeps ==
  ASSUME Inv, Crash
  PROVE  Inv'
<1>1. /\ Forget /\ UNCHANGED journalVars /\ file \in Seq(Records) /\ synced \in 0..Len(file)
      /\ torn \in BOOLEAN /\ ("tear" \notin faults => torn = FALSE)
  BY DEF Crash, Inv, TypeOK, Basic
<1>2. faults' = faults /\ index' = index /\ file' = file /\ synced' = synced /\ torn' = torn
  BY <1>1 DEF journalVars
<1>3. \A s \in Signals : (Safe(s)' <=> Safe(s)) /\ (Recoverable(s)' <=> Recoverable(s)) /\ (Has(file', s) <=> Has(file, s))
  BY <1>1, JournalStays
<1>. QED
  BY <1>1, <1>2, <1>3, ForgetMoves

(* An intent that was written and not synced may or may not survive; either   *)
(* way it is of a signal that is not yet sent, or that is kept elsewhere.     *)
LEMMA CrashRecordingKeeps ==
  ASSUME Inv, NEW s \in Signals, CrashRecording(s)
  PROVE  Inv'
<1>1. /\ Forget /\ UNCHANGED <<faults, synced, torn, index>> /\ file' = Append(file, Intent(s)) /\ "record" \in faults
      /\ file \in Seq(Records) /\ synced \in 0..Len(file) /\ Len(file) \in Nat /\ index[s] = "absent" /\ process # "down"
      /\ torn \in BOOLEAN /\ ("tear" \notin faults => torn = FALSE)
  BY DEF CrashRecording, Presented, Inv, TypeOK, Basic
<1>2. Intent(s) \in Records /\ Intent(s).signal = s
  BY RecordFacts
<1>3. /\ file' \in Seq(Records) /\ Len(file') = Len(file) + 1 /\ synced' \in 0..Len(file')
      /\ \A k \in 1..Len(file) : file'[k] = file[k]
  BY <1>1, <1>2
<1>4. \A t \in Signals : Safe(t) => Safe(t)'
  BY <1>1, <1>3 DEF Safe
<1>5. ASSUME "tear" \notin faults, NEW t \in Signals, Recoverable(t) PROVE Recoverable(t)'
  <2>1. t # s
    BY <1>1, <1>5, AbsentIsNew
  <2>. QED
    BY <1>1, <1>2, <1>5, <2>1, AppendRecoverable
<1>6. ~Spared({"overlap", "record"} \cup Refires)
  BY <1>1 DEF Spared
<1>. QED
  BY <1>1, <1>3, <1>4, <1>5, <1>6, ForgetMoves

LEMMA PowerLossKeeps ==
  ASSUME Inv, PowerLoss
  PROVE  Inv'
<1>1. /\ Forget /\ faults' = faults /\ index' = index /\ torn' \in (IF "tear" \in faults THEN BOOLEAN ELSE {torn})
      /\ file \in Seq(Records) /\ synced \in 0..Len(file) /\ Len(file) \in Nat
      /\ torn \in BOOLEAN /\ ("tear" \notin faults => torn = FALSE)
  BY DEF PowerLoss, LosePageCache, Inv, TypeOK, Basic
<1>2. PICK n \in synced..Len(file) : file' = SubSeq(file, 1, n) /\ synced' = n
  BY DEF PowerLoss, LosePageCache
<1>3. n \in 0..Len(file)
  BY <1>1
<1>4. /\ file' \in Seq(Records) /\ Len(file') = n /\ synced' \in 0..Len(file')
      /\ (\A k \in 1..n : file'[k] = file[k])
  BY <1>1, <1>2, <1>3
<1>5. torn' \in BOOLEAN /\ ("tear" \notin faults => torn' = FALSE)
  <2>1. CASE "tear" \in faults
    BY <1>1, <2>1
  <2>2. CASE "tear" \notin faults
    <3>1. torn' = torn /\ torn = FALSE
      BY <1>1, <2>2
    <3>. QED
      BY <3>1
  <2>. QED
    BY <2>1, <2>2
<1>6. \A s \in Signals : Safe(s) => Safe(s)'
  <2>1. \A k \in 1..synced : k \in 1..n
    BY <1>1
  <2>. QED
    BY <1>2, <1>4, <2>1 DEF Safe
<1>7. \A s \in Signals : Has(file', s) => Has(file, s)
  <2>1. \A k \in DOMAIN file' : k \in DOMAIN file /\ file'[k] = file[k]
    BY <1>1, <1>3, <1>4
  <2>. QED
    BY <2>1 DEF Has
<1>8. \A s \in Signals : Recoverable(s) => Recoverable(s)'
  <2>1. \A m \in synced'..Len(file') : m = n
    BY <1>2, <1>3, <1>4
  <2>2. SubSeq(file', 1, n) = SubSeq(file, 1, n)
    <3>1. SubSeq(file', 1, Len(file')) = file'
      BY <1>4
    <3>. QED
      BY <1>2, <1>4, <3>1
  <2>. QED
    BY <2>1, <2>2 DEF Recoverable
<1>. QED
  BY <1>1, <1>4, <1>5, <1>6, <1>7, <1>8, ForgetMoves

LEMMA RestartKeeps ==
  ASSUME Inv, Restart
  PROVE  Inv'
<1>1. /\ process = "down" /\ process' = "starting" /\ index' = Loaded(file) /\ UNCHANGED <<faults, file, synced, torn>>
      /\ hot' = {r \in Rows : row[r] = "executed"} /\ sweep' = SweepOf(index')
      /\ UNCHANGED <<call, cursor, order, fired, row, deaths>>
      /\ sweep = NoSweep /\ (\A s \in Signals : call[s] = Idle) /\ file \in Seq(Records)
  BY DEF Restart, Load, Inv, Basic
<1>2. \A s \in Signals : Loaded(file)[s] \in Marks /\ (Loaded(file)[s] = "absent" => ~Has(file, s))
  <2>1. ASSUME NEW s \in Signals PROVE Loaded(file)[s] \in Marks /\ (Loaded(file)[s] = "absent" => ~Has(file, s))
    <3>1. CASE Has(file, s)
      BY <1>1, <3>1, LoadedAbsent DEF Marks
    <3>2. CASE ~Has(file, s)
      BY <1>1, <3>2, LoadedAbsent DEF Marks
    <3>. QED
      BY <3>1, <3>2
  <2>. QED
    BY <2>1
<1>3. index' \in [Signals -> Marks]
  <2>1. Loaded(file) = [s \in Signals |-> Loaded(file)[s]]
    BY DEF Loaded
  <2>. QED
    BY <1>1, <1>2, <2>1
<1>4. sweep' \in SweepType /\ sweep'.pc = "recover" /\ sweep'.pending = {} /\ sweep'.todo = OpenIn(index')
  BY <1>1, SweepOfFacts
<1>5. TypeOK' /\ Basic' /\ faults' = faults
  <2>1. IndexAgrees'
    BY <1>1, <1>2 DEF IndexAgrees
  <2>. QED
    BY <1>1, <1>3, <1>4, <2>1 DEF Inv, TypeOK, Basic, SweepType
<1>6. ASSUME NEW s \in Signals PROVE Sound(s)'
  <2>1. /\ Sound(s) /\ call[s].pc = "idle" /\ sweep.pending = {} /\ (s \in sweep'.todo => Has(file, s))
        /\ Safe(s)' = Safe(s) /\ Recoverable(s)' = Recoverable(s)
    <3>1. Safe(s)' = Safe(s) /\ Recoverable(s)' = Recoverable(s)
      BY <1>1 DEF Safe, Recoverable
    <3>2. s \in sweep'.todo => Has(file, s)
      BY <1>1, <1>4, OpenHasRecord DEF OpenIn
    <3>. QED
      BY <1>1, <3>1, <3>2, IdleFacts, NoSweepFacts DEF Inv
  <2>2. Settled(s)' /\ Quiet(s)' /\ Counted(s)'
    BY <1>1, <2>1, RowFacts DEF Sound, Settled, Quiet, Counted
  <2>3. (Spared(Refires) => Sent(s)') /\ (Spared({"raise", "rest"} \cup Refires) => Held(s)')
    BY <1>1, <2>1 DEF Sound, Sent, Held
  <2>4. Spared({"overlap", "record"} \cup Refires) => Rooted(s)'
    BY <1>1, <1>4, <2>1 DEF Sound, Rooted, HasRow
  <2>5. Spared({"commit", "tear"}) => Followed(s)'
    BY <1>1, <1>4, <2>1 DEF Sound, Followed, Kept, HasRow
  <2>. QED
    BY <1>5, <2>2, <2>3, <2>4, <2>5, SparedStays DEF Sound
<1>7. Bounded'
  <2>1. Live' = Live
    BY <1>1 DEF Live
  <2>. QED
    BY <1>5, <2>1, BoundStays DEF Inv
<1>. QED
  BY <1>5, <1>6, <1>7 DEF Inv

-----------------------------------------------------------------------------
LEMMA InitHolds == Init => Inv
<1>. SUFFICES ASSUME Init PROVE Inv
  OBVIOUS
<1>1. /\ file = <<>> /\ synced = 0 /\ torn = FALSE /\ index = [s \in Signals |-> "absent"] /\ process = "running"
      /\ call = [s \in Signals |-> Idle] /\ order = [s \in Signals |-> "none"] /\ fired = [s \in Signals |-> 0]
      /\ row = [r \in Rows |-> "none"] /\ hot = {} /\ sweep = NoSweep
  BY DEF Init, JournalInit
<1>2. /\ faults \subseteq Faults /\ deaths \in Nat /\ cursor \in [Signals -> {"new", "buffered", "flushed"}]
  <2>1. PICK c \in Scenarios : /\ faults = c.faults /\ deaths = c.deaths
                               /\ cursor = [s \in Signals |-> IF s \in c.signals THEN "new" ELSE "flushed"]
    BY DEF Init
  <2>2. c \in [signals : SUBSET Signals, deaths : Nat, faults : SUBSET Faults]
    BY FastSubmitAssumption
  <2>. QED
    BY <2>1, <2>2
<1>3. /\ file \in Seq(Records) /\ \A s \in Signals : ~Has(file, s)
  BY <1>1 DEF Has
<1>4. IndexAgrees
  <2>1. \A s \in Signals : Loaded(file)[s] = "absent"
    BY <1>3, LoadedAbsent
  <2>. QED
    BY <1>1, <1>3, <2>1 DEF IndexAgrees
<1>5. Basic
  BY <1>1, <1>3, <1>4, NoSweepFacts DEF Basic
<1>6. TypeOK
  <2>1. torn \in BOOLEAN
    BY <1>1
  <2>2. synced \in 0..Len(file) /\ \A k \in DOMAIN file : file[k] \in Records
    BY <1>1
  <2>. QED
    BY <1>1, <1>2, <2>1, <2>2, IdleFacts, NoSweepFacts DEF TypeOK, Marks, CallType, PCs, Tells, SweepType
<1>7. ASSUME NEW s \in Signals PROVE Sound(s)
  <2>1. /\ call[s].pc = "idle" /\ row[OwnRow(s)] = "none" /\ row[RecoveryRow(s)] = "none" /\ fired[s] = 0 /\ order[s] = "none"
        /\ s \notin sweep.pending /\ s \notin sweep.todo
    BY <1>1, IdleFacts, RowFacts, NoSweepFacts
  <2>. QED
    BY <1>3, <2>1 DEF Sound, Settled, Quiet, Sent, Held, Rooted, Counted, Followed, Kept, HasRow
<1>8. Bounded
  <2>1. Live = {}
    BY <1>1, IdleFacts, RowFacts DEF Live
  <2>. QED
    BY <2>1, FS_EmptySet, FastSubmitAssumption DEF Bounded
<1>. QED
  BY <1>5, <1>6, <1>7, <1>8 DEF Inv

LEMMA StutterKeeps ==
  ASSUME Inv, UNCHANGED vars
  PROVE  Inv'
<1>1. /\ UNCHANGED <<journalVars, process, call, cursor, order, fired, row, hot, sweep, deaths>> /\ faults' = faults
  BY DEF vars, journalVars
<1>2. TypeOK' /\ Basic'
  BY <1>1 DEF Inv, TypeOK, Basic, journalVars, IndexAgrees
<1>3. \A s \in Signals : Sound(s)'
  BY <1>1, JournalStays, OthersStay DEF Inv, SameFor
<1>4. Bounded'
  <2>1. Live' = Live
    BY <1>1 DEF Live
  <2>. QED
    BY <1>1, <2>1, BoundStays DEF Inv
<1>. QED
  BY <1>2, <1>3, <1>4 DEF Inv

LEMMA StepKeeps == Inv /\ [Next]_vars => Inv'
<1>. SUFFICES ASSUME Inv, [Next]_vars PROVE Inv'
  OBVIOUS
<1>1. ASSUME NEW s \in Signals, Call(s) PROVE Inv'
  BY <1>1, RefuseKeeps, AdmitKeeps, ResultKeeps, TransmitKeeps, WireFailsKeeps, ReplyKeeps, PersistKeeps,
     PersistFailsKeeps, PersistCancelledKeeps DEF Call
<1>2. ASSUME NEW s \in Signals, FlushCursor(s) \/ VenueMoves(s) \/ CrashRecording(s) PROVE Inv'
  BY <1>2, RefuseKeeps, VenueMovesKeeps, CrashRecordingKeeps
<1>3. CASE Sweep
  BY <1>3, BeginSweepKeeps, RecoverCommitKeeps, RecoverCommitFailsKeeps, ReconcileKeeps, RecoverKeeps DEF Sweep
<1>4. CASE Crash \/ PowerLoss \/ Restart
  BY <1>4, CrashKeeps, PowerLossKeeps, RestartKeeps
<1>5. CASE UNCHANGED vars
  BY <1>5, StutterKeeps
<1>. QED
  BY <1>1, <1>2, <1>3, <1>4, <1>5 DEF Next

(* The invariant holds of every behaviour of every scenario: the calls, the   *)
(* sweep, the venue and a process that dies and restarts as often as it is    *)
(* let to.                                                                    *)
THEOREM Invariance == Spec => []Inv
<1>1. Init => Inv
  BY InitHolds
<1>2. Inv /\ [Next]_vars => Inv'
  BY StepKeeps
<1>. QED
  BY <1>1, <1>2, PTL DEF Spec

(* The venue receives a signal at most once unless the journal is compacted   *)
(* or torn: the durable intent is written before, and read ahead of, the      *)
(* venue call (execute_fast_signal).                                          *)
THEOREM FiresOnce == Spec => []FiredOnce
<1>1. Inv => FiredOnce
  BY DEF Inv, Sound, Sent, FiredOnce
<1>. QED
  BY <1>1, Invariance, PTL

(* No submission is lost track of while the sweep's commits succeed and no    *)
(* line is torn: every restart finds its intent open, or there is its row.    *)
THEOREM StaysTracked == Spec => []TrackedUnlessCut
<1>1. Inv => TrackedUnlessCut
  BY DEF Inv, Sound, Followed, Kept, TrackedUnlessCut, Tracked
<1>. QED
  BY <1>1, Invariance, PTL

(* Submissions under way and executed orders never exceed max_open_orders,    *)
(* across the hand-over from journal to hot state and across restarts.        *)
THEOREM RespectsCap == Spec => []CapHolds
<1>1. Inv => CapHolds
  BY DEF Inv, Bounded, Live, CapHolds
<1>. QED
  BY <1>1, Invariance, PTL

(* A signal has one row, and the row is true of the venue's order.            *)
THEOREM RowsAreTrue == Spec => []RowsInv
<1>1. Inv => RowsInv
  <2>. SUFFICES ASSUME Inv PROVE RowsInv
    OBVIOUS
  <2>1. OneRow
    BY DEF Inv, Sound, Rooted, OneRow
  <2>2. ExecutedIsFilled
    <3>. SUFFICES ASSUME Spared(Refires), NEW r \in Rows, row[r] = "executed" PROVE order[r[1]] = "filled"
      BY DEF ExecutedIsFilled
    <3>1. PICK s \in Signals : r = OwnRow(s) \/ r = RecoveryRow(s)
      BY DEF Rows, OwnRow, RecoveryRow
    <3>2. r = OwnRow(s) /\ r[1] = s
      BY <3>1, RowFacts DEF Inv, Sound, Settled
    <3>. QED
      BY <3>2 DEF Inv, Sound, Sent
  <2>3. FailedHoldsNothing
    BY DEF Inv, Sound, Held, FailedHoldsNothing
  <2>. QED
    BY <2>1, <2>2, <2>3 DEF Inv, RowsInv
<1>. QED
  BY <1>1, Invariance, PTL
=============================================================================
