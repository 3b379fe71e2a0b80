------------------- MODULE KalshiPortfolioProjectionProofs -------------------
(***************************************************************************)
(* Proofs about the fenced portfolio projection, for any workers, lease    *)
(* TTL, clock error and bounds.  ProjectionInv is inductive together with  *)
(* TypeOK; the properties and the refinement of KalshiPortfolioHead follow *)
(* from it.                                                                *)
(***************************************************************************)
EXTENDS KalshiPortfolioProjection, TLAPS

Inv == TypeOK /\ ProjectionInv

LEMMA InitInv == Init => Inv
<1> SUFFICES ASSUME Init PROVE Inv
  OBVIOUS
<1>1. TypeOK
  BY ProjectionAssumption DEF Init, TypeOK, Blank, Attempts, Statuses
<1>2. LeaseIsExclusive /\ HealthyHasItsEvidence /\ AttemptInv
  BY DEF Init, LeaseIsExclusive, HealthyHasItsEvidence, AttemptInv
<1>3. TokenInv
  <2> SUFFICES ASSUME NEW w \in Workers PROVE token[w] <= fence
    BY DEF Init, TokenInv
  <2>1. token[w] = 0 /\ fence = 0
    BY DEF Init
  <2> QED
    BY <2>1
<1>4. PublishedInv
  BY DEF Init, PublishedInv
<1>5. StampInv
  <2>1. \A w \in Workers : stage[w] = "idle"
    BY DEF Init
  <2> QED
    BY <2>1, Zenon DEF Init, StampInv
<1> QED
  BY <1>1, <1>2, <1>3, <1>4, <1>5 DEF Inv, ProjectionInv

-----------------------------------------------------------------------------
(* A step that publishes nothing and at most ends or fails synchronizations. *)
Quiet(v) ==
    \/ stage'[v] = "idle"
    \/ hold'[v] = hold[v] /\ stage'[v] = stage[v] /\ attempt'[v] = attempt[v]
    \/ stage[v] # "idle" /\ hold'[v] = hold[v] /\ stage'[v] = "failing" /\ attempt'[v] = attempt[v]

(* Such a step keeps the invariant: what remains under way was under way. *)
LEMMA QuietInv ==
    ASSUME Inv, TypeOK', \A v \in Workers : Quiet(v),
           UNCHANGED <<now, changes, owner, fence, token, begun, checkpoints, projected, latest, healthy>>
    PROVE  Inv'
<1>1. LeaseIsExclusive' /\ TokenInv'
  BY DEF Inv, ProjectionInv, LeaseIsExclusive, TokenInv
<1>2. HealthyHasItsEvidence'
  BY DEF Inv, ProjectionInv, HealthyHasItsEvidence, CompleteCoverage
<1>3. AttemptInv'
  <2> SUFFICES ASSUME NEW v \in Workers, stage'[v] # "idle"
               PROVE  AttemptInv!(v)'
    BY DEF AttemptInv
  <2>1. stage[v] # "idle" /\ hold'[v] = hold[v] /\ attempt'[v] = attempt[v]
    BY DEF Quiet
  <2>2. stage'[v] = stage[v] \/ stage'[v] = "failing"
    BY DEF Quiet
  <2> QED
    BY <2>1, <2>2 DEF Inv, ProjectionInv, AttemptInv, CompleteCoverage, Head!AttemptId
<1>4. PublishedInv'
  BY DEF Inv, ProjectionInv, PublishedInv
<1>5. StampInv'
  BY DEF Inv, ProjectionInv, StampInv, Quiet
<1> QED
  BY <1>1, <1>2, <1>3, <1>4, <1>5 DEF Inv, ProjectionInv

-----------------------------------------------------------------------------
(* The lease *)

(* Taking the lease leaves every synchronization under way without the       *)
(* current token.                                                            *)
LEMMA AcquireInv ==
    ASSUME Inv, NEW w \in Workers, Acquire(w)
    PROVE  Inv'
<1> USE DEF Inv, ProjectionInv
<1>1. TypeOK'
  BY ProjectionAssumption DEF TypeOK, Acquire, Readings, headVars
<1>2. /\ owner' = w /\ fence' = fence + 1 /\ fence \in Nat /\ token \in [Workers -> Nat]
      /\ token' = [token EXCEPT ![w] = fence + 1] \/ token' = token
      /\ UNCHANGED <<now, changes, begun, stage, attempt, checkpoints, projected, latest, healthy>>
  BY DEF Acquire, headVars, TypeOK
<1>3. LeaseIsExclusive' /\ TokenInv'
  BY <1>2 DEF LeaseIsExclusive, TokenInv
<1>4. HealthyHasItsEvidence'
  BY <1>2 DEF HealthyHasItsEvidence, CompleteCoverage
<1>5. stage[w] = "idle" /\ \A v \in Workers : hold'[v] = hold[v] \/ v = w
  BY DEF AttemptInv, Acquire, TypeOK
<1>6. \A v \in Workers : stage'[v] # "idle" => v # w /\ token'[v] = token[v] /\ token'[v] # fence'
  BY <1>2, <1>5 DEF TokenInv
<1>7. AttemptInv'
  BY <1>2, <1>5, <1>6 DEF AttemptInv, CompleteCoverage
<1>8. PublishedInv'
  BY <1>2 DEF PublishedInv, TypeOK, Attempts
<1>9. StampInv'
  BY <1>2, <1>6 DEF StampInv
<1> QED
  BY <1>1, <1>3, <1>4, <1>7, <1>8, <1>9

(* Renewing, stopping, releasing and dying publish nothing. *)
LEMMA LeaseQuietInv ==
    ASSUME Inv, NEW w \in Workers, Renew(w) \/ Stop(w) \/ Release(w) \/ Crash(w)
    PROVE  Inv'
<1>1. TypeOK'
  <2>1. Blank \in Attempts
    BY DEF Blank, Attempts, Statuses
  <2>2. CASE Renew(w)
    <3>1. PICK t \in Readings :
              IF owner = w /\ fence = token[w] /\ expires > t
              THEN expires' = t + TTL /\ UNCHANGED <<hold, stage, attempt>>
              ELSE hold' = [hold EXCEPT ![w] = "ending"] /\ Forget(w) /\ UNCHANGED expires
      BY <2>2 DEF Renew
    <3>2. t \in Int
      BY ProjectionAssumption DEF Inv, TypeOK, Readings
    <3>3. expires' \in Int
      BY <3>1, <3>2, ProjectionAssumption DEF Inv, TypeOK
    <3>4. /\ hold' \in [Workers -> {"off", "held", "ending", "dead"}]
          /\ stage' \in [Workers -> {"idle", "started", "covered", "read", "failing"}]
          /\ attempt' \in [Workers -> Attempts]
      BY <3>1, <2>1 DEF Inv, TypeOK, Forget
    <3> QED
      BY <2>2, <3>3, <3>4 DEF Inv, TypeOK, Renew, headVars
  <2>3. CASE Stop(w)
    BY <2>1, <2>3 DEF Inv, TypeOK, Stop, Forget, leaseVars, headVars
  <2>4. CASE Release(w)
    BY <2>4, ProjectionAssumption DEF Inv, TypeOK, Release, Readings, headVars
  <2>5. CASE Crash(w)
    BY <2>1, <2>5 DEF Inv, TypeOK, Crash, Forget, leaseVars, headVars
  <2> QED
    BY <2>2, <2>3, <2>4, <2>5
<1>2. \A v \in Workers : Quiet(v)
  BY DEF Inv, ProjectionInv, AttemptInv, TypeOK, Quiet, Renew, Stop, Release, Crash, Forget, leaseVars, headVars
<1>3. UNCHANGED <<now, changes, owner, fence, token, begun, checkpoints, projected, latest, healthy>>
  BY DEF Renew, Stop, Release, Crash, Forget, leaseVars, headVars
<1> QED
  BY <1>1, <1>2, <1>3, QuietInv

-----------------------------------------------------------------------------
(* The clock and the venue *)

LEMMA TickInv == ASSUME Inv, Tick PROVE Inv'
<1> USE DEF Inv, ProjectionInv
<1>1. UNCHANGED <<changes, owner, fence, expires, hold, token, stage, attempt, begun, checkpoints, projected,
                  latest, healthy>>
  BY DEF Tick, leaseVars, workVars, headVars
<1>2. TypeOK'
  BY <1>1 DEF TypeOK, Tick
<1>3. LeaseIsExclusive' /\ HealthyHasItsEvidence' /\ PublishedInv' /\ TokenInv'
  BY <1>1 DEF TokenInv, LeaseIsExclusive, HealthyHasItsEvidence, CompleteCoverage, PublishedInv
<1>4. AttemptInv'
  BY <1>1 DEF AttemptInv, CompleteCoverage, Head!AttemptId
<1>5. StampInv'
  <2> SUFFICES ASSUME Skew = 0 PROVE StampInv'
    BY DEF StampInv
  <2>1. now \in Nat /\ now' = now + 1
    BY DEF TypeOK, Tick
  <2>2. \A c \in checkpoints : c.at \in Int
    BY DEF TypeOK, Checkpoints
  <2>3. \A v \in Workers : attempt[v].at \in Int
    BY DEF TypeOK, Attempts
  <2> QED
    BY <1>1, <2>1, <2>2, <2>3 DEF StampInv
<1> QED
  BY <1>2, <1>3, <1>4, <1>5

LEMMA VenueChangeInv == ASSUME Inv, VenueChange PROVE Inv'
<1> USE DEF Inv, ProjectionInv
<1>1. /\ UNCHANGED <<now, owner, fence, expires, hold, token, stage, attempt, begun, checkpoints, projected,
                     latest, healthy>>
      /\ changes \in Nat /\ changes' = changes + 1
  BY DEF VenueChange, leaseVars, workVars, headVars, TypeOK
<1>2. TypeOK'
  BY <1>1 DEF TypeOK
<1>3. LeaseIsExclusive' /\ HealthyHasItsEvidence' /\ StampInv' /\ TokenInv'
  BY <1>1 DEF TokenInv, LeaseIsExclusive, HealthyHasItsEvidence, CompleteCoverage, StampInv
<1>4. AttemptInv'
  <2>1. \A v \in Workers : attempt[v].base \in Nat
    BY DEF TypeOK, Attempts
  <2> QED
    BY <1>1, <2>1 DEF AttemptInv, CompleteCoverage, Head!AttemptId
<1>5. PublishedInv'
  <2>1. healthy # NoAttempt => healthy.base \in Nat
    BY DEF TypeOK, Attempts
  <2> QED
    BY <1>1, <2>1 DEF PublishedInv
<1> QED
  BY <1>2, <1>3, <1>4, <1>5

-----------------------------------------------------------------------------
(* synchronize *)

(* A new attempt is newer than everything its lease can see. *)
LEMMA SyncStartInv ==
    ASSUME Inv, NEW w \in Workers, SyncStart(w)
    PROVE  Inv'
<1> USE DEF Inv, ProjectionInv
<1>1. PICK t \in Readings : attempt' = [attempt EXCEPT ![w] =
          [id |-> begun + 1, token |-> token[w], base |-> changes, at |-> t, status |-> "pending"]]
  BY DEF SyncStart
<1>2. /\ owner = w /\ fence = token[w] /\ hold[w] = "held" /\ stage[w] = "idle"
      /\ begun' = begun + 1 /\ stage' = [stage EXCEPT ![w] = "started"]
      /\ UNCHANGED <<now, changes, owner, fence, expires, hold, token, checkpoints, projected, latest, healthy>>
  BY DEF SyncStart, Owns, leaseVars, headVars
<1>3. t \in Int /\ now \in Nat /\ (Skew = 0 => t = now)
  BY ProjectionAssumption DEF TypeOK, Readings
<1>4. begun \in Nat /\ changes \in Nat /\ fence \in Nat /\ token \in [Workers -> Nat]
  BY DEF TypeOK
<1>5. TypeOK'
  BY <1>1, <1>2, <1>3, <1>4 DEF TypeOK, Attempts, Statuses
<1>6. LeaseIsExclusive' /\ TokenInv'
  BY <1>2 DEF LeaseIsExclusive, TokenInv
<1>7. HealthyHasItsEvidence'
  BY <1>2 DEF HealthyHasItsEvidence, CompleteCoverage
<1>8. token[w] > 0
  <2>1. fence # 0
    BY <1>2, ProjectionAssumption DEF TokenInv
  <2> QED
    BY <2>1, <1>2, <1>4
<1>9. /\ stage'[w] = "started" /\ attempt'[w].id = begun + 1 /\ attempt'[w].token = token[w]
      /\ attempt'[w].base = changes /\ attempt'[w].at = t
      /\ \A v \in Workers : v # w => stage'[v] = stage[v] /\ attempt'[v] = attempt[v]
  BY <1>1, <1>2 DEF TypeOK
<1>10. AttemptInv'
  <2> SUFFICES ASSUME NEW v \in Workers, stage'[v] # "idle" PROVE AttemptInv!(v)'
    BY DEF AttemptInv
  <2>1. CASE v = w
    BY <2>1, <1>2, <1>4, <1>8, <1>9 DEF AttemptInv, PublishedInv, Head!AttemptId, TypeOK, Attempts, Checkpoints
  <2>2. CASE v # w
    <3>1. token[v] # fence
      BY <2>2, <1>2, <1>4, <1>8 DEF LeaseIsExclusive
    <3> QED
      BY <2>2, <3>1, <1>2, <1>4, <1>9 DEF AttemptInv, CompleteCoverage
  <2> QED
    BY <2>1, <2>2
<1>11. PublishedInv'
  BY <1>2, <1>4 DEF PublishedInv
<1>12. StampInv'
  <2> SUFFICES ASSUME Skew = 0, NEW v \in Workers, stage'[v] # "idle"
               PROVE  /\ attempt'[v].at <= now
                      /\ token[v] = fence => \A c \in checkpoints : c.at <= attempt'[v].at
    BY <1>2 DEF StampInv
  <2>1. CASE v = w
    BY <2>1, <1>3, <1>9 DEF StampInv
  <2>2. CASE v # w
    BY <2>2, <1>9 DEF StampInv
  <2> QED
    BY <2>1, <2>2
<1> QED
  BY <1>5, <1>6, <1>7, <1>10, <1>11, <1>12

(* Failing, being fenced and being cancelled publish nothing. *)
LEMMA SyncQuietInv ==
    ASSUME Inv, NEW w \in Workers, SyncFails(w) \/ SyncFenced(w) \/ SyncCancelled(w)
    PROVE  Inv'
<1>1. UNCHANGED <<now, changes, owner, fence, expires, hold, token, begun, checkpoints, projected, latest, healthy>>
  BY DEF SyncFails, SyncFenced, SyncCancelled, leaseVars, headVars
<1>2. \/ stage' = [stage EXCEPT ![w] = "idle"] /\ attempt' = [attempt EXCEPT ![w] = Blank]
      \/ stage[w] = "started" /\ stage' = [stage EXCEPT ![w] = "failing"] /\ attempt' = attempt
  BY DEF SyncFails, SyncFenced, SyncCancelled, Forget
<1>3. Blank \in Attempts
  BY DEF Blank, Attempts, Statuses
<1>4. TypeOK'
  BY <1>1, <1>2, <1>3 DEF Inv, TypeOK
<1>5. \A v \in Workers : Quiet(v)
  BY <1>1, <1>2 DEF Inv, TypeOK, Quiet
<1> QED
  BY <1>1, <1>4, <1>5, QuietInv

(* The checkpoint of an attempt that still owns the lease is the newest. *)
LEMMA SyncCoverInv ==
    ASSUME Inv, NEW w \in Workers, SyncCover(w)
    PROVE  Inv'
<1> USE DEF Inv, ProjectionInv
<1>1. PICK complete \in BOOLEAN, next \in {"covered", "failing"} :
          /\ checkpoints' = checkpoints \cup
                {[id |-> attempt[w].id, at |-> attempt[w].at, complete |-> complete]}
          /\ attempt' = [attempt EXCEPT ![w].status = IF complete THEN "pending" ELSE "incomplete"]
          /\ stage' = [stage EXCEPT ![w] = next]
  BY DEF SyncCover
<1>2. /\ owner = w /\ fence = token[w] /\ stage[w] = "started"
      /\ UNCHANGED <<now, changes, owner, fence, expires, hold, token, begun, projected, latest, healthy>>
  BY DEF SyncCover, Owns, leaseVars, headVars
<1> DEFINE new == [id |-> attempt[w].id, at |-> attempt[w].at, complete |-> complete]
<1>3. attempt[w] \in Attempts /\ new \in Checkpoints
  BY DEF TypeOK, Attempts, Checkpoints
<1>4. /\ attempt'[w] = [attempt[w] EXCEPT !.status = IF complete THEN "pending" ELSE "incomplete"]
      /\ attempt'[w] \in Attempts
      /\ \A v \in Workers : v # w => stage'[v] = stage[v] /\ attempt'[v] = attempt[v]
      /\ stage'[w] = next
  BY <1>1, <1>3 DEF TypeOK, Attempts, Statuses
<1>5. /\ attempt'[w].id = attempt[w].id /\ attempt'[w].token = attempt[w].token
      /\ attempt'[w].base = attempt[w].base /\ attempt'[w].at = attempt[w].at
      /\ attempt'[w].status = IF complete THEN "pending" ELSE "incomplete"
  BY <1>3, <1>4 DEF Attempts
<1>6. /\ hold[w] = "held" /\ token[w] > 0 /\ attempt[w].token = token[w]
      /\ attempt[w].id \in 1..begun /\ attempt[w].base <= changes
      /\ Head!AttemptId(latest) < attempt[w].id
      /\ healthy # NoAttempt => healthy.base <= attempt[w].base
      /\ \A c \in checkpoints : c.id <= attempt[w].id
  BY <1>2 DEF AttemptInv
<1>7. TypeOK'
  <2>1. attempt' \in [Workers -> Attempts]
    BY <1>1, <1>3, <1>4 DEF TypeOK
  <2>2. checkpoints' \in SUBSET Checkpoints
    BY <1>1, <1>3 DEF TypeOK
  <2>3. stage' \in [Workers -> {"idle", "started", "covered", "read", "failing"}]
    BY <1>1 DEF TypeOK
  <2> QED
    BY <1>2, <2>1, <2>2, <2>3 DEF TypeOK
<1>8. LeaseIsExclusive' /\ TokenInv'
  BY <1>2 DEF LeaseIsExclusive, TokenInv
<1>9. HealthyHasItsEvidence'
  BY <1>1, <1>2 DEF HealthyHasItsEvidence, CompleteCoverage
<1>10. \A v \in Workers : v # w => token[v] # fence
  BY <1>2, <1>6 DEF LeaseIsExclusive
<1>11. \A i : CompleteCoverage(i) => CompleteCoverage(i)'
  BY <1>1 DEF CompleteCoverage
<1>12. complete => CompleteCoverage(attempt[w].id)'
  <2>1. new \in checkpoints' /\ new.id = attempt[w].id /\ new.complete = complete
    BY <1>1
  <2> QED
    BY <2>1, <1>5 DEF CompleteCoverage
<1>13. AttemptInv'
  <2> SUFFICES ASSUME NEW v \in Workers, stage'[v] # "idle" PROVE AttemptInv!(v)'
    BY DEF AttemptInv
  <2>1. CASE v = w
    <3>1. \A c \in checkpoints' : c.id <= attempt[w].id
      BY <1>1, <1>3, <1>6 DEF Attempts
    <3>2. stage'[w] = "covered" /\ attempt'[w].status # "incomplete" => CompleteCoverage(attempt[w].id)'
      BY <1>5, <1>12
    <3>3. stage'[w] # "read"
      BY <1>4
    <3>4. (Head!AttemptId(latest) < attempt[w].id)'
      BY <1>2, <1>5, <1>6 DEF Head!AttemptId
    <3> QED
      BY <2>1, <3>1, <3>2, <3>3, <3>4, <1>2, <1>5, <1>6
  <2>2. CASE v # w
    BY <2>2, <1>2, <1>4, <1>10, <1>11 DEF AttemptInv
  <2> QED
    BY <2>1, <2>2
<1>14. PublishedInv'
  BY <1>1, <1>2, <1>6 DEF PublishedInv
<1>15. StampInv'
  <2> SUFFICES ASSUME Skew = 0 PROVE StampInv'
    BY DEF StampInv
  <2>1. attempt[w].at <= now /\ \A c \in checkpoints : c.at <= attempt[w].at
    BY <1>2 DEF StampInv
  <2>2. attempt[w].at \in Int /\ attempt[w].id \in Nat
    BY <1>3 DEF Attempts
  <2>3. \A c \in checkpoints' : c = new \/ c \in checkpoints
    BY <1>1
  <2>4. new.id = attempt[w].id /\ new.at = attempt[w].at
    OBVIOUS
  <2>5. \A c \in checkpoints' : c.at <= now /\ c.at <= attempt[w].at
    BY <2>1, <2>2, <2>3, <2>4 DEF StampInv
  <2>6. \A c, d \in checkpoints' : c.id < d.id => c.at <= d.at
    <3> SUFFICES ASSUME NEW c \in checkpoints', NEW d \in checkpoints', c.id < d.id PROVE c.at <= d.at
      OBVIOUS
    <3>1. CASE d = new
      BY <3>1, <2>4, <2>5
    <3>2. CASE d \in checkpoints /\ c = new
      BY <3>2, <2>2, <2>4, <1>6 DEF TypeOK, Checkpoints
    <3>3. CASE d \in checkpoints /\ c \in checkpoints
      BY <3>3 DEF StampInv
    <3> QED
      BY <2>3, <3>1, <3>2, <3>3
  <2>7. \A v \in Workers : stage'[v] # "idle" =>
            /\ attempt'[v].at <= now
            /\ token[v] = fence => \A c \in checkpoints' : c.at <= attempt'[v].at
    <3> SUFFICES ASSUME NEW v \in Workers, stage'[v] # "idle"
                 PROVE  /\ attempt'[v].at <= now
                        /\ token[v] = fence => \A c \in checkpoints' : c.at <= attempt'[v].at
      OBVIOUS
    <3>1. CASE v = w
      BY <3>1, <1>5, <2>1, <2>5
    <3>2. CASE v # w
      BY <3>2, <1>4, <1>10 DEF StampInv
    <3> QED
      BY <3>1, <3>2
  <2> QED
    BY <1>2, <2>5, <2>6, <2>7 DEF StampInv
<1> QED
  BY <1>7, <1>8, <1>9, <1>13, <1>14, <1>15

(* Reading the components changes the status of one attempt only. *)
LEMMA SyncReadInv ==
    ASSUME Inv, NEW w \in Workers, SyncRead(w)
    PROVE  Inv'
<1> USE DEF Inv, ProjectionInv
<1>1. PICK s \in {"complete", "incomplete"} :
          /\ attempt[w].status = "incomplete" => s = "incomplete"
          /\ attempt' = [attempt EXCEPT ![w].status = s]
  BY DEF SyncRead
<1>2. /\ stage[w] = "covered" /\ stage' = [stage EXCEPT ![w] = "read"]
      /\ UNCHANGED <<now, changes, owner, fence, expires, hold, token, begun, checkpoints, projected, latest, healthy>>
  BY DEF SyncRead, leaseVars, headVars
<1>3. attempt[w] \in Attempts
  BY DEF TypeOK
<1>4. /\ attempt'[w] = [attempt[w] EXCEPT !.status = s] /\ attempt'[w] \in Attempts
      /\ \A v \in Workers : v # w => stage'[v] = stage[v] /\ attempt'[v] = attempt[v]
      /\ stage'[w] = "read"
  BY <1>1, <1>2, <1>3 DEF TypeOK, Attempts, Statuses
<1>5. /\ attempt'[w].id = attempt[w].id /\ attempt'[w].token = attempt[w].token
      /\ attempt'[w].base = attempt[w].base /\ attempt'[w].at = attempt[w].at /\ attempt'[w].status = s
  BY <1>3, <1>4 DEF Attempts
<1>6. TypeOK'
  BY <1>1, <1>2, <1>3, <1>4 DEF TypeOK
<1>7. LeaseIsExclusive' /\ TokenInv' /\ HealthyHasItsEvidence' /\ PublishedInv'
  BY <1>2 DEF LeaseIsExclusive, TokenInv, HealthyHasItsEvidence, CompleteCoverage, PublishedInv
<1>8. \A i : CompleteCoverage(i) => CompleteCoverage(i)'
  BY <1>2 DEF CompleteCoverage
<1>9. AttemptInv'
  <2> SUFFICES ASSUME NEW v \in Workers, stage'[v] # "idle" PROVE AttemptInv!(v)'
    BY DEF AttemptInv
  <2>1. CASE v = w
    <3>1. s = "complete" => CompleteCoverage(attempt[w].id)
      BY <1>1, <1>2 DEF AttemptInv
    <3>2. s = "complete" => CompleteCoverage(attempt[w].id)'
      BY <3>1, <1>2, <1>5 DEF CompleteCoverage
    <3>3. Head!AttemptId(latest)' = Head!AttemptId(latest)
      BY <1>2 DEF Head!AttemptId
    <3> QED
      BY <2>1, <3>2, <3>3, <1>2, <1>4, <1>5 DEF AttemptInv
  <2>2. CASE v # w
    BY <2>2, <1>2, <1>4 DEF AttemptInv, CompleteCoverage, Head!AttemptId
  <2> QED
    BY <2>1, <2>2
<1>10. StampInv'
  BY <1>2, <1>4, <1>5 DEF StampInv
<1> QED
  BY <1>6, <1>7, <1>9, <1>10

-----------------------------------------------------------------------------
(* What a step that moves the head does to it *)
Published(w) ==
    /\ token[w] = fence /\ fence > 0
    /\ latest' \in Attempts
    /\ latest'.id = attempt[w].id /\ latest'.token = fence
    /\ latest'.id \in 1..begun
    /\ Head!AttemptId(latest) < latest'.id
    /\ healthy' = IF latest'.status = "complete" THEN latest' ELSE healthy
    /\ latest'.status = "complete" => latest' = attempt[w] /\ stage[w] = "read"
    /\ healthy # NoAttempt => healthy' # NoAttempt /\ healthy.base <= healthy'.base
    /\ healthy' # NoAttempt => healthy'.base <= changes
    /\ stage' = [stage EXCEPT ![w] = "idle"] /\ attempt' = [attempt EXCEPT ![w] = Blank]
    /\ projected' \in {projected, projected \cup {latest'.id}}
    /\ latest'.status = "complete" => latest'.id \in projected'
    /\ UNCHANGED <<now, changes, owner, fence, expires, hold, token, begun, checkpoints>>

(* Only the owner of the newest fence token moves the head, and forwards. *)
LEMMA CommitPublishes ==
    ASSUME Inv, NEW w \in Workers, SyncCommit(w) \/ PersistFailed(w)
    PROVE  Published(w)
<1> USE DEF Inv, ProjectionInv
<1>1. stage[w] # "idle" /\ token[w] = fence
  BY DEF SyncCommit, PersistFailed, Owns
<1>2. /\ token[w] > 0 /\ attempt[w].token = token[w]
      /\ attempt[w].id \in 1..begun /\ attempt[w].base <= changes
      /\ Head!AttemptId(latest) < attempt[w].id
      /\ healthy # NoAttempt => healthy.base <= attempt[w].base
  BY <1>1 DEF AttemptInv
<1>3. attempt[w] \in Attempts /\ attempt[w] # NoAttempt
  BY NoAttemptAssumption DEF TypeOK
<1>4. healthy # NoAttempt => healthy.base \in Nat /\ healthy.base <= changes
  BY DEF TypeOK, Attempts, PublishedInv
<1>5. CASE SyncCommit(w)
  BY <1>1, <1>2, <1>3, <1>4, <1>5 DEF SyncCommit, Published, Forget, leaseVars
<1>6. CASE PersistFailed(w)
  <2> DEFINE a == [attempt[w] EXCEPT !.status = "failed"]
  <2>1. a \in Attempts /\ a.status = "failed" /\ a.id = attempt[w].id /\ a.token = attempt[w].token
    BY <1>3 DEF Attempts, Statuses
  <2>2. latest' = a /\ healthy' = healthy
    BY <1>6 DEF PersistFailed
  <2> HIDE DEF a
  <2> QED
    BY <1>1, <1>2, <1>4, <1>6, <2>1, <2>2 DEF PersistFailed, Published, Forget, leaseVars
<1> QED
  BY <1>5, <1>6

(* Moving the head keeps the invariant. *)
LEMMA PublishedKeepsInv ==
    ASSUME Inv, NEW w \in Workers, Published(w)
    PROVE  Inv'
<1> USE DEF Inv, ProjectionInv
<1>1. Blank \in Attempts
  BY DEF Blank, Attempts, Statuses
<1>2. latest' # NoAttempt
  BY NoAttemptAssumption DEF Published
<1>3. TypeOK'
  <2>1. stage' \in [Workers -> {"idle", "started", "covered", "read", "failing"}]
        /\ attempt' \in [Workers -> Attempts]
    BY <1>1 DEF Published, TypeOK
  <2>2. latest'.id \in Nat
    BY DEF Published, Attempts
  <2>3. projected' \in SUBSET Nat
    BY <2>2 DEF Published, TypeOK
  <2>4. healthy' \in Attempts \cup {NoAttempt}
    BY DEF Published, TypeOK
  <2> QED
    BY <2>1, <2>3, <2>4 DEF Published, TypeOK
<1>4. LeaseIsExclusive' /\ TokenInv'
  BY DEF Published, LeaseIsExclusive, TokenInv
<1>5. \A v \in Workers : stage'[v] # "idle" =>
          /\ v # w /\ stage'[v] = stage[v] /\ attempt'[v] = attempt[v]
          /\ token[v] # fence
  BY DEF Published, TypeOK, LeaseIsExclusive
<1>6. AttemptInv'
  BY <1>5 DEF AttemptInv, Published, CompleteCoverage
<1>7. StampInv'
  BY <1>5 DEF StampInv, Published
<1>8. HealthyHasItsEvidence'
  <2>1. CASE latest'.status = "complete"
    <3>1. healthy' = latest' /\ latest' = attempt[w] /\ stage[w] = "read"
      BY <2>1 DEF Published
    <3>2. CompleteCoverage(attempt[w].id)
      BY <2>1, <3>1 DEF AttemptInv
    <3>3. CompleteCoverage(healthy.id)'
      BY <3>1, <3>2 DEF CompleteCoverage, Published
    <3> QED
      BY <2>1, <3>1, <3>3 DEF HealthyHasItsEvidence, Published
  <2>2. CASE latest'.status # "complete"
    BY <2>2 DEF HealthyHasItsEvidence, CompleteCoverage, Published
  <2> QED
    BY <2>1, <2>2
<1>9. PublishedInv'
  <2>1. latest'.id \in Nat /\ latest'.id \in 1..begun /\ latest'.token <= fence
    BY DEF Published, Attempts, TypeOK
  <2>2. latest # NoAttempt => latest.id \in Nat /\ latest.id < latest'.id
    BY DEF Published, Head!AttemptId, TypeOK, Attempts
  <2>3. healthy' # NoAttempt => healthy'.id <= latest'.id
    <3>1. CASE healthy' = latest'
      BY <3>1, <2>1
    <3>2. CASE healthy' = healthy /\ healthy # NoAttempt
      BY <3>2, <2>1, <2>2 DEF PublishedInv, TypeOK, Attempts
    <3> QED
      BY <3>1, <3>2 DEF Published
  <2>4. \A c \in projected' : c <= latest'.id
    BY <2>1, <2>2 DEF Published, PublishedInv, TypeOK
  <2> QED
    BY <1>2, <2>1, <2>3, <2>4 DEF Published, PublishedInv
<1> QED
  BY <1>3, <1>4, <1>6, <1>7, <1>8, <1>9

-----------------------------------------------------------------------------
LEMMA NextInv == Inv /\ [Next]_vars => Inv'
<1> SUFFICES ASSUME Inv, [Next]_vars PROVE Inv'
  OBVIOUS
<1>1. CASE Tick
  BY <1>1, TickInv
<1>2. CASE VenueChange
  BY <1>2, VenueChangeInv
<1>3. ASSUME NEW w \in Workers, LeaseStep(w) PROVE Inv'
  BY <1>3, AcquireInv, LeaseQuietInv DEF LeaseStep
<1>4. ASSUME NEW w \in Workers, SyncStep(w) PROVE Inv'
  <2>1. CASE SyncStart(w)
    BY <2>1, SyncStartInv
  <2>2. CASE SyncCover(w)
    BY <2>2, SyncCoverInv
  <2>3. CASE SyncRead(w)
    BY <2>3, SyncReadInv
  <2>4. CASE SyncCommit(w) \/ PersistFailed(w)
    BY <2>4, CommitPublishes, PublishedKeepsInv
  <2>5. CASE SyncFails(w) \/ SyncFenced(w) \/ SyncCancelled(w)
    BY <2>5, SyncQuietInv
  <2> QED
    BY <1>4, <2>1, <2>2, <2>3, <2>4, <2>5 DEF SyncStep
<1>5. CASE UNCHANGED vars
  <2>1. /\ TypeOK' = TypeOK
        /\ \A v \in Workers : Quiet(v)
        /\ UNCHANGED <<now, changes, owner, fence, token, begun, checkpoints, projected, latest, healthy>>
    BY <1>5 DEF vars, leaseVars, workVars, headVars, TypeOK, Quiet
  <2> QED
    BY <2>1, QuietInv DEF Inv
<1> QED
  BY <1>1, <1>2, <1>3, <1>4, <1>5 DEF Next

(* The fenced projection keeps its inductive invariant, whatever the clocks, *)
(* stalls, failures and crashes of the workers.                              *)
THEOREM ProjectionInvariant == Spec => [](TypeOK /\ ProjectionInv)
<1>1. Init => Inv
  BY InitInv
<1>2. Inv /\ [Next]_vars => Inv'
  BY NextInv
<1> QED
  BY <1>1, <1>2, PTL DEF Spec, Inv

(* Every variable keeps its type (leases, attempts, checkpoints and the head *)
(* row).                                                                     *)
THEOREM TypeCorrect == Spec => []TypeOK
BY ProjectionInvariant, PTL

(* No two workers hold the same lease generation (acquire). *)
THEOREM LeaseExclusive == Spec => []LeaseIsExclusive
<1>1. ProjectionInv => LeaseIsExclusive
  BY DEF ProjectionInv
<1> QED
  BY <1>1, ProjectionInvariant, PTL

(* The healthy head names a complete attempt over complete coverage          *)
(* (synchronize, _persist_failed_attempt).                                   *)
THEOREM HealthyEvidence == Spec => []HealthyHasItsEvidence
<1>1. ProjectionInv => HealthyHasItsEvidence
  BY DEF ProjectionInv
<1> QED
  BY <1>1, ProjectionInvariant, PTL

(* With agreeing clocks, what the reader calls current is the newest         *)
(* coverage anybody has committed (read).                                    *)
THEOREM CurrentIsNewest == Spec => []CurrentShowsNewestCoverage
<1>1. TypeOK /\ ProjectionInv => CurrentShowsNewestCoverage
  <2> SUFFICES ASSUME TypeOK, ProjectionInv, Skew = 0, ShownAsCurrent
               PROVE  /\ \E c \in checkpoints : c.id = healthy.id
                      /\ \A c \in checkpoints : c.id <= healthy.id
    BY DEF CurrentShowsNewestCoverage
  <2>1. latest.id = healthy.id /\ healthy \in Attempts /\ healthy # NoAttempt
    BY DEF ShownAsCurrent, TypeOK
  <2>2. PICK c \in checkpoints : c.id \in projected /\ \A d \in checkpoints \ {c} : Newer(c, d)
    BY DEF ShownAsCurrent
  <2>3. PICK h \in checkpoints : h.id = healthy.id
    BY <2>1 DEF ProjectionInv, HealthyHasItsEvidence, CompleteCoverage
  <2>4. \A d \in checkpoints : d.id \in Nat /\ d.at \in Int
    BY DEF TypeOK, Checkpoints
  <2>5. c.id <= healthy.id
    BY <2>1, <2>2 DEF ProjectionInv, PublishedInv
  <2>6. \A d, e \in checkpoints : d.id < e.id => d.at <= e.at
    BY DEF ProjectionInv, StampInv
  <2>7. \A d \in checkpoints : d.id <= c.id
    BY <2>2, <2>4, <2>6 DEF Newer
  <2>8. healthy.id <= c.id
    BY <2>3, <2>7
  <2>9. healthy.id \in Nat
    BY <2>1 DEF Attempts
  <2> QED
    BY <2>3, <2>4, <2>5, <2>7, <2>8, <2>9
<1> QED
  BY <1>1, ProjectionInvariant, PTL

-----------------------------------------------------------------------------
(* A step publishes, or leaves the head alone. *)
LEMMA HeadStep ==
    ASSUME Inv, [Next]_vars
    PROVE  \/ \E w \in Workers : Published(w)
           \/ UNCHANGED <<latest, healthy>> /\ fence' \in {fence, fence + 1}
<1>1. CASE Tick \/ VenueChange \/ UNCHANGED vars
  BY <1>1 DEF Tick, VenueChange, vars, leaseVars, headVars
<1>2. ASSUME NEW w \in Workers, LeaseStep(w)
      PROVE  UNCHANGED <<latest, healthy>> /\ fence' \in {fence, fence + 1}
  BY <1>2 DEF LeaseStep, Acquire, Renew, Stop, Release, Crash, leaseVars, headVars
<1>3. ASSUME NEW w \in Workers, SyncStep(w)
      PROVE  Published(w) \/ UNCHANGED <<latest, healthy, fence>>
  <2>1. CASE SyncCommit(w) \/ PersistFailed(w)
    BY <2>1, CommitPublishes
  <2>2. CASE SyncStart(w) \/ SyncCover(w) \/ SyncFails(w) \/ SyncRead(w) \/ SyncFenced(w) \/ SyncCancelled(w)
    BY <2>2 DEF SyncStart, SyncCover, SyncFails, SyncRead, SyncFenced, SyncCancelled, leaseVars, headVars
  <2> QED
    BY <1>3, <2>1, <2>2 DEF SyncStep
<1> QED
  BY <1>1, <1>2, <1>3 DEF Next

(* The healthy portfolio on display never becomes an older one (synchronize  *)
(* compares the fence under the row lock).                                   *)
THEOREM HealthyMonotone == Spec => HealthyNeverGetsOlder
<1>1. Inv /\ [Next]_vars => [healthy # NoAttempt => healthy' # NoAttempt /\ healthy'.base >= healthy.base]_vars
  <2> SUFFICES ASSUME Inv, [Next]_vars, healthy # NoAttempt
               PROVE  healthy' # NoAttempt /\ healthy'.base >= healthy.base
    OBVIOUS
  <2>1. healthy.base \in Nat
    BY DEF Inv, TypeOK, Attempts
  <2>2. CASE \E w \in Workers : Published(w)
    BY <2>2 DEF Published
  <2>3. CASE UNCHANGED healthy
    BY <2>1, <2>3
  <2> QED
    BY <2>2, <2>3, HeadStep
<1> QED
  BY <1>1, ProjectionInvariant, PTL DEF Spec, Inv, HealthyNeverGetsOlder

(* Lease and synchronizers implement the promise of the head                 *)
(* (KalshiPortfolioHead): every step publishes under the newest fence, takes *)
(* the lease over, or leaves the head alone.                                 *)
THEOREM HeadRefinement == Spec => ImplementsHead
<1>1. Init => Head!HeadInit
  BY DEF Init, Head!HeadInit
<1>2. Inv /\ [Next]_vars => [Head!HeadNext]_(Head!headVars)
  <2> SUFFICES ASSUME Inv, [Next]_vars PROVE [Head!HeadNext]_(Head!headVars)
    OBVIOUS
  <2>1. CASE \E w \in Workers : Published(w)
    <3>1. PICK w \in Workers : Published(w)
      BY <2>1
    <3>2. latest' # NoAttempt
      BY <3>1, NoAttemptAssumption DEF Published
    <3>3. Head!AttemptId(latest)' = latest'.id
      BY <3>2 DEF Head!AttemptId
    <3>4. Head!Publish
      BY <3>1, <3>3 DEF Published, Head!Publish, Head!AttemptId, Inv, TypeOK, Attempts
    <3> QED
      BY <3>4 DEF Head!HeadNext
  <2>2. CASE UNCHANGED <<latest, healthy>> /\ fence' \in {fence, fence + 1}
    BY <2>2 DEF Head!HeadNext, Head!TakeOver, Head!headVars
  <2> QED
    BY <2>1, <2>2, HeadStep
<1> QED
  BY <1>1, <1>2, ProjectionInvariant, PTL DEF Spec, Inv, ImplementsHead, Head!HeadSpec
=============================================================================
