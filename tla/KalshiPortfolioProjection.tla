---------------------- MODULE KalshiPortfolioProjection ----------------------
(***************************************************************************)
(* The fenced portfolio projection of one principal                        *)
(* (kalshi_portfolio_projection.py, kalshi_portfolio_coverage.py):         *)
(* worker processes compete for the lease row, synchronize through several *)
(* transactions with venue reads in between, stall, fail, are cancelled    *)
(* and crash.                                                              *)
(*                                                                         *)
(* Every transaction locks the lease row first and is one step.  The clock *)
(* of a worker may differ from the true time by Skew.  A worker is one     *)
(* process: its owner id is drawn once, in start_loop, and a process that  *)
(* crashes does not come back.                                             *)
(*                                                                         *)
(* Attempts are numbered in the order they begin; the number stands for    *)
(* their random ids.  started_at is a clock reading; within a tick, which  *)
(* stands for many microseconds, attempts are stamped in their order.      *)
(***************************************************************************)
EXTENDS Integers

CONSTANTS
    Workers,
    None,           \* owner of a lease row that does not exist yet
    NoAttempt,      \* head that does not exist yet
    TTL,            \* LEASE_TTL
    Skew,           \* largest error of a worker's clock
    MaxTime,        \* bound: ticks of the true clock
    MaxFence,       \* bound: lease generations
    MaxAttempts,    \* bound: synchronizations begun
    MaxChanges      \* bound: changes of the portfolio at the venue

ASSUME ProjectionAssumption ==
    /\ None \notin Workers
    /\ TTL \in Nat \ {0} /\ Skew \in Nat
    /\ MaxTime \in Nat /\ MaxFence \in Nat /\ MaxAttempts \in Nat /\ MaxChanges \in Nat

VARIABLES
    now,            \* true time
    changes,        \* changes of the portfolio at the venue so far
    owner, fence, expires,      \* the lease row; fence 0 while there is none
    hold,           \* place of each worker's loop
    token,          \* fence token of each worker's last lease
    begun,          \* synchronizations begun by all workers
    stage,          \* how far each worker's synchronization is
    attempt,        \* the attempt each worker is preparing
    checkpoints,    \* coverage checkpoints: attempt, its started_at, complete or not
    projected,      \* attempts published with their coverage_id
    latest, healthy \* the head row

leaseVars == <<owner, fence, expires>>
workVars == <<hold, token, stage, attempt>>
headVars == <<latest, healthy>>
vars == <<now, changes, leaseVars, workVars, begun, checkpoints, projected, headVars>>

Statuses == {"pending", "complete", "incomplete", "failed"}
Attempts == [id : Nat, token : Nat, base : Nat, at : Int, status : Statuses]
Checkpoints == [id : Nat, at : Int, complete : BOOLEAN]

ASSUME NoAttemptAssumption == NoAttempt \notin Attempts

TypeOK ==
    /\ now \in Nat /\ changes \in Nat
    /\ owner \in Workers \cup {None} /\ fence \in Nat /\ expires \in Int
    /\ hold \in [Workers -> {"off", "held", "ending", "dead"}]
    /\ token \in [Workers -> Nat]
    /\ begun \in Nat
    /\ stage \in [Workers -> {"idle", "started", "covered", "read", "failing"}]
    /\ attempt \in [Workers -> Attempts]
    /\ checkpoints \in SUBSET Checkpoints /\ projected \in SUBSET Nat
    /\ latest \in Attempts \cup {NoAttempt} /\ healthy \in Attempts \cup {NoAttempt}

Blank == [id |-> 0, token |-> 0, base |-> 0, at |-> 0, status |-> "pending"]

Init ==
    /\ now = 0 /\ changes = 0
    /\ owner = None /\ fence = 0 /\ expires = 0
    /\ hold = [w \in Workers |-> "off"] /\ token = [w \in Workers |-> 0]
    /\ begun = 0
    /\ stage = [w \in Workers |-> "idle"] /\ attempt = [w \in Workers |-> Blank]
    /\ checkpoints = {} /\ projected = {}
    /\ latest = NoAttempt /\ healthy = NoAttempt

-----------------------------------------------------------------------------
(* The lease service *)

(* What a worker's clock may show. *)
Readings == (now - Skew)..(now + Skew)

(* Mutant: the fence token is not compared. *)
OwnsUnfenced(w) == \E t \in Readings : expires > t

(* The check every transaction makes on the locked lease row. *)
Owns(w) == owner = w /\ fence = token[w] /\ \E t \in Readings : expires > t

Fenced(w) == owner # w \/ fence # token[w] \/ \E t \in Readings : expires <= t

(* Mutant: taking over an expired lease keeps its token. *)
AcquireSameFence(w) ==
    /\ hold[w] = "off" /\ fence < MaxFence
    /\ \E t \in Readings :
          /\ fence = 0 \/ expires <= t \/ owner = w
          /\ expires' = t + TTL
    /\ owner' = w
    /\ fence' = IF fence = 0 THEN 1 ELSE fence
    /\ token' = [token EXCEPT ![w] = fence']
    /\ hold' = [hold EXCEPT ![w] = "held"]
    /\ UNCHANGED <<now, changes, stage, attempt, begun, checkpoints, projected, headVars>>

(* acquire: insert the row, or take over one that is expired or one's own.   *)
(* When the commit is reported as failed the worker does not learn the token *)
(* and tries again later.                                                    *)
Acquire(w) ==
    /\ hold[w] = "off" /\ fence < MaxFence
    /\ \E t \in Readings :
          /\ fence = 0 \/ expires <= t \/ owner = w
          /\ expires' = t + TTL
    /\ owner' = w
    /\ fence' = fence + 1
    /\ \/ /\ token' = [token EXCEPT ![w] = fence + 1]
          /\ hold' = [hold EXCEPT ![w] = "held"]
       \/ UNCHANGED <<token, hold>>
    /\ UNCHANGED <<now, changes, stage, attempt, begun, checkpoints, projected, headVars>>

(* A synchronization ends; nothing of it stays in memory. *)
Forget(w) ==
    /\ stage' = [stage EXCEPT ![w] = "idle"]
    /\ attempt' = [attempt EXCEPT ![w] = Blank]

(* renew keeps the token; a worker that fails to renew stops its runner. *)
Renew(w) ==
    /\ hold[w] = "held"
    /\ \E t \in Readings :
          IF owner = w /\ fence = token[w] /\ expires > t
          THEN expires' = t + TTL /\ UNCHANGED <<hold, stage, attempt>>
          ELSE hold' = [hold EXCEPT ![w] = "ending"] /\ Forget(w) /\ UNCHANGED expires
    /\ UNCHANGED <<now, changes, owner, fence, token, begun, checkpoints, projected, headVars>>

(* Disabled, paused or failed: the runner is cancelled and awaited first. *)
Stop(w) ==
    /\ hold[w] = "held"
    /\ hold' = [hold EXCEPT ![w] = "ending"]
    /\ Forget(w)
    /\ UNCHANGED <<now, changes, leaseVars, token, begun, checkpoints, projected, headVars>>

(* release expires the lease without looking whether it already is; the      *)
(* worker goes on when it fails.                                             *)
Release(w) ==
    /\ hold[w] = "ending"
    /\ \/ owner = w /\ fence = token[w] /\ expires' \in Readings
       \/ UNCHANGED expires
    /\ hold' = [hold EXCEPT ![w] = "off"]
    /\ UNCHANGED <<now, changes, owner, fence, token, stage, attempt, begun, checkpoints,
                   projected, headVars>>

-----------------------------------------------------------------------------
(* synchronize *)
SyncStart(w) ==
    /\ hold[w] = "held" /\ stage[w] = "idle" /\ begun < MaxAttempts
    /\ Owns(w)
    /\ begun' = begun + 1
    /\ stage' = [stage EXCEPT ![w] = "started"]
    /\ \E t \in Readings : attempt' = [attempt EXCEPT ![w] =
          [id |-> begun + 1, token |-> token[w], base |-> changes, at |-> t, status |-> "pending"]]
    /\ UNCHANGED <<now, changes, leaseVars, hold, token, checkpoints, projected, headVars>>

(* The sweep commits its checkpoint, complete or not.  The commit may also   *)
(* succeed and be reported as failed.                                        *)
SyncCover(w) ==
    /\ stage[w] = "started" /\ Owns(w)
    /\ \E complete \in BOOLEAN, next \in {"covered", "failing"} :
          /\ checkpoints' = checkpoints \cup
                {[id |-> attempt[w].id, at |-> attempt[w].at, complete |-> complete]}
          /\ attempt' = [attempt EXCEPT ![w].status = IF complete THEN "pending" ELSE "incomplete"]
          /\ stage' = [stage EXCEPT ![w] = next]
    /\ UNCHANGED <<now, changes, leaseVars, hold, token, begun, projected, headVars>>

SyncFails(w) ==
    /\ stage[w] = "started"
    /\ stage' = [stage EXCEPT ![w] = "failing"]
    /\ UNCHANGED <<now, changes, leaseVars, hold, token, attempt, begun, checkpoints, projected, headVars>>

(* Positions, balance and settlements are read; a failed read, a gap of the  *)
(* coverage or too much skew between them makes the attempt incomplete.      *)
SyncRead(w) ==
    /\ stage[w] = "covered"
    /\ \E s \in {"complete", "incomplete"} :
          /\ attempt[w].status = "incomplete" => s = "incomplete"
          /\ attempt' = [attempt EXCEPT ![w].status = s]
    /\ stage' = [stage EXCEPT ![w] = "read"]
    /\ UNCHANGED <<now, changes, leaseVars, hold, token, begun, checkpoints, projected, headVars>>

(* The attempt and the head in one transaction. *)
SyncCommit(w) ==
    /\ stage[w] = "read" /\ Owns(w)
    /\ latest' = attempt[w]
    /\ healthy' = IF attempt[w].status = "complete" THEN attempt[w] ELSE healthy
    /\ projected' = projected \cup {attempt[w].id}
    /\ Forget(w)
    /\ UNCHANGED <<now, changes, leaseVars, hold, token, begun, checkpoints>>

(* _persist_failed_attempt, without a coverage_id *)
PersistFailed(w) ==
    /\ stage[w] = "failing" /\ Owns(w)
    /\ latest' = [attempt[w] EXCEPT !.status = "failed"]
    /\ Forget(w)
    /\ UNCHANGED <<now, changes, leaseVars, hold, token, begun, checkpoints, projected, healthy>>

(* A transaction finds itself fenced and raises. *)
SyncFenced(w) ==
    /\ stage[w] \in {"read", "failing"} /\ Fenced(w)
    /\ Forget(w)
    /\ UNCHANGED <<now, changes, leaseVars, hold, token, begun, checkpoints, projected, headVars>>

(* The runner gives up on it: timeout, reader failure. *)
SyncCancelled(w) ==
    /\ stage[w] # "idle"
    /\ Forget(w)
    /\ UNCHANGED <<now, changes, leaseVars, hold, token, begun, checkpoints, projected, headVars>>

Crash(w) ==
    /\ hold[w] # "dead"
    /\ hold' = [hold EXCEPT ![w] = "dead"]
    /\ Forget(w)
    /\ UNCHANGED <<now, changes, leaseVars, token, begun, checkpoints, projected, headVars>>

Tick ==
    /\ now < MaxTime
    /\ now' = now + 1
    /\ UNCHANGED <<changes, leaseVars, workVars, begun, checkpoints, projected, headVars>>

VenueChange ==
    /\ changes < MaxChanges
    /\ changes' = changes + 1
    /\ UNCHANGED <<now, leaseVars, workVars, begun, checkpoints, projected, headVars>>

LeaseStep(w) == Acquire(w) \/ Renew(w) \/ Stop(w) \/ Release(w) \/ Crash(w)
SyncStep(w) ==
    \/ SyncStart(w) \/ SyncCover(w) \/ SyncFails(w) \/ SyncRead(w) \/ SyncCommit(w)
    \/ PersistFailed(w) \/ SyncFenced(w) \/ SyncCancelled(w)

Next == Tick \/ VenueChange \/ \E w \in Workers : LeaseStep(w) \/ SyncStep(w)

Spec == Init /\ [][Next]_vars

-----------------------------------------------------------------------------
(* Mutant: the newest coverage checkpoint is not looked up. *)
ShownAsCurrentUncovered == latest # NoAttempt /\ healthy # NoAttempt /\ latest.id = healthy.id

Newer(c, d) == c.at > d.at \/ (c.at = d.at /\ c.id > d.id)

(* The part of KalshiPortfolioProjectionReader.read's decision that is about *)
(* attempts: the newest checkpoint has been projected and the latest attempt *)
(* is the healthy one.                                                       *)
ShownAsCurrent ==
    /\ latest # NoAttempt /\ healthy # NoAttempt
    /\ \E c \in checkpoints : c.id \in projected /\ \A d \in checkpoints \ {c} : Newer(c, d)
    /\ latest.id = healthy.id

-----------------------------------------------------------------------------
(* What the reader calls current is the projection of the newest evidence    *)
(* anybody has committed, provided the clocks of the workers agree: a crash  *)
(* or failure between the coverage commit and the head, in any process, is   *)
(* never shown as current (read, "coverage_pending_projection").             *)
CurrentShowsNewestCoverage ==
    Skew = 0 /\ ShownAsCurrent =>
        /\ \E c \in checkpoints : c.id = healthy.id
        /\ \A c \in checkpoints : c.id <= healthy.id

CompleteCoverage(i) == \E c \in checkpoints : c.id = i /\ c.complete

(* The healthy head always names a complete attempt over complete coverage   *)
(* that exists, so read's "references a non-complete attempt" cannot be raised            *)
(* (synchronize, _persist_failed_attempt).                                   *)
HealthyHasItsEvidence ==
    healthy # NoAttempt =>
        /\ healthy.status = "complete" /\ healthy.token > 0
        /\ healthy.id \in projected
        /\ CompleteCoverage(healthy.id)

(* However clocks and stalls go, no two workers believe they hold the same   *)
(* lease generation, and only the newest one's owner is in the row           *)
(* (acquire).                                                                *)
LeaseIsExclusive ==
    /\ \A v, w \in Workers : token[v] = token[w] /\ token[v] # 0 => v = w
    /\ \A w \in Workers : token[w] = fence /\ fence # 0 => owner = w

(* The healthy portfolio on display never becomes an older one: a worker     *)
(* that stalled past its lease cannot publish what it read before a newer    *)
(* worker did (synchronize checks the fence under the row lock).             *)
HealthyNeverGetsOlder ==
    [][healthy # NoAttempt => healthy' # NoAttempt /\ healthy'.base >= healthy.base]_vars

(* The lease and the synchronizers implement the head's promise              *)
(* (KalshiPortfolioHead): attempts appear in order, under the newest fence,  *)
(* and a degraded one leaves the healthy one alone.                          *)
Head == INSTANCE KalshiPortfolioHead
        WITH NoAttempt <- NoAttempt, fence <- fence, latest <- latest, healthy <- healthy
ImplementsHead == Head!HeadSpec

-----------------------------------------------------------------------------
(* The inductive invariant behind them: a synchronization under way carries  *)
(* its worker's token, and the one that could still commit is newer than     *)
(* everything published and as new as every checkpoint.                      *)
AttemptInv ==
    \A w \in Workers : stage[w] # "idle" =>
        /\ hold[w] = "held" /\ token[w] > 0
        /\ attempt[w].token = token[w]
        /\ attempt[w].id \in 1..begun /\ attempt[w].base <= changes
        /\ stage[w] = "covered" /\ attempt[w].status # "incomplete" => CompleteCoverage(attempt[w].id)
        /\ stage[w] = "read" /\ attempt[w].status = "complete" => CompleteCoverage(attempt[w].id)
        /\ token[w] = fence =>
              /\ Head!AttemptId(latest) < attempt[w].id
              /\ healthy # NoAttempt => healthy.base <= attempt[w].base
              /\ \A c \in checkpoints : c.id <= attempt[w].id

PublishedInv ==
    /\ latest # NoAttempt => latest.id \in 1..begun /\ latest.token <= fence
    /\ healthy # NoAttempt => latest # NoAttempt /\ healthy.id <= latest.id
                                /\ healthy.base <= changes
    /\ \A c \in checkpoints : c.id \in 1..begun
    /\ \A c \in projected : latest # NoAttempt /\ c <= latest.id

(* When the clocks agree, started_at orders checkpoints as their attempts.   *)
StampInv ==
    Skew = 0 =>
        /\ \A c \in checkpoints : c.at <= now
        /\ \A c, d \in checkpoints : c.id < d.id => c.at <= d.at
        /\ \A w \in Workers : stage[w] # "idle" =>
              /\ attempt[w].at <= now
              /\ token[w] = fence => \A c \in checkpoints : c.at <= attempt[w].at

TokenInv == (fence = 0 => owner = None) /\ \A w \in Workers : token[w] <= fence

ProjectionInv ==
    /\ TokenInv /\ LeaseIsExclusive /\ HealthyHasItsEvidence /\ AttemptInv /\ PublishedInv /\ StampInv
=============================================================================
