------------------------- MODULE KalshiPaperTestTrade -------------------------
(***************************************************************************)
(* One Test Trade (kalshi_paper_test_trade_service.py): a run that the     *)
(* operator starts, whose entry and exits go through the paper ledger, and *)
(* that a worker recovers and ticks (kalshi_paper_test_trade_worker.py).   *)
(* The run's advisory lock serialises the service's operations; the        *)
(* process that holds it may die at any step, or lose the connection the   *)
(* lock lives on and go on.                                                *)
(*                                                                         *)
(* The ledger appears as what KalshiPaperLedger shows of it: an intent, at *)
(* most one decision for it, a rejection for an intent found without one,  *)
(* and the position's lock from the intent to the decision.  Both keep     *)
(* KalshiPaperContract.                                                    *)
(***************************************************************************)
EXTENDS Naturals, Sequences, FiniteSets, FiniteSetsExt

CONSTANTS
    Quantity,       \* of the entry
    MaxEvents,      \* bound on the events of a run
    MaxFailures,    \* bound on deaths of processes and losses of locks
    None

Open == Quantity + 1        \* filled, while there is no decision
LedgerRows == [qty : 0..Quantity, filled : 0..Open]

ASSUME TestTradeAssumption ==
    /\ Quantity \in Nat \ {0} /\ MaxEvents \in Nat \ {0} /\ MaxFailures \in Nat
    /\ None \notin LedgerRows

Entry == 0
Manual == MaxEvents + 1     \* a close that somebody makes by hand
Triggers == 1..MaxEvents    \* an exit is identified by its trigger's sequence
Exits == Triggers \cup {Manual}

Procs == {"api", "worker"}

VARIABLES
    status,     \* of the run
    bound,      \* run.position_id is set
    events,     \* the run's event rows
    ledger,     \* intent and decision of each identity
    posLock,    \* holder of the position's advisory lock
    lock,       \* holder of the run's advisory lock
    proc,       \* what each process is doing
    failures

runVars == <<status, bound, events, ledger, posLock, lock, proc, failures>>

EventTypes == {"started", "entry_filled", "entry_unfilled", "observed", "triggered", "exit_filled",
               "exit_partial", "exit_no_fill", "paused", "resumed", "stopped", "completed", "blocked"}
Statuses == {"none", "starting", "entry_unfilled", "monitoring", "paused", "stopped", "completed", "blocked"}
ExitEvents == {"exit_filled", "exit_partial", "exit_no_fill"}

Idle == [pc |-> "idle", trigger |-> 0, remaining |-> 0]

RunTypeOK ==
    /\ status \in Statuses /\ bound \in BOOLEAN
    /\ events \in Seq([type : EventTypes, exit : {0} \cup Triggers, remaining : 0..Quantity])
    /\ Len(events) <= MaxEvents + 3
    /\ ledger \in [{Entry} \cup Exits -> LedgerRows \cup {None}]
    /\ posLock \in Procs \cup {"manual", "free"}
    /\ lock \in Procs \cup {"free"}
    /\ proc \in [Procs -> [pc : {"idle", "create", "entry", "entryQuote", "refused", "bind", "check", "quote", "exit",
                                 "exitQuote", "stale", "project", "record"},
                           trigger : {0} \cup Triggers, remaining : 0..Quantity]]

RunInit ==
    /\ status = "none" /\ bound = FALSE /\ events = <<>>
    /\ ledger = [d \in {Entry} \cup Exits |-> None]
    /\ posLock = "free" /\ lock = "free"
    /\ proc = [p \in Procs |-> Idle]
    /\ failures = 0

-----------------------------------------------------------------------------
Decided(d) == ledger[d] # None /\ ledger[d].filled # Open
Unresolved(d) == ledger[d] # None /\ ledger[d].filled = Open
Filled(d) == IF Decided(d) THEN ledger[d].filled ELSE 0

(* _position_projection *)
Remaining == IF bound THEN Filled(Entry) - SumFunction([d \in Exits |-> Filled(d)]) ELSE 0

Event(t, x, n) == [type |-> t, exit |-> x, remaining |-> n]
AppendEvent(t, x, n) == events' = Append(events, Event(t, x, n))

Goto(p, pc) == proc' = [proc EXCEPT ![p].pc = pc]

(* The operation of p ends: its lock, if it still has it, is released. *)
Done(p) ==
    /\ proc' = [proc EXCEPT ![p] = Idle]
    /\ lock' = IF lock = p THEN "free" ELSE lock

Fails(p) == Done(p) /\ UNCHANGED <<status, bound, events, ledger, posLock, failures>>

(* _block_run *)
Block(p) ==
    /\ status' = "blocked" /\ AppendEvent("blocked", 0, 0)
    /\ Done(p)
    /\ UNCHANGED <<bound, ledger, posLock, failures>>

-----------------------------------------------------------------------------
(* start_run, by the operator or by the worker that recovers a run *)
StartRun(p) ==
    /\ proc[p] = Idle /\ lock = "free"
    /\ p = "api" \/ status = "starting"
    /\ lock' = p /\ Goto(p, "create")
    /\ UNCHANGED <<status, bound, events, ledger, posLock, failures>>

(* The run and its first event commit before the entry is evaluated. *)
Create(p) ==
    /\ proc[p].pc = "create"
    /\ \/ /\ status = "none"
          /\ status' = "starting" /\ AppendEvent("started", 0, 0)
          /\ Goto(p, "entry")
          /\ UNCHANGED <<bound, ledger, posLock, lock, failures>>
       \/ /\ status = "starting"
          /\ Goto(p, "entry")
          /\ UNCHANGED <<status, bound, events, ledger, posLock, lock, failures>>
       \/ status \notin {"none", "starting"} /\ Fails(p)

Resolve(d, n) == ledger' = [ledger EXCEPT ![d].filled = n]

(* record_decision of the stable entry identity, up to its intent; a crash   *)
(* left intent is rejected, an opportunity that is gone is refused.  The     *)
(* status is read before: a run that has moved on since is noticed or not.   *)
RecordEntry(p) ==
    /\ proc[p].pc = "entry"
    /\ \A q \in Procs : proc[q].pc # "entryQuote"
    /\ \/ status # "starting" /\ Fails(p)
       \/ /\ ledger[Entry] # None
          /\ IF Unresolved(Entry) THEN Resolve(Entry, 0) ELSE UNCHANGED ledger
          /\ Goto(p, "bind")
          /\ UNCHANGED <<status, bound, events, posLock, lock, failures>>
       \/ /\ ledger[Entry] = None
          /\ ledger' = [ledger EXCEPT ![Entry] = [qty |-> Quantity, filled |-> Open]]
          /\ Goto(p, "entryQuote")
          /\ UNCHANGED <<status, bound, events, posLock, lock, failures>>
       \/ /\ ledger[Entry] = None
          /\ Goto(p, "refused")
          /\ UNCHANGED <<status, bound, events, ledger, posLock, lock, failures>>

(* The block of a refused entry does not look at the status again.           *)
BlockEntry(p) ==
    /\ proc[p].pc = "refused"
    /\ IF Len(events) < MaxEvents THEN Block(p) ELSE Fails(p)

DecideEntry(p) ==
    /\ proc[p].pc = "entryQuote"
    /\ \E n \in 0..Quantity : Resolve(Entry, n)
    /\ Goto(p, "bind")
    /\ UNCHANGED <<status, bound, events, posLock, lock, failures>>

BindEntry(p) ==
    /\ proc[p].pc = "bind"
    /\ IF status # "starting"
       THEN Fails(p)
       ELSE LET n == Filled(Entry) IN
            /\ bound' = (n > 0)
            /\ status' = IF n > 0 THEN "monitoring" ELSE "entry_unfilled"
            /\ AppendEvent(IF n > 0 THEN "entry_filled" ELSE "entry_unfilled", 0, n)
            /\ Done(p)
            /\ UNCHANGED <<ledger, posLock, failures>>

-----------------------------------------------------------------------------
(* tick_run.  It works on the lock's connection; only record_exit does not.  *)
TickRun(p) ==
    /\ p = "worker" /\ proc[p] = Idle /\ lock = "free" /\ status = "monitoring"
    /\ lock' = p /\ Goto(p, "check")
    /\ UNCHANGED <<status, bound, events, ledger, posLock, failures>>

IsTrigger(k) == events[k].type = "triggered"
Ended(k) == \E j \in DOMAIN events : events[j].type \in ExitEvents /\ events[j].exit = events[k].exit

(* _pending_trigger *)
PendingTriggers == {k \in DOMAIN events : IsTrigger(k) /\ ~Ended(k)}

Complete(p) ==
    /\ status' = "completed" /\ AppendEvent("completed", 0, 0)
    /\ Done(p)
    /\ UNCHANGED <<bound, ledger, posLock, failures>>

(* Mutant: a trigger left behind is not looked for. *)
CheckForgets(p) ==
    /\ proc[p].pc = "check" /\ lock = p
    /\ IF status # "monitoring" THEN Fails(p)
       ELSE IF Remaining = 0 THEN Complete(p)
       ELSE /\ proc' = [proc EXCEPT ![p] = [pc |-> "quote", trigger |-> 0, remaining |-> Remaining]]
            /\ UNCHANGED <<status, bound, events, ledger, posLock, lock, failures>>

(* What a crash left pending comes first; then the position as it is now. *)
Check(p) ==
    /\ proc[p].pc = "check" /\ lock = p
    /\ IF status # "monitoring" THEN Fails(p)
       ELSE IF PendingTriggers # {}
       THEN /\ proc' = [proc EXCEPT ![p] = [pc |-> "exit", trigger |-> Min(PendingTriggers), remaining |-> 0]]
            /\ UNCHANGED <<status, bound, events, ledger, posLock, lock, failures>>
       ELSE IF Remaining = 0 THEN Complete(p)
       ELSE /\ proc' = [proc EXCEPT ![p] = [pc |-> "quote", trigger |-> 0, remaining |-> Remaining]]
            /\ UNCHANGED <<status, bound, events, ledger, posLock, lock, failures>>

(* The book is read; the observation, or the trigger with the quantity seen  *)
(* before it, commits under the row lock if the run is monitored still.  A   *)
(* quote of another market blocks, and the read may fail.                    *)
Observe(p) ==
    /\ proc[p].pc = "quote" /\ lock = p
    /\ \/ Fails(p)
       \/ /\ status = "monitoring" /\ Len(events) < MaxEvents
          /\ AppendEvent("observed", 0, proc[p].remaining)
          /\ Done(p)
          /\ UNCHANGED <<status, bound, ledger, posLock, failures>>
       \/ /\ status = "monitoring" /\ Len(events) < MaxEvents
          /\ AppendEvent("triggered", Len(events) + 1, proc[p].remaining)
          /\ proc' = [proc EXCEPT ![p].pc = "exit", ![p].trigger = Len(events) + 1]
          /\ UNCHANGED <<status, bound, ledger, posLock, lock, failures>>
       \/ Len(events) < MaxEvents /\ Block(p)

(* Mutant: a replay asks for what the position holds now. *)
ExitQuantityNow(p) == Remaining

(* The trigger freezes the quantity. *)
ExitQuantity(p) == events[proc[p].trigger].remaining

(* Mutant: record_exit compares with the entry, not with what is left. *)
SellableOfEntry(qty) == qty <= Filled(Entry)

(* record_exit: the position still holds the quantity asked for. *)
Sellable(qty) == qty <= Remaining

(* record_exit up to its intent.  The status is read before, on the lock's   *)
(* connection: a run blocked since is noticed or not.                        *)
RecordExit(p) ==
    /\ proc[p].pc = "exit"
    /\ LET t == proc[p].trigger
           qty == ExitQuantity(p)
           conflict == ledger[t] # None /\ ledger[t].qty # qty
       IN \/ status # "monitoring" /\ lock = p /\ Fails(p)
          \/ conflict /\ Fails(p)
          \/ /\ ~conflict /\ Decided(t)
             /\ Goto(p, "project")
             /\ UNCHANGED <<status, bound, events, ledger, posLock, lock, failures>>
          \/ /\ ~conflict /\ Unresolved(t) /\ posLock = "free"
             /\ Resolve(t, 0) /\ Goto(p, "project")
             /\ UNCHANGED <<status, bound, events, posLock, lock, failures>>
          \/ /\ ledger[t] = None /\ posLock = "free"
             /\ \/ /\ \E d \in Exits : Unresolved(d)
                   /\ IF lock = p THEN Block(p) ELSE Fails(p)
                \/ /\ \A d \in Exits : ~Unresolved(d)
                   /\ ~Sellable(qty)
                   /\ Goto(p, "stale")
                   /\ UNCHANGED <<status, bound, events, ledger, posLock, lock, failures>>
                \/ /\ \A d \in Exits : ~Unresolved(d)
                   /\ Sellable(qty)
                   /\ ledger' = [ledger EXCEPT ![t] = [qty |-> qty, filled |-> Open]]
                   /\ posLock' = p /\ Goto(p, "exitQuote")
                   /\ UNCHANGED <<status, bound, events, lock, failures>>

(* The decision, or a quote that fails and leaves the intent behind *)
DecideExit(p) ==
    /\ proc[p].pc = "exitQuote"
    /\ posLock' = "free"
    /\ \/ /\ \E n \in 0..ledger[proc[p].trigger].qty : Resolve(proc[p].trigger, n)
          /\ Goto(p, "project")
          /\ UNCHANGED <<status, bound, events, lock, failures>>
       \/ Done(p) /\ UNCHANGED <<status, bound, events, ledger, failures>>

(* PaperPositionNotClosable: somebody else sold meanwhile. *)
Reconcile(p) ==
    /\ proc[p].pc = "stale" /\ lock = p
    /\ IF Remaining = 0 THEN Complete(p)
       ELSE /\ AppendEvent("exit_no_fill", proc[p].trigger, Remaining)
            /\ Done(p)
            /\ UNCHANGED <<status, bound, ledger, posLock, failures>>

Project(p) ==
    /\ proc[p].pc = "project" /\ lock = p
    /\ proc' = [proc EXCEPT ![p].pc = "record", ![p].remaining = Remaining]
    /\ UNCHANGED <<status, bound, events, ledger, posLock, lock, failures>>

(* Mutant: the kind of exit is told from the position alone. *)
ExitTypeOfPosition(p) == IF proc[p].remaining = 0 THEN "exit_filled" ELSE "exit_no_fill"

ExitType(p) ==
    IF Filled(proc[p].trigger) = 0 THEN "exit_no_fill"
    ELSE IF proc[p].remaining = 0 THEN "exit_filled" ELSE "exit_partial"

(* The end of _finish_exit_attempt *)
RecordOutcome(p) ==
    /\ proc[p].pc = "record" /\ lock = p
    /\ LET n == proc[p].remaining
           outcome == <<Event(ExitType(p), proc[p].trigger, n)>>
           ending == IF n = 0 THEN <<Event("completed", 0, n)>> ELSE <<>>
       IN /\ events' = events \o outcome \o ending
          /\ status' = IF n = 0 THEN "completed" ELSE status
    /\ Done(p)
    /\ UNCHANGED <<bound, ledger, posLock, failures>>

-----------------------------------------------------------------------------
(* Mutant: a control does not wait for the run's lock. *)
ControlUnlocked(from, to, type) ==
    /\ status \in from /\ Len(events) < MaxEvents
    /\ status' = to /\ AppendEvent(type, 0, Remaining)
    /\ UNCHANGED <<bound, ledger, posLock, lock, proc, failures>>

(* pause_run, resume_run and stop_run: one transaction under the run's lock *)
Control(from, to, type) ==
    /\ lock = "free" /\ status \in from /\ Len(events) < MaxEvents
    /\ status' = to /\ AppendEvent(type, 0, Remaining)
    /\ UNCHANGED <<bound, ledger, posLock, lock, proc, failures>>

PauseRun == Control({"monitoring"}, "paused", "paused")
ResumeRun == Control({"paused"}, "monitoring", "resumed")
StopRun == Control({"monitoring", "paused"}, "stopped", "stopped")

(* Somebody closes the position, or a part of it, through the same ledger;   *)
(* the call may die after its intent, and be repeated.                       *)
ManualClose ==
    /\ \/ /\ bound /\ posLock = "free" /\ ledger[Manual] = None
          /\ \A d \in Exits : ~Unresolved(d)
          /\ \E q \in 1..Remaining : ledger' = [ledger EXCEPT ![Manual] = [qty |-> q, filled |-> Open]]
          /\ posLock' = "manual"
       \/ /\ posLock = "manual" /\ posLock' = "free"
          /\ \/ \E n \in 0..ledger[Manual].qty : Resolve(Manual, n)
             \/ UNCHANGED ledger
       \/ /\ posLock = "free" /\ Unresolved(Manual)
          /\ Resolve(Manual, 0)
          /\ UNCHANGED posLock
    /\ UNCHANGED <<status, bound, events, lock, proc, failures>>

(* A process dies, is cancelled or fails; its connections and locks are gone.*)
Fail(p) ==
    /\ proc[p] # Idle /\ failures < MaxFailures
    /\ failures' = failures + 1
    /\ Done(p)
    /\ posLock' = IF posLock = p THEN "free" ELSE posLock
    /\ UNCHANGED <<status, bound, events, ledger>>

(* The lock's connection is lost; the operation goes on until it needs it,   *)
(* and raises then.                                                          *)
LoseLock(p) ==
    /\ lock = p /\ failures < MaxFailures
    /\ failures' = failures + 1
    /\ lock' = "free"
    /\ UNCHANGED <<status, bound, events, ledger, posLock, proc>>

NeedsConnection == {"check", "quote", "stale", "project", "record"}

RaiseDisconnected(p) == proc[p].pc \in NeedsConnection /\ lock # p /\ Fails(p)

Start(p) == Create(p) \/ RecordEntry(p) \/ BlockEntry(p) \/ DecideEntry(p) \/ BindEntry(p)
Tick(p) == Check(p) \/ Observe(p) \/ RecordExit(p) \/ DecideExit(p) \/ Reconcile(p) \/ Project(p)
           \/ RecordOutcome(p) \/ RaiseDisconnected(p)

RunNext ==
    \/ \E p \in Procs : StartRun(p) \/ TickRun(p) \/ Start(p) \/ Tick(p) \/ Fail(p) \/ LoseLock(p)
    \/ PauseRun \/ ResumeRun \/ StopRun \/ ManualClose

RunSpec == RunInit /\ [][RunNext]_runVars

(* The worker comes back every interval and gets the run's lock in the end;  *)
(* what runs goes on.                                                        *)
FairSpec ==
    /\ RunSpec
    /\ WF_runVars(ManualClose)
    /\ \A p \in Procs : WF_runVars(Start(p)) /\ WF_runVars(Tick(p))
    /\ SF_runVars(StartRun("worker")) /\ SF_runVars(TickRun("worker"))

-----------------------------------------------------------------------------
SameOutcome(a, b) ==
    \/ {a.type, b.type} \subseteq {"entry_filled", "entry_unfilled"}
    \/ {a.type, b.type} \subseteq {"completed"}
    \/ {a.type, b.type} \subseteq ExitEvents /\ a.exit = b.exit

(* Each identity has one outcome in the run's evidence: the entry is told    *)
(* once, every trigger ends once, the run completes once, whatever is        *)
(* repeated after a crash and although a lock is lost (BindEntry,            *)
(* _finish_exit_attempt).                                                    *)
OutcomesAreUnique ==
    \A j, k \in DOMAIN events : SameOutcome(events[j], events[k]) => j = k

(* "A later qualifying observation gets a new immutable exit identity": no   *)
(* trigger is created while an earlier one is undecided (tick_run).          *)
OnePendingTrigger == Cardinality(PendingTriggers) <= 1

(* The evidence tells what the ledger did: an exit told as no fill never     *)
(* sold and never will, one told as a fill did (_finish_exit_attempt).       *)
EvidenceMatchesLedger ==
    \A k \in DOMAIN events :
        events[k].type \in ExitEvents =>
            (events[k].type = "exit_no_fill" <=> Filled(events[k].exit) = 0)

(* "Exactly zero remaining quantity completes the run." *)
CompletedIsClosed == status = "completed" => bound /\ Remaining = 0

(* The run's own state is coherent through crashes, replays and lost locks:  *)
(* one outcome per identity, one open trigger, completed means closed.       *)
RunInv == RunTypeOK /\ OutcomesAreUnique /\ OnePendingTrigger /\ CompletedIsClosed

(* "Stop appends evidence and disables monitoring without selling": nor does *)
(* a paused run sell, except in an operation whose lock was lost under it.   *)
(* This rests on the run's lock (stop_run, tick_run).                        *)
Selling(p, t) == proc[p].pc = "exitQuote" /\ proc[p].trigger = t
QuietWhenStopped ==
    [][\A t \in Triggers :
          status \in {"paused", "stopped"} /\ (Filled(t))' # Filled(t) =>
              \E p \in Procs : Selling(p, t) /\ lock # p]_runVars

(* The run and whoever closes by hand use the ledger within its promise: no  *)
(* replay, crash or lost lock decides an identity twice, and no exit is      *)
(* admitted beyond what the position still holds (start_run, tick_run).      *)
Asked == [d \in {e \in {Entry} \cup Exits : ledger[e] # None} |-> [of |-> Entry, qty |-> ledger[d].qty]]
FilledRows == [d \in {e \in {Entry} \cup Exits : Decided(e)} |-> ledger[d].filled]
Contract == INSTANCE KalshiPaperContract
              WITH Ids <- {Entry} \cup Exits, Quantities <- 0..Quantity, asked <- Asked, filled <- FilledRows
KeepsContract == Contract!Spec

(* Recovery ends: a started run leaves its start, and a trigger that a crash *)
(* left behind is decided while the run is monitored.                        *)
Recovers ==
    /\ status = "starting" ~> status # "starting"
    /\ (status = "monitoring" /\ PendingTriggers # {}) ~> (status # "monitoring" \/ PendingTriggers = {})
=============================================================================
