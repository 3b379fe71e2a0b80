------------------------------ MODULE FastSubmit ------------------------------
(***************************************************************************)
(* The fast-tier order path of one live trader: execute_fast_signal        *)
(* (fast_submit.py) over the intent journal, the sweep that bridges open   *)
(* intents into the database and resolves them against the venue           *)
(* (recover_open_intents, reconcile_orphaned_fast_submissions,             *)
(* fast_trader_runtime.py), and a process that dies and restarts.          *)
(*                                                                         *)
(* A behaviour belongs to a scenario, chosen at the start: the signals it   *)
(* sees, how often the process dies, and which faults it may meet beyond a *)
(* submission that fails and a death between two steps:                    *)
(*   "power"    the host loses its page cache with the process             *)
(*   "tear"     and may leave a partial last line in the journal           *)
(*   "record"   the process dies between an intent's write and its fsync   *)
(*   "overlap"  a periodic sweep runs while a submission is under way      *)
(*   "commit"   the sweep's commit fails, or the process dies before it    *)
(*   "cancel"   a call is cancelled while its shielded commit proceeds     *)
(*   "unsure"   a call's commit raises although the database has made it  *)
(*   "raise"    the adapter turns a transport exception into "failed"      *)
(*   "rest"     the venue leaves the order resting ("open")                *)
(*   "compact"  the journal grows to the size that triggers a compaction   *)
(* Every one of them is something the code can meet; a property that does  *)
(* not hold under some of them says which.                                 *)
(***************************************************************************)
EXTENDS IntentJournal

CONSTANTS
    Cap,            \* max_open_orders
    Scenarios       \* [signals, deaths, faults]

Faults == {"power", "tear", "record", "overlap", "commit", "cancel", "unsure", "raise", "rest", "compact"}

ASSUME FastSubmitAssumption ==
    /\ Cap \in Nat \ {0}
    /\ Scenarios \subseteq [signals : SUBSET Signals, deaths : Nat, faults : SUBSET Faults]

VARIABLES
    process,    \* down, starting (the startup sweep) or running
    call,       \* execute_fast_signal of each signal, and what its leg was told
    cursor,     \* whether the runtime has consumed the signal, and durably
    order,      \* the venue's order for the signal
    fired,      \* history: submissions of the signal the venue received
    row,        \* TraderOrder rows: the call's own and the recovery row
    hot,        \* the rows trader_hot_state counts as open orders
    sweep,      \* the sweep's step, the intents it has yet to visit, its pending rows
    deaths      \* that the process has yet to die

vars == <<journalVars, process, call, cursor, order, fired, row, hot, sweep, deaths>>

Rows == Signals \X {"own", "recovery"}
OwnRow(s) == <<s, "own">>
RecoveryRow(s) == <<s, "recovery">>
Idle == [pc |-> "idle", told |-> "nothing"]

TypeOK ==
    /\ \A k \in DOMAIN file : file[k] \in Records
    /\ synced \in 0..Len(file) /\ torn \in BOOLEAN
    /\ index \in [Signals -> Marks]
    /\ process \in {"down", "starting", "running"}
    /\ call \in [Signals -> [pc : {"idle", "wire", "sent", "persist", "committed"},
                             told : {"nothing", "executed", "failed"}]]
    /\ cursor \in [Signals -> {"new", "buffered", "flushed"}]
    /\ order \in [Signals -> {"none", "resting", "filled", "dead"}]
    /\ fired \in [Signals -> Nat]
    /\ row \in [Rows -> {"none", "placing", "linked", "executed", "failed"}]
    /\ hot \subseteq Rows
    /\ sweep \in [pc : {"idle", "recover", "commit", "reconcile"}, todo : SUBSET Signals,
                  pending : SUBSET Signals]
    /\ deaths \in Nat /\ faults \subseteq Faults

NoSweep == [pc |-> "idle", todo |-> {}, pending |-> {}]
SweepOf(i) == [pc |-> "recover", todo |-> OpenIn(i), pending |-> {}]

Init ==
    /\ JournalInit
    /\ process = "running"
    /\ call = [s \in Signals |-> Idle]
    /\ order = [s \in Signals |-> "none"]
    /\ fired = [s \in Signals |-> 0]
    /\ row = [r \in Rows |-> "none"]
    /\ hot = {}
    /\ sweep = NoSweep
    /\ \E c \in Scenarios :
          /\ faults = c.faults /\ deaths = c.deaths
          /\ cursor = [s \in Signals |-> IF s \in c.signals THEN "new" ELSE "flushed"]

-----------------------------------------------------------------------------
(* execute_fast_signal *)
Step(s, pc) == call' = [call EXCEPT ![s].pc = pc]
Return(s) == call' = [call EXCEPT ![s] = Idle]
Consume(s) == cursor' = [cursor EXCEPT ![s] = "buffered"]
InFlight == {s \in Signals : call[s].pc # "idle"}

(* Mutant: only the orders of the hot state count against the cap. *)
OpenCountHotOnly == Cardinality(hot)

OpenCount == Cardinality(hot) + Cardinality(OpenIn(index))

Presented(s) ==
    /\ process = "running" /\ call[s] = Idle /\ cursor[s] = "new"
    /\ sweep = NoSweep \/ "overlap" \in faults

(* A signal with a record in the journal, or one beyond the cap *)
Refuse(s) ==
    /\ Presented(s)
    /\ index[s] # "absent" \/ OpenCount >= Cap
    /\ Consume(s)
    /\ UNCHANGED <<journalVars, process, call, order, fired, row, hot, sweep, deaths>>

(* Mutant: the journal's answer is asked for open intents only. *)
AdmitUnlessOpen(s) ==
    /\ Presented(s)
    /\ index[s] # "open" /\ OpenCount < Cap
    /\ RecordIntent(s)
    /\ Step(s, "wire")
    /\ UNCHANGED <<process, cursor, order, fired, row, hot, sweep, deaths>>

(* Deduplication, cap and durable intent: one critical section, no await *)
Admit(s) ==
    /\ Presented(s)
    /\ index[s] = "absent" /\ OpenCount < Cap
    /\ RecordIntent(s)
    /\ Step(s, "wire")
    /\ UNCHANGED <<process, cursor, order, fired, row, hot, sweep, deaths>>

(* submit_execution_leg's own gates refuse the leg before the venue sees it. *)
GateRejects(s) ==
    /\ process = "running" /\ call[s].pc = "wire"
    /\ RecordResult(s) /\ Return(s) /\ Consume(s)
    /\ UNCHANGED <<process, order, fired, row, hot, sweep, deaths>>

Transmit(s) ==
    /\ process = "running" /\ call[s].pc = "wire"
    /\ \E o \in {"filled", "dead"} \cup ({"rest"} \cap faults) :
          order' = [order EXCEPT ![s] = IF o = "rest" THEN "resting" ELSE o]
    /\ fired' = [fired EXCEPT ![s] = @ + 1]
    /\ Step(s, "sent")
    /\ UNCHANGED <<journalVars, process, cursor, row, hot, sweep, deaths>>

(* A timeout, a cancellation or a raise, before or after the venue acted: the *)
(* intent stays open; a cancelled call leaves the signal unconsumed.          *)
WireFails(s) ==
    /\ process = "running" /\ call[s].pc \in {"wire", "sent"}
    /\ Return(s)
    /\ Consume(s) \/ UNCHANGED cursor
    /\ UNCHANGED <<journalVars, process, order, fired, row, hot, sweep, deaths>>

(* _map_trading_status and the order status the row gets: whatever is not     *)
(* executed is failed, a resting order's "open" too.                          *)
Told(o) == IF o = "filled" THEN "executed" ELSE "failed"

Reply(s) ==
    /\ process = "running" /\ call[s].pc = "sent"
    /\ \E t \in {Told(order[s])} \cup (IF "raise" \in faults THEN {"failed"} ELSE {}) :
          call' = [call EXCEPT ![s] = [pc |-> "persist", told |-> t]]
    /\ UNCHANGED <<journalVars, process, cursor, order, fired, row, hot, sweep, deaths>>

WriteRow(s) == row' = [row EXCEPT ![OwnRow(s)] = call[s].told]

Persist(s) ==
    /\ process = "running" /\ call[s].pc = "persist"
    /\ WriteRow(s) /\ Step(s, "committed")
    /\ UNCHANGED <<journalVars, process, cursor, order, fired, hot, sweep, deaths>>

(* The commit raises; what the database made of it the call does not know. *)
PersistFails(s) ==
    /\ process = "running" /\ call[s].pc = "persist"
    /\ Return(s) /\ Consume(s)
    /\ UNCHANGED row \/ ("unsure" \in faults /\ WriteRow(s))
    /\ UNCHANGED <<journalVars, process, order, fired, hot, sweep, deaths>>

(* The shield keeps the commit alive; the call itself unwinds. *)
PersistCancelled(s) ==
    /\ "cancel" \in faults
    /\ process = "running" /\ call[s].pc = "persist"
    /\ WriteRow(s) /\ Return(s)
    /\ UNCHANGED <<journalVars, process, cursor, order, fired, hot, sweep, deaths>>

(* hot_state first, then the journal, in one step of the event loop *)
Close(s) ==
    /\ process = "running" /\ call[s].pc = "committed"
    /\ hot' = IF call[s].told = "executed" THEN hot \cup {OwnRow(s)} ELSE hot
    /\ RecordResult(s) /\ Return(s) /\ Consume(s)
    /\ UNCHANGED <<process, order, fired, row, sweep, deaths>>

(* The buffered consumption and cursor reach the database. *)
FlushCursor(s) ==
    /\ process # "down" /\ cursor[s] = "buffered"
    /\ cursor' = [cursor EXCEPT ![s] = "flushed"]
    /\ UNCHANGED <<journalVars, process, call, order, fired, row, hot, sweep, deaths>>

-----------------------------------------------------------------------------
(* _run_orphan_reconcile_sweep *)
BeginSweep ==
    /\ process = "running" /\ sweep = NoSweep
    /\ InFlight = {} \/ "overlap" \in faults
    /\ sweep' = SweepOf(index)
    /\ UNCHANGED <<journalVars, process, call, cursor, order, fired, row, hot, deaths>>

HasRow(s) == row[OwnRow(s)] # "none" \/ row[RecoveryRow(s)] # "none"

(* Mutant: a recovery row whether or not the intent has a row *)
RecoverUnconditionally(s) ==
    /\ sweep.pc = "recover" /\ s \in sweep.todo
    /\ sweep' = [sweep EXCEPT !.todo = @ \ {s}, !.pending = @ \cup {s}]
    /\ RecordResult(s)
    /\ UNCHANGED <<process, call, cursor, order, fired, row, hot, deaths>>

(* Mutant: an intent that has its row is left as it is. *)
RecoverLeavesOwned(s) ==
    /\ sweep.pc = "recover" /\ s \in sweep.todo
    /\ sweep' = [sweep EXCEPT !.todo = @ \ {s},
                              !.pending = IF HasRow(s) THEN @ ELSE @ \cup {s}]
    /\ IF HasRow(s) THEN UNCHANGED journalVars ELSE RecordResult(s)
    /\ UNCHANGED <<process, call, cursor, order, fired, row, hot, deaths>>

(* recover_open_intents, one intent of those that were open at the start: it  *)
(* is closed in the journal, the row it may need waits for the commit.        *)
Recover(s) ==
    /\ sweep.pc = "recover" /\ s \in sweep.todo
    /\ sweep' = [sweep EXCEPT !.todo = @ \ {s},
                              !.pending = IF HasRow(s) THEN @ ELSE @ \cup {s}]
    /\ RecordResult(s)
    /\ UNCHANGED <<process, call, cursor, order, fired, row, hot, deaths>>

RecoverCommit ==
    /\ sweep.pc = "recover" /\ sweep.todo = {}
    /\ row' = [r \in Rows |-> IF r[2] = "recovery" /\ r[1] \in sweep.pending THEN "placing" ELSE row[r]]
    /\ sweep' = [sweep EXCEPT !.pc = "reconcile", !.pending = {}]
    /\ UNCHANGED <<journalVars, process, call, cursor, order, fired, hot, deaths>>

RecoverCommitFails ==
    /\ "commit" \in faults
    /\ sweep.pc = "recover" /\ sweep.todo = {} /\ sweep.pending # {}
    /\ sweep' = [sweep EXCEPT !.pc = "reconcile", !.pending = {}]
    /\ UNCHANGED <<journalVars, process, call, cursor, order, fired, row, hot, deaths>>

EndSweep == sweep' = NoSweep /\ process' = "running"

(* Rows still in flight, thirty seconds and older: the call has left the wire. *)
Eligible == {r \in Rows : row[r] = "placing" /\ call[r[1]].pc \notin {"wire", "sent"}}

(* _outcome_matches_direction: a recovery row carries no direction. *)
HasDirection(r) == r[2] = "own"

(* The venue's open orders first, then the wallet's positions *)
Resolution(r) ==
    CASE order[r[1]] = "resting" -> "linked"
      [] order[r[1]] = "filled" /\ HasDirection(r) -> "executed"
      [] OTHER -> "failed"

(* reconcile_orphaned_fast_submissions *)
Reconcile ==
    /\ sweep.pc = "reconcile"
    /\ row' = [r \in Rows |-> IF r \in Eligible THEN Resolution(r) ELSE row[r]]
    /\ EndSweep
    /\ UNCHANGED <<journalVars, call, cursor, order, fired, hot, deaths>>

(* The venue cannot be reached: nothing is decided. *)
ReconcileFails ==
    /\ sweep.pc = "reconcile"
    /\ EndSweep
    /\ UNCHANGED <<journalVars, call, cursor, order, fired, row, hot, deaths>>

-----------------------------------------------------------------------------
(* The venue, and the process *)
VenueMoves(s) ==
    /\ order[s] = "resting"
    /\ \E o \in {"filled", "dead"} : order' = [order EXCEPT ![s] = o]
    /\ UNCHANGED <<journalVars, process, call, cursor, fired, row, hot, sweep, deaths>>

Forget ==
    /\ process # "down" /\ deaths > 0
    /\ sweep.pending = {} \/ "commit" \in faults
    /\ process' = "down"
    /\ call' = [s \in Signals |-> Idle]
    /\ cursor' = [s \in Signals |-> IF cursor[s] = "buffered" THEN "new" ELSE cursor[s]]
    /\ hot' = {}
    /\ sweep' = NoSweep
    /\ deaths' = deaths - 1
    /\ UNCHANGED <<order, fired, row>>

Crash == Forget /\ UNCHANGED journalVars

(* The process dies between the write of an intent and its fsync. *)
CrashRecording(s) ==
    /\ "record" \in faults
    /\ Presented(s) /\ index[s] = "absent" /\ OpenCount < Cap /\ ~torn
    /\ Forget
    /\ file' = Append(file, Intent(s))
    /\ UNCHANGED <<faults, synced, torn, index>>

PowerLoss ==
    /\ "power" \in faults
    /\ Forget
    /\ LosePageCache("tear" \in faults)

(* run: the hot state is seeded, the journal loaded, the startup sweep begun. *)
Restart ==
    /\ process = "down"
    /\ process' = "starting"
    /\ Load
    /\ hot' = {r \in Rows : row[r] = "executed"}
    /\ sweep' = SweepOf(index')
    /\ UNCHANGED <<call, cursor, order, fired, row, deaths>>

Sweep == BeginSweep \/ RecoverCommit \/ RecoverCommitFails \/ Reconcile \/ ReconcileFails
         \/ \E s \in Signals : Recover(s)
Call(s) == Refuse(s) \/ Admit(s) \/ GateRejects(s) \/ Transmit(s) \/ WireFails(s) \/ Reply(s)
           \/ Persist(s) \/ PersistFails(s) \/ PersistCancelled(s) \/ Close(s)

Next ==
    \/ \E s \in Signals : Call(s) \/ FlushCursor(s) \/ VenueMoves(s) \/ CrashRecording(s)
    \/ Sweep \/ Crash \/ PowerLoss \/ Restart

Spec == Init /\ [][Next]_vars

(* A started step of the event loop is taken; the supervisor sweeps every     *)
(* minute, and the venue answers again and again.                             *)
FairSpec ==
    /\ Spec
    /\ WF_vars(Restart) /\ SF_vars(BeginSweep) /\ WF_vars(RecoverCommit) /\ SF_vars(Reconcile)
    /\ \A s \in Signals :
          /\ WF_vars(Recover(s)) /\ WF_vars(Close(s))
          /\ WF_vars(WireFails(s) \/ Reply(s)) /\ WF_vars(Persist(s) \/ PersistFails(s))

-----------------------------------------------------------------------------
Spared(fs) == faults \cap fs = {}

(* A compaction forgets resolved signals whose cursor may still be buffered   *)
(* (_compact), and a torn line swallows the record after it (_append): in     *)
(* both cases a signal may be sent again.                                     *)
Refires == {"compact", "tear"}

(* "Have I already fired this signal?" is answered durably before the venue   *)
(* call: whatever dies and whenever, the venue receives a signal at most once.*)
FiredOnce == Spared(Refires) => \A s \in Signals : fired[s] <= 1

(* However much of the page cache is lost, the next load finds the intent open.*)
Recoverable(s) == \A n \in synced..Len(file) : Loaded(SubSeq(file, 1, n))[s] = "open"

(* No submission is lost track of: one the venue received is in the hands of  *)
(* the sweep, of a row, or of an intent that every restart finds open.        *)
Tracked ==
    \A s \in Signals : fired[s] > 0 => Recoverable(s) \/ s \in sweep.pending \/ HasRow(s)

(* The same when the commit of the recovery rows, which recover_open_intents  *)
(* makes after it closed their intents, succeeds and no line is torn.         *)
TrackedUnlessCut == Spared({"commit", "tear"}) => Tracked

(* A signal has one row: its call's or the recovery's, never both, unless a   *)
(* sweep overlaps a call (recover_open_intents takes every open intent) or    *)
(* the host loses an intent that a sweep had read before it was synced.       *)
OneRow ==
    Spared({"overlap", "record"} \cup Refires) =>
        \A s \in Signals : row[OwnRow(s)] = "none" \/ row[RecoveryRow(s)] = "none"

(* The ways to take an order out of both counts: a sweep closes the intent of *)
(* a call under way; a commit is made although its call is cancelled in it,   *)
(* or is told that it failed, and the sweep then closes the intent.           *)
Uncounted == {"overlap", "cancel", "unsure"}

(* Submissions under way and orders a call recorded as executed together      *)
(* respect the cap, through crashes, restarts and the hand-over from journal  *)
(* to hot state. What a sweep recovers is outside the cap (recovery rows).    *)
CapHolds ==
    Spared(Uncounted) =>
        Cardinality({s \in Signals : call[s].pc # "idle" \/ row[OwnRow(s)] = "executed"}) <= Cap

(* A row says executed only of an order the venue filled; a signal that was   *)
(* sent again has, until its second row, the row of its first submission.     *)
ExecutedIsFilled == Spared(Refires) => \A r \in Rows : row[r] = "executed" => order[r[1]] = "filled"

(* On a definite outcome the row is final; on an ambiguous one there is none: *)
(* a call's own failed row stands for an order the venue does not hold. The   *)
(* adapter turns a raise, and the status map a resting order, into "failed".  *)
FailedHoldsNothing ==
    Spared({"raise", "rest"} \cup Refires) =>
        \A s \in Signals : row[OwnRow(s)] = "failed" => order[s] \in {"none", "dead"}

(* The rows can be trusted: single, and true of the venue's order. *)
RowsInv == TypeOK /\ OneRow /\ ExecutedIsFilled /\ FailedHoldsNothing

(* Every open intent is closed, and every recovery row resolved. *)
IntentsResolve ==
    \A s \in Signals :
        (index[s] = "open" \/ row[RecoveryRow(s)] = "placing")
            ~> (process = "running" /\ index[s] # "open" /\ row[RecoveryRow(s)] # "placing")
=============================================================================
