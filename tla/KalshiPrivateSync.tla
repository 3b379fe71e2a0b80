-------------------------- MODULE KalshiPrivateSync --------------------------
(***************************************************************************)
(* The private synchronization of one principal:                           *)
(* KalshiPrivateSyncRunner (kalshi_v2_private_sync.py) over                *)
(* KalshiPrivateWSLifecycle (kalshi_v2_private_ws.py), the worker loop     *)
(* that starts, watches and cancels it and writes the runtime row          *)
(* (kalshi_portfolio_sync_worker.py), the venue's private stream and the   *)
(* fenced lease.                                                           *)
(*                                                                         *)
(* A step is what one task does between two awaits.  The tasks are run     *)
(* (main), _read_generation (reader), the invalidation callbacks they wait *)
(* for (readerNote, mainNote) and the worker loop (worker).  The runner    *)
(* modelled is that of the newest lease generation; a process that lost    *)
(* its lease without noticing survives as LateWrite.                       *)
(*                                                                         *)
(* A private frame says only that the portfolio changed.  base and synced  *)
(* are history: how many changes the running and the last complete         *)
(* synchronization are sure to have seen.                                  *)
(***************************************************************************)
EXTENDS Integers, Sequences

CONSTANTS
    Channels,       \* _PRIVATE_CHANNELS
    MaxChanges,     \* bound: changes of the portfolio at the venue
    MaxFence,       \* bound: lease generations
    MaxFailures,    \* bound: faults of the network, the venue and the database
    MaxStale        \* bound: times a synchronization outlives max_staleness

ASSUME PrivateSyncAssumption ==
    /\ Channels # {}
    /\ MaxChanges \in Nat /\ MaxFence \in Nat /\ MaxFailures \in Nat /\ MaxStale \in Nat

VARIABLES
    venue,          \* changes of the portfolio so far
    up,             \* the socket of the current connection works
    subscribed,     \* channels the venue sends on this connection
    wire,           \* acknowledgements and frames under way
    acked,          \* channels the lifecycle has a sid for
    main,           \* where run is
    stop,           \* run is unwinding for good: cancelled, or its handler failed
    reader,         \* where _read_generation is
    connected, acknowledged, ready, last,   \* the fields of the same names; last is the age of last_synchronized_at
    revision, dirty, event,                 \* _readiness_revision, _dirty_version, _dirty_event
    generationDirty, observed, followUp,    \* locals of run and _synchronize_until_clean
    base, synced,   \* history: see above
    readerNote, mainNote,   \* revision of a callback not yet committed, 0 if none
    worker,         \* where the worker loop is
    fence, expired, \* the lease row: generation, and whether it has run out
    row,            \* the runtime snapshot row
    snap,           \* the snapshot being written under the row lock
    failures, stales    \* faults and agings so far

connVars == <<up, subscribed, wire, acked>>
flagVars == <<connected, acknowledged, ready, last>>
syncVars == <<generationDirty, observed, followUp, base, synced>>
leaseVars == <<fence, expired>>
boundVars == <<failures, stales>>
vars == <<venue, connVars, main, stop, reader, flagVars, revision, dirty, event, syncVars,
          readerNote, mainNote, worker, leaseVars, row, snap, boundVars>>

Messages == [kind : {"ack", "frame"}, channel : Channels]
Guarded == {"await_ack", "sync", "steady", "debounce"}   \* run waits in _guard
Rows == [gen : Nat, ready : BOOLEAN, inv : Nat, synced : Nat]
NoSnap == [gen |-> 0, ready |-> FALSE, inv |-> 0, synced |-> 0]

TypeOK ==
    /\ venue \in Nat /\ up \in BOOLEAN
    /\ subscribed \subseteq Channels /\ acked \subseteq Channels /\ wire \in Seq(Messages)
    /\ main \in Guarded \cup {"connect", "unwind", "invalidating", "teardown", "closing", "backoff", "done"}
    /\ stop \in BOOLEAN
    /\ reader \in {"none", "reading", "notifying", "cancelled", "failed"}
    /\ connected \in BOOLEAN /\ acknowledged \in BOOLEAN /\ ready \in BOOLEAN
    /\ last \in {"none", "fresh", "stale"}
    /\ revision \in Nat /\ dirty \in Nat /\ event \in BOOLEAN
    /\ generationDirty \in Nat /\ observed \in Nat /\ followUp \in BOOLEAN
    /\ base \in Nat /\ synced \in Nat
    /\ readerNote \in Nat /\ mainNote \in Nat
    /\ worker \in {"off", "composed", "running", "ending", "final", "releasing", "dead"}
    /\ fence \in Nat /\ expired \in BOOLEAN
    /\ row \in Rows /\ snap \in Rows
    /\ failures \in Nat /\ stales \in Nat

Init ==
    /\ main = "done" /\ stop = FALSE /\ reader = "none"
    /\ up = FALSE /\ subscribed = {} /\ wire = <<>> /\ acked = {}
    /\ connected = FALSE /\ acknowledged = FALSE /\ ready = FALSE /\ last = "none"
    /\ revision = 0 /\ dirty = 0 /\ event = FALSE
    /\ generationDirty = 0 /\ observed = 0 /\ followUp = FALSE
    /\ base = 0 /\ synced = 0
    /\ readerNote = 0 /\ mainNote = 0
    /\ venue = 0 /\ worker = "off" /\ fence = 0 /\ expired = TRUE
    /\ row = NoSnap /\ snap = NoSnap
    /\ failures = 0 /\ stales = 0

(* A new KalshiPrivateSyncRunner whose task has not run yet *)
FreshRunner ==
    /\ main' = "done" /\ stop' = FALSE /\ reader' = "none"
    /\ up' = FALSE /\ subscribed' = {} /\ wire' = <<>> /\ acked' = {}
    /\ connected' = FALSE /\ acknowledged' = FALSE /\ ready' = FALSE /\ last' = "none"
    /\ revision' = 0 /\ dirty' = 0 /\ event' = FALSE
    /\ generationDirty' = 0 /\ observed' = 0 /\ followUp' = FALSE
    /\ base' = 0 /\ synced' = 0
    /\ readerNote' = 0 /\ mainNote' = 0

Fault == failures < MaxFailures /\ failures' = failures + 1

-----------------------------------------------------------------------------
(* The database: every writer of the runtime row first locks the lease row.  *)
Unlocked == snap = NoSnap

(* Mutant: the owner and the token in the lease row are not compared. *)
OwnsUnfenced(g) == ~expired

Owns(g) == fence = g /\ ~expired

(* Mutant: the invalidation only records its revision. *)
PersistInvalidationKeepsReady(g, rev) ==
    row' = IF Owns(g) /\ rev >= row.inv THEN [row EXCEPT !.inv = rev] ELSE row

(* _persist_private_invalidation *)
PersistInvalidation(g, rev) ==
    row' = IF Owns(g) /\ rev >= row.inv THEN [row EXCEPT !.ready = FALSE, !.inv = rev] ELSE row

(* The property ready of the runner *)
RunnerReady == ready /\ connected /\ acknowledged /\ last = "fresh"

-----------------------------------------------------------------------------
(* The venue *)
Frame(c) == [kind |-> "frame", channel |-> c]
Ack(c) == [kind |-> "ack", channel |-> c]
FrameUnderWay == \E i \in 1..Len(wire) : wire[i].kind = "frame"

VenueSubscribes(c) ==
    /\ up /\ c \notin subscribed
    /\ subscribed' = subscribed \cup {c}
    /\ wire' = Append(wire, Ack(c))
    /\ UNCHANGED <<venue, up, acked, main, stop, reader, flagVars, revision, dirty, event, syncVars,
                   readerNote, mainNote, worker, leaseVars, row, snap, boundVars>>

VenueChange(c) ==
    /\ venue < MaxChanges
    /\ venue' = venue + 1
    /\ wire' = IF up /\ c \in subscribed THEN Append(wire, Frame(c)) ELSE wire
    /\ UNCHANGED <<up, subscribed, acked, main, stop, reader, flagVars, revision, dirty, event, syncVars,
                   readerNote, mainNote, worker, leaseVars, row, snap, boundVars>>

(* The connection breaks; what was under way is lost. *)
Drop ==
    /\ up /\ Fault
    /\ up' = FALSE /\ wire' = <<>>
    /\ UNCHANGED <<venue, subscribed, acked, main, stop, reader, flagVars, revision, dirty, event, syncVars,
                   readerNote, mainNote, worker, leaseVars, row, snap, stales>>

(* max_staleness passes since the last synchronization. *)
Age ==
    /\ last = "fresh" /\ stales < MaxStale
    /\ last' = "stale" /\ stales' = stales + 1
    /\ UNCHANGED <<venue, connVars, main, stop, reader, connected, acknowledged, ready, revision, dirty,
                   event, syncVars, readerNote, mainNote, worker, leaseVars, row, snap, failures>>

-----------------------------------------------------------------------------
(* _read_generation *)
(* _retract, in the reader and in _invalidate *)
Retract ==
    /\ ready' = FALSE /\ connected' = FALSE /\ acknowledged' = FALSE /\ last' = "none"
    /\ revision' = revision + 1

ReceiveAck ==
    /\ reader = "reading" /\ wire # <<>> /\ Head(wire).kind = "ack"
    /\ acked' = acked \cup {Head(wire).channel}
    /\ wire' = Tail(wire)
    /\ UNCHANGED <<venue, up, subscribed, main, stop, reader, flagVars, revision, dirty, event, syncVars,
                   readerNote, mainNote, worker, leaseVars, row, snap, boundVars>>

(* A frame of an acknowledged channel: dirty, not ready, and the callback is *)
(* started with the revision of this moment.                                 *)
ReceiveFrame ==
    /\ reader = "reading" /\ wire # <<>> /\ Head(wire).kind = "frame"
    /\ Head(wire).channel \in acked
    /\ wire' = Tail(wire)
    /\ dirty' = dirty + 1
    /\ ready' = FALSE
    /\ revision' = revision + 1
    /\ readerNote' = revision + 1
    /\ reader' = "notifying"
    /\ UNCHANGED <<venue, up, subscribed, acked, main, stop, connected, acknowledged, last, event, syncVars,
                   mainNote, worker, leaseVars, row, snap, boundVars>>

(* The callback commits; a cancelled reader has waited for it and ends. *)
ReaderNotified ==
    /\ reader \in {"notifying", "cancelled"} /\ Unlocked
    /\ PersistInvalidation(fence, readerNote)
    /\ readerNote' = 0
    /\ IF reader = "notifying" THEN reader' = "reading" /\ event' = TRUE
                               ELSE reader' = "none" /\ UNCHANGED event
    /\ UNCHANGED <<venue, connVars, main, stop, flagVars, revision, dirty, syncVars, mainNote, worker,
                   leaseVars, snap, boundVars>>

(* The callback raises, whether or not its transaction committed. *)
ReaderNoteFails ==
    /\ reader \in {"notifying", "cancelled"} /\ Unlocked /\ Fault
    /\ PersistInvalidation(fence, readerNote) \/ UNCHANGED row
    /\ readerNote' = 0
    /\ IF reader = "notifying" THEN reader' = "failed" /\ Retract /\ acked' = {}
                               ELSE reader' = "none" /\ UNCHANGED <<flagVars, revision, acked>>
    /\ UNCHANGED <<venue, up, subscribed, wire, main, stop, dirty, event, syncVars, mainNote, worker,
                   leaseVars, snap, stales>>

(* receive raises, the frame is malformed or an error. *)
ReaderFails ==
    /\ reader = "reading" /\ (IF up THEN Fault ELSE UNCHANGED failures)
    /\ reader' = "failed" /\ Retract /\ acked' = {}
    /\ UNCHANGED <<venue, up, subscribed, wire, main, stop, dirty, event, syncVars, readerNote, mainNote,
                   worker, leaseVars, row, snap, stales>>

-----------------------------------------------------------------------------
(* run *)
(* _invalidate: retract, then start the callback and wait for it. *)
Invalidate ==
    /\ Retract
    /\ mainNote' = revision + 1
    /\ main' = "invalidating"

(* begin_connection, connect, the subscriptions and the reader task *)
Connect ==
    /\ main = "connect"
    /\ up' = TRUE /\ subscribed' = {} /\ wire' = <<>> /\ acked' = {}
    /\ connected' = TRUE /\ acknowledged' = FALSE /\ ready' = FALSE /\ last' = "none"
    /\ event' = FALSE
    /\ generationDirty' = dirty
    /\ reader' = "reading" /\ main' = "await_ack"
    /\ UNCHANGED <<venue, stop, revision, dirty, observed, followUp, base, synced, readerNote, mainNote,
                   worker, leaseVars, row, snap, boundVars>>

ConnectFails ==
    /\ main = "connect" /\ Fault
    /\ Invalidate
    /\ UNCHANGED <<venue, connVars, stop, reader, dirty, event, syncVars, readerNote, worker, leaseVars,
                   row, snap, stales>>

(* One round of _synchronize_until_clean up to its await *)
BeginSync ==
    /\ observed' = dirty
    /\ event' = FALSE
    /\ ready' = FALSE
    /\ base' = venue
    /\ main' = "sync"

(* _ack_event is set: subscriptions_acknowledged *)
Acknowledged ==
    /\ main = "await_ack" /\ reader # "failed" /\ acked = Channels
    /\ acknowledged' = TRUE
    /\ followUp' = (dirty # generationDirty)
    /\ BeginSync
    /\ UNCHANGED <<venue, connVars, stop, reader, connected, last, revision, dirty, generationDirty, synced,
                   readerNote, mainNote, worker, leaseVars, row, snap, boundVars>>

(* Mutant: frames that came while the portfolio was read are not looked at. *)
SyncCompleteUnconditionally ==
    /\ main = "sync" /\ reader # "failed" /\ Owns(fence)
    /\ last' = "fresh" /\ synced' = base
    /\ ready' = TRUE /\ revision' = revision + 1 /\ main' = "steady"
    /\ UNCHANGED <<venue, connVars, stop, reader, connected, acknowledged, dirty, event, generationDirty,
                   observed, followUp, base, readerNote, mainNote, worker, leaseVars, row, snap, boundVars>>

(* A complete synchronization makes the runner ready unless a frame came     *)
(* meanwhile or a follow-up is required; then the next round begins.         *)
SyncComplete ==
    /\ main = "sync" /\ reader # "failed" /\ Owns(fence)
    /\ last' = "fresh" /\ synced' = base
    /\ IF dirty = observed /\ ~followUp
       THEN /\ ready' = TRUE /\ revision' = revision + 1 /\ main' = "steady"
            /\ UNCHANGED <<observed, event, base, followUp>>
       ELSE BeginSync /\ followUp' = FALSE /\ UNCHANGED revision
    /\ UNCHANGED <<venue, connVars, stop, reader, connected, acknowledged, dirty, generationDirty,
                   readerNote, mainNote, worker, leaseVars, row, snap, boundVars>>

(* synchronize raises or is incomplete; without the lease it can only raise. *)
SyncFails ==
    /\ main = "sync" /\ Fault
    /\ Invalidate
    /\ UNCHANGED <<venue, connVars, stop, reader, dirty, event, syncVars, readerNote, worker, leaseVars,
                   row, snap, stales>>

(* _steady_state: woken by the event, or by the age of the last              *)
(* synchronization, which ends readiness at once.                            *)
Woken ==
    /\ main = "steady" /\ reader # "failed" /\ (event \/ last = "stale")
    /\ main' = "debounce"
    /\ ready' = IF event THEN ready ELSE FALSE
    /\ UNCHANGED <<venue, connVars, stop, reader, connected, acknowledged, last, revision, dirty, event,
                   syncVars, readerNote, mainNote, worker, leaseVars, row, snap, boundVars>>

Resync ==
    /\ main = "debounce" /\ reader # "failed"
    /\ followUp' = FALSE
    /\ BeginSync
    /\ UNCHANGED <<venue, connVars, stop, reader, connected, acknowledged, last, revision, dirty,
                   generationDirty, synced, readerNote, mainNote, worker, leaseVars, row, snap, boundVars>>

(* _guard gives up: the reader is done, or the operation took too long.  It  *)
(* cancels the operation and waits for it.                                   *)
GuardRaises ==
    /\ main \in Guarded
    /\ \/ reader = "failed" /\ UNCHANGED failures
       \/ main \in {"await_ack", "sync"} /\ Fault
    /\ main' = "unwind"
    /\ UNCHANGED <<venue, connVars, stop, reader, flagVars, revision, dirty, event, syncVars, readerNote,
                   mainNote, worker, leaseVars, row, snap, stales>>

Unwound ==
    /\ main = "unwind"
    /\ Invalidate
    /\ UNCHANGED <<venue, connVars, stop, reader, dirty, event, syncVars, readerNote, worker, leaseVars,
                   row, snap, boundVars>>

(* The finally of run: a reader that is not done is cancelled and awaited;   *)
(* it ends when its own callback has.                                        *)
CancelReader ==
    /\ main' = IF reader \in {"reading", "notifying"} THEN "teardown" ELSE "closing"
    /\ reader' = IF reader = "notifying" THEN "cancelled" ELSE "none"

MainNotified ==
    /\ main = "invalidating" /\ Unlocked
    /\ PersistInvalidation(fence, mainNote)
    /\ mainNote' = 0
    /\ CancelReader
    /\ UNCHANGED <<venue, connVars, stop, flagVars, revision, dirty, event, syncVars, readerNote, worker,
                   leaseVars, snap, boundVars>>

(* An exception of the callback leaves run through its finally. *)
MainNoteFails ==
    /\ main = "invalidating" /\ Unlocked /\ Fault
    /\ PersistInvalidation(fence, mainNote) \/ UNCHANGED row
    /\ mainNote' = 0 /\ stop' = TRUE
    /\ CancelReader
    /\ UNCHANGED <<venue, connVars, flagVars, revision, dirty, event, syncVars, readerNote, worker,
                   leaseVars, snap, stales>>

ReaderAwaited ==
    /\ main = "teardown" /\ reader = "none"
    /\ main' = "closing"
    /\ UNCHANGED <<venue, connVars, stop, reader, flagVars, revision, dirty, event, syncVars, readerNote,
                   mainNote, worker, leaseVars, row, snap, boundVars>>

Closed ==
    /\ main = "closing"
    /\ up' = FALSE /\ subscribed' = {} /\ wire' = <<>> /\ acked' = {}
    /\ connected' = FALSE /\ acknowledged' = FALSE /\ ready' = FALSE
    /\ main' = IF stop THEN "done" ELSE "backoff"
    /\ UNCHANGED <<venue, stop, reader, last, revision, dirty, event, syncVars, readerNote, mainNote,
                   worker, leaseVars, row, snap, boundVars>>

BackedOff ==
    /\ main = "backoff"
    /\ main' = "connect"
    /\ UNCHANGED <<venue, connVars, stop, reader, flagVars, revision, dirty, event, syncVars, readerNote,
                   mainNote, worker, leaseVars, row, snap, boundVars>>

-----------------------------------------------------------------------------
(* The worker loop *)
(* acquire, by any process when the lease has run out, by the same process   *)
(* when its release failed; and a new runner                                 *)
Compose ==
    /\ fence < MaxFence /\ (expired \/ worker = "off") /\ Unlocked
    /\ fence' = fence + 1 /\ expired' = FALSE
    /\ FreshRunner
    /\ worker' = "composed"
    /\ UNCHANGED <<venue, row, snap, boundVars>>

(* The row of a generation that starts or ends *)
GenerationRow == [gen |-> fence, ready |-> FALSE, inv |-> 0, synced |-> 0]

(* The generation is published and the runner's task created. *)
Publish ==
    /\ worker = "composed" /\ Unlocked /\ Owns(fence)
    /\ row' = GenerationRow
    /\ main' = "connect" /\ worker' = "running"
    /\ UNCHANGED <<venue, connVars, stop, reader, flagVars, revision, dirty, event, syncVars, readerNote,
                   mainNote, leaseVars, snap, boundVars>>

PublishFails ==
    /\ worker = "composed" /\ Unlocked /\ (IF Owns(fence) THEN Fault ELSE UNCHANGED failures)
    /\ worker' = "final"
    /\ UNCHANGED <<venue, connVars, main, stop, reader, flagVars, revision, dirty, event, syncVars,
                   readerNote, mainNote, leaseVars, row, snap, stales>>

(* What one cancel() of the runner's task does, by the await it finds.  The  *)
(* waits of _guard and of the finally for what they cancelled suppress the   *)
(* CancelledError; the second also passes it on to the reader, which then    *)
(* abandons its callback.                                                    *)
Cancel ==
    \/ /\ main = "connect" /\ stop' = TRUE /\ Invalidate
       /\ UNCHANGED <<reader, readerNote>>
    \/ /\ main \in Guarded /\ stop' = TRUE /\ main' = "unwind"
       /\ UNCHANGED <<flagVars, revision, reader, readerNote, mainNote>>
    \/ /\ main \in {"invalidating", "closing"} /\ stop' = TRUE
       /\ UNCHANGED <<main, flagVars, revision, reader, readerNote, mainNote>>
    \/ /\ main = "backoff" /\ main' = "done"
       /\ UNCHANGED <<stop, flagVars, revision, reader, readerNote, mainNote>>
    \/ /\ main = "teardown"
       /\ reader' = "none" /\ readerNote' = 0
       /\ UNCHANGED <<main, stop, flagVars, revision, mainNote>>
    \/ /\ main \in {"unwind", "done"}
       /\ UNCHANGED <<main, stop, flagVars, revision, reader, readerNote, mainNote>>

(* Disabled, paused, lease lost or the runner found done *)
EndGeneration ==
    /\ worker = "running" /\ Unlocked
    /\ worker' = "ending"
    /\ Cancel
    /\ UNCHANGED <<venue, connVars, dirty, event, syncVars, leaseVars, row, snap, boundVars>>

(* _write_runtime_snapshot reads the runner under the lock ... *)
SnapshotBegin ==
    /\ worker = "running" /\ Unlocked /\ Owns(fence)
    /\ LET isReady == RunnerReady /\ revision > row.inv
       IN  snap' = [gen |-> fence, ready |-> isReady, inv |-> IF isReady THEN 0 ELSE row.inv,
                    synced |-> synced]
    /\ UNCHANGED <<venue, connVars, main, stop, reader, flagVars, revision, dirty, event, syncVars,
                   readerNote, mainNote, worker, leaseVars, row, boundVars>>

(* ... and commits later. *)
SnapshotCommit ==
    /\ ~Unlocked
    /\ row' = snap /\ snap' = NoSnap
    /\ UNCHANGED <<venue, connVars, main, stop, reader, flagVars, revision, dirty, event, syncVars,
                   readerNote, mainNote, worker, leaseVars, boundVars>>

(* It raises, committed or not: the generation ends. *)
SnapshotFails ==
    /\ ~Unlocked /\ Fault
    /\ row' \in {row, snap} /\ snap' = NoSnap
    /\ worker' = "ending"
    /\ Cancel
    /\ UNCHANGED <<venue, connVars, dirty, event, syncVars, leaseVars, stales>>

(* _cancel_and_await returns. *)
RunnerAwaited ==
    /\ worker = "ending" /\ main = "done"
    /\ worker' = "final"
    /\ UNCHANGED <<venue, connVars, main, stop, reader, flagVars, revision, dirty, event, syncVars,
                   readerNote, mainNote, leaseVars, row, snap, boundVars>>

FinalSnapshot ==
    /\ worker = "final" /\ Unlocked
    /\ \/ row' = (IF Owns(fence) THEN GenerationRow ELSE row) /\ UNCHANGED failures
       \/ Fault /\ UNCHANGED row
    /\ worker' = "releasing"
    /\ UNCHANGED <<venue, connVars, main, stop, reader, flagVars, revision, dirty, event, syncVars,
                   readerNote, mainNote, leaseVars, snap, stales>>

Release ==
    /\ worker = "releasing" /\ Unlocked
    /\ \/ expired' = TRUE /\ UNCHANGED failures
       \/ Fault /\ UNCHANGED expired
    /\ worker' = "off"
    /\ UNCHANGED <<venue, connVars, main, stop, reader, flagVars, revision, dirty, event, syncVars,
                   readerNote, mainNote, fence, row, snap, stales>>

(* The process dies and its open transaction with it. *)
Crash ==
    /\ worker \notin {"off", "dead"}
    /\ worker' = "dead"
    /\ FreshRunner
    /\ snap' = NoSnap
    /\ UNCHANGED <<venue, leaseVars, row, boundVars>>

(* The lease is not renewed in time. *)
Expire ==
    /\ ~expired /\ Fault
    /\ expired' = TRUE
    /\ UNCHANGED <<venue, connVars, main, stop, reader, flagVars, revision, dirty, event, syncVars,
                   readerNote, mainNote, worker, fence, row, snap, stales>>

(* A process whose lease was taken over still runs: its invalidations and    *)
(* its snapshots reach the database with its old token.                      *)
LateWrite ==
    /\ Unlocked
    /\ \E g \in 1..(fence - 1) :
          \/ \E rev \in 1..(MaxChanges + MaxFailures) : PersistInvalidation(g, rev)
          \/ row' = IF Owns(g) THEN [gen |-> g, ready |-> TRUE, inv |-> 0, synced |-> 0] ELSE row
    /\ UNCHANGED <<venue, connVars, main, stop, reader, flagVars, revision, dirty, event, syncVars,
                   readerNote, mainNote, worker, leaseVars, snap, boundVars>>

-----------------------------------------------------------------------------
ReaderStep == ReceiveAck \/ ReceiveFrame \/ ReaderNotified
RunStep ==
    \/ Connect \/ Acknowledged \/ SyncComplete \/ Woken \/ Resync \/ Unwound
    \/ MainNotified \/ ReaderAwaited \/ Closed \/ BackedOff
WorkerStep == Compose \/ Publish \/ SnapshotBegin \/ SnapshotCommit \/ RunnerAwaited \/ FinalSnapshot \/ Release
RaisedStep == GuardRaises \/ SyncFails \/ ReaderFails \/ PublishFails
FaultStep ==
    \/ Drop \/ ConnectFails \/ ReaderNoteFails \/ MainNoteFails \/ SnapshotFails
    \/ Crash \/ Expire \/ LateWrite
VenueStep == \E c \in Channels : VenueSubscribes(c) \/ VenueChange(c)

Next ==
    \/ ReaderStep \/ RunStep \/ WorkerStep \/ RaisedStep \/ FaultStep \/ VenueStep
    \/ Age \/ EndGeneration

Spec == Init /\ [][Next]_vars

(* Tasks that can go on do; a writer waiting for the row lock gets it, as    *)
(* PostgreSQL queues them; a runner that is done is found by the next poll.  *)
(* Nothing forces a fault, a change, a disable or a takeover.                *)
RunProceeds ==
    Connect \/ Acknowledged \/ SyncComplete \/ Woken \/ Resync \/ Unwound \/ ReaderAwaited \/ Closed \/ BackedOff
Fairness ==
    /\ WF_vars(RunProceeds) /\ WF_vars(GuardRaises /\ reader = "failed") /\ SF_vars(MainNotified)
    /\ WF_vars(ReceiveAck \/ ReceiveFrame) /\ WF_vars(ReaderFails /\ ~up) /\ SF_vars(ReaderNotified)
    /\ WF_vars(Publish) /\ SF_vars(SnapshotBegin) /\ WF_vars(SnapshotCommit)
    /\ SF_vars(EndGeneration /\ main = "done") /\ WF_vars(RunnerAwaited) /\ SF_vars(FinalSnapshot)
    /\ \A c \in Channels : WF_vars(VenueSubscribes(c))

FairSpec == Spec /\ Fairness

-----------------------------------------------------------------------------
(* While the runner calls itself ready on a working connection, a change of  *)
(* the portfolio it has not read has its frame still on the way: none is     *)
(* lost in the gaps between subscribing, acknowledging, reading and becoming *)
(* ready (_synchronize_until_clean compares the version it started from).    *)
ReadyHidesNoChange == RunnerReady /\ up => synced = venue \/ FrameUnderWay

(* The runner in memory: well typed, and never ready over an unread change.  *)
RunnerInv == TypeOK /\ ReadyHidesNoChange

(* What the API takes from the runtime row, apart from its age *)
ShownReady == row.ready /\ row.gen = fence /\ ~expired

(* Somebody is going to retract the row: a frame or a broken socket the      *)
(* reader will notice, a callback under way, or a runner that is unwinding.  *)
RetractionDue ==
    \/ FrameUnderWay \/ reader = "failed" \/ (reader = "reading" /\ ~up)
    \/ readerNote # 0 \/ mainNote # 0
    \/ main = "unwind" \/ stop

(* The same of the durable row as long as the worker lives, although it is   *)
(* written from a copy of the runner's state that may be old when the        *)
(* transaction commits (_write_runtime_snapshot, _persist_private_-          *)
(* invalidation).                                                            *)
DurableReadyIsBacked ==
    ShownReady /\ worker \in {"running", "ending"} => row.synced = venue \/ RetractionDue

(* A worker that keeps running under its lease ends up showing the portfolio *)
(* as it is, again after every frame, reconnect and failed write; nothing an *)
(* earlier generation wrote blocks it (invalidation_revision).               *)
Converges ==
    <>[](worker = "running" /\ ~expired) => []<>(ShownReady /\ row.synced = venue)

(* "Run until disable/pause/lease loss; always cancel and await the runner": *)
(* a worker that decides to end its generation gets to the end of it.        *)
CancelEndsRunner == worker = "ending" ~> worker # "ending"
=============================================================================
