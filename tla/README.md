# Verification of Callisto's Kalshi stack

TLA+ models of the parts of Callisto that keep state on behalf of a trader, the
TLC runs that check them on small instances, and TLAPS proofs of their most
important properties for every instance.

Callisto is a fork of a large Polymarket application. Its README and the notes
under `src/docs/architecture/` say what is its own: a read-only Kalshi stack of
about 11,600 lines under `src/backend/services`, `services/venues` and
`workers`. The inherited application, some 360,000 lines of scanner, strategies,
backtester, orchestrator and API, is disabled in this fork. One part of it is
modelled all the same, because it is where an order could be sent twice or lost: the
fast submission path with its intent journal. The rest of it is outside this project,
so the models stand for a small share of the repository's lines and for nearly all of
the state of the Kalshi stack. File names below are relative to
`src/backend/services/` unless they start with `workers/`.

## 1. Inventory

| Component | State it keeps | Operations |
|---|---|---|
| Orderbook state, `venues/kalshi_v2_ws.py` | levels, sequence, validity, open recovery | `apply_snapshot`, `apply_delta`, `_invalidate` |
| Orderbook lifecycle, `venues/kalshi_v2_ws_lifecycle.py` | epoch, command ids, acknowledged sids, early snapshot, recovery watermark | `begin_connection`, `receive_subscribed/snapshot/delta/error`, `recovery_command`, `disconnect`, `terminate_epoch` |
| Frame session, `venues/kalshi_v2_ws_session.py` | current epoch, whether recovery was asked for | `begin`, `receive` |
| Transport coordinator, `venues/kalshi_v2_ws_coordinator.py` | active generation, its receive and recovery-send task, three blocking locks | `start`, `receive_once`, `disconnect` |
| WebSocket transport, `venues/kalshi_v2_ws_transport.py` | the socket | connect, send, receive, close |
| Private stream, `venues/kalshi_v2_private_ws.py` | epoch, acknowledged sids | `begin_connection`, `receive`, `disconnect` |
| Private sync runner, `venues/kalshi_v2_private_sync.py` | dirty version, ready flag, readiness revision | `run`: reader and synchronizer race, invalidation callback |
| Portfolio worker, `workers/kalshi_portfolio_sync_worker.py` | owner id, lease generation, durable runtime snapshot | `start_loop`, renewal, snapshot writes, invalidation writes |
| Lease and projection, `kalshi_portfolio_projection.py` | lease row, attempts, head row | `acquire`, `renew`, `release`, `synchronize`, `read` |
| Coverage, `kalshi_portfolio_coverage.py` | immutable checkpoints and observations | `sweep` |
| Paper ledger, `kalshi_paper_service.py` | intents, decisions, reservations, positions, exits | `record_decision`, `record_exit`, `cancel_order` |
| Paper fills, `kalshi_paper_execution.py` | none | `simulate_buy_ioc`, `simulate_sell_ioc` |
| Paper test trades, `kalshi_paper_test_trade_service.py` and its worker | run rows | run state machine, restart recovery |
| Venue ledger, `venue_execution_ledger.py` | intents, deduplicated events | `record_intent`, `record_event`, `record_initial_acknowledgement` |
| Read reconciliation, `kalshi_read_reconciliation.py` | none of its own | read the venue, then one ledger transaction |
| Fast tier (inherited), `trader_orchestrator/fast_submit.py`, `trader_orchestrator/intent_journal.py`, `workers/fast_trader_runtime.py` | journal file and index, order rows, hot state, signal cursor | `execute_fast_signal`, `recover_open_intents`, `reconcile_orphaned_fast_submissions` |

How they interact. A caller hands `start` a transport; the coordinator begins an
epoch through the session, sends the subscriptions and publishes the generation.
`receive_once` reads one frame and gives it to `session.receive`, which drives
lifecycle and book; if that asks for a recovery, the coordinator sends
`get_snapshot` in a task of its own. The portfolio side is a second stack. A
worker process acquires the lease of its principal, runs the private sync runner,
and every invalidation or timer leads to one `synchronize`: a lease check, a
coverage sweep, three reads of the venue and one transaction for attempt and head,
each transaction locking the lease row. An API process reads head, checkpoints and
runtime snapshot. The paper side is a third: operator requests and test-trade runs call
the paper ledger, which commits an intent, reads one quote, lets the fill simulation
evaluate it and commits the decision, under advisory locks. The venue ledger is written
by a submitter and by reconciliations that race it. In the fast tier a signal becomes a
journal record, a venue call, a row and a second record, and a sweep turns whatever a
dead process left open into rows that the venue's answers resolve.

Hard behaviours, each listed with its line in `PROJECT.json` under `hazards`:

- frames lost, repeated, overtaken, or left over from an earlier connection;
- an acknowledgement overtaken by its first snapshot; a recovery snapshot that is
  older than what the client has seen;
- tasks cancelled at any await while others take down the generation they use; a
  close that absorbs the cancellation; sends that hang while a lock is held;
- a worker that stalls past its lease while another takes over; clocks that
  disagree; a crash between the coverage commit and the head;
- readiness racing invalidation, in memory and in the durable row; a generation that
  writes after its lease was taken over; a cancellation that meets another one;
- callers of the paper ledger that die between intent and decision, repeat a decision
  id, compete for one position or for the same cash; complementary prices and limits;
- a test-trade run whose process dies, or loses the connection of its lock, between a
  trigger, its exit and the event that records it, while somebody sells by hand;
- two reconciliations and a submitter racing for one acknowledgement, two provider
  orders under one client order id, answers that are repeated;
- a submission that is interrupted between journal, wire, row and result; a journal
  that is compacted, torn or loses its page cache; a cap counted in two places.

What makes each component correct: the book shown is the venue's book; a gap is
repaired and asked for once; an epoch, a transport and a send always have exactly
one owner; the head moves forward only, under the newest lease; *ready* is never
said over data that is older than an invalidation; paper cash and positions are
conserved and one decision id has one decision; a run sells what its trigger asked for
and nothing while it is stopped; an intent has one provider identity and its evidence
is recorded once; a signal is sent at most once and what was sent is never forgotten.

## 2. Modules

| Module | Models | Extends |
|---|---|---|
| `KalshiWSClient` | book, lifecycle and session as one sequential state machine | |
| `KalshiFeed` | that client, a venue and an unreliable connection | `KalshiWSClient` |
| `KalshiFeedOrdered` | the same over an ordered connection, with fairness | `KalshiFeed` |
| `KalshiFeedProofs` | proofs about both | `KalshiFeedOrdered` |
| `KalshiWSCoordinator` | the coordinator's tasks, locks and transports | |
| `KalshiWSCoordinatorProofs` | proofs about it | `KalshiWSCoordinator` |
| `KalshiPortfolioHead` | abstract promise of the head row | |
| `KalshiPortfolioProjection` | lease, synchronizers, coverage, crashes, clocks | instance of `KalshiPortfolioHead` |
| `KalshiPortfolioProjectionProofs` | proofs about it, with the refinement | `KalshiPortfolioProjection` |
| `KalshiPrivateSync` | private stream, sync runner, worker generations, runtime row | |
| `KalshiPrivateSyncProofs` | proofs about it | `KalshiPrivateSync` |
| `KalshiPaperFillResults` | what an evaluation may return; shared by fills and ledger | |
| `KalshiPaperOrder` | abstract promise of one evaluation | `KalshiPaperFillResults` |
| `KalshiPaperFills` | the two IOC simulations, level by level | `KalshiPaperFillResults`, instance of `KalshiPaperOrder` |
| `KalshiPaperContract` | abstract promise of the ledger to those who trade through it | |
| `KalshiPaperLedger` | decisions, exits, cancellations of one account | `KalshiPaperFillResults`, instance of `KalshiPaperContract` |
| `KalshiPaperLedgerProofs` | proofs about it, with the refinement | `KalshiPaperLedger` |
| `KalshiPaperTestTrade` | one test-trade run over the ledger's contract | instance of `KalshiPaperContract` |
| `KalshiPaperProofs` | proofs about fills and test trade, with both refinements | `KalshiPaperFills`, `KalshiPaperTestTrade` |
| `VenueExecutionLedger` | the order ledger as operators on one intent's log | |
| `KalshiReadReconciliation` | concurrent reconciliations, a submitter, a venue | `VenueExecutionLedger` |
| `KalshiReadReconciliationProofs` | proofs about it | `KalshiReadReconciliation` |
| `IntentJournal` | journal file, page cache, index | |
| `FastSubmit` | submissions, sweeps, restarts of one trader | `IntentJournal` |
| `FastSubmitProofs` | proofs about it | `FastSubmit` |
| `MC...` | symmetry and instances for TLC | the module in their name |

### KalshiWSClient, KalshiFeed

`view`, `valid`, `recovery` are `KalshiOrderbookState`; `epoch`, `commandId`,
`pending`, `acknowledged`, `early`, `minRecovery` the lifecycle; `sessionEpoch`
and `recoveryEmitted` the session. One `receive` call is one action, whatever it
does. `Receive` is the disjunction of its ways to end: stale, malformed, error,
(bad) acknowledgement, early, foreign, conflicting, old or accepted snapshot,
foreign, contiguous, gap or pre-snapshot delta, private frame. `outcome` names
what the call returned. The two sides of the book are one set `Levels`; prices are
names; quantities are integers, because the sign and zero of the sum decide what
`apply_delta` does. A level with quantity 0 stands for one that is absent. Field
parsers are one kind of frame, `malformed`.

The venue is external. It numbers the messages of a subscription; `hist` records
its true book after each number. `sent` only grows and any frame in it may be
delivered at any time, which is loss, repetition, reordering and delay across
reconnects at once. `VenueFault` puts frames on the wire that fit no subscription.
`KalshiFeedOrdered` replaces this by a queue; its venue may skip and repeat deltas,
so gaps still occur. `observed` is a history variable.

### KalshiWSCoordinator

A step is what one task does between two awaits that can suspend it. Sections
under `_state_lock` contain no await and are part of one step. The transition,
receive and send locks block; who holds one is derived from where tasks are
suspended (`InTransition`, `Reading`, `SendFree`). Every `start` brings a transport
and begins at most one epoch, so the start call names all three. What a frame means
is in `KalshiWSClient`; here it is harmless, terminal, or asks for a recovery.
`Cancel` may hit any suspended call; `AbsorbCancel` and `CloseCancelled` are the
shielded close of `_close_transport` and its delayed `CancelledError`.

Reading notes. `receive_once` of a generation that has been replaced while it was
cancelled reports *stale* instead of raising the cancellation, as the code does. A
signer that raises is not modelled. `begin_connection` makes its epoch current
(`kalshi_v2_ws_lifecycle.py:174`) before it calls the signer (`:203`), and `start` calls
it outside its inner `try` (`kalshi_v2_ws_coordinator.py:119`), so such a signer would
leave an epoch nobody owns; but `KalshiRequestSigner.headers` raises for none of the
arguments it gets here. The production transport accepts only the private subscribe
commands, so the coordinator is exercised by its tests, and not by a worker, at
this commit.

### KalshiPortfolioProjection, KalshiPortfolioHead

Each transaction locks the lease row first and is one step: `Acquire`, `Renew`,
`Release`, `SyncStart`, `SyncCover` (the sweep's commit), `SyncCommit`,
`PersistFailed`. Between them the worker reads the venue (`SyncRead`), fails
(`SyncFails`), finds itself fenced (`SyncFenced`), is cancelled by its runner
(`SyncCancelled`) or dies (`Crash`). Every comparison with the time picks a reading
of the worker's clock within `Skew` of the true time. A commit of `acquire` or of
the sweep may succeed and be reported as failed; a failing `release` is ignored, as
in `start_loop`. `base` records how far the venue had changed when an attempt
began. It is a history variable, as is the attempt's token.

Assumptions: attempt ids are unique (fresh UUIDs), so the `existing is not None`
branches are never taken; owner ids are drawn once per process; `force` is used by
tests only. `started_at` is stamped in the step that checks the lease, not before
the wait for the row lock; the attempts of one principal begin in the same order
either way. One observation: `synchronize` returns `incomplete` for a failed sweep
while the attempt it stores says `failed`; the model has the stored one.

`KalshiPortfolioHead` promises three things of the head row: published attempts
have increasing numbers and carry the newest fence, taking the lease over moves
nothing, and only a complete attempt replaces the healthy one.

### KalshiPrivateSync

A step is what one task does between two awaits. The tasks are `run` (`main`), its
reader, the invalidation callbacks each of them waits for, and the worker loop. A
private frame says only that something changed, so the venue is a counter, and `base`
and `synced` are history: how many changes the running and the last complete
synchronization are sure to have read. `PersistInvalidation` waits for the lease row and
checks the fence; `SnapshotBegin` copies the runner under that lock and `SnapshotCommit`
writes the copy later. `LateWrite` is a process that lost its lease and does not know.
The synchronization itself is one choice here; its transactions are in
`KalshiPortfolioProjection`. Age is abstracted to fresh or stale.

### KalshiPaperFills, KalshiPaperOrder, KalshiPaperFillResults

Prices are integers below `One`, the payout. A level is one step (`Level`), so the
order in which levels are taken is part of the state. A BUY takes the bids of the other
outcome at the complementary price. `KalshiPaperOrder` is the promise the ledger relies
on: one answer, and a fill that costs at most, or brings at least, what its limit says.
`KalshiPaperLedger` uses the same `FillResults`, so the refinement is what ties the two.
The average price and the fee of a market with fees are left out: every market the code
accepts for paper execution has a zero fee.

### KalshiPaperLedger

A step is one transaction, one lock or the market-data read. Which advisory locks a
caller holds follows from where it is (`HoldsDecision`, `HoldsPosition`). `CommitIntent`
and `Commit` are the two transactions of a call; `Resume` is what a repeated id finds.
`Fail` is a caller that dies; PostgreSQL then frees its locks. `CheckReturns` gathers
the early returns of `record_exit`. The documentation says that the two locks of an exit
are taken "in sorted order" (`docs/architecture/KALSHI_PAPER_EXECUTION.md:60`); the code
takes the decision's first and the position's second, always. That is a fixed order as
well, and `CallsReturn` shows that it suffices.

`KalshiPaperContract` is what a caller may rely on: a request is admitted, an exit only
while no other exit of its position is open and the position holds what it asks for, and
decided once, within its quantity. `ImplementsContract` maps committed intents and
decisions to it.

### KalshiPaperTestTrade

One run, an `api` and a `worker` process and somebody who closes by hand. The paper ledger
appears as what `KalshiPaperLedger` shows of it: an intent, at most one decision, a
rejection for an intent found without one, and the position's lock in between. An exit
is named by the sequence of its trigger. That this ledger does no more than the contract
allows is `KeepsContract`; that the real one keeps the contract is `ImplementsContract`.
`TickRun` is the worker's iteration;
`LoseLock` takes the run's lock away from an operation that goes on, which then fails at
the next statement that needs the lock's connection (`NeedsConnection`). Deaths and lost
locks are bounded together by `MaxFailures`. A start reads the status, records the entry
and blocks the run in three transactions and only its lock ties them together: a start
that lost its lock may trade although the run has been stopped, and may block a run that
somebody else has long bound, stopped or completed (`BlockEntry`). A tick that finds its
run blocked in this way either ends there (`RecordExit`) or, when it has read the status
before, goes on.

### VenueExecutionLedger, KalshiReadReconciliation

The ledger's methods run in their caller's transaction under a lock on the intent's row,
so they are operators from a log to a log, and the actions are those of the caller.
`reconcile_intent` is five steps with no lock held between its reads: the ledger, the
venue's orders, its fills, the acknowledgement and the writing transaction. Submitter and
venue are external. The venue may accept a second order under the same client order id
(`Impostor`), and finished orders leave the current endpoints (`AgeOut`). `answers` is a
history variable: what calls of an attempt of an intent have returned.

### IntentJournal, FastSubmit

The file is the sequence of records a load would read, `synced` how many survive a power
loss, `torn` whether it ends in a partial line. `FastSubmit` has one call per signal, one
live trader, its own and the recovery row of each signal, what hot state counts and the
sweep. A behaviour follows one of `Scenarios`: the signals it sees, how often the process
dies, and which of `Faults` it may meet beyond a submission that fails and a death
between two steps. Every fault is something the code can meet; a property that does not
hold under some of them names them (`Spared`). A commit that raises may have been made
all the same: in a call that is the fault "unsure" (`PersistFails`), and in the sweep
"commit" is the one that was not made. Left out: shadow mode, intents without a key, post-only
retries (the default limit is 0), orders that are not fill-and-kill except for the fault
"rest", and the durability of the rename in a compaction. The minimum age of an intent
that a sweep may take is abstracted to "its call has left the wire".

## 3. Runs

| Run | Instance | Shows |
|---|---|---|
| `feed` | 1 level, 4 sequence numbers, 1 faulty frame; a second connection after at most 2 numbers and no fault | what gaps, late snapshots, faulty frames and a reconnect do to the published book |
| `feed_ordered` | 1 level, 6 numbers, 2 skips or repeats | the book becomes publishable again; nothing ordinary ends the epoch |
| `coordinator` | 2 starts, 1 receive, 1 disconnect, 2 cancellations | ownership of epoch, transport and recovery send; transitions end, detached receives return |
| `portfolio` | 2 workers, 2 leases, 3 attempts, agreeing clocks | lease, head and refinement under stalls, failures and crashes; unprojected coverage is never hidden |
| `private_sync` | 1 channel, 2 changes, 2 leases, 1 failure, 1 expiry of freshness | neither runner nor durable row says ready over a change nobody will announce; the current portfolio is shown again |
| `private_sync_cancel` | 1 channel, 1 change, 1 lease, 1 failure | violation: a swallowed cancellation |
| `paper_ledger` | 2 callers that may die, 3 decision ids, 2 cancellations, cash 5 | money and positions, one read per id, one unresolved exit, the contract; every call returns |
| `paper_fills` | prices 1 to 4, depth up to 2, all small orders and markets | best price first, optimal execution, the order's promise |
| `reconciliation` | 2 overlapping callers, 1 attempt id, 2 provider orders, quantity 1, 1 death | identity, evidence, answers; a repeated attempt is answered |
| `test_trade` | quantity 2, 6 events, 2 deaths or lost locks | evidence agrees with the ledger, a stopped run is quiet, the contract, starts and triggers are finished |
| `fast_submit` | cap 1; 2 signals with 2 deaths and few faults or fewer deaths and other faults; 1 signal with 2 deaths and every fault | sent once, tracked, cap, rows; intents and recovery rows are resolved |
| `fast_submit_commit` | 1 signal, nobody dies, the sweep's commit fails | violation: a submission in nobody's hands |

Why the bounds are enough for the interesting cases. Four numbers allow a snapshot,
a contiguous delta, a gap and a recovery snapshot on either side of the watermark.
Two connections share sids and numbers, so a stale frame looks current; the state
constraint `ConnectionBound` lets a second connection begin only after a short first
one, which leaves enough frames behind. Two starts are a generation and its
replacement; two cancellations can hit the call that closes and the call that is being
closed. A second receive, which waits for the first, is left to the proofs. Two leases
are a stalled owner and the one that took over, and three attempts are two in flight and
one before them. Two changes are one before and one during a synchronization. The three
decision ids are an entry, an order that competes with it for cash or an exit of it,
and a second exit; the entry has quantity 2 and each exit 1, so an exit is partial. Six
events hold a start, its entry, a trigger, a partial exit, a second trigger or a pause,
and a stop; an exit's outcome and the end of a run have room beyond them. Two orders under one client id are the ambiguous match, and two callers of one attempt
are the overlap. Two signals compete for a cap of one, and two deaths are one
during a submission and one during its recovery. What larger instances would add is what
the proofs cover. All runs say `CHECK_DEADLOCK FALSE`: calls end, workers die and the
bounded venue stops.

Properties and what they would catch:

- `PublishedBookIsVenueBook`: a publishable view equals the venue's book at its own
  number. `NoPublicationBelowObserved`: never behind anything already seen.
  `RecoveryRequestedOncePerGap`: a request is open exactly while a once valid book
  is invalid. `SequenceNeverRewinds` (action): the book never goes back.
- `EventuallyPublished`, `OrderedStreamNeverTerminates`: the client asks once, and
  on an ordered connection that suffices.
- `LiveEpochIsOwned`, `TransportClosedOnce`, `CancelledFailsClosed`,
  `RecoverySendIsCurrent`: no cancellation or failure at any await leaks an epoch, a
  transport or a send. `OneReader`, the same of the readers of a transport, is proved.
- `TransitionsEnd`, `DetachedReceiveReturns`: liveness of the coordinator.
- `LeaseIsExclusive`, `HealthyNeverGetsOlder` (action), `ImplementsHead` (refinement),
  `CurrentShowsNewestCoverage`: the fenced head.
- `RunnerInv` (with `ReadyHidesNoChange`), `DurableReadyIsBacked`: *ready* over an unread
  change means that its frame, or its retraction, is on the way. `Converges` (liveness).
- `ReservationsAreCovered`, `PositionsAreConserved`: money and contracts.
  `LedgerInv` (`JournalIsAChain`, `ReadAtMostOnce`, `NobodyIsOvertaken`,
  `OneUnresolvedExit`): what repeating or abandoning a call may do. `ImplementsContract`
  (refinement): what others may rely on. `CallsReturn` (liveness).
- `ExecutionInv` (`BestPriceFirst`; `BestExecution`, against a definition by quantifiers
  over all ways to fill the order), `ImplementsOrder` (refinement).
- `OneIdentity`, `EvidenceInv` (`EvidenceIsUnique`, `MatchIsWhole`,
  `MissKeepsIdentity`): the evidence of an intent. `AnswersAgree`: overlapping calls
  of one attempt do not contradict each other. `AttemptsAreAnswered` (liveness).
- `EvidenceMatchesLedger`, `RunInv` (`OutcomesAreUnique`, `OnePendingTrigger`,
  `CompletedIsClosed`), `QuietWhenStopped` (action), `KeepsContract` (refinement),
  `Recovers` (liveness): the test trade.
- `FiredOnce`, `TrackedUnlessCut`, `CapHolds`, `RowsInv` (`OneRow`, `ExecutedIsFilled`,
  `FailedHoldsNothing`), `IntentsResolve` (liveness): the fast tier. `CapHolds` counts
  the submissions under way and the orders that a call's own row calls executed; a
  recovered orphan has only a recovery row and is outside it. The code as well leaves it
  out of hot state when a sweep makes it, and counts it from the next restart on.

The invariants named `...Inv` in a run include the module's `TypeOK`. For the modules with
proofs, type correctness and the inductive invariants (`FeedInv`, `CoordInv`,
`ProjectionInv`, `FillsInv` and `RunInvariant`, and `Inv` in the other proof modules) are
theorems.

Every property of every run has a mutant in `PROJECT.json`: a changed definition of
the modelled code under which TLC reports the property violated.

`CurrentShowsNewestCoverage` is stated for agreeing clocks (`Skew = 0`). The reader
finds the newest checkpoint by `started_at`, the clock of whoever wrote it. If a
worker's clock is behind, its unprojected checkpoint can sort below a projected
one, and this part of the reader's decision does not see it. The lease and the head
do not depend on clocks: the run has agreeing clocks, and the proofs of the other
properties hold for any `Skew`. The runtime
snapshot, which the reader consults as well (`ShownReady` in `KalshiPrivateSync`),
narrows this further: an invalidation or a new generation retracts it.

### Findings

Two runs expect a violation: the code does something that one of its own comments
excludes. `PROJECT.json` quotes both sides with their lines.

- `private_sync_cancel`: a cancellation of the runner that arrives while it awaits
  something it cancelled itself is suppressed with the other one
  (`kalshi_v2_private_sync.py:302`, `:197`); the worker waits for a runner that
  reconnects.
- `fast_submit_commit`: the sweep closes an intent in the journal before its recovery row
  is committed (`fast_submit.py:908`).

Other disagreements met while modelling are exceptions that the properties name. Each
can be reproduced by removing the exception, with a scenario of the one fault:

- `FiredOnce` without `compact`: compaction forgets resolved signals whose cursor may
  still be buffered, so that a crash presents them again (`intent_journal.py:315`);
  without `tear`: the first append after a torn line continues that
  line and is unreadable at the next load (`intent_journal.py:296`).
- `CapHolds` without `overlap`: the periodic sweep closes the intent of a submission
  under way (`fast_submit.py:846`); without `cancel` or `unsure`: a call cancelled in its
  shielded commit, or one whose commit raises although the database made it, leaves an
  order hot state never counted, and the next sweep closes its intent
  (`fast_submit.py:579`).
- `FailedHoldsNothing` without `raise`: the adapter reports a transport exception as a
  definite failure (`live_execution_adapter.py:376`).
- Recovery rows have no direction, so the wallet fallback never matches them and a filled
  orphan is marked failed (`fast_submit.py:895`, `HasDirection`); `ExecutedIsFilled`
  therefore claims one direction only.
- `ExecutedIsFilled` without `compact` or `tear`: a signal that is sent again replaces the
  venue's order, while its first row still says executed. A cap of one hides this, because
  the executed order uses it up; the attempt to prove the property for every cap showed it.
- An exit whose quote fails or whose book is refused raises after its intent has
  committed and leaves no decision row until its id is repeated
  (`kalshi_paper_service.py:515`), although
  `docs/architecture/KALSHI_PAPER_EXECUTION.md:52` promises a decision row for every
  rejection.

### Fairness

`feed_ordered`: the caller reads its socket until it ends (`OrderedDeliver`) and the
venue answers commands. Nothing makes the market trade or the caller connect.
`coordinator`: the event loop runs every task that is ready, and closes, sweeps and
subscription sends end. Weak fairness is enough because a behaviour has finitely many
calls, so none that waits for a lock is overtaken for ever. No frame has to arrive and a
recovery send may hang for ever. The sweep and the subscription sends have no timeout in
the code, so with a peer that never answers `start` would keep the transition lock; the
run assumes this away and the hazard list says so.

`private_sync` and `private_sync_cancel`: the event loop runs tasks that can go on; a
writer that waits for the lease row gets it (strong fairness, because PostgreSQL queues
the waiters of a row lock); a dead connection is noticed, a finished runner is found by
the next poll. No change, failure, disable or takeover has to happen. `paper_ledger`: a
caller that is alive makes its next step, and advisory locks are granted to those who
keep waiting (strong fairness, the same queue). `reconciliation`: callers go on, die at
most `MaxDeaths` times, and their owner repeats the attempt (strong fairness of `Begin`).
`test_trade`: processes go on and the worker's loop starts and ticks again (strong
fairness of `StartRun` and `TickRun`, which compete for the run's lock). `fast_submit`:
the supervisor restarts the process, the periodic sweep begins again and again, the venue
answers it again and again, and calls end by answer or timeout.

## 4. Proofs

All proofs are for arbitrary values of the constants; they assume only
the named `ASSUME`s of the modules, which TLC evaluates in every run. Those say that
bounds are naturals, that `None` is none of the values it is added to, and what a request
of the API looks like (a quantity above zero, a limit strictly between zero and the
payout). Every inductive invariant was checked by TLC before it was proved.

- `KalshiFeedProofs`: `TypeCorrect`, `FeedInvariant`, `PublishedBookCorrect`,
  `PublicationCatchesUp`, `RecoveryIsRequestedOnce`, `SequenceMonotone`. The
  published-book property is not inductive by itself. `WireInv` adds that every
  frame of the newest connection is true of `hist` or cannot be absorbed by any
  level, `BookInv` that an early snapshot is true as well, `EpochInv` that no frame
  is from the future, `RecoveryInv` and `ObservedInv` tie flag, watermark and
  history together. `OrderedNeverTerminates` is about `KalshiFeedOrdered`, on top of
  `FeedInv`. `OrderedInv` says what the queue holds: only frames the client of this epoch
  waits for (`QueueInv`), the orderbook's acknowledgement before its first snapshot and
  that before any delta (`StartInv`), and no snapshot for a book that is valid or whose
  one request is unanswered (`AskInv`).
- `KalshiWSCoordinatorProofs`: `TypeCorrect`, `CoordInvariant`, `EpochOwnership`,
  `TransportOwnership`, `CancellationFailsClosed`, `RecoverySendsAreCurrent`,
  `SingleReader`, for any number of concurrent calls. The strengthening says where
  each kind of call can be suspended, that at most one is inside a transition and
  then no generation is current, and that a call that closes has already detached
  its candidate.
- `KalshiPortfolioProjectionProofs`: `TypeCorrect`, `ProjectionInvariant`, `LeaseExclusive`,
  `HealthyEvidence`, `CurrentIsNewest`, `HealthyMonotone`, `HeadRefinement`. The
  strengthening is `AttemptInv`: an attempt under way carries its worker's token,
  and if that token is still the fence, the attempt is newer than everything
  published and at least as new as every checkpoint. Steps that publish nothing are
  proved together (`QuietInv`), and so are the two that move the head (`Published`).
- `KalshiPrivateSyncProofs`: `Invariance`, `RunnerIsHonest`, `DurableRowIsHonest`, for
  any channels, changes, faults and lease generations. `StreamInv` says where `run`, its
  reader and the callbacks can be together and what the connection has promised by then,
  `ReadInv` that a change missed by the running synchronization is still on the wire or
  already counted in the dirty version, `RowInv` that the durable row, and the copy a
  snapshot is about to commit, is true or its retraction is on the way (`Covered`).
- `KalshiPaperProofs`, fills: `FillsInvariant`, `TypeCorrect`, `BestPriceFirstHolds`,
  `SimulationImplementsOrder`, `SumsInvariant`, `ExecutionIsBest`, `ExecutionIsSound`,
  for every book, order, tick range and payout. The bound on the money is not inductive
  without knowing that every level taken crosses the limit, and best-price-first not
  without knowing that all levels above the next one were emptied or do not count:
  `LevelInv`, with `PhaseInv` for where the walk stands. `ExecutionIsBest` compares the answer with every other way to
  use the displayed depth. `SumInv` ties quantity and money to the fills level by level;
  then one price, that of the worst level touched, separates what was taken from what was
  left (`SomePriceSeparates`), and against it no rearrangement gains (`NoneIsCheaper`).
- `KalshiPaperProofs`, test trade: `RunInvariance`, `RunIsCoherent`, `EvidenceIsTrue`,
  `StoppedIsQuiet`, `RunKeepsContract`, for any quantity, number of events, deaths and
  lost locks. `RunInvariant` says that the entry is decided once and before it is bound
  (`EntryInv`), that one exit is open at a time and asks for no more than is left
  (`ExitInv`, a sum over the exits), that events tell of decisions that can no longer
  change (`EvidenceInv`), that the trigger at work is the only one without an outcome,
  although the run's lock may be lost under it (`TriggerInv`), that the events that end a
  run have room (`LengthInv`), and that a tick with its lock may still complete the run
  and has room to, although a start without its lock may have blocked it meanwhile
  (`TickInv`). The contract needs besides that the entry asks for
  all of `Quantity` (`EntryAsked`).
- `KalshiPaperLedgerProofs`: `Invariance`, `LedgerIsSound`, `ReservationsHold`,
  `OneExitAtATime`, `PositionsConserved`, `LedgerImplementsContract`, for any
  callers, ids, requests and cash. The invariant says of the stored rows that each fits its intent, that they are numbered
  and chained and that their allocated costs are shares of the entry (`Durable`), of each
  caller what it may rely on where it stands (`CallKnows`), and that the locks exclude.
  The contract needs `AdmissionInv` besides: the quantity an exit was checked against is
  still there when its intent is inserted, because nobody has an exit open that could sell
  in between.
- `KalshiReadReconciliationProofs`: `Invariance`, `EvidenceHolds`, `IdentityHolds`,
  `AnswersHold`, for any intents, attempts, orders and callers. `GoodLog` is the
  invariant of one intent's log, `CallKnows` what a call has learnt that stays true
  although it holds no lock between its reads: an acknowledgement never changes and what
  the log holds it keeps.
- `FastSubmitProofs`: `Invariance`, `FiresOnce`, `StaysTracked`, `RespectsCap`,
  `RowsAreTrue`, for any signals, cap and scenarios. The invariant of a signal (`Sound`)
  has one part per property, each under the faults its property spares: what a durable
  record excludes (`Sent`), which of journal, sweep and rows follows an order
  (`Followed`), how the two counts of the cap hand it over (`Counted`), what its rows may
  say (`Settled`, `Held`).

The prover cannot use the library's induction theorems. Where an argument is by induction
(sums over rows, the loop over observed fills, what a load makes of a journal) the proof
takes a least counterexample of the set of numbers at which the claim fails. The lemmas
about sums are stated in both modules that need them, `KalshiPaperProofs` and
`KalshiPaperLedgerProofs`: their components use the same names and cannot be extended
together.

Only model-checked: the liveness properties (`EventuallyPublished`, `TransitionsEnd`,
`DetachedReceiveReturns`, `Converges`, `CallsReturn`, `AttemptsAreAnswered`, `Recovers`,
`IntentsResolve`), which need fairness and are beyond this prover. Every other property of
a passing run is also a theorem.

## 5. Plan

What is left: page traversal and deduplication of the coverage sweep as operators against
a reference definition, and the parts listed below.

## 6. Not modelled

Payload formats, decimal parsing, signing, HTTP, logging and the ORM; the transport
adapter, whose failures appear as failing sends, receives and closes; the live
readiness report (a constant) and the paper results view (read-only); of the inherited
application everything but the fast tier, which this fork disables and which is too large
to be translated faithfully beside it; API routes, migrations and user interface. `PROJECT.json`
lists each with its reason.
