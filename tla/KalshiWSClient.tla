--------------------------- MODULE KalshiWSClient ---------------------------
(***************************************************************************)
(* The read side of the Kalshi V2 WebSocket feed, as a state machine:      *)
(*   KalshiOrderbookState   (kalshi_v2_ws.py)         one reconstructed book *)
(*   KalshiV2WSLifecycle    (kalshi_v2_ws_lifecycle.py)  connection epochs  *)
(*   KalshiV2WSFrameSession (kalshi_v2_ws_session.py)    frame routing      *)
(*                                                                         *)
(* The module holds the client only.  What the venue sends, and what the   *)
(* connection does with it, is added by the modules that extend this one.  *)
(*                                                                         *)
(* Representation.  Sequence numbers, sids, command ids and epoch ids are   *)
(* positive in the code (_positive_integer), so 0 stands for None.  A book  *)
(* maps every price level to its quantity, 0 for a level that is absent    *)
(* (the code never stores a zero quantity).  In a parsed frame "ours" says *)
(* that market_ticker and market_id are the configured ones; a payload     *)
(* that fails its parser is a frame of type "malformed".                   *)
(***************************************************************************)
EXTENDS Integers, FiniteSets

CONSTANTS
    Levels,         \* (side, price) pairs of the orderbook
    Timestamps      \* timestamp_ms values the caller may begin a connection with

ASSUME ClientAssumption == Levels # {} /\ Timestamps \subseteq Nat \ {0}

Channels == {"orderbook_delta", "user_orders", "fill"}
Outcomes == {"none", "noop", "published", "recovery", "private", "terminated"}

Books == [Levels -> Nat]
EmptyBook == [l \in Levels |-> 0]

(* Parsed frames; conn is the epoch of the connection a frame arrived on. *)
SubscribedFrames ==
    [conn: Nat, type: {"subscribed"}, id: Nat, channel: Channels, sid: Nat]
ErrorFrames == [conn: Nat, type: {"error"}, id: Nat]
SnapshotFrames ==
    [conn: Nat, type: {"orderbook_snapshot"}, sid: Nat, ours: BOOLEAN, seq: Nat, levels: Books]
DeltaFrames ==
    [conn: Nat, type: {"orderbook_delta"}, sid: Nat, ours: BOOLEAN, seq: Nat,
     level: Levels, change: Int]
PrivateFrames == [conn: Nat, type: {"user_order", "fill"}, sid: Nat]
MalformedFrames == [conn: Nat, type: {"malformed"}]
Frames == SubscribedFrames \cup ErrorFrames \cup SnapshotFrames \cup DeltaFrames
              \cup PrivateFrames \cup MalformedFrames

NoSnapshot == [sid |-> 0, seq |-> 0, levels |-> EmptyBook]
NoView == [seq |-> 0, levels |-> EmptyBook]
NoIds == [c \in Channels |-> 0]

Max2(a, b) == IF a >= b THEN a ELSE b

VARIABLES
    \* KalshiV2WSLifecycle
    epoch,              \* _current_epoch_id
    epochCounter,       \* _epoch_counter
    commandCounter,     \* _command_counter
    lastTimestamp,      \* _last_timestamp_ms
    commandId,          \* _epoch_commands: the command id of each channel
    pending,            \* _pending: the channels not acknowledged yet
    acknowledged,       \* _acknowledged: the sid of each acknowledged channel
    early,              \* _early_snapshot
    minRecovery,        \* _minimum_recovery_sequence
    \* KalshiOrderbookState; it exists once orderbook_delta is acknowledged
    view,               \* _view
    valid,              \* _valid
    recovery,           \* _recovery is not None
    \* KalshiV2WSFrameSession
    sessionEpoch,       \* _epoch_id
    channelSids,        \* _channel_sids
    recoveryEmitted,    \* _recovery_emitted
    outcome             \* the outcome the last call returned

bookVars == <<view, valid, recovery>>
epochVars == <<commandId, pending, acknowledged, early, minRecovery>>
counterVars == <<epochCounter, lastTimestamp>>
sessionVars == <<sessionEpoch, channelSids, recoveryEmitted>>
clientVars == <<epoch, commandCounter, counterVars, epochVars, bookVars,
                sessionVars, outcome>>

ClientTypeOK ==
    /\ epoch \in Nat /\ epochCounter \in Nat /\ sessionEpoch \in Nat
    /\ commandCounter \in Nat /\ lastTimestamp \in Nat
    /\ commandId \in [Channels -> Nat]
    /\ pending \subseteq Channels
    /\ acknowledged \in [Channels -> Nat]
    /\ channelSids \in [Channels -> Nat]
    /\ early \in [sid: Nat, seq: Nat, levels: Books]
    /\ view \in [seq: Nat, levels: Books]
    /\ minRecovery \in Nat
    /\ valid \in BOOLEAN /\ recovery \in BOOLEAN /\ recoveryEmitted \in BOOLEAN
    /\ outcome \in Outcomes

ClientInit ==
    /\ epoch = 0 /\ epochCounter = 0 /\ sessionEpoch = 0
    /\ commandCounter = 0 /\ lastTimestamp = 0
    /\ commandId = NoIds /\ pending = {} /\ acknowledged = NoIds
    /\ channelSids = NoIds
    /\ early = NoSnapshot /\ minRecovery = 0
    /\ view = NoView /\ valid = FALSE /\ recovery = FALSE
    /\ recoveryEmitted = FALSE
    /\ outcome = "none"

-----------------------------------------------------------------------------
(* _orderbook_state is not None: it is created by the orderbook acknowledgement. *)
Bound == acknowledged["orderbook_delta"] # 0

AllAcknowledged == \A c \in Channels : acknowledged[c] # 0

(* KalshiV2WSLifecycle.orderbook_publishable *)
Publishable == epoch # 0 /\ AllAcknowledged /\ valid

(* What session.receive returns once a book was built: it hands the view on *)
(* only when the lifecycle says it may be published.                        *)
PublishOr(other) == outcome' = IF Publishable' THEN "published" ELSE other

(* KalshiV2WSLifecycle._terminate: the whole epoch is forgotten at once. *)
ForgetEpoch ==
    /\ epoch' = 0
    /\ commandId' = NoIds /\ pending' = {} /\ acknowledged' = NoIds
    /\ early' = NoSnapshot /\ minRecovery' = 0
    /\ view' = NoView /\ valid' = FALSE /\ recovery' = FALSE

(* The epoch ends; the counters and the session's fields stay. *)
EndEpoch ==
    /\ ForgetEpoch
    /\ UNCHANGED <<commandCounter, counterVars, sessionVars>>

(* A frame ended it: session.receive says so. *)
Terminated == EndEpoch /\ outcome' = "terminated"

(* session.begin and lifecycle.begin_connection: a fresh epoch, one subscribe *)
(* command per channel with ids from the lifetime counter.                    *)
BeginIds == [c \in Channels |->
                CASE c = "orderbook_delta" -> commandCounter + 1
                  [] c = "user_orders" -> commandCounter + 2
                  [] c = "fill" -> commandCounter + 3]

(* Mutant: a reconnection inherits the open recovery of the last epoch. *)
BeginKeepsRecovery(ts) ==
    /\ ts > lastTimestamp
    /\ lastTimestamp' = ts
    /\ epochCounter' = epochCounter + 1
    /\ epoch' = epochCounter + 1
    /\ commandCounter' = commandCounter + 3
    /\ commandId' = BeginIds
    /\ pending' = Channels
    /\ acknowledged' = NoIds
    /\ early' = NoSnapshot /\ minRecovery' = 0
    /\ view' = NoView /\ valid' = FALSE /\ recovery' = FALSE
    /\ sessionEpoch' = epochCounter + 1
    /\ channelSids' = NoIds
    /\ outcome' = "none"
    /\ UNCHANGED recoveryEmitted

Begin(ts) ==
    /\ ts > lastTimestamp
    /\ lastTimestamp' = ts
    /\ epochCounter' = epochCounter + 1
    /\ epoch' = epochCounter + 1
    /\ commandCounter' = commandCounter + 3
    /\ commandId' = BeginIds
    /\ pending' = Channels
    /\ acknowledged' = NoIds
    /\ early' = NoSnapshot /\ minRecovery' = 0
    /\ view' = NoView /\ valid' = FALSE /\ recovery' = FALSE
    /\ sessionEpoch' = epochCounter + 1
    /\ channelSids' = NoIds
    /\ recoveryEmitted' = FALSE
    /\ outcome' = "none"

(* lifecycle.terminate_epoch, called when the connection is lost, closed or *)
(* replaced.                                                               *)
TerminateEpoch == epoch # 0 /\ EndEpoch /\ outcome' = "none"

-----------------------------------------------------------------------------
(* Mutant: the frame's own epoch is not compared. *)
CurrentWithoutEpoch(f) == epoch # 0

(* session.receive: a frame counts only while its epoch is the current one. *)
Current(f) == f.conn = sessionEpoch /\ f.conn = epoch /\ epoch # 0

ReceiveStale(f) ==
    /\ ~Current(f)
    /\ outcome' = "noop"
    /\ UNCHANGED <<epoch, commandCounter, counterVars, epochVars, bookVars, sessionVars>>

(* Parse failures and unknown frame types. *)
ReceiveMalformed(f) == f.type = "malformed" /\ Terminated

(* lifecycle.receive_error: known or unknown command id, the epoch ends. *)
ReceiveError(f) == f.type = "error" /\ Terminated

(* lifecycle.receive_subscribed.  The acknowledgement must answer a pending  *)
(* command, name that command's channel, and for the orderbook agree with a  *)
(* snapshot that overtook it.                                                *)
ExpectedAck(f) ==
    /\ f.channel \in pending
    /\ f.id = commandId[f.channel]
    /\ acknowledged[f.channel] = 0

EarlyAgrees(f) == f.channel = "orderbook_delta" /\ early.seq # 0 => early.sid = f.sid

ReceiveBadSubscribed(f) ==
    /\ f.type = "subscribed"
    /\ ~ExpectedAck(f) \/ ~EarlyAgrees(f)
    /\ Terminated

ReceiveSubscribed(f) ==
    /\ f.type = "subscribed"
    /\ ExpectedAck(f) /\ EarlyAgrees(f)
    /\ pending' = pending \ {f.channel}
    /\ acknowledged' = [acknowledged EXCEPT ![f.channel] = f.sid]
    /\ channelSids' = [channelSids EXCEPT ![f.channel] = f.sid]
    /\ IF f.channel = "orderbook_delta" /\ early.seq # 0
       THEN /\ view' = [seq |-> early.seq, levels |-> early.levels]
            /\ valid' = TRUE
            /\ early' = NoSnapshot
       ELSE UNCHANGED <<view, valid, early>>
    /\ UNCHANGED <<epoch, commandCounter, counterVars, commandId, minRecovery,
                   recovery, sessionEpoch, recoveryEmitted>>
    /\ PublishOr("noop")

-----------------------------------------------------------------------------
(* lifecycle.receive_snapshot and KalshiOrderbookState.apply_snapshot *)
Parsed(f) == [sid |-> f.sid, seq |-> f.seq, levels |-> f.levels]
Viewed(f) == [seq |-> f.seq, levels |-> f.levels]

SnapshotForeign(f) ==
    \/ ~f.ours
    \/ Bound /\ f.sid # acknowledged["orderbook_delta"]

(* Before the acknowledgement one snapshot is kept, unpublished. *)
ReceiveEarlySnapshot(f) ==
    /\ f.type = "orderbook_snapshot" /\ ~SnapshotForeign(f) /\ ~Bound
    /\ early.seq = 0 \/ early = Parsed(f)
    /\ early' = Parsed(f)
    /\ outcome' = "noop"
    /\ UNCHANGED <<epoch, commandCounter, counterVars, commandId, pending,
                   acknowledged, minRecovery, bookVars, sessionVars>>

(* Foreign identity, a second different early snapshot, or a snapshot that *)
(* would replace a valid book by another one: the epoch ends.              *)
BelowWatermark(f) == minRecovery # 0 /\ f.seq < minRecovery

ReceiveConflictingSnapshot(f) ==
    /\ f.type = "orderbook_snapshot"
    /\ \/ SnapshotForeign(f)
       \/ ~Bound /\ early.seq # 0 /\ early # Parsed(f)
       \/ Bound /\ ~BelowWatermark(f) /\ valid /\ view # Viewed(f)
    /\ Terminated

(* Below the recovery watermark, or not past the last accepted sequence: *)
(* refused without ending the epoch.                                      *)
SnapshotTooOld(f) ==
    \/ BelowWatermark(f)
    \/ ~valid /\ view.seq # 0 /\ f.seq <= view.seq

ReceiveOldSnapshot(f) ==
    /\ f.type = "orderbook_snapshot" /\ ~SnapshotForeign(f) /\ Bound
    /\ SnapshotTooOld(f)
    /\ outcome' = "noop"
    /\ UNCHANGED <<epoch, commandCounter, counterVars, epochVars, bookVars, sessionVars>>

(* Mutant: a snapshot may replace a valid book. *)
ReceiveSnapshotWhileValid(f) ==
    /\ f.type = "orderbook_snapshot" /\ ~SnapshotForeign(f) /\ Bound
    /\ ~SnapshotTooOld(f)
    /\ view' = Viewed(f)
    /\ valid' = TRUE
    /\ recovery' = FALSE
    /\ minRecovery' = 0
    /\ recoveryEmitted' = FALSE
    /\ UNCHANGED <<epoch, commandCounter, counterVars, commandId, pending,
                   acknowledged, early, sessionEpoch, channelSids>>
    /\ PublishOr("noop")

(* Mutant: an accepted recovery snapshot does not close the request. *)
ReceiveSnapshotKeepsRequest(f) ==
    /\ f.type = "orderbook_snapshot" /\ ~SnapshotForeign(f) /\ Bound
    /\ ~SnapshotTooOld(f)
    /\ valid => view = Viewed(f)
    /\ view' = Viewed(f)
    /\ valid' = TRUE
    /\ recovery' = IF valid THEN recovery ELSE FALSE
    /\ minRecovery' = 0
    /\ UNCHANGED <<epoch, commandCounter, counterVars, commandId, pending,
                   acknowledged, early, sessionVars>>
    /\ PublishOr("noop")

(* The first snapshot, a recovery snapshot, or an exact repeat. *)
ReceiveSnapshot(f) ==
    /\ f.type = "orderbook_snapshot" /\ ~SnapshotForeign(f) /\ Bound
    /\ ~SnapshotTooOld(f)
    /\ valid => view = Viewed(f)
    /\ view' = Viewed(f)
    /\ valid' = TRUE
    /\ recovery' = IF valid THEN recovery ELSE FALSE
    /\ minRecovery' = 0
    /\ recoveryEmitted' = FALSE
    /\ UNCHANGED <<epoch, commandCounter, counterVars, commandId, pending,
                   acknowledged, early, sessionEpoch, channelSids>>
    /\ PublishOr("noop")

-----------------------------------------------------------------------------
(* lifecycle.receive_delta and KalshiOrderbookState.apply_delta *)
DeltaForeign(f) ==
    Bound /\ (f.sid # acknowledged["orderbook_delta"] \/ ~f.ours)

ReceiveForeignDelta(f) ==
    /\ f.type = "orderbook_delta" /\ DeltaForeign(f)
    /\ Terminated

Contiguous(f) == f.seq = view.seq + 1
Quantity(f) == view.levels[f.level] + f.change

(* A contiguous delta that keeps its level non-negative is applied. *)
ApplyDelta(f) ==
    /\ f.type = "orderbook_delta" /\ Bound /\ ~DeltaForeign(f)
    /\ valid /\ Contiguous(f) /\ Quantity(f) >= 0
    /\ view' = [seq |-> f.seq, levels |-> [view.levels EXCEPT ![f.level] = Quantity(f)]]
    /\ minRecovery' = IF minRecovery = 0 THEN 0 ELSE Max2(minRecovery, f.seq)
    /\ UNCHANGED <<epoch, commandCounter, counterVars, commandId, pending,
                   acknowledged, early, valid, recovery, sessionVars>>
    /\ PublishOr("noop")

(* The delta failed and the epoch lives on: session.receive asks for one  *)
(* snapshot per failure of continuity, with the next command id.          *)
RequestRecovery ==
    IF recoveryEmitted
    THEN outcome' = "noop" /\ UNCHANGED <<commandCounter, recoveryEmitted>>
    ELSE /\ outcome' = "recovery"
         /\ commandCounter' = commandCounter + 1
         /\ recoveryEmitted' = TRUE

(* A gap, a repeat or a negative level invalidates the book and opens the  *)
(* recovery watermark at the highest sequence seen.                        *)
BreakContinuity(f) ==
    /\ f.type = "orderbook_delta" /\ Bound /\ ~DeltaForeign(f)
    /\ valid /\ (~Contiguous(f) \/ Quantity(f) < 0)
    /\ valid' = FALSE /\ recovery' = TRUE
    /\ LET reached == Max2(view.seq + 1, f.seq)
       IN  minRecovery' = IF Contiguous(f) THEN Max2(minRecovery, reached) ELSE reached
    /\ RequestRecovery
    /\ UNCHANGED <<epoch, counterVars, commandId, pending, acknowledged, early,
                   view, sessionEpoch, channelSids>>

(* Mutant: a delta that arrives during recovery is not remembered. *)
DeltaWhileInvalidForgotten(f) ==
    /\ f.type = "orderbook_delta" /\ ~DeltaForeign(f)
    /\ ~valid /\ (recovery \/ recoveryEmitted)
    /\ RequestRecovery
    /\ UNCHANGED <<epoch, counterVars, epochVars, bookVars, sessionEpoch, channelSids>>

(* While the book is invalid a delta only raises the watermark. *)
DeltaWhileInvalid(f) ==
    /\ f.type = "orderbook_delta" /\ ~DeltaForeign(f)
    /\ ~valid /\ (recovery \/ recoveryEmitted)
    /\ minRecovery' = IF minRecovery = 0 THEN 0 ELSE Max2(minRecovery, f.seq)
    /\ RequestRecovery
    /\ UNCHANGED <<epoch, counterVars, commandId, pending, acknowledged, early,
                   bookVars, sessionEpoch, channelSids>>

(* Mutant: a delta that arrives during recovery ends the epoch. *)
DeltaDuringRecovery(f) ==
    /\ f.type = "orderbook_delta" /\ ~DeltaForeign(f)
    /\ ~valid
    /\ Terminated

(* No snapshot was ever accepted: recovery_command has nothing to ask for, *)
(* its error reaches session.receive and ends the epoch.                   *)
DeltaBeforeSnapshot(f) ==
    /\ f.type = "orderbook_delta" /\ ~DeltaForeign(f)
    /\ ~valid /\ ~recovery /\ ~recoveryEmitted
    /\ Terminated

-----------------------------------------------------------------------------
(* session._private_frame: the channel's acknowledged sid, or the epoch ends. *)
PrivateChannel(f) == IF f.type = "user_order" THEN "user_orders" ELSE "fill"

ReceivePrivate(f) ==
    /\ f.type \in {"user_order", "fill"}
    /\ f.sid # 0 /\ channelSids[PrivateChannel(f)] = f.sid
    /\ outcome' = "private"
    /\ UNCHANGED <<epoch, commandCounter, counterVars, epochVars, bookVars, sessionVars>>

ReceiveBadPrivate(f) ==
    /\ f.type \in {"user_order", "fill"}
    /\ channelSids[PrivateChannel(f)] # f.sid \/ f.sid = 0
    /\ Terminated

(* session.receive on a frame of the current epoch. *)
ReceiveCurrent(f) ==
    /\ Current(f)
    /\ \/ ReceiveMalformed(f)
       \/ ReceiveError(f)
       \/ ReceiveBadSubscribed(f)
       \/ ReceiveSubscribed(f)
       \/ ReceiveEarlySnapshot(f)
       \/ ReceiveConflictingSnapshot(f)
       \/ ReceiveOldSnapshot(f)
       \/ ReceiveSnapshot(f)
       \/ ReceiveForeignDelta(f)
       \/ ApplyDelta(f)
       \/ BreakContinuity(f)
       \/ DeltaWhileInvalid(f)
       \/ DeltaBeforeSnapshot(f)
       \/ ReceivePrivate(f)
       \/ ReceiveBadPrivate(f)

Receive(f) == ReceiveStale(f) \/ ReceiveCurrent(f)
=============================================================================
