-------------------------- MODULE KalshiFeedProofs --------------------------
(***************************************************************************)
(* Proofs about KalshiFeed and KalshiFeedOrdered, for every set of levels  *)
(* and timestamps and every bound: type correctness, the inductive         *)
(* invariant FeedInv, the four safety properties of the feed, and, for the *)
(* ordered connection, that no frame the venue may queue ends the epoch.   *)
(***************************************************************************)
EXTENDS KalshiFeedOrdered, TLAPS

LEMMA SidType == /\ \A c \in Channels : Sid[c] \in Nat \ {0}
                 /\ BookSid = 1 /\ ForeignSid = 4
  BY DEF Sid, Channels, BookSid, ForeignSid

LEMMA LastBook == TypeOK => hist[Len(hist)] \in Books
  BY DEF TypeOK

(* Every frame the venue builds is a frame. *)
LEMMA FrameTypes ==
    ASSUME TypeOK
    PROVE  /\ \A i \in Nat, c \in Channels : SubscribedFrame(i, c) \in Frames
           /\ \A s, n \in Nat, o \in BOOLEAN, b \in Books : SnapshotFrame(s, o, n, b) \in Frames
           /\ \A s, n \in Nat, o \in BOOLEAN, l \in Levels, d \in Int :
                 DeltaFrame(s, o, n, l, d) \in Frames
           /\ \A c \in Channels, s \in Nat : PrivateFrame(c, s) \in Frames
           /\ \A i \in Nat : ErrorFrame(i) \in Frames
           /\ MalformedFrame \in Frames
<1>1. epoch \in Nat /\ \A c \in Channels : Sid[c] \in Nat
  BY SidType DEF TypeOK, ClientTypeOK
<1>2. \A i \in Nat, c \in Channels : SubscribedFrame(i, c) \in SubscribedFrames
  BY <1>1 DEF SubscribedFrame, SubscribedFrames
<1>3. \A s, n \in Nat, o \in BOOLEAN, b \in Books : SnapshotFrame(s, o, n, b) \in SnapshotFrames
  BY <1>1 DEF SnapshotFrame, SnapshotFrames
<1>4. \A s, n \in Nat, o \in BOOLEAN, l \in Levels, d \in Int :
         DeltaFrame(s, o, n, l, d) \in DeltaFrames
  BY <1>1 DEF DeltaFrame, DeltaFrames
<1>5. \A c \in Channels, s \in Nat : PrivateFrame(c, s) \in PrivateFrames
  BY <1>1 DEF PrivateFrame, PrivateFrames
<1>6. \A i \in Nat : ErrorFrame(i) \in ErrorFrames
  BY <1>1 DEF ErrorFrame, ErrorFrames
<1>7. MalformedFrame \in MalformedFrames
  BY <1>1 DEF MalformedFrame, MalformedFrames
<1> QED
  BY <1>2, <1>3, <1>4, <1>5, <1>6, <1>7 DEF Frames

LEMMA FaultFrameType == TypeOK => FaultFrames \subseteq Frames
<1> SUFFICES ASSUME TypeOK PROVE FaultFrames \subseteq Frames
  OBVIOUS
<1> DEFINE n == Len(hist) + 1
           d == -(MaxQty + 1)
           b == hist[Len(hist)]
           Odd == {MalformedFrame, PrivateFrame("fill", ForeignSid),
                   SubscribedFrame(commandCounter + 1, "fill")}
           Deltas == {DeltaFrame(BookSid, ours, n, l, d) : ours \in BOOLEAN, l \in Levels}
           Foreign == {DeltaFrame(ForeignSid, TRUE, n, l, d) : l \in Levels}
           Snapshots == {SnapshotFrame(BookSid, FALSE, n, b), SnapshotFrame(ForeignSid, TRUE, n, b)}
<1>1. n \in Nat /\ d \in Int /\ commandCounter + 1 \in Nat /\ b \in Books
  BY BoundsAssumption, LastBook DEF TypeOK, ClientTypeOK
<1>2. BookSid \in Nat /\ ForeignSid \in Nat /\ "fill" \in Channels
  BY SidType DEF Channels
<1>3. FaultFrames = Odd \cup Deltas \cup Foreign \cup Snapshots
  BY DEF FaultFrames
<1> HIDE DEF n, d, b
<1>4. Odd \subseteq Frames /\ Snapshots \subseteq Frames
  BY <1>1, <1>2, FrameTypes
<1>5. Deltas \subseteq Frames
  BY <1>1, <1>2, FrameTypes
<1>6. Foreign \subseteq Frames
  BY <1>1, <1>2, FrameTypes
<1> HIDE DEF Odd, Deltas, Foreign, Snapshots
<1> QED
  BY <1>3, <1>4, <1>5, <1>6

(* The fields of a frame of a given type. *)
LEMMA FrameFields ==
    ASSUME NEW f \in Frames
    PROVE  /\ f.type = "subscribed" => f \in SubscribedFrames
           /\ f.type = "orderbook_snapshot" => f \in SnapshotFrames
           /\ f.type = "orderbook_delta" => f \in DeltaFrames
           /\ f.type \in {"user_order", "fill"} => f \in PrivateFrames
           /\ f.conn \in Nat
  BY DEF Frames, SubscribedFrames, ErrorFrames, SnapshotFrames, DeltaFrames,
         PrivateFrames, MalformedFrames

-----------------------------------------------------------------------------
(* Values the client resets to have their types. *)
LEMMA EmptyTypes ==
    /\ NoIds \in [Channels -> Nat]
    /\ NoSnapshot \in [sid: Nat, seq: Nat, levels: Books]
    /\ NoView \in [seq: Nat, levels: Books]
  BY DEF NoIds, NoSnapshot, NoView, EmptyBook, Books

LEMMA EndEpochType ==
    ASSUME ClientTypeOK, EndEpoch, outcome' \in Outcomes PROVE ClientTypeOK'
<1>1. /\ epoch' \in Nat
      /\ commandId' \in [Channels -> Nat] /\ pending' \subseteq Channels
      /\ acknowledged' \in [Channels -> Nat]
      /\ early' \in [sid: Nat, seq: Nat, levels: Books]
      /\ view' \in [seq: Nat, levels: Books] /\ minRecovery' \in Nat
  BY EmptyTypes DEF EndEpoch, ForgetEpoch
<1>2. valid' \in BOOLEAN /\ recovery' \in BOOLEAN
  BY DEF EndEpoch, ForgetEpoch
<1>3. UNCHANGED <<commandCounter, epochCounter, lastTimestamp, sessionEpoch, channelSids,
                  recoveryEmitted>>
  BY DEF EndEpoch, counterVars, sessionVars
<1> QED
  BY <1>1, <1>2, <1>3 DEF ClientTypeOK

LEMMA TerminatedType ==
    ASSUME ClientTypeOK, Terminated \/ TerminateEpoch PROVE ClientTypeOK'
  BY EndEpochType DEF Terminated, TerminateEpoch, Outcomes

LEMMA BeginType ==
    ASSUME ClientTypeOK, NEW ts \in Timestamps, Begin(ts) PROVE ClientTypeOK'
<1>1. BeginIds \in [Channels -> Nat]
  BY DEF BeginIds, Channels, ClientTypeOK
<1>2. /\ epoch' \in Nat /\ epochCounter' \in Nat /\ sessionEpoch' \in Nat
      /\ commandCounter' \in Nat /\ lastTimestamp' \in Nat /\ minRecovery' \in Nat
  BY ClientAssumption DEF ClientTypeOK, Begin
<1>3. /\ commandId' \in [Channels -> Nat] /\ pending' \subseteq Channels
      /\ acknowledged' \in [Channels -> Nat] /\ channelSids' \in [Channels -> Nat]
      /\ early' \in [sid: Nat, seq: Nat, levels: Books]
      /\ view' \in [seq: Nat, levels: Books]
  BY <1>1, EmptyTypes DEF Begin
<1>4. /\ valid' \in BOOLEAN /\ recovery' \in BOOLEAN /\ recoveryEmitted' \in BOOLEAN
      /\ outcome' \in Outcomes
  BY DEF Begin, Outcomes
<1> QED
  BY <1>2, <1>3, <1>4 DEF ClientTypeOK

LEMMA RequestRecoveryType ==
    ASSUME ClientTypeOK, RequestRecovery
    PROVE  commandCounter' \in Nat /\ recoveryEmitted' \in BOOLEAN /\ outcome' \in Outcomes
<1>1. CASE recoveryEmitted
  BY <1>1 DEF RequestRecovery, ClientTypeOK, Outcomes
<1>2. CASE ~recoveryEmitted
  BY <1>2 DEF RequestRecovery, ClientTypeOK, Outcomes
<1> QED BY <1>1, <1>2

(* What session.receive does to the client's types, one step per handler. *)
LEMMA ReceiveType ==
    ASSUME ClientTypeOK, NEW f \in Frames, Receive(f) PROVE ClientTypeOK'
<1> USE DEF epochVars, bookVars, counterVars, sessionVars, Outcomes
<1>1. CASE ReceiveStale(f)
  BY <1>1 DEF ReceiveStale, ClientTypeOK
<1>2. CASE \/ ReceiveMalformed(f) \/ ReceiveError(f) \/ ReceiveBadSubscribed(f)
           \/ ReceiveConflictingSnapshot(f) \/ ReceiveForeignDelta(f)
           \/ DeltaBeforeSnapshot(f) \/ ReceiveBadPrivate(f)
  BY <1>2, TerminatedType DEF ReceiveMalformed, ReceiveError, ReceiveBadSubscribed,
     ReceiveConflictingSnapshot, ReceiveForeignDelta, DeltaBeforeSnapshot, ReceiveBadPrivate
<1>3. CASE ReceiveSubscribed(f)
  <2>1. f \in SubscribedFrames
    BY <1>3, FrameFields DEF ReceiveSubscribed
  <2>2. f.sid \in Nat /\ f.channel \in Channels
    BY <2>1 DEF SubscribedFrames
  <2>3. [seq |-> early.seq, levels |-> early.levels] \in [seq: Nat, levels: Books]
    BY DEF ClientTypeOK
  <2> QED
    BY <1>3, <2>2, <2>3, EmptyTypes DEF ReceiveSubscribed, ClientTypeOK, PublishOr
<1>4. CASE ReceiveEarlySnapshot(f) \/ ReceiveOldSnapshot(f) \/ ReceiveSnapshot(f)
  <2>1. f \in SnapshotFrames
    BY <1>4, FrameFields DEF ReceiveEarlySnapshot, ReceiveOldSnapshot, ReceiveSnapshot
  <2>2. /\ Parsed(f) \in [sid: Nat, seq: Nat, levels: Books]
        /\ Viewed(f) \in [seq: Nat, levels: Books]
    BY <2>1 DEF SnapshotFrames, Parsed, Viewed
  <2>3. CASE ReceiveEarlySnapshot(f)
    BY <2>2, <2>3 DEF ReceiveEarlySnapshot, ClientTypeOK
  <2>4. CASE ReceiveOldSnapshot(f)
    BY <2>4 DEF ReceiveOldSnapshot, ClientTypeOK
  <2>5. CASE ReceiveSnapshot(f)
    BY <2>2, <2>5 DEF ReceiveSnapshot, ClientTypeOK, PublishOr
  <2> QED BY <1>4, <2>3, <2>4, <2>5
<1>5. CASE ApplyDelta(f) \/ BreakContinuity(f) \/ DeltaWhileInvalid(f)
  <2>1. f \in DeltaFrames
    BY <1>5, FrameFields DEF ApplyDelta, BreakContinuity, DeltaWhileInvalid
  <2>2. f.seq \in Nat /\ f.level \in Levels /\ f.change \in Int
    BY <2>1 DEF DeltaFrames
  <2>3. view.seq \in Nat /\ view.levels \in Books /\ minRecovery \in Nat
    BY DEF ClientTypeOK
  <2>4. CASE ApplyDelta(f)
    <3>1. Quantity(f) \in Nat
      BY <2>2, <2>3, <2>4 DEF ApplyDelta, Quantity, Books
    <3>2. [view.levels EXCEPT ![f.level] = Quantity(f)] \in Books
      BY <3>1, <2>3 DEF Books
    <3>3. view' \in [seq: Nat, levels: Books] /\ minRecovery' \in Nat
      BY <2>2, <2>3, <2>4, <3>2 DEF ApplyDelta, Max2
    <3> QED
      BY <2>4, <3>3 DEF ApplyDelta, ClientTypeOK, PublishOr
  <2>5. CASE BreakContinuity(f)
    <3>1. minRecovery' \in Nat
      BY <2>2, <2>3, <2>5 DEF BreakContinuity, Max2
    <3>2. commandCounter' \in Nat /\ recoveryEmitted' \in BOOLEAN /\ outcome' \in Outcomes
      BY <2>5, RequestRecoveryType DEF BreakContinuity
    <3> QED
      BY <2>5, <3>1, <3>2 DEF BreakContinuity, ClientTypeOK
  <2>6. CASE DeltaWhileInvalid(f)
    <3>1. minRecovery' \in Nat
      BY <2>2, <2>3, <2>6 DEF DeltaWhileInvalid, Max2
    <3>2. commandCounter' \in Nat /\ recoveryEmitted' \in BOOLEAN /\ outcome' \in Outcomes
      BY <2>6, RequestRecoveryType DEF DeltaWhileInvalid
    <3> QED
      BY <2>6, <3>1, <3>2 DEF DeltaWhileInvalid, ClientTypeOK
  <2> QED BY <1>5, <2>4, <2>5, <2>6
<1>6. CASE ReceivePrivate(f)
  BY <1>6 DEF ReceivePrivate, ClientTypeOK
<1> QED
  BY <1>1, <1>2, <1>3, <1>4, <1>5, <1>6 DEF Receive, ReceiveCurrent

-----------------------------------------------------------------------------
LEMMA InitType == Init => TypeOK
<1> SUFFICES ASSUME Init PROVE TypeOK
  OBVIOUS
<1>1. EmptyBook \in Books
  BY DEF EmptyBook, Books
<1>2. ClientTypeOK
  BY EmptyTypes DEF Init, ClientInit, ClientTypeOK, Outcomes
<1>3. hist \in Seq(Books) /\ Len(hist) > 0
  BY <1>1 DEF Init
<1> QED BY <1>2, <1>3 DEF Init, TypeOK

(* The venue's book after one more message. *)
LEMMA NextBookType ==
    ASSUME TypeOK, NEW l \in Levels, NEW d \in Int, hist[Len(hist)][l] + d \in 0..MaxQty
    PROVE  [hist[Len(hist)] EXCEPT ![l] = @ + d] \in Books
  BY LastBook, BoundsAssumption DEF Books

LEMMA NextType == TypeOK /\ [Next]_vars => TypeOK'
<1> SUFFICES ASSUME TypeOK, [Next]_vars PROVE TypeOK'
  OBVIOUS
<1>1. ASSUME NEW ts \in Timestamps, Connect(ts) PROVE TypeOK'
  <2>1. ClientTypeOK'
    BY <1>1, BeginType DEF Connect, TypeOK
  <2>2. hist' \in Seq(Books) /\ Len(hist') > 0
    <3>1. PICK b \in VenueBooks : hist' = <<b>>
      BY <1>1 DEF Connect
    <3>2. b \in Books
      BY <3>1, BoundsAssumption DEF VenueBooks, Books
    <3> QED BY <3>1, <3>2
  <2> QED BY <1>1, <2>1, <2>2 DEF Connect, TypeOK
<1>2. CASE Disconnect
  <2>1. ClientTypeOK'
    BY <1>2, TerminatedType DEF Disconnect, TypeOK
  <2> QED BY <1>2, <2>1 DEF Disconnect, TypeOK, feedVars
<1>3. ASSUME NEW f \in sent, Deliver(f) PROVE TypeOK'
  <2>1. f \in Frames
    BY DEF TypeOK
  <2>2. ClientTypeOK'
    BY <1>3, <2>1, ReceiveType DEF Deliver, TypeOK
  <2>3. requests' \subseteq Nat
    BY <1>3, <2>2 DEF Deliver, TypeOK, ClientTypeOK
  <2>4. observed' \in Nat
    <3>1. OrderbookFrame(f) => f.seq \in Nat
      BY <2>1, FrameFields DEF OrderbookFrame, SnapshotFrames, DeltaFrames
    <3> QED BY <1>3, <3>1 DEF Deliver, TypeOK, Max2
  <2> QED BY <1>3, <2>2, <2>3, <2>4 DEF Deliver, TypeOK
<1>4. ASSUME NEW c \in Channels, VenueSubscribe(c) PROVE TypeOK'
  <2>1. commandId[c] \in Nat /\ Len(hist) \in Nat /\ BookSid \in Nat
    BY SidType DEF TypeOK, ClientTypeOK
  <2>2. SubscribedFrame(commandId[c], c) \in Frames
    BY <2>1, FrameTypes
  <2>3. Snapshot(Len(hist), hist[Len(hist)]) \in Frames
    BY <2>1, LastBook, FrameTypes DEF Snapshot
  <2>4. sent' \subseteq Frames
    BY <1>4, <2>2, <2>3 DEF VenueSubscribe, Send, TypeOK
  <2>5. ClientTypeOK'
    BY <1>4 DEF VenueSubscribe, TypeOK, ClientTypeOK, clientVars, counterVars, epochVars,
                bookVars, sessionVars
  <2> QED BY <1>4, <2>4, <2>5 DEF VenueSubscribe, TypeOK
<1>5. ASSUME NEW l \in Levels, NEW d \in -MaxQty..MaxQty, VenueDelta(l, d) PROVE TypeOK'
  <2>1. d \in Int /\ Len(hist) + 1 \in Nat /\ BookSid \in Nat
    BY SidType, BoundsAssumption DEF TypeOK
  <2>2. Delta(Len(hist) + 1, l, d) \in Frames
    BY <2>1, FrameTypes DEF Delta
  <2>3. hist' \in Seq(Books) /\ Len(hist') > 0
    BY <1>5, <2>1, NextBookType DEF VenueDelta, TypeOK
  <2>4. ClientTypeOK'
    BY <1>5 DEF VenueDelta, TypeOK, ClientTypeOK, clientVars, counterVars, epochVars,
                bookVars, sessionVars
  <2> QED BY <1>5, <2>2, <2>3, <2>4 DEF VenueDelta, TypeOK, Send
<1>6. ASSUME NEW i \in requests, VenueSnapshot(i) PROVE TypeOK'
  <2>1. Len(hist) \in Nat /\ Len(hist) + 1 \in Nat /\ BookSid \in Nat
    BY SidType DEF TypeOK
  <2>2. /\ Snapshot(Len(hist), hist[Len(hist)]) \in Frames
        /\ Snapshot(Len(hist) + 1, hist[Len(hist)]) \in Frames
    BY <2>1, LastBook, FrameTypes DEF Snapshot
  <2>3. hist' \in Seq(Books) /\ Len(hist') > 0
    BY <1>6, LastBook DEF VenueSnapshot, TypeOK
  <2>4. ClientTypeOK'
    BY <1>6 DEF VenueSnapshot, TypeOK, ClientTypeOK, clientVars, counterVars, epochVars,
                bookVars, sessionVars
  <2> QED BY <1>6, <2>2, <2>3, <2>4 DEF VenueSnapshot, TypeOK, Send
<1>7. ASSUME NEW i \in requests \cup {commandId[c] : c \in Channels}, VenueError(i) PROVE TypeOK'
  <2>1. i \in Nat
    BY DEF TypeOK, ClientTypeOK
  <2>2. ErrorFrame(i) \in Frames
    BY <2>1, FrameTypes
  <2>3. ClientTypeOK'
    BY <1>7 DEF VenueError, TypeOK, ClientTypeOK, clientVars, counterVars, epochVars,
                bookVars, sessionVars
  <2> QED BY <1>7, <2>2, <2>3 DEF VenueError, TypeOK, Send
<1>8. ASSUME NEW c \in {"user_orders", "fill"}, VenuePrivate(c) PROVE TypeOK'
  <2>1. c \in Channels /\ Sid[c] \in Nat
    BY SidType DEF Channels
  <2>2. PrivateFrame(c, Sid[c]) \in Frames
    BY <2>1, FrameTypes
  <2>3. ClientTypeOK'
    BY <1>8 DEF VenuePrivate, TypeOK, ClientTypeOK, clientVars, counterVars, epochVars,
                bookVars, sessionVars
  <2> QED BY <1>8, <2>2, <2>3 DEF VenuePrivate, TypeOK, Send
<1>9. CASE VenueFault
  <2>1. ClientTypeOK'
    BY <1>9 DEF VenueFault, TypeOK, ClientTypeOK, clientVars, counterVars, epochVars,
                bookVars, sessionVars
  <2> QED BY <1>9, <2>1, FaultFrameType DEF VenueFault, TypeOK, Send
<1>10. CASE UNCHANGED vars
  BY <1>10 DEF vars, feedVars, TypeOK, ClientTypeOK, clientVars, counterVars, epochVars,
               bookVars, sessionVars
<1> QED
  BY <1>1, <1>2, <1>3, <1>4, <1>5, <1>6, <1>7, <1>8, <1>9, <1>10 DEF Next

(* Every reachable state of the client, the venue and the wire is well typed. *)
THEOREM TypeCorrect == Spec => []TypeOK
<1>1. Init => TypeOK
  BY InitType
<1>2. TypeOK /\ [Next]_vars => TypeOK'
  BY NextType
<1> QED BY <1>1, <1>2, PTL DEF Spec

-----------------------------------------------------------------------------
(* A received frame moves no counter, and either keeps the epoch or ends it. *)
LEMMA ReceiveEpoch ==
    ASSUME NEW f, Receive(f)
    PROVE  /\ UNCHANGED <<epochCounter, sessionEpoch>>
           /\ epoch' = epoch \/ Terminated
  BY DEF Receive, ReceiveCurrent, ReceiveStale, ReceiveMalformed, ReceiveError,
         ReceiveBadSubscribed, ReceiveSubscribed, ReceiveEarlySnapshot,
         ReceiveConflictingSnapshot, ReceiveOldSnapshot, ReceiveSnapshot,
         ReceiveForeignDelta, ApplyDelta, BreakContinuity, DeltaWhileInvalid,
         DeltaBeforeSnapshot, ReceivePrivate, ReceiveBadPrivate, Terminated, EndEpoch,
         counterVars, sessionVars

(* The steps of the venue leave the client alone. *)
VenueStep ==
    \/ \E c \in Channels : VenueSubscribe(c)
    \/ \E l \in Levels, d \in -MaxQty..MaxQty : VenueDelta(l, d)
    \/ \E i \in requests : VenueSnapshot(i)
    \/ \E i \in requests \cup {commandId[c] : c \in Channels} : VenueError(i)
    \/ \E c \in {"user_orders", "fill"} : VenuePrivate(c)
    \/ VenueFault

LEMMA NextCases ==
    [Next]_vars => \/ \E ts \in Timestamps : Connect(ts)
                   \/ Disconnect
                   \/ \E f \in sent : Deliver(f)
                   \/ VenueStep
                   \/ UNCHANGED vars
  BY DEF Next, VenueStep

LEMMA VenueClient ==
    VenueStep => UNCHANGED <<clientVars, observed>> /\ epoch # 0
  BY DEF VenueStep, VenueSubscribe, VenueDelta, VenueSnapshot, VenueError, VenuePrivate, VenueFault

(* What a venue step sends carries the live epoch, and fits the history *)
(* the step leaves behind.                                              *)
GoodFrame(f) ==
    /\ f.type = "subscribed" => f.sid = Sid[f.channel]
    /\ f.type = "orderbook_snapshot" => f.seq > 0
    /\ f.type = "orderbook_snapshot" /\ f.ours /\ f.sid = BookSid => TrueSnapshot(f)
    /\ f.type = "orderbook_delta" /\ f.ours /\ f.sid = BookSid => TrueDelta(f)

LEMMA WireGood ==
    WireInv <=> /\ \A n \in 1..Len(hist) : hist[n] \in VenueBooks
                /\ \A f \in sent : f.conn = epochCounter => GoodFrame(f)
  BY DEF WireInv, GoodFrame

(* A longer history keeps every frame of the shorter one true. *)
LEMMA HistoryGrows ==
    ASSUME TypeOK, NEW b \in Books, hist' = Append(hist, b) \/ hist' = hist
    PROVE  /\ \A f : TrueSnapshot(f) => f.seq \in 1..Len(hist') /\ f.levels = hist'[f.seq]
           /\ \A f : TrueDelta(f) =>
                 \/ f.change < -MaxQty
                 \/ /\ f.seq \in 2..Len(hist')
                    /\ hist'[f.seq] = [hist'[f.seq - 1] EXCEPT ![f.level] = @ + f.change]
<1>1. /\ Len(hist') >= Len(hist) /\ Len(hist') \in Nat /\ Len(hist) \in Nat
      /\ \A n \in 1..Len(hist) : hist'[n] = hist[n]
  BY DEF TypeOK
<1>2. \A f : TrueSnapshot(f) => f.seq \in 1..Len(hist') /\ f.levels = hist'[f.seq]
  BY <1>1 DEF TrueSnapshot
<1>3. \A f : TrueDelta(f) =>
        \/ f.change < -MaxQty
        \/ /\ f.seq \in 2..Len(hist')
           /\ hist'[f.seq] = [hist'[f.seq - 1] EXCEPT ![f.level] = @ + f.change]
  <2> SUFFICES ASSUME NEW f, f.seq \in 2..Len(hist),
                      hist[f.seq] = [hist[f.seq - 1] EXCEPT ![f.level] = @ + f.change]
               PROVE  /\ f.seq \in 2..Len(hist')
                      /\ hist'[f.seq] = [hist'[f.seq - 1] EXCEPT ![f.level] = @ + f.change]
    BY DEF TrueDelta
  <2>1. f.seq \in 1..Len(hist) /\ f.seq - 1 \in 1..Len(hist) /\ f.seq \in 2..Len(hist')
    BY <1>1
  <2> QED BY <1>1, <2>1
<1> QED BY <1>2, <1>3

(* A new message of the venue keeps its books within bounds. *)
LEMMA VenueHistory ==
    ASSUME TypeOK, WireInv, VenueStep
    PROVE  /\ \E b \in Books : hist' = Append(hist, b) \/ hist' = hist
           /\ \A n \in 1..Len(hist') : hist'[n] \in VenueBooks
<1>0. hist[Len(hist)] \in VenueBooks /\ hist[Len(hist)] \in Books /\ Len(hist) \in Nat \ {0}
  BY LastBook DEF WireInv, TypeOK
<1>1. ASSUME NEW l \in Levels, NEW d \in -MaxQty..MaxQty, VenueDelta(l, d)
      PROVE  \E b \in Books \cap VenueBooks : hist' = Append(hist, b)
  <2>1. d \in Int
    BY BoundsAssumption
  <2>2. [hist[Len(hist)] EXCEPT ![l] = @ + d] \in VenueBooks
    BY <1>0, <1>1 DEF VenueDelta, VenueBooks
  <2> QED BY <1>1, <2>1, <2>2, NextBookType DEF VenueDelta
<1>2. ASSUME NEW i \in requests, VenueSnapshot(i)
      PROVE  hist' = hist \/ \E b \in Books \cap VenueBooks : hist' = Append(hist, b)
  BY <1>0, <1>2 DEF VenueSnapshot
<1>3. hist' = hist \/ \E b \in Books \cap VenueBooks : hist' = Append(hist, b)
  BY <1>1, <1>2 DEF VenueStep, VenueSubscribe, VenueError, VenuePrivate, VenueFault
<1>4. CASE hist' = hist
  BY <1>0, <1>4 DEF WireInv
<1>5. CASE \E b \in Books \cap VenueBooks : hist' = Append(hist, b)
  <2>1. PICK b \in Books \cap VenueBooks : hist' = Append(hist, b)
    BY <1>5
  <2>2. /\ Len(hist') = Len(hist) + 1 /\ hist'[Len(hist) + 1] = b
        /\ \A n \in 1..Len(hist) : hist'[n] = hist[n]
    BY <2>1 DEF TypeOK
  <2> QED BY <1>0, <2>1, <2>2 DEF WireInv
<1> QED BY <1>3, <1>4, <1>5

LEMMA VenueSendsGood ==
    ASSUME TypeOK, EpochInv, WireInv, VenueStep, NEW f \in sent', f \notin sent
    PROVE  f.conn = epoch /\ GoodFrame(f)'
<1> DEFINE b == hist[Len(hist)]
<1>0. b \in Books /\ b \in VenueBooks /\ Len(hist) \in Nat \ {0}
  BY LastBook DEF WireInv, TypeOK
<1> USE DEF Send, GoodFrame
<1>1. ASSUME NEW c \in Channels, VenueSubscribe(c) PROVE f.conn = epoch /\ GoodFrame(f)'
  <2>1. hist' = hist /\ f \in {SubscribedFrame(commandId[c], c), Snapshot(Len(hist), b)}
    BY <1>1 DEF VenueSubscribe
  <2> QED BY <1>0, <2>1 DEF SubscribedFrame, Snapshot, SnapshotFrame, TrueSnapshot
<1>2. ASSUME NEW l \in Levels, NEW d \in -MaxQty..MaxQty, VenueDelta(l, d)
      PROVE  f.conn = epoch /\ GoodFrame(f)'
  <2>1. f = Delta(Len(hist) + 1, l, d) /\ hist' = Append(hist, [b EXCEPT ![l] = @ + d])
    BY <1>2 DEF VenueDelta
  <2>2. /\ Len(hist') = Len(hist) + 1
        /\ hist'[Len(hist) + 1] = [b EXCEPT ![l] = @ + d]
        /\ hist'[Len(hist)] = b
    BY <1>0, <2>1 DEF TypeOK
  <2>3. TrueDelta(f)'
    <3> HIDE DEF b
    <3> QED BY <1>0, <2>1, <2>2 DEF TrueDelta, Delta, DeltaFrame
  <2> QED BY <2>1, <2>3 DEF Delta, DeltaFrame
<1>3. ASSUME NEW i \in requests, VenueSnapshot(i) PROVE f.conn = epoch /\ GoodFrame(f)'
  <2>1. \/ hist' = hist /\ f = Snapshot(Len(hist), b)
        \/ hist' = Append(hist, b) /\ f = Snapshot(Len(hist) + 1, b)
    BY <1>3 DEF VenueSnapshot
  <2>2. \/ hist' = hist /\ f = Snapshot(Len(hist), b)
        \/ /\ f = Snapshot(Len(hist) + 1, b)
           /\ Len(hist') = Len(hist) + 1 /\ hist'[Len(hist) + 1] = b
    BY <1>0, <2>1 DEF TypeOK
  <2> QED BY <1>0, <2>2 DEF Snapshot, SnapshotFrame, TrueSnapshot
<1>4. CASE (\E i \in requests \cup {commandId[c] : c \in Channels} : VenueError(i))
           \/ (\E c \in {"user_orders", "fill"} : VenuePrivate(c))
  BY <1>4 DEF VenueError, VenuePrivate, ErrorFrame, PrivateFrame
<1>5. CASE VenueFault
  <2>1. f \in FaultFrames /\ hist' = hist
    BY <1>5 DEF VenueFault
  <2>2. CASE f \in {MalformedFrame, PrivateFrame("fill", ForeignSid),
                    SubscribedFrame(commandCounter + 1, "fill")}
    BY <2>2 DEF MalformedFrame, PrivateFrame, SubscribedFrame
  <2>3. ASSUME NEW s \in Nat, NEW o \in BOOLEAN, NEW l \in Levels,
               f = DeltaFrame(s, o, Len(hist) + 1, l, -(MaxQty + 1))
        PROVE  f.conn = epoch /\ GoodFrame(f)'
    BY <2>3, BoundsAssumption DEF DeltaFrame, TrueDelta
  <2>4. CASE f \in {SnapshotFrame(BookSid, FALSE, Len(hist) + 1, b),
                    SnapshotFrame(ForeignSid, TRUE, Len(hist) + 1, b)}
    BY <1>0, <2>4, SidType DEF SnapshotFrame
  <2> DEFINE n == Len(hist) + 1
             d == -(MaxQty + 1)
             Deltas == {DeltaFrame(BookSid, ours, n, l, d) : ours \in BOOLEAN, l \in Levels}
             Foreign == {DeltaFrame(ForeignSid, TRUE, n, l, d) : l \in Levels}
  <2>5. CASE f \in Deltas
    <3>1. PICK o \in BOOLEAN, l \in Levels : f = DeltaFrame(BookSid, o, n, l, d)
      BY <2>5
    <3> QED BY <2>3, <3>1, SidType
  <2>6. CASE f \in Foreign
    <3>1. PICK l \in Levels : f = DeltaFrame(ForeignSid, TRUE, n, l, d)
      BY <2>6
    <3> QED BY <2>3, <3>1, SidType
  <2> DEFINE Odd == {MalformedFrame, PrivateFrame("fill", ForeignSid),
                     SubscribedFrame(commandCounter + 1, "fill")}
             Snapshots == {SnapshotFrame(BookSid, FALSE, n, b), SnapshotFrame(ForeignSid, TRUE, n, b)}
  <2>7. FaultFrames = Odd \cup Deltas \cup Foreign \cup Snapshots
    BY DEF FaultFrames
  <2>8. (f \in Odd \/ f \in Snapshots) => f.conn = epoch /\ GoodFrame(f)'
    BY <2>2, <2>4
  <2> HIDE DEF Deltas, Foreign, Odd, Snapshots, GoodFrame
  <2> QED BY <2>1, <2>5, <2>6, <2>7, <2>8
<1> QED BY <1>1, <1>2, <1>3, <1>4, <1>5 DEF VenueStep

LEMMA EpochStep == TypeOK /\ TypeOK' /\ EpochInv /\ WireInv /\ [Next]_vars => EpochInv'
<1> SUFFICES ASSUME TypeOK, TypeOK', EpochInv, WireInv, [Next]_vars PROVE EpochInv'
  OBVIOUS
<1>1. ASSUME NEW ts \in Timestamps, Connect(ts) PROVE EpochInv'
  BY <1>1, FrameFields DEF Connect, Begin, EpochInv, TypeOK, ClientTypeOK
<1>2. CASE Disconnect
  BY <1>2 DEF Disconnect, TerminateEpoch, EndEpoch, ForgetEpoch, EpochInv, counterVars,
              sessionVars, feedVars
<1>3. ASSUME NEW f \in sent, Deliver(f) PROVE EpochInv'
  BY <1>3, ReceiveEpoch DEF Deliver, EpochInv, Terminated, EndEpoch, ForgetEpoch
<1>4. CASE VenueStep
  <2>1. UNCHANGED <<epoch, epochCounter, sessionEpoch, commandId, commandCounter>> /\ epoch = epochCounter
    BY <1>4, VenueClient DEF clientVars, counterVars, epochVars, sessionVars, EpochInv
  <2>2. \A f \in sent' : f \in sent \/ f.conn = epoch
    BY <1>4, VenueSendsGood
  <2> QED BY <2>1, <2>2 DEF EpochInv, TypeOK, ClientTypeOK
<1>5. CASE UNCHANGED vars
  BY <1>5 DEF vars, clientVars, counterVars, sessionVars, feedVars, EpochInv
<1> QED BY <1>1, <1>2, <1>3, <1>4, <1>5, NextCases

LEMMA WireStep == TypeOK /\ TypeOK' /\ EpochInv /\ WireInv /\ [Next]_vars => WireInv'
<1> SUFFICES ASSUME TypeOK, TypeOK', EpochInv, WireInv, [Next]_vars PROVE WireInv'
  OBVIOUS
<1>1. ASSUME NEW ts \in Timestamps, Connect(ts) PROVE WireInv'
  <2>1. \A f \in sent' : f.conn # epochCounter'
    BY <1>1, FrameFields DEF Connect, Begin, EpochInv, TypeOK, ClientTypeOK
  <2>2. \A n \in 1..Len(hist') : hist'[n] \in VenueBooks
    BY <1>1 DEF Connect
  <2> QED BY <2>1, <2>2 DEF WireInv
<1>2. CASE Disconnect
  BY <1>2 DEF Disconnect, TerminateEpoch, EndEpoch, counterVars, feedVars, WireInv,
              TrueSnapshot, TrueDelta
<1>3. ASSUME NEW f \in sent, Deliver(f) PROVE WireInv'
  BY <1>3, ReceiveEpoch DEF Deliver, WireInv, TrueSnapshot, TrueDelta
<1>4. CASE VenueStep
  <2>1. epochCounter' = epochCounter
    BY <1>4, VenueClient DEF clientVars, counterVars
  <2>2. ASSUME NEW f \in sent', f.conn = epochCounter' PROVE GoodFrame(f)'
    <3>1. CASE f \in sent
      <4>1. GoodFrame(f)
        BY <2>1, <2>2, <3>1, WireGood
      <4>2. PICK b \in Books : hist' = Append(hist, b) \/ hist' = hist
        BY <1>4, VenueHistory
      <4> QED BY <4>1, <4>2, HistoryGrows DEF GoodFrame, TrueSnapshot, TrueDelta
    <3>2. CASE f \notin sent
      BY <1>4, <3>2, VenueSendsGood
    <3> QED BY <3>1, <3>2
  <2>3. \A n \in 1..Len(hist') : hist'[n] \in VenueBooks
    BY <1>4, VenueHistory
  <2> QED BY <2>2, <2>3 DEF WireInv, GoodFrame
<1>5. CASE UNCHANGED vars
  BY <1>5 DEF vars, clientVars, counterVars, feedVars, WireInv, TrueSnapshot, TrueDelta
<1> QED BY <1>1, <1>2, <1>3, <1>4, <1>5, NextCases
-----------------------------------------------------------------------------
(* The client's half of FeedInv, one lemma per handler of session.receive. *)
ClientInv == BookInv /\ RecoveryInv /\ ObservedInv

LEMMA EndEpochInv == ASSUME EndEpoch PROVE ClientInv'
  BY SidType DEF EndEpoch, ForgetEpoch, ClientInv, BookInv, RecoveryInv, ObservedInv, Bound,
                 NoView, NoSnapshot, NoIds, Channels

(* A handler that leaves the client's book, epoch and the observed mark alone. *)
LEMMA SameInv ==
    ASSUME ClientInv, UNCHANGED <<epoch, acknowledged, early, minRecovery, view, valid, recovery,
                                  recoveryEmitted, hist, observed>>
    PROVE  ClientInv'
  BY DEF ClientInv, BookInv, RecoveryInv, ObservedInv, Bound, TrueSnapshot

(* What a frame of the live epoch that passed the identity checks says is true. *)
LEMMA CurrentGood ==
    ASSUME EpochInv, WireInv, NEW f \in sent, Current(f)
    PROVE  GoodFrame(f)
  BY WireGood DEF EpochInv, Current

LEMMA SubscribedInv ==
    ASSUME TypeOK, FeedInv, NEW f \in sent, Deliver(f), Current(f), ReceiveSubscribed(f)
    PROVE  ClientInv'
<1>1. f \in SubscribedFrames /\ GoodFrame(f)
  BY FrameFields, CurrentGood DEF ReceiveSubscribed, TypeOK, FeedInv
<1>2. f.sid = Sid[f.channel] /\ f.channel \in Channels
  BY <1>1 DEF SubscribedFrames, GoodFrame, ReceiveSubscribed
<1>3. observed' = observed /\ hist' = hist /\ epoch' = epoch /\ minRecovery' = minRecovery
      /\ recovery' = recovery /\ recoveryEmitted' = recoveryEmitted
  BY DEF Deliver, OrderbookFrame, ReceiveSubscribed
<1>4. CASE f.channel = "orderbook_delta"
  <2>1. acknowledged'["orderbook_delta"] = BookSid /\ BookSid # 0 /\ ~Bound /\ view.seq = 0
    BY <1>2, <1>4, SidType DEF ReceiveSubscribed, ExpectedAck, Bound, TypeOK, ClientTypeOK,
       FeedInv, BookInv, BookSid
  <2>2. CASE early.seq # 0
    <3>1. /\ view' = [seq |-> early.seq, levels |-> early.levels]
          /\ valid' = TRUE /\ early' = NoSnapshot /\ early.sid = BookSid
      BY <1>2, <1>4, <2>2 DEF ReceiveSubscribed, EarlyAgrees, BookSid
    <3>2. TrueSnapshot(early) /\ observed = early.seq /\ ~recovery /\ epoch # 0
      BY <2>1, <2>2, <3>1 DEF FeedInv, BookInv, RecoveryInv, ObservedInv, Current
    <3>3. BookInv'
      BY <1>3, <2>1, <3>1, <3>2 DEF BookInv, Bound, TrueSnapshot, NoSnapshot, Current
    <3>4. RecoveryInv'
      BY <1>3, <3>1, <3>2 DEF FeedInv, RecoveryInv
    <3>5. ObservedInv'
      BY <1>3, <2>2, <3>1, <3>2 DEF ObservedInv, TypeOK, ClientTypeOK
    <3> QED BY <3>3, <3>4, <3>5 DEF ClientInv
  <2>3. CASE early.seq = 0
    <3>1. UNCHANGED <<view, valid, early>>
      BY <2>3 DEF ReceiveSubscribed
    <3>2. BookInv'
      BY <1>3, <2>1, <2>3, <3>1 DEF FeedInv, BookInv, Bound, TrueSnapshot, Current
    <3> QED BY <1>3, <3>1, <3>2 DEF ClientInv, FeedInv, RecoveryInv, ObservedInv
  <2> QED BY <2>2, <2>3
<1>5. CASE f.channel # "orderbook_delta"
  <2>1. UNCHANGED <<view, valid, early>>
        /\ acknowledged'["orderbook_delta"] = acknowledged["orderbook_delta"]
    BY <1>2, <1>5 DEF ReceiveSubscribed, TypeOK, ClientTypeOK, Channels
  <2>2. BookInv'
    BY <1>3, <2>1 DEF FeedInv, BookInv, Bound, TrueSnapshot
  <2> QED BY <1>3, <2>1, <2>2 DEF ClientInv, FeedInv, RecoveryInv, ObservedInv
<1> QED BY <1>4, <1>5

(* A snapshot that passes the identity checks is the venue's book. *)
LEMMA SnapshotGood ==
    ASSUME TypeOK, FeedInv, NEW f \in sent, Current(f), f.type = "orderbook_snapshot",
           ~SnapshotForeign(f)
    PROVE  /\ f \in SnapshotFrames /\ f.seq \in Nat \ {0}
           /\ f.sid = BookSid => TrueSnapshot(f)
           /\ Bound => f.sid = BookSid
<1>1. f \in SnapshotFrames /\ GoodFrame(f)
  BY FrameFields, CurrentGood DEF TypeOK, FeedInv
<1>2. f.seq \in Nat /\ f.seq > 0 /\ f.ours
  BY <1>1 DEF SnapshotFrames, GoodFrame, SnapshotForeign
<1>3. Bound => f.sid = BookSid
  BY DEF SnapshotForeign, Bound, FeedInv, BookInv
<1> QED BY <1>1, <1>2, <1>3 DEF GoodFrame

LEMMA EarlySnapshotInv ==
    ASSUME TypeOK, FeedInv, NEW f \in sent, Deliver(f), Current(f), ReceiveEarlySnapshot(f)
    PROVE  ClientInv'
<1>1. f.seq \in Nat \ {0} /\ (f.sid = BookSid => TrueSnapshot(f))
  BY SnapshotGood DEF ReceiveEarlySnapshot
<1>2. /\ early' = [sid |-> f.sid, seq |-> f.seq, levels |-> f.levels]
      /\ UNCHANGED <<epoch, acknowledged, minRecovery, view, valid, recovery, recoveryEmitted>>
      /\ ~Bound /\ epoch # 0
  BY DEF ReceiveEarlySnapshot, Parsed, bookVars, sessionVars, Current
<1>3. hist' = hist /\ observed' = Max2(observed, f.seq)
  BY <1>2 DEF Deliver, ReceiveEarlySnapshot, OrderbookFrame
<1>4. view.seq = 0 /\ observed = early.seq /\ ~recovery /\ ~Bound
  BY <1>2 DEF FeedInv, BookInv, RecoveryInv, ObservedInv
<1>5. ~valid
  BY <1>4 DEF FeedInv, BookInv, TrueSnapshot, TypeOK
<1>6. observed' = f.seq
  <2>1. early.seq = 0 \/ early.seq = f.seq
    BY DEF ReceiveEarlySnapshot, Parsed
  <2> QED BY <1>1, <1>3, <1>4, <2>1 DEF Max2, TypeOK
<1>7. BookInv'
  BY <1>1, <1>2, <1>3, <1>4, <1>5 DEF FeedInv, BookInv, Bound, TrueSnapshot
<1>8. RecoveryInv'
  BY <1>2 DEF FeedInv, RecoveryInv
<1>9. ObservedInv'
  BY <1>2, <1>4, <1>5, <1>6 DEF ObservedInv
<1> QED BY <1>7, <1>8, <1>9 DEF ClientInv

LEMMA OldSnapshotInv ==
    ASSUME TypeOK, FeedInv, NEW f \in sent, Deliver(f), Current(f), ReceiveOldSnapshot(f)
    PROVE  ClientInv'
<1>1. f.seq \in Nat \ {0}
  BY SnapshotGood DEF ReceiveOldSnapshot
<1>2. /\ UNCHANGED <<epoch, acknowledged, early, minRecovery, view, valid, recovery,
                     recoveryEmitted>>
      /\ SnapshotTooOld(f) /\ epoch # 0
  BY DEF ReceiveOldSnapshot, epochVars, bookVars, sessionVars, Current
<1>3. hist' = hist /\ observed' = Max2(observed, f.seq)
  BY <1>2 DEF Deliver, ReceiveOldSnapshot, OrderbookFrame
<1>4. recovery /\ ~valid /\ view.seq # 0
  BY <1>2 DEF SnapshotTooOld, BelowWatermark, FeedInv, RecoveryInv
<1>5. minRecovery > view.seq /\ minRecovery >= observed
  BY <1>2, <1>4 DEF FeedInv, ObservedInv
<1>6. f.seq <= minRecovery
  BY <1>1, <1>2, <1>5 DEF SnapshotTooOld, BelowWatermark, TypeOK, ClientTypeOK
<1>7. minRecovery >= observed'
  BY <1>3, <1>5, <1>6 DEF Max2
<1>8. ObservedInv'
  BY <1>2, <1>4, <1>5, <1>7 DEF ObservedInv
<1>9. BookInv' /\ RecoveryInv'
  BY <1>2, <1>3 DEF FeedInv, BookInv, RecoveryInv, Bound, TrueSnapshot
<1> QED BY <1>8, <1>9 DEF ClientInv

LEMMA SnapshotInv ==
    ASSUME TypeOK, FeedInv, NEW f \in sent, Deliver(f), Current(f), ReceiveSnapshot(f)
    PROVE  ClientInv'
<1>1. f.seq \in Nat \ {0} /\ TrueSnapshot(f)
  BY SnapshotGood DEF ReceiveSnapshot
<1>2. /\ UNCHANGED <<epoch, acknowledged, early>>
      /\ view' = [seq |-> f.seq, levels |-> f.levels]
      /\ valid' = TRUE /\ minRecovery' = 0 /\ recoveryEmitted' = FALSE
      /\ Bound /\ epoch # 0 /\ ~SnapshotTooOld(f)
  BY DEF ReceiveSnapshot, Viewed, Current
<1>3. hist' = hist /\ observed' = Max2(observed, f.seq)
  BY <1>2 DEF Deliver, ReceiveSnapshot, OrderbookFrame
<1>4. recovery' = FALSE
  <2>1. valid => ~recovery
    BY DEF FeedInv, RecoveryInv
  <2> QED BY <2>1 DEF ReceiveSnapshot, TypeOK, ClientTypeOK
<1>5. f.seq >= observed
  <2>1. CASE valid
    <3>1. view.seq = f.seq
      BY <2>1 DEF ReceiveSnapshot, Viewed
    <3> QED BY <1>2, <2>1, <3>1 DEF FeedInv, ObservedInv
  <2>2. CASE ~valid /\ view.seq = 0
    BY <1>1, <1>2, <2>2 DEF FeedInv, ObservedInv, BookInv
  <2>3. CASE ~valid /\ view.seq # 0
    <3>1. recovery /\ minRecovery # 0
      BY <2>3 DEF FeedInv, RecoveryInv
    <3> QED BY <1>1, <1>2, <3>1 DEF FeedInv, ObservedInv, SnapshotTooOld, BelowWatermark,
                                   TypeOK, ClientTypeOK
  <2> QED BY <2>1, <2>2, <2>3
<1>6. BookInv'
  BY <1>1, <1>2, <1>3 DEF FeedInv, BookInv, Bound, TrueSnapshot
<1>7. RecoveryInv'
  BY <1>2, <1>4 DEF RecoveryInv
<1>8. ObservedInv'
  BY <1>1, <1>2, <1>3, <1>4, <1>5 DEF ObservedInv, Max2, TypeOK
<1> QED BY <1>6, <1>7, <1>8 DEF ClientInv

(* A delta that passes the identity checks of a bound book is in the venue's *)
(* history, or takes away more than any level can hold.                      *)
LEMMA DeltaGood ==
    ASSUME TypeOK, FeedInv, NEW f \in sent, Current(f), f.type = "orderbook_delta",
           ~DeltaForeign(f)
    PROVE  /\ f.seq \in Nat /\ f.level \in Levels /\ f.change \in Int
           /\ Bound => TrueDelta(f)
<1>1. f \in DeltaFrames /\ GoodFrame(f)
  BY FrameFields, CurrentGood DEF TypeOK, FeedInv
<1>2. Bound => f.sid = BookSid /\ f.ours
  BY DEF DeltaForeign, Bound, FeedInv, BookInv
<1> QED BY <1>1, <1>2 DEF GoodFrame, DeltaFrames

LEMMA ApplyDeltaInv ==
    ASSUME TypeOK, FeedInv, NEW f \in sent, Deliver(f), Current(f), ApplyDelta(f)
    PROVE  ClientInv'
<1>1. f.seq \in Nat /\ f.level \in Levels /\ f.change \in Int /\ TrueDelta(f)
  BY DeltaGood DEF ApplyDelta
<1>2. /\ UNCHANGED <<epoch, acknowledged, early, valid, recovery, recoveryEmitted>>
      /\ view' = [seq |-> f.seq, levels |-> [view.levels EXCEPT ![f.level] = Quantity(f)]]
      /\ valid /\ Bound /\ epoch # 0 /\ f.seq = view.seq + 1 /\ Quantity(f) >= 0
  BY DEF ApplyDelta, Current, sessionVars, Contiguous
<1>3. hist' = hist /\ observed' = Max2(observed, f.seq)
  BY <1>2 DEF Deliver, ApplyDelta, OrderbookFrame
<1>4. TrueSnapshot(view) /\ ~recovery /\ view.seq >= observed /\ minRecovery = 0
  BY <1>2 DEF FeedInv, BookInv, RecoveryInv, ObservedInv
<1>5. view.levels \in VenueBooks /\ view.levels = hist[view.seq] /\ view.seq \in 1..Len(hist)
  BY <1>4 DEF TrueSnapshot, FeedInv, WireInv
<1>6. ~(f.change < -MaxQty)
  <2>1. view.levels[f.level] \in 0..MaxQty
    BY <1>1, <1>5 DEF VenueBooks
  <2> QED BY <1>1, <1>2, <2>1, BoundsAssumption DEF Quantity
<1>7. /\ f.seq \in 1..Len(hist)
      /\ hist[f.seq] = [view.levels EXCEPT ![f.level] = Quantity(f)]
  <2>1. /\ f.seq \in 2..Len(hist)
        /\ hist[f.seq] = [hist[f.seq - 1] EXCEPT ![f.level] = @ + f.change]
    BY <1>1, <1>6 DEF TrueDelta
  <2>2. f.seq - 1 = view.seq
    BY <1>2, <1>5
  <2>3. f.seq \in 1..Len(hist)
    BY <2>1 DEF TypeOK
  <2> QED BY <1>5, <2>1, <2>2, <2>3 DEF Quantity
<1>8. minRecovery' = 0
  BY <1>4 DEF ApplyDelta
<1>9. BookInv'
  BY <1>2, <1>3, <1>7 DEF FeedInv, BookInv, Bound, TrueSnapshot
<1>10. RecoveryInv'
  BY <1>2, <1>4, <1>8 DEF FeedInv, RecoveryInv
<1>11. ObservedInv'
  BY <1>1, <1>2, <1>3, <1>4, <1>5, <1>8 DEF ObservedInv, Max2, TypeOK
<1> QED BY <1>9, <1>10, <1>11 DEF ClientInv

LEMMA BreakContinuityInv ==
    ASSUME TypeOK, FeedInv, NEW f \in sent, Deliver(f), Current(f), BreakContinuity(f)
    PROVE  ClientInv'
<1>1. f.seq \in Nat
  BY DeltaGood DEF BreakContinuity
<1>2. /\ UNCHANGED <<epoch, acknowledged, early, view>>
      /\ valid' = FALSE /\ recovery' = TRUE
      /\ valid /\ Bound /\ epoch # 0
  BY DEF BreakContinuity, Current
<1>3. hist' = hist /\ observed' = Max2(observed, f.seq)
  BY <1>2 DEF Deliver, BreakContinuity, OrderbookFrame
<1>4. view.seq # 0 /\ ~recovery /\ view.seq >= observed /\ ~recoveryEmitted /\ minRecovery = 0
  BY <1>2 DEF FeedInv, BookInv, RecoveryInv, ObservedInv, TrueSnapshot, TypeOK
<1>5. recoveryEmitted' = TRUE
  BY <1>4 DEF BreakContinuity, RequestRecovery
<1>6. minRecovery' >= view.seq + 1 /\ minRecovery' >= f.seq /\ minRecovery' \in Nat
  BY <1>1, <1>4 DEF BreakContinuity, Max2, TypeOK, ClientTypeOK
<1>7. BookInv'
  BY <1>2, <1>3, <1>4 DEF FeedInv, BookInv, Bound, TrueSnapshot
<1>8. minRecovery' > view.seq /\ minRecovery' # 0 /\ minRecovery' >= observed'
  BY <1>1, <1>3, <1>4, <1>6 DEF Max2, TypeOK, ClientTypeOK
<1>9. RecoveryInv'
  BY <1>2, <1>4, <1>5, <1>8 DEF RecoveryInv
<1>10. ObservedInv'
  BY <1>2, <1>4, <1>8 DEF ObservedInv
<1> QED BY <1>7, <1>9, <1>10 DEF ClientInv

LEMMA DeltaWhileInvalidInv ==
    ASSUME TypeOK, FeedInv, NEW f \in sent, Deliver(f), Current(f), DeltaWhileInvalid(f)
    PROVE  ClientInv'
<1>1. f.seq \in Nat
  BY DeltaGood DEF DeltaWhileInvalid
<1>2. /\ UNCHANGED <<epoch, acknowledged, early, view, valid, recovery>>
      /\ ~valid /\ epoch # 0 /\ (recovery \/ recoveryEmitted)
  BY DEF DeltaWhileInvalid, Current, bookVars
<1>3. hist' = hist /\ observed' = Max2(observed, f.seq)
  BY <1>2 DEF Deliver, DeltaWhileInvalid, OrderbookFrame
<1>4. recovery /\ recoveryEmitted /\ view.seq # 0 /\ minRecovery # 0
  BY <1>2 DEF FeedInv, RecoveryInv
<1>5. minRecovery > view.seq /\ minRecovery >= observed
  BY <1>2, <1>4 DEF FeedInv, ObservedInv
<1>6. recoveryEmitted' = recoveryEmitted
  BY <1>4 DEF DeltaWhileInvalid, RequestRecovery
<1>7. minRecovery' = Max2(minRecovery, f.seq)
  BY <1>4 DEF DeltaWhileInvalid
<1>8. minRecovery' > view.seq /\ minRecovery' # 0 /\ minRecovery' >= observed'
  BY <1>1, <1>3, <1>5, <1>7 DEF Max2, TypeOK, ClientTypeOK
<1>9. BookInv'
  BY <1>2, <1>3 DEF FeedInv, BookInv, Bound, TrueSnapshot
<1>10. RecoveryInv'
  BY <1>2, <1>4, <1>6, <1>8 DEF FeedInv, RecoveryInv
<1>11. ObservedInv'
  BY <1>2, <1>4, <1>8 DEF ObservedInv
<1> QED BY <1>9, <1>10, <1>11 DEF ClientInv

(* Every frame, of whatever connection, keeps the client's half. *)
LEMMA DeliverInv ==
    ASSUME TypeOK, FeedInv, NEW f \in sent, Deliver(f)
    PROVE  ClientInv'
<1>0. ClientInv
  BY DEF FeedInv, ClientInv
<1>1. CASE ReceiveStale(f)
  BY <1>0, <1>1, SameInv DEF ReceiveStale, Deliver, epochVars, bookVars, sessionVars
<1>2. CASE ReceiveCurrent(f) /\ ReceivePrivate(f)
  BY <1>0, <1>2, SameInv DEF ReceivePrivate, Deliver, OrderbookFrame, epochVars, bookVars,
                             sessionVars
<1>3. CASE ReceiveCurrent(f) /\ Terminated
  BY <1>3, EndEpochInv DEF Terminated
<1>4. CASE ReceiveCurrent(f) /\ ~ReceivePrivate(f) /\ ~Terminated
  <2>1. Current(f)
    BY <1>4 DEF ReceiveCurrent
  <2>2. \/ ReceiveSubscribed(f) \/ ReceiveEarlySnapshot(f) \/ ReceiveOldSnapshot(f)
        \/ ReceiveSnapshot(f) \/ ApplyDelta(f) \/ BreakContinuity(f) \/ DeltaWhileInvalid(f)
    BY <1>4 DEF ReceiveCurrent, ReceiveMalformed, ReceiveError, ReceiveBadSubscribed,
       ReceiveConflictingSnapshot, ReceiveForeignDelta, DeltaBeforeSnapshot, ReceiveBadPrivate
  <2> QED BY <2>1, <2>2, SubscribedInv, EarlySnapshotInv, OldSnapshotInv, SnapshotInv,
             ApplyDeltaInv, BreakContinuityInv, DeltaWhileInvalidInv
<1> QED BY <1>1, <1>2, <1>3, <1>4 DEF Deliver, Receive

LEMMA ClientStep == TypeOK /\ FeedInv /\ [Next]_vars => ClientInv'
<1> SUFFICES ASSUME TypeOK, FeedInv, [Next]_vars PROVE ClientInv'
  OBVIOUS
<1>1. ASSUME NEW ts \in Timestamps, Connect(ts) PROVE ClientInv'
  BY <1>1, SidType DEF Connect, Begin, ClientInv, BookInv, RecoveryInv, ObservedInv, Bound, NoView,
     NoSnapshot, NoIds, Channels
<1>2. CASE Disconnect
  BY <1>2, EndEpochInv DEF Disconnect, TerminateEpoch
<1>3. ASSUME NEW f \in sent, Deliver(f) PROVE ClientInv'
  BY <1>3, DeliverInv
<1>4. CASE VenueStep
  <2>1. UNCHANGED <<epoch, acknowledged, early, minRecovery, view, valid, recovery,
                    recoveryEmitted, observed>>
    BY <1>4, VenueClient DEF clientVars, epochVars, bookVars, sessionVars
  <2>2. PICK b \in Books : hist' = Append(hist, b) \/ hist' = hist
    BY <1>4, VenueHistory DEF FeedInv
  <2>3. BookInv'
    BY <2>1, <2>2, HistoryGrows DEF FeedInv, BookInv, Bound, TrueSnapshot
  <2> QED BY <2>1, <2>3 DEF FeedInv, ClientInv, RecoveryInv, ObservedInv
<1>5. CASE UNCHANGED vars
  BY <1>5, SameInv DEF FeedInv, ClientInv, vars, clientVars, epochVars, bookVars, sessionVars,
                       feedVars
<1> QED BY <1>1, <1>2, <1>3, <1>4, <1>5, NextCases

LEMMA InitInv == Init => FeedInv
<1> SUFFICES ASSUME Init PROVE FeedInv
  OBVIOUS
<1>1. WireInv
  <2>1. EmptyBook \in VenueBooks
    BY BoundsAssumption DEF EmptyBook, VenueBooks
  <2> QED BY <2>1 DEF Init, WireInv
<1>2. BookInv /\ RecoveryInv /\ ObservedInv /\ EpochInv
  BY SidType DEF Init, ClientInit, EpochInv, BookInv, RecoveryInv, ObservedInv, Bound, NoView,
     NoSnapshot, NoIds, Channels
<1> QED BY <1>1, <1>2 DEF FeedInv

(* The inductive invariant: epochs never run backwards, the wire tells the  *)
(* truth about the newest connection, and what the client keeps, valid or   *)
(* waiting for recovery, is consistent with it.                             *)
THEOREM FeedInvariant == Spec => []FeedInv
<1>1. Init => FeedInv
  BY InitInv
<1>2. TypeOK /\ TypeOK' /\ FeedInv /\ [Next]_vars => FeedInv'
  BY EpochStep, WireStep, ClientStep DEF FeedInv, ClientInv
<1> QED BY <1>1, <1>2, TypeCorrect, PTL DEF Spec

-----------------------------------------------------------------------------
(* A published view is the venue's book at its own sequence number, for any *)
(* number of levels, connections, frames and faults (orderbook_view).       *)
THEOREM PublishedBookCorrect == Spec => []PublishedBookIsVenueBook
<1>1. FeedInv => PublishedBookIsVenueBook
  BY DEF FeedInv, BookInv, TrueSnapshot, PublishedBookIsVenueBook, Publishable
<1> QED BY <1>1, FeedInvariant, PTL

(* Nothing below a sequence number the client was shown in this epoch is    *)
(* ever published (_minimum_recovery_sequence, receive_snapshot).            *)
THEOREM PublicationCatchesUp == Spec => []NoPublicationBelowObserved
<1>1. FeedInv => NoPublicationBelowObserved
  BY DEF FeedInv, ObservedInv, NoPublicationBelowObserved, Publishable
<1> QED BY <1>1, FeedInvariant, PTL

(* The session's _recovery_emitted flag and the book's state agree: one open *)
(* request exactly while a book that was valid is not.                       *)
THEOREM RecoveryIsRequestedOnce == Spec => []RecoveryRequestedOncePerGap
<1>1. FeedInv => RecoveryRequestedOncePerGap
  BY DEF FeedInv, RecoveryInv, RecoveryRequestedOncePerGap
<1> QED BY <1>1, FeedInvariant, PTL

(* One frame moves the book forward only, and a valid book by one at most. *)
LEMMA DeliverSequence ==
    ASSUME TypeOK, FeedInv, NEW f \in sent, Deliver(f), epoch # 0, epoch' = epoch
    PROVE  view'.seq >= view.seq /\ (valid /\ valid' => view'.seq <= view.seq + 1)
<1>0. view.seq \in Nat
  BY DEF TypeOK, ClientTypeOK
<1>1. CASE view'.seq = view.seq
  BY <1>0, <1>1
<1>2. CASE view'.seq # view.seq
  <2>1. Current(f) /\ (ReceiveSubscribed(f) \/ ReceiveSnapshot(f) \/ ApplyDelta(f))
    BY <1>2 DEF Deliver, Receive, ReceiveCurrent, ReceiveStale, ReceiveMalformed, ReceiveError,
       ReceiveBadSubscribed, ReceiveEarlySnapshot, ReceiveConflictingSnapshot,
       ReceiveOldSnapshot, ReceiveForeignDelta, BreakContinuity, DeltaWhileInvalid,
       DeltaBeforeSnapshot, ReceivePrivate, ReceiveBadPrivate, Terminated, EndEpoch, ForgetEpoch, bookVars
  <2>2. CASE ReceiveSubscribed(f)
    <3>1. f.channel = "orderbook_delta" /\ view'.seq = early.seq
      BY <1>2, <2>2 DEF ReceiveSubscribed
    <3>2. ~Bound
      BY <2>2, <3>1 DEF ReceiveSubscribed, ExpectedAck, Bound
    <3>3. view.seq = 0 /\ ~valid
      BY <3>2 DEF FeedInv, BookInv, TrueSnapshot, TypeOK
    <3> QED BY <3>1, <3>3 DEF TypeOK, ClientTypeOK
  <2>3. CASE ReceiveSnapshot(f)
    <3>1. f.seq \in Nat /\ view'.seq = f.seq /\ ~valid
      BY <1>2, <2>1, <2>3, SnapshotGood DEF ReceiveSnapshot, Viewed
    <3>2. view.seq # 0 => f.seq > view.seq
      BY <1>0, <2>3, <3>1 DEF ReceiveSnapshot, SnapshotTooOld
    <3> QED BY <1>0, <3>1, <3>2
  <2>4. CASE ApplyDelta(f)
    BY <1>0, <2>4 DEF ApplyDelta, Contiguous
  <2> QED BY <2>1, <2>2, <2>3, <2>4
<1> QED BY <1>1, <1>2

(* Within an epoch the book's sequence number never goes back, and a valid  *)
(* book advances by single steps (apply_snapshot, apply_delta).              *)
THEOREM SequenceMonotone == Spec => SequenceNeverRewinds
<1> DEFINE Forward == epoch # 0 /\ epoch' = epoch =>
                         /\ view'.seq >= view.seq
                         /\ valid /\ valid' => view'.seq <= view.seq + 1
<1>1. TypeOK /\ FeedInv /\ [Next]_vars => [Forward]_vars
  <2> SUFFICES ASSUME TypeOK, FeedInv, [Next]_vars, epoch # 0, epoch' = epoch
               PROVE  view'.seq >= view.seq /\ (valid /\ valid' => view'.seq <= view.seq + 1)
    OBVIOUS
  <2>1. ASSUME NEW ts \in Timestamps, Connect(ts) PROVE FALSE
    BY <2>1 DEF Connect, Begin, FeedInv, EpochInv, TypeOK, ClientTypeOK
  <2>2. CASE Disconnect
    BY <2>2 DEF Disconnect, TerminateEpoch, EndEpoch, ForgetEpoch
  <2>3. CASE VenueStep \/ UNCHANGED vars
    <3>1. view' = view
      BY <2>3, VenueClient DEF vars, clientVars, bookVars
    <3> QED BY <3>1 DEF TypeOK, ClientTypeOK
  <2> QED BY <2>1, <2>2, <2>3, DeliverSequence, NextCases
<1> QED BY <1>1, TypeCorrect, FeedInvariant, PTL DEF Spec, SequenceNeverRewinds
-----------------------------------------------------------------------------
(* The ordered connection (KalshiFeedOrdered): what its queue holds. *)
IsAck(f) == f.type = "subscribed"
IsSnapshot(f) == f.type = "orderbook_snapshot"
IsDelta(f) == f.type = "orderbook_delta"

(* A frame that the client of this epoch is waiting for *)
Awaited(f) ==
    /\ f \in sent /\ f.conn = epoch
    /\ \/ IsAck(f) /\ ExpectedAck(f) /\ f.channel \in served
       \/ (IsSnapshot(f) \/ IsDelta(f)) /\ f.ours /\ f.sid = BookSid /\ "orderbook_delta" \in served

(* An acknowledgement is under way once per channel, and one snapshot at most. *)
Rival(f, g) ==
    \/ IsAck(f) /\ IsAck(g) /\ f.channel = g.channel
    \/ IsSnapshot(f) /\ IsSnapshot(g)

(* No other delta of this connection was ever sent. *)
SentInv ==
    \A f \in sent :
        f.conn = epoch /\ IsDelta(f) => f.ours /\ f.sid = BookSid /\ "orderbook_delta" \in served

QueueInv ==
    /\ \A i \in 1..Len(queue) : Awaited(queue[i])
    /\ \A i, j \in 1..Len(queue) : Rival(queue[i], queue[j]) => i = j

(* The orderbook is acknowledged before it is told, and told before it changes. *)
AckFirst ==
    \E i \in 1..Len(queue) :
        /\ IsAck(queue[i]) /\ queue[i].channel = "orderbook_delta"
        /\ \A j \in 1..Len(queue) : ~IsAck(queue[j]) => i < j
SnapshotFirst ==
    \E i \in 1..Len(queue) :
        /\ IsSnapshot(queue[i])
        /\ \A j \in 1..Len(queue) : IsDelta(queue[j]) => i < j

StartInv ==
    /\ "orderbook_delta" \notin served => ~Bound
    /\ "orderbook_delta" \in served /\ ~Bound => AckFirst
    /\ "orderbook_delta" \in served /\ view.seq = 0 => SnapshotFirst
    /\ early.seq = 0
    /\ \A c \in pending : acknowledged[c] = 0

(* A snapshot comes for a book that is not valid, and is asked for once. *)
AskInv ==
    /\ valid \/ requests # {} => \A i \in 1..Len(queue) : ~IsSnapshot(queue[i])
    /\ requests # {} => recovery
    /\ \A a, b \in requests : a = b

OrderedInv ==
    /\ OrderedStreamNeverTerminates
    /\ queue \in Seq(Frames)
    /\ epoch = 0 => queue = <<>>
    /\ epoch # 0 => SentInv /\ QueueInv /\ StartInv /\ AskInv

LEMMA FeedStep ==
    ASSUME TypeOK, FeedInv, [Next]_vars PROVE TypeOK' /\ FeedInv'
<1>1. TypeOK'
  BY NextType
<1> QED BY <1>1, EpochStep, WireStep, ClientStep DEF FeedInv, ClientInv

(* A number that is taken and never told leaves every frame true. *)
LEMMA SkippedFeed ==
    ASSUME TypeOK, FeedInv, NEW l \in Levels, NEW d \in -MaxQty..MaxQty, SkippedDelta(l, d)
    PROVE  TypeOK' /\ FeedInv'
<1> DEFINE b == [hist[Len(hist)] EXCEPT ![l] = @ + d]
<1>1. /\ UNCHANGED <<clientVars, served, requests, sent, observed>>
      /\ hist' = Append(hist, b) /\ faults' = faults + 1 /\ hist[Len(hist)][l] + d \in 0..MaxQty
  BY DEF SkippedDelta
<1>2. d \in Int /\ Len(hist) \in Nat \ {0} /\ hist[Len(hist)] \in VenueBooks
  BY BoundsAssumption DEF TypeOK, FeedInv, WireInv
<1>3. b \in Books /\ b \in VenueBooks
  BY <1>1, <1>2, NextBookType DEF VenueBooks
<1>4. UNCHANGED <<epoch, epochCounter, sessionEpoch, acknowledged, early, minRecovery, view, valid, recovery,
                  recoveryEmitted>>
  BY <1>1 DEF clientVars, counterVars, epochVars, bookVars, sessionVars
<1>5. TypeOK'
  <2>1. ClientTypeOK'
    BY <1>1 DEF TypeOK, ClientTypeOK, clientVars, counterVars, epochVars, bookVars, sessionVars
  <2>2. hist' \in Seq(Books) /\ Len(hist') > 0
    BY <1>1, <1>2, <1>3 DEF TypeOK
  <2> QED BY <1>1, <2>1, <2>2 DEF TypeOK
<1>6. EpochInv' /\ RecoveryInv' /\ ObservedInv'
  BY <1>1, <1>4 DEF FeedInv, EpochInv, RecoveryInv, ObservedInv
<1>7. BookInv'
  BY <1>1, <1>3, <1>4, HistoryGrows DEF FeedInv, BookInv, Bound, TrueSnapshot
<1>8. WireInv'
  <2>1. ASSUME NEW f \in sent', f.conn = epochCounter' PROVE GoodFrame(f)'
    <3>1. GoodFrame(f)
      BY <1>1, <1>4, <2>1, WireGood DEF FeedInv
    <3> QED BY <1>1, <1>3, <3>1, HistoryGrows DEF GoodFrame, TrueSnapshot, TrueDelta
  <2>2. \A n \in 1..Len(hist') : hist'[n] \in VenueBooks
    <3>1. /\ Len(hist') = Len(hist) + 1 /\ hist'[Len(hist) + 1] = b
          /\ \A n \in 1..Len(hist) : hist'[n] = hist[n]
      BY <1>1, <1>3 DEF TypeOK
    <3> QED BY <1>2, <1>3, <3>1 DEF FeedInv, WireInv
  <2> QED BY <2>1, <2>2 DEF WireInv, GoodFrame
<1> QED BY <1>5, <1>6, <1>7, <1>8 DEF FeedInv

LEMMA RepeatedFeed ==
    ASSUME TypeOK, FeedInv, NEW f \in sent, RepeatedDelta(f)
    PROVE  TypeOK' /\ FeedInv'
<1>1. UNCHANGED <<clientVars, hist, served, requests, sent, observed>> /\ faults' = faults + 1
  BY DEF RepeatedDelta
<1>2. TypeOK'
  BY <1>1 DEF TypeOK, ClientTypeOK, clientVars, counterVars, epochVars, bookVars, sessionVars
<1>3. EpochInv' /\ WireInv'
  BY <1>1 DEF FeedInv, EpochInv, WireInv, TrueSnapshot, TrueDelta, clientVars, counterVars, sessionVars
<1>4. ClientInv'
  BY <1>1, SameInv DEF FeedInv, ClientInv, clientVars, epochVars, bookVars, sessionVars
<1> QED BY <1>2, <1>3, <1>4 DEF FeedInv, ClientInv

(* Every step of the ordered connection keeps what the unordered one kept. *)
LEMMA OrderedFeed ==
    ASSUME TypeOK, FeedInv, OrderedInv, [OrderedNext]_orderedVars
    PROVE  TypeOK' /\ FeedInv'
<1>1. ASSUME NEW ts \in Timestamps, OrderedConnect(ts) PROVE Next
  BY <1>1 DEF OrderedConnect, Next
<1>2. ASSUME OrderedDisconnect PROVE Next
  BY <1>2 DEF OrderedDisconnect, Next
<1>3. ASSUME OrderedDeliver PROVE Next
  <2>1. epoch # 0 /\ queue[1] = Head(queue) /\ 1 \in 1..Len(queue)
    BY <1>3 DEF OrderedDeliver, OrderedInv
  <2>2. Head(queue) \in sent
    BY <2>1 DEF OrderedInv, QueueInv, Awaited
  <2> QED BY <1>3, <2>2 DEF OrderedDeliver, Next
<1>4. ASSUME NEW c \in Channels, OrderedSubscribe(c) PROVE Next
  BY <1>4 DEF OrderedSubscribe, Next
<1>5. ASSUME NEW l \in Levels, NEW d \in -MaxQty..MaxQty, OrderedDelta(l, d) PROVE Next
  BY <1>5 DEF OrderedDelta, Next
<1>6. ASSUME NEW i \in requests, OrderedSnapshot(i) PROVE Next
  BY <1>6 DEF OrderedSnapshot, Next
<1>7. ASSUME UNCHANGED orderedVars PROVE UNCHANGED vars
  BY <1>7 DEF orderedVars
<1> QED
  BY <1>1, <1>2, <1>3, <1>4, <1>5, <1>6, <1>7, FeedStep, SkippedFeed, RepeatedFeed DEF OrderedNext

-----------------------------------------------------------------------------
(* What the client does with the next frame of the queue: nothing ends the epoch. *)
LEMMA NextReceived ==
    ASSUME TypeOK, FeedInv, OrderedInv, OrderedDeliver, NEW f, f = Head(queue)
    PROVE  /\ epoch # 0 /\ f = queue[1] /\ 1 \in 1..Len(queue) /\ f \in sent
           /\ \/ IsAck(f) /\ ReceiveSubscribed(f)
              \/ /\ IsSnapshot(f) /\ ~valid /\ requests = {} /\ f.seq \in Nat \ {0}
                 /\ ReceiveOldSnapshot(f) \/ ReceiveSnapshot(f)
              \/ /\ IsDelta(f) /\ view.seq # 0 /\ f.seq \in Nat
                 /\ ApplyDelta(f) \/ BreakContinuity(f) \/ DeltaWhileInvalid(f)
<1>1. epoch # 0 /\ f = queue[1] /\ 1 \in 1..Len(queue)
  BY DEF OrderedDeliver, OrderedInv
<1>2. Awaited(f) /\ f \in sent
  BY <1>1 DEF OrderedInv, QueueInv, Awaited
<1>3. Current(f) /\ ReceiveCurrent(f)
  BY <1>1, <1>2 DEF OrderedDeliver, Deliver, Receive, ReceiveStale, Current, Awaited, FeedInv, EpochInv
<1>4. acknowledged["orderbook_delta"] \in {0, BookSid} /\ (recovery <=> view.seq # 0 /\ ~valid)
      /\ (view.seq # 0 => Bound)
  BY DEF FeedInv, BookInv, RecoveryInv
<1>5. CASE IsAck(f)
  <2>1. ExpectedAck(f) /\ EarlyAgrees(f)
    BY <1>1, <1>2, <1>5 DEF OrderedInv, StartInv, EarlyAgrees, Awaited, IsAck, IsSnapshot, IsDelta
  <2>2. ReceiveSubscribed(f)
    BY <1>3, <1>5, <2>1 DEF IsAck, ReceiveCurrent, ReceiveMalformed, ReceiveError, ReceiveBadSubscribed,
       ReceiveEarlySnapshot, ReceiveConflictingSnapshot, ReceiveOldSnapshot, ReceiveSnapshot, ReceiveForeignDelta,
       ApplyDelta, BreakContinuity, DeltaWhileInvalid, DeltaBeforeSnapshot, ReceivePrivate, ReceiveBadPrivate
  <2> QED BY <1>1, <1>2, <1>5, <2>2
<1>6. CASE IsSnapshot(f)
  <2>1. f.ours /\ f.sid = BookSid /\ "orderbook_delta" \in served
    BY <1>2, <1>6 DEF Awaited, IsAck, IsSnapshot
  <2>2. Bound
    <3>1. SUFFICES ASSUME ~Bound, AckFirst PROVE FALSE
      BY <1>1, <2>1 DEF OrderedInv, StartInv
    <3> QED BY <1>1, <1>6, <3>1 DEF AckFirst, IsAck, IsSnapshot
  <2>3. ~valid /\ requests = {}
    BY <1>1, <1>6 DEF OrderedInv, AskInv
  <2>4. ~SnapshotForeign(f)
    BY <1>4, <2>1, <2>2 DEF SnapshotForeign, Bound
  <2>5. f.seq \in Nat \ {0}
    BY <1>2, <1>3, <1>6, <2>4, SnapshotGood DEF IsSnapshot
  <2>6. ReceiveOldSnapshot(f) \/ ReceiveSnapshot(f)
    BY <1>3, <1>6, <2>2, <2>3, <2>4 DEF IsSnapshot, ReceiveCurrent, ReceiveMalformed, ReceiveError,
       ReceiveBadSubscribed, ReceiveSubscribed, ReceiveEarlySnapshot, ReceiveConflictingSnapshot,
       ReceiveForeignDelta, ApplyDelta, BreakContinuity, DeltaWhileInvalid, DeltaBeforeSnapshot, ReceivePrivate,
       ReceiveBadPrivate
  <2> QED BY <1>1, <1>2, <1>6, <2>3, <2>5, <2>6
<1>7. CASE IsDelta(f)
  <2>1. f.ours /\ f.sid = BookSid /\ "orderbook_delta" \in served
    BY <1>2, <1>7 DEF Awaited, IsAck, IsDelta
  <2>2. view.seq # 0
    <3>1. SUFFICES ASSUME view.seq = 0, SnapshotFirst PROVE FALSE
      BY <1>1, <2>1 DEF OrderedInv, StartInv
    <3> QED BY <1>1, <1>7, <3>1 DEF SnapshotFirst, IsDelta, IsSnapshot
  <2>3. ~DeltaForeign(f)
    BY <1>4, <2>1 DEF DeltaForeign, Bound
  <2>4. f.seq \in Nat
    BY <1>2, <1>3, <1>7, <2>3, DeltaGood DEF IsDelta
  <2>5. valid \/ recovery
    BY <1>4, <2>2
  <2>6. ApplyDelta(f) \/ BreakContinuity(f) \/ DeltaWhileInvalid(f)
    BY <1>3, <1>7, <2>3, <2>5 DEF IsDelta, ReceiveCurrent, ReceiveMalformed, ReceiveError,
       ReceiveBadSubscribed, ReceiveSubscribed, ReceiveEarlySnapshot, ReceiveConflictingSnapshot,
       ReceiveOldSnapshot, ReceiveSnapshot, ReceiveForeignDelta, DeltaBeforeSnapshot, ReceivePrivate,
       ReceiveBadPrivate
  <2> QED BY <1>1, <1>2, <1>7, <2>2, <2>4, <2>6
<1> QED BY <1>2, <1>5, <1>6, <1>7 DEF Awaited

(* The rest of the queue *)
LEMMA RestFacts ==
    ASSUME NEW q \in Seq(Frames), q # <<>>
    PROVE  /\ Tail(q) \in Seq(Frames) /\ Len(Tail(q)) = Len(q) - 1 /\ Len(q) \in Nat \ {0}
           /\ \A i \in 1..Len(Tail(q)) : i + 1 \in 1..Len(q) /\ Tail(q)[i] = q[i + 1]
           /\ \A i \in 1..Len(q) : i # 1 => i - 1 \in 1..Len(Tail(q)) /\ Tail(q)[i - 1] = q[i]
  OBVIOUS

(* Taking the first frame leaves the others in their order. *)
LEMMA RestKeeps ==
    ASSUME OrderedInv, epoch # 0, queue # <<>>, queue' = Tail(queue),
           UNCHANGED <<epoch, sent, served>>,
           \A i \in 2..Len(queue), f \in sent : f = queue[i] /\ Awaited(f) => Awaited(f)'
    PROVE  /\ queue' \in Seq(Frames) /\ SentInv' /\ QueueInv'
           /\ AckFirst /\ ~(IsAck(queue[1]) /\ queue[1].channel = "orderbook_delta") => AckFirst'
           /\ SnapshotFirst /\ ~IsSnapshot(queue[1]) => SnapshotFirst'
           /\ (\A i \in 1..Len(queue) : ~IsSnapshot(queue[i])) => \A i \in 1..Len(queue') : ~IsSnapshot(queue'[i])
           /\ IsSnapshot(queue[1]) => \A i \in 1..Len(queue') : ~IsSnapshot(queue'[i])
<1>1. queue \in Seq(Frames) /\ QueueInv /\ SentInv
  BY DEF OrderedInv
<1>2. /\ queue' \in Seq(Frames) /\ Len(queue') = Len(queue) - 1 /\ Len(queue) \in Nat \ {0}
      /\ \A i \in 1..Len(queue') : i + 1 \in 1..Len(queue) /\ queue'[i] = queue[i + 1]
      /\ \A i \in 1..Len(queue) : i # 1 => i - 1 \in 1..Len(queue') /\ queue'[i - 1] = queue[i]
  BY <1>1, RestFacts
<1>3. SentInv'
  BY <1>1 DEF SentInv
<1>4. QueueInv'
  <2>1. ASSUME NEW i \in 1..Len(queue'), NEW f, f = queue'[i] PROVE Awaited(f)'
    <3>1. i + 1 \in 2..Len(queue) /\ i + 1 \in 1..Len(queue) /\ f = queue[i + 1]
      BY <1>2, <2>1
    <3>2. Awaited(f) /\ f \in sent
      BY <1>1, <3>1 DEF QueueInv, Awaited
    <3> QED BY <3>1, <3>2
  <2>2. ASSUME NEW i \in 1..Len(queue'), NEW j \in 1..Len(queue'), Rival(queue'[i], queue'[j]) PROVE i = j
    <3>1. i + 1 = j + 1
      BY <1>1, <1>2, <2>2 DEF QueueInv
    <3> QED BY <1>2, <3>1
  <2> QED BY <2>1, <2>2 DEF QueueInv
<1>5. ASSUME AckFirst, ~(IsAck(queue[1]) /\ queue[1].channel = "orderbook_delta") PROVE AckFirst'
  <2>1. PICK i \in 1..Len(queue) : /\ IsAck(queue[i]) /\ queue[i].channel = "orderbook_delta"
                                   /\ \A j \in 1..Len(queue) : ~IsAck(queue[j]) => i < j
    BY <1>5 DEF AckFirst
  <2>2. i - 1 \in 1..Len(queue') /\ queue'[i - 1] = queue[i]
    BY <1>2, <1>5, <2>1
  <2>3. \A j \in 1..Len(queue') : ~IsAck(queue'[j]) => i - 1 < j
    BY <1>2, <2>1
  <2> QED BY <2>1, <2>2, <2>3 DEF AckFirst
<1>6. ASSUME SnapshotFirst, ~IsSnapshot(queue[1]) PROVE SnapshotFirst'
  <2>1. PICK i \in 1..Len(queue) : /\ IsSnapshot(queue[i])
                                   /\ \A j \in 1..Len(queue) : IsDelta(queue[j]) => i < j
    BY <1>6 DEF SnapshotFirst
  <2>2. i - 1 \in 1..Len(queue') /\ queue'[i - 1] = queue[i]
    BY <1>2, <1>6, <2>1
  <2>3. \A j \in 1..Len(queue') : IsDelta(queue'[j]) => i - 1 < j
    BY <1>2, <2>1
  <2> QED BY <2>1, <2>2, <2>3 DEF SnapshotFirst
<1>7. (\A i \in 1..Len(queue) : ~IsSnapshot(queue[i])) => \A i \in 1..Len(queue') : ~IsSnapshot(queue'[i])
  BY <1>2
<1>8. IsSnapshot(queue[1]) => \A i \in 1..Len(queue') : ~IsSnapshot(queue'[i])
  <2>1. 1 \in 1..Len(queue) /\ \A i \in 1..Len(queue') : i + 1 # 1
    BY <1>2
  <2> QED BY <1>1, <1>2, <2>1 DEF QueueInv, Rival
<1> QED BY <1>2, <1>3, <1>4, <1>5, <1>6, <1>7, <1>8

LEMMA AckKeeps ==
    ASSUME TypeOK, FeedInv, OrderedInv, OrderedDeliver, NEW f, f = Head(queue), ReceiveSubscribed(f)
    PROVE  OrderedInv'
<1>1. /\ epoch # 0 /\ f = queue[1] /\ 1 \in 1..Len(queue) /\ queue # <<>> /\ IsAck(f)
      /\ QueueInv /\ StartInv /\ AskInv
  BY NextReceived DEF OrderedDeliver, ReceiveSubscribed, IsAck, OrderedInv
<1>2. /\ epoch' = epoch /\ queue' = Tail(queue)
      /\ UNCHANGED <<sent, served, requests, commandId, recovery, early, view, valid>>
      /\ pending' = pending \ {f.channel} /\ acknowledged' = [acknowledged EXCEPT ![f.channel] = f.sid]
      /\ outcome' # "terminated"
  BY <1>1 DEF OrderedDeliver, Deliver, ReceiveSubscribed, PublishOr, StartInv
<1>3. f.channel \in Channels /\ f.sid \in Nat \ {0}
  <2>1. f \in SubscribedFrames /\ f.conn = epoch /\ f \in sent
    BY <1>1, FrameFields DEF QueueInv, Awaited, IsAck, TypeOK
  <2>2. f.sid = Sid[f.channel]
    BY <1>1, <2>1 DEF FeedInv, WireInv, EpochInv, IsAck
  <2> QED BY <2>1, <2>2, SidType DEF SubscribedFrames
<1>4. acknowledged \in [Channels -> Nat]
  BY DEF TypeOK, ClientTypeOK
<1>5. ASSUME NEW i \in 2..Len(queue), NEW g \in sent, g = queue[i], Awaited(g) PROVE Awaited(g)'
  <2>1. i \in 1..Len(queue) /\ i # 1
    BY <1>1
  <2>2. IsAck(g) => g.channel # f.channel
    BY <1>1, <1>5, <2>1 DEF QueueInv, Rival
  <2>3. IsAck(g) => g.channel \in Channels
    BY FrameFields DEF IsAck, SubscribedFrames, TypeOK
  <2> QED BY <1>2, <1>3, <1>4, <1>5, <2>2, <2>3 DEF Awaited, ExpectedAck
<1>6. queue' \in Seq(Frames) /\ SentInv' /\ QueueInv'
  BY <1>1, <1>2, <1>5, RestKeeps
<1>7. StartInv'
  <2>1. f.channel # "orderbook_delta" => Bound' = Bound
    BY <1>2, <1>3, <1>4 DEF Bound, Channels
  <2>2. f.channel = "orderbook_delta" => Bound'
    BY <1>2, <1>3, <1>4 DEF Bound, Channels
  <2>3. f.channel \in served
    BY <1>1 DEF QueueInv, Awaited, IsAck, IsSnapshot, IsDelta
  <2>4. "orderbook_delta" \in served /\ ~Bound' => AckFirst'
    BY <1>1, <1>2, <1>5, <2>1, <2>2, RestKeeps DEF StartInv
  <2>5. "orderbook_delta" \in served /\ view.seq = 0 => SnapshotFirst'
    BY <1>1, <1>2, <1>5, RestKeeps DEF StartInv, IsAck, IsSnapshot
  <2>6. \A c \in pending' : acknowledged'[c] = 0
    BY <1>1, <1>2, <1>3, <1>4 DEF StartInv, TypeOK, ClientTypeOK
  <2> QED BY <1>1, <1>2, <2>1, <2>2, <2>3, <2>4, <2>5, <2>6 DEF StartInv
<1>8. AskInv'
  BY <1>1, <1>2, <1>5, RestKeeps DEF AskInv
<1> QED BY <1>1, <1>2, <1>6, <1>7, <1>8 DEF OrderedInv, OrderedStreamNeverTerminates

(* Frames of the book change neither acknowledgements nor commands. *)
LEMMA BookFrameKeeps ==
    ASSUME OrderedInv, epoch # 0, queue # <<>>, ~IsAck(queue[1]), queue' = Tail(queue),
           UNCHANGED <<epoch, sent, served, pending, commandId, acknowledged, early>>, outcome' # "terminated",
           view'.seq # 0,
           \/ UNCHANGED <<valid, recovery>> /\ requests' = requests
           \/ valid' /\ requests' = {} /\ IsSnapshot(queue[1])
           \/ /\ ~valid' /\ recovery' /\ (\A a, b \in requests' : a = b)
              /\ requests' # {} => \A i \in 1..Len(queue) : ~IsSnapshot(queue[i])
    PROVE  OrderedInv'
<1>1. QueueInv /\ StartInv /\ AskInv
  BY DEF OrderedInv
<1>2. ASSUME NEW i \in 2..Len(queue), NEW f \in sent, f = queue[i], Awaited(f) PROVE Awaited(f)'
  BY <1>2 DEF Awaited, ExpectedAck
<1>3. /\ queue' \in Seq(Frames) /\ SentInv' /\ QueueInv'
      /\ AckFirst => AckFirst'
      /\ (\A i \in 1..Len(queue) : ~IsSnapshot(queue[i])) => \A i \in 1..Len(queue') : ~IsSnapshot(queue'[i])
      /\ IsSnapshot(queue[1]) => \A i \in 1..Len(queue') : ~IsSnapshot(queue'[i])
  BY <1>2, RestKeeps
<1>4. StartInv'
  BY <1>1, <1>3 DEF StartInv, Bound
<1>5. AskInv'
  BY <1>1, <1>3 DEF AskInv
<1> QED BY <1>3, <1>4, <1>5 DEF OrderedInv, OrderedStreamNeverTerminates

LEMMA SnapshotKeeps ==
    ASSUME TypeOK, FeedInv, OrderedInv, OrderedDeliver, NEW f, f = Head(queue),
           IsSnapshot(f), requests = {}, ~valid, f.seq \in Nat \ {0},
           ReceiveOldSnapshot(f) \/ ReceiveSnapshot(f)
    PROVE  OrderedInv'
<1>1. epoch # 0 /\ f = queue[1] /\ queue # <<>> /\ ~IsAck(f)
  BY NextReceived DEF OrderedDeliver, IsAck, IsSnapshot
<1>2. CASE ReceiveOldSnapshot(f)
  <2>1. minRecovery # 0 \/ view.seq # 0
    BY <1>2 DEF ReceiveOldSnapshot, SnapshotTooOld, BelowWatermark
  <2>2. view.seq # 0
    BY <2>1 DEF FeedInv, RecoveryInv
  <2>3. /\ UNCHANGED <<epoch, sent, served, pending, commandId, acknowledged, early, view, valid, recovery>>
        /\ outcome' # "terminated" /\ requests' = requests /\ queue' = Tail(queue)
    BY <1>1, <1>2 DEF OrderedDeliver, Deliver, ReceiveOldSnapshot, epochVars, bookVars
  <2> QED BY <1>1, <2>2, <2>3, BookFrameKeeps
<1>3. CASE ReceiveSnapshot(f)
  <2>1. /\ UNCHANGED <<epoch, sent, served, pending, commandId, acknowledged, early>>
        /\ outcome' # "terminated" /\ requests' = {} /\ queue' = Tail(queue)
        /\ valid' /\ view'.seq # 0
    BY <1>1, <1>3 DEF OrderedDeliver, Deliver, ReceiveSnapshot, PublishOr, Viewed
  <2> QED BY <1>1, <2>1, BookFrameKeeps
<1> QED BY <1>2, <1>3

LEMMA DeltaKeeps ==
    ASSUME TypeOK, FeedInv, OrderedInv, OrderedDeliver, NEW f, f = Head(queue),
           IsDelta(f), view.seq # 0, f.seq \in Nat,
           ApplyDelta(f) \/ BreakContinuity(f) \/ DeltaWhileInvalid(f)
    PROVE  OrderedInv'
<1>1. epoch # 0 /\ f = queue[1] /\ queue # <<>> /\ ~IsAck(f) /\ AskInv
  BY NextReceived DEF OrderedDeliver, IsAck, IsDelta, OrderedInv
<1>2. view.seq \in Nat /\ (recovery <=> view.seq # 0 /\ ~valid) /\ (recoveryEmitted <=> recovery)
  BY <1>1 DEF TypeOK, ClientTypeOK, FeedInv, RecoveryInv
<1>3. /\ UNCHANGED <<epoch, sent, served, pending, commandId, acknowledged, early>> /\ queue' = Tail(queue)
      /\ requests' = IF outcome' = "recovery" THEN requests \cup {commandCounter'} ELSE requests
  BY <1>1 DEF OrderedDeliver, Deliver, ApplyDelta, BreakContinuity, DeltaWhileInvalid
<1>4. CASE ApplyDelta(f)
  <2>1. UNCHANGED <<valid, recovery>> /\ outcome' \in {"published", "noop"} /\ view'.seq = view.seq + 1
    BY <1>4 DEF ApplyDelta, PublishOr, Contiguous
  <2> QED BY <1>1, <1>2, <1>3, <2>1, BookFrameKeeps
<1>5. CASE BreakContinuity(f)
  <2>1. valid /\ ~valid' /\ recovery' /\ outcome' = "recovery" /\ view' = view
    BY <1>2, <1>5 DEF BreakContinuity, RequestRecovery
  <2>2. requests = {} /\ \A i \in 1..Len(queue) : ~IsSnapshot(queue[i])
    BY <1>1, <1>2, <2>1 DEF AskInv
  <2>3. requests' = {commandCounter'}
    BY <1>3, <2>1, <2>2
  <2>4. \A a, b \in requests' : a = b
    BY <2>3
  <2> QED BY <1>1, <1>3, <2>1, <2>2, <2>4, BookFrameKeeps
<1>6. CASE DeltaWhileInvalid(f)
  <2>1. UNCHANGED <<valid, recovery, view>> /\ outcome' = "noop"
    BY <1>2, <1>6 DEF DeltaWhileInvalid, RequestRecovery, bookVars
  <2> QED BY <1>1, <1>3, <2>1, BookFrameKeeps
<1> QED BY <1>4, <1>5, <1>6

-----------------------------------------------------------------------------
(* What the venue queues *)
LEMMA QueuedKeeps ==
    ASSUME OrderedInv, epoch # 0, NEW g, queue' = Append(queue, g), g \in Frames,
           UNCHANGED <<epoch, pending, commandId, acknowledged>>, sent \subseteq sent', served \subseteq served',
           Awaited(g)', \A i \in 1..Len(queue) : ~Rival(queue[i], g)
    PROVE  /\ queue' \in Seq(Frames) /\ QueueInv'
           /\ AckFirst => AckFirst'
           /\ SnapshotFirst => SnapshotFirst'
           /\ ~IsSnapshot(g) /\ (\A i \in 1..Len(queue) : ~IsSnapshot(queue[i]))
                 => \A i \in 1..Len(queue') : ~IsSnapshot(queue'[i])
<1>1. QueueInv /\ queue \in Seq(Frames)
  BY DEF OrderedInv
<1>2. /\ queue' \in Seq(Frames) /\ Len(queue) \in Nat /\ Len(queue') = Len(queue) + 1
      /\ queue'[Len(queue) + 1] = g /\ \A i \in 1..Len(queue) : queue'[i] = queue[i]
  BY <1>1
<1>3. /\ \A i \in 1..Len(queue') : i \in 1..Len(queue) \/ i = Len(queue) + 1
      /\ \A i \in 1..Len(queue) : i \in 1..Len(queue') /\ i < Len(queue) + 1
      /\ Len(queue) + 1 \in 1..Len(queue')
  BY <1>2
<1>4. ASSUME NEW i \in 1..Len(queue'), NEW f, f = queue'[i] PROVE Awaited(f)'
  <2>1. CASE i \in 1..Len(queue)
    <3>1. Awaited(f)
      BY <1>1, <1>2, <1>4, <2>1 DEF QueueInv
    <3> QED BY <3>1 DEF Awaited, ExpectedAck
  <2>2. CASE i = Len(queue) + 1
    BY <1>2, <1>4, <2>2
  <2> QED BY <1>3, <2>1, <2>2
<1>5. \A i, j \in 1..Len(queue') : Rival(queue'[i], queue'[j]) => i = j
  <2>1. \A i \in 1..Len(queue) : ~Rival(g, queue[i])
    BY DEF Rival
  <2> QED BY <1>1, <1>2, <1>3, <2>1 DEF QueueInv
<1>6. QueueInv'
  BY <1>4, <1>5 DEF QueueInv
<1>7. AckFirst => AckFirst'
  BY <1>2, <1>3 DEF AckFirst
<1>8. SnapshotFirst => SnapshotFirst'
  BY <1>2, <1>3 DEF SnapshotFirst
<1> QED BY <1>2, <1>3, <1>6, <1>7, <1>8

LEMMA OrderedDeltaKeeps ==
    ASSUME TypeOK, FeedInv, OrderedInv, NEW l \in Levels, NEW d \in -MaxQty..MaxQty, OrderedDelta(l, d)
    PROVE  OrderedInv'
<1>0. PICK g : g = Delta(Len(hist) + 1, l, d)
  OBVIOUS
<1>1. /\ epoch # 0 /\ "orderbook_delta" \in served /\ queue' = Append(queue, g) /\ sent' = sent \cup {g}
      /\ UNCHANGED <<clientVars, served, requests>>
  BY <1>0 DEF OrderedDelta, VenueDelta, Send
<1>2. /\ g \in Frames /\ IsDelta(g) /\ g.ours /\ g.sid = BookSid /\ g.conn = epoch
      /\ ~IsAck(g) /\ ~IsSnapshot(g)
  <2>1. d \in Int /\ Len(hist) + 1 \in Nat /\ BookSid \in Nat
    BY SidType, BoundsAssumption DEF TypeOK
  <2> QED BY <1>0, <2>1, FrameTypes DEF Delta, DeltaFrame, IsDelta, IsAck, IsSnapshot
<1>3. UNCHANGED <<epoch, pending, commandId, acknowledged, early, view, valid, recovery, outcome>>
  BY <1>1 DEF clientVars, epochVars, bookVars
<1>4. Awaited(g)' /\ \A i \in 1..Len(queue) : ~Rival(queue[i], g)
  BY <1>1, <1>2, <1>3 DEF Awaited, Rival
<1>5. /\ queue' \in Seq(Frames) /\ QueueInv' /\ (AckFirst => AckFirst') /\ (SnapshotFirst => SnapshotFirst')
      /\ (\A i \in 1..Len(queue) : ~IsSnapshot(queue[i])) => \A i \in 1..Len(queue') : ~IsSnapshot(queue'[i])
  BY <1>1, <1>2, <1>3, <1>4, QueuedKeeps
<1>6. SentInv'
  BY <1>1, <1>2, <1>3 DEF OrderedInv, SentInv
<1>7. StartInv' /\ AskInv'
  BY <1>1, <1>3, <1>5 DEF OrderedInv, StartInv, AskInv, Bound
<1> QED BY <1>1, <1>3, <1>5, <1>6, <1>7 DEF OrderedInv, OrderedStreamNeverTerminates

LEMMA SkippedDeltaKeeps ==
    ASSUME OrderedInv, NEW l \in Levels, NEW d \in -MaxQty..MaxQty, SkippedDelta(l, d)
    PROVE  OrderedInv'
<1>1. UNCHANGED <<clientVars, served, requests, sent, queue>>
  BY DEF SkippedDelta
<1>2. UNCHANGED <<epoch, pending, commandId, acknowledged, early, view, valid, recovery, outcome>>
  BY <1>1 DEF clientVars, epochVars, bookVars
<1> QED BY <1>1, <1>2 DEF OrderedInv, OrderedStreamNeverTerminates, SentInv, QueueInv, StartInv, AskInv,
           Awaited, ExpectedAck, AckFirst, SnapshotFirst, Bound

LEMMA RepeatedDeltaKeeps ==
    ASSUME TypeOK, FeedInv, OrderedInv, NEW f \in sent, RepeatedDelta(f)
    PROVE  OrderedInv'
<1>1. /\ epoch # 0 /\ f.conn = epoch /\ IsDelta(f) /\ queue' = Append(queue, f)
      /\ UNCHANGED <<clientVars, served, requests, sent>>
  BY DEF RepeatedDelta, IsDelta
<1>2. UNCHANGED <<epoch, pending, commandId, acknowledged, early, view, valid, recovery, outcome>>
  BY <1>1 DEF clientVars, epochVars, bookVars
<1>3. f \in Frames /\ f.ours /\ f.sid = BookSid /\ "orderbook_delta" \in served /\ ~IsSnapshot(f) /\ ~IsAck(f)
  BY <1>1 DEF TypeOK, OrderedInv, SentInv, IsDelta, IsSnapshot, IsAck
<1>4. Awaited(f)' /\ \A i \in 1..Len(queue) : ~Rival(queue[i], f)
  BY <1>1, <1>2, <1>3 DEF Awaited, Rival
<1>5. /\ queue' \in Seq(Frames) /\ QueueInv' /\ (AckFirst => AckFirst') /\ (SnapshotFirst => SnapshotFirst')
      /\ (\A i \in 1..Len(queue) : ~IsSnapshot(queue[i])) => \A i \in 1..Len(queue') : ~IsSnapshot(queue'[i])
  BY <1>1, <1>2, <1>3, <1>4, QueuedKeeps
<1>6. StartInv' /\ AskInv' /\ SentInv'
  BY <1>1, <1>2, <1>5 DEF OrderedInv, StartInv, AskInv, SentInv, Bound
<1> QED BY <1>1, <1>2, <1>5, <1>6 DEF OrderedInv, OrderedStreamNeverTerminates

(* A recovery snapshot answers the one request there is. *)
LEMMA OrderedSnapshotKeeps ==
    ASSUME TypeOK, FeedInv, OrderedInv, NEW i \in requests, OrderedSnapshot(i)
    PROVE  OrderedInv'
<1>0. PICK g : g = Snapshot(Len(hist) + 1, hist[Len(hist)])
  OBVIOUS
<1>1. /\ epoch # 0 /\ queue' = Append(queue, g) /\ requests' = requests \ {i}
      /\ UNCHANGED <<clientVars, served>>
  BY <1>0 DEF OrderedSnapshot, VenueSnapshot
<1>2. sent' = sent \cup {g}
  <2>1. hist' # hist
    BY DEF OrderedSnapshot, TypeOK
  <2> QED BY <1>0, <2>1 DEF OrderedSnapshot, VenueSnapshot, Send
<1>3. UNCHANGED <<epoch, pending, commandId, acknowledged, early, view, valid, recovery, outcome>>
  BY <1>1 DEF clientVars, epochVars, bookVars
<1>4. /\ g \in Frames /\ IsSnapshot(g) /\ g.ours /\ g.sid = BookSid /\ g.conn = epoch /\ ~IsAck(g) /\ ~IsDelta(g)
  <2>1. Len(hist) + 1 \in Nat /\ BookSid \in Nat
    BY SidType DEF TypeOK
  <2> QED BY <1>0, <2>1, LastBook, FrameTypes DEF Snapshot, SnapshotFrame, IsDelta, IsAck, IsSnapshot
<1>5. /\ recovery /\ ~valid /\ view.seq # 0 /\ Bound /\ "orderbook_delta" \in served
      /\ \A j \in 1..Len(queue) : ~IsSnapshot(queue[j])
  BY <1>1 DEF OrderedInv, AskInv, StartInv, FeedInv, RecoveryInv, BookInv
<1>6. requests' = {}
  BY <1>1 DEF OrderedInv, AskInv
<1>7. Awaited(g)' /\ \A j \in 1..Len(queue) : ~Rival(queue[j], g)
  BY <1>1, <1>2, <1>3, <1>4, <1>5 DEF Awaited, Rival
<1>8. queue' \in Seq(Frames) /\ QueueInv'
  BY <1>1, <1>2, <1>3, <1>4, <1>7, QueuedKeeps
<1>9. SentInv'
  BY <1>1, <1>2, <1>3, <1>4 DEF OrderedInv, SentInv
<1>10. StartInv'
  BY <1>1, <1>3, <1>5 DEF OrderedInv, StartInv, Bound
<1>11. AskInv'
  BY <1>3, <1>5, <1>6 DEF AskInv
<1> QED BY <1>1, <1>3, <1>8, <1>9, <1>10, <1>11 DEF OrderedInv, OrderedStreamNeverTerminates

(* A subscription is acknowledged once; the orderbook's starts the book. *)
LEMMA OrderedSubscribeKeeps ==
    ASSUME TypeOK, FeedInv, OrderedInv, NEW c \in Channels, OrderedSubscribe(c)
    PROVE  OrderedInv'
<1>0. PICK a : a = SubscribedFrame(commandId[c], c)
  OBVIOUS
<1>1. /\ epoch # 0 /\ c \notin served /\ c \in pending /\ served' = served \cup {c}
      /\ UNCHANGED <<clientVars, requests>>
  BY DEF OrderedSubscribe, VenueSubscribe
<1>2. UNCHANGED <<epoch, pending, commandId, acknowledged, early, view, valid, recovery, outcome>>
  BY <1>1 DEF clientVars, epochVars, bookVars
<1>3. /\ a \in Frames /\ IsAck(a) /\ ~IsSnapshot(a) /\ ~IsDelta(a)
      /\ a.channel = c /\ a.id = commandId[c] /\ a.conn = epoch
  BY <1>0, FrameTypes DEF SubscribedFrame, IsAck, IsSnapshot, IsDelta, TypeOK, ClientTypeOK
<1>4. a \in sent' /\ sent \subseteq sent' /\ acknowledged[c] = 0
  BY <1>0, <1>1 DEF OrderedSubscribe, VenueSubscribe, Send, OrderedInv, StartInv
<1>5. Awaited(a)'
  BY <1>1, <1>2, <1>3, <1>4 DEF Awaited, ExpectedAck
<1>6. QueueInv /\ StartInv /\ AskInv /\ SentInv /\ queue \in Seq(Frames)
  BY <1>1 DEF OrderedInv
<1>7. \A i \in 1..Len(queue) : ~Rival(queue[i], a)
  BY <1>1, <1>3, <1>6 DEF QueueInv, Awaited, Rival, IsAck, IsSnapshot, IsDelta
<1>8. CASE c # "orderbook_delta"
  <2>1. queue' = Append(queue, a) /\ sent' = sent \cup {a}
    BY <1>0, <1>6, <1>8 DEF OrderedSubscribe, VenueSubscribe, Send
  <2>2. "orderbook_delta" \in served' <=> "orderbook_delta" \in served
    BY <1>1, <1>8
  <2>3. /\ queue' \in Seq(Frames) /\ QueueInv' /\ (AckFirst => AckFirst') /\ (SnapshotFirst => SnapshotFirst')
        /\ (\A i \in 1..Len(queue) : ~IsSnapshot(queue[i])) => \A i \in 1..Len(queue') : ~IsSnapshot(queue'[i])
    BY <1>1, <1>2, <1>3, <1>4, <1>5, <1>7, <2>1, QueuedKeeps
  <2>4. SentInv'
    BY <1>2, <1>3, <1>6, <2>1, <2>2 DEF SentInv
  <2>5. StartInv' /\ AskInv'
    BY <1>1, <1>2, <1>6, <2>2, <2>3 DEF StartInv, AskInv, Bound
  <2> QED BY <1>1, <1>2, <2>3, <2>4, <2>5 DEF OrderedInv, OrderedStreamNeverTerminates
<1>9. CASE c = "orderbook_delta"
  <2>0. PICK s : s = Snapshot(Len(hist), hist[Len(hist)])
    OBVIOUS
  <2>1. queue' = queue \o <<a, s>> /\ sent' = sent \cup {a, s}
    BY <1>0, <1>9, <2>0 DEF OrderedSubscribe, VenueSubscribe, Send
  <2>2. s \in Frames /\ IsSnapshot(s) /\ s.ours /\ s.sid = BookSid /\ s.conn = epoch /\ ~IsAck(s) /\ ~IsDelta(s)
    <3>1. Len(hist) \in Nat /\ BookSid \in Nat
      BY SidType DEF TypeOK
    <3> QED BY <2>0, <3>1, LastBook, FrameTypes DEF Snapshot, SnapshotFrame, IsDelta, IsAck, IsSnapshot
  <2>3. /\ queue' \in Seq(Frames) /\ Len(queue) \in Nat /\ Len(queue') = Len(queue) + 2
        /\ queue'[Len(queue) + 1] = a /\ queue'[Len(queue) + 2] = s
        /\ \A i \in 1..Len(queue) : queue'[i] = queue[i]
    BY <1>3, <1>6, <2>1, <2>2
  <2>4. /\ \A i \in 1..Len(queue') : i \in 1..Len(queue) \/ i = Len(queue) + 1 \/ i = Len(queue) + 2
        /\ Len(queue) + 1 \in 1..Len(queue') /\ Len(queue) + 2 \in 1..Len(queue')
        /\ Len(queue) + 1 < Len(queue) + 2
    BY <2>3
  <2>5. \A i \in 1..Len(queue) :
           IsAck(queue[i]) /\ ~IsSnapshot(queue[i]) /\ ~IsDelta(queue[i]) /\ queue[i].channel # c
    BY <1>1, <1>6, <1>9 DEF QueueInv, Awaited, IsAck, IsSnapshot, IsDelta
  <2>6. ~Bound /\ view.seq = 0 /\ ~valid /\ requests = {}
    BY <1>1, <1>6, <1>9 DEF StartInv, AskInv, FeedInv, BookInv, RecoveryInv, TrueSnapshot
  <2>7. Awaited(s)'
    BY <1>1, <1>2, <1>9, <2>1, <2>2 DEF Awaited
  <2>8. ASSUME NEW i \in 1..Len(queue'), NEW f, f = queue'[i] PROVE Awaited(f)'
    <3>1. CASE i \in 1..Len(queue)
      <4>1. Awaited(f)
        BY <1>6, <2>3, <2>8, <3>1 DEF QueueInv
      <4> QED BY <1>1, <1>2, <1>4, <4>1 DEF Awaited, ExpectedAck
    <3>2. CASE i = Len(queue) + 1 \/ i = Len(queue) + 2
      BY <1>5, <2>3, <2>7, <2>8, <3>2
    <3> QED BY <2>4, <3>1, <3>2
  <2>9. \A i, j \in 1..Len(queue') : Rival(queue'[i], queue'[j]) => i = j
    <3>1. SUFFICES ASSUME NEW i \in 1..Len(queue'), NEW j \in 1..Len(queue'), Rival(queue'[i], queue'[j])
                   PROVE  i = j
      OBVIOUS
    <3>2. CASE i \in 1..Len(queue) /\ j \in 1..Len(queue)
      BY <1>6, <2>3, <3>1, <3>2 DEF QueueInv
    <3>3. CASE i \notin 1..Len(queue) \/ j \notin 1..Len(queue)
      BY <1>3, <2>2, <2>3, <2>4, <2>5, <3>1, <3>3 DEF Rival
    <3> QED BY <3>2, <3>3
  <2>10. QueueInv'
    BY <2>8, <2>9 DEF QueueInv
  <2>11. AckFirst'
    <3>1. \A j \in 1..Len(queue') : ~IsAck(queue'[j]) => Len(queue) + 1 < j
      BY <1>3, <2>3, <2>4, <2>5
    <3> QED BY <1>3, <1>9, <2>3, <2>4, <3>1 DEF AckFirst
  <2>12. SnapshotFirst'
    <3>1. \A j \in 1..Len(queue') : ~IsDelta(queue'[j])
      BY <1>3, <2>2, <2>3, <2>4, <2>5
    <3> QED BY <2>2, <2>3, <2>4, <3>1 DEF SnapshotFirst
  <2>13. SentInv'
    BY <1>1, <1>2, <1>3, <1>6, <2>1, <2>2 DEF SentInv
  <2>14. StartInv' /\ AskInv'
    BY <1>1, <1>2, <1>6, <1>9, <2>6, <2>11, <2>12 DEF StartInv, AskInv
  <2> QED BY <1>1, <1>2, <2>3, <2>10, <2>13, <2>14 DEF OrderedInv, OrderedStreamNeverTerminates
<1> QED BY <1>8, <1>9

-----------------------------------------------------------------------------
LEMMA OrderedConnectKeeps ==
    ASSUME TypeOK, FeedInv, NEW ts \in Timestamps, OrderedConnect(ts)
    PROVE  OrderedInv'
<1>1. /\ epoch' = epochCounter + 1 /\ queue' = <<>> /\ served' = {} /\ requests' = {} /\ sent' = sent
      /\ acknowledged' = NoIds /\ early' = NoSnapshot /\ valid' = FALSE /\ outcome' = "none"
      /\ pending' = Channels
  BY DEF OrderedConnect, Connect, Begin
<1>2. \A f \in sent : f.conn # epoch'
  <2>1. epochCounter \in Nat /\ \A f \in sent : f.conn \in Nat /\ f.conn <= epochCounter
    <3>1. \A f \in Frames : f.conn \in Nat
      BY DEF Frames, SubscribedFrames, ErrorFrames, SnapshotFrames, DeltaFrames, PrivateFrames, MalformedFrames
    <3> QED BY <3>1 DEF TypeOK, ClientTypeOK, FeedInv, EpochInv
  <2> QED BY <1>1, <2>1
<1>3. queue' \in Seq(Frames) /\ 1..Len(queue') = {}
  BY <1>1
<1>4. SentInv'
  BY <1>1, <1>2 DEF SentInv
<1>5. QueueInv' /\ AskInv'
  BY <1>1, <1>3 DEF QueueInv, AskInv
<1>6. StartInv'
  BY <1>1 DEF StartInv, Bound, NoIds, NoSnapshot, Channels
<1> QED BY <1>1, <1>3, <1>4, <1>5, <1>6 DEF OrderedInv, OrderedStreamNeverTerminates

LEMMA OrderedDisconnectKeeps == ASSUME OrderedDisconnect PROVE OrderedInv'
<1>1. epoch' = 0 /\ queue' = <<>> /\ outcome' = "none"
  BY DEF OrderedDisconnect, Disconnect, TerminateEpoch, EndEpoch, ForgetEpoch
<1> QED BY <1>1 DEF OrderedInv, OrderedStreamNeverTerminates

LEMMA OrderedDeliverKeeps ==
    ASSUME TypeOK, FeedInv, OrderedInv, OrderedDeliver PROVE OrderedInv'
<1>1. PICK f : f = Head(queue)
  OBVIOUS
<1> QED BY <1>1, NextReceived, AckKeeps, SnapshotKeeps, DeltaKeeps

LEMMA OrderedStep ==
    ASSUME TypeOK, FeedInv, OrderedInv, [OrderedNext]_orderedVars
    PROVE  OrderedInv'
<1>1. ASSUME UNCHANGED orderedVars PROVE OrderedInv'
  <2>1. UNCHANGED <<clientVars, served, requests, sent, queue>>
    BY <1>1 DEF orderedVars, vars, feedVars
  <2>2. UNCHANGED <<epoch, pending, commandId, acknowledged, early, view, valid, recovery, outcome>>
    BY <2>1 DEF clientVars, epochVars, bookVars
  <2> QED BY <2>1, <2>2 DEF OrderedInv, OrderedStreamNeverTerminates, SentInv, QueueInv, StartInv, AskInv,
             Awaited, ExpectedAck, AckFirst, SnapshotFirst, Bound
<1> QED
  BY <1>1, OrderedConnectKeeps, OrderedDisconnectKeeps, OrderedDeliverKeeps, OrderedSubscribeKeeps,
     OrderedDeltaKeeps, SkippedDeltaKeeps, RepeatedDeltaKeeps, OrderedSnapshotKeeps DEF OrderedNext

(* On an ordered connection nothing the venue may do, skipped and repeated   *)
(* deltas included, ends the epoch: receive_snapshot and receive_delta       *)
(* accept a frame, ignore it or ask for a recovery snapshot, and an          *)
(* acknowledgement is always the one the lifecycle waits for.                *)
THEOREM OrderedNeverTerminates == OrderedSpec => []OrderedStreamNeverTerminates
<1> DEFINE Whole == TypeOK /\ FeedInv /\ OrderedInv
<1>1. OrderedInit => Whole
  <2> SUFFICES ASSUME OrderedInit PROVE Whole
    OBVIOUS
  <2>1. Init /\ queue = <<>>
    BY DEF OrderedInit
  <2>2. epoch = 0 /\ outcome = "none"
    BY <2>1 DEF Init, ClientInit
  <2> QED BY <2>1, <2>2, InitType, InitInv DEF OrderedInv, OrderedStreamNeverTerminates
<1>2. Whole /\ [OrderedNext]_orderedVars => Whole'
  BY OrderedFeed, OrderedStep
<1>3. Whole => OrderedStreamNeverTerminates
  BY DEF OrderedInv
<1> QED BY <1>1, <1>2, <1>3, PTL DEF OrderedSpec
=============================================================================
