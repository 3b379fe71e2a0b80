------------------------ MODULE KalshiPrivateSyncProofs ------------------------
(***************************************************************************)
(* Proofs about the private synchronization: for any set of channels, any  *)
(* number of changes, faults and lease generations, neither the runner nor *)
(* the durable row says ready over a change nobody is going to announce.   *)
(***************************************************************************)
EXTENDS KalshiPrivateSync, TLAPS

-----------------------------------------------------------------------------
(* The parts of the type invariant *)
PlacesOK ==
    /\ main \in Guarded \cup {"connect", "unwind", "invalidating", "teardown", "closing", "backoff", "done"}
    /\ reader \in {"none", "reading", "notifying", "cancelled", "failed"}
    /\ worker \in {"off", "composed", "running", "ending", "final", "releasing", "dead"}
    /\ last \in {"none", "fresh", "stale"}
FlagsOK ==
    /\ up \in BOOLEAN /\ stop \in BOOLEAN /\ event \in BOOLEAN /\ followUp \in BOOLEAN /\ expired \in BOOLEAN
    /\ connected \in BOOLEAN /\ acknowledged \in BOOLEAN /\ ready \in BOOLEAN
NumbersOK ==
    /\ venue \in Nat /\ revision \in Nat /\ dirty \in Nat /\ generationDirty \in Nat /\ observed \in Nat
    /\ base \in Nat /\ synced \in Nat /\ readerNote \in Nat /\ mainNote \in Nat
    /\ fence \in Nat /\ failures \in Nat /\ stales \in Nat
WireOK == subscribed \subseteq Channels /\ acked \subseteq Channels /\ wire \in Seq(Messages)
RowsOK == row \in Rows /\ snap \in Rows

-----------------------------------------------------------------------------
(* The inductive invariant *)

(* A frame, which says that something changed, is in w. *)
Framed(w) == \E i \in 1..Len(w) : w[i].kind = "frame"

(* w speaks of the channels in S only. *)
Speaks(w, S) == \A i \in 1..Len(w) : w[i].channel \in S

(* run is past the acknowledgements: everything the venue changes is framed. *)
Following == main \in {"sync", "steady", "debounce"}

(* Where the tasks can be, and what the stream has promised by then *)
StreamInv ==
    /\ main \in Guarded => reader \in {"reading", "notifying", "failed"}
    /\ reader = "notifying" => readerNote # 0
    /\ main = "invalidating" => mainNote # 0
    /\ acked \subseteq subscribed
    /\ Speaks(wire, subscribed)
    /\ Following => subscribed = Channels

(* A change that a synchronization may have missed has its frame under way   *)
(* or already counted in dirty; one that readiness may hide, under way.      *)
ReadInv ==
    /\ observed <= dirty
    /\ main = "sync" /\ up => base = venue \/ Framed(wire) \/ dirty # observed
    /\ ready => main \in {"steady", "debounce", "unwind"} /\ subscribed = Channels
    /\ ready /\ up => synced = venue \/ Framed(wire)

(* What keeps a row or a snapshot honest that was read when v changes had    *)
(* been seen: nothing has changed on a connection that works, or the task    *)
(* that will retract it is on its way there.                                 *)
Covered(v) ==
    \/ stop \/ main \in {"unwind", "invalidating"}
    \/ /\ Following
       /\ reader = "reading" /\ up => Framed(wire) \/ v = venue

(* Only a writer of the running generation holds the row lock for long. *)
RowInv ==
    /\ row.ready => row.inv = 0
    /\ snap.ready => snap.inv = 0
    /\ snap # NoSnap => worker = "running"
    /\ worker = "composed" => main = "done"
    /\ snap.ready => Covered(snap.synced)
    /\ ShownReady /\ worker \in {"running", "ending"} => Covered(row.synced)

Inv == PlacesOK /\ FlagsOK /\ NumbersOK /\ WireOK /\ RowsOK /\ StreamInv /\ ReadInv /\ RowInv

LEMMA TypeParts == TypeOK <=> PlacesOK /\ FlagsOK /\ NumbersOK /\ WireOK /\ RowsOK
BY DEF TypeOK, PlacesOK, FlagsOK, NumbersOK, WireOK, RowsOK

-----------------------------------------------------------------------------
(* The wire *)
LEMMA AppendFacts ==
    ASSUME NEW w \in Seq(Messages), NEW S, NEW m \in Messages
    PROVE  /\ Append(w, m) \in Seq(Messages)
           /\ Framed(w) \/ m.kind = "frame" => Framed(Append(w, m))
           /\ Speaks(w, S) => Speaks(Append(w, m), S \cup {m.channel})
<1>. DEFINE a == Append(w, m)
<1>1. /\ a \in Seq(Messages) /\ Len(a) = Len(w) + 1 /\ a[Len(w) + 1] = m
      /\ \A i \in 1..Len(w) : a[i] = w[i]
  OBVIOUS
<1>2. Len(w) \in Nat /\ \A i \in 1..Len(a) : i \in 1..Len(w) \/ i = Len(w) + 1
  BY <1>1
<1>3. 1..Len(w) \subseteq 1..Len(a) /\ Len(w) + 1 \in 1..Len(a)
  BY <1>1, <1>2
<1>4. Framed(w) \/ m.kind = "frame" => Framed(a)
  BY <1>1, <1>3 DEF Framed
<1>5. Speaks(w, S) => Speaks(a, S \cup {m.channel})
  BY <1>1, <1>2 DEF Speaks
<1>. QED
  BY <1>1, <1>4, <1>5

LEMMA TailFacts ==
    ASSUME NEW w \in Seq(Messages), NEW S, w # <<>>
    PROVE  /\ Tail(w) \in Seq(Messages) /\ Head(w) \in Messages
           /\ Framed(w) => Head(w).kind = "frame" \/ Framed(Tail(w))
           /\ Speaks(w, S) => Head(w).channel \in S /\ Speaks(Tail(w), S)
<1>. DEFINE t == Tail(w)
<1>1. /\ t \in Seq(Messages) /\ Len(w) \in Nat /\ Len(w) > 0 /\ Len(t) = Len(w) - 1 /\ Head(w) = w[1]
      /\ \A i \in 1..Len(t) : t[i] = w[i + 1]
  OBVIOUS
<1>2. \A i \in 1..Len(w) : i = 1 \/ (i - 1 \in 1..Len(t) /\ t[i - 1] = w[i])
  BY <1>1
<1>3. \A i \in 1..Len(t) : i + 1 \in 1..Len(w)
  BY <1>1
<1>4. Framed(w) => Head(w).kind = "frame" \/ Framed(t)
  BY <1>1, <1>2 DEF Framed
<1>5. Speaks(w, S) => Head(w).channel \in S /\ Speaks(t, S)
  BY <1>1, <1>3 DEF Speaks
<1>6. Head(w) \in Messages
  BY <1>1
<1>. QED
  BY <1>1, <1>4, <1>5, <1>6

LEMMA EmptyFacts ==
    /\ <<>> \in Seq(Messages) /\ ~Framed(<<>>)
    /\ \A S : Speaks(<<>>, S)
BY DEF Framed, Speaks

-----------------------------------------------------------------------------
(* The venue and the connection *)
(* The venue acknowledges a channel and sends its changes from now on. *)
LEMMA VenueSubscribesKeeps ==
    ASSUME Inv, NEW c \in Channels, VenueSubscribes(c) PROVE Inv'
<1>. USE DEF Inv, VenueSubscribes, connVars, flagVars, syncVars, leaseVars, boundVars
<1>1. PlacesOK'
  BY DEF PlacesOK
<1>2. FlagsOK'
  BY DEF FlagsOK
<1>3. NumbersOK'
  BY DEF NumbersOK
<1>4. WireOK'
  BY AppendFacts DEF WireOK, Messages, Ack
<1>5. RowsOK'
  BY DEF RowsOK
<1>6. StreamInv'
  <2>1. Ack(c) \in Messages /\ Ack(c).channel = c
    BY DEF Ack, Messages
  <2>2. Speaks(wire', subscribed')
    BY <2>1, AppendFacts DEF WireOK, StreamInv
  <2>. QED
    BY <2>2 DEF StreamInv, Following
<1>7. ReadInv'
  BY AppendFacts DEF NumbersOK, StreamInv, ReadInv, Following
<1>8. RowInv'
  BY AppendFacts DEF StreamInv, RowInv, Covered, Following, ShownReady
<1>. QED
  BY <1>1, <1>2, <1>3, <1>4, <1>5, <1>6, <1>7, <1>8

(* A change on a connection that is followed puts its frame on the wire. *)
LEMMA VenueChangeKeeps ==
    ASSUME Inv, NEW c \in Channels, VenueChange(c) PROVE Inv'
<1>. USE DEF Inv, VenueChange, connVars, flagVars, syncVars, leaseVars, boundVars
<1>1. PlacesOK'
  BY DEF PlacesOK
<1>2. FlagsOK'
  BY DEF FlagsOK
<1>3. NumbersOK'
  BY DEF NumbersOK
<1>4. WireOK'
  BY AppendFacts DEF WireOK, Messages, Frame
<1>5. RowsOK'
  BY DEF RowsOK
<1>6. StreamInv'
  <2>1. Frame(c) \in Messages /\ Frame(c).channel = c
    BY DEF Frame, Messages
  <2>2. c \in subscribed => subscribed \cup {c} = subscribed
    OBVIOUS
  <2>3. Speaks(wire', subscribed')
    BY <2>1, <2>2, AppendFacts DEF WireOK, StreamInv
  <2>. QED
    BY <2>3 DEF StreamInv, Following
<1>7. ReadInv'
  BY AppendFacts DEF NumbersOK, WireOK, StreamInv, ReadInv, Following, Messages, Frame
<1>8. RowInv'
  BY AppendFacts DEF NumbersOK, WireOK, RowsOK, StreamInv, ReadInv, RowInv, Covered, Following,
         ShownReady, Messages, Frame
<1>. QED
  BY <1>1, <1>2, <1>3, <1>4, <1>5, <1>6, <1>7, <1>8

(* A broken connection takes its frames along; the reader will notice. *)
LEMMA DropKeeps ==
    ASSUME Inv, Drop PROVE Inv'
<1>. USE DEF Inv, Drop, Fault, connVars, flagVars, syncVars, leaseVars, boundVars
<1>1. PlacesOK'
  BY DEF PlacesOK
<1>2. FlagsOK'
  BY DEF FlagsOK
<1>3. NumbersOK'
  BY DEF NumbersOK
<1>4. WireOK'
  BY EmptyFacts DEF WireOK
<1>5. RowsOK'
  BY DEF RowsOK
<1>6. StreamInv'
  BY EmptyFacts DEF StreamInv, Following
<1>7. ReadInv'
  BY EmptyFacts DEF ReadInv
<1>8. RowInv'
  BY EmptyFacts DEF RowInv, ShownReady, Covered, Following
<1>. QED
  BY <1>1, <1>2, <1>3, <1>4, <1>5, <1>6, <1>7, <1>8

(* Readiness ends when the last synchronization is too old. *)
LEMMA AgeKeeps ==
    ASSUME Inv, Age PROVE Inv'
<1>. USE DEF Inv, Age, connVars, flagVars, syncVars, leaseVars, boundVars
<1>1. PlacesOK'
  BY DEF PlacesOK
<1>2. FlagsOK'
  BY DEF FlagsOK
<1>3. NumbersOK'
  BY DEF NumbersOK
<1>4. WireOK'
  BY DEF WireOK
<1>5. RowsOK'
  BY DEF RowsOK
<1>6. StreamInv'
  BY DEF StreamInv, Following
<1>7. ReadInv'
  BY DEF ReadInv
<1>8. RowInv'
  BY DEF RowInv, ShownReady, Covered, Following
<1>. QED
  BY <1>1, <1>2, <1>3, <1>4, <1>5, <1>6, <1>7, <1>8

-----------------------------------------------------------------------------
(* The reader *)
(* An acknowledgement leaves the frames on the wire where they are. *)
LEMMA ReceiveAckKeeps ==
    ASSUME Inv, ReceiveAck PROVE Inv'
<1>. USE DEF Inv, ReceiveAck, connVars, flagVars, syncVars, leaseVars, boundVars
<1>1. PlacesOK'
  BY DEF PlacesOK
<1>2. FlagsOK'
  BY DEF FlagsOK
<1>3. NumbersOK'
  BY DEF NumbersOK
<1>4. WireOK'
  BY TailFacts DEF WireOK, Messages
<1>5. RowsOK'
  BY DEF RowsOK
<1>6. StreamInv'
  BY TailFacts DEF WireOK, StreamInv, Following
<1>7. ReadInv'
  BY TailFacts DEF NumbersOK, WireOK, StreamInv, ReadInv, Following
<1>8. RowInv'
  BY TailFacts DEF NumbersOK, WireOK, RowsOK, StreamInv, ReadInv, RowInv, Covered, Following,
         ShownReady
<1>. QED
  BY <1>1, <1>2, <1>3, <1>4, <1>5, <1>6, <1>7, <1>8

(* A frame that leaves the wire is counted in dirty, and its callback is under way. *)
LEMMA ReceiveFrameKeeps ==
    ASSUME Inv, ReceiveFrame PROVE Inv'
<1>. USE DEF Inv, ReceiveFrame, connVars, flagVars, syncVars, leaseVars, boundVars
<1>1. PlacesOK'
  BY DEF PlacesOK
<1>2. FlagsOK'
  BY DEF FlagsOK
<1>3. NumbersOK'
  BY DEF NumbersOK
<1>4. WireOK'
  BY TailFacts DEF WireOK
<1>5. RowsOK'
  BY DEF RowsOK
<1>6. StreamInv'
  BY TailFacts DEF NumbersOK, WireOK, StreamInv, Following
<1>7. ReadInv'
  BY TailFacts DEF NumbersOK, ReadInv
<1>8. RowInv'
  BY TailFacts DEF RowInv, ShownReady, Covered, Following
<1>. QED
  BY <1>1, <1>2, <1>3, <1>4, <1>5, <1>6, <1>7, <1>8

(* The reader's callback retracts what the row says. *)
LEMMA ReaderNotifiedKeeps ==
    ASSUME Inv, ReaderNotified PROVE Inv'
<1>. USE DEF Inv, ReaderNotified, PersistInvalidation, Owns, Unlocked, connVars, flagVars, syncVars,
         leaseVars, boundVars
<1>1. PlacesOK'
  BY DEF PlacesOK
<1>2. FlagsOK'
  BY DEF FlagsOK
<1>3. NumbersOK'
  BY DEF NumbersOK
<1>4. WireOK'
  BY DEF WireOK
<1>5. RowsOK'
  BY DEF NumbersOK, RowsOK, Rows
<1>6. StreamInv'
  BY DEF StreamInv, Following
<1>7. ReadInv'
  BY DEF ReadInv
<1>8. RowInv'
  BY DEF NumbersOK, RowsOK, RowInv, Covered, Following, ShownReady, NoSnap
<1>. QED
  BY <1>1, <1>2, <1>3, <1>4, <1>5, <1>6, <1>7, <1>8

(* A callback that fails may leave the row; then the reader has failed. *)
LEMMA ReaderNoteFailsKeeps ==
    ASSUME Inv, ReaderNoteFails PROVE Inv'
<1>. USE DEF Inv, ReaderNoteFails, PersistInvalidation, Owns, Unlocked, Retract, Fault, connVars,
         flagVars, syncVars, leaseVars, boundVars
<1>1. PlacesOK'
  BY DEF PlacesOK
<1>2. FlagsOK'
  BY DEF FlagsOK
<1>3. NumbersOK'
  BY DEF NumbersOK
<1>4. WireOK'
  BY DEF WireOK
<1>5. RowsOK'
  BY DEF NumbersOK, RowsOK, Rows
<1>6. StreamInv'
  BY DEF StreamInv, Following
<1>7. ReadInv'
  BY DEF ReadInv
<1>8. RowInv'
  BY DEF NumbersOK, RowsOK, RowInv, Covered, Following, ShownReady, Rows
<1>. QED
  BY <1>1, <1>2, <1>3, <1>4, <1>5, <1>6, <1>7, <1>8

(* A reader that fails is found by run. *)
LEMMA ReaderFailsKeeps ==
    ASSUME Inv, ReaderFails PROVE Inv'
<1>. USE DEF Inv, ReaderFails, Retract, Fault, connVars, flagVars, syncVars, leaseVars, boundVars
<1>1. PlacesOK'
  BY DEF PlacesOK
<1>2. FlagsOK'
  BY DEF FlagsOK
<1>3. NumbersOK'
  BY DEF NumbersOK
<1>4. WireOK'
  BY DEF WireOK
<1>5. RowsOK'
  BY DEF RowsOK
<1>6. StreamInv'
  BY DEF StreamInv, Following
<1>7. ReadInv'
  BY DEF ReadInv
<1>8. RowInv'
  BY DEF RowInv, ShownReady, Covered, Following
<1>. QED
  BY <1>1, <1>2, <1>3, <1>4, <1>5, <1>6, <1>7, <1>8

-----------------------------------------------------------------------------
(* run *)
(* A new connection has promised nothing yet, and nothing is ready. *)
LEMMA ConnectKeeps ==
    ASSUME Inv, Connect PROVE Inv'
<1>. USE DEF Inv, Connect, connVars, flagVars, syncVars, leaseVars, boundVars
<1>1. PlacesOK'
  BY DEF PlacesOK, Guarded
<1>2. FlagsOK'
  BY DEF FlagsOK
<1>3. NumbersOK'
  BY DEF NumbersOK
<1>4. WireOK'
  BY EmptyFacts DEF WireOK
<1>5. RowsOK'
  BY DEF RowsOK
<1>6. StreamInv'
  BY EmptyFacts DEF StreamInv, Following
<1>7. ReadInv'
  BY EmptyFacts DEF ReadInv
<1>8. RowInv'
  BY EmptyFacts DEF RowInv, ShownReady, Covered, Following
<1>. QED
  BY <1>1, <1>2, <1>3, <1>4, <1>5, <1>6, <1>7, <1>8

(* run retracts, and its callback is under way. *)
LEMMA ConnectFailsKeeps ==
    ASSUME Inv, ConnectFails PROVE Inv'
<1>. USE DEF Inv, ConnectFails, Invalidate, Retract, Fault, connVars, flagVars, syncVars, leaseVars,
         boundVars
<1>1. PlacesOK'
  BY DEF PlacesOK
<1>2. FlagsOK'
  BY DEF FlagsOK
<1>3. NumbersOK'
  BY DEF NumbersOK
<1>4. WireOK'
  BY DEF WireOK
<1>5. RowsOK'
  BY DEF RowsOK
<1>6. StreamInv'
  BY DEF NumbersOK, StreamInv, Following, Guarded
<1>7. ReadInv'
  BY DEF ReadInv
<1>8. RowInv'
  BY DEF RowInv, ShownReady, Covered, Following
<1>. QED
  BY <1>1, <1>2, <1>3, <1>4, <1>5, <1>6, <1>7, <1>8

(* All channels are followed from before the first read of the portfolio. *)
LEMMA AcknowledgedKeeps ==
    ASSUME Inv, Acknowledged PROVE Inv'
<1>. USE DEF Inv, Acknowledged, BeginSync, connVars, flagVars, syncVars, leaseVars, boundVars
<1>1. PlacesOK'
  BY DEF PlacesOK, Guarded
<1>2. FlagsOK'
  BY DEF FlagsOK
<1>3. NumbersOK'
  BY DEF NumbersOK
<1>4. WireOK'
  BY DEF WireOK
<1>5. RowsOK'
  BY DEF RowsOK
<1>6. StreamInv'
  BY DEF WireOK, StreamInv, Following
<1>7. ReadInv'
  BY DEF NumbersOK, ReadInv
<1>8. RowInv'
  BY DEF RowInv, ShownReady, Covered, Following
<1>. QED
  BY <1>1, <1>2, <1>3, <1>4, <1>5, <1>6, <1>7, <1>8

(* What the synchronization missed is under way or counted in dirty, and then it is repeated. *)
LEMMA SyncCompleteKeeps ==
    ASSUME Inv, SyncComplete PROVE Inv'
<1>. USE DEF Inv, SyncComplete, Owns, BeginSync, connVars, flagVars, syncVars, leaseVars, boundVars
<1>1. PlacesOK'
  BY DEF PlacesOK, Guarded
<1>2. FlagsOK'
  BY DEF FlagsOK
<1>3. NumbersOK'
  BY DEF NumbersOK
<1>4. WireOK'
  BY DEF WireOK
<1>5. RowsOK'
  BY DEF RowsOK
<1>6. StreamInv'
  BY DEF StreamInv, Following, Guarded
<1>7. ReadInv'
  BY DEF NumbersOK, StreamInv, ReadInv, Following
<1>8. RowInv'
  BY DEF RowInv, ShownReady, Covered, Following
<1>. QED
  BY <1>1, <1>2, <1>3, <1>4, <1>5, <1>6, <1>7, <1>8

(* A failed synchronization retracts. *)
LEMMA SyncFailsKeeps ==
    ASSUME Inv, SyncFails PROVE Inv'
<1>. USE DEF Inv, SyncFails, Invalidate, Retract, Fault, connVars, flagVars, syncVars, leaseVars,
         boundVars
<1>1. PlacesOK'
  BY DEF PlacesOK
<1>2. FlagsOK'
  BY DEF FlagsOK
<1>3. NumbersOK'
  BY DEF NumbersOK
<1>4. WireOK'
  BY DEF WireOK
<1>5. RowsOK'
  BY DEF RowsOK
<1>6. StreamInv'
  BY DEF NumbersOK, StreamInv, Following, Guarded
<1>7. ReadInv'
  BY DEF ReadInv
<1>8. RowInv'
  BY DEF RowInv, ShownReady, Covered, Following
<1>. QED
  BY <1>1, <1>2, <1>3, <1>4, <1>5, <1>6, <1>7, <1>8

LEMMA WokenKeeps ==
    ASSUME Inv, Woken PROVE Inv'
<1>. USE DEF Inv, Woken, connVars, flagVars, syncVars, leaseVars, boundVars
<1>1. PlacesOK'
  BY DEF PlacesOK, Guarded
<1>2. FlagsOK'
  BY DEF FlagsOK
<1>3. NumbersOK'
  BY DEF NumbersOK
<1>4. WireOK'
  BY DEF WireOK
<1>5. RowsOK'
  BY DEF RowsOK
<1>6. StreamInv'
  BY DEF StreamInv, Following, Guarded
<1>7. ReadInv'
  BY DEF ReadInv
<1>8. RowInv'
  BY DEF RowInv, ShownReady, Covered, Following
<1>. QED
  BY <1>1, <1>2, <1>3, <1>4, <1>5, <1>6, <1>7, <1>8

(* The next round starts from the changes of this moment. *)
LEMMA ResyncKeeps ==
    ASSUME Inv, Resync PROVE Inv'
<1>. USE DEF Inv, Resync, BeginSync, connVars, flagVars, syncVars, leaseVars, boundVars
<1>1. PlacesOK'
  BY DEF PlacesOK, Guarded
<1>2. FlagsOK'
  BY DEF FlagsOK
<1>3. NumbersOK'
  BY DEF NumbersOK
<1>4. WireOK'
  BY DEF WireOK
<1>5. RowsOK'
  BY DEF RowsOK
<1>6. StreamInv'
  BY DEF StreamInv, Following, Guarded
<1>7. ReadInv'
  BY DEF NumbersOK, ReadInv
<1>8. RowInv'
  BY DEF RowInv, ShownReady, Covered, Following
<1>. QED
  BY <1>1, <1>2, <1>3, <1>4, <1>5, <1>6, <1>7, <1>8

(* run gives up its operation and will retract. *)
LEMMA GuardRaisesKeeps ==
    ASSUME Inv, GuardRaises PROVE Inv'
<1>. USE DEF Inv, GuardRaises, Fault, connVars, flagVars, syncVars, leaseVars, boundVars
<1>1. PlacesOK'
  BY DEF PlacesOK
<1>2. FlagsOK'
  BY DEF FlagsOK
<1>3. NumbersOK'
  BY DEF NumbersOK
<1>4. WireOK'
  BY DEF WireOK
<1>5. RowsOK'
  BY DEF RowsOK
<1>6. StreamInv'
  BY DEF StreamInv, Following
<1>7. ReadInv'
  BY DEF ReadInv
<1>8. RowInv'
  BY DEF StreamInv, RowInv, Covered, Following, Guarded, ShownReady
<1>. QED
  BY <1>1, <1>2, <1>3, <1>4, <1>5, <1>6, <1>7, <1>8

(* The retraction that unwinding promised begins. *)
LEMMA UnwoundKeeps ==
    ASSUME Inv, Unwound PROVE Inv'
<1>. USE DEF Inv, Unwound, Invalidate, Retract, connVars, flagVars, syncVars, leaseVars, boundVars
<1>1. PlacesOK'
  BY DEF PlacesOK
<1>2. FlagsOK'
  BY DEF FlagsOK
<1>3. NumbersOK'
  BY DEF NumbersOK
<1>4. WireOK'
  BY DEF WireOK
<1>5. RowsOK'
  BY DEF RowsOK
<1>6. StreamInv'
  BY DEF NumbersOK, StreamInv, Following, Guarded
<1>7. ReadInv'
  BY DEF ReadInv
<1>8. RowInv'
  BY DEF RowInv, ShownReady, Covered, Following
<1>. QED
  BY <1>1, <1>2, <1>3, <1>4, <1>5, <1>6, <1>7, <1>8

(* run's callback retracts what the row says. *)
LEMMA MainNotifiedKeeps ==
    ASSUME Inv, MainNotified PROVE Inv'
<1>. USE DEF Inv, MainNotified, PersistInvalidation, Owns, Unlocked, CancelReader, connVars, flagVars,
         syncVars, leaseVars, boundVars
<1>1. PlacesOK'
  BY DEF PlacesOK
<1>2. FlagsOK'
  BY DEF FlagsOK
<1>3. NumbersOK'
  BY DEF NumbersOK
<1>4. WireOK'
  BY DEF WireOK
<1>5. RowsOK'
  BY DEF NumbersOK, RowsOK, Rows
<1>6. StreamInv'
  BY DEF StreamInv, Following, Guarded
<1>7. ReadInv'
  BY DEF ReadInv
<1>8. RowInv'
  BY DEF NumbersOK, RowsOK, RowInv, Covered, Following, ShownReady, NoSnap
<1>. QED
  BY <1>1, <1>2, <1>3, <1>4, <1>5, <1>6, <1>7, <1>8

(* A callback that fails may leave the row; then run is unwinding for good. *)
LEMMA MainNoteFailsKeeps ==
    ASSUME Inv, MainNoteFails PROVE Inv'
<1>. USE DEF Inv, MainNoteFails, PersistInvalidation, Owns, Unlocked, CancelReader, Fault, connVars,
         flagVars, syncVars, leaseVars, boundVars
<1>1. PlacesOK'
  BY DEF PlacesOK
<1>2. FlagsOK'
  BY DEF FlagsOK
<1>3. NumbersOK'
  BY DEF NumbersOK
<1>4. WireOK'
  BY DEF WireOK
<1>5. RowsOK'
  BY DEF NumbersOK, RowsOK, Rows
<1>6. StreamInv'
  BY DEF StreamInv, Following, Guarded
<1>7. ReadInv'
  BY DEF ReadInv
<1>8. RowInv'
  BY DEF NumbersOK, RowsOK, RowInv, Covered, Following, ShownReady, Rows
<1>. QED
  BY <1>1, <1>2, <1>3, <1>4, <1>5, <1>6, <1>7, <1>8

LEMMA ReaderAwaitedKeeps ==
    ASSUME Inv, ReaderAwaited PROVE Inv'
<1>. USE DEF Inv, ReaderAwaited, connVars, flagVars, syncVars, leaseVars, boundVars
<1>1. PlacesOK'
  BY DEF PlacesOK
<1>2. FlagsOK'
  BY DEF FlagsOK
<1>3. NumbersOK'
  BY DEF NumbersOK
<1>4. WireOK'
  BY DEF WireOK
<1>5. RowsOK'
  BY DEF RowsOK
<1>6. StreamInv'
  BY DEF StreamInv, Following, Guarded
<1>7. ReadInv'
  BY DEF ReadInv
<1>8. RowInv'
  BY DEF RowInv, ShownReady, Covered, Following
<1>. QED
  BY <1>1, <1>2, <1>3, <1>4, <1>5, <1>6, <1>7, <1>8

(* The row was retracted before the connection is closed. *)
LEMMA ClosedKeeps ==
    ASSUME Inv, Closed PROVE Inv'
<1>. USE DEF Inv, Closed, connVars, flagVars, syncVars, leaseVars, boundVars
<1>1. PlacesOK'
  BY DEF PlacesOK
<1>2. FlagsOK'
  BY DEF FlagsOK
<1>3. NumbersOK'
  BY DEF NumbersOK
<1>4. WireOK'
  BY EmptyFacts DEF WireOK
<1>5. RowsOK'
  BY DEF RowsOK
<1>6. StreamInv'
  BY EmptyFacts DEF StreamInv, Following, Guarded
<1>7. ReadInv'
  BY EmptyFacts DEF ReadInv
<1>8. RowInv'
  BY EmptyFacts DEF RowInv, ShownReady, Covered, Following
<1>. QED
  BY <1>1, <1>2, <1>3, <1>4, <1>5, <1>6, <1>7, <1>8

LEMMA BackedOffKeeps ==
    ASSUME Inv, BackedOff PROVE Inv'
<1>. USE DEF Inv, BackedOff, connVars, flagVars, syncVars, leaseVars, boundVars
<1>1. PlacesOK'
  BY DEF PlacesOK
<1>2. FlagsOK'
  BY DEF FlagsOK
<1>3. NumbersOK'
  BY DEF NumbersOK
<1>4. WireOK'
  BY DEF WireOK
<1>5. RowsOK'
  BY DEF RowsOK
<1>6. StreamInv'
  BY DEF StreamInv, Following, Guarded
<1>7. ReadInv'
  BY DEF ReadInv
<1>8. RowInv'
  BY DEF RowInv, ShownReady, Covered, Following
<1>. QED
  BY <1>1, <1>2, <1>3, <1>4, <1>5, <1>6, <1>7, <1>8

-----------------------------------------------------------------------------
(* The worker loop and its processes *)
(* A new generation has written nothing yet. *)
LEMMA ComposeKeeps ==
    ASSUME Inv, Compose PROVE Inv'
<1>. USE DEF Inv, Compose, Unlocked, FreshRunner, connVars, flagVars, syncVars, leaseVars, boundVars
<1>1. PlacesOK'
  BY DEF PlacesOK
<1>2. FlagsOK'
  BY DEF FlagsOK
<1>3. NumbersOK'
  BY DEF NumbersOK
<1>4. WireOK'
  BY EmptyFacts DEF WireOK
<1>5. RowsOK'
  BY DEF RowsOK
<1>6. StreamInv'
  BY EmptyFacts DEF StreamInv, Following, Guarded
<1>7. ReadInv'
  BY EmptyFacts DEF ReadInv
<1>8. RowInv'
  BY EmptyFacts DEF StreamInv, ReadInv, RowInv, Covered, Following, ShownReady, NoSnap
<1>. QED
  BY <1>1, <1>2, <1>3, <1>4, <1>5, <1>6, <1>7, <1>8

(* The row of a generation starts as not ready. *)
LEMMA PublishKeeps ==
    ASSUME Inv, Publish PROVE Inv'
<1>. USE DEF Inv, Publish, Owns, Unlocked, GenerationRow, connVars, flagVars, syncVars, leaseVars,
         boundVars
<1>1. PlacesOK'
  BY DEF PlacesOK
<1>2. FlagsOK'
  BY DEF FlagsOK
<1>3. NumbersOK'
  BY DEF NumbersOK
<1>4. WireOK'
  BY DEF WireOK
<1>5. RowsOK'
  BY DEF NumbersOK, RowsOK, Rows
<1>6. StreamInv'
  BY DEF StreamInv, Following, Guarded
<1>7. ReadInv'
  BY DEF NumbersOK, StreamInv, ReadInv, RowInv, Following
<1>8. RowInv'
  BY DEF RowInv, ShownReady, Covered, Following
<1>. QED
  BY <1>1, <1>2, <1>3, <1>4, <1>5, <1>6, <1>7, <1>8

LEMMA PublishFailsKeeps ==
    ASSUME Inv, PublishFails PROVE Inv'
<1>. USE DEF Inv, PublishFails, Owns, Unlocked, Fault, connVars, flagVars, syncVars, leaseVars,
         boundVars
<1>1. PlacesOK'
  BY DEF PlacesOK
<1>2. FlagsOK'
  BY DEF FlagsOK
<1>3. NumbersOK'
  BY DEF NumbersOK
<1>4. WireOK'
  BY DEF WireOK
<1>5. RowsOK'
  BY DEF RowsOK
<1>6. StreamInv'
  BY DEF StreamInv, Following
<1>7. ReadInv'
  BY DEF ReadInv
<1>8. RowInv'
  BY DEF RowInv, ShownReady, Covered, Following
<1>. QED
  BY <1>1, <1>2, <1>3, <1>4, <1>5, <1>6, <1>7, <1>8

(* A cancelled runner goes on to retract, or has retracted already. *)
LEMMA EndGenerationKeeps ==
    ASSUME Inv, EndGeneration PROVE Inv'
<1>. USE DEF Inv, EndGeneration, Unlocked, Cancel, Invalidate, Retract, connVars, flagVars, syncVars,
         leaseVars, boundVars
<1>1. PlacesOK'
  BY DEF PlacesOK
<1>2. FlagsOK'
  BY DEF FlagsOK
<1>3. NumbersOK'
  BY DEF NumbersOK
<1>4. WireOK'
  BY DEF WireOK
<1>5. RowsOK'
  BY DEF RowsOK
<1>6. StreamInv'
  BY DEF NumbersOK, StreamInv, Following, Guarded
<1>7. ReadInv'
  BY DEF ReadInv
<1>8. RowInv'
  BY DEF RowInv, ShownReady, Covered, Following
<1>. QED
  BY <1>1, <1>2, <1>3, <1>4, <1>5, <1>6, <1>7, <1>8

(* The copy says ready only of a runner that is. *)
LEMMA SnapshotBeginKeeps ==
    ASSUME Inv, SnapshotBegin PROVE Inv'
<1>. USE DEF Inv, SnapshotBegin, Owns, Unlocked, RunnerReady, connVars, flagVars, syncVars, leaseVars,
         boundVars
<1>1. PlacesOK'
  BY DEF PlacesOK
<1>2. FlagsOK'
  BY DEF FlagsOK
<1>3. NumbersOK'
  BY DEF NumbersOK
<1>4. WireOK'
  BY DEF WireOK
<1>5. RowsOK'
  BY DEF NumbersOK, RowsOK, Rows
<1>6. StreamInv'
  BY DEF StreamInv, Following
<1>7. ReadInv'
  BY DEF ReadInv
<1>8. RowInv'
  BY DEF StreamInv, ReadInv, RowInv, Covered, Following, ShownReady
<1>. QED
  BY <1>1, <1>2, <1>3, <1>4, <1>5, <1>6, <1>7, <1>8

(* The copy is still covered when it is written: no callback can have run since. *)
LEMMA SnapshotCommitKeeps ==
    ASSUME Inv, SnapshotCommit PROVE Inv'
<1>. USE DEF Inv, SnapshotCommit, Unlocked, connVars, flagVars, syncVars, leaseVars, boundVars
<1>1. PlacesOK'
  BY DEF PlacesOK
<1>2. FlagsOK'
  BY DEF FlagsOK
<1>3. NumbersOK'
  BY DEF NumbersOK
<1>4. WireOK'
  BY DEF WireOK
<1>5. RowsOK'
  BY DEF RowsOK, Rows, NoSnap
<1>6. StreamInv'
  BY DEF StreamInv, Following
<1>7. ReadInv'
  BY DEF ReadInv
<1>8. RowInv'
  BY DEF StreamInv, ReadInv, RowInv, Covered, Following, ShownReady, NoSnap
<1>. QED
  BY <1>1, <1>2, <1>3, <1>4, <1>5, <1>6, <1>7, <1>8

LEMMA SnapshotFailsKeeps ==
    ASSUME Inv, SnapshotFails PROVE Inv'
<1>. USE DEF Inv, SnapshotFails, Unlocked, Cancel, Invalidate, Retract, Fault, connVars, flagVars,
         syncVars, leaseVars, boundVars
<1>1. PlacesOK'
  BY DEF PlacesOK
<1>2. FlagsOK'
  BY DEF FlagsOK
<1>3. NumbersOK'
  BY DEF NumbersOK
<1>4. WireOK'
  BY DEF WireOK
<1>5. RowsOK'
  BY DEF RowsOK, Rows, NoSnap
<1>6. StreamInv'
  BY DEF NumbersOK, StreamInv, Following, Guarded
<1>7. ReadInv'
  BY DEF ReadInv
<1>8. RowInv'
  BY DEF StreamInv, ReadInv, RowInv, Covered, Following, ShownReady, NoSnap
<1>. QED
  BY <1>1, <1>2, <1>3, <1>4, <1>5, <1>6, <1>7, <1>8

LEMMA RunnerAwaitedKeeps ==
    ASSUME Inv, RunnerAwaited PROVE Inv'
<1>. USE DEF Inv, RunnerAwaited, connVars, flagVars, syncVars, leaseVars, boundVars
<1>1. PlacesOK'
  BY DEF PlacesOK
<1>2. FlagsOK'
  BY DEF FlagsOK
<1>3. NumbersOK'
  BY DEF NumbersOK
<1>4. WireOK'
  BY DEF WireOK
<1>5. RowsOK'
  BY DEF RowsOK
<1>6. StreamInv'
  BY DEF StreamInv, Following
<1>7. ReadInv'
  BY DEF ReadInv
<1>8. RowInv'
  BY DEF RowInv, ShownReady, Covered, Following
<1>. QED
  BY <1>1, <1>2, <1>3, <1>4, <1>5, <1>6, <1>7, <1>8

LEMMA FinalSnapshotKeeps ==
    ASSUME Inv, FinalSnapshot PROVE Inv'
<1>. USE DEF Inv, FinalSnapshot, Owns, Unlocked, GenerationRow, Fault, connVars, flagVars, syncVars,
         leaseVars, boundVars
<1>1. PlacesOK'
  BY DEF PlacesOK
<1>2. FlagsOK'
  BY DEF FlagsOK
<1>3. NumbersOK'
  BY DEF NumbersOK
<1>4. WireOK'
  BY DEF WireOK
<1>5. RowsOK'
  <2>1. GenerationRow \in Rows
    BY DEF NumbersOK, Rows
  <2>2. row' = row \/ row' = GenerationRow
    OBVIOUS
  <2>. QED
    BY <2>1, <2>2 DEF RowsOK
<1>6. StreamInv'
  BY DEF StreamInv, Following
<1>7. ReadInv'
  BY DEF ReadInv
<1>8. RowInv'
  BY DEF RowInv, ShownReady, Covered, Following
<1>. QED
  BY <1>1, <1>2, <1>3, <1>4, <1>5, <1>6, <1>7, <1>8

LEMMA ReleaseKeeps ==
    ASSUME Inv, Release PROVE Inv'
<1>. USE DEF Inv, Release, Unlocked, Fault, connVars, flagVars, syncVars, leaseVars, boundVars
<1>1. PlacesOK'
  BY DEF PlacesOK
<1>2. FlagsOK'
  BY DEF FlagsOK
<1>3. NumbersOK'
  BY DEF NumbersOK
<1>4. WireOK'
  BY DEF WireOK
<1>5. RowsOK'
  BY DEF RowsOK
<1>6. StreamInv'
  BY DEF StreamInv, Following
<1>7. ReadInv'
  BY DEF ReadInv
<1>8. RowInv'
  BY DEF RowInv, ShownReady, Covered, Following
<1>. QED
  BY <1>1, <1>2, <1>3, <1>4, <1>5, <1>6, <1>7, <1>8

(* A dead worker's row is no longer spoken for. *)
LEMMA CrashKeeps ==
    ASSUME Inv, Crash PROVE Inv'
<1>. USE DEF Inv, Crash, FreshRunner, connVars, flagVars, syncVars, leaseVars, boundVars
<1>1. PlacesOK'
  BY DEF PlacesOK
<1>2. FlagsOK'
  BY DEF FlagsOK
<1>3. NumbersOK'
  BY DEF NumbersOK
<1>4. WireOK'
  BY EmptyFacts DEF WireOK
<1>5. RowsOK'
  BY DEF RowsOK, Rows, NoSnap
<1>6. StreamInv'
  BY EmptyFacts DEF StreamInv, Following, Guarded
<1>7. ReadInv'
  BY EmptyFacts DEF ReadInv
<1>8. RowInv'
  BY EmptyFacts DEF StreamInv, ReadInv, RowInv, Covered, Following, ShownReady, NoSnap
<1>. QED
  BY <1>1, <1>2, <1>3, <1>4, <1>5, <1>6, <1>7, <1>8

LEMMA ExpireKeeps ==
    ASSUME Inv, Expire PROVE Inv'
<1>. USE DEF Inv, Expire, Fault, connVars, flagVars, syncVars, leaseVars, boundVars
<1>1. PlacesOK'
  BY DEF PlacesOK
<1>2. FlagsOK'
  BY DEF FlagsOK
<1>3. NumbersOK'
  BY DEF NumbersOK
<1>4. WireOK'
  BY DEF WireOK
<1>5. RowsOK'
  BY DEF RowsOK
<1>6. StreamInv'
  BY DEF StreamInv, Following
<1>7. ReadInv'
  BY DEF ReadInv
<1>8. RowInv'
  BY DEF RowInv, ShownReady, Covered, Following
<1>. QED
  BY <1>1, <1>2, <1>3, <1>4, <1>5, <1>6, <1>7, <1>8

LEMMA Fenced ==
    ASSUME fence \in Nat PROVE \A g \in 1..(fence - 1) : fence # g
OBVIOUS

(* The lease row fences off a process of an earlier generation. *)
LEMMA LateWriteKeeps ==
    ASSUME Inv, LateWrite PROVE Inv'
<1>. USE DEF Inv, LateWrite, PersistInvalidation, Owns, Unlocked, connVars, flagVars, syncVars,
         leaseVars, boundVars
<1>0. row' = row
  BY Fenced DEF NumbersOK
<1>1. PlacesOK'
  BY <1>0 DEF PlacesOK
<1>2. FlagsOK'
  BY <1>0 DEF FlagsOK
<1>3. NumbersOK'
  BY <1>0 DEF NumbersOK
<1>4. WireOK'
  BY <1>0 DEF WireOK
<1>5. RowsOK'
  BY <1>0 DEF RowsOK
<1>6. StreamInv'
  BY <1>0 DEF StreamInv, Following
<1>7. ReadInv'
  BY <1>0 DEF ReadInv
<1>8. RowInv'
  BY <1>0 DEF RowInv, ShownReady, Covered, Following
<1>. QED
  BY <1>1, <1>2, <1>3, <1>4, <1>5, <1>6, <1>7, <1>8

-----------------------------------------------------------------------------
LEMMA InitHolds == Init => Inv
<1>. SUFFICES ASSUME Init PROVE Inv
  OBVIOUS
<1>. USE DEF Init, NoSnap
<1>1. PlacesOK /\ FlagsOK /\ NumbersOK
  BY DEF PlacesOK, FlagsOK, NumbersOK, Guarded
<1>2. WireOK /\ RowsOK
  BY EmptyFacts DEF WireOK, RowsOK, Rows
<1>3. StreamInv /\ ReadInv
  BY EmptyFacts DEF StreamInv, ReadInv, Following, Guarded
<1>4. RowInv
  BY DEF RowInv, ShownReady
<1>. QED
  BY <1>1, <1>2, <1>3, <1>4 DEF Inv

LEMMA StutterKeeps ==
    ASSUME Inv, UNCHANGED vars PROVE Inv'
<1>. USE DEF vars, connVars, flagVars, syncVars, leaseVars, boundVars
<1>1. PlacesOK' /\ FlagsOK' /\ NumbersOK' /\ WireOK' /\ RowsOK'
  BY DEF Inv, PlacesOK, FlagsOK, NumbersOK, WireOK, RowsOK
<1>2. StreamInv' /\ ReadInv'
  BY DEF Inv, StreamInv, ReadInv, Following
<1>3. RowInv'
  BY DEF Inv, RowInv, ShownReady, Covered, Following
<1>. QED
  BY <1>1, <1>2, <1>3 DEF Inv

LEMMA StepKeeps == Inv /\ [Next]_vars => Inv'
<1>. SUFFICES ASSUME Inv, [Next]_vars PROVE Inv'
  OBVIOUS
<1>1. CASE ReaderStep
  BY <1>1, ReceiveAckKeeps, ReceiveFrameKeeps, ReaderNotifiedKeeps DEF ReaderStep
<1>2. CASE RunStep
  BY <1>2, ConnectKeeps, AcknowledgedKeeps, SyncCompleteKeeps, WokenKeeps, ResyncKeeps, UnwoundKeeps,
     MainNotifiedKeeps, ReaderAwaitedKeeps, ClosedKeeps, BackedOffKeeps DEF RunStep
<1>3. CASE WorkerStep
  BY <1>3, ComposeKeeps, PublishKeeps, SnapshotBeginKeeps, SnapshotCommitKeeps, RunnerAwaitedKeeps,
     FinalSnapshotKeeps, ReleaseKeeps DEF WorkerStep
<1>4. CASE RaisedStep
  BY <1>4, GuardRaisesKeeps, SyncFailsKeeps, ReaderFailsKeeps, PublishFailsKeeps DEF RaisedStep
<1>5. CASE FaultStep
  BY <1>5, DropKeeps, ConnectFailsKeeps, ReaderNoteFailsKeeps, MainNoteFailsKeeps, SnapshotFailsKeeps,
     CrashKeeps, ExpireKeeps, LateWriteKeeps DEF FaultStep
<1>6. CASE VenueStep
  BY <1>6, VenueSubscribesKeeps, VenueChangeKeeps DEF VenueStep
<1>7. CASE Age
  BY <1>7, AgeKeeps
<1>8. CASE EndGeneration
  BY <1>8, EndGenerationKeeps
<1>9. CASE UNCHANGED vars
  BY <1>9, StutterKeeps
<1>. QED
  BY <1>1, <1>2, <1>3, <1>4, <1>5, <1>6, <1>7, <1>8, <1>9 DEF Next

(* The invariant holds of every behaviour: any channels, any number of         *)
(* changes, faults, reconnects and lease generations.                          *)
THEOREM Invariance == Spec => []Inv
<1>1. Init => Inv
  BY InitHolds
<1>2. Inv /\ [Next]_vars => Inv'
  BY StepKeeps
<1>. QED
  BY <1>1, <1>2, PTL DEF Spec

(* The runner calls itself ready only if a change it has not read has its      *)
(* frame under way on the connection (_synchronize_until_clean).               *)
THEOREM RunnerIsHonest == Spec => []RunnerInv
<1>1. Inv => RunnerInv
  <2>. SUFFICES ASSUME Inv PROVE RunnerInv
    OBVIOUS
  <2>1. TypeOK
    BY TypeParts DEF Inv
  <2>2. ReadyHidesNoChange
    BY DEF Inv, ReadInv, ReadyHidesNoChange, RunnerReady, FrameUnderWay, Framed
  <2>. QED
    BY <2>1, <2>2 DEF RunnerInv
<1>. QED
  BY <1>1, Invariance, PTL

(* The durable row of a live worker says ready only if nothing has changed     *)
(* since, or a task is on its way to retract it, although the row is written   *)
(* from a copy that may be old by then (_write_runtime_snapshot,               *)
(* _persist_private_invalidation).                                             *)
THEOREM DurableRowIsHonest == Spec => []DurableReadyIsBacked
<1>1. Inv => DurableReadyIsBacked
  <2>. SUFFICES ASSUME Inv, ShownReady, worker \in {"running", "ending"}
                PROVE  row.synced = venue \/ RetractionDue
    BY DEF DurableReadyIsBacked
  <2>1. Covered(row.synced)
    BY DEF Inv, RowInv
  <2>2. CASE stop \/ main \in {"unwind", "invalidating"}
    BY <2>2 DEF Inv, StreamInv, RetractionDue
  <2>3. CASE Following
    <3>1. Framed(wire) => FrameUnderWay
      BY DEF Framed, FrameUnderWay
    <3>2. reader \in {"reading", "notifying", "failed"}
      BY <2>3 DEF Inv, StreamInv, Following, Guarded
    <3>3. CASE reader = "reading"
      BY <2>1, <3>1, <3>3 DEF Covered, Inv, StreamInv, RetractionDue
    <3>4. CASE reader \in {"notifying", "failed"}
      BY <3>4 DEF Inv, StreamInv, RetractionDue
    <3>. QED
      BY <3>2, <3>3, <3>4
  <2>. QED
    BY <2>1, <2>2, <2>3 DEF Covered
<1>. QED
  BY <1>1, Invariance, PTL
=============================================================================
