----------------------------- MODULE KalshiFeed -----------------------------
(***************************************************************************)
(* The client of KalshiWSClient against a venue and a connection that may  *)
(* lose, repeat, delay and reorder frames, and that may hand the client    *)
(* frames of a connection it has already left.                             *)
(*                                                                         *)
(* The venue is external code: it is modelled from what the client expects  *)
(* of it.  It numbers the messages of one orderbook subscription 1, 2, ...  *)
(* and "hist" records the book after each number, so that a published view  *)
(* can be compared with the truth.  A venue that repeats itself, answers a  *)
(* snapshot request with or without a number of its own, fails a command,   *)
(* or sends frames that do not fit (VenueFault) is allowed.                 *)
(***************************************************************************)
EXTENDS KalshiWSClient, Sequences

CONSTANTS
    MaxSeq,         \* bound: sequence numbers the venue uses per subscription
    MaxQty,         \* bound: largest quantity the venue puts at a level
    MaxFaults       \* bound: faulty frames in one behaviour

ASSUME BoundsAssumption ==
    MaxSeq \in Nat \ {0} /\ MaxQty \in Nat /\ MaxFaults \in Nat

VARIABLES
    hist,           \* hist[n]: the venue's book after message n of this connection
    served,         \* channels this connection's venue side has acknowledged
    requests,       \* ids of the commands the venue has not answered yet
    sent,           \* every frame ever put on a connection; nothing is removed
    faults,         \* number of faulty frames so far
    observed        \* highest sequence of an orderbook frame of this epoch
                    \* that the client let through its identity checks

feedVars == <<hist, served, requests, sent, faults>>
vars == <<clientVars, feedVars, observed>>

(* Distinct sids, the same on every connection: stale frames look current. *)
Sid == [c \in Channels |-> CASE c = "orderbook_delta" -> 1
                             [] c = "user_orders" -> 2
                             [] c = "fill" -> 3]

VenueBooks == [Levels -> 0..MaxQty]

SubscribedFrame(i, c) ==
    [conn |-> epoch, type |-> "subscribed", id |-> i, channel |-> c, sid |-> Sid[c]]
SnapshotFrame(s, ours, n, b) ==
    [conn |-> epoch, type |-> "orderbook_snapshot", sid |-> s, ours |-> ours,
     seq |-> n, levels |-> b]
DeltaFrame(s, ours, n, l, d) ==
    [conn |-> epoch, type |-> "orderbook_delta", sid |-> s, ours |-> ours,
     seq |-> n, level |-> l, change |-> d]
PrivateFrame(c, s) ==
    [conn |-> epoch, type |-> IF c = "user_orders" THEN "user_order" ELSE "fill", sid |-> s]
ErrorFrame(i) == [conn |-> epoch, type |-> "error", id |-> i]
MalformedFrame == [conn |-> epoch, type |-> "malformed"]

BookSid == Sid["orderbook_delta"]
ForeignSid == 4
Snapshot(n, b) == SnapshotFrame(BookSid, TRUE, n, b)
Delta(n, l, d) == DeltaFrame(BookSid, TRUE, n, l, d)

(* Frames no correct stream contains, and that the client can tell: wrong   *)
(* market, wrong sid, a delta below zero, an acknowledgement of no command, *)
(* a payload that does not parse.                                           *)
FaultFrames ==
    LET n == Len(hist) + 1
        d == -(MaxQty + 1)
    IN  {MalformedFrame, PrivateFrame("fill", ForeignSid), SubscribedFrame(commandCounter + 1, "fill")}
        \cup {DeltaFrame(BookSid, ours, n, l, d) : ours \in BOOLEAN, l \in Levels}
        \cup {DeltaFrame(ForeignSid, TRUE, n, l, d) : l \in Levels}
        \cup {SnapshotFrame(BookSid, FALSE, n, hist[Len(hist)]),
              SnapshotFrame(ForeignSid, TRUE, n, hist[Len(hist)])}

Send(fs) == sent' = sent \cup fs

Init ==
    /\ ClientInit
    /\ hist = <<EmptyBook>> /\ served = {} /\ requests = {} /\ sent = {}
    /\ faults = 0 /\ observed = 0

-----------------------------------------------------------------------------
(* The caller opens a connection: the venue starts a fresh numbering from    *)
(* whatever the book is by then.                                             *)
Connect(ts) ==
    /\ Begin(ts)
    /\ \E b \in VenueBooks : hist' = <<b>>
    /\ served' = {}
    /\ requests' = {}
    /\ observed' = 0
    /\ UNCHANGED <<sent, faults>>

Disconnect ==
    /\ TerminateEpoch
    /\ UNCHANGED <<feedVars, observed>>

(* Any frame ever sent, on any connection, may arrive now. *)
OrderbookFrame(f) == f.type \in {"orderbook_snapshot", "orderbook_delta"}

Deliver(f) ==
    /\ Receive(f)
    /\ requests' = IF outcome' = "recovery" THEN requests \cup {commandCounter'} ELSE requests
    /\ observed' = IF Current(f) /\ OrderbookFrame(f) /\ epoch' # 0
                   THEN Max2(observed, f.seq) ELSE observed
    /\ UNCHANGED <<hist, served, sent, faults>>

(* The venue accepts a subscription; the orderbook one starts with a snapshot. *)
VenueSubscribe(c) ==
    /\ epoch # 0 /\ c \notin served /\ c \in pending
    /\ served' = served \cup {c}
    /\ Send({SubscribedFrame(commandId[c], c)} \cup
            (IF c = "orderbook_delta" THEN {Snapshot(Len(hist), hist[Len(hist)])} ELSE {}))
    /\ UNCHANGED <<clientVars, hist, requests, faults, observed>>

VenueDelta(l, d) ==
    LET book == hist[Len(hist)] IN
    /\ epoch # 0 /\ "orderbook_delta" \in served /\ Len(hist) < MaxSeq
    /\ d # 0 /\ book[l] + d \in 0..MaxQty
    /\ hist' = Append(hist, [book EXCEPT ![l] = @ + d])
    /\ Send({Delta(Len(hist) + 1, l, d)})
    /\ UNCHANGED <<clientVars, served, requests, faults, observed>>

(* get_snapshot is answered with the current number or with one of its own. *)
VenueSnapshot(i) ==
    LET book == hist[Len(hist)] IN
    /\ epoch # 0 /\ i \in requests
    /\ requests' = requests \ {i}
    /\ \/ /\ hist' = hist
          /\ Send({Snapshot(Len(hist), book)})
       \/ /\ Len(hist) < MaxSeq
          /\ hist' = Append(hist, book)
          /\ Send({Snapshot(Len(hist) + 1, book)})
    /\ UNCHANGED <<clientVars, served, faults, observed>>

VenueError(i) ==
    /\ epoch # 0 /\ faults < MaxFaults
    /\ i \in requests \cup {commandId[c] : c \in pending \ served}
    /\ faults' = faults + 1
    /\ Send({ErrorFrame(i)})
    /\ UNCHANGED <<clientVars, hist, served, requests, observed>>

VenuePrivate(c) ==
    /\ epoch # 0 /\ c \in served
    /\ Send({PrivateFrame(c, Sid[c])})
    /\ UNCHANGED <<clientVars, hist, served, requests, faults, observed>>

VenueFault ==
    /\ epoch # 0 /\ faults < MaxFaults
    /\ faults' = faults + 1
    /\ \E f \in FaultFrames : Send({f})
    /\ UNCHANGED <<clientVars, hist, served, requests, observed>>

Next ==
    \/ \E ts \in Timestamps : Connect(ts)
    \/ Disconnect
    \/ \E f \in sent : Deliver(f)
    \/ \E c \in Channels : VenueSubscribe(c)
    \/ \E l \in Levels, d \in -MaxQty..MaxQty : VenueDelta(l, d)
    \/ \E i \in requests : VenueSnapshot(i)
    \/ \E i \in requests \cup {commandId[c] : c \in Channels} : VenueError(i)
    \/ \E c \in {"user_orders", "fill"} : VenuePrivate(c)
    \/ VenueFault

Spec == Init /\ [][Next]_vars

-----------------------------------------------------------------------------
TypeOK ==
    /\ ClientTypeOK
    /\ hist \in Seq(Books) /\ Len(hist) > 0
    /\ served \subseteq Channels
    /\ requests \subseteq Nat
    /\ sent \subseteq Frames
    /\ faults \in Nat /\ observed \in Nat

(* A published view is the venue's own book at the number the view carries, *)
(* whatever was lost, repeated, reordered or left over from an earlier      *)
(* connection (orderbook_view, kalshi_v2_ws_lifecycle.py).                  *)
PublishedBookIsVenueBook ==
    Publishable => /\ view.seq \in 1..Len(hist)
                   /\ view.levels = hist[view.seq]

(* Publication never resumes behind something the client has already been  *)
(* shown in this epoch: the watermark kept while the book is invalid makes *)
(* a late recovery snapshot useless (_minimum_recovery_sequence).           *)
NoPublicationBelowObserved == Publishable => view.seq >= observed

(* One get_snapshot request is open exactly while a once valid book is     *)
(* invalid: no gap goes unrequested and none is requested twice            *)
(* (_recovery_emitted in the session, _recovery in the book).              *)
RecoveryRequestedOncePerGap ==
    epoch # 0 => (recoveryEmitted <=> (view.seq # 0 /\ ~valid))

(* Within one epoch the reconstructed book never goes back to an earlier   *)
(* sequence, valid or not, and a valid book moves one number at a time     *)
(* (apply_snapshot, apply_delta).                                          *)
SequenceNeverRewinds ==
    [][epoch # 0 /\ epoch' = epoch =>
          /\ view'.seq >= view.seq
          /\ valid /\ valid' => view'.seq <= view.seq + 1]_vars

-----------------------------------------------------------------------------
(* The parts of the inductive invariant behind the four properties above. *)

(* Epoch ids: one live epoch at most, always the newest. *)
EpochInv ==
    /\ sessionEpoch = epochCounter
    /\ epoch \in {0, epochCounter}
    /\ \A f \in sent : f.conn <= epochCounter

(* What the frames of the newest connection say is what the venue recorded; *)
(* a delta that is not in its history is one no level can absorb.            *)
TrueSnapshot(f) == f.seq \in 1..Len(hist) /\ f.levels = hist[f.seq]
TrueDelta(f) ==
    \/ f.change < -MaxQty
    \/ /\ f.seq \in 2..Len(hist)
       /\ hist[f.seq] = [hist[f.seq - 1] EXCEPT ![f.level] = @ + f.change]

WireInv ==
    /\ \A n \in 1..Len(hist) : hist[n] \in VenueBooks
    /\ \A f \in sent :
          f.conn = epochCounter =>
            /\ f.type = "subscribed" => f.sid = Sid[f.channel]
            /\ f.type = "orderbook_snapshot" => f.seq > 0
            /\ f.type = "orderbook_snapshot" /\ f.ours /\ f.sid = BookSid
                  => TrueSnapshot(f)
            /\ f.type = "orderbook_delta" /\ f.ours /\ f.sid = BookSid
                  => TrueDelta(f)

(* What the client keeps is bound to the live epoch and true. *)
BookInv ==
    /\ epoch = 0 => view.seq = 0 /\ early.seq = 0 /\ ~Bound
    /\ acknowledged["orderbook_delta"] \in {0, BookSid}
    /\ Bound => early.seq = 0
    /\ view.seq # 0 => Bound
    /\ early.seq # 0 /\ early.sid = BookSid => TrueSnapshot(early)
    /\ valid => TrueSnapshot(view)

(* An invalid book is exactly a book with an open recovery and a watermark. *)
RecoveryInv ==
    /\ recovery <=> (view.seq # 0 /\ ~valid)
    /\ recovery <=> minRecovery # 0
    /\ epoch # 0 => (recoveryEmitted <=> recovery)

(* The watermark dominates everything observed while the book is invalid. *)
ObservedInv ==
    epoch # 0 =>
        /\ view.seq = 0 => observed = early.seq
        /\ valid => view.seq >= observed
        /\ recovery => minRecovery > view.seq /\ minRecovery >= observed

(* Together they are inductive: every step of the client, of the venue and  *)
(* of the connection preserves them (lifecycle and session as a whole).     *)
FeedInv == EpochInv /\ WireInv /\ BookInv /\ RecoveryInv /\ ObservedInv
=============================================================================
