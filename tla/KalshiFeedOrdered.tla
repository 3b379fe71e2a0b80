-------------------------- MODULE KalshiFeedOrdered --------------------------
(***************************************************************************)
(* KalshiFeed over one ordered, lossless WebSocket: frames arrive in the   *)
(* order they were queued.  The venue itself may still skip a delta or     *)
(* queue one twice, so gaps occur; a get_snapshot answer takes a number of *)
(* its own.  Under these assumptions the client must become publishable    *)
(* again, although it asks for a snapshot only once.                       *)
(***************************************************************************)
EXTENDS KalshiFeed

CONSTANTS MaxDelta      \* bound: the last number the venue gives to a delta

VARIABLES queue         \* frames on the open connection

orderedVars == <<vars, queue>>

OrderedInit == Init /\ queue = <<>>

OrderedConnect(ts) == Connect(ts) /\ queue' = <<>>
OrderedDisconnect == Disconnect /\ queue' = <<>>

OrderedDeliver ==
    /\ queue # <<>>
    /\ Deliver(Head(queue))
    /\ queue' = IF epoch' = 0 THEN <<>> ELSE Tail(queue)

OrderedSubscribe(c) ==
    /\ VenueSubscribe(c)
    /\ queue' = queue \o (IF c = "orderbook_delta"
                          THEN <<SubscribedFrame(commandId[c], c), Snapshot(Len(hist), hist[Len(hist)])>>
                          ELSE <<SubscribedFrame(commandId[c], c)>>)

OrderedDelta(l, d) ==
    /\ Len(hist) < MaxDelta
    /\ VenueDelta(l, d)
    /\ queue' = Append(queue, Delta(Len(hist) + 1, l, d))

(* The venue takes a number and never queues the frame. *)
SkippedDelta(l, d) ==
    /\ Len(hist) < MaxDelta
    /\ faults < MaxFaults
    /\ LET book == hist[Len(hist)] IN
       /\ epoch # 0 /\ "orderbook_delta" \in served
       /\ d # 0 /\ book[l] + d \in 0..MaxQty
       /\ hist' = Append(hist, [book EXCEPT ![l] = @ + d])
    /\ faults' = faults + 1
    /\ UNCHANGED <<clientVars, served, requests, sent, observed, queue>>

(* The venue queues a delta of this connection a second time. *)
RepeatedDelta(f) ==
    /\ epoch # 0 /\ f.conn = epoch /\ f.type = "orderbook_delta"
    /\ faults < MaxFaults
    /\ faults' = faults + 1
    /\ queue' = Append(queue, f)
    /\ UNCHANGED <<clientVars, hist, served, requests, sent, observed>>

OrderedSnapshot(i) ==
    /\ Len(hist) < MaxSeq
    /\ VenueSnapshot(i)
    /\ Len(hist') = Len(hist) + 1
    /\ queue' = Append(queue, Snapshot(Len(hist) + 1, hist[Len(hist)]))

OrderedNext ==
    \/ \E ts \in Timestamps : OrderedConnect(ts)
    \/ OrderedDisconnect
    \/ OrderedDeliver
    \/ \E c \in Channels : OrderedSubscribe(c)
    \/ \E l \in Levels, d \in -MaxQty..MaxQty : OrderedDelta(l, d) \/ SkippedDelta(l, d)
    \/ \E f \in sent : RepeatedDelta(f)
    \/ \E i \in requests : OrderedSnapshot(i)

(* The caller reads its socket until it ends and the venue answers commands; *)
(* nothing obliges the market to trade or the caller to connect.             *)
Fairness ==
    /\ WF_orderedVars(OrderedDeliver)
    /\ \A c \in Channels : WF_orderedVars(OrderedSubscribe(c))
    /\ WF_orderedVars(\E i \in requests : OrderedSnapshot(i))

OrderedSpec == OrderedInit /\ [][OrderedNext]_orderedVars /\ Fairness

-----------------------------------------------------------------------------
(* Whenever a connection is open, the book is published sooner or later or  *)
(* the epoch ends: neither the order of acknowledgements and snapshot nor a *)
(* gap leaves an open connection unpublished for ever (session.receive asks *)
(* for recovery once and never again for the same gap).                     *)
EventuallyPublished == (epoch # 0) ~> (Publishable \/ epoch = 0)

(* On an ordered connection without foreign frames nothing the venue does  *)
(* ends the epoch: every frame is accepted, ignored, or answered by a      *)
(* recovery request (receive_snapshot, receive_delta).                     *)
OrderedStreamNeverTerminates == outcome # "terminated"
=============================================================================
