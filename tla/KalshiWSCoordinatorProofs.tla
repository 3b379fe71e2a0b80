---------------------- MODULE KalshiWSCoordinatorProofs ----------------------
(***************************************************************************)
(* Proofs about KalshiWSCoordinator, for any number of start, receive_once *)
(* and disconnect calls and any number of cancellations.  CoordInv is      *)
(* inductive together with TypeOK: one lemma per step of a task, and the   *)
(* safety properties follow.                                               *)
(***************************************************************************)
EXTENDS KalshiWSCoordinator, TLAPS

(* The bookkeeping every step shares. *)
Inv == TypeOK /\ CoordInv

-----------------------------------------------------------------------------
(* start *)
LEMMA StartInv ==
    ASSUME Inv, NEW t \in Starts,
           Start(t)
    PROVE  Inv'
<1> USE CallsAssumption DEF Calls, Inv, TypeOK, CoordInv, sendVars, transportVars
<1>1. TypeOK'
  BY DEF Start, Move, Places, Results, TransportInv, TransportClosedOnce
<1>2. PlaceInv' /\ TransitionInv' /\ LiveEpochIsOwned'
  BY DEF Start, Move, PlaceInv, TransitionInv, LiveEpochIsOwned, InTransition
<1>3. TransportInv' /\ TargetInv'
  BY DEF Start, Move, PlaceInv, TransitionInv, TransportInv, TransportClosedOnce,
         TargetInv, InTransition
<1>4. RecoverySendIsCurrent' /\ OneReader'
  BY DEF Start, Move, PlaceInv, TransitionInv, RecoverySendIsCurrent, OneReader,
         InTransition
<1> QED BY <1>1, <1>2, <1>3, <1>4

(* A start that fails or is cancelled closes its candidate and its epoch. *)
LEMMA GiveUpInv ==
    ASSUME Inv, NEW t \in Starts, NEW how \in Results,
           pc[t] \in {"lock", "closeOld", "sweep", "sendLock", "subscribing"},
           GiveUp(t, how)
    PROVE  Inv'
<1> USE CallsAssumption DEF Calls, Inv, TypeOK, CoordInv, sendVars, transportVars
<1>1. TypeOK'
  BY DEF GiveUp, Move, CloseTransport, Places, Results, TransportInv,
         TransportClosedOnce
<1>2. PlaceInv' /\ TransitionInv' /\ LiveEpochIsOwned'
  BY DEF GiveUp, Move, CloseTransport, PlaceInv, TransitionInv, LiveEpochIsOwned,
         InTransition
<1>3. TransportInv' /\ TargetInv'
  BY DEF GiveUp, Move, CloseTransport, PlaceInv, TransitionInv, TransportInv,
         TransportClosedOnce, TargetInv, InTransition
<1>4. RecoverySendIsCurrent' /\ OneReader'
  BY DEF GiveUp, Move, CloseTransport, PlaceInv, TransitionInv, RecoverySendIsCurrent,
         OneReader, InTransition
<1> QED BY <1>1, <1>2, <1>3, <1>4

LEMMA StartBeginInv ==
    ASSUME Inv, NEW t \in Starts,
           StartBegin(t)
    PROVE  Inv'
<1> USE CallsAssumption DEF Calls, Inv, TypeOK, CoordInv, sendVars, transportVars
<1>1. TypeOK'
  BY DEF StartBegin, Move, Places, Results, TransportInv, TransportClosedOnce
<1>2. PlaceInv' /\ TransitionInv' /\ LiveEpochIsOwned'
  BY DEF StartBegin, Move, PlaceInv, TransitionInv, LiveEpochIsOwned, InTransition
<1>3. TransportInv' /\ TargetInv'
  BY DEF StartBegin, Move, PlaceInv, TransitionInv, TransportInv, TransportClosedOnce,
         TargetInv, InTransition
<1>4. RecoverySendIsCurrent' /\ OneReader'
  BY DEF StartBegin, Move, PlaceInv, TransitionInv, RecoverySendIsCurrent, OneReader,
         InTransition
<1> QED BY <1>1, <1>2, <1>3, <1>4

LEMMA StartSubscribeInv ==
    ASSUME Inv, NEW t \in Starts,
           StartSubscribe(t)
    PROVE  Inv'
<1> USE CallsAssumption DEF Calls, Inv, TypeOK, CoordInv, sendVars, transportVars
<1>1. TypeOK'
  BY DEF StartSubscribe, Move, Places, Results, TransportInv, TransportClosedOnce
<1>2. PlaceInv' /\ TransitionInv' /\ LiveEpochIsOwned'
  BY DEF StartSubscribe, Move, PlaceInv, TransitionInv, LiveEpochIsOwned, InTransition
<1>3. TransportInv' /\ TargetInv'
  BY DEF StartSubscribe, Move, PlaceInv, TransitionInv, TransportInv,
         TransportClosedOnce, TargetInv, InTransition
<1>4. RecoverySendIsCurrent' /\ OneReader'
  BY DEF StartSubscribe, Move, PlaceInv, TransitionInv, RecoverySendIsCurrent,
         OneReader, InTransition
<1> QED BY <1>1, <1>2, <1>3, <1>4

LEMMA StartPublishInv ==
    ASSUME Inv, NEW t \in Starts,
           StartPublish(t)
    PROVE  Inv'
<1> USE CallsAssumption DEF Calls, Inv, TypeOK, CoordInv, sendVars, transportVars
<1>0. active = None
  BY DEF StartPublish, TransitionInv, InTransition
<1>1. TypeOK'
  BY <1>0 DEF StartPublish, Move, End, Places, Results, TransportInv,
         TransportClosedOnce
<1>2. PlaceInv' /\ TransitionInv' /\ LiveEpochIsOwned'
  BY <1>0 DEF StartPublish, Move, End, PlaceInv, TransitionInv, LiveEpochIsOwned,
         InTransition
<1>3. TransportInv' /\ TargetInv'
  BY <1>0 DEF StartPublish, Move, End, PlaceInv, TransitionInv, TransportInv,
         TransportClosedOnce, TargetInv, InTransition
<1>4. RecoverySendIsCurrent' /\ OneReader'
  BY <1>0 DEF StartPublish, Move, End, PlaceInv, TransitionInv, RecoverySendIsCurrent,
         OneReader, InTransition, TargetInv
<1> QED BY <1>1, <1>2, <1>3, <1>4

LEMMA StartClosedSelfInv ==
    ASSUME Inv, NEW t \in Starts,
           StartClosedSelf(t)
    PROVE  Inv'
<1> USE CallsAssumption DEF Calls, Inv, TypeOK, CoordInv, sendVars, transportVars
<1>0. /\ pc' = [pc EXCEPT ![t] = "done"] /\ pc[t] = "closing"
      /\ \E how \in Results : result' = [result EXCEPT ![t] = how]
  BY DEF StartClosedSelf, End, Move, Results
<1>1. TypeOK'
  BY <1>0 DEF StartClosedSelf, Places, Results, TransportInv, TransportClosedOnce
<1>2. PlaceInv' /\ TransitionInv' /\ LiveEpochIsOwned'
  BY <1>0 DEF StartClosedSelf, PlaceInv, TransitionInv, LiveEpochIsOwned, InTransition
<1>3. TransportInv' /\ TargetInv'
  BY <1>0 DEF StartClosedSelf, PlaceInv, TransitionInv, TransportInv,
         TransportClosedOnce, TargetInv, InTransition
<1>4. RecoverySendIsCurrent' /\ OneReader'
  BY <1>0 DEF StartClosedSelf, PlaceInv, TransitionInv, RecoverySendIsCurrent,
         OneReader, InTransition
<1> QED BY <1>1, <1>2, <1>3, <1>4

-----------------------------------------------------------------------------
(* transport.close and _send_recovery, and cancellation *)
LEMMA CloseTaskInv ==
    ASSUME Inv, NEW t \in Starts,
           CloseTask(t)
    PROVE  Inv'
<1> USE CallsAssumption DEF Calls, Inv, TypeOK, CoordInv, sendVars, transportVars
<1>1. TypeOK'
  BY DEF CloseTask, taskVars, Places, Results, TransportInv, TransportClosedOnce
<1>2. PlaceInv' /\ TransitionInv' /\ LiveEpochIsOwned'
  BY DEF CloseTask, taskVars, PlaceInv, TransitionInv, LiveEpochIsOwned, InTransition
<1>3. TransportInv' /\ TargetInv'
  BY DEF CloseTask, taskVars, PlaceInv, TransitionInv, TransportInv,
         TransportClosedOnce, TargetInv, InTransition
<1>4. RecoverySendIsCurrent' /\ OneReader'
  BY DEF CloseTask, taskVars, PlaceInv, TransitionInv, RecoverySendIsCurrent, OneReader,
         InTransition
<1> QED BY <1>1, <1>2, <1>3, <1>4

LEMMA SendInv ==
    ASSUME Inv, NEW t \in Starts,
           SendStart(t) \/ SendOver(t) \/ SendCancelled(t)
    PROVE  Inv'
<1> USE CallsAssumption DEF Calls, Inv, TypeOK, CoordInv, sendVars, transportVars
<1>1. TypeOK'
  BY DEF SendStart, SendOver, SendCancelled, taskVars, Places, Results, TransportInv,
         TransportClosedOnce
<1>2. PlaceInv' /\ TransitionInv' /\ LiveEpochIsOwned'
  BY DEF SendStart, SendOver, SendCancelled, taskVars, PlaceInv, TransitionInv,
         LiveEpochIsOwned, InTransition
<1>3. TransportInv' /\ TargetInv'
  BY DEF SendStart, SendOver, SendCancelled, taskVars, PlaceInv, TransitionInv,
         TransportInv, TransportClosedOnce, TargetInv, InTransition
<1>4. RecoverySendIsCurrent' /\ OneReader'
  BY DEF SendStart, SendOver, SendCancelled, taskVars, PlaceInv, TransitionInv,
         RecoverySendIsCurrent, OneReader, InTransition
<1> QED BY <1>1, <1>2, <1>3, <1>4

LEMMA CancelInv ==
    ASSUME Inv, NEW c \in Calls,
           Cancel(c)
    PROVE  Inv'
<1> USE CallsAssumption DEF Calls, Inv, TypeOK, CoordInv, sendVars, transportVars
<1>0. cancelled' \in [Calls -> BOOLEAN] /\ sendCancelled' \in [Starts -> BOOLEAN]
  BY DEF Cancel
<1>1. TypeOK'
  BY <1>0 DEF Cancel, Places, Results, TransportInv, TransportClosedOnce
<1>2. PlaceInv' /\ TransitionInv' /\ LiveEpochIsOwned'
  BY <1>0 DEF Cancel, PlaceInv, TransitionInv, LiveEpochIsOwned, InTransition
<1>3. TransportInv' /\ TargetInv'
  BY <1>0 DEF Cancel, PlaceInv, TransitionInv, TransportInv, TransportClosedOnce,
         TargetInv, InTransition
<1>4. RecoverySendIsCurrent' /\ OneReader'
  BY <1>0 DEF Cancel, PlaceInv, TransitionInv, RecoverySendIsCurrent, OneReader,
         InTransition
<1> QED BY <1>1, <1>2, <1>3, <1>4

LEMMA AbsorbCancelInv ==
    ASSUME Inv, NEW c \in Calls,
           AbsorbCancel(c)
    PROVE  Inv'
<1> USE CallsAssumption DEF Calls, Inv, TypeOK, CoordInv, sendVars, transportVars
<1>1. TypeOK'
  BY DEF AbsorbCancel, Places, Results, TransportInv, TransportClosedOnce
<1>2. PlaceInv' /\ TransitionInv' /\ LiveEpochIsOwned'
  BY DEF AbsorbCancel, PlaceInv, TransitionInv, LiveEpochIsOwned, InTransition
<1>3. TransportInv' /\ TargetInv'
  BY DEF AbsorbCancel, PlaceInv, TransitionInv, TransportInv, TransportClosedOnce,
         TargetInv, InTransition
<1>4. RecoverySendIsCurrent' /\ OneReader'
  BY DEF AbsorbCancel, PlaceInv, TransitionInv, RecoverySendIsCurrent, OneReader,
         InTransition
<1> QED BY <1>1, <1>2, <1>3, <1>4

-----------------------------------------------------------------------------
(* receive_once *)
LEMMA ReceiveOnceInv ==
    ASSUME Inv, NEW r \in Readers, NEW t \in Starts,
           ReceiveOnce(r, t)
    PROVE  Inv'
<1> USE CallsAssumption DEF Calls, Inv, TypeOK, CoordInv, sendVars, transportVars
<1>1. TypeOK'
  BY DEF ReceiveOnce, Move, End, Places, Results, TransportInv, TransportClosedOnce
<1>2. PlaceInv' /\ TransitionInv' /\ LiveEpochIsOwned'
  BY DEF ReceiveOnce, Move, End, PlaceInv, TransitionInv, LiveEpochIsOwned, InTransition
<1>3. TransportInv' /\ TargetInv'
  BY DEF ReceiveOnce, Move, End, PlaceInv, TransitionInv, TransportInv,
         TransportClosedOnce, TargetInv, InTransition
<1>4. RecoverySendIsCurrent' /\ OneReader'
  BY DEF ReceiveOnce, Move, End, PlaceInv, TransitionInv, RecoverySendIsCurrent,
         OneReader, InTransition
<1> QED BY <1>1, <1>2, <1>3, <1>4

LEMMA ReceiveRegisterInv ==
    ASSUME Inv, NEW r \in Readers,
           ReceiveRegister(r)
    PROVE  Inv'
<1> USE CallsAssumption DEF Calls, Inv, TypeOK, CoordInv, sendVars, transportVars
<1>1. TypeOK'
  BY DEF ReceiveRegister, Move, End, ReceiveFree, Reading, Places, Results,
         TransportInv, TransportClosedOnce
<1>2. PlaceInv' /\ TransitionInv' /\ LiveEpochIsOwned'
  BY DEF ReceiveRegister, Move, End, ReceiveFree, Reading, PlaceInv, TransitionInv,
         LiveEpochIsOwned, InTransition
<1>3. TransportInv' /\ TargetInv'
  BY DEF ReceiveRegister, Move, End, ReceiveFree, Reading, PlaceInv, TransitionInv,
         TransportInv, TransportClosedOnce, TargetInv, InTransition
<1>4. RecoverySendIsCurrent' /\ OneReader'
  BY DEF ReceiveRegister, Move, End, ReceiveFree, Reading, PlaceInv, TransitionInv,
         RecoverySendIsCurrent, OneReader, InTransition
<1> QED BY <1>1, <1>2, <1>3, <1>4

LEMMA RouteFrameInv ==
    ASSUME Inv, NEW r \in Readers,
           RouteFrame(r)
    PROVE  Inv'
<1> USE CallsAssumption DEF Calls, Inv, TypeOK, CoordInv, sendVars, transportVars
<1>1. TypeOK'
  BY DEF RouteFrame, Move, End, Places, Results, TransportInv, TransportClosedOnce
<1>2. PlaceInv' /\ TransitionInv' /\ LiveEpochIsOwned'
  BY DEF RouteFrame, Move, End, PlaceInv, TransitionInv, LiveEpochIsOwned, InTransition
<1>3. TransportInv' /\ TargetInv'
  BY DEF RouteFrame, Move, End, PlaceInv, TransitionInv, TransportInv,
         TransportClosedOnce, TargetInv, InTransition
<1>4. RecoverySendIsCurrent' /\ OneReader'
  BY DEF RouteFrame, Move, End, PlaceInv, TransitionInv, RecoverySendIsCurrent,
         OneReader, InTransition
<1> QED BY <1>1, <1>2, <1>3, <1>4

LEMMA RouteRecoveryInv ==
    ASSUME Inv, NEW r \in Readers,
           RouteRecovery(r)
    PROVE  Inv'
<1> USE CallsAssumption DEF Calls, Inv, TypeOK, CoordInv, sendVars, transportVars
<1>1. TypeOK'
  BY DEF RouteRecovery, Move, Places, Results, TransportInv, TransportClosedOnce
<1>2. PlaceInv' /\ TransitionInv' /\ LiveEpochIsOwned'
  BY DEF RouteRecovery, Move, PlaceInv, TransitionInv, LiveEpochIsOwned, InTransition
<1>3. TransportInv' /\ TargetInv'
  BY DEF RouteRecovery, Move, PlaceInv, TransitionInv, TransportInv,
         TransportClosedOnce, TargetInv, InTransition
<1>4. RecoverySendIsCurrent' /\ OneReader'
  BY DEF RouteRecovery, Move, PlaceInv, TransitionInv, RecoverySendIsCurrent, OneReader,
         InTransition
<1> QED BY <1>1, <1>2, <1>3, <1>4

LEMMA ReceiveClosedInv ==
    ASSUME Inv, NEW r \in Readers,
           ReceiveClosed(r)
    PROVE  Inv'
<1> USE CallsAssumption DEF Calls, Inv, TypeOK, CoordInv, sendVars, transportVars
<1>1. TypeOK'
  BY DEF ReceiveClosed, Move, End, Places, Results, TransportInv, TransportClosedOnce
<1>2. PlaceInv' /\ TransitionInv' /\ LiveEpochIsOwned'
  BY DEF ReceiveClosed, Move, End, PlaceInv, TransitionInv, LiveEpochIsOwned,
         InTransition
<1>3. TransportInv' /\ TargetInv'
  BY DEF ReceiveClosed, Move, End, PlaceInv, TransitionInv, TransportInv,
         TransportClosedOnce, TargetInv, InTransition
<1>4. RecoverySendIsCurrent' /\ OneReader'
  BY DEF ReceiveClosed, Move, End, PlaceInv, TransitionInv, RecoverySendIsCurrent,
         OneReader, InTransition
<1> QED BY <1>1, <1>2, <1>3, <1>4

-----------------------------------------------------------------------------
(* disconnect *)
LEMMA DisconnectInv ==
    ASSUME Inv, NEW d \in Stoppers, NEW t \in Starts,
           Disconnect(d, t)
    PROVE  Inv'
<1> USE CallsAssumption DEF Calls, Inv, TypeOK, CoordInv, sendVars, transportVars
<1>1. TypeOK'
  BY DEF Disconnect, Move, End, Places, Results, TransportInv, TransportClosedOnce
<1>2. PlaceInv' /\ TransitionInv' /\ LiveEpochIsOwned'
  BY DEF Disconnect, Move, End, PlaceInv, TransitionInv, LiveEpochIsOwned, InTransition
<1>3. TransportInv' /\ TargetInv'
  BY DEF Disconnect, Move, End, PlaceInv, TransitionInv, TransportInv,
         TransportClosedOnce, TargetInv, InTransition
<1>4. RecoverySendIsCurrent' /\ OneReader'
  BY DEF Disconnect, Move, End, PlaceInv, TransitionInv, RecoverySendIsCurrent,
         OneReader, InTransition
<1> QED BY <1>1, <1>2, <1>3, <1>4

LEMMA DisconnectClosedInv ==
    ASSUME Inv, NEW d \in Stoppers,
           DisconnectClosed(d)
    PROVE  Inv'
<1> USE CallsAssumption DEF Calls, Inv, TypeOK, CoordInv, sendVars, transportVars
<1>1. TypeOK'
  BY DEF DisconnectClosed, Move, End, Places, Results, TransportInv, TransportClosedOnce
<1>2. PlaceInv' /\ TransitionInv' /\ LiveEpochIsOwned'
  BY DEF DisconnectClosed, Move, End, PlaceInv, TransitionInv, LiveEpochIsOwned,
         InTransition
<1>3. TransportInv' /\ TargetInv'
  BY DEF DisconnectClosed, Move, End, PlaceInv, TransitionInv, TransportInv,
         TransportClosedOnce, TargetInv, InTransition
<1>4. RecoverySendIsCurrent' /\ OneReader'
  BY DEF DisconnectClosed, Move, End, PlaceInv, TransitionInv, RecoverySendIsCurrent,
         OneReader, InTransition
<1> QED BY <1>1, <1>2, <1>3, <1>4

LEMMA DisconnectSweptInv ==
    ASSUME Inv, NEW d \in Stoppers,
           DisconnectSwept(d)
    PROVE  Inv'
<1> USE CallsAssumption DEF Calls, Inv, TypeOK, CoordInv, sendVars, transportVars
<1>1. TypeOK'
  BY DEF DisconnectSwept, Move, End, Places, Results, TransportInv, TransportClosedOnce
<1>2. PlaceInv' /\ TransitionInv' /\ LiveEpochIsOwned'
  BY DEF DisconnectSwept, Move, End, PlaceInv, TransitionInv, LiveEpochIsOwned,
         InTransition
<1>3. TransportInv' /\ TargetInv'
  BY DEF DisconnectSwept, Move, End, PlaceInv, TransitionInv, TransportInv,
         TransportClosedOnce, TargetInv, InTransition
<1>4. RecoverySendIsCurrent' /\ OneReader'
  BY DEF DisconnectSwept, Move, End, PlaceInv, TransitionInv, RecoverySendIsCurrent,
         OneReader, InTransition
<1> QED BY <1>1, <1>2, <1>3, <1>4

LEMMA DisconnectAbortedInv ==
    ASSUME Inv, NEW d \in Stoppers,
           DisconnectAborted(d)
    PROVE  Inv'
<1> USE CallsAssumption DEF Calls, Inv, TypeOK, CoordInv, sendVars, transportVars
<1>0. /\ pc' = [pc EXCEPT ![d] = "done"] /\ pc[d] = "aborting"
      /\ \E how \in Results : result' = [result EXCEPT ![d] = how]
  BY DEF DisconnectAborted, End, Move, Results
<1>1. TypeOK'
  BY <1>0 DEF DisconnectAborted, Places, Results, TransportInv, TransportClosedOnce
<1>2. PlaceInv' /\ TransitionInv' /\ LiveEpochIsOwned'
  BY <1>0 DEF DisconnectAborted, PlaceInv, TransitionInv, LiveEpochIsOwned, InTransition
<1>3. TransportInv' /\ TargetInv'
  BY <1>0 DEF DisconnectAborted, PlaceInv, TransitionInv, TransportInv,
         TransportClosedOnce, TargetInv, InTransition
<1>4. RecoverySendIsCurrent' /\ OneReader'
  BY <1>0 DEF DisconnectAborted, PlaceInv, TransitionInv, RecoverySendIsCurrent,
         OneReader, InTransition
<1> QED BY <1>1, <1>2, <1>3, <1>4

-----------------------------------------------------------------------------
(* Taking the current generation down, which start, receive_once and         *)
(* disconnect share.                                                         *)
LEMMA DetachFacts ==
    ASSUME Inv, NEW c \in Calls, active # None, Detach(c)
    PROVE  /\ active \in Starts /\ pc[active] = "done" /\ result[active] = "returned"
           /\ active' = None /\ epoch' = None
           /\ transport[active] = "open"
           /\ transport' = [transport EXCEPT ![active] = "closing"]
           /\ closes' = [closes EXCEPT ![active] = 1]
           /\ cancelled' \in [Calls -> BOOLEAN]
           /\ \A r \in Readers \ {c} :
                 cancelled[r] \/ (target[r] = active /\ pc[r] = "receiving") => cancelled'[r]
           /\ sendCancelled' \in [Starts -> BOOLEAN]
           /\ \A t \in Starts : sendCancelled[t] => sendCancelled'[t]
           /\ sendTask[active] \in {"queued", "sending"} => sendCancelled'[active]
<1> USE DEF Inv, TypeOK, CoordInv
<1>1. /\ active \in Starts /\ pc[active] = "done" /\ result[active] = "returned"
      /\ epoch = active
  BY DEF TransitionInv, LiveEpochIsOwned
<1>2. transport[active] = "open" /\ closes[active] = 0
  BY <1>1 DEF TransportInv, TransportClosedOnce
<1>3. /\ active' = None /\ epoch' = None
      /\ transport' = [transport EXCEPT ![active] = "closing"]
      /\ closes' = [closes EXCEPT ![active] = 1]
  BY <1>1, <1>2 DEF Detach, TerminateActive, CloseTransport
<1>4. /\ cancelled' \in [Calls -> BOOLEAN]
      /\ \A r \in Readers \ {c} :
            cancelled[r] \/ (target[r] = active /\ pc[r] = "receiving") => cancelled'[r]
  BY DEF Detach, TerminateActive, Calls
<1>5. sendCancelled' \in [Starts -> BOOLEAN]
  BY <1>1 DEF Detach, TerminateActive
<1>6. \A t \in Starts : sendCancelled[t] => sendCancelled'[t]
  BY <1>1 DEF Detach, TerminateActive
<1>7. sendTask[active] \in {"queued", "sending"} => sendCancelled'[active]
  BY <1>1 DEF Detach, TerminateActive
<1> QED BY <1>1, <1>2, <1>3, <1>4, <1>5, <1>6, <1>7

(* The call that detaches moves to an await outside the receive. *)
LEMMA DetachInv ==
    ASSUME Inv, NEW c \in Calls, active # None, Detach(c),
           NEW place \in Places, pc' = [pc EXCEPT ![c] = place],
           \/ c \in Starts /\ place = "closeOld" /\ pc[c] = "lock" /\ TransitionFree
           \/ c \in Stoppers /\ place = "closing" /\ pc[c] = "lock" /\ TransitionFree
           \/ c \in Readers /\ place = "closing" /\ pc[c] \in {"receiving", "sending"}
           \/ c \in Readers \cup Stoppers /\ place = "aborting"
                 /\ pc[c] \in {"lock", "receiving", "sending"},
           target' \in [Calls -> Starts \cup {None}],
           \A d \in Readers \cup Stoppers : target'[d] = target[d],
           result' \in [Calls -> Results],
           \A d \in Calls \ {c} : result'[d] = result[d],
           UNCHANGED <<reraise, sendTask, cancels>>
    PROVE  Inv'
<1> USE CallsAssumption, DetachFacts DEF Calls, Inv, TypeOK, CoordInv
<1>0. c # active
  BY DetachFacts
<1>1. TypeOK'
  <2>1. pc' \in [Calls -> Places]
    OBVIOUS
  <2>2. transport' \in [Starts -> {"unowned", "open", "closing", "closed", "broken"}]
    OBVIOUS
  <2>3. closes' \in [Starts -> 0..1]
    OBVIOUS
  <2> QED BY <2>1, <2>2, <2>3
<1>2. PlaceInv'
  BY DEF PlaceInv
<1>3. TransitionInv' /\ LiveEpochIsOwned'
  BY <1>0 DEF PlaceInv, TransitionInv, LiveEpochIsOwned, InTransition, TransitionFree
<1>4. TransportInv'
  BY <1>0 DEF TransportInv, TransportClosedOnce
<1>5. TargetInv'
  BY <1>0 DEF TargetInv
<1>6. RecoverySendIsCurrent'
  BY DEF RecoverySendIsCurrent
<1>7. OneReader'
  BY DEF OneReader, PlaceInv
<1> QED BY <1>1, <1>2, <1>3, <1>4, <1>5, <1>6, <1>7

LEMMA StartDetachInv ==
    ASSUME Inv, NEW t \in Starts, StartDetach(t)
    PROVE  Inv'
<1> USE CallsAssumption DEF Calls, Inv, TypeOK, CoordInv
<1>1. CASE active = None
  <2> USE <1>1 DEF StartDetach, Move, sendVars, transportVars
  <2>1. TypeOK'
    BY DEF Places
  <2>2. PlaceInv' /\ TransitionInv' /\ LiveEpochIsOwned'
    BY DEF PlaceInv, TransitionInv, LiveEpochIsOwned, InTransition, TransitionFree
  <2>3. TransportInv' /\ TargetInv'
    BY DEF PlaceInv, TransportInv, TransportClosedOnce, TargetInv
  <2>4. RecoverySendIsCurrent' /\ OneReader'
    BY DEF RecoverySendIsCurrent, OneReader
  <2> QED BY <2>1, <2>2, <2>3, <2>4
<1>2. CASE active # None
  <2>1. /\ Detach(t) /\ pc[t] = "lock" /\ TransitionFree
        /\ pc' = [pc EXCEPT ![t] = "closeOld"]
        /\ target' = [target EXCEPT ![t] = active]
        /\ UNCHANGED <<reraise, result, sendTask, cancels>>
    BY <1>2 DEF StartDetach, Move
  <2>2. /\ target' \in [Calls -> Starts \cup {None}]
        /\ \A d \in Readers \cup Stoppers : target'[d] = target[d]
        /\ "closeOld" \in Places
    BY <2>1 DEF Places
  <2> HIDE DEF Inv, TypeOK, CoordInv
  <2>3. result' \in [Calls -> Results] /\ \A d \in Calls \ {t} : result'[d] = result[d]
    BY <2>1 DEF Inv, TypeOK
  <2> QED BY <1>2, <2>1, <2>2, <2>3, DetachInv
<1> QED BY <1>1, <1>2

LEMMA DisconnectDetachInv ==
    ASSUME Inv, NEW d \in Stoppers, DisconnectDetach(d)
    PROVE  Inv'
<1>0. target[d] \in Starts /\ d \in Calls
  BY DEF Inv, CoordInv, TargetInv, DisconnectDetach, Calls
<1>1. CASE active = target[d]
  <2>1. /\ Detach(d) /\ active # None /\ pc[d] = "lock" /\ TransitionFree
        /\ pc' = [pc EXCEPT ![d] = "closing"]
        /\ UNCHANGED <<target, reraise, result, sendTask, cancels>>
    BY <1>0, <1>1, CallsAssumption DEF DisconnectDetach, Move, Calls
  <2>2. /\ target' \in [Calls -> Starts \cup {None}] /\ result' \in [Calls -> Results]
        /\ "closing" \in Places
    BY <2>1 DEF Inv, TypeOK, Places
  <2> QED BY <1>0, <2>1, <2>2, DetachInv
<1>2. CASE active # target[d]
  <2> USE CallsAssumption, <1>2 DEF Calls, Inv, TypeOK, CoordInv, DisconnectDetach, Move, End,
                                    sendVars, transportVars
  <2>1. TypeOK'
    BY DEF Places, Results
  <2>2. PlaceInv' /\ TransitionInv' /\ LiveEpochIsOwned'
    BY DEF PlaceInv, TransitionInv, LiveEpochIsOwned, InTransition
  <2>3. TransportInv' /\ TargetInv'
    BY DEF PlaceInv, TransportInv, TransportClosedOnce, TargetInv
  <2>4. RecoverySendIsCurrent' /\ OneReader'
    BY DEF RecoverySendIsCurrent, OneReader
  <2> QED BY <2>1, <2>2, <2>3, <2>4
<1> QED BY <1>1, <1>2

LEMMA RouteTerminalInv ==
    ASSUME Inv, NEW r \in Readers, RouteTerminal(r)
    PROVE  Inv'
<1>0. target[r] \in Starts /\ r \in Calls
  BY DEF Inv, CoordInv, TargetInv, RouteTerminal, Calls
<1>1. /\ Detach(r) /\ active # None /\ pc[r] = "receiving"
      /\ pc' = [pc EXCEPT ![r] = "closing"]
      /\ result' = [result EXCEPT ![r] = "terminated"]
      /\ UNCHANGED <<target, reraise, sendTask, cancels>>
  BY <1>0, CallsAssumption DEF RouteTerminal, Move, Calls
<1>2. /\ target' \in [Calls -> Starts \cup {None}] /\ "closing" \in Places
      /\ result' \in [Calls -> Results] /\ \A d \in Calls \ {r} : result'[d] = result[d]
  BY <1>1 DEF Inv, TypeOK, Places, Results
<1> QED BY <1>0, <1>1, <1>2, DetachInv

(* _abort_generation: the candidate is taken down unless it is gone already. *)
LEMMA AbortInv ==
    ASSUME Inv, NEW c \in Readers \cup Stoppers, NEW how \in {"terminated", "cancelled"},
           \/ pc[c] \in {"lock", "receiving", "sending"}
           \/ c \in Stoppers /\ pc[c] = "sweep",
           Abort(c, how)
    PROVE  Inv'
<1>0. target[c] \in Starts /\ c \in Calls
  BY DEF Inv, CoordInv, TargetInv, Calls
<1>1. CASE active = target[c]
  <2> DEFINE place == IF pc[c] = "sending" THEN "closing" ELSE "aborting"
  <2>1. /\ Detach(c) /\ active # None
        /\ pc' = [pc EXCEPT ![c] = place]
        /\ result' = [result EXCEPT ![c] = how]
        /\ UNCHANGED <<target, reraise, sendTask, cancels>>
    BY <1>0, <1>1, CallsAssumption DEF Abort, Move, Calls
  <2>2. pc[c] \in {"lock", "receiving", "sending"}
    BY <1>0, <2>1 DEF Inv, CoordInv, TransitionInv, InTransition
  <2>3. /\ target' \in [Calls -> Starts \cup {None}] /\ place \in Places
        /\ result' \in [Calls -> Results] /\ \A d \in Calls \ {c} : result'[d] = result[d]
        /\ \A d \in Readers \cup Stoppers : target'[d] = target[d]
    BY <2>1 DEF Inv, TypeOK, Places, Results
  <2>4. \/ c \in Readers /\ place = "closing" /\ pc[c] \in {"receiving", "sending"}
        \/ place = "aborting" /\ pc[c] \in {"lock", "receiving", "sending"}
    BY <2>2 DEF Inv, CoordInv, PlaceInv
  <2> HIDE DEF place
  <2> QED BY <1>0, <2>1, <2>2, <2>3, <2>4, DetachInv
<1>2. CASE active # target[c]
  <2>1. /\ pc' = [pc EXCEPT ![c] = "done"] /\ result' = [result EXCEPT ![c] = how]
        /\ cancelled' = [cancelled EXCEPT ![c] = FALSE]
        /\ UNCHANGED <<active, epoch, target, reraise, sendTask, sendCancelled, transport,
                       closes, cancels>>
    BY <1>2 DEF Abort, Move, End, sendVars, transportVars
  <2> USE CallsAssumption, <1>0, <2>1 DEF Calls, Inv, TypeOK, CoordInv
  <2>2. TypeOK'
    <3>1. /\ "done" \in Places /\ how \in Results
      BY DEF Places, Results
    <3>2. pc' \in [Calls -> Places] /\ result' \in [Calls -> Results]
      BY <3>1
    <3>3. cancelled' \in [Calls -> BOOLEAN]
      OBVIOUS
    <3> QED BY <3>2, <3>3
  <2>3. PlaceInv' /\ TransitionInv' /\ LiveEpochIsOwned'
    BY DEF PlaceInv, TransitionInv, LiveEpochIsOwned, InTransition
  <2>4. TransportInv' /\ TargetInv'
    BY <1>2 DEF PlaceInv, TransportInv, TransportClosedOnce, TargetInv
  <2>5. RecoverySendIsCurrent' /\ OneReader'
    BY DEF RecoverySendIsCurrent, OneReader
  <2> QED BY <2>2, <2>3, <2>4, <2>5
<1> QED BY <1>1, <1>2

-----------------------------------------------------------------------------
(* The remaining steps end in one of the lemmas above. *)
LEMMA StartStepInv ==
    ASSUME Inv, NEW t \in Starts, StartStep(t)
    PROVE  Inv'
<1>1. CASE StartClosedOld(t)
  <2>1. CASE CloseReturns(t, target[t]) /\ Move(t, "sweep")
            /\ UNCHANGED <<active, epoch, target, cancelled, reraise, result, sendVars,
                           transportVars, cancels>>
    <3> USE CallsAssumption, <1>1, <2>1 DEF Calls, Inv, TypeOK, CoordInv, StartClosedOld, Move,
                                            sendVars, transportVars
    <3>1. TypeOK'
      BY DEF Places
    <3>2. PlaceInv' /\ TransitionInv' /\ LiveEpochIsOwned'
      BY DEF PlaceInv, TransitionInv, LiveEpochIsOwned, InTransition
    <3>3. TransportInv' /\ TargetInv'
      BY DEF PlaceInv, TransportInv, TransportClosedOnce, TargetInv
    <3>4. RecoverySendIsCurrent' /\ OneReader'
      BY DEF RecoverySendIsCurrent, OneReader
    <3> QED BY <3>1, <3>2, <3>3, <3>4
  <2>2. CASE GiveUp(t, "failed") \/ GiveUp(t, "cancelled")
    BY <1>1, <2>2, GiveUpInv DEF StartClosedOld, Results
  <2> QED BY <1>1, <2>1, <2>2 DEF StartClosedOld
<1>2. CASE StartFails(t) \/ StartCancelled(t)
  BY <1>2, GiveUpInv DEF StartFails, StartCancelled, Results
<1> QED
  BY <1>1, <1>2, StartDetachInv, StartBeginInv, StartSubscribeInv, StartPublishInv,
     StartClosedSelfInv DEF StartStep

(* The reader goes on after its recovery send, its generation current or not. *)
LEMMA ReceiveSentInv ==
    ASSUME Inv, NEW r \in Readers, ReceiveSent(r)
    PROVE  Inv'
<1>1. CASE Abort(r, "terminated")
  BY <1>1, AbortInv DEF ReceiveSent
<1>2. CASE ~Abort(r, "terminated")
  <2>1. /\ pc[r] = "sending" /\ pc' = [pc EXCEPT ![r] = "done"]
        /\ \E how \in {"returned", "stale"} : result' = [result EXCEPT ![r] = how]
        /\ UNCHANGED <<active, epoch, target, cancelled, reraise, sendTask, sendCancelled,
                       transport, closes, cancels>>
    BY <1>2 DEF ReceiveSent, End, Move, sendVars, transportVars
  <2> USE CallsAssumption, <2>1 DEF Calls, Inv, TypeOK, CoordInv
  <2>2. TypeOK'
    BY DEF Places, Results
  <2>3. PlaceInv' /\ TransitionInv' /\ LiveEpochIsOwned'
    BY DEF PlaceInv, TransitionInv, LiveEpochIsOwned, InTransition
  <2>4. TransportInv' /\ TargetInv'
    BY DEF PlaceInv, TransportInv, TransportClosedOnce, TargetInv
  <2>5. RecoverySendIsCurrent' /\ OneReader'
    BY DEF RecoverySendIsCurrent, OneReader
  <2> QED BY <2>2, <2>3, <2>4, <2>5
<1> QED BY <1>1, <1>2

LEMMA ReceiveCancelledInv ==
    ASSUME Inv, NEW r \in Readers, ReceiveCancelled(r)
    PROVE  Inv'
<1>1. CASE Abort(r, "cancelled")
  BY <1>1, AbortInv DEF ReceiveCancelled
<1>2. CASE ~Abort(r, "cancelled")
  <2>1. /\ pc[r] = "receiving" /\ pc' = [pc EXCEPT ![r] = "done"]
        /\ result' = [result EXCEPT ![r] = "stale"]
        /\ cancelled' = [cancelled EXCEPT ![r] = FALSE]
        /\ UNCHANGED <<active, epoch, target, reraise, sendTask, sendCancelled, transport,
                       closes, cancels>>
    BY <1>2 DEF ReceiveCancelled, End, Move, sendVars, transportVars
  <2> USE CallsAssumption, <2>1 DEF Calls, Inv, TypeOK, CoordInv
  <2>2. TypeOK'
    BY DEF Places, Results
  <2>3. PlaceInv' /\ TransitionInv' /\ LiveEpochIsOwned'
    BY DEF PlaceInv, TransitionInv, LiveEpochIsOwned, InTransition
  <2>4. TransportInv' /\ TargetInv'
    BY DEF PlaceInv, TransportInv, TransportClosedOnce, TargetInv
  <2>5. RecoverySendIsCurrent' /\ OneReader'
    BY DEF RecoverySendIsCurrent, OneReader
  <2> QED BY <2>2, <2>3, <2>4, <2>5
<1> QED BY <1>1, <1>2

LEMMA NextInv == Inv /\ [Next]_vars => Inv'
<1> SUFFICES ASSUME Inv, [Next]_vars PROVE Inv'
  OBVIOUS
<1>1. ASSUME NEW t \in Starts, Start(t) \/ StartStep(t) \/ CloseTask(t) PROVE Inv'
  BY <1>1, StartInv, StartStepInv, CloseTaskInv
<1>2. ASSUME NEW t \in Starts, SendStart(t) \/ SendOver(t) \/ SendCancelled(t) PROVE Inv'
  BY <1>2, SendInv
<1>3. ASSUME NEW r \in Readers, ReadStep(r) PROVE Inv'
  BY <1>3, ReceiveRegisterInv, ReceiveCancelledInv, ReceiveClosedInv, ReceiveSentInv DEF ReadStep
<1>4. ASSUME NEW r \in Readers, TransportStep(r) PROVE Inv'
  <2>1. CASE ReceiveFails(r)
    BY <2>1, AbortInv DEF ReceiveFails
  <2> QED BY <1>4, <2>1, RouteFrameInv, RouteTerminalInv, RouteRecoveryInv DEF TransportStep
<1>5. ASSUME NEW d \in Stoppers, StopStep(d) PROVE Inv'
  <2>1. CASE DisconnectCancelled(d)
    BY <2>1, AbortInv DEF DisconnectCancelled
  <2> QED BY <1>5, <2>1, DisconnectDetachInv, DisconnectClosedInv, DisconnectSweptInv,
             DisconnectAbortedInv DEF StopStep
<1>6. ASSUME NEW c \in Calls, AbsorbCancel(c) \/ Cancel(c) PROVE Inv'
  BY <1>6, AbsorbCancelInv, CancelInv
<1>7. CASE UNCHANGED vars
  BY <1>7 DEF Inv, TypeOK, CoordInv, PlaceInv, TransitionInv, LiveEpochIsOwned, TransportInv,
     TransportClosedOnce, TargetInv, RecoverySendIsCurrent, OneReader, InTransition, vars,
     taskVars, sendVars, transportVars
<1> QED
  BY <1>1, <1>2, <1>3, <1>4, <1>5, <1>6, <1>7, ReceiveOnceInv, DisconnectInv DEF Next

LEMMA InitInv == Init => Inv
<1> SUFFICES ASSUME Init PROVE Inv
  OBVIOUS
<1> USE CallsAssumption DEF Init, Calls
<1>1. TypeOK
  BY DEF TypeOK, Places, Results
<1>2. PlaceInv /\ TransitionInv /\ LiveEpochIsOwned
  BY DEF PlaceInv, TransitionInv, LiveEpochIsOwned, InTransition
<1>3. TransportInv /\ TargetInv
  BY DEF TransportInv, TransportClosedOnce, TargetInv
<1>4. RecoverySendIsCurrent /\ OneReader
  BY DEF RecoverySendIsCurrent, OneReader
<1> QED BY <1>1, <1>2, <1>3, <1>4 DEF Inv, CoordInv

(* TypeOK and CoordInv hold in every reachable state, whatever tasks start, *)
(* fail, hang or are cancelled (the coordinator's three operations).        *)
THEOREM CoordInvariant == Spec => [](TypeOK /\ CoordInv)
<1>1. Init => Inv
  BY InitInv
<1>2. Inv /\ [Next]_vars => Inv'
  BY NextInv
<1> QED BY <1>1, <1>2, PTL DEF Spec, Inv

(* Every variable keeps its type: among others no transport is closed twice. *)
THEOREM TypeCorrect == Spec => []TypeOK
BY CoordInvariant, PTL

(* No epoch without an owner and no generation without its epoch. *)
THEOREM EpochOwnership == Spec => []LiveEpochIsOwned
<1>1. CoordInv => LiveEpochIsOwned
  BY DEF CoordInv
<1> QED BY <1>1, CoordInvariant, PTL

(* Every transport handed to start is closed exactly once, or still in use. *)
THEOREM TransportOwnership == Spec => []TransportClosedOnce
<1>1. CoordInv => TransportClosedOnce
  BY DEF CoordInv, TransportInv
<1> QED BY <1>1, CoordInvariant, PTL

(* A cancelled call leaves neither its generation, its epoch nor its *)
(* transport behind (receive_once, disconnect, start).               *)
THEOREM CancellationFailsClosed == Spec => []CancelledFailsClosed
<1>1. TypeOK /\ CoordInv => CancelledFailsClosed
  <2> SUFFICES ASSUME TypeOK, CoordInv, NEW c \in Calls, pc[c] = "done", result[c] = "cancelled",
                      NEW t, t = IF c \in Starts THEN c ELSE target[c]
               PROVE  active # t /\ epoch # t /\ transport[t] # "open"
    BY DEF CancelledFailsClosed
  <2>1. t \in Starts /\ pc[t] = "done" /\ active # t
    BY CallsAssumption DEF Calls, CoordInv, TargetInv, TransitionInv
  <2> QED BY <2>1, CallsAssumption DEF Calls, CoordInv, LiveEpochIsOwned, TransportInv, TransportClosedOnce
<1> QED BY <1>1, CoordInvariant, PTL

(* A recovery command is queued or written for the current generation only, *)
(* or has been cancelled (_send_recovery).                                  *)
THEOREM RecoverySendsAreCurrent == Spec => []RecoverySendIsCurrent
<1>1. CoordInv => RecoverySendIsCurrent
  BY DEF CoordInv
<1> QED BY <1>1, CoordInvariant, PTL

(* One reader per transport, and no reader of a dead generation unwarned. *)
THEOREM SingleReader == Spec => []OneReader
<1>1. CoordInv => OneReader
  BY DEF CoordInv
<1> QED BY <1>1, CoordInvariant, PTL
=============================================================================
