------------------------- MODULE KalshiWSCoordinator -------------------------
(***************************************************************************)
(* KalshiV2WSCoordinator (kalshi_v2_ws_coordinator.py): the tasks that     *)
(* start, read and disconnect the transport of one frame session, on one   *)
(* asyncio event loop, cancelled from outside at any await.                *)
(*                                                                         *)
(* A step is what a task does between two awaits that can suspend it.  The *)
(* sections under _state_lock await nothing, so that lock never blocks and *)
(* each of them is part of one step.  The three other locks do block; who  *)
(* holds one follows from where the tasks are suspended.                   *)
(*                                                                         *)
(* Every call of start brings its own transport and begins at most one     *)
(* epoch, so the start call names the transport, the generation and the    *)
(* epoch.  What session.receive makes of a frame is in KalshiWSClient;     *)
(* here a frame is harmless, ends the epoch, or asks for a recovery send.  *)
(***************************************************************************)
EXTENDS Integers, FiniteSets

CONSTANTS
    Starts,         \* calls of start, each with its transport
    Readers,        \* calls of receive_once
    Stoppers,       \* calls of disconnect
    None,
    MaxCancels      \* bound: cancellations from outside in one behaviour

Calls == Starts \cup Readers \cup Stoppers

ASSUME CallsAssumption ==
    /\ Starts \cap Readers = {} /\ Starts \cap Stoppers = {} /\ Readers \cap Stoppers = {}
    /\ None \notin Calls
    /\ MaxCancels \in Nat

Places == {"idle", "lock", "closeOld", "sweep", "sendLock", "subscribing",
           "receiving", "sending", "closing", "aborting", "done"}
Results == {"none", "returned", "stale", "terminated", "failed", "cancelled"}

VARIABLES
    active,         \* _active: the start whose generation is current
    epoch,          \* lifecycle.current_epoch_id, as the start that began it
    pc,             \* the await each call is suspended at
    target,         \* candidate of a receive_once or disconnect, old_transport of a start
    cancelled,      \* a CancelledError will be raised when the task resumes
    reraise,        \* _close_transport has absorbed a cancellation it will raise later
    result,         \* how a call ended, or will end once its close is over
    sendTask,       \* recovery_send_task of each generation
    sendCancelled,  \* the recovery send task has been cancelled
    transport,      \* state of each transport
    closes,         \* number of transport.close() calls
    cancels         \* cancellations from outside so far

taskVars == <<pc, target, cancelled, reraise, result>>
sendVars == <<sendTask, sendCancelled>>
transportVars == <<transport, closes>>
vars == <<active, epoch, taskVars, sendVars, transportVars, cancels>>

TypeOK ==
    /\ active \in Starts \cup {None} /\ epoch \in Starts \cup {None}
    /\ pc \in [Calls -> Places]
    /\ target \in [Calls -> Starts \cup {None}]
    /\ cancelled \in [Calls -> BOOLEAN] /\ reraise \in [Calls -> BOOLEAN]
    /\ result \in [Calls -> Results]
    /\ sendTask \in [Starts -> {"none", "queued", "sending", "sent", "failed", "cancelled"}]
    /\ sendCancelled \in [Starts -> BOOLEAN]
    /\ transport \in [Starts -> {"unowned", "open", "closing", "closed", "broken"}]
    /\ closes \in [Starts -> 0..1]
    /\ cancels \in Nat

Init ==
    /\ active = None /\ epoch = None
    /\ pc = [c \in Calls |-> "idle"]
    /\ target = [c \in Calls |-> None]
    /\ cancelled = [c \in Calls |-> FALSE] /\ reraise = [c \in Calls |-> FALSE]
    /\ result = [c \in Calls |-> "none"]
    /\ sendTask = [t \in Starts |-> "none"]
    /\ sendCancelled = [t \in Starts |-> FALSE]
    /\ transport = [t \in Starts |-> "unowned"]
    /\ closes = [t \in Starts |-> 0]
    /\ cancels = 0

-----------------------------------------------------------------------------
(* The locks. *)
InTransition(c) ==
    \/ c \in Starts /\ pc[c] \in {"closeOld", "sweep", "sendLock", "subscribing"}
    \/ c \in Stoppers /\ pc[c] \in {"closing", "sweep"}
TransitionFree == \A c \in Calls : ~InTransition(c)

Reading(r, t) == target[r] = t /\ pc[r] \in {"receiving", "sending", "closing"}
ReceiveFree(t) == \A r \in Readers : ~Reading(r, t)

SendFree ==
    /\ \A t \in Starts : pc[t] # "subscribing"
    /\ \A t \in Starts : sendTask[t] # "sending"

(* Task bookkeeping: a call moves on, or ends with a result. *)
Move(c, place) == pc' = [pc EXCEPT ![c] = place]
End(c, how) == /\ Move(c, "done")
               /\ result' = [result EXCEPT ![c] = how]

(* _close_transport starts the close task at once and keeps it. *)
CloseTransport(t) ==
    /\ transport' = [transport EXCEPT ![t] = "closing"]
    /\ closes' = [closes EXCEPT ![t] = @ + 1]

(* Mutant: the registered receive is not cancelled. *)
TerminateButReader(c) ==
    LET t == active IN
    /\ active' = None
    /\ epoch' = IF epoch = t THEN None ELSE epoch
    /\ cancelled' = [cancelled EXCEPT ![c] = FALSE]
    /\ sendCancelled' = [sendCancelled EXCEPT ![t] = @ \/ sendTask[t] \in {"queued", "sending"}]

(* Mutant: the recovery send is not cancelled. *)
TerminateButSend(c) ==
    LET t == active IN
    /\ active' = None
    /\ epoch' = IF epoch = t THEN None ELSE epoch
    /\ cancelled' = [r \in Calls |->
          \/ cancelled[r] /\ r # c
          \/ r \in Readers \ {c} /\ target[r] = t /\ pc[r] = "receiving"]
    /\ UNCHANGED sendCancelled

(* _terminate_active_state, run by call c: cancel the registered receive    *)
(* and the recovery send, end the epoch, forget the generation.             *)
TerminateActive(c) ==
    LET t == active IN
    /\ active' = None
    /\ epoch' = IF epoch = t THEN None ELSE epoch
    /\ cancelled' = [r \in Calls |->
          \/ cancelled[r] /\ r # c
          \/ r \in Readers \ {c} /\ target[r] = t /\ pc[r] = "receiving"]
    /\ sendCancelled' = [sendCancelled EXCEPT ![t] = @ \/ sendTask[t] \in {"queued", "sending"}]

(* Each caller closes the transport it detached before it awaits anything. *)
Detach(c) == TerminateActive(c) /\ CloseTransport(active)

(* Mutant: a cancelled call just ends. *)
AbortNothing(c, how) ==
    /\ End(c, how)
    /\ cancelled' = [cancelled EXCEPT ![c] = FALSE]
    /\ UNCHANGED <<active, epoch, target, reraise, sendVars, transportVars, cancels>>

(* _abort_generation of call c's candidate, which will end the call as how. *)
(* After a recovery send it runs inside _route_payload, under receive_lock:  *)
(* the reader is then where a terminal frame would have put it.              *)
Abort(c, how) ==
    IF active = target[c]
    THEN /\ Detach(c)
         /\ Move(c, IF pc[c] = "sending" THEN "closing" ELSE "aborting")
         /\ result' = [result EXCEPT ![c] = how]
         /\ UNCHANGED <<target, reraise, sendTask, cancels>>
    ELSE /\ End(c, how)
         /\ cancelled' = [cancelled EXCEPT ![c] = FALSE]
         /\ UNCHANGED <<active, epoch, target, reraise, sendVars, transportVars, cancels>>

-----------------------------------------------------------------------------
(* _close_transport awaited by call c for transport t.  A first cancellation *)
(* is absorbed until the close is over, a second one is raised.              *)
AbsorbCancel(c) ==
    /\ pc[c] \in {"closeOld", "closing", "aborting"}
    /\ cancelled[c] /\ ~reraise[c]
    /\ cancelled' = [cancelled EXCEPT ![c] = FALSE]
    /\ reraise' = [reraise EXCEPT ![c] = TRUE]
    /\ UNCHANGED <<active, epoch, pc, target, result, sendVars, transportVars, cancels>>

CloseReturns(c, t) == ~cancelled[c] /\ ~reraise[c] /\ transport[t] = "closed"
CloseRaises(c, t) == ~cancelled[c] /\ transport[t] = "broken"
CloseCancelled(c, t) == reraise[c] /\ (cancelled[c] \/ transport[t] = "closed")

(* transport.close() itself; it may fail. *)
CloseTask(t) ==
    /\ transport[t] = "closing"
    /\ \E s \in {"closed", "broken"} : transport' = [transport EXCEPT ![t] = s]
    /\ UNCHANGED <<active, epoch, taskVars, sendVars, closes, cancels>>

-----------------------------------------------------------------------------
(* start *)
Start(t) ==
    /\ t \in Starts /\ pc[t] = "idle"
    /\ Move(t, "lock")
    /\ transport' = [transport EXCEPT ![t] = "open"]
    /\ UNCHANGED <<active, epoch, target, cancelled, reraise, result, sendVars, closes, cancels>>

(* Mutant: a failed start leaves the epoch it began. *)
GiveUpKeepsEpoch(t, how) ==
    /\ Move(t, "closing")
    /\ result' = [result EXCEPT ![t] = how]
    /\ cancelled' = [cancelled EXCEPT ![t] = FALSE]
    /\ reraise' = [reraise EXCEPT ![t] = FALSE]
    /\ CloseTransport(t)
    /\ UNCHANGED <<active, epoch, target, sendVars, cancels>>

(* The outer finally: the candidate is closed, the transition lock is free. *)
GiveUp(t, how) ==
    /\ Move(t, "closing")
    /\ result' = [result EXCEPT ![t] = how]
    /\ cancelled' = [cancelled EXCEPT ![t] = FALSE]
    /\ reraise' = [reraise EXCEPT ![t] = FALSE]
    /\ epoch' = IF epoch = t THEN None ELSE epoch
    /\ CloseTransport(t)
    /\ UNCHANGED <<active, target, sendVars, cancels>>

StartDetach(t) ==
    /\ pc[t] = "lock" /\ ~cancelled[t] /\ TransitionFree
    /\ IF active = None
       THEN /\ Move(t, "sweep")
            /\ UNCHANGED <<active, epoch, target, cancelled, sendVars, transportVars>>
       ELSE /\ target' = [target EXCEPT ![t] = active]
            /\ Detach(t)
            /\ Move(t, "closeOld")
            /\ UNCHANGED sendTask
    /\ UNCHANGED <<reraise, result, cancels>>

StartClosedOld(t) ==
    /\ pc[t] = "closeOld"
    /\ \/ /\ CloseReturns(t, target[t])
          /\ Move(t, "sweep")
          /\ UNCHANGED <<active, epoch, target, cancelled, reraise, result, sendVars,
                         transportVars, cancels>>
       \/ CloseRaises(t, target[t]) /\ GiveUp(t, "failed")
       \/ CloseCancelled(t, target[t]) /\ GiveUp(t, "cancelled")

(* The coverage sweep is over; session.begin may refuse the timestamp. *)
StartBegin(t) ==
    /\ pc[t] = "sweep" /\ ~cancelled[t]
    /\ epoch' = t
    /\ Move(t, "sendLock")
    /\ UNCHANGED <<active, target, cancelled, reraise, result, sendVars, transportVars, cancels>>

StartFails(t) ==
    /\ pc[t] \in {"sweep", "subscribing"} /\ ~cancelled[t]
    /\ GiveUp(t, "failed")

(* Mutant: start owns its candidate only once it holds the transition lock. *)
StartCancelledUnowned(t) ==
    /\ cancelled[t]
    /\ \/ pc[t] \in {"sweep", "sendLock", "subscribing"} /\ GiveUp(t, "cancelled")
       \/ /\ pc[t] = "lock"
          /\ End(t, "cancelled")
          /\ UNCHANGED <<active, epoch, target, cancelled, reraise, sendVars, transportVars, cancels>>

StartCancelled(t) ==
    /\ pc[t] \in {"lock", "sweep", "sendLock", "subscribing"} /\ cancelled[t]
    /\ GiveUp(t, "cancelled")

StartSubscribe(t) ==
    /\ pc[t] = "sendLock" /\ ~cancelled[t] /\ SendFree
    /\ Move(t, "subscribing")
    /\ UNCHANGED <<active, epoch, target, cancelled, reraise, result, sendVars,
                   transportVars, cancels>>

(* All three subscriptions are sent: the generation becomes current. *)
StartPublish(t) ==
    /\ pc[t] = "subscribing" /\ ~cancelled[t]
    /\ active' = t
    /\ End(t, "returned")
    /\ UNCHANGED <<epoch, target, cancelled, reraise, sendVars, transportVars, cancels>>

StartClosedSelf(t) ==
    /\ pc[t] = "closing"
    /\ \/ CloseReturns(t, t) /\ End(t, result[t])
       \/ CloseRaises(t, t) /\ End(t, "failed")
       \/ CloseCancelled(t, t) /\ End(t, "cancelled")
    /\ cancelled' = [cancelled EXCEPT ![t] = FALSE]
    /\ UNCHANGED <<active, epoch, target, reraise, sendVars, transportVars, cancels>>

-----------------------------------------------------------------------------
(* receive_once *)
ReceiveOnce(r, t) ==
    /\ pc[r] = "idle"
    /\ target' = [target EXCEPT ![r] = t]
    /\ IF active = t THEN Move(r, "lock") /\ UNCHANGED result ELSE End(r, "stale")
    /\ UNCHANGED <<active, epoch, cancelled, reraise, sendVars, transportVars, cancels>>

ReceiveRegister(r) ==
    /\ pc[r] = "lock" /\ ~cancelled[r] /\ ReceiveFree(target[r])
    /\ IF active = target[r] THEN Move(r, "receiving") /\ UNCHANGED result
                             ELSE End(r, "stale")
    /\ UNCHANGED <<active, epoch, target, cancelled, reraise, sendVars, transportVars, cancels>>

(* A cancelled receive whose generation is gone reports it as stale, whoever *)
(* cancelled it; otherwise the generation is aborted.                        *)
ReceiveCancelled(r) ==
    /\ cancelled[r]
    /\ \/ pc[r] = "lock" /\ Abort(r, "cancelled")
       \/ pc[r] = "receiving" /\ active = target[r] /\ Abort(r, "cancelled")
       \/ pc[r] = "sending" /\ sendTask[target[r]] \in {"sent", "failed", "cancelled"}
             /\ Abort(r, "cancelled")
       \/ /\ pc[r] = "receiving" /\ active # target[r]
          /\ End(r, "stale")
          /\ cancelled' = [cancelled EXCEPT ![r] = FALSE]
          /\ UNCHANGED <<active, epoch, target, reraise, sendVars, transportVars, cancels>>

ReceiveFails(r) ==
    /\ pc[r] = "receiving" /\ ~cancelled[r]
    /\ Abort(r, "terminated")

(* _route_payload, one action for each of its branches. *)
RouteFrame(r) ==
    /\ pc[r] = "receiving" /\ ~cancelled[r]
    /\ End(r, IF active = target[r] THEN "returned" ELSE "stale")
    /\ UNCHANGED <<active, epoch, target, cancelled, reraise, sendVars, transportVars, cancels>>

RouteTerminal(r) ==
    /\ pc[r] = "receiving" /\ ~cancelled[r] /\ active = target[r]
    /\ Detach(r)
    /\ Move(r, "closing")
    /\ result' = [result EXCEPT ![r] = "terminated"]
    /\ UNCHANGED <<target, reraise, sendTask, cancels>>

RouteRecovery(r) ==
    /\ pc[r] = "receiving" /\ ~cancelled[r] /\ active = target[r]
    /\ Move(r, "sending")
    /\ sendTask' = [sendTask EXCEPT ![active] = "queued"]
    /\ sendCancelled' = [sendCancelled EXCEPT ![active] = FALSE]
    /\ UNCHANGED <<active, epoch, target, cancelled, reraise, result, transportVars, cancels>>

ReceiveClosed(r) ==
    /\ pc[r] \in {"closing", "aborting"}
    /\ \/ CloseReturns(r, target[r]) /\ End(r, result[r])
       \/ CloseRaises(r, target[r])
             /\ End(r, IF pc[r] = "closing" THEN "terminated" ELSE "failed")
       \/ CloseCancelled(r, target[r]) /\ End(r, "cancelled")
    /\ cancelled' = [cancelled EXCEPT ![r] = FALSE]
    /\ UNCHANGED <<active, epoch, target, reraise, sendVars, transportVars, cancels>>

(* The recovery send is over and nobody cancelled the reader itself. *)
ReceiveSent(r) ==
    /\ pc[r] = "sending" /\ ~cancelled[r]
    /\ \/ /\ sendTask[target[r]] \in {"sent", "cancelled"}
          /\ End(r, IF sendTask[target[r]] = "sent" /\ active = target[r]
                    THEN "returned" ELSE "stale")
          /\ UNCHANGED <<active, epoch, target, cancelled, reraise, sendVars,
                         transportVars, cancels>>
       \/ /\ sendTask[target[r]] = "failed"
          /\ Abort(r, "terminated")

(* _send_recovery, a task of its own *)
SendStart(t) ==
    /\ sendTask[t] = "queued" /\ ~sendCancelled[t] /\ SendFree
    /\ sendTask' = [sendTask EXCEPT ![t] = "sending"]
    /\ UNCHANGED <<active, epoch, taskVars, sendCancelled, transportVars, cancels>>

SendOver(t) ==
    /\ sendTask[t] = "sending" /\ ~sendCancelled[t]
    /\ \E s \in {"sent", "failed"} : sendTask' = [sendTask EXCEPT ![t] = s]
    /\ UNCHANGED <<active, epoch, taskVars, sendCancelled, transportVars, cancels>>

SendCancelled(t) ==
    /\ sendTask[t] \in {"queued", "sending"} /\ sendCancelled[t]
    /\ sendTask' = [sendTask EXCEPT ![t] = "cancelled"]
    /\ UNCHANGED <<active, epoch, taskVars, sendCancelled, transportVars, cancels>>

-----------------------------------------------------------------------------
(* disconnect *)
Disconnect(d, t) ==
    /\ pc[d] = "idle"
    /\ target' = [target EXCEPT ![d] = t]
    /\ IF active = t THEN Move(d, "lock") /\ UNCHANGED result ELSE End(d, "stale")
    /\ UNCHANGED <<active, epoch, cancelled, reraise, sendVars, transportVars, cancels>>

DisconnectDetach(d) ==
    /\ pc[d] = "lock" /\ ~cancelled[d] /\ TransitionFree
    /\ IF active = target[d]
       THEN Detach(d) /\ Move(d, "closing") /\ UNCHANGED <<result, sendTask>>
       ELSE /\ End(d, "stale")
            /\ UNCHANGED <<active, epoch, cancelled, sendVars, transportVars>>
    /\ UNCHANGED <<target, reraise, cancels>>

(* A cancelled close is followed by the sweep all the same. *)
DisconnectClosed(d) ==
    /\ pc[d] = "closing"
    /\ \/ /\ CloseReturns(d, target[d]) \/ CloseCancelled(d, target[d])
          /\ Move(d, "sweep") /\ UNCHANGED result
       \/ CloseRaises(d, target[d]) /\ End(d, "failed")
    /\ cancelled' = [cancelled EXCEPT ![d] = FALSE]
    /\ UNCHANGED <<active, epoch, target, reraise, sendVars, transportVars, cancels>>

DisconnectSwept(d) ==
    /\ pc[d] = "sweep" /\ ~cancelled[d]
    /\ \/ End(d, IF reraise[d] THEN "cancelled" ELSE "returned")
       \/ End(d, "failed")
    /\ UNCHANGED <<active, epoch, target, cancelled, reraise, sendVars, transportVars, cancels>>

DisconnectCancelled(d) ==
    /\ pc[d] \in {"lock", "sweep"} /\ cancelled[d]
    /\ Abort(d, "cancelled")

DisconnectAborted(d) ==
    /\ pc[d] = "aborting"
    /\ \/ CloseReturns(d, target[d]) /\ End(d, result[d])
       \/ CloseRaises(d, target[d]) /\ End(d, "failed")
       \/ CloseCancelled(d, target[d]) /\ End(d, "cancelled")
    /\ cancelled' = [cancelled EXCEPT ![d] = FALSE]
    /\ UNCHANGED <<active, epoch, target, reraise, sendVars, transportVars, cancels>>

-----------------------------------------------------------------------------
(* The owner of a task cancels it; awaiting the recovery send, it cancels *)
(* that task with it.                                                     *)
Cancel(c) ==
    /\ cancels < MaxCancels
    /\ pc[c] \notin {"idle", "done"} /\ ~cancelled[c]
    /\ cancelled' = [cancelled EXCEPT ![c] = TRUE]
    /\ sendCancelled' =
          IF c \in Readers /\ pc[c] = "sending" /\ sendTask[target[c]] \in {"queued", "sending"}
          THEN [sendCancelled EXCEPT ![target[c]] = TRUE] ELSE sendCancelled
    /\ cancels' = cancels + 1
    /\ UNCHANGED <<active, epoch, pc, target, reraise, result, sendTask, transportVars>>

StartStep(t) ==
    \/ StartDetach(t) \/ StartClosedOld(t) \/ StartBegin(t) \/ StartFails(t)
    \/ StartCancelled(t) \/ StartSubscribe(t) \/ StartPublish(t) \/ StartClosedSelf(t)

(* What a reader does without the transport's help. *)
ReadStep(r) ==
    \/ ReceiveRegister(r) \/ ReceiveCancelled(r) \/ ReceiveClosed(r) \/ ReceiveSent(r)

TransportStep(r) ==
    \/ ReceiveFails(r) \/ RouteFrame(r) \/ RouteTerminal(r) \/ RouteRecovery(r)

StopStep(d) ==
    \/ DisconnectDetach(d) \/ DisconnectClosed(d) \/ DisconnectSwept(d)
    \/ DisconnectCancelled(d) \/ DisconnectAborted(d)

Next ==
    \/ \E t \in Starts : Start(t) \/ StartStep(t) \/ CloseTask(t)
    \/ \E t \in Starts : SendStart(t) \/ SendOver(t) \/ SendCancelled(t)
    \/ \E r \in Readers, t \in Starts : ReceiveOnce(r, t)
    \/ \E r \in Readers : ReadStep(r) \/ TransportStep(r)
    \/ \E d \in Stoppers, t \in Starts : Disconnect(d, t)
    \/ \E d \in Stoppers : StopStep(d)
    \/ \E c \in Calls : AbsorbCancel(c) \/ Cancel(c)

Spec == Init /\ [][Next]_vars

(* The event loop runs every task that can go on; closes, sweeps and        *)
(* subscription sends end.  The peer owes no frame, a recovery send may hang *)
(* for ever, and nobody has to call or cancel anything.                      *)
Fairness ==
    /\ \A t \in Starts : WF_vars(StartStep(t)) /\ WF_vars(CloseTask(t))
    /\ \A t \in Starts : WF_vars(SendStart(t)) /\ WF_vars(SendCancelled(t))
    /\ \A r \in Readers : WF_vars(ReadStep(r))
    /\ \A d \in Stoppers : WF_vars(StopStep(d))
    /\ \A c \in Calls : WF_vars(AbsorbCancel(c))

FairSpec == Spec /\ Fairness

-----------------------------------------------------------------------------
(* The session has a live epoch exactly while a generation is current or a   *)
(* start is sending that epoch's subscriptions: no failure or cancellation   *)
(* at any await leaves an epoch nobody owns, or a generation without one     *)
(* (start, _terminate_active_state).                                         *)
LiveEpochIsOwned ==
    /\ active # None => epoch = active
    /\ epoch # None => active = epoch \/ pc[epoch] \in {"sendLock", "subscribing"}

(* A transport handed to start is never lost and never closed twice: it is   *)
(* open exactly while its start is under way or its generation is current    *)
(* (candidate_owned in start, _close_transport).                             *)
TransportClosedOnce ==
    \A t \in Starts :
        /\ transport[t] = "open" <=>
              active = t \/ pc[t] \in {"lock", "closeOld", "sweep", "sendLock", "subscribing"}
        /\ closes[t] = (IF transport[t] \in {"closing", "closed", "broken"} THEN 1 ELSE 0)

(* A receive or disconnect that ended with a cancellation took its generation *)
(* down first, whatever it was waiting for (receive_once, disconnect).        *)
CancelledFailsClosed ==
    \A c \in Calls : pc[c] = "done" /\ result[c] = "cancelled" =>
        LET t == IF c \in Starts THEN c ELSE target[c]
        IN  active # t /\ epoch # t /\ transport[t] # "open"

(* Recovery commands are sent only for the current generation: a send task   *)
(* that outlives its generation is cancelled before it can write             *)
(* (_send_recovery does not look at _active itself).                         *)
RecoverySendIsCurrent ==
    \A t \in Starts :
        sendTask[t] \in {"queued", "sending"} /\ ~sendCancelled[t] => active = t

(* At most one task reads a transport at a time, and a task that reads or    *)
(* writes for a generation that is gone has been told (receive_lock,         *)
(* receive_task).                                                            *)
OneReader ==
    /\ \A r, s \in Readers : pc[r] = "receiving" /\ pc[s] = "receiving"
          /\ target[r] = target[s] => r = s
    /\ \A r \in Readers : pc[r] = "receiving" /\ active # target[r] => cancelled[r]

(* Every start and every disconnect ends, even while a recovery send of the  *)
(* generation it replaces hangs (no lock is held across it for ever).        *)
TransitionsEnd ==
    \A c \in Starts \cup Stoppers : pc[c] # "idle" ~> pc[c] = "done"

(* A receive whose generation was taken down returns although its transport  *)
(* may never wake it (receive_task.cancel in _terminate_active_state).       *)
DetachedReceiveReturns ==
    \A r \in Readers :
        (pc[r] # "idle" /\ active # target[r]) ~> pc[r] = "done"

-----------------------------------------------------------------------------
(* The parts of the inductive invariant behind the safety properties. *)

(* Where each kind of call can be suspended. *)
PlaceInv ==
    /\ \A t \in Starts : pc[t] \in {"idle", "lock", "closeOld", "sweep", "sendLock",
                                    "subscribing", "closing", "done"}
    /\ \A r \in Readers : pc[r] \in {"idle", "lock", "receiving", "sending", "closing",
                                     "aborting", "done"}
    /\ \A d \in Stoppers : pc[d] \in {"idle", "lock", "closing", "aborting", "sweep", "done"}

(* One transition at a time, and no generation while it lasts. *)
TransitionInv ==
    /\ \A c, d \in Calls : InTransition(c) /\ InTransition(d) => c = d
    /\ \A c \in Calls : InTransition(c) => active = None
    /\ \A t \in Starts : pc[t] \in {"sendLock", "subscribing"} => epoch = t
    /\ active # None => pc[active] = "done" /\ result[active] = "returned"

TransportInv ==
    /\ TransportClosedOnce
    /\ \A t \in Starts : transport[t] = "unowned" <=> pc[t] = "idle"

(* The candidate of a call was a current generation once, and is not any     *)
(* more when the call has taken it down.                                     *)
TargetInv ==
    \A c \in Readers \cup Stoppers :
        /\ pc[c] \notin {"idle", "done"} \/ result[c] = "cancelled" =>
              target[c] \in Starts /\ pc[target[c]] = "done"
        /\ pc[c] \in {"closing", "aborting"} \/ (pc[c] = "done" /\ result[c] = "cancelled") =>
              active # target[c]

(* Together they are inductive (start, receive_once, disconnect and the     *)
(* helpers they share).                                                     *)
CoordInv ==
    /\ PlaceInv /\ TransitionInv /\ LiveEpochIsOwned /\ TransportInv /\ TargetInv
    /\ RecoverySendIsCurrent /\ OneReader
=============================================================================
