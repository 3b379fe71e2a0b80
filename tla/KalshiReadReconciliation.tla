----------------------- MODULE KalshiReadReconciliation -----------------------
(***************************************************************************)
(* Read-only reconciliation of order intents (kalshi_read_-                *)
(* reconciliation.py) over the execution ledger, against a venue that goes *)
(* on trading.  reconcile_intent reads the ledger, then the venue's orders,*)
(* then its fills, holding neither lock nor transaction, and only then     *)
(* writes; other reconciliations, the submission itself and the venue move *)
(* between any two of these.                                               *)
(*                                                                         *)
(* The submitter and the venue are the environment: the ledger's           *)
(* documentation states what a submitter commits before it transmits.      *)
(***************************************************************************)
EXTENDS VenueExecutionLedger

CONSTANTS
    Callers,
    MaxDeaths       \* bound: callers that die

VARIABLES
    venue,      \* the venue's orders: whose they are, fills, whether still current
    reply,      \* the response to a submission, under way to the submitter
    call,       \* what each caller is doing
    answers,    \* history: what reconcile_intent returned for each attempt of an intent
    deaths      \* callers that have died

vars == <<log, ack, venue, reply, call, answers, deaths>>

VenueOrders == [intent : Intents, filled : 0..Quantity, remaining : 0..Quantity, current : BOOLEAN]

ASSUME ReconciliationAssumption == MaxDeaths \in Nat /\ None \notin VenueOrders

Idle == [pc |-> "idle", intent |-> None, attempt |-> None, seen |-> None, order |-> None, fills |-> 0,
         fresh |-> FALSE]
Calls == [pc : {"idle", "orders", "missing", "fills", "matched", "write"}, intent : Intents \cup {None},
          attempt : Attempts \cup {None}, seen : Snapshots \cup {None}, order : Snapshots \cup {None},
          fills : 0..Quantity, fresh : BOOLEAN]

Kinds == {"intent", "started", "acknowledged", "fill", "order", "attempt"}
Events == [kind : Kinds, order : Orders \cup {None}, fill : (1..Quantity) \cup {None},
           snapshot : Snapshots \cup {None}, attempt : Attempts \cup {None}, outcome : Outcomes \cup {None}]

TypeOK ==
    /\ \A i \in Intents : \A k \in DOMAIN log[i] : log[i][k] \in Events
    /\ ack \in [Intents -> Snapshots \cup {None}]
    /\ venue \in [Orders -> VenueOrders \cup {None}]
    /\ reply \in [Intents -> Snapshots \cup {None}]
    /\ call \in [Callers -> Calls]
    /\ answers \in [Intents \X Attempts -> SUBSET Outcomes]
    /\ deaths \in 0..MaxDeaths

Init ==
    /\ LedgerInit
    /\ venue = [o \in Orders |-> None]
    /\ reply = [i \in Intents |-> None]
    /\ call = [c \in Callers |-> Idle]
    /\ answers = [ia \in Intents \X Attempts |-> {}]
    /\ deaths = 0

-----------------------------------------------------------------------------
(* The venue and the submitter *)
Snapshot(o) == [order |-> o, filled |-> venue[o].filled, remaining |-> venue[o].remaining]

Accept(o, i, replied) ==
    /\ venue[o] = None
    /\ venue' = [venue EXCEPT ![o] = [intent |-> i, filled |-> 0, remaining |-> Quantity, current |-> TRUE]]
    /\ reply' = IF replied THEN [reply EXCEPT ![i] = [order |-> o, filled |-> 0, remaining |-> Quantity]]
                           ELSE reply
    /\ UNCHANGED <<log, ack, call, answers, deaths>>

(* The order transmitted after its intent is durable; the reply may be lost. *)
Transmit(i) ==
    /\ \E k \in DOMAIN log[i] : log[i][k] = SubmissionStarted
    /\ \A o \in Orders : venue[o] # None => venue[o].intent # i
    /\ \E o \in Orders, replied \in BOOLEAN : Accept(o, i, replied)

(* Another order under the same client order id, made by somebody else *)
Impostor(i) ==
    /\ \E o \in Orders : venue[o] # None /\ venue[o].intent = i
    /\ \E o \in Orders : Accept(o, i, FALSE)

VenueFill(o) ==
    /\ venue[o] # None /\ venue[o].current /\ venue[o].remaining > 0
    /\ venue' = [venue EXCEPT ![o].filled = @ + 1, ![o].remaining = @ - 1]
    /\ UNCHANGED <<log, ack, reply, call, answers, deaths>>

(* A cancelled order shows no remaining quantity. *)
VenueCancel(o) ==
    /\ venue[o] # None /\ venue[o].current /\ venue[o].remaining > 0
    /\ venue' = [venue EXCEPT ![o].remaining = 0]
    /\ UNCHANGED <<log, ack, reply, call, answers, deaths>>

(* A finished order leaves the current endpoints. *)
AgeOut(o) ==
    /\ venue[o] # None /\ venue[o].current /\ venue[o].remaining = 0
    /\ venue' = [venue EXCEPT ![o].current = FALSE]
    /\ UNCHANGED <<log, ack, reply, call, answers, deaths>>

RecordSubmission(i) ==
    /\ \/ RecordIntent(i)
       \/ ~Recorded(log[i], SubmissionStarted) /\ RecordEvent(i, SubmissionStarted)
    /\ UNCHANGED <<venue, reply, call, answers, deaths>>

(* The submitter records the reply, or meets a conflict. *)
AcknowledgeReply(i) ==
    /\ reply[i] # None
    /\ \/ RecordInitialAcknowledgement(i, reply[i])
       \/ ~Acknowledgeable(i, reply[i]) /\ UNCHANGED ledgerVars
    /\ reply' = [reply EXCEPT ![i] = None]
    /\ UNCHANGED <<venue, call, answers, deaths>>

-----------------------------------------------------------------------------
(* reconcile_intent *)
Answer(i, a, x) == answers' = [answers EXCEPT ![<<i, a>>] = @ \cup {x}]
Return(c) == call' = [call EXCEPT ![c] = Idle]
Goto(c, pc) == call' = [call EXCEPT ![c].pc = pc]

(* A ReconciliationConflictError or VenueExecutionConflictError *)
Raise(c) == Return(c) /\ UNCHANGED <<log, ack, venue, reply, answers, deaths>>

AttemptEvents(i, a) == {k \in DOMAIN log[i] : log[i][k].attempt = a}

(* The intent, its acknowledgement and the attempt are read first; a         *)
(* committed attempt is answered from the ledger.                            *)
Begin(c, i, a) ==
    /\ call[c] = Idle /\ log[i] # <<>>
    /\ IF AttemptEvents(i, a) # {}
       THEN /\ \E k \in AttemptEvents(i, a) : Answer(i, a, log[i][k].outcome)
            /\ UNCHANGED call
       ELSE /\ call' = [call EXCEPT ![c] = [Idle EXCEPT !.pc = "orders", !.intent = i, !.attempt = a,
                                                        !.seen = ack[i]]]
            /\ UNCHANGED answers
    /\ UNCHANGED <<log, ack, venue, reply, deaths>>

Matching(i) == {o \in Orders : venue[o] # None /\ venue[o].intent = i /\ venue[o].current}

(* _find_current_orders, _validate_order and the check of the identity *)
FindOrders(c) ==
    /\ call[c].pc = "orders"
    /\ LET found == Matching(call[c].intent) IN
       \/ found = {} /\ Goto(c, "missing")
       \/ \E o \in found :
             IF found = {o} /\ (call[c].seen # None => call[c].seen.order = o)
             THEN call' = [call EXCEPT ![c].pc = "fills", ![c].order = Snapshot(o)]
             ELSE Return(c)
    /\ UNCHANGED <<log, ack, venue, reply, answers, deaths>>

Inconclusive(a) ==
    [found |-> FALSE, order |-> IF a = None THEN None ELSE a.order,
     status |-> IF a = None THEN None ELSE Status(a), fills |-> 0]

(* Nothing found: the identity known by now is kept, under the intent's lock *)
RecordMissing(c) ==
    /\ call[c].pc = "missing"
    /\ LET i == call[c].intent
           x == Inconclusive(ack[i])
           e == AttemptRecorded(call[c].attempt, x)
       IN  IF Recordable(log[i], ack[i], e)
           THEN /\ RecordEvent(i, e) /\ Answer(i, call[c].attempt, x) /\ Return(c)
                /\ UNCHANGED <<venue, reply, deaths>>
           ELSE Raise(c)

(* _get_current_fills *)
GetFills(c) ==
    /\ call[c].pc = "fills"
    /\ LET o == call[c].order.order IN
       call' = [call EXCEPT ![c].pc = "matched", ![c].fills = IF venue[o].current THEN venue[o].filled ELSE 0]
    /\ UNCHANGED <<log, ack, venue, reply, answers, deaths>>

(* Mutant: an acknowledgement made meanwhile is a conflict. *)
ReadAcknowledgementOnce(c) ==
    /\ call[c].pc = "matched"
    /\ IF ack[call[c].intent] # None
       THEN Return(c)
       ELSE call' = [call EXCEPT ![c].pc = "write", ![c].fresh = TRUE]
    /\ UNCHANGED <<log, ack, venue, reply, answers, deaths>>

(* The acknowledgement is read again before the row is locked. *)
ReadAcknowledgement(c) ==
    /\ call[c].pc = "matched"
    /\ LET a == ack[call[c].intent] IN
       IF a # None /\ a.order # call[c].order.order
       THEN Return(c)
       ELSE call' = [call EXCEPT ![c].pc = "write", ![c].fresh = (a = None)]
    /\ UNCHANGED <<log, ack, venue, reply, answers, deaths>>

Matched(c) ==
    [found |-> TRUE, order |-> call[c].order.order, status |-> Status(call[c].order), fills |-> call[c].fills]

(* Mutant: the first fill is left to another transaction. *)
FillEventsShort(c) == [k \in 1..(IF call[c].fills = 0 THEN 0 ELSE call[c].fills - 1) |->
                          FillObserved(call[c].order.order, k + 1)]

FillEvents(c) == [k \in 1..call[c].fills |-> FillObserved(call[c].order.order, k)]

(* The one transaction of a match; it is all or nothing. *)
WriteMatch(c) ==
    /\ call[c].pc = "write"
    /\ LET i == call[c].intent
           s == call[c].order
           e == AttemptRecorded(call[c].attempt, Matched(c))
           a == IF call[c].fresh THEN s ELSE ack[i]
           acknowledged == IF call[c].fresh THEN WithAcknowledgement(log[i], ack[i], s) ELSE log[i]
           filled == WithEvents(acknowledged, FillEvents(c))
       IN  IF (call[c].fresh => Acknowledgeable(i, s)) /\ Recordable(filled, a, e)
           THEN /\ ack' = [ack EXCEPT ![i] = a]
                /\ log' = [log EXCEPT ![i] = WithEvent(WithEvent(filled, OrderObserved(s)), e)]
                /\ Answer(i, call[c].attempt, Matched(c))
                /\ Return(c)
                /\ UNCHANGED <<venue, reply, deaths>>
           ELSE Raise(c)

Fail(c) ==
    /\ deaths < MaxDeaths /\ call[c] # Idle
    /\ Return(c)
    /\ deaths' = deaths + 1
    /\ UNCHANGED <<log, ack, venue, reply, answers>>

CallStep(c) ==
    FindOrders(c) \/ RecordMissing(c) \/ GetFills(c) \/ ReadAcknowledgement(c) \/ WriteMatch(c)

Environment ==
    \/ \E i \in Intents : RecordSubmission(i) \/ Transmit(i) \/ Impostor(i) \/ AcknowledgeReply(i)
    \/ \E o \in Orders : VenueFill(o) \/ VenueCancel(o) \/ AgeOut(o)

Next ==
    \/ Environment
    \/ \E c \in Callers : CallStep(c) \/ Fail(c) \/ \E i \in Intents, a \in Attempts : Begin(c, i, a)

Spec == Init /\ [][Next]_vars

(* A call that runs goes on, and whoever wants an attempt reconciled repeats *)
(* the call until it is answered.                                            *)
FairSpec ==
    /\ Spec
    /\ \A c \in Callers : WF_vars(CallStep(c))
    /\ \A c \in Callers, i \in Intents, a \in Attempts : SF_vars(Begin(c, i, a))
-----------------------------------------------------------------------------
EventsOf(i, kind) == {k \in DOMAIN log[i] : log[i][k].kind = kind}

(* "Matched and inconclusive outcomes use the same dedupe key, preventing    *)
(* contradictory outcomes for one attempt": however calls of one attempt of  *)
(* an intent overlap, die and repeat, all that return say the same           *)
(* (reconcile_intent).                                                       *)
AnswersAgree == \A ia \in Intents \X Attempts : \A x, y \in answers[ia] : x = y

(* A committed match brought its evidence with it: as many fills and an      *)
(* order snapshot stand before it in the log (reconcile_intent's             *)
(* transaction).                                                             *)
MatchIsWhole ==
    \A i \in Intents : \A k \in EventsOf(i, "attempt") :
        LET x == log[i][k].outcome IN x.found =>
            /\ \A n \in 1..x.fills : \E j \in 1..(k - 1) : log[i][j] = FillObserved(x.order, n)
            /\ \E j \in 1..(k - 1) : log[i][j].kind = "order" /\ Status(log[i][j].snapshot) = x.status

(* All provider evidence of an intent names one order, the acknowledged one, *)
(* and follows its acknowledgement, although the venue may show another      *)
(* order under the same client order id (record_event, _find_current_orders).*)
OneIdentity ==
    \A i \in Intents : \A k \in DOMAIN log[i] :
        log[i][k].order # None =>
            /\ ack[i] # None /\ log[i][k].order = ack[i].order
            /\ \E j \in 1..k : log[i][j] = Acknowledged(ack[i])

(* No evidence is recorded twice: retries and overlapping attempts add what  *)
(* is new only (record_event's dedupe key).                                  *)
EvidenceIsUnique ==
    \A i \in Intents : \A j, k \in DOMAIN log[i] : SameKey(log[i][j], log[i][k]) => j = k

(* "An aged-out current-order miss rechecks and retains any already-known    *)
(* immutable provider identity": an inconclusive attempt after the           *)
(* acknowledgement names its order, one before it none (reconcile_intent).   *)
MissKeepsIdentity ==
    \A i \in Intents : \A k \in EventsOf(i, "attempt") :
        LET x == log[i][k].outcome IN ~x.found =>
            (x.order # None <=> \E j \in 1..(k - 1) : log[i][j].kind = "acknowledged")

(* What an intent's log is worth as evidence: nothing twice, nothing left    *)
(* out, nothing forgotten, however reads and writers overlap.                *)
EvidenceInv == TypeOK /\ EvidenceIsUnique /\ MatchIsWhole /\ MissKeepsIdentity

(* One current order that the ledger can take, or none *)
Reconcilable(i) ==
    /\ log[i] # <<>>
    /\ \A o \in Matching(i) :
          /\ Matching(i) = {o}
          /\ IF ack[i] # None THEN ack[i].order = o ELSE venue[o].filled + venue[o].remaining = Quantity

(* Reads that overlap writers fail closed but never for good: while the      *)
(* venue shows at most one order, which the ledger can take, every attempt   *)
(* that is repeated is answered (reconcile_intent).                          *)
AttemptsAreAnswered ==
    \A i \in Intents, a \in Attempts :
        <>[]Reconcilable(i) => <>(AttemptEvents(i, a) # {})
=============================================================================
