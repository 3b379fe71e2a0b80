------------------------- MODULE VenueExecutionLedger -------------------------
(***************************************************************************)
(* The append-only order ledger (venue_execution_ledger.py): intents, at   *)
(* most one initial provider acknowledgement each, and per intent an       *)
(* ordered log of evidence with a dedupe key.  The methods run inside      *)
(* their caller's transaction, under a lock on the intent's row, so they   *)
(* are given here as what they make of one intent's log; the actions are   *)
(* those of whoever composes them.                                         *)
(*                                                                         *)
(* An event carries the fields its key and its evidence are made of, None  *)
(* where it has none; its place in the log is its sequence number.         *)
(***************************************************************************)
EXTENDS Integers, Sequences

CONSTANTS
    Intents,
    Orders,     \* provider order ids
    Attempts,   \* reconciliation ids
    Quantity,   \* what every intent asks for
    None

ASSUME LedgerAssumption == Quantity \in Nat \ {0} /\ None \notin Orders /\ None \notin Attempts

VARIABLES
    log,        \* the events of each intent; empty: the intent is not recorded
    ack         \* the acknowledgement of each intent, or None

ledgerVars == <<log, ack>>

(* A provider's view of an order: KalshiOrder *)
Snapshots == [order : Orders, filled : 0..Quantity, remaining : 0..Quantity]
Status(s) ==
    IF s.remaining > 0 THEN "resting" ELSE IF s.filled = Quantity THEN "executed" ELSE "canceled"

ASSUME SnapshotsAssumption == None \notin Snapshots

Outcomes == [found : BOOLEAN, order : Orders \cup {None},
             status : {"resting", "executed", "canceled", None}, fills : 0..Quantity]

Event(kind, order, fill, snapshot, attempt, outcome) ==
    [kind |-> kind, order |-> order, fill |-> fill, snapshot |-> snapshot, attempt |-> attempt,
     outcome |-> outcome]
IntentRecorded == Event("intent", None, None, None, None, None)
SubmissionStarted == Event("started", None, None, None, None, None)
Acknowledged(s) == Event("acknowledged", s.order, None, s, None, None)
FillObserved(o, k) == Event("fill", o, k, None, None, None)
OrderObserved(s) == Event("order", s.order, None, s, None, None)
AttemptRecorded(a, x) == Event("attempt", IF x.found THEN x.order ELSE None, None, None, a, x)

(* dedupe_key *)
SameKey(e, f) ==
    /\ e.kind = f.kind /\ e.attempt = f.attempt
    /\ e.kind # "attempt" => e.order = f.order /\ e.fill = f.fill /\ e.snapshot = f.snapshot

Recorded(l, e) == \E k \in DOMAIN l : SameKey(l[k], e)

(* Mutant: one key, whatever is recorded under it. *)
RecordableUnder(l, a, e) ==
    /\ l # <<>>
    /\ e.order # None => a # None /\ a.order = e.order

(* record_event raises when the key is bound to other evidence, or names an  *)
(* order that is not the acknowledged one.                                   *)
Recordable(l, a, e) ==
    /\ l # <<>>
    /\ \A k \in DOMAIN l : SameKey(l[k], e) => l[k] = e
    /\ e.order # None => a # None /\ a.order = e.order

WithEvent(l, e) == IF Recorded(l, e) THEN l ELSE Append(l, e)

(* record_event for each of several pieces of evidence *)
WithEvents(l, es) ==
    LET F[k \in 0..Len(es)] == IF k = 0 THEN l ELSE WithEvent(F[k - 1], es[k])
    IN  F[Len(es)]

(* Mutant: a later acknowledgement replaces the first. *)
AcknowledgeableAnew(i, s) ==
    /\ log[i] # <<>>
    /\ s.filled + s.remaining = Quantity
    /\ \A j \in Intents \ {i} : ack[j] # None => ack[j].order # s.order

(* record_initial_acknowledgement *)
Acknowledgeable(i, s) ==
    /\ log[i] # <<>>
    /\ s.filled + s.remaining = Quantity
    /\ ack[i] # None => ack[i] = s
    /\ \A j \in Intents \ {i} : ack[j] # None => ack[j].order # s.order

WithAcknowledgement(l, a, s) == IF a = None THEN Append(l, Acknowledged(s)) ELSE l

(* record_intent; a replay changes nothing, other facts raise. *)
RecordIntent(i) ==
    /\ log[i] = <<>>
    /\ log' = [log EXCEPT ![i] = <<IntentRecorded>>]
    /\ UNCHANGED ack

RecordEvent(i, e) ==
    /\ Recordable(log[i], ack[i], e)
    /\ log' = [log EXCEPT ![i] = WithEvent(@, e)]
    /\ UNCHANGED ack

RecordInitialAcknowledgement(i, s) ==
    /\ Acknowledgeable(i, s)
    /\ log' = [log EXCEPT ![i] = WithAcknowledgement(@, ack[i], s)]
    /\ ack' = [ack EXCEPT ![i] = s]

LedgerInit ==
    /\ log = [i \in Intents |-> <<>>]
    /\ ack = [i \in Intents |-> None]
=============================================================================
