---------------------------- MODULE IntentJournal ----------------------------
(***************************************************************************)
(* The append-only intent journal of the fast order path                   *)
(* (intent_journal.py) for one trader: the file, the part of it that is on *)
(* stable storage, and the in-memory index the submit path asks.           *)
(*                                                                         *)
(* A record is abstracted to its kind and its signal; every status the     *)
(* callers record is a terminal one.  The size that triggers a compaction  *)
(* is counted in records instead of bytes.                                 *)
(***************************************************************************)
EXTENDS Naturals, SequencesExt, FiniteSetsExt

CONSTANTS
    Signals,
    CompactAt       \* records at which the file is rewritten

ASSUME JournalAssumption == IsFiniteSet(Signals) /\ CompactAt \in Nat \ {0}

VARIABLES
    faults,     \* what this behaviour may meet: chosen at the start, see FastSubmit
    file,       \* the records that load would read
    synced,     \* how many of them are on stable storage
    torn,       \* the file ends in a partial line
    index       \* _index: what each signal's last record says

journalVars == <<faults, file, synced, torn, index>>

Intent(s) == [kind |-> "intent", signal |-> s]
Result(s) == [kind |-> "result", signal |-> s]
Records == [kind : {"intent", "result"}, signal : Signals]
Marks == {"absent", "open", "done"}

Mark(r) == IF r.kind = "intent" THEN "open" ELSE "done"

(* load: the last record of a signal decides. *)
Loaded(f) ==
    [s \in Signals |->
        LET about == {k \in DOMAIN f : f[k].signal = s}
        IN IF about = {} THEN "absent" ELSE Mark(f[Max(about)])]

OpenIn(i) == {s \in Signals : i[s] = "open"}

(* Mutant: an intent is written without fsync. *)
AppendRecordUnsynced(r, sync) ==
    /\ file' = Append(file, r)
    /\ synced' = synced
    /\ torn' = FALSE
    /\ index' = [index EXCEPT ![r.signal] = Mark(r)]
    /\ UNCHANGED faults

(* _append: write, fsync if asked, index, and compact a file that has grown. *)
(* The write continues a partial last line, which no load can parse then.    *)
AppendRecord(r, sync) ==
    LET written == IF torn THEN file ELSE Append(file, r)
        marked == [index EXCEPT ![r.signal] = Mark(r)]
        survivors == SetToSeq({Intent(s) : s \in OpenIn(marked)})
        compacts == "compact" \in faults /\ Len(written) >= CompactAt
    IN /\ file' = IF compacts THEN survivors ELSE written
       /\ synced' = CASE compacts -> Len(survivors)
                      [] sync /\ ~compacts -> Len(written)
                      [] OTHER -> synced
       /\ torn' = FALSE
       /\ index' = marked
       /\ UNCHANGED faults

RecordIntent(s) == AppendRecord(Intent(s), TRUE)
RecordResult(s) == AppendRecord(Result(s), FALSE)

(* get_intent_journal in a new process *)
Load ==
    /\ index' = Loaded(file)
    /\ UNCHANGED <<faults, file, synced, torn>>

(* The host loses what was not synced; the record at the cut, or one whose   *)
(* append was under way, may be left in part.                                *)
LosePageCache(mayTear) ==
    /\ \E n \in synced..Len(file) : file' = SubSeq(file, 1, n) /\ synced' = n
    /\ torn' \in IF mayTear THEN BOOLEAN ELSE {torn}
    /\ UNCHANGED <<faults, index>>

JournalInit ==
    /\ file = <<>> /\ synced = 0 /\ torn = FALSE
    /\ index = [s \in Signals |-> "absent"]
=============================================================================
