----------------------------- MODULE TimeBuffer -----------------------------
(***************************************************************************)
(* TimeBuffer of the synedex oracle: a ring of CAP entries indexed by time *)
(* in units of STEP. data maps an index to an entry, start holds the index *)
(* and the time at which the ring begins; older entries stay in data and   *)
(* are filtered out by all.                                                *)
(***************************************************************************)
EXTENDS Integers, Sequences, SequencesExt, TLC

CONSTANTS STEP, CAP

BufferAssumption == STEP \in Nat \ {0} /\ CAP \in Nat \ {0}

NoStart == [index |-> 0, time |-> -1]

Empty == [data |-> <<>>, start |-> NoStart]

\* Some(start), or a start at the given time when none is stored.
StartOr(b, time) == IF b.start = NoStart THEN [index |-> 0, time |-> time] ELSE b.start

\* The index before it is wrapped.
ActualIdx(start, timestamp) == (timestamp - start.time) \div STEP + start.index

Skipped(start, timestamp) == timestamp >= start.time + STEP * CAP

\* The start moves behind the entry that is about to be stored.
Moved(start, timestamp) ==
    LET actual_idx == ActualIdx(start, timestamp) IN
    IF Skipped(start, timestamp)
    THEN [index |-> (actual_idx + 1) % CAP, time |-> start.time + (actual_idx + 1 - CAP) * STEP]
    ELSE start

\* save panics when the timestamp is before the start.
CanSave(b, timestamp) == timestamp >= StartOr(b, timestamp).time

save(b, timestamp, value) ==
    LET start == StartOr(b, timestamp)
        actual_idx == ActualIdx(start, timestamp) % CAP IN
    [data |-> (actual_idx :> [time |-> timestamp, value |-> value]) @@ b.data,
     start |-> Moved(start, timestamp)]

is_valid(time, entry) == entry.time >= time

\* The valid entries, from the start index to the end and then from 0 on.
all(b, now) ==
    LET start == StartOr(b, now)
        Entries(S) == LET idx == SetToSortSeq(S, <) IN [i \in DOMAIN idx |-> b.data[idx[i]]]
        ring == Entries({i \in DOMAIN b.data : i >= start.index})
                    \o Entries({i \in DOMAIN b.data : i < start.index})
    IN SelectSeq(ring, LAMBDA x : is_valid(start.time, x))

=============================================================================
