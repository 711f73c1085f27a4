----------------------------- MODULE RingBuffer -----------------------------
(***************************************************************************)
(* One TimeBuffer that is fed at increasing times at least one step apart, *)
(* as store_price does. saved remembers every timestamp.                   *)
(***************************************************************************)
EXTENDS TimeBuffer

CONSTANT MaxTime

VARIABLES buffer, saved, now

vars == <<buffer, saved, now>>

Init == buffer = Empty /\ saved = {} /\ now = 0

\* The caller saves when a step has passed since the last time.
Save ==
    /\ \A t \in saved : t + STEP <= now
    /\ CanSave(buffer, now)
    /\ buffer' = save(buffer, now, now)
    /\ saved' = saved \cup {now}
    /\ now' = now

Tick == now < MaxTime /\ now' = now + 1 /\ UNCHANGED <<buffer, saved>>

Next == Save \/ Tick

Spec == Init /\ [][Next]_vars

-----------------------------------------------------------------------------
(* Properties *)

Times == LET entries == all(buffer, now) IN [i \in DOMAIN entries |-> entries[i].time]

\* However often the ring has wrapped and whatever was skipped, the valid
\* entries come in the order of their timestamps.
EntriesOrdered == \A i, j \in DOMAIN Times : i < j => Times[i] < Times[j]

\* The ring never reports anything older than its span of CAP steps, and the
\* value saved last is reported: so its start is never ahead of the time, and
\* no save panics.
SpanKept ==
    saved /= {} =>
        LET last == CHOOSE t \in saved : \A u \in saved : u <= t IN
        /\ \A i \in DOMAIN Times : Times[i] \in saved /\ last - Times[i] < STEP * CAP
        /\ \E i \in DOMAIN Times : Times[i] = last

\* The ring spans CAP steps: what was saved less than CAP - 1 steps before
\* the last value is still reported.
WindowKept ==
    \A t, last \in saved :
        (\A u \in saved : u <= last) /\ last - t < STEP * (CAP - 1) => \E i \in DOMAIN Times : Times[i] = t

=============================================================================
