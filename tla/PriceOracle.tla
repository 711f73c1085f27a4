---------------------------- MODULE PriceOracle ----------------------------
(***************************************************************************)
(* The price histories of the synedex oracle: store_price keeps the price  *)
(* of every ordered pair of assets in three ring buffers, for the last 15  *)
(* minutes, the last day and the last week.                                *)
(***************************************************************************)
EXTENDS Integers, Sequences, SequencesExt, FiniteSets, FiniteSetsExt, TLC

CONSTANTS
    AssetInfos,          \* the assets of the pair, in order
    Prices,
    FirstBlock,          \* time of the first swap, in seconds
    BlockGaps,           \* seconds between blocks
    MaxBlocks, MaxStored

OracleAssumption == FirstBlock \in Nat /\ BlockGaps \subseteq Nat /\ IsInjective(AssetInfos)

MINUTE == 60
HALF_HOUR == 30 * MINUTE
TWELVE_HOURS == 60 * MINUTE

Minutes == INSTANCE TimeBuffer WITH STEP <- MINUTE, CAP <- 15
Day == INSTANCE TimeBuffer WITH STEP <- HALF_HOUR, CAP <- 48
Week == INSTANCE TimeBuffer WITH STEP <- TWELVE_HOURS, CAP <- 14

VARIABLES
    last_updated,        \* LAST_UPDATED
    minutes, day, week,  \* the three buffers
    now, blocks,
    log                  \* every call of store_price: time and price per pair

vars == <<last_updated, minutes, day, week, now, blocks, log>>

-----------------------------------------------------------------------------

Pairs == {p \in Range(AssetInfos) \X Range(AssetInfos) : p[1] /= p[2]}

\* The pairs by first asset, then by second.
cartesian_product ==
    FlattenSeq([i \in DOMAIN AssetInfos |->
        SelectSeq([j \in DOMAIN AssetInfos |-> <<AssetInfos[i], AssetInfos[j]>>], LAMBDA p : p[1] /= p[2])])

combinations == cartesian_product

AssetInfoIndex(p) == CHOOSE i \in DOMAIN cartesian_product : cartesian_product[i] = p

\* The prices of the points in the order of the pairs.
Sorted(points) ==
    LET s == SortSeq(points, LAMBDA x, y : AssetInfoIndex(x.pair) < AssetInfoIndex(y.pair))
    IN [i \in DOMAIN s |-> s[i].price]

Init ==
    /\ last_updated = [minutes |-> 0, half_hours |-> 0, twelve_hours |-> 0]
    /\ minutes = Minutes!Empty /\ day = Day!Empty /\ week = Week!Empty
    /\ now = FirstBlock /\ blocks = 0 /\ log = {}

\* Fault: a step must have passed in full.
DueFor_Over(last, step) == last + step < now

DueFor(last, step) == last + step <= now

LastUpdated ==
    [last_updated EXCEPT !.minutes = IF DueFor(@, MINUTE) THEN now ELSE @,
                         !.half_hours = IF DueFor(@, HALF_HOUR) THEN now ELSE @,
                         !.twelve_hours = IF DueFor(@, TWELVE_HOURS) THEN now ELSE @]

\* A second call in the block of an entry returns at once.
store_price(points) ==
    LET prices == Sorted(points) IN
    /\ Cardinality(log) < MaxStored
    /\ log' = log \cup {[time |-> now, points |-> ToSet(points)]}
    /\ UNCHANGED <<now, blocks>>
    /\ IF now = last_updated.minutes THEN UNCHANGED <<last_updated, minutes, day, week>>
       ELSE /\ last_updated' = LastUpdated
            /\ minutes' = IF DueFor(last_updated.minutes, MINUTE) THEN Minutes!save(minutes, now, prices) ELSE minutes
            /\ day' = IF DueFor(last_updated.half_hours, HALF_HOUR) THEN Day!save(day, now, prices) ELSE day
            /\ week' = IF DueFor(last_updated.twelve_hours, TWELVE_HOURS) THEN Week!save(week, now, prices) ELSE week

\* The entries of a buffer as one history per pair.
query_timebuffer(entries) ==
    [c \in DOMAIN combinations |->
        [pair |-> combinations[c],
         prices |-> [i \in DOMAIN entries |-> [time |-> entries[i].time, price |-> entries[i].value[c]]]]]

query_historical ==
    [fifteen_minutes |-> query_timebuffer(Minutes!all(minutes, now)),
     day |-> query_timebuffer(Day!all(day, now)),
     week |-> query_timebuffer(Week!all(week, now))]

NextBlock(gap) ==
    /\ blocks < MaxBlocks
    /\ now' = now + gap /\ blocks' = blocks + 1
    /\ UNCHANGED <<last_updated, minutes, day, week, log>>

\* The caller passes one point per pair, in any order.
Points ==
    {[i \in DOMAIN order |-> [pair |-> order[i], price |-> price[order[i]]]] :
        order \in SetToSeqs(Pairs), price \in [Pairs -> Prices]}

Next ==
    \/ \E points \in Points : store_price(points)
    \/ \E gap \in BlockGaps : NextBlock(gap)

Spec == Init /\ [][Next]_vars

-----------------------------------------------------------------------------
(* Properties *)

Histories == {query_historical.fifteen_minutes, query_historical.day, query_historical.week}

\* Every price that is reported was stored for that pair at that time,
\* whatever order the caller uses and however often it calls in a block.
HistoryTrue ==
    \A h \in Histories : \A c \in DOMAIN h : \A i \in DOMAIN h[c].prices :
        \E x \in log : x.time = h[c].prices[i].time
                          /\ [pair |-> h[c].pair, price |-> h[c].prices[i].price] \in x.points

Spaced(h, gap) ==
    \A c \in DOMAIN h : \A i, j \in DOMAIN h[c].prices :
        i /= j => h[c].prices[i].time - h[c].prices[j].time \notin (1 - gap) .. (gap - 1)

\* The entries of a history are at least a step apart, so that the ring of
\* CAP entries spans the time it is for.
StepsApart ==
    /\ Spaced(query_historical.fifteen_minutes, MINUTE)
    /\ Spaced(query_historical.day, HALF_HOUR)

\* In the block of a swap the history of minutes has a price of the last minute.
RecentPrice ==
    (\E x \in log : x.time = now) =>
        \E i \in DOMAIN Minutes!all(minutes, now) : now - Minutes!all(minutes, now)[i].time < MINUTE

\* The history of the week has one entry every twelve hours.
WeekByTwelveHours == Spaced(query_historical.week, 12 * 60 * MINUTE)

=============================================================================
