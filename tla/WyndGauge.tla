------------------------------ MODULE WyndGauge ------------------------------
(***************************************************************************)
(* synergistic_wynd_gauge: members of the DAO decide how the bWYND         *)
(* converter spreads its votes in a gauge of WYND. The WYND gauge, its     *)
(* adapter and the powers of the members are external; the converter only  *)
(* passes the votes on, so its two handlers are here too. Nothing sets     *)
(* Gauge::reset (its handler is commented out), so no gauge is resetting   *)
(* and no vote expires. Decimals are numbers of 1/One; 0 is None for the   *)
(* two optional limits, as it is in UpdateGauge.                           *)
(***************************************************************************)
EXTENDS Integers, Sequences, FiniteSets, FiniteSetsExt, SequencesExt, Functions, TLC

CONSTANTS
    Users,
    Options,             \* names of options, ordered as their strings are
    One,                 \* Decimal::one()
    Wynd,                \* the WYND gauge: epoch size, limits, options of the adapter
    PendingSizes,        \* inputs of CreateGauge
    GaugeUpdates,        \* inputs of UpdateGauge: functions on some fields
    ShortestEpoch,       \* 60 seconds in the code
    VoteLists,           \* inputs of PlaceVotes
    Removable,           \* inputs of RemoveOption
    Addable,             \* inputs of AddOption
    ConfigUpdates,       \* inputs of UpdateGaugeConfig of the converter
    Stoppable,           \* whether the owner stops gauges
    Hooks,               \* whether a change of power may call MemberChangedHook, may not, or both
    Powers, FirstPower,
    MaxGauges, MaxTime, MaxEpochs

None == "none"
This == "synergistic gauge"
WyndContract == "WYND gauge"

VARIABLES
    gauges,              \* GAUGES, a function on 0 .. LAST_ID - 1
    last_epoch,          \* LAST_EPOCH
    vote_history,        \* VOTE_HISTORY by gauge and epoch
    votes,               \* votes by voter and gauge
    tally,               \* TALLY by gauge and option
    by_points,           \* keys of OPTION_BY_POINTS: gauge, points, option
    total_cast,          \* TOTAL_CAST
    gauge_cfg,           \* GAUGE_CONFIG of the converter
    placed,              \* the last votes the WYND gauge received
    hooked,              \* the voting power contract of instantiate calls MemberChangedHook
    wynd_next_epoch, power, now

tallies == <<tally, by_points, total_cast>>
converter == <<gauge_cfg, placed>>
environment == <<hooked, wynd_next_epoch, power, now>>
vars == <<gauges, last_epoch, vote_history, votes, tallies, converter, environment>>

fetch_last_id == Cardinality(DOMAIN gauges)

-----------------------------------------------------------------------------
(* Tallies. They are changed together: [ok, tally, by_points, total_cast],  *)
(* where ok turns FALSE when a u128 would fall below zero.                  *)

Tallies == [ok |-> TRUE, tally |-> tally, by_points |-> by_points, total_cast |-> total_cast]

SetTallies(t) == t.ok /\ tally' = t.tally /\ by_points' = t.by_points /\ total_cast' = t.total_cast

ValueOr(f, key, default) == IF key \in DOMAIN f THEN f[key] ELSE default

\* One round of the loop of update_tallies.
UpdateOne(id, t, u) ==
    LET key == <<id, u.option>>
        count == ValueOr(t.tally, key, 0) + u.new - u.old
        stale == IF key \in DOMAIN t.tally THEN {<<id, t.tally[key], u.option>>} ELSE {}
    IN  [t EXCEPT !.ok = @ /\ count >= 0, !.tally = (key :> count) @@ @,
                  !.by_points = (@ \ stale) \union {<<id, count, u.option>>}]

\* updates: a list of [option, old, new]
update_tallies(t, id, updates) ==
    LET total == FoldLeft(LAMBDA s, u : s + u.new - u.old, ValueOr(t.total_cast, id, 0), updates)
        s == FoldLeft(LAMBDA acc, u : UpdateOne(id, acc, u), t, updates)
    IN  [s EXCEPT !.ok = @ /\ total >= 0, !.total_cast = (id :> total) @@ @]

update_tally(t, id, option, old, new) == update_tallies(t, id, <<[option |-> option, old |-> old, new |-> new]>>)

\* Fault: the points of the option stay in the total.
remove_tally_KeepTotal(t, id, option) ==
    LET key == <<id, option>> IN
    [t EXCEPT !.tally = Restrict(@, DOMAIN @ \ {key}), !.by_points = @ \ {<<id, t.tally[key], option>>}]

remove_tally(t, id, option) ==
    LET key == <<id, option>> IN
    [t EXCEPT !.tally = Restrict(@, DOMAIN @ \ {key}), !.by_points = @ \ {<<id, t.tally[key], option>>},
              !.total_cast[id] = @ - t.tally[key]]

-----------------------------------------------------------------------------
(* Selection *)

Above(x, y) == x[2] > y[2] \/ (x[2] = y[2] /\ x[3] > y[3])

from_ratio(n, d) == (n * One) \div d

selected_set(id) ==
    LET g == gauges[id]
        total == total_cast[id]
        Enough(e) == IF g.min_percent_selected # 0 THEN from_ratio(e[2], total) >= g.min_percent_selected ELSE e[2] # 0
        Cut(p) == IF g.max_available_percentage # 0 /\ from_ratio(p, total) > g.max_available_percentage
                  THEN (total * g.max_available_percentage) \div One ELSE p
        top == SetToSortSeq({e \in by_points : e[1] = id /\ Enough(e)}, Above)
    IN  IF total = 0 THEN <<>>
        ELSE [i \in 1 .. Min({Len(top), g.max_options_selected}) |-> [option |-> top[i][3], power |-> Cut(top[i][2])]]

SumOfPowers(set) == FoldLeft(LAMBDA s, v : s + v.power, 0, set)

\* TOTAL_CAST must exist, and from_ratio panics when it divides by zero.
SelectionComputes(id) ==
    id \in DOMAIN total_cast /\ (selected_set(id) # <<>> => SumOfPowers(selected_set(id)) > 0)

\* The weights of place_votes and execute: shares of the selected options.
SelectedVotes(id) ==
    LET set == selected_set(id) IN
    [i \in DOMAIN set |-> [option |-> set[i].option, weight |-> from_ratio(set[i].power, SumOfPowers(set))]]

-----------------------------------------------------------------------------
(* Epochs *)

is_pending(g) ==
    \/ g.next_epoch - g.epoch_pending_size < now /\ now <= g.next_epoch
    \/ now > g.next_epoch /\ now > wynd_next_epoch

\* The subtraction in is_pending panics otherwise.
PendingComputes(g) == g.epoch_pending_size <= g.next_epoch

InNewEpoch(g) == now > g.next_epoch /\ now < wynd_next_epoch

\* Fault: the record of the running epoch is written again.
update_epoch_SameEpoch(id, g, list, executed) ==
    /\ last_epoch[id] < MaxEpochs
    /\ vote_history' = (<<id, last_epoch[id]>> :>
            [epoch |-> g.epoch, next_epoch |-> g.next_epoch, votes |-> list, executed |-> executed]) @@ vote_history
    /\ UNCHANGED last_epoch
    /\ gauges' = [gauges EXCEPT ![id] = [g EXCEPT !.next_epoch = wynd_next_epoch]]

\* Fault: the end of the epoch is not moved.
update_epoch_KeepEnd(id, g, list, executed) ==
    /\ last_epoch[id] < MaxEpochs
    /\ vote_history' = (<<id, last_epoch[id]>> :>
            [epoch |-> g.epoch, next_epoch |-> g.next_epoch, votes |-> list, executed |-> executed]) @@ vote_history
    /\ last_epoch' = [last_epoch EXCEPT ![id] = @ + 1]
    /\ gauges' = [gauges EXCEPT ![id] = g]

update_epoch(id, g, list, executed) ==
    /\ last_epoch[id] < MaxEpochs
    /\ vote_history' = (<<id, last_epoch[id]>> :>
            [epoch |-> g.epoch, next_epoch |-> g.next_epoch, votes |-> list, executed |-> executed]) @@ vote_history
    /\ last_epoch' = [last_epoch EXCEPT ![id] = @ + 1]
    /\ gauges' = [gauges EXCEPT ![id] = [g EXCEPT !.next_epoch = wynd_next_epoch]]

-----------------------------------------------------------------------------
(* Gauges. CreateGauge, UpdateGauge, StopGauge and RemoveOption are the     *)
(* owner's; the gauges of instantiate are created the same way.             *)

Init ==
    /\ gauges = <<>> /\ last_epoch = <<>> /\ vote_history = <<>> /\ votes = <<>>
    /\ tally = <<>> /\ by_points = {} /\ total_cast = <<>>
    /\ gauge_cfg = [wynd_gauge_contract |-> WyndContract, synergistic_wynd_gauge_contract |-> None]
    /\ placed = <<>> /\ wynd_next_epoch = Wynd.epoch /\ power = [u \in Users |-> FirstPower] /\ now = 0
    /\ hooked \in Hooks

add_option(t, id, option) == update_tally(t, id, option, 0, 0)

\* attach_gauge fails when one of the adapter's options is already there.
create_gauge(pending) ==
    LET id == fetch_last_id IN
    /\ id < MaxGauges
    /\ ~Wynd.is_stopped
    /\ \A i \in DOMAIN Wynd.options : <<id, Wynd.options[i]>> \notin DOMAIN tally
    /\ gauges' = (id :> [epoch |-> Wynd.epoch, min_percent_selected |-> Wynd.min_percent_selected,
                         max_options_selected |-> Wynd.max_options_selected,
                         max_available_percentage |-> Wynd.max_available_percentage, is_stopped |-> FALSE,
                         next_epoch |-> wynd_next_epoch, epoch_pending_size |-> pending,
                         last_executed_set |-> None]) @@ gauges
    /\ last_epoch' = (id :> 0) @@ last_epoch
    /\ SetTallies(FoldLeft(LAMBDA t, o : add_option(t, id, o), Tallies, Wynd.options))
    /\ UNCHANGED <<vote_history, votes, converter, environment>>

\* A number above the limit of its field makes the call fail.
UpdateAccepted(update) ==
    /\ \A f \in DOMAIN update \intersect {"epoch", "epoch_pending_size"} : update[f] > ShortestEpoch
    /\ \A f \in DOMAIN update \intersect {"min_percent_selected", "max_available_percentage"} : update[f] < One
    /\ "max_options_selected" \in DOMAIN update => update.max_options_selected > 0

update_gauge(id, update) ==
    /\ UpdateAccepted(update)
    /\ gauges' = [gauges EXCEPT ![id] = update @@ @]
    /\ UNCHANGED <<last_epoch, vote_history, votes, tallies, converter, environment>>

stop_gauge(id) ==
    /\ Stoppable
    /\ gauges' = [gauges EXCEPT ![id].is_stopped = TRUE]
    /\ UNCHANGED <<last_epoch, vote_history, votes, tallies, converter, environment>>

remove_option(id, option) ==
    /\ <<id, option>> \in DOMAIN tally
    /\ SetTallies(remove_tally(Tallies, id, option))
    /\ UNCHANGED <<gauges, last_epoch, vote_history, votes, converter, environment>>

\* Anyone; execute passes check_option = false, so nothing else is checked.
AddOption(id, option) ==
    /\ <<id, option>> \notin DOMAIN tally
    /\ SetTallies(add_option(Tallies, id, option))
    /\ UNCHANGED <<gauges, last_epoch, vote_history, votes, converter, environment>>

-----------------------------------------------------------------------------
(* Votes *)

VotedFor(list) == {list[i].option : i \in DOMAIN list}

\* The HashMap of place_votes keeps the last weight of an option.
WeightFor(list, option) ==
    IF option \in VotedFor(list) THEN list[Max({i \in DOMAIN list : list[i].option = option})].weight ELSE 0

Share(p, weight) == (p * weight) \div One

NoVote == [power |-> 0, votes |-> <<>>, cast |-> 0]

may_load(u, id) == ValueOr(votes, <<u, id>>, NoVote)

set_votes(u, id, new) == (<<u, id>> :> new) @@ votes

remove_votes(u, id) == Restrict(votes, DOMAIN votes \ {<<u, id>>})

\* The map diff of place_votes, as a list.
VoteDiff(old, new) ==
    LET all == SetToSeq(VotedFor(old.votes) \union VotedFor(new.votes)) IN
    [i \in DOMAIN all |-> [option |-> all[i], old |-> Share(old.power, WeightFor(old.votes, all[i])),
                           new |-> Share(new.power, WeightFor(new.votes, all[i]))]]

TotalWeight(list) == FoldLeft(LAMBDA s, v : s + v.weight, 0, list)

\* <<>> stands for no list as well: both remove the vote.
place_votes(u, id, list) ==
    LET g == gauges[id]
        key == <<u, id>>
        new == [power |-> power[u], votes |-> list, cast |-> now]
        diff == VoteDiff(may_load(u, id), new)
    IN
    /\ PendingComputes(g) /\ ~is_pending(g)
    /\ IF InNewEpoch(g)
       THEN SelectionComputes(id) /\ update_epoch(id, g, SelectedVotes(id), FALSE)
       ELSE UNCHANGED <<gauges, last_epoch, vote_history>>
    /\ TotalWeight(list) <= One
    /\ power[u] > 0
    /\ key \in DOMAIN votes \/ list # <<>>
    /\ \A i \in DOMAIN diff : diff[i].old = 0 => <<id, diff[i].option>> \in DOMAIN tally
    /\ SetTallies(update_tallies(Tallies, id, diff))
    /\ votes' = IF list = <<>> THEN remove_votes(u, id) ELSE set_votes(u, id, new)
    /\ UNCHANGED <<converter, environment>>

\* Gauges a hook for a member goes through (at most MAX_LIMIT = 100 of them).
query_votes_by_voter(u) == {id \in DOMAIN gauges : <<u, id>> \in DOMAIN votes}

\* One diff of the hook. Every entry of a vote list is updated, stopped gauges too.
member_changed(u, old, new) ==
    LET Updates(id) == [i \in DOMAIN votes[u, id].votes |->
            LET v == votes[u, id].votes[i] IN [option |-> v.option, old |-> Share(old, v.weight), new |-> Share(new, v.weight)]]
    IN
    /\ SetTallies(FoldLeft(LAMBDA t, id : update_tallies(t, id, Updates(id)), Tallies, SetToSeq(query_votes_by_voter(u))))
    /\ votes' = [key \in DOMAIN votes |-> IF key[1] = u THEN [votes[key] EXCEPT !.power = new] ELSE votes[key]]

\* The converter passes the votes on when they come from the gauge it knows.
ConverterVote(list) ==
    /\ gauge_cfg.synergistic_wynd_gauge_contract = This
    /\ placed' = IF gauge_cfg.wynd_gauge_contract = WyndContract THEN list ELSE placed
    /\ UNCHANGED gauge_cfg

execute(id) ==
    LET g == gauges[id] IN
    /\ ~g.is_stopped
    /\ PendingComputes(g) /\ is_pending(g)
    /\ SelectionComputes(id)
    /\ ConverterVote(SelectedVotes(id))
    /\ update_epoch(id, [g EXCEPT !.last_executed_set = selected_set(id)], SelectedVotes(id), TRUE)
    /\ UNCHANGED <<votes, tallies, environment>>

\* The admin of the converter.
execute_update_gauge_config(update) ==
    /\ DOMAIN update # {}
    /\ gauge_cfg' = update @@ gauge_cfg
    /\ UNCHANGED <<gauges, last_epoch, vote_history, votes, tallies, placed, environment>>

-----------------------------------------------------------------------------
(* Environment *)

\* A member stakes or unstakes.
ChangePower(u, p) ==
    /\ p # power[u]
    /\ power' = [power EXCEPT ![u] = p]
    /\ IF hooked THEN member_changed(u, power[u], p) ELSE UNCHANGED <<votes, tallies>>
    /\ UNCHANGED <<gauges, last_epoch, vote_history, converter, hooked, wynd_next_epoch, now>>

\* Someone executes the WYND gauge once its epoch is over.
WyndExecute ==
    /\ now >= wynd_next_epoch
    /\ wynd_next_epoch' = now + Wynd.epoch
    /\ UNCHANGED <<gauges, last_epoch, vote_history, votes, tallies, converter, hooked, power, now>>

Tick ==
    /\ now < MaxTime
    /\ now' = now + 1
    /\ UNCHANGED <<gauges, last_epoch, vote_history, votes, tallies, converter, hooked, wynd_next_epoch, power>>

Next ==
    \/ \E p \in PendingSizes : create_gauge(p)
    \/ \E id \in DOMAIN gauges :
        \/ \E update \in GaugeUpdates : update_gauge(id, update)
        \/ stop_gauge(id)
        \/ \E o \in Removable : remove_option(id, o)
        \/ \E u \in Users, list \in VoteLists : place_votes(u, id, list)
        \/ execute(id)
    \/ \E id \in 0 .. MaxGauges - 1, o \in Addable : AddOption(id, o)
    \/ \E update \in ConfigUpdates : execute_update_gauge_config(update)
    \/ \E u \in Users, p \in Powers : ChangePower(u, p)
    \/ WyndExecute \/ Tick

Spec == Init /\ [][Next]_vars

-----------------------------------------------------------------------------
(* Properties *)

GaugeRecord ==
    [epoch : Nat, min_percent_selected : 0 .. One, max_options_selected : Nat, max_available_percentage : 0 .. One,
     is_stopped : BOOLEAN, next_epoch : Nat, epoch_pending_size : Nat, last_executed_set : {None}]

OptionVotes == [option : Options, weight : 0 .. One]

\* Tallies are natural numbers, votes belong to members and gauges, and
\* the history has exactly the epochs before LAST_EPOCH.
TypeOK ==
    /\ DOMAIN gauges \subseteq 0 .. MaxGauges - 1 /\ DOMAIN last_epoch = DOMAIN gauges
    /\ \A id \in DOMAIN gauges : [gauges[id] EXCEPT !.last_executed_set = None] \in GaugeRecord
    /\ DOMAIN votes \subseteq Users \X DOMAIN gauges
    /\ \A key \in DOMAIN votes : votes[key].votes \in Seq(OptionVotes) /\ votes[key].power \in Nat
    /\ \A key \in DOMAIN tally : key[1] \in 0 .. MaxGauges - 1 /\ key[2] \in Options /\ tally[key] \in Nat
    /\ \A id \in DOMAIN total_cast : total_cast[id] \in Nat
    /\ DOMAIN vote_history = {key \in (DOMAIN gauges) \X (0 .. MaxEpochs) : key[2] < last_epoch[key[1]]}
    /\ placed \in Seq(OptionVotes)

\* update_tallies and remove_tally keep three maps: the sorted index holds
\* every option once with the points of its tally, and TOTAL_CAST is the sum
\* of the tallies of its gauge, whatever options come and go.
TalliesAgree ==
    /\ by_points = {<<key[1], tally[key], key[2]>> : key \in DOMAIN tally}
    /\ \A id \in DOMAIN total_cast :
           total_cast[id] = MapThenSumSet(LAMBDA key : tally[key], {key \in DOMAIN tally : key[1] = id})

PointsOf(id, o) ==
    MapThenSumSet(LAMBDA key : Share(votes[key].power, WeightFor(votes[key].votes, o)), {key \in DOMAIN votes : key[2] = id})

\* As long as no option is removed, the tally of an option is what the stored
\* votes of all members give it: voting again, removing a vote, a new epoch
\* and a change of power neither lose nor double any of it.
TallyMatchesVotes == \A key \in DOMAIN tally : tally[key] = PointsOf(key[1], key[2])

\* Hooks keep the power of every stored vote, on every gauge, at the power the
\* member has now.
PowersCurrent == hooked => \A key \in DOMAIN votes : votes[key].power = power[key[1]]

\* selected_set: an option that has a larger tally than a selected one, or any
\* tally when there is room, is selected too unless it is below the minimum;
\* no option is selected twice.
SelectedAreTop ==
    \A id \in DOMAIN gauges \intersect DOMAIN total_cast :
        LET set == selected_set(id)
            chosen == {set[i].option : i \in DOMAIN set}
            Allowed(o) == tally[id, o] > 0 /\ from_ratio(tally[id, o], total_cast[id]) >= gauges[id].min_percent_selected
        IN  /\ Cardinality(chosen) = Len(set)
            /\ \A o \in chosen : <<id, o>> \in DOMAIN tally
            /\ \A key \in DOMAIN tally : key[1] = id /\ key[2] \notin chosen /\ Allowed(key[2]) =>
                   Len(set) = gauges[id].max_options_selected /\ \A o \in chosen : tally[id, o] >= tally[key]

\* The weights that reach the WYND gauge, which refuses more than one in
\* total, use the whole weight up to rounding.
PlacedWeightsWhole ==
    placed # <<>> => TotalWeight(placed) \in One - Len(placed) + 1 .. One

\* The first vote after WYND has renewed its epoch closes the epoch of the
\* gauge: no later record belongs to that epoch or an earlier one.
VoteClosesEpoch ==
    \A key \in DOMAIN vote_history : ~vote_history[key].executed =>
        /\ vote_history[key].next_epoch < gauges[key[1]].next_epoch
        /\ \A other \in DOMAIN vote_history : key[1] = other[1] /\ key[2] < other[2] =>
               vote_history[key].next_epoch < vote_history[other].next_epoch

\* A record of an epoch is never changed, and records are only added with the
\* epoch of the gauge: what was voted in an epoch stays on display.
HistoryKept ==
    [][\A key \in DOMAIN vote_history : key \in DOMAIN vote_history' /\ vote_history'[key] = vote_history[key]]_vars

\* StopGauge: a stopped gauge receives no more updates on MemberChangedHook.
StoppedNotUpdated == \A u \in Users : \A id \in query_votes_by_voter(u) : ~gauges[id].is_stopped

\* Gauge::next_epoch: Execute can be called once it is in the past.
DueIsExecutable == \A id \in DOMAIN gauges : gauges[id].next_epoch < now => is_pending(gauges[id])

\* Gauge::epoch: messages are executed once per epoch.
EpochExecutedOnce ==
    \A key, other \in DOMAIN vote_history :
        /\ key # other /\ key[1] = other[1] /\ vote_history[key].executed /\ vote_history[other].executed
        => vote_history[key].next_epoch # vote_history[other].next_epoch

\* PlaceVotes: a vote can be updated; taking it back does not panic.
VotesRemovable ==
    \A key \in DOMAIN votes : update_tallies(Tallies, key[2], VoteDiff(votes[key], NoVote)).ok

\* AddOption fails when there is no such gauge, so the options of the adapter
\* are new when the owner creates the next gauge.
NextGaugeCreatable == \A o \in ToSet(Wynd.options) : <<fetch_last_id, o>> \notin DOMAIN tally

\* TALLY counts the points of every entry of every vote list.
EntriesCounted ==
    \A k \in DOMAIN tally :
        tally[k] = MapThenSumSet(LAMBDA key :
                       FoldLeft(LAMBDA s, v : IF v.option = k[2] THEN s + Share(votes[key].power, v.weight) ELSE s, 0, votes[key].votes),
                       {key \in DOMAIN votes : key[2] = k[1]})

\* is_pending: when a gauge is not pending its epoch is not over or the next
\* one has started, so a vote never belongs to an epoch that is over.
VotesInEpoch == \A key \in DOMAIN votes : votes[key].cast <= gauges[key[2]].next_epoch

=============================================================================
