---------------------------- MODULE ListQueries ----------------------------
(***************************************************************************)
(* The paginated list queries of the contracts. Each reads one map, or the *)
(* entries of the map under one prefix (a proposal, a gauge, an owner),    *)
(* in the order of the keys, beyond an exclusive cursor and up to a limit. *)
(* A client walks such a list: it asks for a page, passes the last key of  *)
(* the page as the next cursor, and stops at an empty page. Between two    *)
(* pages other transactions add and remove entries.                        *)
(*                                                                         *)
(* Keys are numbers: ids, versions and times as they are, addresses by     *)
(* their place in the order of bytes. What is stored under a key plays no  *)
(* part. is_expired, the filter of list_votes of the gauge, is false of    *)
(* every vote, since no handler resets a gauge.                            *)
(***************************************************************************)
EXTENDS Integers, Sequences, SequencesExt, FiniteSets, FiniteSetsExt

CONSTANTS
    PrefixIds,            \* 1 .. n
    Keys,
    Limits,              \* the client's limits, None for no limit
    DEFAULT_LIMIT,
    MAX_LIMIT,           \* the constant of the contract, or max_limit of its config
    MaxChanges           \* entries added and removed during a walk

None == 0

ListAssumption ==
    /\ PrefixIds \subseteq Nat \ {None} /\ 1 \in PrefixIds /\ Keys \subseteq Nat \ {None}
    /\ DEFAULT_LIMIT \in Nat \ {0} /\ MAX_LIMIT \in Nat \ {0} /\ Limits \subseteq Nat

VARIABLES
    query,               \* the query that is walked
    map,                 \* the keys of the map it reads, with their prefixes
    asked,               \* the prefix the walk began with
    current,             \* the prefix the query reads, another one after a new round
    cursor,              \* start_after of the next page
    seen,                \* the entries of all pages so far
    ended,               \* an empty page has been returned
    stable,              \* the entries under asked since the walk began
    touched,             \* the entries that were under asked or current at some moment
    changes

vars == <<query, map, asked, current, cursor, seen, ended, stable, touched, changes>>

-----------------------------------------------------------------------------
(* Iteration over a map *)

Stored(p) == {k \in Keys : <<p, k>> \in map}

Ascending(p, start) == SetToSortSeq({k \in Stored(p) : start = None \/ k > start}, <)

Descending(p, end) == SetToSortSeq({k \in Stored(p) : end = None \/ k < end}, >)

\* Order::Descending with the cursor as lower bound: the histories that are
\* asked for in reverse. No client can walk such a list, since the pages after
\* the first hold keys above the cursor only; the walks here are ascending.
DescendingAbove(p, start) == SetToSortSeq({k \in Stored(p) : start = None \/ k > start}, >)

take(s, n) == SubSeq(s, 1, Min({n, Len(s)}))

UnwrapOr(limit) == IF limit = None THEN DEFAULT_LIMIT ELSE limit

Capped(limit) == Min({UnwrapOr(limit), MAX_LIMIT})

-----------------------------------------------------------------------------
(* The queries: the keys of the page *)

cw3_list_proposals(p, start, limit) == take(Ascending(p, start), Capped(limit))

\* Fault: the cursor is the lower bound, as in the reverse histories.
cw3_reverse_proposals_Lower(p, end, limit) == take(DescendingAbove(p, end), Capped(limit))

cw3_reverse_proposals(p, end, limit) == take(Descending(p, end), Capped(limit))

cw3_list_votes(p, start, limit) == take(Ascending(p, start), Capped(limit))

cw3_list_voters(p, start, limit) == take(Ascending(p, start), Capped(limit))

cw4_list_members(p, start, limit) == take(Ascending(p, start), Capped(limit))

cw20_owner_allowances(p, start, limit) == take(Ascending(p, start), Capped(limit))

cw20_spender_allowances(p, start, limit) == take(Ascending(p, start), Capped(limit))

cw20_all_accounts(p, start, limit) == take(Ascending(p, start), Capped(limit))

vesting_all_allowances(p, start, limit) == take(Ascending(p, start), Capped(limit))

vesting_all_accounts(p, start, limit) == take(Ascending(p, start), Capped(limit))

proposal_list_proposals(p, start, limit) == take(Ascending(p, start), UnwrapOr(limit))

proposal_list_votes(p, start, limit) == take(Ascending(p, start), UnwrapOr(limit))

choice_list_proposals(p, start, limit) == take(Ascending(p, start), UnwrapOr(limit))

\* The prefix is the proposal with its current version.
choice_list_votes(p, start, limit) == take(Ascending(p, start), UnwrapOr(limit))

choice_proposal_history(p, start, limit, reverse) ==
    take(IF reverse THEN DescendingAbove(p, start) ELSE Ascending(p, start), Capped(limit))

choice_proposal_executions(p, start, limit) == take(Ascending(p, start), Capped(limit))

gauge_list_gauges(p, start, limit) == take(Ascending(p, start), Capped(limit))

gauge_list_vote_history(p, start, limit) == take(Ascending(p, start), Capped(limit))

gauge_list_votes(p, start, limit) == take(Ascending(p, start), Capped(limit))

gauge_list_options(p, start, limit) == take(Ascending(p, start), Capped(limit))

\* A cursor that is not stored is an error.
StakeableCursorOk(start) == start = None \/ <<current, start>> \in map

farming_list_of_stakeable_tokens(p, start, limit) == take(Ascending(p, start), Capped(limit))

Answer(limit) ==
    CASE query = "cw3_list_proposals" -> cw3_list_proposals(current, cursor, limit)
      [] query = "cw3_reverse_proposals" -> cw3_reverse_proposals(current, cursor, limit)
      [] query = "cw3_list_votes" -> cw3_list_votes(current, cursor, limit)
      [] query = "cw3_list_voters" -> cw3_list_voters(current, cursor, limit)
      [] query = "cw4_list_members" -> cw4_list_members(current, cursor, limit)
      [] query = "cw20_owner_allowances" -> cw20_owner_allowances(current, cursor, limit)
      [] query = "cw20_spender_allowances" -> cw20_spender_allowances(current, cursor, limit)
      [] query = "cw20_all_accounts" -> cw20_all_accounts(current, cursor, limit)
      [] query = "vesting_all_allowances" -> vesting_all_allowances(current, cursor, limit)
      [] query = "vesting_all_accounts" -> vesting_all_accounts(current, cursor, limit)
      [] query = "proposal_list_proposals" -> proposal_list_proposals(current, cursor, limit)
      [] query = "proposal_list_votes" -> proposal_list_votes(current, cursor, limit)
      [] query = "choice_list_proposals" -> choice_list_proposals(current, cursor, limit)
      [] query = "choice_list_votes" -> choice_list_votes(current, cursor, limit)
      [] query = "choice_proposal_history" -> choice_proposal_history(current, cursor, limit, FALSE)
      [] query = "choice_proposal_executions" -> choice_proposal_executions(current, cursor, limit)
      [] query = "gauge_list_gauges" -> gauge_list_gauges(current, cursor, limit)
      [] query = "gauge_list_vote_history" -> gauge_list_vote_history(current, cursor, limit)
      [] query = "gauge_list_votes" -> gauge_list_votes(current, cursor, limit)
      [] query = "gauge_list_options" -> gauge_list_options(current, cursor, limit)
      [] query = "farming_list_of_stakeable_tokens" -> farming_list_of_stakeable_tokens(current, cursor, limit)

-----------------------------------------------------------------------------
(* How the maps change *)

\* Maps without a prefix: all their entries are under prefix 1 here.
Whole ==
    {"cw3_list_proposals", "cw3_reverse_proposals", "cw3_list_voters", "cw4_list_members",
     "cw20_all_accounts", "vesting_all_accounts", "proposal_list_proposals",
     "choice_list_proposals", "gauge_list_gauges", "farming_list_of_stakeable_tokens"}

\* Keys that only grow: ids, versions, epochs and times.
Appended ==
    {"cw3_list_proposals", "cw3_reverse_proposals", "proposal_list_proposals", "choice_list_proposals",
     "choice_proposal_history", "choice_proposal_executions",
     "gauge_list_gauges", "gauge_list_vote_history"}

\* Maps from which a handler removes entries.
Removable ==
    {"cw4_list_members", "cw20_owner_allowances", "cw20_spender_allowances",
     "vesting_all_allowances", "gauge_list_votes", "gauge_list_options"}

Fixed == {"cw3_list_voters"}

Reversed == {"cw3_reverse_proposals"}

Walks == Whole \cup Appended \cup Removable \cup {"cw3_list_votes", "proposal_list_votes", "choice_list_votes"}

Readable(q) == IF q \in Whole \/ q = "choice_list_votes" THEN {1} ELSE PrefixIds

Init ==
    /\ query \in Walks
    /\ map \in SUBSET (Readable(query) \X Keys)
    /\ asked \in Readable(query) /\ current = asked
    /\ cursor = None /\ seen = <<>> /\ ended = FALSE
    /\ stable = {<<asked, k>> : k \in Stored(asked)}
    /\ touched = stable
    /\ changes = 0

NextPage(limit) ==
    LET page == Answer(limit) IN
    /\ ~ended
    /\ query = "farming_list_of_stakeable_tokens" => StakeableCursorOk(cursor)
    /\ seen' = seen \o [i \in DOMAIN page |-> <<current, page[i]>>]
    /\ cursor' = IF page = <<>> THEN cursor ELSE Last(page)
    /\ ended' = (page = <<>>)
    /\ UNCHANGED <<query, map, asked, current, stable, touched, changes>>

Change(m) ==
    /\ ~ended /\ changes < MaxChanges
    /\ map' = m
    /\ stable' = stable \cap m
    /\ touched' = touched \cup {x \in m : x[1] \in {asked, current}}
    /\ changes' = changes + 1
    /\ UNCHANGED <<query, asked, current, cursor, seen, ended>>

\* A handler adds an entry.
AddEntry(p, k) ==
    /\ query \notin Fixed
    /\ p \in (IF query = "choice_list_votes" THEN {current} ELSE Readable(query))
    /\ k \notin Stored(p)
    /\ query \in Appended => \A x \in Stored(p) : x < k
    /\ Change(map \cup {<<p, k>>})

RemoveEntry(p, k) ==
    /\ query \in Removable
    /\ <<p, k>> \in map
    /\ Change(map \ {<<p, k>>})

\* A round of a multiple choice proposal ends: the version, and with it the
\* prefix of the ballots, is the next one.
NewRound ==
    /\ query = "choice_list_votes" /\ ~ended /\ current + 1 \in PrefixIds
    /\ current' = current + 1
    /\ UNCHANGED <<query, map, asked, cursor, seen, ended, stable, touched, changes>>

Next ==
    \/ \E limit \in Limits : NextPage(limit)
    \/ \E p \in PrefixIds, k \in Keys : AddEntry(p, k) \/ RemoveEntry(p, k)
    \/ NewRound

Spec == Init /\ [][Next]_vars

-----------------------------------------------------------------------------
(* Properties *)

\* Whatever is added or removed between two pages, no key is returned twice,
\* and the pages put together are in the order of the keys.
OncePerWalk ==
    \A i, j \in DOMAIN seen : i < j =>
        IF query \in Reversed THEN seen[i][2] > seen[j][2] ELSE seen[i][2] < seen[j][2]

\* The walk has returned what was there all the time.
Complete == ended => stable \subseteq Range(seen)

\* A walk within one round returns every entry that is there all the time,
\* and nothing that was never under the prefix that was asked for.
WalkExact ==
    ended /\ current = asked =>
        stable \subseteq Range(seen) /\ Range(seen) \subseteq touched

\* In a list that only grows an ascending walk also returns what is added
\* while it runs: at its end nothing is left out.
GrowthSeen ==
    [][ended' /\ ~ended /\ query \in Appended \ Reversed
           => {<<asked, k>> : k \in Stored(asked)} = Range(seen)]_vars

\* The votes of a multiple choice proposal: a walk returns every vote that
\* was there from its beginning to its end.
AllVotesListed == query = "choice_list_votes" => Complete

=============================================================================
