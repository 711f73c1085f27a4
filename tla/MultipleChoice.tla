--------------------------- MODULE MultipleChoice ---------------------------
(***************************************************************************)
(* syneswap_loop_multiple_choice_proposal: members of the DAO decide how   *)
(* the bLOOP converter spreads its votes over the pools of a LOOP gauge.   *)
(* The LOOP gauge and the powers of the members are external; the gauge    *)
(* starts a new round of its proposal some time after the old one ended.   *)
(* The converter only passes the vote on, so its handlers are here too.    *)
(* Durations are seconds; POOL_AMOUNTS is written and never read.          *)
(***************************************************************************)
EXTENDS Sums, Integers, Sequences, FiniteSets, SequencesExt

CONSTANTS
    Users, Admin,        \* members; the one who may propose and configure
    FirstConfig,         \* config of instantiate
    Updates,             \* messages of UpdateConfig: functions on some fields
    GaugeOptions,        \* pools of the proposal of the LOOP gauge
    VotingPeriod,        \* length of a round of the gauge
    PendingPeriods,      \* inputs of Propose
    OptionLists,         \* inputs of Propose
    Added, Removed,      \* inputs of Add- and RemoveMultipleChoiceOptions
    GaugeUpdates,        \* inputs of UpdateGaugeConfig of the converter
    VoteLists,           \* inputs of Vote: lists of pools with percentages
    Powers,
    MaxProposals, MaxTime, MaxVersion,
    MaxTotal             \* bound on the total power of a proposal, which voting again raises

Status == {"Open", "VotingClosed", "Executed", "Closed", "Rejected", "TimeOut"}
None == "none"
This == "synergistic gauge"
LoopGauge == "LOOP gauge"

ConfigFields == {"min_voting_period", "max_voting_period", "min_pending_period", "proposal_creation_token_limit",
                 "token_hold_duration"}

\* Amounts, durations and percentages are unsigned; lists are sequences.
ASSUME MessagesAssumption ==
    /\ FirstConfig \in [ConfigFields -> Nat] /\ \A update \in Updates : \A f \in DOMAIN update : update[f] \in Nat
    /\ VotingPeriod \in Nat /\ PendingPeriods \subseteq Nat /\ Powers \subseteq Nat
    /\ \A list \in OptionLists \cup Added \cup VoteLists : list \in Seq(ToSet(list))
    /\ \A votes \in VoteLists : \A i \in DOMAIN votes : votes[i].percentage \in Nat
    /\ MaxVersion \in Nat \ {0}

VARIABLES
    config, proposals,   \* CONFIG, PROPOSALS
    version,             \* PROPOSAL_VERSION
    ballots,             \* BALLOTS by proposal, version, voter and pool
    proposers,           \* PROPOSERS_INFO
    history,             \* PROPOSAL_HISTORY by proposal and version
    executions,          \* PROPOSAL_EXECUTIONS by proposal and time
    gauge,               \* proposal of the LOOP gauge: status, end and start of its round
    placed,              \* votes placed at the LOOP gauge: round, list of votes
    gauge_cfg,           \* GAUGE_CONFIG of the converter
    power, now

vars == <<config, proposals, version, ballots, proposers, history, executions, gauge, placed, gauge_cfg, power, now>>

contractVars == <<config, proposals, version, ballots, proposers, history, executions>>
outside == <<gauge, placed, gauge_cfg, power, now>>

\* Map::save
Saved(map, key, value) == [k \in DOMAIN map \cup {key} |-> IF k = key THEN value ELSE map[k]]

-----------------------------------------------------------------------------
(* Proposals *)

validate_voting_period(c) == c.min_voting_period <= c.max_voting_period /\ c.min_pending_period <= c.max_voting_period

verifying_voting_period(p) == p \in config.min_pending_period .. VotingPeriod

NoVotes(pools) == [i \in DOMAIN pools |-> [pool |-> pools[i], power |-> 0]]

is_expired_custom(prop) == now + prop.pending_period >= prop.expiration

current_status(prop) == IF prop.status = "Open" /\ now >= prop.expiration THEN "VotingClosed" ELSE prop.status

current_status_custom(prop) == IF prop.status = "Open" /\ is_expired_custom(prop) THEN "VotingClosed" ELSE prop.status

WithStatus(prop, status) == [prop EXCEPT !.status = status]

update_status(prop) == WithStatus(prop, current_status(prop))

\* The gauge has started a new round.
Renewed(prop) == gauge.expiration > prop.expiration

WithChoices(prop, choices) == [prop EXCEPT !.choices = choices]

WithPower(choice, p) == [pool |-> choice.pool, power |-> p]

\* Fault: the votes of the old round are kept.
Reset_KeepVotes(prop) ==
    [prop EXCEPT !.status = "Open", !.voting_start_time = gauge.voting_start_time, !.expiration = gauge.expiration,
                 !.total_power = 0]

\* The part of update_props that starts the new round.
Reset(prop) ==
    [prop EXCEPT !.status = "Open", !.voting_start_time = gauge.voting_start_time, !.expiration = gauge.expiration,
                 !.total_power = 0, !.choices = [i \in DOMAIN @ |-> WithPower(@[i], 0)]]

\* upgrade_proposal_history
upgrade_proposal_history(id, ver, prop) ==
    /\ history' = Saved(history, <<id, ver>>,
            [status |-> prop.status, total_power |-> prop.total_power, choices |-> prop.choices,
             expiration |-> prop.expiration, time |-> now])
    /\ executions' = Saved(executions, <<id, now>>, [version |-> ver, status |-> prop.status])

\* Fault: the old round is recorded under the version it had.
advance_proposal_version_Not(id) == version[id]

advance_proposal_version(id) == version[id] + 1

\* update_props, for Vote, Execute and Reject
RecordTimeOut(id) ==
    LET ver == advance_proposal_version(id) IN
    /\ ver <= MaxVersion
    /\ version' = [version EXCEPT ![id] = ver]
    /\ upgrade_proposal_history(id, ver, WithStatus(proposals[id], "TimeOut"))

calculate_vote_result(prop, i) == (prop.choices[i].power * 100) \div prop.total_power

Percentages(prop) == [i \in DOMAIN prop.choices |-> [pool |-> prop.choices[i].pool, percentage |-> calculate_vote_result(prop, i)]]

SumOf(votes) == SumOver([i \in DOMAIN votes |-> votes[i].percentage], DOMAIN votes)

\* Division by zero and more missing percents than options panic.
MessageComputes(prop) ==
    prop.total_power > 0 /\ 100 - SumOf(Percentages(prop)) <= Len(prop.choices)

\* Fault: nothing is added to the rounded percentages.
get_execution_message_Rounded(prop) == Percentages(prop)

\* The list is empty when nothing is missing.
get_execution_message(prop) ==
    LET missing == 100 - SumOf(Percentages(prop))
        smallestFirst == Reverse(SortSeq(Percentages(prop), LAMBDA v, w : v.percentage > w.percentage))
        raised == [i \in 1..missing |-> [smallestFirst[i] EXCEPT !.percentage = @ + 1]]
    IN  IF missing > 0 THEN raised \o Reverse(SubSeq(smallestFirst, missing + 1, Len(smallestFirst))) ELSE <<>>

-----------------------------------------------------------------------------

Init ==
    /\ validate_voting_period(FirstConfig)
    /\ config = FirstConfig
    /\ proposals = <<>> /\ version = <<>> /\ ballots = <<>> /\ history = <<>> /\ executions = <<>>
    /\ proposers = [u \in Users |-> 0] /\ power = [u \in Users |-> 0] /\ now = 0
    /\ gauge = [status |-> "Open", expiration |-> VotingPeriod, voting_start_time |-> 0]
    /\ placed = {} /\ gauge_cfg = [loop_gauge_contract |-> LoopGauge, synergistic_loop_gauge_contract |-> None]

execute_propose(u, pending, options) ==
    /\ Len(proposals) < MaxProposals
    /\ u = Admin /\ power[u] > 0 /\ gauge.status # "Closed" /\ verifying_voting_period(pending)
    /\ power[u] - proposers[u] >= config.proposal_creation_token_limit
    /\ ToSet(options) \subseteq GaugeOptions
    /\ proposers' = [proposers EXCEPT ![u] = @ + config.proposal_creation_token_limit]
    /\ proposals' = Append(proposals,
            [proposer |-> u, expiration |-> gauge.expiration, total_power |-> 0, status |-> "Open",
             voting_start_time |-> gauge.voting_start_time, choices |-> NoVotes(options), pending_period |-> pending])
    /\ version' = Append(version, 1)
    /\ UNCHANGED <<config, ballots, history, executions, outside>>

\* One pool of a vote; ok becomes FALSE where the code panics.
CastOne(key, p, acc, v) ==
    LET at == {i \in DOMAIN acc.choices : acc.choices[i].pool = v.pool}
        ballot == Append(key, v.pool)
        old == IF ballot \in DOMAIN acc.ballots THEN acc.ballots[ballot].power ELSE 0
        new == (p * v.percentage) \div 100
    IN  IF ~acc.ok \/ at = {} \/ acc.choices[Min(at)].power < old \/ acc.total < old THEN [acc EXCEPT !.ok = FALSE]
        ELSE [ok |-> TRUE, total |-> acc.total - old, ballots |-> Saved(acc.ballots, ballot, [power |-> new, time |-> now]),
              choices |-> [acc.choices EXCEPT ![Min(at)] = WithPower(@, @.power - old + new)]]

\* The state of the tally after all pools of the vote.
CastAll(u, id, ver, prop, votes) ==
    FoldLeft(LAMBDA acc, v : CastOne(<<id, ver, u>>, power[u], acc, v),
             [ok |-> TRUE, choices |-> prop.choices, total |-> prop.total_power, ballots |-> ballots], votes)

VoteOpen(u, id) ==
    /\ power[u] > 0
    /\ LET status == current_status_custom(proposals[id]) IN
       \/ status = "Open"
       \/ status \in {"Executed", "Rejected", "VotingClosed"} /\ Renewed(proposals[id])

execute_vote(u, id, votes) ==
    LET reset == current_status_custom(proposals[id]) # "Open"
        prop == IF reset THEN Reset(proposals[id]) ELSE proposals[id]
        cast == CastAll(u, id, version'[id], prop, votes)
    IN
    /\ VoteOpen(u, id) /\ Len(votes) <= Len(proposals[id].choices) /\ SumOf(votes) <= 100
    /\ IF reset THEN RecordTimeOut(id) ELSE UNCHANGED <<version, history, executions>>
    /\ cast.ok /\ cast.total + power[u] <= MaxTotal /\ ballots' = cast.ballots
    /\ proposals' = [proposals EXCEPT ![id] =
            update_status([prop EXCEPT !.choices = cast.choices, !.total_power = cast.total + power[u]])]
    /\ UNCHANGED <<config, proposers, outside>>

\* Neither Execute nor Reject saves the proposal that update_props reset.
TimeOut(u, id) ==
    /\ power[u] > 0 /\ current_status_custom(proposals[id]) = "VotingClosed" /\ Renewed(proposals[id])
    /\ RecordTimeOut(id)
    /\ UNCHANGED <<config, proposals, ballots, proposers, outside>>

Finish(id, status) ==
    /\ proposals' = [proposals EXCEPT ![id] = WithStatus(@, status)]
    /\ upgrade_proposal_history(id, version[id], WithStatus(proposals[id], status))

\* The converter's execute_vote, called by this contract, and the vote of the gauge.
PlaceVotes(votes) ==
    /\ gauge_cfg.synergistic_loop_gauge_contract = This /\ gauge_cfg.loop_gauge_contract = LoopGauge
    /\ placed' = placed \cup {[round |-> gauge.expiration, votes |-> votes]}

execute_execute(u, id) ==
    /\ power[u] > 0 /\ current_status_custom(proposals[id]) = "VotingClosed" /\ ~Renewed(proposals[id])
    /\ MessageComputes(proposals[id])
    /\ Finish(id, "Executed") /\ PlaceVotes(get_execution_message(proposals[id]))
    /\ UNCHANGED <<config, version, ballots, proposers, gauge, gauge_cfg, power, now>>

execute_reject(u, id) ==
    /\ power[u] > 0 /\ current_status_custom(proposals[id]) = "VotingClosed" /\ ~Renewed(proposals[id])
    /\ Finish(id, "Rejected")
    /\ UNCHANGED <<config, version, ballots, proposers, outside>>

CloseAllowed(u, id) ==
    /\ u = proposals[id].proposer
    /\ proposals[id].voting_start_time + config.token_hold_duration >= now
    /\ proposers[u] >= config.proposal_creation_token_limit

execute_close(u, id) ==
    /\ CloseAllowed(u, id)
    /\ proposers' = [proposers EXCEPT ![u] = @ - config.proposal_creation_token_limit]
    /\ proposals' = [proposals EXCEPT ![id] = WithStatus(@, "Closed")]
    /\ UNCHANGED <<config, version, ballots, history, executions, outside>>

\* Anybody may add and remove options, at any time.
execute_add_multiple_choice_options(id, options) ==
    /\ ToSet(options) \subseteq GaugeOptions
    /\ \A i \in DOMAIN proposals[id].choices : proposals[id].choices[i].pool \notin ToSet(options)
    /\ proposals' = [proposals EXCEPT ![id] = WithChoices(@, @.choices \o NoVotes(options))]
    /\ UNCHANGED <<config, version, ballots, proposers, history, executions, outside>>

Remaining(choices, options) ==
    FoldLeft(LAMBDA kept, c : IF c.pool \in options THEN kept ELSE Append(kept, c), <<>>, choices)

execute_remove_multiple_choice_options(id, options) ==
    /\ proposals' = [proposals EXCEPT ![id] = WithChoices(@, Remaining(@.choices, options))]
    /\ UNCHANGED <<config, version, ballots, proposers, history, executions, outside>>

execute_update_config(u, update) ==
    LET new == [f \in DOMAIN config |-> IF f \in DOMAIN update THEN update[f] ELSE config[f]] IN
    /\ u = Admin /\ validate_voting_period(new) /\ config' = new
    /\ UNCHANGED <<proposals, version, ballots, proposers, history, executions, outside>>

\* The admin of the converter.
execute_update_gauge_config(update) ==
    /\ DOMAIN update # {}
    /\ gauge_cfg' = [f \in DOMAIN gauge_cfg |-> IF f \in DOMAIN update THEN update[f] ELSE gauge_cfg[f]]
    /\ UNCHANGED <<contractVars, gauge, placed, power, now>>

\* Status shown by query_proposal.
query_proposal(prop) ==
    IF Renewed(prop) THEN IF now >= gauge.expiration /\ gauge.status = "Open" THEN "VotingClosed" ELSE gauge.status
    ELSE current_status_custom(prop)

Restake(u, p) ==
    /\ power[u] # p /\ power' = [power EXCEPT ![u] = p]
    /\ UNCHANGED <<contractVars, gauge, placed, gauge_cfg, now>>

\* The LOOP gauge begins another round, or is closed.
GaugeStep ==
    /\ \/ /\ gauge.status = "Open" /\ now >= gauge.expiration
          /\ gauge' = [gauge EXCEPT !.expiration = now + VotingPeriod, !.voting_start_time = now]
       \/ gauge.status = "Open" /\ gauge' = [gauge EXCEPT !.status = "Closed"]
    /\ UNCHANGED <<contractVars, placed, gauge_cfg, power, now>>

Tick ==
    /\ now < MaxTime /\ now' = now + 1
    /\ UNCHANGED <<contractVars, gauge, placed, gauge_cfg, power>>

Next ==
    \/ \E u \in Users, pending \in PendingPeriods, options \in OptionLists : execute_propose(u, pending, options)
    \/ \E u \in Users, id \in DOMAIN proposals :
        \/ \E votes \in VoteLists : execute_vote(u, id, votes)
        \/ TimeOut(u, id) \/ execute_execute(u, id) \/ execute_reject(u, id) \/ execute_close(u, id)
    \/ \E id \in DOMAIN proposals, options \in Added : execute_add_multiple_choice_options(id, options)
    \/ \E id \in DOMAIN proposals, options \in Removed : execute_remove_multiple_choice_options(id, options)
    \/ \E u \in Users, update \in Updates : execute_update_config(u, update)
    \/ \E update \in GaugeUpdates : execute_update_gauge_config(update)
    \/ \E u \in Users, p \in Powers : Restake(u, p)
    \/ GaugeStep
    \/ Tick

Spec == Init /\ [][Next]_vars

-----------------------------------------------------------------------------
(* Properties *)

TypeOK ==
    /\ \A id \in DOMAIN proposals : LET p == proposals[id] IN
        /\ p.proposer \in Users /\ p.status \in Status /\ p.total_power \in Nat /\ p.expiration \in Nat
        /\ \A i \in DOMAIN p.choices : p.choices[i].pool \in GaugeOptions /\ p.choices[i].power \in Nat
    /\ DOMAIN version = DOMAIN proposals /\ \A id \in DOMAIN version : version[id] \in 1..MaxVersion
    /\ proposers \in [Users -> Nat]

Shares(choices) == SumOver([i \in DOMAIN choices |-> choices[i].power], DOMAIN choices)

\* The votes of all pools together never exceed the total power of a proposal, through
\* votes that replace parts of others, options that come and go and new rounds; the
\* percentages sent to the gauge are shares of that total.
SharesWithinTotal ==
    \A id \in DOMAIN proposals : Shares(proposals[id].choices) <= proposals[id].total_power

\* While nobody changes the options, the tally of a pool in the running round is the sum
\* of the ballots of this version: a vote replaces what the same member gave to the pool
\* in this round and nothing of an earlier round is counted.
TallyMatchesBallots ==
    \A id \in DOMAIN proposals : current_status_custom(proposals[id]) \in {"Open", "Executed"} =>
        \A i \in DOMAIN proposals[id].choices :
            proposals[id].choices[i].power =
                MapThenSumSet(LAMBDA u : LET b == <<id, version[id], u, proposals[id].choices[i].pool>> IN
                                         IF b \in DOMAIN ballots THEN ballots[b].power ELSE 0, Users)

\* In a round of the gauge a proposal is executed at most once.
OneExecutionPerRound ==
    \A x, y \in DOMAIN history :
        x # y /\ x[1] = y[1] /\ history[x].status = "Executed" /\ history[y].status = "Executed"
        => history[x].expiration # history[y].expiration

\* The record of an executed or rejected round is never overwritten by a later round.
OutcomeRecordKept ==
    [][\A k \in DOMAIN history :
        history[k].status \in {"Executed", "Rejected"} => k \in DOMAIN history' /\ history'[k] = history[k]]_vars

\* The votes placed at the gauge give away all votes of the converter or none: rounding
\* leaves nothing over and the gauge is never asked for more than it accepts.
PlacedVotesComplete ==
    \A p \in placed : p.votes = <<>> \/ SumOf(p.votes) = 100

\* As long as the query shows a proposal that is not closed as open, members can vote.
ShownOpenAcceptsVotes ==
    \A id \in DOMAIN proposals, u \in Users :
        proposals[id].status # "Closed" /\ query_proposal(proposals[id]) = "Open" /\ power[u] > 0 => VoteOpen(u, id)

\* In all rounds the shares stay within the power that voted, a proposal that is shown open
\* accepts votes, and it is executed at most once in a round.
RoundSound == TypeOK /\ SharesWithinTotal /\ ShownOpenAcceptsVotes /\ OneExecutionPerRound

\* What the comment on into_response says, for every proposal.
QueryIsAccurate ==
    \A id \in DOMAIN proposals :
        proposals[id].status = "Closed" => query_proposal(proposals[id]) # "Open"

\* What the comment on expiration says: no votes are accepted after the end.
VotesBeforeExpiration ==
    \A b \in DOMAIN ballots :
        b[2] = version[b[1]] /\ ~Renewed(proposals[b[1]]) => ballots[b].time < proposals[b[1]].expiration

\* What the comment in execute_vote says: votes that give away less than 100 percent are
\* accepted, and the proposal can still be executed.
ExecutionComputes ==
    \A id \in DOMAIN proposals :
        current_status_custom(proposals[id]) = "VotingClosed" /\ ~Renewed(proposals[id]) /\ proposals[id].total_power > 0
        => MessageComputes(proposals[id])

\* What the error of execute_close says: after the hold time the proposer can close.
CloseAfterWaiting ==
    \A id \in DOMAIN proposals :
        LET u == proposals[id].proposer IN
        /\ proposals[id].voting_start_time + config.token_hold_duration < now
        /\ proposals[id].status # "Closed" /\ proposers[u] >= config.proposal_creation_token_limit
        => CloseAllowed(u, id)

\* What the comment on Close says: each close returns the deposit of its own proposal.
DepositPerProposal ==
    \A u \in Users :
        proposers[u] >= config.proposal_creation_token_limit
                        * Cardinality({id \in DOMAIN proposals : proposals[id].proposer = u /\ proposals[id].status # "Closed"})
=============================================================================
