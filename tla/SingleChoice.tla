---------------------------- MODULE SingleChoice ----------------------------
(***************************************************************************)
(* syneswap_proposal: proposals that members of the DAO accept or reject.  *)
(* The voting power comes from the staking contract named in the config,   *)
(* which is external here: powers, and the total that is the sum of one    *)
(* query per duration, change at any time between two transactions.        *)
(* A panic of an unsigned subtraction is a transaction that fails.         *)
(***************************************************************************)
EXTENDS Sums, Integers, Sequences, FiniteSets

CONSTANTS
    Users,             \* members
    Daos,              \* staking contracts
    Majority,          \* PercentageThreshold::Majority
    Unit,              \* atomics of one Decimal
    PRECISION_FACTOR,  \* 10^9 in the code
    FirstConfigs,      \* configs of instantiate
    Updates,           \* messages of UpdateConfig: functions on some fields of the config
    Periods,           \* voting periods of Propose
    Powers, Totals,    \* voting powers; totals shown while a query of a duration fails
    MaxProposals, MaxTime

Vote == {"yes", "no", "abstain"}
Status == {"Open", "Rejected", "Passed", "Executed", "Closed"}
Ids == 1..MaxProposals
NoBallot == [power |-> 0, vote |-> "none"]
ConfigFields ==
    {"threshold", "min_voting_period", "max_voting_period", "dao", "admin", "proposal_creation_token_limit",
     "token_hold_duration"}

ASSUME MembersAssumption == IsFiniteSet(Users) /\ Powers \subseteq Nat /\ Totals \subseteq Nat
ASSUME ScaleAssumption == Unit \in Nat \ {0} /\ PRECISION_FACTOR \in Nat \ {0} /\ MaxProposals \in Nat
ASSUME MessagesAssumption ==
    /\ \A period \in Periods : period.n \in Nat
    /\ \A c \in FirstConfigs : DOMAIN c = ConfigFields
    /\ \A m \in FirstConfigs \cup Updates :
        /\ "dao" \in DOMAIN m => m["dao"] \in Daos
        /\ "proposal_creation_token_limit" \in DOMAIN m => m["proposal_creation_token_limit"] \in Nat
        /\ "threshold" \in DOMAIN m /\ m["threshold"].type = "absolute_count" => m["threshold"].threshold \in Nat

VARIABLES
    config,      \* CONFIG
    proposals,   \* PROPOSALS, PROPOSAL_COUNT is its length
    ballots,     \* BALLOTS
    proposers,   \* PROPOSERS_INFO: power locked by a proposer
    power,       \* staking: power of a member
    total,       \* staking: sum of the total balances of all durations
    now          \* block time

vars == <<config, proposals, ballots, proposers, power, total, now>>

-----------------------------------------------------------------------------
(* Thresholds *)

validate_percentage(p) == p = Majority \/ p \in 1..Unit

validate_quorum(q) == q = Majority \/ q \in 0..Unit

validate(t) ==
    \/ t.type = "absolute_percentage" /\ validate_percentage(t.percentage)
    \/ t.type = "threshold_quorum" /\ validate_percentage(t.threshold) /\ validate_quorum(t.quorum)
    \/ t.type = "absolute_count" /\ t.threshold > 0

\* validate_voting_period; a duration is a number of seconds or of blocks.
validate_voting_period(min, max) == min.unit = max.unit /\ min.n <= max.n

\* verifying_voting_period
verifying_voting_period(p) ==
    /\ \A d \in {p, config.min_voting_period, config.max_voting_period} : d.unit = "time"
    /\ p.n \in config.min_voting_period.n .. config.max_voting_period.n

\* compare_vote_count with VoteCmp::Geq
compare_vote_count(votes, total_power, percent) ==
    votes * PRECISION_FACTOR >= (total_power * PRECISION_FACTOR * percent) \div Unit

\* Fault: nothing is said about proposals nobody voted on.
does_vote_count_pass_NoZero(yes, votes, total_power, p) ==
    IF p = Majority THEN yes * 2 > votes ELSE compare_vote_count(yes, total_power, p)

does_vote_count_pass(yes, votes, total_power, p) ==
    /\ votes > 0
    /\ IF p = Majority THEN yes * 2 > votes ELSE compare_vote_count(yes, total_power, p)

-----------------------------------------------------------------------------
(* Status of a proposal *)

Cast(prop) == prop.votes["yes"] + prop.votes["no"] + prop.votes["abstain"]

is_expired(prop) == now >= prop.expiration

HasQuorum(prop) == does_vote_count_pass(Cast(prop), prop.total_power, prop.total_power, prop.threshold.quorum)

\* The subtraction total_power - abstain does not underflow.
Computes(prop) ==
    prop.threshold.type = "threshold_quorum" /\ HasQuorum(prop) /\ ~is_expired(prop)
        => prop.total_power >= prop.votes["abstain"]

\* is_passed
is_passed(prop) ==
    LET yes == prop.votes["yes"]
        options == IF is_expired(prop) THEN Cast(prop) - prop.votes["abstain"] ELSE prop.total_power - prop.votes["abstain"]
        t == prop.threshold
    IN
    \/ /\ t.type = "absolute_percentage" /\ is_expired(prop)
       /\ does_vote_count_pass(yes, options, prop.total_power, t.percentage)
    \/ /\ t.type = "threshold_quorum" /\ HasQuorum(prop)
       /\ does_vote_count_pass(yes, options, prop.total_power, t.threshold)
    \/ t.type = "absolute_count" /\ yes >= t.threshold

\* The description that makes Execute fail.
TooEarly(prop) == prop.threshold.type = "absolute_percentage" /\ ~is_expired(prop)

current_status(prop) ==
    IF prop.status # "Open" THEN prop.status
    ELSE IF is_passed(prop) THEN "Passed"
    ELSE IF is_expired(prop) THEN "Rejected" ELSE "Open"

update_status(prop) == [prop EXCEPT !.status = current_status(prop)]

-----------------------------------------------------------------------------

Init ==
    /\ config \in FirstConfigs
    /\ validate(config.threshold)
    /\ validate_voting_period(config.min_voting_period, config.max_voting_period)
    /\ proposals = <<>> /\ ballots = [x \in Ids \X Users |-> NoBallot]
    /\ proposers = [u \in Users |-> 0]
    /\ power = [x \in Daos \X Users |-> 0] /\ total = [d \in Daos |-> 0] /\ now = 0

execute_propose(u, period) ==
    LET p == power[<<config.dao, u>>] IN
    /\ Len(proposals) < MaxProposals
    /\ verifying_voting_period(period)
    /\ p > 0 /\ p - proposers[u] >= config.proposal_creation_token_limit
    /\ proposers' = [proposers EXCEPT ![u] = @ + config.proposal_creation_token_limit]
    /\ proposals' = Append(proposals, update_status(
            [proposer |-> u, expiration |-> now + period.n, threshold |-> config.threshold, total_power |-> 0,
             status |-> "Open", votes |-> [v \in Vote |-> 0], voting_start_time |-> now]))
    /\ UNCHANGED <<config, ballots, power, total, now>>

\* Fault: the earlier vote is taken out with the power of today.
WithVote_NewPower(u, id, v) ==
    LET prop == proposals[id]
        removed == [w \in Vote |-> prop.votes[w] - IF w = ballots[<<id, u>>].vote THEN power[<<config.dao, u>>] ELSE 0]
    IN  [prop EXCEPT !.votes = [removed EXCEPT ![v] = @ + power[<<config.dao, u>>]], !.total_power = total[config.dao]]

\* The proposal with the vote of u in place of an earlier one.
WithVote(u, id, v) ==
    LET prop == proposals[id]
        old == ballots[<<id, u>>]
        removed == [w \in Vote |-> prop.votes[w] - IF w = old.vote THEN old.power ELSE 0]
    IN  [prop EXCEPT !.votes = [removed EXCEPT ![v] = @ + power[<<config.dao, u>>]], !.total_power = total[config.dao]]

VoteOpen(u, id) ==
    /\ power[<<config.dao, u>>] > 0
    /\ ~is_expired(proposals[id]) /\ proposals[id].status \notin {"Executed", "Closed"}

execute_vote(u, id, v) ==
    LET prop == WithVote(u, id, v) IN
    /\ VoteOpen(u, id)
    /\ prop.status = "Open" => Computes(prop)
    /\ ballots' = [ballots EXCEPT ![<<id, u>>] = [power |-> power[<<config.dao, u>>], vote |-> v]]
    /\ proposals' = [proposals EXCEPT ![id] = update_status(prop)]
    /\ UNCHANGED <<config, proposers, power, total, now>>

ExecuteAllowed(id) ==
    /\ proposers[proposals[id].proposer] >= config.proposal_creation_token_limit
    /\ Computes(proposals[id]) /\ ~TooEarly(proposals[id])
    /\ current_status(proposals[id]) = "Passed"

\* The messages of the proposal follow in the same transaction.
execute_execute(u, id) ==
    /\ power[<<config.dao, u>>] > 0 /\ ExecuteAllowed(id)
    /\ proposers' = [proposers EXCEPT ![proposals[id].proposer] = @ - config.proposal_creation_token_limit]
    /\ proposals' = [proposals EXCEPT ![id].status = "Executed"]
    /\ UNCHANGED <<config, ballots, power, total, now>>

CloseAllowed(id) ==
    /\ proposals[id].voting_start_time + config.token_hold_duration <= now
    /\ proposals[id].status = "Open" => Computes(proposals[id])
    /\ current_status(proposals[id]) = "Rejected"
    /\ proposers[proposals[id].proposer] >= config.proposal_creation_token_limit

\* Fault: the lock of the proposer remains.
execute_close_KeepLock(id) ==
    /\ CloseAllowed(id)
    /\ proposals' = [proposals EXCEPT ![id].status = "Closed"]
    /\ UNCHANGED <<config, proposers, ballots, power, total, now>>

\* Anybody may close.
execute_close(id) ==
    /\ CloseAllowed(id)
    /\ proposers' = [proposers EXCEPT ![proposals[id].proposer] = @ - config.proposal_creation_token_limit]
    /\ proposals' = [proposals EXCEPT ![id].status = "Closed"]
    /\ UNCHANGED <<config, ballots, power, total, now>>

execute_update_config(u, update) ==
    LET new == [f \in DOMAIN config |-> IF f \in DOMAIN update THEN update[f] ELSE config[f]] IN
    /\ u = config.admin
    /\ "threshold" \in DOMAIN update => validate(new.threshold)
    /\ validate_voting_period(new.min_voting_period, new.max_voting_period)
    /\ config' = new
    /\ UNCHANGED <<proposals, ballots, proposers, power, total, now>>

\* Stakes, unstakes and decay of power; a failed query of a duration counts as zero.
Restake(d, u, p) ==
    /\ p # power[<<d, u>>]
    /\ power' = [power EXCEPT ![<<d, u>>] = p]
    /\ \E t \in Totals \cup {SumOver([w \in Users |-> power'[<<d, w>>]], Users)} : total' = [total EXCEPT ![d] = t]
    /\ UNCHANGED <<config, proposals, ballots, proposers, now>>

Tick ==
    /\ now < MaxTime /\ now' = now + 1
    /\ UNCHANGED <<config, proposals, ballots, proposers, power, total>>

Next ==
    \/ \E u \in Users, period \in Periods : execute_propose(u, period)
    \/ \E u \in Users, id \in DOMAIN proposals : execute_execute(u, id) \/ \E v \in Vote : execute_vote(u, id, v)
    \/ \E id \in DOMAIN proposals : execute_close(id)
    \/ \E u \in Users, update \in Updates : execute_update_config(u, update)
    \/ \E d \in Daos, u \in Users, p \in Powers : Restake(d, u, p)
    \/ Tick

Spec == Init /\ [][Next]_vars

-----------------------------------------------------------------------------
(* Two conditions on the messages that some theorems need *)

Thresholds == {m["threshold"] : m \in {k \in FirstConfigs \cup Updates : "threshold" \in DOMAIN k}}

\* No valid percentage of the messages is below the precision of compare_vote_count
\* (10^-9 in the code, where the validation only asks for more than 0).
CoarsePercentages ==
    \A t \in Thresholds : validate(t) =>
        /\ t.type = "absolute_percentage" /\ t.percentage # Majority => t.percentage * PRECISION_FACTOR >= Unit
        /\ t.type = "threshold_quorum" /\ t.threshold # Majority => t.threshold * PRECISION_FACTOR >= Unit

\* The admin never changes the deposit (execute_execute and execute_close give back
\* the deposit of the config of the day, not the one that was taken).
FixedDeposit == \A update \in Updates : "proposal_creation_token_limit" \notin DOMAIN update

-----------------------------------------------------------------------------
(* Properties *)

TypeOK ==
    /\ \A id \in DOMAIN proposals : LET p == proposals[id] IN
        /\ p.proposer \in Users /\ p.status \in Status /\ p.votes \in [Vote -> Nat]
        /\ p.total_power \in Nat /\ p.expiration \in Nat /\ p.voting_start_time \in 0..now
    /\ ballots \in [Ids \X Users -> [power : Nat, vote : Vote] \cup {NoBallot}]
    /\ proposers \in [Users -> Nat]

\* The power every member has given to the answer v.
Given(id, v) == [u \in Users |-> IF ballots[<<id, u>>].vote = v THEN ballots[<<id, u>>].power ELSE 0]

\* The tally of every proposal is the sum of the ballots, each with the power it was
\* cast with: a vote that replaces another one takes out exactly what that one added,
\* although the power of the member has changed in between.
TallyMatchesBallots ==
    \A id \in DOMAIN proposals, v \in Vote : proposals[id].votes[v] = SumOver(Given(id, v), Users)

\* The status shown by the queries is final where it should be: after the end of voting
\* it only moves from Passed to Executed and from Rejected to Closed, whatever happens
\* to stakes, config and other proposals; Passed never goes back, not even before.
OutcomeIsFinal ==
    [][\A id \in DOMAIN proposals :
        LET before == current_status(proposals[id])
            after == current_status(proposals[id])'
        IN  /\ before = "Passed" => after \in {"Passed", "Executed"}
            /\ before = "Rejected" => after \in {"Rejected", "Closed"}
            /\ before \in {"Executed", "Closed"} => after = before
            /\ is_expired(proposals[id]) => before # "Open"]_vars

\* A proposal only becomes Passed with yes votes, whatever the threshold and however many
\* of the queries of total power failed. Where all of them failed a percentage of zero is
\* reached without yes votes, but still not by silence or abstentions.
PassNeedsSupport ==
    [][\A id \in DOMAIN proposals' :
        (id \in DOMAIN proposals => current_status(proposals[id]) # "Passed") /\ current_status(proposals[id])' = "Passed"
            => LET p == proposals'[id] IN
               p.votes["yes"] > 0 \/ (p.total_power = 0 /\ p.votes["no"] > 0)]_vars

\* Once voting has ended and the hold time is over a proposal can be executed by any
\* member or closed by anybody: no lock is missing and no computation panics.
NoProposalStuck ==
    \A id \in DOMAIN proposals :
        is_expired(proposals[id]) /\ proposals[id].voting_start_time + config.token_hold_duration <= now
        /\ proposals[id].status \notin {"Executed", "Closed"}
        => ExecuteAllowed(id) \/ CloseAllowed(id)

\* Once all proposals of a member are executed or closed nothing of the member's power
\* is locked.
LockReturned ==
    \A u \in Users :
        (\A id \in DOMAIN proposals : proposals[id].proposer = u => proposals[id].status \in {"Executed", "Closed"})
        => proposers[u] = 0

\* The tally is the sum of the ballots, however often members vote again with other powers.
BallotsCounted == TypeOK /\ TallyMatchesBallots

\* An outcome is final, and nothing passes without support.
OutcomeSound == OutcomeIsFinal /\ PassNeedsSupport

\* What the comment on Majority says: a majority proposal passes with more yes than no.
MajorityOfVotes ==
    \A id \in DOMAIN proposals :
        proposals[id].threshold.type = "threshold_quorum" /\ proposals[id].threshold.threshold = Majority
        /\ Computes(proposals[id]) /\ is_passed(proposals[id])
        => proposals[id].votes["yes"] > proposals[id].votes["no"]

\* What the comment on is_passed says: a proposal that passes before the end of voting
\* cannot fail any more.
EarlyPassIsSure ==
    \A id \in DOMAIN proposals :
        proposals[id].status = "Passed" /\ is_expired(proposals[id]) => is_passed(proposals[id])

\* What the comment in is_passed says: after the end, with the quorum met, the yes votes
\* are compared to the votes on the proposal.
PercentOfVotes ==
    \A id \in DOMAIN proposals : LET p == proposals[id] IN
        p.threshold.type = "threshold_quorum" /\ p.threshold.threshold # Majority /\ is_expired(p)
        /\ p.status = "Open" /\ HasQuorum(p) /\ p.votes["yes"] > 0
        /\ p.votes["yes"] * Unit >= (Cast(p) - p.votes["abstain"]) * p.threshold.threshold
        => is_passed(p)

\* What the comment on min_voting_period says: no proposal passes before that time.
MinVotingPeriod ==
    \A id \in DOMAIN proposals :
        current_status(proposals[id]) = "Passed"
        => now >= proposals[id].voting_start_time + config.min_voting_period.n

\* What the comment on Abstain says: an abstention does not count in the ratio, so it
\* does not keep another member from voting.
EveryMemberCanVote ==
    \A id \in DOMAIN proposals, u \in Users, v \in Vote :
        VoteOpen(u, id) /\ proposals[id].status = "Open" => Computes(WithVote(u, id, v))
=============================================================================
