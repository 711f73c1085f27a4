------------------------------ MODULE Multisig ------------------------------
(***************************************************************************)
(* cw3-fixed-multisig: voters with fixed weights propose, vote on, execute *)
(* and close proposals. The rules of Proposal, Votes and Threshold come    *)
(* from the crates cw3 and cw_utils. Percentages are numbers of 1/One.     *)
(***************************************************************************)
EXTENDS Sums, Integers, Sequences, FiniteSets

CONSTANTS
    Voters,
    VoterLists,          \* inputs of instantiate: lists of voters with weights
    Thresholds,          \* inputs of instantiate
    One,                 \* 100 %
    MaxVotingPeriod,
    Latests,             \* inputs of Propose: expirations
    MaxProposals, MaxTime

None == -1
OtherKind == -2          \* an expiration that does not compare: by height, or never
Votes == {"yes", "no", "abstain", "veto"}
Status == {"Open", "Passed", "Rejected", "Executed"}

MultisigAssumption ==
    /\ IsFiniteSet(Voters) /\ One \in Nat \ {0} /\ MaxVotingPeriod \in Nat /\ MaxProposals \in Nat
    /\ VoterLists \subseteq Seq([addr : Voters, weight : Nat]) /\ Latests \subseteq Int

VARIABLES
    weights,             \* VOTERS
    config,              \* CONFIG: threshold, total_weight
    proposals, ballots,  \* PROPOSALS, BALLOTS
    sent,                \* how often the messages of a proposal were dispatched
    now

vars == <<weights, config, proposals, ballots, sent, now>>

-----------------------------------------------------------------------------
(* cw3 and cw_utils *)

votes_needed(weight, percentage) == (weight * percentage + One - 1) \div One

total(v) == v["yes"] + v["no"] + v["abstain"] + v["veto"]

is_expired(p) == now >= p.expires

\* The weight that can have an opinion: after the end, only what was cast.
Opinions(p) == (IF is_expired(p) THEN total(p.votes) ELSE config.total_weight) - p.votes["abstain"]

\* Fault: votes that are missing do not count against the proposal.
is_passed_Early(p) ==
    LET t == config.threshold IN
    \/ t.kind = "AbsoluteCount" /\ p.votes["yes"] >= t.weight
    \/ /\ t.kind = "AbsolutePercentage"
       /\ p.votes["yes"] >= votes_needed(config.total_weight - p.votes["abstain"], t.percentage)
    \/ /\ t.kind = "ThresholdQuorum" /\ total(p.votes) >= votes_needed(config.total_weight, t.quorum)
       /\ p.votes["yes"] >= votes_needed(total(p.votes) - p.votes["abstain"], t.threshold)

is_passed(p) ==
    LET t == config.threshold IN
    \/ t.kind = "AbsoluteCount" /\ p.votes["yes"] >= t.weight
    \/ /\ t.kind = "AbsolutePercentage"
       /\ p.votes["yes"] >= votes_needed(config.total_weight - p.votes["abstain"], t.percentage)
    \/ /\ t.kind = "ThresholdQuorum" /\ total(p.votes) >= votes_needed(config.total_weight, t.quorum)
       /\ p.votes["yes"] >= votes_needed(Opinions(p), t.threshold)

is_rejected(p) ==
    LET t == config.threshold IN
    \/ t.kind = "AbsoluteCount" /\ p.votes["no"] > config.total_weight - t.weight
    \/ /\ t.kind = "AbsolutePercentage"
       /\ p.votes["no"] > votes_needed(config.total_weight - p.votes["abstain"], One - t.percentage)
    \/ t.kind = "ThresholdQuorum" /\ p.votes["no"] > votes_needed(Opinions(p), One - t.threshold)

current_status(p) ==
    IF p.status # "Open" THEN p.status
    ELSE IF is_passed(p) THEN "Passed"
    ELSE IF is_rejected(p) \/ is_expired(p) THEN "Rejected" ELSE "Open"

update_status(p) == [p EXCEPT !.status = current_status(p)]

validate(t, total_weight) ==
    \/ t.kind = "AbsoluteCount" /\ t.weight \in 1 .. total_weight
    \/ t.kind = "AbsolutePercentage" /\ t.percentage \in 1 .. One
    \/ t.kind = "ThresholdQuorum" /\ t.threshold \in 1 .. One /\ t.quorum \in 1 .. One

-----------------------------------------------------------------------------

ListTotal(list) == SumOver([i \in DOMAIN list |-> list[i].weight], DOMAIN list)

\* Voters are saved one after the other: the last weight of a voter stays.
LastOf(list, u) == Max({i \in DOMAIN list : list[i].addr = u})
SavedWeights(list) == [u \in {list[i].addr : i \in DOMAIN list} |-> list[LastOf(list, u)].weight]

Init ==
    \E list \in VoterLists, t \in Thresholds :
        /\ list # <<>> /\ validate(t, ListTotal(list))
        /\ weights = SavedWeights(list)
        /\ config = [threshold |-> t, total_weight |-> ListTotal(list)]
        /\ proposals = <<>> /\ ballots = [key \in {} |-> 0] /\ sent = <<>> /\ now = 0

\* BALLOTS.save
Saved(id, u, vote) ==
    [key \in DOMAIN ballots \cup {<<id, u>>} |->
        IF key = <<id, u>> THEN [weight |-> weights[u], vote |-> vote] ELSE ballots[key]]

execute_propose(u, latest) ==
    LET max_expires == now + MaxVotingPeriod
        p == [expires |-> IF latest = None \/ latest > max_expires THEN max_expires ELSE latest, status |-> "Open",
              votes |-> [v \in Votes |-> IF v = "yes" THEN weights[u] ELSE 0]]
    IN
    /\ Len(proposals) < MaxProposals
    /\ u \in DOMAIN weights /\ latest # OtherKind
    /\ proposals' = Append(proposals, update_status(p))
    /\ ballots' = Saved(Len(proposals) + 1, u, "yes")
    /\ sent' = Append(sent, 0)
    /\ UNCHANGED <<weights, config, now>>

VoteAllowed(u, id) ==
    /\ u \in DOMAIN weights /\ weights[u] >= 1
    /\ proposals[id].status \in {"Open", "Passed", "Rejected"}
    /\ ~is_expired(proposals[id])
    /\ <<id, u>> \notin DOMAIN ballots

\* Votes::add_vote
Voted(p, u, vote) == [p EXCEPT !.votes = [p.votes EXCEPT ![vote] = @ + weights[u]]]

execute_vote(u, id, vote) ==
    /\ VoteAllowed(u, id)
    /\ ballots' = Saved(id, u, vote)
    /\ proposals' = [proposals EXCEPT ![id] = update_status(Voted(@, u, vote))]
    /\ UNCHANGED <<weights, config, sent, now>>

\* Fault: only until the proposal has expired.
execute_execute_BeforeExpiry(id) ==
    /\ current_status(proposals[id]) = "Passed" /\ ~is_expired(proposals[id])
    /\ proposals' = [proposals EXCEPT ![id].status = "Executed"]
    /\ sent' = [sent EXCEPT ![id] = @ + 1]
    /\ UNCHANGED <<weights, config, ballots, now>>

\* A failing message reverts the call, which is then as if not made.
execute_execute(id) ==
    /\ current_status(proposals[id]) = "Passed"
    /\ proposals' = [proposals EXCEPT ![id].status = "Executed"]
    /\ sent' = [sent EXCEPT ![id] = @ + 1]
    /\ UNCHANGED <<weights, config, ballots, now>>

CloseAllowed(p) ==
    /\ p.status \notin {"Executed", "Rejected", "Passed"}
    /\ current_status(p) # "Passed"
    /\ is_expired(p)

execute_close(id) ==
    /\ CloseAllowed(proposals[id])
    /\ proposals' = [proposals EXCEPT ![id].status = "Rejected"]
    /\ UNCHANGED <<weights, config, ballots, sent, now>>

Tick ==
    /\ now < MaxTime
    /\ now' = now + 1
    /\ UNCHANGED <<weights, config, proposals, ballots, sent>>

Next ==
    \/ \E u \in Voters, latest \in Latests : execute_propose(u, latest)
    \/ \E id \in DOMAIN proposals :
        \/ \E u \in Voters, vote \in Votes : execute_vote(u, id, vote)
        \/ execute_execute(id)
        \/ execute_close(id)
    \/ Tick

Spec == Init /\ [][Next]_vars

\* Anyone may execute or close, so someone eventually does; blocks go on.
FairSpec ==
    /\ Spec /\ WF_vars(Tick)
    /\ \A id \in 1 .. MaxProposals :
           WF_vars(id \in DOMAIN proposals /\ execute_execute(id)) /\ WF_vars(id \in DOMAIN proposals /\ execute_close(id))

-----------------------------------------------------------------------------
(* Properties *)

\* The weight every voter has given to one of the answers.
Given(id, answers) ==
    [u \in Voters |-> IF <<id, u>> \in DOMAIN ballots /\ ballots[<<id, u>>].vote \in answers
                      THEN ballots[<<id, u>>].weight ELSE 0]

\* The tally of a proposal is the weight of its ballots, and every voter has
\* at most one, whatever the status was when they voted.
TallyMatchesBallots ==
    /\ DOMAIN ballots \subseteq (DOMAIN proposals) \X Voters
    /\ \A id \in DOMAIN proposals : \A vote \in Votes :
           proposals[id].votes[vote] = SumOver(Given(id, {vote}), Voters)

\* The messages of a proposal are dispatched at most once.
ExecutedOnce == \A id \in DOMAIN proposals : sent[id] = IF proposals[id].status = "Executed" THEN 1 ELSE 0

\* Deciding early is safe: when the proposal expires, the votes that came in
\* later would give the same result as the one that was stored.
EarlyDecisionHolds ==
    \A id \in DOMAIN proposals :
        LET p == proposals[id]
            counted == current_status([p EXCEPT !.status = "Open"])
        IN  /\ is_expired(p) /\ p.status \in {"Passed", "Executed"} => counted = "Passed"
            /\ is_expired(p) /\ p.status = "Rejected" => counted = "Rejected"

\* The tally of a proposal is the weight of its ballots, its messages are sent at
\* most once, and votes that come in after an early decision do not refute it.
MultisigSound == TallyMatchesBallots /\ ExecutedOnce /\ EarlyDecisionHolds

\* Every proposal is executed or rejected in the end: none that expires is
\* left neither executable nor closable.
EventuallyDecided ==
    \A id \in 1 .. MaxProposals :
        (id \in DOMAIN proposals /\ proposals[id].expires <= MaxTime)
            ~> (id \in DOMAIN proposals /\ proposals[id].status \in {"Executed", "Rejected"})

\* instantiate refuses a threshold above the total weight, so a proposal all
\* voters agree to passes.
UnanimityPasses ==
    \A id \in DOMAIN proposals :
        (\A u \in DOMAIN weights : <<id, u>> \in DOMAIN ballots /\ ballots[<<id, u>>].vote = "yes")
            => proposals[id].status \in {"Passed", "Executed"}

=============================================================================
