--------------------------- MODULE MCSingleChoice ---------------------------
(***************************************************************************)
(* A small instance of SingleChoice for TLC.  Its behaviours are those of  *)
(* two scenes: in "votes" powers and thresholds change under one proposal, *)
(* in "locks" the members keep their power, there are two proposals and    *)
(* the admin may name another staking contract.                            *)
(***************************************************************************)
EXTENDS SingleChoice

CONSTANTS u1, u2, d1, d2

VARIABLE scene

Time(n) == [unit |-> "time", n |-> n]

Quorum(threshold, quorum) == [type |-> "threshold_quorum", threshold |-> threshold, quorum |-> quorum]
Percentage(p) == [type |-> "absolute_percentage", percentage |-> p]
Count(n) == [type |-> "absolute_count", threshold |-> n]

Config(threshold) ==
    [threshold |-> threshold, min_voting_period |-> Time(1), max_voting_period |-> Time(2), dao |-> d1,
     admin |-> u1, proposal_creation_token_limit |-> 1, token_hold_duration |-> 1]

\* One config per scene, and one that is not valid.
MCConfigs == {Config(Quorum(Majority, 4)), Config(Count(2)), Config(Percentage(0))}

MCPeriods == {Time(1), Time(2), [unit |-> "height", n |-> 1]}

\* Other thresholds, some of them invalid, and another staking contract.
MCUpdates ==
    {[threshold |-> Percentage(5)], [threshold |-> Quorum(0, 5)], [threshold |-> Quorum(5, 0)],
     [max_voting_period |-> Time(0)], [dao |-> d2]}

ASSUME CoarsePercentages /\ FixedDeposit

\* Bounds of a step in each scene.
Within ==
    \/ /\ scene = "votes"
       /\ Len(proposals') <= 1 /\ config'.dao = d1
       /\ \A u \in Users : power'[<<d1, u>>] <= 2 /\ power'[<<d2, u>>] = 0
    \/ /\ scene = "locks"
       /\ config'.threshold = config.threshold
       /\ \A x \in DOMAIN power' : power'[x] \in {0, 3}
       /\ power'[<<d2, u1>>] = 0
       /\ \A d \in Daos : total'[d] = SumOver([u \in Users |-> power'[<<d, u>>]], Users)
       /\ \A x \in DOMAIN power' : power[x] > 0 => power'[x] = power[x]
       /\ \A id \in DOMAIN proposals' : proposals'[id].expiration - proposals'[id].voting_start_time = 1

MCInit == Init /\ scene = IF config.threshold = Count(2) THEN "locks" ELSE "votes"
MCNext == Next /\ Within /\ UNCHANGED scene
MCSpec == MCInit /\ [][MCNext]_<<vars, scene>>

\* As long as the members keep their power, no proposal is stuck: once voting has ended
\* and the hold time is over it can be executed or closed, and no computation panics.
KeptPowersNeverStick == scene = "locks" => NoProposalStuck

\* Deposits come back: locked power is the deposit of the open proposals, and no proposal of
\* members that keep their power is stuck.
DepositsReturned == LockReturned /\ KeptPowersNeverStick

=============================================================================
