-------------------------- MODULE MCMultipleChoice --------------------------
(***************************************************************************)
(* A small instance of MultipleChoice for TLC.  Its behaviours are those   *)
(* of two scenes: in "rounds" two members vote on both pools over two      *)
(* rounds, in "options" one member votes on options that come and go,      *)
(* while the config and the gauge of the converter change.                 *)
(***************************************************************************)
EXTENDS MultipleChoice

CONSTANTS u1, u2, poolA, poolB

VARIABLE scene

Config == [min_voting_period |-> 1, max_voting_period |-> 3, min_pending_period |-> 1,
           proposal_creation_token_limit |-> 1, token_hold_duration |-> 1]

Vote(pool, percentage) == [pool |-> pool, percentage |-> percentage]

MCVotes == {<<Vote(poolA, 100)>>, <<Vote(poolB, 100)>>, <<Vote(poolB, 50)>>, <<Vote(poolB, 100), Vote(poolB, 0)>>}
MCOptions == {<<poolA, poolB>>, <<poolA>>}
AddB == {<<poolB>>}
RemoveA == {{poolA}}
MCGauges == {[synergistic_loop_gauge_contract |-> This], [loop_gauge_contract |-> This]}
ConfigUpdates == {[min_pending_period |-> 4], [token_hold_duration |-> 3]}

\* The ballots of a step are for the whole power of the voter.
WholeBallots ==
    \A key \in DOMAIN ballots' :
        key \notin DOMAIN ballots \/ ballots'[key] /= ballots[key] => ballots'[key].power = power[key[3]]

\* Bounds of a step in each scene.
Within ==
    \/ /\ scene = "rounds"
       /\ config' = config /\ gauge_cfg'.loop_gauge_contract = LoopGauge
       /\ \A i \in DOMAIN proposals' : Len(proposals'[i].choices) = 2 /\ proposals'[i].pending_period = 1
       /\ \A i \in DOMAIN proposals' : proposals'[i].total_power <= 3
       /\ WholeBallots /\ power'[u1] \in 0 .. 2 /\ power'[u2] \in {0, 1}
    \/ /\ scene = "options"
       /\ power'[u2] = 0 /\ power'[u1] \in {0, 2}
       /\ \A i \in DOMAIN proposals' \ DOMAIN proposals : Len(proposals'[i].choices) = 1
       /\ gauge_cfg'.synergistic_loop_gauge_contract = None \/ gauge_cfg'.loop_gauge_contract = LoopGauge

MCInit == Init /\ scene \in {"rounds", "options"}
MCNext == Next /\ Within /\ UNCHANGED scene
MCSpec == MCInit /\ [][MCNext]_<<vars, scene>>

\* While nobody changes the options, every round is counted from its own ballots, also after
\* votes that replace others and after new rounds; and members who give away their whole power
\* make the contract place all votes of the converter or none.
WholeRounds == scene = "rounds" => TallyMatchesBallots /\ PlacedVotesComplete

=============================================================================
