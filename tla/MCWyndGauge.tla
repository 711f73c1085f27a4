---------------------------- MODULE MCWyndGauge ----------------------------
(***************************************************************************)
(* A small instance of WyndGauge for TLC.  Its behaviours are those of     *)
(* three scenes: in "votes" two epochs of one gauge pass, in "hooks" two   *)
(* gauges follow the powers of the members, in "options" options come and  *)
(* go and the limits of the gauge change.                                  *)
(***************************************************************************)
EXTENDS WyndGauge

CONSTANTS u1, u2, Scenes

VARIABLE scene

Vote(option, weight) == [option |-> option, weight |-> weight]

MCGauge ==
    [epoch |-> 3, is_stopped |-> FALSE, options |-> <<1, 2>>, min_percent_selected |-> 0,
     max_options_selected |-> 2, max_available_percentage |-> 0]

SplitVotes == {<<>>, <<Vote(1, 3)>>, <<Vote(1, 2), Vote(2, 2)>>}
RepeatedVotes == {<<>>, <<Vote(2, 4)>>, <<Vote(1, 1), Vote(1, 3)>>}
AllVotes == SplitVotes \union RepeatedVotes
MCConverter == {[synergistic_wynd_gauge_contract |-> This], [wynd_gauge_contract |-> This]}
Limits == {[max_options_selected |-> 2, min_percent_selected |-> 2], [max_options_selected |-> 1, min_percent_selected |-> 1],
           [max_available_percentage |-> 2], [epoch_pending_size |-> 4]}

\* No option is added or removed and no limit changes; stopping is allowed.
SameOptions ==
    /\ \A key \in DOMAIN tally' : key[2] \in {1, 2} /\ key[1] \in DOMAIN gauges'
    /\ \A key \in DOMAIN tally : key \in DOMAIN tally'
    /\ \A id \in DOMAIN gauges' :
        /\ gauges'[id].max_options_selected = 2 /\ gauges'[id].min_percent_selected = 0
        /\ gauges'[id].max_available_percentage = 0 /\ gauges'[id].epoch_pending_size = 2

Lists(set) == \A key \in DOMAIN votes' : votes'[key].votes \in set

\* Bounds of a step in each scene.
Within ==
    \/ /\ scene = "votes"
       /\ SameOptions /\ Lists(RepeatedVotes) /\ DOMAIN gauges' \subseteq {0}
       /\ \A id \in DOMAIN gauges' : ~gauges'[id].is_stopped
       /\ \A u \in Users : power'[u] \in {3, 4}
    \/ /\ scene = "hooks"
       /\ SameOptions /\ Lists(SplitVotes) /\ now' <= 1
       /\ gauge_cfg' = gauge_cfg
    \/ /\ scene = "options"
       /\ Lists(SplitVotes) /\ DOMAIN gauges' \subseteq {0} /\ now' <= 1
       /\ power' = power /\ gauge_cfg' = gauge_cfg
       /\ \A id \in DOMAIN gauges' : ~gauges'[id].is_stopped

MCInit == Init /\ scene \in Scenes /\ hooked = (scene = "hooks")
MCNext == Next /\ Within /\ UNCHANGED scene
MCSpec == MCInit /\ [][MCNext]_<<vars, scene>>

\* As long as no option is removed, the tally of every option is what the stored votes of
\* all members give it, over new votes, new epochs and changes of power.
KeptTally == scene /= "options" => TallyMatchesVotes

\* The three maps of the tally agree with each other and with the stored votes, and these
\* with the powers the hook reports.
TallySound == TypeOK /\ KeptTally /\ TalliesAgree /\ PowersCurrent

\* What is placed at the WYND gauge is the top of the tally with weights that add up, and
\* the first vote of an epoch closes the one before.
PlacedSound == SelectedAreTop /\ PlacedWeightsWhole /\ VoteClosesEpoch

=============================================================================
