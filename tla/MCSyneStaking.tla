--------------------------- MODULE MCSyneStaking ---------------------------
(***************************************************************************)
(* A small instance of SyneStaking for TLC.  Its behaviours are those of   *)
(* three scenes: in "rewards" the config stays as it is and two users act, *)
(* in "late" one user acts for longer, so that more periods can be missed, *)
(* and in "settings" the owner changes the config while one user acts.     *)
(***************************************************************************)
EXTENDS SyneStaking

CONSTANTS u1, u2, Scenes

VARIABLE scene

\* A day is two ticks, a distribution is due every day, one month is two days.
MCConfig == [freeze_lock_time |-> 2, lock_time_frame |-> 4, wait_time |-> 2, day_factor |-> 2]

MCOneDuration == <<1>>

MCWallet == [a \in Accounts |-> IF a = Admin THEN 4 ELSE 2]

\* Amounts of which a quarter is whole, so that their decay is never rounded.
MCWholeDecayWallet == [a \in Accounts |-> IF a = Admin THEN 20 ELSE 8]

\* The owner may shorten the month and the day while positions are open.
MCSettings == {<<"lock_time_frame", 2>>, <<"day_factor", 1>>}

ASSUME SaneSettings

RewardsTime == 9
SettingsTime == 7

\* u does nothing and owns nothing.
Idle(u) == /\ owner' /= u /\ second_owner' /= u
           /\ wallet'[u] = InitWallet[u] /\ \A d \in Durations : actual_balance'[u, d] = 0

\* Bounds of a step in each scene.
Within ==
    \/ scene = "rewards" /\ now' <= RewardsTime /\ configVars' = configVars
    \/ scene = "late" /\ configVars' = configVars /\ \E u \in Users : Idle(u)
    \/ scene = "settings" /\ now' <= SettingsTime /\ \E u \in Users : Idle(u)

MCInit == Init /\ scene \in Scenes
MCNext == Next /\ Within /\ UNCHANGED scene
MCSpec == MCInit /\ [][MCNext]_<<vars, scene>>

UserSymmetry == Permutations({u1, u2})

=============================================================================
