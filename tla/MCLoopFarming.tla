--------------------------- MODULE MCLoopFarming ---------------------------
(***************************************************************************)
(* A small instance of LoopFarming for TLC.  Its behaviours are those of   *)
(* two scenes: in "pools" two pools pay one token and the config stays as  *)
(* it is, in "tokens" one pool gets a second reward token and the owner    *)
(* changes the config.                                                     *)
(***************************************************************************)
EXTENDS LoopFarming

CONSTANTS u1, u2, p1, p2, t1, t2, flp, other

VARIABLE scene

MCFlp == [p \in Pools |-> flp]
OneTwoLp == [x \in Positions |-> IF x[1] = u1 THEN 2 ELSE 1]
OneToken == [p \in Pools |-> {t1}]

\* Bounds of a step in each scene.
Within ==
    \/ /\ scene = "pools"
       /\ owner' = owner /\ treasury_addr' = treasury_addr /\ treasury_fee' = treasury_fee
       /\ distribution' = distribution
       /\ \A p \in Pools : stakeable'[p] /= other
    \/ /\ scene = "tokens"
       /\ stakeable'[p2] = NotListed /\ distribution'[p2] = {t1}
       /\ \A t \in Tokens : Total(<<p1, t>>)' <= 5

MCInit == Init /\ scene \in {"pools", "tokens"}
MCNext == Next /\ Within /\ UNCHANGED scene
MCSpec == MCInit /\ [][MCNext]_<<vars, scene>>

=============================================================================
