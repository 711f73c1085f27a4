--------------------------- MODULE MCBwyndSystem ---------------------------
(***************************************************************************)
(* A small instance of BwyndSystem for TLC.  Its behaviours are those of   *)
(* two scenes: in "rewards" the admin does nothing, in "admin" the users   *)
(* move whole pairs of tokens and one reward accrues.                      *)
(***************************************************************************)
EXTENDS BwyndSystem

CONSTANTS u1, u2

VARIABLE scene

MCWynd == [u \in Users |-> 2]

Pairs(f) == \A u \in Users : f[u] % 2 = 0

\* Bounds of a step in each scene.
Within ==
    \/ /\ scene = "rewards"
       /\ admin' = admin /\ unbonding_period' = unbonding_period /\ admin_minted' = admin_minted
    \/ /\ scene = "admin"
       /\ Pairs(wynd') /\ Pairs([u \in Users |-> STAKE'[u].stake])
       /\ delegated'[7] + delegated'[8] + owed' <= 10
       /\ SumOver(bwynd', Holders) <= 7

MCInit == Init /\ scene \in {"rewards", "admin"}
MCNext == Next /\ Within /\ UNCHANGED scene
MCSpec == MCInit /\ [][MCNext]_<<vars, scene>>
=============================================================================
