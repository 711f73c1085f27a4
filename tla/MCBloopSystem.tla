--------------------------- MODULE MCBloopSystem ---------------------------
(***************************************************************************)
(* A small instance of BloopSystem for TLC.  Its behaviours are those of   *)
(* three scenes: in "rewards" only users act and move any amounts, in      *)
(* "admin" the admin mints and changes the config, and in "donations"      *)
(* users send rewards themselves.                                          *)
(***************************************************************************)
EXTENDS BloopSystem

CONSTANTS u1, u2

VARIABLE scene

MCLoop == [u \in Users |-> 2]

Donates(t) == t.kind = "Send" /\ t.hook.kind = "DistributeRewards"
LoopBound(n) == SumOver(principal', Durations) + SumOver(owed', Durations) <= n
InPairs(t) == t.kind \in {"Send", "Convert", "Unstake"} => t.amount = 2

\* Bounds of a step in each scene; a transaction that is running always goes on.
Within ==
    \/ msgs /= << >>
    \/ /\ scene = "rewards"
       /\ admin' = admin /\ duration' = duration
       /\ tx'.kind /= "ConverterMint" /\ ~Donates(tx')
    \/ /\ scene = "admin"
       /\ InPairs(tx') /\ ~Donates(tx') /\ (owed' /= owed => LoopBound(8))
    \/ /\ scene = "donations"
       /\ admin' = admin /\ duration' = duration
       /\ InPairs(tx') /\ tx'.kind /= "ConverterMint"

MCInit == Init /\ scene \in {"rewards", "admin", "donations"}
MCNext == Next /\ Within /\ UNCHANGED scene
MCSpec == MCInit /\ [][MCNext]_<<vars, scene>> /\ WF_vars(Execute)

=============================================================================
