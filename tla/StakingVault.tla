---------------------------- MODULE StakingVault ----------------------------
(***************************************************************************)
(* What a bToken vault promises: every operation is atomic, changes the    *)
(* stake and the wallet of one account, and pays rewards only out of what  *)
(* the vault holds beyond the stakes.                                      *)
(***************************************************************************)
EXTENDS Sums, Integers

CONSTANT Users

VARIABLES
    stake,    \* what each account has staked
    wallet,   \* the bTokens of each account
    held      \* the bTokens of the vault

vars == <<stake, wallet, held>>

Staked == SumOver(stake, Users)

\* Only account u is touched, and the principal of everybody stays covered.
Only(u) ==
    /\ \A v \in Users \ {u} : wallet'[v] = wallet[v]
    /\ Staked' <= held'

Init ==
    /\ stake = [u \in Users |-> 0]
    /\ wallet = [u \in Users |-> 0]
    /\ held = 0

\* u stakes part of the wallet and may collect a reward.
DoStake(u) ==
    /\ stake' = [stake EXCEPT ![u] = stake'[u]]
    /\ stake'[u] > stake[u]
    /\ wallet'[u] + stake'[u] >= wallet[u] + stake[u]
    /\ Only(u)

\* u gets back what is taken off the stake, and perhaps a reward.
DoUnstake(u) ==
    /\ stake' = [stake EXCEPT ![u] = stake'[u]]
    /\ stake'[u] < stake[u]
    /\ wallet'[u] + stake'[u] >= wallet[u] + stake[u]
    /\ Only(u)

\* u receives bTokens: a reward, or bTokens minted for a deposit.
DoReceive(u) ==
    /\ stake' = stake
    /\ wallet'[u] > wallet[u]
    /\ Only(u)

\* New rewards reach the vault.
DoFund ==
    /\ stake' = stake /\ wallet' = wallet
    /\ held' > held

\* u gives bTokens to the stakers.  A reward may go out in the same step.
DoDonate(u) ==
    /\ stake' = stake
    /\ \A v \in Users \ {u} : wallet'[v] >= wallet[v]
    /\ \E v \in Users : \A w \in Users \ {u, v} : wallet'[w] = wallet[w]
    /\ Staked' <= held'
    /\ held' + SumOver(wallet', Users) <= held + SumOver(wallet, Users)

Next ==
    \/ DoFund
    \/ \E u \in Users : DoStake(u) \/ DoUnstake(u) \/ DoReceive(u) \/ DoDonate(u)

Spec == Init /\ [][Next]_vars
=============================================================================
