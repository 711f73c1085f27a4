-------------------------- MODULE VaultAccounting --------------------------
(***************************************************************************)
(* The reward accounting of the bToken vaults: TOTAL_STAKED (a TokenInfo), *)
(* STAKE (a StakingInfo per account) and what a RewardAction does to them. *)
(* Decimals are integers in units of 1/Unit (Unit is 10^18 in the code).   *)
(***************************************************************************)
EXTENDS Sums, Integers, Sequences, FiniteSets

CONSTANTS
    Users,             \* accounts that hold bTokens
    Unit,              \* atomics of one Decimal
    treasury_fee,      \* Decimal, 0.2 from instantiate on
    syne_staking_fee   \* Decimal, 0 from instantiate on

ASSUME VaultUsersAssumption == IsFiniteSet(Users)
ASSUME FeesAssumption ==
    /\ Unit \in Nat \ {0} /\ treasury_fee \in Nat /\ syne_staking_fee \in Nat
    /\ treasury_fee + syne_staking_fee <= Unit

TokenInfo == [staked : Nat, pending_treasury_rewards : Nat, pending_syne_staking_rewards : Nat, power : Nat]
StakingInfo == [stake : Nat, power_diff : Nat]

NoTokenInfo ==
    [staked |-> 0, pending_treasury_rewards |-> 0, pending_syne_staking_rewards |-> 0, power |-> 0]
NoStakingInfo == [stake |-> 0, power_diff |-> 0]

\* RewardAction; the amounts of the two fee withdrawals play no role.
NoAction == [kind |-> "NoAction"]
Reward(u) == [kind |-> "Reward", address |-> u]
Stake(u, a) == [kind |-> "Stake", address |-> u, amount |-> a]
Unstake(u, a) == [kind |-> "Unstake", address |-> u, amount |-> a]
SyneStakingRewardWithdraw == [kind |-> "SyneStakingRewardWithdraw"]

\* Decimal::from_atomics(x, 0) * fee, rounded down.
Fee(x, fee) == (x * fee) \div Unit

\* checked_sub(..).unwrap_or_default()
Monus(x, y) == IF x >= y THEN x - y ELSE 0

\* TOTAL_STAKED after `reward` bTokens arrived.  Nobody gets the net reward
\* when nothing is staked.
update_total_rewards(total, reward) ==
    LET treasury == Fee(reward, treasury_fee)
        syne == Fee(reward, syne_staking_fee)
        gain == IF total.staked > 0 THEN ((reward - treasury - syne) * Unit) \div total.staked ELSE 0
    IN  [staked |-> total.staked,
         pending_treasury_rewards |-> total.pending_treasury_rewards + treasury,
         pending_syne_staking_rewards |-> total.pending_syne_staking_rewards + syne,
         power |-> total.power + gain]

\* Reward of an account since power_diff was last set.
PendingReward(total, info) == (Monus(total.power, info.power_diff) * info.stake) \div Unit

\* Fault: the stake is settled without moving power_diff.
Settled_KeepDiff(total, info, amount) == [stake |-> amount, power_diff |-> info.power_diff]

\* StakingInfo after the reward has been taken, with the given stake.
Settled(total, info, amount) == [stake |-> amount, power_diff |-> total.power]

\* What update_rewards, add_stake and remove_stake leave of TOTAL_STAKED and
\* STAKE, and the transfers <<account, amount>> the vault makes.  A transfer of
\* zero, which only execute_withdraw_rewards makes, moves nothing.
Performed(act, total, stakes) ==
    IF act.kind = "NoAction" THEN [total |-> total, stakes |-> stakes, pay |-> << >>]
    ELSE LET u == act.address
             info == stakes[u]
             due == PendingReward(total, info)
             reward == IF due > 0 THEN << <<u, due>> >> ELSE << >>
         IN  CASE act.kind = "Reward" ->
                    [total |-> total,
                     stakes |-> [stakes EXCEPT ![u] = Settled(total, info, info.stake)],
                     pay |-> reward]
               [] act.kind = "Stake" ->
                    [total |-> [total EXCEPT !.staked = @ + act.amount],
                     stakes |-> [stakes EXCEPT ![u] = Settled(total, info, info.stake + act.amount)],
                     pay |-> reward]
               [] act.kind = "Unstake" ->
                    [total |-> [total EXCEPT !.staked = Monus(@, act.amount)],
                     stakes |-> [stakes EXCEPT ![u] = Settled(total, info, Monus(info.stake, act.amount))],
                     pay |-> << <<u, act.amount>> >> \o reward]

\* What the vault owes: the stakes, the fees and the rewards nobody has taken yet.
Liabilities(total, stakes) ==
    total.staked + total.pending_treasury_rewards + total.pending_syne_staking_rewards
    + SumOver([u \in Users |-> PendingReward(total, stakes[u])], Users)

\* Stakes rounded up to whole units.
CeilDiv(x, y) == (x + y - 1) \div y

\* How often rounding may favour the user: the reward is rounded once where the query
\* rounds two parts, and each fee is rounded down.
Roundings == 1 + (IF treasury_fee > 0 THEN 1 ELSE 0) + (IF syne_staking_fee > 0 THEN 1 ELSE 0)

=============================================================================
