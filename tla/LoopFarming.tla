---------------------------- MODULE LoopFarming ----------------------------
(***************************************************************************)
(* loopswap_farming at the level of transactions.  Users stake LP tokens   *)
(* through this contract in the LOOP farm, which is external, and share    *)
(* the rewards of the farm.  Stake, unstake and claim are three handlers   *)
(* each: execute_* saves the request and lets the farm distribute,         *)
(* handle_* asks the farm for the pending rewards and calls it again,      *)
(* handle_*_reply settles.  The chain runs them in one transaction that    *)
(* succeeds or leaves no trace, so here each calls the next one.           *)
(* Decimals are integers in units of 1/Unit.                               *)
(***************************************************************************)
EXTENDS Sums, Integers, FiniteSets

CONSTANTS
    Users, Pools, Tokens,  \* accounts, LP tokens and reward tokens
    Liquidity,             \* FLP tokens the owner may name for a pool
    NotListed,             \* no entry in STAKEABLE_INFOS
    Flp,                   \* the FLP token the farm issues for each pool
    Unit,                  \* atomics of one Decimal
    fee_multiplier,        \* 1000000 in the code
    FirstOwner, FirstFee,  \* sender, fee of instantiate
    NewOwners, NewFees,    \* values of UpdateConfig, UpdateTreasuryAddr, UpdateTreasuryFee
    FirstDistribution,     \* reward tokens of each pool at the start
    InitLp,                \* LP tokens of each user and pool
    Amounts,               \* amounts of Stake and UnstakeAndClaim
    Rewards,               \* rewards the farm distributes at once
    MaxRewards             \* bound on the rewards of one pool and token

PoolTokens == Pools \X Tokens
Positions == Users \X Pools

ASSUME FarmAssumption ==
    /\ IsFiniteSet(Users) /\ IsFiniteSet(Pools) /\ IsFiniteSet(Tokens)
    /\ NotListed \notin Liquidity /\ Flp \in [Pools -> Liquidity]
    /\ Unit \in Nat \ {0} /\ fee_multiplier \in Nat \ {0} /\ FirstFee \in Nat /\ NewFees \subseteq Nat
    /\ FirstDistribution \in [Pools -> SUBSET Tokens]
    /\ InitLp \in [Positions -> Nat]
    /\ Amounts \subseteq Nat \ {0} /\ Rewards \subseteq Nat /\ MaxRewards \in Nat

VARIABLES
    owner, treasury_addr, treasury_fee,  \* CONFIG
    stakeable,            \* STAKEABLE_INFOS: the liquidity token of each listed pool
    user_staked,          \* USER_STAKED_AMOUNT
    total_staked,         \* TOTAL_STAKED
    reward_info,          \* USER_REWARD_INFO_MAP
    total_rewards,        \* TOTAL_REWARDS
    rewards_weight,       \* TOTAL_REWARDS_WEIGHT
    pending_rewards,      \* PENDING_REWARDS: what the farm showed at the last stake
    treasury_rewards,     \* TREASURY_REWARDS
    lp, wallet, held,     \* LP tokens and rewards of the users, rewards of this contract
    distribution,         \* farm: reward tokens of each pool
    farm_staked,          \* farm: LP tokens staked by this contract
    farm_pending          \* farm: rewards this contract may claim

configVars == <<owner, treasury_addr, treasury_fee, stakeable>>
farmVars == <<distribution, farm_staked, farm_pending>>
rewardVars == <<reward_info, total_rewards, rewards_weight, pending_rewards, treasury_rewards, wallet, held>>
vars == <<configVars, user_staked, total_staked, rewardVars, lp, farmVars>>

NoInfo == [pool_reward_weight |-> 0, pending_reward |-> -1]
RewardInfo == [pool_reward_weight : Nat, pending_reward : Nat]

Init ==
    /\ owner = FirstOwner /\ treasury_addr = FirstOwner /\ treasury_fee = FirstFee
    /\ stakeable = [p \in Pools |-> NotListed]
    /\ user_staked = [x \in Positions |-> 0] /\ total_staked = [p \in Pools |-> 0]
    /\ reward_info = [x \in Users \X PoolTokens |-> NoInfo]
    /\ total_rewards = [x \in PoolTokens |-> 0] /\ rewards_weight = [x \in PoolTokens |-> 0]
    /\ pending_rewards = [x \in PoolTokens |-> 0]
    /\ treasury_rewards = [t \in Tokens |-> 0]
    /\ lp = InitLp /\ wallet = [x \in Users \X Tokens |-> 0] /\ held = [t \in Tokens |-> 0]
    /\ distribution = FirstDistribution
    /\ farm_staked = [p \in Pools |-> 0] /\ farm_pending = [x \in PoolTokens |-> 0]

-----------------------------------------------------------------------------
(* The LOOP farm *)

\* Rewards of the farm not booked here yet; the bound of the model is on these and the booked ones.
Total(x) == total_rewards[x] + farm_pending[x] - pending_rewards[x]

\* What may be pending once the farm has distributed to at most one pool (limit 1).
DistributeByLimit ==
    {farm_pending} \cup
    {[farm_pending EXCEPT ![x[1]] = @ + x[2]] : x \in
        {y \in PoolTokens \X Rewards :
            /\ y[1][2] \in distribution[y[1][1]] /\ farm_staked[y[1][1]] > 0
            /\ Total(y[1]) + y[2] <= MaxRewards}}

\* The rewards of all tokens of a pool are paid out.
Emptied(pending, p) == [x \in PoolTokens |-> IF x[1] = p THEN 0 ELSE pending[x]]

\* The admin of the farm adds a reward token to a pool.
AddDistributionToken(p, t) ==
    /\ t \notin distribution[p]
    /\ distribution' = [distribution EXCEPT ![p] = @ \cup {t}]
    /\ UNCHANGED <<configVars, user_staked, total_staked, rewardVars, lp, farm_staked, farm_pending>>

-----------------------------------------------------------------------------
(* Reward accounting *)

\* Pending rewards of the farm that are not in rewards_weight yet.
Fresh(pending, p, t) == pending[<<p, t>>] - pending_rewards[<<p, t>>]

\* Decimal::from_ratio
FromRatio(x, y) == (x * Unit) \div y

\* Reward per LP token with the fresh rewards; the first staker of a pool gets none of them.
Weight(pending, p, t) ==
    rewards_weight[<<p, t>>]
    + IF total_staked[p] = 0 THEN 0 ELSE FromRatio(Fresh(pending, p, t), total_staked[p])

\* get_user_reward_info_from_map_storage
InfoOf(u, p, t, weight) ==
    IF reward_info[<<u, <<p, t>>>>] = NoInfo
    THEN [pool_reward_weight |-> weight, pending_reward |-> 0]
    ELSE reward_info[<<u, <<p, t>>>>]

\* Fault: the reward saved at an earlier stake is forgotten.
Due_NoSaved(u, p, t, pending) ==
    LET w == Weight(pending, p, t)
        info == InfoOf(u, p, t, w)
    IN  ((w - info.pool_reward_weight) * user_staked[<<u, p>>]) \div Unit

\* Reward of a user before the treasury fee.
Due(u, p, t, pending) ==
    LET w == Weight(pending, p, t)
        info == InfoOf(u, p, t, w)
    IN  info.pending_reward + ((w - info.pool_reward_weight) * user_staked[<<u, p>>]) \div Unit

\* multiply_ratio(fee_multiplier - treasury_fee, fee_multiplier)
NetOf(reward) == (reward * (fee_multiplier - treasury_fee)) \div fee_multiplier

\* The reward infos of u in p, every token settled at the current weight and its
\* reward either paid or kept as pending.
SettledInfos(u, p, pending, paid) ==
    [x \in Users \X PoolTokens |->
        IF x[1] = u /\ x[2][1] = p /\ x[2][2] \in distribution[p]
        THEN [pool_reward_weight |-> Weight(pending, p, x[2][2]),
              pending_reward |-> IF paid THEN 0 ELSE Due(u, p, x[2][2], pending)]
        ELSE reward_info[x]]

\* The part of the pending rewards that a handler for p takes up.
FreshOf(p, pending, x) == IF x[1] = p /\ x[2] \in distribution[p] THEN Fresh(pending, p, x[2]) ELSE 0

WeightOf(p, pending, x) ==
    IF x[1] = p /\ x[2] \in distribution[p] THEN Weight(pending, p, x[2]) ELSE rewards_weight[x]

\* Fault: the snapshot of the last stake is not forgotten when the farm pays.
BookRewards_KeepSnapshot(p, pending, snapshot) ==
    /\ \A t \in distribution[p] : Fresh(pending, p, t) >= 0
    /\ total_rewards' = [x \in PoolTokens |-> total_rewards[x] + FreshOf(p, pending, x)]
    /\ rewards_weight' = [x \in PoolTokens |-> WeightOf(p, pending, x)]
    /\ pending_rewards' = pending

\* Fault: only the weights are saved.
BookRewards_WeightOnly(p, pending, snapshot) ==
    /\ \A t \in distribution[p] : Fresh(pending, p, t) >= 0
    /\ total_rewards' = total_rewards
    /\ rewards_weight' = [x \in PoolTokens |-> WeightOf(p, pending, x)]
    /\ pending_rewards' = snapshot

\* TOTAL_REWARDS and TOTAL_REWARDS_WEIGHT take up the fresh rewards of p, and
\* PENDING_REWARDS becomes the given snapshot.  A fresh reward below zero panics.
BookRewards(p, pending, snapshot) ==
    /\ \A t \in distribution[p] : Fresh(pending, p, t) >= 0
    /\ total_rewards' = [x \in PoolTokens |-> total_rewards[x] + FreshOf(p, pending, x)]
    /\ rewards_weight' = [x \in PoolTokens |-> WeightOf(p, pending, x)]
    /\ pending_rewards' = snapshot

\* What u claims of p, with the fee.
DueOf(u, p, pending, t) == IF t \in distribution[p] THEN Due(u, p, t, pending) ELSE 0

\* The farm pays the pending rewards of p to this contract, which pays u and keeps the fee.
PayRewards(u, p, pending) ==
    /\ treasury_fee <= fee_multiplier
    /\ \A t \in Tokens : NetOf(DueOf(u, p, pending, t)) <= held[t] + pending[<<p, t>>]
    /\ held' = [t \in Tokens |-> held[t] + pending[<<p, t>>] - NetOf(DueOf(u, p, pending, t))]
    /\ wallet' = [x \in Users \X Tokens |->
                    wallet[x] + IF x[1] = u THEN NetOf(DueOf(u, p, pending, x[2])) ELSE 0]
    /\ treasury_rewards' = [t \in Tokens |->
            treasury_rewards[t] + DueOf(u, p, pending, t) - NetOf(DueOf(u, p, pending, t))]

-----------------------------------------------------------------------------
(* Stake *)

\* The share of a stake is its amount.
AddStake(u, p, a) ==
    /\ user_staked' = [user_staked EXCEPT ![<<u, p>>] = @ + a]
    /\ total_staked' = [total_staked EXCEPT ![p] = @ + a]

handle_stake_reply(u, p, a, pending) ==
    /\ BookRewards(p, pending, [x \in PoolTokens |-> IF x[1] = p THEN pending[x] ELSE pending_rewards[x]])
    /\ reward_info' =
        IF total_staked[p] = 0
        THEN [x \in Users \X PoolTokens |->
                IF x[1] = u /\ x[2][1] = p /\ x[2][2] \in distribution[p]
                THEN InfoOf(u, p, x[2][2], Weight(pending, p, x[2][2])) ELSE reward_info[x]]
        ELSE SettledInfos(u, p, pending, FALSE)
    /\ AddStake(u, p, a)
    /\ UNCHANGED <<configVars, treasury_rewards, wallet, held, distribution>>

\* Sends the LP tokens to the farm.
handle_stake(u, p, a, pending) ==
    /\ farm_staked' = [farm_staked EXCEPT ![p] = @ + a]
    /\ farm_pending' = pending
    /\ handle_stake_reply(u, p, a, pending)

\* The hook of a Send of LP tokens.
execute_stake(u, p, a) ==
    /\ stakeable[p] # NotListed
    /\ a <= lp[<<u, p>>]
    /\ lp' = [lp EXCEPT ![<<u, p>>] = @ - a]
    /\ \E pending \in DistributeByLimit : handle_stake(u, p, a, pending)

-----------------------------------------------------------------------------
(* Unstake and claim *)

\* What the check of the amount accepts.
UnstakeAllowed(u, p, a) == user_staked[<<u, p>>] > a

\* The farm gave everything back; what the others have staked goes there again.
StakeRest(p, a) ==
    /\ total_staked' = [total_staked EXCEPT ![p] = @ - a]
    /\ farm_staked' = [farm_staked EXCEPT ![p] = @ - total_staked[p] + total_staked'[p]]

handle_unstake_and_claim_reply(u, p, a, pending) ==
    /\ UnstakeAllowed(u, p, a)
    /\ PayRewards(u, p, pending)
    /\ BookRewards(p, pending, Emptied(pending_rewards, p))
    /\ reward_info' = SettledInfos(u, p, pending, TRUE)
    /\ user_staked' = [user_staked EXCEPT ![<<u, p>>] = @ - a]
    /\ lp' = [lp EXCEPT ![<<u, p>>] = @ + a]
    /\ StakeRest(p, a)
    /\ UNCHANGED <<configVars, distribution>>

\* Sends all FLP tokens of the pool to the farm, which returns the LP tokens and the rewards.
handle_unstake_and_claim(u, p, a, pending) ==
    /\ a > 0
    /\ stakeable[p] = Flp[p] /\ farm_staked[p] >= total_staked[p]
    /\ farm_pending' = Emptied(pending, p)
    /\ handle_unstake_and_claim_reply(u, p, a, pending)

execute_unstake_and_claim(u, p, a) ==
    /\ stakeable[p] # NotListed
    /\ \E pending \in DistributeByLimit : handle_unstake_and_claim(u, p, a, pending)

-----------------------------------------------------------------------------
(* Claim *)

\* Every token with a snapshot must have earned more since.  The farm does not
\* list a token whose reward is zero, so such a token has no snapshot.
ClaimAllowed(p, pending) ==
    \A t \in distribution[p] : pending_rewards[<<p, t>>] > 0 => pending[<<p, t>>] > pending_rewards[<<p, t>>]

handle_claim_reward_reply(u, p, pending) ==
    /\ ClaimAllowed(p, pending)
    /\ total_staked[p] > 0 \/ distribution[p] = {}
    /\ PayRewards(u, p, pending)
    /\ BookRewards(p, pending, Emptied(pending_rewards, p))
    /\ reward_info' = SettledInfos(u, p, pending, TRUE)
    /\ UNCHANGED <<configVars, user_staked, total_staked, lp, distribution, farm_staked>>

\* Claims the rewards of this contract, if it has a stake in the pool.
handle_claim(u, p, pending) ==
    /\ farm_staked[p] > 0
    /\ farm_pending' = Emptied(pending, p)
    /\ handle_claim_reward_reply(u, p, pending)

execute_claim_reward(u, p) ==
    \E pending \in DistributeByLimit : handle_claim(u, p, pending)

\* Passed on to the farm; a pool of the list is not accepted as start_after.
execute_distribute_by_limit ==
    \E pending \in DistributeByLimit :
        /\ farm_pending' = pending
        /\ UNCHANGED <<configVars, user_staked, total_staked, rewardVars, lp, distribution, farm_staked>>

-----------------------------------------------------------------------------
(* Owner *)

execute_update_config(s, new) ==
    /\ s = owner
    /\ owner' = new
    /\ UNCHANGED <<treasury_addr, treasury_fee, stakeable, user_staked, total_staked, rewardVars, lp, farmVars>>

execute_update_treasury_addr(s, new) ==
    /\ s = owner
    /\ treasury_addr' = new
    /\ UNCHANGED <<owner, treasury_fee, stakeable, user_staked, total_staked, rewardVars, lp, farmVars>>

execute_update_treasury_fee(s, fee) ==
    /\ s = owner
    /\ treasury_fee' = fee
    /\ UNCHANGED <<owner, treasury_addr, stakeable, user_staked, total_staked, rewardVars, lp, farmVars>>

\* AddStakeableToken is the case of one pool.
execute_add_stakeable_tokens(s, added) ==
    /\ s = owner
    /\ \A p \in DOMAIN added : stakeable[p] = NotListed
    /\ stakeable' = [p \in Pools |-> IF p \in DOMAIN added THEN added[p] ELSE stakeable[p]]
    /\ UNCHANGED <<owner, treasury_addr, treasury_fee, user_staked, total_staked, rewardVars, lp, farmVars>>

-----------------------------------------------------------------------------
(* Queries *)

\* query_user_reward_in_pool for one token.
query_user_reward_in_pool(u, p, t) ==
    IF total_staked[p] > 0 /\ t \in distribution[p] THEN NetOf(Due(u, p, t, farm_pending)) ELSE 0

-----------------------------------------------------------------------------

Next ==
    \/ \E u \in Users, p \in Pools, a \in Amounts : execute_stake(u, p, a) \/ execute_unstake_and_claim(u, p, a)
    \/ \E u \in Users, p \in Pools : execute_claim_reward(u, p)
    \/ execute_distribute_by_limit
    \/ \E s \in Users, new \in NewOwners : execute_update_config(s, new) \/ execute_update_treasury_addr(s, new)
    \/ \E s \in Users, fee \in NewFees : execute_update_treasury_fee(s, fee)
    \/ \E s \in Users, ps \in SUBSET Pools : \E added \in [ps -> Liquidity] :
            ps # {} /\ execute_add_stakeable_tokens(s, added)
    \/ \E p \in Pools, t \in Tokens : AddDistributionToken(p, t)

Spec == Init /\ [][Next]_vars

-----------------------------------------------------------------------------
(* Properties *)

TypeOK ==
    /\ treasury_fee \in Nat /\ stakeable \in [Pools -> Liquidity \cup {NotListed}]
    /\ user_staked \in [Positions -> Nat] /\ total_staked \in [Pools -> Nat]
    /\ reward_info \in [Users \X PoolTokens -> RewardInfo \cup {NoInfo}]
    /\ total_rewards \in [PoolTokens -> Nat] /\ rewards_weight \in [PoolTokens -> Nat]
    /\ pending_rewards \in [PoolTokens -> Nat] /\ treasury_rewards \in [Tokens -> Nat]
    /\ lp \in [Positions -> Nat] /\ wallet \in [Users \X Tokens -> Nat] /\ held \in [Tokens -> Nat]
    /\ farm_staked \in [Pools -> Nat] /\ farm_pending \in [PoolTokens -> Nat]

\* The snapshot of PENDING_REWARDS never exceeds what the farm shows, and no weight
\* of a user exceeds that of the pool: the subtractions of the handlers, which would
\* panic and lock the pool, are safe whatever was staked, claimed and distributed.
NoUnderflow ==
    \A p \in Pools, t \in Tokens :
        /\ Fresh(farm_pending, p, t) >= 0
        /\ \A u \in Users : reward_info[<<u, <<p, t>>>>].pool_reward_weight <= rewards_weight[<<p, t>>]

\* What the users may claim of a pool now, before the fee.
DueIn(p, t) == SumOver([u \in Users |-> DueOf(u, p, farm_pending, t)], Users)

\* All that users may claim and the treasury has earned is held by this contract or
\* pending at the farm, over all pools that pay the same token.
FarmSolvent ==
    \A t \in Tokens :
        treasury_rewards[t] + SumOver([p \in Pools |-> DueIn(p, t)], Pools)
        <= held[t] + SumOver([p \in Pools |-> farm_pending[<<p, t>>]], Pools)

\* Every reward that was ever booked has been paid to a user, is held, or is the part
\* of the snapshot that still waits at the farm.
RewardsAccounted ==
    \A t \in Tokens :
        SumOver([p \in Pools |-> total_rewards[<<p, t>>]], Pools)
        = held[t] + SumOver([u \in Users |-> wallet[<<u, t>>]], Users)
          + SumOver([p \in Pools |-> pending_rewards[<<p, t>>]], Pools)

\* The farm holds for this contract exactly what its users have staked, and the LP
\* tokens a user staked and did not take back.
StakesAgree ==
    \A p \in Pools :
        /\ total_staked[p] = SumOver([u \in Users |-> user_staked[<<u, p>>]], Users)
        /\ farm_staked[p] = total_staked[p]
        /\ \A u \in Users : lp[<<u, p>>] + user_staked[<<u, p>>] = InitLp[<<u, p>>]

\* What the users have staked is what the farm holds, and the rewards and fees that are
\* booked are covered by what was fetched.
FarmBooks == TypeOK /\ RewardsAccounted /\ FarmSolvent /\ StakesAgree

\* A claim pays at least what query_user_reward_in_pool showed just before, in every
\* token, and exactly that if the farm distributed nothing in between.
ClaimPaysWhatIsShown ==
    [][\A u \in Users, p \in Pools : execute_claim_reward(u, p) =>
         \A t \in Tokens : LET paid == wallet'[<<u, t>>] - wallet[<<u, t>>] IN
             /\ paid >= query_user_reward_in_pool(u, p, t)
             /\ total_rewards'[<<p, t>>] = total_rewards[<<p, t>>] + Fresh(farm_pending, p, t)
                => paid = query_user_reward_in_pool(u, p, t)]_vars

\* No step lowers what is shown to a user, except paying that user or a new fee: stakes
\* of others do not dilute rewards that were already earned.  The query, like the
\* handlers, fails while the fee is above fee_multiplier.
NoDilution ==
    [][\A u \in Users, p \in Pools, t \in Tokens :
         \/ treasury_fee > fee_multiplier \/ treasury_fee' # treasury_fee
         \/ wallet'[<<u, t>>] # wallet[<<u, t>>]
         \/ query_user_reward_in_pool(u, p, t)' >= query_user_reward_in_pool(u, p, t)]_vars

\* A pool that has stakes keeps the liquidity token it was listed with: with another
\* one its stakes could not be sent back to the farm.
LiquidityTokenFixed ==
    [][\A p \in Pools : total_staked[p] > 0 => stakeable'[p] = stakeable[p]]_vars

\* A staker keeps what was earned: later stakers take nothing of it, a claim pays what was
\* shown, and the liquidity token of a pool is never exchanged.
StakersKept == NoDilution /\ ClaimPaysWhatIsShown /\ LiquidityTokenFixed

\* What the error text of the check says: an amount is refused only if it is bigger
\* than the stake, so the whole stake can be taken out.
WholeStakeCanLeave ==
    \A u \in Users, p \in Pools : user_staked[<<u, p>>] > 0 => UnstakeAllowed(u, p, user_staked[<<u, p>>])

\* What the README says of claim: the reward calculated up to that point can be claimed.
ShownRewardCanBeClaimed ==
    \A u \in Users, p \in Pools, t \in Tokens :
        query_user_reward_in_pool(u, p, t) > 0 => ClaimAllowed(p, farm_pending)
=============================================================================
