---------------------------- MODULE SyneStaking ----------------------------
(***************************************************************************)
(* contracts/syneswap_staking: users lock SYNE for a number of months and  *)
(* share the reward that Distribute releases once per waiting period.      *)
(* Every action is one successful transaction.  A handler that returns an  *)
(* error or panics (an underflow of Uint128 or u64, a division by zero)    *)
(* is rolled back by the chain, so its guard is simply false.              *)
(***************************************************************************)
EXTENDS Sums, Integers, Sequences, FiniteSets, SequencesExt

CONSTANTS
    Users,             \* accounts that stake
    Admin,             \* info.sender of instantiate, first owner
    Durations,         \* every duration (months) a message may carry
    InitDurations,     \* duration_values_vector at instantiate
    REWARD_CALC_UNIT,  \* fixed point unit, 10^12 in the code
    Cap,               \* cap of the internal voting token
    StartTime,         \* block time of instantiate
    MaxTime,           \* bound on the block time
    InitConfig,        \* owner settable fields at instantiate
    Settings,          \* <<field, value>> pairs the owner may write
    OwnerCandidates,   \* accounts the ownership may be handed to
    FreezeFlags,       \* flags of UpdateFreezeFlag
    NewDurations,      \* durations of AddNewDuration
    RewardRates,       \* amounts of UpdateReward
    StakeAmounts,      \* amounts of Stake
    DepositAmounts,    \* amounts of Deposit
    InitWallet         \* SYNE each account holds at the start

Accounts == Users \cup {Admin}

Positions == Users \X Durations

ConfigFields == {"freeze_lock_time", "lock_time_frame", "wait_time", "day_factor"}

ASSUME UsersAssumption == Users # {} /\ IsFiniteSet(Users) /\ Admin \notin Users
ASSUME DurationsAssumption ==
    /\ Durations \subseteq Nat \ {0} /\ IsFiniteSet(Durations) /\ InitDurations \in Seq(Durations)
    /\ NewDurations \subseteq Durations
ASSUME UnitAssumption == REWARD_CALC_UNIT \in Nat \ {0}
ASSUME BoundsAssumption ==
    /\ Cap \in Nat /\ StartTime \in Nat \ {0} /\ MaxTime \in Nat
    /\ InitWallet \in [Accounts -> Nat]
    /\ RewardRates \subseteq Nat /\ StakeAmounts \subseteq Nat /\ DepositAmounts \subseteq Nat
ASSUME ConfigAssumption ==
    /\ InitConfig \in [ConfigFields -> Nat]
    /\ Settings \subseteq ConfigFields \X Nat
    /\ OwnerCandidates \subseteq Accounts /\ FreezeFlags \subseteq BOOLEAN

VARIABLES
    now,                       \* env.block.time.seconds()
    owner, second_owner,       \* config.owner_addr, config.second_owner
    freeze, freeze_start_time, \* config.freeze, config.freeze_start_time
    cfg,                       \* the numeric fields of config the owner sets
    duration_values_vector,    \* config.duration_values_vector
    last_distributed,          \* config.last_distributed
    latest_syne_power_date,    \* config.latest_syne_power_date
    last_syne_power_date,      \* config.last_syne_power_date
    reward_index,              \* REWARD_INDEX
    total_reward,              \* TOTAL_REWARD: released, not yet paid
    total_reward_in_contract,  \* TOTAL_REWARD_IN_CONTRACT: deposited, not yet paid
    distribution_reward,       \* DISTRIBUTION_REWARD: released per period
    date_map,                  \* SYNE_POWER_DATE_WISE_MAP: date -> last_reward_index
    actual_balance,            \* MINT_TIME.actual_balance (= balance); 0: no entry
    mint_time,                 \* MINT_TIME.mint_time
    last_claimed_time,         \* MINT_TIME.last_claimed_time
    user_index,                \* USER_REWARD_INFO.reward_index
    pending_reward,            \* USER_REWARD_INFO.pending_reward
    total_staked,              \* TOTAL_STAKED_DURATION_WISE
    total_balance,             \* TOTAL_BALANCES.balance
    total_mint_time,           \* TOTAL_BALANCES.mint_time
    total_supply,              \* TOKEN_INFO.total_supply
    wallet,                    \* SYNE of each account (cw20 token)
    contract_balance           \* SYNE of this contract

configVars == <<owner, second_owner, freeze, freeze_start_time, cfg, duration_values_vector>>
clockVars  == <<last_distributed, latest_syne_power_date, last_syne_power_date>>
poolVars   == <<reward_index, total_reward, total_reward_in_contract, distribution_reward, date_map>>
userVars   == <<actual_balance, mint_time, last_claimed_time, user_index, pending_reward>>
mintVars   == <<total_staked, total_balance, total_mint_time, total_supply>>
tokenVars  == <<wallet, contract_balance>>
vars == <<now, configVars, clockVars, poolVars, userVars, mintVars, tokenVars>>

-----------------------------------------------------------------------------
(* Arithmetic and queries *)

\* Uint128::multiply_ratio
MulRatio(x, num, den) == (x * num) \div den

\* Length of the lock of a position of d months.
LockTime(d) == cfg["lock_time_frame"] * d

\* Voting power left of bal, elapsed seconds after it was minted for d months.
Decayed(bal, elapsed, d) ==
    IF elapsed < LockTime(d)
    THEN MulRatio(bal, MulRatio(REWARD_CALC_UNIT, LockTime(d) - elapsed, LockTime(d)), REWARD_CALC_UNIT)
    ELSE 0

query_balance_by_duration(u, d) ==
    IF mint_time[<<u, d>>] > 0 THEN Decayed(actual_balance[<<u, d>>], now - mint_time[<<u, d>>], d) ELSE 0

query_total_balance(time, d) ==
    IF total_mint_time[d] > 0
    THEN Decayed(total_balance[d],
                 (IF time < total_mint_time[d] THEN total_mint_time[d] ELSE time) - total_mint_time[d], d)
    ELSE 0

\* The loop of query_balance: `balance` keeps the value of an earlier duration
\* when the lock of this one is over, and is then added once more.
query_balance(u) ==
    LET held == SelectSeq(duration_values_vector, LAMBDA d : mint_time[<<u, d>>] > 0)
        step(acc, d) ==
            LET b == IF now - mint_time[<<u, d>>] < LockTime(d) THEN query_balance_by_duration(u, d) ELSE acc.balance
            IN  [balance |-> b, total |-> acc.total + b]
    IN  FoldLeft(step, [balance |-> 0, total |-> 0], held).total

\* query_user_reward: first and last key of the date map that may pay the position.
RewardStart(u, d) ==
    LET day == cfg["day_factor"]
        passed == IF latest_syne_power_date > mint_time[<<u, d>>]
                  THEN (latest_syne_power_date - mint_time[<<u, d>>]) \div day ELSE 0
        aligned == latest_syne_power_date - day * passed
    IN  IF mint_time[<<u, d>>] < aligned THEN aligned - day ELSE aligned

RewardDates(u, d) ==
    LET day == cfg["day_factor"]
        claimed == (last_claimed_time[<<u, d>>] - mint_time[<<u, d>>]) \div day
        start == RewardStart(u, d)
    IN  {t \in DOMAIN date_map : claimed * day + start <= t /\ t <= start + LockTime(d)}

\* The index the loop compares date t with: the one left by the previous date.
IndexBefore(u, d, t) ==
    LET before == {s \in RewardDates(u, d) : s < t}
    IN  IF before = {} THEN user_index[<<u, d>>] ELSE date_map[Max(before)]

\* Increase of the reward index that date t accounts for.
IndexDiff(u, d, t) ==
    IF date_map[t] = 0 THEN reward_index - IndexBefore(u, d, t)
    ELSE IF date_map[t] > IndexBefore(u, d, t) THEN date_map[t] - IndexBefore(u, d, t) ELSE 0

\* Reward of date t, weighted by the share of the lock that was left then.
DateReward(u, d, t) ==
    LET at == t + (last_claimed_time[<<u, d>>] % cfg["day_factor"])
        end == mint_time[<<u, d>>] + LockTime(d)
    IN  IF at < end
        THEN MulRatio(MulRatio(IndexDiff(u, d, t), actual_balance[<<u, d>>], 1), end - at, LockTime(d))
        ELSE 0

query_user_reward(u, d) ==
    IF last_claimed_time[<<u, d>>] >= last_distributed THEN 0
    ELSE MulRatio(SumOver([t \in RewardDates(u, d) |-> DateReward(u, d, t)], RewardDates(u, d)), 1, REWARD_CALC_UNIT)

\* No subtraction or division of the query panics.
QueryDefined(u, d) ==
    /\ cfg["day_factor"] > 0
    /\ RewardStart(u, d) >= 0
    /\ \/ last_claimed_time[<<u, d>>] >= last_distributed
       \/ \A t \in RewardDates(u, d) :
            /\ date_map[t] = 0 => IndexBefore(u, d, t) <= reward_index
            /\ t + (last_claimed_time[<<u, d>>] % cfg["day_factor"]) < mint_time[<<u, d>>] + LockTime(d) => LockTime(d) > 0

HasStake(u, d) == actual_balance[<<u, d>>] > 0
Principal(u, d) == actual_balance[<<u, d>>] \div d
Owed(u, d) == pending_reward[<<u, d>>] + query_user_reward(u, d)

\* Fault: the freeze ends when it starts.
Frozen_NoLockTime == freeze /\ now < freeze_start_time

Frozen == freeze /\ now < freeze_start_time + cfg["freeze_lock_time"]

\* Fault: every position is locked for one month.
LockOver_OneMonth(u, d) == now - mint_time[<<u, d>>] >= cfg["lock_time_frame"]

LockOver(u, d) == now - mint_time[<<u, d>>] >= LockTime(d)

\* The date Stake, Restake and Distribute advance latest_syne_power_date to.
LatestPowerDate ==
    latest_syne_power_date + cfg["day_factor"] * ((now - latest_syne_power_date) \div cfg["day_factor"])

-----------------------------------------------------------------------------
(* Initial state: instantiate *)

Init ==
    /\ now = StartTime
    /\ owner = Admin /\ second_owner = Admin
    /\ freeze = FALSE /\ freeze_start_time = StartTime
    /\ cfg = InitConfig
    /\ duration_values_vector = InitDurations
    /\ last_distributed = StartTime
    /\ latest_syne_power_date = StartTime
    /\ last_syne_power_date = StartTime
    /\ reward_index = 0 /\ total_reward = 0 /\ total_reward_in_contract = 0
    /\ distribution_reward = 0
    /\ date_map = << >>
    /\ actual_balance = [p \in Positions |-> 0]
    /\ mint_time = [p \in Positions |-> 0]
    /\ last_claimed_time = [p \in Positions |-> 0]
    /\ user_index = [p \in Positions |-> 0]
    /\ pending_reward = [p \in Positions |-> 0]
    /\ total_staked = [d \in Durations |-> 0]
    /\ total_balance = [d \in Durations |-> 0]
    /\ total_mint_time = [d \in Durations |-> 0]
    /\ total_supply = 0
    /\ wallet = InitWallet
    /\ contract_balance = 0

-----------------------------------------------------------------------------
(* Handlers *)

\* minter::execute_mint of amount for d months.  The total keeps the decayed
\* power of the others and the refreshed power of u, unless the power of u or
\* of the total has run out.
MintedTotal(u, d) ==
    LET prev == query_balance_by_duration(u, d)
        total == Decayed(total_balance[d], now - total_mint_time[d], d)
        refresh == prev > 0 /\ total_balance[d] > 0 /\ now - total_mint_time[d] < LockTime(d)
                   /\ MulRatio(REWARD_CALC_UNIT, LockTime(d) - (now - total_mint_time[d]), LockTime(d)) > 0
    IN  [ok |-> refresh => prev <= total,
         balance |-> IF refresh THEN total - prev + actual_balance[<<u, d>>] ELSE total]

execute_mint(u, amount, d) ==
    LET minted == amount * d IN
    /\ amount > 0
    /\ total_supply + minted <= Cap
    /\ MintedTotal(u, d).ok
    /\ total_supply' = total_supply + minted
    /\ total_balance' = [total_balance EXCEPT ![d] = MintedTotal(u, d).balance + minted]
    /\ total_mint_time' = [total_mint_time EXCEPT ![d] = now]
    /\ actual_balance' = [actual_balance EXCEPT ![<<u, d>>] = @ + minted]
    /\ mint_time' = [mint_time EXCEPT ![<<u, d>>] = now]
    /\ last_claimed_time' = [last_claimed_time EXCEPT ![<<u, d>>] = now]

Deposit(s, amount) ==
    /\ amount <= wallet[s]
    /\ wallet' = [wallet EXCEPT ![s] = @ - amount]
    /\ contract_balance' = contract_balance + amount
    /\ total_reward_in_contract' = total_reward_in_contract + amount
    /\ UNCHANGED <<now, configVars, clockVars, userVars, mintVars,
                   reward_index, total_reward, distribution_reward, date_map>>

Stake(u, amount, d) ==
    /\ amount <= wallet[u]
    /\ cfg["day_factor"] > 0
    /\ d \in Range(duration_values_vector)
    /\ HasStake(u, d) => QueryDefined(u, d)
    /\ wallet' = [wallet EXCEPT ![u] = @ - amount]
    /\ contract_balance' = contract_balance + amount
    /\ latest_syne_power_date' = LatestPowerDate
    /\ total_staked' = [total_staked EXCEPT ![d] = @ + amount]
    /\ pending_reward' = [pending_reward EXCEPT ![<<u, d>>] = IF HasStake(u, d) THEN Owed(u, d) ELSE @]
    /\ user_index' = [user_index EXCEPT ![<<u, d>>] = reward_index]
    /\ execute_mint(u, amount, d)
    /\ UNCHANGED <<now, configVars, last_distributed, last_syne_power_date, poolVars>>

\* Takes the Uint128 r out of the released and of the deposited reward.
PayReward(r) ==
    /\ r \in 0 .. total_reward
    /\ r \in 0 .. total_reward_in_contract
    /\ total_reward' = total_reward - r
    /\ total_reward_in_contract' = total_reward_in_contract - r

\* The advanced latest_syne_power_date of the handler is not saved.
Restake(u, d) ==
    /\ HasStake(u, d) /\ QueryDefined(u, d)
    /\ Owed(u, d) > 0
    /\ PayReward(Owed(u, d))
    /\ total_staked' = [total_staked EXCEPT ![d] = @ + Owed(u, d)]
    /\ pending_reward' = [pending_reward EXCEPT ![<<u, d>>] = 0]
    /\ user_index' = [user_index EXCEPT ![<<u, d>>] = reward_index]
    /\ execute_mint(u, Owed(u, d), d)
    /\ UNCHANGED <<now, configVars, clockVars, tokenVars, reward_index, distribution_reward, date_map>>

Unstake(u, d) ==
    /\ ~Frozen
    /\ HasStake(u, d) /\ LockOver(u, d) /\ QueryDefined(u, d)
    /\ PayReward(Owed(u, d))
    /\ Principal(u, d) <= total_staked[d]
    /\ Principal(u, d) + Owed(u, d) <= contract_balance
    /\ total_staked' = [total_staked EXCEPT ![d] = @ - Principal(u, d)]
    /\ wallet' = [wallet EXCEPT ![u] = @ + Principal(u, d) + Owed(u, d)]
    /\ contract_balance' = contract_balance - Principal(u, d) - Owed(u, d)
    /\ actual_balance' = [actual_balance EXCEPT ![<<u, d>>] = 0]
    /\ mint_time' = [mint_time EXCEPT ![<<u, d>>] = 0]
    /\ last_claimed_time' = [last_claimed_time EXCEPT ![<<u, d>>] = 0]
    /\ user_index' = [user_index EXCEPT ![<<u, d>>] = 0]
    /\ pending_reward' = [pending_reward EXCEPT ![<<u, d>>] = 0]
    /\ UNCHANGED <<now, configVars, clockVars, total_balance, total_mint_time, total_supply,
                   reward_index, distribution_reward, date_map>>

Claim(u, d) ==
    /\ ~Frozen
    /\ HasStake(u, d) /\ QueryDefined(u, d)
    /\ PayReward(Owed(u, d))
    /\ Owed(u, d) <= contract_balance
    /\ wallet' = [wallet EXCEPT ![u] = @ + Owed(u, d)]
    /\ contract_balance' = contract_balance - Owed(u, d)
    /\ pending_reward' = [pending_reward EXCEPT ![<<u, d>>] = 0]
    /\ user_index' = [user_index EXCEPT ![<<u, d>>] = reward_index]
    /\ last_claimed_time' = [last_claimed_time EXCEPT ![<<u, d>>] = now]
    /\ UNCHANGED <<now, configVars, clockVars, mintVars, actual_balance, mint_time,
                   reward_index, distribution_reward, date_map>>

-----------------------------------------------------------------------------
(* Distribute: iteration k of its loop, in closed form *)

NonDistributedDays == (now - last_distributed) \div cfg["wait_time"]

\* Fault: days counted from one.
DayStart_OffByOne(k) == last_distributed + (k + 1) * cfg["wait_time"]

DayStart(k) == last_distributed + k * cfg["wait_time"]

TotalLopo(k) ==
    LET stakable == Range(duration_values_vector)
    IN  SumOver([d \in stakable |-> query_total_balance(DayStart(k), d)], stakable)

\* The iterations before k that find power to reward.
RewardedBefore(k) == {j \in 0 .. k - 1 : TotalLopo(j) # 0}

\* total_reward and reward_index when iteration k starts.
TotalRewardAt(k) == total_reward + distribution_reward * Cardinality(RewardedBefore(k))

\* Fault: the index starts again at every distribution.
RewardIndexAt_Reset(k) ==
    SumOver([j \in RewardedBefore(k) |-> MulRatio(REWARD_CALC_UNIT, distribution_reward, TotalLopo(j))], RewardedBefore(k))

RewardIndexAt(k) ==
    reward_index
    + SumOver([j \in RewardedBefore(k) |-> MulRatio(REWARD_CALC_UNIT, distribution_reward, TotalLopo(j))], RewardedBefore(k))

\* last_syne_power_date when iteration k starts.
PowerDateAt ==
    LET date[k \in 0 .. NonDistributedDays] ==
            IF k = 0 THEN last_syne_power_date
            ELSE IF DayStart(k) >= date[k - 1] + cfg["day_factor"]
                 THEN date[k - 1] + cfg["day_factor"] ELSE date[k - 1]
    IN  date

\* The iterations that leave date t for the next one, t being in the map.
ClosedAt(t) ==
    {k \in 0 .. NonDistributedDays - 1 :
        /\ PowerDateAt[k] = t /\ PowerDateAt[k + 1] # t
        /\ k = 0 => t \in DOMAIN date_map}

\* Fault: the dates of earlier distributions are lost.
DistributedDates_Fresh ==
    [t \in {PowerDateAt[k] : k \in 1 .. NonDistributedDays} |->
        IF ClosedAt(t) # {} THEN RewardIndexAt(CHOOSE k \in ClosedAt(t) : TRUE) ELSE 0]

DistributedDates ==
    [t \in DOMAIN date_map \cup {PowerDateAt[k] : k \in 1 .. NonDistributedDays} |->
        IF ClosedAt(t) # {} THEN RewardIndexAt(CHOOSE k \in ClosedAt(t) : TRUE)
        ELSE IF t \in DOMAIN date_map THEN date_map[t] ELSE 0]

\* Fault: only the first period is checked against the funds.
FundsCoverAll_FirstOnly == distribution_reward <= total_reward_in_contract - total_reward

FundsCoverAll ==
    \A k \in 0 .. NonDistributedDays - 1 :
        distribution_reward <= total_reward_in_contract - TotalRewardAt(k)

Distribute ==
    /\ cfg["wait_time"] > 0 /\ cfg["day_factor"] > 0
    /\ NonDistributedDays > 0
    /\ last_distributed' = DayStart(NonDistributedDays)
    /\ \/ /\ distribution_reward = 0
          /\ UNCHANGED <<reward_index, total_reward, date_map, last_syne_power_date, latest_syne_power_date>>
       \/ /\ distribution_reward # 0
          /\ FundsCoverAll
          /\ reward_index' = RewardIndexAt(NonDistributedDays)
          /\ total_reward' = TotalRewardAt(NonDistributedDays)
          /\ date_map' = DistributedDates
          /\ last_syne_power_date' = PowerDateAt[NonDistributedDays]
          /\ latest_syne_power_date' = LatestPowerDate
    /\ UNCHANGED <<now, configVars, userVars, mintVars, tokenVars, total_reward_in_contract, distribution_reward>>

-----------------------------------------------------------------------------
(* Settings of the owners *)

UpdateReward(s, amount) ==
    /\ s \in {owner, second_owner}
    /\ distribution_reward' = amount
    /\ UNCHANGED <<now, configVars, clockVars, userVars, mintVars, tokenVars,
                   reward_index, total_reward, total_reward_in_contract, date_map>>

nonConfigVars == <<now, clockVars, poolVars, userVars, mintVars, tokenVars>>

\* UpdateFreezeLockTime, UpdateLockTimeFrame, UpdateWaitTimeForDistribution, UpdateDayFactorInSeconds
UpdateSetting(s, field, value) ==
    /\ s = owner
    /\ cfg' = [cfg EXCEPT ![field] = value]
    /\ UNCHANGED <<nonConfigVars, owner, second_owner, freeze, freeze_start_time, duration_values_vector>>

UpdateFreezeFlag(s, freeze_flag) ==
    /\ s = owner
    /\ freeze' = freeze_flag
    /\ freeze_start_time' = IF freeze_flag THEN now ELSE freeze_start_time
    /\ UNCHANGED <<nonConfigVars, owner, second_owner, cfg, duration_values_vector>>

AddNewDuration(s, d) ==
    /\ s = owner
    /\ duration_values_vector' =
         IF d \in Range(duration_values_vector) THEN duration_values_vector
         ELSE Append(duration_values_vector, d)
    /\ UNCHANGED <<nonConfigVars, owner, second_owner, freeze, freeze_start_time, cfg>>

UpdateConfig(s, new) ==
    /\ s = owner
    /\ owner' = new
    /\ UNCHANGED <<nonConfigVars, second_owner, freeze, freeze_start_time, cfg, duration_values_vector>>

UpdateSecondOwner(s, new) ==
    /\ s = owner
    /\ second_owner' = new
    /\ UNCHANGED <<nonConfigVars, owner, freeze, freeze_start_time, cfg, duration_values_vector>>

\* Block time moves on between transactions.
Tick ==
    /\ now < MaxTime
    /\ now' = now + 1
    /\ UNCHANGED <<configVars, clockVars, poolVars, userVars, mintVars, tokenVars>>

Next ==
    \/ Tick
    \/ \E s \in Accounts, amount \in DepositAmounts : Deposit(s, amount)
    \/ \E u \in Users, amount \in StakeAmounts, d \in Durations : Stake(u, amount, d)
    \/ \E u \in Users, d \in Durations : Restake(u, d) \/ Unstake(u, d) \/ Claim(u, d)
    \/ Distribute
    \/ \E s \in Accounts :
        \/ \E amount \in RewardRates : UpdateReward(s, amount)
        \/ \E setting \in Settings : UpdateSetting(s, setting[1], setting[2])
        \/ \E flag \in FreezeFlags : UpdateFreezeFlag(s, flag)
        \/ \E d \in NewDurations : AddNewDuration(s, d)
        \/ \E new \in OwnerCandidates : UpdateConfig(s, new) \/ UpdateSecondOwner(s, new)

Spec == Init /\ [][Next]_vars

\* The owner never sets a day longer than the time of instantiate (in the code
\* a day is 86400 and the block time a Unix time) nor an empty day or lock.  The
\* handlers check none of this.
SaneSettings ==
    /\ InitConfig["day_factor"] \in 1 .. StartTime /\ InitConfig["lock_time_frame"] > 0
    /\ \A setting \in Settings :
         /\ setting[1] = "day_factor" => setting[2] \in 1 .. StartTime
         /\ setting[1] = "lock_time_frame" => setting[2] > 0

-----------------------------------------------------------------------------
(* Properties *)

TypeOK ==
    /\ now \in Nat
    /\ owner \in Accounts /\ second_owner \in Accounts
    /\ freeze \in BOOLEAN /\ freeze_start_time \in Nat
    /\ cfg \in [ConfigFields -> Nat]
    /\ duration_values_vector \in Seq(Durations)
    /\ last_distributed \in Nat /\ latest_syne_power_date \in Nat /\ last_syne_power_date \in Nat
    /\ reward_index \in Nat /\ total_reward \in Nat
    /\ total_reward_in_contract \in Nat /\ distribution_reward \in Nat
    /\ DOMAIN date_map \subseteq Nat /\ \A t \in DOMAIN date_map : date_map[t] \in Nat
    /\ actual_balance \in [Positions -> Nat]
    /\ mint_time \in [Positions -> Nat] /\ last_claimed_time \in [Positions -> Nat]
    /\ user_index \in [Positions -> Nat] /\ pending_reward \in [Positions -> Nat]
    /\ total_staked \in [Durations -> Nat]
    /\ total_balance \in [Durations -> Nat] /\ total_mint_time \in [Durations -> Nat]
    /\ total_supply \in Nat
    /\ wallet \in [Accounts -> Nat] /\ contract_balance \in Nat

\* The reward released to the stakers was deposited before: after any number of
\* catch-up periods, claims, restakes and withdrawals TOTAL_REWARD never exceeds
\* TOTAL_REWARD_IN_CONTRACT, so the subtraction in execute_distribute cannot panic.
RewardsFunded == total_reward <= total_reward_in_contract

\* The SYNE the contract holds is exactly the deposited reward plus the principal.
Solvent == contract_balance = total_reward_in_contract + SumOver(total_staked, Durations)

PrincipalsIn(d) == [u \in Users |-> Principal(u, d)]
PrincipalsOf(u) == [d \in Durations |-> Principal(u, d)]

\* TOTAL_STAKED_DURATION_WISE is the principal of the positions of that duration.
StakeLedger ==
    \A d \in Durations : total_staked[d] = SumOver(PrincipalsIn(d), Users)

Wealth(u) == wallet[u] + SumOver(PrincipalsOf(u), Durations)

\* Nobody loses SYNE to the pool except by depositing rewards: staking, restaking
\* (also over an expired position), claiming and unstaking keep the wallet plus the
\* principal of every user, whatever the other users do.
NoLossOfPrincipal ==
    [][\A u \in Users : Wealth(u)' >= Wealth(u) \/ wallet[u]' - wallet[u] = total_reward_in_contract
                                                                             - total_reward_in_contract']_vars

\* While the contract is frozen no SYNE leaves it.
FreezeStopsOutflow ==
    [][freeze /\ now < freeze_start_time + cfg["freeze_lock_time"] => contract_balance' >= contract_balance]_vars

\* A position shrinks only when its lock of d months (as configured now) is over,
\* and then its owner gets all of the principal back.
PrincipalReturned ==
    [][\A u \in Users, d \in Durations :
         actual_balance'[<<u, d>>] < actual_balance[<<u, d>>] =>
            /\ now - mint_time[<<u, d>>] >= cfg["lock_time_frame"] * d
            /\ wallet'[u] >= wallet[u] + Principal(u, d)]_vars

\* Every position of the ledger can be queried: no date of the map drives the
\* unsigned subtractions of query_user_reward below zero.
QueryNeverPanics == \A u \in Users, d \in Durations : HasStake(u, d) => QueryDefined(u, d)

\* The clocks the handlers subtract are never ahead of the block time.
ClocksOrdered ==
    /\ last_distributed <= now /\ latest_syne_power_date <= now
    /\ \A p \in Positions : mint_time[p] <= last_claimed_time[p] /\ last_claimed_time[p] <= now
    /\ \A d \in Durations : total_mint_time[d] <= now

\* A date that has been closed keeps its index: late distributions never rewrite
\* the history that query_user_reward replays, and the index only grows.
ClosedDatesAreFinal ==
    [][/\ reward_index' >= reward_index
       /\ \A t \in DOMAIN date_map : date_map[t] # 0 => t \in DOMAIN date_map' /\ date_map'[t] = date_map[t]]_vars

\* The books agree through every order of stakes, claims and distributions: the
\* contract holds what it owes, the positions of the users add up to the stake,
\* and the query of the reward, which every payment goes through, never panics.
LedgersSound == TypeOK /\ Solvent /\ StakeLedger /\ QueryNeverPanics

\* What has happened stays: no step loses principal, and the index of a closed
\* date never changes.
PastKept == NoLossOfPrincipal /\ ClosedDatesAreFinal

\* A position is rewarded for the growth of the pool index since its last
\* settlement, and for no part of it twice (even when every date that has passed
\* was closed with a nonzero index).
IndexCountedOnce ==
    \A u \in Users, d \in Durations :
        HasStake(u, d) /\ QueryDefined(u, d) /\ last_claimed_time[<<u, d>>] < last_distributed
        /\ (\A t \in RewardDates(u, d) : date_map[t] = 0 => t = Max(DOMAIN date_map)) =>
            SumOver([t \in RewardDates(u, d) |-> IndexDiff(u, d, t)], RewardDates(u, d)) <= reward_index - user_index[<<u, d>>]

\* TOTAL_BALANCES of a duration covers the power of its positions.
TotalPowerCoversUsers ==
    \A d \in Durations :
        query_total_balance(now, d) >= SumOver([u \in Users |-> query_balance_by_duration(u, d)], Users)

\* query_balance is the sum of query_balance_by_duration over the durations.
BalanceIsSumOfDurations ==
    \A u \in Users :
        LET stakable == Range(duration_values_vector)
        IN  query_balance(u) = SumOver([d \in stakable |-> query_balance_by_duration(u, d)], stakable)

\* "Allow users to unstake tokens from staking contract": a position whose lock is
\* over can leave unless the contract is frozen or, as the comment on the payment
\* of the reward has it, less reward is deposited than the user is paid.
UnstakeAllowed ==
    \A u \in Users, d \in Durations :
        ~Frozen /\ HasStake(u, d) /\ LockOver(u, d) /\ QueryDefined(u, d) =>
            (Owed(u, d) <= total_reward_in_contract => Owed(u, d) <= total_reward)
=============================================================================
