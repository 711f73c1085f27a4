------------------------- MODULE SyneStakingProofs -------------------------
(***************************************************************************)
(* Theorems about SyneStaking, for every set of users and durations, every *)
(* amount and every schedule of the owner settings.                        *)
(***************************************************************************)
EXTENDS SyneStaking, SumTheorems

\* The clocks and periods are numbers, and no clock is ahead of the block time.
ClockInv ==
    /\ now \in Nat /\ last_distributed \in Nat /\ latest_syne_power_date \in Nat
    /\ freeze_start_time \in Nat
    /\ cfg \in [ConfigFields -> Nat]
    /\ mint_time \in [Positions -> Nat] /\ last_claimed_time \in [Positions -> Nat]
    /\ total_mint_time \in [Durations -> Nat]
    /\ ClocksOrdered

\* The totals are numbers, and what is released was deposited.
FundsInv ==
    /\ total_reward \in Nat /\ total_reward_in_contract \in Nat
    /\ distribution_reward \in Nat
    /\ RewardsFunded

\* Rounding down to whole periods never passes the time it is rounded from.
LEMMA WholePeriods ==
    ASSUME NEW a \in Nat, NEW b \in Nat, NEW w \in Nat \ {0}, a <= b
    PROVE  /\ (b - a) \div w \in Nat
           /\ a + w * ((b - a) \div w) \in Nat
           /\ a + w * ((b - a) \div w) <= b
           /\ a + ((b - a) \div w) * w \in Nat
           /\ a + ((b - a) \div w) * w <= b
<1> DEFINE q == (b - a) \div w
<1>1. q \in Nat /\ w * q <= b - a
  BY SMT
<1>2. w * q \in Nat /\ w * q = q * w
  BY <1>1, SMT
<1>3. QED
  BY <1>1, <1>2, SMT

\* Distribute and Stake leave the two distribution clocks at or before now.
LEMMA DistributionClocks ==
    ASSUME ClockInv
    PROVE  /\ cfg["day_factor"] > 0 => LatestPowerDate \in Nat /\ LatestPowerDate <= now
           /\ cfg["wait_time"] > 0 => /\ NonDistributedDays \in Nat
                                      /\ DayStart(NonDistributedDays) \in Nat
                                      /\ DayStart(NonDistributedDays) <= now
<1>1. cfg["day_factor"] \in Nat /\ cfg["wait_time"] \in Nat
  BY DEF ClockInv, ConfigFields
<1>2. ASSUME cfg["day_factor"] > 0 PROVE LatestPowerDate \in Nat /\ LatestPowerDate <= now
  <2> DEFINE w == cfg["day_factor"]
  <2>1. w \in Nat \ {0}
    BY <1>1, <1>2
  <2>2. latest_syne_power_date \in Nat /\ now \in Nat /\ latest_syne_power_date <= now
    BY DEF ClockInv, ClocksOrdered
  <2> HIDE DEF w
  <2>3. /\ latest_syne_power_date + w * ((now - latest_syne_power_date) \div w) \in Nat
        /\ latest_syne_power_date + w * ((now - latest_syne_power_date) \div w) <= now
    BY <2>1, <2>2, WholePeriods
  <2>4. QED
    BY <2>3 DEF w, LatestPowerDate
<1>3. ASSUME cfg["wait_time"] > 0
      PROVE  /\ NonDistributedDays \in Nat
             /\ DayStart(NonDistributedDays) \in Nat
             /\ DayStart(NonDistributedDays) <= now
  <2> DEFINE w == cfg["wait_time"]
  <2>1. w \in Nat \ {0}
    BY <1>1, <1>3
  <2>2. last_distributed \in Nat /\ now \in Nat /\ last_distributed <= now
    BY DEF ClockInv, ClocksOrdered
  <2> HIDE DEF w
  <2>3. /\ (now - last_distributed) \div w \in Nat
        /\ last_distributed + ((now - last_distributed) \div w) * w \in Nat
        /\ last_distributed + ((now - last_distributed) \div w) * w <= now
    BY <2>1, <2>2, WholePeriods
  <2>4. QED
    BY <2>3 DEF w, DayStart, NonDistributedDays
<1>4. QED
  BY <1>2, <1>3

\* execute_mint stamps the position and the total with the block time.
LEMMA MintClocks ==
    ASSUME ClockInv, NEW u \in Users, NEW amount, NEW d \in Durations,
           execute_mint(u, amount, d), now' = now, cfg' = cfg,
           freeze_start_time' = freeze_start_time,
           last_distributed' = last_distributed,
           latest_syne_power_date' \in Nat, latest_syne_power_date' <= now
    PROVE  ClockInv'
<1>1. <<u, d>> \in Positions
  BY DEF Positions
<1>2. /\ mint_time' = [mint_time EXCEPT ![<<u, d>>] = now]
      /\ last_claimed_time' = [last_claimed_time EXCEPT ![<<u, d>>] = now]
      /\ total_mint_time' = [total_mint_time EXCEPT ![d] = now]
  BY DEF execute_mint
<1>3. /\ mint_time' \in [Positions -> Nat] /\ last_claimed_time' \in [Positions -> Nat]
      /\ total_mint_time' \in [Durations -> Nat]
  BY <1>1, <1>2 DEF ClockInv
<1>4. ClocksOrdered'
  BY <1>1, <1>2 DEF ClockInv, ClocksOrdered
<1>5. QED
  BY <1>3, <1>4 DEF ClockInv

\* Init and every transaction keep the clocks in order.
LEMMA ClockInit == Init => ClockInv
<1>1. ASSUME Init PROVE ClockInv
  <2>1. StartTime \in Nat
    BY BoundsAssumption
  <2>2. cfg \in [ConfigFields -> Nat]
    BY <1>1, ConfigAssumption DEF Init
  <2>3. QED
    BY <1>1, <2>1, <2>2 DEF Init, ClockInv, ClocksOrdered
<1>2. QED
  BY <1>1

LEMMA ClockStep == ClockInv /\ [Next]_vars => ClockInv'
<1> SUFFICES ASSUME ClockInv, [Next]_vars PROVE ClockInv'
  OBVIOUS
<1> USE DEF ClockInv, ClocksOrdered
<1>1. CASE Tick
  BY <1>1 DEF Tick, configVars, clockVars, userVars, mintVars
<1>2. ASSUME NEW s \in Accounts, NEW amount \in DepositAmounts, Deposit(s, amount) PROVE ClockInv'
  BY <1>2 DEF Deposit, configVars, clockVars, userVars, mintVars
<1>3. ASSUME NEW u \in Users, NEW amount \in StakeAmounts, NEW d \in Durations, Stake(u, amount, d)
      PROVE  ClockInv'
  <2>1. /\ execute_mint(u, amount, d) /\ now' = now /\ cfg' = cfg
        /\ freeze_start_time' = freeze_start_time /\ last_distributed' = last_distributed
        /\ latest_syne_power_date' = LatestPowerDate /\ cfg["day_factor"] > 0
    BY <1>3 DEF Stake, configVars
  <2>2. QED
    BY <2>1, DistributionClocks, MintClocks
<1>4. ASSUME NEW u \in Users, NEW d \in Durations, Restake(u, d) PROVE ClockInv'
  <2>1. /\ execute_mint(u, Owed(u, d), d) /\ now' = now /\ cfg' = cfg
        /\ freeze_start_time' = freeze_start_time /\ last_distributed' = last_distributed
        /\ latest_syne_power_date' = latest_syne_power_date
    BY <1>4 DEF Restake, configVars, clockVars
  <2>2. QED
    BY <2>1, MintClocks
<1>5. ASSUME NEW u \in Users, NEW d \in Durations, Unstake(u, d) PROVE ClockInv'
  <2>1. /\ mint_time' = [mint_time EXCEPT ![<<u, d>>] = 0]
        /\ last_claimed_time' = [last_claimed_time EXCEPT ![<<u, d>>] = 0]
        /\ UNCHANGED <<now, cfg, freeze_start_time, last_distributed, latest_syne_power_date, total_mint_time>>
    BY <1>5 DEF Unstake, configVars, clockVars
  <2>2. QED
    BY <2>1 DEF Positions
<1>6. ASSUME NEW u \in Users, NEW d \in Durations, Claim(u, d) PROVE ClockInv'
  <2>1. /\ last_claimed_time' = [last_claimed_time EXCEPT ![<<u, d>>] = now]
        /\ UNCHANGED <<now, cfg, freeze_start_time, last_distributed, latest_syne_power_date,
                       total_mint_time, mint_time>>
    BY <1>6 DEF Claim, configVars, clockVars, mintVars
  <2>2. QED
    BY <2>1 DEF Positions
<1>7. CASE Distribute
  <2>1. /\ last_distributed' = DayStart(NonDistributedDays)
        /\ latest_syne_power_date' \in {LatestPowerDate, latest_syne_power_date}
        /\ cfg["day_factor"] > 0 /\ cfg["wait_time"] > 0
        /\ UNCHANGED <<now, cfg, freeze_start_time, mint_time, last_claimed_time, total_mint_time>>
    BY <1>7 DEF Distribute, configVars, userVars, mintVars
  <2>2. QED
    BY <2>1, DistributionClocks
<1>8. ASSUME NEW s \in Accounts, NEW amount \in RewardRates, UpdateReward(s, amount) PROVE ClockInv'
  BY <1>8 DEF UpdateReward, configVars, clockVars, userVars, mintVars
<1>9. ASSUME NEW s \in Accounts, NEW setting \in Settings, UpdateSetting(s, setting[1], setting[2])
      PROVE  ClockInv'
  <2>1. setting[1] \in ConfigFields /\ setting[2] \in Nat
    BY ConfigAssumption
  <2>2. cfg' = [cfg EXCEPT ![setting[1]] = setting[2]]
    BY <1>9 DEF UpdateSetting
  <2>3. cfg' \in [ConfigFields -> Nat]
    BY <2>1, <2>2
  <2>4. QED
    BY <1>9, <2>3 DEF UpdateSetting, nonConfigVars, clockVars, userVars, mintVars
<1>10. ASSUME NEW s \in Accounts, NEW flag \in FreezeFlags, UpdateFreezeFlag(s, flag) PROVE ClockInv'
  BY <1>10 DEF UpdateFreezeFlag, nonConfigVars, clockVars, userVars, mintVars
<1>11. ASSUME NEW s \in Accounts, NEW d \in NewDurations, AddNewDuration(s, d) PROVE ClockInv'
  BY <1>11 DEF AddNewDuration, nonConfigVars, clockVars, userVars, mintVars
<1>12. ASSUME NEW s \in Accounts, NEW new \in OwnerCandidates, UpdateConfig(s, new) \/ UpdateSecondOwner(s, new)
       PROVE  ClockInv'
  BY <1>12 DEF UpdateConfig, UpdateSecondOwner, nonConfigVars, clockVars, userVars, mintVars
<1>13. CASE UNCHANGED vars
  BY <1>13 DEF vars, configVars, clockVars, userVars, mintVars
<1>14. QED
  BY <1>1, <1>2, <1>3, <1>4, <1>5, <1>6, <1>7, <1>8, <1>9, <1>10, <1>11, <1>12, <1>13 DEF Next

\* No clock a handler subtracts from the block time is ever ahead of it.
THEOREM ClocksAreOrdered == Spec => []ClocksOrdered
<1>1. ClockInv => ClocksOrdered
  BY DEF ClockInv
<1>2. QED
  BY ClockInit, ClockStep, <1>1, PTL DEF Spec

-----------------------------------------------------------------------------
(* Released rewards are funded *)

\* One more iteration of Distribute releases at most one more reward.
LEMMA OneMoreReward ==
    ASSUME NEW n \in Nat \ {0}
    PROVE  /\ Cardinality(RewardedBefore(n)) \in Nat
           /\ Cardinality(RewardedBefore(n - 1)) \in Nat
           /\ Cardinality(RewardedBefore(n)) <= Cardinality(RewardedBefore(n - 1)) + 1
<1>1. /\ IsFiniteSet(0 .. n - 1) /\ IsFiniteSet(0 .. (n - 1) - 1)
  BY FS_Interval
<1>2. IsFiniteSet(RewardedBefore(n)) /\ IsFiniteSet(RewardedBefore(n - 1))
  BY <1>1, FS_Subset DEF RewardedBefore
<1>3. RewardedBefore(n) \subseteq RewardedBefore(n - 1) \cup {n - 1}
  BY DEF RewardedBefore
<1>4. /\ IsFiniteSet(RewardedBefore(n - 1) \cup {n - 1})
      /\ Cardinality(RewardedBefore(n - 1) \cup {n - 1}) <= Cardinality(RewardedBefore(n - 1)) + 1
  <2>1. Cardinality(RewardedBefore(n - 1)) \in Nat
    BY <1>2, FS_CardinalityType
  <2>2. /\ IsFiniteSet(RewardedBefore(n - 1) \cup {n - 1})
        /\ \/ Cardinality(RewardedBefore(n - 1) \cup {n - 1}) = Cardinality(RewardedBefore(n - 1))
           \/ Cardinality(RewardedBefore(n - 1) \cup {n - 1}) = Cardinality(RewardedBefore(n - 1)) + 1
    BY <1>2, FS_AddElement, Zenon
  <2>3. QED
    BY <2>1, <2>2
<1>5. /\ Cardinality(RewardedBefore(n)) \in Nat /\ Cardinality(RewardedBefore(n - 1)) \in Nat
      /\ Cardinality(RewardedBefore(n - 1) \cup {n - 1}) \in Nat
  BY <1>2, <1>4, FS_CardinalityType
<1>6. Cardinality(RewardedBefore(n)) <= Cardinality(RewardedBefore(n - 1) \cup {n - 1})
  BY <1>3, <1>4, FS_Subset
<1>7. QED
  BY <1>4, <1>5, <1>6

\* The check of the last iteration bounds everything a catch-up releases.
LEMMA DistributeFunded ==
    ASSUME ClockInv, FundsInv, Distribute
    PROVE  FundsInv'
<1>1. CASE distribution_reward = 0
  BY <1>1 DEF Distribute, FundsInv, RewardsFunded
<1>2. CASE distribution_reward # 0
  <2> DEFINE n == NonDistributedDays
             c == Cardinality(RewardedBefore(n))
             b == Cardinality(RewardedBefore(n - 1))
             r == distribution_reward
  <2>1. n \in Nat \ {0}
    BY DistributionClocks DEF Distribute
  <2>2. c \in Nat /\ b \in Nat /\ c <= b + 1
    BY <2>1, OneMoreReward
  <2>3. r <= total_reward_in_contract - (total_reward + r * b)
    <3>1. FundsCoverAll /\ n - 1 \in 0 .. n - 1
      BY <1>2, <2>1 DEF Distribute
    <3>2. QED
      BY <3>1 DEF FundsCoverAll, TotalRewardAt
  <2>4. total_reward' = total_reward + r * c
    BY <1>2 DEF Distribute, TotalRewardAt
  <2>5. /\ total_reward_in_contract' = total_reward_in_contract
        /\ distribution_reward' = r
    BY DEF Distribute
  <2>6. r \in Nat /\ total_reward \in Nat /\ total_reward_in_contract \in Nat
    BY DEF FundsInv
  <2> HIDE DEF n, c, b, r
  <2>7. r * c \in Nat /\ r * b \in Nat /\ r * c <= r * b + r
    BY <2>2, <2>6, SMT
  <2>8. total_reward' \in Nat /\ total_reward' <= total_reward_in_contract
    BY <2>3, <2>4, <2>6, <2>7
  <2>9. QED
    BY <2>5, <2>6, <2>8 DEF FundsInv, RewardsFunded
<1>3. QED
  BY <1>1, <1>2

\* A payment takes the same amount from both totals.
LEMMA PayRewardFunded ==
    ASSUME FundsInv, NEW r, PayReward(r), distribution_reward' = distribution_reward
    PROVE  FundsInv'
BY DEF PayReward, FundsInv, RewardsFunded

LEMMA FundsInit == Init => FundsInv
BY DEF Init, FundsInv, RewardsFunded

LEMMA FundsStep == ClockInv /\ FundsInv /\ [Next]_vars => FundsInv'
<1> SUFFICES ASSUME ClockInv, FundsInv, [Next]_vars PROVE FundsInv'
  OBVIOUS
<1>1. CASE Tick
  BY <1>1 DEF Tick, poolVars, FundsInv, RewardsFunded
<1>2. ASSUME NEW s \in Accounts, NEW amount \in DepositAmounts, Deposit(s, amount) PROVE FundsInv'
  <2>1. amount \in Nat
    BY BoundsAssumption
  <2>2. QED
    BY <1>2, <2>1 DEF Deposit, FundsInv, RewardsFunded
<1>3. ASSUME NEW u \in Users, NEW amount \in StakeAmounts, NEW d \in Durations, Stake(u, amount, d)
      PROVE  FundsInv'
  BY <1>3 DEF Stake, poolVars, FundsInv, RewardsFunded
<1>4. ASSUME NEW u \in Users, NEW d \in Durations, Restake(u, d) \/ Unstake(u, d) \/ Claim(u, d)
      PROVE  FundsInv'
  <2>1. PayReward(Owed(u, d)) /\ distribution_reward' = distribution_reward
    BY <1>4 DEF Restake, Unstake, Claim
  <2>2. QED
    BY <2>1, PayRewardFunded
<1>5. CASE Distribute
  BY <1>5, DistributeFunded
<1>6. ASSUME NEW s \in Accounts, NEW amount \in RewardRates, UpdateReward(s, amount) PROVE FundsInv'
  <2>1. amount \in Nat
    BY BoundsAssumption
  <2>2. QED
    BY <1>6, <2>1 DEF UpdateReward, FundsInv, RewardsFunded
<1>7. ASSUME NEW s \in Accounts,
             \/ \E setting \in Settings : UpdateSetting(s, setting[1], setting[2])
             \/ \E flag \in FreezeFlags : UpdateFreezeFlag(s, flag)
             \/ \E d \in NewDurations : AddNewDuration(s, d)
             \/ \E new \in OwnerCandidates : UpdateConfig(s, new) \/ UpdateSecondOwner(s, new)
      PROVE  FundsInv'
  <2>1. UNCHANGED poolVars
    BY <1>7 DEF UpdateSetting, UpdateFreezeFlag, AddNewDuration, UpdateConfig, UpdateSecondOwner, nonConfigVars
  <2>2. QED
    BY <2>1 DEF poolVars, FundsInv, RewardsFunded
<1>8. CASE UNCHANGED vars
  BY <1>8 DEF vars, poolVars, FundsInv, RewardsFunded
<1>9. QED
  BY <1>1, <1>2, <1>3, <1>4, <1>5, <1>6, <1>7, <1>8 DEF Next

\* The reward released to the stakers never exceeds what was deposited for them,
\* whatever the number of periods one Distribute catches up with.
THEOREM RewardsAreFunded == Spec => []RewardsFunded
<1>1. FundsInv => RewardsFunded
  BY DEF FundsInv
<1>2. QED
  BY ClockInit, ClockStep, FundsInit, FundsStep, <1>1, PTL DEF Spec

-----------------------------------------------------------------------------
(* Principal and freeze *)

\* The token balances and the positions are numbers.
BalanceInv ==
    /\ contract_balance \in Nat
    /\ wallet \in [Accounts -> Nat]
    /\ actual_balance \in [Positions -> Nat]

balanceVars == <<contract_balance, wallet, actual_balance>>

LEMMA PrincipalType ==
    ASSUME BalanceInv, NEW u \in Users, NEW d \in Durations
    PROVE  Principal(u, d) \in Nat
<1>1. <<u, d>> \in Positions /\ d \in Nat \ {0}
  BY DurationsAssumption DEF Positions
<1>2. actual_balance[<<u, d>>] \in Nat
  BY <1>1 DEF BalanceInv
<1>3. \A x \in Nat, y \in Nat \ {0} : x \div y \in Nat
  BY SMT
<1>4. QED
  BY <1>1, <1>2, <1>3 DEF Principal

LEMMA NextPrincipalType == BalanceInv' => \A u \in Users, d \in Durations : Principal(u, d)' \in Nat
<1> SUFFICES ASSUME BalanceInv', NEW u \in Users, NEW d \in Durations PROVE Principal(u, d)' \in Nat
  OBVIOUS
<1>1. <<u, d>> \in Positions /\ d \in Nat \ {0}
  BY DurationsAssumption DEF Positions
<1>2. actual_balance'[<<u, d>>] \in Nat
  BY <1>1 DEF BalanceInv
<1>3. \A x \in Nat, y \in Nat \ {0} : x \div y \in Nat
  BY SMT
<1>4. QED
  BY <1>1, <1>2, <1>3 DEF Principal

\* A payment is a number.
LEMMA PaymentType ==
    ASSUME FundsInv, NEW r, PayReward(r)
    PROVE  r \in Nat
BY DEF FundsInv, PayReward

\* execute_mint adds to one position and changes no other.
LEMMA MintGrows ==
    ASSUME BalanceInv, NEW u \in Users, NEW amount \in Nat, NEW d \in Durations,
           execute_mint(u, amount, d)
    PROVE  /\ actual_balance' \in [Positions -> Nat]
           /\ \A p \in Positions : actual_balance'[p] >= actual_balance[p]
<1>1. <<u, d>> \in Positions /\ d \in Nat
  BY DurationsAssumption DEF Positions
<1>2. amount * d \in Nat
  BY <1>1
<1>3. actual_balance' = [actual_balance EXCEPT ![<<u, d>>] = @ + amount * d]
  BY DEF execute_mint
<1>4. QED
  BY <1>1, <1>2, <1>3 DEF BalanceInv

\* The owner settings, Distribute and Tick move no token and no position.
LEMMA QuietSteps ==
    ASSUME \/ Tick \/ Distribute
           \/ \E s \in Accounts :
                \/ \E amount \in RewardRates : UpdateReward(s, amount)
                \/ \E setting \in Settings : UpdateSetting(s, setting[1], setting[2])
                \/ \E flag \in FreezeFlags : UpdateFreezeFlag(s, flag)
                \/ \E d \in NewDurations : AddNewDuration(s, d)
                \/ \E new \in OwnerCandidates : UpdateConfig(s, new) \/ UpdateSecondOwner(s, new)
           \/ UNCHANGED vars
    PROVE  UNCHANGED balanceVars
BY DEF Tick, Distribute, UpdateReward, UpdateSetting, UpdateFreezeFlag, AddNewDuration, UpdateConfig,
       UpdateSecondOwner, nonConfigVars, vars, userVars, tokenVars, balanceVars

\* What one step may do to the tokens and the positions.
BalanceStep ==
    /\ BalanceInv'
    /\ Frozen => contract_balance' >= contract_balance
    /\ \A u \in Users, d \in Durations :
         actual_balance'[<<u, d>>] < actual_balance[<<u, d>>] =>
            LockOver(u, d) /\ wallet'[u] >= wallet[u] + Principal(u, d)

LEMMA BalanceSteps == FundsInv /\ BalanceInv /\ [Next]_vars => BalanceStep
<1> SUFFICES ASSUME FundsInv, BalanceInv, [Next]_vars PROVE BalanceStep
  OBVIOUS
<1>0. \A u \in Users, d \in Durations : <<u, d>> \in Positions /\ actual_balance[<<u, d>>] \in Nat
  BY DEF Positions, BalanceInv
<1>1. CASE UNCHANGED balanceVars
  BY <1>0, <1>1 DEF balanceVars, BalanceInv, BalanceStep
<1>2. ASSUME NEW s \in Accounts, NEW amount \in DepositAmounts, Deposit(s, amount) PROVE BalanceStep
  <2>1. amount \in Nat
    BY BoundsAssumption
  <2>2. /\ amount <= wallet[s]
        /\ wallet' = [wallet EXCEPT ![s] = @ - amount]
        /\ contract_balance' = contract_balance + amount
        /\ actual_balance' = actual_balance
    BY <1>2 DEF Deposit, userVars
  <2>3. QED
    BY <1>0, <2>1, <2>2 DEF BalanceInv, BalanceStep
<1>3. ASSUME NEW u \in Users, NEW amount \in StakeAmounts, NEW d \in Durations, Stake(u, amount, d)
      PROVE  BalanceStep
  <2>1. amount \in Nat /\ u \in Accounts
    BY BoundsAssumption DEF Accounts
  <2>2. /\ amount <= wallet[u]
        /\ wallet' = [wallet EXCEPT ![u] = @ - amount]
        /\ contract_balance' = contract_balance + amount
        /\ execute_mint(u, amount, d)
    BY <1>3 DEF Stake
  <2>3. /\ actual_balance' \in [Positions -> Nat]
        /\ \A p \in Positions : actual_balance'[p] >= actual_balance[p]
    BY <2>1, <2>2, MintGrows
  <2>4. BalanceInv' /\ contract_balance' >= contract_balance
    BY <2>1, <2>2, <2>3 DEF BalanceInv
  <2>5. QED
    BY <1>0, <2>3, <2>4 DEF BalanceInv, BalanceStep
<1>4. ASSUME NEW u \in Users, NEW d \in Durations, Restake(u, d) PROVE BalanceStep
  <2>1. /\ UNCHANGED <<wallet, contract_balance>>
        /\ PayReward(Owed(u, d))
        /\ execute_mint(u, Owed(u, d), d)
    BY <1>4 DEF Restake, tokenVars
  <2>2. Owed(u, d) \in Nat
    BY <2>1, PaymentType
  <2>3. /\ actual_balance' \in [Positions -> Nat]
        /\ \A p \in Positions : actual_balance'[p] >= actual_balance[p]
    BY <2>1, <2>2, MintGrows
  <2>4. QED
    BY <1>0, <2>1, <2>3 DEF BalanceInv, BalanceStep
<1>5. ASSUME NEW u \in Users, NEW d \in Durations, Unstake(u, d) PROVE BalanceStep
  <2> DEFINE x == Principal(u, d)
             r == Owed(u, d)
  <2>1. PayReward(r) /\ LockOver(u, d) /\ ~Frozen
    BY <1>5 DEF Unstake
  <2>2. /\ x + r <= contract_balance
        /\ wallet' = [wallet EXCEPT ![u] = @ + x + r]
        /\ contract_balance' = contract_balance - x - r
        /\ actual_balance' = [actual_balance EXCEPT ![<<u, d>>] = 0]
    BY <1>5 DEF Unstake
  <2>3. r \in Nat /\ x \in Nat
    BY <2>1, PaymentType, PrincipalType
  <2>4. u \in Accounts /\ <<u, d>> \in Positions
    BY DEF Accounts, Positions
  <2> HIDE DEF x, r
  <2>5. BalanceInv'
    BY <2>2, <2>3, <2>4 DEF BalanceInv
  <2>6. ASSUME NEW v \in Users, NEW e \in Durations, actual_balance'[<<v, e>>] < actual_balance[<<v, e>>]
        PROVE  LockOver(v, e) /\ wallet'[v] >= wallet[v] + Principal(v, e)
    <3>1. <<v, e>> \in Positions /\ actual_balance[<<v, e>>] \in Nat
      BY <1>0
    <3>2. v = u /\ e = d
      BY <2>2, <2>6, <3>1 DEF BalanceInv
    <3>3. wallet'[u] >= wallet[u] + x
      BY <2>2, <2>3, <2>4 DEF BalanceInv
    <3>4. QED
      BY <2>1, <3>2, <3>3 DEF x
  <2>7. QED
    BY <2>1, <2>5, <2>6 DEF BalanceStep
<1>6. ASSUME NEW u \in Users, NEW d \in Durations, Claim(u, d) PROVE BalanceStep
  <2> DEFINE r == Owed(u, d)
  <2>1. /\ ~Frozen /\ PayReward(r)
        /\ r <= contract_balance
        /\ wallet' = [wallet EXCEPT ![u] = @ + r]
        /\ contract_balance' = contract_balance - r
        /\ actual_balance' = actual_balance
    BY <1>6 DEF Claim
  <2>2. r \in Nat /\ u \in Accounts
    BY <2>1, PaymentType DEF Accounts
  <2> HIDE DEF r
  <2>3. BalanceInv'
    BY <2>1, <2>2 DEF BalanceInv
  <2>4. QED
    BY <1>0, <2>1, <2>3 DEF BalanceStep
<1>7. QED
  BY <1>1, <1>2, <1>3, <1>4, <1>5, <1>6, QuietSteps DEF Next

LEMMA BalanceInit == Init => BalanceInv
BY BoundsAssumption DEF Init, BalanceInv

\* While the contract is frozen no transaction takes SYNE out of it.
THEOREM FreezeIsRespected == Spec => FreezeStopsOutflow
<1>1. BalanceStep => [freeze /\ now < freeze_start_time + cfg["freeze_lock_time"]
                        => contract_balance' >= contract_balance]_vars
  BY DEF BalanceStep, Frozen
<1>2. BalanceStep => BalanceInv'
  BY DEF BalanceStep
<1>3. QED
  BY ClockInit, ClockStep, FundsInit, FundsStep, BalanceInit, BalanceSteps, <1>1, <1>2, PTL
     DEF Spec, FreezeStopsOutflow

\* Principal leaves the contract only after its lock, whole and to its owner.
THEOREM PrincipalIsReturned == Spec => PrincipalReturned
<1>1. BalanceStep => [\A u \in Users, d \in Durations :
                        actual_balance'[<<u, d>>] < actual_balance[<<u, d>>] =>
                            /\ now - mint_time[<<u, d>>] >= cfg["lock_time_frame"] * d
                            /\ wallet'[u] >= wallet[u] + Principal(u, d)]_vars
  BY DEF BalanceStep, LockOver, LockTime
<1>2. BalanceStep => BalanceInv'
  BY DEF BalanceStep
<1>3. QED
  BY ClockInit, ClockStep, FundsInit, FundsStep, BalanceInit, BalanceSteps, <1>1, <1>2, PTL
     DEF Spec, PrincipalReturned

-----------------------------------------------------------------------------
(* The ledgers *)

\* The stakes of the durations are numbers, the sums of the principals, and
\* with the deposited reward all the SYNE of the contract.
LedgerInv ==
    /\ total_staked \in [Durations -> Nat]
    /\ Solvent /\ StakeLedger

\* The quotient is determined by its bounds.
LEMMA DivUnique ==
    ASSUME NEW x \in Nat, NEW d \in Nat \ {0}, NEW q \in Nat, q * d <= x, x < q * d + d
    PROVE  x \div d = q
<1> DEFINE p == x \div d
<1>1. p \in Nat /\ p * d <= x /\ x < p * d + d
  BY SMT
<1> HIDE DEF p
<1>2. ASSUME NEW a \in Nat, NEW b \in Nat, a + 1 <= b PROVE a * d + d <= b * d
  <2>1. PICK c \in Nat : b = a + 1 + c
    BY <1>2
  <2>2. b * d = a * d + d + c * d /\ c * d \in Nat /\ a * d \in Nat
    BY <2>1
  <2>3. QED
    BY <2>2
<1>3. p * d \in Nat /\ q * d \in Nat
  BY <1>1
<1>4. ~(p + 1 <= q) /\ ~(q + 1 <= p)
  BY <1>1, <1>2, <1>3
<1>5. p = q
  BY <1>1, <1>4
<1>6. QED
  BY <1>5 DEF p

\* Power minted for n tokens and d months is n tokens of principal.
LEMMA DivAdd ==
    ASSUME NEW x \in Nat, NEW n \in Nat, NEW d \in Nat \ {0}
    PROVE  (x + n * d) \div d = (x \div d) + n
<1> DEFINE q == x \div d
<1>1. q \in Nat /\ q * d <= x /\ x < q * d + d
  BY SMT
<1> HIDE DEF q
<1>2. (q + n) * d = q * d + n * d /\ n * d \in Nat /\ q * d \in Nat
  BY <1>1
<1>3. x + n * d \in Nat /\ q + n \in Nat
  BY <1>1, <1>2
<1>4. (q + n) * d <= x + n * d /\ x + n * d < (q + n) * d + d
  BY <1>1, <1>2
<1>5. (x + n * d) \div d = q + n
  BY <1>3, <1>4, DivUnique
<1>6. QED
  BY <1>5 DEF q

\* One position gains x tokens of principal, the others keep theirs.
PrincipalMoves(u, d, x) ==
    \A v \in Users, e \in Durations : Principal(v, e)' = Principal(v, e) + IF v = u /\ e = d THEN x ELSE 0

LEMMA MintMoves ==
    ASSUME BalanceInv, NEW u \in Users, NEW n \in Nat, NEW d \in Durations, execute_mint(u, n, d)
    PROVE  PrincipalMoves(u, d, n)
<1> SUFFICES ASSUME NEW v \in Users, NEW e \in Durations
             PROVE  Principal(v, e)' = Principal(v, e) + IF v = u /\ e = d THEN n ELSE 0
  BY DEF PrincipalMoves
<1>1. /\ <<u, d>> \in Positions /\ <<v, e>> \in Positions /\ d \in Nat \ {0}
      /\ actual_balance[<<u, d>>] \in Nat /\ Principal(v, e) \in Nat
  BY PrincipalType, DurationsAssumption DEF Positions, BalanceInv
<1>2. actual_balance' = [actual_balance EXCEPT ![<<u, d>>] = @ + n * d]
  BY DEF execute_mint
<1>3. CASE v = u /\ e = d
  <2>1. actual_balance'[<<u, d>>] = actual_balance[<<u, d>>] + n * d
    BY <1>1, <1>2 DEF BalanceInv
  <2>2. (actual_balance[<<u, d>>] + n * d) \div d = (actual_balance[<<u, d>>] \div d) + n
    BY <1>1, DivAdd
  <2>3. QED
    BY <1>3, <2>1, <2>2 DEF Principal
<1>4. CASE ~(v = u /\ e = d)
  <2>1. actual_balance'[<<v, e>>] = actual_balance[<<v, e>>]
    BY <1>1, <1>2, <1>4 DEF BalanceInv
  <2>2. QED
    BY <1>1, <1>4, <2>1 DEF Principal
<1>5. QED
  BY <1>3, <1>4

\* The sums follow one position.
LEMMA SumsMove ==
    ASSUME BalanceInv, BalanceInv', NEW u \in Users, NEW d \in Durations, NEW x \in Int, PrincipalMoves(u, d, x)
    PROVE  /\ \A e \in Durations :
                /\ SumOver(PrincipalsIn(e), Users) \in Int
                /\ SumOver(PrincipalsIn(e)', Users) = SumOver(PrincipalsIn(e), Users) + IF e = d THEN x ELSE 0
           /\ \A v \in Users :
                /\ SumOver(PrincipalsOf(v), Durations) \in Int
                /\ SumOver(PrincipalsOf(v)', Durations) = SumOver(PrincipalsOf(v), Durations) + IF v = u THEN x ELSE 0
<1>1. \A v \in Users, e \in Durations : Principal(v, e) \in Nat /\ Principal(v, e)' \in Nat
  BY PrincipalType, NextPrincipalType
<1>2. IsFiniteSet(Users) /\ IsFiniteSet(Durations)
  BY UsersAssumption, DurationsAssumption
<1>3. ASSUME NEW e \in Durations
      PROVE  /\ SumOver(PrincipalsIn(e), Users) \in Int
             /\ SumOver(PrincipalsIn(e)', Users) = SumOver(PrincipalsIn(e), Users) + IF e = d THEN x ELSE 0
  <2> DEFINE f == PrincipalsIn(e)
             g == PrincipalsIn(e)'
  <2>1. \A v \in Users : /\ f[v] \in Int /\ g[v] \in Int
                         /\ g[v] = f[v] + IF v = u /\ e = d THEN x ELSE 0
    BY <1>1 DEF PrincipalMoves, PrincipalsIn
  <2> HIDE DEF f, g
  <2>2. SumOver(f, Users) \in Int
    BY <1>2, <2>1, SumType
  <2>3. SumOver(g, Users) = SumOver(f, Users) + g[u] - f[u]
    <3>1. (\A z \in Users : f[z] \in Int) /\ (\A z \in Users : g[z] \in Int) /\ (\A z \in Users \ {u} : g[z] = f[z])
      BY <2>1
    <3>2. QED
      BY <1>2, <3>1, SumChange
  <2>4. SumOver(g, Users) = SumOver(f, Users) + IF e = d THEN x ELSE 0
    BY <2>1, <2>2, <2>3
  <2>5. QED
    BY <2>2, <2>4 DEF f, g
<1>4. ASSUME NEW v \in Users
      PROVE  /\ SumOver(PrincipalsOf(v), Durations) \in Int
             /\ SumOver(PrincipalsOf(v)', Durations) = SumOver(PrincipalsOf(v), Durations) + IF v = u THEN x ELSE 0
  <2> DEFINE f == PrincipalsOf(v)
             g == PrincipalsOf(v)'
  <2>1. \A e \in Durations : /\ f[e] \in Int /\ g[e] \in Int
                             /\ g[e] = f[e] + IF v = u /\ e = d THEN x ELSE 0
    BY <1>1 DEF PrincipalMoves, PrincipalsOf
  <2> HIDE DEF f, g
  <2>2. SumOver(f, Durations) \in Int
    BY <1>2, <2>1, SumType
  <2>3. SumOver(g, Durations) = SumOver(f, Durations) + g[d] - f[d]
    <3>1. (\A z \in Durations : f[z] \in Int) /\ (\A z \in Durations : g[z] \in Int) /\ (\A z \in Durations \ {d} : g[z] = f[z])
      BY <2>1
    <3>2. QED
      BY <1>2, <3>1, SumChange
  <2>4. SumOver(g, Durations) = SumOver(f, Durations) + IF v = u THEN x ELSE 0
    BY <2>1, <2>2, <2>3
  <2>5. QED
    BY <2>2, <2>4 DEF f, g
<1>5. QED
  BY <1>3, <1>4

\* The two ledgers follow a position whose tokens come in or go out, and so
\* does the wealth of its owner.
LEMMA LedgerMove ==
    ASSUME BalanceInv, BalanceInv', FundsInv, FundsInv', LedgerInv,
           NEW u \in Users, NEW d \in Durations, NEW x \in Int, PrincipalMoves(u, d, x),
           total_staked' = [total_staked EXCEPT ![d] = total_staked[d] + x], total_staked[d] + x >= 0,
           contract_balance' - total_reward_in_contract' = contract_balance - total_reward_in_contract + x
    PROVE  /\ LedgerInv'
           /\ \A v \in Users : Wealth(v)' - Wealth(v) = wallet'[v] - wallet[v] + IF v = u THEN x ELSE 0
<1>1. /\ total_staked' \in [Durations -> Nat] /\ total_staked \in [Durations -> Nat]
      /\ \A e \in Durations : total_staked'[e] = total_staked[e] + IF e = d THEN x ELSE 0
  BY DEF LedgerInv
<1>2. StakeLedger'
  BY <1>1, SumsMove DEF LedgerInv, StakeLedger
<1>3. Solvent'
  <2>1. IsFiniteSet(Durations)
    BY DurationsAssumption
  <2>2. SumOver(total_staked', Durations) = SumOver(total_staked, Durations) + x
    <3> DEFINE f == total_staked
               g == total_staked'
    <3>1. /\ g[d] = f[d] + x /\ f[d] \in Int
          /\ \A e \in Durations : f[e] \in Int
          /\ \A e \in Durations : g[e] \in Int
          /\ \A e \in Durations \ {d} : g[e] = f[e]
      BY <1>1
    <3> HIDE DEF f, g
    <3>2. SumOver(g, Durations) = SumOver(f, Durations) + g[d] - f[d]
      BY <2>1, <3>1, SumChange
    <3>3. SumOver(f, Durations) \in Int
      BY <2>1, <3>1, SumType
    <3>4. SumOver(g, Durations) = SumOver(f, Durations) + x
      BY <3>1, <3>2, <3>3
    <3>5. QED
      BY <3>4 DEF f, g
  <2>3. SumOver(total_staked, Durations) \in Int
    BY <1>1, <2>1, SumType
  <2>4. QED
    BY <2>2, <2>3 DEF LedgerInv, Solvent, BalanceInv, FundsInv
<1>4. ASSUME NEW v \in Users PROVE Wealth(v)' - Wealth(v) = wallet'[v] - wallet[v] + IF v = u THEN x ELSE 0
  <2>1. v \in Accounts /\ wallet[v] \in Int /\ wallet'[v] \in Int
    BY DEF Accounts, BalanceInv
  <2>2. Wealth(v)' = wallet'[v] + SumOver(PrincipalsOf(v)', Durations) /\ Wealth(v) = wallet[v] + SumOver(PrincipalsOf(v), Durations)
    BY DEF Wealth
  <2>3. QED
    BY <2>1, <2>2, SumsMove
<1>5. QED
  BY <1>1, <1>2, <1>3, <1>4 DEF LedgerInv

LEMMA WealthType ==
    ASSUME BalanceInv, BalanceInv', NEW v \in Users
    PROVE  Wealth(v) \in Int /\ Wealth(v)' \in Int
<1>1. \A d \in Durations : PrincipalsOf(v)[d] \in Int
  BY PrincipalType DEF PrincipalsOf
<1>2. \A d \in Durations : PrincipalsOf(v)'[d] \in Int
  BY NextPrincipalType DEF PrincipalsOf
<1>3. SumOver(PrincipalsOf(v), Durations) \in Int /\ SumOver(PrincipalsOf(v)', Durations) \in Int
  BY <1>1, <1>2, DurationsAssumption, SumType
<1>4. wallet[v] \in Int /\ wallet'[v] \in Int
  BY DEF BalanceInv, Accounts
<1>5. QED
  BY <1>3, <1>4 DEF Wealth

\* What one step may do to the ledgers and to the wealth of a user.
LedgerStep ==
    /\ LedgerInv'
    /\ \A v \in Users : \/ Wealth(v)' >= Wealth(v)
                        \/ wallet'[v] - wallet[v] = total_reward_in_contract - total_reward_in_contract'

\* No position and no stake changes.
LEMMA SameStakes ==
    ASSUME BalanceInv, LedgerInv, UNCHANGED <<actual_balance, total_staked>>
    PROVE  /\ total_staked' \in [Durations -> Nat] /\ StakeLedger'
           /\ \A v \in Users : SumOver(PrincipalsOf(v), Durations) \in Int
                               /\ SumOver(PrincipalsOf(v)', Durations) = SumOver(PrincipalsOf(v), Durations)
<1>1. /\ \A v \in Users : PrincipalsOf(v)' = PrincipalsOf(v)
      /\ \A d \in Durations : PrincipalsIn(d)' = PrincipalsIn(d)
  BY DEF PrincipalsOf, PrincipalsIn, Principal
<1>2. ASSUME NEW v \in Users PROVE SumOver(PrincipalsOf(v), Durations) \in Int
  <2>1. \A d \in Durations : PrincipalsOf(v)[d] \in Int
    BY PrincipalType DEF PrincipalsOf
  <2>2. QED
    BY <2>1, DurationsAssumption, SumType
<1>3. QED
  BY <1>1, <1>2 DEF LedgerInv, StakeLedger

LEMMA LedgerSteps ==
    FundsInv /\ FundsInv' /\ BalanceInv /\ BalanceInv' /\ LedgerInv /\ [Next]_vars => LedgerStep
<1> SUFFICES ASSUME FundsInv, FundsInv', BalanceInv, BalanceInv', LedgerInv, [Next]_vars PROVE LedgerStep
  OBVIOUS
<1>0. /\ contract_balance \in Int /\ total_reward_in_contract \in Int /\ SumOver(total_staked, Durations) \in Int
      /\ \A v \in Users : v \in Accounts /\ wallet[v] \in Nat /\ wallet'[v] \in Nat
      /\ \A d \in Durations : total_staked[d] \in Nat
  <2>1. \A d \in Durations : total_staked[d] \in Nat /\ total_staked[d] \in Int
    BY DEF LedgerInv
  <2>2. SumOver(total_staked, Durations) \in Int
    BY <2>1, DurationsAssumption, SumType
  <2>3. QED
    BY <2>1, <2>2 DEF FundsInv, BalanceInv, Accounts
<1>1. CASE UNCHANGED <<balanceVars, total_staked, total_reward_in_contract>>
  <2>1. LedgerInv'
    BY <1>1, SameStakes DEF LedgerInv, Solvent, balanceVars
  <2>2. \A v \in Users : Wealth(v)' >= Wealth(v)
    BY <1>0, <1>1, SameStakes DEF Wealth, balanceVars
  <2>3. QED
    BY <2>1, <2>2 DEF LedgerStep
<1>2. ASSUME NEW s \in Accounts, NEW amount \in DepositAmounts, Deposit(s, amount) PROVE LedgerStep
  <2>1. /\ amount \in Nat /\ UNCHANGED <<actual_balance, total_staked>>
        /\ wallet' = [wallet EXCEPT ![s] = @ - amount]
        /\ contract_balance' = contract_balance + amount
        /\ total_reward_in_contract' = total_reward_in_contract + amount
    BY <1>2, BoundsAssumption DEF Deposit, userVars, mintVars
  <2>2. LedgerInv'
    BY <1>0, <2>1, SameStakes DEF LedgerInv, Solvent
  <2>3. ASSUME NEW v \in Users
        PROVE  \/ Wealth(v)' >= Wealth(v)
               \/ wallet'[v] - wallet[v] = total_reward_in_contract - total_reward_in_contract'
    <3>1. CASE v = s
      BY <1>0, <2>1, <3>1 DEF BalanceInv
    <3>2. CASE v # s
      <4>1. wallet'[v] = wallet[v]
        BY <1>0, <2>1, <3>2 DEF BalanceInv
      <4>2. QED
        BY <1>0, <2>1, <4>1, SameStakes DEF Wealth
    <3>3. QED
      BY <3>1, <3>2
  <2>4. QED
    BY <2>2, <2>3 DEF LedgerStep
<1>3. ASSUME NEW u \in Users, NEW amount \in StakeAmounts, NEW d \in Durations, Stake(u, amount, d)
      PROVE  LedgerStep
  <2>1. /\ amount \in Nat /\ execute_mint(u, amount, d)
        /\ wallet' = [wallet EXCEPT ![u] = @ - amount]
        /\ contract_balance' = contract_balance + amount
        /\ total_reward_in_contract' = total_reward_in_contract
        /\ total_staked' = [total_staked EXCEPT ![d] = total_staked[d] + amount]
    BY <1>3, BoundsAssumption DEF Stake, poolVars
  <2>2. PrincipalMoves(u, d, amount)
    BY <2>1, MintMoves
  <2>3. amount \in Int /\ total_staked[d] + amount >= 0
        /\ contract_balance' - total_reward_in_contract' = contract_balance - total_reward_in_contract + amount
    BY <1>0, <2>1
  <2>4. /\ LedgerInv'
        /\ \A v \in Users : Wealth(v)' - Wealth(v) = wallet'[v] - wallet[v] + IF v = u THEN amount ELSE 0
    BY <2>1, <2>2, <2>3, LedgerMove
  <2>5. ASSUME NEW v \in Users PROVE Wealth(v)' >= Wealth(v)
    <3>1. wallet'[v] - wallet[v] = IF v = u THEN 0 - amount ELSE 0
      BY <1>0, <2>1 DEF BalanceInv
    <3>2. Wealth(v)' - Wealth(v) = 0
      BY <2>1, <2>4, <3>1
    <3>3. QED
      BY <3>2, WealthType
  <2>6. QED
    BY <2>4, <2>5 DEF LedgerStep
<1>4. ASSUME NEW u \in Users, NEW d \in Durations, Restake(u, d) PROVE LedgerStep
  <2> DEFINE r == Owed(u, d)
  <2>1. /\ PayReward(r) /\ execute_mint(u, r, d) /\ UNCHANGED <<wallet, contract_balance>>
        /\ total_staked' = [total_staked EXCEPT ![d] = total_staked[d] + r]
    BY <1>4 DEF Restake, tokenVars
  <2>2. r \in Nat
    BY <2>1, PaymentType
  <2> HIDE DEF r
  <2>3. PrincipalMoves(u, d, r)
    BY <2>1, <2>2, MintMoves
  <2>4. total_reward_in_contract' = total_reward_in_contract - r
    BY <2>1 DEF PayReward
  <2>5. r \in Int /\ total_staked[d] + r >= 0
        /\ contract_balance' - total_reward_in_contract' = contract_balance - total_reward_in_contract + r
    BY <1>0, <2>1, <2>2, <2>4
  <2>6. /\ LedgerInv'
        /\ \A v \in Users : Wealth(v)' - Wealth(v) = wallet'[v] - wallet[v] + IF v = u THEN r ELSE 0
    BY <2>1, <2>3, <2>5, LedgerMove
  <2>7. ASSUME NEW v \in Users PROVE Wealth(v)' >= Wealth(v)
    <3>1. Wealth(v)' - Wealth(v) = IF v = u THEN r ELSE 0
      BY <1>0, <2>1, <2>2, <2>6
    <3>2. QED
      BY <2>2, <3>1, WealthType
  <2>8. QED
    BY <2>6, <2>7 DEF LedgerStep
<1>5. ASSUME NEW u \in Users, NEW d \in Durations, Unstake(u, d) PROVE LedgerStep
  <2> DEFINE r == Owed(u, d)
             p == Principal(u, d)
             x == 0 - p
  <2>1. /\ PayReward(r) /\ p <= total_staked[d]
        /\ wallet' = [wallet EXCEPT ![u] = @ + p + r]
        /\ contract_balance' = contract_balance - p - r
        /\ actual_balance' = [actual_balance EXCEPT ![<<u, d>>] = 0]
        /\ total_staked' = [total_staked EXCEPT ![d] = total_staked[d] - p]
    BY <1>5 DEF Unstake
  <2>2. r \in Nat /\ p \in Nat /\ x \in Int
    BY <2>1, PaymentType, PrincipalType
  <2>3. PrincipalMoves(u, d, x)
    <3> SUFFICES ASSUME NEW v \in Users, NEW e \in Durations
                 PROVE  Principal(v, e)' = Principal(v, e) + IF v = u /\ e = d THEN x ELSE 0
      BY DEF PrincipalMoves
    <3>1. <<u, d>> \in Positions /\ <<v, e>> \in Positions /\ d \in Nat \ {0} /\ Principal(v, e) \in Nat
      BY DurationsAssumption, PrincipalType DEF Positions
    <3>2. CASE v = u /\ e = d
      <4>1. actual_balance'[<<u, d>>] = 0
        BY <2>1, <3>1 DEF BalanceInv
      <4>2. 0 \div d = 0
        BY <3>1, SMT
      <4>3. QED
        BY <2>2, <3>2, <4>1, <4>2 DEF Principal
    <3>3. CASE ~(v = u /\ e = d)
      <4>1. actual_balance'[<<v, e>>] = actual_balance[<<v, e>>]
        BY <2>1, <3>1, <3>3 DEF BalanceInv
      <4>2. QED
        BY <3>1, <3>3, <4>1 DEF Principal
    <3>4. QED
      BY <3>2, <3>3
  <2>4. total_reward_in_contract' = total_reward_in_contract - r
    BY <2>1 DEF PayReward
  <2>5. /\ total_staked[d] + x >= 0 /\ total_staked[d] - p = total_staked[d] + x
        /\ contract_balance' - total_reward_in_contract' = contract_balance - total_reward_in_contract + x
    BY <1>0, <2>1, <2>2, <2>4
  <2>6. total_staked' = [total_staked EXCEPT ![d] = total_staked[d] + x]
    BY <2>1, <2>5
  <2> HIDE DEF r, p, x
  <2>7. /\ LedgerInv'
        /\ \A v \in Users : Wealth(v)' - Wealth(v) = wallet'[v] - wallet[v] + IF v = u THEN x ELSE 0
    BY <2>2, <2>3, <2>5, <2>6, LedgerMove
  <2>8. ASSUME NEW v \in Users PROVE Wealth(v)' >= Wealth(v)
    <3>1. wallet'[v] - wallet[v] = IF v = u THEN p + r ELSE 0
      BY <1>0, <2>1, <2>2 DEF BalanceInv
    <3>2. Wealth(v)' - Wealth(v) = IF v = u THEN r ELSE 0
      BY <2>2, <2>7, <3>1 DEF x
    <3>3. QED
      BY <2>2, <3>2, WealthType
  <2>9. QED
    BY <2>7, <2>8 DEF LedgerStep
<1>6. ASSUME NEW u \in Users, NEW d \in Durations, Claim(u, d) PROVE LedgerStep
  <2> DEFINE r == Owed(u, d)
  <2>1. /\ PayReward(r) /\ UNCHANGED <<actual_balance, total_staked>>
        /\ wallet' = [wallet EXCEPT ![u] = @ + r]
        /\ contract_balance' = contract_balance - r
    BY <1>6 DEF Claim, mintVars
  <2>2. r \in Nat /\ total_reward_in_contract' = total_reward_in_contract - r
    BY <2>1, PaymentType DEF PayReward
  <2> HIDE DEF r
  <2>3. LedgerInv'
    BY <1>0, <2>1, <2>2, SameStakes DEF LedgerInv, Solvent
  <2>4. ASSUME NEW v \in Users PROVE Wealth(v)' >= Wealth(v)
    <3>1. wallet'[v] >= wallet[v]
      BY <1>0, <2>1, <2>2 DEF BalanceInv
    <3>2. QED
      BY <1>0, <2>1, <3>1, SameStakes DEF Wealth
  <2>5. QED
    BY <2>3, <2>4 DEF LedgerStep
<1>7. ASSUME \/ Tick \/ Distribute
             \/ \E s \in Accounts :
                  \/ \E amount \in RewardRates : UpdateReward(s, amount)
                  \/ \E setting \in Settings : UpdateSetting(s, setting[1], setting[2])
                  \/ \E flag \in FreezeFlags : UpdateFreezeFlag(s, flag)
                  \/ \E d \in NewDurations : AddNewDuration(s, d)
                  \/ \E new \in OwnerCandidates : UpdateConfig(s, new) \/ UpdateSecondOwner(s, new)
             \/ UNCHANGED vars
      PROVE  LedgerStep
  <2>1. UNCHANGED balanceVars
    BY <1>7, QuietSteps
  <2>2. UNCHANGED <<total_staked, total_reward_in_contract>>
    BY <1>7 DEF Tick, Distribute, UpdateReward, UpdateSetting, UpdateFreezeFlag, AddNewDuration, UpdateConfig,
                UpdateSecondOwner, nonConfigVars, vars, poolVars, mintVars
  <2>3. QED
    BY <1>1, <2>1, <2>2
<1>8. QED
  BY <1>2, <1>3, <1>4, <1>5, <1>6, <1>7 DEF Next

LEMMA LedgerInit == Init => LedgerInv
<1> SUFFICES ASSUME Init PROVE LedgerInv
  OBVIOUS
<1>1. IsFiniteSet(Users) /\ IsFiniteSet(Durations)
  BY UsersAssumption, DurationsAssumption
<1>2. \A d \in Durations : total_staked[d] = 0 /\ \A u \in Users : PrincipalsIn(d)[u] = 0
  <2>1. \A u \in Users, d \in Durations : actual_balance[<<u, d>>] = 0 /\ d \in Nat \ {0}
    BY DurationsAssumption DEF Init, Positions
  <2>2. \A d \in Nat \ {0} : 0 \div d = 0
    BY SMT
  <2>3. QED
    BY <2>1, <2>2 DEF Init, PrincipalsIn, Principal
<1>3. SumOver(total_staked, Durations) = 0
  BY <1>1, <1>2, SumZero
<1>4. \A d \in Durations : SumOver(PrincipalsIn(d), Users) = 0
  BY <1>1, <1>2, SumZero
<1>5. QED
  BY <1>2, <1>3, <1>4 DEF Init, LedgerInv, Solvent, StakeLedger

-----------------------------------------------------------------------------
(* The history *)

\* The rest of the types.
SettingsInv ==
    /\ owner \in Accounts /\ second_owner \in Accounts /\ freeze \in BOOLEAN
    /\ duration_values_vector \in Seq(Durations)

PowerInv ==
    /\ total_balance \in [Durations -> Nat] /\ total_supply \in Nat
    /\ pending_reward \in [Positions -> Nat]

\* No date of the map is after the current one, which is still open, and the
\* index is at least that of every date and of every position.
HistoryInv ==
    /\ reward_index \in Nat /\ last_syne_power_date \in Nat
    /\ DOMAIN date_map \subseteq Nat
    /\ \A t \in DOMAIN date_map : date_map[t] \in Nat /\ date_map[t] <= reward_index /\ t <= last_syne_power_date
    /\ last_syne_power_date \in DOMAIN date_map => date_map[last_syne_power_date] = 0
    /\ user_index \in [Positions -> Nat]
    /\ \A p \in Positions : user_index[p] <= reward_index

\* What the query needs besides: no time before StartTime, a day that is not
\* longer than StartTime and a lock that is not empty.
QueryInv ==
    /\ cfg["day_factor"] \in 1 .. StartTime /\ cfg["lock_time_frame"] > 0
    /\ StartTime <= now /\ StartTime <= latest_syne_power_date
    /\ \A p \in Positions : actual_balance[p] > 0 => StartTime <= mint_time[p]

\* PowerDateAt follows its recursion: every iteration keeps the date or moves
\* it by one day.
LEMMA PowerDates ==
    ASSUME HistoryInv, NonDistributedDays \in Nat, cfg["day_factor"] \in Nat
    PROVE  /\ PowerDateAt[0] = last_syne_power_date
           /\ \A k \in 0 .. NonDistributedDays : PowerDateAt[k] \in Nat
           /\ \A j, k \in 0 .. NonDistributedDays : j <= k => PowerDateAt[j] <= PowerDateAt[k]
<1> DEFINE N == NonDistributedDays
           day == cfg["day_factor"]
           IsDate(g, n) == g = [k \in 0 .. n |-> IF k = 0 THEN last_syne_power_date
                                                 ELSE IF DayStart(k) >= g[k - 1] + day THEN g[k - 1] + day ELSE g[k - 1]]
           P == PowerDateAt
<1>1. P = CHOOSE g : IsDate(g, N)
  BY DEF PowerDateAt
<1>2. \E g : IsDate(g, N)
  <2> DEFINE T == {n \in Nat : \E g : IsDate(g, n)}
  <2>1. 0 \in T
    <3> DEFINE g == [k \in 0 .. 0 |-> last_syne_power_date]
    <3>1. IsDate(g, 0)
      OBVIOUS
    <3>2. QED
      BY <3>1
  <2>2. ASSUME NEW n \in Nat, n \in T PROVE n + 1 \in T
    <3>1. PICK g : IsDate(g, n)
      BY <2>2
    <3> DEFINE h == [k \in 0 .. n + 1 |-> IF k = n + 1
                                          THEN IF DayStart(n + 1) >= g[n] + day THEN g[n] + day ELSE g[n]
                                          ELSE g[k]]
    <3>2. ASSUME NEW k \in 0 .. n + 1
          PROVE  h[k] = IF k = 0 THEN last_syne_power_date
                        ELSE IF DayStart(k) >= h[k - 1] + day THEN h[k - 1] + day ELSE h[k - 1]
      <4>1. CASE k = n + 1
        <5>1. h[k] = (IF DayStart(k) >= g[n] + day THEN g[n] + day ELSE g[n]) /\ h[k - 1] = g[n] /\ k # 0
          BY <4>1
        <5>2. QED
          BY <5>1
      <4>2. CASE k \in 1 .. n
        <5>1. h[k] = g[k] /\ h[k - 1] = g[k - 1] /\ k # 0
          BY <4>2
        <5>2. g[k] = IF k = 0 THEN last_syne_power_date
                     ELSE IF DayStart(k) >= g[k - 1] + day THEN g[k - 1] + day ELSE g[k - 1]
          BY <3>1, <4>2
        <5>3. QED
          BY <5>1, <5>2
      <4>3. CASE k = 0
        BY <3>1, <4>3
      <4>4. QED
        BY <4>1, <4>2, <4>3
    <3>3. h = [k \in 0 .. n + 1 |-> IF k = 0 THEN last_syne_power_date
                                    ELSE IF DayStart(k) >= h[k - 1] + day THEN h[k - 1] + day ELSE h[k - 1]]
      <4>1. h = [k \in 0 .. n + 1 |-> h[k]]
        OBVIOUS
      <4> HIDE DEF h
      <4>2. QED
        BY <3>2, <4>1
    <3>4. IsDate(h, n + 1)
      BY <3>3
    <3> HIDE DEF h, IsDate
    <3>5. QED
      BY <3>4
  <2>3. Nat \subseteq T
    <3> HIDE DEF T
    <3>1. QED
      BY <2>1, <2>2, NumberInduction
  <2>4. QED
    BY <2>3
<1>3. IsDate(P, N)
  BY <1>1, <1>2
<1>4. /\ P[0] = last_syne_power_date
      /\ \A k \in 1 .. N : P[k] = P[k - 1] + day \/ P[k] = P[k - 1]
  <2>1. \A k \in 0 .. N : P[k] = IF k = 0 THEN last_syne_power_date
                                 ELSE IF DayStart(k) >= P[k - 1] + day THEN P[k - 1] + day ELSE P[k - 1]
    BY <1>3
  <2> HIDE DEF P, N, day
  <2>2. N \in Nat
    BY DEF N
  <2>3. QED
    BY <2>1, <2>2
<1>5. last_syne_power_date \in Nat /\ N \in Nat /\ day \in Nat
  BY DEF HistoryInv
<1> HIDE DEF P, N, day
<1>6. \A k \in 0 .. N : P[k] \in Nat
  <2> DEFINE T == {n \in Nat : n <= N => P[n] \in Nat}
  <2>1. 0 \in T
    BY <1>4, <1>5
  <2>2. ASSUME NEW n \in Nat, n \in T PROVE n + 1 \in T
    <3> SUFFICES ASSUME n + 1 <= N PROVE P[n + 1] \in Nat
      OBVIOUS
    <3>1. n + 1 \in 1 .. N /\ (n + 1) - 1 = n /\ P[n] \in Nat
      BY <1>5, <2>2
    <3>2. P[n + 1] = P[n] + day \/ P[n + 1] = P[n]
      BY <1>4, <3>1
    <3>3. QED
      BY <1>5, <3>1, <3>2
  <2>3. Nat \subseteq T
    <3> HIDE DEF T
    <3>1. QED
      BY <2>1, <2>2, NumberInduction
  <2>4. QED
    BY <1>5, <2>3
<1>7. \A j, k \in 0 .. N : j <= k => P[j] <= P[k]
  <2> DEFINE T == {n \in Nat : n <= N => \A j \in 0 .. n : P[j] <= P[n]}
  <2>1. 0 \in T
    BY <1>4, <1>5
  <2>2. ASSUME NEW n \in Nat, n \in T PROVE n + 1 \in T
    <3> SUFFICES ASSUME n + 1 <= N, NEW j \in 0 .. n + 1 PROVE P[j] <= P[n + 1]
      OBVIOUS
    <3>1. n + 1 \in 1 .. N /\ (n + 1) - 1 = n /\ n \in 0 .. N /\ n + 1 \in 0 .. N /\ j \in 0 .. N
      BY <1>5
    <3>2. P[n] <= P[n + 1] /\ P[n] \in Nat /\ P[n + 1] \in Nat /\ P[j] \in Nat
      BY <1>4, <1>5, <1>6, <3>1
    <3>3. CASE j = n + 1
      BY <3>2, <3>3
    <3>4. CASE j \in 0 .. n
      <4>1. P[j] <= P[n]
        BY <1>5, <2>2, <3>4
      <4>2. QED
        BY <3>2, <4>1
    <3>5. QED
      BY <3>3, <3>4
  <2>3. Nat \subseteq T
    <3> HIDE DEF T
    <3>1. QED
      BY <2>1, <2>2, NumberInduction
  <2>4. QED
    BY <1>5, <2>3
<1>8. QED
  BY <1>4, <1>6, <1>7 DEF P, N

LEMMA RatioType ==
    ASSUME NEW x \in Nat, NEW num \in Nat, NEW den \in Nat \ {0}
    PROVE  MulRatio(x, num, den) \in Nat
<1>1. x * num \in Nat
  OBVIOUS
<1>2. \A a \in Nat : a \div den \in Nat
  BY SMT
<1>3. QED
  BY <1>1, <1>2 DEF MulRatio

LEMMA LockTimeType ==
    ASSUME ClockInv, NEW d \in Durations
    PROVE  LockTime(d) \in Nat /\ (cfg["lock_time_frame"] > 0 => LockTime(d) > 0)
<1>1. cfg["lock_time_frame"] \in Nat /\ d \in Nat \ {0}
  BY DurationsAssumption DEF ClockInv, ConfigFields
<1>2. \A x \in Nat : x * d \in Nat /\ (x > 0 => x * d > 0)
  BY <1>1
<1>3. QED
  BY <1>1, <1>2 DEF LockTime

\* Power decays to a number.
LEMMA DecayedType ==
    ASSUME ClockInv, NEW bal \in Nat, NEW elapsed \in Nat, NEW d \in Durations
    PROVE  Decayed(bal, elapsed, d) \in Nat
<1> DEFINE lock == LockTime(d)
<1>1. lock \in Nat /\ REWARD_CALC_UNIT \in Nat \ {0}
  BY LockTimeType, UnitAssumption
<1>2. CASE elapsed < lock
  <2>1. lock \in Nat \ {0} /\ lock - elapsed \in Nat
    BY <1>1, <1>2
  <2> HIDE DEF lock
  <2>2. MulRatio(REWARD_CALC_UNIT, lock - elapsed, lock) \in Nat
    BY <1>1, <2>1, RatioType
  <2>3. MulRatio(bal, MulRatio(REWARD_CALC_UNIT, lock - elapsed, lock), REWARD_CALC_UNIT) \in Nat
    BY <1>1, <2>2, RatioType
  <2>4. QED
    BY <1>2, <2>3 DEF Decayed, lock
<1>3. CASE ~(elapsed < lock)
  BY <1>3 DEF Decayed
<1>4. QED
  BY <1>2, <1>3

LEMMA TotalLopoType ==
    ASSUME ClockInv, SettingsInv, PowerInv, cfg["wait_time"] \in Nat, NEW k \in Nat
    PROVE  TotalLopo(k) \in Nat
<1> DEFINE stakable == Range(duration_values_vector)
           f == [d \in stakable |-> query_total_balance(DayStart(k), d)]
<1>1. stakable \in SUBSET Durations
  BY DEF SettingsInv, Range
<1>2. IsFiniteSet(stakable)
  BY <1>1, DurationsAssumption, FS_Subset
<1>3. ASSUME NEW d \in stakable PROVE f[d] \in Nat
  <2>1. d \in Durations /\ total_balance[d] \in Nat /\ total_mint_time[d] \in Nat
    BY <1>1 DEF ClockInv, PowerInv
  <2>2. DayStart(k) \in Nat
    <3>1. \A a, b, c \in Nat : a + b * c \in Nat
      OBVIOUS
    <3>2. QED
      BY <3>1 DEF DayStart, ClockInv
  <2>3. (IF DayStart(k) < total_mint_time[d] THEN total_mint_time[d] ELSE DayStart(k)) - total_mint_time[d] \in Nat
    BY <2>1, <2>2
  <2>4. query_total_balance(DayStart(k), d) \in Nat
    BY <2>1, <2>3, DecayedType DEF query_total_balance
  <2>5. QED
    BY <2>4
<1> HIDE DEF f, stakable
<1>4. SumOver(f, stakable) \in Nat
  BY <1>2, <1>3, SumNat
<1>5. QED
  BY <1>4 DEF TotalLopo, f, stakable

\* The index only grows from one iteration to a later one.
LEMMA IndexGrows ==
    ASSUME ClockInv, SettingsInv, PowerInv, HistoryInv, FundsInv, cfg["wait_time"] \in Nat,
           NEW k \in Nat, NEW n \in Nat, k <= n
    PROVE  /\ RewardIndexAt(k) \in Nat /\ RewardIndexAt(n) \in Nat
           /\ reward_index <= RewardIndexAt(k) /\ RewardIndexAt(k) <= RewardIndexAt(n)
<1> DEFINE h(j) == MulRatio(REWARD_CALC_UNIT, distribution_reward, TotalLopo(j))
           f(m) == [j \in RewardedBefore(m) |-> h(j)]
<1>1. ASSUME NEW m \in Nat
      PROVE  /\ IsFiniteSet(RewardedBefore(m))
             /\ \A j \in RewardedBefore(m) : f(m)[j] \in Nat
  <2>1. IsFiniteSet(0 .. m - 1) /\ RewardedBefore(m) \in SUBSET (0 .. m - 1)
    BY FS_Interval DEF RewardedBefore
  <2>2. IsFiniteSet(RewardedBefore(m))
    BY <2>1, FS_Subset
  <2>3. ASSUME NEW j \in RewardedBefore(m) PROVE h(j) \in Nat
    <3>1. j \in Nat /\ TotalLopo(j) # 0
      BY DEF RewardedBefore
    <3>2. TotalLopo(j) \in Nat \ {0}
      BY <3>1, TotalLopoType
    <3>3. REWARD_CALC_UNIT \in Nat /\ distribution_reward \in Nat
      BY UnitAssumption DEF FundsInv
    <3>4. QED
      BY <3>2, <3>3, RatioType
  <2>4. QED
    BY <2>2, <2>3
<1>2. RewardedBefore(k) \in SUBSET RewardedBefore(n)
  BY DEF RewardedBefore
<1>3. \A j \in RewardedBefore(k) : f(k)[j] = f(n)[j]
  BY <1>2
<1>4. /\ RewardIndexAt(k) = reward_index + SumOver(f(k), RewardedBefore(k))
      /\ RewardIndexAt(n) = reward_index + SumOver(f(n), RewardedBefore(n))
  BY DEF RewardIndexAt
<1> HIDE DEF f
<1>5. SumOver(f(k), RewardedBefore(k)) \in Nat /\ SumOver(f(n), RewardedBefore(n)) \in Nat
  BY <1>1, SumNat
<1>6. SumOver(f(k), RewardedBefore(k)) <= SumOver(f(n), RewardedBefore(n))
  BY <1>1, <1>2, <1>3, SumPart
<1>7. QED
  BY <1>4, <1>5, <1>6 DEF HistoryInv

\* What a distribution does to the history: the index grows, closed dates keep
\* theirs, and the current date is left open.
LEMMA DistributeHistory ==
    ASSUME ClockInv, SettingsInv, PowerInv, HistoryInv, FundsInv, Distribute
    PROVE  /\ HistoryInv' /\ reward_index' >= reward_index
           /\ \A t \in DOMAIN date_map : date_map[t] # 0 => t \in DOMAIN date_map' /\ date_map'[t] = date_map[t]
<1>1. CASE distribution_reward = 0
  BY <1>1 DEF Distribute, userVars, HistoryInv
<1>2. CASE distribution_reward # 0
  <2> DEFINE N == NonDistributedDays
             P == PowerDateAt
             last == last_syne_power_date
             new == P[N]
  <2>1. /\ cfg["wait_time"] \in Nat /\ cfg["day_factor"] \in Nat /\ N \in Nat \ {0}
    BY DistributionClocks DEF ClockInv, ConfigFields, Distribute
  <2>2. /\ reward_index' = RewardIndexAt(N) /\ date_map' = DistributedDates
        /\ last_syne_power_date' = new /\ user_index' = user_index
    BY <1>2 DEF Distribute, userVars
  <2>3. /\ P[0] = last /\ \A k \in 0 .. N : P[k] \in Nat
        /\ \A j, k \in 0 .. N : j <= k => P[j] <= P[k]
    BY <2>1, PowerDates
  <2>4. \A k \in 0 .. N : /\ RewardIndexAt(k) \in Nat /\ reward_index <= RewardIndexAt(k)
                          /\ RewardIndexAt(k) <= reward_index'
    BY <2>1, <2>2, IndexGrows
  <2>5. last \in Nat /\ new \in Nat /\ last <= new /\ \A k \in 0 .. N : last <= P[k] /\ P[k] <= new
    BY <2>1, <2>3 DEF HistoryInv
  <2>6. DOMAIN date_map' = DOMAIN date_map \union {P[k] : k \in 1 .. N}
    BY <2>2 DEF DistributedDates
  <2>7. \A t \in DOMAIN date_map' :
            date_map'[t] = IF ClosedAt(t) # {} THEN RewardIndexAt(CHOOSE k \in ClosedAt(t) : TRUE)
                           ELSE IF t \in DOMAIN date_map THEN date_map[t] ELSE 0
    BY <2>2 DEF DistributedDates
  <2>8. ASSUME NEW t, NEW k \in ClosedAt(t) PROVE k \in 0 .. N - 1 /\ P[k] = t /\ P[k + 1] # t
    BY DEF ClosedAt
  <2> HIDE DEF N, P, last, new
  <2>9. ASSUME NEW t, ClosedAt(t) # {} PROVE last <= t /\ t < new
    <3>1. PICK k \in ClosedAt(t) : TRUE
      BY <2>9
    <3>2. k \in 0 .. N /\ k + 1 \in 0 .. N /\ k <= k + 1 /\ P[k] = t /\ P[k + 1] # t
      BY <2>1, <2>8
    <3>3. P[k] <= P[k + 1] /\ P[k] \in Nat /\ P[k + 1] \in Nat /\ P[k + 1] <= new /\ last <= P[k]
      BY <2>3, <2>5, <3>2
    <3>4. QED
      BY <2>5, <3>2, <3>3
  <2>10. ASSUME NEW t \in DOMAIN date_map'
         PROVE  t \in Nat /\ t <= new /\ date_map'[t] \in Nat /\ date_map'[t] <= reward_index'
    <3>1. t \in Nat /\ t <= new
      BY <2>1, <2>3, <2>5, <2>6 DEF HistoryInv, last
    <3>2. CASE ClosedAt(t) # {}
      <4> DEFINE k == CHOOSE i \in ClosedAt(t) : TRUE
      <4>1. k \in ClosedAt(t) /\ date_map'[t] = RewardIndexAt(k)
        BY <2>7, <3>2
      <4>2. k \in 0 .. N
        BY <2>1, <2>8, <4>1
      <4>3. QED
        BY <2>4, <3>1, <4>1, <4>2
    <3>3. CASE ClosedAt(t) = {}
      <4>1. reward_index' \in Nat /\ reward_index <= reward_index'
        BY <2>1, <2>2, <2>4
      <4>2. QED
        BY <2>7, <3>1, <3>3, <4>1 DEF HistoryInv
    <3>4. QED
      BY <3>2, <3>3
  <2>11. new \in DOMAIN date_map' => date_map'[new] = 0
    <3> SUFFICES ASSUME new \in DOMAIN date_map' PROVE date_map'[new] = 0
      OBVIOUS
    <3>1. ClosedAt(new) = {}
      BY <2>5, <2>9
    <3>2. ASSUME new \in DOMAIN date_map PROVE date_map[new] = 0
      <4>1. new = last
        BY <2>5, <3>2 DEF HistoryInv, last
      <4>2. QED
        BY <3>2, <4>1 DEF HistoryInv, last
    <3>3. QED
      BY <2>7, <3>1, <3>2
  <2>12. ASSUME NEW t \in DOMAIN date_map, date_map[t] # 0
         PROVE  t \in DOMAIN date_map' /\ date_map'[t] = date_map[t]
    <3>1. t \in DOMAIN date_map'
      BY <2>6
    <3>2. t < last
      BY <2>12 DEF HistoryInv, last
    <3>3. ClosedAt(t) = {}
      BY <2>5, <2>9, <3>2 DEF HistoryInv
    <3>4. QED
      BY <2>7, <3>1, <3>3
  <2>13. reward_index' \in Nat /\ reward_index' >= reward_index
    BY <2>1, <2>2, <2>4
  <2>14. HistoryInv'
    BY <2>2, <2>5, <2>10, <2>11, <2>13 DEF HistoryInv
  <2>15. QED
    BY <2>12, <2>13, <2>14
<1>3. QED
  BY <1>1, <1>2

-----------------------------------------------------------------------------
(* The query of the reward *)

LEMMA PositionTypes ==
    ASSUME ClockInv, HistoryInv, BalanceInv, PowerInv, NEW u \in Users, NEW d \in Durations
    PROVE  /\ mint_time[<<u, d>>] \in Nat /\ last_claimed_time[<<u, d>>] \in Nat
           /\ mint_time[<<u, d>>] <= last_claimed_time[<<u, d>>] /\ mint_time[<<u, d>>] <= now
           /\ user_index[<<u, d>>] \in Nat /\ user_index[<<u, d>>] <= reward_index
           /\ actual_balance[<<u, d>>] \in Nat /\ pending_reward[<<u, d>>] \in Nat
<1>1. <<u, d>> \in Positions
  BY DEF Positions
<1>2. QED
  BY <1>1 DEF ClockInv, ClocksOrdered, HistoryInv, BalanceInv, PowerInv

\* The first date that may pay a position is less than one day before the
\* position and before the current date.
LEMMA RewardStartBounds ==
    ASSUME ClockInv, HistoryInv, BalanceInv, PowerInv, NEW u \in Users, NEW d \in Durations, cfg["day_factor"] > 0
    PROVE  /\ RewardStart(u, d) \in Int
           /\ \/ RewardStart(u, d) >= latest_syne_power_date - cfg["day_factor"]
              \/ RewardStart(u, d) >= mint_time[<<u, d>>] - cfg["day_factor"]
<1> DEFINE day == cfg["day_factor"]
           m == mint_time[<<u, d>>]
           l == latest_syne_power_date
           passed == IF l > m THEN (l - m) \div day ELSE 0
           aligned == l - day * passed
<1>1. day \in Nat \ {0} /\ m \in Nat /\ l \in Nat
  BY PositionTypes DEF ClockInv, ConfigFields
<1>2. RewardStart(u, d) = IF m < aligned THEN aligned - day ELSE aligned
  BY DEF RewardStart
<1> HIDE DEF day, m, l
<1>3. CASE l > m
  <2>1. (l - m) \div day \in Nat /\ m + day * ((l - m) \div day) <= l
    BY <1>1, <1>3, WholePeriods
  <2>2. day * ((l - m) \div day) \in Nat
    BY <1>1, <2>1
  <2>3. aligned \in Int /\ aligned >= m
    BY <1>1, <1>3, <2>1, <2>2
  <2>4. QED
    BY <1>1, <1>2, <2>3 DEF day, m, l
<1>4. CASE ~(l > m)
  <2>1. aligned = l
    BY <1>1, <1>4
  <2>2. QED
    BY <1>1, <1>2, <2>1 DEF day, m, l
<1>5. QED
  BY <1>3, <1>4

\* The dates are finitely many, and no index before a date passes the pool's.
LEMMA RewardDatesBounds ==
    ASSUME ClockInv, HistoryInv, BalanceInv, PowerInv, NEW u \in Users, NEW d \in Durations,
           cfg["day_factor"] > 0, RewardStart(u, d) >= 0
    PROVE  /\ IsFiniteSet(RewardDates(u, d)) /\ RewardDates(u, d) \subseteq DOMAIN date_map \intersect Nat
           /\ \A t : IndexBefore(u, d, t) \in Nat /\ IndexBefore(u, d, t) <= reward_index
<1> DEFINE dates == RewardDates(u, d)
           bound == RewardStart(u, d) + LockTime(d)
<1>1. bound \in Nat
  <2>1. RewardStart(u, d) \in Int
    BY RewardStartBounds
  <2>2. LockTime(d) \in Nat
    BY LockTimeType
  <2>3. QED
    BY <2>1, <2>2
<1>2. dates \in SUBSET Nat /\ \A t \in dates : t <= bound /\ t \in DOMAIN date_map
  BY DEF RewardDates, HistoryInv
<1> HIDE DEF bound, dates
<1>3. IsFiniteSet(dates)
  BY <1>1, <1>2, FS_BoundedSetOfNaturals
<1>4. ASSUME NEW t PROVE IndexBefore(u, d, t) \in Nat /\ IndexBefore(u, d, t) <= reward_index
  <2> DEFINE before == {s \in dates : s < t}
  <2>1. IndexBefore(u, d, t) = IF before = {} THEN user_index[<<u, d>>] ELSE date_map[Max(before)]
    BY DEF IndexBefore, dates
  <2>2. before \in SUBSET dates
    OBVIOUS
  <2> HIDE DEF before
  <2>3. IsFiniteSet(before) /\ before \subseteq Int
    <3>1. IsFiniteSet(before)
      BY <1>3, <2>2, FS_Subset
    <3>2. QED
      BY <1>2, <2>2, <3>1
  <2>4. CASE before = {}
    BY <2>1, <2>4, PositionTypes
  <2>5. CASE before # {}
    <3>1. Max(before) \in before
      BY <2>3, <2>5, MaxInSet
    <3>2. Max(before) \in DOMAIN date_map
      BY <1>2, <2>2, <3>1
    <3>3. QED
      BY <2>1, <2>5, <3>2 DEF HistoryInv
  <2>6. QED
    BY <2>4, <2>5
<1>5. QED
  BY <1>2, <1>3, <1>4 DEF dates

\* What a position is owed is a number when the query does not panic.
LEMMA OwedType ==
    ASSUME ClockInv, HistoryInv, BalanceInv, PowerInv, NEW u \in Users, NEW d \in Durations, QueryDefined(u, d)
    PROVE  Owed(u, d) \in Nat
<1> DEFINE dates == RewardDates(u, d)
           f == [t \in dates |-> DateReward(u, d, t)]
           day == cfg["day_factor"]
           lock == LockTime(d)
<1>1. day \in Nat \ {0} /\ RewardStart(u, d) >= 0 /\ lock \in Nat
  BY LockTimeType DEF QueryDefined, ClockInv, ConfigFields
<1>2. IsFiniteSet(dates) /\ dates \subseteq DOMAIN date_map \intersect Nat
  BY <1>1, RewardDatesBounds
<1>3. CASE last_claimed_time[<<u, d>>] >= last_distributed
  BY <1>3, PositionTypes DEF Owed, query_user_reward
<1>4. CASE ~(last_claimed_time[<<u, d>>] >= last_distributed)
  <2>1. ASSUME NEW t \in dates PROVE DateReward(u, d, t) \in Nat
    <3> DEFINE diff == IndexDiff(u, d, t)
               at == t + (last_claimed_time[<<u, d>>] % day)
               end == mint_time[<<u, d>>] + lock
    <3>1. /\ date_map[t] = 0 => IndexBefore(u, d, t) <= reward_index
          /\ at < end => lock > 0
      BY <1>4, <2>1 DEF QueryDefined
    <3>2. IndexBefore(u, d, t) \in Nat /\ date_map[t] \in Nat /\ reward_index \in Nat
      BY <1>1, <1>2, RewardDatesBounds DEF HistoryInv
    <3>3. diff \in Nat
      BY <3>1, <3>2 DEF IndexDiff
    <3>4. last_claimed_time[<<u, d>>] % day \in Nat
      BY <1>1, PositionTypes
    <3>5. at \in Nat /\ end \in Nat /\ actual_balance[<<u, d>>] \in Nat
      BY <1>1, <1>2, <3>4, PositionTypes
    <3>6. DateReward(u, d, t) = IF at < end THEN MulRatio(MulRatio(diff, actual_balance[<<u, d>>], 1), end - at, lock) ELSE 0
      BY DEF DateReward
    <3> HIDE DEF diff, at, end, lock
    <3>7. MulRatio(diff, actual_balance[<<u, d>>], 1) \in Nat
      <4>1. 1 \in Nat \ {0}
        OBVIOUS
      <4>2. QED
        BY <3>3, <3>5, <4>1, RatioType
    <3>8. CASE at < end
      <4>1. end - at \in Nat /\ lock \in Nat \ {0}
        BY <1>1, <3>1, <3>5, <3>8
      <4>2. QED
        BY <3>6, <3>7, <3>8, <4>1, RatioType
    <3>9. CASE ~(at < end)
      BY <3>6, <3>9
    <3>10. QED
      BY <3>8, <3>9
  <2>2. \A t \in dates : f[t] \in Nat
    BY <2>1
  <2>3. query_user_reward(u, d) = MulRatio(SumOver(f, dates), 1, REWARD_CALC_UNIT)
    BY <1>4 DEF query_user_reward
  <2> HIDE DEF f, dates
  <2>4. SumOver(f, dates) \in Nat
    BY <1>2, <2>2, SumNat
  <2>5. query_user_reward(u, d) \in Nat
    BY <2>3, <2>4, RatioType, UnitAssumption
  <2>6. QED
    BY <2>5, PositionTypes DEF Owed
<1>5. QED
  BY <1>3, <1>4

\* The query never panics when days are shorter than the time of instantiate
\* and locks are not empty.
LEMMA QueryPanicsNever == ClockInv /\ HistoryInv /\ BalanceInv /\ PowerInv /\ QueryInv => QueryNeverPanics
<1> SUFFICES ASSUME ClockInv, HistoryInv, BalanceInv, PowerInv, QueryInv, NEW u \in Users, NEW d \in Durations, HasStake(u, d)
             PROVE  QueryDefined(u, d)
  BY DEF QueryNeverPanics
<1>1. <<u, d>> \in Positions /\ StartTime \in Nat
  BY BoundsAssumption DEF Positions
<1>2. /\ cfg["day_factor"] > 0 /\ cfg["day_factor"] \in Nat /\ cfg["day_factor"] <= StartTime
      /\ StartTime <= mint_time[<<u, d>>] /\ StartTime <= latest_syne_power_date
  BY <1>1 DEF QueryInv, HasStake
<1>3. RewardStart(u, d) >= 0
  BY <1>1, <1>2, RewardStartBounds, PositionTypes DEF ClockInv
<1>4. \A t : IndexBefore(u, d, t) <= reward_index
  BY <1>2, <1>3, RewardDatesBounds
<1>5. LockTime(d) > 0
  BY LockTimeType DEF QueryInv
<1>6. QED
  BY <1>2, <1>3, <1>4, <1>5 DEF QueryDefined

-----------------------------------------------------------------------------
(* The remaining parts of the invariant *)

\* The transactions of the owners.
OwnerStep ==
    \E s \in Accounts :
        \/ \E amount \in RewardRates : UpdateReward(s, amount)
        \/ \E setting \in Settings : UpdateSetting(s, setting[1], setting[2])
        \/ \E flag \in FreezeFlags : UpdateFreezeFlag(s, flag)
        \/ \E d \in NewDurations : AddNewDuration(s, d)
        \/ \E new \in OwnerCandidates : UpdateConfig(s, new) \/ UpdateSecondOwner(s, new)

\* An owner touches no position, no history and no power.
LEMMA OwnerKeeps ==
    ASSUME OwnerStep
    PROVE  UNCHANGED <<now, clockVars, userVars, mintVars, tokenVars, reward_index, date_map>>
BY DEF OwnerStep, UpdateReward, UpdateSetting, UpdateFreezeFlag, AddNewDuration, UpdateConfig, UpdateSecondOwner,
       nonConfigVars, poolVars

LEMMA SettingsInit == Init => SettingsInv
BY DurationsAssumption DEF Init, SettingsInv, Accounts

LEMMA SettingsStep == SettingsInv /\ [Next]_vars => SettingsInv'
<1> SUFFICES ASSUME SettingsInv, [Next]_vars PROVE SettingsInv'
  OBVIOUS
<1>1. ASSUME UNCHANGED configVars PROVE SettingsInv'
  BY <1>1 DEF configVars, SettingsInv
<1>2. ASSUME NEW s \in Accounts, NEW setting \in Settings, UpdateSetting(s, setting[1], setting[2])
      PROVE  SettingsInv'
  BY <1>2 DEF UpdateSetting, SettingsInv
<1>3. ASSUME NEW s \in Accounts, NEW flag \in FreezeFlags, UpdateFreezeFlag(s, flag) PROVE SettingsInv'
  BY <1>3, ConfigAssumption DEF UpdateFreezeFlag, SettingsInv
<1>4. ASSUME NEW s \in Accounts, NEW d \in NewDurations, AddNewDuration(s, d) PROVE SettingsInv'
  <2>1. d \in Durations
    BY DurationsAssumption
  <2>2. Append(duration_values_vector, d) \in Seq(Durations)
    BY <2>1 DEF SettingsInv
  <2>3. QED
    BY <1>4, <2>2 DEF AddNewDuration, SettingsInv
<1>5. ASSUME NEW s \in Accounts, NEW new \in OwnerCandidates, UpdateConfig(s, new) \/ UpdateSecondOwner(s, new)
      PROVE  SettingsInv'
  BY <1>5, ConfigAssumption DEF UpdateConfig, UpdateSecondOwner, SettingsInv
<1>6. ASSUME \/ Tick
             \/ \E s \in Accounts, amount \in DepositAmounts : Deposit(s, amount)
             \/ \E u \in Users, amount \in StakeAmounts, d \in Durations : Stake(u, amount, d)
             \/ \E u \in Users, d \in Durations : Restake(u, d) \/ Unstake(u, d) \/ Claim(u, d)
             \/ Distribute
             \/ \E s \in Accounts, amount \in RewardRates : UpdateReward(s, amount)
             \/ UNCHANGED vars
      PROVE  UNCHANGED configVars
  <2>1. ASSUME NEW u \in Users, NEW amount \in StakeAmounts, NEW d \in Durations, Stake(u, amount, d)
        PROVE  UNCHANGED configVars
    BY <2>1 DEF Stake
  <2>2. ASSUME NEW u \in Users, NEW d \in Durations, Restake(u, d) \/ Unstake(u, d) \/ Claim(u, d)
        PROVE  UNCHANGED configVars
    BY <2>2 DEF Restake, Unstake, Claim
  <2>3. ASSUME NEW s \in Accounts, NEW amount, Deposit(s, amount) \/ UpdateReward(s, amount)
        PROVE  UNCHANGED configVars
    BY <2>3 DEF Deposit, UpdateReward
  <2>4. CASE Tick \/ Distribute \/ UNCHANGED vars
    BY <2>4 DEF Tick, Distribute, vars
  <2>5. QED
    BY <1>6, <2>1, <2>2, <2>3, <2>4
<1>7. QED
  BY <1>1, <1>2, <1>3, <1>4, <1>5, <1>6 DEF Next

\* execute_mint leaves the decayed power of the others and the new power of u.
LEMMA MintPower ==
    ASSUME ClockInv, BalanceInv, PowerInv, NEW u \in Users, NEW amount \in Nat, NEW d \in Durations,
           execute_mint(u, amount, d)
    PROVE  total_balance' \in [Durations -> Nat] /\ total_supply' \in Nat
<1> DEFINE prev == query_balance_by_duration(u, d)
           elapsed == now - total_mint_time[d]
           total == Decayed(total_balance[d], elapsed, d)
           old == actual_balance[<<u, d>>]
           minted == MintedTotal(u, d)
<1>1. <<u, d>> \in Positions /\ d \in Nat
  BY DurationsAssumption DEF Positions
<1>2. elapsed \in Nat /\ now - mint_time[<<u, d>>] \in Nat /\ old \in Nat
  BY <1>1 DEF ClockInv, ClocksOrdered, BalanceInv
<1>3. total_balance[d] \in Nat
  BY DEF PowerInv
<1>4. total \in Nat
  BY <1>2, <1>3, DecayedType
<1>5. prev \in Nat
  <2>1. Decayed(old, now - mint_time[<<u, d>>], d) \in Nat
    BY <1>2, DecayedType
  <2>2. QED
    BY <2>1 DEF query_balance_by_duration
<1>6. (minted.balance = total - prev + old /\ prev <= total) \/ minted.balance = total
  BY DEF MintedTotal, execute_mint
<1>7. /\ total_supply' = total_supply + amount * d
      /\ total_balance' = [total_balance EXCEPT ![d] = minted.balance + amount * d]
  BY DEF execute_mint
<1> HIDE DEF prev, total, old, minted, elapsed
<1>8. minted.balance \in Nat
  BY <1>2, <1>4, <1>5, <1>6
<1>9. amount * d \in Nat
  BY <1>1
<1>10. QED
  BY <1>7, <1>8, <1>9 DEF PowerInv

LEMMA PowerInit == Init => PowerInv
BY DEF Init, PowerInv

LEMMA PowerStep == ClockInv /\ FundsInv /\ BalanceInv /\ HistoryInv /\ PowerInv /\ [Next]_vars => PowerInv'
<1> SUFFICES ASSUME ClockInv, FundsInv, BalanceInv, HistoryInv, PowerInv, [Next]_vars PROVE PowerInv'
  OBVIOUS
<1>1. ASSUME UNCHANGED <<userVars, mintVars>> PROVE PowerInv'
  BY <1>1 DEF userVars, mintVars, PowerInv
<1>2. ASSUME NEW u \in Users, NEW amount \in StakeAmounts, NEW d \in Durations, Stake(u, amount, d)
      PROVE  PowerInv'
  <2> DEFINE r == IF HasStake(u, d) THEN Owed(u, d) ELSE pending_reward[<<u, d>>]
  <2>1. /\ amount \in Nat /\ <<u, d>> \in Positions /\ execute_mint(u, amount, d)
        /\ HasStake(u, d) => QueryDefined(u, d)
        /\ pending_reward' = [pending_reward EXCEPT ![<<u, d>>] = r]
    BY <1>2, BoundsAssumption DEF Stake, Positions
  <2>2. r \in Nat
    BY <2>1, OwedType DEF PowerInv
  <2> HIDE DEF r
  <2>3. total_balance' \in [Durations -> Nat] /\ total_supply' \in Nat
    BY <2>1, MintPower
  <2>4. QED
    BY <2>1, <2>2, <2>3 DEF PowerInv
<1>3. ASSUME NEW u \in Users, NEW d \in Durations, Restake(u, d) PROVE PowerInv'
  <2>1. /\ PayReward(Owed(u, d)) /\ execute_mint(u, Owed(u, d), d)
        /\ pending_reward' = [pending_reward EXCEPT ![<<u, d>>] = 0]
    BY <1>3 DEF Restake
  <2>2. Owed(u, d) \in Nat
    BY <2>1, PaymentType
  <2>3. total_balance' \in [Durations -> Nat] /\ total_supply' \in Nat
    BY <2>1, <2>2, MintPower
  <2>4. QED
    BY <2>1, <2>3 DEF PowerInv
<1>4. ASSUME NEW u \in Users, NEW d \in Durations, Unstake(u, d) \/ Claim(u, d) PROVE PowerInv'
  BY <1>4 DEF Unstake, Claim, mintVars, PowerInv
<1>5. ASSUME \/ Tick \/ Distribute \/ OwnerStep \/ UNCHANGED vars
             \/ \E s \in Accounts, amount \in DepositAmounts : Deposit(s, amount)
      PROVE  UNCHANGED <<userVars, mintVars>>
  BY <1>5, OwnerKeeps DEF Tick, Distribute, Deposit, vars
<1>6. QED
  BY <1>1, <1>2, <1>3, <1>4, <1>5 DEF Next, OwnerStep

LEMMA HistoryInit == Init => HistoryInv
BY BoundsAssumption DEF Init, HistoryInv

\* What one step may do to the history.
HistoryStep ==
    /\ HistoryInv'
    /\ reward_index' >= reward_index
    /\ \A t \in DOMAIN date_map : date_map[t] # 0 => t \in DOMAIN date_map' /\ date_map'[t] = date_map[t]

LEMMA HistorySteps ==
    ClockInv /\ FundsInv /\ SettingsInv /\ PowerInv /\ HistoryInv /\ [Next]_vars => HistoryStep
<1> SUFFICES ASSUME ClockInv, FundsInv, SettingsInv, PowerInv, HistoryInv, [Next]_vars PROVE HistoryStep
  OBVIOUS
<1>1. ASSUME UNCHANGED <<reward_index, date_map, last_syne_power_date>>,
             \/ user_index' = user_index
             \/ \E p \in Positions, i \in {0, reward_index} : user_index' = [user_index EXCEPT ![p] = i]
      PROVE  HistoryStep
  <2>1. user_index' \in [Positions -> Nat] /\ \A p \in Positions : user_index'[p] <= reward_index
    BY <1>1 DEF HistoryInv
  <2>2. QED
    BY <1>1, <2>1 DEF HistoryInv, HistoryStep
<1>2. CASE Distribute
  BY <1>2, DistributeHistory DEF HistoryStep
<1>3. ASSUME NEW u \in Users, NEW amount \in StakeAmounts, NEW d \in Durations, Stake(u, amount, d)
      PROVE  HistoryStep
  BY <1>1, <1>3 DEF Stake, poolVars, Positions
<1>4. ASSUME NEW u \in Users, NEW d \in Durations, Restake(u, d) \/ Unstake(u, d) \/ Claim(u, d)
      PROVE  HistoryStep
  BY <1>1, <1>4 DEF Restake, Unstake, Claim, clockVars, Positions
<1>5. ASSUME \/ Tick \/ OwnerStep \/ UNCHANGED vars
             \/ \E s \in Accounts, amount \in DepositAmounts : Deposit(s, amount)
      PROVE  UNCHANGED <<reward_index, date_map, last_syne_power_date, user_index>>
  BY <1>5, OwnerKeeps DEF Tick, Deposit, vars, clockVars, poolVars, userVars
<1>6. QED
  BY <1>1, <1>2, <1>3, <1>4, <1>5 DEF Next, OwnerStep

LEMMA QueryInit == SaneSettings /\ Init => QueryInv
BY BoundsAssumption DEF SaneSettings, Init, QueryInv

\* A mint stamps the position with the block time.
LEMMA MintQuery ==
    ASSUME ClockInv, BalanceInv, QueryInv, NEW u \in Users, NEW amount, NEW d \in Durations,
           execute_mint(u, amount, d), UNCHANGED <<now, cfg>>,
           latest_syne_power_date' >= StartTime
    PROVE  QueryInv'
<1>1. /\ actual_balance' = [actual_balance EXCEPT ![<<u, d>>] = @ + amount * d]
      /\ mint_time' = [mint_time EXCEPT ![<<u, d>>] = now]
  BY DEF execute_mint
<1>2. ASSUME NEW p \in Positions, actual_balance'[p] > 0 PROVE StartTime <= mint_time'[p]
  <2>1. CASE p = <<u, d>>
    BY <1>1, <2>1 DEF ClockInv, QueryInv
  <2>2. CASE p # <<u, d>>
    BY <1>1, <1>2, <2>2 DEF ClockInv, BalanceInv, QueryInv
  <2>3. QED
    BY <2>1, <2>2
<1>3. QED
  BY <1>2 DEF QueryInv

LEMMA QueryStep == SaneSettings /\ ClockInv /\ BalanceInv /\ QueryInv /\ [Next]_vars => QueryInv'
<1> SUFFICES ASSUME SaneSettings, ClockInv, BalanceInv, QueryInv, [Next]_vars PROVE QueryInv'
  OBVIOUS
<1>1. LatestPowerDate >= StartTime
  <2> DEFINE day == cfg["day_factor"]
             l == latest_syne_power_date
  <2>1. day \in Nat \ {0} /\ l \in Nat /\ l <= now /\ now \in Nat /\ StartTime \in Nat /\ StartTime <= l
    BY BoundsAssumption DEF ClockInv, ClocksOrdered, QueryInv, ConfigFields
  <2> HIDE DEF day, l
  <2>2. (now - l) \div day \in Nat
    BY <2>1, WholePeriods
  <2>3. day * ((now - l) \div day) \in Nat
    BY <2>1, <2>2
  <2>4. QED
    BY <2>1, <2>3 DEF LatestPowerDate, day, l
<1>2. ASSUME NEW u \in Users, NEW amount \in StakeAmounts, NEW d \in Durations, Stake(u, amount, d)
      PROVE  QueryInv'
  <2>1. execute_mint(u, amount, d) /\ UNCHANGED <<now, cfg>> /\ latest_syne_power_date' = LatestPowerDate
    BY <1>2 DEF Stake, configVars
  <2>2. QED
    BY <1>1, <2>1, MintQuery
<1>3. ASSUME NEW u \in Users, NEW d \in Durations, Restake(u, d) PROVE QueryInv'
  <2>1. execute_mint(u, Owed(u, d), d) /\ UNCHANGED <<now, cfg, latest_syne_power_date>>
    BY <1>3 DEF Restake, configVars, clockVars
  <2>2. latest_syne_power_date' >= StartTime
    BY <2>1, BoundsAssumption DEF QueryInv, ClockInv
  <2>3. QED
    BY <2>1, <2>2, MintQuery
<1>4. ASSUME NEW u \in Users, NEW d \in Durations, Unstake(u, d) PROVE QueryInv'
  <2>1. /\ actual_balance' = [actual_balance EXCEPT ![<<u, d>>] = 0]
        /\ mint_time' = [mint_time EXCEPT ![<<u, d>>] = 0]
        /\ UNCHANGED <<now, cfg, latest_syne_power_date>>
    BY <1>4 DEF Unstake, configVars, clockVars
  <2>2. ASSUME NEW p \in Positions, actual_balance'[p] > 0 PROVE StartTime <= mint_time'[p]
    BY <2>1, <2>2 DEF BalanceInv, ClockInv, QueryInv
  <2>3. QED
    BY <2>1, <2>2 DEF QueryInv
<1>5. ASSUME UNCHANGED <<actual_balance, mint_time>>, now' \in {now, now + 1},
             cfg' = cfg, latest_syne_power_date' \in {LatestPowerDate, latest_syne_power_date}
      PROVE  QueryInv'
  BY <1>1, <1>5, BoundsAssumption DEF QueryInv, ClockInv
<1>6. ASSUME NEW s \in Accounts, NEW setting \in Settings, UpdateSetting(s, setting[1], setting[2])
      PROVE  QueryInv'
  <2>1. setting[1] \in ConfigFields /\ setting[2] \in Nat /\ "day_factor" \in ConfigFields /\ "lock_time_frame" \in ConfigFields
    BY ConfigAssumption DEF ConfigFields
  <2>2. /\ cfg' = [cfg EXCEPT ![setting[1]] = setting[2]]
        /\ UNCHANGED <<now, latest_syne_power_date, actual_balance, mint_time>>
    BY <1>6 DEF UpdateSetting, nonConfigVars, clockVars, userVars
  <2>3. cfg'["day_factor"] \in 1 .. StartTime /\ cfg'["lock_time_frame"] > 0
    BY <2>1, <2>2 DEF ClockInv, QueryInv, SaneSettings
  <2>4. QED
    BY <2>2, <2>3 DEF QueryInv
<1>7. ASSUME NEW u \in Users, NEW d \in Durations, Claim(u, d) PROVE QueryInv'
  BY <1>5, <1>7 DEF Claim, configVars, clockVars
<1>8. CASE Distribute
  BY <1>5, <1>8 DEF Distribute, configVars, userVars
<1>9. ASSUME Tick \/ UNCHANGED vars \/ \E s \in Accounts, amount \in DepositAmounts : Deposit(s, amount)
      PROVE  QueryInv'
  BY <1>5, <1>9 DEF Tick, Deposit, vars, configVars, clockVars, userVars
<1>10. ASSUME NEW s \in Accounts,
             \/ \E amount \in RewardRates : UpdateReward(s, amount)
             \/ \E flag \in FreezeFlags : UpdateFreezeFlag(s, flag)
             \/ \E d \in NewDurations : AddNewDuration(s, d)
             \/ \E new \in OwnerCandidates : UpdateConfig(s, new) \/ UpdateSecondOwner(s, new)
      PROVE  QueryInv'
  <2>1. UNCHANGED <<actual_balance, mint_time, now, cfg, latest_syne_power_date>>
    BY <1>10 DEF UpdateReward, UpdateFreezeFlag, AddNewDuration, UpdateConfig, UpdateSecondOwner,
                 configVars, nonConfigVars, clockVars, userVars
  <2>2. QED
    BY <1>5, <2>1
<1>11. QED
  BY <1>2, <1>3, <1>4, <1>6, <1>7, <1>8, <1>9, <1>10 DEF Next

-----------------------------------------------------------------------------
(* The theorems on the ledgers *)

\* Everything but the settings the query depends on.
BooksInv == ClockInv /\ FundsInv /\ BalanceInv /\ SettingsInv /\ PowerInv /\ HistoryInv /\ LedgerInv

LEMMA BooksInit == Init => BooksInv
BY ClockInit, FundsInit, BalanceInit, SettingsInit, PowerInit, HistoryInit, LedgerInit DEF BooksInv

LEMMA BooksStep == BooksInv /\ [Next]_vars => BooksInv' /\ LedgerStep /\ HistoryStep
<1> SUFFICES ASSUME BooksInv, [Next]_vars PROVE BooksInv' /\ LedgerStep /\ HistoryStep
  OBVIOUS
<1>1. ClockInv' /\ FundsInv' /\ SettingsInv' /\ PowerInv' /\ HistoryStep
  BY ClockStep, FundsStep, SettingsStep, PowerStep, HistorySteps DEF BooksInv
<1>2. BalanceInv'
  BY BalanceSteps DEF BooksInv, BalanceStep
<1>3. LedgerStep
  BY <1>1, <1>2, LedgerSteps DEF BooksInv
<1>4. QED
  BY <1>1, <1>2, <1>3 DEF BooksInv, HistoryStep, LedgerStep

LEMMA BooksSound == BooksInv => TypeOK /\ Solvent /\ StakeLedger
BY DEF BooksInv, ClockInv, FundsInv, BalanceInv, SettingsInv, PowerInv, HistoryInv, LedgerInv, TypeOK

\* Whatever the owner sets, the contract holds exactly the deposited reward and
\* the principal, and every duration's total is the sum of its positions.
THEOREM BooksAlwaysAgree == Spec => [](TypeOK /\ Solvent /\ StakeLedger)
BY BooksInit, BooksStep, BooksSound, PTL DEF Spec

\* With sane owner settings the query of the reward also never panics, so every
\* position can be settled.
THEOREM LedgersAlwaysSound ==
    ASSUME SaneSettings
    PROVE  Spec => []LedgersSound
<1>1. Init => BooksInv /\ QueryInv
  BY BooksInit, QueryInit
<1>2. BooksInv /\ QueryInv /\ [Next]_vars => (BooksInv /\ QueryInv)'
  BY BooksStep, QueryStep DEF BooksInv
<1>3. BooksInv /\ QueryInv => LedgersSound
  BY BooksSound, QueryPanicsNever DEF BooksInv, LedgersSound
<1>4. QED
  BY <1>1, <1>2, <1>3, PTL DEF Spec

\* No step loses principal, and no step rewrites the index of a closed date or
\* lowers the index.
THEOREM PastIsKept == Spec => PastKept
<1>1. LedgerStep => [\A u \in Users : Wealth(u)' >= Wealth(u) \/ wallet[u]' - wallet[u] = total_reward_in_contract
                                                                             - total_reward_in_contract']_vars
  BY DEF LedgerStep
<1>2. HistoryStep =>
        [/\ reward_index' >= reward_index
         /\ \A t \in DOMAIN date_map : date_map[t] # 0 => t \in DOMAIN date_map' /\ date_map'[t] = date_map[t]]_vars
  BY DEF HistoryStep
<1>3. QED
  BY BooksInit, BooksStep, <1>1, <1>2, PTL DEF Spec, PastKept, NoLossOfPrincipal, ClosedDatesAreFinal

=============================================================================
