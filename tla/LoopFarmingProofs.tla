-------------------------- MODULE LoopFarmingProofs --------------------------
(***************************************************************************)
(* Theorems about LoopFarming, for every set of users, pools and reward    *)
(* tokens, every course of the rewards of the farm and every fee.          *)
(***************************************************************************)
EXTENDS LoopFarming, SumTheorems

\* A token that the farm does not pay in a pool has left no trace there.
TokensInv ==
    /\ distribution \in [Pools -> SUBSET Tokens]
    /\ \A p \in Pools, t \in Tokens : t \notin distribution[p] =>
           /\ farm_pending[<<p, t>>] = 0 /\ pending_rewards[<<p, t>>] = 0
           /\ \A u \in Users : reward_info[<<u, <<p, t>>>>] = NoInfo

\* Nothing was earned before the first stake, and the last stake stays.
FirstStakeInv == \A p \in Pools, t \in Tokens : total_staked[p] = 0 => rewards_weight[<<p, t>>] = 0

\* What u has earned of the booked rewards, in units of 1/Unit.
Earned(u, p, t) ==
    IF reward_info[<<u, <<p, t>>>>] = NoInfo THEN 0
    ELSE reward_info[<<u, <<p, t>>>>].pending_reward * Unit
         + (rewards_weight[<<p, t>>] - reward_info[<<u, <<p, t>>>>].pool_reward_weight) * user_staked[<<u, p>>]

EarnedBy(p, t) == [u \in Users |-> Earned(u, p, t)]

EarnedIn(t) == [p \in Pools |-> SumOver(EarnedBy(p, t), Users)]

Snapshot(t) == [p \in Pools |-> pending_rewards[<<p, t>>]]

\* The booked rewards are covered before anything is rounded.
EarnedCovered ==
    \A t \in Tokens :
        treasury_rewards[t] * Unit + SumOver(EarnedIn(t), Pools) <= (held[t] + SumOver(Snapshot(t), Pools)) * Unit

\* A pool with stakes is listed.
ListedInv == \A p \in Pools : total_staked[p] > 0 => stakeable[p] # NotListed

FarmInv ==
    /\ TypeOK /\ TokensInv /\ NoUnderflow /\ FirstStakeInv /\ ListedInv
    /\ StakesAgree /\ RewardsAccounted /\ EarnedCovered

-----------------------------------------------------------------------------
(* Arithmetic *)

LEMMA Quotient ==
    ASSUME NEW x \in Nat, NEW d \in Nat \ {0}
    PROVE  x \div d \in Nat /\ (x \div d) * d <= x
OBVIOUS

LEMMA QuotientGrows ==
    ASSUME NEW x \in Nat, NEW y \in Nat, NEW d \in Nat \ {0}, x <= y
    PROVE  x \div d <= y \div d
<1> DEFINE a == x \div d
           b == y \div d
<1>1. a \in Nat /\ b \in Nat /\ a * d <= x /\ y < b * d + d
  OBVIOUS
<1> HIDE DEF a, b
<1>2. ASSUME a > b PROVE FALSE
  <2>1. PICK c \in Nat : a = b + 1 + c
    BY <1>1, <1>2
  <2>2. a * d = b * d + d + c * d /\ c * d \in Nat /\ b * d \in Nat
    BY <1>1, <2>1
  <2>3. QED
    BY <1>1, <2>2
<1>3. QED
  BY <1>1, <1>2 DEF a, b

LEMMA ProductGrows ==
    ASSUME NEW x \in Nat, NEW y \in Nat, NEW k \in Nat, x <= y
    PROVE  x * k \in Nat /\ y * k \in Nat /\ x * k <= y * k
<1>1. PICK c \in Nat : y = x + c
  BY SMT
<1>2. y * k = x * k + c * k /\ c * k \in Nat /\ x * k \in Nat
  BY <1>1
<1>3. QED
  BY <1>2

LEMMA ProductCancels ==
    ASSUME NEW x \in Nat, NEW y \in Nat, NEW k \in Nat \ {0}, x * k <= y * k
    PROVE  x <= y
<1>1. ASSUME x > y PROVE FALSE
  <2>1. PICK c \in Nat : x = y + 1 + c
    BY <1>1
  <2>2. x * k = y * k + k + c * k /\ c * k \in Nat /\ y * k \in Nat
    BY <2>1
  <2>3. QED
    BY <2>2
<1>2. QED
  BY <1>1

LEMMA ProductSigns ==
    ASSUME NEW x \in Nat, NEW k \in Nat, NEW c \in Int, c = -k
    PROVE  k * x = x * k /\ c * x = -(x * k) /\ x * k \in Nat
OBVIOUS

LEMMA ProductSums ==
    ASSUME NEW x \in Nat, NEW y \in Nat, NEW k \in Nat
    PROVE  (x + y) * k = x * k + y * k /\ (x - y) * k = x * k - y * k
OBVIOUS

\* The fee leaves at most the reward, and more of a larger one.
LEMMA NetBounds ==
    ASSUME TypeOK, treasury_fee <= fee_multiplier, NEW r \in Nat
    PROVE  NetOf(r) \in Nat /\ NetOf(r) <= r
<1> DEFINE k == fee_multiplier - treasury_fee
           m == fee_multiplier
<1>1. k \in Nat /\ m \in Nat \ {0} /\ k <= m
  BY FarmAssumption DEF TypeOK
<1> HIDE DEF k, m
<1>2. r * k \in Nat /\ r * m \in Nat /\ r * k <= r * m
  <2>1. k * r \in Nat /\ m * r \in Nat /\ k * r <= m * r
    BY <1>1, ProductGrows
  <2>2. QED
    BY <1>1, <2>1
<1> DEFINE q == (r * k) \div m
<1>3. q \in Nat /\ q * m <= r * k
  BY <1>1, <1>2, Quotient
<1> HIDE DEF q
<1>4. q * m <= r * m /\ q * m \in Nat
  BY <1>1, <1>2, <1>3
<1>5. ASSUME q > r PROVE FALSE
  <2>1. PICK c \in Nat : q = r + 1 + c
    BY <1>3, <1>5
  <2>2. q * m = r * m + m + c * m /\ c * m \in Nat
    BY <1>1, <2>1
  <2>3. QED
    BY <1>1, <1>2, <1>4, <2>2
<1>6. NetOf(r) = q
  BY DEF NetOf, q, k, m
<1>7. QED
  BY <1>3, <1>5, <1>6

LEMMA NetGrows ==
    ASSUME TypeOK, treasury_fee <= fee_multiplier, NEW r \in Nat, NEW s \in Nat, r <= s
    PROVE  NetOf(r) <= NetOf(s)
<1> DEFINE k == fee_multiplier - treasury_fee
<1>1. k \in Nat /\ fee_multiplier \in Nat \ {0}
  BY FarmAssumption DEF TypeOK
<1>2. r * k \in Nat /\ s * k \in Nat /\ r * k <= s * k
  BY <1>1, ProductGrows
<1>3. (r * k) \div fee_multiplier <= (s * k) \div fee_multiplier
  BY <1>1, <1>2, QuotientGrows
<1>4. QED
  BY <1>3 DEF NetOf

-----------------------------------------------------------------------------
(* Rewards *)

\* The farm adds rewards of the tokens it pays.
Pays(pending) ==
    /\ pending \in [PoolTokens -> Nat]
    /\ \A p \in Pools, t \in Tokens :
           /\ farm_pending[<<p, t>>] <= pending[<<p, t>>]
           /\ t \notin distribution[p] => pending[<<p, t>>] = farm_pending[<<p, t>>]

LEMMA FarmPays ==
    ASSUME TypeOK, NEW pending \in DistributeByLimit
    PROVE  Pays(pending)
<1>1. CASE pending = farm_pending
  BY <1>1 DEF Pays, TypeOK, PoolTokens
<1>2. ASSUME NEW y \in PoolTokens, NEW r \in Rewards, y[2] \in distribution[y[1]],
             pending = [farm_pending EXCEPT ![y] = @ + r]
      PROVE  Pays(pending)
  <2>1. r \in Nat /\ farm_pending[y] \in Nat
    BY FarmAssumption DEF TypeOK
  <2>2. pending \in [PoolTokens -> Nat]
    BY <1>2, <2>1 DEF TypeOK
  <2>3. ASSUME NEW p \in Pools, NEW t \in Tokens
        PROVE  /\ farm_pending[<<p, t>>] <= pending[<<p, t>>]
               /\ t \notin distribution[p] => pending[<<p, t>>] = farm_pending[<<p, t>>]
    <3>1. <<p, t>> \in PoolTokens /\ farm_pending[<<p, t>>] \in Nat
      BY DEF PoolTokens, TypeOK
    <3>2. CASE y = <<p, t>>
      BY <1>2, <2>1, <3>1, <3>2 DEF TypeOK
    <3>3. CASE y # <<p, t>>
      BY <1>2, <2>1, <3>1, <3>3 DEF TypeOK
    <3>4. QED
      BY <3>2, <3>3
  <2>4. QED
    BY <2>2, <2>3 DEF Pays
<1>3. QED
  <2>1. CASE pending # farm_pending
    <3>1. PICK x \in PoolTokens \X Rewards :
            x[1][2] \in distribution[x[1][1]] /\ pending = [farm_pending EXCEPT ![x[1]] = @ + x[2]]
      BY <2>1 DEF DistributeByLimit
    <3>2. QED
      BY <1>2, <3>1
  <2>2. QED
    BY <1>1, <2>1

\* The weight a reward adds to each staked token.
Added(pending, p, t) == Weight(pending, p, t) - rewards_weight[<<p, t>>]

LEMMA WeightBounds ==
    ASSUME TypeOK, NoUnderflow, NEW pending, Pays(pending), NEW p \in Pools, NEW t \in Tokens
    PROVE  /\ Fresh(pending, p, t) \in Nat /\ rewards_weight[<<p, t>>] \in Nat
           /\ Weight(pending, p, t) \in Nat /\ Added(pending, p, t) \in Nat
           /\ Weight(pending, p, t) = rewards_weight[<<p, t>>] + Added(pending, p, t)
           /\ total_staked[p] = 0 => Added(pending, p, t) = 0
           /\ Added(pending, p, t) * total_staked[p] <= Fresh(pending, p, t) * Unit
<1> DEFINE n == total_staked[p]
           r == rewards_weight[<<p, t>>]
           d == Fresh(pending, p, t)
           q == (d * Unit) \div n
<1>1. <<p, t>> \in PoolTokens /\ n \in Nat /\ r \in Nat /\ Unit \in Nat \ {0}
  BY FarmAssumption DEF PoolTokens, TypeOK
<1>2. d \in Nat
  <2>1. Fresh(farm_pending, p, t) >= 0
    BY DEF NoUnderflow
  <2>2. pending[<<p, t>>] \in Nat /\ farm_pending[<<p, t>>] \in Nat /\ farm_pending[<<p, t>>] <= pending[<<p, t>>]
    BY <1>1 DEF Pays, TypeOK
  <2>3. pending_rewards[<<p, t>>] \in Nat
    BY <1>1 DEF TypeOK
  <2>4. QED
    BY <2>1, <2>2, <2>3 DEF Fresh
<1>3. Weight(pending, p, t) = r + IF n = 0 THEN 0 ELSE q
  BY DEF Weight, FromRatio
<1> HIDE DEF n, r, d
<1>4. d * Unit \in Nat
  BY <1>1, <1>2
<1>5. CASE n = 0
  BY <1>1, <1>2, <1>3, <1>4, <1>5 DEF Added, n, r, d
<1>6. CASE n # 0
  <2>1. q \in Nat /\ q * n <= d * Unit
    BY <1>1, <1>4, <1>6, Quotient
  <2> HIDE DEF q
  <2>2. Weight(pending, p, t) = r + q /\ Added(pending, p, t) = q
    BY <1>1, <1>3, <1>6, <2>1 DEF Added, r
  <2>3. QED
    BY <1>1, <1>2, <1>6, <2>1, <2>2 DEF n, r, d
<1>7. QED
  BY <1>5, <1>6

LEMMA WeightGrows ==
    ASSUME TypeOK, NoUnderflow, NEW pending, Pays(pending), NEW p \in Pools, NEW t \in Tokens
    PROVE  Weight(farm_pending, p, t) \in Nat /\ Weight(farm_pending, p, t) <= Weight(pending, p, t)
<1> DEFINE n == total_staked[p]
           r == rewards_weight[<<p, t>>]
           c == Fresh(farm_pending, p, t)
           d == Fresh(pending, p, t)
<1>0. Pays(farm_pending)
  BY DEF Pays, TypeOK, PoolTokens
<1>1. c \in Nat /\ d \in Nat /\ r \in Nat /\ Weight(farm_pending, p, t) \in Nat
  BY <1>0, WeightBounds
<1>2. c <= d
  <2>1. pending[<<p, t>>] \in Nat /\ farm_pending[<<p, t>>] \in Nat /\ farm_pending[<<p, t>>] <= pending[<<p, t>>]
    BY DEF Pays, TypeOK, PoolTokens
  <2>2. pending_rewards[<<p, t>>] \in Nat
    BY DEF TypeOK, PoolTokens
  <2>3. QED
    BY <2>1, <2>2 DEF Fresh
<1>3. n \in Nat /\ Unit \in Nat \ {0}
  BY FarmAssumption DEF TypeOK
<1>4. /\ Weight(farm_pending, p, t) = r + IF n = 0 THEN 0 ELSE (c * Unit) \div n
      /\ Weight(pending, p, t) = r + IF n = 0 THEN 0 ELSE (d * Unit) \div n
  BY DEF Weight, FromRatio
<1> HIDE DEF n, r, c, d
<1>5. c * Unit \in Nat /\ d * Unit \in Nat /\ c * Unit <= d * Unit
  BY <1>1, <1>2, <1>3, ProductGrows
<1>6. n # 0 => (c * Unit) \div n <= (d * Unit) \div n /\ (c * Unit) \div n \in Nat /\ (d * Unit) \div n \in Nat
  BY <1>3, <1>5, QuotientGrows, Quotient
<1>7. QED
  BY <1>1, <1>3, <1>4, <1>6

\* A user is due what was earned and the share of the fresh rewards, rounded down.
LEMMA DueBounds ==
    ASSUME TypeOK, NoUnderflow, NEW pending, Pays(pending), NEW u \in Users, NEW p \in Pools, NEW t \in Tokens
    PROVE  /\ Due(u, p, t, pending) \in Nat /\ Earned(u, p, t) \in Nat /\ user_staked[<<u, p>>] \in Nat
           /\ Due(u, p, t, pending) * Unit <= Earned(u, p, t) + Added(pending, p, t) * user_staked[<<u, p>>]
           /\ reward_info[<<u, <<p, t>>>>] = NoInfo => Due(u, p, t, pending) = 0
<1> DEFINE info == reward_info[<<u, <<p, t>>>>]
           w == Weight(pending, p, t)
           k == Added(pending, p, t)
           r == rewards_weight[<<p, t>>]
           n == user_staked[<<u, p>>]
<1>1. n \in Nat /\ Unit \in Nat \ {0} /\ info \in RewardInfo \union {NoInfo}
  BY FarmAssumption DEF TypeOK, Positions, PoolTokens
<1>2. w \in Nat /\ k \in Nat /\ r \in Nat /\ w = r + k
  BY WeightBounds
<1>3. info.pool_reward_weight <= r
  BY DEF NoUnderflow
<1>4. k * n \in Nat
  BY <1>1, <1>2
<1>5. CASE info = NoInfo
  <2>1. InfoOf(u, p, t, w) = [pool_reward_weight |-> w, pending_reward |-> 0]
    BY <1>5 DEF InfoOf
  <2>2. Due(u, p, t, pending) = 0 + ((w - w) * n) \div Unit
    BY <2>1 DEF Due
  <2> HIDE DEF w, n, k
  <2>3. (w - w) * n = 0
    BY <1>1, <1>2
  <2>4. 0 \div Unit = 0
    BY <1>1
  <2>5. Due(u, p, t, pending) = 0
    BY <2>2, <2>3, <2>4
  <2>6. Earned(u, p, t) = 0
    BY <1>5 DEF Earned
  <2>7. QED
    BY <1>1, <1>4, <2>5, <2>6 DEF n, k
<1>6. CASE info # NoInfo
  <2> DEFINE a == info.pending_reward
             v == info.pool_reward_weight
             x == (w - v) * n
             e == (r - v) * n
  <2>1. a \in Nat /\ v \in Nat
    BY <1>1, <1>6 DEF RewardInfo
  <2>2. Due(u, p, t, pending) = a + x \div Unit
    BY <1>6 DEF Due, InfoOf
  <2>3. Earned(u, p, t) = a * Unit + e
    BY <1>6 DEF Earned
  <2>4. v <= r
    BY <1>3
  <2> HIDE DEF a, v, w, n, k, r, info
  <2>5. r - v \in Nat /\ e \in Nat /\ x = e + k * n
    <3>1. r - v \in Nat /\ w - v = (r - v) + k
      BY <1>2, <2>1, <2>4
    <3>2. ((r - v) + k) * n = (r - v) * n + k * n
      BY <1>1, <1>2, <3>1
    <3>3. QED
      BY <1>1, <3>1, <3>2
  <2> HIDE DEF e, x
  <2>6. x \in Nat /\ x \div Unit \in Nat /\ (x \div Unit) * Unit <= x
    BY <1>1, <1>4, <2>5, Quotient
  <2>7. (a + x \div Unit) * Unit = a * Unit + (x \div Unit) * Unit /\ a * Unit \in Nat
    BY <1>1, <2>1, <2>6
  <2>8. Due(u, p, t, pending) \in Nat /\ Earned(u, p, t) \in Nat
    BY <2>1, <2>2, <2>3, <2>5, <2>6, <2>7
  <2>9. Due(u, p, t, pending) * Unit <= Earned(u, p, t) + k * n
    BY <1>1, <1>4, <2>1, <2>2, <2>3, <2>5, <2>6, <2>7
  <2>10. QED
    BY <1>1, <1>6, <2>8, <2>9 DEF n, k, info
<1>7. QED
  BY <1>5, <1>6

LEMMA DueGrows ==
    ASSUME TypeOK, NoUnderflow, NEW pending, Pays(pending), NEW u \in Users, NEW p \in Pools, NEW t \in Tokens
    PROVE  Due(u, p, t, farm_pending) \in Nat /\ Due(u, p, t, farm_pending) <= Due(u, p, t, pending)
<1> DEFINE info == reward_info[<<u, <<p, t>>>>]
           c == Weight(farm_pending, p, t)
           w == Weight(pending, p, t)
           n == user_staked[<<u, p>>]
<1>0. Pays(farm_pending)
  BY DEF Pays, TypeOK, PoolTokens
<1>1. n \in Nat /\ Unit \in Nat \ {0} /\ info \in RewardInfo \union {NoInfo}
  BY FarmAssumption DEF TypeOK, Positions, PoolTokens
<1>2. c \in Nat /\ w \in Nat /\ c <= w
  BY WeightBounds, WeightGrows
<1>3. rewards_weight[<<p, t>>] \in Nat /\ rewards_weight[<<p, t>>] <= c
  <2>1. c = rewards_weight[<<p, t>>] + Added(farm_pending, p, t) /\ Added(farm_pending, p, t) \in Nat
    BY <1>0, WeightBounds
  <2>2. rewards_weight[<<p, t>>] \in Nat
    BY WeightBounds
  <2>3. QED
    BY <2>1, <2>2
<1>4. Due(u, p, t, farm_pending) \in Nat /\ Due(u, p, t, pending) \in Nat
  BY <1>0, DueBounds
<1>5. CASE info = NoInfo
  <2>1. Due(u, p, t, farm_pending) = 0
    BY <1>0, <1>5, DueBounds
  <2>2. QED
    BY <1>4, <2>1
<1>6. CASE info # NoInfo
  <2> DEFINE a == info.pending_reward
             v == info.pool_reward_weight
             x == (c - v) * n
             y == (w - v) * n
  <2>1. a \in Nat /\ v \in Nat
    BY <1>1, <1>6 DEF RewardInfo
  <2>2. Due(u, p, t, farm_pending) = a + x \div Unit /\ Due(u, p, t, pending) = a + y \div Unit
    BY <1>6 DEF Due, InfoOf
  <2>3. v <= rewards_weight[<<p, t>>]
    BY DEF NoUnderflow
  <2> HIDE DEF a, v, w, c, n, info
  <2>4. c - v \in Nat /\ w - v \in Nat /\ c - v <= w - v
    BY <1>2, <1>3, <2>1, <2>3
  <2>5. x \in Nat /\ y \in Nat /\ x <= y
    BY <1>1, <2>4, ProductGrows
  <2> HIDE DEF x, y
  <2>6. x \div Unit <= y \div Unit /\ x \div Unit \in Nat /\ y \div Unit \in Nat
    BY <1>1, <2>5, QuotientGrows, Quotient
  <2>7. QED
    BY <1>4, <2>1, <2>2, <2>6
<1>7. QED
  BY <1>5, <1>6

-----------------------------------------------------------------------------
(* Steps *)

Modes == {"pay", "keep"}

\* Stake, unstake and claim settle the rewards of u in p; the last two also pay them.
Settles(u, p, pending, m) ==
    /\ Pays(pending)
    /\ BookRewards(p, pending, [x \in PoolTokens |-> IF x[1] = p THEN farm_pending'[x] ELSE pending_rewards[x]])
    /\ farm_pending' = IF m = "pay" THEN Emptied(pending, p) ELSE pending
    /\ reward_info' = SettledInfos(u, p, pending, m = "pay")
    /\ IF m = "pay" THEN PayRewards(u, p, pending) ELSE UNCHANGED <<treasury_rewards, wallet, held>>
    /\ UNCHANGED <<distribution, treasury_fee, stakeable>>

\* Between them the stake of u in p changes and no other one.
Restakes(u, p) ==
    /\ user_staked' \in [Positions -> Nat] /\ total_staked' \in [Pools -> Nat]
    /\ lp' \in [Positions -> Nat] /\ farm_staked' \in [Pools -> Nat]
    /\ \A v \in Users, q \in Pools : <<v, q>> # <<u, p>> => user_staked'[<<v, q>>] = user_staked[<<v, q>>]
    /\ \A q \in Pools : /\ q # p => total_staked'[q] = total_staked[q]
                        /\ total_staked'[q] = 0 => total_staked[q] = 0
    /\ StakesAgree'
    /\ total_staked'[p] > 0 => stakeable[p] # NotListed

\* The farm distributes, or the configuration changes.
Rests ==
    /\ UNCHANGED <<user_staked, total_staked, rewardVars, lp, farm_staked>>
    /\ Pays(farm_pending')
    /\ distribution' \in [Pools -> SUBSET Tokens] /\ \A p \in Pools : distribution[p] \subseteq distribution'[p]
    /\ treasury_fee' \in Nat
    /\ stakeable' \in [Pools -> Liquidity \union {NotListed}]
    /\ \A p \in Pools : stakeable[p] # NotListed => stakeable'[p] = stakeable[p]

LEMMA RestSteps ==
    ASSUME TypeOK, TokensInv,
           \/ execute_distribute_by_limit
           \/ \E s \in Users, new \in NewOwners : execute_update_config(s, new) \/ execute_update_treasury_addr(s, new)
           \/ \E s \in Users, fee \in NewFees : execute_update_treasury_fee(s, fee)
           \/ \E s \in Users, ps \in SUBSET Pools : \E added \in [ps -> Liquidity] :
                   ps # {} /\ execute_add_stakeable_tokens(s, added)
           \/ \E p \in Pools, t \in Tokens : AddDistributionToken(p, t)
           \/ UNCHANGED vars
    PROVE  Rests
<1>0. /\ Pays(farm_pending) /\ treasury_fee \in Nat /\ stakeable \in [Pools -> Liquidity \union {NotListed}]
      /\ distribution \in [Pools -> SUBSET Tokens]
  BY DEF Pays, TypeOK, TokensInv, PoolTokens
<1>1. CASE execute_distribute_by_limit
  <2>1. Pays(farm_pending')
    BY <1>1, FarmPays DEF execute_distribute_by_limit
  <2>2. QED
    BY <1>0, <1>1, <2>1 DEF execute_distribute_by_limit, Rests, configVars
<1>2. CASE \E s \in Users, new \in NewOwners : execute_update_config(s, new) \/ execute_update_treasury_addr(s, new)
  BY <1>0, <1>2 DEF execute_update_config, execute_update_treasury_addr, Rests, farmVars
<1>3. CASE \E s \in Users, fee \in NewFees : execute_update_treasury_fee(s, fee)
  BY <1>0, <1>3, FarmAssumption DEF execute_update_treasury_fee, Rests, farmVars
<1>4. ASSUME NEW s \in Users, NEW ps \in SUBSET Pools, NEW added \in [ps -> Liquidity],
             execute_add_stakeable_tokens(s, added)
      PROVE  Rests
  <2>1. /\ \A p \in ps : stakeable[p] = NotListed
        /\ stakeable' = [p \in Pools |-> IF p \in ps THEN added[p] ELSE stakeable[p]]
    BY <1>4 DEF execute_add_stakeable_tokens
  <2>2. stakeable' \in [Pools -> Liquidity \union {NotListed}]
    BY <1>0, <2>1
  <2>3. \A p \in Pools : stakeable[p] # NotListed => stakeable'[p] = stakeable[p]
    BY <2>1
  <2>4. QED
    BY <1>0, <1>4, <2>2, <2>3 DEF execute_add_stakeable_tokens, Rests, farmVars
<1>5. CASE \E p \in Pools, t \in Tokens : AddDistributionToken(p, t)
  BY <1>0, <1>5 DEF AddDistributionToken, Rests, configVars
<1>6. CASE UNCHANGED vars
  BY <1>0, <1>6 DEF vars, Rests, farmVars, configVars
<1>7. QED
  BY <1>1, <1>2, <1>3, <1>4, <1>5, <1>6

\* What the step does to a token t in a pool q: in p, the reward infos of u are settled
\* and those of others stay.
Settled(u, p, pending, m, q, t) ==
    /\ farm_pending'[<<q, t>>] = IF q = p /\ m = "pay" THEN 0 ELSE pending[<<q, t>>]
    /\ pending_rewards'[<<q, t>>] = IF q = p THEN farm_pending'[<<q, t>>] ELSE pending_rewards[<<q, t>>]
    /\ total_rewards'[<<q, t>>] = total_rewards[<<q, t>>]
                                  + IF q = p /\ t \in distribution[p] THEN Fresh(pending, p, t) ELSE 0
    /\ rewards_weight'[<<q, t>>] = IF q = p /\ t \in distribution[p] THEN Weight(pending, p, t)
                                   ELSE rewards_weight[<<q, t>>]
    /\ \A v \in Users : reward_info'[<<v, <<q, t>>>>] =
          IF v = u /\ q = p /\ t \in distribution[p]
          THEN [pool_reward_weight |-> Weight(pending, p, t),
                pending_reward |-> IF m = "pay" THEN 0 ELSE Due(u, p, t, pending)]
          ELSE reward_info[<<v, <<q, t>>>>]

LEMMA SettledAt ==
    ASSUME TypeOK, TokensInv, NEW u \in Users, NEW p \in Pools, NEW pending, NEW m \in Modes,
           Settles(u, p, pending, m), NEW q \in Pools, NEW t \in Tokens
    PROVE  Settled(u, p, pending, m, q, t)
<1> USE DEF Settled
<1>1. <<q, t>> \in PoolTokens /\ \A v \in Users : <<v, <<q, t>>>> \in Users \X PoolTokens
  BY DEF PoolTokens
<1>2. farm_pending'[<<q, t>>] = IF q = p /\ m = "pay" THEN 0 ELSE pending[<<q, t>>]
  BY <1>1 DEF Settles, Emptied
<1>3. pending_rewards' = [x \in PoolTokens |-> IF x[1] = p THEN farm_pending'[x] ELSE pending_rewards[x]]
  BY DEF Settles, BookRewards
<1>4. pending_rewards'[<<q, t>>] = IF q = p THEN farm_pending'[<<q, t>>] ELSE pending_rewards[<<q, t>>]
  BY <1>1, <1>3
<1>5. total_rewards' = [x \in PoolTokens |-> total_rewards[x] + FreshOf(p, pending, x)]
  BY DEF Settles, BookRewards
<1>6. total_rewards'[<<q, t>>] = total_rewards[<<q, t>>]
                                 + IF q = p /\ t \in distribution[p] THEN Fresh(pending, p, t) ELSE 0
  BY <1>1, <1>5 DEF FreshOf
<1>7. rewards_weight' = [x \in PoolTokens |-> WeightOf(p, pending, x)]
  BY DEF Settles, BookRewards
<1>8. rewards_weight'[<<q, t>>] = IF q = p /\ t \in distribution[p] THEN Weight(pending, p, t)
                                  ELSE rewards_weight[<<q, t>>]
  BY <1>1, <1>7 DEF WeightOf
<1>9. reward_info' = SettledInfos(u, p, pending, m = "pay")
  BY DEF Settles
<1>10. \A v \in Users : reward_info'[<<v, <<q, t>>>>] =
                 IF v = u /\ q = p /\ t \in distribution[p]
                 THEN [pool_reward_weight |-> Weight(pending, p, t),
                       pending_reward |-> IF m = "pay" THEN 0 ELSE Due(u, p, t, pending)]
                 ELSE reward_info[<<v, <<q, t>>>>]
  BY <1>1, <1>9 DEF SettledInfos
<1>11. QED
  BY <1>2, <1>4, <1>6, <1>8, <1>10

\* What u gets before the fee.
Claimed(u, p, t, pending, m) == IF m = "pay" THEN DueOf(u, p, pending, t) ELSE 0

\* What u gets after the fee.
Received(u, p, t, pending, m) == IF m = "pay" THEN NetOf(DueOf(u, p, pending, t)) ELSE 0

\* What the step pays in t.
Paid(u, p, pending, m, t) ==
    LET c == Claimed(u, p, t, pending, m)
        r == Received(u, p, t, pending, m)
        arrived == IF m = "pay" THEN pending[<<p, t>>] ELSE 0
    IN  /\ c \in Nat /\ r \in Nat /\ r <= c /\ arrived \in Nat
        /\ held'[t] = held[t] + arrived - r /\ held'[t] \in Nat
        /\ treasury_rewards'[t] = treasury_rewards[t] + c - r
        /\ \A v \in Users : wallet'[<<v, t>>] = wallet[<<v, t>>] + IF v = u THEN r ELSE 0

LEMMA PaidAt ==
    ASSUME TypeOK, TokensInv, NoUnderflow, NEW u \in Users, NEW p \in Pools, NEW pending, NEW m \in Modes,
           Settles(u, p, pending, m), NEW t \in Tokens
    PROVE  Paid(u, p, pending, m, t)
<1> USE DEF Paid
<1> DEFINE d == DueOf(u, p, pending, t)
<1>1. d \in Nat /\ Pays(pending) /\ pending[<<p, t>>] \in Nat
  BY DueBounds DEF DueOf, Settles, Pays, PoolTokens
<1>2. held[t] \in Nat /\ treasury_rewards[t] \in Nat /\ \A v \in Users : wallet[<<v, t>>] \in Nat
  BY DEF TypeOK
<1>3. CASE m # "pay"
  BY <1>2, <1>3 DEF Settles, Claimed, Received
<1>4. CASE m = "pay"
  <2>1. PayRewards(u, p, pending)
    BY <1>4 DEF Settles
  <2>2. /\ NetOf(d) <= held[t] + pending[<<p, t>>] /\ treasury_fee <= fee_multiplier
        /\ held'[t] = held[t] + pending[<<p, t>>] - NetOf(d)
        /\ treasury_rewards'[t] = treasury_rewards[t] + d - NetOf(d)
    BY <2>1 DEF PayRewards
  <2>3. \A v \in Users : wallet'[<<v, t>>] = wallet[<<v, t>>] + IF v = u THEN NetOf(d) ELSE 0
    BY <2>1 DEF PayRewards
  <2>4. NetOf(d) \in Nat /\ NetOf(d) <= d
    BY <1>1, <2>2, NetBounds
  <2>5. Claimed(u, p, t, pending, m) = d /\ Received(u, p, t, pending, m) = NetOf(d)
    BY <1>4 DEF Claimed, Received
  <2> HIDE DEF d
  <2>6. QED
    BY <1>1, <1>2, <1>4, <2>2, <2>3, <2>4, <2>5
<1>5. QED
  BY <1>3, <1>4

LEMMA SettledTypes ==
    ASSUME TypeOK, TokensInv, NoUnderflow, NEW u \in Users, NEW p \in Pools, NEW pending, NEW m \in Modes,
           Settles(u, p, pending, m)
    PROVE  /\ reward_info' \in [Users \X PoolTokens -> RewardInfo \union {NoInfo}]
           /\ total_rewards' \in [PoolTokens -> Nat] /\ rewards_weight' \in [PoolTokens -> Nat]
           /\ pending_rewards' \in [PoolTokens -> Nat] /\ farm_pending' \in [PoolTokens -> Nat]
           /\ treasury_rewards' \in [Tokens -> Nat] /\ wallet' \in [Users \X Tokens -> Nat] /\ held' \in [Tokens -> Nat]
<1>0. Pays(pending) /\ pending \in [PoolTokens -> Nat]
  BY DEF Settles, Pays
<1>a. \A q \in Pools, t \in Tokens : Settled(u, p, pending, m, q, t)
  BY SettledAt
<1>b. \A t \in Tokens : Paid(u, p, pending, m, t)
  BY PaidAt
<1>1. /\ DOMAIN reward_info' = Users \X PoolTokens
      /\ reward_info' = [x \in DOMAIN reward_info' |-> reward_info'[x]]
      /\ total_rewards' = [x \in PoolTokens |-> total_rewards'[x]]
      /\ rewards_weight' = [x \in PoolTokens |-> rewards_weight'[x]]
      /\ pending_rewards' = [x \in PoolTokens |-> pending_rewards'[x]]
      /\ farm_pending' = [x \in PoolTokens |-> farm_pending'[x]]
  BY <1>0 DEF Settles, BookRewards, SettledInfos, Emptied
<1>2. ASSUME NEW q \in Pools, NEW t \in Tokens
      PROVE  /\ total_rewards'[<<q, t>>] \in Nat /\ rewards_weight'[<<q, t>>] \in Nat
             /\ pending_rewards'[<<q, t>>] \in Nat /\ farm_pending'[<<q, t>>] \in Nat
             /\ \A v \in Users : reward_info'[<<v, <<q, t>>>>] \in RewardInfo \union {NoInfo}
  <2>1. /\ total_rewards[<<q, t>>] \in Nat /\ rewards_weight[<<q, t>>] \in Nat /\ pending_rewards[<<q, t>>] \in Nat
        /\ pending[<<q, t>>] \in Nat
        /\ \A v \in Users : reward_info[<<v, <<q, t>>>>] \in RewardInfo \union {NoInfo}
    BY <1>0 DEF TypeOK, PoolTokens
  <2>2. Fresh(pending, p, t) \in Nat /\ Weight(pending, p, t) \in Nat /\ Due(u, p, t, pending) \in Nat
    BY <1>0, WeightBounds, DueBounds
  <2>3. [pool_reward_weight |-> Weight(pending, p, t), pending_reward |-> IF m = "pay" THEN 0 ELSE Due(u, p, t, pending)]
          \in RewardInfo
    BY <2>2 DEF RewardInfo
  <2>4. farm_pending'[<<q, t>>] \in Nat
    <3>1. farm_pending'[<<q, t>>] = 0 \/ farm_pending'[<<q, t>>] = pending[<<q, t>>]
      BY <1>a DEF Settled
    <3>2. QED
      BY <2>1, <3>1
  <2>5. pending_rewards'[<<q, t>>] \in Nat
    BY <2>1, <2>4, <1>a DEF Settled
  <2>6. total_rewards'[<<q, t>>] \in Nat
    <3>1. total_rewards'[<<q, t>>] = total_rewards[<<q, t>>]
                                     + IF q = p /\ t \in distribution[p] THEN Fresh(pending, p, t) ELSE 0
      BY <1>a DEF Settled
    <3>2. QED
      BY <2>1, <2>2, <3>1
  <2>7. rewards_weight'[<<q, t>>] \in Nat
    BY <2>1, <2>2, <1>a DEF Settled
  <2>8. \A v \in Users : reward_info'[<<v, <<q, t>>>>] \in RewardInfo \union {NoInfo}
    BY <2>1, <2>3, <1>a DEF Settled
  <2>9. QED
    BY <2>4, <2>5, <2>6, <2>7, <2>8
<1>3. \A x \in PoolTokens : /\ total_rewards'[x] \in Nat /\ rewards_weight'[x] \in Nat
                             /\ pending_rewards'[x] \in Nat /\ farm_pending'[x] \in Nat
  BY <1>2 DEF PoolTokens
<1>4. \A x \in Users \X PoolTokens : reward_info'[x] \in RewardInfo \union {NoInfo}
  BY <1>2 DEF PoolTokens
<1>5. reward_info' \in [Users \X PoolTokens -> RewardInfo \union {NoInfo}]
  BY <1>1, <1>4
<1>6. /\ total_rewards' \in [PoolTokens -> Nat] /\ rewards_weight' \in [PoolTokens -> Nat]
      /\ pending_rewards' \in [PoolTokens -> Nat] /\ farm_pending' \in [PoolTokens -> Nat]
  BY <1>1, <1>3
<1>7. treasury_rewards' \in [Tokens -> Nat] /\ wallet' \in [Users \X Tokens -> Nat] /\ held' \in [Tokens -> Nat]
  <2>1. CASE m # "pay"
    BY <2>1 DEF Settles, TypeOK
  <2>2. CASE m = "pay"
    <3>1. /\ treasury_rewards' = [t \in Tokens |-> treasury_rewards'[t]] /\ held' = [t \in Tokens |-> held'[t]]
          /\ wallet' = [x \in Users \X Tokens |-> wallet'[x]]
      BY <2>2 DEF Settles, PayRewards
    <3>2. ASSUME NEW t \in Tokens
          PROVE  treasury_rewards'[t] \in Nat /\ held'[t] \in Nat /\ \A v \in Users : wallet'[<<v, t>>] \in Nat
      <4> DEFINE c == Claimed(u, p, t, pending, m)
                 r == Received(u, p, t, pending, m)
      <4>1. /\ c \in Nat /\ r \in Nat /\ r <= c
            /\ held'[t] \in Nat /\ treasury_rewards'[t] = treasury_rewards[t] + c - r
            /\ \A v \in Users : wallet'[<<v, t>>] = wallet[<<v, t>>] + IF v = u THEN r ELSE 0
        BY <1>b DEF Paid
      <4>2. treasury_rewards[t] \in Nat /\ \A v \in Users : wallet[<<v, t>>] \in Nat
        BY DEF TypeOK
      <4> HIDE DEF c, r
      <4>3. QED
        BY <4>1, <4>2
    <3>3. \A x \in Users \X Tokens : wallet'[x] \in Nat
      BY <3>2
    <3>4. QED
      BY <3>1, <3>2, <3>3
  <2>3. QED
    BY <2>1, <2>2
<1>8. QED
  BY <1>5, <1>6, <1>7

LEMMA SettledSafe ==
    ASSUME TypeOK, TokensInv, NoUnderflow, FirstStakeInv, ListedInv, NEW u \in Users, NEW p \in Pools,
           NEW pending, NEW m \in Modes, Settles(u, p, pending, m), Restakes(u, p)
    PROVE  TypeOK' /\ TokensInv' /\ NoUnderflow' /\ FirstStakeInv' /\ ListedInv'
<1>0. Pays(pending)
  BY DEF Settles
<1>a. \A q \in Pools, t \in Tokens : Settled(u, p, pending, m, q, t)
  BY SettledAt
<1>1. TypeOK'
  <2>1. /\ reward_info' \in [Users \X PoolTokens -> RewardInfo \union {NoInfo}]
        /\ total_rewards' \in [PoolTokens -> Nat] /\ rewards_weight' \in [PoolTokens -> Nat]
        /\ pending_rewards' \in [PoolTokens -> Nat] /\ farm_pending' \in [PoolTokens -> Nat]
        /\ treasury_rewards' \in [Tokens -> Nat] /\ wallet' \in [Users \X Tokens -> Nat] /\ held' \in [Tokens -> Nat]
    BY SettledTypes
  <2>2. QED
    BY <2>1 DEF TypeOK, Settles, Restakes
<1>2. ASSUME NEW q \in Pools, NEW t \in Tokens, t \notin distribution[q]
      PROVE  /\ farm_pending'[<<q, t>>] = 0 /\ pending_rewards'[<<q, t>>] = 0
             /\ \A v \in Users : reward_info'[<<v, <<q, t>>>>] = NoInfo
  <2>1. /\ pending[<<q, t>>] = 0 /\ pending_rewards[<<q, t>>] = 0
        /\ \A v \in Users : reward_info[<<v, <<q, t>>>>] = NoInfo
    BY <1>0, <1>2 DEF Pays, TokensInv
  <2>2. farm_pending'[<<q, t>>] = 0
    BY <2>1, <1>a DEF Settled
  <2>3. pending_rewards'[<<q, t>>] = 0
    BY <2>1, <2>2, <1>a DEF Settled
  <2>4. \A v \in Users : reward_info'[<<v, <<q, t>>>>] = NoInfo
    BY <1>2, <2>1, <1>a DEF Settled
  <2>5. QED
    BY <2>2, <2>3, <2>4
<1>3. TokensInv'
  BY <1>2 DEF TokensInv, Settles
<1>4. ASSUME NEW q \in Pools, NEW t \in Tokens
      PROVE  /\ farm_pending'[<<q, t>>] - pending_rewards'[<<q, t>>] >= 0
             /\ \A v \in Users : reward_info'[<<v, <<q, t>>>>].pool_reward_weight <= rewards_weight'[<<q, t>>]
             /\ total_staked'[q] = 0 => rewards_weight'[<<q, t>>] = 0
  <2>1. /\ Fresh(pending, q, t) \in Nat /\ rewards_weight[<<q, t>>] \in Nat /\ Weight(pending, q, t) \in Nat
        /\ Added(pending, q, t) \in Nat /\ Weight(pending, q, t) = rewards_weight[<<q, t>>] + Added(pending, q, t)
        /\ total_staked[q] = 0 => Added(pending, q, t) = 0
    BY <1>0, WeightBounds
  <2>2. farm_pending'[<<q, t>>] \in Nat
    BY SettledTypes DEF PoolTokens
  <2>3. farm_pending'[<<q, t>>] - pending_rewards'[<<q, t>>] >= 0
    <3>1. CASE q = p
      <4>1. pending_rewards'[<<q, t>>] = farm_pending'[<<q, t>>]
        BY <3>1, <1>a DEF Settled
      <4>2. QED
        BY <2>2, <4>1
    <3>2. CASE q # p
      <4>1. farm_pending'[<<q, t>>] = pending[<<q, t>>] /\ pending_rewards'[<<q, t>>] = pending_rewards[<<q, t>>]
        BY <3>2, <1>a DEF Settled
      <4>2. QED
        BY <2>1, <4>1 DEF Fresh
    <3>3. QED
      BY <3>1, <3>2
  <2>4. ASSUME NEW v \in Users PROVE reward_info'[<<v, <<q, t>>>>].pool_reward_weight <= rewards_weight'[<<q, t>>]
    <3>1. CASE q = p /\ t \in distribution[p]
      <4>1. rewards_weight'[<<q, t>>] = Weight(pending, q, t)
        BY <3>1, <1>a DEF Settled
      <4>2. CASE v = u
        <5>1. reward_info'[<<v, <<q, t>>>>] = [pool_reward_weight |-> Weight(pending, p, t),
                                               pending_reward |-> IF m = "pay" THEN 0 ELSE Due(u, p, t, pending)]
          BY <3>1, <4>2, <1>a DEF Settled
        <5>2. QED
          BY <2>1, <3>1, <4>1, <5>1
      <4>3. CASE v # u
        <5>1. reward_info'[<<v, <<q, t>>>>] = reward_info[<<v, <<q, t>>>>]
          BY <4>3, <1>a DEF Settled
        <5>2. reward_info[<<v, <<q, t>>>>].pool_reward_weight <= rewards_weight[<<q, t>>]
          BY DEF NoUnderflow
        <5>3. reward_info[<<v, <<q, t>>>>].pool_reward_weight \in Nat
          BY DEF TypeOK, PoolTokens, RewardInfo, NoInfo
        <5>4. QED
          BY <2>1, <4>1, <5>1, <5>2, <5>3
      <4>4. QED
        BY <4>2, <4>3
    <3>2. CASE ~(q = p /\ t \in distribution[p])
      <4>1. reward_info'[<<v, <<q, t>>>>] = reward_info[<<v, <<q, t>>>>] /\ rewards_weight'[<<q, t>>] = rewards_weight[<<q, t>>]
        BY <3>2, <1>a DEF Settled
      <4>2. QED
        BY <4>1 DEF NoUnderflow
    <3>3. QED
      BY <3>1, <3>2
  <2>5. ASSUME total_staked'[q] = 0 PROVE rewards_weight'[<<q, t>>] = 0
    <3>1. total_staked[q] = 0 /\ rewards_weight[<<q, t>>] = 0
      BY <2>5 DEF Restakes, FirstStakeInv
    <3>2. Weight(pending, q, t) = 0
      BY <2>1, <3>1
    <3>3. rewards_weight'[<<q, t>>] = Weight(pending, q, t) \/ rewards_weight'[<<q, t>>] = rewards_weight[<<q, t>>]
      BY <1>a DEF Settled
    <3>4. QED
      BY <3>1, <3>2, <3>3
  <2>6. QED
    BY <2>3, <2>4, <2>5
<1>5. NoUnderflow' /\ FirstStakeInv'
  BY <1>4 DEF NoUnderflow, FirstStakeInv, Fresh
<1>6. ListedInv'
  BY DEF ListedInv, Restakes, Settles
<1>7. QED
  BY <1>1, <1>3, <1>5, <1>6

-----------------------------------------------------------------------------
(* Sums *)

\* Users and pools are finite, and all that is summed is a number.
LEMMA EarnedTypes ==
    ASSUME TypeOK, NoUnderflow, NEW t \in Tokens
    PROVE  /\ \A p \in Pools, u \in Users : EarnedBy(p, t)[u] \in Nat
           /\ \A p \in Pools : EarnedIn(t)[p] \in Nat /\ EarnedIn(t)[p] = SumOver(EarnedBy(p, t), Users)
           /\ \A p \in Pools : Snapshot(t)[p] \in Nat
<1>0. Pays(farm_pending)
  BY DEF Pays, TypeOK, PoolTokens
<1>1. ASSUME NEW p \in Pools, NEW u \in Users PROVE EarnedBy(p, t)[u] \in Nat
  <2>1. Earned(u, p, t) \in Nat
    BY <1>0, DueBounds
  <2>2. QED
    BY <2>1 DEF EarnedBy
<1>2. ASSUME NEW p \in Pools PROVE EarnedIn(t)[p] \in Nat /\ EarnedIn(t)[p] = SumOver(EarnedBy(p, t), Users)
  <2>1. SumOver(EarnedBy(p, t), Users) \in Nat
    BY <1>1, SumNat, FarmAssumption
  <2>2. QED
    BY <2>1 DEF EarnedIn
<1>3. \A p \in Pools : Snapshot(t)[p] \in Nat
  BY DEF Snapshot, TypeOK, PoolTokens
<1>4. QED
  BY <1>1, <1>2, <1>3

\* The rewards of u and of the others in p, after the step, and what u is paid are
\* covered by what they were before and by the fresh rewards.
LEMMA EarnedMoves ==
    ASSUME TypeOK, TokensInv, NoUnderflow, NEW u \in Users, NEW p \in Pools, NEW pending, NEW m \in Modes,
           Settles(u, p, pending, m), Restakes(u, p), NEW t \in Tokens, NEW v \in Users
    PROVE  /\ Earned(v, p, t)' \in Nat
           /\ Earned(v, p, t)' + (IF v = u THEN Claimed(u, p, t, pending, m) * Unit ELSE 0)
              <= Earned(v, p, t) + (IF t \in distribution[p] THEN Added(pending, p, t) ELSE 0) * user_staked[<<v, p>>]
<1>0. Pays(pending) /\ Settled(u, p, pending, m, p, t) /\ Unit \in Nat \ {0}
  BY SettledAt, FarmAssumption DEF Settles
<1>1. CASE t \notin distribution[p]
  <2>1. reward_info[<<v, <<p, t>>>>] = NoInfo /\ reward_info'[<<v, <<p, t>>>>] = NoInfo
    BY <1>0, <1>1 DEF Settled, TokensInv
  <2>2. Earned(v, p, t) = 0 /\ Earned(v, p, t)' = 0
    BY <2>1 DEF Earned
  <2>3. Claimed(u, p, t, pending, m) = 0
    BY <1>1 DEF Claimed, DueOf
  <2>4. user_staked[<<v, p>>] \in Nat
    BY DEF TypeOK, Positions
  <2>5. QED
    BY <1>0, <1>1, <2>2, <2>3, <2>4
<1>2. CASE t \in distribution[p]
  <2> DEFINE k == Added(pending, p, t)
             w == Weight(pending, p, t)
             r == rewards_weight[<<p, t>>]
             n == user_staked[<<v, p>>]
             d == Due(v, p, t, pending)
  <2>1. k \in Nat /\ w \in Nat /\ r \in Nat /\ w = r + k
    BY <1>0, WeightBounds
  <2>2. d \in Nat /\ Earned(v, p, t) \in Nat /\ n \in Nat /\ d * Unit <= Earned(v, p, t) + k * n
    BY <1>0, DueBounds
  <2>3. rewards_weight'[<<p, t>>] = w
    BY <1>0, <1>2 DEF Settled
  <2>4. k * n \in Nat /\ d * Unit \in Nat
    BY <1>0, <2>1, <2>2
  <2>5. CASE v = u
    <3> DEFINE kept == IF m = "pay" THEN 0 ELSE d
    <3>1. reward_info'[<<v, <<p, t>>>>] = [pool_reward_weight |-> w, pending_reward |-> kept]
      BY <1>0, <1>2, <2>5 DEF Settled
    <3>2. reward_info'[<<v, <<p, t>>>>] # NoInfo
      <4>1. kept \in Nat
        BY <2>2
      <4>2. reward_info'[<<v, <<p, t>>>>].pending_reward = kept
        BY <3>1
      <4>3. NoInfo.pending_reward = -1
        BY DEF NoInfo
      <4> HIDE DEF kept
      <4>4. QED
        BY <4>1, <4>2, <4>3
    <3>3. user_staked'[<<v, p>>] \in Nat
      BY DEF Restakes, Positions
    <3>4. Earned(v, p, t)' = kept * Unit + (w - w) * user_staked'[<<v, p>>]
      BY <2>3, <3>1, <3>2 DEF Earned
    <3>5. (w - w) * user_staked'[<<v, p>>] = 0
      BY <2>1, <3>3
    <3>6. Claimed(u, p, t, pending, m) = IF m = "pay" THEN d ELSE 0
      BY <1>2, <2>5 DEF Claimed, DueOf
    <3> HIDE DEF d, k, n, w
    <3>7. CASE m = "pay"
      <4>1. Earned(v, p, t)' = 0 /\ Claimed(u, p, t, pending, m) = d
        BY <1>0, <3>4, <3>5, <3>6, <3>7
      <4>2. QED
        BY <1>2, <2>2, <2>4, <2>5, <4>1 DEF k, n
    <3>8. CASE m # "pay"
      <4>1. Earned(v, p, t)' = d * Unit /\ Claimed(u, p, t, pending, m) = 0 /\ 0 * Unit = 0
        BY <1>0, <2>4, <3>4, <3>5, <3>6, <3>8
      <4>2. QED
        BY <1>2, <2>2, <2>4, <2>5, <4>1 DEF k, n
    <3>9. QED
      BY <3>7, <3>8
  <2>6. CASE v # u
    <3>1. reward_info'[<<v, <<p, t>>>>] = reward_info[<<v, <<p, t>>>>] /\ user_staked'[<<v, p>>] = n
      BY <1>0, <2>6 DEF Settled, Restakes
    <3>2. CASE reward_info[<<v, <<p, t>>>>] = NoInfo
      <4>1. Earned(v, p, t)' = 0
        BY <3>1, <3>2 DEF Earned
      <4>2. QED
        BY <1>2, <2>2, <2>4, <2>6, <4>1
    <3>3. CASE reward_info[<<v, <<p, t>>>>] # NoInfo
      <4> DEFINE a == reward_info[<<v, <<p, t>>>>].pending_reward
                 b == reward_info[<<v, <<p, t>>>>].pool_reward_weight
      <4>1. a \in Nat /\ b \in Nat
        BY <3>3 DEF TypeOK, RewardInfo, PoolTokens
      <4>2. Earned(v, p, t) = a * Unit + (r - b) * n /\ Earned(v, p, t)' = a * Unit + (w - b) * n
        BY <2>3, <3>1, <3>3 DEF Earned
      <4> HIDE DEF a, b, n, w, r, k
      <4>3. (w - b) * n = (r - b) * n + k * n
        <5>1. w - b = (r - b) + k /\ r - b \in Int
          BY <2>1, <4>1
        <5>2. ((r - b) + k) * n = (r - b) * n + k * n
          BY <2>1, <2>2, <5>1
        <5>3. QED
          BY <5>1, <5>2
      <4>4. a * Unit \in Nat /\ (r - b) * n \in Int
        BY <1>0, <2>1, <2>2, <4>1
      <4>5. Earned(v, p, t)' = Earned(v, p, t) + k * n
        BY <2>4, <4>2, <4>3, <4>4
      <4>6. QED
        BY <1>2, <2>2, <2>4, <2>6, <4>5 DEF k, n
    <3>4. QED
      BY <3>2, <3>3
  <2>7. QED
    BY <2>5, <2>6
<1>3. QED
  BY <1>1, <1>2

\* Together the users of p earn at most the fresh rewards.
LEMMA EarnedInPool ==
    ASSUME TypeOK, TokensInv, NoUnderflow, StakesAgree, NEW u \in Users, NEW p \in Pools, NEW pending, NEW m \in Modes,
           Settles(u, p, pending, m), Restakes(u, p), NEW t \in Tokens
    PROVE  /\ EarnedIn(t)'[p] \in Nat
           /\ EarnedIn(t)'[p] + Claimed(u, p, t, pending, m) * Unit
              <= EarnedIn(t)[p] + (pending[<<p, t>>] - pending_rewards[<<p, t>>]) * Unit
<1> DEFINE f == EarnedBy(p, t)
           g == [v \in Users |-> user_staked[<<v, p>>]]
           h == [v \in Users |-> Earned(v, p, t)']
           k == IF t \in distribution[p] THEN Added(pending, p, t) ELSE 0
           c == Claimed(u, p, t, pending, m)
           more == [v \in Users |-> f[v] + k * g[v]]
           spent == [v \in Users |-> h[v] + (IF v = u THEN c * Unit ELSE 0)]
           F == (pending[<<p, t>>] - pending_rewards[<<p, t>>]) * Unit
<1>1. Pays(pending) /\ IsFiniteSet(Users) /\ Unit \in Nat \ {0}
  BY FarmAssumption DEF Settles
<1>2. /\ Fresh(pending, p, t) \in Nat /\ Added(pending, p, t) \in Nat
      /\ Added(pending, p, t) * total_staked[p] <= Fresh(pending, p, t) * Unit
  BY <1>1, WeightBounds
<1>3. total_staked[p] \in Nat /\ total_staked[p] = SumOver(g, Users) /\ \A v \in Users : g[v] \in Nat
  BY DEF TypeOK, StakesAgree, Positions
<1>4. k \in Nat /\ F \in Nat /\ k * SumOver(g, Users) <= F
  <2>1. F = Fresh(pending, p, t) * Unit
    BY DEF Fresh
  <2>2. CASE t \in distribution[p]
    BY <1>1, <1>2, <1>3, <2>1, <2>2
  <2>3. CASE t \notin distribution[p]
    <3>1. F \in Nat
      BY <1>1, <1>2, <2>1
    <3>2. k = 0 /\ k * SumOver(g, Users) = 0
      BY <1>3, <2>3
    <3>3. QED
      BY <3>1, <3>2
  <2>4. QED
    BY <2>2, <2>3
<1>5. c \in Nat
  <2>1. Paid(u, p, pending, m, t)
    BY PaidAt
  <2>2. QED
    BY <2>1 DEF Paid
<1>6. ASSUME NEW v \in Users
      PROVE  f[v] \in Nat /\ h[v] \in Nat /\ h[v] + (IF v = u THEN c * Unit ELSE 0) <= f[v] + k * g[v]
  <2>1. f[v] = Earned(v, p, t) /\ h[v] = Earned(v, p, t)' /\ g[v] = user_staked[<<v, p>>]
    BY DEF EarnedBy
  <2>2. f[v] \in Nat
    BY EarnedTypes
  <2>3. /\ Earned(v, p, t)' \in Nat
        /\ Earned(v, p, t)' + (IF v = u THEN c * Unit ELSE 0) <= Earned(v, p, t) + k * user_staked[<<v, p>>]
    BY EarnedMoves
  <2> HIDE DEF f, h, g, k, c
  <2>4. QED
    BY <2>1, <2>2, <2>3
<1>7. EarnedIn(t)'[p] = SumOver(h, Users)
  <2>1. EarnedBy(p, t)' = h
    BY DEF EarnedBy
  <2>2. EarnedIn(t)'[p] = SumOver(EarnedBy(p, t)', Users)
    BY DEF EarnedIn
  <2>3. QED
    BY <2>1, <2>2
<1>8. EarnedIn(t)[p] = SumOver(f, Users)
  BY EarnedTypes
<1>9. \A v \in Users : more[v] = f[v] + k * g[v] /\ spent[v] = h[v] + (IF v = u THEN c * Unit ELSE 0)
  OBVIOUS
<1> HIDE DEF f, g, h, k, c, F, more, spent
<1>10. \A v \in Users : f[v] \in Int /\ g[v] \in Int /\ more[v] = f[v] + k * g[v]
  BY <1>3, <1>6, <1>9
<1>11. SumOver(more, Users) = SumOver(f, Users) + k * SumOver(g, Users)
  BY <1>1, <1>4, <1>10, SumLinear
<1>12. c * Unit \in Nat
  BY <1>1, <1>5
<1>13. (\A v \in Users : h[v] \in Int) /\ (\A v \in Users : spent[v] \in Int) /\ (\A v \in Users \ {u} : spent[v] = h[v])
  BY <1>6, <1>9, <1>12
<1>14. SumOver(spent, Users) = SumOver(h, Users) + spent[u] - h[u]
  <2>1. PICK a, b : a = h /\ b = spent
    OBVIOUS
  <2>2. (\A v \in Users : a[v] \in Int) /\ (\A v \in Users : b[v] \in Int) /\ (\A v \in Users \ {u} : b[v] = a[v])
    BY <1>13, <2>1
  <2>3. SumOver(b, Users) = SumOver(a, Users) + b[u] - a[u]
    BY <1>1, <2>2, SumChange
  <2>4. QED
    BY <2>1, <2>3
<1>15. \A v \in Users : k * g[v] \in Int
  BY <1>3, <1>4
<1>16. \A v \in Users : spent[v] \in Int /\ more[v] \in Int /\ spent[v] <= more[v]
  BY <1>6, <1>9, <1>13, <1>15
<1>17. SumOver(spent, Users) <= SumOver(more, Users)
  BY <1>1, <1>16, SumMonotonic
<1>18. SumOver(h, Users) \in Nat
  BY <1>1, <1>6, SumNat
<1>19. SumOver(f, Users) \in Nat
  BY <1>1, <1>6, SumNat
<1>20. spent[u] - h[u] = c * Unit /\ h[u] \in Nat /\ spent[u] \in Int
  BY <1>6, <1>9, <1>12
<1>21. k * SumOver(g, Users) \in Nat
  BY <1>3, <1>4
<1>22. SumOver(h, Users) + c * Unit <= SumOver(f, Users) + F
  BY <1>4, <1>11, <1>12, <1>14, <1>17, <1>18, <1>19, <1>20, <1>21
<1>23. QED
  BY <1>7, <1>8, <1>18, <1>22 DEF c, F

\* In the other pools nothing is earned.
LEMMA EarnedElsewhere ==
    ASSUME TypeOK, TokensInv, NoUnderflow, NEW u \in Users, NEW p \in Pools, NEW pending, NEW m \in Modes,
           Settles(u, p, pending, m), Restakes(u, p), NEW t \in Tokens, NEW q \in Pools, q # p
    PROVE  EarnedIn(t)'[q] = EarnedIn(t)[q] /\ Snapshot(t)'[q] = Snapshot(t)[q]
<1>1. Settled(u, p, pending, m, q, t)
  BY SettledAt
<1>2. \A v \in Users : user_staked'[<<v, q>>] = user_staked[<<v, q>>]
  BY DEF Restakes
<1>3. \A v \in Users : Earned(v, q, t)' = Earned(v, q, t)
  BY <1>1, <1>2 DEF Settled, Earned
<1>4. EarnedBy(q, t)' = EarnedBy(q, t)
  BY <1>3 DEF EarnedBy
<1>5. EarnedIn(t)'[q] = EarnedIn(t)[q]
  BY <1>4 DEF EarnedIn
<1>6. QED
  BY <1>1, <1>5 DEF Settled, Snapshot

LEMMA SettledCovered ==
    ASSUME TypeOK, TokensInv, NoUnderflow, StakesAgree, EarnedCovered, NEW u \in Users, NEW p \in Pools, NEW pending,
           NEW m \in Modes, Settles(u, p, pending, m), Restakes(u, p)
    PROVE  EarnedCovered'
<1> SUFFICES ASSUME NEW t \in Tokens
             PROVE  treasury_rewards'[t] * Unit + SumOver(EarnedIn(t)', Pools)
                    <= (held'[t] + SumOver(Snapshot(t)', Pools)) * Unit
  BY DEF EarnedCovered
<1> DEFINE e == EarnedIn(t)
           E == EarnedIn(t)'
           s == Snapshot(t)
           S == Snapshot(t)'
           c == Claimed(u, p, t, pending, m)
           r == Received(u, p, t, pending, m)
           a == IF m = "pay" THEN pending[<<p, t>>] ELSE 0
           T == treasury_rewards[t]
           H == held[t]
<1>1. IsFiniteSet(Pools) /\ Unit \in Nat \ {0} /\ Pays(pending)
  BY FarmAssumption DEF Settles
<1>2. Settled(u, p, pending, m, p, t) /\ Paid(u, p, pending, m, t)
  BY SettledAt, PaidAt
<1>3. /\ c \in Nat /\ r \in Nat /\ a \in Nat /\ T \in Nat /\ H \in Nat
      /\ held'[t] = H + a - r /\ treasury_rewards'[t] = T + c - r
  BY <1>2 DEF Paid, TypeOK
<1>4. E[p] \in Nat /\ E[p] + c * Unit <= e[p] + (pending[<<p, t>>] - pending_rewards[<<p, t>>]) * Unit
  BY EarnedInPool
<1>5. \A q \in Pools : e[q] \in Nat /\ s[q] \in Nat
  BY EarnedTypes
<1>6. \A q \in Pools \ {p} : E[q] = e[q] /\ S[q] = s[q]
  BY EarnedElsewhere
<1>7. s[p] = pending_rewards[<<p, t>>] /\ S[p] = pending[<<p, t>>] - a /\ pending[<<p, t>>] \in Nat
  <2>1. pending[<<p, t>>] \in Nat
    BY <1>1 DEF Pays, PoolTokens
  <2>2. S[p] = pending_rewards'[<<p, t>>] /\ s[p] = pending_rewards[<<p, t>>]
    BY DEF Snapshot
  <2>3. pending_rewards'[<<p, t>>] = IF m = "pay" THEN 0 ELSE pending[<<p, t>>]
    BY <1>2 DEF Settled
  <2>4. QED
    BY <2>1, <2>2, <2>3
<1>8. T * Unit + SumOver(e, Pools) <= (H + SumOver(s, Pools)) * Unit
  BY DEF EarnedCovered
<1> HIDE DEF e, E, s, S, c, r, a, T, H
<1>9. (\A q \in Pools : e[q] \in Int) /\ (\A q \in Pools : E[q] \in Int) /\ (\A q \in Pools \ {p} : E[q] = e[q])
  BY <1>4, <1>5, <1>6
<1>10. (\A q \in Pools : s[q] \in Int) /\ (\A q \in Pools : S[q] \in Int) /\ (\A q \in Pools \ {p} : S[q] = s[q])
  BY <1>3, <1>5, <1>6, <1>7
<1>11. SumOver(E, Pools) = SumOver(e, Pools) + E[p] - e[p]
  BY <1>1, <1>9, SumChange
<1>12. SumOver(S, Pools) = SumOver(s, Pools) + S[p] - s[p]
  BY <1>1, <1>10, SumChange
<1>13. PICK x, y, z \in Int : x = SumOver(e, Pools) /\ y = SumOver(s, Pools) /\ z = pending[<<p, t>>] - s[p]
  <2>1. SumOver(e, Pools) \in Int
    BY <1>1, <1>9, SumType
  <2>2. SumOver(s, Pools) \in Int
    BY <1>1, <1>10, SumType
  <2>3. pending[<<p, t>>] - s[p] \in Int
    BY <1>7, <1>10
  <2>4. QED
    BY <2>1, <2>2, <2>3
<1>14. E[p] + c * Unit <= e[p] + z * Unit /\ SumOver(S, Pools) = y + z - a /\ E[p] \in Nat /\ e[p] \in Nat
  BY <1>3, <1>4, <1>5, <1>7, <1>10, <1>12, <1>13
<1>15. /\ (T + c - r) * Unit = T * Unit + c * Unit - r * Unit
       /\ ((H + a - r) + (y + z - a)) * Unit = (H + y) * Unit + z * Unit - r * Unit
       /\ T * Unit \in Int /\ c * Unit \in Int /\ r * Unit \in Int /\ (H + y) * Unit \in Int /\ z * Unit \in Int
  BY <1>1, <1>3, <1>13
<1>16. T * Unit + x <= (H + y) * Unit
  BY <1>8, <1>13
<1>17. (T + c - r) * Unit + (x + E[p] - e[p]) <= ((H + a - r) + (y + z - a)) * Unit
  BY <1>13, <1>14, <1>15, <1>16
<1>18. QED
  BY <1>3, <1>11, <1>13, <1>14, <1>17 DEF E, S

Booked(t) == [p \in Pools |-> total_rewards[<<p, t>>]]
Wallets(t) == [u \in Users |-> wallet[<<u, t>>]]

LEMMA SettledAccounted ==
    ASSUME TypeOK, TokensInv, NoUnderflow, RewardsAccounted, NEW u \in Users, NEW p \in Pools, NEW pending,
           NEW m \in Modes, Settles(u, p, pending, m), Restakes(u, p)
    PROVE  RewardsAccounted'
<1> SUFFICES ASSUME NEW t \in Tokens
             PROVE  SumOver(Booked(t)', Pools)
                    = held'[t] + SumOver(Wallets(t)', Users) + SumOver(Snapshot(t)', Pools)
  BY DEF RewardsAccounted, Booked, Wallets, Snapshot
<1> DEFINE f == Booked(t)
           F == Booked(t)'
           w == Wallets(t)
           W == Wallets(t)'
           s == Snapshot(t)
           S == Snapshot(t)'
           r == Received(u, p, t, pending, m)
           a == IF m = "pay" THEN pending[<<p, t>>] ELSE 0
           new == pending[<<p, t>>] - pending_rewards[<<p, t>>]
<1>1. IsFiniteSet(Pools) /\ IsFiniteSet(Users) /\ Pays(pending)
  BY FarmAssumption DEF Settles
<1>2. (\A q \in Pools : Settled(u, p, pending, m, q, t)) /\ Paid(u, p, pending, m, t)
  BY SettledAt, PaidAt
<1>3. /\ \A q \in Pools : total_rewards[<<q, t>>] \in Nat /\ pending_rewards[<<q, t>>] \in Nat /\ pending[<<q, t>>] \in Nat
      /\ \A v \in Users : wallet[<<v, t>>] \in Nat
      /\ held[t] \in Nat
  BY <1>1 DEF TypeOK, PoolTokens, Pays
<1>4. r \in Nat /\ a \in Nat /\ held'[t] = held[t] + a - r
  BY <1>2 DEF Paid
<1>5. (\A v \in Users : w[v] \in Int) /\ W[u] = w[u] + r /\ (\A v \in Users \ {u} : W[v] = w[v])
  <2>1. \A v \in Users : w[v] = wallet[<<v, t>>] /\ W[v] = wallet'[<<v, t>>]
    BY DEF Wallets
  <2>2. \A v \in Users : wallet'[<<v, t>>] = wallet[<<v, t>>] + IF v = u THEN r ELSE 0
    BY <1>2 DEF Paid
  <2> HIDE DEF w, W, r
  <2>3. W[u] = w[u] + r
    BY <2>1, <2>2
  <2>4. ASSUME NEW v \in Users \ {u} PROVE W[v] = w[v]
    <3>1. W[v] = wallet[<<v, t>>] + 0 /\ wallet[<<v, t>>] \in Nat
      BY <1>3, <2>1, <2>2
    <3>2. QED
      BY <2>1, <3>1
  <2>5. ASSUME NEW v \in Users PROVE w[v] \in Int
    <3>1. w[v] = wallet[<<v, t>>] /\ wallet[<<v, t>>] \in Nat
      BY <1>3, <2>1
    <3>2. QED
      BY <3>1
  <2>6. QED
    BY <2>3, <2>4, <2>5
<1>6. new \in Int /\ (\A q \in Pools : f[q] \in Int) /\ F[p] = f[p] + new /\ (\A q \in Pools \ {p} : F[q] = f[q])
  <2>1. t \notin distribution[p] => new = 0
    BY <1>1 DEF Pays, TokensInv
  <2>2. total_rewards'[<<p, t>>] = total_rewards[<<p, t>>] + IF t \in distribution[p] THEN new ELSE 0
    BY <1>2 DEF Settled, Fresh
  <2>3. ASSUME NEW q \in Pools \ {p} PROVE F[q] = f[q]
    <3>1. total_rewards'[<<q, t>>] = total_rewards[<<q, t>>] + 0
      BY <1>2 DEF Settled
    <3>2. QED
      BY <1>3, <3>1 DEF Booked
  <2>4. new \in Int
    BY <1>3
  <2>5. f[p] = total_rewards[<<p, t>>] /\ F[p] = total_rewards'[<<p, t>>] /\ \A q \in Pools : f[q] \in Int
    BY <1>3 DEF Booked
  <2> HIDE DEF new, f, F
  <2>6. F[p] = f[p] + new
    BY <1>3, <2>1, <2>2, <2>4, <2>5
  <2>7. QED
    BY <2>3, <2>4, <2>5, <2>6
<1>7. (\A q \in Pools : s[q] \in Int) /\ S[p] = s[p] + (new - a) /\ (\A q \in Pools \ {p} : S[q] = s[q])
  <2>1. \A q \in Pools : s[q] = pending_rewards[<<q, t>>] /\ S[q] = pending_rewards'[<<q, t>>]
    BY DEF Snapshot
  <2>2. \A q \in Pools \ {p} : pending_rewards'[<<q, t>>] = pending_rewards[<<q, t>>]
    BY <1>2 DEF Settled
  <2>3. pending_rewards'[<<p, t>>] = IF m = "pay" THEN 0 ELSE pending[<<p, t>>]
    BY <1>2 DEF Settled
  <2>4. pending_rewards'[<<p, t>>] = pending_rewards[<<p, t>>] + (new - a)
    BY <1>3, <2>3
  <2> HIDE DEF s, S, new, a
  <2>5. ASSUME NEW q \in Pools PROVE s[q] \in Int
    <3>1. s[q] = pending_rewards[<<q, t>>] /\ pending_rewards[<<q, t>>] \in Nat
      BY <1>3, <2>1
    <3>2. QED
      BY <3>1
  <2>6. S[p] = s[p] + (new - a)
    BY <2>1, <2>4
  <2>7. \A q \in Pools \ {p} : S[q] = s[q]
    BY <2>1, <2>2
  <2>8. QED
    BY <2>5, <2>6, <2>7
<1>8. SumOver(f, Pools) = held[t] + SumOver(w, Users) + SumOver(s, Pools)
  BY DEF RewardsAccounted, Booked, Wallets, Snapshot
<1> HIDE DEF f, F, w, W, s, S, r, a, new
<1>9. SumOver(F, Pools) = SumOver(f, Pools) + new /\ SumOver(f, Pools) \in Int
  BY <1>1, <1>6, SumShift
<1>10. SumOver(S, Pools) = SumOver(s, Pools) + (new - a) /\ SumOver(s, Pools) \in Int
  <2>1. PICK d \in Int : d = new - a
    BY <1>4, <1>6
  <2>2. S[p] = s[p] + d
    BY <1>7, <2>1
  <2>3. SumOver(S, Pools) = SumOver(s, Pools) + d /\ SumOver(s, Pools) \in Int
    BY <1>1, <1>7, <2>2, SumShift
  <2>4. QED
    BY <2>1, <2>3
<1>11. SumOver(W, Users) = SumOver(w, Users) + r /\ SumOver(w, Users) \in Int
  <2>1. r \in Int
    BY <1>4
  <2>2. QED
    BY <1>1, <1>5, <2>1, SumShift
<1>12. QED
  BY <1>3, <1>4, <1>6, <1>8, <1>9, <1>10, <1>11 DEF F, W, S

-----------------------------------------------------------------------------
(* Stakes *)

Stakes(p) == [u \in Users |-> user_staked[<<u, p>>]]

\* A stake of u in p changes by d, with the LP tokens and the stake at the farm.
Moves(u, p, d) ==
    /\ user_staked' = [user_staked EXCEPT ![<<u, p>>] = user_staked[<<u, p>>] + d]
    /\ total_staked' = [total_staked EXCEPT ![p] = total_staked[p] + d]
    /\ lp' = [lp EXCEPT ![<<u, p>>] = lp[<<u, p>>] - d]
    /\ farm_staked' = [farm_staked EXCEPT ![p] = farm_staked[p] + d]
    /\ user_staked[<<u, p>>] + d >= 0 /\ lp[<<u, p>>] - d >= 0 /\ total_staked[p] + d > 0

LEMMA StakeMoves ==
    ASSUME TypeOK, StakesAgree, NEW u \in Users, NEW p \in Pools, NEW d \in Int, Moves(u, p, d),
           stakeable[p] # NotListed
    PROVE  Restakes(u, p)
<1>1. <<u, p>> \in Positions /\ IsFiniteSet(Users)
  BY FarmAssumption DEF Positions
<1>2. user_staked[<<u, p>>] \in Nat /\ lp[<<u, p>>] \in Nat /\ total_staked[p] \in Nat /\ farm_staked[p] = total_staked[p]
  BY <1>1 DEF TypeOK, StakesAgree
<1>3. /\ user_staked[<<u, p>>] + d \in Nat /\ lp[<<u, p>>] - d \in Nat /\ total_staked[p] + d \in Nat
      /\ total_staked[p] + d # 0
  BY <1>2 DEF Moves
<1>4. /\ user_staked' \in [Positions -> Nat] /\ total_staked' \in [Pools -> Nat]
      /\ lp' \in [Positions -> Nat] /\ farm_staked' \in [Pools -> Nat]
  BY <1>1, <1>2, <1>3 DEF TypeOK, Moves
<1>5. \A v \in Users, q \in Pools :
        /\ <<v, q>> \in Positions
        /\ <<v, q>> # <<u, p>> => user_staked'[<<v, q>>] = user_staked[<<v, q>>] /\ lp'[<<v, q>>] = lp[<<v, q>>]
        /\ <<v, q>> = <<u, p>> => /\ user_staked'[<<v, q>>] = user_staked[<<u, p>>] + d
                                 /\ lp'[<<v, q>>] = lp[<<u, p>>] - d
  BY DEF TypeOK, Moves, Positions
<1>6. /\ \A q \in Pools \ {p} : total_staked'[q] = total_staked[q] /\ farm_staked'[q] = farm_staked[q]
      /\ total_staked'[p] = total_staked[p] + d /\ farm_staked'[p] = farm_staked[p] + d
  BY DEF TypeOK, Moves
<1>7. ASSUME NEW q \in Pools, total_staked'[q] = 0 PROVE total_staked[q] = 0
  <2>1. CASE q = p
    BY <1>3, <1>6, <1>7, <2>1
  <2>2. CASE q # p
    BY <1>6, <1>7, <2>2
  <2>3. QED
    BY <2>1, <2>2
<1>8. ASSUME NEW q \in Pools PROVE total_staked'[q] = SumOver(Stakes(q)', Users)
  <2>0. total_staked[q] = SumOver(Stakes(q), Users)
    BY DEF StakesAgree, Stakes
  <2>1. PICK x, y : x = Stakes(q) /\ y = Stakes(q)'
    OBVIOUS
  <2>2. \A v \in Users : x[v] = user_staked[<<v, q>>] /\ y[v] = user_staked'[<<v, q>>]
    BY <2>1 DEF Stakes
  <2>3. \A v \in Users : x[v] \in Int
    <3>1. ASSUME NEW v \in Users PROVE x[v] \in Nat
      <4>1. <<v, q>> \in Positions /\ user_staked \in [Positions -> Nat]
        BY <1>5 DEF TypeOK
      <4>2. user_staked[<<v, q>>] \in Nat
        BY <4>1
      <4>3. QED
        BY <2>2, <4>2
    <3>2. QED
      BY <3>1
  <2>4. ASSUME NEW v \in Users, <<v, q>> # <<u, p>> PROVE y[v] = x[v]
    <3>1. user_staked'[<<v, q>>] = user_staked[<<v, q>>]
      BY <1>5, <2>4
    <3>2. QED
      BY <2>2, <3>1
  <2>5. CASE q # p
    <3>1. \A v \in Users : x[v] = y[v]
      BY <2>4, <2>5
    <3>2. SumOver(x, Users) = SumOver(y, Users)
      BY <1>1, <3>1, SumSame
    <3>3. total_staked'[q] = total_staked[q]
      BY <1>6, <2>5
    <3>4. QED
      BY <2>0, <2>1, <3>2, <3>3
  <2>6. CASE q = p
    <3>1. \A v \in Users \ {u} : y[v] = x[v]
      BY <2>4
    <3>2. user_staked'[<<u, q>>] = user_staked[<<u, q>>] + d
      BY <1>5, <2>6
    <3>3. y[u] = x[u] + d
      BY <2>2, <3>2
    <3>4. SumOver(y, Users) = SumOver(x, Users) + d
      BY <1>1, <2>3, <3>1, <3>3, SumShift
    <3>5. total_staked'[q] = total_staked[q] + d
      BY <1>6, <2>6
    <3>6. QED
      BY <2>0, <2>1, <3>4, <3>5
  <2>7. QED
    BY <2>5, <2>6
<1>9. ASSUME NEW q \in Pools PROVE farm_staked'[q] = total_staked'[q]
  <2>1. farm_staked[q] = total_staked[q]
    BY DEF StakesAgree
  <2>2. CASE q = p
    BY <1>6, <2>1, <2>2
  <2>3. CASE q # p
    BY <1>6, <2>1, <2>3
  <2>4. QED
    BY <2>2, <2>3
<1>10. ASSUME NEW q \in Pools, NEW v \in Users PROVE lp'[<<v, q>>] + user_staked'[<<v, q>>] = InitLp[<<v, q>>]
  <2>1. lp[<<v, q>>] + user_staked[<<v, q>>] = InitLp[<<v, q>>]
    BY DEF StakesAgree
  <2>2. CASE <<v, q>> # <<u, p>>
    BY <1>5, <2>1, <2>2
  <2>3. CASE <<v, q>> = <<u, p>>
    <3>1. lp'[<<v, q>>] = lp[<<u, p>>] - d /\ user_staked'[<<v, q>>] = user_staked[<<u, p>>] + d
      BY <1>5, <2>3
    <3>2. lp[<<u, p>>] + user_staked[<<u, p>>] = InitLp[<<v, q>>]
      BY <2>1, <2>3
    <3>3. QED
      BY <1>2, <3>1, <3>2
  <2>4. QED
    BY <2>2, <2>3
<1>11. StakesAgree'
  BY <1>8, <1>9, <1>10 DEF StakesAgree, Stakes
<1>12. \A v \in Users, q \in Pools : <<v, q>> # <<u, p>> => user_staked'[<<v, q>>] = user_staked[<<v, q>>]
  BY <1>5
<1>13. \A q \in Pools : (q # p => total_staked'[q] = total_staked[q]) /\ (total_staked'[q] = 0 => total_staked[q] = 0)
  BY <1>6, <1>7
<1>14. QED
  BY <1>4, <1>11, <1>12, <1>13 DEF Restakes

\* The first staker of a pool is due what was saved, if anything was.
LEMMA FirstInfo ==
    ASSUME TypeOK, NoUnderflow, FirstStakeInv, NEW u \in Users, NEW p \in Pools, NEW t \in Tokens,
           NEW pending, Pays(pending), total_staked[p] = 0
    PROVE  InfoOf(u, p, t, Weight(pending, p, t)) =
             [pool_reward_weight |-> Weight(pending, p, t), pending_reward |-> Due(u, p, t, pending)]
<1> DEFINE info == reward_info[<<u, <<p, t>>>>]
           n == user_staked[<<u, p>>]
           W == Weight(pending, p, t)
<1>1. W = 0 /\ rewards_weight[<<p, t>>] = 0
  BY WeightBounds DEF FirstStakeInv
<1>2. CASE info = NoInfo
  <2>1. Due(u, p, t, pending) = 0
    BY <1>2, DueBounds
  <2>2. QED
    BY <1>2, <2>1 DEF InfoOf
<1>3. CASE info # NoInfo
  <2>1. info \in RewardInfo /\ n \in Nat /\ Unit \in Nat \ {0}
    BY <1>3, FarmAssumption DEF TypeOK, PoolTokens, Positions
  <2>2. info.pool_reward_weight = 0
    <3>1. info.pool_reward_weight <= 0
      BY <1>1 DEF NoUnderflow
    <3>2. info.pool_reward_weight \in Nat
      BY <2>1 DEF RewardInfo
    <3>3. QED
      BY <3>1, <3>2
  <2>3. InfoOf(u, p, t, W) = info
    BY <1>3 DEF InfoOf
  <2>4. Due(u, p, t, pending) = info.pending_reward + ((W - info.pool_reward_weight) * n) \div Unit
    BY <2>3 DEF Due
  <2>5. ((0 - 0) * n) \div Unit = 0
    BY <2>1
  <2>6. Due(u, p, t, pending) = info.pending_reward
    <3>1. info.pending_reward \in Nat
      BY <2>1 DEF RewardInfo
    <3> HIDE DEF info, W, n
    <3>2. QED
      BY <1>1, <2>2, <2>4, <2>5, <3>1
  <2>7. info = [pool_reward_weight |-> info.pool_reward_weight, pending_reward |-> info.pending_reward]
    BY <2>1 DEF RewardInfo
  <2> HIDE DEF info, W, n
  <2>8. InfoOf(u, p, t, W) = [pool_reward_weight |-> W, pending_reward |-> Due(u, p, t, pending)]
    BY <1>1, <2>2, <2>3, <2>6, <2>7
  <2>9. QED
    BY <2>8 DEF W
<1>4. QED
  BY <1>2, <1>3

LEMMA StakeSettles ==
    ASSUME FarmInv, NEW u \in Users, NEW p \in Pools, NEW a \in Amounts, execute_stake(u, p, a)
    PROVE  \E pending \in DistributeByLimit : Settles(u, p, pending, "keep") /\ Restakes(u, p)
<1> USE DEF FarmInv
<1>1. PICK pending \in DistributeByLimit : handle_stake(u, p, a, pending)
  BY DEF execute_stake
<1>2. Pays(pending)
  BY FarmPays
<1>3. reward_info' = SettledInfos(u, p, pending, FALSE)
  <2>1. CASE total_staked[p] # 0
    BY <1>1, <2>1 DEF handle_stake, handle_stake_reply
  <2>2. CASE total_staked[p] = 0
    <3>1. reward_info' = [x \in Users \X PoolTokens |->
                            IF x[1] = u /\ x[2][1] = p /\ x[2][2] \in distribution[p]
                            THEN InfoOf(u, p, x[2][2], Weight(pending, p, x[2][2])) ELSE reward_info[x]]
      BY <1>1, <2>2 DEF handle_stake, handle_stake_reply
    <3>2. \A x \in Users \X PoolTokens : x[2][2] \in Tokens
      BY DEF PoolTokens
    <3>3. \A x \in Users \X PoolTokens : InfoOf(u, p, x[2][2], Weight(pending, p, x[2][2])) =
             [pool_reward_weight |-> Weight(pending, p, x[2][2]),
              pending_reward |-> IF FALSE THEN 0 ELSE Due(u, p, x[2][2], pending)]
      BY <1>2, <2>2, <3>2, FirstInfo
    <3>4. QED
      BY <3>1, <3>3 DEF SettledInfos
  <2>3. QED
    BY <2>1, <2>2
<1>4. farm_pending' = pending
  BY <1>1 DEF handle_stake
<1>5. BookRewards(p, pending, [x \in PoolTokens |-> IF x[1] = p THEN farm_pending'[x] ELSE pending_rewards[x]])
  BY <1>1, <1>4 DEF handle_stake, handle_stake_reply
<1>6. UNCHANGED <<distribution, treasury_fee, stakeable, treasury_rewards, wallet, held>>
  BY <1>1 DEF handle_stake, handle_stake_reply, configVars
<1>7. Settles(u, p, pending, "keep")
  BY <1>2, <1>3, <1>4, <1>5, <1>6 DEF Settles
<1>8. Moves(u, p, a)
  <2>1. a \in Nat \ {0} /\ user_staked[<<u, p>>] \in Nat /\ total_staked[p] \in Nat /\ lp[<<u, p>>] \in Nat
    BY FarmAssumption DEF TypeOK, Positions
  <2>2. stakeable[p] # NotListed /\ a <= lp[<<u, p>>] /\ lp' = [lp EXCEPT ![<<u, p>>] = lp[<<u, p>>] - a]
    BY DEF execute_stake
  <2>3. /\ user_staked' = [user_staked EXCEPT ![<<u, p>>] = user_staked[<<u, p>>] + a]
        /\ total_staked' = [total_staked EXCEPT ![p] = total_staked[p] + a]
        /\ farm_staked' = [farm_staked EXCEPT ![p] = farm_staked[p] + a]
    BY <1>1 DEF handle_stake, handle_stake_reply, AddStake
  <2>4. user_staked[<<u, p>>] + a >= 0 /\ lp[<<u, p>>] - a >= 0 /\ total_staked[p] + a > 0
    BY <2>1, <2>2
  <2>5. QED
    BY <2>2, <2>3, <2>4 DEF Moves
<1>9. stakeable[p] # NotListed /\ a \in Int
  BY FarmAssumption DEF execute_stake
<1>10. Restakes(u, p)
  BY <1>8, <1>9, StakeMoves
<1>11. QED
  BY <1>7, <1>10

LEMMA UnstakeSettles ==
    ASSUME FarmInv, NEW u \in Users, NEW p \in Pools, NEW a \in Amounts, execute_unstake_and_claim(u, p, a)
    PROVE  \E pending \in DistributeByLimit : Settles(u, p, pending, "pay") /\ Restakes(u, p)
<1> USE DEF FarmInv
<1>1. PICK pending \in DistributeByLimit : handle_unstake_and_claim(u, p, a, pending)
  BY DEF execute_unstake_and_claim
<1>2. Pays(pending)
  BY FarmPays
<1>3. farm_pending' = Emptied(pending, p)
  BY <1>1 DEF handle_unstake_and_claim
<1>r. handle_unstake_and_claim_reply(u, p, a, pending)
  BY <1>1 DEF handle_unstake_and_claim
<1>4. Emptied(pending_rewards, p) = [x \in PoolTokens |-> IF x[1] = p THEN farm_pending'[x] ELSE pending_rewards[x]]
  BY <1>3 DEF Emptied
<1>5. BookRewards(p, pending, [x \in PoolTokens |-> IF x[1] = p THEN farm_pending'[x] ELSE pending_rewards[x]])
  BY <1>4, <1>r DEF handle_unstake_and_claim_reply
<1>6. /\ PayRewards(u, p, pending) /\ reward_info' = SettledInfos(u, p, pending, TRUE)
      /\ UNCHANGED <<distribution, treasury_fee, stakeable>>
  BY <1>r DEF handle_unstake_and_claim_reply, configVars
<1>7. Settles(u, p, pending, "pay")
  BY <1>2, <1>3, <1>5, <1>6 DEF Settles
<1>8. PICK d \in Int : d = -a
  BY FarmAssumption
<1>9. Moves(u, p, d)
  <2>1. a \in Nat \ {0} /\ user_staked[<<u, p>>] \in Nat /\ total_staked[p] \in Nat /\ lp[<<u, p>>] \in Nat
    BY FarmAssumption DEF TypeOK, Positions
  <2>2. user_staked[<<u, p>>] > a
    BY <1>r DEF handle_unstake_and_claim_reply, UnstakeAllowed
  <2>3. user_staked[<<u, p>>] <= total_staked[p] /\ farm_staked[p] = total_staked[p]
    <3>1. \A v \in Users : Stakes(p)[v] \in Nat
      BY DEF Stakes, TypeOK, Positions
    <3>2. Stakes(p)[u] <= SumOver(Stakes(p), Users)
      BY <3>1, SumNat, FarmAssumption
    <3>3. QED
      BY <3>2 DEF Stakes, StakesAgree
  <2>4. /\ user_staked' = [user_staked EXCEPT ![<<u, p>>] = user_staked[<<u, p>>] - a]
        /\ lp' = [lp EXCEPT ![<<u, p>>] = lp[<<u, p>>] + a]
        /\ total_staked' = [total_staked EXCEPT ![p] = total_staked[p] - a]
        /\ farm_staked' = [farm_staked EXCEPT ![p] = farm_staked[p] - total_staked[p] + total_staked'[p]]
    BY <1>r DEF handle_unstake_and_claim_reply, StakeRest
  <2>5. total_staked'[p] = total_staked[p] - a
    BY <2>4 DEF TypeOK
  <2>6. farm_staked[p] - total_staked[p] + total_staked'[p] = farm_staked[p] + d
    BY <1>8, <2>1, <2>3, <2>5
  <2>7. /\ user_staked[<<u, p>>] - a = user_staked[<<u, p>>] + d /\ lp[<<u, p>>] + a = lp[<<u, p>>] - d
        /\ total_staked[p] - a = total_staked[p] + d
        /\ user_staked[<<u, p>>] + d >= 0 /\ lp[<<u, p>>] - d >= 0 /\ total_staked[p] + d > 0
    BY <1>8, <2>1, <2>2, <2>3
  <2>8. QED
    BY <2>4, <2>6, <2>7 DEF Moves
<1>10. stakeable[p] # NotListed
  BY DEF execute_unstake_and_claim
<1>11. Restakes(u, p)
  BY <1>9, <1>10, StakeMoves
<1>12. QED
  BY <1>7, <1>11

LEMMA ClaimSettles ==
    ASSUME FarmInv, NEW u \in Users, NEW p \in Pools, execute_claim_reward(u, p)
    PROVE  \E pending \in DistributeByLimit :
             Settles(u, p, pending, "pay") /\ Restakes(u, p) /\ UNCHANGED <<user_staked, total_staked>>
<1> USE DEF FarmInv
<1>1. PICK pending \in DistributeByLimit : handle_claim(u, p, pending)
  BY DEF execute_claim_reward
<1>2. Pays(pending)
  BY FarmPays
<1>3. farm_pending' = Emptied(pending, p) /\ handle_claim_reward_reply(u, p, pending)
  BY <1>1 DEF handle_claim
<1>4. Emptied(pending_rewards, p) = [x \in PoolTokens |-> IF x[1] = p THEN farm_pending'[x] ELSE pending_rewards[x]]
  BY <1>3 DEF Emptied
<1>5. BookRewards(p, pending, [x \in PoolTokens |-> IF x[1] = p THEN farm_pending'[x] ELSE pending_rewards[x]])
  BY <1>3, <1>4 DEF handle_claim_reward_reply
<1>6. /\ PayRewards(u, p, pending) /\ reward_info' = SettledInfos(u, p, pending, TRUE)
      /\ UNCHANGED <<distribution, treasury_fee, stakeable, user_staked, total_staked, lp, farm_staked>>
  BY <1>3 DEF handle_claim_reward_reply, configVars
<1>7. Settles(u, p, pending, "pay")
  BY <1>2, <1>3, <1>5, <1>6 DEF Settles
<1>8. StakesAgree'
  BY <1>6 DEF StakesAgree
<1>9. Restakes(u, p)
  BY <1>6, <1>8 DEF Restakes, TypeOK, ListedInv
<1>10. QED
  BY <1>6, <1>7, <1>9

-----------------------------------------------------------------------------
(* Invariance *)

LEMMA StartSound == Init => FarmInv
<1> SUFFICES ASSUME Init PROVE FarmInv
  OBVIOUS
<1> USE DEF Init
<1>1. IsFiniteSet(Users) /\ IsFiniteSet(Pools)
  BY FarmAssumption
<1>2. TypeOK
  BY FarmAssumption DEF TypeOK
<1>3. TokensInv
  BY FarmAssumption DEF TokensInv, PoolTokens
<1>4. NoUnderflow
  BY DEF NoUnderflow, Fresh, PoolTokens, NoInfo
<1>5. FirstStakeInv /\ ListedInv
  BY DEF FirstStakeInv, ListedInv, PoolTokens
<1>6. ASSUME NEW S, IsFiniteSet(S), NEW f, \A x \in S : f[x] = 0 PROVE SumOver(f, S) = 0
  BY <1>6, SumZero
<1>7. StakesAgree
  <2>1. ASSUME NEW p \in Pools PROVE SumOver(Stakes(p), Users) = 0
    <3>1. \A u \in Users : Stakes(p)[u] = 0
      BY DEF Stakes, Positions
    <3>2. QED
      BY <1>1, <1>6, <3>1
  <2>2. ASSUME NEW p \in Pools, NEW u \in Users PROVE lp[<<u, p>>] + user_staked[<<u, p>>] = InitLp[<<u, p>>]
    <3>1. lp[<<u, p>>] = InitLp[<<u, p>>] /\ InitLp[<<u, p>>] \in Nat /\ user_staked[<<u, p>>] = 0
      BY FarmAssumption DEF Positions
    <3>2. QED
      BY <3>1
  <2>3. QED
    BY <2>1, <2>2 DEF StakesAgree, Stakes
<1>8. RewardsAccounted
  <2> SUFFICES ASSUME NEW t \in Tokens
               PROVE  SumOver(Booked(t), Pools) = held[t] + SumOver(Wallets(t), Users) + SumOver(Snapshot(t), Pools)
    BY DEF RewardsAccounted, Booked, Wallets, Snapshot
  <2>1. \A p \in Pools : Booked(t)[p] = 0 /\ Snapshot(t)[p] = 0
    BY DEF Booked, Snapshot, PoolTokens
  <2>2. \A u \in Users : Wallets(t)[u] = 0
    BY DEF Wallets
  <2>3. SumOver(Booked(t), Pools) = 0
    BY <1>1, <1>6, <2>1
  <2>4. SumOver(Snapshot(t), Pools) = 0
    BY <1>1, <1>6, <2>1
  <2>5. SumOver(Wallets(t), Users) = 0
    BY <1>1, <1>6, <2>2
  <2>6. QED
    BY <2>3, <2>4, <2>5
<1>9. EarnedCovered
  <2> SUFFICES ASSUME NEW t \in Tokens
               PROVE  treasury_rewards[t] * Unit + SumOver(EarnedIn(t), Pools)
                      <= (held[t] + SumOver(Snapshot(t), Pools)) * Unit
    BY DEF EarnedCovered
  <2>1. \A p \in Pools, u \in Users : EarnedBy(p, t)[u] = 0
    BY DEF EarnedBy, Earned, PoolTokens
  <2>2. \A p \in Pools : SumOver(EarnedBy(p, t), Users) = 0
    BY <1>1, <1>6, <2>1
  <2>3. \A p \in Pools : EarnedIn(t)[p] = 0
    BY <2>2 DEF EarnedIn
  <2>4. SumOver(EarnedIn(t), Pools) = 0
    BY <1>1, <1>6, <2>3
  <2>5. \A p \in Pools : Snapshot(t)[p] = 0
    BY DEF Snapshot, PoolTokens
  <2>6. SumOver(Snapshot(t), Pools) = 0
    BY <1>1, <1>6, <2>5
  <2>7. treasury_rewards[t] = 0 /\ held[t] = 0 /\ Unit \in Nat
    BY FarmAssumption
  <2>8. QED
    BY <2>4, <2>6, <2>7
<1>10. QED
  BY <1>2, <1>3, <1>4, <1>5, <1>7, <1>8, <1>9 DEF FarmInv

LEMMA RestsSound ==
    ASSUME FarmInv, Rests
    PROVE  FarmInv'
<1> USE DEF FarmInv
<1>1. UNCHANGED <<user_staked, total_staked, rewardVars, lp, farm_staked>> /\ Pays(farm_pending')
  BY DEF Rests
<1>2. TypeOK'
  BY <1>1 DEF TypeOK, Rests, rewardVars, Pays
<1>3. TokensInv'
  BY <1>1 DEF TokensInv, Rests, Pays, rewardVars
<1>4. NoUnderflow'
  <2>1. ASSUME NEW p \in Pools, NEW t \in Tokens
        PROVE  farm_pending'[<<p, t>>] - pending_rewards'[<<p, t>>] >= 0
    <3>1. /\ farm_pending[<<p, t>>] \in Nat /\ farm_pending'[<<p, t>>] \in Nat /\ pending_rewards[<<p, t>>] \in Nat
          /\ farm_pending[<<p, t>>] <= farm_pending'[<<p, t>>]
      BY <1>1 DEF Pays, TypeOK, PoolTokens
    <3>2. farm_pending[<<p, t>>] - pending_rewards[<<p, t>>] >= 0
      BY DEF NoUnderflow, Fresh
    <3>3. pending_rewards'[<<p, t>>] = pending_rewards[<<p, t>>]
      BY <1>1 DEF rewardVars
    <3>4. QED
      BY <3>1, <3>2, <3>3
  <2>2. QED
    BY <1>1, <2>1 DEF NoUnderflow, Fresh, rewardVars
<1>5. FirstStakeInv'
  BY <1>1 DEF FirstStakeInv, rewardVars
<1>6. ListedInv'
  BY <1>1 DEF ListedInv, Rests
<1>7. StakesAgree'
  BY <1>1 DEF StakesAgree
<1>8. RewardsAccounted'
  BY <1>1 DEF RewardsAccounted, rewardVars
<1>9. EarnedCovered'
  <2>1. ASSUME NEW t \in Tokens PROVE EarnedIn(t)' = EarnedIn(t) /\ Snapshot(t)' = Snapshot(t)
    <3>1. \A p \in Pools, u \in Users : Earned(u, p, t)' = Earned(u, p, t)
      BY <1>1 DEF Earned, rewardVars
    <3>2. \A p \in Pools : EarnedBy(p, t)' = EarnedBy(p, t)
      BY <3>1 DEF EarnedBy
    <3>3. QED
      BY <1>1, <3>2 DEF EarnedIn, Snapshot, rewardVars
  <2>2. QED
    BY <1>1, <2>1 DEF EarnedCovered, rewardVars
<1>10. QED
  BY <1>2, <1>3, <1>4, <1>5, <1>6, <1>7, <1>8, <1>9

\* Every step settles the rewards of a user in a pool or rests.
LEMMA StepKinds ==
    ASSUME FarmInv, [Next]_vars
    PROVE  \/ Rests
           \/ \E u \in Users, p \in Pools, m \in Modes : \E pending \in DistributeByLimit :
                  Settles(u, p, pending, m) /\ Restakes(u, p)
<1>0. "pay" \in Modes /\ "keep" \in Modes
  BY DEF Modes
<1>1. ASSUME NEW u \in Users, NEW p \in Pools, NEW a \in Amounts, execute_stake(u, p, a)
      PROVE  \E pending \in DistributeByLimit : Settles(u, p, pending, "keep") /\ Restakes(u, p)
  BY <1>1, StakeSettles
<1>2. ASSUME NEW u \in Users, NEW p \in Pools, NEW a \in Amounts, execute_unstake_and_claim(u, p, a)
      PROVE  \E pending \in DistributeByLimit : Settles(u, p, pending, "pay") /\ Restakes(u, p)
  BY <1>2, UnstakeSettles
<1>3. ASSUME NEW u \in Users, NEW p \in Pools, execute_claim_reward(u, p)
      PROVE  \E pending \in DistributeByLimit : Settles(u, p, pending, "pay") /\ Restakes(u, p)
  BY <1>3, ClaimSettles
<1>4. CASE \/ execute_distribute_by_limit
           \/ \E s \in Users, new \in NewOwners : execute_update_config(s, new) \/ execute_update_treasury_addr(s, new)
           \/ \E s \in Users, fee \in NewFees : execute_update_treasury_fee(s, fee)
           \/ \E s \in Users, ps \in SUBSET Pools : \E added \in [ps -> Liquidity] :
                   ps # {} /\ execute_add_stakeable_tokens(s, added)
           \/ \E p \in Pools, t \in Tokens : AddDistributionToken(p, t)
           \/ UNCHANGED vars
  BY <1>4, RestSteps DEF FarmInv
<1>5. QED
  BY <1>0, <1>1, <1>2, <1>3, <1>4 DEF Next

LEMMA StepSound ==
    ASSUME FarmInv, [Next]_vars
    PROVE  FarmInv'
<1>1. CASE Rests
  BY <1>1, RestsSound
<1>2. ASSUME NEW u \in Users, NEW p \in Pools, NEW m \in Modes, NEW pending \in DistributeByLimit,
             Settles(u, p, pending, m), Restakes(u, p)
      PROVE  FarmInv'
  <2>1. TypeOK' /\ TokensInv' /\ NoUnderflow' /\ FirstStakeInv' /\ ListedInv'
    BY <1>2, SettledSafe DEF FarmInv
  <2>2. EarnedCovered'
    BY <1>2, SettledCovered DEF FarmInv
  <2>3. RewardsAccounted'
    BY <1>2, SettledAccounted DEF FarmInv
  <2>4. StakesAgree'
    BY <1>2 DEF Restakes
  <2>5. QED
    BY <2>1, <2>2, <2>3, <2>4 DEF FarmInv
<1>3. QED
  BY <1>1, <1>2, StepKinds

\* What users may claim of a pool was earned or is fresh.
LEMMA PoolCovered ==
    ASSUME FarmInv, NEW p \in Pools, NEW t \in Tokens
    PROVE  /\ DueIn(p, t) \in Nat
           /\ DueIn(p, t) * Unit <= EarnedIn(t)[p] + (farm_pending[<<p, t>>] - pending_rewards[<<p, t>>]) * Unit
<1> USE DEF FarmInv
<1> DEFINE d == [u \in Users |-> DueOf(u, p, farm_pending, t)]
           e == EarnedBy(p, t)
           n == Stakes(p)
           k == IF t \in distribution[p] THEN Added(farm_pending, p, t) ELSE 0
           F == farm_pending[<<p, t>>] - pending_rewards[<<p, t>>]
           h == [u \in Users |-> e[u] + k * n[u]]
           x == [u \in Users |-> h[u] + (-Unit) * d[u]]
<1>1. Pays(farm_pending) /\ IsFiniteSet(Users) /\ Unit \in Nat \ {0}
  BY FarmAssumption DEF Pays, TypeOK, PoolTokens
<1>2. /\ F \in Nat /\ k \in Nat /\ k * total_staked[p] <= F * Unit /\ total_staked[p] \in Nat
  <2>1. /\ F \in Nat /\ Added(farm_pending, p, t) \in Nat
        /\ Added(farm_pending, p, t) * total_staked[p] <= F * Unit /\ total_staked[p] \in Nat
    BY <1>1, WeightBounds DEF Fresh, TypeOK
  <2> HIDE DEF F
  <2>2. CASE t \in distribution[p]
    BY <2>1, <2>2
  <2>3. CASE t \notin distribution[p]
    <3>1. k = 0 /\ 0 * total_staked[p] = 0 /\ F * Unit \in Nat
      BY <1>1, <2>1, <2>3
    <3>2. QED
      BY <2>1, <3>1
  <2>4. QED
    BY <2>2, <2>3
<1>3. ASSUME NEW u \in Users
      PROVE  d[u] \in Nat /\ e[u] \in Nat /\ n[u] \in Nat /\ d[u] * Unit <= e[u] + k * n[u]
  <2>1. /\ Due(u, p, t, farm_pending) \in Nat /\ Earned(u, p, t) \in Nat /\ user_staked[<<u, p>>] \in Nat
        /\ Due(u, p, t, farm_pending) * Unit <= Earned(u, p, t) + Added(farm_pending, p, t) * user_staked[<<u, p>>]
    BY <1>1, DueBounds
  <2>2. d[u] = DueOf(u, p, farm_pending, t) /\ e[u] = Earned(u, p, t) /\ n[u] = user_staked[<<u, p>>]
    BY DEF EarnedBy, Stakes
  <2> HIDE DEF d, e, n
  <2>3. CASE t \in distribution[p]
    BY <2>1, <2>2, <2>3 DEF DueOf
  <2>4. CASE t \notin distribution[p]
    <3>1. d[u] = 0 /\ k = 0
      BY <2>2, <2>4 DEF DueOf
    <3>2. 0 * Unit = 0 /\ 0 * n[u] = 0
      BY <1>1, <2>1, <2>2
    <3> HIDE DEF k
    <3>3. QED
      BY <2>1, <2>2, <3>1, <3>2
  <2>5. QED
    BY <2>3, <2>4
<1>4. EarnedIn(t)[p] = SumOver(e, Users) /\ DueIn(p, t) = SumOver(d, Users) /\ total_staked[p] = SumOver(n, Users)
  BY EarnedTypes DEF DueIn, StakesAgree, Stakes
<1>5. \A u \in Users : h[u] = e[u] + k * n[u] /\ x[u] = h[u] + (-Unit) * d[u]
  OBVIOUS
<1> HIDE DEF d, e, n, k, F, h, x
<1>6. ASSUME NEW u \in Users PROVE e[u] \in Int /\ n[u] \in Int /\ h[u] \in Int /\ d[u] \in Int /\ x[u] \in Nat
  <2>1. k * n[u] \in Nat /\ (-Unit) * d[u] = -(d[u] * Unit) /\ d[u] * Unit \in Nat
    BY <1>1, <1>2, <1>3
  <2>2. QED
    BY <1>3, <1>5, <2>1
<1>7. SumOver(h, Users) = SumOver(e, Users) + k * SumOver(n, Users)
  <2>1. \A u \in Users : e[u] \in Int /\ n[u] \in Int /\ h[u] = e[u] + k * n[u]
    BY <1>5, <1>6
  <2>2. k \in Int
    BY <1>2
  <2>3. QED
    BY <1>1, <2>1, <2>2, SumLinear
<1>8. SumOver(x, Users) = SumOver(h, Users) + (-Unit) * SumOver(d, Users)
  <2>1. PICK c \in Int : c = -Unit
    BY <1>1
  <2>2. \A u \in Users : h[u] \in Int /\ d[u] \in Int /\ x[u] = h[u] + c * d[u]
    BY <1>5, <1>6, <2>1
  <2>3. SumOver(x, Users) = SumOver(h, Users) + c * SumOver(d, Users)
    BY <1>1, <2>2, SumLinear
  <2>4. QED
    BY <2>1, <2>3
<1>9. SumOver(x, Users) \in Nat
  BY <1>1, <1>6, SumNat
<1>10. SumOver(d, Users) \in Nat
  BY <1>1, <1>3, SumNat
<1>11. SumOver(e, Users) \in Nat
  BY <1>1, <1>3, SumNat
<1>12. PICK D \in Nat, E \in Nat, N \in Nat : D = SumOver(d, Users) /\ E = SumOver(e, Users) /\ N = total_staked[p]
  BY <1>2, <1>10, <1>11
<1>13. (-Unit) * D = -(D * Unit) /\ D * Unit \in Nat /\ k * N \in Nat /\ F * Unit \in Nat
  BY <1>1, <1>2, <1>12
<1>14. SumOver(x, Users) = E + k * N + (-Unit) * D
  BY <1>4, <1>7, <1>8, <1>12
<1>15. D * Unit <= E + F * Unit
  BY <1>2, <1>9, <1>12, <1>13, <1>14
<1>16. QED
  BY <1>4, <1>12, <1>15 DEF F

LEMMA Covered == FarmInv => FarmSolvent
<1> SUFFICES ASSUME FarmInv, NEW t \in Tokens
             PROVE  treasury_rewards[t] + SumOver([p \in Pools |-> DueIn(p, t)], Pools)
                    <= held[t] + SumOver([p \in Pools |-> farm_pending[<<p, t>>]], Pools)
  BY DEF FarmSolvent
<1> USE DEF FarmInv
<1> DEFINE d == [p \in Pools |-> DueIn(p, t)]
           P == [p \in Pools |-> farm_pending[<<p, t>>]]
           e == EarnedIn(t)
           s == Snapshot(t)
           x == [p \in Pools |-> e[p] + Unit * P[p]]
           y == [p \in Pools |-> x[p] + (-Unit) * s[p]]
           z == [p \in Pools |-> y[p] + (-Unit) * d[p]]
<1>1. IsFiniteSet(Pools) /\ Unit \in Nat \ {0} /\ treasury_rewards[t] \in Nat /\ held[t] \in Nat
  BY FarmAssumption DEF TypeOK
<1>2. ASSUME NEW p \in Pools
      PROVE  /\ d[p] \in Nat /\ P[p] \in Nat /\ e[p] \in Nat /\ s[p] \in Nat
             /\ d[p] * Unit <= e[p] + (P[p] - s[p]) * Unit
  <2>1. d[p] = DueIn(p, t) /\ P[p] = farm_pending[<<p, t>>] /\ s[p] = pending_rewards[<<p, t>>]
    BY DEF Snapshot
  <2>2. DueIn(p, t) \in Nat /\ DueIn(p, t) * Unit <= e[p] + (farm_pending[<<p, t>>] - pending_rewards[<<p, t>>]) * Unit
    BY PoolCovered
  <2>3. e[p] \in Nat /\ s[p] \in Nat /\ farm_pending[<<p, t>>] \in Nat
    BY EarnedTypes DEF TypeOK, PoolTokens
  <2> HIDE DEF d, P, e, s
  <2>4. QED
    BY <2>1, <2>2, <2>3
<1>3. treasury_rewards[t] * Unit + SumOver(e, Pools) <= (held[t] + SumOver(s, Pools)) * Unit
  BY DEF EarnedCovered
<1>4. \A p \in Pools : /\ x[p] = e[p] + Unit * P[p] /\ y[p] = x[p] + (-Unit) * s[p]
                      /\ z[p] = y[p] + (-Unit) * d[p]
  OBVIOUS
<1>5. PICK c \in Int : c = -Unit
  BY <1>1
<1> HIDE DEF d, P, e, s, x, y, z
<1>6. ASSUME NEW p \in Pools
      PROVE  /\ e[p] \in Int /\ P[p] \in Int /\ s[p] \in Int /\ d[p] \in Int
             /\ x[p] \in Int /\ y[p] \in Int /\ z[p] \in Nat
             /\ y[p] = x[p] + c * s[p] /\ z[p] = y[p] + c * d[p]
  <2>1. /\ Unit * P[p] = P[p] * Unit /\ c * s[p] = -(s[p] * Unit) /\ c * d[p] = -(d[p] * Unit)
        /\ (P[p] - s[p]) * Unit = P[p] * Unit - s[p] * Unit
        /\ P[p] * Unit \in Nat /\ s[p] * Unit \in Nat /\ d[p] * Unit \in Nat
    <3>1. PICK i \in Nat, j \in Nat, k \in Nat : i = P[p] /\ j = s[p] /\ k = d[p]
      BY <1>2
    <3>2. Unit * i = i * Unit /\ i * Unit \in Nat
      BY <1>1, <1>5, ProductSigns
    <3>3. c * j = -(j * Unit) /\ j * Unit \in Nat
      BY <1>1, <1>5, ProductSigns
    <3>4. c * k = -(k * Unit) /\ k * Unit \in Nat
      BY <1>1, <1>5, ProductSigns
    <3>5. (i - j) * Unit = i * Unit - j * Unit
      BY <1>1, ProductSums
    <3>6. QED
      BY <3>1, <3>2, <3>3, <3>4, <3>5
  <2>2. y[p] = x[p] + c * s[p] /\ z[p] = y[p] + c * d[p]
    BY <1>4, <1>5
  <2>3. QED
    BY <1>2, <1>4, <2>1, <2>2
<1>7. SumOver(x, Pools) = SumOver(e, Pools) + Unit * SumOver(P, Pools)
  <2>1. \A p \in Pools : e[p] \in Int /\ P[p] \in Int /\ x[p] = e[p] + Unit * P[p]
    BY <1>4, <1>6
  <2>2. Unit \in Int
    BY <1>1
  <2>3. QED
    BY <1>1, <2>1, <2>2, SumLinear
<1>8. SumOver(y, Pools) = SumOver(x, Pools) + c * SumOver(s, Pools)
  <2>1. \A p \in Pools : x[p] \in Int /\ s[p] \in Int /\ y[p] = x[p] + c * s[p]
    BY <1>6
  <2>2. QED
    BY <1>1, <2>1, SumLinear
<1>9. SumOver(z, Pools) = SumOver(y, Pools) + c * SumOver(d, Pools)
  <2>1. \A p \in Pools : y[p] \in Int /\ d[p] \in Int /\ z[p] = y[p] + c * d[p]
    BY <1>6
  <2>2. QED
    BY <1>1, <2>1, SumLinear
<1>10. SumOver(z, Pools) \in Nat
  BY <1>1, <1>6, SumNat
<1>11. SumOver(d, Pools) \in Nat
  BY <1>1, <1>2, SumNat
<1>12. SumOver(e, Pools) \in Nat
  BY <1>1, <1>2, SumNat
<1>13. SumOver(s, Pools) \in Nat
  BY <1>1, <1>2, SumNat
<1>14. SumOver(P, Pools) \in Nat
  BY <1>1, <1>2, SumNat
<1>15. PICK D \in Nat, E \in Nat, S \in Nat, Q \in Nat :
         D = SumOver(d, Pools) /\ E = SumOver(e, Pools) /\ S = SumOver(s, Pools) /\ Q = SumOver(P, Pools)
  BY <1>11, <1>12, <1>13, <1>14
<1>16. PICK T \in Nat, H \in Nat : T = treasury_rewards[t] /\ H = held[t]
  BY <1>1
<1>17. E + Unit * Q + c * S + c * D >= 0
  BY <1>7, <1>8, <1>9, <1>10, <1>15
<1>18. T * Unit + E <= (H + S) * Unit
  BY <1>3, <1>15, <1>16
<1>19. /\ Unit * Q = Q * Unit /\ c * S = -(S * Unit) /\ c * D = -(D * Unit) /\ (H + S) * Unit = H * Unit + S * Unit
       /\ (T + D) * Unit = T * Unit + D * Unit /\ (H + Q) * Unit = H * Unit + Q * Unit
       /\ T * Unit \in Nat /\ D * Unit \in Nat /\ H * Unit \in Nat /\ S * Unit \in Nat /\ Q * Unit \in Nat
  <2>1. Unit \in Nat /\ c \in Int /\ c = -Unit
    BY <1>1, <1>5
  <2>2. Unit * Q = Q * Unit /\ Q * Unit \in Nat
    BY <2>1, ProductSigns
  <2>3. c * S = -(S * Unit) /\ S * Unit \in Nat
    BY <2>1, ProductSigns
  <2>4. c * D = -(D * Unit) /\ D * Unit \in Nat
    BY <2>1, ProductSigns
  <2>5. T * Unit \in Nat /\ H * Unit \in Nat
    BY <2>1, ProductSigns
  <2>6. (H + S) * Unit = H * Unit + S * Unit /\ (H + Q) * Unit = H * Unit + Q * Unit
    BY <2>1, ProductSums
  <2>7. (T + D) * Unit = T * Unit + D * Unit
    BY <2>1, ProductSums
  <2>8. QED
    BY <2>2, <2>3, <2>4, <2>5, <2>6, <2>7
<1>20. (T + D) * Unit <= (H + Q) * Unit
  BY <1>15, <1>17, <1>18, <1>19
<1>21. T + D <= H + Q
  <2>1. PICK v \in Nat, w \in Nat : v = T + D /\ w = H + Q
    OBVIOUS
  <2>2. v * Unit <= w * Unit
    BY <1>20, <2>1
  <2>3. v <= w
    BY <1>1, <2>2, ProductCancels
  <2>4. QED
    BY <2>1, <2>3
<1>22. QED
  BY <1>15, <1>16, <1>21 DEF d, P

-----------------------------------------------------------------------------
(* Theorems *)

LEMMA AlwaysFarmInv == Spec => []FarmInv
BY StartSound, StepSound, PTL DEF Spec

\* No subtraction of the handlers fails: in no reachable state does the snapshot of
\* PENDING_REWARDS exceed what the farm shows, nor the weight of a user that of the pool.
THEOREM NeverUnderflows == Spec => []NoUnderflow
<1>1. FarmInv => NoUnderflow
  BY DEF FarmInv
<1>2. QED
  BY <1>1, AlwaysFarmInv, PTL

\* The books of the farming contract balance in every reachable state: what users and
\* treasury may claim is held or waits at the farm, every booked reward is accounted for, and
\* the farm holds exactly what was staked.
THEOREM FarmBooksBalance == Spec => []FarmBooks
<1>1. FarmInv => FarmBooks
  BY Covered DEF FarmInv, FarmBooks
<1>2. QED
  BY <1>1, AlwaysFarmInv, PTL

-----------------------------------------------------------------------------
(* What a staker is shown *)

\* Rewards only of tokens and pools that the step does not settle: the reward that is due
\* after the step is the one that the handlers would have found.
LEMMA DueKept ==
    ASSUME NEW v \in Users, NEW q \in Pools, NEW t \in Tokens, NEW pending,
           farm_pending'[<<q, t>>] = pending[<<q, t>>], pending_rewards'[<<q, t>>] = pending_rewards[<<q, t>>],
           rewards_weight'[<<q, t>>] = rewards_weight[<<q, t>>], total_staked'[q] = total_staked[q],
           reward_info'[<<v, <<q, t>>>>] = reward_info[<<v, <<q, t>>>>],
           user_staked'[<<v, q>>] = user_staked[<<v, q>>]
    PROVE  Due(v, q, t, farm_pending)' = Due(v, q, t, pending)
<1>1. Fresh(farm_pending, q, t)' = Fresh(pending, q, t)
  BY DEF Fresh
<1>2. Weight(farm_pending, q, t)' = Weight(pending, q, t)
  BY <1>1 DEF Weight, FromRatio
<1>3. InfoOf(v, q, t, Weight(farm_pending, q, t))' = InfoOf(v, q, t, Weight(pending, q, t))
  BY <1>2 DEF InfoOf
<1>4. QED
  BY <1>2, <1>3 DEF Due

\* In the settled pool u is due nothing or what was kept, and the others what they were.
LEMMA DueSettled ==
    ASSUME TypeOK, TokensInv, NoUnderflow, NEW u \in Users, NEW p \in Pools, NEW pending, NEW m \in Modes,
           Settles(u, p, pending, m), Restakes(u, p), NEW t \in distribution[p], NEW v \in Users
    PROVE  Due(v, p, t, farm_pending)' = IF v = u /\ m = "pay" THEN 0 ELSE Due(v, p, t, pending)
<1>0. t \in Tokens
  BY DEF TokensInv
<1>1. Pays(pending) /\ Settled(u, p, pending, m, p, t) /\ Unit \in Nat \ {0}
  BY <1>0, SettledAt, FarmAssumption DEF Settles
<1> DEFINE w == Weight(pending, p, t)
           n == user_staked'[<<v, p>>]
<1>2. w \in Nat /\ n \in Nat /\ Due(v, p, t, pending) \in Nat
  BY <1>0, <1>1, WeightBounds, DueBounds DEF Restakes, Positions
<1>3. Weight(farm_pending, p, t)' = w
  <2>1. pending_rewards'[<<p, t>>] = farm_pending'[<<p, t>>] /\ rewards_weight'[<<p, t>>] = w
    BY <1>1 DEF Settled
  <2>2. farm_pending'[<<p, t>>] \in Nat
    BY <1>0, SettledTypes DEF PoolTokens
  <2>3. Fresh(farm_pending, p, t)' = 0
    BY <2>1, <2>2 DEF Fresh
  <2>4. Weight(farm_pending, p, t)' = w + IF total_staked'[p] = 0 THEN 0 ELSE (0 * Unit) \div total_staked'[p]
    BY <2>1, <2>3 DEF Weight, FromRatio
  <2>5. total_staked'[p] \in Nat
    BY DEF Restakes
  <2>6. total_staked'[p] # 0 => (0 * Unit) \div total_staked'[p] = 0
    <3>1. 0 * Unit = 0
      BY <1>1
    <3>2. ASSUME NEW k \in Nat \ {0} PROVE 0 \div k = 0
      OBVIOUS
    <3>3. QED
      BY <2>5, <3>1, <3>2
  <2> HIDE DEF w
  <2>7. QED
    BY <1>2, <2>4, <2>6
<1>4. CASE v = u
  <2> DEFINE kept == IF m = "pay" THEN 0 ELSE Due(u, p, t, pending)
  <2>1. reward_info'[<<v, <<p, t>>>>] = [pool_reward_weight |-> w, pending_reward |-> kept]
    BY <1>1, <1>4 DEF Settled
  <2>2. kept \in Nat
    BY <1>2, <1>4
  <2> HIDE DEF kept, w
  <2>3. InfoOf(v, p, t, Weight(farm_pending, p, t))' = [pool_reward_weight |-> w, pending_reward |-> kept]
    <3>1. reward_info'[<<v, <<p, t>>>>] # NoInfo
      <4>1. reward_info'[<<v, <<p, t>>>>].pending_reward = kept
        BY <2>1
      <4>2. NoInfo.pending_reward = -1
        BY DEF NoInfo
      <4>3. QED
        BY <2>2, <4>1, <4>2
    <3>2. QED
      BY <2>1, <3>1 DEF InfoOf
  <2>4. Due(v, p, t, farm_pending)' = kept + ((w - w) * n) \div Unit
    BY <1>3, <2>3 DEF Due
  <2> HIDE DEF n
  <2>5. ((w - w) * n) \div Unit = 0
    <3>1. (w - w) * n = 0
      BY <1>2
    <3>2. 0 \div Unit = 0
      BY <1>1
    <3>3. QED
      BY <3>1, <3>2
  <2>6. Due(v, p, t, farm_pending)' = kept
    BY <2>2, <2>4, <2>5
  <2>7. QED
    BY <1>4, <2>6 DEF kept
<1>5. CASE v # u
  <2>1. reward_info'[<<v, <<p, t>>>>] = reward_info[<<v, <<p, t>>>>] /\ n = user_staked[<<v, p>>]
    BY <1>1, <1>5 DEF Settled, Restakes
  <2>2. InfoOf(v, p, t, Weight(farm_pending, p, t))' = InfoOf(v, p, t, w)
    BY <1>3, <2>1 DEF InfoOf
  <2>3. Due(v, p, t, farm_pending)' = Due(v, p, t, pending)
    BY <1>3, <2>1, <2>2 DEF Due
  <2>4. QED
    BY <1>5, <2>3
<1>6. QED
  BY <1>4, <1>5

\* A larger reward is due after the step, of tokens that the pool still pays.
LEMMA ShownGrows ==
    ASSUME TypeOK, NoUnderflow, NEW v \in Users, NEW q \in Pools, NEW t \in Tokens,
           treasury_fee <= fee_multiplier, treasury_fee' = treasury_fee,
           total_staked[q] > 0 => total_staked'[q] > 0, distribution[q] \subseteq distribution'[q],
           NEW d \in Nat, t \in distribution'[q] => Due(v, q, t, farm_pending)' = d,
           t \in distribution[q] => Due(v, q, t, farm_pending) <= d
    PROVE  query_user_reward_in_pool(v, q, t)' >= query_user_reward_in_pool(v, q, t)
<1>0. Pays(farm_pending)
  BY DEF Pays, TypeOK, PoolTokens
<1> DEFINE c == Due(v, q, t, farm_pending)
<1>1. c \in Nat
  BY <1>0, DueBounds
<1>2. NetOf(d) \in Nat
  BY NetBounds
<1>3. t \in distribution[q] => NetOf(c) \in Nat /\ NetOf(c) <= NetOf(d)
  BY <1>1, NetBounds, NetGrows
<1>4. t \in distribution'[q] => NetOf(Due(v, q, t, farm_pending))' = NetOf(d)
  BY DEF NetOf
<1>5. query_user_reward_in_pool(v, q, t)' \in {0, NetOf(d)}
  BY <1>4 DEF query_user_reward_in_pool
<1>6. CASE total_staked[q] > 0 /\ t \in distribution[q]
  <2>1. query_user_reward_in_pool(v, q, t) = NetOf(c)
    BY <1>6 DEF query_user_reward_in_pool
  <2>2. query_user_reward_in_pool(v, q, t)' = NetOf(d)
    BY <1>4, <1>6 DEF query_user_reward_in_pool
  <2>3. QED
    BY <1>2, <1>3, <1>6, <2>1, <2>2
<1>7. CASE ~(total_staked[q] > 0 /\ t \in distribution[q])
  <2>1. query_user_reward_in_pool(v, q, t) = 0
    BY <1>7 DEF query_user_reward_in_pool
  <2>2. QED
    BY <1>2, <1>5, <2>1
<1>8. QED
  BY <1>6, <1>7

LEMMA RestsShow ==
    ASSUME FarmInv, Rests, NEW v \in Users, NEW q \in Pools, NEW t \in Tokens,
           treasury_fee <= fee_multiplier, treasury_fee' = treasury_fee
    PROVE  query_user_reward_in_pool(v, q, t)' >= query_user_reward_in_pool(v, q, t)
<1> USE DEF FarmInv
<1>1. PICK pending : pending = farm_pending'
  OBVIOUS
<1>2. Pays(pending)
  BY <1>1 DEF Rests
<1>3. Due(v, q, t, farm_pending)' = Due(v, q, t, pending)
  BY <1>1, DueKept DEF Rests, rewardVars
<1>4. Due(v, q, t, pending) \in Nat /\ Due(v, q, t, farm_pending) <= Due(v, q, t, pending)
  BY <1>2, DueBounds, DueGrows
<1>5. distribution[q] \subseteq distribution'[q] /\ total_staked'[q] = total_staked[q]
  BY DEF Rests
<1>6. PICK d \in Nat : d = Due(v, q, t, pending)
  BY <1>4
<1>7. QED
  BY <1>3, <1>4, <1>5, <1>6, ShownGrows

LEMMA SettlesShow ==
    ASSUME FarmInv, NEW u \in Users, NEW p \in Pools, NEW pending, NEW m \in Modes,
           Settles(u, p, pending, m), Restakes(u, p),
           NEW v \in Users, NEW q \in Pools, NEW t \in Tokens, treasury_fee <= fee_multiplier,
           wallet'[<<v, t>>] = wallet[<<v, t>>]
    PROVE  query_user_reward_in_pool(v, q, t)' >= query_user_reward_in_pool(v, q, t)
<1> USE DEF FarmInv
<1>1. Pays(pending) /\ treasury_fee' = treasury_fee /\ distribution' = distribution
  BY DEF Settles
<1>2. Due(v, q, t, pending) \in Nat /\ Due(v, q, t, farm_pending) \in Nat /\ Due(v, q, t, farm_pending) <= Due(v, q, t, pending)
  BY <1>1, DueBounds, DueGrows
<1>3. PICK d \in Nat : d = Due(v, q, t, pending)
  BY <1>2
<1>4. total_staked[q] > 0 => total_staked'[q] > 0
  <2>1. total_staked[q] \in Nat /\ total_staked'[q] \in Nat /\ (total_staked'[q] = 0 => total_staked[q] = 0)
    BY DEF TypeOK, Restakes
  <2>2. QED
    BY <2>1
<1>5. CASE q # p
  <2>1. Settled(u, p, pending, m, q, t)
    BY SettledAt
  <2>2. Due(v, q, t, farm_pending)' = d
    <3>1. /\ farm_pending'[<<q, t>>] = pending[<<q, t>>] /\ pending_rewards'[<<q, t>>] = pending_rewards[<<q, t>>]
          /\ rewards_weight'[<<q, t>>] = rewards_weight[<<q, t>>]
          /\ reward_info'[<<v, <<q, t>>>>] = reward_info[<<v, <<q, t>>>>]
      BY <1>5, <2>1 DEF Settled
    <3>2. total_staked'[q] = total_staked[q] /\ user_staked'[<<v, q>>] = user_staked[<<v, q>>]
      BY <1>5 DEF Restakes
    <3>3. QED
      BY <1>3, <3>1, <3>2, DueKept
  <2>3. QED
    BY <1>1, <1>2, <1>3, <1>4, <2>2, ShownGrows
<1>6. CASE q = p /\ ~(v = u /\ m = "pay")
  <2>1. ASSUME t \in distribution[q] PROVE Due(v, q, t, farm_pending)' = d
    BY <1>3, <1>6, <2>1, DueSettled
  <2>2. QED
    BY <1>1, <1>2, <1>3, <1>4, <2>1, ShownGrows
<1>7. CASE q = p /\ v = u /\ m = "pay"
  <2>1. CASE t \notin distribution[p]
    BY <1>1, <1>7, <2>1 DEF query_user_reward_in_pool
  <2>2. CASE t \in distribution[p]
    <3>1. Paid(u, p, pending, m, t)
      BY PaidAt
    <3>2. wallet'[<<u, t>>] = wallet[<<u, t>>] + Received(u, p, t, pending, m)
      BY <3>1 DEF Paid
    <3>3. Received(u, p, t, pending, m) = NetOf(d)
      BY <1>3, <1>7, <2>2 DEF Received, DueOf
    <3>4. NetOf(d) \in Nat /\ wallet[<<u, t>>] \in Nat
      BY NetBounds DEF TypeOK
    <3>5. NetOf(d) = 0
      BY <1>7, <3>2, <3>3, <3>4
    <3>6. NetOf(Due(v, q, t, farm_pending)) \in Nat /\ NetOf(Due(v, q, t, farm_pending)) <= NetOf(d)
      BY <1>2, <1>3, NetBounds, NetGrows
    <3>7. query_user_reward_in_pool(v, q, t) = 0
      BY <3>5, <3>6 DEF query_user_reward_in_pool
    <3>8. Due(v, q, t, farm_pending)' = 0
      BY <1>7, <2>2, DueSettled
    <3>9. NetOf(Due(v, q, t, farm_pending))' = NetOf(0)
      BY <1>1, <3>8 DEF NetOf
    <3>10. NetOf(0) \in Nat
      BY NetBounds
    <3>11. query_user_reward_in_pool(v, q, t)' \in Nat
      BY <3>9, <3>10 DEF query_user_reward_in_pool
    <3>12. QED
      BY <3>7, <3>11
  <2>3. QED
    BY <2>1, <2>2
<1>8. QED
  BY <1>5, <1>6, <1>7

LEMMA ClaimPays ==
    ASSUME FarmInv, NEW u \in Users, NEW p \in Pools, execute_claim_reward(u, p), NEW t \in Tokens
    PROVE  LET paid == wallet'[<<u, t>>] - wallet[<<u, t>>] IN
             /\ paid >= query_user_reward_in_pool(u, p, t)
             /\ total_rewards'[<<p, t>>] = total_rewards[<<p, t>>] + Fresh(farm_pending, p, t)
                => paid = query_user_reward_in_pool(u, p, t)
<1> USE DEF FarmInv
<1>1. PICK pending \in DistributeByLimit : Settles(u, p, pending, "pay") /\ Restakes(u, p)
  BY ClaimSettles
<1>2. "pay" \in Modes /\ Pays(pending) /\ Pays(farm_pending)
  BY <1>1 DEF Modes, Settles, Pays, TypeOK, PoolTokens
<1>3. treasury_fee <= fee_multiplier
  BY <1>1 DEF Settles, PayRewards
<1>4. total_staked[p] > 0
  BY DEF execute_claim_reward, handle_claim, StakesAgree
<1>5. Settled(u, p, pending, "pay", p, t) /\ Paid(u, p, pending, "pay", t)
  BY <1>1, <1>2, SettledAt, PaidAt
<1>6. wallet'[<<u, t>>] - wallet[<<u, t>>] = NetOf(DueOf(u, p, pending, t))
  <2>1. wallet'[<<u, t>>] = wallet[<<u, t>>] + Received(u, p, t, pending, "pay") /\ Received(u, p, t, pending, "pay") \in Nat
    BY <1>5 DEF Paid
  <2>2. wallet[<<u, t>>] \in Nat
    BY DEF TypeOK
  <2>3. QED
    BY <2>1, <2>2 DEF Received
<1>7. CASE t \notin distribution[p]
  <2>1. NetOf(DueOf(u, p, pending, t)) = 0
    <3>1. DueOf(u, p, pending, t) = 0
      BY <1>7 DEF DueOf
    <3>2. NetOf(0) \in Nat /\ NetOf(0) <= 0
      BY <1>3, NetBounds
    <3>3. QED
      BY <3>1, <3>2
  <2>2. query_user_reward_in_pool(u, p, t) = 0
    BY <1>7 DEF query_user_reward_in_pool
  <2>3. QED
    BY <1>6, <2>1, <2>2
<1>8. CASE t \in distribution[p]
  <2> DEFINE c == Due(u, p, t, farm_pending)
             d == Due(u, p, t, pending)
  <2>1. DueOf(u, p, pending, t) = d /\ query_user_reward_in_pool(u, p, t) = NetOf(c)
    BY <1>4, <1>8 DEF DueOf, query_user_reward_in_pool
  <2>2. c \in Nat /\ d \in Nat /\ c <= d
    BY <1>2, DueBounds, DueGrows
  <2>3. NetOf(c) <= NetOf(d) /\ NetOf(c) \in Nat /\ NetOf(d) \in Nat
    BY <1>3, <2>2, NetBounds, NetGrows
  <2>4. ASSUME total_rewards'[<<p, t>>] = total_rewards[<<p, t>>] + Fresh(farm_pending, p, t) PROVE d = c
    <3>1. total_rewards'[<<p, t>>] = total_rewards[<<p, t>>] + Fresh(pending, p, t)
      BY <1>5, <1>8 DEF Settled
    <3>2. total_rewards[<<p, t>>] \in Nat /\ Fresh(pending, p, t) \in Nat /\ Fresh(farm_pending, p, t) \in Nat
      BY <1>2, WeightBounds DEF TypeOK, PoolTokens
    <3>3. Fresh(pending, p, t) = Fresh(farm_pending, p, t)
      BY <2>4, <3>1, <3>2
    <3>4. Weight(pending, p, t) = Weight(farm_pending, p, t)
      BY <3>3 DEF Weight
    <3>5. QED
      BY <3>4 DEF Due
  <2> HIDE DEF c, d
  <2>5. QED
    BY <1>6, <2>1, <2>3, <2>4
<1>9. QED
  BY <1>7, <1>8

\* Stakers keep what they earned, for every number of stakers, pools and tokens and every
\* rounding: no step lowers the reward shown to a user but paying that user, a claim pays at
\* least what was shown, and a pool with stakes keeps its liquidity token.
THEOREM StakersAlwaysKept == Spec => StakersKept
<1>1. ASSUME FarmInv, [Next]_vars, NEW v \in Users, NEW q \in Pools, NEW t \in Tokens
      PROVE  \/ treasury_fee > fee_multiplier \/ treasury_fee' # treasury_fee
             \/ wallet'[<<v, t>>] # wallet[<<v, t>>]
             \/ query_user_reward_in_pool(v, q, t)' >= query_user_reward_in_pool(v, q, t)
  <2>1. SUFFICES ASSUME ~(treasury_fee > fee_multiplier), treasury_fee' = treasury_fee,
                        wallet'[<<v, t>>] = wallet[<<v, t>>]
                 PROVE  query_user_reward_in_pool(v, q, t)' >= query_user_reward_in_pool(v, q, t)
    OBVIOUS
  <2>2. treasury_fee <= fee_multiplier
    BY <1>1, <2>1, FarmAssumption DEF FarmInv, TypeOK
  <2>3. CASE Rests
    BY <1>1, <2>1, <2>2, <2>3, RestsShow
  <2>4. ASSUME NEW u \in Users, NEW p \in Pools, NEW m \in Modes, NEW pending \in DistributeByLimit,
               Settles(u, p, pending, m), Restakes(u, p)
        PROVE  query_user_reward_in_pool(v, q, t)' >= query_user_reward_in_pool(v, q, t)
    BY <1>1, <2>1, <2>2, <2>4, SettlesShow
  <2>5. QED
    BY <1>1, <2>3, <2>4, StepKinds
<1>2. ASSUME FarmInv, [Next]_vars, NEW p \in Pools, total_staked[p] > 0
      PROVE  stakeable'[p] = stakeable[p]
  <2>1. stakeable[p] # NotListed
    BY <1>2 DEF FarmInv, ListedInv
  <2>2. CASE Rests
    BY <2>1, <2>2 DEF Rests
  <2>3. ASSUME NEW u \in Users, NEW q \in Pools, NEW m \in Modes, NEW pending \in DistributeByLimit,
               Settles(u, q, pending, m)
        PROVE  stakeable'[p] = stakeable[p]
    BY <2>3 DEF Settles
  <2>4. QED
    BY <1>2, <2>2, <2>3, StepKinds
<1>3. FarmInv /\ [Next]_vars =>
        [\A u \in Users, p \in Pools, t \in Tokens :
           \/ treasury_fee > fee_multiplier \/ treasury_fee' # treasury_fee
           \/ wallet'[<<u, t>>] # wallet[<<u, t>>]
           \/ query_user_reward_in_pool(u, p, t)' >= query_user_reward_in_pool(u, p, t)]_vars
  BY <1>1
<1>4. FarmInv /\ [Next]_vars => [\A p \in Pools : total_staked[p] > 0 => stakeable'[p] = stakeable[p]]_vars
  BY <1>2
<1>5. FarmInv /\ [Next]_vars =>
        [\A u \in Users, p \in Pools : execute_claim_reward(u, p) =>
           \A t \in Tokens : LET paid == wallet'[<<u, t>>] - wallet[<<u, t>>] IN
               /\ paid >= query_user_reward_in_pool(u, p, t)
               /\ total_rewards'[<<p, t>>] = total_rewards[<<p, t>>] + Fresh(farm_pending, p, t)
                  => paid = query_user_reward_in_pool(u, p, t)]_vars
  BY ClaimPays
<1>6. QED
  BY <1>3, <1>4, <1>5, StartSound, StepSound, PTL
     DEF Spec, StakersKept, NoDilution, LiquidityTokenFixed, ClaimPaysWhatIsShown

=============================================================================
