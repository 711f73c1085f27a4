---------------------------- MODULE VaultProofs ----------------------------
(***************************************************************************)
(* Proofs about the two bToken vaults.  VaultInv is what makes a vault     *)
(* solvent: it compares what is held with what is owed before anything is  *)
(* rounded.  The bWYND vault (BwyndSystem) comes first, with transactions  *)
(* of one step.  The bLOOP vault (BloopSystem) keeps the same books, but   *)
(* its transactions take many messages: the second half follows them from  *)
(* stage to stage.  The systems share constants and names of variables,    *)
(* and no theorem is about both.  SystemConstants is the assumption of     *)
(* BloopSystem on its constants, which TLC evaluates in the run of bLOOP.  *)
(***************************************************************************)
EXTENDS BwyndSystem, SumTheorems, SequenceTheorems, TLAPS

-----------------------------------------------------------------------------
(* Arithmetic *)

LEMMA QuotientBounds ==
    ASSUME NEW n \in Nat, NEW d \in Nat \ {0}
    PROVE  n \div d \in Nat /\ (n \div d) * d <= n /\ n < (n \div d) * d + d
  BY SMT

LEMMA ProductType == ASSUME NEW x \in Nat, NEW y \in Nat PROVE x * y \in Nat
  OBVIOUS

LEMMA ProductGrows ==
    ASSUME NEW x \in Nat, NEW y \in Nat, NEW k \in Nat, x <= y
    PROVE  x * k <= y * k
<1>1. PICK c \in Nat : y = x + c
  BY SMT
<1>2. y * k = x * k + c * k /\ c * k \in Nat /\ x * k \in Nat
  BY <1>1
<1>3. QED
  BY <1>2

LEMMA ProductCancels ==
    ASSUME NEW x \in Int, NEW y \in Int, NEW k \in Nat \ {0}, x * k <= y * k
    PROVE  x <= y
<1>1. ASSUME x > y PROVE FALSE
  <2>1. PICK c \in Nat : x = y + 1 + c
    BY <1>1
  <2>2. x * k = y * k + k + c * k /\ c * k \in Nat /\ y * k \in Int
    BY <2>1
  <2>3. QED
    BY <2>2
<1>2. QED
  BY <1>1

\* The two fees of a reward are at most the reward.
LEMMA FeesBounded ==
    ASSUME NEW x \in Nat
    PROVE  /\ Fee(x, treasury_fee) \in Nat /\ Fee(x, syne_staking_fee) \in Nat
           /\ Fee(x, treasury_fee) + Fee(x, syne_staking_fee) <= x
<1> DEFINE t == Fee(x, treasury_fee)
           s == Fee(x, syne_staking_fee)
           xt == x * treasury_fee
           xs == x * syne_staking_fee
<1>1. Unit \in Nat \ {0} /\ xt \in Nat /\ xs \in Nat
  BY FeesAssumption
<1>2. t = xt \div Unit /\ s = xs \div Unit
  BY DEF Fee
<1>3. xt + xs = (treasury_fee + syne_staking_fee) * x
  BY FeesAssumption
<1>4. (treasury_fee + syne_staking_fee) * x <= Unit * x
  BY FeesAssumption, ProductGrows
<1>5. Unit * x = x * Unit
  BY <1>1
<1> HIDE DEF xt, xs, t, s
<1>6. t \in Nat /\ s \in Nat /\ t * Unit <= xt /\ s * Unit <= xs
  BY <1>1, <1>2, QuotientBounds
<1>7. (t + s) * Unit = t * Unit + s * Unit /\ t * Unit \in Nat /\ s * Unit \in Nat /\ x * Unit \in Nat
  BY <1>1, <1>6
<1>8. (t + s) * Unit <= x * Unit
  BY <1>1, <1>3, <1>4, <1>5, <1>6, <1>7
<1>9. t + s <= x
  BY <1>1, <1>6, <1>8, ProductCancels
<1>10. QED
  BY <1>6, <1>9 DEF t, s

-----------------------------------------------------------------------------
(* The books of the vault *)

StakesOf(stakes) == [u \in Users |-> stakes[u].stake]

\* What the accounts have earned, in units of 1/Unit.
EarnedOf(total, stakes) == [u \in Users |-> (total.power - stakes[u].power_diff) * stakes[u].stake]

\* What is owed without rewards.
FixedDebt(total) == total.staked + total.pending_treasury_rewards + total.pending_syne_staking_rewards

\* The stakes add up, no account is ahead of the vault's power, and what is held covers what
\* is owed, exactly and not only after rounding.
VaultInv(total, stakes, held) ==
    /\ total \in TokenInfo /\ stakes \in [Users -> StakingInfo] /\ held \in Nat
    /\ total.staked = SumOver(StakesOf(stakes), Users)
    /\ \A u \in Users : stakes[u].power_diff <= total.power
    /\ FixedDebt(total) * Unit + SumOver(EarnedOf(total, stakes), Users) <= held * Unit

LEMMA RowTypes ==
    ASSUME NEW total, NEW stakes, NEW held, VaultInv(total, stakes, held), NEW u \in Users
    PROVE  /\ stakes[u].stake \in Nat /\ stakes[u].power_diff \in Nat
           /\ total.power \in Nat /\ stakes[u].power_diff <= total.power
           /\ total.power - stakes[u].power_diff \in Nat
           /\ EarnedOf(total, stakes)[u] \in Nat
           /\ StakesOf(stakes)[u] = stakes[u].stake
           /\ EarnedOf(total, stakes)[u] = (total.power - stakes[u].power_diff) * stakes[u].stake
<1>1. stakes[u] \in StakingInfo /\ total \in TokenInfo /\ stakes[u].power_diff <= total.power
  BY DEF VaultInv
<1>2. stakes[u].stake \in Nat /\ stakes[u].power_diff \in Nat /\ total.power \in Nat
  BY <1>1 DEF StakingInfo, TokenInfo
<1>3. total.power - stakes[u].power_diff \in Nat
  BY <1>1, <1>2
<1>4. EarnedOf(total, stakes)[u] = (total.power - stakes[u].power_diff) * stakes[u].stake
  BY DEF EarnedOf
<1>5. (total.power - stakes[u].power_diff) * stakes[u].stake \in Nat
  BY <1>2, <1>3, ProductType
<1>6. QED
  BY <1>1, <1>2, <1>3, <1>4, <1>5 DEF StakesOf

\* A reward that arrives covers the fees and the power it gives.
LEMMA RewardArrives ==
    ASSUME NEW total, NEW stakes, NEW held, VaultInv(total, stakes, held), NEW r \in Nat
    PROVE  VaultInv(update_total_rewards(total, r), stakes, held + r)
<1> DEFINE new == update_total_rewards(total, r)
           t == Fee(r, treasury_fee)
           s == Fee(r, syne_staking_fee)
           n == r - t - s
           x == IF total.staked > 0 THEN (n * Unit) \div total.staked ELSE 0
           old == EarnedOf(total, stakes)
           more == EarnedOf(new, stakes)
<1>1. t \in Nat /\ s \in Nat /\ n \in Nat /\ Unit \in Nat \ {0} /\ n + t + s = r
  BY FeesBounded, FeesAssumption
<1>2. /\ total.staked \in Nat /\ total.pending_treasury_rewards \in Nat
      /\ total.pending_syne_staking_rewards \in Nat /\ total.power \in Nat
      /\ total \in TokenInfo /\ held \in Nat
  BY DEF VaultInv, TokenInfo
<1>3. n * Unit \in Nat
  BY <1>1, ProductType
<1> HIDE DEF n
<1>4. x \in Nat /\ x * total.staked <= n * Unit
  <2>1. CASE total.staked > 0
    <3>1. total.staked \in Nat \ {0}
      BY <1>2, <2>1
    <3>2. QED
      BY <2>1, <3>1, <1>3, QuotientBounds
  <2>2. CASE ~(total.staked > 0)
    BY <2>2, <1>2, <1>3
  <2>3. QED
    BY <2>1, <2>2
<1>5. new = [staked |-> total.staked,
             pending_treasury_rewards |-> total.pending_treasury_rewards + t,
             pending_syne_staking_rewards |-> total.pending_syne_staking_rewards + s,
             power |-> total.power + x]
  BY DEF update_total_rewards, n
<1> HIDE DEF x, t, s, new
<1>6. /\ new \in TokenInfo /\ new.staked = total.staked /\ new.power = total.power + x
      /\ new.pending_treasury_rewards = total.pending_treasury_rewards + t
      /\ new.pending_syne_staking_rewards = total.pending_syne_staking_rewards + s
  BY <1>1, <1>2, <1>4, <1>5 DEF TokenInfo
<1>7. ASSUME NEW u \in Users
      PROVE  old[u] \in Int /\ StakesOf(stakes)[u] \in Int /\ more[u] = old[u] + x * StakesOf(stakes)[u]
  <2>1. /\ stakes[u].stake \in Nat /\ stakes[u].power_diff \in Nat /\ old[u] \in Nat
        /\ StakesOf(stakes)[u] = stakes[u].stake
        /\ old[u] = (total.power - stakes[u].power_diff) * stakes[u].stake
    BY RowTypes
  <2>2. more[u] = (total.power + x - stakes[u].power_diff) * stakes[u].stake
    <3>1. more[u] = (new.power - stakes[u].power_diff) * stakes[u].stake
      BY DEF EarnedOf
    <3>2. QED
      BY <1>2, <1>4, <1>6, <2>1, <3>1
  <2>3. (total.power + x - stakes[u].power_diff) * stakes[u].stake
            = (total.power - stakes[u].power_diff) * stakes[u].stake + x * stakes[u].stake
    BY <2>1, <1>2, <1>4
  <2>4. QED
    BY <2>1, <2>2, <2>3
<1>8. SumOver(more, Users) = SumOver(old, Users) + x * SumOver(StakesOf(stakes), Users)
  <2>1. x \in Int /\ IsFiniteSet(Users)
    BY <1>4, VaultUsersAssumption
  <2> HIDE DEF old, more
  <2>2. QED
    BY <1>7, <2>1, SumLinear
<1>9. SumOver(old, Users) \in Int
  <2>1. \A u \in Users : old[u] \in Int
    BY <1>7
  <2> HIDE DEF old
  <2>2. QED
    BY <2>1, VaultUsersAssumption, SumType
<1>10. /\ total.staked = SumOver(StakesOf(stakes), Users)
       /\ FixedDebt(total) * Unit + SumOver(old, Users) <= held * Unit
  BY DEF VaultInv
<1>11. FixedDebt(total) \in Nat /\ FixedDebt(new) = FixedDebt(total) + t + s
  BY <1>1, <1>2, <1>6 DEF FixedDebt
<1> DEFINE d == FixedDebt(total)
<1>12. (d + t + s) * Unit = d * Unit + t * Unit + s * Unit /\ (held + r) * Unit = held * Unit + r * Unit
  BY <1>1, <1>2, <1>11
<1>13. r * Unit = n * Unit + t * Unit + s * Unit
  BY <1>1
<1>14. /\ d * Unit \in Nat /\ t * Unit \in Nat /\ s * Unit \in Nat /\ held * Unit \in Nat
       /\ x * total.staked \in Nat
  BY <1>1, <1>2, <1>4, <1>11
<1> HIDE DEF d, old, more
<1>15. FixedDebt(new) * Unit + SumOver(more, Users) <= (held + r) * Unit
  <2> DEFINE so == SumOver(old, Users)
             sm == SumOver(more, Users)
             xs == x * total.staked
  <2>1. sm = so + xs /\ so \in Int /\ xs \in Nat /\ xs <= n * Unit
    BY <1>4, <1>8, <1>9, <1>10, <1>14
  <2>2. d * Unit + so <= held * Unit
    BY <1>10 DEF d
  <2>3. FixedDebt(new) * Unit = d * Unit + t * Unit + s * Unit
    BY <1>11, <1>12 DEF d
  <2>4. (held + r) * Unit = held * Unit + n * Unit + t * Unit + s * Unit
    BY <1>3, <1>12, <1>13, <1>14
  <2> HIDE DEF so, sm, xs
  <2>5. FixedDebt(new) * Unit + sm <= (held + r) * Unit
    BY <2>1, <2>2, <2>3, <2>4, <1>14, <1>3
  <2>6. QED
    BY <2>5 DEF sm
<1>16. stakes \in [Users -> StakingInfo] /\ \A u \in Users : stakes[u].power_diff <= new.power
  <2>1. stakes \in [Users -> StakingInfo]
    BY DEF VaultInv
  <2>2. ASSUME NEW u \in Users PROVE stakes[u].power_diff <= new.power
    BY RowTypes, <1>2, <1>4, <1>6
  <2>3. QED
    BY <2>1, <2>2
<1>17. held + r \in Nat
  BY <1>2
<1>18. QED
  BY <1>6, <1>10, <1>15, <1>16, <1>17 DEF VaultInv, new, more

LEMMA SumTypes ==
    ASSUME NEW total, NEW stakes, NEW held, VaultInv(total, stakes, held)
    PROVE  /\ SumOver(EarnedOf(total, stakes), Users) \in Nat
           /\ \A u \in Users : EarnedOf(total, stakes)[u] <= SumOver(EarnedOf(total, stakes), Users)
           /\ \A u \in Users : stakes[u].stake <= total.staked
           /\ total.staked \in Nat /\ FixedDebt(total) \in Nat /\ total.staked <= FixedDebt(total)
<1>1. \A u \in Users : EarnedOf(total, stakes)[u] \in Nat /\ StakesOf(stakes)[u] \in Nat /\ StakesOf(stakes)[u] = stakes[u].stake
  BY RowTypes
<1>2. total.staked \in Nat /\ FixedDebt(total) \in Nat /\ total.staked <= FixedDebt(total)
  BY DEF VaultInv, TokenInfo, FixedDebt
<1>3. /\ SumOver(EarnedOf(total, stakes), Users) \in Nat
      /\ \A u \in Users : EarnedOf(total, stakes)[u] <= SumOver(EarnedOf(total, stakes), Users)
  BY <1>1, VaultUsersAssumption, SumNat
<1>4. \A u \in Users : StakesOf(stakes)[u] <= SumOver(StakesOf(stakes), Users)
  BY <1>1, VaultUsersAssumption, SumNat
<1>5. total.staked = SumOver(StakesOf(stakes), Users)
  BY DEF VaultInv
<1>6. QED
  BY <1>1, <1>2, <1>3, <1>4, <1>5

\* The reward that is paid, times Unit, is at most what the account has earned.
LEMMA RewardBounded ==
    ASSUME NEW total, NEW stakes, NEW held, VaultInv(total, stakes, held), NEW u \in Users
    PROVE  /\ PendingReward(total, stakes[u]) \in Nat
           /\ PendingReward(total, stakes[u]) * Unit <= EarnedOf(total, stakes)[u]
<1>1. /\ EarnedOf(total, stakes)[u] \in Nat
      /\ EarnedOf(total, stakes)[u] = (total.power - stakes[u].power_diff) * stakes[u].stake
      /\ total.power >= stakes[u].power_diff
  BY RowTypes
<1>2. PendingReward(total, stakes[u]) = EarnedOf(total, stakes)[u] \div Unit
  BY <1>1 DEF PendingReward, Monus
<1>3. Unit \in Nat \ {0}
  BY FeesAssumption
<1>4. QED
  BY <1>1, <1>2, <1>3, QuotientBounds

\* The totals and the stakes after u has put in, taken out and got the reward.
Settles(total, stakes, u, put, take, new, after) ==
    /\ new \in TokenInfo /\ new.staked = total.staked + put - take /\ new.power = total.power
    /\ new.pending_treasury_rewards = total.pending_treasury_rewards
    /\ new.pending_syne_staking_rewards = total.pending_syne_staking_rewards
    /\ after \in [Users -> StakingInfo]
    /\ after[u].stake = stakes[u].stake + put - take /\ after[u].power_diff = total.power
    /\ \A v \in Users \ {u} : after[v] = stakes[v]

\* An account puts in or takes out part of its stake and gets its reward: the vault can pay
\* both, and the books stay in order.
LEMMA AccountSettled ==
    ASSUME NEW total, NEW stakes, NEW held, VaultInv(total, stakes, held), NEW u \in Users,
           NEW put \in Nat, NEW take \in Nat, take <= stakes[u].stake,
           NEW due, due = PendingReward(total, stakes[u]),
           NEW new, NEW after, Settles(total, stakes, u, put, take, new, after)
    PROVE  /\ due \in Nat /\ take + due <= held
           /\ VaultInv(new, after, held + put - take - due)
<1> DEFINE old == EarnedOf(total, stakes)
           more == EarnedOf(new, after)
           so == SumOver(old, Users)
           sm == SumOver(more, Users)
           d == FixedDebt(total)
           e == old[u]
<1> USE DEF Settles
<1>1. due \in Nat /\ due * Unit <= e /\ Unit \in Nat \ {0}
  BY RewardBounded, FeesAssumption
<1>2. /\ so \in Nat /\ e <= so /\ stakes[u].stake <= total.staked
      /\ total.staked \in Nat /\ d \in Nat /\ total.staked <= d
  BY SumTypes
<1>3. stakes[u].stake \in Nat /\ e \in Nat /\ held \in Nat /\ total \in TokenInfo /\ total.power \in Nat
  BY RowTypes DEF VaultInv
<1>4. d * Unit + so <= held * Unit
  BY DEF VaultInv
<1> DEFINE c == put - take
           f == StakesOf(stakes)
           g == StakesOf(after)
<1>5. g[u] = f[u] + c /\ c \in Int
  BY <1>3 DEF StakesOf
<1>6. new.staked = SumOver(StakesOf(after), Users)
  <2>1. \A v \in Users : f[v] \in Int
    BY RowTypes
  <2>2. \A v \in Users \ {u} : g[v] = f[v]
    BY DEF StakesOf
  <2> HIDE DEF c, f, g, Settles
  <2>3. SumOver(g, Users) = SumOver(f, Users) + c
    BY <1>5, <2>1, <2>2, VaultUsersAssumption, SumShift
  <2>4. total.staked = SumOver(f, Users)
    BY DEF VaultInv, f
  <2>5. QED
    BY <1>2, <2>3, <2>4 DEF c, g, Settles
<1>7. more[u] = 0
  <2>1. more[u] = (total.power - total.power) * after[u].stake
    BY DEF EarnedOf
  <2>2. after[u].stake \in Nat
    BY <1>3
  <2>3. QED
    BY <1>3, <2>1, <2>2
<1>8. \A v \in Users \ {u} : more[v] = old[v]
  BY DEF EarnedOf
<1>9. sm = so - e
  <2>1. \A v \in Users : old[v] \in Int
    BY RowTypes
  <2>2. \A v \in Users : more[v] \in Int
    BY <1>7, <1>8, <2>1
  <2> HIDE DEF old, more
  <2>3. sm = so + more[u] - e
    BY <1>8, <2>1, <2>2, VaultUsersAssumption, SumChange
  <2>4. QED
    BY <1>2, <1>3, <1>7, <2>3
<1>10. FixedDebt(new) = d + put - take
  BY <1>3 DEF FixedDebt, TokenInfo
<1> HIDE DEF old, more, so, sm, d, e
<1>11. take <= d
  BY <1>2, <1>3
<1>12. /\ (d + put - take) * Unit = d * Unit + put * Unit - take * Unit
       /\ (held + put - take - due) * Unit = held * Unit + put * Unit - take * Unit - due * Unit
       /\ (take + due) * Unit = take * Unit + due * Unit
  BY <1>1, <1>2, <1>3
<1>13. /\ d * Unit \in Nat /\ put * Unit \in Nat /\ take * Unit \in Nat /\ due * Unit \in Nat /\ held * Unit \in Nat
       /\ take * Unit <= d * Unit
  BY <1>1, <1>2, <1>3, <1>11, ProductGrows
<1>14. take + due <= held
  <2>1. (take + due) * Unit <= held * Unit
    BY <1>1, <1>2, <1>3, <1>4, <1>12, <1>13
  <2>2. QED
    BY <1>1, <1>3, <2>1, ProductCancels
<1>15. FixedDebt(new) * Unit + sm <= (held + put - take - due) * Unit
  BY <1>1, <1>2, <1>3, <1>4, <1>9, <1>10, <1>12, <1>13
<1>16. held + put - take - due \in Nat
  BY <1>1, <1>3, <1>14
<1>17. \A v \in Users : after[v].power_diff <= new.power
  <2>1. ASSUME NEW v \in Users \ {u} PROVE after[v].power_diff <= new.power
    BY <2>1, RowTypes
  <2>2. after[u].power_diff <= new.power
    BY <1>3
  <2>3. QED
    BY <2>1, <2>2
<1>18. QED
  BY <1>1, <1>6, <1>14, <1>15, <1>16, <1>17 DEF VaultInv, sm, more

\* Rounding is in favour of the vault.
LEMMA DebtCovered ==
    ASSUME NEW total, NEW stakes, NEW held, VaultInv(total, stakes, held)
    PROVE  Liabilities(total, stakes) <= held
<1> DEFINE old == EarnedOf(total, stakes)
           due == [u \in Users |-> PendingReward(total, stakes[u])]
           zero == [u \in Users |-> 0]
           scaled == [u \in Users |-> 0 + Unit * due[u]]
           d == FixedDebt(total)
<1>1. \A u \in Users : due[u] \in Int /\ zero[u] \in Int /\ scaled[u] = zero[u] + Unit * due[u]
  BY RewardBounded
<1>2. \A u \in Users : due[u] \in Nat /\ due[u] * Unit <= old[u] /\ old[u] \in Nat
  BY RewardBounded, RowTypes
<1>3. Unit \in Nat \ {0} /\ held \in Nat /\ IsFiniteSet(Users)
  BY FeesAssumption, VaultUsersAssumption DEF VaultInv
<1>4. \A u \in Users : scaled[u] \in Int /\ old[u] \in Int /\ scaled[u] <= old[u]
  BY <1>2, <1>3
<1>5. \A u \in Users : zero[u] = 0
  OBVIOUS
<1> HIDE DEF old, due, zero, scaled
<1>6. SumOver(scaled, Users) = SumOver(zero, Users) + Unit * SumOver(due, Users)
  BY <1>1, <1>3, SumLinear
<1>7. SumOver(zero, Users) = 0 /\ SumOver(scaled, Users) <= SumOver(old, Users) /\ SumOver(due, Users) \in Nat
  BY <1>2, <1>3, <1>4, <1>5, SumZero, SumMonotonic, SumNat
<1>8. d \in Nat /\ d * Unit + SumOver(old, Users) <= held * Unit /\ SumOver(old, Users) \in Nat
  BY SumTypes DEF VaultInv, old
<1>9. Liabilities(total, stakes) = d + SumOver(due, Users)
  BY DEF Liabilities, FixedDebt, due
<1> DEFINE sd == SumOver(due, Users)
<1> HIDE DEF d, sd
<1>10. (d + sd) * Unit = d * Unit + Unit * sd /\ d * Unit \in Nat /\ Unit * sd \in Nat /\ held * Unit \in Nat
  BY <1>3, <1>7, <1>8 DEF sd
<1>11. (d + sd) * Unit <= held * Unit
  BY <1>6, <1>7, <1>8, <1>10 DEF sd
<1>12. d + sd <= held
  BY <1>3, <1>7, <1>8, <1>11, ProductCancels DEF sd
<1>13. QED
  BY <1>9, <1>12 DEF sd

-----------------------------------------------------------------------------
(* What the vault pays *)

\* The transfers of pay bring x to u, and nothing to anybody else.
Brings(pay, u, x) ==
    /\ Spent(pay) = x
    /\ \A h \in Holders : Received(pay, h) = IF h = u THEN x ELSE 0

LEMMA SumOfOne == ASSUME NEW f, f[1] \in Int PROVE SumOver(f, {1}) = f[1]
<1>1. IsFiniteSet({1}) /\ {1} \ {1} = {}
  BY FS_Singleton
<1>2. SumOver(f, {1}) = f[1] + SumOver(f, {1} \ {1})
  BY <1>1, SumRemove
<1>3. QED
  BY <1>1, <1>2, SumEmpty

LEMMA SumOfTwo == ASSUME NEW f, f[1] \in Int, f[2] \in Int PROVE SumOver(f, {1, 2}) = f[1] + f[2]
<1>1. IsFiniteSet({1, 2}) /\ {1, 2} \ {2} = {1} /\ 2 \in {1, 2}
  <2>1. {1, 2} = {1} \cup {2} /\ {1, 2} \ {2} = {1}
    OBVIOUS
  <2>2. IsFiniteSet({1} \cup {2})
    BY FS_Singleton, FS_AddElement
  <2>3. QED
    BY <2>1, <2>2
<1>2. SumOver(f, {1, 2}) = f[2] + SumOver(f, {1, 2} \ {2})
  <2>1. \A i \in {1, 2} : f[i] \in Int
    OBVIOUS
  <2>2. QED
    BY <1>1, <2>1, SumRemove
<1>3. SumOver(f, {1}) = f[1]
  BY SumOfOne
<1>4. SumOver(f, {1, 2}) = f[2] + f[1]
  BY <1>1, <1>2, <1>3
<1>5. QED
  BY <1>4

LEMMA NoTransfer == ASSUME NEW u PROVE Brings(<< >>, u, 0)
<1>1. DOMAIN << >> = {}
  OBVIOUS
<1>2. QED
  BY <1>1, SumEmpty DEF Brings, Spent, Received

LEMMA OneTransfer == ASSUME NEW u, NEW x \in Nat PROVE Brings(<< <<u, x>> >>, u, x)
<1> DEFINE pay == << <<u, x>> >>
           f == [i \in DOMAIN pay |-> pay[i][2]]
<1>1. DOMAIN pay = {1} /\ pay[1][1] = u /\ pay[1][2] = x
  OBVIOUS
<1>2. Spent(pay) = x
  <2>1. f[1] = x
    BY <1>1
  <2> HIDE DEF f
  <2>2. SumOver(f, {1}) = x
    BY <2>1, SumOfOne
  <2>3. QED
    BY <1>1, <2>2 DEF Spent, f
<1>3. ASSUME NEW h \in Holders PROVE Received(pay, h) = IF h = u THEN x ELSE 0
  <2> DEFINE g == [i \in DOMAIN pay |-> IF pay[i][1] = h THEN pay[i][2] ELSE 0]
             y == IF h = u THEN x ELSE 0
  <2>1. g[1] = y /\ y \in Int
    BY <1>1
  <2> HIDE DEF g, y
  <2>2. SumOver(g, {1}) = y
    BY <2>1, SumOfOne
  <2>3. QED
    BY <1>1, <2>2 DEF Received, g, y
<1>4. QED
  BY <1>2, <1>3 DEF Brings

LEMMA PairOfOnes == ASSUME NEW a, NEW b PROVE <<a>> \o <<b>> = <<a, b>>
<1> DEFINE s == <<a>>
           t == <<b>>
           w == <<a, b>>
           c == s \o t
<1>1. s \in Seq({a, b}) /\ t \in Seq({a, b}) /\ w \in Seq({a, b})
  OBVIOUS
<1>2. Len(s) = 1 /\ Len(t) = 1 /\ Len(w) = 2 /\ s[1] = a /\ t[1] = b /\ w[1] = a /\ w[2] = b
  OBVIOUS
<1> HIDE DEF s, t, w
<1>3. /\ c \in Seq({a, b}) /\ Len(c) = Len(s) + Len(t)
      /\ \A i \in 1 .. Len(s) + Len(t) : c[i] = IF i <= Len(s) THEN s[i] ELSE t[i - Len(s)]
  BY <1>1, ConcatProperties
<1> HIDE DEF c
<1>4. Len(c) = Len(w) /\ \A i \in 1 .. Len(c) : i = 1 \/ i = 2
  BY <1>2, <1>3
<1>5. c[1] = w[1] /\ c[2] = w[2]
  BY <1>2, <1>3
<1>6. \A i \in 1 .. Len(c) : c[i] = w[i]
  BY <1>4, <1>5
<1>7. c = w
  BY <1>1, <1>3, <1>4, <1>6, SeqEqual
<1>8. QED
  BY <1>7 DEF c, s, t, w

LEMMA TwoTransfers ==
    ASSUME NEW u, NEW x \in Nat, NEW z \in Nat
    PROVE  Brings(<< <<u, x>>, <<u, z>> >>, u, x + z)
<1> DEFINE pay == << <<u, x>>, <<u, z>> >>
           f == [i \in DOMAIN pay |-> pay[i][2]]
<1>1. DOMAIN pay = {1, 2} /\ pay[1][1] = u /\ pay[1][2] = x /\ pay[2][1] = u /\ pay[2][2] = z
  OBVIOUS
<1>2. Spent(pay) = x + z
  <2>1. f[1] = x /\ f[2] = z
    BY <1>1
  <2> HIDE DEF f
  <2>2. SumOver(f, {1, 2}) = x + z
    BY <2>1, SumOfTwo
  <2>3. QED
    BY <1>1, <2>2 DEF Spent, f
<1>3. ASSUME NEW h \in Holders PROVE Received(pay, h) = IF h = u THEN x + z ELSE 0
  <2> DEFINE g == [i \in DOMAIN pay |-> IF pay[i][1] = h THEN pay[i][2] ELSE 0]
             y == IF h = u THEN x ELSE 0
             w == IF h = u THEN z ELSE 0
  <2>1. g[1] = y /\ y \in Int /\ g[2] = w /\ w \in Int /\ y + w = IF h = u THEN x + z ELSE 0
    BY <1>1
  <2> HIDE DEF g, y, w
  <2>2. SumOver(g, {1, 2}) = y + w
    BY <2>1, SumOfTwo
  <2>3. QED
    BY <1>1, <2>1, <2>2 DEF Received, g
<1>4. QED
  BY <1>2, <1>3 DEF Brings

\* A payment to a user moves tokens of the vault and makes none.
LEMMA PaidBalances ==
    ASSUME NEW balances \in [Holders -> Nat], NEW u \in Users, NEW x \in Nat, x <= balances[Vault],
           NEW pay, Brings(pay, u, x)
    PROVE  /\ Paid(balances, pay) \in [Holders -> Nat]
           /\ Paid(balances, pay)[Vault] = balances[Vault] - x
           /\ Paid(balances, pay)[u] = balances[u] + x
           /\ \A v \in Users \ {u} : Paid(balances, pay)[v] = balances[v]
           /\ SumOver(Paid(balances, pay), Holders) = SumOver(balances, Holders)
<1> DEFINE after == Paid(balances, pay)
<1>1. Vault \in Holders /\ u \in Holders /\ u # Vault /\ IsFiniteSet(Holders) /\ Users \subseteq Holders /\ Vault \notin Users
  BY BwyndAssumption, VaultUsersAssumption, FS_AddElement DEF Holders
<1>2. after = [h \in Holders |-> IF h = Vault THEN balances[h] - x ELSE IF h = u THEN balances[h] + x ELSE balances[h] + 0]
  <2>1. \A h \in Holders : Received(pay, h) = IF h = u THEN x ELSE 0
    BY DEF Brings
  <2>2. Spent(pay) = x
    BY DEF Brings
  <2>3. after = [h \in Holders |-> IF h = Vault THEN balances[h] - x ELSE balances[h] + Received(pay, h)]
    BY <2>2 DEF Paid
  <2>4. ASSUME NEW h \in Holders
        PROVE  balances[h] + Received(pay, h) = IF h = u THEN balances[h] + x ELSE balances[h] + 0
    <3>1. CASE h = u
      BY <3>1, <2>1
    <3>2. CASE h # u
      BY <3>2, <2>1
    <3>3. QED
      BY <3>1, <3>2
  <2>5. QED
    BY <2>3, <2>4
<1> HIDE DEF after
<1>3. /\ after[Vault] = balances[Vault] - x /\ after[u] = balances[u] + x
      /\ balances[Vault] \in Nat /\ balances[u] \in Nat
  BY <1>1, <1>2
<1>4. \A h \in Holders \ {Vault, u} : after[h] = balances[h]
  BY <1>2
<1>5. after \in [Holders -> Nat]
  <2>1. ASSUME NEW h \in Holders PROVE after[h] \in Nat
    <3>1. CASE h = Vault
      BY <1>3, <3>1
    <3>2. CASE h = u
      BY <1>3, <3>2
    <3>3. CASE h \notin {Vault, u}
      BY <1>4, <3>3
    <3>4. QED
      BY <3>1, <3>2, <3>3
  <2>2. QED
    BY <1>2, <2>1
<1>6. /\ \A h \in Holders : balances[h] \in Int
      /\ \A h \in Holders : after[h] \in Int
  BY <1>5
<1>7. SumOver(after, Holders) = SumOver(balances, Holders) + after[Vault] - balances[Vault] + after[u] - balances[u]
  <2>1. IsFiniteSet(Holders) /\ Vault \in Holders /\ u \in Holders /\ Vault # u
    BY <1>1
  <2> HIDE DEF Holders
  <2>2. QED
    BY <1>4, <1>5, <2>1, SumChangeTwo
<1>8. SumOver(balances, Holders) \in Int
  BY <1>1, <1>6, SumType
<1>9. SumOver(after, Holders) = SumOver(balances, Holders)
  BY <1>3, <1>7, <1>8
<1>10. QED
  BY <1>1, <1>3, <1>4, <1>5, <1>9 DEF after

-----------------------------------------------------------------------------
(* What the vault does for an account *)

\* The transfers are to u alone and bring x.
PaysTo(pay, u, x) ==
    \/ pay = << >> /\ x = 0
    \/ pay = << <<u, x>> >>
    \/ \E y, z \in Nat : x = y + z /\ pay = << <<u, y>>, <<u, z>> >>

LEMMA PaysToBrings == ASSUME NEW pay, NEW u, NEW x \in Nat, PaysTo(pay, u, x) PROVE Brings(pay, u, x)
  BY NoTransfer, OneTransfer, TwoTransfers DEF PaysTo

\* act is an action of u that puts in or takes out part of the stake.
IsActOf(act, u, put, take) ==
    \/ act = Reward(u) /\ put = 0 /\ take = 0
    \/ act = Stake(u, put) /\ take = 0
    \/ act = Unstake(u, take) /\ put = 0

LEMMA PerformedIs ==
    ASSUME NEW total, NEW stakes, NEW held, VaultInv(total, stakes, held), NEW u \in Users,
           NEW put \in Nat, NEW take \in Nat, take <= stakes[u].stake,
           NEW act, IsActOf(act, u, put, take),
           NEW due, due = PendingReward(total, stakes[u]),
           NEW done, done = Performed(act, total, stakes)
    PROVE  /\ Settles(total, stakes, u, put, take, done.total, done.stakes)
           /\ PaysTo(done.pay, u, take + due)
<1> DEFINE reward == IF due > 0 THEN << <<u, due>> >> ELSE << >>
           st == stakes[u].stake
<1> USE DEF Settles
<1>1. /\ due \in Nat /\ total \in TokenInfo /\ stakes \in [Users -> StakingInfo]
      /\ total.power \in Nat /\ total.staked \in Nat /\ st \in Nat /\ st <= total.staked
  BY RewardBounded, RowTypes, SumTypes DEF VaultInv
<1>2. PaysTo(reward, u, due)
  BY <1>1 DEF PaysTo
<1>3. PaysTo(<< <<u, take>> >> \o reward, u, take + due)
  <2>1. CASE due > 0
    <3>1. << <<u, take>> >> \o << <<u, due>> >> = << <<u, take>>, <<u, due>> >>
      BY PairOfOnes
    <3>2. reward = << <<u, due>> >>
      BY <2>1
    <3> HIDE DEF reward
    <3>3. << <<u, take>> >> \o reward = << <<u, take>>, <<u, due>> >>
      BY <3>1, <3>2
    <3>4. QED
      BY <1>1, <3>3 DEF PaysTo
  <2>2. CASE ~(due > 0)
    <3>1. << <<u, take>> >> \o reward = << <<u, take>> >>
      BY <2>2
    <3>2. take + due = take
      BY <1>1, <2>2
    <3>3. QED
      BY <3>1, <3>2 DEF PaysTo
  <2>3. QED
    BY <2>1, <2>2
<1> HIDE DEF reward
<1>4. ASSUME NEW t, t = [total EXCEPT !.staked = total.staked + put - take]
      PROVE  /\ t \in TokenInfo /\ t.staked = total.staked + put - take
             /\ t.power = total.power
             /\ t.pending_treasury_rewards = total.pending_treasury_rewards
             /\ t.pending_syne_staking_rewards = total.pending_syne_staking_rewards
  BY <1>1, <1>4 DEF TokenInfo
<1>5. ASSUME NEW s, s = [stakes EXCEPT ![u] = [stake |-> st + put - take, power_diff |-> total.power]]
      PROVE  /\ s \in [Users -> StakingInfo] /\ s[u].stake = st + put - take
             /\ s[u].power_diff = total.power /\ \A v \in Users \ {u} : s[v] = stakes[v]
  BY <1>1, <1>5 DEF StakingInfo
<1>6. CASE act = Reward(u) /\ put = 0 /\ take = 0
  <2>1. done.total = total /\ done.stakes = [stakes EXCEPT ![u] = [stake |-> st, power_diff |-> total.power]] /\ done.pay = reward
    BY <1>6 DEF Performed, Reward, Settled, reward
  <2>2. st = st + put - take /\ total.staked = total.staked + put - take /\ due = take + due
    BY <1>1, <1>6
  <2>3. done.stakes = [stakes EXCEPT ![u] = [stake |-> st + put - take, power_diff |-> total.power]]
    BY <2>1, <2>2
  <2> HIDE DEF st
  <2>4. QED
    BY <1>1, <1>2, <1>5, <2>1, <2>2, <2>3 DEF st
<1>7. CASE act = Stake(u, put) /\ take = 0
  <2>1. /\ done.total = [total EXCEPT !.staked = total.staked + put]
        /\ done.stakes = [stakes EXCEPT ![u] = [stake |-> st + put, power_diff |-> total.power]]
        /\ done.pay = reward
    BY <1>7 DEF Performed, Stake, Settled, reward
  <2>2. st + put = st + put - take /\ total.staked + put = total.staked + put - take /\ due = take + due
    BY <1>1, <1>7
  <2>3. /\ done.stakes = [stakes EXCEPT ![u] = [stake |-> st + put - take, power_diff |-> total.power]]
        /\ done.total = [total EXCEPT !.staked = total.staked + put - take]
    BY <2>1, <2>2
  <2> HIDE DEF st
  <2>4. QED
    BY <1>2, <1>4, <1>5, <2>1, <2>2, <2>3 DEF st
<1>8. CASE act = Unstake(u, take) /\ put = 0
  <2>1. /\ done.total = [total EXCEPT !.staked = Monus(total.staked, take)]
        /\ done.stakes = [stakes EXCEPT ![u] = [stake |-> Monus(st, take), power_diff |-> total.power]]
        /\ done.pay = << <<u, take>> >> \o reward
    BY <1>8 DEF Performed, Unstake, Settled, reward
  <2>2. Monus(st, take) = st + put - take /\ Monus(total.staked, take) = total.staked + put - take
    BY <1>1, <1>8 DEF Monus
  <2>3. /\ done.stakes = [stakes EXCEPT ![u] = [stake |-> st + put - take, power_diff |-> total.power]]
        /\ done.total = [total EXCEPT !.staked = total.staked + put - take]
    BY <2>1, <2>2
  <2> HIDE DEF st
  <2>4. QED
    BY <1>3, <1>4, <1>5, <2>1, <2>3 DEF st
<1>9. QED
  BY <1>6, <1>7, <1>8 DEF IsActOf

\* After a step of the vault u has put in `put`, taken out `take` and received the reward `due`;
\* before it the accounts held what balances says, and the totals were total.
Served(total, balances, u, put, take, due) ==
    /\ VaultInv(total_staked', STAKE', bwynd'[Vault])
    /\ bwynd' \in [Holders -> Nat] /\ SumOver(bwynd', Holders) = SumOver(balances, Holders)
    /\ bwynd'[Vault] = balances[Vault] - take - due /\ bwynd'[u] = balances[u] + take + due
    /\ \A v \in Users \ {u} : bwynd'[v] = balances[v]
    /\ STAKE'[u].stake = STAKE[u].stake + put - take
    /\ \A v \in Users \ {u} : STAKE'[v] = STAKE[v]
    /\ total_staked'.pending_treasury_rewards = total.pending_treasury_rewards
    /\ total_staked'.pending_syne_staking_rewards = total.pending_syne_staking_rewards

\* The vault serves the account of the action.
LEMMA ActServed ==
    ASSUME NEW balances \in [Holders -> Nat], NEW total, NEW held, VaultInv(total, STAKE, held), NEW u \in Users,
           NEW put \in Nat, NEW take \in Nat, take <= STAKE[u].stake, balances[Vault] = held + put,
           NEW act, IsActOf(act, u, put, take), PerformOn(act, total, balances)
    PROVE  \A due : due = PendingReward(total, STAKE[u])
                        => due \in Nat /\ Served(total, balances, u, put, take, due)
<1>0. SUFFICES ASSUME NEW due, due = PendingReward(total, STAKE[u])
               PROVE  due \in Nat /\ Served(total, balances, u, put, take, due)
  OBVIOUS
<1>1. PICK done : done = Performed(act, total, STAKE)
  OBVIOUS
<1>2. /\ total_staked' = done.total /\ STAKE' = done.stakes /\ bwynd' = Paid(balances, done.pay)
  BY <1>1 DEF PerformOn
<1>3. Settles(total, STAKE, u, put, take, done.total, done.stakes) /\ PaysTo(done.pay, u, take + due)
  BY <1>0, <1>1, PerformedIs
<1>4. due \in Nat /\ take + due <= held /\ VaultInv(done.total, done.stakes, held + put - take - due)
  BY <1>0, <1>3, AccountSettled
<1>5. held \in Nat /\ balances[u] \in Nat
  BY DEF VaultInv, Holders
<1> DEFINE x == take + due
<1>6. x \in Nat /\ x <= balances[Vault] /\ Brings(done.pay, u, x)
  BY <1>3, <1>4, <1>5, PaysToBrings
<1> HIDE DEF x
<1>7. /\ bwynd' \in [Holders -> Nat]
      /\ bwynd'[Vault] = balances[Vault] - x
      /\ bwynd'[u] = balances[u] + x
      /\ \A v \in Users \ {u} : bwynd'[v] = balances[v]
      /\ SumOver(bwynd', Holders) = SumOver(balances, Holders)
  BY <1>2, <1>6, PaidBalances
<1>8. bwynd'[Vault] = held + put - take - due /\ bwynd'[u] = balances[u] + take + due
  BY <1>4, <1>5, <1>7 DEF x
<1>9. VaultInv(total_staked', STAKE', bwynd'[Vault])
  BY <1>2, <1>4, <1>8
<1>10. bwynd'[Vault] = balances[Vault] - take - due
  BY <1>4, <1>5, <1>8
<1>11. QED
  BY <1>2, <1>3, <1>4, <1>7, <1>8, <1>9, <1>10 DEF Served, Settles

-----------------------------------------------------------------------------
(* Balances *)

LEMMA HoldersFinite ==
    /\ IsFiniteSet(Holders) /\ Vault \in Holders /\ Users \subseteq Holders /\ Vault \notin Users
    /\ Holders \ {Vault} = Users
  BY BwyndAssumption, VaultUsersAssumption, FS_AddElement DEF Holders

LEMMA CreditedSum ==
    ASSUME NEW S, IsFiniteSet(S), NEW b \in [S -> Nat], NEW h \in S, NEW x \in Nat, NEW after \in [S -> Nat],
           after[h] = b[h] + x, \A g \in S \ {h} : after[g] = b[g]
    PROVE  SumOver(after, S) = SumOver(b, S) + x /\ SumOver(b, S) \in Int
<1>1. x \in Int /\ \A g \in S : b[g] \in Int
  OBVIOUS
<1>2. QED
  BY <1>1, SumShift

LEMMA BothSum ==
    ASSUME NEW b \in [Holders -> Nat], NEW u \in Users, NEW y \in Int, NEW x \in Int, NEW after \in [Holders -> Nat],
           after[u] = b[u] + y, after[Vault] = b[Vault] + x, \A g \in Holders \ {Vault, u} : after[g] = b[g]
    PROVE  SumOver(after, Holders) = SumOver(b, Holders) + x + y /\ SumOver(b, Holders) \in Int
<1>1. IsFiniteSet(Holders) /\ Vault \in Holders /\ u \in Holders /\ Vault # u
  BY HoldersFinite
<1>2. SumOver(after, Holders) = SumOver(b, Holders) + after[Vault] - b[Vault] + after[u] - b[u]
  BY <1>1, SumChangeTwo
<1>3. \A g \in Holders : b[g] \in Int
  OBVIOUS
<1>4. SumOver(b, Holders) \in Int
  BY <1>1, <1>3, SumType
<1>5. b[Vault] \in Nat /\ b[u] \in Nat
  BY <1>1
<1>6. QED
  BY <1>2, <1>4, <1>5

\* u hands a to the vault.
LEMMA HandedSum ==
    ASSUME bwynd \in [Holders -> Nat], NEW u \in Users, NEW a \in Nat, NEW bal \in [Holders -> Nat],
           bal[Vault] = bwynd[Vault] + a, bal[u] = bwynd[u] - a, \A v \in Holders \ {Vault, u} : bal[v] = bwynd[v]
    PROVE  SumOver(bal, Holders) = SumOver(bwynd, Holders)
<1>1. PICK y \in Int : y = -a
  OBVIOUS
<1>2. u \in Holders /\ a \in Int
  BY HoldersFinite
<1>3. bal[u] = bwynd[u] + y
  BY <1>1, <1>2
<1>4. SumOver(bal, Holders) = SumOver(bwynd, Holders) + a + y /\ SumOver(bwynd, Holders) \in Int
  BY <1>2, <1>3, BothSum, SMTT(30)
<1>5. QED
  BY <1>1, <1>4

-----------------------------------------------------------------------------
(* Transactions *)

BwyndInv == TypeOK /\ VaultInv(total_staked, STAKE, bwynd[Vault]) /\ BwyndBacked

\* The fees that the queries show stay the same.
FeesStay ==
    /\ query_treasury_reward' = query_treasury_reward
    /\ query_syne_staking_reward' = query_syne_staking_reward

\* A transaction in favour of u: rewards r reach the vault, m new tokens reach u, u puts in `put`,
\* takes out `take` and receives `due`; new tokens are delegated.
Touch(u, put, take, due, r, m) ==
    /\ VaultInv(total_staked', STAKE', bwynd'[Vault])
    /\ bwynd' \in [Holders -> Nat] /\ SumOver(bwynd', Holders) = SumOver(bwynd, Holders) + r + m
    /\ bwynd'[Vault] = bwynd[Vault] + r + put - take - due
    /\ bwynd'[u] = bwynd[u] - put + take + due + m
    /\ \A v \in Users \ {u} : bwynd'[v] = bwynd[v]
    /\ STAKE'[u].stake = STAKE[u].stake + put - take
    /\ \A v \in Users \ {u} : STAKE'[v] = STAKE[v]
    /\ delegated' \in [Periods -> Nat] /\ SumOver(delegated', Periods) = SumOver(delegated, Periods) + r + m
    /\ owed' \in Nat /\ wynd' \in [Users -> Nat] /\ admin_minted' = admin_minted
    /\ FeesStay

LEMMA Delegated ==
    ASSUME delegated \in [Periods -> Nat], unbonding_period \in Periods, NEW x \in Nat
    PROVE  delegated' = [delegated EXCEPT ![unbonding_period] = @ + x]
               => delegated' \in [Periods -> Nat] /\ SumOver(delegated', Periods) = SumOver(delegated, Periods) + x
<1>0. SUFFICES ASSUME delegated' = [delegated EXCEPT ![unbonding_period] = @ + x]
               PROVE  delegated' \in [Periods -> Nat] /\ SumOver(delegated', Periods) = SumOver(delegated, Periods) + x
  OBVIOUS
<1>1. /\ delegated' \in [Periods -> Nat] /\ delegated'[unbonding_period] = delegated[unbonding_period] + x
      /\ \A q \in Periods \ {unbonding_period} : delegated'[q] = delegated[q]
  BY <1>0
<1>2. IsFiniteSet(Periods)
  BY BwyndAssumption
<1>3. SumOver(delegated', Periods) = SumOver(delegated, Periods) + x
  BY <1>1, <1>2, CreditedSum
<1>4. QED
  BY <1>1, <1>3

\* The totals with the reward that is fetched.
LEMMA FetchedBooks ==
    ASSUME BwyndInv, NEW r \in Nat
    PROVE  \A total : \/ total = update_total_rewards(total_staked, r)
                      \/ r = 0 /\ total = total_staked
               => /\ VaultInv(total, STAKE, bwynd[Vault] + r)
                  /\ total.pending_treasury_rewards = total_staked.pending_treasury_rewards + Fee(r, treasury_fee)
                  /\ total.pending_syne_staking_rewards
                         = total_staked.pending_syne_staking_rewards + Fee(r, syne_staking_fee)
<1>1. ASSUME NEW total, total = update_total_rewards(total_staked, r)
      PROVE  /\ VaultInv(total, STAKE, bwynd[Vault] + r)
             /\ total.pending_treasury_rewards = total_staked.pending_treasury_rewards + Fee(r, treasury_fee)
             /\ total.pending_syne_staking_rewards
                    = total_staked.pending_syne_staking_rewards + Fee(r, syne_staking_fee)
  <2>1. VaultInv(total_staked, STAKE, bwynd[Vault])
    BY DEF BwyndInv
  <2>2. VaultInv(update_total_rewards(total_staked, r), STAKE, bwynd[Vault] + r)
    BY <2>1, RewardArrives
  <2>3. /\ update_total_rewards(total_staked, r).pending_treasury_rewards
              = total_staked.pending_treasury_rewards + Fee(r, treasury_fee)
        /\ update_total_rewards(total_staked, r).pending_syne_staking_rewards
              = total_staked.pending_syne_staking_rewards + Fee(r, syne_staking_fee)
    BY DEF update_total_rewards
  <2>4. QED
    BY <1>1, <2>2, <2>3
<1>2. ASSUME NEW total, r = 0, total = total_staked
      PROVE  /\ VaultInv(total, STAKE, bwynd[Vault] + r)
             /\ total.pending_treasury_rewards = total_staked.pending_treasury_rewards + Fee(r, treasury_fee)
             /\ total.pending_syne_staking_rewards
                    = total_staked.pending_syne_staking_rewards + Fee(r, syne_staking_fee)
  <2>1. /\ bwynd[Vault] + r = bwynd[Vault] /\ total_staked.pending_treasury_rewards \in Nat
        /\ total_staked.pending_syne_staking_rewards \in Nat
    BY <1>2 DEF BwyndInv, VaultInv, TokenInfo
  <2>2. Fee(r, treasury_fee) = 0 /\ Fee(r, syne_staking_fee) = 0
    BY <1>2, FeesAssumption DEF Fee
  <2>3. VaultInv(total, STAKE, bwynd[Vault])
    BY <1>2 DEF BwyndInv
  <2>4. VaultInv(total, STAKE, bwynd[Vault] + r)
    BY <2>1, <2>3
  <2>5. QED
    BY <1>2, <2>1, <2>2, <2>4
<1>3. QED
  BY <1>1, <1>2

LEMMA NoFee == Fee(0, treasury_fee) = 0 /\ Fee(0, syne_staking_fee) = 0
  BY FeesAssumption DEF Fee

\* The rewards that wait are fetched or there are none: the queries show the same fees.
LEMMA FeesFetched ==
    ASSUME BwyndInv, NEW r \in Nat, (r = owed /\ owed' = 0) \/ (r = 0 /\ owed' = owed),
           total_staked'.pending_treasury_rewards
               = total_staked.pending_treasury_rewards + Fee(r, treasury_fee),
           total_staked'.pending_syne_staking_rewards
               = total_staked.pending_syne_staking_rewards + Fee(r, syne_staking_fee)
    PROVE  FeesStay
<1>1. /\ total_staked.pending_treasury_rewards \in Nat /\ total_staked.pending_syne_staking_rewards \in Nat
      /\ owed \in Nat /\ Fee(owed, treasury_fee) \in Nat /\ Fee(owed, syne_staking_fee) \in Nat
  BY FeesBounded DEF BwyndInv, VaultInv, TokenInfo, TypeOK
<1>2. CASE r = owed /\ owed' = 0
  BY <1>1, <1>2, NoFee DEF FeesStay, query_treasury_reward, query_syne_staking_reward
<1>3. CASE r = 0 /\ owed' = owed
  BY <1>1, <1>3, NoFee DEF FeesStay, query_treasury_reward, query_syne_staking_reward
<1>4. QED
  BY <1>2, <1>3

\* What a request of u does before the vault serves it: r is fetched, m is minted for u, and
\* u hands over `put`.
Prepared(u, put, r, m, total, balances) ==
    /\ (r = owed /\ owed' = 0) \/ (r = 0 /\ owed' = owed)
    /\ total = update_total_rewards(total_staked, r) \/ (r = 0 /\ total = total_staked)
    /\ balances \in [Holders -> Nat] /\ balances[Vault] = bwynd[Vault] + r + put
    /\ balances[u] = bwynd[u] - put + m /\ \A v \in Users \ {u} : balances[v] = bwynd[v]
    /\ SumOver(balances, Holders) = SumOver(bwynd, Holders) + r + m
    /\ delegated' \in [Periods -> Nat] /\ SumOver(delegated', Periods) = SumOver(delegated, Periods) + r + m
    /\ wynd' \in [Users -> Nat] /\ admin_minted' = admin_minted

LEMMA RequestTouches ==
    ASSUME BwyndInv, NEW u \in Users, NEW put \in Nat, NEW take \in Nat, take <= STAKE[u].stake,
           NEW act, IsActOf(act, u, put, take), NEW r \in Nat, NEW m \in Nat,
           NEW total, NEW balances, Prepared(u, put, r, m, total, balances), PerformOn(act, total, balances)
    PROVE  \E due \in Nat : Touch(u, put, take, due, r, m) /\ due = PendingReward(total, STAKE[u])
<1> USE DEF Prepared
<1>1. PICK due : due = PendingReward(total, STAKE[u])
  OBVIOUS
<1>2. /\ VaultInv(total, STAKE, bwynd[Vault] + r)
      /\ total.pending_treasury_rewards = total_staked.pending_treasury_rewards + Fee(r, treasury_fee)
      /\ total.pending_syne_staking_rewards = total_staked.pending_syne_staking_rewards + Fee(r, syne_staking_fee)
  BY FetchedBooks
<1>3. bwynd[Vault] \in Nat /\ bwynd[u] \in Nat /\ owed \in Nat
  BY HoldersFinite DEF BwyndInv, TypeOK
<1>4. due \in Nat /\ Served(total, balances, u, put, take, due)
  <2>1. PICK held : held = bwynd[Vault] + r
    OBVIOUS
  <2>2. VaultInv(total, STAKE, held) /\ balances[Vault] = held + put
    BY <1>2, <2>1
  <2>3. QED
    BY <1>1, <2>2, ActServed
<1>5. FeesStay
  BY <1>2, <1>4, FeesFetched DEF Served
<1>6. owed' \in Nat
  BY <1>3
<1>7. /\ bwynd'[Vault] = bwynd[Vault] + r + put - take - due
      /\ bwynd'[u] = bwynd[u] - put + take + due + m
  BY <1>3, <1>4 DEF Served
<1>8. \A v \in Users \ {u} : bwynd'[v] = bwynd[v]
  BY <1>4 DEF Served
<1>9. Touch(u, put, take, due, r, m)
  BY <1>4, <1>5, <1>6, <1>7, <1>8 DEF Served, Touch
<1>10. QED
  BY <1>1, <1>4, <1>9

\* A request that fetches the rewards that wait.
LEMMA PerformTouches ==
    ASSUME BwyndInv, NEW u \in Users, NEW put \in Nat, NEW take \in Nat, take <= STAKE[u].stake,
           NEW act, IsActOf(act, u, put, take),
           NEW bal \in [Holders -> Nat], bal[Vault] = bwynd[Vault] + put, bal[u] = bwynd[u] - put,
           \A v \in Users \ {u} : bal[v] = bwynd[v], SumOver(bal, Holders) = SumOver(bwynd, Holders),
           Perform(act, bal), wynd' = wynd, admin_minted' = admin_minted
    PROVE  \E due \in Nat :
               /\ Touch(u, put, take, due, owed, 0)
               /\ owed > 0 => due = PendingReward(update_total_rewards(total_staked, owed), STAKE[u])
               /\ owed = 0 => due = PendingReward(total_staked, STAKE[u])
<1>1. /\ delegated \in [Periods -> Nat] /\ wynd' \in [Users -> Nat] /\ owed \in Nat
      /\ bwynd[Vault] \in Nat /\ bwynd[u] \in Nat /\ bwynd \in [Holders -> Nat]
  BY HoldersFinite DEF BwyndInv, TypeOK
<1>2. SumOver(bwynd, Holders) \in Int /\ SumOver(delegated, Periods) \in Int
  <2>1. (\A h \in Holders : bwynd[h] \in Int) /\ (\A p \in Periods : delegated[p] \in Int)
    BY <1>1
  <2>2. QED
    BY <2>1, HoldersFinite, BwyndAssumption, SumType
<1>3. CASE Harvest(act, bal)
  <2>1. PICK balances, total : balances = [bal EXCEPT ![Vault] = @ + owed] /\ total = update_total_rewards(total_staked, owed)
    OBVIOUS
  <2>2. /\ owed > 0 /\ owed' = 0 /\ unbonding_period \in Periods /\ PerformOn(act, total, balances)
        /\ delegated' = [delegated EXCEPT ![unbonding_period] = @ + owed]
    BY <1>3, <2>1 DEF Harvest, Delegate
  <2>3. /\ balances \in [Holders -> Nat] /\ balances[Vault] = bal[Vault] + owed
        /\ \A h \in Holders \ {Vault} : balances[h] = bal[h]
        /\ SumOver(balances, Holders) = SumOver(bal, Holders) + owed
    <3>1. /\ balances \in [Holders -> Nat] /\ balances[Vault] = bal[Vault] + owed
          /\ \A h \in Holders \ {Vault} : balances[h] = bal[h]
      BY <1>1, <2>1, HoldersFinite
    <3>2. SumOver(balances, Holders) = SumOver(bal, Holders) + owed
      BY <1>1, <3>1, HoldersFinite, CreditedSum
    <3>3. QED
      BY <3>1, <3>2
  <2>4. delegated' \in [Periods -> Nat] /\ SumOver(delegated', Periods) = SumOver(delegated, Periods) + owed
    BY <1>1, <2>2, Delegated
  <2>5. /\ balances[Vault] = bwynd[Vault] + owed + put /\ balances[u] = bwynd[u] - put + 0
        /\ \A v \in Users \ {u} : balances[v] = bwynd[v]
    BY <1>1, <2>3, HoldersFinite
  <2>6. /\ SumOver(balances, Holders) = SumOver(bwynd, Holders) + owed + 0
        /\ SumOver(delegated', Periods) = SumOver(delegated, Periods) + owed + 0
    BY <1>1, <1>2, <2>3, <2>4
  <2>7. Prepared(u, put, owed, 0, total, balances)
    BY <1>1, <2>1, <2>2, <2>3, <2>4, <2>5, <2>6 DEF Prepared
  <2>8. PICK due \in Nat : Touch(u, put, take, due, owed, 0) /\ due = PendingReward(total, STAKE[u])
    BY <1>1, <2>2, <2>7, RequestTouches
  <2>9. QED
    BY <2>1, <2>2, <2>8
<1>4. CASE owed = 0 /\ PerformOn(act, total_staked, bal) /\ UNCHANGED stakingVars
  <2>1. /\ delegated' = delegated /\ owed' = owed
    BY <1>4 DEF stakingVars
  <2>2. /\ bal[Vault] = bwynd[Vault] + 0 + put /\ bal[u] = bwynd[u] - put + 0
        /\ SumOver(bal, Holders) = SumOver(bwynd, Holders) + 0 + 0
        /\ SumOver(delegated', Periods) = SumOver(delegated, Periods) + 0 + 0
    BY <1>1, <1>2, <2>1
  <2>3. Prepared(u, put, 0, 0, total_staked, bal)
    BY <1>1, <2>1, <2>2 DEF Prepared
  <2>4. PICK due \in Nat : Touch(u, put, take, due, 0, 0) /\ due = PendingReward(total_staked, STAKE[u])
    BY <1>4, <2>3, RequestTouches
  <2>5. QED
    BY <1>4, <2>4
<1>5. QED
  BY <1>3, <1>4 DEF Perform

LEMMA StakeTouches ==
    ASSUME BwyndInv, NEW u \in Users, NEW a \in Amounts, execute_stake(u, a)
    PROVE  \E due \in Nat : Touch(u, a, 0, due, owed, 0)
<1>1. /\ a \in Nat /\ bwynd \in [Holders -> Nat] /\ a <= bwynd[u] /\ wynd' = wynd /\ admin_minted' = admin_minted
      /\ STAKE[u].stake \in Nat
  BY BwyndAssumption, RowTypes DEF execute_stake, BwyndInv, TypeOK
<1>2. PICK bal : bal = [bwynd EXCEPT ![u] = @ - a, ![Vault] = @ + a]
  OBVIOUS
<1>3. Perform(Stake(u, a), bal)
  BY <1>2 DEF execute_stake
<1>4. /\ bal \in [Holders -> Nat] /\ bal[Vault] = bwynd[Vault] + a /\ bal[u] = bwynd[u] - a
      /\ \A v \in Holders \ {Vault, u} : bal[v] = bwynd[v]
  <2>1. u \in Holders /\ Vault \in Holders /\ Vault # u
    BY HoldersFinite
  <2>2. bwynd[Vault] + a \in Nat /\ bwynd[u] - a \in Nat
    BY <1>1, <2>1
  <2>3. QED
    BY <1>1, <1>2, <2>1, <2>2
<1>5. SumOver(bal, Holders) = SumOver(bwynd, Holders)
  BY <1>1, <1>4, HandedSum
<1>6. \A v \in Users \ {u} : bal[v] = bwynd[v]
  BY <1>4, HoldersFinite
<1>7. PICK act : act = Stake(u, a)
  OBVIOUS
<1>8. IsActOf(act, u, a, 0) /\ Perform(act, bal) /\ 0 <= STAKE[u].stake /\ 0 \in Nat
  BY <1>1, <1>3, <1>7 DEF IsActOf
<1>9. QED
  BY <1>1, <1>4, <1>5, <1>6, <1>8, PerformTouches

LEMMA UnstakeTouches ==
    ASSUME BwyndInv, NEW u \in Users, NEW a \in Amounts, execute_unstake(u, a)
    PROVE  \E due \in Nat : Touch(u, 0, a, due, owed, 0) /\ a > 0
<1>1. /\ a \in Nat /\ a > 0 /\ bwynd \in [Holders -> Nat] /\ a <= STAKE[u].stake /\ wynd' = wynd /\ admin_minted' = admin_minted
      /\ bwynd[u] \in Nat /\ bwynd[Vault] \in Nat
  BY BwyndAssumption, HoldersFinite DEF execute_unstake, BwyndInv, TypeOK
<1>2. PICK act : act = Unstake(u, a)
  OBVIOUS
<1>3. IsActOf(act, u, 0, a) /\ Perform(act, bwynd) /\ 0 \in Nat
  BY <1>2 DEF IsActOf, execute_unstake
<1>4. bwynd[Vault] = bwynd[Vault] + 0 /\ bwynd[u] = bwynd[u] - 0
  BY <1>1
<1>5. \E due \in Nat : Touch(u, 0, a, due, owed, 0)
  BY <1>1, <1>3, <1>4, PerformTouches
<1>6. QED
  BY <1>1, <1>5

LEMMA WithdrawTouches ==
    ASSUME BwyndInv, NEW u \in Users, execute_withdraw_rewards(u)
    PROVE  \E due \in Nat :
               /\ Touch(u, 0, 0, due, owed, 0)
               /\ owed > 0 => due = PendingReward(update_total_rewards(total_staked, owed), STAKE[u])
               /\ owed = 0 => due = PendingReward(total_staked, STAKE[u])
<1>1. /\ bwynd \in [Holders -> Nat] /\ wynd' = wynd /\ admin_minted' = admin_minted
      /\ bwynd[u] \in Nat /\ bwynd[Vault] \in Nat /\ STAKE[u].stake \in Nat
  BY HoldersFinite, RowTypes DEF execute_withdraw_rewards, BwyndInv, TypeOK
<1>2. PICK act : act = Reward(u)
  OBVIOUS
<1>3. IsActOf(act, u, 0, 0) /\ Perform(act, bwynd) /\ 0 \in Nat /\ 0 <= STAKE[u].stake
  BY <1>1, <1>2 DEF IsActOf, execute_withdraw_rewards
<1>4. bwynd[Vault] = bwynd[Vault] + 0 /\ bwynd[u] = bwynd[u] - 0
  BY <1>1
<1>5. QED
  BY <1>1, <1>3, <1>4, PerformTouches

LEMMA DistributeTouches ==
    ASSUME BwyndInv, NEW u \in Users, execute_distribute_user_rewards(u)
    PROVE  \E due \in Nat : Touch(u, 0, 0, due, 0, 0)
<1>1. /\ bwynd \in [Holders -> Nat] /\ delegated \in [Periods -> Nat] /\ wynd' \in [Users -> Nat]
      /\ bwynd[u] \in Nat /\ bwynd[Vault] \in Nat /\ STAKE[u].stake \in Nat /\ owed' = owed
      /\ delegated' = delegated /\ admin_minted' = admin_minted /\ wynd' = wynd
  BY HoldersFinite, RowTypes DEF execute_distribute_user_rewards, stakingVars, BwyndInv, TypeOK
<1>2. PICK act : act = Reward(u)
  OBVIOUS
<1>3. IsActOf(act, u, 0, 0) /\ PerformOn(act, total_staked, bwynd) /\ 0 \in Nat /\ 0 <= STAKE[u].stake
  BY <1>1, <1>2 DEF IsActOf, execute_distribute_user_rewards
<1>4. SumOver(bwynd, Holders) \in Int /\ SumOver(delegated, Periods) \in Int
  <2>1. (\A h \in Holders : bwynd[h] \in Int) /\ (\A p \in Periods : delegated[p] \in Int)
    BY <1>1
  <2>2. QED
    BY <2>1, HoldersFinite, BwyndAssumption, SumType
<1>5. Prepared(u, 0, 0, 0, total_staked, bwynd)
  BY <1>1, <1>4 DEF Prepared
<1>6. QED
  BY <1>3, <1>5, RequestTouches

LEMMA ConvertTouches ==
    ASSUME BwyndInv, NEW u \in Users, NEW a \in Amounts, execute_convert_token(u, a)
    PROVE  \E due \in Nat : Touch(u, 0, 0, due, owed, a) /\ a > 0
<1>1. /\ bwynd \in [Holders -> Nat] /\ delegated \in [Periods -> Nat] /\ wynd \in [Users -> Nat] /\ owed \in Nat
      /\ bwynd[u] \in Nat /\ bwynd[Vault] \in Nat /\ STAKE[u].stake \in Nat /\ a \in Nat /\ a > 0
  BY HoldersFinite, RowTypes, BwyndAssumption DEF execute_convert_token, BwyndInv, TypeOK
<1>2. PICK act, total, balances :
        /\ act = Reward(u)
        /\ total = IF owed > 0 THEN update_total_rewards(total_staked, owed) ELSE total_staked
        /\ balances = [bwynd EXCEPT ![u] = @ + a, ![Vault] = @ + owed]
  OBVIOUS
<1>3. /\ a <= wynd[u] /\ wynd' = [wynd EXCEPT ![u] = @ - a] /\ owed' = 0 /\ admin_minted' = admin_minted
      /\ PerformOn(act, total, balances)
  BY <1>2 DEF execute_convert_token
<1>4. wynd' \in [Users -> Nat]
  BY <1>1, <1>3
<1>5. /\ balances \in [Holders -> Nat] /\ balances[Vault] = bwynd[Vault] + owed /\ balances[u] = bwynd[u] + a
      /\ \A v \in Holders \ {Vault, u} : balances[v] = bwynd[v]
  <2>1. u \in Holders /\ Vault \in Holders /\ Vault # u
    BY HoldersFinite
  <2>2. bwynd[Vault] + owed \in Nat /\ bwynd[u] + a \in Nat
    BY <1>1
  <2>3. QED
    BY <1>1, <1>2, <2>1, <2>2
<1>6. SumOver(balances, Holders) = SumOver(bwynd, Holders) + owed + a
  <2>1. PICK x \in Int, y \in Int : x = owed /\ y = a
    BY <1>1
  <2>2. /\ bwynd \in [Holders -> Nat] /\ balances[Vault] = bwynd[Vault] + x /\ balances[u] = bwynd[u] + y
    BY <1>1, <1>5, <2>1
  <2>3. SumOver(balances, Holders) = SumOver(bwynd, Holders) + x + y
    BY <1>5, <2>2, BothSum
  <2>4. QED
    BY <2>1, <2>3
<1>7. delegated' \in [Periods -> Nat] /\ SumOver(delegated', Periods) = SumOver(delegated, Periods) + owed + a
  <2>1. PICK x \in Nat : x = owed + a
    BY <1>1
  <2>2. delegated[unbonding_period] \in Nat /\ unbonding_period \in Periods
    BY <1>1 DEF execute_convert_token
  <2>3. delegated' = [delegated EXCEPT ![unbonding_period] = delegated[unbonding_period] + a + owed]
    BY DEF execute_convert_token
  <2>4. delegated[unbonding_period] + a + owed = delegated[unbonding_period] + x
    BY <1>1, <2>1, <2>2
  <2>5. delegated' = [delegated EXCEPT ![unbonding_period] = @ + x]
    BY <2>3, <2>4
  <2>6. delegated' \in [Periods -> Nat] /\ SumOver(delegated', Periods) = SumOver(delegated, Periods) + x
    BY <1>1, <2>2, <2>5, Delegated
  <2>7. SumOver(delegated, Periods) \in Int
    <3>1. \A p \in Periods : delegated[p] \in Int
      BY <1>1
    <3>2. QED
      BY <3>1, BwyndAssumption, SumType
  <2>8. QED
    BY <1>1, <2>1, <2>6, <2>7
<1>8. \A v \in Users \ {u} : balances[v] = bwynd[v]
  BY <1>5, HoldersFinite
<1>9. balances[Vault] = bwynd[Vault] + owed + 0 /\ balances[u] = bwynd[u] - 0 + a
  BY <1>1, <1>5
<1>10. total = update_total_rewards(total_staked, owed) \/ (owed = 0 /\ total = total_staked)
  BY <1>1, <1>2
<1>11. Prepared(u, 0, owed, a, total, balances)
  BY <1>3, <1>4, <1>5, <1>6, <1>7, <1>8, <1>9, <1>10 DEF Prepared
<1>12. IsActOf(act, u, 0, 0) /\ 0 \in Nat /\ 0 <= STAKE[u].stake
  BY <1>1, <1>2 DEF IsActOf
<1>13. \E due \in Nat : Touch(u, 0, 0, due, owed, a)
  BY <1>1, <1>3, <1>11, <1>12, RequestTouches
<1>14. QED
  BY <1>1, <1>13

\* Without an account to serve the vault only keeps the totals.
LEMMA VaultRests ==
    ASSUME NEW balances \in [Holders -> Nat], NEW total, PerformOn(NoAction, total, balances)
    PROVE  total_staked' = total /\ STAKE' = STAKE /\ bwynd' = balances
<1>1. /\ Performed(NoAction, total, STAKE).total = total /\ Performed(NoAction, total, STAKE).stakes = STAKE
      /\ Performed(NoAction, total, STAKE).pay = << >>
  BY DEF Performed, NoAction
<1>2. total_staked' = total /\ STAKE' = STAKE /\ bwynd' = Paid(balances, << >>)
  BY <1>1 DEF PerformOn
<1>3. Spent(<< >>) = 0 /\ \A h \in Holders : Received(<< >>, h) = 0
  BY NoTransfer DEF Brings
<1>4. /\ Paid(balances, << >>) = [h \in Holders |-> IF h = Vault THEN balances[h] - Spent(<< >>)
                                                     ELSE balances[h] + Received(<< >>, h)]
  BY DEF Paid
<1>5. ASSUME NEW h \in Holders PROVE Paid(balances, << >>)[h] = balances[h]
  <2>1. balances[h] \in Nat
    OBVIOUS
  <2>2. balances[h] - 0 = balances[h] /\ balances[h] + 0 = balances[h]
    BY <2>1
  <2>3. QED
    BY <1>3, <1>4, <2>2
<1>6. Paid(balances, << >>) = balances
  BY <1>4, <1>5
<1>7. QED
  BY <1>2, <1>6

\* The converter fetches the reward r for all.
Funded(r) ==
    /\ VaultInv(total_staked', STAKE', bwynd'[Vault]) /\ STAKE' = STAKE
    /\ bwynd' \in [Holders -> Nat] /\ SumOver(bwynd', Holders) = SumOver(bwynd, Holders) + r
    /\ bwynd'[Vault] = bwynd[Vault] + r /\ \A v \in Users : bwynd'[v] = bwynd[v]
    /\ delegated' \in [Periods -> Nat] /\ SumOver(delegated', Periods) = SumOver(delegated, Periods) + r
    /\ owed' \in Nat /\ wynd' \in [Users -> Nat] /\ admin_minted' = admin_minted
    /\ FeesStay

LEMMA HarvestFunds ==
    ASSUME BwyndInv, execute_converter_withdraw_rewards
    PROVE  Funded(owed) /\ owed \in Nat /\ owed > 0
<1>1. /\ bwynd \in [Holders -> Nat] /\ delegated \in [Periods -> Nat] /\ wynd \in [Users -> Nat] /\ owed \in Nat
      /\ bwynd[Vault] \in Nat
  BY HoldersFinite DEF BwyndInv, TypeOK
<1>2. PICK total, balances :
        total = update_total_rewards(total_staked, owed) /\ balances = [bwynd EXCEPT ![Vault] = @ + owed]
  OBVIOUS
<1>3. /\ owed > 0 /\ owed' = 0 /\ unbonding_period \in Periods /\ PerformOn(NoAction, total, balances)
      /\ delegated' = [delegated EXCEPT ![unbonding_period] = @ + owed]
      /\ wynd' = wynd /\ admin_minted' = admin_minted
  BY <1>2 DEF execute_converter_withdraw_rewards, Harvest, Delegate
<1>4. /\ balances \in [Holders -> Nat] /\ balances[Vault] = bwynd[Vault] + owed
      /\ \A h \in Holders \ {Vault} : balances[h] = bwynd[h]
  BY <1>1, <1>2, HoldersFinite
<1>5. SumOver(balances, Holders) = SumOver(bwynd, Holders) + owed
  BY <1>1, <1>4, HoldersFinite, CreditedSum
<1>6. delegated' \in [Periods -> Nat] /\ SumOver(delegated', Periods) = SumOver(delegated, Periods) + owed
  BY <1>1, <1>3, Delegated
<1>7. total_staked' = total /\ STAKE' = STAKE /\ bwynd' = balances
  BY <1>3, <1>4, VaultRests
<1>8. /\ VaultInv(total, STAKE, bwynd[Vault] + owed)
      /\ total.pending_treasury_rewards = total_staked.pending_treasury_rewards + Fee(owed, treasury_fee)
      /\ total.pending_syne_staking_rewards = total_staked.pending_syne_staking_rewards + Fee(owed, syne_staking_fee)
  BY <1>1, <1>2, FetchedBooks
<1>9. FeesStay
  BY <1>1, <1>3, <1>7, <1>8, FeesFetched
<1>10. VaultInv(total_staked', STAKE', bwynd'[Vault])
  BY <1>4, <1>7, <1>8
<1>11. \A v \in Users : bwynd'[v] = bwynd[v]
  BY <1>4, <1>7, HoldersFinite
<1>12. QED
  BY <1>1, <1>3, <1>4, <1>5, <1>6, <1>7, <1>9, <1>10, <1>11 DEF Funded

\* u gives tokens to the stakers, of whom one may collect at once.
Donated(u) ==
    /\ VaultInv(total_staked', STAKE', bwynd'[Vault])
    /\ \A v \in Users : STAKE'[v].stake = STAKE[v].stake
    /\ bwynd' \in [Holders -> Nat] /\ SumOver(bwynd', Holders) = SumOver(bwynd, Holders)
    /\ \A v \in Users \ {u} : bwynd'[v] >= bwynd[v]
    /\ \E v \in Users : \A w \in Users \ {u, v} : bwynd'[w] = bwynd[w]
    /\ delegated' = delegated /\ owed' = owed /\ wynd' = wynd /\ admin_minted' = admin_minted

LEMMA DonationKept ==
    ASSUME BwyndInv, NEW u \in Users, NEW v \in DonationAddresses, NEW a \in Donations,
           execute_distribute_rewards(u, v, a)
    PROVE  Donated(u)
<1>1. /\ bwynd \in [Holders -> Nat] /\ a \in Nat /\ a <= bwynd[u]
      /\ delegated' = delegated /\ owed' = owed /\ wynd' = wynd /\ admin_minted' = admin_minted
  BY BwyndAssumption DEF execute_distribute_rewards, stakingVars, BwyndInv, TypeOK
<1>2. PICK act, total, balances :
        /\ act = IF v = Nobody THEN NoAction ELSE Reward(v)
        /\ total = update_total_rewards(total_staked, a)
        /\ balances = [bwynd EXCEPT ![u] = @ - a, ![Vault] = @ + a]
  OBVIOUS
<1>3. PerformOn(act, total, balances)
  BY <1>2 DEF execute_distribute_rewards
<1>4. /\ balances \in [Holders -> Nat] /\ balances[Vault] = bwynd[Vault] + a /\ balances[u] = bwynd[u] - a
      /\ \A h \in Holders \ {Vault, u} : balances[h] = bwynd[h]
  <2>1. u \in Holders /\ Vault \in Holders /\ Vault # u
    BY HoldersFinite
  <2>2. bwynd[Vault] + a \in Nat /\ bwynd[u] - a \in Nat
    BY <1>1, <2>1
  <2>3. QED
    BY <1>1, <1>2, <2>1, <2>2
<1>5. SumOver(balances, Holders) = SumOver(bwynd, Holders)
  BY <1>1, <1>4, HandedSum
<1>6. \A w \in Users \ {u} : balances[w] = bwynd[w] /\ bwynd[w] \in Nat
  BY <1>1, <1>4, HoldersFinite
<1>7. VaultInv(total, STAKE, balances[Vault])
  <2>1. VaultInv(total, STAKE, bwynd[Vault] + a)
    BY <1>1, <1>2, FetchedBooks
  <2>2. QED
    BY <1>4, <2>1
<1>8. CASE v = Nobody
  <2>1. PerformOn(NoAction, total, balances)
    BY <1>2, <1>3, <1>8
  <2>2. total_staked' = total /\ STAKE' = STAKE /\ bwynd' = balances
    BY <1>4, <2>1, VaultRests
  <2>3. \A w \in Users \ {u} : bwynd'[w] = bwynd[w] /\ bwynd'[w] >= bwynd[w]
    BY <1>6, <2>2
  <2>4. QED
    BY <1>1, <1>4, <1>5, <1>7, <2>2, <2>3 DEF Donated
<1>9. CASE v # Nobody
  <2>1. v \in Users /\ PerformOn(act, total, balances) /\ act = Reward(v)
    BY <1>2, <1>3, <1>9, BwyndAssumption
  <2>2. PICK due, held : due = PendingReward(total, STAKE[v]) /\ held = balances[Vault]
    OBVIOUS
  <2>3. /\ VaultInv(total, STAKE, held) /\ IsActOf(act, v, 0, 0) /\ 0 \in Nat /\ 0 <= STAKE[v].stake
        /\ balances[Vault] = held + 0
    <3>1. VaultInv(total, STAKE, held)
      BY <1>7, <2>2
    <3>2. held \in Nat /\ STAKE[v].stake \in Nat
      BY <2>1, <3>1, RowTypes DEF VaultInv
    <3>3. QED
      BY <2>1, <2>2, <3>1, <3>2 DEF IsActOf
  <2>4. due \in Nat /\ Served(total, balances, v, 0, 0, due)
    BY <1>4, <2>1, <2>2, <2>3, ActServed
  <2>5. /\ bwynd'[v] = balances[v] + 0 + due /\ \A w \in Users \ {v} : bwynd'[w] = balances[w]
        /\ STAKE'[v].stake = STAKE[v].stake + 0 - 0 /\ \A w \in Users \ {v} : STAKE'[w] = STAKE[w]
    BY <2>4 DEF Served
  <2>6. \A w \in Users : STAKE'[w].stake = STAKE[w].stake
    <3>1. STAKE[v].stake \in Nat
      BY <2>1, <2>3, RowTypes
    <3>2. STAKE'[v].stake = STAKE[v].stake
      BY <2>5, <3>1
    <3>3. QED
      BY <2>5, <3>2
  <2>7. \A w \in Users \ {u} : bwynd'[w] >= bwynd[w]
    <3>1. ASSUME NEW w \in Users \ {u} PROVE bwynd'[w] >= bwynd[w]
      <4>1. balances[w] = bwynd[w] /\ bwynd[w] \in Nat
        BY <1>6
      <4>2. CASE w = v
        BY <2>4, <2>5, <4>1, <4>2
      <4>3. CASE w # v
        BY <2>5, <4>1, <4>3
      <4>4. QED
        BY <4>2, <4>3
    <3>2. QED
      BY <3>1
  <2>8. \A w \in Users \ {u, v} : bwynd'[w] = bwynd[w]
    BY <1>6, <2>5
  <2>9. QED
    BY <1>1, <1>5, <2>1, <2>4, <2>6, <2>7, <2>8 DEF Donated, Served
<1>10. QED
  BY <1>8, <1>9

-----------------------------------------------------------------------------
(* The invariant *)

LEMMA BwyndInit == Init => BwyndInv
<1> SUFFICES ASSUME Init PROVE BwyndInv
  OBVIOUS
<1>1. TypeOK
  BY BwyndAssumption DEF Init, TypeOK, NoTokenInfo, TokenInfo, NoStakingInfo, StakingInfo
<1>2. SumOver(bwynd, Holders) = 0 /\ SumOver(delegated, Periods) = 0
  <2>1. (\A h \in Holders : bwynd[h] = 0) /\ (\A p \in Periods : delegated[p] = 0)
    BY DEF Init
  <2>2. QED
    BY <2>1, HoldersFinite, BwyndAssumption, SumZero
<1>3. SumOver(StakesOf(STAKE), Users) = 0 /\ SumOver(EarnedOf(total_staked, STAKE), Users) = 0
  <2>1. \A u \in Users : StakesOf(STAKE)[u] = 0 /\ EarnedOf(total_staked, STAKE)[u] = 0
    BY DEF Init, StakesOf, EarnedOf, NoStakingInfo, NoTokenInfo
  <2>2. QED
    BY <2>1, VaultUsersAssumption, SumZero
<1>4. bwynd[Vault] = 0 /\ total_staked.staked = 0 /\ FixedDebt(total_staked) = 0
  BY HoldersFinite DEF Init, NoTokenInfo, FixedDebt
<1>5. \A u \in Users : STAKE[u].power_diff <= total_staked.power
  BY DEF Init, NoTokenInfo, NoStakingInfo
<1>6. VaultInv(total_staked, STAKE, bwynd[Vault])
  <2>1. FixedDebt(total_staked) * Unit + SumOver(EarnedOf(total_staked, STAKE), Users) <= bwynd[Vault] * Unit
    BY <1>3, <1>4, FeesAssumption
  <2>2. QED
    BY <1>1, <1>3, <1>4, <1>5, <2>1 DEF VaultInv, TypeOK
<1>7. BwyndBacked
  BY <1>2 DEF BwyndBacked, Init
<1>8. QED
  BY <1>1, <1>6, <1>7 DEF BwyndInv

\* New tokens are delegated, so the invariant holds after a step that changes both sums alike.
LEMMA BooksKept ==
    ASSUME BwyndInv, NEW x \in Nat,
           VaultInv(total_staked', STAKE', bwynd'[Vault]), bwynd' \in [Holders -> Nat],
           SumOver(bwynd', Holders) = SumOver(bwynd, Holders) + x,
           delegated' \in [Periods -> Nat], SumOver(delegated', Periods) = SumOver(delegated, Periods) + x,
           owed' \in Nat, wynd' \in [Users -> Nat], admin_minted' = admin_minted
    PROVE  BwyndInv'
<1>1. TypeOK'
  BY DEF TypeOK, VaultInv, BwyndInv
<1>2. SumOver(bwynd, Holders) = SumOver(delegated, Periods) + admin_minted /\ admin_minted \in Nat
  BY DEF BwyndInv, BwyndBacked, TypeOK
<1>3. SumOver(delegated, Periods) \in Int
  <2>1. \A p \in Periods : delegated[p] \in Int
    BY DEF BwyndInv, TypeOK
  <2>2. QED
    BY <2>1, BwyndAssumption, SumType
<1>4. SumOver(bwynd', Holders) = SumOver(delegated', Periods) + admin_minted'
  BY <1>2, <1>3
<1>5. BwyndBacked'
  BY <1>4 DEF BwyndBacked, Holders
<1>6. QED
  BY <1>1, <1>5 DEF BwyndInv, VaultInv

LEMMA TouchKeeps ==
    ASSUME BwyndInv, NEW u \in Users, NEW put, NEW take, NEW due, NEW r \in Nat, NEW m \in Nat,
           Touch(u, put, take, due, r, m)
    PROVE  BwyndInv'
<1>1. PICK x \in Nat : x = r + m
  OBVIOUS
<1>2. SumOver(bwynd, Holders) \in Int /\ SumOver(delegated, Periods) \in Int
  <2>1. (\A h \in Holders : bwynd[h] \in Int) /\ (\A p \in Periods : delegated[p] \in Int)
    BY DEF BwyndInv, TypeOK
  <2>2. QED
    BY <2>1, HoldersFinite, BwyndAssumption, SumType
<1>3. SumOver(bwynd', Holders) = SumOver(bwynd, Holders) + x /\ SumOver(delegated', Periods) = SumOver(delegated, Periods) + x
  BY <1>1, <1>2 DEF Touch
<1>4. QED
  BY <1>3, BooksKept DEF Touch

LEMMA MintKeeps ==
    ASSUME BwyndInv, NEW sender, NEW to \in Users, NEW a \in AdminMints, execute_mint(sender, to, a)
    PROVE  /\ BwyndInv' /\ a \in Nat /\ bwynd'[to] = bwynd[to] + a /\ bwynd'[Vault] = bwynd[Vault]
           /\ \A v \in Users \ {to} : bwynd'[v] = bwynd[v]
<1>1. /\ bwynd \in [Holders -> Nat] /\ a \in Nat /\ to \in Holders /\ admin_minted \in Nat
      /\ admin_minted' = admin_minted + a /\ total_staked' = total_staked /\ STAKE' = STAKE
      /\ wynd' = wynd /\ delegated' = delegated /\ owed' = owed /\ Vault # to
  BY BwyndAssumption, HoldersFinite DEF execute_mint, stakingVars, BwyndInv, TypeOK
<1>2. PICK after : after = bwynd'
  OBVIOUS
<1>3. /\ after \in [Holders -> Nat] /\ after[to] = bwynd[to] + a /\ \A h \in Holders \ {to} : after[h] = bwynd[h]
  BY <1>1, <1>2 DEF execute_mint
<1>4. SumOver(after, Holders) = SumOver(bwynd, Holders) + a /\ SumOver(bwynd, Holders) \in Int
  BY <1>1, <1>3, HoldersFinite, CreditedSum
<1>5. after[Vault] = bwynd[Vault]
  BY <1>1, <1>3, HoldersFinite
<1>6. TypeOK'
  BY <1>1, <1>2, <1>3 DEF TypeOK, BwyndInv
<1>7. SumOver(bwynd, Holders) = SumOver(delegated, Periods) + admin_minted
  BY DEF BwyndInv, BwyndBacked
<1>8. SumOver(delegated, Periods) \in Int
  <2>1. \A p \in Periods : delegated[p] \in Int
    BY DEF BwyndInv, TypeOK
  <2>2. QED
    BY <2>1, BwyndAssumption, SumType
<1>9. SumOver(bwynd', Holders) = SumOver(delegated', Periods) + admin_minted'
  BY <1>1, <1>2, <1>4, <1>7, <1>8
<1>10. BwyndBacked'
  BY <1>9 DEF BwyndBacked, Holders
<1>11. VaultInv(total_staked, STAKE, bwynd[Vault])'
  BY <1>1, <1>2, <1>5 DEF BwyndInv, VaultInv
<1>12. \A v \in Users \ {to} : bwynd'[v] = bwynd[v]
  BY <1>2, <1>3, HoldersFinite
<1>13. QED
  BY <1>1, <1>2, <1>3, <1>5, <1>6, <1>10, <1>11, <1>12 DEF BwyndInv

\* A step that leaves tokens and stakes alone.
LEMMA IdleKeeps ==
    ASSUME BwyndInv, owed' \in Nat, UNCHANGED <<total_staked, STAKE, bwynd, wynd, delegated, admin_minted>>
    PROVE  BwyndInv'
<1>1. TypeOK' /\ BwyndBacked'
  BY DEF BwyndInv, TypeOK, BwyndBacked, Holders
<1>2. VaultInv(total_staked, STAKE, bwynd[Vault])'
  BY DEF BwyndInv, VaultInv
<1>3. QED
  BY <1>1, <1>2 DEF BwyndInv

\* u is served by a transaction that puts in, takes out or deposits.
Touched ==
    \E u \in Users : \E put, take, due, r, m \in Nat :
        /\ put = 0 \/ take = 0
        /\ m = 0 \/ (put = 0 /\ take = 0)
        /\ Touch(u, put, take, due, r, m)

Minted == \E s \in Users, to \in Users, a \in AdminMints : execute_mint(s, to, a)

Donation == \E u \in Users, v \in DonationAddresses, a \in Donations : execute_distribute_rewards(u, v, a)

\* Neither tokens nor stakes move; rewards may accrue.
Idle ==
    /\ UNCHANGED <<total_staked, STAKE, bwynd, wynd, delegated, admin_minted>>
    /\ owed' \in Nat
    /\ owed' = owed \/ \E r \in AccruedRewards : Accrue(r)

\* The transactions by what they do to the books.
LEMMA StepKinds ==
    ASSUME BwyndInv, [Next]_vars
    PROVE  \/ Touched
           \/ \E r \in Nat \ {0} : Funded(r)
           \/ Donation /\ \E u \in Users : Donated(u)
           \/ Minted
           \/ Idle
<1>1. owed \in Nat /\ Amounts \subseteq Nat /\ 0 \in Nat
  BY BwyndAssumption DEF BwyndInv, TypeOK
<1>2. ASSUME NEW u \in Users, NEW a \in Amounts, execute_stake(u, a) PROVE Touched
  <2>1. PICK due \in Nat : Touch(u, a, 0, due, owed, 0)
    BY <1>2, StakeTouches
  <2>2. QED
    BY <1>1, <2>1 DEF Touched
<1>3. ASSUME NEW u \in Users, NEW a \in Amounts, execute_unstake(u, a) PROVE Touched
  <2>1. PICK due \in Nat : Touch(u, 0, a, due, owed, 0)
    BY <1>3, UnstakeTouches
  <2>2. QED
    BY <1>1, <2>1 DEF Touched
<1>4. ASSUME NEW u \in Users, NEW a \in Amounts, execute_convert_token(u, a) PROVE Touched
  <2>1. PICK due \in Nat : Touch(u, 0, 0, due, owed, a)
    BY <1>4, ConvertTouches
  <2>2. QED
    BY <1>1, <2>1 DEF Touched
<1>5. ASSUME NEW u \in Users, execute_withdraw_rewards(u) PROVE Touched
  <2>1. PICK due \in Nat : Touch(u, 0, 0, due, owed, 0)
    BY <1>5, WithdrawTouches
  <2>2. QED
    BY <1>1, <2>1 DEF Touched
<1>6. ASSUME NEW u \in Users, execute_distribute_user_rewards(u) PROVE Touched
  <2>1. PICK due \in Nat : Touch(u, 0, 0, due, 0, 0)
    BY <1>6, DistributeTouches
  <2>2. QED
    BY <1>1, <2>1 DEF Touched
<1>7. ASSUME NEW u \in Users, NEW v \in DonationAddresses, NEW a \in Donations, execute_distribute_rewards(u, v, a)
      PROVE  Donation /\ \E w \in Users : Donated(w)
  BY <1>7, DonationKept DEF Donation
<1>8. CASE execute_converter_withdraw_rewards
  BY <1>8, HarvestFunds
<1>9. ASSUME NEW s \in Users, NEW x \in NewPeriods, execute_update_config(s, x) PROVE Idle
  BY <1>1, <1>9 DEF execute_update_config, Idle, tokenVars, stakingVars
<1>10. ASSUME NEW s \in Users, NEW new \in NewAdmins, execute_update_admin(s, new) PROVE Idle
  BY <1>1, <1>10 DEF execute_update_admin, Idle, tokenVars, stakingVars
<1>11. ASSUME NEW r \in AccruedRewards, Accrue(r) PROVE Idle
  <2>1. owed' \in Nat
    BY <1>1, <1>11, BwyndAssumption DEF Accrue
  <2>2. UNCHANGED <<total_staked, STAKE, bwynd, wynd, delegated, admin_minted>>
    BY <1>11 DEF Accrue, tokenVars
  <2>3. QED
    BY <1>11, <2>1, <2>2 DEF Idle
<1>12. CASE UNCHANGED vars
  BY <1>1, <1>12 DEF vars, tokenVars, stakingVars, Idle
<1>13. CASE Next
  BY <1>2, <1>3, <1>4, <1>5, <1>6, <1>7, <1>8, <1>9, <1>10, <1>11, <1>13 DEF Next, Minted
<1>14. QED
  BY <1>12, <1>13

LEMMA BwyndStep == ASSUME BwyndInv, [Next]_vars PROVE BwyndInv'
<1>1. SumOver(delegated, Periods) \in Int /\ SumOver(bwynd, Holders) \in Int
  <2>1. (\A h \in Holders : bwynd[h] \in Int) /\ (\A p \in Periods : delegated[p] \in Int)
    BY DEF BwyndInv, TypeOK
  <2>2. QED
    BY <2>1, HoldersFinite, BwyndAssumption, SumType
<1>2. CASE Touched
  BY <1>2, TouchKeeps DEF Touched
<1>3. ASSUME NEW r \in Nat, Funded(r) PROVE BwyndInv'
  BY <1>3, BooksKept DEF Funded
<1>4. ASSUME NEW u \in Users, Donated(u) PROVE BwyndInv'
  <2>1. /\ SumOver(bwynd', Holders) = SumOver(bwynd, Holders) + 0
        /\ SumOver(delegated', Periods) = SumOver(delegated, Periods) + 0
    BY <1>1, <1>4 DEF Donated
  <2>2. delegated' \in [Periods -> Nat] /\ owed' \in Nat /\ wynd' \in [Users -> Nat] /\ admin_minted' = admin_minted
    BY <1>4 DEF Donated, BwyndInv, TypeOK
  <2>3. QED
    BY <1>4, <2>1, <2>2, BooksKept DEF Donated
<1>5. CASE Minted
  BY <1>5, MintKeeps DEF Minted
<1>6. CASE Idle
  BY <1>6, IdleKeeps DEF Idle
<1>7. QED
  BY <1>2, <1>3, <1>4, <1>5, <1>6, StepKinds

\* The vault covers the whole stake and the reward of any account, with the rewards that wait.
LEMMA UnstakeCovered == ASSUME BwyndInv PROVE EveryoneCanUnstake
<1>1. SUFFICES ASSUME NEW u \in Users, NEW act, NEW total, NEW balances,
                      act = Unstake(u, STAKE[u].stake),
                      total = IF owed > 0 THEN update_total_rewards(total_staked, owed) ELSE total_staked,
                      balances = [bwynd EXCEPT ![Vault] = @ + owed]
               PROVE  Covered(balances, Performed(act, total, STAKE).pay)
  BY DEF EveryoneCanUnstake
<1>2. owed \in Nat /\ bwynd \in [Holders -> Nat] /\ STAKE[u].stake \in Nat
  BY RowTypes DEF BwyndInv, TypeOK
<1>3. total = update_total_rewards(total_staked, owed) \/ (owed = 0 /\ total = total_staked)
  BY <1>1, <1>2
<1>4. PICK held, take, due, done :
        /\ held = bwynd[Vault] + owed /\ take = STAKE[u].stake
        /\ due = PendingReward(total, STAKE[u]) /\ done = Performed(act, total, STAKE)
  OBVIOUS
<1>5. VaultInv(total, STAKE, held)
  BY <1>2, <1>3, <1>4, FetchedBooks
<1>6. IsActOf(act, u, 0, take) /\ take \in Nat /\ 0 \in Nat /\ take <= STAKE[u].stake
  BY <1>1, <1>2, <1>4 DEF IsActOf
<1>7. Settles(total, STAKE, u, 0, take, done.total, done.stakes) /\ PaysTo(done.pay, u, take + due)
  BY <1>4, <1>5, <1>6, PerformedIs
<1>8. take + due <= held /\ due \in Nat
  BY <1>4, <1>5, <1>6, <1>7, AccountSettled
<1>9. balances[Vault] = held
  BY <1>1, <1>2, <1>4, HoldersFinite
<1>10. take + due \in Nat
  BY <1>6, <1>8
<1>11. Brings(done.pay, u, take + due)
  BY <1>7, <1>10, PaysToBrings
<1>12. QED
  BY <1>4, <1>8, <1>9, <1>11 DEF Covered, Brings

LEMMA BwyndInvSound == BwyndInv => BwyndSound
<1> SUFFICES ASSUME BwyndInv PROVE BwyndSound
  OBVIOUS
<1>1. Liabilities(total_staked, STAKE) <= bwynd[Vault]
  BY DebtCovered DEF BwyndInv
<1>2. QED
  BY <1>1, UnstakeCovered DEF BwyndInv, BwyndSound, VaultSolvent

LEMMA BwyndInvHolds == Spec => []BwyndInv
<1>1. BwyndInv /\ [Next]_vars => BwyndInv'
  BY BwyndStep
<1>2. QED
  BY BwyndInit, <1>1, PTL DEF Spec

\* The bWYND vault holds the stakes, the fees and every reward it owes, for any number of users,
\* any fees and any rewards: each can leave with the whole stake and the reward, and every bWYND
\* that the admin did not mint stands for a delegated WYND.
THEOREM BwyndAlwaysSound == Spec => []BwyndSound
  BY BwyndInvHolds, BwyndInvSound, PTL

\* Fetching the rewards, by whatever transaction, moves the fees from what is owed to what is
\* pending without changing what query_treasury_reward and query_syne_staking_reward show.
THEOREM BwyndFeesShownOnce == Spec => FeesShownOnce
<1> DEFINE Shown == \/ \E r \in AccruedRewards : Accrue(r)
                    \/ Donation
                    \/ FeesStay
<1>1. ASSUME BwyndInv, [Next]_vars PROVE Shown
  <2>1. CASE Touched
    BY <2>1 DEF Touched, Touch
  <2>2. ASSUME NEW r, Funded(r) PROVE FeesStay
    BY <2>2 DEF Funded
  <2>3. CASE Minted
    BY <2>3 DEF Minted, execute_mint, stakingVars, FeesStay, query_treasury_reward, query_syne_staking_reward, Fee
  <2>4. CASE Idle /\ owed' = owed
    BY <2>4 DEF Idle, FeesStay, query_treasury_reward, query_syne_staking_reward, Fee
  <2>5. QED
    BY <1>1, <2>1, <2>2, <2>3, <2>4, StepKinds DEF Idle
<1>2. BwyndInv /\ [Next]_vars
        => [\/ \E r \in AccruedRewards : Accrue(r)
            \/ \E u \in Users, v \in DonationAddresses, a \in Donations : execute_distribute_rewards(u, v, a)
            \/ /\ query_treasury_reward' = query_treasury_reward
               /\ query_syne_staking_reward' = query_syne_staking_reward]_vars
  BY <1>1 DEF Donation, FeesStay
<1>3. QED
  BY BwyndInvHolds, <1>2, PTL DEF Spec, FeesShownOnce

-----------------------------------------------------------------------------
(* What the query of a reward shows *)

\* What is left of a reward x after the fees, times Unit, and the same with unrounded fees.
LEMMA NetReward ==
    ASSUME NEW x \in Nat
    PROVE  LET net == x - Fee(x, treasury_fee) - Fee(x, syne_staking_fee)
               exact == x * (Unit - treasury_fee - syne_staking_fee)
           IN  /\ net \in Nat /\ exact \in Nat
               /\ exact <= net * Unit
               /\ net * Unit <= exact + (Roundings - 1) * (Unit - 1)
<1> DEFINE t == Fee(x, treasury_fee)
           s == Fee(x, syne_staking_fee)
           xt == x * treasury_fee
           xs == x * syne_staking_fee
           net == x - t - s
           exact == x * (Unit - treasury_fee - syne_staking_fee)
           rt == IF treasury_fee > 0 THEN 1 ELSE 0
           rs == IF syne_staking_fee > 0 THEN 1 ELSE 0
<1>1. Unit \in Nat \ {0} /\ xt \in Nat /\ xs \in Nat /\ t = xt \div Unit /\ s = xs \div Unit
  BY FeesAssumption DEF Fee
<1>2. t \in Nat /\ s \in Nat /\ t + s <= x
  BY FeesBounded
<1>3. treasury_fee = 0 => xt = 0
  BY FeesAssumption
<1>4. syne_staking_fee = 0 => xs = 0
  BY FeesAssumption
<1>5. exact = x * Unit - xt - xs /\ exact \in Nat /\ x * Unit \in Nat
  <2>1. Unit - treasury_fee - syne_staking_fee \in Nat
    BY FeesAssumption
  <2>2. exact \in Nat
    BY <2>1, ProductType
  <2>3. exact = x * Unit - xt - xs /\ x * Unit \in Nat
    BY FeesAssumption
  <2>4. QED
    BY <2>2, <2>3
<1> HIDE DEF xt, xs, t, s, exact
<1>6. t * Unit <= xt /\ s * Unit <= xs /\ xt < t * Unit + Unit /\ xs < s * Unit + Unit /\ t * Unit \in Nat /\ s * Unit \in Nat
  BY <1>1, <1>2, QuotientBounds
<1>7. xt - t * Unit <= rt * (Unit - 1)
  <2>1. CASE treasury_fee = 0
    BY <1>1, <1>3, <1>6, <2>1
  <2>2. CASE treasury_fee > 0
    BY <1>1, <1>6, <2>2
  <2>3. QED
    BY <2>1, <2>2, FeesAssumption
<1>8. xs - s * Unit <= rs * (Unit - 1)
  <2>1. CASE syne_staking_fee = 0
    BY <1>1, <1>4, <1>6, <2>1
  <2>2. CASE syne_staking_fee > 0
    BY <1>1, <1>6, <2>2
  <2>3. QED
    BY <2>1, <2>2, FeesAssumption
<1>9. net \in Nat /\ net * Unit = x * Unit - t * Unit - s * Unit
  BY <1>1, <1>2
<1>10. /\ rt \in Nat /\ rs \in Nat /\ Roundings - 1 = rt + rs
  BY DEF Roundings
<1> HIDE DEF rt, rs, net
<1>11. (Roundings - 1) * (Unit - 1) = rt * (Unit - 1) + rs * (Unit - 1) /\ rt * (Unit - 1) \in Nat /\ rs * (Unit - 1) \in Nat
  <2>1. PICK w \in Nat : w = Unit - 1
    BY <1>1
  <2>2. (rt + rs) * w = rt * w + rs * w /\ rt * w \in Nat /\ rs * w \in Nat
    BY <1>10, <2>1
  <2>3. QED
    BY <1>10, <2>1, <2>2
<1>12. exact <= net * Unit
  BY <1>1, <1>5, <1>6, <1>9
<1>13. net * Unit <= exact + (Roundings - 1) * (Unit - 1)
  BY <1>1, <1>5, <1>6, <1>7, <1>8, <1>9, <1>11
<1>14. QED
  BY <1>5, <1>9, <1>12, <1>13 DEF net, exact, t, s

\* A share k of a total T of the net reward, computed through the power (gain), and directly.
LEMMA SharesClose ==
    ASSUME NEW T \in Nat \ {0}, NEW k \in Nat, k <= T, NEW U \in Nat \ {0}, NEW net \in Nat, NEW exact \in Nat,
           NEW c \in Nat, exact <= net * U, net * U <= exact + c,
           NEW gain, gain = (net * U) \div T, NEW share, share = ((exact * k) \div T) \div U
    PROVE  /\ gain \in Nat /\ share \in Nat
           /\ gain * k < U * share + U + c
           /\ U * share <= gain * k + k
<1>1. PICK nu \in Nat, y \in Nat : nu = net * U /\ y = exact * k
  BY ProductType
<1>2. PICK z : z = y \div T
  OBVIOUS
<1>3. gain \in Nat /\ gain * T <= nu /\ nu < gain * T + T
  BY <1>1, QuotientBounds
<1>4. z \in Nat /\ z * T <= y /\ y < z * T + T
  BY <1>1, <1>2, QuotientBounds
<1>5. share \in Nat /\ share * U <= z /\ z < share * U + U
  BY <1>1, <1>2, <1>4, QuotientBounds
<1>6. PICK gk \in Nat, us \in Nat : gk = gain * k /\ us = share * U
  BY <1>3, <1>5, ProductType
<1>7. U * share = us
  BY <1>5, <1>6
<1>8. gk * T = (gain * T) * k
  BY <1>3, <1>6
<1>9. gk < us + U + c
  <2>1. (gain * T) * k <= nu * k
    BY <1>3, ProductGrows
  <2>2. nu * k <= (exact + c) * k
    BY <1>1, ProductGrows
  <2>3. (exact + c) * k = y + c * k
    BY <1>1
  <2>4. c * k <= c * T
    <3>1. k * c <= T * c
      BY ProductGrows
    <3>2. QED
      BY <3>1
  <2>5. z + 1 <= us + U
    BY <1>4, <1>5, <1>6
  <2>6. (z + 1) * T <= (us + U) * T
    BY <1>4, <1>6, <2>5, ProductGrows
  <2>7. (z + 1) * T = z * T + T
    BY <1>4
  <2>8. (us + U + c) * T = (us + U) * T + c * T
    BY <1>6
  <2>9. /\ gk * T \in Nat /\ nu * k \in Nat /\ c * k \in Nat /\ c * T \in Nat /\ (us + U) * T \in Nat /\ z * T \in Nat
        /\ (us + U + c) * T \in Nat /\ (exact + c) * k \in Nat
    BY <1>1, <1>4, <1>6, ProductType
  <2>10. gk * T < (us + U + c) * T
    BY <1>1, <1>4, <1>8, <2>1, <2>2, <2>3, <2>4, <2>6, <2>7, <2>8, <2>9
  <2>11. ASSUME gk >= us + U + c PROVE FALSE
    <3>1. (us + U + c) * T <= gk * T
      BY <1>6, <2>11, ProductGrows
    <3>2. QED
      BY <2>9, <2>10, <3>1
  <2>12. QED
    BY <1>6, <2>11
<1>10. us <= gk + k
  <2>1. us * T <= z * T
    BY <1>4, <1>5, <1>6, ProductGrows
  <2>2. exact * k <= nu * k
    BY <1>1, ProductGrows
  <2>3. nu * k <= (gain * T + T) * k
    <3>1. PICK b \in Nat : b = gain * T + T
      BY <1>3, ProductType
    <3>2. nu <= b
      BY <1>1, <1>3, <3>1
    <3>3. nu * k <= b * k
      BY <1>1, <3>1, <3>2, ProductGrows
    <3>4. QED
      BY <3>1, <3>3
  <2>4. (gain * T + T) * k = (gain * T) * k + T * k
    BY <1>3
  <2>5. (gk + k) * T = gk * T + T * k
    BY <1>6
  <2>6. us * T \in Nat /\ z * T \in Nat /\ nu * k \in Nat /\ (gk + k) * T \in Nat /\ (gain * T + T) * k \in Nat
    BY <1>1, <1>3, <1>4, <1>6, ProductType
  <2>7. us * T <= (gk + k) * T
    <3>1. us * T <= y
      BY <1>1, <1>4, <2>1, <2>6
    <3>2. y <= nu * k
      BY <1>1, <2>2
    <3>3. nu * k <= (gk + k) * T
      BY <1>8, <2>3, <2>4, <2>5
    <3>4. QED
      BY <1>1, <2>6, <3>1, <3>2, <3>3
  <2>8. QED
    BY <1>6, <2>7, ProductCancels
<1>11. QED
  BY <1>3, <1>5, <1>6, <1>7, <1>9, <1>10

\* p + gk is a reward in units of 1/U: `due` is the rounded sum, `pending` and `share` the parts
\* that the query rounds on their own.
Parts(U, k, p, gk, share, n, due, pending) ==
    /\ U \in Nat \ {0} /\ k \in Nat /\ p \in Nat /\ gk \in Nat /\ share \in Nat /\ n \in Nat
    /\ gk < U * share + U + n * (U - 1) /\ U * share <= gk + k
    /\ due = (p + gk) \div U /\ pending = p \div U

LEMMA PartsClose ==
    ASSUME NEW U, NEW k, NEW p, NEW gk, NEW share, NEW n, NEW due, NEW pending,
           Parts(U, k, p, gk, share, n, due, pending)
    PROVE  due \in Nat /\ due <= pending + share + 1 + n /\ pending + share <= due + CeilDiv(k, U)
<1> USE DEF Parts
<1>1. due \in Nat /\ due * U <= p + gk /\ p + gk < due * U + U
  BY QuotientBounds
<1>2. pending \in Nat /\ pending * U <= p /\ p < pending * U + U
  BY QuotientBounds
<1>3. PICK e : e = CeilDiv(k, U)
  OBVIOUS
<1>4. e \in Nat /\ k <= e * U
  <2>1. PICK w \in Nat : w = k + U - 1
    OBVIOUS
  <2>2. e = w \div U
    BY <1>3, <2>1 DEF CeilDiv
  <2>3. e \in Nat /\ e * U <= w /\ w < e * U + U
    BY <2>1, <2>2, QuotientBounds
  <2>4. e * U \in Nat
    BY <2>3
  <2>5. QED
    BY <2>1, <2>3, <2>4
<1>5. due * U \in Nat /\ pending * U \in Nat /\ e * U \in Nat /\ U * share \in Nat /\ n * U \in Nat
  BY <1>1, <1>2, <1>4, ProductType
<1>6. due <= pending + share + 1 + n
  <2>1. n * (U - 1) = n * U - n
    OBVIOUS
  <2>2. (pending + share + 2 + n) * U = pending * U + U * share + U + U + n * U
    BY <1>2
  <2>3. due * U < (pending + share + 2 + n) * U
    BY <1>1, <1>2, <1>5, <2>1, <2>2
  <2>4. ASSUME due >= pending + share + 2 + n PROVE FALSE
    <3>0. pending + share + 2 + n \in Nat
      BY <1>2
    <3>1. PICK b \in Nat : b = pending + share + 2 + n
      BY <3>0, Zenon
    <3>2. b * U <= due * U
      BY <1>1, <2>4, <3>1, ProductGrows
    <3>3. QED
      BY <1>5, <2>3, <3>1, <3>2
  <2>5. QED
    BY <1>1, <1>2, <2>4
<1>7. pending + share <= due + e
  <2>1. (due + e + 1) * U = due * U + e * U + U
    BY <1>1, <1>4
  <2>2. (pending + share) * U = pending * U + U * share
    BY <1>2
  <2>3. (pending + share) * U < (due + e + 1) * U
    BY <1>1, <1>2, <1>4, <1>5, <2>1, <2>2
  <2>4. ASSUME pending + share >= due + e + 1 PROVE FALSE
    <3>0. pending + share \in Nat /\ due + e + 1 \in Nat
      BY <1>1, <1>2, <1>4
    <3>1. PICK b \in Nat, a \in Nat : b = pending + share /\ a = due + e + 1
      BY <3>0, Zenon
    <3>2. a * U <= b * U
      BY <2>4, <3>1, ProductGrows
    <3>3. a * U \in Nat /\ b * U \in Nat
      BY <3>1, ProductType
    <3>4. QED
      BY <2>3, <3>1, <3>2, <3>3
  <2>5. QED
    BY <1>1, <1>2, <1>4, <2>4
<1>8. QED
  BY <1>1, <1>3, <1>6, <1>7

\* What the query of u shows while the reward x waits.
Shown(total, stakes, x, u) ==
    IF total.staked = 0 THEN 0
    ELSE PendingReward(total, stakes[u])
         + ((x * (Unit - treasury_fee - syne_staking_fee) * stakes[u].stake) \div total.staked) \div Unit

\* What u is paid after the reward x has been fetched, and what the query shows before.
LEMMA QueryClose ==
    ASSUME NEW total, NEW stakes, NEW held, VaultInv(total, stakes, held), NEW u \in Users, NEW x \in Nat, x > 0,
           NEW due, due = PendingReward(update_total_rewards(total, x), stakes[u])
    PROVE  /\ due \in Nat /\ due <= Shown(total, stakes, x, u) + Roundings
           /\ Shown(total, stakes, x, u) <= due + CeilDiv(stakes[u].stake, Unit)
<1> DEFINE T == total.staked
           k == stakes[u].stake
           w == total.power - stakes[u].power_diff
           net == x - Fee(x, treasury_fee) - Fee(x, syne_staking_fee)
           exact == x * (Unit - treasury_fee - syne_staking_fee)
           n == Roundings - 1
           gain == (net * Unit) \div T
           share == ((exact * k) \div T) \div Unit
           e == CeilDiv(k, Unit)
<1>1. Unit \in Nat \ {0}
  BY FeesAssumption
<1>2. /\ k \in Nat /\ stakes[u].power_diff \in Nat /\ total.power \in Nat
      /\ stakes[u].power_diff <= total.power /\ w \in Nat
  BY <1>1, RowTypes
<1>3. T \in Nat /\ k <= T
  BY <1>1, SumTypes
<1>4. net \in Nat /\ exact \in Nat /\ exact <= net * Unit /\ net * Unit <= exact + n * (Unit - 1)
  BY <1>1, NetReward
<1>5. n \in Nat /\ Roundings = 1 + n /\ Roundings \in Nat
  BY DEF Roundings
<1>6. update_total_rewards(total, x).power = total.power + (IF T > 0 THEN gain ELSE 0)
  BY DEF update_total_rewards
<1>7. e \in Nat
  <2>1. k + Unit - 1 \in Nat
    BY <1>1, <1>2
  <2>2. QED
    BY <1>1, <2>1, QuotientBounds DEF CeilDiv
<1>8. CASE T = 0
  <2>1. k = 0 /\ Shown(total, stakes, x, u) = 0
    BY <1>2, <1>3, <1>8 DEF Shown
  <2>2. Monus(update_total_rewards(total, x).power, stakes[u].power_diff) = w
    BY <1>2, <1>6, <1>8 DEF Monus
  <2>3. due = (w * k) \div Unit
    BY <2>2 DEF PendingReward
  <2>4. due = 0
    BY <1>1, <1>2, <2>1, <2>3
  <2>5. QED
    BY <1>5, <1>7, <2>1, <2>4
<1>9. CASE T > 0
  <2>1. PICK c \in Nat : c = n * (Unit - 1)
    <3>1. Unit - 1 \in Nat
      BY <1>1
    <3>2. n * (Unit - 1) \in Nat
      BY <1>5, <3>1, ProductType
    <3>3. QED
      BY <3>2, Zenon
  <2> HIDE DEF T, k, w, net, exact, n, e
  <2>a. gain = (net * Unit) \div T /\ share = ((exact * k) \div T) \div Unit
    OBVIOUS
  <2> HIDE DEF gain, share
  <2>b. T \in Nat \ {0} /\ net * Unit <= exact + c
    BY <1>3, <1>4, <1>9, <2>1
  <2>2. /\ gain \in Nat /\ share \in Nat /\ gain * k < Unit * share + Unit + c
        /\ Unit * share <= gain * k + k
    BY <1>1, <1>2, <1>3, <1>4, <2>a, <2>b, SharesClose
  <2>3. PICK p \in Nat, gk \in Nat : p = w * k /\ gk = gain * k
    BY <1>2, <2>2, ProductType
  <2>4. due = (p + gk) \div Unit
    <3>1. update_total_rewards(total, x).power = total.power + gain
      BY <1>6, <1>9
    <3>2. Monus(update_total_rewards(total, x).power, stakes[u].power_diff) = w + gain
      BY <1>2, <2>2, <3>1 DEF Monus, w
    <3>3. due = ((w + gain) * k) \div Unit
      BY <3>2 DEF PendingReward, k
    <3>4. (w + gain) * k = p + gk
      BY <1>2, <2>2, <2>3
    <3>5. QED
      BY <3>3, <3>4
  <2>5. PICK pending : pending = p \div Unit
    OBVIOUS
  <2>6. Shown(total, stakes, x, u) = pending + share
    <3>1. Monus(total.power, stakes[u].power_diff) = w
      BY <1>2 DEF Monus, w
    <3>2. PendingReward(total, stakes[u]) = pending
      BY <2>3, <2>5, <3>1 DEF PendingReward, k
    <3>3. total.staked # 0
      BY <1>3, <1>9 DEF T
    <3>4. QED
      BY <3>2, <3>3 DEF Shown, share, exact, T, k
  <2>7. gk < Unit * share + Unit + c /\ Unit * share <= gk + k
    BY <2>2, <2>3
  <2>8. due \in Nat /\ due <= pending + share + 1 + n /\ pending + share <= due + CeilDiv(k, Unit)
    <3>1. Parts(Unit, k, p, gk, share, n, due, pending)
      BY <1>1, <1>2, <1>5, <2>1, <2>2, <2>4, <2>5, <2>7 DEF Parts
    <3>2. QED
      BY <3>1, PartsClose
  <2>9. pending \in Nat
    BY <1>1, <2>3, <2>5, QuotientBounds
  <2>10. QED
    BY <1>5, <2>2, <2>6, <2>8, <2>9 DEF k, n
<1>10. QED
  BY <1>3, <1>8, <1>9

\* Nothing waits: the query shows what is paid.
LEMMA QueryExact ==
    ASSUME NEW total, NEW stakes, NEW held, VaultInv(total, stakes, held), NEW u \in Users, NEW x \in Nat, x = 0,
           NEW due, due = PendingReward(total, stakes[u])
    PROVE  due \in Nat /\ Shown(total, stakes, x, u) = due
<1>1. Unit \in Nat \ {0}
  BY FeesAssumption
<1>2. /\ stakes[u].stake \in Nat /\ total.staked \in Nat /\ stakes[u].stake <= total.staked
      /\ total.power - stakes[u].power_diff \in Nat /\ stakes[u].power_diff <= total.power
      /\ total.power \in Nat /\ stakes[u].power_diff \in Nat
  BY <1>1, RowTypes, SumTypes
<1>3. due \in Nat
  BY <1>1, RewardBounded
<1>4. CASE total.staked = 0
  <2>1. stakes[u].stake = 0 /\ Monus(total.power, stakes[u].power_diff) \in Nat
    BY <1>2, <1>4 DEF Monus
  <2>2. due = 0
    BY <1>1, <2>1 DEF PendingReward
  <2>3. QED
    BY <1>4, <2>2 DEF Shown
<1>5. CASE total.staked # 0
  <2>1. PICK f \in Nat : f = Unit - treasury_fee - syne_staking_fee
    BY FeesAssumption
  <2>2. (x * f * stakes[u].stake) = 0
    BY <1>2, <2>1
  <2>3. (0 \div total.staked) \div Unit = 0
    <3>1. PICK T \in Nat \ {0} : T = total.staked
      BY <1>2, <1>5
    <3>2. 0 \div T = 0 /\ 0 \div Unit = 0
      BY <1>1
    <3>3. QED
      BY <3>1, <3>2
  <2>4. Shown(total, stakes, x, u) = due + ((x * f * stakes[u].stake) \div total.staked) \div Unit
    BY <1>5, <2>1 DEF Shown
  <2>5. QED
    BY <1>3, <2>2, <2>3, <2>4
<1>6. QED
  BY <1>3, <1>4, <1>5

\* In either case.
LEMMA ShownIsPaid ==
    ASSUME NEW total, NEW stakes, NEW held, VaultInv(total, stakes, held), NEW u \in Users, NEW x \in Nat, NEW due,
           x > 0 => due = PendingReward(update_total_rewards(total, x), stakes[u]),
           x = 0 => due = PendingReward(total, stakes[u])
    PROVE  /\ due <= Shown(total, stakes, x, u) + Roundings
           /\ Shown(total, stakes, x, u) <= due + CeilDiv(stakes[u].stake, Unit)
<1>1. CASE x > 0
  BY <1>1, QueryClose
<1>2. CASE x = 0
  <2>1. due \in Nat /\ Shown(total, stakes, x, u) = due
    BY <1>2, QueryExact
  <2>2. CeilDiv(stakes[u].stake, Unit) \in Nat
    <3>1. stakes[u].stake \in Nat /\ Unit \in Nat \ {0}
      BY RowTypes, FeesAssumption
    <3>2. stakes[u].stake + Unit - 1 \in Nat
      BY <3>1
    <3>3. QED
      BY <3>1, <3>2, QuotientBounds DEF CeilDiv
  <2>3. Roundings \in Nat
    BY DEF Roundings
  <2>4. QED
    BY <2>1, <2>2, <2>3
<1>3. QED
  BY <1>1, <1>2

LEMMA PaidAsShown ==
    ASSUME BwyndInv, NEW u \in Users, execute_withdraw_rewards(u)
    PROVE  /\ bwynd'[u] - bwynd[u] <= query_reward(u) + Roundings
           /\ query_reward(u) <= bwynd'[u] - bwynd[u] + CeilDiv(STAKE[u].stake, Unit)
<1>1. PICK due \in Nat :
        /\ Touch(u, 0, 0, due, owed, 0)
        /\ owed > 0 => due = PendingReward(update_total_rewards(total_staked, owed), STAKE[u])
        /\ owed = 0 => due = PendingReward(total_staked, STAKE[u])
  BY WithdrawTouches
<1>2. bwynd[u] \in Nat /\ owed \in Nat /\ VaultInv(total_staked, STAKE, bwynd[Vault])
  BY HoldersFinite DEF BwyndInv, TypeOK
<1>3. bwynd'[u] - bwynd[u] = due
  BY <1>1, <1>2 DEF Touch
<1>4. query_reward(u) = Shown(total_staked, STAKE, owed, u)
  BY DEF query_reward, Shown
<1>5. QED
  BY <1>1, <1>2, <1>3, <1>4, ShownIsPaid

\* The queries of the vault tell the truth: a withdrawal pays what query_reward showed, up to
\* one token for each rounding and one for each whole unit of stake, and the fees are shown once.
THEOREM BwyndQueriesTrue == Spec => QueriesTrue
<1>1. BwyndInv /\ [Next]_vars
        => [\A u \in Users : execute_withdraw_rewards(u) =>
              LET paid == bwynd'[u] - bwynd[u] IN
              /\ paid <= query_reward(u) + Roundings
              /\ query_reward(u) <= paid + CeilDiv(STAKE[u].stake, Unit)]_vars
  BY PaidAsShown
<1>2. Spec => QueryPredictsReward
  BY BwyndInvHolds, <1>1, PTL DEF Spec, QueryPredictsReward
<1>3. QED
  BY <1>2, BwyndFeesShownOnce, PTL DEF QueriesTrue

-----------------------------------------------------------------------------
(* The refinement *)

LEMMA SameSum == ASSUME NEW f, NEW S PROVE Promise!SumOver(f, S) = SumOver(f, S)
  BY DEF Promise!SumOver, SumOver, Promise!MapThenSumSet, MapThenSumSet, Promise!MapThenFoldSet, MapThenFoldSet

LEMMA PromiseInit == Init => Promise!Init
  BY HoldersFinite DEF Init, Promise!Init, NoStakingInfo

LEMMA PrincipalCovered ==
    ASSUME NEW total, NEW stakes, NEW held, VaultInv(total, stakes, held)
    PROVE  SumOver(StakesOf(stakes), Users) <= held
<1> DEFINE d == FixedDebt(total)
           e == SumOver(EarnedOf(total, stakes), Users)
<1>1. d \in Nat /\ e \in Nat /\ total.staked \in Nat /\ total.staked <= d
  BY SumTypes
<1>2. held \in Nat /\ d * Unit + e <= held * Unit /\ Unit \in Nat \ {0}
  BY FeesAssumption DEF VaultInv
<1>3. total.staked = SumOver(StakesOf(stakes), Users)
  BY DEF VaultInv
<1> HIDE DEF d, e
<1>4. d * Unit \in Nat /\ held * Unit \in Nat
  BY <1>1, <1>2, ProductType
<1>5. d * Unit <= held * Unit
  BY <1>1, <1>2, <1>4
<1>6. d <= held
  BY <1>1, <1>2, <1>5, ProductCancels
<1>7. QED
  BY <1>1, <1>2, <1>3, <1>6

LEMMA StakedCovered ==
    ASSUME VaultInv(total_staked', STAKE', bwynd'[Vault])
    PROVE  Promise!Staked' <= bwynd'[Vault]
<1>1. SumOver(StakesOf(STAKE'), Users) <= bwynd'[Vault]
  BY PrincipalCovered
<1>2. Promise!Staked' = Promise!SumOver([u \in Users |-> STAKE'[u].stake], Users)
  BY DEF Promise!Staked, Promise!SumOver, Promise!MapThenSumSet, Promise!MapThenFoldSet
<1>3. Promise!Staked' = SumOver(StakesOf(STAKE'), Users)
  BY <1>2, SameSum DEF StakesOf
<1>4. QED
  BY <1>1, <1>3

\* Serving an account is a step of the vault's promise.
LEMMA TouchPromised ==
    ASSUME BwyndInv, NEW u \in Users, NEW put \in Nat, NEW take \in Nat, NEW due \in Nat, NEW r \in Nat, NEW m \in Nat,
           put = 0 \/ take = 0, m = 0 \/ (put = 0 /\ take = 0), Touch(u, put, take, due, r, m)
    PROVE  [Promise!Next]_(Promise!vars)
<1> DEFINE stake == [v \in Users |-> STAKE[v].stake]
           wallet == [v \in Users |-> bwynd[v]]
           stakeN == [v \in Users |-> STAKE'[v].stake]
           walletN == [v \in Users |-> bwynd'[v]]
<1>1. STAKE[u].stake \in Nat /\ bwynd[u] \in Nat /\ bwynd[Vault] \in Nat
  BY RowTypes, HoldersFinite DEF BwyndInv, TypeOK
<1>2. Promise!Staked' <= bwynd'[Vault]
  BY StakedCovered DEF Touch
<1>3. /\ \A v \in Users \ {u} : stakeN[v] = stake[v] /\ walletN[v] = wallet[v]
      /\ stakeN[u] = stake[u] + put - take /\ walletN[u] = wallet[u] - put + take + due + m
      /\ bwynd'[Vault] = bwynd[Vault] + r + put - take - due
      /\ stake[u] \in Nat /\ wallet[u] \in Nat
  BY <1>1 DEF Touch
<1>4. Promise!Only(u)
  BY <1>2, <1>3 DEF Promise!Only
<1>5. stakeN = [stake EXCEPT ![u] = stakeN[u]]
  BY <1>3
<1>6. CASE put > 0
  <2>1. stakeN[u] > stake[u] /\ walletN[u] + stakeN[u] >= wallet[u] + stake[u]
    BY <1>3, <1>6
  <2>2. Promise!DoStake(u)
    BY <1>4, <1>5, <2>1 DEF Promise!DoStake
  <2>3. QED
    BY <2>2 DEF Promise!Next
<1>7. CASE take > 0
  <2>1. stakeN[u] < stake[u] /\ walletN[u] + stakeN[u] >= wallet[u] + stake[u]
    BY <1>3, <1>7
  <2>2. Promise!DoUnstake(u)
    BY <1>4, <1>5, <2>1 DEF Promise!DoUnstake
  <2>3. QED
    BY <2>2 DEF Promise!Next
<1>8. CASE put = 0 /\ take = 0
  <2>1. stakeN[u] = stake[u] /\ walletN[u] = wallet[u] + due + m
    BY <1>3, <1>8
  <2>2. stakeN = stake
    BY <1>3, <2>1
  <2>3. CASE due + m > 0
    <3>1. walletN[u] > wallet[u]
      BY <1>3, <2>1, <2>3
    <3>2. Promise!DoReceive(u)
      BY <1>4, <2>2, <3>1 DEF Promise!DoReceive
    <3>3. QED
      BY <3>2 DEF Promise!Next
  <2>4. CASE due = 0 /\ m = 0
    <3>1. walletN[u] = wallet[u] /\ bwynd'[Vault] = bwynd[Vault] + r
      BY <1>1, <1>3, <1>8, <2>1, <2>4
    <3>2. walletN = wallet
      BY <1>3, <3>1
    <3>3. CASE r > 0
      <4>1. bwynd'[Vault] > bwynd[Vault]
        BY <1>1, <3>1, <3>3
      <4>2. Promise!DoFund
        BY <2>2, <3>2, <4>1 DEF Promise!DoFund
      <4>3. QED
        BY <4>2 DEF Promise!Next
    <3>4. CASE r = 0
      <4>1. bwynd'[Vault] = bwynd[Vault]
        BY <1>1, <3>1, <3>4
      <4>2. QED
        BY <2>2, <3>2, <4>1 DEF Promise!vars
    <3>5. QED
      BY <3>3, <3>4
  <2>5. QED
    BY <2>3, <2>4
<1>9. QED
  BY <1>6, <1>7, <1>8

\* So is fetching a reward for all.
LEMMA FundPromised ==
    ASSUME BwyndInv, NEW r \in Nat \ {0}, Funded(r) PROVE Promise!Next
<1>1. bwynd[Vault] \in Nat
  BY HoldersFinite DEF BwyndInv, TypeOK
<1>2. bwynd'[Vault] > bwynd[Vault]
  BY <1>1 DEF Funded
<1>3. /\ [v \in Users |-> STAKE'[v].stake] = [v \in Users |-> STAKE[v].stake]
      /\ [v \in Users |-> bwynd'[v]] = [v \in Users |-> bwynd[v]]
  BY DEF Funded
<1>4. Promise!DoFund
  BY <1>2, <1>3 DEF Promise!DoFund
<1>5. QED
  BY <1>4 DEF Promise!Next

\* What the vault and the users hold is what all hold.
LEMMA WalletsSum ==
    ASSUME NEW b \in [Holders -> Nat]
    PROVE  SumOver(b, Holders) = b[Vault] + Promise!SumOver([v \in Users |-> b[v]], Users)
<1>1. \A h \in Holders : b[h] \in Int
  OBVIOUS
<1>2. SumOver(b, Holders) = b[Vault] + SumOver(b, Users)
  <2>1. IsFiniteSet(Holders) /\ Vault \in Holders /\ Holders \ {Vault} = Users
    BY HoldersFinite
  <2>2. SumOver(b, Holders) = b[Vault] + SumOver(b, Holders \ {Vault})
    BY <1>1, <2>1, SumRemove
  <2>3. QED
    BY <2>1, <2>2
<1>3. PICK w : w = [v \in Users |-> b[v]]
  OBVIOUS
<1>4. \A v \in Users : w[v] = b[v]
  BY <1>3
<1>5. SumOver(w, Users) = SumOver(b, Users)
  BY <1>4, VaultUsersAssumption, SumSame
<1>6. QED
  BY <1>2, <1>3, <1>5, SameSum

\* And a gift.
LEMMA DonationPromised ==
    ASSUME BwyndInv, NEW u \in Users, Donated(u) PROVE Promise!Next
<1>1. bwynd \in [Holders -> Nat] /\ bwynd' \in [Holders -> Nat] /\ SumOver(bwynd', Holders) = SumOver(bwynd, Holders)
  BY DEF BwyndInv, TypeOK, Donated
<1>2. Promise!Staked' <= bwynd'[Vault]
  BY StakedCovered DEF Donated
<1>3. /\ [v \in Users |-> STAKE'[v].stake] = [v \in Users |-> STAKE[v].stake]
      /\ \A v \in Users \ {u} : [w \in Users |-> bwynd'[w]][v] >= [w \in Users |-> bwynd[w]][v]
  BY DEF Donated
<1>4. \E v \in Users : \A x \in Users \ {u, v} : [w \in Users |-> bwynd'[w]][x] = [w \in Users |-> bwynd[w]][x]
  BY DEF Donated
<1>5. SumOver(bwynd, Holders) = bwynd[Vault] + Promise!SumOver([v \in Users |-> bwynd[v]], Users)
  BY <1>1, WalletsSum
<1>6. SumOver(bwynd', Holders) = bwynd'[Vault] + Promise!SumOver([v \in Users |-> bwynd'[v]], Users)
  BY <1>1, WalletsSum
<1>7. SumOver(bwynd, Holders) \in Int
  <2>1. \A h \in Holders : bwynd[h] \in Int
    BY <1>1
  <2>2. QED
    BY <2>1, HoldersFinite, SumType
<1>8. bwynd'[Vault] + Promise!SumOver([v \in Users |-> bwynd'[v]], Users)
        <= bwynd[Vault] + Promise!SumOver([v \in Users |-> bwynd[v]], Users)
  BY <1>1, <1>5, <1>6, <1>7
<1>9. Promise!DoDonate(u)
  BY <1>2, <1>3, <1>4, <1>8 DEF Promise!DoDonate
<1>10. QED
  BY <1>9 DEF Promise!Next

\* Tokens minted by the admin are received like those of a deposit.
LEMMA MintPromised ==
    ASSUME BwyndInv, Minted PROVE [Promise!Next]_(Promise!vars)
<1>1. PICK s \in Users, to \in Users, a \in AdminMints : execute_mint(s, to, a)
  BY DEF Minted
<1>2. /\ BwyndInv' /\ a \in Nat /\ bwynd'[to] = bwynd[to] + a /\ bwynd'[Vault] = bwynd[Vault]
      /\ \A v \in Users \ {to} : bwynd'[v] = bwynd[v]
  BY <1>1, MintKeeps
<1>3. bwynd[to] \in Nat /\ STAKE' = STAKE
  BY <1>1, HoldersFinite DEF BwyndInv, TypeOK, execute_mint
<1>4. Promise!Staked' <= bwynd'[Vault]
  <2>1. VaultInv(total_staked', STAKE', bwynd'[Vault])
    BY <1>2 DEF BwyndInv, VaultInv
  <2>2. QED
    BY <2>1, StakedCovered
<1>5. CASE a > 0
  <2>1. /\ [v \in Users |-> STAKE'[v].stake] = [v \in Users |-> STAKE[v].stake]
        /\ [v \in Users |-> bwynd'[v]][to] > [v \in Users |-> bwynd[v]][to]
        /\ \A w \in Users \ {to} : [v \in Users |-> bwynd'[v]][w] = [v \in Users |-> bwynd[v]][w]
    BY <1>2, <1>3, <1>5
  <2>2. Promise!DoReceive(to)
    BY <1>4, <2>1 DEF Promise!DoReceive, Promise!Only
  <2>3. QED
    BY <2>2 DEF Promise!Next
<1>6. CASE a = 0
  <2>1. bwynd'[to] = bwynd[to]
    BY <1>2, <1>3, <1>6
  <2>2. /\ [v \in Users |-> STAKE'[v].stake] = [v \in Users |-> STAKE[v].stake]
        /\ [v \in Users |-> bwynd'[v]] = [v \in Users |-> bwynd[v]]
    BY <1>2, <1>3, <2>1
  <2>3. QED
    BY <1>2, <2>2 DEF Promise!vars
<1>7. QED
  BY <1>2, <1>5, <1>6

\* The bWYND vault implements the promise of a vault: whatever a transaction of the vault or of
\* the converter does with its hooks, rewards and roundings, the users see one atomic step that
\* changes the stake and the wallet of one account and leaves the principal of all covered.
THEOREM BwyndImplementsVault == Spec => ImplementsStakingVault
<1>1. BwyndInv /\ [Next]_vars => [Promise!Next]_(Promise!vars)
  <2>1. SUFFICES ASSUME BwyndInv, [Next]_vars PROVE [Promise!Next]_(Promise!vars)
    OBVIOUS
  <2>2. CASE Touched
    BY <2>1, <2>2, TouchPromised DEF Touched
  <2>3. ASSUME NEW r \in Nat \ {0}, Funded(r) PROVE [Promise!Next]_(Promise!vars)
    BY <2>1, <2>3, FundPromised
  <2>4. ASSUME NEW u \in Users, Donated(u) PROVE [Promise!Next]_(Promise!vars)
    BY <2>1, <2>4, DonationPromised
  <2>5. CASE Minted
    BY <2>1, <2>5, MintPromised
  <2>6. CASE Idle
    BY <2>6 DEF Idle, Promise!vars
  <2>7. QED
    BY <2>1, <2>2, <2>3, <2>4, <2>5, <2>6, StepKinds
<1>2. QED
  BY BwyndInvHolds, PromiseInit, <1>1, PTL DEF Spec, ImplementsStakingVault, Promise!Spec

-----------------------------------------------------------------------------
(* The bLOOP vault, message by message *)

CONSTANTS Durations, QueryDuration, InitLoop, MaxLoop, NewDurations

VARIABLES reward_action, bloop, loop, principal, duration, msgs, tx, committed

Bloop == INSTANCE BloopSystem

\* The list pays x to u out of the vault.
Pays(list, u, x) ==
    \/ list = << >> /\ x = 0
    \/ list = <<Bloop!Transfer(Vault, u, x)>>
    \/ \E y, z \in Nat : x = y + z /\ list = <<Bloop!Transfer(Vault, u, y), Bloop!Transfer(Vault, u, z)>>

\* A world between two transactions: nothing is under way and the books are in order.
WorldSound(w) ==
    /\ w = [total_staked |-> w.total_staked, STAKE |-> w.STAKE, reward_action |-> NoAction,
            bloop |-> w.bloop, loop |-> w.loop, principal |-> w.principal, owed |-> w.owed]
    /\ VaultInv(w.total_staked, w.STAKE, w.bloop[Vault]) /\ w.bloop[Converter] = 0
    /\ w.bloop \in [Bloop!Holders -> Nat] /\ w.loop \in [Users -> Nat]
    /\ w.principal \in [Durations -> Nat] /\ w.owed \in [Durations -> Nat]

\* From the balances `old` to the balances `new` u has got du, the vault dv and the converter, which
\* had nothing, dc; nobody else has got anything.
Moved(old, new, u, du, dv, dc) ==
    /\ new \in [Bloop!Holders -> Nat]
    /\ \A v \in Users : new[v] = old[v] + IF v = u THEN du ELSE 0
    /\ new[Vault] = old[Vault] + dv /\ new[Converter] = dc

\* Stakes and rewards at the LOOP staking contract are those of the world c.
LoopAsIn(c, p, o) == p = c.principal /\ o = c.owed

\* The reward that the vault sees is staked again, if it is the one the converter restakes.
Restaked(c, p, o, dur) ==
    dur = QueryDuration =>
        /\ o[QueryDuration] = 0
        /\ SumOver(p, Durations) = SumOver(c.principal, Durations) + c.owed[QueryDuration]

(* What a transaction t made of the world c when it ends in the world d *)

\* The totals after the reward r has reached the vault.
Fetched(c, r) == IF r > 0 THEN update_total_rewards(c.total_staked, r) ELSE c.total_staked

FeesBooked(c, total, r) ==
    /\ total.pending_treasury_rewards = c.total_staked.pending_treasury_rewards + Fee(r, treasury_fee)
    /\ total.pending_syne_staking_rewards = c.total_staked.pending_syne_staking_rewards + Fee(r, syne_staking_fee)

\* The transaction is a request of u, and r the reward that it fetches.
Requested(t, c, u, put, take, r, m) ==
    \/ t = Bloop!WithdrawRewards(u) /\ put = 0 /\ take = 0 /\ m = 0 /\ r = c.owed[QueryDuration]
    \/ t = Bloop!DistributeRewards(u) /\ put = 0 /\ take = 0 /\ m = 0 /\ r = 0
    \/ t = Bloop!UnstakeMsg(u, take) /\ take > 0 /\ put = 0 /\ m = 0 /\ r = c.owed[QueryDuration]
    \/ t = Bloop!Send(u, put, Bloop!StakeHook) /\ take = 0 /\ m = 0 /\ r = c.owed[QueryDuration]
    \/ t = Bloop!Convert(u, m) /\ put = 0 /\ take = 0

\* u has put in or taken out, has received the reward due, and r was fetched.
Serves(c, d, u, put, take, due, r, m) ==
    /\ Moved(c.bloop, d.bloop, u, m + take + due - put, r + put - take - due, 0)
    /\ d.STAKE[u].stake = c.STAKE[u].stake + put - take
    /\ \A v \in Users \ {u} : d.STAKE[v] = c.STAKE[v]
    /\ due = PendingReward(Fetched(c, r), c.STAKE[u])
    /\ FeesBooked(c, d.total_staked, r)

ServedOutcome(t, c, d, dur) ==
    \E u \in Users : \E put, take, due, r, m \in Nat :
        /\ Requested(t, c, u, put, take, r, m) /\ Serves(c, d, u, put, take, due, r, m)
        /\ t.kind # "Convert" => \/ r = 0 /\ LoopAsIn(c, d.principal, d.owed)
                                 \/ r = c.owed[QueryDuration] /\ Restaked(c, d.principal, d.owed, dur)

FundedOutcome(t, c, d, dur) ==
    /\ t = Bloop!Harvest /\ d.STAKE = c.STAKE /\ Restaked(c, d.principal, d.owed, dur)
    /\ \E r \in Nat \ {0} :
           r = c.owed[QueryDuration] /\ Moved(c.bloop, d.bloop, Nobody, 0, r, 0) /\ FeesBooked(c, d.total_staked, r)

\* u has given a to the stakers, which made the balances b, and v then received the reward due.
DonatedOutcome(t, c, d) ==
    \E u \in Users, v \in Users \cup {Nobody} : \E a, due \in Nat : \E b :
        /\ t = Bloop!Send(u, a, Bloop!DistributeHook(v)) /\ LoopAsIn(c, d.principal, d.owed) /\ (v = Nobody => due = 0)
        /\ \A w \in Users : d.STAKE[w].stake = c.STAKE[w].stake
        /\ Moved(c.bloop, b, u, -a, a, 0) /\ Moved(b, d.bloop, v, due, -due, 0)

MintedOutcome(t, c, d) ==
    \E u, v \in Users, a \in Nat :
        /\ t = Bloop!ConverterMint(u, v, a) /\ Moved(c.bloop, d.bloop, v, a, 0, 0)
        /\ d.STAKE = c.STAKE /\ d.total_staked = c.total_staked

Outcome(t, c, d, dur) ==
    /\ WorldSound(d)
    /\ ServedOutcome(t, c, d, dur) \/ FundedOutcome(t, c, d, dur) \/ DonatedOutcome(t, c, d) \/ MintedOutcome(t, c, d)

(* The stages of a transaction *)

Hooks == {Bloop!StakeHook} \cup {Bloop!DistributeHook(v) : v \in Users \cup {Nobody}}

IsRequest(t) ==
    \/ t = Bloop!Harvest \/ t = Bloop!WithdrawSyne
    \/ \E u \in Users : t = Bloop!WithdrawRewards(u) \/ t = Bloop!DistributeRewards(u)
    \/ \E u \in Users, a \in Nat : t = Bloop!UnstakeMsg(u, a) \/ t = Bloop!Convert(u, a)
    \/ \E u \in Users, a \in Nat, hook \in Hooks : t = Bloop!Send(u, a, hook)
    \/ \E u, v \in Users, a \in Nat : t = Bloop!ConverterMint(u, v, a)

Resting == msgs = << >> /\ tx = Bloop!NoTx /\ committed = Bloop!World

Started == msgs = <<tx>> /\ IsRequest(tx) /\ committed = Bloop!World

Untouched == total_staked = committed.total_staked /\ STAKE = committed.STAKE

\* The token has moved what u sent, and calls the vault.
Handed ==
    \E u \in Users, a \in Nat, hook \in Hooks :
        /\ tx = Bloop!Send(u, a, hook) /\ msgs = <<Bloop!Receive(u, a, hook)>> /\ reward_action = NoAction
        /\ Moved(committed.bloop, bloop, u, -a, a, 0) /\ Untouched /\ LoopAsIn(committed, principal, owed)

\* What the transaction t on the world c is for: u puts in `put`, takes out `take` or has m minted,
\* the vault remembers act, and the reward on its way is handed over in the name of addr.
AsksIn(t, c, act, addr, u, put, take, m) ==
    \/ /\ addr = Nobody /\ u = Nobody /\ put = 0 /\ take = 0 /\ m = 0
       /\ \/ t = Bloop!Harvest /\ act = NoAction
          \/ t = Bloop!WithdrawSyne /\ act = SyneStakingRewardWithdraw
    \/ /\ addr = Nobody /\ u \in Users /\ put = 0 /\ take = 0 /\ m = 0
       /\ t = Bloop!WithdrawRewards(u) /\ act = Reward(u)
    \/ /\ addr = Nobody /\ u \in Users /\ put = 0 /\ take \in Nat \ {0} /\ take <= c.STAKE[u].stake /\ m = 0
       /\ t = Bloop!UnstakeMsg(u, take) /\ act = Unstake(u, take)
    \/ /\ addr = Nobody /\ u \in Users /\ put \in Nat /\ take = 0 /\ m = 0
       /\ t = Bloop!Send(u, put, Bloop!StakeHook) /\ act = Stake(u, put)
    \/ /\ addr = u /\ u \in Users /\ put = 0 /\ take = 0 /\ m \in Nat \ {0}
       /\ t = Bloop!Convert(u, m) /\ act = NoAction

Asks(addr, u, put, take, m) == AsksIn(tx, committed, reward_action, addr, u, put, take, m)

\* The vault has remembered what to do and waits for the reward.
Fetching ==
    \E u, put, take, w :
        /\ Asks(Nobody, u, put, take, 0) /\ Moved(committed.bloop, bloop, u, -put, put, 0)
        /\ Untouched /\ LoopAsIn(committed, principal, owed) /\ w = owed[QueryDuration] /\ w > 0
        /\ \/ msgs = <<Bloop!Harvest>>
           \/ msgs = <<Bloop!LoopRestake(duration), Bloop!Mint(Converter, w),
                       Bloop!Send(Converter, w, Bloop!DistributeHook(Nobody))>>

\* The reward w is on its way through converter and token.
Arrives(addr, u, put, take, m, w) ==
    /\ Asks(addr, u, put, take, m) /\ Untouched
    /\ tx.kind # "Convert" => Restaked(committed, principal, owed, duration)
    /\ w = committed.owed[QueryDuration] /\ w > 0
    /\ \/ /\ msgs = <<Bloop!Mint(Converter, w), Bloop!Send(Converter, w, Bloop!DistributeHook(addr))>>
          /\ Moved(committed.bloop, bloop, u, m - put, put, 0)
       \/ /\ msgs = <<Bloop!Send(Converter, w, Bloop!DistributeHook(addr))>>
          /\ Moved(committed.bloop, bloop, u, m - put, put, w)
       \/ /\ msgs = <<Bloop!Receive(Converter, w, Bloop!DistributeHook(addr))>>
          /\ Moved(committed.bloop, bloop, u, m - put, put + w, 0)

Arriving == \E addr, u, put, take, m, w : Arrives(addr, u, put, take, m, w)

\* The converter stakes the LOOP of u and mints for it.
Converts(u, a, w) ==
    /\ tx = Bloop!Convert(u, a) /\ reward_action = NoAction /\ Untouched /\ w = committed.owed[QueryDuration]
    /\ \/ /\ Moved(committed.bloop, bloop, u, 0, 0, 0)
          /\ \/ msgs = <<Bloop!LoopStake(a, duration), Bloop!Mint(u, a), Bloop!DistributeRewards(u)>>
             \/ msgs = <<Bloop!Mint(u, a), Bloop!DistributeRewards(u)>>
             \/ /\ w > 0
                /\ msgs = <<Bloop!LoopStake(a, duration), Bloop!Mint(u, a), Bloop!Mint(Converter, w),
                            Bloop!Send(Converter, w, Bloop!DistributeHook(u))>>
             \/ /\ w > 0
                /\ msgs = <<Bloop!Mint(u, a), Bloop!Mint(Converter, w),
                            Bloop!Send(Converter, w, Bloop!DistributeHook(u))>>
       \/ Moved(committed.bloop, bloop, u, a, 0, 0) /\ msgs = <<Bloop!DistributeRewards(u)>>

Converting == \E u \in Users, a \in Nat \ {0} : \E w : Converts(u, a, w)

\* The admin mints.
Minting ==
    \E u, v \in Users, a \in Nat :
        /\ tx = Bloop!ConverterMint(u, v, a) /\ msgs = <<Bloop!Mint(v, a)>> /\ reward_action = NoAction
        /\ Moved(committed.bloop, bloop, v, 0, 0, 0) /\ Untouched /\ LoopAsIn(committed, principal, owed)

\* Paying list, which brings x to u, leads from the world w to the world d.
SettlesTo(list, w, u, x, d) ==
    /\ Pays(list, u, x) /\ u \in Users /\ x \in Nat /\ x <= w.bloop[Vault] /\ w.reward_action = NoAction
    /\ d = [total_staked |-> w.total_staked, STAKE |-> w.STAKE, reward_action |-> NoAction,
            bloop |-> d.bloop, loop |-> w.loop, principal |-> w.principal, owed |-> w.owed]
    /\ d.bloop[Vault] = w.bloop[Vault] - x /\ d.bloop[u] = w.bloop[u] + x
    /\ \A h \in Bloop!Holders \ {Vault, u} : d.bloop[h] = w.bloop[h]

\* The books are settled, and the vault pays x to u, which leads to the world d.
Settling(u, x, d) == SettlesTo(msgs, Bloop!World, u, x, d)

Paying == msgs # << >> /\ \E u, x, d : Settling(u, x, d) /\ Outcome(tx, committed, d, duration)

Stage ==
    \/ Resting
    \/ tx # Bloop!NoTx /\ (Started \/ Handed \/ Fetching \/ Arriving \/ Converting \/ Minting \/ Paying)

Typed ==
    /\ Bloop!SystemConstants
    /\ bloop \in [Bloop!Holders -> Nat] /\ loop \in [Users -> Nat]
    /\ principal \in [Durations -> Nat] /\ owed \in [Durations -> Nat] /\ duration \in Durations

BloopInv == Typed /\ WorldSound(committed) /\ Stage

\* A step of a running transaction: it goes on, or ends in a world that it may lead to.
Advances ==
    /\ BloopInv'
    /\ IF msgs' = << >> THEN Outcome(tx, committed, committed', duration)
       ELSE tx' = tx /\ committed' = committed

LEMMA TailOfTuple ==
    ASSUME NEW a, NEW b, NEW c, NEW d
    PROVE  /\ Head(<<a>>) = a /\ Tail(<<a>>) = << >>
           /\ Head(<<a, b>>) = a /\ Tail(<<a, b>>) = <<b>>
           /\ Head(<<a, b, c>>) = a /\ Tail(<<a, b, c>>) = <<b, c>>
           /\ Head(<<a, b, c, d>>) = a /\ Tail(<<a, b, c, d>>) = <<b, c, d>>
  OBVIOUS

LEMMA Joined ==
    ASSUME NEW a, NEW b, NEW c
    PROVE  /\ << >> \o << >> = << >> /\ << >> \o <<a>> = <<a>> /\ << >> \o <<a, b>> = <<a, b>>
           /\ << >> \o <<a, b, c>> = <<a, b, c>>
           /\ <<a>> \o << >> = <<a>> /\ <<a, b>> \o << >> = <<a, b>> /\ <<a, b, c>> \o << >> = <<a, b, c>>
<1>1. << >> \in Seq({a, b, c}) /\ <<a>> \in Seq({a, b, c}) /\ <<a, b>> \in Seq({a, b, c}) /\ <<a, b, c>> \in Seq({a, b, c})
  OBVIOUS
<1>2. QED
  BY <1>1, ConcatEmptySeq

LEMMA JoinedIs ==
    ASSUME NEW S, NEW s \in Seq(S), NEW t \in Seq(S), NEW w \in Seq(S), Len(w) = Len(s) + Len(t),
           \A i \in 1 .. Len(s) + Len(t) : w[i] = IF i <= Len(s) THEN s[i] ELSE t[i - Len(s)]
    PROVE  s \o t = w
<1>1. PICK c : c = s \o t
  OBVIOUS
<1>2. /\ c \in Seq(S) /\ Len(c) = Len(s) + Len(t)
      /\ \A i \in 1 .. Len(s) + Len(t) : c[i] = IF i <= Len(s) THEN s[i] ELSE t[i - Len(s)]
  BY <1>1, ConcatProperties
<1>3. Len(c) = Len(w) /\ \A i \in 1 .. Len(c) : c[i] = w[i]
  BY <1>2
<1>4. c = w
  BY <1>2, <1>3, SeqEqual
<1>5. QED
  BY <1>1, <1>4

LEMMA JoinedPairs ==
    ASSUME NEW a, NEW b, NEW c, NEW d
    PROVE  <<a, b>> \o <<c>> = <<a, b, c>> /\ <<a, b>> \o <<c, d>> = <<a, b, c, d>>
<1> DEFINE S == {a, b, c, d}
           s == <<a, b>>
           t == <<c>>
           v == <<c, d>>
           w == <<a, b, c>>
           x == <<a, b, c, d>>
<1>1. s \in Seq(S) /\ t \in Seq(S) /\ v \in Seq(S) /\ w \in Seq(S) /\ x \in Seq(S)
  OBVIOUS
<1>2. /\ Len(s) = 2 /\ Len(t) = 1 /\ Len(v) = 2 /\ Len(w) = 3 /\ Len(x) = 4
      /\ s[1] = a /\ s[2] = b /\ t[1] = c /\ v[1] = c /\ v[2] = d
      /\ w[1] = a /\ w[2] = b /\ w[3] = c /\ x[1] = a /\ x[2] = b /\ x[3] = c /\ x[4] = d
  OBVIOUS
<1> HIDE DEF S, s, t, v, w, x
<1>3. /\ \A i \in 1 .. Len(s) + Len(t) : i = 1 \/ i = 2 \/ i = 3
      /\ \A i \in 1 .. Len(s) + Len(v) : i = 1 \/ i = 2 \/ i = 3 \/ i = 4
  BY <1>2
<1>4. \A i \in 1 .. Len(s) + Len(t) : w[i] = IF i <= Len(s) THEN s[i] ELSE t[i - Len(s)]
  BY <1>2, <1>3
<1>5. \A i \in 1 .. Len(s) + Len(v) : x[i] = IF i <= Len(s) THEN s[i] ELSE v[i - Len(s)]
  BY <1>2, <1>3
<1>6. s \o t = w
  <2>1. Len(w) = Len(s) + Len(t)
    BY <1>2
  <2>2. QED
    BY <1>1, <1>4, <2>1, JoinedIs
<1>7. s \o v = x
  <2>1. Len(x) = Len(s) + Len(v)
    BY <1>2
  <2>2. QED
    BY <1>1, <1>5, <2>1, JoinedIs
<1>8. QED
  BY <1>6, <1>7 DEF s, t, v, w, x

\* The message at the head decides which handler runs.
LEMMA Dispatch ==
    ASSUME Bloop!Execute, Bloop!Accepts(Head(msgs)), NEW k, k = Head(msgs).kind
    PROVE  /\ k = "Transfer" => Bloop!execute_transfer
           /\ k = "Mint" => Bloop!execute_token_mint
           /\ k = "Send" => Bloop!execute_send
           /\ k = "LoopStake" => Bloop!ExecuteLoopStake
           /\ k = "LoopRestake" => Bloop!ExecuteLoopRestake
           /\ k = "Receive" => Bloop!execute_stake \/ Bloop!execute_distribute_rewards
           /\ k = "WithdrawRewards" => Bloop!execute_withdraw_rewards
           /\ k = "Unstake" => Bloop!execute_unstake
           /\ k = "WithdrawSyneStakingRewards" => Bloop!execute_withdraw_syne_staking_rewards
           /\ k = "DistributeRewards" => Bloop!execute_distribute_user_rewards
           /\ k = "Convert" => Bloop!execute_convert_token
           /\ k = "Harvest" => Bloop!execute_harvest
           /\ k = "ConverterMint" => Bloop!execute_mint
<1> USE DEF Bloop!Executing
<1>1. ~Bloop!Abort
  BY DEF Bloop!Abort
<1>2. /\ Bloop!execute_transfer => k = "Transfer"
      /\ Bloop!execute_token_mint => k = "Mint"
      /\ Bloop!execute_send => k = "Send"
      /\ Bloop!ExecuteLoopStake => k = "LoopStake"
      /\ Bloop!ExecuteLoopRestake => k = "LoopRestake"
  BY DEF Bloop!execute_transfer, Bloop!execute_token_mint, Bloop!execute_send, Bloop!ExecuteLoopStake, Bloop!ExecuteLoopRestake
<1>3. /\ Bloop!execute_stake => k = "Receive"
      /\ Bloop!execute_distribute_rewards => k = "Receive"
      /\ Bloop!execute_withdraw_rewards => k = "WithdrawRewards"
      /\ Bloop!execute_unstake => k = "Unstake"
      /\ Bloop!execute_withdraw_syne_staking_rewards => k = "WithdrawSyneStakingRewards"
      /\ Bloop!execute_distribute_user_rewards => k = "DistributeRewards"
  BY DEF Bloop!execute_stake, Bloop!execute_distribute_rewards, Bloop!execute_withdraw_rewards, Bloop!execute_unstake,
         Bloop!execute_withdraw_syne_staking_rewards, Bloop!execute_distribute_user_rewards
<1>4. /\ Bloop!execute_convert_token => k = "Convert"
      /\ Bloop!execute_harvest => k = "Harvest"
      /\ Bloop!execute_mint => k = "ConverterMint"
  BY DEF Bloop!execute_convert_token, Bloop!execute_harvest, Bloop!execute_mint
<1> HIDE DEF Bloop!Executing
<1>5. QED
  BY <1>1, <1>2, <1>3, <1>4 DEF Bloop!Execute

LEMMA Returned ==
    ASSUME NEW out, Bloop!Return(out)
    PROVE  /\ msgs' = out \o Tail(msgs)
           /\ msgs' = << >> => tx' = Bloop!NoTx /\ committed' = Bloop!World'
           /\ msgs' # << >> => tx' = tx /\ committed' = committed
           /\ admin' = admin /\ duration' = duration
  BY DEF Bloop!Return, Bloop!configVars

LEMMA ConstantsKnown ==
    ASSUME Bloop!SystemConstants
    PROVE  /\ Vault \notin Users /\ Converter \notin Users /\ Vault # Converter /\ Nobody \notin Users
           /\ Vault \in Bloop!Holders /\ Converter \in Bloop!Holders /\ Users \subseteq Bloop!Holders
           /\ Bloop!Holders \ {Vault, Converter} = Users /\ IsFiniteSet(Bloop!Holders)
           /\ IsFiniteSet(Durations) /\ QueryDuration \in Durations
<1>1. /\ Vault \notin Users /\ Converter \notin Users /\ Vault # Converter /\ Nobody \notin Users
      /\ IsFiniteSet(Durations) /\ QueryDuration \in Durations
  BY DEF Bloop!SystemConstants, Bloop!IsFiniteSet, IsFiniteSet
<1>2. Bloop!Holders = (Users \cup {Vault}) \cup {Converter}
  BY DEF Bloop!Holders
<1>3. IsFiniteSet((Users \cup {Vault}) \cup {Converter})
  BY VaultUsersAssumption, FS_AddElement
<1>4. /\ Vault \in Bloop!Holders /\ Converter \in Bloop!Holders /\ Users \subseteq Bloop!Holders
      /\ Bloop!Holders \ {Vault, Converter} = Users
  BY <1>1, <1>2
<1>5. IsFiniteSet(Bloop!Holders)
  BY <1>2, <1>3
<1>6. QED
  BY <1>1, <1>4, <1>5

\* The world at the end of the payments.
LEMMA SettledWorld ==
    ASSUME Bloop!SystemConstants, NEW w, NEW u, NEW x, NEW d, SettlesTo(<< >>, w, u, x, d),
           d.bloop \in [Bloop!Holders -> Nat], w.bloop \in [Bloop!Holders -> Nat],
           w = [total_staked |-> w.total_staked, STAKE |-> w.STAKE, reward_action |-> w.reward_action,
                bloop |-> w.bloop, loop |-> w.loop, principal |-> w.principal, owed |-> w.owed]
    PROVE  d = w
<1>1. x = 0
  BY DEF SettlesTo, Pays
<1>2. Vault \in Bloop!Holders /\ u \in Bloop!Holders
  BY ConstantsKnown DEF SettlesTo
<1>3. w.bloop[Vault] \in Nat /\ w.bloop[u] \in Nat /\ d.bloop[Vault] = w.bloop[Vault] - x /\ d.bloop[u] = w.bloop[u] + x
  BY <1>2 DEF SettlesTo
<1>4. d.bloop[Vault] = w.bloop[Vault] /\ d.bloop[u] = w.bloop[u]
  BY <1>1, <1>3
<1>5. \A h \in Bloop!Holders : d.bloop[h] = w.bloop[h]
  BY <1>4 DEF SettlesTo
<1>6. d.bloop = w.bloop
  BY <1>2, <1>5
<1>7. QED
  BY <1>6 DEF SettlesTo

\* A step after which the books are settled.
LEMMA SettlingAdvances ==
    ASSUME BloopInv, Typed', duration' = duration, tx # Bloop!NoTx, NEW out, Bloop!Return(out),
           NEW u, NEW x, NEW d, Settling(u, x, d)', Outcome(tx, committed, d, duration)
    PROVE  Advances
<1>1. WorldSound(d) /\ d.bloop \in [Bloop!Holders -> Nat]
  BY DEF Outcome, WorldSound
<1>2. CASE msgs' = << >>
  <2>1. d = Bloop!World'
    <3>1. PICK w : w = Bloop!World'
      OBVIOUS
    <3>2. /\ w = [total_staked |-> w.total_staked, STAKE |-> w.STAKE, reward_action |-> w.reward_action,
                  bloop |-> w.bloop, loop |-> w.loop, principal |-> w.principal, owed |-> w.owed]
          /\ w.bloop \in [Bloop!Holders -> Nat]
      BY <3>1 DEF Bloop!World, Typed
    <3>3. SettlesTo(<< >>, w, u, x, d)
      BY <1>2, <3>1 DEF Settling
    <3>4. QED
      BY <1>1, <3>1, <3>2, <3>3, SettledWorld DEF Typed
  <2>2. committed' = Bloop!World' /\ tx' = Bloop!NoTx /\ committed' = d
    BY <1>2, <2>1, Returned
  <2>3. Resting' /\ WorldSound(committed)'
    BY <1>1, <1>2, <2>2 DEF Resting
  <2>4. QED
    BY <1>2, <2>2, <2>3 DEF Advances, BloopInv, Stage
<1>3. CASE msgs' # << >>
  <2>1. committed' = committed /\ tx' = tx
    BY <1>3, Returned
  <2>2. Outcome(tx, committed, d, duration)'
    BY <2>1
  <2>3. Paying'
    BY <1>3, <2>2 DEF Paying
  <2>4. QED
    BY <1>3, <2>1, <2>3 DEF Advances, BloopInv, Stage
<1>4. QED
  BY <1>2, <1>3

\* A step that leads to another stage.
LEMMA StageAdvances ==
    ASSUME BloopInv, Typed', duration' = duration, tx # Bloop!NoTx, NEW out, Bloop!Return(out), msgs' # << >>,
           tx' = tx /\ committed' = committed => Handed' \/ Fetching' \/ Arriving' \/ Converting' \/ Minting'
    PROVE  Advances
<1>1. committed' = committed /\ tx' = tx
  BY Returned
<1>2. QED
  BY <1>1 DEF Advances, BloopInv, Stage

-----------------------------------------------------------------------------
(* The vault of a message is the vault of the books *)

LEMMA SameVault ==
    ASSUME NEW act, NEW total, NEW stakes, NEW info, NEW r, NEW f
    PROVE  /\ Bloop!Performed(act, total, stakes) = Performed(act, total, stakes)
           /\ Bloop!PendingReward(total, info) = PendingReward(total, info)
           /\ Bloop!update_total_rewards(total, r) = update_total_rewards(total, r)
           /\ Bloop!Fee(r, f) = Fee(r, f)
<1>1. Bloop!Performed(act, total, stakes) = Performed(act, total, stakes)
  BY DEF Bloop!Performed, Performed, Bloop!PendingReward, PendingReward, Bloop!Monus, Monus, Bloop!Settled, Settled
<1>2. Bloop!PendingReward(total, info) = PendingReward(total, info)
  BY DEF Bloop!PendingReward, PendingReward, Bloop!Monus, Monus
<1>3. Bloop!update_total_rewards(total, r) = update_total_rewards(total, r) /\ Bloop!Fee(r, f) = Fee(r, f)
  BY DEF Bloop!update_total_rewards, update_total_rewards, Bloop!Fee, Fee
<1>4. QED
  BY <1>1, <1>2, <1>3

LEMMA SameActions ==
    ASSUME NEW u, NEW a
    PROVE  /\ Bloop!NoAction = NoAction /\ Bloop!Reward(u) = Reward(u) /\ Bloop!Stake(u, a) = Stake(u, a)
           /\ Bloop!Unstake(u, a) = Unstake(u, a) /\ Bloop!SyneStakingRewardWithdraw = SyneStakingRewardWithdraw
  BY DEF Bloop!NoAction, NoAction, Bloop!Reward, Reward, Bloop!Stake, Stake, Bloop!Unstake, Unstake,
         Bloop!SyneStakingRewardWithdraw, SyneStakingRewardWithdraw

\* The payments as messages.
LEMMA PaymentsPay ==
    ASSUME NEW pay, NEW u, NEW x \in Nat, PaysTo(pay, u, x)
    PROVE  Pays(Bloop!Payments(pay), u, x) /\ Bloop!Payments(pay) \o << >> = Bloop!Payments(pay)
<1>1. CASE pay = << >> /\ x = 0
  <2>1. Bloop!Payments(pay) = << >>
    BY <1>1 DEF Bloop!Payments
  <2>2. QED
    BY <1>1, <2>1, Joined DEF Pays
<1>2. CASE pay = << <<u, x>> >>
  <2>1. Bloop!Payments(pay) = <<Bloop!Transfer(Vault, u, x)>>
    BY <1>2 DEF Bloop!Payments
  <2>2. QED
    BY <2>1, Joined DEF Pays
<1>3. ASSUME NEW y \in Nat, NEW z \in Nat, x = y + z, pay = << <<u, y>>, <<u, z>> >>
      PROVE  Pays(Bloop!Payments(pay), u, x) /\ Bloop!Payments(pay) \o << >> = Bloop!Payments(pay)
  <2>1. Bloop!Payments(pay) = <<Bloop!Transfer(Vault, u, y), Bloop!Transfer(Vault, u, z)>>
    BY <1>3 DEF Bloop!Payments
  <2>2. QED
    BY <1>3, <2>1, Joined DEF Pays
<1>4. QED
  BY <1>1, <1>2, <1>3 DEF PaysTo

\* The balances after x has gone from the vault to u.
PaidOut(b, u, x) == [h \in Bloop!Holders |-> IF h = Vault THEN b[h] - x ELSE IF h = u THEN b[h] + x ELSE b[h]]

LEMMA PaidOutIs ==
    ASSUME Bloop!SystemConstants, NEW b \in [Bloop!Holders -> Nat], NEW u \in Users, NEW x \in Nat, x <= b[Vault],
           NEW after, after = PaidOut(b, u, x)
    PROVE  /\ after \in [Bloop!Holders -> Nat] /\ after[Vault] = b[Vault] - x /\ after[u] = b[u] + x
           /\ \A h \in Bloop!Holders \ {Vault, u} : after[h] = b[h]
<1>1. Vault \in Bloop!Holders /\ u \in Bloop!Holders /\ u # Vault
  BY ConstantsKnown
<1>2. /\ after[Vault] = b[Vault] - x /\ after[u] = b[u] + x
      /\ \A h \in Bloop!Holders \ {Vault, u} : after[h] = b[h]
  BY <1>1 DEF PaidOut
<1>3. ASSUME NEW h \in Bloop!Holders PROVE after[h] \in Nat
  <2>1. b[h] \in Nat
    OBVIOUS
  <2>2. QED
    BY <1>2, <2>1
<1>4. after \in [Bloop!Holders -> Nat]
  BY <1>3 DEF PaidOut
<1>5. QED
  BY <1>2, <1>4

\* The world d after u has put in, taken out and got its reward out of the world w, with the totals total.
Performs(w, total, u, put, take, due, d) ==
    /\ Settles(total, w.STAKE, u, put, take, d.total_staked, d.STAKE) /\ due = PendingReward(total, w.STAKE[u])
    /\ d.bloop \in [Bloop!Holders -> Nat] /\ d.bloop[Vault] = w.bloop[Vault] - (take + due)
    /\ d.bloop[u] = w.bloop[u] + (take + due) /\ \A h \in Bloop!Holders \ {Vault, u} : d.bloop[h] = w.bloop[h]
    /\ d.principal = w.principal /\ d.owed = w.owed

\* The vault carries out an action of u.
LEMMA ActPerformed ==
    ASSUME Typed, Typed', NEW u \in Users, NEW put \in Nat, NEW take \in Nat, take <= STAKE[u].stake,
           NEW act, IsActOf(act, u, put, take), NEW total, NEW held, VaultInv(total, STAKE, held),
           bloop[Vault] = held + put, bloop[Converter] = 0, Tail(msgs) = << >>, Bloop!PerformOn(act, total),
           bloop' = bloop, loop' = loop, principal' = principal, owed' = owed, reward_action' = NoAction
    PROVE  \E due \in Nat : \E d : /\ Settling(u, take + due, d)' /\ WorldSound(d)
                                   /\ Performs(Bloop!World, total, u, put, take, due, d)
<1>1. PICK done, due : done = Performed(act, total, STAKE) /\ due = PendingReward(total, STAKE[u])
  OBVIOUS
<1>2. /\ total_staked' = done.total /\ STAKE' = done.stakes /\ Bloop!Return(Bloop!Payments(done.pay))
  BY <1>1, SameVault DEF Bloop!PerformOn
<1>3. Settles(total, STAKE, u, put, take, done.total, done.stakes) /\ PaysTo(done.pay, u, take + due)
  BY <1>1, PerformedIs
<1>4. due \in Nat /\ take + due <= held /\ VaultInv(done.total, done.stakes, held + put - take - due)
  BY <1>1, <1>3, AccountSettled
<1>5. PICK x \in Nat : x = take + due
  BY <1>4
<1>6. held \in Nat /\ x <= bloop[Vault] /\ bloop \in [Bloop!Holders -> Nat] /\ Bloop!SystemConstants
  BY <1>4, <1>5 DEF VaultInv, Typed
<1>7. PICK after : after = PaidOut(bloop, u, x)
  OBVIOUS
<1>8. /\ after \in [Bloop!Holders -> Nat] /\ after[Vault] = bloop[Vault] - x /\ after[u] = bloop[u] + x
      /\ \A h \in Bloop!Holders \ {Vault, u} : after[h] = bloop[h]
  BY <1>6, <1>7, PaidOutIs
<1>9. PICK d : d = [total_staked |-> total_staked', STAKE |-> STAKE', reward_action |-> NoAction,
                    bloop |-> after, loop |-> loop, principal |-> principal, owed |-> owed]
  OBVIOUS
<1>10. Pays(msgs', u, x)
  <2>1. msgs' = Bloop!Payments(done.pay) \o Tail(msgs)
    BY <1>2, Returned
  <2>2. PaysTo(done.pay, u, x)
    BY <1>3, <1>5
  <2>3. QED
    BY <2>1, <2>2, PaymentsPay
<1>11. Settling(u, x, d)'
  BY <1>6, <1>8, <1>9, <1>10 DEF Settling, SettlesTo, Bloop!World
<1>12. after[Vault] = held + put - take - due
  BY <1>4, <1>5, <1>6, <1>8
<1>13. after[Converter] = 0
  BY <1>6, <1>8, ConstantsKnown
<1>14. WorldSound(d)
  <2>1. /\ d = [total_staked |-> d.total_staked, STAKE |-> d.STAKE, reward_action |-> NoAction,
            bloop |-> d.bloop, loop |-> d.loop, principal |-> d.principal, owed |-> d.owed]
        /\ d.total_staked = done.total /\ d.STAKE = done.stakes /\ d.bloop = after
        /\ d.loop = loop /\ d.principal = principal /\ d.owed = owed
    BY <1>2, <1>9
  <2>2. VaultInv(d.total_staked, d.STAKE, d.bloop[Vault])
    BY <1>4, <1>12, <2>1
  <2>3. QED
    BY <1>8, <1>13, <2>1, <2>2 DEF WorldSound, Typed
<1>15. Performs(Bloop!World, total, u, put, take, due, d)
  BY <1>1, <1>2, <1>3, <1>5, <1>8, <1>9 DEF Performs, Bloop!World
<1>16. QED
  BY <1>4, <1>5, <1>11, <1>14, <1>15

-----------------------------------------------------------------------------
(* The vault does what a transaction asks for *)

\* The last message has been executed.
LEMMA EndAdvances ==
    ASSUME BloopInv, Typed', NEW out, Bloop!Return(out), msgs' = << >>,
           Outcome(tx, committed, Bloop!World', duration)
    PROVE  Advances
<1>1. committed' = Bloop!World' /\ tx' = Bloop!NoTx
  BY Returned
<1>2. WorldSound(committed') /\ Outcome(tx, committed, committed', duration)
  BY <1>1 DEF Outcome
<1>3. QED
  BY <1>1, <1>2 DEF Advances, BloopInv, Stage, Resting

\* From the world c of the start over the world w before the settlement to the world d.
LEMMA WorldServed ==
    ASSUME Bloop!SystemConstants, NEW c, NEW w, NEW d, WorldSound(c), NEW u \in Users, NEW put \in Nat, NEW take \in Nat,
           NEW due \in Nat, NEW r \in Nat, NEW m \in Nat, Moved(c.bloop, w.bloop, u, m - put, r + put, 0),
           w.STAKE = c.STAKE, Performs(w, Fetched(c, r), u, put, take, due, d)
    PROVE  Serves(c, d, u, put, take, due, r, m)
<1>1. /\ Vault \in Bloop!Holders /\ Converter \in Bloop!Holders /\ Users \subseteq Bloop!Holders /\ Vault \notin Users
      /\ Converter # Vault /\ Converter # u /\ Vault # u /\ u \in Bloop!Holders
  BY ConstantsKnown
<1>2. c.bloop \in [Bloop!Holders -> Nat] /\ c.bloop[Vault] \in Nat /\ c.bloop[u] \in Nat
  BY <1>1 DEF WorldSound
<1>3. d.bloop[Converter] = 0 /\ \A v \in Users \ {u} : d.bloop[v] = c.bloop[v] + 0
  <2>1. \A h \in Bloop!Holders \ {Vault, u} : d.bloop[h] = w.bloop[h]
    BY DEF Performs
  <2>2. w.bloop[Converter] = 0 /\ \A v \in Users \ {u} : w.bloop[v] = c.bloop[v] + 0
    BY DEF Moved
  <2>3. QED
    BY <1>1, <2>1, <2>2
<1>4. d.bloop[Vault] = c.bloop[Vault] + (r + put - take - due)
  <2>1. w.bloop[Vault] = c.bloop[Vault] + (r + put) /\ d.bloop[Vault] = w.bloop[Vault] - (take + due)
    BY DEF Performs, Moved
  <2>2. QED
    BY <1>2, <2>1
<1>5. d.bloop[u] = c.bloop[u] + (m + take + due - put)
  <2>1. w.bloop[u] = c.bloop[u] + (m - put) /\ d.bloop[u] = w.bloop[u] + (take + due)
    BY DEF Performs, Moved
  <2>2. QED
    BY <1>2, <2>1
<1>6. Moved(c.bloop, d.bloop, u, m + take + due - put, r + put - take - due, 0)
  BY <1>3, <1>4, <1>5 DEF Moved, Performs
<1>7. FeesBooked(c, d.total_staked, r)
  <2>1. c.total_staked.pending_treasury_rewards \in Nat /\ c.total_staked.pending_syne_staking_rewards \in Nat
    BY DEF WorldSound, VaultInv, TokenInfo
  <2>2. /\ d.total_staked.pending_treasury_rewards = Fetched(c, r).pending_treasury_rewards
        /\ d.total_staked.pending_syne_staking_rewards = Fetched(c, r).pending_syne_staking_rewards
    BY DEF Performs, Settles
  <2>3. CASE r > 0
    BY <2>2, <2>3 DEF Fetched, FeesBooked, update_total_rewards
  <2>4. CASE r = 0
    BY <2>1, <2>2, <2>4, NoFee DEF Fetched, FeesBooked
  <2>5. QED
    BY <2>3, <2>4
<1>8. QED
  BY <1>6, <1>7 DEF Serves, Performs, Settles

\* The reward r has reached the vault.
LEMMA FetchedSound ==
    ASSUME NEW c, WorldSound(c), NEW r \in Nat
    PROVE  VaultInv(Fetched(c, r), c.STAKE, c.bloop[Vault] + r)
<1>1. VaultInv(c.total_staked, c.STAKE, c.bloop[Vault])
  BY DEF WorldSound
<1>2. CASE r > 0
  BY <1>1, <1>2, RewardArrives DEF Fetched
<1>3. CASE r = 0
  <2>1. c.bloop[Vault] + r = c.bloop[Vault]
    BY <1>1, <1>3 DEF VaultInv
  <2>2. QED
    BY <1>1, <1>3, <2>1 DEF Fetched
<1>4. QED
  BY <1>2, <1>3

\* The vault carries out act with the totals total, as the last handler before the payments.
Carries(act, total) ==
    /\ Bloop!PerformOn(act, total) /\ Tail(msgs) = << >> /\ reward_action' = NoAction
    /\ bloop' = bloop /\ loop' = loop /\ principal' = principal /\ owed' = owed

LEMMA CarriesTyped == ASSUME Typed, NEW act, NEW total, Carries(act, total)
                      PROVE  Typed' /\ duration' = duration /\ \E out : Bloop!Return(out)
<1>1. \E out : Bloop!Return(out)
  BY DEF Carries, Bloop!PerformOn
<1>2. duration' = duration
  BY <1>1, Returned
<1>3. QED
  BY <1>1, <1>2 DEF Typed, Carries

\* The reward r is at the vault, and u is served.
LEMMA ServeAdvances ==
    ASSUME BloopInv, tx # Bloop!NoTx, NEW u \in Users, NEW put \in Nat, NEW take \in Nat, NEW r \in Nat, NEW m \in Nat,
           Requested(tx, committed, u, put, take, r, m), take <= committed.STAKE[u].stake,
           Moved(committed.bloop, bloop, u, m - put, r + put, 0), Untouched,
           tx.kind # "Convert" => \/ r = 0 /\ LoopAsIn(committed, principal, owed)
                                  \/ r = committed.owed[QueryDuration] /\ Restaked(committed, principal, owed, duration),
           NEW act, IsActOf(act, u, put, take), Carries(act, Fetched(committed, r))
    PROVE  Advances
<1>1. Typed' /\ duration' = duration /\ Typed /\ WorldSound(committed)
  BY CarriesTyped DEF BloopInv
<1>2. PICK held : held = committed.bloop[Vault] + r
  OBVIOUS
<1>3. VaultInv(Fetched(committed, r), STAKE, held)
  BY <1>1, <1>2, FetchedSound DEF Untouched
<1>4. committed.bloop[Vault] \in Nat
  BY <1>1 DEF WorldSound, VaultInv
<1>5. bloop[Vault] = held + put /\ bloop[Converter] = 0 /\ take <= STAKE[u].stake
  BY <1>2, <1>4 DEF Moved, Untouched
<1>a. PICK due \in Nat : \E d :
          /\ Settling(u, take + due, d)' /\ WorldSound(d)
          /\ Performs(Bloop!World, Fetched(committed, r), u, put, take, due, d)
  BY <1>1, <1>3, <1>5, ActPerformed DEF Carries
<1>6. PICK d : /\ Settling(u, take + due, d)' /\ WorldSound(d)
               /\ Performs(Bloop!World, Fetched(committed, r), u, put, take, due, d)
  BY <1>a
<1>7. Serves(committed, d, u, put, take, due, r, m)
  <2>1. PICK w : w = Bloop!World
    OBVIOUS
  <2>2. w.bloop = bloop /\ w.STAKE = committed.STAKE
    BY <2>1 DEF Bloop!World, Untouched
  <2>3. QED
    BY <1>1, <1>6, <2>1, <2>2, WorldServed DEF Typed
<1>8. d.principal = principal /\ d.owed = owed
  BY <1>6 DEF Performs, Bloop!World
<1>9. ServedOutcome(tx, committed, d, duration)
  BY <1>6, <1>7, <1>8 DEF ServedOutcome
<1>10. Outcome(tx, committed, d, duration)
  BY <1>6, <1>9 DEF Outcome
<1>11. QED
  BY <1>1, <1>6, <1>10, CarriesTyped, SettlingAdvances

\* Nobody is served.
LEMMA NoActPerformed ==
    ASSUME Typed, NEW total, Carries(NoAction, total)
    PROVE  /\ msgs' = << >> /\ Typed' /\ \E out : Bloop!Return(out)
           /\ Bloop!World' = [total_staked |-> total, STAKE |-> STAKE, reward_action |-> NoAction,
                              bloop |-> bloop, loop |-> loop, principal |-> principal, owed |-> owed]
<1>1. Performed(NoAction, total, STAKE) = [total |-> total, stakes |-> STAKE, pay |-> << >>]
  BY DEF Performed, NoAction
<1>2. total_staked' = total /\ STAKE' = STAKE /\ Bloop!Return(Bloop!Payments(<< >>))
  BY <1>1, SameVault DEF Carries, Bloop!PerformOn
<1>3. Bloop!Payments(<< >>) = << >>
  BY DEF Bloop!Payments
<1>4. msgs' = << >>
  BY <1>2, <1>3, Returned, Joined DEF Carries
<1>5. QED
  BY <1>2, <1>4, CarriesTyped DEF Bloop!World, Carries

\* The reward is for all.
LEMMA FundAdvances ==
    ASSUME BloopInv, tx = Bloop!Harvest, NEW r \in Nat \ {0}, r = committed.owed[QueryDuration],
           Moved(committed.bloop, bloop, Nobody, 0, r, 0), Untouched, Restaked(committed, principal, owed, duration),
           Carries(NoAction, update_total_rewards(total_staked, r))
    PROVE  Advances
<1>1. Typed /\ WorldSound(committed)
  BY DEF BloopInv
<1>2. PICK total : total = update_total_rewards(total_staked, r)
  OBVIOUS
<1>3. PICK d : d = [total_staked |-> total, STAKE |-> STAKE, reward_action |-> NoAction,
                    bloop |-> bloop, loop |-> loop, principal |-> principal, owed |-> owed]
  OBVIOUS
<1>4. msgs' = << >> /\ Typed' /\ (\E out : Bloop!Return(out)) /\ Bloop!World' = d
  BY <1>1, <1>2, <1>3, NoActPerformed
<1>5. /\ d.total_staked = total /\ d.STAKE = STAKE /\ d.bloop = bloop /\ d.loop = loop
      /\ d.principal = principal /\ d.owed = owed
      /\ d = [total_staked |-> d.total_staked, STAKE |-> d.STAKE, reward_action |-> NoAction,
              bloop |-> d.bloop, loop |-> d.loop, principal |-> d.principal, owed |-> d.owed]
  BY <1>3
<1>6. VaultInv(total, STAKE, bloop[Vault]) /\ total = Fetched(committed, r)
  <2>1. total = Fetched(committed, r) /\ bloop[Vault] = committed.bloop[Vault] + r
    BY <1>2 DEF Fetched, Untouched, Moved
  <2>2. QED
    BY <1>1, <2>1, FetchedSound DEF Untouched
<1>7. WorldSound(d)
  BY <1>1, <1>5, <1>6 DEF WorldSound, Typed, Moved
<1>8. FeesBooked(committed, total, r)
  BY <1>2 DEF FeesBooked, update_total_rewards, Untouched
<1>9. FundedOutcome(tx, committed, d, duration)
  BY <1>5, <1>8 DEF FundedOutcome, Untouched
<1>10. QED
  BY <1>4, <1>7, <1>9, EndAdvances DEF Outcome

\* u has given a to the stakers in the name of v, who gets a reward.
LEMMA DonateAdvances ==
    ASSUME BloopInv, tx # Bloop!NoTx, NEW u \in Users, NEW a \in Nat, NEW v \in Users,
           tx = Bloop!Send(u, a, Bloop!DistributeHook(v)),
           Moved(committed.bloop, bloop, u, -a, a, 0), Untouched, LoopAsIn(committed, principal, owed),
           Carries(Reward(v), update_total_rewards(total_staked, a))
    PROVE  Advances
<1>1. Typed' /\ duration' = duration /\ Typed /\ WorldSound(committed)
  BY CarriesTyped DEF BloopInv
<1>2. PICK total : total = update_total_rewards(total_staked, a)
  OBVIOUS
<1>3. VaultInv(committed.total_staked, committed.STAKE, committed.bloop[Vault])
  BY <1>1 DEF WorldSound
<1>4. bloop[Vault] = committed.bloop[Vault] + a /\ committed.bloop[Vault] \in Nat /\ bloop[Vault] \in Nat /\ bloop[Converter] = 0
  BY <1>3 DEF Moved, VaultInv
<1>5. VaultInv(total, STAKE, bloop[Vault])
  BY <1>2, <1>3, <1>4, RewardArrives DEF Untouched
<1>6. STAKE[v].stake \in Nat /\ IsActOf(Reward(v), v, 0, 0) /\ bloop[Vault] = bloop[Vault] + 0 /\ 0 <= STAKE[v].stake
  BY <1>4, <1>5, RowTypes DEF IsActOf
<1>a. PICK due \in Nat : \E d :
          Settling(v, 0 + due, d)' /\ WorldSound(d) /\ Performs(Bloop!World, total, v, 0, 0, due, d)
  <2>1. 0 \in Nat
    OBVIOUS
  <2>2. PICK zero : zero = 0
    OBVIOUS
  <2>3. zero \in Nat /\ IsActOf(Reward(v), v, zero, zero) /\ bloop[Vault] = bloop[Vault] + zero /\ zero <= STAKE[v].stake
    BY <1>6, <2>2
  <2>4. \E due \in Nat : \E d :
          Settling(v, zero + due, d)' /\ WorldSound(d) /\ Performs(Bloop!World, total, v, zero, zero, due, d)
    BY <1>1, <1>2, <1>4, <1>5, <2>3, ActPerformed DEF Carries
  <2>5. QED
    BY <2>2, <2>4
<1>7. PICK d : Settling(v, 0 + due, d)' /\ WorldSound(d) /\ Performs(Bloop!World, total, v, 0, 0, due, d)
  BY <1>a
<1>8. \A w \in Users : d.STAKE[w].stake = committed.STAKE[w].stake
  <2>1. /\ d.STAKE[v].stake = STAKE[v].stake + 0 - 0
        /\ \A w \in Users \ {v} : d.STAKE[w] = STAKE[w]
    BY <1>7 DEF Performs, Settles, Bloop!World
  <2>2. QED
    BY <1>6, <2>1 DEF Untouched
<1>9. /\ d.bloop[Vault] = bloop[Vault] - (0 + due) /\ d.bloop[v] = bloop[v] + (0 + due)
      /\ \A w \in Users \ {v} : d.bloop[w] = bloop[w] /\ d.principal = principal /\ d.owed = owed
      /\ d.principal = principal /\ d.owed = owed
  <2>1. Users \subseteq Bloop!Holders /\ Vault \notin Users
    BY <1>1, ConstantsKnown DEF Typed
  <2>2. QED
    BY <1>7, <2>1 DEF Performs, Bloop!World
<1>10. Moved(bloop, d.bloop, v, due, -due, 0)
  <2>1. d.bloop \in [Bloop!Holders -> Nat] /\ \A h \in Bloop!Holders \ {Vault, v} : d.bloop[h] = bloop[h]
    BY <1>7 DEF Performs, Bloop!World
  <2>2. Converter \in Bloop!Holders /\ Converter # Vault /\ Converter # v /\ Users \subseteq Bloop!Holders /\ bloop \in [Bloop!Holders -> Nat]
    BY <1>1, ConstantsKnown DEF Typed
  <2>3. d.bloop[Converter] = 0
    BY <1>4, <2>1, <2>2
  <2>4. d.bloop[Vault] = bloop[Vault] + (-due)
    BY <1>4, <1>9
  <2>5. ASSUME NEW w \in Users PROVE d.bloop[w] = bloop[w] + IF w = v THEN due ELSE 0
    <3>1. CASE w = v
      BY <1>9, <3>1
    <3>2. CASE w # v
      BY <1>9, <2>2, <3>2
    <3>3. QED
      BY <3>1, <3>2
  <2>6. QED
    BY <2>1, <2>3, <2>4, <2>5 DEF Moved
<1>11. DonatedOutcome(tx, committed, d)
  <2>1. LoopAsIn(committed, d.principal, d.owed) /\ v # Nobody
    BY <1>1, <1>9, ConstantsKnown DEF LoopAsIn, Typed
  <2>2. QED
    BY <1>8, <1>10, <2>1 DEF DonatedOutcome
<1>12. Outcome(tx, committed, d, duration)
  BY <1>7, <1>11 DEF Outcome
<1>13. QED
  BY <1>1, <1>7, <1>12, CarriesTyped, SettlingAdvances

\* In nobody's name.
LEMMA GiveAdvances ==
    ASSUME BloopInv, tx # Bloop!NoTx, NEW u \in Users, NEW a \in Nat, tx = Bloop!Send(u, a, Bloop!DistributeHook(Nobody)),
           Moved(committed.bloop, bloop, u, -a, a, 0), Untouched, LoopAsIn(committed, principal, owed),
           Carries(NoAction, update_total_rewards(total_staked, a))
    PROVE  Advances
<1>1. Typed /\ WorldSound(committed) /\ VaultInv(committed.total_staked, committed.STAKE, committed.bloop[Vault])
  BY DEF BloopInv, WorldSound
<1>2. PICK total : total = update_total_rewards(total_staked, a)
  OBVIOUS
<1>3. PICK d : d = [total_staked |-> total, STAKE |-> STAKE, reward_action |-> NoAction,
                    bloop |-> bloop, loop |-> loop, principal |-> principal, owed |-> owed]
  OBVIOUS
<1>4. msgs' = << >> /\ Typed' /\ (\E out : Bloop!Return(out)) /\ Bloop!World' = d
  BY <1>1, <1>2, <1>3, NoActPerformed
<1>5. /\ d.total_staked = total /\ d.STAKE = STAKE /\ d.bloop = bloop /\ d.loop = loop
      /\ d.principal = principal /\ d.owed = owed
      /\ d = [total_staked |-> d.total_staked, STAKE |-> d.STAKE, reward_action |-> NoAction,
              bloop |-> d.bloop, loop |-> d.loop, principal |-> d.principal, owed |-> d.owed]
  BY <1>3
<1>6. bloop[Vault] = committed.bloop[Vault] + a /\ committed.bloop[Vault] \in Nat
  BY <1>1 DEF Moved, VaultInv
<1>7. VaultInv(total, STAKE, bloop[Vault])
  BY <1>1, <1>2, <1>6, RewardArrives DEF Untouched
<1>8. WorldSound(d)
  BY <1>1, <1>5, <1>7 DEF WorldSound, Typed, Moved
<1>9. DonatedOutcome(tx, committed, d)
  <2>1. PICK zero \in Nat : zero = 0 /\ -zero = 0
    OBVIOUS
  <2>2. Users \subseteq Bloop!Holders /\ bloop \in [Bloop!Holders -> Nat] /\ bloop[Vault] \in Nat /\ bloop[Converter] = 0
    BY <1>1, <1>6, ConstantsKnown DEF Typed, Moved
  <2>3. \A w \in Users : bloop[w] = bloop[w] + IF w = Nobody THEN zero ELSE 0
    BY <2>1, <2>2
  <2>4. bloop[Vault] = bloop[Vault] + (-zero)
    BY <2>1, <2>2
  <2>5. Moved(bloop, d.bloop, Nobody, zero, -zero, 0)
    BY <1>5, <2>2, <2>3, <2>4 DEF Moved
  <2>6. (\A w \in Users : d.STAKE[w].stake = committed.STAKE[w].stake) /\ LoopAsIn(committed, d.principal, d.owed)
    BY <1>5 DEF Untouched, LoopAsIn
  <2>7. QED
    BY <2>1, <2>5, <2>6 DEF DonatedOutcome
<1>10. QED
  BY <1>4, <1>8, <1>9, EndAdvances DEF Outcome

\* The vault fetches the reward that waits, or serves u at once.
LEMMA PerformAdvances ==
    ASSUME BloopInv, tx # Bloop!NoTx, NEW u \in Users, NEW put \in Nat, NEW take \in Nat, NEW act,
           IsActOf(act, u, put, take), take <= committed.STAKE[u].stake,
           Requested(tx, committed, u, put, take, committed.owed[QueryDuration], 0), tx.kind # "Convert",
           AsksIn(tx, committed, act, Nobody, u, put, take, 0),
           Moved(committed.bloop, bloop, u, -put, put, 0), Untouched, LoopAsIn(committed, principal, owed),
           Tail(msgs) = << >>, reward_action = NoAction, Bloop!Perform(act),
           bloop' = bloop, loop' = loop, principal' = principal, owed' = owed
    PROVE  Advances
<1>1. PICK r : r = committed.owed[QueryDuration]
  OBVIOUS
<1>2. r \in Nat /\ Bloop!Withdrawable = r /\ Typed
  BY <1>1, ConstantsKnown DEF BloopInv, WorldSound, Typed, Bloop!Withdrawable, LoopAsIn
<1>3. CASE r > 0
  <2>1. reward_action' = act /\ total_staked' = total_staked /\ STAKE' = STAKE /\ Bloop!Return(<<Bloop!Harvest>>)
    BY <1>2, <1>3 DEF Bloop!Perform
  <2>2. msgs' = <<Bloop!Harvest>> /\ duration' = duration
    BY <2>1, Returned, Joined
  <2>3. Typed'
    BY <1>2, <2>2 DEF Typed
  <2>4. ASSUME tx' = tx, committed' = committed PROVE Fetching'
    <3>1. Asks(Nobody, u, put, take, 0)' /\ Moved(committed.bloop, bloop, u, -put, put, 0)'
      BY <2>1, <2>4 DEF Asks
    <3>2. Untouched' /\ LoopAsIn(committed, principal, owed)' /\ owed'[QueryDuration] = r
      BY <1>1, <2>1, <2>4 DEF Untouched, LoopAsIn
    <3>3. QED
      BY <1>3, <2>2, <3>1, <3>2 DEF Fetching
  <2>5. msgs' # << >>
    BY <2>2
  <2>6. QED
    BY <2>1, <2>2, <2>3, <2>4, <2>5, StageAdvances
<1>4. CASE r = 0
  <2>1. reward_action' = NoAction /\ Bloop!PerformOn(act, total_staked)
    BY <1>2, <1>4 DEF Bloop!Perform
  <2>2. Carries(act, Fetched(committed, 0))
    BY <2>1 DEF Carries, Fetched, Untouched
  <2>3. PICK zero \in Nat : zero = 0
    OBVIOUS
  <2>4. Moved(committed.bloop, bloop, u, zero - put, zero + put, 0)
    BY <2>3
  <2>5. Requested(tx, committed, u, put, take, zero, zero) /\ Carries(act, Fetched(committed, zero))
    BY <1>1, <1>4, <2>2, <2>3
  <2>6. QED
    BY <2>3, <2>4, <2>5, ServeAdvances
<1>5. QED
  BY <1>2, <1>3, <1>4

-----------------------------------------------------------------------------
(* Messages of the token *)

LEMMA BalanceUp ==
    ASSUME NEW b \in [Bloop!Holders -> Nat], NEW h \in Bloop!Holders, NEW x \in Nat,
           NEW after, after = [b EXCEPT ![h] = @ + x]
    PROVE  /\ after \in [Bloop!Holders -> Nat] /\ after[h] = b[h] + x
           /\ \A g \in Bloop!Holders \ {h} : after[g] = b[g]
  OBVIOUS

LEMMA BalancesMove ==
    ASSUME NEW b \in [Bloop!Holders -> Nat], NEW f \in Bloop!Holders, NEW t \in Bloop!Holders, f # t, NEW x \in Nat, x <= b[f],
           NEW after, after = [b EXCEPT ![f] = @ - x, ![t] = @ + x]
    PROVE  /\ after \in [Bloop!Holders -> Nat] /\ after[f] = b[f] - x /\ after[t] = b[t] + x
           /\ \A g \in Bloop!Holders \ {f, t} : after[g] = b[g]
<1>1. /\ after[f] = b[f] - x /\ after[t] = b[t] + x /\ \A g \in Bloop!Holders \ {f, t} : after[g] = b[g]
  OBVIOUS
<1>2. b[f] - x \in Nat /\ b[t] + x \in Nat
  OBVIOUS
<1>3. after \in [Bloop!Holders -> Nat]
  BY <1>2
<1>4. QED
  BY <1>1, <1>3

LEMMA NothingMoved ==
    ASSUME Bloop!SystemConstants, NEW c, WorldSound(c), NEW u, NEW zero, zero = 0
    PROVE  Moved(c.bloop, c.bloop, u, zero, zero, zero)
<1>1. c.bloop \in [Bloop!Holders -> Nat] /\ c.bloop[Converter] = 0 /\ Users \subseteq Bloop!Holders /\ Vault \in Bloop!Holders
  BY ConstantsKnown DEF WorldSound
<1>2. \A v \in Users : c.bloop[v] = c.bloop[v] + IF v = u THEN 0 ELSE 0
  BY <1>1
<1>3. c.bloop[Vault] = c.bloop[Vault] + 0
  BY <1>1
<1>4. QED
  BY <1>1, <1>2, <1>3 DEF Moved

\* Tokens are minted for u.
LEMMA MintMoves ==
    ASSUME Bloop!SystemConstants, NEW old \in [Bloop!Holders -> Nat], NEW b, NEW u \in Users, NEW x \in Nat,
           Moved(old, b, u, 0, 0, 0), NEW after, after = [b EXCEPT ![u] = @ + x]
    PROVE  Moved(old, after, u, x, 0, 0)
<1>1. /\ Vault \in Bloop!Holders /\ Converter \in Bloop!Holders /\ Users \subseteq Bloop!Holders /\ u \in Bloop!Holders
      /\ Vault # u /\ Converter # u
  BY ConstantsKnown
<1>2. b \in [Bloop!Holders -> Nat]
  BY DEF Moved
<1>3. /\ after \in [Bloop!Holders -> Nat] /\ after[u] = b[u] + x
      /\ \A g \in Bloop!Holders \ {u} : after[g] = b[g]
  BY <1>1, <1>2, BalanceUp
<1>4. after[Vault] = b[Vault] /\ after[Converter] = b[Converter] /\ \A v \in Users \ {u} : after[v] = b[v]
  BY <1>1, <1>3
<1>5. after[u] = old[u] + x
  <2>1. b[u] = old[u] + 0 /\ old[u] \in Nat
    BY <1>1 DEF Moved
  <2>2. QED
    BY <1>3, <2>1
<1>6. QED
  BY <1>3, <1>4, <1>5 DEF Moved

\* The reward is minted for the converter.
LEMMA RewardMinted ==
    ASSUME Bloop!SystemConstants, NEW old, NEW b, NEW u, NEW du, NEW dv, NEW x \in Nat,
           Moved(old, b, u, du, dv, 0), NEW after, after = [b EXCEPT ![Converter] = @ + x]
    PROVE  Moved(old, after, u, du, dv, x)
<1>1. /\ Vault \in Bloop!Holders /\ Converter \in Bloop!Holders /\ Users \subseteq Bloop!Holders
      /\ Vault # Converter /\ Converter \notin Users
  BY ConstantsKnown
<1>2. b \in [Bloop!Holders -> Nat] /\ b[Converter] = 0
  BY DEF Moved
<1>3. /\ after \in [Bloop!Holders -> Nat] /\ after[Converter] = b[Converter] + x
      /\ \A g \in Bloop!Holders \ {Converter} : after[g] = b[g]
  BY <1>1, <1>2, BalanceUp
<1>4. after[Vault] = b[Vault] /\ after[Converter] = x /\ \A v \in Users : after[v] = b[v]
  BY <1>1, <1>2, <1>3
<1>5. QED
  BY <1>3, <1>4 DEF Moved

\* The converter sends it to the vault.
LEMMA RewardHanded ==
    ASSUME Bloop!SystemConstants, NEW old, old[Vault] \in Int, NEW b, NEW u, NEW du, NEW dv \in Int, NEW x \in Nat,
           Moved(old, b, u, du, dv, x), NEW after, after = [b EXCEPT ![Converter] = @ - x, ![Vault] = @ + x]
    PROVE  Moved(old, after, u, du, dv + x, 0)
<1>1. /\ Vault \in Bloop!Holders /\ Converter \in Bloop!Holders /\ Users \subseteq Bloop!Holders
      /\ Vault # Converter /\ Converter \notin Users /\ Vault \notin Users
  BY ConstantsKnown
<1>2. b \in [Bloop!Holders -> Nat] /\ b[Converter] = x /\ b[Vault] = old[Vault] + dv
  BY DEF Moved
<1>3. /\ after \in [Bloop!Holders -> Nat] /\ after[Converter] = b[Converter] - x /\ after[Vault] = b[Vault] + x
      /\ \A g \in Bloop!Holders \ {Converter, Vault} : after[g] = b[g]
  BY <1>1, <1>2, BalancesMove
<1>4. after[Vault] = old[Vault] + (dv + x) /\ after[Converter] = 0
  BY <1>2, <1>3
<1>5. \A v \in Users : after[v] = b[v]
  BY <1>1, <1>3
<1>6. QED
  BY <1>3, <1>4, <1>5 DEF Moved

\* A user sends tokens to the vault.
LEMMA UserSends ==
    ASSUME Bloop!SystemConstants, NEW c, WorldSound(c), NEW u \in Users, NEW x \in Nat, x <= c.bloop[u],
           NEW after, after = [c.bloop EXCEPT ![u] = @ - x, ![Vault] = @ + x]
    PROVE  Moved(c.bloop, after, u, -x, x, 0)
<1>1. /\ Vault \in Bloop!Holders /\ Converter \in Bloop!Holders /\ Users \subseteq Bloop!Holders /\ u \in Bloop!Holders
      /\ Vault # u /\ Converter # u /\ Vault # Converter /\ Vault \notin Users
  BY ConstantsKnown
<1>2. c.bloop \in [Bloop!Holders -> Nat] /\ c.bloop[Converter] = 0
  BY DEF WorldSound
<1>3. PICK b : b = c.bloop
  OBVIOUS
<1>4. /\ after \in [Bloop!Holders -> Nat] /\ after[u] = b[u] - x /\ after[Vault] = b[Vault] + x
      /\ \A g \in Bloop!Holders \ {u, Vault} : after[g] = b[g]
  BY <1>1, <1>2, <1>3, BalancesMove
<1>5. after[Converter] = 0 /\ \A v \in Users \ {u} : after[v] = b[v] /\ b[v] \in Nat
  BY <1>1, <1>2, <1>3, <1>4
<1>6. b[u] \in Nat /\ after[u] = b[u] + (-x) /\ \A v \in Users \ {u} : after[v] = b[v] + 0
  BY <1>1, <1>2, <1>3, <1>4, <1>5
<1>7. QED
  BY <1>3, <1>4, <1>5, <1>6 DEF Moved

-----------------------------------------------------------------------------
(* The stages *)

\* The token has called the vault.
LEMMA HandedAdvances ==
    ASSUME BloopInv, tx # Bloop!NoTx, Bloop!Execute, Bloop!Accepts(Head(msgs)), Handed
    PROVE  Advances
<1>1. PICK u \in Users, a \in Nat, hook \in Hooks :
        /\ tx = Bloop!Send(u, a, hook) /\ msgs = <<Bloop!Receive(u, a, hook)>> /\ reward_action = NoAction
        /\ Moved(committed.bloop, bloop, u, -a, a, 0) /\ Untouched /\ LoopAsIn(committed, principal, owed)
  BY DEF Handed
<1>2. PICK m : m = Bloop!Receive(u, a, hook)
  OBVIOUS
<1>3. Head(msgs) = m /\ Tail(msgs) = << >> /\ m.kind = "Receive" /\ m.from = u /\ m.amount = a /\ m.hook = hook
  BY <1>1, <1>2, TailOfTuple DEF Bloop!Receive
<1>4. Bloop!execute_stake \/ Bloop!execute_distribute_rewards
  BY <1>3, Dispatch
<1>5. CASE hook = Bloop!StakeHook
  <2>1. Bloop!execute_stake
    BY <1>3, <1>4, <1>5 DEF Bloop!execute_distribute_rewards, Bloop!StakeHook
  <2>2. Bloop!Perform(Stake(u, a)) /\ bloop' = bloop /\ loop' = loop /\ principal' = principal /\ owed' = owed
    BY <1>3, <2>1, SameActions DEF Bloop!execute_stake, Bloop!stakingVars
  <2>3. tx.kind # "Convert" /\ IsActOf(Stake(u, a), u, a, 0)
    BY <1>1 DEF Bloop!Send, IsActOf
  <2>4. committed.STAKE[u].stake \in Nat
    <3>1. VaultInv(committed.total_staked, committed.STAKE, committed.bloop[Vault])
      BY DEF BloopInv, WorldSound
    <3>2. QED
      BY <3>1, RowTypes
  <2>5. Requested(tx, committed, u, a, 0, committed.owed[QueryDuration], 0) /\ AsksIn(tx, committed, Stake(u, a), Nobody, u, a, 0, 0)
    BY <1>1, <1>5 DEF Requested, AsksIn
  <2>6. PICK zero \in Nat : zero = 0
    OBVIOUS
  <2>7. /\ zero <= committed.STAKE[u].stake /\ IsActOf(Stake(u, a), u, a, zero)
        /\ Requested(tx, committed, u, a, zero, committed.owed[QueryDuration], 0)
        /\ AsksIn(tx, committed, Stake(u, a), Nobody, u, a, zero, 0)
    BY <2>3, <2>4, <2>5, <2>6
  <2>8. QED
    BY <1>1, <1>3, <2>2, <2>3, <2>7, PerformAdvances
<1>6. ASSUME NEW v \in Users \cup {Nobody}, hook = Bloop!DistributeHook(v) PROVE Advances
  <2>1. hook.kind = "DistributeRewards" /\ hook.address = v /\ hook # Bloop!StakeHook
    BY <1>6 DEF Bloop!DistributeHook, Bloop!StakeHook
  <2>2. Bloop!execute_distribute_rewards
    BY <1>3, <1>4, <2>1 DEF Bloop!execute_stake
  <2>3. PICK act : act = IF v # Nobody THEN Reward(v) ELSE NoAction
    OBVIOUS
  <2>4. Carries(act, update_total_rewards(total_staked, a))
    BY <1>1, <1>3, <2>1, <2>2, <2>3, SameActions, SameVault DEF Bloop!execute_distribute_rewards, Carries, Bloop!stakingVars
  <2>5. CASE v = Nobody
    BY <1>1, <1>6, <2>3, <2>4, <2>5, GiveAdvances
  <2>6. CASE v # Nobody
    BY <1>1, <1>6, <2>3, <2>4, <2>6, DonateAdvances
  <2>7. QED
    BY <2>5, <2>6
<1>7. QED
  BY <1>5, <1>6 DEF Hooks

\* The vault waits for the reward.
LEMMA FetchingAdvances ==
    ASSUME BloopInv, tx # Bloop!NoTx, Bloop!Execute, Bloop!Accepts(Head(msgs)), Fetching
    PROVE  Advances
<1>1. PICK u, put, take, w :
        /\ Asks(Nobody, u, put, take, 0) /\ Moved(committed.bloop, bloop, u, -put, put, 0)
        /\ Untouched /\ LoopAsIn(committed, principal, owed) /\ w = owed[QueryDuration] /\ w > 0
        /\ \/ msgs = <<Bloop!Harvest>>
           \/ msgs = <<Bloop!LoopRestake(duration), Bloop!Mint(Converter, w),
                       Bloop!Send(Converter, w, Bloop!DistributeHook(Nobody))>>
  BY DEF Fetching
<1>2. Typed /\ WorldSound(committed) /\ Bloop!Withdrawable = w /\ Bloop!SystemConstants
  BY <1>1 DEF BloopInv, Bloop!Withdrawable, Typed
<1>3. CASE msgs = <<Bloop!Harvest>>
  <2>1. Head(msgs) = Bloop!Harvest /\ Tail(msgs) = << >> /\ Bloop!Harvest.kind = "Harvest"
    BY <1>3, TailOfTuple DEF Bloop!Harvest
  <2>2. Bloop!execute_harvest
    BY <2>1, Dispatch
  <2>3. PICK out : out = <<Bloop!LoopRestake(duration), Bloop!Mint(Converter, w), Bloop!Send(Converter, w, Bloop!DistributeHook(Nobody))>>
    OBVIOUS
  <2>4. /\ Bloop!Return(out) /\ total_staked' = total_staked /\ STAKE' = STAKE /\ reward_action' = reward_action
        /\ bloop' = bloop /\ loop' = loop /\ principal' = principal /\ owed' = owed
    BY <1>2, <2>2, <2>3 DEF Bloop!execute_harvest, Bloop!vaultVars, Bloop!stakingVars
  <2>5. msgs' = out /\ duration' = duration /\ out # << >>
    <3>1. msgs' = out \o << >> /\ duration' = duration
      BY <2>1, <2>4, Returned
    <3>2. out \o << >> = out /\ out # << >>
      BY <2>3, Joined
    <3>3. QED
      BY <3>1, <3>2
  <2>6. ASSUME tx' = tx, committed' = committed PROVE Fetching'
    <3>1. Asks(Nobody, u, put, take, 0)' /\ Untouched' /\ LoopAsIn(committed, principal, owed)'
      BY <1>1, <2>4, <2>6 DEF Asks, Untouched, LoopAsIn
    <3>2. Moved(committed.bloop, bloop, u, -put, put, 0)' /\ w = owed'[QueryDuration]
      BY <1>1, <2>4, <2>6
    <3>3. QED
      BY <1>1, <2>3, <2>5, <3>1, <3>2 DEF Fetching
  <2>7. Typed'
    BY <1>2, <2>4, <2>5 DEF Typed
  <2>8. QED
    BY <2>4, <2>5, <2>6, <2>7, StageAdvances
<1>4. CASE msgs = <<Bloop!LoopRestake(duration), Bloop!Mint(Converter, w), Bloop!Send(Converter, w, Bloop!DistributeHook(Nobody))>>
  <2>1. PICK m, rest : m = Bloop!LoopRestake(duration) /\ rest = <<Bloop!Mint(Converter, w), Bloop!Send(Converter, w, Bloop!DistributeHook(Nobody))>>
    OBVIOUS
  <2>2. Head(msgs) = m /\ Tail(msgs) = rest /\ m.kind = "LoopRestake" /\ m.duration = duration /\ rest # << >>
    BY <1>4, <2>1, TailOfTuple DEF Bloop!LoopRestake
  <2>3. Bloop!ExecuteLoopRestake
    BY <2>2, Dispatch
  <2>4. /\ principal' = [principal EXCEPT ![duration] = @ + owed[duration]] /\ owed' = [owed EXCEPT ![duration] = 0]
        /\ total_staked' = total_staked /\ STAKE' = STAKE /\ reward_action' = reward_action
        /\ bloop' = bloop /\ loop' = loop /\ Bloop!Return(<< >>)
    BY <2>2, <2>3 DEF Bloop!ExecuteLoopRestake, Bloop!vaultVars
  <2>5. msgs' = rest /\ duration' = duration
    BY <2>1, <2>2, <2>4, Returned, Joined
  <2>6. /\ principal' \in [Durations -> Nat] /\ owed' \in [Durations -> Nat] /\ owed'[duration] = 0 /\ owed[duration] \in Nat
        /\ principal'[duration] = principal[duration] + owed[duration]
        /\ \A e \in Durations \ {duration} : principal'[e] = principal[e]
    BY <1>2, <2>4 DEF Typed
  <2>7. Typed'
    BY <1>2, <2>4, <2>5, <2>6 DEF Typed
  <2>8. SumOver(principal', Durations) = SumOver(principal, Durations) + owed[duration]
    <3>1. duration \in Durations /\ principal \in [Durations -> Nat] /\ IsFiniteSet(Durations)
      BY <1>2, ConstantsKnown DEF Typed
    <3>2. PICK p, q, y, h : p = principal /\ q = principal' /\ y = owed[duration] /\ h = duration
      OBVIOUS
    <3>3. /\ p \in [Durations -> Nat] /\ q \in [Durations -> Nat] /\ y \in Nat /\ h \in Durations /\ IsFiniteSet(Durations)
          /\ q[h] = p[h] + y /\ \A e \in Durations \ {h} : q[e] = p[e]
      BY <2>6, <3>1, <3>2
    <3>4. SumOver(q, Durations) = SumOver(p, Durations) + y
      BY <3>3, CreditedSum
    <3>5. QED
      BY <3>2, <3>4
  <2>9. Restaked(committed, principal', owed', duration)
    BY <1>1, <2>6, <2>8 DEF Restaked, LoopAsIn
  <2>10. ASSUME tx' = tx, committed' = committed PROVE Arriving'
    <3>1. Asks(Nobody, u, put, take, 0)' /\ Untouched' /\ Restaked(committed, principal, owed, duration)'
      BY <1>1, <2>4, <2>5, <2>9, <2>10 DEF Asks, Untouched
    <3>2. Moved(committed.bloop, bloop, u, 0 - put, put, 0)'
      <4>1. Moved(committed'.bloop, bloop', u, -put, put, 0)
        BY <1>1, <2>4, <2>10
      <4>2. put \in Nat
        BY <1>1 DEF Asks, AsksIn
      <4>3. -put = 0 - put
        BY <4>2
      <4>4. QED
        BY <4>1, <4>3
    <3>3. w = committed'.owed[QueryDuration]
      BY <1>1, <2>10 DEF LoopAsIn
    <3>4. Arrives(Nobody, u, put, take, 0, w)'
      BY <1>1, <2>1, <2>5, <3>1, <3>2, <3>3 DEF Arrives
    <3>5. QED
      BY <3>4 DEF Arriving
  <2>11. QED
    BY <2>2, <2>4, <2>5, <2>7, <2>10, StageAdvances
<1>5. QED
  BY <1>1, <1>3, <1>4

\* The facts of a transaction whose reward is on its way.
LEMMA ArrivesTypes ==
    ASSUME BloopInv, NEW addr, NEW u, NEW put, NEW take, NEW m, NEW w, Arrives(addr, u, put, take, m, w)
    PROVE  /\ put \in Nat /\ take \in Nat /\ m \in Nat /\ w \in Nat \ {0} /\ committed.bloop[Vault] \in Nat
           /\ Typed /\ WorldSound(committed) /\ Bloop!SystemConstants
<1>1. Typed /\ WorldSound(committed) /\ Bloop!SystemConstants
  BY DEF BloopInv, Typed
<1>2. committed.owed \in [Durations -> Nat] /\ QueryDuration \in Durations /\ committed.bloop[Vault] \in Nat
  BY <1>1, ConstantsKnown DEF WorldSound, VaultInv
<1>3. put \in Nat /\ take \in Nat /\ m \in Nat
  BY DEF Arrives, Asks, AsksIn
<1>4. w \in Nat \ {0}
  BY <1>2 DEF Arrives
<1>5. QED
  BY <1>1, <1>2, <1>3, <1>4

\* The reward has reached the vault.
LEMMA RewardReceived ==
    ASSUME BloopInv, tx # Bloop!NoTx, Bloop!Execute, Bloop!Accepts(Head(msgs)), NEW addr, NEW u, NEW put, NEW take, NEW m, NEW w,
           Arrives(addr, u, put, take, m, w), msgs = <<Bloop!Receive(Converter, w, Bloop!DistributeHook(addr))>>,
           Moved(committed.bloop, bloop, u, m - put, put + w, 0)
    PROVE  Advances
<1>1. /\ put \in Nat /\ take \in Nat /\ m \in Nat /\ w \in Nat \ {0} /\ committed.bloop[Vault] \in Nat
      /\ Typed /\ WorldSound(committed) /\ Bloop!SystemConstants
  BY ArrivesTypes
<1>2. /\ Untouched /\ (tx.kind # "Convert" => Restaked(committed, principal, owed, duration))
      /\ w = committed.owed[QueryDuration] /\ AsksIn(tx, committed, reward_action, addr, u, put, take, m)
  BY DEF Arrives, Asks
<1>3. PICK e, hook : hook = Bloop!DistributeHook(addr) /\ e = Bloop!Receive(Converter, w, hook)
  OBVIOUS
<1>4. /\ Head(msgs) = e /\ Tail(msgs) = << >> /\ e.kind = "Receive" /\ e.amount = w /\ e.hook = hook
      /\ hook.kind = "DistributeRewards" /\ hook.address = addr /\ hook # Bloop!StakeHook
  BY <1>3, TailOfTuple DEF Bloop!Receive, Bloop!DistributeHook, Bloop!StakeHook
<1>5. Bloop!execute_distribute_rewards
  <2>1. Bloop!execute_stake \/ Bloop!execute_distribute_rewards
    BY <1>4, Dispatch
  <2>2. QED
    BY <1>4, <2>1 DEF Bloop!execute_stake
<1>6. PICK act : act = IF addr # Nobody THEN Reward(addr) ELSE reward_action
  OBVIOUS
<1>7. Carries(act, update_total_rewards(total_staked, w)) /\ Fetched(committed, w) = update_total_rewards(total_staked, w)
  BY <1>1, <1>2, <1>4, <1>5, <1>6, SameActions, SameVault
     DEF Bloop!execute_distribute_rewards, Carries, Bloop!stakingVars, Fetched, Untouched
<1>8. reward_action = SyneStakingRewardWithdraw => addr # Nobody
  BY <1>4, SameActions DEF Bloop!Accepts
<1>9. Moved(committed.bloop, bloop, u, m - put, w + put, 0)
  <2>1. put + w = w + put
    BY <1>1
  <2>2. QED
    BY <2>1
<1>10. CASE u = Nobody
  <2>1. addr = Nobody /\ put = 0 /\ m = 0 /\ tx = Bloop!Harvest /\ reward_action = NoAction
    BY <1>1, <1>2, <1>8, <1>10, ConstantsKnown DEF AsksIn
  <2>2. Moved(committed.bloop, bloop, Nobody, 0, w, 0)
    <3>1. m - put = 0 /\ w + put = w
      BY <1>1, <2>1
    <3>2. QED
      BY <1>9, <1>10, <3>1
  <2>3. Restaked(committed, principal, owed, duration)
    BY <1>2, <2>1 DEF Bloop!Harvest
  <2>4. act = NoAction
    BY <1>6, <2>1
  <2>5. QED
    BY <1>1, <1>2, <1>7, <2>1, <2>2, <2>3, <2>4, FundAdvances
<1>11. CASE u # Nobody
  <2>1. u \in Users /\ IsActOf(act, u, put, take) /\ Requested(tx, committed, u, put, take, w, m)
    <3>1. CASE addr = Nobody
      BY <1>2, <1>6, <1>11, <3>1 DEF AsksIn, IsActOf, Requested
    <3>2. CASE addr # Nobody
      BY <1>2, <1>6, <1>11, <3>2 DEF AsksIn, IsActOf, Requested
    <3>3. QED
      BY <3>1, <3>2
  <2>2. take <= committed.STAKE[u].stake
    <3>1. committed.STAKE[u].stake \in Nat
      BY <1>1, <2>1, RowTypes DEF WorldSound
    <3>2. QED
      BY <1>2, <1>11, <3>1 DEF AsksIn
  <2>3. Carries(act, Fetched(committed, w)) /\ w \in Nat
    BY <1>1, <1>7
  <2>4. QED
    BY <1>1, <1>2, <1>9, <2>1, <2>2, <2>3, ServeAdvances
<1>12. QED
  BY <1>10, <1>11

\* The reward goes through converter and token.
LEMMA ArrivingAdvances ==
    ASSUME BloopInv, tx # Bloop!NoTx, Bloop!Execute, Bloop!Accepts(Head(msgs)), Arriving
    PROVE  Advances
<1>1. PICK addr, u, put, take, m, w : Arrives(addr, u, put, take, m, w)
  BY DEF Arriving
<1>2. /\ put \in Nat /\ take \in Nat /\ m \in Nat /\ w \in Nat \ {0} /\ committed.bloop[Vault] \in Nat
      /\ Typed /\ WorldSound(committed) /\ Bloop!SystemConstants
  BY <1>1, ArrivesTypes
<1>3. PICK mint, send, recv : /\ mint = Bloop!Mint(Converter, w) /\ send = Bloop!Send(Converter, w, Bloop!DistributeHook(addr))
                              /\ recv = Bloop!Receive(Converter, w, Bloop!DistributeHook(addr))
  OBVIOUS
<1>4. CASE msgs = <<mint, send>> /\ Moved(committed.bloop, bloop, u, m - put, put, 0)
  <2>1. Head(msgs) = mint /\ Tail(msgs) = <<send>> /\ mint.kind = "Mint" /\ mint.to = Converter /\ mint.amount = w
    BY <1>3, <1>4, TailOfTuple DEF Bloop!Mint
  <2>2. Bloop!execute_token_mint
    BY <2>1, Dispatch
  <2>3. /\ bloop' = [bloop EXCEPT ![Converter] = @ + w] /\ Bloop!Return(<< >>)
        /\ total_staked' = total_staked /\ STAKE' = STAKE /\ reward_action' = reward_action
        /\ loop' = loop /\ principal' = principal /\ owed' = owed
    BY <2>1, <2>2 DEF Bloop!execute_token_mint, Bloop!vaultVars, Bloop!stakingVars
  <2>4. msgs' = <<send>> /\ duration' = duration /\ msgs' # << >>
    <3>1. Bloop!Return(<< >>)
      BY <2>3
    <3>2. msgs' = << >> \o <<send>> /\ duration' = duration
      BY <2>1, <3>1, Returned
    <3>3. QED
      BY <3>2, Joined
  <2>5. PICK after : after = bloop'
    OBVIOUS
  <2>6. Moved(committed.bloop, after, u, m - put, put, w)
    BY <1>2, <1>4, <2>3, <2>5, RewardMinted
  <2>7. Typed'
    BY <1>2, <2>3, <2>4, <2>5, <2>6 DEF Typed, Moved
  <2>8. ASSUME tx' = tx, committed' = committed PROVE Arriving'
    <3>1. /\ Asks(addr, u, put, take, m)' /\ Untouched' /\ w = committed'.owed[QueryDuration] /\ w > 0
          /\ tx'.kind # "Convert" => Restaked(committed, principal, owed, duration)'
      BY <1>1, <2>3, <2>4, <2>8 DEF Arrives, Asks, Untouched
    <3>2. Moved(committed'.bloop, bloop', u, m - put, put, w)
      BY <2>5, <2>6, <2>8
    <3>3. Arrives(addr, u, put, take, m, w)'
      BY <1>3, <2>4, <3>1, <3>2 DEF Arrives
    <3>4. QED
      BY <3>3 DEF Arriving
  <2>9. QED
    BY <2>3, <2>4, <2>7, <2>8, StageAdvances
<1>5. CASE msgs = <<send>> /\ Moved(committed.bloop, bloop, u, m - put, put, w)
  <2>1. /\ Head(msgs) = send /\ Tail(msgs) = << >> /\ send.kind = "Send" /\ send.from = Converter /\ send.amount = w
        /\ send.hook = Bloop!DistributeHook(addr)
    BY <1>3, <1>5, TailOfTuple DEF Bloop!Send
  <2>2. Bloop!execute_send
    BY <2>1, Dispatch
  <2>3. /\ bloop' = [bloop EXCEPT ![Converter] = @ - w, ![Vault] = @ + w] /\ Bloop!Return(<<recv>>)
        /\ total_staked' = total_staked /\ STAKE' = STAKE /\ reward_action' = reward_action
        /\ loop' = loop /\ principal' = principal /\ owed' = owed
    BY <1>3, <2>1, <2>2 DEF Bloop!execute_send, Bloop!vaultVars, Bloop!stakingVars
  <2>4. msgs' = <<recv>> /\ duration' = duration /\ msgs' # << >>
    <3>1. Bloop!Return(<<recv>>)
      BY <2>3
    <3>2. msgs' = <<recv>> \o << >> /\ duration' = duration
      BY <2>1, <3>1, Returned
    <3>3. QED
      BY <3>2, Joined
  <2>5. PICK after : after = bloop'
    OBVIOUS
  <2>6. Moved(committed.bloop, after, u, m - put, put + w, 0)
    <3>1. after = [bloop EXCEPT ![Converter] = @ - w, ![Vault] = @ + w]
      BY <2>3, <2>5
    <3>2. PICK old, du : old = committed.bloop /\ du = m - put
      OBVIOUS
    <3>3. old[Vault] \in Int /\ put \in Int /\ w \in Nat /\ Moved(old, bloop, u, du, put, w)
      BY <1>2, <1>5, <3>2
    <3>4. Moved(old, after, u, du, put + w, 0)
      BY <1>2, <3>1, <3>3, RewardHanded
    <3>5. QED
      BY <3>2, <3>4
  <2>7. Typed'
    BY <1>2, <2>3, <2>4, <2>5, <2>6 DEF Typed, Moved
  <2>8. ASSUME tx' = tx, committed' = committed PROVE Arriving'
    <3>1. /\ Asks(addr, u, put, take, m)' /\ Untouched' /\ w = committed'.owed[QueryDuration] /\ w > 0
          /\ tx'.kind # "Convert" => Restaked(committed, principal, owed, duration)'
      BY <1>1, <2>3, <2>4, <2>8 DEF Arrives, Asks, Untouched
    <3>2. Moved(committed'.bloop, bloop', u, m - put, put + w, 0)
      BY <2>5, <2>6, <2>8
    <3>3. Arrives(addr, u, put, take, m, w)'
      BY <1>3, <2>4, <3>1, <3>2 DEF Arrives
    <3>4. QED
      BY <3>3 DEF Arriving
  <2>9. QED
    BY <2>3, <2>4, <2>7, <2>8, StageAdvances
<1>6. CASE msgs = <<recv>> /\ Moved(committed.bloop, bloop, u, m - put, put + w, 0)
  BY <1>1, <1>3, <1>6, RewardReceived
<1>7. QED
  BY <1>1, <1>3, <1>4, <1>5, <1>6 DEF Arrives

\* The converter stakes and mints for u.
LEMMA ConvertingAdvances ==
    ASSUME BloopInv, tx # Bloop!NoTx, Bloop!Execute, Bloop!Accepts(Head(msgs)), Converting
    PROVE  Advances
<1>1. PICK u \in Users, a \in Nat \ {0} : \E w : Converts(u, a, w)
  BY DEF Converting
<1>2. PICK w : Converts(u, a, w)
  BY <1>1
<1>3. /\ tx = Bloop!Convert(u, a) /\ reward_action = NoAction /\ Untouched /\ w = committed.owed[QueryDuration]
      /\ Typed /\ WorldSound(committed) /\ Bloop!SystemConstants /\ a \in Nat /\ committed.bloop \in [Bloop!Holders -> Nat]
  BY <1>2 DEF Converts, BloopInv, Typed, WorldSound
<1>4. PICK stake, mint, dist, mintr, sendr :
        /\ stake = Bloop!LoopStake(a, duration) /\ mint = Bloop!Mint(u, a) /\ dist = Bloop!DistributeRewards(u)
        /\ mintr = Bloop!Mint(Converter, w) /\ sendr = Bloop!Send(Converter, w, Bloop!DistributeHook(u))
  OBVIOUS
<1>5. \/ /\ Moved(committed.bloop, bloop, u, 0, 0, 0)
         /\ \/ msgs = <<stake, mint, dist>> \/ msgs = <<mint, dist>>
            \/ w > 0 /\ msgs = <<stake, mint, mintr, sendr>>
            \/ w > 0 /\ msgs = <<mint, mintr, sendr>>
      \/ Moved(committed.bloop, bloop, u, a, 0, 0) /\ msgs = <<dist>>
  BY <1>2, <1>4 DEF Converts
<1>6. ASSUME Moved(committed.bloop, bloop, u, 0, 0, 0), NEW rest, Head(msgs) = stake, Tail(msgs) = rest, rest # << >>,
             rest = <<mint, dist>> \/ (w > 0 /\ rest = <<mint, mintr, sendr>>)
      PROVE  Advances
  <2>1. stake.kind = "LoopStake" /\ stake.amount = a /\ stake.duration = duration
    BY <1>4 DEF Bloop!LoopStake
  <2>2. Bloop!ExecuteLoopStake
    BY <1>6, <2>1, Dispatch
  <2>3. /\ principal' = [principal EXCEPT ![duration] = @ + a]
        /\ total_staked' = total_staked /\ STAKE' = STAKE /\ reward_action' = reward_action
        /\ bloop' = bloop /\ loop' = loop /\ owed' = owed
    BY <1>6, <2>1, <2>2 DEF Bloop!ExecuteLoopStake, Bloop!vaultVars
  <2>4. Bloop!Return(<< >>)
    BY <2>2 DEF Bloop!ExecuteLoopStake
  <2>5. msgs' = rest /\ duration' = duration
    <3>1. msgs' = << >> \o rest /\ duration' = duration
      BY <1>6, <2>4, Returned
    <3>2. QED
      BY <1>6, <3>1, Joined
  <2>6. principal' \in [Durations -> Nat]
    BY <1>3, <2>3 DEF Typed
  <2>7. Typed'
    BY <1>3, <2>3, <2>5, <2>6 DEF Typed
  <2>8. ASSUME tx' = tx, committed' = committed PROVE Converting'
    <3>1. /\ tx' = Bloop!Convert(u, a) /\ reward_action' = NoAction /\ Untouched' /\ w = committed'.owed[QueryDuration]
          /\ Moved(committed'.bloop, bloop', u, 0, 0, 0)
      BY <1>3, <1>6, <2>3, <2>8 DEF Untouched
    <3>2. Converts(u, a, w)'
      BY <1>4, <1>6, <2>5, <3>1 DEF Converts
    <3>3. QED
      BY <3>2 DEF Converting
  <2>9. QED
    BY <1>6, <2>4, <2>5, <2>7, <2>8, StageAdvances
<1>7. ASSUME Moved(committed.bloop, bloop, u, 0, 0, 0), NEW rest, Head(msgs) = mint, Tail(msgs) = rest, rest # << >>,
             rest = <<dist>> \/ (w > 0 /\ rest = <<mintr, sendr>>)
      PROVE  Advances
  <2>1. mint.kind = "Mint" /\ mint.amount = a /\ mint.to = u
    BY <1>4 DEF Bloop!Mint
  <2>2. Bloop!execute_token_mint
    BY <1>7, <2>1, Dispatch
  <2>3. /\ bloop' = [bloop EXCEPT ![u] = @ + a]
        /\ total_staked' = total_staked /\ STAKE' = STAKE /\ reward_action' = reward_action
        /\ loop' = loop /\ principal' = principal /\ owed' = owed
    BY <1>7, <2>1, <2>2 DEF Bloop!execute_token_mint, Bloop!vaultVars, Bloop!stakingVars
  <2>4. Bloop!Return(<< >>)
    BY <2>2 DEF Bloop!execute_token_mint
  <2>5. msgs' = rest /\ duration' = duration
    <3>1. msgs' = << >> \o rest /\ duration' = duration
      BY <1>7, <2>4, Returned
    <3>2. QED
      BY <1>7, <3>1, Joined
  <2>6. PICK after : after = bloop'
    OBVIOUS
  <2>7. Moved(committed.bloop, after, u, a, 0, 0)
    <3>1. PICK old : old = committed.bloop
      OBVIOUS
    <3>2. after = [bloop EXCEPT ![u] = @ + a] /\ old \in [Bloop!Holders -> Nat] /\ Moved(old, bloop, u, 0, 0, 0)
      BY <1>3, <1>7, <2>3, <2>6, <3>1
    <3>3. Moved(old, after, u, a, 0, 0)
      BY <1>3, <3>2, MintMoves
    <3>4. QED
      BY <3>1, <3>3
  <2>8. Typed'
    BY <1>3, <2>3, <2>5, <2>6, <2>7 DEF Typed, Moved
  <2>9. ASSUME tx' = tx, committed' = committed PROVE Converting' \/ Arriving'
    <3>1. /\ tx' = Bloop!Convert(u, a) /\ reward_action' = NoAction /\ Untouched' /\ w = committed'.owed[QueryDuration]
          /\ Moved(committed'.bloop, bloop', u, a, 0, 0)
      BY <1>3, <2>3, <2>6, <2>7, <2>9 DEF Untouched
    <3>2. CASE rest = <<dist>>
      <4>1. Converts(u, a, w)'
        BY <1>4, <2>5, <3>1, <3>2 DEF Converts
      <4>2. QED
        BY <4>1 DEF Converting
    <3>3. CASE w > 0 /\ rest = <<mintr, sendr>>
      <4>1. Asks(u, u, 0, 0, a)' /\ tx'.kind = "Convert"
        BY <1>3, <3>1 DEF Asks, AsksIn, Bloop!Convert
      <4>2. Moved(committed'.bloop, bloop', u, a - 0, 0, 0)
        <5>1. a - 0 = a
          BY <1>3
        <5>2. QED
          BY <3>1, <5>1
      <4>3. Arrives(u, u, 0, 0, a, w)'
        BY <1>4, <2>5, <3>1, <3>3, <4>1, <4>2 DEF Arrives
      <4>4. QED
        BY <4>3 DEF Arriving
    <3>4. QED
      BY <1>7, <3>2, <3>3
  <2>10. QED
    BY <1>7, <2>4, <2>5, <2>8, <2>9, StageAdvances
<1>8. ASSUME Moved(committed.bloop, bloop, u, a, 0, 0), msgs = <<dist>> PROVE Advances
  <2>1. Head(msgs) = dist /\ Tail(msgs) = << >> /\ dist.kind = "DistributeRewards" /\ dist.address = u
    BY <1>4, <1>8, TailOfTuple DEF Bloop!DistributeRewards
  <2>2. Bloop!execute_distribute_user_rewards
    BY <2>1, Dispatch
  <2>3. Carries(Reward(u), Fetched(committed, 0))
    BY <1>3, <2>1, <2>2, SameActions
       DEF Bloop!execute_distribute_user_rewards, Carries, Bloop!stakingVars, Fetched, Untouched
  <2>4. PICK zero \in Nat : zero = 0
    OBVIOUS
  <2>5. Moved(committed.bloop, bloop, u, a - zero, zero + zero, 0)
    <3>1. a - zero = a /\ zero + zero = 0
      BY <1>3, <2>4
    <3>2. QED
      BY <1>8, <3>1
  <2>6. Carries(Reward(u), Fetched(committed, zero)) /\ IsActOf(Reward(u), u, zero, zero)
    BY <2>3, <2>4 DEF IsActOf
  <2>7. Requested(tx, committed, u, zero, zero, zero, a) /\ tx.kind = "Convert"
    BY <1>3, <2>4 DEF Requested, Bloop!Convert
  <2>8. zero <= committed.STAKE[u].stake
    <3>1. committed.STAKE[u].stake \in Nat
      BY <1>3, RowTypes DEF WorldSound
    <3>2. QED
      BY <2>4, <3>1
  <2>9. QED
    BY <1>3, <2>4, <2>5, <2>6, <2>7, <2>8, ServeAdvances
<1>9. QED
  <2>1. CASE msgs = <<stake, mint, dist>> /\ Moved(committed.bloop, bloop, u, 0, 0, 0)
    <3>1. PICK rest : rest = <<mint, dist>>
      OBVIOUS
    <3>2. Head(msgs) = stake /\ Tail(msgs) = rest /\ rest # << >>
      BY <2>1, <3>1, TailOfTuple
    <3>3. QED
      BY <1>6, <2>1, <3>1, <3>2
  <2>2. CASE msgs = <<mint, dist>> /\ Moved(committed.bloop, bloop, u, 0, 0, 0)
    <3>1. PICK rest : rest = <<dist>>
      OBVIOUS
    <3>2. Head(msgs) = mint /\ Tail(msgs) = rest /\ rest # << >>
      BY <2>2, <3>1, TailOfTuple
    <3>3. QED
      BY <1>7, <2>2, <3>1, <3>2
  <2>3. CASE w > 0 /\ msgs = <<stake, mint, mintr, sendr>> /\ Moved(committed.bloop, bloop, u, 0, 0, 0)
    <3>1. PICK rest : rest = <<mint, mintr, sendr>>
      OBVIOUS
    <3>2. Head(msgs) = stake /\ Tail(msgs) = rest /\ rest # << >>
      BY <2>3, <3>1, TailOfTuple
    <3>3. QED
      BY <1>6, <2>3, <3>1, <3>2
  <2>4. CASE w > 0 /\ msgs = <<mint, mintr, sendr>> /\ Moved(committed.bloop, bloop, u, 0, 0, 0)
    <3>1. PICK rest : rest = <<mintr, sendr>>
      OBVIOUS
    <3>2. Head(msgs) = mint /\ Tail(msgs) = rest /\ rest # << >>
      BY <2>4, <3>1, TailOfTuple
    <3>3. QED
      BY <1>7, <2>4, <3>1, <3>2
  <2>5. QED
    BY <1>5, <1>8, <2>1, <2>2, <2>3, <2>4

\* The admin mints.
LEMMA MintingAdvances ==
    ASSUME BloopInv, tx # Bloop!NoTx, Bloop!Execute, Bloop!Accepts(Head(msgs)), Minting
    PROVE  Advances
<1>1. PICK u \in Users, v \in Users, a \in Nat :
        /\ tx = Bloop!ConverterMint(u, v, a) /\ msgs = <<Bloop!Mint(v, a)>> /\ reward_action = NoAction
        /\ Moved(committed.bloop, bloop, v, 0, 0, 0) /\ Untouched /\ LoopAsIn(committed, principal, owed)
  BY DEF Minting
<1>2. Typed /\ WorldSound(committed) /\ Bloop!SystemConstants /\ committed.bloop \in [Bloop!Holders -> Nat]
  BY DEF BloopInv, Typed, WorldSound
<1>3. PICK m : m = Bloop!Mint(v, a)
  OBVIOUS
<1>4. Head(msgs) = m /\ Tail(msgs) = << >> /\ m.kind = "Mint" /\ m.to = v /\ m.amount = a
  BY <1>1, <1>3, TailOfTuple DEF Bloop!Mint
<1>5. Bloop!execute_token_mint
  BY <1>4, Dispatch
<1>6. /\ bloop' = [bloop EXCEPT ![v] = @ + a]
      /\ total_staked' = total_staked /\ STAKE' = STAKE /\ reward_action' = reward_action
      /\ loop' = loop /\ principal' = principal /\ owed' = owed
  BY <1>4, <1>5 DEF Bloop!execute_token_mint, Bloop!vaultVars, Bloop!stakingVars
<1>7. Bloop!Return(<< >>)
  BY <1>5 DEF Bloop!execute_token_mint
<1>8. msgs' = << >> /\ duration' = duration
  BY <1>4, <1>7, Returned, Joined
<1>9. PICK after : after = bloop'
  OBVIOUS
<1>10. Moved(committed.bloop, after, v, a, 0, 0)
  <2>1. PICK old : old = committed.bloop
    OBVIOUS
  <2>2. after = [bloop EXCEPT ![v] = @ + a] /\ old \in [Bloop!Holders -> Nat] /\ Moved(old, bloop, v, 0, 0, 0)
    BY <1>1, <1>2, <1>6, <1>9, <2>1
  <2>3. Moved(old, after, v, a, 0, 0)
    BY <1>2, <2>2, MintMoves
  <2>4. QED
    BY <2>1, <2>3
<1>11. Typed'
  BY <1>2, <1>6, <1>8, <1>9, <1>10 DEF Typed, Moved
<1>12. PICK d : d = [total_staked |-> total_staked, STAKE |-> STAKE, reward_action |-> NoAction,
                    bloop |-> after, loop |-> loop, principal |-> principal, owed |-> owed]
  OBVIOUS
<1>13. /\ d.total_staked = total_staked /\ d.STAKE = STAKE /\ d.bloop = after /\ d.loop = loop
       /\ d.principal = principal /\ d.owed = owed
       /\ d = [total_staked |-> d.total_staked, STAKE |-> d.STAKE, reward_action |-> NoAction,
               bloop |-> d.bloop, loop |-> d.loop, principal |-> d.principal, owed |-> d.owed]
  BY <1>12
<1>14. Bloop!World' = d
  <2>1. total_staked' = total_staked /\ STAKE' = STAKE /\ reward_action' = NoAction /\ loop' = loop /\ principal' = principal /\ owed' = owed
    BY <1>1, <1>6
  <2>2. QED
    BY <1>9, <1>12, <2>1 DEF Bloop!World
<1>15. WorldSound(d)
  <2>1. after[Vault] = committed.bloop[Vault] + 0 /\ committed.bloop[Vault] \in Nat
    BY <1>2, <1>10 DEF Moved, WorldSound, VaultInv
  <2>2. VaultInv(total_staked, STAKE, after[Vault])
    BY <1>1, <1>2, <2>1 DEF WorldSound, Untouched
  <2>3. QED
    BY <1>2, <1>10, <1>13, <2>2 DEF WorldSound, Typed, Moved
<1>16. MintedOutcome(tx, committed, d)
  BY <1>1, <1>10, <1>13 DEF MintedOutcome, Untouched
<1>17. QED
  BY <1>7, <1>8, <1>11, <1>14, <1>15, <1>16, EndAdvances DEF Outcome

\* The vault pays.
LEMMA PayingAdvances ==
    ASSUME BloopInv, tx # Bloop!NoTx, Bloop!Execute, Bloop!Accepts(Head(msgs)), Paying
    PROVE  Advances
<1>1. PICK u, x, d : Settling(u, x, d) /\ Outcome(tx, committed, d, duration)
  BY DEF Paying
<1>2. Typed /\ Bloop!SystemConstants /\ msgs # << >>
  BY DEF BloopInv, Typed, Paying
<1>3. /\ Pays(msgs, u, x) /\ u \in Users /\ x \in Nat /\ x <= bloop[Vault] /\ reward_action = NoAction
      /\ d = [total_staked |-> total_staked, STAKE |-> STAKE, reward_action |-> NoAction,
              bloop |-> d.bloop, loop |-> loop, principal |-> principal, owed |-> owed]
      /\ d.bloop[Vault] = bloop[Vault] - x /\ d.bloop[u] = bloop[u] + x
      /\ \A h \in Bloop!Holders \ {Vault, u} : d.bloop[h] = bloop[h]
  BY <1>1 DEF Settling, SettlesTo, Bloop!World
<1>4. Vault \in Bloop!Holders /\ u \in Bloop!Holders /\ Vault # u /\ bloop[Vault] \in Nat /\ bloop[u] \in Nat /\ bloop \in [Bloop!Holders -> Nat]
  BY <1>2, <1>3, ConstantsKnown DEF Typed
<1>a. PICK y \in Nat, z \in Nat : \E rest :
        x = y + z /\ Head(msgs) = Bloop!Transfer(Vault, u, y) /\ Tail(msgs) = rest /\ Pays(rest, u, z) /\ << >> \o rest = rest
  <2>1. CASE msgs = <<Bloop!Transfer(Vault, u, x)>>
    <3>1. x = x + 0 /\ Pays(<< >>, u, 0) /\ 0 \in Nat
      BY <1>3 DEF Pays
    <3>2. QED
      BY <1>3, <2>1, <3>1, TailOfTuple, Joined
  <2>2. ASSUME NEW y \in Nat, NEW z \in Nat, x = y + z, msgs = <<Bloop!Transfer(Vault, u, y), Bloop!Transfer(Vault, u, z)>>
        PROVE  \E rest : /\ x = y + z /\ Head(msgs) = Bloop!Transfer(Vault, u, y) /\ Tail(msgs) = rest
                         /\ Pays(rest, u, z) /\ << >> \o rest = rest
    <3>1. PICK p, q : p = Bloop!Transfer(Vault, u, y) /\ q = Bloop!Transfer(Vault, u, z)
      OBVIOUS
    <3>2. msgs = <<p, q>>
      BY <2>2, <3>1
    <3>3. Head(msgs) = p /\ Tail(msgs) = <<q>> /\ << >> \o <<q>> = <<q>>
      BY <3>2, TailOfTuple, Joined
    <3>4. Pays(<<q>>, u, z)
      BY <3>1 DEF Pays
    <3>5. QED
      BY <2>2, <3>1, <3>3, <3>4
  <2>3. \/ msgs = <<Bloop!Transfer(Vault, u, x)>>
        \/ \E y, z \in Nat : x = y + z /\ msgs = <<Bloop!Transfer(Vault, u, y), Bloop!Transfer(Vault, u, z)>>
    BY <1>2, <1>3 DEF Pays
  <2>4. QED
    BY <2>1, <2>2, <2>3
<1>5. PICK rest :
        x = y + z /\ Head(msgs) = Bloop!Transfer(Vault, u, y) /\ Tail(msgs) = rest /\ Pays(rest, u, z) /\ << >> \o rest = rest
  BY <1>a
<1>6. PICK m : m = Bloop!Transfer(Vault, u, y)
  OBVIOUS
<1>7. Head(msgs) = m /\ m.kind = "Transfer" /\ m.from = Vault /\ m.to = u /\ m.amount = y
  BY <1>5, <1>6 DEF Bloop!Transfer
<1>8. Bloop!execute_transfer
  BY <1>7, Dispatch
<1>9. /\ bloop' = [bloop EXCEPT ![Vault] = @ - y, ![u] = @ + y]
      /\ total_staked' = total_staked /\ STAKE' = STAKE /\ reward_action' = reward_action
      /\ loop' = loop /\ principal' = principal /\ owed' = owed
  BY <1>7, <1>8 DEF Bloop!execute_transfer, Bloop!vaultVars, Bloop!stakingVars
<1>10. Bloop!Return(<< >>)
  BY <1>8 DEF Bloop!execute_transfer
<1>11. msgs' = rest /\ duration' = duration
  BY <1>5, <1>10, Returned
<1>12. PICK after : after = bloop'
  OBVIOUS
<1>13. /\ after \in [Bloop!Holders -> Nat] /\ after[Vault] = bloop[Vault] - y /\ after[u] = bloop[u] + y
       /\ \A h \in Bloop!Holders \ {Vault, u} : after[h] = bloop[h]
  <2>1. y <= bloop[Vault] /\ after = [bloop EXCEPT ![Vault] = @ - y, ![u] = @ + y]
    BY <1>3, <1>4, <1>5, <1>9, <1>12
  <2>2. QED
    BY <1>4, <2>1, BalancesMove
<1>14. Typed'
  BY <1>2, <1>9, <1>11, <1>12, <1>13 DEF Typed
<1>15. /\ d.bloop[Vault] = after[Vault] - z /\ d.bloop[u] = after[u] + z /\ z <= after[Vault]
       /\ \A h \in Bloop!Holders \ {Vault, u} : d.bloop[h] = after[h]
  BY <1>3, <1>4, <1>5, <1>13
<1>16. Settling(u, z, d)'
  <2>1. PICK w : w = Bloop!World'
    OBVIOUS
  <2>2. /\ w.total_staked = total_staked /\ w.STAKE = STAKE /\ w.reward_action = NoAction /\ w.bloop = after
        /\ w.loop = loop /\ w.principal = principal /\ w.owed = owed
    <3>1. total_staked' = total_staked /\ STAKE' = STAKE /\ reward_action' = NoAction /\ loop' = loop /\ principal' = principal /\ owed' = owed
      BY <1>3, <1>9
    <3>2. QED
      BY <1>12, <2>1, <3>1 DEF Bloop!World
  <2>3. SettlesTo(rest, w, u, z, d)
    BY <1>3, <1>5, <1>15, <2>2 DEF SettlesTo
  <2>4. QED
    BY <1>11, <2>1, <2>3 DEF Settling
<1>17. QED
  BY <1>1, <1>10, <1>11, <1>14, <1>16, SettlingAdvances

\* What is known when a transaction starts.
LEMMA StartKnown ==
    ASSUME BloopInv, Started
    PROVE  /\ Typed /\ Bloop!SystemConstants /\ WorldSound(committed) /\ reward_action = NoAction /\ Untouched
           /\ LoopAsIn(committed, principal, owed) /\ bloop = committed.bloop /\ loop = committed.loop
           /\ Head(msgs) = tx /\ Tail(msgs) = << >>
           /\ \A u \in Users : committed.STAKE[u].stake \in Nat
           /\ \A u : Moved(committed.bloop, bloop, u, 0, 0, 0)
<1>1. Typed /\ Bloop!SystemConstants /\ WorldSound(committed) /\ committed = Bloop!World
  BY DEF BloopInv, Typed, Started
<1>2. /\ total_staked = committed.total_staked /\ STAKE = committed.STAKE /\ principal = committed.principal
      /\ owed = committed.owed /\ bloop = committed.bloop /\ reward_action = committed.reward_action /\ loop = committed.loop
  BY <1>1 DEF Bloop!World
<1>3. reward_action = NoAction
  BY <1>1, <1>2 DEF WorldSound
<1>4. Head(msgs) = tx /\ Tail(msgs) = << >>
  BY TailOfTuple DEF Started
<1>5. \A u \in Users : committed.STAKE[u].stake \in Nat
  BY <1>1, RowTypes DEF WorldSound
<1>6. ASSUME NEW u PROVE Moved(committed.bloop, bloop, u, 0, 0, 0)
  BY <1>1, <1>2, NothingMoved
<1>7. QED
  BY <1>1, <1>2, <1>3, <1>4, <1>5, <1>6 DEF Untouched, LoopAsIn

\* A handler that leaves everything to the next messages.
LEMMA HarvestStarts ==
    ASSUME BloopInv, Started, Bloop!Execute, Bloop!Accepts(Head(msgs)), tx = Bloop!Harvest PROVE Advances
<1>1. /\ Typed /\ Bloop!SystemConstants /\ WorldSound(committed) /\ reward_action = NoAction /\ Untouched
      /\ LoopAsIn(committed, principal, owed) /\ bloop = committed.bloop
      /\ Head(msgs) = tx /\ Tail(msgs) = << >> /\ Moved(committed.bloop, bloop, Nobody, 0, 0, 0)
  BY StartKnown
<1>2. tx.kind = "Harvest" /\ tx # Bloop!NoTx
  BY DEF Bloop!Harvest, Bloop!NoTx
<1>3. Bloop!execute_harvest
  BY <1>1, <1>2, Dispatch
<1>4. PICK w : w = Bloop!Withdrawable
  OBVIOUS
<1>5. w > 0 /\ w = owed[QueryDuration]
  BY <1>1, <1>2, <1>4 DEF Bloop!Accepts, Bloop!Withdrawable
<1>6. PICK out : out = <<Bloop!LoopRestake(duration), Bloop!Mint(Converter, w), Bloop!Send(Converter, w, Bloop!DistributeHook(Nobody))>>
  OBVIOUS
<1>7. /\ Bloop!Return(out) /\ total_staked' = total_staked /\ STAKE' = STAKE /\ reward_action' = reward_action
      /\ bloop' = bloop /\ loop' = loop /\ principal' = principal /\ owed' = owed
  BY <1>3, <1>4, <1>6 DEF Bloop!execute_harvest, Bloop!vaultVars, Bloop!stakingVars
<1>8. msgs' = out /\ duration' = duration /\ out # << >>
  <2>1. msgs' = out \o << >> /\ duration' = duration
    BY <1>1, <1>7, Returned
  <2>2. out \o << >> = out /\ out # << >>
    BY <1>6, Joined
  <2>3. QED
    BY <2>1, <2>2
<1>9. ASSUME tx' = tx, committed' = committed PROVE Fetching'
  <2>0. PICK zero \in Nat : zero = 0 /\ -zero = 0
    OBVIOUS
  <2>1. Asks(Nobody, Nobody, zero, 0, 0)' /\ Untouched' /\ LoopAsIn(committed, principal, owed)'
    BY <1>1, <1>7, <1>9, <2>0 DEF Asks, AsksIn, Untouched, LoopAsIn
  <2>2. Moved(committed.bloop, bloop, Nobody, -zero, zero, 0)' /\ w = owed'[QueryDuration]
    BY <1>1, <1>5, <1>7, <1>9, <2>0
  <2>3. QED
    BY <1>5, <1>6, <1>8, <2>1, <2>2 DEF Fetching
<1>10. Typed'
  BY <1>1, <1>7, <1>8 DEF Typed
<1>11. QED
  BY <1>2, <1>7, <1>8, <1>9, <1>10, StageAdvances

LEMMA SyneStarts ==
    ASSUME BloopInv, Started, Bloop!Execute, Bloop!Accepts(Head(msgs)), tx = Bloop!WithdrawSyne PROVE Advances
<1>1. /\ Typed /\ Bloop!SystemConstants /\ WorldSound(committed) /\ reward_action = NoAction /\ Untouched
      /\ LoopAsIn(committed, principal, owed) /\ bloop = committed.bloop
      /\ Head(msgs) = tx /\ Tail(msgs) = << >> /\ Moved(committed.bloop, bloop, Nobody, 0, 0, 0)
  BY StartKnown
<1>2. tx.kind = "WithdrawSyneStakingRewards" /\ tx # Bloop!NoTx
  BY DEF Bloop!WithdrawSyne, Bloop!NoTx
<1>3. Bloop!execute_withdraw_syne_staking_rewards
  BY <1>1, <1>2, Dispatch
<1>4. PICK w : w = owed[QueryDuration]
  OBVIOUS
<1>5. w > 0
  BY <1>1, <1>2, <1>4 DEF Bloop!Accepts, Bloop!Withdrawable
<1>6. /\ Bloop!Return(<<Bloop!Harvest>>) /\ total_staked' = total_staked /\ STAKE' = STAKE
      /\ reward_action' = SyneStakingRewardWithdraw
      /\ bloop' = bloop /\ loop' = loop /\ principal' = principal /\ owed' = owed
  BY <1>3, SameActions DEF Bloop!execute_withdraw_syne_staking_rewards, Bloop!stakingVars
<1>7. msgs' = <<Bloop!Harvest>> /\ duration' = duration /\ msgs' # << >>
  <2>1. PICK out : out = <<Bloop!Harvest>>
    OBVIOUS
  <2>2. msgs' = out \o << >> /\ duration' = duration
    BY <1>1, <1>6, <2>1, Returned
  <2>3. out \o << >> = out /\ out # << >>
    BY <2>1, Joined
  <2>4. QED
    BY <2>1, <2>2, <2>3
<1>8. ASSUME tx' = tx, committed' = committed PROVE Fetching'
  <2>0. PICK zero \in Nat : zero = 0 /\ -zero = 0
    OBVIOUS
  <2>1. Asks(Nobody, Nobody, zero, 0, 0)' /\ Untouched' /\ LoopAsIn(committed, principal, owed)'
    BY <1>1, <1>6, <1>8, <2>0 DEF Asks, AsksIn, Untouched, LoopAsIn
  <2>2. Moved(committed.bloop, bloop, Nobody, -zero, zero, 0)' /\ w = owed'[QueryDuration]
    BY <1>1, <1>4, <1>6, <1>8, <2>0
  <2>3. QED
    BY <1>5, <1>7, <2>1, <2>2 DEF Fetching
<1>9. Typed'
  BY <1>1, <1>6, <1>7 DEF Typed
<1>10. QED
  BY <1>2, <1>6, <1>7, <1>8, <1>9, StageAdvances

LEMMA WithdrawStarts ==
    ASSUME BloopInv, Started, Bloop!Execute, Bloop!Accepts(Head(msgs)), NEW u \in Users, tx = Bloop!WithdrawRewards(u)
    PROVE  Advances
<1>1. /\ Typed /\ WorldSound(committed) /\ reward_action = NoAction /\ Untouched
      /\ LoopAsIn(committed, principal, owed) /\ Head(msgs) = tx /\ Tail(msgs) = << >> 
      /\ committed.STAKE[u].stake \in Nat /\ Moved(committed.bloop, bloop, u, 0, 0, 0)
  BY StartKnown
<1>2. tx.kind = "WithdrawRewards" /\ tx # Bloop!NoTx /\ tx.address = u
  BY DEF Bloop!WithdrawRewards, Bloop!NoTx
<1>3. Bloop!execute_withdraw_rewards
  BY <1>1, <1>2, Dispatch
<1>4. Bloop!Perform(Reward(u)) /\ bloop' = bloop /\ loop' = loop /\ principal' = principal /\ owed' = owed
  BY <1>1, <1>2, <1>3, SameActions DEF Bloop!execute_withdraw_rewards, Bloop!stakingVars
<1>5. PICK zero \in Nat : zero = 0 /\ -zero = 0
  OBVIOUS
<1>6. /\ IsActOf(Reward(u), u, zero, zero) /\ Moved(committed.bloop, bloop, u, -zero, zero, 0)
      /\ Requested(tx, committed, u, zero, zero, committed.owed[QueryDuration], 0)
      /\ AsksIn(tx, committed, Reward(u), Nobody, u, zero, zero, 0) /\ zero <= committed.STAKE[u].stake
  BY <1>1, <1>5 DEF IsActOf, Requested, AsksIn
<1>7. QED
  BY <1>1, <1>2, <1>4, <1>6, PerformAdvances

LEMMA UnstakeStarts ==
    ASSUME BloopInv, Started, Bloop!Execute, Bloop!Accepts(Head(msgs)), NEW u \in Users, NEW a \in Nat, tx = Bloop!UnstakeMsg(u, a)
    PROVE  Advances
<1>1. /\ Typed /\ WorldSound(committed) /\ reward_action = NoAction /\ Untouched
      /\ LoopAsIn(committed, principal, owed) /\ Head(msgs) = tx /\ Tail(msgs) = << >> 
      /\ committed.STAKE[u].stake \in Nat /\ Moved(committed.bloop, bloop, u, 0, 0, 0)
  BY StartKnown
<1>2. tx.kind = "Unstake" /\ tx # Bloop!NoTx /\ tx.from = u /\ tx.amount = a
  BY DEF Bloop!UnstakeMsg, Bloop!NoTx
<1>3. Bloop!execute_unstake
  BY <1>1, <1>2, Dispatch
<1>4. Bloop!Perform(Unstake(u, a)) /\ bloop' = bloop /\ loop' = loop /\ principal' = principal /\ owed' = owed
  BY <1>1, <1>2, <1>3, SameActions DEF Bloop!execute_unstake, Bloop!stakingVars
<1>5. a > 0 /\ a <= committed.STAKE[u].stake
  BY <1>1, <1>2 DEF Bloop!Accepts, Bloop!CanUnstake, Untouched
<1>6. PICK zero \in Nat : zero = 0 /\ -zero = 0
  OBVIOUS
<1>7. /\ IsActOf(Unstake(u, a), u, zero, a) /\ Moved(committed.bloop, bloop, u, -zero, zero, 0)
      /\ Requested(tx, committed, u, zero, a, committed.owed[QueryDuration], 0)
      /\ AsksIn(tx, committed, Unstake(u, a), Nobody, u, zero, a, 0)
  BY <1>1, <1>5, <1>6 DEF IsActOf, Requested, AsksIn
<1>8. QED
  BY <1>1, <1>2, <1>4, <1>5, <1>7, PerformAdvances

LEMMA DistributeStarts ==
    ASSUME BloopInv, Started, Bloop!Execute, Bloop!Accepts(Head(msgs)), NEW u \in Users, tx = Bloop!DistributeRewards(u)
    PROVE  Advances
<1>1. /\ Typed /\ WorldSound(committed) /\ reward_action = NoAction /\ Untouched
      /\ LoopAsIn(committed, principal, owed) /\ Head(msgs) = tx /\ Tail(msgs) = << >> 
      /\ committed.STAKE[u].stake \in Nat /\ Moved(committed.bloop, bloop, u, 0, 0, 0)
  BY StartKnown
<1>2. tx.kind = "DistributeRewards" /\ tx # Bloop!NoTx /\ tx.address = u
  BY DEF Bloop!DistributeRewards, Bloop!NoTx
<1>3. Bloop!execute_distribute_user_rewards
  BY <1>1, <1>2, Dispatch
<1>4. Carries(Reward(u), Fetched(committed, 0))
  BY <1>1, <1>2, <1>3, SameActions
     DEF Bloop!execute_distribute_user_rewards, Carries, Bloop!stakingVars, Fetched, Untouched
<1>5. PICK zero \in Nat : zero = 0 /\ zero - zero = 0 /\ zero + zero = 0
  OBVIOUS
<1>6. /\ IsActOf(Reward(u), u, zero, zero) /\ Moved(committed.bloop, bloop, u, zero - zero, zero + zero, 0)
      /\ Requested(tx, committed, u, zero, zero, zero, zero) /\ zero <= committed.STAKE[u].stake
      /\ Carries(Reward(u), Fetched(committed, zero))
  BY <1>1, <1>4, <1>5 DEF IsActOf, Requested
<1>7. QED
  BY <1>1, <1>2, <1>5, <1>6, ServeAdvances

LEMMA ConvertStarts ==
    ASSUME BloopInv, Started, Bloop!Execute, Bloop!Accepts(Head(msgs)), NEW u \in Users, NEW a \in Nat, tx = Bloop!Convert(u, a)
    PROVE  Advances
<1>1. /\ Typed /\ WorldSound(committed) /\ reward_action = NoAction /\ Untouched /\ loop = committed.loop
      /\ LoopAsIn(committed, principal, owed) /\ Head(msgs) = tx /\ Tail(msgs) = << >> 
      /\ Moved(committed.bloop, bloop, u, 0, 0, 0)
  BY StartKnown
<1>2. tx.kind = "Convert" /\ tx # Bloop!NoTx /\ tx.from = u /\ tx.amount = a
  BY DEF Bloop!Convert, Bloop!NoTx
<1>3. Bloop!execute_convert_token
  BY <1>1, <1>2, Dispatch
<1>4. a > 0 /\ a <= loop[u]
  BY <1>1, <1>2 DEF Bloop!Accepts
<1>5. PICK w : w = Bloop!Withdrawable
  OBVIOUS
<1>6. w = committed.owed[QueryDuration]
  BY <1>1, <1>5 DEF Bloop!Withdrawable, LoopAsIn
<1>7. PICK stake, mint, dist, mintr, sendr :
        /\ stake = Bloop!LoopStake(a, duration) /\ mint = Bloop!Mint(u, a) /\ dist = Bloop!DistributeRewards(u)
        /\ mintr = Bloop!Mint(Converter, w) /\ sendr = Bloop!Send(Converter, w, Bloop!DistributeHook(u))
  OBVIOUS
<1>8. PICK out : out = <<stake, mint>> \o IF w > 0 THEN <<mintr, sendr>> ELSE <<dist>>
  OBVIOUS
<1>9. Bloop!Return(out)
  BY <1>1, <1>2, <1>3, <1>5, <1>7, <1>8 DEF Bloop!execute_convert_token
<1>10. /\ loop' = [loop EXCEPT ![u] = @ - a]
       /\ total_staked' = total_staked /\ STAKE' = STAKE /\ reward_action' = reward_action
       /\ bloop' = bloop /\ principal' = principal /\ owed' = owed
  BY <1>1, <1>2, <1>3 DEF Bloop!execute_convert_token, Bloop!vaultVars, Bloop!stakingVars
<1>11. (w > 0 /\ out = <<stake, mint, mintr, sendr>>) \/ out = <<stake, mint, dist>>
  BY <1>8, JoinedPairs
<1>12. out # << >> /\ out \o << >> = out
  <2>1. CASE out = <<stake, mint, mintr, sendr>>
    <3>1. out \in Seq({stake, mint, mintr, sendr}) /\ out # << >>
      BY <2>1
    <3>2. QED
      BY <3>1, ConcatEmptySeq
  <2>2. CASE out = <<stake, mint, dist>>
    BY <2>2, Joined
  <2>3. QED
    BY <1>11, <2>1, <2>2
<1>13. msgs' = out /\ duration' = duration
  BY <1>1, <1>9, <1>12, Returned
<1>14. loop' \in [Users -> Nat]
  <2>1. loop \in [Users -> Nat] /\ loop[u] - a \in Nat
    BY <1>1, <1>4 DEF Typed
  <2>2. QED
    BY <1>10, <2>1
<1>15. Typed'
  BY <1>1, <1>10, <1>13, <1>14 DEF Typed
<1>16. ASSUME tx' = tx, committed' = committed PROVE Converting'
  <2>1. /\ tx' = Bloop!Convert(u, a) /\ reward_action' = NoAction /\ Untouched' /\ w = committed'.owed[QueryDuration]
        /\ Moved(committed'.bloop, bloop', u, 0, 0, 0)
    BY <1>1, <1>6, <1>10, <1>16 DEF Untouched
  <2>2. Converts(u, a, w)'
    BY <1>7, <1>11, <1>13, <2>1 DEF Converts
  <2>3. QED
    BY <1>4, <2>2 DEF Converting
<1>17. QED
  BY <1>2, <1>9, <1>12, <1>13, <1>15, <1>16, StageAdvances

LEMMA SendStarts ==
    ASSUME BloopInv, Started, Bloop!Execute, Bloop!Accepts(Head(msgs)), NEW u \in Users, NEW a \in Nat, NEW hook \in Hooks,
           tx = Bloop!Send(u, a, hook)
    PROVE  Advances
<1>1. /\ Typed /\ Bloop!SystemConstants /\ WorldSound(committed) /\ reward_action = NoAction /\ Untouched /\ bloop = committed.bloop
      /\ LoopAsIn(committed, principal, owed) /\ Head(msgs) = tx /\ Tail(msgs) = << >> 
  BY StartKnown
<1>2. tx.kind = "Send" /\ tx # Bloop!NoTx /\ tx.from = u /\ tx.amount = a /\ tx.hook = hook
  BY DEF Bloop!Send, Bloop!NoTx
<1>3. Bloop!execute_send
  BY <1>1, <1>2, Dispatch
<1>4. a <= committed.bloop[u]
  BY <1>1, <1>2 DEF Bloop!Accepts, Bloop!CanSpend
<1>5. PICK recv : recv = Bloop!Receive(u, a, hook)
  OBVIOUS
<1>6. Bloop!Return(<<recv>>)
  BY <1>1, <1>2, <1>3, <1>5 DEF Bloop!execute_send
<1>7. /\ bloop' = [bloop EXCEPT ![u] = @ - a, ![Vault] = @ + a]
      /\ total_staked' = total_staked /\ STAKE' = STAKE /\ reward_action' = reward_action
      /\ loop' = loop /\ principal' = principal /\ owed' = owed
  BY <1>1, <1>2, <1>3 DEF Bloop!execute_send, Bloop!vaultVars, Bloop!stakingVars
<1>8. msgs' = <<recv>> /\ duration' = duration /\ msgs' # << >>
  <2>1. msgs' = <<recv>> \o << >> /\ duration' = duration
    BY <1>1, <1>6, Returned
  <2>2. QED
    BY <2>1, Joined
<1>9. PICK after : after = bloop'
  OBVIOUS
<1>10. Moved(committed.bloop, after, u, -a, a, 0)
  <2>1. after = [committed.bloop EXCEPT ![u] = @ - a, ![Vault] = @ + a]
    BY <1>1, <1>7, <1>9
  <2>2. QED
    BY <1>1, <1>4, <2>1, UserSends
<1>11. Typed'
  BY <1>1, <1>7, <1>8, <1>9, <1>10 DEF Typed, Moved
<1>12. ASSUME tx' = tx, committed' = committed PROVE Handed'
  <2>1. /\ tx' = Bloop!Send(u, a, hook) /\ reward_action' = NoAction /\ Untouched' /\ LoopAsIn(committed', principal', owed')
        /\ Moved(committed'.bloop, bloop', u, -a, a, 0)
    BY <1>1, <1>7, <1>9, <1>10, <1>12 DEF Untouched, LoopAsIn
  <2>2. QED
    BY <1>5, <1>8, <2>1 DEF Handed
<1>13. QED
  BY <1>2, <1>6, <1>8, <1>11, <1>12, StageAdvances

LEMMA MintStarts ==
    ASSUME BloopInv, Started, Bloop!Execute, Bloop!Accepts(Head(msgs)), NEW u \in Users, NEW v \in Users, NEW a \in Nat,
           tx = Bloop!ConverterMint(u, v, a)
    PROVE  Advances
<1>1. /\ Typed /\ WorldSound(committed) /\ reward_action = NoAction /\ Untouched
      /\ LoopAsIn(committed, principal, owed) /\ Head(msgs) = tx /\ Tail(msgs) = << >> 
      /\ Moved(committed.bloop, bloop, v, 0, 0, 0)
  BY StartKnown
<1>2. tx.kind = "ConverterMint" /\ tx # Bloop!NoTx /\ tx.to = v /\ tx.amount = a
  BY DEF Bloop!ConverterMint, Bloop!NoTx
<1>3. Bloop!execute_mint
  BY <1>1, <1>2, Dispatch
<1>4. PICK mint : mint = Bloop!Mint(v, a)
  OBVIOUS
<1>5. /\ Bloop!Return(<<mint>>)
      /\ total_staked' = total_staked /\ STAKE' = STAKE /\ reward_action' = reward_action
      /\ bloop' = bloop /\ loop' = loop /\ principal' = principal /\ owed' = owed
  BY <1>1, <1>2, <1>3, <1>4 DEF Bloop!execute_mint, Bloop!vaultVars, Bloop!stakingVars
<1>6. msgs' = <<mint>> /\ duration' = duration /\ msgs' # << >>
  <2>1. msgs' = <<mint>> \o << >> /\ duration' = duration
    BY <1>1, <1>5, Returned
  <2>2. QED
    BY <2>1, Joined
<1>7. Typed'
  BY <1>1, <1>5, <1>6 DEF Typed
<1>8. ASSUME tx' = tx, committed' = committed PROVE Minting'
  <2>1. /\ tx' = Bloop!ConverterMint(u, v, a) /\ reward_action' = NoAction /\ Untouched' /\ LoopAsIn(committed', principal', owed')
        /\ Moved(committed'.bloop, bloop', v, 0, 0, 0)
    BY <1>1, <1>5, <1>8 DEF Untouched, LoopAsIn
  <2>2. QED
    BY <1>4, <1>6, <2>1 DEF Minting
<1>9. QED
  BY <1>2, <1>5, <1>6, <1>7, <1>8, StageAdvances

LEMMA StartedAdvances ==
    ASSUME BloopInv, Started, Bloop!Execute, Bloop!Accepts(Head(msgs)) PROVE Advances
<1>1. IsRequest(tx)
  BY DEF Started
<1>2. QED
  BY <1>1, HarvestStarts, SyneStarts, WithdrawStarts, UnstakeStarts, DistributeStarts, ConvertStarts, SendStarts, MintStarts
     DEF IsRequest

\* Every step of a running transaction leads to the next stage or to its outcome.
LEMMA TransactionAdvances ==
    ASSUME BloopInv, tx # Bloop!NoTx, Bloop!Execute, Bloop!Accepts(Head(msgs)) PROVE Advances
<1>1. Started \/ Handed \/ Fetching \/ Arriving \/ Converting \/ Minting \/ Paying
  BY DEF BloopInv, Stage, Resting
<1>2. QED
  BY <1>1, StartedAdvances, HandedAdvances, FetchingAdvances, ArrivingAdvances, ConvertingAdvances, MintingAdvances, PayingAdvances

\* A transaction that fails leaves nothing behind.
LEMMA AbortRests ==
    ASSUME BloopInv, Bloop!Abort
    PROVE  Resting' /\ committed' = committed /\ duration' = duration /\ Typed' /\ BloopInv'
<1>1. /\ total_staked' = committed.total_staked /\ STAKE' = committed.STAKE
      /\ reward_action' = committed.reward_action /\ bloop' = committed.bloop /\ loop' = committed.loop
      /\ principal' = committed.principal /\ owed' = committed.owed /\ msgs' = << >> /\ tx' = Bloop!NoTx
      /\ committed' = committed /\ duration' = duration
  BY DEF Bloop!Abort, Bloop!configVars
<1>2. /\ committed = [total_staked |-> committed.total_staked, STAKE |-> committed.STAKE, reward_action |-> NoAction,
                      bloop |-> committed.bloop, loop |-> committed.loop, principal |-> committed.principal, owed |-> committed.owed]
      /\ committed.bloop \in [Bloop!Holders -> Nat] /\ committed.loop \in [Users -> Nat]
      /\ committed.principal \in [Durations -> Nat] /\ committed.owed \in [Durations -> Nat]
  BY DEF BloopInv, WorldSound
<1>3. committed.reward_action = NoAction
  BY <1>2
<1>4. Bloop!World' = committed
  BY <1>1, <1>2, <1>3 DEF Bloop!World
<1>5. Resting'
  BY <1>1, <1>4 DEF Resting
<1>6. Typed'
  BY <1>1, <1>2 DEF BloopInv, Typed
<1>7. WorldSound(committed')
  BY <1>1 DEF BloopInv
<1>8. QED
  BY <1>1, <1>5, <1>6, <1>7 DEF BloopInv, Stage

-----------------------------------------------------------------------------
(* Between transactions *)

LEMMA IdleRests == ASSUME BloopInv, msgs = << >> PROVE Resting
<1>1. ~Started /\ ~Handed /\ ~Paying /\ ~Minting
  BY DEF Started, Handed, Paying, Minting
<1>2. ~Fetching /\ ~Arriving
  BY DEF Fetching, Arriving, Arrives
<1>3. ~Converting
  BY DEF Converting, Converts
<1>4. QED
  BY <1>1, <1>2, <1>3 DEF BloopInv, Stage

\* What a resting system holds.
LEMMA RestingKnown ==
    ASSUME BloopInv, Resting
    PROVE  /\ Typed /\ WorldSound(committed) /\ VaultInv(total_staked, STAKE, bloop[Vault]) /\ reward_action = NoAction
           /\ bloop[Converter] = 0 /\ committed = Bloop!World
<1>1. Typed /\ WorldSound(committed) /\ committed = Bloop!World
  BY DEF BloopInv, Resting
<1>2. /\ committed.total_staked = total_staked /\ committed.STAKE = STAKE /\ committed.bloop = bloop
      /\ committed.reward_action = reward_action
  BY <1>1 DEF Bloop!World
<1>3. committed.reward_action = NoAction
  BY <1>1 DEF WorldSound
<1>4. QED
  BY <1>1, <1>2, <1>3 DEF WorldSound

LEMMA RequestsKnown == ASSUME Bloop!SystemConstants, NEW m \in Bloop!Requests PROVE IsRequest(m) /\ m # Bloop!NoTx
<1>1. Amounts \subseteq Nat /\ AdminMints \subseteq Nat /\ DonationAddresses \subseteq Users \cup {Nobody}
  BY DEF Bloop!SystemConstants
<1>2. CASE m \in {Bloop!WithdrawRewards(u) : u \in Users} \cup {Bloop!DistributeRewards(u) : u \in Users} \cup {Bloop!Harvest, Bloop!WithdrawSyne}
  <2>1. IsRequest(m)
    BY <1>2 DEF IsRequest
  <2>2. m # Bloop!NoTx
    BY <1>2 DEF Bloop!NoTx, Bloop!WithdrawRewards, Bloop!DistributeRewards, Bloop!Harvest, Bloop!WithdrawSyne
  <2>3. QED
    BY <2>1, <2>2
<1>3. CASE m \in {Bloop!UnstakeMsg(u, a) : u \in Users, a \in Amounts} \cup {Bloop!Convert(u, a) : u \in Users, a \in Amounts}
  <2>1. IsRequest(m)
    BY <1>1, <1>3 DEF IsRequest
  <2>2. m # Bloop!NoTx
    BY <1>3 DEF Bloop!NoTx, Bloop!UnstakeMsg, Bloop!Convert
  <2>3. QED
    BY <2>1, <2>2
<1>4. ASSUME NEW u \in Users, NEW a \in Amounts,
             NEW hook \in {Bloop!StakeHook} \cup {Bloop!DistributeHook(v) : v \in {w \in DonationAddresses : total_staked.power < MaxPower}},
             m = Bloop!Send(u, a, hook)
      PROVE  IsRequest(m) /\ m # Bloop!NoTx
  <2>1. hook \in Hooks
    BY <1>1, <1>4 DEF Hooks
  <2>2. IsRequest(m)
    BY <1>1, <1>4, <2>1 DEF IsRequest
  <2>3. m # Bloop!NoTx
    BY <1>4 DEF Bloop!NoTx, Bloop!Send
  <2>4. QED
    BY <2>2, <2>3
<1>5. ASSUME NEW u \in Users, NEW v \in Users, NEW a \in AdminMints, m = Bloop!ConverterMint(u, v, a)
      PROVE  IsRequest(m) /\ m # Bloop!NoTx
  <2>1. IsRequest(m)
    BY <1>1, <1>5 DEF IsRequest
  <2>2. m # Bloop!NoTx
    BY <1>5 DEF Bloop!NoTx, Bloop!ConverterMint
  <2>3. QED
    BY <2>1, <2>2
<1>6. QED
  BY <1>2, <1>3, <1>4, <1>5 DEF Bloop!Requests

LEMMA BeginStarts ==
    ASSUME BloopInv, Bloop!Begin
    PROVE  BloopInv' /\ committed' = committed /\ tx = Bloop!NoTx
<1>1. Resting /\ Typed /\ WorldSound(committed)
  BY IdleRests DEF Bloop!Begin, Bloop!Idle, BloopInv
<1>2. PICK m \in Bloop!Requests : msgs' = <<m>> /\ tx' = m
  BY DEF Bloop!Begin
<1>3. /\ total_staked' = total_staked /\ STAKE' = STAKE /\ reward_action' = reward_action /\ bloop' = bloop
      /\ loop' = loop /\ principal' = principal /\ owed' = owed /\ duration' = duration /\ committed' = committed
  BY DEF Bloop!Begin, Bloop!vaultVars, Bloop!stakingVars, Bloop!configVars
<1>4. IsRequest(m) /\ m # Bloop!NoTx
  BY <1>1, RequestsKnown DEF Typed
<1>5. Bloop!World' = Bloop!World
  BY <1>3 DEF Bloop!World
<1>6. Started'
  BY <1>1, <1>2, <1>3, <1>4, <1>5 DEF Started, Resting
<1>7. Typed'
  BY <1>1, <1>3 DEF Typed
<1>8. QED
  BY <1>1, <1>2, <1>3, <1>4, <1>6, <1>7 DEF BloopInv, Stage, Resting

LEMMA AccrueRests ==
    ASSUME BloopInv, NEW d \in Durations, NEW r \in AccruedRewards, Bloop!Accrue(d, r)
    PROVE  /\ BloopInv' /\ Resting /\ committed'.STAKE = committed.STAKE /\ committed'.bloop = committed.bloop
<1>1. Resting
  BY IdleRests DEF Bloop!Accrue, Bloop!Idle
<1>2. /\ Typed /\ WorldSound(committed) /\ VaultInv(total_staked, STAKE, bloop[Vault]) /\ reward_action = NoAction
      /\ bloop[Converter] = 0 /\ committed = Bloop!World /\ msgs = << >> /\ tx = Bloop!NoTx
  BY <1>1, RestingKnown DEF Resting
<1>3. /\ owed' = [owed EXCEPT ![d] = @ + r] /\ committed' = Bloop!World'
      /\ total_staked' = total_staked /\ STAKE' = STAKE /\ reward_action' = reward_action /\ bloop' = bloop
      /\ loop' = loop /\ principal' = principal /\ duration' = duration /\ msgs' = msgs /\ tx' = tx
  BY DEF Bloop!Accrue, Bloop!vaultVars, Bloop!configVars
<1>4. owed' \in [Durations -> Nat]
  <2>1. r \in Nat
    BY <1>2 DEF Typed, Bloop!SystemConstants
  <2>2. QED
    BY <1>2, <1>3, <2>1 DEF Typed
<1>5. Typed'
  BY <1>2, <1>3, <1>4 DEF Typed
<1>6. PICK w : w = Bloop!World'
  OBVIOUS
<1>7. /\ w = [total_staked |-> w.total_staked, STAKE |-> w.STAKE, reward_action |-> NoAction,
              bloop |-> w.bloop, loop |-> w.loop, principal |-> w.principal, owed |-> w.owed]
      /\ w.total_staked = total_staked /\ w.STAKE = STAKE /\ w.bloop = bloop /\ w.loop = loop
      /\ w.principal = principal /\ w.owed = owed'
  BY <1>2, <1>3, <1>6 DEF Bloop!World
<1>8. WorldSound(w)
  BY <1>2, <1>4, <1>7 DEF WorldSound, Typed
<1>9. Resting' /\ WorldSound(committed')
  BY <1>2, <1>3, <1>6, <1>8 DEF Resting
<1>10. committed.STAKE = STAKE /\ committed.bloop = bloop
  BY <1>2 DEF Bloop!World
<1>11. QED
  BY <1>1, <1>3, <1>5, <1>6, <1>7, <1>9, <1>10 DEF BloopInv, Stage

\* The configuration of the converter changes, or nothing.
LEMMA ConfigRests ==
    ASSUME BloopInv,
           \/ \E s \in Users, d \in NewDurations : Bloop!execute_update_config(s, d)
           \/ \E s \in Users, new \in NewAdmins : Bloop!execute_update_admin(s, new)
    PROVE  BloopInv' /\ Resting /\ committed' = committed
<1>1. Resting
  BY IdleRests DEF Bloop!execute_update_config, Bloop!execute_update_admin, Bloop!Idle
<1>2. /\ total_staked' = total_staked /\ STAKE' = STAKE /\ reward_action' = reward_action /\ bloop' = bloop
      /\ loop' = loop /\ principal' = principal /\ owed' = owed /\ msgs' = msgs /\ tx' = tx /\ committed' = committed
      /\ duration' = duration \/ duration' \in NewDurations
  BY DEF Bloop!execute_update_config, Bloop!execute_update_admin, Bloop!vaultVars, Bloop!stakingVars
<1>3. Typed'
  BY <1>2 DEF BloopInv, Typed, Bloop!SystemConstants
<1>4. Bloop!World' = Bloop!World
  BY <1>2 DEF Bloop!World
<1>5. Resting' /\ WorldSound(committed')
  BY <1>1, <1>2, <1>4 DEF Resting, BloopInv
<1>6. QED
  BY <1>1, <1>2, <1>3, <1>5 DEF BloopInv, Stage

LEMMA BloopIdle ==
    ASSUME BloopInv, UNCHANGED Bloop!vars
    PROVE  BloopInv' /\ committed' = committed
<1>1. /\ total_staked' = total_staked /\ STAKE' = STAKE /\ reward_action' = reward_action /\ bloop' = bloop
      /\ loop' = loop /\ principal' = principal /\ owed' = owed /\ msgs' = msgs /\ tx' = tx /\ committed' = committed
      /\ duration' = duration
  BY DEF Bloop!vars, Bloop!vaultVars, Bloop!stakingVars, Bloop!configVars
<1>2. Typed' /\ WorldSound(committed')
  BY <1>1 DEF BloopInv, Typed
<1>3. Bloop!World' = Bloop!World
  BY <1>1 DEF Bloop!World
<1>4. (Resting => Resting') /\ (Started => Started') /\ (Handed => Handed') /\ (Minting => Minting')
  <2>1. Resting => Resting'
    BY <1>1, <1>3 DEF Resting
  <2>2. Started => Started'
    BY <1>1, <1>3 DEF Started
  <2>3. Handed => Handed'
    BY <1>1 DEF Handed, Untouched
  <2>4. Minting => Minting'
    BY <1>1 DEF Minting, Untouched
  <2>5. QED
    BY <2>1, <2>2, <2>3, <2>4
<1>5. (Fetching => Fetching') /\ (Arriving => Arriving') /\ (Converting => Converting') /\ (Paying => Paying')
  <2>1. Fetching => Fetching'
    BY <1>1 DEF Fetching, Asks, Untouched
  <2>2. Arriving => Arriving'
    BY <1>1 DEF Arriving, Arrives, Asks, Untouched
  <2>3. Converting => Converting'
    BY <1>1 DEF Converting, Converts, Untouched
  <2>4. Paying => Paying'
    BY <1>1, <1>3 DEF Paying, Settling
  <2>5. QED
    BY <2>1, <2>2, <2>3, <2>4
<1>6. QED
  BY <1>1, <1>2, <1>4, <1>5 DEF BloopInv, Stage

\* A step between transactions, a step of one, or one that fails.
LEMMA BloopStepKinds ==
    ASSUME BloopInv, [Bloop!Next]_(Bloop!vars)
    PROVE  \/ tx # Bloop!NoTx /\ msgs # << >> /\ Bloop!Accepts(Head(msgs)) /\ Advances
           \/ Bloop!Abort /\ BloopInv' /\ committed' = committed
           \/ /\ BloopInv' /\ (tx = Bloop!NoTx \/ committed' = committed) /\ (msgs # << >> => UNCHANGED Bloop!vars)
              /\ committed'.STAKE = committed.STAKE /\ committed'.bloop = committed.bloop
<1>1. CASE UNCHANGED Bloop!vars
  BY <1>1, BloopIdle
<1>2. CASE Bloop!Begin
  <2>1. msgs = << >>
    BY <1>2 DEF Bloop!Begin, Bloop!Idle
  <2>2. QED
    BY <1>2, <2>1, BeginStarts
<1>3. CASE \E d \in Durations, r \in AccruedRewards : Bloop!Accrue(d, r)
  BY <1>3, AccrueRests DEF Resting
<1>4. CASE \/ \E s \in Users, d \in NewDurations : Bloop!execute_update_config(s, d)
           \/ \E s \in Users, new \in NewAdmins : Bloop!execute_update_admin(s, new)
  BY <1>4, ConfigRests DEF Resting
<1>5. CASE Bloop!Abort
  BY <1>5, AbortRests
<1>6. CASE Bloop!Execute /\ ~Bloop!Abort
  <2>1. msgs # << >> /\ Bloop!Accepts(Head(msgs))
    BY <1>6 DEF Bloop!Execute, Bloop!Executing, Bloop!execute_transfer, Bloop!execute_token_mint, Bloop!execute_send,
                Bloop!ExecuteLoopStake, Bloop!ExecuteLoopRestake, Bloop!execute_stake, Bloop!execute_withdraw_rewards,
                Bloop!execute_unstake, Bloop!execute_withdraw_syne_staking_rewards, Bloop!execute_distribute_user_rewards,
                Bloop!execute_distribute_rewards, Bloop!execute_convert_token, Bloop!execute_harvest, Bloop!execute_mint
  <2>2. tx # Bloop!NoTx
    BY <2>1 DEF BloopInv, Stage, Resting
  <2>3. QED
    BY <1>6, <2>1, <2>2, TransactionAdvances
<1>7. QED
  BY <1>1, <1>2, <1>3, <1>4, <1>5, <1>6 DEF Bloop!Next

LEMMA BloopInit == Bloop!SystemConstants /\ Bloop!Init => BloopInv
<1>1. SUFFICES ASSUME Bloop!SystemConstants, Bloop!Init PROVE BloopInv
  OBVIOUS
<1>2. /\ total_staked = NoTokenInfo /\ STAKE = [u \in Users |-> NoStakingInfo] /\ reward_action = NoAction
      /\ bloop = [h \in Bloop!Holders |-> 0] /\ loop = InitLoop /\ principal = [d \in Durations |-> 0]
      /\ owed = [d \in Durations |-> 0] /\ duration = QueryDuration /\ msgs = << >> /\ tx = Bloop!NoTx
      /\ committed = Bloop!World
  BY <1>1 DEF Bloop!Init, Bloop!NoTokenInfo, NoTokenInfo, Bloop!NoStakingInfo, NoStakingInfo, Bloop!NoAction, NoAction
<1>3. Typed
  BY <1>1, <1>2, ConstantsKnown DEF Typed, Bloop!SystemConstants
<1>4. Vault \in Bloop!Holders /\ Converter \in Bloop!Holders
  BY <1>1, ConstantsKnown
<1>5. VaultInv(total_staked, STAKE, bloop[Vault])
  <2>1. /\ total_staked \in TokenInfo /\ total_staked.staked = 0 /\ total_staked.pending_treasury_rewards = 0
        /\ total_staked.pending_syne_staking_rewards = 0 /\ total_staked.power = 0
    BY <1>2 DEF TokenInfo, NoTokenInfo
  <2>2. /\ STAKE \in [Users -> StakingInfo] /\ \A u \in Users : STAKE[u].stake = 0 /\ STAKE[u].power_diff = 0
    BY <1>2 DEF StakingInfo, NoStakingInfo
  <2>3. \A u \in Users : StakesOf(STAKE)[u] = 0 /\ EarnedOf(total_staked, STAKE)[u] = 0
    BY <2>1, <2>2 DEF StakesOf, EarnedOf
  <2>4. SumOver(StakesOf(STAKE), Users) = 0 /\ SumOver(EarnedOf(total_staked, STAKE), Users) = 0
    BY <2>3, VaultUsersAssumption, SumZero
  <2>5. bloop[Vault] = 0 /\ FixedDebt(total_staked) = 0 /\ Unit \in Nat
    BY <1>2, <1>4, <2>1, FeesAssumption DEF FixedDebt
  <2>6. FixedDebt(total_staked) * Unit + SumOver(EarnedOf(total_staked, STAKE), Users) <= bloop[Vault] * Unit
    BY <2>4, <2>5
  <2>7. QED
    BY <2>1, <2>2, <2>4, <2>5, <2>6 DEF VaultInv
<1>6. WorldSound(committed)
  <2>1. PICK w : w = committed
    OBVIOUS
  <2>2. /\ w = [total_staked |-> w.total_staked, STAKE |-> w.STAKE, reward_action |-> NoAction,
                bloop |-> w.bloop, loop |-> w.loop, principal |-> w.principal, owed |-> w.owed]
        /\ w.total_staked = total_staked /\ w.STAKE = STAKE /\ w.bloop = bloop /\ w.loop = loop
        /\ w.principal = principal /\ w.owed = owed
    BY <1>2, <2>1 DEF Bloop!World
  <2>3. bloop[Converter] = 0
    BY <1>2, <1>4
  <2>4. WorldSound(w)
    BY <1>3, <1>5, <2>2, <2>3 DEF WorldSound, Typed
  <2>5. QED
    BY <2>1, <2>4
<1>7. QED
  BY <1>2, <1>3, <1>6 DEF BloopInv, Stage, Resting

LEMMA BloopInvHolds == Bloop!SystemConstants /\ Bloop!Spec => []BloopInv
<1>1. BloopInv /\ [Bloop!Next]_(Bloop!vars) => BloopInv'
  BY BloopStepKinds DEF Advances
<1>2. QED
  BY BloopInit, <1>1, PTL DEF Bloop!Spec

-----------------------------------------------------------------------------
(* What users of the bLOOP vault can rely on *)

LEMMA SameSums ==
    ASSUME NEW f, NEW S, NEW total, NEW stakes
    PROVE  /\ Bloop!SumOver(f, S) = SumOver(f, S) /\ Bloop!Promise!SumOver(f, S) = SumOver(f, S)
           /\ Bloop!Liabilities(total, stakes) = Liabilities(total, stakes)
           /\ Bloop!TokenInfo = TokenInfo /\ Bloop!StakingInfo = StakingInfo
<1>1. ASSUME NEW g, NEW T PROVE Bloop!SumOver(g, T) = SumOver(g, T)
  BY DEF Bloop!SumOver, SumOver, Bloop!MapThenSumSet, MapThenSumSet, Bloop!MapThenFoldSet, MapThenFoldSet
<1>2. Bloop!Promise!SumOver(f, S) = SumOver(f, S)
  BY DEF Bloop!Promise!SumOver, SumOver, Bloop!Promise!MapThenSumSet, MapThenSumSet, Bloop!Promise!MapThenFoldSet, MapThenFoldSet
<1>3. Bloop!Liabilities(total, stakes) = Liabilities(total, stakes)
  BY <1>1 DEF Bloop!Liabilities, Liabilities, Bloop!PendingReward, PendingReward, Bloop!Monus, Monus
<1>4. Bloop!TokenInfo = TokenInfo /\ Bloop!StakingInfo = StakingInfo
  BY DEF Bloop!TokenInfo, TokenInfo, Bloop!StakingInfo, StakingInfo
<1>5. QED
  BY <1>1, <1>2, <1>3, <1>4

\* The books have their types in the middle of a transaction, too.
LEMMA BooksTyped ==
    ASSUME BloopInv PROVE total_staked \in TokenInfo /\ STAKE \in [Users -> StakingInfo]
<1>1. committed.total_staked \in TokenInfo /\ committed.STAKE \in [Users -> StakingInfo]
  BY DEF BloopInv, WorldSound, VaultInv
<1>2. CASE committed = Bloop!World
  BY <1>1, <1>2 DEF Bloop!World
<1>3. CASE Untouched
  BY <1>1, <1>3 DEF Untouched
<1>4. CASE Paying
  <2>1. PICK u, x, d : Settling(u, x, d) /\ Outcome(tx, committed, d, duration)
    BY <1>4 DEF Paying
  <2>2. d.total_staked = total_staked /\ d.STAKE = STAKE
    BY <2>1 DEF Settling, SettlesTo, Bloop!World
  <2>3. QED
    BY <2>1, <2>2 DEF Outcome, WorldSound, VaultInv
<1>5. QED
  BY <1>2, <1>3, <1>4 DEF BloopInv, Stage, Resting, Started, Handed, Fetching, Arriving, Arrives, Converting, Converts, Minting

LEMMA BloopInvSound == BloopInv => Bloop!VaultBooks
<1>1. SUFFICES ASSUME BloopInv PROVE Bloop!VaultBooks
  OBVIOUS
<1>2. Bloop!Idle => Resting
  BY <1>1, IdleRests DEF Bloop!Idle
<1>3. Bloop!TypeOK
  <2>1. total_staked \in Bloop!TokenInfo /\ STAKE \in [Users -> Bloop!StakingInfo]
    BY <1>1, BooksTyped, SameSums
  <2>2. Bloop!Idle <=> tx = Bloop!NoTx
    BY <1>1, <1>2 DEF Resting, Bloop!Idle, BloopInv, Stage
  <2>3. Bloop!Idle => committed = Bloop!World
    BY <1>2 DEF Resting
  <2>4. QED
    BY <1>1, <2>1, <2>2, <2>3 DEF Bloop!TypeOK, BloopInv, Typed
<1>4. ASSUME Bloop!Idle
      PROVE  /\ reward_action = NoAction /\ Bloop!Liabilities(total_staked, STAKE) <= bloop[Vault]
             /\ total_staked.staked = Bloop!SumOver([u \in Users |-> STAKE[u].stake], Users) /\ bloop[Converter] = 0
  <2>1. VaultInv(total_staked, STAKE, bloop[Vault]) /\ reward_action = NoAction /\ bloop[Converter] = 0
    BY <1>1, <1>2, <1>4, RestingKnown
  <2>2. Liabilities(total_staked, STAKE) <= bloop[Vault]
    BY <2>1, DebtCovered
  <2>3. total_staked.staked = SumOver(StakesOf(STAKE), Users)
    BY <2>1 DEF VaultInv
  <2>4. total_staked.staked = SumOver([u \in Users |-> STAKE[u].stake], Users)
    BY <2>3 DEF StakesOf
  <2>5. QED
    BY <2>1, <2>2, <2>4, SameSums
<1>5. QED
  BY <1>3, <1>4, SameActions
     DEF Bloop!VaultBooks, Bloop!VaultSolvent, Bloop!TotalsAgree, Bloop!ActionEndsWithTransaction

\* Between two transactions the bLOOP vault can pay all that it owes, its totals agree with the
\* stakes and no action is left over: whatever messages users, converter, token and LOOP staking
\* contract exchange, and wherever a transaction of theirs fails.
THEOREM BloopBooksAlwaysSound == Bloop!SystemConstants /\ Bloop!Spec => []Bloop!VaultBooks
  BY BloopInvHolds, BloopInvSound, PTL

-----------------------------------------------------------------------------
(* What is minted *)

\* What a movement adds to all bLOOP.
LEMMA MovedSum ==
    ASSUME Bloop!SystemConstants, NEW old \in [Bloop!Holders -> Nat], NEW new, NEW u \in Users \cup {Nobody},
           NEW du \in Int, NEW dv \in Int, old[Converter] = 0, Moved(old, new, u, du, dv, 0)
    PROVE  /\ SumOver(new, Bloop!Holders) = SumOver(old, Bloop!Holders) + dv + IF u \in Users THEN du ELSE 0
           /\ SumOver(old, Bloop!Holders) \in Int
<1>1. PICK H : H = Bloop!Holders
  OBVIOUS
<1>2. /\ Vault \notin Users /\ Vault # Converter /\ Nobody \notin Users /\ Vault \in H /\ Converter \in H
      /\ Users \subseteq H /\ H \ {Vault, Converter} = Users /\ IsFiniteSet(H)
  BY <1>1, ConstantsKnown
<1>3. /\ \A h \in H : old[h] \in Int /\ new[h] \in Int
      /\ new[Vault] = old[Vault] + dv /\ new[Converter] = old[Converter]
  BY <1>1 DEF Moved
<1>4. SumOver(old, H) \in Int
  BY <1>2, <1>3, SumType
<1>5. CASE u \in Users
  <2>1. u \in H /\ u # Vault
    BY <1>2, <1>5
  <2>2. \A h \in H \ {Vault, u} : new[h] = old[h]
    <3>1. ASSUME NEW h \in H \ {Vault, u} PROVE new[h] = old[h]
      <4>1. CASE h = Converter
        BY <1>3, <4>1
      <4>2. CASE h \in Users
        <5>1. new[h] = old[h] + 0
          BY <3>1, <4>2 DEF Moved
        <5>2. QED
          BY <1>3, <3>1, <5>1
      <4>3. QED
        BY <1>2, <4>1, <4>2
    <3>2. QED
      BY <3>1
  <2>3. SumOver(new, H) = SumOver(old, H) + new[Vault] - old[Vault] + new[u] - old[u]
    <3>1. (\A h \in H : old[h] \in Int) /\ (\A h \in H : new[h] \in Int) /\ IsFiniteSet(H) /\ Vault \in H
      BY <1>2, <1>3
    <3>2. QED
      BY <2>1, <2>2, <3>1, SumChangeTwo
  <2>4. new[u] = old[u] + du /\ old[u] \in Int /\ old[Vault] \in Int
    BY <1>2, <1>3, <1>5 DEF Moved
  <2>5. QED
    BY <1>1, <1>3, <1>4, <1>5, <2>3, <2>4
<1>6. CASE u = Nobody
  <2>1. \A h \in H \ {Vault} : new[h] = old[h]
    <3>1. ASSUME NEW h \in H \ {Vault} PROVE new[h] = old[h]
      <4>1. CASE h = Converter
        BY <1>3, <4>1
      <4>2. CASE h \in Users
        <5>1. new[h] = old[h] + 0
          BY <1>2, <1>6, <4>2 DEF Moved
        <5>2. QED
          BY <1>3, <3>1, <5>1
      <4>3. QED
        BY <1>2, <4>1, <4>2
    <3>2. QED
      BY <3>1
  <2>2. SumOver(new, H) = SumOver(old, H) + dv
    BY <1>2, <1>3, <2>1, SumShift
  <2>3. u \notin Users
    BY <1>2, <1>6
  <2>4. QED
    BY <1>1, <1>4, <2>2, <2>3
<1>7. QED
  BY <1>5, <1>6

\* All LOOP that the converter has staked, and all bLOOP.
LEMMA WorldSums ==
    ASSUME NEW w
    PROVE  Bloop!Supply(w) = SumOver(w.bloop, Bloop!Holders) /\ Bloop!Locked(w) = SumOver(w.principal, Durations)
  BY SameSums DEF Bloop!Supply, Bloop!Locked

LEMMA OutcomeBacked ==
    ASSUME Bloop!SystemConstants, NEW t, NEW c, NEW d, WorldSound(c), Outcome(t, c, d, QueryDuration),
           t.kind \notin {"None", "Convert", "ConverterMint"}
    PROVE  Bloop!Supply(d) - Bloop!Supply(c) = Bloop!Locked(d) - Bloop!Locked(c)
<1>1. /\ c.bloop \in [Bloop!Holders -> Nat] /\ c.bloop[Converter] = 0
      /\ c.principal \in [Durations -> Nat] /\ c.owed[QueryDuration] \in Nat /\ d.bloop \in [Bloop!Holders -> Nat]
  BY ConstantsKnown DEF WorldSound, Outcome
<1>2. PICK s, l, sd, ld : s = SumOver(c.bloop, Bloop!Holders) /\ l = SumOver(c.principal, Durations)
                        /\ sd = SumOver(d.bloop, Bloop!Holders) /\ ld = SumOver(d.principal, Durations)
  OBVIOUS
<1>3. s \in Int /\ l \in Int
  <2>1. (\A h \in Bloop!Holders : c.bloop[h] \in Int) /\ (\A x \in Durations : c.principal[x] \in Int)
    BY <1>1
  <2>2. QED
    BY <1>2, <2>1, ConstantsKnown, SumType
<1>4. SUFFICES sd - s = ld - l
  BY <1>2, WorldSums
<1>5. CASE ServedOutcome(t, c, d, QueryDuration)
  <2>1. PICK u \in Users, put \in Nat, take \in Nat, due \in Nat, r \in Nat, m \in Nat :
          /\ Requested(t, c, u, put, take, r, m) /\ Serves(c, d, u, put, take, due, r, m)
          /\ \/ r = 0 /\ LoopAsIn(c, d.principal, d.owed)
             \/ r = c.owed[QueryDuration] /\ Restaked(c, d.principal, d.owed, QueryDuration)
    BY <1>5 DEF ServedOutcome
  <2>2. m = 0
    BY <2>1 DEF Requested, Bloop!Convert
  <2>3. PICK du \in Int, dv \in Int : du = m + take + due - put /\ dv = r + put - take - due
    BY <2>1
  <2>4. Moved(c.bloop, d.bloop, u, du, dv, 0)
    BY <2>1, <2>3 DEF Serves
  <2>5. sd = s + dv + du
    BY <1>1, <1>2, <2>1, <2>3, <2>4, MovedSum
  <2>6. sd = s + r
    BY <1>3, <2>2, <2>3, <2>5
  <2>7. ld = l + r
    BY <1>2, <1>3, <2>1 DEF LoopAsIn, Restaked
  <2>8. QED
    BY <1>3, <2>6, <2>7
<1>6. CASE FundedOutcome(t, c, d, QueryDuration)
  <2>1. PICK r \in Nat : r = c.owed[QueryDuration] /\ Moved(c.bloop, d.bloop, Nobody, 0, r, 0)
    BY <1>6 DEF FundedOutcome
  <2>2. sd = s + r
    <3>1. Nobody \notin Users /\ Nobody \in Users \cup {Nobody} /\ 0 \in Int /\ r \in Int
      BY ConstantsKnown
    <3>2. sd = s + r + IF Nobody \in Users THEN 0 ELSE 0
      BY <1>1, <1>2, <2>1, <3>1, MovedSum
    <3>3. QED
      BY <1>3, <3>2
  <2>3. ld = l + r
    BY <1>2, <1>6, <2>1 DEF FundedOutcome, Restaked
  <2>4. QED
    BY <1>3, <2>2, <2>3
<1>7. CASE DonatedOutcome(t, c, d)
  <2>1. PICK u \in Users, v \in Users \cup {Nobody} : \E a, due \in Nat : \E b :
          Moved(c.bloop, b, u, -a, a, 0) /\ Moved(b, d.bloop, v, due, -due, 0) /\ (v = Nobody => due = 0)
    BY <1>7 DEF DonatedOutcome
  <2>2. PICK a \in Nat, due \in Nat :
          \E b : Moved(c.bloop, b, u, -a, a, 0) /\ Moved(b, d.bloop, v, due, -due, 0) /\ (v = Nobody => due = 0)
    BY <2>1
  <2>3. PICK b : Moved(c.bloop, b, u, -a, a, 0) /\ Moved(b, d.bloop, v, due, -due, 0) /\ (v = Nobody => due = 0)
    BY <2>2
  <2>4. PICK ma \in Int, md \in Int : ma = -a /\ md = -due
    OBVIOUS
  <2>5. Moved(c.bloop, b, u, ma, a, 0) /\ Moved(b, d.bloop, v, due, md, 0)
    BY <2>3, <2>4
  <2>6. b \in [Bloop!Holders -> Nat] /\ b[Converter] = 0
    BY <2>5 DEF Moved
  <2>7. SumOver(b, Bloop!Holders) = s + a + ma
    BY <1>1, <1>2, <2>4, <2>5, MovedSum
  <2>8. sd = SumOver(b, Bloop!Holders) + md + IF v \in Users THEN due ELSE 0
    BY <1>2, <2>4, <2>5, <2>6, MovedSum
  <2>9. v \in Users \/ due = 0
    BY <2>3
  <2>10. sd = s
    BY <1>3, <2>4, <2>7, <2>8, <2>9
  <2>11. ld = l
    BY <1>2, <1>7 DEF DonatedOutcome, LoopAsIn
  <2>12. QED
    BY <1>3, <2>10, <2>11
<1>8. ~MintedOutcome(t, c, d)
  BY DEF MintedOutcome, Bloop!ConverterMint
<1>9. QED
  BY <1>5, <1>6, <1>7, <1>8 DEF Outcome

\* A transaction other than Convert and Mint, whatever it fetches and pays, mints exactly what it
\* adds to the LOOP stake, as long as the converter restakes the duration whose reward it mints for.
THEOREM BloopMintIsBacked == Bloop!SystemConstants /\ Bloop!Spec => Bloop!MintIsBacked
<1>1. BloopInv /\ [Bloop!Next]_(Bloop!vars)
        => [duration = QueryDuration /\ tx.kind \notin {"None", "Convert", "ConverterMint"} =>
              Bloop!Supply(committed') - Bloop!Supply(committed) = Bloop!Locked(committed') - Bloop!Locked(committed)]_(Bloop!vars)
  <2>1. SUFFICES ASSUME BloopInv, [Bloop!Next]_(Bloop!vars), duration = QueryDuration,
                        tx.kind \notin {"None", "Convert", "ConverterMint"}
                 PROVE  Bloop!Supply(committed') - Bloop!Supply(committed) = Bloop!Locked(committed') - Bloop!Locked(committed)
    OBVIOUS
  <2>2. tx # Bloop!NoTx
    BY <2>1 DEF Bloop!NoTx
  <2>3. WorldSound(committed) /\ Bloop!SystemConstants
    BY <2>1 DEF BloopInv, Typed
  <2>4. CASE committed' = committed
    <3>1. SumOver(committed.bloop, Bloop!Holders) \in Int /\ SumOver(committed.principal, Durations) \in Int
      <4>1. (\A h \in Bloop!Holders : committed.bloop[h] \in Int) /\ (\A x \in Durations : committed.principal[x] \in Int)
        BY <2>3 DEF WorldSound
      <4>2. QED
        BY <2>3, <4>1, ConstantsKnown, SumType
    <3>2. QED
      BY <2>4, <3>1, WorldSums
  <2>5. CASE committed' # committed
    <3>1. Outcome(tx, committed, committed', duration)
      BY <2>1, <2>2, <2>5, BloopStepKinds DEF Advances
    <3>2. QED
      BY <2>1, <2>3, <3>1, OutcomeBacked
  <2>6. QED
    BY <2>4, <2>5
<1>2. QED
  BY BloopInvHolds, <1>1, PTL DEF Bloop!Spec, Bloop!MintIsBacked

-----------------------------------------------------------------------------
(* The refinement *)

LEMMA BloopPromiseInit == ASSUME Bloop!SystemConstants, Bloop!Init PROVE Bloop!Promise!Init
<1>1. committed.STAKE = [u \in Users |-> NoStakingInfo] /\ committed.bloop = [h \in Bloop!Holders |-> 0]
  BY DEF Bloop!Init, Bloop!World, Bloop!NoStakingInfo, NoStakingInfo
<1>2. Vault \in Bloop!Holders /\ Users \subseteq Bloop!Holders
  BY ConstantsKnown
<1>3. (\A u \in Users : committed.STAKE[u].stake = 0 /\ committed.bloop[u] = 0) /\ committed.bloop[Vault] = 0
  BY <1>1, <1>2 DEF NoStakingInfo
<1>4. QED
  BY <1>3 DEF Bloop!Promise!Init

LEMMA BloopStakedCovered ==
    ASSUME WorldSound(committed')
    PROVE  Bloop!Promise!Staked' <= committed'.bloop[Vault]
<1>1. SumOver(StakesOf(committed'.STAKE), Users) <= committed'.bloop[Vault]
  BY PrincipalCovered DEF WorldSound
<1>2. Bloop!Promise!Staked' = Bloop!Promise!SumOver([u \in Users |-> committed'.STAKE[u].stake], Users)
  BY DEF Bloop!Promise!Staked, Bloop!Promise!SumOver, Bloop!Promise!MapThenSumSet, Bloop!Promise!MapThenFoldSet
<1>3. Bloop!Promise!Staked' = SumOver(StakesOf(committed'.STAKE), Users)
  BY <1>2, SameSums DEF StakesOf
<1>4. QED
  BY <1>1, <1>3

\* What WorldSound says of one account.
LEMMA AccountTypes ==
    ASSUME Bloop!SystemConstants, NEW w, WorldSound(w), NEW u \in Users
    PROVE  w.STAKE[u].stake \in Nat /\ w.bloop[u] \in Nat /\ w.bloop[Vault] \in Nat
<1>1. w.STAKE[u].stake \in Nat
  BY RowTypes DEF WorldSound
<1>2. QED
  BY <1>1, ConstantsKnown DEF WorldSound

\* Serving an account is a step of the vault's promise.
LEMMA BloopServePromised ==
    ASSUME Bloop!SystemConstants, WorldSound(committed), WorldSound(committed'),
           NEW u \in Users, NEW put \in Nat, NEW take \in Nat, NEW due \in Nat, NEW r \in Nat, NEW m \in Nat,
           put = 0 \/ take = 0, m = 0 \/ (put = 0 /\ take = 0),
           Serves(committed, committed', u, put, take, due, r, m)
    PROVE  [Bloop!Promise!Next]_(Bloop!Promise!vars)
<1> DEFINE stake == [v \in Users |-> committed.STAKE[v].stake]
           wallet == [v \in Users |-> committed.bloop[v]]
           stakeN == [v \in Users |-> committed'.STAKE[v].stake]
           walletN == [v \in Users |-> committed'.bloop[v]]
<1>1. \A v \in Users : committed.STAKE[v].stake \in Nat /\ committed.bloop[v] \in Nat /\ committed.bloop[Vault] \in Nat
  BY AccountTypes
<1>2. Bloop!Promise!Staked' <= committed'.bloop[Vault]
  BY BloopStakedCovered
<1>3. /\ \A v \in Users \ {u} : stakeN[v] = stake[v] /\ walletN[v] = wallet[v]
      /\ stakeN[u] = stake[u] + put - take /\ walletN[u] = wallet[u] + (m + take + due - put)
      /\ committed'.bloop[Vault] = committed.bloop[Vault] + (r + put - take - due)
      /\ stake[u] \in Nat /\ wallet[u] \in Nat /\ committed.bloop[Vault] \in Nat
  <2>1. \A v \in Users : committed'.bloop[v] = committed.bloop[v] + IF v = u THEN m + take + due - put ELSE 0
    BY DEF Serves, Moved
  <2>2. \A v \in Users \ {u} : committed'.bloop[v] = committed.bloop[v]
    BY <1>1, <2>1
  <2>3. \A v \in Users \ {u} : committed'.STAKE[v] = committed.STAKE[v]
    BY DEF Serves
  <2>4. stakeN[u] = stake[u] + put - take /\ committed'.bloop[Vault] = committed.bloop[Vault] + (r + put - take - due)
    BY DEF Serves, Moved
  <2>5. QED
    BY <1>1, <2>1, <2>2, <2>3, <2>4
<1>4. Bloop!Promise!Only(u)
  BY <1>2, <1>3 DEF Bloop!Promise!Only
<1>5. stakeN = [stake EXCEPT ![u] = stakeN[u]]
  BY <1>3
<1>6. CASE put > 0
  <2>1. stakeN[u] > stake[u] /\ walletN[u] + stakeN[u] >= wallet[u] + stake[u]
    BY <1>3, <1>6
  <2>2. Bloop!Promise!DoStake(u)
    BY <1>4, <1>5, <2>1 DEF Bloop!Promise!DoStake
  <2>3. QED
    BY <2>2 DEF Bloop!Promise!Next
<1>7. CASE take > 0
  <2>1. stakeN[u] < stake[u] /\ walletN[u] + stakeN[u] >= wallet[u] + stake[u]
    BY <1>3, <1>7
  <2>2. Bloop!Promise!DoUnstake(u)
    BY <1>4, <1>5, <2>1 DEF Bloop!Promise!DoUnstake
  <2>3. QED
    BY <2>2 DEF Bloop!Promise!Next
<1>8. CASE put = 0 /\ take = 0
  <2>1. stakeN[u] = stake[u] /\ walletN[u] = wallet[u] + due + m
    BY <1>3, <1>8
  <2>2. stakeN = stake
    BY <1>3, <2>1
  <2>3. CASE due + m > 0
    <3>1. walletN[u] > wallet[u]
      BY <1>3, <2>1, <2>3
    <3>2. Bloop!Promise!DoReceive(u)
      BY <1>4, <2>2, <3>1 DEF Bloop!Promise!DoReceive
    <3>3. QED
      BY <3>2 DEF Bloop!Promise!Next
  <2>4. CASE due = 0 /\ m = 0
    <3>1. walletN[u] = wallet[u] /\ committed'.bloop[Vault] = committed.bloop[Vault] + r
      BY <1>3, <1>8, <2>1, <2>4
    <3>2. walletN = wallet
      BY <1>3, <3>1
    <3>3. CASE r > 0
      <4>1. committed'.bloop[Vault] > committed.bloop[Vault]
        BY <1>3, <3>1, <3>3
      <4>2. Bloop!Promise!DoFund
        BY <2>2, <3>2, <4>1 DEF Bloop!Promise!DoFund
      <4>3. QED
        BY <4>2 DEF Bloop!Promise!Next
    <3>4. CASE r = 0
      <4>1. committed'.bloop[Vault] = committed.bloop[Vault]
        BY <1>3, <3>1, <3>4
      <4>2. QED
        BY <2>2, <3>2, <4>1 DEF Bloop!Promise!vars
    <3>5. QED
      BY <3>3, <3>4
  <2>5. QED
    BY <2>3, <2>4
<1>9. QED
  BY <1>6, <1>7, <1>8

\* So is fetching a reward for all.
LEMMA BloopFundPromised ==
    ASSUME Bloop!SystemConstants, WorldSound(committed), FundedOutcome(tx, committed, committed', duration)
    PROVE  Bloop!Promise!Next
<1>1. PICK r \in Nat \ {0} : Moved(committed.bloop, committed'.bloop, Nobody, 0, r, 0) /\ committed'.STAKE = committed.STAKE
  BY DEF FundedOutcome
<1>2. Vault \in Bloop!Holders /\ Nobody \notin Users
  BY ConstantsKnown
<1>3. committed.bloop[Vault] \in Nat
  BY <1>2 DEF WorldSound
<1>4. \A v \in Users : committed'.bloop[v] = committed.bloop[v]
  <2>1. \A v \in Users : committed'.bloop[v] = committed.bloop[v] + 0 /\ committed.bloop[v] \in Nat
    BY <1>1, <1>2, AccountTypes DEF Moved
  <2>2. QED
    BY <2>1
<1>5. committed'.bloop[Vault] > committed.bloop[Vault]
  BY <1>1, <1>3 DEF Moved
<1>6. /\ [v \in Users |-> committed'.STAKE[v].stake] = [v \in Users |-> committed.STAKE[v].stake]
      /\ [v \in Users |-> committed'.bloop[v]] = [v \in Users |-> committed.bloop[v]]
  BY <1>1, <1>4
<1>7. Bloop!Promise!DoFund
  BY <1>5, <1>6 DEF Bloop!Promise!DoFund
<1>8. QED
  BY <1>7 DEF Bloop!Promise!Next

\* What the vault and the users hold is what all hold.
LEMMA BloopWalletsSum ==
    ASSUME Bloop!SystemConstants, NEW b \in [Bloop!Holders -> Nat], b[Converter] = 0
    PROVE  SumOver(b, Bloop!Holders) = b[Vault] + Bloop!Promise!SumOver([v \in Users |-> b[v]], Users)
<1>1. PICK H, R : H = Bloop!Holders /\ R = H \ {Vault}
  OBVIOUS
<1>2. /\ IsFiniteSet(H) /\ Vault \in H /\ Converter \in R /\ R \ {Converter} = Users /\ R \subseteq H
      /\ \A h \in H : b[h] \in Int
  BY <1>1, ConstantsKnown
<1>3. SumOver(b, H) = b[Vault] + SumOver(b, R)
  BY <1>1, <1>2, SumRemove
<1>4. SumOver(b, R) = b[Converter] + SumOver(b, Users)
  <2>1. IsFiniteSet(R) /\ \A h \in R : b[h] \in Int
    BY <1>2, FS_Subset
  <2>2. SumOver(b, R) = b[Converter] + SumOver(b, R \ {Converter})
    BY <1>2, <2>1, SumRemove
  <2>3. QED
    BY <1>2, <2>2
<1>5. PICK w : w = [v \in Users |-> b[v]]
  OBVIOUS
<1>6. \A v \in Users : w[v] = b[v]
  BY <1>5
<1>7. SumOver(w, Users) = SumOver(b, Users)
  BY <1>6, VaultUsersAssumption, SumSame
<1>8. SumOver(b, Users) \in Int
  <2>1. \A v \in Users : b[v] \in Int
    BY <1>1, <1>2, Zenon
  <2>2. QED
    BY <2>1, VaultUsersAssumption, SumType
<1>9. Bloop!Promise!SumOver(w, Users) = SumOver(b, Users)
  BY <1>7, SameSums
<1>10. b[Vault] \in Int /\ SumOver(b, H) = b[Vault] + SumOver(b, Users)
  BY <1>2, <1>3, <1>4, <1>8
<1>11. QED
  BY <1>1, <1>5, <1>9, <1>10

\* And a gift.
LEMMA BloopDonationPromised ==
    ASSUME Bloop!SystemConstants, WorldSound(committed), WorldSound(committed'), DonatedOutcome(tx, committed, committed')
    PROVE  Bloop!Promise!Next
<1>1. PICK u \in Users, v \in Users \cup {Nobody} : \E a, due \in Nat : \E b :
        /\ Moved(committed.bloop, b, u, -a, a, 0) /\ Moved(b, committed'.bloop, v, due, -due, 0)
        /\ v = Nobody => due = 0
  BY DEF DonatedOutcome
<1>2. PICK a \in Nat, due \in Nat : \E b :
        /\ Moved(committed.bloop, b, u, -a, a, 0) /\ Moved(b, committed'.bloop, v, due, -due, 0)
        /\ v = Nobody => due = 0
  BY <1>1
<1>3. PICK b :
        /\ Moved(committed.bloop, b, u, -a, a, 0) /\ Moved(b, committed'.bloop, v, due, -due, 0)
        /\ v = Nobody => due = 0
  BY <1>2
<1>4. PICK old, new : old = committed.bloop /\ new = committed'.bloop
  OBVIOUS
<1>5. /\ old \in [Bloop!Holders -> Nat] /\ new \in [Bloop!Holders -> Nat] /\ b \in [Bloop!Holders -> Nat]
      /\ old[Converter] = 0 /\ new[Converter] = 0 /\ b[Converter] = 0 /\ Users \subseteq Bloop!Holders /\ Vault \in Bloop!Holders
  BY <1>3, <1>4, ConstantsKnown DEF WorldSound, Moved
<1>6. \A w \in Users : old[w] \in Nat /\ new[w] \in Nat /\ b[w] \in Nat
  BY <1>5
<1>7. /\ \A w \in Users : b[w] = old[w] + IF w = u THEN -a ELSE 0
      /\ \A w \in Users : new[w] = b[w] + IF w = v THEN due ELSE 0
  BY <1>3, <1>4 DEF Moved
<1>8. \A w \in Users \ {u} : new[w] >= old[w] /\ (w # v => new[w] = old[w])
  BY <1>6, <1>7
<1>9. SumOver(new, Bloop!Holders) = SumOver(old, Bloop!Holders) /\ SumOver(old, Bloop!Holders) \in Int
  <2>1. PICK ma \in Int, md \in Int : ma = -a /\ md = -due
    OBVIOUS
  <2>2. Moved(old, b, u, ma, a, 0) /\ Moved(b, new, v, due, md, 0)
    BY <1>3, <1>4, <2>1
  <2>3. SumOver(b, Bloop!Holders) = SumOver(old, Bloop!Holders) + a + ma /\ SumOver(old, Bloop!Holders) \in Int
    BY <1>5, <2>1, <2>2, MovedSum
  <2>4. SumOver(new, Bloop!Holders) = SumOver(b, Bloop!Holders) + md + IF v \in Users THEN due ELSE 0
    BY <1>5, <2>1, <2>2, MovedSum
  <2>5. v \in Users \/ due = 0
    BY <1>3
  <2>6. QED
    BY <2>1, <2>3, <2>4, <2>5
<1>10. /\ [w \in Users |-> committed'.STAKE[w].stake] = [w \in Users |-> committed.STAKE[w].stake]
  BY DEF DonatedOutcome
<1>11. \A x \in Users \ {u} : [w \in Users |-> committed'.bloop[w]][x] >= [w \in Users |-> committed.bloop[w]][x]
  BY <1>4, <1>8
<1>12. \E y \in Users : \A x \in Users \ {u, y} : [w \in Users |-> committed'.bloop[w]][x] = [w \in Users |-> committed.bloop[w]][x]
  <2>1. CASE v \in Users
    BY <1>4, <1>8, <2>1
  <2>2. CASE v \notin Users
    BY <1>4, <1>8, <2>2
  <2>3. QED
    BY <2>1, <2>2
<1>13. /\ SumOver(old, Bloop!Holders) = old[Vault] + Bloop!Promise!SumOver([w \in Users |-> old[w]], Users)
       /\ SumOver(new, Bloop!Holders) = new[Vault] + Bloop!Promise!SumOver([w \in Users |-> new[w]], Users)
  BY <1>5, BloopWalletsSum
<1>14. committed'.bloop[Vault] + Bloop!Promise!SumOver([w \in Users |-> committed'.bloop[w]], Users)
         <= committed.bloop[Vault] + Bloop!Promise!SumOver([w \in Users |-> committed.bloop[w]], Users)
  BY <1>4, <1>9, <1>13
<1>15. Bloop!Promise!Staked' <= committed'.bloop[Vault]
  BY BloopStakedCovered
<1>16. Bloop!Promise!DoDonate(u)
  BY <1>10, <1>11, <1>12, <1>14, <1>15 DEF Bloop!Promise!DoDonate
<1>17. QED
  BY <1>16 DEF Bloop!Promise!Next

\* Tokens minted by the admin are received like those of a deposit.
LEMMA BloopMintPromised ==
    ASSUME Bloop!SystemConstants, WorldSound(committed), WorldSound(committed'), MintedOutcome(tx, committed, committed')
    PROVE  [Bloop!Promise!Next]_(Bloop!Promise!vars)
<1>1. PICK to \in Users, a \in Nat : Moved(committed.bloop, committed'.bloop, to, a, 0, 0) /\ committed'.STAKE = committed.STAKE
  BY DEF MintedOutcome
<1>2. \A v \in Users : committed.bloop[v] \in Nat /\ committed'.bloop[v] \in Nat /\ committed.bloop[Vault] \in Nat
  BY AccountTypes
<1>3. /\ committed'.bloop[to] = committed.bloop[to] + a /\ committed'.bloop[Vault] = committed.bloop[Vault] + 0
      /\ \A v \in Users \ {to} : committed'.bloop[v] = committed.bloop[v] + 0
  BY <1>1 DEF Moved
<1>4. committed'.bloop[Vault] = committed.bloop[Vault] /\ \A v \in Users \ {to} : committed'.bloop[v] = committed.bloop[v]
  BY <1>1, <1>2, <1>3
<1>5. Bloop!Promise!Staked' <= committed'.bloop[Vault]
  BY BloopStakedCovered
<1>6. CASE a > 0
  <2>1. /\ [v \in Users |-> committed'.STAKE[v].stake] = [v \in Users |-> committed.STAKE[v].stake]
        /\ [v \in Users |-> committed'.bloop[v]][to] > [v \in Users |-> committed.bloop[v]][to]
        /\ \A w \in Users \ {to} : [v \in Users |-> committed'.bloop[v]][w] = [v \in Users |-> committed.bloop[v]][w]
    BY <1>1, <1>2, <1>3, <1>4, <1>6
  <2>2. Bloop!Promise!DoReceive(to)
    BY <1>5, <2>1 DEF Bloop!Promise!DoReceive, Bloop!Promise!Only
  <2>3. QED
    BY <2>2 DEF Bloop!Promise!Next
<1>7. CASE a = 0
  <2>1. committed'.bloop[to] = committed.bloop[to]
    BY <1>2, <1>3, <1>7
  <2>2. /\ [v \in Users |-> committed'.STAKE[v].stake] = [v \in Users |-> committed.STAKE[v].stake]
        /\ [v \in Users |-> committed'.bloop[v]] = [v \in Users |-> committed.bloop[v]]
    BY <1>1, <1>4, <2>1
  <2>3. QED
    BY <1>4, <2>2 DEF Bloop!Promise!vars
<1>8. QED
  BY <1>6, <1>7

\* The bLOOP vault implements the promise of a vault: through whichever messages vault, converter,
\* token and LOOP staking contract carry a transaction out, and whether or not it fails half way,
\* its users see one atomic step that leaves the principal of all covered.
THEOREM BloopImplementsVault == Bloop!SystemConstants /\ Bloop!Spec => Bloop!ImplementsStakingVault
<1>1. BloopInv /\ [Bloop!Next]_(Bloop!vars) => [Bloop!Promise!Next]_(Bloop!Promise!vars)
  <2>1. SUFFICES ASSUME BloopInv, [Bloop!Next]_(Bloop!vars) PROVE [Bloop!Promise!Next]_(Bloop!Promise!vars)
    OBVIOUS
  <2>2. WorldSound(committed) /\ Bloop!SystemConstants
    BY <2>1 DEF BloopInv, Typed
  <2>3. CASE committed'.STAKE = committed.STAKE /\ committed'.bloop = committed.bloop
    BY <2>3 DEF Bloop!Promise!vars
  <2>4. CASE Outcome(tx, committed, committed', duration)
    <3>1. WorldSound(committed')
      BY <2>4 DEF Outcome
    <3>2. CASE ServedOutcome(tx, committed, committed', duration)
      <4>1. PICK u \in Users, put \in Nat, take \in Nat, due \in Nat, r \in Nat, m \in Nat :
              Requested(tx, committed, u, put, take, r, m) /\ Serves(committed, committed', u, put, take, due, r, m)
        BY <3>2 DEF ServedOutcome
      <4>2. (put = 0 \/ take = 0) /\ (m = 0 \/ (put = 0 /\ take = 0))
        BY <4>1 DEF Requested
      <4>3. QED
        BY <2>2, <3>1, <4>1, <4>2, BloopServePromised
    <3>3. CASE FundedOutcome(tx, committed, committed', duration)
      BY <2>2, <3>3, BloopFundPromised
    <3>4. CASE DonatedOutcome(tx, committed, committed')
      BY <2>2, <3>1, <3>4, BloopDonationPromised
    <3>5. CASE MintedOutcome(tx, committed, committed')
      BY <2>2, <3>1, <3>5, BloopMintPromised
    <3>6. QED
      BY <2>4, <3>2, <3>3, <3>4, <3>5 DEF Outcome
  <2>5. QED
    BY <2>1, <2>3, <2>4, BloopStepKinds DEF Advances
<1>2. Bloop!SystemConstants /\ Bloop!Init => Bloop!Promise!Init
  BY BloopPromiseInit
<1>3. QED
  BY BloopInvHolds, <1>1, <1>2, PTL DEF Bloop!Spec, Bloop!ImplementsStakingVault, Bloop!Promise!Spec

-----------------------------------------------------------------------------
(* What a request is answered with *)

\* Fetching the reward books its fees where the queries already showed them.
LEMMA OutcomeFees ==
    ASSUME Bloop!SystemConstants, NEW t, NEW c, NEW d, WorldSound(c), Outcome(t, c, d, QueryDuration),
           t.kind \in {"WithdrawRewards", "Unstake", "Harvest", "Send"}, t.kind = "Send" => t.hook = Bloop!StakeHook
    PROVE  /\ Bloop!query_treasury_reward(d) = Bloop!query_treasury_reward(c)
           /\ Bloop!query_syne_staking_reward(d) = Bloop!query_syne_staking_reward(c)
<1>1. ASSUME NEW r \in Nat, FeesBooked(c, d.total_staked, r),
             \/ r = 0 /\ d.owed[QueryDuration] = c.owed[QueryDuration]
             \/ r = c.owed[QueryDuration] /\ d.owed[QueryDuration] = 0
      PROVE  /\ Bloop!query_treasury_reward(d) = Bloop!query_treasury_reward(c)
             /\ Bloop!query_syne_staking_reward(d) = Bloop!query_syne_staking_reward(c)
  <2>1. ASSUME NEW w PROVE
          /\ Bloop!query_treasury_reward(w) = w.total_staked.pending_treasury_rewards + Fee(w.owed[QueryDuration], treasury_fee)
          /\ Bloop!query_syne_staking_reward(w)
               = w.total_staked.pending_syne_staking_rewards + Fee(w.owed[QueryDuration], syne_staking_fee)
    BY DEF Bloop!query_treasury_reward, Bloop!query_syne_staking_reward, Bloop!Fee, Fee
  <2>2. /\ c.total_staked.pending_treasury_rewards \in Nat /\ c.total_staked.pending_syne_staking_rewards \in Nat
        /\ c.owed[QueryDuration] \in Nat
    BY ConstantsKnown DEF WorldSound, VaultInv, TokenInfo
  <2>3. /\ d.total_staked.pending_treasury_rewards = c.total_staked.pending_treasury_rewards + Fee(r, treasury_fee)
        /\ d.total_staked.pending_syne_staking_rewards = c.total_staked.pending_syne_staking_rewards + Fee(r, syne_staking_fee)
    BY <1>1 DEF FeesBooked
  <2>4. Fee(r, treasury_fee) \in Nat /\ Fee(r, syne_staking_fee) \in Nat
    BY FeesBounded
  <2>5. CASE r = 0 /\ d.owed[QueryDuration] = c.owed[QueryDuration]
    BY <2>1, <2>2, <2>3, <2>5, NoFee
  <2>6. CASE r = c.owed[QueryDuration] /\ d.owed[QueryDuration] = 0
    BY <2>1, <2>2, <2>3, <2>4, <2>6, NoFee
  <2>7. QED
    BY <1>1, <2>5, <2>6
<1>2. CASE ServedOutcome(t, c, d, QueryDuration)
  <2>1. PICK u \in Users, put \in Nat, take \in Nat, due \in Nat, r \in Nat, m \in Nat :
          /\ Serves(c, d, u, put, take, due, r, m)
          /\ \/ r = 0 /\ LoopAsIn(c, d.principal, d.owed)
             \/ r = c.owed[QueryDuration] /\ Restaked(c, d.principal, d.owed, QueryDuration)
    BY <1>2 DEF ServedOutcome
  <2>2. FeesBooked(c, d.total_staked, r)
    BY <2>1 DEF Serves
  <2>3. \/ r = 0 /\ d.owed[QueryDuration] = c.owed[QueryDuration]
        \/ r = c.owed[QueryDuration] /\ d.owed[QueryDuration] = 0
    BY <2>1 DEF LoopAsIn, Restaked
  <2>4. QED
    BY <1>1, <2>2, <2>3
<1>3. CASE FundedOutcome(t, c, d, QueryDuration)
  BY <1>1, <1>3 DEF FundedOutcome, Restaked
<1>4. ~DonatedOutcome(t, c, d) /\ ~MintedOutcome(t, c, d)
  <2>1. ASSUME NEW u, NEW a, NEW v, t = Bloop!Send(u, a, Bloop!DistributeHook(v)) PROVE FALSE
    <3>1. t.kind = "Send" /\ t.hook.kind = "DistributeRewards"
      BY <2>1 DEF Bloop!Send, Bloop!DistributeHook
    <3>2. QED
      BY <3>1 DEF Bloop!StakeHook
  <2>2. ~DonatedOutcome(t, c, d)
    BY <2>1 DEF DonatedOutcome
  <2>3. ~MintedOutcome(t, c, d)
    BY DEF MintedOutcome, Bloop!ConverterMint
  <2>4. QED
    BY <2>2, <2>3
<1>5. QED
  BY <1>2, <1>3, <1>4 DEF Outcome

LEMMA BloopFeesShownOnce == Bloop!SystemConstants /\ Bloop!Spec => Bloop!FeesShownOnce
<1>1. BloopInv /\ [Bloop!Next]_(Bloop!vars)
        => [/\ tx.kind \in {"WithdrawRewards", "Unstake", "Harvest", "Send"} /\ duration = QueryDuration
            /\ tx.kind = "Send" => tx.hook = Bloop!StakeHook
            => /\ Bloop!query_treasury_reward(committed') = Bloop!query_treasury_reward(committed)
               /\ Bloop!query_syne_staking_reward(committed') = Bloop!query_syne_staking_reward(committed)]_(Bloop!vars)
  <2>1. SUFFICES ASSUME BloopInv, [Bloop!Next]_(Bloop!vars), duration = QueryDuration,
                        tx.kind \in {"WithdrawRewards", "Unstake", "Harvest", "Send"}, tx.kind = "Send" => tx.hook = Bloop!StakeHook
                 PROVE  /\ Bloop!query_treasury_reward(committed') = Bloop!query_treasury_reward(committed)
                        /\ Bloop!query_syne_staking_reward(committed') = Bloop!query_syne_staking_reward(committed)
    OBVIOUS
  <2>2. tx # Bloop!NoTx
    BY <2>1 DEF Bloop!NoTx
  <2>3. WorldSound(committed) /\ Bloop!SystemConstants
    BY <2>1 DEF BloopInv, Typed
  <2>4. CASE committed' # committed
    <3>1. Outcome(tx, committed, committed', duration)
      BY <2>1, <2>2, <2>4, BloopStepKinds DEF Advances
    <3>2. QED
      BY <2>1, <2>3, <3>1, OutcomeFees
  <2>5. QED
    BY <2>4
<1>2. QED
  BY BloopInvHolds, <1>1, PTL DEF Bloop!Spec, Bloop!FeesShownOnce

\* A withdrawal pays what its user was shown.
LEMMA OutcomePaid ==
    ASSUME Bloop!SystemConstants, NEW t, NEW c, NEW d, NEW dur, WorldSound(c), Outcome(t, c, d, dur),
           t.kind = "WithdrawRewards"
    PROVE  LET paid == d.bloop[t.address] - c.bloop[t.address]
               shown == Bloop!query_reward(c, t.address)
           IN  paid <= shown + Bloop!Roundings /\ shown <= paid + Bloop!CeilDiv(c.STAKE[t.address].stake, Unit)
<1>1. ServedOutcome(t, c, d, dur)
  BY DEF Outcome, FundedOutcome, DonatedOutcome, MintedOutcome, Bloop!Harvest, Bloop!Send, Bloop!ConverterMint
<1>2. PICK u \in Users, put \in Nat, take \in Nat, due \in Nat, r \in Nat, m \in Nat :
        Requested(t, c, u, put, take, r, m) /\ Serves(c, d, u, put, take, due, r, m)
  BY <1>1 DEF ServedOutcome
<1>3. t.address = u /\ put = 0 /\ take = 0 /\ m = 0 /\ r = c.owed[QueryDuration]
  BY <1>2 DEF Requested, Bloop!WithdrawRewards, Bloop!DistributeRewards, Bloop!UnstakeMsg, Bloop!Send, Bloop!Convert
<1>4. c.bloop[u] \in Nat
  BY AccountTypes
<1>5. d.bloop[u] = c.bloop[u] + (m + take + due - put) /\ due = PendingReward(Fetched(c, r), c.STAKE[u])
  BY <1>2 DEF Serves, Moved
<1>6. d.bloop[u] - c.bloop[u] = due
  BY <1>3, <1>4, <1>5
<1>7. Bloop!query_reward(c, u) = Shown(c.total_staked, c.STAKE, r, u)
  BY <1>3 DEF Bloop!query_reward, Shown, Bloop!PendingReward, PendingReward, Bloop!Monus, Monus
<1>8. /\ due <= Shown(c.total_staked, c.STAKE, r, u) + Roundings
      /\ Shown(c.total_staked, c.STAKE, r, u) <= due + CeilDiv(c.STAKE[u].stake, Unit)
  <2>1. /\ r > 0 => due = PendingReward(update_total_rewards(c.total_staked, r), c.STAKE[u])
        /\ r = 0 => due = PendingReward(c.total_staked, c.STAKE[u])
    BY <1>5 DEF Fetched
  <2>2. VaultInv(c.total_staked, c.STAKE, c.bloop[Vault])
    BY DEF WorldSound
  <2>3. QED
    BY <1>2, <2>1, <2>2, ShownIsPaid
<1>9. Bloop!Roundings = Roundings /\ \A k : Bloop!CeilDiv(k, Unit) = CeilDiv(k, Unit)
  BY DEF Bloop!Roundings, Roundings, Bloop!CeilDiv, CeilDiv
<1>10. QED
  BY <1>3, <1>6, <1>7, <1>8, <1>9

LEMMA BloopQueryPredictsReward == Bloop!SystemConstants /\ Bloop!Spec => Bloop!QueryPredictsReward
<1>1. BloopInv /\ [Bloop!Next]_(Bloop!vars)
        => [tx.kind = "WithdrawRewards" /\ Bloop!Accepts(Head(msgs)) /\ Bloop!Idle' =>
              LET u == tx.address
                  paid == committed'.bloop[u] - committed.bloop[u]
                  shown == Bloop!query_reward(committed, u)
              IN  /\ paid <= shown + Bloop!Roundings
                  /\ shown <= paid + Bloop!CeilDiv(committed.STAKE[u].stake, Unit)]_(Bloop!vars)
  <2>1. SUFFICES ASSUME BloopInv, [Bloop!Next]_(Bloop!vars), tx.kind = "WithdrawRewards", Bloop!Accepts(Head(msgs)), Bloop!Idle'
                 PROVE  LET u == tx.address
                            paid == committed'.bloop[u] - committed.bloop[u]
                            shown == Bloop!query_reward(committed, u)
                        IN  /\ paid <= shown + Bloop!Roundings
                            /\ shown <= paid + Bloop!CeilDiv(committed.STAKE[u].stake, Unit)
    OBVIOUS
  <2>2. tx # Bloop!NoTx /\ msgs' = << >>
    BY <2>1 DEF Bloop!NoTx, Bloop!Idle
  <2>3. msgs # << >>
    BY <2>1, <2>2, IdleRests DEF Resting
  <2>4. ~UNCHANGED Bloop!vars
    BY <2>2, <2>3 DEF Bloop!vars
  <2>5. ~Bloop!Abort
    BY <2>1 DEF Bloop!Abort
  <2>6. Outcome(tx, committed, committed', duration)
    BY <2>1, <2>2, <2>3, <2>4, <2>5, BloopStepKinds DEF Advances
  <2>7. WorldSound(committed) /\ Bloop!SystemConstants
    BY <2>1 DEF BloopInv, Typed
  <2>8. QED
    BY <2>1, <2>6, <2>7, OutcomePaid
<1>2. QED
  BY BloopInvHolds, <1>1, PTL DEF Bloop!Spec, Bloop!QueryPredictsReward

\* What the messages of a transaction that takes out a stake ask of their handlers.
LEMMA Accepted ==
    ASSUME NEW m
    PROVE  /\ m.kind \in {"Transfer", "Send"} /\ m.amount <= bloop[m.from] => Bloop!Accepts(m)
           /\ m.kind = "Receive" /\ m.hook.kind # "Stake" /\ reward_action # SyneStakingRewardWithdraw => Bloop!Accepts(m)
           /\ /\ m.kind = "Unstake" /\ m.amount > 0 /\ m.amount <= STAKE[m.from].stake /\ reward_action = NoAction
              => Bloop!Accepts(m)
           /\ m.kind = "Harvest" /\ owed[QueryDuration] > 0 => Bloop!Accepts(m)
           /\ m.kind = "LoopRestake" /\ owed[m.duration] > 0 => Bloop!Accepts(m)
           /\ m.kind = "Mint" => Bloop!Accepts(m)
<1>1. Bloop!NoAction = NoAction /\ Bloop!SyneStakingRewardWithdraw = SyneStakingRewardWithdraw
  BY SameActions
<1>2. m.kind \in {"Transfer", "Send"} /\ m.amount <= bloop[m.from] => Bloop!Accepts(m)
  BY DEF Bloop!Accepts, Bloop!CanSpend
<1>3. m.kind = "Receive" /\ m.hook.kind # "Stake" /\ reward_action # SyneStakingRewardWithdraw => Bloop!Accepts(m)
  BY <1>1 DEF Bloop!Accepts
<1>4. m.kind = "Unstake" /\ m.amount > 0 /\ m.amount <= STAKE[m.from].stake /\ reward_action = NoAction => Bloop!Accepts(m)
  BY <1>1 DEF Bloop!Accepts, Bloop!CanUnstake, Bloop!MayHarvest
<1>5. m.kind = "Harvest" /\ owed[QueryDuration] > 0 => Bloop!Accepts(m)
  BY DEF Bloop!Accepts, Bloop!Withdrawable
<1>6. m.kind = "LoopRestake" /\ owed[m.duration] > 0 => Bloop!Accepts(m)
  BY DEF Bloop!Accepts
<1>7. m.kind = "Mint" => Bloop!Accepts(m)
  BY DEF Bloop!Accepts
<1>8. QED
  BY <1>2, <1>3, <1>4, <1>5, <1>6, <1>7

\* No message of such a transaction fails, in whichever stage it is.
LEMMA UnstakeAccepted ==
    ASSUME BloopInv, msgs # << >>, tx.kind = "Unstake", tx.amount \in 1 .. committed.STAKE[tx.from].stake,
           duration = QueryDuration
    PROVE  Bloop!Accepts(Head(msgs))
<1> DEFINE m == Head(msgs)
<1>1. tx # Bloop!NoTx /\ Bloop!SystemConstants /\ WorldSound(committed) /\ Typed
  BY DEF Bloop!NoTx, BloopInv, Typed
<1>2. CASE Started
  <2>1. committed.reward_action = NoAction
    BY <1>1 DEF WorldSound
  <2>2. msgs = <<tx>> /\ reward_action = NoAction /\ STAKE = committed.STAKE
    BY <1>2, <2>1 DEF Started, Bloop!World
  <2>3. Head(msgs) = tx
    BY <2>2
  <2>4. tx.amount > 0 /\ tx.amount <= STAKE[tx.from].stake
    <3>1. PICK u \in Users, a \in Nat : tx = Bloop!UnstakeMsg(u, a)
      BY <1>2 DEF Started, IsRequest, Bloop!Harvest, Bloop!WithdrawSyne, Bloop!WithdrawRewards, Bloop!DistributeRewards,
                  Bloop!UnstakeMsg, Bloop!Convert, Bloop!Send, Bloop!ConverterMint
    <3>2. tx.from = u
      BY <3>1 DEF Bloop!UnstakeMsg
    <3>3. committed.STAKE[tx.from].stake \in Nat
      BY <1>1, <3>1, <3>2, AccountTypes
    <3>4. QED
      BY <2>2, <3>3
  <2>5. QED
    BY <2>2, <2>3, <2>4, Accepted
<1>3. CASE Fetching
  <2>1. PICK w : /\ w = owed[QueryDuration] /\ w > 0
                 /\ \/ msgs = <<Bloop!Harvest>>
                    \/ msgs = <<Bloop!LoopRestake(duration), Bloop!Mint(Converter, w),
                                Bloop!Send(Converter, w, Bloop!DistributeHook(Nobody))>>
    BY <1>3 DEF Fetching
  <2>2. m = Bloop!Harvest \/ m = Bloop!LoopRestake(duration)
    BY <2>1, TailOfTuple
  <2>3. m.kind = "Harvest" \/ (m.kind = "LoopRestake" /\ m.duration = QueryDuration)
    BY <2>2 DEF Bloop!Harvest, Bloop!LoopRestake
  <2>4. QED
    BY <2>1, <2>3, Accepted
<1>4. CASE Arriving
  <2>1. PICK addr, u, put, take, k, w : Arrives(addr, u, put, take, k, w)
    BY <1>4 DEF Arriving
  <2>2. reward_action = Unstake(u, take)
    BY <2>1 DEF Arrives, Asks, AsksIn, Bloop!Harvest, Bloop!WithdrawSyne, Bloop!WithdrawRewards, Bloop!Send, Bloop!Convert
  <2>3. reward_action # SyneStakingRewardWithdraw
    BY <2>2 DEF Unstake, SyneStakingRewardWithdraw
  <2>4. \/ m = Bloop!Mint(Converter, w)
        \/ m = Bloop!Send(Converter, w, Bloop!DistributeHook(addr)) /\ bloop[Converter] = w
        \/ m = Bloop!Receive(Converter, w, Bloop!DistributeHook(addr))
    BY <2>1, TailOfTuple DEF Arrives, Moved
  <2>5. w \in Nat
    BY <1>1, <2>1, ConstantsKnown DEF Arrives, WorldSound
  <2>6. \/ m.kind = "Mint"
        \/ m.kind = "Send" /\ m.from = Converter /\ m.amount = w /\ bloop[Converter] = w
        \/ m.kind = "Receive" /\ m.hook.kind = "DistributeRewards"
    BY <2>4 DEF Bloop!Mint, Bloop!Send, Bloop!Receive, Bloop!DistributeHook
  <2>7. \/ m.kind = "Mint"
        \/ m.kind = "Send" /\ m.amount <= bloop[m.from]
        \/ m.kind = "Receive" /\ m.hook.kind # "Stake"
    BY <2>5, <2>6
  <2>8. QED
    BY <2>3, <2>7, Accepted
<1>5. CASE Paying
  <2>1. PICK u, x, d : Settling(u, x, d)
    BY <1>5 DEF Paying
  <2>2. Pays(msgs, u, x) /\ x \in Nat /\ x <= bloop[Vault]
    BY <2>1 DEF Settling, SettlesTo, Bloop!World
  <2>3. bloop[Vault] \in Nat
    BY <1>1, ConstantsKnown DEF Typed
  <2>4. PICK y \in Nat : y <= x /\ m = Bloop!Transfer(Vault, u, y)
    <3>1. CASE msgs = <<Bloop!Transfer(Vault, u, x)>>
      BY <2>2, <3>1, TailOfTuple
    <3>2. ASSUME NEW y \in Nat, NEW z \in Nat, x = y + z, msgs = <<Bloop!Transfer(Vault, u, y), Bloop!Transfer(Vault, u, z)>>
          PROVE  y <= x /\ m = Bloop!Transfer(Vault, u, y)
      BY <3>2, TailOfTuple
    <3>3. QED
      BY <2>2, <3>1, <3>2 DEF Pays
  <2>5. m.kind = "Transfer" /\ m.amount = y /\ m.from = Vault
    BY <2>4 DEF Bloop!Transfer
  <2>6. m.amount <= bloop[m.from]
    BY <2>2, <2>3, <2>4, <2>5
  <2>7. QED
    BY <2>5, <2>6, Accepted
<1>6. ~Handed /\ ~Converting /\ ~Minting /\ ~Resting
  BY <1>1 DEF Handed, Converting, Converts, Minting, Resting, Bloop!Send, Bloop!Convert, Bloop!ConverterMint
<1>7. QED
  BY <1>2, <1>3, <1>4, <1>5, <1>6 DEF BloopInv, Stage

LEMMA BloopUnstakeSucceeds == Bloop!SystemConstants /\ Bloop!Spec => Bloop!UnstakeSucceeds
<1>1. BloopInv /\ [Bloop!Next]_(Bloop!vars)
        => [Bloop!Abort /\ tx.kind = "Unstake" =>
              tx.amount \notin 1 .. committed.STAKE[tx.from].stake \/ duration # QueryDuration]_(Bloop!vars)
  <2>1. SUFFICES ASSUME BloopInv, Bloop!Abort, tx.kind = "Unstake"
                 PROVE  tx.amount \notin 1 .. committed.STAKE[tx.from].stake \/ duration # QueryDuration
    OBVIOUS
  <2>2. msgs # << >> /\ ~Bloop!Accepts(Head(msgs))
    BY <2>1 DEF Bloop!Abort
  <2>3. QED
    BY <2>1, <2>2, UnstakeAccepted
<1>2. QED
  BY BloopInvHolds, <1>1, PTL DEF Bloop!Spec, Bloop!UnstakeSucceeds

\* The requests of the users of the bLOOP vault are honoured: no message of a transaction that takes
\* out a stake fails, a withdrawal pays what query_reward showed, up to the rounding, and the
\* fees are booked once, also when the reward has to travel through converter and token first.
THEOREM BloopRequestsHonoured == Bloop!SystemConstants /\ Bloop!Spec => Bloop!RequestsHonoured
  BY BloopUnstakeSucceeds, BloopQueryPredictsReward, BloopFeesShownOnce, PTL DEF Bloop!RequestsHonoured

=============================================================================
