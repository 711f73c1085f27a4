---------------------------- MODULE BwyndSystem ----------------------------
(***************************************************************************)
(* bwynd-converter-and-staker, bwynd-vault and the bWYND token at the      *)
(* level of transactions: every action is the message of one account with  *)
(* all the messages it causes.  A transaction one of whose messages fails  *)
(* leaves no trace, so it has no action.  REWARD_ACTION is set and reset   *)
(* within a transaction (BloopSystem has it message by message).           *)
(* The WYND token and the WYND staking module are external.                *)
(***************************************************************************)
EXTENDS VaultAccounting

CONSTANTS
    Vault, Converter,     \* the two contracts
    Nobody,               \* None of an optional address
    FirstAdmin,           \* admin of the converter at instantiate
    Periods,              \* unbonding periods the WYND staking module offers
    FirstPeriod,          \* unbonding_period of instantiate
    NewPeriods,           \* periods of UpdateConfig, offered or not
    NewAdmins,            \* accounts of UpdateAdmin
    InitWynd,             \* WYND of each user at the start
    Amounts,              \* amounts the users put in messages
    Donations,            \* amounts a user sends with the DistributeRewards hook
    DonationAddresses,    \* addresses in that hook
    AdminMints,           \* amounts of Mint
    AccruedRewards,       \* rewards the staking module may add at once
    MaxWynd,              \* bound on the WYND delegated and owed
    MaxPower,             \* bound on the power of the vault before a donation
    MaxSupply             \* bound on the bWYND after a Mint by the admin

Holders == Users \cup {Vault}

ASSUME BwyndAssumption ==
    /\ Vault \notin Users /\ Converter \notin Users /\ Vault # Converter /\ Nobody \notin Users
    /\ FirstPeriod \in Periods /\ IsFiniteSet(Periods) /\ Periods \subseteq Nat \ {0} /\ NewPeriods \subseteq Nat
    /\ InitWynd \in [Users -> Nat] /\ DonationAddresses \subseteq Users \cup {Nobody}
    /\ Amounts \subseteq Nat /\ Donations \subseteq Nat /\ AdminMints \subseteq Nat
    /\ AccruedRewards \subseteq Nat \ {0}
    /\ MaxWynd \in Nat /\ MaxPower \in Nat /\ MaxSupply \in Nat

VARIABLES
    total_staked,     \* vault: TOTAL_STAKED
    STAKE,            \* vault: STAKE
    bwynd,            \* bWYND of the users and of the vault; the converter keeps none
    wynd,             \* WYND of the users
    delegated,        \* WYND the converter has delegated, by period
    owed,             \* rewards the staking module owes the converter
    admin, unbonding_period,  \* converter: config
    admin_minted      \* history: bWYND minted by the admin

tokenVars == <<bwynd, wynd>>
stakingVars == <<delegated, owed>>
configVars == <<admin, unbonding_period>>
vars == <<total_staked, STAKE, tokenVars, stakingVars, configVars, admin_minted>>

Init ==
    /\ total_staked = NoTokenInfo
    /\ STAKE = [u \in Users |-> NoStakingInfo]
    /\ bwynd = [h \in Holders |-> 0] /\ wynd = InitWynd
    /\ delegated = [p \in Periods |-> 0] /\ owed = 0
    /\ admin = FirstAdmin /\ unbonding_period = FirstPeriod
    /\ admin_minted = 0

-----------------------------------------------------------------------------
(* Tokens and WYND staking *)

\* What the transfers <<account, amount>> of the vault take from it and bring to account h.
Spent(pay) == SumOver([i \in DOMAIN pay |-> pay[i][2]], DOMAIN pay)
Received(pay, h) == SumOver([i \in DOMAIN pay |-> IF pay[i][1] = h THEN pay[i][2] ELSE 0], DOMAIN pay)

\* Balances after these transfers; only users receive them.
Paid(balances, pay) ==
    [h \in Holders |-> IF h = Vault THEN balances[h] - Spent(pay) ELSE balances[h] + Received(pay, h)]

\* The token refuses a transfer the vault cannot cover.
Covered(balances, pay) == Spent(pay) <= balances[Vault]

\* Delegate of the WYND token with the unbonding period of the converter.
Delegate(a) ==
    /\ unbonding_period \in Periods
    /\ delegated' = [delegated EXCEPT ![unbonding_period] = @ + a]

\* The delegations of the converter earn a reward.
Accrue(r) ==
    /\ \E p \in Periods : delegated[p] > 0
    /\ SumOver(delegated, Periods) + owed + r <= MaxWynd
    /\ owed' = owed + r
    /\ UNCHANGED <<total_staked, STAKE, tokenVars, delegated, configVars, admin_minted>>

-----------------------------------------------------------------------------
(* Vault *)

\* The vault, which holds what `balances` says, performs act on `total` and pays.
PerformOn(act, total, balances) ==
    LET done == Performed(act, total, STAKE) IN
    /\ Covered(balances, done.pay)
    /\ total_staked' = done.total
    /\ STAKE' = done.stakes
    /\ bwynd' = Paid(balances, done.pay)

\* Fault: the reward is left at the staking module and stays owed.
Harvest_NoRedelegate(act, balances) ==
    /\ owed > 0
    /\ UNCHANGED stakingVars
    /\ PerformOn(act, update_total_rewards(total_staked, owed), [balances EXCEPT ![Vault] = @ + owed])

\* WithdrawRewards of the converter: it withdraws and delegates what is owed,
\* mints as much bWYND and sends it to the vault, whose DistributeRewards hook
\* performs act.
Harvest(act, balances) ==
    /\ owed > 0
    /\ Delegate(owed)
    /\ owed' = 0
    /\ PerformOn(act, update_total_rewards(total_staked, owed), [balances EXCEPT ![Vault] = @ + owed])

\* Fault: the rewards that wait are not fetched first.
Perform_NoHarvest(act, balances) ==
    /\ PerformOn(act, total_staked, balances)
    /\ UNCHANGED stakingVars

\* A request of the vault fetches the rewards that wait before it is performed.
Perform(act, balances) ==
    \/ Harvest(act, balances)
    \/ /\ owed = 0
       /\ PerformOn(act, total_staked, balances)
       /\ UNCHANGED stakingVars

\* Send with the Stake hook.
execute_stake(u, a) ==
    /\ a <= bwynd[u]
    /\ Perform(Stake(u, a), [bwynd EXCEPT ![u] = @ - a, ![Vault] = @ + a])
    /\ UNCHANGED <<wynd, configVars, admin_minted>>

execute_unstake(u, a) ==
    /\ a > 0 /\ a <= STAKE[u].stake
    /\ Perform(Unstake(u, a), bwynd)
    /\ UNCHANGED <<wynd, configVars, admin_minted>>

execute_withdraw_rewards(u) ==
    /\ Perform(Reward(u), bwynd)
    /\ UNCHANGED <<wynd, configVars, admin_minted>>

\* Anyone may call it, and it does not look for rewards that wait.
execute_distribute_user_rewards(u) ==
    /\ PerformOn(Reward(u), total_staked, bwynd)
    /\ UNCHANGED <<wynd, stakingVars, configVars, admin_minted>>

\* Send by a user with the DistributeRewards hook; v may be Nobody.
execute_distribute_rewards(u, v, a) ==
    /\ a <= bwynd[u]
    /\ total_staked.power < MaxPower
    /\ PerformOn(IF v = Nobody THEN NoAction ELSE Reward(v), update_total_rewards(total_staked, a),
                 [bwynd EXCEPT ![u] = @ - a, ![Vault] = @ + a])
    /\ UNCHANGED <<wynd, stakingVars, configVars, admin_minted>>

\* What a user is shown: the pending reward and a share of what is still owed.
query_reward(u) ==
    IF total_staked.staked = 0 THEN 0
    ELSE PendingReward(total_staked, STAKE[u])
         + ((owed * (Unit - treasury_fee - syne_staking_fee) * STAKE[u].stake) \div total_staked.staked) \div Unit

query_treasury_reward == total_staked.pending_treasury_rewards + Fee(owed, treasury_fee)

query_syne_staking_reward == total_staked.pending_syne_staking_rewards + Fee(owed, syne_staking_fee)

-----------------------------------------------------------------------------
(* Converter *)

\* Convert delegates and mints for the deposit, and harvests in favour of the sender.
execute_convert_token(u, a) ==
    /\ a > 0 /\ a <= wynd[u]
    /\ unbonding_period > 0 /\ unbonding_period \in Periods
    /\ wynd' = [wynd EXCEPT ![u] = @ - a]
    /\ delegated' = [delegated EXCEPT ![unbonding_period] = @ + a + owed]
    /\ owed' = 0
    /\ PerformOn(Reward(u), IF owed > 0 THEN update_total_rewards(total_staked, owed) ELSE total_staked,
                 [bwynd EXCEPT ![u] = @ + a, ![Vault] = @ + owed])
    /\ UNCHANGED <<configVars, admin_minted>>

\* WithdrawRewards of the converter, called by anyone.
execute_converter_withdraw_rewards ==
    /\ Harvest(NoAction, bwynd)
    /\ UNCHANGED <<wynd, configVars, admin_minted>>

execute_mint(s, to, a) ==
    /\ s = admin
    /\ SumOver(bwynd, Holders) + a <= MaxSupply
    /\ bwynd' = [bwynd EXCEPT ![to] = @ + a]
    /\ admin_minted' = admin_minted + a
    /\ UNCHANGED <<total_staked, STAKE, wynd, stakingVars, configVars>>

execute_update_config(s, p) ==
    /\ s = admin
    /\ unbonding_period' = p
    /\ UNCHANGED <<total_staked, STAKE, tokenVars, stakingVars, admin, admin_minted>>

execute_update_admin(s, new) ==
    /\ s = admin
    /\ admin' = new
    /\ UNCHANGED <<total_staked, STAKE, tokenVars, stakingVars, unbonding_period, admin_minted>>

-----------------------------------------------------------------------------

Next ==
    \/ \E u \in Users, a \in Amounts : \/ execute_stake(u, a) \/ execute_unstake(u, a)
                                       \/ execute_convert_token(u, a)
    \/ \E u \in Users : execute_withdraw_rewards(u) \/ execute_distribute_user_rewards(u)
    \/ \E u \in Users, v \in DonationAddresses, a \in Donations : execute_distribute_rewards(u, v, a)
    \/ execute_converter_withdraw_rewards
    \/ \E s \in Users, to \in Users, a \in AdminMints : execute_mint(s, to, a)
    \/ \E s \in Users, p \in NewPeriods : execute_update_config(s, p)
    \/ \E s \in Users, new \in NewAdmins : execute_update_admin(s, new)
    \/ \E r \in AccruedRewards : Accrue(r)

Spec == Init /\ [][Next]_vars

-----------------------------------------------------------------------------
(* Properties *)

TypeOK ==
    /\ total_staked \in TokenInfo /\ STAKE \in [Users -> StakingInfo]
    /\ bwynd \in [Holders -> Nat] /\ wynd \in [Users -> Nat]
    /\ delegated \in [Periods -> Nat] /\ owed \in Nat
    /\ admin_minted \in Nat

\* The vault holds all that it owes: stakes, fees and the rewards of every account,
\* whatever was rounded away and whoever collected first.
VaultSolvent == Liabilities(total_staked, STAKE) <= bwynd[Vault]

\* Every bWYND stands for a delegated WYND, except those the admin minted: rewards
\* are delegated again in the transaction that mints for them, also in Convert.
BwyndBacked == SumOver(bwynd, Holders) = SumOver(delegated, Periods) + admin_minted

\* Everybody can take the whole stake out, whatever the others did, unless rewards
\* wait and the admin has set a period that the staking module does not offer.
EveryoneCanUnstake ==
    \A u \in Users : STAKE[u].stake > 0 /\ (owed = 0 \/ unbonding_period \in Periods) =>
        LET act == Unstake(u, STAKE[u].stake)
            total == IF owed > 0 THEN update_total_rewards(total_staked, owed) ELSE total_staked
        IN  Covered([bwynd EXCEPT ![Vault] = @ + owed], Performed(act, total, STAKE).pay)

\* The vault can pay all it owes, every user can leave with the whole stake whatever the
\* admin does, and every bWYND is backed by delegated WYND.
BwyndSound == TypeOK /\ VaultSolvent /\ EveryoneCanUnstake /\ BwyndBacked

\* query_reward and withdraw_rewards compute the reward in two ways: the user gets
\* what the query showed, up to the rounding of power and fees.
QueryPredictsReward ==
    [][\A u \in Users : execute_withdraw_rewards(u) =>
         LET paid == bwynd'[u] - bwynd[u] IN
         /\ paid <= query_reward(u) + Roundings
         /\ query_reward(u) <= paid + CeilDiv(STAKE[u].stake, Unit)]_vars

\* The fees shown by the queries grow with the rewards of the staking module and
\* with donations only: fetching rewards neither loses a fee nor books it twice.
FeesShownOnce ==
    [][\/ \E r \in AccruedRewards : Accrue(r)
       \/ \E u \in Users, v \in DonationAddresses, a \in Donations : execute_distribute_rewards(u, v, a)
       \/ /\ query_treasury_reward' = query_treasury_reward
          /\ query_syne_staking_reward' = query_syne_staking_reward]_vars

\* The queries tell the truth: the reward that is shown is the one that is paid, and the
\* fees are not shown twice.
QueriesTrue == QueryPredictsReward /\ FeesShownOnce

\* The vault is an atomic StakingVault for its users.
Promise == INSTANCE StakingVault WITH
    stake <- [u \in Users |-> STAKE[u].stake],
    wallet <- [u \in Users |-> bwynd[u]],
    held <- bwynd[Vault]
ImplementsStakingVault == Promise!Spec
=============================================================================
