---------------------------- MODULE BloopSystem ----------------------------
(***************************************************************************)
(* bloop-converter-and-staker, bloop-vault and the bLOOP token at the      *)
(* level of messages.  A transaction starts with one message; a handler    *)
(* takes the first message of msgs and puts the messages of its Response   *)
(* in its place, which is the depth-first order of the chain.  An error or *)
(* a panic of any handler undoes the whole transaction.                    *)
(* LOOP and the LOOP staking contract are external.                        *)
(***************************************************************************)
EXTENDS VaultAccounting, SequencesExt

CONSTANTS
    Vault, Converter,     \* the two contracts
    Nobody,               \* None of an optional address
    FirstAdmin,           \* admin of the converter at instantiate
    Durations,            \* durations the LOOP staking contract offers
    QueryDuration,        \* the duration 12 of query_loop_protocol_staking_rewards
    InitLoop,             \* LOOP of each user at the start
    DonationAddresses,    \* addresses in the DistributeRewards hook of a user's Send
    Amounts,              \* amounts the users put in messages
    AccruedRewards,       \* rewards the LOOP staking contract may add at once
    MaxLoop,              \* bound on the LOOP in the LOOP staking contract
    NewDurations,         \* durations of UpdateConfig
    NewAdmins,            \* accounts of UpdateAdmin
    AdminMints,           \* amounts of Mint by the admin
    MaxPower,             \* bound on the power of the vault before a donation
    MaxSupply             \* bound on the bLOOP after a Mint by the admin

Holders == Users \cup {Vault, Converter}

\* What is known of the constants: the contracts are no users, a duration is one of a fixed
\* list, and amounts are unsigned.
SystemConstants ==
    /\ Vault \notin Users /\ Converter \notin Users /\ Vault # Converter /\ Nobody \notin Users
    /\ IsFiniteSet(Durations) /\ QueryDuration \in Durations /\ NewDurations \subseteq Durations
    /\ InitLoop \in [Users -> Nat] /\ DonationAddresses \subseteq Users \cup {Nobody}
    /\ Amounts \subseteq Nat /\ AccruedRewards \subseteq Nat \ {0} /\ AdminMints \subseteq Nat
    /\ MaxLoop \in Nat /\ MaxSupply \in Nat /\ MaxPower \in Nat

ASSUME SystemAssumption == SystemConstants

VARIABLES
    total_staked,    \* vault: TOTAL_STAKED
    STAKE,           \* vault: STAKE
    reward_action,   \* vault: REWARD_ACTION
    bloop,           \* bLOOP balances
    loop,            \* LOOP of the users
    principal,       \* LOOP staked by the converter, by duration
    owed,            \* reward of the converter's stake, by duration
    admin, duration, \* converter: config.admin, config.duration
    msgs,            \* messages still to execute, first one next
    tx,              \* first message of the running transaction
    committed        \* what an error restores: the state before the transaction

World == [total_staked |-> total_staked, STAKE |-> STAKE, reward_action |-> reward_action,
          bloop |-> bloop, loop |-> loop, principal |-> principal, owed |-> owed]

vaultVars == <<total_staked, STAKE, reward_action>>
stakingVars == <<principal, owed>>
configVars == <<admin, duration>>
vars == <<vaultVars, bloop, loop, stakingVars, configVars, msgs, tx, committed>>

-----------------------------------------------------------------------------
(* Messages *)

NoTx == [kind |-> "None"]

Transfer(from, to, a) == [kind |-> "Transfer", from |-> from, to |-> to, amount |-> a]
Mint(to, a) == [kind |-> "Mint", to |-> to, amount |-> a]
\* Send to the vault; hook is the Cw20HookMsg.
Send(from, a, hook) == [kind |-> "Send", from |-> from, amount |-> a, hook |-> hook]
Receive(from, a, hook) == [kind |-> "Receive", from |-> from, amount |-> a, hook |-> hook]
StakeHook == [kind |-> "Stake"]
DistributeHook(address) == [kind |-> "DistributeRewards", address |-> address]
DistributeRewards(address) == [kind |-> "DistributeRewards", address |-> address]
WithdrawRewards(address) == [kind |-> "WithdrawRewards", address |-> address]
UnstakeMsg(from, a) == [kind |-> "Unstake", from |-> from, amount |-> a]
WithdrawSyne == [kind |-> "WithdrawSyneStakingRewards"]
Convert(from, a) == [kind |-> "Convert", from |-> from, amount |-> a]
ConverterMint(from, to, a) == [kind |-> "ConverterMint", from |-> from, to |-> to, amount |-> a]
Harvest == [kind |-> "Harvest"]   \* WithdrawRewards of the converter
LoopStake(a, d) == [kind |-> "LoopStake", amount |-> a, duration |-> d]
LoopRestake(d) == [kind |-> "LoopRestake", duration |-> d]

\* query_loop_protocol_staking_rewards: user_reward + pending_reward.
Withdrawable == owed[QueryDuration]

\* The vault can ask for the rewards of the converter, or does not need to.
MayHarvest == Withdrawable > 0 => reward_action = NoAction

\* checked_sub of the token.
CanSpend(m) == m.amount <= bloop[m.from]

CanUnstake(m) == m.amount > 0 /\ m.amount <= STAKE[m.from].stake

\* The message does not make its handler fail.  The fees of the vault are never
\* released: their withdrawal requires the converter as the sender, and it is
\* the token that calls the hook.
Accepts(m) ==
    CASE m.kind \in {"Transfer", "Send"} -> CanSpend(m)
      [] m.kind = "Receive" ->
            IF m.hook.kind = "Stake" THEN MayHarvest
            ELSE reward_action # SyneStakingRewardWithdraw \/ m.hook.address # Nobody
      [] m.kind = "WithdrawRewards" -> MayHarvest
      [] m.kind = "Unstake" -> CanUnstake(m) /\ MayHarvest
      [] m.kind = "WithdrawSyneStakingRewards" -> Withdrawable > 0 /\ MayHarvest
      [] m.kind = "Convert" -> m.amount > 0 /\ m.amount <= loop[m.from]
      [] m.kind = "Harvest" -> Withdrawable > 0
      [] m.kind = "ConverterMint" -> m.from = admin
      [] m.kind = "LoopRestake" -> owed[m.duration] > 0
      [] OTHER -> TRUE

Executing(kind) == msgs # << >> /\ Head(msgs).kind = kind /\ Accepts(Head(msgs))

\* The handler succeeds with the messages out; the last one commits.
Return(out) ==
    /\ msgs' = out \o Tail(msgs)
    /\ tx' = IF msgs' = << >> THEN NoTx ELSE tx
    /\ committed' = IF msgs' = << >> THEN World' ELSE committed
    /\ UNCHANGED configVars

Idle == msgs = << >>

-----------------------------------------------------------------------------
(* Initial state: the converter has instantiated token and vault *)

Init ==
    /\ total_staked = NoTokenInfo
    /\ STAKE = [u \in Users |-> NoStakingInfo]
    /\ reward_action = NoAction
    /\ bloop = [h \in Holders |-> 0]
    /\ loop = InitLoop
    /\ principal = [d \in Durations |-> 0]
    /\ owed = [d \in Durations |-> 0]
    /\ admin = FirstAdmin /\ duration = QueryDuration
    /\ msgs = << >> /\ tx = NoTx
    /\ committed = World

-----------------------------------------------------------------------------
(* bLOOP token *)

execute_transfer ==
    LET m == Head(msgs) IN
    /\ Executing("Transfer")
    /\ bloop' = [bloop EXCEPT ![m.from] = @ - m.amount, ![m.to] = @ + m.amount]
    /\ UNCHANGED <<vaultVars, loop, stakingVars>>
    /\ Return(<< >>)

execute_token_mint ==
    LET m == Head(msgs) IN
    /\ Executing("Mint")
    /\ bloop' = [bloop EXCEPT ![m.to] = @ + m.amount]
    /\ UNCHANGED <<vaultVars, loop, stakingVars>>
    /\ Return(<< >>)

execute_send ==
    LET m == Head(msgs) IN
    /\ Executing("Send")
    /\ bloop' = [bloop EXCEPT ![m.from] = @ - m.amount, ![Vault] = @ + m.amount]
    /\ UNCHANGED <<vaultVars, loop, stakingVars>>
    /\ Return(<<Receive(m.from, m.amount, m.hook)>>)

-----------------------------------------------------------------------------
(* LOOP staking, external *)

ExecuteLoopStake ==
    LET m == Head(msgs) IN
    /\ Executing("LoopStake")
    /\ principal' = [principal EXCEPT ![m.duration] = @ + m.amount]
    /\ UNCHANGED <<vaultVars, bloop, loop, owed>>
    /\ Return(<< >>)

ExecuteLoopRestake ==
    LET m == Head(msgs) IN
    /\ Executing("LoopRestake")
    /\ principal' = [principal EXCEPT ![m.duration] = @ + owed[m.duration]]
    /\ owed' = [owed EXCEPT ![m.duration] = 0]
    /\ UNCHANGED <<vaultVars, bloop, loop>>
    /\ Return(<< >>)

\* The stake of the converter earns a reward between two transactions.
Accrue(d, r) ==
    /\ Idle
    /\ principal[d] > 0
    /\ SumOver(principal, Durations) + SumOver(owed, Durations) + r <= MaxLoop
    /\ owed' = [owed EXCEPT ![d] = @ + r]
    /\ UNCHANGED <<vaultVars, bloop, loop, principal, configVars, msgs, tx>>
    /\ committed' = World'

-----------------------------------------------------------------------------
(* Vault *)

\* The transfers of the vault as messages.
Payments(pay) == [i \in DOMAIN pay |-> Transfer(Vault, pay[i][1], pay[i][2])]

\* Performs act on the totals and pays.
PerformOn(act, total) ==
    LET done == Performed(act, total, STAKE) IN
    /\ total_staked' = done.total
    /\ STAKE' = done.stakes
    /\ Return(Payments(done.pay))

\* Fault: the action is remembered even if it is carried out at once.
Perform_AlwaysSave(act) ==
    IF Withdrawable > 0
    THEN reward_action' = act /\ UNCHANGED <<total_staked, STAKE>> /\ Return(<<Harvest>>)
    ELSE reward_action' = act /\ PerformOn(act, total_staked)

\* Rewards that wait at the LOOP staking contract are fetched first: the vault
\* remembers the action and carries it out when they arrive.
Perform(act) ==
    IF Withdrawable > 0
    THEN /\ reward_action' = act
         /\ UNCHANGED <<total_staked, STAKE>>
         /\ Return(<<Harvest>>)
    ELSE /\ UNCHANGED reward_action
         /\ PerformOn(act, total_staked)

execute_stake ==
    LET m == Head(msgs) IN
    /\ Executing("Receive") /\ m.hook = StakeHook
    /\ UNCHANGED <<bloop, loop, stakingVars>>
    /\ Perform(Stake(m.from, m.amount))

execute_withdraw_rewards ==
    /\ Executing("WithdrawRewards")
    /\ UNCHANGED <<bloop, loop, stakingVars>>
    /\ Perform(Reward(Head(msgs).address))

execute_unstake ==
    LET m == Head(msgs) IN
    /\ Executing("Unstake")
    /\ UNCHANGED <<bloop, loop, stakingVars>>
    /\ Perform(Unstake(m.from, m.amount))

execute_withdraw_syne_staking_rewards ==
    /\ Executing("WithdrawSyneStakingRewards")
    /\ reward_action' = SyneStakingRewardWithdraw
    /\ UNCHANGED <<total_staked, STAKE, bloop, loop, stakingVars>>
    /\ Return(<<Harvest>>)

\* Fault: the vault calls itself until the account has no stake.
execute_distribute_user_rewards_Again ==
    LET u == Head(msgs).address IN
    /\ Executing("DistributeRewards")
    /\ UNCHANGED <<total_staked, reward_action, bloop, loop, stakingVars>>
    /\ STAKE' = [STAKE EXCEPT ![u] = Settled(total_staked, STAKE[u], STAKE[u].stake)]
    /\ Return(Payments(<< <<u, PendingReward(total_staked, STAKE[u])>> >>)
              \o IF STAKE[u].stake > 0 THEN <<DistributeRewards(u)>> ELSE << >>)

execute_distribute_user_rewards ==
    /\ Executing("DistributeRewards")
    /\ UNCHANGED <<reward_action, bloop, loop, stakingVars>>
    /\ PerformOn(Reward(Head(msgs).address), total_staked)

\* Fault: the action is not forgotten.
execute_distribute_rewards_NoReset ==
    LET m == Head(msgs)
        act == IF m.hook.address # Nobody THEN Reward(m.hook.address) ELSE reward_action
    IN
    /\ Executing("Receive") /\ m.hook.kind = "DistributeRewards"
    /\ UNCHANGED <<reward_action, bloop, loop, stakingVars>>
    /\ PerformOn(act, update_total_rewards(total_staked, m.amount))

\* The hook of a Send: rewards arrived.  An address replaces the stored action.
execute_distribute_rewards ==
    LET m == Head(msgs)
        act == IF m.hook.address # Nobody THEN Reward(m.hook.address) ELSE reward_action
    IN
    /\ Executing("Receive") /\ m.hook.kind = "DistributeRewards"
    /\ reward_action' = NoAction
    /\ UNCHANGED <<bloop, loop, stakingVars>>
    /\ PerformOn(act, update_total_rewards(total_staked, m.amount))

\* What a user is shown in a World: the pending reward and a share of what is owed.
query_reward(world, u) ==
    LET total == world.total_staked
        net == world.owed[QueryDuration] * (Unit - treasury_fee - syne_staking_fee)
    IN  IF total.staked = 0 THEN 0
        ELSE PendingReward(total, world.STAKE[u]) + ((net * world.STAKE[u].stake) \div total.staked) \div Unit

query_treasury_reward(world) ==
    world.total_staked.pending_treasury_rewards + Fee(world.owed[QueryDuration], treasury_fee)

query_syne_staking_reward(world) ==
    world.total_staked.pending_syne_staking_rewards + Fee(world.owed[QueryDuration], syne_staking_fee)

-----------------------------------------------------------------------------
(* Converter *)

\* The reward that is owed is minted and sent to the vault, but not restaked.
execute_convert_token ==
    LET m == Head(msgs) IN
    /\ Executing("Convert")
    /\ loop' = [loop EXCEPT ![m.from] = @ - m.amount]
    /\ UNCHANGED <<vaultVars, bloop, stakingVars>>
    /\ Return(<<LoopStake(m.amount, duration), Mint(m.from, m.amount)>>
              \o IF Withdrawable > 0
                 THEN <<Mint(Converter, Withdrawable),
                        Send(Converter, Withdrawable, DistributeHook(m.from))>>
                 ELSE <<DistributeRewards(m.from)>>)

\* Fault: the mint does not wait for the restake.
execute_harvest_NoRestake ==
    /\ Executing("Harvest")
    /\ UNCHANGED <<vaultVars, bloop, loop, stakingVars>>
    /\ Return(<<Mint(Converter, Withdrawable), Send(Converter, Withdrawable, DistributeHook(Nobody))>>)

\* execute_withdraw_rewards of the converter.
execute_harvest ==
    /\ Executing("Harvest")
    /\ UNCHANGED <<vaultVars, bloop, loop, stakingVars>>
    /\ Return(<<LoopRestake(duration), Mint(Converter, Withdrawable),
                Send(Converter, Withdrawable, DistributeHook(Nobody))>>)

execute_mint ==
    LET m == Head(msgs) IN
    /\ Executing("ConverterMint")
    /\ UNCHANGED <<vaultVars, bloop, loop, stakingVars>>
    /\ Return(<<Mint(m.to, m.amount)>>)

execute_update_config(s, d) ==
    /\ Idle /\ s = admin
    /\ duration' = d
    /\ UNCHANGED <<vaultVars, bloop, loop, stakingVars, admin, msgs, tx, committed>>

execute_update_admin(s, new) ==
    /\ Idle /\ s = admin
    /\ admin' = new
    /\ UNCHANGED <<vaultVars, bloop, loop, stakingVars, duration, msgs, tx, committed>>

-----------------------------------------------------------------------------
(* Transactions *)

\* All bLOOP of a World.
Supply(world) == SumOver(world.bloop, Holders)

\* The messages an account may start a transaction with.
Requests ==
    {WithdrawRewards(u) : u \in Users} \cup {DistributeRewards(u) : u \in Users}
    \cup {Harvest, WithdrawSyne}
    \cup {UnstakeMsg(u, a) : u \in Users, a \in Amounts}
    \cup {Convert(u, a) : u \in Users, a \in Amounts}
    \cup {Send(u, a, hook) : u \in Users, a \in Amounts,
                             hook \in {StakeHook} \cup
                                     {DistributeHook(v) : v \in {w \in DonationAddresses : total_staked.power < MaxPower}}}
    \cup {ConverterMint(u, v, a) : u \in Users, v \in Users, a \in {b \in AdminMints : Supply(World) + b <= MaxSupply}}

Begin ==
    /\ Idle
    /\ \E m \in Requests : msgs' = <<m>> /\ tx' = m
    /\ UNCHANGED <<vaultVars, bloop, loop, stakingVars, configVars, committed>>

\* A handler fails: the chain restores the state before the transaction.
Abort ==
    /\ msgs # << >> /\ ~Accepts(Head(msgs))
    /\ total_staked' = committed.total_staked /\ STAKE' = committed.STAKE
    /\ reward_action' = committed.reward_action
    /\ bloop' = committed.bloop /\ loop' = committed.loop
    /\ principal' = committed.principal /\ owed' = committed.owed
    /\ msgs' = << >> /\ tx' = NoTx
    /\ UNCHANGED <<configVars, committed>>

\* One step of the transaction that is running.
Execute ==
    \/ execute_transfer \/ execute_token_mint \/ execute_send
    \/ ExecuteLoopStake \/ ExecuteLoopRestake
    \/ execute_stake \/ execute_withdraw_rewards \/ execute_unstake
    \/ execute_withdraw_syne_staking_rewards
    \/ execute_distribute_user_rewards \/ execute_distribute_rewards
    \/ execute_convert_token \/ execute_harvest \/ execute_mint
    \/ Abort

Next ==
    \/ Begin
    \/ Execute
    \/ \E d \in Durations, r \in AccruedRewards : Accrue(d, r)
    \/ \E s \in Users, d \in NewDurations : execute_update_config(s, d)
    \/ \E s \in Users, new \in NewAdmins : execute_update_admin(s, new)

\* The chain executes a transaction to its end.
Spec == Init /\ [][Next]_vars /\ WF_vars(Execute)

-----------------------------------------------------------------------------
(* Properties *)

TypeOK ==
    /\ total_staked \in TokenInfo /\ STAKE \in [Users -> StakingInfo]
    /\ bloop \in [Holders -> Nat] /\ loop \in [Users -> Nat]
    /\ principal \in [Durations -> Nat] /\ owed \in [Durations -> Nat]
    /\ duration \in Durations
    /\ Idle <=> tx = NoTx
    /\ Idle => committed = World

\* No action of a finished or failed transaction is left in REWARD_ACTION, where
\* it would be performed with the next rewards or block every later request.
ActionEndsWithTransaction == Idle => reward_action = NoAction

\* Between transactions the vault holds all that it owes: stakes, fees and the
\* rewards of every account, whatever was rounded and in whichever order the
\* accounts collected.
VaultSolvent == Idle => Liabilities(total_staked, STAKE) <= bloop[Vault]

\* The total is the sum of the stakes, and the converter keeps no bLOOP.
TotalsAgree ==
    Idle => /\ total_staked.staked = SumOver([u \in Users |-> STAKE[u].stake], Users)
            /\ bloop[Converter] = 0

\* All LOOP the converter has staked in a World.
Locked(world) == SumOver(world.principal, Durations)

\* What a reward is minted for has been restaked: outside Convert, a transaction
\* mints for the rewards of QueryDuration no more than what it adds to the LOOP stake,
\* as long as the converter restakes the duration it asks for.
MintIsBacked ==
    [][duration = QueryDuration /\ tx.kind \notin {"None", "Convert", "ConverterMint"} =>
         Supply(committed') - Supply(committed) = Locked(committed') - Locked(committed)]_vars

\* A staker can always take the stake out: such a transaction fails only if it
\* asks for more than the stake, or if the converter restakes a duration other
\* than the one whose reward the vault sees.
UnstakeSucceeds ==
    [][Abort /\ tx.kind = "Unstake" =>
         tx.amount \notin 1 .. committed.STAKE[tx.from].stake \/ duration # QueryDuration]_vars

\* What a user is shown is what a withdrawal then pays, up to the rounding of power and fees,
\* also when the reward comes round through the converter and the token first.
QueryPredictsReward ==
    [][tx.kind = "WithdrawRewards" /\ Accepts(Head(msgs)) /\ Idle' =>
         LET u == tx.address
             paid == committed'.bloop[u] - committed.bloop[u]
             shown == query_reward(committed, u)
         IN  /\ paid <= shown + Roundings
             /\ shown <= paid + CeilDiv(committed.STAKE[u].stake, Unit)]_vars

\* Fetching rewards neither loses a fee nor shows it twice. Convert does not restake the
\* reward it mints for, a donation brings a fee of its own, and with another duration the
\* reward that is shown stays where it is.
FeesShownOnce ==
    [][/\ tx.kind \in {"WithdrawRewards", "Unstake", "Harvest", "Send"} /\ duration = QueryDuration
       /\ tx.kind = "Send" => tx.hook = StakeHook
       => /\ query_treasury_reward(committed') = query_treasury_reward(committed)
          /\ query_syne_staking_reward(committed') = query_syne_staking_reward(committed)]_vars

\* Between two transactions the vault can pay all it owes, its totals are the sums of the
\* stakes, and no action of a user is left over.
VaultBooks == TypeOK /\ VaultSolvent /\ TotalsAgree /\ ActionEndsWithTransaction

\* A request does what was shown: a staker can take the stake out, a withdrawal pays the
\* reward of the query, and the fees of the queries are booked once.
RequestsHonoured == UnstakeSucceeds /\ QueryPredictsReward /\ FeesShownOnce

\* Every transaction ends: vault and converter do not call each other for ever.
TransactionsEnd == [](~Idle => <>Idle)

\* The vault is an atomic StakingVault for its users.
Promise == INSTANCE StakingVault WITH
    stake <- [u \in Users |-> committed.STAKE[u].stake],
    wallet <- [u \in Users |-> committed.bloop[u]],
    held <- committed.bloop[Vault]
ImplementsStakingVault == Promise!Spec
=============================================================================
