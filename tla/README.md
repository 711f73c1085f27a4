# Synergistic JUNO contracts: TLA+ models and proofs

The repository holds the CosmWasm contracts of Synergistic on Juno: SYNE staking with
decaying voting power, liquid wrappers of LOOP and WYND (a converter and a vault each),
farming, DAO proposals, a gauge, and forks of the cw20, cw3 and cw4 contracts. This
directory models them in TLA+, checks the models with TLC on small instances and proves
the central facts about SYNE staking, the cw20 token, both liquid staking vaults, the farm, the
DAO proposals of both kinds and the multisig with TLAPS for every instance.

Two facts about the platform shape all of the models:

* A transaction runs alone, and an error or a panic anywhere in it (an unsigned
  underflow, a division by zero, an `unwrap` of `None`) undoes all of it. A handler that
  would fail is therefore an action whose guard is false, or an abort that restores the
  state before the transaction. What is concurrent is the order of the transactions of
  different accounts, and the messages contracts send each other within one.
* Messages of a `Response` are executed depth first, in order, after the handler returns.

## Inventory

| component | state | operations | interacts with |
|---|---|---|---|
| `syneswap_staking` | positions per user and duration (`MINT_TIME`, `USER_REWARD_INFO`), totals, reward pool and its history by date, owner settings | Stake, Restake, Unstake, Claim, Deposit, Distribute, settings | SYNE token; its balances are the voting power of the proposal contracts |
| `bloop-converter-and-staker` | admin, restake duration, addresses of token and vault | Convert, WithdrawRewards, Mint, ExecuteCosmosMsgs, Vote, config | LOOP staking (external), bLOOP token, vault |
| `bloop-vault` | `TOTAL_STAKED`, `STAKE`, the action that waits for rewards (`REWARD_ACTION`) | Stake and DistributeRewards hooks, Unstake, WithdrawRewards, fee withdrawals | calls the converter, is called back through the token |
| `bwynd-converter-and-staker`, `bwynd-vault` | as above, with unbonding periods | as above | WYND staking (external) |
| `loopswap_farming` | pools, stakes and rewards per user, reward per LP token, rewards already pending at the farm | stake, unstake and claim in rounds of submessage and reply, config | LP and reward tokens, the LOOP farm (external) |
| `syneswap_proposal` | proposals, ballots, locked deposits, config | propose, vote, execute, close, config | voting power from `syneswap_staking` |
| `syneswap_loop_multiple_choice_proposal` | proposals with options, ballots by round, histories | propose, vote, execute, reject, close, options | LOOP gauge (external) through the bLOOP converter |
| `synergistic_wynd_gauge` | gauges, votes, three maps of the tally, epochs and their history | create, update and stop gauges, options, place votes, execute, hook | WYND gauge (external) through the bWYND converter |
| `cw3-fixed-multisig` | voters, proposals, ballots | propose, vote, execute, close | |
| `cw4-group` | members and total with snapshots, admin, hooks | update members, admin and hooks | listeners |
| `cw20-base` | balances, two maps of allowances, supply, minter, marketing | Transfer, Send, Mint, Burn, allowances, marketing, migrate | calls the hook of the receiver of a Send |
| `cw20-vesting` | balances, vesting schedules, delegated amounts, allow list, cap as a curve | as cw20-base, and transfer vesting, delegate, undelegate | vesting curves, staking contract |
| `distribution` | epoch, payment, last payment | Payout, config | cw20 token and the receiver of rewards |
| `packages/controllers` | admin, claim queue, hook list | shared helpers | |
| `packages/syne-curve-utils` | none | vesting curves as pure functions | `cw20-vesting` |
| `packages/synedex` | price histories in ring buffers, ownership proposals | store_price, pair arithmetic, handover | a DEX whose contracts are elsewhere |
| `syneswap`, `synedao`, `cw-core-interface`, `cw-core-macros` | none | message types, mocks, macros | |

What is hard here, and the properties that answer it (PROJECT.json lists every hazard at
its line):

* **Late and missed steps.** A SYNE distribution catches up with missed periods in one
  call and writes the history later rewards come from (`RewardsFunded`, `PastKept`,
  `ClocksOrdered`). Gauges move their epoch and proposals their round lazily, by the first
  call that notices (`PlacedSound`, `HistoryKept`, `RoundSound`, `WholeRounds`). A bot that
  pays too late must still pay whole epochs (`PayoutsSound`).
* **Long sequences of legal calls.** Staking into expired positions, owner changes while
  positions are open, votes that replace votes cast with another power: nobody loses
  principal and all books add up (`LedgersSound`, `PrincipalReturned`, `BallotsCounted`,
  `TallySound`, `Cw20Sound`, `VestingSound`).
* **Callbacks and rounds.** The bLOOP vault stores what a user asked for, calls the
  converter, and goes on when the rewards arrive through the hook of the token. No action
  outlives its transaction (`VaultBooks`), the calls end (`TransactionsEnd`), and to users
  each request looks atomic (`ImplementsStakingVault`). The farm contract settles after two
  replies, with a snapshot that must be dropped in time (`NoUnderflow`, `FarmBooks`).
* **The same numbers stored twice.** Allowances by owner and by spender
  (`AllowancesAgree`), three maps of one tally (`TallySound`), snapshots and totals of a
  group and what its listeners know (`GroupSound`).
* **Rounding.** Vaults and farms must cover what they owe however often they round
  (`VaultBooks`, `BwyndSound`, `FarmBooks`); queries must show what is paid
  (`RequestsHonoured`, `QueriesTrue`, `StakersKept`); sums of curves and shares of pools
  stay on the right side (`CurvesSound`, `PoolProtected`).
* **Something must happen.** Transactions end, multisig proposals are decided
  (`EventuallyDecided`), mature claims that fit are paid (`ClaimsSound`), missed epochs are
  paid (`PayoutsSound`).

## Modules

| module | what it is |
|---|---|
| `SyneStaking`, `MCSyneStaking` | `contracts/syneswap_staking`: `contract.rs` and `minter.rs` |
| `SyneStakingProofs` | theorems about `SyneStaking` |
| `Sums`, `SumTheorems` | the sum of a function over a finite set, and the lemmas about it that all proofs share |
| `VaultAccounting` | the reward accounting both vaults share, as operators on `TokenInfo` and `StakingInfo` |
| `StakingVault` | what a vault promises to its users (abstract) |
| `BloopSystem`, `MCBloopSystem` | bLOOP converter, vault and token, message by message |
| `BwyndSystem`, `MCBwyndSystem` | bWYND converter, vault and token, transaction by transaction |
| `VaultProofs` | theorems about the accounting of the vaults, `BwyndSystem` and, through an instance of it, `BloopSystem` |
| `LoopFarming`, `MCLoopFarming` | `contracts/loopswap_farming` |
| `LoopFarmingProofs` | theorems about `LoopFarming` |
| `SingleChoice`, `MCSingleChoice` | `contracts/syneswap_proposal` |
| `SingleChoiceProofs` | theorems about `SingleChoice` |
| `MultipleChoice`, `MCMultipleChoice` | `contracts/syneswap_loop_multiple_choice_proposal` and the bLOOP converter's part of a vote |
| `MultipleChoiceProofs` | theorems about `MultipleChoice` |
| `WyndGauge`, `MCWyndGauge` | `contracts/synergistic_wynd_gauge` and the bWYND converter's part of a vote |
| `Multisig`, `Group`, `ClaimQueue`, `ListQueries` | cw3-fixed-multisig; cw4-group with the admin and hook controllers; the claims controller; the paginated queries of all contracts |
| `MultisigProofs` | theorems about `Multisig` |
| `MCCommittees` | TLC instance of the four |
| `Cw20Token`, `TokenMarketing` | cw20-base; the marketing handlers it shares with cw20-vesting |
| `Cw20TokenProofs` | theorems about `Cw20Token` |
| `VestingToken`, `Curves`, `CurveSums`, `Distribution` | cw20-vesting; the curves as operators; curves and their sums as a state machine; the distribution contract |
| `MCTokens` | TLC instance of the tokens, curves and distribution |
| `TimeBuffer`, `RingBuffer`, `PriceOracle` | synedex: the ring buffer as operators, one buffer that is filled, the three histories of prices |
| `PairHelpers`, `Ownership` | synedex: commission, spread and share arithmetic; the handover in two steps |
| `MCSynedex` | TLC instance of the synedex parts |

Operators marked `Fault:` are the mistakes the properties are tested against. They stand
before the definition they spoil and are not part of any specification.

Three techniques recur in the MC modules:

* **Scenes.** Where one instance with everything in it is too large, `scene` is chosen at
  the start and `Within` bounds the steps of that scene: it leaves out transactions or
  amounts, and never changes what a transaction does. Each scene has the interleavings one
  group of hazards needs.
* **Parts.** Components that do not call each other share a run (`MCCommittees`,
  `MCTokens`, `MCSynedex`): `part` is the one that runs and the others rest in one state.
  What it reaches is exactly what separate runs would.
* **Named conjunctions.** A property of a run such as `VaultBooks` is a conjunction of
  properties that are stated, each with its comment, in the component's module; where a
  theorem is about the conjunction, it stands there too.

### SyneStaking

One variable per storage item or per field other handlers read; `cfg` holds the numeric
settings of the owner. `balance` and `actual_balance` of `MINT_TIME` are always equal, so
there is one variable; a position without an entry has balance and times 0 (the code
removes the entry and treats a missing one the same way). Every action is one successful
transaction with its guards taken from the conditions, early returns and unsigned
subtractions of its handler.

* `query_user_reward` walks a map of dates. `RewardDates` are the keys it visits,
  `IndexBefore` is the index its loop variable holds at a date, `IndexDiff` and
  `DateReward` what the date adds. `QueryDefined` says that no subtraction underflows.
* `Distribute` loops over the missed periods. `TotalRewardAt(k)`, `RewardIndexAt(k)` and
  `PowerDateAt[k]` are the loop variables before iteration `k`; `DistributedDates` is the
  map it leaves; `FundsCoverAll` is the check made in every iteration.
* `execute_mint` is the minting of voting power inside Stake and Restake, with the
  decaying total of `TOTAL_BALANCES`.
* `query_balance` is modelled as it is written, with the loop variable that survives.

The conversion of the 10^12 fixed point stays (`REWARD_CALC_UNIT`); sums stay far from
2^128 in the instances and the supply is capped, so the width is not modelled.

### The vaults

In `BloopSystem`, `msgs` is the list of messages still to execute, first one next; a handler
replaces the head by the messages of its response. `committed` is the state an error
restores. `Accepts(m)` is false exactly when the handler of `m` fails, and then `Abort`
restores `committed`; otherwise the handler's action runs. `tx` remembers the first message.
`Perform` is the pattern shared by stake, unstake and withdrawal: if the LOOP staking
contract owes a reward, remember the action and call the converter, else act at once.
`execute_distribute_rewards` is the hook that finishes a remembered action. The external
LOOP staking contract is what the code uses of it: stakes and owed rewards by duration,
`Restake` fails when nothing is owed for that duration, rewards accrue between
transactions.

`BwyndSystem` is the WYND pair at the level of transactions, over the same
`VaultAccounting`; how a stored action meets its messages is the subject of
`BloopSystem`. Here the converter collects rewards in Convert too, both fees are taken, and the unbonding period of
the config may be one that the staking module does not offer.

`StakingVault` is the promise to the users: in one step an account stakes, unstakes or
receives; other accounts are not touched; stakes stay covered by what the vault holds. Both
systems implement it. For `BloopSystem` the mapping shows the last `committed` state, so
that a transaction of a dozen messages is one abstract step and an aborted one is none.

### LoopFarming

Stake, unstake and claim are three handlers each (request, reply after the farm has
distributed, reply after the farm has paid), all in one transaction: the action calls the
three in order. The farm is an environment with stakes and pending rewards by pool and
token. An unstake takes the whole position of the contract out of the farm and stakes the
rest again (`StakeRest`). `NoUnderflow` says that no subtraction of a handler can panic in
any reachable state; all other failures are guards. `NoDilution` is exact: although power,
reward and fee are rounded separately, no step of another account lowers what a user is
shown by even one token.

### Proposals and gauge

The staking contracts and the outer gauges are environments: powers change between any
two transactions, rounds and epochs of LOOP and WYND begin and end by their own clock.
`SingleChoice` keeps the code's thresholds, its early decision and its deposits.
`MultipleChoice` has the status a proposal stores and the one its query derives
(`query_proposal`), the versions and histories of its rounds and the percentages that are
placed. `WyndGauge` has the three maps of the tally, the selected set and its weights, and
the epochs that move lazily.

### Committees, tokens, synedex

`Multisig` and `Group` take the rules of the crates cw3, cw_utils and cw_storage_plus
(`SnapshotMap`) as external. `ListQueries` has the paginated queries of all contracts and a
client that walks a list with the last key as its cursor while entries come and go.
`Cw20Token` starts with a new token or with one of an older version that has to be migrated
(`code`), and remembers in `credited` what Receive messages told a contract.
`VestingToken` checks the lock against balance and delegation together, as the code does.
`Curves` rounds as the code does: falling lines up, rising ones down. `PriceOracle` stores
prices as a vector in the order of one loop over the assets and reads it in that of another.

## Runs

| run | question | distinct states |
|---|---|---|
| `syne` | Do pool, history, ledgers, locks and freeze survive late distributions, expired positions and changes of the config? (`RewardsFunded`, `ClocksOrdered`, `LedgersSound`, `PastKept`, `FreezeStopsOutflow`, `PrincipalReturned`) | 776,380 |
| `syne_unstake_blocked` | a disagreement, see Findings (`UnstakeAllowed`) | counterexample |
| `bloop` | Do vault, converter and token keep their books message by message, end every transaction and look atomic? (`VaultBooks`, `MintIsBacked`, `RequestsHonoured`, `TransactionsEnd`, `ImplementsStakingVault`) | 495,487 |
| `bwynd` | Is bWYND backed, can everybody leave, and do the queries show what is paid, with both fees and an admin? (`BwyndSound`, `QueriesTrue`, `ImplementsStakingVault`) | 415,315 |
| `farming` | Can a settlement panic, dilute earlier stakers or promise what is not there? (`NoUnderflow`, `FarmBooks`, `StakersKept`) | 134,387 |
| `proposal` | Are votes counted and deposits returned while powers, thresholds and the staking contract change? (`BallotsCounted`, `DepositsReturned`, `OutcomeSound`) | 1,148,492 |
| `choice` | Is every round of the LOOP gauge tallied from its own ballots, placed once and recorded? (`RoundSound`, `WholeRounds`, `OutcomeRecordKept`) | 598,908 |
| `gauge` | Do the maps of the tally agree with the votes through hooks, epochs and options that come and go? (`TallySound`, `PlacedSound`, `HistoryKept`) | 199,726 |
| `gauge_removed` | a disagreement, see Findings (`VotesRemovable`) | counterexample |
| `committees` | Are proposals decided once and in the end, snapshots and listeners in step, claims paid, lists walked whole? (`MultisigSound`, `EventuallyDecided`, `GroupSound`, `ClaimsSound`, `WalksSound`) | 307,906 |
| `tokens` | Do supply, allowances, caps and locks hold, are curves what they are accepted for, are missed epochs paid? (`Cw20Sound`, `AllowancesAgree`, `SpendingAuthorized`, `VestingSound`, `CurvesSound`, `PayoutsSound`) | 262,804 |
| `synedex` | Are histories of prices true, do the pair helpers protect the pool, does ownership go only where the owner said? (`PricesTrue`, `PoolProtected`, `HandoverSound`) | 79,129 |

Bounds, and why they are enough for the cases to happen:

* `syne`: a day is two ticks, a distribution is due every day and a month is two days, so
  within `MaxTime` positions start in mid-day, expire, are renewed and several
  distributions are missed. Two users act up to time 9 ("rewards"), one user up to 11
  ("late"), and one user up to 7 while the owner freezes, hands over, adds a duration and
  shortens month and day ("settings"). The deposited reward runs out and the decay rounds.
  `syne_unstake_blocked` is the scene "rewards" with stakes of 4, a rate of 10 and a deposit
  of 20, so that the decay does not round.
* `bloop`: the Decimal unit is 10, the fee 2/10 and a reward 6, so fee, power and payment
  all round; `MaxLoop` allows two rewards. `MaxSupply` and `MaxPower` stop admin mints and
  donations from growing the state for ever. Scenes: any amounts ("rewards"), admin mints,
  handover and durations ("admin"), users who send rewards themselves ("donations").
* `bwynd`: both fees (2/10 and 1/10), rewards of 5, one period that is not offered.
* `farming`: two pools with one reward token, or one pool that gets a second token while the
  owner changes fee and lists; two distributions of 5 among stakes of 1 and 2.
* `proposal`: powers 0 to 2 that change under one proposal while thresholds of all kinds are set, or two
  proposals with fixed powers and another staking contract.
* `choice`: two rounds; powers up to 2 and 1 that change; lists of votes that give away 50 %, 100 %, or name a
  pool twice. `gauge`: two epochs; two gauges with hooks; options that are removed and added.
* `committees`: weights 0, 1 and 2 with absolute, percentage and quorum thresholds and two
  proposals; two heights with an address in both lists of one message; caps below, at and
  above a claim; walks with up to three concurrent changes.
* `tokens`: parts `spend` (allowances, expiry, migration), `mint` (cap, marketing), `locks`,
  `spenders` and `caps` of the vesting token, `methods` (every curve with up to three steps
  on small points, valid or not), `adding` (sums of three schedules), `payouts`.
* `synedex`: the ring has three slots and wraps three times; blocks are within a minute, a
  minute, half an hour and an hour apart; proposals of no time, at and above the limit.

Deadlock is checked in `syne`, `bloop` and `bwynd`, where some account can always
act; in the others the bounds of time and numbers stop the system. Symmetry of users is
used in `syne` only, which has no liveness property and names no user.

Fairness. `BloopSystem` assumes weak fairness of `Execute`, the steps of a transaction that
is already running: the chain executes a transaction to its end. `Multisig` assumes that
blocks go on (`Tick`) and that somebody executes or closes a proposal that stays
executable or closable, which any account may do and the fixed voters want done.
`ClaimQueue` assumes blocks and a user who keeps claiming with a cap; `Distribution` that the
bot keeps calling and the owner keeps funding, which is how the contract is deployed. Nothing
is assumed about votes, stakes, rewards or owners. `SyneStaking` and the rest have no fairness:
nobody is obliged to call them.

## Proofs

The theorems hold for all sets of users, pools, tokens, durations and proposals, all
amounts, and any order of the transactions. Each component's assumptions on its constants
are named in its module and evaluated by TLC in the runs. They are finiteness of the sets
that are summed over, natural amounts, and what a message or a type of the code guarantees.
A theorem that needs more than that says so as a hypothesis, and the instance of the run
satisfies the hypothesis too (`ASSUME` in the MC module).

**Sums** (`SumTheorems`). The ledgers are sums over users. `SumOver(f, S)` is the
fold of the community modules, defined by a recursive function on the subsets of `S`.
`SubsetInduction` and `NumberInduction` are proved from the existence of a minimal
counterexample (`WFMin` of the library, for a set and not an operator); they show that this
function exists and is unique, and from its equations follow
`SumRemove`, `SumChange` and `SumShift` (one summand changes), `SumRename`, `SumMonotonic`,
`SumPart` and `SumLinear` (a share of every summand is the share of the sum).

**SyneStaking** (`SyneStakingProofs`), for any number of missed periods:

* `ClocksAreOrdered`: `Spec => []ClocksOrdered`. `ClockInv` adds the types of the clocks
  and that `cfg` holds naturals, which the division of whole periods needs
  (`WholePeriods`: rounding down to a period never passes the block time).
* `RewardsAreFunded`: `Spec => []RewardsFunded`. `FundsInv` adds the types of the three
  totals. The step that matters is `Distribute`: the last period that finds power to reward
  passed its own check against the funds, and after it the total does not change
  (`OneMoreReward`, `DistributeFunded`); it needs `ClockInv` for the number of periods.
* `FreezeIsRespected` and `PrincipalIsReturned`: the action properties
  `FreezeStopsOutflow` and `PrincipalReturned`. `BalanceInv` types wallets and balances,
  and `BalanceStep` is what one step does to them: a position shrinks only by an unstake
  after its lock, and its owner receives the principal and the reward.
* `BooksAlwaysAgree`: types, solvency and the ledger of stakes, whatever the owner sets.
  `BooksInv` joins the invariants above with `LedgerInv` (the sums), `PowerInv` and
  `HistoryInv` (the closed dates).
* `LedgersAlwaysSound`: `[]LedgersSound`, which adds that no query of a reward panics. It
  has the hypothesis `SaneSettings`: the owner sets no empty day or lock and no day longer
  than the first block time. The handlers check none of this, and without it the
  subtraction in the query does fail.
* `PastIsKept`: the action property `PastKept`. The recursive date function of a
  distribution is handled by `NumberInduction`.

**Cw20Token** (`Cw20TokenProofs`), also for every token of an older version that is
migrated:

* `AllowancesAlwaysAgree`: `Spec => []AllowancesAgree`. `GrantsInv` adds the types of both
  maps and that nobody has an allowance from himself; the code refuses to set one, and
  without that fact writing one entry to both maps would not show that they agree. Before
  the migration the map by spender has no meaning, and the property speaks of migrated
  tokens. `SameEntry` is a call that writes an entry to both maps, `Deducted` one that
  spends from both.
* `SpendingIsAuthorized`: the action property `SpendingAuthorized`. `LeavesStep` says how a
  balance can fall; the rest is which call made it fall and with which allowance.
* `CreditedIsAlwaysHeld`: a contract holds what its Receive messages told it, from
  `BalancesInv` (balances are natural numbers and cover what was credited).
* `Cw20AlwaysSound`: `[]Cw20Sound`. `SupplyInv` is that the supply is the sum of the
  balances and within the cap of the first minter, `MarketingInv` that an announced logo
  is stored.

**LoopFarming** (`LoopFarmingProofs`). Every step either settles the rewards of one user in
one pool, with or without paying (`Settles`), while only that user's stake moves
(`Restakes`), or touches no reward (`Rests`): `StepKinds`. `FarmInv` is inductive. The part
that is not a property is `EarnedCovered`: the rewards are summed before they are rounded,
in units of 1/`Unit`, and are covered by what is held and the snapshot. Rounded amounts
would not do, as a settlement moves the places where rounding happens. `TokensInv` (a token
that a pool does not pay left no trace) and `FirstStakeInv` (no weight before the first
stake, and the last stake stays because the whole stake is refused) are what the
subtractions need.

* `NeverUnderflows`: `[]NoUnderflow`. `FarmBooksBalance`: `[]FarmBooks`, where `Covered`
  derives solvency in claimable tokens from `EarnedCovered`.
* `StakersAlwaysKept`: the action properties of `StakersKept`. `DueSettled` and `DueKept`
  compute what is due after a step, and `ShownGrows` compares it with what was shown.

**BwyndSystem** (`VaultProofs`), for any users, fees, periods and rewards. The heart is
`VaultInv`, about the operators of `VaultAccounting`: the stakes add up to the total, no
account's `power_diff` is ahead of the vault's power, and the fixed debt (stakes and fees)
times `Unit` plus what the accounts have earned, summed *before* it is rounded, is at most what
is held times `Unit`. Solvency in whole tokens is not inductive: when a reward arrives the
power of all accounts grows, and rounded rewards may grow by more than their share of it. The
unrounded sum grows by power times total stake, which the division by the total stake keeps
below the net reward (`RewardArrives`). `AccountSettled` is what a request does: what leaves is
at most what the account had earned and its stake. `BwyndInv` adds types and backing.
`StepKinds` sorts the transactions by what they do to the books (an account is served, a reward
is fetched, a gift is handed over, tokens are minted, nothing moves), and the theorems follow
the five kinds:

* `BwyndAlwaysSound`: `[]BwyndSound`. `DebtCovered` rounds `VaultInv` down to solvency, and
  `UnstakeCovered` shows that any single account can be paid stake and reward at once, also
  with the rewards that still wait.
* `BwyndQueriesTrue`: the action properties of `QueriesTrue`. `NetReward`, `SharesClose` and
  `PartsClose` bound the distance of the two formulas of a reward, which round in different
  places: the user gets at most `Roundings` tokens more (3 with both fees), and at most one
  token less for each `Unit` of stake, rounded up. `FeesFetched` is the part on fees.
* `BwyndImplementsVault`: `Spec => ImplementsStakingVault`, the refinement of `StakingVault`.
  Each kind of transaction is one of its actions or a stutter, and `PrincipalCovered` gives the
  condition that stakes stay covered.

**BloopSystem** (`VaultProofs`, `Bloop == INSTANCE BloopSystem`), for any users, durations, rewards
and amounts, with the books of `VaultInv` again, but every message is a step, and any of them
may fail. `Bloop!SystemConstants` is the assumption of the module on its constants, a hypothesis
of each theorem. In the middle of a transaction the books are not in order, and a reward that is
fetched passes through six handlers of four contracts. `BloopInv` therefore says that the
committed world is sound (`WorldSound`) and that the transaction is in one of eight stages
(`Stage`), each of which fixes the list of messages that are left and what has been moved since
the start (`Moved`), what the vault remembers and for whom (`Asks`), and what is still as it was:

* `Resting`, `Started`; `Handed`: the token has moved what was sent and calls the vault;
  `Fetching`: the vault has remembered the request and asks the converter; `Arriving`: the reward
  is minted, sent and handed over; `Converting`; `Minting`; and `Paying`: the books are settled
  and transfers are left. `Paying` speaks of the world that the transfers lead to, and its
  `Outcome` is fixed at the moment the books are settled.
* `Outcome(t, c, d, dur)` is what a transaction that began with `t` in world `c` has done when it
  commits `d`: it has served one account (with what it put in, took out, received, fetched and
  minted), fetched a reward for all, handed over a gift, or minted for the admin. One lemma per
  stage (`HandedAdvances`, `FetchingAdvances`, ...) and one per first message (`ConvertStarts`, ...)
  show that a step goes to the next stage or commits an outcome, `AbortRests` that a failure
  restores a resting world; `BloopStepKinds` collects them.

The theorems read only the outcomes:

* `BloopBooksAlwaysSound`: `[]VaultBooks`, with `DebtCovered` as for bWYND. That no action is left
  over is part of `Resting`.
* `BloopMintIsBacked`: `MovedSum` adds up what an outcome moves, and `Restaked` is what it adds to
  the stake.
* `BloopImplementsVault`: the refinement. An outcome is one action of `StakingVault`, every other
  step leaves `committed` and is a stutter.
* `BloopRequestsHonoured`: `UnstakeAccepted` goes through the stages of an unstake and shows that
  the next message is accepted in each; `ShownIsPaid` is the bound on the query, shared with bWYND;
  `OutcomeFees` the part on fees.

**SingleChoice** (`SingleChoiceProofs`):

* `BallotsAlwaysCounted`: `[]BallotsCounted`. `TallyInv` has the types of config, rows and
  ballots and the tally as a sum over the members.
* `OutcomeAlwaysSound`: the action properties of `OutcomeSound`, with the hypothesis
  `CoarsePercentages`: no valid percentage is finer than the precision of the comparison
  (10^-9). Below it the required share rounds to 0 and a proposal passes without a yes vote;
  the validation accepts any percentage above 0.
* `LocksAlwaysReturned`: `[]LockReturned` with the hypothesis `FixedDeposit`, because closing
  releases the deposit of the current config (see Findings). `DepositInv` says what is
  locked: one deposit for each unsettled proposal.

**MultipleChoice** (`MultipleChoiceProofs`), for all lists of votes, also lists that name a pool
twice or give away less than everything, and options that anybody adds and removes at any time:

* `RoundsAlwaysSound`: `Spec => []RoundSound`. A vote is a fold over the pools it names
  (`CastAll`), and so is the removal of options (`Remaining`). `IsFold`, `FoldExists` and
  `FoldSteps` give the intermediate states of a fold, by `NumberInduction`. Along a vote
  (`CastAllSound`) the shares stay within what is left of the old total plus what was given so
  far, and `GivenWithinPower` bounds what is given by the power of the voter, since every part
  is rounded down and the percentages add up to at most 100.
* `OutcomesNeverOverwritten`: `Spec => OutcomeRecordKept`. Both theorems rest on `HistoryInv`.
  Versions run ahead of rounds, as a timeout is recorded under a new version and the reset
  proposal is then not saved, so the outcomes that are kept are not those of older versions.
  `Recorded` is what holds: an outcome under the current version belongs to a
  proposal that has ended in that round, no outcome has a later version, and an executed round
  is over when the proposal is open again. A new version is taken before anything else is
  recorded, and `Execute` and `Reject` need an open proposal.

**Multisig** (`MultisigProofs`): `MultisigAlwaysSound` is `[]MultisigSound` from
`MultisigAssumption`, for every list of voters, with duplicates too, and every valid
threshold. `MultisigInv` adds types, that ballots have the weight of their voter, and
`DecisionInv`: a proposal stored as `Passed` or `Executed` fulfils `is_passed` at every later
time, and one stored as `Rejected` never does and has expired or fulfils `is_rejected`. The
votes that are missing are bounded by the total weight, and no further votes outweigh those
that decided.

Only model-checked:

* liveness (`TransactionsEnd`, `EventuallyDecided`, parts of `ClaimsSound` and
  `PayoutsSound`) and `NoProposalStuck` in `DepositsReturned`, since fairness and ENABLED are
  out of reach of the prover;
* the gauge, the group, the vesting token, the curves (what `RECURSIVE` definitions compute for
  every input is out of reach) and synedex: they have no proof module yet;
* `WholeRounds` of the multiple choice proposal: it holds while nobody changes the options and
  every vote gives away the whole power, which is a scene of the instance and no assumption the
  code makes, and the sorted list of percentages it speaks of is a builtin of TLC to the prover.

## Findings

Two runs show a disagreement between the code and what the repository says:

* `UnstakeAllowed`: "Allow users to unstake tokens from staking contract"
  (`contract.rs:657`), and the one revert over the reward that `execute_unstake` documents
  is that "actual reward amount in contract is less than withdrawal reward amount" (line
  744). In the run a user whose lock is over cannot leave although the contract is not
  frozen and the deposited reward is enough: line 740 subtracts the payment from
  `TOTAL_REWARD` first, and that is too small. The trace, with a month of 4 and a day of 2:
  1. u1 stakes 4 at time 4 and u2 stakes 4 at 7. The power of u1 has decayed to 1, so the
     stored total is 1 + 4 = 5.
  2. At 7 `Distribute` is called with a rate of 0, which skips the period from 4. The rate
     becomes 10.
  3. `Distribute` at 8 rewards the period from 6. `query_total_balance` replaces the 6 by
     the time of the last mint, 7 (`minter.rs:441`), and 10 is divided by 5.
  4. `query_user_reward` pays by the power at date 6, which is still open: 2 for u1, 4 for
     u2. The 10 released are owed as 4 + 8.
  5. u2 restakes its 8. `TOTAL_REWARD` is 2, the deposited reward 12; u1 is owed 4 and its
     unstake reverts, with the principal.

  The instance has amounts whose decay is whole, so rounding plays no part. (With stakes of
  one token the rounding of the decayed total alone also makes the owed rewards too large.)
  With the total taken at the date of the period instead of the last mint, TLC finds no
  violation in the whole instance.
* `VotesRemovable`: votes on a gauge "can be updated anytime". After RemoveOption the vote
  of a member who voted for the option cannot be changed or removed: the next change
  subtracts its points from a tally that is gone, and panics.

The modules state further sentences of comments, error texts and READMEs that TLC refuted when
they were modelled. They stay as definitions next to the properties that hold: taken as an
invariant of an instance of the module they have a counterexample, in some cases with inputs
the instances here leave out (an address listed twice, a change of the deposit).

| module | statement | what the code does instead |
|---|---|---|
| `SyneStaking` | `IndexCountedOnce` | after a claim, a closed date below the user's index moves the loop's index back, and the growth since then is counted again |
| | `TotalPowerCoversUsers` | adding to an expired position restores the user's power but not the total's |
| | `BalanceIsSumOfDurations` | `query_balance` adds the power of one duration again for an expired one |
| `LoopFarming` | `WholeStakeCanLeave` | the check `user_staked.gt(&amount)` also refuses the whole stake (`contract.rs:1459`) |
| | `ShownRewardCanBeClaimed` | a claim fails unless the pending reward has grown since the last stake, although earlier rewards are owed and shown (`contract.rs:1662`) |
| `SingleChoice` | `MajorityOfVotes` | every vote replaces the total power while ballots keep theirs, so no votes cast before an unstake can lose to fewer yes votes (`contract.rs:333`) |
| | `EarlyPassIsSure` | votes are accepted after an early pass, and the status stays Passed when they no longer support it |
| | `PercentOfVotes` | yes votes are compared with a percentage of the total power, not of the votes |
| | `MinVotingPeriod` | the check of the minimum voting period is commented out |
| | `EveryMemberCanVote` | abstentions cast with more power than is left make every vote and query of the proposal panic |
| | `LockReturned` after a change of the deposit | closing releases the deposit of the current config, not the one that was locked |
| `MultipleChoice` | `QueryIsAccurate` | a closed proposal is shown open when the gauge has renewed its round |
| | `VotesBeforeExpiration` | after `update_props` a vote is counted without looking at the end of its round |
| | `ExecutionComputes` | partial votes leave percentages over, and Execute panics when there are fewer options than missing percents |
| | `CloseAfterWaiting` | the comparison with the hold time is the wrong way round |
| | `DepositPerProposal` | a closed proposal can be closed again and releases another deposit |
| `WyndGauge` | `StoppedNotUpdated` | the hook updates stopped gauges too |
| | `PowersCurrent` without the hook | syneswap_staking never calls the hook, so votes keep the power they were cast with |
| | `DueIsExecutable` | Execute is refused once the WYND gauge has renewed its epoch |
| | `EpochExecutedOnce` | before WYND renews its epoch, Execute succeeds and records the epoch again |
| | `NextGaugeCreatable` | AddOption does not look whether the gauge exists, and the option then keeps CreateGauge from succeeding |
| | `EntriesCounted` | of two entries for one option only the last is counted, while both are stored |
| | `VotesInEpoch` | when the block time is exactly the next epoch, votes still change the epoch that is over |
| `Multisig` | `UnanimityPasses` | an address listed twice counts twice in the total weight and once as a voter, so a threshold can be out of reach |
| `Cw20Token` | `IssuedUnderCap` | the cap bounds the supply, so that burnt tokens can be issued again |
| `CurveSums` | `CombineIsSum` | the values at the steps are rounded before the sum is interpolated |
| | `GeneralizesSaturating` | the check of the order begins with 0, so a first step at 0 is refused |
| | `ScaledFalls` | the curve is scaled and rounded before it is checked, so close ratios are not told apart |
| `VestingToken` | `AllowListNotEmpty` | instantiate accepts an empty list, and nobody can then add to it |
| | `SupplyUnderCap` after a migration | migrate accepts a cap that falls or lies below the supply |
| `ListQueries` | `AllVotesListed` | a walk that meets a new round goes on in the ballots of that round |
| `RingBuffer` | `EntriesOrdered`, `WindowKept` | the start of the ring advances by an index that still contains the old start (`oracle.rs:240`) |
| `PriceOracle` | `WeekByTwelveHours` | `TWELVE_HOURS` is one hour |
| `PairHelpers` | `BeliefNeedsLimit` | the price of the user counts without a limit too |

Nothing in the repository says what should happen in further cases that the models show:
`Convert` of the bLOOP converter mints an owed reward without restaking it, so the reward
and its fees are shown a second time (`FeesShownOnce` leaves Convert out for that reason); the
fees of the vaults and the treasury reward of the farm cannot be withdrawn, since every path
to them fails; the gauge config query of the bWYND converter returns its main config; list
queries in reverse order cannot be paged.

## Not modelled

* `syneswap`, `synedao`, `cw-core-interface`, `cw-core-macros`: message types, mock
  queriers and compile-time macros without state. Message types are the parameters of the
  actions that handle them.
* The rest of `synedex`: asset helpers, factory and pair messages of a DEX whose contracts are
  not in the repository.
* `ExecuteCosmosMsgs` of the converters: the admin may send any message, so no property of
  the system survives it. Replies of instantiation end before the first transaction.
* Handlers that cannot succeed (withdrawal of treasury fees from the vaults and the farm,
  `DepositInVaultAddress`), handlers whose result nothing reads (`UpdateConfig` and `UpdateAdmin`
  of the vaults, some settings of `syneswap_staking`), and dead code (resetting a gauge, the
  thresholds of the multiple choice proposal).
* Names, texts, attributes and events; the messages a proposal carries (they run in the
  transaction that marks it executed, and one that fails undoes it); errors of external
  queries.
* Integer width: all amounts are 128 bit and the supplies are capped far below.

## Plan

1. Proofs: the tallies of `WyndGauge`, with the folds of `MultipleChoiceProofs`;
   `SnapshotsAgree` of `Group`; the locks of `VestingToken`.
2. `BwyndSystem` message by message, as `BloopSystem` is, with an error of the reward query, and
   its proofs along the stages of the bLOOP vault.
3. `SingleChoice` over `SyneStaking` instead of an environment of powers.
