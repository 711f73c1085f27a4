----------------------------- MODULE VestingToken -----------------------------
(***************************************************************************)
(* cw20-vesting: a cw20 token whose accounts may hold tokens that are      *)
(* locked by a curve, that may be delegated to a staking contract even     *)
(* while locked, and whose total supply is capped by a curve. The staking  *)
(* contract only delegates back; other contracts only receive.             *)
(***************************************************************************)
EXTENDS Curves, TokenMarketing

CONSTANTS
    Contracts,           \* one of them becomes the staking contract
    InitialLists,        \* initial balances of instantiate: [address, amount, vesting]
    InitialMints,        \* None or [minter, cap], cap None or a curve
    Vesters,             \* allowed_vesters of instantiate: None or a list
    Creator,             \* sender of instantiate
    MaxComplexity,       \* max_curve_complexity
    Amounts,
    Schedules,           \* inputs of TransferVesting
    NewCaps,             \* inputs of migrate
    Expirations,         \* expirations of allowances, None for not given
    MaxSchedules, MaxSupply, MaxAllowance, MaxTime

Accounts == Callers \union Contracts
Pairs == Callers \X Callers
Never == MaxTime + 1

VARIABLES
    balances,            \* BALANCES
    supply, mint,        \* TOKEN_INFO
    allow_list,          \* ALLOWLIST
    vesting,             \* VESTING: a curve or None
    staking, delegated,  \* STAKING, DELEGATED
    allowances,          \* ALLOWANCES
    promised,            \* the schedules under which each account got tokens
    now

ledger == <<balances, supply>>
locks == <<vesting, promised>>
delegation == <<staking, delegated>>
vars == <<ledger, mint, allow_list, locks, delegation, allowances, publicity, now>>

-----------------------------------------------------------------------------
(* Schedules *)

assert_schedule_vests_amount(schedule, amount) ==
    validate_monotonic_decreasing(schedule) /\ range(schedule)[1] = 0 /\ range(schedule)[2] <= amount

fully_vested(schedule) == value(schedule, now) = 0

\* query_vesting: what is locked of an account, by a given map
locked(map, u) == IF map[u] = None THEN 0 ELSE value(map[u], now)

\* The check of deduct_coins: the rest, with what is delegated, covers the lock.
CanDeduct(map, sender, amount) ==
    /\ balances[sender] >= amount
    /\ locked(map, sender) <= balances[sender] + delegated[sender] - amount

\* A schedule that has come to 0 is removed.
Cleaned(map, sender) == IF locked(map, sender) = 0 THEN [map EXCEPT ![sender] = None] ELSE map

\* deduct_coins, and the tokens go to another account.
Move(map, sender, recipient, amount) ==
    /\ CanDeduct(map, sender, amount)
    /\ vesting' = Cleaned(map, sender)
    /\ balances' = [[balances EXCEPT ![sender] = @ - amount] EXCEPT ![recipient] = @ + amount]
    /\ UNCHANGED supply

\* deduct_coins, and the total supply falls.
Destroy(sender, amount) ==
    /\ CanDeduct(vesting, sender, amount)
    /\ supply >= amount
    /\ vesting' = Cleaned(vesting, sender)
    /\ balances' = [balances EXCEPT ![sender] = @ - amount]
    /\ supply' = supply - amount

-----------------------------------------------------------------------------
(* Instantiation *)

get_cap(m) == IF m = None \/ m.cap = None THEN None ELSE value(m.cap, now)

validate_accounts(accounts) == Cardinality({accounts[i].address : i \in DOMAIN accounts}) = Len(accounts)

AccountOk(row) ==
    row.vesting # None =>
        /\ assert_schedule_vests_amount(row.vesting, row.amount)
        /\ fully_vested(row.vesting) \/ validate_complexity(row.vesting, MaxComplexity)

RowOf(accounts, u) ==
    IF \E i \in DOMAIN accounts : accounts[i].address = u THEN CHOOSE r \in ToSet(accounts) : r.address = u
    ELSE [address |-> u, amount |-> 0, vesting |-> None]

create_accounts(accounts) ==
    LET stored(u) == LET v == RowOf(accounts, u).vesting IN IF v # None /\ ~fully_vested(v) THEN v ELSE None IN
    /\ validate_accounts(accounts) /\ \A i \in DOMAIN accounts : AccountOk(accounts[i])
    /\ balances = [u \in Accounts |-> RowOf(accounts, u).amount]
    /\ vesting = [u \in Accounts |-> stored(u)]
    /\ promised = [u \in Accounts |-> IF stored(u) = None THEN <<>> ELSE <<stored(u)>>]
    /\ supply = FoldLeft(LAMBDA s, r : s + r.amount, 0, accounts)

Init ==
    /\ now = 0
    /\ \E accounts \in InitialLists, m \in InitialMints :
        /\ m # None /\ m.cap # None => validate_monotonic_increasing(m.cap)
        /\ create_accounts(accounts)
        /\ get_cap(m) # None => supply <= get_cap(m)
        /\ mint = m
    /\ InitMarketing
    /\ \E list \in Vesters : allow_list = IF list = None THEN <<Creator>> ELSE list
    /\ staking = None /\ delegated = [u \in Accounts |-> 0]
    /\ allowances = [p \in Pairs |-> None]

-----------------------------------------------------------------------------
(* Transfers *)

execute_transfer(sender, recipient, amount) ==
    /\ amount > 0
    /\ Move(vesting, sender, recipient, amount)
    /\ UNCHANGED <<mint, allow_list, promised, delegation, allowances, publicity, now>>

\* Fault: the schedule replaces the one the recipient has.
Combined_Replaced(map, u, schedule) == schedule

Combined(map, u, schedule) == IF map[u] = None THEN schedule ELSE combine(map[u], schedule)

\* The schedule of the recipient is stored first, so a transfer to oneself
\* must leave what is locked then.
execute_transfer_vesting(sender, recipient, amount, schedule) ==
    LET sum == Combined(vesting, recipient, schedule)
        map == IF fully_vested(schedule) THEN vesting ELSE [vesting EXCEPT ![recipient] = sum]
    IN
    /\ Len(promised[recipient]) < MaxSchedules
    /\ sender \in ToSet(allow_list) /\ amount > 0
    /\ assert_schedule_vests_amount(schedule, amount)
    /\ ~fully_vested(schedule) => validate_complexity(sum, MaxComplexity)
    /\ Move(map, sender, recipient, amount)
    /\ promised' = IF fully_vested(schedule) THEN promised ELSE [promised EXCEPT ![recipient] = Append(@, schedule)]
    /\ UNCHANGED <<mint, allow_list, delegation, allowances, publicity, now>>

execute_burn(sender, amount) ==
    /\ amount > 0
    /\ Destroy(sender, amount)
    /\ UNCHANGED <<mint, allow_list, promised, delegation, allowances, publicity, now>>

CapAllows(total) == mint.cap # None => total <= get_cap(mint)

execute_mint(sender, recipient, amount) ==
    /\ supply + amount <= MaxSupply
    /\ amount > 0 /\ mint # None /\ mint.minter = sender
    /\ CapAllows(supply + amount)
    /\ supply' = supply + amount
    /\ balances' = [balances EXCEPT ![recipient] = @ + amount]
    /\ UNCHANGED <<mint, allow_list, locks, delegation, allowances, publicity, now>>

execute_update_minter(sender, minter) ==
    /\ mint # None /\ mint.minter = sender
    /\ mint' = [mint EXCEPT !.minter = minter]
    /\ UNCHANGED <<ledger, allow_list, locks, delegation, allowances, publicity, now>>

\* The contract is told; it keeps no books here.
execute_send(sender, contract, amount) ==
    /\ amount > 0
    /\ Move(vesting, sender, contract, amount)
    /\ UNCHANGED <<mint, allow_list, promised, delegation, allowances, publicity, now>>

-----------------------------------------------------------------------------
(* Vesters and delegation *)

execute_add_address(sender, address) ==
    /\ sender \in ToSet(allow_list) /\ address \notin ToSet(allow_list)
    /\ allow_list' = Append(allow_list, address)
    /\ UNCHANGED <<ledger, mint, locks, delegation, allowances, publicity, now>>

execute_remove_address(sender, address) ==
    LET rest == SelectSeq(allow_list, LAMBDA x : x # address) IN
    /\ sender \in ToSet(allow_list)
    /\ Len(rest) < Len(allow_list) /\ rest # <<>>
    /\ allow_list' = rest
    /\ UNCHANGED <<ledger, mint, locks, delegation, allowances, publicity, now>>

\* Only once, by the minter.
execute_update_staking_address(sender, address) ==
    /\ staking = None /\ mint # None /\ mint.minter = sender
    /\ staking' = address
    /\ UNCHANGED <<ledger, mint, allow_list, locks, delegated, allowances, publicity, now>>

\* Locked tokens may be delegated: deduct_coins is not used.
execute_delegate(sender, amount) ==
    /\ amount > 0 /\ staking # None
    /\ balances[sender] >= amount
    /\ balances' = [[balances EXCEPT ![sender] = @ - amount] EXCEPT ![staking] = @ + amount]
    /\ delegated' = [delegated EXCEPT ![sender] = @ + amount]
    /\ UNCHANGED <<supply, mint, allow_list, locks, staking, allowances, publicity, now>>

execute_undelegate(sender, recipient, amount) ==
    /\ amount > 0 /\ staking # None /\ sender = staking
    /\ delegated[recipient] >= amount
    /\ delegated' = [delegated EXCEPT ![recipient] = @ - amount]
    /\ Move(vesting, sender, recipient, amount)
    /\ UNCHANGED <<mint, allow_list, promised, staking, allowances, publicity, now>>

-----------------------------------------------------------------------------
(* Allowances *)

is_expired(exp) == now >= exp

Default == [allowance |-> 0, expires |-> Never]

Expires(old, expires) == IF expires = None THEN old ELSE expires

\* An expiration in the past is accepted.
execute_increase_allowance(owner, spender, amount, expires) ==
    LET val == IF allowances[owner, spender] = None THEN Default ELSE allowances[owner, spender] IN
    /\ val.allowance + amount <= MaxAllowance
    /\ spender # owner
    /\ allowances' = [allowances EXCEPT ![owner, spender] =
                          [allowance |-> val.allowance + amount, expires |-> Expires(val.expires, expires)]]
    /\ UNCHANGED <<ledger, mint, allow_list, locks, delegation, publicity, now>>

execute_decrease_allowance(owner, spender, amount, expires) ==
    LET val == allowances[owner, spender] IN
    /\ spender # owner /\ val # None
    /\ allowances' = [allowances EXCEPT ![owner, spender] =
                          IF amount < val.allowance
                          THEN [allowance |-> val.allowance - amount, expires |-> Expires(val.expires, expires)] ELSE None]
    /\ UNCHANGED <<ledger, mint, allow_list, locks, delegation, publicity, now>>

deduct_allowance(owner, spender, amount) ==
    LET val == allowances[owner, spender] IN
    /\ val # None /\ ~is_expired(val.expires) /\ val.allowance >= amount
    /\ allowances' = [allowances EXCEPT ![owner, spender].allowance = @ - amount]

execute_transfer_from(spender, owner, recipient, amount) ==
    /\ deduct_allowance(owner, spender, amount)
    /\ Move(vesting, owner, recipient, amount)
    /\ UNCHANGED <<mint, allow_list, promised, delegation, publicity, now>>

execute_burn_from(spender, owner, amount) ==
    /\ deduct_allowance(owner, spender, amount)
    /\ Destroy(owner, amount)
    /\ UNCHANGED <<mint, allow_list, promised, delegation, publicity, now>>

execute_send_from(spender, owner, contract, amount) ==
    /\ deduct_allowance(owner, spender, amount)
    /\ Move(vesting, owner, contract, amount)
    /\ UNCHANGED <<mint, allow_list, promised, delegation, publicity, now>>

-----------------------------------------------------------------------------

update_marketing(u, project, description, manager) ==
    /\ execute_update_marketing(u, project, description, manager)
    /\ UNCHANGED <<ledger, mint, allow_list, locks, delegation, allowances, now>>

upload_logo(u, l) ==
    /\ execute_upload_logo(u, l)
    /\ UNCHANGED <<ledger, mint, allow_list, locks, delegation, allowances, now>>

\* Only the kind of the new cap is checked.
migrate(cap) ==
    /\ cap.kind = "PiecewiseLinear" /\ mint # None
    /\ mint' = [mint EXCEPT !.cap = cap]
    /\ UNCHANGED <<ledger, allow_list, locks, delegation, allowances, publicity, now>>

Tick ==
    /\ now < MaxTime
    /\ now' = now + 1
    /\ UNCHANGED <<ledger, mint, allow_list, locks, delegation, allowances, publicity>>

Transfers(u) ==
    \E amount \in Amounts :
        \/ \E to \in Accounts : execute_transfer(u, to, amount)
        \/ \E to \in Accounts, s \in Schedules : execute_transfer_vesting(u, to, amount, s)
        \/ execute_burn(u, amount)
        \/ \E to \in Accounts : execute_mint(u, to, amount)
        \/ \E c \in Contracts : execute_send(u, c, amount)

Settings(u) ==
    \/ \E m \in Callers : execute_update_minter(u, m)
    \/ \E x \in Callers : execute_add_address(u, x) \/ execute_remove_address(u, x)
    \/ \E c \in Contracts : execute_update_staking_address(u, c)
    \/ \E project, description \in {None, Empty, Given}, manager \in Callers \union {None, Empty} :
           update_marketing(u, project, description, manager)
    \/ \E l \in Logos : upload_logo(u, l)

Spenders(u) ==
    \E o \in Callers, amount \in Amounts :
        \/ \E exp \in Expirations :
               execute_increase_allowance(u, o, amount, exp) \/ execute_decrease_allowance(u, o, amount, exp)
        \/ \E to \in Accounts : execute_transfer_from(u, o, to, amount)
        \/ execute_burn_from(u, o, amount)
        \/ \E c \in Contracts : execute_send_from(u, o, c, amount)

Next ==
    \/ \E u \in Callers : Transfers(u) \/ Settings(u) \/ Spenders(u)
    \/ \E u \in Callers, amount \in Amounts :
           execute_delegate(u, amount) \/ \E c \in Contracts : execute_undelegate(c, u, amount)
    \/ \E cap \in NewCaps : migrate(cap)
    \/ Tick

Spec == Init /\ [][Next]_vars

-----------------------------------------------------------------------------
(* Properties *)

\* The total supply is the sum of the balances.
SupplyIsSum == supply = MapThenSumSet(LAMBDA x : balances[x], Accounts)

Promised(u) == FoldLeft(LAMBDA s, c : s + value(c, now), 0, promised[u])

\* Tokens sent under a schedule stay with the account, held or delegated, as
\* long as the schedule locks them, whatever is sent, burnt, delegated or
\* spent by others meanwhile. Adding schedules may round away less than one
\* token for each.
LockedTokensStay == \A u \in Callers : balances[u] + delegated[u] >= Promised(u) - Max({Len(promised[u]) - 1, 0})

\* Everything that is delegated can be given back at any time.
DelegationsReturnable ==
    \A u \in Callers : delegated[u] > 0 => CanDeduct(vesting, staking, delegated[u])

\* At all times the total supply is within the cap, which never falls.
SupplyUnderCap == get_cap(mint) # None => supply <= get_cap(mint)

\* At least one address is on the allow list.
AllowListNotEmpty == allow_list # <<>>

=============================================================================
