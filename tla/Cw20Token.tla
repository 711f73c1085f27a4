------------------------------ MODULE Cw20Token ------------------------------
(***************************************************************************)
(* cw20-base: balances, allowances in a map by owner and one by spender,   *)
(* a minter with a cap, and the migration that builds the map by spender.  *)
(* Marketing data are in TokenMarketing. Contracts only receive.           *)
(***************************************************************************)
EXTENDS TokenMarketing, Sums, Integers, Sequences, FiniteSets, SequencesExt

CONSTANTS
    Contracts,           \* recipients of Send and SendFrom
    InitialLists,        \* initial balances of instantiate
    InitialMints,        \* None or [minter, cap], cap None for no cap
    OldAllowances,       \* allowances of a token older than 0.14.0
    Amounts,
    Expirations,         \* expirations of allowances, None for not given
    MaxSupply, MaxAllowance, MaxMinted, MaxTime

Accounts == Callers \union Contracts
Pairs == Callers \X Callers

\* AllowanceResponse, the value of both maps of allowances.
AllowanceResponse == [allowance : Nat, expires : Nat]

\* Amounts, caps and expirations are unsigned, contracts are not among the
\* callers (what one is sent stays there), and no old allowance is to oneself.
ASSUME TokenAssumption ==
    /\ IsFiniteSet(Accounts) /\ Callers \intersect Contracts = {}
    /\ Amounts \subseteq Nat /\ MaxTime \in Nat
    /\ InitialLists \subseteq Seq([address : Accounts, amount : Nat])
    /\ \A m \in InitialMints : m # None /\ m.cap # None => m.cap \in Nat
    /\ None \notin AllowanceResponse /\ Expirations \subseteq Nat \union {None}
    /\ OldAllowances \subseteq [Pairs -> AllowanceResponse \union {None}]
    /\ \A old \in OldAllowances : \A u \in Callers : old[<<u, u>>] = None

\* Expiration::Never
Never == MaxTime + 1

VARIABLES
    balances,            \* BALANCES
    supply, mint,        \* TOKEN_INFO
    allowances,          \* ALLOWANCES, by (owner, spender)
    allowances_spender,  \* ALLOWANCES_SPENDER, by (spender, owner)
    code,                \* "old" until a token from before 0.14.0 is migrated
    credited,            \* what Receive told each contract
    first_cap, minted,   \* the cap of instantiate; what was minted since
    now

ledger == <<balances, supply, credited>>
grants == <<allowances, allowances_spender>>
minting == <<mint, first_cap, minted>>
vars == <<ledger, grants, minting, publicity, code, now>>

-----------------------------------------------------------------------------
(* Instantiation *)

validate_accounts(accounts) == Cardinality({accounts[i].address : i \in DOMAIN accounts}) = Len(accounts)

BalancesOf(accounts) ==
    [x \in Accounts |-> IF \E i \in DOMAIN accounts : accounts[i].address = x
                        THEN (CHOOSE r \in ToSet(accounts) : r.address = x).amount ELSE 0]

create_accounts(accounts) ==
    /\ validate_accounts(accounts)
    /\ balances = BalancesOf(accounts)
    /\ supply = SumOver([i \in DOMAIN accounts |-> accounts[i].amount], DOMAIN accounts)

get_cap(m) == IF m = None THEN None ELSE m.cap

NoEntry == [p \in Pairs |-> None]

\* A new token, or one of an older version that is about to be migrated.
Init ==
    /\ \E accounts \in InitialLists, m \in InitialMints :
        /\ create_accounts(accounts)
        /\ get_cap(m) # None => supply <= get_cap(m)
        /\ mint = m /\ first_cap = get_cap(m)
    /\ InitMarketing
    /\ allowances_spender = NoEntry
    /\ \/ code = "new" /\ allowances = NoEntry
       \/ code = "old" /\ allowances \in OldAllowances
    /\ credited = [c \in Contracts |-> 0] /\ minted = 0 /\ now = 0

-----------------------------------------------------------------------------
(* Transfers *)

Moved(from, to, amount) == [[balances EXCEPT ![from] = @ - amount] EXCEPT ![to] = @ + amount]

\* The message Receive of the contract, in the same transaction.
Receive(contract, amount) == credited' = [credited EXCEPT ![contract] = @ + amount]

execute_transfer(sender, recipient, amount) ==
    /\ code = "new" /\ balances[sender] >= amount
    /\ balances' = Moved(sender, recipient, amount)
    /\ UNCHANGED <<supply, credited, grants, minting, publicity, code, now>>

execute_burn(sender, amount) ==
    /\ code = "new" /\ balances[sender] >= amount /\ supply >= amount
    /\ balances' = [balances EXCEPT ![sender] = @ - amount]
    /\ supply' = supply - amount
    /\ UNCHANGED <<credited, grants, minting, publicity, code, now>>

execute_mint(sender, recipient, amount) ==
    /\ code = "new" /\ supply + amount <= MaxSupply /\ minted + amount <= MaxMinted
    /\ mint # None /\ mint.minter = sender
    /\ mint.cap # None => supply + amount <= mint.cap
    /\ supply' = supply + amount /\ minted' = minted + amount
    /\ balances' = [balances EXCEPT ![recipient] = @ + amount]
    /\ UNCHANGED <<credited, grants, mint, first_cap, publicity, code, now>>

execute_send(sender, contract, amount) ==
    /\ code = "new" /\ balances[sender] >= amount
    /\ balances' = Moved(sender, contract, amount)
    /\ Receive(contract, amount)
    /\ UNCHANGED <<supply, grants, minting, publicity, code, now>>

\* Fault: the new minter has no cap.
execute_update_minter_NoCap(sender, new) ==
    /\ code = "new" /\ mint # None /\ mint.minter = sender
    /\ mint' = IF new = None THEN None ELSE [minter |-> new, cap |-> None]
    /\ UNCHANGED <<ledger, grants, first_cap, minted, publicity, code, now>>

\* The new minter inherits the cap; None gives minting up.
execute_update_minter(sender, new) ==
    /\ code = "new" /\ mint # None /\ mint.minter = sender
    /\ mint' = IF new = None THEN None ELSE [minter |-> new, cap |-> mint.cap]
    /\ UNCHANGED <<ledger, grants, first_cap, minted, publicity, code, now>>

-----------------------------------------------------------------------------
(* Allowances *)

is_expired(exp) == now >= exp

Default == [allowance |-> 0, expires |-> Never]

\* update_fn of IncreaseAllowance
Raised(entry, amount, expires) ==
    LET val == IF entry = None THEN Default ELSE entry
    IN  [allowance |-> val.allowance + amount, expires |-> IF expires = None THEN val.expires ELSE expires]

execute_increase_allowance(owner, spender, amount, expires) ==
    /\ code = "new" /\ spender # owner
    /\ expires # None => ~is_expired(expires)
    /\ allowances' = [allowances EXCEPT ![<<owner, spender>>] = Raised(@, amount, expires)]
    /\ allowances_spender' = [allowances_spender EXCEPT ![<<spender, owner>>] = Raised(@, amount, expires)]
    /\ allowances'[<<owner, spender>>].allowance <= MaxAllowance
    /\ UNCHANGED <<ledger, minting, publicity, code, now>>

\* The entry goes when nothing is left; then the expiration is not looked at.
execute_decrease_allowance(owner, spender, amount, expires) ==
    LET entry == allowances[<<owner, spender>>]
        lowered == IF amount < entry.allowance
                   THEN [allowance |-> entry.allowance - amount, expires |-> IF expires = None THEN entry.expires ELSE expires]
                   ELSE None
    IN
    /\ code = "new" /\ spender # owner /\ entry # None
    /\ lowered # None /\ expires # None => ~is_expired(expires)
    /\ allowances' = [allowances EXCEPT ![<<owner, spender>>] = lowered]
    /\ allowances_spender' = [allowances_spender EXCEPT ![<<spender, owner>>] = lowered]
    /\ UNCHANGED <<ledger, minting, publicity, code, now>>

\* Fault: the expiration is not looked at.
deduct_allowance_Expired(owner, spender, amount) ==
    LET entry == allowances[<<owner, spender>>]
        reverse == allowances_spender[<<spender, owner>>]
    IN
    /\ entry # None /\ entry.allowance >= amount
    /\ reverse # None /\ reverse.allowance >= amount
    /\ allowances' = [allowances EXCEPT ![<<owner, spender>>].allowance = @ - amount]
    /\ allowances_spender' = [allowances_spender EXCEPT ![<<spender, owner>>].allowance = @ - amount]

\* Fault: only the map by owner is updated.
deduct_allowance_OneMap(owner, spender, amount) ==
    LET entry == allowances[<<owner, spender>>] IN
    /\ entry # None /\ ~is_expired(entry.expires) /\ entry.allowance >= amount
    /\ allowances' = [allowances EXCEPT ![<<owner, spender>>].allowance = @ - amount]
    /\ UNCHANGED allowances_spender

\* Each map is checked and lowered by itself; an entry of 0 stays.
deduct_allowance(owner, spender, amount) ==
    LET entry == allowances[<<owner, spender>>]
        reverse == allowances_spender[<<spender, owner>>]
    IN
    /\ entry # None /\ ~is_expired(entry.expires) /\ entry.allowance >= amount
    /\ reverse # None /\ ~is_expired(reverse.expires) /\ reverse.allowance >= amount
    /\ allowances' = [allowances EXCEPT ![<<owner, spender>>].allowance = @ - amount]
    /\ allowances_spender' = [allowances_spender EXCEPT ![<<spender, owner>>].allowance = @ - amount]

execute_transfer_from(spender, owner, recipient, amount) ==
    /\ code = "new"
    /\ deduct_allowance(owner, spender, amount)
    /\ balances[owner] >= amount
    /\ balances' = Moved(owner, recipient, amount)
    /\ UNCHANGED <<supply, credited, minting, publicity, code, now>>

execute_burn_from(spender, owner, amount) ==
    /\ code = "new"
    /\ deduct_allowance(owner, spender, amount)
    /\ balances[owner] >= amount /\ supply >= amount
    /\ balances' = [balances EXCEPT ![owner] = @ - amount]
    /\ supply' = supply - amount
    /\ UNCHANGED <<credited, minting, publicity, code, now>>

execute_send_from(spender, owner, contract, amount) ==
    /\ code = "new"
    /\ deduct_allowance(owner, spender, amount)
    /\ balances[owner] >= amount
    /\ balances' = Moved(owner, contract, amount)
    /\ Receive(contract, amount)
    /\ UNCHANGED <<supply, minting, publicity, code, now>>

query_allowance(owner, spender) == IF allowances[<<owner, spender>>] = None THEN Default ELSE allowances[<<owner, spender>>]

-----------------------------------------------------------------------------
\* Builds the map by spender of a token from before 0.14.0; a token that has
\* it already is left as it is.
migrate ==
    /\ code' = "new"
    /\ allowances_spender' = IF code = "new" THEN allowances_spender ELSE [p \in Pairs |-> allowances[<<p[2], p[1]>>]]
    /\ UNCHANGED <<ledger, allowances, minting, publicity, now>>

Tick == now < MaxTime /\ now' = now + 1 /\ UNCHANGED <<ledger, grants, minting, publicity, code>>

ByOwner(u) ==
    \E amount \in Amounts :
        \/ \E to \in Accounts : execute_transfer(u, to, amount)
        \/ execute_burn(u, amount)
        \/ \E c \in Contracts : execute_send(u, c, amount)

BySpender(u) ==
    \E owner \in Callers, amount \in Amounts :
        \/ \E to \in Accounts : execute_transfer_from(u, owner, to, amount)
        \/ execute_burn_from(u, owner, amount)
        \/ \E c \in Contracts : execute_send_from(u, owner, c, amount)

Grant(u) ==
    \E s \in Callers, amount \in Amounts, expires \in Expirations :
        execute_increase_allowance(u, s, amount, expires) \/ execute_decrease_allowance(u, s, amount, expires)

Minting(u) ==
    \/ \E to \in Accounts, amount \in Amounts : execute_mint(u, to, amount)
    \/ \E new \in Callers \union {None} : execute_update_minter(u, new)

Publicity(u) == code = "new" /\ UpdatePublicity(u) /\ UNCHANGED <<ledger, grants, minting, code, now>>

Next ==
    \/ \E u \in Callers : ByOwner(u) \/ BySpender(u) \/ Grant(u) \/ Minting(u) \/ Publicity(u)
    \/ migrate
    \/ Tick

Spec == Init /\ [][Next]_vars

-----------------------------------------------------------------------------
(* Properties *)

\* The total supply is the sum of the balances after any sequence of calls,
\* transfers to oneself included.
SupplyIsSum == supply = SumOver(balances, Accounts)

\* The map by owner and the map by spender say the same, also after the
\* migration: a spender that is shown an allowance can use it.
AllowancesAgree == code = "new" => \A p \in Pairs : allowances[p] = allowances_spender[<<p[2], p[1]>>]

\* What a contract was told it received is there, whoever paid.
CreditedIsHeld == \A c \in Contracts : balances[c] >= credited[c]

\* Whoever the minter is by now, the supply stays within the cap the token
\* was created with.
SupplyUnderCap == first_cap # None => supply <= first_cap

\* The total supply is the sum of the balances and within the first cap, what
\* a contract was told it received is there, and a logo that is announced can
\* be downloaded.
Cw20Sound == SupplyIsSum /\ CreditedIsHeld /\ SupplyUnderCap /\ LogoAnnounced

\* A balance falls by a call of its owner, or by that of a spender whose
\* allowance is not expired and falls by as much.
SpendingAuthorized ==
    [][\A o \in Callers : balances'[o] < balances[o] =>
           \/ ByOwner(o)
           \/ \E s \in Callers \ {o} :
                  /\ ~is_expired(query_allowance(o, s).expires)
                  /\ query_allowance(o, s).allowance - query_allowance(o, s)'.allowance = balances[o] - balances'[o]]_vars

\* The cap is how many tokens the minter can issue.
IssuedUnderCap == first_cap # None => minted <= first_cap

=============================================================================
