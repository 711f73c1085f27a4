-------------------------- MODULE Cw20TokenProofs --------------------------
(***************************************************************************)
(* Theorems about Cw20Token, for every set of accounts, every amount and   *)
(* expiration, and every token of an older version that is migrated.       *)
(***************************************************************************)
EXTENDS Cw20Token, SumTheorems

Entries == AllowanceResponse \union {None}

\* The maps have their types, nobody has an allowance from himself, and the
\* maps agree. Before the migration the map by spender has no meaning.
GrantsInv ==
    /\ allowances \in [Pairs -> Entries] /\ allowances_spender \in [Pairs -> Entries]
    /\ \A u \in Callers : allowances[<<u, u>>] = None
    /\ AllowancesAgree

\* Balances are unsigned, and contracts hold what they were told.
BalancesInv ==
    /\ balances \in [Accounts -> Nat] /\ credited \in [Contracts -> Nat]
    /\ CreditedIsHeld

-----------------------------------------------------------------------------
(* Allowances *)

LEMMA GrantsInit == Init => GrantsInv
<1> SUFFICES ASSUME Init PROVE GrantsInv
  OBVIOUS
<1>1. NoEntry \in [Pairs -> Entries] /\ \A p \in Pairs : NoEntry[p] = None
  BY DEF NoEntry, Entries
<1>2. \A u \in Callers : <<u, u>> \in Pairs
  BY DEF Pairs
<1>3. \A p \in Pairs : <<p[2], p[1]>> \in Pairs
  BY DEF Pairs
<1>4. CASE code = "new" /\ allowances = NoEntry
  BY <1>1, <1>2, <1>3, <1>4 DEF Init, GrantsInv, AllowancesAgree
<1>5. CASE code = "old" /\ allowances \in OldAllowances
  BY <1>1, <1>5, TokenAssumption DEF Init, GrantsInv, AllowancesAgree, Entries
<1>6. QED
  BY <1>4, <1>5 DEF Init

\* A call that writes the same entry to both maps keeps them in agreement.
LEMMA SameEntry ==
    ASSUME GrantsInv, NEW o \in Callers, NEW s \in Callers, o # s, NEW e \in Entries,
           allowances' = [allowances EXCEPT ![<<o, s>>] = e],
           allowances_spender' = [allowances_spender EXCEPT ![<<s, o>>] = e],
           code = "new"
    PROVE  GrantsInv'
<1>1. <<o, s>> \in Pairs /\ <<s, o>> \in Pairs
  BY DEF Pairs
<1>2. allowances' \in [Pairs -> Entries] /\ allowances_spender' \in [Pairs -> Entries]
  BY <1>1 DEF GrantsInv
<1>3. \A u \in Callers : allowances'[<<u, u>>] = None
  BY <1>1 DEF GrantsInv, Pairs
<1>4. \A p \in Pairs : allowances'[p] = allowances_spender'[<<p[2], p[1]>>]
  <2> SUFFICES ASSUME NEW x \in Callers, NEW y \in Callers
               PROVE  allowances'[<<x, y>>] = allowances_spender'[<<y, x>>]
    BY DEF Pairs
  <2>1. <<x, y>> \in Pairs /\ <<y, x>> \in Pairs /\ allowances[<<x, y>>] = allowances_spender[<<y, x>>]
    BY DEF GrantsInv, AllowancesAgree, Pairs
  <2>2. QED
    BY <2>1, <1>1 DEF GrantsInv
<1>5. QED
  BY <1>2, <1>3, <1>4 DEF GrantsInv, AllowancesAgree

\* What deduct_allowance does when the maps agree.
LEMMA Deducted ==
    ASSUME GrantsInv, code = "new", NEW o \in Callers, NEW s \in Callers, NEW n \in Nat,
           deduct_allowance(o, s, n)
    PROVE  /\ o # s /\ GrantsInv'
           /\ allowances[<<o, s>>] \in AllowanceResponse /\ ~is_expired(allowances[<<o, s>>].expires)
           /\ allowances'[<<o, s>>] \in AllowanceResponse
           /\ allowances'[<<o, s>>].allowance = allowances[<<o, s>>].allowance - n
<1> DEFINE e == [allowances[<<o, s>>] EXCEPT !.allowance = @ - n]
<1>1. <<o, s>> \in Pairs /\ <<s, o>> \in Pairs
  BY DEF Pairs
<1>2. allowances[<<o, s>>] # None /\ ~is_expired(allowances[<<o, s>>].expires) /\ allowances[<<o, s>>].allowance >= n
  BY DEF deduct_allowance
<1>3. allowances[<<o, s>>] \in AllowanceResponse /\ o # s
  BY <1>1, <1>2 DEF GrantsInv, Entries
<1>4. allowances_spender[<<s, o>>] = allowances[<<o, s>>]
  BY <1>1 DEF GrantsInv, AllowancesAgree
<1>5. e \in AllowanceResponse /\ e.allowance = allowances[<<o, s>>].allowance - n
  BY <1>2, <1>3 DEF AllowanceResponse
<1>6. allowances' = [allowances EXCEPT ![<<o, s>>] = e] /\ allowances_spender' = [allowances_spender EXCEPT ![<<s, o>>] = e]
  BY <1>4 DEF deduct_allowance
<1>7. GrantsInv'
  BY <1>3, <1>5, <1>6, SameEntry DEF Entries
<1>8. allowances'[<<o, s>>] = e
  BY <1>1, <1>6 DEF GrantsInv
<1>9. QED
  BY <1>2, <1>3, <1>5, <1>7, <1>8

LEMMA GrantStep ==
    ASSUME GrantsInv, NEW u \in Callers, Grant(u)
    PROVE  GrantsInv'
<1>1. PICK s \in Callers, n \in Amounts, x \in Expirations :
          execute_increase_allowance(u, s, n, x) \/ execute_decrease_allowance(u, s, n, x)
  BY DEF Grant
<1>2. n \in Nat /\ x \in Nat \union {None} /\ Never \in Nat
  BY TokenAssumption DEF Never
<1>3. <<u, s>> \in Pairs /\ <<s, u>> \in Pairs
  BY DEF Pairs
<1>4. CASE execute_increase_allowance(u, s, n, x)
  <2> DEFINE e == Raised(allowances[<<u, s>>], n, x)
  <2>1. code = "new" /\ u # s
    BY <1>4 DEF execute_increase_allowance
  <2>2. allowances_spender[<<s, u>>] = allowances[<<u, s>>] /\ allowances[<<u, s>>] \in Entries
    BY <1>3, <2>1 DEF GrantsInv, AllowancesAgree
  <2>3. e \in AllowanceResponse
    BY <1>2, <2>2 DEF Raised, Default, Entries, AllowanceResponse
  <2>4. allowances' = [allowances EXCEPT ![<<u, s>>] = e] /\ allowances_spender' = [allowances_spender EXCEPT ![<<s, u>>] = e]
    BY <1>4, <2>2 DEF execute_increase_allowance
  <2>5. QED
    BY <2>1, <2>3, <2>4, SameEntry DEF Entries
<1>5. CASE execute_decrease_allowance(u, s, n, x)
  <2> DEFINE entry == allowances[<<u, s>>]
             e == IF n < entry.allowance
                  THEN [allowance |-> entry.allowance - n, expires |-> IF x = None THEN entry.expires ELSE x]
                  ELSE None
  <2>1. code = "new" /\ u # s /\ entry # None
    BY <1>5 DEF execute_decrease_allowance
  <2>2. entry \in AllowanceResponse
    BY <1>3, <2>1 DEF GrantsInv, Entries
  <2>3. e \in Entries
    BY <1>2, <2>2 DEF AllowanceResponse, Entries
  <2>4. allowances' = [allowances EXCEPT ![<<u, s>>] = e] /\ allowances_spender' = [allowances_spender EXCEPT ![<<s, u>>] = e]
    BY <1>5 DEF execute_decrease_allowance
  <2>5. QED
    BY <2>1, <2>3, <2>4, SameEntry
<1>6. QED
  BY <1>1, <1>4, <1>5

\* A spender's call lowers the allowance and the balance of one owner.
LEMMA SpenderStep ==
    ASSUME GrantsInv, NEW u \in Callers, BySpender(u)
    PROVE  \E o \in Callers, n \in Nat :
               /\ code = "new" /\ deduct_allowance(o, u, n) /\ balances[o] >= n /\ UNCHANGED code
               /\ \/ /\ \E to \in Accounts : balances' = Moved(o, to, n)
                     /\ UNCHANGED credited
                  \/ /\ balances' = [balances EXCEPT ![o] = @ - n]
                     /\ UNCHANGED credited
                  \/ \E c \in Contracts : balances' = Moved(o, c, n) /\ Receive(c, n)
BY TokenAssumption DEF BySpender, execute_transfer_from, execute_burn_from, execute_send_from

LEMMA GrantsNext == GrantsInv /\ [Next]_vars => GrantsInv'
<1> SUFFICES ASSUME GrantsInv, [Next]_vars PROVE GrantsInv'
  OBVIOUS
<1>1. CASE UNCHANGED <<grants, code>>
  BY <1>1 DEF grants, GrantsInv, AllowancesAgree
<1>2. ASSUME NEW u \in Callers, BySpender(u) PROVE GrantsInv'
  BY <1>2, SpenderStep, Deducted
<1>3. ASSUME NEW u \in Callers, Grant(u) PROVE GrantsInv'
  BY <1>3, GrantStep
<1>4. CASE migrate
  <2>1. CASE code = "new"
    BY <1>4, <2>1 DEF migrate, GrantsInv, AllowancesAgree
  <2>2. CASE code # "new"
    <3> DEFINE reverse == [p \in Pairs |-> allowances[<<p[2], p[1]>>]]
    <3>1. allowances' = allowances /\ allowances_spender' = reverse
      BY <1>4, <2>2 DEF migrate
    <3>2. \A p \in Pairs : <<p[2], p[1]>> \in Pairs
      BY DEF Pairs
    <3>3. reverse \in [Pairs -> Entries]
      BY <3>2 DEF GrantsInv
    <3>4. \A p \in Pairs : allowances[p] = reverse[<<p[2], p[1]>>]
      <4> SUFFICES ASSUME NEW x \in Callers, NEW y \in Callers PROVE allowances[<<x, y>>] = reverse[<<y, x>>]
        BY DEF Pairs
      <4>1. <<y, x>> \in Pairs
        BY DEF Pairs
      <4>2. QED
        BY <4>1
    <3>5. QED
      BY <3>1, <3>3, <3>4 DEF GrantsInv, AllowancesAgree
  <2>3. QED
    BY <2>1, <2>2
<1>5. ASSUME NEW u \in Callers, ByOwner(u) \/ Minting(u) \/ Publicity(u) PROVE UNCHANGED <<grants, code>>
  BY <1>5 DEF ByOwner, execute_transfer, execute_burn, execute_send, Minting, execute_mint,
              execute_update_minter, Publicity, grants
<1>6. CASE Tick
  BY <1>1, <1>6 DEF Tick
<1>7. CASE UNCHANGED vars
  BY <1>1, <1>7 DEF vars
<1>8. QED
  BY <1>1, <1>2, <1>3, <1>4, <1>5, <1>6, <1>7 DEF Next

\* The map by owner and the map by spender agree in every state after the
\* migration, whatever allowances the token had before it.
THEOREM AllowancesAlwaysAgree == Spec => []AllowancesAgree
<1>1. Spec => []GrantsInv
  BY GrantsInit, GrantsNext, PTL DEF Spec
<1>2. GrantsInv => AllowancesAgree
  BY DEF GrantsInv
<1>3. QED
  BY <1>1, <1>2, PTL

-----------------------------------------------------------------------------
(* Balances *)

LEMMA InitialRows ==
    ASSUME NEW accounts \in InitialLists
    PROVE  /\ DOMAIN accounts = 1 .. Len(accounts) /\ Len(accounts) \in Nat
           /\ \A i \in DOMAIN accounts : accounts[i].address \in Accounts /\ accounts[i].amount \in Nat
<1> DEFINE Row == [address : Accounts, amount : Nat]
<1>1. accounts \in Seq(Row)
  BY TokenAssumption
<1>2. \A r \in Row : r.address \in Accounts /\ r.amount \in Nat
  OBVIOUS
<1> HIDE DEF Row
<1>3. QED
  BY <1>1, <1>2

LEMMA BalancesInit == Init => BalancesInv
<1> SUFFICES ASSUME Init PROVE BalancesInv
  OBVIOUS
<1>1. PICK accounts \in InitialLists : balances = BalancesOf(accounts)
  BY DEF Init, create_accounts
<1>2. \A x \in Accounts : balances[x] \in Nat
  <2> SUFFICES ASSUME NEW x \in Accounts PROVE BalancesOf(accounts)[x] \in Nat
    BY <1>1
  <2>1. CASE \E i \in DOMAIN accounts : accounts[i].address = x
    <3>1. \E r \in ToSet(accounts) : r.address = x
      BY <2>1 DEF ToSet
    <3>2. (CHOOSE r \in ToSet(accounts) : r.address = x) \in ToSet(accounts)
      BY <3>1
    <3>3. \A r \in ToSet(accounts) : r.amount \in Nat
      BY InitialRows DEF ToSet
    <3>4. QED
      BY <2>1, <3>2, <3>3 DEF BalancesOf
  <2>2. CASE ~ \E i \in DOMAIN accounts : accounts[i].address = x
    BY <2>2 DEF BalancesOf
  <2>3. QED
    BY <2>1, <2>2
<1>3. balances \in [Accounts -> Nat]
  BY <1>1, <1>2 DEF BalancesOf
<1>4. QED
  BY <1>2, <1>3 DEF Init, BalancesInv, CreditedIsHeld, Accounts

\* What a transfer of n from o does: only o can lose, and no more than n.
LEMMA MovedBalances ==
    ASSUME BalancesInv, NEW o \in Callers, NEW to \in Accounts, NEW n \in Nat, balances[o] >= n
    PROVE  /\ Moved(o, to, n) \in [Accounts -> Nat]
           /\ \A x \in Accounts \ {o, to} : Moved(o, to, n)[x] = balances[x]
           /\ to # o => Moved(o, to, n)[to] = balances[to] + n /\ Moved(o, to, n)[o] = balances[o] - n
           /\ to = o => Moved(o, to, n)[o] = balances[o]
BY DEF BalancesInv, Moved, Accounts

LEMMA LoweredBalances ==
    ASSUME BalancesInv, NEW o \in Callers, NEW n \in Nat, balances[o] >= n
    PROVE  LET lower == [balances EXCEPT ![o] = @ - n] IN
           /\ lower \in [Accounts -> Nat] /\ lower[o] = balances[o] - n
           /\ \A x \in Accounts \ {o} : lower[x] = balances[x]
BY DEF BalancesInv, Accounts

\* The three ways tokens leave an account, by its owner or by a spender.
Leaves(o, n) ==
    /\ balances[o] >= n
    /\ \/ /\ \E to \in Accounts : balances' = Moved(o, to, n)
          /\ UNCHANGED credited
       \/ /\ balances' = [balances EXCEPT ![o] = @ - n]
          /\ UNCHANGED credited
       \/ \E c \in Contracts : balances' = Moved(o, c, n) /\ Receive(c, n)

LEMMA LeavesStep ==
    ASSUME BalancesInv, NEW o \in Callers, NEW n \in Nat, Leaves(o, n)
    PROVE  /\ BalancesInv'
           /\ \A x \in Callers : balances'[x] < balances[x] => x = o /\ balances[o] - balances'[o] = n
<1>1. o \in Accounts /\ o \notin Contracts
  BY TokenAssumption DEF Accounts
<1>2. ASSUME NEW to \in Accounts, balances' = Moved(o, to, n), UNCHANGED credited
      PROVE  /\ BalancesInv'
             /\ \A x \in Callers : balances'[x] < balances[x] => x = o /\ balances[o] - balances'[o] = n
  <2>1. /\ balances' \in [Accounts -> Nat]
        /\ \A x \in Accounts \ {o, to} : balances'[x] = balances[x]
        /\ to # o => balances'[to] = balances[to] + n /\ balances'[o] = balances[o] - n
        /\ to = o => balances'[o] = balances[o]
    BY <1>2, MovedBalances DEF Leaves
  <2>2. \A x \in Accounts \ {o} : balances'[x] >= balances[x]
    BY <2>1 DEF BalancesInv
  <2>3. BalancesInv'
    BY <1>1, <1>2, <2>1, <2>2 DEF BalancesInv, CreditedIsHeld, Accounts
  <2>4. QED
    BY <1>1, <2>1, <2>2, <2>3 DEF BalancesInv, Accounts
<1>3. CASE balances' = [balances EXCEPT ![o] = @ - n] /\ UNCHANGED credited
  <2>1. /\ balances' \in [Accounts -> Nat] /\ balances'[o] = balances[o] - n
        /\ \A x \in Accounts \ {o} : balances'[x] = balances[x]
    BY <1>3, LoweredBalances DEF Leaves
  <2>2. BalancesInv'
    BY <1>1, <1>3, <2>1 DEF BalancesInv, CreditedIsHeld, Accounts
  <2>3. QED
    BY <1>1, <2>1, <2>2 DEF BalancesInv, Accounts
<1>4. ASSUME NEW c \in Contracts, balances' = Moved(o, c, n), Receive(c, n)
      PROVE  /\ BalancesInv'
             /\ \A x \in Callers : balances'[x] < balances[x] => x = o /\ balances[o] - balances'[o] = n
  <2>1. c \in Accounts /\ c # o
    BY <1>1 DEF Accounts
  <2>2. /\ balances' \in [Accounts -> Nat]
        /\ \A x \in Accounts \ {o, c} : balances'[x] = balances[x]
        /\ balances'[c] = balances[c] + n /\ balances'[o] = balances[o] - n
    BY <1>4, <2>1, MovedBalances DEF Leaves
  <2>3. credited' \in [Contracts -> Nat] /\ credited'[c] = credited[c] + n
        /\ \A d \in Contracts \ {c} : credited'[d] = credited[d]
    BY <1>4 DEF Receive, BalancesInv
  <2>4. \A d \in Contracts : balances'[d] >= credited'[d]
    BY <1>1, <2>2, <2>3 DEF BalancesInv, CreditedIsHeld, Accounts
  <2>5. BalancesInv'
    BY <2>2, <2>3, <2>4 DEF BalancesInv, CreditedIsHeld
  <2>6. QED
    BY <1>1, <2>1, <2>2, <2>5 DEF BalancesInv, Accounts
<1>5. QED
  BY <1>2, <1>3, <1>4 DEF Leaves

LEMMA MintStep ==
    ASSUME BalancesInv, NEW to \in Accounts, NEW n \in Nat,
           balances' = [balances EXCEPT ![to] = @ + n], UNCHANGED credited
    PROVE  BalancesInv' /\ \A x \in Accounts : balances'[x] >= balances[x]
<1>1. /\ balances' \in [Accounts -> Nat] /\ balances'[to] = balances[to] + n
      /\ \A x \in Accounts \ {to} : balances'[x] = balances[x]
  BY DEF BalancesInv
<1>2. \A x \in Accounts : balances'[x] >= balances[x]
  BY <1>1 DEF BalancesInv
<1>3. QED
  BY <1>1, <1>2 DEF BalancesInv, CreditedIsHeld, Accounts

\* What every other step does to balances: it leaves them or mints.
LEMMA OtherStep ==
    ASSUME [Next]_vars, \A u \in Callers : ~ByOwner(u) /\ ~BySpender(u)
    PROVE  \/ UNCHANGED <<balances, credited>>
           \/ \E to \in Accounts, n \in Nat : balances' = [balances EXCEPT ![to] = @ + n] /\ UNCHANGED credited
<1>1. ASSUME NEW u \in Callers, Grant(u) PROVE UNCHANGED <<balances, credited>>
  BY <1>1 DEF Grant, execute_increase_allowance, execute_decrease_allowance, ledger
<1>2. ASSUME NEW u \in Callers, Publicity(u) PROVE UNCHANGED <<balances, credited>>
  BY <1>2 DEF Publicity, ledger
<1>3. ASSUME NEW u \in Callers, Minting(u)
      PROVE  \/ UNCHANGED <<balances, credited>>
             \/ \E to \in Accounts, n \in Nat : balances' = [balances EXCEPT ![to] = @ + n] /\ UNCHANGED credited
  BY <1>3, TokenAssumption DEF Minting, execute_mint, execute_update_minter, ledger
<1>4. CASE migrate \/ Tick \/ UNCHANGED vars
  BY <1>4 DEF migrate, Tick, vars, ledger
<1>5. QED
  BY <1>1, <1>2, <1>3, <1>4 DEF Next

LEMMA OwnerLeaves ==
    ASSUME NEW u \in Callers, ByOwner(u) PROVE \E n \in Nat : Leaves(u, n)
BY TokenAssumption DEF ByOwner, execute_transfer, execute_burn, execute_send, Leaves

LEMMA BalancesNext == GrantsInv /\ BalancesInv /\ [Next]_vars => BalancesInv'
<1> SUFFICES ASSUME GrantsInv, BalancesInv, [Next]_vars PROVE BalancesInv'
  OBVIOUS
<1>1. ASSUME NEW u \in Callers, ByOwner(u) PROVE BalancesInv'
  BY <1>1, OwnerLeaves, LeavesStep
<1>2. ASSUME NEW u \in Callers, BySpender(u) PROVE BalancesInv'
  <2>1. PICK o \in Callers, n \in Nat : Leaves(o, n)
    BY <1>2, SpenderStep DEF Leaves
  <2>2. QED
    BY <2>1, LeavesStep
<1>3. CASE \A u \in Callers : ~ByOwner(u) /\ ~BySpender(u)
  <2>1. CASE UNCHANGED <<balances, credited>>
    BY <2>1 DEF BalancesInv, CreditedIsHeld
  <2>2. CASE \E to \in Accounts, n \in Nat : balances' = [balances EXCEPT ![to] = @ + n] /\ UNCHANGED credited
    BY <2>2, MintStep
  <2>3. QED
    BY <1>3, <2>1, <2>2, OtherStep
<1>4. QED
  BY <1>1, <1>2, <1>3

\* What a contract was told it received stays in its balance.
THEOREM CreditedIsAlwaysHeld == Spec => []CreditedIsHeld
<1>1. Spec => [](GrantsInv /\ BalancesInv)
  BY GrantsInit, GrantsNext, BalancesInit, BalancesNext, PTL DEF Spec
<1>2. BalancesInv => CreditedIsHeld
  BY DEF BalancesInv
<1>3. QED
  BY <1>1, <1>2, PTL

\* A balance falls by a call of its owner, or by that of a spender whose
\* allowance is not expired and falls by as much.
THEOREM SpendingIsAuthorized == Spec => SpendingAuthorized
<1> DEFINE Authorized ==
        \A o \in Callers : balances'[o] < balances[o] =>
            \/ ByOwner(o)
            \/ \E s \in Callers \ {o} :
                   /\ ~is_expired(query_allowance(o, s).expires)
                   /\ query_allowance(o, s).allowance - query_allowance(o, s)'.allowance = balances[o] - balances'[o]
<1>1. ASSUME GrantsInv, BalancesInv, [Next]_vars, NEW o \in Callers, balances'[o] < balances[o]
      PROVE  \/ ByOwner(o)
             \/ \E s \in Callers \ {o} :
                    /\ ~is_expired(query_allowance(o, s).expires)
                    /\ query_allowance(o, s).allowance - query_allowance(o, s)'.allowance = balances[o] - balances'[o]
  <2>1. ASSUME NEW u \in Callers, ByOwner(u) PROVE ByOwner(o)
    BY <1>1, <2>1, OwnerLeaves, LeavesStep
  <2>2. ASSUME NEW u \in Callers, BySpender(u)
        PROVE  /\ u \in Callers \ {o} /\ ~is_expired(query_allowance(o, u).expires)
               /\ query_allowance(o, u).allowance - query_allowance(o, u)'.allowance = balances[o] - balances'[o]
    <3>1. PICK w \in Callers, n \in Nat : code = "new" /\ deduct_allowance(w, u, n) /\ Leaves(w, n)
      BY <1>1, <2>2, SpenderStep DEF Leaves
    <3>2. w = o /\ balances[o] - balances'[o] = n
      BY <1>1, <3>1, LeavesStep
    <3>3. /\ o # u /\ allowances[<<o, u>>] \in AllowanceResponse /\ ~is_expired(allowances[<<o, u>>].expires)
          /\ allowances'[<<o, u>>] \in AllowanceResponse
          /\ allowances'[<<o, u>>].allowance = allowances[<<o, u>>].allowance - n
      BY <1>1, <3>1, <3>2, Deducted
    <3>4. query_allowance(o, u) = allowances[<<o, u>>] /\ query_allowance(o, u)' = allowances'[<<o, u>>]
      BY <3>3, TokenAssumption DEF query_allowance
    <3>5. allowances[<<o, u>>].allowance \in Nat
      BY <3>3 DEF AllowanceResponse
    <3>6. QED
      BY <3>2, <3>3, <3>4, <3>5
  <2>3. CASE \A u \in Callers : ~ByOwner(u) /\ ~BySpender(u)
    <3>1. o \in Accounts
      BY DEF Accounts
    <3>2. balances'[o] >= balances[o]
      BY <1>1, <2>3, <3>1, OtherStep, MintStep DEF BalancesInv
    <3>3. QED
      BY <1>1, <3>1, <3>2, BalancesNext DEF BalancesInv
  <2>4. QED
    BY <2>1, <2>2, <2>3
<1>2. GrantsInv /\ BalancesInv /\ [Next]_vars => [Authorized]_vars
  BY <1>1
<1>3. Spec => [](GrantsInv /\ BalancesInv)
  BY GrantsInit, GrantsNext, BalancesInit, BalancesNext, PTL DEF Spec
<1>4. Spec => [][Authorized]_vars
  BY <1>2, <1>3, PTL DEF Spec
<1>5. QED
  BY <1>4 DEF SpendingAuthorized

-----------------------------------------------------------------------------
(* Supply *)

\* The supply is the sum of the balances; the cap is the first one, whoever
\* the minter is, and the supply is within it.
SupplyInv ==
    /\ SupplyIsSum /\ SupplyUnderCap
    /\ first_cap # None => first_cap \in Nat
    /\ mint # None => mint.cap = first_cap

\* The balances of instantiate add up to the supply that it computes, as no
\* address occurs twice.
LEMMA InitialSupply ==
    ASSUME NEW accounts \in InitialLists, validate_accounts(accounts)
    PROVE  SumOver([i \in DOMAIN accounts |-> accounts[i].amount], DOMAIN accounts) = SumOver(BalancesOf(accounts), Accounts)
<1> DEFINE D == DOMAIN accounts
           amount == [i \in D |-> accounts[i].amount]
           address == [i \in D |-> accounts[i].address]
           total == BalancesOf(accounts)
<1>2. /\ D = 1 .. Len(accounts) /\ Len(accounts) \in Nat
      /\ \A i \in D : accounts[i].address \in Accounts /\ accounts[i].amount \in Nat
  BY InitialRows
<1>3. IsFiniteSet(D) /\ Cardinality(D) = Len(accounts) /\ IsFiniteSet(Accounts)
  BY <1>2, FS_Interval, TokenAssumption
<1>4. address \in [D -> Accounts]
  BY <1>2
<1>5. \A i, j \in D : address[i] = address[j] => i = j
  <2> DEFINE R == {accounts[i].address : i \in D}
  <2>1. Cardinality(R) = Cardinality(D)
    BY <1>3 DEF validate_accounts
  <2>2. address \in Surjection(D, R)
    BY DEF Surjection
  <2>3. address \in Injection(D, R)
    <3> HIDE DEF R, D, address
    <3>1. QED
      BY <1>3, <2>1, <2>2, FS_SurjSameCardinalityImpliesInj
  <2>4. QED
    BY <2>3 DEF Injection, IsInjective
<1>6. \A i \in D : amount[i] = total[address[i]]
  <2> SUFFICES ASSUME NEW i \in D PROVE accounts[i].amount = total[accounts[i].address]
    OBVIOUS
  <2> DEFINE x == accounts[i].address
             r == CHOOSE q \in ToSet(accounts) : q.address = x
  <2>1. x \in Accounts
    BY <1>2
  <2>2. total[x] = r.amount
    BY <2>1 DEF BalancesOf
  <2>3. r \in ToSet(accounts) /\ r.address = x
    BY DEF ToSet
  <2>4. PICK j \in D : r = accounts[j]
    BY <2>3 DEF ToSet
  <2>5. j = i
    BY <1>5, <2>3, <2>4
  <2>6. QED
    BY <2>2, <2>4, <2>5
<1>7. \A x \in Accounts : total[x] \in Int /\ ((\A i \in D : address[i] # x) => total[x] = 0)
  <2> SUFFICES ASSUME NEW x \in Accounts PROVE total[x] \in Int /\ ((\A i \in D : address[i] # x) => total[x] = 0)
    OBVIOUS
  <2>1. ASSUME NEW i \in D, accounts[i].address = x PROVE total[x] \in Int
    BY <1>2, <1>6, <2>1
  <2>2. CASE \A i \in D : accounts[i].address # x
    BY <2>2 DEF BalancesOf
  <2>3. QED
    BY <2>1, <2>2
<1> HIDE DEF D, amount, address, total
<1>8. SumOver(amount, D) = SumOver(total, Accounts)
  <2>1. Renames(address, D, Accounts, amount, total)
    BY <1>3, <1>4, <1>5, <1>6, <1>7 DEF Renames
  <2>2. QED
    BY <2>1, SumRename
<1>9. QED
  BY <1>8 DEF amount, D, total

LEMMA SupplyInit == Init => SupplyInv
<1> SUFFICES ASSUME Init PROVE SupplyInv
  OBVIOUS
<1>1. PICK accounts \in InitialLists, m \in InitialMints :
          /\ create_accounts(accounts) /\ mint = m /\ first_cap = get_cap(m)
          /\ get_cap(m) # None => supply <= get_cap(m)
  BY DEF Init
<1>2. SupplyIsSum
  BY <1>1, InitialSupply DEF create_accounts, SupplyIsSum
<1>3. QED
  BY <1>1, <1>2, TokenAssumption DEF SupplyInv, SupplyUnderCap, get_cap

\* A transfer keeps the sum, also a transfer to oneself.
LEMMA MovedSum ==
    ASSUME BalancesInv, NEW o \in Callers, NEW to \in Accounts, NEW n \in Nat, balances[o] >= n
    PROVE  SumOver(Moved(o, to, n), Accounts) = SumOver(balances, Accounts)
<1> DEFINE moved == Moved(o, to, n)
<1>1. /\ moved \in [Accounts -> Nat] /\ balances \in [Accounts -> Nat] /\ IsFiniteSet(Accounts) /\ o \in Accounts
      /\ \A x \in Accounts \ {o, to} : moved[x] = balances[x]
      /\ to # o => moved[to] = balances[to] + n /\ moved[o] = balances[o] - n
      /\ to = o => moved[o] = balances[o]
  <2>1. balances \in [Accounts -> Nat] /\ IsFiniteSet(Accounts) /\ o \in Accounts
    BY TokenAssumption DEF BalancesInv, Accounts
  <2>2. QED
    BY <2>1, MovedBalances
<1> HIDE DEF moved
<1>2. CASE to = o
  BY <1>1, <1>2, SumSame DEF moved
<1>3. CASE to # o
  <2>1. SumOver(moved, Accounts) = SumOver(balances, Accounts) + moved[o] - balances[o] + moved[to] - balances[to]
    BY <1>1, <1>3, SumChangeTwo
  <2>2. SumOver(balances, Accounts) \in Int
    BY <1>1, SumType
  <2>3. QED
    BY <1>1, <1>3, <2>1, <2>2 DEF moved
<1>4. QED
  BY <1>2, <1>3

\* A balance that rises or falls moves the sum by as much.
LEMMA ChangedSum ==
    ASSUME BalancesInv, NEW x \in Accounts, NEW d \in Int, balances[x] + d \in Nat
    PROVE  SumOver([balances EXCEPT ![x] = balances[x] + d], Accounts) = SumOver(balances, Accounts) + d
<1> DEFINE changed == [balances EXCEPT ![x] = balances[x] + d]
<1>1. /\ changed \in [Accounts -> Nat] /\ balances \in [Accounts -> Nat] /\ IsFiniteSet(Accounts)
      /\ changed[x] = balances[x] + d /\ \A y \in Accounts \ {x} : changed[y] = balances[y]
  BY TokenAssumption DEF BalancesInv
<1> HIDE DEF changed
<1>2. SumOver(changed, Accounts) = SumOver(balances, Accounts) + changed[x] - balances[x]
  BY <1>1, SumChange
<1>3. SumOver(balances, Accounts) \in Int
  BY <1>1, SumType
<1>4. QED
  BY <1>1, <1>2, <1>3 DEF changed

\* What a step does to the supply: nothing, while balances stay or move; or
\* it burns, or it mints within the cap.
LEMMA SupplyMoves ==
    ASSUME [Next]_vars
    PROVE  \/ UNCHANGED <<balances, supply, mint, first_cap>>
           \/ UNCHANGED <<balances, supply, first_cap>> /\ mint # None /\ (mint' # None => mint'.cap = mint.cap)
           \/ /\ UNCHANGED <<supply, mint, first_cap>>
              /\ \E o \in Callers, to \in Accounts, n \in Nat : balances[o] >= n /\ balances' = Moved(o, to, n)
           \/ /\ UNCHANGED <<mint, first_cap>>
              /\ \E o \in Callers, n \in Nat :
                     /\ balances[o] >= n /\ balances' = [balances EXCEPT ![o] = @ - n]
                     /\ supply' = supply - n
           \/ /\ UNCHANGED <<mint, first_cap>> /\ mint # None
              /\ \E to \in Accounts, n \in Nat :
                     /\ balances' = [balances EXCEPT ![to] = @ + n] /\ supply' = supply + n
                     /\ mint.cap # None => supply + n <= mint.cap
<1>1. Contracts \subseteq Accounts /\ Amounts \subseteq Nat
  BY TokenAssumption DEF Accounts
<1>2. ASSUME NEW u \in Callers, ByOwner(u)
      PROVE  \/ /\ UNCHANGED <<supply, mint, first_cap>>
                /\ \E o \in Callers, to \in Accounts, n \in Nat : balances[o] >= n /\ balances' = Moved(o, to, n)
             \/ /\ UNCHANGED <<mint, first_cap>>
                /\ \E o \in Callers, n \in Nat :
                     /\ balances[o] >= n /\ balances' = [balances EXCEPT ![o] = @ - n]
                     /\ supply' = supply - n
  BY <1>1, <1>2 DEF ByOwner, execute_transfer, execute_burn, execute_send, minting
<1>3. ASSUME NEW u \in Callers, BySpender(u)
      PROVE  \/ /\ UNCHANGED <<supply, mint, first_cap>>
                /\ \E o \in Callers, to \in Accounts, n \in Nat : balances[o] >= n /\ balances' = Moved(o, to, n)
             \/ /\ UNCHANGED <<mint, first_cap>>
                /\ \E o \in Callers, n \in Nat :
                     /\ balances[o] >= n /\ balances' = [balances EXCEPT ![o] = @ - n]
                     /\ supply' = supply - n
  <2>1. ASSUME NEW o \in Callers, NEW to \in Accounts, NEW n \in Amounts,
               execute_transfer_from(u, o, to, n) \/ (to \in Contracts /\ execute_send_from(u, o, to, n))
        PROVE  /\ UNCHANGED <<supply, mint, first_cap>> /\ balances[o] >= n /\ balances' = Moved(o, to, n)
    BY <2>1 DEF execute_transfer_from, execute_send_from, minting
  <2>2. ASSUME NEW o \in Callers, NEW n \in Amounts, execute_burn_from(u, o, n)
        PROVE  /\ UNCHANGED <<mint, first_cap>> /\ balances[o] >= n /\ balances' = [balances EXCEPT ![o] = @ - n]
               /\ supply' = supply - n
    BY <2>2 DEF execute_burn_from, minting
  <2>3. QED
    BY <1>1, <1>3, <2>1, <2>2 DEF BySpender
<1>4. ASSUME NEW u \in Callers, Grant(u) \/ Publicity(u) PROVE UNCHANGED <<balances, supply, mint, first_cap>>
  BY <1>4 DEF Grant, execute_increase_allowance, execute_decrease_allowance, Publicity, ledger, minting
<1>5. ASSUME NEW u \in Callers, Minting(u)
      PROVE  \/ UNCHANGED <<balances, supply, first_cap>> /\ mint # None /\ (mint' # None => mint'.cap = mint.cap)
             \/ /\ UNCHANGED <<mint, first_cap>> /\ mint # None
                /\ \E to \in Accounts, n \in Nat :
                     /\ balances' = [balances EXCEPT ![to] = @ + n] /\ supply' = supply + n
                     /\ mint.cap # None => supply + n <= mint.cap
  <2>1. ASSUME NEW new \in Callers \union {None}, execute_update_minter(u, new)
        PROVE  UNCHANGED <<balances, supply, first_cap>> /\ mint # None /\ (mint' # None => mint'.cap = mint.cap)
    BY <2>1 DEF execute_update_minter, ledger
  <2>2. ASSUME NEW to \in Accounts, NEW n \in Amounts, execute_mint(u, to, n)
        PROVE  /\ UNCHANGED <<mint, first_cap>> /\ mint # None
               /\ balances' = [balances EXCEPT ![to] = @ + n] /\ supply' = supply + n
               /\ mint.cap # None => supply + n <= mint.cap
    BY <2>2 DEF execute_mint
  <2>3. QED
    BY <1>1, <1>5, <2>1, <2>2 DEF Minting
<1>6. CASE migrate \/ Tick \/ UNCHANGED vars
  BY <1>6 DEF migrate, Tick, vars, ledger, minting
<1>7. QED
  BY <1>2, <1>3, <1>4, <1>5, <1>6 DEF Next

LEMMA SupplyNext == BalancesInv /\ SupplyInv /\ [Next]_vars => SupplyInv'
<1> SUFFICES ASSUME BalancesInv, SupplyInv, [Next]_vars PROVE SupplyInv'
  OBVIOUS
<1>1. supply \in Nat /\ \A x \in Accounts : balances[x] \in Nat /\ balances[x] <= supply
  BY SumNat, TokenAssumption DEF SupplyInv, SupplyIsSum, BalancesInv
<1>2. CASE UNCHANGED <<balances, supply, mint, first_cap>>
  BY <1>2 DEF SupplyInv, SupplyIsSum, SupplyUnderCap
<1>3. CASE UNCHANGED <<balances, supply, first_cap>> /\ mint # None /\ (mint' # None => mint'.cap = mint.cap)
  BY <1>3 DEF SupplyInv, SupplyIsSum, SupplyUnderCap
<1>4. ASSUME UNCHANGED <<supply, mint, first_cap>>,
             NEW o \in Callers, NEW to \in Accounts, NEW n \in Nat, balances[o] >= n, balances' = Moved(o, to, n)
      PROVE  SupplyInv'
  BY <1>4, MovedSum DEF SupplyInv, SupplyIsSum, SupplyUnderCap
<1>5. ASSUME UNCHANGED <<mint, first_cap>>, NEW o \in Callers, NEW n \in Nat,
             balances[o] >= n, balances' = [balances EXCEPT ![o] = @ - n], supply' = supply - n
      PROVE  SupplyInv'
  <2> DEFINE d == 0 - n
  <2>1. o \in Accounts /\ d \in Int /\ balances[o] - n = balances[o] + d /\ balances[o] + d \in Nat
    BY <1>1, <1>5 DEF Accounts
  <2>2. SupplyIsSum'
    <3>1. balances' = [balances EXCEPT ![o] = balances[o] + d]
      BY <1>5, <2>1
    <3>2. supply' = supply + d
      BY <1>1, <1>5
    <3> HIDE DEF d
    <3>3. SumOver(balances', Accounts) = SumOver(balances, Accounts) + d
      BY <2>1, <3>1, ChangedSum
    <3>4. QED
      BY <3>2, <3>3 DEF SupplyInv, SupplyIsSum
  <2>3. QED
    BY <1>1, <1>5, <2>2 DEF SupplyInv, SupplyUnderCap
<1>6. ASSUME UNCHANGED <<mint, first_cap>>, mint # None, NEW to \in Accounts, NEW n \in Nat,
             balances' = [balances EXCEPT ![to] = @ + n], supply' = supply + n,
             mint.cap # None => supply + n <= mint.cap
      PROVE  SupplyInv'
  <2>1. SumOver(balances', Accounts) = SumOver(balances, Accounts) + n
    <3>1. balances[to] + n \in Nat /\ n \in Int /\ balances' = [balances EXCEPT ![to] = balances[to] + n]
      BY <1>1, <1>6
    <3>2. QED
      BY <3>1, ChangedSum
  <2>2. SupplyIsSum'
    BY <1>6, <2>1 DEF SupplyInv, SupplyIsSum
  <2>3. QED
    BY <1>6, <2>2 DEF SupplyInv, SupplyUnderCap
<1>7. QED
  BY <1>2, <1>3, <1>4, <1>5, <1>6, SupplyMoves

-----------------------------------------------------------------------------
(* Marketing *)

\* The data have their type and announce the logo that is stored.
MarketingInv ==
    /\ marketing \in MarketingData({None, "url", "embedded"}) \union {None}
    /\ logo \in {None, "url", "svg", "png"}
    /\ marketing = None => logo = None
    /\ marketing # None => marketing.logo = IF logo = None THEN None ELSE IF logo = "url" THEN "url" ELSE "embedded"

LEMMA MarketingInit == Init => MarketingInv
<1> SUFFICES ASSUME InitMarketing PROVE MarketingInv
  BY DEF Init
<1>1. PICK m \in InitialMarketings :
          IF m = None THEN marketing = None /\ logo = None
          ELSE /\ logo = IF m.logo = None THEN None ELSE m.logo.kind
               /\ marketing = [m EXCEPT !.logo = IF @ = None THEN None ELSE LogoInfo(@)]
  BY DEF InitMarketing
<1>2. CASE m = None
  BY <1>1, <1>2, MarketingAssumption DEF MarketingInv
<1>3. CASE m # None
  <2>1. m \in MarketingData(Uploads \union {None})
    BY <1>3, MarketingAssumption
  <2>2. marketing = [m EXCEPT !.logo = IF m.logo = None THEN None ELSE LogoInfo(m.logo)]
        /\ logo = IF m.logo = None THEN None ELSE m.logo.kind
    BY <1>1, <1>3
  <2>3. m.logo # None => m.logo \in Uploads
    BY <2>1 DEF MarketingData
  <2>4. QED
    BY <2>1, <2>2, <2>3, MarketingAssumption DEF MarketingInv, MarketingData, LogoInfo, Uploads
<1>4. QED
  BY <1>2, <1>3

LEMMA MarketingNext == MarketingInv /\ [Next]_vars => MarketingInv'
<1> SUFFICES ASSUME MarketingInv, [Next]_vars PROVE MarketingInv'
  OBVIOUS
<1>1. CASE UNCHANGED publicity
  BY <1>1 DEF publicity, MarketingInv
<1>2. ASSUME NEW u \in Callers, NEW project \in {None, Empty, Given}, NEW description \in {None, Empty, Given},
             NEW manager \in Callers \union {None, Empty}, execute_update_marketing(u, project, description, manager)
      PROVE  MarketingInv'
  <2> DEFINE info == [project |-> Field(marketing.project, project), description |-> Field(marketing.description, description),
                      marketing |-> Field(marketing.marketing, manager), logo |-> marketing.logo]
  <2>1. marketing # None /\ marketing' = (IF \A f \in DOMAIN info : info[f] = None THEN None ELSE info) /\ logo' = logo
    BY <1>2 DEF execute_update_marketing, Manages
  <2>2. marketing \in MarketingData({None, "url", "embedded"})
    BY <2>1 DEF MarketingInv
  <2>3. info \in MarketingData({None, "url", "embedded"}) /\ info.logo = marketing.logo
    BY <2>2 DEF MarketingData, Field
  <2>4. CASE \A f \in DOMAIN info : info[f] = None
    <3>1. info.logo = None
      BY <2>4
    <3>2. logo = None
      BY <2>1, <2>3, <3>1, MarketingAssumption DEF MarketingInv
    <3>3. QED
      BY <2>1, <2>4, <3>2 DEF MarketingInv
  <2>5. CASE ~ \A f \in DOMAIN info : info[f] = None
    <3>1. marketing' = info
      BY <2>1, <2>5
    <3> HIDE DEF info
    <3>2. QED
      BY <2>1, <2>3, <3>1, MarketingAssumption DEF MarketingInv
  <2>6. QED
    BY <2>4, <2>5
<1>3. ASSUME NEW u \in Callers, NEW l \in Logos, execute_upload_logo(u, l)
      PROVE  MarketingInv'
  <2>1. marketing # None /\ logo' = l.kind /\ marketing' = [marketing EXCEPT !.logo = LogoInfo(l)]
    BY <1>3 DEF execute_upload_logo, Manages
  <2>2. marketing \in MarketingData({None, "url", "embedded"}) /\ l \in Uploads
    BY <2>1, MarketingAssumption DEF MarketingInv
  <2>3. QED
    BY <2>1, <2>2, MarketingAssumption DEF MarketingInv, MarketingData, LogoInfo, Uploads
<1>4. ASSUME NEW u \in Callers, Publicity(u) PROVE MarketingInv'
  BY <1>2, <1>3, <1>4 DEF Publicity, UpdatePublicity
<1>5. ASSUME NEW u \in Callers, ByOwner(u) \/ BySpender(u) PROVE UNCHANGED publicity
  BY <1>5 DEF ByOwner, execute_transfer, execute_burn, execute_send,
              BySpender, execute_transfer_from, execute_burn_from, execute_send_from
<1>6. ASSUME NEW u \in Callers, Grant(u) \/ Minting(u) PROVE UNCHANGED publicity
  BY <1>6 DEF Grant, execute_increase_allowance, execute_decrease_allowance, Minting, execute_mint, execute_update_minter
<1>7. CASE migrate \/ Tick \/ UNCHANGED vars
  BY <1>1, <1>7 DEF migrate, Tick, vars
<1>8. QED
  BY <1>1, <1>4, <1>5, <1>6, <1>7 DEF Next

-----------------------------------------------------------------------------

\* The supply of cw20-base is the sum of the balances and within the first
\* cap, contracts hold what they were told, and logos can be downloaded.
THEOREM Cw20AlwaysSound == Spec => []Cw20Sound
<1>1. Spec => [](GrantsInv /\ BalancesInv /\ SupplyInv /\ MarketingInv)
  BY GrantsInit, GrantsNext, BalancesInit, BalancesNext, SupplyInit, SupplyNext, MarketingInit, MarketingNext, PTL DEF Spec
<1>2. MarketingInv => LogoAnnounced
  <2> SUFFICES ASSUME MarketingInv PROVE LogoAnnounced
    OBVIOUS
  <2>1. query_marketing_info.logo = IF logo = None THEN None ELSE IF logo = "url" THEN "url" ELSE "embedded"
    BY DEF MarketingInv, query_marketing_info
  <2>2. QED
    BY <2>1, MarketingAssumption DEF MarketingInv, LogoAnnounced, query_download_logo
<1>3. BalancesInv /\ SupplyInv /\ MarketingInv => Cw20Sound
  BY <1>2 DEF BalancesInv, SupplyInv, Cw20Sound
<1>4. QED
  BY <1>1, <1>3, PTL

=============================================================================
