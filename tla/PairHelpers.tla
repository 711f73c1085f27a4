---------------------------- MODULE PairHelpers ----------------------------
(***************************************************************************)
(* The arithmetic helpers of synedex pairs: the referral commission, the   *)
(* check of the spread of a swap and the share of the pool that is paid    *)
(* for LP tokens. A Decimal is a number of DECIMAL-ths.                    *)
(***************************************************************************)
EXTENDS Integers

CONSTANTS
    DECIMAL,                       \* 10^18 in the code
    Amounts,                       \* of tokens in a swap
    Withdrawals,                   \* amounts of LP tokens
    Decimals,                      \* inputs: rates and prices
    max_referral_commission,       \* of the factory
    InitialPool, InitialShare      \* of one asset, and of LP tokens

PairAssumption ==
    /\ DECIMAL \in Nat \ {0} /\ DECIMAL % 200 = 0
    /\ Amounts \subseteq Nat /\ Withdrawals \subseteq Nat /\ Decimals \subseteq Nat
    /\ max_referral_commission \in 0 .. DECIMAL
    /\ InitialPool \in Nat /\ InitialShare \in Nat

None == -1

VARIABLES
    pool, share,         \* what the pool holds of the asset, and the LP tokens in circulation
    last                 \* the last swap: its inputs and the answers of the helpers

vars == <<pool, share, last>>

-----------------------------------------------------------------------------
(* Decimal *)

from_ratio(a, b) == (a * DECIMAL) \div b
Times(amount, d) == (amount * d) \div DECIMAL
inv(d) == (DECIMAL * DECIMAL) \div d

-----------------------------------------------------------------------------
(* The helpers *)

UnwrapOr(x, default) == IF x = None THEN default ELSE x

Allowed(commission) == UnwrapOr(commission, max_referral_commission) <= max_referral_commission

\* The commission that is taken out of the amount.
take_referral(commission, amount) ==
    IF commission = 0 THEN 0 ELSE Times(amount, UnwrapOr(commission, max_referral_commission))

\* The commission that is put on top of the amount; a rate of 1 divides by 0.
add_referral(commission, amount) ==
    LET rate == UnwrapOr(commission, max_referral_commission) IN
    IF commission = 0 THEN 0 ELSE ((amount * rate * DECIMAL) \div (DECIMAL - rate)) \div DECIMAL

DEFAULT_SLIPPAGE == DECIMAL \div 200
MAX_ALLOWED_SLIPPAGE == DECIMAL \div 2

\* Fault: the spread is measured against what was returned.
BeliefOk_Returned(belief_price, max_spread, offer, return) ==
    LET expected == Times(offer, inv(belief_price)) IN
    return < expected => return > 0 /\ from_ratio(expected - return, expected + return) <= max_spread

BeliefOk(belief_price, max_spread, offer, return) ==
    LET expected == Times(offer, inv(belief_price)) IN
    return < expected => from_ratio(expected - return, expected) <= max_spread

\* Without a price the spread of the swap counts; from_ratio panics for 0.
SwapOk(max_spread, return, spread) ==
    /\ return + spread > 0
    /\ from_ratio(spread, return + spread) <= max_spread

assert_max_spread(belief_price, max_spread, offer, return, spread) ==
    LET max == UnwrapOr(max_spread, DEFAULT_SLIPPAGE) IN
    /\ max <= MAX_ALLOWED_SLIPPAGE
    /\ IF belief_price = None THEN SwapOk(max, return, spread)
       ELSE belief_price /= 0 /\ BeliefOk(belief_price, max, offer, return)

\* Fault: the ratio is rounded up.
get_share_in_assets_Up(amount) ==
    IF share = 0 THEN 0 ELSE Times(pool, from_ratio(amount, share) + 1)

\* What amount LP tokens are worth.
get_share_in_assets(amount) ==
    IF share = 0 THEN 0 ELSE Times(pool, from_ratio(amount, share))

-----------------------------------------------------------------------------
(* A pair that uses them *)

NoSwap == [offer |-> None, commission |-> None, belief_price |-> None, max_spread |-> None, return |-> 0, spread |-> 0, ok |-> FALSE]

Init == pool = InitialPool /\ share = InitialShare /\ last = NoSwap

\* A swap begins with the commission of the referral. The helpers keep no
\* state, so one swap is enough.
Offer(offer, commission) ==
    /\ last = NoSwap /\ Allowed(commission)
    /\ last' = [last EXCEPT !.offer = offer, !.commission = commission]
    /\ UNCHANGED <<pool, share>>

\* It is checked against the limits.
Settle(belief_price, max_spread, return, spread) ==
    /\ last.offer /= None /\ ~last.ok
    /\ last' = [last EXCEPT !.belief_price = belief_price, !.max_spread = max_spread,
                            !.return = return, !.spread = spread, !.ok = TRUE]
    /\ assert_max_spread(belief_price, max_spread, last.offer, return, spread)
    /\ UNCHANGED <<pool, share>>

\* LP tokens are burnt for their share of the pool.
Withdraw(amount) ==
    /\ amount \in 1 .. share
    /\ pool' = pool - get_share_in_assets(amount) /\ share' = share - amount
    /\ UNCHANGED last

Next ==
    \/ \E offer \in Amounts, commission \in Decimals \cup {None} : Offer(offer, commission)
    \/ \E return, spread \in Amounts, price, max \in Decimals \cup {None} : Settle(price, max, return, spread)
    \/ \E amount \in Withdrawals : Withdraw(amount)

Spec == Init /\ [][Next]_vars

-----------------------------------------------------------------------------
(* Properties *)

\* Taking the commission from an amount to which it was added gives back the
\* amount, whatever is rounded in between.
AddThenTake ==
    LET added == last.offer + add_referral(last.commission, last.offer) IN
    last.offer /= None /\ UnwrapOr(last.commission, max_referral_commission) < DECIMAL =>
        added - take_referral(last.commission, added) = last.offer

\* A swap that is accepted at a price the user believes in returns at least
\* what the price promises less the limit, up to one unit of the Decimal; the
\* limit is half at most.
BeliefHonoured ==
    last.ok /\ last.belief_price /= None =>
        LET expected == Times(last.offer, inv(last.belief_price))
            max == UnwrapOr(last.max_spread, DEFAULT_SLIPPAGE) IN
        /\ (expected - last.return) * DECIMAL < (max + 1) * expected \/ last.return >= expected
        /\ 2 * max <= DECIMAL

\* Withdrawals round in favour of those that stay: the pool never runs short,
\* and an LP token is never worth less than before.
ShareNeverDiluted ==
    [][pool' >= 0 /\ pool' * share >= pool * share']_vars

\* The price of the user counts only together with a limit; otherwise the
\* spread of the swap does.
BeliefNeedsLimit ==
    last.ok /\ last.belief_price > 0 /\ last.max_spread = None /\ last.return > 0 =>
        SwapOk(DEFAULT_SLIPPAGE, last.return, last.spread)

=============================================================================
