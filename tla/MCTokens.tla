------------------------------ MODULE MCTokens ------------------------------
(***************************************************************************)
(* The tokens and what pays them out, for TLC: cw20-base, cw20-vesting,    *)
(* the curves and the distribution contract. As none of them calls another *)
(* one, one part runs and the others rest. A component runs in several     *)
(* parts, which differ in the constants, where one would be too large.     *)
(***************************************************************************)
EXTENDS Cw20Token, TLC

CONSTANTS a, b, c

VARIABLES
    part,                                                            \* the part that runs
    vbalances, vsupply, vmint, allow_list, vesting, staking,         \* VestingToken
    delegated, vallowances, promised, vmarketing, vlogo, vnow,
    curve, parts,                                                    \* CurveSums
    cfg, balance, received, clock, base, paid, updates               \* Distribution

vestingVars ==
    <<vbalances, vsupply, vmint, allow_list, vesting, staking, delegated, vallowances, promised, vmarketing, vlogo, vnow>>
sumVars == <<curve, parts>>
payVars == <<cfg, balance, received, clock, base, paid, updates>>

-----------------------------------------------------------------------------
(* cw20-base: "spend" with the constants of the configuration, "mint" with these *)

Row(x, n) == [address |-> x, amount |-> n]

\* The second list names a twice and is refused.
Lists == {<<Row(a, 2), Row(b, 1)>>, <<Row(a, 1), Row(a, 1)>>}
OldGrants == {[NoEntry EXCEPT ![a, b] = [allowance |-> 1, expires |-> 1]]}

SomeLogos ==
    {[kind |-> "svg", header |-> TRUE, big |-> FALSE], [kind |-> "png", header |-> TRUE, big |-> FALSE],
     [kind |-> "url", header |-> FALSE, big |-> FALSE], [kind |-> "png", header |-> FALSE, big |-> FALSE],
     [kind |-> "svg", header |-> TRUE, big |-> TRUE]}
Marketings ==
    {None} \union
    [project : {None, Given}, description : {None}, marketing : {None, a}, logo : {None} \union SomeLogos]

Mint == INSTANCE Cw20Token WITH
    InitialMints <- {[minter |-> a, cap |-> 4], [minter |-> a, cap |-> 1]}, InitialMarketings <- Marketings,
    OldAllowances <- {}, Amounts <- {1}, Expirations <- {}, Logos <- SomeLogos,
    MaxSupply <- 5, MaxAllowance <- 0, MaxMinted <- 3, MaxTime <- 0

-----------------------------------------------------------------------------
(* cw20-vesting *)

C == INSTANCE Curves

Slow == C!SaturatingLinear(0, 2, 3, 0)
Fast == C!SaturatingLinear(1, 1, 2, 0)
Stairs == C!PiecewiseLinear(<< <<1, 2>>, <<2, 1>>, <<3, 0>> >>)
Rising == C!SaturatingLinear(1, 0, 3, 2)
Locked == {<<[address |-> a, amount |-> 2, vesting |-> Slow], [address |-> b, amount |-> 2, vesting |-> None]>>}

\* Accounts hold, send and delegate tokens under several schedules.
Locks == INSTANCE VestingToken WITH
    Creator <- b, InitialLists <- Locked, InitialMints <- {[minter |-> b, cap |-> None]}, InitialMarketings <- {None},
    Vesters <- {None}, MaxComplexity <- 4, Amounts <- {1, 2}, Schedules <- {Fast, Stairs, C!Constant(0), Rising},
    NewCaps <- {}, Expirations <- {}, Logos <- {}, MaxSchedules <- 2, MaxSupply <- 4, MaxAllowance <- 0, MaxTime <- 3,
    balances <- vbalances, supply <- vsupply, mint <- vmint, allowances <- vallowances,
    marketing <- vmarketing, logo <- vlogo, now <- vnow

\* Others spend tokens by allowances.
Spenders == INSTANCE VestingToken WITH
    Creator <- b, InitialLists <- Locked, InitialMints <- {None}, InitialMarketings <- {None},
    Vesters <- {None}, MaxComplexity <- 4, Amounts <- {1, 2}, Schedules <- {},
    NewCaps <- {}, Expirations <- {None, 1}, Logos <- {}, MaxSchedules <- 2, MaxSupply <- 4, MaxAllowance <- 2, MaxTime <- 3,
    balances <- vbalances, supply <- vsupply, mint <- vmint, allowances <- vallowances,
    marketing <- vmarketing, logo <- vlogo, now <- vnow

\* Tokens are minted under a cap that rises, and that a migration replaces.
Caps == INSTANCE VestingToken WITH
    Contracts <- {}, Creator <- b, InitialLists <- Locked,
    InitialMints <- {[minter |-> b, cap |-> C!SaturatingLinear(0, 4, 3, 6)], [minter |-> b, cap |-> Rising]},
    InitialMarketings <- {[project |-> Given, description |-> None, marketing |-> a, logo |-> None]},
    Vesters <- {None}, MaxComplexity <- 4, Amounts <- {1, 2}, Schedules <- {},
    NewCaps <- {C!PiecewiseLinear(<< <<1, 5>>, <<3, 7>> >>), C!Constant(9)}, Expirations <- {},
    Logos <- {[kind |-> "png", header |-> TRUE, big |-> FALSE], [kind |-> "url", header |-> FALSE, big |-> FALSE]},
    MaxSchedules <- 2, MaxSupply <- 8, MaxAllowance <- 0, MaxTime <- 3,
    balances <- vbalances, supply <- vsupply, mint <- vmint, allowances <- vallowances,
    marketing <- vmarketing, logo <- vlogo, now <- vnow

-----------------------------------------------------------------------------
(* Curves *)

\* All curves with at most three steps, in order or not.
AllCurves(X, Y) ==
    {C!Constant(y) : y \in Y}
    \union {C!SaturatingLinear(p[1], p[2], q[1], q[2]) : p, q \in X \X Y}
    \union {C!PiecewiseLinear(<<p>>) : p \in X \X Y}
    \union {C!PiecewiseLinear(<<p, q>>) : p, q \in X \X Y}
    \union {C!PiecewiseLinear(<<p, q, r>>) : p, q, r \in X \X Y}

\* The vesting schedules among them: they fall to 0.
Falling == {x \in AllCurves({1, 2, 5}, {0, 1, 3}) : C!validate_monotonic_decreasing(x) /\ C!range(x)[1] = 0}

\* Every curve, and a constant added to it.
Methods == INSTANCE CurveSums WITH
    FirstCurves <- AllCurves({0, 1, 3, 4}, {0, 1, 3}), MoreCurves <- {C!Constant(1)}, MaxParts <- 2,
    Xs <- 0 .. 5, Amounts <- {}, One <- 1, Probe <- 1

\* Sums of three schedules.
Adding == INSTANCE CurveSums WITH
    FirstCurves <- Falling, MoreCurves <- Falling, MaxParts <- 3, Xs <- 0 .. 6, Amounts <- {}, One <- 1, Probe <- 1

-----------------------------------------------------------------------------
(* Distribution *)

Pay == INSTANCE Distribution WITH
    Tokens <- {"t1"}, Recipients <- {"staking", "wallet"}, Handling <- {"staking"}, Admins <- {"a1", "a2"},
    Epochs <- {0, 1, 2}, Payments <- {0, 2}, MaxFunds <- 8, MaxTime <- 4, MaxUpdates <- 2, now <- clock

ASSUME Pay!DistributionAssumption

AnyPay == [cw20_contract |-> "t1", epoch |-> 1, payment |-> 2, recipient |-> "staking", admin |-> "a1", last_payment |-> 0]

-----------------------------------------------------------------------------

\* A part that rests has one state; each of them may be initial.
MCInit ==
    /\ part \in {"spend", "mint", "locks", "spenders", "caps", "methods", "adding", "payouts"}
    /\ IF part = "mint" THEN Mint!Init ELSE Init /\ (part # "spend" => code = "new")
    /\ CASE part = "spenders" -> Spenders!Init [] part = "caps" -> Caps!Init [] OTHER -> Locks!Init
    /\ CASE part = "methods" -> Methods!Init [] part = "adding" -> Adding!Init
         [] OTHER -> curve = C!Constant(1) /\ parts = <<curve>>
    /\ Pay!Init /\ (part # "payouts" => cfg = AnyPay)

MCNext ==
    \/ /\ \/ part = "spend" /\ Next
          \/ part = "mint" /\ Mint!Next
       /\ UNCHANGED <<part, vestingVars, sumVars, payVars>>
    \/ /\ \/ part = "locks" /\ Locks!Next
          \/ part = "spenders" /\ Spenders!Next
          \/ part = "caps" /\ Caps!Next
       /\ UNCHANGED <<part, vars, sumVars, payVars>>
    \/ /\ \/ part = "methods" /\ Methods!Next
          \/ part = "adding" /\ Adding!Next
       /\ UNCHANGED <<part, vars, vestingVars, payVars>>
    \/ /\ part = "payouts" /\ Pay!Next
       /\ UNCHANGED <<part, vars, vestingVars, sumVars>>

\* The fairness of Distribution when it runs.
MCSpec ==
    /\ MCInit /\ [][MCNext]_<<part, vars, vestingVars, sumVars, payVars>>
    /\ WF_payVars(part = "payouts" /\ Pay!execute_payout)
    /\ WF_payVars(part = "payouts" /\ Pay!Fund("t1"))

-----------------------------------------------------------------------------
(* Properties, besides those of Cw20Token *)

\* cw20-vesting: what a schedule locks stays with the account, held or delegated, everything
\* that is delegated can be given back, the supply is the sum of the balances and within the
\* cap of the time.
VestingSound ==
    /\ Locks!LockedTokensStay /\ Locks!DelegationsReturnable
    /\ IF part = "caps" THEN Caps!SupplyIsSum /\ Caps!SupplyUnderCap ELSE Locks!SupplyIsSum

\* Curves: a curve is accepted as falling or rising exactly when it is and range is exact; a
\* sum of schedules falls and is off by less than one for every curve that is added.
CurvesSound ==
    /\ part = "methods" => Methods!ValidationDecides /\ Methods!RangeExact
    /\ part = "adding" => Adding!SumsFall /\ Adding!SumsClose

\* Distribution: whole epochs are paid once each, however late, and missed ones in the end.
PayoutsSound == Pay!WholeEpochsPaid /\ Pay!MissedEpochsPaid

=============================================================================
