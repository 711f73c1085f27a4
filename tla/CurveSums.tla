----------------------------- MODULE CurveSums -----------------------------
(***************************************************************************)
(* A curve to which further curves are added one after the other, as the   *)
(* vesting schedule of an account, and what the methods of Curve then say. *)
(***************************************************************************)
EXTENDS Curves

CONSTANTS
    FirstCurves,         \* the curves a sum begins with
    MoreCurves,          \* the ones that are added
    MaxParts,
    Xs,                  \* the times that are looked at
    Amounts, One, Probe  \* for scalable curves

VARIABLES curve, parts

vars == <<curve, parts>>

Init == curve \in FirstCurves /\ parts = <<curve>>

Add(c) ==
    /\ Len(parts) < MaxParts
    /\ curve' = combine(curve, c)
    /\ parts' = Append(parts, c)

Next == \E c \in MoreCurves : Add(c)

Spec == Init /\ [][Next]_vars

Values(c) == [x \in Xs |-> value(c, x)]
SumOfParts(x) == FoldLeft(LAMBDA s, c : s + value(c, x), 0, parts)
StepsOf(c) == IF c.kind = "Constant" THEN {} ELSE {Steps(c)[i][1] : i \in DOMAIN Steps(c)}

-----------------------------------------------------------------------------
(* Properties *)

\* The validation of a curve says what the curve does at every time: it is
\* accepted as falling (rising) exactly when it never rises (falls).
ValidationDecides ==
    validate(curve) =>
        /\ validate_monotonic_decreasing(curve) <=> IsDecreasing(Values(curve), Xs)
        /\ validate_monotonic_increasing(curve) <=> IsIncreasing(Values(curve), Xs)

\* range gives the least and the greatest value the curve ever has.
RangeExact ==
    validate(curve) => range(curve) = <<Min({value(curve, x) : x \in Xs}), Max({value(curve, x) : x \in Xs})>>

\* A sum of falling curves falls, so that 0 once reached is final, and its
\* greatest value is the sum of theirs.
SumsFall ==
    /\ IsDecreasing(Values(curve), Xs)
    /\ range(curve)[2] = FoldLeft(LAMBDA s, c : s + range(c)[2], 0, parts)

\* A sum is exact at the steps of its parts and elsewhere off by rounding
\* only, at most one for every part that was added.
SumsClose ==
    /\ \A x \in StepsOf(curve) :
           Len(parts) = 2 => value(curve, x) = SumOfParts(x)
    /\ \A x \in Xs : value(curve, x) - SumOfParts(x) \in (1 - Len(parts)) .. (Len(parts) - 1)

\* combine returns the result of adding the one curve to the other.
CombineIsSum == \A x \in Xs : value(curve, x) = SumOfParts(x)

\* A piecewise linear curve is a generalization of a saturating one: with the
\* same points it is as valid.
GeneralizesSaturating ==
    curve.kind = "SaturatingLinear" /\ validate(curve) => validate(PiecewiseLinear(Steps(curve)))

\* A scalable curve that is accepted as falling falls for every amount.
ScaledFalls ==
    validate(curve) /\ scalable_validate_monotonic_decreasing(curve, Probe, One) =>
        \A amount \in Amounts : IsDecreasing(Values(scale(curve, amount, One)), Xs)

=============================================================================
