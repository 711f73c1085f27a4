------------------------------- MODULE Curves -------------------------------
(***************************************************************************)
(* syne-curve-utils: curves over the block time with whole values. A curve *)
(* is a record of one of three kinds; the operators are the methods. The   *)
(* values of the model stay far below 2^128.                               *)
(***************************************************************************)
EXTENDS Integers, Sequences, FiniteSets, FiniteSetsExt, SequencesExt

Constant(y) == [kind |-> "Constant", y |-> y]
SaturatingLinear(min_x, min_y, max_x, max_y) ==
    [kind |-> "SaturatingLinear", min_x |-> min_x, min_y |-> min_y, max_x |-> max_x, max_y |-> max_y]
PiecewiseLinear(steps) == [kind |-> "PiecewiseLinear", steps |-> steps]

IsDecreasing(f, Xs) == \A x1, x2 \in Xs : x1 <= x2 => f[x1] >= f[x2]
IsIncreasing(f, Xs) == \A x1, x2 \in Xs : x1 <= x2 => f[x1] <= f[x2]

-----------------------------------------------------------------------------
(* Evaluation *)

\* Toward the value of p: a rising line is rounded down, a falling one up.
interpolate(p, q, x) ==
    IF q[2] > p[2] THEN p[2] + ((q[2] - p[2]) * (x - p[1])) \div (q[1] - p[1])
    ELSE p[2] - ((p[2] - q[2]) * (x - p[1])) \div (q[1] - p[1])

saturating_value(s, x) ==
    CASE x < s.min_x -> s.min_y
      [] x >= s.min_x /\ x > s.max_x -> s.max_y
      [] OTHER -> interpolate(<<s.min_x, s.min_y>>, <<s.max_x, s.max_y>>, x)

\* The loop ends at the first step after x, or at the last one.
piecewise_value(steps, x) ==
    LET n == Len(steps)
        k == Min({j \in 1 .. n - 1 : x < steps[j][1]} \union {n})
        next == steps[k]
    IN  IF k = 1 THEN next[2]
        ELSE LET last == steps[k - 1] IN
             CASE x = last[1] -> last[2]
               [] x # last[1] /\ x >= next[1] -> next[2]
               [] OTHER -> interpolate(last, next, x)

value(c, x) ==
    CASE c.kind = "Constant" -> c.y
      [] c.kind = "SaturatingLinear" -> saturating_value(c, x)
      [] c.kind = "PiecewiseLinear" -> piecewise_value(c.steps, x)

size(c) ==
    CASE c.kind = "Constant" -> 1
      [] c.kind = "SaturatingLinear" -> 2
      [] c.kind = "PiecewiseLinear" -> Len(c.steps)

piecewise_range(steps) == LET ys == {steps[i][2] : i \in DOMAIN steps} IN <<Min(ys), Max(ys)>>

range(c) ==
    CASE c.kind = "Constant" -> <<c.y, c.y>>
      [] c.kind = "SaturatingLinear" -> <<Min({c.min_y, c.max_y}), Max({c.min_y, c.max_y})>>
      [] c.kind = "PiecewiseLinear" -> piecewise_range(c.steps)

-----------------------------------------------------------------------------
(* Validation *)

\* The fold starts at 0, so the first step must be after 0.
piecewise_validate(steps) ==
    steps # <<>> /\ \A i \in DOMAIN steps : steps[i][1] > IF i = 1 THEN 0 ELSE steps[i - 1][1]

validate(c) ==
    CASE c.kind = "Constant" -> TRUE
      [] c.kind = "SaturatingLinear" -> c.max_x > c.min_x
      [] c.kind = "PiecewiseLinear" -> piecewise_validate(c.steps)

NextShape(shape, last, y) ==
    CASE shape = "NotMonotonic" -> shape
      [] shape = "MonotonicDecreasing" -> IF y > last THEN "NotMonotonic" ELSE shape
      [] shape = "MonotonicIncreasing" -> IF y < last THEN "NotMonotonic" ELSE shape
      [] shape = "Constant" ->
             IF y > last THEN "MonotonicIncreasing" ELSE IF y < last THEN "MonotonicDecreasing" ELSE shape

classify_curve(steps) ==
    FoldLeft(LAMBDA s, p : [last |-> p[2], shape |-> NextShape(s.shape, s.last, p[2])],
             [last |-> steps[1][2], shape |-> "Constant"], Tail(steps)).shape

validate_monotonic_increasing(c) ==
    CASE c.kind = "Constant" -> TRUE
      [] c.kind = "SaturatingLinear" -> validate(c) /\ c.max_y >= c.min_y
      [] c.kind = "PiecewiseLinear" ->
             validate(c) /\ classify_curve(c.steps) \notin {"NotMonotonic", "MonotonicDecreasing"}

validate_monotonic_decreasing(c) ==
    CASE c.kind = "Constant" -> TRUE
      [] c.kind = "SaturatingLinear" -> validate(c) /\ c.max_y <= c.min_y
      [] c.kind = "PiecewiseLinear" ->
             validate(c) /\ classify_curve(c.steps) \notin {"NotMonotonic", "MonotonicIncreasing"}

validate_complexity(c, max) == size(c) <= max

-----------------------------------------------------------------------------
(* Addition *)

combine_const(c, const_y) ==
    CASE c.kind = "Constant" -> Constant(c.y + const_y)
      [] c.kind = "SaturatingLinear" -> SaturatingLinear(c.min_x, c.min_y + const_y, c.max_x, c.max_y + const_y)
      [] c.kind = "PiecewiseLinear" -> PiecewiseLinear([i \in DOMAIN c.steps |-> <<c.steps[i][1], c.steps[i][2] + const_y>>])

\* From<&SaturatingLinear>
Steps(c) == IF c.kind = "SaturatingLinear" THEN << <<c.min_x, c.min_y>>, <<c.max_x, c.max_y>> >> ELSE c.steps

\* Fault: of the second curve only the first and the last step are kept.
piecewise_combine_Ends(s1, s2) ==
    LET xs == SetToSortSeq({s1[i][1] : i \in DOMAIN s1} \union {s2[1][1], s2[Len(s2)][1]}, <)
    IN  [i \in DOMAIN xs |-> <<xs[i], piecewise_value(s1, xs[i]) + piecewise_value(s2, xs[i])>>]

\* The sum, at all steps of both curves.
piecewise_combine(s1, s2) ==
    LET xs == SetToSortSeq({s1[i][1] : i \in DOMAIN s1} \union {s2[i][1] : i \in DOMAIN s2}, <)
    IN  [i \in DOMAIN xs |-> <<xs[i], piecewise_value(s1, xs[i]) + piecewise_value(s2, xs[i])>>]

combine(c1, c2) ==
    CASE c1.kind = "Constant" -> combine_const(c2, c1.y)
      [] c1.kind # "Constant" /\ c2.kind = "Constant" -> combine_const(c1, c2.y)
      [] OTHER -> PiecewiseLinear(piecewise_combine(Steps(c1), Steps(c2)))

-----------------------------------------------------------------------------
(* Scalable curves: values are ratios, in numbers of 1/One *)

\* amount * ratio of cosmwasm_std rounds down.
scale(c, amount, One) ==
    CASE c.kind = "Constant" -> Constant((amount * c.y) \div One)
      [] c.kind = "SaturatingLinear" ->
             SaturatingLinear(c.min_x, (amount * c.min_y) \div One, c.max_x, (amount * c.max_y) \div One)
      [] c.kind = "PiecewiseLinear" ->
             PiecewiseLinear([i \in DOMAIN c.steps |-> <<c.steps[i][1], (amount * c.steps[i][2]) \div One>>])

\* The check is made on the curve scaled to Probe (1_000_000_000).
scalable_validate_monotonic_decreasing(c, Probe, One) == validate_monotonic_decreasing(scale(c, Probe, One))

=============================================================================
