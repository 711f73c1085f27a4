-------------------------------- MODULE Sums --------------------------------
(***************************************************************************)
(* The totals of the contracts: supplies, stakes, tallies.                 *)
(***************************************************************************)
EXTENDS FiniteSetsExt

\* The sum of f[x] over the elements x of S.
SumOver(f, S) == MapThenSumSet(LAMBDA x : f[x], S)

=============================================================================
