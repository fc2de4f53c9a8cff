------------------------------- MODULE Totals -------------------------------
(***************************************************************************)
(* The sum of a function's values over a finite set.                       *)
(***************************************************************************)
EXTENDS FiniteSetsExt

TotalOf(F, S) == MapThenSumSet(LAMBDA x : F[x], S)
=============================================================================
