------------------------------- MODULE Totals -------------------------------
(* Sums over the range of a function, which the Move code computes by loops *)
(* over vectors and tables.                                                 *)
EXTENDS Integers, FiniteSetsExt

\* The sum of f[x] for all x in the domain of f.
Total(f) == MapThenSumSet(LAMBDA x : f[x], DOMAIN f)
=============================================================================
