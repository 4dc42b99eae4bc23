----------------------------- MODULE MCAlgebra -----------------------------
(* Instances of Algebra for TLC. *)
EXTENDS Algebra

\* Three objects fit, and the limit is not a multiple of their size.
Sizes == [k \in Kind |-> 2]

\* All of one curve, and the scalars of the other.
Structures == {s \in AllStructures : s[1] = "BLS12381" \/ s[2] = "Fr"}
=============================================================================
