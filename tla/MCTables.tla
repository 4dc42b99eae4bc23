------------------------------ MODULE MCTables ------------------------------
(* Instances of Tables for TLC. *)
EXTENDS Tables, TLC

CONSTANTS k1, k2, small, large

Keys == {k1, k2}
Vals == {small, large}

\* With pages of 2 bytes a small value fills one page exactly and a large one
\* begins a second.
Sizes == small :> 2 @@ large :> 3

Symmetry == Permutations(Keys)

\* The bases are the same for every native: what matters is which loads are
\* charged.
Schedule ==
  [g \in GasNames |->
     IF g \in {"COMMON_LOAD_BASE_LEGACY", "DROP_UNCHECKED_BOX_BASE"} THEN 0 ELSE 1]
=============================================================================
