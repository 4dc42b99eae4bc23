---------------------------- MODULE MCAggregators ----------------------------
(* Instances of Aggregators for TLC. *)
EXTENDS Aggregators, TLC

CONSTANTS short, long

Largest == [type \in IntElement |-> IF type = "u64" THEN 1 ELSE 2]
Strings == {short, long}
Lengths == short :> 1 @@ long :> 2
=============================================================================
