---------------------------- MODULE MCRistretto ----------------------------
(* Instances of Ristretto for TLC. *)
EXTENDS Ristretto

CONSTANTS x1, x2
=============================================================================
