-------------------------- MODULE MCSessionObjects --------------------------
(* One run for the natives that give a Move program things to hold: the    *)
(* elements of AlgebraContext, the points of NativeRistrettoPointContext,  *)
(* keys and signatures, and the identifiers of a transaction.  They share  *)
(* nothing but the session, so a behaviour uses the natives of one family. *)
EXTENDS MCAlgebra, MCRistretto, Signatures, Identifiers

VARIABLE family

Init ==
  /\ family \in {"algebra", "ristretto", "signatures", "identifiers"}
  /\ AlgebraInit /\ RistrettoInit /\ SignaturesInit /\ IdentifiersInit
  \* The instances of the families that are not used are always the same.
  /\ family # "algebra" => flags = {}
  /\ family # "ristretto" => bulletproofs
  /\ family # "signatures" => lengthFix
  /\ family # "identifiers" => world = NoWorld

Next ==
  /\ UNCHANGED family
  /\ \/ /\ family = "algebra" /\ AlgebraNext
        /\ UNCHANGED <<ristrettoVars, signatureVars, identifierVars>>
     \/ /\ family = "ristretto" /\ RistrettoNext
        /\ UNCHANGED <<algebraVars, signatureVars, identifierVars>>
     \/ /\ family = "signatures" /\ SignaturesNext
        /\ UNCHANGED <<algebraVars, ristrettoVars, identifierVars>>
     \/ /\ family = "identifiers" /\ IdentifiersNext
        /\ UNCHANGED <<algebraVars, ristrettoVars, signatureVars>>

Spec ==
  Init /\ [][Next]_<<family, algebraVars, ristrettoVars, signatureVars, identifierVars>>
=============================================================================
