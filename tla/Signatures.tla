---------------------------- MODULE Signatures ----------------------------
(***************************************************************************)
(* The natives of signature schemes: BLS signatures over BLS12-381 with    *)
(* multisignatures and aggregate signatures (cryptography/bls12381.rs),    *)
(* Ed25519, MultiEd25519 and ECDSA recovery, as the Move modules of        *)
(* endless-stdlib call them.                                               *)
(*                                                                         *)
(* A BLS point has a part in the prime-order subgroup, counted modulo R,   *)
(* and a part outside of it, 0 or 1; a secret key s has the public key s   *)
(* and signs m with s * H(m).  The natives keep nothing: what lasts is what *)
(* a Move program collects, the keys it admitted with a proof of possession *)
(* and the signatures it gathered for them.                                *)
(* Every native charges gas before each piece of work; running out of gas  *)
(* ends the program and is left out.                                       *)
(***************************************************************************)
EXTENDS Integers, Sequences, SequencesExt, FiniteSetsExt, Totals

CONSTANTS
  GroupOrder,     \* the prime order of the subgroup
  Message,        \* messages, given by their hash to the group
  MaxSigners,     \* bound on the keys a program admits
  MAX_NUM_OF_KEYS \* of MultiEd25519

ASSUME SignaturesAssumption ==
  /\ GroupOrder \in Nat \ {0, 1}
  /\ Message \subseteq 1 .. GroupOrder - 1
  /\ MaxSigners \in Nat /\ MAX_NUM_OF_KEYS \in Nat
ASSUME PrimeOrderAssumption ==
  \A a, b \in 1 .. GroupOrder - 1 : (a * b) % GroupOrder # 0

VARIABLES
  signers,    \* the PublicKeyWithPoP admitted, each with the message to sign
  signatures, \* the Signature values gathered, each with its signer, as they came
  lengthFix,  \* ED25519_PUBKEY_VALIDATE_RETURN_FALSE_WRONG_LENGTH
  verdict     \* the last native called, its arguments and its result

signatureVars == <<signers, signatures, lengthFix, verdict>>

NoVerdict == [of |-> "none"]

----------------------------------------------------------------------------
\* BLS12-381 and the library behind endless_crypto::bls12381.

Undecodable == [undecodable |-> TRUE]
CurvePoint == [x : 0 .. GroupOrder - 1, outside : 0 .. 1]
Encoding == CurvePoint \cup {Undecodable}

Scaled(n, p) == [x |-> (n * p.x) % GroupOrder, outside |-> (n * p.outside) % 2]
Summed(points) ==
  [x |-> Total([i \in DOMAIN points |-> points[i].x]) % GroupOrder,
   outside |-> Total([i \in DOMAIN points |-> points[i].outside]) % 2]

PublicKeyOf(sk) == [x |-> sk, outside |-> 0]
SignatureOf(sk, m) == Scaled(m, PublicKeyOf(sk))

\* The subgroup check of a signature that is verified; PublicKey::subgroup_check
\* refuses the identity as well.
SigInSubgroup(p) == p.outside = 0
ValidKey(p) == p.outside = 0 /\ p.x # 0

\* verify checks the subgroup of the signature and refuses the identity as a key.
\* What a pairing says of points outside of the subgroup does not matter here: the
\* part inside decides.
Verifies(sig, pk, m) ==
  SigInSubgroup(sig) /\ [pk EXCEPT !.outside = 0].x # 0 /\ sig.x = (m * pk.x) % GroupOrder

VerifiesAggregate(sig, pks, ms) ==
  /\ SigInSubgroup(sig) /\ pks # <<>>
  /\ \A i \in DOMAIN pks : pks[i].x # 0
  /\ sig.x = Summed([i \in DOMAIN pks |-> Scaled(ms[i], pks[i])]).x

----------------------------------------------------------------------------
\* The natives of bls12381.rs.

\* bls12381_deserialize_pks and _sigs stop at the first that does not decode.
Deserialized(all) ==
  LET good == {n \in 0 .. Len(all) : \A i \in 1 .. n : all[i] # Undecodable}
  IN  SubSeq(all, 1, Max(good))

Failed == [bytes |-> Undecodable, ok |-> FALSE]

\* native_bls12381_aggregate_pubkeys and _signatures: neither checks the subgroup.
Aggregate(all) ==
  LET points == Deserialized(all) IN
  IF all = <<>> \/ Len(points) # Len(all) THEN Failed
  ELSE [bytes |-> Summed(points), ok |-> TRUE]

verify_signature_helper(sig, pk, m, check_pk_subgroup) ==
  /\ pk # Undecodable
  /\ check_pk_subgroup => ValidKey(pk)
  /\ sig # Undecodable
  /\ Verifies(sig, pk, m)

verify_multisignature(sig, pk, m) == verify_signature_helper(sig, pk, m, FALSE)
verify_signature_share(sig, pk, m) == verify_signature_helper(sig, pk, m, FALSE)
verify_normal_signature(sig, pk, m) == verify_signature_helper(sig, pk, m, TRUE)

\* Signature::subgroup_check refuses the identity, which verify does not.
signature_subgroup_check(sig) == sig # Undecodable /\ SigInSubgroup(sig) /\ sig.x # 0
validate_pubkey(pk) == pk # Undecodable /\ ValidKey(pk)

\* ProofOfPossession::verify checks the key's subgroup as well.
verify_proof_of_possession(pk, pop) ==
  /\ pk # Undecodable /\ pop # Undecodable
  /\ ValidKey(pk) /\ Verifies(pop, pk, 1)

verify_aggregate_signature(sig, pks, ms) ==
  /\ Len(pks) = Len(ms)
  /\ Len(Deserialized(pks)) = Len(pks)
  /\ sig # Undecodable
  /\ VerifiesAggregate(sig, pks, ms)

----------------------------------------------------------------------------
\* Ed25519 and MultiEd25519.  A sub-key is on the curve and of large order
\* ("sound"), of small order, or off the curve; `tail` is what follows the last
\* whole sub-key, the threshold.
SubKey == {"sound", "small", "off"}

\* native_public_key_validate: what it does for a key of the wrong length depends on
\* a feature.
ed25519_public_key_validate(key) ==
  IF key = "wrong length" THEN IF lengthFix THEN "false" ELSE "abort"
  ELSE IF key = "sound" THEN "true" ELSE "false"

\* The library reads a key of small order, and strict verification refuses it.
ed25519_signature_verify_strict(by, key) ==
  key \in SubKey \ {"off"} /\ key = "sound" /\ by = key

CheckAndGetThreshold(key) ==
  LET n == Len(key.subs) IN
  /\ n \in 1 .. MAX_NUM_OF_KEYS /\ Len(key.tail) = 1
  /\ Last(key.tail) \in 1 .. n

num_valid_subpks(key) ==
  Max({n \in 0 .. Len(key.subs) : \A i \in 1 .. n : key.subs[i] = "sound"})

\* native_public_key_validate_with_gas_fix looks at the sub-keys only, and the Move
\* function that calls it at the length.
multi_public_key_validate(key) ==
  /\ Len(key.tail) = 1
  /\ Len(key.subs) <= MAX_NUM_OF_KEYS
  /\ num_valid_subpks(key) = Len(key.subs)

multi_public_key_validate_v2_NoThreshold(key) == multi_public_key_validate(key)
multi_public_key_validate_v2(key) ==
  /\ CheckAndGetThreshold(key)
  /\ num_valid_subpks(key) = Len(key.subs)

\* A signature is the set of those that signed (its bitmap), made with the keys
\* of the positions `by`.
multi_signature_verify_strict(sig, key) ==
  /\ CheckAndGetThreshold(key) /\ \A i \in DOMAIN key.subs : key.subs[i] # "off"
  /\ sig.bitmap # {}
  /\ sig.bitmap \subseteq DOMAIN key.subs
  /\ Cardinality(sig.bitmap) >= Last(key.tail)
  /\ \A i \in sig.bitmap : i \in sig.by /\ key.subs[i] = "sound"

----------------------------------------------------------------------------
\* ECDSA over secp256k1: a signature and its recovery id give the key back.  With
\* another id the recovery gives another key, if one exists for it.
RecoveryIds == 0 .. 3

ecdsa_recover(sig, recovery_id, exists) ==
  IF sig = Undecodable \/ recovery_id \notin RecoveryIds THEN [abort |-> "NFE_DESERIALIZE"]
  ELSE IF recovery_id = sig.recovery_id THEN [key |-> sig.by, ok |-> TRUE]
  ELSE IF exists THEN [key |-> "another", ok |-> TRUE]
  ELSE [key |-> "none", ok |-> FALSE]

----------------------------------------------------------------------------
SignaturesInit ==
  /\ signers = <<>> /\ signatures = <<>>
  /\ lengthFix \in BOOLEAN
  /\ verdict = NoVerdict

\* public_key_from_bytes_with_pop gives a PublicKeyWithPoP.
Admit(pk, pop, m) ==
  /\ Len(signers) < MaxSigners /\ signatures = <<>>
  /\ verify_proof_of_possession(pk, pop)
  /\ signers' = Append(signers, [key |-> pk, msg |-> m])
  /\ verdict' = NoVerdict
  /\ UNCHANGED <<signatures, lengthFix>>

\* signature_from_bytes checks nothing; a program may verify the share.
Gather(i, sig, checked) ==
  /\ \A j \in DOMAIN signatures : signatures[j].of # i
  /\ checked => verify_signature_share(sig, signers[i].key, signers[i].msg)
  /\ signatures' = Append(signatures, [of |-> i, sig |-> sig])
  /\ verdict' = NoVerdict
  /\ UNCHANGED <<signers, lengthFix>>

Keys == [i \in DOMAIN signers |-> signers[i].key]
Messages == [i \in DOMAIN signers |-> signers[i].msg]
Gathered == Aggregate([i \in DOMAIN signatures |-> signatures[i].sig])

Says(v) == verdict' = v /\ UNCHANGED <<signers, signatures, lengthFix>>

\* aggregate_signatures, aggregate_pubkeys and verify_multisignature.
CheckMultisignature(m) ==
  /\ signers # <<>>
  /\ \A i \in DOMAIN signers : signers[i].msg = m
  /\ LET apk == Aggregate(Keys)
     IN  Says([of |-> "multisignature",
               ok |-> Gathered.ok /\ verify_multisignature(Gathered.bytes, apk.bytes, m)])

\* aggregate_signatures and verify_aggregate_signature.
CheckAggregate(ms) ==
  /\ signers # <<>>
  /\ Says([of |-> "aggregate", all |-> Len(ms) = Len(signers),
           ok |-> Gathered.ok /\ verify_aggregate_signature(Gathered.bytes, Keys, ms)])

\* The natives that take all they need as arguments: one call of them is enough.
Fresh == signers = <<>> /\ verdict = NoVerdict

CheckNormal(pk, sig, m) ==
  /\ Fresh
  /\ Says([of |-> "normal", key |-> pk, sig |-> sig, msg |-> m,
           valid |-> validate_pubkey(pk), subgroup |-> signature_subgroup_check(sig),
           ok |-> verify_normal_signature(sig, pk, m)])

MultiKey ==
  [subs : SeqOf(SubKey, MAX_NUM_OF_KEYS + 1), tail : SeqOf(0 .. MAX_NUM_OF_KEYS, 2)]

\* native_sign signs with the first keys, as many as the threshold asks for.
CheckMultiEd25519(key) ==
  /\ Fresh
  /\ LET by == 1 .. Last(key.tail)
     IN  Says([of |-> "multi_ed25519",
               v1 |-> multi_public_key_validate(key),
               v2 |-> multi_public_key_validate_v2(key),
               ok |-> multi_signature_verify_strict([bitmap |-> by, by |-> by], key)])

CheckEd25519(key) ==
  /\ Fresh
  /\ Says([of |-> "ed25519", valid |-> ed25519_public_key_validate(key),
           ok |-> ed25519_signature_verify_strict("sound", key)])

CheckRecovery(sig, recovery_id, exists) ==
  /\ Fresh
  /\ Says([of |-> "ecdsa", sig |-> sig, id |-> recovery_id,
           result |-> ecdsa_recover(sig, recovery_id, exists)])

SignaturesNext ==
  \/ \E pk, pop \in Encoding, m \in Message : Admit(pk, pop, m)
  \/ \E i \in DOMAIN signers, sig \in Encoding, checked \in BOOLEAN : Gather(i, sig, checked)
  \/ \E m \in Message : CheckMultisignature(m)
  \/ \E n \in 0 .. Len(signers) : CheckAggregate(SubSeq(Messages, 1, n))
  \/ \E pk, sig \in Encoding, m \in Message : CheckNormal(pk, sig, m)
  \/ \E key \in {k \in MultiKey : k.tail # <<>>} : CheckMultiEd25519(key)
  \/ \E key \in SubKey \cup {"wrong length"} : CheckEd25519(key)
  \/ \E sig \in {Undecodable} \cup [by : {"k"}, recovery_id : RecoveryIds],
        id \in 0 .. 4, exists \in BOOLEAN : CheckRecovery(sig, id, exists)

SignaturesSpec == SignaturesInit /\ [][SignaturesNext]_signatureVars

----------------------------------------------------------------------------
\* The signers whose own signature was gathered.
Signed ==
  {i \in DOMAIN signers :
     \E j \in DOMAIN signatures :
       /\ signatures[j].of = i
       /\ signatures[j].sig = SignatureOf(signers[i].key.x, signers[i].msg)}

\* In whatever order the signatures came: when every signer's own signature was
\* gathered the multisignature and the aggregate signature verify (unless the
\* keys, or the signatures, cancel out), and when exactly one is missing or wrong
\* neither verifies.
AggregatesAreTrue ==
  verdict.of \in {"multisignature", "aggregate"} =>
    LET complete == Signed = DOMAIN signers /\ Summed(Keys).x # 0
        matched  == verdict.of = "aggregate" => verdict.all
    IN  /\ complete /\ matched => verdict.ok
        /\ Cardinality(DOMAIN signers \ Signed) = 1 \/ ~matched => ~verdict.ok

\* What a key was validated for holds when it is used: exactly the valid keys verify
\* their signatures, and a MultiEd25519 key that version 2 accepts is accepted by
\* version 1 too and verifies what its first signers sign.
ValidationSuffices ==
  /\ verdict.of = "normal" =>
       /\ verdict.ok => verdict.valid /\ verdict.subgroup
       /\ verdict.valid => (verdict.ok <=>
                              verdict.sig = SignatureOf(verdict.key.x, verdict.msg))
  /\ verdict.of = "ed25519" => (verdict.ok <=> verdict.valid = "true")
  /\ verdict.of = "multi_ed25519" => (verdict.v2 => verdict.v1 /\ verdict.ok)
  /\ verdict.of = "ecdsa" /\ verdict.sig # Undecodable =>
       (verdict.result = [key |-> verdict.sig.by, ok |-> TRUE] <=>
          verdict.id = verdict.sig.recovery_id)

VerdictsAreTrue == AggregatesAreTrue /\ ValidationSuffices
=============================================================================
