----------------------------- MODULE Ristretto -----------------------------
(***************************************************************************)
(* The natives of ristretto255.move and ristretto255_bulletproofs.move:    *)
(* natives/cryptography/ristretto255*.rs and bulletproofs.rs.              *)
(*                                                                         *)
(* A session keeps its points in a list, PointStore.  Move's RistrettoPoint*)
(* is a handle into it, with neither copy nor store, and the operations    *)
(* that end in _assign change the point of the handle where it is.  A      *)
(* Scalar and a CompressedRistretto are bytes, which Move copies and keeps *)
(* in storage.                                                             *)
(*                                                                         *)
(* The group is that of the integers modulo N, with basepoint 1.  A string *)
(* of 32 bytes is a number below 2 * HighBit; the one string of another    *)
(* length is WrongLength.  The scalar k is the string k, the point p the   *)
(* string 2 * p.                                                           *)
(***************************************************************************)
EXTENDS Integers, Sequences, FiniteSets, Totals

CONSTANTS
  N,               \* the order of the group
  HighBit,         \* 2^255
  Local,           \* bound: the points a Move program holds at a time
  NoPoint,
  NumPointsLimit,  \* NUM_POINTS_LIMIT
  MaxKept,         \* bound: the scalars and compressed points that a program has
  HashBase         \* HASH_BASE_POINT

Point == 0 .. N - 1
WrongLength == 2 * HighBit
Bytes32 == 0 .. WrongLength

ASSUME RistrettoAssumption ==
  /\ N \in Nat \ {0, 1} /\ HighBit \in Nat /\ HighBit >= 2 * N
  /\ IsFiniteSet(Local)
  /\ NumPointsLimit \in Nat /\ HashBase \in Point /\ NoPoint \notin Nat

VARIABLES
  bulletproofs,  \* the feature flag BULLETPROOFS_NATIVES
  points,        \* PointStore.points
  locals,        \* the RistrettoPoint of a local of the Move program
  value,         \* what Move computed for it, had points been values
  scalars,       \* the data of the Scalars that the program has
  compressed,    \* the data of its CompressedRistrettos
  reply,         \* what point_equals or a decompression told, and the truth
  state          \* "running", or how the session ended

ristrettoVars == <<bulletproofs, points, locals, value, scalars, compressed, reply, state>>

NoReply == [told |-> TRUE, truth |-> TRUE]

-----------------------------------------------------------------------------
(* Bytes.                                                                  *)

Encode(p) == 2 * p
Decode(b) == b \div 2

\* decompress_maybe_non_canonical_point_bytes
Decompresses(b) == b \in {Encode(p) : p \in Point}

\* Scalar::from_canonical_bytes, which refuses what from_bits would truncate.
IsCanonicalScalar(b) == b < N

\* scalar_from_valid_bytes fails unless the string is that of a scalar, its
\* high bit cleared.
ValidScalar(b) == b # WrongLength /\ b % HighBit < N
Scalar(b) == b % HighBit

Held == {x \in Local : locals[x] # NoPoint}

\* PointStore::get_point unwraps: handles count from 0.
Has(h) == h + 1 \in DOMAIN points
Get(x) == points[locals[x] + 1]

-----------------------------------------------------------------------------
(* How a native ends.  Every native charges, and may run out of gas.       *)

\* The store and the points go with the session; scalars and compressed points
\* may be in storage.
Stops(how) ==
  /\ state' = how
  /\ points' = <<>>
  /\ locals' = [x \in Local |-> NoPoint] /\ value' = [x \in Local |-> NoPoint]
  /\ reply' = NoReply
  /\ UNCHANGED <<bulletproofs, scalars, compressed>>

\* A native that reads the points of the locals xs and the scalars ks.
Native(xs, ks, then) ==
  /\ state = "running"
  /\ \/ Stops("OUT_OF_GAS")
     \/ (\E x \in xs : ~Has(locals[x])) /\ Stops("panic")
     \/ (\E k \in ks : ~ValidScalar(k)) /\ Stops("INVARIANT_VIOLATION")
     \/ /\ \A x \in xs : Has(locals[x])
        /\ \A k \in ks : ValidScalar(k)
        /\ then

\* safe_add_point, and the local that receives the new point, worth v.
AddPoint(x, p, v) ==
  IF Len(points) >= NumPointsLimit
  THEN Stops("E_TOO_MANY_POINTS_CREATED")
  ELSE /\ points' = Append(points, p)
       /\ locals' = [locals EXCEPT ![x] = Len(points)]
       /\ value' = [value EXCEPT ![x] = v]
       /\ reply' = NoReply
       /\ UNCHANGED <<bulletproofs, scalars, compressed, state>>

\* In place: the point of x is changed where it is.
SetPoint(x, p, v) ==
  /\ points' = [points EXCEPT ![locals[x] + 1] = p]
  /\ value' = [value EXCEPT ![x] = v]
  /\ reply' = NoReply
  /\ UNCHANGED <<bulletproofs, locals, scalars, compressed, state>>

Replies(told, truth) ==
  /\ reply' = [told |-> told, truth |-> truth]
  /\ UNCHANGED <<bulletproofs, points, locals, value, scalars, compressed, state>>

NewScalar(b) ==
  /\ Cardinality(scalars \cup {b}) + Cardinality(compressed) <= MaxKept
  /\ scalars' = scalars \cup {b} /\ reply' = NoReply
  /\ UNCHANGED <<bulletproofs, points, locals, value, compressed, state>>

NewCompressed(b) ==
  /\ Cardinality(scalars) + Cardinality(compressed \cup {b}) <= MaxKept
  /\ compressed' = compressed \cup {b} /\ reply' = NoReply
  /\ UNCHANGED <<bulletproofs, points, locals, value, scalars, state>>

-----------------------------------------------------------------------------
(* Points.                                                                 *)

native_point_identity ==
  \E x \in Local : Native({}, {}, AddPoint(x, 0, 0))

\* basepoint() and hash_to_point_base() decompress a constant.
native_basepoint ==
  \E x \in Local, p \in {1, HashBase} : Native({}, {}, AddPoint(x, p, p))

\* new_compressed_point_from_bytes: bytes that are no point make none.
native_point_is_canonical ==
  \E b \in Bytes32 :
    Native({}, {}, IF Decompresses(b) THEN NewCompressed(b)
                   ELSE Replies(FALSE, \E p \in Point : Encode(p) = b))

\* point_identity_compressed and basepoint_compressed are constants.
compressed_constants ==
  \E p \in {0, 1} : state = "running" /\ NewCompressed(Encode(p))

\* new_point_from_bytes
native_point_decompress ==
  \E x \in Local, b \in Bytes32 :
    Native({}, {}, IF Decompresses(b) THEN AddPoint(x, Decode(b), Decode(b))
                   ELSE Replies(FALSE, \E p \in Point : Encode(p) = b))

\* point_decompress drops the Boolean: the handle of a string that is no point
\* is u64::MAX, here the limit, which no point ever has.
point_decompress ==
  \E x \in Local, b \in compressed :
    Native({}, {},
           IF Decompresses(b) THEN AddPoint(x, Decode(b), Decode(b))
           ELSE /\ locals' = [locals EXCEPT ![x] = NumPointsLimit]
                /\ value' = [value EXCEPT ![x] = Decode(b) % N]
                /\ reply' = NoReply
                /\ UNCHANGED <<bulletproofs, points, scalars, compressed, state>>)

native_point_clone ==
  \E x \in Local, y \in Held :
    bulletproofs /\ Native({y}, {}, AddPoint(x, Get(y), value[y]))

\* The functions that the feature BULLETPROOFS_NATIVES opens.
E_NATIVE_FUN_NOT_AVAILABLE ==
  ~bulletproofs /\ state = "running" /\ Stops("E_NATIVE_FUN_NOT_AVAILABLE")

native_point_compress ==
  \E y \in Held : Native({y}, {}, NewCompressed(Encode(Get(y))))

native_point_equals ==
  \E y, z \in Held : Native({y, z}, {}, Replies(Get(y) = Get(z), value[y] = value[z]))

native_point_mul ==
  \E y \in Held, k \in scalars :
    \/ \E x \in Local :
         Native({y}, {k}, AddPoint(x, (Scalar(k) * Get(y)) % N, (k * value[y]) % N))
    \/ Native({y}, {k}, SetPoint(y, (Scalar(k) * Get(y)) % N, (k * value[y]) % N))

native_point_neg ==
  \E y \in Held :
    \/ \E x \in Local : Native({y}, {}, AddPoint(x, (N - Get(y)) % N, (N - value[y]) % N))
    \/ Native({y}, {}, SetPoint(y, (N - Get(y)) % N, (N - value[y]) % N))

\* Mutant: the two are ordered by handle and never swapped back.
InPlace_Unswapped(y, z, p, v) ==
  IF locals[y] = locals[z] THEN Stops("panic")
  ELSE /\ points' = [points EXCEPT
             ![(IF locals[y] < locals[z] THEN locals[y] ELSE locals[z]) + 1] = p]
       /\ value' = [value EXCEPT ![y] = v]
       /\ reply' = NoReply
       /\ UNCHANGED <<bulletproofs, locals, scalars, compressed, state>>

\* get_two_muts panics on equal handles.  Move never lends &mut a and &a.
InPlace(y, z, p, v) ==
  IF locals[y] = locals[z] THEN Stops("panic") ELSE SetPoint(y, p, v)

AddOrSub(y, z, p, v) ==
  \/ \E x \in Local : Native({y, z}, {}, AddPoint(x, p, v))
  \/ y # z /\ Native({y, z}, {}, InPlace(y, z, p, v))

native_point_add ==
  \E y, z \in Held :
    AddOrSub(y, z, (Get(y) + Get(z)) % N, (value[y] + value[z]) % N)

native_point_sub ==
  \E y, z \in Held :
    AddOrSub(y, z, (Get(y) - Get(z) + N) % N, (value[y] - value[z] + N) % N)

native_basepoint_mul ==
  \E x \in Local, k \in scalars : Native({}, {k}, AddPoint(x, Scalar(k) % N, k % N))

native_basepoint_double_mul ==
  \E x \in Local, y \in Held, j, k \in scalars :
    Native({y}, {j, k}, AddPoint(x, (Scalar(j) * Get(y) + Scalar(k)) % N,
                                 (j * value[y] + k) % N))

native_double_scalar_mul ==
  \E x \in Local, y, z \in Held, j, k \in scalars :
    bulletproofs /\ Native({y, z}, {j, k},
                           AddPoint(x, (Scalar(j) * Get(y) + Scalar(k) * Get(z)) % N,
                                    (j * value[y] + k * value[z]) % N))

\* The Move wrapper wants as many points as scalars, one or more; the vector of
\* points is made of some of the points that the program holds.
safe_native_multi_scalar_mul_no_floating_point ==
  \E x \in Local, ys \in SUBSET Held \ {{}} : \E k \in [ys -> scalars] :
    Native(ys, {k[y] : y \in ys},
           AddPoint(x, Total([y \in ys |-> Scalar(k[y]) * Get(y)]) % N,
                    Total([y \in ys |-> k[y] * value[y]]) % N))

\* new_point_from_sha512, native_new_point_from_64_uniform_bytes: any point.
native_new_point ==
  \E x \in Local, p \in Point : Native({}, {}, AddPoint(x, p, p))

\* The proof verifies or not; the store is only read.
native_verify_range_proof ==
  \E y, z \in Held, supported \in BOOLEAN :
    Native({y, z}, {}, IF supported THEN Replies(TRUE, TRUE)
                       ELSE Stops("NFE_RANGE_NOT_SUPPORTED"))

-----------------------------------------------------------------------------
(* Scalars.                                                                *)

\* new_scalar_from_bytes
native_scalar_is_canonical ==
  \E b \in Bytes32 :
    Native({}, {}, IF IsCanonicalScalar(b) THEN NewScalar(b)
                   ELSE Replies(FALSE, b \in Point))

\* scalar_zero, scalar_one, new_scalar_from_u8, and the natives that make a
\* scalar of an integer: all are below the order.
native_scalar_from_integer == \E k \in Point : Native({}, {}, NewScalar(k))

\* new_scalar_reduced_from_32_bytes, new_scalar_uniform_from_64_bytes and the
\* hash reduce what they are given, at most N above the order here.
native_scalar_reduced ==
  \E b \in 0 .. 2 * N : Native({}, {}, NewScalar(b % N))

native_scalar_arithmetic ==
  \E j, k \in scalars :
    Native({}, {j, k}, \E r \in {Scalar(j) + Scalar(k), Scalar(j) * Scalar(k),
                                 Scalar(j) - Scalar(k) + N, N - Scalar(j)} :
                         NewScalar(r % N))

\* The wrapper sorts out zero, by its bytes.
native_scalar_invert ==
  \E k \in scalars \ {0} :
    Native({}, {k}, IF Scalar(k) = 0 THEN NewScalar(0)
                    ELSE \E j \in Point : (j * Scalar(k)) % N = 1 /\ NewScalar(j))

-----------------------------------------------------------------------------
\* A point goes out of scope.
Drop ==
  /\ state = "running"
  /\ \E x \in Held : /\ locals' = [locals EXCEPT ![x] = NoPoint]
                     /\ value' = [value EXCEPT ![x] = NoPoint]
  /\ UNCHANGED <<bulletproofs, points, scalars, compressed, reply, state>>

\* A new transaction finds in storage what the last ones kept there.
NewStore ==
  /\ bulletproofs' \in BOOLEAN
  /\ points' = <<>>
  /\ locals' = [x \in Local |-> NoPoint] /\ value' = [x \in Local |-> NoPoint]
  /\ reply' = NoReply /\ state' = "running"
  /\ scalars' \in SUBSET scalars /\ compressed' \in SUBSET compressed

RistrettoInit ==
  /\ bulletproofs \in BOOLEAN
  /\ points = <<>>
  /\ locals = [x \in Local |-> NoPoint] /\ value = [x \in Local |-> NoPoint]
  /\ scalars = {} /\ compressed = {} /\ reply = NoReply /\ state = "running"

RistrettoNext ==
  \/ native_point_identity \/ native_basepoint \/ native_point_is_canonical
  \/ compressed_constants \/ native_point_decompress \/ point_decompress
  \/ native_point_clone \/ E_NATIVE_FUN_NOT_AVAILABLE \/ native_point_compress
  \/ native_point_equals \/ native_point_mul \/ native_point_neg
  \/ native_point_add \/ native_point_sub \/ native_basepoint_mul
  \/ native_basepoint_double_mul \/ native_double_scalar_mul
  \/ safe_native_multi_scalar_mul_no_floating_point \/ native_new_point
  \/ native_verify_range_proof \/ native_scalar_is_canonical
  \/ native_scalar_from_integer \/ native_scalar_reduced
  \/ native_scalar_arithmetic \/ native_scalar_invert \/ Drop \/ NewStore

RistrettoSpec == RistrettoInit /\ [][RistrettoNext]_ristrettoVars

-----------------------------------------------------------------------------
\* The invariant that the in-place natives rely on ("we never have two different
\* Move RistrettoPoint structs constructed with the same handles",
\* ristretto255_point.rs:395): the points that a Move program holds have
\* different handles, each the handle of a stored point.
HandlesAreUnique ==
  /\ \A x \in Held : locals[x] \in Nat /\ Has(locals[x])
  /\ \A x, y \in Held : x # y => locals[x] # locals[y]
  /\ Len(points) <= NumPointsLimit

\* A RistrettoPoint behaves as a value: changing one in place changes no other,
\* and every operation gives what arithmetic on values gives.  No legal sequence
\* of calls makes a native panic (a handle that leads nowhere, two equal handles
\* borrowed mutably) or find a scalar that is not reduced, not even from scalars
\* and compressed points that earlier transactions stored.
PointsAreValues ==
  /\ \A x \in Held : Get(x) = value[x]
  /\ reply.told = reply.truth
  /\ state \notin {"panic", "INVARIANT_VIOLATION"}
=============================================================================
