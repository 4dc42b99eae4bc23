------------------------------ MODULE Algebra ------------------------------
(***************************************************************************)
(* The natives of crypto_algebra.move: natives/cryptography/algebra.       *)
(*                                                                         *)
(* A session keeps the elements a Move program computed in a list,         *)
(* AlgebraContext, and hands out positions in it as handles.  Move wraps a *)
(* handle in Element<S>, and nothing but the type S says which structure   *)
(* the element belongs to: the list knows the Rust type only, and Gt, a    *)
(* subgroup of the units of Fq12 written additively, shares Fq12's.        *)
(*                                                                         *)
(* The arithmetic of arkworks is that of a small pairing-friendly setting: *)
(* Fr, G1 and G2 are the integers modulo R, Fq12 is the field of Q         *)
(* elements, Gt is the subgroup of order R of its units, with generator    *)
(* Gen = e(one, one), and Fq is the field of P elements.  Every call       *)
(* charges before it does work that costs anything; a charge may end the   *)
(* session, whatever the amount.                                           *)
(***************************************************************************)
EXTENDS Integers, Sequences, SequencesExt, FiniteSets

CONSTANTS
  R, Q, P, Gen,
  SizeOf,       \* size_of_val, by kind of element
  MemoryLimit,  \* MEMORY_LIMIT_IN_BYTES
  Radix,        \* the number of values of a byte
  Structure,    \* bound: the structures a program uses
  MaxU64,       \* bound: the largest number given to from_u64
  MaxArity      \* bound: the elements given to a multi operation

Curve == {"BLS12381", "BN254"}
Kind == {"Fr", "Fq", "Fq12", "G1", "G2", "Gt"}
AllStructures == {s \in Curve \X Kind : s # <<"BLS12381", "Fq">>}
Field == {s \in Structure : s[2] \in {"Fr", "Fq", "Fq12"}}
Group == Structure \ Field

CurveFlag(c) ==
  IF c = "BLS12381" THEN "BLS12_381_STRUCTURES" ELSE "BN254_STRUCTURES"
Flag == {"CRYPTOGRAPHY_ALGEBRA_NATIVES"} \cup {CurveFlag(c) : c \in Curve}

ASSUME AlgebraAssumption ==
  /\ Structure \subseteq AllStructures
  /\ R \in Nat /\ P \in Nat /\ Q \in Nat
  /\ SizeOf \in [Kind -> Nat] /\ MemoryLimit \in Nat /\ Radix \in Nat \ {0}
\* Fr, Fq and Fq12 are fields, and the pairing of the generators is a unit.
ASSUME FieldAssumption ==
  /\ \A m \in {R, P, Q} :
       m > 1 /\ \A x \in 1 .. m - 1 : \E y \in 1 .. m - 1 : (x * y) % m = 1
  /\ Gen \in 1 .. Q - 1

VARIABLES
  flags,       \* the feature flags of the session
  objs,        \* AlgebraContext.objs: Rust type and value
  bytes_used,  \* AlgebraContext.bytes_used
  held,        \* the elements Move got, and what each stands for
  truthful,    \* whether what the last call returned, or did, is the truth
  status       \* "running", or how the session ended

algebraVars == <<flags, objs, bytes_used, held, truthful, status>>


-----------------------------------------------------------------------------
(* The arithmetic of arkworks.  Fq12 is written with its own operations,   *)
(* and a group element of Gt is an element of Fq12.                        *)

Modulus(s) == CASE s[2] \in {"Fq12", "Gt"} -> Q
                [] s[2] = "Fq" -> P
                [] OTHER -> R

IsGt(s) == s[2] = "Gt"

Pow(x, n) == LET f[i \in 0 .. n] == IF i = 0 THEN 1 ELSE (x * f[i - 1]) % Q
             IN  f[n]

\* Gt is the subgroup of the units of order R, and Gen generates it.
ASSUME SubgroupAssumption ==
  /\ \A v \in 1 .. Q - 1 :
       Pow(v, R) = 1 <=> v \in {Pow(Gen, i) : i \in 0 .. R - 1}
  /\ \A i, j \in 0 .. R - 1 : Pow(Gen, i) = Pow(Gen, j) => i = j

NoInverse == -1
ModInverse(m, x) == IF x = 0 THEN NoInverse
                 ELSE CHOOSE y \in 0 .. m - 1 : (x * y) % m = 1

\* Mutant: elements of Gt are added like those of Fq12.
Plus_OfFq12(s, x, y) == (x + y) % Modulus(s)

Plus(s, x, y) == IF IsGt(s) THEN (x * y) % Q ELSE (x + y) % Modulus(s)
Neg(s, x) == IF IsGt(s) THEN ModInverse(Q, x) ELSE (Modulus(s) - x) % Modulus(s)
Zero(s) == IF IsGt(s) THEN 1 ELSE 0
One(s) == IF IsGt(s) THEN Gen ELSE 1 % Modulus(s)
Times(s, x, y) == (x * y) % Modulus(s)
ScalarTimes(s, k, x) == IF IsGt(s) THEN Pow(x, k) ELSE (k * x) % R
Pair(x, y) == Pow(Gen, (x * y) % R)

\* The values an element of s may have, and the exponent a value of Gt has.
Carrier(s) == IF IsGt(s) THEN {Pow(Gen, i) : i \in 0 .. R - 1}
              ELSE 0 .. Modulus(s) - 1
Represents(s, m) == IF IsGt(s) THEN Pow(Gen, m) ELSE m
Meaning(s, v) == IF IsGt(s) /\ v \in Carrier(s)
                 THEN CHOOSE m \in 0 .. R - 1 : Pow(Gen, m) = v ELSE v
Order(s) == IF s \in Field THEN Modulus(s) ELSE R

-----------------------------------------------------------------------------
(* Bytes.  A number is two digits, least significant first, the twelve     *)
(* coefficients of Fq12 taken as one number; a point is its x coordinate,  *)
(* followed by y = -x when it is not compressed.                           *)

Forms(s) == CASE s[2] \in {"Fr", "Fq"} -> {"Lsb", "Msb"}
              [] s[2] = "Fq12" -> {"LscLsb"}
              [] s[2] = "Gt" -> {"Gt"}
              [] OTHER -> {"Compr", "Uncompr"}
Format == UNION {{s} \X Forms(s) : s \in Structure}

Bytes == UNION {[1 .. n -> 0 .. Radix - 1] : n \in 1 .. 2}
FormatLength(f) == IF f[2] = "Compr" THEN 1 ELSE 2
Number(b) == b[1] + Radix * b[2]

Write(f, v) == CASE f[2] = "Compr" -> <<v>>
                 [] f[2] = "Uncompr" -> <<v, (R - v) % R>>
                 [] f[2] = "Msb" -> <<v \div Radix, v % Radix>>
                 [] OTHER -> <<v % Radix, v \div Radix>>

\* What arkworks reads, "InvalidData" when it is not an element of the type.
Read(f, b) ==
  CASE f[2] = "Compr" -> b[1] < R
    [] f[2] = "Uncompr" -> b[1] < R /\ b[2] = (R - b[1]) % R
    [] OTHER -> Number(IF f[2] = "Msb" THEN Reverse(b) ELSE b) < Modulus(f[1])
ValueOf(f, b) ==
  IF f[2] \in {"Compr", "Uncompr"} THEN b[1]
  ELSE Number(IF f[2] = "Msb" THEN Reverse(b) ELSE b)

\* deserialize_internal: a string of the wrong length is refused before
\* arkworks sees it; an element of Gt must have an order that divides R.
Parse(f, b) ==
  IF Len(b) = FormatLength(f) /\ Read(f, b)
     /\ (IsGt(f[1]) => Pow(ValueOf(f, b), R) = 1)
  THEN [ok |-> TRUE, val |-> ValueOf(f, b)] ELSE [ok |-> FALSE, val |-> 0]

-----------------------------------------------------------------------------
(* The context.  Handles count from 0, as in the code.                     *)

RustKind(k) == IF k = "Gt" THEN "Fq12" ELSE k
RustType(s) == <<s[1], RustKind(s[2])>>

\* Handles(s) are the elements of type Element<s> that Move may pass.
Handles(s) == {e \in held : e.s = s}
Val(e) == objs[e.handle + 1].val

\* safe_borrow_element: a handle nobody stored, or an object of another type,
\* is an invariant violation.
Borrowable(e) == /\ e.handle + 1 \in DOMAIN objs
                 /\ objs[e.handle + 1].type = RustType(e.s)

\* The context goes with the session.
Ends(how) ==
  /\ status' = how
  /\ objs' = <<>> /\ bytes_used' = 0 /\ held' = {} /\ truthful' = TRUE
  /\ UNCHANGED flags

Returns(told, truth) ==
  /\ truthful' = (told = truth)
  /\ UNCHANGED <<flags, objs, bytes_used, held, status>>

\* Mutant: the limit is on what was used before the element.
StoreElement_LateLimit(s, v, m, told, truth) ==
  IF bytes_used > MemoryLimit
  THEN Ends("E_TOO_MUCH_MEMORY_USED")
  ELSE /\ bytes_used' = bytes_used + SizeOf[RustKind(s[2])]
       /\ objs' = Append(objs, [type |-> RustType(s), val |-> v])
       /\ held' = held \cup {[s |-> s, handle |-> Len(objs), means |-> m]}
       /\ truthful' = (told = truth)
       /\ UNCHANGED <<flags, status>>

\* store_element: the new element stands for m.
StoreElement(s, v, m, told, truth) ==
  IF bytes_used + SizeOf[RustKind(s[2])] > MemoryLimit
  THEN Ends("E_TOO_MUCH_MEMORY_USED")
  ELSE /\ bytes_used' = bytes_used + SizeOf[RustKind(s[2])]
       /\ objs' = Append(objs, [type |-> RustType(s), val |-> v])
       /\ held' = held \cup {[s |-> s, handle |-> Len(objs), means |-> m]}
       /\ truthful' = (told = truth)
       /\ UNCHANGED <<flags, status>>

Store(s, v, m) == StoreElement(s, v, m, TRUE, TRUE)

\* Every wrapper but that of multi_scalar_mul asks for this flag first.
NativesOn == "CRYPTOGRAPHY_ALGEBRA_NATIVES" \in flags
CurveOn(s) == CurveFlag(s[1]) \in flags

\* A native that supports its type arguments or aborts, borrows its elements,
\* charges, and goes on.
Borrowing(elements, then) ==
  \/ /\ \E e \in elements : ~Borrowable(e)
     /\ Ends("UNKNOWN_INVARIANT_VIOLATION_ERROR")
  \/ /\ \A e \in elements : Borrowable(e)
     /\ then \/ Ends("OUT_OF_GAS")

Call(supported, elements, then) ==
  /\ status = "running"
  /\ \/ ~supported /\ Ends("MOVE_ABORT_CODE_NOT_IMPLEMENTED")
     \/ supported /\ Borrowing(elements, then)

SizesNotMatching == "MOVE_ABORT_CODE_INPUT_VECTOR_SIZES_NOT_MATCHING"

-----------------------------------------------------------------------------
(* The natives.                                                            *)

zero_internal ==
  \E s \in Structure : Call(NativesOn /\ CurveOn(s), {}, Store(s, Zero(s), 0))

one_internal ==
  \E s \in Structure : Call(NativesOn /\ CurveOn(s), {}, Store(s, One(s), 1 % Order(s)))

\* Whether the answer is the number of elements there are.
order_internal ==
  \E s \in Structure :
    Call(NativesOn /\ CurveOn(s), {},
         Returns(Order(s) = Cardinality(Carrier(s)), TRUE))

from_u64_internal ==
  \E s \in Structure :
    Call(NativesOn /\ CurveOn(s) /\ s \in Field, {},
         \E n \in 0 .. MaxU64 : Store(s, n % Modulus(s), n % Modulus(s)))

add_internal ==
  \E s \in Structure : \E x, y \in Handles(s) :
    Call(NativesOn /\ CurveOn(s), {x, y},
         Store(s, Plus(s, Val(x), Val(y)), (x.means + y.means) % Order(s)))

\* In Gt a subtraction divides in Fq12, which panics if there is no inverse.
sub_internal ==
  \E s \in Structure : \E x, y \in Handles(s) :
    Call(NativesOn /\ CurveOn(s), {x, y},
         IF Neg(s, Val(y)) = NoInverse THEN Ends("panic")
         ELSE Store(s, Plus(s, Val(x), Neg(s, Val(y))),
                    (x.means - y.means + Order(s)) % Order(s)))

neg_internal ==
  \E s \in Structure : \E x \in Handles(s) :
    Call(NativesOn /\ CurveOn(s), {x},
         IF Neg(s, Val(x)) = NoInverse
         THEN Ends("UNKNOWN_INVARIANT_VIOLATION_ERROR")
         ELSE Store(s, Neg(s, Val(x)), (Order(s) - x.means) % Order(s)))

double_internal ==
  \E s \in Structure : \E x \in Handles(s) :
    Call(NativesOn /\ CurveOn(s) /\ s \in Group, {x},
         Store(s, Plus(s, Val(x), Val(x)), (2 * x.means) % Order(s)))

mul_internal ==
  \E s \in Structure : \E x, y \in Handles(s) :
    Call(NativesOn /\ CurveOn(s) /\ s \in Field, {x, y},
         Store(s, Times(s, Val(x), Val(y)), (x.means * y.means) % Order(s)))

sqr_internal ==
  \E s \in Structure : \E x \in Handles(s) :
    Call(NativesOn /\ CurveOn(s) /\ s \in Field, {x},
         Store(s, Times(s, Val(x), Val(x)), (x.means * x.means) % Order(s)))

div_internal ==
  \E s \in Structure : \E x, y \in Handles(s) :
    Call(NativesOn /\ CurveOn(s) /\ s \in Field, {x, y},
         IF Val(y) = 0 THEN Returns(FALSE, y.means # 0)
         ELSE StoreElement(s, Times(s, Val(x), ModInverse(Modulus(s), Val(y))),
                           CHOOSE m \in 0 .. Order(s) - 1 :
                             (m * y.means) % Order(s) = x.means,
                           TRUE, y.means # 0))

inv_internal ==
  \E s \in Structure : \E x \in Handles(s) :
    Call(NativesOn /\ CurveOn(s) /\ s \in Field, {x},
         IF Val(x) = 0 THEN Returns(FALSE, x.means # 0)
         ELSE StoreElement(s, ModInverse(Modulus(s), Val(x)),
                           CHOOSE m \in 0 .. Order(s) - 1 :
                             (m * x.means) % Order(s) = 1 % Order(s),
                           TRUE, x.means # 0))

eq_internal ==
  \E s \in Structure : \E x, y \in Handles(s) :
    Call(NativesOn /\ CurveOn(s), {x, y},
         Returns(Val(x) = Val(y), x.means = y.means))

\* The scalars of a group are those of its own curve.
ScalarField(g) == <<g[1], "Fr">>
OwnScalars(g, f) == g \in Group /\ f = ScalarField(g) /\ CurveOn(g)

scalar_mul_internal ==
  \E g, f \in Structure : \E x \in Handles(g), k \in Handles(f) :
    Call(NativesOn /\ OwnScalars(g, f), {x, k},
         Store(g, ScalarTimes(g, Val(k), Val(x)), (k.means * x.means) % R))

\* Up to MaxArity of the elements of a type that Move holds.
Lists(s) == UNION {[1 .. n -> Handles(s)] : n \in 0 .. MaxArity}
SumUpTo(n, f) == LET sum[i \in 0 .. n] == IF i = 0 THEN 0 ELSE sum[i - 1] + f[i]
                 IN  sum[n]

\* Gt has no multi_scalar_mul; the sizes are compared before anything is
\* borrowed.
multi_scalar_mul_internal ==
  \E g, f \in Structure :
    Call(OwnScalars(g, f) /\ ~IsGt(g), {}, \E xs \in Lists(g), ks \in Lists(f) :
      IF Len(xs) # Len(ks) THEN Ends(SizesNotMatching)
      ELSE Borrowing(ToSet(xs) \cup ToSet(ks),
             Store(g, SumUpTo(Len(xs), [i \in DOMAIN xs |-> Val(ks[i]) * Val(xs[i])]) % R,
                   SumUpTo(Len(xs), [i \in DOMAIN xs |-> ks[i].means * xs[i].means]) % R)))

PairingGroups(g1, g2, gt) ==
  \E c \in Curve : /\ <<g1, g2, gt>> = <<<<c, "G1">>, <<c, "G2">>, <<c, "Gt">>>>
                   /\ CurveFlag(c) \in flags

\* Other kinds than these abort as these do when they do not fit.
OfKind(kinds) == {s \in Structure : s[2] \in kinds}

pairing_internal ==
  \E g1, g2 \in OfKind({"G1", "G2"}), gt \in OfKind({"Gt", "Fq12"}) :
   \E x \in Handles(g1), y \in Handles(g2) :
    Call(NativesOn /\ PairingGroups(g1, g2, gt), {x, y},
         Store(gt, Pair(Val(x), Val(y)), (x.means * y.means) % R))

\* The product of the pairings, one final exponentiation for all of them.
multi_pairing_internal ==
  \E g1, g2 \in OfKind({"G1", "G2"}), gt \in OfKind({"Gt", "Fq12"}) :
    Call(NativesOn /\ PairingGroups(g1, g2, gt), {}, \E xs \in Lists(g1), ys \in Lists(g2) :
      IF Len(xs) # Len(ys) THEN Ends(SizesNotMatching)
      ELSE Borrowing(ToSet(xs) \cup ToSet(ys),
             Store(gt, Pow(Gen, SumUpTo(Len(xs),
                                  [i \in DOMAIN xs |-> Val(xs[i]) * Val(ys[i])]) % R),
                   SumUpTo(Len(xs), [i \in DOMAIN xs |-> xs[i].means * ys[i].means]) % R)))

\* Some point: a hash is any of them.
hash_to_internal ==
  \E s, suite \in Structure :
    Call(/\ NativesOn /\ CurveOn(s)
         /\ s = suite /\ s \in {<<"BLS12381", "G1">>, <<"BLS12381", "G2">>},
         {}, \E v \in 0 .. R - 1 : Store(s, v, v))

\* The format decides which flag is asked for.  The answer is whether
\* deserialize_internal reads the element back from the bytes.
serialize_internal ==
  \E s \in Structure, f \in Format : \E x \in Handles(s) :
    Call(NativesOn /\ CurveOn(f[1]) /\ f[1] = s, {x},
         Returns(Parse(f, Write(f, Val(x))) = [ok |-> TRUE, val |-> Represents(s, x.means)],
                 TRUE))

deserialize_internal ==
  \E s \in Structure, f \in Format :
    Call(NativesOn /\ CurveOn(f[1]) /\ f[1] = s, {}, \E b \in Bytes :
         LET read == Parse(f, b)
             truth == b \in {Write(f, v) : v \in Carrier(s)}
         IN  IF read.ok
             THEN StoreElement(s, read.val, Meaning(s, read.val), TRUE, truth)
             ELSE Returns(FALSE, truth))

\* A handle is cast as it is; nothing is stored.
Casts(super, sub) == /\ super[1] = sub[1] /\ super[2] = "Fq12" /\ IsGt(sub)
                     /\ CurveOn(super)

Recast(x, s) ==
  held' = held \cup {[s |-> s, handle |-> x.handle, means |-> Meaning(s, Val(x))]}

upcast_internal ==
  \E super, sub \in Structure : \E x \in Handles(sub) :
    Call(NativesOn /\ Casts(super, sub), {},
         /\ Recast(x, super)
         /\ truthful' = TRUE
         /\ UNCHANGED <<flags, objs, bytes_used, status>>)

\* Fq12 has units of other orders than the divisors of R.
InSubgroup(v) == Pow(v, R) = 1

downcast_internal ==
  \E super, sub \in Structure : \E x \in Handles(super) :
    Call(NativesOn /\ Casts(super, sub), {x},
         /\ truthful' = (InSubgroup(Val(x)) <=> Val(x) \in Carrier(sub))
         /\ IF InSubgroup(Val(x)) THEN Recast(x, sub) ELSE UNCHANGED held
         /\ UNCHANGED <<flags, objs, bytes_used, status>>)

\* An Element has neither key nor store: none outlives its transaction.
NewSession ==
  /\ flags' \in SUBSET Flag
  /\ objs' = <<>> /\ bytes_used' = 0 /\ held' = {}
  /\ truthful' = TRUE /\ status' = "running"

-----------------------------------------------------------------------------
AlgebraInit ==
  /\ flags \in SUBSET Flag
  /\ objs = <<>> /\ bytes_used = 0 /\ held = {}
  /\ truthful = TRUE /\ status = "running"

AlgebraNext ==
  \/ zero_internal \/ one_internal \/ order_internal \/ from_u64_internal
  \/ add_internal \/ sub_internal \/ neg_internal \/ double_internal
  \/ mul_internal \/ sqr_internal \/ div_internal \/ inv_internal
  \/ eq_internal \/ scalar_mul_internal \/ multi_scalar_mul_internal
  \/ pairing_internal \/ multi_pairing_internal \/ hash_to_internal
  \/ serialize_internal \/ deserialize_internal
  \/ upcast_internal \/ downcast_internal \/ NewSession

AlgebraSpec == AlgebraInit /\ [][AlgebraNext]_algebraVars

-----------------------------------------------------------------------------
\* What the context takes in memory.
Footprint == SumUpTo(Len(objs), [i \in DOMAIN objs |-> SizeOf[objs[i].type[2]]])

\* Types, and: whatever natives a Move program calls in whatever order, every
\* element it got is one it can use (its handle leads to an object of the Rust
\* type its structure has, so safe_borrow_element never fails), and the context
\* has counted the memory of all its objects, within the limit.  No call makes a
\* native panic or report a violated invariant: the divisions and the inverses in
\* Gt, which take an inverse in Fq12 for granted, always find one.
HandlesAreSound ==
  /\ flags \subseteq Flag
  /\ \A e \in held : e.s \in Structure /\ e.handle \in Nat /\ Borrowable(e)
  /\ bytes_used = Footprint
  /\ bytes_used <= MemoryLimit
  /\ status \notin {"panic", "UNKNOWN_INVARIANT_VIOLATION_ERROR"}

\* An element stands for what the operations of its structure make it.  In Gt,
\* whose group is written with +, the value stored is the generator to the power
\* it stands for: the group operations are those of Fq12's units, the pairing is
\* bilinear, scalar_mul and multi_scalar_mul agree with repeated addition.
ElementsDenote == \A e \in held : Val(e) = Represents(e.s, e.means)

\* And what a call answered is true: eq compares what the elements stand for, div and
\* inv fail on zero only, downcast and deserialize accept exactly the elements of
\* the structure, order counts them, and deserialize reads back what serialize
\* wrote, in every format.
ComputesTruly == ElementsDenote /\ truthful
=============================================================================
