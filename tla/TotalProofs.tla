----------------------------- MODULE TotalProofs -----------------------------
(* What Total computes.  Induction is stated with sets, as NatSetInduction. *)
EXTENDS Totals, FiniteSetTheorems, WellFoundedInduction, TLAPS

\* A set of naturals that contains 0 and is closed under successor is Nat.
LEMMA NatSetInduction ==
  ASSUME NEW T \in SUBSET Nat, 0 \in T, \A n \in T : n + 1 \in T
  PROVE  \A n \in Nat : n \in T
<1> DEFINE U == Nat \ T
<1>1. SUFFICES ASSUME U # {} PROVE FALSE
  OBVIOUS
<1>2. PICK m \in U : \A k \in U : ~ (<<k, m>> \in OpToRel(<, Nat))
  <2> HIDE DEF U
  <2>1. U \subseteq Nat
    BY DEF U
  <2> QED
    BY <2>1, <1>1, NatLessThanWellFounded, WFMin
<1>3. \A k \in U : ~ (k < m)
  BY <1>2 DEF OpToRel
<1>4. m # 0 /\ m - 1 \in Nat /\ m - 1 < m /\ m = (m - 1) + 1
  OBVIOUS
<1>5. m - 1 \in T
  BY <1>3, <1>4
<1> QED
  BY <1>4, <1>5

-----------------------------------------------------------------------------

Choice(s) == CHOOSE x \in s : TRUE

\* The equation of Total's recursion, on the members of a family D of sets.
Sums(g, f, D) ==
  \A s \in D : g[s] = IF s = {} THEN 0
                      ELSE f[Choice(s)] + g[s \ {Choice(s)}]

UpTo(S, n) == {s \in SUBSET S : Cardinality(s) <= n}

\* Removing the chosen element makes a finite set smaller.
LEMMA ChoiceRemoved ==
  ASSUME NEW S, IsFiniteSet(S), NEW s \in SUBSET S, s # {}
  PROVE  /\ Choice(s) \in s
         /\ s \ {Choice(s)} \in SUBSET S
         /\ Cardinality(s) \in Nat \ {0}
         /\ Cardinality(s \ {Choice(s)}) = Cardinality(s) - 1
<1>1. Choice(s) \in s
  BY DEF Choice
<1>2. IsFiniteSet(s)
  BY FS_Subset
<1>3. Cardinality(s) \in Nat /\ Cardinality(s) # 0
  BY <1>2, FS_CardinalityType, FS_EmptySet
<1>4. Cardinality(s \ {Choice(s)}) = Cardinality(s) - 1
  BY <1>1, <1>2, FS_RemoveElement
<1> QED
  BY <1>1, <1>3, <1>4

\* The only subset with at most 0 elements is empty.
LEMMA UpToZero ==
  ASSUME NEW S, IsFiniteSet(S)
  PROVE  \A s \in UpTo(S, 0) : s = {}
<1>1. ASSUME NEW s \in UpTo(S, 0), s # {} PROVE FALSE
  <2>1. s \in SUBSET S /\ Cardinality(s) <= 0
    BY DEF UpTo
  <2>2. Cardinality(s) \in Nat \ {0}
    BY <1>1, <2>1, ChoiceRemoved
  <2> QED
    BY <2>1, <2>2
<1> QED
  BY <1>1

\* A family of subsets of S that contains {}, and a set whenever it contains
\* the set without any one of its elements, contains every subset of S.
LEMMA SubsetInduction ==
  ASSUME NEW S, IsFiniteSet(S), NEW F \in SUBSET (SUBSET S), {} \in F,
         \A s \in SUBSET S :
           s # {} /\ (\A x \in s : s \ {x} \in F) => s \in F
  PROVE  \A s \in SUBSET S : s \in F
<1> DEFINE T == {n \in Nat : UpTo(S, n) \subseteq F}
<1>1. 0 \in T
  BY UpToZero, Zenon DEF UpTo
<1>2. ASSUME NEW n \in T PROVE n + 1 \in T
  <2>1. ASSUME NEW s \in UpTo(S, n + 1), s # {} PROVE s \in F
    <3>1. s \in SUBSET S /\ Cardinality(s) <= n + 1
      BY DEF UpTo
    <3>2. ASSUME NEW x \in s PROVE s \ {x} \in F
      <4>1. IsFiniteSet(s)
        BY <3>1, FS_Subset
      <4>2. /\ Cardinality(s \ {x}) = Cardinality(s) - 1
            /\ Cardinality(s) \in Nat
        BY <4>1, FS_RemoveElement, FS_CardinalityType
      <4>3. s \ {x} \in UpTo(S, n)
        BY <3>1, <4>2 DEF UpTo
      <4> QED
        BY <4>3
    <3> QED
      BY <2>1, <3>1, <3>2
  <2>2. \A s \in UpTo(S, n + 1) : s \in F
    BY <2>1, Zenon
  <2> QED
    BY <2>2
<1>3. Cardinality(S) \in T
  <2> HIDE DEF T
  <2>1. T \in SUBSET Nat
    BY DEF T
  <2> QED
    BY <1>1, <1>2, <2>1, NatSetInduction, FS_CardinalityType
<1>4. UpTo(S, Cardinality(S)) = SUBSET S
  BY FS_Subset DEF UpTo
<1> QED
  BY <1>3, <1>4

\* A function on all subsets of a finite set that satisfies the equation
\* exists: it is built up by cardinality.
LEMMA SumsExist ==
  ASSUME NEW S, IsFiniteSet(S), NEW f \in [S -> Int]
  PROVE  \E g \in [SUBSET S -> Int] : Sums(g, f, SUBSET S)
<1> DEFINE T == {n \in Nat : \E g \in [UpTo(S, n) -> Int] :
                               Sums(g, f, UpTo(S, n))}
<1>1. 0 \in T
  <2> DEFINE g == [s \in UpTo(S, 0) |-> 0]
  <2>1. \A s \in UpTo(S, 0) : s = {}
    BY UpToZero
  <2>2. g \in [UpTo(S, 0) -> Int] /\ Sums(g, f, UpTo(S, 0))
    BY <2>1 DEF Sums
  <2> QED
    BY <2>2
<1>2. ASSUME NEW n \in T PROVE n + 1 \in T
  <2>1. n \in Nat
    OBVIOUS
  <2>2. PICK g \in [UpTo(S, n) -> Int] : Sums(g, f, UpTo(S, n))
    OBVIOUS
  <2> DEFINE h == [s \in UpTo(S, n + 1) |->
                     IF s = {} THEN 0 ELSE f[Choice(s)] + g[s \ {Choice(s)}]]
  <2>3. \A s \in UpTo(S, n + 1) \ {{}} :
          /\ Choice(s) \in S
          /\ s \ {Choice(s)} \in UpTo(S, n)
    BY <2>1, ChoiceRemoved DEF UpTo
  <2>4. h \in [UpTo(S, n + 1) -> Int]
    BY <2>3
  <2>5. \A s \in UpTo(S, n) : s \in UpTo(S, n + 1) /\ h[s] = g[s]
    <3>1. UpTo(S, n) \subseteq UpTo(S, n + 1)
      <4>1. ASSUME NEW s \in UpTo(S, n) PROVE s \in UpTo(S, n + 1)
        <5>1. Cardinality(s) \in Nat
          BY FS_Subset, FS_CardinalityType DEF UpTo
        <5> QED
          BY <5>1, <2>1 DEF UpTo
      <4> QED
        BY <4>1
    <3> QED
      BY <3>1, <2>2 DEF Sums
  <2>6. Sums(h, f, UpTo(S, n + 1))
    BY <2>3, <2>5 DEF Sums
  <2> HIDE DEF h
  <2> QED
    BY <2>1, <2>4, <2>6
<1>3. Cardinality(S) \in T
  <2> HIDE DEF T
  <2>1. T \in SUBSET Nat
    BY DEF T
  <2> QED
    BY <1>1, <1>2, <2>1, NatSetInduction, FS_CardinalityType
<1>4. UpTo(S, Cardinality(S)) = SUBSET S
  BY FS_Subset DEF UpTo
<1> QED
  BY <1>3, <1>4

-----------------------------------------------------------------------------

\* The function that Total's LET defines.
Partial(f) ==
  CHOOSE g : g = [s \in SUBSET DOMAIN f |->
                    IF s = {} THEN 0
                    ELSE f[Choice(s)] + g[s \ {Choice(s)}]]

\* Total is that function's value at the whole domain.
LEMMA TotalIsPartial ==
  ASSUME NEW f
  PROVE  Total(f) = Partial(f)[DOMAIN f]
BY DEF Total, MapThenSumSet, MapThenFoldSet, Partial, Choice

\* The sums over subsets of the domain are integers that satisfy the equation.
LEMMA PartialSums ==
  ASSUME NEW S, IsFiniteSet(S), NEW f \in [S -> Int]
  PROVE  /\ Sums(Partial(f), f, SUBSET S)
         /\ Partial(f) \in [SUBSET S -> Int]
<1> DEFINE g == Partial(f)
<1>1. PICK h \in [SUBSET S -> Int] : Sums(h, f, SUBSET S)
  BY SumsExist
<1>2. h = [s \in SUBSET DOMAIN f |->
             IF s = {} THEN 0 ELSE f[Choice(s)] + h[s \ {Choice(s)}]]
  BY <1>1 DEF Sums
<1>3. g = [s \in SUBSET DOMAIN f |->
             IF s = {} THEN 0 ELSE f[Choice(s)] + g[s \ {Choice(s)}]]
  BY <1>2 DEF Partial
<1>4. Sums(g, f, SUBSET S)
  <2> HIDE DEF g
  <2> QED
    BY <1>3 DEF Sums
<1>5. \A s \in SUBSET S : g[s] \in Int
  <2> DEFINE F == {s \in SUBSET S : g[s] \in Int}
  <2> HIDE DEF g
  <2>1. {} \in F
    <3>1. g[{}] = 0
      BY <1>4 DEF Sums
    <3> QED
      BY <3>1
  <2>2. ASSUME NEW s \in SUBSET S, s # {}, \A x \in s : s \ {x} \in F
        PROVE  s \in F
    <3>1. Choice(s) \in s
      BY <2>2 DEF Choice
    <3>2. g[s] = f[Choice(s)] + g[s \ {Choice(s)}]
      BY <2>2, <1>4 DEF Sums
    <3> QED
      BY <2>2, <3>1, <3>2
  <2> QED
    <3> HIDE DEF F
    <3>1. F \in SUBSET (SUBSET S)
      BY DEF F
    <3>2. \A s \in SUBSET S : s \in F
      BY <2>1, <2>2, <3>1, SubsetInduction
    <3> QED
      BY <3>2 DEF F
<1>6. g \in [SUBSET S -> Int]
  <2> HIDE DEF g
  <2> QED
    BY <1>3, <1>5
<1> QED
  BY <1>4, <1>6

\* Any element can be taken out of a sum first, not only the chosen one.
LEMMA PartialRemove ==
  ASSUME NEW S, IsFiniteSet(S), NEW f \in [S -> Int]
  PROVE  \A s \in SUBSET S : \A x \in s :
           Partial(f)[s] = f[x] + Partial(f)[s \ {x}]
<1> DEFINE g == Partial(f)
           F == {s \in SUBSET S : \A x \in s : g[s] = f[x] + g[s \ {x}]}
<1>1. Sums(g, f, SUBSET S) /\ g \in [SUBSET S -> Int]
  BY PartialSums
<1> HIDE DEF g
<1>2. {} \in F
  OBVIOUS
<1>3. ASSUME NEW s \in SUBSET S, s # {}, \A x \in s : s \ {x} \in F
      PROVE  s \in F
  <2> SUFFICES ASSUME NEW x \in s PROVE g[s] = f[x] + g[s \ {x}]
    OBVIOUS
  <2> DEFINE c == Choice(s)
  <2>1. c \in s
    BY <1>3 DEF Choice
  <2>2. g[s] = f[c] + g[s \ {c}]
    BY <1>1, <1>3 DEF Sums
  <2> HIDE DEF c
  <2>3. CASE x = c
    BY <2>2, <2>3
  <2>4. CASE x # c
    <3>1. g[s \ {c}] = f[x] + g[(s \ {c}) \ {x}]
      BY <1>3, <2>1, <2>4
    <3>2. g[s \ {x}] = f[c] + g[(s \ {x}) \ {c}]
      BY <1>3, <2>1, <2>4
    <3>3. (s \ {c}) \ {x} = (s \ {x}) \ {c}
      OBVIOUS
    <3>4. /\ f[x] \in Int /\ f[c] \in Int
          /\ g[(s \ {x}) \ {c}] \in Int
      BY <1>1, <2>1
    <3>5. g[(s \ {c}) \ {x}] = g[(s \ {x}) \ {c}]
      BY <3>3, Zenon
    <3> QED
      BY <2>2, <3>1, <3>2, <3>4, <3>5
  <2> QED
    BY <2>3, <2>4
<1> QED
  <2> HIDE DEF F
  <2>1. F \in SUBSET (SUBSET S)
    BY DEF F
  <2>2. \A s \in SUBSET S : s \in F
    BY <1>2, <1>3, <2>1, SubsetInduction
  <2> QED
    BY <2>2 DEF F, g

\* A sum depends only on the summands.
LEMMA PartialAgrees ==
  ASSUME NEW S, IsFiniteSet(S), NEW f \in [S -> Int],
         NEW R, IsFiniteSet(R), NEW h \in [R -> Int],
         NEW t \in SUBSET (S \cap R), \A x \in t : f[x] = h[x]
  PROVE  Partial(f)[t] = Partial(h)[t]
<1> DEFINE F == {s \in SUBSET t : Partial(f)[s] = Partial(h)[s]}
<1>1. /\ Sums(Partial(f), f, SUBSET S)
      /\ Sums(Partial(h), h, SUBSET R)
  BY PartialSums
<1>2. {} \in F
  BY <1>1 DEF Sums
<1>3. ASSUME NEW s \in SUBSET t, s # {}, \A x \in s : s \ {x} \in F
      PROVE  s \in F
  <2>1. Choice(s) \in s
    BY <1>3 DEF Choice
  <2>2. /\ Partial(f)[s] = f[Choice(s)] + Partial(f)[s \ {Choice(s)}]
        /\ Partial(h)[s] = h[Choice(s)] + Partial(h)[s \ {Choice(s)}]
    BY <1>1, <1>3 DEF Sums
  <2> QED
    BY <1>3, <2>1, <2>2
<1> QED
  <2> HIDE DEF F
  <2>1. F \in SUBSET (SUBSET t) /\ IsFiniteSet(t)
    BY FS_Subset DEF F
  <2>2. \A s \in SUBSET t : s \in F
    BY <1>2, <1>3, <2>1, SubsetInduction
  <2> QED
    BY <2>2 DEF F

-----------------------------------------------------------------------------
(* Facts about Total to cite *)

\* The total of integers is an integer.
THEOREM TotalInt ==
  ASSUME NEW S, IsFiniteSet(S), NEW f \in [S -> Int]
  PROVE  Total(f) \in Int
<1>1. Partial(f) \in [SUBSET S -> Int]
  BY PartialSums
<1>2. Total(f) = Partial(f)[S]
  BY TotalIsPartial
<1> QED
  BY <1>1, <1>2

\* The total of naturals is a natural.
THEOREM TotalNat ==
  ASSUME NEW S, IsFiniteSet(S), NEW f \in [S -> Nat]
  PROVE  Total(f) \in Nat
<1> DEFINE g == Partial(f)
           F == {s \in SUBSET S : g[s] \in Nat}
<1>1. Sums(g, f, SUBSET S)
  BY PartialSums
<1> HIDE DEF g
<1>2. {} \in F
  BY <1>1 DEF Sums
<1>3. ASSUME NEW s \in SUBSET S, s # {}, \A x \in s : s \ {x} \in F
      PROVE  s \in F
  <2>1. Choice(s) \in s
    BY <1>3 DEF Choice
  <2>2. g[s] = f[Choice(s)] + g[s \ {Choice(s)}]
    BY <1>1, <1>3 DEF Sums
  <2> QED
    BY <1>3, <2>1, <2>2
<1>4. \A s \in SUBSET S : s \in F
  <2> HIDE DEF F
  <2>1. F \in SUBSET (SUBSET S)
    BY DEF F
  <2> QED
    BY <1>2, <1>3, <2>1, SubsetInduction
<1> QED
  BY <1>4, TotalIsPartial DEF g

\* Changing one summand changes the total by the difference.
THEOREM TotalUpdate ==
  ASSUME NEW S, IsFiniteSet(S), NEW f \in [S -> Int],
         NEW x \in S, NEW v \in Int
  PROVE  Total([f EXCEPT ![x] = v]) = Total(f) - f[x] + v
<1> DEFINE h == [f EXCEPT ![x] = v]
<1>1. h \in [S -> Int] /\ h[x] = v /\ \A y \in S \ {x} : f[y] = h[y]
  OBVIOUS
<1> HIDE DEF h
<1>2. Partial(f)[S \ {x}] = Partial(h)[S \ {x}]
  BY <1>1, PartialAgrees
<1>3. /\ Partial(f)[S] = f[x] + Partial(f)[S \ {x}]
      /\ Partial(h)[S] = v + Partial(h)[S \ {x}]
  <2>1. S \in SUBSET S
    OBVIOUS
  <2>2. Partial(f)[S] = f[x] + Partial(f)[S \ {x}]
    BY <2>1, PartialRemove
  <2>3. Partial(h)[S] = h[x] + Partial(h)[S \ {x}]
    BY <1>1, <2>1, PartialRemove
  <2> QED
    BY <1>1, <2>2, <2>3
<1>4. Partial(f)[S \ {x}] \in Int /\ f[x] \in Int
  <2>1. Partial(f) \in [SUBSET S -> Int]
    BY PartialSums
  <2> QED
    BY <2>1
<1>5. Total(f) = Partial(f)[S] /\ Total(h) = Partial(h)[S]
  BY <1>1, TotalIsPartial
<1> QED
  BY <1>2, <1>3, <1>4, <1>5 DEF h

\* Functions can be added before or after taking totals.
THEOREM TotalAdd ==
  ASSUME NEW S, IsFiniteSet(S), NEW f \in [S -> Int], NEW h \in [S -> Int]
  PROVE  Total([x \in S |-> f[x] + h[x]]) = Total(f) + Total(h)
<1> DEFINE k == [x \in S |-> f[x] + h[x]]
           F == {s \in SUBSET S :
                   Partial(k)[s] = Partial(f)[s] + Partial(h)[s]}
<1>1. k \in [S -> Int] /\ \A x \in S : k[x] = f[x] + h[x]
  OBVIOUS
<1> HIDE DEF k
<1>2. /\ Sums(Partial(f), f, SUBSET S) /\ Partial(f) \in [SUBSET S -> Int]
      /\ Sums(Partial(h), h, SUBSET S) /\ Partial(h) \in [SUBSET S -> Int]
      /\ Sums(Partial(k), k, SUBSET S)
  BY <1>1, PartialSums
<1>3. {} \in F
  <2>1. /\ Partial(f)[{}] = 0 /\ Partial(h)[{}] = 0
        /\ Partial(k)[{}] = 0
    BY <1>2 DEF Sums
  <2> QED
    BY <2>1
<1>4. ASSUME NEW s \in SUBSET S, s # {}, \A x \in s : s \ {x} \in F
      PROVE  s \in F
  <2> DEFINE c == Choice(s)
             r == s \ {c}
  <2>1. c \in s /\ c \in S /\ r \in SUBSET S /\ r \in F
    BY <1>4 DEF Choice
  <2>2. /\ Partial(f)[s] = f[c] + Partial(f)[r]
        /\ Partial(h)[s] = h[c] + Partial(h)[r]
        /\ Partial(k)[s] = k[c] + Partial(k)[r]
    BY <1>2, <1>4 DEF Sums
  <2> HIDE DEF c, r
  <2>3. /\ f[c] \in Int /\ h[c] \in Int
        /\ Partial(f)[r] \in Int /\ Partial(h)[r] \in Int
    BY <1>2, <2>1
  <2> QED
    BY <1>1, <2>1, <2>2, <2>3
<1>5. \A s \in SUBSET S : s \in F
  <2> HIDE DEF F
  <2>1. F \in SUBSET (SUBSET S)
    BY DEF F
  <2> QED
    BY <1>3, <1>4, <2>1, SubsetInduction
<1>6. /\ Total(f) = Partial(f)[S] /\ Total(h) = Partial(h)[S]
      /\ Total(k) = Partial(k)[S]
  BY <1>1, TotalIsPartial
<1> QED
  BY <1>5, <1>6 DEF k

\* A total over part of the domain, when the rest is zero.
THEOREM TotalRestrict ==
  ASSUME NEW S, IsFiniteSet(S), NEW f \in [S -> Int],
         NEW R \in SUBSET S, \A x \in S \ R : f[x] = 0
  PROVE  Total([x \in R |-> f[x]]) = Total(f)
<1> DEFINE h == [x \in R |-> f[x]]
           F == {s \in SUBSET S : Partial(f)[s] = Partial(f)[s \cap R]}
<1>1. h \in [R -> Int] /\ IsFiniteSet(R) /\ \A x \in R : f[x] = h[x]
  BY FS_Subset
<1> HIDE DEF h
<1>2. {} \in F
  <2>1. {} \cap R = {}
    OBVIOUS
  <2> QED
    BY <2>1, Zenon
<1>3. ASSUME NEW s \in SUBSET S, s # {}, \A x \in s : s \ {x} \in F
      PROVE  s \in F
  <2>1. CASE s \subseteq R
    <3>1. s \cap R = s
      BY <2>1
    <3> QED
      BY <3>1, Zenon
  <2>2. CASE ~ (s \subseteq R)
    <3>1. PICK x \in s : x \notin R
      BY <2>2
    <3>2. Partial(f)[s] = f[x] + Partial(f)[s \ {x}]
      BY PartialRemove
    <3>3. Partial(f)[s \ {x}] = Partial(f)[(s \ {x}) \cap R]
      BY <1>3
    <3>4. (s \ {x}) \cap R = s \cap R
      BY <3>1
    <3>5. f[x] = 0 /\ Partial(f)[s \ {x}] \in Int
      <4>1. Partial(f) \in [SUBSET S -> Int]
        BY PartialSums
      <4> QED
        BY <3>1, <4>1
    <3>6. Partial(f)[s] = Partial(f)[s \ {x}]
      BY <3>2, <3>5
    <3>7. Partial(f)[s] = Partial(f)[s \cap R]
      BY <3>3, <3>4, <3>6, Zenon
    <3> QED
      BY <3>7
  <2> QED
    BY <2>1, <2>2
<1>4. \A s \in SUBSET S : s \in F
  <2> HIDE DEF F
  <2>1. F \in SUBSET (SUBSET S)
    BY DEF F
  <2> QED
    BY <1>2, <1>3, <2>1, SubsetInduction
<1>5. S \cap R = R
  OBVIOUS
<1>6. Partial(f)[S] = Partial(f)[R]
  BY <1>4, <1>5, Zenon
<1>7. Partial(f)[R] = Partial(h)[R]
  BY <1>1, PartialAgrees
<1> QED
  BY <1>1, <1>6, <1>7, TotalIsPartial DEF h

\* A total of zeros and ones counts the ones.
THEOREM TotalOfOnes ==
  ASSUME NEW S, IsFiniteSet(S), NEW f \in [S -> {0, 1}]
  PROVE  Total(f) = Cardinality({x \in S : f[x] = 1})
<1> DEFINE Ones(s) == {x \in s : f[x] = 1}
           F == {s \in SUBSET S : Partial(f)[s] = Cardinality(Ones(s))}
<1>1. f \in [S -> Int]
  OBVIOUS
<1>2. Sums(Partial(f), f, SUBSET S)
  BY <1>1, PartialSums
<1>3. {} \in F
  <2>1. Partial(f)[{}] = 0
    BY <1>2 DEF Sums
  <2>2. Ones({}) = {}
    OBVIOUS
  <2>3. Cardinality(Ones({})) = 0
    BY <2>2, FS_EmptySet, Zenon
  <2> QED
    BY <2>1, <2>3
<1>4. ASSUME NEW s \in SUBSET S, s # {}, \A x \in s : s \ {x} \in F
      PROVE  s \in F
  <2> DEFINE c == Choice(s)
             r == s \ {c}
  <2>1. c \in s /\ r \in F
    BY <1>4 DEF Choice
  <2>2. Partial(f)[s] = f[c] + Partial(f)[r]
    BY <1>2, <1>4 DEF Sums
  <2>3. IsFiniteSet(Ones(r)) /\ Cardinality(Ones(r)) \in Nat
    BY FS_Subset, FS_CardinalityType
  <2> HIDE DEF c
  <2>4. CASE f[c] = 1
    <3>1. Ones(s) = Ones(r) \cup {c} /\ c \notin Ones(r)
      BY <2>1, <2>4
    <3>2. Cardinality(Ones(r) \cup {c}) = Cardinality(Ones(r)) + 1
      <4> HIDE DEF r, Ones
      <4> QED
        BY <2>3, <3>1, FS_AddElement
    <3>3. Cardinality(Ones(s)) = Cardinality(Ones(r)) + 1
      BY <3>1, <3>2, Zenon
    <3> QED
      BY <2>1, <2>2, <2>3, <2>4, <3>3
  <2>5. CASE f[c] = 0
    <3>1. Ones(s) = Ones(r)
      BY <2>5
    <3>2. Cardinality(Ones(s)) = Cardinality(Ones(r))
      BY <3>1, Zenon
    <3> QED
      BY <2>1, <2>2, <2>3, <2>5, <3>2
  <2> QED
    BY <2>1, <2>4, <2>5
<1>5. \A s \in SUBSET S : s \in F
  <2> HIDE DEF F
  <2>1. F \in SUBSET (SUBSET S)
    BY DEF F
  <2> QED
    BY <1>3, <1>4, <2>1, SubsetInduction
<1> QED
  BY <1>5, TotalIsPartial

\* The total of no summands is zero.
THEOREM TotalEmpty ==
  ASSUME NEW f \in [{} -> Int]
  PROVE  Total(f) = 0
<1>1. IsFiniteSet({})
  BY FS_EmptySet
<1>2. Sums(Partial(f), f, SUBSET {})
  BY <1>1, PartialSums
<1>3. Partial(f)[{}] = 0
  BY <1>2 DEF Sums
<1> QED
  BY <1>3, TotalIsPartial

\* A total of larger summands is larger.
THEOREM TotalMono ==
  ASSUME NEW S, IsFiniteSet(S), NEW f \in [S -> Int], NEW h \in [S -> Int],
         \A x \in S : f[x] <= h[x]
  PROVE  Total(f) <= Total(h)
<1> DEFINE d == [x \in S |-> h[x] - f[x]]
<1>1. d \in [S -> Nat]
  OBVIOUS
<1>2. Total(d) \in Nat
  BY <1>1, TotalNat, Zenon
<1>3. [x \in S |-> f[x] + d[x]] = h
  OBVIOUS
<1>4. Total([x \in S |-> f[x] + d[x]]) = Total(f) + Total(d)
  <2>1. d \in [S -> Int]
    OBVIOUS
  <2> HIDE DEF d
  <2> QED
    BY <2>1, TotalAdd
<1>5. Total(h) = Total(f) + Total(d)
  BY <1>3, <1>4, Zenon
<1>6. Total(f) \in Int /\ Total(h) \in Int
  BY TotalInt
<1> HIDE DEF d
<1> QED
  BY <1>2, <1>5, <1>6

\* A common factor can be taken out of a total.
THEOREM TotalScale ==
  ASSUME NEW S, IsFiniteSet(S), NEW f \in [S -> Int], NEW k \in Int
  PROVE  Total([x \in S |-> k * f[x]]) = k * Total(f)
<1> DEFINE h == [x \in S |-> k * f[x]]
           F == {s \in SUBSET S : Partial(h)[s] = k * Partial(f)[s]}
<1>1. h \in [S -> Int] /\ \A x \in S : h[x] = k * f[x]
  OBVIOUS
<1> HIDE DEF h
<1>2. /\ Sums(Partial(f), f, SUBSET S) /\ Partial(f) \in [SUBSET S -> Int]
      /\ Sums(Partial(h), h, SUBSET S)
  BY <1>1, PartialSums
<1>3. {} \in F
  <2>1. Partial(f)[{}] = 0 /\ Partial(h)[{}] = 0
    BY <1>2 DEF Sums
  <2> QED
    BY <2>1
<1>4. ASSUME NEW s \in SUBSET S, s # {}, \A x \in s : s \ {x} \in F
      PROVE  s \in F
  <2> DEFINE c == Choice(s)
             r == s \ {c}
  <2>1. c \in s /\ c \in S /\ r \in SUBSET S /\ r \in F
    BY <1>4 DEF Choice
  <2>2. /\ Partial(f)[s] = f[c] + Partial(f)[r]
        /\ Partial(h)[s] = h[c] + Partial(h)[r]
    BY <1>2, <1>4 DEF Sums
  <2> HIDE DEF c, r
  <2>3. f[c] \in Int /\ Partial(f)[r] \in Int
    BY <1>2, <2>1
  <2>4. k * (f[c] + Partial(f)[r]) = k * f[c] + k * Partial(f)[r]
    BY <2>3
  <2>5. Partial(h)[r] = k * Partial(f)[r]
    BY <2>1
  <2> QED
    BY <1>1, <2>1, <2>2, <2>4, <2>5
<1>5. \A s \in SUBSET S : s \in F
  <2> HIDE DEF F
  <2>1. F \in SUBSET (SUBSET S)
    BY DEF F
  <2> QED
    BY <1>3, <1>4, <2>1, SubsetInduction
<1>6. Total(f) = Partial(f)[S] /\ Total(h) = Partial(h)[S]
  BY <1>1, TotalIsPartial
<1> QED
  BY <1>5, <1>6 DEF h

\* A total over part of the domain of naturals is not larger.
THEOREM TotalSubset ==
  ASSUME NEW S, IsFiniteSet(S), NEW f \in [S -> Nat], NEW R \in SUBSET S
  PROVE  Total([x \in R |-> f[x]]) <= Total(f)
<1> DEFINE g == [x \in S |-> IF x \in R THEN f[x] ELSE 0]
<1>1. g \in [S -> Int] /\ f \in [S -> Int] /\ \A x \in S : g[x] <= f[x]
  OBVIOUS
<1>2. \A x \in S \ R : g[x] = 0
  OBVIOUS
<1>3. [x \in R |-> g[x]] = [x \in R |-> f[x]]
  OBVIOUS
<1> HIDE DEF g
<1>4. Total(g) <= Total(f)
  BY <1>1, TotalMono
<1>5. Total([x \in R |-> g[x]]) = Total(g)
  BY <1>1, <1>2, TotalRestrict
<1>6. Total([x \in R |-> f[x]]) = Total(g)
  BY <1>3, <1>5, Zenon
<1> QED
  BY <1>4, <1>6

\* A total of naturals is at least each of them.
THEOREM TotalPart ==
  ASSUME NEW S, IsFiniteSet(S), NEW f \in [S -> Nat], NEW x \in S
  PROVE  f[x] <= Total(f)
<1>1. f \in [S -> Int] /\ f[x] \in Int
  OBVIOUS
<1>2. Total([f EXCEPT ![x] = 0]) = Total(f) - f[x] + 0
  <2>1. 0 \in Int
    OBVIOUS
  <2>2. \A v \in Int : Total([f EXCEPT ![x] = v]) = Total(f) - f[x] + v
    BY <1>1, TotalUpdate
  <2> QED
    BY <2>1, <2>2
<1>3. [f EXCEPT ![x] = 0] \in [S -> Nat]
  OBVIOUS
<1>4. Total([f EXCEPT ![x] = 0]) \in Nat
  BY <1>3, TotalNat, Zenon
<1>5. Total(f) \in Int
  BY <1>1, TotalInt
<1> QED
  BY <1>1, <1>2, <1>4, <1>5

\* A total does not depend on the names of the summands.
THEOREM TotalReindex ==
  ASSUME NEW S, IsFiniteSet(S), NEW f \in [S -> Int],
         NEW T, IsFiniteSet(T), NEW b \in [T -> S],
         \A x, y \in T : b[x] = b[y] => x = y,
         \A y \in S : \E x \in T : b[x] = y
  PROVE  Total([x \in T |-> f[b[x]]]) = Total(f)
<1>0. ASSUME NEW t \in SUBSET S, NEW y \in t
      PROVE  Partial(f)[t] = f[y] + Partial(f)[t \ {y}]
  BY PartialRemove
<1> DEFINE h == [x \in T |-> f[b[x]]]
           Image(s) == {b[x] : x \in s}
           F == {s \in SUBSET T : Partial(h)[s] = Partial(f)[Image(s)]}
<1>1. h \in [T -> Int] /\ \A x \in T : h[x] = f[b[x]]
  OBVIOUS
<1> HIDE DEF h
<1>2. /\ Sums(Partial(f), f, SUBSET S) /\ Sums(Partial(h), h, SUBSET T)
  BY <1>1, PartialSums
<1>3. {} \in F
  <2>1. Partial(f)[{}] = 0 /\ Partial(h)[{}] = 0
    BY <1>2 DEF Sums
  <2>2. Image({}) = {}
    OBVIOUS
  <2>3. Partial(f)[Image({})] = 0
    BY <2>1, <2>2, Zenon
  <2> QED
    BY <2>1, <2>3
<1>4. ASSUME NEW s \in SUBSET T, s # {}, \A x \in s : s \ {x} \in F
      PROVE  s \in F
  <2> DEFINE c == Choice(s)
             r == s \ {c}
  <2>1. c \in s /\ c \in T /\ r \in SUBSET T /\ r \in F
    BY <1>4 DEF Choice
  <2>2. Partial(h)[s] = h[c] + Partial(h)[r]
    BY <1>2, <1>4 DEF Sums
  <2>3. Partial(h)[r] = Partial(f)[Image(r)]
    BY <2>1
  <2>4. b[c] \in Image(s) /\ Image(s) \in SUBSET S
    BY <2>1
  <2>5. Image(s) \ {b[c]} = Image(r)
    BY <2>1
  <2>6. Partial(f)[Image(s)] = f[b[c]] + Partial(f)[Image(s) \ {b[c]}]
    <3> HIDE DEF c, Image
    <3> QED
      BY <1>0, <2>4, Zenon
  <2>7. Partial(f)[Image(s)] = f[b[c]] + Partial(f)[Image(r)]
    BY <2>5, <2>6, Zenon
  <2> HIDE DEF c, r, Image
  <2>8. Partial(h)[s] = Partial(f)[Image(s)]
    BY <1>1, <2>1, <2>2, <2>3, <2>7
  <2> QED
    BY <2>8
<1>5. \A s \in SUBSET T : s \in F
  <2> HIDE DEF F
  <2>1. F \in SUBSET (SUBSET T)
    BY DEF F
  <2> QED
    BY <1>3, <1>4, <2>1, SubsetInduction
<1>6. Image(T) = S
  OBVIOUS
<1>7. Partial(h)[T] = Partial(f)[S]
  BY <1>5, <1>6, Zenon
<1> QED
  BY <1>1, <1>7, TotalIsPartial DEF h

\* A total over two sets that have no element in common.
THEOREM TotalUnion ==
  ASSUME NEW S, IsFiniteSet(S), NEW f \in [S -> Int],
         NEW A, NEW B, A \cup B = S, A \cap B = {}
  PROVE  Total(f) = Total([x \in A |-> f[x]]) + Total([x \in B |-> f[x]])
<1> DEFINE fa == [x \in S |-> IF x \in A THEN f[x] ELSE 0]
           fb == [x \in S |-> IF x \in B THEN f[x] ELSE 0]
<1>1. /\ fa \in [S -> Int] /\ fb \in [S -> Int]
      /\ A \in SUBSET S /\ B \in SUBSET S
      /\ \A x \in S \ A : fa[x] = 0
      /\ \A x \in S \ B : fb[x] = 0
  OBVIOUS
<1>2. /\ [x \in A |-> fa[x]] = [x \in A |-> f[x]]
      /\ [x \in B |-> fb[x]] = [x \in B |-> f[x]]
  OBVIOUS
<1>3. [x \in S |-> fa[x] + fb[x]] = f
  OBVIOUS
<1> HIDE DEF fa, fb
<1>4. /\ Total([x \in A |-> fa[x]]) = Total(fa)
      /\ Total([x \in B |-> fb[x]]) = Total(fb)
  BY <1>1, TotalRestrict
<1>5. Total([x \in S |-> fa[x] + fb[x]]) = Total(fa) + Total(fb)
  BY <1>1, TotalAdd
<1> QED
  BY <1>2, <1>3, <1>4, <1>5, Zenon

\* A total of zeros is zero.
THEOREM TotalZero ==
  ASSUME NEW S, IsFiniteSet(S), NEW f \in [S -> Int], \A x \in S : f[x] = 0
  PROVE  Total(f) = 0
<1>1. {} \in SUBSET S /\ \A x \in S \ {} : f[x] = 0
  OBVIOUS
<1>2. Total([x \in {} |-> f[x]]) = Total(f)
  BY <1>1, TotalRestrict
<1>3. [x \in {} |-> f[x]] \in [{} -> Int]
  OBVIOUS
<1>4. Total([x \in {} |-> f[x]]) = 0
  BY <1>3, TotalEmpty
<1> QED
  BY <1>2, <1>4, Zenon
=============================================================================
