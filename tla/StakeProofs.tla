----------------------------- MODULE StakeProofs -----------------------------
(***************************************************************************)
(* Proofs about the specification of module Stake, for any set of pools,   *)
(* any genesis and any governance setting.                                 *)
(***************************************************************************)
EXTENDS Stake, TotalProofs, SequenceTheorems

-----------------------------------------------------------------------------
(* Rewards *)

\* Shares of a reward are natural numbers.
LEMMA OthersPercentType ==
  OthersPercent \in Nat /\ OthersPercent < 100
<1>1. OtherShares \in [1..Len(OtherShares) -> Nat] /\ Len(OtherShares) \in Nat
  BY ShareAssumption, LenProperties
<1>2. IsFiniteSet(1..Len(OtherShares))
  BY <1>1, FS_Interval
<1> QED
  BY <1>1, <1>2, TotalNat, ShareAssumption DEF OthersPercent

\* Nonlinear arithmetic: a product and a quotient of naturals are naturals.
LEMMA NatProduct ==
  \A a, b \in Nat : a * b \in Nat
OBVIOUS

\* The rounded-down quotient that rewards, shares and seconds are made of.
LEMMA NatQuotient ==
  ASSUME NEW a \in Nat, NEW b \in Nat, b > 0
  PROVE  a \div b \in Nat
OBVIOUS

\* What distribute_rewards leaves a validator is a natural number.
LEMMA ValidatorShareType ==
  ASSUME NEW amount \in Nat
  PROVE  ValidatorShare(amount) \in Nat
<1>1. 100 - OthersPercent \in Nat
  BY OthersPercentType
<1>2. amount * (100 - OthersPercent) \in Nat
  BY <1>1, NatProduct
<1> QED
  BY <1>2, NatQuotient DEF ValidatorShare

\* So is what it mints for the accounts of the reward split.
LEMMA OtherAccountsShareType ==
  ASSUME NEW amount \in Nat
  PROVE  OtherAccountsShare(amount) \in Nat
<1> DEFINE f == [i \in DOMAIN OtherShares |-> (amount * OtherShares[i]) \div 100]
<1>1. /\ DOMAIN OtherShares = 1..Len(OtherShares)
      /\ OtherShares \in [1..Len(OtherShares) -> Nat]
      /\ Len(OtherShares) \in Nat
  BY ShareAssumption, LenProperties
<1>2. IsFiniteSet(DOMAIN OtherShares)
  BY <1>1, FS_Interval
<1>3. \A i \in DOMAIN OtherShares : (amount * OtherShares[i]) \div 100 \in Nat
  BY <1>1, NatProduct, NatQuotient
<1>4. f \in [DOMAIN OtherShares -> Nat]
  BY <1>3
<1> QED
  BY <1>2, <1>4, TotalNat DEF OtherAccountsShare

\* calculate_rewards_amount returns a natural number, also when nobody proposed
\* a block or nothing is staked.
LEMMA RewardsAmountType ==
  ASSUME NEW stake \in Nat, NEW all_stake \in Nat, NEW perf \in Performance,
         NEW total_supply \in Nat, staking_config \in StakingConfig
  PROVE  RewardsAmount(stake, all_stake, perf, total_supply) \in Nat
<1> DEFINE total == perf.successful_proposals + perf.failed_proposals
           rate == staking_config.rewards_rate * perf.successful_proposals
           numerator == IF Inflation THEN total_supply * stake * rate
                                     ELSE stake * rate
           denominator == staking_config.rewards_rate_denominator * total
                            * (IF Inflation THEN all_stake ELSE 1)
<1>1. total \in Nat /\ perf.successful_proposals \in Nat
  BY DEF Performance
<1>2. /\ staking_config.rewards_rate \in Nat
      /\ staking_config.rewards_rate_denominator \in Nat
  BY DEF StakingConfig
<1>3. rate \in Nat
  BY <1>1, <1>2, NatProduct
<1>4. numerator \in Nat
  <2> HIDE DEF rate
  <2>1. stake * rate \in Nat /\ total_supply * stake \in Nat
    BY <1>3, NatProduct
  <2>2. total_supply * stake * rate \in Nat
    BY <1>3, <2>1, NatProduct
  <2> QED
    BY <2>1, <2>2
<1>5. denominator \in Nat
  <2> HIDE DEF total
  <2>1. staking_config.rewards_rate_denominator * total \in Nat
    BY <1>1, <1>2, NatProduct
  <2>2. (IF Inflation THEN all_stake ELSE 1) \in Nat
    OBVIOUS
  <2> QED
    BY <2>1, <2>2, NatProduct
<1>6. RewardsAmount(stake, all_stake, perf, total_supply)
        = IF denominator > 0 THEN numerator \div denominator ELSE 0
  BY DEF RewardsAmount
<1> HIDE DEF numerator, denominator
<1> QED
  BY <1>4, <1>5, <1>6, NatQuotient

-----------------------------------------------------------------------------
(* Queues *)

\* An initial interval determines its bound.
LEMMA SameInterval ==
  ASSUME NEW m \in Nat, NEW n \in Nat, 1..m = 1..n
  PROVE  m = n
<1>1. m # 0 => m \in 1..n
  OBVIOUS
<1>2. n # 0 => n \in 1..m
  OBVIOUS
<1> QED
  BY <1>1, <1>2

\* The entries of a queue, in any order.
Entries(q) == {q[i] : i \in DOMAIN q}

\* Two queues without duplicates that have no validator in common.
Separate(a, b) ==
  /\ a \in Seq(ValidatorInfo) /\ b \in Seq(ValidatorInfo)
  /\ NoDuplicates(a) /\ NoDuplicates(b)
  /\ Members(a) \cap Members(b) = {}

\* Queues c and d hold together what a and b hold together, and c nothing that
\* a did not hold.
SameEntries(a, b, c, d) ==
  /\ Entries(c) \cup Entries(d) = Entries(a) \cup Entries(b)
  /\ Len(c) + Len(d) = Len(a) + Len(b)
  /\ Entries(c) \subseteq Entries(a)

\* Queues with the same entries have the same validators.
LEMMA SameMembers ==
  ASSUME NEW a, NEW b, NEW c, NEW d, SameEntries(a, b, c, d)
  PROVE  Members(c) \cup Members(d) = Members(a) \cup Members(b)
<1>1. \A q : Members(q) = {e.addr : e \in Entries(q)}
  BY DEF Members, Entries
<1>2. \A q, r : Members(q) \cup Members(r)
                  = {e.addr : e \in Entries(q) \cup Entries(r)}
  BY <1>1
<1> QED
  BY <1>2, Zenon DEF SameEntries

\* A queue lists pools.
LEMMA MembersType ==
  ASSUME NEW q \in Seq(ValidatorInfo)
  PROVE  Members(q) \subseteq Pool
<1>1. ASSUME NEW i \in DOMAIN q PROVE q[i].addr \in Pool
  <2>1. i \in 1..Len(q)
    BY LenProperties
  <2>2. q[i] \in ValidatorInfo
    BY <2>1, ElementOfSeq
  <2> QED
    BY <2>2 DEF ValidatorInfo
<1> QED
  BY <1>1 DEF Members

\* find_validator finds a validator that is there.
LEMMA IndexOfMember ==
  ASSUME NEW q, NEW p \in Members(q)
  PROVE  IndexOf(q, p) \in DOMAIN q /\ q[IndexOf(q, p)].addr = p
<1>1. \E i \in DOMAIN q : q[i].addr = p
  BY DEF Members
<1> QED
  BY <1>1 DEF IndexOf

\* A function on an initial interval is a sequence of that length.
LEMMA SeqOfLength ==
  ASSUME NEW S, NEW n \in Nat, NEW q \in [1..n -> S]
  PROVE  q \in Seq(S) /\ Len(q) = n /\ DOMAIN q = 1..n
<1>1. q \in Seq(S)
  BY SeqDef
<1>2. Len(q) \in Nat /\ DOMAIN q = 1..Len(q)
  BY <1>1, LenProperties
<1>3. DOMAIN q = 1..n
  OBVIOUS
<1> QED
  BY <1>1, <1>2, <1>3, SameInterval

\* What swap_remove leaves.
LEMMA SwapRemoveFacts ==
  ASSUME NEW S, NEW q \in Seq(S), NEW i \in DOMAIN q
  PROVE  /\ SwapRemove(q, i) \in Seq(S)
         /\ Len(SwapRemove(q, i)) = Len(q) - 1
         /\ \A j \in 1..Len(q) - 1 :
              SwapRemove(q, i)[j] = IF j = i THEN q[Len(q)] ELSE q[j]
         /\ Entries(SwapRemove(q, i)) = {q[j] : j \in DOMAIN q \ {i}}
<1> DEFINE r == SwapRemove(q, i)
           n == Len(q) - 1
<1>1. /\ Len(q) \in Nat /\ DOMAIN q = 1..Len(q)
      /\ \A j \in 1..Len(q) : q[j] \in S
      /\ i \in 1..Len(q) /\ n \in Nat
  BY LenProperties
<1>2. /\ DOMAIN r = 1..n
      /\ \A j \in 1..n : r[j] = IF j = i THEN q[Len(q)] ELSE q[j]
  BY DEF SwapRemove
<1>3. \A j \in 1..n : r[j] \in S
  BY <1>1, <1>2
<1>4. r \in [1..n -> S]
  BY <1>3 DEF SwapRemove
<1>5. r \in Seq(S)
  BY <1>1, <1>4, SeqDef
<1>6. Len(r) = n
  <2>1. Len(r) \in Nat /\ DOMAIN r = 1..Len(r)
    BY <1>5, LenProperties
  <2> HIDE DEF r
  <2> QED
    BY <1>1, <1>2, <2>1, SameInterval
<1>7. Entries(r) = {q[j] : j \in DOMAIN q \ {i}}
  <2> HIDE DEF r
  <2>1. ASSUME NEW j \in 1..n
        PROVE  \E k \in DOMAIN q \ {i} : r[j] = q[k]
    <3>1. CASE j = i
      BY <1>1, <1>2, <3>1
    <3>2. CASE j # i
      BY <1>1, <1>2, <3>2
    <3> QED
      BY <3>1, <3>2
  <2>2. ASSUME NEW k \in DOMAIN q \ {i}
        PROVE  \E j \in 1..n : r[j] = q[k]
    <3>1. CASE k = Len(q)
      BY <1>1, <1>2, <3>1
    <3>2. CASE k # Len(q)
      BY <1>1, <1>2, <3>2
    <3> QED
      BY <3>1, <3>2
  <2>3. Entries(r) = {r[j] : j \in 1..n}
    BY <1>2 DEF Entries
  <2> QED
    BY <2>1, <2>2, <2>3
<1> QED
  BY <1>2, <1>5, <1>6, <1>7

\* swap_remove takes one validator out of a queue and leaves no duplicates.
LEMMA SwapRemoveNoDuplicates ==
  ASSUME NEW q \in Seq(ValidatorInfo), NEW i \in DOMAIN q, NoDuplicates(q)
  PROVE  /\ NoDuplicates(SwapRemove(q, i))
         /\ Members(SwapRemove(q, i)) = Members(q) \ {q[i].addr}
<1> DEFINE r == SwapRemove(q, i)
<1>1. /\ Len(q) \in Nat /\ DOMAIN q = 1..Len(q) /\ i \in 1..Len(q)
  BY LenProperties
<1>2. /\ r \in Seq(ValidatorInfo) /\ Len(r) = Len(q) - 1
      /\ \A j \in 1..Len(q) - 1 :
           r[j] = IF j = i THEN q[Len(q)] ELSE q[j]
      /\ Entries(r) = {q[j] : j \in DOMAIN q \ {i}}
  BY SwapRemoveFacts
<1>3. DOMAIN r = 1..Len(q) - 1
  BY <1>2, LenProperties
<1> HIDE DEF r
<1>4. NoDuplicates(r)
  <2> SUFFICES ASSUME NEW j \in 1..Len(q) - 1, NEW k \in 1..Len(q) - 1,
                      r[j].addr = r[k].addr
               PROVE  j = k
    BY <1>3 DEF NoDuplicates
  <2> DEFINE At(m) == IF m = i THEN Len(q) ELSE m
  <2>1. At(j) \in DOMAIN q /\ At(k) \in DOMAIN q
    BY <1>1
  <2>2. r[j] = q[At(j)] /\ r[k] = q[At(k)]
    BY <1>2
  <2>3. At(j) = At(k)
    <3> HIDE DEF At
    <3> QED
      BY <2>1, <2>2 DEF NoDuplicates
  <2> QED
    BY <1>1, <2>3
<1>5. Members(r) = {e.addr : e \in Entries(r)}
  BY DEF Members, Entries
<1>6. Members(r) = {q[j].addr : j \in DOMAIN q \ {i}}
  BY <1>2, <1>5
<1>7. {q[j].addr : j \in DOMAIN q \ {i}} = Members(q) \ {q[i].addr}
  BY DEF Members, NoDuplicates
<1> QED
  BY <1>4, <1>6, <1>7 DEF r

\* What push_back does to a sequence.
LEMMA AppendFacts ==
  ASSUME NEW S, NEW q \in Seq(S), NEW e \in S
  PROVE  /\ Append(q, e) \in Seq(S)
         /\ Len(Append(q, e)) = Len(q) + 1
         /\ Entries(Append(q, e)) = Entries(q) \cup {e}
<1> DEFINE r == Append(q, e)
<1>1. /\ r \in Seq(S) /\ Len(r) = Len(q) + 1
      /\ \A i \in 1..Len(q) : r[i] = q[i]
      /\ r[Len(q) + 1] = e
  BY AppendProperties
<1>2. /\ Len(q) \in Nat /\ DOMAIN q = 1..Len(q) /\ DOMAIN r = 1..Len(q) + 1
  BY <1>1, LenProperties
<1> HIDE DEF r
<1>3. Entries(r) = Entries(q) \cup {e}
  BY <1>1, <1>2 DEF Entries
<1> QED
  BY <1>1, <1>3 DEF r

\* push_back of a validator that is not in the queue leaves no duplicates.
LEMMA AppendNoDuplicates ==
  ASSUME NEW q \in Seq(ValidatorInfo), NEW e \in ValidatorInfo,
         NoDuplicates(q), e.addr \notin Members(q)
  PROVE  /\ NoDuplicates(Append(q, e))
         /\ Members(Append(q, e)) = Members(q) \cup {e.addr}
<1> DEFINE r == Append(q, e)
<1>1. /\ r \in Seq(ValidatorInfo) /\ Len(r) = Len(q) + 1
      /\ \A i \in 1..Len(q) : r[i] = q[i]
      /\ r[Len(q) + 1] = e
  BY AppendProperties
<1>2. /\ Len(q) \in Nat /\ DOMAIN q = 1..Len(q) /\ DOMAIN r = 1..Len(q) + 1
  BY <1>1, LenProperties
<1> HIDE DEF r
<1>3. NoDuplicates(r)
  BY <1>1, <1>2 DEF NoDuplicates, Members
<1>4. Members(r) = Members(q) \cup {e.addr}
  BY <1>1, <1>2 DEF Members
<1> QED
  BY <1>3, <1>4 DEF r

\* A validator that moves from one queue to the end of the other.
LEMMA MoveEntry ==
  ASSUME NEW a, NEW b, Separate(a, b), NEW i \in DOMAIN a
  PROVE  /\ Separate(SwapRemove(a, i), Append(b, a[i]))
         /\ SameEntries(a, b, SwapRemove(a, i), Append(b, a[i]))
<1> DEFINE c == SwapRemove(a, i)
           d == Append(b, a[i])
<1>1. /\ a \in Seq(ValidatorInfo) /\ b \in Seq(ValidatorInfo)
      /\ NoDuplicates(a) /\ NoDuplicates(b)
      /\ Members(a) \cap Members(b) = {}
  BY DEF Separate
<1>2. a[i] \in ValidatorInfo /\ Len(a) \in Nat /\ Len(b) \in Nat
  BY <1>1, LenProperties, ElementOfSeq
<1>3. a[i].addr \in Members(a) /\ a[i].addr \notin Members(b)
  BY <1>1 DEF Members
<1>4. /\ c \in Seq(ValidatorInfo) /\ Len(c) = Len(a) - 1
      /\ Entries(c) = {a[j] : j \in DOMAIN a \ {i}}
  BY <1>1, SwapRemoveFacts
<1>5. NoDuplicates(c) /\ Members(c) = Members(a) \ {a[i].addr}
  BY <1>1, SwapRemoveNoDuplicates
<1>6. /\ d \in Seq(ValidatorInfo) /\ Len(d) = Len(b) + 1
      /\ Entries(d) = Entries(b) \cup {a[i]}
  BY <1>1, <1>2, AppendFacts
<1>7. NoDuplicates(d) /\ Members(d) = Members(b) \cup {a[i].addr}
  BY <1>1, <1>2, <1>3, AppendNoDuplicates
<1> HIDE DEF c, d
<1>8. Separate(c, d)
  BY <1>1, <1>3, <1>4, <1>5, <1>6, <1>7 DEF Separate
<1>9. Entries(c) \cup {a[i]} = Entries(a)
  BY <1>4 DEF Entries
<1>10. SameEntries(a, b, c, d)
  BY <1>2, <1>4, <1>6, <1>9 DEF SameEntries
<1> QED
  BY <1>8, <1>10 DEF c, d

\* One round of remove_validators.
LEMMA RemoveOneFacts ==
  ASSUME NEW qs, Separate(qs[1], qs[2]), NEW p
  PROVE  LET rs == RemoveOne(qs, p) IN
           /\ Separate(rs[1], rs[2])
           /\ SameEntries(qs[1], qs[2], rs[1], rs[2])
<1>1. CASE p \in Members(qs[1])
  <2> DEFINE i == IndexOf(qs[1], p)
  <2>1. i \in DOMAIN qs[1]
    BY <1>1, IndexOfMember
  <2>2. RemoveOne(qs, p) = <<SwapRemove(qs[1], i), Append(qs[2], qs[1][i])>>
    BY <1>1 DEF RemoveOne
  <2> HIDE DEF i
  <2>3. /\ Separate(SwapRemove(qs[1], i), Append(qs[2], qs[1][i]))
        /\ SameEntries(qs[1], qs[2], SwapRemove(qs[1], i),
                       Append(qs[2], qs[1][i]))
    BY <2>1, MoveEntry
  <2> QED
    BY <2>2, <2>3
<1>2. CASE p \notin Members(qs[1])
  <2>1. RemoveOne(qs, p) = qs
    BY <1>2 DEF RemoveOne
  <2> QED
    BY <2>1 DEF SameEntries
<1> QED
  BY <1>1, <1>2

\* The equation of RemoveValidators' LET.
AreRounds(r, base, list, n) ==
  r = [k \in 0..n |-> IF k = 0 THEN base ELSE RemoveOne(r[k - 1], list[k])]

\* The recursion of RemoveValidators has a solution for any list.
LEMMA RoundsExist ==
  ASSUME NEW base, NEW list, NEW n \in Nat
  PROVE  \E r : AreRounds(r, base, list, n)
<1> DEFINE T == {m \in Nat : \E r : AreRounds(r, base, list, m)}
<1>1. 0 \in T
  <2> DEFINE r == [k \in 0..0 |-> base]
  <2>1. AreRounds(r, base, list, 0)
    BY DEF AreRounds
  <2> QED
    BY <2>1
<1>2. ASSUME NEW m \in T PROVE m + 1 \in T
  <2>1. PICK r : AreRounds(r, base, list, m)
    OBVIOUS
  <2> DEFINE t == [k \in 0..m + 1 |->
                     IF k = 0 THEN base ELSE RemoveOne(r[k - 1], list[k])]
  <2>2. \A k \in 0..m : t[k] = r[k]
    BY <2>1 DEF AreRounds
  <2>3. \A k \in 0..m + 1 : k # 0 => k - 1 \in 0..m
    OBVIOUS
  <2>4. AreRounds(t, base, list, m + 1)
    BY <2>2, <2>3 DEF AreRounds
  <2> HIDE DEF t
  <2> QED
    BY <2>4
<1> QED
  <2> HIDE DEF T
  <2>1. T \in SUBSET Nat
    BY DEF T
  <2>2. n \in T
    BY <1>1, <1>2, <2>1, NatSetInduction
  <2> QED
    BY <2>2 DEF T

\* However long the list, the two queues together keep their entries.
LEMMA RemoveValidatorsFacts ==
  ASSUME NEW list, Len(list) \in Nat, RemoveValidators(list),
         Separate(active_validators, pending_inactive)
  PROVE  /\ Separate(active_validators', pending_inactive')
         /\ SameEntries(active_validators, pending_inactive,
                        active_validators', pending_inactive')
<1> DEFINE n == Len(list)
           base == <<active_validators, pending_inactive>>
           r == CHOOSE r : AreRounds(r, base, list, n)
<1>1. r = [k \in 0..n |->
             IF k = 0 THEN base ELSE RemoveOne(r[k - 1], list[k])]
  <2> HIDE DEF base, n
  <2>1. n \in Nat
    BY DEF n
  <2>2. \E s : AreRounds(s, base, list, n)
    BY <2>1, RoundsExist
  <2>3. AreRounds(r, base, list, n)
    BY <2>2, Zenon
  <2> QED
    BY <2>3, Zenon DEF AreRounds
<1>2. /\ active_validators' = r[n][1]
      /\ pending_inactive' = r[n][2]
  BY DEF RemoveValidators, AreRounds
<1> DEFINE OK(qs) == /\ Separate(qs[1], qs[2])
                     /\ SameEntries(active_validators, pending_inactive,
                                    qs[1], qs[2])
           T == {k \in Nat : k <= n => OK(r[k])}
<1> HIDE DEF r, n
<1>3. 0 \in T
  <2>1. n \in Nat
    BY DEF n
  <2>2. r[0] = base
    BY <1>1, <2>1
  <2>3. r[0][1] = active_validators /\ r[0][2] = pending_inactive
    BY <2>2
  <2>4. OK(r[0])
    BY <2>3 DEF SameEntries
  <2> HIDE DEF OK
  <2> QED
    BY <2>4
<1>4. ASSUME NEW k \in T PROVE k + 1 \in T
  <2> SUFFICES ASSUME k + 1 <= n PROVE OK(r[k + 1])
    OBVIOUS
  <2>1. n \in Nat /\ k \in Nat
    BY DEF n
  <2>2. OK(r[k])
    BY <2>1
  <2>3. r[k + 1] = RemoveOne(r[k], list[k + 1])
    <3>1. k + 1 \in 0..n /\ k + 1 # 0 /\ (k + 1) - 1 = k
      BY <2>1
    <3> QED
      BY <1>1, <3>1
  <2>4. /\ Separate(r[k + 1][1], r[k + 1][2])
        /\ SameEntries(r[k][1], r[k][2], r[k + 1][1], r[k + 1][2])
    BY <2>2, <2>3, RemoveOneFacts
  <2> QED
    BY <2>2, <2>4 DEF SameEntries
<1>5. OK(r[n])
  <2> HIDE DEF OK
  <2>1. n \in Nat /\ n <= n
    BY DEF n
  <2>2. T \in SUBSET Nat
    OBVIOUS
  <2>3. n \in T
    <3> HIDE DEF T
    <3> QED
      BY <1>3, <1>4, <2>1, <2>2, NatSetInduction
  <2> QED
    BY <2>1, <2>3
<1> QED
  BY <1>2, <1>5

-----------------------------------------------------------------------------
(* Steps that leave the queues alone *)

\* A step that changes one pool and keeps its snapshot.
LEMMA PoolStep ==
  ASSUME IInv, NEW p \in Pool, NEW sp \in StakePool,
         pools' = [pools EXCEPT ![p] = sp],
         UNCHANGED <<queueVars, validator_perf>>,
         config' \in [Pool -> ValidatorConfig],
         \A r \in CurrentValidators :
           config'[r].validator_index = config[r].validator_index,
         p \in CurrentValidators =>
           sp.active + sp.pending_inactive
             = pools[p].active + pools[p].pending_inactive,
         p \notin CurrentValidators => sp.pending_active = 0
  PROVE  /\ pools' \in [Pool -> StakePool]
         /\ QueuesDisjoint'
         /\ IndicesMatchPerformance'
         /\ VotingPowerIsSnapshot'
         /\ PendingStakeOnlyWhileValidating'
<1>1. /\ pools \in [Pool -> StakePool]
      /\ active_validators \in Seq(ValidatorInfo)
      /\ pending_inactive \in Seq(ValidatorInfo)
  BY DEF IInv, TypeOK
<1>2. pools' \in [Pool -> StakePool]
  BY <1>1
<1>3. /\ active_validators' = active_validators
      /\ pending_inactive' = pending_inactive
      /\ pending_active' = pending_active
      /\ validator_perf' = validator_perf
  BY DEF queueVars
<1>4. QueuesDisjoint'
  <2>1. QueuesDisjoint
    BY DEF IInv
  <2>2. /\ NoDuplicates(active_validators)'
        /\ NoDuplicates(pending_inactive)'
        /\ NoDuplicates(pending_active)'
    BY <1>3, <2>1 DEF QueuesDisjoint, NoDuplicates
  <2>3. /\ Members(active_validators)' = Members(active_validators)
        /\ Members(pending_inactive)' = Members(pending_inactive)
        /\ Members(pending_active)' = Members(pending_active)
    BY <1>3 DEF Members
  <2> QED
    BY <2>1, <2>2, <2>3 DEF QueuesDisjoint, CurrentValidators
<1>5. CurrentValidators' = CurrentValidators
  BY <1>3 DEF CurrentValidators, Members
<1>6. \A q \in {active_validators, pending_inactive} : \A i \in DOMAIN q :
        q[i].addr \in CurrentValidators
  BY DEF CurrentValidators, Members
<1>7. IndicesMatchPerformance'
  BY <1>3, <1>5, <1>6 DEF IInv, IndicesMatchPerformance
<1>8. \A r \in CurrentValidators :
        pools'[r].active + pools'[r].pending_inactive
          = pools[r].active + pools[r].pending_inactive
  <2>1. CurrentValidators \subseteq Pool
    BY <1>1, MembersType DEF CurrentValidators
  <2> QED
    BY <1>1, <2>1
<1>9. VotingPowerIsSnapshot'
  BY <1>3, <1>6, <1>8 DEF IInv, VotingPowerIsSnapshot
<1>10. PendingStakeOnlyWhileValidating'
  BY <1>1, <1>5 DEF IInv, PendingStakeOnlyWhileValidating
<1> QED
  BY <1>2, <1>4, <1>7, <1>9, <1>10

\* A step that changes no config keeps its type and the indices.
LEMMA ConfigStays ==
  ASSUME IInv, UNCHANGED config
  PROVE  /\ config' \in [Pool -> ValidatorConfig]
         /\ \A r \in CurrentValidators :
              config'[r].validator_index = config[r].validator_index
BY DEF IInv, TypeOK

\* A new pool is nobody's of the validator set.
LEMMA NewConfig ==
  ASSUME IInv, NEW p \in Pool, p \notin registered,
         NEW c \in ValidatorConfig, config' = [config EXCEPT ![p] = c]
  PROVE  /\ p \notin InValidatorSet /\ p \notin CurrentValidators
         /\ config' \in [Pool -> ValidatorConfig]
         /\ \A r \in CurrentValidators :
              config'[r].validator_index = config[r].validator_index
<1>1. config \in [Pool -> ValidatorConfig] /\ InValidatorSet \subseteq registered
  BY DEF IInv, TypeOK
<1>2. p \notin CurrentValidators
  BY <1>1 DEF InValidatorSet
<1> QED
  BY <1>1, <1>2

\* A new pool is a pool.
LEMMA EmptyPoolType == EmptyPool \in StakePool
BY DEF EmptyPool, StakePool

\* A deposit keeps the stake that is counted now, and is tracked as pending
\* for a current validator only.
LEMMA DepositedFacts ==
  ASSUME NEW p, NEW sp \in StakePool, NEW amount \in Nat
  PROVE  LET d == Deposited(p, sp, amount) IN
           /\ d \in StakePool
           /\ p \in CurrentValidators =>
                d.active = sp.active /\ d.pending_inactive = sp.pending_inactive
           /\ p \notin CurrentValidators => d.pending_active = sp.pending_active
BY DEF Deposited, StakePool

\* initialize_validator preserves the invariant: the new pool is in no queue.
LEMMA InitializeValidatorStep ==
  ASSUME IInv, NEW p \in Pool, NEW key \in Key, InitializeValidator(p, key)
  PROVE  IInv'
<1> USE DEF InitializeValidator
<1> DEFINE c == [consensus_pubkey |-> key, validator_index |-> 0]
<1>1. c \in ValidatorConfig
  BY DEF ValidatorConfig
<1>2. /\ p \notin InValidatorSet /\ p \notin CurrentValidators
      /\ config' \in [Pool -> ValidatorConfig]
      /\ \A r \in CurrentValidators :
           config'[r].validator_index = config[r].validator_index
  BY <1>1, NewConfig
<1>3. UNCHANGED <<queueVars, validator_perf>>
  OBVIOUS
<1>4. /\ pools' \in [Pool -> StakePool] /\ QueuesDisjoint'
      /\ IndicesMatchPerformance' /\ VotingPowerIsSnapshot'
      /\ PendingStakeOnlyWhileValidating'
  <2>1. EmptyPool.pending_active = 0
    BY DEF EmptyPool
  <2> QED
    BY <1>2, <1>3, <2>1, EmptyPoolType, PoolStep
<1>5. TypeOK'
  BY <1>2, <1>4 DEF IInv, TypeOK, queueVars, powerVars, moneyVars, clockVars
<1>6. (InValidatorSet \subseteq registered)' /\ (circulating <= supply)'
  BY DEF IInv, InValidatorSet, CurrentValidators, Members, queueVars, moneyVars
<1> QED
  BY <1>4, <1>5, <1>6 DEF IInv

\* initialize_stake_owner preserves the invariant.
LEMMA InitializeStakeOwnerStep ==
  ASSUME IInv, NEW p \in Pool, NEW amount \in Nat,
         InitializeStakeOwner(p, amount)
  PROVE  IInv'
<1> USE DEF InitializeStakeOwner
<1> DEFINE c == [consensus_pubkey |-> NoKey, validator_index |-> 0]
           d == Deposited(p, EmptyPool, amount)
<1>1. c \in ValidatorConfig
  BY DEF ValidatorConfig
<1>2. /\ p \notin InValidatorSet /\ p \notin CurrentValidators
      /\ config' \in [Pool -> ValidatorConfig]
      /\ \A r \in CurrentValidators :
           config'[r].validator_index = config[r].validator_index
  BY <1>1, NewConfig
<1>3. UNCHANGED <<queueVars, validator_perf>>
  OBVIOUS
<1>4. d \in StakePool /\ d.pending_active = 0
  <2>1. EmptyPool.pending_active = 0
    BY DEF EmptyPool
  <2> QED
    BY <1>2, <2>1, EmptyPoolType, DepositedFacts
<1>5. /\ pools' \in [Pool -> StakePool] /\ QueuesDisjoint'
      /\ IndicesMatchPerformance' /\ VotingPowerIsSnapshot'
      /\ PendingStakeOnlyWhileValidating'
  <2> HIDE DEF d
  <2>1. pools' = [pools EXCEPT ![p] = d]
    BY DEF d
  <2> QED
    BY <1>2, <1>3, <1>4, <2>1, PoolStep
<1>6. wallet' \in [Pool -> Nat] /\ pool_store' \in Int
  BY DEF IInv, TypeOK, PayIntoPool
<1>7. TypeOK'
  BY <1>2, <1>5, <1>6 DEF IInv, TypeOK, queueVars, powerVars, clockVars
<1>8. (InValidatorSet \subseteq registered)' /\ (circulating <= supply)'
  BY DEF IInv, InValidatorSet, CurrentValidators, Members, queueVars
<1> QED
  BY <1>5, <1>7, <1>8 DEF IInv

\* add_stake preserves the invariant: stake of a current validator is pending.
LEMMA AddStakeStep ==
  ASSUME IInv, NEW p \in Pool, NEW amount \in Nat, AddStake(p, amount)
  PROVE  IInv'
<1> USE DEF AddStake
<1> DEFINE d == Deposited(p, pools[p], amount)
<1>1. pools[p] \in StakePool
  BY DEF IInv, TypeOK
<1>2. /\ d \in StakePool
      /\ p \in CurrentValidators => d.active = pools[p].active
           /\ d.pending_inactive = pools[p].pending_inactive
      /\ p \notin CurrentValidators => d.pending_active = 0
  <2>1. p \notin CurrentValidators => pools[p].pending_active = 0
    BY DEF IInv, PendingStakeOnlyWhileValidating
  <2> QED
    BY <1>1, <2>1, DepositedFacts
<1>3. UNCHANGED <<queueVars, validator_perf, config>>
  OBVIOUS
<1>4. /\ pools' \in [Pool -> StakePool] /\ QueuesDisjoint'
      /\ IndicesMatchPerformance' /\ VotingPowerIsSnapshot'
      /\ PendingStakeOnlyWhileValidating'
  <2>1. pools' = [pools EXCEPT ![p] = d]
    OBVIOUS
  <2> HIDE DEF d, AddStake
  <2> QED
    BY <1>2, <1>3, <2>1, ConfigStays, PoolStep
<1>5. wallet' \in [Pool -> Nat] /\ pool_store' \in Int
  BY DEF IInv, TypeOK, PayIntoPool
<1>6. total_joining_power' \in Nat
  BY DEF IInv, TypeOK, VotingPowerIncrease
<1>7. TypeOK'
  BY <1>4, <1>5, <1>6 DEF IInv, TypeOK, queueVars, clockVars
<1>8. (InValidatorSet \subseteq registered)' /\ (circulating <= supply)'
  BY DEF IInv, InValidatorSet, CurrentValidators, Members, queueVars
<1> QED
  BY <1>4, <1>7, <1>8 DEF IInv

\* What the actions that only move stake within a pool have in common.
LEMMA OnlyPoolStep ==
  ASSUME IInv, NEW p \in Pool, NEW sp \in StakePool,
         pools' = [pools EXCEPT ![p] = sp],
         sp.active + sp.pending_inactive
           = pools[p].active + pools[p].pending_inactive,
         sp.pending_active = pools[p].pending_active,
         UNCHANGED <<registered, config, queueVars, powerVars, validator_perf,
                     fees_table, staking_config, moneyVars, clockVars>>
  PROVE  IInv'
<1>1. /\ pools' \in [Pool -> StakePool] /\ QueuesDisjoint'
      /\ IndicesMatchPerformance' /\ VotingPowerIsSnapshot'
      /\ PendingStakeOnlyWhileValidating'
  <2>1. p \notin CurrentValidators => sp.pending_active = 0
    BY DEF IInv, PendingStakeOnlyWhileValidating
  <2> QED
    BY <2>1, ConfigStays, PoolStep
<1>2. TypeOK'
  BY <1>1 DEF IInv, TypeOK, queueVars, powerVars, moneyVars, clockVars
<1>3. (InValidatorSet \subseteq registered)' /\ (circulating <= supply)'
  BY DEF IInv, InValidatorSet, CurrentValidators, Members, queueVars, moneyVars
<1> QED
  BY <1>1, <1>2, <1>3 DEF IInv

\* unlock preserves the invariant: voting power is active and pending_inactive
\* stake, and stake only moves from one to the other.
LEMMA UnlockStep ==
  ASSUME IInv, NEW p \in Pool, NEW amount \in Nat, Unlock(p, amount)
  PROVE  IInv'
<1> DEFINE a == AtMost(amount, pools[p].active)
           sp == [pools[p] EXCEPT !.active = @ - a, !.pending_inactive = @ + a]
<1>1. pools \in [Pool -> StakePool] /\ pools[p] \in StakePool
  BY DEF IInv, TypeOK
<1>2. a \in Nat /\ a <= pools[p].active
  BY <1>1 DEF AtMost, StakePool
<1>3. pools' = [pools EXCEPT ![p] = sp]
  BY <1>1 DEF Unlock
<1> HIDE DEF a
<1>4. /\ sp \in StakePool
      /\ sp.active + sp.pending_inactive
           = pools[p].active + pools[p].pending_inactive
      /\ sp.pending_active = pools[p].pending_active
  <2>1. /\ pools[p].active - a \in Nat
        /\ pools[p].pending_inactive + a \in Nat
        /\ pools[p].active \in Nat /\ pools[p].pending_inactive \in Nat
    BY <1>1, <1>2 DEF StakePool
  <2>2. /\ sp.active = pools[p].active - a
        /\ sp.pending_inactive = pools[p].pending_inactive + a
        /\ sp.pending_active = pools[p].pending_active
    BY <1>1 DEF StakePool
  <2>3. sp \in StakePool
    BY <1>1, <2>1 DEF StakePool
  <2> QED
    BY <1>2, <2>1, <2>2, <2>3
<1> HIDE DEF sp
<1> QED
  BY <1>3, <1>4, OnlyPoolStep DEF Unlock

\* reactivate_stake preserves the invariant, for the same reason.
LEMMA ReactivateStakeStep ==
  ASSUME IInv, NEW p \in Pool, NEW amount \in Nat, ReactivateStake(p, amount)
  PROVE  IInv'
<1> DEFINE a == AtMost(amount, pools[p].pending_inactive)
           sp == [pools[p] EXCEPT !.active = @ + a, !.pending_inactive = @ - a]
<1>1. pools \in [Pool -> StakePool] /\ pools[p] \in StakePool
  BY DEF IInv, TypeOK
<1>2. a \in Nat /\ a <= pools[p].pending_inactive
  BY <1>1 DEF AtMost, StakePool
<1>3. pools' = [pools EXCEPT ![p] = sp]
  BY <1>1 DEF ReactivateStake
<1> HIDE DEF a
<1>4. /\ sp \in StakePool
      /\ sp.active + sp.pending_inactive
           = pools[p].active + pools[p].pending_inactive
      /\ sp.pending_active = pools[p].pending_active
  <2>1. /\ pools[p].active + a \in Nat
        /\ pools[p].pending_inactive - a \in Nat
        /\ pools[p].active \in Nat /\ pools[p].pending_inactive \in Nat
    BY <1>1, <1>2 DEF StakePool
  <2>2. /\ sp.active = pools[p].active + a
        /\ sp.pending_inactive = pools[p].pending_inactive - a
        /\ sp.pending_active = pools[p].pending_active
    BY <1>1 DEF StakePool
  <2>3. sp \in StakePool
    BY <1>1, <2>1 DEF StakePool
  <2> QED
    BY <1>2, <2>1, <2>2, <2>3
<1> HIDE DEF sp
<1> QED
  BY <1>3, <1>4, OnlyPoolStep DEF ReactivateStake

\* now_seconds is a natural number.
LEMMA SecsType ==
  ASSUME NEW t \in Nat
  PROVE  Secs(t) \in Nat
<1>1. TicksPerSec \in Nat /\ TicksPerSec > 0
  BY BoundAssumption
<1> QED
  BY <1>1, NatQuotient DEF Secs

\* increase_lockup preserves the invariant.
LEMMA IncreaseLockupStep ==
  ASSUME IInv, NEW p \in Pool, IncreaseLockup(p)
  PROVE  IInv'
<1> DEFINE until == Secs(now) + staking_config.recurring_lockup_duration_secs
           sp == [pools[p] EXCEPT !.locked_until_secs = until]
<1>1. pools \in [Pool -> StakePool] /\ pools[p] \in StakePool
  BY DEF IInv, TypeOK
<1>2. until \in Nat
  <2>1. Secs(now) \in Nat
    BY SecsType DEF IInv, TypeOK
  <2>2. staking_config.recurring_lockup_duration_secs \in Nat
    BY ConfigAssumption DEF IInv, TypeOK, StakingConfig
  <2> QED
    BY <2>1, <2>2
<1>3. pools' = [pools EXCEPT ![p] = sp]
  BY <1>1 DEF IncreaseLockup
<1> HIDE DEF until
<1>4. /\ sp \in StakePool
      /\ sp.active + sp.pending_inactive
           = pools[p].active + pools[p].pending_inactive
      /\ sp.pending_active = pools[p].pending_active
  BY <1>1, <1>2 DEF StakePool
<1> HIDE DEF sp
<1> QED
  BY <1>3, <1>4, OnlyPoolStep DEF IncreaseLockup

\* A withdrawal may take the pending_inactive stake of a pool outside the set.
LEMMA WithdrawStep ==
  ASSUME IInv, NEW p \in Pool, NEW amount \in Nat, Withdraw(p, amount)
  PROVE  IInv'
<1> USE DEF Withdraw
<1> DEFINE r == Released(p)
           a == AtMost(amount, r.inactive)
           sp == [r EXCEPT !.inactive = @ - a]
<1>1. pools \in [Pool -> StakePool] /\ pools[p] \in StakePool
  BY DEF IInv, TypeOK
<1>2. /\ r \in StakePool
      /\ r.pending_active = pools[p].pending_active
      /\ p \in CurrentValidators => r = pools[p]
  <2> DEFINE o == pools[p]
             n == [o EXCEPT !.inactive = @ + o.pending_inactive,
                            !.pending_inactive = 0]
  <2>1. r = IF p \notin InValidatorSet /\ Secs(now) >= o.locked_until_secs
            THEN n ELSE o
    BY DEF Released
  <2>2. p \in CurrentValidators => p \in InValidatorSet
    BY DEF InValidatorSet
  <2>3. o \in StakePool
    BY <1>1
  <2> HIDE DEF o, r
  <2>4. o.inactive + o.pending_inactive \in Nat
    BY <2>3 DEF StakePool
  <2>5. n \in StakePool /\ n.pending_active = o.pending_active
    BY <2>3, <2>4 DEF StakePool
  <2> HIDE DEF n
  <2> QED
    BY <2>1, <2>2, <2>3, <2>5 DEF o
<1> HIDE DEF r
<1>3. a \in Nat /\ a <= r.inactive
  BY <1>2 DEF AtMost, StakePool
<1>4. /\ pools' = [pools EXCEPT ![p] = sp]
      /\ pool_store' = pool_store - a
      /\ wallet' = [wallet EXCEPT ![p] = @ + a]
  BY DEF r
<1> HIDE DEF a, Withdraw
<1>5. /\ sp \in StakePool
      /\ sp.pending_active = r.pending_active /\ sp.active = r.active
      /\ sp.pending_inactive = r.pending_inactive
  BY <1>2, <1>3 DEF StakePool
<1>6. p \notin CurrentValidators => sp.pending_active = 0
  BY <1>2, <1>5 DEF IInv, PendingStakeOnlyWhileValidating
<1> HIDE DEF sp
<1>7. UNCHANGED <<registered, config, queueVars, powerVars, validator_perf,
                  fees_table, staking_config, circulating, supply, clockVars>>
  BY DEF Withdraw
<1>8. /\ pools' \in [Pool -> StakePool] /\ QueuesDisjoint'
      /\ IndicesMatchPerformance' /\ VotingPowerIsSnapshot'
      /\ PendingStakeOnlyWhileValidating'
  BY <1>2, <1>4, <1>5, <1>6, <1>7, ConfigStays, PoolStep
<1>9. wallet' \in [Pool -> Nat] /\ pool_store' \in Int
  BY <1>3, <1>4 DEF IInv, TypeOK
<1>10. TypeOK'
  BY <1>7, <1>8, <1>9 DEF IInv, TypeOK, queueVars, powerVars, clockVars
<1>11. (InValidatorSet \subseteq registered)' /\ (circulating <= supply)'
  BY <1>7 DEF IInv, InValidatorSet, CurrentValidators, Members, queueVars
<1> QED
  BY <1>8, <1>10, <1>11 DEF IInv

\* rotate_consensus_key preserves the invariant: indices stay.
LEMMA RotateConsensusKeyStep ==
  ASSUME IInv, NEW p \in Pool, NEW key \in Key, RotateConsensusKey(p, key)
  PROVE  IInv'
<1> USE DEF RotateConsensusKey
<1>1. /\ pools \in [Pool -> StakePool] /\ pools[p] \in StakePool
      /\ config \in [Pool -> ValidatorConfig]
  BY DEF IInv, TypeOK
<1>2. /\ config' \in [Pool -> ValidatorConfig]
      /\ \A r \in Pool :
           config'[r].validator_index = config[r].validator_index
  BY <1>1 DEF ValidatorConfig
<1>3. CurrentValidators \subseteq Pool
  BY MembersType DEF IInv, TypeOK, CurrentValidators
<1>4. /\ pools' = [pools EXCEPT ![p] = pools[p]]
      /\ UNCHANGED <<queueVars, validator_perf>>
  BY <1>1
<1>5. p \notin CurrentValidators => pools[p].pending_active = 0
  BY DEF IInv, PendingStakeOnlyWhileValidating
<1>6. /\ pools' \in [Pool -> StakePool] /\ QueuesDisjoint'
      /\ IndicesMatchPerformance' /\ VotingPowerIsSnapshot'
      /\ PendingStakeOnlyWhileValidating'
  <2> HIDE DEF RotateConsensusKey
  <2> QED
    BY <1>1, <1>2, <1>3, <1>4, <1>5, PoolStep
<1>7. TypeOK'
  BY <1>2, <1>6 DEF IInv, TypeOK, queueVars, powerVars, moneyVars, clockVars
<1>8. (InValidatorSet \subseteq registered)' /\ (circulating <= supply)'
  BY DEF IInv, InValidatorSet, CurrentValidators, Members, queueVars, moneyVars
<1> QED
  BY <1>6, <1>7, <1>8 DEF IInv

-----------------------------------------------------------------------------
(* Steps that reorder the queues *)

\* The queues of the current validators are separate.
LEMMA SeparateNow ==
  ASSUME IInv
  PROVE  Separate(active_validators, pending_inactive)
BY DEF IInv, TypeOK, QueuesDisjoint, Separate

\* Moving validators from active_validators to pending_inactive.
LEMMA SetStep ==
  ASSUME IInv, Separate(active_validators', pending_inactive'),
         SameEntries(active_validators, pending_inactive,
                     active_validators', pending_inactive'),
         UNCHANGED <<registered, pools, config, pending_active,
                     validator_perf>>
  PROVE  /\ QueuesDisjoint' /\ IndicesMatchPerformance'
         /\ VotingPowerIsSnapshot' /\ PendingStakeOnlyWhileValidating'
         /\ (InValidatorSet \subseteq registered)'
<1>1. CurrentValidators' = CurrentValidators
  BY SameMembers DEF CurrentValidators
<1>2. InValidatorSet' = InValidatorSet
  BY <1>1 DEF InValidatorSet, Members
<1>3. QueuesDisjoint'
  <2>1. /\ NoDuplicates(active_validators')
        /\ NoDuplicates(pending_inactive')
        /\ Members(active_validators') \cap Members(pending_inactive') = {}
    BY DEF Separate
  <2>2. NoDuplicates(pending_active')
    BY DEF IInv, QueuesDisjoint, NoDuplicates
  <2>3. CurrentValidators' \cap Members(pending_active') = {}
    BY <1>1 DEF IInv, QueuesDisjoint, Members
  <2> QED
    BY <2>1, <2>2, <2>3 DEF QueuesDisjoint
<1> DEFINE E == Entries(active_validators) \cup Entries(pending_inactive)
<1>4. E' = E
  BY DEF SameEntries
<1>5. \A e \in E : e.config.validator_index = config[e.addr].validator_index
  BY DEF IInv, IndicesMatchPerformance, Entries
<1>6. \A e \in E : e.config.validator_index < Len(validator_perf)
  BY DEF IInv, IndicesMatchPerformance, Entries
<1>7. \A e \in E : e.voting_power =
                     pools[e.addr].active + pools[e.addr].pending_inactive
  BY DEF IInv, VotingPowerIsSnapshot, Entries
<1>8. \A q \in {active_validators', pending_inactive'} : \A i \in DOMAIN q :
        q[i] \in E
  BY <1>4 DEF Entries
<1> HIDE DEF E
<1>9. IndicesMatchPerformance'
  <2>1. Len(validator_perf)'
          = Len(active_validators') + Len(pending_inactive')
    BY DEF IInv, IndicesMatchPerformance, SameEntries
  <2>2. \A q \in {active_validators', pending_inactive'} : \A i \in DOMAIN q :
          /\ q[i].config.validator_index
               = config'[q[i].addr].validator_index
          /\ q[i].config.validator_index < Len(validator_perf')
    BY <1>5, <1>6, <1>8
  <2>3. \A p, r \in CurrentValidators' :
          config'[p].validator_index = config'[r].validator_index => p = r
    BY <1>1 DEF IInv, IndicesMatchPerformance
  <2> QED
    BY <2>1, <2>2, <2>3 DEF IndicesMatchPerformance
<1>10. VotingPowerIsSnapshot'
  BY <1>7, <1>8 DEF VotingPowerIsSnapshot
<1>11. PendingStakeOnlyWhileValidating'
  BY <1>1 DEF IInv, PendingStakeOnlyWhileValidating
<1> QED
  BY <1>2, <1>3, <1>9, <1>10, <1>11 DEF IInv

\* A step that only changes the queue of candidates.
LEMMA CandidatesStep ==
  ASSUME IInv, NoDuplicates(pending_active'),
         CurrentValidators \cap Members(pending_active') = {},
         Members(pending_active') \subseteq registered,
         UNCHANGED <<registered, pools, config, active_validators,
                     pending_inactive, validator_perf>>
  PROVE  /\ QueuesDisjoint' /\ IndicesMatchPerformance'
         /\ VotingPowerIsSnapshot' /\ PendingStakeOnlyWhileValidating'
         /\ (InValidatorSet \subseteq registered)'
<1>1. CurrentValidators' = CurrentValidators
  BY DEF CurrentValidators, Members
<1>2. QueuesDisjoint'
  <2>1. /\ NoDuplicates(active_validators')
        /\ NoDuplicates(pending_inactive')
        /\ Members(active_validators') \cap Members(pending_inactive') = {}
    BY DEF IInv, QueuesDisjoint, NoDuplicates, Members
  <2> QED
    BY <1>1, <2>1 DEF QueuesDisjoint
<1>3. IndicesMatchPerformance'
  BY <1>1 DEF IInv, IndicesMatchPerformance
<1>4. VotingPowerIsSnapshot'
  BY DEF IInv, VotingPowerIsSnapshot
<1>5. PendingStakeOnlyWhileValidating'
  BY <1>1 DEF IInv, PendingStakeOnlyWhileValidating
<1>6. (InValidatorSet \subseteq registered)'
  BY <1>1 DEF IInv, InValidatorSet
<1> QED
  BY <1>2, <1>3, <1>4, <1>5, <1>6

\* The next voting power of a pool is a natural number.
LEMMA NextEpochVotingPowerType ==
  ASSUME NEW sp \in StakePool
  PROVE  NextEpochVotingPower(sp) \in Nat
BY DEF NextEpochVotingPower, StakePool

\* join_validator_set preserves the invariant: only a pool in no queue joins.
LEMMA JoinValidatorSetStep ==
  ASSUME IInv, NEW p \in Pool, JoinValidatorSet(p)
  PROVE  IInv'
<1> USE DEF JoinValidatorSet
<1> DEFINE e == ValidatorInfoOf(p, pools[p], config[p])
<1>1. /\ pools[p] \in StakePool /\ config[p] \in ValidatorConfig
      /\ pending_active \in Seq(ValidatorInfo)
  BY DEF IInv, TypeOK
<1>2. e \in ValidatorInfo /\ e.addr = p
  BY <1>1, NextEpochVotingPowerType DEF ValidatorInfoOf, ValidatorInfo
<1>3. pending_active' = Append(pending_active, e)
  OBVIOUS
<1> HIDE DEF e
<1>4. p \notin CurrentValidators /\ p \notin Members(pending_active)
  BY DEF InValidatorSet
<1>5. /\ NoDuplicates(pending_active')
      /\ Members(pending_active') = Members(pending_active) \cup {p}
      /\ pending_active' \in Seq(ValidatorInfo)
  BY <1>1, <1>2, <1>3, <1>4, AppendNoDuplicates, AppendFacts
  DEF IInv, QueuesDisjoint
<1>6. /\ CurrentValidators \cap Members(pending_active') = {}
      /\ Members(pending_active') \subseteq registered
  BY <1>4, <1>5 DEF IInv, QueuesDisjoint, InValidatorSet
<1>7. UNCHANGED <<registered, pools, config, active_validators,
                  pending_inactive, validator_perf>>
  OBVIOUS
<1>8. /\ QueuesDisjoint' /\ IndicesMatchPerformance'
      /\ VotingPowerIsSnapshot' /\ PendingStakeOnlyWhileValidating'
      /\ (InValidatorSet \subseteq registered)'
  BY <1>5, <1>6, <1>7, CandidatesStep
<1>9. total_joining_power' \in Nat
  BY <1>1, NextEpochVotingPowerType DEF IInv, TypeOK, VotingPowerIncrease
<1>10. TypeOK'
  BY <1>5, <1>7, <1>9 DEF IInv, TypeOK, moneyVars, clockVars
<1>11. (circulating <= supply)'
  BY DEF IInv, moneyVars
<1> QED
  BY <1>8, <1>10, <1>11 DEF IInv

\* A candidate that leaves preserves the invariant.
LEMMA LeavePendingActiveStep ==
  ASSUME IInv, NEW p \in Pool, LeaveValidatorSet(p), LeavePendingActive(p)
  PROVE  IInv'
<1> DEFINE i == IndexOf(pending_active, p)
<1>1. pending_active \in Seq(ValidatorInfo) /\ pools[p] \in StakePool
  BY DEF IInv, TypeOK
<1>2. i \in DOMAIN pending_active
  BY IndexOfMember DEF LeavePendingActive
<1>3. pending_active' = SwapRemove(pending_active, i)
  BY DEF LeavePendingActive
<1> HIDE DEF i
<1>4. /\ NoDuplicates(pending_active')
      /\ Members(pending_active') \subseteq Members(pending_active)
      /\ pending_active' \in Seq(ValidatorInfo)
  BY <1>1, <1>2, <1>3, SwapRemoveNoDuplicates, SwapRemoveFacts
  DEF IInv, QueuesDisjoint
<1>5. /\ CurrentValidators \cap Members(pending_active') = {}
      /\ Members(pending_active') \subseteq registered
  BY <1>4 DEF IInv, QueuesDisjoint, InValidatorSet
<1>6. UNCHANGED <<registered, pools, config, active_validators,
                  pending_inactive, validator_perf, total_voting_power,
                  fees_table, staking_config, moneyVars, clockVars>>
  BY DEF LeaveValidatorSet, LeavePendingActive
<1>7. /\ QueuesDisjoint' /\ IndicesMatchPerformance'
      /\ VotingPowerIsSnapshot' /\ PendingStakeOnlyWhileValidating'
      /\ (InValidatorSet \subseteq registered)'
  BY <1>4, <1>5, <1>6, CandidatesStep
<1>8. total_joining_power' \in Nat
  BY <1>1, NextEpochVotingPowerType DEF IInv, TypeOK, LeavePendingActive
<1>9. TypeOK'
  BY <1>4, <1>6, <1>8 DEF IInv, TypeOK, moneyVars, clockVars
<1>10. (circulating <= supply)'
  BY <1>6 DEF IInv, moneyVars
<1> QED
  BY <1>7, <1>9, <1>10 DEF IInv

\* A validator that leaves preserves the invariant: its entry moves.
LEMMA LeaveActiveStep ==
  ASSUME IInv, NEW p \in Pool, LeaveValidatorSet(p), LeaveActive(p)
  PROVE  IInv'
<1> DEFINE i == IndexOf(active_validators, p)
<1>1. i \in DOMAIN active_validators
  BY IndexOfMember DEF LeaveActive
<1>2. /\ active_validators' = SwapRemove(active_validators, i)
      /\ pending_inactive' = Append(pending_inactive, active_validators[i])
  BY DEF LeaveActive
<1> HIDE DEF i
<1>3. /\ Separate(active_validators', pending_inactive')
      /\ SameEntries(active_validators, pending_inactive,
                     active_validators', pending_inactive')
  BY <1>1, <1>2, SeparateNow, MoveEntry
<1>4. UNCHANGED <<registered, pools, config, pending_active, powerVars,
                  validator_perf, fees_table, staking_config, moneyVars,
                  clockVars>>
  BY DEF LeaveValidatorSet, LeaveActive, powerVars
<1>5. /\ QueuesDisjoint' /\ IndicesMatchPerformance'
      /\ VotingPowerIsSnapshot' /\ PendingStakeOnlyWhileValidating'
      /\ (InValidatorSet \subseteq registered)'
  BY <1>3, <1>4, SetStep
<1>6. TypeOK'
  BY <1>3, <1>4 DEF IInv, TypeOK, Separate, powerVars, moneyVars, clockVars
<1>7. (circulating <= supply)'
  BY <1>4 DEF IInv, moneyVars
<1> QED
  BY <1>5, <1>6, <1>7 DEF IInv

\* remove_validators preserves the invariant, whatever list it is given.
LEMMA RemoveValidatorsStep ==
  ASSUME IInv, NEW list \in Seq(Pool), RemoveValidators(list)
  PROVE  IInv'
<1>1. Len(list) \in Nat
  BY LenProperties
<1>2. /\ Separate(active_validators', pending_inactive')
      /\ SameEntries(active_validators, pending_inactive,
                     active_validators', pending_inactive')
  BY <1>1, SeparateNow, RemoveValidatorsFacts
<1>3. UNCHANGED <<registered, pools, config, pending_active, powerVars,
                  validator_perf, fees_table, staking_config, moneyVars,
                  clockVars>>
  BY DEF RemoveValidators
<1>4. /\ QueuesDisjoint' /\ IndicesMatchPerformance'
      /\ VotingPowerIsSnapshot' /\ PendingStakeOnlyWhileValidating'
      /\ (InValidatorSet \subseteq registered)'
  BY <1>2, <1>3, SetStep
<1>5. TypeOK'
  BY <1>2, <1>3 DEF IInv, TypeOK, Separate, powerVars, moneyVars, clockVars
<1>6. (circulating <= supply)'
  BY <1>3 DEF IInv, moneyVars
<1> QED
  BY <1>4, <1>5, <1>6 DEF IInv

\* A new StakingConfig preserves the invariant.
LEMMA UpdateStakingConfigStep ==
  ASSUME IInv, NEW c \in Configs, UpdateStakingConfig(c)
  PROVE  IInv'
<1>1. UNCHANGED <<registered, pools, config, queueVars, powerVars,
                  validator_perf, fees_table, moneyVars, clockVars>>
  BY DEF UpdateStakingConfig
<1>2. TypeOK'
  BY <1>1 DEF UpdateStakingConfig, IInv, TypeOK, queueVars, powerVars,
              moneyVars, clockVars
<1>3. /\ QueuesDisjoint' /\ IndicesMatchPerformance'
      /\ VotingPowerIsSnapshot' /\ PendingStakeOnlyWhileValidating'
      /\ (InValidatorSet \subseteq registered)'
  BY <1>1, SeparateNow, SetStep DEF SameEntries, queueVars
<1>4. (circulating <= supply)'
  BY <1>1 DEF IInv, moneyVars
<1> QED
  BY <1>2, <1>3, <1>4 DEF IInv

-----------------------------------------------------------------------------
(* The epoch change *)

\* What a validator's two buckets earn.
Rewards == [active : Nat, pending_inactive : Nat]

\* A pool with its rewards is a pool.
LEMMA AddType ==
  ASSUME NEW sp \in StakePool, NEW reward \in Rewards
  PROVE  Add(sp, reward) \in StakePool
<1>1. /\ ValidatorShare(reward.active) \in Nat
      /\ ValidatorShare(reward.pending_inactive) \in Nat
  BY ValidatorShareType DEF Rewards
<1>2. /\ sp.active + ValidatorShare(reward.active) \in Nat
      /\ sp.pending_inactive + ValidatorShare(reward.pending_inactive) \in Nat
  BY <1>1 DEF StakePool
<1> QED
  BY <1>2 DEF Add, StakePool

\* update_stake_pool leaves a pool without pending_active stake.
LEMMA SettleType ==
  ASSUME NEW sp \in StakePool, NEW fee \in Nat, NEW start
  PROVE  Settle(sp, fee, start) \in StakePool
         /\ Settle(sp, fee, start).pending_active = 0
<1> DEFINE a == sp.active + sp.pending_active + fee
           i == sp.inactive + sp.pending_inactive
           kept == [sp EXCEPT !.active = a, !.pending_active = 0]
           released == [kept EXCEPT !.pending_inactive = 0, !.inactive = i]
<1>1. a \in Nat /\ i \in Nat
  BY DEF StakePool
<1>2. Settle(sp, fee, start) = kept \/ Settle(sp, fee, start) = released
  BY DEF Settle, StakePool
<1> HIDE DEF a, i
<1>3. kept \in StakePool /\ kept.pending_active = 0
  BY <1>1 DEF StakePool
<1> HIDE DEF kept
<1>4. released \in StakePool /\ released.pending_active = 0
  BY <1>1, <1>3 DEF StakePool
<1> HIDE DEF released
<1> QED
  BY <1>2, <1>3, <1>4

\* A renewed lockup changes no stake.
LEMMA RenewType ==
  ASSUME NEW sp \in StakePool, NEW start, NEW secs \in Nat,
         staking_config \in StakingConfig
  PROVE  LET r == Renew(sp, start, secs) IN
           /\ r \in StakePool
           /\ r.active = sp.active /\ r.pending_active = sp.pending_active
           /\ r.pending_inactive = sp.pending_inactive
BY DEF Renew, StakePool, StakingConfig

\* The reversed candidates follow the active validators.
LEMMA AppendPoppedFacts ==
  ASSUME NEW a \in Seq(ValidatorInfo), NEW b \in Seq(ValidatorInfo),
         NoDuplicates(a), NoDuplicates(b), Members(a) \cap Members(b) = {}
  PROVE  LET c == AppendPopped(a, b) IN
           /\ Len(c) \in Nat /\ DOMAIN c = 1..Len(c)
           /\ \A i \in 1..Len(c) :
                c[i].addr \in Members(a) \cup Members(b)
           /\ \A i, j \in 1..Len(c) : c[i].addr = c[j].addr => i = j
<1> DEFINE c == AppendPopped(a, b)
           n == Len(a) + Len(b)
<1>1. /\ Len(a) \in Nat /\ DOMAIN a = 1..Len(a)
      /\ Len(b) \in Nat /\ DOMAIN b = 1..Len(b)
      /\ n \in Nat
      /\ \A i \in 1..Len(a) : a[i] \in ValidatorInfo
      /\ \A i \in 1..Len(b) : b[i] \in ValidatorInfo
  BY LenProperties, ElementOfSeq
<1>2. /\ DOMAIN c = 1..n
      /\ \A i \in 1..n : c[i] = IF i <= Len(a) THEN a[i] ELSE b[n + 1 - i]
  BY DEF AppendPopped
<1>3. \A i \in 1..n : ~ (i <= Len(a)) => n + 1 - i \in 1..Len(b)
  BY <1>1
<1>4. c \in Seq(ValidatorInfo)
  <2>1. \A i \in 1..n : c[i] \in ValidatorInfo
    BY <1>1, <1>2, <1>3
  <2>2. c \in [1..n -> ValidatorInfo]
    BY <2>1 DEF AppendPopped
  <2> QED
    BY <1>1, <2>2, SeqDef
<1>5. Len(c) = n
  <2>1. Len(c) \in Nat /\ DOMAIN c = 1..Len(c)
    BY <1>4, LenProperties
  <2> HIDE DEF c
  <2> QED
    BY <1>1, <1>2, <2>1, SameInterval
<1> HIDE DEF c
<1>6. \A i \in 1..n : i <= Len(a) =>
        i \in DOMAIN a /\ c[i].addr = a[i].addr /\ a[i].addr \in Members(a)
  BY <1>1, <1>2 DEF Members
<1>7. \A i \in 1..n : ~ (i <= Len(a)) =>
        /\ n + 1 - i \in DOMAIN b /\ c[i].addr = b[n + 1 - i].addr
        /\ b[n + 1 - i].addr \in Members(b)
  BY <1>1, <1>2, <1>3 DEF Members
<1>8. \A i \in 1..n : c[i].addr \in Members(a) \cup Members(b)
  BY <1>6, <1>7
<1>9. ASSUME NEW i \in 1..n, NEW j \in 1..n, c[i].addr = c[j].addr
      PROVE  i = j
  <2>1. CASE i <= Len(a) /\ j <= Len(a)
    BY <1>6, <1>9, <2>1 DEF NoDuplicates
  <2>2. CASE ~ (i <= Len(a)) /\ ~ (j <= Len(a))
    <3> DEFINE k == n + 1 - i
               m == n + 1 - j
    <3>1. /\ k \in DOMAIN b /\ c[i].addr = b[k].addr
          /\ m \in DOMAIN b /\ c[j].addr = b[m].addr
      BY <1>7, <2>2
    <3>2. k = m
      <4> HIDE DEF k, m
      <4> QED
        BY <1>9, <3>1 DEF NoDuplicates
    <3> QED
      BY <1>1, <3>2
  <2>3. CASE i <= Len(a) /\ ~ (j <= Len(a))
    BY <1>6, <1>7, <1>9, <2>3
  <2>4. CASE ~ (i <= Len(a)) /\ j <= Len(a)
    BY <1>6, <1>7, <1>9, <2>4
  <2> QED
    BY <2>1, <2>2, <2>3, <2>4
<1> QED
  BY <1>1, <1>2, <1>5, <1>8, <1>9 DEF c

\* Current validators are pools, and finitely many.
LEMMA CurrentFacts ==
  ASSUME IInv
  PROVE  /\ CurrentValidators \subseteq Pool
         /\ IsFiniteSet(CurrentValidators)
         /\ \A p \in CurrentValidators :
              config[p].validator_index + 1 \in 1..Len(validator_perf)
<1>1. CurrentValidators \subseteq Pool
  BY MembersType DEF IInv, TypeOK, CurrentValidators
<1>2. IsFiniteSet(CurrentValidators)
  BY <1>1, PoolAssumption, FS_Subset
<1>3. ASSUME NEW p \in CurrentValidators
      PROVE  config[p].validator_index + 1 \in 1..Len(validator_perf)
  <2>1. PICK q \in {active_validators, pending_inactive} :
          \E i \in DOMAIN q : q[i].addr = p
    BY DEF CurrentValidators, Members
  <2>2. config[p].validator_index < Len(validator_perf)
    BY <2>1 DEF IInv, IndicesMatchPerformance
  <2>3. config[p].validator_index \in Nat /\ Len(validator_perf) \in Nat
    BY <1>1, LenProperties DEF IInv, TypeOK, ValidatorConfig
  <2> QED
    BY <2>2, <2>3
<1> QED
  BY <1>1, <1>2, <1>3

\* The stake that rewards are shared by is a natural number.
LEMMA TotalStakeType ==
  ASSUME IInv
  PROVE  TotalStake \in Nat
<1> DEFINE f == [p \in CurrentValidators |->
                   pools[p].active + pools[p].pending_inactive]
<1>1. \A p \in CurrentValidators :
        pools[p].active + pools[p].pending_inactive \in Nat
  <2>1. \A p \in Pool : pools[p].active + pools[p].pending_inactive \in Nat
    BY DEF IInv, TypeOK, StakePool
  <2>2. CurrentValidators \subseteq Pool
    BY CurrentFacts
  <2> QED
    BY <2>1, <2>2
<1>2. f \in [CurrentValidators -> Nat]
  BY <1>1
<1> QED
  BY <1>2, CurrentFacts, TotalNat DEF TotalStake

\* The rewards of a current validator, and its pool after it was paid.
RewardOf(p, perf, sup) ==
  [active |-> RewardsAmount(pools[p].active, TotalStake,
                perf[config[p].validator_index + 1], sup),
   pending_inactive |-> RewardsAmount(pools[p].pending_inactive, TotalStake,
                perf[config[p].validator_index + 1], sup)]

\* The rewards of a current validator are natural numbers: its index finds a
\* performance record.
LEMMA RewardOfType ==
  ASSUME IInv, NEW perf \in Seq(Performance),
         Len(perf) = Len(validator_perf), NEW sup \in Nat,
         NEW p \in CurrentValidators
  PROVE  /\ RewardOf(p, perf, sup) \in Rewards
         /\ ValidatorShare(RewardOf(p, perf, sup).active)
              + ValidatorShare(RewardOf(p, perf, sup).pending_inactive) \in Nat
         /\ OtherAccountsShare(RewardOf(p, perf, sup).active)
              + OtherAccountsShare(RewardOf(p, perf, sup).pending_inactive)
                  \in Nat
<1>1. /\ pools[p].active \in Nat /\ pools[p].pending_inactive \in Nat
      /\ staking_config \in StakingConfig
  BY CurrentFacts, ConfigAssumption DEF IInv, TypeOK, StakePool
<1>2. perf[config[p].validator_index + 1] \in Performance
  BY CurrentFacts, ElementOfSeq
<1>3. RewardOf(p, perf, sup) \in Rewards
  BY <1>1, <1>2, TotalStakeType, RewardsAmountType DEF RewardOf, Rewards
<1>4. /\ RewardOf(p, perf, sup).active \in Nat
      /\ RewardOf(p, perf, sup).pending_inactive \in Nat
  BY <1>3 DEF Rewards
<1>5. /\ ValidatorShare(RewardOf(p, perf, sup).active) \in Nat
      /\ ValidatorShare(RewardOf(p, perf, sup).pending_inactive) \in Nat
      /\ OtherAccountsShare(RewardOf(p, perf, sup).active) \in Nat
      /\ OtherAccountsShare(RewardOf(p, perf, sup).pending_inactive) \in Nat
  BY <1>4, ValidatorShareType, OtherAccountsShareType
<1> QED
  BY <1>3, <1>5

\* What an epoch change leaves behind, from any state that satisfies IInv.
LEMMA OnNewEpochFacts ==
  ASSUME IInv, NEW perf \in Seq(Performance),
         Len(perf) = Len(validator_perf),
         NEW fees \in [Pool -> Nat], NEW store \in Int,
         NEW sup \in Nat, NEW circ \in Nat, circ <= sup,
         NEW start \in Nat, NEW secs \in Nat,
         OnNewEpoch(perf, fees, store, sup, circ, start, secs)
  PROVE  /\ pools' \in [Pool -> StakePool]
         /\ \A p \in Pool \ CurrentValidators' : pools'[p].pending_active = 0
         /\ config' \in [Pool -> ValidatorConfig]
         /\ active_validators' \in Seq(ValidatorInfo)
         /\ pending_inactive' = <<>> /\ pending_active' = <<>>
         /\ total_voting_power' \in Nat /\ total_joining_power' \in Nat
         /\ validator_perf' \in Seq(Performance)
         /\ fees_table' \in [Pool -> Nat]
         /\ pool_store' \in Int /\ circulating' \in Nat /\ supply' \in Int
         /\ circulating' <= supply'
         /\ NoDuplicates(active_validators')
         /\ Members(active_validators') \subseteq InValidatorSet
         /\ Len(validator_perf') = Len(active_validators')
         /\ \A i \in DOMAIN active_validators' :
              LET e == active_validators'[i] IN
                /\ e.config.validator_index = i - 1
                /\ e.config.validator_index = config'[e.addr].validator_index
                /\ e.voting_power =
                     pools'[e.addr].active + pools'[e.addr].pending_inactive
<1> DEFINE
      reward == [p \in CurrentValidators |-> RewardOf(p, perf, sup)]
      minted == Total([p \in CurrentValidators |->
        ValidatorShare(reward[p].active)
        + ValidatorShare(reward[p].pending_inactive)])
      shared == Total([p \in CurrentValidators |->
        OtherAccountsShare(reward[p].active)
        + OtherAccountsShare(reward[p].pending_inactive)])
      settled == [p \in Pool |->
        IF p \in CurrentValidators
        THEN Settle(Add(pools[p], reward[p]),
                    IF CollectFees THEN fees[p] ELSE 0, start)
        ELSE pools[p]]
      cand == AppendPopped(active_validators, pending_active)
<1> DEFINE
      addr(keep, i) == cand[keep[i]].addr
      indexed(keep, i) ==
        [consensus_pubkey |-> config[addr(keep, i)].consensus_pubkey,
         validator_index |-> i - 1]
      next(n, keep) == {addr(keep, i) : i \in 1..n}
      Result(n, keep) ==
        /\ \A i, j \in DOMAIN keep : i < j => keep[i] < keep[j]
        /\ active_validators' = [i \in 1..n |->
             ValidatorInfoOf(addr(keep, i), settled[addr(keep, i)],
                             [k \in 1..n |-> indexed(keep, k)][i])]
        /\ config' = [p \in Pool |->
             IF p \in next(n, keep)
             THEN [i \in 1..n |-> indexed(keep, i)]
                    [CHOOSE i \in 1..n : addr(keep, i) = p]
             ELSE config[p]]
        /\ pools' = [p \in Pool |->
             IF p \in next(n, keep) THEN Renew(settled[p], start, secs)
                                    ELSE settled[p]]
        /\ total_voting_power' = Total([i \in 1..n |->
             NextEpochVotingPower(settled[addr(keep, i)])])
        /\ validator_perf' = [i \in 1..n |->
             [successful_proposals |-> 0, failed_proposals |-> 0]]
<1>1. \E n \in 0..Len(cand) : \E keep \in [1..n -> 1..Len(cand)] :
        Result(n, keep)
  BY ZenonT(60) DEF OnNewEpoch, Picks, RewardOf
<1>2. PICK n \in 0..Len(cand) : \E keep \in [1..n -> 1..Len(cand)] :
        Result(n, keep)
  BY <1>1
<1>3. PICK keep \in [1..n -> 1..Len(cand)] : Result(n, keep)
  BY <1>2
<1> DEFINE a(i) == addr(keep, i)
           x(i) == indexed(keep, i)
           N == next(n, keep)
<1>4. n \in Nat
  OBVIOUS
<1>5. \A p \in CurrentValidators :
        /\ reward[p] \in Rewards
        /\ ValidatorShare(reward[p].active)
             + ValidatorShare(reward[p].pending_inactive) \in Nat
        /\ OtherAccountsShare(reward[p].active)
             + OtherAccountsShare(reward[p].pending_inactive) \in Nat
  BY RewardOfType
<1>6. minted \in Nat /\ shared \in Nat
  <2> HIDE DEF reward
  <2>1. [p \in CurrentValidators |-> ValidatorShare(reward[p].active)
           + ValidatorShare(reward[p].pending_inactive)]
          \in [CurrentValidators -> Nat]
    BY <1>5
  <2>2. [p \in CurrentValidators |-> OtherAccountsShare(reward[p].active)
           + OtherAccountsShare(reward[p].pending_inactive)]
          \in [CurrentValidators -> Nat]
    BY <1>5
  <2> QED
    BY <2>1, <2>2, CurrentFacts, TotalNat
<1>7. /\ settled \in [Pool -> StakePool]
      /\ \A p \in Pool : settled[p].pending_active = 0
  <2> HIDE DEF reward
  <2>1. ASSUME NEW p \in Pool
        PROVE  settled[p] \in StakePool /\ settled[p].pending_active = 0
    <3>1. pools[p] \in StakePool
      BY DEF IInv, TypeOK
    <3>2. CASE p \in CurrentValidators
      <4>1. Add(pools[p], reward[p]) \in StakePool
        BY <1>5, <3>1, <3>2, AddType
      <4>2. (IF CollectFees THEN fees[p] ELSE 0) \in Nat
        OBVIOUS
      <4>3. settled[p] = Settle(Add(pools[p], reward[p]),
                                IF CollectFees THEN fees[p] ELSE 0, start)
        BY <3>2
      <4> QED
        BY <4>1, <4>2, <4>3, SettleType
    <3>3. CASE p \notin CurrentValidators
      BY <3>1, <3>3 DEF IInv, PendingStakeOnlyWhileValidating
    <3> QED
      BY <3>2, <3>3
  <2>2. settled = [p \in Pool |-> settled[p]]
    OBVIOUS
  <2> HIDE DEF settled
  <2> QED
    BY <2>1, <2>2
<1>8. /\ Len(cand) \in Nat
      /\ \A i \in 1..Len(cand) : cand[i].addr \in InValidatorSet
      /\ \A i, j \in 1..Len(cand) : cand[i].addr = cand[j].addr => i = j
  <2>1. /\ active_validators \in Seq(ValidatorInfo)
        /\ pending_active \in Seq(ValidatorInfo)
        /\ NoDuplicates(active_validators) /\ NoDuplicates(pending_active)
        /\ Members(active_validators) \cap Members(pending_active) = {}
    BY DEF IInv, TypeOK, QueuesDisjoint, CurrentValidators
  <2>2. Members(active_validators) \cup Members(pending_active)
          \subseteq InValidatorSet
    BY DEF InValidatorSet, CurrentValidators
  <2> QED
    BY <2>1, <2>2, AppendPoppedFacts
<1>9. InValidatorSet \subseteq Pool
  BY MembersType DEF IInv, TypeOK, InValidatorSet, CurrentValidators
<1> HIDE DEF settled, cand, reward
<1>10. \A i \in 1..n : a(i) \in InValidatorSet /\ a(i) \in Pool
  BY <1>8, <1>9
<1>11. \A i, j \in 1..n : a(i) = a(j) => i = j
  <2>1. ASSUME NEW i \in 1..n, NEW j \in 1..n, a(i) = a(j) PROVE i = j
    <3>1. keep[i] = keep[j]
      BY <1>8, <2>1
    <3>2. ~ (i < j) /\ ~ (j < i)
      <4>1. /\ i \in DOMAIN keep /\ j \in DOMAIN keep
            /\ keep[i] \in Nat /\ keep[j] \in Nat
        OBVIOUS
      <4>2. /\ i < j => keep[i] < keep[j]
            /\ j < i => keep[j] < keep[i]
        BY <1>3, <4>1
      <4> QED
        BY <3>1, <4>1, <4>2
    <3> QED
      BY <3>2
  <2> QED
    BY <2>1, Zenon
<1>12. \A i \in 1..n : x(i) \in ValidatorConfig
  <2>1. \A p \in Pool : config[p].consensus_pubkey \in Key \cup {NoKey}
    BY DEF IInv, TypeOK, ValidatorConfig
  <2>2. \A i \in 1..n : i - 1 \in Nat
    OBVIOUS
  <2> QED
    BY <1>10, <2>1, <2>2 DEF ValidatorConfig
<1>13. \A i \in 1..n : config'[a(i)] = x(i)
  <2> SUFFICES ASSUME NEW i \in 1..n PROVE config'[a(i)] = x(i)
    OBVIOUS
  <2>1. (CHOOSE j \in 1..n : a(j) = a(i)) = i
    BY <1>11
  <2>2. a(i) \in N /\ a(i) \in Pool
    BY <1>10
  <2> HIDE DEF a, N
  <2> QED
    BY <1>3, <2>1, <2>2 DEF a, N
<1>14. config' \in [Pool -> ValidatorConfig]
  <2>1. ASSUME NEW p \in Pool PROVE config'[p] \in ValidatorConfig
    <3>1. CASE p \in N
      <4>1. PICK i \in 1..n : p = a(i)
        BY <3>1
      <4> QED
        BY <1>12, <1>13, <4>1
    <3>2. CASE p \notin N
      <4>1. config'[p] = config[p]
        BY <1>3, <3>2
      <4> QED
        BY <4>1 DEF IInv, TypeOK
    <3> QED
      BY <3>1, <3>2
  <2>2. config' = [p \in Pool |-> config'[p]]
    BY <1>3
  <2> QED
    BY <2>1, <2>2
<1>15. staking_config \in StakingConfig
  BY ConfigAssumption DEF IInv, TypeOK
<1>16. /\ pools' \in [Pool -> StakePool]
       /\ \A p \in Pool : /\ pools'[p].active = settled[p].active
                          /\ pools'[p].pending_active = 0
                          /\ pools'[p].pending_inactive
                               = settled[p].pending_inactive
  <2>1. ASSUME NEW p \in Pool
        PROVE  /\ pools'[p] \in StakePool
               /\ pools'[p].active = settled[p].active
               /\ pools'[p].pending_active = 0
               /\ pools'[p].pending_inactive = settled[p].pending_inactive
    <3>1. settled[p] \in StakePool /\ settled[p].pending_active = 0
      BY <1>7
    <3>2. pools'[p] = Renew(settled[p], start, secs) \/ pools'[p] = settled[p]
      BY <1>3
    <3> QED
      BY <1>15, <3>1, <3>2, RenewType
  <2>2. pools' = [p \in Pool |-> pools'[p]]
    BY <1>3
  <2> QED
    BY <2>1, <2>2
<1>17. \A i \in 1..n :
         /\ active_validators'[i] =
              ValidatorInfoOf(a(i), settled[a(i)], x(i))
         /\ active_validators'[i] \in ValidatorInfo
         /\ active_validators'[i].addr = a(i)
         /\ active_validators'[i].config = x(i)
         /\ active_validators'[i].voting_power =
              settled[a(i)].active + settled[a(i)].pending_inactive
  <2> SUFFICES ASSUME NEW i \in 1..n
               PROVE  /\ active_validators'[i] =
                           ValidatorInfoOf(a(i), settled[a(i)], x(i))
                      /\ active_validators'[i] \in ValidatorInfo
                      /\ active_validators'[i].addr = a(i)
                      /\ active_validators'[i].config = x(i)
                      /\ active_validators'[i].voting_power =
                           settled[a(i)].active + settled[a(i)].pending_inactive
    OBVIOUS
  <2>1. active_validators'[i] = ValidatorInfoOf(a(i), settled[a(i)], x(i))
    BY <1>3
  <2>2. /\ settled[a(i)] \in StakePool /\ settled[a(i)].pending_active = 0
        /\ a(i) \in Pool /\ x(i) \in ValidatorConfig
    BY <1>7, <1>10, <1>12
  <2> HIDE DEF a, x
  <2>3. NextEpochVotingPower(settled[a(i)])
          = settled[a(i)].active + settled[a(i)].pending_inactive
    BY <2>2 DEF NextEpochVotingPower, StakePool
  <2>4. NextEpochVotingPower(settled[a(i)]) \in Nat
    BY <2>2, NextEpochVotingPowerType
  <2> QED
    BY <2>1, <2>2, <2>3, <2>4 DEF ValidatorInfoOf, ValidatorInfo
<1>18. /\ active_validators' \in Seq(ValidatorInfo)
       /\ DOMAIN active_validators' = 1..n
       /\ Len(active_validators') = n
  <2>1. active_validators' = [i \in 1..n |-> active_validators'[i]]
    BY <1>3
  <2>2. active_validators' \in [1..n -> ValidatorInfo]
    BY <1>17, <2>1
  <2> QED
    BY <1>4, <2>2, SeqOfLength
<1>19. /\ validator_perf' \in Seq(Performance) /\ Len(validator_perf') = n
  <2>1. validator_perf' \in [1..n -> Performance]
    BY <1>3 DEF Performance
  <2> QED
    BY <1>4, <2>1, SeqOfLength
<1>20. total_voting_power' \in Nat
  <2> DEFINE f == [i \in 1..n |-> NextEpochVotingPower(settled[a(i)])]
  <2>1. \A i \in 1..n : NextEpochVotingPower(settled[a(i)]) \in Nat
    BY <1>7, <1>10, NextEpochVotingPowerType
  <2>2. f \in [1..n -> Nat]
    BY <2>1
  <2>3. total_voting_power' = Total(f)
    BY <1>3
  <2> HIDE DEF f
  <2>4. IsFiniteSet(1..n)
    BY <1>4, FS_Interval
  <2> QED
    BY <2>2, <2>3, <2>4, TotalNat
<1>21. /\ pending_inactive' = <<>> /\ pending_active' = <<>>
       /\ total_joining_power' = 0
       /\ fees_table' = [p \in Pool |->
            IF CollectFees /\ p \in CurrentValidators THEN 0 ELSE fees[p]]
       /\ pool_store' = store + minted
       /\ circulating' = circ + shared
       /\ supply' = sup + minted + shared
  BY DEF OnNewEpoch, RewardOf, reward
<1> HIDE DEF minted, shared, addr, indexed, next, a, x, N
<1>22. /\ fees_table' \in [Pool -> Nat]
       /\ pool_store' \in Int /\ circulating' \in Nat /\ supply' \in Int
       /\ circulating' <= supply'
  BY <1>6, <1>21
<1>23. NoDuplicates(active_validators')
  BY <1>11, <1>17, <1>18 DEF NoDuplicates
<1>24. Members(active_validators') \subseteq InValidatorSet
  BY <1>10, <1>17, <1>18 DEF Members
<1>25. \A i \in 1..n :
         LET e == active_validators'[i] IN
           /\ e.config.validator_index = i - 1
           /\ e.config.validator_index = config'[e.addr].validator_index
           /\ e.voting_power =
                pools'[e.addr].active + pools'[e.addr].pending_inactive
  <2> SUFFICES ASSUME NEW i \in 1..n
               PROVE  LET e == active_validators'[i] IN
                 /\ e.config.validator_index = i - 1
                 /\ e.config.validator_index = config'[e.addr].validator_index
                 /\ e.voting_power =
                      pools'[e.addr].active + pools'[e.addr].pending_inactive
    BY Zenon
  <2>1. x(i).validator_index = i - 1
    BY DEF x, indexed
  <2>2. active_validators'[i].addr = a(i) /\ active_validators'[i].config = x(i)
    BY <1>17
  <2>3. config'[a(i)] = x(i)
    BY <1>13
  <2>4. active_validators'[i].voting_power =
          settled[a(i)].active + settled[a(i)].pending_inactive
    BY <1>17
  <2>5. /\ pools'[a(i)].active = settled[a(i)].active
        /\ pools'[a(i)].pending_inactive = settled[a(i)].pending_inactive
    BY <1>10, <1>16
  <2> QED
    BY <2>1, <2>2, <2>3, <2>4, <2>5, Zenon
<1> QED
  BY <1>14, <1>16, <1>18, <1>19, <1>20, <1>21, <1>22, <1>23, <1>24, <1>25

\* What a set of freshly numbered active validators implies for the queues.
LEMMA FreshSetFacts ==
  ASSUME NEW q \in Seq(ValidatorInfo), active_validators' = q,
         pending_inactive' = <<>>, pending_active' = <<>>,
         NoDuplicates(q), Members(q) \subseteq registered',
         Len(validator_perf') = Len(q),
         \A p \in Pool \ CurrentValidators' : pools'[p].pending_active = 0,
         \A i \in DOMAIN q :
           /\ q[i].config.validator_index = i - 1
           /\ q[i].config.validator_index = config'[q[i].addr].validator_index
           /\ q[i].voting_power = pools'[q[i].addr].active
                                    + pools'[q[i].addr].pending_inactive
  PROVE  /\ QueuesDisjoint' /\ IndicesMatchPerformance'
         /\ VotingPowerIsSnapshot' /\ PendingStakeOnlyWhileValidating'
         /\ (InValidatorSet \subseteq registered)'
<1>1. Len(q) \in Nat /\ DOMAIN q = 1..Len(q)
  BY LenProperties
<1>2. Members(<<>>) = {} /\ DOMAIN <<>> = {} /\ NoDuplicates(<<>>)
  BY DEF Members, NoDuplicates
<1>3. Members(pending_inactive') = {} /\ Members(pending_active') = {}
  BY <1>2
<1>4. CurrentValidators' = Members(q)
  <2>1. Members(active_validators') = Members(q)
    BY DEF Members
  <2> QED
    BY <1>3, <2>1 DEF CurrentValidators
<1>5. QueuesDisjoint'
  <2>1. NoDuplicates(active_validators') /\ NoDuplicates(pending_inactive')
        /\ NoDuplicates(pending_active')
    BY DEF NoDuplicates
  <2> QED
    BY <1>3, <2>1 DEF QueuesDisjoint
<1>6. (InValidatorSet \subseteq registered)'
  BY <1>3, <1>4 DEF InValidatorSet
<1>7. PendingStakeOnlyWhileValidating'
  BY DEF PendingStakeOnlyWhileValidating
<1>8. VotingPowerIsSnapshot'
  BY <1>2 DEF VotingPowerIsSnapshot
<1>9. IndicesMatchPerformance'
  <2>1. Len(validator_perf)' = Len(active_validators') + Len(pending_inactive')
    BY <1>1
  <2>2. \A i \in DOMAIN q :
          q[i].config.validator_index < Len(validator_perf')
    BY <1>1
  <2>3. \A s \in {active_validators', pending_inactive'} : \A i \in DOMAIN s :
          /\ s[i].config.validator_index = config'[s[i].addr].validator_index
          /\ s[i].config.validator_index < Len(validator_perf')
    BY <1>2, <2>2
  <2>4. ASSUME NEW p \in Members(q), NEW r \in Members(q),
               config'[p].validator_index = config'[r].validator_index
        PROVE  p = r
    <3>1. PICK i \in DOMAIN q : q[i].addr = p
      BY DEF Members
    <3>2. PICK j \in DOMAIN q : q[j].addr = r
      BY DEF Members
    <3>3. config'[p].validator_index = i - 1
      BY <3>1
    <3>4. config'[r].validator_index = j - 1
      BY <3>2
    <3>5. i - 1 = j - 1
      BY <2>4, <3>3, <3>4, Zenon
    <3>6. i \in Int /\ j \in Int
      BY <1>1
    <3>7. i = j
      BY <3>5, <3>6
    <3> QED
      BY <3>1, <3>2, <3>7
  <2> QED
    BY <1>4, <2>1, <2>3, <2>4 DEF IndicesMatchPerformance
<1> QED
  BY <1>5, <1>6, <1>7, <1>8, <1>9

\* The scores and fees of a block.
LEMMA ScoredType ==
  ASSUME IInv, NEW proposer, NEW failed
  PROVE  /\ Scored(proposer, failed) \in Seq(Performance)
         /\ Len(Scored(proposer, failed)) = Len(validator_perf)
<1> DEFINE n == Len(validator_perf)
<1>1. /\ n \in Nat /\ DOMAIN validator_perf = 1..n
      /\ \A i \in 1..n : validator_perf[i] \in Performance
  BY LenProperties, ElementOfSeq DEF IInv, TypeOK
<1>2. Scored(proposer, failed) \in [1..n -> Performance]
  BY <1>1 DEF Scored, Performance
<1> QED
  BY <1>1, <1>2, SeqOfLength

\* add_transaction_fee keeps the type of the fee table.
LEMMA CreditedType ==
  ASSUME IInv, NEW payee \in Pool, NEW fee \in Nat
  PROVE  Credited(payee, fee) \in [Pool -> Nat]
<1>1. fees_table \in [Pool -> Nat]
  BY DEF IInv, TypeOK
<1>2. fees_table[payee] + fee \in Nat
  BY <1>1
<1> QED
  BY <1>1, <1>2 DEF Credited

\* A block that ends the epoch.
LEMMA EndEpochStep ==
  ASSUME IInv, NEW perf \in Seq(Performance),
         Len(perf) = Len(validator_perf),
         NEW fees \in [Pool -> Nat], NEW fee \in Nat, NEW burnt \in Nat,
         fee + burnt <= circulating, NEW t \in Nat, now' = t,
         EndEpoch(perf, fees, pool_store + fee, supply - burnt,
                  circulating - fee - burnt, Secs(t)),
         UNCHANGED <<registered, wallet, staking_config>>
  PROVE  IInv'
<1> DEFINE store == pool_store + fee
           sup == supply - burnt
           circ == circulating - fee - burnt
           start == IF InProgress THEN reconf.start_time_secs ELSE Secs(t)
<1>1. /\ pool_store \in Int /\ supply \in Int /\ circulating \in Nat
      /\ circulating <= supply /\ reconf.start_time_secs \in Nat
  BY DEF IInv, TypeOK
<1>2. store \in Int /\ sup \in Nat /\ circ \in Nat /\ circ <= sup
  BY <1>1
<1>3. Secs(t) \in Nat
  BY SecsType
<1>4. start \in Nat
  BY <1>1, <1>3
<1>5. OnNewEpoch(perf, fees, store, sup, circ, start, Secs(t))
  BY DEF EndEpoch
<1>6. /\ reconf' = [in_progress |-> FALSE, start_time_secs |-> 0]
      /\ last_reconfiguration_time' = t
  BY DEF EndEpoch
<1> HIDE DEF store, sup, circ, start
<1>7. /\ pools' \in [Pool -> StakePool]
      /\ \A p \in Pool \ CurrentValidators' : pools'[p].pending_active = 0
      /\ config' \in [Pool -> ValidatorConfig]
      /\ active_validators' \in Seq(ValidatorInfo)
      /\ pending_inactive' = <<>> /\ pending_active' = <<>>
      /\ total_voting_power' \in Nat /\ total_joining_power' \in Nat
      /\ validator_perf' \in Seq(Performance)
      /\ fees_table' \in [Pool -> Nat]
      /\ pool_store' \in Int /\ circulating' \in Nat /\ supply' \in Int
      /\ circulating' <= supply'
      /\ NoDuplicates(active_validators')
      /\ Members(active_validators') \subseteq InValidatorSet
      /\ Len(validator_perf') = Len(active_validators')
      /\ \A i \in DOMAIN active_validators' :
           LET e == active_validators'[i] IN
             /\ e.config.validator_index = i - 1
             /\ e.config.validator_index = config'[e.addr].validator_index
             /\ e.voting_power =
                  pools'[e.addr].active + pools'[e.addr].pending_inactive
  BY <1>2, <1>3, <1>4, <1>5, OnNewEpochFacts
<1>8. TypeOK'
  <2>1. pending_inactive' \in Seq(ValidatorInfo)
        /\ pending_active' \in Seq(ValidatorInfo)
    BY <1>7
  <2> QED
    BY <1>6, <1>7, <2>1 DEF IInv, TypeOK
<1>9. Members(active_validators') \subseteq registered'
  BY <1>7 DEF IInv
<1>10. /\ QueuesDisjoint' /\ IndicesMatchPerformance'
       /\ VotingPowerIsSnapshot' /\ PendingStakeOnlyWhileValidating'
       /\ (InValidatorSet \subseteq registered)'
  BY <1>7, <1>9, FreshSetFacts
<1>11. (circulating <= supply)'
  BY <1>7
<1> QED
  BY <1>8, <1>10, <1>11 DEF IInv

\* A block within an epoch: scores and fees change, the queues do not.
LEMMA WithinEpochStep ==
  ASSUME IInv, NEW perf \in Seq(Performance),
         Len(perf) = Len(validator_perf),
         NEW fees \in [Pool -> Nat], NEW fee \in Nat, NEW burnt \in Nat,
         fee + burnt <= circulating, NEW t \in Nat, now' = t,
         validator_perf' = perf, fees_table' = fees,
         pool_store' = pool_store + fee, supply' = supply - burnt,
         circulating' = circulating - fee - burnt,
         StartReconfiguration(Secs(t)) \/ UNCHANGED reconf,
         UNCHANGED <<registered, wallet, staking_config, pools, config,
                     queueVars, powerVars, last_reconfiguration_time>>
  PROVE  IInv'
<1>1. /\ pool_store \in Int /\ supply \in Int /\ circulating \in Nat
      /\ circulating <= supply
      /\ reconf \in [in_progress : BOOLEAN, start_time_secs : Nat]
  BY DEF IInv, TypeOK
<1>2. /\ pool_store' \in Int /\ supply' \in Int /\ circulating' \in Nat
      /\ circulating' <= supply'
  BY <1>1
<1>3. Secs(t) \in Nat
  BY SecsType
<1>4. reconf' \in [in_progress : BOOLEAN, start_time_secs : Nat]
  <2>1. reconf' = reconf
        \/ reconf' = [in_progress |-> TRUE, start_time_secs |-> Secs(t)]
    BY DEF StartReconfiguration
  <2> DEFINE opened == [in_progress |-> TRUE, start_time_secs |-> Secs(t)]
  <2>2. opened \in [in_progress : BOOLEAN, start_time_secs : Nat]
    BY <1>3
  <2> QED
    BY <1>1, <2>1, <2>2, Zenon
<1>5. TypeOK'
  BY <1>2, <1>4 DEF IInv, TypeOK, queueVars, powerVars
<1>6. CurrentValidators' = CurrentValidators
  BY DEF queueVars, CurrentValidators, Members
<1>7. InValidatorSet' = InValidatorSet
  BY <1>6 DEF queueVars, InValidatorSet, Members
<1>8. QueuesDisjoint'
  <2>1. /\ active_validators' = active_validators
        /\ pending_inactive' = pending_inactive
        /\ pending_active' = pending_active
    BY DEF queueVars
  <2>2. /\ Members(active_validators') = Members(active_validators)
        /\ Members(pending_inactive') = Members(pending_inactive)
        /\ Members(pending_active') = Members(pending_active)
    BY <2>1 DEF Members
  <2>3. /\ NoDuplicates(active_validators')
        /\ NoDuplicates(pending_inactive') /\ NoDuplicates(pending_active')
    BY <2>1 DEF IInv, QueuesDisjoint, NoDuplicates
  <2> QED
    BY <1>6, <2>2, <2>3 DEF IInv, QueuesDisjoint
<1>9. IndicesMatchPerformance'
  BY <1>6 DEF IInv, queueVars, IndicesMatchPerformance
<1>10. VotingPowerIsSnapshot' /\ PendingStakeOnlyWhileValidating'
  BY <1>6 DEF IInv, queueVars, VotingPowerIsSnapshot,
              PendingStakeOnlyWhileValidating
<1> QED
  BY <1>2, <1>5, <1>7, <1>8, <1>9, <1>10 DEF IInv

\* System transactions preserve the invariant.
LEMMA SystemStepStep ==
  ASSUME IInv, SystemStep
  PROVE  IInv'
<1>1. PICK proposer \in CurrentValidators \cup {NoProposer},
           failed \in SUBSET DOMAIN validator_perf,
           payee \in CurrentValidators, fee \in 0..circulating,
           burnt \in 0..circulating, t \in now..MaxTime, kind \in Kinds :
        Block(proposer, failed, payee, fee, burnt, t, kind)
  BY DEF SystemStep
<1> DEFINE perf == Scored(proposer, failed)
           fees == Credited(payee, fee)
<1>2. circulating \in Nat /\ now \in Nat /\ MaxTime \in Nat
  BY BoundAssumption DEF IInv, TypeOK
<1>3. fee \in Nat /\ burnt \in Nat /\ t \in Nat
  BY <1>2
<1>4. payee \in Pool
  BY CurrentFacts
<1>5. /\ perf \in Seq(Performance) /\ Len(perf) = Len(validator_perf)
      /\ fees \in [Pool -> Nat]
  BY <1>3, <1>4, ScoredType, CreditedType
<1>6. /\ fee + burnt <= circulating /\ now' = t
      /\ UNCHANGED <<registered, wallet, staking_config>>
  BY <1>1 DEF Block
<1>7. CASE kind = "end"
  <2>1. EndEpoch(perf, fees, pool_store + fee, supply - burnt,
                 circulating - fee - burnt, Secs(t))
    BY <1>1, <1>7 DEF Block
  <2> HIDE DEF perf, fees
  <2> QED
    BY <1>3, <1>5, <1>6, <2>1, EndEpochStep
<1>8. CASE kind # "end"
  <2>1. /\ validator_perf' = perf /\ fees_table' = fees
        /\ pool_store' = pool_store + fee /\ supply' = supply - burnt
        /\ circulating' = circulating - fee - burnt
        /\ StartReconfiguration(Secs(t)) \/ UNCHANGED reconf
        /\ UNCHANGED <<pools, config, queueVars, powerVars,
                       last_reconfiguration_time>>
    BY <1>1, <1>8 DEF Block
  <2> HIDE DEF perf, fees
  <2> QED
    BY <1>3, <1>5, <1>6, <2>1, WithinEpochStep
<1> QED
  BY <1>7, <1>8

-----------------------------------------------------------------------------
(* Genesis *)

\* Genesis turns the order of the joining validators round.
LEMMA GenesisOrderFacts ==
  /\ Len(GenesisOrder) \in Nat /\ DOMAIN GenesisOrder = 1..Len(GenesisOrder)
  /\ \A i \in 1..Len(GenesisOrder) :
       GenesisOrder[i] \in GenesisPools /\ GenesisOrder[i] \in Pool
  /\ \A i, j \in 1..Len(GenesisOrder) :
       GenesisOrder[i] = GenesisOrder[j] => i = j
  /\ GenesisPools \subseteq Pool
  /\ \A p \in GenesisPools : \E i \in 1..Len(GenesisOrder) :
       GenesisOrder[i] = p
<1> DEFINE n == Len(GenesisSet)
           c == GenesisOrder
<1>1. /\ n \in Nat /\ DOMAIN GenesisSet = 1..n
      /\ \A i \in 1..n : GenesisSet[i] \in Pool
  BY GenesisAssumption, LenProperties, ElementOfSeq
<1>2. Len(<<>>) = 0
  OBVIOUS
<1>3. /\ DOMAIN c = 1..n
      /\ \A i \in 1..n : c[i] = GenesisSet[n + 1 - i]
  BY <1>1, <1>2 DEF GenesisOrder, AppendPopped
<1>4. \A i \in 1..n : n + 1 - i \in 1..n /\ n + 1 - (n + 1 - i) = i
  BY <1>1
<1>5. c \in [1..n -> Pool]
  <2>1. \A i \in 1..n : c[i] \in Pool
    BY <1>1, <1>3, <1>4
  <2>2. c = [i \in 1..n |-> c[i]]
    BY <1>1, <1>2, <1>3 DEF GenesisOrder, AppendPopped
  <2> QED
    BY <2>1, <2>2
<1>6. Len(c) = n
  BY <1>1, <1>5, SeqOfLength
<1> HIDE DEF c
<1>7. \A i \in 1..n : c[i] \in GenesisPools /\ c[i] \in Pool
  BY <1>1, <1>3, <1>4 DEF GenesisPools
<1>8. ASSUME NEW i \in 1..n, NEW j \in 1..n, c[i] = c[j] PROVE i = j
  <2> DEFINE k == n + 1 - i
             m == n + 1 - j
  <2>1. k \in 1..n /\ m \in 1..n /\ GenesisSet[k] = GenesisSet[m]
    BY <1>3, <1>4, <1>8
  <2>2. k = m
    <3> HIDE DEF k, m
    <3> QED
      BY <1>1, <2>1, GenesisAssumption
  <2> QED
    BY <1>1, <2>2
<1>9. GenesisPools \subseteq Pool
  BY <1>1 DEF GenesisPools
<1>10. ASSUME NEW p \in GenesisPools PROVE \E i \in 1..n : c[i] = p
  <2>1. PICK k \in 1..n : GenesisSet[k] = p
    BY <1>1 DEF GenesisPools
  <2> DEFINE i == n + 1 - k
  <2>2. i \in 1..n /\ c[i] = GenesisSet[n + 1 - i] /\ n + 1 - i = k
    BY <1>3, <1>4
  <2> QED
    BY <2>1, <2>2
<1> QED
  BY <1>1, <1>3, <1>6, <1>7, <1>8, <1>9, <1>10 DEF c

\* A validator of genesis stands at its position.
LEMMA PositionFacts ==
  ASSUME NEW p \in GenesisPools
  PROVE  /\ Position(p) \in 1..Len(GenesisOrder)
         /\ GenesisOrder[Position(p)] = p
BY GenesisOrderFacts DEF Position

\* The stake of genesis is a natural number.
LEMMA GenesisTotalType == GenesisTotal \in Nat
<1>1. IsFiniteSet(GenesisPools)
  BY GenesisOrderFacts, PoolAssumption, FS_Subset
<1>2. [p \in GenesisPools |-> GenesisStake[p]] \in [GenesisPools -> Nat]
  BY GenesisOrderFacts, AmountAssumption
<1> QED
  BY <1>1, <1>2, TotalNat DEF GenesisTotal

\* Genesis establishes the invariant.
LEMMA InitIInv ==
  ASSUME Init
  PROVE  IInv
<1> DEFINE n == Len(GenesisOrder)
           c == GenesisOrder
           lockup == staking_config.recurring_lockup_duration_secs
<1>1. /\ n \in Nat /\ DOMAIN c = 1..n
      /\ \A i \in 1..n : c[i] \in GenesisPools /\ c[i] \in Pool
      /\ \A i, j \in 1..n : c[i] = c[j] => i = j
      /\ GenesisPools \subseteq Pool
  BY GenesisOrderFacts
<1> HIDE DEF c
<1>2. staking_config \in Configs /\ lockup \in Nat
  BY ConfigAssumption DEF Init, StakingConfig
<1> HIDE DEF lockup
<1>3. /\ \A p \in GenesisPools :
           /\ pools[p] \in StakePool
           /\ pools[p].pending_active = 0 /\ pools[p].pending_inactive = 0
      /\ \A p \in Pool \ GenesisPools : pools[p] = EmptyPool
      /\ pools \in [Pool -> StakePool]
  <2> DEFINE first(p) == [EmptyPool EXCEPT !.active = GenesisStake[p],
                                           !.locked_until_secs = lockup]
  <2>1. pools = [p \in Pool |->
                  IF p \in GenesisPools THEN first(p) ELSE EmptyPool]
    BY DEF Init, lockup
  <2>2. \A p \in GenesisPools :
          /\ first(p) \in StakePool
          /\ first(p).pending_active = 0 /\ first(p).pending_inactive = 0
    BY <1>1, <1>2, AmountAssumption DEF EmptyPool, StakePool
  <2> HIDE DEF first
  <2> QED
    BY <1>1, <2>1, <2>2, EmptyPoolType
<1>4. /\ config \in [Pool -> ValidatorConfig]
      /\ \A i \in 1..n : config[c[i]].validator_index = i - 1
  <2>1. PICK key \in [GenesisPools -> Key] :
          config = [p \in Pool |->
            IF p \in GenesisPools
            THEN [consensus_pubkey |-> key[p],
                  validator_index |-> Position(p) - 1]
            ELSE [consensus_pubkey |-> NoKey, validator_index |-> 0]]
    BY DEF Init
  <2>2. \A p \in GenesisPools : Position(p) - 1 \in Nat
    BY <1>1, PositionFacts
  <2>3. config \in [Pool -> ValidatorConfig]
    BY <2>1, <2>2 DEF ValidatorConfig
  <2>4. \A i \in 1..n : Position(c[i]) = i
    <3> SUFFICES ASSUME NEW i \in 1..n PROVE Position(c[i]) = i
      OBVIOUS
    <3>1. Position(c[i]) \in 1..n /\ c[Position(c[i])] = c[i]
      BY <1>1, PositionFacts DEF c
    <3> QED
      BY <1>1, <3>1
  <2> QED
    BY <1>1, <2>1, <2>3, <2>4
<1>5. /\ active_validators \in Seq(ValidatorInfo)
      /\ DOMAIN active_validators = 1..n /\ Len(active_validators) = n
      /\ \A i \in 1..n :
           /\ active_validators[i].addr = c[i]
           /\ active_validators[i].config = config[c[i]]
           /\ active_validators[i].voting_power =
                NextEpochVotingPower(pools[c[i]])
  <2>1. active_validators =
          [i \in 1..n |-> ValidatorInfoOf(c[i], pools[c[i]], config[c[i]])]
    BY DEF Init, c
  <2>2. ASSUME NEW i \in 1..n
        PROVE  ValidatorInfoOf(c[i], pools[c[i]], config[c[i]])
                 \in ValidatorInfo
    <3>1. /\ c[i] \in Pool /\ pools[c[i]] \in StakePool
          /\ config[c[i]] \in ValidatorConfig
      BY <1>1, <1>3, <1>4
    <3>2. NextEpochVotingPower(pools[c[i]]) \in Nat
      BY <3>1, NextEpochVotingPowerType
    <3> QED
      BY <3>1, <3>2 DEF ValidatorInfoOf, ValidatorInfo
  <2>3. active_validators \in [1..n -> ValidatorInfo]
    BY <2>1, <2>2
  <2>4. /\ active_validators \in Seq(ValidatorInfo)
        /\ DOMAIN active_validators = 1..n /\ Len(active_validators) = n
    BY <1>1, <2>3, SeqOfLength
  <2> QED
    BY <2>1, <2>4 DEF ValidatorInfoOf
<1>6. /\ validator_perf \in Seq(Performance) /\ Len(validator_perf) = n
  <2>1. validator_perf \in [1..n -> Performance]
    BY DEF Init, Performance, c
  <2> QED
    BY <1>1, <2>1, SeqOfLength
<1>7. /\ pending_inactive = <<>> /\ pending_active = <<>>
      /\ registered = GenesisPools
      /\ total_joining_power = 0 /\ total_voting_power \in Nat
      /\ fees_table \in [Pool -> Nat]
      /\ pool_store \in Nat /\ wallet \in [Pool -> Nat]
      /\ circulating \in Nat /\ supply \in Nat /\ circulating <= supply
      /\ reconf \in [in_progress : BOOLEAN, start_time_secs : Nat]
      /\ last_reconfiguration_time = 0 /\ now = 0
  <2>1. Total(GenesisWallet) \in Nat
    BY AmountAssumption, PoolAssumption, TotalNat
  <2>2. /\ pending_inactive = <<>> /\ pending_active = <<>>
        /\ registered = GenesisPools
        /\ total_joining_power = 0 /\ total_voting_power = GenesisTotal
        /\ fees_table = [p \in Pool |-> 0]
        /\ pool_store = GenesisTotal /\ wallet = GenesisWallet
        /\ circulating = GenesisCirculating
        /\ supply = pool_store + Total(GenesisWallet) + GenesisCirculating
        /\ reconf = [in_progress |-> FALSE, start_time_secs |-> 0]
        /\ last_reconfiguration_time = 0 /\ now = 0
    BY Zenon DEF Init
  <2>3. GenesisCirculating \in Nat /\ GenesisTotal \in Nat
    BY AmountAssumption, GenesisTotalType
  <2>4. supply \in Nat /\ circulating <= supply
    BY <2>1, <2>2, <2>3
  <2>5. reconf \in [in_progress : BOOLEAN, start_time_secs : Nat]
    BY <2>2
  <2>6. fees_table \in [Pool -> Nat] /\ wallet \in [Pool -> Nat]
    BY <2>2, AmountAssumption
  <2> QED
    BY <2>2, <2>3, <2>4, <2>5, <2>6
<1>8. TypeOK
  <2>1. pending_inactive \in Seq(ValidatorInfo)
        /\ pending_active \in Seq(ValidatorInfo)
    BY <1>7
  <2> QED
    BY <1>1, <1>2, <1>3, <1>4, <1>5, <1>6, <1>7, <2>1 DEF TypeOK
<1>9. Members(<<>>) = {} /\ DOMAIN <<>> = {}
  BY DEF Members
<1>10. /\ CurrentValidators = Members(active_validators)
       /\ Members(pending_active) = {} /\ Members(pending_inactive) = {}
  BY <1>7, <1>9 DEF CurrentValidators
<1>11. Members(active_validators) \subseteq GenesisPools
  BY <1>1, <1>5 DEF Members
<1>12. QueuesDisjoint
  BY <1>1, <1>5, <1>7, <1>9, <1>10 DEF QueuesDisjoint, NoDuplicates
<1>13. \A i \in 1..n :
         /\ active_validators[i].config.validator_index = i - 1
         /\ active_validators[i].config.validator_index =
              config[active_validators[i].addr].validator_index
         /\ active_validators[i].voting_power =
              pools[active_validators[i].addr].active
                + pools[active_validators[i].addr].pending_inactive
  <2> SUFFICES ASSUME NEW i \in 1..n
        PROVE /\ active_validators[i].config.validator_index = i - 1
              /\ active_validators[i].config.validator_index =
                   config[active_validators[i].addr].validator_index
              /\ active_validators[i].voting_power =
                   pools[active_validators[i].addr].active
                     + pools[active_validators[i].addr].pending_inactive
    BY Zenon
  <2>1. /\ active_validators[i].addr = c[i]
        /\ active_validators[i].config = config[c[i]]
        /\ active_validators[i].voting_power = NextEpochVotingPower(pools[c[i]])
        /\ config[c[i]].validator_index = i - 1
    BY <1>4, <1>5
  <2>2. pools[c[i]] \in StakePool /\ pools[c[i]].pending_active = 0
    BY <1>1, <1>3
  <2>3. NextEpochVotingPower(pools[c[i]]) =
          pools[c[i]].active + pools[c[i]].pending_inactive
    BY <2>2 DEF NextEpochVotingPower, StakePool
  <2> QED
    BY <2>1, <2>3, Zenon
<1>14. IndicesMatchPerformance
  <2>1. Len(validator_perf) = Len(active_validators) + Len(pending_inactive)
    BY <1>1, <1>5, <1>6, <1>7
  <2>2. \A i \in 1..n : active_validators[i].config.validator_index < n
    BY <1>1, <1>13
  <2>3. ASSUME NEW p \in CurrentValidators, NEW r \in CurrentValidators,
               config[p].validator_index = config[r].validator_index
        PROVE  p = r
    <3>1. PICK i \in 1..n : c[i] = p
      BY <1>5, <1>10 DEF Members
    <3>2. PICK j \in 1..n : c[j] = r
      BY <1>5, <1>10 DEF Members
    <3>3. i - 1 = j - 1
      BY <1>4, <2>3, <3>1, <3>2
    <3>4. i = j
      BY <1>1, <3>3
    <3> QED
      BY <3>1, <3>2, <3>4
  <2> QED
    BY <1>5, <1>6, <1>7, <1>9, <1>13, <2>1, <2>2, <2>3
    DEF IndicesMatchPerformance
<1>15. VotingPowerIsSnapshot
  BY <1>5, <1>7, <1>9, <1>13 DEF VotingPowerIsSnapshot
<1>16. PendingStakeOnlyWhileValidating
  BY <1>3 DEF PendingStakeOnlyWhileValidating, EmptyPool
<1>17. InValidatorSet \subseteq registered
  BY <1>7, <1>10, <1>11 DEF InValidatorSet
<1> QED
  BY <1>7, <1>8, <1>12, <1>14, <1>15, <1>16, <1>17 DEF IInv

-----------------------------------------------------------------------------
(* The theorems *)

\* A step that changes nothing preserves the invariant.
LEMMA StutterStep ==
  ASSUME IInv, UNCHANGED stakeVars
  PROVE  IInv'
<1>1. UNCHANGED <<registered, pools, config, queueVars, powerVars,
                  validator_perf, fees_table, staking_config, moneyVars,
                  clockVars>>
  BY DEF stakeVars
<1>2. TypeOK'
  BY <1>1 DEF IInv, TypeOK, queueVars, powerVars, moneyVars, clockVars
<1>3. /\ QueuesDisjoint' /\ IndicesMatchPerformance'
      /\ VotingPowerIsSnapshot' /\ PendingStakeOnlyWhileValidating'
      /\ (InValidatorSet \subseteq registered)'
  BY <1>1, SeparateNow, SetStep DEF SameEntries, queueVars
<1>4. (circulating <= supply)'
  BY <1>1 DEF IInv, moneyVars
<1> QED
  BY <1>2, <1>3, <1>4 DEF IInv

\* Owner operations preserve the invariant.
LEMMA OwnerStepStep ==
  ASSUME IInv, NEW p \in Pool, OwnerStep(p)
  PROVE  IInv'
<1>1. Amount \subseteq Nat
  BY AmountAssumption
<1>2. CASE \E key \in Key : InitializeValidator(p, key)
  BY <1>2, InitializeValidatorStep
<1>3. CASE \E amount \in Amount \cup {0} : InitializeStakeOwner(p, amount)
  BY <1>1, <1>3, InitializeStakeOwnerStep
<1>4. CASE \E amount \in Amount : AddStake(p, amount)
  BY <1>1, <1>4, AddStakeStep
<1>5. CASE \E amount \in Amount : Unlock(p, amount)
  BY <1>1, <1>5, UnlockStep
<1>6. CASE \E amount \in Amount : ReactivateStake(p, amount)
  BY <1>1, <1>6, ReactivateStakeStep
<1>7. CASE \E amount \in Amount \cup {0} : Withdraw(p, amount)
  BY <1>1, <1>7, WithdrawStep
<1>8. CASE IncreaseLockup(p)
  BY <1>8, IncreaseLockupStep
<1> QED
  BY <1>2, <1>3, <1>4, <1>5, <1>6, <1>7, <1>8 DEF OwnerStep

\* Operator operations preserve the invariant.
LEMMA OperatorStepStep ==
  ASSUME IInv, NEW p \in Pool, OperatorStep(p)
  PROVE  IInv'
<1>1. CASE \E key \in Key : RotateConsensusKey(p, key)
  BY <1>1, RotateConsensusKeyStep
<1>2. CASE JoinValidatorSet(p)
  BY <1>2, JoinValidatorSetStep
<1>3. CASE LeaveValidatorSet(p)
  BY <1>3, LeavePendingActiveStep, LeaveActiveStep DEF LeaveValidatorSet
<1> QED
  BY <1>1, <1>2, <1>3 DEF OperatorStep

\* Governance preserves the invariant.
LEMMA GovernanceStepStep ==
  ASSUME IInv, GovernanceStep
  PROVE  IInv'
<1>1. CASE \E list \in RemovalLists : RemoveValidators(list)
  <2>1. PICK list \in RemovalLists : RemoveValidators(list)
    BY <1>1
  <2>2. PICK n \in 1..MaxRemoved : list \in [1..n -> Pool]
    BY DEF RemovalLists
  <2>3. n \in Nat
    BY BoundAssumption
  <2>4. list \in Seq(Pool)
    BY <2>2, <2>3, SeqOfLength
  <2> QED
    BY <2>1, <2>4, RemoveValidatorsStep
<1>2. CASE \E c \in Configs : UpdateStakingConfig(c)
  BY <1>2, UpdateStakingConfigStep
<1> QED
  BY <1>1, <1>2 DEF GovernanceStep

\* Every step preserves the invariant.
LEMMA NextIInv ==
  ASSUME IInv, [Next]_stakeVars
  PROVE  IInv'
BY OwnerStepStep, OperatorStepStep, GovernanceStepStep, SystemStepStep,
   StutterStep DEF Next

\* The invariant holds in every reachable state, for any number of pools, any
\* stake and any sequence of operations, blocks and epochs of stake.move.
THEOREM InductiveInvariant == Spec => []IInv
BY InitIInv, NextIInv, PTL DEF Spec

\* No bucket of a pool, no fee entry, no wallet and no power ever goes below
\* zero: none of stake.move's subtractions underflows.
THEOREM TypeCorrect == Spec => []TypeOK
BY InductiveInvariant, PTL DEF IInv

\* join_validator_set, leave_validator_set, remove_validators and on_new_epoch
\* never list a validator twice.
THEOREM QueuesStayDisjoint == Spec => []QueuesDisjoint
BY InductiveInvariant, PTL DEF IInv

\* update_stake_pool and cur_validator_consensus_infos find the performance of
\* every current validator at its index, in any order the queues take.
THEOREM IndicesStayInOrder == Spec => []IndicesMatchPerformance
BY InductiveInvariant, PTL DEF IInv

\* Nothing an owner does changes the voting power of the current epoch.
THEOREM SnapshotsHold == Spec => []VotingPowerIsSnapshot
BY InductiveInvariant, PTL DEF IInv

\* Stake never waits in pending_active of a pool that the next epoch change
\* would not look at.
THEOREM NoStrayPendingStake == Spec => []PendingStakeOnlyWhileValidating
BY InductiveInvariant, PTL DEF IInv

-----------------------------------------------------------------------------
(***************************************************************************)
(* The money of the stake pools: what the pools are owed, what the supply  *)
(* grows by, what joins the next epoch, and when stake comes free.  The    *)
(* invariant is MoneyIInv, over IInv above.                                *)
(***************************************************************************)

-----------------------------------------------------------------------------
(* Arithmetic of rewards *)

\* A rounded-down quotient times the divisor is at most the dividend.
LEMMA QuotientBound ==
  ASSUME NEW a \in Nat, NEW b \in Nat, b > 0
  PROVE  b * (a \div b) <= a
OBVIOUS

\* A positive common factor can be cancelled.
LEMMA CancelFactor ==
  ASSUME NEW x \in Nat, NEW y \in Nat, NEW k \in Nat, k > 0, x * k <= y * k
  PROVE  x <= y
OBVIOUS

\* A larger factor makes a larger product.
LEMMA LargerFactor ==
  ASSUME NEW k \in Nat, NEW x \in Nat, NEW y \in Nat, x <= y
  PROVE  k * x <= k * y
OBVIOUS

\* A hundred times more is still more.
LEMMA HundredTimes ==
  ASSUME NEW x \in Nat, NEW y \in Nat, x <= y
  PROVE  x * 100 <= y * 100 /\ x * 100 \in Nat /\ y * 100 \in Nat
OBVIOUS

\* A smaller integer taken from a larger one leaves a natural number.
LEMMA Difference ==
  ASSUME NEW x \in Int, NEW y \in Int, x <= y
  PROVE  y - x \in Nat
OBVIOUS

\* distribute_rewards never hands out more than the reward: every share of
\* the split, the validator's and the others', is rounded down.
LEMMA SharesFit ==
  ASSUME NEW amount \in Nat
  PROVE  ValidatorShare(amount) + OtherAccountsShare(amount) <= amount
<1> DEFINE S == DOMAIN OtherShares
           f == [i \in S |-> (amount * OtherShares[i]) \div 100]
           g == [i \in S |-> 100 * f[i]]
           h == [i \in S |-> amount * OtherShares[i]]
<1>1. /\ S = 1..Len(OtherShares) /\ OtherShares \in [S -> Nat]
      /\ Len(OtherShares) \in Nat
  BY ShareAssumption, LenProperties
<1>2. IsFiniteSet(S)
  BY <1>1, FS_Interval
<1> HIDE DEF S
<1>3. \A i \in S : /\ amount * OtherShares[i] \in Nat
                   /\ (amount * OtherShares[i]) \div 100 \in Nat
                   /\ 100 * ((amount * OtherShares[i]) \div 100)
                        <= amount * OtherShares[i]
  BY <1>1, NatProduct, NatQuotient
<1>4. f \in [S -> Int] /\ g \in [S -> Int] /\ h \in [S -> Int]
  BY <1>3
<1>5. Total(g) = 100 * Total(f)
  <2> HIDE DEF f
  <2> QED
    BY <1>2, <1>4, TotalScale
<1>6. Total(h) = amount * OthersPercent
  <2>1. OtherShares \in [S -> Int] /\ amount \in Int
    BY <1>1
  <2> QED
    BY <1>2, <2>1, TotalScale DEF OthersPercent
<1>7. Total(g) <= Total(h)
  <2>1. \A i \in S : g[i] <= h[i]
    BY <1>3
  <2> HIDE DEF g, h
  <2> QED
    BY <1>2, <1>4, <2>1, TotalMono
<1>8. OtherAccountsShare(amount) = Total(f)
  BY DEF OtherAccountsShare, S
<1>9. OthersPercent \in Nat /\ OthersPercent < 100
  BY OthersPercentType
<1> DEFINE o == Total(f)
           a == amount * OthersPercent
           b == amount * (100 - OthersPercent)
<1>10. a \in Nat /\ b \in Nat /\ a + b = 100 * amount
  <2>1. 100 - OthersPercent \in Nat
    BY <1>9
  <2>2. a \in Nat /\ b \in Nat
    BY <1>9, <2>1, NatProduct
  <2>3. a + b = amount * 100
    BY <1>9
  <2> QED
    BY <2>2, <2>3
<1>11. o \in Int
  <2> HIDE DEF f
  <2> QED
    BY <1>2, <1>4, TotalInt
<1>12. 100 * o <= a
  BY <1>5, <1>6, <1>7
<1>13. ValidatorShare(amount) = b \div 100
  BY DEF ValidatorShare
<1> HIDE DEF o, a, b
<1>14. 100 * (b \div 100) <= b /\ b \div 100 \in Nat
  BY <1>10
<1> QED
  BY <1>8, <1>10, <1>11, <1>12, <1>13, <1>14 DEF o

\* The reward of a bucket is at most its part of rewards_rate of the supply,
\* however many proposals were made.
LEMMA RewardBound ==
  ASSUME Inflation, NEW stake \in Nat, NEW all_stake \in Nat,
         NEW perf \in Performance, NEW sup \in Nat,
         staking_config \in StakingConfig
  PROVE  /\ (all_stake * staking_config.rewards_rate_denominator)
              * RewardsAmount(stake, all_stake, perf, sup)
                <= (sup * staking_config.rewards_rate) * stake
         /\ all_stake = 0 => RewardsAmount(stake, all_stake, perf, sup) = 0
<1> DEFINE total == perf.successful_proposals + perf.failed_proposals
           succ == perf.successful_proposals
           rr == staking_config.rewards_rate
           d == staking_config.rewards_rate_denominator
           num == sup * stake * (rr * succ)
           den == d * total * all_stake
           R == RewardsAmount(stake, all_stake, perf, sup)
<1>1. /\ total \in Nat /\ succ \in Nat /\ succ <= total
      /\ rr \in Nat /\ d \in Nat
  BY DEF Performance, StakingConfig
<1>2. R = IF den > 0 THEN num \div den ELSE 0
  BY DEF RewardsAmount
<1>3. R \in Nat
  BY RewardsAmountType
<1> HIDE DEF R, total, succ, rr, d
<1>4. /\ sup * rr \in Nat /\ all_stake * d \in Nat
      /\ (sup * rr) * stake \in Nat
  BY <1>1, NatProduct
<1>5. (all_stake * d) * R <= (sup * rr) * stake
  <2>1. CASE den > 0
    <3> DEFINE X == (all_stake * d) * R
               Y == (sup * rr) * stake
    <3>1. /\ X \in Nat /\ Y \in Nat /\ rr * succ \in Nat
          /\ sup * stake \in Nat /\ d * total \in Nat
      BY <1>1, <1>3, <1>4, NatProduct
    <3>2. num \in Nat /\ den \in Nat
      BY <3>1, NatProduct
    <3>3. den * R <= num
      <4> HIDE DEF num, den
      <4> QED
        BY <1>2, <2>1, <3>2, QuotientBound
    <3>4. den * R = X * total /\ num = Y * succ
      BY <1>1, <1>3
    <3>5. Y * succ <= Y * total
      <4> HIDE DEF Y
      <4> QED
        BY <1>1, <3>1, LargerFactor
    <3>6. total > 0
      <4>1. total # 0
        BY <1>1, <2>1
      <4> QED
        BY <1>1, <4>1
    <3>7. X * total <= Y * total
      <4>1. Y * total \in Nat /\ Y * succ \in Nat /\ X * total \in Nat
        <5> HIDE DEF X, Y
        <5> QED
          BY <1>1, <3>1, NatProduct
      <4> HIDE DEF X, Y, num, den
      <4> QED
        BY <3>3, <3>4, <3>5, <4>1
    <3> HIDE DEF X, Y
    <3>8. X <= Y
      BY <1>1, <3>1, <3>6, <3>7, CancelFactor
    <3> QED
      BY <3>8 DEF X, Y
  <2>2. CASE ~ (den > 0)
    <3>1. R = 0
      BY <1>2, <2>2
    <3>2. (all_stake * d) * R = 0
      <4> DEFINE k == all_stake * d
      <4>1. k \in Nat
        BY <1>4
      <4> HIDE DEF k
      <4>2. k * R = 0
        BY <3>1, <4>1
      <4> QED
        BY <4>2 DEF k
    <3> QED
      BY <1>4, <3>2
  <2> QED
    BY <2>1, <2>2
<1>6. all_stake = 0 => R = 0
  <2> SUFFICES ASSUME all_stake = 0 PROVE R = 0
    OBVIOUS
  <2>1. d * total \in Nat
    BY <1>1, NatProduct
  <2>2. den = 0
    BY <2>1
  <2> HIDE DEF den
  <2> QED
    BY <1>2, <2>2
<1> QED
  BY <1>5, <1>6 DEF R, rr, d

-----------------------------------------------------------------------------
(* What an epoch change does to one pool *)

\* All that a pool is owed.
Holdings(sp) == NextEpochVotingPower(sp) + sp.inactive

\* What a validator's rewards mint for the pool, and for the other accounts.
MintedFor(reward) ==
  ValidatorShare(reward.active) + ValidatorShare(reward.pending_inactive)
SharedFor(reward) ==
  OtherAccountsShare(reward.active)
    + OtherAccountsShare(reward.pending_inactive)

\* Rewards go to the pool, and lower no bucket.
LEMMA AddFacts ==
  ASSUME NEW sp \in StakePool, NEW reward \in Rewards
  PROVE  LET a == Add(sp, reward) IN
           /\ a \in StakePool
           /\ Holdings(a) = Holdings(sp) + MintedFor(reward)
           /\ NextEpochVotingPower(a) >= NextEpochVotingPower(sp)
           /\ a.locked_until_secs = sp.locked_until_secs
<1> DEFINE m == ValidatorShare(reward.active)
           n == ValidatorShare(reward.pending_inactive)
           a == Add(sp, reward)
<1>1. m \in Nat /\ n \in Nat
  BY ValidatorShareType DEF Rewards
<1>2. /\ a.active = sp.active + m /\ a.pending_inactive = sp.pending_inactive + n
      /\ a.pending_active = sp.pending_active /\ a.inactive = sp.inactive
      /\ a.locked_until_secs = sp.locked_until_secs
  BY DEF Add, StakePool
<1>3. a \in StakePool
  BY AddType
<1>4. MintedFor(reward) = m + n
  BY DEF MintedFor
<1> HIDE DEF m, n, a
<1>5. /\ Holdings(a) = Holdings(sp) + MintedFor(reward)
      /\ NextEpochVotingPower(a) >= NextEpochVotingPower(sp)
  BY <1>1, <1>2, <1>4 DEF Holdings, NextEpochVotingPower, StakePool
<1> QED
  BY <1>2, <1>3, <1>5 DEF a

\* update_stake_pool loses nothing, and frees stake of an expired lockup only.
LEMMA SettleFacts ==
  ASSUME NEW sp \in StakePool, NEW fee \in Nat, NEW start \in Nat
  PROVE  LET s == Settle(sp, fee, start) IN
           /\ s \in StakePool
           /\ Holdings(s) = Holdings(sp) + fee
           /\ NextEpochVotingPower(s) < NextEpochVotingPower(sp)
                => start >= sp.locked_until_secs
           /\ s.locked_until_secs = sp.locked_until_secs
           /\ s.pending_active = 0
<1> DEFINE s == Settle(sp, fee, start)
<1>1. s \in StakePool
  BY SettleType
<1>2. /\ s.active = sp.active + sp.pending_active + fee
      /\ s.pending_active = 0
      /\ s.locked_until_secs = sp.locked_until_secs
      /\ \/ /\ start >= sp.locked_until_secs
            /\ s.pending_inactive = 0
            /\ s.inactive = sp.inactive + sp.pending_inactive
         \/ /\ s.pending_inactive = sp.pending_inactive
            /\ s.inactive = sp.inactive
  BY DEF Settle, StakePool
<1> HIDE DEF s
<1>3. /\ Holdings(s) = Holdings(sp) + fee
      /\ NextEpochVotingPower(s) < NextEpochVotingPower(sp)
           => start >= sp.locked_until_secs
  BY <1>2 DEF Holdings, NextEpochVotingPower, StakePool
<1> QED
  BY <1>1, <1>2, <1>3 DEF s

\* A renewed lockup ends no earlier and changes no bucket.
LEMMA RenewFacts ==
  ASSUME NEW sp \in StakePool, NEW start \in Nat, NEW secs \in Nat,
         start <= secs, staking_config \in StakingConfig
  PROVE  LET r == Renew(sp, start, secs) IN
           /\ r \in StakePool
           /\ Holdings(r) = Holdings(sp)
           /\ NextEpochVotingPower(r) = NextEpochVotingPower(sp)
           /\ r.locked_until_secs >= sp.locked_until_secs
           /\ r.pending_active = sp.pending_active
<1> DEFINE r == Renew(sp, start, secs)
           d == staking_config.recurring_lockup_duration_secs
<1>1. d \in Nat
  BY DEF StakingConfig
<1>2. r \in StakePool
  BY RenewType
<1>3. /\ r.active = sp.active /\ r.pending_active = sp.pending_active
      /\ r.pending_inactive = sp.pending_inactive /\ r.inactive = sp.inactive
      /\ r.locked_until_secs = IF sp.locked_until_secs <= start
                               THEN secs + d ELSE sp.locked_until_secs
  BY DEF Renew, StakePool
<1> HIDE DEF d
<1>4. r.locked_until_secs >= sp.locked_until_secs
  BY <1>1, <1>3 DEF StakePool
<1> HIDE DEF r
<1> QED
  BY <1>2, <1>3, <1>4 DEF Holdings, NextEpochVotingPower, r

\* A current validator's pool after rewards and fees.
FeeOf(p, fees) == IF CollectFees THEN fees[p] ELSE 0
SettledOf(p, perf, fees, sup, start) ==
  IF p \in CurrentValidators
  THEN Settle(Add(pools[p], RewardOf(p, perf, sup)), FeeOf(p, fees), start)
  ELSE pools[p]

\* What all current validators' rewards mint for pools, and for the others.
MintedIn(perf, sup) ==
  Total([p \in CurrentValidators |-> MintedFor(RewardOf(p, perf, sup))])
SharedIn(perf, sup) ==
  Total([p \in CurrentValidators |-> SharedFor(RewardOf(p, perf, sup))])

\* Every pool is settled; one that stays in the set may have its lockup
\* renewed.
SettlesPools(perf, fees, sup, start, secs) ==
  \A p \in Pool :
    LET s == SettledOf(p, perf, fees, sup, start) IN
      \/ pools'[p] = s
      \/ p \in InValidatorSet /\ pools'[p] = Renew(s, start, secs)

\* What a queue's entries have in voting power.
Powers(q) == Total([i \in DOMAIN q |-> q[i].voting_power])

\* on_new_epoch, without the names of its LET: who got what.
LEMMA OnNewEpochEffects ==
  ASSUME IInv, NEW perf \in Seq(Performance),
         Len(perf) = Len(validator_perf),
         NEW fees \in [Pool -> Nat], NEW store \in Int,
         NEW sup \in Nat, NEW circ \in Nat, circ <= sup,
         NEW start \in Nat, NEW secs \in Nat,
         OnNewEpoch(perf, fees, store, sup, circ, start, secs)
  PROVE  /\ SettlesPools(perf, fees, sup, start, secs)
         /\ total_voting_power' = Powers(active_validators')
         /\ total_joining_power' = 0
         /\ fees_table' = [p \in Pool |->
              IF CollectFees /\ p \in CurrentValidators THEN 0 ELSE fees[p]]
         /\ pool_store' = store + MintedIn(perf, sup)
         /\ circulating' = circ + SharedIn(perf, sup)
         /\ supply' = sup + MintedIn(perf, sup) + SharedIn(perf, sup)
<1> DEFINE
      reward == [p \in CurrentValidators |-> RewardOf(p, perf, sup)]
      settled == [p \in Pool |->
        IF p \in CurrentValidators
        THEN Settle(Add(pools[p], reward[p]),
                    IF CollectFees THEN fees[p] ELSE 0, start)
        ELSE pools[p]]
      cand == AppendPopped(active_validators, pending_active)
      addr(keep, i) == cand[keep[i]].addr
      next(n, keep) == {addr(keep, i) : i \in 1..n}
      indexed(keep, i) ==
        [consensus_pubkey |-> config[addr(keep, i)].consensus_pubkey,
         validator_index |-> i - 1]
      Result(n, keep) ==
        /\ active_validators' = [i \in 1..n |->
             ValidatorInfoOf(addr(keep, i), settled[addr(keep, i)],
                             [k \in 1..n |-> indexed(keep, k)][i])]
        /\ pools' = [p \in Pool |->
             IF p \in next(n, keep) THEN Renew(settled[p], start, secs)
                                    ELSE settled[p]]
        /\ total_voting_power' = Total([i \in 1..n |->
             NextEpochVotingPower(settled[addr(keep, i)])])
<1>1. \E n \in 0..Len(cand) : \E keep \in [1..n -> 1..Len(cand)] :
        Result(n, keep)
  BY ZenonT(60) DEF OnNewEpoch, Picks, RewardOf
<1>2. PICK n \in 0..Len(cand) : \E keep \in [1..n -> 1..Len(cand)] :
        Result(n, keep)
  BY <1>1
<1>3. PICK keep \in [1..n -> 1..Len(cand)] : Result(n, keep)
  BY <1>2
<1>4. \A p \in Pool : settled[p] = SettledOf(p, perf, fees, sup, start)
  BY DEF SettledOf, FeeOf
<1> DEFINE N == next(n, keep)
<1>5. N \subseteq InValidatorSet
  <2>1. /\ active_validators \in Seq(ValidatorInfo)
        /\ pending_active \in Seq(ValidatorInfo)
        /\ NoDuplicates(active_validators) /\ NoDuplicates(pending_active)
        /\ Members(active_validators) \cap Members(pending_active) = {}
    BY DEF IInv, TypeOK, QueuesDisjoint, CurrentValidators
  <2>2. Members(active_validators) \cup Members(pending_active)
          \subseteq InValidatorSet
    BY DEF InValidatorSet, CurrentValidators
  <2>3. \A i \in 1..Len(cand) : cand[i].addr \in InValidatorSet
    BY <2>1, <2>2, AppendPoppedFacts
  <2> HIDE DEF cand
  <2> QED
    BY <2>3
<1> HIDE DEF settled, cand
<1>6. SettlesPools(perf, fees, sup, start, secs)
  <2> SUFFICES ASSUME NEW p \in Pool
        PROVE \/ pools'[p] = SettledOf(p, perf, fees, sup, start)
              \/ /\ p \in InValidatorSet
                 /\ pools'[p] =
                      Renew(SettledOf(p, perf, fees, sup, start), start, secs)
    BY Zenon DEF SettlesPools
  <2>1. pools'[p] = IF p \in N THEN Renew(settled[p], start, secs)
                               ELSE settled[p]
    BY <1>3
  <2> HIDE DEF N
  <2> QED
    BY <1>4, <1>5, <2>1
<1>7. total_voting_power' = Powers(active_validators')
  <2>1. DOMAIN active_validators' = 1..n
    BY <1>3
  <2>2. \A i \in 1..n : active_validators'[i].voting_power
                          = NextEpochVotingPower(settled[addr(keep, i)])
    BY <1>3 DEF ValidatorInfoOf
  <2>3. [i \in DOMAIN active_validators' |-> active_validators'[i].voting_power]
          = [i \in 1..n |-> NextEpochVotingPower(settled[addr(keep, i)])]
    BY <2>1, <2>2
  <2>4. total_voting_power' =
          Total([i \in 1..n |-> NextEpochVotingPower(settled[addr(keep, i)])])
    BY <1>3
  <2> QED
    BY <2>3, <2>4, Zenon DEF Powers
<1>8. /\ total_joining_power' = 0
      /\ fees_table' = [p \in Pool |->
           IF CollectFees /\ p \in CurrentValidators THEN 0 ELSE fees[p]]
  BY DEF OnNewEpoch
<1> DEFINE
      minted == Total([p \in CurrentValidators |->
        ValidatorShare(reward[p].active)
        + ValidatorShare(reward[p].pending_inactive)])
      shared == Total([p \in CurrentValidators |->
        OtherAccountsShare(reward[p].active)
        + OtherAccountsShare(reward[p].pending_inactive)])
<1>9. /\ pool_store' = store + minted
      /\ circulating' = circ + shared
      /\ supply' = sup + minted + shared
  BY DEF OnNewEpoch, RewardOf, reward
<1>10. [p \in CurrentValidators |-> ValidatorShare(reward[p].active)
           + ValidatorShare(reward[p].pending_inactive)]
         = [p \in CurrentValidators |-> MintedFor(RewardOf(p, perf, sup))]
  BY DEF MintedFor
<1>11. [p \in CurrentValidators |-> OtherAccountsShare(reward[p].active)
           + OtherAccountsShare(reward[p].pending_inactive)]
         = [p \in CurrentValidators |-> SharedFor(RewardOf(p, perf, sup))]
  BY DEF SharedFor
<1>12. minted = MintedIn(perf, sup) /\ shared = SharedIn(perf, sup)
  <2> HIDE DEF reward
  <2> QED
    BY <1>10, <1>11, Zenon DEF MintedIn, SharedIn
<1> HIDE DEF minted, shared
<1> QED
  BY <1>6, <1>7, <1>8, <1>9, <1>12

-----------------------------------------------------------------------------
(* The two kinds of block *)

\* A block that ends the epoch, and one that does not.
Ends(perf, fees, fee, burnt, t) ==
  EndEpoch(perf, fees, pool_store + fee, supply - burnt,
           circulating - fee - burnt, Secs(t))

Runs(perf, fees, fee, burnt, t) ==
  /\ validator_perf' = perf
  /\ fees_table' = fees
  /\ pool_store' = pool_store + fee
  /\ supply' = supply - burnt
  /\ circulating' = circulating - fee - burnt
  /\ StartReconfiguration(Secs(t)) \/ UNCHANGED reconf
  /\ UNCHANGED <<pools, config, queueVars, powerVars,
                 last_reconfiguration_time>>

\* Every system transaction is one or the other.
LEMMA BlockCases ==
  ASSUME IInv, NEW proposer, NEW failed, NEW payee \in CurrentValidators,
         NEW fee \in Nat, NEW burnt \in Nat, NEW t, NEW kind,
         Block(proposer, failed, payee, fee, burnt, t, kind)
  PROVE  LET perf == Scored(proposer, failed)
             fees == Credited(payee, fee) IN
           /\ perf \in Seq(Performance) /\ Len(perf) = Len(validator_perf)
           /\ fees \in [Pool -> Nat]
           /\ fee + burnt <= circulating /\ now' = t
           /\ UNCHANGED <<registered, wallet, staking_config>>
           /\ \/ kind = "end" /\ Ends(perf, fees, fee, burnt, t)
              \/ kind # "end" /\ Runs(perf, fees, fee, burnt, t)
<1> DEFINE perf == Scored(proposer, failed)
           fees == Credited(payee, fee)
<1>1. payee \in Pool
  BY CurrentFacts
<1>2. /\ perf \in Seq(Performance) /\ Len(perf) = Len(validator_perf)
      /\ fees \in [Pool -> Nat]
  BY <1>1, ScoredType, CreditedType
<1>3. /\ fee + burnt <= circulating /\ now' = t
      /\ UNCHANGED <<registered, wallet, staking_config>>
  BY DEF Block
<1>4. CASE kind = "end"
  <2>1. Ends(perf, fees, fee, burnt, t)
    BY <1>4 DEF Block, Ends
  <2> QED
    BY <1>2, <1>3, <1>4, <2>1
<1>5. CASE kind # "end"
  <2>1. Runs(perf, fees, fee, burnt, t)
    BY <1>5 DEF Block, Runs
  <2> QED
    BY <1>2, <1>3, <1>5, <2>1
<1> QED
  BY <1>4, <1>5

\* What SystemStep names.
LEMMA SystemStepCases ==
  ASSUME IInv, SystemStep
  PROVE  \E payee \in CurrentValidators, perf \in Seq(Performance),
            fee, burnt \in Nat, t \in Nat :
           LET fees == Credited(payee, fee) IN
             /\ Len(perf) = Len(validator_perf)
             /\ fees \in [Pool -> Nat]
             /\ fee + burnt <= circulating /\ now' = t /\ now <= t
             /\ UNCHANGED <<registered, wallet, staking_config>>
             /\ \/ Ends(perf, fees, fee, burnt, t)
                \/ Runs(perf, fees, fee, burnt, t)
<1>1. PICK proposer \in CurrentValidators \cup {NoProposer},
           failed \in SUBSET DOMAIN validator_perf,
           payee \in CurrentValidators, fee \in 0..circulating,
           burnt \in 0..circulating, t \in now..MaxTime, kind \in Kinds :
        Block(proposer, failed, payee, fee, burnt, t, kind)
  BY DEF SystemStep
<1>2. circulating \in Nat /\ now \in Nat /\ MaxTime \in Nat
  BY BoundAssumption DEF IInv, TypeOK
<1>3. fee \in Nat /\ burnt \in Nat /\ t \in Nat /\ now <= t
  BY <1>2
<1> DEFINE perf == Scored(proposer, failed)
           fees == Credited(payee, fee)
<1>4. /\ perf \in Seq(Performance) /\ Len(perf) = Len(validator_perf)
      /\ fees \in [Pool -> Nat]
      /\ fee + burnt <= circulating /\ now' = t
      /\ UNCHANGED <<registered, wallet, staking_config>>
      /\ \/ Ends(perf, fees, fee, burnt, t)
         \/ Runs(perf, fees, fee, burnt, t)
  BY <1>1, <1>3, BlockCases
<1> HIDE DEF perf
<1> QED
  BY <1>3, <1>4

-----------------------------------------------------------------------------
(* Inflation *)

\* What an epoch change mints is a natural number, and within rewards_rate of
\* the supply: every bucket gets at most its part of it, the buckets' parts
\* are those of one whole, and the split hands out no more than the reward.
LEMMA MintedWithinRate ==
  ASSUME IInv, NEW perf \in Seq(Performance),
         Len(perf) = Len(validator_perf), NEW sup \in Nat
  PROVE  /\ MintedIn(perf, sup) \in Nat /\ SharedIn(perf, sup) \in Nat
         /\ Inflation =>
              (MintedIn(perf, sup) + SharedIn(perf, sup))
                  * staking_config.rewards_rate_denominator
                <= sup * staking_config.rewards_rate
<1> DEFINE C == CurrentValidators
           f == [p \in C |-> MintedFor(RewardOf(p, perf, sup))]
           g == [p \in C |-> SharedFor(RewardOf(p, perf, sup))]
           s == [p \in C |-> f[p] + g[p]]
           e == [p \in C |-> RewardOf(p, perf, sup).active
                               + RewardOf(p, perf, sup).pending_inactive]
           st == [p \in C |-> pools[p].active + pools[p].pending_inactive]
           d == staking_config.rewards_rate_denominator
           rr == staking_config.rewards_rate
           k == TotalStake * d
           m == sup * rr
           E == Total(e)
<1>1. /\ C \subseteq Pool /\ IsFiniteSet(C)
      /\ \A p \in C : perf[config[p].validator_index + 1] \in Performance
  BY CurrentFacts, ElementOfSeq
<1>2. staking_config \in StakingConfig /\ d \in Nat /\ rr \in Nat
  BY ConfigAssumption DEF IInv, TypeOK, StakingConfig
<1>3. TotalStake \in Nat
  BY TotalStakeType
<1>4. \A p \in C : /\ RewardOf(p, perf, sup).active \in Nat
                   /\ RewardOf(p, perf, sup).pending_inactive \in Nat
  BY RewardOfType DEF Rewards
<1>5. \A p \in C : /\ pools[p].active \in Nat /\ pools[p].pending_inactive \in Nat
  <2>1. \A p \in Pool : pools[p].active \in Nat /\ pools[p].pending_inactive \in Nat
    BY DEF IInv, TypeOK, StakePool
  <2> QED
    BY <1>1, <2>1
<1> HIDE DEF C
<1>6. \A p \in C :
        /\ MintedFor(RewardOf(p, perf, sup)) \in Nat
        /\ SharedFor(RewardOf(p, perf, sup)) \in Nat
        /\ MintedFor(RewardOf(p, perf, sup)) + SharedFor(RewardOf(p, perf, sup))
             <= RewardOf(p, perf, sup).active
                  + RewardOf(p, perf, sup).pending_inactive
  <2> SUFFICES ASSUME NEW p \in C
        PROVE /\ MintedFor(RewardOf(p, perf, sup)) \in Nat
              /\ SharedFor(RewardOf(p, perf, sup)) \in Nat
              /\ MintedFor(RewardOf(p, perf, sup))
                   + SharedFor(RewardOf(p, perf, sup))
                   <= RewardOf(p, perf, sup).active
                        + RewardOf(p, perf, sup).pending_inactive
    BY Zenon
  <2> DEFINE x == RewardOf(p, perf, sup).active
             y == RewardOf(p, perf, sup).pending_inactive
  <2>1. x \in Nat /\ y \in Nat
    BY <1>4
  <2>2. /\ MintedFor(RewardOf(p, perf, sup))
             = ValidatorShare(x) + ValidatorShare(y)
        /\ SharedFor(RewardOf(p, perf, sup))
             = OtherAccountsShare(x) + OtherAccountsShare(y)
    BY DEF MintedFor, SharedFor
  <2> HIDE DEF x, y
  <2>3. /\ ValidatorShare(x) \in Nat /\ ValidatorShare(y) \in Nat
        /\ OtherAccountsShare(x) \in Nat /\ OtherAccountsShare(y) \in Nat
        /\ ValidatorShare(x) + OtherAccountsShare(x) <= x
        /\ ValidatorShare(y) + OtherAccountsShare(y) <= y
    BY <2>1, ValidatorShareType, OtherAccountsShareType, SharesFit
  <2>4. /\ MintedFor(RewardOf(p, perf, sup)) \in Nat
        /\ SharedFor(RewardOf(p, perf, sup)) \in Nat
        /\ MintedFor(RewardOf(p, perf, sup))
             + SharedFor(RewardOf(p, perf, sup)) <= x + y
    BY <2>1, <2>2, <2>3
  <2> QED
    BY <2>4 DEF x, y
<1>7. /\ f \in [C -> Nat] /\ g \in [C -> Nat] /\ e \in [C -> Nat]
      /\ st \in [C -> Nat] /\ s \in [C -> Int]
      /\ \A p \in C : s[p] <= e[p]
  BY <1>4, <1>5, <1>6
<1>8. TotalStake = Total(st)
  BY DEF TotalStake, C
<1>9. Inflation => \A p \in C : k * e[p] <= m * st[p]
  <2> SUFFICES ASSUME Inflation, NEW p \in C PROVE k * e[p] <= m * st[p]
    OBVIOUS
  <2> DEFINE x == RewardOf(p, perf, sup).active
             y == RewardOf(p, perf, sup).pending_inactive
             v == pools[p].active
             w == pools[p].pending_inactive
             pf == perf[config[p].validator_index + 1]
  <2>1. /\ x = RewardsAmount(v, TotalStake, pf, sup)
        /\ y = RewardsAmount(w, TotalStake, pf, sup)
    BY DEF RewardOf
  <2>2. v \in Nat /\ w \in Nat /\ pf \in Performance /\ x \in Nat /\ y \in Nat
    BY <1>1, <1>4, <1>5
  <2> HIDE DEF x, y, v, w, pf
  <2>3. k * x <= m * v /\ k * y <= m * w
    BY <1>2, <1>3, <2>1, <2>2, RewardBound
  <2>4. k \in Nat /\ m \in Nat
    BY <1>2, <1>3, NatProduct
  <2> HIDE DEF k, m
  <2>5. k * (x + y) = k * x + k * y /\ m * (v + w) = m * v + m * w
    BY <2>2, <2>4
  <2>6. /\ k * x \in Nat /\ k * y \in Nat /\ m * v \in Nat /\ m * w \in Nat
    BY <2>2, <2>4, NatProduct
  <2>7. k * (x + y) <= m * (v + w)
    BY <2>3, <2>5, <2>6
  <2> QED
    BY <2>7 DEF x, y, v, w
<1>10. TotalStake = 0 /\ Inflation => E = 0
  <2> SUFFICES ASSUME TotalStake = 0, Inflation PROVE E = 0
    OBVIOUS
  <2>1. \A p \in C : e[p] = 0
    <3> SUFFICES ASSUME NEW p \in C PROVE e[p] = 0
      OBVIOUS
    <3> DEFINE pf == perf[config[p].validator_index + 1]
    <3>1. /\ RewardsAmount(pools[p].active, TotalStake, pf, sup) = 0
          /\ RewardsAmount(pools[p].pending_inactive, TotalStake, pf, sup) = 0
      BY <1>1, <1>2, <1>3, <1>5, RewardBound
    <3> QED
      BY <3>1 DEF RewardOf
  <2>2. e = [p \in C |-> 0 * e[p]]
    BY <1>7, <2>1
  <2>3. Total([p \in C |-> 0 * e[p]]) = 0 * E
    <3>1. e \in [C -> Int] /\ 0 \in Int
      BY <1>7
    <3> HIDE DEF e
    <3> QED
      BY <1>1, <3>1, TotalScale
  <2>4. E = 0 * E
    BY <2>2, <2>3, Zenon
  <2>5. E \in Int
    <3>1. e \in [C -> Int]
      BY <1>7
    <3> HIDE DEF e
    <3> QED
      BY <1>1, <3>1, TotalInt
  <2> HIDE DEF E
  <2> QED
    BY <2>4, <2>5
<1> HIDE DEF f, g, e, st
<1>11. /\ Total(f) \in Nat /\ Total(g) \in Nat /\ E \in Nat
       /\ Total(st) \in Nat
  BY <1>1, <1>7, TotalNat
<1>12. Total(f) + Total(g) <= E
  <2>1. f \in [C -> Int] /\ g \in [C -> Int] /\ e \in [C -> Int]
    BY <1>7
  <2>2. Total(s) = Total(f) + Total(g)
    BY <1>1, <2>1, TotalAdd
  <2> HIDE DEF s
  <2>3. Total(s) <= Total(e)
    BY <1>1, <1>7, <2>1, TotalMono
  <2> QED
    BY <2>2, <2>3
<1>13. Inflation => E * d <= m
  <2> SUFFICES ASSUME Inflation, TotalStake # 0 PROVE E * d <= m
    BY <1>2, <1>10, NatProduct
  <2> DEFINE ke == [p \in C |-> k * e[p]]
             ms == [p \in C |-> m * st[p]]
  <2>1. k \in Nat /\ m \in Nat
    BY <1>2, <1>3, NatProduct
  <2> HIDE DEF k, m
  <2>2. /\ e \in [C -> Int] /\ st \in [C -> Int] /\ k \in Int /\ m \in Int
        /\ ke \in [C -> Int] /\ ms \in [C -> Int]
        /\ \A p \in C : ke[p] <= ms[p]
    BY <1>7, <1>9, <2>1
  <2>3. Total(ke) = k * E /\ Total(ms) = m * Total(st)
    BY <1>1, <2>2, TotalScale
  <2>4. Total(ke) <= Total(ms)
    <3> HIDE DEF ke, ms
    <3> QED
      BY <1>1, <2>2, TotalMono
  <2>5. k * E <= m * TotalStake
    BY <1>8, <2>3, <2>4, Zenon
  <2> HIDE DEF E
  <2>6. (E * d) * TotalStake <= m * TotalStake
    BY <1>2, <1>3, <1>11, <2>5 DEF k
  <2>7. E * d \in Nat /\ TotalStake > 0
    BY <1>2, <1>3, <1>11, NatProduct
  <2> QED
    BY <1>3, <2>1, <2>6, <2>7, CancelFactor
<1>14. Inflation => (Total(f) + Total(g)) * d <= m
  <2> DEFINE F == Total(f) + Total(g)
  <2>1. F \in Nat /\ F <= E
    BY <1>11, <1>12
  <2> HIDE DEF F, E
  <2>2. d * F <= d * E
    BY <1>2, <1>11, <2>1, LargerFactor
  <2>3. d * F = F * d /\ d * E = E * d
    BY <1>2, <1>11, <2>1
  <2>4. F * d \in Nat /\ E * d \in Nat /\ m \in Nat
    BY <1>2, <1>11, <2>1, NatProduct
  <2> HIDE DEF m
  <2>5. Inflation => F * d <= m
    BY <1>13, <2>2, <2>3, <2>4
  <2> QED
    BY <2>5 DEF F
<1>15. MintedIn(perf, sup) = Total(f) /\ SharedIn(perf, sup) = Total(g)
  BY DEF MintedIn, SharedIn, f, g, C
<1> QED
  BY <1>11, <1>14, <1>15

-----------------------------------------------------------------------------
(* What happens to pools *)

\* Seconds do not run backwards.
LEMMA SecsMono ==
  ASSUME NEW a \in Nat, NEW b \in Nat, a <= b
  PROVE  Secs(a) <= Secs(b)
<1>1. TicksPerSec \in Nat /\ TicksPerSec > 0
  BY BoundAssumption
<1> QED
  BY <1>1 DEF Secs

\* Every pool after an epoch change: it has what it had, its rewards and its
\* fees, and less voting power only if its lockup had run out.
LEMMA PoolsAfterEpoch ==
  ASSUME IInv, NEW perf \in Seq(Performance),
         Len(perf) = Len(validator_perf),
         NEW fees \in [Pool -> Nat], NEW store \in Int,
         NEW sup \in Nat, NEW circ \in Nat, circ <= sup,
         NEW start \in Nat, NEW secs \in Nat, start <= secs,
         OnNewEpoch(perf, fees, store, sup, circ, start, secs),
         NEW p \in Pool
  PROVE  /\ pools[p] \in StakePool /\ pools'[p] \in StakePool
         /\ p \in CurrentValidators =>
              Holdings(pools'[p]) = Holdings(pools[p])
                + MintedFor(RewardOf(p, perf, sup)) + FeeOf(p, fees)
         /\ p \notin CurrentValidators =>
              Holdings(pools'[p]) = Holdings(pools[p])
         /\ NextEpochVotingPower(pools'[p]) < NextEpochVotingPower(pools[p])
              => p \in CurrentValidators /\ start >= pools[p].locked_until_secs
         /\ pools'[p].locked_until_secs >= pools[p].locked_until_secs
         /\ p \notin InValidatorSet => pools'[p] = pools[p]
         /\ pools'[p].pending_active = 0
<1>0. \/ pools'[p] = SettledOf(p, perf, fees, sup, start)
      \/ /\ p \in InValidatorSet
         /\ pools'[p] =
              Renew(SettledOf(p, perf, fees, sup, start), start, secs)
  <2>1. SettlesPools(perf, fees, sup, start, secs)
    BY OnNewEpochEffects
  <2> QED
    BY <2>1, Zenon DEF SettlesPools
<1> DEFINE s == SettledOf(p, perf, fees, sup, start)
<1>1. \/ pools'[p] = s
      \/ p \in InValidatorSet /\ pools'[p] = Renew(s, start, secs)
  BY <1>0
<1>2. pools[p] \in StakePool /\ staking_config \in StakingConfig
  BY ConfigAssumption DEF IInv, TypeOK
<1>3. p \notin CurrentValidators =>
        s = pools[p] /\ pools[p].pending_active = 0
  BY DEF SettledOf, IInv, PendingStakeOnlyWhileValidating
<1>4. p \in CurrentValidators =>
        /\ s \in StakePool
        /\ Holdings(s) = Holdings(pools[p])
             + MintedFor(RewardOf(p, perf, sup)) + FeeOf(p, fees)
        /\ NextEpochVotingPower(s) < NextEpochVotingPower(pools[p])
             => start >= pools[p].locked_until_secs
        /\ s.locked_until_secs = pools[p].locked_until_secs
        /\ s.pending_active = 0
  <2> SUFFICES ASSUME p \in CurrentValidators
        PROVE /\ s \in StakePool
              /\ Holdings(s) = Holdings(pools[p])
                   + MintedFor(RewardOf(p, perf, sup)) + FeeOf(p, fees)
              /\ NextEpochVotingPower(s) < NextEpochVotingPower(pools[p])
                   => start >= pools[p].locked_until_secs
              /\ s.locked_until_secs = pools[p].locked_until_secs
              /\ s.pending_active = 0
    BY Zenon
  <2> DEFINE r == RewardOf(p, perf, sup)
             a == Add(pools[p], r)
             fee == FeeOf(p, fees)
  <2>1. r \in Rewards /\ fee \in Nat
    BY RewardOfType DEF FeeOf
  <2>2. s = Settle(a, fee, start)
    BY DEF SettledOf
  <2> HIDE DEF r, fee, s
  <2>3. /\ a \in StakePool
        /\ Holdings(a) = Holdings(pools[p]) + MintedFor(r)
        /\ NextEpochVotingPower(a) >= NextEpochVotingPower(pools[p])
        /\ a.locked_until_secs = pools[p].locked_until_secs
    BY <1>2, <2>1, AddFacts
  <2> HIDE DEF a
  <2>4. /\ s \in StakePool /\ Holdings(s) = Holdings(a) + fee
        /\ NextEpochVotingPower(s) < NextEpochVotingPower(a)
             => start >= a.locked_until_secs
        /\ s.locked_until_secs = a.locked_until_secs
        /\ s.pending_active = 0
    BY <2>1, <2>2, <2>3, SettleFacts
  <2>5. /\ NextEpochVotingPower(s) \in Nat /\ NextEpochVotingPower(a) \in Nat
        /\ NextEpochVotingPower(pools[p]) \in Nat
    BY <1>2, <2>3, <2>4, NextEpochVotingPowerType
  <2>6. NextEpochVotingPower(s) < NextEpochVotingPower(pools[p])
          => start >= pools[p].locked_until_secs
    BY <2>3, <2>4, <2>5
  <2>7. Holdings(s) = Holdings(pools[p]) + MintedFor(r) + fee
    BY <2>3, <2>4
  <2> QED
    BY <2>3, <2>4, <2>6, <2>7 DEF r, fee
<1>5. s \in StakePool
  BY <1>2, <1>3, <1>4
<1> HIDE DEF s
<1>6. /\ pools'[p] \in StakePool
      /\ Holdings(pools'[p]) = Holdings(s)
      /\ NextEpochVotingPower(pools'[p]) = NextEpochVotingPower(s)
      /\ pools'[p].locked_until_secs >= s.locked_until_secs
      /\ pools'[p].pending_active = s.pending_active
  <2>1. CASE pools'[p] = s
    BY <1>5, <2>1 DEF StakePool
  <2>2. CASE pools'[p] = Renew(s, start, secs)
    BY <1>2, <1>5, <2>2, RenewFacts
  <2> QED
    BY <1>1, <2>1, <2>2
<1>7. p \in CurrentValidators => p \in InValidatorSet
  BY DEF InValidatorSet
<1>8. CASE p \in CurrentValidators
  BY <1>2, <1>4, <1>6, <1>7, <1>8
<1>9. CASE p \notin CurrentValidators
  <2>1. NextEpochVotingPower(pools[p]) \in Nat
    BY <1>2, NextEpochVotingPowerType
  <2>2. p \notin InValidatorSet => pools'[p] = pools[p]
    BY <1>1, <1>3, <1>9
  <2> QED
    BY <1>2, <1>3, <1>6, <1>9, <2>1, <2>2
<1> QED
  BY <1>8, <1>9

\* The part of a pool's stake that is an increase of voting power.
Joining(p, sp) ==
  IF p \in Members(pending_active) THEN NextEpochVotingPower(sp)
  ELSE IF p \in Members(active_validators) THEN sp.pending_active
  ELSE 0

\* What an owner operation makes of pool p, now sp, and of the owner's wallet.
OwnerEffect(p, sp, coins) ==
  /\ pools' = [pools EXCEPT ![p] = sp]
  /\ wallet' = [wallet EXCEPT ![p] = coins]
  /\ pool_store' - pool_store = Holdings(sp) - Holdings(pools[p])
  /\ wallet[p] - coins = Holdings(sp) - Holdings(pools[p])
  /\ total_joining_power' - total_joining_power
       = Joining(p, sp) - Joining(p, pools[p])
  /\ NextEpochVotingPower(sp) < NextEpochVotingPower(pools[p])
       => p \notin InValidatorSet /\ Secs(now) >= pools[p].locked_until_secs
  /\ sp.locked_until_secs >= pools[p].locked_until_secs
  /\ registered' = registered \cup {p}
  /\ UNCHANGED <<queueVars, total_voting_power, fees_table, staking_config,
                 circulating, supply, clockVars>>

-----------------------------------------------------------------------------
(* Owner operations *)

\* What an owner operation on pool p can count on.
LEMMA OwnerFacts ==
  ASSUME IInv, NEW p \in Pool
  PROVE  /\ pools \in [Pool -> StakePool] /\ pools[p] \in StakePool
         /\ wallet \in [Pool -> Nat] /\ wallet[p] \in Nat
         /\ pool_store \in Int /\ total_joining_power \in Nat
         /\ registered \subseteq Pool /\ now \in Nat
         /\ staking_config \in StakingConfig
         /\ InValidatorSet \subseteq registered
         /\ CurrentValidators \cap Members(pending_active) = {}
         /\ Members(active_validators) \subseteq CurrentValidators
         /\ CurrentValidators \subseteq InValidatorSet
         /\ Members(pending_active) \subseteq InValidatorSet
BY ConfigAssumption DEF IInv, TypeOK, QueuesDisjoint, CurrentValidators,
     InValidatorSet

\* An operation that moves stake between buckets of the same weight.
LEMMA QuietEffect ==
  ASSUME IInv, NEW p \in registered, NEW sp \in StakePool,
         pools' = [pools EXCEPT ![p] = sp],
         sp.pending_active = pools[p].pending_active,
         sp.inactive = pools[p].inactive,
         NextEpochVotingPower(sp) = NextEpochVotingPower(pools[p]),
         sp.locked_until_secs >= pools[p].locked_until_secs,
         UNCHANGED <<registered, queueVars, powerVars, fees_table,
                     staking_config, moneyVars, clockVars>>
  PROVE  \E q \in StakePool, coins \in Nat : OwnerEffect(p, q, coins)
<1>1. registered \subseteq Pool
  BY DEF IInv, TypeOK
<1>2. p \in Pool
  BY <1>1
<1>3. /\ pools[p] \in StakePool /\ wallet \in [Pool -> Nat] /\ wallet[p] \in Nat
      /\ pool_store \in Int /\ total_joining_power \in Nat
  BY <1>2, OwnerFacts
<1>4. /\ NextEpochVotingPower(sp) \in Nat
      /\ NextEpochVotingPower(pools[p]) \in Nat
  BY <1>3, NextEpochVotingPowerType
<1>5. Holdings(sp) = Holdings(pools[p]) /\ Holdings(sp) \in Nat
  BY <1>4 DEF Holdings, StakePool
<1>6. Joining(p, sp) = Joining(p, pools[p]) /\ Joining(p, sp) \in Nat
  BY <1>4 DEF Joining, StakePool
<1>7. wallet' = [wallet EXCEPT ![p] = wallet[p]]
  BY <1>3 DEF moneyVars
<1>8. /\ pool_store' - pool_store = Holdings(sp) - Holdings(pools[p])
      /\ wallet[p] - wallet[p] = Holdings(sp) - Holdings(pools[p])
      /\ total_joining_power' - total_joining_power
           = Joining(p, sp) - Joining(p, pools[p])
  BY <1>3, <1>5, <1>6 DEF moneyVars, powerVars
<1>9. registered' = registered \cup {p}
  OBVIOUS
<1>10. ~ (NextEpochVotingPower(sp) < NextEpochVotingPower(pools[p]))
  BY <1>4
<1>11. UNCHANGED <<queueVars, total_voting_power, fees_table, staking_config,
                   circulating, supply, clockVars>>
  BY DEF moneyVars, powerVars
<1>12. OwnerEffect(p, sp, wallet[p])
  BY <1>7, <1>8, <1>9, <1>10, <1>11, Zenon DEF OwnerEffect
<1> QED
  BY <1>3, <1>12

\* unlock moves stake from active to pending_inactive, and frees none of it.
LEMMA UnlockEffect ==
  ASSUME IInv, NEW p \in Pool, NEW amount \in Amount, Unlock(p, amount)
  PROVE  \E sp \in StakePool, coins \in Nat : OwnerEffect(p, sp, coins)
<1> DEFINE a == AtMost(amount, pools[p].active)
           sp == [pools[p] EXCEPT !.active = @ - a, !.pending_inactive = @ + a]
<1>1. /\ pools \in [Pool -> StakePool] /\ pools[p] \in StakePool
      /\ amount \in Nat
  BY OwnerFacts, AmountAssumption
<1>2. a \in Nat /\ a <= pools[p].active
  BY <1>1 DEF AtMost, StakePool
<1>3. pools' = [pools EXCEPT ![p] = sp]
  BY <1>1 DEF Unlock
<1> HIDE DEF a
<1>4. /\ sp.active = pools[p].active - a
      /\ sp.pending_inactive = pools[p].pending_inactive + a
      /\ sp.pending_active = pools[p].pending_active
      /\ sp.inactive = pools[p].inactive
      /\ sp.locked_until_secs = pools[p].locked_until_secs
      /\ sp \in StakePool
  <2>1. /\ pools[p].active \in Nat /\ pools[p].pending_inactive \in Nat
        /\ pools[p].active - a \in Nat
    BY <1>1, <1>2 DEF StakePool
  <2>2. /\ pools[p].active - a \in Nat
        /\ pools[p].pending_inactive + a \in Nat
    BY <1>2, <2>1
  <2> QED
    BY <1>1, <2>2 DEF StakePool
<1>5. p \in registered
      /\ UNCHANGED <<registered, queueVars, powerVars, fees_table,
                     staking_config, moneyVars, clockVars>>
  BY DEF Unlock
<1> HIDE DEF sp
<1>6. /\ NextEpochVotingPower(sp) = NextEpochVotingPower(pools[p])
      /\ sp.locked_until_secs >= pools[p].locked_until_secs
  BY <1>1, <1>2, <1>4 DEF NextEpochVotingPower, StakePool
<1> QED
  BY <1>3, <1>4, <1>5, <1>6, QuietEffect

\* reactivate_stake moves it back.
LEMMA ReactivateStakeEffect ==
  ASSUME IInv, NEW p \in Pool, NEW amount \in Amount, ReactivateStake(p, amount)
  PROVE  \E sp \in StakePool, coins \in Nat : OwnerEffect(p, sp, coins)
<1> DEFINE a == AtMost(amount, pools[p].pending_inactive)
           sp == [pools[p] EXCEPT !.active = @ + a, !.pending_inactive = @ - a]
<1>1. /\ pools \in [Pool -> StakePool] /\ pools[p] \in StakePool
      /\ amount \in Nat
  BY OwnerFacts, AmountAssumption
<1>2. a \in Nat /\ a <= pools[p].pending_inactive
  BY <1>1 DEF AtMost, StakePool
<1>3. pools' = [pools EXCEPT ![p] = sp]
  BY <1>1 DEF ReactivateStake
<1> HIDE DEF a
<1>4. /\ sp.active = pools[p].active + a
      /\ sp.pending_inactive = pools[p].pending_inactive - a
      /\ sp.pending_active = pools[p].pending_active
      /\ sp.inactive = pools[p].inactive
      /\ sp.locked_until_secs = pools[p].locked_until_secs
      /\ sp \in StakePool
  <2>1. /\ pools[p].active \in Nat /\ pools[p].pending_inactive \in Nat
        /\ pools[p].pending_inactive - a \in Nat
    BY <1>1, <1>2 DEF StakePool
  <2>2. /\ pools[p].active + a \in Nat
        /\ pools[p].pending_inactive - a \in Nat
    BY <1>2, <2>1
  <2> QED
    BY <1>1, <2>2 DEF StakePool
<1>5. p \in registered
      /\ UNCHANGED <<registered, queueVars, powerVars, fees_table,
                     staking_config, moneyVars, clockVars>>
  BY DEF ReactivateStake
<1> HIDE DEF sp
<1>6. /\ NextEpochVotingPower(sp) = NextEpochVotingPower(pools[p])
      /\ sp.locked_until_secs >= pools[p].locked_until_secs
  BY <1>1, <1>2, <1>4 DEF NextEpochVotingPower, StakePool
<1> QED
  BY <1>3, <1>4, <1>5, <1>6, QuietEffect

\* increase_lockup only moves the lockup, to a later time.
LEMMA IncreaseLockupEffect ==
  ASSUME IInv, NEW p \in Pool, IncreaseLockup(p)
  PROVE  \E sp \in StakePool, coins \in Nat : OwnerEffect(p, sp, coins)
<1> DEFINE until == Secs(now) + staking_config.recurring_lockup_duration_secs
           sp == [pools[p] EXCEPT !.locked_until_secs = until]
<1>1. /\ pools \in [Pool -> StakePool] /\ pools[p] \in StakePool
      /\ now \in Nat /\ staking_config \in StakingConfig
  BY OwnerFacts
<1>2. until \in Nat
  BY <1>1, SecsType DEF StakingConfig
<1>3. pools' = [pools EXCEPT ![p] = sp] /\ pools[p].locked_until_secs < until
  BY <1>1 DEF IncreaseLockup
<1> HIDE DEF until
<1>4. /\ sp.active = pools[p].active
      /\ sp.pending_inactive = pools[p].pending_inactive
      /\ sp.pending_active = pools[p].pending_active
      /\ sp.inactive = pools[p].inactive
      /\ sp.locked_until_secs = until
      /\ sp \in StakePool
  BY <1>1, <1>2 DEF StakePool
<1>5. p \in registered
      /\ UNCHANGED <<registered, queueVars, powerVars, fees_table,
                     staking_config, moneyVars, clockVars>>
  BY DEF IncreaseLockup
<1> HIDE DEF sp
<1>6. /\ NextEpochVotingPower(sp) = NextEpochVotingPower(pools[p])
      /\ sp.locked_until_secs >= pools[p].locked_until_secs
  BY <1>1, <1>2, <1>3, <1>4 DEF NextEpochVotingPower, StakePool
<1> QED
  BY <1>3, <1>4, <1>5, <1>6, QuietEffect

\* A new pool is empty, and was empty before: p is in no queue.
LEMMA InitializeValidatorEffect ==
  ASSUME MoneyIInv, NEW p \in Pool, NEW key \in Key, InitializeValidator(p, key)
  PROVE  \E sp \in StakePool, coins \in Nat : OwnerEffect(p, sp, coins)
<1>1. /\ pools \in [Pool -> StakePool] /\ wallet \in [Pool -> Nat]
      /\ wallet[p] \in Nat /\ pool_store \in Int /\ total_joining_power \in Nat
  BY OwnerFacts DEF MoneyIInv
<1>2. pools[p] = EmptyPool
  BY DEF MoneyIInv, InitializeValidator
<1>3. /\ pools' = [pools EXCEPT ![p] = EmptyPool]
      /\ wallet' = [wallet EXCEPT ![p] = wallet[p]]
      /\ registered' = registered \cup {p}
  BY <1>1 DEF InitializeValidator, moneyVars
<1>4. EmptyPool \in StakePool
  BY EmptyPoolType
<1>5. /\ NextEpochVotingPower(EmptyPool) \in Nat
      /\ Holdings(EmptyPool) \in Nat /\ Joining(p, EmptyPool) \in Nat
  BY <1>4, NextEpochVotingPowerType DEF Holdings, Joining, StakePool
<1>6. /\ pool_store' - pool_store = Holdings(EmptyPool) - Holdings(pools[p])
      /\ wallet[p] - wallet[p] = Holdings(EmptyPool) - Holdings(pools[p])
      /\ total_joining_power' - total_joining_power
           = Joining(p, EmptyPool) - Joining(p, pools[p])
      /\ ~ (NextEpochVotingPower(EmptyPool) < NextEpochVotingPower(pools[p]))
  BY <1>1, <1>2, <1>5 DEF InitializeValidator, moneyVars, powerVars
<1>7. /\ EmptyPool.locked_until_secs >= pools[p].locked_until_secs
      /\ UNCHANGED <<queueVars, total_voting_power, fees_table,
                     staking_config, circulating, supply, clockVars>>
  BY <1>2 DEF InitializeValidator, moneyVars, powerVars, EmptyPool
<1>8. OwnerEffect(p, EmptyPool, wallet[p])
  BY <1>3, <1>6, <1>7, Zenon DEF OwnerEffect
<1> QED
  BY <1>1, <1>4, <1>8

\* A deposit fills one bucket, which counts towards the joining power of a
\* candidate or an active validator.
LEMMA DepositedEffects ==
  ASSUME IInv, NEW p \in Pool, NEW sp \in StakePool, NEW amount \in Nat
  PROVE  LET d == Deposited(p, sp, amount) IN
           /\ d \in StakePool
           /\ NextEpochVotingPower(d) = NextEpochVotingPower(sp) + amount
           /\ Holdings(d) = Holdings(sp) + amount
           /\ Joining(p, d) - Joining(p, sp)
                = IF JoinsNextEpoch(p) THEN amount ELSE 0
           /\ d.locked_until_secs = sp.locked_until_secs
<1> DEFINE d == Deposited(p, sp, amount)
<1>1. d \in StakePool
  BY DepositedFacts
<1>2. /\ \/ /\ p \in CurrentValidators
            /\ d.pending_active = sp.pending_active + amount
            /\ d.active = sp.active
         \/ /\ p \notin CurrentValidators
            /\ d.pending_active = sp.pending_active
            /\ d.active = sp.active + amount
      /\ d.pending_inactive = sp.pending_inactive
      /\ d.inactive = sp.inactive
      /\ d.locked_until_secs = sp.locked_until_secs
  BY DEF Deposited, StakePool
<1> HIDE DEF d
<1>3. /\ NextEpochVotingPower(d) = NextEpochVotingPower(sp) + amount
      /\ Holdings(d) = Holdings(sp) + amount
      /\ NextEpochVotingPower(sp) \in Nat
  BY <1>2 DEF NextEpochVotingPower, Holdings, StakePool
<1>4. /\ CurrentValidators \cap Members(pending_active) = {}
      /\ Members(active_validators) \subseteq CurrentValidators
  BY OwnerFacts
<1>5. Joining(p, d) - Joining(p, sp) = IF JoinsNextEpoch(p) THEN amount ELSE 0
  BY <1>2, <1>3, <1>4 DEF Joining, JoinsNextEpoch, StakePool
<1> QED
  BY <1>1, <1>2, <1>3, <1>5 DEF d

\* initialize_stake_owner pays the first stake of a new pool from the wallet.
LEMMA InitializeStakeOwnerEffect ==
  ASSUME MoneyIInv, NEW p \in Pool, NEW amount \in Amount \cup {0},
         InitializeStakeOwner(p, amount)
  PROVE  \E sp \in StakePool, coins \in Nat : OwnerEffect(p, sp, coins)
<1> DEFINE sp == Deposited(p, EmptyPool, amount)
           coins == wallet[p] - amount
<1>1. /\ wallet \in [Pool -> Nat] /\ wallet[p] \in Nat /\ pool_store \in Int
      /\ total_joining_power \in Nat /\ InValidatorSet \subseteq registered
      /\ Members(active_validators) \subseteq InValidatorSet
      /\ Members(pending_active) \subseteq InValidatorSet
  BY OwnerFacts DEF MoneyIInv
<1>2. pools[p] = EmptyPool /\ EmptyPool \in StakePool /\ amount \in Nat
  BY EmptyPoolType, AmountAssumption DEF MoneyIInv, InitializeStakeOwner
<1>3. ~ JoinsNextEpoch(p)
  BY <1>1 DEF JoinsNextEpoch, InitializeStakeOwner
<1>4. IInv
  BY DEF MoneyIInv
<1>5. /\ sp \in StakePool
      /\ NextEpochVotingPower(sp) = NextEpochVotingPower(EmptyPool) + amount
      /\ Holdings(sp) = Holdings(EmptyPool) + amount
      /\ Joining(p, sp) - Joining(p, EmptyPool) = 0
      /\ sp.locked_until_secs = EmptyPool.locked_until_secs
  BY <1>2, <1>3, <1>4, DepositedEffects
<1>6. /\ pools' = [pools EXCEPT ![p] = sp]
      /\ wallet' = [wallet EXCEPT ![p] = coins] /\ coins \in Nat
      /\ pool_store' = pool_store + amount
      /\ registered' = registered \cup {p}
  BY <1>1, <1>2 DEF InitializeStakeOwner, PayIntoPool
<1>7. UNCHANGED <<queueVars, powerVars, fees_table, staking_config,
                  circulating, supply, clockVars>>
  BY DEF InitializeStakeOwner
<1> HIDE DEF sp
<1>8. /\ NextEpochVotingPower(EmptyPool) \in Nat /\ Holdings(EmptyPool) \in Nat
  BY <1>2, NextEpochVotingPowerType DEF Holdings, StakePool
<1>9. /\ pool_store' - pool_store = Holdings(sp) - Holdings(pools[p])
      /\ wallet[p] - coins = Holdings(sp) - Holdings(pools[p])
      /\ total_joining_power' - total_joining_power
           = Joining(p, sp) - Joining(p, pools[p])
      /\ ~ (NextEpochVotingPower(sp) < NextEpochVotingPower(pools[p]))
      /\ sp.locked_until_secs >= pools[p].locked_until_secs
  BY <1>1, <1>2, <1>5, <1>6, <1>7, <1>8 DEF powerVars, StakePool
<1>10. UNCHANGED <<queueVars, total_voting_power, fees_table, staking_config,
                   circulating, supply, clockVars>>
  BY <1>7 DEF powerVars
<1> HIDE DEF coins
<1>11. OwnerEffect(p, sp, coins)
  BY <1>6, <1>9, <1>10, Zenon DEF OwnerEffect
<1> QED
  BY <1>5, <1>6, <1>11

\* add_stake pays its amount from the wallet.
LEMMA AddStakeEffect ==
  ASSUME IInv, NEW p \in Pool, NEW amount \in Amount, AddStake(p, amount)
  PROVE  \E sp \in StakePool, coins \in Nat : OwnerEffect(p, sp, coins)
<1> DEFINE sp == Deposited(p, pools[p], amount)
           coins == wallet[p] - amount
<1>1. /\ wallet \in [Pool -> Nat] /\ wallet[p] \in Nat /\ pool_store \in Int
      /\ total_joining_power \in Nat /\ pools[p] \in StakePool
  BY OwnerFacts
<1>2. amount \in Nat
  BY AmountAssumption
<1>3. /\ sp \in StakePool
      /\ NextEpochVotingPower(sp) = NextEpochVotingPower(pools[p]) + amount
      /\ Holdings(sp) = Holdings(pools[p]) + amount
      /\ Joining(p, sp) - Joining(p, pools[p])
           = IF JoinsNextEpoch(p) THEN amount ELSE 0
      /\ sp.locked_until_secs = pools[p].locked_until_secs
  BY <1>1, <1>2, DepositedEffects
<1>4. /\ pools' = [pools EXCEPT ![p] = sp]
      /\ wallet' = [wallet EXCEPT ![p] = coins] /\ coins \in Nat
      /\ pool_store' = pool_store + amount
  BY <1>1, <1>2 DEF AddStake, PayIntoPool
<1>5. total_joining_power' = IF JoinsNextEpoch(p)
                             THEN total_joining_power + amount
                             ELSE total_joining_power
  BY DEF AddStake, VotingPowerIncrease
<1>6. /\ p \in registered
      /\ UNCHANGED <<registered, queueVars, total_voting_power, fees_table,
                     staking_config, circulating, supply, clockVars>>
  BY DEF AddStake
<1>7. registered' = registered \cup {p}
  BY <1>6
<1> HIDE DEF sp
<1>8. /\ NextEpochVotingPower(pools[p]) \in Nat /\ Holdings(pools[p]) \in Nat
  BY <1>1, NextEpochVotingPowerType DEF Holdings, StakePool
<1>9. /\ pool_store' - pool_store = Holdings(sp) - Holdings(pools[p])
      /\ wallet[p] - coins = Holdings(sp) - Holdings(pools[p])
      /\ total_joining_power' - total_joining_power
           = Joining(p, sp) - Joining(p, pools[p])
      /\ ~ (NextEpochVotingPower(sp) < NextEpochVotingPower(pools[p]))
      /\ sp.locked_until_secs >= pools[p].locked_until_secs
  BY <1>1, <1>2, <1>3, <1>4, <1>5, <1>8 DEF StakePool
<1> HIDE DEF coins
<1>10. OwnerEffect(p, sp, coins)
  BY <1>4, <1>6, <1>7, <1>9, Zenon DEF OwnerEffect
<1> QED
  BY <1>3, <1>4, <1>10

\* Only the pending_inactive stake of a pool outside the set whose lockup has
\* run out is released.
LEMMA WithdrawEffect ==
  ASSUME IInv, NEW p \in Pool, NEW amount \in Amount \cup {0},
         Withdraw(p, amount)
  PROVE  \E sp \in StakePool, coins \in Nat : OwnerEffect(p, sp, coins)
<1> DEFINE r == Released(p)
           a == AtMost(amount, r.inactive)
           sp == [r EXCEPT !.inactive = @ - a]
           coins == wallet[p] + a
<1>1. /\ wallet \in [Pool -> Nat] /\ wallet[p] \in Nat /\ pool_store \in Int
      /\ total_joining_power \in Nat /\ pools[p] \in StakePool
      /\ Members(active_validators) \subseteq InValidatorSet
      /\ Members(pending_active) \subseteq InValidatorSet
  BY OwnerFacts
<1>2. amount \in Nat
  BY AmountAssumption
<1>3. /\ r \in StakePool
      /\ r.active = pools[p].active
      /\ r.pending_active = pools[p].pending_active
      /\ r.pending_inactive + r.inactive
           = pools[p].pending_inactive + pools[p].inactive
      /\ r.locked_until_secs = pools[p].locked_until_secs
      /\ \/ r.pending_inactive = pools[p].pending_inactive
         \/ /\ p \notin InValidatorSet
            /\ Secs(now) >= pools[p].locked_until_secs
  <2> DEFINE i == pools[p].inactive + pools[p].pending_inactive
             q == [pools[p] EXCEPT !.inactive = i, !.pending_inactive = 0]
  <2>1. /\ pools[p].inactive \in Nat /\ pools[p].pending_inactive \in Nat
        /\ i \in Nat
    BY <1>1 DEF StakePool
  <2>2. CASE p \notin InValidatorSet /\ Secs(now) >= pools[p].locked_until_secs
    <3>1. r = q
      BY <1>1, <2>2 DEF Released, StakePool
    <3>2. i = pools[p].pending_inactive + pools[p].inactive
      BY <2>1
    <3> HIDE DEF r, i
    <3>3. /\ r \in StakePool /\ r.active = pools[p].active
          /\ r.pending_active = pools[p].pending_active
          /\ r.pending_inactive = 0 /\ r.inactive = i
          /\ r.locked_until_secs = pools[p].locked_until_secs
      BY <1>1, <2>1, <3>1 DEF StakePool
    <3> QED
      BY <2>1, <2>2, <3>2, <3>3
  <2>3. CASE ~ (p \notin InValidatorSet
                 /\ Secs(now) >= pools[p].locked_until_secs)
    <3>1. r = pools[p]
      BY <2>3 DEF Released
    <3> HIDE DEF r
    <3> QED
      BY <1>1, <2>1, <3>1
  <2> QED
    BY <2>2, <2>3
<1>4. pools' = [pools EXCEPT ![p] = sp] /\ pool_store' = pool_store - a
      /\ wallet' = [wallet EXCEPT ![p] = coins]
  BY <1>1 DEF Withdraw
<1>5. /\ p \in registered
      /\ UNCHANGED <<registered, queueVars, powerVars, fees_table,
                     staking_config, circulating, supply, clockVars>>
  BY DEF Withdraw
<1> HIDE DEF r
<1>6. a \in Nat /\ a <= r.inactive /\ coins \in Nat
  BY <1>1, <1>2, <1>3 DEF AtMost, StakePool
<1> HIDE DEF a
<1>7. /\ sp \in StakePool /\ sp.active = r.active
      /\ sp.pending_active = r.pending_active
      /\ sp.pending_inactive = r.pending_inactive
      /\ sp.inactive = r.inactive - a
      /\ sp.locked_until_secs = r.locked_until_secs
  BY <1>3, <1>6 DEF StakePool
<1> HIDE DEF sp
<1>8. /\ Holdings(sp) = Holdings(pools[p]) - a /\ Holdings(pools[p]) \in Nat
      /\ sp.locked_until_secs >= pools[p].locked_until_secs
  BY <1>1, <1>3, <1>6, <1>7 DEF Holdings, NextEpochVotingPower, StakePool
<1>9. \/ NextEpochVotingPower(sp) = NextEpochVotingPower(pools[p])
      \/ p \notin InValidatorSet /\ Secs(now) >= pools[p].locked_until_secs
  BY <1>3, <1>7 DEF NextEpochVotingPower
<1>10. NextEpochVotingPower(pools[p]) \in Nat
  BY <1>1, NextEpochVotingPowerType
<1>11. Joining(p, sp) = Joining(p, pools[p]) /\ Joining(p, sp) \in Nat
  BY <1>1, <1>3, <1>7, <1>9, <1>10 DEF Joining, StakePool
<1>12. /\ pool_store' - pool_store = Holdings(sp) - Holdings(pools[p])
       /\ wallet[p] - coins = Holdings(sp) - Holdings(pools[p])
       /\ total_joining_power' - total_joining_power
            = Joining(p, sp) - Joining(p, pools[p])
       /\ registered' = registered \cup {p}
  BY <1>1, <1>4, <1>5, <1>6, <1>8, <1>11 DEF powerVars
<1>13. NextEpochVotingPower(sp) < NextEpochVotingPower(pools[p])
         => p \notin InValidatorSet /\ Secs(now) >= pools[p].locked_until_secs
  BY <1>9, <1>10
<1>14. UNCHANGED <<queueVars, total_voting_power, fees_table, staking_config,
                   circulating, supply, clockVars>>
  BY <1>5 DEF powerVars
<1> HIDE DEF coins
<1>15. OwnerEffect(p, sp, coins)
  BY <1>4, <1>8, <1>12, <1>13, <1>14, Zenon DEF OwnerEffect
<1> QED
  BY <1>6, <1>7, <1>15

\* Every owner operation.
LEMMA OwnerStepEffect ==
  ASSUME MoneyIInv, NEW p \in Pool, OwnerStep(p)
  PROVE  \E sp \in StakePool, coins \in Nat : OwnerEffect(p, sp, coins)
<1> USE DEF MoneyIInv
<1>1. CASE \E key \in Key : InitializeValidator(p, key)
  BY <1>1, InitializeValidatorEffect
<1>2. CASE \E amount \in Amount \cup {0} : InitializeStakeOwner(p, amount)
  BY <1>2, InitializeStakeOwnerEffect
<1>3. CASE \E amount \in Amount : AddStake(p, amount)
  BY <1>3, AddStakeEffect
<1>4. CASE \E amount \in Amount : Unlock(p, amount)
  BY <1>4, UnlockEffect
<1>5. CASE \E amount \in Amount : ReactivateStake(p, amount)
  BY <1>5, ReactivateStakeEffect
<1>6. CASE \E amount \in Amount \cup {0} : Withdraw(p, amount)
  BY <1>6, WithdrawEffect
<1>7. CASE IncreaseLockup(p)
  BY <1>7, IncreaseLockupEffect
<1> QED
  BY <1>1, <1>2, <1>3, <1>4, <1>5, <1>6, <1>7 DEF OwnerStep

-----------------------------------------------------------------------------
(* The sums, over pools *)

\* What a queue's entries have, they have as pools.
LEMMA PowersOfPools ==
  ASSUME NEW q \in Seq(ValidatorInfo), NoDuplicates(q),
         NEW v \in [Members(q) -> Int],
         \A i \in DOMAIN q : q[i].voting_power = v[q[i].addr]
  PROVE  Powers(q) = Total(v)
<1> DEFINE S == Members(q)
           T == DOMAIN q
           b == [i \in T |-> q[i].addr]
<1>1. Len(q) \in Nat /\ T = 1..Len(q)
  BY LenProperties
<1>2. IsFiniteSet(T)
  BY <1>1, FS_Interval
<1>3. /\ b \in [T -> S]
      /\ \A x, y \in T : b[x] = b[y] => x = y
      /\ \A y \in S : \E x \in T : b[x] = y
  BY DEF Members, NoDuplicates
<1>4. IsFiniteSet(S)
  <2>1. S \subseteq Pool
    BY MembersType
  <2> QED
    BY <2>1, PoolAssumption, FS_Subset
<1>5. [x \in T |-> v[b[x]]] = [i \in DOMAIN q |-> q[i].voting_power]
  OBVIOUS
<1> HIDE DEF S, T, b
<1>6. Total([x \in T |-> v[b[x]]]) = Total(v)
  BY <1>2, <1>3, <1>4, TotalReindex DEF S
<1> QED
  BY <1>5, <1>6, Zenon DEF Powers

\* The snapshots of the two queues are the stake that rewards are shared by.
LEMMA PowersAreStake ==
  ASSUME IInv
  PROVE  Powers(active_validators) + Powers(pending_inactive) = TotalStake
<1> DEFINE S == CurrentValidators
           A == Members(active_validators)
           B == Members(pending_inactive)
           f == [p \in S |-> pools[p].active + pools[p].pending_inactive]
<1>1. /\ active_validators \in Seq(ValidatorInfo)
      /\ pending_inactive \in Seq(ValidatorInfo)
      /\ NoDuplicates(active_validators) /\ NoDuplicates(pending_inactive)
      /\ A \cup B = S /\ A \cap B = {}
      /\ pools \in [Pool -> StakePool]
  BY DEF IInv, TypeOK, QueuesDisjoint, CurrentValidators
<1>2. S \subseteq Pool /\ IsFiniteSet(S)
  BY CurrentFacts
<1>3. f \in [S -> Int]
  <2>1. \A p \in S : /\ pools[p].active \in Nat
                     /\ pools[p].pending_inactive \in Nat
    BY <1>1, <1>2 DEF StakePool
  <2> QED
    BY <2>1
<1>4. /\ \A i \in DOMAIN active_validators :
           /\ active_validators[i].addr \in A
           /\ active_validators[i].voting_power
                = pools[active_validators[i].addr].active
                    + pools[active_validators[i].addr].pending_inactive
      /\ \A i \in DOMAIN pending_inactive :
           /\ pending_inactive[i].addr \in B
           /\ pending_inactive[i].voting_power
                = pools[pending_inactive[i].addr].active
                    + pools[pending_inactive[i].addr].pending_inactive
  BY DEF IInv, VotingPowerIsSnapshot, Members
<1>5. A \subseteq S /\ B \subseteq S
  BY <1>1
<1>6. /\ \A p \in S : f[p] = pools[p].active + pools[p].pending_inactive
      /\ TotalStake = Total(f)
  BY DEF TotalStake
<1> HIDE DEF S, A, B, f
<1> DEFINE fa == [p \in A |-> f[p]]
           fb == [p \in B |-> f[p]]
<1>7. /\ fa \in [A -> Int] /\ fb \in [B -> Int]
      /\ \A i \in DOMAIN active_validators :
           active_validators[i].voting_power = fa[active_validators[i].addr]
      /\ \A i \in DOMAIN pending_inactive :
           pending_inactive[i].voting_power = fb[pending_inactive[i].addr]
  BY <1>3, <1>4, <1>5, <1>6
<1>8. Total(f) = Total(fa) + Total(fb)
  <2>1. \A x, y : x \cup y = S /\ x \cap y = {}
                   => Total(f) = Total([p \in x |-> f[p]])
                                   + Total([p \in y |-> f[p]])
    BY <1>2, <1>3, TotalUnion
  <2> QED
    BY <1>1, <2>1, Zenon
<1> HIDE DEF fa, fb
<1>9. Powers(active_validators) = Total(fa)
  BY <1>1, <1>7, PowersOfPools DEF A
<1>10. Powers(pending_inactive) = Total(fb)
  BY <1>1, <1>7, PowersOfPools DEF B
<1> QED
  BY <1>6, <1>8, <1>9, <1>10, Zenon

\* So total_voting_power is what the epoch's validators have at stake.
LEMMA PowerIsStake ==
  ASSUME IInv
  PROVE  TotalIsSumOfSnapshots <=> total_voting_power = TotalStake
BY PowersAreStake, Zenon DEF TotalIsSumOfSnapshots, Powers

\* What would join with the epoch, of every pool.
JoiningOf == [p \in Pool |-> Joining(p, pools[p])]

\* What pools add to the next epoch is a natural number.
LEMMA JoiningOfType ==
  ASSUME IInv
  PROVE  JoiningOf \in [Pool -> Nat]
<1> SUFFICES ASSUME NEW p \in Pool PROVE Joining(p, pools[p]) \in Nat
  BY DEF JoiningOf
<1>1. pools[p] \in StakePool
  BY OwnerFacts
<1>2. NextEpochVotingPower(pools[p]) \in Nat
  BY <1>1, NextEpochVotingPowerType
<1> QED
  BY <1>1, <1>2 DEF Joining, StakePool

\* No pool is in two queues, so the increase is one sum over pools.
LEMMA IncreaseIsTotal ==
  ASSUME IInv
  PROVE  Increase = Total(JoiningOf)
<1> DEFINE A == Members(active_validators)
           B == Members(pending_active)
           f == [p \in Pool |-> IF p \in B THEN NextEpochVotingPower(pools[p])
                                           ELSE 0]
           g == [p \in Pool |-> IF p \in A THEN pools[p].pending_active ELSE 0]
<1>1. /\ active_validators \in Seq(ValidatorInfo)
      /\ pending_active \in Seq(ValidatorInfo)
      /\ A \cap B = {} /\ pools \in [Pool -> StakePool]
  BY DEF IInv, TypeOK, QueuesDisjoint, CurrentValidators
<1>2. A \in SUBSET Pool /\ B \in SUBSET Pool /\ IsFiniteSet(Pool)
  BY <1>1, MembersType, PoolAssumption
<1>3. \A p \in Pool : /\ NextEpochVotingPower(pools[p]) \in Nat
                      /\ pools[p].pending_active \in Nat
  <2> SUFFICES ASSUME NEW p \in Pool
        PROVE /\ NextEpochVotingPower(pools[p]) \in Nat
              /\ pools[p].pending_active \in Nat
    OBVIOUS
  <2>1. pools[p] \in StakePool
    BY <1>1
  <2> QED
    BY <2>1, NextEpochVotingPowerType DEF StakePool
<1>4. /\ f \in [Pool -> Int] /\ g \in [Pool -> Int]
      /\ \A p \in Pool \ B : f[p] = 0
      /\ \A p \in Pool \ A : g[p] = 0
  BY <1>3
<1>5. /\ [p \in B |-> f[p]] = [p \in B |-> NextEpochVotingPower(pools[p])]
      /\ [p \in A |-> g[p]] = [p \in A |-> pools[p].pending_active]
  BY <1>2
<1>6. [p \in Pool |-> f[p] + g[p]] = JoiningOf
  <2> SUFFICES ASSUME NEW p \in Pool
        PROVE f[p] + g[p] = Joining(p, pools[p])
    BY DEF JoiningOf
  <2>1. A \cap B = {} /\ NextEpochVotingPower(pools[p]) \in Nat
        /\ pools[p].pending_active \in Nat
    BY <1>1, <1>3
  <2> QED
    BY <2>1 DEF Joining
<1> HIDE DEF f, g, A, B
<1>7. /\ Total([p \in B |-> f[p]]) = Total(f)
      /\ Total([p \in A |-> g[p]]) = Total(g)
  BY <1>2, <1>4, TotalRestrict
<1>8. Total([p \in Pool |-> f[p] + g[p]]) = Total(f) + Total(g)
  BY <1>2, <1>4, TotalAdd
<1>9. Increase = Total([p \in B |-> NextEpochVotingPower(pools[p])])
                   + Total([p \in A |-> pools[p].pending_active])
  BY DEF Increase, A, B
<1> QED
  BY <1>5, <1>6, <1>7, <1>8, <1>9, Zenon

\* What the pools are owed.
HoldingsOf == [p \in Pool |-> Holdings(pools[p])]

\* PoolsAreBacked, as a sum over the holdings of pools.
LEMMA BackedIs ==
  PoolsAreBacked <=> pool_store = Total(fees_table) + Total(HoldingsOf)
BY DEF PoolsAreBacked, HoldingsOf, Holdings

\* What a pool holds is a natural number.
LEMMA HoldingsOfType ==
  ASSUME IInv
  PROVE  HoldingsOf \in [Pool -> Nat]
<1> SUFFICES ASSUME NEW p \in Pool PROVE Holdings(pools[p]) \in Nat
  BY DEF HoldingsOf
<1>1. pools[p] \in StakePool
  BY OwnerFacts
<1>2. NextEpochVotingPower(pools[p]) \in Nat
  BY <1>1, NextEpochVotingPowerType
<1> QED
  BY <1>1, <1>2 DEF Holdings, StakePool

-----------------------------------------------------------------------------
(* Steps preserve the sums *)

\* The sums of the next state, for steps that lead to a state of IInv.
LEMMA NextSums ==
  IInv' => /\ (TotalIsSumOfSnapshots <=> total_voting_power = TotalStake)'
           /\ (Increase = Total(JoiningOf))'
           /\ (PoolsAreBacked
                 <=> pool_store = Total(fees_table) + Total(HoldingsOf))'
<1>1. IInv => /\ TotalIsSumOfSnapshots <=> total_voting_power = TotalStake
              /\ Increase = Total(JoiningOf)
              /\ PoolsAreBacked
                   <=> pool_store = Total(fees_table) + Total(HoldingsOf)
  BY PowerIsStake, IncreaseIsTotal, BackedIs
<1> QED
  BY <1>1, PTL

\* What MoneyIInv says of one state, with the sums over pools.
LEMMA MoneyFacts ==
  ASSUME MoneyIInv
  PROVE  /\ IInv
         /\ total_voting_power = TotalStake
         /\ total_voting_power
              = Powers(active_validators) + Powers(pending_inactive)
         /\ total_joining_power >= Total(JoiningOf)
         /\ pool_store = Total(fees_table) + Total(HoldingsOf)
         /\ supply = pool_store + Total(wallet) + circulating
         /\ \A p \in Pool \ registered : pools[p] = EmptyPool
         /\ reconf.start_time_secs <= Secs(now)
<1>1. /\ IInv /\ TotalIsSumOfSnapshots /\ JoiningPowerCoversIncrease
      /\ PoolsAreBacked /\ SupplyIsConserved
      /\ \A p \in Pool \ registered : pools[p] = EmptyPool
      /\ reconf.start_time_secs <= Secs(now)
  BY DEF MoneyIInv
<1>2. total_voting_power = TotalStake
  BY <1>1, PowerIsStake
<1>3. Increase = Total(JoiningOf)
  BY <1>1, IncreaseIsTotal
<1>4. total_voting_power
        = Powers(active_validators) + Powers(pending_inactive)
  BY <1>1, Zenon DEF TotalIsSumOfSnapshots, Powers
<1>5. total_joining_power >= Total(JoiningOf)
  BY <1>1, <1>3, Zenon DEF JoiningPowerCoversIncrease
<1>6. pool_store = Total(fees_table) + Total(HoldingsOf)
  BY <1>1, BackedIs, Zenon
<1>7. supply = pool_store + Total(wallet) + circulating
  BY <1>1, Zenon DEF SupplyIsConserved
<1> QED
  BY <1>1, <1>2, <1>4, <1>5, <1>6, <1>7

\* The four sums of the next state.
LEMMA NextMoney ==
  ASSUME IInv',
         (total_voting_power = TotalStake)'
           \/ (total_voting_power
                 = Powers(active_validators) + Powers(pending_inactive))',
         (total_joining_power >= Total(JoiningOf))',
         (pool_store = Total(fees_table) + Total(HoldingsOf))',
         (supply = pool_store + Total(wallet) + circulating)',
         \A p \in Pool \ registered' : pools'[p] = EmptyPool,
         (reconf.start_time_secs <= Secs(now))'
  PROVE  MoneyIInv'
<1>1. /\ (TotalIsSumOfSnapshots <=> total_voting_power = TotalStake)'
      /\ (Increase = Total(JoiningOf))'
      /\ (PoolsAreBacked
            <=> pool_store = Total(fees_table) + Total(HoldingsOf))'
  BY NextSums, Zenon
<1>2. TotalIsSumOfSnapshots'
  <2>1. CASE (total_voting_power = TotalStake)'
    BY <1>1, <2>1, Zenon
  <2>2. CASE (total_voting_power
                = Powers(active_validators) + Powers(pending_inactive))'
    BY <2>2, Zenon DEF TotalIsSumOfSnapshots, Powers
  <2> QED
    BY <2>1, <2>2
<1>3. JoiningPowerCoversIncrease'
  BY <1>1, Zenon DEF JoiningPowerCoversIncrease
<1>4. PoolsAreBacked'
  BY <1>1, Zenon
<1>5. SupplyIsConserved'
  BY Zenon DEF SupplyIsConserved
<1> QED
  BY <1>2, <1>3, <1>4, <1>5 DEF MoneyIInv

\* Steps that touch no pool and no money, and no current validator: what they
\* change is who joins with the epoch.
LEMMA QueueMoney ==
  ASSUME MoneyIInv, IInv', CurrentValidators' = CurrentValidators,
         (total_joining_power >= Total(JoiningOf))',
         UNCHANGED <<registered, pools, total_voting_power, fees_table,
                     moneyVars, clockVars>>
  PROVE  MoneyIInv'
<1>1. /\ total_voting_power = TotalStake
      /\ pool_store = Total(fees_table) + Total(HoldingsOf)
      /\ supply = pool_store + Total(wallet) + circulating
      /\ \A p \in Pool \ registered : pools[p] = EmptyPool
      /\ reconf.start_time_secs <= Secs(now)
  BY MoneyFacts
<1>2. /\ registered' = registered /\ pools' = pools
      /\ total_voting_power' = total_voting_power
      /\ fees_table' = fees_table /\ pool_store' = pool_store
      /\ wallet' = wallet /\ circulating' = circulating /\ supply' = supply
      /\ reconf' = reconf /\ now' = now
  BY DEF moneyVars, clockVars
<1>3. TotalStake' = TotalStake
  BY <1>2, Zenon DEF TotalStake
<1>4. HoldingsOf' = HoldingsOf
  BY <1>2, Zenon DEF HoldingsOf
<1>5. (total_voting_power = TotalStake)'
  BY <1>1, <1>2, <1>3, Zenon
<1>6. (pool_store = Total(fees_table) + Total(HoldingsOf))'
  BY <1>1, <1>2, <1>4, Zenon
<1>7. (supply = pool_store + Total(wallet) + circulating)'
  BY <1>1, <1>2, Zenon
<1>8. /\ \A p \in Pool \ registered' : pools'[p] = EmptyPool
      /\ (reconf.start_time_secs <= Secs(now))'
  BY <1>1, <1>2, Zenon
<1> QED
  BY <1>5, <1>6, <1>7, <1>8, NextMoney

\* A change of one summand.
LEMMA ChangedTotal ==
  ASSUME NEW f \in [Pool -> Nat], NEW p \in Pool, NEW v \in Nat,
         NEW g, g = [f EXCEPT ![p] = v]
  PROVE  /\ Total(g) = Total(f) + (v - f[p])
         /\ Total(f) \in Nat /\ Total(g) \in Nat
<1>1. f \in [Pool -> Int] /\ v \in Int /\ g \in [Pool -> Nat] /\ f[p] \in Nat
  OBVIOUS
<1>2. \A w \in Int : Total([f EXCEPT ![p] = w]) = Total(f) - f[p] + w
  <2>1. IsFiniteSet(Pool)
    BY PoolAssumption
  <2> QED
    BY ONLY <1>1, <2>1, p \in Pool, TotalUpdate
<1>3. Total(g) = Total(f) - f[p] + v
  BY <1>1, <1>2, Zenon
<1>4. Total(f) \in Nat /\ Total(g) \in Nat
  BY <1>1, PoolAssumption, TotalNat
<1> HIDE DEF Total
<1> QED
  BY <1>1, <1>3, <1>4

\* The arithmetic of an owner operation.
LEMMA OwnerSums ==
  ASSUME NEW h \in Nat, NEW h0 \in Nat, NEW j \in Nat, NEW j0 \in Nat,
         NEW tj \in Nat, NEW tj2 \in Nat, tj2 = tj + (j - j0),
         NEW th \in Nat, NEW th2 \in Nat, th2 = th + (h - h0),
         NEW w \in Nat, NEW w2 \in Nat, NEW tw \in Nat, NEW tw2 \in Nat,
         tw2 = tw + (w2 - w), w - w2 = h - h0,
         NEW ps \in Int, NEW ps2 \in Int, ps2 - ps = h - h0,
         NEW jp \in Nat, NEW jp2 \in Nat, jp2 - jp = j - j0,
         NEW tf \in Nat, NEW c \in Nat, NEW sup,
         jp >= tj, ps = tf + th, sup = ps + tw + c
  PROVE  jp2 >= tj2 /\ ps2 = tf + th2 /\ sup = ps2 + tw2 + c
OBVIOUS

\* Owner operations preserve the sums.
LEMMA OwnerMoney ==
  ASSUME MoneyIInv, IInv', NEW p \in Pool, NEW sp \in StakePool,
         NEW coins \in Nat, OwnerEffect(p, sp, coins)
  PROVE  MoneyIInv'
<1>1. /\ IInv
      /\ total_voting_power
           = Powers(active_validators) + Powers(pending_inactive)
      /\ total_joining_power >= Total(JoiningOf)
      /\ pool_store = Total(fees_table) + Total(HoldingsOf)
      /\ supply = pool_store + Total(wallet) + circulating
      /\ \A q \in Pool \ registered : pools[q] = EmptyPool
      /\ reconf.start_time_secs <= Secs(now)
  BY MoneyFacts
<1>2. /\ pools' = [pools EXCEPT ![p] = sp]
      /\ wallet' = [wallet EXCEPT ![p] = coins]
      /\ pool_store' - pool_store = Holdings(sp) - Holdings(pools[p])
      /\ wallet[p] - coins = Holdings(sp) - Holdings(pools[p])
      /\ total_joining_power' - total_joining_power
           = Joining(p, sp) - Joining(p, pools[p])
      /\ registered' = registered \cup {p}
  BY DEF OwnerEffect
<1>3. /\ active_validators' = active_validators
      /\ pending_inactive' = pending_inactive
      /\ pending_active' = pending_active
      /\ total_voting_power' = total_voting_power
      /\ fees_table' = fees_table /\ circulating' = circulating
      /\ supply' = supply /\ reconf' = reconf /\ now' = now
  BY DEF OwnerEffect, queueVars, clockVars
<1>4. /\ pools \in [Pool -> StakePool] /\ wallet \in [Pool -> Nat]
      /\ pool_store \in Int /\ total_joining_power \in Nat
      /\ circulating \in Nat /\ fees_table \in [Pool -> Nat]
      /\ pools[p] \in StakePool
  BY <1>1 DEF IInv, TypeOK
<1>5. /\ pool_store' \in Int /\ total_joining_power' \in Nat
  BY DEF IInv, TypeOK
<1>6. /\ JoiningOf \in [Pool -> Nat] /\ HoldingsOf \in [Pool -> Nat]
      /\ JoiningOf[p] = Joining(p, pools[p])
      /\ HoldingsOf[p] = Holdings(pools[p])
  BY <1>1, JoiningOfType, HoldingsOfType DEF JoiningOf, HoldingsOf
<1>7. Joining(p, sp) \in Nat /\ Holdings(sp) \in Nat
  BY NextEpochVotingPowerType DEF Joining, Holdings, StakePool
<1>8. \A q \in Pool : pools'[q] = IF q = p THEN sp ELSE pools[q]
  BY <1>2, <1>4
<1>9. JoiningOf' = [JoiningOf EXCEPT ![p] = Joining(p, sp)]
  <2>1. JoiningOf' = [q \in Pool |-> Joining(q, pools'[q])]
    BY <1>3, Zenon DEF JoiningOf, Joining
  <2>2. \A q \in Pool : Joining(q, pools'[q])
                          = IF q = p THEN Joining(p, sp) ELSE JoiningOf[q]
    BY <1>8 DEF JoiningOf
  <2> QED
    BY <1>6, <2>1, <2>2
<1>10. HoldingsOf' = [HoldingsOf EXCEPT ![p] = Holdings(sp)]
  <2>1. HoldingsOf' = [q \in Pool |-> Holdings(pools'[q])]
    BY DEF HoldingsOf
  <2>2. \A q \in Pool : Holdings(pools'[q])
                          = IF q = p THEN Holdings(sp) ELSE HoldingsOf[q]
    BY <1>8 DEF HoldingsOf
  <2> QED
    BY <1>6, <2>1, <2>2
<1>11. /\ Total(JoiningOf') = Total(JoiningOf)
             + (Joining(p, sp) - Joining(p, pools[p]))
       /\ Total(JoiningOf) \in Nat /\ Total(JoiningOf') \in Nat
  <2>1. \A v \in Nat : \A g : g = [JoiningOf EXCEPT ![p] = v] =>
          /\ Total(g) = Total(JoiningOf) + (v - JoiningOf[p])
          /\ Total(JoiningOf) \in Nat /\ Total(g) \in Nat
    BY <1>6, ChangedTotal
  <2>2. /\ Total(JoiningOf') = Total(JoiningOf) + (Joining(p, sp) - JoiningOf[p])
        /\ Total(JoiningOf) \in Nat /\ Total(JoiningOf') \in Nat
    BY <1>7, <1>9, <2>1, Zenon
  <2> QED
    BY <1>6, <2>2, Zenon
<1>12. /\ Total(HoldingsOf') = Total(HoldingsOf)
             + (Holdings(sp) - Holdings(pools[p]))
       /\ Total(HoldingsOf) \in Nat /\ Total(HoldingsOf') \in Nat
  <2>1. \A v \in Nat : \A g : g = [HoldingsOf EXCEPT ![p] = v] =>
          /\ Total(g) = Total(HoldingsOf) + (v - HoldingsOf[p])
          /\ Total(HoldingsOf) \in Nat /\ Total(g) \in Nat
    BY <1>6, ChangedTotal
  <2>2. /\ Total(HoldingsOf') = Total(HoldingsOf) + (Holdings(sp) - HoldingsOf[p])
        /\ Total(HoldingsOf) \in Nat /\ Total(HoldingsOf') \in Nat
    BY <1>7, <1>10, <2>1, Zenon
  <2> QED
    BY <1>6, <2>2, Zenon
<1>13. /\ Total(wallet') = Total(wallet) + (coins - wallet[p])
       /\ Total(wallet) \in Nat /\ Total(wallet') \in Nat
  BY <1>2, <1>4, ChangedTotal
<1>14. wallet[p] \in Nat /\ Holdings(pools[p]) \in Nat
       /\ Joining(p, pools[p]) \in Nat /\ Total(fees_table) \in Nat
  BY <1>4, <1>6, PoolAssumption, TotalNat
<1>15. /\ total_joining_power' >= Total(JoiningOf')
       /\ pool_store' = Total(fees_table) + Total(HoldingsOf')
       /\ supply = pool_store' + Total(wallet') + circulating
  BY <1>1, <1>2, <1>4, <1>5, <1>7, <1>11, <1>12, <1>13, <1>14, OwnerSums
<1>16. (total_joining_power >= Total(JoiningOf))'
  BY <1>15
<1>17. (pool_store = Total(fees_table) + Total(HoldingsOf))'
  BY <1>3, <1>15
<1>18. (supply = pool_store + Total(wallet) + circulating)'
  BY <1>3, <1>15
<1>19. (total_voting_power
          = Powers(active_validators) + Powers(pending_inactive))'
  BY <1>1, <1>3, Zenon
<1>20. \A q \in Pool \ registered' : pools'[q] = EmptyPool
  BY <1>1, <1>2, <1>4
<1>21. (reconf.start_time_secs <= Secs(now))'
  BY <1>1, <1>3, Zenon
<1> QED
  BY <1>16, <1>17, <1>18, <1>19, <1>20, <1>21, NextMoney

\* A step that changes what one pool brings to the next epoch.
LEMMA ChangedJoining ==
  ASSUME IInv, NEW p \in Pool, NEW v \in Nat,
         JoiningOf' = [JoiningOf EXCEPT ![p] = v]
  PROVE  /\ Total(JoiningOf') = Total(JoiningOf) + (v - JoiningOf[p])
         /\ Total(JoiningOf) \in Nat /\ Total(JoiningOf') \in Nat
<1>1. \A w \in Nat : \A g : g = [JoiningOf EXCEPT ![p] = w] =>
        /\ Total(g) = Total(JoiningOf) + (w - JoiningOf[p])
        /\ Total(JoiningOf) \in Nat /\ Total(g) \in Nat
  BY JoiningOfType, ChangedTotal
<1> QED
  BY <1>1, Zenon

\* A candidate adds its voting power.
LEMMA JoinValidatorSetMoney ==
  ASSUME MoneyIInv, IInv', NEW p \in Pool, JoinValidatorSet(p)
  PROVE  MoneyIInv'
<1> DEFINE e == ValidatorInfoOf(p, pools[p], config[p])
           v == NextEpochVotingPower(pools[p])
<1>1. IInv /\ total_joining_power >= Total(JoiningOf)
  BY MoneyFacts
<1>2. /\ pools[p] \in StakePool /\ config[p] \in ValidatorConfig
      /\ pending_active \in Seq(ValidatorInfo) /\ total_joining_power \in Nat
      /\ CurrentValidators \cap Members(pending_active) = {}
  BY <1>1 DEF IInv, TypeOK, QueuesDisjoint
<1>3. v \in Nat /\ e \in ValidatorInfo /\ e.addr = p
  BY <1>2, NextEpochVotingPowerType DEF ValidatorInfoOf, ValidatorInfo
<1>4. /\ pending_active' = Append(pending_active, e)
      /\ total_joining_power' = total_joining_power + v
      /\ p \notin CurrentValidators /\ p \notin Members(pending_active)
      /\ active_validators' = active_validators
      /\ pending_inactive' = pending_inactive /\ pools' = pools
  BY DEF JoinValidatorSet, VotingPowerIncrease, InValidatorSet
<1> HIDE DEF e
<1>5. Members(pending_active') = Members(pending_active) \cup {p}
  BY <1>1, <1>2, <1>3, <1>4, AppendNoDuplicates DEF IInv, QueuesDisjoint
<1>6. p \notin Members(active_validators)
  BY <1>4 DEF CurrentValidators
<1>7. \A q \in Pool : Joining(q, pools[q])' = IF q = p THEN v
                                              ELSE Joining(q, pools[q])
  <2>1. Members(active_validators)' = Members(active_validators)
    BY <1>4
  <2> QED
    BY <1>4, <1>5, <2>1 DEF Joining
<1>8. JoiningOf[p] = 0
  BY <1>4, <1>6 DEF JoiningOf, Joining
<1> HIDE DEF v
<1>9. JoiningOf' = [JoiningOf EXCEPT ![p] = v]
  BY <1>7 DEF JoiningOf
<1>10. /\ Total(JoiningOf') = Total(JoiningOf) + (v - 0)
       /\ Total(JoiningOf) \in Nat /\ Total(JoiningOf') \in Nat
  BY <1>1, <1>3, <1>8, <1>9, ChangedJoining
<1>11. (total_joining_power >= Total(JoiningOf))'
  BY <1>1, <1>2, <1>3, <1>4, <1>10
<1>12. CurrentValidators' = CurrentValidators
  BY <1>4, Zenon DEF CurrentValidators
<1>13. UNCHANGED <<registered, pools, total_voting_power, fees_table,
                   moneyVars, clockVars>>
  BY DEF JoinValidatorSet
<1> QED
  BY <1>11, <1>12, <1>13, QueueMoney

\* A candidate that leaves takes back no more than it brought.
LEMMA LeavePendingActiveMoney ==
  ASSUME MoneyIInv, IInv', NEW p \in Pool, LeaveValidatorSet(p),
         LeavePendingActive(p)
  PROVE  MoneyIInv'
<1> DEFINE i == IndexOf(pending_active, p)
           v == NextEpochVotingPower(pools[p])
<1>1. IInv /\ total_joining_power >= Total(JoiningOf)
  BY MoneyFacts
<1>2. /\ pools[p] \in StakePool /\ total_joining_power \in Nat
      /\ pending_active \in Seq(ValidatorInfo) /\ NoDuplicates(pending_active)
      /\ CurrentValidators \cap Members(pending_active) = {}
  BY <1>1 DEF IInv, TypeOK, QueuesDisjoint
<1>3. v \in Nat
  BY <1>2, NextEpochVotingPowerType
<1>4. i \in DOMAIN pending_active /\ pending_active[i].addr = p
  BY IndexOfMember DEF LeavePendingActive
<1>5. /\ p \in Members(pending_active)
      /\ pending_active' = SwapRemove(pending_active, i)
      /\ total_joining_power' = IF total_joining_power > v
                                THEN total_joining_power - v ELSE 0
      /\ active_validators' = active_validators
      /\ pending_inactive' = pending_inactive
  BY DEF LeavePendingActive
<1>6. pools' = pools
  BY DEF LeaveValidatorSet
<1> HIDE DEF i
<1>7. Members(pending_active') = Members(pending_active) \ {p}
  BY <1>2, <1>4, <1>5, SwapRemoveNoDuplicates
<1>8. p \notin Members(active_validators)
  BY <1>2, <1>5 DEF CurrentValidators
<1>9. \A q \in Pool : Joining(q, pools[q])' = IF q = p THEN 0
                                              ELSE Joining(q, pools[q])
  <2>1. Members(active_validators)' = Members(active_validators)
    BY <1>5
  <2> QED
    BY <1>6, <1>7, <1>8, <2>1 DEF Joining
<1>10. JoiningOf[p] = v
  BY <1>5 DEF JoiningOf, Joining
<1> HIDE DEF v
<1>11. JoiningOf' = [JoiningOf EXCEPT ![p] = 0]
  BY <1>9 DEF JoiningOf
<1>12. /\ Total(JoiningOf') = Total(JoiningOf) + (0 - v)
       /\ Total(JoiningOf) \in Nat /\ Total(JoiningOf') \in Nat
  <2>1. \A z \in Nat : JoiningOf' = [JoiningOf EXCEPT ![p] = z] =>
          /\ Total(JoiningOf') = Total(JoiningOf) + (z - JoiningOf[p])
          /\ Total(JoiningOf) \in Nat /\ Total(JoiningOf') \in Nat
    BY <1>1, ChangedJoining
  <2>2. 0 \in Nat
    OBVIOUS
  <2> QED
    BY <1>10, <1>11, <2>1, <2>2, Zenon
<1>13. (total_joining_power >= Total(JoiningOf))'
  BY <1>1, <1>2, <1>3, <1>5, <1>12
<1>14. CurrentValidators' = CurrentValidators
  BY <1>5, Zenon DEF CurrentValidators
<1>15. UNCHANGED <<registered, pools, total_voting_power, fees_table,
                   moneyVars, clockVars>>
  BY DEF LeaveValidatorSet
<1> QED
  BY <1>13, <1>14, <1>15, QueueMoney

\* Validators that move to pending_inactive take their pending stake with
\* them; the joining power keeps counting it.
LEMMA MovedMoney ==
  ASSUME MoneyIInv, IInv',
         SameEntries(active_validators, pending_inactive,
                     active_validators', pending_inactive'),
         UNCHANGED <<registered, pools, pending_active, powerVars,
                     fees_table, moneyVars, clockVars>>
  PROVE  MoneyIInv'
<1>1. IInv /\ total_joining_power >= Total(JoiningOf)
  BY MoneyFacts
<1>2. CurrentValidators' = CurrentValidators
  BY SameMembers DEF CurrentValidators
<1>3. Members(active_validators') \subseteq Members(active_validators)
  BY DEF SameEntries, Entries, Members
<1>4. /\ JoiningOf \in [Pool -> Nat] /\ total_joining_power \in Nat
      /\ pools \in [Pool -> StakePool]
  BY <1>1, JoiningOfType DEF IInv, TypeOK
<1>5. \A q \in Pool : /\ JoiningOf'[q] \in Nat
                      /\ JoiningOf'[q] <= JoiningOf[q]
  <2> SUFFICES ASSUME NEW q \in Pool
        PROVE /\ Joining(q, pools[q])' \in Nat
              /\ Joining(q, pools[q])' <= Joining(q, pools[q])
    BY DEF JoiningOf
  <2>1. pools[q] \in StakePool /\ NextEpochVotingPower(pools[q]) \in Nat
    BY <1>4, NextEpochVotingPowerType
  <2>2. /\ pools'[q] = pools[q]
        /\ Members(pending_active)' = Members(pending_active)
    OBVIOUS
  <2> QED
    BY <1>3, <2>1, <2>2 DEF Joining, StakePool
<1> DEFINE f == JoiningOf
           g == JoiningOf'
<1>6. /\ f \in [Pool -> Int] /\ g \in [Pool -> Int] /\ g \in [Pool -> Nat]
      /\ \A q \in Pool : g[q] <= f[q]
  <2>1. g = [q \in Pool |-> g[q]]
    BY DEF JoiningOf
  <2> QED
    BY <1>4, <1>5, <2>1
<1> HIDE DEF f, g
<1>7. Total(g) <= Total(f) /\ Total(g) \in Nat /\ Total(f) \in Int
  BY <1>6, PoolAssumption, TotalMono, TotalNat, TotalInt
<1>8. (total_joining_power >= Total(JoiningOf))'
  BY <1>1, <1>4, <1>7 DEF f, g, powerVars
<1>9. UNCHANGED <<registered, pools, total_voting_power, fees_table,
                  moneyVars, clockVars>>
  BY DEF powerVars
<1> QED
  BY <1>2, <1>8, <1>9, QueueMoney

\* leave_validator_set of an active validator moves its entry.
LEMMA LeaveActiveMoney ==
  ASSUME MoneyIInv, IInv', NEW p \in Pool, LeaveValidatorSet(p), LeaveActive(p)
  PROVE  MoneyIInv'
<1> DEFINE i == IndexOf(active_validators, p)
<1>1. i \in DOMAIN active_validators
  BY IndexOfMember DEF LeaveActive
<1>2. /\ active_validators' = SwapRemove(active_validators, i)
      /\ pending_inactive' = Append(pending_inactive, active_validators[i])
  BY DEF LeaveActive
<1> HIDE DEF i
<1>3. SameEntries(active_validators, pending_inactive,
                  active_validators', pending_inactive')
  BY <1>1, <1>2, SeparateNow, MoveEntry DEF MoneyIInv
<1>4. UNCHANGED <<registered, pools, pending_active, powerVars, fees_table,
                  moneyVars, clockVars>>
  BY DEF LeaveValidatorSet, LeaveActive, powerVars
<1> QED
  BY <1>3, <1>4, MovedMoney

\* remove_validators moves the entries it is given.
LEMMA RemoveValidatorsMoney ==
  ASSUME MoneyIInv, IInv', NEW list \in Seq(Pool), RemoveValidators(list)
  PROVE  MoneyIInv'
<1>1. Len(list) \in Nat
  BY LenProperties
<1>2. SameEntries(active_validators, pending_inactive,
                  active_validators', pending_inactive')
  BY <1>1, SeparateNow, RemoveValidatorsFacts DEF MoneyIInv
<1>3. UNCHANGED <<registered, pools, pending_active, powerVars, fees_table,
                  moneyVars, clockVars>>
  BY DEF RemoveValidators
<1> QED
  BY <1>2, <1>3, MovedMoney

\* Steps that leave pools, queues and money alone.
LEMMA AsideMoney ==
  ASSUME MoneyIInv, IInv',
         UNCHANGED <<registered, pools, queueVars, powerVars, fees_table,
                     moneyVars, clockVars>>
  PROVE  MoneyIInv'
<1>1. IInv /\ total_joining_power >= Total(JoiningOf)
  BY MoneyFacts
<1>2. /\ active_validators' = active_validators
      /\ pending_inactive' = pending_inactive
      /\ pending_active' = pending_active /\ pools' = pools
      /\ total_joining_power' = total_joining_power
  BY DEF queueVars, powerVars
<1>3. JoiningOf' = JoiningOf /\ CurrentValidators' = CurrentValidators
  BY <1>2, Zenon DEF JoiningOf, Joining, CurrentValidators
<1>4. (total_joining_power >= Total(JoiningOf))'
  BY <1>1, <1>2, <1>3, Zenon
<1>5. UNCHANGED <<registered, pools, total_voting_power, fees_table,
                  moneyVars, clockVars>>
  BY DEF powerVars
<1> QED
  BY <1>3, <1>4, <1>5, QueueMoney

-----------------------------------------------------------------------------
(* Blocks preserve the sums *)

\* The fee that a block credits.
LEMMA CreditedTotal ==
  ASSUME IInv, NEW payee \in CurrentValidators, NEW fee \in Nat
  PROVE  /\ Total(Credited(payee, fee)) = Total(fees_table) + fee
         /\ Total(fees_table) \in Nat
<1>1. payee \in Pool /\ fees_table \in [Pool -> Nat]
  BY CurrentFacts DEF IInv, TypeOK
<1> DEFINE v == fees_table[payee] + fee
           g == Credited(payee, fee)
<1>2. fees_table[payee] \in Nat /\ v \in Nat
  BY <1>1
<1>3. g = [fees_table EXCEPT ![payee] = v]
  BY <1>1 DEF Credited
<1>4. \A w \in Nat : \A h : h = [fees_table EXCEPT ![payee] = w] =>
        /\ Total(h) = Total(fees_table) + (w - fees_table[payee])
        /\ Total(fees_table) \in Nat
  BY <1>1, ChangedTotal
<1> HIDE DEF v, g
<1>5. /\ Total(g) = Total(fees_table) + (v - fees_table[payee])
      /\ Total(fees_table) \in Nat
  BY <1>2, <1>3, <1>4, Zenon
<1> QED
  BY <1>2, <1>5 DEF v, g

\* A block that ends no epoch: fees go to the store, burnt fees vanish.
LEMMA RunsMoney ==
  ASSUME MoneyIInv, IInv', NEW payee \in CurrentValidators, NEW perf,
         NEW fee \in Nat, NEW burnt \in Nat, NEW t \in Nat,
         now' = t, now <= t,
         UNCHANGED <<registered, wallet, staking_config>>,
         Runs(perf, Credited(payee, fee), fee, burnt, t)
  PROVE  MoneyIInv'
<1>1. /\ IInv
      /\ total_voting_power = TotalStake
      /\ total_joining_power >= Total(JoiningOf)
      /\ pool_store = Total(fees_table) + Total(HoldingsOf)
      /\ supply = pool_store + Total(wallet) + circulating
      /\ \A q \in Pool \ registered : pools[q] = EmptyPool
      /\ reconf.start_time_secs <= Secs(now)
  BY MoneyFacts
<1>2. /\ fees_table' = Credited(payee, fee)
      /\ pool_store' = pool_store + fee
      /\ supply' = supply - burnt
      /\ circulating' = circulating - fee - burnt
      /\ StartReconfiguration(Secs(t)) \/ UNCHANGED reconf
      /\ pools' = pools /\ active_validators' = active_validators
      /\ pending_inactive' = pending_inactive
      /\ pending_active' = pending_active
      /\ total_voting_power' = total_voting_power
      /\ total_joining_power' = total_joining_power
      /\ registered' = registered /\ wallet' = wallet
  BY DEF Runs, queueVars, powerVars
<1>3. /\ Total(fees_table') = Total(fees_table) + fee
      /\ Total(fees_table) \in Nat
  BY <1>1, <1>2, CreditedTotal
<1>4. Total(HoldingsOf) \in Nat /\ Total(wallet) \in Nat
  <2>1. HoldingsOf \in [Pool -> Nat] /\ wallet \in [Pool -> Nat]
    BY <1>1, HoldingsOfType DEF IInv, TypeOK
  <2> QED
    BY <2>1, PoolAssumption, TotalNat
<1>5. /\ JoiningOf' = JoiningOf /\ HoldingsOf' = HoldingsOf
      /\ TotalStake' = TotalStake
  BY <1>2, Zenon DEF JoiningOf, Joining, HoldingsOf, TotalStake,
                     CurrentValidators
<1>6. (total_voting_power = TotalStake)'
  BY <1>1, <1>2, <1>5, Zenon
<1>7. (total_joining_power >= Total(JoiningOf))'
  BY <1>1, <1>2, <1>5, Zenon
<1>8. circulating \in Nat /\ Total(HoldingsOf') = Total(HoldingsOf)
      /\ Total(wallet') = Total(wallet)
  BY <1>1, <1>2, <1>5 DEF IInv, TypeOK
<1>9. (pool_store = Total(fees_table) + Total(HoldingsOf))'
  BY <1>1, <1>2, <1>3, <1>4, <1>8
<1>10. (supply = pool_store + Total(wallet) + circulating)'
  BY <1>1, <1>2, <1>3, <1>4, <1>8
<1>11. \A q \in Pool \ registered' : pools'[q] = EmptyPool
  BY <1>1, <1>2, Zenon
<1>12. (reconf.start_time_secs <= Secs(now))'
  <2>1. now \in Nat /\ reconf.start_time_secs \in Nat
    BY <1>1 DEF IInv, TypeOK
  <2>2. Secs(now) <= Secs(t) /\ Secs(now) \in Nat /\ Secs(t) \in Nat
    BY <2>1, SecsMono, SecsType
  <2>3. \/ reconf' = reconf
        \/ reconf' = [in_progress |-> TRUE, start_time_secs |-> Secs(t)]
    BY <1>2 DEF StartReconfiguration
  <2>4. reconf'.start_time_secs <= Secs(t)
    BY <1>1, <2>1, <2>2, <2>3
  <2> QED
    BY <2>4
<1> QED
  BY <1>6, <1>7, <1>9, <1>10, <1>11, <1>12, NextMoney

\* The arithmetic of an epoch change.
LEMMA EpochSums ==
  ASSUME NEW ps \in Int, NEW tf \in Nat, NEW th \in Nat, NEW tw \in Nat,
         NEW c \in Nat, NEW sup, ps = tf + th, sup = ps + tw + c,
         NEW fee \in Nat, NEW burnt \in Nat,
         NEW minted \in Nat, NEW shared \in Nat,
         NEW paid \in Nat, NEW tf2 \in Nat, tf + fee = tf2 + paid,
         NEW th2 \in Nat, th2 = th + minted + paid
  PROVE  /\ ps + fee + minted = tf2 + th2
         /\ sup - burnt + minted + shared
              = (ps + fee + minted) + tw + (c - fee - burnt + shared)
OBVIOUS

\* What the pools hold after an epoch change.
LEMMA EpochHoldings ==
  ASSUME IInv, NEW perf \in Seq(Performance),
         Len(perf) = Len(validator_perf),
         NEW fees \in [Pool -> Nat], NEW store \in Int,
         NEW sup \in Nat, NEW circ \in Nat, circ <= sup,
         NEW start \in Nat, NEW secs \in Nat, start <= secs,
         OnNewEpoch(perf, fees, store, sup, circ, start, secs)
  PROVE  \E paid \in Nat :
           /\ Total(HoldingsOf') = Total(HoldingsOf)
                + MintedIn(perf, sup) + paid
           /\ Total(fees) = Total(fees_table') + paid
           /\ Total(HoldingsOf') \in Nat /\ Total(fees_table') \in Nat
<1> DEFINE C == CurrentValidators
           m == [p \in Pool |-> IF p \in C THEN MintedFor(RewardOf(p, perf, sup))
                                           ELSE 0]
           d == [p \in Pool |-> IF p \in C THEN FeeOf(p, fees) ELSE 0]
           md == [p \in Pool |-> m[p] + d[p]]
           h == HoldingsOf
           h2 == HoldingsOf'
           f2 == fees_table'
<1>1. C \in SUBSET Pool /\ IsFiniteSet(C) /\ IsFiniteSet(Pool)
  BY CurrentFacts, PoolAssumption
<1>2. \A p \in C : MintedFor(RewardOf(p, perf, sup)) \in Nat
  <2> SUFFICES ASSUME NEW p \in C
        PROVE MintedFor(RewardOf(p, perf, sup)) \in Nat
    OBVIOUS
  <2>1. RewardOf(p, perf, sup) \in Rewards
    BY RewardOfType
  <2>2. /\ RewardOf(p, perf, sup).active \in Nat
        /\ RewardOf(p, perf, sup).pending_inactive \in Nat
    BY <2>1 DEF Rewards
  <2>3. /\ ValidatorShare(RewardOf(p, perf, sup).active) \in Nat
        /\ ValidatorShare(RewardOf(p, perf, sup).pending_inactive) \in Nat
    BY <2>2, ValidatorShareType
  <2> QED
    BY <2>3 DEF MintedFor
<1>3. \A p \in Pool : FeeOf(p, fees) \in Nat
  BY DEF FeeOf
<1>4. m \in [Pool -> Nat] /\ d \in [Pool -> Nat] /\ h \in [Pool -> Nat]
  BY <1>2, <1>3, HoldingsOfType
<1>5. \A p \in Pool : h2[p] = h[p] + md[p]
  <2> SUFFICES ASSUME NEW p \in Pool
        PROVE Holdings(pools'[p]) = Holdings(pools[p]) + (m[p] + d[p])
    BY DEF HoldingsOf
  <2>1. /\ p \in C => Holdings(pools'[p]) = Holdings(pools[p])
             + MintedFor(RewardOf(p, perf, sup)) + FeeOf(p, fees)
        /\ p \notin C => Holdings(pools'[p]) = Holdings(pools[p])
    BY PoolsAfterEpoch
  <2>2. Holdings(pools[p]) \in Nat
    BY <1>4 DEF HoldingsOf
  <2> QED
    BY <1>2, <1>3, <2>1, <2>2
<1>6. f2 = [p \in Pool |-> IF CollectFees /\ p \in C THEN 0 ELSE fees[p]]
  BY OnNewEpochEffects
<1>7. \A p \in Pool : f2[p] \in Nat /\ fees[p] = f2[p] + d[p]
  BY <1>6 DEF FeeOf
<1>8. [p \in C |-> m[p]] = [p \in C |-> MintedFor(RewardOf(p, perf, sup))]
  BY <1>1
<1>9. \A p \in Pool \ C : m[p] = 0
  OBVIOUS
<1>10. /\ h2 = [p \in Pool |-> h[p] + md[p]]
       /\ fees = [p \in Pool |-> f2[p] + d[p]]
       /\ f2 \in [Pool -> Nat]
  <2>1. h2 = [p \in Pool |-> h2[p]]
    BY DEF HoldingsOf
  <2>2. f2 \in [Pool -> Nat]
    BY <1>6, <1>7
  <2>3. h2 = [p \in Pool |-> h[p] + md[p]]
    <3> HIDE DEF h2, h, md
    <3> QED
      BY <1>5, <2>1
  <2>4. fees = [p \in Pool |-> f2[p] + d[p]]
    <3> HIDE DEF f2, d
    <3> QED
      BY <1>7
  <2> QED
    BY <2>2, <2>3, <2>4
<1>11. md = [p \in Pool |-> m[p] + d[p]]
  OBVIOUS
<1>12. /\ h \in [Pool -> Int] /\ m \in [Pool -> Int] /\ d \in [Pool -> Int]
       /\ md \in [Pool -> Int] /\ f2 \in [Pool -> Int] /\ md \in [Pool -> Nat]
       /\ h2 \in [Pool -> Nat]
  <2>1. md \in [Pool -> Nat]
    <3> HIDE DEF m, d
    <3> QED
      BY <1>4
  <2>2. h2 \in [Pool -> Nat]
    <3> HIDE DEF m, d, md, h
    <3> QED
      BY <1>4, <1>10, <2>1
  <2> HIDE DEF m, d, md, h, h2, f2
  <2> QED
    BY <1>4, <1>10, <2>1, <2>2
<1>13. MintedIn(perf, sup) = Total([p \in C |-> m[p]])
  BY <1>8, Zenon DEF MintedIn
<1> HIDE DEF C, m, d, md, h, h2, f2
<1>14. Total(h2) = Total(h) + Total(md)
  <2>1. Total([p \in Pool |-> h[p] + md[p]]) = Total(h) + Total(md)
    BY <1>1, <1>12, TotalAdd
  <2> QED
    BY <1>10, <2>1, Zenon
<1>15. Total(md) = Total(m) + Total(d)
  <2>1. Total([p \in Pool |-> m[p] + d[p]]) = Total(m) + Total(d)
    BY <1>1, <1>12, TotalAdd
  <2> QED
    BY <1>11, <2>1, Zenon
<1>16. Total(fees) = Total(f2) + Total(d)
  <2>1. Total([p \in Pool |-> f2[p] + d[p]]) = Total(f2) + Total(d)
    BY <1>1, <1>12, TotalAdd
  <2> QED
    BY <1>10, <2>1, Zenon
<1>17. MintedIn(perf, sup) = Total(m)
  <2>1. Total([p \in C |-> m[p]]) = Total(m)
    BY <1>1, <1>9, <1>12, TotalRestrict
  <2> QED
    BY <1>13, <2>1, Zenon
<1>18. /\ Total(d) \in Nat /\ Total(m) \in Nat /\ Total(h) \in Nat
       /\ Total(h2) \in Nat /\ Total(f2) \in Nat
  BY <1>1, <1>4, <1>10, <1>12, TotalNat
<1>19. Total(h2) = Total(h) + MintedIn(perf, sup) + Total(d)
  BY <1>14, <1>15, <1>17, <1>18
<1> QED
  BY <1>16, <1>18, <1>19 DEF h, h2, f2

\* An empty queue has no power.
LEMMA NoPowers == Powers(<<>>) = 0
<1>1. [i \in DOMAIN <<>> |-> <<>>[i].voting_power] \in [{} -> Int]
  OBVIOUS
<1> QED
  BY <1>1, TotalEmpty DEF Powers

\* The call of on_new_epoch in a block that ends the epoch.
LEMMA EndsCalls ==
  ASSUME MoneyIInv, NEW perf, NEW fees,
         NEW fee \in Nat, NEW burnt \in Nat, NEW t \in Nat, now <= t,
         fee + burnt <= circulating, Ends(perf, fees, fee, burnt, t)
  PROVE  /\ pool_store + fee \in Int /\ supply - burnt \in Nat
         /\ circulating - fee - burnt \in Nat
         /\ circulating - fee - burnt <= supply - burnt
         /\ Secs(t) \in Nat /\ Secs(now) <= Secs(t)
         /\ \E start \in Nat :
              /\ start <= Secs(t)
              /\ OnNewEpoch(perf, fees, pool_store + fee, supply - burnt,
                            circulating - fee - burnt, start, Secs(t))
         /\ reconf' = [in_progress |-> FALSE, start_time_secs |-> 0]
<1>1. /\ circulating \in Nat /\ supply \in Int /\ pool_store \in Int
      /\ circulating <= supply /\ now \in Nat
      /\ reconf.start_time_secs \in Nat
      /\ reconf.start_time_secs <= Secs(now)
  BY DEF MoneyIInv, IInv, TypeOK
<1>2. /\ Secs(now) \in Nat /\ Secs(t) \in Nat /\ Secs(now) <= Secs(t)
  BY <1>1, SecsType, SecsMono
<1>3. /\ pool_store + fee \in Int /\ supply - burnt \in Nat
      /\ circulating - fee - burnt \in Nat
      /\ circulating - fee - burnt <= supply - burnt
  BY <1>1
<1> DEFINE start == IF InProgress THEN reconf.start_time_secs ELSE Secs(t)
<1>4. start \in Nat /\ start <= Secs(t)
  BY <1>1, <1>2
<1>5. /\ OnNewEpoch(perf, fees, pool_store + fee, supply - burnt,
                    circulating - fee - burnt, start, Secs(t))
      /\ reconf' = [in_progress |-> FALSE, start_time_secs |-> 0]
  BY DEF Ends, EndEpoch
<1> HIDE DEF start
<1> QED
  BY <1>2, <1>3, <1>4, <1>5

\* on_new_epoch preserves the sums: the new snapshots are what the fresh
\* total counts, nothing is left to join, and rewards and fees reach the
\* pools as they reach the store.
LEMMA EndsMoney ==
  ASSUME MoneyIInv, IInv', NEW payee \in CurrentValidators,
         NEW perf \in Seq(Performance), Len(perf) = Len(validator_perf),
         NEW fee \in Nat, NEW burnt \in Nat, NEW t \in Nat,
         Credited(payee, fee) \in [Pool -> Nat],
         fee + burnt <= circulating, now' = t, now <= t,
         UNCHANGED <<registered, wallet, staking_config>>,
         Ends(perf, Credited(payee, fee), fee, burnt, t)
  PROVE  MoneyIInv'
<1> DEFINE fees == Credited(payee, fee)
           store == pool_store + fee
           sup == supply - burnt
           circ == circulating - fee - burnt
           secs == Secs(t)
<1>1. /\ IInv
      /\ pool_store = Total(fees_table) + Total(HoldingsOf)
      /\ supply = pool_store + Total(wallet) + circulating
      /\ \A q \in Pool \ registered : pools[q] = EmptyPool
  BY MoneyFacts
<1>2. /\ store \in Int /\ sup \in Nat /\ circ \in Nat /\ circ <= sup
      /\ secs \in Nat
      /\ reconf' = [in_progress |-> FALSE, start_time_secs |-> 0]
  BY EndsCalls
<1>3. PICK start \in Nat :
        /\ start <= secs
        /\ OnNewEpoch(perf, fees, store, sup, circ, start, secs)
  BY EndsCalls
<1>4. fees \in [Pool -> Nat]
  OBVIOUS
<1>5. Total(fees) = Total(fees_table) + fee /\ Total(fees_table) \in Nat
  BY <1>1, CreditedTotal
<1>6. circulating \in Nat /\ pool_store \in Int
  BY <1>1 DEF IInv, TypeOK
<1> HIDE DEF fees, store, sup, circ, secs
<1>7. /\ total_voting_power' = Powers(active_validators')
      /\ total_joining_power' = 0
      /\ pool_store' = store + MintedIn(perf, sup)
      /\ circulating' = circ + SharedIn(perf, sup)
      /\ supply' = sup + MintedIn(perf, sup) + SharedIn(perf, sup)
  BY <1>1, <1>2, <1>3, <1>4, OnNewEpochEffects
<1>8. pending_active' = <<>> /\ pending_inactive' = <<>>
  BY <1>3 DEF OnNewEpoch
<1>9. ASSUME NEW p \in Pool
      PROVE  /\ pools'[p].pending_active = 0
             /\ p \notin InValidatorSet => pools'[p] = pools[p]
  BY <1>1, <1>2, <1>3, <1>4, PoolsAfterEpoch
<1>10. PICK paid \in Nat :
         /\ Total(HoldingsOf') = Total(HoldingsOf) + MintedIn(perf, sup) + paid
         /\ Total(fees) = Total(fees_table') + paid
         /\ Total(HoldingsOf') \in Nat /\ Total(fees_table') \in Nat
  BY <1>1, <1>2, <1>3, <1>4, EpochHoldings
<1>11. MintedIn(perf, sup) \in Nat /\ SharedIn(perf, sup) \in Nat
  BY <1>1, <1>2, MintedWithinRate
<1>12. Total(HoldingsOf) \in Nat /\ Total(wallet) \in Nat
  <2>1. HoldingsOf \in [Pool -> Nat] /\ wallet \in [Pool -> Nat]
    BY <1>1, HoldingsOfType DEF IInv, TypeOK
  <2> QED
    BY <2>1, PoolAssumption, TotalNat
<1>13. /\ pool_store + fee + MintedIn(perf, sup)
            = Total(fees_table') + Total(HoldingsOf')
       /\ supply - burnt + MintedIn(perf, sup) + SharedIn(perf, sup)
            = (pool_store + fee + MintedIn(perf, sup)) + Total(wallet)
              + (circulating - fee - burnt + SharedIn(perf, sup))
  <2>1. Total(fees_table) + fee = Total(fees_table') + paid
    BY <1>5, <1>10
  <2>2. /\ pool_store = Total(fees_table) + Total(HoldingsOf)
        /\ supply = pool_store + Total(wallet) + circulating
    BY <1>1
  <2> DEFINE tf == Total(fees_table)
             tf2 == Total(fees_table')
             th == Total(HoldingsOf)
             th2 == Total(HoldingsOf')
             tw == Total(wallet)
             m == MintedIn(perf, sup)
             s == SharedIn(perf, sup)
  <2>3. /\ tf \in Nat /\ tf2 \in Nat /\ th \in Nat /\ th2 \in Nat /\ tw \in Nat
        /\ m \in Nat /\ s \in Nat
        /\ tf + fee = tf2 + paid /\ th2 = th + m + paid
        /\ pool_store = tf + th /\ supply = pool_store + tw + circulating
    BY <1>5, <1>10, <1>11, <1>12, <2>1, <2>2
  <2> HIDE DEF tf, tf2, th, th2, tw, m, s
  <2>4. /\ pool_store + fee + m = tf2 + th2
        /\ supply - burnt + m + s = (pool_store + fee + m) + tw
             + (circulating - fee - burnt + s)
    BY <1>6, <2>3, EpochSums
  <2> QED
    BY <2>4 DEF tf, tf2, th, th2, tw, m, s
<1>14. (pool_store = Total(fees_table) + Total(HoldingsOf))'
  BY <1>7, <1>13 DEF store
<1>15. (supply = pool_store + Total(wallet) + circulating)'
  <2>1. Total(wallet') = Total(wallet)
    OBVIOUS
  <2> QED
    BY <1>7, <1>13, <2>1 DEF store, sup, circ
<1>16. (total_voting_power
          = Powers(active_validators) + Powers(pending_inactive))'
  <2>1. Powers(pending_inactive') = 0
    BY <1>8, NoPowers
  <2>2. total_voting_power' \in Nat
    BY DEF IInv, TypeOK
  <2> QED
    BY <1>7, <2>1, <2>2
<1>17. (total_joining_power >= Total(JoiningOf))'
  <2>1. Members(pending_active') = {}
    BY <1>8 DEF Members
  <2>2. \A p \in Pool : Joining(p, pools[p])' = 0
    BY <1>9, <2>1 DEF Joining
  <2>3. JoiningOf' = [p \in Pool |-> Joining(p, pools[p])']
    BY DEF JoiningOf
  <2> DEFINE g == JoiningOf'
  <2> HIDE DEF g
  <2>4. g = [p \in Pool |-> 0]
    BY <2>2, <2>3 DEF g
  <2>5. g \in [Pool -> Int] /\ \A p \in Pool : g[p] = 0
    BY <2>4
  <2>6. Total(g) = 0
    BY <2>5, PoolAssumption, TotalZero
  <2> QED
    BY <1>7, <2>6 DEF g
<1>18. \A q \in Pool \ registered' : pools'[q] = EmptyPool
  <2> SUFFICES ASSUME NEW q \in Pool, q \notin registered
        PROVE pools'[q] = EmptyPool
    OBVIOUS
  <2>1. q \notin InValidatorSet
    BY <1>1 DEF IInv
  <2> QED
    BY <1>1, <1>9, <2>1
<1>19. (reconf.start_time_secs <= Secs(now))'
  BY <1>2 DEF secs
<1> QED
  BY <1>14, <1>15, <1>16, <1>17, <1>18, <1>19, NextMoney

\* System transactions preserve the sums.
LEMMA SystemStepMoney ==
  ASSUME MoneyIInv, IInv', SystemStep
  PROVE  MoneyIInv'
<1>1. IInv
  BY DEF MoneyIInv
<1>2. PICK payee \in CurrentValidators, perf \in Seq(Performance),
           fee \in Nat, burnt \in Nat, t \in Nat :
        LET fees == Credited(payee, fee) IN
          /\ Len(perf) = Len(validator_perf)
          /\ fees \in [Pool -> Nat]
          /\ fee + burnt <= circulating /\ now' = t /\ now <= t
          /\ UNCHANGED <<registered, wallet, staking_config>>
          /\ \/ Ends(perf, fees, fee, burnt, t)
             \/ Runs(perf, fees, fee, burnt, t)
  BY <1>1, SystemStepCases
<1>3. CASE Ends(perf, Credited(payee, fee), fee, burnt, t)
  BY <1>2, <1>3, EndsMoney
<1>4. CASE Runs(perf, Credited(payee, fee), fee, burnt, t)
  BY <1>2, <1>4, RunsMoney
<1> QED
  BY <1>2, <1>3, <1>4

-----------------------------------------------------------------------------
(* The invariant *)

\* Genesis pays every validator's stake into the store.
LEMMA InitMoneyIInv ==
  ASSUME Init
  PROVE  MoneyIInv
<1> DEFINE n == Len(GenesisOrder)
           c == GenesisOrder
           gs == [p \in GenesisPools |-> GenesisStake[p]]
<1>0. /\ pending_active = <<>> /\ pending_inactive = <<>>
      /\ fees_table = [p \in Pool |-> 0] /\ total_joining_power = 0
      /\ reconf = [in_progress |-> FALSE, start_time_secs |-> 0] /\ now = 0
  BY Zenon DEF Init
<1>1. IInv
  BY InitIInv
<1>2. /\ DOMAIN c = 1..n /\ \A i \in 1..n : c[i] \in GenesisPools
      /\ \A p \in GenesisPools : \E i \in 1..n : c[i] = p
      /\ GenesisPools \in SUBSET Pool
  BY GenesisOrderFacts
<1> HIDE DEF c, n
<1>3. /\ \A p \in GenesisPools :
           /\ pools[p].active = GenesisStake[p]
           /\ pools[p].pending_active = 0 /\ pools[p].pending_inactive = 0
           /\ pools[p].inactive = 0
      /\ \A p \in Pool \ GenesisPools : pools[p] = EmptyPool
  <2> DEFINE lockup == staking_config.recurring_lockup_duration_secs
             first(p) == [EmptyPool EXCEPT !.active = GenesisStake[p],
                                           !.locked_until_secs = lockup]
  <2>1. pools = [p \in Pool |->
                  IF p \in GenesisPools THEN first(p) ELSE EmptyPool]
    BY DEF Init
  <2>2. \A p \in GenesisPools :
          /\ first(p).active = GenesisStake[p]
          /\ first(p).pending_active = 0 /\ first(p).pending_inactive = 0
          /\ first(p).inactive = 0
    BY DEF EmptyPool
  <2> HIDE DEF first
  <2> QED
    BY <1>2, <2>1, <2>2
<1>4. /\ EmptyPool.active = 0 /\ EmptyPool.pending_active = 0
      /\ EmptyPool.pending_inactive = 0 /\ EmptyPool.inactive = 0
  BY DEF EmptyPool
<1>5. \A p \in GenesisPools : GenesisStake[p] \in Nat
  BY <1>2, AmountAssumption
<1>6. CurrentValidators = GenesisPools
  <2>1. active_validators = [i \in 1..n |->
          ValidatorInfoOf(c[i], pools[c[i]], config[c[i]])]
    BY DEF Init, c, n
  <2>2. Members(active_validators) = {c[i] : i \in 1..n}
    BY <2>1 DEF Members, ValidatorInfoOf
  <2>3. Members(pending_inactive) = {}
    BY <1>0 DEF Members
  <2> QED
    BY <1>2, <2>2, <2>3 DEF CurrentValidators
<1>7. TotalStake = GenesisTotal
  <2>1. \A p \in GenesisPools :
          pools[p].active + pools[p].pending_inactive = GenesisStake[p]
    BY <1>3, <1>5
  <2>2. [p \in GenesisPools |-> pools[p].active + pools[p].pending_inactive]
          = gs
    BY <2>1
  <2> QED
    BY <1>6, <2>2, Zenon DEF TotalStake, GenesisTotal
<1>8. TotalIsSumOfSnapshots
  <2>1. total_voting_power = TotalStake
    BY <1>7, Zenon DEF Init
  <2> QED
    BY <1>1, <2>1, PowerIsStake
<1>9. Total(HoldingsOf) = GenesisTotal
  <2>1. /\ HoldingsOf \in [Pool -> Int]
        /\ \A p \in Pool : HoldingsOf[p] = IF p \in GenesisPools
                                           THEN GenesisStake[p] ELSE 0
    <3>1. \A p \in Pool : Holdings(pools[p]) = IF p \in GenesisPools
                                               THEN GenesisStake[p] ELSE 0
      BY <1>3, <1>4, <1>5 DEF Holdings, NextEpochVotingPower
    <3> QED
      BY <1>5, <3>1 DEF HoldingsOf
  <2>2. [p \in GenesisPools |-> HoldingsOf[p]] = gs
    BY <1>2, <2>1
  <2>3. \A p \in Pool \ GenesisPools : HoldingsOf[p] = 0
    BY <2>1
  <2>4. Total([p \in GenesisPools |-> HoldingsOf[p]]) = Total(HoldingsOf)
    BY <1>2, <2>1, <2>3, PoolAssumption, TotalRestrict
  <2> QED
    BY <2>2, <2>4, Zenon DEF GenesisTotal
<1>10. PoolsAreBacked
  <2>1. fees_table \in [Pool -> Int] /\ \A p \in Pool : fees_table[p] = 0
    BY <1>0
  <2>2. Total(fees_table) = 0
    BY <2>1, PoolAssumption, TotalZero
  <2>3. pool_store = GenesisTotal /\ GenesisTotal \in Nat
    BY GenesisTotalType DEF Init
  <2>4. pool_store = Total(fees_table) + Total(HoldingsOf)
    BY <1>9, <2>2, <2>3
  <2> QED
    BY <2>4, BackedIs
<1>11. SupplyIsConserved
  BY Zenon DEF Init, SupplyIsConserved
<1>12. JoiningPowerCoversIncrease
  <2>1. Members(pending_active) = {}
    BY <1>0 DEF Members
  <2>2. \A p \in Pool : pools[p].pending_active = 0
    BY <1>3, <1>4
  <2>3. /\ JoiningOf \in [Pool -> Int]
        /\ \A p \in Pool : JoiningOf[p] = 0
    BY <2>1, <2>2 DEF JoiningOf, Joining
  <2>4. Total(JoiningOf) = 0
    BY <2>3, PoolAssumption, TotalZero
  <2>5. Increase = 0
    BY <1>1, <2>4, IncreaseIsTotal
  <2> QED
    BY <1>0, <2>5 DEF JoiningPowerCoversIncrease
<1>13. reconf.start_time_secs <= Secs(now)
  <2>1. Secs(0) \in Nat
    BY SecsType
  <2> QED
    BY <1>0, <2>1
<1>14. \A p \in Pool \ registered : pools[p] = EmptyPool
  BY <1>3 DEF Init
<1> QED
  BY <1>1, <1>8, <1>10, <1>11, <1>12, <1>13, <1>14 DEF MoneyIInv

\* What remove_validators is called with.
LEMMA RemovalListType ==
  ASSUME NEW list \in RemovalLists
  PROVE  list \in Seq(Pool)
<1>1. PICK n \in 1..MaxRemoved : list \in [1..n -> Pool]
  BY DEF RemovalLists
<1>2. n \in Nat
  BY BoundAssumption
<1> QED
  BY <1>1, <1>2, SeqOfLength

\* Every step preserves the sums.
LEMMA NextMoneyIInv ==
  ASSUME MoneyIInv, [Next]_stakeVars
  PROVE  MoneyIInv'
<1>1. IInv /\ IInv'
  BY NextIInv DEF MoneyIInv
<1>2. ASSUME NEW p \in Pool, OwnerStep(p) PROVE MoneyIInv'
  <2>1. PICK sp \in StakePool, coins \in Nat : OwnerEffect(p, sp, coins)
    BY <1>2, OwnerStepEffect
  <2> QED
    BY <1>1, <2>1, OwnerMoney
<1>3. ASSUME NEW p \in Pool, OperatorStep(p) PROVE MoneyIInv'
  <2>1. CASE \E key \in Key : RotateConsensusKey(p, key)
    <3>1. UNCHANGED <<registered, pools, queueVars, powerVars, fees_table,
                      moneyVars, clockVars>>
      BY <2>1 DEF RotateConsensusKey
    <3> QED
      BY <1>1, <3>1, AsideMoney
  <2>2. CASE JoinValidatorSet(p)
    BY <1>1, <2>2, JoinValidatorSetMoney
  <2>3. CASE LeaveValidatorSet(p)
    <3>1. CASE LeavePendingActive(p)
      BY <1>1, <2>3, <3>1, LeavePendingActiveMoney
    <3>2. CASE LeaveActive(p)
      BY <1>1, <2>3, <3>2, LeaveActiveMoney
    <3> QED
      BY <2>3, <3>1, <3>2 DEF LeaveValidatorSet
  <2> QED
    BY <1>3, <2>1, <2>2, <2>3 DEF OperatorStep
<1>4. ASSUME GovernanceStep PROVE MoneyIInv'
  <2>1. CASE \E list \in RemovalLists : RemoveValidators(list)
    BY <1>1, <2>1, RemovalListType, RemoveValidatorsMoney
  <2>2. CASE \E c \in Configs : UpdateStakingConfig(c)
    <3>1. UNCHANGED <<registered, pools, queueVars, powerVars, fees_table,
                      moneyVars, clockVars>>
      BY <2>2 DEF UpdateStakingConfig
    <3> QED
      BY <1>1, <3>1, AsideMoney
  <2> QED
    BY <1>4, <2>1, <2>2 DEF GovernanceStep
<1>5. ASSUME SystemStep PROVE MoneyIInv'
  BY <1>1, <1>5, SystemStepMoney
<1>6. ASSUME UNCHANGED stakeVars PROVE MoneyIInv'
  <2>1. UNCHANGED <<registered, pools, queueVars, powerVars, fees_table,
                    moneyVars, clockVars>>
    BY <1>6 DEF stakeVars
  <2> QED
    BY <1>1, <2>1, AsideMoney
<1> QED
  BY <1>2, <1>3, <1>4, <1>5, <1>6 DEF Next

\* The sums hold in every reachable state, for any number of pools, any
\* stake, any rates and any sequence of operations, blocks and epochs.
THEOREM MoneyInvariant == Spec => []MoneyIInv
BY InitMoneyIInv, NextMoneyIInv, PTL DEF Spec

\* The store of @endless_framework always holds exactly what stake.move's
\* pools and fee table promise.
THEOREM PoolsStayBacked == Spec => []PoolsAreBacked
BY MoneyInvariant, PTL DEF MoneyIInv

\* No operation, fee or reward of stake.move creates or loses a coin that the
\* supply does not account for.
THEOREM SupplyStaysConserved == Spec => []SupplyIsConserved
BY MoneyInvariant, PTL DEF MoneyIInv

\* total_voting_power stays the power of the validators of the epoch, in
\* whatever queue leave_validator_set and remove_validators put them.
THEOREM TotalStaysSumOfSnapshots == Spec => []TotalIsSumOfSnapshots
BY MoneyInvariant, PTL DEF MoneyIInv

\* update_voting_power_increase's counter never loses power that will join,
\* so the assertion of leave_validator_set never misleads it.
THEOREM JoiningPowerStaysCovering == Spec => []JoiningPowerCoversIncrease
BY MoneyInvariant, PTL DEF MoneyIInv

-----------------------------------------------------------------------------
(* The limit on joining power *)

\* What a step can do to the joining power.
LEMMA JoiningPowerCases ==
  ASSUME IInv, [Next]_stakeVars
  PROVE  \/ /\ total_voting_power' = total_voting_power
            /\ total_joining_power' <= total_joining_power
         \/ /\ total_voting_power' = total_voting_power
            /\ staking_config' = staking_config
            /\ \E amount \in Nat : VotingPowerIncrease(amount)
         \/ total_joining_power' = 0
<1> DEFINE Cases ==
             \/ /\ total_voting_power' = total_voting_power
                /\ total_joining_power' <= total_joining_power
             \/ /\ total_voting_power' = total_voting_power
                /\ staking_config' = staking_config
                /\ \E amount \in Nat : VotingPowerIncrease(amount)
             \/ total_joining_power' = 0
<1>1. total_joining_power \in Nat
  BY DEF IInv, TypeOK
<1>2. ASSUME UNCHANGED powerVars PROVE Cases
  BY <1>1, <1>2 DEF powerVars
<1>3. ASSUME NEW p \in Pool, OwnerStep(p) PROVE Cases
  <2>1. CASE \E amount \in Amount : AddStake(p, amount)
    <3>1. PICK amount \in Amount : AddStake(p, amount)
      BY <2>1
    <3>2. amount \in Nat
      BY AmountAssumption
    <3>3. /\ total_voting_power' = total_voting_power
          /\ staking_config' = staking_config
          /\ \/ VotingPowerIncrease(amount)
             \/ total_joining_power' = total_joining_power
      BY <3>1 DEF AddStake
    <3> QED
      BY <1>1, <3>2, <3>3
  <2>2. CASE UNCHANGED powerVars
    BY <1>2, <2>2
  <2>3. UNCHANGED powerVars \/ \E amount \in Amount : AddStake(p, amount)
    BY <1>3 DEF OwnerStep, InitializeValidator, InitializeStakeOwner, Unlock,
                ReactivateStake, Withdraw, IncreaseLockup
  <2> QED
    BY <2>1, <2>2, <2>3
<1>4. ASSUME NEW p \in Pool, OperatorStep(p) PROVE Cases
  <2>1. CASE \E key \in Key : RotateConsensusKey(p, key)
    BY <1>2, <2>1 DEF RotateConsensusKey
  <2>2. CASE JoinValidatorSet(p)
    <3> DEFINE v == NextEpochVotingPower(pools[p])
    <3>1. v \in Nat
      BY NextEpochVotingPowerType DEF IInv, TypeOK
    <3>2. /\ total_voting_power' = total_voting_power
          /\ staking_config' = staking_config
          /\ VotingPowerIncrease(v)
      BY <2>2 DEF JoinValidatorSet
    <3> HIDE DEF v
    <3> QED
      BY <3>1, <3>2
  <2>3. CASE LeaveValidatorSet(p)
    <3> DEFINE v == NextEpochVotingPower(pools[p])
    <3>1. v \in Nat
      BY NextEpochVotingPowerType DEF IInv, TypeOK
    <3>2. total_voting_power' = total_voting_power
      BY <2>3 DEF LeaveValidatorSet
    <3>3. \/ total_joining_power' = total_joining_power
          \/ total_joining_power' = IF total_joining_power > v
                                    THEN total_joining_power - v ELSE 0
      BY <2>3 DEF LeaveValidatorSet, LeavePendingActive, LeaveActive
    <3> HIDE DEF v
    <3>4. total_joining_power' <= total_joining_power
      BY <1>1, <3>1, <3>3
    <3> QED
      BY <3>2, <3>4
  <2> QED
    BY <1>4, <2>1, <2>2, <2>3 DEF OperatorStep
<1>5. ASSUME GovernanceStep PROVE Cases
  <2>1. UNCHANGED powerVars
    BY <1>5 DEF GovernanceStep, RemoveValidators, UpdateStakingConfig
  <2> QED
    BY <1>2, <2>1
<1>6. ASSUME SystemStep PROVE Cases
  <2>1. PICK payee \in CurrentValidators, perf \in Seq(Performance),
             fee \in Nat, burnt \in Nat, t \in Nat :
          \/ Ends(perf, Credited(payee, fee), fee, burnt, t)
          \/ Runs(perf, Credited(payee, fee), fee, burnt, t)
    BY <1>6, SystemStepCases
  <2>2. total_joining_power' = 0 \/ UNCHANGED powerVars
    BY <2>1 DEF Ends, EndEpoch, OnNewEpoch, Runs
  <2> QED
    BY <1>2, <2>2
<1>7. ASSUME UNCHANGED stakeVars PROVE Cases
  BY <1>2, <1>7 DEF stakeVars
<1> QED
  BY <1>3, <1>4, <1>5, <1>6, <1>7 DEF Next

\* The joining power itself stays within the limit.
JoiningWithinLimit ==
  total_voting_power > 0 =>
    total_joining_power * 100
      <= total_voting_power * staking_config.voting_power_increase_limit

\* Preserved, if governance keeps the limit.
LEMMA JoiningStaysWithinLimit ==
  ASSUME \A c, d \in Configs :
           c.voting_power_increase_limit = d.voting_power_increase_limit,
         IInv, JoiningWithinLimit, [Next]_stakeVars
  PROVE  JoiningWithinLimit'
<1> DEFINE lim == staking_config.voting_power_increase_limit
           tv == total_voting_power
           tj == total_joining_power
<1>1. IInv'
  BY NextIInv
<1>2. staking_config \in Configs /\ staking_config' \in Configs
  BY <1>1 DEF IInv, TypeOK
<1>3. lim' = lim /\ lim \in Nat
  BY <1>2, ConfigAssumption DEF StakingConfig
<1>4. tv \in Nat /\ tv' \in Nat /\ tj \in Nat /\ tj' \in Nat
  BY <1>1 DEF IInv, TypeOK
<1>5. tv * lim \in Nat /\ tv' * lim \in Nat
  BY <1>3, <1>4, NatProduct
<1>6. CASE tv' = tv /\ tj' <= tj
  <2>1. tv > 0 => tj * 100 <= tv * lim
    BY DEF JoiningWithinLimit
  <2> DEFINE x == tv * lim
  <2>2. x \in Nat
    BY <1>5
  <2> HIDE DEF x
  <2>3. tv > 0 => tj * 100 <= x
    BY <2>1 DEF x
  <2>4. tv > 0 => tj' * 100 <= x
    <3>1. tj' * 100 <= tj * 100 /\ tj' * 100 \in Nat /\ tj * 100 \in Nat
      BY <1>4, <1>6, HundredTimes
    <3> QED
      BY ONLY <2>2, <2>3, <3>1
  <2>5. tv' * lim' = x
    BY <1>3, <1>6 DEF x
  <2> QED
    BY <1>6, <2>4, <2>5 DEF JoiningWithinLimit
<1>7. CASE tv' = tv /\ \E amount \in Nat : VotingPowerIncrease(amount)
  <2> DEFINE x == tv * lim
  <2>1. PICK amount \in Nat : VotingPowerIncrease(amount)
    BY <1>7
  <2>2. tj' = tj + amount /\ (tv > 0 => tj + amount <= x \div 100)
    BY <2>1 DEF VotingPowerIncrease
  <2>3. x \in Nat
    BY <1>5
  <2> HIDE DEF x
  <2>4. 100 * (x \div 100) <= x /\ x \div 100 \in Nat
    BY <2>3
  <2>5. tv > 0 => tj' * 100 <= x
    BY <1>4, <2>2, <2>3, <2>4
  <2>6. tv' * lim' = x
    BY <1>3, <1>7 DEF x
  <2> QED
    BY <1>7, <2>5, <2>6 DEF JoiningWithinLimit
<1>8. CASE tj' = 0
  <2> DEFINE x == tv' * lim
  <2>1. x \in Nat
    BY <1>5
  <2> HIDE DEF x
  <2>2. tj' * 100 <= x
    BY <1>8, <2>1
  <2>3. tv' * lim' = x
    BY <1>3 DEF x
  <2> QED
    BY <2>2, <2>3 DEF JoiningWithinLimit
<1> QED
  BY <1>6, <1>7, <1>8, JoiningPowerCases

\* As long as governance keeps voting_power_increase_limit, no sequence of
\* join_validator_set, leave_validator_set and add_stake lets an epoch add
\* more than it.  (A lower limit does not turn away who has joined already.)
THEOREM IncreaseStaysWithinLimit ==
  ASSUME \A c, d \in Configs :
           c.voting_power_increase_limit = d.voting_power_increase_limit
  PROVE  Spec => []IncreaseWithinLimit
<1> DEFINE Inv == MoneyIInv /\ JoiningWithinLimit
<1>1. Init => Inv
  <2> SUFFICES ASSUME Init PROVE Inv
    OBVIOUS
  <2>1. MoneyIInv
    BY InitMoneyIInv
  <2>2. total_joining_power = 0
    BY Zenon DEF Init
  <2>3. staking_config \in StakingConfig /\ total_voting_power \in Nat
    BY <2>1, ConfigAssumption DEF MoneyIInv, IInv, TypeOK
  <2>4. staking_config.voting_power_increase_limit \in Nat
    BY <2>3 DEF StakingConfig
  <2>5. total_voting_power * staking_config.voting_power_increase_limit \in Nat
    BY <2>3, <2>4, NatProduct
  <2> DEFINE x == total_voting_power
                    * staking_config.voting_power_increase_limit
  <2> HIDE DEF x
  <2>6. total_joining_power * 100 <= x
    BY <2>2, <2>5 DEF x
  <2> QED
    BY <2>1, <2>6 DEF JoiningWithinLimit, x
<1>2. Inv /\ [Next]_stakeVars => Inv'
  <2> SUFFICES ASSUME Inv, [Next]_stakeVars PROVE Inv'
    OBVIOUS
  <2>1. MoneyIInv'
    BY NextMoneyIInv
  <2>2. JoiningWithinLimit'
    BY JoiningStaysWithinLimit DEF MoneyIInv
  <2> QED
    BY <2>1, <2>2
<1>3. Inv => IncreaseWithinLimit
  <2> SUFFICES ASSUME Inv PROVE IncreaseWithinLimit
    OBVIOUS
  <2>1. IInv /\ JoiningPowerCoversIncrease
    BY DEF MoneyIInv
  <2>2. /\ total_joining_power \in Nat
        /\ Increase <= total_joining_power
    BY <2>1 DEF IInv, TypeOK, JoiningPowerCoversIncrease
  <2>3. Increase \in Nat
    <3>1. Total(JoiningOf) \in Nat
      BY <2>1, JoiningOfType, PoolAssumption, TotalNat
    <3> QED
      BY <2>1, <3>1, IncreaseIsTotal
  <2>4. Increase * 100 <= total_joining_power * 100
    BY <2>2, <2>3
  <2>5. staking_config \in StakingConfig /\ total_voting_power \in Nat
    BY <2>1, ConfigAssumption DEF IInv, TypeOK
  <2>6. staking_config.voting_power_increase_limit \in Nat
    BY <2>5 DEF StakingConfig
  <2>7. total_voting_power * staking_config.voting_power_increase_limit \in Nat
    BY <2>5, <2>6, NatProduct
  <2> DEFINE x == total_voting_power
                    * staking_config.voting_power_increase_limit
             y == Increase
  <2> HIDE DEF x, y
  <2>8. total_voting_power > 0 => total_joining_power * 100 <= x
    BY DEF JoiningWithinLimit, x
  <2>9. total_voting_power > 0 => y * 100 <= x
    BY <2>2, <2>3, <2>4, <2>7, <2>8 DEF x, y
  <2> QED
    BY <2>1, <2>9 DEF IncreaseWithinLimit, x, y
<1> HIDE DEF Inv
<1> QED
  BY <1>1, <1>2, <1>3, PTL DEF Spec

-----------------------------------------------------------------------------
(* Lockups and inflation *)

\* What a step does to any pool: its lockup ends no earlier, its power goes
\* down only when the lockup has run out, and only a step of its owner or an
\* epoch change touches it.
LEMMA PoolsKeepLockups ==
  ASSUME MoneyIInv, [Next]_stakeVars, NEW p \in Pool
  PROVE  /\ pools'[p].locked_until_secs >= pools[p].locked_until_secs
         /\ NextEpochVotingPower(pools'[p]) < NextEpochVotingPower(pools[p])
              => Secs(now') >= pools[p].locked_until_secs
         /\ registered \subseteq registered'
<1> DEFINE Keeps ==
      /\ pools'[p].locked_until_secs >= pools[p].locked_until_secs
      /\ NextEpochVotingPower(pools'[p]) < NextEpochVotingPower(pools[p])
           => Secs(now') >= pools[p].locked_until_secs
      /\ registered \subseteq registered'
<1>1. /\ IInv /\ pools \in [Pool -> StakePool] /\ pools[p] \in StakePool
      /\ now \in Nat
  BY DEF MoneyIInv, IInv, TypeOK
<1>2. /\ NextEpochVotingPower(pools[p]) \in Nat
      /\ pools[p].locked_until_secs \in Nat
  BY <1>1, NextEpochVotingPowerType DEF StakePool
<1>3. ASSUME UNCHANGED <<registered, pools>> PROVE Keeps
  <2>1. pools'[p] = pools[p] /\ registered' = registered
    BY <1>3
  <2> QED
    BY <1>2, <2>1
<1>4. ASSUME NEW r \in Pool, OwnerStep(r) PROVE Keeps
  <2>1. PICK sp \in StakePool, coins \in Nat : OwnerEffect(r, sp, coins)
    BY <1>4, OwnerStepEffect
  <2>2. /\ pools' = [pools EXCEPT ![r] = sp]
        /\ NextEpochVotingPower(sp) < NextEpochVotingPower(pools[r])
             => Secs(now) >= pools[r].locked_until_secs
        /\ sp.locked_until_secs >= pools[r].locked_until_secs
        /\ registered' = registered \cup {r} /\ now' = now
    BY <2>1 DEF OwnerEffect, clockVars
  <2>3. pools'[p] = IF p = r THEN sp ELSE pools[p]
    BY <1>1, <2>2
  <2>4. CASE p = r
    <3>1. Secs(now') = Secs(now)
      BY <2>2
    <3> QED
      BY <2>2, <2>3, <2>4, <3>1
  <2>5. CASE p # r
    BY <1>2, <2>2, <2>3, <2>5
  <2> QED
    BY <2>4, <2>5
<1>5. ASSUME NEW r \in Pool, OperatorStep(r) PROVE Keeps
  <2>1. UNCHANGED <<registered, pools>>
    BY <1>5 DEF OperatorStep, RotateConsensusKey, JoinValidatorSet,
                LeaveValidatorSet
  <2> QED
    BY <1>3, <2>1
<1>6. ASSUME GovernanceStep PROVE Keeps
  <2>1. UNCHANGED <<registered, pools>>
    BY <1>6 DEF GovernanceStep, RemoveValidators, UpdateStakingConfig
  <2> QED
    BY <1>3, <2>1
<1>7. ASSUME SystemStep PROVE Keeps
  <2>1. PICK payee \in CurrentValidators, perf \in Seq(Performance),
             fee \in Nat, burnt \in Nat, t \in Nat :
          LET fees == Credited(payee, fee) IN
            /\ Len(perf) = Len(validator_perf)
            /\ fees \in [Pool -> Nat]
            /\ fee + burnt <= circulating /\ now' = t /\ now <= t
            /\ UNCHANGED <<registered, wallet, staking_config>>
            /\ \/ Ends(perf, fees, fee, burnt, t)
               \/ Runs(perf, fees, fee, burnt, t)
    BY <1>1, <1>7, SystemStepCases
  <2>2. CASE Runs(perf, Credited(payee, fee), fee, burnt, t)
    <3>1. UNCHANGED <<registered, pools>>
      BY <2>1, <2>2 DEF Runs
    <3> QED
      BY <1>3, <3>1
  <2>3. CASE Ends(perf, Credited(payee, fee), fee, burnt, t)
    <3> DEFINE fees == Credited(payee, fee)
               store == pool_store + fee
               sup == supply - burnt
               circ == circulating - fee - burnt
               secs == Secs(t)
    <3>1. /\ Len(perf) = Len(validator_perf) /\ fees \in [Pool -> Nat]
          /\ now' = t /\ registered' = registered
      BY <2>1
    <3>2. /\ store \in Int /\ sup \in Nat /\ circ \in Nat /\ circ <= sup
          /\ secs \in Nat
      BY <2>1, <2>3, EndsCalls
    <3>3. PICK start \in Nat :
            /\ start <= secs
            /\ OnNewEpoch(perf, fees, store, sup, circ, start, secs)
      BY <2>1, <2>3, EndsCalls
    <3> HIDE DEF fees, store, sup, circ, secs
    <3>4. /\ NextEpochVotingPower(pools'[p]) < NextEpochVotingPower(pools[p])
               => start >= pools[p].locked_until_secs
          /\ pools'[p].locked_until_secs >= pools[p].locked_until_secs
      BY <1>1, <3>1, <3>2, <3>3, PoolsAfterEpoch
    <3>5. Secs(now') = secs
      BY <3>1 DEF secs
    <3> QED
      BY <1>2, <3>1, <3>2, <3>3, <3>4, <3>5
  <2> QED
    BY <2>1, <2>2, <2>3
<1>8. ASSUME UNCHANGED stakeVars PROVE Keeps
  <2>1. UNCHANGED <<registered, pools>>
    BY <1>8 DEF stakeVars
  <2> QED
    BY <1>3, <2>1
<1> QED
  BY <1>4, <1>5, <1>6, <1>7, <1>8 DEF Next

\* unlock, withdraw, leave_validator_set and update_stake_pool never free
\* stake before the lockup of its pool has run out, in whatever order they
\* and reconfigurations that stay open come.
THEOREM LockupStaysRespected == Spec => LockupIsRespected
<1>1. MoneyIInv /\ [Next]_stakeVars =>
        [\A p \in Pool :
           NextEpochVotingPower(pools[p])' < NextEpochVotingPower(pools[p])
             => Secs(now') >= pools[p].locked_until_secs]_stakeVars
  <2> SUFFICES ASSUME MoneyIInv, [Next]_stakeVars, NEW p \in Pool,
                 NextEpochVotingPower(pools[p])' < NextEpochVotingPower(pools[p])
               PROVE  Secs(now') >= pools[p].locked_until_secs
    BY Zenon
  <2>1. NextEpochVotingPower(pools[p])' = NextEpochVotingPower(pools'[p])
    OBVIOUS
  <2> QED
    BY <2>1, PoolsKeepLockups
<1> QED
  BY <1>1, MoneyInvariant, PTL DEF Spec, LockupIsRespected

\* Where rewards_rate is zero, no epoch change mints anything.
LEMMA NothingMinted ==
  ASSUME IInv, NEW perf \in Seq(Performance),
         Len(perf) = Len(validator_perf), NEW sup \in Nat,
         staking_config.rewards_rate = 0
  PROVE  MintedIn(perf, sup) = 0 /\ SharedIn(perf, sup) = 0
<1> DEFINE C == CurrentValidators
           f == [p \in C |-> MintedFor(RewardOf(p, perf, sup))]
           g == [p \in C |-> SharedFor(RewardOf(p, perf, sup))]
<1>1. /\ C \subseteq Pool /\ IsFiniteSet(C)
      /\ \A p \in C : perf[config[p].validator_index + 1] \in Performance
  BY CurrentFacts, ElementOfSeq
<1>2. staking_config \in StakingConfig /\ TotalStake \in Nat
  BY TotalStakeType, ConfigAssumption DEF IInv, TypeOK
<1>3. ASSUME NEW stake \in Nat, NEW all_stake \in Nat, NEW pf \in Performance
      PROVE  RewardsAmount(stake, all_stake, pf, sup) = 0
  <2> DEFINE rate == staking_config.rewards_rate * pf.successful_proposals
             numerator == IF Inflation THEN sup * stake * rate ELSE stake * rate
             denominator == staking_config.rewards_rate_denominator
                              * (pf.successful_proposals + pf.failed_proposals)
                              * (IF Inflation THEN all_stake ELSE 1)
  <2>1. rate = 0
    BY DEF Performance
  <2>2. sup * stake \in Nat
    BY NatProduct
  <2>3. numerator = 0
    <3> DEFINE x == sup * stake
    <3> HIDE DEF x, rate
    <3>1. x * rate = 0 /\ stake * rate = 0
      BY <2>1, <2>2 DEF x
    <3> QED
      BY <3>1 DEF x
  <2>4. denominator \in Int
    <3>1. /\ staking_config.rewards_rate_denominator \in Nat
          /\ pf.successful_proposals + pf.failed_proposals \in Nat
          /\ (IF Inflation THEN all_stake ELSE 1) \in Nat
      BY <1>2 DEF StakingConfig, Performance
    <3> QED
      BY <3>1, NatProduct
  <2>5. RewardsAmount(stake, all_stake, pf, sup)
          = IF denominator > 0 THEN numerator \div denominator ELSE 0
    BY DEF RewardsAmount
  <2> HIDE DEF numerator, denominator
  <2> QED
    BY <2>3, <2>4, <2>5
<1>4. ValidatorShare(0) = 0 /\ OtherAccountsShare(0) = 0
  <2>1. /\ ValidatorShare(0) \in Nat /\ OtherAccountsShare(0) \in Nat
        /\ ValidatorShare(0) + OtherAccountsShare(0) <= 0
    BY ValidatorShareType, OtherAccountsShareType, SharesFit
  <2> HIDE DEF ValidatorShare, OtherAccountsShare
  <2> QED
    BY <2>1
<1>5. ASSUME NEW p \in C
      PROVE  f[p] = 0 /\ g[p] = 0
  <2>1. pools[p].active \in Nat /\ pools[p].pending_inactive \in Nat
    BY CurrentFacts DEF IInv, TypeOK, StakePool
  <2>2. /\ RewardOf(p, perf, sup).active = 0
        /\ RewardOf(p, perf, sup).pending_inactive = 0
    BY <1>1, <1>2, <1>3, <2>1 DEF RewardOf
  <2> QED
    BY <1>4, <2>2 DEF MintedFor, SharedFor
<1>6. f \in [C -> Int] /\ g \in [C -> Int]
  <2>1. \A p \in C : /\ MintedFor(RewardOf(p, perf, sup)) \in Int
                     /\ SharedFor(RewardOf(p, perf, sup)) \in Int
    BY <1>5
  <2> QED
    BY <2>1
<1>7. MintedIn(perf, sup) = Total(f) /\ SharedIn(perf, sup) = Total(g)
  BY Zenon DEF MintedIn, SharedIn, f, g, C
<1> HIDE DEF f, g, C
<1>8. Total(f) = 0 /\ Total(g) = 0
  BY <1>1, <1>5, <1>6, TotalZero
<1> QED
  BY <1>7, <1>8

\* What a step does to the supply.
LEMMA SupplyCases ==
  ASSUME MoneyIInv, [Next]_stakeVars, supply' > supply
  PROVE  \E minted \in Nat, sup \in Nat :
           /\ sup <= supply /\ supply' = sup + minted
           /\ Inflation =>
                minted * staking_config.rewards_rate_denominator
                  <= sup * staking_config.rewards_rate
           /\ staking_config.rewards_rate = 0 => minted = 0
<1>1. IInv /\ supply \in Int
  BY DEF MoneyIInv, IInv, TypeOK
<1>2. SystemStep
  <2>1. ASSUME NEW p \in Pool, OwnerStep(p) PROVE supply' = supply
    BY <2>1 DEF OwnerStep, InitializeValidator, InitializeStakeOwner,
                AddStake, Unlock, ReactivateStake, Withdraw, IncreaseLockup,
                moneyVars
  <2>2. ASSUME NEW p \in Pool, OperatorStep(p) PROVE supply' = supply
    BY <2>2 DEF OperatorStep, RotateConsensusKey, JoinValidatorSet,
                LeaveValidatorSet, moneyVars
  <2>3. ASSUME GovernanceStep PROVE supply' = supply
    BY <2>3 DEF GovernanceStep, RemoveValidators, UpdateStakingConfig,
                moneyVars
  <2>4. ASSUME UNCHANGED stakeVars PROVE supply' = supply
    BY <2>4 DEF stakeVars, moneyVars
  <2>5. supply' # supply
    BY <1>1
  <2> QED
    BY <2>1, <2>2, <2>3, <2>4, <2>5 DEF Next
<1>3. PICK payee \in CurrentValidators, perf \in Seq(Performance),
           fee \in Nat, burnt \in Nat, t \in Nat :
        LET fees == Credited(payee, fee) IN
          /\ Len(perf) = Len(validator_perf)
          /\ fees \in [Pool -> Nat]
          /\ fee + burnt <= circulating /\ now' = t /\ now <= t
          /\ UNCHANGED <<registered, wallet, staking_config>>
          /\ \/ Ends(perf, fees, fee, burnt, t)
             \/ Runs(perf, fees, fee, burnt, t)
  BY <1>1, <1>2, SystemStepCases
<1>4. Ends(perf, Credited(payee, fee), fee, burnt, t)
  <2>1. ~ Runs(perf, Credited(payee, fee), fee, burnt, t)
    <3>1. supply' # supply - burnt
      BY <1>1
    <3> QED
      BY <3>1 DEF Runs
  <2> QED
    BY <1>3, <2>1
<1> DEFINE fees == Credited(payee, fee)
           store == pool_store + fee
           sup == supply - burnt
           circ == circulating - fee - burnt
           secs == Secs(t)
<1>5. Len(perf) = Len(validator_perf) /\ fees \in [Pool -> Nat]
  BY <1>3
<1>6. /\ store \in Int /\ sup \in Nat /\ circ \in Nat /\ circ <= sup
      /\ secs \in Nat /\ sup <= supply
  BY <1>1, <1>3, <1>4, EndsCalls
<1>7. PICK start \in Nat :
        /\ start <= secs
        /\ OnNewEpoch(perf, fees, store, sup, circ, start, secs)
  BY <1>3, <1>4, EndsCalls
<1> HIDE DEF fees, store, sup, circ, secs
<1> DEFINE m == MintedIn(perf, sup)
           s == SharedIn(perf, sup)
<1>8. supply' = sup + m + s
  BY <1>1, <1>5, <1>6, <1>7, OnNewEpochEffects
<1>9. /\ m \in Nat /\ s \in Nat
      /\ Inflation => (m + s) * staking_config.rewards_rate_denominator
                        <= sup * staking_config.rewards_rate
      /\ staking_config.rewards_rate = 0 => m = 0 /\ s = 0
  BY <1>1, <1>5, <1>6, MintedWithinRate, NothingMinted
<1> HIDE DEF m, s
<1>10. /\ m + s \in Nat /\ supply' = sup + (m + s)
       /\ staking_config.rewards_rate = 0 => m + s = 0
  BY <1>6, <1>8, <1>9
<1> QED
  BY <1>6, <1>9, <1>10

\* One step mints no more than rewards_rate of the supply.
LEMMA StepMintsWithinRate ==
  ASSUME MoneyIInv, [Next]_stakeVars, Inflation
  PROVE  (supply' - supply) * staking_config.rewards_rate_denominator
           <= supply * staking_config.rewards_rate
<1> DEFINE d == staking_config.rewards_rate_denominator
           rr == staking_config.rewards_rate
<1>1. IInv /\ IInv'
  BY NextIInv DEF MoneyIInv
<1>2. /\ supply \in Int /\ supply' \in Int /\ circulating \in Nat
      /\ circulating <= supply /\ staking_config \in StakingConfig
  BY <1>1, ConfigAssumption DEF IInv, TypeOK
<1>3. d \in Nat /\ rr \in Nat /\ supply \in Nat
  BY <1>2 DEF StakingConfig
<1> DEFINE y == supply * rr
<1>4. y \in Nat
  BY <1>3, NatProduct
<1>5. CASE supply' > supply
  <2>1. PICK minted \in Nat, sup \in Nat :
          /\ sup <= supply /\ supply' = sup + minted
          /\ minted * d <= sup * rr
    BY <1>5, SupplyCases
  <2> HIDE DEF d, rr
  <2>2. supply' - supply \in Nat /\ supply' - supply <= minted
    BY <1>2, <1>3, <1>5, <2>1
  <2> DEFINE x == supply' - supply
  <2> HIDE DEF x
  <2>3. d * x <= d * minted /\ rr * sup <= rr * supply
    BY <1>3, <2>1, <2>2, LargerFactor DEF x
  <2>4. /\ d * x = x * d /\ d * minted = minted * d
        /\ rr * sup = sup * rr /\ rr * supply = y
        /\ x * d \in Nat /\ minted * d \in Nat /\ sup * rr \in Nat
    BY <1>3, <2>2, NatProduct DEF x
  <2> HIDE DEF y
  <2>5. x * d <= y
    BY <1>4, <2>1, <2>3, <2>4
  <2> QED
    BY <2>5 DEF x, y, d, rr
<1>6. CASE supply' <= supply
  <2> DEFINE x == supply - supply'
  <2>1. x \in Nat
    BY <1>2, <1>6, Difference
  <2>2. (supply' - supply) * d = - (x * d)
    BY <1>2, <1>3
  <2> HIDE DEF x, d, rr
  <2>3. x * d \in Nat
    BY <1>3, <2>1, NatProduct
  <2> DEFINE z == x * d
             w == (supply' - supply) * d
  <2>4. w = - z /\ z \in Nat
    BY <2>2, <2>3
  <2> HIDE DEF y, z, w
  <2>5. w <= y
    BY <1>4, <2>4
  <2> QED
    BY <2>5 DEF w, y, d, rr
<1> QED
  BY <1>2, <1>5, <1>6

\* distribute_rewards mints no more than rewards_rate of the supply in an
\* epoch, for any stakes, performances, shares of others and rates.
THEOREM InflationStaysWithinRate == Spec => InflationWithinRate
<1>1. MoneyIInv /\ [Next]_stakeVars =>
        [Inflation =>
           (supply' - supply) * staking_config.rewards_rate_denominator
             <= supply * staking_config.rewards_rate]_stakeVars
  BY StepMintsWithinRate, Zenon
<1> QED
  BY <1>1, MoneyInvariant, PTL DEF Spec, InflationWithinRate
=============================================================================
