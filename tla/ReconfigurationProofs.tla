----------------------- MODULE ReconfigurationProofs -----------------------
(***************************************************************************)
(* Proofs about module Reconfiguration: every step of the chain is a step  *)
(* of Stake or leaves it alone, and the invariant ChainIInv holds.         *)
(***************************************************************************)
EXTENDS Reconfiguration, StakeProofs

-----------------------------------------------------------------------------
(* The chain implements Stake *)

\* Burning leaves a part of the fees, and not more than there are.
LEMMA FeesSplit ==
  ASSUME ChainIInv
  PROVE  /\ collected \in Nat
         /\ BurntFees \in 0..collected
         /\ collected - BurntFees \in Nat
         /\ collected - BurntFees + BurntFees = collected
<1>1. collected \in Nat /\ burn_percentage \in 0..100
  BY ChainAssumption DEF ChainIInv, LockedIffSession, ChainTypeOK
<1>2. burn_percentage * collected \in Nat
  BY <1>1, NatProduct
<1>3. burn_percentage * collected <= 100 * collected
  BY <1>1, LargerFactor
<1>4. (burn_percentage * collected) \div 100 \in 0..collected
  BY <1>1, <1>2, <1>3
<1>5. BurntFees \in 0..collected
  BY <1>1, <1>4 DEF BurntFees
<1> QED
  BY <1>1, <1>5

\* The receiver of the fees is a validator of the epoch.
LEMMA PayeeIsCurrent ==
  ASSUME ChainIInv, CurrentValidators # {}
  PROVE  Payee \in CurrentValidators
BY DEF ChainIInv, FeesReachValidators, Payee

\* A block with an existing payee is what Stake calls SystemStep.
LEMMA BlockIsSystemStep ==
  ASSUME ChainIInv, NEW proposer \in CurrentValidators \cup {NoProposer},
         NEW failed \in SUBSET DOMAIN validator_perf, WithinProposals(failed),
         NEW payee \in CurrentValidators, NEW fee \in Nat, NEW burnt \in Nat,
         NEW t \in now..MaxTime, NEW kind \in Kinds,
         proposer # NoProposer <=> t > now,
         kind = "end" => t # last_reconfiguration_time,
         Block(proposer, failed, payee, fee, burnt, t, kind)
  PROVE  SystemStep
<1>1. circulating \in Nat
  BY DEF ChainIInv, IInv, TypeOK
<1>2. fee + burnt <= circulating
  BY DEF Block
<1>3. fee \in 0..circulating /\ burnt \in 0..circulating
  BY <1>1, <1>2
<1> QED
  BY <1>3, Zenon DEF SystemStep

\* Both forms in which this module calls Block.
LEMMA ChainBlock ==
  ASSUME ChainIInv, NEW proposer \in CurrentValidators \cup {NoProposer},
         NEW failed \in SUBSET DOMAIN validator_perf, WithinProposals(failed),
         NEW t \in now..MaxTime, NEW kind \in Kinds, NEW next_proposer,
         CurrentValidators # {},
         proposer # NoProposer <=> t > now,
         kind = "end" => t # last_reconfiguration_time,
         \/ BlockWithFees(proposer, failed, t, kind, next_proposer)
         \/ BlockWithoutFees(proposer, failed, t, kind)
  PROVE  SystemStep
<1>1. CASE BlockWithFees(proposer, failed, t, kind, next_proposer)
  <2>1. /\ Payee \in CurrentValidators
        /\ collected - BurntFees \in Nat /\ BurntFees \in Nat
    BY FeesSplit, PayeeIsCurrent
  <2>2. Block(proposer, failed, Payee, collected - BurntFees, BurntFees, t,
              kind)
    BY <1>1 DEF BlockWithFees
  <2> QED
    BY <2>1, <2>2, BlockIsSystemStep
<1>2. CASE BlockWithoutFees(proposer, failed, t, kind)
  <2> DEFINE payee == CHOOSE p \in CurrentValidators : TRUE
  <2>1. payee \in CurrentValidators
    OBVIOUS
  <2>2. Block(proposer, failed, payee, 0, 0, t, kind)
    BY <1>2 DEF BlockWithoutFees
  <2> HIDE DEF payee
  <2> QED
    BY <2>1, <2>2, BlockIsSystemStep
<1> QED
  BY <1>1, <1>2-----------------------------------------------------------------------------
(* Validators have keys *)

AllEntries ==
  Entries(active_validators) \cup Entries(pending_inactive)
    \cup Entries(pending_active)

\* KeysArePresent, by entry.
LEMMA KeysByEntry ==
  KeysArePresent <=>
    \A e \in AllEntries :
      e.config.consensus_pubkey \in Key /\ config[e.addr].consensus_pubkey \in Key
BY DEF KeysArePresent, AllEntries, Entries

\* Who has an entry is in the validator set.
LEMMA EntriesAreMembers ==
  \A e \in AllEntries : e.addr \in InValidatorSet
BY DEF AllEntries, Entries, InValidatorSet, CurrentValidators, Members

\* Keys stay if no entry is new and nobody in the set loses its key.
LEMMA KeysStay ==
  ASSUME KeysArePresent, AllEntries' \subseteq AllEntries,
         \A r \in InValidatorSet :
           \/ config'[r].consensus_pubkey = config[r].consensus_pubkey
           \/ config'[r].consensus_pubkey \in Key
  PROVE  KeysArePresent'
<1>1. KeysArePresent' <=>
        \A e \in AllEntries' :
          /\ e.config.consensus_pubkey \in Key
          /\ config'[e.addr].consensus_pubkey \in Key
  BY DEF KeysArePresent, AllEntries, Entries
<1> QED
  BY <1>1, KeysByEntry, EntriesAreMembers

\* Queues that are not touched have the same entries.
LEMMA EntriesStay ==
  ASSUME UNCHANGED queueVars
  PROVE  AllEntries' = AllEntries
BY DEF queueVars, AllEntries, Entries

\* Owners create configs only for pools that did not exist.
LEMMA OwnerKeys ==
  ASSUME IInv, KeysArePresent, NEW p \in Pool, OwnerStep(p)
  PROVE  KeysArePresent'
<1>1. InValidatorSet \subseteq registered /\ InValidatorSet \subseteq Pool
      /\ config \in [Pool -> ValidatorConfig]
  BY DEF IInv, TypeOK
<1>2. UNCHANGED queueVars
  BY Zenon DEF OwnerStep, InitializeValidator, InitializeStakeOwner, AddStake,
     Unlock, ReactivateStake, Withdraw, IncreaseLockup
<1>3. \/ UNCHANGED config
      \/ p \notin registered /\ \E c : config' = [config EXCEPT ![p] = c]
  BY Zenon DEF OwnerStep, InitializeValidator, InitializeStakeOwner, AddStake,
     Unlock, ReactivateStake, Withdraw, IncreaseLockup
<1>4. \A r \in InValidatorSet : config'[r] = config[r]
  BY <1>1, <1>3
<1> QED
  BY <1>2, <1>4, EntriesStay, KeysStay

\* rotate_consensus_key installs a key.
LEMMA RotateKeys ==
  ASSUME IInv, KeysArePresent, NEW p \in Pool, NEW key \in Key,
         RotateConsensusKey(p, key)
  PROVE  KeysArePresent'
<1>1. InValidatorSet \subseteq Pool /\ config \in [Pool -> ValidatorConfig]
  BY DEF IInv, TypeOK
<1>2. /\ UNCHANGED queueVars
      /\ config' = [config EXCEPT ![p].consensus_pubkey = key]
  BY Zenon DEF RotateConsensusKey
<1>3. \A r \in InValidatorSet :
        \/ config'[r].consensus_pubkey = config[r].consensus_pubkey
        \/ config'[r].consensus_pubkey \in Key
  BY <1>1, <1>2 DEF ValidatorConfig
<1> QED
  BY <1>2, <1>3, EntriesStay, KeysStay

\* join_validator_set refuses a pool without a key.
LEMMA JoinKeys ==
  ASSUME IInv, KeysArePresent, NEW p \in Pool, JoinValidatorSet(p)
  PROVE  KeysArePresent'
<1> DEFINE e == ValidatorInfoOf(p, pools[p], config[p])
<1>1. /\ pending_active' = Append(pending_active, e)
      /\ config[p].consensus_pubkey # NoKey
      /\ UNCHANGED <<config, active_validators, pending_inactive>>
  BY DEF JoinValidatorSet
<1>2. config[p] \in ValidatorConfig /\ pools[p] \in StakePool
      /\ pending_active \in Seq(ValidatorInfo)
  BY DEF IInv, TypeOK
<1>3. config[p].consensus_pubkey \in Key
  BY <1>1, <1>2 DEF ValidatorConfig
<1>4. e \in ValidatorInfo
  BY <1>2, NextEpochVotingPowerType DEF ValidatorInfoOf, ValidatorInfo
<1>5. e.config = config[p] /\ e.addr = p
  BY DEF ValidatorInfoOf
<1> HIDE DEF e
<1>6. Entries(pending_active') = Entries(pending_active) \cup {e}
  <2>1. Entries(Append(pending_active, e)) = Entries(pending_active) \cup {e}
    BY <1>2, <1>4, AppendFacts
  <2> QED
    BY <1>1, <2>1, Zenon
<1>7. /\ Entries(active_validators') = Entries(active_validators)
      /\ Entries(pending_inactive') = Entries(pending_inactive)
  BY <1>1
<1>8. AllEntries' = AllEntries \cup {e}
  BY <1>6, <1>7, Zenon DEF AllEntries
<1>9. KeysArePresent' <=>
        \A x \in AllEntries' :
          /\ x.config.consensus_pubkey \in Key
          /\ config'[x.addr].consensus_pubkey \in Key
  BY DEF KeysArePresent, AllEntries, Entries
<1> QED
  BY <1>1, <1>3, <1>5, <1>8, <1>9, KeysByEntry

\* The set of the epoch keeps its entries when a validator leaves it.
LEMMA LeaveActiveEntries ==
  ASSUME IInv, NEW p, LeaveActive(p)
  PROVE  SameEntries(active_validators, pending_inactive,
                     active_validators', pending_inactive')
<1> DEFINE i == IndexOf(active_validators, p)
<1>1. /\ p \in Members(active_validators)
      /\ active_validators' = SwapRemove(active_validators, i)
      /\ pending_inactive' = Append(pending_inactive, active_validators[i])
  BY DEF LeaveActive
<1>2. i \in DOMAIN active_validators
  BY <1>1, IndexOfMember
<1> HIDE DEF i
<1>3. SameEntries(active_validators, pending_inactive,
                  SwapRemove(active_validators, i),
                  Append(pending_inactive, active_validators[i]))
  BY <1>2, SeparateNow, MoveEntry
<1> QED
  BY <1>1, <1>3, Zenon

\* And when governance removes validators.
LEMMA RemovalEntries ==
  ASSUME IInv, NEW list \in RemovalLists, RemoveValidators(list)
  PROVE  SameEntries(active_validators, pending_inactive,
                     active_validators', pending_inactive')
BY RemovalListType, LenProperties, SeparateNow, RemoveValidatorsFacts

\* Leaving the set brings in no entry.
LEMMA LeaveKeys ==
  ASSUME IInv, KeysArePresent, NEW p, LeaveValidatorSet(p)
  PROVE  KeysArePresent'
<1>1. UNCHANGED config
  BY DEF LeaveValidatorSet
<1>2. CASE LeavePendingActive(p)
  <2> DEFINE i == IndexOf(pending_active, p)
  <2>1. /\ p \in Members(pending_active)
        /\ pending_active' = SwapRemove(pending_active, i)
        /\ UNCHANGED <<active_validators, pending_inactive>>
    BY <1>2 DEF LeavePendingActive
  <2>2. i \in DOMAIN pending_active /\ pending_active \in Seq(ValidatorInfo)
    BY <2>1, IndexOfMember DEF IInv, TypeOK
  <2> HIDE DEF i
  <2>3. Entries(SwapRemove(pending_active, i)) \subseteq Entries(pending_active)
    <3>1. Entries(SwapRemove(pending_active, i))
            = {pending_active[j] : j \in DOMAIN pending_active \ {i}}
      BY <2>2, SwapRemoveFacts
    <3> QED
      BY <3>1 DEF Entries
  <2>4. AllEntries' \subseteq AllEntries
    <3>1. /\ Entries(pending_active') \subseteq Entries(pending_active)
          /\ Entries(active_validators') = Entries(active_validators)
          /\ Entries(pending_inactive') = Entries(pending_inactive)
      BY <2>1, <2>3, Zenon
    <3> QED
      BY <3>1 DEF AllEntries
  <2> QED
    BY <1>1, <2>4, KeysStay
<1>3. CASE LeaveActive(p)
  <2>1. Entries(active_validators') \cup Entries(pending_inactive')
          = Entries(active_validators) \cup Entries(pending_inactive)
    BY <1>3, LeaveActiveEntries DEF SameEntries
  <2>2. UNCHANGED pending_active
    BY <1>3 DEF LeaveActive
  <2>3. AllEntries' = AllEntries
    BY <2>1, <2>2, Zenon DEF AllEntries
  <2> QED
    BY <1>1, <2>3, KeysStay
<1> QED
  BY <1>2, <1>3 DEF LeaveValidatorSet

\* Nor does governance.
LEMMA GovernanceKeys ==
  ASSUME IInv, KeysArePresent, GovernanceStep
  PROVE  KeysArePresent'
<1>1. UNCHANGED <<config, pending_active>>
  BY DEF GovernanceStep, RemoveValidators, UpdateStakingConfig, queueVars
<1>2. CASE \E list \in RemovalLists : RemoveValidators(list)
  <2>1. Entries(active_validators') \cup Entries(pending_inactive')
          = Entries(active_validators) \cup Entries(pending_inactive)
    BY <1>2, RemovalEntries DEF SameEntries
  <2>2. AllEntries' = AllEntries
    BY <1>1, <2>1, Zenon DEF AllEntries
  <2> QED
    BY <1>1, <2>2, KeysStay
<1>3. CASE \E c \in Configs : UpdateStakingConfig(c)
  <2>1. UNCHANGED queueVars
    BY <1>3 DEF UpdateStakingConfig
  <2> QED
    BY <1>1, <2>1, EntriesStay, KeysStay
<1> QED
  BY <1>2, <1>3 DEF GovernanceStep

\* on_new_epoch keeps the keys of the candidates that it keeps.
LEMMA NewEpochKeys ==
  ASSUME IInv, KeysArePresent, NEW perf, NEW fees, NEW store, NEW sup,
         NEW circ, NEW start, NEW secs,
         OnNewEpoch(perf, fees, store, sup, circ, start, secs)
  PROVE  KeysArePresent'
<1> DEFINE
      cand == AppendPopped(active_validators, pending_active)
      addr(keep, i) == cand[keep[i]].addr
      indexed(keep, i) ==
        [consensus_pubkey |-> config[addr(keep, i)].consensus_pubkey,
         validator_index |-> i - 1]
      reward == [p \in CurrentValidators |-> RewardOf(p, perf, sup)]
      settled == [p \in Pool |->
        IF p \in CurrentValidators
        THEN Settle(Add(pools[p], reward[p]),
                    IF CollectFees THEN fees[p] ELSE 0, start)
        ELSE pools[p]]
      Result(n, keep) ==
        /\ active_validators' = [i \in 1..n |->
             ValidatorInfoOf(addr(keep, i), settled[addr(keep, i)],
                             [k \in 1..n |-> indexed(keep, k)][i])]
        /\ config' = [p \in Pool |->
             IF p \in {addr(keep, i) : i \in 1..n}
             THEN [i \in 1..n |-> indexed(keep, i)]
                    [CHOOSE i \in 1..n : addr(keep, i) = p]
             ELSE config[p]]
<1>1. \E n \in 0..Len(cand) : \E keep \in [1..n -> 1..Len(cand)] :
        Result(n, keep)
  BY ZenonT(60) DEF OnNewEpoch, RewardOf
<1>2. pending_active' = <<>> /\ pending_inactive' = <<>>
  BY DEF OnNewEpoch
<1>3. PICK n \in 0..Len(cand) :
        \E keep \in [1..n -> 1..Len(cand)] : Result(n, keep)
  BY <1>1
<1>4. PICK keep \in [1..n -> 1..Len(cand)] : Result(n, keep)
  BY <1>3
<1>5. \A i \in 1..Len(cand) :
        cand[i].addr \in InValidatorSet /\ cand[i].addr \in Pool
  <2>1. \A i \in 1..Len(cand) :
          cand[i].addr \in Members(active_validators) \cup Members(pending_active)
    <3>1. /\ active_validators \in Seq(ValidatorInfo)
          /\ pending_active \in Seq(ValidatorInfo)
          /\ NoDuplicates(active_validators) /\ NoDuplicates(pending_active)
          /\ Members(active_validators) \cap Members(pending_active) = {}
      BY DEF IInv, TypeOK, QueuesDisjoint, CurrentValidators
    <3> QED
      BY <3>1, AppendPoppedFacts
  <2>2. Members(active_validators) \cup Members(pending_active)
          \subseteq InValidatorSet /\ InValidatorSet \subseteq Pool
    BY DEF IInv, TypeOK, InValidatorSet, CurrentValidators
  <2> QED
    BY <2>1, <2>2
<1>6. \A p \in InValidatorSet : config[p].consensus_pubkey \in Key
  BY DEF KeysArePresent, InValidatorSet, CurrentValidators, Members
<1> DEFINE a == [i \in 1..n |-> addr(keep, i)]
           x == [i \in 1..n |-> indexed(keep, i)]
<1>7. \A i \in 1..n : /\ a[i] = addr(keep, i) /\ a[i] \in Pool
                      /\ x[i].consensus_pubkey \in Key
  BY <1>5, <1>6
<1>8. active_validators' = [i \in 1..n |->
         ValidatorInfoOf(a[i], settled[a[i]], x[i])]
  <2> HIDE DEF settled, reward, cand
  <2>1. active_validators' = [i \in 1..n |->
          ValidatorInfoOf(addr(keep, i), settled[addr(keep, i)], x[i])]
    BY <1>4, Zenon
  <2>2. \A i \in 1..n :
          ValidatorInfoOf(addr(keep, i), settled[addr(keep, i)], x[i])
            = ValidatorInfoOf(a[i], settled[a[i]], x[i])
    BY <1>7, Zenon
  <2> QED
    BY <2>1, <2>2, Zenon
<1>9. config' = [p \in Pool |->
         IF p \in {a[i] : i \in 1..n}
         THEN x[CHOOSE i \in 1..n : a[i] = p]
         ELSE config[p]]
  BY <1>4, Zenon
<1> HIDE DEF cand, addr, indexed, reward, settled, Result, a, x
<1>10. ASSUME NEW i \in 1..n
       PROVE  config'[a[i]].consensus_pubkey \in Key
  <2>1. (CHOOSE j \in 1..n : a[j] = a[i]) \in 1..n
    OBVIOUS
  <2>2. config'[a[i]] = x[CHOOSE j \in 1..n : a[j] = a[i]]
    BY <1>7, <1>9
  <2> QED
    BY <1>7, <2>1, <2>2, Zenon
<1>11. \A i \in DOMAIN active_validators' :
         /\ active_validators'[i].config.consensus_pubkey \in Key
         /\ config'[active_validators'[i].addr].consensus_pubkey \in Key
  BY <1>7, <1>8, <1>10 DEF ValidatorInfoOf
<1> QED
  BY <1>2, <1>11 DEF KeysArePresent-----------------------------------------------------------------------------
(* What consensus learns *)

ConsensusInfoType == [addr : Pool, pk_bytes : Key, voting_power : Nat]

CurrentEntries == Entries(active_validators) \cup Entries(pending_inactive)

\* Two current entries of one pool are the same entry.
LEMMA OneEntryEach ==
  ASSUME IInv
  PROVE  \A d, e \in CurrentEntries : d.addr = e.addr => d = e
<1>1. /\ NoDuplicates(active_validators) /\ NoDuplicates(pending_inactive)
      /\ Members(active_validators) \cap Members(pending_inactive) = {}
  BY DEF IInv, QueuesDisjoint
<1>2. \A q : \A d, e \in Entries(q) : NoDuplicates(q) /\ d.addr = e.addr => d = e
  BY DEF Entries, NoDuplicates
<1>3. \A q : \A e \in Entries(q) : e.addr \in Members(q)
  BY DEF Entries, Members
<1> QED
  BY <1>1, <1>2, <1>3 DEF CurrentEntries

\* What an entry of the epoch's set is.
LEMMA CurrentEntryFacts ==
  ASSUME IInv, KeysArePresent, NEW e \in CurrentEntries
  PROVE  /\ e \in ValidatorInfo /\ e.addr \in CurrentValidators
         /\ e.config.consensus_pubkey \in Key
         /\ e.config.validator_index = config[e.addr].validator_index
         /\ e.config.validator_index \in 0..Len(validator_perf) - 1
<1>1. PICK q \in {active_validators, pending_inactive} :
        \E i \in DOMAIN q : e = q[i]
  BY DEF CurrentEntries, Entries
<1>2. PICK i \in DOMAIN q : e = q[i]
  BY <1>1
<1>3. q \in Seq(ValidatorInfo) /\ Len(validator_perf) \in Nat
  BY LenProperties DEF IInv, TypeOK
<1>4. e \in ValidatorInfo
  BY <1>2, <1>3, LenProperties, ElementOfSeq
<1>5. e.addr \in CurrentValidators
  BY <1>2 DEF CurrentValidators, Members
<1>6. e.config.consensus_pubkey \in Key
  BY <1>2 DEF KeysArePresent
<1>7. /\ e.config.validator_index = config[e.addr].validator_index
      /\ e.config.validator_index < Len(validator_perf)
  BY <1>2 DEF IInv, IndicesMatchPerformance
<1>8. e.config.validator_index \in Nat
  BY <1>4 DEF ValidatorInfo, ValidatorConfig
<1> QED
  BY <1>3, <1>4, <1>5, <1>6, <1>7, <1>8

\* The validators of the epoch are numbered from 0 without a gap: every
\* index below their number is the index of one of them.
LEMMA IndicesAreUsed ==
  ASSUME IInv, KeysArePresent
  PROVE  /\ Cardinality(CurrentEntries) \in Nat
         /\ \A i \in 1..Cardinality(CurrentEntries) :
              \E e \in CurrentEntries : e.config.validator_index = i - 1
<1> DEFINE a == active_validators
           b == pending_inactive
           n == Len(a) + Len(b)
           E == CurrentEntries
           entry == [i \in 1..n |-> IF i <= Len(a) THEN a[i] ELSE b[i - Len(a)]]
           index == [e \in E |-> e.config.validator_index]
<1>1. /\ Len(a) \in Nat /\ Len(b) \in Nat /\ Len(validator_perf) = n
      /\ DOMAIN a = 1..Len(a) /\ DOMAIN b = 1..Len(b)
  BY LenProperties DEF IInv, TypeOK, IndicesMatchPerformance
<1>2. /\ NoDuplicates(a) /\ NoDuplicates(b)
      /\ Members(a) \cap Members(b) = {}
  BY DEF IInv, QueuesDisjoint
<1>3. \A e \in E : index[e] \in 0..n - 1
  BY <1>1, CurrentEntryFacts
<1>4. \A d, e \in E : index[d] = index[e] => d = e
  <2>1. ASSUME NEW d \in E, NEW e \in E, index[d] = index[e] PROVE d = e
    <3>1. config[d.addr].validator_index = config[e.addr].validator_index
      BY <2>1, CurrentEntryFacts
    <3>2. d.addr = e.addr
      BY <3>1, CurrentEntryFacts DEF IInv, IndicesMatchPerformance
    <3> QED
      BY <3>2, OneEntryEach
  <2> QED
    BY <2>1
<1>5. index \in Injection(E, 0..n - 1)
  BY <1>3, <1>4 DEF Injection, IsInjective
<1>6. IsFiniteSet(0..n - 1) /\ Cardinality(0..n - 1) = n
  <2>1. n \in Nat /\ n - 1 \in Int /\ 0 \in Int
    BY <1>1
  <2> HIDE DEF n
  <2>2. /\ IsFiniteSet(0..n - 1)
        /\ Cardinality(0..n - 1) = IF 0 > n - 1 THEN 0 ELSE n - 1 - 0 + 1
    BY <2>1, FS_Interval
  <2> QED
    BY <2>1, <2>2
<1>7. IsFiniteSet(1..n) /\ Cardinality(1..n) = n
  BY <1>1, FS_Interval
<1>8. /\ IsFiniteSet(E) /\ Cardinality(E) <= n
      /\ Cardinality(E) = n => index \in Surjection(E, 0..n - 1)
  BY <1>5, <1>6, FS_Injection
<1>9. \A i \in 1..n : entry[i] \in E
  <2>1. ASSUME NEW i \in 1..n, i <= Len(a) PROVE entry[i] \in E
    <3>1. i \in DOMAIN a /\ entry[i] = a[i]
      BY <1>1, <2>1
    <3> QED
      BY <3>1 DEF CurrentEntries, Entries
  <2>2. ASSUME NEW i \in 1..n, ~(i <= Len(a)) PROVE entry[i] \in E
    <3>1. i - Len(a) \in DOMAIN b /\ entry[i] = b[i - Len(a)]
      BY <1>1, <2>2
    <3> QED
      BY <3>1 DEF CurrentEntries, Entries
  <2> QED
    BY <2>1, <2>2
<1>10. \A i, j \in 1..n : entry[i] = entry[j] => i = j
  <2>1. ASSUME NEW i \in 1..n, NEW j \in 1..n, entry[i] = entry[j] PROVE i = j
    <3>1. \A k \in 1..n : k <= Len(a) => entry[k].addr \in Members(a)
      BY <1>1 DEF Members
    <3>2. \A k \in 1..n : ~(k <= Len(a)) => entry[k].addr \in Members(b)
      BY <1>1 DEF Members
    <3>3. i <= Len(a) <=> j <= Len(a)
      BY <1>2, <2>1, <3>1, <3>2
    <3>4. CASE i <= Len(a)
      BY <1>1, <1>2, <2>1, <3>3, <3>4 DEF NoDuplicates
    <3>5. CASE ~(i <= Len(a))
      <4>1. /\ i - Len(a) \in DOMAIN b /\ j - Len(a) \in DOMAIN b
            /\ b[i - Len(a)] = b[j - Len(a)]
        BY <1>1, <2>1, <3>3, <3>5
      <4>2. i - Len(a) = j - Len(a)
        BY <1>2, <4>1 DEF NoDuplicates
      <4> QED
        BY <1>1, <4>2
    <3> QED
      BY <3>4, <3>5
  <2> QED
    BY <2>1
<1>11. entry \in Injection(1..n, E)
  BY <1>9, <1>10 DEF Injection, IsInjective
<1>12. n <= Cardinality(E)
  BY <1>7, <1>8, <1>11, FS_Injection
<1>13. Cardinality(E) \in Nat
  BY <1>8, FS_CardinalityType
<1>14. Cardinality(E) = n
  BY <1>1, <1>8, <1>12, <1>13
<1>15. \A k \in 0..n - 1 : \E e \in E : index[e] = k
  BY <1>8, <1>14 DEF Surjection
<1>16. \A i \in 1..n : \E e \in E : index[e] = i - 1
  BY <1>1, <1>15
<1> QED
  BY <1>13, <1>14, <1>16

\* So cur_validator_consensus_infos fills every place that it made.
LEMMA CurConsensusInfosType ==
  ASSUME IInv, KeysArePresent
  PROVE  CurConsensusInfos \in ConsensusInfos
<1> DEFINE At(i) == CHOOSE e \in CurrentEntries : e.config.validator_index = i
           n == Cardinality(CurrentEntries)
<1>1. CurConsensusInfos = [i \in 1..n |->
        ConsensusInfo(At(i - 1).addr, At(i - 1).config.consensus_pubkey,
                      At(i - 1).voting_power)]
  BY DEF CurConsensusInfos, CurrentEntries, Entries
<1>2. n \in Nat /\ \A i \in 1..n : At(i - 1) \in CurrentEntries
  BY IndicesAreUsed
<1>3. \A i \in 1..n : /\ At(i - 1).addr \in Pool
                      /\ At(i - 1).voting_power \in Nat
                      /\ At(i - 1).config.consensus_pubkey \in Key
  BY <1>2, CurrentEntryFacts DEF ValidatorInfo
<1> HIDE DEF At, n
<1>4. \A i \in 1..n : ConsensusInfo(At(i - 1).addr,
                        At(i - 1).config.consensus_pubkey,
                        At(i - 1).voting_power) \in ConsensusInfoType
  BY <1>3 DEF ConsensusInfo, ConsensusInfoType
<1>5. CurConsensusInfos \in [1..n -> ConsensusInfoType]
  BY <1>1, <1>4
<1> QED
  BY <1>2, <1>5, SeqOfLength DEF ConsensusInfos, ConsensusInfoType

\* The stake that a forecast credits a pool with is a natural number.
LEMMA ForecastPowerType ==
  ASSUME IInv, NEW perf \in Seq(Performance),
         Len(perf) = Len(validator_perf), NEW all_stake \in Nat,
         NEW start, supply' \in Nat, fees_table' \in [Pool -> Nat],
         NEW p \in Pool
  PROVE  ForecastPower(p, p \in Members(active_validators), all_stake, perf,
                       start) \in Nat
<1> DEFINE sp == pools[p]
           reward == IF p \in Members(active_validators)
             THEN RewardsAmount(sp.active, all_stake,
                                perf[config[p].validator_index + 1], supply')
             ELSE 0
           held == IF start >= sp.locked_until_secs THEN 0
                                                    ELSE sp.pending_inactive
           fee == IF CollectFees THEN fees_table'[p] ELSE 0
<1>1. /\ sp.active \in Nat /\ sp.pending_active \in Nat
      /\ sp.pending_inactive \in Nat
  BY DEF IInv, TypeOK, StakePool
<1>2. reward \in Nat
  <2>1. CASE p \in Members(active_validators)
    <3>1. config[p].validator_index + 1 \in 1..Len(perf)
      BY <2>1, CurrentFacts DEF CurrentValidators
    <3>2. perf[config[p].validator_index + 1] \in Performance
      BY <3>1, ElementOfSeq
    <3>3. staking_config \in StakingConfig
      BY ConfigAssumption DEF IInv, TypeOK
    <3>4. RewardsAmount(sp.active, all_stake,
                        perf[config[p].validator_index + 1], supply') \in Nat
      BY <1>1, <3>2, <3>3, RewardsAmountType
    <3> QED
      BY <2>1, <3>4
  <2> QED
    BY <2>1
<1>3. held \in Nat /\ fee \in Nat
  BY <1>1
<1>4. ForecastPower(p, p \in Members(active_validators), all_stake, perf, start)
        = sp.active + sp.pending_active + reward + held + fee
  BY DEF ForecastPower
<1> HIDE DEF sp, reward, held, fee
<1> QED
  BY <1>1, <1>2, <1>3, <1>4

\* A forecast lists candidates, with their keys and a power for each.
LEMMA NextConsensusInfosType ==
  ASSUME IInv, KeysArePresent, NEW perf \in Seq(Performance),
         Len(perf) = Len(validator_perf), NEW start,
         supply' \in Nat, fees_table' \in [Pool -> Nat],
         NEW target \in NextConsensusInfos(perf, start)
  PROVE  target \in ConsensusInfos
<1> DEFINE
      all_stake == Total([p \in CurrentValidators |->
                            NextEpochVotingPower(pools[p])])
      cand == active_validators \o pending_active
      Power(p) == ForecastPower(p, p \in Members(active_validators),
                                all_stake, perf, start)
      Info(e) == ConsensusInfo(e.addr, config[e.addr].consensus_pubkey,
                               Power(e.addr))
      staying == {k \in DOMAIN cand :
                    Power(cand[k].addr) >= staking_config.minimum_stake}
      n == Cardinality(staying)
<1>1. all_stake \in Nat
  <2>1. CurrentValidators \subseteq Pool /\ pools \in [Pool -> StakePool]
    BY CurrentFacts DEF IInv, TypeOK
  <2>2. [p \in CurrentValidators |-> NextEpochVotingPower(pools[p])]
          \in [CurrentValidators -> Nat]
    BY <2>1, NextEpochVotingPowerType
  <2> QED
    BY <2>2, CurrentFacts, TotalNat
<1>2. /\ active_validators \in Seq(ValidatorInfo)
      /\ pending_active \in Seq(ValidatorInfo)
  BY DEF IInv, TypeOK
<1>3. /\ Len(cand) \in Nat /\ DOMAIN cand = 1..Len(cand)
      /\ \A k \in DOMAIN cand : /\ cand[k].addr \in InValidatorSet
                                /\ cand[k].addr \in Pool
  <2>1. cand \in Seq(ValidatorInfo)
    BY <1>2
  <2>2. Len(cand) \in Nat /\ DOMAIN cand = 1..Len(cand)
    BY <2>1, LenProperties
  <2>3. \A k \in DOMAIN cand :
          \/ \E i \in DOMAIN active_validators : cand[k] = active_validators[i]
          \/ \E i \in DOMAIN pending_active : cand[k] = pending_active[i]
    <3> DEFINE m == Len(active_validators)
    <3>1. /\ m \in Nat /\ Len(pending_active) \in Nat
          /\ DOMAIN active_validators = 1..m
          /\ DOMAIN pending_active = 1..Len(pending_active)
      BY <1>2, LenProperties
    <3>2. /\ Len(cand) = m + Len(pending_active)
          /\ \A k \in 1..Len(cand) :
               cand[k] = IF k <= m THEN active_validators[k]
                                   ELSE pending_active[k - m]
      BY <1>2, ConcatProperties
    <3>3. \A k \in 1..Len(cand) :
            IF k <= m THEN k \in 1..m ELSE k - m \in 1..Len(pending_active)
      BY <3>1, <3>2
    <3> HIDE DEF m, cand
    <3> QED
      BY <2>2, <3>1, <3>2, <3>3
  <2>4. \A k \in DOMAIN cand :
          cand[k].addr \in Members(active_validators) \cup Members(pending_active)
    BY <2>3 DEF Members
  <2>5. Members(active_validators) \cup Members(pending_active)
          \subseteq InValidatorSet /\ InValidatorSet \subseteq Pool
    BY DEF IInv, TypeOK, InValidatorSet, CurrentValidators
  <2> QED
    BY <2>2, <2>4, <2>5
<1>4. PICK keep \in [1..n -> staying] :
        target = [i \in DOMAIN keep |-> Info(cand[keep[i]])]
  BY Zenon DEF NextConsensusInfos
<1>5. staying \subseteq 1..Len(cand)
  BY <1>3
<1>6. n \in Nat
  <2>1. IsFiniteSet(1..Len(cand))
    <3>1. Len(cand) \in Int /\ 1 \in Int
      BY <1>3
    <3> HIDE DEF cand
    <3> QED
      BY <3>1, FS_Interval
  <2>2. IsFiniteSet(staying)
    BY <1>5, <2>1, FS_Subset
  <2> QED
    BY <2>2, FS_CardinalityType
<1>7. \A p \in InValidatorSet : config[p].consensus_pubkey \in Key
  BY DEF KeysArePresent, InValidatorSet, CurrentValidators, Members
<1>8. \A p \in Pool : Power(p) \in Nat
  <2> HIDE DEF all_stake
  <2> QED
    BY <1>1, ForecastPowerType
<1> HIDE DEF staying, Power, cand, n
<1>9. \A i \in 1..n : Info(cand[keep[i]]) \in ConsensusInfoType
  <2>1. ASSUME NEW i \in 1..n
        PROVE  Info(cand[keep[i]]) \in ConsensusInfoType
    <3>1. keep[i] \in DOMAIN cand
      BY <1>3, <1>5
    <3>2. /\ cand[keep[i]].addr \in Pool
          /\ config[cand[keep[i]].addr].consensus_pubkey \in Key
          /\ Power(cand[keep[i]].addr) \in Nat
      BY <1>3, <1>7, <1>8, <3>1
    <3> QED
      BY <3>2 DEF ConsensusInfo, ConsensusInfoType
  <2> QED
    BY <2>1
<1>10. target \in [1..n -> ConsensusInfoType]
  <2>1. DOMAIN keep = 1..n
    OBVIOUS
  <2> HIDE DEF Info
  <2> QED
    BY <1>4, <1>9, <2>1
<1> QED
  BY <1>6, <1>10, SeqOfLength DEF ConsensusInfos, ConsensusInfoType-----------------------------------------------------------------------------
(* What a block does *)

\* At time t, a block that ends the epoch, and one that does not.
EndEffect(t) ==
  /\ now' = t /\ last_reconfiguration_time' = t
  /\ ~InProgress'
  /\ CollectFees => \A p \in Pool : ~(fees_table'[p] > 0)
  /\ KeysArePresent'

RunEffect(t, kind) ==
  /\ now' = t /\ UNCHANGED <<queueVars, config, last_reconfiguration_time>>
  /\ InProgress' <=> kind = "start" \/ InProgress
  /\ \A p \in Pool :
       fees_table'[p] > 0 => fees_table[p] > 0 \/ p \in CurrentValidators

BlockEffect(t, kind) ==
  IF kind = "end" THEN EndEffect(t) ELSE RunEffect(t, kind)

\* The fees after a block.
LEMMA CreditedFees ==
  ASSUME IInv, NEW payee \in CurrentValidators, NEW fee \in Nat, NEW p \in Pool,
         Credited(payee, fee)[p] > 0
  PROVE  fees_table[p] > 0 \/ p \in CurrentValidators
BY DEF Credited, IInv, TypeOK

\* Both kinds of block have their effect.
LEMMA BlockHasEffect ==
  ASSUME ChainIInv, NEW proposer, NEW failed, NEW payee \in CurrentValidators,
         NEW fee \in Nat, NEW burnt \in Nat, NEW t \in Nat, NEW kind \in Kinds,
         Block(proposer, failed, payee, fee, burnt, t, kind)
  PROVE  BlockEffect(t, kind)
<1> DEFINE perf == Scored(proposer, failed)
           fees == Credited(payee, fee)
<1>1. IInv /\ KeysArePresent /\ FeesReachValidators
  BY DEF ChainIInv
<1>2. /\ fees \in [Pool -> Nat] /\ now' = t
      /\ \/ kind = "end" /\ Ends(perf, fees, fee, burnt, t)
         \/ kind # "end" /\ Runs(perf, fees, fee, burnt, t)
  BY <1>1, BlockCases
<1>3. \A p \in Pool : fees[p] > 0 => fees_table[p] > 0 \/ p \in CurrentValidators
  BY <1>1, CreditedFees
<1> HIDE DEF perf, fees
<1>4. CASE kind = "end"
  <2>1. Ends(perf, fees, fee, burnt, t)
    BY <1>2, <1>4
  <2>2. /\ reconf' = [in_progress |-> FALSE, start_time_secs |-> 0]
        /\ last_reconfiguration_time' = now'
    BY <2>1 DEF Ends, EndEpoch
  <2>3. PICK start : OnNewEpoch(perf, fees, pool_store + fee, supply - burnt,
                                circulating - fee - burnt, start, Secs(t))
    BY <2>1 DEF Ends, EndEpoch
  <2>4. KeysArePresent'
    BY <1>1, <2>3, NewEpochKeys
  <2>5. fees_table' = [p \in Pool |->
          IF CollectFees /\ p \in CurrentValidators THEN 0 ELSE fees[p]]
    BY <2>3, Zenon DEF OnNewEpoch
  <2>6. ASSUME CollectFees, NEW p \in Pool PROVE ~(fees_table'[p] > 0)
    BY <1>1, <1>2, <1>3, <2>5, <2>6 DEF FeesReachValidators
  <2>7. ~InProgress'
    BY <2>2 DEF InProgress
  <2> QED
    BY <1>2, <1>4, <2>2, <2>4, <2>6, <2>7 DEF BlockEffect, EndEffect
<1>5. CASE kind # "end"
  <2>1. Runs(perf, fees, fee, burnt, t)
    BY <1>2, <1>5
  <2>2. fees_table' = fees
        /\ UNCHANGED <<queueVars, config, last_reconfiguration_time>>
    BY <2>1 DEF Runs
  <2>3. IF kind = "start" THEN StartReconfiguration(Secs(t))
                          ELSE UNCHANGED reconf
    BY <1>5 DEF Block
  <2>4. reconf \in [in_progress : BOOLEAN, start_time_secs : Nat]
    BY <1>1 DEF IInv, TypeOK
  <2>5. InProgress' <=> kind = "start" \/ InProgress
    BY <2>3, <2>4 DEF StartReconfiguration, InProgress
  <2> QED
    BY <1>2, <1>3, <1>5, <2>2, <2>5 DEF BlockEffect, RunEffect
<1> QED
  BY <1>4, <1>5


\* A block of this module.
LEMMA ChainBlockEffect ==
  ASSUME ChainIInv, NEW proposer, NEW failed, NEW t \in Nat, NEW kind \in Kinds,
         NEW next_proposer, CurrentValidators # {},
         \/ BlockWithFees(proposer, failed, t, kind, next_proposer)
         \/ BlockWithoutFees(proposer, failed, t, kind)
  PROVE  BlockEffect(t, kind)
<1>1. CASE BlockWithFees(proposer, failed, t, kind, next_proposer)
  <2>1. /\ Payee \in CurrentValidators
        /\ collected - BurntFees \in Nat /\ BurntFees \in Nat
    BY FeesSplit, PayeeIsCurrent
  <2>2. Block(proposer, failed, Payee, collected - BurntFees, BurntFees, t,
              kind)
    BY <1>1 DEF BlockWithFees
  <2> QED
    BY <2>1, <2>2, BlockHasEffect
<1>2. CASE BlockWithoutFees(proposer, failed, t, kind)
  <2> DEFINE payee == CHOOSE p \in CurrentValidators : TRUE
  <2>1. payee \in CurrentValidators
    OBVIOUS
  <2>2. Block(proposer, failed, payee, 0, 0, t, kind)
    BY <1>2 DEF BlockWithoutFees
  <2> HIDE DEF payee
  <2> QED
    BY <2>1, <2>2, BlockHasEffect
<1> QED
  BY <1>1, <1>2-----------------------------------------------------------------------------
(* The parts of the invariant *)

SessionOK ==
  /\ in_progress \in Session \cup {NoSession}
  /\ InProgress <=> SessionIsCurrent
  /\ DealersAreCurrent
  /\ in_progress # NoSession => in_progress.dealer_epoch <= epoch
  /\ last_reconfiguration_time <= now
  /\ InProgress => last_reconfiguration_time < now

FeesOK ==
  /\ collected \in Nat /\ fee_proposer \in Pool \cup {NoProposer}
  /\ burn_percentage \in BurnPercentage
  /\ FeesReachValidators
  /\ ~CollectFees => fee_proposer = NoProposer

PhaseOK ==
  /\ epoch \in Nat \ {0}
  /\ phase \in Phases
  /\ now <= MaxTime
  /\ phase = "open" => last_reconfiguration_time < now

ConfigOK ==
  /\ last_completed \in Session \cup {NoSession}
  /\ randomness \in BOOLEAN /\ buffer \in BOOLEAN \cup {NoConfig}

\* ChainIInv is these together.
LEMMA ChainParts ==
  ChainIInv <=> IInv /\ KeysArePresent /\ SessionOK /\ FeesOK /\ PhaseOK
                  /\ ConfigOK
<1>1. ASSUME ChainIInv
      PROVE  IInv /\ KeysArePresent /\ SessionOK /\ FeesOK /\ PhaseOK /\ ConfigOK
  BY <1>1 DEF ChainIInv, LockedIffSession, ChainTypeOK, SessionOK, FeesOK,
     PhaseOK, ConfigOK
<1>2. ASSUME IInv, KeysArePresent, SessionOK, FeesOK, PhaseOK, ConfigOK
      PROVE  ChainIInv
  BY <1>2 DEF ChainIInv, LockedIffSession, ChainTypeOK, SessionOK, FeesOK,
     PhaseOK, ConfigOK
<1> QED
  BY <1>1, <1>2

\* In the next state too.
LEMMA ChainPartsNext ==
  (IInv /\ KeysArePresent /\ SessionOK /\ FeesOK /\ PhaseOK /\ ConfigOK)'
    => ChainIInv'
<1>1. IInv /\ KeysArePresent /\ SessionOK /\ FeesOK /\ PhaseOK /\ ConfigOK
        => ChainIInv
  BY ChainParts
<1> QED
  BY <1>1, PTL

\* cur_validator_consensus_infos reads two queues and nothing else.
InfosOf(a, b) ==
  LET entries == {a[i] : i \in DOMAIN a} \cup {b[i] : i \in DOMAIN b}
      At(i) == CHOOSE e \in entries : e.config.validator_index = i
  IN [i \in 1..Cardinality(entries) |->
        ConsensusInfo(At(i - 1).addr, At(i - 1).config.consensus_pubkey,
                      At(i - 1).voting_power)]

\* So it returns the same as long as they are the same.
LEMMA SameInfos ==
  ASSUME UNCHANGED <<active_validators, pending_inactive>>
  PROVE  /\ CurConsensusInfos' = CurConsensusInfos
         /\ CurrentValidators' = CurrentValidators
<1>1. CurConsensusInfos = InfosOf(active_validators, pending_inactive)
  BY DEF CurConsensusInfos, InfosOf
<1>2. CurConsensusInfos' = InfosOf(active_validators', pending_inactive')
  BY DEF CurConsensusInfos, InfosOf
<1>3. CurConsensusInfos' = CurConsensusInfos
  BY <1>1, <1>2, Zenon
<1>4. CurrentValidators' = CurrentValidators
  BY DEF CurrentValidators, Members
<1> QED
  BY <1>3, <1>4

-----------------------------------------------------------------------------
(* Sessions *)

\* A step that touches neither session nor epoch, nor a frozen set.
LEMMA SessionStays ==
  ASSUME IInv, SessionOK, UNCHANGED <<in_progress, epoch, last_reconfiguration_time>>,
         now' \in Nat, now <= now',
         InProgress' <=> InProgress,
         InProgress => UNCHANGED <<active_validators, pending_inactive>>
  PROVE  SessionOK'
<1>1. last_reconfiguration_time \in Nat /\ now \in Nat
  BY DEF IInv, TypeOK
<1>2. SessionIsCurrent' <=> SessionIsCurrent
  BY DEF SessionIsCurrent
<1>3. DealersAreCurrent'
  <2>1. ASSUME SessionIsCurrent' PROVE in_progress'.dealers = CurConsensusInfos'
    <3>1. InProgress /\ SessionIsCurrent
      BY <1>2, <2>1 DEF SessionOK
    <3>2. CurConsensusInfos' = CurConsensusInfos
      BY <3>1, SameInfos
    <3> QED
      BY <3>1, <3>2 DEF SessionOK, DealersAreCurrent
  <2> QED
    BY <2>1 DEF DealersAreCurrent
<1> QED
  BY <1>1, <1>2, <1>3 DEF SessionOK

\* A block inside an epoch lets a session be.
LEMMA SessionRuns ==
  ASSUME IInv, SessionOK, NEW t \in Nat, now <= t, RunEffect(t, "continue"),
         UNCHANGED <<in_progress, epoch>>
  PROVE  SessionOK'
BY SessionStays DEF RunEffect, queueVars

\* A session that starts is one of the validators of the epoch.
LEMMA SessionStarts ==
  ASSUME IInv, IInv', KeysArePresent, SessionOK, epoch \in Nat,
         NEW perf \in Seq(Performance), Len(perf) = Len(validator_perf),
         NEW start, NEW t \in Nat, now <= t, last_reconfiguration_time < t,
         RunEffect(t, "start"), StartDkg(perf, start), UNCHANGED epoch
  PROVE  SessionOK'
<1>1. supply' \in Nat /\ fees_table' \in [Pool -> Nat]
  BY DEF IInv, TypeOK
<1>2. PICK target \in NextConsensusInfos(perf, start) :
        in_progress' = [dealer_epoch |-> epoch, dealers |-> CurConsensusInfos,
                        target |-> target]
  BY DEF StartDkg
<1>3. target \in ConsensusInfos /\ CurConsensusInfos \in ConsensusInfos
  BY <1>1, NextConsensusInfosType, CurConsensusInfosType
<1>4. /\ in_progress' \in Session
      /\ in_progress'.dealer_epoch = epoch
      /\ in_progress'.dealers = CurConsensusInfos
  BY <1>2, <1>3 DEF Session
<1>5. in_progress' # NoSession
  BY <1>4, SessionAssumption
<1>6. /\ InProgress' /\ now' = t
      /\ UNCHANGED <<active_validators, pending_inactive,
                     last_reconfiguration_time>>
  BY DEF RunEffect, queueVars
<1>7. CurConsensusInfos' = CurConsensusInfos
  BY <1>6, SameInfos
<1>8. SessionIsCurrent' /\ DealersAreCurrent'
  BY <1>4, <1>5, <1>7 DEF SessionIsCurrent, DealersAreCurrent
<1>9. last_reconfiguration_time \in Nat
  BY DEF IInv, TypeOK
<1> QED
  BY <1>4, <1>5, <1>6, <1>8, <1>9 DEF SessionOK

\* With the epoch a session ends, or is out of date for ever.
LEMMA SessionEnds ==
  ASSUME SessionOK, epoch \in Nat, NEW t \in Nat, EndEffect(t),
         epoch' = epoch + 1,
         in_progress' = NoSession \/ UNCHANGED in_progress
  PROVE  SessionOK'
<1>1. ~SessionIsCurrent'
  <2>1. ASSUME in_progress' # NoSession
        PROVE  in_progress'.dealer_epoch # epoch' /\ in_progress'.dealer_epoch <= epoch'
    <3>1. /\ in_progress' = in_progress /\ in_progress \in Session
          /\ in_progress.dealer_epoch <= epoch
      BY <2>1 DEF SessionOK
    <3>2. in_progress.dealer_epoch \in Nat
      BY <3>1 DEF Session
    <3> QED
      BY <3>1, <3>2
  <2> QED
    BY <2>1 DEF SessionIsCurrent
<1>2. in_progress' # NoSession => in_progress'.dealer_epoch <= epoch'
  <2>1. ASSUME in_progress' # NoSession PROVE in_progress'.dealer_epoch <= epoch'
    <3>1. /\ in_progress' = in_progress /\ in_progress \in Session
          /\ in_progress.dealer_epoch <= epoch
      BY <2>1 DEF SessionOK
    <3>2. in_progress.dealer_epoch \in Nat
      BY <3>1 DEF Session
    <3> QED
      BY <3>1, <3>2
  <2> QED
    BY <2>1
<1>3. in_progress' \in Session \cup {NoSession}
  BY DEF SessionOK
<1>4. ~InProgress' /\ now' = t /\ last_reconfiguration_time' = t
  BY DEF EndEffect
<1>5. DealersAreCurrent'
  BY <1>1 DEF DealersAreCurrent
<1> QED
  BY <1>1, <1>2, <1>3, <1>4, <1>5 DEF SessionOK

-----------------------------------------------------------------------------
(* Fees *)

\* An epoch pays every fee and forgets its proposer.
LEMMA FeesOfEnd ==
  ASSUME FeesOK, NEW t, EndEffect(t), collected' \in Nat,
         fee_proposer' = NoProposer, UNCHANGED burn_percentage
  PROVE  FeesOK'
BY DEF FeesOK, EndEffect, FeesReachValidators

\* Within an epoch, fees go to its validators.
LEMMA FeesOfRun ==
  ASSUME IInv, FeesOK, NEW t, NEW kind, RunEffect(t, kind), collected' \in Nat,
         \/ UNCHANGED fee_proposer
         \/ fee_proposer' = NoProposer
         \/ CollectFees /\ fee_proposer' \in CurrentValidators,
         burn_percentage' \in BurnPercentage
  PROVE  FeesOK'
<1>1. CurrentValidators' = CurrentValidators
  BY SameInfos DEF RunEffect, queueVars
<1>2. CurrentValidators \subseteq Pool /\ NoProposer \notin Pool
  BY CurrentFacts, PoolAssumption
<1>3. FeesReachValidators'
  BY <1>1 DEF FeesReachValidators, RunEffect, FeesOK
<1> QED
  BY <1>2, <1>3 DEF FeesOK

-----------------------------------------------------------------------------
(* Transactions of owners, operators and governance *)

\* What they leave alone.
SetKept ==
  /\ CurrentEntries' = CurrentEntries
  /\ InProgress => UNCHANGED <<active_validators, pending_inactive>>
  /\ UNCHANGED <<fees_table, clockVars>>

\* Steps that touch no queue of the epoch.
LEMMA QueuesKept ==
  ASSUME UNCHANGED <<active_validators, pending_inactive, fees_table, clockVars>>
  PROVE  SetKept
BY DEF SetKept, CurrentEntries, Entries

\* Owners touch no queue at all.
LEMMA OwnersKeepSet ==
  ASSUME NEW p, OwnerStep(p)
  PROVE  SetKept
<1>1. UNCHANGED <<active_validators, pending_inactive>>
  BY Zenon DEF OwnerStep, InitializeValidator, InitializeStakeOwner, AddStake,
     Unlock, ReactivateStake, Withdraw, IncreaseLockup, queueVars
<1>2. UNCHANGED fees_table
  BY Zenon DEF OwnerStep, InitializeValidator, InitializeStakeOwner, AddStake,
     Unlock, ReactivateStake, Withdraw, IncreaseLockup
<1>3. UNCHANGED clockVars
  BY Zenon DEF OwnerStep, InitializeValidator, InitializeStakeOwner, AddStake,
     Unlock, ReactivateStake, Withdraw, IncreaseLockup
<1> QED
  BY <1>1, <1>2, <1>3, QueuesKept

\* Operators move validators only while no reconfiguration is in progress.
LEMMA OperatorsKeepSet ==
  ASSUME IInv, NEW p \in Pool, OperatorStep(p)
  PROVE  SetKept
<1>1. CASE \E key \in Key : RotateConsensusKey(p, key)
  <2>1. UNCHANGED <<active_validators, pending_inactive, fees_table, clockVars>>
    BY <1>1 DEF RotateConsensusKey, queueVars
  <2> QED
    BY <2>1, QueuesKept
<1>2. CASE JoinValidatorSet(p)
  <2>1. UNCHANGED <<active_validators, pending_inactive, fees_table, clockVars>>
    BY <1>2 DEF JoinValidatorSet
  <2> QED
    BY <2>1, QueuesKept
<1>3. CASE LeaveValidatorSet(p) /\ LeavePendingActive(p)
  <2>1. UNCHANGED <<active_validators, pending_inactive, fees_table, clockVars>>
    BY <1>3 DEF LeaveValidatorSet, LeavePendingActive
  <2> QED
    BY <2>1, QueuesKept
<1>4. CASE LeaveValidatorSet(p) /\ LeaveActive(p)
  <2>1. ~InProgress /\ UNCHANGED <<fees_table, clockVars>>
    BY <1>4 DEF LeaveValidatorSet
  <2>2. CurrentEntries' = CurrentEntries
    BY <1>4, LeaveActiveEntries DEF SameEntries, CurrentEntries, Entries
  <2> QED
    BY <2>1, <2>2 DEF SetKept
<1> QED
  BY <1>1, <1>2, <1>3, <1>4 DEF OperatorStep, LeaveValidatorSet

\* So does governance.
LEMMA GovernanceKeepsSet ==
  ASSUME IInv, GovernanceStep
  PROVE  SetKept
<1>1. CASE \E list \in RemovalLists : RemoveValidators(list)
  <2>1. ~InProgress /\ UNCHANGED <<fees_table, clockVars>>
    BY <1>1 DEF RemoveValidators
  <2>2. CurrentEntries' = CurrentEntries
    BY <1>1, RemovalEntries DEF SameEntries, CurrentEntries, Entries
  <2> QED
    BY <2>1, <2>2 DEF SetKept
<1>2. CASE \E c \in Configs : UpdateStakingConfig(c)
  <2>1. UNCHANGED <<active_validators, pending_inactive, fees_table, clockVars>>
    BY <1>2 DEF UpdateStakingConfig, queueVars
  <2> QED
    BY <2>1, QueuesKept
<1> QED
  BY <1>1, <1>2 DEF GovernanceStep

\* They are steps of Stake's Next, and keep everything the chain relies on.
LEMMA TransactionStep ==
  ASSUME ChainIInv,
         \/ \E p \in Pool : OwnerStep(p) \/ OperatorStep(p)
         \/ GovernanceStep,
         UNCHANGED <<epoch, dkgVars, configVars, feeVars, phase>>
  PROVE  Next /\ ChainIInv' /\ CurrentEntries' = CurrentEntries
<1>1. IInv /\ KeysArePresent /\ SessionOK /\ FeesOK /\ PhaseOK /\ ConfigOK
  BY ChainParts
<1>2. Next
  BY DEF Next
<1>3. IInv'
  BY <1>1, <1>2, NextIInv
<1>4. KeysArePresent'
  BY <1>1, OwnerKeys, RotateKeys, JoinKeys, LeaveKeys, GovernanceKeys
     DEF OperatorStep
<1>5. SetKept
  BY <1>1, OwnersKeepSet, OperatorsKeepSet, GovernanceKeepsSet
<1>6. UNCHANGED <<fees_table, reconf, last_reconfiguration_time, now>>
  BY <1>5 DEF SetKept, clockVars
<1>7. CurrentEntries' = CurrentEntries
      /\ CurrentValidators' = CurrentValidators
  <2>1. CurrentValidators = {e.addr : e \in CurrentEntries}
    BY DEF CurrentValidators, Members, CurrentEntries, Entries
  <2>2. CurrentValidators' = {e.addr : e \in CurrentEntries'}
    BY DEF CurrentValidators, Members, CurrentEntries, Entries
  <2>3. CurrentEntries' = CurrentEntries
    BY <1>5 DEF SetKept
  <2> QED
    BY <2>1, <2>2, <2>3
<1>8. SessionOK'
  <2>1. now \in Nat
    BY <1>1 DEF IInv, TypeOK
  <2>2. InProgress' <=> InProgress
    BY <1>6 DEF InProgress
  <2>3. InProgress => UNCHANGED <<active_validators, pending_inactive>>
    BY <1>5 DEF SetKept
  <2>4. UNCHANGED <<in_progress, epoch, last_reconfiguration_time>>
    BY <1>6 DEF dkgVars
  <2> QED
    BY <1>1, <1>6, <2>1, <2>2, <2>3, <2>4, SessionStays
<1>9. FeesOK'
  <2>1. UNCHANGED <<collected, fee_proposer, burn_percentage>>
    BY DEF feeVars
  <2> QED
    BY <1>1, <1>6, <1>7, <2>1 DEF FeesOK, FeesReachValidators
<1>10. PhaseOK' /\ ConfigOK'
  BY <1>1, <1>6 DEF PhaseOK, ConfigOK, dkgVars, configVars
<1> QED
  BY <1>2, <1>3, <1>4, <1>7, <1>8, <1>9, <1>10, ChainPartsNext

-----------------------------------------------------------------------------
(* System transactions *)

\* What is proved of every step: Stake allows it, the invariant holds again,
\* and the set of the epoch and the config change with the epoch only.
StepOK ==
  /\ [Next]_stakeVars
  /\ ChainIInv'
  /\ CurrentEntries' # CurrentEntries => epoch' = epoch + 1
  /\ randomness' # randomness => epoch' = epoch + 1

\* A system transaction that ends the epoch.
LEMMA EndStep ==
  ASSUME ChainIInv, SystemStep, NEW t \in Nat, t <= MaxTime, EndEffect(t),
         epoch' = epoch + 1,
         in_progress' = NoSession \/ UNCHANGED in_progress,
         collected' \in Nat, fee_proposer' = NoProposer,
         UNCHANGED burn_percentage,
         phase' \in {"epilogue", "closed"}, ConfigOK'
  PROVE  StepOK
<1>1. IInv /\ SessionOK /\ FeesOK /\ PhaseOK
  BY ChainParts
<1>2. Next
  BY DEF Next
<1>3. IInv'
  BY <1>1, <1>2, NextIInv
<1>4. KeysArePresent'
  BY DEF EndEffect
<1>5. epoch \in Nat /\ epoch' \in Nat \ {0}
  BY <1>1 DEF PhaseOK
<1>6. SessionOK'
  BY <1>1, <1>5, SessionEnds
<1>7. FeesOK'
  BY <1>1, FeesOfEnd
<1>8. PhaseOK'
  BY <1>5 DEF PhaseOK, Phases, EndEffect
<1> QED
  BY <1>2, <1>3, <1>4, <1>6, <1>7, <1>8, ChainPartsNext DEF StepOK

\* A system transaction within the epoch.
LEMMA RunStep ==
  ASSUME ChainIInv, SystemStep, NEW t, NEW kind, RunEffect(t, kind),
         SessionOK', FeesOK', PhaseOK',
         UNCHANGED <<last_completed, randomness, buffer>>
  PROVE  StepOK
<1>1. IInv /\ KeysArePresent /\ ConfigOK
  BY ChainParts
<1>2. Next
  BY DEF Next
<1>3. IInv'
  BY <1>1, <1>2, NextIInv
<1>4. UNCHANGED <<queueVars, config>>
  BY DEF RunEffect
<1>5. KeysArePresent'
  <2>1. AllEntries' = AllEntries
    BY <1>4, EntriesStay
  <2> QED
    BY <1>1, <1>4, <2>1, KeysStay
<1>6. CurrentEntries' = CurrentEntries
  BY <1>4 DEF queueVars, CurrentEntries, Entries
<1>7. ConfigOK'
  BY <1>1 DEF ConfigOK
<1> QED
  BY <1>2, <1>3, <1>5, <1>6, <1>7, ChainPartsNext DEF StepOK

\* Facts about the clock and the fees.
LEMMA ChainFacts ==
  ASSUME ChainIInv
  PROVE  /\ now \in Nat /\ MaxTime \in Nat /\ now <= MaxTime
         /\ last_reconfiguration_time \in Nat
         /\ last_reconfiguration_time <= now
         /\ phase = "open" => last_reconfiguration_time < now
         /\ InProgress => last_reconfiguration_time < now
         /\ collected \in Nat
         /\ ~CollectFees => fee_proposer = NoProposer
         /\ epoch \in Nat
BY BoundAssumption DEF ChainIInv, IInv, TypeOK, LockedIffSession, ChainTypeOK

\* reconfigure() in a transaction of a block always ends the epoch: the
\* early return for a block that has reconfigured already is never taken.
LEMMA ReconfigureEnds ==
  ASSUME ChainIInv, phase = "open", CurrentValidators # {},
         NEW closing, Reconfigure(closing)
  PROVE  /\ SystemStep /\ EndEffect(now)
         /\ epoch' = epoch + 1 /\ phase' = closing
         /\ collected' \in Nat /\ fee_proposer' = NoProposer
         /\ UNCHANGED burn_percentage
<1>1. /\ now \in now..MaxTime /\ now # 0 /\ now # last_reconfiguration_time
      /\ now \in Nat /\ collected \in Nat
      /\ ~CollectFees => fee_proposer = NoProposer
  BY ChainFacts
<1>2. /\ IF CollectFees
         THEN BlockWithFees(NoProposer, {}, now, "end", NoProposer)
         ELSE BlockWithoutFees(NoProposer, {}, now, "end")
      /\ epoch' = epoch + 1 /\ phase' = closing
  BY <1>1 DEF Reconfigure
<1>3. \/ BlockWithFees(NoProposer, {}, now, "end", NoProposer)
      \/ BlockWithoutFees(NoProposer, {}, now, "end")
  BY <1>2
<1>4. /\ collected' \in Nat /\ fee_proposer' = NoProposer
      /\ UNCHANGED burn_percentage
  BY <1>1, <1>2 DEF BlockWithFees, BlockWithoutFees, feeVars
<1>5. "end" \in Kinds /\ WithinProposals({}) /\ ~(now > now)
  BY <1>1 DEF Kinds, WithinProposals
<1>6. SystemStep
  BY <1>1, <1>3, <1>5, ChainBlock
<1>7. BlockEffect(now, "end")
  BY <1>1, <1>3, <1>5, ChainBlockEffect
<1> QED
  BY <1>2, <1>4, <1>6, <1>7 DEF BlockEffect

\* A buffered config comes into force, or there is none.
LEMMA ApplyBufferType ==
  ASSUME ConfigOK, ApplyBuffer
  PROVE  randomness' \in BOOLEAN /\ buffer' \in BOOLEAN \cup {NoConfig}
BY DEF ConfigOK, ApplyBuffer

\* force_end_epoch.
LEMMA ForceEndEpochStep ==
  ASSUME ChainIInv, ForceEndEpoch
  PROVE  StepOK
<1>1. /\ SystemStep /\ EndEffect(now)
      /\ epoch' = epoch + 1 /\ phase' = "epilogue"
      /\ collected' \in Nat /\ fee_proposer' = NoProposer
      /\ UNCHANGED burn_percentage
  BY ReconfigureEnds DEF ForceEndEpoch
<1>2. ConfigOK'
  BY ChainParts, ApplyBufferType DEF ForceEndEpoch, ConfigOK
<1>3. in_progress' = NoSession
  BY DEF ForceEndEpoch
<1> QED
  BY <1>1, <1>2, <1>3, ChainFacts, EndStep

\* A DKG result.
LEMMA FinishWithDkgResultStep ==
  ASSUME ChainIInv, FinishWithDkgResult
  PROVE  StepOK
<1>1. /\ SystemStep /\ EndEffect(now)
      /\ epoch' = epoch + 1 /\ phase' = "closed"
      /\ collected' \in Nat /\ fee_proposer' = NoProposer
      /\ UNCHANGED burn_percentage
  BY ReconfigureEnds DEF FinishWithDkgResult
<1>2. ConfigOK'
  BY ChainParts, ApplyBufferType DEF FinishWithDkgResult, ConfigOK, SessionOK
<1>3. in_progress' = NoSession
  BY DEF FinishWithDkgResult
<1> QED
  BY <1>1, <1>2, <1>3, ChainFacts, EndStep

\* set(), behind the back of a session.
LEMMA SetConfigStep ==
  ASSUME ChainIInv, NEW c \in ConfigsNow, SetConfig(c)
  PROVE  StepOK
<1>1. /\ SystemStep /\ EndEffect(now)
      /\ epoch' = epoch + 1 /\ phase' = "epilogue"
      /\ collected' \in Nat /\ fee_proposer' = NoProposer
      /\ UNCHANGED burn_percentage
  BY ReconfigureEnds DEF SetConfig
<1>2. ConfigOK'
  BY ChainParts, ChainAssumption DEF SetConfig, ConfigOK, dkgVars
<1>3. UNCHANGED in_progress
  BY DEF SetConfig, dkgVars
<1> QED
  BY <1>1, <1>2, <1>3, ChainFacts, EndStep

\* A session that governance asks for starts in a block of this epoch.
LEMMA GovernanceReconfigureStep ==
  ASSUME ChainIInv, GovernanceReconfigure
  PROVE  StepOK
<1>1. IInv /\ KeysArePresent /\ SessionOK /\ FeesOK /\ PhaseOK /\ ConfigOK
  BY ChainParts
<1>2. phase = "open" /\ CurrentValidators # {}
  BY DEF GovernanceReconfigure
<1>3. CASE randomness
  <2>1. /\ BlockWithoutFees(NoProposer, {}, now, "start")
        /\ StartDkg(validator_perf, StartTime(now))
        /\ UNCHANGED <<epoch, last_completed, configVars, phase>>
    BY <1>3 DEF GovernanceReconfigure
  <2>2. /\ now \in now..MaxTime /\ now \in Nat /\ now <= now /\ ~(now > now)
        /\ last_reconfiguration_time < now /\ epoch \in Nat
    BY <1>2, ChainFacts
  <2>3. "start" \in Kinds /\ WithinProposals({})
    BY DEF Kinds, WithinProposals
  <2>4. SystemStep
    BY <1>2, <2>1, <2>2, <2>3, ChainBlock
  <2>5. RunEffect(now, "start")
    <3>1. BlockEffect(now, "start")
      BY <1>2, <2>1, <2>2, <2>3, ChainBlockEffect
    <3> QED
      BY <3>1 DEF BlockEffect
  <2>6. Next /\ IInv'
    <3>1. Next
      BY <2>4 DEF Next
    <3> QED
      BY <1>1, <3>1, NextIInv
  <2>7. SessionOK'
    <3>1. validator_perf \in Seq(Performance)
      BY <1>1 DEF IInv, TypeOK
    <3>2. UNCHANGED epoch
      BY <2>1
    <3> QED
      BY <1>1, <2>1, <2>2, <2>5, <2>6, <3>1, <3>2, SessionStarts
  <2>8. FeesOK'
    <3>1. UNCHANGED <<collected, fee_proposer, burn_percentage>>
      BY <2>1 DEF BlockWithoutFees, feeVars
    <3>2. collected' \in Nat /\ burn_percentage' \in BurnPercentage
      BY <1>1, <3>1 DEF FeesOK
    <3> QED
      BY <1>1, <2>5, <3>1, <3>2, FeesOfRun
  <2>9. PhaseOK'
    BY <1>1, <2>1, <2>5 DEF PhaseOK, RunEffect
  <2>10. UNCHANGED <<last_completed, randomness, buffer>>
    BY <2>1 DEF configVars
  <2> QED
    BY <2>4, <2>5, <2>7, <2>8, <2>9, <2>10, RunStep
<1>4. CASE ~randomness
  <2>1. /\ Reconfigure("epilogue") /\ ApplyBuffer
        /\ in_progress' = NoSession /\ UNCHANGED last_completed
    BY <1>4 DEF GovernanceReconfigure
  <2>2. /\ SystemStep /\ EndEffect(now)
        /\ epoch' = epoch + 1 /\ phase' = "epilogue"
        /\ collected' \in Nat /\ fee_proposer' = NoProposer
        /\ UNCHANGED burn_percentage
    BY <1>2, <2>1, ReconfigureEnds
  <2>3. ConfigOK'
    BY <1>1, <2>1, ApplyBufferType DEF ConfigOK
  <2> QED
    BY <2>1, <2>2, <2>3, ChainFacts, EndStep
<1> QED
  BY <1>3, <1>4

\* Who can propose a block, and when.
Proposes(proposer, t) ==
  \/ proposer \in CurrentValidators /\ t \in now + 1..MaxTime
  \/ proposer = NoProposer /\ t = now

\* The part of a prologue that both modes share.
LEMMA PrologueEffect ==
  ASSUME ChainIInv, NEW proposer, NEW failed \in SUBSET DOMAIN validator_perf,
         NEW t, NEW kind \in Kinds, Proposes(proposer, t),
         WithinProposals(failed), CurrentValidators # {},
         kind = "end" => t # last_reconfiguration_time,
         Prologue(proposer, failed, t, kind)
  PROVE  /\ SystemStep /\ BlockEffect(t, kind)
         /\ t \in Nat /\ now <= t /\ t <= MaxTime
         /\ collected' \in Nat /\ UNCHANGED burn_percentage
         /\ kind = "end" => fee_proposer' = NoProposer /\ phase' = "closed"
         /\ \/ UNCHANGED fee_proposer
            \/ fee_proposer' = NoProposer
            \/ CollectFees /\ fee_proposer' \in CurrentValidators
         /\ phase' \in Phases
         /\ phase' = "open" => now < t
<1>1. /\ now \in Nat /\ MaxTime \in Nat /\ now <= MaxTime /\ collected \in Nat
      /\ ~CollectFees => fee_proposer = NoProposer
  BY ChainFacts
<1>2. CurrentValidators \subseteq Pool /\ NoProposer \notin Pool
  BY CurrentFacts, PoolAssumption DEF ChainIInv
<1>3. /\ proposer \in CurrentValidators \cup {NoProposer}
      /\ proposer # NoProposer <=> t > now
      /\ t \in now..MaxTime /\ t \in Nat /\ now <= t /\ t <= MaxTime
  BY <1>1, <1>2 DEF Proposes
<1> DEFINE next_proposer == IF kind = "end" THEN NoProposer ELSE proposer
<1>4. /\ IF CollectFees
         THEN BlockWithFees(proposer, failed, t, kind, next_proposer)
         ELSE BlockWithoutFees(proposer, failed, t, kind)
      /\ phase' = IF kind = "end" \/ proposer = NoProposer THEN "closed"
                                                          ELSE "open"
  BY DEF Prologue
<1>5. \/ BlockWithFees(proposer, failed, t, kind, next_proposer)
      \/ BlockWithoutFees(proposer, failed, t, kind)
  BY <1>4
<1>6. SystemStep
  BY <1>3, <1>5, ChainBlock
<1>7. BlockEffect(t, kind)
  BY <1>3, <1>5, ChainBlockEffect
<1>8. /\ collected' \in Nat /\ UNCHANGED burn_percentage
      /\ fee_proposer' = IF CollectFees THEN next_proposer ELSE fee_proposer
  BY <1>1, <1>4 DEF BlockWithFees, BlockWithoutFees, feeVars
<1>9. /\ kind = "end" => fee_proposer' = NoProposer /\ phase' = "closed"
      /\ phase' \in Phases
      /\ phase' = "open" => now < t
  BY <1>1, <1>3, <1>4, <1>8 DEF Phases
<1>10. \/ UNCHANGED fee_proposer
       \/ fee_proposer' = NoProposer
       \/ CollectFees /\ fee_proposer' \in CurrentValidators
  BY <1>3, <1>8
<1> QED
  BY <1>3, <1>6, <1>7, <1>8, <1>9, <1>10

\* Without randomness, a block whose time is up ends the epoch.
LEMMA BlockPrologueStep ==
  ASSUME ChainIInv, NEW proposer, NEW failed \in SUBSET DOMAIN validator_perf,
         NEW t, Proposes(proposer, t), WithinProposals(failed),
         CurrentValidators # {}, BlockPrologue(proposer, failed, t)
  PROVE  StepOK
<1>1. IInv /\ SessionOK /\ FeesOK /\ PhaseOK /\ ConfigOK
  BY ChainParts
<1>2. /\ now \in Nat /\ last_reconfiguration_time \in Nat
      /\ last_reconfiguration_time <= now
      /\ EpochInterval \in Nat \ {0}
  BY ChainFacts, ChainAssumption
<1>3. UNCHANGED <<in_progress, last_completed, randomness, buffer>>
  BY DEF BlockPrologue, dkgVars, configVars
<1>4. ConfigOK'
  BY <1>1, <1>3 DEF ConfigOK
<1>5. CASE EpochTimedOut(t)
  <2>1. Prologue(proposer, failed, t, "end") /\ epoch' = epoch + 1
    BY <1>5 DEF BlockPrologue
  <2>2. t # last_reconfiguration_time /\ "end" \in Kinds
    <3>1. t \in Int
      BY <1>2, ChainFacts DEF Proposes
    <3> QED
      BY <1>2, <1>5, <3>1 DEF EpochTimedOut, Kinds
  <2>3. /\ SystemStep /\ BlockEffect(t, "end")
        /\ t \in Nat /\ t <= MaxTime
        /\ collected' \in Nat /\ UNCHANGED burn_percentage
        /\ fee_proposer' = NoProposer /\ phase' = "closed"
    BY <2>1, <2>2, PrologueEffect
  <2>4. EndEffect(t)
    BY <2>3 DEF BlockEffect
  <2> QED
    BY <1>3, <1>4, <2>1, <2>3, <2>4, EndStep
<1>6. CASE ~EpochTimedOut(t)
  <2>1. Prologue(proposer, failed, t, "continue") /\ UNCHANGED epoch
    BY <1>6 DEF BlockPrologue
  <2>2. "continue" \in Kinds /\ "continue" # "end"
    BY DEF Kinds
  <2>3. /\ SystemStep /\ BlockEffect(t, "continue")
        /\ t \in Nat /\ now <= t /\ t <= MaxTime
        /\ collected' \in Nat /\ UNCHANGED burn_percentage
        /\ \/ UNCHANGED fee_proposer
           \/ fee_proposer' = NoProposer
           \/ CollectFees /\ fee_proposer' \in CurrentValidators
        /\ phase' \in Phases
        /\ phase' = "open" => now < t
    BY <2>1, <2>2, PrologueEffect
  <2>4. RunEffect(t, "continue")
    BY <2>2, <2>3 DEF BlockEffect
  <2>5. SessionOK'
    BY <1>1, <1>3, <2>1, <2>3, <2>4, SessionRuns
  <2>6. FeesOK'
    <3>1. burn_percentage' \in BurnPercentage
      BY <1>1, <2>3 DEF FeesOK
    <3> QED
      BY <1>1, <2>3, <2>4, <3>1, FeesOfRun
  <2>7. PhaseOK'
    BY <1>1, <1>2, <2>1, <2>3, <2>4 DEF PhaseOK, RunEffect
  <2> QED
    BY <1>3, <2>3, <2>4, <2>5, <2>6, <2>7, RunStep
<1> QED
  BY <1>5, <1>6

\* With randomness, a block whose time is up starts a session.
LEMMA BlockPrologueExtStep ==
  ASSUME ChainIInv, NEW proposer, NEW failed \in SUBSET DOMAIN validator_perf,
         NEW t, Proposes(proposer, t), WithinProposals(failed),
         CurrentValidators # {}, BlockPrologueExt(proposer, failed, t)
  PROVE  StepOK
<1> DEFINE starts == EpochTimedOut(t) /\ ~SessionIsCurrent
           kind == IF starts THEN "start" ELSE "continue"
           perf == Scored(proposer, failed)
<1>1. IInv /\ KeysArePresent /\ SessionOK /\ FeesOK /\ PhaseOK /\ ConfigOK
  BY ChainParts
<1>2. /\ now \in Nat /\ last_reconfiguration_time \in Nat
      /\ last_reconfiguration_time <= now /\ epoch \in Nat
      /\ EpochInterval \in Nat \ {0}
  BY ChainFacts, ChainAssumption
<1>3. /\ Prologue(proposer, failed, t, kind)
      /\ starts => StartDkg(perf, StartTime(t))
      /\ ~starts => UNCHANGED in_progress
      /\ UNCHANGED <<epoch, last_completed, randomness, buffer>>
  BY DEF BlockPrologueExt, configVars
<1>4. kind \in Kinds /\ kind # "end"
  BY DEF Kinds
<1>5. perf \in Seq(Performance) /\ Len(perf) = Len(validator_perf)
  BY <1>1, ScoredType
<1>6. starts => last_reconfiguration_time < t
  <2>1. t \in Int
    BY <1>2, ChainFacts DEF Proposes
  <2> QED
    BY <1>2, <2>1 DEF EpochTimedOut
<1> HIDE DEF perf
<1>7. /\ SystemStep /\ BlockEffect(t, kind)
      /\ t \in Nat /\ now <= t /\ t <= MaxTime
      /\ collected' \in Nat /\ UNCHANGED burn_percentage
      /\ \/ UNCHANGED fee_proposer
         \/ fee_proposer' = NoProposer
         \/ CollectFees /\ fee_proposer' \in CurrentValidators
      /\ phase' \in Phases
      /\ phase' = "open" => now < t
  <2> HIDE DEF kind
  <2> QED
    BY <1>3, <1>4, PrologueEffect
<1>8. RunEffect(t, kind)
  BY <1>4, <1>7 DEF BlockEffect
<1>9. SessionOK'
  <2>1. CASE starts
    <3>1. RunEffect(t, "start") /\ StartDkg(perf, StartTime(t))
      BY <1>3, <1>8, <2>1
    <3>2. IInv'
      BY <1>1, <1>7, SystemStepStep
    <3>3. last_reconfiguration_time < t /\ UNCHANGED epoch
      BY <1>3, <1>6, <2>1
    <3> QED
      BY <1>1, <1>2, <1>5, <1>7, <3>1, <3>2, <3>3, SessionStarts
  <2>2. CASE ~starts
    <3>1. RunEffect(t, "continue") /\ UNCHANGED <<in_progress, epoch>>
      BY <1>3, <1>8, <2>2
    <3> QED
      BY <1>1, <1>7, <3>1, SessionRuns
  <2> QED
    BY <2>1, <2>2
<1>10. FeesOK'
  <2>1. burn_percentage' \in BurnPercentage
    BY <1>1, <1>7 DEF FeesOK
  <2> HIDE DEF kind
  <2> QED
    BY <1>1, <1>7, <1>8, <2>1, FeesOfRun
<1>11. PhaseOK'
  BY <1>1, <1>2, <1>3, <1>7, <1>8 DEF PhaseOK, RunEffect
<1>12. UNCHANGED <<last_completed, randomness, buffer>>
  BY <1>3
<1> HIDE DEF kind
<1> QED
  BY <1>7, <1>8, <1>9, <1>10, <1>11, <1>12, RunStep

\* Both, by a validator or as a nil block.
LEMMA BlocksStep ==
  ASSUME ChainIInv, ProposedBlock \/ NilBlock
  PROVE  StepOK
<1>1. CASE ProposedBlock
  <2>1. PICK proposer \in CurrentValidators, t \in now + 1..MaxTime,
             failed \in SUBSET DOMAIN validator_perf :
          WithinProposals(failed) /\ Blocks(proposer, failed, t)
    BY <1>1 DEF ProposedBlock
  <2>2. Proposes(proposer, t) /\ CurrentValidators # {}
    BY DEF Proposes
  <2> QED
    BY <2>1, <2>2, BlockPrologueStep, BlockPrologueExtStep DEF Blocks
<1>2. CASE NilBlock
  <2>1. PICK failed \in SUBSET DOMAIN validator_perf :
          WithinProposals(failed) /\ Blocks(NoProposer, failed, now)
    BY <1>2 DEF NilBlock
  <2>2. Proposes(NoProposer, now) /\ CurrentValidators # {}
    BY <1>2 DEF Proposes, NilBlock
  <2> QED
    BY <2>1, <2>2, BlockPrologueStep, BlockPrologueExtStep DEF Blocks
<1> QED
  BY <1>1, <1>2

\* A new burn percentage processes the fees within the epoch.
LEMMA UpgradeBurnPercentageStep ==
  ASSUME ChainIInv, NEW percentage \in BurnPercentage,
         UpgradeBurnPercentage(percentage)
  PROVE  StepOK
<1>1. IInv /\ SessionOK /\ FeesOK /\ PhaseOK
  BY ChainParts
<1>2. /\ phase = "open" /\ CurrentValidators # {}
      /\ Block(NoProposer, {}, Payee, collected - BurntFees, BurntFees, now,
               "continue")
      /\ collected' = 0 /\ fee_proposer' = NoProposer
      /\ burn_percentage' = percentage
      /\ UNCHANGED <<epoch, in_progress, last_completed, randomness, buffer,
                     phase>>
  BY DEF UpgradeBurnPercentage, dkgVars, configVars
<1>3. /\ now \in now..MaxTime /\ now \in Nat /\ now <= now /\ ~(now > now)
  BY ChainFacts
<1>4. /\ Payee \in CurrentValidators
      /\ collected - BurntFees \in Nat /\ BurntFees \in Nat
  BY <1>2, FeesSplit, PayeeIsCurrent
<1>5. "continue" \in Kinds /\ "continue" # "end" /\ WithinProposals({})
  BY DEF Kinds, WithinProposals
<1>6. SystemStep
  BY <1>2, <1>3, <1>4, <1>5, BlockIsSystemStep
<1>7. RunEffect(now, "continue")
  <2>1. BlockEffect(now, "continue")
    BY <1>2, <1>3, <1>4, <1>5, BlockHasEffect
  <2> QED
    BY <1>5, <2>1 DEF BlockEffect
<1>8. SessionOK'
  BY <1>1, <1>2, <1>3, <1>7, SessionRuns
<1>9. FeesOK'
  <2>1. collected' \in Nat /\ burn_percentage' \in BurnPercentage
    BY <1>2
  <2> QED
    BY <1>1, <1>2, <1>7, <2>1, FeesOfRun
<1>10. PhaseOK'
  BY <1>1, <1>2, <1>7 DEF PhaseOK, RunEffect
<1> QED
  BY <1>2, <1>6, <1>7, <1>8, <1>9, <1>10, RunStep

-----------------------------------------------------------------------------
(* The rest, and the theorems *)

\* Steps that only Reconfiguration sees.
LEMMA StakeUntouched ==
  ASSUME ChainIInv, UNCHANGED <<stakeVars, epoch, in_progress, randomness>>
  PROVE  /\ [Next]_stakeVars
         /\ IInv' /\ KeysArePresent' /\ SessionOK'
         /\ CurrentEntries' = CurrentEntries
         /\ CurrentValidators' = CurrentValidators
         /\ UNCHANGED <<fees_table, now, last_reconfiguration_time>>
<1>1. IInv /\ KeysArePresent /\ SessionOK
  BY ChainParts
<1>2. UNCHANGED stakeVars
  OBVIOUS
<1>3. IInv'
  BY <1>1, <1>2, StutterStep
<1>4. UNCHANGED <<active_validators, pending_inactive, pending_active, config,
                  fees_table, reconf, now, last_reconfiguration_time>>
  BY <1>2 DEF stakeVars, queueVars, clockVars
<1>5. KeysArePresent'
  BY <1>1, <1>4, EntriesStay, KeysStay DEF queueVars
<1>6. now \in Nat
  BY <1>1 DEF IInv, TypeOK
<1>7. SessionOK'
  <2>1. InProgress' <=> InProgress
    BY <1>4 DEF InProgress
  <2>2. now' \in Nat /\ now <= now'
    BY <1>4, <1>6
  <2> QED
    BY <1>1, <1>4, <2>1, <2>2, SessionStays
<1>8. CurrentEntries' = CurrentEntries /\ CurrentValidators' = CurrentValidators
  BY <1>4 DEF CurrentEntries, Entries, CurrentValidators, Members
<1> QED
  BY <1>2, <1>3, <1>4, <1>5, <1>7, <1>8

\* collect_fee.
LEMMA CollectFeeStep ==
  ASSUME ChainIInv, NEW fee \in FeeAmount, CollectFee(fee)
  PROVE  StepOK
<1>1. IInv /\ KeysArePresent /\ SessionOK /\ FeesOK /\ PhaseOK /\ ConfigOK
  BY ChainParts
<1>2. /\ phase' \in Phases /\ (phase' = "open" => phase = "open")
      /\ collected' = collected + fee
      /\ UNCHANGED <<stakeVars, epoch, in_progress, last_completed, randomness,
                     buffer, fee_proposer, burn_percentage>>
  BY DEF CollectFee, Phases, dkgVars, configVars
<1>3. /\ [Next]_stakeVars
      /\ IInv' /\ KeysArePresent' /\ SessionOK'
      /\ CurrentEntries' = CurrentEntries
      /\ CurrentValidators' = CurrentValidators
      /\ UNCHANGED <<fees_table, now, last_reconfiguration_time>>
  BY <1>2, StakeUntouched
<1>4. collected' \in Nat
  BY <1>1, <1>2, ChainAssumption DEF FeesOK
<1>5. FeesOK'
  BY <1>1, <1>2, <1>3, <1>4 DEF FeesOK, FeesReachValidators
<1>6. PhaseOK' /\ ConfigOK'
  BY <1>1, <1>2, <1>3 DEF PhaseOK, ConfigOK
<1> QED
  BY <1>2, <1>3, <1>5, <1>6, ChainPartsNext DEF StepOK

\* upsert of config_buffer, and steps that change nothing.
LEMMA BufferStep ==
  ASSUME ChainIInv, buffer' \in BOOLEAN \cup {NoConfig},
         UNCHANGED <<stakeVars, epoch, dkgVars, randomness, feeVars, phase>>
  PROVE  StepOK
<1>1. IInv /\ KeysArePresent /\ SessionOK /\ FeesOK /\ PhaseOK /\ ConfigOK
  BY ChainParts
<1>2. UNCHANGED <<stakeVars, epoch, in_progress, last_completed, randomness,
                  collected, fee_proposer, burn_percentage, phase>>
  BY DEF dkgVars, feeVars
<1>3. /\ [Next]_stakeVars
      /\ IInv' /\ KeysArePresent' /\ SessionOK'
      /\ CurrentEntries' = CurrentEntries
      /\ CurrentValidators' = CurrentValidators
      /\ UNCHANGED <<fees_table, now, last_reconfiguration_time>>
  BY <1>2, StakeUntouched
<1>4. FeesOK'
  BY <1>1, <1>2, <1>3 DEF FeesOK, FeesReachValidators
<1>5. PhaseOK' /\ ConfigOK'
  BY <1>1, <1>2, <1>3 DEF PhaseOK, ConfigOK
<1> QED
  BY <1>2, <1>3, <1>4, <1>5, ChainPartsNext DEF StepOK

\* Every step.
LEMMA ChainStep ==
  ASSUME ChainIInv, [ChainNext]_chainVars
  PROVE  StepOK
<1>1. CASE ProposedBlock \/ NilBlock
  BY <1>1, BlocksStep
<1>2. CASE UserTransaction \/ GovernanceScript
  <2>1. /\ \/ \E p \in Pool : OwnerStep(p) \/ OperatorStep(p)
           \/ GovernanceStep
        /\ UNCHANGED <<epoch, dkgVars, configVars, feeVars, phase>>
    BY <1>2 DEF UserTransaction, GovernanceScript
  <2>2. Next /\ ChainIInv' /\ CurrentEntries' = CurrentEntries
    BY <2>1, TransactionStep
  <2>3. UNCHANGED randomness
    BY <2>1 DEF configVars
  <2> QED
    BY <2>2, <2>3 DEF StepOK
<1>3. CASE \E fee \in FeeAmount : CollectFee(fee)
  BY <1>3, CollectFeeStep
<1>4. CASE \E percentage \in BurnPercentage : UpgradeBurnPercentage(percentage)
  BY <1>4, UpgradeBurnPercentageStep
<1>5. CASE GovernanceReconfigure
  BY <1>5, GovernanceReconfigureStep
<1>6. CASE ForceEndEpoch
  BY <1>6, ForceEndEpochStep
<1>7. CASE FinishWithDkgResult
  BY <1>7, FinishWithDkgResultStep
<1>8. CASE \E c \in ConfigsNow : SetConfig(c)
  BY <1>8, SetConfigStep
<1>9. CASE \E c \in ConfigsNext : SetConfigForNextEpoch(c)
  <2>1. /\ buffer' \in BOOLEAN
        /\ UNCHANGED <<stakeVars, epoch, dkgVars, randomness, feeVars, phase>>
    BY <1>9, ChainAssumption DEF SetConfigForNextEpoch
  <2> QED
    BY <2>1, BufferStep
<1>10. CASE UNCHANGED chainVars
  <2>1. UNCHANGED <<stakeVars, epoch, dkgVars, randomness, buffer, feeVars,
                    phase>>
    BY <1>10 DEF chainVars, configVars
  <2>2. buffer' \in BOOLEAN \cup {NoConfig}
    BY <2>1, ChainParts DEF ConfigOK
  <2> QED
    BY <2>1, <2>2, BufferStep
<1> QED
  BY <1>1, <1>2, <1>3, <1>4, <1>5, <1>6, <1>7, <1>8, <1>9, <1>10 DEF ChainNext

\* Genesis gives every validator a key.
LEMMA InitKeys ==
  ASSUME Init
  PROVE  KeysArePresent
<1>1. PICK key \in [GenesisPools -> Key] :
        config = [p \in Pool |->
          IF p \in GenesisPools
          THEN [consensus_pubkey |-> key[p], validator_index |-> Position(p) - 1]
          ELSE [consensus_pubkey |-> NoKey, validator_index |-> 0]]
  BY Zenon DEF Init
<1>2. /\ active_validators = [i \in 1..Len(GenesisOrder) |->
           ValidatorInfoOf(GenesisOrder[i], pools[GenesisOrder[i]],
                           config[GenesisOrder[i]])]
      /\ pending_inactive = <<>> /\ pending_active = <<>>
  BY Zenon DEF Init
<1>3. \A i \in 1..Len(GenesisOrder) :
        GenesisOrder[i] \in GenesisPools /\ GenesisOrder[i] \in Pool
  BY GenesisOrderFacts
<1>4. \A p \in GenesisPools : p \in Pool => config[p].consensus_pubkey \in Key
  BY <1>1
<1>5. \A i \in DOMAIN active_validators :
        /\ active_validators[i].config.consensus_pubkey \in Key
        /\ config[active_validators[i].addr].consensus_pubkey \in Key
  BY <1>2, <1>3, <1>4 DEF ValidatorInfoOf
<1> QED
  BY <1>2, <1>5 DEF KeysArePresent

\* The chain starts in the invariant.
LEMMA InitChainIInv ==
  ASSUME ChainInit
  PROVE  ChainIInv
<1>1. Init
  BY DEF ChainInit
<1>2. IInv /\ KeysArePresent
  BY <1>1, InitIInv, InitKeys
<1>3. /\ now = 0 /\ last_reconfiguration_time = 0
      /\ reconf = [in_progress |-> FALSE, start_time_secs |-> 0]
      /\ fees_table = [p \in Pool |-> 0]
  BY <1>1, Zenon DEF Init
<1>4. /\ epoch = 1 /\ in_progress = NoSession /\ last_completed = NoSession
      /\ randomness = RandomnessAtGenesis /\ buffer = NoConfig
      /\ collected = 0 /\ fee_proposer = NoProposer
      /\ burn_percentage \in BurnPercentage
      /\ phase = "closed"
  BY DEF ChainInit
<1>5. ~InProgress
  BY <1>3 DEF InProgress
<1>6. SessionOK
  BY <1>3, <1>4, <1>5 DEF SessionOK, SessionIsCurrent, DealersAreCurrent
<1>7. FeesOK
  BY <1>3, <1>4 DEF FeesOK, FeesReachValidators
<1>8. PhaseOK
  BY <1>3, <1>4, BoundAssumption DEF PhaseOK, Phases
<1>9. ConfigOK
  BY <1>4, ChainAssumption DEF ConfigOK
<1> QED
  BY <1>2, <1>6, <1>7, <1>8, <1>9, ChainParts

\* The invariant of the chain holds for any number of pools, any stakes,
\* epoch interval, fees and burn percentages, any randomness setting and any
\* order of blocks, DKG results and governance scripts.
THEOREM ChainInvariant == ChainSpec => []ChainIInv
<1>1. ChainInit => ChainIInv
  BY InitChainIInv
<1>2. ChainIInv /\ [ChainNext]_chainVars => ChainIInv'
  BY ChainStep DEF StepOK
<1> QED
  BY <1>1, <1>2, PTL DEF ChainSpec

\* The prologues, reconfigurations and fees of block.move and its friends do
\* nothing to stake.move that Stake does not allow: a behaviour of the chain
\* is one of Stake, step by step.
THEOREM ChainImplementsStake == ChainSpec => Spec
<1>1. ChainInit => Init
  BY DEF ChainInit
<1>2. ChainIInv /\ [ChainNext]_chainVars => [Next]_stakeVars
  BY ChainStep DEF StepOK
<1> QED
  BY <1>1, <1>2, ChainInvariant, PTL DEF ChainSpec, Spec

\* So what stake.move guarantees, it guarantees on the chain.
THEOREM ChainKeepsStakeSafe ==
  ChainSpec => []MoneyIInv /\ LockupIsRespected /\ InflationWithinRate
BY ChainImplementsStake, MoneyInvariant, LockupStaysRespected,
   InflationStaysWithinRate, PTL

\* The validator set is frozen exactly while a DKG session of the epoch runs,
\* on every path into and out of a reconfiguration.
THEOREM LockFollowsSession == ChainSpec => []LockedIffSession
BY ChainInvariant, PTL DEF ChainIInv

\* The dealers of a running session stay the validators of the epoch.
THEOREM DealersStayCurrent == ChainSpec => []DealersAreCurrent
BY ChainInvariant, PTL DEF ChainIInv

\* Fees wait only for current validators, for whom on_new_epoch looks.
THEOREM FeesStayWithValidators == ChainSpec => []FeesReachValidators
BY ChainInvariant, PTL DEF ChainIInv

\* The validators of an epoch, their keys, indices and powers, and the config in
\* force change with the epoch number only: reconfigure() never returns early
\* after something was changed.
THEOREM EpochIsFixed == ChainSpec => ChangesWithEpoch
<1>1. ChainIInv /\ [ChainNext]_chainVars
        => [EpochEntries' # EpochEntries \/ randomness' # randomness
            => epoch' = epoch + 1]_chainVars
  BY ChainStep DEF StepOK, CurrentEntries, Entries, EntriesOf, EpochEntries
<1> QED
  BY <1>1, ChainInvariant, PTL DEF ChainSpec, ChangesWithEpoch
=============================================================================
