------------------------------- MODULE Stake -------------------------------
(***************************************************************************)
(* The validator set and the stake pools: stake.move.                      *)
(*                                                                         *)
(* The EDS of every stake pool sits in one fungible store of               *)
(* @endless_framework (pool_store); a pool only keeps numbers, its         *)
(* buckets active, pending_active, pending_inactive and inactive.  Three   *)
(* queues of ValidatorInfo make up the validator set.  Owner and operator  *)
(* operations change buckets and queues during an epoch; the block         *)
(* prologue and the reconfiguration transactions (Block) score proposals,  *)
(* credit fees, open a reconfiguration and run on_new_epoch.               *)
(*                                                                         *)
(* A caller is taken to hold the owner capability, or to be the operator,  *)
(* of the pool it names.  EDS outside pool_store and the owners' wallets   *)
(* (users, fees not yet assigned, the accounts of the reward split) is     *)
(* one number, circulating.  Indices are 0-based as in the code; a         *)
(* sequence s holds index i at s[i + 1].                                   *)
(***************************************************************************)
EXTENDS Integers, Sequences, FiniteSetsExt, Totals

CONSTANTS
  Pool,             \* addresses of (possible) stake pools
  Key, NoKey,       \* consensus public keys; NoKey is the empty vector
  NoProposer,       \* @vm_reserved: the proposer of a nil block
  Amount,           \* amounts that callers name
  Configs,          \* the values governance can give StakingConfig
  GenesisSet,       \* the validators of genesis, in joining order
  GenesisStake,     \* their stake
  GenesisWallet,    \* EDS that each owner holds besides
  GenesisCirculating,
  OtherShares,      \* percents of BlockRewardShareInfo, <<>> when absent
  Inflation,        \* eds_supply_inflation_enabled()
  CollectFees,      \* collect_and_distribute_gas_fees()
  MaxSetSize,       \* MAX_VALIDATOR_SET_SIZE
  MaxRemoved,       \* bound: length of remove_validators' argument
  TicksPerSec,      \* microseconds in a second
  MaxProposals,     \* bound: failed proposals of a validator in an epoch
  MaxTime           \* bound: last tick

ASSUME PoolAssumption == IsFiniteSet(Pool) /\ NoProposer \notin Pool
ASSUME KeyAssumption == NoKey \notin Key
ASSUME AmountAssumption ==
  /\ Amount \subseteq Nat \ {0}
  /\ GenesisStake \in [Pool -> Nat]
  /\ GenesisWallet \in [Pool -> Nat]
  /\ GenesisCirculating \in Nat
ASSUME ShareAssumption ==
  /\ OtherShares \in Seq(Nat)
  /\ Total(OtherShares) < 100
ASSUME FlagAssumption == Inflation \in BOOLEAN /\ CollectFees \in BOOLEAN
ASSUME BoundAssumption ==
  /\ {MaxSetSize, MaxRemoved, MaxProposals, MaxTime} \subseteq Nat
  /\ TicksPerSec \in Nat \ {0}

StakingConfig ==
  [minimum_stake : Nat, maximum_stake : Nat,
   recurring_lockup_duration_secs : Nat \ {0},
   allow_validator_set_change : BOOLEAN,
   rewards_rate : Nat, rewards_rate_denominator : Nat \ {0},
   voting_power_increase_limit : 1..50]

ASSUME ConfigAssumption ==
  /\ Configs \subseteq StakingConfig
  /\ Configs # {}
  /\ \A c \in Configs : /\ c.minimum_stake <= c.maximum_stake
                        /\ c.rewards_rate <= c.rewards_rate_denominator

ASSUME GenesisAssumption ==
  /\ GenesisSet \in Seq(Pool)
  /\ \A i, j \in DOMAIN GenesisSet : GenesisSet[i] = GenesisSet[j] => i = j
  /\ Key # {}

VARIABLES
  registered,            \* pools that exist<StakePool>
  pools,                 \* StakePool by address
  config,                \* ValidatorConfig by address
  active_validators, pending_inactive, pending_active,
  total_voting_power, total_joining_power,
  validator_perf,        \* ValidatorPerformance.validators
  fees_table,            \* ValidatorFees; 0 for an absent entry
  staking_config,
  pool_store, wallet, circulating, supply,
  reconf,                \* reconfiguration_state::State
  last_reconfiguration_time,
  now                    \* global time in ticks

queueVars == <<active_validators, pending_inactive, pending_active>>
powerVars == <<total_voting_power, total_joining_power>>
moneyVars == <<pool_store, wallet, circulating, supply>>
clockVars == <<reconf, last_reconfiguration_time, now>>
stakeVars == <<registered, pools, config, queueVars, powerVars,
               validator_perf, fees_table, staking_config, moneyVars,
               clockVars>>

-----------------------------------------------------------------------------
(* Types *)

StakePool == [active : Nat, pending_active : Nat, pending_inactive : Nat,
              inactive : Nat, locked_until_secs : Nat]
ValidatorConfig == [consensus_pubkey : Key \cup {NoKey},
                    validator_index : Nat]
ValidatorInfo == [addr : Pool, voting_power : Nat, config : ValidatorConfig]
Performance == [successful_proposals : Nat, failed_proposals : Nat]

-----------------------------------------------------------------------------
(* Queues and pools *)

Members(q) == {q[i].addr : i \in DOMAIN q}
IndexOf(q, p) == CHOOSE i \in DOMAIN q : q[i].addr = p

\* vector::swap_remove: the last element takes the place of the removed one.
SwapRemove(q, i) ==
  [j \in 1..Len(q) - 1 |-> IF j = i THEN q[Len(q)] ELSE q[j]]

\* append of stake.move: pops from the back of v2, so v2 arrives reversed.
AppendPopped(v1, v2) ==
  [i \in 1..Len(v1) + Len(v2) |->
     IF i <= Len(v1) THEN v1[i] ELSE v2[Len(v1) + Len(v2) + 1 - i]]

NextEpochVotingPower(sp) == sp.pending_active + sp.active + sp.pending_inactive

ValidatorInfoOf(p, sp, cfg) ==
  [addr |-> p, voting_power |-> NextEpochVotingPower(sp), config |-> cfg]

CurrentValidators == Members(active_validators) \cup Members(pending_inactive)

\* Mutant: a candidate may ask to join again.
InValidatorSet_NoCandidates == CurrentValidators

InValidatorSet == CurrentValidators \cup Members(pending_active)

\* Pools whose added stake is an increase of voting power.
JoinsNextEpoch(p) ==
  p \in Members(active_validators) \cup Members(pending_active)

InProgress == reconf.in_progress
Secs(t) == t \div TicksPerSec

AtMost(a, b) == IF a <= b THEN a ELSE b

\* Mutant: the limit is checked before the amount is added.
VotingPowerIncrease_CheckedBefore(amount) ==
  /\ total_joining_power' = total_joining_power + amount
  /\ total_voting_power > 0 =>
       total_joining_power
         <= (total_voting_power * staking_config.voting_power_increase_limit)
              \div 100

\* update_voting_power_increase: what is left of it is one guard on the sum.
VotingPowerIncrease(amount) ==
  /\ total_joining_power' = total_joining_power + amount
  /\ total_voting_power > 0 =>
       total_joining_power + amount
         <= (total_voting_power * staking_config.voting_power_increase_limit)
              \div 100

-----------------------------------------------------------------------------
(* Operations of owners and operators *)

EmptyPool == [active |-> 0, pending_active |-> 0, pending_inactive |-> 0,
              inactive |-> 0, locked_until_secs |-> 0]

\* Mutant: stake counts at once.
Deposited_AtOnce(p, sp, amount) == [sp EXCEPT !.active = @ + amount]

\* add_stake_with_cap puts stake of a current validator in pending_active.
Deposited(p, sp, amount) ==
  IF p \in CurrentValidators
  THEN [sp EXCEPT !.pending_active = @ + amount]
  ELSE [sp EXCEPT !.active = @ + amount]

\* Mutant: the deposit is booked without the withdrawal.
PayIntoPool_Unpaid(p, amount) ==
  /\ amount <= wallet[p]
  /\ pool_store' = pool_store + amount
  /\ UNCHANGED wallet

\* endless_coin::withdraw from the owner, deposit_to_pool.
PayIntoPool(p, amount) ==
  /\ amount <= wallet[p]
  /\ wallet' = [wallet EXCEPT ![p] = @ - amount]
  /\ pool_store' = pool_store + amount

InitializeValidator(p, key) ==
  /\ p \notin registered
  /\ registered' = registered \cup {p}
  /\ pools' = [pools EXCEPT ![p] = EmptyPool]
  /\ config' = [config EXCEPT
       ![p] = [consensus_pubkey |-> key, validator_index |-> 0]]
  /\ UNCHANGED <<queueVars, powerVars, validator_perf, fees_table,
                 staking_config, moneyVars, clockVars>>

\* With amount 0 add_stake does nothing, not even its reconfiguration check.
InitializeStakeOwner(p, amount) ==
  /\ p \notin registered
  /\ amount > 0 => ~InProgress /\ amount <= staking_config.maximum_stake
  /\ registered' = registered \cup {p}
  /\ pools' = [pools EXCEPT ![p] = Deposited(p, EmptyPool, amount)]
  /\ config' = [config EXCEPT
       ![p] = [consensus_pubkey |-> NoKey, validator_index |-> 0]]
  /\ PayIntoPool(p, amount)
  /\ UNCHANGED <<queueVars, powerVars, validator_perf, fees_table,
                 staking_config, circulating, supply, clockVars>>

AddStake(p, amount) ==
  /\ p \in registered /\ ~InProgress /\ amount > 0
  /\ IF JoinsNextEpoch(p)
     THEN VotingPowerIncrease(amount)
     ELSE UNCHANGED total_joining_power
  /\ PayIntoPool(p, amount)
  /\ LET sp == Deposited(p, pools[p], amount) IN
       /\ pools' = [pools EXCEPT ![p] = sp]
       /\ NextEpochVotingPower(sp) <= staking_config.maximum_stake
  /\ UNCHANGED <<registered, config, queueVars, total_voting_power,
                 validator_perf, fees_table, staking_config, circulating,
                 supply, clockVars>>

Unlock(p, amount) ==
  /\ p \in registered /\ ~InProgress /\ amount > 0
  /\ LET a == AtMost(amount, pools[p].active) IN
       pools' = [pools EXCEPT ![p].active = @ - a,
                              ![p].pending_inactive = @ + a]
  /\ UNCHANGED <<registered, config, queueVars, powerVars, validator_perf,
                 fees_table, staking_config, moneyVars, clockVars>>

ReactivateStake(p, amount) ==
  /\ p \in registered /\ ~InProgress
  /\ LET a == AtMost(amount, pools[p].pending_inactive) IN
       pools' = [pools EXCEPT ![p].active = @ + a,
                              ![p].pending_inactive = @ - a]
  /\ UNCHANGED <<registered, config, queueVars, powerVars, validator_perf,
                 fees_table, staking_config, moneyVars, clockVars>>

\* Mutant: being outside the set is enough.
Released_LockedToo(p) ==
  IF p \notin InValidatorSet
  THEN [pools[p] EXCEPT !.inactive = @ + pools[p].pending_inactive,
                        !.pending_inactive = 0]
  ELSE pools[p]

\* withdraw_with_cap: a pool outside the set whose lockup has passed first
\* turns its pending_inactive stake inactive, whatever amount is asked for.
Released(p) ==
  IF p \notin InValidatorSet /\ Secs(now) >= pools[p].locked_until_secs
  THEN [pools[p] EXCEPT !.inactive = @ + pools[p].pending_inactive,
                        !.pending_inactive = 0]
  ELSE pools[p]

Withdraw(p, amount) ==
  /\ p \in registered /\ ~InProgress
  /\ LET a == AtMost(amount, Released(p).inactive) IN
       /\ pools' = [pools EXCEPT
            ![p] = [Released(p) EXCEPT !.inactive = @ - a]]
       /\ pool_store' = pool_store - a
       /\ wallet' = [wallet EXCEPT ![p] = @ + a]
  /\ UNCHANGED <<registered, config, queueVars, powerVars, validator_perf,
                 fees_table, staking_config, circulating, supply, clockVars>>

\* The one owner operation a reconfiguration in progress does not stop.
IncreaseLockup(p) ==
  /\ p \in registered
  /\ LET until == Secs(now) + staking_config.recurring_lockup_duration_secs IN
       /\ pools[p].locked_until_secs < until
       /\ pools' = [pools EXCEPT ![p].locked_until_secs = until]
  /\ UNCHANGED <<registered, config, queueVars, powerVars, validator_perf,
                 fees_table, staking_config, moneyVars, clockVars>>

RotateConsensusKey(p, key) ==
  /\ p \in registered /\ ~InProgress
  /\ config' = [config EXCEPT ![p].consensus_pubkey = key]
  /\ UNCHANGED <<registered, pools, queueVars, powerVars, validator_perf,
                 fees_table, staking_config, moneyVars, clockVars>>

JoinValidatorSet(p) ==
  /\ p \in registered /\ ~InProgress
  /\ staking_config.allow_validator_set_change
  /\ p \notin InValidatorSet
  /\ NextEpochVotingPower(pools[p]) \in
       staking_config.minimum_stake..staking_config.maximum_stake
  /\ VotingPowerIncrease(NextEpochVotingPower(pools[p]))
  /\ config[p].consensus_pubkey # NoKey
  /\ pending_active' =
       Append(pending_active, ValidatorInfoOf(p, pools[p], config[p]))
  /\ Len(active_validators) + Len(pending_active') <= MaxSetSize
  /\ UNCHANGED <<registered, pools, config, active_validators,
                 pending_inactive, total_voting_power, validator_perf,
                 fees_table, staking_config, moneyVars, clockVars>>

\* A candidate drops out at once and gives its voting power back.
LeavePendingActive(p) ==
  LET vp == NextEpochVotingPower(pools[p]) IN
    /\ p \in Members(pending_active)
    /\ pending_active' = SwapRemove(pending_active, IndexOf(pending_active, p))
    /\ total_joining_power' =
         IF total_joining_power > vp THEN total_joining_power - vp ELSE 0
    /\ UNCHANGED <<active_validators, pending_inactive>>

\* Mutant: the validator leaves at once, not with the epoch.
LeaveActive_AtOnce(p) ==
  LET i == IndexOf(active_validators, p) IN
    /\ p \notin Members(pending_active)
    /\ p \in Members(active_validators)
    /\ Len(active_validators) > 1
    /\ active_validators' = SwapRemove(active_validators, i)
    /\ UNCHANGED <<pending_inactive, pending_active, total_joining_power>>

\* An active validator, unless it is the last, leaves with the epoch.
LeaveActive(p) ==
  LET i == IndexOf(active_validators, p) IN
    /\ p \notin Members(pending_active)
    /\ p \in Members(active_validators)
    /\ Len(active_validators) > 1
    /\ active_validators' = SwapRemove(active_validators, i)
    /\ pending_inactive' = Append(pending_inactive, active_validators[i])
    /\ UNCHANGED <<pending_active, total_joining_power>>

LeaveValidatorSet(p) ==
  /\ p \in registered /\ ~InProgress
  /\ staking_config.allow_validator_set_change
  /\ LeavePendingActive(p) \/ LeaveActive(p)
  /\ UNCHANGED <<registered, pools, config, total_voting_power,
                 validator_perf, fees_table, staking_config, moneyVars,
                 clockVars>>

-----------------------------------------------------------------------------
(* Operations of governance *)

\* Mutant: governance's removal does not wait for the epoch either.
RemoveOne_AtOnce(qs, p) ==
  IF p \in Members(qs[1])
  THEN <<SwapRemove(qs[1], IndexOf(qs[1], p)), qs[2]>>
  ELSE qs

\* One round of remove_validators' loop, on the pair of queues.
RemoveOne(qs, p) ==
  IF p \in Members(qs[1])
  THEN LET i == IndexOf(qs[1], p) IN
         <<SwapRemove(qs[1], i), Append(qs[2], qs[1][i])>>
  ELSE qs

\* The loop: rounds[k] is the pair of queues after k rounds.
RemoveValidators(list) ==
  /\ ~InProgress
  /\ LET rounds[k \in 0..Len(list)] ==
           IF k = 0 THEN <<active_validators, pending_inactive>>
           ELSE RemoveOne(rounds[k - 1], list[k])
     IN /\ active_validators' = rounds[Len(list)][1]
        /\ pending_inactive' = rounds[Len(list)][2]
  /\ UNCHANGED <<registered, pools, config, pending_active, powerVars,
                 validator_perf, fees_table, staking_config, moneyVars,
                 clockVars>>

\* The update_* functions of staking_config.move; they take effect at once.
\* None of them sets allow_validator_set_change.
UpdateStakingConfig(c) ==
  /\ staking_config' = c
  /\ c # staking_config
  /\ c.allow_validator_set_change = staking_config.allow_validator_set_change
  /\ UNCHANGED <<registered, pools, config, queueVars, powerVars,
                 validator_perf, fees_table, moneyVars, clockVars>>

-----------------------------------------------------------------------------
(* on_new_epoch *)

\* calculate_rewards_amount: a zero denominator yields no reward.
RewardsAmount(stake, all_stake, perf, total_supply) ==
  LET total == perf.successful_proposals + perf.failed_proposals
      rate == staking_config.rewards_rate * perf.successful_proposals
      numerator == IF Inflation THEN total_supply * stake * rate
                                ELSE stake * rate
      denominator == staking_config.rewards_rate_denominator * total
                       * (IF Inflation THEN all_stake ELSE 1)
  IN IF denominator > 0 THEN numerator \div denominator ELSE 0

\* distribute_rewards rounds every share down, the validator's too.
OthersPercent == Total(OtherShares)
ValidatorShare(amount) == (amount * (100 - OthersPercent)) \div 100
OtherAccountsShare(amount) ==
  Total([i \in DOMAIN OtherShares |-> (amount * OtherShares[i]) \div 100])

Add(sp, reward) ==
  [sp EXCEPT !.active = @ + ValidatorShare(reward.active),
             !.pending_inactive = @ + ValidatorShare(reward.pending_inactive)]

\* Mutant: the fees taken from the table are not added to the stake.
Settle_WithoutFee(sp, fee, start) ==
  LET expired == start >= sp.locked_until_secs IN
    [sp EXCEPT
       !.active = @ + sp.pending_active,
       !.pending_active = 0,
       !.pending_inactive = IF expired THEN 0 ELSE @,
       !.inactive = IF expired THEN @ + sp.pending_inactive ELSE @]

\* update_stake_pool, after the rewards.
Settle(sp, fee, start) ==
  LET expired == start >= sp.locked_until_secs IN
    [sp EXCEPT
       !.active = @ + sp.pending_active + fee,
       !.pending_active = 0,
       !.pending_inactive = IF expired THEN 0 ELSE @,
       !.inactive = IF expired THEN @ + sp.pending_inactive ELSE @]

Renew(sp, start, secs) ==
  [sp EXCEPT !.locked_until_secs =
     IF @ <= start THEN secs + staking_config.recurring_lockup_duration_secs
                   ELSE @]

\* keep lists the positions in staying, in order.
Picks(keep, staying) ==
  /\ \A i, j \in DOMAIN keep : i < j => keep[i] < keep[j]
  /\ {keep[i] : i \in DOMAIN keep} = staying

\* Mutant: a validator that leaves earns rewards but is not counted.
TotalStake_ActiveOnly ==
  Total([p \in Members(active_validators) |->
           pools[p].active + pools[p].pending_inactive])

TotalStake ==
  Total([p \in CurrentValidators |->
           pools[p].active + pools[p].pending_inactive])

\* perf, fees, store, sup: the values when on_new_epoch is called, in the
\* transaction that scored the last proposal and processed the last fees.
OnNewEpoch(perf, fees, store, sup, circ, start, secs) ==
  LET current == CurrentValidators
      all_stake == TotalStake
      perfOf(p) == perf[config[p].validator_index + 1]
      reward == [p \in current |->
        [active |->
           RewardsAmount(pools[p].active, all_stake, perfOf(p), sup),
         pending_inactive |->
           RewardsAmount(pools[p].pending_inactive, all_stake, perfOf(p), sup)]]
      minted == Total([p \in current |-> ValidatorShare(reward[p].active)
        + ValidatorShare(reward[p].pending_inactive)])
      shared == Total([p \in current |-> OtherAccountsShare(reward[p].active)
        + OtherAccountsShare(reward[p].pending_inactive)])
      settled == [p \in Pool |->
        IF p \in current
        THEN Settle(Add(pools[p], reward[p]),
                    IF CollectFees THEN fees[p] ELSE 0, start)
        ELSE pools[p]]
      cand == AppendPopped(active_validators, pending_active)
      Stays(p) ==
        NextEpochVotingPower(settled[p]) >= staking_config.minimum_stake
  IN \E n \in 0..Len(cand) : \E keep \in [1..n -> 1..Len(cand)] :
       /\ Picks(keep, {k \in DOMAIN cand : Stays(cand[k].addr)})
       /\ LET addr(i) == cand[keep[i]].addr
              indexed == [i \in 1..n |->
                [consensus_pubkey |-> config[addr(i)].consensus_pubkey,
                 validator_index |-> i - 1]]
              next == {addr(i) : i \in 1..n}
          IN /\ active_validators' = [i \in 1..n |->
                  ValidatorInfoOf(addr(i), settled[addr(i)], indexed[i])]
             /\ config' = [p \in Pool |->
                  IF p \in next
                  THEN indexed[CHOOSE i \in 1..n : addr(i) = p]
                  ELSE config[p]]
             /\ pools' = [p \in Pool |->
                  IF p \in next THEN Renew(settled[p], start, secs)
                                ELSE settled[p]]
             /\ total_voting_power' = Total([i \in 1..n |->
                  NextEpochVotingPower(settled[addr(i)])])
             /\ validator_perf' = [i \in 1..n |->
                  [successful_proposals |-> 0, failed_proposals |-> 0]]
       /\ pending_active' = <<>>
       /\ pending_inactive' = <<>>
       /\ total_joining_power' = 0
       /\ fees_table' = [p \in Pool |->
            IF CollectFees /\ p \in current THEN 0 ELSE fees[p]]
       /\ pool_store' = store + minted
       /\ circulating' = circ + shared
       /\ supply' = sup + minted + shared

-----------------------------------------------------------------------------
(* What a system transaction (block prologue, DKG result, governance       *)
(* script, epilogue) does to the validator set                             *)

\* update_performance_statistics.
Scored(proposer, failed) ==
  [i \in DOMAIN validator_perf |->
     [successful_proposals |-> validator_perf[i].successful_proposals +
        (IF proposer # NoProposer /\ config[proposer].validator_index + 1 = i
         THEN 1 ELSE 0),
      failed_proposals |-> validator_perf[i].failed_proposals +
        (IF i \in failed THEN 1 ELSE 0)]]

\* add_transaction_fee.
Credited(payee, fee) == [fees_table EXCEPT ![payee] = @ + fee]

\* Mutant: a session starts without on_reconfig_start.
StartReconfiguration_Unmarked(secs) == UNCHANGED reconf

StartReconfiguration(secs) ==
  reconf' = IF InProgress THEN reconf
            ELSE [in_progress |-> TRUE, start_time_secs |-> secs]

\* Mutant: on_reconfig_finish is forgotten.
EndEpoch_Unfinished(perf, fees, store, sup, circ, secs) ==
  /\ OnNewEpoch(perf, fees, store, sup, circ,
       IF InProgress THEN reconf.start_time_secs ELSE secs, secs)
  /\ reconf' = IF InProgress THEN reconf
              ELSE [in_progress |-> TRUE, start_time_secs |-> secs]
  /\ last_reconfiguration_time' = now'

\* Reconfiguration's start, on_new_epoch and finish in one transaction; one
\* that is in progress already keeps its start time.
EndEpoch(perf, fees, store, sup, circ, secs) ==
  /\ OnNewEpoch(perf, fees, store, sup, circ,
       IF InProgress THEN reconf.start_time_secs ELSE secs, secs)
  /\ reconf' = [in_progress |-> FALSE, start_time_secs |-> 0]
  /\ last_reconfiguration_time' = now'

\* The kinds of outcome a system transaction can have for the epoch.
Kinds == {"continue", "start", "end"}

\* The block's time comes first, then fees, scores and the reconfiguration.
Block(proposer, failed, payee, fee, burnt, t, kind) ==
  LET perf == Scored(proposer, failed)
      fees == Credited(payee, fee)
  IN /\ fee + burnt <= circulating
     /\ now' = t
     /\ CASE kind = "end" ->
               EndEpoch(perf, fees, pool_store + fee, supply - burnt,
                        circulating - fee - burnt, Secs(t))
          [] OTHER ->
               /\ validator_perf' = perf
               /\ fees_table' = fees
               /\ pool_store' = pool_store + fee
               /\ supply' = supply - burnt
               /\ circulating' = circulating - fee - burnt
               /\ IF kind = "start" THEN StartReconfiguration(Secs(t))
                                    ELSE UNCHANGED reconf
               /\ UNCHANGED <<pools, config, queueVars, powerVars,
                              last_reconfiguration_time>>
     /\ UNCHANGED <<registered, wallet, staking_config>>

-----------------------------------------------------------------------------
(* Genesis: initialize_stake_owner, rotate_consensus_key and               *)
(* join_validator_set_internal of each validator, then on_new_epoch, which *)
(* pops the candidates from the back.                                      *)

GenesisPools == {GenesisSet[i] : i \in DOMAIN GenesisSet}
GenesisOrder == AppendPopped(<<>>, GenesisSet)
GenesisTotal == Total([p \in GenesisPools |-> GenesisStake[p]])
Position(p) == CHOOSE i \in DOMAIN GenesisOrder : GenesisOrder[i] = p

Init ==
  /\ staking_config \in Configs
  /\ \A p \in GenesisPools : GenesisStake[p] \in
       staking_config.minimum_stake..staking_config.maximum_stake
  /\ registered = GenesisPools
  /\ pools = [p \in Pool |->
       IF p \in GenesisPools
       THEN [EmptyPool EXCEPT
               !.active = GenesisStake[p],
               !.locked_until_secs =
                 staking_config.recurring_lockup_duration_secs]
       ELSE EmptyPool]
  /\ \E key \in [GenesisPools -> Key] :
       config = [p \in Pool |->
         IF p \in GenesisPools
         THEN [consensus_pubkey |-> key[p], validator_index |-> Position(p) - 1]
         ELSE [consensus_pubkey |-> NoKey, validator_index |-> 0]]
  /\ active_validators = [i \in 1..Len(GenesisOrder) |->
       ValidatorInfoOf(GenesisOrder[i], pools[GenesisOrder[i]],
                       config[GenesisOrder[i]])]
  /\ pending_inactive = <<>>
  /\ pending_active = <<>>
  /\ total_voting_power = GenesisTotal
  /\ total_joining_power = 0
  /\ validator_perf = [i \in 1..Len(GenesisOrder) |->
       [successful_proposals |-> 0, failed_proposals |-> 0]]
  /\ fees_table = [p \in Pool |-> 0]
  /\ pool_store = GenesisTotal
  /\ wallet = GenesisWallet
  /\ circulating = GenesisCirculating
  /\ supply = pool_store + Total(GenesisWallet) + GenesisCirculating
  /\ reconf = [in_progress |-> FALSE, start_time_secs |-> 0]
  /\ last_reconfiguration_time = 0
  /\ now = 0

RemovalLists == UNION {[1..n -> Pool] : n \in 1..MaxRemoved}

OwnerStep(p) ==
  \/ \E key \in Key : InitializeValidator(p, key)
  \/ \E amount \in Amount \cup {0} : InitializeStakeOwner(p, amount)
  \/ \E amount \in Amount : AddStake(p, amount)
  \/ \E amount \in Amount : Unlock(p, amount)
  \/ \E amount \in Amount : ReactivateStake(p, amount)
  \/ \E amount \in Amount \cup {0} : Withdraw(p, amount)
  \/ IncreaseLockup(p)

OperatorStep(p) ==
  \/ \E key \in Key : RotateConsensusKey(p, key)
  \/ JoinValidatorSet(p)
  \/ LeaveValidatorSet(p)

GovernanceStep ==
  \/ \E list \in RemovalLists : RemoveValidators(list)
  \/ \E c \in Configs : UpdateStakingConfig(c)

\* Successes are bounded by time, failures by MaxProposals.
WithinProposals(failed) ==
  \A i \in failed : validator_perf[i].failed_proposals < MaxProposals

\* Only a proposer's block moves time (update_global_time).
SystemStep ==
  \E proposer \in CurrentValidators \cup {NoProposer},
     failed \in SUBSET DOMAIN validator_perf,
     payee \in CurrentValidators, fee, burnt \in 0..circulating,
     t \in now..MaxTime, kind \in Kinds :
       /\ proposer # NoProposer <=> t > now
       /\ kind = "end" => t # last_reconfiguration_time
       /\ WithinProposals(failed)
       /\ Block(proposer, failed, payee, fee, burnt, t, kind)

Next ==
  \/ \E p \in Pool : OwnerStep(p) \/ OperatorStep(p)
  \/ GovernanceStep
  \/ SystemStep

Spec == Init /\ [][Next]_stakeVars

-----------------------------------------------------------------------------
(* Properties *)

\* Every variable has its type.
TypeOK ==
  /\ registered \subseteq Pool
  /\ pools \in [Pool -> StakePool]
  /\ config \in [Pool -> ValidatorConfig]
  /\ active_validators \in Seq(ValidatorInfo)
  /\ pending_inactive \in Seq(ValidatorInfo)
  /\ pending_active \in Seq(ValidatorInfo)
  /\ total_voting_power \in Nat /\ total_joining_power \in Nat
  /\ validator_perf \in Seq(Performance)
  /\ fees_table \in [Pool -> Nat]
  /\ staking_config \in Configs
  /\ pool_store \in Int
  /\ wallet \in [Pool -> Nat]
  /\ circulating \in Nat /\ supply \in Int
  /\ reconf \in [in_progress : BOOLEAN, start_time_secs : Nat]
  /\ last_reconfiguration_time \in Nat /\ now \in Nat

NoDuplicates(q) == \A i, j \in DOMAIN q : q[i].addr = q[j].addr => i = j

\* A pool stands in at most one queue and at most once, so nobody is paid
\* or counted twice at the epoch change (find_validator's callers).
QueuesDisjoint ==
  /\ NoDuplicates(active_validators)
  /\ NoDuplicates(pending_inactive)
  /\ NoDuplicates(pending_active)
  /\ Members(active_validators) \cap Members(pending_inactive) = {}
  /\ CurrentValidators \cap Members(pending_active) = {}

\* The validator indices of the current validators are a permutation of the
\* performance records, in the pool's config and in the queue entry alike,
\* however often the queues were reordered: update_stake_pool's and
\* cur_validator_consensus_infos' borrows cannot abort, and a proposal is
\* scored for the validator that made it.
IndicesMatchPerformance ==
  /\ Len(validator_perf) = Len(active_validators) + Len(pending_inactive)
  /\ \A q \in {active_validators, pending_inactive} : \A i \in DOMAIN q :
       /\ q[i].config.validator_index = config[q[i].addr].validator_index
       /\ q[i].config.validator_index < Len(validator_perf)
  /\ \A p, r \in CurrentValidators :
       config[p].validator_index = config[r].validator_index => p = r

\* Stake is counted in voting power exactly from one epoch change to the
\* next: a validator's entry shows the active and pending_inactive stake of
\* its pool, which is what get_current_epoch_voting_power returns, whatever
\* its owner does meanwhile.
VotingPowerIsSnapshot ==
  \A q \in {active_validators, pending_inactive} : \A i \in DOMAIN q :
    q[i].voting_power =
      pools[q[i].addr].active + pools[q[i].addr].pending_inactive

\* Only a current validator has pending_active stake: stake added to any
\* other pool is active at once, and what an epoch's validator queued is
\* merged before it can leave.
PendingStakeOnlyWhileValidating ==
  \A p \in Pool \ CurrentValidators : pools[p].pending_active = 0

\* Together with two facts about registered pools and the supply these are
\* inductive: every step of Next preserves them, as StakeProofs shows.  An
\* epoch change needs the indices for the performance of a validator, and a
\* supply of at least circulating for rewards that are natural numbers.
IInv ==
  /\ TypeOK
  /\ QueuesDisjoint
  /\ IndicesMatchPerformance
  /\ VotingPowerIsSnapshot
  /\ PendingStakeOnlyWhileValidating
  /\ InValidatorSet \subseteq registered
  /\ circulating <= supply

\* total_voting_power, the base of the joining limit, is the voting power of
\* the validators that started the epoch, also after some were removed.
TotalIsSumOfSnapshots ==
  total_voting_power =
    Total([i \in DOMAIN active_validators |->
             active_validators[i].voting_power])
    + Total([i \in DOMAIN pending_inactive |->
               pending_inactive[i].voting_power])

\* The store of @endless_framework holds what the pools and the fee table
\* promise, to the last coin: no sequence of deposits, rewards, fees and
\* withdrawals leaves a pool that cannot be paid.
PoolsAreBacked ==
  pool_store = Total(fees_table) +
    Total([p \in Pool |-> NextEpochVotingPower(pools[p]) + pools[p].inactive])

\* EDS is only created as reward and only destroyed as burnt fee.
SupplyIsConserved ==
  supply = pool_store + Total(wallet) + circulating

\* Voting power that the next epoch adds: candidates and added stake.
Increase ==
  Total([p \in Members(pending_active) |-> NextEpochVotingPower(pools[p])])
    + Total([p \in Members(active_validators) |-> pools[p].pending_active])

\* Joins, deposits and candidates that change their mind, in any order, never
\* make total_joining_power forget power that will join: what
\* leave_validator_set subtracts is what join_validator_set and add_stake put
\* in ("total_joining_power should be larger than validator_stake").
JoiningPowerCoversIncrease == total_joining_power >= Increase

\* So no epoch adds more than voting_power_increase_limit percent.
IncreaseWithinLimit ==
  /\ JoiningPowerCoversIncrease
  /\ total_voting_power > 0 =>
       Increase * 100
         <= total_voting_power * staking_config.voting_power_increase_limit

\* With these, the sums above are inductive too.  A pool that is registered
\* starts with nothing in it; the start of a reconfiguration, by which
\* update_stake_pool decides what is unlocked, is never in the future.
MoneyIInv ==
  /\ IInv
  /\ \A p \in Pool \ registered : pools[p] = EmptyPool
  /\ reconf.start_time_secs <= Secs(now)
  /\ TotalIsSumOfSnapshots
  /\ PoolsAreBacked
  /\ SupplyIsConserved
  /\ JoiningPowerCoversIncrease

\* A pool's next voting power only goes down when its lockup has run out:
\* unlocking, leaving the set and reconfigurations never free stake early.
LockupIsRespected ==
  [][\A p \in Pool :
       NextEpochVotingPower(pools[p])' < NextEpochVotingPower(pools[p])
         => Secs(now') >= pools[p].locked_until_secs]_stakeVars

\* One epoch mints at most rewards_rate of the supply it starts from, however
\* stake is spread over validators, leaving validators and buckets, and
\* however the shares are rounded.
InflationWithinRate ==
  [][Inflation =>
       (supply' - supply) * staking_config.rewards_rate_denominator
         <= supply * staking_config.rewards_rate]_stakeVars
=============================================================================
