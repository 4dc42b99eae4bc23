--------------------------- MODULE GovernanceProofs ---------------------------
(***************************************************************************)
(* Theorems about Governance: voting power that was used stays locked and  *)
(* backed by stake while stake moves, and what a vote decided stays        *)
(* decided.                                                                *)
(*                                                                         *)
(* Every step is a step of Stake or a transfer, so what StakeProofs   *)
(* says of lockups and of the money carries over (StakeMoves); the rest    *)
(* is said of one proposal at a time, of the one a step touches and of     *)
(* the others, for which only stake and time move.                         *)
(***************************************************************************)
EXTENDS Governance, StakeProofs

-----------------------------------------------------------------------------
(* Transfers *)

\* The totals of two functions that differ at one pool.
LEMMA TotalsDiffer ==
  ASSUME NEW f \in [Pool -> Nat], NEW g \in [Pool -> Nat], NEW p \in Pool,
         \A r \in Pool \ {p} : g[r] = f[r]
  PROVE  /\ Total(g) = Total(f) + (g[p] - f[p])
         /\ Total(f) \in Nat /\ Total(g) \in Nat
<1>1. g = [f EXCEPT ![p] = g[p]] /\ g[p] \in Nat
  OBVIOUS
<1>2. \A v \in Nat : \A k : k = [f EXCEPT ![p] = v] =>
        /\ Total(k) = Total(f) + (v - f[p])
        /\ Total(f) \in Nat /\ Total(k) \in Nat
  <2>1. f \in [Pool -> Nat] /\ p \in Pool
    OBVIOUS
  <2> QED
    BY ONLY <2>1, ChangedTotal
<1> QED
  BY <1>1, <1>2, Zenon

\* What one wallet loses the other has.
LEMMA TransferTotal ==
  ASSUME NEW f \in [Pool -> Nat], NEW g \in [Pool -> Nat],
         NEW p \in Pool, NEW q \in Pool, p # q,
         NEW a \in Nat, g[p] = f[p] - a, g[q] = f[q] + a,
         \A r \in Pool \ {p, q} : g[r] = f[r]
  PROVE  Total(g) = Total(f)
<1> DEFINE h == [f EXCEPT ![p] = g[p]]
<1>1. /\ h \in [Pool -> Nat] /\ h[p] = g[p] /\ h[q] = f[q]
      /\ \A r \in Pool \ {p} : h[r] = f[r]
      /\ \A r \in Pool \ {q} : g[r] = h[r]
  OBVIOUS
<1> HIDE DEF h
<1>2. Total(h) = Total(f) + (h[p] - f[p]) /\ Total(f) \in Nat
  BY <1>1, TotalsDiffer
<1>3. Total(g) = Total(h) + (g[q] - h[q])
  BY <1>1, TotalsDiffer
<1>4. f[p] \in Nat /\ f[q] \in Nat
  OBVIOUS
<1> HIDE DEF Total
<1> QED
  BY <1>1, <1>2, <1>3, <1>4

\* A transfer changes nothing that stake.move keeps.
LEMMA TransferStep ==
  ASSUME MoneyIInv, NEW p \in Pool, NEW q \in Pool,
         NEW amount \in TransferAmount, Transfer(p, q, amount)
  PROVE  MoneyIInv'
<1>1. /\ IInv
      /\ total_voting_power = TotalStake
      /\ total_joining_power >= Total(JoiningOf)
      /\ pool_store = Total(fees_table) + Total(HoldingsOf)
      /\ supply = pool_store + Total(wallet) + circulating
      /\ \A r \in Pool \ registered : pools[r] = EmptyPool
      /\ reconf.start_time_secs <= Secs(now)
  BY MoneyFacts
<1>2. /\ UNCHANGED <<registered, pools, config, queueVars, powerVars,
                     validator_perf, fees_table, staking_config, pool_store,
                     circulating, supply, clockVars>>
      /\ wallet' = [wallet EXCEPT ![p] = @ - amount, ![q] = @ + amount]
      /\ p # q /\ amount <= wallet[p]
  BY DEF Transfer
<1>3. wallet \in [Pool -> Nat] /\ amount \in Nat
  BY <1>1, GovernanceAssumption DEF IInv, TypeOK
<1>4. wallet' \in [Pool -> Nat] /\ Total(wallet') = Total(wallet)
  <2>1. /\ wallet' \in [Pool -> Nat]
        /\ wallet'[p] = wallet[p] - amount /\ wallet'[q] = wallet[q] + amount
        /\ \A r \in Pool \ {p, q} : wallet'[r] = wallet[r]
    BY <1>2, <1>3
  <2> QED
    BY <1>2, <1>3, <2>1, TransferTotal, ZenonT(40)
<1>5. TypeOK'
  BY <1>1, <1>2, <1>4 DEF IInv, TypeOK, queueVars, powerVars, clockVars
<1>6. /\ QueuesDisjoint' /\ IndicesMatchPerformance'
      /\ VotingPowerIsSnapshot' /\ PendingStakeOnlyWhileValidating'
      /\ (InValidatorSet \subseteq registered)'
  BY <1>1, <1>2, SeparateNow, SetStep DEF SameEntries, queueVars
<1>7. (circulating <= supply)'
  BY <1>1, <1>2 DEF IInv
<1>8. IInv'
  BY <1>5, <1>6, <1>7 DEF IInv
<1>9. /\ active_validators' = active_validators
      /\ pending_inactive' = pending_inactive
      /\ pending_active' = pending_active /\ pools' = pools
      /\ total_joining_power' = total_joining_power
      /\ total_voting_power' = total_voting_power
      /\ fees_table' = fees_table /\ pool_store' = pool_store
      /\ circulating' = circulating /\ supply' = supply
      /\ reconf' = reconf /\ now' = now /\ registered' = registered
  BY <1>2 DEF queueVars, powerVars, clockVars
<1>10. /\ JoiningOf' = JoiningOf /\ HoldingsOf' = HoldingsOf
       /\ TotalStake' = TotalStake
  BY <1>9, Zenon DEF JoiningOf, Joining, HoldingsOf, Holdings, TotalStake,
                     CurrentValidators
<1>11. /\ (total_voting_power = TotalStake)'
       /\ (total_joining_power >= Total(JoiningOf))'
       /\ (pool_store = Total(fees_table) + Total(HoldingsOf))'
       /\ (supply = pool_store + Total(wallet) + circulating)'
  BY <1>1, <1>4, <1>9, <1>10, Zenon
<1>12. /\ \A r \in Pool \ registered' : pools'[r] = EmptyPool
       /\ (reconf.start_time_secs <= Secs(now))'
  BY <1>1, <1>9, Zenon
<1> QED
  BY <1>8, <1>11, <1>12, NextMoney

-----------------------------------------------------------------------------
(* How stake moves under the ballots *)

\* All that the ballots depend on: time goes on, lockups only grow, and
\* voting power goes down only when its lockup has run out.
StakeMoves ==
  /\ MoneyIInv /\ MoneyIInv'
  /\ now <= now'
  /\ \A p \in Pool :
       /\ pools'[p].locked_until_secs >= pools[p].locked_until_secs
       /\ NextEpochVotingPower(pools'[p]) < NextEpochVotingPower(pools[p])
            => Secs(now') >= pools[p].locked_until_secs
  /\ staking_config'.allow_validator_set_change
       = staking_config.allow_validator_set_change

\* Time never goes back, and no step changes whether the set can change.
LEMMA ClockAndFlag ==
  ASSUME IInv, [Next]_stakeVars
  PROVE  /\ now <= now'
         /\ staking_config'.allow_validator_set_change
              = staking_config.allow_validator_set_change
<1> DEFINE Q == /\ now <= now'
                /\ staking_config'.allow_validator_set_change
                     = staking_config.allow_validator_set_change
<1>0. now \in Nat
  BY DEF IInv, TypeOK
<1>1. now' = now /\ staking_config' = staking_config => Q
  BY <1>0
<1>2. ASSUME NEW p \in Pool, OwnerStep(p) PROVE Q
  BY <1>1, <1>2 DEF OwnerStep, InitializeValidator, InitializeStakeOwner,
     AddStake, Unlock, ReactivateStake, Withdraw, IncreaseLockup, clockVars
<1>3. ASSUME NEW p \in Pool, OperatorStep(p) PROVE Q
  BY <1>1, <1>3 DEF OperatorStep, RotateConsensusKey, JoinValidatorSet,
     LeaveValidatorSet, clockVars
<1>4. CASE GovernanceStep
  BY <1>0, <1>4 DEF GovernanceStep, RemoveValidators, UpdateStakingConfig,
     clockVars
<1>5. CASE SystemStep
  <2>1. \E t \in Nat : now' = t /\ now <= t /\ staking_config' = staking_config
    BY <1>5, SystemStepCases
  <2> QED
    BY <2>1
<1>6. CASE UNCHANGED stakeVars
  BY <1>1, <1>6 DEF stakeVars, clockVars
<1> QED
  BY <1>2, <1>3, <1>4, <1>5, <1>6 DEF Next

\* Steps of Stake move stake in this way.
LEMMA StakeStepMoves ==
  ASSUME MoneyIInv, [Next]_stakeVars
  PROVE  StakeMoves
<1>1. MoneyIInv'
  BY NextMoneyIInv
<1>2. IInv
  BY DEF MoneyIInv
<1>3. /\ now <= now'
      /\ staking_config'.allow_validator_set_change
           = staking_config.allow_validator_set_change
  BY <1>2, ClockAndFlag
<1>4. ASSUME NEW p \in Pool
      PROVE  /\ pools'[p].locked_until_secs >= pools[p].locked_until_secs
             /\ NextEpochVotingPower(pools'[p]) < NextEpochVotingPower(pools[p])
                  => Secs(now') >= pools[p].locked_until_secs
  BY PoolsKeepLockups
<1> QED
  BY <1>1, <1>3, <1>4, Zenon DEF StakeMoves

\* Transfers too.
LEMMA TransferMoves ==
  ASSUME MoneyIInv, NEW p \in Pool, NEW q \in Pool,
         NEW amount \in TransferAmount, Transfer(p, q, amount)
  PROVE  StakeMoves
<1>1. MoneyIInv'
  BY TransferStep
<1>2. pools' = pools /\ now' = now /\ staking_config' = staking_config
  BY DEF Transfer, clockVars
<1>3. now \in Nat /\ pools \in [Pool -> StakePool]
  BY DEF MoneyIInv, IInv, TypeOK
<1>4. ASSUME NEW r \in Pool
      PROVE  /\ pools[r].locked_until_secs \in Nat
             /\ NextEpochVotingPower(pools[r]) \in Nat
  BY <1>3, NextEpochVotingPowerType DEF StakePool
<1>5. now <= now'
  BY <1>2, <1>3
<1>6. \A r \in Pool :
        /\ pools'[r].locked_until_secs >= pools[r].locked_until_secs
        /\ NextEpochVotingPower(pools'[r]) < NextEpochVotingPower(pools[r])
             => Secs(now') >= pools[r].locked_until_secs
  BY <1>2, <1>4
<1> QED
  BY <1>1, <1>2, <1>5, <1>6, Zenon DEF StakeMoves

-----------------------------------------------------------------------------
(* A proposal whose votes a step leaves alone *)

\* Neither the votes on id change nor what decides about them.
VotesStand(id) ==
  /\ proposals[id] \in Proposal /\ proposals'[id] \in Proposal
  /\ proposals'[id].yes_votes = proposals[id].yes_votes
  /\ proposals'[id].no_votes = proposals[id].no_votes
  /\ proposals'[id].expiration_secs = proposals[id].expiration_secs
  /\ proposals'[id].min_vote_threshold = proposals[id].min_vote_threshold
  /\ proposals'[id].early_resolution_vote_threshold
       = proposals[id].early_resolution_vote_threshold
  /\ \A p \in Pool :
       /\ <<p, id>> \in entirely_voted' <=> <<p, id>> \in entirely_voted
       /\ used[<<p, id>>] \in Nat /\ used'[<<p, id>>] = used[<<p, id>>]

\* The numbers that StakeMoves compares.
LEMMA MoveFacts ==
  ASSUME StakeMoves
  PROVE  /\ now \in Nat /\ now' \in Nat
         /\ Secs(now) \in Nat /\ Secs(now') \in Nat /\ Secs(now) <= Secs(now')
         /\ staking_config.allow_validator_set_change \in BOOLEAN
         /\ staking_config'.allow_validator_set_change
              = staking_config.allow_validator_set_change
         /\ \A p \in Pool :
              /\ pools[p].locked_until_secs \in Nat
              /\ pools'[p].locked_until_secs \in Nat
              /\ NextEpochVotingPower(pools[p]) \in Nat
              /\ NextEpochVotingPower(pools'[p]) \in Nat
              /\ pools'[p].locked_until_secs >= pools[p].locked_until_secs
              /\ NextEpochVotingPower(pools'[p]) < NextEpochVotingPower(pools[p])
                   => Secs(now') >= pools[p].locked_until_secs
<1>1. /\ now <= now'
      /\ staking_config'.allow_validator_set_change
           = staking_config.allow_validator_set_change
      /\ \A p \in Pool :
           /\ pools'[p].locked_until_secs >= pools[p].locked_until_secs
           /\ NextEpochVotingPower(pools'[p]) < NextEpochVotingPower(pools[p])
                => Secs(now') >= pools[p].locked_until_secs
  BY DEF StakeMoves
<1>2. /\ now \in Nat /\ pools \in [Pool -> StakePool]
      /\ staking_config \in Configs
  BY DEF StakeMoves, MoneyIInv, IInv, TypeOK
<1>3. now' \in Nat /\ pools' \in [Pool -> StakePool]
  BY DEF StakeMoves, MoneyIInv, IInv, TypeOK
<1>4. Secs(now) \in Nat /\ Secs(now') \in Nat /\ Secs(now) <= Secs(now')
  BY <1>1, <1>2, <1>3, SecsType, SecsMono
<1>5. staking_config.allow_validator_set_change \in BOOLEAN
  BY <1>2, ConfigAssumption DEF StakingConfig
<1>6. ASSUME NEW p \in Pool
      PROVE  /\ pools[p].locked_until_secs \in Nat
             /\ pools'[p].locked_until_secs \in Nat
             /\ NextEpochVotingPower(pools[p]) \in Nat
             /\ NextEpochVotingPower(pools'[p]) \in Nat
  <2>1. pools[p] \in StakePool /\ pools'[p] \in StakePool
    BY <1>2, <1>3
  <2> QED
    BY <2>1, NextEpochVotingPowerType DEF StakePool
<1> QED
  BY <1>1, <1>2, <1>3, <1>4, <1>5, <1>6, Zenon

\* Lockups only grow, so voters stay locked.
LEMMA LockedStays ==
  ASSUME StakeMoves, NEW id, VotesStand(id), VotersLocked(id)
  PROVE  VotersLocked(id)'
<1> SUFFICES ASSUME NEW p \in Pool, HasVoted(p, id)'
             PROVE  pools'[p].locked_until_secs >= proposals'[id].expiration_secs
  BY DEF VotersLocked
<1>1. HasVoted(p, id)
  BY DEF HasVoted, VotesStand
<1>2. pools[p].locked_until_secs >= proposals[id].expiration_secs
  BY <1>1 DEF VotersLocked
<1>3. /\ pools[p].locked_until_secs \in Nat /\ pools'[p].locked_until_secs \in Nat
      /\ pools'[p].locked_until_secs >= pools[p].locked_until_secs
  BY MoveFacts
<1>4. /\ proposals[id].expiration_secs \in Nat
      /\ proposals'[id].expiration_secs = proposals[id].expiration_secs
  BY DEF VotesStand, Proposal
<1> QED
  BY <1>2, <1>3, <1>4

\* What a voter can fall back on is a number of EDS.
LEMMA BackingType ==
  ASSUME NEW id, \A p \in Pool : /\ used[<<p, id>>] \in Nat
                                 /\ NextEpochVotingPower(pools[p]) \in Nat
  PROVE  Backing(id) \in [Pool -> Nat]
BY DEF Backing

\* Until the proposal expires, no voter's stake can leave its pool, so all
\* that stands behind its votes stays there.
LEMMA StakeStays ==
  ASSUME StakeMoves, NEW id, VotesStand(id), VotersLocked(id),
         VotesHaveStake(id)
  PROVE  VotesHaveStake(id)'
<1> DEFINE exp == proposals[id].expiration_secs
           votes == proposals[id].yes_votes + proposals[id].no_votes
           b == Backing(id)
           c == Backing(id)'
<1>1. /\ exp \in Nat /\ votes \in Nat
      /\ proposals'[id].expiration_secs = exp
      /\ proposals'[id].yes_votes + proposals'[id].no_votes = votes
  BY DEF VotesStand, Proposal
<1> SUFFICES ASSUME (staking_config.allow_validator_set_change)',
                    Secs(now') < exp
             PROVE  /\ votes <= Total(c)
                    /\ \A p \in Pool :
                         used'[<<p, id>>] <= NextEpochVotingPower(pools'[p])
  BY <1>1 DEF VotesHaveStake
<1>2. /\ staking_config.allow_validator_set_change /\ Secs(now) < exp
      /\ Secs(now') \in Nat
  <2>1. staking_config.allow_validator_set_change
    BY MoveFacts, Zenon
  <2>2. Secs(now) <= Secs(now') /\ Secs(now) \in Nat /\ Secs(now') \in Nat
    BY MoveFacts
  <2>3. Secs(now') < exp
    OBVIOUS
  <2> HIDE DEF exp
  <2> QED
    BY <1>1, <2>1, <2>2, <2>3
<1>3. /\ votes <= Total(b)
      /\ \A p \in Pool : used[<<p, id>>] <= NextEpochVotingPower(pools[p])
  BY <1>2 DEF VotesHaveStake
<1>4. \A p \in Pool :
        /\ used[<<p, id>>] \in Nat /\ used'[<<p, id>>] = used[<<p, id>>]
        /\ <<p, id>> \in entirely_voted' <=> <<p, id>> \in entirely_voted
  BY DEF VotesStand
<1>5. \A p \in Pool : /\ NextEpochVotingPower(pools[p]) \in Nat
                      /\ NextEpochVotingPower(pools'[p]) \in Nat
  BY MoveFacts
<1>6. ASSUME NEW p \in Pool, HasVoted(p, id)
      PROVE  NextEpochVotingPower(pools'[p]) >= NextEpochVotingPower(pools[p])
  <2>1. pools[p].locked_until_secs >= exp /\ pools[p].locked_until_secs \in Nat
    BY <1>6, MoveFacts DEF VotersLocked
  <2>2. ~ (Secs(now') >= pools[p].locked_until_secs)
    BY <1>1, <1>2, <2>1
  <2> QED
    BY <1>5, <2>2, MoveFacts
<1>7. \A p \in Pool :
        /\ used'[<<p, id>>] <= NextEpochVotingPower(pools'[p])
        /\ b[p] <= c[p]
  <2> SUFFICES ASSUME NEW p \in Pool
               PROVE  /\ used'[<<p, id>>] <= NextEpochVotingPower(pools'[p])
                      /\ b[p] <= c[p]
    OBVIOUS
  <2>1. /\ b[p] = (IF <<p, id>> \in entirely_voted
                   THEN NextEpochVotingPower(pools[p]) ELSE 0) + used[<<p, id>>]
        /\ c[p] = (IF <<p, id>> \in entirely_voted'
                   THEN NextEpochVotingPower(pools'[p]) ELSE 0) + used'[<<p, id>>]
    BY DEF Backing
  <2>2. CASE HasVoted(p, id)
    BY <1>3, <1>4, <1>5, <1>6, <2>1, <2>2
  <2>3. CASE ~HasVoted(p, id)
    BY <1>4, <1>5, <2>1, <2>3 DEF HasVoted
  <2> QED
    BY <2>2, <2>3
<1>8. b \in [Pool -> Nat]
  BY <1>4, <1>5, BackingType
<1>9. c \in [Pool -> Nat]
  BY <1>4, <1>5 DEF Backing
<1> HIDE DEF b, c
<1>10. Total(b) <= Total(c)
  <2>1. b \in [Pool -> Int] /\ c \in [Pool -> Int]
    BY <1>8, <1>9
  <2>2. \A p \in Pool : b[p] <= c[p]
    BY <1>7, Zenon
  <2> QED
    BY <2>1, <2>2, PoolAssumption, TotalMono
<1>11. Total(b) \in Nat /\ Total(c) \in Nat
  BY <1>8, <1>9, PoolAssumption, TotalNat
<1> HIDE DEF votes, exp, Total
<1> QED
  BY <1>1, <1>3, <1>7, <1>10, <1>11

\* Time does not make a proposal less resolvable.
LEMMA ResolvableLater ==
  ASSUME NEW pr \in Proposal, NEW s \in Nat, NEW t \in Nat, s <= t,
         NEW script, Resolvable(pr, s, script)
  PROVE  Resolvable(pr, t, script)
<1>1. /\ pr.resolvable_time \in Nat /\ s > pr.resolvable_time
      /\ pr.expiration_secs \in Nat
  BY DEF Resolvable, Proposal
<1>2. t > pr.resolvable_time
  BY <1>1
<1>3. IsVotingPeriodOver(pr, s) => IsVotingPeriodOver(pr, t)
  BY <1>1 DEF IsVotingPeriodOver
<1> QED
  BY <1>2, <1>3 DEF Resolvable, Succeeded, IsVotingClosed

\* A success before the expiration is one by the early threshold: it is the
\* votes for the proposal that reached it, as they are more than those against.
LEMMA EarlySuccess ==
  ASSUME NEW pr \in Proposal, NEW secs \in Nat, secs < pr.expiration_secs,
         Succeeded(pr, secs)
  PROVE  /\ pr.early_resolution_vote_threshold # NoThreshold
         /\ pr.yes_votes >= pr.early_resolution_vote_threshold
         /\ pr.yes_votes + pr.no_votes >= pr.min_vote_threshold
<1>1. /\ pr.yes_votes \in Nat /\ pr.no_votes \in Nat
      /\ pr.expiration_secs \in Nat
      /\ pr.early_resolution_vote_threshold \in Nat \cup {NoThreshold}
  BY DEF Proposal
<1>2. /\ pr.yes_votes > pr.no_votes
      /\ pr.yes_votes + pr.no_votes >= pr.min_vote_threshold
      /\ IsVotingClosed(pr, secs)
  BY DEF Succeeded
<1>3. CanBeResolvedEarly(pr)
  BY <1>1, <1>2 DEF IsVotingClosed, IsVotingPeriodOver
<1>4. /\ pr.early_resolution_vote_threshold \in Nat
      /\ pr.early_resolution_vote_threshold # NoThreshold
      /\ \/ pr.yes_votes >= pr.early_resolution_vote_threshold
         \/ pr.no_votes >= pr.early_resolution_vote_threshold
  BY <1>1, <1>3 DEF CanBeResolvedEarly
<1> QED
  BY <1>1, <1>2, <1>4

\* An approval that stays, or is given to a proposal that has succeeded, is
\* that of a decided proposal.
LEMMA ApprovalStands ==
  ASSUME StakeMoves, NEW id, VotesStand(id), ApprovedIsDecided(id),
         \/ approved'[id] = approved[id] \/ approved'[id] = NoHash
         \/ Succeeded(proposals[id], Secs(now))
  PROVE  ApprovedIsDecided(id)'
<1> DEFINE pr == proposals[id]
<1>1. /\ pr \in Proposal /\ pr.expiration_secs \in Nat
      /\ proposals'[id].yes_votes = pr.yes_votes
      /\ proposals'[id].no_votes = pr.no_votes
      /\ proposals'[id].expiration_secs = pr.expiration_secs
      /\ proposals'[id].min_vote_threshold = pr.min_vote_threshold
      /\ proposals'[id].early_resolution_vote_threshold
           = pr.early_resolution_vote_threshold
  BY DEF VotesStand, Proposal
<1> SUFFICES ASSUME approved'[id] # NoHash, Secs(now') < pr.expiration_secs
             PROVE  /\ pr.early_resolution_vote_threshold # NoThreshold
                    /\ pr.yes_votes >= pr.early_resolution_vote_threshold
                    /\ pr.yes_votes + pr.no_votes >= pr.min_vote_threshold
  BY <1>1 DEF ApprovedIsDecided
<1>2. Secs(now) \in Nat /\ Secs(now) < pr.expiration_secs
  <2>1. Secs(now) <= Secs(now') /\ Secs(now) \in Nat /\ Secs(now') \in Nat
    BY MoveFacts
  <2> QED
    BY <1>1, <2>1
<1>3. CASE Succeeded(pr, Secs(now))
  BY <1>1, <1>2, <1>3, EarlySuccess
<1>4. CASE approved'[id] = approved[id]
  BY <1>2, <1>4 DEF ApprovedIsDecided
<1> QED
  BY <1>3, <1>4

\* So a step that leaves the votes alone preserves what is said of id.
LEMMA BallotStands ==
  ASSUME StakeMoves, NEW id, BallotOK(id), VotesStand(id), StepsCanGoOn(id)',
         \/ approved'[id] = approved[id] \/ approved'[id] = NoHash
         \/ Succeeded(proposals[id], Secs(now))
  PROVE  BallotOK(id)'
<1>1. /\ VotersLocked(id) /\ VotesHaveStake(id) /\ ApprovedIsDecided(id)
  BY DEF BallotOK
<1>2. VotersLocked(id)' /\ VotesHaveStake(id)' /\ ApprovedIsDecided(id)'
  BY <1>1, LockedStays, StakeStays, ApprovalStands
<1> QED
  BY <1>2, Zenon DEF BallotOK

\* For a proposal that is not touched, time passes.
LEMMA UntouchedCanGoOn ==
  ASSUME StakeMoves, NEW id, StepsCanGoOn(id), proposals[id] \in Proposal,
         proposals'[id] = proposals[id]
  PROVE  StepsCanGoOn(id)'
<1> DEFINE pr == proposals[id]
<1>1. Secs(now) \in Nat /\ Secs(now') \in Nat /\ Secs(now) <= Secs(now')
  BY MoveFacts
<1>2. Resolvable(pr, Secs(now), pr.execution_hash)
        => Resolvable(pr, Secs(now'), pr.execution_hash)
  <2> HIDE DEF pr
  <2>1. pr \in Proposal
    BY DEF pr
  <2> QED
    BY <1>1, <2>1, ResolvableLater
<1>3. pr.in_execution =>
        pr.multi_step /\ Resolvable(pr, Secs(now), pr.execution_hash)
  BY Zenon DEF StepsCanGoOn
<1>4. pr.in_execution =>
        pr.multi_step /\ Resolvable(pr, Secs(now'), pr.execution_hash)
  BY <1>2, <1>3, Zenon
<1> QED
  BY <1>4, Zenon DEF StepsCanGoOn

\* A proposal that a step neither votes on nor resolves.
LEMMA UntouchedBallot ==
  ASSUME StakeMoves, NEW id, BallotOK(id), proposals[id] \in Proposal,
         proposals'[id] = proposals[id],
         \A p \in Pool :
           /\ <<p, id>> \in entirely_voted' <=> <<p, id>> \in entirely_voted
           /\ used[<<p, id>>] \in Nat /\ used'[<<p, id>>] = used[<<p, id>>],
         \/ approved'[id] = approved[id] \/ approved'[id] = NoHash
         \/ Succeeded(proposals[id], Secs(now))
  PROVE  BallotOK(id)'
<1>1. VotesStand(id)
  BY Zenon DEF VotesStand
<1>2. StepsCanGoOn(id)
  BY DEF BallotOK
<1>3. StepsCanGoOn(id)'
  BY <1>2, UntouchedCanGoOn
<1> QED
  BY <1>1, <1>3, BallotStands

-----------------------------------------------------------------------------
(* Steps that do not vote *)

\* What GovernanceIInv says of one state.
LEMMA BallotFacts ==
  ASSUME GovernanceIInv
  PROVE  /\ MoneyIInv /\ IInv
         /\ proposals \in Seq(Proposal) /\ Len(proposals) \in Nat
         /\ Len(proposals) <= MaxBallots /\ MaxBallots \in Nat
         /\ DOMAIN proposals = 1..Len(proposals)
         /\ DOMAIN proposals \subseteq Ballots
         /\ governance_config \in GovernanceConfigs
         /\ entirely_voted \subseteq Pool \X Ballots
         /\ used \in [Pool \X Ballots -> Nat]
         /\ approved \in [Ballots -> Hash \cup {NoHash}]
         /\ partial \in PartialVoting
         /\ \A id \in Ballots \ DOMAIN proposals : FreshBallot(id)
         /\ \A id \in DOMAIN proposals :
              /\ BallotOK(id) /\ proposals[id] \in Proposal
              /\ \A p \in Pool : used[<<p, id>>] \in Nat
<1>1. MoneyIInv /\ GovernanceTypeOK
  BY DEF GovernanceIInv
<1>2. IInv
  BY <1>1 DEF MoneyIInv
<1>3. /\ proposals \in Seq(Proposal) /\ Len(proposals) <= MaxBallots
      /\ governance_config \in GovernanceConfigs
      /\ entirely_voted \subseteq Pool \X Ballots
      /\ used \in [Pool \X Ballots -> Nat]
      /\ approved \in [Ballots -> Hash \cup {NoHash}]
      /\ partial \in PartialVoting
  BY <1>1 DEF GovernanceTypeOK
<1>4. /\ Len(proposals) \in Nat /\ MaxBallots \in Nat
      /\ DOMAIN proposals = 1..Len(proposals)
  BY <1>3, LenProperties, GovernanceAssumption
<1>5. DOMAIN proposals \subseteq Ballots
  BY <1>3, <1>4 DEF Ballots
<1>6. ASSUME NEW id \in DOMAIN proposals
      PROVE  /\ BallotOK(id) /\ proposals[id] \in Proposal
             /\ \A p \in Pool : used[<<p, id>>] \in Nat
  <2>1. proposals[id] \in Proposal
    BY <1>3, <1>4, ElementOfSeq
  <2> QED
    BY <1>3, <1>5, <2>1 DEF GovernanceIInv
<1>7. \A id \in Ballots \ DOMAIN proposals : FreshBallot(id)
  BY Zenon DEF GovernanceIInv
<1> QED
  BY <1>1, <1>2, <1>3, <1>4, <1>5, <1>6, <1>7, Zenon

\* What a step may do to the settings.
SettingsMove ==
  /\ governance_config' \in GovernanceConfigs
  /\ partial' \in PartialVoting

\* A step that changes at most one proposal, without a vote on it.
LEMMA NoVoteStep ==
  ASSUME GovernanceIInv, StakeMoves, SettingsMove,
         UNCHANGED <<entirely_voted, used>>,
         NEW id \in DOMAIN proposals, NEW pr \in Proposal,
         proposals' = [proposals EXCEPT ![id] = pr],
         approved' \in [Ballots -> Hash \cup {NoHash}],
         \A i \in Ballots : i # id => approved'[i] = approved[i],
         \/ approved'[id] = approved[id] \/ approved'[id] = NoHash
         \/ Succeeded(proposals[id], Secs(now)),
         VotesStand(id), StepsCanGoOn(id)'
  PROVE  GovernanceIInv'
<1>1. /\ proposals \in Seq(Proposal) /\ Len(proposals) \in Nat
      /\ Len(proposals) <= MaxBallots
      /\ DOMAIN proposals = 1..Len(proposals)
      /\ DOMAIN proposals \subseteq Ballots
      /\ entirely_voted \subseteq Pool \X Ballots
      /\ used \in [Pool \X Ballots -> Nat]
      /\ \A i \in Ballots \ DOMAIN proposals : FreshBallot(i)
      /\ \A i \in DOMAIN proposals :
           /\ BallotOK(i) /\ proposals[i] \in Proposal
           /\ \A p \in Pool : used[<<p, i>>] \in Nat
  BY BallotFacts
<1>2. /\ entirely_voted' = entirely_voted /\ used' = used
      /\ governance_config' \in GovernanceConfigs
      /\ partial' \in PartialVoting
  BY DEF SettingsMove
<1>3. /\ proposals' \in Seq(Proposal) /\ Len(proposals') = Len(proposals)
      /\ DOMAIN proposals' = DOMAIN proposals
      /\ \A i \in DOMAIN proposals : i # id => proposals'[i] = proposals[i]
  <2>1. proposals \in [1..Len(proposals) -> Proposal]
    BY <1>1, LenProperties
  <2>2. /\ proposals' \in [1..Len(proposals) -> Proposal]
        /\ \A i \in DOMAIN proposals : i # id => proposals'[i] = proposals[i]
    BY <1>1, <2>1
  <2> QED
    BY <1>1, <2>2, SeqOfLength
<1>4. GovernanceTypeOK'
  BY <1>1, <1>2, <1>3 DEF GovernanceTypeOK
<1>6. ASSUME NEW i \in Ballots \ DOMAIN proposals' PROVE FreshBallot(i)'
  <2>1. FreshBallot(i) /\ i # id /\ approved'[i] = approved[i]
    BY <1>1, <1>3
  <2> QED
    BY <1>2, <2>1 DEF FreshBallot, HasVoted
<1>7. ASSUME NEW i \in DOMAIN proposals' PROVE BallotOK(i)'
  <2>1. /\ i \in DOMAIN proposals /\ BallotOK(i) /\ proposals[i] \in Proposal
        /\ \A p \in Pool : used[<<p, i>>] \in Nat
    BY <1>1, <1>3
  <2>2. CASE i = id
    BY <2>1, <2>2, BallotStands
  <2>3. CASE i # id
    <3>1. proposals'[i] = proposals[i] /\ approved'[i] = approved[i]
      BY <1>1, <1>3, <2>1, <2>3
    <3>2. \A p \in Pool :
            /\ <<p, i>> \in entirely_voted' <=> <<p, i>> \in entirely_voted
            /\ used[<<p, i>>] \in Nat /\ used'[<<p, i>>] = used[<<p, i>>]
      BY <1>2, <2>1
    <3> QED
      BY <2>1, <3>1, <3>2, UntouchedBallot
  <2> QED
    BY <2>2, <2>3
<1>8. MoneyIInv'
  BY DEF StakeMoves
<1> QED
  BY <1>4, <1>6, <1>7, <1>8, Zenon DEF GovernanceIInv

\* A step of owners or blocks, which touches no proposal.
LEMMA BallotsAside ==
  ASSUME GovernanceIInv, StakeMoves, SettingsMove, UNCHANGED ballotVars
  PROVE  GovernanceIInv'
<1>1. /\ proposals' = proposals /\ entirely_voted' = entirely_voted
      /\ used' = used /\ approved' = approved
  BY DEF ballotVars
<1>2. /\ GovernanceTypeOK
      /\ \A i \in Ballots \ DOMAIN proposals : FreshBallot(i)
  BY Zenon DEF GovernanceIInv
<1>3. GovernanceTypeOK'
  BY <1>1, <1>2 DEF GovernanceTypeOK, SettingsMove
<1>5. ASSUME NEW i \in Ballots \ DOMAIN proposals' PROVE FreshBallot(i)'
  BY <1>1, <1>2 DEF FreshBallot, HasVoted
<1>6. ASSUME NEW i \in DOMAIN proposals' PROVE BallotOK(i)'
  <2>1. /\ BallotOK(i) /\ proposals[i] \in Proposal
        /\ \A p \in Pool : used[<<p, i>>] \in Nat
    BY <1>1, BallotFacts
  <2>2. /\ proposals'[i] = proposals[i] /\ approved'[i] = approved[i]
        /\ \A p \in Pool :
             /\ <<p, i>> \in entirely_voted' <=> <<p, i>> \in entirely_voted
             /\ used[<<p, i>>] \in Nat /\ used'[<<p, i>>] = used[<<p, i>>]
    BY <1>1, <2>1
  <2> QED
    BY <2>1, <2>2, UntouchedBallot
<1>7. MoneyIInv'
  BY DEF StakeMoves
<1> QED
  BY <1>3, <1>5, <1>6, <1>7, Zenon DEF GovernanceIInv

\* Nothing moves in a step that leaves stake.move's variables alone.
LEMMA StakeStands ==
  ASSUME MoneyIInv, UNCHANGED stakeVars
  PROVE  StakeMoves
BY StakeStepMoves

\* Owners and operators, and transfers between owners.
LEMMA OwnersStepOK ==
  ASSUME GovernanceIInv, OwnersStep
  PROVE  GovernanceIInv'
<1>1. MoneyIInv
  BY BallotFacts
<1>2. StakeMoves
  <2>1. CASE \E p \in Pool : OwnerStep(p) \/ OperatorStep(p)
    <3>1. Next
      BY <2>1 DEF Next
    <3> QED
      BY <1>1, <3>1, StakeStepMoves
  <2>2. CASE \E p, q \in Pool, amount \in TransferAmount :
               Transfer(p, q, amount)
    BY <1>1, <2>2, TransferMoves
  <2> QED
    BY <2>1, <2>2 DEF OwnersStep
<1>3. UNCHANGED <<ballotVars, settingVars>>
  BY DEF OwnersStep
<1>4. SettingsMove
  <2>1. governance_config \in GovernanceConfigs /\ partial \in PartialVoting
    BY BallotFacts
  <2> QED
    BY <1>3, <2>1 DEF SettingsMove, settingVars
<1> QED
  BY <1>2, <1>3, <1>4, BallotsAside

\* Blocks, which may bring pending flags into force.
LEMMA BlockStepOK ==
  ASSUME GovernanceIInv, BlockStep
  PROVE  GovernanceIInv'
<1>1. /\ MoneyIInv /\ governance_config \in GovernanceConfigs
      /\ partial \in PartialVoting
  BY BallotFacts
<1>2. StakeMoves
  <2>1. Next
    BY DEF BlockStep, Next
  <2> QED
    BY <1>1, <2>1, StakeStepMoves
<1>3. UNCHANGED <<ballotVars, governance_config>>
  BY DEF BlockStep
<1>4. \/ partial' = partial
      \/ \E on \in partial.pending : partial' = [enabled |-> on, pending |-> {}]
  BY DEF BlockStep
<1>5. SettingsMove
  BY <1>1, <1>3, <1>4 DEF SettingsMove, PartialVoting
<1> QED
  BY <1>2, <1>3, <1>5, BallotsAside

\* add_approved_script_hash.
LEMMA AddApprovedScriptHashOK ==
  ASSUME GovernanceIInv, NEW id \in DOMAIN proposals, AddApprovedScriptHash(id)
  PROVE  GovernanceIInv'
<1> DEFINE pr == proposals[id]
<1>1. /\ MoneyIInv /\ governance_config \in GovernanceConfigs
      /\ partial \in PartialVoting /\ proposals \in Seq(Proposal)
      /\ approved \in [Ballots -> Hash \cup {NoHash}]
      /\ id \in Ballots /\ BallotOK(id) /\ pr \in Proposal
      /\ \A p \in Pool : used[<<p, id>>] \in Nat
  BY BallotFacts
<1>2. /\ UNCHANGED <<stakeVars, proposals, entirely_voted, used, settingVars>>
      /\ approved' = [approved EXCEPT ![id] = pr.execution_hash]
      /\ Succeeded(pr, Secs(now))
  BY DEF AddApprovedScriptHash
<1>3. StakeMoves
  BY <1>1, <1>2, StakeStands
<1>4. SettingsMove
  BY <1>1, <1>2 DEF SettingsMove, settingVars
<1>5. proposals' = [proposals EXCEPT ![id] = pr] /\ proposals'[id] = proposals[id]
  <2>1. proposals \in [1..Len(proposals) -> Proposal]
    BY <1>1, LenProperties
  <2> QED
    BY <1>2, <2>1
<1>6. /\ approved' \in [Ballots -> Hash \cup {NoHash}]
      /\ \A i \in Ballots : i # id => approved'[i] = approved[i]
  BY <1>1, <1>2 DEF Proposal
<1>7. VotesStand(id)
  BY <1>1, <1>2, <1>5 DEF VotesStand
<1>8. StepsCanGoOn(id)'
  BY <1>1, <1>3, <1>5, UntouchedCanGoOn DEF BallotOK
<1> QED
  BY <1>1, <1>2, <1>3, <1>4, <1>5, <1>6, <1>7, <1>8, NoVoteStep

\* remove_approved_hash.
LEMMA RemoveApprovedHashOK ==
  ASSUME GovernanceIInv, NEW id \in DOMAIN proposals, RemoveApprovedHash(id)
  PROVE  GovernanceIInv'
<1> DEFINE pr == proposals[id]
<1>1. /\ MoneyIInv /\ governance_config \in GovernanceConfigs
      /\ partial \in PartialVoting /\ proposals \in Seq(Proposal)
      /\ approved \in [Ballots -> Hash \cup {NoHash}]
      /\ id \in Ballots /\ BallotOK(id) /\ pr \in Proposal
      /\ \A p \in Pool : used[<<p, id>>] \in Nat
  BY BallotFacts
<1>2. /\ UNCHANGED <<stakeVars, proposals, entirely_voted, used, settingVars>>
      /\ approved' = [approved EXCEPT ![id] = NoHash]
  BY DEF RemoveApprovedHash
<1>3. StakeMoves
  BY <1>1, <1>2, StakeStands
<1>4. SettingsMove
  BY <1>1, <1>2 DEF SettingsMove, settingVars
<1>5. proposals' = [proposals EXCEPT ![id] = pr] /\ proposals'[id] = proposals[id]
  <2>1. proposals \in [1..Len(proposals) -> Proposal]
    BY <1>1, LenProperties
  <2> QED
    BY <1>2, <2>1
<1>6. /\ approved' \in [Ballots -> Hash \cup {NoHash}]
      /\ \A i \in Ballots : i # id => approved'[i] = approved[i]
      /\ approved'[id] = NoHash
  BY <1>1, <1>2
<1>7. VotesStand(id)
  BY <1>1, <1>2, <1>5 DEF VotesStand
<1>8. StepsCanGoOn(id)'
  BY <1>1, <1>3, <1>5, UntouchedCanGoOn DEF BallotOK
<1> QED
  BY <1>1, <1>2, <1>3, <1>4, <1>5, <1>6, <1>7, <1>8, NoVoteStep

-----------------------------------------------------------------------------
(* Resolutions *)

\* What the resolving script does moves stake and settings as other steps do.
LEMMA ExecuteMoves ==
  ASSUME GovernanceIInv, Execute
  PROVE  StakeMoves /\ SettingsMove
<1>1. /\ MoneyIInv /\ governance_config \in GovernanceConfigs
      /\ partial \in PartialVoting
  BY BallotFacts
<1>2. CASE GovernanceStep /\ UNCHANGED settingVars
  <2>1. Next
    BY <1>2 DEF Next
  <2> QED
    BY <1>1, <1>2, <2>1, StakeStepMoves DEF SettingsMove, settingVars
<1>3. CASE \E c \in GovernanceConfigs : UpdateGovernanceConfig(c)
  <2>1. UNCHANGED <<stakeVars, partial>> /\ governance_config' \in GovernanceConfigs
    BY <1>3 DEF UpdateGovernanceConfig
  <2> QED
    BY <1>1, <2>1, StakeStands DEF SettingsMove
<1>4. ASSUME NEW on \in FlagSettings,
             ChangeFeatureFlags(on) \/ ChangeFeatureFlagsForNextEpoch(on)
      PROVE  StakeMoves /\ SettingsMove
  <2>1. /\ UNCHANGED <<stakeVars, governance_config>>
        /\ \/ partial' = [partial EXCEPT !.enabled = on]
           \/ partial' = [partial EXCEPT !.pending = {on}]
    BY <1>4 DEF ChangeFeatureFlags, ChangeFeatureFlagsForNextEpoch
  <2>2. StakeMoves
    BY <1>1, <2>1, StakeStands
  <2>3. on \in BOOLEAN
    BY GovernanceAssumption
  <2>4. partial' \in PartialVoting
    BY <1>1, <2>1, <2>3 DEF PartialVoting
  <2> QED
    BY <1>1, <2>1, <2>2, <2>4 DEF SettingsMove
<1>5. CASE UNCHANGED <<stakeVars, settingVars>>
  BY <1>1, <1>5, StakeStands DEF SettingsMove, settingVars
<1> QED
  BY <1>2, <1>3, <1>4, <1>5 DEF Execute

\* What resolving makes of a proposal: its votes stand, and if it is left in
\* execution then its next step can be resolved.
LEMMA ResolvedProposal ==
  ASSUME NEW pr \in Proposal, NEW secs \in Nat, NEW script \in Hash,
         NEW later \in Nat, secs <= later,
         NEW next_hash \in Hash \cup {NoHash},
         Resolvable(pr, secs, script), pr.multi_step \/ next_hash = NoHash
  PROVE  LET r == StepResolved(pr, next_hash) IN
           /\ r \in Proposal
           /\ r.yes_votes = pr.yes_votes /\ r.no_votes = pr.no_votes
           /\ r.expiration_secs = pr.expiration_secs
           /\ r.min_vote_threshold = pr.min_vote_threshold
           /\ r.early_resolution_vote_threshold
                = pr.early_resolution_vote_threshold
           /\ r.in_execution =>
                r.multi_step /\ Resolvable(r, later, r.execution_hash)
<1>1. Resolvable(pr, later, script)
  BY ResolvableLater
<1>2. CASE next_hash = NoHash
  <2>1. StepResolved(pr, next_hash)
          = [pr EXCEPT !.is_resolved = TRUE, !.in_execution = FALSE]
    BY <1>2 DEF StepResolved
  <2> QED
    BY <2>1 DEF Proposal
<1>3. CASE next_hash # NoHash
  <2> DEFINE r == [pr EXCEPT !.execution_hash = next_hash, !.in_execution = TRUE]
  <2>1. StepResolved(pr, next_hash) = r /\ next_hash \in Hash
    BY <1>3 DEF StepResolved
  <2>2. /\ r \in Proposal /\ r.multi_step = pr.multi_step
        /\ r.yes_votes = pr.yes_votes /\ r.no_votes = pr.no_votes
        /\ r.expiration_secs = pr.expiration_secs
        /\ r.min_vote_threshold = pr.min_vote_threshold
        /\ r.early_resolution_vote_threshold
             = pr.early_resolution_vote_threshold
        /\ r.is_resolved = pr.is_resolved
        /\ r.resolvable_time = pr.resolvable_time
    BY <2>1 DEF Proposal
  <2> HIDE DEF r
  <2>3. Resolvable(r, later, r.execution_hash)
    BY <1>1, <2>2, Zenon DEF Resolvable, Succeeded, IsVotingClosed,
       CanBeResolvedEarly, IsVotingPeriodOver
  <2>4. r.multi_step
    BY <1>3, <2>2
  <2> QED
    BY <2>1, <2>2, <2>3, <2>4
<1> QED
  BY <1>2, <1>3

\* A resolution leaves a proposal r with the same votes, and moves its approval.
LEMMA ResolutionStep ==
  ASSUME GovernanceIInv, StakeMoves, SettingsMove,
         UNCHANGED <<entirely_voted, used>>,
         NEW id \in DOMAIN proposals, NEW r \in Proposal,
         r.yes_votes = proposals[id].yes_votes,
         r.no_votes = proposals[id].no_votes,
         r.expiration_secs = proposals[id].expiration_secs,
         r.min_vote_threshold = proposals[id].min_vote_threshold,
         r.early_resolution_vote_threshold
           = proposals[id].early_resolution_vote_threshold,
         r.in_execution =>
           r.multi_step /\ Resolvable(r, Secs(now'), r.execution_hash),
         proposals' = [proposals EXCEPT ![id] = r],
         Succeeded(proposals[id], Secs(now)),
         \/ approved' = approved
         \/ \E h \in Hash \cup {NoHash} : approved' = [approved EXCEPT ![id] = h]
  PROVE  GovernanceIInv'
<1>1. /\ proposals \in Seq(Proposal)
      /\ approved \in [Ballots -> Hash \cup {NoHash}]
      /\ id \in Ballots /\ proposals[id] \in Proposal
      /\ \A p \in Pool : used[<<p, id>>] \in Nat
  BY BallotFacts
<1>2. proposals'[id] = r
  <2>1. proposals \in [1..Len(proposals) -> Proposal]
    BY <1>1, LenProperties
  <2> QED
    BY <2>1
<1>3. /\ approved' \in [Ballots -> Hash \cup {NoHash}]
      /\ \A i \in Ballots : i # id => approved'[i] = approved[i]
  BY <1>1
<1>4. VotesStand(id)
  BY <1>1, <1>2 DEF VotesStand
<1>5. StepsCanGoOn(id)'
  BY <1>2, Zenon DEF StepsCanGoOn
<1> QED
  BY <1>3, <1>4, <1>5, NoVoteStep

\* The seconds that resolutions compare.
LEMMA MoveSecs ==
  ASSUME StakeMoves
  PROVE  Secs(now) \in Nat /\ Secs(now') \in Nat /\ Secs(now) <= Secs(now')
BY MoveFacts

\* resolve_proposal_v2, whoever calls it.
LEMMA ResolveStepOK ==
  ASSUME GovernanceIInv, StakeMoves, SettingsMove,
         UNCHANGED <<entirely_voted, used>>,
         NEW id \in DOMAIN proposals, NEW script \in Hash,
         NEW next_hash \in Hash \cup {NoHash},
         ResolveStep(id, script, next_hash),
         \/ approved' = approved
         \/ approved' = [approved EXCEPT ![id] = next_hash]
  PROVE  GovernanceIInv'
<1> DEFINE pr == proposals[id]
           r == StepResolved(pr, next_hash)
<1>1. pr \in Proposal
  BY BallotFacts
<1>2. /\ Resolvable(pr, Secs(now), script)
      /\ pr.multi_step \/ next_hash = NoHash
      /\ proposals' = [proposals EXCEPT ![id] = r]
  BY DEF ResolveStep
<1>3. Succeeded(pr, Secs(now))
  BY <1>2 DEF Resolvable
<1> HIDE DEF pr
<1>4. /\ r \in Proposal
      /\ r.yes_votes = pr.yes_votes /\ r.no_votes = pr.no_votes
      /\ r.expiration_secs = pr.expiration_secs
      /\ r.min_vote_threshold = pr.min_vote_threshold
      /\ r.early_resolution_vote_threshold
           = pr.early_resolution_vote_threshold
      /\ r.in_execution =>
           r.multi_step /\ Resolvable(r, Secs(now'), r.execution_hash)
  BY <1>1, <1>2, MoveSecs, ResolvedProposal
<1> HIDE DEF r
<1>5. \/ approved' = approved
      \/ \E h \in Hash \cup {NoHash} : approved' = [approved EXCEPT ![id] = h]
  OBVIOUS
<1> QED
  BY <1>2, <1>3, <1>4, <1>5, ResolutionStep DEF pr

\* The single-step resolution of voting.move.
LEMMA ResolveOnceOK ==
  ASSUME GovernanceIInv, StakeMoves, SettingsMove,
         UNCHANGED <<entirely_voted, used>>,
         NEW id \in DOMAIN proposals, NEW script \in Hash,
         Resolvable(proposals[id], Secs(now), script),
         ~proposals[id].multi_step,
         proposals' = [proposals EXCEPT ![id].is_resolved = TRUE],
         \/ approved' = approved
         \/ approved' = [approved EXCEPT ![id] = NoHash]
  PROVE  GovernanceIInv'
<1> DEFINE pr == proposals[id]
           r == [pr EXCEPT !.is_resolved = TRUE]
<1>1. pr \in Proposal /\ BallotOK(id)
  BY BallotFacts
<1>2. /\ proposals' = [proposals EXCEPT ![id] = r]
      /\ Succeeded(pr, Secs(now))
  BY DEF Resolvable
<1>3. ~pr.in_execution
  BY <1>1 DEF BallotOK, StepsCanGoOn
<1>4. /\ r \in Proposal
      /\ r.yes_votes = pr.yes_votes /\ r.no_votes = pr.no_votes
      /\ r.expiration_secs = pr.expiration_secs
      /\ r.min_vote_threshold = pr.min_vote_threshold
      /\ r.early_resolution_vote_threshold
           = pr.early_resolution_vote_threshold
      /\ ~r.in_execution
  BY <1>1, <1>3 DEF Proposal
<1> HIDE DEF r
<1>5. \/ approved' = approved
      \/ \E h \in Hash \cup {NoHash} : approved' = [approved EXCEPT ![id] = h]
  OBVIOUS
<1> QED
  BY <1>2, <1>4, <1>5, ResolutionStep

\* resolve.
LEMMA ResolveOK ==
  ASSUME GovernanceIInv, NEW id \in DOMAIN proposals, NEW script \in Hash,
         Resolve(id, script)
  PROVE  GovernanceIInv'
<1>1. StakeMoves /\ SettingsMove
  BY ExecuteMoves DEF Resolve
<1>2. /\ UNCHANGED <<entirely_voted, used>>
      /\ Resolvable(proposals[id], Secs(now), script)
      /\ ~proposals[id].multi_step
      /\ proposals' = [proposals EXCEPT ![id].is_resolved = TRUE]
      /\ approved' = [approved EXCEPT ![id] = NoHash]
  BY DEF Resolve
<1> QED
  BY <1>1, <1>2, ResolveOnceOK

\* resolve_multi_step_proposal.
LEMMA ResolveMultiStepProposalOK ==
  ASSUME GovernanceIInv, NEW id \in DOMAIN proposals, NEW script \in Hash,
         NEW next_hash \in Hash \cup {NoHash},
         ResolveMultiStepProposal(id, script, next_hash)
  PROVE  GovernanceIInv'
<1>1. StakeMoves /\ SettingsMove
  BY ExecuteMoves DEF ResolveMultiStepProposal
<1>2. /\ UNCHANGED <<entirely_voted, used>>
      /\ ResolveStep(id, script, next_hash)
      /\ approved' = [approved EXCEPT ![id] = next_hash]
  BY DEF ResolveMultiStepProposal
<1> QED
  BY <1>1, <1>2, ResolveStepOK

\* A resolution that goes around endless_governance.move.
LEMMA ResolveViaVotingOK ==
  ASSUME GovernanceIInv, NEW id \in DOMAIN proposals, NEW script \in Hash,
         ResolveViaVoting(id, script)
  PROVE  GovernanceIInv'
<1>1. /\ UNCHANGED stakeVars /\ UNCHANGED settingVars
      /\ UNCHANGED <<entirely_voted, used>> /\ approved' = approved
  BY DEF ResolveViaVoting
<1>2. /\ MoneyIInv /\ governance_config \in GovernanceConfigs
      /\ partial \in PartialVoting
  BY BallotFacts
<1>3. StakeMoves /\ SettingsMove
  BY <1>1, <1>2, StakeStands DEF SettingsMove, settingVars
<1>4. CASE /\ Resolvable(proposals[id], Secs(now), script)
           /\ ~proposals[id].multi_step
           /\ proposals' = [proposals EXCEPT ![id].is_resolved = TRUE]
  BY <1>1, <1>3, <1>4, ResolveOnceOK
<1>5. CASE \E next_hash \in Hash \cup {NoHash} :
             ResolveStep(id, script, next_hash)
  BY <1>1, <1>3, <1>5, ResolveStepOK
<1> QED
  BY <1>4, <1>5 DEF ResolveViaVoting

-----------------------------------------------------------------------------
(* Proposals and votes *)

\* A proposal nobody has voted on or approved yet.
LEMMA FreshBallotOK ==
  ASSUME MoneyIInv, NEW id \in Ballots, FreshBallot(id),
         used \in [Pool \X Ballots -> Nat],
         proposals[id].yes_votes = 0, proposals[id].no_votes = 0,
         ~proposals[id].in_execution
  PROVE  BallotOK(id)
<1>1. pools \in [Pool -> StakePool]
  BY DEF MoneyIInv, IInv, TypeOK
<1>2. \A p \in Pool : /\ used[<<p, id>>] \in Nat
                      /\ NextEpochVotingPower(pools[p]) \in Nat
  BY <1>1, NextEpochVotingPowerType
<1>3. \A p \in Pool : ~HasVoted(p, id) /\ used[<<p, id>>] = 0
  BY <1>2 DEF FreshBallot, HasVoted
<1>4. Total(Backing(id)) \in Nat
  BY <1>2, BackingType, PoolAssumption, TotalNat
<1>5. VotersLocked(id) /\ StepsCanGoOn(id) /\ ApprovedIsDecided(id)
  BY <1>3 DEF VotersLocked, StepsCanGoOn, ApprovedIsDecided, FreshBallot
<1>6. VotesHaveStake(id)
  <2>1. proposals[id].yes_votes + proposals[id].no_votes <= Total(Backing(id))
    <3> HIDE DEF Total, Backing
    <3> QED
      BY <1>4
  <2>2. \A p \in Pool : used[<<p, id>>] <= NextEpochVotingPower(pools[p])
    BY <1>2, <1>3
  <2> QED
    BY <2>1, <2>2, Zenon DEF VotesHaveStake
<1> QED
  BY <1>5, <1>6 DEF BallotOK

\* The same of the next state.
LEMMA FreshBallotOKNext ==
  ASSUME NEW id \in Ballots
  PROVE  (/\ MoneyIInv /\ FreshBallot(id) /\ used \in [Pool \X Ballots -> Nat]
          /\ proposals[id].yes_votes = 0 /\ proposals[id].no_votes = 0
          /\ ~proposals[id].in_execution)' => BallotOK(id)'
<1>1. (/\ MoneyIInv /\ FreshBallot(id) /\ used \in [Pool \X Ballots -> Nat]
       /\ proposals[id].yes_votes = 0 /\ proposals[id].no_votes = 0
       /\ ~proposals[id].in_execution) => BallotOK(id)
  BY FreshBallotOK
<1> QED
  BY <1>1, PTL

\* create_proposal_v2: the thresholds and times it sets are numbers.
LEMMA NewProposalType ==
  ASSUME MoneyIInv, governance_config \in GovernanceConfigs,
         NEW hash \in Hash, NEW multi_step \in BOOLEAN
  PROVE  LET expiration == Secs(now) + governance_config.voting_duration_secs
             early == IF supply = 0 THEN NoThreshold ELSE (supply \div 2) + 1
             min == governance_config.min_voting_threshold
         IN NewProposal(hash, min, early, expiration, multi_step) \in Proposal
<1>1. /\ now \in Nat /\ circulating \in Nat /\ supply \in Int
      /\ circulating <= supply
  BY DEF MoneyIInv, IInv, TypeOK
<1>2. Secs(now) \in Nat
  BY <1>1, SecsType
<1>3. (supply \div 2) + 1 \in Nat
  BY <1>1
<1>4. governance_config \in GovernanceConfig
  BY GovernanceAssumption
<1>5. /\ governance_config.voting_duration_secs \in Nat
      /\ governance_config.min_voting_threshold \in Nat
  BY <1>4 DEF GovernanceConfig
<1> DEFINE expiration == Secs(now) + governance_config.voting_duration_secs
           early == IF supply = 0 THEN NoThreshold ELSE (supply \div 2) + 1
           min == governance_config.min_voting_threshold
<1>6. /\ expiration \in Nat /\ early \in Nat \cup {NoThreshold} /\ min \in Nat
  BY <1>2, <1>3, <1>5
<1> HIDE DEF expiration, early, min
<1>7. NewProposal(hash, min, early, expiration, multi_step) \in Proposal
  BY <1>6 DEF NewProposal, Proposal
<1> QED
  BY <1>7 DEF expiration, early, min

\* create_proposal_v2 adds a fresh ballot.
LEMMA CreateProposalOK ==
  ASSUME GovernanceIInv, NEW p \in Pool, NEW hash \in Hash,
         NEW multi_step \in BOOLEAN, CreateProposal(p, hash, multi_step)
  PROVE  GovernanceIInv'
<1>1. /\ MoneyIInv
      /\ proposals \in Seq(Proposal) /\ Len(proposals) \in Nat
      /\ MaxBallots \in Nat
      /\ DOMAIN proposals = 1..Len(proposals)
      /\ DOMAIN proposals \subseteq Ballots
      /\ governance_config \in GovernanceConfigs
      /\ entirely_voted \subseteq Pool \X Ballots
      /\ used \in [Pool \X Ballots -> Nat]
      /\ approved \in [Ballots -> Hash \cup {NoHash}]
      /\ partial \in PartialVoting
      /\ \A i \in Ballots \ DOMAIN proposals : FreshBallot(i)
      /\ \A i \in DOMAIN proposals :
           /\ BallotOK(i) /\ proposals[i] \in Proposal
           /\ \A q \in Pool : used[<<q, i>>] \in Nat
  BY BallotFacts
<1>0. PICK n \in Nat : n = Len(proposals) + 1
  BY <1>1
<1>2. PICK pr \in Proposal :
        /\ proposals' = Append(proposals, pr)
        /\ pr.yes_votes = 0 /\ pr.no_votes = 0 /\ ~pr.in_execution
  <2> DEFINE expiration == Secs(now) + governance_config.voting_duration_secs
             early == IF supply = 0 THEN NoThreshold ELSE (supply \div 2) + 1
             min == governance_config.min_voting_threshold
             pr == NewProposal(hash, min, early, expiration, multi_step)
  <2>1. proposals' = Append(proposals, pr)
    BY DEF CreateProposal
  <2>2. pr \in Proposal
    BY <1>1, NewProposalType
  <2>3. pr.yes_votes = 0 /\ pr.no_votes = 0 /\ ~pr.in_execution
    BY DEF NewProposal
  <2> HIDE DEF pr
  <2> QED
    BY <2>1, <2>2, <2>3
<1>3. /\ UNCHANGED stakeVars /\ UNCHANGED settingVars
      /\ entirely_voted' = entirely_voted /\ used' = used
      /\ approved' = approved /\ Len(proposals) < MaxBallots
  BY DEF CreateProposal
<1>4. governance_config' = governance_config /\ partial' = partial
  BY <1>3 DEF settingVars
<1>5. StakeMoves
  BY <1>1, <1>3, StakeStands
<1>6. MoneyIInv'
  BY <1>5 DEF StakeMoves
<1>7. /\ proposals' \in Seq(Proposal) /\ Len(proposals') = n
      /\ \A i \in DOMAIN proposals : proposals'[i] = proposals[i]
      /\ proposals'[n] = pr
  BY <1>0, <1>1, <1>2, AppendProperties
<1>8. DOMAIN proposals' = DOMAIN proposals \cup {n} /\ n \in Ballots
      /\ n \notin DOMAIN proposals /\ n <= MaxBallots
  <2>1. DOMAIN proposals' = 1..n
    BY <1>7, LenProperties
  <2> QED
    BY <1>0, <1>1, <1>3, <2>1 DEF Ballots
<1>9. GovernanceTypeOK'
  BY <1>0, <1>1, <1>3, <1>4, <1>7, <1>8 DEF GovernanceTypeOK
<1>11. \A i \in Ballots \ DOMAIN proposals : FreshBallot(i)'
  BY <1>1, <1>3 DEF FreshBallot, HasVoted
<1>12. \A i \in Ballots \ DOMAIN proposals' : FreshBallot(i)'
  BY <1>8, <1>11
<1>13. ASSUME NEW i \in DOMAIN proposals PROVE BallotOK(i)'
  <2>1. /\ proposals'[i] = proposals[i] /\ approved'[i] = approved[i]
        /\ BallotOK(i) /\ proposals[i] \in Proposal
        /\ \A q \in Pool :
             /\ <<q, i>> \in entirely_voted' <=> <<q, i>> \in entirely_voted
             /\ used[<<q, i>>] \in Nat /\ used'[<<q, i>>] = used[<<q, i>>]
    BY <1>1, <1>3, <1>7
  <2> QED
    BY <1>5, <2>1, UntouchedBallot
<1>14. BallotOK(n)'
  <2>1. FreshBallot(n)'
    BY <1>8, <1>11
  <2>2. (used \in [Pool \X Ballots -> Nat])'
    BY <1>1, <1>3
  <2>3. (/\ proposals[n].yes_votes = 0 /\ proposals[n].no_votes = 0
         /\ ~proposals[n].in_execution)'
    BY <1>2, <1>3, <1>7
  <2> QED
    BY <1>6, <1>8, <2>1, <2>2, <2>3, FreshBallotOKNext
<1>15. \A i \in DOMAIN proposals' : BallotOK(i)'
  BY <1>8, <1>13, <1>14, Zenon
<1> QED
  BY <1>6, <1>9, <1>12, <1>15, Zenon DEF GovernanceIInv

\* vote_internal by numbers: the power it adds is within what the pool has
\* left, and within its voting power after it is recorded.
LEMMA VoteNumbers ==
  ASSUME GovernanceIInv, NEW p \in Pool, NEW id \in DOMAIN proposals,
         NEW voting_power \in Nat, NEW should_pass \in BOOLEAN,
         VoteInternal(p, id, voting_power, should_pass)
  PROVE  \E power \in Nat :
           LET voted == Voted(proposals[id], power, should_pass, Secs(now)) IN
             /\ proposals' = [proposals EXCEPT ![id] = voted]
             /\ approved' = IF Succeeded(voted, Secs(now))
                            THEN [approved EXCEPT
                                    ![id] = proposals[id].execution_hash]
                            ELSE approved
             /\ <<p, id>> \notin entirely_voted
             /\ \/ /\ partial.enabled /\ entirely_voted' = entirely_voted
                   /\ used' = [used EXCEPT ![<<p, id>>] = @ + power]
                   /\ staking_config.allow_validator_set_change =>
                        used[<<p, id>>] + power
                          <= NextEpochVotingPower(pools[p])
                \/ /\ ~partial.enabled /\ used' = used
                   /\ entirely_voted' = entirely_voted \cup {<<p, id>>}
                   /\ staking_config.allow_validator_set_change =>
                        power <= NextEpochVotingPower(pools[p])
<1> DEFINE U == UsedVotingPower(p, id)
           G == GetVotingPower(p)
           N == NextEpochVotingPower(pools[p])
           power == AtMost(voting_power, G - U)
           voted == Voted(proposals[id], power, should_pass, Secs(now))
<1>1. /\ MoneyIInv /\ id \in Ballots /\ used[<<p, id>>] \in Nat
  BY BallotFacts
<1>2. pools[p] \in StakePool /\ N \in Nat
  BY <1>1, NextEpochVotingPowerType DEF MoneyIInv, IInv, TypeOK
<1>3. G \in Nat /\ (staking_config.allow_validator_set_change => G = N)
  BY <1>2 DEF GetVotingPower, StakePool
<1>4. /\ proposals' = [proposals EXCEPT ![id] = voted]
      /\ approved' = IF Succeeded(voted, Secs(now))
                     THEN [approved EXCEPT ![id] = proposals[id].execution_hash]
                     ELSE approved
      /\ Recorded(p, id, power) /\ U <= G /\ power > 0
  BY Zenon DEF VoteInternal
<1>5. U = IF <<p, id>> \in entirely_voted THEN G
          ELSE IF partial.enabled THEN used[<<p, id>>] ELSE 0
  BY DEF UsedVotingPower
<1>6. U \in Nat
  BY <1>1, <1>3, <1>5
<1> HIDE DEF U, G, N
<1>7. power \in Nat /\ power <= G - U
  BY <1>3, <1>4, <1>6 DEF AtMost
<1> HIDE DEF power
<1>8. <<p, id>> \notin entirely_voted
  BY <1>3, <1>4, <1>5, <1>7
<1>9. CASE partial.enabled
  <2>1. /\ entirely_voted' = entirely_voted
        /\ used' = [used EXCEPT ![<<p, id>>] = @ + power]
    BY <1>4, <1>9 DEF Recorded
  <2>2. U = used[<<p, id>>]
    BY <1>5, <1>8, <1>9
  <2>3. used[<<p, id>>] + power <= G
    BY <1>3, <1>6, <1>7, <2>2
  <2>4. staking_config.allow_validator_set_change =>
          used[<<p, id>>] + power <= N
    BY <1>3, <2>3
  <2> HIDE DEF voted
  <2> QED
    BY <1>4, <1>7, <1>8, <1>9, <2>1, <2>4, Zenon DEF voted, N
<1>10. CASE ~partial.enabled
  <2>1. /\ used' = used /\ entirely_voted' = entirely_voted \cup {<<p, id>>}
    BY <1>4, <1>10 DEF Recorded
  <2>3. power <= G
    BY <1>3, <1>6, <1>7
  <2>4. staking_config.allow_validator_set_change => power <= N
    BY <1>3, <2>3
  <2> HIDE DEF voted
  <2> QED
    BY <1>4, <1>7, <1>8, <1>10, <2>1, <2>4, Zenon DEF voted, N
<1> QED
  BY <1>9, <1>10

\* What a vote makes of the proposal.
LEMMA VotedFacts ==
  ASSUME NEW pr \in Proposal, NEW power \in Nat, NEW should_pass \in BOOLEAN,
         NEW secs \in Nat
  PROVE  LET v == Voted(pr, power, should_pass, secs) IN
           /\ v \in Proposal
           /\ v.yes_votes + v.no_votes = pr.yes_votes + pr.no_votes + power
           /\ v.yes_votes >= pr.yes_votes
           /\ v.expiration_secs = pr.expiration_secs
           /\ v.min_vote_threshold = pr.min_vote_threshold
           /\ v.early_resolution_vote_threshold
                = pr.early_resolution_vote_threshold
           /\ v.in_execution = pr.in_execution
<1>1. CASE should_pass
  <2>1. Voted(pr, power, should_pass, secs)
          = [pr EXCEPT !.yes_votes = @ + power, !.resolvable_time = secs]
    BY <1>1 DEF Voted
  <2> DEFINE n == pr.yes_votes + power
             v == [pr EXCEPT !.yes_votes = n, !.resolvable_time = secs]
  <2>2. /\ n \in Nat /\ pr.yes_votes \in Nat /\ pr.no_votes \in Nat
    BY DEF Proposal
  <2> HIDE DEF n
  <2>3. /\ v \in Proposal /\ v.yes_votes = n
        /\ v.no_votes = pr.no_votes
        /\ v.expiration_secs = pr.expiration_secs
        /\ v.min_vote_threshold = pr.min_vote_threshold
        /\ v.early_resolution_vote_threshold
             = pr.early_resolution_vote_threshold
        /\ v.in_execution = pr.in_execution
    BY <2>2 DEF Proposal
  <2>4. Voted(pr, power, should_pass, secs) = v
    BY <2>1 DEF n
  <2> HIDE DEF v
  <2>5. /\ v.yes_votes + v.no_votes = pr.yes_votes + pr.no_votes + power
        /\ v.yes_votes >= pr.yes_votes
    BY <2>2, <2>3 DEF n
  <2> QED
    BY <2>3, <2>4, <2>5, Zenon
<1>2. CASE ~should_pass
  <2>1. Voted(pr, power, should_pass, secs)
          = [pr EXCEPT !.no_votes = @ + power, !.resolvable_time = secs]
    BY <1>2 DEF Voted
  <2> DEFINE n == pr.no_votes + power
             v == [pr EXCEPT !.no_votes = n, !.resolvable_time = secs]
  <2>2. /\ n \in Nat /\ pr.yes_votes \in Nat /\ pr.no_votes \in Nat
    BY DEF Proposal
  <2> HIDE DEF n
  <2>3. /\ v \in Proposal /\ v.no_votes = n
        /\ v.yes_votes = pr.yes_votes
        /\ v.expiration_secs = pr.expiration_secs
        /\ v.min_vote_threshold = pr.min_vote_threshold
        /\ v.early_resolution_vote_threshold
             = pr.early_resolution_vote_threshold
        /\ v.in_execution = pr.in_execution
    BY <2>2 DEF Proposal
  <2>4. Voted(pr, power, should_pass, secs) = v
    BY <2>1 DEF n
  <2> HIDE DEF v
  <2>5. /\ v.yes_votes + v.no_votes = pr.yes_votes + pr.no_votes + power
        /\ v.yes_votes >= pr.yes_votes
    BY <2>2, <2>3 DEF n
  <2> QED
    BY <2>3, <2>4, <2>5, Zenon
<1> QED
  BY <1>1, <1>2

\* What stands behind the votes on id grows by the power of the vote.
LEMMA BackingVote ==
  ASSUME NEW id, NEW p \in Pool, NEW power \in Nat, pools' = pools,
         \A q \in Pool : /\ used[<<q, id>>] \in Nat
                         /\ used'[<<q, id>>] \in Nat
                         /\ NextEpochVotingPower(pools[q]) \in Nat,
         \A q \in Pool \ {p} :
           /\ used'[<<q, id>>] = used[<<q, id>>]
           /\ <<q, id>> \in entirely_voted' <=> <<q, id>> \in entirely_voted,
         <<p, id>> \notin entirely_voted,
         \/ /\ <<p, id>> \notin entirely_voted'
            /\ used'[<<p, id>>] = used[<<p, id>>] + power
         \/ /\ <<p, id>> \in entirely_voted'
            /\ used'[<<p, id>>] = used[<<p, id>>]
            /\ power <= NextEpochVotingPower(pools[p])
  PROVE  /\ Total(Backing(id)') >= Total(Backing(id)) + power
         /\ Total(Backing(id)) \in Nat /\ Total(Backing(id)') \in Nat
<1> DEFINE b == Backing(id)
           c == Backing(id)'
<1>1. /\ b \in [Pool -> Nat] /\ c \in [Pool -> Nat]
      /\ \A q \in Pool \ {p} : c[q] = b[q]
      /\ c[p] >= b[p] + power
  BY DEF Backing
<1> HIDE DEF b, c
<1>2. /\ Total(c) = Total(b) + (c[p] - b[p])
      /\ Total(b) \in Nat /\ Total(c) \in Nat
  <2>1. /\ b \in [Pool -> Nat] /\ c \in [Pool -> Nat]
        /\ \A q \in Pool \ {p} : c[q] = b[q]
    BY <1>1
  <2> QED
    BY <2>1, TotalsDiffer
<1>3. b[p] \in Nat /\ c[p] \in Nat
  BY <1>1
<1>4. Total(c) >= Total(b) + power
  <2> HIDE DEF Total
  <2> QED
    BY <1>1, <1>2, <1>3
<1> QED
  BY <1>2, <1>4 DEF b, c

\* The records of a vote: entries of other pools and ballots stay, the voter's
\* entry marks it as one who has voted.
LEMMA VoteRecords ==
  ASSUME GovernanceIInv, NEW p \in Pool, NEW id \in DOMAIN proposals,
         NEW power \in Nat, <<p, id>> \notin entirely_voted,
         \/ /\ partial.enabled /\ entirely_voted' = entirely_voted
            /\ used' = [used EXCEPT ![<<p, id>>] = @ + power]
         \/ /\ ~partial.enabled /\ used' = used
            /\ entirely_voted' = entirely_voted \cup {<<p, id>>}
  PROVE  /\ used' \in [Pool \X Ballots -> Nat]
         /\ entirely_voted' \subseteq Pool \X Ballots
         /\ \A q \in Pool, i \in Ballots : <<q, i>> # <<p, id>> =>
              /\ <<q, i>> \in entirely_voted' <=> <<q, i>> \in entirely_voted
              /\ used'[<<q, i>>] = used[<<q, i>>]
         /\ \/ /\ <<p, id>> \notin entirely_voted' /\ partial.enabled
               /\ used'[<<p, id>>] = used[<<p, id>>] + power
            \/ /\ <<p, id>> \in entirely_voted'
               /\ used'[<<p, id>>] = used[<<p, id>>]
<1>1. /\ entirely_voted \subseteq Pool \X Ballots
      /\ used \in [Pool \X Ballots -> Nat] /\ id \in Ballots
  BY BallotFacts
<1>2. <<p, id>> \in Pool \X Ballots /\ used[<<p, id>>] \in Nat
  BY <1>1
<1>3. CASE /\ partial.enabled /\ entirely_voted' = entirely_voted
           /\ used' = [used EXCEPT ![<<p, id>>] = @ + power]
  BY <1>1, <1>2, <1>3
<1>4. CASE /\ ~partial.enabled /\ used' = used
           /\ entirely_voted' = entirely_voted \cup {<<p, id>>}
  BY <1>1, <1>2, <1>4
<1> QED
  BY <1>3, <1>4

\* vote_internal preserves the invariant: the voter is locked up, and has what
\* it adds to the votes.
LEMMA VoteInternalOK ==
  ASSUME GovernanceIInv, NEW p \in Pool, NEW id \in DOMAIN proposals,
         NEW voting_power \in Nat, NEW should_pass \in BOOLEAN,
         VoteInternal(p, id, voting_power, should_pass)
  PROVE  GovernanceIInv'
<1> DEFINE pr == proposals[id]
           secs == Secs(now)
<1>1. /\ MoneyIInv /\ proposals \in Seq(Proposal) /\ Len(proposals) \in Nat
      /\ Len(proposals) <= MaxBallots
      /\ DOMAIN proposals = 1..Len(proposals)
      /\ DOMAIN proposals \subseteq Ballots
      /\ governance_config \in GovernanceConfigs
      /\ approved \in [Ballots -> Hash \cup {NoHash}]
      /\ used \in [Pool \X Ballots -> Nat]
      /\ partial \in PartialVoting
      /\ \A i \in Ballots \ DOMAIN proposals : FreshBallot(i)
      /\ \A i \in DOMAIN proposals :
           /\ BallotOK(i) /\ proposals[i] \in Proposal
           /\ \A q \in Pool : used[<<q, i>>] \in Nat
  BY BallotFacts
<1>2. /\ UNCHANGED stakeVars /\ UNCHANGED settingVars
      /\ LockedFor(p, pr.expiration_secs) /\ AcceptsVotes(pr, secs)
  BY Zenon DEF VoteInternal
<1>3. /\ pools' = pools /\ now' = now /\ staking_config' = staking_config
      /\ governance_config' = governance_config /\ partial' = partial
  BY <1>2 DEF stakeVars, clockVars, settingVars
<1>4. StakeMoves /\ MoneyIInv'
  BY <1>1, <1>2, StakeStands DEF StakeMoves
<1>5. /\ secs \in Nat /\ id \in Ballots /\ pr \in Proposal /\ BallotOK(id)
      /\ \A q \in Pool : /\ used[<<q, id>>] \in Nat
                         /\ NextEpochVotingPower(pools[q]) \in Nat
  BY <1>1, <1>4, MoveFacts
<1>6. PICK power \in Nat :
        LET voted == Voted(pr, power, should_pass, secs) IN
          /\ proposals' = [proposals EXCEPT ![id] = voted]
          /\ approved' = IF Succeeded(voted, secs)
                         THEN [approved EXCEPT ![id] = pr.execution_hash]
                         ELSE approved
          /\ <<p, id>> \notin entirely_voted
          /\ \/ /\ partial.enabled /\ entirely_voted' = entirely_voted
                /\ used' = [used EXCEPT ![<<p, id>>] = @ + power]
                /\ staking_config.allow_validator_set_change =>
                     used[<<p, id>>] + power <= NextEpochVotingPower(pools[p])
             \/ /\ ~partial.enabled /\ used' = used
                /\ entirely_voted' = entirely_voted \cup {<<p, id>>}
                /\ staking_config.allow_validator_set_change =>
                     power <= NextEpochVotingPower(pools[p])
  BY VoteNumbers
<1> DEFINE voted == Voted(pr, power, should_pass, secs)
<1>7. /\ voted \in Proposal
      /\ voted.yes_votes + voted.no_votes = pr.yes_votes + pr.no_votes + power
      /\ voted.yes_votes >= pr.yes_votes
      /\ voted.expiration_secs = pr.expiration_secs
      /\ voted.min_vote_threshold = pr.min_vote_threshold
      /\ voted.early_resolution_vote_threshold
           = pr.early_resolution_vote_threshold
      /\ voted.in_execution = pr.in_execution
  <2>1. pr \in Proposal /\ secs \in Nat
    BY <1>5
  <2> HIDE DEF pr, secs
  <2> QED
    BY <2>1, VotedFacts
<1>8. /\ proposals' = [proposals EXCEPT ![id] = voted]
      /\ approved' = IF Succeeded(voted, secs)
                     THEN [approved EXCEPT ![id] = pr.execution_hash]
                     ELSE approved
      /\ <<p, id>> \notin entirely_voted
  BY <1>6
<1>9. /\ used' \in [Pool \X Ballots -> Nat]
      /\ entirely_voted' \subseteq Pool \X Ballots
      /\ \A q \in Pool, i \in Ballots : <<q, i>> # <<p, id>> =>
           /\ <<q, i>> \in entirely_voted' <=> <<q, i>> \in entirely_voted
           /\ used'[<<q, i>>] = used[<<q, i>>]
      /\ \/ /\ <<p, id>> \notin entirely_voted' /\ partial.enabled
            /\ used'[<<p, id>>] = used[<<p, id>>] + power
         \/ /\ <<p, id>> \in entirely_voted'
            /\ used'[<<p, id>>] = used[<<p, id>>]
  BY <1>6, VoteRecords
<1>10. staking_config.allow_validator_set_change =>
         IF <<p, id>> \in entirely_voted'
         THEN power <= NextEpochVotingPower(pools[p])
         ELSE used[<<p, id>>] + power <= NextEpochVotingPower(pools[p])
  BY <1>6
<1> HIDE DEF voted, secs
<1>11. /\ proposals' \in Seq(Proposal) /\ Len(proposals') = Len(proposals)
       /\ DOMAIN proposals' = DOMAIN proposals /\ proposals'[id] = voted
       /\ \A i \in DOMAIN proposals : i # id => proposals'[i] = proposals[i]
  <2>1. proposals \in [1..Len(proposals) -> Proposal]
    BY <1>1, LenProperties
  <2>2. /\ proposals' \in [1..Len(proposals) -> Proposal]
        /\ proposals'[id] = voted
        /\ \A i \in DOMAIN proposals : i # id => proposals'[i] = proposals[i]
    BY <1>1, <1>7, <1>8, <2>1
  <2> QED
    BY <1>1, <2>2, SeqOfLength
<1>12. /\ approved' \in [Ballots -> Hash \cup {NoHash}]
       /\ \A i \in Ballots : i # id => approved'[i] = approved[i]
       /\ ~Succeeded(voted, secs) => approved'[id] = approved[id]
  BY <1>1, <1>5, <1>8 DEF Proposal
<1>13. GovernanceTypeOK'
  BY <1>1, <1>3, <1>9, <1>11, <1>12 DEF GovernanceTypeOK
<1>15. ASSUME NEW i \in Ballots \ DOMAIN proposals' PROVE FreshBallot(i)'
  <2>1. FreshBallot(i) /\ i # id /\ i \in Ballots /\ approved'[i] = approved[i]
    BY <1>1, <1>11, <1>12
  <2>2. \A q \in Pool : <<q, i>> # <<p, id>>
    BY <2>1
  <2>3. \A q \in Pool : HasVoted(q, i)' => HasVoted(q, i)
    BY <1>9, <2>1, <2>2 DEF HasVoted
  <2> QED
    BY <2>1, <2>3 DEF FreshBallot
<1>16. ASSUME NEW i \in DOMAIN proposals, i # id PROVE BallotOK(i)'
  <2>1. /\ i \in Ballots /\ BallotOK(i) /\ proposals[i] \in Proposal
        /\ proposals'[i] = proposals[i] /\ approved'[i] = approved[i]
        /\ \A q \in Pool : used[<<q, i>>] \in Nat
    BY <1>1, <1>11, <1>12, <1>16
  <2>2. \A q \in Pool : <<q, i>> # <<p, id>>
    BY <1>16
  <2>3. \A q \in Pool :
          /\ <<q, i>> \in entirely_voted' <=> <<q, i>> \in entirely_voted
          /\ used[<<q, i>>] \in Nat /\ used'[<<q, i>>] = used[<<q, i>>]
    BY <1>9, <2>1, <2>2
  <2> QED
    BY <1>4, <2>1, <2>3, UntouchedBallot
<1>17. \A q \in Pool : q # p =>
         /\ <<q, id>> \in entirely_voted' <=> <<q, id>> \in entirely_voted
         /\ used'[<<q, id>>] = used[<<q, id>>]
  <2>1. \A q \in Pool : q # p => <<q, id>> # <<p, id>>
    OBVIOUS
  <2> QED
    BY <1>5, <1>9, <2>1
<1>18. VotersLocked(id)'
  <2> SUFFICES ASSUME NEW q \in Pool, HasVoted(q, id)'
               PROVE  pools[q].locked_until_secs >= pr.expiration_secs
    BY <1>3, <1>7, <1>11 DEF VotersLocked
  <2>1. CASE q = p
    BY <1>2, <2>1 DEF LockedFor
  <2>2. CASE q # p
    <3>1. HasVoted(q, id)
      BY <1>17, <2>2 DEF HasVoted
    <3> QED
      BY <1>5, <3>1 DEF BallotOK, VotersLocked
  <2> QED
    BY <2>1, <2>2
<1>19. StepsCanGoOn(id)'
  <2>1. ~voted.in_execution
    BY <1>2, <1>7 DEF AcceptsVotes
  <2> QED
    BY <1>11, <2>1, Zenon DEF StepsCanGoOn
<1>20. VotesHaveStake(id)'
  <2> SUFFICES ASSUME staking_config.allow_validator_set_change,
                      secs < pr.expiration_secs
               PROVE  /\ voted.yes_votes + voted.no_votes
                           <= Total(Backing(id)')
                      /\ \A q \in Pool : used'[<<q, id>>]
                                           <= NextEpochVotingPower(pools[q])
    BY <1>3, <1>7, <1>11, Zenon DEF VotesHaveStake, secs
  <2>1. /\ pr.yes_votes + pr.no_votes <= Total(Backing(id))
        /\ \A q \in Pool : used[<<q, id>>] <= NextEpochVotingPower(pools[q])
    BY <1>5, Zenon DEF BallotOK, VotesHaveStake, secs
  <2>2. /\ Total(Backing(id)') >= Total(Backing(id)) + power
        /\ Total(Backing(id)) \in Nat /\ Total(Backing(id)') \in Nat
    <3>1. \A q \in Pool : used'[<<q, id>>] \in Nat
      BY <1>5, <1>9
    <3>2. \/ /\ <<p, id>> \notin entirely_voted'
             /\ used'[<<p, id>>] = used[<<p, id>>] + power
          \/ /\ <<p, id>> \in entirely_voted'
             /\ used'[<<p, id>>] = used[<<p, id>>]
             /\ power <= NextEpochVotingPower(pools[p])
      BY <1>9, <1>10
    <3> QED
      BY <1>3, <1>5, <1>8, <1>17, <3>1, <3>2, BackingVote
  <2>3. ASSUME NEW q \in Pool
        PROVE  used'[<<q, id>>] <= NextEpochVotingPower(pools[q])
    <3>1. CASE q # p
      BY <1>17, <2>1, <3>1
    <3>2. CASE q = p
      BY <1>5, <1>9, <1>10, <2>1, <3>2
    <3> QED
      BY <3>1, <3>2
  <2>4. pr.yes_votes + pr.no_votes \in Nat
    BY <1>5 DEF Proposal
  <2> DEFINE a == pr.yes_votes + pr.no_votes
             b == voted.yes_votes + voted.no_votes
  <2>5. a \in Nat /\ b = a + power /\ a <= Total(Backing(id))
    BY <1>7, <2>1, <2>4
  <2>6. b <= Total(Backing(id)')
    <3> HIDE DEF a, b, Total, Backing
    <3> QED
      BY <2>2, <2>5
  <2> QED
    BY <2>3, <2>6
<1>21. ApprovedIsDecided(id)'
  <2> SUFFICES ASSUME approved'[id] # NoHash, secs < pr.expiration_secs
               PROVE  /\ pr.early_resolution_vote_threshold # NoThreshold
                      /\ voted.yes_votes >= pr.early_resolution_vote_threshold
                      /\ voted.yes_votes + voted.no_votes
                           >= pr.min_vote_threshold
    BY <1>3, <1>7, <1>11, Zenon DEF ApprovedIsDecided, secs
  <2>1. CASE Succeeded(voted, secs)
    BY <1>5, <1>7, <2>1, EarlySuccess
  <2>2. CASE ~Succeeded(voted, secs)
    <3>1. /\ pr.early_resolution_vote_threshold # NoThreshold
          /\ pr.yes_votes >= pr.early_resolution_vote_threshold
          /\ pr.yes_votes + pr.no_votes >= pr.min_vote_threshold
      BY <1>5, <1>12, <2>2, Zenon DEF BallotOK, ApprovedIsDecided, secs
    <3>2. /\ pr.early_resolution_vote_threshold \in Nat
          /\ pr.yes_votes \in Nat /\ pr.no_votes \in Nat
          /\ pr.min_vote_threshold \in Nat
          /\ voted.yes_votes \in Nat /\ voted.no_votes \in Nat
      BY <1>5, <1>7, <3>1 DEF Proposal
    <3> QED
      BY <1>7, <3>1, <3>2
  <2> QED
    BY <2>1, <2>2
<1>22. BallotOK(id)'
  BY <1>18, <1>19, <1>20, <1>21, Zenon DEF BallotOK
<1>23. \A i \in DOMAIN proposals' : BallotOK(i)'
  BY <1>11, <1>16, <1>22, Zenon
<1> QED
  BY <1>4, <1>13, <1>15, <1>23, Zenon DEF GovernanceIInv

-----------------------------------------------------------------------------
(* The invariant of the whole *)

\* Every operation on one proposal preserves the invariant.
LEMMA ProposalStepOK ==
  ASSUME GovernanceIInv, NEW id \in DOMAIN proposals, ProposalStep(id)
  PROVE  GovernanceIInv'
<1>1. CASE \E p \in Pool, should_pass \in BOOLEAN : Vote(p, id, should_pass)
  <2>1. PICK p \in Pool, should_pass \in BOOLEAN :
          VoteInternal(p, id, GetVotingPower(p), should_pass)
    BY <1>1, Zenon DEF Vote
  <2>2. GetVotingPower(p) \in Nat
    <3>1. pools[p] \in StakePool
      BY BallotFacts, OwnerFacts
    <3> QED
      BY <3>1, NextEpochVotingPowerType DEF GetVotingPower, StakePool
  <2> QED
    BY <2>1, <2>2, VoteInternalOK, Zenon
<1>2. CASE \E p \in Pool, should_pass \in BOOLEAN, power \in VoteAmount :
             PartialVote(p, id, power, should_pass)
  <2>1. PICK p \in Pool, should_pass \in BOOLEAN, power \in VoteAmount :
          VoteInternal(p, id, power, should_pass)
    BY <1>2, Zenon DEF PartialVote
  <2>2. power \in Nat
    BY GovernanceAssumption
  <2> QED
    BY <2>1, <2>2, VoteInternalOK, Zenon
<1>3. CASE AddApprovedScriptHash(id)
  BY <1>3, AddApprovedScriptHashOK
<1>4. CASE RemoveApprovedHash(id)
  BY <1>4, RemoveApprovedHashOK
<1>5. CASE \E script \in Hash : Resolve(id, script)
  BY <1>5, ResolveOK
<1>6. CASE \E script \in Hash, next_hash \in Hash \cup {NoHash} :
             ResolveMultiStepProposal(id, script, next_hash)
  BY <1>6, ResolveMultiStepProposalOK
<1>7. CASE \E script \in Hash : ResolveViaVoting(id, script)
  BY <1>7, ResolveViaVotingOK
<1> QED
  BY <1>1, <1>2, <1>3, <1>4, <1>5, <1>6, <1>7, ZenonT(60) DEF ProposalStep

\* Every step preserves the invariant.
LEMMA NextGovernanceIInv ==
  ASSUME GovernanceIInv, [GovernanceNext]_governanceVars
  PROVE  GovernanceIInv'
<1>1. CASE OwnersStep
  BY <1>1, OwnersStepOK
<1>2. CASE BlockStep
  BY <1>2, BlockStepOK
<1>3. CASE \E p \in Pool, hash \in NewScripts, multi_step \in Steps :
             CreateProposal(p, hash, multi_step)
  <2>1. PICK p \in Pool, hash \in NewScripts, multi_step \in Steps :
          CreateProposal(p, hash, multi_step)
    BY <1>3
  <2>2. hash \in Hash /\ multi_step \in BOOLEAN
    BY GovernanceAssumption DEF NewScripts
  <2> QED
    BY <2>1, <2>2, CreateProposalOK, Zenon
<1>4. CASE \E id \in DOMAIN proposals : ProposalStep(id)
  BY <1>4, ProposalStepOK
<1>5. CASE UNCHANGED governanceVars
  <2>1. /\ UNCHANGED stakeVars /\ UNCHANGED ballotVars
        /\ governance_config' = governance_config /\ partial' = partial
    BY <1>5 DEF governanceVars, settingVars
  <2>2. /\ MoneyIInv /\ governance_config \in GovernanceConfigs
        /\ partial \in PartialVoting
    BY BallotFacts
  <2>3. SettingsMove
    BY <2>1, <2>2 DEF SettingsMove
  <2> QED
    BY <2>1, <2>2, <2>3, StakeStands, BallotsAside
<1>6. CASE ExecuteTestnetOnly
  BY <1>6, ExecuteMoves, BallotsAside DEF ExecuteTestnetOnly
<1> QED
  BY <1>1, <1>2, <1>3, <1>4, <1>5, <1>6 DEF GovernanceNext

\* Governance starts with no proposal.
LEMMA InitGovernanceIInv ==
  ASSUME GovernanceInit
  PROVE  GovernanceIInv
<1>1. /\ Init /\ governance_config \in GovernanceConfigs
      /\ proposals = <<>> /\ entirely_voted = {}
      /\ used = [x \in Pool \X Ballots |-> 0]
      /\ approved = [id \in Ballots |-> NoHash]
  BY Zenon DEF GovernanceInit
<1>2. \E on \in PartialAtGenesis : partial = [enabled |-> on, pending |-> {}]
  BY Zenon DEF GovernanceInit
<1>3. partial \in PartialVoting
  BY <1>2, GovernanceAssumption DEF PartialVoting
<1>4. MoneyIInv
  BY <1>1, InitMoneyIInv
<1>5. proposals \in Seq(Proposal) /\ Len(proposals) = 0 /\ DOMAIN proposals = {}
  BY <1>1
<1>6. GovernanceTypeOK
  BY <1>1, <1>3, <1>5, GovernanceAssumption DEF GovernanceTypeOK
<1>7. \A p \in Pool, id \in Ballots : ~ (used[<<p, id>>] > 0)
  BY <1>1
<1>8. \A id \in Ballots : FreshBallot(id)
  BY <1>1, <1>7 DEF FreshBallot, HasVoted
<1> QED
  BY <1>4, <1>5, <1>6, <1>8, Zenon DEF GovernanceIInv

\* GovernanceIInv holds in every reachable state.
THEOREM GovernanceInvariant == GovernanceSpec => []GovernanceIInv
BY InitGovernanceIInv, NextGovernanceIInv, PTL DEF GovernanceSpec

\* Whoever has voted stays locked up until the proposal expires (vote_internal
\* checks the lockup once, in the step of the vote).
THEOREM VotersStayLockedUp == GovernanceSpec => []VotersStayLocked
<1>1. GovernanceIInv => VotersStayLocked
  BY DEF GovernanceIInv, BallotOK, VotersLocked, VotersStayLocked
<1> QED
  BY <1>1, GovernanceInvariant, PTL

\* A multi-step proposal that has begun can be finished.
THEOREM StartedStaysFinishable == GovernanceSpec => []StartedIsFinishable
<1>1. GovernanceIInv => StartedIsFinishable
  BY Zenon DEF GovernanceIInv, BallotOK, StepsCanGoOn, StartedIsFinishable
<1> QED
  BY <1>1, GovernanceInvariant, PTL

-----------------------------------------------------------------------------
(* Votes are backed *)

\* The votes on one proposal are backed by the pools that cast them.
LEMMA VotesBacked ==
  ASSUME GovernanceIInv, NEW id \in DOMAIN proposals,
         staking_config.allow_validator_set_change,
         Secs(now) < proposals[id].expiration_secs
  PROVE  proposals[id].yes_votes + proposals[id].no_votes
           <= Total([p \in Pool |->
                       (IF <<p, id>> \in entirely_voted
                        THEN GetVotingPower(p) ELSE 0)
                         + (IF used[<<p, id>>] > 0 THEN GetVotingPower(p) ELSE 0)])
<1> DEFINE b == Backing(id)
           g == [p \in Pool |->
                   (IF <<p, id>> \in entirely_voted
                    THEN GetVotingPower(p) ELSE 0)
                     + (IF used[<<p, id>>] > 0 THEN GetVotingPower(p) ELSE 0)]
           votes == proposals[id].yes_votes + proposals[id].no_votes
<1>1. /\ BallotOK(id) /\ proposals[id] \in Proposal
      /\ \A p \in Pool : used[<<p, id>>] \in Nat
  BY BallotFacts
<1>2. /\ votes <= Total(b)
      /\ \A p \in Pool : used[<<p, id>>] <= NextEpochVotingPower(pools[p])
  BY <1>1, Zenon DEF BallotOK, VotesHaveStake
<1>3. \A p \in Pool : NextEpochVotingPower(pools[p]) \in Nat
  <2> SUFFICES ASSUME NEW p \in Pool
               PROVE  NextEpochVotingPower(pools[p]) \in Nat
    OBVIOUS
  <2>1. pools[p] \in StakePool
    BY BallotFacts, OwnerFacts
  <2> QED
    BY <2>1, NextEpochVotingPowerType
<1>4. b \in [Pool -> Nat]
  BY <1>1, <1>3, BackingType
<1>5. \A p \in Pool : GetVotingPower(p) = NextEpochVotingPower(pools[p])
  BY DEF GetVotingPower
<1>6. g \in [Pool -> Nat] /\ \A p \in Pool : b[p] <= g[p]
  BY <1>1, <1>2, <1>3, <1>5 DEF Backing
<1> HIDE DEF b, g
<1>7. Total(b) <= Total(g)
  <2>1. b \in [Pool -> Int] /\ g \in [Pool -> Int]
    BY <1>4, <1>6
  <2> QED
    BY <1>6, <2>1, PoolAssumption, TotalMono
<1>8. Total(b) \in Nat /\ Total(g) \in Nat /\ votes \in Int
  <2>1. votes \in Int
    BY <1>1 DEF Proposal
  <2> QED
    BY <2>1, <1>4, <1>6, PoolAssumption, TotalNat
<1>9. votes <= Total(g)
  <2> HIDE DEF votes, Total
  <2> QED
    BY <1>2, <1>7, <1>8
<1> QED
  BY <1>9 DEF g, votes

\* Where the validator set can change, which genesis decides, every record of
\* a vote is backed by the stake of its pool, for any stakes, ballots, amounts
\* and changes of the flag while votes are cast.  (Where it cannot, a validator that governance removes loses the
\* voting power that it has used, and its stake is locked as before.)
THEOREM VotesStayBacked ==
  GovernanceSpec => [](staking_config.allow_validator_set_change
                         => VotesAreBacked)
<1>1. GovernanceIInv =>
        (staking_config.allow_validator_set_change => VotesAreBacked)
  BY VotesBacked DEF VotesAreBacked
<1> QED
  BY <1>1, GovernanceInvariant, PTL

-----------------------------------------------------------------------------
(* Decisions are definitive *)

\* All that stands behind the votes on a proposal is part of the supply, when
\* no pool stands behind them twice.
LEMMA BackingInSupply ==
  ASSUME GovernanceIInv, NEW id \in DOMAIN proposals,
         \A p \in Pool : /\ used[<<p, id>>] <= NextEpochVotingPower(pools[p])
                         /\ ~VotedTwice(p, id)
  PROVE  Total(Backing(id)) <= supply /\ Total(Backing(id)) \in Nat
<1>1. /\ MoneyIInv /\ IInv /\ \A p \in Pool : used[<<p, id>>] \in Nat
  BY BallotFacts
<1>2. /\ pool_store = Total(fees_table) + Total(HoldingsOf)
      /\ supply = pool_store + Total(wallet) + circulating
  BY <1>1, MoneyFacts
<1>3. /\ fees_table \in [Pool -> Nat] /\ wallet \in [Pool -> Nat]
      /\ circulating \in Nat /\ pools \in [Pool -> StakePool]
  BY <1>1 DEF IInv, TypeOK
<1>4. HoldingsOf \in [Pool -> Nat]
  BY <1>1, HoldingsOfType
<1>5. ASSUME NEW p \in Pool
      PROVE  /\ NextEpochVotingPower(pools[p]) \in Nat
             /\ NextEpochVotingPower(pools[p]) <= HoldingsOf[p]
             /\ HoldingsOf[p] \in Nat
  <2>1. pools[p] \in StakePool
    BY <1>3
  <2>2. NextEpochVotingPower(pools[p]) \in Nat /\ pools[p].inactive \in Nat
    BY <2>1, NextEpochVotingPowerType DEF StakePool
  <2>3. HoldingsOf[p] = NextEpochVotingPower(pools[p]) + pools[p].inactive
    BY <2>1 DEF HoldingsOf, Holdings, NextEpochVotingPower, StakePool
  <2> HIDE DEF NextEpochVotingPower
  <2> QED
    BY <2>2, <2>3
<1>6. Backing(id) \in [Pool -> Nat]
  BY <1>1, <1>5, BackingType
<1>7. \A p \in Pool : Backing(id)[p] <= HoldingsOf[p]
  <2> SUFFICES ASSUME NEW p \in Pool
               PROVE  Backing(id)[p] <= HoldingsOf[p]
    OBVIOUS
  <2>1. /\ Backing(id)[p] = (IF <<p, id>> \in entirely_voted
                             THEN NextEpochVotingPower(pools[p]) ELSE 0)
                              + used[<<p, id>>]
        /\ used[<<p, id>>] \in Nat
        /\ used[<<p, id>>] <= NextEpochVotingPower(pools[p])
    BY <1>1 DEF Backing
  <2>2. CASE <<p, id>> \in entirely_voted
    <3>1. used[<<p, id>>] = 0
      BY <2>1, <2>2 DEF VotedTwice
    <3> QED
      BY <1>5, <2>1, <2>2, <3>1
  <2>3. CASE <<p, id>> \notin entirely_voted
    BY <1>5, <2>1, <2>3
  <2> QED
    BY <2>2, <2>3
<1>8. Total(Backing(id)) <= Total(HoldingsOf)
  <2> DEFINE f == Backing(id)
             h == HoldingsOf
  <2>1. f \in [Pool -> Int] /\ h \in [Pool -> Int] /\ \A p \in Pool : f[p] <= h[p]
    BY <1>4, <1>6, <1>7
  <2> HIDE DEF f, h
  <2>2. Total(f) <= Total(h)
    BY <2>1, PoolAssumption, TotalMono
  <2> QED
    BY <2>2 DEF f, h
<1>9. /\ Total(Backing(id)) \in Nat /\ Total(HoldingsOf) \in Nat
      /\ Total(fees_table) \in Nat /\ Total(wallet) \in Nat
  BY <1>3, <1>4, <1>6, PoolAssumption, TotalNat, Zenon
<1> HIDE DEF Total
<1> QED
  BY <1>2, <1>3, <1>8, <1>9

\* The votes against can never reach those that decided: together they are
\* stake, and stake is part of the supply.
LEMMA DecisionStands ==
  ASSUME GovernanceIInv, NEW id \in DOMAIN proposals,
         staking_config.allow_validator_set_change,
         approved[id] # NoHash, Secs(now) < proposals[id].expiration_secs,
         supply < 2 * proposals[id].early_resolution_vote_threshold,
         \A p \in Pool : ~VotedTwice(p, id)
  PROVE  Succeeded(proposals[id], Secs(now))
<1> DEFINE pr == proposals[id]
<1>1. BallotOK(id) /\ pr \in Proposal /\ IInv
  BY BallotFacts
<1>2. /\ pr.early_resolution_vote_threshold # NoThreshold
      /\ pr.yes_votes >= pr.early_resolution_vote_threshold
      /\ pr.yes_votes + pr.no_votes >= pr.min_vote_threshold
  BY <1>1, Zenon DEF BallotOK, ApprovedIsDecided
<1>3. /\ pr.early_resolution_vote_threshold \in Nat
      /\ pr.yes_votes \in Nat /\ pr.no_votes \in Nat
  BY <1>1, <1>2 DEF Proposal
<1>4. /\ pr.yes_votes + pr.no_votes <= Total(Backing(id))
      /\ \A p \in Pool : used[<<p, id>>] <= NextEpochVotingPower(pools[p])
  BY <1>1, Zenon DEF BallotOK, VotesHaveStake
<1>5. Total(Backing(id)) <= supply /\ Total(Backing(id)) \in Nat
  BY <1>4, BackingInSupply
<1>6. supply \in Int
  BY <1>1 DEF IInv, TypeOK
<1>7. pr.yes_votes > pr.no_votes
  <2> DEFINE y == pr.yes_votes
             n == pr.no_votes
             t == pr.early_resolution_vote_threshold
             b == Total(Backing(id))
  <2>1. /\ y \in Nat /\ n \in Nat /\ t \in Nat /\ b \in Nat /\ supply \in Int
        /\ y >= t /\ y + n <= b /\ b <= supply /\ supply < 2 * t
    BY <1>2, <1>3, <1>4, <1>5, <1>6
  <2> HIDE DEF y, n, t, b
  <2>2. y > n
    BY <2>1
  <2> QED
    BY <2>2 DEF y, n
<1> QED
  BY <1>2, <1>7 DEF Succeeded, IsVotingClosed, CanBeResolvedEarly

\* Where the validator set can change, a decision stands until it expires,
\* whatever is voted after it, however stake moves and whatever is minted,
\* unless rewards make the supply reach twice the threshold or the flag was
\* switched off between two votes of one pool.
THEOREM DecisionsStandUntilSupplyGrows ==
  GovernanceSpec => [](staking_config.allow_validator_set_change
                         => EarlyResolutionIsDefinitive)
<1>1. GovernanceIInv =>
        (staking_config.allow_validator_set_change
           => EarlyResolutionIsDefinitive)
  BY DecisionStands DEF EarlyResolutionIsDefinitive
<1> QED
  BY <1>1, GovernanceInvariant, PTL

\* Every step moves stake as StakeMoves says: it is a step of Stake, or one
\* that leaves the supply alone.
LEMMA StakeOrTransfer ==
  ASSUME GovernanceIInv, [GovernanceNext]_governanceVars
  PROVE  StakeMoves /\ ([Next]_stakeVars \/ supply' = supply)
<1>0. MoneyIInv
  BY BallotFacts
<1>1. [Next]_stakeVars => StakeMoves
  BY <1>0, StakeStepMoves
<1>2. CASE OwnersStep
  <2>1. ASSUME NEW p \in Pool, OwnerStep(p) \/ OperatorStep(p) PROVE Next
    BY <2>1 DEF Next
  <2>2. ASSUME NEW p \in Pool, NEW q \in Pool, NEW amount \in TransferAmount,
               Transfer(p, q, amount)
        PROVE  StakeMoves /\ supply' = supply
    BY <1>0, <2>2, TransferMoves DEF Transfer
  <2> QED
    BY <1>2, <1>1, <2>1, <2>2 DEF OwnersStep
<1>3. CASE BlockStep
  BY <1>3, <1>1 DEF BlockStep, Next
<1>4. ASSUME NEW p, NEW hash, NEW multi_step,
             CreateProposal(p, hash, multi_step)
      PROVE  UNCHANGED stakeVars
  BY <1>4, Zenon DEF CreateProposal
<1>5. ASSUME NEW id, ProposalStep(id)
      PROVE  [Next]_stakeVars
  <2>1. ASSUME NEW p, NEW power, NEW should_pass,
               VoteInternal(p, id, power, should_pass)
        PROVE  UNCHANGED stakeVars
    BY <2>1, Zenon DEF VoteInternal
  <2>2. CASE \/ AddApprovedScriptHash(id) \/ RemoveApprovedHash(id)
             \/ \E script \in Hash : ResolveViaVoting(id, script)
    BY <2>2 DEF AddApprovedScriptHash, RemoveApprovedHash, ResolveViaVoting
  <2>3. CASE Execute
    <3>1. CASE GovernanceStep
      BY <3>1 DEF Next
    <3> QED
      BY <2>3, <3>1 DEF Execute, UpdateGovernanceConfig, ChangeFeatureFlags,
         ChangeFeatureFlagsForNextEpoch
  <2>4. CASE \E script \in Hash : Resolve(id, script)
    BY <2>3, <2>4 DEF Resolve
  <2>5. CASE \E script \in Hash, next_hash \in Hash \cup {NoHash} :
               ResolveMultiStepProposal(id, script, next_hash)
    BY <2>3, <2>5 DEF ResolveMultiStepProposal
  <2>6. CASE \E p \in Pool, should_pass \in BOOLEAN :
               \/ Vote(p, id, should_pass)
               \/ \E power \in VoteAmount : PartialVote(p, id, power, should_pass)
    BY <2>1, <2>6, Zenon DEF Vote, PartialVote
  <2> QED
    BY <1>5, <2>2, <2>4, <2>5, <2>6, ZenonT(60) DEF ProposalStep
<1>6. CASE UNCHANGED governanceVars
  BY <1>6, <1>1 DEF governanceVars
<1>7. CASE ExecuteTestnetOnly
  <2>1. CASE GovernanceStep
    BY <2>1, <1>1 DEF Next
  <2>2. CASE UNCHANGED stakeVars
    BY <2>2, <1>1
  <2> QED
    BY <1>7, <2>1, <2>2 DEF ExecuteTestnetOnly, Execute, ChangeFeatureFlags,
       UpdateGovernanceConfig, ChangeFeatureFlagsForNextEpoch
<1> QED
  BY <1>2, <1>3, <1>4, <1>5, <1>6, <1>7, <1>1 DEF GovernanceNext

-----------------------------------------------------------------------------
(* What governance keeps of Stake *)

\* Transfers and the scripts of proposals, in any order with all operations
\* of Stake, keep its types and sums.
THEOREM GovernanceKeepsMoney ==
  GovernanceSpec => [](TypeOK /\ PoolsAreBacked /\ SupplyIsConserved
                         /\ TotalIsSumOfSnapshots)
<1>1. GovernanceIInv => TypeOK /\ PoolsAreBacked /\ SupplyIsConserved
                          /\ TotalIsSumOfSnapshots
  BY DEF GovernanceIInv, MoneyIInv, IInv
<1> QED
  BY <1>1, GovernanceInvariant, PTL

\* Neither do they free stake before its lockup has run out, nor mint more
\* than rewards_rate of the supply in an epoch.
THEOREM GovernanceKeepsLockups ==
  GovernanceSpec => LockupIsRespected /\ InflationWithinRate
<1>1. GovernanceIInv /\ [GovernanceNext]_governanceVars =>
        [\A p \in Pool :
           NextEpochVotingPower(pools[p])' < NextEpochVotingPower(pools[p])
             => Secs(now') >= pools[p].locked_until_secs]_stakeVars
  <2> SUFFICES ASSUME StakeMoves, NEW p \in Pool,
                 NextEpochVotingPower(pools[p])' < NextEpochVotingPower(pools[p])
               PROVE  Secs(now') >= pools[p].locked_until_secs
    BY StakeOrTransfer, Zenon
  <2>1. NextEpochVotingPower(pools[p])' = NextEpochVotingPower(pools'[p])
    OBVIOUS
  <2> QED
    BY <2>1 DEF StakeMoves
<1>2. GovernanceIInv /\ [GovernanceNext]_governanceVars =>
        [Inflation =>
           (supply' - supply) * staking_config.rewards_rate_denominator
             <= supply * staking_config.rewards_rate]_stakeVars
  <2> SUFFICES ASSUME GovernanceIInv, [GovernanceNext]_governanceVars, Inflation
               PROVE  (supply' - supply)
                          * staking_config.rewards_rate_denominator
                        <= supply * staking_config.rewards_rate
    BY Zenon
  <2>1. MoneyIInv
    BY BallotFacts
  <2>2. CASE [Next]_stakeVars
    BY <2>1, <2>2, StepMintsWithinRate
  <2>3. CASE supply' = supply
    <3> DEFINE d == staking_config.rewards_rate_denominator
               rr == staking_config.rewards_rate
    <3>1. /\ d \in Nat /\ rr \in Nat /\ supply \in Nat
      <4>1. /\ supply \in Int /\ circulating \in Nat /\ circulating <= supply
            /\ staking_config \in StakingConfig
        BY <2>1, ConfigAssumption DEF MoneyIInv, IInv, TypeOK
      <4> QED
        BY <4>1 DEF StakingConfig
    <3> HIDE DEF d, rr
    <3>2. (supply' - supply) * d = 0
      BY <2>3, <3>1
    <3>3. supply * rr \in Nat
      BY <3>1, NatProduct
    <3>4. 0 <= supply * rr
      BY <3>3
    <3>5. (supply' - supply) * d <= supply * rr
      BY <3>2, <3>4
    <3> QED
      BY <3>5 DEF d, rr
  <2> QED
    BY <2>2, <2>3, StakeOrTransfer
<1> QED
  BY <1>1, <1>2, GovernanceInvariant, PTL
     DEF GovernanceSpec, LockupIsRespected, InflationWithinRate
=============================================================================
