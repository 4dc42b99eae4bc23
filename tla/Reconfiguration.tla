-------------------------- MODULE Reconfiguration --------------------------
(***************************************************************************)
(* Blocks, epochs and distributed key generation around the validator set: *)
(* block.move, reconfiguration.move, reconfiguration_with_dkg.move,        *)
(* dkg.move, transaction_fee.move, the reconfigure functions of            *)
(* endless_governance.move and the buffer of config_buffer.move.           *)
(*                                                                         *)
(* Every system transaction is an instance of Stake's Block, so a          *)
(* behaviour of ChainSpec is one of Stake's Spec.  With randomness on, an  *)
(* epoch that has timed out only opens a reconfiguration: a DKG session    *)
(* runs over several blocks, stake and validator set are frozen, and its   *)
(* result, a later transaction, enters the next epoch.                     *)
(*                                                                         *)
(* One flag, randomness, stands for every on-chain config with a buffer:   *)
(* it is validator_txn_enabled() /\ randomness_config::enabled(), the      *)
(* part of them that decides which path a reconfiguration takes.           *)
(***************************************************************************)
EXTENDS Stake

CONSTANTS
  FeeAmount,            \* fees that a transaction can be charged
  EpochInterval,        \* BlockResource.epoch_interval, in ticks
  BurnPercentage,       \* values of burn_percentage, one of them genesis'
  RandomnessAtGenesis,
  NoConfig, NoSession,
  ConfigsNow,           \* what governance passes to set()
  ConfigsNext           \* and to set_for_next_epoch()

ASSUME ChainAssumption ==
  /\ FeeAmount \subseteq Nat \ {0}
  /\ EpochInterval \in Nat \ {0}
  /\ BurnPercentage # {} /\ BurnPercentage \subseteq 0..100
  /\ RandomnessAtGenesis \in BOOLEAN
  /\ NoConfig \notin BOOLEAN
  /\ ConfigsNow \subseteq BOOLEAN /\ ConfigsNext \subseteq BOOLEAN

ConsensusInfos ==
  Seq([addr : Pool, pk_bytes : Key, voting_power : Nat])
Session == [dealer_epoch : Nat, dealers : ConsensusInfos,
            target : ConsensusInfos]

ASSUME SessionAssumption == NoSession \notin Session

VARIABLES
  epoch,
  in_progress,          \* DKGState.in_progress: a session or NoSession
  last_completed,       \* DKGState.last_completed
  randomness,           \* the config in force
  buffer,               \* PendingConfigs: a config or NoConfig
  collected,            \* CollectedFeesPerBlock.amount
  fee_proposer,         \* .proposer; NoProposer also for @0x0
  burn_percentage,      \* .burn_percentage
  phase                 \* of the block: see Phases

feeVars == <<collected, fee_proposer, burn_percentage>>
dkgVars == <<in_progress, last_completed>>
configVars == <<randomness, buffer>>
chainVars == <<stakeVars, epoch, dkgVars, configVars, feeVars,
               phase>>

\* "open": user and validator transactions run.  "epilogue": the running
\* transaction has reconfigured and only its own fee is still charged; what
\* follows it is retried in the next block.  "closed": the block has ended.
Phases == {"open", "epilogue", "closed"}

-----------------------------------------------------------------------------
(* What consensus learns of the validator set *)

ConsensusInfo(p, key, power) ==
  [addr |-> p, pk_bytes |-> key, voting_power |-> power]

\* cur_validator_consensus_infos: sorted by validator index.
CurConsensusInfos ==
  LET entries == {active_validators[i] : i \in DOMAIN active_validators}
        \cup {pending_inactive[i] : i \in DOMAIN pending_inactive}
      At(i) == CHOOSE e \in entries : e.config.validator_index = i
  IN [i \in 1..Cardinality(entries) |->
        ConsensusInfo(At(i - 1).addr, At(i - 1).config.consensus_pubkey,
                      At(i - 1).voting_power)]

\* next_validator_consensus_infos, a forecast of on_new_epoch made when the
\* session starts, from the state the transaction has reached (primed).
\* It is not the same computation: the candidates keep their order, every
\* one loses pending_inactive stake whose lockup is over, rewards are
\* neither split nor given to pending_inactive stake, and all_stake counts
\* pending_active stake.
ForecastPower(p, current, all_stake, perf, start) ==
  LET sp == pools[p]
      reward == IF current
        THEN RewardsAmount(sp.active, all_stake,
               perf[config[p].validator_index + 1], supply')
        ELSE 0
  IN sp.active + sp.pending_active + reward
       + (IF start >= sp.locked_until_secs THEN 0 ELSE sp.pending_inactive)
       + (IF CollectFees THEN fees_table'[p] ELSE 0)

\* The set has one member: what is kept is kept in order.
NextConsensusInfos(perf, start) ==
  LET all_stake == Total([p \in CurrentValidators |->
                            NextEpochVotingPower(pools[p])])
      cand == active_validators \o pending_active
      Power(p) == ForecastPower(p, p \in Members(active_validators),
                                all_stake, perf, start)
      Info(e) == ConsensusInfo(e.addr, config[e.addr].consensus_pubkey,
                               Power(e.addr))
      staying == {k \in DOMAIN cand :
                    Power(cand[k].addr) >= staking_config.minimum_stake}
      Keeps == {k \in [1..Cardinality(staying) -> staying] : Picks(k, staying)}
  IN {[i \in DOMAIN keep |-> Info(cand[keep[i]])] : keep \in Keeps}

-----------------------------------------------------------------------------
(* Fees *)

\* process_collected_fees: a proposer gets what burning leaves; without one
\* all is burnt.
BurntFees ==
  IF fee_proposer = NoProposer THEN collected
  ELSE (burn_percentage * collected) \div 100
Payee ==
  IF fee_proposer = NoProposer THEN CHOOSE p \in CurrentValidators : TRUE
  ELSE fee_proposer

\* Mutant: processing the fees does not forget the proposer.
BlockWithFees_KeepsProposer(proposer, failed, t, kind, next_proposer) ==
  /\ Block(proposer, failed, Payee, collected - BurntFees, BurntFees, t, kind)
  /\ collected' = 0
  /\ fee_proposer' =
       IF next_proposer = NoProposer THEN fee_proposer ELSE next_proposer
  /\ UNCHANGED burn_percentage

\* Block with the fees collected so far; proposer is who collects next.
BlockWithFees(proposer, failed, t, kind, next_proposer) ==
  /\ Block(proposer, failed, Payee, collected - BurntFees, BurntFees, t, kind)
  /\ collected' = 0
  /\ fee_proposer' = next_proposer
  /\ UNCHANGED burn_percentage

BlockWithoutFees(proposer, failed, t, kind) ==
  /\ Block(proposer, failed, CHOOSE p \in CurrentValidators : TRUE, 0, 0, t,
           kind)
  /\ UNCHANGED feeVars

\* collect_fee of the epilogue of a user transaction.
CollectFee(fee) ==
  /\ phase \in {"open", "epilogue"}
  /\ collected + fee <= circulating
  /\ collected' = collected + fee
  /\ phase' = IF phase = "open" THEN "open" ELSE "closed"
  /\ UNCHANGED <<stakeVars, epoch, dkgVars, configVars, fee_proposer,
                 burn_percentage>>

\* Fees collected under the old percentage are processed first, and the
\* block loses its proposer as the receiver of fees.
UpgradeBurnPercentage(percentage) ==
  /\ phase = "open" /\ CurrentValidators # {}
  /\ Block(NoProposer, {}, Payee, collected - BurntFees, BurntFees, now,
           "continue")
  /\ collected' = 0
  /\ fee_proposer' = NoProposer
  /\ burn_percentage' = percentage
  /\ UNCHANGED <<epoch, dkgVars, configVars, phase>>

-----------------------------------------------------------------------------
(* Reconfiguration *)

\* reconfigure() of reconfiguration.move in a transaction at time now.
Reconfigure(closing) ==
  IF now = 0 \/ now = last_reconfiguration_time
  THEN UNCHANGED <<stakeVars, feeVars, epoch, phase>>
  ELSE /\ IF CollectFees
          THEN BlockWithFees(NoProposer, {}, now, "end", NoProposer)
          ELSE BlockWithoutFees(NoProposer, {}, now, "end")
       /\ epoch' = epoch + 1
       /\ phase' = closing

\* finish() of reconfiguration_with_dkg.move, but for the DKG session.
ApplyBuffer ==
  /\ randomness' = IF buffer = NoConfig THEN randomness ELSE buffer
  /\ buffer' = NoConfig

\* A session of this epoch is left alone; a stale one is replaced.
SessionIsCurrent ==
  in_progress # NoSession /\ in_progress.dealer_epoch = epoch

\* Mutant: validators that leave with the epoch do not deal.
StartDkg_ActiveDealers(perf, start) ==
  \E target \in NextConsensusInfos(perf, start) :
    in_progress' = [dealer_epoch |-> epoch,
      dealers |-> SelectSeq(CurConsensusInfos,
                    LAMBDA d : d.addr \in Members(active_validators)),
      target |-> target]

StartDkg(perf, start) ==
  \E target \in NextConsensusInfos(perf, start) :
    in_progress' = [dealer_epoch |-> epoch, dealers |-> CurConsensusInfos,
                    target |-> target]

\* get_reconfig_start_time_secs, for a session that starts at t.
StartTime(t) == IF InProgress THEN reconf.start_time_secs ELSE Secs(t)

GovernanceReconfigure ==
  /\ phase = "open" /\ CurrentValidators # {}
  /\ IF randomness
     THEN /\ ~SessionIsCurrent
          /\ BlockWithoutFees(NoProposer, {}, now, "start")
          /\ StartDkg(validator_perf, StartTime(now))
          /\ UNCHANGED <<epoch, last_completed, configVars, phase>>
     ELSE /\ Reconfigure("epilogue")
          /\ ApplyBuffer
          /\ in_progress' = NoSession
          /\ UNCHANGED last_completed

ForceEndEpoch ==
  /\ phase = "open" /\ CurrentValidators # {}
  /\ Reconfigure("epilogue")
  /\ ApplyBuffer
  /\ in_progress' = NoSession
  /\ UNCHANGED last_completed

\* finish_with_dkg_result, a validator transaction.  The module checks only
\* that a session is in progress.
FinishWithDkgResult ==
  /\ phase = "open" /\ CurrentValidators # {}
  /\ in_progress # NoSession
  /\ last_completed' = in_progress
  /\ in_progress' = NoSession
  /\ ApplyBuffer
  /\ Reconfigure("closed")

\* The deprecated set() of consensus_config and others: the config changes
\* at once and the epoch with it, behind the back of a running session.
SetConfig(c) ==
  /\ phase = "open" /\ CurrentValidators # {}
  /\ randomness' = c
  /\ Reconfigure("epilogue")
  /\ UNCHANGED <<dkgVars, buffer>>

\* Mutant: the new value does not wait for the next epoch.
SetConfigForNextEpoch_AtOnce(c) ==
  /\ phase = "open"
  /\ randomness' = c
  /\ UNCHANGED <<stakeVars, epoch, dkgVars, buffer, feeVars, phase>>

SetConfigForNextEpoch(c) ==
  /\ phase = "open" /\ buffer # c
  /\ buffer' = c
  /\ UNCHANGED <<stakeVars, epoch, dkgVars, randomness, feeVars, phase>>

-----------------------------------------------------------------------------
(* Blocks *)

EpochTimedOut(t) == t - last_reconfiguration_time >= EpochInterval

\* block_prologue_common, followed by kind.
Prologue(proposer, failed, t, kind) ==
  /\ IF CollectFees
     THEN BlockWithFees(proposer, failed, t, kind,
                        IF kind = "end" THEN NoProposer ELSE proposer)
     ELSE BlockWithoutFees(proposer, failed, t, kind)
  /\ phase' = IF kind = "end" \/ proposer = NoProposer THEN "closed"
                                                      ELSE "open"

\* Without randomness: block_prologue ends a timed-out epoch itself and
\* leaves session and buffer alone.
BlockPrologue(proposer, failed, t) ==
  /\ ~randomness
  /\ Prologue(proposer, failed, t,
              IF EpochTimedOut(t) THEN "end" ELSE "continue")
  /\ epoch' = IF EpochTimedOut(t) THEN epoch + 1 ELSE epoch
  /\ UNCHANGED <<dkgVars, configVars>>

\* With randomness: block_prologue_ext starts the DKG of a timed-out epoch.
BlockPrologueExt(proposer, failed, t) ==
  LET starts == EpochTimedOut(t) /\ ~SessionIsCurrent IN
    /\ randomness
    /\ Prologue(proposer, failed, t, IF starts THEN "start" ELSE "continue")
    /\ IF starts THEN StartDkg(Scored(proposer, failed), StartTime(t))
                 ELSE UNCHANGED in_progress
    /\ UNCHANGED <<epoch, last_completed, configVars>>

Blocks(proposer, failed, t) ==
  BlockPrologue(proposer, failed, t) \/ BlockPrologueExt(proposer, failed, t)

\* A validator's block moves time, up to the bound MaxTime.
ProposedBlock ==
  \E proposer \in CurrentValidators, t \in now + 1..MaxTime,
     failed \in SUBSET DOMAIN validator_perf :
       /\ WithinProposals(failed)
       /\ Blocks(proposer, failed, t)

\* The VM's nil block has no transactions.  (At MaxTime none follows an
\* open block, so that validators have the last word on its session.)
NilBlock ==
  /\ CurrentValidators # {}
  /\ now < MaxTime \/ phase # "open"
  /\ \E failed \in SUBSET DOMAIN validator_perf :
       /\ WithinProposals(failed)
       /\ Blocks(NoProposer, failed, now)

-----------------------------------------------------------------------------

ChainInit ==
  /\ Init
  /\ epoch = 1
  /\ in_progress = NoSession /\ last_completed = NoSession
  /\ randomness = RandomnessAtGenesis
  /\ buffer = NoConfig
  /\ collected = 0 /\ fee_proposer = NoProposer
  /\ burn_percentage \in BurnPercentage
  /\ phase = "closed"

UserTransaction ==
  /\ phase = "open"
  /\ \E p \in Pool : OwnerStep(p) \/ OperatorStep(p)
  /\ UNCHANGED <<epoch, dkgVars, configVars, feeVars, phase>>

GovernanceScript ==
  /\ phase = "open"
  /\ GovernanceStep
  /\ UNCHANGED <<epoch, dkgVars, configVars, feeVars, phase>>

ChainNext ==
  \/ ProposedBlock
  \/ NilBlock
  \/ UserTransaction
  \/ GovernanceScript
  \/ \E fee \in FeeAmount : CollectFee(fee)
  \/ \E percentage \in BurnPercentage : UpgradeBurnPercentage(percentage)
  \/ GovernanceReconfigure
  \/ ForceEndEpoch
  \/ FinishWithDkgResult
  \/ \E c \in ConfigsNow : SetConfig(c)
  \/ \E c \in ConfigsNext : SetConfigForNextEpoch(c)

ChainSpec == ChainInit /\ [][ChainNext]_chainVars

\* The chain keeps producing blocks, and the validators of an epoch finish
\* the DKG they were asked for.
FairChainSpec ==
  /\ ChainSpec
  /\ WF_chainVars(ProposedBlock)
  /\ WF_chainVars(FinishWithDkgResult)

-----------------------------------------------------------------------------
(* Properties *)

\* Every variable of this module has its type.
ChainTypeOK ==
  /\ epoch \in Nat \ {0}
  /\ {in_progress, last_completed} \subseteq Session \cup {NoSession}
  /\ randomness \in BOOLEAN /\ buffer \in BOOLEAN \cup {NoConfig}
  /\ collected \in Nat /\ fee_proposer \in Pool \cup {NoProposer}
  /\ burn_percentage \in BurnPercentage
  /\ phase \in Phases

\* The set is frozen exactly while a DKG session of this epoch runs: no path
\* out of an epoch (DKG result, governance, force_end_epoch, a synchronous
\* set() behind the back of the session, a nil block) leaves the lock on
\* without a session that will take it off, or a session without the lock.
LockedIffSession ==
  /\ ChainTypeOK
  /\ InProgress <=> SessionIsCurrent

\* The dealers of a running session are the validators of the epoch, with
\* the keys and voting powers they started with.
DealersAreCurrent == SessionIsCurrent => in_progress.dealers = CurConsensusInfos

\* Fees wait only for current validators, which on_new_epoch will pay: an
\* entry is never left behind by a validator that has gone.
FeesReachValidators ==
  /\ CollectFees => \A p \in Pool : fees_table[p] > 0 => p \in CurrentValidators
  /\ fee_proposer # NoProposer => fee_proposer \in CurrentValidators

\* Whoever stands in a queue has a consensus key, there and in its config.
KeysArePresent ==
  \A q \in {active_validators, pending_inactive, pending_active} :
    \A i \in DOMAIN q :
      /\ q[i].config.consensus_pubkey \in Key
      /\ config[q[i].addr].consensus_pubkey \in Key

\* With what they need of each other, of Stake and of the clock, these are
\* inductive, as ReconfigurationProofs shows.  A transaction runs, and a
\* session waits, only in a later block than the last reconfiguration: the
\* reconfigure() that ends it is never the one that does nothing.  A session
\* that the epoch has left behind never becomes current again.
ChainIInv ==
  /\ IInv
  /\ LockedIffSession
  /\ DealersAreCurrent
  /\ FeesReachValidators
  /\ KeysArePresent
  /\ now <= MaxTime /\ last_reconfiguration_time <= now
  /\ phase = "open" \/ InProgress => last_reconfiguration_time < now
  /\ in_progress # NoSession => in_progress.dealer_epoch <= epoch
  /\ ~CollectFees => fee_proposer = NoProposer

\* The validators of an epoch, their keys, indices and voting powers, and the
\* config in force only change when the epoch number does, whichever way
\* governance, an owner or a block changes them: nobody in the network has to
\* tell two of them apart within an epoch.
EntriesOf(q) == {q[i] : i \in DOMAIN q}
EpochEntries == EntriesOf(active_validators) \cup EntriesOf(pending_inactive)
ChangesWithEpoch ==
  [][EpochEntries' # EpochEntries \/ randomness' # randomness
     => epoch' = epoch + 1]_chainVars

\* A reconfiguration that has started ends.
ReconfigurationEnds == InProgress ~> ~InProgress

\* dkg.move:42: "The validator set of epoch `x` works together for an DKG
\* output for the target validator set of epoch `x+1`": the target of the
\* last result lists the validators of this epoch, by index.
Addresses(infos) == [i \in DOMAIN infos |-> infos[i].addr]

ResultIsForNextValidators ==
  last_completed # NoSession /\ last_completed.dealer_epoch + 1 = epoch
    => Addresses(last_completed.target) = Addresses(CurConsensusInfos)
=============================================================================
