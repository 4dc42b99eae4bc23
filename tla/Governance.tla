----------------------------- MODULE Governance -----------------------------
(***************************************************************************)
(* On-chain governance over the stake pools: endless_governance.move with  *)
(* the voting forum of voting.move.                                        *)
(*                                                                         *)
(* A stake pool proposes and votes with its current stake, provided that   *)
(* it is locked up until the proposal expires.  Stake keeps moving while   *)
(* votes are cast: owners deposit, unlock, withdraw and transfer EDS, and  *)
(* epochs end.  A proposal that succeeds is resolved by the script whose   *)
(* hash it names; the script gets the signer of the framework, and with it *)
(* the operations that Stake calls GovernanceStep.                         *)
(*                                                                         *)
(* A caller is taken to be the delegated voter of the pool it names.       *)
(* Proposal id i of the code is proposals[i + 1].                          *)
(***************************************************************************)
EXTENDS Stake, Voting

CONSTANTS
  GovernanceConfigs,   \* the values GovernanceConfig can take
  VoteAmount,          \* voting power that callers of partial_vote name
  TransferAmount,      \* EDS that owners send each other
  PartialAtGenesis,    \* whether the feature flags of genesis enable it
  FlagSettings,        \* what scripts set that flag to
  Testnet,             \* whether a core resources account can mint
  Steps,               \* kinds of proposals: single-step FALSE, multi-step TRUE
  MaxBallots           \* bound: proposals ever created

GovernanceConfig ==
  [min_voting_threshold : Nat, required_proposer_stake : Nat,
   voting_duration_secs : Nat]

ASSUME GovernanceAssumption ==
  /\ GovernanceConfigs # {} /\ GovernanceConfigs \subseteq GovernanceConfig
  /\ VoteAmount \subseteq Nat /\ TransferAmount \subseteq Nat
  /\ Steps \subseteq BOOLEAN /\ PartialAtGenesis \subseteq BOOLEAN
  /\ FlagSettings \subseteq BOOLEAN /\ Testnet \in BOOLEAN
  /\ MaxBallots \in Nat

VARIABLES
  proposals,           \* VotingForum<GovernanceProposal>.proposals
  governance_config,
  entirely_voted,      \* VotingRecords: pairs of pool and proposal
  used,                \* VotingRecordsV2: power used; 0 when absent
  approved,            \* ApprovedExecutionHashes; NoHash when absent
  partial              \* partial voting: see PartialVoting

ballotVars == <<proposals, entirely_voted, used, approved>>
settingVars == <<governance_config, partial>>
governanceVars == <<stakeVars, ballotVars, settingVars>>

Ballots == 1..MaxBallots

\* enabled: the bit of the feature in Features.  pending: its bit in
\* PendingFeatures, none while there is no such resource.
\* (Genesis has called initialize_partial_voting; a second call aborts.)
PartialVoting == [enabled : BOOLEAN, pending : SUBSET BOOLEAN]

-----------------------------------------------------------------------------
(* Voting power *)

GetVotingPower(p) ==
  IF staking_config.allow_validator_set_change
  THEN NextEpochVotingPower(pools[p])
  ELSE IF p \in CurrentValidators
       THEN pools[p].active + pools[p].pending_inactive
       ELSE 0

\* Mutant: partial votes are not subtracted.
UsedVotingPower_V1Only(p, id) ==
  IF <<p, id>> \in entirely_voted THEN GetVotingPower(p) ELSE 0

\* What get_remaining_voting_power subtracts: a pool in VotingRecords has
\* used all it has, one in VotingRecordsV2 what that says, but only while
\* partial voting is enabled.
UsedVotingPower(p, id) ==
  IF <<p, id>> \in entirely_voted THEN GetVotingPower(p)
  ELSE IF partial.enabled THEN used[<<p, id>>]
  ELSE 0

\* Mutant: the lockup of a voter is not looked at.
LockedFor_Anyone(p, secs) == TRUE

LockedFor(p, secs) == pools[p].locked_until_secs >= secs

-----------------------------------------------------------------------------
(* Proposals and votes *)

\* create_proposal_v2 of voting.move refuses the empty hash.
NewScripts == Hash

CreateProposal(p, hash, multi_step) ==
  LET expiration == Secs(now) + governance_config.voting_duration_secs
      early == IF supply = 0 THEN NoThreshold ELSE (supply \div 2) + 1
      min == governance_config.min_voting_threshold
  IN /\ p \in registered /\ Len(proposals) < MaxBallots
     /\ GetVotingPower(p) >= governance_config.required_proposer_stake
     /\ LockedFor(p, expiration)
     /\ ThresholdsFit(min, early)
     /\ proposals' = Append(proposals,
          NewProposal(hash, min, early, expiration, multi_step))
     /\ UNCHANGED <<stakeVars, entirely_voted, used, approved, settingVars>>

\* The record of a vote: by amount with partial voting, else by presence.
Recorded(p, id, power) ==
  IF partial.enabled
  THEN /\ used' = [used EXCEPT ![<<p, id>>] = @ + power]
       /\ UNCHANGED entirely_voted
  ELSE /\ entirely_voted' = entirely_voted \cup {<<p, id>>}
       /\ UNCHANGED used

\* vote_internal.  used above the pool's voting power aborts in the
\* subtraction of get_remaining_voting_power.
VoteInternal(p, id, voting_power, should_pass) ==
  LET pr == proposals[id]
      power == AtMost(voting_power, GetVotingPower(p) - UsedVotingPower(p, id))
      voted == Voted(pr, power, should_pass, Secs(now))
  IN /\ p \in registered
     /\ LockedFor(p, pr.expiration_secs)
     /\ UsedVotingPower(p, id) <= GetVotingPower(p)
     /\ power > 0
     /\ AcceptsVotes(pr, Secs(now))
     /\ proposals' = [proposals EXCEPT ![id] = voted]
     /\ Recorded(p, id, power)
     /\ approved' = IF Succeeded(voted, Secs(now))
                    THEN [approved EXCEPT ![id] = pr.execution_hash]
                    ELSE approved
     /\ UNCHANGED <<stakeVars, settingVars>>

\* vote names MAX_U128, which is all the pool has left.
Vote(p, id, should_pass) == VoteInternal(p, id, GetVotingPower(p), should_pass)

PartialVote(p, id, power, should_pass) ==
  VoteInternal(p, id, power, should_pass)

-----------------------------------------------------------------------------
(* Approval and resolution *)

AddApprovedScriptHash(id) ==
  /\ Succeeded(proposals[id], Secs(now))
  /\ approved' = [approved EXCEPT ![id] = proposals[id].execution_hash]
  /\ UNCHANGED <<stakeVars, proposals, entirely_voted, used, settingVars>>

\* Public, for proposals that were resolved through voting.move directly.
RemoveApprovedHash(id) ==
  /\ proposals[id].is_resolved
  /\ approved' = [approved EXCEPT ![id] = NoHash]
  /\ UNCHANGED <<stakeVars, proposals, entirely_voted, used, settingVars>>

UpdateGovernanceConfig(c) ==
  /\ governance_config' = c
  /\ UNCHANGED <<stakeVars, partial>>

\* change_feature_flags with PARTIAL_GOVERNANCE_VOTING, in either list.
ChangeFeatureFlags(on) ==
  /\ partial' = [partial EXCEPT !.enabled = on]
  /\ UNCHANGED <<stakeVars, governance_config>>

\* The buffer starts as a copy of the flags in force, so that a change of
\* another feature for the next epoch also writes this one's bit.
ChangeFeatureFlagsForNextEpoch(on) ==
  /\ partial' = [partial EXCEPT !.pending = {on}]
  /\ UNCHANGED <<stakeVars, governance_config>>

\* What a script does with the signer that resolving gives it.
Execute ==
  \/ GovernanceStep /\ UNCHANGED settingVars
  \/ \E c \in GovernanceConfigs : UpdateGovernanceConfig(c)
  \/ \E on \in FlagSettings :
       ChangeFeatureFlags(on) \/ ChangeFeatureFlagsForNextEpoch(on)
  \/ UNCHANGED <<stakeVars, settingVars>>

\* resolve of a single-step proposal by the script with this hash.
Resolve(id, script_hash) ==
  /\ Resolvable(proposals[id], Secs(now), script_hash)
  /\ ~proposals[id].multi_step
  /\ proposals' = [proposals EXCEPT ![id].is_resolved = TRUE]
  /\ approved' = [approved EXCEPT ![id] = NoHash]
  /\ Execute
  /\ UNCHANGED <<entirely_voted, used>>

\* The guards of resolve_proposal_v2 and its effect on the proposal.
ResolveStep(id, script_hash, next_hash) ==
  /\ Resolvable(proposals[id], Secs(now), script_hash)
  /\ proposals[id].multi_step \/ next_hash = NoHash
  /\ proposals' = [proposals EXCEPT ![id] = StepResolved(@, next_hash)]

\* resolve_multi_step_proposal: the approval moves on to the next step.
ResolveMultiStepProposal(id, script_hash, next_hash) ==
  /\ ResolveStep(id, script_hash, next_hash)
  /\ approved' = [approved EXCEPT ![id] = next_hash]
  /\ Execute
  /\ UNCHANGED <<entirely_voted, used>>

\* The same script may call voting.move itself: approvals stay, no signer.
ResolveViaVoting(id, script_hash) ==
  /\ \/ /\ Resolvable(proposals[id], Secs(now), script_hash)
        /\ ~proposals[id].multi_step
        /\ proposals' = [proposals EXCEPT ![id].is_resolved = TRUE]
     \/ \E next_hash \in Hash \cup {NoHash} :
          ResolveStep(id, script_hash, next_hash)
  /\ UNCHANGED <<stakeVars, entirely_voted, used, approved, settingVars>>

\* get_signer_testnet_only gives the core resources account the signer
\* without any proposal.
ExecuteTestnetOnly ==
  /\ Testnet
  /\ Execute
  /\ UNCHANGED ballotVars

-----------------------------------------------------------------------------

\* endless_coin::transfer between owners.
Transfer(p, q, amount) ==
  /\ p # q /\ amount <= wallet[p] /\ amount > 0
  /\ wallet' = [wallet EXCEPT ![p] = @ - amount, ![q] = @ + amount]
  /\ UNCHANGED <<registered, pools, config, queueVars, powerVars,
                 validator_perf, fees_table, staking_config, pool_store,
                 circulating, supply, clockVars>>

OwnersStep ==
  /\ \/ \E p \in Pool : OwnerStep(p) \/ OperatorStep(p)
     \/ \E p, q \in Pool, amount \in TransferAmount : Transfer(p, q, amount)
  /\ UNCHANGED <<ballotVars, settingVars>>

\* Pending flags come into force with on_new_epoch, in finish() of
\* reconfiguration_with_dkg; block_prologue ends epochs without it, and a
\* second finish() in one block does not start another epoch.
BlockStep ==
  /\ SystemStep
  /\ \/ UNCHANGED partial
     \/ \E on \in partial.pending :
          partial' = [enabled |-> on, pending |-> {}]
  /\ UNCHANGED <<ballotVars, governance_config>>

GovernanceInit ==
  /\ Init
  /\ governance_config \in GovernanceConfigs
  /\ proposals = <<>>
  /\ entirely_voted = {}
  /\ used = [x \in Pool \X Ballots |-> 0]
  /\ approved = [id \in Ballots |-> NoHash]
  /\ \E on \in PartialAtGenesis : partial = [enabled |-> on, pending |-> {}]

ProposalStep(id) ==
  \/ \E p \in Pool, should_pass \in BOOLEAN :
       \/ Vote(p, id, should_pass)
       \/ \E power \in VoteAmount : PartialVote(p, id, power, should_pass)
  \/ AddApprovedScriptHash(id)
  \/ RemoveApprovedHash(id)
  \/ \E script \in Hash :
       \/ Resolve(id, script)
       \/ \E next_hash \in Hash \cup {NoHash} :
            ResolveMultiStepProposal(id, script, next_hash)
       \/ ResolveViaVoting(id, script)

GovernanceNext ==
  \/ OwnersStep
  \/ BlockStep
  \/ ExecuteTestnetOnly
  \/ \E p \in Pool, hash \in NewScripts, multi_step \in Steps :
       CreateProposal(p, hash, multi_step)
  \/ \E id \in DOMAIN proposals : ProposalStep(id)

GovernanceSpec == GovernanceInit /\ [][GovernanceNext]_governanceVars

-----------------------------------------------------------------------------
(* Properties *)

\* Every variable of this module has its type.
GovernanceTypeOK ==
  /\ proposals \in Seq(Proposal) /\ Len(proposals) <= MaxBallots
  /\ governance_config \in GovernanceConfigs
  /\ entirely_voted \subseteq Pool \X Ballots
  /\ used \in [Pool \X Ballots -> Nat]
  /\ approved \in [Ballots -> Hash \cup {NoHash}]
  /\ partial \in PartialVoting

HasVoted(p, id) == <<p, id>> \in entirely_voted \/ used[<<p, id>>] > 0

\* Whoever has voted stays locked up until the proposal expires: neither
\* increase_lockup, nor the renewal at an epoch change, nor a shorter lockup
\* duration that governance sets, moves a lockup to an earlier time.
VotersStayLocked ==
  /\ GovernanceTypeOK
  /\ \A id \in DOMAIN proposals, p \in Pool :
       HasVoted(p, id) =>
         pools[p].locked_until_secs >= proposals[id].expiration_secs

\* The pool has an entry for the proposal in both tables of records: it
\* voted by amount, and by presence while partial voting was not enabled.
VotedTwice(p, id) == <<p, id>> \in entirely_voted /\ used[<<p, id>>] > 0

\* While the lockup of its voters runs, each record of a vote on a proposal
\* is backed by the stake that its pool has: no deposit, unlock, withdrawal,
\* transfer, epoch change or change of the flag, in either direction, lets
\* the same EDS vote through two pools, nor more than once for each of the
\* two tables that vote_internal records votes in.
VotesAreBacked ==
  \A id \in DOMAIN proposals :
    Secs(now) < proposals[id].expiration_secs =>
      proposals[id].yes_votes + proposals[id].no_votes
        <= Total([p \in Pool |->
                    (IF <<p, id>> \in entirely_voted
                     THEN GetVotingPower(p) ELSE 0)
                      + (IF used[<<p, id>>] > 0 THEN GetVotingPower(p) ELSE 0)])

\* "A stake pool can vote on a proposal multiple times as long as the total
\* voting power of these votes doesn't exceed its total voting power."
PowerIsUsedOnce ==
  \A id \in DOMAIN proposals :
    Secs(now) < proposals[id].expiration_secs =>
      proposals[id].yes_votes + proposals[id].no_votes
        <= Total([p \in {q \in Pool : HasVoted(q, id)} |-> GetVotingPower(p)])

\* A vote that decides a proposal early decides it for good: until it
\* expires, later votes cannot outnumber the threshold of half the supply
\* plus one, so the script hash that was approved stays that of a proposal
\* that has succeeded.  Two things undo a decision, and nothing else: rewards
\* that make the supply reach twice the threshold, which keeps the supply of
\* the proposal's creation, and a pool whose power was counted twice.
EarlyResolutionIsDefinitive ==
  \A id \in DOMAIN proposals :
    /\ approved[id] # NoHash /\ Secs(now) < proposals[id].expiration_secs
    /\ supply < 2 * proposals[id].early_resolution_vote_threshold
    /\ \A p \in Pool : ~VotedTwice(p, id)
    => Succeeded(proposals[id], Secs(now))

\* A multi-step proposal that has begun can be finished: between its steps
\* no vote, epoch or passing of time takes its success away.
StartedIsFinishable ==
  \A id \in DOMAIN proposals :
    proposals[id].in_execution =>
      Resolvable(proposals[id], Secs(now), proposals[id].execution_hash)

-----------------------------------------------------------------------------
(* Why these hold: what every step preserves of one proposal, id *)

\* Nobody gets out of the lockup it voted under.
VotersLocked(id) ==
  \A p \in Pool : HasVoted(p, id) =>
    pools[p].locked_until_secs >= proposals[id].expiration_secs

\* Only multi-step proposals are executed in steps, and can go on.
StepsCanGoOn(id) ==
  LET pr == proposals[id] IN
    pr.in_execution =>
      pr.multi_step /\ Resolvable(pr, Secs(now), pr.execution_hash)

\* What stands behind the votes on id: a pool that voted by presence stands
\* for all it has, one that voted by amount for what it used.
Backing(id) ==
  [p \in Pool |-> (IF <<p, id>> \in entirely_voted
                   THEN NextEpochVotingPower(pools[p]) ELSE 0)
                     + used[<<p, id>>]]

VotesHaveStake(id) ==
  LET pr == proposals[id] IN
    /\ staking_config.allow_validator_set_change
    /\ Secs(now) < pr.expiration_secs
    => /\ pr.yes_votes + pr.no_votes <= Total(Backing(id))
       /\ \A p \in Pool : used[<<p, id>>] <= NextEpochVotingPower(pools[p])

\* What is approved before it expires has reached the early threshold.
ApprovedIsDecided(id) ==
  LET pr == proposals[id] IN
    approved[id] # NoHash /\ Secs(now) < pr.expiration_secs =>
      /\ pr.early_resolution_vote_threshold # NoThreshold
      /\ pr.yes_votes >= pr.early_resolution_vote_threshold
      /\ pr.yes_votes + pr.no_votes >= pr.min_vote_threshold

\* The next proposal starts with no vote and no approval.
FreshBallot(id) ==
  approved[id] = NoHash /\ \A p \in Pool : ~HasVoted(p, id)

BallotOK(id) ==
  /\ VotersLocked(id)
  /\ StepsCanGoOn(id)
  /\ VotesHaveStake(id)
  /\ ApprovedIsDecided(id)

\* Together with the types and the invariant of Stake these are inductive.
GovernanceIInv ==
  /\ MoneyIInv
  /\ GovernanceTypeOK
  /\ \A id \in Ballots \ DOMAIN proposals : FreshBallot(id)
  /\ \A id \in DOMAIN proposals : BallotOK(id)

\* vote_internal: "the used voting cannot exceed the total voting power of
\* this stake pool", as long as votes on the proposal are taken.
UsedWithinPower ==
  \A id \in DOMAIN proposals, p \in Pool :
    AcceptsVotes(proposals[id], Secs(now)) => used[<<p, id>>] <= GetVotingPower(p)
=============================================================================
