------------------------------- MODULE Voting -------------------------------
(***************************************************************************)
(* A proposal of the generic voting forum, voting.move, and the functions  *)
(* that decide when it is closed, what its outcome is and what a vote or a *)
(* resolution makes of it.  The forum has no state besides the table of    *)
(* proposals, which Governance keeps; secs is the time in seconds.         *)
(*                                                                         *)
(* The three entries of a proposal's metadata that the module reads are    *)
(* fields here: multi_step, in_execution and resolvable_time (the time of  *)
(* the last vote; NoTime before the first).                                *)
(***************************************************************************)
EXTENDS Integers

CONSTANTS
  Hash, NoHash,        \* execution hashes of scripts; NoHash is the empty one
  NoThreshold,         \* option::none of early_resolution_vote_threshold
  NoTime

ASSUME HashAssumption == NoHash \notin Hash
ASSUME OptionAssumption == NoThreshold \notin Nat /\ NoTime \notin Nat

Proposal ==
  [execution_hash : Hash,
   min_vote_threshold : Nat,
   early_resolution_vote_threshold : Nat \cup {NoThreshold},
   expiration_secs : Nat,
   yes_votes : Nat, no_votes : Nat,
   is_resolved : BOOLEAN,
   multi_step : BOOLEAN, in_execution : BOOLEAN,
   resolvable_time : Nat \cup {NoTime}]

NewProposal(hash, min, early, expiration, multi_step) ==
  [execution_hash |-> hash,
   min_vote_threshold |-> min,
   early_resolution_vote_threshold |-> early,
   expiration_secs |-> expiration,
   yes_votes |-> 0, no_votes |-> 0,
   is_resolved |-> FALSE,
   multi_step |-> multi_step, in_execution |-> FALSE,
   resolvable_time |-> NoTime]

\* The check of create_proposal_v2 on the two thresholds.
ThresholdsFit(min, early) == early # NoThreshold => min <= early

-----------------------------------------------------------------------------

IsVotingPeriodOver(pr, secs) == secs > pr.expiration_secs

CanBeResolvedEarly(pr) ==
  /\ pr.early_resolution_vote_threshold # NoThreshold
  /\ \/ pr.yes_votes >= pr.early_resolution_vote_threshold
     \/ pr.no_votes >= pr.early_resolution_vote_threshold

IsVotingClosed(pr, secs) ==
  CanBeResolvedEarly(pr) \/ IsVotingPeriodOver(pr, secs)

\* get_proposal_state = PROPOSAL_STATE_SUCCEEDED; whether the proposal is
\* resolved already plays no part in it.
Succeeded(pr, secs) ==
  /\ IsVotingClosed(pr, secs)
  /\ pr.yes_votes > pr.no_votes
  /\ pr.yes_votes + pr.no_votes >= pr.min_vote_threshold

\* Mutant: votes are taken between the steps of a multi-step proposal.
AcceptsVotes_InExecution(pr, secs) ==
  /\ ~IsVotingPeriodOver(pr, secs)
  /\ ~pr.is_resolved

\* The checks of vote.  A proposal that can be resolved early still takes
\* votes; a multi-step proposal that is being executed does not.
AcceptsVotes(pr, secs) ==
  /\ ~IsVotingPeriodOver(pr, secs)
  /\ ~pr.is_resolved
  /\ ~pr.in_execution

\* vote, with num_votes for or against.
Voted(pr, num_votes, should_pass, secs) ==
  IF should_pass
  THEN [pr EXCEPT !.yes_votes = @ + num_votes, !.resolvable_time = secs]
  ELSE [pr EXCEPT !.no_votes = @ + num_votes, !.resolvable_time = secs]

\* is_proposal_resolvable: by the script it names, and not in the second of
\* the last vote.
Resolvable(pr, secs, script_hash) ==
  /\ Succeeded(pr, secs)
  /\ ~pr.is_resolved
  /\ pr.resolvable_time # NoTime /\ secs > pr.resolvable_time
  /\ script_hash = pr.execution_hash

\* resolve_proposal_v2: one step of a multi-step proposal; NoHash ends it.
StepResolved(pr, next_hash) ==
  IF next_hash = NoHash
  THEN [pr EXCEPT !.is_resolved = TRUE, !.in_execution = FALSE]
  ELSE [pr EXCEPT !.execution_hash = next_hash, !.in_execution = TRUE]
=============================================================================
