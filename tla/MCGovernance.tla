------------------------------ MODULE MCGovernance ---------------------------
(* Instances of Governance for TLC. *)
EXTENDS Governance, TLC

CONSTANTS p1, p2, k1, h1, h2

Cfg(secs, rate) ==
  [minimum_stake |-> 4, maximum_stake |-> 8,
   recurring_lockup_duration_secs |-> secs,
   allow_validator_set_change |-> TRUE,
   rewards_rate |-> rate, rewards_rate_denominator |-> 2,
   voting_power_increase_limit |-> 50]

LongLockup == {Cfg(2, 0)}
LongLockupRewarded == {Cfg(2, 1)}

Ballot(min, stake, secs) ==
  [min_voting_threshold |-> min, required_proposer_stake |-> stake,
   voting_duration_secs |-> secs]
ShortBallot == {Ballot(2, 2, 1)}

TwoPools == {p1, p2}
OnePool == {p1}
FirstOnly == <<p1>>
FirstTwo == <<p1, p2>>
LoneStake == [p \in Pool |-> IF p = p1 THEN 4 ELSE 0]
Wallets == [p \in Pool |-> 0]
JoinerWallet == [p \in Pool |-> IF p = p1 THEN 0 ELSE 2]

NoShares == <<>>
Nothing == {}
Three == {3}
Two == {2}
SingleStep == {FALSE}
Off == {FALSE}
On == {TRUE}
Either == BOOLEAN
BothKinds == BOOLEAN
=============================================================================
