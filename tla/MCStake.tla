------------------------------ MODULE MCStake ------------------------------
(* Instances of Stake for TLC. *)
EXTENDS Stake, TLC

CONSTANTS p1, p2, p3, k1

Cfg(lo, hi, rate) ==
  [minimum_stake |-> lo, maximum_stake |-> hi,
   recurring_lockup_duration_secs |-> 1,
   allow_validator_set_change |-> TRUE,
   rewards_rate |-> rate, rewards_rate_denominator |-> 2,
   voting_power_increase_limit |-> 50]

\* Governance settings: no rewards; half the stake as reward; and a
\* minimum that governance can raise above a small validator's stake.
Unrewarded == {Cfg(2, 8, 0)}
Rewarded == {Cfg(1, 8, 1)}
RisingMinimum == {Cfg(2, 8, 0), Cfg(4, 8, 0)}

TwoPools == {p1, p2}
ThreePools == {p1, p2, p3}
FirstOnly == <<p1>>
FirstTwo == <<p1, p2>>
AllThree == <<p1, p2, p3>>

Stakes == [p \in Pool |-> IF p = p1 THEN 8 ELSE 2]
Wallets == [p \in Pool |-> 0]
LoneStake == [p \in Pool |-> IF p = p1 THEN 4 ELSE 0]
SmallWallet == [p \in Pool |-> IF p = p1 THEN 0 ELSE 2]
JoinerWallet == [p \in Pool |-> IF p = p1 THEN 0 ELSE 4]

NoShares == <<>>
TenPercent == <<10>>
Nothing == {}
Two == {2}
=============================================================================
