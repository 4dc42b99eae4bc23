# A TLA+ model of the Endless Move framework

The repository holds the on-chain framework of the Endless blockchain: Move
modules that every validator executes (`endless-framework`), the libraries
they use (`endless-stdlib`, `move-stdlib`, `endless-token`), the Rust functions
the Move VM calls for them (`src/natives`, `table-natives`) and build tools.
This directory models two parts of it: what decides who validates and with how
much stake, how one validator set is handed over to the next, and how the chain
governs itself; and the native functions that keep a state for the session that
calls them, with what becomes of that state in storage. It checks the models
with TLC and proves theorems about them with TLAPS.

All paths below are relative to the repository; a bare `x.move` is
`endless-framework/sources/x.move`.

## 1. Inventory

Move executes transactions one after the other, and each is atomic: a failed
assertion undoes it. The hard behaviour is therefore in the *order* of
transactions (owners, operators, delegators, governance scripts and the system
transactions at the start of every block), in what one transaction leaves
behind for another one many blocks later, and in numbers that are computed at
one time and used at another.

The Rust natives are called in the middle of a transaction. Each keeps its state
in a context of the session (a cache of table entries, a list of points, a
pending request), gas may run out at every charge, and the VM turns the contexts into
changes of storage at the end or throws them away. What is hard there: state that is
changed before the call has paid for it, handles that must not outlive or alias what they
stand for, long sequences of calls that must add up to one correct change, and values that are
speculated on while other transactions change them.

| Component | State | Operations | Interacts with |
|---|---|---|---|
| Validator set, stake pools (`stake.move`, `reconfiguration_state.move`) | three queues of `ValidatorInfo`, a `StakePool` of four buckets and a lockup per pool, `ValidatorConfig`, performance counters, `ValidatorFees`, totals of voting power, the common store of all stake, the lock of a reconfiguration | deposit, unlock, reactivate, withdraw, extend the lockup, rotate the key, join, leave, governance removal, `on_new_epoch` | block prologue, fees, governance, delegation pools and contracts (which own pools) |
| Staking configuration (`configs/staking_config.move`) | limits, lockup duration, reward rate | updates by governance, decrease of the rate over the years | stake |
| Blocks and epochs (`block.move`, `reconfiguration.move`, `reconfiguration_with_dkg.move`, `dkg.move`) | time, epoch number, epoch interval, DKG session in progress and last completed | two prologues, nil blocks, start of a reconfiguration, DKG result, forced end | stake, fees, configurations, validator nodes (which run the DKG) |
| Configurations (`configs/*.move`, `config_buffer.move`) | a value in force and a buffered one each | set at once, set for the next epoch, apply | blocks, governance |
| Transaction fees (`transaction_fee.move`) | fees of the running block, proposer to pay, burn percentage, storage fees | collect, process, upgrade of the percentage, storage refunds | blocks, stake |
| Voting forum (`voting.move`) | proposals: votes, thresholds, expiration, execution state | create, vote, resolve at once or in steps | governance |
| Governance (`endless_governance.move`) | settings, voting records, approved script hashes | propose, vote in whole or in part, approve, resolve, reconfigure | stake (voting power is stake), voting, every setting |
| Delegation pools (`delegation_pool.move`) | share pools per lockup cycle, observed lockup cycle, operator commission, vote delegation | add, unlock, reactivate, withdraw, synchronise, delegate and vote | stake, governance, `pool_u128_unbound` |
| Staking contracts, vesting (`staking_contract.move`, `vesting.move`) | contracts per operator, distribution shares, vesting schedule | deposit, unlock, commission, distribute, vest, terminate | stake |
| Multisig accounts (`multisig_account.move`) | owners, threshold, queue of transactions with votes | create, approve, reject, execute, change owners | VM |
| Locked coins (`locking_coin_ex.move`) | locking plans per token and recipient | add plan, claim | epochs, fungible assets |
| Accounts (`account.move`, ...) | authentication keys, offers, resource accounts | create, rotate, offer, revoke | VM |
| Objects, fungible assets (`object.move`, `fungible_asset.move`, ...) | ownership, stores, supply | create, transfer, mint, burn, freeze | everything that holds value |
| Code publishing (`code.move`, `natives/code.rs`) | a registry of packages per address, one request per transaction | publish, upgrade, freeze | VM, builder |
| Package builder, module metadata (`extended_checks.rs`, `built_package.rs`, `module_metadata.rs`) | attributes of a module, metadata in its bytecode | check and record at build time, verify and read on chain | publishing, events, VM |
| Tables (`table-natives`, `table.move`, `table_with_length.move`) | a cache of entries, new and removed handles | new, add, borrow, contains, remove, destroy, change set | storage, gas |
| Aggregators (`natives/aggregator_natives`) | a history of deltas per aggregator, snapshots, derived strings | create, add, sub, compare, read, snapshot, change set | parallel executor, storage |
| Algebra (`natives/cryptography/algebra`) | a list of objects, the memory they take | operations on groups, fields and a pairing, serialization, casts | arkworks |
| Ristretto255, range proofs (`ristretto255*.rs`, `bulletproofs.rs`) | a list of points | operations on points and scalars, in place and not | curve25519-dalek |
| Signature schemes (`bls12381.rs`, `ed25519.rs`, `multi_ed25519.rs`, `secp256k1.rs`) | none; callers keep keys and signatures | validate, aggregate, verify, recover | `endless_crypto` |
| Transaction context, GUIDs, events, randomness (`transaction_context.rs`, `guid.move`, `event.rs`, `randomness.rs`) | counters of a session, of an account, of an event handle, of a transaction's draws | unique addresses, GUIDs, emissions, random bytes | accounts, objects, VM |
| Keyless keys, gas, version and the rest | see `PROJECT.json` | | |

What is hard in each, at its line, is the list `hazards` of `PROJECT.json`; it
also names the properties that would catch it going wrong, or says why there is
none. What makes the modelled components correct:

* *Validator set:* a pool is in one queue at most and once; indices, performance
  and fees always find their validator; an entry's voting power is the stake of
  its pool for a whole epoch; the joining limit holds for all increases
  together; stake leaves only after its lockup; every coin of stake is there;
  no coin is created except as a reward within the rate.
* *Blocks and epochs:* the set is frozen exactly while a DKG for it runs;
  a reconfiguration ends; the dealers are the validators; configurations change
  with the epoch; fees reach validators.
* *Multisig accounts:* enough distinct owners for the threshold, at any time; no transaction
  without the votes of the owners of its time; the queue goes on.
* *Governance:* the same EDS votes once, as far as the feature flag stays; voters stay locked
  up; an early decision is final unless the supply grows beyond it; a proposal whose execution has begun can be completed.
* *Tables:* a table is a map, whatever the cache does; a load is paid for; a commit
  writes what changed and nothing else; handles are never given out twice.
* *Aggregators:* delaying a read does not change what a program sees; what commits is what a
  sequential execution leaves; a session runs again only when it must.
* *Code:* registry and published code agree; policies are kept through upgrades; what the
  builder accepts, the chain accepts; metadata is true of the code.
* *Algebra, Ristretto, signatures:* an element a program holds is usable and is the value the
  mathematics says; a verified aggregate was signed by those it names.
* *Identifiers:* nothing that must be unique is given out twice, and no event is missing.

## 2. Modules

```
 Totals <- Stake <- Reconfiguration <- MCReconfiguration
             ^  ^--- MCStake         ^--- ReconfigurationProofs
             |  ^--- StakeProofs (with TotalProofs)
             +------ Governance <- MCGovernance <---------+
           Voting <----+  ^--- GovernanceProofs           +- MCApprovals
 Totals <- MultisigAccount <- MCMultisigAccount <---------+
                  ^--- MultisigProofs (with TotalProofs)

 TableMaps <..refines.. Tables      <- MCTables <------+
                          ^--- TablesProofs            |
 Deltas <------------- Aggregators  <- MCAggregators <-+- MCSessionChanges
                          ^--- SessionChangesProofs    |
 ModuleMetadata <----- Packages     <- MCPackages <----+
                          ^--- SessionChangesProofs

                       Algebra      <- MCAlgebra <-----+
                          ^--- SessionObjectsProofs    |
 Totals <------------- Signatures   <------------------+- MCSessionObjects
                          ^--- SessionObjectsProofs    |
 Totals <------------- Ristretto    <- MCRistretto <---+
                          ^--- SessionObjectsProofs    |
                       Identifiers  <------------------+
                          ^--- SessionObjectsProofs
```

**Totals** has one operator, the total of a function with a finite domain.

**Stake** is `stake.move` with the settings of `staking_config.move` and the
lock of `reconfiguration_state.move`. A variable corresponds to each resource:
`pools` (StakePool), `config` (ValidatorConfig), `active_validators`,
`pending_inactive`, `pending_active`, `total_voting_power` and
`total_joining_power` (ValidatorSet), `validator_perf`, `fees_table`
(ValidatorFees), `pool_store` (the store of @endless_framework), `reconf`
(reconfiguration_state::State), `now`. Every entry function that changes them
is an action with the function's name and its assertions as guards; the epoch
change, one transaction in the code, is `OnNewEpoch`, built from operators for
its passages: `Picks` and `Renew`, rewards and
other accounts' shares, the two queue merges with their reversal, the indices. `Block` is a system transaction
in general: it scores proposals, credits fees, may start a reconfiguration or
end the epoch. Owners call for their pool: the capability objects that the
code passes around are not modelled.

**Reconfiguration** refines `Block`: both prologues of `block.move`, nil blocks,
`reconfigure`, a DKG session with its dealers and its target set, results,
stale sessions, the randomness switch as the representative of the buffered
configurations (a prologue without a DKG leaves the buffer alone, `finish` applies it), and `transaction_fee.move`. The target of a session is the
forecast of `next_validator_consensus_infos`, modelled as a function of its own
as it is in the code (`NextConsensusInfos` is the set of its possible results, which has one
member: a forecast that aborts has none). `phase` says how far a block is: after a transaction that has
reconfigured the VM runs no more of the block's transactions.

**Voting** has the record of a proposal and the decisions of `voting.move` about it
(open, closed, succeeded, resolvable, next step). **Governance** extends it and
Stake with the actions of `endless_governance.move`. A script is its hash; what it does
when it executes, with the framework's signer, is a governance operation on the
validator set, a change of the governance settings, a change of the feature flag of partial voting,
or nothing of interest; on a test network the core resources account gets the signer without a
proposal (`ExecuteTestnetOnly`). `initialize_partial_voting` is called by genesis,
so `used` (VotingRecordsV2) exists from the start. The flag is set or cleared at once (`ChangeFeatureFlags`) or
in the pending vector (`ChangeFeatureFlagsForNextEpoch`), which an epoch change installs as a whole. Governance
does not model how blocks end epochs, so `BlockStep` may install what is pending or not in any system transaction: more
than any chain does, which is sound for the invariants checked.

**MultisigAccount** is one account of `multisig_account.move`: its list of owners as a
bag (how often each address occurs; the order is never used), the threshold and the queue by
sequence number. A payload is what it does to the account: a change of the owners and
the threshold through `update_owner_schema`, with the assertions in it as the
guard, or of the authentication keys; the empty change stands for all others.
`ExecuteSuccessfully` is validation, payload and clean-up, which the VM runs as one transaction; `ExecuteFailing`
has no payload, because an aborted payload leaves nothing behind. An account that existed before
may keep its keys, and whoever holds them does the same changes without
the queue (`SignedWithKeys`); `auth_key` says whether enough of them can sign.

**Tables** is `table-natives/src/lib.rs` with the lengths of `table_with_length.move`. A slot is a
handle with a key. `content` is the cache, `Table::content`: a slot is unloaded, or in one of the states of a `GlobalValue`
(`none`, `fresh`, `clean`, `dirty`, `deleted`). `tables` are the handles with their lengths, `new_tables` and
`removed_tables` the fields of the context, `gas` what is left. A native that looks up, charges
and then succeeds or aborts is an action; running out of gas after the lookup is
a branch of it, and an abort ends the session and drops its context. `IntoChangeSet` computes the change set by
`Effect` and applies it to storage. A transaction that was aborted may run again under the
same hash, as the executor of blocks does. **TableMaps** is what the two Move modules promise: maps with names,
a session that works on copies, commit or abort. The refinement takes as a map what a
program sees: the cached entry where there is one and storage elsewhere.

**Deltas** is the arithmetic that the natives call in the library `endless_aggregator`: a delta,
the bounds that the outcomes so far put on the number it is for, merging. The library is not in the
repository; the operators follow the uses and tests in `context.rs` and are marked external.
**Aggregators** is the context with the natives of versions 1 and 2 for one aggregator, one snapshot and
one derived string, with delayed fields and without. `OthersCommit` is the rest of the block: other
transactions change the number while the session runs. `plain` is a ghost with the
result of the same session in the branch without delayed fields, for every number that the aggregator might have had.

**ModuleMetadata** has pure operators: the checks of attributes (`extended_checks.rs`), the metadata put into
the bytecode and its verification on chain, section by section and in the order of the code, since the order decides
which error comes out and what an error leaves recorded. A module is given by its structs, functions and constants.
**Packages** is `code.move`: registries, policies and dependencies, the pending
request of `natives/code.rs`, and the publication at the end of the transaction. `BuildPackage` lets the builder
make any of a few hundred source modules and the chain judge the result.

**Algebra** has an action per native on elements, over a small setting that keeps what the code
relies on: three groups of one prime order with a bilinear map, the third of them a
subgroup of the units of a field whose Rust type it shares. `objs` is the vector of the
context, `held` what the program has, each element with what it stands for (`means`, a ghost).
**Ristretto** is the same for the point store, whose points change in place, with
scalars and compressed points that go through storage as bytes; a ghost `value` says what each variable of the
program should be. **Signatures** keeps what a program collects: public keys with proofs of possession and
signatures, and lets it validate, aggregate and verify any sequence of them.
**Identifiers** are four counters that must not repeat, with what commits and aborts leave of each.

**The MC modules** name the constants of the runs. `MCSessionChanges` and `MCSessionObjects` put several families
of natives into one run, since these share the session and nothing else: a behaviour chooses one family
and stays with it, so that the state space is a union and not a product. `MCApprovals` does the same with multisig
accounts and governance.
**TotalProofs, StakeProofs, ReconfigurationProofs, GovernanceProofs, MultisigProofs, TablesProofs,
SessionChangesProofs, SessionObjectsProofs** are the proofs; the last two are about Packages and Aggregators, and about
Identifiers, Ristretto, Algebra and Signatures; ReconfigurationProofs and GovernanceProofs build on StakeProofs. Operators with a suffix and the
comment "Mutant" (`InValidatorSet_NoCandidates`) are plausible errors in the
code; no specification uses them. Putting one in the place of its
original makes the run that `PROJECT.json` names fail, which shows that the
property depends on that piece of the code.

## 3. Runs

Every run is one module with one `.cfg`; each passing one explores all states
of its instance.

| Run | What it shows |
|---|---|
| `stake_queues` | Three validators join, leave and are removed, in any order and under a minimum that governance raises over a small one's stake: queues stay disjoint, indices and totals correct. |
| `stake_money` | One validator and one joiner deposit, unlock, reactivate, withdraw and change their minds, with a reward of half the stake per epoch, a share of ten percent for another account and fees outside: the joining limit, snapshots of voting power and lockups hold, pools are backed to the last coin and the supply is conserved. |
| `chain_dkg` | Randomness switches on and off, by the buffer and at once, also behind the back of a session: the set is locked exactly while a session runs, dealers are current, the set and the configuration change with the epoch only. |
| `chain_liveness` | A reconfiguration that has started ends. |
| `chain_fees` | Fees, burning, a changing burn percentage, nil blocks, epochs ending in the middle, rewards under the feature `eds_supply_inflation`, which stay within the rate; and `ChainSpec` implements `Spec` of Stake (the refinement mapping is the identity: Reconfiguration extends Stake). |
| `governance_votes` | Two owners vote in pieces while they deposit, transfer, unlock, withdraw and epochs end: voters stay locked up and the same EDS does not vote through two pools. |
| `approvals` | *Governance:* a pool votes by presence and by amount on a single- or multi-step proposal, resolved by its script or through `voting.move`, while partial voting goes on and off, at once and pending, from either setting, and rewards of half the stake make the supply grow: no record counts for more than its pool's stake, an early decision stands unless the supply has reached twice its threshold or a pool was counted in both tables of records, and what was started can be finished. *Multisig:* three addresses create the account in each way, then queue, vote on, execute, fail and reject transactions that change owners, threshold and keys while others are pending: enough distinct owners always remain, and nothing leaves the queue or changes the account without the votes of enough owners of that moment, unless its keys can sign. |
| `session_changes` | *Tables:* two sessions make, fill, borrow from, empty and drop up to two tables each, run out of gas and abort anywhere; the cache over storage implements the maps (`ImplementsMaps`), a load is paid for, change sets fit storage. *Aggregators:* a session adds, subtracts, compares, snapshots and reads while others change the number; it answers what a plain session would (`PlainAgrees`), commits serially, and is not failed needlessly. *Packages:* two packages and a code object are published, upgraded and frozen, under the features in the order they were rolled out; registries match the code, imports are declared, policies are kept; what is built is accepted on chain and described truly. |
| `session_objects` | *Algebra:* every sequence of calls that fits the memory: handles work, results are those of the mathematics. *Ristretto:* points behind two variables are values, whatever is assigned in place and whichever scalars storage holds. *Signatures:* keys and signatures of up to two signers, in any order, with any left out or spoilt: a verdict is true of those it names. *Identifiers:* GUIDs, unique addresses, random bytes and event numbers are fresh across commits, aborts, deletion and re-creation. |

Three runs end in a violation. Each states a sentence of the code's own comments that the
code does not keep; `findings` in `PROJECT.json` quotes both sides.

| Run | The sentence, and what the run shows |
|---|---|
| `dkg_target` | The DKG of epoch x is for the validators of x+1 (`dkg.move:42`): with two candidates their order differs. |
| `governance_boundary` | The subtraction in `get_remaining_voting_power` cannot overflow (`endless_governance.move:436`): it aborts in the second in which lockup and proposal both end. Only an abort follows, no vote is counted twice. |
| `governance_disable` | The votes of a pool on a proposal do not exceed its power (`endless_governance.move:10-11`): a pool votes by amount, another proposal's script disables partial voting (`features.move:482-522`), and `get_remaining_voting_power` no longer subtracts what VotingRecordsV2 says. It votes with all its power once more, and not again, since then it is in VotingRecords: this is the bound that `VotesAreBacked` states, and why `EarlyResolutionIsDefinitive` excepts such pools. |

More sentences that the code does not keep, met while modelling, have no run:

* Updates of on-chain configurations are applied "whenever we enter an new epoch" (`endless_governance.move:532-533`; of the
  features, `features.move:475-476`). `block_prologue`, which runs without randomness, enters one through
  `reconfiguration::reconfigure` (`block.move:200`), which applies no buffer; what is pending stays so, over any number of
  such epochs, until a `finish` (of a DKG or of governance's `reconfigure`) installs it. In `chain_dkg` buffers are
  left pending this way, and what they hold is still installed only with a new epoch (`ChangesWithEpoch`).
* `unlock_with_cap` does not need an expired lockup (`stake.move:887` says so; what needs it is the way out of
  pending_inactive, which `LockupIsRespected` covers).
* A resolved proposal's hash can be approved again (`endless_governance.move:472`), though it
  cannot be resolved again.
* Voting power is not capped at the maximum stake (`staking_config.move:56`): rewards lift it above,
  `generate_validator_info` takes what there is.
* `freeze_code_object` makes packages immutable without comparing policies with those of
  dependencies, which publishing would refuse with `EDEP_WEAKER_POLICY` (`code.move:93`).
* A `#[resource_group_member]` without arguments makes `extended_checks.rs` panic instead of
  reporting; an inline function may be a `#[view]` for the builder, but then it is not in the bytecode
  and the verifier refuses the module. `BuildsAreAccepted` excepts both.
* The subgroup check of a public key is charged as its deserialization (`bls12381.rs:160`), though the
  native names a cost of its own (line 387).
* A `PublicKeyWithPoP` is said to have a proof that was verified (`bls12381.move:53`);
  `public_key_with_pop_from_bytes` wraps what it is given and leaves that to its caller. In the model
  only verified keys enter.
* Version 1 of the validation of MultiEd25519 keys ignores the threshold (`multi_ed25519.rs:61`); it stays
  for old transactions.

### Bounds

* Pools: two where the question is about money, power or votes, which
  move between at most two owners; three where it is about orders of
  queues, since with three entries `swap_remove` differs from removal in
  order and a reversal from a rotation.
* `MaxTime`: global time goes from 0 to 2 or, with blocks, to 3 or 4 ticks. A second is one
  tick (`TicksPerSec`). Lockups last one second (two with governance), so that they
  run out, are renewed and run out again; an epoch is two ticks long
  where blocks decide its end, so that there are at least two and a session can go stale.
* `Amount`, stakes and wallets: stakes of 2, 4 and 8, deposits of 2, limits at
  2 (or 4) and 8 and a joining limit of 50 percent put sums below, at and above each limit. The rate of one
  half makes rewards large enough to cross the maximum within two epochs and odd enough to round; `approvals` has
  it too (`LongLockupRewarded`), and its supply passes twice a threshold within the lockup.
* `FlagSettings`: what scripts set the flag to. Each run of governance has the settings it is about: none, only on, only
  off, or both.
* `MaxProposals` failed proposals per validator and epoch and `MaxRemoved`, the
  length of a removal list; `MaxBallots` proposals (two where the script of one changes the flag under the other; in `approvals` and
  `governance_votes` the test network's signer does what other proposals' scripts do, `Testnet`, so that one is enough). One failed proposal distinguishes
  a full from a reduced reward; two removals in one call show the effect of the first
  `swap_remove` on the second.
* Multisig: three owners-to-be with a threshold of one or two, and two transactions, the first of
  which changes what the votes of the second count for. The six payloads add a newcomer together with
  a possible duplicate, swap, remove, ask for no signatures, and switch keys on and off.
* Tables: two keys (symmetric), a value that fills a page of two bytes exactly and one that begins a second, a
  limit of 7 units of gas at one or two per step, so that most sequences of four to seven calls
  fit and each runs out at every point of some; two sessions, so that the second finds what the first left.
* Aggregators: maxima of 1 and 2 make both bounds reachable in one step and in a sum, `MaxOps` 3
  calls with others' commits between them; a text that fits a derived string and one that does not.
* Packages: two features at a time as they were rolled out, one upgrade each, bytecode of versions 5 and 6, and
  source modules that have each attribute well formed, malformed and in the wrong place.
* Algebra: R = 3 and Q = 7, the smallest pair in which the units of the field have a proper subgroup of order R; three
  objects of two bytes in seven, so that the limit is hit and missed; inputs of multi-operations up to length 2.
  All of one curve and the scalars of the other, which is where structures can be confused.
* Ristretto: order 3, two variables, two stored values, inputs up to three points; bytes that are not reduced.
* Signatures: a group of order 5 with a cofactor of 2, two messages, two signers, lists of all orders.
* Identifiers: two transactions, three calls, counters of two bits in bytes of two and a range of two GUIDs, so that each
  counter runs out.
* In Stake, `Key` has one key and the initial state one order: keys distinguish only
  whether a validator has one.
* Integers are unbounded in the models, `u64` and `u128` in the code. The
  products in the code stay below 2^128 for any supply below 2^64 (the rate and its
  denominator are limited to 10^6), which the code's own comments rely on.

### Fairness

`FairChainSpec` assumes weak fairness of `ProposedBlock` (the chain keeps
making blocks, which is what consensus is for) and of
`FinishWithDkgResult` (the validators of the epoch, all of which are dealers of
the session, finish it). The second is not weaker than needed: without a result
only governance (`force_end_epoch`) ends a reconfiguration; the framework has no
timeout. Nothing is assumed of owners or governance. The run has a last tick; an
open block at that tick is not followed by a nil block, so that the result
of its session can still come in.

`chain_fees` runs without deadlock check since governance can remove every active
validator there, and a set that has become empty makes no more blocks; `approvals` and the two runs of sessions, since
nothing is left to do when the last transaction within the bound has ended. The sessions need no
fairness: nothing is said about a program that stops in the middle.

## 4. Proofs

`TotalProofs` proves of `Total` what its definition by a fold does not show:
that it is an integer (a natural number) if the values are, what an update adds, that
sums and partitions of domains are respected. The library's induction theorems
take an operator and cannot be used here, so the proof goes by sets:
`NatSetInduction` states induction as "a set of naturals with 0 and closed under
successor is Nat", and everything follows from the existence of partial sums along any
enumeration of the domain.

`StakeProofs` proves `Spec => []IInv` (`InductiveInvariant`) for every set of
pools, every stake, every setting of governance and bounds, from the assumptions that
`Stake` states about its constants, and from it `TypeCorrect`,
`QueuesStayDisjoint`, `IndicesStayInOrder`, `SnapshotsHold` and
`NoStrayPendingStake`. The conjuncts need one another:

* `TypeOK` says that no bucket becomes negative; unlocking and withdrawing cap their
  amounts, but an epoch change needs that rewards are natural numbers, which needs
  performance records for every current validator (`IndicesMatchPerformance`)
  and `circulating <= supply` for the inflation formula.
* `QueuesDisjoint` is not inductive alone: join checks that the caller is in no queue,
  and the epoch change merges queues after filtering them.
* `IndicesMatchPerformance` needs `QueuesDisjoint`: two entries of one pool would share
  an index. `swap_remove` and removals permute entries; indices travel with them.
* `VotingPowerIsSnapshot` needs that deposits of current validators go to
  pending_active, and a move between active and pending_inactive leaves their sum.
* `PendingStakeOnlyWhileValidating` needs that an epoch change merges before it lets anyone
  go; its value is that a pool which is out has all its stake in
  active, pending_inactive and inactive.
* `InValidatorSet \subseteq registered`: only an existing pool is in the set, so
  `initialize_validator` cannot disturb the entry of one.

The structure is one lemma per operation, a lemma for what an epoch change computes
(`OnNewEpochFacts`), one for the queue operators (`AppendPoppedFacts`), and the
composition in `NextIInv`.

Its second half goes on to the sums: `Spec => []MoneyIInv`, and from it that pools are backed
to the last coin, the supply is conserved, `total_voting_power` is the sum of the snapshots and
`total_joining_power` covers what will join. What `MoneyIInv` adds to these and to `IInv`:

* A pool that is not registered is empty: a registration overwrites it.
* `reconf.start_time_secs <= Secs(now)`: `update_stake_pool` decides by the start of the reconfiguration what
  is unlocked; were it in the future, stake would be freed before its lockup has run out.

The sums over queues are turned into sums over pools (`PowersAreStake`: since an entry of a current validator
shows the stake of its pool, the sum of the snapshots is `TotalStake`; `IncreaseIsTotal`), so that a step that changes one
pool changes every sum at one place, and an epoch change is the sum of what it does to each pool. `OwnerEffect` says of all owner operations at once what they do
to a pool, a wallet and the sums; `OnNewEpochEffects` is the same for the epoch change. Two action properties follow:
`LockupStaysRespected`, and `InflationStaysWithinRate`, which is arithmetic (`RewardBound`: a bucket gets at most its
part of the rate; `SharesFit`: the split rounds down). `IncreaseStaysWithinLimit` has the
hypothesis that governance leaves the limit as it is: `update_voting_power_increase_limit` may lower it below what
has joined already, and then the bound is broken until the epoch ends. The run has one limit too.

`ReconfigurationProofs` proves `ChainSpec => Spec` (`ChainImplementsStake`), so that all of the above holds on the chain
(`ChainKeepsStakeSafe`), and `ChainSpec => []ChainIInv`, from which follow the properties of `chain_dkg`: lock and
session, dealers, fees, and that the validators and the configuration change with the epoch only. `ChainIInv` adds
to the properties

* that every entry of the queues, and so every dealer and target of a session, has a key: join checks it,
  a rotation replaces a key by a key, and the epoch change copies those of the configs;
* that a transaction runs, and a session waits, only at a later time than the last reconfiguration.
  `reconfigure()` returns without doing anything when called twice in one tick; this is why the one
  that ends a session, or follows the installation of a configuration, is never that one;
* that a session the epoch has left behind is of an earlier epoch, and so never becomes current again.

One lemma per transaction shows the three results of a step at once (`StepOK`: the invariant, a step of Stake or a
stutter, and what may change when).

`GovernanceProofs` proves `GovernanceSpec => []GovernanceIInv` and from it `VotersStayLockedUp`,
`StartedStaysFinishable`, `VotesStayBacked` and `DecisionsStandUntilSupplyGrows`, for any changes of the flag of partial voting. Stake moves under the ballots by every operation of Stake, by transfers
and by the scripts of proposals; what ballots depend on is summed up in
`StakeMoves`: lockups only grow, and the power of a pool goes down only when its lockup has run out. That is
`LockupIsRespected` again, so the safety of voting rests on it. The invariant is one statement per ballot (`BallotOK`), and a
step touches one ballot or none; for the others `UntouchedBallot` is enough. Its parts:

* `VotersLocked`: who has voted, in whole or in part, is locked up until the proposal expires.
* `VotesHaveStake`: until then the votes are at most `Backing`, which takes for a pool that
  voted by presence all it has, and besides what it used by amount, which is at most what it has. Comparing with all the voters have is not
  inductive: a pool's second vote would add to the votes and not to the stake. A pool in both tables counts twice, as it does in the code once partial voting was disabled.
* `ApprovedIsDecided`: what is approved before it expires has reached its early threshold; votes are only added.
* `StepsCanGoOn`: between the steps of a proposal no votes are taken (`AcceptsVotes`), and time only closes it.
* `FreshBallot`: the numbers of proposals to come have no record.

Votes are counted by the power of `get_voting_power`, which for a set that can change is all but the inactive stake.
Genesis decides whether it can (`allow_validator_set_change`; no function changes it later); where
it cannot, the power of a pool that is not a current validator is 0, whatever it has voted, and `VotesStayBacked` says nothing.
`DecisionsStandUntilSupplyGrows` is about `EarlyResolutionIsDefinitive`: the votes against a decision are stake beside the votes for it,
both are part of the supply (`PoolsAreBacked`, `SupplyIsConserved`), and so they never outnumber it while the supply is less than twice the
threshold, half the supply at the proposal's creation plus one, and no pool is in both tables. Both conditions are needed: rewards can lift
the supply, a disabled flag can count a pool twice, and without either condition `approvals` finds the decision undone.
`GovernanceKeepsMoney` and `GovernanceKeepsLockups` carry the theorems of Stake over to `GovernanceSpec`.

`MultisigProofs` proves what the run `approvals` checks of multisig accounts, for every set of addresses,
every set of payloads and any number of transactions. The inductive invariant
adds to the types and the queue that no owner is there twice (`OwnersDistinct`) and that the
threshold is at most the *length* of the list (`ThresholdMet`), which is what the code
asserts; only together do they say that enough *different* owners remain. `update_owner_schema`
checks for duplicates only when it adds owners, so that removal has to be shown to
make none (`ChangeFits`). The two action properties rest on `VotesAreOwners`: counting votes over the list is
counting the owners who cast them, which needs `OwnersDistinct` and `TotalOfOnes`.

`TablesProofs` proves all that `session_changes` checks of Tables, for any keys, values, sizes, gas
schedule and number of sessions: `TablesSpec => []TablesIInv`, that loads are paid, that change
sets fit storage, and the refinement `TablesSpec => ImplementsMaps`. The conjuncts of
`TablesIInv` are what the cache has to know: what it says of a slot agrees with storage (`CacheAgrees`, without which
`Effect` cannot tell New from Modify), nothing is pending outside a session, handles not yet given out name nothing
(`HandlesAreFresh`, from the pair of session and position), and the length of a table is
the number of its entries (`LengthIsCount`, which the destruction of a table relies on: what has
length 0 leaves nothing in storage, in a cache that has loaded only some of the slots).
`LoadsArePaid` sums over the slots that are loaded, by the lemmas of `TotalProofs`. For the refinement each
native is a step of `TableMaps` on what the program sees (`Seen`), or a stutter when
only the cache changes; loading a slot does not change what is seen, and a commit makes storage
equal to it.

`SessionChangesProofs` proves in its first part the four properties of Packages about what is published, for any addresses,
publications, code objects and features, from what the code makes of a publication (`PublicationAssumption`: the package
is deserialized, so that its policy is any `u8`; a bundle has modules with identifiers). A transaction works on registries of its own
(`txn.registry`) and leaves one request to publish to its end, so its invariant has to say what these are worth while it still runs (`TxnOK`):

* each package in storage has one package that it becomes, and each package of the transaction
  comes from one or is requested: it is kept, or frozen (`KeptAs`), or upgraded by the pending request (`UpgradedTo`);
* a package whose modules are requested has those of the bundle: a second call
  would overwrite the request and leave the registry of the first behind, and this is where `CanRequest` is needed;
* what the request allows to import is declared by its package, in registries that only grow (`RequestOK`, `Declares`):
  a dependency checked by one call may be upgraded or frozen by a later one, and still declares it.

`CommitPublishes` then says what a commit makes of the code; `CommitMatches`, `CommitDeclares` and `CommitVerifies` are the
parts of the invariant, `CommitUpgrades` the action property. A policy of 3 or more acts as
`IMMUTABLE_POLICY` in every test of the code, but freezing writes a 2 over it:
`UpgradesKeepPromises` says "not weaker" and means this case too, and a publication of the run has such a policy.

Its second part proves `BuildsAreAccepted`, for every source module, bytecode version and set of features. It compares the checks of the builder with
those of the chain, attribute by attribute: what the builder records of a struct comes from one of three attributes
(`StructAttributesAre`), each of which it has checked, and what it checked is what the chain asks for (`AttributesAreAccepted`). In between, the
metadata is written to one section and read back, in version 0 without the attributes (`BuildIsDecoded`); either way the errors
remain, and the first of the constants of one value is the one that explains it (`ReasonsAreTrue`). `SourceAssumption` names what neither
side can be blamed for: the compiler gives an empty struct its dummy field, as the chain expects of a resource group (a group
without fields passes the builder), error constants have numbers, and a module is within the complexity budget, which the builder does not look at.

Its third part proves `PlainAgrees`, `NoNeedlessFailure` and `CommitsAreSerial` of Aggregators, for any maxima, inputs and texts,
any number of natives in a session and any commits of other sessions. The ghost `plain` makes them
statements about a whole family of sessions, one for every number `b` the aggregator could have, and the invariant
`AggIInv` goes through it number by number (`Follows`):

* if `b` fits what the session learnt (`FitsWork`: its history, and the predicted number once it was read), the plain session from `b`
  has answered the same up to now and holds what the session holds (`HoldsAt`), whether a field is known or a delta;
* in version 1, where nothing is validated before the merge, the converse too: a plain session that agrees fits the history;
* the number is in its bounds, or the delta is one of those the history knows to be achieved (`NumberFits`), which is what
  bounds the number at the commit for a value in storage that the session never saw (`NumberInBounds`).

A step of the session then has to show that the history after it fits fewer numbers, and among these only such as give the same
answer (`NativeIsOK`); the lemmas on histories say it of one try: `TryRecorded` (the sum is on the
same side of both bounds) and, for comparisons, `ProbeAnswers` (a comparison is the sign of what is probed).
For `CommitsAreSerial` the number at the moment of the commit is the instance of `Follows`
that counts, and validation is what makes it fit. `NothingAssumption` says that the absent value is none of the values.

`SessionObjectsProofs` proves in its first part `IdentifiersSpec => []IdentifiersIInv`, and from it `DrawsAreFresh` and `StreamsAreGapless`,
for any owners, limits, width of the randomness counter and number of transactions, from `IdentifiersAssumption` (the ranges of GUIDs
of `account.move` and `object.move` do not overlap) and `CounterAssumption` (a session ends before its counter
is through, which with 8 bytes is a matter of gas). What is drawn is remembered in `drawn`, and each kind of identifier needs its own reason
why the next one is not among them:

* A GUID is below the counter of what made it (`Counted`): below the account's, if its number is in the range of accounts,
  and otherwise below the object's. Objects are deleted and their counters with them, so this needs that no object is made again at the same address:
  the address of an object that can be deleted was hashed from an identifier drawn once (`Rooted`), and those of
  owners, where an object may be made by name, never become deletable.
* Unique addresses are ordered by transaction and counter (`DrawnBefore`, `DrawnUntil`), and so are random blobs, whose counter is an
  array of bytes. `Less` orders its states by the last byte in which they differ; `IncrementCounts` shows that a step with carry
  adds exactly one state to those that were (`Below`), unless all bytes are full. `Below` has at most as many members as there
  were calls (`CounterGoesOn`), hence the cardinality in `CounterAssumption`.
* For the streams (`StreamsFit`) the events of the log and of the session are one sequence, and the sequence that storage has is its
  prefix, so that an abort, which drops the events and the counters together, leaves a stream that goes on where it stopped.

Its second part proves `PointsAreValues` for any order of the group, any number of variables and any
limit. The invariant adds that stored scalars and points are valid, and that no two variables
hold one handle (`HandlesAreUnique`): a point has neither copy nor drop of its own in Move, and it is
this that keeps an assignment in place from changing another variable and the borrow of two points
from being of the same one. The case with work in it is the pair borrowed in either order (`AddPoint`).

Its third part proves `HandlesAreSound` and `ComputesTruly` of Algebra, for any structures, sizes and memory limit and any fields. What
it assumes of the numbers is what makes them fields and a group, and TLC evaluates it on the run's: `FieldAssumption` says that the integers modulo each
of the three are a field (a value that is not zero has an inverse) and that the pairing of the generators is not
zero, `SubgroupAssumption` that the units of Fq12 whose R-th power is 1 are the R different powers of that pairing. The invariant says of every
element what lies behind its handle (`Denotes`): a value of the structure that Move holds the handle for, in Gt a unit
and the power of the generator that the element stands for. `HandlesAreSound` needs it because the subtraction and the negation in Gt divide in Fq12 and
panic, or report a violated invariant, where there is nothing to divide by. Each way into Gt has its own reason: products of units are units
(`UnitTimesUnit`), and so are powers and inverses; what is read from bytes or cast down has been raised to the order of the subgroup and
was 1, which a power of zero is not (`PowOfZero`). `ComputesTruly` needs the laws of exponents (`PowPlus`, `PowTimes`,
`PowOfRemainder`, from an induction over the recursive function), that inverses and quotients of powers are powers (`InverseOfPower`, `QuotientIs`),
that the digits of a value give it back in every format (`WrittenIsRead`), that what `deserialize` accepts stands for something
(`ParseDenotes`), and that the order it reports is the number of elements (`OrderCounts`). Every native is shown to end the session well, to
change nothing, or to store a value for the right meaning and answer the truth (`Outcome`); the casts, which store nothing, hand out a second
handle to an object whose Rust type both structures have.

Its fourth part proves `VerdictsAreTrue` of Signatures, for any group of prime order (`PrimeOrderAssumption`: no product of
two numbers below the order is a multiple of it), any messages and any number of signers. The signatures come in any order and the
native adds them up in that order, so the sums are totals over functions that `TotalPlaced` compares along the map from a signature to its
signer. When each signer's own signature came, this is the sum that the keys and messages ask for (`CompleteIsAccepted`). When exactly one did not,
the sum is off by the difference of two numbers below the order, which is not a multiple of it (`OneApart`), unless another signature
with the same part in the subgroup came; then the sum is outside of the subgroup, and the check in `verify` refuses it (`OneWrongIsRefused`).
With one message for all, the sum of the signatures is the message times the sum of the keys (`MultisignatureIs`, `TotalRemainder`).

Every property that a passing run checks is proved, but for one that is only model-checked: `ReconfigurationEnds` of the chain, since liveness,
fairness and ENABLED are beyond the proof system.

## 5. Not modelled

* Within modelled modules: owner capabilities and who may use them, operator and
  voter addresses, the list of allowed validators, network addresses, the proof
  of possession of a validator's key, the decrease of the rewards rate, storage fees and refunds,
  views, the failure injection resources of the DKG, delegated voters of a
  pool, metadata of proposals.
* The libraries behind the natives (arkworks, curve25519-dalek, blst, the delta library, the VM's sessions and its
  executor of blocks) are not in the repository. They are modelled from their uses where a
  property needs them and marked external in the map; their arithmetic is that of small groups. What is proved of bulletproofs or
  hashes is their calls, not their mathematics.
* Amounts of gas outside Tables: a charge may fail there, whatever it costs.
* Validator nodes, consensus and the DKG protocol itself: not in the repository. A
  DKG result arrives or not.
* That governance may remove the last active validator (`remove_validators` has no counterpart of
  `ELAST_VALIDATOR`) is listed as a hazard without a property: nothing in the
  code promises otherwise, the models allow it, and no block follows.
* The components with status `not_modelled` in `PROJECT.json`, with the reason there.

## 6. Plan

Done: Stake, Reconfiguration, Governance and MultisigAccount; Tables, Aggregators, Packages with
ModuleMetadata, Algebra, Ristretto, Signatures and Identifiers. What would come next:

1. **SharePool and DelegationPool** over Stake: buy in, redeem, transfer with rounding; observed
   lockup cycles, synchronisation, commission, vote delegation. Properties: delegators
   can never redeem more than the stake pool holds, a cycle is closed once, votes of delegators
   are within the pool's power. Abstract specification: a pool of balances.
2. **LockingCoin**: unlock schedule against a reference definition; claims.
3. **StakingContract and Vesting** over Stake and SharePool: principal, commission, distribution.
4. **Objects and fungible assets**: ownership chains, stores, supply.
5. **Accounts**: key rotation, signer offers.
6. **SmartTable** against the map it implements, over Tables.
7. The decreasing rewards rate in Stake, storage fees in Reconfiguration, delegated voters in Governance.

Theorems to prove with them: of the pools of delegators, what bounds rounding over any sequence of transfers; of the schedules, that a claim never
frees more than was locked.
