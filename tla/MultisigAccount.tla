-------------------------- MODULE MultisigAccount --------------------------
(***************************************************************************)
(* One account shared by several owners: multisig_account.move.            *)
(*                                                                         *)
(* Owners put transactions into a queue and vote on them at any time; the  *)
(* first of the queue is executed with enough approvals or removed with    *)
(* enough rejections.  Its payload runs as the account itself and may      *)
(* change the owners and the number of signatures, also those that the     *)
(* rest of the queue is counted with.                                      *)
(*                                                                         *)
(* A list of addresses is a bag, owners[a] being how often a occurs: the   *)
(* code looks up, counts and removes owners (with swap_remove) but never   *)
(* uses their order.  A payload is what it does to the account: a change   *)
(* of its owners, the empty one standing for every payload that does       *)
(* something else, or of the keys that sign for it.  A payload's hash      *)
(* identifies it, so both ways to create a transaction are one action.     *)
(*                                                                         *)
(* Of the account's authentication keys only one thing matters here: can   *)
(* they sign for it?  Whoever holds them then is the account, without the  *)
(* queue.                                                                  *)
(***************************************************************************)
EXTENDS Integers, FiniteSets, Totals

CONSTANTS
  Address,          \* who can be an owner or take part
  Account,          \* the address of the account itself
  OwnerLists,       \* lists of owners that a creator names
  Payloads,         \* the payloads of transactions
  NoChange,         \* option::none of the new number of signatures
  MaxTransactions   \* bound: transactions created

Bags == [Address -> Nat]
EmptyBag == [a \in Address |-> 0]
SchemaChange == [new_owners : Bags, owners_to_remove : Bags,
                 num_signatures_required : Nat \cup {NoChange}]
KeyChange == [auth_key : BOOLEAN]

ASSUME AddressAssumption == IsFiniteSet(Address) /\ Account \in Address
ASSUME ListAssumption == OwnerLists \subseteq Bags
ASSUME PayloadAssumption == Payloads \subseteq SchemaChange \cup KeyChange
ASSUME NoChangeAssumption == NoChange \notin Nat
ASSUME MaxAssumption == MaxTransactions \in Nat

VARIABLES
  exists,           \* exists<MultisigAccount>(Account)
  auth_key,         \* its authentication keys can sign for it
  owners,
  num_signatures_required,
  transactions,     \* by sequence number
  last_executed_sequence_number,
  next_sequence_number

multisigVars == <<exists, auth_key, owners, num_signatures_required, transactions,
                  last_executed_sequence_number, next_sequence_number>>

-----------------------------------------------------------------------------
(* Owners *)

\* validate_owners.
ValidOwners(list) ==
  /\ \A a \in Address : list[a] <= 1
  /\ list[Account] = 0

\* A bag without one occurrence for each in list; addresses that are not
\* there are skipped.
Without(bag, list) ==
  [a \in Address |-> IF bag[a] >= list[a] THEN bag[a] - list[a] ELSE 0]

With(bag, list) == [a \in Address |-> bag[a] + list[a]]

OwnersAfter(old, change) ==
  Without(With(old, change.new_owners), change.owners_to_remove)

RequiredAfter(required, change) ==
  IF change.num_signatures_required = NoChange THEN required
  ELSE change.num_signatures_required

\* Mutant: owners are counted before the removal.
SchemaFits_CountedBefore(old, required, change) ==
  /\ \A a \in Address :
       change.new_owners[a] = 0 \/ change.owners_to_remove[a] = 0
  /\ change.new_owners # EmptyBag =>
       ValidOwners(With(old, change.new_owners))
  /\ change.num_signatures_required # 0
  /\ Total(With(old, change.new_owners)) >= RequiredAfter(required, change)

\* The assertions of update_owner_schema.
SchemaFits(old, required, change) ==
  /\ \A a \in Address :
       change.new_owners[a] = 0 \/ change.owners_to_remove[a] = 0
  /\ change.new_owners # EmptyBag =>
       ValidOwners(With(old, change.new_owners))
  /\ change.num_signatures_required # 0
  /\ Total(OwnersAfter(old, change)) >= RequiredAfter(required, change)

-----------------------------------------------------------------------------
(* Creation *)

\* create_with_owners_internal.
Fits(list, required) ==
  /\ required > 0 /\ required <= Total(list)
  /\ ValidOwners(list)

Publish(list, required, signable) ==
  /\ ~exists
  /\ exists' = TRUE
  /\ auth_key' = signable
  /\ owners' = list
  /\ num_signatures_required' = required
  /\ transactions' = [n \in {} |-> 0]
  /\ last_executed_sequence_number' = 0
  /\ next_sequence_number' = 1

\* On top of an existing account, with a message signed by its key, which
\* the second form revokes.
CreateWithExistingAccount(list, required) ==
  /\ auth_key
  /\ Fits(list, required)
  /\ \E signable \in BOOLEAN : Publish(list, required, signable)

Single(a) == [x \in Address |-> IF x = a THEN 1 ELSE 0]

\* As a resource account, which has no keys.
CreateWithOwners(caller, additional_owners, required) ==
  LET list == With(additional_owners, Single(caller)) IN
    /\ Fits(list, required)
    /\ Publish(list, required, FALSE)

\* The caller leaves in the transaction that creates the account.
CreateThenRemoveBootstrapper(caller, others, required) ==
  LET list == With(others, Single(caller))
      removal == [new_owners |-> EmptyBag,
                  owners_to_remove |-> Single(caller),
                  num_signatures_required |-> NoChange]
  IN /\ Fits(list, required)
     /\ SchemaFits(list, required, removal)
     /\ Publish(OwnersAfter(list, removal), required, FALSE)

-----------------------------------------------------------------------------
(* The queue *)

IsOwner(a) == exists /\ owners[a] > 0

\* The creator votes for its transaction.
CreateTransaction(owner, payload) ==
  /\ IsOwner(owner)
  /\ next_sequence_number <= MaxTransactions
  /\ transactions' =
       [n \in DOMAIN transactions \cup {next_sequence_number} |->
          IF n = next_sequence_number
          THEN [payload |-> payload,
                votes |-> [a \in Address |->
                             IF a = owner THEN "yes" ELSE "none"]]
          ELSE transactions[n]]
  /\ next_sequence_number' = next_sequence_number + 1
  /\ UNCHANGED <<exists, auth_key, owners, num_signatures_required,
                 last_executed_sequence_number>>

\* vote_transanction: any pending transaction, and votes can be changed.
VoteTransaction(owner, n, vote) ==
  /\ IsOwner(owner)
  /\ n \in DOMAIN transactions
  /\ transactions' = [transactions EXCEPT ![n].votes[owner] = vote]
  /\ UNCHANGED <<exists, auth_key, owners, num_signatures_required,
                 last_executed_sequence_number, next_sequence_number>>

\* Mutant: every vote counts, also that of a former owner.
NumVotes_Former(n, vote) ==
  Total([a \in Address |->
           IF transactions[n].votes[a] = vote THEN 1 ELSE 0])

\* num_approvals_and_rejections: a loop over the owners of now.
NumVotes(n, vote) ==
  Total([a \in Address |->
           IF transactions[n].votes[a] = vote THEN owners[a] ELSE 0])

NextTransaction == last_executed_sequence_number + 1

RemoveExecutedTransaction ==
  /\ transactions' = [n \in DOMAIN transactions \ {NextTransaction} |->
                        transactions[n]]
  /\ last_executed_sequence_number' = NextTransaction
  /\ UNCHANGED <<exists, next_sequence_number>>

ExecuteRejectedTransaction(owner) ==
  /\ IsOwner(owner)
  /\ NextTransaction \in DOMAIN transactions
  /\ NumVotes(NextTransaction, "no") >= num_signatures_required
  /\ RemoveExecutedTransaction
  /\ UNCHANGED <<auth_key, owners, num_signatures_required>>

-----------------------------------------------------------------------------
(* Execution by the VM: validate_multisig_transaction, the payload, then    *)
(* one of the two clean-ups.                                                *)

ValidateMultisigTransaction(owner) ==
  /\ IsOwner(owner)
  /\ NextTransaction \in DOMAIN transactions
  /\ NumVotes(NextTransaction, "yes") >= num_signatures_required

\* What a call signed by the account itself does to it.
UpdateOwnerSchema(change) ==
  /\ SchemaFits(owners, num_signatures_required, change)
  /\ owners' = OwnersAfter(owners, change)
  /\ num_signatures_required' =
       RequiredAfter(num_signatures_required, change)
  /\ UNCHANGED auth_key

RotateKeys(change) ==
  /\ auth_key' = change.auth_key
  /\ UNCHANGED <<owners, num_signatures_required>>

Apply(payload) ==
  \/ payload \in SchemaChange /\ UpdateOwnerSchema(payload)
  \/ payload \in KeyChange /\ RotateKeys(payload)

\* The payload, then successful_transaction_execution_cleanup.
ExecuteSuccessfully(owner) ==
  /\ ValidateMultisigTransaction(owner)
  /\ Apply(transactions[NextTransaction].payload)
  /\ RemoveExecutedTransaction

\* A transaction of the account's own, signed with its keys.
SignedWithKeys(payload) ==
  /\ exists /\ auth_key
  /\ Apply(payload)
  /\ UNCHANGED <<exists, transactions, last_executed_sequence_number,
                 next_sequence_number>>

\* The payload aborts, by update_owner_schema's assertions or for a reason
\* of its own, and leaves no change: failed_transaction_execution_cleanup.
ExecuteFailing(owner) ==
  /\ ValidateMultisigTransaction(owner)
  /\ RemoveExecutedTransaction
  /\ UNCHANGED <<auth_key, owners, num_signatures_required>>

-----------------------------------------------------------------------------

MultisigInit ==
  /\ exists = FALSE
  /\ auth_key = TRUE
  /\ owners = EmptyBag
  /\ num_signatures_required = 0
  /\ transactions = [n \in {} |-> 0]
  /\ last_executed_sequence_number = 0
  /\ next_sequence_number = 0

Create ==
  \E list \in OwnerLists, required \in 0..Cardinality(Address) :
    \/ CreateWithExistingAccount(list, required)
    \/ \E a \in Address \ {Account} :
         \/ CreateWithOwners(a, list, required)
         \/ CreateThenRemoveBootstrapper(a, list, required)

OwnerAct(a) ==
  \/ \E payload \in Payloads : CreateTransaction(a, payload)
  \/ \E n \in DOMAIN transactions, vote \in {"yes", "no"} :
       VoteTransaction(a, n, vote)
  \/ ExecuteRejectedTransaction(a)
  \/ ExecuteSuccessfully(a)
  \/ ExecuteFailing(a)

MultisigNext ==
  \/ Create
  \/ \E a \in Address : OwnerAct(a)
  \/ \E payload \in Payloads : SignedWithKeys(payload)

MultisigSpec == MultisigInit /\ [][MultisigNext]_multisigVars

-----------------------------------------------------------------------------
(* Properties *)

Transaction == [payload : Payloads,
                votes : [Address -> {"yes", "no", "none"}]]

\* Every variable has its type.
MultisigTypeOK ==
  /\ exists \in BOOLEAN
  /\ auth_key \in BOOLEAN
  /\ owners \in Bags
  /\ num_signatures_required \in Nat
  /\ DOMAIN transactions \subseteq Nat
  /\ \A n \in DOMAIN transactions : transactions[n] \in Transaction
  /\ last_executed_sequence_number \in Nat
  /\ next_sequence_number \in Nat

OwnerSet == {a \in Address : owners[a] > 0}

\* Whatever owners are added, removed and swapped, by however many
\* transactions, there are at least as many different owners as signatures
\* are required, and at least one is: the account can always act again.
ThresholdReachable ==
  exists => num_signatures_required \in 1..Cardinality(OwnerSet)

\* The pending transactions have the numbers after the last resolved one up
\* to the next one: none is lost, skipped or overtaken, so that the queue
\* goes on ("The number of pending transactions should be equal to
\* next_sequence_number - (last_executed_sequence_number + 1)").
PendingAreConsecutive ==
  exists => DOMAIN transactions =
              last_executed_sequence_number + 1..next_sequence_number - 1

\* Enough different owners gave the next transaction this vote.
DecidedBy(vote) ==
  /\ NextTransaction \in DOMAIN transactions
  /\ Cardinality({a \in OwnerSet : transactions[NextTransaction].votes[a] = vote})
       >= num_signatures_required

\* No transaction leaves the queue without the votes of enough different
\* owners of that time, whoever was an owner when it was created or voted on.
ResolvedByOwners ==
  [][last_executed_sequence_number' # last_executed_sequence_number
       => (exists => DecidedBy("yes") \/ DecidedBy("no"))]_multisigVars

\* An account that its keys cannot sign for changes its owners, the number
\* of signatures or its keys only by a transaction that is next in the queue
\* and that enough different owners of before the change approved; this
\* transaction is then used up ("it has no auth key and can only be
\* controlled via the special multisig transaction flow").
ChangesByApproval ==
  [][exists /\ ~auth_key /\ <<auth_key, owners, num_signatures_required>>'
                              # <<auth_key, owners, num_signatures_required>>
       => /\ DecidedBy("yes")
          /\ NextTransaction \notin DOMAIN transactions'
          /\ last_executed_sequence_number' = NextTransaction]_multisigVars
=============================================================================
