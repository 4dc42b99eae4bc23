--------------------------- MODULE MultisigProofs ---------------------------
(***************************************************************************)
(* What is true of the multisig account of MultisigAccount for every set of *)
(* addresses, every payload and any number of transactions.                *)
(***************************************************************************)
EXTENDS MultisigAccount, TotalProofs, TLAPS

USE AddressAssumption, ListAssumption, PayloadAssumption, NoChangeAssumption,
    MaxAssumption

-----------------------------------------------------------------------------
(* The inductive invariant *)

\* Nobody is an owner twice.
OwnersDistinct == \A a \in Address : owners[a] \in {0, 1}

\* As update_owner_schema asserts it, counting the list.
ThresholdMet == exists => num_signatures_required \in 1..Total(owners)

\* Sequence numbers start at one and the last one executed has been given out.
NumbersInOrder ==
  exists => last_executed_sequence_number < next_sequence_number

IInv ==
  /\ MultisigTypeOK
  /\ OwnersDistinct
  /\ ThresholdMet
  /\ NumbersInOrder
  /\ PendingAreConsecutive

-----------------------------------------------------------------------------
(* Lists of owners *)

\* An accepted list of owners has nobody twice.
LEMMA ValidIsDistinct ==
  ASSUME NEW list \in Bags, ValidOwners(list)
  PROVE  \A a \in Address : list[a] \in {0, 1}
BY DEF ValidOwners, Bags

\* Adding and removing addresses gives a list of addresses.
LEMMA BagsClosed ==
  ASSUME NEW bag \in Bags, NEW list \in Bags
  PROVE  With(bag, list) \in Bags /\ Without(bag, list) \in Bags
BY DEF With, Without, Bags

LEMMA SingleIsBag ==
  ASSUME NEW a \in Address
  PROVE  Single(a) \in Bags
BY DEF Single, Bags

\* A change that passes the assertions of update_owner_schema leaves
\* distinct owners, enough for the number of signatures, which stays positive.
LEMMA ChangeFits ==
  ASSUME NEW old \in Bags, \A a \in Address : old[a] \in {0, 1},
         NEW required \in Nat, required > 0,
         NEW change \in SchemaChange,
         SchemaFits(old, required, change)
  PROVE  /\ OwnersAfter(old, change) \in Bags
         /\ \A a \in Address : OwnersAfter(old, change)[a] \in {0, 1}
         /\ RequiredAfter(required, change)
              \in 1..Total(OwnersAfter(old, change))
<1> DEFINE new == change.new_owners
           out == change.owners_to_remove
           with == With(old, new)
<1>1. new \in Bags /\ out \in Bags
  BY DEF SchemaChange
<1>2. with \in Bags /\ OwnersAfter(old, change) \in Bags
  BY <1>1, BagsClosed DEF OwnersAfter
<1>3. \A a \in Address : with[a] \in {0, 1}
  <2>1. CASE new = EmptyBag
    <3>1. \A a \in Address : new[a] = 0
      BY <2>1 DEF EmptyBag
    <3> QED
      BY <3>1, <1>1 DEF With, Bags
  <2>2. CASE new # EmptyBag
    <3>1. ValidOwners(with)
      BY <2>2 DEF SchemaFits
    <3> HIDE DEF with
    <3> QED
      BY <1>2, <3>1, ValidIsDistinct
  <2> QED
    BY <2>1, <2>2
<1>4. \A a \in Address : OwnersAfter(old, change)[a] \in {0, 1}
  <2>1. OwnersAfter(old, change) = Without(with, out)
    BY DEF OwnersAfter
  <2> HIDE DEF with, out
  <2>2. ASSUME NEW a \in Address PROVE Without(with, out)[a] \in {0, 1}
    <3>1. with[a] \in {0, 1} /\ out[a] \in Nat
      BY <1>1, <1>3 DEF Bags
    <3> QED
      BY <3>1 DEF Without
  <2> QED
    BY <2>1, <2>2
<1>5. RequiredAfter(required, change) \in Nat \ {0}
  BY DEF RequiredAfter, SchemaChange, SchemaFits
<1>6. Total(OwnersAfter(old, change)) >= RequiredAfter(required, change)
  BY DEF SchemaFits
<1>7. Total(OwnersAfter(old, change)) \in Nat
  BY <1>2, TotalNat DEF Bags
<1> QED
  BY <1>2, <1>4, <1>5, <1>6, <1>7

-----------------------------------------------------------------------------
(* Steps *)

\* A new account, its owners and its empty queue.
LEMMA PublishStep ==
  ASSUME NEW list \in Bags, \A a \in Address : list[a] \in {0, 1},
         NEW required \in 1..Total(list), NEW signable \in BOOLEAN,
         Publish(list, required, signable)
  PROVE  IInv'
<1>1. Total(list) \in Nat
  BY TotalNat DEF Bags
<1>2. DOMAIN transactions' = {}
  BY DEF Publish
<1>3. MultisigTypeOK'
  BY <1>2 DEF Publish, MultisigTypeOK
<1>4. OwnersDistinct' /\ ThresholdMet' /\ NumbersInOrder'
  BY DEF Publish, OwnersDistinct, ThresholdMet, NumbersInOrder
<1>5. PendingAreConsecutive'
  <2>1. 0 + 1..1 - 1 = {}
    OBVIOUS
  <2> QED
    BY <1>2, <2>1 DEF Publish, PendingAreConsecutive
<1> QED
  BY <1>3, <1>4, <1>5 DEF IInv

\* Every way to create the account establishes the invariant.
LEMMA CreateStep ==
  ASSUME Create
  PROVE  IInv'
<1>1. PICK list \in OwnerLists, required \in 0..Cardinality(Address) :
        \/ CreateWithExistingAccount(list, required)
        \/ \E a \in Address \ {Account} :
             \/ CreateWithOwners(a, list, required)
             \/ CreateThenRemoveBootstrapper(a, list, required)
  BY DEF Create
<1>2. list \in Bags /\ required \in Nat
  <2>1. Cardinality(Address) \in Nat
    BY FS_CardinalityType
  <2> QED
    BY <2>1
<1>3. ASSUME NEW l \in Bags, Fits(l, required)
      PROVE  /\ \A a \in Address : l[a] \in {0, 1}
             /\ required \in 1..Total(l)
  <2>1. Total(l) \in Nat
    BY TotalNat DEF Bags
  <2> QED
    BY <1>2, <1>3, <2>1, ValidIsDistinct DEF Fits
<1>4. CASE CreateWithExistingAccount(list, required)
  <2>1. PICK signable \in BOOLEAN : Publish(list, required, signable)
    BY <1>4 DEF CreateWithExistingAccount
  <2>2. Fits(list, required)
    BY <1>4 DEF CreateWithExistingAccount
  <2> QED
    BY <1>2, <1>3, <2>1, <2>2, PublishStep
<1>5. ASSUME NEW a \in Address \ {Account}
      PROVE  With(list, Single(a)) \in Bags
  BY <1>2, SingleIsBag, BagsClosed
<1>6. ASSUME NEW a \in Address \ {Account}, CreateWithOwners(a, list, required)
      PROVE  IInv'
  <2> DEFINE all == With(list, Single(a))
  <2>1. Fits(all, required) /\ Publish(all, required, FALSE)
    BY <1>6 DEF CreateWithOwners
  <2>2. all \in Bags
    BY <1>5
  <2> HIDE DEF all
  <2> QED
    BY <1>3, <2>1, <2>2, PublishStep
<1>7. ASSUME NEW a \in Address \ {Account},
             CreateThenRemoveBootstrapper(a, list, required)
      PROVE  IInv'
  <2> DEFINE all == With(list, Single(a))
             removal == [new_owners |-> EmptyBag,
                         owners_to_remove |-> Single(a),
                         num_signatures_required |-> NoChange]
             rest == OwnersAfter(all, removal)
  <2>1. /\ Fits(all, required)
        /\ SchemaFits(all, required, removal)
        /\ Publish(rest, required, FALSE)
    BY <1>7 DEF CreateThenRemoveBootstrapper
  <2>2. all \in Bags
    BY <1>5
  <2>3. removal \in SchemaChange
    <3>1. EmptyBag \in Bags /\ Single(a) \in Bags
      BY SingleIsBag DEF EmptyBag, Bags
    <3> QED
      BY <3>1 DEF SchemaChange
  <2>4. RequiredAfter(required, removal) = required
    BY DEF RequiredAfter
  <2> HIDE DEF all, removal
  <2>5. (\A x \in Address : all[x] \in {0, 1}) /\ required > 0
    BY <1>2, <1>3, <2>1, <2>2
  <2>6. /\ rest \in Bags
        /\ \A x \in Address : rest[x] \in {0, 1}
        /\ required \in 1..Total(rest)
    BY <1>2, <2>1, <2>2, <2>3, <2>4, <2>5, ChangeFits
  <2> HIDE DEF rest
  <2> QED
    BY <2>1, <2>6, PublishStep
<1> QED
  BY <1>1, <1>4, <1>6, <1>7

\* A transaction joins the end of the queue.
LEMMA CreateTransactionStep ==
  ASSUME IInv, NEW owner \in Address, NEW payload \in Payloads,
         CreateTransaction(owner, payload)
  PROVE  IInv'
<1>1. exists
  BY DEF CreateTransaction, IsOwner
<1> DEFINE n == next_sequence_number
           new == [payload |-> payload,
                   votes |-> [a \in Address |->
                                IF a = owner THEN "yes" ELSE "none"]]
<1>2. /\ n \in Nat /\ n' = n + 1
      /\ UNCHANGED <<exists, auth_key, owners, num_signatures_required,
                     last_executed_sequence_number>>
  BY DEF CreateTransaction, IInv, MultisigTypeOK
<1>3. transactions' = [k \in DOMAIN transactions \cup {n} |->
                         IF k = n THEN new ELSE transactions[k]]
  BY DEF CreateTransaction
<1>4. new \in Transaction
  BY DEF Transaction
<1> HIDE DEF new
<1>5. MultisigTypeOK'
  <2>1. DOMAIN transactions' \subseteq Nat
    BY <1>2, <1>3 DEF IInv, MultisigTypeOK
  <2>2. \A k \in DOMAIN transactions' : transactions'[k] \in Transaction
    BY <1>3, <1>4 DEF IInv, MultisigTypeOK
  <2> QED
    BY <1>2, <2>1, <2>2 DEF IInv, MultisigTypeOK
<1>6. OwnersDistinct' /\ ThresholdMet' /\ NumbersInOrder'
  BY <1>1, <1>2 DEF IInv, MultisigTypeOK, OwnersDistinct, ThresholdMet,
                    NumbersInOrder
<1>7. PendingAreConsecutive'
  <2>1. DOMAIN transactions' = DOMAIN transactions \cup {n}
    BY <1>3
  <2>2. DOMAIN transactions = last_executed_sequence_number + 1..n - 1
    BY <1>1 DEF IInv, PendingAreConsecutive
  <2>3. /\ last_executed_sequence_number \in Nat
        /\ last_executed_sequence_number < n
    BY <1>1 DEF IInv, MultisigTypeOK, NumbersInOrder
  <2>4. (last_executed_sequence_number + 1..n - 1) \cup {n}
          = last_executed_sequence_number + 1..(n + 1) - 1
    BY <1>2, <2>3
  <2> QED
    BY <1>2, <2>1, <2>2, <2>4 DEF PendingAreConsecutive
<1> QED
  BY <1>5, <1>6, <1>7 DEF IInv

\* A vote changes one entry of one transaction.
LEMMA VoteStep ==
  ASSUME IInv, NEW owner \in Address, NEW n \in DOMAIN transactions,
         NEW vote \in {"yes", "no"}, VoteTransaction(owner, n, vote)
  PROVE  IInv'
<1>1. /\ transactions' = [transactions EXCEPT ![n].votes[owner] = vote]
      /\ UNCHANGED <<exists, auth_key, owners, num_signatures_required,
                     last_executed_sequence_number, next_sequence_number>>
  BY DEF VoteTransaction
<1>2. DOMAIN transactions' = DOMAIN transactions
  BY <1>1
<1>3. ASSUME NEW k \in DOMAIN transactions
      PROVE  transactions'[k] \in Transaction
  <2>1. transactions[k] \in Transaction
    BY DEF IInv, MultisigTypeOK
  <2>2. CASE k # n
    BY <1>1, <2>1, <2>2
  <2>3. CASE k = n
    <3>1. transactions'[k]
            = [transactions[k] EXCEPT !.votes[owner] = vote]
      BY <1>1, <2>3
    <3> QED
      BY <2>1, <3>1 DEF Transaction
  <2> QED
    BY <2>2, <2>3
<1>4. MultisigTypeOK'
  BY <1>1, <1>2, <1>3 DEF IInv, MultisigTypeOK
<1> QED
  BY <1>1, <1>2, <1>4 DEF IInv, OwnersDistinct, ThresholdMet,
                          NumbersInOrder, PendingAreConsecutive

\* What an applied payload leaves of the invariant.
LEMMA ApplyStep ==
  ASSUME IInv, exists, NEW payload \in Payloads, Apply(payload)
  PROVE  /\ auth_key' \in BOOLEAN
         /\ owners' \in Bags
         /\ num_signatures_required' \in Nat
         /\ \A a \in Address : owners'[a] \in {0, 1}
         /\ num_signatures_required' \in 1..Total(owners')
<1>1. /\ owners \in Bags
      /\ \A a \in Address : owners[a] \in {0, 1}
      /\ num_signatures_required \in Nat
      /\ num_signatures_required \in 1..Total(owners)
      /\ auth_key \in BOOLEAN
  BY DEF IInv, MultisigTypeOK, OwnersDistinct, ThresholdMet
<1>2. CASE payload \in SchemaChange /\ UpdateOwnerSchema(payload)
  <2>1. /\ owners' = OwnersAfter(owners, payload)
        /\ num_signatures_required' =
             RequiredAfter(num_signatures_required, payload)
        /\ auth_key' = auth_key
        /\ SchemaFits(owners, num_signatures_required, payload)
    BY <1>2 DEF UpdateOwnerSchema
  <2>2. num_signatures_required > 0
    BY <1>1
  <2>3. /\ owners' \in Bags
        /\ \A a \in Address : owners'[a] \in {0, 1}
        /\ num_signatures_required' \in 1..Total(owners')
    BY <1>1, <1>2, <2>1, <2>2, ChangeFits
  <2> QED
    BY <1>1, <2>1, <2>3
<1>3. CASE payload \in KeyChange /\ RotateKeys(payload)
  <2>1. /\ auth_key' = payload.auth_key
        /\ owners' = owners
        /\ num_signatures_required' = num_signatures_required
    BY <1>3 DEF RotateKeys
  <2>2. payload.auth_key \in BOOLEAN
    BY <1>3 DEF KeyChange
  <2>3. auth_key' \in BOOLEAN
    BY <2>1, <2>2, Zenon
  <2>4. Total(owners') = Total(owners)
    BY <2>1, Zenon
  <2> QED
    BY <1>1, <2>1, <2>3, <2>4
<1> QED
  BY <1>2, <1>3 DEF Apply

\* The first transaction leaves the queue, whatever has happened to the
\* owners meanwhile.
LEMMA RemoveStep ==
  ASSUME IInv, exists, NextTransaction \in DOMAIN transactions,
         RemoveExecutedTransaction,
         auth_key' \in BOOLEAN, owners' \in Bags,
         num_signatures_required' \in Nat,
         \A a \in Address : owners'[a] \in {0, 1},
         num_signatures_required' \in 1..Total(owners')
  PROVE  IInv'
<1> DEFINE last == last_executed_sequence_number
           next == next_sequence_number
<1>1. /\ last \in Nat /\ next \in Nat /\ last < next
      /\ DOMAIN transactions = last + 1..next - 1
      /\ exists \in BOOLEAN
  BY DEF IInv, MultisigTypeOK, NumbersInOrder, PendingAreConsecutive
<1>2. /\ transactions' = [n \in DOMAIN transactions \ {last + 1} |->
                            transactions[n]]
      /\ last' = last + 1 /\ exists' = exists /\ next' = next
  BY DEF RemoveExecutedTransaction, NextTransaction
<1>3. last + 1 < next
  BY <1>1 DEF NextTransaction
<1>4. DOMAIN transactions' = DOMAIN transactions \ {last + 1}
  BY <1>2
<1>5. MultisigTypeOK'
  <2>1. \A n \in DOMAIN transactions' : transactions'[n] \in Transaction
    BY <1>2 DEF IInv, MultisigTypeOK
  <2>2. DOMAIN transactions' \subseteq Nat
    BY <1>4 DEF IInv, MultisigTypeOK
  <2> QED
    BY <1>1, <1>2, <2>1, <2>2 DEF MultisigTypeOK
<1>6. PendingAreConsecutive'
  <2>1. (last + 1..next - 1) \ {last + 1} = (last + 1) + 1..next - 1
    BY <1>1, <1>3
  <2> QED
    BY <1>1, <1>2, <1>4, <2>1 DEF PendingAreConsecutive
<1>7. OwnersDistinct' /\ ThresholdMet' /\ NumbersInOrder'
  BY <1>1, <1>2, <1>3 DEF OwnersDistinct, ThresholdMet, NumbersInOrder
<1> QED
  BY <1>5, <1>6, <1>7 DEF IInv

\* The number of votes is the number of owners who cast them.
LEMMA VotesAreOwners ==
  ASSUME IInv, NEW n \in DOMAIN transactions, NEW vote
  PROVE  NumVotes(n, vote)
           = Cardinality({a \in OwnerSet : transactions[n].votes[a] = vote})
<1> DEFINE f == [a \in Address |->
                   IF transactions[n].votes[a] = vote THEN owners[a] ELSE 0]
<1>1. \A a \in Address : owners[a] \in {0, 1}
  BY DEF IInv, OwnersDistinct
<1>2. f \in [Address -> {0, 1}]
  BY <1>1
<1>3. {a \in Address : f[a] = 1}
        = {a \in OwnerSet : transactions[n].votes[a] = vote}
  BY <1>1 DEF OwnerSet
<1>4. NumVotes(n, vote) = Total(f)
  BY DEF NumVotes
<1> HIDE DEF f
<1>5. Total(f) = Cardinality({a \in Address : f[a] = 1})
  BY <1>2, TotalOfOnes
<1> QED
  BY <1>3, <1>4, <1>5, Zenon

\* A transaction with enough votes counted is decided by owners.
LEMMA VotesDecide ==
  ASSUME IInv, NEW vote, NextTransaction \in DOMAIN transactions,
         NumVotes(NextTransaction, vote) >= num_signatures_required
  PROVE  DecidedBy(vote)
<1>1. NumVotes(NextTransaction, vote)
        = Cardinality({a \in OwnerSet :
                         transactions[NextTransaction].votes[a] = vote})
  BY VotesAreOwners
<1> QED
  BY <1>1 DEF DecidedBy

-----------------------------------------------------------------------------
(* Theorems *)

\* Every step of every owner, creator and key holder preserves the invariant.
LEMMA NextStep ==
  ASSUME IInv, MultisigNext
  PROVE  IInv'
<1>1. CASE Create
  BY <1>1, CreateStep
<1>2. ASSUME NEW a \in Address, OwnerAct(a) PROVE IInv'
  <2>1. ASSUME NEW payload \in Payloads, CreateTransaction(a, payload)
        PROVE  IInv'
    BY <2>1, CreateTransactionStep
  <2>2. ASSUME NEW n \in DOMAIN transactions, NEW vote \in {"yes", "no"},
               VoteTransaction(a, n, vote)
        PROVE  IInv'
    BY <2>2, VoteStep
  <2>3. ASSUME exists, NextTransaction \in DOMAIN transactions,
               RemoveExecutedTransaction,
               UNCHANGED <<auth_key, owners, num_signatures_required>>
        PROVE  IInv'
    <3>1. /\ auth_key' \in BOOLEAN /\ owners' \in Bags
          /\ num_signatures_required' \in Nat
          /\ \A x \in Address : owners'[x] \in {0, 1}
      BY <2>3 DEF IInv, MultisigTypeOK, OwnersDistinct
    <3>2. Total(owners') = Total(owners)
      BY <2>3, Zenon
    <3>3. num_signatures_required' \in 1..Total(owners')
      BY <2>3, <3>2 DEF IInv, ThresholdMet
    <3> QED
      BY <2>3, <3>1, <3>3, RemoveStep
  <2>4. CASE ExecuteRejectedTransaction(a)
    BY <2>3, <2>4 DEF ExecuteRejectedTransaction, IsOwner
  <2>5. CASE ExecuteSuccessfully(a)
    <3>1. /\ exists /\ NextTransaction \in DOMAIN transactions
          /\ RemoveExecutedTransaction
          /\ Apply(transactions[NextTransaction].payload)
      BY <2>5 DEF ExecuteSuccessfully, ValidateMultisigTransaction, IsOwner
    <3>2. transactions[NextTransaction].payload \in Payloads
      BY <3>1 DEF IInv, MultisigTypeOK, Transaction
    <3> QED
      BY <3>1, <3>2, ApplyStep, RemoveStep
  <2>6. CASE ExecuteFailing(a)
    BY <2>3, <2>6 DEF ExecuteFailing, ValidateMultisigTransaction, IsOwner
  <2> QED
    BY <1>2, <2>1, <2>2, <2>4, <2>5, <2>6 DEF OwnerAct
<1>3. ASSUME NEW payload \in Payloads, SignedWithKeys(payload) PROVE IInv'
  <2>1. /\ exists /\ Apply(payload)
        /\ UNCHANGED <<exists, transactions, last_executed_sequence_number,
                       next_sequence_number>>
    BY <1>3 DEF SignedWithKeys
  <2>2. /\ auth_key' \in BOOLEAN /\ owners' \in Bags
        /\ num_signatures_required' \in Nat
        /\ \A a \in Address : owners'[a] \in {0, 1}
        /\ num_signatures_required' \in 1..Total(owners')
    BY <2>1, ApplyStep
  <2>3. MultisigTypeOK'
    BY <2>1, <2>2 DEF IInv, MultisigTypeOK
  <2> QED
    BY <2>1, <2>2, <2>3 DEF IInv, OwnersDistinct, ThresholdMet,
                            NumbersInOrder, PendingAreConsecutive
<1> QED
  BY <1>1, <1>2, <1>3 DEF MultisigNext

\* Stuttering steps preserve it too.
LEMMA StutterStep ==
  ASSUME IInv, UNCHANGED multisigVars
  PROVE  IInv'
<1>1. Total(owners') = Total(owners)
  BY Zenon DEF multisigVars
<1> QED
  BY <1>1 DEF multisigVars, IInv, MultisigTypeOK, OwnersDistinct,
              ThresholdMet, NumbersInOrder, PendingAreConsecutive

\* The strengthening of the invariants below is inductive.
THEOREM InductiveInvariant == MultisigSpec => []IInv
<1>1. MultisigInit => IInv
  <2>1. \A a \in Address : EmptyBag[a] = 0
    BY DEF EmptyBag
  <2>2. EmptyBag \in Bags
    BY DEF EmptyBag, Bags
  <2>3. MultisigInit => DOMAIN transactions = {}
    BY DEF MultisigInit
  <2>4. MultisigInit => MultisigTypeOK
    <3> SUFFICES ASSUME MultisigInit PROVE MultisigTypeOK
      OBVIOUS
    <3>1. \A n \in DOMAIN transactions : transactions[n] \in Transaction
      BY <2>3
    <3>2. owners \in Bags
      BY <2>2 DEF MultisigInit
    <3>3. /\ exists \in BOOLEAN /\ auth_key \in BOOLEAN
          /\ num_signatures_required = 0
          /\ last_executed_sequence_number = 0
          /\ next_sequence_number = 0
      BY DEF MultisigInit
    <3> QED
      BY <2>3, <3>1, <3>2, <3>3 DEF MultisigTypeOK
  <2>5. MultisigInit => ~exists /\ owners = EmptyBag
    BY DEF MultisigInit
  <2> QED
    BY <2>1, <2>4, <2>5 DEF IInv, OwnersDistinct, ThresholdMet,
                            NumbersInOrder, PendingAreConsecutive
<1>2. IInv /\ [MultisigNext]_multisigVars => IInv'
  BY NextStep, StutterStep
<1> QED
  BY <1>1, <1>2, PTL DEF MultisigSpec

\* Every variable has its type.
THEOREM TypeCorrect == MultisigSpec => []MultisigTypeOK
<1>1. IInv => MultisigTypeOK
  BY DEF IInv
<1> QED
  BY <1>1, InductiveInvariant, PTL

\* However owners are changed, by whatever payloads, the owners can always
\* reach the number of signatures, and none but owners can act.
THEOREM ThresholdStaysReachable == MultisigSpec => []ThresholdReachable
<1>1. IInv => ThresholdReachable
  <2> SUFFICES ASSUME IInv, exists
               PROVE  num_signatures_required \in 1..Cardinality(OwnerSet)
    BY DEF ThresholdReachable
  <2>1. owners \in [Address -> {0, 1}]
    BY DEF IInv, MultisigTypeOK, OwnersDistinct, Bags
  <2>2. Total(owners) = Cardinality({a \in Address : owners[a] = 1})
    BY <2>1, TotalOfOnes
  <2>3. {a \in Address : owners[a] = 1} = OwnerSet
    BY <2>1 DEF OwnerSet
  <2>4. Total(owners) = Cardinality(OwnerSet)
    BY <2>2, <2>3, Zenon
  <2> QED
    BY <2>4 DEF IInv, ThresholdMet
<1> QED
  BY <1>1, InductiveInvariant, PTL

\* The pending transactions are those numbered after the last resolved one.
THEOREM QueueHasNoGaps == MultisigSpec => []PendingAreConsecutive
<1>1. IInv => PendingAreConsecutive
  BY DEF IInv
<1> QED
  BY <1>1, InductiveInvariant, PTL

\* No transaction leaves the queue without the votes of enough owners.
THEOREM OwnersResolve == MultisigSpec => ResolvedByOwners
<1> DEFINE Step == last_executed_sequence_number'
                     # last_executed_sequence_number
                   => (exists => DecidedBy("yes") \/ DecidedBy("no"))
<1>1. IInv /\ [MultisigNext]_multisigVars => [Step]_multisigVars
  <2> SUFFICES ASSUME IInv, MultisigNext, exists,
                      last_executed_sequence_number'
                        # last_executed_sequence_number
               PROVE  DecidedBy("yes") \/ DecidedBy("no")
    OBVIOUS
  <2>1. ~ Create
    BY DEF Create, CreateWithExistingAccount, CreateWithOwners,
           CreateThenRemoveBootstrapper, Publish
  <2>2. \A payload \in Payloads : ~ SignedWithKeys(payload)
    BY DEF SignedWithKeys
  <2>3. PICK a \in Address : OwnerAct(a)
    BY <2>1, <2>2 DEF MultisigNext
  <2>4. \/ ExecuteRejectedTransaction(a)
        \/ ExecuteSuccessfully(a)
        \/ ExecuteFailing(a)
    BY <2>3 DEF OwnerAct, CreateTransaction, VoteTransaction
  <2>5. CASE ExecuteRejectedTransaction(a)
    BY <2>5, VotesDecide DEF ExecuteRejectedTransaction
  <2>6. CASE ExecuteSuccessfully(a) \/ ExecuteFailing(a)
    BY <2>6, VotesDecide DEF ExecuteSuccessfully, ExecuteFailing,
                             ValidateMultisigTransaction
  <2> QED
    BY <2>4, <2>5, <2>6
<1> QED
  BY <1>1, InductiveInvariant, PTL DEF MultisigSpec, ResolvedByOwners

\* Without keys, nothing about the account changes but by an approved
\* transaction, which is used up.
THEOREM OwnersApprove == MultisigSpec => ChangesByApproval
<1> DEFINE changed == <<auth_key, owners, num_signatures_required>>'
                        # <<auth_key, owners, num_signatures_required>>
           Step == exists /\ ~auth_key /\ changed
                   => /\ DecidedBy("yes")
                      /\ NextTransaction \notin DOMAIN transactions'
                      /\ last_executed_sequence_number' = NextTransaction
<1>1. IInv /\ [MultisigNext]_multisigVars => [Step]_multisigVars
  <2> SUFFICES ASSUME IInv, MultisigNext, exists, ~auth_key, changed
               PROVE  /\ DecidedBy("yes")
                      /\ NextTransaction \notin DOMAIN transactions'
                      /\ last_executed_sequence_number' = NextTransaction
    OBVIOUS
  <2>1. ~ Create
    BY DEF Create, CreateWithExistingAccount, CreateWithOwners,
           CreateThenRemoveBootstrapper, Publish
  <2>2. \A payload \in Payloads : ~ SignedWithKeys(payload)
    BY DEF SignedWithKeys
  <2>3. PICK a \in Address : OwnerAct(a)
    BY <2>1, <2>2 DEF MultisigNext
  <2>4. ExecuteSuccessfully(a)
    BY <2>3 DEF OwnerAct, CreateTransaction, VoteTransaction,
                ExecuteRejectedTransaction, ExecuteFailing
  <2>5. /\ NextTransaction \in DOMAIN transactions
        /\ NumVotes(NextTransaction, "yes") >= num_signatures_required
        /\ RemoveExecutedTransaction
    BY <2>4 DEF ExecuteSuccessfully, ValidateMultisigTransaction
  <2>6. DecidedBy("yes")
    BY <2>5, VotesDecide
  <2>7. /\ DOMAIN transactions' = DOMAIN transactions \ {NextTransaction}
        /\ last_executed_sequence_number' = NextTransaction
    BY <2>5 DEF RemoveExecutedTransaction
  <2> QED
    BY <2>6, <2>7
<1> QED
  BY <1>1, InductiveInvariant, PTL DEF MultisigSpec, ChangesByApproval
=============================================================================
