------------------------ MODULE MCMultisigAccount ------------------------
(* Instances of MultisigAccount for TLC. *)
EXTENDS MultisigAccount, TLC

CONSTANTS a1, a2, a3, self

Addresses == {a1, a2, a3, self}
Bag(s) == [a \in Address |-> IF a \in s THEN 1 ELSE 0]
Twice(b) == [a \in Address |-> IF a = b THEN 2 ELSE 0]

Change(new, old, k) ==
  [new_owners |-> new, owners_to_remove |-> old,
   num_signatures_required |-> k]

Lists == {Bag({a1, a2}), Twice(a2)}

\* A newcomer and a1, who may be an owner already, with two signatures from
\* now on; the newcomer in exchange for a1, with one; a1 out; no signatures
\* at all; keys that sign, or none.
Changes ==
  {Change(Bag({a1, a3}), EmptyBag, 2),
   Change(Bag({a3}), Bag({a1}), 1),
   Change(EmptyBag, Bag({a1}), NoChange),
   Change(EmptyBag, Bag({a1}), 0),
   [auth_key |-> TRUE], [auth_key |-> FALSE]}
=============================================================================
