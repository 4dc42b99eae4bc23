---------------------------- MODULE Identifiers ----------------------------
(***************************************************************************)
(* What a transaction numbers or draws: the GUIDs of accounts and objects  *)
(* (guid.move, account.move, object.move), the unique addresses objects and *)
(* multisig accounts are made at (natives/transaction_context.rs), the     *)
(* counter of on-chain randomness (natives/randomness.rs) and the sequence *)
(* numbers of events (event.move, natives/event.rs).                       *)
(*                                                                         *)
(* The VM makes fresh contexts for every session, with a transaction hash  *)
(* of its own, and saves what a session did when it succeeds.  Every native *)
(* charges for gas first and the gas may run out at any charge, so a       *)
(* transaction may abort at any time; calls whose assertions fail are such *)
(* aborts.  Hashes are injective: a derived address is what was hashed.    *)
(***************************************************************************)
EXTENDS Integers, Sequences, FiniteSets, Functions

CONSTANTS
  Owners,       \* those with an address that accounts are created at
  MAX_GUID_CREATION_NUM,
  INIT_GUID_CREATION_NUM,
  MaxSeqNum,   \* 2^64 - 1 of event counters
  ByteBase,    \* 256
  CounterSize, \* 8, the bytes of the randomness counter
  MaxTxns,     \* bound on transactions
  MaxCalls     \* bound on the calls of all transactions

\* account.move: "Explicitly separate the GUID space between Object and Account
\* to prevent accidental overlap."
ASSUME IdentifiersAssumption ==
  /\ MAX_GUID_CREATION_NUM \in Nat \ {0} /\ INIT_GUID_CREATION_NUM \in Nat
  /\ INIT_GUID_CREATION_NUM >= MAX_GUID_CREATION_NUM
  /\ MaxSeqNum \in Nat /\ ByteBase \in Nat \ {0, 1} /\ CounterSize \in Nat \ {0}
  /\ MaxTxns \in Nat /\ MaxCalls \in Nat

\* The states of the counter of a session.  A session is at its end long before its
\* counter is.
CounterStates == [1 .. CounterSize -> 0 .. ByteBase - 1]
ASSUME CounterAssumption == MaxCalls < Cardinality(CounterStates)

Unavailable == [none |-> TRUE]   \* option::none()

VARIABLES
  world,        \* the resources as the session sees them, and what was drawn so far
  stored,       \* those of storage
  log,          \* the events of committed transactions
  events,       \* NativeEventContext.events
  ctx,          \* the session's other contexts, or Unavailable between transactions
  txns,         \* how many transactions began: the hash of the latest
  callsMade,    \* how many calls were made
  seed,         \* PerBlockRandomness.seed
  contextReply  \* what the last native told the program about its transaction

contextVars == <<txns, seed>>
identifierVars == <<world, stored, log, events, ctx, txns, callsMade, seed, contextReply>>

InTxn == ctx # Unavailable
MayCall == InTxn /\ callsMade < MaxCalls /\ callsMade' = callsMade + 1

Addresses == {<<"owner", a>> : a \in Owners}

\* GUIDs.  `accounts` and `objects` map an address to its guid_creation_num,
\* `handles` the GUID of an EventHandle to its counter.
GuidAt(addr, num) == <<"guid", addr, num>>

\* The function f with x mapped to v.
With(f, x, v) == [y \in DOMAIN f \cup {x} |-> IF y = x THEN v ELSE f[y]]

\* `drawn` and `repeated` remember what was made up to now; no code reads them.
Drawn(w, id) ==
  [w EXCEPT !.drawn = @ \cup {id}, !.repeated = @ \/ id \in w.drawn]

NewHandle(w, guid) == [Drawn(w, guid) EXCEPT !.handles = With(@, guid, 0)]

WithinGuidLimit_Unchecked(num) == TRUE
WithinGuidLimit(num) == num + 1 < MAX_GUID_CREATION_NUM

\* account::create_guid and object::create_guid: the next state of the world and
\* the GUID made.
AccountGuid(a) ==
  [ok   |-> a \in DOMAIN world.accounts /\ WithinGuidLimit(world.accounts[a]),
   guid |-> GuidAt(a, world.accounts[a]),
   next |-> [world EXCEPT !.accounts[a] = @ + 1]]

ObjectGuid(o) ==
  [ok   |-> o \in DOMAIN world.objects,
   guid |-> GuidAt(o, world.objects[o]),
   next |-> [world EXCEPT !.objects[o] = @ + 1]]

\* native_generate_unique_address.
Auid == <<"auid", ctx.txn_hash, ctx.auid_counter + 1>>
CountAuid == [ctx EXCEPT !.auid_counter = @ + 1]

\* create_object_internal.
CanCreateObject(addr) == addr \notin DOMAIN world.objects \cup DOMAIN world.accounts
WithObject(w, addr, can_delete) ==
  [NewHandle(w, GuidAt(addr, INIT_GUID_CREATION_NUM)) EXCEPT
     !.objects = With(@, addr, INIT_GUID_CREATION_NUM + 1),
     !.deletable = IF can_delete THEN @ \cup {addr} ELSE @]

WithAccount(w, addr) == [w EXCEPT !.accounts = With(@, addr, 0)]

NoWorld == [accounts |-> <<>>, objects |-> <<>>, handles |-> <<>>,
            deletable |-> {}, drawn |-> {}, repeated |-> FALSE]

\* An account that is also an object, as create_specific_object followed by
\* create_account leaves it, may have used up its GUIDs
\* as an account.
OldWorld(a) ==
  [WithObject(NoWorld, a, FALSE) EXCEPT !.accounts = With(@, a, MAX_GUID_CREATION_NUM - 1)]

IdentifiersInit ==
  /\ world \in {NoWorld} \cup {OldWorld(a) : a \in Addresses}
  /\ stored = world
  /\ log = <<>> /\ events = <<>>
  /\ ctx = Unavailable /\ txns = 0 /\ callsMade = 0
  /\ seed = Unavailable
  /\ contextReply = Unavailable

\* on_new_block: a seed is unique to its block, and may be missing.
SetSeed ==
  /\ ~InTxn /\ seed' \in {Unavailable, [block |-> txns]} \ {seed}
  /\ UNCHANGED <<world, stored, log, events, ctx, txns, callsMade, contextReply>>

\* The VM makes the contexts; it calls set_is_friend_or_private_entry_func when
\* the payload is such an entry function.  `user` is the kind of payload, or that
\* there is no user_transaction_context_opt.
Payloads == {"no user", "script", "entry", "multisig", "multisig_entry"}

BeginTxn(user, is_friend_or_private) ==
  /\ ~InTxn /\ txns < MaxTxns
  /\ is_friend_or_private => user \in {"entry", "multisig_entry"}
  /\ txns' = txns + 1
  /\ ctx' = [txn_hash |-> txns', auid_counter |-> 0, user |-> user,
             is_friend_or_private_entry_func |-> is_friend_or_private,
             txn_local_state |-> [i \in 1 .. CounterSize |-> 0]]
  /\ UNCHANGED <<world, stored, log, events, callsMade, seed, contextReply>>

CommitTxn ==
  /\ InTxn /\ ctx' = Unavailable
  /\ stored' = world
  /\ log' = log \o events
  /\ events' = <<>> /\ contextReply' = Unavailable
  /\ UNCHANGED <<world, callsMade, contextVars>>

RevertTxn ==
  /\ InTxn /\ ctx' = Unavailable
  /\ world' = stored
  /\ events' = <<>> /\ contextReply' = Unavailable
  /\ UNCHANGED <<stored, log, callsMade, contextVars>>

\* The effect of a call on the resources.
Changes(w, t) ==
  /\ world' = w /\ ctx' = t /\ contextReply' = Unavailable
  /\ UNCHANGED <<stored, log, events, contextVars>>

\* account::new_event_handle and object::new_event_handle.
NewEventHandle ==
  /\ MayCall
  /\ \E g \in {AccountGuid(a) : a \in DOMAIN world.accounts}
              \cup {ObjectGuid(o) : o \in DOMAIN world.objects} :
       g.ok /\ Changes(NewHandle(g.next, g.guid), ctx)

\* create_object, create_sticky_object.
CreateObject(can_delete) ==
  /\ MayCall /\ CanCreateObject(Auid)
  /\ Changes(WithObject(Drawn(world, Auid), Auid, can_delete), CountAuid)

\* create_object_from_account, create_object_from_object.
CreateObjectFromGuid ==
  /\ MayCall
  /\ \E g \in {AccountGuid(a) : a \in DOMAIN world.accounts}
              \cup {ObjectGuid(o) : o \in DOMAIN world.objects} :
       LET addr == <<"from", g.guid>> IN
       /\ g.ok /\ CanCreateObject(addr)
       /\ Changes(WithObject(Drawn(g.next, g.guid), addr, TRUE), ctx)

\* create_specific_object and account::create_account, which takes an object's address
\* too: in this order an address becomes both.
CreateSpecificObject(a) ==
  MayCall /\ CanCreateObject(a) /\ Changes(WithObject(world, a, FALSE), ctx)

CreateAccount(a) ==
  MayCall /\ a \notin DOMAIN world.accounts /\ Changes(WithAccount(world, a), ctx)

CreateMultisigAccount ==
  /\ MayCall /\ Auid \notin DOMAIN world.accounts
  /\ Changes(WithAccount(Drawn(world, Auid), Auid), CountAuid)

\* object::delete; a DeleteRef may be stored, and there may be several.
Delete(o) ==
  /\ MayCall /\ o \in world.deletable \cap DOMAIN world.objects
  /\ LET guid == GuidAt(o, INIT_GUID_CREATION_NUM) IN
     Changes([world EXCEPT !.objects = Restrict(@, DOMAIN @ \ {o}),
                           !.handles = Restrict(@, DOMAIN @ \ {guid})],
             ctx)

\* event::emit_event.
Emit(guid) ==
  /\ MayCall /\ world.handles[guid] < MaxSeqNum
  /\ events' = Append(events, [key |-> guid, seq_num |-> world.handles[guid]])
  /\ world' = [world EXCEPT !.handles[guid] = @ + 1]
  /\ contextReply' = Unavailable
  /\ UNCHANGED <<stored, log, ctx, contextVars>>

DestroyHandle(guid) ==
  /\ MayCall /\ guid[3] # INIT_GUID_CREATION_NUM
  /\ Changes([world EXCEPT !.handles = Restrict(@, DOMAIN @ \ {guid})], ctx)

\* RandomnessContext::increment: little-endian, with carry.
Increment_NoCarry(bytes) == [bytes EXCEPT ![1] = (@ + 1) % ByteBase]
Increment(bytes) ==
  [i \in 1 .. CounterSize |->
     IF \A j \in 1 .. i - 1 : bytes[j] = ByteBase - 1
     THEN (bytes[i] + 1) % ByteBase ELSE bytes[i]]

\* randomness::next_32_bytes: is_safe_call, and option::borrow of the seed.
Next32Bytes ==
  /\ MayCall /\ ctx.is_friend_or_private_entry_func /\ seed # Unavailable
  /\ Changes(Drawn(world, <<"random", seed, ctx.txn_hash, ctx.txn_local_state>>),
             [ctx EXCEPT !.txn_local_state = Increment(@)])

\* The natives that tell about the transaction; those of `Fields` and the
\* payloads abort in a session without a user's transaction.
Fields == {"sender", "secondary_signers", "gas_payer", "max_gas_amount",
           "gas_unit_price", "chain_id"}

Inner == [some |-> "an entry function"]
EntryFunctionPayload == IF ctx.user = "entry" THEN Inner ELSE Unavailable
MultisigPayload ==
  CASE ctx.user = "multisig"       -> [entry_function_payload |-> Unavailable]
    [] ctx.user = "multisig_entry" -> [entry_function_payload |-> Inner]
    [] OTHER                       -> Unavailable

ContextReplies ==
  {[of |-> n, is |-> ctx.txn_hash] : n \in {"get_txn_hash", "get_script_hash"}} \cup
  (IF ctx.user = "no user" THEN {}
   ELSE {[of |-> n, is |-> ctx.txn_hash] : n \in Fields} \cup
        {[of |-> "entry_function_payload", is |-> EntryFunctionPayload],
         [of |-> "multisig_payload", is |-> MultisigPayload]})

ReadContext ==
  /\ MayCall /\ contextReply' \in ContextReplies
  /\ UNCHANGED <<world, stored, log, events, ctx, contextVars>>

\* object::exists_at looks through the session's own changes.
ExistsAt(addr) ==
  /\ MayCall /\ contextReply' = [exists_at |-> addr, is |-> addr \in DOMAIN world.objects]
  /\ UNCHANGED <<world, stored, log, events, ctx, contextVars>>

IdentifiersNext ==
  \/ SetSeed \/ CommitTxn \/ RevertTxn
  \/ \E user \in Payloads, private \in BOOLEAN : BeginTxn(user, private)
  \/ NewEventHandle \/ CreateObjectFromGuid \/ CreateMultisigAccount
  \/ \E can_delete \in BOOLEAN : CreateObject(can_delete)
  \/ \E a \in Addresses : CreateSpecificObject(a)
  \/ \E a \in Addresses \cup DOMAIN world.objects : CreateAccount(a)
  \/ \E o \in world.deletable : Delete(o)
  \/ \E guid \in DOMAIN world.handles : Emit(guid) \/ DestroyHandle(guid)
  \/ Next32Bytes \/ ReadContext
  \/ \E o \in DOMAIN stored.objects \cup DOMAIN world.objects : ExistsAt(o)

IdentifiersSpec == IdentifiersInit /\ [][IdentifiersNext]_identifierVars

\* The sequence numbers under a GUID, in the session (emitted_events_by_handle of
\* tests) or in all that was committed.
NumbersOf(guid, es) == {es[i].seq_num : i \in {j \in DOMAIN es : es[j].key = guid}}

\* Whatever accounts and objects are made and deleted at an address, and whatever
\* transactions abort, the events under a GUID are numbered 0, 1, 2, ... without a
\* gap or a repetition (those before an event have exactly the numbers before its
\* own), and a handle counts exactly the events under its GUID.
StreamsAreGapless ==
  LET all == log \o events
  IN  /\ \A i \in DOMAIN all :
           {all[j].seq_num : j \in {k \in 1 .. i - 1 : all[k].key = all[i].key}}
             = 0 .. all[i].seq_num - 1
      /\ \A guid \in DOMAIN world.handles :
           NumbersOf(guid, all) = 0 .. world.handles[guid] - 1

\* No GUID, no unique address and no random blob is ever given out twice, within
\* a transaction or by different ones.
DrawsAreFresh == ~world.repeated
=============================================================================
