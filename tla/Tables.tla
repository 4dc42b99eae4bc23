------------------------------- MODULE Tables -------------------------------
(***************************************************************************)
(* The natives of table.move, table-natives/src/lib.rs, with the wrappers  *)
(* of table_with_length.move that count the entries.                       *)
(*                                                                         *)
(* A session keeps a cache of the entries it touched (NativeTableContext)  *)
(* over the entries in storage and turns it into a change set at its end.  *)
(* A native may change the cache before it charges for what it did; what   *)
(* the session did reaches storage only if it ends without an abort.       *)
(*                                                                         *)
(* Keys and values are abstract, Size[v] being the bytes of a value.  A    *)
(* key costs the same to serialise whatever it is and is part of the base  *)
(* costs.  A session that aborts may run again, with the same hash, as the *)
(* executor of blocks does; the hash of a session that commits is used up. *)
(***************************************************************************)
EXTENDS Integers, Sequences, FiniteSets, Totals

CONSTANTS
  Key, Val,
  Missing, NoTable,
  Size,         \* the bytes of a value
  Gas,          \* the gas schedule of the table natives
  PageSize,     \* PAGE_SIZE, 4096 in the code
  GasLimit,     \* bound: the gas of a session
  MaxSessions,  \* bound: sessions that commit
  MaxNew        \* bound: tables that a session makes

Session == 0 .. MaxSessions - 1

\* The hash of the session's hash and the number of tables made before: two
\* different pairs have different hashes.
Handle == Session \X (0 .. MaxNew - 1)
Slot == Handle \X Key

GasNames == {"NEW_TABLE_HANDLE_BASE", "ADD_BOX_BASE", "BORROW_BOX_BASE",
             "CONTAINS_BOX_BASE", "REMOVE_BOX_BASE", "DESTROY_EMPTY_BOX_BASE",
             "DROP_UNCHECKED_BOX_BASE", "COMMON_LOAD_BASE_LEGACY",
             "COMMON_LOAD_BASE_NEW", "COMMON_LOAD_PER_BYTE",
             "COMMON_LOAD_FAILURE"}

ASSUME KeyAssumption == IsFiniteSet(Key) /\ Key # {}
ASSUME ValAssumption == Missing \notin Val /\ Size \in [Val -> Nat]
ASSUME TableAssumption ==
  NoTable \notin Nat /\ NoTable \notin [Key -> Val \cup {Missing}]
ASSUME GasAssumption == Gas \in [GasNames -> Nat] /\ GasLimit \in Nat
ASSUME BoundAssumption ==
  MaxSessions \in Nat /\ MaxNew \in Nat /\ PageSize \in Nat \ {0}

VARIABLES
  storage,        \* the entries in storage
  savedTables,    \* TableWithLength: the length, by handle, in storage
  running,        \* a session runs
  session,        \* its number; the number of committed sessions
  tables,         \* TableWithLength: the length, by handle
  new_tables,     \* in the order they were made
  removed_tables,
  content,        \* Table: the cached value of a slot
  gas,            \* what the session has left
  answer          \* what the last operation returned or aborted with

\* What an operation without a result returns.
NoAnswer == <<"unit">>

cacheVars == <<tables, new_tables, removed_tables, content>>
savedVars == <<storage, savedTables, session>>
tableVars == <<savedVars, running, cacheVars, gas, answer>>

-----------------------------------------------------------------------------
(* GlobalValue: an entry as the session has it.  "unloaded" is a slot that  *)
(* is not in the cache.                                                     *)

Status == {"unloaded", "none", "fresh", "clean", "dirty", "deleted"}
GlobalValue == [status : Status, val : Val \cup {Missing}]
Global(status, val) == [status |-> status, val |-> val]
Unloaded == Global("unloaded", Missing)

Exists(gv) == gv.status \in {"fresh", "clean", "dirty"}

MoveTo(gv, v) == Global(IF gv.status = "deleted" THEN "dirty" ELSE "fresh", v)

MoveFrom(gv) ==
  Global(IF gv.status = "fresh" THEN "none" ELSE "deleted", Missing)

WriteRef(gv, v) ==
  Global(IF gv.status = "fresh" THEN "fresh" ELSE "dirty", v)

\* Mutant: a removal has no effect on storage.
Effect_DirtyOnly(gv) ==
  CASE gv.status = "fresh" -> "New"
    [] gv.status = "dirty" -> "Modify"
    [] OTHER -> "None"

\* into_effect.
Effect(gv) ==
  CASE gv.status = "fresh" -> "New"
    [] gv.status = "dirty" -> "Modify"
    [] gv.status = "deleted" -> "Delete"
    [] OTHER -> "None"

-----------------------------------------------------------------------------
(* The cache *)

\* get_or_create_global_value: a slot is resolved once.
Resolved(s) ==
  IF content[s].status # "unloaded" THEN content[s]
  ELSE IF storage[s] = Missing THEN Global("none", Missing)
  ELSE Global("clean", storage[s])

\* The cost of a loaded value: its bytes, rounded up to whole pages.
Pages(v) ==
  LET r == Size[v] % PageSize
  IN  Size[v] + (IF r = 0 THEN 0 ELSE PageSize - r)

ResolveCost(s) ==
  Gas["COMMON_LOAD_BASE_NEW"] +
  (IF storage[s] = Missing THEN Gas["COMMON_LOAD_FAILURE"]
   ELSE Gas["COMMON_LOAD_PER_BYTE"] * Pages(storage[s]))

\* Mutant: a load that found nothing is free.
ChargeLoadCost_FoundOnly(s) ==
  Gas["COMMON_LOAD_BASE_LEGACY"] +
  (IF content[s].status # "unloaded" \/ storage[s] = Missing THEN 0
   ELSE ResolveCost(s))

\* charge_load_cost: only the native that resolved the slot pays for it.
ChargeLoadCost(s) ==
  Gas["COMMON_LOAD_BASE_LEGACY"] +
  (IF content[s].status # "unloaded" THEN 0 ELSE ResolveCost(s))

NoContent == [s \in Slot |-> Unloaded]

-----------------------------------------------------------------------------
(* How a native ends *)

\* The session is dropped with all it did.
Aborted(code) ==
  /\ running' = FALSE
  /\ tables' = savedTables /\ new_tables' = <<>> /\ removed_tables' = {}
  /\ content' = NoContent
  /\ gas' = 0
  /\ answer' = <<"abort", code>>
  /\ UNCHANGED savedVars

\* A native that costs cost and that succeeds if ok, with result, changes the
\* cache to cache and the length of table h to length, and aborts with code
\* otherwise.
Native(cost, ok, result, code, cache, h, length) ==
  \/ cost > gas /\ Aborted("OUT_OF_GAS")
  \/ cost <= gas /\ ~ok /\ Aborted(code)
  \/ /\ cost <= gas /\ ok
     /\ gas' = gas - cost
     /\ content' = cache
     /\ tables' = [tables EXCEPT ![h] = length]
     /\ answer' = result
     /\ UNCHANGED <<savedVars, running, new_tables, removed_tables>>

IsTable(h) == running /\ tables[h] # NoTable

-----------------------------------------------------------------------------
(* The natives *)

NewTableHandle ==
  LET h == <<session, Len(new_tables)>>
  IN  /\ running
      /\ Len(new_tables) < MaxNew
      /\ IF Gas["NEW_TABLE_HANDLE_BASE"] > gas THEN Aborted("OUT_OF_GAS")
         ELSE /\ gas' = gas - Gas["NEW_TABLE_HANDLE_BASE"]
              /\ new_tables' = Append(new_tables, h)
              /\ tables' = [tables EXCEPT ![h] = 0]
              /\ answer' = <<"handle", h>>
              /\ UNCHANGED <<savedVars, running, removed_tables, content>>

\* add; the wrapper counts the entry.
AddBox(h, k, v) ==
  LET s == <<h, k>>  gv == Resolved(s)
  IN  /\ IsTable(h)
      /\ Native(Gas["ADD_BOX_BASE"] + ChargeLoadCost(s), ~Exists(gv),
                NoAnswer, "ALREADY_EXISTS",
                [content EXCEPT ![s] = MoveTo(gv, v)], h, tables[h] + 1)

\* borrow and borrow_mut, which are the same native.
BorrowBox(h, k) ==
  LET s == <<h, k>>  gv == Resolved(s)
  IN  /\ IsTable(h)
      /\ Native(Gas["BORROW_BOX_BASE"] + ChargeLoadCost(s), Exists(gv),
                <<"value", gv.val>>, "NOT_FOUND", [content EXCEPT ![s] = gv], h, tables[h])

\* borrow_mut, and a write through the reference it returns.
BorrowBoxMut(h, k, v) ==
  LET s == <<h, k>>  gv == Resolved(s)
  IN  /\ IsTable(h)
      /\ Native(Gas["BORROW_BOX_BASE"] + ChargeLoadCost(s), Exists(gv),
                NoAnswer, "NOT_FOUND",
                [content EXCEPT ![s] = WriteRef(gv, v)], h, tables[h])

ContainsBox(h, k) ==
  LET s == <<h, k>>  gv == Resolved(s)
  IN  /\ IsTable(h)
      /\ Native(Gas["CONTAINS_BOX_BASE"] + ChargeLoadCost(s), TRUE,
                <<"exists", Exists(gv)>>, "", [content EXCEPT ![s] = gv], h, tables[h])

\* Mutant: only entries that the session added are counted down.
RemoveBox_Uncounted(h, k) ==
  LET s == <<h, k>>  gv == Resolved(s)
  IN  /\ IsTable(h)
      /\ Native(Gas["REMOVE_BOX_BASE"] + ChargeLoadCost(s), Exists(gv),
                <<"value", gv.val>>, "NOT_FOUND",
                [content EXCEPT ![s] = MoveFrom(gv)], h,
                IF gv.status = "fresh" THEN tables[h] - 1 ELSE tables[h])

RemoveBox(h, k) ==
  LET s == <<h, k>>  gv == Resolved(s)
  IN  /\ IsTable(h)
      /\ Native(Gas["REMOVE_BOX_BASE"] + ChargeLoadCost(s), Exists(gv),
                <<"value", gv.val>>, "NOT_FOUND",
                [content EXCEPT ![s] = MoveFrom(gv)], h, tables[h] - 1)

\* destroy_empty: the wrapper checks the length, the table is removed and the
\* handle dropped.
DestroyEmptyBox(h) ==
  LET cost == Gas["DESTROY_EMPTY_BOX_BASE"] + Gas["DROP_UNCHECKED_BOX_BASE"]
  IN  /\ IsTable(h)
      /\ \/ tables[h] # 0 /\ Aborted("NOT_EMPTY")
         \/ tables[h] = 0 /\ cost > gas /\ Aborted("OUT_OF_GAS")
         \/ /\ tables[h] = 0 /\ cost <= gas
            /\ gas' = gas - cost
            /\ removed_tables' = removed_tables \cup {h}
            /\ tables' = [tables EXCEPT ![h] = NoTable]
            /\ answer' = NoAnswer
            /\ UNCHANGED <<savedVars, running, new_tables, content>>

-----------------------------------------------------------------------------
(* Sessions *)

TablesInit ==
  /\ storage = [s \in Slot |-> Missing]
  /\ savedTables = [h \in Handle |-> NoTable] /\ tables = savedTables
  /\ running = FALSE /\ session = 0
  /\ new_tables = <<>> /\ removed_tables = {} /\ content = NoContent
  /\ gas = 0 /\ answer = NoAnswer

\* A session begins with an empty context.
BeginSession ==
  /\ ~running /\ session < MaxSessions
  /\ running' = TRUE
  /\ gas' = GasLimit
  /\ answer' = answer
  /\ UNCHANGED <<savedVars, cacheVars>>

\* into_change_set, applied to storage; entries without an effect are not
\* part of it.
Stored(s) ==
  CASE Effect(content[s]) = "None" -> storage[s]
    [] Effect(content[s]) = "Delete" -> Missing
    [] OTHER -> content[s].val

IntoChangeSet ==
  /\ running
  /\ storage' = [s \in Slot |-> Stored(s)]
  /\ savedTables' = tables
  /\ session' = session + 1
  /\ running' = FALSE
  /\ new_tables' = <<>> /\ removed_tables' = {} /\ content' = NoContent
  /\ gas' = 0
  /\ answer' = NoAnswer
  /\ UNCHANGED tables

TablesNext ==
  \/ BeginSession
  \/ NewTableHandle
  \/ \E h \in Handle : DestroyEmptyBox(h)
  \/ \E h \in Handle, k \in Key :
       \/ BorrowBox(h, k) \/ ContainsBox(h, k) \/ RemoveBox(h, k)
       \/ \E v \in Val : AddBox(h, k, v) \/ BorrowBoxMut(h, k, v)
  \/ IntoChangeSet

TablesSpec == TablesInit /\ [][TablesNext]_tableVars

-----------------------------------------------------------------------------
(* Properties *)

TablesTypeOK ==
  /\ storage \in [Slot -> Val \cup {Missing}]
  /\ savedTables \in [Handle -> Nat \cup {NoTable}]
  /\ running \in BOOLEAN
  /\ session \in 0 .. MaxSessions
  /\ tables \in [Handle -> Nat \cup {NoTable}]
  /\ new_tables \in Seq(Handle) /\ Len(new_tables) <= MaxNew
  /\ removed_tables \subseteq Handle
  /\ content \in [Slot -> GlobalValue]
  /\ gas \in 0 .. GasLimit

\* The value of a slot as the session sees it.
ViewOf(s) == Resolved(s).val

Present(h) == {k \in Key : ViewOf(<<h, k>>) # Missing}
PresentInStorage(h) == {k \in Key : storage[<<h, k>>] # Missing}

\* A cached entry fits what storage has: in the change set "New" is a slot
\* that storage lacks, "Modify" and "Delete" are slots it has.  What a
\* transaction pays for storage is computed from these operations.
OpsMatchStorage ==
  \A s \in Slot :
    /\ Effect(content[s]) = "New" => storage[s] = Missing
    /\ Effect(content[s]) \in {"Modify", "Delete"} => storage[s] # Missing

\* The length of a table is the number of its entries, and a handle without
\* a table has none: a table that was destroyed leaves nothing in storage.
LengthIsCount ==
  \A h \in Handle :
    /\ Cardinality(Present(h)) = (IF tables[h] = NoTable THEN 0 ELSE tables[h])
    /\ Cardinality(PresentInStorage(h)) =
         (IF savedTables[h] = NoTable THEN 0 ELSE savedTables[h])

\* The assertions of native_new_table_handle and native_destroy_empty_box
\* (that make the VM panic) hold: a session makes a handle that is new to it
\* and to storage, and does not remove a table twice.
AssertionsHold ==
  running =>
    /\ LET h == <<session, Len(new_tables)>>
       IN  /\ \A i \in 1 .. Len(new_tables) : new_tables[i] # h
           /\ Len(new_tables) < MaxNew =>
                session < MaxSessions /\ tables[h] = NoTable
    /\ \A h \in removed_tables : tables[h] = NoTable

\* A running session has paid for every slot it had storage read, though the
\* natives charge only after they changed the cache.
LoadsArePaid ==
  running =>
    GasLimit - gas >=
      Total([s \in {x \in Slot : content[x].status # "unloaded"} |-> ResolveCost(s)])

\* What the cached entries, the lengths and the handles have to do with each
\* other and with storage.
CacheAgrees ==
  \A s \in Slot :
    /\ content[s].status \in {"fresh", "clean", "dirty"} <=> content[s].val \in Val
    /\ content[s].status \in {"none", "fresh"} => storage[s] = Missing
    /\ content[s].status \in {"clean", "dirty", "deleted"} => storage[s] # Missing
    /\ content[s].status = "clean" => content[s].val = storage[s]

NothingPending ==
  ~running => /\ content = NoContent /\ tables = savedTables
              /\ new_tables = <<>> /\ removed_tables = {}

HandlesAreFresh ==
  /\ \A i \in 1 .. Len(new_tables) : new_tables[i] = <<session, i - 1>>
  /\ \A h \in Handle :
       /\ h[1] > session \/ (h[1] = session /\ h[2] >= Len(new_tables)) =>
            tables[h] = NoTable /\ h \notin removed_tables
       /\ h[1] >= session => savedTables[h] = NoTable
  /\ running => session < MaxSessions
  /\ \A h \in removed_tables : tables[h] = NoTable

TablesIInv ==
  /\ TablesTypeOK
  /\ CacheAgrees
  /\ NothingPending
  /\ HandlesAreFresh
  /\ LengthIsCount

\* The session's cache over storage is the map that table.move promises:
\* every native returns and aborts as the map does, a commit saves the maps
\* and an abort leaves them as they were.
MapOf(lengths, value) ==
  [h \in Handle |-> IF lengths[h] = NoTable THEN NoTable
                    ELSE [k \in Key |-> value[<<h, k>>]]]

Maps == INSTANCE TableMaps
          WITH saved <- MapOf(savedTables, storage),
               maps <- MapOf(tables, [s \in Slot |-> ViewOf(s)])

ImplementsMaps == Maps!MapsSpec
=============================================================================
