---------------------------- MODULE TablesProofs ----------------------------
(***************************************************************************)
(* What is true of the tables of Tables for any keys, values, gas schedule *)
(* and number of sessions: the inductive invariant TablesIInv, and that    *)
(* the cache over storage implements the maps of TableMaps.                *)
(***************************************************************************)
EXTENDS Tables, TotalProofs, TLAPS

USE KeyAssumption, ValAssumption, TableAssumption, GasAssumption, BoundAssumption

-----------------------------------------------------------------------------
(* Costs *)

LEMMA PagesNat ==
  ASSUME NEW v \in Val
  PROVE  Pages(v) \in Nat
<1>1. Size[v] \in Nat /\ Size[v] % PageSize \in 0 .. PageSize - 1
  OBVIOUS
<1> QED
  BY <1>1 DEF Pages

LEMMA CostsAreNat ==
  ASSUME TablesTypeOK, NEW s \in Slot
  PROVE  ResolveCost(s) \in Nat /\ ChargeLoadCost(s) \in Nat
<1>1. \A g \in GasNames : Gas[g] \in Nat
  OBVIOUS
<1>2. /\ "COMMON_LOAD_BASE_NEW" \in GasNames /\ "COMMON_LOAD_FAILURE" \in GasNames
      /\ "COMMON_LOAD_PER_BYTE" \in GasNames /\ "COMMON_LOAD_BASE_LEGACY" \in GasNames
  BY DEF GasNames
<1> DEFINE perByte == Gas["COMMON_LOAD_PER_BYTE"]
<1>3. \A p \in Nat : perByte * p \in Nat
  BY <1>1, <1>2
<1>4. storage[s] # Missing => perByte * Pages(storage[s]) \in Nat
  BY <1>3, PagesNat DEF TablesTypeOK
<1>5. ResolveCost(s) \in Nat
  BY <1>1, <1>2, <1>4 DEF ResolveCost
<1> QED
  BY <1>1, <1>2, <1>5 DEF ChargeLoadCost

-----------------------------------------------------------------------------
(* One slot *)

\* An entry of the cache fits what storage has.
Agrees(gv, stored) ==
  /\ gv \in GlobalValue
  /\ gv.status \in {"fresh", "clean", "dirty"} <=> gv.val \in Val
  /\ gv.status \in {"none", "fresh"} => stored = Missing
  /\ gv.status \in {"clean", "dirty", "deleted"} => stored # Missing
  /\ gv.status = "clean" => gv.val = stored

LEMMA GlobalIs ==
  ASSUME NEW status \in Status, NEW v \in Val \cup {Missing}
  PROVE  /\ Global(status, v) \in GlobalValue
         /\ Global(status, v).status = status /\ Global(status, v).val = v
BY DEF Global, GlobalValue

LEMMA Statuses ==
  /\ "unloaded" \in Status /\ "none" \in Status /\ "fresh" \in Status
  /\ "clean" \in Status /\ "dirty" \in Status /\ "deleted" \in Status
BY DEF Status

\* What a slot resolves to fits storage, and says what the session sees there.
LEMMA ResolvedAgrees ==
  ASSUME TablesTypeOK, CacheAgrees, NEW s \in Slot
  PROVE  /\ Agrees(Resolved(s), storage[s])
         /\ Resolved(s).status # "unloaded"
         /\ Exists(Resolved(s)) <=> ViewOf(s) # Missing
         /\ ViewOf(s) \in Val \cup {Missing}
<1>1. content[s] \in GlobalValue /\ storage[s] \in Val \cup {Missing}
  BY DEF TablesTypeOK
<1>2. Agrees(content[s], storage[s])
  BY <1>1 DEF CacheAgrees, Agrees
<1>3. Agrees(Resolved(s), storage[s]) /\ Resolved(s).status # "unloaded"
  <2>1. CASE content[s].status # "unloaded"
    BY <1>2, <2>1 DEF Resolved
  <2>2. CASE content[s].status = "unloaded" /\ storage[s] = Missing
    <3>1. Resolved(s) = Global("none", Missing)
      BY <2>2 DEF Resolved
    <3> QED
      BY <2>2, <3>1, Statuses, GlobalIs DEF Agrees
  <2>3. CASE content[s].status = "unloaded" /\ storage[s] # Missing
    <3>1. Resolved(s) = Global("clean", storage[s])
      BY <2>3 DEF Resolved
    <3> QED
      BY <1>1, <2>3, <3>1, Statuses, GlobalIs DEF Agrees
  <2> QED
    BY <2>1, <2>2, <2>3
<1> QED
  BY <1>3 DEF Agrees, Exists, ViewOf, GlobalValue

\* The entries that the natives make of one that fits storage fit it too.
LEMMA MoveToAgrees ==
  ASSUME NEW gv, NEW stored, Agrees(gv, stored), gv.status # "unloaded",
         ~Exists(gv), NEW v \in Val
  PROVE  /\ Agrees(MoveTo(gv, v), stored)
         /\ MoveTo(gv, v).status # "unloaded" /\ MoveTo(gv, v).val = v
<1>1. gv.status \in {"none", "deleted"}
  BY DEF Agrees, GlobalValue, Status, Exists
<1> QED
  BY <1>1, Statuses, GlobalIs DEF Agrees, MoveTo

LEMMA MoveFromAgrees ==
  ASSUME NEW gv, NEW stored, Agrees(gv, stored), Exists(gv)
  PROVE  /\ Agrees(MoveFrom(gv), stored)
         /\ MoveFrom(gv).status # "unloaded" /\ MoveFrom(gv).val = Missing
BY Statuses, GlobalIs DEF Agrees, MoveFrom, Exists

LEMMA WriteRefAgrees ==
  ASSUME NEW gv, NEW stored, Agrees(gv, stored), Exists(gv), NEW v \in Val
  PROVE  /\ Agrees(WriteRef(gv, v), stored)
         /\ WriteRef(gv, v).status # "unloaded" /\ WriteRef(gv, v).val = v
BY Statuses, GlobalIs DEF Agrees, WriteRef, Exists

-----------------------------------------------------------------------------
(* Steps *)

\* A native changes one slot of a table, and counts what it adds or removes.
SlotSet(s, gv) ==
  /\ content' = [content EXCEPT ![s] = gv]
  /\ UNCHANGED storage

LEMMA SlotView ==
  ASSUME TablesTypeOK, NEW s \in Slot, NEW gv, gv.status # "unloaded", SlotSet(s, gv)
  PROVE  /\ ViewOf(s)' = gv.val
         /\ \A r \in Slot \ {s} : ViewOf(r)' = ViewOf(r)
<1>1. content' = [content EXCEPT ![s] = gv] /\ storage' = storage
  BY DEF SlotSet
<1>2. content'[s] = gv /\ \A r \in Slot \ {s} : content'[r] = content[r]
  BY <1>1 DEF TablesTypeOK
<1> QED
  BY <1>1, <1>2 DEF ViewOf, Resolved

LEMMA SlotPresent ==
  ASSUME TablesTypeOK, NEW h \in Handle, NEW k \in Key, NEW gv,
         gv.status # "unloaded", SlotSet(<<h, k>>, gv)
  PROVE  /\ \A g \in Handle \ {h} : Present(g)' = Present(g)
         /\ Present(h)' = (Present(h) \ {k}) \cup (IF gv.val = Missing THEN {} ELSE {k})
<1>1. <<h, k>> \in Slot
  BY DEF Slot
<1>2. ASSUME NEW g \in Handle, g # h PROVE Present(g)' = Present(g)
  <2>1. \A j \in Key : <<g, j>> \in Slot \ {<<h, k>>}
    BY <1>2 DEF Slot
  <2>2. \A j \in Key : ViewOf(<<g, j>>)' = ViewOf(<<g, j>>)
    BY <1>1, <2>1, SlotView
  <2> QED
    BY <2>2 DEF Present
<1>3. \A j \in Key \ {k} : ViewOf(<<h, j>>)' = ViewOf(<<h, j>>)
  <2>1. \A j \in Key \ {k} : <<h, j>> \in Slot \ {<<h, k>>}
    BY DEF Slot
  <2> QED
    BY <1>1, <2>1, SlotView
<1>4. ViewOf(<<h, k>>)' = gv.val
  BY <1>1, SlotView
<1>5. Present(h)' = (Present(h) \ {k}) \cup (IF gv.val = Missing THEN {} ELSE {k})
  BY <1>3, <1>4 DEF Present
<1> QED
  BY <1>2, <1>5

LEMMA PresentFinite ==
  ASSUME NEW h
  PROVE  /\ IsFiniteSet(Present(h)) /\ Cardinality(Present(h)) \in Nat
         /\ IsFiniteSet(PresentInStorage(h))
BY FS_Subset, FS_CardinalityType DEF Present, PresentInStorage

\* The number of keys after one of them was set.
LEMMA CountAfter ==
  ASSUME NEW S, IsFiniteSet(S), NEW k, NEW T,
         T = (S \ {k}) \cup {k} \/ T = S \ {k}
  PROVE  Cardinality(T) = Cardinality(S) + (IF k \in T THEN 1 ELSE 0)
                                         - (IF k \in S THEN 1 ELSE 0)
<1>1. /\ IsFiniteSet(S \ {k})
      /\ Cardinality(S \ {k}) = IF k \in S THEN Cardinality(S) - 1 ELSE Cardinality(S)
  BY FS_RemoveElement
<1>2. k \notin S \ {k}
  OBVIOUS
<1>3. Cardinality((S \ {k}) \cup {k}) = Cardinality(S \ {k}) + 1
  BY <1>1, <1>2, FS_AddElement
<1>4. Cardinality(S) \in Nat /\ Cardinality(S \ {k}) \in Nat
  BY <1>1, FS_CardinalityType
<1>5. CASE T = (S \ {k}) \cup {k}
  <2>1. k \in T
    BY <1>5
  <2> QED
    BY <1>1, <1>3, <1>4, <1>5, <2>1
<1>6. CASE T = S \ {k}
  <2>1. k \notin T
    BY <1>6
  <2> QED
    BY <1>1, <1>4, <1>6, <2>1
<1> QED
  BY <1>5, <1>6

\* The length that the wrapper gives table h when slot k becomes gv.
LengthAfter(h, k, gv) ==
  tables[h] + (IF gv.val = Missing THEN 0 ELSE 1)
            - (IF ViewOf(<<h, k>>) = Missing THEN 0 ELSE 1)

LEMMA SlotStep ==
  ASSUME TablesIInv, running, NEW h \in Handle, NEW k \in Key, NEW gv,
         tables[h] # NoTable,
         Agrees(gv, storage[<<h, k>>]), gv.status # "unloaded",
         SlotSet(<<h, k>>, gv),
         tables' = [tables EXCEPT ![h] = LengthAfter(h, k, gv)],
         gas' \in 0 .. GasLimit,
         UNCHANGED <<savedVars, running, new_tables, removed_tables>>
  PROVE  TablesIInv'
<1> DEFINE s == <<h, k>>
           n == LengthAfter(h, k, gv)
<1>1. TablesTypeOK /\ s \in Slot
  BY DEF TablesIInv, Slot
<1>2. /\ storage' = storage /\ savedTables' = savedTables /\ session' = session
      /\ running' = running /\ new_tables' = new_tables
      /\ removed_tables' = removed_tables
      /\ content' = [content EXCEPT ![s] = gv]
      /\ tables' = [tables EXCEPT ![h] = n]
  BY DEF savedVars, SlotSet
<1>3. /\ tables[h] \in Nat /\ tables \in [Handle -> Nat \cup {NoTable}]
      /\ content \in [Slot -> GlobalValue] /\ gv \in GlobalValue
  BY <1>1 DEF TablesTypeOK, Agrees
<1>4. Cardinality(Present(h)') = n /\ n \in Nat
  <2>1. IsFiniteSet(Present(h)) /\ Cardinality(Present(h)) = tables[h]
    BY PresentFinite DEF TablesIInv, LengthIsCount
  <2>2. Present(h)' = (Present(h) \ {k}) \cup (IF gv.val = Missing THEN {} ELSE {k})
    BY <1>1, SlotPresent
  <2>3. /\ (k \in Present(h)) <=> ViewOf(s) # Missing
        /\ (k \in Present(h)') <=> gv.val # Missing
    BY <2>2 DEF Present
  <2>4. \/ Present(h)' = (Present(h) \ {k}) \cup {k}
        \/ Present(h)' = Present(h) \ {k}
    BY <2>2
  <2>5. Cardinality(Present(h)') =
          Cardinality(Present(h)) + (IF k \in Present(h)' THEN 1 ELSE 0)
                                  - (IF k \in Present(h) THEN 1 ELSE 0)
    BY <2>1, <2>4, CountAfter
  <2>6. Cardinality(Present(h)') \in Nat
    <3>1. Present(h)' \subseteq Key
      BY <2>2 DEF Present
    <3>2. IsFiniteSet(Present(h)')
      BY <3>1, FS_Subset
    <3> QED
      BY <3>2, FS_CardinalityType
  <2> QED
    BY <2>1, <2>3, <2>5, <2>6 DEF LengthAfter
<1> HIDE DEF n
<1>5. TablesTypeOK'
  <2>1. content' \in [Slot -> GlobalValue]
    BY <1>1, <1>2, <1>3
  <2>2. tables' \in [Handle -> Nat \cup {NoTable}]
    BY <1>2, <1>3, <1>4
  <2> QED
    BY <1>1, <1>2, <2>1, <2>2 DEF TablesTypeOK
<1>6. CacheAgrees'
  <2>1. /\ content'[s] = gv
        /\ \A r \in Slot \ {s} : content'[r] = content[r]
    BY <1>1, <1>2, <1>3
  <2> QED
    BY <1>2, <2>1 DEF CacheAgrees, Agrees, TablesIInv
<1>7. NothingPending'
  BY <1>2 DEF NothingPending
<1>8. \A g \in Handle \ {h} : tables'[g] = tables[g]
  BY <1>2, <1>3
<1>9. HandlesAreFresh'
  <2>1. HandlesAreFresh
    BY DEF TablesIInv
  <2>2. h[1] \in Int /\ h[2] \in Int /\ session \in Int /\ Len(new_tables) \in Nat
    BY <1>1 DEF Handle, Session, TablesTypeOK
  <2>3. ~(h[1] > session \/ (h[1] = session /\ h[2] >= Len(new_tables)))
    BY <2>1 DEF HandlesAreFresh
  <2>4. h \notin removed_tables
    BY <2>1 DEF HandlesAreFresh
  <2>5. removed_tables \subseteq Handle
    BY <1>1 DEF TablesTypeOK
  <2> QED
    BY <1>2, <1>8, <2>1, <2>3, <2>4, <2>5 DEF HandlesAreFresh
<1>10. LengthIsCount'
  <2>1. \A g \in Handle : PresentInStorage(g)' = PresentInStorage(g)
    BY <1>2 DEF PresentInStorage
  <2>2. \A g \in Handle \ {h} : Present(g)' = Present(g)
    BY <1>1, SlotPresent
  <2>3. tables'[h] = n /\ n # NoTable
    BY <1>2, <1>3, <1>4
  <2> QED
    BY <1>2, <1>4, <1>8, <2>1, <2>2, <2>3 DEF LengthIsCount, TablesIInv
<1> QED
  BY <1>5, <1>6, <1>7, <1>9, <1>10 DEF TablesIInv

LEMMA EmptyContent ==
  /\ NoContent \in [Slot -> GlobalValue]
  /\ \A s \in Slot : NoContent[s].status = "unloaded" /\ NoContent[s].val = Missing
BY Statuses, GlobalIs DEF NoContent, Unloaded

\* Without a cache the session sees what storage has.
LEMMA EmptyView ==
  ASSUME content' = NoContent, storage' \in [Slot -> Val \cup {Missing}]
  PROVE  \A h \in Handle : Present(h)' = PresentInStorage(h)'
<1>1. ASSUME NEW s \in Slot PROVE ViewOf(s)' = storage'[s]
  <2>1. content'[s].status = "unloaded"
    BY EmptyContent
  <2>2. Resolved(s)' = (IF storage'[s] = Missing THEN Global("none", Missing)
                        ELSE Global("clean", storage'[s]))
    BY <2>1 DEF Resolved
  <2> QED
    BY <2>2, Statuses, GlobalIs DEF ViewOf
<1>2. \A h \in Handle, k \in Key : <<h, k>> \in Slot
  BY DEF Slot
<1> QED
  BY <1>1, <1>2 DEF Present, PresentInStorage

\* A session that ends, with storage as it is to be, leaves the invariant.
LEMMA EndStep ==
  ASSUME running' = FALSE, new_tables' = <<>>, removed_tables' = {},
         content' = NoContent, gas' = 0, tables' = savedTables',
         storage' \in [Slot -> Val \cup {Missing}],
         savedTables' \in [Handle -> Nat \cup {NoTable}],
         session' \in 0 .. MaxSessions,
         \A h \in Handle : h[1] >= session' => savedTables'[h] = NoTable,
         \A h \in Handle : Cardinality(PresentInStorage(h)') =
                             (IF savedTables'[h] = NoTable THEN 0 ELSE savedTables'[h])
  PROVE  TablesIInv'
<1>1. TablesTypeOK'
  <2>1. new_tables' \in Seq(Handle) /\ Len(new_tables') <= MaxNew
    OBVIOUS
  <2>2. content' \in [Slot -> GlobalValue]
    BY EmptyContent
  <2>3. running' \in BOOLEAN /\ removed_tables' \subseteq Handle
    OBVIOUS
  <2>4. gas' \in 0 .. GasLimit
    OBVIOUS
  <2> QED
    BY <2>1, <2>2, <2>3, <2>4 DEF TablesTypeOK
<1>2. CacheAgrees'
  BY EmptyContent DEF CacheAgrees
<1>3. NothingPending'
  BY DEF NothingPending
<1>4. HandlesAreFresh'
  <2>1. \A h \in Handle : h[1] \in Int
    BY DEF Handle, Session
  <2>2. session' \in Int
    OBVIOUS
  <2> QED
    BY <2>1, <2>2 DEF HandlesAreFresh
<1>5. LengthIsCount'
  BY EmptyView DEF LengthIsCount
<1> QED
  BY <1>1, <1>2, <1>3, <1>4, <1>5 DEF TablesIInv

\* An abort drops what the session did.
LEMMA AbortedStep ==
  ASSUME TablesIInv, NEW code, Aborted(code)
  PROVE  TablesIInv'
<1>1. /\ storage' = storage /\ savedTables' = savedTables /\ session' = session
      /\ \A h \in Handle : PresentInStorage(h)' = PresentInStorage(h)
  BY DEF Aborted, savedVars, PresentInStorage
<1> QED
  BY <1>1, EndStep
  DEF Aborted, TablesIInv, TablesTypeOK, HandlesAreFresh, LengthIsCount

\* What a native does, if it does not abort, in terms of its slot.
LEMMA NativeStep ==
  ASSUME TablesIInv, NEW h \in Handle, NEW k \in Key, IsTable(h),
         NEW gv, NEW cost \in Nat, NEW ok \in BOOLEAN, NEW result, NEW code, NEW length,
         ok => /\ Agrees(gv, storage[<<h, k>>]) /\ gv.status # "unloaded"
               /\ length = LengthAfter(h, k, gv),
         Native(cost, ok, result, code, [content EXCEPT ![<<h, k>>] = gv], h, length)
  PROVE  TablesIInv'
<1>1. CASE Aborted("OUT_OF_GAS") \/ Aborted(code)
  BY <1>1, AbortedStep
<1>2. CASE /\ cost <= gas /\ ok
           /\ gas' = gas - cost
           /\ content' = [content EXCEPT ![<<h, k>>] = gv]
           /\ tables' = [tables EXCEPT ![h] = length]
           /\ UNCHANGED <<savedVars, running, new_tables, removed_tables>>
  <2>1. gas' \in 0 .. GasLimit
    BY <1>2 DEF TablesIInv, TablesTypeOK
  <2>2. SlotSet(<<h, k>>, gv)
    BY <1>2 DEF SlotSet, savedVars
  <2> QED
    BY <1>2, <2>1, <2>2, SlotStep DEF IsTable
<1> QED
  BY <1>1, <1>2 DEF Native

\* The costs of the natives.
LEMMA BaseCosts ==
  ASSUME NEW g \in GasNames
  PROVE  Gas[g] \in Nat
OBVIOUS

LEMMA BaseNames ==
  /\ "ADD_BOX_BASE" \in GasNames /\ "BORROW_BOX_BASE" \in GasNames
  /\ "CONTAINS_BOX_BASE" \in GasNames /\ "REMOVE_BOX_BASE" \in GasNames
  /\ "DESTROY_EMPTY_BOX_BASE" \in GasNames /\ "NEW_TABLE_HANDLE_BASE" \in GasNames
  /\ "DROP_UNCHECKED_BOX_BASE" \in GasNames
BY DEF GasNames

\* What the natives know of the slot before they do anything.
LEMMA SlotFacts ==
  ASSUME TablesIInv, NEW h \in Handle, NEW k \in Key
  PROVE  /\ Agrees(Resolved(<<h, k>>), storage[<<h, k>>])
         /\ Resolved(<<h, k>>).status # "unloaded"
         /\ Resolved(<<h, k>>).val = ViewOf(<<h, k>>)
         /\ Exists(Resolved(<<h, k>>)) <=> ViewOf(<<h, k>>) # Missing
         /\ Exists(Resolved(<<h, k>>)) \in BOOLEAN
         /\ ChargeLoadCost(<<h, k>>) \in Nat
         /\ ViewOf(<<h, k>>) \in Val \cup {Missing}
         /\ tables[h] # NoTable => tables[h] \in Nat
<1>1. <<h, k>> \in Slot
  BY DEF Slot
<1>2. Exists(Resolved(<<h, k>>)) \in BOOLEAN
  BY DEF Exists
<1> QED
  BY <1>1, <1>2, ResolvedAgrees, CostsAreNat DEF TablesIInv, TablesTypeOK, ViewOf

LEMMA AddBoxStep ==
  ASSUME TablesIInv, NEW h \in Handle, NEW k \in Key, NEW v \in Val, AddBox(h, k, v)
  PROVE  TablesIInv'
<1> DEFINE gv == Resolved(<<h, k>>)
           cost == Gas["ADD_BOX_BASE"] + ChargeLoadCost(<<h, k>>)
<1>1. /\ IsTable(h)
      /\ Native(cost, ~Exists(gv), NoAnswer, "ALREADY_EXISTS",
                [content EXCEPT ![<<h, k>>] = MoveTo(gv, v)], h, tables[h] + 1)
  BY DEF AddBox
<1>2. cost \in Nat
  BY SlotFacts, BaseCosts, BaseNames
<1>3. ~Exists(gv) => /\ Agrees(MoveTo(gv, v), storage[<<h, k>>])
                     /\ MoveTo(gv, v).status # "unloaded"
                     /\ MoveTo(gv, v).val = v
  BY SlotFacts, MoveToAgrees
<1>4. ~Exists(gv) => tables[h] + 1 = LengthAfter(h, k, MoveTo(gv, v))
  BY <1>1, <1>3, SlotFacts DEF LengthAfter, IsTable
<1>5. (~Exists(gv)) \in BOOLEAN
  BY DEF Exists
<1> HIDE DEF gv, cost
<1> QED
  BY <1>1, <1>2, <1>3, <1>4, <1>5, NativeStep

LEMMA BorrowBoxStep ==
  ASSUME TablesIInv, NEW h \in Handle, NEW k \in Key, BorrowBox(h, k)
  PROVE  TablesIInv'
<1> DEFINE gv == Resolved(<<h, k>>)
           cost == Gas["BORROW_BOX_BASE"] + ChargeLoadCost(<<h, k>>)
<1>1. /\ IsTable(h)
      /\ Native(cost, Exists(gv), <<"value", gv.val>>, "NOT_FOUND",
                [content EXCEPT ![<<h, k>>] = gv], h, tables[h])
  BY DEF BorrowBox
<1>2. cost \in Nat
  BY SlotFacts, BaseCosts, BaseNames
<1>3. /\ Agrees(gv, storage[<<h, k>>]) /\ gv.status # "unloaded"
      /\ tables[h] = LengthAfter(h, k, gv) /\ Exists(gv) \in BOOLEAN
  BY <1>1, SlotFacts DEF LengthAfter, IsTable
<1> HIDE DEF gv, cost
<1> QED
  BY <1>1, <1>2, <1>3, NativeStep

LEMMA BorrowBoxMutStep ==
  ASSUME TablesIInv, NEW h \in Handle, NEW k \in Key, NEW v \in Val,
         BorrowBoxMut(h, k, v)
  PROVE  TablesIInv'
<1> DEFINE gv == Resolved(<<h, k>>)
           cost == Gas["BORROW_BOX_BASE"] + ChargeLoadCost(<<h, k>>)
<1>1. /\ IsTable(h)
      /\ Native(cost, Exists(gv), NoAnswer, "NOT_FOUND",
                [content EXCEPT ![<<h, k>>] = WriteRef(gv, v)], h, tables[h])
  BY DEF BorrowBoxMut
<1>2. cost \in Nat
  BY SlotFacts, BaseCosts, BaseNames
<1>3. Exists(gv) => /\ Agrees(WriteRef(gv, v), storage[<<h, k>>])
                    /\ WriteRef(gv, v).status # "unloaded"
                    /\ WriteRef(gv, v).val = v
  BY SlotFacts, WriteRefAgrees
<1>4. Exists(gv) => tables[h] = LengthAfter(h, k, WriteRef(gv, v))
  BY <1>1, <1>3, SlotFacts DEF LengthAfter, IsTable
<1>5. Exists(gv) \in BOOLEAN
  BY SlotFacts
<1> HIDE DEF gv, cost
<1> QED
  BY <1>1, <1>2, <1>3, <1>4, <1>5, NativeStep

LEMMA ContainsBoxStep ==
  ASSUME TablesIInv, NEW h \in Handle, NEW k \in Key, ContainsBox(h, k)
  PROVE  TablesIInv'
<1> DEFINE gv == Resolved(<<h, k>>)
           cost == Gas["CONTAINS_BOX_BASE"] + ChargeLoadCost(<<h, k>>)
<1>1. /\ IsTable(h)
      /\ Native(cost, TRUE, <<"exists", Exists(gv)>>, "",
                [content EXCEPT ![<<h, k>>] = gv], h, tables[h])
  BY DEF ContainsBox
<1>2. cost \in Nat
  BY SlotFacts, BaseCosts, BaseNames
<1>3. Agrees(gv, storage[<<h, k>>]) /\ gv.status # "unloaded"
  BY SlotFacts
<1>4. tables[h] = LengthAfter(h, k, gv)
  <2>1. tables[h] # NoTable
    BY <1>1 DEF IsTable
  <2> QED
    BY <2>1, SlotFacts DEF LengthAfter
<1>5. TRUE \in BOOLEAN
  OBVIOUS
<1> HIDE DEF gv, cost
<1> QED
  BY <1>1, <1>2, <1>3, <1>4, <1>5, NativeStep

LEMMA RemoveBoxStep ==
  ASSUME TablesIInv, NEW h \in Handle, NEW k \in Key, RemoveBox(h, k)
  PROVE  TablesIInv'
<1> DEFINE gv == Resolved(<<h, k>>)
           cost == Gas["REMOVE_BOX_BASE"] + ChargeLoadCost(<<h, k>>)
<1>1. /\ IsTable(h)
      /\ Native(cost, Exists(gv), <<"value", gv.val>>, "NOT_FOUND",
                [content EXCEPT ![<<h, k>>] = MoveFrom(gv)], h, tables[h] - 1)
  BY DEF RemoveBox
<1>2. cost \in Nat
  BY SlotFacts, BaseCosts, BaseNames
<1>3. Exists(gv) => /\ Agrees(MoveFrom(gv), storage[<<h, k>>])
                    /\ MoveFrom(gv).status # "unloaded"
                    /\ MoveFrom(gv).val = Missing
  BY SlotFacts, MoveFromAgrees
<1>4. Exists(gv) => tables[h] - 1 = LengthAfter(h, k, MoveFrom(gv))
  BY <1>1, <1>3, SlotFacts DEF LengthAfter, IsTable
<1>5. Exists(gv) \in BOOLEAN
  BY SlotFacts
<1> HIDE DEF gv, cost
<1> QED
  BY <1>1, <1>2, <1>3, <1>4, <1>5, NativeStep

\* A table that is empty is destroyed with the entries that it does not have.
LEMMA DestroyStep ==
  ASSUME TablesIInv, NEW h \in Handle, DestroyEmptyBox(h)
  PROVE  TablesIInv'
<1> DEFINE cost == Gas["DESTROY_EMPTY_BOX_BASE"] + Gas["DROP_UNCHECKED_BOX_BASE"]
<1>1. CASE Aborted("NOT_EMPTY") \/ Aborted("OUT_OF_GAS")
  BY <1>1, AbortedStep
<1>2. CASE /\ tables[h] = 0 /\ cost <= gas
           /\ gas' = gas - cost
           /\ removed_tables' = removed_tables \cup {h}
           /\ tables' = [tables EXCEPT ![h] = NoTable]
           /\ UNCHANGED <<savedVars, running, new_tables, content>>
  <2>1. IsTable(h) /\ running
    BY DEF DestroyEmptyBox, IsTable
  <2>2. TablesTypeOK
    BY DEF TablesIInv
  <2>3. gas' \in 0 .. GasLimit
    <3>1. cost \in Nat
      BY BaseCosts, BaseNames
    <3> HIDE DEF cost
    <3> QED
      BY <1>2, <2>2, <3>1 DEF TablesTypeOK
  <2>4. /\ storage' = storage /\ savedTables' = savedTables /\ session' = session
        /\ running' = running /\ new_tables' = new_tables /\ content' = content
    BY <1>2 DEF savedVars
  <2>5. tables'[h] = NoTable /\ \A g \in Handle \ {h} : tables'[g] = tables[g]
    BY <1>2, <2>2 DEF TablesTypeOK
  <2>6. TablesTypeOK'
    BY <1>2, <2>2, <2>3, <2>4 DEF TablesTypeOK
  <2>7. CacheAgrees' /\ NothingPending'
    BY <2>1, <2>4 DEF CacheAgrees, NothingPending, TablesIInv
  <2>8. HandlesAreFresh'
    <3>1. HandlesAreFresh
      BY DEF TablesIInv
    <3>2. ~(h[1] > session \/ (h[1] = session /\ h[2] >= Len(new_tables)))
      BY <1>2, <3>1 DEF HandlesAreFresh
    <3>3. removed_tables' \subseteq Handle
      BY <2>6 DEF TablesTypeOK
    <3> QED
      BY <1>2, <2>4, <2>5, <3>1, <3>2, <3>3 DEF HandlesAreFresh
  <2>9. LengthIsCount'
    <3>1. \A g \in Handle : /\ Present(g)' = Present(g)
                            /\ PresentInStorage(g)' = PresentInStorage(g)
      BY <2>4 DEF Present, PresentInStorage, ViewOf, Resolved
    <3> QED
      BY <1>2, <2>4, <2>5, <3>1 DEF LengthIsCount, TablesIInv
  <2> QED
    BY <2>6, <2>7, <2>8, <2>9 DEF TablesIInv
<1> QED
  BY <1>1, <1>2 DEF DestroyEmptyBox

\* The handle of a new table names none yet, in this session or in storage.
LEMMA NewTableStep ==
  ASSUME TablesIInv, NewTableHandle
  PROVE  TablesIInv'
<1> DEFINE h == <<session, Len(new_tables)>>
           cost == Gas["NEW_TABLE_HANDLE_BASE"]
<1>1. CASE Aborted("OUT_OF_GAS")
  BY <1>1, AbortedStep
<1>2. CASE /\ cost <= gas
           /\ gas' = gas - cost
           /\ new_tables' = Append(new_tables, h)
           /\ tables' = [tables EXCEPT ![h] = 0]
           /\ UNCHANGED <<savedVars, running, removed_tables, content>>
  <2>1. running /\ Len(new_tables) < MaxNew
    BY DEF NewTableHandle
  <2>2. TablesTypeOK /\ HandlesAreFresh /\ session \in Int /\ Len(new_tables) \in Nat
    BY DEF TablesIInv, TablesTypeOK
  <2>3. h \in Handle
    BY <2>1, <2>2 DEF HandlesAreFresh, Handle, Session, TablesTypeOK
  <2>4. tables[h] = NoTable /\ h \notin removed_tables
    BY <2>2, <2>3 DEF HandlesAreFresh
  <2>5. /\ storage' = storage /\ savedTables' = savedTables /\ session' = session
        /\ running' = running /\ removed_tables' = removed_tables /\ content' = content
    BY <1>2 DEF savedVars
  <2>6. tables'[h] = 0 /\ \A g \in Handle \ {h} : tables'[g] = tables[g]
    BY <1>2, <2>2, <2>3 DEF TablesTypeOK
  <2>7. /\ new_tables' \in Seq(Handle) /\ Len(new_tables') = Len(new_tables) + 1
        /\ new_tables'[Len(new_tables) + 1] = h
        /\ \A i \in 1 .. Len(new_tables) : new_tables'[i] = new_tables[i]
    BY <1>2, <2>2, <2>3 DEF TablesTypeOK
  <2>8. TablesTypeOK'
    <3>1. gas' \in 0 .. GasLimit
      <4>1. cost \in Nat
        BY BaseCosts, BaseNames
      <4> HIDE DEF cost
      <4> QED
        BY <1>2, <2>2, <4>1 DEF TablesTypeOK
    <3>2. tables' \in [Handle -> Nat \cup {NoTable}]
      BY <1>2, <2>2, <2>3 DEF TablesTypeOK
    <3> QED
      BY <2>1, <2>2, <2>5, <2>7, <3>1, <3>2 DEF TablesTypeOK
  <2>9. CacheAgrees' /\ NothingPending'
    BY <2>1, <2>5 DEF CacheAgrees, NothingPending, TablesIInv
  <2>10. HandlesAreFresh'
    <3>1. \A i \in 1 .. Len(new_tables') : new_tables'[i] = <<session', i - 1>>
      BY <2>2, <2>5, <2>7 DEF HandlesAreFresh
    <3>2. \A g \in Handle : g = <<g[1], g[2]>> /\ g[1] \in Int /\ g[2] \in Int
      BY DEF Handle, Session
    <3>3. ASSUME NEW g \in Handle,
                 g[1] > session \/ (g[1] = session /\ g[2] >= Len(new_tables'))
          PROVE  tables'[g] = NoTable /\ g \notin removed_tables
      <4>1. g # h /\ (g[1] > session \/ (g[1] = session /\ g[2] >= Len(new_tables)))
        BY <2>2, <2>7, <3>2, <3>3
      <4> QED
        BY <2>2, <2>6, <4>1 DEF HandlesAreFresh
    <3>4. \A g \in removed_tables : g \in Handle /\ g # h /\ tables'[g] = NoTable
      BY <2>2, <2>4, <2>6 DEF HandlesAreFresh, TablesTypeOK
    <3> QED
      BY <2>2, <2>5, <3>1, <3>3, <3>4 DEF HandlesAreFresh
  <2>11. LengthIsCount'
    <3>1. \A g \in Handle : /\ Present(g)' = Present(g)
                            /\ PresentInStorage(g)' = PresentInStorage(g)
      BY <2>5 DEF Present, PresentInStorage, ViewOf, Resolved
    <3>2. 0 # NoTable
      OBVIOUS
    <3> QED
      BY <2>3, <2>4, <2>5, <2>6, <3>1, <3>2 DEF LengthIsCount, TablesIInv
  <2> QED
    BY <2>8, <2>9, <2>10, <2>11 DEF TablesIInv
<1>3. cost \in Int /\ gas \in Int
  BY BaseCosts, BaseNames DEF TablesIInv, TablesTypeOK
<1>4. IF cost > gas THEN Aborted("OUT_OF_GAS")
      ELSE /\ gas' = gas - cost
           /\ new_tables' = Append(new_tables, h)
           /\ tables' = [tables EXCEPT ![h] = 0]
           /\ answer' = <<"handle", h>>
           /\ UNCHANGED <<savedVars, running, removed_tables, content>>
  BY DEF NewTableHandle
<1>5. CASE cost > gas
  BY <1>1, <1>4, <1>5
<1>6. CASE ~(cost > gas)
  <2>1. cost <= gas
    BY <1>3, <1>6
  <2> QED
    BY <1>2, <1>4, <1>6, <2>1
<1> QED
  BY <1>5, <1>6

LEMMA BeginStep ==
  ASSUME TablesIInv, BeginSession
  PROVE  TablesIInv'
<1>1. /\ running' = TRUE /\ gas' = GasLimit /\ session < MaxSessions /\ ~running
      /\ storage' = storage /\ savedTables' = savedTables /\ session' = session
      /\ tables' = tables /\ new_tables' = new_tables
      /\ removed_tables' = removed_tables /\ content' = content
  BY DEF BeginSession, savedVars, cacheVars
<1>2. TablesTypeOK'
  BY <1>1 DEF TablesIInv, TablesTypeOK
<1>3. CacheAgrees' /\ NothingPending' /\ HandlesAreFresh'
  BY <1>1 DEF TablesIInv, CacheAgrees, NothingPending, HandlesAreFresh
<1>4. LengthIsCount'
  BY <1>1 DEF TablesIInv, LengthIsCount, Present, PresentInStorage, ViewOf, Resolved
<1> QED
  BY <1>2, <1>3, <1>4 DEF TablesIInv

\* A commit stores what the session sees.
LEMMA StoredIsView ==
  ASSUME TablesTypeOK, CacheAgrees, NEW s \in Slot
  PROVE  Stored(s) = ViewOf(s) /\ Stored(s) \in Val \cup {Missing}
<1>1. Agrees(content[s], storage[s]) /\ storage[s] \in Val \cup {Missing}
  BY DEF TablesTypeOK, CacheAgrees, Agrees
<1>2. CASE content[s].status = "unloaded"
  <2>1. Stored(s) = storage[s]
    BY <1>2 DEF Stored, Effect
  <2>2. ViewOf(s) = storage[s]
    BY <1>1, <1>2, Statuses, GlobalIs DEF ViewOf, Resolved
  <2> QED
    BY <1>1, <2>1, <2>2
<1>3. CASE content[s].status # "unloaded"
  <2>1. ViewOf(s) = content[s].val
    BY <1>3 DEF ViewOf, Resolved
  <2>2. content[s].status \in {"none", "fresh", "clean", "dirty", "deleted"}
    BY <1>1, <1>3 DEF Agrees, GlobalValue, Status
  <2>3. content[s].val \in Val \cup {Missing}
    BY <1>1 DEF Agrees, GlobalValue
  <2>4. CASE content[s].status \in {"none", "clean"}
    BY <1>1, <2>1, <2>3, <2>4 DEF Stored, Effect, Agrees
  <2>5. CASE content[s].status \in {"fresh", "dirty"}
    BY <1>1, <2>1, <2>3, <2>5 DEF Stored, Effect, Agrees
  <2>6. CASE content[s].status = "deleted"
    BY <1>1, <2>1, <2>3, <2>6 DEF Stored, Effect, Agrees
  <2> QED
    BY <2>2, <2>4, <2>5, <2>6
<1> QED
  BY <1>2, <1>3

LEMMA CommitStep ==
  ASSUME TablesIInv, IntoChangeSet
  PROVE  TablesIInv'
<1>1. /\ storage' = [s \in Slot |-> Stored(s)] /\ savedTables' = tables
      /\ session' = session + 1 /\ running' = FALSE /\ new_tables' = <<>>
      /\ removed_tables' = {} /\ content' = NoContent /\ gas' = 0 /\ tables' = tables
      /\ running
  BY DEF IntoChangeSet
<1>2. TablesTypeOK /\ CacheAgrees /\ HandlesAreFresh /\ LengthIsCount
  BY DEF TablesIInv
<1>3. storage' \in [Slot -> Val \cup {Missing}]
  BY <1>1, <1>2, StoredIsView
<1>4. savedTables' \in [Handle -> Nat \cup {NoTable}] /\ tables' = savedTables'
  BY <1>1, <1>2 DEF TablesTypeOK
<1>5. session' \in 0 .. MaxSessions
  BY <1>1, <1>2 DEF TablesTypeOK, HandlesAreFresh
<1>6. \A h \in Handle : h[1] >= session' => savedTables'[h] = NoTable
  <2>1. \A h \in Handle : h[1] \in Int
    BY DEF Handle, Session
  <2>2. session \in Int
    BY <1>2 DEF TablesTypeOK
  <2> QED
    BY <1>1, <1>2, <2>1, <2>2 DEF HandlesAreFresh
<1>7. \A h \in Handle : PresentInStorage(h)' = Present(h)
  <2>1. \A h \in Handle, k \in Key : <<h, k>> \in Slot
    BY DEF Slot
  <2>2. \A s \in Slot : storage'[s] = ViewOf(s)
    BY <1>1, <1>2, StoredIsView
  <2> QED
    BY <2>1, <2>2 DEF Present, PresentInStorage
<1>8. \A h \in Handle : Cardinality(PresentInStorage(h)') =
                          (IF savedTables'[h] = NoTable THEN 0 ELSE savedTables'[h])
  BY <1>1, <1>2, <1>7 DEF LengthIsCount
<1> QED
  BY <1>1, <1>3, <1>4, <1>5, <1>6, <1>8, EndStep

-----------------------------------------------------------------------------
(* The invariants *)

LEMMA TablesInitially == TablesInit => TablesIInv
<1> SUFFICES ASSUME TablesInit PROVE TablesIInv
  OBVIOUS
<1>1. /\ storage = [s \in Slot |-> Missing]
      /\ savedTables = [h \in Handle |-> NoTable] /\ tables = savedTables
      /\ running = FALSE /\ session = 0
      /\ new_tables = <<>> /\ removed_tables = {} /\ content = NoContent /\ gas = 0
  BY DEF TablesInit
<1>2. TablesTypeOK
  <2>1. new_tables \in Seq(Handle) /\ Len(new_tables) <= MaxNew
    BY <1>1
  <2>2. content \in [Slot -> GlobalValue]
    BY <1>1, EmptyContent
  <2>3. storage \in [Slot -> Val \cup {Missing}]
    BY <1>1
  <2>4. tables \in [Handle -> Nat \cup {NoTable}] /\ removed_tables \subseteq Handle
    BY <1>1
  <2>5. session \in 0 .. MaxSessions /\ gas \in 0 .. GasLimit
    BY <1>1
  <2> QED
    BY <1>1, <2>1, <2>2, <2>3, <2>4, <2>5 DEF TablesTypeOK
<1>3. CacheAgrees
  BY <1>1, EmptyContent DEF CacheAgrees
<1>4. NothingPending /\ HandlesAreFresh
  BY <1>1 DEF NothingPending, HandlesAreFresh
<1>5. LengthIsCount
  <2>1. ASSUME NEW h \in Handle PROVE Present(h) = {} /\ PresentInStorage(h) = {}
    <3>1. \A k \in Key : <<h, k>> \in Slot
      BY DEF Slot
    <3>2. \A s \in Slot : storage[s] = Missing /\ content[s].status = "unloaded"
      BY <1>1, EmptyContent
    <3>3. \A s \in Slot : ViewOf(s) = Missing
      BY <3>2, Statuses, GlobalIs DEF ViewOf, Resolved
    <3> QED
      BY <3>1, <3>2, <3>3 DEF Present, PresentInStorage
  <2> QED
    BY <1>1, <2>1, FS_EmptySet DEF LengthIsCount
<1> QED
  BY <1>2, <1>3, <1>4, <1>5 DEF TablesIInv

LEMMA TablesStep == TablesIInv /\ [TablesNext]_tableVars => TablesIInv'
<1> SUFFICES ASSUME TablesIInv, [TablesNext]_tableVars PROVE TablesIInv'
  OBVIOUS
<1>1. CASE UNCHANGED tableVars
  BY <1>1 DEF tableVars, savedVars, cacheVars, TablesIInv, TablesTypeOK, CacheAgrees,
              NothingPending, HandlesAreFresh, LengthIsCount, Present,
              PresentInStorage, ViewOf, Resolved
<1> QED
  BY <1>1, BeginStep, NewTableStep, DestroyStep, BorrowBoxStep, ContainsBoxStep,
     RemoveBoxStep, AddBoxStep, BorrowBoxMutStep, CommitStep
  DEF TablesNext

\* The inductive invariant, with LengthIsCount as a part.
THEOREM TablesInvariant == TablesSpec => []TablesIInv
BY TablesInitially, TablesStep, PTL DEF TablesSpec

\* The length that table_with_length.move keeps is the number of entries, in
\* every session and in storage.
THEOREM LengthsAreCounts == TablesSpec => []LengthIsCount
<1>1. TablesIInv => LengthIsCount
  BY DEF TablesIInv
<1> QED
  BY <1>1, TablesInvariant, PTL

\* The change set of into_change_set has each operation that storage expects.
THEOREM OpsAlwaysMatch == TablesSpec => []OpsMatchStorage
<1>1. TablesIInv => OpsMatchStorage
  BY DEF TablesIInv, OpsMatchStorage, CacheAgrees, Effect
<1> QED
  BY <1>1, TablesInvariant, PTL

\* The assertions of the natives hold, so that none of them makes the VM panic.
THEOREM AssertionsAlwaysHold == TablesSpec => []AssertionsHold
<1>1. TablesIInv => AssertionsHold
  <2> SUFFICES ASSUME TablesIInv, running PROVE AssertionsHold
    BY DEF AssertionsHold
  <2> DEFINE h == <<session, Len(new_tables)>>
  <2>1. TablesTypeOK /\ HandlesAreFresh
    BY DEF TablesIInv
  <2>2. session \in Nat /\ Len(new_tables) \in Nat /\ session < MaxSessions
    BY <2>1 DEF TablesTypeOK, HandlesAreFresh
  <2>3. \A i \in 1 .. Len(new_tables) : new_tables[i] # h
    BY <2>1, <2>2 DEF HandlesAreFresh
  <2>4. Len(new_tables) < MaxNew => tables[h] = NoTable
    <3> SUFFICES ASSUME Len(new_tables) < MaxNew PROVE tables[h] = NoTable
      OBVIOUS
    <3>1. h \in Handle
      BY <2>2 DEF Handle, Session
    <3> QED
      BY <2>1, <2>2, <3>1 DEF HandlesAreFresh
  <2>5. \A g \in removed_tables : tables[g] = NoTable
    BY <2>1 DEF HandlesAreFresh
  <2> QED
    BY <2>2, <2>3, <2>4, <2>5 DEF AssertionsHold
<1> QED
  BY <1>1, TablesInvariant, PTL

-----------------------------------------------------------------------------
(* Loads *)

\* What the loads of the session cost, slot by slot.
Charges == [s \in Slot |-> IF content[s].status = "unloaded" THEN 0 ELSE ResolveCost(s)]

Loads == Total([s \in {x \in Slot : content[x].status # "unloaded"} |-> ResolveCost(s)])

LEMMA SlotFinite == IsFiniteSet(Slot)
<1>1. IsFiniteSet(Session) /\ IsFiniteSet(0 .. MaxNew - 1)
  BY FS_Interval DEF Session
<1>2. IsFiniteSet(Handle)
  BY <1>1, FS_Product DEF Handle
<1> QED
  BY <1>2, FS_Product DEF Slot

LEMMA LoadsTotal ==
  TablesTypeOK => Charges \in [Slot -> Int] /\ Loads = Total(Charges)
<1> SUFFICES ASSUME TablesTypeOK PROVE Charges \in [Slot -> Int] /\ Loads = Total(Charges)
  OBVIOUS
<1> DEFINE R == {x \in Slot : content[x].status # "unloaded"}
<1>1. Charges \in [Slot -> Int]
  BY CostsAreNat DEF Charges
<1>2. R \in SUBSET Slot /\ \A x \in Slot \ R : Charges[x] = 0
  BY DEF Charges
<1>3. Total([x \in R |-> Charges[x]]) = Total(Charges)
  <2> HIDE DEF R
  <2> QED
    BY <1>1, <1>2, SlotFinite, TotalRestrict
<1>4. [x \in R |-> Charges[x]] = [x \in R |-> ResolveCost(x)]
  BY DEF Charges
<1> QED
  BY <1>1, <1>3, <1>4 DEF Loads

\* Nothing that was loaded costs nothing.
LEMMA NoLoads ==
  ASSUME TablesTypeOK, content = NoContent
  PROVE  Loads = 0
<1>1. Charges \in [Slot -> {0, 1}] /\ \A x \in Slot : Charges[x] = 0
  BY EmptyContent DEF Charges
<1>2. {x \in Slot : Charges[x] = 1} = {}
  BY <1>1
<1>3. Total(Charges) = Cardinality({x \in Slot : Charges[x] = 1})
  BY <1>1, SlotFinite, TotalOfOnes
<1> QED
  BY <1>2, <1>3, FS_EmptySet, LoadsTotal

\* A native on a slot aborts, or pays for the load that it makes.
PaysFor(s) ==
  \E cost \in Nat, gv \in GlobalValue :
    /\ cost >= ChargeLoadCost(s) /\ cost <= gas
    /\ gas' = gas - cost
    /\ gv.status # "unloaded" /\ content' = [content EXCEPT ![s] = gv]
    /\ storage' = storage /\ running' = running

LEMMA LoadStep ==
  ASSUME TablesIInv, running, LoadsArePaid, TablesTypeOK', NEW s \in Slot, PaysFor(s)
  PROVE  LoadsArePaid'
<1>1. PICK cost \in Nat, gv \in GlobalValue :
        /\ cost >= ChargeLoadCost(s) /\ cost <= gas
        /\ gas' = gas - cost
        /\ gv.status # "unloaded" /\ content' = [content EXCEPT ![s] = gv]
        /\ storage' = storage /\ running' = running
  BY DEF PaysFor
<1>2. TablesTypeOK /\ GasLimit - gas >= Loads
  BY DEF TablesIInv, LoadsArePaid, Loads
<1>3. ResolveCost(s) \in Nat /\ ChargeLoadCost(s) \in Nat
  BY <1>2, CostsAreNat
<1>4. \A r \in Slot : ResolveCost(r)' = ResolveCost(r)
  BY <1>1 DEF ResolveCost
<1>5. content'[s] = gv /\ \A r \in Slot \ {s} : content'[r] = content[r]
  BY <1>1, <1>2 DEF TablesTypeOK
<1>6. Charges' = [Charges EXCEPT ![s] = ResolveCost(s)]
  BY <1>1, <1>4, <1>5 DEF Charges
<1>7. Charges \in [Slot -> Int] /\ Loads = Total(Charges) /\ Loads' = Total(Charges)'
  <2>1. Charges \in [Slot -> Int] /\ Loads = Total(Charges)
    BY <1>2, LoadsTotal
  <2>2. TablesTypeOK' => (Loads = Total(Charges))'
    BY LoadsTotal, PTL
  <2> QED
    BY <2>1, <2>2
<1>8. Total(Charges)' = Total(Charges) - Charges[s] + ResolveCost(s)
  <2>1. Total([Charges EXCEPT ![s] = ResolveCost(s)]) =
          Total(Charges) - Charges[s] + ResolveCost(s)
    <3> DEFINE v == ResolveCost(s)
    <3>1. v \in Int
      BY <1>3
    <3>2. Charges \in [Slot -> Int]
      BY <1>7
    <3> HIDE DEF v
    <3>3. ASSUME NEW f \in [Slot -> Int], NEW w \in Int
          PROVE  Total([f EXCEPT ![s] = w]) = Total(f) - f[s] + w
      BY ONLY SlotFinite, TotalUpdate, s \in Slot, Zenon
    <3>4. Total([Charges EXCEPT ![s] = v]) = Total(Charges) - Charges[s] + v
      BY <3>1, <3>2, <3>3
    <3> QED
      BY <3>4 DEF v
  <2> QED
    BY <1>6, <2>1, Zenon
<1>9. ChargeLoadCost(s) >= ResolveCost(s) - Charges[s]
  <2>1. Gas["COMMON_LOAD_BASE_LEGACY"] \in Nat
    BY BaseCosts DEF GasNames
  <2>2. CASE content[s].status = "unloaded"
    BY <1>3, <2>1, <2>2 DEF Charges, ChargeLoadCost
  <2>3. CASE content[s].status # "unloaded"
    BY <1>3, <2>1, <2>3 DEF Charges, ChargeLoadCost
  <2> QED
    BY <2>2, <2>3
<1>10. Total(Charges) \in Int /\ Charges[s] \in Int
  BY <1>7, SlotFinite, TotalInt
<1>11. gas \in Int /\ GasLimit \in Int
  BY <1>2 DEF TablesTypeOK
<1>12. GasLimit - gas' >= Loads'
  BY <1>1, <1>2, <1>3, <1>7, <1>8, <1>9, <1>10, <1>11
<1> QED
  BY <1>12 DEF LoadsArePaid, Loads

LEMMA NativePays ==
  ASSUME TablesIInv, NEW h \in Handle, NEW k \in Key, NEW gv, NEW cost \in Nat,
         NEW ok \in BOOLEAN, NEW result, NEW code, NEW length,
         ok => gv \in GlobalValue /\ gv.status # "unloaded",
         cost >= ChargeLoadCost(<<h, k>>),
         Native(cost, ok, result, code, [content EXCEPT ![<<h, k>>] = gv], h, length)
  PROVE  (\E c : Aborted(c)) \/ PaysFor(<<h, k>>)
BY DEF Native, PaysFor, savedVars

LEMMA SlotNativesPay ==
  ASSUME TablesIInv, NEW h \in Handle, NEW k \in Key,
         \/ BorrowBox(h, k) \/ ContainsBox(h, k) \/ RemoveBox(h, k)
         \/ \E v \in Val : AddBox(h, k, v) \/ BorrowBoxMut(h, k, v)
  PROVE  (\E c : Aborted(c)) \/ PaysFor(<<h, k>>)
<1> DEFINE gv == Resolved(<<h, k>>)
           load == ChargeLoadCost(<<h, k>>)
<1>1. /\ Agrees(gv, storage[<<h, k>>]) /\ gv.status # "unloaded"
      /\ Exists(gv) \in BOOLEAN /\ (~Exists(gv)) \in BOOLEAN /\ load \in Nat
  BY SlotFacts DEF Exists
<1>2. \A g \in GasNames : Gas[g] + load \in Nat /\ Gas[g] + load >= load
  BY <1>1, BaseCosts
<1>3. gv \in GlobalValue
  BY <1>1 DEF Agrees
<1>4. CASE BorrowBox(h, k)
  <2>1. Native(Gas["BORROW_BOX_BASE"] + load, Exists(gv), <<"value", gv.val>>,
               "NOT_FOUND", [content EXCEPT ![<<h, k>>] = gv], h, tables[h])
    BY <1>4 DEF BorrowBox
  <2> HIDE DEF gv
  <2> QED
    BY <1>1, <1>2, <1>3, <2>1, BaseNames, NativePays
<1>5. CASE ContainsBox(h, k)
  <2>1. Native(Gas["CONTAINS_BOX_BASE"] + load, TRUE, <<"exists", Exists(gv)>>, "",
               [content EXCEPT ![<<h, k>>] = gv], h, tables[h])
    BY <1>5 DEF ContainsBox
  <2>2. TRUE \in BOOLEAN
    OBVIOUS
  <2> HIDE DEF gv
  <2> QED
    BY <1>1, <1>2, <1>3, <2>1, <2>2, BaseNames, NativePays
<1>6. CASE RemoveBox(h, k)
  <2>1. Native(Gas["REMOVE_BOX_BASE"] + load, Exists(gv), <<"value", gv.val>>,
               "NOT_FOUND", [content EXCEPT ![<<h, k>>] = MoveFrom(gv)], h, tables[h] - 1)
    BY <1>6 DEF RemoveBox
  <2>2. Exists(gv) => MoveFrom(gv) \in GlobalValue /\ MoveFrom(gv).status # "unloaded"
    BY <1>1, MoveFromAgrees DEF Agrees
  <2> HIDE DEF gv
  <2> QED
    BY <1>1, <1>2, <2>1, <2>2, BaseNames, NativePays
<1>7. ASSUME NEW v \in Val, AddBox(h, k, v)
      PROVE  (\E c : Aborted(c)) \/ PaysFor(<<h, k>>)
  <2>1. Native(Gas["ADD_BOX_BASE"] + load, ~Exists(gv), NoAnswer, "ALREADY_EXISTS",
               [content EXCEPT ![<<h, k>>] = MoveTo(gv, v)], h, tables[h] + 1)
    BY <1>7 DEF AddBox
  <2>2. ~Exists(gv) => MoveTo(gv, v) \in GlobalValue /\ MoveTo(gv, v).status # "unloaded"
    BY <1>1, MoveToAgrees DEF Agrees
  <2> HIDE DEF gv
  <2> QED
    BY <1>1, <1>2, <2>1, <2>2, BaseNames, NativePays
<1>8. ASSUME NEW v \in Val, BorrowBoxMut(h, k, v)
      PROVE  (\E c : Aborted(c)) \/ PaysFor(<<h, k>>)
  <2>1. Native(Gas["BORROW_BOX_BASE"] + load, Exists(gv), NoAnswer, "NOT_FOUND",
               [content EXCEPT ![<<h, k>>] = WriteRef(gv, v)], h, tables[h])
    BY <1>8 DEF BorrowBoxMut
  <2>2. Exists(gv) => WriteRef(gv, v) \in GlobalValue /\ WriteRef(gv, v).status # "unloaded"
    BY <1>1, WriteRefAgrees DEF Agrees
  <2> HIDE DEF gv
  <2> QED
    BY <1>1, <1>2, <2>1, <2>2, BaseNames, NativePays
<1> QED
  BY <1>4, <1>5, <1>6, <1>7, <1>8

LEMMA PaidInitially == TablesInit => LoadsArePaid
BY DEF TablesInit, LoadsArePaid

\* A step that loads nothing and gives no gas back.
LEMMA NoLoadStep ==
  ASSUME TablesIInv, LoadsArePaid, running, TablesTypeOK', gas' <= gas,
         content' = content, storage' = storage
  PROVE  LoadsArePaid'
<1>1. GasLimit - gas >= Loads /\ gas \in Int /\ gas' \in Int /\ GasLimit \in Int
  BY DEF LoadsArePaid, Loads, TablesIInv, TablesTypeOK
<1>2. Loads' = Loads
  BY DEF Loads, ResolveCost
<1>3. Loads \in Int
  BY LoadsTotal, SlotFinite, TotalInt DEF TablesIInv
<1>4. GasLimit - gas' >= Loads
  <2> DEFINE loads == Loads
  <2>1. loads \in Int /\ GasLimit - gas >= loads /\ gas' <= gas
    BY <1>1, <1>3
  <2> HIDE DEF loads
  <2>2. GasLimit - gas' >= loads
    <3>1. ASSUME NEW a \in Int, NEW b \in Int, NEW c \in Int, NEW d \in Int,
                 d - a >= c, b <= a
          PROVE  d - b >= c
      BY ONLY <3>1
    <3> QED
      BY <1>1, <2>1, <3>1
  <2> QED
    BY <2>2 DEF loads
<1>5. GasLimit - gas' >= Loads'
  BY <1>2, <1>4
<1> QED
  BY <1>5 DEF LoadsArePaid, Loads

LEMMA PaidStep ==
  TablesIInv /\ LoadsArePaid /\ TablesIInv' /\ [TablesNext]_tableVars => LoadsArePaid'
<1> SUFFICES ASSUME TablesIInv, LoadsArePaid, TablesIInv', [TablesNext]_tableVars
             PROVE  LoadsArePaid'
  OBVIOUS
<1>1. TablesTypeOK'
  BY DEF TablesIInv
<1>2. CASE running' = FALSE
  BY <1>2 DEF LoadsArePaid
<1>3. ASSUME NEW code, Aborted(code) PROVE LoadsArePaid'
  BY <1>2, <1>3 DEF Aborted
<1>4. CASE BeginSession
  <2>1. content' = NoContent /\ gas' = GasLimit
    BY <1>4 DEF BeginSession, cacheVars, TablesIInv, NothingPending
  <2>2. TablesTypeOK' /\ (content = NoContent)' => (Loads = 0)'
    BY NoLoads, PTL
  <2>3. Loads' = 0
    BY <1>1, <2>1, <2>2 DEF NoContent, Unloaded, Global
  <2>4. GasLimit - gas' >= Loads'
    BY <2>1, <2>3
  <2> QED
    BY <2>4 DEF LoadsArePaid, Loads
<1>5. CASE IntoChangeSet
  BY <1>2, <1>5 DEF IntoChangeSet
<1>6. CASE NewTableHandle
  <2> DEFINE cost == Gas["NEW_TABLE_HANDLE_BASE"]
  <2>1. cost \in Nat /\ gas \in Int
    BY BaseCosts, BaseNames DEF TablesIInv, TablesTypeOK
  <2>2. \/ Aborted("OUT_OF_GAS")
        \/ running /\ gas' = gas - cost /\ content' = content /\ storage' = storage
    BY <1>6 DEF NewTableHandle, savedVars
  <2> HIDE DEF cost
  <2>3. gas - cost <= gas
    BY <2>1
  <2> QED
    BY <1>1, <1>3, <2>2, <2>3, NoLoadStep
<1>7. ASSUME NEW h \in Handle, DestroyEmptyBox(h) PROVE LoadsArePaid'
  <2> DEFINE cost == Gas["DESTROY_EMPTY_BOX_BASE"] + Gas["DROP_UNCHECKED_BOX_BASE"]
  <2>1. cost \in Nat /\ gas \in Int
    BY BaseCosts, BaseNames DEF TablesIInv, TablesTypeOK
  <2>2. \/ Aborted("NOT_EMPTY") \/ Aborted("OUT_OF_GAS")
        \/ running /\ gas' = gas - cost /\ content' = content /\ storage' = storage
    BY <1>7 DEF DestroyEmptyBox, IsTable, savedVars
  <2> HIDE DEF cost
  <2>3. gas - cost <= gas
    BY <2>1
  <2> QED
    BY <1>1, <1>3, <2>2, <2>3, NoLoadStep
<1>8. ASSUME NEW h \in Handle, NEW k \in Key,
             \/ BorrowBox(h, k) \/ ContainsBox(h, k) \/ RemoveBox(h, k)
             \/ \E v \in Val : AddBox(h, k, v) \/ BorrowBoxMut(h, k, v)
      PROVE  LoadsArePaid'
  <2>1. running /\ <<h, k>> \in Slot
    BY <1>8 DEF BorrowBox, ContainsBox, RemoveBox, AddBox, BorrowBoxMut, IsTable, Slot
  <2> QED
    BY <1>1, <1>3, <1>8, <2>1, SlotNativesPay, LoadStep
<1>9. CASE UNCHANGED tableVars
  BY <1>9 DEF tableVars, savedVars, cacheVars, LoadsArePaid, ResolveCost
<1> QED
  BY <1>4, <1>5, <1>6, <1>7, <1>8, <1>9 DEF TablesNext

\* A session pays for what it had storage read, whatever the schedule says and
\* however late the natives charge.
THEOREM LoadsAlwaysPaid == TablesSpec => []LoadsArePaid
BY TablesInvariant, PaidInitially, PaidStep, PTL DEF TablesSpec

-----------------------------------------------------------------------------
(* The maps *)

\* The maps that the session sees and those in storage, as ImplementsMaps has
\* them.
Seen == MapOf(tables, [s \in Slot |-> ViewOf(s)])
Kept == MapOf(savedTables, storage)

LEMMA SeenAt ==
  ASSUME NEW h \in Handle
  PROVE  Seen[h] = IF tables[h] = NoTable THEN NoTable
                   ELSE [k \in Key |-> ViewOf(<<h, k>>)]
<1>1. \A k \in Key : <<h, k>> \in Slot
  BY DEF Slot
<1> QED
  BY <1>1 DEF Seen, MapOf

LEMMA ViewsAreValues ==
  ASSUME TablesIInv, NEW h \in Handle
  PROVE  \A k \in Key : ViewOf(<<h, k>>) \in Val \cup {Missing}
BY SlotFacts

\* A handle names a map exactly when it names a table.
LEMMA SeenIs ==
  ASSUME TablesIInv, NEW h \in Handle, tables[h] # NoTable
  PROVE  /\ Seen[h] = [k \in Key |-> ViewOf(<<h, k>>)]
         /\ Seen[h] # NoTable
         /\ \A k \in Key : Seen[h][k] = ViewOf(<<h, k>>)
<1>1. Seen[h] = [k \in Key |-> ViewOf(<<h, k>>)]
  BY SeenAt
<1>2. Seen[h] \in [Key -> Val \cup {Missing}]
  BY <1>1, ViewsAreValues
<1> QED
  BY <1>1, <1>2

\* What an abort leaves is what storage has.
LEMMA SeenAfterAbort ==
  ASSUME TablesIInv, NEW code, Aborted(code)
  PROVE  Seen' = Kept /\ Kept' = Kept /\ answer' = <<"abort", code>>
<1>1. /\ storage' = storage /\ savedTables' = savedTables /\ tables' = savedTables
      /\ content' = NoContent /\ answer' = <<"abort", code>>
  BY DEF Aborted, savedVars
<1>2. ASSUME NEW s \in Slot PROVE ViewOf(s)' = storage[s]
  <2>1. content'[s].status = "unloaded"
    BY <1>1, EmptyContent
  <2>2. Resolved(s)' = (IF storage[s] = Missing THEN Global("none", Missing)
                        ELSE Global("clean", storage[s]))
    BY <1>1, <2>1 DEF Resolved
  <2>3. storage[s] \in Val \cup {Missing}
    BY DEF TablesIInv, TablesTypeOK
  <2> QED
    BY <2>2, <2>3, Statuses, GlobalIs DEF ViewOf
<1>3. [s \in Slot |-> ViewOf(s)]' = [s \in Slot |-> storage[s]]
  BY <1>2
<1>4. storage = [s \in Slot |-> storage[s]]
  BY DEF TablesIInv, TablesTypeOK
<1>5. Seen' = Kept
  BY <1>1, <1>3, <1>4 DEF Seen, Kept
<1> QED
  BY <1>1, <1>5 DEF Kept

\* A native on a slot changes the map of its table at its key.
LEMMA SeenAfterSlot ==
  ASSUME TablesIInv, NEW h \in Handle, NEW k \in Key, NEW gv, NEW length \in Nat,
         tables[h] # NoTable, gv.status # "unloaded",
         content' = [content EXCEPT ![<<h, k>>] = gv],
         tables' = [tables EXCEPT ![h] = length],
         storage' = storage
  PROVE  Seen' = [Seen EXCEPT ![h][k] = gv.val]
<1>1. <<h, k>> \in Slot /\ TablesTypeOK
  BY DEF Slot, TablesIInv
<1>2. SlotSet(<<h, k>>, gv)
  BY DEF SlotSet
<1>3. ViewOf(<<h, k>>)' = gv.val /\ \A r \in Slot \ {<<h, k>>} : ViewOf(r)' = ViewOf(r)
  BY <1>1, <1>2, SlotView
<1>4. tables'[h] = length /\ \A g \in Handle \ {h} : tables'[g] = tables[g]
  BY <1>1 DEF TablesTypeOK
<1>5. DOMAIN Seen = Handle /\ DOMAIN Seen' = Handle
  BY DEF Seen, MapOf
<1>6. ASSUME NEW g \in Handle, g # h PROVE Seen'[g] = Seen[g]
  <2>1. \A j \in Key : <<g, j>> \in Slot \ {<<h, k>>}
    BY <1>6 DEF Slot
  <2>2. \A j \in Key : ViewOf(<<g, j>>)' = ViewOf(<<g, j>>)
    BY <1>3, <2>1
  <2>3. tables'[g] = tables[g]
    BY <1>4, <1>6
  <2> QED
    BY <2>1, <2>2, <2>3 DEF Seen, MapOf
<1>7. Seen'[h] = [Seen[h] EXCEPT ![k] = gv.val]
  <2>1. \A j \in Key : <<h, j>> \in Slot
    BY DEF Slot
  <2>2. \A j \in Key \ {k} : ViewOf(<<h, j>>)' = ViewOf(<<h, j>>)
    <3>1. \A j \in Key \ {k} : <<h, j>> \in Slot \ {<<h, k>>}
      BY DEF Slot
    <3> QED
      BY <1>3, <3>1
  <2>3. Seen'[h] = [j \in Key |-> ViewOf(<<h, j>>)']
    BY <1>4, <2>1 DEF Seen, MapOf
  <2>4. Seen[h] = [j \in Key |-> ViewOf(<<h, j>>)]
    BY SeenIs
  <2> DEFINE set == [j \in Key |-> IF j = k THEN gv.val ELSE ViewOf(<<h, j>>)]
  <2>5. [Seen[h] EXCEPT ![k] = gv.val] = set
    BY <2>4
  <2>6. \A j \in Key : ViewOf(<<h, j>>)' = set[j]
    BY <1>3, <2>2
  <2>7. Seen'[h] = set
    BY <2>3, <2>6
  <2> QED
    BY <2>5, <2>7
<1>8. Seen' = [g \in Handle |-> IF g = h THEN [Seen[h] EXCEPT ![k] = gv.val] ELSE Seen[g]]
  <2>1. Seen' = [g \in Handle |-> Seen'[g]]
    BY DEF Seen, MapOf
  <2> QED
    BY <1>6, <1>7, <2>1
<1> QED
  BY <1>5, <1>8

-----------------------------------------------------------------------------
(* Each step of the natives is one of the maps. *)

Op == Maps!MapsNext \/ UNCHANGED Maps!mapsVars

LEMMA AbortOutOfGas ==
  ASSUME TablesIInv, Aborted("OUT_OF_GAS")
  PROVE  Op
<1>1. Seen' = Kept /\ Kept' = Kept /\ answer' = <<"abort", "OUT_OF_GAS">>
  BY SeenAfterAbort
<1>2. Maps!OutOfGas
  BY <1>1 DEF Maps!OutOfGas, Seen, Kept
<1> QED
  BY <1>1, <1>2 DEF Op, Maps!MapsNext, Maps!Operation, Kept

\* A native that aborts has the reason that the map gives.
LEMMA AbortForReason ==
  ASSUME TablesIInv, NEW h \in Handle, NEW k \in Key, tables[h] # NoTable,
         NEW code, Aborted(code),
         \/ Seen[h] # [j \in Key |-> Missing] /\ code = "NOT_EMPTY"
         \/ ViewOf(<<h, k>>) = Missing /\ code = "NOT_FOUND"
         \/ ViewOf(<<h, k>>) # Missing /\ code = "ALREADY_EXISTS"
  PROVE  Op
<1>1. Seen' = Kept /\ Kept' = Kept /\ answer' = <<"abort", code>>
  BY SeenAfterAbort
<1>2. Seen[h] # NoTable /\ Seen[h][k] = ViewOf(<<h, k>>)
  BY SeenIs
<1>3. \/ Seen[h] # [j \in Key |-> Missing] /\ answer' = <<"abort", "NOT_EMPTY">>
      \/ Seen[h][k] = Missing /\ answer' = <<"abort", "NOT_FOUND">>
      \/ Seen[h][k] # Missing /\ answer' = <<"abort", "ALREADY_EXISTS">>
  BY <1>1, <1>2
<1>4. answer'[1] = "abort"
  BY <1>1
<1>5. Maps!Abort(h, k)
  BY <1>1, <1>2, <1>3, <1>4 DEF Maps!Abort, Maps!Is, Maps!EmptyMap, Seen, Kept
<1> QED
  BY <1>1, <1>5 DEF Op, Maps!MapsNext, Maps!Operation, Kept

\* The operations of the maps, in terms of Seen.
LEMMA MapSteps ==
  ASSUME NEW h \in Handle, NEW k \in Key, Kept' = Kept, Seen[h] # NoTable,
         \/ /\ answer' = <<"unit">> /\ Seen[h][k] = Missing
            /\ \E v \in Val : Seen' = [Seen EXCEPT ![h][k] = v]
         \/ /\ answer' = <<"value", Seen[h][k]>> /\ Seen[h][k] # Missing /\ Seen' = Seen
         \/ /\ answer' = <<"unit">> /\ Seen[h][k] # Missing
            /\ \E v \in Val : Seen' = [Seen EXCEPT ![h][k] = v]
         \/ /\ answer' = <<"exists", Seen[h][k] # Missing>> /\ Seen' = Seen
         \/ /\ answer' = <<"value", Seen[h][k]>> /\ Seen[h][k] # Missing
            /\ Seen' = [Seen EXCEPT ![h][k] = Missing]
  PROVE  Op
<1>1. \/ \E v \in Val : Maps!Add(h, k, v) \/ Maps!Write(h, k, v)
      \/ Maps!Lookup(h, k) \/ Maps!Contains(h, k) \/ Maps!Remove(h, k)
  <2>1. CASE /\ answer' = <<"unit">> /\ Seen[h][k] = Missing
             /\ \E v \in Val : Seen' = [Seen EXCEPT ![h][k] = v]
    BY <2>1 DEF Maps!Add, Maps!Is, Maps!NoAnswer, Seen
  <2>2. CASE answer' = <<"value", Seen[h][k]>> /\ Seen[h][k] # Missing /\ Seen' = Seen
    <3>1. answer'[1] = "value"
      BY <2>2
    <3> QED
      BY <2>2, <3>1 DEF Maps!Lookup, Maps!Is, Seen
  <2>3. CASE /\ answer' = <<"unit">> /\ Seen[h][k] # Missing
             /\ \E v \in Val : Seen' = [Seen EXCEPT ![h][k] = v]
    BY <2>3 DEF Maps!Write, Maps!Is, Maps!NoAnswer, Seen
  <2>4. CASE answer' = <<"exists", Seen[h][k] # Missing>> /\ Seen' = Seen
    <3>1. answer'[1] = "exists"
      BY <2>4
    <3> QED
      BY <2>4, <3>1 DEF Maps!Contains, Maps!Is, Seen
  <2>5. CASE /\ answer' = <<"value", Seen[h][k]>> /\ Seen[h][k] # Missing
             /\ Seen' = [Seen EXCEPT ![h][k] = Missing]
    <3>1. answer'[1] = "value"
      BY <2>5
    <3> QED
      BY <2>5, <3>1 DEF Maps!Remove, Maps!Is, Seen
  <2> QED
    BY <2>1, <2>2, <2>3, <2>4, <2>5
<1> QED
  BY <1>1 DEF Op, Maps!MapsNext, Maps!Operation, Kept

\* Setting a key to what it is changes no map.
LEMMA SeenUnset ==
  ASSUME TablesIInv, NEW h \in Handle, NEW k \in Key, tables[h] # NoTable
  PROVE  [Seen EXCEPT ![h][k] = ViewOf(<<h, k>>)] = Seen
<1>1. DOMAIN Seen = Handle /\ Seen = [g \in Handle |-> Seen[g]]
  BY DEF Seen, MapOf
<1>2. Seen[h] = [j \in Key |-> ViewOf(<<h, j>>)]
  BY SeenIs
<1>3. [Seen[h] EXCEPT ![k] = ViewOf(<<h, k>>)] = Seen[h]
  BY <1>2
<1>4. [Seen EXCEPT ![h] = Seen[h]] = Seen
  BY <1>1
<1> QED
  BY <1>3, <1>4

\* The maps with key k of table h set to value.
SeenSet(h, k, value) == [Seen EXCEPT ![h][k] = value]

\* What a native on a slot does to the maps.
LEMMA NativeMaps ==
  ASSUME TablesIInv, NEW h \in Handle, NEW k \in Key, IsTable(h),
         NEW gv, NEW cost, NEW ok \in BOOLEAN, NEW result, NEW code, NEW length,
         ok => gv.status # "unloaded" /\ length \in Nat,
         Native(cost, ok, result, code, [content EXCEPT ![<<h, k>>] = gv], h, length)
  PROVE  \/ Aborted("OUT_OF_GAS")
         \/ ~ok /\ Aborted(code)
         \/ /\ ok /\ answer' = result /\ Kept' = Kept
            /\ Seen' = SeenSet(h, k, gv.val)
<1>1. CASE Aborted("OUT_OF_GAS") \/ (~ok /\ Aborted(code))
  BY <1>1
<1>2. CASE /\ ok
           /\ content' = [content EXCEPT ![<<h, k>>] = gv]
           /\ tables' = [tables EXCEPT ![h] = length]
           /\ answer' = result
           /\ UNCHANGED <<savedVars, running, new_tables, removed_tables>>
  <2>1. storage' = storage /\ savedTables' = savedTables
    BY <1>2 DEF savedVars
  <2>2. Seen' = SeenSet(h, k, gv.val)
    BY <1>2, <2>1, SeenAfterSlot DEF IsTable, SeenSet
  <2>3. Kept' = Kept
    BY <2>1 DEF Kept
  <2> QED
    BY <1>2, <2>2, <2>3
<1> QED
  BY <1>1, <1>2 DEF Native

\* What the natives know of the map of a table.
LEMMA SlotMaps ==
  ASSUME TablesIInv, NEW h \in Handle, NEW k \in Key, IsTable(h)
  PROVE  /\ tables[h] # NoTable /\ tables[h] \in Nat
         /\ Seen[h] # NoTable /\ Seen[h][k] = ViewOf(<<h, k>>)
         /\ [Seen EXCEPT ![h][k] = ViewOf(<<h, k>>)] = Seen
BY SlotFacts, SeenIs, SeenUnset DEF IsTable

LEMMA AddBoxMaps ==
  ASSUME TablesIInv, NEW h \in Handle, NEW k \in Key, NEW v \in Val, AddBox(h, k, v)
  PROVE  Op
<1> DEFINE gv == Resolved(<<h, k>>)
           cost == Gas["ADD_BOX_BASE"] + ChargeLoadCost(<<h, k>>)
<1>1. /\ IsTable(h)
      /\ Native(cost, ~Exists(gv), NoAnswer, "ALREADY_EXISTS",
                [content EXCEPT ![<<h, k>>] = MoveTo(gv, v)], h, tables[h] + 1)
  BY DEF AddBox
<1>2. /\ tables[h] # NoTable /\ tables[h] \in Nat
      /\ Seen[h] # NoTable /\ Seen[h][k] = ViewOf(<<h, k>>)
  BY <1>1, SlotMaps
<1>3. ~Exists(gv) => /\ MoveTo(gv, v).status # "unloaded" /\ MoveTo(gv, v).val = v
                     /\ ViewOf(<<h, k>>) = Missing /\ tables[h] + 1 \in Nat
  BY <1>2, SlotFacts, MoveToAgrees
<1>4. Exists(gv) => ViewOf(<<h, k>>) # Missing
  BY SlotFacts
<1>5. (~Exists(gv)) \in BOOLEAN
  BY DEF Exists
<1> HIDE DEF gv, cost
<1>6. \/ Aborted("OUT_OF_GAS")
      \/ Exists(gv) /\ Aborted("ALREADY_EXISTS")
      \/ /\ ~Exists(gv) /\ answer' = NoAnswer /\ Kept' = Kept
         /\ Seen' = SeenSet(h, k, MoveTo(gv, v).val)
  BY <1>1, <1>3, <1>5, NativeMaps
<1>7. CASE Aborted("OUT_OF_GAS")
  BY <1>7, AbortOutOfGas
<1>8. CASE Exists(gv) /\ Aborted("ALREADY_EXISTS")
  BY <1>2, <1>4, <1>8, AbortForReason
<1>9. CASE /\ ~Exists(gv) /\ answer' = NoAnswer /\ Kept' = Kept
           /\ Seen' = SeenSet(h, k, MoveTo(gv, v).val)
  <2>1. Seen' = [Seen EXCEPT ![h][k] = v] /\ answer' = <<"unit">> /\ Seen[h][k] = Missing
    BY <1>2, <1>3, <1>9 DEF NoAnswer, SeenSet
  <2> QED
    BY <1>2, <1>9, <2>1, MapSteps
<1> QED
  BY <1>6, <1>7, <1>8, <1>9

LEMMA BorrowBoxMaps ==
  ASSUME TablesIInv, NEW h \in Handle, NEW k \in Key, BorrowBox(h, k)
  PROVE  Op
<1> DEFINE gv == Resolved(<<h, k>>)
           cost == Gas["BORROW_BOX_BASE"] + ChargeLoadCost(<<h, k>>)
<1>1. /\ IsTable(h)
      /\ Native(cost, Exists(gv), <<"value", gv.val>>, "NOT_FOUND",
                [content EXCEPT ![<<h, k>>] = gv], h, tables[h])
  BY DEF BorrowBox
<1>2. /\ tables[h] # NoTable /\ tables[h] \in Nat
      /\ Seen[h] # NoTable /\ Seen[h][k] = ViewOf(<<h, k>>)
      /\ [Seen EXCEPT ![h][k] = ViewOf(<<h, k>>)] = Seen
  BY <1>1, SlotMaps
<1>3. /\ gv.status # "unloaded" /\ gv.val = ViewOf(<<h, k>>)
      /\ Exists(gv) <=> ViewOf(<<h, k>>) # Missing
      /\ Exists(gv) \in BOOLEAN
  BY SlotFacts
<1> HIDE DEF gv, cost
<1>4. \/ Aborted("OUT_OF_GAS")
      \/ ~Exists(gv) /\ Aborted("NOT_FOUND")
      \/ /\ Exists(gv) /\ answer' = <<"value", gv.val>> /\ Kept' = Kept
         /\ Seen' = SeenSet(h, k, gv.val)
  BY <1>1, <1>2, <1>3, NativeMaps
<1>5. CASE Aborted("OUT_OF_GAS")
  BY <1>5, AbortOutOfGas
<1>6. CASE ~Exists(gv) /\ Aborted("NOT_FOUND")
  BY <1>2, <1>3, <1>6, AbortForReason
<1>7. CASE /\ Exists(gv) /\ answer' = <<"value", gv.val>> /\ Kept' = Kept
           /\ Seen' = SeenSet(h, k, gv.val)
  <2>1. Seen' = Seen /\ answer' = <<"value", Seen[h][k]>> /\ Seen[h][k] # Missing
    BY <1>2, <1>3, <1>7 DEF SeenSet
  <2> QED
    BY <1>2, <1>7, <2>1, MapSteps
<1> QED
  BY <1>4, <1>5, <1>6, <1>7

LEMMA BorrowBoxMutMaps ==
  ASSUME TablesIInv, NEW h \in Handle, NEW k \in Key, NEW v \in Val,
         BorrowBoxMut(h, k, v)
  PROVE  Op
<1> DEFINE gv == Resolved(<<h, k>>)
           cost == Gas["BORROW_BOX_BASE"] + ChargeLoadCost(<<h, k>>)
<1>1. /\ IsTable(h)
      /\ Native(cost, Exists(gv), NoAnswer, "NOT_FOUND",
                [content EXCEPT ![<<h, k>>] = WriteRef(gv, v)], h, tables[h])
  BY DEF BorrowBoxMut
<1>2. /\ tables[h] # NoTable /\ tables[h] \in Nat
      /\ Seen[h] # NoTable /\ Seen[h][k] = ViewOf(<<h, k>>)
  BY <1>1, SlotMaps
<1>3. /\ Exists(gv) <=> ViewOf(<<h, k>>) # Missing
      /\ Exists(gv) \in BOOLEAN
      /\ Exists(gv) => /\ WriteRef(gv, v).status # "unloaded"
                       /\ WriteRef(gv, v).val = v
  BY SlotFacts, WriteRefAgrees
<1> HIDE DEF gv, cost
<1>4. \/ Aborted("OUT_OF_GAS")
      \/ ~Exists(gv) /\ Aborted("NOT_FOUND")
      \/ /\ Exists(gv) /\ answer' = NoAnswer /\ Kept' = Kept
         /\ Seen' = SeenSet(h, k, WriteRef(gv, v).val)
  BY <1>1, <1>2, <1>3, NativeMaps
<1>5. CASE Aborted("OUT_OF_GAS")
  BY <1>5, AbortOutOfGas
<1>6. CASE ~Exists(gv) /\ Aborted("NOT_FOUND")
  BY <1>2, <1>3, <1>6, AbortForReason
<1>7. CASE /\ Exists(gv) /\ answer' = NoAnswer /\ Kept' = Kept
           /\ Seen' = SeenSet(h, k, WriteRef(gv, v).val)
  <2>1. Seen' = [Seen EXCEPT ![h][k] = v] /\ answer' = <<"unit">> /\ Seen[h][k] # Missing
    BY <1>2, <1>3, <1>7 DEF NoAnswer, SeenSet
  <2> QED
    BY <1>2, <1>7, <2>1, MapSteps
<1> QED
  BY <1>4, <1>5, <1>6, <1>7

LEMMA ContainsBoxMaps ==
  ASSUME TablesIInv, NEW h \in Handle, NEW k \in Key, ContainsBox(h, k)
  PROVE  Op
<1> DEFINE gv == Resolved(<<h, k>>)
           cost == Gas["CONTAINS_BOX_BASE"] + ChargeLoadCost(<<h, k>>)
<1>1. /\ IsTable(h)
      /\ Native(cost, TRUE, <<"exists", Exists(gv)>>, "",
                [content EXCEPT ![<<h, k>>] = gv], h, tables[h])
  BY DEF ContainsBox
<1>2. /\ tables[h] # NoTable /\ tables[h] \in Nat
      /\ Seen[h] # NoTable /\ Seen[h][k] = ViewOf(<<h, k>>)
      /\ [Seen EXCEPT ![h][k] = ViewOf(<<h, k>>)] = Seen
  BY <1>1, SlotMaps
<1>3. /\ gv.status # "unloaded" /\ gv.val = ViewOf(<<h, k>>)
      /\ Exists(gv) = (ViewOf(<<h, k>>) # Missing)
  BY SlotFacts DEF Exists
<1> HIDE DEF gv, cost
<1>4. \/ Aborted("OUT_OF_GAS")
      \/ /\ answer' = <<"exists", Exists(gv)>> /\ Kept' = Kept
         /\ Seen' = SeenSet(h, k, gv.val)
  <2>1. \/ Aborted("OUT_OF_GAS")
        \/ /\ content' = [content EXCEPT ![<<h, k>>] = gv]
           /\ tables' = [tables EXCEPT ![h] = tables[h]]
           /\ answer' = <<"exists", Exists(gv)>>
           /\ storage' = storage /\ savedTables' = savedTables
    BY <1>1, <1>3 DEF Native, savedVars
  <2> QED
    BY <1>2, <1>3, <2>1, SeenAfterSlot DEF SeenSet, Kept
<1>5. CASE Aborted("OUT_OF_GAS")
  BY <1>5, AbortOutOfGas
<1>6. CASE /\ answer' = <<"exists", Exists(gv)>> /\ Kept' = Kept
           /\ Seen' = SeenSet(h, k, gv.val)
  <2>1. Seen' = Seen /\ answer' = <<"exists", Seen[h][k] # Missing>>
    BY <1>2, <1>3, <1>6 DEF SeenSet
  <2> QED
    BY <1>2, <1>6, <2>1, MapSteps
<1> QED
  BY <1>4, <1>5, <1>6

LEMMA RemoveBoxMaps ==
  ASSUME TablesIInv, NEW h \in Handle, NEW k \in Key, RemoveBox(h, k)
  PROVE  Op
<1> DEFINE gv == Resolved(<<h, k>>)
           cost == Gas["REMOVE_BOX_BASE"] + ChargeLoadCost(<<h, k>>)
<1>1. /\ IsTable(h)
      /\ Native(cost, Exists(gv), <<"value", gv.val>>, "NOT_FOUND",
                [content EXCEPT ![<<h, k>>] = MoveFrom(gv)], h, tables[h] - 1)
  BY DEF RemoveBox
<1>2. /\ tables[h] # NoTable /\ tables[h] \in Nat
      /\ Seen[h] # NoTable /\ Seen[h][k] = ViewOf(<<h, k>>)
  BY <1>1, SlotMaps
<1>3. /\ Exists(gv) <=> ViewOf(<<h, k>>) # Missing
      /\ Exists(gv) \in BOOLEAN /\ gv.val = ViewOf(<<h, k>>)
      /\ Exists(gv) => /\ MoveFrom(gv).status # "unloaded"
                       /\ MoveFrom(gv).val = Missing
  BY SlotFacts, MoveFromAgrees
\* A table that has an entry is not of length 0.
<1>4. Exists(gv) => tables[h] - 1 \in Nat
  <2> SUFFICES ASSUME Exists(gv) PROVE tables[h] - 1 \in Nat
    OBVIOUS
  <2>1. k \in Present(h)
    BY <1>3 DEF Present
  <2>2. Cardinality(Present(h)) = tables[h]
    BY <1>2 DEF TablesIInv, LengthIsCount
  <2>3. tables[h] # 0
    BY <2>1, <2>2, PresentFinite, FS_EmptySet
  <2> QED
    BY <1>2, <2>3
<1> HIDE DEF gv, cost
<1>5. \/ Aborted("OUT_OF_GAS")
      \/ ~Exists(gv) /\ Aborted("NOT_FOUND")
      \/ /\ Exists(gv) /\ answer' = <<"value", gv.val>> /\ Kept' = Kept
         /\ Seen' = SeenSet(h, k, MoveFrom(gv).val)
  BY <1>1, <1>3, <1>4, NativeMaps
<1>6. CASE Aborted("OUT_OF_GAS")
  BY <1>6, AbortOutOfGas
<1>7. CASE ~Exists(gv) /\ Aborted("NOT_FOUND")
  BY <1>2, <1>3, <1>7, AbortForReason
<1>8. CASE /\ Exists(gv) /\ answer' = <<"value", gv.val>> /\ Kept' = Kept
           /\ Seen' = SeenSet(h, k, MoveFrom(gv).val)
  <2>1. /\ Seen' = [Seen EXCEPT ![h][k] = Missing]
        /\ answer' = <<"value", Seen[h][k]>> /\ Seen[h][k] # Missing
    BY <1>2, <1>3, <1>8 DEF SeenSet
  <2> QED
    BY <1>2, <1>8, <2>1, MapSteps
<1> QED
  BY <1>5, <1>6, <1>7, <1>8

LEMMA DestroyMaps ==
  ASSUME TablesIInv, NEW h \in Handle, DestroyEmptyBox(h)
  PROVE  Op
<1>1. running /\ tables[h] # NoTable /\ tables[h] \in Nat
  BY DEF DestroyEmptyBox, IsTable, TablesIInv, TablesTypeOK
<1>2. IsFiniteSet(Present(h)) /\ Cardinality(Present(h)) = tables[h]
  BY <1>1, PresentFinite DEF TablesIInv, LengthIsCount
<1>3. Seen[h] = [k \in Key |-> ViewOf(<<h, k>>)]
  BY <1>1, SeenIs
<1>4. CASE Aborted("OUT_OF_GAS")
  BY <1>4, AbortOutOfGas
<1>5. CASE tables[h] # 0 /\ Aborted("NOT_EMPTY")
  <2>1. Present(h) # {}
    BY <1>2, <1>5, FS_EmptySet
  <2>2. PICK k \in Key : ViewOf(<<h, k>>) # Missing
    BY <2>1 DEF Present
  <2>3. Seen[h] # [j \in Key |-> Missing]
    BY <1>3, <2>2
  <2> QED
    BY <1>1, <1>5, <2>3, AbortForReason
<1>6. CASE /\ tables[h] = 0
           /\ tables' = [tables EXCEPT ![h] = NoTable]
           /\ answer' = NoAnswer
           /\ UNCHANGED <<savedVars, running, new_tables, content>>
  <2>1. Present(h) = {}
    BY <1>2, <1>6, FS_EmptySet
  <2>2. Seen[h] = [j \in Key |-> Missing]
    <3>1. \A k \in Key : ViewOf(<<h, k>>) = Missing
      BY <2>1 DEF Present
    <3> QED
      BY <1>3, <3>1
  <2>3. storage' = storage /\ content' = content /\ savedTables' = savedTables
    BY <1>6 DEF savedVars
  <2>4. \A s \in Slot : ViewOf(s)' = ViewOf(s)
    BY <2>3 DEF ViewOf, Resolved
  <2>5. tables'[h] = NoTable /\ \A g \in Handle \ {h} : tables'[g] = tables[g]
    BY <1>6 DEF TablesIInv, TablesTypeOK
  <2>6. Seen' = [Seen EXCEPT ![h] = NoTable]
    <3>1. \A g \in Handle, k \in Key : <<g, k>> \in Slot
      BY DEF Slot
    <3>2. /\ Seen = [g \in Handle |-> Seen[g]] /\ Seen' = [g \in Handle |-> Seen'[g]]
      BY DEF Seen, MapOf
    <3>3. Seen'[h] = NoTable /\ \A g \in Handle \ {h} : Seen'[g] = Seen[g]
      BY <2>4, <2>5, <3>1 DEF Seen, MapOf
    <3> QED
      BY <3>2, <3>3
  <2>7. Kept' = Kept
    BY <2>3 DEF Kept
  <2>8. Maps!Destroy(h)
    BY <1>6, <2>2, <2>6
    DEF Maps!Destroy, Maps!EmptyMap, Maps!NoAnswer, NoAnswer, Seen
  <2> QED
    BY <2>7, <2>8 DEF Op, Maps!MapsNext, Maps!Operation, Kept
<1> QED
  BY <1>4, <1>5, <1>6 DEF DestroyEmptyBox

LEMMA NewTableMaps ==
  ASSUME TablesIInv, NewTableHandle
  PROVE  Op
<1> DEFINE h == <<session, Len(new_tables)>>
<1>1. CASE Aborted("OUT_OF_GAS")
  BY <1>1, AbortOutOfGas
<1>2. CASE /\ tables' = [tables EXCEPT ![h] = 0]
           /\ answer' = <<"handle", h>>
           /\ UNCHANGED <<savedVars, running, removed_tables, content>>
  <2>1. TablesTypeOK /\ HandlesAreFresh /\ session \in Int /\ Len(new_tables) \in Nat
    BY DEF TablesIInv, TablesTypeOK
  <2>2. h \in Handle
    BY <2>1 DEF NewTableHandle, HandlesAreFresh, Handle, Session, TablesTypeOK
  <2>3. tables[h] = NoTable
    BY <2>1, <2>2 DEF HandlesAreFresh
  <2>4. storage' = storage /\ content' = content /\ savedTables' = savedTables
    BY <1>2 DEF savedVars
  <2>5. \A s \in Slot : ViewOf(s)' = ViewOf(s)
    BY <2>4 DEF ViewOf, Resolved
  <2>6. tables'[h] = 0 /\ \A g \in Handle \ {h} : tables'[g] = tables[g]
    BY <1>2, <2>1, <2>2 DEF TablesTypeOK
  <2>7. \A k \in Key : ViewOf(<<h, k>>) = Missing
    <3>1. Cardinality(Present(h)) = 0
      BY <2>2, <2>3 DEF TablesIInv, LengthIsCount
    <3>2. Present(h) = {}
      BY <3>1, PresentFinite, FS_EmptySet
    <3> QED
      BY <3>2 DEF Present
  <2> HIDE DEF h
  <2>8. Seen' = [Seen EXCEPT ![h] = [k \in Key |-> Missing]] /\ Seen[h] = NoTable
    <3>1. \A g \in Handle, k \in Key : <<g, k>> \in Slot
      BY DEF Slot
    <3>2. /\ Seen = [g \in Handle |-> Seen[g]] /\ Seen' = [g \in Handle |-> Seen'[g]]
      BY DEF Seen, MapOf
    <3>3. \A g \in Handle \ {h} : Seen'[g] = Seen[g]
      BY <2>5, <2>6, <3>1 DEF Seen, MapOf
    <3>4. Seen'[h] = [k \in Key |-> Missing]
      <4>1. 0 # NoTable
        OBVIOUS
      <4> QED
        BY <2>2, <2>5, <2>6, <2>7, <3>1, <4>1 DEF Seen, MapOf
    <3>5. Seen[h] = NoTable
      BY <2>2, <2>3 DEF Seen, MapOf
    <3> QED
      BY <3>2, <3>3, <3>4, <3>5
  <2>9. Kept' = Kept
    BY <2>4 DEF Kept
  <2>10. Maps!New(h)
    BY <1>2, <2>8 DEF Maps!New, Maps!Is, Maps!EmptyMap, Seen
  <2> QED
    BY <2>2, <2>9, <2>10 DEF Op, Maps!MapsNext, Maps!Operation, Kept
<1>3. \/ Aborted("OUT_OF_GAS")
      \/ /\ tables' = [tables EXCEPT ![h] = 0]
         /\ answer' = <<"handle", h>>
         /\ UNCHANGED <<savedVars, running, removed_tables, content>>
  BY DEF NewTableHandle
<1> QED
  BY <1>1, <1>2, <1>3

\* A session begins unseen, and a commit saves what it sees.
LEMMA BeginMaps ==
  ASSUME TablesIInv, BeginSession
  PROVE  Op
<1>1. UNCHANGED <<storage, savedTables, tables, content, answer>>
  BY DEF BeginSession, savedVars, cacheVars
<1>2. Seen' = Seen /\ Kept' = Kept
  BY <1>1 DEF Seen, Kept, MapOf, ViewOf, Resolved
<1> QED
  BY <1>1, <1>2 DEF Op, Maps!mapsVars, Seen, Kept

LEMMA CommitMaps ==
  ASSUME TablesIInv, IntoChangeSet
  PROVE  Op
<1>1. /\ storage' = [s \in Slot |-> Stored(s)] /\ savedTables' = tables
      /\ content' = NoContent /\ tables' = tables /\ answer' = NoAnswer
  BY DEF IntoChangeSet
<1>2. TablesTypeOK /\ CacheAgrees
  BY DEF TablesIInv
<1>3. storage' = [s \in Slot |-> ViewOf(s)]
  BY <1>1, <1>2, StoredIsView
<1>4. ASSUME NEW s \in Slot PROVE ViewOf(s)' = ViewOf(s)
  <2>1. content'[s].status = "unloaded"
    BY <1>1, EmptyContent
  <2>2. Resolved(s)' = (IF storage'[s] = Missing THEN Global("none", Missing)
                        ELSE Global("clean", storage'[s]))
    BY <2>1 DEF Resolved
  <2>3. storage'[s] = ViewOf(s) /\ storage'[s] \in Val \cup {Missing}
    BY <1>1, <1>2, StoredIsView
  <2> QED
    BY <2>2, <2>3, Statuses, GlobalIs DEF ViewOf
<1>5. [s \in Slot |-> ViewOf(s)]' = [s \in Slot |-> ViewOf(s)]
  BY <1>4
<1>6. Seen' = Seen
  BY <1>1, <1>5 DEF Seen
<1>7. Kept' = Seen
  BY <1>1, <1>3 DEF Seen, Kept
<1>8. Maps!Save
  BY <1>1, <1>6, <1>7 DEF Maps!Save, Maps!NoAnswer, NoAnswer, Seen, Kept
<1> QED
  BY <1>8 DEF Op, Maps!MapsNext

LEMMA MapsInitially == TablesInit => Maps!MapsInit
<1> SUFFICES ASSUME TablesInit PROVE Maps!MapsInit
  OBVIOUS
<1>1. /\ savedTables = [h \in Handle |-> NoTable] /\ tables = savedTables
      /\ answer = NoAnswer
  BY DEF TablesInit
<1>2. Kept = [h \in Handle |-> NoTable] /\ Seen = [h \in Handle |-> NoTable]
  BY <1>1 DEF Seen, Kept, MapOf
<1> QED
  BY <1>1, <1>2 DEF Maps!MapsInit, Maps!NoAnswer, NoAnswer, Seen, Kept

LEMMA MapsStep ==
  TablesIInv /\ [TablesNext]_tableVars => [Maps!MapsNext]_(Maps!mapsVars)
<1> SUFFICES ASSUME TablesIInv, [TablesNext]_tableVars PROVE Op
  BY DEF Op
<1>1. CASE UNCHANGED tableVars
  <2>1. UNCHANGED <<storage, savedTables, tables, content, answer>>
    BY <1>1 DEF tableVars, savedVars, cacheVars
  <2>2. Seen' = Seen /\ Kept' = Kept
    BY <2>1 DEF Seen, Kept, MapOf, ViewOf, Resolved
  <2> QED
    BY <2>1, <2>2 DEF Op, Maps!mapsVars, Seen, Kept
<1> QED
  BY <1>1, BeginMaps, NewTableMaps, DestroyMaps, BorrowBoxMaps, ContainsBoxMaps,
     RemoveBoxMaps, AddBoxMaps, BorrowBoxMutMaps, CommitMaps
  DEF TablesNext

\* The cache over storage implements the maps that table.move promises: every
\* native returns and aborts as the map does, a commit saves and an abort undoes.
THEOREM TablesImplementMaps == TablesSpec => ImplementsMaps
BY MapsInitially, MapsStep, TablesInvariant, PTL
DEF TablesSpec, ImplementsMaps, Maps!MapsSpec
=============================================================================
