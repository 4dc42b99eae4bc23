----------------------------- MODULE TableMaps -----------------------------
(***************************************************************************)
(* What table.move and table_with_length.move promise to their callers: a  *)
(* table is a map that its handle names.  A session works on its own copy  *)
(* of the maps, which a commit saves and which an abort throws away.       *)
(***************************************************************************)
CONSTANTS
  Handle,    \* the names of tables
  Key, Val,
  Missing,   \* the value of a key that is not in a map
  NoTable    \* the map of a handle that names no table

VARIABLES
  saved,     \* the maps that outlive the session
  maps,      \* the maps as the session sees them
  answer     \* what the last operation returned or aborted with

mapsVars == <<saved, maps, answer>>

\* What an operation without a result returns.
NoAnswer == <<"unit">>

EmptyMap == [k \in Key |-> Missing]

MapsInit ==
  /\ saved = [h \in Handle |-> NoTable]
  /\ maps = saved
  /\ answer = NoAnswer

Is(h) == maps[h] # NoTable

New(h) ==
  /\ answer' = <<"handle", h>>
  /\ ~Is(h)
  /\ maps' = [maps EXCEPT ![h] = EmptyMap]

Add(h, k, v) ==
  /\ answer' = NoAnswer
  /\ Is(h) /\ maps[h][k] = Missing
  /\ maps' = [maps EXCEPT ![h][k] = v]

\* borrow and borrow_mut.
Lookup(h, k) ==
  /\ answer'[1] = "value" /\ UNCHANGED maps
  /\ Is(h) /\ maps[h][k] # Missing
  /\ answer' = <<"value", maps[h][k]>>

Write(h, k, v) ==
  /\ answer' = NoAnswer
  /\ Is(h) /\ maps[h][k] # Missing
  /\ maps' = [maps EXCEPT ![h][k] = v]

Contains(h, k) ==
  /\ answer'[1] = "exists" /\ UNCHANGED maps
  /\ Is(h)
  /\ answer' = <<"exists", maps[h][k] # Missing>>

Remove(h, k) ==
  /\ answer'[1] = "value"
  /\ Is(h) /\ maps[h][k] # Missing
  /\ answer' = <<"value", maps[h][k]>>
  /\ maps' = [maps EXCEPT ![h][k] = Missing]

\* Only an empty map can be destroyed.
Destroy(h) ==
  /\ answer' = NoAnswer
  /\ maps[h] = EmptyMap
  /\ maps' = [maps EXCEPT ![h] = NoTable]

\* An operation aborts only for a reason; what the session did is undone.
Abort(h, k) ==
  /\ answer'[1] = "abort" /\ maps' = saved
  /\ Is(h)
  /\ \/ maps[h] # EmptyMap /\ answer' = <<"abort", "NOT_EMPTY">>
     \/ maps[h][k] = Missing /\ answer' = <<"abort", "NOT_FOUND">>
     \/ maps[h][k] # Missing /\ answer' = <<"abort", "ALREADY_EXISTS">>

OutOfGas == answer' = <<"abort", "OUT_OF_GAS">> /\ maps' = saved

Save == answer' = NoAnswer /\ saved' = maps /\ UNCHANGED maps

Operation ==
  \/ OutOfGas
  \/ \E h \in Handle :
       \/ New(h) \/ Destroy(h)
       \/ \E k \in Key :
            \/ Lookup(h, k) \/ Contains(h, k) \/ Remove(h, k) \/ Abort(h, k)
            \/ \E v \in Val : Add(h, k, v) \/ Write(h, k, v)

MapsNext == Save \/ (Operation /\ UNCHANGED saved)

MapsSpec == MapsInit /\ [][MapsNext]_mapsVars
=============================================================================
