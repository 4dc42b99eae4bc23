-------------------------- MODULE MCSessionChanges --------------------------
(* One run for the native contexts whose content a session turns into      *)
(* changes of storage when it ends: NativeTableContext, the aggregator     *)
(* context and NativeCodeContext.  They share nothing but the session, so  *)
(* a behaviour uses the natives of one family.                             *)
EXTENDS MCTables, MCAggregators, MCPackages

VARIABLE family

Init ==
  /\ family \in {"tables", "aggregators", "packages"}
  /\ TablesInit /\ AggregatorsInit /\ PackagesInit
  \* The instances of the families that are not used are all the same.
  /\ family # "aggregators" => version = "v2" /\ aggregator_v2_api_enabled
  /\ family # "aggregators" => agg = [type |-> "u64", max |-> 1, value |-> 0]
  /\ family # "packages" => features = {}

Next ==
  /\ UNCHANGED family
  /\ \/ family = "tables" /\ TablesNext /\ UNCHANGED <<aggVars, packageVars>>
     \/ family = "aggregators" /\ AggregatorsNext /\ UNCHANGED <<tableVars, packageVars>>
     \/ family = "packages" /\ PackagesNext /\ UNCHANGED <<tableVars, aggVars>>

Spec == Init /\ [][Next]_<<family, tableVars, aggVars, packageVars>>
=============================================================================
