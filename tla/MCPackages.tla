----------------------------- MODULE MCPackages -----------------------------
(* An instance of Packages for TLC: an account "A" with packages "P" and   *)
(* "Q", a code object "B" with "R", the core address "0x1".                *)
EXTENDS Packages, TLC

Empty == [n \in {} |-> n]

Attr(name, args) == [name |-> name, args |-> args]
Arg(name, value) == [name |-> name, value |-> value]

Struct(abilities, type_params, fields, attributes) ==
  [abilities |-> abilities, type_params |-> type_params, fields |-> fields,
   attributes |-> attributes]

Fun(params, returns, attributes) ==
  [params |-> params, returns |-> returns, attributes |-> attributes,
   visibility |-> "private", entry |-> FALSE, inline |-> FALSE, emits |-> {}]

SourceOf(id, structs, functions, constants) ==
  [id |-> id, imports |-> {}, structs |-> structs, functions |-> functions,
   constants |-> constants, type_nodes |-> 1, name_chars |-> 5]

Scoped(scope) == Attr("resource_group", <<Arg("scope", <<scope>>)>>)
MemberOf(a, m, s) == Attr("resource_group_member", <<Arg("group", <<a, m, s>>)>>)
Event == Attr("event", <<>>)
View == Attr("view", <<>>)

Group(scope) == Struct({}, 0, {"dummy_field"}, <<Scoped(scope)>>)

\* Containers in a module next to the built one and in one at another address.
Near == SourceOf(<<"A", "near">>,
                 "Local" :> Group("module_") @@ "Shared" :> Group("address")
                   @@ "Plain" :> Struct({"key"}, 0, {"x"}, <<>>), Empty, <<>>)
Far == SourceOf(<<"B", "far">>,
                "Shared" :> Group("address") @@ "Everywhere" :> Group("global"),
                Empty, <<>>)
TheLibrary == {Near, Far}

Built == <<"A", "built">>

StructAttributeLists ==
  {<<>>, <<Event>>, <<Scoped("address"), Event>>, <<Scoped("address")>>,
   <<Scoped("elsewhere")>>,
   <<Attr("resource_group", <<>>)>>,
   <<Attr("resource_group", <<Arg("container", <<"global">>)>>)>>,
   <<Attr("resource_group", <<Arg("scope", <<>>)>>)>>,
   <<Attr("resource_group_member", <<>>)>>,
   <<Attr("resource_group_member", <<Arg("scope", <<"A", "near", "Shared">>)>>)>>,
   <<Attr("resource_group_member", <<Arg("group", <<"Shared">>)>>)>>,
   <<MemberOf("A", "near", "Local")>>, <<MemberOf("A", "near", "Shared")>>,
   <<MemberOf("A", "near", "Plain")>>, <<MemberOf("A", "near", "Missing")>>,
   <<MemberOf("B", "far", "Shared")>>, <<MemberOf("B", "far", "Everywhere"), Event>>,
   <<MemberOf("A", "built", "S")>>}

WithStructs ==
  {SourceOf(Built, "S" :> Struct(abilities, params, fields, attributes), Empty, <<>>) :
     abilities \in {{}, {"key"}}, params \in {0, 1},
     fields \in {{"dummy_field"}, {"x"}, {"x", "y"}},
     attributes \in StructAttributeLists}

Ty(base) == [base |-> base, vector |-> FALSE]
ParamLists ==
  {{}, {Ty("u64"), [base |-> "T", vector |-> TRUE]}, {Ty("&mut signer")},
   {Ty("&signer")}, {[base |-> "&signer", vector |-> TRUE]}, {Ty("0x1::coin::Coin")}}

Functions ==
  {[Fun(params, returns, attributes) EXCEPT !.entry = entry, !.inline = inline] :
     params \in ParamLists, returns \in {0, 1},
     attributes \in {<<>>, <<View>>, <<Attr("legacy_entry_fun", <<>>)>>},
     entry \in BOOLEAN, inline \in BOOLEAN}
Emitters ==
  {[Fun({}, 1, <<View>>) EXCEPT !.inline = inline, !.emits = {type}] :
     inline \in BOOLEAN,
     type \in {<<"u64">>, <<"A", "built", "S">>, <<"A", "built", "Plain">>,
               <<"B", "far", "Shared">>}}
Initialisers ==
  {[Fun(params, returns, <<>>) EXCEPT !.visibility = visibility] :
     params \in ParamLists, returns \in {0, 1}, visibility \in {"private", "public"}}

EventStructs == "S" :> Struct({"drop"}, 0, {"x"}, <<Event>>)
                  @@ "Plain" :> Struct({"drop"}, 0, {"x"}, <<>>)

WithFunctions ==
  {SourceOf(Built, EventStructs, "f" :> f, <<>>) : f \in Functions \cup Emitters}
    \cup {SourceOf(Built, Empty, "init_module" :> f, <<>>) : f \in Initialisers}

Const(name, value, is_error) == [name |-> name, value |-> value, is_error |-> is_error]
WithConstants ==
  {SourceOf(Built, Empty, Empty, constants) :
     constants \in {<<Const("EONE", 1, TRUE)>>,
                    <<Const("EONE", 1, TRUE), Const("EALSO_ONE", 1, TRUE)>>,
                    <<Const("LIMIT", 1, FALSE), Const("ETWO", 2, TRUE)>>,
                    <<Const("EINVALID", 65537, TRUE), Const("EONE", 1, TRUE)>>,
                    <<Const("EINVALID", 65537, TRUE), Const("ETWO", 2, TRUE)>>}}

SomeSources == WithStructs \cup WithFunctions \cup WithConstants
TwoVersions == {5, 6}

-----------------------------------------------------------------------------
Bytecode(id, imports, functions, metadata) ==
  [id |-> id, version |-> 6, imports |-> imports, structs |-> Empty,
   functions |-> functions, type_nodes |-> 1, name_chars |-> 5, metadata |-> metadata]

m1 == Bytecode(<<"A", "m">>, {}, "f" :> 0, <<>>)
m2 == Bytecode(<<"A", "m">>, {}, "f" :> 0 @@ "g" :> 1, <<>>)
m3 == Bytecode(<<"A", "m">>, {}, "g" :> 1, <<>>)
n1 == Bytecode(<<"A", "n">>, {}, Empty, <<>>)
n2 == Bytecode(<<"A", "n">>, {<<"A", "m">>}, Empty, <<>>)
r1 == Bytecode(<<"B", "r">>, {<<"A", "m">>, <<"0x1", "coin">>}, Empty, <<>>)
r2 == Bytecode(<<"B", "r">>, {<<"A", "n">>}, Empty, <<>>)

Views(f) ==
  <<[key |-> ENDLESS_METADATA_KEY_V1,
     value |-> [error_map |-> <<>>, struct_attributes |-> <<>>,
                fun_attributes |-> f :> <<KnownAttribute(LegacyViewFunction, <<>>)>>]]>>
r3 == Bytecode(<<"B", "r">>, {<<"0x1", "coin">>}, "f" :> 0, Views("f"))
r4 == Bytecode(<<"B", "r">>, {<<"0x1", "coin">>}, "f" :> 1, Views("f"))
r5 == Bytecode(<<"B", "r">>, {}, "f" :> 0,
               <<[key |-> ENDLESS_METADATA_KEY, value |-> [garbage |-> TRUE]]>>)
r6 == [r4 EXCEPT !.type_nodes = 5]

Pack(name, policy, modules, deps) ==
  [name |-> name, upgrade_policy |-> policy, upgrade_number |-> 0,
   modules |-> modules, deps |-> deps]
Dep(account, name) == [account |-> account, package_name |-> name]
Call(addr, pack, bundle) == [addr |-> addr, pack |-> pack, bundle |-> bundle]

Publications ==
  {Call("A", Pack("P", policy, {"m"}, {}), {m}) : policy \in 0 .. 2, m \in {m1, m2, m3}}
    \cup {Call("A", Pack("P", 1, {"m", "n"}, {}), {m1, n}) : n \in {n1, n2}}
    \cup {Call("A", Pack("P", 1, {"m", "n"}, {}), {m1}),
          Call("A", Pack("P", 1, {"m"}, {}), {m1, n1}),
          Call("A", Pack("Q", 1, {"n"}, {}), {n2})}
    \cup {Call("A", Pack("Q", policy, {"n"}, {Dep("A", "P")}), {n2}) : policy \in 1 .. 2}
    \cup {Call("B", Pack("R", policy, {"r"}, deps), {r}) :
            policy \in 1 .. 2, r \in {r1, r2},
            deps \in {{Dep("A", "P"), Dep("0x1", "Core")}, {Dep("A", "Q")}}}
    \cup {Call("B", Pack("R", 1, {"r"}, {Dep("0x1", "Core")}), {r}) : r \in {r3, r4, r5, r6}}
    \cup {Call("B", Pack("R", 3, {"r"}, {Dep("0x1", "Core")}), {r4})}

Ids == {<<"0x1", "coin">>}
Enabled == {"CODE_DEPENDENCY_CHECK", "RESOURCE_GROUPS", "MODULE_EVENT", "SAFER_METADATA"}
Rollout == {Enabled, {"CODE_DEPENDENCY_CHECK", "MODULE_EVENT"}, {}}
=============================================================================
