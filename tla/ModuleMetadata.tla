--------------------------- MODULE ModuleMetadata ---------------------------
(***************************************************************************)
(* What a module says about itself: extended_checks.rs, which checks the   *)
(* attributes of a module when it is built and records them; the part of   *)
(* built_package.rs that puts them into the bytecode; module_metadata.rs,  *)
(* which checks and reads them on chain; and the check that                *)
(* write_module_event_to_store makes.                                      *)
(*                                                                         *)
(* A source module is a record of its structs, functions and constants by  *)
(* name; a module is named <<address, name>>, a struct by that and its     *)
(* name.  The argument of an attribute is such a name, or <<name>>, or <<>>*)
(* when it is no name at all.  A type is the type at the end of its vectors*)
(* and whether there are any.  The bytes of a section of metadata are what *)
(* was serialized.                                                         *)
(***************************************************************************)
EXTENDS Integers, Sequences, FiniteSets, FiniteSetsExt

CONSTANTS
  Library,            \* the source modules that the built ones depend on
  COMPLEXITY_BUDGET

NODE_COST == 10
IDENT_CHAR_COST == 1
METADATA_V1_MIN_FILE_FORMAT_VERSION == 6

ErrorModule == <<"0x1", "error">>
NoScope == "none"
Scopes == {"global", "address", "module_"}
None == [none |-> TRUE]

-----------------------------------------------------------------------------
(* Known attributes.                                                       *)

LegacyViewFunction == 0
ViewFunction == 1
ResourceGroup == 2
ResourceGroupMember == 3
EventAttribute == 4

KnownAttribute(kind, args) == [kind |-> kind, args |-> args]

IsViewFunction(attr) == attr.kind \in {LegacyViewFunction, ViewFunction}

\* FromStr for ResourceGroupScope, of the last part of a name.
ParsesAsScope(name) == name # <<>> /\ name[Len(name)] \in Scopes

\* get_resource_group, get_resource_group_member: the argument has to parse, as
\* a scope or as the name of a struct.
IsGroup(attr) ==
  attr.kind = ResourceGroup /\ attr.args # <<>> /\ ParsesAsScope(attr.args[1])
IsMember(attr) ==
  attr.kind = ResourceGroupMember /\ attr.args # <<>> /\ Len(attr.args[1]) = 3

-----------------------------------------------------------------------------
(* extended_checks.rs.  Errors stop a build; only the index attributes[0]  *)
(* of an empty list stops the builder.                                     *)

\* The attributes of that name, of which the code finds the first.
Applied(s, name) == SelectSeq(s.attributes, LAMBDA attr : attr.name = name)
HasAttribute(s, name) == Applied(s, name) # <<>>

IsAssigned(arg, name) == arg.name = name

\* get_resource_group finds nothing wrong with the struct and its attribute.
GroupFits(s) ==
  LET attr == Applied(s, "resource_group")[1]
  IN /\ s.fields \subseteq {"dummy_field"}
     /\ s.abilities = {}
     /\ s.type_params = 0
     /\ Len(attr.args) = 1
     /\ IsAssigned(attr.args[1], "scope")
     /\ ParsesAsScope(attr.args[1].value)

GetResourceGroup(s) ==
  IF HasAttribute(s, "resource_group") /\ GroupFits(s)
  THEN LET name == Applied(s, "resource_group")[1].args[1].value
       IN name[Len(name)]
  ELSE NoScope

\* ResourceGroupScope::are_equal_envs; are_equal_module_ids.
AreEqualEnvs(scope, resource, group) ==
  \/ scope = "global"
  \/ scope = "address" /\ resource[1] = group[1]
  \/ scope = "module_" /\ resource = group

\* The struct that a member names; None if it names none.
Container(source, value) ==
  LET found == {m \in {source} \cup Library :
                  Len(value) = 3 /\ m.id = <<value[1], value[2]>>
                    /\ value[3] \in DOMAIN m.structs}
  IN IF found = {} THEN None
     ELSE (CHOOSE m \in found : TRUE).structs[value[3]]

\* Mutant: a member need not be a resource.
MemberFits_AnyStruct(source, s) ==
  LET attr == Applied(s, "resource_group_member")[1]
      container == Container(source, attr.args[1].value)
  IN Len(attr.args) = 1 /\ container # None
       /\ GetResourceGroup(container) # NoScope

\* check_and_record_resource_group_members, for a struct with the attribute.
MemberFits(source, s) ==
  LET attr == Applied(s, "resource_group_member")[1]
      value == attr.args[1].value
      container == Container(source, value)
  IN /\ "key" \in s.abilities
     /\ Len(attr.args) = 1
     /\ IsAssigned(attr.args[1], "group")
     /\ container # None
     /\ GetResourceGroup(container) # NoScope
     /\ AreEqualEnvs(GetResourceGroup(container), source.id,
                     <<value[1], value[2]>>)

MemberPanics(s) ==
  /\ HasAttribute(s, "resource_group_member")
  /\ "key" \in s.abilities
  /\ Applied(s, "resource_group_member")[1].args = <<>>

\* check_transaction_input_type.
InputAllowed(type) ==
  \/ type.base \in {"u64", "signer", "T", "0x1::string::String"}
  \/ type.base = "&signer" /\ ~type.vector

ViewFits(f) == (\A type \in f.params : InputAllowed(type)) /\ f.returns > 0

EntryFits(f) ==
  \/ HasAttribute(f, "legacy_entry_fun")
  \/ (\A type \in f.params : InputAllowed(type)) /\ f.returns = 0

InitModuleFits(f) ==
  /\ f.visibility = "private"
  /\ \A type \in f.params :
       type.base \in {"signer", "&signer", "&mut signer"} /\ ~type.vector
  /\ f.returns = 0

\* check_emit_event_call, for 0x1::event::emit<T> with T a struct or "u64".
EmitFits(source, type) ==
  /\ Len(type) = 3
  /\ source.id = <<type[1], type[2]>>
  /\ type[3] \in DOMAIN source.structs
  /\ HasAttribute(source.structs[type[3]], "event")

Diagnosed(source) ==
  \/ \E s \in {source.structs[n] : n \in DOMAIN source.structs} :
       \/ HasAttribute(s, "resource_group") /\ ~GroupFits(s)
       \/ HasAttribute(s, "resource_group_member") /\ ~MemberFits(source, s)
  \/ \E f \in {source.functions[n] : n \in DOMAIN source.functions} :
       \/ HasAttribute(f, "view") /\ ~ViewFits(f)
       \/ f.entry /\ ~EntryFits(f)
       \/ ~f.inline /\ \E type \in f.emits : ~EmitFits(source, type)
  \/ "init_module" \in DOMAIN source.functions
       /\ ~InitModuleFits(source.functions["init_module"])

\* build_error_map: the constants whose names begin with E; of two with one
\* value the first counts.
ErrorMap(source) ==
  LET errors == {i \in DOMAIN source.constants : source.constants[i].is_error}
      ValueOf(i) == source.constants[i].value
      first(v) == Min({i \in errors : ValueOf(i) = v})
  IN IF source.id = ErrorModule THEN <<>>
     ELSE [v \in {ValueOf(i) : i \in errors} |-> source.constants[first(v)].name]

\* In the order of the checks: groups, members, events.
StructAttributes(s) ==
  (IF HasAttribute(s, "resource_group")
   THEN <<KnownAttribute(ResourceGroup, << <<GetResourceGroup(s)>> >>)>> ELSE <<>>)
  \o (IF HasAttribute(s, "resource_group_member")
      THEN <<KnownAttribute(ResourceGroupMember,
                   <<Applied(s, "resource_group_member")[1].args[1].value>>)>>
      ELSE <<>>)
  \o (IF HasAttribute(s, "event") THEN <<KnownAttribute(EventAttribute, <<>>)>> ELSE <<>>)

\* The output of run_extended_checks for a module without errors.
RuntimeMetadata(source) ==
  LET views == {n \in DOMAIN source.functions : HasAttribute(source.functions[n], "view")}
      marked == {n \in DOMAIN source.structs :
                   StructAttributes(source.structs[n]) # <<>>}
  IN [error_map |-> ErrorMap(source),
      struct_attributes |-> [n \in marked |-> StructAttributes(source.structs[n])],
      fun_attributes |-> [n \in views |-> <<KnownAttribute(ViewFunction, <<>>)>>]]

-----------------------------------------------------------------------------
(* Metadata in bytecode.                                                   *)

ENDLESS_METADATA_KEY == "endless::metadata_v0"
ENDLESS_METADATA_KEY_V1 == "endless::metadata_v1"

IsV1(value) == DOMAIN value = {"error_map", "struct_attributes", "fun_attributes"}
IsV0(value) == DOMAIN value = {"error_map"}

Downgrade(meta) == [error_map |-> meta.error_map]
Upgrade(meta) ==
  [error_map |-> meta.error_map, struct_attributes |-> <<>>, fun_attributes |-> <<>>]

IsEmpty(meta) ==
  meta.error_map = <<>> /\ meta.struct_attributes = <<>> /\ meta.fun_attributes = <<>>

\* inject_runtime_metadata, into the bytecode of the version that was asked for.
Inject(meta, version) ==
  IF IsEmpty(meta) THEN <<>>
  ELSE IF version >= METADATA_V1_MIN_FILE_FORMAT_VERSION
       THEN <<[key |-> ENDLESS_METADATA_KEY_V1, value |-> meta]>>
       ELSE <<[key |-> ENDLESS_METADATA_KEY, value |-> Downgrade(meta)]>>

\* The compiler leaves attributes and inline functions out of the bytecode.
Compiled(source, version, metadata) ==
  [id |-> source.id, version |-> version, imports |-> source.imports,
   structs |-> [n \in DOMAIN source.structs |->
                  [abilities |-> source.structs[n].abilities,
                   type_params |-> source.structs[n].type_params,
                   fields |-> source.structs[n].fields]],
   functions |-> [n \in {x \in DOMAIN source.functions : ~source.functions[x].inline} |->
                    source.functions[n].returns],
   type_nodes |-> source.type_nodes, name_chars |-> source.name_chars,
   metadata |-> metadata]

\* BuiltPackage::build.
Build(source, version) ==
  Compiled(source, version, Inject(RuntimeMetadata(source), version))

Section(sections, key) == {i \in DOMAIN sections : sections[i].key = key}
FirstOf(sections, key) == sections[Min(Section(sections, key))].value

\* Metadata of version 0 is read as that of version 1 without attributes.
Deserialize(value, key) ==
  IF key = ENDLESS_METADATA_KEY_V1 THEN IF IsV1(value) THEN value ELSE None
  ELSE IF IsV0(value) THEN Upgrade(value) ELSE None

\* get_metadata, without its caches: version 1 goes before version 0.
Decoded(sections) ==
  LET key == IF Section(sections, ENDLESS_METADATA_KEY_V1) # {}
             THEN ENDLESS_METADATA_KEY_V1 ELSE ENDLESS_METADATA_KEY
  IN IF Section(sections, key) = {} THEN None
     ELSE Deserialize(FirstOf(sections, key), key)

\* get_metadata_from_compiled_module clears the attributes of version 5.
MetadataOf(module) ==
  LET meta == Decoded(module.metadata)
      inV1 == Section(module.metadata, ENDLESS_METADATA_KEY_V1) # {}
  IN IF meta # None /\ module.version = 5 /\ inV1 THEN Upgrade(meta) ELSE meta

WithinBudget(module) ==
  NODE_COST * module.type_nodes + IDENT_CHAR_COST * module.name_chars
    <= COMPLEXITY_BUDGET

\* check_metadata_format: one section, with one of the keys, that deserializes.
FormatFits(module) ==
  /\ Len(module.metadata) <= 1
  /\ \A i \in DOMAIN module.metadata :
       /\ module.metadata[i].key \in {ENDLESS_METADATA_KEY, ENDLESS_METADATA_KEY_V1}
       /\ Deserialize(module.metadata[i].value, module.metadata[i].key) # None

ValidViewFunction(module, fun) ==
  fun \in DOMAIN module.functions /\ module.functions[fun] > 0

ValidResourceGroup(module, name) ==
  /\ name \in DOMAIN module.structs
  /\ module.structs[name].abilities = {}
  /\ module.structs[name].type_params = 0
  /\ Cardinality(module.structs[name].fields) = 1

ValidResourceGroupMember(module, name) ==
  name \in DOMAIN module.structs /\ "key" \in module.structs[name].abilities

StructAttributeFits(module, name, attr, features) ==
  \/ /\ "RESOURCE_GROUPS" \in features
     /\ IsGroup(attr) /\ ValidResourceGroup(module, name)
  \/ /\ "RESOURCE_GROUPS" \in features
     /\ IsMember(attr) /\ ValidResourceGroupMember(module, name)
  \/ "MODULE_EVENT" \in features /\ attr.kind = EventAttribute

AttributesFit(module, meta, features) ==
  /\ \A fun \in DOMAIN meta.fun_attributes :
       \A i \in DOMAIN meta.fun_attributes[fun] :
         /\ IsViewFunction(meta.fun_attributes[fun][i])
         /\ ValidViewFunction(module, fun)
  /\ \A name \in DOMAIN meta.struct_attributes :
       \A i \in DOMAIN meta.struct_attributes[name] :
         StructAttributeFits(module, name, meta.struct_attributes[name][i], features)

\* Mutant: the attributes are not verified.
VerifyModuleMetadata_FormatOnly(module, features) ==
  "RESOURCE_GROUPS" \in features => FormatFits(module)

VerifyModuleMetadata(module, features) ==
  /\ "SAFER_METADATA" \in features => WithinBudget(module)
  /\ "RESOURCE_GROUPS" \in features => FormatFits(module)
  /\ MetadataOf(module) # None => AttributesFit(module, MetadataOf(module), features)

\* extract_abort_info; the name of the reason, or "" without one.
ExtractAbortInfo(meta, code) ==
  IF code % 4096 \in DOMAIN meta.error_map THEN meta.error_map[code % 4096]
  ELSE IF code \in DOMAIN meta.error_map THEN meta.error_map[code] ELSE ""

\* write_module_event_to_store, called by event::emit in a function of module.
EmitRuns(module, type) == Len(type) = 3 /\ module.id = <<type[1], type[2]>>
=============================================================================
