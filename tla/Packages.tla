------------------------------ MODULE Packages ------------------------------
(***************************************************************************)
(* Publishing code: the package registries of code.move, the native it     *)
(* requests publication with (natives/code.rs), what the VM does with a    *)
(* request when the transaction ends, and the builder that makes the       *)
(* modules (built_package.rs, by ModuleMetadata).                          *)
(*                                                                         *)
(* A transaction may call publish_package and freeze_code_object several   *)
(* times.  A registry changes at once; the modules themselves are published*)
(* by the VM from one request, remembered until the transaction ends.      *)
(* A registry is a set of packages: the code looks for names in it.        *)
(***************************************************************************)
EXTENDS ModuleMetadata

CONSTANTS
  Addr,          \* the addresses that publish
  CodeObject,    \* those that are objects, by object_code_deployment.move
  Exempted,      \* the core addresses, with packages of their own
  CoreModules,   \* the modules at the core addresses
  ModuleName,
  Publication,   \* bound: the calls of publish_package
  Sources,       \* bound: the source modules that are built
  Versions,      \* bound: of bytecode, to build for
  FeatureSets,   \* the features that may be enabled
  MaxUpgrades    \* bound on upgrade_number

ARBITRARY_POLICY == 0
COMPATIBLE_POLICY == 1
IMMUTABLE_POLICY == 2

NoModule == None
Wildcard == ""
NoTxn == [none |-> TRUE]

\* PackageMetadata, without what only readers use.
IsPackage(p) ==
  p = [name |-> p.name, upgrade_policy |-> p.upgrade_policy,
       upgrade_number |-> p.upgrade_number, modules |-> p.modules, deps |-> p.deps]

ASSUME PackagesAssumption ==
  /\ CodeObject \subseteq Addr /\ Addr \cap Exempted = {}
  /\ \A id \in CoreModules : id[1] \in Exempted
  /\ MaxUpgrades \in Nat /\ Wildcard \notin ModuleName

\* A package is deserialized from what the caller passes, so that its policy is
\* any u8 and its modules have any names; a module has an identifier.
ASSUME PublicationAssumption ==
  \A p \in Publication :
    /\ p.addr \in Addr /\ p.pack.upgrade_policy \in Nat /\ IsPackage(p.pack)
    /\ \A b \in p.bundle :
         /\ b # NoModule /\ b.id = <<b.id[1], b.id[2]>> /\ b.id[2] \in ModuleName
         /\ \A id \in b.imports : id = <<id[1], id[2]>>

\* The compiler gives an empty struct a dummy field, and constants a value.  The
\* builder does not look at the size of a module; these are within the budget.
ASSUME SourceAssumption ==
  \A source \in Sources :
    /\ \A n \in DOMAIN source.structs : source.structs[n].fields # {}
    /\ \A i \in DOMAIN source.constants : i \in Nat /\ source.constants[i].value \in Nat
    /\ WithinBudget(source)

VARIABLES
  features,
  registry,   \* PackageRegistry.packages of each address
  code,       \* the published modules
  txn,        \* the running transaction: its registries and its request
  build      \* what became of the last build

packageVars == <<features, registry, code, txn, build>>

NoBuild == [outcome |-> "none", accepted |-> TRUE, emits |-> TRUE, reasons |-> TRUE]

ModuleId == Addr \X ModuleName

Names(bundle) == {b.id[2] : b \in bundle}

-----------------------------------------------------------------------------
(* code.move.                                                              *)

CanChangeUpgradePolicyTo(from, to) == from <= to

\* Mutant: whether a package is immutable is asked of the new one.
CheckUpgradability_NewPolicy(old, pack) ==
  /\ CanChangeUpgradePolicyTo(old.upgrade_policy, pack.upgrade_policy)
  /\ old.modules \subseteq pack.modules

CheckUpgradability(old, pack) ==
  /\ old.upgrade_policy < IMMUTABLE_POLICY
  /\ CanChangeUpgradePolicyTo(old.upgrade_policy, pack.upgrade_policy)
  /\ old.modules \subseteq pack.modules

CheckCoexistence(old, pack) == old.modules \cap pack.modules = {}

\* What check_dependencies demands of the package that a dependency names.
CanDependOn(addr, pack, dep, found) ==
  /\ found.name = dep.package_name
  /\ found.upgrade_policy >= pack.upgrade_policy
  /\ found.upgrade_policy = ARBITRARY_POLICY => dep.account = addr

CheckDependencies(reg, addr, pack) ==
  \A dep \in pack.deps :
    \/ dep.account \in Exempted
    \/ /\ dep.account \in Addr
       /\ \E found \in reg[dep.account] : CanDependOn(addr, pack, dep, found)

\* Mutant: all that the account of a dependency has is allowed.
AllowedDeps_Account(reg, pack) ==
  {<<dep.account, Wildcard>> : dep \in pack.deps}

\* The list that check_dependencies returns.
AllowedDeps(reg, pack) ==
  UNION {IF dep.account \in Exempted THEN {<<dep.account, Wildcard>>}
         ELSE UNION {{dep.account} \X found.modules :
                       found \in {p \in reg[dep.account] : p.name = dep.package_name}}
         : dep \in pack.deps}

Upgraded(reg, addr, pack) ==
  LET same == {old \in reg[addr] : old.name = pack.name}
      number == IF same = {} THEN 0
                ELSE (CHOOSE old \in same : TRUE).upgrade_number + 1
  IN [reg EXCEPT ![addr] = (@ \ same) \cup {[pack EXCEPT !.upgrade_number = number]}]

Publishable(reg, addr, pack) ==
  /\ pack.upgrade_policy > ARBITRARY_POLICY
  /\ CheckDependencies(reg, addr, pack)
  /\ \A old \in reg[addr] :
       IF old.name = pack.name THEN CheckUpgradability(old, pack)
       ELSE CheckCoexistence(old, pack)

-----------------------------------------------------------------------------
(* Transactions.                                                           *)

Running == IF txn = NoTxn THEN [registry |-> registry, request |-> None] ELSE txn

Abort ==
  /\ txn' = NoTxn /\ build' = NoBuild
  /\ UNCHANGED <<features, registry, code>>

Continue(with) ==
  /\ txn' = with /\ build' = NoBuild
  /\ UNCHANGED <<features, registry, code>>

\* native_request_publish, with the list of allowed dependencies when there is
\* one; its own modules are allowed.
Request(reg, addr, pack, bundle) ==
  [destination |-> addr, bundle |-> bundle, expected_modules |-> pack.modules,
   restricted |-> "CODE_DEPENDENCY_CHECK" \in features,
   allowed_deps |-> AllowedDeps(reg, pack) \cup ({addr} \X pack.modules),
   check_compat |-> pack.upgrade_policy # ARBITRARY_POLICY]

\* Mutant: the last request is the one that counts.
CanRequest_Overwrites(running) == TRUE

\* EALREADY_REQUESTED.
CanRequest(running) == running.request = None

PublishPackage(addr, pack, bundle) ==
  IF Publishable(Running.registry, addr, pack) /\ CanRequest(Running)
  THEN Continue([registry |-> Upgraded(Running.registry, addr, pack),
                 request |-> Request(Running.registry, addr, pack, bundle)])
  ELSE Abort

Publish ==
  \E p \in Publication :
    /\ \A old \in Running.registry[p.addr] : old.upgrade_number < MaxUpgrades
    /\ PublishPackage(p.addr, p.pack, p.bundle)

Frozen(p) == [p EXCEPT !.upgrade_policy = IMMUTABLE_POLICY]

\* By the owner of the object; only an object with a registry is a code object.
FreezeCodeObject ==
  \E a \in CodeObject :
    /\ Running.registry[a] # {}
    /\ Continue([Running EXCEPT !.registry[a] = {Frozen(p) : p \in @}])

ModuleExists(id, bundle) ==
  \/ id \in CoreModules
  \/ \E b \in bundle : b.id = id
  \/ id \in ModuleId /\ code[id] # NoModule

Allowed(request, id) ==
  request.restricted =>
    id \in request.allowed_deps \/ <<id[1], Wildcard>> \in request.allowed_deps

\* A new module has the public functions of the old.
Compatible(old, new) ==
  old # NoModule => \A f \in DOMAIN old.functions :
                      f \in DOMAIN new.functions /\ old.functions[f] = new.functions[f]

\* The VM verifies what was requested.
Verifies(request) ==
  /\ Names(request.bundle) = request.expected_modules
  /\ \A b \in request.bundle :
       /\ b.id[1] = request.destination
       /\ \A id \in b.imports : ModuleExists(id, request.bundle) /\ Allowed(request, id)
       /\ request.check_compat => Compatible(code[b.id], b)
       /\ VerifyModuleMetadata(b, features)

Commit ==
  /\ txn # NoTxn
  /\ txn.request # None => Verifies(txn.request)
  /\ registry' = txn.registry
  /\ code' = [id \in ModuleId |->
                IF txn.request # None /\ \E b \in txn.request.bundle : b.id = id
                THEN CHOOSE b \in txn.request.bundle : b.id = id ELSE code[id]]
  /\ txn' = NoTxn /\ build' = NoBuild /\ UNCHANGED features

\* The VM refuses the request, or the transaction fails after it.
Discard == txn # NoTxn /\ Abort

-----------------------------------------------------------------------------
(* The builder.  A build is over when its outcome is known; what a built   *)
(* module is worth shows when it is verified, emits its events and aborts. *)

Panics(source) ==
  \E n \in DOMAIN source.structs : MemberPanics(source.structs[n])

\* error::invalid_argument(E), error::invalid_state(E), ...
AbortCodes(reason) == {category * 65536 + reason : category \in {1, 3}}

\* A code names a constant that it was made from.
ReasonsFit(source, module) ==
  LET meta == Decoded(module.metadata)
      errors == {i \in DOMAIN source.constants :
                   source.constants[i].is_error /\ source.constants[i].value < 4096}
      names(v) == {source.constants[j].name :
                     j \in {k \in errors : source.constants[k].value = v}}
  IN source.id # ErrorModule =>
       \A i \in errors :
         meta # None /\ \A abort \in AbortCodes(source.constants[i].value) :
           ExtractAbortInfo(meta, abort) \in names(source.constants[i].value)

EmitsRun(source, module) ==
  \A n \in DOMAIN module.functions :
    \A type \in source.functions[n].emits : EmitRuns(module, type)

InlineView(source) ==
  \E n \in DOMAIN source.functions :
    source.functions[n].inline /\ HasAttribute(source.functions[n], "view")

Judged(source, version, enabled) ==
  IF Panics(source) THEN [NoBuild EXCEPT !.outcome = "panic"]
  ELSE IF Diagnosed(source) THEN [NoBuild EXCEPT !.outcome = "error"]
  ELSE LET module == Build(source, version)
           how == IF InlineView(source) THEN "built with an inline view" ELSE "built"
       IN [outcome |-> how,
           accepted |-> VerifyModuleMetadata(module, enabled),
           emits |-> EmitsRun(source, module),
           reasons |-> ReasonsFit(source, module)]

\* What every build comes to, by the features.
Judgements ==
  [enabled \in FeatureSets |->
     {Judged(source, version, enabled) : source \in Sources, version \in Versions}]

BuildPackage ==
  /\ txn = NoTxn /\ build = NoBuild
  /\ build' \in Judgements[features]
  /\ UNCHANGED <<features, registry, code, txn>>

-----------------------------------------------------------------------------
PackagesInit ==
  /\ features \in FeatureSets
  /\ registry = [a \in Addr |-> {}]
  /\ code = [id \in ModuleId |-> NoModule]
  /\ txn = NoTxn
  /\ build = NoBuild

PackagesNext == Publish \/ FreezeCodeObject \/ Commit \/ Discard \/ BuildPackage

PackagesSpec == PackagesInit /\ [][PackagesNext]_packageVars

-----------------------------------------------------------------------------
(* Properties.                                                             *)

Package(p) ==
  /\ IsPackage(p)
  /\ p.upgrade_policy \in Nat \ {ARBITRARY_POLICY}
  /\ p.upgrade_number \in 0 .. MaxUpgrades

\* What transactions leave in the registry of an address and the modules published
\* there say the same: every package has all its modules, no module is without
\* a package or in two, and no two packages have one name (publish_package
\* changes the registry long before the VM publishes).
RegistryMatchesCode ==
  \A a \in Addr :
    /\ \A p \in registry[a] : Package(p)
    /\ \A p, q \in registry[a] : p # q => p.name # q.name /\ p.modules \cap q.modules = {}
    /\ UNION {p.modules : p \in registry[a]} =
         {n \in ModuleName : code[<<a, n>>] # NoModule}

Owner(id) == CHOOSE p \in registry[id[1]] : id[2] \in p.modules

\* With the dependency check, whatever was upgraded since, every import of a
\* published module exists, and is in its own package, in a package that its own
\* declares to depend on, or at a core address that it declares
\* (check_dependencies, request_publish_with_allowed_deps).
ImportsAreDeclared ==
  "CODE_DEPENDENCY_CHECK" \in features =>
    \A id \in {x \in ModuleId : code[x] # NoModule} :
      \A import \in code[id].imports :
        /\ ModuleExists(import, {})
        /\ \/ import[1] = id[1] /\ import[2] \in Owner(id).modules
           \/ \E dep \in Owner(id).deps :
                /\ dep.account = import[1]
                /\ import[1] \in Addr => Owner(import).name = dep.package_name

\* A transaction that changes a package counts it up or only makes it immutable;
\* it takes away no module and no public function and weakens no policy; and of
\* an immutable package nothing ever changes, its code included.  (A policy above
\* that of immutable packages is one, until freezing gives it that name.)
UpgradesKeepPromises ==
  [][\A a \in Addr : \A p \in registry[a] :
       \E q \in registry'[a] :
         /\ q.name = p.name
         /\ \/ q.upgrade_policy >= p.upgrade_policy
            \/ q.upgrade_policy = IMMUTABLE_POLICY
         /\ p.modules \subseteq q.modules
         /\ \A n \in p.modules : Compatible(code[<<a, n>>], code'[<<a, n>>])
         /\ \/ p.upgrade_policy < IMMUTABLE_POLICY /\ q.upgrade_number = p.upgrade_number + 1
            \/ /\ [q EXCEPT !.upgrade_policy = p.upgrade_policy] = p
               /\ q.upgrade_policy \in {p.upgrade_policy, IMMUTABLE_POLICY}
               /\ \A n \in p.modules : code'[<<a, n>>] = code[<<a, n>>]]_packageVars

\* What the builder lets through, the verifier on chain accepts, as long as its
\* features are enabled, and none of the module's own events is refused by the
\* native.  (The builder also lets an inline function be a view, which then is
\* not in the bytecode: such a module is refused.)  An abort code made of a category
\* and an error constant of the module is explained with a constant of that
\* value (build_error_map, extract_abort_info, in both formats of the metadata).
BuildsAreAccepted ==
  /\ build.outcome = "built" /\ {"RESOURCE_GROUPS", "MODULE_EVENT"} \subseteq features =>
       build.accepted /\ build.emits
  /\ build.reasons

\* With resource groups enabled, what the VM reads from the metadata of a
\* published module is true of the module: views return values, groups hold
\* nothing, members are resources.  (Bytecode of version 5 is excepted: its
\* attributes are cleared before they are verified.)
AttributesAreTrue ==
  "RESOURCE_GROUPS" \in features =>
    \A id \in {x \in ModuleId : code[x] # NoModule /\ code[x].version # 5} :
      LET meta == Decoded(code[id].metadata)
      IN meta # None =>
           /\ \A f \in DOMAIN meta.fun_attributes :
                DOMAIN meta.fun_attributes[f] # {} =>
                  f \in DOMAIN code[id].functions /\ code[id].functions[f] > 0
           /\ \A s \in DOMAIN meta.struct_attributes :
                \A i \in DOMAIN meta.struct_attributes[s] :
                  LET attr == meta.struct_attributes[s][i]
                  IN CASE attr.kind = ResourceGroup ->
                            /\ s \in DOMAIN code[id].structs
                            /\ code[id].structs[s].abilities = {}
                       [] attr.kind = ResourceGroupMember ->
                            /\ s \in DOMAIN code[id].structs
                            /\ "key" \in code[id].structs[s].abilities
                       [] OTHER -> TRUE
=============================================================================
