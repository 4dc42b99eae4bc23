------------------------ MODULE SessionChangesProofs ------------------------
(***************************************************************************)
(* Proofs about Packages and Aggregators.                                  *)
(*                                                                         *)
(* Whatever is published and frozen, in whatever order, the registries     *)
(* match the code, imports stay declared, upgrades keep their promises,    *)
(* and attributes stay true.  A transaction works on registries of its own *)
(* until it commits, so the invariant relates these and the pending        *)
(* request to what is published: each package is kept as it was, or        *)
(* frozen, or it is the one requested.                                     *)
(*                                                                         *)
(* What the builder lets through is what the chain accepts: each attribute *)
(* that it records is one that it checked, and its section of metadata is  *)
(* read back, in either format.                                            *)
(*                                                                         *)
(* A session that delays the reading of an aggregator answers what the     *)
(* plain session would, and what it commits is what that leaves, whatever  *)
(* other sessions commit meanwhile.  The invariant says it for every       *)
(* number that fits what the session learnt, and that the number it has,   *)
(* or its delta, is one of those its history speaks of.                    *)
(***************************************************************************)
EXTENDS Packages, Aggregators, SequenceTheorems, FiniteSetTheorems,
        WellFoundedInduction, TLAPS

\* The request r is for the modules of an address.
Requested(r, a) == r # None /\ r.destination = a

\* The package p of a, as the transaction with the request r left it.
KeptAs(r, a, p, q) ==
  /\ q \in {p, Frozen(p)}
  /\ Requested(r, a) => q.modules \cap r.expected_modules = {}

\* The package p of a that the transaction upgraded to q.
UpgradedTo(r, a, p, q) ==
  /\ Requested(r, a) /\ q.modules = r.expected_modules
  /\ q.name = p.name /\ p.modules \subseteq q.modules
  /\ q.upgrade_number = p.upgrade_number + 1
  /\ p.upgrade_policy < IMMUTABLE_POLICY
  /\ p.upgrade_policy <= q.upgrade_policy

Becomes(r, a, p, q) == KeptAs(r, a, p, q) \/ UpgradedTo(r, a, p, q)

\* Packages, of different names and without common modules.
WellFormed(reg) ==
  \A a \in Addr :
    /\ \A p \in reg[a] : Package(p)
    /\ \A p, q \in reg[a] : p # q => p.name # q.name /\ p.modules \cap q.modules = {}

\* What the package q of a declares to import.
Declares(reg, a, q, id) ==
  \/ id[1] = a /\ id[2] \in q.modules
  \/ \E dep \in q.deps :
       /\ dep.account = id[1]
       /\ \/ id[1] \in Exempted /\ id[2] = Wildcard
          \/ /\ id[1] \in Addr
             /\ \E found \in reg[id[1]] :
                  found.name = dep.package_name /\ id[2] \in found.modules

\* A pending request is for the modules of a package in the registry, and allows
\* what that package declares.
RequestOK(reg, r) ==
  /\ r.destination \in Addr /\ r.check_compat
  /\ r.restricted = ("CODE_DEPENDENCY_CHECK" \in features)
  /\ \A b \in r.bundle :
       /\ b # NoModule /\ b.id = <<b.id[1], b.id[2]>> /\ b.id[2] \in ModuleName
       /\ \A id \in b.imports : id = <<id[1], id[2]>>
  /\ \E q \in reg[r.destination] :
       /\ q.modules = r.expected_modules
       /\ \A id \in r.allowed_deps : Declares(reg, r.destination, q, id)

\* The registries and the request of a transaction.
TxnOK(reg, r) ==
  /\ reg = [a \in Addr |-> reg[a]]
  /\ WellFormed(reg)
  /\ \A a \in Addr : \A p \in registry[a] : \E q \in reg[a] : Becomes(r, a, p, q)
  /\ \A a \in Addr : \A q \in reg[a] :
       \/ \E p \in registry[a] : Becomes(r, a, p, q)
       \/ Requested(r, a) /\ q.modules = r.expected_modules
  /\ r # None => RequestOK(reg, r)

\* The VM has verified what is published.
Verified ==
  \A id \in ModuleId : code[id] # NoModule => VerifyModuleMetadata(code[id], features)

PackagesIInv ==
  /\ registry = [a \in Addr |-> registry[a]]
  /\ code = [id \in ModuleId |-> code[id]]
  /\ RegistryMatchesCode
  /\ ImportsAreDeclared
  /\ Verified
  /\ txn # NoTxn => txn = [registry |-> txn.registry, request |-> txn.request]
  /\ txn # NoTxn => TxnOK(txn.registry, txn.request)

-----------------------------------------------------------------------------
(* Packages and registries.                                                *)

\* Frozen packages are packages, with everything but the policy as it was.
LEMMA Freezing ==
  ASSUME NEW p, Package(p), NEW q, q = Frozen(p)
  PROVE  /\ Package(q) /\ q.upgrade_policy = IMMUTABLE_POLICY
         /\ q.name = p.name /\ q.modules = p.modules /\ q.deps = p.deps
         /\ q.upgrade_number = p.upgrade_number
         /\ [q EXCEPT !.upgrade_policy = p.upgrade_policy] = p
         /\ Frozen(q) = q
<1>1. p = [name |-> p.name, upgrade_policy |-> p.upgrade_policy,
           upgrade_number |-> p.upgrade_number, modules |-> p.modules, deps |-> p.deps]
  BY DEF Package, IsPackage
<1>2. q = [name |-> p.name, upgrade_policy |-> IMMUTABLE_POLICY,
           upgrade_number |-> p.upgrade_number, modules |-> p.modules, deps |-> p.deps]
  BY <1>1 DEF Frozen
<1>3. /\ q.upgrade_policy = IMMUTABLE_POLICY
      /\ q.name = p.name /\ q.modules = p.modules /\ q.deps = p.deps
      /\ q.upgrade_number = p.upgrade_number
  BY <1>2
<1>4. [q EXCEPT !.upgrade_policy = p.upgrade_policy] = p
  BY <1>1, <1>2
<1>5. Frozen(q) = q
  BY <1>2 DEF Frozen
<1>6. Package(q)
  BY <1>2, <1>3 DEF Package, IsPackage, IMMUTABLE_POLICY, ARBITRARY_POLICY
<1> QED  BY <1>3, <1>4, <1>5, <1>6

\* A package that is kept or upgraded keeps its name and its modules.
LEMMA BecomesKeeps ==
  ASSUME NEW r, NEW a, NEW p, NEW q, Package(p), Becomes(r, a, p, q)
  PROVE  q.name = p.name /\ p.modules \subseteq q.modules
BY Freezing DEF Becomes, KeptAs, UpgradedTo

\* Packages of a well-formed registry with one name, or with a common module, are one.
LEMMA OnePackage ==
  ASSUME NEW reg, WellFormed(reg), NEW a \in Addr, NEW p \in reg[a], NEW q \in reg[a],
         p.name = q.name \/ \E n : n \in p.modules /\ n \in q.modules
  PROVE  p = q
BY DEF WellFormed

\* Between transactions, and when one begins, the registries are as published.
LEMMA RunningOK ==
  ASSUME PackagesIInv
  PROVE  TxnOK(Running.registry, Running.request)
<1>1. CASE txn = NoTxn
  <2>1. Running.registry = registry /\ Running.request = None
    BY <1>1 DEF Running
  <2>2. WellFormed(registry)
    BY DEF PackagesIInv, RegistryMatchesCode, WellFormed
  <2>3. \A a \in Addr : \A p \in registry[a] : Becomes(None, a, p, p)
    BY DEF Becomes, KeptAs, Requested
  <2>4. registry = [a \in Addr |-> registry[a]]
    BY DEF PackagesIInv
  <2> QED  BY <2>1, <2>2, <2>3, <2>4 DEF TxnOK
<1>2. CASE txn # NoTxn
  BY <1>2 DEF Running, PackagesIInv
<1> QED  BY <1>1, <1>2

-----------------------------------------------------------------------------
(* Publishing.                                                             *)

Others(reg, a, pack) == {old \in reg[a] : old.name # pack.name}

\* What publishing makes of the registry of the address.
LEMMA Upgrading ==
  ASSUME NEW reg, NEW r, TxnOK(reg, r),
         NEW a \in Addr, NEW pack, IsPackage(pack), pack.upgrade_policy \in Nat,
         Publishable(reg, a, pack),
         \A old \in reg[a] : old.upgrade_number < MaxUpgrades
  PROVE  \E new :
           /\ Package(new)
           /\ new.name = pack.name /\ new.modules = pack.modules /\ new.deps = pack.deps
           /\ new.upgrade_policy = pack.upgrade_policy
           /\ Upgraded(reg, a, pack) =
                [reg EXCEPT ![a] = Others(reg, a, pack) \cup {new}]
           /\ \A old \in reg[a] : old.name = pack.name =>
                new.upgrade_number = old.upgrade_number + 1
<1> DEFINE same == {old \in reg[a] : old.name = pack.name}
           number == IF same = {} THEN 0
                     ELSE (CHOOSE old \in same : TRUE).upgrade_number + 1
           new == [pack EXCEPT !.upgrade_number = number]
<1>1. \A old \in same : number = old.upgrade_number + 1
  <2> SUFFICES ASSUME NEW old \in same  PROVE number = old.upgrade_number + 1
    OBVIOUS
  <2>1. PICK one : one = CHOOSE x \in same : TRUE
    OBVIOUS
  <2>2. one \in same
    BY <2>1
  <2>3. one = old
    BY <2>2, OnePackage DEF TxnOK
  <2> QED  BY <2>1, <2>3
<1>2. number \in 0 .. MaxUpgrades
  <2>1. CASE same = {}
    BY <2>1, PackagesAssumption
  <2>2. CASE same # {}
    <3>1. PICK old \in same : TRUE
      BY <2>2
    <3>2. old \in reg[a] /\ Package(old)
      BY <3>1 DEF TxnOK, WellFormed
    <3>3. old.upgrade_number \in 0 .. MaxUpgrades /\ old.upgrade_number < MaxUpgrades
      BY <3>2 DEF Package
    <3> QED  BY <1>1, <3>1, <3>3, PackagesAssumption
  <2> QED  BY <2>1, <2>2
<1>3. /\ new.name = pack.name /\ new.modules = pack.modules /\ new.deps = pack.deps
      /\ new.upgrade_policy = pack.upgrade_policy /\ new.upgrade_number = number
      /\ IsPackage(new)
  <2> HIDE DEF number
  <2> QED  BY DEF IsPackage
<1>4. Package(new)
  BY <1>2, <1>3 DEF Package, Publishable, ARBITRARY_POLICY
<1>5. reg[a] \ same = Others(reg, a, pack)
  BY DEF Others
<1>6. Upgraded(reg, a, pack) = [reg EXCEPT ![a] = (reg[a] \ same) \cup {new}]
  BY Zenon DEF Upgraded
<1>7. \A old \in reg[a] : old.name = pack.name => new.upgrade_number = old.upgrade_number + 1
  BY <1>1, <1>3
<1> HIDE DEF new
<1>8. Upgraded(reg, a, pack) =
        [reg EXCEPT ![a] = Others(reg, a, pack) \cup {new}]
  BY <1>5, <1>6, Zenon
<1> QED  BY <1>3, <1>4, <1>7, <1>8
\* What was allowed to a package, it declares.
LEMMA AllowedAreDeclared ==
  ASSUME NEW reg, NEW a \in Addr, NEW pack, NEW new, NEW reg2,
         CheckDependencies(reg, a, pack),
         \A old \in reg[a] : old.name = pack.name => old.modules \subseteq new.modules,
         new.deps = pack.deps, new.name = pack.name, new.modules = pack.modules,
         \A b \in Addr : \A old \in reg[b] : old \in reg2[b] \/ (b = a /\ old.name = pack.name),
         NEW id \in AllowedDeps(reg, pack) \cup ({a} \X pack.modules)
  PROVE  Declares(reg2, a, new, id)
<1>1. CASE id \in {a} \X pack.modules
  BY <1>1 DEF Declares
<1>2. CASE id \in AllowedDeps(reg, pack)
  <2> DEFINE allowed(dep) ==
        IF dep.account \in Exempted THEN {<<dep.account, Wildcard>>}
        ELSE UNION {{dep.account} \X found.modules :
                     found \in {p \in reg[dep.account] : p.name = dep.package_name}}
  <2>0. id \in UNION {allowed(dep) : dep \in pack.deps}
    BY <1>2 DEF AllowedDeps
  <2>1. PICK dep \in pack.deps : id \in allowed(dep)
    <3> HIDE DEF allowed
    <3> QED  BY <2>0
  <2>2. CASE dep.account \in Exempted
    <3>1. id = <<dep.account, Wildcard>>
      BY <2>1, <2>2
    <3> QED  BY <3>1, <2>2 DEF Declares
  <2>3. CASE dep.account \notin Exempted
    <3>1. PICK found \in reg[dep.account] :
            found.name = dep.package_name /\ id \in {dep.account} \X found.modules
      BY <2>1, <2>3
    <3>2. id[1] = dep.account /\ id[2] \in found.modules
      BY <3>1
    <3>3. dep.account \in Addr
      BY <2>3 DEF CheckDependencies
    <3>4. CASE found \in reg2[dep.account]
      BY <3>1, <3>2, <3>3, <3>4 DEF Declares
    <3>5. CASE dep.account = a /\ found.name = pack.name
      <4>1. found.modules \subseteq new.modules
        BY <3>1, <3>5
      <4> QED  BY <3>2, <3>5, <4>1 DEF Declares
    <3> QED  BY <3>1, <3>3, <3>4, <3>5
  <2> QED  BY <2>2, <2>3
<1> QED  BY <1>1, <1>2

\* A request follows a registry that fits it.
LEMMA PublishKeepsTxn ==
  ASSUME WellFormed(registry),
         NEW reg, TxnOK(reg, None), NEW a \in Addr, NEW pack, NEW bundle,
         IsPackage(pack), pack.upgrade_policy \in Nat, Publishable(reg, a, pack),
         \A b \in bundle :
           /\ b # NoModule /\ b.id = <<b.id[1], b.id[2]>> /\ b.id[2] \in ModuleName
           /\ \A id \in b.imports : id = <<id[1], id[2]>>,
         \A old \in reg[a] : old.upgrade_number < MaxUpgrades,
         NEW reg2, reg2 = Upgraded(reg, a, pack),
         NEW r, r = Request(reg, a, pack, bundle)
  PROVE  TxnOK(reg2, r)
<1>1. \A old : old \in Others(reg, a, pack) <=> old \in reg[a] /\ old.name # pack.name
  BY DEF Others
<1>2. PICK new :
        /\ Package(new)
        /\ new.name = pack.name /\ new.modules = pack.modules /\ new.deps = pack.deps
        /\ new.upgrade_policy = pack.upgrade_policy
        /\ Upgraded(reg, a, pack) =
             [reg EXCEPT ![a] = Others(reg, a, pack) \cup {new}]
        /\ \A old \in reg[a] : old.name = pack.name =>
             new.upgrade_number = old.upgrade_number + 1
  BY Upgrading
<1>3. /\ r # None /\ r.destination = a /\ r.expected_modules = new.modules
      /\ r.check_compat /\ r.restricted = ("CODE_DEPENDENCY_CHECK" \in features)
      /\ r.bundle = bundle
      /\ r.allowed_deps = AllowedDeps(reg, pack) \cup ({a} \X pack.modules)
  <2>1. pack.upgrade_policy # ARBITRARY_POLICY
    BY DEF Publishable, ARBITRARY_POLICY
  <2> QED  BY <1>2, <2>1 DEF Request, None
<1>4. CheckDependencies(reg, a, pack)
  BY DEF Publishable
<1>5. \A old \in reg[a] : IF old.name = pack.name THEN CheckUpgradability(old, pack)
                          ELSE CheckCoexistence(old, pack)
  BY DEF Publishable
<1>6. reg2 = [b \in Addr |-> reg2[b]] /\ reg = [b \in Addr |-> reg[b]]
  <2>1. reg = [b \in Addr |-> reg[b]]
    BY DEF TxnOK
  <2> QED  BY <1>2, <2>1
<1>7. /\ reg2[a] = Others(reg, a, pack) \cup {new}
      /\ \A b \in Addr : b # a => reg2[b] = reg[b]
  <2>1. a \in DOMAIN reg /\ DOMAIN reg = Addr
    BY <1>6
  <2> QED  BY <1>2, <2>1
<1>8. WellFormed(reg2)
  <2> SUFFICES ASSUME NEW b \in Addr
               PROVE  /\ \A q \in reg2[b] : Package(q)
                      /\ \A q, s \in reg2[b] : q # s => /\ q.name # s.name
                                                       /\ q.modules \cap s.modules = {}
    BY DEF WellFormed
  <2>1. CASE b # a
    BY <2>1, <1>7 DEF TxnOK, WellFormed
  <2>2. CASE b = a
    <3>1. \A q \in reg[a] : Package(q)
      BY DEF TxnOK, WellFormed
    <3>2. \A q, s \in reg[a] : q # s => q.name # s.name /\ q.modules \cap s.modules = {}
      BY DEF TxnOK, WellFormed
    <3>3. \A q \in reg[a] : q.name # pack.name => q.modules \cap new.modules = {}
      BY <1>2, <1>5 DEF CheckCoexistence
    <3>4. \A q \in reg2[a] : q = new \/ (q \in reg[a] /\ q.name # new.name)
      BY <1>2, <1>7, <1>1
    <3> QED  BY <2>2, <1>2, <3>1, <3>2, <3>3, <3>4
  <2> QED  BY <2>1, <2>2
<1>9. ASSUME NEW b \in Addr, NEW old \in registry[b], NEW q \in reg[b], Becomes(None, b, old, q)
      PROVE  IF b = a /\ q.name = pack.name THEN Becomes(r, b, old, new)
             ELSE q \in reg2[b] /\ Becomes(r, b, old, q)
  <2>1. KeptAs(None, b, old, q) /\ Package(old) /\ Package(q)
    BY <1>9 DEF Becomes, UpgradedTo, Requested, WellFormed, TxnOK
  <2>2. CASE b # a
    BY <1>3, <1>7, <2>1, <2>2 DEF KeptAs, Requested, Becomes
  <2>3. CASE b = a /\ q.name # pack.name
    <3>1. q \in reg2[b]
      BY <1>7, <1>1, <2>3
    <3>2. q.modules \cap new.modules = {}
      BY <1>2, <1>5, <2>3 DEF CheckCoexistence
    <3> QED  BY <1>3, <2>1, <2>3, <3>1, <3>2 DEF KeptAs, Requested, Becomes
  <2>4. CASE b = a /\ q.name = pack.name
    <3>1. CheckUpgradability(q, pack)
      BY <1>5, <2>4
    <3>2. /\ old.name = q.name /\ old.modules = q.modules
          /\ old.upgrade_number = q.upgrade_number
          /\ q = old \/ q.upgrade_policy = IMMUTABLE_POLICY
      BY <2>1, Freezing DEF KeptAs
    <3>3. old.upgrade_policy = q.upgrade_policy /\ q.upgrade_policy < IMMUTABLE_POLICY
      BY <3>1, <3>2 DEF CheckUpgradability, IMMUTABLE_POLICY
    <3>4. new.upgrade_number = q.upgrade_number + 1
      BY <1>2, <2>4
    <3> QED  BY <1>2, <1>3, <2>4, <3>1, <3>2, <3>3, <3>4
             DEF CheckUpgradability, CanChangeUpgradePolicyTo, UpgradedTo, Becomes, Requested
  <2> QED  BY <2>2, <2>3, <2>4
<1>10. \A b \in Addr : \A old \in registry[b] : \E q \in reg2[b] : Becomes(r, b, old, q)
  <2> SUFFICES ASSUME NEW b \in Addr, NEW old \in registry[b]
               PROVE  \E q \in reg2[b] : Becomes(r, b, old, q)
    OBVIOUS
  <2>1. PICK q \in reg[b] : Becomes(None, b, old, q)
    BY DEF TxnOK
  <2> QED  BY <1>7, <1>1, <1>9, <2>1
<1>11. \A b \in Addr : \A q \in reg2[b] :
         \/ \E old \in registry[b] : Becomes(r, b, old, q)
         \/ Requested(r, b) /\ q.modules = r.expected_modules
  <2> SUFFICES ASSUME NEW b \in Addr, NEW q \in reg2[b]
               PROVE  \/ \E old \in registry[b] : Becomes(r, b, old, q)
                      \/ Requested(r, b) /\ q.modules = r.expected_modules
    OBVIOUS
  <2>1. CASE b = a /\ q = new
    BY <1>3, <2>1 DEF Requested
  <2>2. CASE ~(b = a /\ q = new)
    <3>1. q \in reg[b] /\ ~(b = a /\ q.name = pack.name)
      BY <1>7, <1>1, <2>2
    <3>2. PICK old \in registry[b] : Becomes(None, b, old, q)
      BY <3>1 DEF TxnOK, Requested
    <3> QED  BY <1>9, <3>1, <3>2
  <2> QED  BY <2>1, <2>2
<1>12. RequestOK(reg2, r)
  <2>2. \A old \in reg[a] : old.name = pack.name => old.modules \subseteq new.modules
    BY <1>2, <1>5 DEF CheckUpgradability
  <2>3. \A b \in Addr : \A old \in reg[b] :
          old \in reg2[b] \/ (b = a /\ old.name = pack.name)
    BY <1>7, <1>1
  <2>4. \A id \in r.allowed_deps : Declares(reg2, a, new, id)
    <3> SUFFICES ASSUME NEW id \in AllowedDeps(reg, pack) \cup ({a} \X pack.modules)
                 PROVE  Declares(reg2, a, new, id)
      BY <1>3
    <3>1. /\ CheckDependencies(reg, a, pack)
          /\ new.deps = pack.deps /\ new.name = pack.name /\ new.modules = pack.modules
      BY <1>2, <1>4
    <3> QED  BY <2>2, <2>3, <3>1, AllowedAreDeclared, ZenonT(60)
  <2>5. new \in reg2[a]
    BY <1>7, <1>1
  <2> QED  BY <1>3, <2>4, <2>5 DEF RequestOK
<1> QED  BY <1>6, <1>8, <1>10, <1>11, <1>12 DEF TxnOK
-----------------------------------------------------------------------------
(* Freezing.                                                               *)

\* What a transaction has of a package may be frozen.
LEMMA FrozenToo ==
  ASSUME NEW r, NEW a, NEW p, NEW q, Package(p), Package(q), Becomes(r, a, p, q)
  PROVE  Becomes(r, a, p, Frozen(q))
<1>1. /\ Frozen(q).name = q.name /\ Frozen(q).modules = q.modules
      /\ Frozen(q).upgrade_number = q.upgrade_number
      /\ Frozen(q).upgrade_policy = IMMUTABLE_POLICY
  BY Freezing
<1>2. CASE KeptAs(r, a, p, q)
  <2>1. Frozen(q) = Frozen(p)
    BY <1>2, Freezing DEF KeptAs
  <2> QED  BY <1>1, <1>2, <2>1 DEF KeptAs, Becomes
<1>3. CASE UpgradedTo(r, a, p, q)
  <2>1. p.upgrade_policy <= IMMUTABLE_POLICY
    BY <1>3 DEF UpgradedTo, IMMUTABLE_POLICY, Package
  <2> QED  BY <1>1, <1>3, <2>1 DEF UpgradedTo, Becomes
<1> QED  BY <1>2, <1>3 DEF Becomes

\* A code object may be frozen whenever there is one, before the request for it or
\* after.
LEMMA FreezeKeepsTxn ==
  ASSUME WellFormed(registry), NEW reg, NEW r, TxnOK(reg, r), NEW a \in Addr,
         NEW reg2, reg2 = [reg EXCEPT ![a] = {Frozen(p) : p \in reg[a]}]
  PROVE  TxnOK(reg2, r)
<1>1. reg = [b \in Addr |-> reg[b]]
  BY DEF TxnOK
<1>2. /\ reg2 = [b \in Addr |-> reg2[b]]
      /\ reg2[a] = {Frozen(p) : p \in reg[a]}
      /\ \A b \in Addr : b # a => reg2[b] = reg[b]
  BY <1>1
\* Every package is there as it was, or frozen.
<1>3. \A b \in Addr : \A q \in reg[b] : q \in reg2[b] \/ Frozen(q) \in reg2[b]
  BY <1>2
<1>4. \A b \in Addr : \A s \in reg2[b] : \E q \in reg[b] : s = q \/ s = Frozen(q)
  BY <1>2
<1>5. \A b \in Addr : \A q \in reg[b] :
        /\ Package(q) /\ Package(Frozen(q))
        /\ Frozen(q).name = q.name /\ Frozen(q).modules = q.modules
        /\ Frozen(q).deps = q.deps
  BY Freezing DEF TxnOK, WellFormed
<1>6. WellFormed(reg2)
  <2>1. ASSUME NEW b \in Addr, NEW s \in reg2[b], NEW t \in reg2[b], s # t
        PROVE  s.name # t.name /\ s.modules \cap t.modules = {}
    <3>1. CASE b # a
      BY <1>2, <2>1, <3>1 DEF TxnOK, WellFormed
    <3>2. CASE b = a
      <4>1. PICK p \in reg[a] : s = Frozen(p)
        BY <1>2, <3>2
      <4>2. PICK q \in reg[a] : t = Frozen(q)
        BY <1>2, <3>2
      <4>3. p # q
        BY <2>1, <4>1, <4>2
      <4>4. p.name # q.name /\ p.modules \cap q.modules = {}
        BY <4>3 DEF TxnOK, WellFormed
      <4> QED  BY <1>5, <4>1, <4>2, <4>4
    <3> QED  BY <3>1, <3>2
  <2>2. \A b \in Addr : \A s \in reg2[b] : Package(s)
    BY <1>4, <1>5
  <2> QED  BY <2>1, <2>2 DEF WellFormed
<1>7. \A b \in Addr : \A p \in registry[b] : \E s \in reg2[b] : Becomes(r, b, p, s)
  <2> SUFFICES ASSUME NEW b \in Addr, NEW p \in registry[b]
               PROVE  \E s \in reg2[b] : Becomes(r, b, p, s)
    OBVIOUS
  <2>1. PICK q \in reg[b] : Becomes(r, b, p, q)
    BY DEF TxnOK
  <2>2. Package(p) /\ Package(q)
    BY <1>5 DEF WellFormed
  <2>3. Becomes(r, b, p, Frozen(q))
    BY <2>1, <2>2, FrozenToo
  <2> QED  BY <1>3, <2>1, <2>3
<1>8. \A b \in Addr : \A s \in reg2[b] :
        \/ \E p \in registry[b] : Becomes(r, b, p, s)
        \/ Requested(r, b) /\ s.modules = r.expected_modules
  <2> SUFFICES ASSUME NEW b \in Addr, NEW s \in reg2[b]
               PROVE  \/ \E p \in registry[b] : Becomes(r, b, p, s)
                      \/ Requested(r, b) /\ s.modules = r.expected_modules
    OBVIOUS
  <2>1. PICK q \in reg[b] : s = q \/ s = Frozen(q)
    BY <1>4
  <2>2. CASE Requested(r, b) /\ q.modules = r.expected_modules
    BY <1>5, <2>1, <2>2
  <2>3. CASE \E p \in registry[b] : Becomes(r, b, p, q)
    <3>1. PICK p \in registry[b] : Becomes(r, b, p, q)
      BY <2>3
    <3>2. Becomes(r, b, p, Frozen(q))
      BY <1>5, <3>1, FrozenToo DEF WellFormed
    <3> QED  BY <2>1, <3>1, <3>2
  <2> QED  BY <2>2, <2>3 DEF TxnOK
<1>9. ASSUME r # None  PROVE RequestOK(reg2, r)
  <2>1. RequestOK(reg, r)
    BY <1>9 DEF TxnOK
  <2> DEFINE d == r.destination
  <2>2. PICK q \in reg[d] : /\ q.modules = r.expected_modules
                            /\ \A id \in r.allowed_deps : Declares(reg, d, q, id)
    BY <2>1 DEF RequestOK
  <2>3. d \in Addr
    BY <2>1 DEF RequestOK
  <2>4. ASSUME NEW s, s = q \/ s = Frozen(q), NEW id, Declares(reg, d, q, id)
        PROVE  Declares(reg2, d, s, id)
    <3>1. s.modules = q.modules /\ s.deps = q.deps
      BY <1>5, <2>3, <2>4
    <3>2. \A b \in Addr : \A found \in reg[b] : \E f \in reg2[b] :
            f.name = found.name /\ f.modules = found.modules
      BY <1>3, <1>5
    <3> QED  BY <2>4, <3>1, <3>2 DEF Declares
  <2>5. PICK s \in reg2[d] : s = q \/ s = Frozen(q)
    BY <1>3, <2>3
  <2>6. s.modules = r.expected_modules /\ \A id \in r.allowed_deps : Declares(reg2, d, s, id)
    BY <1>5, <2>2, <2>3, <2>4, <2>5
  <2> QED  BY <2>1, <2>6 DEF RequestOK
<1> QED  BY <1>2, <1>6, <1>7, <1>8, <1>9 DEF TxnOK
-----------------------------------------------------------------------------
(* Committing.                                                             *)

\* The transaction that commits publishes the module id.
Publishes(id) == txn.request # None /\ \E b \in txn.request.bundle : b.id = id

\* A commit publishes verified modules of the package requested, and no others.
LEMMA CommitPublishes ==
  ASSUME PackagesIInv, Commit
  PROVE  /\ TxnOK(txn.registry, txn.request)
         /\ registry' = txn.registry /\ txn' = NoTxn /\ features' = features
         /\ code' = [id \in ModuleId |-> code'[id]]
         /\ \A id \in ModuleId : ~Publishes(id) => code'[id] = code[id]
         /\ \A id \in ModuleId : Publishes(id) =>
              /\ txn.request # None /\ code'[id] \in txn.request.bundle
              /\ code'[id].id = id /\ code'[id] # NoModule
         /\ \A a \in Addr, n \in ModuleName : Publishes(<<a, n>>) <=>
              Requested(txn.request, a) /\ n \in txn.request.expected_modules
         /\ txn.request # None => /\ Verifies(txn.request)
                                  /\ txn.request.expected_modules \subseteq ModuleName
<1> DEFINE r == txn.request
           after(id) == IF Publishes(id) THEN CHOOSE b \in r.bundle : b.id = id ELSE code[id]
<1>1. TxnOK(txn.registry, r) /\ registry' = txn.registry /\ txn' = NoTxn /\ features' = features
  BY DEF Commit, PackagesIInv
<1>2. code' = [id \in ModuleId |-> after(id)]
  BY DEF Commit, Publishes
<1>3. r # None => Verifies(r) /\ RequestOK(txn.registry, r)
  BY <1>1 DEF Commit, TxnOK
<1>4. \A id \in ModuleId : code'[id] = after(id)
  BY <1>2
<1>5. code' = [id \in ModuleId |-> code'[id]]
  BY <1>2, <1>4
<1>6. \A id \in ModuleId : ~Publishes(id) => code'[id] = code[id]
  BY <1>4
<1>7. ASSUME NEW id \in ModuleId, Publishes(id)
      PROVE  r # None /\ code'[id] \in r.bundle /\ code'[id].id = id /\ code'[id] # NoModule
  <2>1. r # None /\ \E b \in r.bundle : b.id = id
    BY <1>7 DEF Publishes
  <2>2. code'[id] \in r.bundle /\ code'[id].id = id
    BY <1>4, <1>7, <2>1
  <2>3. \A b \in r.bundle : b # NoModule
    BY <1>3, <2>1 DEF RequestOK
  <2> QED  BY <2>1, <2>2, <2>3
<1>8. ASSUME r # None
      PROVE  /\ r.expected_modules = {b.id[2] : b \in r.bundle}
             /\ \A b \in r.bundle : /\ b.id = <<r.destination, b.id[2]>>
                                    /\ b.id[2] \in ModuleName
  <2>1. Names(r.bundle) = r.expected_modules /\ \A b \in r.bundle : b.id[1] = r.destination
    BY <1>3, <1>8 DEF Verifies
  <2>2. \A b \in r.bundle : b.id = <<b.id[1], b.id[2]>> /\ b.id[2] \in ModuleName
    BY <1>3, <1>8 DEF RequestOK
  <2> QED  BY <2>1, <2>2 DEF Names
<1>9. ASSUME NEW a \in Addr, NEW n \in ModuleName
      PROVE  Publishes(<<a, n>>) <=> Requested(r, a) /\ n \in r.expected_modules
  <2>1. CASE r = None
    BY <2>1 DEF Publishes, Requested
  <2>2. CASE r # None
    <3>1. ASSUME Publishes(<<a, n>>)  PROVE Requested(r, a) /\ n \in r.expected_modules
      <4>1. PICK b \in r.bundle : b.id = <<a, n>>
        BY <3>1 DEF Publishes
      <4>2. b.id[1] = r.destination /\ b.id[1] = a /\ b.id[2] = n
        BY <1>8, <2>2, <4>1
      <4> QED  BY <1>8, <2>2, <4>1, <4>2 DEF Requested
    <3>2. ASSUME Requested(r, a), n \in r.expected_modules  PROVE Publishes(<<a, n>>)
      <4>1. PICK b \in r.bundle : b.id[2] = n
        BY <1>8, <2>2, <3>2
      <4>2. b.id = <<a, n>>
        BY <1>8, <2>2, <3>2, <4>1 DEF Requested
      <4> QED  BY <2>2, <4>2 DEF Publishes
    <3> QED  BY <3>1, <3>2
  <2> QED  BY <2>1, <2>2
<1>10. r # None => r.expected_modules \subseteq ModuleName
  BY <1>8
<1> QED  BY <1>1, <1>3, <1>5, <1>6, <1>7, <1>9, <1>10

\* The modules of a published package are published.
LEMMA PackagesAreCode ==
  ASSUME RegistryMatchesCode, NEW a \in Addr, NEW p \in registry[a], NEW n \in p.modules
  PROVE  n \in ModuleName /\ code[<<a, n>>] # NoModule
<1>1. n \in UNION {q.modules : q \in registry[a]}
  OBVIOUS
<1> QED  BY <1>1 DEF RegistryMatchesCode

\* What was published before is published after.
LEMMA CommitAdds ==
  ASSUME PackagesIInv, Commit, NEW a \in Addr, NEW p \in registry[a]
  PROVE  \E q \in registry'[a] :
           /\ Becomes(txn.request, a, p, q) /\ q.name = p.name /\ p.modules \subseteq q.modules
<1>1. TxnOK(txn.registry, txn.request) /\ registry' = txn.registry
  BY CommitPublishes
<1>2. PICK q \in registry'[a] : Becomes(txn.request, a, p, q)
  BY <1>1 DEF TxnOK
<1>3. Package(p)
  BY DEF PackagesIInv, RegistryMatchesCode
<1>4. q.name = p.name /\ p.modules \subseteq q.modules
  BY <1>2, <1>3, BecomesKeeps
<1> QED  BY <1>2, <1>4

\* Registries and code go on agreeing.
LEMMA CommitMatches ==
  ASSUME PackagesIInv, Commit
  PROVE  RegistryMatchesCode'
<1> DEFINE r == txn.request
<1>1. /\ TxnOK(txn.registry, r) /\ registry' = txn.registry
      /\ r # None => r.expected_modules \subseteq ModuleName
      /\ \A id \in ModuleId : ~Publishes(id) => code'[id] = code[id]
      /\ \A id \in ModuleId : Publishes(id) => code'[id] # NoModule
      /\ \A a \in Addr, n \in ModuleName :
           Publishes(<<a, n>>) <=> Requested(r, a) /\ n \in r.expected_modules
  BY CommitPublishes
<1>2. RegistryMatchesCode
  BY DEF PackagesIInv
<1>3. WellFormed(registry')
  BY <1>1 DEF TxnOK
<1>4. ASSUME NEW a \in Addr, NEW n, NEW q \in registry'[a], n \in q.modules
      PROVE  n \in ModuleName /\ code'[<<a, n>>] # NoModule
  <2>1. CASE Requested(r, a) /\ q.modules = r.expected_modules
    <3>1. n \in r.expected_modules /\ n \in ModuleName
      BY <1>1, <1>4, <2>1 DEF Requested
    <3>2. Publishes(<<a, n>>)
      BY <1>1, <2>1, <3>1
    <3> QED  BY <1>1, <3>1, <3>2 DEF ModuleId
  <2>2. CASE \E p \in registry[a] : KeptAs(r, a, p, q)
    <3>1. PICK p \in registry[a] : KeptAs(r, a, p, q)
      BY <2>2
    <3>2. p.modules = q.modules
      BY <1>2, <3>1, Freezing DEF KeptAs, RegistryMatchesCode
    <3>3. n \in ModuleName /\ code[<<a, n>>] # NoModule
      BY <1>2, <1>4, <3>2, PackagesAreCode
    <3> QED  BY <1>1, <3>3 DEF ModuleId
  <2> QED  BY <1>1, <2>1, <2>2 DEF TxnOK, Becomes, UpgradedTo
<1>5. ASSUME NEW a \in Addr, NEW n \in ModuleName, code'[<<a, n>>] # NoModule
      PROVE  \E q \in registry'[a] : n \in q.modules
  <2>1. CASE Publishes(<<a, n>>)
    <3>1. Requested(r, a) /\ n \in r.expected_modules
      BY <1>1, <2>1
    <3>2. \E q \in registry'[a] : q.modules = r.expected_modules
      BY <1>1, <3>1 DEF TxnOK, RequestOK, Requested
    <3> QED  BY <3>1, <3>2
  <2>2. CASE ~Publishes(<<a, n>>)
    <3>1. code[<<a, n>>] # NoModule
      BY <1>1, <1>5, <2>2 DEF ModuleId
    <3>2. n \in UNION {p.modules : p \in registry[a]}
      BY <1>2, <3>1 DEF RegistryMatchesCode
    <3>3. PICK p \in registry[a] : n \in p.modules
      BY <3>2
    <3> QED  BY <3>3, CommitAdds
  <2> QED  BY <2>1, <2>2
<1>6. ASSUME NEW a \in Addr
      PROVE  UNION {q.modules : q \in registry'[a]} =
               {n \in ModuleName : code'[<<a, n>>] # NoModule}
  BY <1>4, <1>5
<1> QED  BY <1>3, <1>6 DEF RegistryMatchesCode, WellFormed
\* A package counts up or is only frozen, and keeps what it promised.
LEMMA CommitUpgrades ==
  ASSUME PackagesIInv, Commit, NEW a \in Addr, NEW p \in registry[a]
  PROVE  \E q \in registry'[a] :
           /\ q.name = p.name
           /\ \/ q.upgrade_policy >= p.upgrade_policy
              \/ q.upgrade_policy = IMMUTABLE_POLICY
           /\ p.modules \subseteq q.modules
           /\ \A n \in p.modules : Compatible(code[<<a, n>>], code'[<<a, n>>])
           /\ \/ p.upgrade_policy < IMMUTABLE_POLICY /\ q.upgrade_number = p.upgrade_number + 1
              \/ /\ [q EXCEPT !.upgrade_policy = p.upgrade_policy] = p
                 /\ q.upgrade_policy \in {p.upgrade_policy, IMMUTABLE_POLICY}
                 /\ \A n \in p.modules : code'[<<a, n>>] = code[<<a, n>>]
<1> DEFINE r == txn.request
<1>1. /\ TxnOK(txn.registry, r) /\ registry' = txn.registry
      /\ \A id \in ModuleId : ~Publishes(id) => code'[id] = code[id]
      /\ \A id \in ModuleId : Publishes(id) =>
           r # None /\ code'[id] \in r.bundle /\ code'[id].id = id
      /\ \A b \in Addr, n \in ModuleName :
           Publishes(<<b, n>>) <=> Requested(r, b) /\ n \in r.expected_modules
      /\ r # None => Verifies(r)
  BY CommitPublishes
<1>2. PICK q \in registry'[a] : /\ Becomes(r, a, p, q)
                                /\ q.name = p.name /\ p.modules \subseteq q.modules
  BY CommitAdds
<1>3. Package(p) /\ \A n \in p.modules : n \in ModuleName
  BY PackagesAreCode DEF PackagesIInv, RegistryMatchesCode
<1>4. CASE KeptAs(r, a, p, q)
  <2>1. /\ q.modules = p.modules /\ [q EXCEPT !.upgrade_policy = p.upgrade_policy] = p
        /\ q.upgrade_policy \in {p.upgrade_policy, IMMUTABLE_POLICY}
    <3>1. CASE q = p
      BY <1>3, <3>1 DEF Package, IsPackage
    <3>2. CASE q = Frozen(p)
      BY <1>3, <3>2, Freezing
    <3> QED  BY <1>4, <3>1, <3>2 DEF KeptAs
  <2>2. ASSUME NEW n \in p.modules  PROVE code'[<<a, n>>] = code[<<a, n>>]
    <3>1. ~Publishes(<<a, n>>)
      BY <1>1, <1>3, <1>4, <2>1 DEF KeptAs
    <3> QED  BY <1>1, <1>3, <3>1 DEF ModuleId
  <2>3. \A n \in p.modules : Compatible(code[<<a, n>>], code'[<<a, n>>])
    BY <2>2 DEF Compatible
  <2>4. q.upgrade_policy >= p.upgrade_policy \/ q.upgrade_policy = IMMUTABLE_POLICY
    BY <1>3, <2>1 DEF Package
  <2> QED  BY <1>2, <2>1, <2>2, <2>3, <2>4
<1>5. CASE UpgradedTo(r, a, p, q)
  <2>1. ASSUME NEW n \in p.modules  PROVE Compatible(code[<<a, n>>], code'[<<a, n>>])
    <3>1. Publishes(<<a, n>>) /\ <<a, n>> \in ModuleId
      BY <1>1, <1>3, <1>5 DEF UpgradedTo, ModuleId
    <3>2. r # None /\ code'[<<a, n>>] \in r.bundle /\ code'[<<a, n>>].id = <<a, n>>
      BY <1>1, <3>1
    <3>3. r.check_compat
      BY <1>1, <3>2 DEF TxnOK, RequestOK
    <3> QED  BY <1>1, <3>2, <3>3 DEF Verifies
  <2>2. q.upgrade_policy >= p.upgrade_policy
    <3>1. Package(q)
      BY <1>1 DEF TxnOK, WellFormed
    <3> QED  BY <1>3, <1>5, <3>1 DEF UpgradedTo, Package
  <2>3. p.upgrade_policy < IMMUTABLE_POLICY /\ q.upgrade_number = p.upgrade_number + 1
    BY <1>5 DEF UpgradedTo
  <2> QED  BY <1>2, <2>1, <2>2, <2>3
<1> QED  BY <1>2, <1>4, <1>5 DEF Becomes

\* The package that a module is in.
LEMMA OwnerIs ==
  ASSUME NEW reg, WellFormed(reg), NEW a \in Addr, NEW p \in reg[a], NEW n \in p.modules
  PROVE  (CHOOSE q \in reg[a] : n \in q.modules) = p
<1>1. PICK one : one = CHOOSE q \in reg[a] : n \in q.modules
  OBVIOUS
<1>2. one \in reg[a] /\ n \in one.modules
  BY <1>1
<1>3. one = p
  BY <1>2, OnePackage
<1> QED  BY <1>1, <1>3

\* What exists goes on existing.
LEMMA CommitKeepsModules ==
  ASSUME PackagesIInv, Commit, NEW id,
         ModuleExists(id, IF txn.request = None THEN {} ELSE txn.request.bundle)
  PROVE  id \in CoreModules \/ (id \in ModuleId /\ code'[id] # NoModule)
<1> DEFINE r == txn.request
<1>1. /\ TxnOK(txn.registry, r)
      /\ \A x \in ModuleId : ~Publishes(x) => code'[x] = code[x]
      /\ \A x \in ModuleId : Publishes(x) => code'[x] # NoModule
      /\ r # None => Verifies(r)
  BY CommitPublishes
<1>2. CASE r # None /\ \E b \in r.bundle : b.id = id
  <2>1. PICK b \in r.bundle : b.id = id
    BY <1>2
  <2>2. /\ id = <<id[1], id[2]>> /\ id[1] = r.destination /\ r.destination \in Addr
        /\ id[2] \in ModuleName
    BY <1>1, <1>2, <2>1 DEF TxnOK, RequestOK, Verifies
  <2>3. id \in ModuleId /\ Publishes(id)
    BY <1>2, <2>2 DEF ModuleId, Publishes
  <2> QED  BY <1>1, <2>3
<1>3. CASE id \in ModuleId /\ code[id] # NoModule
  BY <1>1, <1>3
<1> QED  BY <1>2, <1>3 DEF ModuleExists
\* A module that is published now imports what its package declares.
LEMMA PublishedImports ==
  ASSUME PackagesIInv, Commit, "CODE_DEPENDENCY_CHECK" \in features,
         NEW id \in ModuleId, Publishes(id), NEW import \in code'[id].imports
  PROVE  \/ import[1] = id[1] /\ import[2] \in Owner(id)'.modules
         \/ \E dep \in Owner(id)'.deps :
              /\ dep.account = import[1]
              /\ import[1] \in Addr => Owner(import)'.name = dep.package_name
<1> DEFINE r == txn.request
           a == r.destination
<1>1. /\ TxnOK(txn.registry, r) /\ registry' = txn.registry
      /\ r # None /\ code'[id] \in r.bundle /\ code'[id].id = id
      /\ Verifies(r) /\ r.expected_modules \subseteq ModuleName
  BY CommitPublishes
<1>2. /\ RequestOK(registry', r) /\ WellFormed(registry')
  BY <1>1 DEF TxnOK
<1>3. id[1] = a /\ id[2] \in r.expected_modules /\ a \in Addr
  BY <1>1, <1>2 DEF Verifies, Names, RequestOK
<1>4. PICK q \in registry'[a] : /\ q.modules = r.expected_modules
                                /\ \A x \in r.allowed_deps : Declares(registry', a, q, x)
  BY <1>2 DEF RequestOK
<1>5. Owner(id)' = q
  BY <1>2, <1>3, <1>4, OwnerIs DEF Owner
<1>6. ASSUME NEW found, import[1] \in Addr, found \in registry'[import[1]],
             import[2] \in found.modules
      PROVE  Owner(import)' = found
  BY <1>2, <1>6, OwnerIs DEF Owner
<1>7. /\ import = <<import[1], import[2]>>
      /\ import \in r.allowed_deps \/ <<import[1], Wildcard>> \in r.allowed_deps
  BY <1>1, <1>2 DEF RequestOK, Verifies, Allowed
<1>8. CASE Declares(registry', a, q, import)
  <2>1. CASE import[1] = a /\ import[2] \in q.modules
    BY <1>3, <1>5, <2>1
  <2>2. ASSUME NEW dep \in q.deps, dep.account = import[1], import[1] \in Exempted
        PROVE  import[1] \notin Addr
    BY <2>2, PackagesAssumption
  <2>3. ASSUME NEW dep \in q.deps, dep.account = import[1], import[1] \in Addr,
               NEW found \in registry'[import[1]],
               found.name = dep.package_name, import[2] \in found.modules
        PROVE  Owner(import)'.name = dep.package_name
    BY <1>6, <2>3
  <2> QED  BY <1>5, <1>8, <2>1, <2>2, <2>3 DEF Declares
<1>9. CASE <<import[1], Wildcard>> \in r.allowed_deps
  <2>1. Declares(registry', a, q, <<import[1], Wildcard>>)
    BY <1>4, <1>9
  <2>2. Wildcard \notin q.modules
    BY <1>1, <1>4, PackagesAssumption
  <2>3. \A b \in Addr : \A found \in registry'[b] : Wildcard \notin found.modules
    <3>1. RegistryMatchesCode'
      BY CommitMatches
    <3>2. ASSUME NEW b \in Addr, NEW found \in registry'[b], Wildcard \in found.modules
          PROVE  FALSE
      <4>1. Wildcard \in UNION {p.modules : p \in registry'[b]}
        BY <3>2
      <4>2. Wildcard \in ModuleName
        BY <3>1, <4>1 DEF RegistryMatchesCode
      <4> QED  BY <4>2, PackagesAssumption
    <3> QED  BY <3>2
  <2>4. PICK dep \in q.deps : dep.account = import[1] /\ import[1] \in Exempted
    BY <2>1, <2>2, <2>3 DEF Declares
  <2>5. import[1] \notin Addr
    BY <2>4, PackagesAssumption
  <2> QED  BY <1>5, <2>4, <2>5
<1> QED  BY <1>4, <1>7, <1>8, <1>9

\* A module that is there already keeps its imports declared, as its package is not
\* changed, and theirs keep their names and modules.
LEMMA OldImports ==
  ASSUME PackagesIInv, Commit, "CODE_DEPENDENCY_CHECK" \in features,
         NEW id \in ModuleId, code[id] # NoModule, ~Publishes(id),
         NEW import \in code[id].imports
  PROVE  \/ import[1] = id[1] /\ import[2] \in Owner(id)'.modules
         \/ \E dep \in Owner(id)'.deps :
              /\ dep.account = import[1]
              /\ import[1] \in Addr => Owner(import)'.name = dep.package_name
<1> DEFINE r == txn.request
<1>1. /\ TxnOK(txn.registry, r) /\ registry' = txn.registry
      /\ \A b \in Addr, n \in ModuleName :
           Publishes(<<b, n>>) <=> Requested(r, b) /\ n \in r.expected_modules
  BY CommitPublishes
<1>2. WellFormed(registry) /\ WellFormed(registry') /\ RegistryMatchesCode
  BY <1>1 DEF TxnOK, PackagesIInv, RegistryMatchesCode, WellFormed
<1>3. ASSUME NEW x \in ModuleId, code[x] # NoModule
      PROVE  \E p \in registry[x[1]] : x[2] \in p.modules /\ Owner(x) = p
  <2>1. x[1] \in Addr /\ x[2] \in ModuleName /\ x = <<x[1], x[2]>>
    BY DEF ModuleId
  <2>2. x[2] \in UNION {p.modules : p \in registry[x[1]]}
    BY <1>2, <1>3, <2>1 DEF RegistryMatchesCode
  <2>3. PICK p \in registry[x[1]] : x[2] \in p.modules
    BY <2>2
  <2> QED  BY <1>2, <2>1, <2>3, OwnerIs DEF Owner
<1>4. PICK p \in registry[id[1]] : id[2] \in p.modules /\ Owner(id) = p
  BY <1>3
<1>5. id[1] \in Addr /\ id[2] \in ModuleName /\ id = <<id[1], id[2]>>
  BY DEF ModuleId
<1>6. PICK q \in registry'[id[1]] : /\ Becomes(r, id[1], p, q)
                                    /\ p.modules \subseteq q.modules
  BY <1>4, <1>5, CommitAdds
<1>7. q.modules = p.modules /\ q.deps = p.deps
  <2>1. Package(p)
    BY <1>2, <1>4, <1>5 DEF WellFormed
  <2>2. ~UpgradedTo(r, id[1], p, q)
    BY <1>1, <1>4, <1>5, <1>6 DEF UpgradedTo
  <2> QED  BY <1>6, <2>1, <2>2, Freezing DEF Becomes, KeptAs
<1>8. Owner(id)' = q
  BY <1>2, <1>4, <1>5, <1>7, OwnerIs DEF Owner
<1>9. /\ ModuleExists(import, {})
      /\ \/ import[1] = id[1] /\ import[2] \in Owner(id).modules
         \/ \E dep \in Owner(id).deps :
              /\ dep.account = import[1]
              /\ import[1] \in Addr => Owner(import).name = dep.package_name
  BY DEF PackagesIInv, ImportsAreDeclared
<1>10. ASSUME import[1] \in Addr
       PROVE  Owner(import)'.name = Owner(import).name
  <2>1. import \in ModuleId /\ code[import] # NoModule
    BY <1>9, <1>10, PackagesAssumption DEF ModuleExists
  <2>2. PICK s \in registry[import[1]] : import[2] \in s.modules /\ Owner(import) = s
    BY <1>3, <2>1
  <2>3. PICK t \in registry'[import[1]] : t.name = s.name /\ s.modules \subseteq t.modules
    BY <1>10, <2>2, CommitAdds
  <2>4. Owner(import)' = t
    BY <1>2, <1>10, <2>2, <2>3, OwnerIs DEF Owner
  <2> QED  BY <2>2, <2>3, <2>4
<1> QED  BY <1>4, <1>7, <1>8, <1>9, <1>10

\* So imports stay declared.
LEMMA CommitDeclares ==
  ASSUME PackagesIInv, Commit
  PROVE  ImportsAreDeclared'
<1>1. /\ features' = features
      /\ \A x \in ModuleId : ~Publishes(x) => code'[x] = code[x]
      /\ \A x \in ModuleId : Publishes(x) => txn.request # None /\ code'[x] \in txn.request.bundle
      /\ txn.request # None => Verifies(txn.request)
  BY CommitPublishes
<1> SUFFICES ASSUME "CODE_DEPENDENCY_CHECK" \in features,
                    NEW id \in ModuleId, code'[id] # NoModule, NEW import \in code'[id].imports
             PROVE  /\ ModuleExists(import, {})'
                    /\ \/ import[1] = id[1] /\ import[2] \in Owner(id)'.modules
                       \/ \E dep \in Owner(id)'.deps :
                            /\ dep.account = import[1]
                            /\ import[1] \in Addr => Owner(import)'.name = dep.package_name
  BY <1>1 DEF ImportsAreDeclared
<1>2. CASE Publishes(id)
  <2>1. ModuleExists(import, txn.request.bundle) /\ txn.request # None
    BY <1>1, <1>2 DEF Verifies
  <2>2. import \in CoreModules \/ (import \in ModuleId /\ code'[import] # NoModule)
    BY <2>1, CommitKeepsModules
  <2> QED  BY <1>2, <2>2, PublishedImports DEF ModuleExists
<1>3. CASE ~Publishes(id)
  <2>1. code'[id] = code[id]
    BY <1>1, <1>3
  <2>2. ModuleExists(import, {})
    BY <2>1 DEF PackagesIInv, ImportsAreDeclared
  <2>3. ModuleExists(import, IF txn.request = None THEN {} ELSE txn.request.bundle)
    BY <2>2 DEF ModuleExists
  <2>4. import \in CoreModules \/ (import \in ModuleId /\ code'[import] # NoModule)
    BY <2>3, CommitKeepsModules
  <2> QED  BY <1>3, <2>1, <2>4, OldImports DEF ModuleExists
<1> QED  BY <1>2, <1>3

\* What is published has been verified.
LEMMA CommitVerifies ==
  ASSUME PackagesIInv, Commit
  PROVE  Verified'
<1>1. /\ features' = features
      /\ \A x \in ModuleId : ~Publishes(x) => code'[x] = code[x]
      /\ \A x \in ModuleId : Publishes(x) => txn.request # None /\ code'[x] \in txn.request.bundle
      /\ txn.request # None => Verifies(txn.request)
  BY CommitPublishes
<1> SUFFICES ASSUME NEW id \in ModuleId, code'[id] # NoModule
             PROVE  VerifyModuleMetadata(code'[id], features)
  BY <1>1 DEF Verified
<1>2. CASE Publishes(id)
  BY <1>1, <1>2 DEF Verifies
<1>3. CASE ~Publishes(id)
  BY <1>1, <1>3 DEF PackagesIInv, Verified
<1> QED  BY <1>2, <1>3
-----------------------------------------------------------------------------
(* The invariant.                                                          *)

\* It holds when nothing is published.
LEMMA InvariantBegins == PackagesInit => PackagesIInv
<1> SUFFICES ASSUME PackagesInit  PROVE PackagesIInv
  OBVIOUS
<1>1. /\ registry = [a \in Addr |-> {}] /\ code = [id \in ModuleId |-> NoModule]
      /\ txn = NoTxn
  BY DEF PackagesInit
<1>2. \A id \in ModuleId : code[id] = NoModule
  BY <1>1
<1>3. \A a \in Addr : registry[a] = {}
  BY <1>1
<1>4. \A a \in Addr, n \in ModuleName : code[<<a, n>>] = NoModule
  BY <1>2 DEF ModuleId
<1>5. RegistryMatchesCode
  BY <1>3, <1>4 DEF RegistryMatchesCode
<1>6. ImportsAreDeclared /\ Verified
  BY <1>2 DEF ImportsAreDeclared, Verified
<1>7. /\ registry = [a \in Addr |-> registry[a]]
      /\ code = [id \in ModuleId |-> code[id]]
  BY <1>1
<1> QED  BY <1>1, <1>5, <1>6, <1>7 DEF PackagesIInv

\* A transaction that goes on with fitting registries and request keeps it.
LEMMA InvariantGoesOn ==
  ASSUME PackagesIInv, UNCHANGED <<features, registry, code>>,
         txn' = NoTxn \/ \E reg, r : txn' = [registry |-> reg, request |-> r] /\ TxnOK(reg, r)
  PROVE  PackagesIInv'
<1>1. RegistryMatchesCode' /\ ImportsAreDeclared' /\ Verified'
  <2>1. RegistryMatchesCode'
    BY DEF PackagesIInv, RegistryMatchesCode
  <2>2. ImportsAreDeclared'
    <3>1. \A id : Owner(id)' = Owner(id)
      BY DEF Owner
    <3>2. \A id : ModuleExists(id, {})' <=> ModuleExists(id, {})
      BY DEF ModuleExists
    <3> QED  BY <3>1, <3>2 DEF PackagesIInv, ImportsAreDeclared
  <2>3. Verified'
    BY DEF PackagesIInv, Verified
  <2> QED  BY <2>1, <2>2, <2>3
<1>2. /\ registry' = [a \in Addr |-> registry'[a]]
      /\ code' = [id \in ModuleId |-> code'[id]]
  BY DEF PackagesIInv
<1>3. CASE txn' = NoTxn
  BY <1>1, <1>2, <1>3 DEF PackagesIInv
<1>4. CASE \E reg, r : txn' = [registry |-> reg, request |-> r] /\ TxnOK(reg, r)
  <2>1. PICK reg, r : txn' = [registry |-> reg, request |-> r] /\ TxnOK(reg, r)
    BY <1>4
  <2>2. TxnOK(txn'.registry, txn'.request)
    BY <2>1
  <2>3. TxnOK(txn.registry, txn.request)'
    BY <2>2 DEF TxnOK, RequestOK
  <2> QED  BY <1>1, <1>2, <2>1, <2>3 DEF PackagesIInv
<1> QED  BY <1>3, <1>4

\* Every step keeps it.
LEMMA InvariantStep ==
  ASSUME PackagesIInv, [PackagesNext]_packageVars
  PROVE  PackagesIInv'
<1>1. TxnOK(Running.registry, Running.request)
  BY RunningOK
<1>2. WellFormed(registry)
  BY DEF PackagesIInv, RegistryMatchesCode, WellFormed
<1>3. CASE Publish
  <2>1. PICK p \in Publication :
          /\ \A old \in Running.registry[p.addr] : old.upgrade_number < MaxUpgrades
          /\ PublishPackage(p.addr, p.pack, p.bundle)
    BY <1>3 DEF Publish
  <2>2. CASE Publishable(Running.registry, p.addr, p.pack) /\ CanRequest(Running)
    <3> DEFINE reg == Upgraded(Running.registry, p.addr, p.pack)
               r == Request(Running.registry, p.addr, p.pack, p.bundle)
    <3>1. Continue([registry |-> reg, request |-> r])
      BY <2>1, <2>2 DEF PublishPackage
    <3>2. Running.request = None
      BY <2>2 DEF CanRequest
    <3>3. /\ p.addr \in Addr /\ IsPackage(p.pack) /\ p.pack.upgrade_policy \in Nat
          /\ \A b \in p.bundle :
               /\ b # NoModule /\ b.id = <<b.id[1], b.id[2]>> /\ b.id[2] \in ModuleName
               /\ \A id \in b.imports : id = <<id[1], id[2]>>
      BY PublicationAssumption
    <3>4. TxnOK(reg, r)
      BY <1>1, <1>2, <2>1, <2>2, <3>2, <3>3, PublishKeepsTxn
    <3> QED  BY <3>1, <3>4, InvariantGoesOn DEF Continue
  <2>3. CASE Abort
    BY <2>3, InvariantGoesOn DEF Abort
  <2> QED  BY <2>1, <2>2, <2>3 DEF PublishPackage
<1>4. CASE FreezeCodeObject
  <2>1. PICK a \in CodeObject :
          Continue([Running EXCEPT !.registry[a] = {Frozen(p) : p \in @}])
    BY <1>4 DEF FreezeCodeObject
  <2> DEFINE reg == [Running.registry EXCEPT ![a] = {Frozen(p) : p \in Running.registry[a]}]
  <2>2. a \in Addr
    BY PackagesAssumption
  <2>3. TxnOK(reg, Running.request)
    BY <1>1, <1>2, <2>2, FreezeKeepsTxn
  <2>4. Running = [registry |-> Running.registry, request |-> Running.request]
    BY DEF Running, PackagesIInv
  <2>5. [Running EXCEPT !.registry[a] = {Frozen(p) : p \in @}] =
          [registry |-> reg, request |-> Running.request]
    BY <2>4
  <2> HIDE DEF reg
  <2> QED  BY <2>1, <2>3, <2>5, InvariantGoesOn DEF Continue
<1>5. CASE Commit
  <2>1. /\ registry' = txn.registry /\ txn' = NoTxn /\ TxnOK(txn.registry, txn.request)
        /\ code' = [id \in ModuleId |-> code'[id]]
    BY <1>5, CommitPublishes
  <2>2. registry' = [a \in Addr |-> registry'[a]]
    BY <2>1 DEF TxnOK
  <2>3. RegistryMatchesCode' /\ ImportsAreDeclared' /\ Verified'
    BY <1>5, CommitMatches, CommitDeclares, CommitVerifies
  <2> QED  BY <2>1, <2>2, <2>3 DEF PackagesIInv
<1>6. CASE Discard
  BY <1>6, InvariantGoesOn DEF Discard, Abort
<1>7. CASE BuildPackage \/ UNCHANGED packageVars
  <2>1. UNCHANGED <<features, registry, code, txn>>
    BY <1>7 DEF BuildPackage, packageVars
  <2>2. txn # NoTxn => /\ txn' = [registry |-> txn.registry, request |-> txn.request]
                       /\ TxnOK(txn.registry, txn.request)
    BY <2>1 DEF PackagesIInv
  <2> QED  BY <2>1, <2>2, InvariantGoesOn
<1> QED  BY <1>3, <1>4, <1>5, <1>6, <1>7 DEF PackagesNext

\* Whatever transactions publish and freeze, the registries, the code and the request
\* of the running transaction fit each other.
THEOREM PackagesInvariant == PackagesSpec => []PackagesIInv
<1>1. PackagesInit => PackagesIInv
  BY InvariantBegins
<1>2. PackagesIInv /\ [PackagesNext]_packageVars => PackagesIInv'
  BY InvariantStep
<1> QED  BY <1>1, <1>2, PTL DEF PackagesSpec

-----------------------------------------------------------------------------
(* What follows.                                                           *)

\* At every address the registry lists exactly the published modules, each in one
\* package, however publishing and committing interleave (publish_package writes the
\* registry, the VM publishes later, from the one request).
THEOREM RegistryStaysTrue == PackagesSpec => []RegistryMatchesCode
<1>1. PackagesIInv => RegistryMatchesCode
  BY DEF PackagesIInv
<1> QED  BY <1>1, PackagesInvariant, PTL

\* With the dependency check, imports exist and are declared, whatever is upgraded
\* later (check_dependencies looks at the dependencies once, when publishing).
THEOREM ImportsStayDeclared == PackagesSpec => []ImportsAreDeclared
<1>1. PackagesIInv => ImportsAreDeclared
  BY DEF PackagesIInv
<1> QED  BY <1>1, PackagesInvariant, PTL

\* What the metadata of a published module says is true of the module
\* (verify_module_metadata; whatever the metadata is).
THEOREM AttributesStayTrue == PackagesSpec => []AttributesAreTrue
<1>1. ASSUME Verified  PROVE AttributesAreTrue
  <2>1. ASSUME "RESOURCE_GROUPS" \in features, NEW id \in ModuleId,
               code[id] # NoModule, code[id].version # 5,
               NEW meta, meta = Decoded(code[id].metadata), meta # None
        PROVE  AttributesFit(code[id], meta, features)
    <3>1. MetadataOf(code[id]) = meta
      BY <2>1 DEF MetadataOf
    <3> QED  BY <1>1, <2>1, <3>1 DEF Verified, VerifyModuleMetadata
  <2>2. ASSUME NEW module, NEW meta, AttributesFit(module, meta, features),
               NEW f \in DOMAIN meta.fun_attributes, DOMAIN meta.fun_attributes[f] # {}
        PROVE  f \in DOMAIN module.functions /\ module.functions[f] > 0
    BY <2>2 DEF AttributesFit, ValidViewFunction
  <2>3. ASSUME NEW module, NEW meta, AttributesFit(module, meta, features),
               NEW s \in DOMAIN meta.struct_attributes,
               NEW i \in DOMAIN meta.struct_attributes[s],
               NEW attr, attr = meta.struct_attributes[s][i]
        PROVE  /\ attr.kind = ResourceGroup =>
                    s \in DOMAIN module.structs /\ module.structs[s].abilities = {}
               /\ attr.kind = ResourceGroupMember =>
                    s \in DOMAIN module.structs /\ "key" \in module.structs[s].abilities
    BY <2>3 DEF AttributesFit, StructAttributeFits, IsGroup, IsMember, ValidResourceGroup,
                ValidResourceGroupMember, ResourceGroup, ResourceGroupMember, EventAttribute
  <2> QED  BY <2>1, <2>2, <2>3 DEF AttributesAreTrue, ResourceGroup, ResourceGroupMember
<1>2. PackagesIInv => AttributesAreTrue
  BY <1>1 DEF PackagesIInv
<1> QED  BY <1>2, PackagesInvariant, PTL

\* No transaction, however many calls it makes, takes away modules or public functions,
\* weakens a policy, or changes an immutable package
\* (check_upgradability sees the package when it is published, not when it commits).
THEOREM PromisesAreKept == PackagesSpec => UpgradesKeepPromises
<1> DEFINE kept(a, p, q) ==
      /\ q.name = p.name
      /\ \/ q.upgrade_policy >= p.upgrade_policy
         \/ q.upgrade_policy = IMMUTABLE_POLICY
      /\ p.modules \subseteq q.modules
      /\ \A n \in p.modules : Compatible(code[<<a, n>>], code'[<<a, n>>])
      /\ \/ p.upgrade_policy < IMMUTABLE_POLICY /\ q.upgrade_number = p.upgrade_number + 1
         \/ /\ [q EXCEPT !.upgrade_policy = p.upgrade_policy] = p
            /\ q.upgrade_policy \in {p.upgrade_policy, IMMUTABLE_POLICY}
            /\ \A n \in p.modules : code'[<<a, n>>] = code[<<a, n>>]
<1>1. ASSUME PackagesIInv, [PackagesNext]_packageVars
      PROVE  \A a \in Addr : \A p \in registry[a] : \E q \in registry'[a] : kept(a, p, q)
  <2> SUFFICES ASSUME NEW a \in Addr, NEW p \in registry[a]
               PROVE  \E q \in registry'[a] : kept(a, p, q)
    OBVIOUS
  <2>1. CASE Commit
    BY <1>1, <2>1, CommitUpgrades
  <2>2. CASE UNCHANGED <<registry, code>>
    <3>1. Package(p)
      BY <1>1 DEF PackagesIInv, RegistryMatchesCode
    <3>2. p.upgrade_policy >= p.upgrade_policy
      BY <3>1 DEF Package
    <3>3. [p EXCEPT !.upgrade_policy = p.upgrade_policy] = p
      BY <3>1 DEF Package, IsPackage
    <3>4. \A n \in p.modules : Compatible(code[<<a, n>>], code'[<<a, n>>])
      BY <2>2 DEF Compatible
    <3>5. kept(a, p, p)
      BY <2>2, <3>2, <3>3, <3>4
    <3>6. p \in registry'[a]
      BY <2>2
    <3> QED  BY <3>5, <3>6
  <2>3. Commit \/ UNCHANGED <<registry, code>>
    BY <1>1 DEF PackagesNext, Publish, PublishPackage, FreezeCodeObject, Discard, Abort,
                Continue, BuildPackage, packageVars
  <2> QED  BY <2>1, <2>2, <2>3
<1>2. PackagesIInv /\ [PackagesNext]_packageVars =>
        [\A a \in Addr : \A p \in registry[a] : \E q \in registry'[a] : kept(a, p, q)]_packageVars
  BY <1>1
<1> QED  BY <1>2, PackagesInvariant, PTL DEF PackagesSpec, UpgradesKeepPromises


-----------------------------------------------------------------------------
(* Aggregators: the invariant.                                             *)

\* The parts of a session.
History ==
  [max_achieved_positive_delta : Int, min_achieved_negative_delta : Int,
   min_overflow_positive_delta : Int \cup {NoBound},
   max_underflow_negative_delta : Int \cup {NoBound}]

Work ==
  [type : IntElement, max : Nat, agg : {Nothing} \cup DelayedField, base : Nat,
   history : History, exact : BOOLEAN, made : BOOLEAN, destroyed : BOOLEAN,
   snap : {Nothing} \cup DelayedField, snapRead : {Nothing} \cup Int,
   string : {Nothing} \cup DerivedString, ops : Nat]

\* A delta is one of those that were achieved.
Achieved(h, delta) ==
  h.min_achieved_negative_delta <= delta /\ delta <= h.max_achieved_positive_delta

\* The number in a session: within its bounds if it is known, and otherwise a delta to
\* that of the aggregator in storage.
NumberFits(a, w) ==
  w.agg # Nothing =>
    /\ w.agg.known => w.agg.value \in 0 .. w.max
    /\ ~w.agg.known =>
         /\ a # Nothing /\ ~w.destroyed /\ w.max = a.max
         /\ Achieved(w.history, w.agg.value)

\* The aggregator that was in storage, unless it was destroyed.
HasStored(a, w) == a # Nothing /\ ~w.destroyed

WorkOK(v, a, w) ==
  /\ w \in Work /\ w.max <= MaxOf[w.type]
  /\ NumberFits(a, w)
  /\ a # Nothing => w.base <= a.max
  /\ HasStored(a, w) => w.agg # Nothing /\ ~w.made
  /\ v = "v1" =>
       /\ w.type = "u128" /\ w.snap = Nothing /\ w.string = Nothing
       /\ HasStored(a, w) /\ w.agg.known => w.exact /\ Fits(w.history, w.base, a.max)
  /\ v = "v2" =>
       /\ HasStored(a, w) /\ Fits(w.history, w.base, a.max)
       /\ At(w.agg, w.base) \in 0 .. w.max

\* What the session learnt of the number, and whether the number b fits it.
FitsWork(w, b, max) == (w.exact => b = w.base) /\ Fits(w.history, b, max)

\* A plain session q that started from b holds what the session w holds.
HoldsAt(w, q, b) ==
  /\ q.agrees
  /\ w.agg # Nothing /\ q.value = At(w.agg, b)
  /\ w.snap # Nothing => q.snap = At(w.snap, b)
  /\ w.string # Nothing => q.string = StringAt(w.string, b)

\* It does if b fits what the session learnt; in version 1 it agrees only then.
Follows(v, max, w, q, b) ==
  /\ FitsWork(w, b, max) => HoldsAt(w, q, b)
  /\ v = "v1" /\ q.agrees /\ (w.exact => b = w.base) => Fits(w.history, b, max)

PlainSession(q) ==
  /\ q = [agrees |-> q.agrees, value |-> q.value, snap |-> q.snap, string |-> q.string]
  /\ q.agrees \in BOOLEAN

SessionOK(v, a, w, p) ==
  /\ WorkOK(v, a, w)
  /\ \A b \in Bases : PlainSession(p[b])
  /\ HasStored(a, w) => \A b \in 0 .. a.max : Follows(v, a.max, w, p[b], b)

\* The aggregator in storage.
StoredOK(v, a) ==
  /\ a \in {Nothing} \cup Aggregator
  /\ a # Nothing =>
       /\ a.value <= a.max /\ a.max <= MaxOf[a.type]
       /\ v = "v1" => a.type = "u128"
  /\ v = "v2" => a # Nothing

AggIInv ==
  /\ version \in {"v1", "v2"}
  /\ StoredOK(version, agg)
  /\ snap \in {Nothing} \cup Int
  /\ mode \in {"idle", "plain", "delayed"} /\ (version = "v1" => mode # "plain")
  /\ mode # "idle" => outcome = Nothing /\ SessionOK(version, agg, work, plain)

-----------------------------------------------------------------------------
(* Aggregators: what a session learns of the number.                       *)

\* A delta that stays within bounds is achieved, and what was is still.
LEMMA SuccessRecorded ==
  ASSUME NEW h \in History, NEW delta \in Int, NEW g, g = RecordSuccess(h, delta)
  PROVE  /\ g \in History /\ Achieved(g, delta)
         /\ \A x \in Int : Achieved(h, x) => Achieved(g, x)
         /\ \A b \in Int, max \in Int :
              Fits(g, b, max) <=> Fits(h, b, max) /\ b + delta <= max /\ b + delta >= 0
<1>1. /\ g \in History
      /\ g.max_achieved_positive_delta = Higher(h.max_achieved_positive_delta, delta)
      /\ g.min_achieved_negative_delta = Lower(h.min_achieved_negative_delta, delta)
      /\ g.min_overflow_positive_delta = h.min_overflow_positive_delta
      /\ g.max_underflow_negative_delta = h.max_underflow_negative_delta
  BY DEF RecordSuccess, History, Higher, Lower
<1>2. h.max_achieved_positive_delta \in Int /\ h.min_achieved_negative_delta \in Int
  BY DEF History
<1> QED  BY <1>1, <1>2 DEF Fits, Achieved, Higher, Lower

LEMMA OverflowRecorded ==
  ASSUME NEW h \in History, NEW delta \in Int, NEW g, g = RecordOverflow(h, delta)
  PROVE  /\ g \in History /\ \A x \in Int : Achieved(h, x) => Achieved(g, x)
         /\ \A b \in Int, max \in Int : Fits(g, b, max) <=> Fits(h, b, max) /\ b + delta > max
<1> DEFINE old == h.min_overflow_positive_delta
<1>1. /\ g \in History
      /\ g.max_achieved_positive_delta = h.max_achieved_positive_delta
      /\ g.min_achieved_negative_delta = h.min_achieved_negative_delta
      /\ g.min_overflow_positive_delta = IF old = NoBound THEN delta ELSE Lower(old, delta)
      /\ g.max_underflow_negative_delta = h.max_underflow_negative_delta
  BY DEF RecordOverflow, History, Lower
<1>2. old \in Int \cup {NoBound}
  BY DEF History
<1> HIDE DEF old
<1>3. g.min_overflow_positive_delta \in Int /\ g.min_overflow_positive_delta # NoBound
  BY <1>1, <1>2, NoBoundAssumption DEF Lower
<1> QED  BY <1>1, <1>2, <1>3 DEF Fits, Achieved, Lower, old

LEMMA UnderflowRecorded ==
  ASSUME NEW h \in History, NEW delta \in Int, NEW g, g = RecordUnderflow(h, delta)
  PROVE  /\ g \in History /\ \A x \in Int : Achieved(h, x) => Achieved(g, x)
         /\ \A b \in Int, max \in Int : Fits(g, b, max) <=> Fits(h, b, max) /\ b + delta < 0
<1> DEFINE old == h.max_underflow_negative_delta
<1>1. /\ g \in History
      /\ g.max_achieved_positive_delta = h.max_achieved_positive_delta
      /\ g.min_achieved_negative_delta = h.min_achieved_negative_delta
      /\ g.max_underflow_negative_delta = IF old = NoBound THEN delta ELSE Higher(old, delta)
      /\ g.min_overflow_positive_delta = h.min_overflow_positive_delta
  BY DEF RecordUnderflow, History, Higher
<1>2. old \in Int \cup {NoBound}
  BY DEF History
<1> HIDE DEF old
<1>3. g.max_underflow_negative_delta \in Int /\ g.max_underflow_negative_delta # NoBound
  BY <1>1, <1>2, NoBoundAssumption DEF Higher
<1> QED  BY <1>1, <1>2, <1>3 DEF Fits, Achieved, Higher, old

\* After a try, the numbers that fit are those with the same outcome.
LEMMA TryRecorded ==
  ASSUME NEW h \in History, NEW n \in Int, NEW delta \in Int, NEW max \in Nat,
         NEW g, g = Tried(h, n, delta, max)
  PROVE  /\ g \in History /\ \A x \in Int : Achieved(h, x) => Achieved(g, x)
         /\ n + delta \in 0 .. max => Achieved(g, delta)
         /\ Fits(h, n, max) => Fits(g, n, max)
         /\ \A b \in Int : Fits(g, b, max) =>
              /\ Fits(h, b, max)
              /\ (b + delta < 0) <=> (n + delta < 0)
              /\ (b + delta > max) <=> (n + delta > max)
<1>1. CASE n + delta > max
  <2>1. g = RecordOverflow(h, delta)
    BY <1>1 DEF Tried
  <2> QED  BY <1>1, <2>1, OverflowRecorded
<1>2. CASE ~(n + delta > max) /\ n + delta < 0
  <2>1. g = RecordUnderflow(h, delta)
    BY <1>2 DEF Tried
  <2> QED  BY <1>2, <2>1, UnderflowRecorded
<1>3. CASE ~(n + delta > max) /\ ~(n + delta < 0)
  <2>1. g = RecordSuccess(h, delta)
    BY <1>3 DEF Tried
  <2>2. /\ g \in History /\ Achieved(g, delta)
        /\ \A x \in Int : Achieved(h, x) => Achieved(g, x)
        /\ \A b \in Int : Fits(g, b, max) <=> Fits(h, b, max) /\ b + delta <= max /\ b + delta >= 0
    BY <2>1, SuccessRecorded
  <2> QED  BY <1>3, <2>2
<1> QED  BY <1>1, <1>2, <1>3

LEMMA TriedIsHistory ==
  ASSUME NEW h \in History, NEW n \in Int, NEW delta \in Int, NEW max \in Nat
  PROVE  Tried(h, n, delta, max) \in History
BY SuccessRecorded, OverflowRecorded, UnderflowRecorded DEF Tried

LEMMA NothingLearnt ==
  /\ EmptyHistory \in History /\ Achieved(EmptyHistory, 0)
  /\ \A b \in Int, max \in Int : Fits(EmptyHistory, b, max) <=> b \in 0 .. max
BY NoBoundAssumption DEF EmptyHistory, History, Achieved, Fits

-----------------------------------------------------------------------------
(* The builder.                                                            *)

\* What the last build came to: nothing more is needed for the invariant.
BuildsIInv == features \in FeatureSets /\ BuildsAreAccepted

LEMMA RuntimeMetadataIs ==
  ASSUME NEW source
  PROVE  /\ IsV1(RuntimeMetadata(source))
         /\ RuntimeMetadata(source).error_map = ErrorMap(source)
BY DEF IsV1, RuntimeMetadata

\* One section of metadata is read back.
LEMMA SectionIsRead ==
  ASSUME NEW key \in {ENDLESS_METADATA_KEY, ENDLESS_METADATA_KEY_V1}, NEW bytes
  PROVE  Decoded(<<[key |-> key, value |-> bytes]>>) = Deserialize(bytes, key)
<1> DEFINE sections == <<[key |-> key, value |-> bytes]>>
<1>1. DOMAIN sections = {1} /\ sections[1].key = key /\ sections[1].value = bytes
  OBVIOUS
<1> HIDE DEF sections
<1>2. /\ Section(sections, key) = {1}
      /\ \A k : k # key => Section(sections, k) = {}
  BY <1>1 DEF Section
<1>3. Min({1}) = 1
  BY DEF Min
<1>4. FirstOf(sections, key) = bytes
  BY <1>1, <1>2, <1>3 DEF FirstOf
<1>5. ENDLESS_METADATA_KEY # ENDLESS_METADATA_KEY_V1
  BY DEF ENDLESS_METADATA_KEY, ENDLESS_METADATA_KEY_V1
<1>6. Decoded(sections) = Deserialize(FirstOf(sections, key), key)
  BY <1>2, <1>5 DEF Decoded
<1> QED  BY <1>4, <1>6 DEF sections

\* What is in the bytecode is what the checks found, or of it the errors only.
LEMMA BuildIsDecoded ==
  ASSUME NEW source, NEW format, NEW module, module = Build(source, format),
         NEW meta, meta = RuntimeMetadata(source)
  PROVE  /\ FormatFits(module)
         /\ IsEmpty(meta) => Decoded(module.metadata) = None
         /\ ~IsEmpty(meta) => /\ Decoded(module.metadata) \in {meta, Upgrade(Downgrade(meta))}
                              /\ Decoded(module.metadata) # None
                              /\ Decoded(module.metadata).error_map = meta.error_map
<1>1. module.metadata = Inject(meta, format)
  BY DEF Build, Compiled
<1>2. IsV1(meta) /\ IsV0(Downgrade(meta))
  BY RuntimeMetadataIs DEF IsV0, Downgrade
<1>3. meta # None /\ Upgrade(Downgrade(meta)) # None
      /\ Upgrade(Downgrade(meta)).error_map = meta.error_map
  BY <1>2 DEF IsV1, None, Upgrade, Downgrade
<1>4. CASE IsEmpty(meta)
  <2>1. module.metadata = <<>>
    BY <1>1, <1>4 DEF Inject
  <2>2. \A k : Section(<<>>, k) = {}
    BY DEF Section
  <2>3. Decoded(<<>>) = None
    BY <2>2 DEF Decoded
  <2> QED  BY <1>4, <2>1, <2>3 DEF FormatFits
<1>5. CASE ~IsEmpty(meta)
  <2>1. PICK key \in {ENDLESS_METADATA_KEY, ENDLESS_METADATA_KEY_V1},
            bytes \in {meta, Downgrade(meta)} :
          /\ module.metadata = <<[key |-> key, value |-> bytes]>>
          /\ Deserialize(bytes, key) \in {meta, Upgrade(Downgrade(meta))}
    <3>1. CASE format >= METADATA_V1_MIN_FILE_FORMAT_VERSION
      <4>1. module.metadata = <<[key |-> ENDLESS_METADATA_KEY_V1, value |-> meta]>>
        BY <1>1, <1>5, <3>1 DEF Inject
      <4>2. Deserialize(meta, ENDLESS_METADATA_KEY_V1) = meta
        BY <1>2 DEF Deserialize
      <4> QED  BY <4>1, <4>2
    <3>2. CASE ~(format >= METADATA_V1_MIN_FILE_FORMAT_VERSION)
      <4>1. module.metadata = <<[key |-> ENDLESS_METADATA_KEY, value |-> Downgrade(meta)]>>
        BY <1>1, <1>5, <3>2 DEF Inject
      <4>2. Deserialize(Downgrade(meta), ENDLESS_METADATA_KEY) = Upgrade(Downgrade(meta))
        BY <1>2 DEF Deserialize, ENDLESS_METADATA_KEY, ENDLESS_METADATA_KEY_V1
      <4> QED  BY <4>1, <4>2
    <3> QED  BY <3>1, <3>2
  <2>2. Decoded(module.metadata) = Deserialize(bytes, key)
    BY <2>1, SectionIsRead
  <2>3. FormatFits(module)
    <3>1. /\ Len(module.metadata) = 1 /\ DOMAIN module.metadata = {1}
          /\ module.metadata[1].key = key /\ module.metadata[1].value = bytes
      BY <2>1
    <3>2. Deserialize(bytes, key) # None
      BY <1>3, <2>1
    <3> QED  BY <3>1, <3>2 DEF FormatFits
  <2> QED  BY <1>3, <1>5, <2>1, <2>2, <2>3
<1> QED  BY <1>4, <1>5

\* The attributes of a struct are of the three kinds, each from its own.
LEMMA StructAttributesAre ==
  ASSUME NEW s, NEW i \in DOMAIN StructAttributes(s), NEW attr, attr = StructAttributes(s)[i]
  PROVE  \/ /\ HasAttribute(s, "resource_group")
            /\ attr = KnownAttribute(ResourceGroup, << <<GetResourceGroup(s)>> >>)
         \/ /\ HasAttribute(s, "resource_group_member")
            /\ attr = KnownAttribute(ResourceGroupMember,
                        <<Applied(s, "resource_group_member")[1].args[1].value>>)
         \/ HasAttribute(s, "event") /\ attr = KnownAttribute(EventAttribute, <<>>)
<1>1. PICK x, y, z :
        /\ x = KnownAttribute(ResourceGroup, << <<GetResourceGroup(s)>> >>)
        /\ y = KnownAttribute(ResourceGroupMember,
                 <<Applied(s, "resource_group_member")[1].args[1].value>>)
        /\ z = KnownAttribute(EventAttribute, <<>>)
  OBVIOUS
<1> DEFINE a == IF HasAttribute(s, "resource_group") THEN <<x>> ELSE <<>>
           b == IF HasAttribute(s, "resource_group_member") THEN <<y>> ELSE <<>>
           c == IF HasAttribute(s, "event") THEN <<z>> ELSE <<>>
           U == {v \in {x, y, z} : \/ v = x /\ HasAttribute(s, "resource_group")
                                   \/ v = y /\ HasAttribute(s, "resource_group_member")
                                   \/ v = z /\ HasAttribute(s, "event")}
<1>2. /\ a = <<>> \/ (a = <<x>> /\ x \in U)
      /\ b = <<>> \/ (b = <<y>> /\ y \in U)
      /\ c = <<>> \/ (c = <<z>> /\ z \in U)
  OBVIOUS
<1>3. StructAttributes(s) = a \o b \o c
  BY <1>1 DEF StructAttributes
<1> HIDE DEF a, b, c, U
<1>4. a \in Seq(U) /\ b \in Seq(U) /\ c \in Seq(U)
  <2>1. <<>> \in Seq(U) /\ \A v \in U : <<v>> \in Seq(U)
    OBVIOUS
  <2> QED  BY <1>2, <2>1
<1>5. StructAttributes(s) \in Seq(U)
  <2>1. a \o b \in Seq(U)
    BY <1>4
  <2>2. (a \o b) \o c \in Seq(U)
    BY <1>4, <2>1
  <2> QED  BY <1>3, <2>2
<1>6. attr \in U
  BY <1>5
<1> QED  BY <1>1, <1>6 DEF U

\* What the builder records of a module without errors is what the chain asks for.
LEMMA AttributesAreAccepted ==
  ASSUME NEW source \in Sources, NEW format, NEW module, module = Build(source, format),
         ~Diagnosed(source), ~InlineView(source),
         NEW meta, meta = RuntimeMetadata(source),
         NEW enabled, {"RESOURCE_GROUPS", "MODULE_EVENT"} \subseteq enabled
  PROVE  AttributesFit(module, meta, enabled)
<1>1. ASSUME NEW fun \in DOMAIN meta.fun_attributes, NEW i \in DOMAIN meta.fun_attributes[fun]
      PROVE  /\ IsViewFunction(meta.fun_attributes[fun][i])
             /\ ValidViewFunction(module, fun)
  <2>1. /\ fun \in DOMAIN source.functions /\ HasAttribute(source.functions[fun], "view")
        /\ meta.fun_attributes[fun] = <<KnownAttribute(ViewFunction, <<>>)>>
    BY DEF RuntimeMetadata
  <2>2. meta.fun_attributes[fun][i] = KnownAttribute(ViewFunction, <<>>)
    BY <2>1
  <2>3. IsViewFunction(meta.fun_attributes[fun][i])
    BY <2>2 DEF IsViewFunction, KnownAttribute
  <2>4. ~source.functions[fun].inline
    BY <2>1 DEF InlineView
  <2>5. source.functions[fun].returns > 0
    BY <2>1 DEF Diagnosed, ViewFits
  <2>6. fun \in DOMAIN module.functions /\ module.functions[fun] = source.functions[fun].returns
    BY <2>1, <2>4 DEF Build, Compiled
  <2> QED  BY <2>3, <2>5, <2>6 DEF ValidViewFunction
<1>2. ASSUME NEW name \in DOMAIN meta.struct_attributes,
             NEW i \in DOMAIN meta.struct_attributes[name]
      PROVE  StructAttributeFits(module, name, meta.struct_attributes[name][i], enabled)
  <2> DEFINE s == source.structs[name]
             attr == meta.struct_attributes[name][i]
  <2>1. name \in DOMAIN source.structs /\ meta.struct_attributes[name] = StructAttributes(s)
    BY DEF RuntimeMetadata
  <2>2. /\ name \in DOMAIN module.structs
        /\ module.structs[name].abilities = s.abilities
        /\ module.structs[name].type_params = s.type_params
        /\ module.structs[name].fields = s.fields
    BY <2>1 DEF Build, Compiled
  <2>3. i \in DOMAIN StructAttributes(s) /\ attr = StructAttributes(s)[i]
    BY <2>1
  <2>4. s.fields # {}
    BY <2>1, SourceAssumption
  <2>5. /\ HasAttribute(s, "resource_group") => GroupFits(s)
        /\ HasAttribute(s, "resource_group_member") => MemberFits(source, s)
    BY <2>1 DEF Diagnosed
  <2> HIDE DEF attr, s
  <2>6. CASE /\ HasAttribute(s, "resource_group")
             /\ attr = KnownAttribute(ResourceGroup, << <<GetResourceGroup(s)>> >>)
    <3> DEFINE argument == Applied(s, "resource_group")[1].args[1].value
    <3>1. /\ s.fields \subseteq {"dummy_field"} /\ s.abilities = {} /\ s.type_params = 0
          /\ ParsesAsScope(argument)
      BY <2>5, <2>6 DEF GroupFits
    <3>2. GetResourceGroup(s) = argument[Len(argument)]
      BY <2>5, <2>6 DEF GetResourceGroup
    <3>3. GetResourceGroup(s) \in Scopes
      BY <3>1, <3>2 DEF ParsesAsScope
    <3>4. ParsesAsScope(<<GetResourceGroup(s)>>)
      BY <3>3 DEF ParsesAsScope
    <3>5. IsGroup(attr)
      BY <2>6, <3>4 DEF IsGroup, KnownAttribute
    <3>6. Cardinality(s.fields) = 1
      <4>1. s.fields = {"dummy_field"}
        BY <2>4, <3>1
      <4> QED  BY <4>1, FS_Singleton
    <3>7. ValidResourceGroup(module, name)
      BY <2>2, <3>1, <3>6 DEF ValidResourceGroup
    <3> QED  BY <3>5, <3>7 DEF StructAttributeFits, attr
  <2>7. CASE /\ HasAttribute(s, "resource_group_member")
             /\ attr = KnownAttribute(ResourceGroupMember,
                         <<Applied(s, "resource_group_member")[1].args[1].value>>)
    <3> DEFINE argument == Applied(s, "resource_group_member")[1].args[1].value
    <3>1. "key" \in s.abilities /\ Container(source, argument) # None
      BY <2>5, <2>7 DEF MemberFits
    <3> HIDE DEF argument
    <3>2. Len(argument) = 3
      BY <3>1 DEF Container
    <3>3. IsMember(attr)
      BY <2>7, <3>2 DEF IsMember, KnownAttribute, argument
    <3>4. ValidResourceGroupMember(module, name)
      BY <2>2, <3>1 DEF ValidResourceGroupMember
    <3> QED  BY <3>3, <3>4 DEF StructAttributeFits, attr
  <2>8. CASE HasAttribute(s, "event") /\ attr = KnownAttribute(EventAttribute, <<>>)
    BY <2>8 DEF StructAttributeFits, KnownAttribute, attr
  <2>9. \/ /\ HasAttribute(s, "resource_group")
           /\ attr = KnownAttribute(ResourceGroup, << <<GetResourceGroup(s)>> >>)
        \/ /\ HasAttribute(s, "resource_group_member")
           /\ attr = KnownAttribute(ResourceGroupMember,
                       <<Applied(s, "resource_group_member")[1].args[1].value>>)
        \/ HasAttribute(s, "event") /\ attr = KnownAttribute(EventAttribute, <<>>)
    BY <2>3, StructAttributesAre
  <2> QED  BY <2>6, <2>7, <2>8, <2>9
<1> QED  BY <1>1, <1>2 DEF AttributesFit

LEMMA BuildIsVerified ==
  ASSUME NEW source \in Sources, NEW format, NEW module, module = Build(source, format),
         ~Diagnosed(source), ~InlineView(source),
         NEW enabled, {"RESOURCE_GROUPS", "MODULE_EVENT"} \subseteq enabled
  PROVE  VerifyModuleMetadata(module, enabled)
<1> DEFINE meta == RuntimeMetadata(source)
<1>1. WithinBudget(module)
  BY SourceAssumption DEF WithinBudget, Build, Compiled
<1>2. /\ FormatFits(module)
      /\ Decoded(module.metadata) \in {None, meta, Upgrade(Downgrade(meta))}
  BY BuildIsDecoded
<1>3. AttributesFit(module, meta, enabled)
  BY AttributesAreAccepted
<1> HIDE DEF meta
<1>4. \A m : AttributesFit(module, Upgrade(m), enabled)
  BY DEF Upgrade, AttributesFit
<1>5. MetadataOf(module) \in {None, meta} \cup {Upgrade(meta), Upgrade(Downgrade(meta)),
                              Upgrade(Upgrade(Downgrade(meta)))}
  BY <1>2 DEF MetadataOf
<1>6. MetadataOf(module) # None => AttributesFit(module, MetadataOf(module), enabled)
  BY <1>3, <1>4, <1>5
<1> QED  BY <1>1, <1>2, <1>6 DEF VerifyModuleMetadata

\* The events that a module emits are its own.
LEMMA BuildEmits ==
  ASSUME NEW source, NEW format, NEW module, module = Build(source, format),
         ~Diagnosed(source)
  PROVE  EmitsRun(source, module)
<1>1. ASSUME NEW n \in DOMAIN module.functions, NEW type \in source.functions[n].emits
      PROVE  EmitRuns(module, type)
  <2>1. n \in DOMAIN source.functions /\ ~source.functions[n].inline /\ module.id = source.id
    BY DEF Build, Compiled
  <2>2. EmitFits(source, type)
    BY <2>1 DEF Diagnosed
  <2> QED  BY <2>1, <2>2 DEF EmitFits, EmitRuns
<1> QED  BY <1>1 DEF EmitsRun

\* An abort code made of a category and an error constant leads to its reason.
LEMMA ReasonIsFound ==
  ASSUME NEW reason \in Nat, reason < 4096, NEW category \in {1, 3}
  PROVE  (category * 65536 + reason) % 4096 = reason
OBVIOUS

LEMMA ReasonIsRead ==
  ASSUME NEW meta, NEW abort \in Nat, NEW reason \in Nat, abort % 4096 = reason,
         reason \in DOMAIN meta.error_map
  PROVE  ExtractAbortInfo(meta, abort) = meta.error_map[reason]
<1>1. (abort % 4096) \in DOMAIN meta.error_map
  OBVIOUS
<1>2. ExtractAbortInfo(meta, abort) = meta.error_map[abort % 4096]
  BY <1>1 DEF ExtractAbortInfo
<1> QED  BY <1>2

LEMMA SmallestExists ==
  ASSUME NEW S \in SUBSET Nat, S # {}
  PROVE  Min(S) \in S
<1>1. PICK x \in S : \A y \in S : ~(<<y, x>> \in OpToRel(<, Nat))
  <2>1. IsWellFoundedOn(OpToRel(<, Nat), Nat)
    BY NatLessThanWellFounded
  <2> QED  BY <2>1, WFMin
<1>2. \A y \in S : x <= y
  <2>1. \A y \in S : (y < x) => <<y, x>> \in OpToRel(<, Nat)
    BY DEF OpToRel
  <2>2. \A y \in S : ~(y < x)
    BY <1>1, <2>1
  <2>3. \A y \in S : x \in Nat /\ y \in Nat
    OBVIOUS
  <2> QED  BY <2>2, <2>3
<1> QED  BY <1>1, <1>2 DEF Min

LEMMA ReasonsAreTrue ==
  ASSUME NEW source \in Sources, NEW format, NEW module, module = Build(source, format)
  PROVE  ReasonsFit(source, module)
<1> DEFINE meta == RuntimeMetadata(source)
           decoded == Decoded(module.metadata)
           all == {i \in DOMAIN source.constants : source.constants[i].is_error}
           errors == {i \in DOMAIN source.constants :
                        source.constants[i].is_error /\ source.constants[i].value < 4096}
           names(v) == {source.constants[j].name :
                          j \in {k \in errors : source.constants[k].value = v}}
<1>1. ASSUME source.id # ErrorModule, NEW i \in errors,
             NEW abort \in AbortCodes(source.constants[i].value)
      PROVE  /\ decoded # None
             /\ ExtractAbortInfo(decoded, abort) \in names(source.constants[i].value)
  <2> DEFINE v == source.constants[i].value
             same == {j \in all : source.constants[j].value = v}
  <2>1. v \in Nat /\ v < 4096 /\ i \in same /\ same \in SUBSET Nat
    BY SourceAssumption
  <2>2. Min(same) \in same
    <3> HIDE DEF same
    <3>1. same # {}
      BY <2>1
    <3> QED  BY <2>1, <3>1, SmallestExists
  <2>3. /\ v \in DOMAIN ErrorMap(source)
        /\ ErrorMap(source)[v] = source.constants[Min(same)].name
    <3> DEFINE values == {source.constants[j].value : j \in all}
               first(w) == source.constants[Min({j \in all : source.constants[j].value = w})].name
    <3>1. ErrorMap(source) = [w \in values |-> first(w)]
      BY <1>1 DEF ErrorMap
    <3>2. v \in values
      OBVIOUS
    <3>3. first(v) = source.constants[Min(same)].name
      OBVIOUS
    <3> HIDE DEF all, values, first, v, same
    <3>4. DOMAIN ErrorMap(source) = values /\ ErrorMap(source)[v] = first(v)
      BY <3>1, <3>2
    <3> QED  BY <3>2, <3>3, <3>4
  <2>4. source.constants[Min(same)].name \in names(v)
    <3>1. \A k \in same : k \in errors /\ source.constants[k].value = v
      BY <2>1
    <3>2. \A k : k \in errors /\ source.constants[k].value = v =>
                  source.constants[k].name \in names(v)
      OBVIOUS
    <3> HIDE DEF same, errors, v, names
    <3> QED  BY <2>2, <3>1, <3>2
  <2> HIDE DEF same, names, errors, all
  <2>5. ~IsEmpty(meta)
    <3>1. ErrorMap(source) # <<>>
      BY <2>3
    <3> QED  BY <3>1, RuntimeMetadataIs DEF IsEmpty
  <2> HIDE DEF meta
  <2>6. decoded # None /\ decoded.error_map = ErrorMap(source)
    BY <2>5, RuntimeMetadataIs, BuildIsDecoded DEF meta
  <2>7. abort \in Nat /\ abort % 4096 = v
    <3>1. PICK category \in {1, 3} : abort = category * 65536 + v
      BY <1>1 DEF AbortCodes
    <3> HIDE DEF v
    <3> QED  BY <2>1, <3>1, ReasonIsFound
  <2> HIDE DEF decoded, v
  <2>8. ExtractAbortInfo(decoded, abort) = source.constants[Min(same)].name
    <3>1. /\ v \in DOMAIN decoded.error_map
          /\ decoded.error_map[v] = source.constants[Min(same)].name
      BY <2>3, <2>6, Zenon
    <3> QED  BY <2>1, <2>7, <3>1, ReasonIsRead
  <2> QED  BY <2>4, <2>6, <2>8 DEF v
<1>2. ASSUME source.id # ErrorModule, NEW i \in errors
      PROVE  decoded # None
  <2>1. 65536 + source.constants[i].value \in AbortCodes(source.constants[i].value)
    <3>1. source.constants[i].value \in Nat
      BY SourceAssumption
    <3>2. 65536 + source.constants[i].value = 1 * 65536 + source.constants[i].value
      BY <3>1
    <3> QED  BY <3>2 DEF AbortCodes
  <2> QED  BY <1>1, <1>2, <2>1
<1> QED  BY <1>1, <1>2 DEF ReasonsFit

\* What any build comes to.
LEMMA JudgedWell ==
  ASSUME NEW source \in Sources, NEW format, NEW enabled,
         NEW b, b = Judged(source, format, enabled)
  PROVE  /\ b.outcome = "built" /\ {"RESOURCE_GROUPS", "MODULE_EVENT"} \subseteq enabled =>
              b.accepted /\ b.emits
         /\ b.reasons
<1>1. CASE Panics(source)
  BY <1>1 DEF Judged, NoBuild
<1>2. CASE ~Panics(source) /\ Diagnosed(source)
  BY <1>2 DEF Judged, NoBuild
<1>3. CASE ~Panics(source) /\ ~Diagnosed(source)
  <2> DEFINE module == Build(source, format)
             how == IF InlineView(source) THEN "built with an inline view" ELSE "built"
  <2>1. b = [outcome |-> how,
             accepted |-> VerifyModuleMetadata(module, enabled),
             emits |-> EmitsRun(source, module),
             reasons |-> ReasonsFit(source, module)]
    BY <1>3 DEF Judged
  <2>2. ReasonsFit(source, module) /\ EmitsRun(source, module)
    BY <1>3, ReasonsAreTrue, BuildEmits
  <2>3. how = "built" /\ {"RESOURCE_GROUPS", "MODULE_EVENT"} \subseteq enabled =>
          VerifyModuleMetadata(module, enabled)
    BY <1>3, BuildIsVerified
  <2> HIDE DEF module, how
  <2> QED  BY <2>1, <2>2, <2>3
<1> QED  BY <1>1, <1>2, <1>3

LEMMA BuildsNextKeeps == BuildsIInv /\ [PackagesNext]_packageVars => BuildsIInv'
<1> SUFFICES ASSUME BuildsIInv, [PackagesNext]_packageVars PROVE BuildsIInv'
  OBVIOUS
<1>0. /\ features' = features
      /\ BuildPackage \/ build' = NoBuild \/ build' = build
  <2>1. CASE Publish
    <3>1. PICK p \in Publication : PublishPackage(p.addr, p.pack, p.bundle)
      BY <2>1 DEF Publish
    <3>2. Abort \/ \E with : Continue(with)
      BY <3>1 DEF PublishPackage
    <3> QED  BY <3>2 DEF Abort, Continue
  <2>2. CASE FreezeCodeObject
    <3>1. \E with : Continue(with)
      BY <2>2 DEF FreezeCodeObject
    <3> QED  BY <3>1 DEF Continue
  <2>3. CASE Commit
    BY <2>3 DEF Commit
  <2>4. CASE Discard
    BY <2>4 DEF Discard, Abort
  <2>5. CASE BuildPackage
    BY <2>5 DEF BuildPackage
  <2>6. CASE UNCHANGED packageVars
    BY <2>6 DEF packageVars
  <2> QED  BY <2>1, <2>2, <2>3, <2>4, <2>5, <2>6 DEF PackagesNext
<1>1. features' = features
  BY <1>0
<1>2. CASE BuildPackage
  <2>1. build' \in Judgements[features] /\ features \in FeatureSets
    BY <1>2 DEF BuildPackage, BuildsIInv
  <2>2. PICK source \in Sources, format \in Versions :
               build' = Judged(source, format, features)
    BY <2>1 DEF Judgements
  <2>3. /\ build'.outcome = "built" /\ {"RESOURCE_GROUPS", "MODULE_EVENT"} \subseteq features =>
             build'.accepted /\ build'.emits
        /\ build'.reasons
    BY <2>2, JudgedWell
  <2> QED  BY <1>1, <2>1, <2>3 DEF BuildsIInv, BuildsAreAccepted
<1>3. CASE build' = NoBuild
  <2>1. build'.outcome # "built" /\ build'.reasons
    BY <1>3 DEF NoBuild
  <2> QED  BY <1>1, <2>1 DEF BuildsIInv, BuildsAreAccepted
<1>4. CASE build' = build
  BY <1>1, <1>4 DEF BuildsIInv, BuildsAreAccepted
<1> QED  BY <1>0, <1>2, <1>3, <1>4

\* For every source module, what the builder lets through the chain accepts, with the
\* features enabled that its attributes need; its events are its own; and an abort
\* code made of an error constant is explained by one of that value.
THEOREM BuildsStayAccepted == PackagesSpec => []BuildsAreAccepted
<1>1. PackagesInit => BuildsIInv
  BY DEF PackagesInit, BuildsIInv, BuildsAreAccepted, NoBuild
<1>2. BuildsIInv => BuildsAreAccepted
  BY DEF BuildsIInv
<1> QED  BY <1>1, <1>2, BuildsNextKeeps, PTL DEF PackagesSpec

-----------------------------------------------------------------------------
(* Aggregators: the parts of a session.                                    *)

LEMMA Numbers ==
  ASSUME NEW n \in Int, NEW b
  PROVE  /\ Known(n) \in DelayedField /\ Known(n) # Nothing /\ Known(n).known /\ Known(n).value = n
         /\ Delta(n) \in DelayedField /\ Delta(n) # Nothing /\ ~Delta(n).known /\ Delta(n).value = n
         /\ At(Known(n), b) = n /\ At(Delta(n), b) = b + n
<1>1. Known(n) \in DelayedField /\ Delta(n) \in DelayedField
  BY DEF Known, Delta, DelayedField
<1>2. Known(n) # Nothing /\ Delta(n) # Nothing
  BY <1>1, NothingAssumption
<1>3. Known(n).known = TRUE /\ Delta(n).known = FALSE /\ Known(n).value = n /\ Delta(n).value = n
  BY DEF Known, Delta
<1> QED  BY <1>1, <1>2, <1>3 DEF At

\* What a session has, whatever it counts.
LEMMA Parts ==
  ASSUME NEW w \in Work
  PROVE  /\ w.type \in IntElement /\ w.max \in Nat /\ w.base \in Nat /\ w.history \in History
         /\ w.agg \in {Nothing} \cup DelayedField /\ w.snap \in {Nothing} \cup DelayedField
         /\ w.string \in {Nothing} \cup DerivedString
         /\ w.exact \in BOOLEAN /\ w.made \in BOOLEAN /\ w.destroyed \in BOOLEAN
         /\ w.snapRead \in {Nothing} \cup Int /\ w.ops \in Nat
BY DEF Work

\* Two sessions that differ in what they counted, or read of other snapshots.
SameKnowledge(w, x) ==
  /\ x.type = w.type /\ x.max = w.max /\ x.agg = w.agg /\ x.base = w.base
  /\ x.history = w.history /\ x.exact = w.exact /\ x.made = w.made /\ x.destroyed = w.destroyed
  /\ x.snap = w.snap /\ x.string = w.string

LEMMA SameIsOK ==
  ASSUME NEW v, NEW a, NEW w, NEW p, SessionOK(v, a, w, p), NEW x \in Work, SameKnowledge(w, x)
  PROVE  SessionOK(v, a, x, p)
<1>1. HasStored(a, x) <=> HasStored(a, w)
  BY DEF SameKnowledge, HasStored
<1>2. NumberFits(a, w) => NumberFits(a, x)
  BY DEF SameKnowledge, NumberFits
<1>3. WorkOK(v, a, x)
  BY <1>1, <1>2 DEF SameKnowledge, WorkOK, SessionOK
<1>4. ASSUME NEW b, NEW max, NEW q PROVE Follows(v, max, w, q, b) => Follows(v, max, x, q, b)
  BY DEF SameKnowledge, Follows, FitsWork, HoldsAt
<1> QED  BY <1>1, <1>3, <1>4 DEF SessionOK

\* A plain session goes on, or has answered something else.
PlainGoesOn(p, next, answers, answer, q) ==
  \A b \in Bases : q[b] = IF p[b].agrees /\ answers[b] = answer THEN next[b] ELSE Disagrees

LEMMA PlainStepGoesOn ==
  ASSUME NEW next, NEW answers, NEW answer, PlainStep(next, answers, answer)
  PROVE  PlainGoesOn(plain, next, answers, answer, plain')
BY DEF PlainStep, PlainGoesOn

\* A native of the session w leaves x: it learns more, and where the number b fits what
\* it learnt the plain session answers the same and holds the same.
LEMMA NativeIsOK ==
  ASSUME NEW v, NEW a, NEW w, NEW p, SessionOK(v, a, w, p), StoredOK(v, a),
         NEW x, WorkOK(v, a, x), HasStored(a, x) => HasStored(a, w),
         NEW next, NEW answers, NEW answer, NEW q, PlainGoesOn(p, next, answers, answer, q),
         \A b \in Bases : PlainSession(next[b]),
         HasStored(a, x) => \A b \in 0 .. a.max :
           /\ FitsWork(x, b, a.max) => FitsWork(w, b, a.max)
           /\ FitsWork(x, b, a.max) /\ HoldsAt(w, p[b], b) =>
                answers[b] = answer /\ HoldsAt(x, next[b], b)
           /\ v = "v1" => ((x.exact => b = x.base) => (w.exact => b = w.base))
           /\ v = "v1" /\ HoldsAt(w, p[b], b) /\ Fits(w.history, b, a.max)
                /\ answers[b] = answer /\ (x.exact => b = x.base) => Fits(x.history, b, a.max)
  PROVE  SessionOK(v, a, x, q)
<1>1. PlainSession(Disagrees) /\ ~Disagrees.agrees
  BY DEF PlainSession, Disagrees
<1>2. \A b \in Bases : PlainSession(q[b])
  BY <1>1 DEF PlainGoesOn
<1>3. ASSUME HasStored(a, x), NEW b \in 0 .. a.max
      PROVE  Follows(v, a.max, x, q[b], b)
  <2>1. b \in Bases
    BY <1>3, MaxAssumption DEF StoredOK, HasStored, Bases, Aggregator, IntElement
  <2>2. Follows(v, a.max, w, p[b], b)
    BY <1>3 DEF SessionOK
  <2>3. q[b] = IF p[b].agrees /\ answers[b] = answer THEN next[b] ELSE Disagrees
    BY <2>1 DEF PlainGoesOn
  <2>4. ASSUME FitsWork(x, b, a.max) PROVE HoldsAt(x, q[b], b)
    <3>1. HoldsAt(w, p[b], b) /\ p[b].agrees
      BY <1>3, <2>2, <2>4 DEF Follows, HoldsAt
    <3> QED  BY <1>3, <2>3, <2>4, <3>1
  <2>5. ASSUME v = "v1", q[b].agrees, x.exact => b = x.base PROVE Fits(x.history, b, a.max)
    <3>1. p[b].agrees /\ answers[b] = answer
      BY <1>1, <2>3, <2>5
    <3>2. w.exact => b = w.base
      BY <1>3, <2>5
    <3>3. Fits(w.history, b, a.max)
      BY <2>2, <2>5, <3>1, <3>2 DEF Follows
    <3>4. HoldsAt(w, p[b], b)
      BY <2>2, <3>2, <3>3 DEF Follows, FitsWork
    <3> QED  BY <1>3, <2>5, <3>1, <3>3, <3>4
  <2> QED  BY <2>4, <2>5 DEF Follows
<1> QED  BY <1>2, <1>3 DEF SessionOK

-----------------------------------------------------------------------------
(* Aggregators: reading the number.                                        *)

\* The number of a session in its bounds, when what was added fits.
LEMMA NumberInBounds ==
  ASSUME NEW v, NEW a, NEW w, WorkOK(v, a, w), StoredOK(v, a), w.agg # Nothing,
         NEW b \in Int, ~w.agg.known => Fits(w.history, b, w.max)
  PROVE  At(w.agg, b) \in 0 .. w.max
<1>1. /\ w \in Work /\ NumberFits(a, w)
      /\ w.agg \in DelayedField /\ w.agg.value \in Int /\ w.max \in Nat /\ w.history \in History
  BY Parts DEF WorkOK, DelayedField
<1>2. CASE w.agg.known
  BY <1>1, <1>2 DEF NumberFits, At
<1>3. CASE ~w.agg.known
  <2>1. Achieved(w.history, w.agg.value) /\ Fits(w.history, b, w.max)
    BY <1>1, <1>3 DEF NumberFits
  <2>2. /\ w.history.max_achieved_positive_delta \in Int
        /\ w.history.min_achieved_negative_delta \in Int
    BY <1>1 DEF History
  <2> QED  BY <1>1, <1>3, <2>1, <2>2 DEF Achieved, Fits, At
<1> QED  BY <1>2, <1>3

LEMMA ReadExactlyIs ==
  ASSUME NEW w \in Work, w.agg # Nothing, NEW x, x = ReadExactly(w)
  PROVE  /\ x \in Work
         /\ x.agg = Known(At(w.agg, w.base)) \/ (w.agg.known /\ x.agg = w.agg)
         /\ x.exact = (w.exact \/ ~w.agg.known)
         /\ x.type = w.type /\ x.max = w.max /\ x.base = w.base /\ x.history = w.history
         /\ x.made = w.made /\ x.destroyed = w.destroyed /\ x.snap = w.snap
         /\ x.string = w.string /\ x.snapRead = w.snapRead /\ x.ops = w.ops
<1>1. w.agg \in DelayedField /\ w.agg.known \in BOOLEAN /\ w.agg.value \in Int /\ w.base \in Nat
  BY Parts DEF DelayedField
<1>2. At(w.agg, w.base) \in Int
  BY <1>1 DEF At
<1>3. Known(At(w.agg, w.base)) \in DelayedField
  BY <1>2, Numbers
<1> DEFINE n == IF w.agg.known THEN w.agg ELSE Known(At(w.agg, w.base))
           e == w.exact \/ ~w.agg.known
<1>4. n \in DelayedField /\ e \in BOOLEAN
  BY <1>1, <1>3
<1>5. x = [w EXCEPT !.agg = n, !.exact = e]
  BY DEF ReadExactly
<1>6. n = Known(At(w.agg, w.base)) \/ (w.agg.known /\ n = w.agg)
  OBVIOUS
<1>7. e = (w.exact \/ ~w.agg.known)
  OBVIOUS
<1> HIDE DEF n, e
<1>8. /\ x \in Work /\ x.agg = n /\ x.exact = e
      /\ x.type = w.type /\ x.max = w.max /\ x.base = w.base /\ x.history = w.history
      /\ x.made = w.made /\ x.destroyed = w.destroyed /\ x.snap = w.snap
      /\ x.string = w.string /\ x.snapRead = w.snapRead /\ x.ops = w.ops
  BY <1>4, <1>5 DEF Work
<1> QED  BY <1>6, <1>7, <1>8

\* Who reads the number knows it, and depends on it.
LEMMA ReadIsOK ==
  ASSUME NEW v, NEW a, NEW w, NEW p, SessionOK(v, a, w, p), StoredOK(v, a),
         w.agg # Nothing, v \in {"v1", "v2"},
         v = "v1" /\ ~w.agg.known => Fits(w.history, w.base, w.max),
         NEW x, x = ReadExactly(w)
  PROVE  /\ SessionOK(v, a, x, p)
         /\ x.agg # Nothing /\ x.agg.known /\ x.agg.value = At(w.agg, w.base)
         /\ x.type = w.type /\ x.max = w.max /\ x.snap = w.snap /\ x.string = w.string
         /\ x.made = w.made /\ x.destroyed = w.destroyed
<1>1. WorkOK(v, a, w) /\ w \in Work
  BY DEF SessionOK, WorkOK
<1>2. /\ w.agg \in DelayedField /\ w.agg.known \in BOOLEAN /\ w.agg.value \in Int /\ w.base \in Nat
      /\ At(w.agg, w.base) \in Int
  BY <1>1, Parts DEF DelayedField, At
<1>3. /\ x \in Work
      /\ x.agg = Known(At(w.agg, w.base)) \/ (w.agg.known /\ x.agg = w.agg)
      /\ x.exact = (w.exact \/ ~w.agg.known)
      /\ x.type = w.type /\ x.max = w.max /\ x.base = w.base /\ x.history = w.history
      /\ x.made = w.made /\ x.destroyed = w.destroyed /\ x.snap = w.snap
      /\ x.string = w.string
  BY <1>1, ReadExactlyIs
<1>4. x.agg # Nothing /\ x.agg.known /\ x.agg.value = At(w.agg, w.base) /\ x.agg \in DelayedField
  BY <1>2, <1>3, Numbers DEF At
<1>5. \A b : At(x.agg, b) = At(w.agg, w.base)
  BY <1>4 DEF At
<1>6. At(w.agg, w.base) \in 0 .. w.max
  <2>1. CASE v = "v2"
    BY <1>1, <2>1 DEF WorkOK
  <2>2. CASE v = "v1"
    BY <1>1, <1>2, <2>2, NumberInBounds
  <2> QED  BY <2>1, <2>2
<1>7. HasStored(a, x) <=> HasStored(a, w)
  BY <1>3 DEF HasStored
<1>8. v = "v1" /\ HasStored(a, x) => x.exact /\ Fits(x.history, x.base, a.max)
  <2> SUFFICES ASSUME v = "v1", HasStored(a, x) PROVE x.exact /\ Fits(x.history, x.base, a.max)
    OBVIOUS
  <2>1. CASE w.agg.known
    BY <1>1, <1>3, <1>7, <2>1 DEF WorkOK
  <2>2. CASE ~w.agg.known
    BY <1>1, <1>2, <1>3, <2>2 DEF WorkOK, NumberFits
  <2> QED  BY <2>1, <2>2
<1>9. NumberFits(a, x)
  BY <1>3, <1>4, <1>6 DEF NumberFits
<1>10. WorkOK(v, a, x)
  <2>1. x.max <= MaxOf[x.type] /\ (a # Nothing => x.base <= a.max)
    BY <1>1, <1>3 DEF WorkOK
  <2>2. HasStored(a, x) => x.agg # Nothing /\ ~x.made
    <3>1. HasStored(a, w) => ~w.made
      BY <1>1 DEF WorkOK
    <3> QED  BY <1>3, <1>4, <1>7, <3>1
  <2>3. v = "v1" => x.type = "u128" /\ x.snap = Nothing /\ x.string = Nothing
    BY <1>1, <1>3 DEF WorkOK
  <2>4. v = "v2" => HasStored(a, x) /\ Fits(x.history, x.base, a.max)
    BY <1>1, <1>3, <1>7 DEF WorkOK
  <2>5. At(x.agg, x.base) \in 0 .. x.max
    BY <1>3, <1>5, <1>6
  <2> QED  BY <1>3, <1>8, <1>9, <2>1, <2>2, <2>3, <2>4, <2>5 DEF WorkOK
<1>11. ASSUME HasStored(a, x), NEW b \in 0 .. a.max PROVE Follows(v, a.max, x, p[b], b)
  <2>1. Follows(v, a.max, w, p[b], b)
    BY <1>7, <1>11 DEF SessionOK
  <2>2. ASSUME FitsWork(x, b, a.max) PROVE HoldsAt(x, p[b], b)
    <3>1. FitsWork(w, b, a.max) /\ (~w.agg.known => b = w.base)
      BY <1>3, <2>2 DEF FitsWork
    <3>2. HoldsAt(w, p[b], b)
      BY <2>1, <3>1 DEF Follows
    <3>3. At(x.agg, b) = At(w.agg, b)
      BY <1>5, <3>1 DEF At
    <3> QED  BY <1>3, <1>4, <3>2, <3>3 DEF HoldsAt
  <2>3. ASSUME v = "v1", p[b].agrees, x.exact => b = x.base PROVE Fits(x.history, b, a.max)
    BY <1>3, <2>1, <2>3 DEF Follows
  <2> QED  BY <2>2, <2>3 DEF Follows
<1> QED  BY <1>3, <1>4, <1>7, <1>10, <1>11 DEF SessionOK

\* What a native of version 2 works on.
LEMMA ContextData ==
  ASSUME SessionOK("v2", agg, work, plain), StoredOK("v2", agg), NEW w, w = GetContextData(work)
  PROVE  /\ SessionOK("v2", agg, w, plain) /\ w \in Work /\ w.agg \in DelayedField
         /\ w.agg # Nothing /\ HasStored(agg, w) /\ w.type = work.type /\ w.max = work.max
<1>1. work.agg # Nothing /\ HasStored(agg, work) /\ work \in Work
  BY DEF SessionOK, WorkOK
<1>2. CASE mode = "delayed"
  BY <1>1, <1>2, Parts DEF GetContextData
<1>3. CASE mode # "delayed"
  <2>1. w = ReadExactly(work)
    BY <1>3 DEF GetContextData
  <2>2. /\ SessionOK("v2", agg, w, plain) /\ w.agg # Nothing /\ w.destroyed = work.destroyed
        /\ w.type = work.type /\ w.max = work.max
    BY <1>1, <2>1, ReadIsOK
  <2>3. w \in Work
    BY <2>2 DEF SessionOK, WorkOK
  <2> QED  BY <1>1, <2>2, <2>3, Parts DEF HasStored
<1> QED  BY <1>2, <1>3

-----------------------------------------------------------------------------
(* Aggregators: the natives of version 2.                                  *)

\* A native ends well: it is counted, and the session goes on.
LEMMA GoesOn ==
  ASSUME AggIInv, mode # "idle", NEW x, Goes(x), SessionOK(version, agg, x, plain')
  PROVE  AggIInv'
<1> DEFINE y == [x EXCEPT !.ops = @ + 1]
<1>1. x \in Work
  BY DEF SessionOK, WorkOK
<1>2. y \in Work /\ SameKnowledge(x, y)
  BY <1>1 DEF Work, SameKnowledge
<1>3. work' = y /\ outcome' = Nothing /\ UNCHANGED <<version, agg, snap, mode>>
  BY DEF Goes, storedVars
<1> HIDE DEF y
<1>4. SessionOK(version, agg, y, plain')
  BY <1>2, SameIsOK
<1> QED  BY <1>3, <1>4 DEF AggIInv

\* An abort leaves storage as it was.
LEMMA DroppedKeeps ==
  ASSUME AggIInv, NEW how, Dropped(how)
  PROVE  AggIInv'
BY DEF AggIInv, Dropped, storedVars

LEMMA InSession ==
  ASSUME AggIInv, mode # "idle"
  PROVE  /\ SessionOK(version, agg, work, plain) /\ WorkOK(version, agg, work) /\ work \in Work
         /\ StoredOK(version, agg) /\ version \in {"v1", "v2"}
BY DEF AggIInv, SessionOK, WorkOK

LEMMA InV2 ==
  ASSUME AggIInv, V2
  PROVE  /\ mode # "idle" /\ version = "v2"
         /\ SessionOK("v2", agg, work, plain) /\ WorkOK("v2", agg, work) /\ work \in Work
         /\ StoredOK("v2", agg) /\ HasStored(agg, work) /\ work.agg # Nothing
<1>1. mode # "idle" /\ version = "v2"
  BY DEF V2, Runs
<1> QED  BY <1>1, InSession DEF WorkOK

\* A plain session whose value, snapshot or string is replaced is one still.
LEMMA PlainValue ==
  ASSUME NEW q, PlainSession(q), NEW x, NEW r, r = [q EXCEPT !.value = x]
  PROVE  /\ PlainSession(r) /\ r.agrees = q.agrees /\ r.value = x
         /\ r.snap = q.snap /\ r.string = q.string
BY DEF PlainSession

LEMMA PlainSnap ==
  ASSUME NEW q, PlainSession(q), NEW x, NEW r, r = [q EXCEPT !.snap = x]
  PROVE  /\ PlainSession(r) /\ r.agrees = q.agrees /\ r.value = q.value
         /\ r.snap = x /\ r.string = q.string
BY DEF PlainSession

LEMMA PlainString ==
  ASSUME NEW q, PlainSession(q), NEW x, NEW r, r = [q EXCEPT !.string = x]
  PROVE  /\ PlainSession(r) /\ r.agrees = q.agrees /\ r.value = q.value
         /\ r.snap = q.snap /\ r.string = x
BY DEF PlainSession

\* create_aggregator.
LEMMA CreateKeeps ==
  ASSUME AggIInv, V2, NEW type \in IntElement, NEW max \in Nat, max <= MaxOf[type],
         CreateAggregatorWithMaxValue(type, max)
  PROVE  AggIInv'
<1> DEFINE x == [work EXCEPT !.type = type, !.max = max, !.agg = Known(0)]
           next == [b \in Bases |-> [plain[b] EXCEPT !.value = 0]]
<1>1. Goes(x) /\ PlainStep(next, NoAnswers, Nothing)
  BY DEF CreateAggregatorWithMaxValue
<1>2. /\ mode # "idle" /\ version = "v2"
      /\ SessionOK("v2", agg, work, plain) /\ WorkOK("v2", agg, work) /\ work \in Work
      /\ StoredOK("v2", agg) /\ HasStored(agg, work)
  BY InV2
<1>3. /\ x \in Work /\ x.type = type /\ x.max = max /\ x.agg = Known(0)
      /\ x.base = work.base /\ x.history = work.history /\ x.exact = work.exact
      /\ x.made = work.made /\ x.destroyed = work.destroyed /\ x.snap = work.snap
      /\ x.string = work.string
  <2>1. Known(0) \in DelayedField
    BY Numbers
  <2> QED  BY <1>2, <2>1 DEF Work
<1>4. \A b \in Bases : NoAnswers[b] = Nothing
  BY DEF NoAnswers
<1>5. \A b \in Bases :
        /\ PlainSession(next[b]) /\ next[b].agrees = plain[b].agrees /\ next[b].value = 0
        /\ next[b].snap = plain[b].snap /\ next[b].string = plain[b].string
  <2>1. \A b \in Bases : PlainSession(plain[b]) /\ next[b] = [plain[b] EXCEPT !.value = 0]
    BY <1>2 DEF SessionOK
  <2> HIDE DEF next
  <2>2. ASSUME NEW b \in Bases, NEW q, q = plain[b], NEW r, r = next[b]
        PROVE  /\ PlainSession(r) /\ r.agrees = q.agrees /\ r.value = 0
               /\ r.snap = q.snap /\ r.string = q.string
    <3>1. PlainSession(q) /\ r = [q EXCEPT !.value = 0]
      BY <2>1, <2>2
    <3> QED  BY <3>1, PlainValue
  <2> QED  BY <2>2
<1>6. PlainGoesOn(plain, next, NoAnswers, Nothing, plain')
  BY <1>1, PlainStepGoesOn
<1> HIDE DEF x, next
<1>7. Known(0).known /\ Known(0).value = 0 /\ Known(0) # Nothing /\ \A b : At(Known(0), b) = 0
  BY Numbers
<1>8. WorkOK("v2", agg, x)
  BY <1>2, <1>3, <1>7 DEF WorkOK, NumberFits, HasStored
<1>9. ASSUME NEW b \in 0 .. agg.max
      PROVE  /\ FitsWork(x, b, agg.max) => FitsWork(work, b, agg.max)
             /\ FitsWork(x, b, agg.max) /\ HoldsAt(work, plain[b], b) =>
                  NoAnswers[b] = Nothing /\ HoldsAt(x, next[b], b)
  <2>1. b \in Bases
    BY <1>2, MaxAssumption DEF StoredOK, Bases, Aggregator, IntElement
  <2> QED  BY <1>3, <1>4, <1>5, <1>7, <2>1 DEF FitsWork, HoldsAt
<1>10. SessionOK("v2", agg, x, plain')
  <2>1. HasStored(agg, x) => HasStored(agg, work)
    BY <1>2
  <2> QED  BY <1>2, <1>5, <1>6, <1>8, <1>9, <2>1, NativeIsOK
<1> QED  BY <1>1, <1>2, <1>10, GoesOn

\* DelayedFieldData::try_add_delta.
LEMMA TryIs ==
  ASSUME NEW w \in Work, w.agg # Nothing, NEW input \in Int,
         NEW ok \in BOOLEAN, ok <=> InBounds(At(w.agg, w.base), input, w.max),
         NEW x, x = TryAddDelta(w, input)
  PROVE  /\ x \in Work /\ x.agg # Nothing /\ x.agg \in DelayedField /\ x.agg.known = w.agg.known
         /\ x.agg.value = IF ok THEN w.agg.value + input ELSE w.agg.value
         /\ x.history = IF w.agg.known THEN w.history
                        ELSE Tried(w.history, w.base, w.agg.value + input, w.max)
         /\ x.type = w.type /\ x.max = w.max /\ x.base = w.base /\ x.exact = w.exact
         /\ x.made = w.made /\ x.destroyed = w.destroyed /\ x.snap = w.snap
         /\ x.string = w.string
<1> DEFINE sum == w.agg.value + input
           n == IF ok THEN (IF w.agg.known THEN Known(sum) ELSE Delta(sum)) ELSE w.agg
           h == IF w.agg.known THEN w.history ELSE Tried(w.history, w.base, sum, w.max)
<1>1. /\ w.agg \in DelayedField /\ w.agg.known \in BOOLEAN /\ w.agg.value \in Int
      /\ w.base \in Nat /\ w.max \in Nat /\ w.history \in History /\ sum \in Int
  BY Parts DEF DelayedField
<1>2. /\ Known(sum) \in DelayedField /\ Delta(sum) \in DelayedField
      /\ Known(sum).known = TRUE /\ Delta(sum).known = FALSE
      /\ Known(sum).value = sum /\ Delta(sum).value = sum
      /\ Known(sum) # Nothing /\ Delta(sum) # Nothing
  <2>1. Known(sum).known = TRUE /\ Delta(sum).known = FALSE
    BY DEF Known, Delta
  <2> HIDE DEF sum
  <2> QED  BY <1>1, <2>1, Numbers
<1>3. Tried(w.history, w.base, sum, w.max) \in History
  <2> HIDE DEF sum
  <2> QED  BY <1>1, TriedIsHistory
<1>4. n \in DelayedField /\ n # Nothing /\ n.known = w.agg.known /\ h \in History
  BY <1>1, <1>2, <1>3
<1>5. n.value = IF ok THEN w.agg.value + input ELSE w.agg.value
  BY <1>2
<1>6. x = [w EXCEPT !.agg = n, !.history = h]
  <2>1. CASE w.agg.known
    <3>1. x = [w EXCEPT !.agg = n]
      BY <2>1 DEF TryAddDelta
    <3>2. h = w.history
      BY <2>1
    <3> HIDE DEF n, h
    <3> QED  BY <3>1, <3>2 DEF Work
  <2>2. CASE ~w.agg.known
    BY <2>2 DEF TryAddDelta
  <2> QED  BY <2>1, <2>2
<1>7. h = IF w.agg.known THEN w.history
          ELSE Tried(w.history, w.base, w.agg.value + input, w.max)
  OBVIOUS
<1> HIDE DEF n, h, sum
<1>8. /\ x \in Work /\ x.agg = n /\ x.history = h
      /\ x.type = w.type /\ x.max = w.max /\ x.base = w.base /\ x.exact = w.exact
      /\ x.made = w.made /\ x.destroyed = w.destroyed /\ x.snap = w.snap
      /\ x.string = w.string
  BY <1>4, <1>6 DEF Work
<1> QED  BY <1>4, <1>5, <1>7, <1>8

\* What a try teaches: nothing if the number is known, and otherwise which numbers have
\* the same outcome.
LEMMA TryTeaches ==
  ASSUME NEW a, NEW w, WorkOK("v2", a, w), StoredOK("v2", a), NEW delta \in Int,
         NEW h, h = IF w.agg.known THEN w.history ELSE Tried(w.history, w.base, delta, w.max)
  PROVE  /\ h \in History /\ Fits(h, w.base, a.max)
         /\ ~w.agg.known => Achieved(h, w.agg.value)
         /\ ~w.agg.known /\ w.base + delta \in 0 .. w.max => Achieved(h, delta)
         /\ \A b \in 0 .. a.max : Fits(h, b, a.max) =>
              /\ Fits(w.history, b, a.max)
              /\ ~w.agg.known =>
                   /\ (b + delta < 0) <=> (w.base + delta < 0)
                   /\ (b + delta > w.max) <=> (w.base + delta > w.max)
<1>1. /\ w \in Work /\ NumberFits(a, w) /\ Fits(w.history, w.base, a.max) /\ w.agg # Nothing
      /\ w.history \in History /\ w.base \in Nat /\ w.max \in Nat /\ a.max \in Nat
  BY Parts DEF WorkOK, StoredOK, Aggregator, Bases
<1>2. CASE w.agg.known
  BY <1>1, <1>2
<1>3. CASE ~w.agg.known
  <2>1. w.max = a.max /\ Achieved(w.history, w.agg.value) /\ w.agg.value \in Int
    BY <1>1, <1>3, Parts DEF NumberFits, DelayedField
  <2>2. h = Tried(w.history, w.base, delta, w.max)
    BY <1>3
  <2>3. /\ h \in History /\ \A y \in Int : Achieved(w.history, y) => Achieved(h, y)
        /\ w.base + delta \in 0 .. w.max => Achieved(h, delta)
        /\ Fits(w.history, w.base, w.max) => Fits(h, w.base, w.max)
        /\ \A b \in Int : Fits(h, b, w.max) =>
             /\ Fits(w.history, b, w.max)
             /\ (b + delta < 0) <=> (w.base + delta < 0)
             /\ (b + delta > w.max) <=> (w.base + delta > w.max)
    BY <1>1, <2>2, TryRecorded
  <2> QED  BY <1>1, <1>3, <2>1, <2>3
<1> QED  BY <1>2, <1>3

\* try_add and try_sub.
LEMMA TryKeeps ==
  ASSUME AggIInv, NEW input \in Int, Try(input)
  PROVE  AggIInv'
<1> DEFINE w == GetContextData(work)
           x == TryAddDelta(w, input)
           in(value) == InBounds(value, input, work.max)
           f == [b \in Bases |-> IF in(plain[b].value) THEN plain[b].value + input
                                 ELSE plain[b].value]
           next == [b \in Bases |-> IF in(plain[b].value) THEN [plain[b] EXCEPT !.value = @ + input]
                                    ELSE plain[b]]
           answers == [b \in Bases |-> in(plain[b].value)]
           answer == in(At(w.agg, w.base))
<1>1. V2 /\ Goes(x) /\ PlainStep(next, answers, answer)
  BY DEF Try
<1>2. mode # "idle" /\ version = "v2" /\ SessionOK("v2", agg, work, plain) /\ StoredOK("v2", agg)
  BY <1>1, InV2
<1>3. /\ SessionOK("v2", agg, w, plain) /\ w \in Work /\ w.agg \in DelayedField
      /\ w.agg # Nothing /\ HasStored(agg, w) /\ w.max = work.max
  BY <1>2, ContextData
<1>4. PlainGoesOn(plain, next, answers, answer, plain')
  BY <1>1, PlainStepGoesOn
<1>5. \A b \in Bases : PlainSession(plain[b])
  BY <1>2 DEF SessionOK
<1>6. \A b \in Bases : next[b] = [plain[b] EXCEPT !.value = f[b]]
  BY <1>5 DEF PlainSession
<1>7. \A b \in Bases :
        /\ PlainSession(next[b]) /\ next[b].agrees = plain[b].agrees /\ next[b].value = f[b]
        /\ next[b].snap = plain[b].snap /\ next[b].string = plain[b].string
  <2> HIDE DEF next, f
  <2>1. ASSUME NEW b \in Bases, NEW q, q = plain[b], NEW r, r = next[b], NEW y, y = f[b]
        PROVE  /\ PlainSession(r) /\ r.agrees = q.agrees /\ r.value = y
               /\ r.snap = q.snap /\ r.string = q.string
    <3>1. PlainSession(q) /\ r = [q EXCEPT !.value = y]
      BY <1>5, <1>6, <2>1
    <3> QED  BY <3>1, PlainValue
  <2> QED  BY <2>1
<1>8. /\ \A b \in Bases : answers[b] <=> InBounds(plain[b].value, input, w.max)
      /\ answers \in [Bases -> BOOLEAN]
      /\ answer <=> InBounds(At(w.agg, w.base), input, w.max)
      /\ answer \in BOOLEAN
  BY <1>3 DEF InBounds
<1>9. \A b \in Bases : f[b] = IF InBounds(plain[b].value, input, w.max)
                              THEN plain[b].value + input ELSE plain[b].value
  BY <1>3
<1> HIDE DEF w, next, f, answers, answer
<1>10. /\ x \in Work /\ x.agg # Nothing /\ x.agg \in DelayedField /\ x.agg.known = w.agg.known
       /\ x.agg.value = IF answer THEN w.agg.value + input ELSE w.agg.value
       /\ x.history = IF w.agg.known THEN w.history
                      ELSE Tried(w.history, w.base, w.agg.value + input, w.max)
       /\ x.type = w.type /\ x.max = w.max /\ x.base = w.base /\ x.exact = w.exact
       /\ x.made = w.made /\ x.destroyed = w.destroyed /\ x.snap = w.snap
       /\ x.string = w.string
  BY <1>3, <1>8, TryIs
<1> HIDE DEF x
<1>11. WorkOK("v2", agg, w)
  BY <1>3 DEF SessionOK
<1>12. /\ w.agg.value \in Int /\ w.base \in Nat /\ w.max \in Nat /\ w.agg.known \in BOOLEAN
       /\ agg.max \in Nat
  BY <1>2, <1>3, Parts DEF DelayedField, StoredOK, Aggregator, Bases, HasStored
<1>13. /\ x.history \in History /\ Fits(x.history, w.base, agg.max)
       /\ ~w.agg.known => Achieved(x.history, w.agg.value)
       /\ ~w.agg.known /\ w.base + (w.agg.value + input) \in 0 .. w.max =>
            Achieved(x.history, w.agg.value + input)
       /\ \A b \in 0 .. agg.max : Fits(x.history, b, agg.max) =>
            /\ Fits(w.history, b, agg.max)
            /\ ~w.agg.known =>
                 /\ (b + (w.agg.value + input) < 0) <=> (w.base + (w.agg.value + input) < 0)
                 /\ (b + (w.agg.value + input) > w.max) <=> (w.base + (w.agg.value + input) > w.max)
  <2>1. w.agg.value + input \in Int
    BY <1>12
  <2> QED  BY <1>2, <1>10, <1>11, <2>1, TryTeaches
<1>14. At(x.agg, w.base) \in 0 .. w.max
  <2>1. At(w.agg, w.base) \in 0 .. w.max
    BY <1>11 DEF WorkOK
  <2> QED  BY <1>8, <1>10, <1>12, <2>1 DEF At, InBounds
<1>15. NumberFits(agg, x)
  <2>1. CASE w.agg.known
    BY <1>10, <1>14, <2>1 DEF NumberFits, At
  <2>2. CASE ~w.agg.known
    <3>1. Achieved(x.history, x.agg.value)
      BY <1>8, <1>10, <1>12, <1>13, <2>2 DEF InBounds, At
    <3>2. agg # Nothing /\ ~w.destroyed /\ w.max = agg.max
      BY <1>3, <1>11, <2>2 DEF WorkOK, NumberFits
    <3> QED  BY <1>10, <2>2, <3>1, <3>2 DEF NumberFits
  <2> QED  BY <2>1, <2>2
<1>16. WorkOK("v2", agg, x)
  BY <1>3, <1>10, <1>11, <1>13, <1>14, <1>15 DEF WorkOK, HasStored
<1>17. ASSUME NEW b \in 0 .. agg.max, FitsWork(x, b, agg.max)
       PROVE  /\ FitsWork(w, b, agg.max)
              /\ HoldsAt(w, plain[b], b) => answers[b] = answer /\ HoldsAt(x, next[b], b)
  <2>1. b \in Bases
    BY <1>2, MaxAssumption DEF StoredOK, Bases, Aggregator, IntElement
  <2>2. FitsWork(w, b, agg.max)
    BY <1>10, <1>13, <1>17 DEF FitsWork
  <2>3. ASSUME HoldsAt(w, plain[b], b) PROVE answers[b] = answer /\ HoldsAt(x, next[b], b)
    <3>1. plain[b].value = At(w.agg, b) /\ plain[b].agrees
      BY <2>3 DEF HoldsAt
    <3>2. InBounds(At(w.agg, b), input, w.max) <=> InBounds(At(w.agg, w.base), input, w.max)
      BY <1>12, <1>13, <1>17 DEF FitsWork, At, InBounds
    <3>3. answers[b] = answer
      BY <1>8, <2>1, <3>1, <3>2
    <3>4. next[b].value = At(x.agg, b)
      BY <1>7, <1>8, <1>9, <1>10, <1>12, <2>1, <3>1, <3>2 DEF At
    <3> QED  BY <1>7, <1>10, <2>1, <2>3, <3>3, <3>4 DEF HoldsAt
  <2> QED  BY <2>2, <2>3
<1>18. SessionOK("v2", agg, x, plain')
  <2>1. HasStored(agg, x) => HasStored(agg, w)
    BY <1>3
  <2> QED  BY <1>2, <1>3, <1>4, <1>7, <1>16, <1>17, <2>1, NativeIsOK
<1> QED  BY <1>1, <1>2, <1>18, GoesOn

Comparisons == {"LessThan", "LessThanOrEqual", "GreaterThan", "GreaterThanOrEqual"}

\* A comparison is answered by the sign of the number less what is probed.
LEMMA ProbeAnswers ==
  ASSUME NEW method \in Comparisons, NEW n \in Int, NEW i \in Int, NEW j \in Int,
         (i - Probe(method, n) < 0) <=> (j - Probe(method, n) < 0)
  PROVE  /\ Probe(method, n) \in Int
         /\ Compares(method, i, n) \in BOOLEAN
         /\ Compares(method, i, n) <=> Compares(method, j, n)
<1>1. CASE method = "LessThan"
  BY <1>1 DEF Probe, Compares
<1>2. CASE method = "LessThanOrEqual"
  BY <1>2 DEF Probe, Compares
<1>3. CASE method = "GreaterThan"
  BY <1>3 DEF Probe, Compares
<1>4. CASE method = "GreaterThanOrEqual"
  BY <1>4 DEF Probe, Compares
<1> QED  BY <1>1, <1>2, <1>3, <1>4 DEF Comparisons

LEMMA ProbedIs ==
  ASSUME NEW w \in Work, w.agg # Nothing, NEW n \in Int, NEW x, x = Probed(w, n)
  PROVE  /\ x \in Work /\ x.agg = w.agg
         /\ x.history = IF w.agg.known THEN w.history
                        ELSE Tried(w.history, w.base, w.agg.value - n, w.max)
         /\ x.type = w.type /\ x.max = w.max /\ x.base = w.base /\ x.exact = w.exact
         /\ x.made = w.made /\ x.destroyed = w.destroyed /\ x.snap = w.snap
         /\ x.string = w.string
<1>1. CASE w.agg.known
  BY <1>1 DEF Probed
<1>2. CASE ~w.agg.known
  <2> DEFINE h == Tried(w.history, w.base, w.agg.value - n, w.max)
  <2>1. /\ w.base \in Nat /\ w.max \in Nat /\ w.history \in History /\ w.agg.value - n \in Int
    BY Parts DEF DelayedField
  <2>2. h \in History
    <3>1. ASSUME NEW delta \in Int PROVE Tried(w.history, w.base, delta, w.max) \in History
      BY <2>1, TriedIsHistory
    <3> QED  BY <2>1, <3>1
  <2>3. x = [w EXCEPT !.history = h]
    BY <1>2 DEF Probed
  <2>4. h = Tried(w.history, w.base, w.agg.value - n, w.max)
    OBVIOUS
  <2> HIDE DEF h
  <2>5. /\ x \in Work /\ x.agg = w.agg /\ x.history = h
        /\ x.type = w.type /\ x.max = w.max /\ x.base = w.base /\ x.exact = w.exact
        /\ x.made = w.made /\ x.destroyed = w.destroyed /\ x.snap = w.snap
        /\ x.string = w.string
    BY <2>2, <2>3 DEF Work
  <2> QED  BY <1>2, <2>4, <2>5
<1> QED  BY <1>1, <1>2

\* compare_impl.
LEMMA CompareKeeps ==
  ASSUME AggIInv, NEW method \in Comparisons, NEW n \in Int, CompareImpl(method, n)
  PROVE  AggIInv'
<1> DEFINE w == GetContextData(work)
           k == Probe(method, n)
           x == Probed(w, k)
           answers == [b \in Bases |-> Compares(method, plain[b].value, n)]
           answer == Compares(method, At(w.agg, w.base), n)
<1>1. V2 /\ Goes(x) /\ PlainStep(plain, answers, answer)
  BY DEF CompareImpl
<1>2. mode # "idle" /\ version = "v2" /\ SessionOK("v2", agg, work, plain) /\ StoredOK("v2", agg)
  BY <1>1, InV2
<1>3. /\ SessionOK("v2", agg, w, plain) /\ w \in Work /\ w.agg \in DelayedField
      /\ w.agg # Nothing /\ HasStored(agg, w) /\ w.max = work.max
  BY <1>2, ContextData
<1>4. PlainGoesOn(plain, plain, answers, answer, plain')
  BY <1>1, PlainStepGoesOn
<1>5. \A b \in Bases : PlainSession(plain[b])
  BY <1>2 DEF SessionOK
<1>6. /\ \A b \in Bases : answers[b] = Compares(method, plain[b].value, n)
      /\ answer = Compares(method, At(w.agg, w.base), n)
  OBVIOUS
<1>7. k \in Int /\ \A i, j \in Int : ((i - k < 0) <=> (j - k < 0)) =>
        Compares(method, i, n) = Compares(method, j, n)
  <2>1. k \in Int
    BY DEF Probe
  <2>2. ASSUME NEW i \in Int, NEW j \in Int, (i - k < 0) <=> (j - k < 0)
        PROVE  /\ Compares(method, i, n) <=> Compares(method, j, n)
               /\ Compares(method, i, n) \in BOOLEAN /\ Compares(method, j, n) \in BOOLEAN
    BY <2>2, ProbeAnswers
  <2> HIDE DEF k
  <2> QED  BY <2>1, <2>2
<1> HIDE DEF w, k, answers, answer
<1>8. /\ x \in Work /\ x.agg = w.agg
      /\ x.history = IF w.agg.known THEN w.history
                     ELSE Tried(w.history, w.base, w.agg.value - k, w.max)
      /\ x.type = w.type /\ x.max = w.max /\ x.base = w.base /\ x.exact = w.exact
      /\ x.made = w.made /\ x.destroyed = w.destroyed /\ x.snap = w.snap
      /\ x.string = w.string
  BY <1>3, <1>7, ProbedIs
<1> HIDE DEF x
<1>9. WorkOK("v2", agg, w)
  BY <1>3 DEF SessionOK
<1>10. /\ w.agg.value \in Int /\ w.base \in Nat /\ w.max \in Nat /\ w.agg.known \in BOOLEAN
       /\ agg.max \in Nat
  BY <1>2, <1>3, Parts DEF DelayedField, StoredOK, Aggregator, Bases, HasStored
<1>11. /\ x.history \in History /\ Fits(x.history, w.base, agg.max)
       /\ ~w.agg.known => Achieved(x.history, w.agg.value)
       /\ \A b \in 0 .. agg.max : Fits(x.history, b, agg.max) =>
            /\ Fits(w.history, b, agg.max)
            /\ ~w.agg.known => ((b + (w.agg.value - k) < 0) <=> (w.base + (w.agg.value - k) < 0))
  <2>1. w.agg.value - k \in Int
    BY <1>7, <1>10
  <2> QED  BY <1>2, <1>8, <1>9, <2>1, TryTeaches
<1>12. WorkOK("v2", agg, x)
  BY <1>3, <1>8, <1>9, <1>11 DEF WorkOK, HasStored, NumberFits
<1>13. ASSUME NEW b \in 0 .. agg.max, FitsWork(x, b, agg.max)
       PROVE  /\ FitsWork(w, b, agg.max)
              /\ HoldsAt(w, plain[b], b) => answers[b] = answer /\ HoldsAt(x, plain[b], b)
  <2>1. b \in Bases
    BY <1>2, MaxAssumption DEF StoredOK, Bases, Aggregator, IntElement
  <2>2. FitsWork(w, b, agg.max)
    BY <1>8, <1>11, <1>13 DEF FitsWork
  <2>3. ASSUME HoldsAt(w, plain[b], b) PROVE answers[b] = answer /\ HoldsAt(x, plain[b], b)
    <3>1. plain[b].value = At(w.agg, b)
      BY <2>3 DEF HoldsAt
    <3>2. Compares(method, At(w.agg, b), n) = Compares(method, At(w.agg, w.base), n)
      <4>1. CASE w.agg.known
        BY <4>1 DEF At
      <4>2. CASE ~w.agg.known
        <5>1. (b + w.agg.value - k < 0) <=> (w.base + w.agg.value - k < 0)
          BY <1>7, <1>10, <1>11, <1>13, <4>2 DEF FitsWork
        <5>2. b + w.agg.value \in Int /\ w.base + w.agg.value \in Int
          BY <1>10
        <5>3. At(w.agg, b) = b + w.agg.value /\ At(w.agg, w.base) = w.base + w.agg.value
          BY <4>2 DEF At
        <5>4. ASSUME NEW i \in Int, NEW j \in Int, i = b + w.agg.value, j = w.base + w.agg.value
              PROVE  Compares(method, i, n) = Compares(method, j, n)
          <6>1. (i - k < 0) <=> (j - k < 0)
            BY <1>7, <1>10, <5>1, <5>4
          <6> QED  BY <1>7, <6>1
        <5> QED  BY <5>2, <5>3, <5>4
      <4> QED  BY <4>1, <4>2
    <3>3. answers[b] = answer
      BY <1>6, <2>1, <3>1, <3>2
    <3> QED  BY <1>8, <2>3, <3>3 DEF HoldsAt
  <2> QED  BY <2>2, <2>3
<1>14. SessionOK("v2", agg, x, plain')
  <2>1. HasStored(agg, x) => HasStored(agg, w)
    BY <1>3
  <2> QED  BY <1>2, <1>3, <1>4, <1>5, <1>12, <1>13, <2>1, NativeIsOK
<1> QED  BY <1>1, <1>2, <1>14, GoesOn

\* A native of version 2 that leaves the number as it is.
SameNumber(w, x) ==
  /\ x.type = w.type /\ x.max = w.max /\ x.agg = w.agg /\ x.base = w.base
  /\ x.history = w.history /\ x.made = w.made /\ x.destroyed = w.destroyed

\* The plain sessions answer as the session does and hold what it holds then.
Answers(w, x, p, next, answers, answer) ==
  /\ \A b \in Bases : PlainSession(next[b])
  /\ \A b \in Bases : (x.exact => b = x.base) /\ HoldsAt(w, p[b], b) =>
       answers[b] = answer /\ HoldsAt(x, next[b], b)

LEMMA NumberStays ==
  ASSUME AggIInv, V2, NEW w, SessionOK("v2", agg, w, plain),
         NEW x \in Work, SameNumber(w, x), w.exact => x.exact,
         NEW next, NEW answers, NEW answer, PlainStep(next, answers, answer), Goes(x),
         Answers(w, x, plain, next, answers, answer)
  PROVE  AggIInv'
<1>1. mode # "idle" /\ version = "v2" /\ StoredOK("v2", agg)
  BY InV2
<1>2. WorkOK("v2", agg, w) /\ HasStored(agg, w)
  BY DEF SessionOK, WorkOK
<1>3. WorkOK("v2", agg, x)
  BY <1>2 DEF WorkOK, SameNumber, HasStored, NumberFits
<1>4. PlainGoesOn(plain, next, answers, answer, plain')
  BY PlainStepGoesOn
<1>5. ASSUME NEW b \in 0 .. agg.max, FitsWork(x, b, agg.max)
      PROVE  /\ FitsWork(w, b, agg.max)
             /\ HoldsAt(w, plain[b], b) => answers[b] = answer /\ HoldsAt(x, next[b], b)
  <2>1. b \in Bases
    BY <1>1, <1>2, MaxAssumption DEF StoredOK, Bases, Aggregator, IntElement, HasStored
  <2> QED  BY <1>5, <2>1 DEF SameNumber, FitsWork, Answers
<1>6. SessionOK("v2", agg, x, plain')
  <2>1. \A b \in Bases : PlainSession(next[b])
    BY DEF Answers
  <2> QED  BY <1>1, <1>2, <1>3, <1>4, <1>5, <2>1, NativeIsOK
<1> QED  BY <1>1, <1>6, GoesOn

LEMMA ReadKeeps ==
  ASSUME AggIInv, Read
  PROVE  AggIInv'
<1> DEFINE w == ReadExactly(work)
           answers == [b \in Bases |-> plain[b].value]
<1>1. V2 /\ Goes(w) /\ PlainStep(plain, answers, w.agg.value)
  BY DEF Read
<1>2. /\ version = "v2" /\ SessionOK("v2", agg, work, plain) /\ StoredOK("v2", agg)
      /\ work.agg # Nothing
  BY <1>1, InV2
<1>3. SessionOK("v2", agg, w, plain) /\ w.agg.known
  BY <1>2, ReadIsOK
<1>4. w \in Work /\ SameNumber(w, w) /\ \A b \in Bases : PlainSession(plain[b])
  BY <1>3 DEF SessionOK, WorkOK, SameNumber
<1>5. \A b \in Bases : answers[b] = plain[b].value
  OBVIOUS
<1> HIDE DEF w, answers
<1>6. Answers(w, w, plain, plain, answers, w.agg.value)
  BY <1>3, <1>4, <1>5 DEF Answers, HoldsAt, At
<1> QED  BY <1>1, <1>3, <1>4, <1>6, NumberStays

\* The plain sessions are given the snapshots, or strings, f.
GiveSnap(p, next, f) == \A b \in Bases : next[b] = [p[b] EXCEPT !.snap = f[b]]
GiveString(p, next, f) == \A b \in Bases : next[b] = [p[b] EXCEPT !.string = f[b]]

SnapsAt(w, p, f, s) == \A b \in Bases : HoldsAt(w, p[b], b) => f[b] = At(s, b)
StringsAt(w, p, f, s) == \A b \in Bases : HoldsAt(w, p[b], b) => f[b] = StringAt(s, b)

\* A native that gives the session a snapshot, and the plain sessions what it is there.
LEMMA SnapGiven ==
  ASSUME AggIInv, V2, NEW w, SessionOK("v2", agg, w, plain), NEW s \in DelayedField,
         NEW x, x = [w EXCEPT !.snap = s], Goes(x),
         NEW f, NEW next, PlainStep(next, NoAnswers, Nothing),
         GiveSnap(plain, next, f), SnapsAt(w, plain, f, s)
  PROVE  AggIInv'
<1>1. w \in Work /\ \A b \in Bases : PlainSession(plain[b])
  BY DEF SessionOK, WorkOK
<1>2. \A b \in Bases :
        /\ PlainSession(next[b]) /\ next[b].agrees = plain[b].agrees
        /\ next[b].value = plain[b].value
        /\ next[b].snap = f[b] /\ next[b].string = plain[b].string
  <2>1. ASSUME NEW b \in Bases, NEW q, q = plain[b], NEW r, r = next[b], NEW y, y = f[b]
        PROVE  /\ PlainSession(r) /\ r.agrees = q.agrees /\ r.value = q.value
               /\ r.snap = y /\ r.string = q.string
    <3>1. PlainSession(q) /\ r = [q EXCEPT !.snap = y]
      BY <1>1, <2>1 DEF GiveSnap
    <3> QED  BY <3>1, PlainSnap
  <2> QED  BY <2>1
<1>3. /\ x \in Work /\ x.agg = w.agg /\ x.history = w.history /\ x.snap = s
      /\ x.type = w.type /\ x.max = w.max /\ x.base = w.base /\ x.exact = w.exact
      /\ x.made = w.made /\ x.destroyed = w.destroyed /\ x.string = w.string
  BY <1>1 DEF Work
<1>4. SameNumber(w, x)
  BY <1>3 DEF SameNumber
<1>5. \A b \in Bases : NoAnswers[b] = Nothing
  BY DEF NoAnswers
<1>6. Answers(w, x, plain, next, NoAnswers, Nothing)
  BY <1>2, <1>3, <1>5 DEF Answers, HoldsAt, SnapsAt
<1> QED  BY <1>2, <1>3, <1>4, <1>6, NumberStays

\* The same for a derived string.
LEMMA StringGiven ==
  ASSUME AggIInv, V2, NEW s \in DerivedString,
         NEW x, x = [work EXCEPT !.string = s], Goes(x),
         NEW f, NEW next, PlainStep(next, NoAnswers, Nothing),
         GiveString(plain, next, f), StringsAt(work, plain, f, s)
  PROVE  AggIInv'
<1>1. SessionOK("v2", agg, work, plain) /\ work \in Work /\ \A b \in Bases : PlainSession(plain[b])
  BY InV2 DEF SessionOK, WorkOK
<1>2. \A b \in Bases :
        /\ PlainSession(next[b]) /\ next[b].agrees = plain[b].agrees
        /\ next[b].value = plain[b].value
        /\ next[b].snap = plain[b].snap /\ next[b].string = f[b]
  <2>1. ASSUME NEW b \in Bases, NEW q, q = plain[b], NEW r, r = next[b], NEW y, y = f[b]
        PROVE  /\ PlainSession(r) /\ r.agrees = q.agrees /\ r.value = q.value
               /\ r.snap = q.snap /\ r.string = y
    <3>1. PlainSession(q) /\ r = [q EXCEPT !.string = y]
      BY <1>1, <2>1 DEF GiveString
    <3> QED  BY <3>1, PlainString
  <2> QED  BY <2>1
<1>3. /\ x \in Work /\ x.agg = work.agg /\ x.history = work.history /\ x.string = s
      /\ x.type = work.type /\ x.max = work.max /\ x.base = work.base /\ x.exact = work.exact
      /\ x.made = work.made /\ x.destroyed = work.destroyed /\ x.snap = work.snap
  BY <1>1 DEF Work
<1>4. SameNumber(work, x)
  BY <1>3 DEF SameNumber
<1>5. \A b \in Bases : NoAnswers[b] = Nothing
  BY DEF NoAnswers
<1>6. Answers(work, x, plain, next, NoAnswers, Nothing)
  BY <1>2, <1>3, <1>5 DEF Answers, HoldsAt, StringsAt
<1> QED  BY <1>1, <1>2, <1>3, <1>4, <1>6, NumberStays

LEMMA SnapshotKeeps ==
  ASSUME AggIInv, Snapshot
  PROVE  AggIInv'
<1> DEFINE w == GetContextData(work)
           x == [w EXCEPT !.snap = w.agg]
           f == [b \in Bases |-> plain[b].value]
           next == [b \in Bases |-> [plain[b] EXCEPT !.snap = plain[b].value]]
<1>1. V2 /\ Goes(x) /\ PlainStep(next, NoAnswers, Nothing)
  BY DEF Snapshot, SnapshotOf
<1>2. SessionOK("v2", agg, work, plain) /\ StoredOK("v2", agg)
  BY <1>1, InV2
<1>3. SessionOK("v2", agg, w, plain) /\ w.agg \in DelayedField
  BY <1>2, ContextData
<1>4. \A b \in Bases : f[b] = plain[b].value /\ next[b] = [plain[b] EXCEPT !.snap = f[b]]
  OBVIOUS
<1>5. x = [w EXCEPT !.snap = w.agg]
  OBVIOUS
<1> HIDE DEF w, x, f, next
<1>6. SnapsAt(w, plain, f, w.agg)
  BY <1>4 DEF HoldsAt, SnapsAt
<1>7. GiveSnap(plain, next, f)
  BY <1>4 DEF GiveSnap
<1> QED  BY <1>1, <1>3, <1>5, <1>6, <1>7, SnapGiven

LEMMA CreateSnapshotKeeps ==
  ASSUME AggIInv, NEW n \in Inputs, CreateSnapshot(n)
  PROVE  AggIInv'
<1>1. CASE Dropped("EUNSUPPORTED_AGGREGATOR_SNAPSHOT_TYPE")
  BY <1>1, DroppedKeeps
<1>2. CASE ~Dropped("EUNSUPPORTED_AGGREGATOR_SNAPSHOT_TYPE")
  <2> DEFINE s == Known(n)
             x == [work EXCEPT !.snap = s]
             f == [b \in Bases |-> n]
             next == [b \in Bases |-> [plain[b] EXCEPT !.snap = n]]
  <2>1. V2 /\ Goes(x) /\ PlainStep(next, NoAnswers, Nothing)
    BY <1>2 DEF CreateSnapshot
  <2>2. SessionOK("v2", agg, work, plain)
    BY <2>1, InV2
  <2>3. n \in Int
    BY MaxAssumption DEF Bases
  <2>4. s \in DelayedField /\ \A b : At(s, b) = n
    BY <2>3, Numbers
  <2>5. \A b \in Bases : f[b] = n /\ next[b] = [plain[b] EXCEPT !.snap = f[b]]
    OBVIOUS
  <2>6. x = [work EXCEPT !.snap = s]
    OBVIOUS
  <2> HIDE DEF s, x, f, next
  <2>7. SnapsAt(work, plain, f, s) /\ GiveSnap(plain, next, f)
    BY <2>4, <2>5 DEF SnapsAt, GiveSnap
  <2> QED  BY <2>1, <2>2, <2>4, <2>6, <2>7, SnapGiven
<1> QED  BY <1>1, <1>2

LEMMA CreateDerivedStringKeeps ==
  ASSUME AggIInv, NEW text \in Texts, CreateDerivedString(text)
  PROVE  AggIInv'
<1>1. CASE TooLong(text)
  BY <1>1, DroppedKeeps DEF CreateDerivedString
<1>2. CASE ~TooLong(text)
  <2> DEFINE s == [text |-> text, of |-> Nothing]
             x == [work EXCEPT !.string = s]
             f == [b \in Bases |-> s]
             next == [b \in Bases |-> [plain[b] EXCEPT !.string = s]]
  <2>1. V2 /\ Goes(x) /\ PlainStep(next, NoAnswers, Nothing)
    BY <1>2 DEF CreateDerivedString
  <2>2. s \in DerivedString /\ \A b : StringAt(s, b) = s
    BY DEF DerivedString, StringAt
  <2>3. \A b \in Bases : f[b] = s /\ next[b] = [plain[b] EXCEPT !.string = f[b]]
    OBVIOUS
  <2>4. x = [work EXCEPT !.string = s]
    OBVIOUS
  <2> HIDE DEF s, x, f, next
  <2>5. StringsAt(work, plain, f, s) /\ GiveString(plain, next, f)
    BY <2>2, <2>3 DEF StringsAt, GiveString
  <2> QED  BY <2>1, <2>2, <2>4, <2>5, StringGiven
<1> QED  BY <1>1, <1>2

LEMMA DeriveStringConcatKeeps ==
  ASSUME AggIInv, NEW text \in Texts, DeriveStringConcat(text)
  PROVE  AggIInv'
<1>1. CASE TooLong(text)
  BY <1>1, DroppedKeeps DEF DeriveStringConcat
<1>2. CASE ~TooLong(text)
  <2> DEFINE s == [text |-> text, of |-> work.snap]
             x == [work EXCEPT !.string = s]
             f == [b \in Bases |-> [text |-> text, of |-> plain[b].snap]]
             next == [b \in Bases |-> [plain[b] EXCEPT !.string =
                        [text |-> text, of |-> plain[b].snap]]]
  <2>1. V2 /\ work.snap # Nothing /\ Goes(x) /\ PlainStep(next, NoAnswers, Nothing)
    BY <1>2 DEF DeriveStringConcat
  <2>2. work \in Work /\ work.snap \in DelayedField
    BY <2>1, InV2, Parts
  <2>3. /\ s \in DerivedString
        /\ \A b : StringAt(s, b) = [text |-> text, of |-> At(work.snap, b)]
    BY <2>1, <2>2 DEF DerivedString, StringAt
  <2>4. /\ \A b \in Bases : f[b] = [text |-> text, of |-> plain[b].snap]
        /\ \A b \in Bases : next[b] = [plain[b] EXCEPT !.string = f[b]]
    OBVIOUS
  <2>5. x = [work EXCEPT !.string = s]
    OBVIOUS
  <2> HIDE DEF s, x, f, next
  <2>6. StringsAt(work, plain, f, s) /\ GiveString(plain, next, f)
    BY <2>1, <2>3, <2>4 DEF HoldsAt, StringsAt, GiveString
  <2> QED  BY <2>1, <2>3, <2>4, <2>5, <2>6, StringGiven
<1> QED  BY <1>1, <1>2

\* What was made of an unknown number is read with the number.
LEMMA ReadSnapshotKeeps ==
  ASSUME AggIInv, ReadSnapshot
  PROVE  AggIInv'
<1> DEFINE x == IF work.snap.known THEN work ELSE [work EXCEPT !.exact = TRUE]
           answers == [b \in Bases |-> plain[b].snap]
           answer == At(x.snap, x.base)
<1>1. V2 /\ work.snap # Nothing /\ Goes(x) /\ PlainStep(plain, answers, answer)
  BY DEF ReadSnapshot
<1>2. SessionOK("v2", agg, work, plain) /\ work \in Work /\ \A b \in Bases : PlainSession(plain[b])
  BY <1>1, InV2 DEF SessionOK
<1>3. /\ \A b \in Bases : answers[b] = plain[b].snap
      /\ answer = At(x.snap, x.base)
  OBVIOUS
<1>4. /\ x \in Work /\ SameNumber(work, x) /\ x.snap = work.snap /\ x.string = work.string
      /\ (work.exact => x.exact) /\ (~work.snap.known => x.exact)
  BY <1>2 DEF SameNumber, Work
<1> HIDE DEF x, answers, answer
<1>5. Answers(work, x, plain, plain, answers, answer)
  BY <1>1, <1>2, <1>3, <1>4 DEF Answers, HoldsAt, SameNumber, At
<1> QED  BY <1>1, <1>2, <1>4, <1>5, NumberStays

LEMMA ReadDerivedStringKeeps ==
  ASSUME AggIInv, ReadDerivedString
  PROVE  AggIInv'
<1> DEFINE x == IF work.string.of = Nothing \/ work.string.of.known THEN work
                ELSE [work EXCEPT !.exact = TRUE]
           answers == [b \in Bases |-> plain[b].string]
           answer == StringAt(x.string, x.base)
<1>1. V2 /\ work.string # Nothing /\ Goes(x) /\ PlainStep(plain, answers, answer)
  BY DEF ReadDerivedString
<1>2. SessionOK("v2", agg, work, plain) /\ work \in Work /\ \A b \in Bases : PlainSession(plain[b])
  BY <1>1, InV2 DEF SessionOK
<1>3. /\ \A b \in Bases : answers[b] = plain[b].string
      /\ answer = StringAt(x.string, x.base)
  OBVIOUS
<1>4. /\ x \in Work /\ SameNumber(work, x) /\ x.snap = work.snap /\ x.string = work.string
      /\ work.exact => x.exact
      /\ x.exact \/ work.string.of = Nothing \/ work.string.of.known
  BY <1>2 DEF SameNumber, Work
<1> HIDE DEF x, answers, answer
<1>5. Answers(work, x, plain, plain, answers, answer)
  <2>1. ASSUME NEW b \in Bases, x.exact => b = x.base
        PROVE  StringAt(work.string, b) = answer
    BY <1>3, <1>4, <2>1 DEF StringAt, At
  <2> QED  BY <1>1, <1>2, <1>3, <1>4, <2>1 DEF Answers, HoldsAt, SameNumber
<1> QED  BY <1>1, <1>2, <1>4, <1>5, NumberStays

LEMMA ReadStoredSnapshotKeeps ==
  ASSUME AggIInv, ReadStoredSnapshot
  PROVE  AggIInv'
<1> DEFINE x == [work EXCEPT !.snapRead = snap]
<1>1. V2 /\ snap # Nothing /\ Goes(x) /\ plain' = plain
  BY DEF ReadStoredSnapshot
<1>2. mode # "idle" /\ version = "v2" /\ SessionOK("v2", agg, work, plain) /\ work \in Work
  BY <1>1, InV2
<1>3. snap \in {Nothing} \cup Int
  BY DEF AggIInv
<1>4. x \in Work /\ SameKnowledge(work, x)
  BY <1>2, <1>3 DEF Work, SameKnowledge
<1> HIDE DEF x
<1>5. SessionOK("v2", agg, x, plain')
  BY <1>1, <1>2, <1>4, SameIsOK
<1> QED  BY <1>1, <1>2, <1>5, GoesOn

LEMMA V2Keeps ==
  ASSUME AggIInv,
         \/ ApiNotEnabled \/ CreateAggregator \/ CreateUnboundedAggregator \/ NotYetSupported
         \/ \E n \in Inputs : \/ TryAdd(n) \/ TrySub(n)
                              \/ LessThan(n) \/ LessThanOrEqual(n)
                              \/ GreaterThan(n) \/ GreaterThanOrEqual(n)
  PROVE  AggIInv'
<1>1. /\ \A type \in IntElement : MaxOf[type] \in Nat
      /\ \A n \in Inputs : n \in Nat /\ 0 - n \in Int
  BY MaxAssumption DEF Bases, IntElement
<1>2. CASE ApiNotEnabled
  BY <1>2, DroppedKeeps DEF ApiNotEnabled
<1>3. CASE CreateAggregator
  <2>1. CASE Dropped("EUNSUPPORTED_AGGREGATOR_TYPE")
    BY <2>1, DroppedKeeps
  <2>2. CASE V2 /\ \E type \in IntElement, max \in Inputs :
               max <= MaxOf[type] /\ CreateAggregatorWithMaxValue(type, max)
    BY <1>1, <2>2, CreateKeeps
  <2> QED  BY <1>3, <2>1, <2>2 DEF CreateAggregator
<1>4. CASE CreateUnboundedAggregator
  <2>1. CASE Dropped("EUNSUPPORTED_AGGREGATOR_TYPE")
    BY <2>1, DroppedKeeps
  <2>2. CASE V2 /\ \E type \in IntElement : CreateAggregatorWithMaxValue(type, MaxOf[type])
    <3>1. PICK type \in IntElement : CreateAggregatorWithMaxValue(type, MaxOf[type])
      BY <2>2
    <3> DEFINE max == MaxOf[type]
    <3>2. max \in Nat /\ max <= MaxOf[type] /\ CreateAggregatorWithMaxValue(type, max)
      BY <1>1, <3>1
    <3> HIDE DEF max
    <3> QED  BY <2>2, <3>2, CreateKeeps
  <2> QED  BY <1>4, <2>1, <2>2 DEF CreateUnboundedAggregator
<1>5. CASE NotYetSupported
  BY <1>5, DroppedKeeps DEF NotYetSupported
<1>6. ASSUME NEW n \in Inputs, TryAdd(n) \/ TrySub(n) PROVE AggIInv'
  BY <1>1, <1>6, TryKeeps DEF TryAdd, TrySub
<1>7. ASSUME NEW n \in Inputs,
             LessThan(n) \/ LessThanOrEqual(n) \/ GreaterThan(n) \/ GreaterThanOrEqual(n)
      PROVE  AggIInv'
  <2>1. n \in Int
    BY <1>1
  <2> QED  BY <1>7, <2>1, CompareKeeps
           DEF LessThan, LessThanOrEqual, GreaterThan, GreaterThanOrEqual, Comparisons
<1> QED  BY <1>2, <1>3, <1>4, <1>5, <1>6, <1>7

-----------------------------------------------------------------------------
(* Aggregators: version 1.                                                 *)

LEMMA InV1 ==
  ASSUME AggIInv, Runs("v1")
  PROVE  /\ mode # "idle" /\ version = "v1"
         /\ SessionOK("v1", agg, work, plain) /\ WorkOK("v1", agg, work) /\ work \in Work
         /\ StoredOK("v1", agg) /\ \A b \in Bases : PlainSession(plain[b])
<1>1. mode # "idle" /\ version = "v1"
  BY DEF Runs
<1> QED  BY <1>1, InSession DEF SessionOK

\* The plain sessions have the numbers f.
GiveValue(p, next, f) == \A b \in Bases : next[b] = [p[b] EXCEPT !.value = f[b]]

LEMMA ValueGiven ==
  ASSUME \A b \in Bases : PlainSession(plain[b]), NEW f, NEW next, GiveValue(plain, next, f)
  PROVE  \A b \in Bases :
           /\ PlainSession(next[b]) /\ next[b].agrees = plain[b].agrees /\ next[b].value = f[b]
           /\ next[b].snap = plain[b].snap /\ next[b].string = plain[b].string
<1>1. ASSUME NEW b \in Bases, NEW q, q = plain[b], NEW r, r = next[b], NEW y, y = f[b]
      PROVE  /\ PlainSession(r) /\ r.agrees = q.agrees /\ r.value = y
             /\ r.snap = q.snap /\ r.string = q.string
  <2>1. PlainSession(q) /\ r = [q EXCEPT !.value = y]
    BY <1>1 DEF GiveValue
  <2> QED  BY <2>1, PlainValue
<1> QED  BY <1>1

\* The aggregator in storage is out of the session's hands.
LEMMA WithoutStored ==
  ASSUME AggIInv, Runs("v1"), NEW x, Goes(x), WorkOK("v1", agg, x), ~HasStored(agg, x),
         NEW next, PlainStep(next, NoAnswers, Nothing), \A b \in Bases : PlainSession(next[b])
  PROVE  AggIInv'
<1>1. mode # "idle" /\ version = "v1"
  BY InV1
<1>2. PlainSession(Disagrees)
  BY DEF PlainSession, Disagrees
<1>3. \A b \in Bases : PlainSession(plain'[b])
  <2>1. PlainGoesOn(plain, next, NoAnswers, Nothing, plain')
    BY PlainStepGoesOn
  <2> QED  BY <1>2, <2>1 DEF PlainGoesOn
<1>4. SessionOK("v1", agg, x, plain')
  BY <1>3 DEF SessionOK
<1> QED  BY <1>1, <1>4, GoesOn

LEMMA NewAggregatorKeeps ==
  ASSUME AggIInv, NEW max \in Inputs, NewAggregator(max)
  PROVE  AggIInv'
<1> DEFINE x == [work EXCEPT !.agg = Known(0), !.max = max, !.made = TRUE]
           f == [b \in Bases |-> 0]
           next == [b \in Bases |-> [plain[b] EXCEPT !.value = 0]]
<1>1. Runs("v1") /\ work.agg = Nothing /\ Goes(x) /\ PlainStep(next, NoAnswers, Nothing)
  BY DEF NewAggregator
<1>2. /\ WorkOK("v1", agg, work) /\ work \in Work /\ \A b \in Bases : PlainSession(plain[b])
  BY <1>1, InV1
<1>3. max \in Nat /\ max <= MaxOf["u128"]
  BY MaxAssumption DEF Bases, IntElement
<1>4. /\ Known(0) \in DelayedField /\ Known(0) # Nothing /\ Known(0).known /\ Known(0).value = 0
  BY Numbers
<1>5. /\ x \in Work /\ x.type = work.type /\ x.max = max /\ x.agg = Known(0)
      /\ x.base = work.base /\ x.destroyed = work.destroyed /\ x.snap = work.snap
      /\ x.string = work.string
  BY <1>2, <1>3, <1>4 DEF Work
<1>6. GiveValue(plain, next, f)
  BY DEF GiveValue
<1> HIDE DEF x, f, next
<1>7. \A b \in Bases : PlainSession(next[b])
  BY <1>2, <1>6, ValueGiven
<1>8. ~HasStored(agg, x)
  BY <1>1, <1>2, <1>5 DEF WorkOK, HasStored
<1>9. WorkOK("v1", agg, x)
  BY <1>2, <1>3, <1>4, <1>5, <1>8 DEF WorkOK, NumberFits
<1> QED  BY <1>1, <1>7, <1>8, <1>9, WithoutStored

LEMMA DestroyKeeps ==
  ASSUME AggIInv, Destroy
  PROVE  AggIInv'
<1> DEFINE e == work.destroyed \/ ~work.made
           x == [work EXCEPT !.agg = Nothing, !.history = EmptyHistory, !.made = FALSE,
                             !.destroyed = e]
           f == [b \in Bases |-> Nothing]
           next == [b \in Bases |-> [plain[b] EXCEPT !.value = Nothing]]
<1>1. Runs("v1") /\ work.agg # Nothing /\ Goes(x) /\ PlainStep(next, NoAnswers, Nothing)
  BY DEF Destroy, V1, RemoveAggregator
<1>2. /\ WorkOK("v1", agg, work) /\ work \in Work /\ \A b \in Bases : PlainSession(plain[b])
  BY <1>1, InV1
<1>3. EmptyHistory \in History
  BY NothingLearnt
<1>4. e \in BOOLEAN /\ e = (work.destroyed \/ ~work.made)
  BY <1>2, Parts
<1>5. x = [work EXCEPT !.agg = Nothing, !.history = EmptyHistory, !.made = FALSE,
                       !.destroyed = e]
  OBVIOUS
<1>6. GiveValue(plain, next, f)
  BY DEF GiveValue
<1> HIDE DEF e, x, f, next
<1>7. /\ x \in Work /\ x.type = work.type /\ x.max = work.max /\ x.agg = Nothing
      /\ x.base = work.base /\ x.destroyed = e /\ x.snap = work.snap
      /\ x.string = work.string
  BY <1>2, <1>3, <1>4, <1>5 DEF Work
<1>8. \A b \in Bases : PlainSession(next[b])
  BY <1>2, <1>6, ValueGiven
<1>9. ~HasStored(agg, x)
  BY <1>1, <1>2, <1>4, <1>7 DEF WorkOK, HasStored
<1>10. WorkOK("v1", agg, x)
  BY <1>2, <1>7, <1>9 DEF WorkOK, NumberFits
<1> QED  BY <1>1, <1>8, <1>9, <1>10, WithoutStored

\* read_and_materialize.
LEMMA ReadV1Keeps ==
  ASSUME AggIInv, ReadV1
  PROVE  AggIInv'
<1>1. CASE Dropped("OUT_OF_BOUNDS")
  BY <1>1, DroppedKeeps
<1>2. CASE ~Dropped("OUT_OF_BOUNDS")
  <2> DEFINE x == ReadExactly(work)
             answers == [b \in Bases |-> plain[b].value]
  <2>1. /\ Runs("v1") /\ work.agg # Nothing
        /\ ~work.agg.known => Fits(work.history, work.base, work.max)
        /\ Goes(x) /\ PlainStep(plain, answers, x.agg.value)
    BY <1>2 DEF ReadV1, V1
  <2>2. /\ mode # "idle" /\ version = "v1" /\ SessionOK("v1", agg, work, plain)
        /\ StoredOK("v1", agg) /\ \A b \in Bases : PlainSession(plain[b])
    BY <2>1, InV1
  <2>3. SessionOK("v1", agg, x, plain) /\ x.agg # Nothing /\ x.agg.known
    BY <2>1, <2>2, ReadIsOK
  <2>4. WorkOK("v1", agg, x)
    BY <2>3 DEF SessionOK
  <2>5. \A b \in Bases : answers[b] = plain[b].value
    OBVIOUS
  <2>6. PlainGoesOn(plain, plain, answers, x.agg.value, plain')
    BY <2>1, PlainStepGoesOn
  <2> HIDE DEF x, answers
  <2>7. ASSUME NEW b \in 0 .. agg.max, HasStored(agg, x), HoldsAt(x, plain[b], b)
        PROVE  answers[b] = x.agg.value
    <3>1. b \in Bases
      BY <2>2, <2>7, MaxAssumption DEF StoredOK, Bases, Aggregator, IntElement, HasStored
    <3> QED  BY <2>3, <2>5, <2>7, <3>1 DEF HoldsAt, At
  <2>8. SessionOK("v1", agg, x, plain')
    BY <2>2, <2>3, <2>4, <2>6, <2>7, NativeIsOK
  <2> QED  BY <2>1, <2>2, <2>8, GoesOn
<1> QED  BY <1>1, <1>2

\* add and sub.
SumOf(w, sum) == [w EXCEPT !.agg = Delta(sum), !.history = RecordSuccess(@, sum)]

\* The numbers that fit g are those that fit h and with the sum stay within bounds.
FitsWithSum(g, h, sum) ==
  \A b \in Int, max \in Int :
    Fits(g, b, max) <=> Fits(h, b, max) /\ b + sum <= max /\ b + sum >= 0

LEMMA SumIs ==
  ASSUME NEW w \in Work, NEW sum \in Int, NEW x, x = SumOf(w, sum)
  PROVE  /\ x \in Work /\ x.agg # Nothing /\ ~x.agg.known /\ x.agg.value = sum
         /\ x.history \in History /\ Achieved(x.history, sum)
         /\ FitsWithSum(x.history, w.history, sum)
         /\ x.type = w.type /\ x.max = w.max /\ x.base = w.base /\ x.exact = w.exact
         /\ x.made = w.made /\ x.destroyed = w.destroyed /\ x.snap = w.snap
         /\ x.string = w.string
<1> DEFINE h == RecordSuccess(w.history, sum)
           n == Delta(sum)
<1>1. w.history \in History
  BY Parts
<1>2. h \in History /\ Achieved(h, sum) /\ FitsWithSum(h, w.history, sum)
  BY <1>1, SuccessRecorded DEF FitsWithSum
<1>3. n \in DelayedField /\ n # Nothing /\ ~n.known /\ n.value = sum
  BY Numbers
<1>4. x = [w EXCEPT !.agg = n, !.history = h]
  BY DEF SumOf
<1> HIDE DEF h, n
<1>5. /\ x \in Work /\ x.agg = n /\ x.history = h
      /\ x.type = w.type /\ x.max = w.max /\ x.base = w.base /\ x.exact = w.exact
      /\ x.made = w.made /\ x.destroyed = w.destroyed /\ x.snap = w.snap
      /\ x.string = w.string
  BY <1>2, <1>3, <1>4 DEF Work
<1> QED  BY <1>2, <1>3, <1>5

LEMMA KnownSumIs ==
  ASSUME NEW w \in Work, NEW sum \in Int, NEW x, x = [w EXCEPT !.agg = Known(sum)]
  PROVE  /\ x \in Work /\ x.agg # Nothing /\ x.agg.known /\ x.agg.value = sum
         /\ x.history = w.history
         /\ x.type = w.type /\ x.max = w.max /\ x.base = w.base /\ x.exact = w.exact
         /\ x.made = w.made /\ x.destroyed = w.destroyed /\ x.snap = w.snap
         /\ x.string = w.string
<1> DEFINE n == Known(sum)
<1>1. n \in DelayedField /\ n # Nothing /\ n.known /\ n.value = sum /\ x = [w EXCEPT !.agg = n]
  BY Numbers
<1> HIDE DEF n
<1>2. /\ x \in Work /\ x.agg = n /\ x.history = w.history
      /\ x.type = w.type /\ x.max = w.max /\ x.base = w.base /\ x.exact = w.exact
      /\ x.made = w.made /\ x.destroyed = w.destroyed /\ x.snap = w.snap
      /\ x.string = w.string
  BY <1>1 DEF Work
<1> QED  BY <1>1, <1>2

LEMMA AddOrSubKeeps ==
  ASSUME AggIInv, NEW input \in Int, AddOrSub(input)
  PROVE  AggIInv'
<1> DEFINE sum == work.agg.value + input
           x == IF work.agg.known THEN [work EXCEPT !.agg = Known(sum)] ELSE SumOf(work, sum)
           f == [b \in Bases |-> plain[b].value + input]
           next == [b \in Bases |-> [plain[b] EXCEPT !.value = @ + input]]
           answers == [b \in Bases |-> InBounds(plain[b].value, input, work.max)]
<1>1. Runs("v1") /\ work.agg # Nothing /\ PlainStep(next, answers, TRUE) /\ Goes(x)
  BY DEF AddOrSub, V1, Sum, SumOf
<1>2. IF work.agg.known THEN InBounds(work.agg.value, input, work.max)
      ELSE sum <= work.max /\ 0 - sum <= work.max
  BY DEF AddOrSub, Sum
<1>3. /\ mode # "idle" /\ version = "v1" /\ SessionOK("v1", agg, work, plain)
      /\ WorkOK("v1", agg, work) /\ work \in Work
      /\ StoredOK("v1", agg) /\ \A b \in Bases : PlainSession(plain[b])
  BY <1>1, InV1
<1>4. /\ work.agg.value \in Int /\ work.agg.known \in BOOLEAN /\ work.base \in Nat
      /\ work.max \in Nat /\ sum \in Int
  BY <1>1, <1>3, Parts DEF DelayedField
<1>5. /\ \A b \in Bases : answers[b] = InBounds(plain[b].value, input, work.max)
      /\ sum = work.agg.value + input
  OBVIOUS
<1>6. /\ work.agg.known => x = [work EXCEPT !.agg = Known(sum)]
      /\ ~work.agg.known => x = SumOf(work, sum)
  OBVIOUS
<1>7. \A b \in Bases : f[b] = plain[b].value + input
  OBVIOUS
<1>8. GiveValue(plain, next, f)
  <2>1. \A b \in Bases : next[b] = [plain[b] EXCEPT !.value = plain[b].value + input]
    BY <1>3 DEF PlainSession
  <2> HIDE DEF next
  <2> QED  BY <2>1 DEF GiveValue
<1> HIDE DEF sum, x, f, next, answers
<1>9. \A b \in Bases :
        /\ PlainSession(next[b]) /\ next[b].agrees = plain[b].agrees /\ next[b].value = f[b]
        /\ next[b].snap = plain[b].snap /\ next[b].string = plain[b].string
  BY <1>3, <1>8, ValueGiven
<1>10. /\ x \in Work /\ x.agg # Nothing /\ x.agg.value = sum
       /\ x.type = work.type /\ x.max = work.max /\ x.base = work.base /\ x.exact = work.exact
       /\ x.made = work.made /\ x.destroyed = work.destroyed /\ x.snap = work.snap
       /\ x.string = work.string /\ x.history \in History
       /\ work.agg.known => x.agg.known /\ x.history = work.history
       /\ ~work.agg.known =>
            /\ ~x.agg.known /\ Achieved(x.history, sum)
            /\ FitsWithSum(x.history, work.history, sum)
  <2>1. CASE work.agg.known
    BY <1>3, <1>4, <1>6, <2>1, KnownSumIs, Parts
  <2>2. CASE ~work.agg.known
    <3>1. x = SumOf(work, sum) /\ work \in Work /\ sum \in Int
      BY <1>3, <1>4, <1>6, <2>2
    <3>2. /\ x \in Work /\ x.agg # Nothing /\ ~x.agg.known /\ x.agg.value = sum
          /\ x.history \in History /\ Achieved(x.history, sum)
      BY <3>1, SumIs
    <3>3. FitsWithSum(x.history, work.history, sum)
      BY <3>1, SumIs
    <3>4. /\ x.type = work.type /\ x.max = work.max /\ x.base = work.base
          /\ x.exact = work.exact /\ x.made = work.made /\ x.destroyed = work.destroyed
          /\ x.snap = work.snap /\ x.string = work.string
      BY <3>1, SumIs
    <3> QED  BY <2>2, <3>2, <3>3, <3>4
  <2> QED  BY <2>1, <2>2
<1>11. NumberFits(agg, x)
  <2>1. work.agg.known => sum \in 0 .. work.max
    BY <1>2, <1>4, <1>5 DEF InBounds
  <2>2. ~work.agg.known => agg # Nothing /\ ~work.destroyed /\ work.max = agg.max
    BY <1>1, <1>3 DEF WorkOK, NumberFits
  <2> QED  BY <1>10, <2>1, <2>2 DEF NumberFits
<1>12. WorkOK("v1", agg, x)
  BY <1>3, <1>10, <1>11 DEF WorkOK, HasStored
<1>13. ASSUME NEW b \in 0 .. agg.max, HasStored(agg, x)
       PROVE  /\ FitsWork(x, b, agg.max) => FitsWork(work, b, agg.max)
              /\ FitsWork(x, b, agg.max) /\ HoldsAt(work, plain[b], b) =>
                   answers[b] = TRUE /\ HoldsAt(x, next[b], b)
              /\ (x.exact => b = x.base) => (work.exact => b = work.base)
              /\ HoldsAt(work, plain[b], b) /\ Fits(work.history, b, agg.max)
                   /\ answers[b] = TRUE /\ (x.exact => b = x.base) => Fits(x.history, b, agg.max)
  <2>1. b \in Bases /\ agg.max \in Int /\ b \in Int
    BY <1>3, <1>13, MaxAssumption DEF StoredOK, Bases, Aggregator, IntElement, HasStored
  <2>2. FitsWork(x, b, agg.max) => FitsWork(work, b, agg.max)
    BY <1>10, <2>1 DEF FitsWork, FitsWithSum
  <2>3. ASSUME HoldsAt(work, plain[b], b)
        PROVE  /\ answers[b] = InBounds(At(work.agg, b), input, work.max)
               /\ next[b].value = At(work.agg, b) + input
    BY <1>5, <1>7, <1>9, <2>1, <2>3 DEF HoldsAt
  <2>4. CASE work.agg.known
    <3>1. InBounds(At(work.agg, b), input, work.max) = TRUE
      BY <1>2, <1>4, <2>4 DEF At, InBounds
    <3>2. At(x.agg, b) = At(work.agg, b) + input
      BY <1>5, <1>10, <2>4 DEF At
    <3> QED  BY <1>9, <1>10, <2>1, <2>2, <2>3, <2>4, <3>1, <3>2 DEF HoldsAt
  <2>5. CASE ~work.agg.known
    <3>1. work.max = agg.max
      BY <1>1, <1>3, <2>5 DEF WorkOK, NumberFits
    <3>2. InBounds(At(work.agg, b), input, work.max) <=> b + sum <= agg.max /\ b + sum >= 0
      BY <1>4, <1>5, <2>1, <2>5, <3>1 DEF At, InBounds
    <3>3. InBounds(At(work.agg, b), input, work.max) \in BOOLEAN
      BY DEF InBounds
    <3>4. At(x.agg, b) = At(work.agg, b) + input
      BY <1>4, <1>5, <1>10, <2>1, <2>5 DEF At
    <3>5. Fits(x.history, b, agg.max) <=>
            Fits(work.history, b, agg.max) /\ b + sum <= agg.max /\ b + sum >= 0
      BY <1>10, <2>1, <2>5 DEF FitsWithSum
    <3>6. ASSUME FitsWork(x, b, agg.max), HoldsAt(work, plain[b], b)
          PROVE  answers[b] = TRUE /\ HoldsAt(x, next[b], b)
      <4>1. answers[b] = TRUE
        BY <2>3, <3>2, <3>3, <3>5, <3>6 DEF FitsWork
      <4> QED  BY <1>9, <1>10, <2>1, <2>3, <3>4, <3>6, <4>1 DEF HoldsAt
    <3>7. ASSUME HoldsAt(work, plain[b], b), Fits(work.history, b, agg.max), answers[b] = TRUE
          PROVE  Fits(x.history, b, agg.max)
      BY <2>3, <3>2, <3>5, <3>7
    <3> QED  BY <1>10, <2>2, <3>6, <3>7
  <2> QED  BY <2>4, <2>5
<1>14. SessionOK("v1", agg, x, plain')
  <2>1. PlainGoesOn(plain, next, answers, TRUE, plain')
    BY <1>1, PlainStepGoesOn
  <2>2. HasStored(agg, x) => HasStored(agg, work)
    BY <1>10 DEF HasStored
  <2>3. \A b \in Bases : PlainSession(next[b])
    BY <1>9
  <2>4. HasStored(agg, x) => \A b \in 0 .. agg.max :
          /\ FitsWork(x, b, agg.max) => FitsWork(work, b, agg.max)
          /\ FitsWork(x, b, agg.max) /\ HoldsAt(work, plain[b], b) =>
               answers[b] = TRUE /\ HoldsAt(x, next[b], b)
          /\ "v1" = "v1" => ((x.exact => b = x.base) => (work.exact => b = work.base))
          /\ "v1" = "v1" /\ HoldsAt(work, plain[b], b) /\ Fits(work.history, b, agg.max)
               /\ answers[b] = TRUE /\ (x.exact => b = x.base) => Fits(x.history, b, agg.max)
    BY <1>13
  <2> QED  BY <1>3, <1>12, <2>1, <2>2, <2>3, <2>4, NativeIsOK
<1> QED  BY <1>1, <1>3, <1>14, GoesOn

LEMMA V1Keeps ==
  ASSUME AggIInv, NEW n \in Inputs, Add(n) \/ Sub(n) \/ NewAggregator(n)
  PROVE  AggIInv'
<1>1. n \in Int /\ 0 - n \in Int
  BY MaxAssumption DEF Bases
<1>2. CASE Fails(n) \/ Fails(0 - n)
  BY <1>2, DroppedKeeps DEF Fails
<1> QED  BY <1>1, <1>2, AddOrSubKeeps, NewAggregatorKeeps DEF Add, Sub

-----------------------------------------------------------------------------
(* Aggregators: sessions.                                                  *)

LEMMA StoredBounds ==
  ASSUME NEW v, NEW a, StoredOK(v, a), a # Nothing
  PROVE  /\ a \in Aggregator /\ a.type \in IntElement /\ a.max \in Nat /\ a.value \in 0 .. a.max
         /\ a.max <= MaxOf[a.type] /\ (v = "v1" => a.type = "u128") /\ a.value \in Bases
BY MaxAssumption DEF StoredOK, Aggregator, Bases, IntElement

LEMMA StartIs ==
  ASSUME NEW a, NEW w, w = Start(a)
  PROVE  /\ w.type = (IF a # Nothing THEN a.type ELSE "u128")
         /\ w.max = (IF a # Nothing THEN a.max ELSE 0)
         /\ w.agg = (IF a # Nothing THEN Delta(0) ELSE Nothing)
         /\ w.base = (IF a # Nothing THEN a.value ELSE 0)
         /\ w.history = EmptyHistory /\ w.exact = FALSE /\ w.made = FALSE
         /\ w.destroyed = FALSE /\ w.snap = Nothing /\ w.string = Nothing
BY DEF Start

\* A session begins in order.
LEMMA StartIsOK ==
  ASSUME NEW v \in {"v1", "v2"}, NEW a, StoredOK(v, a), NEW w, w = Start(a),
         NEW p, p = PlainStart(a)
  PROVE  SessionOK(v, a, w, p)
<1>1. /\ Delta(0) \in DelayedField /\ Delta(0) # Nothing /\ ~Delta(0).known /\ Delta(0).value = 0
      /\ \A b \in Int : At(Delta(0), b) = b + 0
  BY Numbers
<1>2. /\ EmptyHistory \in History /\ Achieved(EmptyHistory, 0)
      /\ \A b \in Int, max \in Int : Fits(EmptyHistory, b, max) <=> b \in 0 .. max
  BY NothingLearnt
<1>3. a # Nothing => /\ a.type \in IntElement /\ a.max \in Nat /\ a.value \in 0 .. a.max
                     /\ a.max <= MaxOf[a.type] /\ (v = "v1" => a.type = "u128")
  BY StoredBounds
<1>4. 0 <= MaxOf["u128"] /\ "u128" \in IntElement
  BY MaxAssumption DEF IntElement
<1>5. w \in Work
  <2> DEFINE t == IF a # Nothing THEN a.type ELSE "u128"
             m == IF a # Nothing THEN a.max ELSE 0
             g == IF a # Nothing THEN Delta(0) ELSE Nothing
             n == IF a # Nothing THEN a.value ELSE 0
  <2>1. t \in IntElement /\ m \in Nat /\ g \in {Nothing} \cup DelayedField /\ n \in Nat
    BY <1>1, <1>3, <1>4
  <2>2. w = [type |-> t, max |-> m, agg |-> g, base |-> n,
             history |-> EmptyHistory, exact |-> FALSE, made |-> FALSE, destroyed |-> FALSE,
             snap |-> Nothing, snapRead |-> Nothing, string |-> Nothing, ops |-> 0]
    BY DEF Start
  <2> HIDE DEF t, m, g, n
  <2> QED  BY <1>2, <2>1, <2>2 DEF Work
<1>6. /\ w.type = (IF a # Nothing THEN a.type ELSE "u128")
      /\ w.max = (IF a # Nothing THEN a.max ELSE 0)
      /\ w.agg = (IF a # Nothing THEN Delta(0) ELSE Nothing)
      /\ w.base = (IF a # Nothing THEN a.value ELSE 0)
      /\ w.history = EmptyHistory /\ w.exact = FALSE /\ w.made = FALSE
      /\ w.destroyed = FALSE /\ w.snap = Nothing /\ w.string = Nothing
  BY StartIs
<1>7. NumberFits(a, w)
  BY <1>1, <1>2, <1>6 DEF NumberFits
<1>8. v = "v2" => a # Nothing
  BY DEF StoredOK
<1>9. HasStored(a, w) <=> a # Nothing
  BY <1>6 DEF HasStored
<1>10. WorkOK(v, a, w)
  <2>1. CASE a # Nothing
    BY <1>1, <1>2, <1>3, <1>5, <1>6, <1>7, <1>9, <2>1 DEF WorkOK
  <2>2. CASE a = Nothing
    BY <1>4, <1>5, <1>6, <1>7, <1>8, <1>9, <2>2 DEF WorkOK
  <2> QED  BY <2>1, <2>2
<1>11. ASSUME NEW b \in Bases, NEW q, q = p[b],
              NEW y, y = IF a = Nothing THEN Nothing ELSE b
       PROVE  PlainSession(q) /\ q.agrees = TRUE /\ q.value = y
  <2>1. q = [agrees |-> TRUE, value |-> y, snap |-> Nothing, string |-> Nothing]
    BY <1>11 DEF PlainStart
  <2> QED  BY <2>1 DEF PlainSession
<1>12. \A b \in Bases : PlainSession(p[b])
  BY <1>11
<1>13. ASSUME a # Nothing, NEW b \in 0 .. a.max PROVE Follows(v, a.max, w, p[b], b)
  <2>1. b \in Bases
    BY <1>13, MaxAssumption DEF StoredOK, Bases, Aggregator, IntElement
  <2>2. p[b].agrees = TRUE /\ p[b].value = b
    BY <1>11, <1>13, <2>1
  <2>3. Fits(w.history, b, a.max)
    BY <1>2, <1>3, <1>6, <1>13
  <2>4. w.agg # Nothing /\ At(w.agg, b) = b
    BY <1>1, <1>6, <1>13
  <2> QED  BY <1>6, <2>2, <2>3, <2>4 DEF Follows, HoldsAt
<1> QED  BY <1>9, <1>10, <1>12, <1>13 DEF SessionOK

\* What a session has depends on storage only through the maximum of the aggregator.
LEMMA SameMaxIsOK ==
  ASSUME NEW v, NEW a, NEW w, NEW p, SessionOK(v, a, w, p),
         NEW c, a # Nothing, c # Nothing, c.max = a.max
  PROVE  SessionOK(v, c, w, p)
BY DEF SessionOK, WorkOK, NumberFits, HasStored

LEMMA BeginKeeps ==
  ASSUME AggIInv, Begin
  PROVE  AggIInv'
<1> DEFINE w == Start(agg)
           p == PlainStart(agg)
<1>1. /\ mode' \in {"plain", "delayed"} /\ (version = "v1" => mode' = "delayed")
      /\ work' = w /\ plain' = p /\ outcome' = Nothing
      /\ UNCHANGED <<version, agg, snap>>
  BY DEF Begin, storedVars
<1>2. version \in {"v1", "v2"} /\ StoredOK(version, agg)
  BY DEF AggIInv
<1>3. SessionOK(version, agg, w, p)
  BY <1>2, StartIsOK
<1> HIDE DEF w, p
<1> QED  BY <1>1, <1>3 DEF AggIInv

LEMMA OthersCommitKeeps ==
  ASSUME AggIInv, OthersCommit
  PROVE  AggIInv'
<1>1. PICK n \in 0 .. agg.max : agg' = [agg EXCEPT !.value = n]
  BY DEF OthersCommit
<1>2. mode # "idle" /\ agg # Nothing /\ snap' \in {snap, agg'.value}
      /\ UNCHANGED <<version, mode, work, plain, outcome>>
  BY DEF OthersCommit
<1>3. /\ agg \in Aggregator /\ agg.max <= MaxOf[agg.type] /\ (version = "v1" => agg.type = "u128")
      /\ agg.max \in Nat
  BY <1>2, StoredBounds DEF AggIInv
<1>4. n \in Bases
  BY <1>2, StoredBounds, MaxAssumption DEF AggIInv, Bases, IntElement
<1>5. /\ agg' \in Aggregator /\ agg'.max = agg.max /\ agg'.type = agg.type /\ agg'.value = n
  BY <1>1, <1>3, <1>4 DEF Aggregator
<1>6. agg' # Nothing
  BY <1>5, NothingAssumption
<1>7. StoredOK(version, agg')
  BY <1>3, <1>5, <1>6 DEF StoredOK
<1>8. SessionOK(version, agg', work, plain)
  BY <1>2, <1>5, <1>6, SameMaxIsOK DEF AggIInv
<1>9. snap' \in {Nothing} \cup Int
  BY <1>2, <1>4, <1>5 DEF AggIInv, Bases
<1> QED  BY <1>2, <1>7, <1>8, <1>9 DEF AggIInv

\* What a session leaves in storage.
Committed(w, n) == [type |-> w.type, max |-> w.max, value |-> At(w.agg, n)]

LEMMA CommittedOK ==
  ASSUME NEW v \in {"v1", "v2"}, NEW a, NEW w, WorkOK(v, a, w), StoredOK(v, a),
         w.agg # Nothing, NEW n \in Int, ~w.agg.known => Fits(w.history, n, w.max),
         NEW c, c = Committed(w, n)
  PROVE  StoredOK(v, c) /\ c # Nothing /\ c.value = At(w.agg, n)
<1>1. At(w.agg, n) \in 0 .. w.max
  BY NumberInBounds
<1>2. /\ w.type \in IntElement /\ w.max \in Nat /\ w.max <= MaxOf[w.type]
      /\ v = "v1" => w.type = "u128"
  BY Parts DEF WorkOK
<1>3. w.max \in Bases
  BY <1>2, MaxAssumption DEF Bases, IntElement
<1>4. /\ c.type = w.type /\ c.max = w.max /\ c.value = At(w.agg, n)
      /\ c \in Aggregator
  <2>1. At(w.agg, n) \in Bases
    <3>1. MaxOf["u128"] \in Nat /\ w.max <= MaxOf["u128"]
      BY <1>3, MaxAssumption DEF Bases, IntElement
    <3>2. ASSUME NEW i, i = At(w.agg, n) PROVE i \in Bases
      BY <1>1, <1>2, <3>1, <3>2 DEF Bases
    <3> QED  BY <3>2
  <2> QED  BY <1>2, <1>3, <2>1 DEF Committed, Aggregator
<1>5. c # Nothing
  BY <1>4, NothingAssumption
<1> QED  BY <1>1, <1>2, <1>4, <1>5 DEF StoredOK

LEMMA NumberIsInt ==
  ASSUME AggIInv
  PROVE  Number \in Int /\ (agg # Nothing => Number = agg.value)
<1>1. agg # Nothing => agg.value \in Int
  BY StoredBounds DEF AggIInv
<1> QED  BY <1>1 DEF Number

LEMMA DelayedFieldChangesKeeps ==
  ASSUME AggIInv, DelayedFieldChanges
  PROVE  AggIInv'
<1>1. CASE ~ValidNow
  BY <1>1, DroppedKeeps DEF DelayedFieldChanges
<1>2. CASE ValidNow
  <2>1. /\ agg' = Committed(work, Number) /\ mode' = "idle" /\ version' = version
        /\ snap' = IF work.snap = Nothing THEN snap ELSE At(work.snap, Number)
        /\ mode # "idle" /\ version = "v2"
    BY <1>2 DEF DelayedFieldChanges, Committed, Ends
  <2>2. WorkOK("v2", agg, work) /\ StoredOK("v2", agg) /\ work \in Work
    BY <2>1, InSession
  <2>3. /\ agg # Nothing /\ work.agg # Nothing
        /\ ~work.agg.known => work.max = agg.max
    BY <2>2 DEF WorkOK, NumberFits, HasStored
  <2>4. Number \in Int /\ Number = agg.value
    BY <2>3, NumberIsInt
  <2>5. ~work.agg.known => Fits(work.history, Number, work.max)
    BY <1>2, <2>3, <2>4 DEF ValidNow, Valid
  <2>6. StoredOK("v2", agg')
    BY <2>1, <2>2, <2>3, <2>4, <2>5, CommittedOK
  <2>7. snap' \in {Nothing} \cup Int
    <3>1. work.snap # Nothing => At(work.snap, Number) \in Int
      BY <2>2, <2>4, Parts DEF At, DelayedField
    <3> QED  BY <2>1, <3>1 DEF AggIInv
  <2> QED  BY <2>1, <2>6, <2>7 DEF AggIInv
<1> QED  BY <1>1, <1>2

LEMMA AggregatorV1ChangesKeeps ==
  ASSUME AggIInv, AggregatorV1Changes
  PROVE  AggIInv'
<1>1. CASE Dropped("RUN_AGAIN") \/ Dropped("OUT_OF_BOUNDS")
  BY <1>1, DroppedKeeps
<1>2. CASE ~(Dropped("RUN_AGAIN") \/ Dropped("OUT_OF_BOUNDS"))
  <2>1. /\ agg' = IF work.agg = Nothing THEN Nothing ELSE Committed(work, Number)
        /\ mode' = "idle" /\ version' = version /\ snap' = snap
        /\ mode # "idle" /\ version = "v1"
        /\ work.agg # Nothing /\ ~work.agg.known => Fits(work.history, Number, work.max)
    BY <1>2 DEF AggregatorV1Changes, Committed, Ends
  <2>2. WorkOK("v1", agg, work) /\ StoredOK("v1", agg)
    BY <2>1, InSession
  <2>3. StoredOK("v1", agg')
    <3>1. CASE work.agg = Nothing
      BY <2>1, <3>1 DEF StoredOK
    <3>2. CASE work.agg # Nothing
      BY <2>1, <2>2, <3>2, NumberIsInt, CommittedOK
    <3> QED  BY <3>1, <3>2
  <2> QED  BY <2>1, <2>3 DEF AggIInv
<1> QED  BY <1>1, <1>2

LEMMA SetFeatureKeeps ==
  ASSUME AggIInv, SetFeature
  PROVE  AggIInv'
BY DEF AggIInv, SetFeature, storedVars

LEMMA InitHoldsAgg == AggregatorsInit => AggIInv
<1> SUFFICES ASSUME AggregatorsInit PROVE AggIInv
  OBVIOUS
<1>1. PICK type \in IntElement, max \in Inputs :
        /\ 0 < max /\ max <= MaxOf[type]
        /\ version = "v1" => type = "u128"
        /\ agg = [type |-> type, max |-> max, value |-> 0]
  BY DEF AggregatorsInit
<1>2. max \in Bases /\ 0 \in Bases
  BY MaxAssumption DEF Bases, IntElement
<1>3. agg \in Aggregator /\ agg.type = type /\ agg.max = max /\ agg.value = 0
  BY <1>1, <1>2 DEF Aggregator
<1>4. agg # Nothing
  BY <1>3, NothingAssumption
<1>5. StoredOK(version, agg)
  <2>1. 0 <= max /\ max <= MaxOf[type] /\ (version = "v1" => type = "u128")
    BY <1>1, <1>2 DEF Bases
  <2> QED  BY <1>3, <1>4, <2>1 DEF StoredOK
<1> QED  BY <1>5 DEF AggIInv, AggregatorsInit

LEMMA AggStep == AggIInv /\ [AggregatorsNext]_aggVars => AggIInv'
<1> SUFFICES ASSUME AggIInv, [AggregatorsNext]_aggVars PROVE AggIInv'
  OBVIOUS
<1>1. CASE UNCHANGED aggVars
  BY <1>1 DEF aggVars, storedVars, AggIInv
<1>2. CASE \/ ApiNotEnabled \/ CreateAggregator \/ CreateUnboundedAggregator \/ NotYetSupported
           \/ \E n \in Inputs : \/ TryAdd(n) \/ TrySub(n)
                                \/ LessThan(n) \/ LessThanOrEqual(n)
                                \/ GreaterThan(n) \/ GreaterThanOrEqual(n)
  BY <1>2, V2Keeps
<1>3. CASE Read \/ Snapshot \/ ReadSnapshot \/ ReadStoredSnapshot \/ ReadDerivedString
  BY <1>3, ReadKeeps, SnapshotKeeps, ReadSnapshotKeeps, ReadStoredSnapshotKeeps,
     ReadDerivedStringKeeps
<1>4. CASE \E n \in Inputs : CreateSnapshot(n)
  BY <1>4, CreateSnapshotKeeps
<1>5. CASE \E n \in Inputs : Add(n) \/ Sub(n) \/ NewAggregator(n)
  BY <1>5, V1Keeps
<1>6. CASE \E text \in Texts : CreateDerivedString(text) \/ DeriveStringConcat(text)
  BY <1>6, CreateDerivedStringKeeps, DeriveStringConcatKeeps
<1>7. CASE ReadV1 \/ Destroy
  BY <1>7, ReadV1Keeps, DestroyKeeps
<1>8. CASE SetFeature \/ Begin \/ OthersCommit
  BY <1>8, SetFeatureKeeps, BeginKeeps, OthersCommitKeeps
<1>9. CASE DelayedFieldChanges \/ AggregatorV1Changes
  BY <1>9, DelayedFieldChangesKeeps, AggregatorV1ChangesKeeps
<1> QED  BY <1>1, <1>2, <1>3, <1>4, <1>5, <1>6, <1>7, <1>8, <1>9 DEF AggregatorsNext

LEMMA AggIInvAlways == AggregatorsSpec => []AggIInv
BY InitHoldsAgg, AggStep, PTL DEF AggregatorsSpec

-----------------------------------------------------------------------------
(* Aggregators: the theorems.                                              *)

LEMMA SessionFollows ==
  ASSUME AggIInv, mode # "idle", agg # Nothing, ~work.destroyed, NEW b \in 0 .. agg.max
  PROVE  Follows(version, agg.max, work, plain[b], b)
BY DEF AggIInv, SessionOK, HasStored

\* A delayed session answers what the plain session would have answered, and holds what it
\* would have held, for every number that fits what it learnt.
THEOREM PlainAgreesAlways == AggregatorsSpec => []PlainAgrees
<1>1. AggIInv => PlainAgrees
  <2> SUFFICES ASSUME AggIInv, mode # "idle", agg # Nothing, ~work.destroyed,
                      NEW b \in 0 .. agg.max, Valid(b, agg.max)
               PROVE  HoldsAt(work, plain[b], b)
    BY DEF PlainAgrees, HoldsAt
  <2> QED  BY SessionFollows DEF Follows, FitsWork, Valid
<1> QED  BY <1>1, AggIInvAlways, PTL

\* A session never stops at a check that should hold, runs again only if the number was not
\* as predicted, and in version 1 fails only where the plain session would have failed.
THEOREM NoNeedlessFailureAlways == AggregatorsSpec => []NoNeedlessFailure
<1>1. AggIInv => NoNeedlessFailure
  <2> SUFFICES ASSUME AggIInv PROVE NoNeedlessFailure
    OBVIOUS
  <2>1. agg # Nothing => agg.value \in 0 .. agg.max /\ agg.max <= MaxOf[agg.type]
    BY StoredBounds DEF AggIInv
  <2>2. version = "v2" /\ mode # "idle" =>
          Now \in 0 .. work.max /\ work.max <= MaxOf[work.type]
    BY InSession DEF WorkOK, Now
  <2>3. mode # "idle" /\ version = "v2" => Fits(work.history, work.base, agg.max)
    BY InSession DEF WorkOK
  <2>4. ASSUME mode # "idle", agg # Nothing, version = "v1", ~work.destroyed,
               NEW b \in 0 .. agg.max, plain[b].agrees, work.exact => b = work.base
        PROVE  Fits(work.history, b, agg.max)
    BY <2>4, SessionFollows DEF Follows
  <2> QED  BY <2>1, <2>2, <2>3, <2>4 DEF NoNeedlessFailure, ReadsWithinMax
<1> QED  BY <1>1, AggIInvAlways, PTL

\* Only the two changes commit.
LEMMA OnlyChangesCommit ==
  ASSUME AggIInv, [AggregatorsNext]_aggVars, mode # "idle", outcome' = "committed"
  PROVE  \/ DelayedFieldChanges /\ ValidNow
         \/ AggregatorV1Changes /\ ~Dropped("RUN_AGAIN") /\ ~Dropped("OUT_OF_BOUNDS")
<1>1. Nothing # "committed" /\ outcome = Nothing
  BY NothingAssumption DEF AggIInv
<1>2. ASSUME NEW x, Goes(x) PROVE FALSE
  BY <1>1, <1>2 DEF Goes
<1>3. ASSUME NEW how, Dropped(how), how # "committed" PROVE FALSE
  BY <1>3 DEF Dropped
<1>4. CASE UNCHANGED aggVars
  BY <1>1, <1>4 DEF aggVars
<1>5. CASE ApiNotEnabled \/ NotYetSupported
  BY <1>3, <1>5 DEF ApiNotEnabled, NotYetSupported
<1>6. CASE CreateAggregator \/ CreateUnboundedAggregator
  <2>1. ASSUME NEW type, NEW max, CreateAggregatorWithMaxValue(type, max) PROVE FALSE
    BY <1>2, <2>1 DEF CreateAggregatorWithMaxValue
  <2> QED  BY <1>3, <1>6, <2>1 DEF CreateAggregator, CreateUnboundedAggregator
<1>7. CASE Read \/ Snapshot \/ ReadSnapshot \/ ReadStoredSnapshot \/ ReadDerivedString
  BY <1>2, <1>7 DEF Read, Snapshot, ReadSnapshot, ReadStoredSnapshot, ReadDerivedString
<1>8. ASSUME NEW n, TryAdd(n) \/ TrySub(n) \/ CreateSnapshot(n) PROVE FALSE
  <2>1. ASSUME NEW i, Try(i) PROVE FALSE
    BY <1>2, <2>1 DEF Try
  <2> QED  BY <1>2, <1>3, <1>8, <2>1 DEF TryAdd, TrySub, CreateSnapshot
<1>9. ASSUME NEW n, LessThan(n) \/ LessThanOrEqual(n) \/ GreaterThan(n) \/ GreaterThanOrEqual(n)
      PROVE  FALSE
  BY <1>2, <1>9 DEF LessThan, LessThanOrEqual, GreaterThan, GreaterThanOrEqual, CompareImpl
<1>10. ASSUME NEW n, Add(n) \/ Sub(n) \/ NewAggregator(n) PROVE FALSE
  <2>1. ASSUME NEW i, AddOrSub(i) PROVE FALSE
    BY <1>2, <2>1 DEF AddOrSub, Sum
  <2>2. ASSUME NEW i, Fails(i) PROVE FALSE
    BY <1>3, <2>2 DEF Fails
  <2> QED  BY <1>2, <1>10, <2>1, <2>2 DEF Add, Sub, NewAggregator
<1>11. ASSUME NEW text, CreateDerivedString(text) \/ DeriveStringConcat(text) PROVE FALSE
  BY <1>2, <1>3, <1>11 DEF CreateDerivedString, DeriveStringConcat
<1>12. CASE ReadV1 \/ Destroy
  BY <1>2, <1>3, <1>12 DEF ReadV1, Destroy
<1>13. CASE SetFeature \/ Begin \/ OthersCommit
  BY <1>1, <1>13 DEF SetFeature, Begin, OthersCommit
<1>14. CASE DelayedFieldChanges
  BY <1>3, <1>14 DEF DelayedFieldChanges
<1>15. CASE AggregatorV1Changes
  BY <1>3, <1>15
<1> QED  BY <1>4, <1>5, <1>6, <1>7, <1>8, <1>9, <1>10, <1>11, <1>12, <1>13, <1>14, <1>15
         DEF AggregatorsNext

\* A session that commits leaves in storage what the plain session leaves that runs alone at
\* that moment: commits are atomic and ordered.
THEOREM CommitsAreSerialAlways == AggregatorsSpec => CommitsAreSerial
<1> DEFINE Serial ==
      mode # "idle" /\ outcome' = "committed" /\ agg # Nothing /\ ~work.destroyed =>
        /\ plain[agg.value].agrees
        /\ agg'.value = plain[agg.value].value
        /\ work.snap # Nothing => snap' = plain[agg.value].snap
        /\ work.string # Nothing => string' = plain[agg.value].string
<1>1. AggIInv /\ [AggregatorsNext]_aggVars => Serial
  <2> SUFFICES ASSUME AggIInv, [AggregatorsNext]_aggVars, mode # "idle", agg # Nothing,
                      outcome' = "committed", ~work.destroyed
               PROVE  /\ plain[agg.value].agrees
                      /\ agg'.value = plain[agg.value].value
                      /\ work.snap # Nothing => snap' = plain[agg.value].snap
                      /\ work.string # Nothing => string' = plain[agg.value].string
    OBVIOUS
  <2>1. Number = agg.value /\ agg.value \in 0 .. agg.max
    BY NumberIsInt, StoredBounds DEF AggIInv
  <2>2. WorkOK(version, agg, work) /\ HasStored(agg, work) /\ work.agg # Nothing
    BY InSession DEF WorkOK, HasStored
  <2>3. Follows(version, agg.max, work, plain[agg.value], agg.value)
    BY <2>1, SessionFollows
  <2>4. CASE DelayedFieldChanges /\ ValidNow
    <3>1. HoldsAt(work, plain[agg.value], agg.value)
      BY <2>3, <2>4 DEF ValidNow, Valid, Follows, FitsWork
    <3>2. /\ agg'.value = At(work.agg, Number)
          /\ work.snap # Nothing => snap' = At(work.snap, Number)
          /\ work.string # Nothing => string' = StringAt(work.string, Number)
      BY <2>4 DEF DelayedFieldChanges
    <3> QED  BY <2>1, <3>1, <3>2 DEF HoldsAt
  <2>5. CASE AggregatorV1Changes /\ ~Dropped("RUN_AGAIN") /\ ~Dropped("OUT_OF_BOUNDS")
    <3>1. /\ version = "v1" /\ (work.exact => agg.value = work.base)
          /\ ~work.agg.known => Fits(work.history, Number, work.max)
          /\ agg' = [type |-> work.type, max |-> work.max, value |-> At(work.agg, Number)]
      BY <2>2, <2>5 DEF AggregatorV1Changes
    <3>2. Fits(work.history, agg.value, agg.max)
      <4>1. CASE work.agg.known
        BY <2>2, <3>1, <4>1 DEF WorkOK
      <4>2. CASE ~work.agg.known
        BY <2>1, <2>2, <3>1, <4>2 DEF WorkOK, NumberFits
      <4> QED  BY <4>1, <4>2
    <3>3. HoldsAt(work, plain[agg.value], agg.value)
      BY <2>3, <3>1, <3>2 DEF Follows, FitsWork
    <3>4. work.snap = Nothing /\ work.string = Nothing
      BY <2>2, <3>1 DEF WorkOK
    <3> QED  BY <2>1, <3>1, <3>3, <3>4 DEF HoldsAt
  <2> QED  BY <2>4, <2>5, OnlyChangesCommit
<1>2. AggIInv /\ [AggregatorsNext]_aggVars => [Serial]_aggVars
  BY <1>1
<1> QED  BY <1>2, AggIInvAlways, PTL DEF AggregatorsSpec, CommitsAreSerial
=============================================================================
