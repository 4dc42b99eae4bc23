------------------------ MODULE SessionObjectsProofs ------------------------
(***************************************************************************)
(* What is true, for every value of the constants, of the things that a    *)
(* session gives a Move program to hold: first of what a transaction       *)
(* numbers or draws, then of the points of Ristretto and the elements of   *)
(* the algebra, last of the keys and signatures that a program gathers.    *)
(***************************************************************************)
EXTENDS Identifiers, Ristretto, Algebra, Signatures, TotalProofs, SequenceTheorems

-----------------------------------------------------------------------------
(* The counter of a session as a number, its bytes from the last, which    *)
(* counts most, to the first.                                              *)

Less(s, t) ==
  \E k \in 1 .. CounterSize :
    s[k] < t[k] /\ \A j \in k + 1 .. CounterSize : s[j] = t[j]

\* The states that the counter has been in.
Below(t) == {s \in CounterStates : Less(s, t)}

\* A state is a function, so that there are finitely many.
LEMMA CounterStatesFinite == IsFiniteSet(CounterStates)
<1> DEFINE D == 1 .. CounterSize
           C == 0 .. ByteBase - 1
           graph(s) == {<<i, s[i]>> : i \in D}
           f == [s \in CounterStates |-> graph(s)]
<1>1. IsFiniteSet(D) /\ IsFiniteSet(C)
  BY FS_Interval, IdentifiersAssumption
<1>2. IsFiniteSet(SUBSET (D \X C))
  BY <1>1, FS_Product, FS_SUBSET
<1>3. f \in Injection(CounterStates, SUBSET (D \X C))
  <2>1. \A s \in CounterStates : graph(s) \in SUBSET (D \X C)
    BY DEF CounterStates
  <2>2. ASSUME NEW s \in CounterStates, NEW t \in CounterStates, graph(s) = graph(t)
        PROVE  s = t
    <3>1. ASSUME NEW i \in D PROVE s[i] = t[i]
      <4>1. <<i, s[i]>> \in graph(t)
        BY <2>2
      <4> QED  BY <4>1
    <3>2. s = [i \in D |-> s[i]] /\ t = [i \in D |-> t[i]]
      BY DEF CounterStates
    <3> HIDE DEF D
    <3> QED  BY <3>1, <3>2
  <2> HIDE DEF graph
  <2> QED  BY <2>1, <2>2 DEF Injection, IsInjective
<1> HIDE DEF f
<1> QED  BY <1>2, <1>3, FS_Injection

\* Different states differ last at some byte.
LEMMA LastDifference ==
  ASSUME NEW s \in CounterStates, NEW t \in CounterStates, s # t
  PROVE  \E k \in 1 .. CounterSize :
           s[k] # t[k] /\ \A j \in k + 1 .. CounterSize : s[j] = t[j]
<1> DEFINE U == {n \in Nat : n < CounterSize /\ s[CounterSize - n] # t[CounterSize - n]}
<1> CounterSize \in Nat \ {0}
  BY IdentifiersAssumption
<1>1. PICK i \in 1 .. CounterSize : s[i] # t[i]
  BY DEF CounterStates
<1>2. CounterSize - i \in U
  BY <1>1
<1>3. PICK m \in U : \A k \in U : ~ (<<k, m>> \in OpToRel(<, Nat))
  <2>1. U \subseteq Nat /\ U # {}
    BY <1>2
  <2> HIDE DEF U
  <2> QED  BY <2>1, NatLessThanWellFounded, WFMin
<1>4. m \in U /\ \A k \in U : ~ (k < m)
  BY <1>3 DEF OpToRel
<1>5. /\ m \in Nat /\ m < CounterSize
      /\ CounterSize - m \in 1 .. CounterSize /\ s[CounterSize - m] # t[CounterSize - m]
  BY <1>4
<1>6. ASSUME NEW j \in CounterSize - m + 1 .. CounterSize PROVE s[j] = t[j]
  <2>1. CounterSize - j \in Nat /\ CounterSize - j < m /\ CounterSize - j < CounterSize
    BY <1>5
  <2>2. CounterSize - (CounterSize - j) = j
    OBVIOUS
  <2> QED  BY <1>4, <2>1, <2>2
<1> QED  BY <1>5, <1>6

Full == [i \in 1 .. CounterSize |-> ByteBase - 1]

\* No state is below itself, and all others are below the last one.
LEMMA BelowFull ==
  /\ Full \in CounterStates
  /\ \A s \in CounterStates : s # Full => s \in Below(Full)
  /\ \A s \in CounterStates : s \notin Below(s)
<1>1. Full \in CounterStates
  BY IdentifiersAssumption DEF Full, CounterStates
<1>2. ASSUME NEW s \in CounterStates, s # Full PROVE s \in Below(Full)
  <2>1. PICK k \in 1 .. CounterSize :
          s[k] # Full[k] /\ \A j \in k + 1 .. CounterSize : s[j] = Full[j]
    BY <1>1, <1>2, LastDifference
  <2>2. s[k] < Full[k]
    BY <2>1, IdentifiersAssumption DEF Full, CounterStates
  <2> QED  BY <2>1, <2>2 DEF Below, Less
<1>3. ASSUME NEW s \in CounterStates PROVE s \notin Below(s)
  BY IdentifiersAssumption DEF Below, Less, CounterStates
<1> QED  BY <1>1, <1>2, <1>3

\* A counter that is not full counts to the next state.
LEMMA IncrementCounts ==
  ASSUME NEW t \in CounterStates, t # Full, NEW u, u = Increment(t)
  PROVE  u \in CounterStates /\ Below(u) = Below(t) \cup {t}
<1> DEFINE L == CounterSize
           B == ByteBase
<1> L \in Nat \ {0} /\ B \in Nat \ {0, 1}
  BY IdentifiersAssumption
<1>0. \A i \in 1 .. L : t[i] \in 0 .. B - 1
  BY DEF CounterStates
<1>1. PICK k \in 1 .. L : t[k] # B - 1 /\ \A j \in 1 .. k - 1 : t[j] = B - 1
  <2> DEFINE U == {n \in Nat : n \in 1 .. L /\ t[n] # B - 1}
  <2>1. U \subseteq Nat /\ U # {}
    BY DEF Full, CounterStates
  <2>2. PICK m \in U : \A n \in U : ~ (<<n, m>> \in OpToRel(<, Nat))
    <3> HIDE DEF U
    <3> QED  BY <2>1, NatLessThanWellFounded, WFMin
  <2>3. m \in U /\ \A n \in U : ~ (n < m)
    BY <2>2 DEF OpToRel
  <2>4. m \in 1 .. L /\ t[m] # B - 1
    BY <2>3
  <2>5. ASSUME NEW j \in 1 .. m - 1 PROVE t[j] = B - 1
    BY <2>3, <2>4
  <2> QED  BY <2>4, <2>5
<1>2. \A j \in 1 .. L : u[j] = IF j < k THEN 0 ELSE IF j = k THEN t[k] + 1 ELSE t[j]
  <2>1. ASSUME NEW j \in 1 .. L, j < k PROVE u[j] = 0
    <3>1. \A l \in 1 .. j - 1 : t[l] = B - 1
      BY <1>1, <2>1
    <3>2. t[j] = B - 1
      BY <1>1, <2>1
    <3>3. u[j] = (t[j] + 1) % B
      BY <3>1 DEF Increment
    <3> QED  BY <3>2, <3>3
  <2>2. u[k] = t[k] + 1
    <3>1. u[k] = (t[k] + 1) % B
      BY <1>1 DEF Increment
    <3>2. t[k] + 1 \in 0 .. B - 1
      BY <1>0, <1>1
    <3> QED  BY <3>1, <3>2
  <2>3. ASSUME NEW j \in 1 .. L, j > k PROVE u[j] = t[j]
    BY <1>1, <2>3 DEF Increment
  <2> QED  BY <2>1, <2>2, <2>3
<1>3. u \in CounterStates
  <2>1. ASSUME NEW j \in 1 .. L PROVE u[j] \in 0 .. B - 1
    BY <1>0, <1>1, <1>2
  <2>2. u = [j \in 1 .. L |-> u[j]]
    BY DEF Increment
  <2> QED  BY <2>1, <2>2 DEF CounterStates
<1>4. t \in Below(u)
  BY <1>0, <1>2 DEF Below, Less
<1>5. ASSUME NEW s \in Below(t) PROVE s \in Below(u)
  <2>1. s \in CounterStates
    BY DEF Below
  <2>2. PICK m \in 1 .. L : s[m] < t[m] /\ \A j \in m + 1 .. L : s[j] = t[j]
    BY DEF Below, Less
  <2>3. CASE m >= k
    <3>1. s[m] < u[m]
      BY <1>0, <1>2, <2>1, <2>2, <2>3 DEF CounterStates
    <3>2. \A j \in m + 1 .. L : s[j] = u[j]
      BY <1>2, <2>2, <2>3
    <3> QED  BY <2>1, <3>1, <3>2 DEF Below, Less
  <2>4. CASE m < k
    <3>1. s[k] = t[k]
      BY <2>2, <2>4
    <3>2. s[k] < u[k]
      BY <1>0, <1>2, <3>1
    <3>3. \A j \in k + 1 .. L : s[j] = u[j]
      BY <1>2, <2>2, <2>4
    <3> QED  BY <2>1, <3>2, <3>3 DEF Below, Less
  <2> QED  BY <2>3, <2>4
<1>6. ASSUME NEW s \in Below(u), s # t PROVE s \in Below(t)
  <2>1. s \in CounterStates
    BY DEF Below
  <2>2. PICK m \in 1 .. L : s[m] < u[m] /\ \A j \in m + 1 .. L : s[j] = u[j]
    BY DEF Below, Less
  <2>0. \A i \in 1 .. L : s[i] \in 0 .. B - 1
    BY <2>1 DEF CounterStates
  <2>3. m >= k
    BY <1>2, <2>0, <2>2
  <2>4. PICK l \in 1 .. L : s[l] # t[l] /\ \A j \in l + 1 .. L : s[j] = t[j]
    BY <1>6, <2>1, LastDifference
  <2>5. CASE l > k
    <3>1. u[l] = t[l] /\ \A j \in l + 1 .. L : u[j] = t[j]
      BY <1>2, <2>5
    <3>2. m = l
      BY <2>0, <2>2, <2>4, <3>1
    <3> QED  BY <2>1, <2>2, <2>4, <3>1, <3>2 DEF Below, Less
  <2>6. CASE l = k
    <3>1. m = k
      BY <1>2, <2>0, <2>2, <2>3, <2>4, <2>6
    <3>2. s[k] < t[k]
      BY <1>0, <1>2, <2>0, <2>2, <2>4, <2>6, <3>1
    <3> QED  BY <2>1, <2>4, <2>6, <3>2 DEF Below, Less
  <2>7. CASE l < k
    <3>1. t[l] = B - 1
      BY <1>1, <2>7
    <3>2. s[l] < t[l]
      BY <2>0, <2>4, <3>1
    <3> QED  BY <2>1, <2>4, <3>2 DEF Below, Less
  <2> QED  BY <2>5, <2>6, <2>7
<1>7. Below(u) \subseteq CounterStates /\ Below(t) \subseteq CounterStates
  BY DEF Below
<1> QED  BY <1>3, <1>4, <1>5, <1>6

\* A counter that has been in fewer states than there are is not full, and has then
\* been in one more.
LEMMA CounterGoesOn ==
  ASSUME NEW t \in CounterStates, Cardinality(Below(t)) < Cardinality(CounterStates) - 1,
         NEW u, u = Increment(t)
  PROVE  /\ u \in CounterStates /\ t \notin Below(t)
         /\ Below(u) = Below(t) \cup {t}
         /\ Cardinality(Below(u)) = Cardinality(Below(t)) + 1
<1>1. IsFiniteSet(Below(t)) /\ Cardinality(Below(t)) \in Nat
  BY CounterStatesFinite, FS_Subset, FS_CardinalityType DEF Below
<1>2. t # Full
  <2>1. SUFFICES ASSUME t = Full PROVE FALSE
    OBVIOUS
  <2>2. Below(t) = CounterStates \ {Full}
    BY <2>1, BelowFull DEF Below
  <2>3. Cardinality(CounterStates \ {Full}) = Cardinality(CounterStates) - 1
    BY BelowFull, CounterStatesFinite, FS_RemoveElement
  <2> QED  BY <2>2, <2>3, <1>1
<1>3. u \in CounterStates /\ Below(u) = Below(t) \cup {t}
  BY <1>2, IncrementCounts
<1>4. t \notin Below(t)
  BY BelowFull
<1>5. Cardinality(Below(t) \cup {t}) = Cardinality(Below(t)) + 1
  BY <1>1, <1>4, FS_AddElement
<1> QED  BY <1>3, <1>4, <1>5

\* A new counter has been in no state.
LEMMA CounterBegins ==
  ASSUME NEW t, t = [i \in 1 .. CounterSize |-> 0]
  PROVE  t \in CounterStates /\ Below(t) = {}
<1>1. t \in CounterStates
  BY IdentifiersAssumption DEF CounterStates
<1>2. ASSUME NEW s \in CounterStates PROVE ~Less(s, t)
  BY IdentifiersAssumption DEF CounterStates, Less
<1> QED  BY <1>1, <1>2 DEF Below

-----------------------------------------------------------------------------
(* The invariant.                                                          *)

World(accounts, objects, handles, deletable, drawn) ==
  [accounts |-> accounts, objects |-> objects, handles |-> handles,
   deletable |-> deletable, drawn |-> drawn, repeated |-> FALSE]

\* An address that is an account's of old, or was drawn.
Rooted(w, x) ==
  \/ x \in Addresses
  \/ x[1] = "auid" /\ x \in w.drawn
  \/ x[1] = "from" /\ x[2] \in w.drawn

\* A GUID is below the counter of the account or object that made it, whose number
\* tells them apart.  The counter of an object is gone with the object, and so is,
\* for good, an address that objects can be deleted at.
Counted(w, id) ==
  /\ id[3] \in Nat
  /\ \/ /\ id[3] < MAX_GUID_CREATION_NUM
        /\ id[2] \in DOMAIN w.accounts /\ id[3] < w.accounts[id[2]]
     \/ /\ id[3] >= INIT_GUID_CREATION_NUM /\ Rooted(w, id[2])
        /\ id[2] \in DOMAIN w.objects => id[3] < w.objects[id[2]]
        /\ id[2] \notin DOMAIN w.objects => id[2] \notin Addresses

WorldFits(w) ==
  /\ w = World(w.accounts, w.objects, w.handles, w.deletable, w.drawn)
  /\ \A x \in DOMAIN w.accounts : w.accounts[x] \in Nat
  /\ \A x \in DOMAIN w.objects :
       Rooted(w, x) /\ w.objects[x] \in Nat /\ w.objects[x] > INIT_GUID_CREATION_NUM
  /\ w.deletable \cap Addresses = {}
  /\ \A id \in w.drawn : id[1] = "guid" => Counted(w, id)
  /\ \A guid \in DOMAIN w.handles : guid \in w.drawn /\ w.handles[guid] \in Nat

\* The events under drawn GUIDs.
EventsOf(w) == [key : w.drawn, seq_num : Nat]

Gapless(es) ==
  \A i \in DOMAIN es :
    {es[j].seq_num : j \in {k \in 1 .. i - 1 : es[k].key = es[i].key}}
      = 0 .. es[i].seq_num - 1

Counting(w, es) ==
  \A guid \in DOMAIN w.handles : NumbersOf(guid, es) = 0 .. w.handles[guid] - 1

StreamsFit(w, es) == es \in Seq(EventsOf(w)) /\ Gapless(es) /\ Counting(w, es)

\* What was drawn by transactions before number t.
DrawnBefore(t, ids) ==
  \A id \in ids :
    /\ id[1] = "auid" => id[2] \in Nat /\ id[2] < t
    /\ id[1] = "random" => id[3] \in Nat /\ id[3] < t

\* What was drawn by transactions before that of the context c, or by itself.
DrawnUntil(c, ids) ==
  \A id \in ids :
    /\ id[1] = "auid" =>
         /\ id[2] \in Nat
         /\ \/ id[2] < c.txn_hash
            \/ id[2] = c.txn_hash /\ id[3] \in Nat /\ id[3] <= c.auid_counter
    /\ id[1] = "random" =>
         /\ id[3] \in Nat
         /\ id[3] < c.txn_hash \/ (id[3] = c.txn_hash /\ id[4] \in Below(c.txn_local_state))

Context(hash, counter, user, private, bytes) ==
  [txn_hash |-> hash, auid_counter |-> counter, user |-> user,
   is_friend_or_private_entry_func |-> private, txn_local_state |-> bytes]

\* The context of transaction t, after n calls: its counter has been in at most as many
\* states.
ContextFits(c, t, n) ==
  /\ c = Context(t, c.auid_counter, c.user, c.is_friend_or_private_entry_func, c.txn_local_state)
  /\ c.auid_counter \in Nat /\ c.txn_local_state \in CounterStates
  /\ Cardinality(Below(c.txn_local_state)) <= n

IdentifiersIInv ==
  /\ txns \in Nat /\ callsMade \in Nat /\ callsMade <= MaxCalls
  /\ WorldFits(stored) /\ WorldFits(world) /\ stored.drawn \subseteq world.drawn
  /\ StreamsFit(stored, log) /\ StreamsFit(world, log \o events)
  /\ events \in Seq(EventsOf(world))
  /\ DrawnBefore(IF InTxn THEN txns ELSE txns + 1, stored.drawn)
  /\ InTxn => ContextFits(ctx, txns, callsMade) /\ DrawnUntil(ctx, world.drawn)
  /\ ~InTxn => world = stored /\ events = <<>>

-----------------------------------------------------------------------------
(* The records of the world: what each operation makes of its parts.      *)

\* The parts of a world.
LEMMA WorldParts ==
  ASSUME NEW A, NEW O, NEW H, NEW D, NEW S, NEW w, w = World(A, O, H, D, S)
  PROVE  /\ w.accounts = A /\ w.objects = O /\ w.handles = H
         /\ w.deletable = D /\ w.drawn = S /\ ~w.repeated
BY DEF World

\* Something new is drawn.
LEMMA DrawnWorld ==
  ASSUME NEW A, NEW O, NEW H, NEW D, NEW S, NEW w, w = World(A, O, H, D, S),
         NEW id, id \notin S, NEW v, v = Drawn(w, id)
  PROVE  v = World(A, O, H, D, S \cup {id})
BY Zenon DEF World, Drawn

\* A new account.
LEMMA AddedAccount ==
  ASSUME NEW A, NEW O, NEW H, NEW D, NEW S, NEW w, w = World(A, O, H, D, S),
         NEW a, NEW v, v = WithAccount(w, a)
  PROVE  v = World(With(A, a, 0), O, H, D, S)
BY Zenon DEF World, WithAccount

\* A new handle.
LEMMA AddedHandle ==
  ASSUME NEW A, NEW O, NEW H, NEW D, NEW S, NEW w, w = World(A, O, H, D, S),
         NEW g, NEW v, v = [w EXCEPT !.handles = With(@, g, 0)]
  PROVE  v = World(A, O, With(H, g, 0), D, S)
BY Zenon DEF World

\* A new handle of a new GUID.
LEMMA DrawnHandle ==
  ASSUME NEW A, NEW O, NEW H, NEW D, NEW S, NEW w, w = World(A, O, H, D, S),
         NEW g, g \notin S, NEW v, v = NewHandle(w, g)
  PROVE  v = World(A, O, With(H, g, 0), D, S \cup {g})
BY Zenon DEF World, NewHandle, Drawn

-----------------------------------------------------------------------------
(* GUIDs.                                                                  *)

\* The limits of the two kinds of numbers.
LEMMA Limits ==
  /\ MAX_GUID_CREATION_NUM \in Nat /\ INIT_GUID_CREATION_NUM \in Nat
  /\ INIT_GUID_CREATION_NUM >= MAX_GUID_CREATION_NUM
BY IdentifiersAssumption

\* An address stays rooted as more is drawn.
LEMMA RootedStays ==
  ASSUME NEW w, NEW v, w.drawn \subseteq v.drawn, NEW x, Rooted(w, x)
  PROVE  Rooted(v, x)
BY DEF Rooted

\* Drawing something new that is not a GUID changes nothing else.
LEMMA DrawKeeps ==
  ASSUME NEW w, WorldFits(w), NEW id, id \notin w.drawn, id[1] # "guid",
         NEW v, v = Drawn(w, id)
  PROVE  /\ WorldFits(v) /\ v.drawn = w.drawn \cup {id} /\ v.handles = w.handles
         /\ v.accounts = w.accounts /\ v.objects = w.objects
<1>1. v = World(w.accounts, w.objects, w.handles, w.deletable, w.drawn \cup {id})
  BY DrawnWorld DEF WorldFits
<1>2. /\ v.accounts = w.accounts /\ v.objects = w.objects /\ v.handles = w.handles
      /\ v.deletable = w.deletable /\ v.drawn = w.drawn \cup {id}
  BY <1>1, WorldParts
<1>3. ASSUME NEW g \in w.drawn, g[1] = "guid" PROVE Counted(v, g)
  <2>1. Counted(w, g)
    BY <1>3 DEF WorldFits
  <2>2. Rooted(w, g[2]) => Rooted(v, g[2])
    BY <1>2, RootedStays
  <2> QED  BY <1>2, <2>1, <2>2 DEF Counted
<1>4. \A x \in DOMAIN w.objects : Rooted(v, x)
  BY <1>2, RootedStays DEF WorldFits
<1> QED  BY <1>1, <1>2, <1>3, <1>4 DEF WorldFits

\* A GUID of an account is new, and its account's next number is above it.
LEMMA AccountNumbers ==
  ASSUME NEW w, WorldFits(w), NEW a \in DOMAIN w.accounts, WithinGuidLimit(w.accounts[a]),
         NEW g, g = GuidAt(a, w.accounts[a]), NEW v, v = [w EXCEPT !.accounts[a] = @ + 1],
         NEW u, u = Drawn(v, g)
  PROVE  /\ g \notin w.drawn /\ WorldFits(u) /\ u.drawn = w.drawn \cup {g}
         /\ u.handles = w.handles /\ u.objects = w.objects
<1>1. g[1] = "guid" /\ g[2] = a /\ g[3] = w.accounts[a]
  BY DEF GuidAt
<1>2. w.accounts[a] \in Nat /\ w.accounts[a] < MAX_GUID_CREATION_NUM
  BY Limits DEF WorldFits, WithinGuidLimit
<1>3. g \notin w.drawn
  <2>1. SUFFICES ASSUME g \in w.drawn PROVE FALSE
    OBVIOUS
  <2>2. Counted(w, g)
    BY <1>1, <2>1 DEF WorldFits
  <2> QED  BY <1>1, <1>2, <2>2, Limits DEF Counted
<1> DEFINE f == [w.accounts EXCEPT ![a] = @ + 1]
<1>3a. ASSUME NEW A, NEW O, NEW H, NEW D, NEW S, w = World(A, O, H, D, S)
       PROVE  v = World([A EXCEPT ![a] = @ + 1], O, H, D, S)
  BY Zenon, <1>3a DEF World
<1>4. v = World(f, w.objects, w.handles, w.deletable, w.drawn)
  BY <1>3a DEF WorldFits
<1>5. u = World(f, w.objects, w.handles, w.deletable, w.drawn \cup {g})
  BY <1>3, <1>4, DrawnWorld
<1>6. /\ DOMAIN f = DOMAIN w.accounts /\ f[a] = w.accounts[a] + 1
      /\ \A x \in DOMAIN f : x # a => f[x] = w.accounts[x]
  OBVIOUS
<1> HIDE DEF f
<1>7. /\ u.accounts = f /\ u.objects = w.objects /\ u.handles = w.handles
      /\ u.deletable = w.deletable /\ u.drawn = w.drawn \cup {g}
  BY <1>5, WorldParts
<1>8. ASSUME NEW h \in w.drawn, h[1] = "guid" PROVE Counted(u, h)
  <2>1. Counted(w, h)
    BY <1>8 DEF WorldFits
  <2>2. Rooted(w, h[2]) => Rooted(u, h[2])
    BY <1>7, RootedStays
  <2>3. h[2] \in DOMAIN w.accounts /\ h[3] \in Nat /\ h[3] < w.accounts[h[2]] => h[3] < f[h[2]]
    BY <1>2, <1>6
  <2> QED  BY <1>6, <1>7, <2>1, <2>2, <2>3 DEF Counted
<1>9. Counted(u, g)
  BY <1>1, <1>2, <1>6, <1>7 DEF Counted
<1>10. \A x \in DOMAIN f : f[x] \in Nat
  BY <1>2, <1>6 DEF WorldFits
<1>11. \A x \in DOMAIN w.objects : Rooted(u, x)
  BY <1>7, RootedStays DEF WorldFits
<1> QED  BY <1>3, <1>5, <1>7, <1>8, <1>9, <1>10, <1>11 DEF WorldFits

\* A GUID of an object is new, and its object's next number is above it.
LEMMA ObjectNumbers ==
  ASSUME NEW w, WorldFits(w), NEW o \in DOMAIN w.objects,
         NEW g, g = GuidAt(o, w.objects[o]), NEW v, v = [w EXCEPT !.objects[o] = @ + 1],
         NEW u, u = Drawn(v, g)
  PROVE  /\ g \notin w.drawn /\ WorldFits(u) /\ u.drawn = w.drawn \cup {g}
         /\ u.handles = w.handles /\ DOMAIN u.objects = DOMAIN w.objects
<1>1. g[1] = "guid" /\ g[2] = o /\ g[3] = w.objects[o]
  BY DEF GuidAt
<1>2. w.objects[o] \in Nat /\ w.objects[o] > INIT_GUID_CREATION_NUM /\ Rooted(w, o)
  BY DEF WorldFits
<1>3. g \notin w.drawn
  <2>1. SUFFICES ASSUME g \in w.drawn PROVE FALSE
    OBVIOUS
  <2>2. Counted(w, g)
    BY <1>1, <2>1 DEF WorldFits
  <2> QED  BY <1>1, <1>2, <2>2, Limits DEF Counted
<1> DEFINE f == [w.objects EXCEPT ![o] = @ + 1]
<1>3a. ASSUME NEW A, NEW O, NEW H, NEW D, NEW S, w = World(A, O, H, D, S)
       PROVE  v = World(A, [O EXCEPT ![o] = @ + 1], H, D, S)
  BY Zenon, <1>3a DEF World
<1>4. v = World(w.accounts, f, w.handles, w.deletable, w.drawn)
  BY <1>3a DEF WorldFits
<1>5. u = World(w.accounts, f, w.handles, w.deletable, w.drawn \cup {g})
  BY <1>3, <1>4, DrawnWorld
<1>6. /\ DOMAIN f = DOMAIN w.objects /\ f[o] = w.objects[o] + 1
      /\ \A x \in DOMAIN f : x # o => f[x] = w.objects[x]
  OBVIOUS
<1> HIDE DEF f
<1>7. /\ u.accounts = w.accounts /\ u.objects = f /\ u.handles = w.handles
      /\ u.deletable = w.deletable /\ u.drawn = w.drawn \cup {g}
  BY <1>5, WorldParts
<1>8. ASSUME NEW h \in w.drawn, h[1] = "guid" PROVE Counted(u, h)
  <2>1. Counted(w, h)
    BY <1>8 DEF WorldFits
  <2>2. Rooted(w, h[2]) => Rooted(u, h[2])
    BY <1>7, RootedStays
  <2>3. h[2] \in DOMAIN w.objects /\ h[3] \in Nat /\ h[3] < w.objects[h[2]] => h[3] < f[h[2]]
    BY <1>2, <1>6
  <2> QED  BY <1>6, <1>7, <2>1, <2>2, <2>3 DEF Counted
<1>9. Counted(u, g)
  <2>1. Rooted(u, o)
    BY <1>2, <1>7, RootedStays
  <2> QED  BY <1>1, <1>2, <1>6, <1>7, <2>1, Limits DEF Counted
<1>10. \A x \in DOMAIN f : f[x] \in Nat /\ f[x] > INIT_GUID_CREATION_NUM
  BY <1>2, <1>6, Limits DEF WorldFits
<1>11. \A x \in DOMAIN w.objects : Rooted(u, x)
  BY <1>7, RootedStays DEF WorldFits
<1> QED  BY <1>3, <1>5, <1>6, <1>7, <1>8, <1>9, <1>10, <1>11 DEF WorldFits
\* The handles of v are those of w, perhaps fewer, and new ones of GUIDs not drawn in w.
HandlesFollow(w, v) ==
  \A g \in DOMAIN v.handles :
    \/ g \in DOMAIN w.handles /\ v.handles[g] = w.handles[g]
    \/ g \notin w.drawn /\ v.handles[g] = 0

\* A handle for a drawn GUID.
LEMMA HandleFits ==
  ASSUME NEW w, WorldFits(w), NEW g \in w.drawn,
         NEW v, v = [w EXCEPT !.handles = With(@, g, 0)]
  PROVE  WorldFits(v) /\ v.drawn = w.drawn /\ v.handles = With(w.handles, g, 0)
<1>1. v = World(w.accounts, w.objects, With(w.handles, g, 0), w.deletable, w.drawn)
  BY AddedHandle DEF WorldFits
<1>2. /\ v.accounts = w.accounts /\ v.objects = w.objects /\ v.handles = With(w.handles, g, 0)
      /\ v.deletable = w.deletable /\ v.drawn = w.drawn
  BY <1>1, WorldParts
<1>3. \A x : Rooted(w, x) <=> Rooted(v, x)
  BY <1>2 DEF Rooted
<1>4. \A h \in w.drawn : h[1] = "guid" => Counted(v, h)
  BY <1>2, <1>3 DEF WorldFits, Counted
<1>5. \A h \in DOMAIN v.handles : h \in v.drawn /\ v.handles[h] \in Nat
  BY <1>2 DEF WorldFits, With
<1> QED  BY <1>1, <1>2, <1>3, <1>4, <1>5 DEF WorldFits

\* No object has drawn GUIDs at x.
Unused(w, x) ==
  \A id \in w.drawn :
    id[1] = "guid" /\ id[2] = x => id[3] \in Nat /\ id[3] < INIT_GUID_CREATION_NUM

\* Nothing was drawn at an address that was not, or where no object can be deleted and
\* none is.
LEMMA UnusedAt ==
  ASSUME NEW w, WorldFits(w), NEW x, ~Rooted(w, x) \/ (x \in Addresses /\ x \notin DOMAIN w.objects)
  PROVE  Unused(w, x)
<1>1. \A id \in w.drawn : id[1] = "guid" => Counted(w, id)
  BY DEF WorldFits
<1> QED  BY <1>1, Limits DEF Unused, Counted

\* A new object at such an address.
LEMMA ObjectFits ==
  ASSUME NEW w, WorldFits(w), NEW a, Unused(w, a), a \notin DOMAIN w.objects, Rooted(w, a),
         NEW can_delete \in BOOLEAN, can_delete => a \notin Addresses,
         NEW g, g = GuidAt(a, INIT_GUID_CREATION_NUM),
         NEW v, v = WithObject(w, a, can_delete)
  PROVE  /\ g \notin w.drawn /\ WorldFits(v) /\ v.drawn = w.drawn \cup {g}
         /\ v.handles = With(w.handles, g, 0)
<1>1. g[1] = "guid" /\ g[2] = a /\ g[3] = INIT_GUID_CREATION_NUM
  BY DEF GuidAt
<1>2. g \notin w.drawn
  BY <1>1, Limits DEF Unused
<1> DEFINE f == With(w.objects, a, INIT_GUID_CREATION_NUM + 1)
           d == IF can_delete THEN w.deletable \cup {a} ELSE w.deletable
           n == NewHandle(w, g)
<1>3. n = World(w.accounts, w.objects, With(w.handles, g, 0), w.deletable, w.drawn \cup {g})
  BY <1>2, DrawnHandle DEF WorldFits
<1>4. v = [n EXCEPT !.objects = With(@, a, INIT_GUID_CREATION_NUM + 1),
                    !.deletable = IF can_delete THEN @ \cup {a} ELSE @]
  BY DEF WithObject
<1>5. v = World(w.accounts, f, With(w.handles, g, 0), d, w.drawn \cup {g})
  <2> HIDE DEF n
  <2>1. ASSUME NEW A, NEW O, NEW H, NEW D, NEW S, n = World(A, O, H, D, S)
        PROVE  v = World(A, With(O, a, INIT_GUID_CREATION_NUM + 1), H,
                         IF can_delete THEN D \cup {a} ELSE D, S)
    BY Zenon, <1>4, <2>1 DEF World
  <2> QED  BY <1>3, <2>1
<1>6. /\ DOMAIN f = DOMAIN w.objects \cup {a} /\ f[a] = INIT_GUID_CREATION_NUM + 1
      /\ \A x \in DOMAIN w.objects : x # a /\ f[x] = w.objects[x]
  BY DEF With
<1>7. d \cap Addresses = {}
  BY DEF WorldFits
<1> HIDE DEF f, d
<1>8. /\ v.accounts = w.accounts /\ v.objects = f /\ v.handles = With(w.handles, g, 0)
      /\ v.deletable = d /\ v.drawn = w.drawn \cup {g}
  BY <1>5, WorldParts
<1>9. \A x : Rooted(w, x) => Rooted(v, x)
  BY <1>8, RootedStays
<1>10. ASSUME NEW h \in w.drawn, h[1] = "guid" PROVE Counted(v, h)
  <2>1. Counted(w, h)
    BY <1>10 DEF WorldFits
  <2>2. h[2] # a \/ h[3] < INIT_GUID_CREATION_NUM
    BY <1>10 DEF Unused
  <2> QED  BY <1>6, <1>8, <1>9, <2>1, <2>2, Limits DEF Counted
<1>11. Counted(v, g)
  BY <1>1, <1>6, <1>8, <1>9, Limits DEF Counted
<1>12. \A x \in DOMAIN f : Rooted(v, x) /\ f[x] \in Nat /\ f[x] > INIT_GUID_CREATION_NUM
  BY <1>6, <1>9, Limits DEF WorldFits
<1>13. \A h \in DOMAIN v.handles : h \in v.drawn /\ v.handles[h] \in Nat
  BY <1>8 DEF WorldFits, With
<1> QED  BY <1>2, <1>5, <1>7, <1>8, <1>10, <1>11, <1>12, <1>13 DEF WorldFits

\* A new object at an owner's address, which cannot be deleted.
LEMMA OwnersObject ==
  ASSUME NEW w, WorldFits(w), NEW a \in Addresses, Unused(w, a), a \notin DOMAIN w.objects
  PROVE  LET g == GuidAt(a, INIT_GUID_CREATION_NUM)
             v == WithObject(w, a, FALSE)
         IN  /\ g \notin w.drawn /\ WorldFits(v) /\ v.drawn = w.drawn \cup {g}
             /\ v.handles = With(w.handles, g, 0)
<1> DEFINE g == GuidAt(a, INIT_GUID_CREATION_NUM)
           v == WithObject(w, a, FALSE)
<1>1. Rooted(w, a)
  BY DEF Rooted
<1>2. PICK can_delete \in BOOLEAN : can_delete = FALSE
  OBVIOUS
<1>3. v = WithObject(w, a, can_delete)
  BY <1>2
<1>4. can_delete => a \notin Addresses
  BY <1>2
<1> HIDE DEF v
<1>5. /\ g \notin w.drawn /\ WorldFits(v) /\ v.drawn = w.drawn \cup {g}
      /\ v.handles = With(w.handles, g, 0)
  BY <1>1, <1>3, <1>4, ObjectFits
<1> QED  BY <1>5 DEF v

\* A new account.
LEMMA AccountFits ==
  ASSUME NEW w, WorldFits(w), NEW a, a \notin DOMAIN w.accounts, NEW v, v = WithAccount(w, a)
  PROVE  WorldFits(v) /\ v.drawn = w.drawn /\ v.handles = w.handles
<1> DEFINE f == With(w.accounts, a, 0)
<1>1. v = World(f, w.objects, w.handles, w.deletable, w.drawn)
  BY AddedAccount DEF WorldFits
<1>2. /\ v.accounts = f /\ v.objects = w.objects /\ v.handles = w.handles
      /\ v.deletable = w.deletable /\ v.drawn = w.drawn
  BY <1>1, WorldParts
<1>3. /\ DOMAIN f = DOMAIN w.accounts \cup {a} /\ f[a] = 0
      /\ \A x \in DOMAIN w.accounts : f[x] = w.accounts[x]
  BY DEF With
<1> HIDE DEF f
<1>4. \A x : Rooted(w, x) <=> Rooted(v, x)
  BY <1>2 DEF Rooted
<1>5. \A h \in w.drawn : h[1] = "guid" => Counted(v, h)
  BY <1>2, <1>3, <1>4 DEF WorldFits, Counted
<1>6. \A x \in DOMAIN f : f[x] \in Nat
  BY <1>3 DEF WorldFits
<1> QED  BY <1>1, <1>2, <1>4, <1>5, <1>6 DEF WorldFits

\* What is left of a world without an object that can be deleted.
LEMMA DeletionFits ==
  ASSUME NEW w, WorldFits(w), NEW o \in w.deletable, NEW g,
         NEW v, v = [w EXCEPT !.objects = Restrict(@, DOMAIN @ \ {o}),
                              !.handles = Restrict(@, DOMAIN @ \ {g})]
  PROVE  WorldFits(v) /\ v.drawn = w.drawn /\ HandlesFollow(w, v)
<1> DEFINE f == Restrict(w.objects, DOMAIN w.objects \ {o})
           h == Restrict(w.handles, DOMAIN w.handles \ {g})
<1>0. ASSUME NEW A, NEW O, NEW H, NEW D, NEW S, w = World(A, O, H, D, S)
      PROVE  v = World(A, Restrict(O, DOMAIN O \ {o}), Restrict(H, DOMAIN H \ {g}), D, S)
  BY Zenon, <1>0 DEF World
<1>1. v = World(w.accounts, f, h, w.deletable, w.drawn)
  BY <1>0 DEF WorldFits
<1>2. /\ v.accounts = w.accounts /\ v.objects = f /\ v.handles = h
      /\ v.deletable = w.deletable /\ v.drawn = w.drawn
  BY <1>1, WorldParts
<1>3. /\ DOMAIN f = DOMAIN w.objects \ {o}
      /\ \A x \in DOMAIN f : f[x] = w.objects[x]
  BY DEF Restrict
<1>4. /\ DOMAIN h \subseteq DOMAIN w.handles
      /\ \A x \in DOMAIN h : h[x] = w.handles[x]
  BY DEF Restrict
<1> HIDE DEF f, h
<1>5. \A x : Rooted(w, x) <=> Rooted(v, x)
  BY <1>2 DEF Rooted
<1>6. o \notin Addresses
  BY DEF WorldFits
<1>7. \A k \in w.drawn : k[1] = "guid" => Counted(v, k)
  BY <1>2, <1>3, <1>5, <1>6 DEF WorldFits, Counted
<1> QED  BY <1>1, <1>2, <1>3, <1>4, <1>5, <1>7 DEF WorldFits, HandlesFollow

\* A handle less.
LEMMA DestructionFits ==
  ASSUME NEW w, WorldFits(w), NEW g, NEW v,
         v = [w EXCEPT !.handles = Restrict(@, DOMAIN @ \ {g})]
  PROVE  WorldFits(v) /\ v.drawn = w.drawn /\ HandlesFollow(w, v)
<1> DEFINE h == Restrict(w.handles, DOMAIN w.handles \ {g})
<1>0. ASSUME NEW A, NEW O, NEW H, NEW D, NEW S, w = World(A, O, H, D, S)
      PROVE  v = World(A, O, Restrict(H, DOMAIN H \ {g}), D, S)
  BY Zenon, <1>0 DEF World
<1>1a. w = World(w.accounts, w.objects, w.handles, w.deletable, w.drawn)
  BY DEF WorldFits
<1>1b. \A A, O, H, D, S :
         w = World(A, O, H, D, S) => v = World(A, O, Restrict(H, DOMAIN H \ {g}), D, S)
  BY <1>0
<1>1c. PICK hh : hh = Restrict(w.handles, DOMAIN w.handles \ {g})
  OBVIOUS
<1>1d. v = World(w.accounts, w.objects, hh, w.deletable, w.drawn)
  <2> HIDE DEF h
  <2> QED BY <1>1a, <1>1b, <1>1c
<1>1. v = World(w.accounts, w.objects, h, w.deletable, w.drawn)
  BY <1>1c, <1>1d
<1>2. /\ v.accounts = w.accounts /\ v.objects = w.objects /\ v.handles = h
      /\ v.deletable = w.deletable /\ v.drawn = w.drawn
  BY <1>1, WorldParts
<1>4. /\ DOMAIN h \subseteq DOMAIN w.handles
      /\ \A x \in DOMAIN h : h[x] = w.handles[x]
  BY DEF Restrict
<1> HIDE DEF h
<1>5. \A x : Rooted(w, x) <=> Rooted(v, x)
  BY <1>2 DEF Rooted
<1>7. \A k \in w.drawn : k[1] = "guid" => Counted(v, k)
  BY <1>2, <1>5 DEF WorldFits, Counted
<1> QED  BY <1>1, <1>2, <1>4, <1>5, <1>7 DEF WorldFits, HandlesFollow

\* A handle that counts one more.
LEMMA EventFits ==
  ASSUME NEW w, WorldFits(w), NEW g \in DOMAIN w.handles, NEW v,
         v = [w EXCEPT !.handles[g] = @ + 1]
  PROVE  /\ WorldFits(v) /\ v.drawn = w.drawn
         /\ DOMAIN v.handles = DOMAIN w.handles /\ v.handles[g] = w.handles[g] + 1
         /\ \A x \in DOMAIN w.handles : x # g => v.handles[x] = w.handles[x]
<1> DEFINE h == [w.handles EXCEPT ![g] = @ + 1]
<1>0. ASSUME NEW A, NEW O, NEW H, NEW D, NEW S, w = World(A, O, H, D, S)
      PROVE  v = World(A, O, [H EXCEPT ![g] = @ + 1], D, S)
  BY Zenon, <1>0 DEF World
<1>1. v = World(w.accounts, w.objects, h, w.deletable, w.drawn)
  BY <1>0 DEF WorldFits
<1>2. /\ v.accounts = w.accounts /\ v.objects = w.objects /\ v.handles = h
      /\ v.deletable = w.deletable /\ v.drawn = w.drawn
  BY <1>1, WorldParts
<1>3. \A x \in DOMAIN h : x \in w.drawn /\ h[x] \in Nat
  BY DEF WorldFits
<1>4. /\ DOMAIN v.handles = DOMAIN w.handles /\ v.handles[g] = w.handles[g] + 1
      /\ \A x \in DOMAIN w.handles : x # g => v.handles[x] = w.handles[x]
  BY <1>2
<1> HIDE DEF h
<1>5. \A x : Rooted(w, x) <=> Rooted(v, x)
  BY <1>2 DEF Rooted
<1>7. \A k \in w.drawn : k[1] = "guid" => Counted(v, k)
  BY <1>2, <1>5 DEF WorldFits, Counted
<1> QED  BY <1>1, <1>2, <1>3, <1>4, <1>5, <1>7 DEF WorldFits

-----------------------------------------------------------------------------
(* Events.                                                                 *)

\* Events of a smaller set.
LEMMA EventsStay ==
  ASSUME NEW w, NEW v, w.drawn \subseteq v.drawn, NEW es \in Seq(EventsOf(w))
  PROVE  es \in Seq(EventsOf(v))
<1>1. EventsOf(w) \subseteq EventsOf(v)
  BY DEF EventsOf
<1>2. es \in [1 .. Len(es) -> EventsOf(w)] /\ Len(es) \in Nat
  BY LenProperties
<1>3. es \in [1 .. Len(es) -> EventsOf(v)]
  BY <1>1, <1>2
<1> QED  BY <1>2, <1>3, SeqDef

\* The streams go on when handles are made and destroyed: there are no events under a
\* new GUID.
LEMMA StreamsFollow ==
  ASSUME NEW w, NEW v, NEW es, StreamsFit(w, es), w.drawn \subseteq v.drawn, HandlesFollow(w, v)
  PROVE  StreamsFit(v, es)
<1>1. es \in Seq(EventsOf(v))
  BY EventsStay DEF StreamsFit
<1>2. ASSUME NEW g, g \notin w.drawn PROVE NumbersOf(g, es) = 0 .. 0 - 1
  <2>1. \A j \in DOMAIN es : es[j] \in EventsOf(w)
    BY LenProperties DEF StreamsFit
  <2>2. \A j \in DOMAIN es : es[j].key # g
    BY <1>2, <2>1 DEF EventsOf
  <2>3. NumbersOf(g, es) = {}
    BY <2>2 DEF NumbersOf
  <2> QED  BY <2>3
<1>3. ASSUME NEW g \in DOMAIN v.handles PROVE NumbersOf(g, es) = 0 .. v.handles[g] - 1
  <2>1. CASE g \in DOMAIN w.handles /\ v.handles[g] = w.handles[g]
    BY <2>1 DEF StreamsFit, Counting
  <2>2. CASE g \notin w.drawn /\ v.handles[g] = 0
    BY <1>2, <2>2
  <2> QED  BY <2>1, <2>2 DEF HandlesFollow
<1> QED  BY <1>1, <1>3 DEF StreamsFit, Counting

\* The streams go on with the next number of a handle.
LEMMA StreamsGoOn ==
  ASSUME NEW w, NEW v, NEW es, StreamsFit(w, es), NEW g \in DOMAIN w.handles,
         g \in w.drawn, w.handles[g] \in Nat,
         v.drawn = w.drawn, DOMAIN v.handles = DOMAIN w.handles, v.handles[g] = w.handles[g] + 1,
         \A x \in DOMAIN w.handles : x # g => v.handles[x] = w.handles[x],
         NEW n, n = w.handles[g], NEW e, e = [key |-> g, seq_num |-> n],
         NEW fs, fs = Append(es, e)
  PROVE  StreamsFit(v, fs)
<1>1. e \in EventsOf(w) /\ EventsOf(v) = EventsOf(w) /\ e.key = g /\ e.seq_num = n
  BY DEF EventsOf
<1>2. es \in Seq(EventsOf(w))
  BY DEF StreamsFit
<1>3. /\ fs \in Seq(EventsOf(w)) /\ DOMAIN es = 1 .. Len(es) /\ Len(es) \in Nat
      /\ DOMAIN fs = 1 .. Len(es) + 1
      /\ \A i \in DOMAIN es : fs[i] = es[i] /\ i \in DOMAIN fs
      /\ fs[Len(es) + 1] = e
  BY <1>1, <1>2, AppendProperties, LenProperties
<1>4. NumbersOf(g, es) = 0 .. n - 1
  BY DEF StreamsFit, Counting
<1>5. \A h : NumbersOf(h, fs) = IF h = g THEN NumbersOf(h, es) \cup {n} ELSE NumbersOf(h, es)
  <2>1. TAKE h
  <2>2. \A j : j \in DOMAIN fs /\ fs[j].key = h
               <=> (j \in DOMAIN es /\ es[j].key = h) \/ (j = Len(es) + 1 /\ h = g)
    BY <1>1, <1>3
  <2>3. \A m : m \in NumbersOf(h, fs) <=> \E j \in DOMAIN fs : fs[j].key = h /\ m = fs[j].seq_num
    BY DEF NumbersOf
  <2>4. \A m : m \in NumbersOf(h, es) <=> \E j \in DOMAIN es : es[j].key = h /\ m = es[j].seq_num
    BY DEF NumbersOf
  <2>5. \A m : m \in NumbersOf(h, fs) <=> m \in NumbersOf(h, es) \/ (h = g /\ m = n)
    BY <1>1, <1>3, <2>2, <2>3, <2>4
  <2> QED  BY <2>5
<1>6. ASSUME NEW h \in DOMAIN v.handles PROVE NumbersOf(h, fs) = 0 .. v.handles[h] - 1
  <2>1. h \in DOMAIN w.handles
    BY <1>6
  <2>2. CASE h = g
    <3>1. v.handles[h] = n + 1
      BY <2>1, <2>2
    <3>2. (0 .. n - 1) \cup {n} = 0 .. (n + 1) - 1
      OBVIOUS
    <3>3. NumbersOf(h, fs) = (0 .. n - 1) \cup {n}
      BY <1>4, <1>5, <2>2
    <3> QED  BY <3>1, <3>2, <3>3
  <2>3. CASE h # g
    <3>1. v.handles[h] = w.handles[h]
      BY <2>1, <2>3
    <3> QED  BY <1>5, <2>1, <2>3, <3>1 DEF StreamsFit, Counting
  <2> QED  BY <2>2, <2>3
<1>7. ASSUME NEW i \in DOMAIN fs
      PROVE  {fs[j].seq_num : j \in {k \in 1 .. i - 1 : fs[k].key = fs[i].key}}
               = 0 .. fs[i].seq_num - 1
  <2>1. CASE i \in DOMAIN es
    <3>1. {fs[j].seq_num : j \in {k \in 1 .. i - 1 : fs[k].key = fs[i].key}}
          = {es[j].seq_num : j \in {k \in 1 .. i - 1 : es[k].key = es[i].key}}
      <4>1. \A k \in 1 .. i - 1 : fs[k] = es[k]
        BY <1>3, <2>1
      <4>2. fs[i] = es[i]
        BY <1>3, <2>1
      <4>3. {k \in 1 .. i - 1 : fs[k].key = fs[i].key}
              = {k \in 1 .. i - 1 : es[k].key = es[i].key}
        BY <4>1, <4>2
      <4>4. \A K \in SUBSET (1 .. i - 1) : {fs[j].seq_num : j \in K} = {es[j].seq_num : j \in K}
        BY <4>1
      <4> QED  BY <4>3, <4>4
    <3>2. fs[i] = es[i]
      BY <1>3, <2>1
    <3> QED  BY <2>1, <3>1, <3>2 DEF StreamsFit, Gapless
  <2>2. CASE i = Len(es) + 1
    <3>1. fs[i].key = g /\ fs[i].seq_num = n /\ i - 1 = Len(es)
      BY <1>1, <1>3, <2>2
    <3>2. \A k \in 1 .. i - 1 : fs[k] = es[k] /\ k \in DOMAIN es
      BY <1>3, <3>1
    <3>3. \A k : k \in {l \in 1 .. i - 1 : fs[l].key = fs[i].key}
                 <=> k \in {l \in DOMAIN es : es[l].key = g}
      BY <1>3, <3>1, <3>2
    <3>4. {fs[j].seq_num : j \in {k \in 1 .. i - 1 : fs[k].key = fs[i].key}} = NumbersOf(g, es)
      <4>1. {k \in 1 .. i - 1 : fs[k].key = fs[i].key} = {l \in DOMAIN es : es[l].key = g}
        BY <3>3
      <4>2. \A K \in SUBSET (1 .. i - 1) : {fs[j].seq_num : j \in K} = {es[j].seq_num : j \in K}
        BY <3>2
      <4>3. {fs[j].seq_num : j \in {k \in 1 .. i - 1 : fs[k].key = fs[i].key}}
            = {es[j].seq_num : j \in {k \in 1 .. i - 1 : fs[k].key = fs[i].key}}
        BY <4>2
      <4> QED  BY <4>1, <4>3 DEF NumbersOf
    <3> QED  BY <1>4, <3>1, <3>4
  <2> QED  BY <1>3, <2>1, <2>2
<1>8. fs \in Seq(EventsOf(v))
  BY <1>1, <1>3
<1> QED  BY <1>6, <1>7, <1>8 DEF StreamsFit, Gapless, Counting

-----------------------------------------------------------------------------
(* What a transaction draws.                                               *)

\* A context is one.
LEMMA ContextIs ==
  ASSUME NEW h, NEW a, NEW u, NEW p, NEW s, NEW c, c = Context(h, a, u, p, s)
  PROVE  /\ c.txn_hash = h /\ c.auid_counter = a /\ c.user = u
         /\ c.is_friend_or_private_entry_func = p /\ c.txn_local_state = s
         /\ c # Unavailable
<1>1. DOMAIN c # DOMAIN Unavailable
  <2>1. "txn_hash" \in DOMAIN c
    BY DEF Context
  <2>2. "txn_hash" \notin DOMAIN Unavailable
    BY DEF Unavailable
  <2> QED  BY <2>1, <2>2
<1> QED  BY <1>1 DEF Context

\* A GUID is nothing that a transaction counts.
LEMMA GuidDrawn ==
  ASSUME NEW c, NEW ids, DrawnUntil(c, ids), NEW id, id[1] = "guid"
  PROVE  DrawnUntil(c, ids \cup {id})
BY DEF DrawnUntil

\* The next unique address is new.
LEMMA AuidDrawn ==
  ASSUME NEW t \in Nat, NEW n \in Nat, NEW c, ContextFits(c, t, n), NEW ids, DrawnUntil(c, ids),
         NEW id, id = <<"auid", c.txn_hash, c.auid_counter + 1>>,
         NEW d, d = [c EXCEPT !.auid_counter = @ + 1]
  PROVE  id \notin ids /\ id[1] = "auid" /\ ContextFits(d, t, n + 1) /\ DrawnUntil(d, ids \cup {id})
<1> DEFINE k == c.auid_counter
<1>1. /\ c = Context(t, k, c.user, c.is_friend_or_private_entry_func, c.txn_local_state)
      /\ k \in Nat /\ c.txn_local_state \in CounterStates
      /\ Cardinality(Below(c.txn_local_state)) <= n
  BY DEF ContextFits
<1>2. c.txn_hash = t
  BY <1>1, ContextIs
<1>3. id[1] = "auid" /\ id[2] = t /\ id[3] = k + 1
  BY <1>2
<1>4. ASSUME NEW h, NEW a, NEW u, NEW p, NEW s, c = Context(h, a, u, p, s)
      PROVE  d = Context(h, a + 1, u, p, s)
  BY Zenon, <1>4 DEF Context
<1>5. d = Context(t, k + 1, c.user, c.is_friend_or_private_entry_func, c.txn_local_state)
  BY <1>1, <1>4
<1>6. /\ d.txn_hash = t /\ d.auid_counter = k + 1 /\ d.user = c.user
      /\ d.is_friend_or_private_entry_func = c.is_friend_or_private_entry_func
      /\ d.txn_local_state = c.txn_local_state
  BY <1>5 DEF Context
<1>7. id \notin ids
  BY <1>1, <1>2, <1>3 DEF DrawnUntil
<1>8. Cardinality(Below(c.txn_local_state)) \in Nat
  BY CounterStatesFinite, FS_Subset, FS_CardinalityType DEF Below
<1>9. ContextFits(d, t, n + 1)
  BY <1>1, <1>5, <1>6, <1>8 DEF ContextFits
<1>10. DrawnUntil(d, ids \cup {id})
  BY <1>1, <1>2, <1>3, <1>6 DEF DrawnUntil
<1> QED  BY <1>3, <1>7, <1>9, <1>10

\* The next random blob is new.
LEMMA BlobDrawn ==
  ASSUME NEW t \in Nat, NEW n \in Nat, n < MaxCalls,
         NEW c, ContextFits(c, t, n), NEW ids, DrawnUntil(c, ids),
         NEW id, NEW sd, id = <<"random", sd, c.txn_hash, c.txn_local_state>>,
         NEW d, d = [c EXCEPT !.txn_local_state = Increment(@)]
  PROVE  id \notin ids /\ id[1] = "random" /\ ContextFits(d, t, n + 1) /\ DrawnUntil(d, ids \cup {id})
<1> DEFINE s0 == c.txn_local_state
           s1 == Increment(s0)
<1>1. /\ c = Context(t, c.auid_counter, c.user, c.is_friend_or_private_entry_func, s0)
      /\ c.auid_counter \in Nat /\ s0 \in CounterStates
      /\ Cardinality(Below(s0)) <= n
  BY DEF ContextFits
<1>2. c.txn_hash = t
  BY <1>1, ContextIs
<1>3. id[1] = "random" /\ id[3] = t /\ id[4] = s0
  BY <1>2
<1>4. ASSUME NEW h, NEW a, NEW u, NEW p, NEW s, c = Context(h, a, u, p, s)
      PROVE  d = Context(h, a, u, p, Increment(s))
  BY Zenon, <1>4 DEF Context
<1>5. d = Context(t, c.auid_counter, c.user, c.is_friend_or_private_entry_func, s1)
  BY <1>1, <1>4
<1>6. /\ Cardinality(Below(s0)) \in Nat /\ Cardinality(CounterStates) \in Nat
  BY CounterStatesFinite, FS_Subset, FS_CardinalityType DEF Below
<1>7. /\ s1 \in CounterStates /\ s0 \notin Below(s0) /\ Below(s1) = Below(s0) \cup {s0}
      /\ Cardinality(Below(s1)) = Cardinality(Below(s0)) + 1
  <2>1. Cardinality(Below(s0)) < Cardinality(CounterStates) - 1
    BY <1>1, <1>6, CounterAssumption, IdentifiersAssumption
  <2> QED  BY <1>1, <2>1, CounterGoesOn
<1> HIDE DEF s0, s1
<1>8. /\ d.txn_hash = t /\ d.auid_counter = c.auid_counter /\ d.user = c.user
      /\ d.is_friend_or_private_entry_func = c.is_friend_or_private_entry_func
      /\ d.txn_local_state = s1
  BY <1>5 DEF Context
<1>9. id \notin ids
  BY <1>2, <1>3, <1>7 DEF DrawnUntil, s0
<1>10. ContextFits(d, t, n + 1)
  BY <1>1, <1>5, <1>6, <1>7, <1>8 DEF ContextFits
<1>11. DrawnUntil(d, ids \cup {id})
  BY <1>1, <1>2, <1>3, <1>7, <1>8 DEF DrawnUntil, s0
<1> QED  BY <1>3, <1>9, <1>10, <1>11

\* An address drawn for the first time is not rooted before.
LEMMA AuidUnrooted ==
  ASSUME NEW w, NEW x, x[1] = "auid", x \notin w.drawn
  PROVE  ~Rooted(w, x)
BY DEF Rooted, Addresses

\* Nor is one derived from a GUID drawn for the first time.
LEMMA FromUnrooted ==
  ASSUME NEW w, NEW g, g \notin w.drawn, NEW x, x = <<"from", g>>
  PROVE  ~Rooted(w, x) /\ x \notin Addresses
BY DEF Rooted, Addresses

\* The handles of a world with one more, for a GUID that was not drawn.
LEMMA OneMoreFollows ==
  ASSUME NEW w, NEW v, NEW g, g \notin w.drawn, v.handles = With(w.handles, g, 0)
  PROVE  HandlesFollow(w, v)
BY DEF HandlesFollow, With

-----------------------------------------------------------------------------
(* Steps.                                                                  *)

\* A call that changes the world and its context in a fitting way.
LEMMA CallKeeps ==
  ASSUME IdentifiersIInv, MayCall, NEW w, NEW t,
         world' = w, ctx' = t, UNCHANGED <<stored, log, events, contextVars>>,
         WorldFits(w), world.drawn \subseteq w.drawn, HandlesFollow(world, w),
         ContextFits(t, txns, callsMade + 1), DrawnUntil(t, w.drawn)
  PROVE  IdentifiersIInv'
<1>1. /\ InTxn /\ callsMade < MaxCalls /\ callsMade' = callsMade + 1
      /\ stored' = stored /\ log' = log /\ events' = events /\ txns' = txns
  BY DEF MayCall, contextVars
<1>2. t # Unavailable
  BY ContextIs DEF ContextFits
<1>3. InTxn'
  BY <1>2 DEF InTxn
<1>4. WorldFits(world') /\ WorldFits(stored') /\ stored'.drawn \subseteq world'.drawn
  BY <1>1 DEF IdentifiersIInv
<1>5. StreamsFit(stored', log') /\ StreamsFit(world', log' \o events')
  BY <1>1, StreamsFollow DEF IdentifiersIInv
<1>6. events' \in Seq(EventsOf(world'))
  BY <1>1, EventsStay DEF IdentifiersIInv
<1>7. DrawnBefore(IF InTxn' THEN txns' ELSE txns' + 1, stored'.drawn)
  BY <1>1, <1>3 DEF IdentifiersIInv
<1>8. txns' \in Nat /\ callsMade' \in Nat /\ callsMade' <= MaxCalls
  BY <1>1, IdentifiersAssumption DEF IdentifiersIInv
<1>9. ContextFits(ctx', txns', callsMade') /\ DrawnUntil(ctx', world'.drawn)
  BY <1>1
<1> QED  BY <1>3, <1>4, <1>5, <1>6, <1>7, <1>8, <1>9
       DEF IdentifiersIInv, WorldFits, StreamsFit, Counting, Gapless
\* The next GUID of an account or an object.
GuidSources ==
  {AccountGuid(a) : a \in DOMAIN world.accounts} \cup {ObjectGuid(o) : o \in DOMAIN world.objects}

LEMMA NextGuid ==
  ASSUME WorldFits(world), NEW s \in GuidSources, s.ok, NEW u, u = Drawn(s.next, s.guid)
  PROVE  /\ s.guid \notin world.drawn /\ s.guid[1] = "guid"
         /\ s.guid[2] \in DOMAIN world.accounts \cup DOMAIN world.objects
         /\ WorldFits(u) /\ u.drawn = world.drawn \cup {s.guid}
         /\ u.handles = world.handles /\ DOMAIN u.objects = DOMAIN world.objects
<1>1. CASE \E a \in DOMAIN world.accounts : s = AccountGuid(a)
  <2>1. PICK a \in DOMAIN world.accounts : s = AccountGuid(a)
    BY <1>1
  <2> DEFINE v == [world EXCEPT !.accounts[a] = @ + 1]
             g == GuidAt(a, world.accounts[a])
  <2>2. WithinGuidLimit(world.accounts[a]) /\ s.guid = g /\ s.next = v
    BY <2>1 DEF AccountGuid
  <2>3. g[1] = "guid" /\ g[2] = a
    BY DEF GuidAt
  <2>4. u = Drawn(v, g)
    BY <2>2
  <2>5. /\ g \notin world.drawn /\ WorldFits(u) /\ u.drawn = world.drawn \cup {g}
        /\ u.handles = world.handles /\ u.objects = world.objects
    BY <2>2, <2>4, AccountNumbers
  <2> QED  BY <2>2, <2>3, <2>5
<1>2. CASE \E o \in DOMAIN world.objects : s = ObjectGuid(o)
  <2>1. PICK o \in DOMAIN world.objects : s = ObjectGuid(o)
    BY <1>2
  <2> DEFINE v == [world EXCEPT !.objects[o] = @ + 1]
             g == GuidAt(o, world.objects[o])
  <2>2. s.guid = g /\ s.next = v
    BY <2>1 DEF ObjectGuid
  <2>3. g[1] = "guid" /\ g[2] = o
    BY DEF GuidAt
  <2>4. u = Drawn(v, g)
    BY <2>2
  <2>5. /\ g \notin world.drawn /\ WorldFits(u) /\ u.drawn = world.drawn \cup {g}
        /\ u.handles = world.handles /\ DOMAIN u.objects = DOMAIN world.objects
    BY <2>4, ObjectNumbers
  <2> QED  BY <2>2, <2>3, <2>5
<1> QED  BY <1>1, <1>2 DEF GuidSources

\* What the invariant says of a running transaction.
LEMMA InCall ==
  ASSUME IdentifiersIInv, MayCall
  PROVE  /\ txns \in Nat /\ callsMade \in Nat /\ callsMade < MaxCalls
         /\ WorldFits(world) /\ ContextFits(ctx, txns, callsMade)
         /\ ContextFits(ctx, txns, callsMade + 1) /\ DrawnUntil(ctx, world.drawn)
<1>1. ASSUME NEW s PROVE Cardinality(Below(s)) \in Nat
  BY CounterStatesFinite, FS_Subset, FS_CardinalityType DEF Below
<1>2. /\ txns \in Nat /\ callsMade \in Nat /\ callsMade < MaxCalls
      /\ WorldFits(world) /\ ContextFits(ctx, txns, callsMade) /\ DrawnUntil(ctx, world.drawn)
  BY DEF MayCall, IdentifiersIInv
<1>3. ContextFits(ctx, txns, callsMade + 1)
  BY <1>1, <1>2 DEF ContextFits
<1> QED  BY <1>2, <1>3

\* account::new_event_handle, object::new_event_handle.
LEMMA NewEventHandleKeeps ==
  ASSUME IdentifiersIInv, NewEventHandle
  PROVE  IdentifiersIInv'
<1>1. MayCall
  BY DEF NewEventHandle
<1>2. PICK s \in GuidSources : s.ok /\ Changes(NewHandle(s.next, s.guid), ctx)
  BY DEF NewEventHandle, GuidSources
<1> DEFINE g == s.guid
           u == Drawn(s.next, g)
           v == NewHandle(s.next, g)
<1>3. /\ g \notin world.drawn /\ g[1] = "guid" /\ WorldFits(u) /\ u.drawn = world.drawn \cup {g}
      /\ u.handles = world.handles
  BY <1>1, <1>2, InCall, NextGuid
<1>4. v = [u EXCEPT !.handles = With(@, g, 0)]
  BY DEF NewHandle
<1> HIDE DEF u, v
<1>5. WorldFits(v) /\ v.drawn = u.drawn /\ v.handles = With(world.handles, g, 0)
  BY <1>3, <1>4, HandleFits
<1>6. HandlesFollow(world, v)
  BY <1>3, <1>5, OneMoreFollows
<1>7. DrawnUntil(ctx, v.drawn)
  BY <1>1, <1>3, <1>5, InCall, GuidDrawn
<1>8. world' = v /\ ctx' = ctx /\ UNCHANGED <<stored, log, events, contextVars>>
  BY <1>2 DEF Changes, v
<1> QED  BY <1>1, <1>3, <1>5, <1>6, <1>7, <1>8, InCall, CallKeeps

\* An object at an address that was just drawn, or at an owner's.
LEMMA ObjectKeeps ==
  ASSUME IdentifiersIInv, MayCall, NEW w, NEW t, WorldFits(w), world.drawn \subseteq w.drawn,
         w.handles = world.handles, ContextFits(t, txns, callsMade + 1), DrawnUntil(t, w.drawn),
         NEW a, Unused(w, a), a \notin DOMAIN w.objects, Rooted(w, a),
         NEW can_delete \in BOOLEAN, can_delete => a \notin Addresses,
         Changes(WithObject(w, a, can_delete), t)
  PROVE  IdentifiersIInv'
<1> DEFINE g == GuidAt(a, INIT_GUID_CREATION_NUM)
           v == WithObject(w, a, can_delete)
<1>1. /\ g \notin w.drawn /\ WorldFits(v) /\ v.drawn = w.drawn \cup {g}
      /\ v.handles = With(world.handles, g, 0)
  BY ObjectFits
<1>2. g[1] = "guid"
  BY DEF GuidAt
<1>3. world' = v /\ ctx' = t /\ UNCHANGED <<stored, log, events, contextVars>>
  BY DEF Changes
<1> HIDE DEF g, v
<1>4. HandlesFollow(world, v)
  BY <1>1, OneMoreFollows
<1>5. DrawnUntil(t, v.drawn)
  BY <1>1, <1>2, GuidDrawn
<1> QED  BY <1>1, <1>3, <1>4, <1>5, CallKeeps

\* The next unique address is drawn.
LEMMA NextAuid ==
  ASSUME IdentifiersIInv, MayCall, NEW a, a = Auid, NEW w, w = Drawn(world, a)
  PROVE  /\ a[1] = "auid" /\ a \notin Addresses /\ Rooted(w, a) /\ Unused(w, a)
         /\ WorldFits(w) /\ w.drawn = world.drawn \cup {a} /\ w.handles = world.handles
         /\ w.objects = world.objects /\ w.accounts = world.accounts
         /\ ContextFits(CountAuid, txns, callsMade + 1) /\ DrawnUntil(CountAuid, w.drawn)
<1>1. /\ a \notin world.drawn /\ a[1] = "auid"
      /\ ContextFits(CountAuid, txns, callsMade + 1) /\ DrawnUntil(CountAuid, world.drawn \cup {a})
  BY InCall, AuidDrawn DEF Auid, CountAuid
<1>2. /\ WorldFits(w) /\ w.drawn = world.drawn \cup {a} /\ w.handles = world.handles
      /\ w.objects = world.objects /\ w.accounts = world.accounts
  BY <1>1, InCall, DrawKeeps
<1>3. Unused(world, a)
  BY <1>1, InCall, AuidUnrooted, UnusedAt
<1>4. Unused(w, a)
  BY <1>1, <1>2, <1>3 DEF Unused
<1>5. Rooted(w, a) /\ a \notin Addresses
  BY <1>1, <1>2 DEF Rooted, Addresses
<1> QED  BY <1>1, <1>2, <1>4, <1>5

\* create_object and create_sticky_object.
LEMMA CreateObjectKeeps ==
  ASSUME IdentifiersIInv, NEW can_delete \in BOOLEAN, CreateObject(can_delete)
  PROVE  IdentifiersIInv'
<1>1. /\ MayCall /\ CanCreateObject(Auid)
      /\ Changes(WithObject(Drawn(world, Auid), Auid, can_delete), CountAuid)
  BY DEF CreateObject
<1> DEFINE a == Auid
           w == Drawn(world, a)
<1>2. /\ a \notin Addresses /\ Rooted(w, a) /\ Unused(w, a)
      /\ WorldFits(w) /\ w.drawn = world.drawn \cup {a} /\ w.handles = world.handles
      /\ w.objects = world.objects
      /\ ContextFits(CountAuid, txns, callsMade + 1) /\ DrawnUntil(CountAuid, w.drawn)
  BY <1>1, NextAuid
<1>3. a \notin DOMAIN w.objects
  BY <1>1, <1>2 DEF CanCreateObject
<1>4. Changes(WithObject(w, a, can_delete), CountAuid)
  BY <1>1
<1> HIDE DEF a, w
<1> QED  BY <1>1, <1>2, <1>3, <1>4, ObjectKeeps

\* create_object_from_account and create_object_from_object.
LEMMA CreateObjectFromGuidKeeps ==
  ASSUME IdentifiersIInv, CreateObjectFromGuid
  PROVE  IdentifiersIInv'
<1>1. MayCall
  BY DEF CreateObjectFromGuid
<1>2. PICK s \in GuidSources :
        /\ s.ok /\ CanCreateObject(<<"from", s.guid>>)
        /\ Changes(WithObject(Drawn(s.next, s.guid), <<"from", s.guid>>, TRUE), ctx)
  BY DEF CreateObjectFromGuid, GuidSources
<1> DEFINE g == s.guid
           a == <<"from", g>>
           u == Drawn(s.next, g)
<1>3. /\ g \notin world.drawn /\ g[1] = "guid" /\ WorldFits(u) /\ u.drawn = world.drawn \cup {g}
      /\ g[2] \in DOMAIN world.accounts \cup DOMAIN world.objects
      /\ u.handles = world.handles /\ DOMAIN u.objects = DOMAIN world.objects
  BY <1>1, <1>2, InCall, NextGuid
<1>4. ~Rooted(world, a) /\ a \notin Addresses
  BY <1>3, FromUnrooted
<1>5. a \notin DOMAIN world.objects /\ a \notin DOMAIN world.accounts
  BY <1>2 DEF CanCreateObject
<1>6. Changes(WithObject(u, a, TRUE), ctx)
  BY <1>2
<1>7. a[1] = "from" /\ a[2] = g
  OBVIOUS
<1> HIDE DEF a, g, u
<1>8. Unused(world, a)
  BY <1>1, <1>4, InCall, UnusedAt
<1>9. Unused(u, a) /\ Rooted(u, a)
  BY <1>3, <1>5, <1>7, <1>8 DEF Unused, Rooted
<1>10. DrawnUntil(ctx, u.drawn)
  BY <1>1, <1>3, InCall, GuidDrawn
<1> QED  BY <1>1, <1>3, <1>4, <1>5, <1>6, <1>9, <1>10, InCall, ObjectKeeps

\* create_specific_object.
LEMMA CreateSpecificObjectKeeps ==
  ASSUME IdentifiersIInv, NEW a \in Addresses, CreateSpecificObject(a)
  PROVE  IdentifiersIInv'
<1>1. /\ MayCall /\ CanCreateObject(a) /\ Changes(WithObject(world, a, FALSE), ctx)
  BY DEF CreateSpecificObject
<1>2. a \notin DOMAIN world.objects
  BY <1>1 DEF CanCreateObject
<1>3. Unused(world, a) /\ Rooted(world, a)
  BY <1>1, <1>2, InCall, UnusedAt DEF Rooted
<1> QED  BY <1>1, <1>2, <1>3, InCall, ObjectKeeps
\* The same handles follow.
LEMMA SameFollow ==
  ASSUME NEW w, NEW v, v.handles = w.handles
  PROVE  HandlesFollow(w, v)
BY DEF HandlesFollow

\* account::create_account.
LEMMA CreateAccountKeeps ==
  ASSUME IdentifiersIInv, NEW a, CreateAccount(a)
  PROVE  IdentifiersIInv'
<1> DEFINE v == WithAccount(world, a)
<1>1. /\ MayCall /\ a \notin DOMAIN world.accounts /\ Changes(v, ctx)
  BY DEF CreateAccount
<1>2. WorldFits(v) /\ v.drawn = world.drawn /\ v.handles = world.handles
  BY <1>1, InCall, AccountFits
<1>3. world' = v /\ ctx' = ctx /\ UNCHANGED <<stored, log, events, contextVars>>
  BY <1>1 DEF Changes
<1> HIDE DEF v
<1> QED  BY <1>1, <1>2, <1>3, InCall, SameFollow, CallKeeps

\* multisig_account::create.
LEMMA CreateMultisigAccountKeeps ==
  ASSUME IdentifiersIInv, CreateMultisigAccount
  PROVE  IdentifiersIInv'
<1> DEFINE a == Auid
           w == Drawn(world, a)
           v == WithAccount(w, a)
<1>1. MayCall /\ a \notin DOMAIN world.accounts /\ Changes(v, CountAuid)
  BY DEF CreateMultisigAccount
<1>2. /\ WorldFits(w) /\ w.drawn = world.drawn \cup {a} /\ w.handles = world.handles
      /\ w.accounts = world.accounts
      /\ ContextFits(CountAuid, txns, callsMade + 1) /\ DrawnUntil(CountAuid, w.drawn)
  BY <1>1, NextAuid
<1>3. WorldFits(v) /\ v.drawn = w.drawn /\ v.handles = w.handles
  BY <1>1, <1>2, AccountFits
<1>4. world' = v /\ ctx' = CountAuid /\ UNCHANGED <<stored, log, events, contextVars>>
  BY <1>1 DEF Changes
<1> HIDE DEF a, w, v
<1>5. HandlesFollow(world, v)
  BY <1>2, <1>3, SameFollow
<1> QED  BY <1>1, <1>2, <1>3, <1>4, <1>5, CallKeeps

\* object::delete.
LEMMA DeleteKeeps ==
  ASSUME IdentifiersIInv, NEW o, Delete(o)
  PROVE  IdentifiersIInv'
<1> DEFINE g == GuidAt(o, INIT_GUID_CREATION_NUM)
           v == [world EXCEPT !.objects = Restrict(@, DOMAIN @ \ {o}),
                              !.handles = Restrict(@, DOMAIN @ \ {g})]
<1>1. MayCall /\ o \in world.deletable /\ Changes(v, ctx)
  BY DEF Delete
<1>2. WorldFits(v) /\ v.drawn = world.drawn /\ HandlesFollow(world, v)
  <2> HIDE DEF g
  <2> QED  BY <1>1, InCall, DeletionFits
<1>3. world' = v /\ ctx' = ctx /\ UNCHANGED <<stored, log, events, contextVars>>
  BY <1>1 DEF Changes
<1> HIDE DEF v
<1> QED  BY <1>1, <1>2, <1>3, InCall, CallKeeps

\* event::destroy_handle.
LEMMA DestroyHandleKeeps ==
  ASSUME IdentifiersIInv, NEW g, DestroyHandle(g)
  PROVE  IdentifiersIInv'
<1> DEFINE v == [world EXCEPT !.handles = Restrict(@, DOMAIN @ \ {g})]
<1>1. MayCall /\ Changes(v, ctx)
  BY DEF DestroyHandle
<1>2. WorldFits(v) /\ v.drawn = world.drawn /\ HandlesFollow(world, v)
  BY <1>1, InCall, DestructionFits
<1>3. world' = v /\ ctx' = ctx /\ UNCHANGED <<stored, log, events, contextVars>>
  BY <1>1 DEF Changes
<1> HIDE DEF v
<1> QED  BY <1>1, <1>2, <1>3, InCall, CallKeeps

\* event::emit_event.
LEMMA EmitKeeps ==
  ASSUME IdentifiersIInv, NEW g \in DOMAIN world.handles, Emit(g)
  PROVE  IdentifiersIInv'
<1> DEFINE n == world.handles[g]
           e == [key |-> g, seq_num |-> n]
           all == log \o events
           v == [world EXCEPT !.handles[g] = @ + 1]
<1>1. /\ MayCall /\ events' = Append(events, e)
      /\ world' = v /\ UNCHANGED <<stored, log, ctx, contextVars>>
  BY DEF Emit
<1>2. /\ InTxn /\ callsMade < MaxCalls /\ callsMade' = callsMade + 1
      /\ stored' = stored /\ log' = log /\ ctx' = ctx /\ txns' = txns
  BY <1>1 DEF MayCall, contextVars
<1>3. g \in world.drawn /\ n \in Nat
  BY <1>1, InCall DEF WorldFits
<1>4. /\ WorldFits(v) /\ v.drawn = world.drawn
      /\ DOMAIN v.handles = DOMAIN world.handles /\ v.handles[g] = world.handles[g] + 1
      /\ \A x \in DOMAIN world.handles : x # g => v.handles[x] = world.handles[x]
  BY <1>1, InCall, EventFits
<1> HIDE DEF v
<1>5. log \in Seq(EventsOf(world)) /\ events \in Seq(EventsOf(world)) /\ e \in EventsOf(world)
  BY <1>3, EventsStay DEF IdentifiersIInv, StreamsFit, EventsOf
<1>6. log' \o events' = Append(all, e)
  <2> HIDE DEF e
  <2>1. /\ <<e>> \in Seq(EventsOf(world)) /\ Append(events, e) = events \o <<e>>
        /\ all \in Seq(EventsOf(world)) /\ Append(all, e) = all \o <<e>>
    BY <1>5, AppendIsConcat, ConcatProperties
  <2>2. (log \o events) \o <<e>> = log \o (events \o <<e>>)
    BY <1>5, <2>1, ConcatAssociative
  <2> QED  BY <1>1, <1>2, <2>1, <2>2
<1>7. StreamsFit(v, log' \o events')
  <2>1. StreamsFit(world, all)
    BY DEF IdentifiersIInv
  <2> HIDE DEF all
  <2>2. ASSUME NEW x, x = e PROVE StreamsFit(v, Append(all, x))
    BY <1>3, <1>4, <2>1, <2>2, StreamsGoOn
  <2> QED  BY <1>6, <2>2
<1>8. events' \in Seq(EventsOf(v))
  <2> HIDE DEF e
  <2>1. Append(events, e) \in Seq(EventsOf(world))
    BY <1>5, AppendProperties
  <2> QED  BY <1>1, <1>4, <2>1 DEF EventsOf
<1>9. txns' \in Nat /\ callsMade' \in Nat /\ callsMade' <= MaxCalls
  BY <1>2, IdentifiersAssumption DEF IdentifiersIInv
<1>10. ContextFits(ctx', txns', callsMade') /\ DrawnUntil(ctx', world'.drawn)
  BY <1>1, <1>2, <1>4, InCall
<1>11. InTxn' /\ WorldFits(stored') /\ stored'.drawn \subseteq world'.drawn /\ StreamsFit(stored', log')
  BY <1>1, <1>2, <1>4 DEF IdentifiersIInv, InTxn
<1>12. DrawnBefore(IF InTxn' THEN txns' ELSE txns' + 1, stored'.drawn)
  BY <1>2, <1>11 DEF IdentifiersIInv
<1> QED  BY <1>1, <1>4, <1>7, <1>8, <1>9, <1>10, <1>11, <1>12
       DEF IdentifiersIInv, WorldFits, StreamsFit, Counting, Gapless

\* randomness::next_32_bytes.
LEMMA Next32BytesKeeps ==
  ASSUME IdentifiersIInv, Next32Bytes
  PROVE  IdentifiersIInv'
<1> DEFINE id == <<"random", seed, ctx.txn_hash, ctx.txn_local_state>>
           d == [ctx EXCEPT !.txn_local_state = Increment(@)]
           w == Drawn(world, id)
<1>1. MayCall /\ Changes(w, d)
  BY DEF Next32Bytes
<1>2. /\ id \notin world.drawn /\ id[1] = "random"
      /\ ContextFits(d, txns, callsMade + 1) /\ DrawnUntil(d, world.drawn \cup {id})
  BY <1>1, InCall, BlobDrawn
<1>3. world' = w /\ ctx' = d /\ UNCHANGED <<stored, log, events, contextVars>>
  BY <1>1 DEF Changes
<1> HIDE DEF id, d
<1>4. WorldFits(w) /\ w.drawn = world.drawn \cup {id} /\ w.handles = world.handles
  BY <1>1, <1>2, InCall, DrawKeeps
<1> HIDE DEF w
<1>5. HandlesFollow(world, w)
  BY <1>4, SameFollow
<1> QED  BY <1>1, <1>2, <1>3, <1>4, <1>5, CallKeeps

\* Calls that only tell.
LEMMA ReplyKeeps ==
  ASSUME IdentifiersIInv, MayCall, UNCHANGED <<world, stored, log, events, ctx, contextVars>>
  PROVE  IdentifiersIInv'
BY InCall, SameFollow, CallKeeps

\* The VM begins a transaction with new counters; its hash is new.
LEMMA BeginTxnKeeps ==
  ASSUME IdentifiersIInv, NEW user, NEW private, BeginTxn(user, private)
  PROVE  IdentifiersIInv'
<1> DEFINE zero == [i \in 1 .. CounterSize |-> 0]
           c == Context(txns + 1, 0, user, private, zero)
<1>1. /\ ~InTxn /\ txns' = txns + 1 /\ ctx' = c
      /\ UNCHANGED <<world, stored, log, events, callsMade, seed, contextReply>>
  BY DEF BeginTxn, Context
<1>2. zero \in CounterStates /\ Below(zero) = {}
  BY CounterBegins
<1>3. Cardinality(Below(zero)) = 0
  BY <1>2, FS_EmptySet
<1> HIDE DEF zero
<1>4. /\ c.txn_hash = txns + 1 /\ c.auid_counter = 0 /\ c.user = user
      /\ c.is_friend_or_private_entry_func = private /\ c.txn_local_state = zero
      /\ c # Unavailable
  BY ContextIs
<1>5. c = Context(txns + 1, c.auid_counter, c.user, c.is_friend_or_private_entry_func,
                  c.txn_local_state)
  BY <1>4
<1> HIDE DEF c
<1>6. ContextFits(c, txns + 1, callsMade)
  <2>1. callsMade \in Nat
    BY DEF IdentifiersIInv
  <2>2. c.auid_counter \in Nat /\ c.txn_local_state \in CounterStates
    BY <1>2, <1>4
  <2>3. Cardinality(Below(c.txn_local_state)) <= callsMade
    BY <1>3, <1>4, <2>1
  <2> QED  BY Zenon, <1>5, <2>2, <2>3 DEF ContextFits
<1>7. DrawnBefore(txns + 1, stored.drawn) /\ world = stored
  BY <1>1 DEF IdentifiersIInv
<1>8. DrawnUntil(c, world.drawn)
  BY <1>4, <1>7 DEF DrawnBefore, DrawnUntil
<1>9. InTxn'
  BY <1>1, <1>4 DEF InTxn
<1>10. /\ world' = world /\ stored' = stored /\ log' = log /\ events' = events
       /\ events = <<>> /\ callsMade' = callsMade
  BY <1>1 DEF IdentifiersIInv
<1>11. /\ txns' \in Nat /\ callsMade' \in Nat /\ callsMade' <= MaxCalls
       /\ ContextFits(ctx', txns', callsMade') /\ DrawnUntil(ctx', world'.drawn)
       /\ DrawnBefore(txns', stored'.drawn)
  BY <1>1, <1>6, <1>7, <1>8, <1>10 DEF IdentifiersIInv
<1>12. /\ WorldFits(stored') /\ WorldFits(world') /\ stored'.drawn \subseteq world'.drawn
       /\ StreamsFit(stored', log') /\ StreamsFit(world', log' \o events')
       /\ events' \in Seq(EventsOf(world'))
  BY <1>10 DEF IdentifiersIInv
<1> QED  BY <1>9, <1>11, <1>12 DEF IdentifiersIInv

\* A transaction that succeeds is stored, with its events.
LEMMA CommitTxnKeeps ==
  ASSUME IdentifiersIInv, CommitTxn
  PROVE  IdentifiersIInv'
<1>1. /\ InTxn /\ ctx' = Unavailable /\ stored' = world /\ log' = log \o events /\ events' = <<>>
      /\ world' = world /\ callsMade' = callsMade /\ txns' = txns
  BY DEF CommitTxn, contextVars
<1>2. /\ ContextFits(ctx, txns, callsMade) /\ DrawnUntil(ctx, world.drawn) /\ txns \in Nat
      /\ WorldFits(world) /\ StreamsFit(world, log \o events)
      /\ callsMade \in Nat /\ callsMade <= MaxCalls
  BY <1>1 DEF IdentifiersIInv
<1>3. ctx.txn_hash = txns
  BY <1>2, ContextIs DEF ContextFits
<1>4. DrawnBefore(txns + 1, world.drawn)
  BY <1>2, <1>3 DEF DrawnUntil, DrawnBefore
<1>5. ~InTxn'
  BY <1>1 DEF InTxn
<1>6. log' \o events' = log'
  <2>1. log \o events \in Seq(EventsOf(world))
    BY <1>2 DEF StreamsFit
  <2> QED  BY <1>1, <2>1, ConcatEmptySeq
<1>7. StreamsFit(world, log') /\ StreamsFit(world, log' \o events')
  BY <1>1, <1>2, <1>6
<1>8. events' \in Seq(EventsOf(world))
  BY <1>1
<1>9. /\ WorldFits(stored') /\ WorldFits(world') /\ stored'.drawn \subseteq world'.drawn
      /\ StreamsFit(stored', log') /\ StreamsFit(world', log' \o events')
      /\ events' \in Seq(EventsOf(world')) /\ world' = stored'
      /\ DrawnBefore(IF InTxn' THEN txns' ELSE txns' + 1, stored'.drawn)
  BY <1>1, <1>2, <1>4, <1>5, <1>7, <1>8
<1> QED  BY <1>1, <1>2, <1>5, <1>9
       DEF IdentifiersIInv, WorldFits, StreamsFit, Counting, Gapless, EventsOf

\* One that aborts leaves nothing.
LEMMA RevertTxnKeeps ==
  ASSUME IdentifiersIInv, RevertTxn
  PROVE  IdentifiersIInv'
<1>1. /\ InTxn /\ ctx' = Unavailable /\ stored' = stored /\ log' = log /\ events' = <<>>
      /\ world' = stored /\ callsMade' = callsMade /\ txns' = txns
  BY DEF RevertTxn, contextVars
<1>2. /\ txns \in Nat /\ callsMade \in Nat /\ callsMade <= MaxCalls
      /\ WorldFits(stored) /\ StreamsFit(stored, log) /\ DrawnBefore(txns, stored.drawn)
  BY <1>1 DEF IdentifiersIInv
<1>3. DrawnBefore(txns + 1, stored.drawn)
  BY <1>2 DEF DrawnBefore
<1>4. ~InTxn'
  BY <1>1 DEF InTxn
<1>5. log' \o events' = log
  <2>1. log \in Seq(EventsOf(stored))
    BY <1>2 DEF StreamsFit
  <2> QED  BY <1>1, <2>1, ConcatEmptySeq
<1>6. /\ WorldFits(stored') /\ WorldFits(world') /\ stored'.drawn \subseteq world'.drawn
      /\ StreamsFit(stored', log') /\ StreamsFit(world', log' \o events')
      /\ events' \in Seq(EventsOf(world')) /\ world' = stored'
      /\ DrawnBefore(IF InTxn' THEN txns' ELSE txns' + 1, stored'.drawn)
  BY <1>1, <1>2, <1>3, <1>4, <1>5
<1> QED  BY <1>1, <1>2, <1>4, <1>6
       DEF IdentifiersIInv, WorldFits, StreamsFit, Counting, Gapless, EventsOf

\* The invariant looks at neither seeds nor replies.
LEMMA OtherwiseKept ==
  ASSUME IdentifiersIInv, UNCHANGED <<world, stored, log, events, ctx, txns, callsMade>>
  PROVE  IdentifiersIInv'
<1>1. /\ world' = world /\ stored' = stored /\ log' = log /\ events' = events /\ ctx' = ctx
      /\ txns' = txns /\ callsMade' = callsMade
  OBVIOUS
<1>2. InTxn' <=> InTxn
  BY <1>1 DEF InTxn
<1>3. /\ WorldFits(stored') /\ WorldFits(world') /\ stored'.drawn \subseteq world'.drawn
      /\ StreamsFit(stored', log') /\ StreamsFit(world', log' \o events')
      /\ events' \in Seq(EventsOf(world'))
      /\ DrawnBefore(IF InTxn' THEN txns' ELSE txns' + 1, stored'.drawn)
  BY <1>1, <1>2 DEF IdentifiersIInv
<1>4. /\ txns' \in Nat /\ callsMade' \in Nat /\ callsMade' <= MaxCalls
      /\ InTxn' => ContextFits(ctx', txns', callsMade') /\ DrawnUntil(ctx', world'.drawn)
      /\ ~InTxn' => world' = stored' /\ events' = <<>>
  BY <1>1, <1>2 DEF IdentifiersIInv
<1> QED  BY <1>3, <1>4 DEF IdentifiersIInv, WorldFits, StreamsFit, Counting, Gapless, EventsOf

\* Nothing is drawn at first, or the GUID of an object that has been an account's address.
LEMMA IdentifiersBegin == IdentifiersInit => IdentifiersIInv
<1> SUFFICES ASSUME IdentifiersInit PROVE IdentifiersIInv
  OBVIOUS
<1>1. NoWorld = World(<<>>, <<>>, <<>>, {}, {})
  BY DEF NoWorld, World
<1>2. /\ NoWorld.accounts = <<>> /\ NoWorld.objects = <<>> /\ NoWorld.handles = <<>>
      /\ NoWorld.deletable = {} /\ NoWorld.drawn = {}
  BY <1>1, WorldParts
<1>2a. DOMAIN <<>> = {}
  OBVIOUS
<1>2b. NoWorld = World(NoWorld.accounts, NoWorld.objects, NoWorld.handles, NoWorld.deletable,
                       NoWorld.drawn)
  BY <1>1, <1>2
<1>3. WorldFits(NoWorld)
  BY <1>2, <1>2a, <1>2b DEF WorldFits
<1>4. ASSUME NEW a \in Addresses
      PROVE  /\ WorldFits(OldWorld(a)) /\ OldWorld(a).handles = With(<<>>, GuidAt(a, INIT_GUID_CREATION_NUM), 0)
             /\ OldWorld(a).drawn = {GuidAt(a, INIT_GUID_CREATION_NUM)}
  <2> DEFINE g == GuidAt(a, INIT_GUID_CREATION_NUM)
             v == WithObject(NoWorld, a, FALSE)
             f == With(v.accounts, a, MAX_GUID_CREATION_NUM - 1)
             u == OldWorld(a)
  <2>1. Unused(NoWorld, a) /\ a \notin DOMAIN NoWorld.objects /\ Rooted(NoWorld, a)
    BY <1>2, <1>2a DEF Unused, Rooted
  <2>2. WorldFits(v) /\ v.drawn = {g} /\ v.handles = With(<<>>, g, 0)
    <3>1. WorldFits(v) /\ v.drawn = NoWorld.drawn \cup {g} /\ v.handles = With(NoWorld.handles, g, 0)
      <4> HIDE DEF g, v
      <4> QED  BY <1>3, <2>1, OwnersObject DEF g, v
    <3> QED  BY <1>2, <3>1
  <2>3. u = [v EXCEPT !.accounts = With(@, a, MAX_GUID_CREATION_NUM - 1)]
    BY DEF OldWorld
  <2>4. g[3] = INIT_GUID_CREATION_NUM
    BY DEF GuidAt
  <2> HIDE DEF v, u, g
  <2>5. ASSUME NEW A, NEW O, NEW H, NEW D, NEW S, v = World(A, O, H, D, S)
        PROVE  u = World(With(A, a, MAX_GUID_CREATION_NUM - 1), O, H, D, S)
    BY Zenon, <2>3, <2>5 DEF World
  <2>6. v = World(v.accounts, v.objects, v.handles, v.deletable, v.drawn)
    BY <2>2 DEF WorldFits
  <2>7. u = World(f, v.objects, v.handles, v.deletable, v.drawn)
    BY <2>5, <2>6
  <2>8. \A x \in DOMAIN f : f[x] \in Nat
    BY <2>2, IdentifiersAssumption DEF With, WorldFits
  <2> HIDE DEF f
  <2>9. /\ u.accounts = f /\ u.objects = v.objects /\ u.handles = v.handles
        /\ u.deletable = v.deletable /\ u.drawn = v.drawn
    BY <2>7, WorldParts
  <2>10. \A x : Rooted(u, x) <=> Rooted(v, x)
    BY <2>9 DEF Rooted
  <2>11. \A id \in u.drawn : id[1] = "guid" => Counted(u, id)
    BY <2>2, <2>4, <2>9, <2>10, Limits DEF WorldFits, Counted
  <2>12. WorldFits(u)
    BY <2>2, <2>7, <2>8, <2>9, <2>10, <2>11 DEF WorldFits
  <2> QED  BY <2>2, <2>9, <2>12 DEF g, u
<1>5. WorldFits(world)
  BY <1>3, <1>4 DEF IdentifiersInit
<1>5a. world = NoWorld \/ \E a \in Addresses : world = OldWorld(a)
  BY DEF IdentifiersInit
<1>6. /\ \A h \in DOMAIN world.handles : world.handles[h] = 0
      /\ \A id \in world.drawn : id[1] = "guid"
  <2>1. CASE world = NoWorld
    BY <1>2, <1>2a, <2>1
  <2>2. ASSUME NEW a \in Addresses, world = OldWorld(a)
        PROVE  /\ \A h \in DOMAIN world.handles : world.handles[h] = 0
               /\ \A id \in world.drawn : id[1] = "guid"
    <3> DEFINE g == GuidAt(a, INIT_GUID_CREATION_NUM)
    <3>1. world.handles = With(<<>>, g, 0) /\ world.drawn = {g}
      BY <1>4, <2>2
    <3>2. g[1] = "guid"
      BY DEF GuidAt
    <3> QED  BY <1>2a, <3>1, <3>2 DEF With
  <2> QED  BY <1>5a, <2>1, <2>2
<1>8. StreamsFit(world, <<>>)
  <2>1. \A h : NumbersOf(h, <<>>) = {}
    BY DEF NumbersOf
  <2>2. ASSUME NEW h \in DOMAIN world.handles PROVE NumbersOf(h, <<>>) = 0 .. world.handles[h] - 1
    <3>1. world.handles[h] = 0
      BY <1>6
    <3>2. 0 .. 0 - 1 = {}
      OBVIOUS
    <3> QED  BY <2>1, <3>1, <3>2
  <2> QED  BY <2>2 DEF StreamsFit, Gapless, Counting
<1>9. <<>> \o <<>> = <<>> /\ <<>> \in Seq(EventsOf(world))
  OBVIOUS
<1>10. DrawnBefore(1, world.drawn)
  BY <1>6 DEF DrawnBefore
<1> QED  BY <1>5, <1>8, <1>9, <1>10, IdentifiersAssumption DEF IdentifiersInit, IdentifiersIInv, InTxn

\* Every step keeps the invariant.
LEMMA IdentifiersGoOn == IdentifiersIInv /\ [IdentifiersNext]_identifierVars => IdentifiersIInv'
<1> SUFFICES ASSUME IdentifiersIInv, [IdentifiersNext]_identifierVars PROVE IdentifiersIInv'
  OBVIOUS
<1>1. CASE SetSeed
  BY <1>1, OtherwiseKept DEF SetSeed
<1>2. CASE CommitTxn
  BY <1>2, CommitTxnKeeps
<1>3. CASE RevertTxn
  BY <1>3, RevertTxnKeeps
<1>4. ASSUME NEW user \in Payloads, NEW private \in BOOLEAN, BeginTxn(user, private)
      PROVE  IdentifiersIInv'
  BY <1>4, BeginTxnKeeps
<1>5. CASE NewEventHandle
  BY <1>5, NewEventHandleKeeps
<1>6. CASE CreateObjectFromGuid
  BY <1>6, CreateObjectFromGuidKeeps
<1>7. CASE CreateMultisigAccount
  BY <1>7, CreateMultisigAccountKeeps
<1>8. ASSUME NEW can_delete \in BOOLEAN, CreateObject(can_delete) PROVE IdentifiersIInv'
  BY <1>8, CreateObjectKeeps
<1>9. ASSUME NEW a, (a \in Addresses /\ CreateSpecificObject(a)) \/ CreateAccount(a)
      PROVE  IdentifiersIInv'
  BY <1>9, CreateSpecificObjectKeeps, CreateAccountKeeps
<1>10. ASSUME NEW o \in world.deletable, Delete(o) PROVE IdentifiersIInv'
  BY <1>10, DeleteKeeps
<1>11. ASSUME NEW guid \in DOMAIN world.handles, Emit(guid) \/ DestroyHandle(guid)
       PROVE  IdentifiersIInv'
  BY <1>11, EmitKeeps, DestroyHandleKeeps
<1>12. CASE Next32Bytes
  BY <1>12, Next32BytesKeeps
<1>13. CASE ReadContext
  BY <1>13, ReplyKeeps DEF ReadContext
<1>14. ASSUME NEW o, ExistsAt(o) PROVE IdentifiersIInv'
  BY <1>14, ReplyKeeps DEF ExistsAt
<1>15. CASE UNCHANGED identifierVars
  BY <1>15, OtherwiseKept DEF identifierVars
<1> QED
  BY <1>1, <1>2, <1>3, <1>4, <1>5, <1>6, <1>7, <1>8, <1>9, <1>10, <1>11, <1>12, <1>13, <1>14,
     <1>15 DEF IdentifiersNext

\* What was drawn, by whom and when, fits the counters that number it, in the session and
\* in storage (guid.move, object.move, natives/transaction_context.rs, natives/randomness.rs).
THEOREM IdentifiersInvariant == IdentifiersSpec => []IdentifiersIInv
BY IdentifiersBegin, IdentifiersGoOn, PTL DEF IdentifiersSpec

\* No GUID, no unique address and no random blob is given out twice, whatever commits and
\* aborts (account.move's limit of GUIDs, RandomnessContext::increment).
THEOREM DrawsStayFresh == IdentifiersSpec => []DrawsAreFresh
<1>1. IdentifiersIInv => DrawsAreFresh
  BY WorldParts DEF IdentifiersIInv, WorldFits, DrawsAreFresh
<1> QED  BY <1>1, IdentifiersInvariant, PTL

\* Every event stream is numbered without gaps, and its handle counts it (event.move).
THEOREM StreamsStayGapless == IdentifiersSpec => []StreamsAreGapless
<1>1. IdentifiersIInv => StreamsAreGapless
  BY DEF IdentifiersIInv, StreamsFit, Gapless, Counting, StreamsAreGapless
<1> QED  BY <1>1, IdentifiersInvariant, PTL

-----------------------------------------------------------------------------
(* Ristretto: any order of the group, number of points and limit.           *)

USE RistrettoAssumption

-----------------------------------------------------------------------------
(* The inductive invariant *)

StoreTypeOK ==
  /\ points \in Seq(Point)
  /\ locals \in [Local -> Nat \cup {NoPoint}]
  /\ value \in [Local -> Nat \cup {NoPoint}]

\* What outlives a transaction was checked, or made, when it was stored.
KeptIsValid ==
  /\ scalars \subseteq Point
  /\ compressed \subseteq {Encode(p) : p \in Point}

RistrettoIInv ==
  /\ StoreTypeOK
  /\ KeptIsValid
  /\ HandlesAreUnique
  /\ PointsAreValues

-----------------------------------------------------------------------------
(* Points and scalars *)

\* A remainder is a point, or a scalar.
LEMMA Remainder ==
  ASSUME NEW n \in Int
  PROVE  n % N \in Point
BY DEF Point

LEMMA ProductInt ==
  ASSUME NEW m \in Int, NEW n \in Int
  PROVE  m * n \in Int
OBVIOUS

\* A scalar that the program has is its own value, and passes the checks.
LEMMA ScalarIsItself ==
  ASSUME NEW k \in Point
  PROVE  ValidScalar(k) /\ Scalar(k) = k
BY DEF Point, ValidScalar, Scalar, WrongLength

\* A compressed point that the program has is that of a point.
LEMMA Decoded ==
  ASSUME NEW b \in {Encode(p) : p \in Point}
  PROVE  Decompresses(b) /\ Decode(b) \in Point
BY DEF Point, Decompresses, Encode, Decode

\* The points that the program holds are points in the store, worth what
\* Move computed.
LEMMA HeldIsPoint ==
  ASSUME RistrettoIInv, NEW y \in Held
  PROVE  Has(locals[y]) /\ Get(y) \in Point /\ Get(y) = value[y]
BY DEF RistrettoIInv, StoreTypeOK, HandlesAreUnique, PointsAreValues, Has, Get, Held

-----------------------------------------------------------------------------
(* How a native ends *)

\* A session that stops leaves no points.
LEMMA EmptyStore ==
  ASSUME points' = <<>>, locals' = [x \in Local |-> NoPoint],
         value' = [x \in Local |-> NoPoint], reply'.told = reply'.truth,
         state' \notin {"panic", "INVARIANT_VIOLATION"},
         scalars' \subseteq Point, compressed' \subseteq {Encode(p) : p \in Point}
  PROVE  RistrettoIInv'
<1>1. Held' = {} /\ points' \in Seq(Point) /\ Len(points') = 0
  BY DEF Held
<1> QED
  BY <1>1 DEF RistrettoIInv, StoreTypeOK, KeptIsValid, HandlesAreUnique, PointsAreValues

LEMMA StopsStep ==
  ASSUME RistrettoIInv, NEW how, how \notin {"panic", "INVARIANT_VIOLATION"}, Stops(how)
  PROVE  RistrettoIInv'
BY EmptyStore DEF Stops, NoReply, RistrettoIInv, KeptIsValid

\* A new point goes behind the others and takes a handle that is not in use.
LEMMA AddPointStep ==
  ASSUME RistrettoIInv, state = "running", NEW x \in Local, NEW p \in Point,
         AddPoint(x, p, p)
  PROVE  RistrettoIInv'
<1>1. CASE Len(points) >= NumPointsLimit
  <2>1. Stops("E_TOO_MANY_POINTS_CREATED")
    BY <1>1 DEF AddPoint
  <2> QED
    BY <2>1, StopsStep
<1>2. CASE ~(Len(points) >= NumPointsLimit)
  <2>1. /\ points' = Append(points, p)
        /\ locals' = [locals EXCEPT ![x] = Len(points)]
        /\ value' = [value EXCEPT ![x] = p]
        /\ reply' = NoReply
        /\ scalars' = scalars /\ compressed' = compressed /\ state' = state
    BY <1>2 DEF AddPoint
  <2>2. Len(points) \in Nat /\ points \in Seq(Point)
    BY DEF RistrettoIInv, StoreTypeOK
  <2>3. /\ points' \in Seq(Point) /\ Len(points') = Len(points) + 1
        /\ points'[Len(points) + 1] = p
        /\ \A i \in 1 .. Len(points) : points'[i] = points[i]
    BY <2>1, <2>2
  <2>4. Held' = Held \cup {x}
    BY <2>1, <2>2 DEF Held, RistrettoIInv, StoreTypeOK
  <2>5. StoreTypeOK'
    BY <2>1, <2>2, <2>3 DEF StoreTypeOK, RistrettoIInv, Point
  <2>6. \A y \in Held \ {x} : /\ locals'[y] = locals[y] /\ value'[y] = value[y]
                              /\ locals[y] + 1 \in 1 .. Len(points)
    BY <2>1, <2>2 DEF Held, RistrettoIInv, StoreTypeOK, HandlesAreUnique, Has
  <2>7. locals'[x] = Len(points) /\ value'[x] = p
    BY <2>1 DEF RistrettoIInv, StoreTypeOK
  <2>8. HandlesAreUnique'
    <3>1. DOMAIN points' = 1 .. Len(points) + 1
      BY <2>2, <2>3
    <3>2. \A y \in Held \ {x} : /\ locals[y] \in Nat /\ locals[y] # Len(points)
                                /\ locals[y] + 1 \in 1 .. Len(points) + 1
      BY <2>2, <2>6 DEF HandlesAreUnique, RistrettoIInv
    <3>3. \A y \in Held' : locals'[y] \in Nat /\ locals'[y] + 1 \in DOMAIN points'
      BY <2>2, <2>4, <2>6, <2>7, <3>1, <3>2
    <3>4. \A y, z \in Held' : y # z => locals'[y] # locals'[z]
      BY <2>4, <2>6, <2>7, <3>2 DEF HandlesAreUnique, RistrettoIInv
    <3>5. Len(points') <= NumPointsLimit
      BY <1>2, <2>2, <2>3
    <3> QED
      BY <3>3, <3>4, <3>5 DEF HandlesAreUnique, Has
  <2>9. PointsAreValues'
    BY <2>1, <2>2, <2>3, <2>4, <2>6, <2>7
    DEF PointsAreValues, RistrettoIInv, Get, NoReply
  <2> QED
    BY <2>1, <2>5, <2>8, <2>9 DEF RistrettoIInv, KeptIsValid
<1> QED
  BY <1>1, <1>2

\* A point changed in place changes that of no other local, since no other has
\* its handle.
LEMMA SetPointStep ==
  ASSUME RistrettoIInv, NEW x \in Held, NEW p \in Point, SetPoint(x, p, p)
  PROVE  RistrettoIInv'
<1>1. /\ points' = [points EXCEPT ![locals[x] + 1] = p]
      /\ value' = [value EXCEPT ![x] = p]
      /\ reply' = NoReply /\ locals' = locals
      /\ scalars' = scalars /\ compressed' = compressed /\ state' = state
  BY DEF SetPoint
<1>2. Held' = Held /\ x \in Local
  BY <1>1 DEF Held
<1>3. locals[x] \in Nat /\ locals[x] + 1 \in 1 .. Len(points)
  BY DEF RistrettoIInv, HandlesAreUnique, Has, StoreTypeOK
<1>4. points' \in Seq(Point) /\ Len(points') = Len(points)
  BY <1>1, <1>3 DEF RistrettoIInv, StoreTypeOK
<1>5. StoreTypeOK'
  <2>1. p \in Nat
    BY DEF Point
  <2>2. value' \in [Local -> Nat \cup {NoPoint}]
    BY <1>1, <2>1 DEF StoreTypeOK, RistrettoIInv
  <2> QED
    BY <1>1, <1>4, <2>2 DEF StoreTypeOK, RistrettoIInv
<1>6. HandlesAreUnique'
  BY <1>1, <1>2, <1>4 DEF HandlesAreUnique, RistrettoIInv, Has, StoreTypeOK
<1>7. PointsAreValues'
  <2>1. ASSUME NEW y \in Held PROVE Get(y)' = value'[y]
    <3>1. CASE y = x
      BY <3>1, <1>1, <1>2, <1>3 DEF Get, RistrettoIInv, StoreTypeOK
    <3>2. CASE y # x
      <4>1. locals[y] \in Nat /\ locals[y] + 1 # locals[x] + 1
        BY <3>2, <1>3 DEF RistrettoIInv, HandlesAreUnique
      <4>2. locals[y] + 1 \in 1 .. Len(points)
        BY DEF RistrettoIInv, HandlesAreUnique, Has, StoreTypeOK
      <4> QED
        BY <3>2, <4>1, <4>2, <1>1, <1>2
        DEF Get, RistrettoIInv, StoreTypeOK, PointsAreValues, Held
    <3> QED
      BY <3>1, <3>2
  <2> QED
    BY <2>1, <1>1, <1>2 DEF PointsAreValues, NoReply, RistrettoIInv
<1> QED
  BY <1>1, <1>5, <1>6, <1>7 DEF RistrettoIInv, KeptIsValid

\* A reply that tells the truth.
LEMMA RepliesStep ==
  ASSUME RistrettoIInv, NEW b \in BOOLEAN, Replies(b, b)
  PROVE  RistrettoIInv'
<1>1. /\ points' = points /\ locals' = locals /\ value' = value
      /\ scalars' = scalars /\ compressed' = compressed /\ state' = state
      /\ reply'.told = reply'.truth
  BY DEF Replies
<1>2. Held' = Held
  BY <1>1 DEF Held
<1> QED
  BY <1>1, <1>2 DEF RistrettoIInv, StoreTypeOK, KeptIsValid, HandlesAreUnique,
                    PointsAreValues, Has, Get

\* Scalars and compressed points are added to what the program has.
LEMMA KeptStep ==
  ASSUME RistrettoIInv, points' = points, locals' = locals, value' = value,
         state' = state, reply'.told = reply'.truth,
         scalars' \subseteq Point, compressed' \subseteq {Encode(p) : p \in Point}
  PROVE  RistrettoIInv'
<1>1. Held' = Held
  BY DEF Held
<1> QED
  BY <1>1 DEF RistrettoIInv, StoreTypeOK, KeptIsValid, HandlesAreUnique,
              PointsAreValues, Has, Get

LEMMA NewScalarStep ==
  ASSUME RistrettoIInv, NEW k \in Point, NewScalar(k)
  PROVE  RistrettoIInv'
BY KeptStep DEF NewScalar, NoReply, RistrettoIInv, KeptIsValid

LEMMA NewCompressedStep ==
  ASSUME RistrettoIInv, NEW p \in Point, NewCompressed(Encode(p))
  PROVE  RistrettoIInv'
BY KeptStep DEF NewCompressed, NoReply, RistrettoIInv, KeptIsValid

\* Two points that the program lends at once are changed apart.
LEMMA InPlaceStep ==
  ASSUME RistrettoIInv, NEW y \in Held, NEW z \in Held, y # z, NEW p \in Point,
         InPlace(y, z, p, p)
  PROVE  RistrettoIInv'
<1>1. locals[y] # locals[z]
  BY DEF RistrettoIInv, HandlesAreUnique
<1> QED
  BY <1>1, SetPointStep DEF InPlace

\* No native panics on the points, or refuses the scalars, that a program has.
LEMMA NativeReads ==
  ASSUME RistrettoIInv
  PROVE  /\ \A y \in Held : Has(locals[y]) /\ Get(y) \in Point /\ Get(y) = value[y]
         /\ \A k \in scalars : k \in Point /\ ValidScalar(k) /\ Scalar(k) = k
BY HeldIsPoint, ScalarIsItself DEF RistrettoIInv, KeptIsValid

-----------------------------------------------------------------------------
(* Each native preserves the invariant. *)

LEMMA NewPointSteps ==
  ASSUME RistrettoIInv,
         \/ native_point_identity \/ native_basepoint \/ native_new_point
         \/ native_point_decompress \/ point_decompress \/ native_point_clone
  PROVE  RistrettoIInv'
<1>0. 0 \in Point /\ 1 \in Point /\ HashBase \in Point
  BY DEF Point
<1>1. CASE native_point_identity
  <2>1. PICK x \in Local : Native({}, {}, AddPoint(x, 0, 0))
    BY <1>1 DEF native_point_identity
  <2>2. Stops("OUT_OF_GAS") \/ (state = "running" /\ AddPoint(x, 0, 0))
    BY <2>1 DEF Native
  <2> QED
    BY <2>2, <1>0, StopsStep, AddPointStep
<1>2. CASE native_basepoint
  <2>1. PICK x \in Local, p \in {1, HashBase} : Native({}, {}, AddPoint(x, p, p))
    BY <1>2 DEF native_basepoint
  <2>2. Stops("OUT_OF_GAS") \/ (state = "running" /\ AddPoint(x, p, p))
    BY <2>1 DEF Native
  <2> QED
    BY <2>2, <1>0, StopsStep, AddPointStep
<1>3. CASE native_new_point
  <2>1. PICK x \in Local, p \in Point : Native({}, {}, AddPoint(x, p, p))
    BY <1>3 DEF native_new_point
  <2>2. Stops("OUT_OF_GAS") \/ (state = "running" /\ AddPoint(x, p, p))
    BY <2>1 DEF Native
  <2> QED
    BY <2>2, StopsStep, AddPointStep
<1>4. CASE native_point_decompress
  <2>1. PICK x \in Local, b \in Bytes32 :
          Native({}, {}, IF Decompresses(b) THEN AddPoint(x, Decode(b), Decode(b))
                         ELSE Replies(FALSE, \E p \in Point : Encode(p) = b))
    BY <1>4 DEF native_point_decompress
  <2>2. CASE Decompresses(b)
    <3>1. Stops("OUT_OF_GAS") \/ (state = "running" /\ AddPoint(x, Decode(b), Decode(b)))
      BY <2>1, <2>2 DEF Native
    <3>2. Decode(b) \in Point
      BY <2>2, Decoded DEF Decompresses
    <3> QED
      BY <3>1, <3>2, StopsStep, AddPointStep
  <2>3. CASE ~Decompresses(b)
    <3>1. (\E p \in Point : Encode(p) = b) = FALSE
      BY <2>3 DEF Decompresses
    <3>2. Stops("OUT_OF_GAS") \/ Replies(FALSE, FALSE)
      BY <2>1, <2>3, <3>1 DEF Native
    <3> QED
      BY <3>2, StopsStep, RepliesStep
  <2> QED
    BY <2>2, <2>3
<1>5. CASE point_decompress
  <2>1. PICK x \in Local, b \in compressed :
          Native({}, {},
           IF Decompresses(b) THEN AddPoint(x, Decode(b), Decode(b))
           ELSE /\ locals' = [locals EXCEPT ![x] = NumPointsLimit]
                /\ value' = [value EXCEPT ![x] = Decode(b) % N]
                /\ reply' = NoReply
                /\ UNCHANGED <<bulletproofs, points, scalars, compressed, state>>)
    BY <1>5 DEF point_decompress
  <2>2. Decompresses(b) /\ Decode(b) \in Point
    BY Decoded DEF RistrettoIInv, KeptIsValid
  <2>3. Stops("OUT_OF_GAS") \/ (state = "running" /\ AddPoint(x, Decode(b), Decode(b)))
    BY <2>1, <2>2 DEF Native
  <2> QED
    BY <2>2, <2>3, StopsStep, AddPointStep
<1>6. CASE native_point_clone
  <2>1. PICK x \in Local, y \in Held : Native({y}, {}, AddPoint(x, Get(y), value[y]))
    BY <1>6 DEF native_point_clone
  <2>2. Has(locals[y]) /\ Get(y) \in Point /\ Get(y) = value[y]
    BY NativeReads
  <2>3. Stops("OUT_OF_GAS") \/ (state = "running" /\ AddPoint(x, Get(y), Get(y)))
    BY <2>1, <2>2 DEF Native
  <2> QED
    BY <2>2, <2>3, StopsStep, AddPointStep
<1> QED
  BY <1>1, <1>2, <1>3, <1>4, <1>5, <1>6

LEMMA ReadingSteps ==
  ASSUME RistrettoIInv,
         \/ native_point_is_canonical \/ compressed_constants
         \/ E_NATIVE_FUN_NOT_AVAILABLE \/ native_point_compress
         \/ native_point_equals \/ native_verify_range_proof
  PROVE  RistrettoIInv'
<1>1. CASE native_point_is_canonical
  <2>1. PICK b \in Bytes32 :
          Native({}, {}, IF Decompresses(b) THEN NewCompressed(b)
                         ELSE Replies(FALSE, \E p \in Point : Encode(p) = b))
    BY <1>1 DEF native_point_is_canonical
  <2>2. CASE Decompresses(b)
    <3>1. PICK p \in Point : b = Encode(p)
      BY <2>2 DEF Decompresses
    <3>2. Stops("OUT_OF_GAS") \/ NewCompressed(Encode(p))
      BY <2>1, <2>2, <3>1 DEF Native
    <3> QED
      BY <3>2, StopsStep, NewCompressedStep
  <2>3. CASE ~Decompresses(b)
    <3>1. (\E p \in Point : Encode(p) = b) = FALSE
      BY <2>3 DEF Decompresses
    <3>2. Stops("OUT_OF_GAS") \/ Replies(FALSE, FALSE)
      BY <2>1, <2>3, <3>1 DEF Native
    <3> QED
      BY <3>2, StopsStep, RepliesStep
  <2> QED
    BY <2>2, <2>3
<1>2. CASE compressed_constants
  <2>1. PICK p \in {0, 1} : NewCompressed(Encode(p))
    BY <1>2 DEF compressed_constants
  <2>2. p \in Point
    BY DEF Point
  <2> QED
    BY <2>1, <2>2, NewCompressedStep
<1>3. CASE E_NATIVE_FUN_NOT_AVAILABLE
  <2>1. Stops("E_NATIVE_FUN_NOT_AVAILABLE")
    BY <1>3 DEF E_NATIVE_FUN_NOT_AVAILABLE
  <2> QED
    BY <2>1, StopsStep
<1>4. CASE native_point_compress
  <2>1. PICK y \in Held : Native({y}, {}, NewCompressed(Encode(Get(y))))
    BY <1>4 DEF native_point_compress
  <2>2. Has(locals[y]) /\ Get(y) \in Point
    BY NativeReads
  <2>3. Stops("OUT_OF_GAS") \/ NewCompressed(Encode(Get(y)))
    BY <2>1, <2>2 DEF Native
  <2> QED
    BY <2>2, <2>3, StopsStep, NewCompressedStep
<1>5. CASE native_point_equals
  <2>1. PICK y \in Held, z \in Held :
          Native({y, z}, {}, Replies(Get(y) = Get(z), value[y] = value[z]))
    BY <1>5 DEF native_point_equals
  <2>2. /\ Has(locals[y]) /\ Has(locals[z])
        /\ (Get(y) = Get(z)) = (value[y] = value[z])
    BY NativeReads
  <2>3. Stops("OUT_OF_GAS") \/ Replies(Get(y) = Get(z), Get(y) = Get(z))
    BY <2>1, <2>2 DEF Native
  <2>4. (Get(y) = Get(z)) \in BOOLEAN
    OBVIOUS
  <2> QED
    BY <2>3, <2>4, StopsStep, RepliesStep
<1>6. CASE native_verify_range_proof
  <2>1. PICK y \in Held, z \in Held, supported \in BOOLEAN :
          Native({y, z}, {}, IF supported THEN Replies(TRUE, TRUE)
                             ELSE Stops("NFE_RANGE_NOT_SUPPORTED"))
    BY <1>6 DEF native_verify_range_proof
  <2>2. Has(locals[y]) /\ Has(locals[z])
    BY NativeReads
  <2>3. \/ Stops("OUT_OF_GAS") \/ Replies(TRUE, TRUE)
        \/ Stops("NFE_RANGE_NOT_SUPPORTED")
    BY <2>1, <2>2 DEF Native
  <2> QED
    BY <2>3, StopsStep, RepliesStep
<1> QED
  BY <1>1, <1>2, <1>3, <1>4, <1>5, <1>6

\* A point, or one in place, multiplied, negated, and the same for two points.
LEMMA MulNegSteps ==
  ASSUME RistrettoIInv, native_point_mul \/ native_point_neg
  PROVE  RistrettoIInv'
<1>1. CASE native_point_mul
  <2>1. PICK y \in Held, k \in scalars :
          \/ \E x \in Local :
               Native({y}, {k}, AddPoint(x, (Scalar(k) * Get(y)) % N, (k * value[y]) % N))
          \/ Native({y}, {k}, SetPoint(y, (Scalar(k) * Get(y)) % N, (k * value[y]) % N))
    BY <1>1 DEF native_point_mul
  <2>2. /\ Has(locals[y]) /\ Get(y) \in Point /\ Get(y) = value[y]
        /\ k \in Point /\ ValidScalar(k) /\ Scalar(k) = k
    BY NativeReads
  <2>3. (k * Get(y)) % N \in Point
    <3>1. k * Get(y) \in Int
      BY <2>2 DEF Point
    <3> QED
      BY <3>1, Remainder
  <2>4. \/ Stops("OUT_OF_GAS")
        \/ \E x \in Local : state = "running"
                           /\ AddPoint(x, (k * Get(y)) % N, (k * Get(y)) % N)
        \/ SetPoint(y, (k * Get(y)) % N, (k * Get(y)) % N)
    BY <2>1, <2>2 DEF Native
  <2> QED
    BY <2>3, <2>4, StopsStep, AddPointStep, SetPointStep
<1>2. CASE native_point_neg
  <2>1. PICK y \in Held :
          \/ \E x \in Local :
               Native({y}, {}, AddPoint(x, (N - Get(y)) % N, (N - value[y]) % N))
          \/ Native({y}, {}, SetPoint(y, (N - Get(y)) % N, (N - value[y]) % N))
    BY <1>2 DEF native_point_neg
  <2>2. Has(locals[y]) /\ Get(y) \in Point /\ Get(y) = value[y]
    BY NativeReads
  <2>3. (N - Get(y)) % N \in Point
    BY <2>2, Remainder DEF Point
  <2>4. \/ Stops("OUT_OF_GAS")
        \/ \E x \in Local : state = "running"
                           /\ AddPoint(x, (N - Get(y)) % N, (N - Get(y)) % N)
        \/ SetPoint(y, (N - Get(y)) % N, (N - Get(y)) % N)
    BY <2>1, <2>2 DEF Native
  <2> QED
    BY <2>3, <2>4, StopsStep, AddPointStep, SetPointStep
<1> QED
  BY <1>1, <1>2

LEMMA AddOrSubStep ==
  ASSUME RistrettoIInv, NEW y \in Held, NEW z \in Held, NEW p \in Point,
         AddOrSub(y, z, p, p)
  PROVE  RistrettoIInv'
<1>1. Has(locals[y]) /\ Has(locals[z])
  BY NativeReads
<1>2. \/ Stops("OUT_OF_GAS")
      \/ \E x \in Local : state = "running" /\ AddPoint(x, p, p)
      \/ y # z /\ InPlace(y, z, p, p)
  BY <1>1 DEF AddOrSub, Native
<1> QED
  BY <1>2, StopsStep, AddPointStep, InPlaceStep

LEMMA AddSubSteps ==
  ASSUME RistrettoIInv, native_point_add \/ native_point_sub
  PROVE  RistrettoIInv'
<1>1. CASE native_point_add
  <2>1. PICK y \in Held, z \in Held :
          AddOrSub(y, z, (Get(y) + Get(z)) % N, (value[y] + value[z]) % N)
    BY <1>1 DEF native_point_add
  <2>2. /\ Get(y) \in Point /\ Get(y) = value[y]
        /\ Get(z) \in Point /\ Get(z) = value[z]
    BY NativeReads
  <2>3. (Get(y) + Get(z)) % N \in Point
    BY <2>2, Remainder DEF Point
  <2>4. AddOrSub(y, z, (Get(y) + Get(z)) % N, (Get(y) + Get(z)) % N)
    BY <2>1, <2>2
  <2> QED
    BY <2>3, <2>4, AddOrSubStep
<1>2. CASE native_point_sub
  <2>1. PICK y \in Held, z \in Held :
          AddOrSub(y, z, (Get(y) - Get(z) + N) % N, (value[y] - value[z] + N) % N)
    BY <1>2 DEF native_point_sub
  <2>2. /\ Get(y) \in Point /\ Get(y) = value[y]
        /\ Get(z) \in Point /\ Get(z) = value[z]
    BY NativeReads
  <2>3. (Get(y) - Get(z) + N) % N \in Point
    BY <2>2, Remainder DEF Point
  <2>4. AddOrSub(y, z, (Get(y) - Get(z) + N) % N, (Get(y) - Get(z) + N) % N)
    BY <2>1, <2>2
  <2> QED
    BY <2>3, <2>4, AddOrSubStep
<1> QED
  BY <1>1, <1>2

LEMMA BasepointMulSteps ==
  ASSUME RistrettoIInv, native_basepoint_mul \/ native_basepoint_double_mul
  PROVE  RistrettoIInv'
<1>1. CASE native_basepoint_mul
  <2>1. PICK x \in Local, k \in scalars :
          Native({}, {k}, AddPoint(x, Scalar(k) % N, k % N))
    BY <1>1 DEF native_basepoint_mul
  <2>2. k \in Point /\ ValidScalar(k) /\ Scalar(k) = k
    BY NativeReads
  <2>3. k % N \in Point
    BY <2>2, Remainder DEF Point
  <2>4. Stops("OUT_OF_GAS") \/ (state = "running" /\ AddPoint(x, k % N, k % N))
    BY <2>1, <2>2 DEF Native
  <2> QED
    BY <2>3, <2>4, StopsStep, AddPointStep
<1>2. CASE native_basepoint_double_mul
  <2>1. PICK x \in Local, y \in Held, j \in scalars, k \in scalars :
          Native({y}, {j, k}, AddPoint(x, (Scalar(j) * Get(y) + Scalar(k)) % N,
                                       (j * value[y] + k) % N))
    BY <1>2 DEF native_basepoint_double_mul
  <2>2. /\ Has(locals[y]) /\ Get(y) \in Point /\ Get(y) = value[y]
        /\ j \in Point /\ ValidScalar(j) /\ Scalar(j) = j
        /\ k \in Point /\ ValidScalar(k) /\ Scalar(k) = k
    BY NativeReads
  <2>3. (j * Get(y) + k) % N \in Point
    BY <2>2, Remainder DEF Point
  <2>4. \/ Stops("OUT_OF_GAS")
        \/ state = "running" /\ AddPoint(x, (j * Get(y) + k) % N, (j * Get(y) + k) % N)
    BY <2>1, <2>2 DEF Native
  <2> QED
    BY <2>3, <2>4, StopsStep, AddPointStep
<1> QED
  BY <1>1, <1>2

LEMMA DoubleMulStep ==
  ASSUME RistrettoIInv, native_double_scalar_mul
  PROVE  RistrettoIInv'
<1>1. PICK x \in Local, y \in Held, z \in Held, j \in scalars, k \in scalars :
        Native({y, z}, {j, k},
               AddPoint(x, (Scalar(j) * Get(y) + Scalar(k) * Get(z)) % N,
                        (j * value[y] + k * value[z]) % N))
  BY DEF native_double_scalar_mul
<1>2. /\ Has(locals[y]) /\ Get(y) \in Point /\ Get(y) = value[y]
      /\ Has(locals[z]) /\ Get(z) \in Point /\ Get(z) = value[z]
      /\ j \in Point /\ ValidScalar(j) /\ Scalar(j) = j
      /\ k \in Point /\ ValidScalar(k) /\ Scalar(k) = k
  BY NativeReads
<1> DEFINE sum == j * Get(y) + k * Get(z)
<1>3. sum % N \in Point
  <2>1. sum \in Int
    BY <1>2, ProductInt DEF Point
  <2> HIDE DEF sum
  <2> QED  BY <2>1, Remainder
<1>4. Stops("OUT_OF_GAS") \/ (state = "running" /\ AddPoint(x, sum % N, sum % N))
  BY <1>1, <1>2 DEF Native
<1> HIDE DEF sum
<1> QED
  BY <1>3, <1>4, StopsStep, AddPointStep

LEMMA MultiMulStep ==
  ASSUME RistrettoIInv, safe_native_multi_scalar_mul_no_floating_point
  PROVE  RistrettoIInv'
<1>1. PICK x \in Local, ys \in SUBSET Held \ {{}} : \E k \in [ys -> scalars] :
        Native(ys, {k[y] : y \in ys},
           AddPoint(x, Total([y \in ys |-> Scalar(k[y]) * Get(y)]) % N,
                    Total([y \in ys |-> k[y] * value[y]]) % N))
  BY DEF safe_native_multi_scalar_mul_no_floating_point
<1>2. PICK k \in [ys -> scalars] :
        Native(ys, {k[y] : y \in ys},
           AddPoint(x, Total([y \in ys |-> Scalar(k[y]) * Get(y)]) % N,
                    Total([y \in ys |-> k[y] * value[y]]) % N))
  BY <1>1
<1>3. /\ \A y \in ys : /\ Has(locals[y]) /\ Get(y) \in Point /\ Get(y) = value[y]
                      /\ k[y] \in Point /\ Scalar(k[y]) = k[y]
      /\ \A j \in {k[y] : y \in ys} : ValidScalar(j)
  BY NativeReads
<1> DEFINE f == [y \in ys |-> k[y] * value[y]]
<1>4. [y \in ys |-> Scalar(k[y]) * Get(y)] = f
  BY <1>3
<1>5. Total(f) % N \in Point
  <2>1. \A y \in ys : k[y] * value[y] \in Nat
    BY <1>3 DEF Point
  <2>2. f \in [ys -> Int]
    BY <2>1
  <2>3. IsFiniteSet(ys)
    BY FS_Subset DEF Held
  <2>4. Total(f) \in Int
    BY <2>2, <2>3, TotalInt
  <2> QED
    BY <2>4, Remainder
<1>6. Stops("OUT_OF_GAS") \/ (state = "running" /\ AddPoint(x, Total(f) % N, Total(f) % N))
  BY <1>2, <1>3, <1>4 DEF Native
<1> HIDE DEF f
<1> QED
  BY <1>5, <1>6, StopsStep, AddPointStep

\* The natives that make a scalar.
LEMMA ScalarSteps ==
  ASSUME RistrettoIInv,
         \/ native_scalar_is_canonical \/ native_scalar_from_integer
         \/ native_scalar_reduced \/ native_scalar_arithmetic
         \/ native_scalar_invert
  PROVE  RistrettoIInv'
<1>1. CASE native_scalar_is_canonical
  <2>1. PICK b \in Bytes32 :
          Native({}, {}, IF IsCanonicalScalar(b) THEN NewScalar(b)
                         ELSE Replies(FALSE, b \in Point))
    BY <1>1 DEF native_scalar_is_canonical
  <2>2. IsCanonicalScalar(b) = (b \in Point)
    BY DEF IsCanonicalScalar, Point, Bytes32, WrongLength
  <2>3. CASE b \in Point
    <3>1. Stops("OUT_OF_GAS") \/ NewScalar(b)
      BY <2>1, <2>2, <2>3 DEF Native
    <3> QED
      BY <2>3, <3>1, StopsStep, NewScalarStep
  <2>4. CASE b \notin Point
    <3>1. (b \in Point) = FALSE
      BY <2>4
    <3>2. Stops("OUT_OF_GAS") \/ Replies(FALSE, FALSE)
      BY <2>1, <2>2, <3>1 DEF Native
    <3> QED
      BY <3>2, StopsStep, RepliesStep
  <2> QED
    BY <2>3, <2>4
<1>2. CASE native_scalar_from_integer
  <2>1. PICK k \in Point : Native({}, {}, NewScalar(k))
    BY <1>2 DEF native_scalar_from_integer
  <2>2. Stops("OUT_OF_GAS") \/ NewScalar(k)
    BY <2>1 DEF Native
  <2> QED
    BY <2>2, StopsStep, NewScalarStep
<1>3. CASE native_scalar_reduced
  <2>1. PICK b \in 0 .. 2 * N : Native({}, {}, NewScalar(b % N))
    BY <1>3 DEF native_scalar_reduced
  <2>2. Stops("OUT_OF_GAS") \/ NewScalar(b % N)
    BY <2>1 DEF Native
  <2>3. b % N \in Point
    BY Remainder
  <2> QED
    BY <2>2, <2>3, StopsStep, NewScalarStep
<1>4. CASE native_scalar_arithmetic
  <2>1. PICK j \in scalars, k \in scalars :
          Native({}, {j, k}, \E r \in {Scalar(j) + Scalar(k), Scalar(j) * Scalar(k),
                                       Scalar(j) - Scalar(k) + N, N - Scalar(j)} :
                               NewScalar(r % N))
    BY <1>4 DEF native_scalar_arithmetic
  <2>2. /\ j \in Point /\ ValidScalar(j) /\ Scalar(j) = j
        /\ k \in Point /\ ValidScalar(k) /\ Scalar(k) = k
    BY NativeReads
  <2>3. \/ Stops("OUT_OF_GAS")
        \/ \E r \in {j + k, j * k, j - k + N, N - j} : NewScalar(r % N)
    BY <2>1, <2>2 DEF Native
  <2>4. {j + k, j * k, j - k + N, N - j} \subseteq Int
    BY <2>2 DEF Point
  <2>5. Stops("OUT_OF_GAS") \/ \E r \in Int : NewScalar(r % N)
    BY <2>3, <2>4
  <2> QED
    BY <2>5, Remainder, StopsStep, NewScalarStep
<1>5. CASE native_scalar_invert
  <2>1. PICK k \in scalars \ {0} :
          Native({}, {k}, IF Scalar(k) = 0 THEN NewScalar(0)
                          ELSE \E j \in Point : (j * Scalar(k)) % N = 1 /\ NewScalar(j))
    BY <1>5 DEF native_scalar_invert
  <2>2. 0 \in Point
    BY DEF Point
  <2>3. ValidScalar(k)
    BY NativeReads
  <2>4. Stops("OUT_OF_GAS") \/ \E j \in Point : NewScalar(j)
    BY <2>1, <2>2, <2>3 DEF Native
  <2> QED
    BY <2>4, StopsStep, NewScalarStep
<1> QED
  BY <1>1, <1>2, <1>3, <1>4, <1>5

LEMMA DropStep ==
  ASSUME RistrettoIInv, Drop
  PROVE  RistrettoIInv'
<1>1. PICK x \in Held : /\ locals' = [locals EXCEPT ![x] = NoPoint]
                       /\ value' = [value EXCEPT ![x] = NoPoint]
  BY DEF Drop
<1>2. /\ points' = points /\ scalars' = scalars /\ compressed' = compressed
      /\ reply' = reply /\ state' = state
  BY DEF Drop
<1>3. Held' = Held \ {x}
  BY <1>1 DEF Held, RistrettoIInv, StoreTypeOK
<1>4. \A y \in Held \ {x} : locals'[y] = locals[y] /\ value'[y] = value[y]
  BY <1>1 DEF Held, RistrettoIInv, StoreTypeOK
<1>5. StoreTypeOK'
  BY <1>1, <1>2 DEF RistrettoIInv, StoreTypeOK
<1>6. HandlesAreUnique'
  BY <1>2, <1>3, <1>4 DEF RistrettoIInv, HandlesAreUnique, Has
<1>7. PointsAreValues'
  BY <1>2, <1>3, <1>4 DEF RistrettoIInv, PointsAreValues, Get
<1> QED
  BY <1>2, <1>5, <1>6, <1>7 DEF RistrettoIInv, KeptIsValid

-----------------------------------------------------------------------------
(* The theorems *)

LEMMA RistrettoInitially == RistrettoInit => RistrettoIInv
<1> SUFFICES ASSUME RistrettoInit PROVE RistrettoIInv
  OBVIOUS
<1>1. Held = {} /\ points \in Seq(Point) /\ Len(points) = 0
  BY DEF Held, RistrettoInit
<1> QED
  BY <1>1 DEF RistrettoInit, NoReply, RistrettoIInv, StoreTypeOK, KeptIsValid,
              HandlesAreUnique, PointsAreValues

LEMMA RistrettoStep ==
  RistrettoIInv /\ [RistrettoNext]_ristrettoVars => RistrettoIInv'
<1> SUFFICES ASSUME RistrettoIInv, [RistrettoNext]_ristrettoVars PROVE RistrettoIInv'
  OBVIOUS
<1>1. CASE NewStore
  BY <1>1, EmptyStore DEF NewStore, NoReply, RistrettoIInv, KeptIsValid
<1>2. CASE UNCHANGED ristrettoVars
  BY <1>2 DEF ristrettoVars, RistrettoIInv, StoreTypeOK, KeptIsValid,
              HandlesAreUnique, PointsAreValues, Held, Has, Get
<1> QED
  BY <1>1, <1>2, NewPointSteps, ReadingSteps, MulNegSteps, AddSubSteps,
     BasepointMulSteps, DoubleMulStep, MultiMulStep, ScalarSteps, DropStep
  DEF RistrettoNext

\* The inductive invariant, which also says that the scalars and compressed
\* points which outlive a transaction are valid.
THEOREM RistrettoInvariant == RistrettoSpec => []RistrettoIInv
BY RistrettoInitially, RistrettoStep, PTL DEF RistrettoSpec

\* The points that a Move program holds have different handles, each of a stored
\* point: what the in-place natives rely on (get_two_muts, ristretto255_point.rs).
THEOREM HandlesStayUnique == RistrettoSpec => []HandlesAreUnique
<1>1. RistrettoIInv => HandlesAreUnique
  BY DEF RistrettoIInv
<1> QED
  BY <1>1, RistrettoInvariant, PTL

\* Points behave as values, and no native panics or finds an invalid scalar,
\* whatever the order of the group and however many points are held.
THEOREM PointsStayValues == RistrettoSpec => []PointsAreValues
<1>1. RistrettoIInv => PointsAreValues
  BY DEF RistrettoIInv
<1> QED
  BY <1>1, RistrettoInvariant, PTL

-----------------------------------------------------------------------------
(* The algebra, for any three prime fields, sizes of elements and limit.   *)

(* Sums and powers, which are defined by recursion.                        *)

SumFn(h, n, f) == h = [i \in 0 .. n |-> IF i = 0 THEN 0 ELSE h[i - 1] + f[i]]

LEMMA SumFnExists ==
  ASSUME NEW f
  PROVE  \A n \in Nat : \E h : SumFn(h, n, f)
<1> DEFINE T == {n \in Nat : \E h : SumFn(h, n, f)}
<1>1. 0 \in T
  <2> DEFINE h == [i \in 0 .. 0 |-> 0]
  <2>1. SumFn(h, 0, f)
    BY DEF SumFn
  <2> QED  BY <2>1
<1>2. ASSUME NEW n \in T PROVE n + 1 \in T
  <2>1. n \in Nat /\ \E h : SumFn(h, n, f)
    OBVIOUS
  <2>2. PICK h : SumFn(h, n, f)
    BY <2>1
  <2> DEFINE g == [i \in 0 .. n + 1 |-> IF i = n + 1 THEN h[n] + f[n + 1] ELSE h[i]]
  <2>3. \A i \in 0 .. n : h[i] = IF i = 0 THEN 0 ELSE h[i - 1] + f[i]
    BY <2>2, Zenon DEF SumFn
  <2>4. \A i \in 0 .. n + 1 : g[i] = IF i = 0 THEN 0 ELSE g[i - 1] + f[i]
    BY <2>1, <2>3
  <2>5. g = [i \in 0 .. n + 1 |-> g[i]]
    OBVIOUS
  <2> HIDE DEF g
  <2>6. SumFn(g, n + 1, f)
    BY <2>4, <2>5 DEF SumFn
  <2> QED  BY <2>1, <2>6
<1>3. T \in SUBSET Nat
  OBVIOUS
<1>4. \A n \in Nat : n \in T
  <2> HIDE DEF T
  <2> QED  BY <1>1, <1>2, <1>3, NatSetInduction
<1> QED  BY <1>4

LEMMA SumUpToIs ==
  ASSUME NEW n \in Nat, NEW f
  PROVE  \E h : SumFn(h, n, f) /\ SumUpTo(n, f) = h[n]
<1> DEFINE h == CHOOSE g : SumFn(g, n, f)
<1>1. SumFn(h, n, f)
  BY SumFnExists
<1>2. SumUpTo(n, f) = h[n]
  BY DEF SumUpTo, SumFn
<1> QED  BY <1>1, <1>2

\* A sum of naturals is one.
LEMMA SumUpToNat ==
  ASSUME NEW n \in Nat, NEW f, \A i \in 1 .. n : f[i] \in Nat
  PROVE  SumUpTo(n, f) \in Nat
<1>1. PICK h : SumFn(h, n, f) /\ SumUpTo(n, f) = h[n]
  BY SumUpToIs
<1>2. \A i \in 0 .. n : h[i] = IF i = 0 THEN 0 ELSE h[i - 1] + f[i]
  BY <1>1, Zenon DEF SumFn
<1> DEFINE T == {i \in Nat : i <= n => h[i] \in Nat}
<1>3. 0 \in T
  BY <1>2
<1>4. ASSUME NEW i \in T PROVE i + 1 \in T
  <2>1. CASE i + 1 <= n
    <3>1. h[i + 1] = h[i] + f[i + 1] /\ f[i + 1] \in Nat /\ h[i] \in Nat
      BY <1>2, <2>1
    <3> QED  BY <3>1
  <2> QED  BY <2>1
<1>5. n \in T
  <2> HIDE DEF T
  <2>1. T \in SUBSET Nat
    BY DEF T
  <2> QED  BY <1>3, <1>4, <2>1, NatSetInduction
<1> QED  BY <1>1, <1>5

\* A sum of one more.
LEMMA SumUpToNext ==
  ASSUME NEW n \in Nat, NEW f, NEW g, \A i \in 1 .. n : g[i] = f[i]
  PROVE  SumUpTo(n + 1, g) = SumUpTo(n, f) + g[n + 1]
<1>1. PICK h : SumFn(h, n, f) /\ SumUpTo(n, f) = h[n]
  BY SumUpToIs
<1>2. PICK k : SumFn(k, n + 1, g) /\ SumUpTo(n + 1, g) = k[n + 1]
  <2>1. n + 1 \in Nat
    OBVIOUS
  <2> QED  BY <2>1, SumUpToIs
<1>3. \A i \in 0 .. n : h[i] = IF i = 0 THEN 0 ELSE h[i - 1] + f[i]
  BY <1>1, Zenon DEF SumFn
<1>4. \A i \in 0 .. n + 1 : k[i] = IF i = 0 THEN 0 ELSE k[i - 1] + g[i]
  BY <1>2, Zenon DEF SumFn
<1> DEFINE T == {i \in Nat : i <= n => k[i] = h[i]}
<1>5. 0 \in T
  BY <1>3, <1>4
<1>6. ASSUME NEW i \in T PROVE i + 1 \in T
  <2>1. CASE i + 1 <= n
    <3>1. h[i + 1] = h[i] + f[i + 1] /\ k[i + 1] = k[i] + g[i + 1] /\ g[i + 1] = f[i + 1]
      BY <1>3, <1>4, <2>1
    <3> QED  BY <2>1, <3>1
  <2> QED  BY <2>1
<1>7. n \in T
  <2> HIDE DEF T
  <2>1. T \in SUBSET Nat
    BY DEF T
  <2> QED  BY <1>5, <1>6, <2>1, NatSetInduction
<1>8. k[n + 1] = k[n] + g[n + 1]
  BY <1>4
<1> QED  BY <1>1, <1>2, <1>7, <1>8

PowFn(h, n, x) == h = [i \in 0 .. n |-> IF i = 0 THEN 1 ELSE (x * h[i - 1]) % Q]

LEMMA PowFnExists ==
  ASSUME NEW x
  PROVE  \A n \in Nat : \E h : PowFn(h, n, x)
<1> DEFINE T == {n \in Nat : \E h : PowFn(h, n, x)}
<1>1. 0 \in T
  <2> DEFINE h == [i \in 0 .. 0 |-> 1]
  <2>1. PowFn(h, 0, x)
    BY DEF PowFn
  <2> QED  BY <2>1
<1>2. ASSUME NEW n \in T PROVE n + 1 \in T
  <2>1. n \in Nat /\ \E h : PowFn(h, n, x)
    OBVIOUS
  <2>2. PICK h : PowFn(h, n, x)
    BY <2>1
  <2> DEFINE g == [i \in 0 .. n + 1 |-> IF i = n + 1 THEN (x * h[n]) % Q ELSE h[i]]
  <2>3. \A i \in 0 .. n : h[i] = IF i = 0 THEN 1 ELSE (x * h[i - 1]) % Q
    BY <2>2, Zenon DEF PowFn
  <2>4. \A i \in 0 .. n + 1 : g[i] = IF i = 0 THEN 1 ELSE (x * g[i - 1]) % Q
    BY <2>1, <2>3
  <2>5. g = [i \in 0 .. n + 1 |-> g[i]]
    OBVIOUS
  <2> HIDE DEF g
  <2>6. PowFn(g, n + 1, x)
    BY <2>4, <2>5 DEF PowFn
  <2> QED  BY <2>1, <2>6
<1>3. T \in SUBSET Nat
  OBVIOUS
<1>4. \A n \in Nat : n \in T
  <2> HIDE DEF T
  <2> QED  BY <1>1, <1>2, <1>3, NatSetInduction
<1> QED  BY <1>4

LEMMA PowValue ==
  ASSUME NEW n \in Nat, NEW x
  PROVE  \E h : Pow(x, n) = h[n] /\ PowFn(h, n, x)
<1> DEFINE h == CHOOSE g : PowFn(g, n, x)
<1>1. PowFn(h, n, x)
  BY PowFnExists
<1>2. Pow(x, n) = h[n]
  BY DEF Pow, PowFn
<1> HIDE DEF h
<1> QED  BY <1>1, <1>2

LEMMA PowIs ==
  ASSUME NEW n \in Nat, NEW x
  PROVE  \E h : Pow(x, n) = h[n]
                /\ \A i \in 0 .. n : h[i] = IF i = 0 THEN 1 ELSE (x * h[i - 1]) % Q
<1> DEFINE h == CHOOSE g : PowFn(g, n, x)
<1>1. PowFn(h, n, x)
  BY PowFnExists
<1>2. Pow(x, n) = h[n]
  BY DEF Pow, PowFn
<1>3. \A i \in 0 .. n : h[i] = IF i = 0 THEN 1 ELSE (x * h[i - 1]) % Q
  <2> HIDE DEF h
  <2> QED  BY <1>1, Zenon DEF PowFn
<1> QED  BY <1>2, <1>3

-----------------------------------------------------------------------------
(* The field that Gt is part of.                                           *)

LEMMA Moduli ==
  /\ R \in Nat /\ P \in Nat /\ Q \in Nat /\ R > 1 /\ P > 1 /\ Q > 1
  /\ Gen \in 1 .. Q - 1
  /\ \A m \in {R, P, Q} : m \in Nat /\ m > 1
BY AlgebraAssumption, FieldAssumption

LEMMA ModRange ==
  ASSUME NEW a \in Int, NEW m \in Nat, m > 1
  PROVE  a % m \in 0 .. m - 1
OBVIOUS

LEMMA ProductNat ==
  ASSUME NEW a \in Nat, NEW b \in Nat
  PROVE  a * b \in Nat
OBVIOUS

\* Units are closed under multiplication.
LEMMA UnitTimesUnit ==
  ASSUME NEW x \in 1 .. Q - 1, NEW y \in 1 .. Q - 1
  PROVE  (x * y) % Q \in 1 .. Q - 1
<1>1. x \in Int /\ y \in Int /\ Q \in Nat /\ Q > 1 /\ x * y \in Int
  BY Moduli
<1>2. (x * y) % Q \in 0 .. Q - 1
  BY <1>1, ModRange
<1>3. ASSUME (x * y) % Q = 0 PROVE FALSE
  <2>1. PICK z \in 1 .. Q - 1 : (z * x) % Q = 1
    <3>1. PICK z \in 1 .. Q - 1 : (x * z) % Q = 1
      BY FieldAssumption
    <3>2. x * z = z * x
      BY <1>1
    <3> QED  BY <3>1, <3>2
  <2> DEFINE j == (z * x) \div Q
             k == (x * y) \div Q
             t == z * k - j * y
  <2>2. z \in Int /\ z * x \in Int
    BY <1>1
  <2>3. j \in Int /\ k \in Int /\ z * x = Q * j + 1 /\ x * y = Q * k
    BY <1>1, <1>3, <2>1, <2>2
  <2> HIDE DEF j, k
  <2>4. t \in Int
    BY <1>1, <2>2, <2>3
  <2>5. y = Q * t
    <3>1. (z * x) * y = z * (x * y)
      BY <1>1, <2>2
    <3>2. (z * x) * y = Q * (j * y) + y
      BY <1>1, <2>2, <2>3
    <3>3. z * (x * y) = Q * (z * k)
      BY <1>1, <2>2, <2>3
    <3>4. Q * t = Q * (z * k) - Q * (j * y)
      BY <1>1, <2>2, <2>3
    <3> QED  BY <1>1, <2>2, <2>3, <3>1, <3>2, <3>3, <3>4
  <2> HIDE DEF t
  <2>6. CASE t <= 0
    <3>1. Q * t <= 0
      BY <1>1, <2>4, <2>6
    <3> QED  BY <2>5, <3>1
  <2>7. CASE t >= 1
    <3>1. Q * t >= Q
      BY <1>1, <2>4, <2>7
    <3> QED  BY <1>1, <2>5, <3>1
  <2> QED  BY <2>4, <2>6, <2>7
<1> QED  BY <1>2, <1>3

LEMMA PowOfUnit ==
  ASSUME NEW x \in 1 .. Q - 1, NEW n \in Nat
  PROVE  Pow(x, n) \in 1 .. Q - 1
<1>1. PICK h : /\ Pow(x, n) = h[n]
               /\ \A i \in 0 .. n : h[i] = IF i = 0 THEN 1 ELSE (x * h[i - 1]) % Q
  BY PowIs
<1> DEFINE T == {i \in Nat : i <= n => h[i] \in 1 .. Q - 1}
<1>2. 0 \in T
  BY <1>1, Moduli
<1>3. ASSUME NEW i \in T PROVE i + 1 \in T
  <2>1. CASE i + 1 <= n
    <3>1. h[i + 1] = (x * h[i]) % Q /\ h[i] \in 1 .. Q - 1
      BY <1>1, <2>1
    <3>2. ASSUME NEW y, y = h[i] PROVE (x * y) % Q \in 1 .. Q - 1
      BY <3>1, <3>2, UnitTimesUnit
    <3> QED  BY <3>1, <3>2
  <2> QED  BY <2>1
<1>4. n \in T
  <2> HIDE DEF T
  <2>1. T \in SUBSET Nat
    BY DEF T
  <2> QED  BY <1>2, <1>3, <2>1, NatSetInduction
<1> QED  BY <1>1, <1>4

LEMMA PowOfZero ==
  ASSUME NEW n \in Nat, n > 0
  PROVE  Pow(0, n) = 0
<1>1. PICK h : /\ Pow(0, n) = h[n]
               /\ \A i \in 0 .. n : h[i] = IF i = 0 THEN 1 ELSE (0 * h[i - 1]) % Q
  BY PowIs
<1> DEFINE T == {i \in Nat : i <= n => h[i] = IF i = 0 THEN 1 ELSE 0}
<1>2. 0 \in T
  BY <1>1
<1>3. ASSUME NEW i \in T PROVE i + 1 \in T
  <2>1. CASE i + 1 <= n
    <3>1. h[i + 1] = (0 * h[i]) % Q /\ h[i] \in {0, 1}
      BY <1>1, <2>1
    <3>2. 0 % Q = 0
      BY Moduli
    <3>3. 0 * h[i] = 0
      BY <3>1
    <3> QED  BY <3>1, <3>2, <3>3
  <2> QED  BY <2>1
<1>4. n \in T
  <2> HIDE DEF T
  <2>1. T \in SUBSET Nat
    BY DEF T
  <2> QED  BY <1>2, <1>3, <2>1, NatSetInduction
<1> QED  BY <1>1, <1>4

LEMMA InverseIs ==
  ASSUME NEW m \in {R, P, Q}, NEW x \in 1 .. m - 1
  PROVE  ModInverse(m, x) \in 0 .. m - 1 /\ (x * ModInverse(m, x)) % m = 1
<1>1. \E y \in 0 .. m - 1 : (x * y) % m = 1
  <2>1. PICK y \in 1 .. m - 1 : (x * y) % m = 1
    BY FieldAssumption
  <2>2. y \in 0 .. m - 1
    BY Moduli
  <2> QED  BY <2>1, <2>2
<1> QED  BY <1>1 DEF ModInverse

-----------------------------------------------------------------------------
(* Values.                                                                 *)

\* A value of a structure: in Gt a unit.
ValueOK(s, v) == v \in 0 .. Modulus(s) - 1 /\ (IsGt(s) => v # 0)

LEMMA StructureIs ==
  ASSUME NEW s \in Structure
  PROVE  /\ s \in Curve \X Kind /\ s[2] \in Kind
         /\ RustType(s) \in Curve \X Kind /\ RustType(s)[2] = RustKind(s[2])
         /\ RustKind(s[2]) \in Kind /\ Modulus(RustType(s)) = Modulus(s)
         /\ Modulus(s) \in {R, P, Q} /\ Modulus(s) \in Nat /\ Modulus(s) > 1
         /\ IsGt(s) => Modulus(s) = Q
<1>1. s \in Curve \X Kind
  BY AlgebraAssumption DEF AllStructures
<1>2. PICK c \in Curve, k \in Kind : s = <<c, k>>
  BY <1>1
<1>3. s[2] = k /\ s[1] = c /\ RustKind(k) \in Kind /\ RustType(s) = <<c, RustKind(k)>>
  BY <1>2 DEF RustKind, RustType, Kind
<1>4. /\ Modulus(RustType(s)) = Modulus(s) /\ Modulus(s) \in {R, P, Q}
      /\ IsGt(s) => Modulus(s) = Q
  BY <1>3 DEF Modulus, RustKind, Kind, IsGt
<1> QED  BY <1>1, <1>2, <1>3, <1>4, Moduli

LEMMA NotGt ==
  ASSUME NEW s \in Structure
  PROVE  /\ s \in Field => ~IsGt(s)
         /\ s \in Group /\ ~IsGt(s) => Modulus(s) = R /\ s[2] \in {"G1", "G2"}
         /\ Order(s) = IF IsGt(s) THEN R ELSE Modulus(s)
<1>1. s[2] \in Kind
  BY StructureIs
<1> QED  BY <1>1 DEF Field, Group, IsGt, Modulus, Kind, Order

\* What is read of bytes is a value.
LEMMA ParseOK ==
  ASSUME NEW s \in Structure, NEW f \in Format, f[1] = s, NEW b \in Bytes, Parse(f, b).ok
  PROVE  ValueOK(s, Parse(f, b).val)
<1>1. s[2] \in Kind /\ Modulus(s) \in Nat /\ Modulus(s) > 1 /\ (IsGt(s) => Modulus(s) = Q)
  BY StructureIs
<1>2. f[2] \in Forms(s)
  BY DEF Format
<1>3. /\ Len(b) = FormatLength(f) /\ Read(f, b)
      /\ IsGt(s) => Pow(ValueOf(f, b), R) = 1
      /\ Parse(f, b).val = ValueOf(f, b)
  BY DEF Parse
<1>4. PICK n \in 1 .. 2 : b \in [1 .. n -> 0 .. Radix - 1]
  BY DEF Bytes
<1>5. n = Len(b) /\ \A i \in 1 .. n : b[i] \in Nat
  BY <1>4, AlgebraAssumption
<1>6. CASE f[2] \in {"Compr", "Uncompr"}
  <2>1. Modulus(s) = R /\ ~IsGt(s)
    BY <1>1, <1>2, <1>6 DEF Forms, Modulus, IsGt, Kind
  <2>2. b[1] < R /\ ValueOf(f, b) = b[1] /\ b[1] \in Nat
    BY <1>3, <1>4, <1>5, <1>6 DEF Read, ValueOf
  <2> QED  BY <1>1, <1>3, <2>1, <2>2, Moduli DEF ValueOK
<1>7. CASE f[2] \notin {"Compr", "Uncompr"}
  <2>1. n = 2 /\ ValueOf(f, b) < Modulus(s)
    BY <1>3, <1>5, <1>7 DEF FormatLength, Read, ValueOf
  <2>2. ValueOf(f, b) \in Nat
    <3>1. b[1] \in Nat /\ b[2] \in Nat /\ Radix \in Nat
      BY <1>5, <2>1, AlgebraAssumption
    <3>2. Number(b) \in Nat
      <4>1. Radix * b[2] \in Nat
        BY <3>1, ProductNat
      <4> QED  BY <3>1, <4>1 DEF Number
    <3>3. Number(Reverse(b)) \in Nat
      <4>1. Reverse(b)[1] = b[2] /\ Reverse(b)[2] = b[1]
        BY <1>5, <2>1 DEF Reverse
      <4>2. Radix * b[1] \in Nat
        BY <3>1, ProductNat
      <4> QED  BY <3>1, <4>1, <4>2 DEF Number
    <3> QED  BY <1>7, <3>2, <3>3 DEF ValueOf
  <2>3. IsGt(s) => ValueOf(f, b) # 0
    <3>1. Pow(0, R) = 0
      BY PowOfZero, Moduli
    <3> QED  BY <1>3, <3>1
  <2> QED  BY <1>1, <1>3, <2>1, <2>2, <2>3 DEF ValueOK
<1> QED  BY <1>6, <1>7

-----------------------------------------------------------------------------
(* Remainders.                                                             *)

LEMMA RemainderIs ==
  ASSUME NEW m \in Nat, m > 0, NEW a \in Int, NEW k \in Int, NEW r \in 0 .. m - 1,
         a = m * k + r
  PROVE  a % m = r
<1> DEFINE j == a \div m
           t == a % m
<1>1. j \in Int /\ t \in 0 .. m - 1 /\ a = m * j + t
  OBVIOUS
<1> HIDE DEF j
<1>2. ASSUME NEW d \in Int, d = k - j PROVE t = r
  <2>1. t - r = m * d
    <3>1. m * d = m * k - m * j
      BY <1>1, <1>2
    <3> QED  BY <1>1, <3>1
  <2>2. CASE d >= 1
    <3>1. m * d >= m
      BY <1>2, <2>2
    <3> QED  BY <1>1, <2>1, <3>1
  <2>3. CASE d <= -1
    <3>1. m * d <= -m
      BY <1>2, <2>3
    <3> QED  BY <1>1, <2>1, <3>1
  <2>4. CASE d = 0
    BY <1>1, <2>1, <2>4
  <2> QED  BY <1>2, <2>2, <2>3, <2>4
<1> QED  BY <1>1, <1>2

LEMMA TimesRemainder ==
  ASSUME NEW m \in Nat, m > 0, NEW a \in Int, NEW b \in Int
  PROVE  ((a % m) * b) % m = (a * b) % m /\ (b * (a % m)) % m = (a * b) % m
<1> DEFINE j == a \div m
           r == a % m
           c == r * b
           k == c \div m
           t == c % m
<1>1. j \in Int /\ r \in 0 .. m - 1 /\ a = m * j + r
  OBVIOUS
<1> HIDE DEF j, r
<1>2. c \in Int
  BY <1>1
<1> HIDE DEF c
<1>3. k \in Int /\ t \in 0 .. m - 1 /\ c = m * k + t
  BY <1>2
<1> HIDE DEF k
<1>4. a * b = m * (j * b + k) + t
  <2>1. a * b = (m * j) * b + r * b
    BY <1>1
  <2>2. (m * j) * b = m * (j * b)
    BY <1>1
  <2>3. m * (j * b + k) = m * (j * b) + m * k
    BY <1>1, <1>3
  <2>4. (m * j) * b \in Int /\ m * k \in Int
    BY <1>1, <1>3
  <2> QED  BY <1>2, <1>3, <2>1, <2>2, <2>3, <2>4 DEF c
<1>5. (a * b) % m = t
  <2>1. j * b + k \in Int /\ a * b \in Int
    BY <1>1, <1>3
  <2> QED  BY <1>3, <1>4, <2>1, RemainderIs
<1>6. r * b = b * r
  BY <1>1
<1> QED  BY <1>5, <1>6 DEF r, c

LEMMA PlusRemainder ==
  ASSUME NEW m \in Nat, m > 0, NEW a \in Int, NEW b \in Int
  PROVE  ((a % m) + b) % m = (a + b) % m /\ (b + (a % m)) % m = (a + b) % m
<1> DEFINE j == a \div m
           r == a % m
           c == r + b
           k == c \div m
           t == c % m
<1>1. j \in Int /\ r \in 0 .. m - 1 /\ a = m * j + r
  OBVIOUS
<1> HIDE DEF j, r
<1>2. c \in Int
  BY <1>1
<1> HIDE DEF c
<1>3. k \in Int /\ t \in 0 .. m - 1 /\ c = m * k + t
  BY <1>2
<1> HIDE DEF k
<1>4. a + b = m * (j + k) + t
  <2>1. m * (j + k) = m * j + m * k
    BY <1>1, <1>3
  <2>2. m * j \in Int /\ m * k \in Int
    BY <1>1, <1>3
  <2> QED  BY <1>1, <1>2, <1>3, <2>1, <2>2 DEF c
<1>5. (a + b) % m = t
  <2>1. j + k \in Int /\ a + b \in Int
    BY <1>1, <1>3
  <2> QED  BY <1>3, <1>4, <2>1, RemainderIs
<1> QED  BY <1>1, <1>5 DEF r, c

-----------------------------------------------------------------------------
(* Powers.                                                                 *)

LEMMA PowSteps ==
  ASSUME NEW x, NEW n \in Nat
  PROVE  Pow(x, 0) = 1 /\ Pow(x, n + 1) = (x * Pow(x, n)) % Q
<1>1. PICK h : Pow(x, n) = h[n] /\ PowFn(h, n, x)
  BY PowValue
<1>2. PICK k : Pow(x, n + 1) = k[n + 1] /\ PowFn(k, n + 1, x)
  <2>1. n + 1 \in Nat
    OBVIOUS
  <2> QED  BY <2>1, PowValue
<1>3. \A i \in 0 .. n : h[i] = IF i = 0 THEN 1 ELSE (x * h[i - 1]) % Q
  BY <1>1 DEF PowFn
<1>4. \A i \in 0 .. n + 1 : k[i] = IF i = 0 THEN 1 ELSE (x * k[i - 1]) % Q
  BY <1>2 DEF PowFn
<1> DEFINE T == {i \in Nat : i <= n => k[i] = h[i]}
<1>5. 0 \in T
  BY <1>3, <1>4
<1>6. ASSUME NEW i \in T PROVE i + 1 \in T
  <2>1. CASE i + 1 <= n
    <3>1. h[i + 1] = (x * h[i]) % Q /\ k[i + 1] = (x * k[i]) % Q
      BY <1>3, <1>4, <2>1
    <3>2. h[i] = k[i]
      BY <2>1
    <3> QED  BY <3>1, <3>2
  <2> QED  BY <2>1
<1>7. n \in T
  <2> HIDE DEF T
  <2>1. T \in SUBSET Nat
    BY DEF T
  <2> QED  BY <1>5, <1>6, <2>1, NatSetInduction
<1>8. k[n + 1] = (x * k[n]) % Q /\ k[n] = h[n]
  BY <1>4, <1>7
<1>9. Pow(x, 0) = 1
  <2>1. PICK g : Pow(x, 0) = g[0] /\ PowFn(g, 0, x)
    BY PowValue
  <2> QED  BY <2>1 DEF PowFn
<1> QED  BY <1>1, <1>2, <1>8, <1>9

\* A power of a sum.
LEMMA PowPlus ==
  ASSUME NEW x \in 1 .. Q - 1, NEW a \in Nat, NEW b \in Nat
  PROVE  Pow(x, a + b) = (Pow(x, a) * Pow(x, b)) % Q
<1> DEFINE T == {i \in Nat : Pow(x, i + b) = (Pow(x, i) * Pow(x, b)) % Q}
<1>1. Q \in Nat /\ Q > 0 /\ x \in Int
  BY Moduli
<1>2. 0 \in T
  <2>1. Pow(x, b) \in 1 .. Q - 1
    BY PowOfUnit
  <2>2. ASSUME NEW p \in 1 .. Q - 1 PROVE (1 * p) % Q = p
    BY <1>1
  <2>3. Pow(x, 0) = 1
    BY PowSteps
  <2>4. 0 + b = b
    OBVIOUS
  <2> QED  BY <2>1, <2>2, <2>3, <2>4
<1>3. ASSUME NEW i \in T PROVE i + 1 \in T
  <2>1. i \in Nat /\ i + b \in Nat /\ (i + 1) + b = (i + b) + 1
    OBVIOUS
  <2>2. PICK u, v, w : u = Pow(x, i) /\ v = Pow(x, b) /\ w = Pow(x, i + b)
    OBVIOUS
  <2>3. u \in Int /\ v \in Int
    BY <2>1, <2>2, PowOfUnit
  <2>4. w = (u * v) % Q
    BY <2>2
  <2>5. Pow(x, (i + 1) + b) = (x * w) % Q /\ Pow(x, i + 1) = (x * u) % Q
    BY <2>1, <2>2, PowSteps
  <2>6. u * v \in Int /\ x * u \in Int /\ x * (u * v) = (x * u) * v
    BY <1>1, <2>3
  <2>7. (x * w) % Q = ((u * v) * x) % Q
    BY <1>1, <2>4, <2>6, TimesRemainder
  <2>8. (((x * u) % Q) * v) % Q = ((x * u) * v) % Q
    BY <1>1, <2>3, <2>6, TimesRemainder
  <2>9. (u * v) * x = (x * u) * v
    BY <1>1, <2>3
  <2> QED  BY <2>1, <2>2, <2>5, <2>7, <2>8, <2>9
<1>4. a \in T
  <2> HIDE DEF T
  <2>1. T \in SUBSET Nat
    BY DEF T
  <2> QED  BY <1>2, <1>3, <2>1, NatSetInduction
<1> QED  BY <1>4

\* A power of a power.
LEMMA PowTimes ==
  ASSUME NEW x \in 1 .. Q - 1, NEW a \in Nat, NEW b \in Nat
  PROVE  Pow(Pow(x, a), b) = Pow(x, a * b)
<1> DEFINE T == {i \in Nat : Pow(Pow(x, a), i) = Pow(x, a * i)}
<1>1. Pow(x, a) \in 1 .. Q - 1
  BY PowOfUnit
<1>2. 0 \in T
  <2>1. a * 0 = 0
    OBVIOUS
  <2> QED  BY <2>1, PowSteps
<1>3. ASSUME NEW i \in T PROVE i + 1 \in T
  <2>1. i \in Nat /\ a * i \in Nat /\ a * (i + 1) = a + a * i
    <3>1. i \in Nat
      OBVIOUS
    <3>2. a * i \in Nat
      BY <3>1, ProductNat
    <3>3. a * (i + 1) = a + a * i
      BY <3>1
    <3> QED  BY <3>1, <3>2, <3>3
  <2>2. Pow(Pow(x, a), i + 1) = (Pow(x, a) * Pow(Pow(x, a), i)) % Q
    BY <2>1, PowSteps
  <2>3. Pow(x, a + a * i) = (Pow(x, a) * Pow(x, a * i)) % Q
    BY <2>1, PowPlus
  <2> QED  BY <2>1, <2>2, <2>3
<1>4. b \in T
  <2> HIDE DEF T
  <2>1. T \in SUBSET Nat
    BY DEF T
  <2> QED  BY <1>2, <1>3, <2>1, NatSetInduction
<1> QED  BY <1>4

LEMMA GenIsUnit ==
  /\ Gen \in 1 .. Q - 1
  /\ \A n \in Nat : Pow(Gen, n) \in 1 .. Q - 1
  /\ Pow(Gen, 1) = Gen
<1>1. Gen \in 1 .. Q - 1 /\ Q \in Nat
  BY Moduli
<1>2. Pow(Gen, 1) = Gen
  <2>1. Pow(Gen, 0 + 1) = (Gen * 1) % Q
    BY PowSteps
  <2>2. (Gen * 1) % Q = Gen
    BY <1>1
  <2> QED  BY <2>1, <2>2
<1> QED  BY <1>1, <1>2, PowOfUnit

\* The exponents of the generator count modulo its order.
LEMMA PowOfRemainder ==
  ASSUME NEW n \in Nat
  PROVE  n % R \in 0 .. R - 1 /\ Pow(Gen, n % R) = Pow(Gen, n)
<1> DEFINE k == n \div R
           r == n % R
<1>1. R \in Nat /\ R > 1 /\ Q \in Nat /\ Q > 1
  BY Moduli
<1>2. k \in Nat /\ r \in 0 .. R - 1 /\ n = R * k + r
  BY <1>1
<1> HIDE DEF k, r
<1>3. Pow(Gen, R) = 1
  <2>1. Gen \in {Pow(Gen, i) : i \in 0 .. R - 1}
    BY <1>1, GenIsUnit
  <2> QED  BY <2>1, GenIsUnit, SubgroupAssumption
<1>4. R * k \in Nat /\ r \in Nat
  BY <1>1, <1>2, ProductNat
<1>5. Pow(Gen, R * k) = Pow(1, k)
  BY <1>1, <1>2, <1>3, GenIsUnit, PowTimes
<1>6. Pow(1, k) = 1
  <2> DEFINE T == {i \in Nat : Pow(1, i) = 1}
  <2>1. 0 \in T
    BY PowSteps
  <2>2. ASSUME NEW i \in T PROVE i + 1 \in T
    <3>1. Pow(1, i + 1) = (1 * 1) % Q
      BY PowSteps
    <3>2. (1 * 1) % Q = 1
      BY <1>1
    <3> QED  BY <3>1, <3>2
  <2>3. T \in SUBSET Nat
    OBVIOUS
  <2>4. k \in T
    <3> HIDE DEF T
    <3> QED  BY <1>2, <2>1, <2>2, <2>3, NatSetInduction
  <2> QED  BY <2>4
<1>7. Pow(Gen, R * k + r) = (Pow(Gen, R * k) * Pow(Gen, r)) % Q
  BY <1>4, GenIsUnit, PowPlus
<1>8. Pow(Gen, r) \in 1 .. Q - 1
  BY <1>4, GenIsUnit
<1>9. ASSUME NEW p \in 1 .. Q - 1 PROVE (1 * p) % Q = p
  BY <1>1
<1>10. Pow(Gen, n) = Pow(Gen, r)
  BY <1>2, <1>5, <1>6, <1>7, <1>8, <1>9
<1> QED  BY <1>2, <1>10 DEF r

-----------------------------------------------------------------------------
(* Inverses.                                                               *)

\* What times x is 1 is the inverse of x, and division has one result.
LEMMA QuotientIs ==
  ASSUME NEW m \in {R, P, Q}, NEW x \in 1 .. m - 1, NEW z \in 0 .. m - 1,
         NEW q \in 0 .. m - 1, (q * x) % m = z
  PROVE  q = (z * ModInverse(m, x)) % m
<1> DEFINE i == ModInverse(m, x)
<1>1. m \in Nat /\ m > 1
  BY Moduli
<1>2. i \in 0 .. m - 1 /\ (x * i) % m = 1
  BY InverseIs
<1> HIDE DEF i
<1>3. x \in Int /\ i \in Int /\ q \in Int /\ z \in Int
  BY <1>1, <1>2
<1>4. q * x \in Int /\ x * i \in Int /\ (q * x) * i = q * (x * i)
  BY <1>3
<1>5. (z * i) % m = ((q * x) * i) % m
  BY <1>1, <1>3, <1>4, TimesRemainder
<1>6. (q * 1) % m = (q * (x * i)) % m
  <2>1. (q * ((x * i) % m)) % m = ((x * i) * q) % m
    BY <1>1, <1>3, <1>4, TimesRemainder
  <2>2. (x * i) * q = q * (x * i)
    BY <1>3, <1>4
  <2> QED  BY <1>2, <2>1, <2>2
<1>7. (q * 1) % m = q
  BY <1>1
<1> QED  BY <1>4, <1>5, <1>6, <1>7 DEF i

LEMMA InverseIsThat ==
  ASSUME NEW m \in {R, P, Q}, NEW x \in 1 .. m - 1, NEW q \in 0 .. m - 1, (q * x) % m = 1
  PROVE  q = ModInverse(m, x)
<1>1. m \in Nat /\ m > 1
  BY Moduli
<1>2. q = (1 * ModInverse(m, x)) % m
  BY <1>1, QuotientIs
<1>3. ModInverse(m, x) \in 0 .. m - 1
  BY InverseIs
<1>4. ASSUME NEW i \in 0 .. m - 1 PROVE (1 * i) % m = i
  BY <1>1
<1> QED  BY <1>2, <1>3, <1>4

LEMMA QuotientWorks ==
  ASSUME NEW m \in {R, P, Q}, NEW x \in 1 .. m - 1, NEW z \in 0 .. m - 1
  PROVE  /\ (z * ModInverse(m, x)) % m \in 0 .. m - 1
         /\ (((z * ModInverse(m, x)) % m) * x) % m = z
<1> DEFINE i == ModInverse(m, x)
<1>1. m \in Nat /\ m > 1
  BY Moduli
<1>2. i \in 0 .. m - 1 /\ (x * i) % m = 1
  BY InverseIs
<1> HIDE DEF i
<1>3. x \in Int /\ i \in Int /\ z \in Int
  BY <1>1, <1>2
<1>4. z * i \in Int /\ x * i \in Int /\ (z * i) * x = z * (x * i)
  BY <1>3
<1>5. (((z * i) % m) * x) % m = ((z * i) * x) % m
  BY <1>1, <1>3, <1>4, TimesRemainder
<1>6. (z * 1) % m = (z * (x * i)) % m
  <2>1. (z * ((x * i) % m)) % m = ((x * i) * z) % m
    BY <1>1, <1>3, <1>4, TimesRemainder
  <2>2. (x * i) * z = z * (x * i)
    BY <1>3, <1>4
  <2> QED  BY <1>2, <2>1, <2>2
<1>7. (z * 1) % m = z
  BY <1>1
<1>8. (z * i) % m \in 0 .. m - 1
  BY <1>1, <1>4, ModRange
<1> QED  BY <1>4, <1>5, <1>6, <1>7, <1>8 DEF i

\* The inverse in Gt is the power of the opposite.
LEMMA InverseOfPower ==
  ASSUME NEW n \in 0 .. R - 1
  PROVE  ModInverse(Q, Pow(Gen, n)) = Pow(Gen, (R - n) % R)
<1>1. R \in Nat /\ R > 1 /\ n \in Nat /\ R - n \in Nat
  BY Moduli
<1>2. Pow(Gen, (R - n) % R) = Pow(Gen, R - n)
  BY <1>1, PowOfRemainder
<1>3. Pow(Gen, (R - n) + n) = (Pow(Gen, R - n) * Pow(Gen, n)) % Q
  BY <1>1, GenIsUnit, PowPlus
<1>4. (R - n) + n = R /\ R % R = 0 /\ Pow(Gen, R % R) = Pow(Gen, R)
  BY <1>1, PowOfRemainder
<1>5. Pow(Gen, 0) = 1
  BY PowSteps
<1>6. (Pow(Gen, R - n) * Pow(Gen, n)) % Q = 1
  BY <1>3, <1>4, <1>5
<1>7. Pow(Gen, R - n) \in 1 .. Q - 1 /\ Pow(Gen, n) \in 1 .. Q - 1
  BY <1>1, GenIsUnit
<1>8. Pow(Gen, R - n) \in 0 .. Q - 1
  BY <1>7, Moduli
<1> QED  BY <1>2, <1>6, <1>7, <1>8, InverseIsThat

-----------------------------------------------------------------------------
(* What a value of a structure stands for.                                 *)

Denotes(s, v, m) == m \in 0 .. Order(s) - 1 /\ v = Represents(s, m)

LEMMA OrderIs ==
  ASSUME NEW s \in Structure
  PROVE  /\ Order(s) \in Nat /\ Order(s) > 1
         /\ IsGt(s) => Order(s) = R /\ s \notin Field /\ Modulus(s) = Q
         /\ ~IsGt(s) => Order(s) = Modulus(s) /\ Modulus(s) \in {R, P, Q}
BY NotGt, StructureIs, Moduli

\* Outside of Gt a value stands for itself.
LEMMA DenotesItself ==
  ASSUME NEW s \in Structure, ~IsGt(s), NEW v, NEW m
  PROVE  /\ Denotes(s, v, m) <=> v = m /\ v \in 0 .. Modulus(s) - 1
         /\ Denotes(s, v, m) => v \in Nat /\ m \in Nat
<1>1. Order(s) = Modulus(s) /\ Order(s) \in Nat
  BY OrderIs
<1> QED  BY <1>1 DEF Denotes, Represents

LEMMA DenotesPower ==
  ASSUME NEW s \in Structure, IsGt(s), NEW v, NEW m
  PROVE  /\ Denotes(s, v, m) <=> m \in 0 .. R - 1 /\ v = Pow(Gen, m)
         /\ Denotes(s, v, m) => m \in Nat /\ v \in 1 .. Q - 1
<1>1. Order(s) = R
  BY OrderIs
<1>2. m \in 0 .. R - 1 => m \in Nat
  BY Moduli
<1> QED  BY <1>1, <1>2, GenIsUnit DEF Denotes, Represents

\* A value that stands for something is a value; in Gt a unit.
LEMMA DenotesOK ==
  ASSUME NEW s \in Structure, NEW v, NEW m, Denotes(s, v, m)
  PROVE  ValueOK(s, v) /\ v \in Nat /\ m \in Nat
<1>1. CASE IsGt(s)
  <2>1. v \in 1 .. Q - 1 /\ m \in Nat /\ Modulus(s) = Q
    BY <1>1, DenotesPower, OrderIs
  <2> QED  BY <2>1, Moduli DEF ValueOK
<1>2. CASE ~IsGt(s)
  <2>1. v \in 0 .. Modulus(s) - 1 /\ v \in Nat /\ m \in Nat
    BY <1>2, DenotesItself
  <2> QED  BY <1>2, <2>1 DEF ValueOK
<1> QED  BY <1>1, <1>2

\* Different values stand for different things.
LEMMA DenotesOne ==
  ASSUME NEW s \in Structure, NEW v, NEW m, NEW w, NEW n, Denotes(s, v, m), Denotes(s, w, n)
  PROVE  v = w <=> m = n
<1>1. CASE IsGt(s)
  <2>1. m \in 0 .. R - 1 /\ n \in 0 .. R - 1 /\ v = Pow(Gen, m) /\ w = Pow(Gen, n)
    BY <1>1, DenotesPower
  <2> QED  BY <2>1, SubgroupAssumption
<1>2. CASE ~IsGt(s)
  BY <1>2, DenotesItself
<1> QED  BY <1>1, <1>2

\* What a value that enters Gt stands for.
LEMMA MeaningDenotes ==
  ASSUME NEW s \in Structure, NEW v, ValueOK(s, v), IsGt(s) => Pow(v, R) = 1
  PROVE  Denotes(s, v, Meaning(s, v)) /\ v \in Carrier(s)
<1>1. CASE IsGt(s)
  <2>1. v \in 1 .. Q - 1
    BY <1>1, StructureIs DEF ValueOK
  <2>2. v \in {Pow(Gen, i) : i \in 0 .. R - 1}
    BY <1>1, <2>1, SubgroupAssumption
  <2>3. v \in Carrier(s) /\ Meaning(s, v) = CHOOSE m \in 0 .. R - 1 : Pow(Gen, m) = v
    BY <1>1, <2>2 DEF Carrier, Meaning
  <2>4. \E m \in 0 .. R - 1 : Pow(Gen, m) = v
    BY <2>2
  <2>5. Meaning(s, v) \in 0 .. R - 1 /\ Pow(Gen, Meaning(s, v)) = v
    BY <2>3, <2>4
  <2> QED  BY <1>1, <2>3, <2>5, DenotesPower
<1>2. CASE ~IsGt(s)
  <2>1. Meaning(s, v) = v /\ v \in 0 .. Modulus(s) - 1 /\ v \in Carrier(s)
    BY <1>2 DEF Meaning, ValueOK, Carrier
  <2> QED  BY <1>2, <2>1, DenotesItself
<1> QED  BY <1>1, <1>2

LEMMA DenotesCarried ==
  ASSUME NEW s \in Structure, NEW v, NEW m, Denotes(s, v, m)
  PROVE  v \in Carrier(s) /\ (IsGt(s) => Pow(v, R) = 1)
<1>1. CASE IsGt(s)
  <2>1. m \in 0 .. R - 1 /\ v = Pow(Gen, m) /\ v \in 1 .. Q - 1
    BY <1>1, DenotesPower
  <2>2. v \in {Pow(Gen, i) : i \in 0 .. R - 1}
    BY <2>1
  <2> QED  BY <1>1, <2>1, <2>2, SubgroupAssumption DEF Carrier
<1>2. CASE ~IsGt(s)
  BY <1>2, DenotesItself DEF Carrier
<1> QED  BY <1>1, <1>2

LEMMA RemainderDenotes ==
  ASSUME NEW s \in Structure, NEW n \in Int
  PROVE  /\ n % Order(s) \in 0 .. Order(s) - 1
         /\ ~IsGt(s) => Denotes(s, n % Modulus(s), n % Order(s))
<1>1. Order(s) \in Nat /\ Order(s) > 1 /\ (~IsGt(s) => Order(s) = Modulus(s))
  BY OrderIs
<1>2. n % Order(s) \in 0 .. Order(s) - 1
  BY <1>1, ModRange
<1> QED  BY <1>1, <1>2, DenotesItself

LEMMA PowerDenotes ==
  ASSUME NEW s \in Structure, IsGt(s), NEW n \in Nat
  PROVE  /\ Denotes(s, Pow(Gen, n), n % R)
         /\ Denotes(s, Pow(Gen, n % R), n % R)
<1>1. n % R \in 0 .. R - 1 /\ Pow(Gen, n % R) = Pow(Gen, n)
  BY PowOfRemainder
<1> QED  BY <1>1, DenotesPower

LEMMA PlusDenotes ==
  ASSUME NEW s \in Structure, NEW x, NEW a, NEW y, NEW b,
         Denotes(s, x, a), Denotes(s, y, b)
  PROVE  Denotes(s, Plus(s, x, y), (a + b) % Order(s))
<1>1. CASE IsGt(s)
  <2>1. /\ a \in Nat /\ b \in Nat /\ a + b \in Nat
        /\ x = Pow(Gen, a) /\ y = Pow(Gen, b) /\ Order(s) = R
    BY <1>1, DenotesPower, OrderIs
  <2>2. Plus(s, x, y) = Pow(Gen, a + b)
    BY <1>1, <2>1, GenIsUnit, PowPlus DEF Plus
  <2> QED  BY <1>1, <2>1, <2>2, PowerDenotes
<1>2. CASE ~IsGt(s)
  <2>1. x = a /\ y = b /\ a \in Nat /\ b \in Nat /\ a + b \in Int
    BY <1>2, DenotesItself
  <2> QED  BY <1>2, <2>1, RemainderDenotes DEF Plus
<1> QED  BY <1>1, <1>2

LEMMA NegDenotes ==
  ASSUME NEW s \in Structure, NEW x, NEW a, Denotes(s, x, a)
  PROVE  Denotes(s, Neg(s, x), (Order(s) - a) % Order(s)) /\ Neg(s, x) # NoInverse
<1>1. CASE IsGt(s)
  <2>1. a \in 0 .. R - 1 /\ a \in Nat /\ x = Pow(Gen, a) /\ Order(s) = R /\ R - a \in Nat
    BY <1>1, DenotesPower, OrderIs, Moduli
  <2>2. Neg(s, x) = Pow(Gen, (R - a) % R)
    BY <1>1, <2>1, InverseOfPower DEF Neg
  <2>3. Denotes(s, Neg(s, x), (R - a) % R)
    BY <1>1, <2>1, <2>2, PowerDenotes
  <2> QED  BY <2>1, <2>3, DenotesOK DEF NoInverse
<1>2. CASE ~IsGt(s)
  <2>1. x = a /\ a \in Nat /\ Order(s) = Modulus(s) /\ Order(s) \in Nat /\ Order(s) - a \in Int
    BY <1>2, DenotesItself, OrderIs
  <2>2. Neg(s, x) = (Order(s) - a) % Modulus(s)
    BY <1>2, <2>1 DEF Neg
  <2>3. Denotes(s, Neg(s, x), (Order(s) - a) % Order(s))
    BY <1>2, <2>1, <2>2, RemainderDenotes
  <2> QED  BY <2>3, DenotesOK DEF NoInverse
<1> QED  BY <1>1, <1>2

LEMMA MinusDenotes ==
  ASSUME NEW s \in Structure, NEW x, NEW a, NEW y, NEW b,
         Denotes(s, x, a), Denotes(s, y, b)
  PROVE  Denotes(s, Plus(s, x, Neg(s, y)), (a - b + Order(s)) % Order(s))
<1>1. a \in Nat /\ b \in Nat /\ Order(s) \in Nat /\ Order(s) > 1
  BY DenotesOK, OrderIs
<1>2. Denotes(s, Plus(s, x, Neg(s, y)), (a + ((Order(s) - b) % Order(s))) % Order(s))
  BY NegDenotes, PlusDenotes
<1>3. Order(s) - b \in Int /\ (Order(s) - b) + a = a - b + Order(s)
  BY <1>1
<1>4. (a + ((Order(s) - b) % Order(s))) % Order(s) = ((Order(s) - b) + a) % Order(s)
  <2>1. ASSUME NEW o \in Nat, o > 0, NEW c \in Int, NEW d \in Int
        PROVE  (d + (c % o)) % o = (c + d) % o
    BY <2>1, PlusRemainder
  <2>2. Order(s) \in Nat /\ Order(s) > 0 /\ Order(s) - b \in Int /\ a \in Int
    BY <1>1, <1>3
  <2> QED  BY <2>1, <2>2
<1> QED  BY <1>2, <1>3, <1>4
LEMMA TimesDenotes ==
  ASSUME NEW s \in Structure, s \in Field, NEW x, NEW a, NEW y, NEW b,
         Denotes(s, x, a), Denotes(s, y, b)
  PROVE  Denotes(s, Times(s, x, y), (a * b) % Order(s))
<1>1. ~IsGt(s)
  BY NotGt
<1>2. x = a /\ y = b /\ a \in Nat /\ b \in Nat
  BY <1>1, DenotesItself
<1>3. a * b \in Int
  BY <1>2
<1> QED  BY <1>1, <1>2, <1>3, RemainderDenotes DEF Times

\* A field element as a value of its field.
LEMMA FieldValue ==
  ASSUME NEW s \in Structure, s \in Field, NEW x, NEW a, Denotes(s, x, a)
  PROVE  /\ ~IsGt(s) /\ x = a /\ Order(s) = Modulus(s) /\ Modulus(s) \in {R, P, Q}
         /\ Modulus(s) \in Nat /\ Modulus(s) > 1
         /\ a \in 0 .. Modulus(s) - 1
         /\ a # 0 => a \in 1 .. Modulus(s) - 1
<1>1. ~IsGt(s)
  BY NotGt
<1>2. Order(s) = Modulus(s) /\ Modulus(s) \in {R, P, Q}
      /\ Modulus(s) \in Nat /\ Modulus(s) > 1
  BY <1>1, OrderIs, StructureIs
<1>3. x = a /\ a \in 0 .. Modulus(s) - 1
  BY <1>1, DenotesItself
<1> QED  BY <1>1, <1>2, <1>3

LEMMA QuotientDenotes ==
  ASSUME NEW s \in Structure, s \in Field, NEW x, NEW a, NEW y, NEW b,
         Denotes(s, x, a), Denotes(s, y, b), y # 0
  PROVE  Denotes(s, Times(s, x, ModInverse(Modulus(s), y)),
                 CHOOSE m \in 0 .. Order(s) - 1 : (m * b) % Order(s) = a)
<1> DEFINE M == Modulus(s)
           q == CHOOSE m \in 0 .. Order(s) - 1 : (m * b) % Order(s) = a
<1>1. /\ ~IsGt(s) /\ x = a /\ y = b /\ Order(s) = M /\ M \in {R, P, Q}
      /\ M \in Nat /\ M > 1
      /\ a \in 0 .. M - 1 /\ b \in 1 .. M - 1
  BY FieldValue
<1>2. /\ (a * ModInverse(M, b)) % M \in 0 .. M - 1
      /\ (((a * ModInverse(M, b)) % M) * b) % M = a
  <2> HIDE DEF M
  <2> QED  BY <1>1, QuotientWorks
<1>3. q \in 0 .. M - 1 /\ (q * b) % M = a
  <2>1. \E m \in 0 .. Order(s) - 1 : (m * b) % Order(s) = a
    BY <1>1, <1>2
  <2> QED  BY <1>1, <2>1
<1>4. q = (a * ModInverse(M, b)) % M
  <2> HIDE DEF M, q
  <2> QED  BY <1>1, <1>3, QuotientIs
<1>5. Times(s, x, ModInverse(M, y)) = q
  BY <1>1, <1>4 DEF Times
<1> QED  BY <1>1, <1>3, <1>5, DenotesItself

LEMMA InverseDenotes ==
  ASSUME NEW s \in Structure, s \in Field, NEW x, NEW a, Denotes(s, x, a), x # 0
  PROVE  Denotes(s, ModInverse(Modulus(s), x),
                 CHOOSE m \in 0 .. Order(s) - 1 : (m * a) % Order(s) = 1 % Order(s))
<1> DEFINE M == Modulus(s)
           q == CHOOSE m \in 0 .. Order(s) - 1 : (m * a) % Order(s) = 1 % Order(s)
           i == ModInverse(M, x)
<1>1. /\ ~IsGt(s) /\ x = a /\ Order(s) = M /\ M \in {R, P, Q} /\ M \in Nat /\ M > 1
      /\ a \in 1 .. M - 1
  BY FieldValue
<1>2. 1 % M = 1
  BY <1>1
<1>3. i \in 0 .. M - 1 /\ (a * i) % M = 1
  <2> HIDE DEF M
  <2> QED  BY <1>1, InverseIs
<1>4. (i * a) % M = 1
  <2> HIDE DEF i, M
  <2>1. i * a = a * i
    BY <1>1, <1>3
  <2> QED  BY <1>3, <2>1
<1>5. q \in 0 .. M - 1 /\ (q * a) % M = 1
  <2>1. \E m \in 0 .. Order(s) - 1 : (m * a) % Order(s) = 1 % Order(s)
    BY <1>1, <1>2, <1>3, <1>4
  <2> QED  BY <1>1, <1>2, <2>1
<1>6. q = i
  <2> HIDE DEF M, q
  <2> QED  BY <1>1, <1>5, InverseIsThat
<1> QED  BY <1>1, <1>3, <1>6, DenotesItself

LEMMA ConstantsDenote ==
  ASSUME NEW s \in Structure
  PROVE  Denotes(s, Zero(s), 0) /\ Denotes(s, One(s), 1 % Order(s))
<1>1. Order(s) \in Nat /\ Order(s) > 1 /\ 1 % Order(s) = 1
  <2>1. Order(s) \in Nat /\ Order(s) > 1
    BY OrderIs
  <2> QED  BY <2>1
<1>2. CASE IsGt(s)
  <2>1. Order(s) = R /\ Pow(Gen, 1) = Gen
    BY <1>2, OrderIs, GenIsUnit
  <2>2. Pow(Gen, 0) = 1
    BY PowSteps
  <2>3. 0 \in 0 .. R - 1 /\ 1 \in 0 .. R - 1
    BY Moduli
  <2> QED  BY <1>1, <1>2, <2>1, <2>2, <2>3, DenotesPower DEF Zero, One
<1>3. CASE ~IsGt(s)
  <2>1. Order(s) = Modulus(s)
    BY <1>3, OrderIs
  <2>2. 0 \in 0 .. Modulus(s) - 1 /\ 1 \in 0 .. Modulus(s) - 1
    BY <1>1, <2>1
  <2> QED  BY <1>1, <1>3, <2>1, <2>2, DenotesItself DEF Zero, One
<1> QED  BY <1>2, <1>3

\* A multiple in a group; f is the field of its scalars.
LEMMA MultipleDenotes ==
  ASSUME NEW g \in Structure, g \in Group, NEW k \in Nat, NEW x, NEW a, Denotes(g, x, a)
  PROVE  Denotes(g, ScalarTimes(g, k, x), (k * a) % R)
<1>1. CASE IsGt(g)
  <2>1. a \in Nat /\ x = Pow(Gen, a)
    BY <1>1, DenotesPower
  <2>2. Pow(x, k) = Pow(Gen, a * k) /\ a * k \in Nat /\ a * k = k * a
    <3>1. a * k \in Nat /\ a * k = k * a
      BY <2>1, ProductNat
    <3> QED  BY <2>1, <3>1, GenIsUnit, PowTimes
  <2>3. Denotes(g, Pow(Gen, a * k), (a * k) % R)
    BY <1>1, <2>2, PowerDenotes
  <2> QED  BY <1>1, <2>2, <2>3 DEF ScalarTimes
<1>2. CASE ~IsGt(g)
  <2>1. x = a /\ a \in Nat /\ Modulus(g) = R /\ Order(g) = R
    BY <1>2, DenotesItself, NotGt
  <2>2. k * a \in Int
    BY <2>1
  <2> QED  BY <1>2, <2>1, <2>2, RemainderDenotes DEF ScalarTimes
<1> QED  BY <1>1, <1>2

LEMMA ScalarsAre ==
  ASSUME NEW g \in Structure, NEW f \in Structure, OwnScalars(g, f)
  PROVE  g \in Group /\ ~IsGt(f)
BY DEF OwnScalars, ScalarField, IsGt

-----------------------------------------------------------------------------
(* Bytes.                                                                  *)

LEMMA FormIs ==
  ASSUME NEW f \in Format
  PROVE  /\ f[1] \in Structure
         /\ f[2] \in {"Compr", "Uncompr"} => ~IsGt(f[1]) /\ Modulus(f[1]) = R
         /\ f[2] \in {"Lsb", "Msb", "LscLsb", "Gt", "Compr", "Uncompr"}
<1>1. f[1] \in Structure /\ f[2] \in Forms(f[1])
  BY DEF Format
<1>2. f[1][2] \in Kind
  BY <1>1, StructureIs
<1> QED  BY <1>1, <1>2 DEF Forms, Modulus, IsGt, Kind

LEMMA Digits ==
  ASSUME NEW v \in Nat
  PROVE  /\ Number(<<v % Radix, v \div Radix>>) = v
         /\ Number(Reverse(<<v \div Radix, v % Radix>>)) = v
<1>1. Radix \in Nat /\ Radix > 0
  BY AlgebraAssumption
<1>2. (v % Radix) + Radix * (v \div Radix) = v
  BY <1>1
<1>3. Number(<<v % Radix, v \div Radix>>) = v
  BY <1>2 DEF Number
<1>4. ASSUME NEW x, NEW y PROVE Reverse(<<x, y>>) = <<y, x>>
  BY DEF Reverse
<1> QED  BY <1>3, <1>4

LEMMA DigitsBack ==
  ASSUME NEW x \in 0 .. Radix - 1, NEW y \in 0 .. Radix - 1
  PROVE  /\ Number(<<x, y>>) \in Nat
         /\ Number(<<x, y>>) % Radix = x
         /\ Number(<<x, y>>) \div Radix = y
<1>1. Radix \in Nat /\ Radix > 0 /\ x \in Nat /\ y \in Nat
  BY AlgebraAssumption
<1>2. Number(<<x, y>>) = Radix * y + x /\ Radix * y \in Nat
  <2>1. Radix * y \in Nat
    BY <1>1, ProductNat
  <2> QED  BY <1>1, <2>1 DEF Number
<1> DEFINE n == Number(<<x, y>>)
           k == n \div Radix
<1>3. n \in Nat
  BY <1>1, <1>2
<1> HIDE DEF n
<1>4. n % Radix = x
  <2>1. n = Radix * y + x
    BY <1>2 DEF n
  <2> QED  BY <1>1, <1>3, <2>1, RemainderIs
<1>5. k \in Nat /\ n = Radix * k + (n % Radix)
  BY <1>1, <1>3
<1>6. k = y
  <2> HIDE DEF k
  <2>1. Radix * k = Radix * y
    BY <1>1, <1>2, <1>3, <1>4, <1>5 DEF n
  <2> QED  BY <1>1, <1>5, <2>1
<1> QED  BY <1>3, <1>4, <1>6 DEF n

\* What was written is read back.
LEMMA WrittenIsRead ==
  ASSUME NEW f \in Format, NEW v, NEW m, Denotes(f[1], v, m)
  PROVE  Parse(f, Write(f, v)) = [ok |-> TRUE, val |-> v]
<1>1. /\ f[1] \in Structure
      /\ f[2] \in {"Compr", "Uncompr"} => Modulus(f[1]) = R
  BY FormIs
<1>2. v \in Nat /\ v < Modulus(f[1])
  <2>1. Modulus(f[1]) \in Nat /\ v \in 0 .. Modulus(f[1]) - 1
    BY <1>1, DenotesOK, StructureIs DEF ValueOK
  <2> QED  BY <2>1
<1>3. IsGt(f[1]) => Pow(v, R) = 1
  BY <1>1, DenotesCarried
<1>4. /\ Len(Write(f, v)) = FormatLength(f) /\ Read(f, Write(f, v))
      /\ ValueOf(f, Write(f, v)) = v
  <2>1. CASE f[2] = "Compr"
    BY <1>1, <1>2, <2>1 DEF Write, FormatLength, Read, ValueOf
  <2>2. CASE f[2] = "Uncompr"
    BY <1>1, <1>2, <2>2 DEF Write, FormatLength, Read, ValueOf
  <2>3. CASE f[2] = "Msb"
    <3>1. Write(f, v) = <<v \div Radix, v % Radix>>
      BY <2>3 DEF Write
    <3>2. Number(Reverse(Write(f, v))) = v
      BY <1>2, <3>1, Digits
    <3> QED  BY <1>2, <2>3, <3>1, <3>2 DEF FormatLength, Read, ValueOf
  <2>4. CASE f[2] \notin {"Compr", "Uncompr", "Msb"}
    <3>1. Write(f, v) = <<v % Radix, v \div Radix>>
      BY <2>4 DEF Write
    <3>2. Number(Write(f, v)) = v
      BY <1>2, <3>1, Digits
    <3> QED  BY <1>2, <2>4, <3>1, <3>2 DEF FormatLength, Read, ValueOf
  <2> QED  BY <2>1, <2>2, <2>3, <2>4
<1> QED  BY <1>3, <1>4 DEF Parse

\* What is read was written.
LEMMA ReadWasWritten ==
  ASSUME NEW f \in Format, NEW b \in Bytes, Parse(f, b).ok
  PROVE  b = Write(f, Parse(f, b).val)
<1>1. Len(b) = FormatLength(f) /\ Read(f, b) /\ Parse(f, b).val = ValueOf(f, b)
  BY DEF Parse
<1>2. PICK n \in 1 .. 2 : b \in [1 .. n -> 0 .. Radix - 1]
  BY DEF Bytes
<1>3. n = Len(b)
  BY <1>2
<1>4. CASE f[2] = "Compr"
  <2>1. n = 1 /\ ValueOf(f, b) = b[1]
    BY <1>1, <1>3, <1>4 DEF FormatLength, ValueOf
  <2>2. b = <<b[1]>>
    BY <1>2, <2>1
  <2> QED  BY <1>1, <1>4, <2>1, <2>2 DEF Write
<1>5. CASE f[2] # "Compr"
  <2>1. n = 2
    BY <1>1, <1>3, <1>5 DEF FormatLength
  <2>2. b = <<b[1], b[2]>> /\ b[1] \in 0 .. Radix - 1 /\ b[2] \in 0 .. Radix - 1
    BY <1>2, <2>1
  <2>3. CASE f[2] = "Uncompr"
    BY <1>1, <1>5, <2>2, <2>3 DEF Write, Read, ValueOf
  <2>4. CASE f[2] = "Msb"
    <3>1. Reverse(b) = <<b[2], b[1]>>
      <4>1. ASSUME NEW x, NEW y PROVE Reverse(<<x, y>>) = <<y, x>>
        BY DEF Reverse
      <4> QED  BY <2>2, <4>1
    <3>2. ValueOf(f, b) = Number(<<b[2], b[1]>>)
      BY <2>4, <3>1 DEF ValueOf
    <3>3. ValueOf(f, b) % Radix = b[2] /\ ValueOf(f, b) \div Radix = b[1]
      BY <2>2, <3>2, DigitsBack
    <3> QED  BY <1>1, <2>2, <2>4, <3>3 DEF Write
  <2>5. CASE f[2] \notin {"Uncompr", "Msb"}
    <3>1. ValueOf(f, b) = Number(<<b[1], b[2]>>)
      BY <1>5, <2>2, <2>5 DEF ValueOf
    <3>2. ValueOf(f, b) % Radix = b[1] /\ ValueOf(f, b) \div Radix = b[2]
      BY <2>2, <3>1, DigitsBack
    <3> QED  BY <1>1, <1>5, <2>2, <2>5, <3>2 DEF Write
  <2> QED  BY <2>3, <2>4, <2>5
<1> QED  BY <1>4, <1>5

LEMMA CarriedDenotes ==
  ASSUME NEW s \in Structure, NEW v \in Carrier(s)
  PROVE  \E m : Denotes(s, v, m)
<1>1. CASE IsGt(s)
  <2>1. PICK i \in 0 .. R - 1 : v = Pow(Gen, i)
    BY <1>1 DEF Carrier
  <2> QED  BY <1>1, <2>1, DenotesPower
<1>2. CASE ~IsGt(s)
  BY <1>2, DenotesItself DEF Carrier
<1> QED  BY <1>1, <1>2

\* The elements of a structure are what deserialize accepts.
LEMMA ParseDenotes ==
  ASSUME NEW s \in Structure, NEW f \in Format, f[1] = s, NEW b \in Bytes
  PROVE  /\ Parse(f, b).ok <=> b \in {Write(f, v) : v \in Carrier(s)}
         /\ Parse(f, b).ok => Denotes(s, Parse(f, b).val, Meaning(s, Parse(f, b).val))
<1>1. ASSUME Parse(f, b).ok
      PROVE  /\ Denotes(s, Parse(f, b).val, Meaning(s, Parse(f, b).val))
             /\ b \in {Write(f, v) : v \in Carrier(s)}
  <2>1. ValueOK(s, Parse(f, b).val)
    BY <1>1, ParseOK
  <2>2. IsGt(s) => Pow(Parse(f, b).val, R) = 1
    BY <1>1 DEF Parse
  <2>3. /\ Denotes(s, Parse(f, b).val, Meaning(s, Parse(f, b).val))
        /\ Parse(f, b).val \in Carrier(s)
    BY <2>1, <2>2, MeaningDenotes
  <2>4. b = Write(f, Parse(f, b).val)
    BY <1>1, ReadWasWritten
  <2> QED  BY <2>3, <2>4
<1>2. ASSUME NEW v \in Carrier(s), b = Write(f, v) PROVE Parse(f, b).ok
  <2>1. PICK m : Denotes(s, v, m)
    BY CarriedDenotes
  <2>2. Parse(f, b) = [ok |-> TRUE, val |-> v]
    BY <1>2, <2>1, WrittenIsRead
  <2> QED  BY <2>2
<1> QED  BY <1>1, <1>2

LEMMA OrderCounts ==
  ASSUME NEW s \in Structure
  PROVE  Order(s) = Cardinality(Carrier(s))
<1>1. Order(s) \in Nat /\ Order(s) > 1
  BY OrderIs
<1>2. IsFiniteSet(0 .. Order(s) - 1) /\ Cardinality(0 .. Order(s) - 1) = Order(s)
  <2>1. ASSUME NEW n \in Nat, n > 1
        PROVE  IsFiniteSet(0 .. n - 1) /\ Cardinality(0 .. n - 1) = n
    <3>1. 0 \in Int /\ n - 1 \in Int /\ ~(0 > n - 1) /\ (n - 1) - 0 + 1 = n
      BY <2>1
    <3> QED  BY <3>1, FS_Interval
  <2> QED  BY <1>1, <2>1
<1>3. CASE IsGt(s)
  <2> DEFINE g == [i \in 0 .. R - 1 |-> Pow(Gen, i)]
  <2>1. Order(s) = R
    BY <1>3, OrderIs
  <2>2. g \in Bijection(0 .. R - 1, Carrier(s))
    <3>1. Carrier(s) = {Pow(Gen, i) : i \in 0 .. R - 1}
      BY <1>3 DEF Carrier
    <3>2. g \in [0 .. R - 1 -> Carrier(s)]
      BY <3>1
    <3>3. \A i, j \in 0 .. R - 1 : g[i] = g[j] => i = j
      BY SubgroupAssumption
    <3>4. \A v \in Carrier(s) : \E i \in 0 .. R - 1 : g[i] = v
      BY <3>1
    <3> HIDE DEF g
    <3> QED  BY <3>2, <3>3, <3>4 DEF Bijection, Injection, Surjection, IsInjective
  <2> HIDE DEF g
  <2> QED  BY <1>2, <2>1, <2>2, FS_Bijection DEF ExistsBijection
<1>4. CASE ~IsGt(s)
  <2>1. Carrier(s) = 0 .. Order(s) - 1
    BY <1>4, OrderIs DEF Carrier
  <2> QED  BY <1>2, <2>1
<1> QED  BY <1>3, <1>4

-----------------------------------------------------------------------------
(* The inductive invariant: HandlesAreSound and ComputesTruly, and that    *)
(* what an element stands for is one of as many things as its structure    *)
(* has elements.  In Gt its value then is a power of the generator, which  *)
(* is what makes a subtraction safe.                                       *)

Object == [type : Curve \X Kind, val : Nat]
Bad == {"panic", "UNKNOWN_INVARIANT_VIOLATION_ERROR"}

Sound(e) == /\ e.s \in Structure /\ e.handle \in Nat /\ Borrowable(e)
            /\ Denotes(e.s, Val(e), e.means)

AlgebraIInv ==
  /\ flags \subseteq Flag
  /\ objs \in Seq(Object)
  /\ \A e \in held : Sound(e)
  /\ bytes_used = Footprint /\ bytes_used <= MemoryLimit
  /\ status \notin Bad /\ truthful = TRUE

\* What a native does: the session ends well, it changes nothing that matters here,
\* or it stores a value.
Quits == /\ status' \notin Bad
         /\ objs' = <<>> /\ bytes_used' = 0 /\ held' = {} /\ flags' = flags
         /\ truthful' = TRUE
Returned == UNCHANGED <<flags, objs, bytes_used, held, status>> /\ truthful' = TRUE
Stores(s, v, m) ==
  /\ ~(bytes_used + SizeOf[RustKind(s[2])] > MemoryLimit)
  /\ bytes_used' = bytes_used + SizeOf[RustKind(s[2])]
  /\ objs' = Append(objs, [type |-> RustType(s), val |-> v])
  /\ held' = held \cup {[s |-> s, handle |-> Len(objs), means |-> m]}
  /\ flags' = flags /\ status' = status /\ truthful' = TRUE

LEMMA EmptyFootprint ==
  ASSUME NEW f
  PROVE  SumUpTo(0, f) = 0
<1>1. PICK h : SumFn(h, 0, f) /\ SumUpTo(0, f) = h[0]
  BY SumUpToIs
<1> QED  BY <1>1 DEF SumFn

LEMMA QuitsKeeps ==
  ASSUME AlgebraIInv, Quits
  PROVE  AlgebraIInv'
<1>1. SumUpTo(0, [i \in DOMAIN <<>> |-> SizeOf[<<>>[i].type[2]]]) = 0
  BY EmptyFootprint
<1>2. objs' = <<>> /\ Len(<<>>) = 0 /\ bytes_used' = 0
  BY DEF Quits
<1>3. (bytes_used = Footprint)'
  BY <1>1, <1>2 DEF Footprint
<1>4. <<>> \in Seq(Object) /\ 0 <= MemoryLimit
  BY AlgebraAssumption
<1> QED  BY <1>2, <1>3, <1>4 DEF AlgebraIInv, Quits

LEMMA ReturnedKeeps ==
  ASSUME AlgebraIInv, Returned
  PROVE  AlgebraIInv'
BY DEF AlgebraIInv, Returned, Sound, Borrowable, Val, Footprint

\* A handle keeps leading to the same object when one is added.
LEMMA StoresKeeps ==
  ASSUME AlgebraIInv, NEW s \in Structure, NEW v, NEW m, Denotes(s, v, m), Stores(s, v, m)
  PROVE  AlgebraIInv'
<1> DEFINE o == [type |-> RustType(s), val |-> v]
           n == Len(objs)
           cost == [i \in DOMAIN objs |-> SizeOf[objs[i].type[2]]]
           costs == [i \in DOMAIN objs' |-> SizeOf[objs'[i].type[2]]]
<1>1. /\ RustType(s) \in Curve \X Kind /\ RustType(s)[2] = RustKind(s[2])
      /\ RustKind(s[2]) \in Kind /\ Modulus(s) \in Nat
  BY StructureIs
<1>2. v \in Nat /\ o \in Object
  BY <1>1, DenotesOK DEF Object
<1>3. objs \in Seq(Object) /\ n \in Nat /\ objs' = Append(objs, o)
  BY DEF AlgebraIInv, Stores
<1>4. /\ objs' \in Seq(Object) /\ Len(objs') = n + 1 /\ objs'[n + 1] = o
      /\ DOMAIN objs = 1 .. n /\ DOMAIN objs' = 1 .. n + 1
      /\ \A i \in 1 .. n : objs'[i] = objs[i]
  <2> HIDE DEF o
  <2> QED  BY <1>2, <1>3
<1>5. (bytes_used = Footprint)'
  <2>1. \A i \in 1 .. n : costs[i] = cost[i]
    BY <1>4
  <2>2. costs[n + 1] = SizeOf[RustKind(s[2])]
    BY <1>1, <1>3, <1>4
  <2>3. Footprint = SumUpTo(n, cost) /\ Footprint' = SumUpTo(n + 1, costs)
    BY <1>4 DEF Footprint
  <2>4. SumUpTo(n + 1, costs) = SumUpTo(n, cost) + costs[n + 1]
    <3> HIDE DEF cost, costs, n
    <3> QED  BY <1>3, <2>1, SumUpToNext
  <2>5. bytes_used = Footprint /\ bytes_used' = bytes_used + SizeOf[RustKind(s[2])]
    BY DEF AlgebraIInv, Stores
  <2> QED  BY <2>2, <2>3, <2>4, <2>5
<1>6. held' = held \cup {[s |-> s, handle |-> Len(objs), means |-> m]}
  BY DEF Stores
<1>7. ASSUME NEW e \in held PROVE Sound(e)'
  <2>1. Sound(e)
    BY DEF AlgebraIInv
  <2>2. e.handle + 1 \in 1 .. n
    BY <1>4, <2>1 DEF Sound, Borrowable
  <2> QED  BY <1>4, <2>1, <2>2 DEF Sound, Borrowable, Val
<1>8. ASSUME NEW e, e = [s |-> s, handle |-> Len(objs), means |-> m] PROVE Sound(e)'
  <2>1. e.s = s /\ e.handle = n /\ e.means = m
    BY <1>8
  <2> QED  BY <1>3, <1>4, <2>1 DEF Sound, Borrowable, Val
<1>9. bytes_used' <= MemoryLimit
  <2>1. n \in Nat /\ \A i \in 1 .. n : cost[i] \in Nat
    <3>1. ASSUME NEW i \in 1 .. n PROVE objs[i].type[2] \in Kind
      <4>1. objs[i] \in Object
        BY <1>3, <1>4
      <4>2. objs[i].type \in Curve \X Kind
        BY <4>1 DEF Object
      <4> QED  BY <4>2
    <3> QED  BY <1>3, <1>4, <3>1, AlgebraAssumption
  <2>2. SumUpTo(n, cost) \in Nat
    <3> HIDE DEF cost, n
    <3> QED  BY <2>1, SumUpToNat
  <2>3. bytes_used \in Nat
    BY <1>4, <2>2 DEF AlgebraIInv, Footprint
  <2>4. SizeOf[RustKind(s[2])] \in Nat /\ MemoryLimit \in Nat
    BY <1>1, AlgebraAssumption
  <2> QED  BY <2>3, <2>4 DEF Stores
<1> QED  BY <1>4, <1>5, <1>6, <1>7, <1>8, <1>9 DEF AlgebraIInv, Stores

-----------------------------------------------------------------------------
(* What each native does.                                                  *)

Outcome == \/ Quits
           \/ Returned
           \/ \E s \in Structure : \E v, m : Denotes(s, v, m) /\ Stores(s, v, m)

LEMMA OutcomeKeeps ==
  ASSUME AlgebraIInv, Outcome
  PROVE  AlgebraIInv'
<1>1. CASE Quits
  BY <1>1, QuitsKeeps
<1>2. CASE Returned
  BY <1>2, ReturnedKeeps
<1>3. ASSUME NEW s \in Structure, NEW v, NEW m, Denotes(s, v, m), Stores(s, v, m)
      PROVE  AlgebraIInv'
  BY <1>3, StoresKeeps
<1> QED  BY <1>1, <1>2, <1>3 DEF Outcome

\* An element Move holds can be borrowed, and is a value of its structure.
LEMMA HeldIs ==
  ASSUME AlgebraIInv, NEW s \in Structure, NEW x \in Handles(s)
  PROVE  /\ x \in held /\ Borrowable(x) /\ Denotes(s, Val(x), x.means)
         /\ Val(x) \in Nat /\ x.means \in Nat
<1>1. x \in held /\ x.s = s
  BY DEF Handles
<1>2. Borrowable(x) /\ Denotes(s, Val(x), x.means)
  BY <1>1 DEF AlgebraIInv, Sound
<1> QED  BY <1>1, <1>2, DenotesOK

LEMMA StoreElementIs ==
  ASSUME NEW s, NEW v, NEW m, NEW told, NEW truth, told = truth,
         StoreElement(s, v, m, told, truth)
  PROVE  Quits \/ Stores(s, v, m)
<1>1. CASE bytes_used + SizeOf[RustKind(s[2])] > MemoryLimit
  BY <1>1 DEF StoreElement, Ends, Quits, Bad
<1>2. CASE ~(bytes_used + SizeOf[RustKind(s[2])] > MemoryLimit)
  BY <1>2 DEF StoreElement, Stores
<1> QED  BY <1>1, <1>2

LEMMA StoreIs ==
  ASSUME NEW s, NEW v, NEW m, Store(s, v, m)
  PROVE  Quits \/ Stores(s, v, m)
BY StoreElementIs DEF Store
LEMMA ReturnsIs ==
  ASSUME NEW told, NEW truth, told = truth, Returns(told, truth)
  PROVE  Returned
BY DEF Returns, Returned

LEMMA ZeroDoes ==
  ASSUME zero_internal
  PROVE  Outcome
<1>1. PICK s \in Structure : Call(NativesOn /\ CurveOn(s), {}, Store(s, Zero(s), 0))
  BY DEF zero_internal
<1>2. Quits \/ Stores(s, Zero(s), 0)
  BY <1>1, StoreIs DEF Call, Borrowing, Ends, Quits, Bad
<1> QED  BY <1>2, ConstantsDenote DEF Outcome

LEMMA OneDoes ==
  ASSUME one_internal
  PROVE  Outcome
<1>1. PICK s \in Structure :
        Call(NativesOn /\ CurveOn(s), {}, Store(s, One(s), 1 % Order(s)))
  BY DEF one_internal
<1>2. Quits \/ Stores(s, One(s), 1 % Order(s))
  BY <1>1, StoreIs DEF Call, Borrowing, Ends, Quits, Bad
<1> QED  BY <1>2, ConstantsDenote DEF Outcome

LEMMA OrderDoes ==
  ASSUME order_internal
  PROVE  Outcome
<1>1. PICK s \in Structure :
        Call(NativesOn /\ CurveOn(s), {},
             Returns(Order(s) = Cardinality(Carrier(s)), TRUE))
  BY DEF order_internal
<1>2. Quits \/ Returned
  BY <1>1, OrderCounts DEF Call, Borrowing, Ends, Returns, Returned, Quits, Bad
<1> QED  BY <1>2 DEF Outcome

LEMMA FromU64Does ==
  ASSUME from_u64_internal
  PROVE  Outcome
<1>1. PICK s \in Structure :
        Call(NativesOn /\ CurveOn(s) /\ s \in Field, {},
             \E n \in 0 .. MaxU64 : Store(s, n % Modulus(s), n % Modulus(s)))
  BY DEF from_u64_internal
<1>2. Quits \/ (s \in Field /\ \E n \in 0 .. MaxU64 : Stores(s, n % Modulus(s), n % Modulus(s)))
  BY <1>1, StoreIs DEF Call, Borrowing, Ends, Quits, Bad
<1>3. ASSUME NEW n \in 0 .. MaxU64, s \in Field
      PROVE  Denotes(s, n % Modulus(s), n % Modulus(s))
  <2>1. n \in Int /\ ~IsGt(s) /\ Order(s) = Modulus(s)
    BY <1>3, NotGt, OrderIs
  <2> QED  BY <2>1, RemainderDenotes
<1> QED  BY <1>2, <1>3 DEF Outcome

LEMMA AddDoes ==
  ASSUME AlgebraIInv, add_internal
  PROVE  Outcome
<1>1. PICK s \in Structure : \E x, y \in Handles(s) :
        Call(NativesOn /\ CurveOn(s), {x, y},
             Store(s, Plus(s, Val(x), Val(y)), (x.means + y.means) % Order(s)))
  BY DEF add_internal
<1>2. PICK x \in Handles(s), y \in Handles(s) :
        Call(NativesOn /\ CurveOn(s), {x, y},
             Store(s, Plus(s, Val(x), Val(y)), (x.means + y.means) % Order(s)))
  BY <1>1
<1>3. /\ Borrowable(x) /\ Denotes(s, Val(x), x.means)
      /\ Borrowable(y) /\ Denotes(s, Val(y), y.means)
  BY HeldIs
<1>4. Quits \/ Stores(s, Plus(s, Val(x), Val(y)), (x.means + y.means) % Order(s))
  BY <1>2, <1>3, StoreIs DEF Call, Borrowing, Ends, Quits, Bad
<1>5. Denotes(s, Plus(s, Val(x), Val(y)), (x.means + y.means) % Order(s))
  BY <1>3, PlusDenotes
<1> QED  BY <1>4, <1>5 DEF Outcome

\* The inverse a subtraction in Gt takes for granted is there.
LEMMA SubDoes ==
  ASSUME AlgebraIInv, sub_internal
  PROVE  Outcome
<1>1. PICK s \in Structure : \E x, y \in Handles(s) :
        Call(NativesOn /\ CurveOn(s), {x, y},
             IF Neg(s, Val(y)) = NoInverse THEN Ends("panic")
             ELSE Store(s, Plus(s, Val(x), Neg(s, Val(y))),
                        (x.means - y.means + Order(s)) % Order(s)))
  BY DEF sub_internal
<1>2. PICK x \in Handles(s), y \in Handles(s) :
        Call(NativesOn /\ CurveOn(s), {x, y},
             IF Neg(s, Val(y)) = NoInverse THEN Ends("panic")
             ELSE Store(s, Plus(s, Val(x), Neg(s, Val(y))),
                        (x.means - y.means + Order(s)) % Order(s)))
  BY <1>1
<1>3. /\ Borrowable(x) /\ Denotes(s, Val(x), x.means)
      /\ Borrowable(y) /\ Denotes(s, Val(y), y.means)
  BY HeldIs
<1>4. Neg(s, Val(y)) # NoInverse
  BY <1>3, NegDenotes
<1>5. Quits \/ Stores(s, Plus(s, Val(x), Neg(s, Val(y))),
                      (x.means - y.means + Order(s)) % Order(s))
  BY <1>2, <1>3, <1>4, StoreIs DEF Call, Borrowing, Ends, Quits, Bad
<1>6. Denotes(s, Plus(s, Val(x), Neg(s, Val(y))),
              (x.means - y.means + Order(s)) % Order(s))
  BY <1>3, MinusDenotes
<1> QED  BY <1>5, <1>6 DEF Outcome

LEMMA NegDoes ==
  ASSUME AlgebraIInv, neg_internal
  PROVE  Outcome
<1>1. PICK s \in Structure : \E x \in Handles(s) :
        Call(NativesOn /\ CurveOn(s), {x},
             IF Neg(s, Val(x)) = NoInverse
             THEN Ends("UNKNOWN_INVARIANT_VIOLATION_ERROR")
             ELSE Store(s, Neg(s, Val(x)), (Order(s) - x.means) % Order(s)))
  BY DEF neg_internal
<1>2. PICK x \in Handles(s) :
        Call(NativesOn /\ CurveOn(s), {x},
             IF Neg(s, Val(x)) = NoInverse
             THEN Ends("UNKNOWN_INVARIANT_VIOLATION_ERROR")
             ELSE Store(s, Neg(s, Val(x)), (Order(s) - x.means) % Order(s)))
  BY <1>1
<1>3. Borrowable(x) /\ Denotes(s, Val(x), x.means)
  BY HeldIs
<1>4. /\ Denotes(s, Neg(s, Val(x)), (Order(s) - x.means) % Order(s))
      /\ Neg(s, Val(x)) # NoInverse
  BY <1>3, NegDenotes
<1>5. Quits \/ Stores(s, Neg(s, Val(x)), (Order(s) - x.means) % Order(s))
  BY <1>2, <1>3, <1>4, StoreIs DEF Call, Borrowing, Ends, Quits, Bad
<1> QED  BY <1>4, <1>5 DEF Outcome
LEMMA DoubleDoes ==
  ASSUME AlgebraIInv, double_internal
  PROVE  Outcome
<1>1. PICK s \in Structure : \E x \in Handles(s) :
        Call(NativesOn /\ CurveOn(s) /\ s \in Group, {x},
             Store(s, Plus(s, Val(x), Val(x)), (2 * x.means) % Order(s)))
  BY DEF double_internal
<1>2. PICK x \in Handles(s) :
        Call(NativesOn /\ CurveOn(s) /\ s \in Group, {x},
             Store(s, Plus(s, Val(x), Val(x)), (2 * x.means) % Order(s)))
  BY <1>1
<1>3. Borrowable(x) /\ Denotes(s, Val(x), x.means)
  BY HeldIs
<1>4. Quits \/ Stores(s, Plus(s, Val(x), Val(x)), (2 * x.means) % Order(s))
  BY <1>2, <1>3, StoreIs DEF Call, Borrowing, Ends, Quits, Bad
<1>5. Denotes(s, Plus(s, Val(x), Val(x)), (2 * x.means) % Order(s))
  <2>1. Denotes(s, Plus(s, Val(x), Val(x)), (x.means + x.means) % Order(s))
    BY <1>3, PlusDenotes
  <2>2. x.means \in Nat
    BY HeldIs
  <2>3. 2 * x.means = x.means + x.means
    BY <2>2
  <2> QED  BY <2>1, <2>3
<1> QED  BY <1>4, <1>5 DEF Outcome

LEMMA MulDoes ==
  ASSUME AlgebraIInv, mul_internal
  PROVE  Outcome
<1>1. PICK s \in Structure : \E x, y \in Handles(s) :
        Call(NativesOn /\ CurveOn(s) /\ s \in Field, {x, y},
             Store(s, Times(s, Val(x), Val(y)), (x.means * y.means) % Order(s)))
  BY DEF mul_internal
<1>2. PICK x \in Handles(s), y \in Handles(s) :
        Call(NativesOn /\ CurveOn(s) /\ s \in Field, {x, y},
             Store(s, Times(s, Val(x), Val(y)), (x.means * y.means) % Order(s)))
  BY <1>1
<1>3. /\ Borrowable(x) /\ Denotes(s, Val(x), x.means)
      /\ Borrowable(y) /\ Denotes(s, Val(y), y.means)
  BY HeldIs
<1>4. \/ Quits
      \/ /\ s \in Field
         /\ Stores(s, Times(s, Val(x), Val(y)), (x.means * y.means) % Order(s))
  BY <1>2, <1>3, StoreIs DEF Call, Borrowing, Ends, Quits, Bad
<1>5. s \in Field =>
        Denotes(s, Times(s, Val(x), Val(y)), (x.means * y.means) % Order(s))
  BY <1>3, TimesDenotes
<1> QED  BY <1>4, <1>5 DEF Outcome

LEMMA SqrDoes ==
  ASSUME AlgebraIInv, sqr_internal
  PROVE  Outcome
<1>1. PICK s \in Structure : \E x \in Handles(s) :
        Call(NativesOn /\ CurveOn(s) /\ s \in Field, {x},
             Store(s, Times(s, Val(x), Val(x)), (x.means * x.means) % Order(s)))
  BY DEF sqr_internal
<1>2. PICK x \in Handles(s) :
        Call(NativesOn /\ CurveOn(s) /\ s \in Field, {x},
             Store(s, Times(s, Val(x), Val(x)), (x.means * x.means) % Order(s)))
  BY <1>1
<1>3. Borrowable(x) /\ Denotes(s, Val(x), x.means)
  BY HeldIs
<1>4. \/ Quits
      \/ /\ s \in Field
         /\ Stores(s, Times(s, Val(x), Val(x)), (x.means * x.means) % Order(s))
  BY <1>2, <1>3, StoreIs DEF Call, Borrowing, Ends, Quits, Bad
<1>5. s \in Field =>
        Denotes(s, Times(s, Val(x), Val(x)), (x.means * x.means) % Order(s))
  BY <1>3, TimesDenotes
<1> QED  BY <1>4, <1>5 DEF Outcome

LEMMA DivDoes ==
  ASSUME AlgebraIInv, div_internal
  PROVE  Outcome
<1> DEFINE Quotient(s, x, y) == Times(s, Val(x), ModInverse(Modulus(s), Val(y)))
           Meant(s, x, y) == CHOOSE m \in 0 .. Order(s) - 1 :
                               (m * y.means) % Order(s) = x.means
<1>1. PICK s \in Structure : \E x, y \in Handles(s) :
        Call(NativesOn /\ CurveOn(s) /\ s \in Field, {x, y},
             IF Val(y) = 0 THEN Returns(FALSE, y.means # 0)
             ELSE StoreElement(s, Quotient(s, x, y), Meant(s, x, y), TRUE, y.means # 0))
  BY DEF div_internal
<1>2. PICK x \in Handles(s), y \in Handles(s) :
        Call(NativesOn /\ CurveOn(s) /\ s \in Field, {x, y},
             IF Val(y) = 0 THEN Returns(FALSE, y.means # 0)
             ELSE StoreElement(s, Quotient(s, x, y), Meant(s, x, y), TRUE, y.means # 0))
  BY <1>1
<1>3. /\ Borrowable(x) /\ Denotes(s, Val(x), x.means)
      /\ Borrowable(y) /\ Denotes(s, Val(y), y.means)
  BY HeldIs
<1>4. s \in Field => (Val(y) = 0 <=> y.means = 0)
  BY <1>3, FieldValue
<1>5. s \in Field /\ Val(y) # 0 => Denotes(s, Quotient(s, x, y), Meant(s, x, y))
  BY <1>3, QuotientDenotes
<1> HIDE DEF Quotient, Meant
<1>6. \/ Quits
      \/ Returned
      \/ s \in Field /\ Val(y) # 0 /\ Stores(s, Quotient(s, x, y), Meant(s, x, y))
  <2>1. \/ Quits
        \/ s \in Field /\ IF Val(y) = 0 THEN Returns(FALSE, y.means # 0)
                          ELSE StoreElement(s, Quotient(s, x, y), Meant(s, x, y),
                                            TRUE, y.means # 0)
    BY <1>2, <1>3 DEF Call, Borrowing, Ends, Quits, Bad
  <2>2. CASE s \in Field /\ Val(y) = 0 /\ Returns(FALSE, y.means # 0)
    BY <1>4, <2>2 DEF Returns, Returned
  <2>3. CASE /\ s \in Field /\ Val(y) # 0
             /\ StoreElement(s, Quotient(s, x, y), Meant(s, x, y), TRUE, y.means # 0)
    <3>1. TRUE = (y.means # 0)
      BY <1>4, <2>3
    <3>2. Quits \/ Stores(s, Quotient(s, x, y), Meant(s, x, y))
      BY <2>3, <3>1, StoreElementIs
    <3> QED  BY <2>3, <3>2
  <2> QED  BY <2>1, <2>2, <2>3
<1> QED  BY <1>5, <1>6 DEF Outcome

LEMMA InvDoes ==
  ASSUME AlgebraIInv, inv_internal
  PROVE  Outcome
<1> DEFINE Inverted(s, x) == ModInverse(Modulus(s), Val(x))
           Meant(s, x) == CHOOSE m \in 0 .. Order(s) - 1 :
                            (m * x.means) % Order(s) = 1 % Order(s)
<1>1. PICK s \in Structure : \E x \in Handles(s) :
        Call(NativesOn /\ CurveOn(s) /\ s \in Field, {x},
             IF Val(x) = 0 THEN Returns(FALSE, x.means # 0)
             ELSE StoreElement(s, Inverted(s, x), Meant(s, x), TRUE, x.means # 0))
  BY DEF inv_internal
<1>2. PICK x \in Handles(s) :
        Call(NativesOn /\ CurveOn(s) /\ s \in Field, {x},
             IF Val(x) = 0 THEN Returns(FALSE, x.means # 0)
             ELSE StoreElement(s, Inverted(s, x), Meant(s, x), TRUE, x.means # 0))
  BY <1>1
<1>3. Borrowable(x) /\ Denotes(s, Val(x), x.means)
  BY HeldIs
<1>4. s \in Field => (Val(x) = 0 <=> x.means = 0)
  BY <1>3, FieldValue
<1>5. s \in Field /\ Val(x) # 0 => Denotes(s, Inverted(s, x), Meant(s, x))
  BY <1>3, InverseDenotes
<1> HIDE DEF Inverted, Meant
<1>6. \/ Quits
      \/ Returned
      \/ s \in Field /\ Val(x) # 0 /\ Stores(s, Inverted(s, x), Meant(s, x))
  <2>1. \/ Quits
        \/ s \in Field /\ IF Val(x) = 0 THEN Returns(FALSE, x.means # 0)
                          ELSE StoreElement(s, Inverted(s, x), Meant(s, x),
                                            TRUE, x.means # 0)
    BY <1>2, <1>3 DEF Call, Borrowing, Ends, Quits, Bad
  <2>2. CASE s \in Field /\ Val(x) = 0 /\ Returns(FALSE, x.means # 0)
    BY <1>4, <2>2 DEF Returns, Returned
  <2>3. CASE /\ s \in Field /\ Val(x) # 0
             /\ StoreElement(s, Inverted(s, x), Meant(s, x), TRUE, x.means # 0)
    <3>1. TRUE = (x.means # 0)
      BY <1>4, <2>3
    <3>2. Quits \/ Stores(s, Inverted(s, x), Meant(s, x))
      BY <2>3, <3>1, StoreElementIs
    <3> QED  BY <2>3, <3>2
  <2> QED  BY <2>1, <2>2, <2>3
<1> QED  BY <1>5, <1>6 DEF Outcome

LEMMA EqDoes ==
  ASSUME AlgebraIInv, eq_internal
  PROVE  Outcome
<1>1. PICK s \in Structure : \E x, y \in Handles(s) :
        Call(NativesOn /\ CurveOn(s), {x, y},
             Returns(Val(x) = Val(y), x.means = y.means))
  BY DEF eq_internal
<1>2. PICK x \in Handles(s), y \in Handles(s) :
        Call(NativesOn /\ CurveOn(s), {x, y},
             Returns(Val(x) = Val(y), x.means = y.means))
  BY <1>1
<1>3. Borrowable(x) /\ Borrowable(y) /\ (Val(x) = Val(y) <=> x.means = y.means)
  BY HeldIs, DenotesOne
<1>4. Quits \/ Returned
  BY <1>2, <1>3 DEF Call, Borrowing, Ends, Returns, Returned, Quits, Bad
<1> QED  BY <1>4 DEF Outcome
LEMMA ScalarMulDoes ==
  ASSUME AlgebraIInv, scalar_mul_internal
  PROVE  Outcome
<1>1. PICK g \in Structure, f \in Structure : \E x \in Handles(g), k \in Handles(f) :
        Call(NativesOn /\ OwnScalars(g, f), {x, k},
             Store(g, ScalarTimes(g, Val(k), Val(x)), (k.means * x.means) % R))
  BY DEF scalar_mul_internal
<1>2. PICK x \in Handles(g), k \in Handles(f) :
        Call(NativesOn /\ OwnScalars(g, f), {x, k},
             Store(g, ScalarTimes(g, Val(k), Val(x)), (k.means * x.means) % R))
  BY <1>1
<1>3. /\ Borrowable(x) /\ Denotes(g, Val(x), x.means)
      /\ Borrowable(k) /\ Denotes(f, Val(k), k.means) /\ Val(k) \in Nat
  BY HeldIs
<1>4. \/ Quits
      \/ /\ OwnScalars(g, f)
         /\ Stores(g, ScalarTimes(g, Val(k), Val(x)), (k.means * x.means) % R)
  BY <1>2, <1>3, StoreIs DEF Call, Borrowing, Ends, Quits, Bad
<1>5. OwnScalars(g, f) =>
        Denotes(g, ScalarTimes(g, Val(k), Val(x)), (k.means * x.means) % R)
  <2>1. OwnScalars(g, f) => g \in Group /\ Val(k) = k.means
    BY <1>3, ScalarsAre, DenotesItself
  <2> QED  BY <1>3, <2>1, MultipleDenotes
<1> QED  BY <1>4, <1>5 DEF Outcome

\* The elements of two lists of the same length, of points and their scalars or of
\* points to be paired.
LEMMA ListsAre ==
  ASSUME AlgebraIInv, NEW g \in Structure, NEW f \in Structure, ~IsGt(g), ~IsGt(f),
         NEW xs \in Lists(g), NEW ks \in Lists(f), Len(xs) = Len(ks)
  PROVE  /\ \A e \in ToSet(xs) \cup ToSet(ks) : Borrowable(e)
         /\ Len(xs) \in Nat /\ DOMAIN xs = 1 .. Len(xs)
         /\ \A i \in DOMAIN xs : Val(xs[i]) = xs[i].means /\ Val(xs[i]) \in Nat
         /\ \A i \in DOMAIN xs : Val(ks[i]) = ks[i].means /\ Val(ks[i]) \in Nat
<1>1. PICK n \in 0 .. MaxArity : xs \in [1 .. n -> Handles(g)]
  BY DEF Lists
<1>2. PICK m \in 0 .. MaxArity : ks \in [1 .. m -> Handles(f)]
  BY DEF Lists
<1>3. n \in Nat /\ m \in Nat /\ Len(xs) = n /\ Len(ks) = m /\ m = n
  BY <1>1, <1>2
<1>4. ASSUME NEW i \in 1 .. n
      PROVE  /\ Borrowable(xs[i]) /\ Val(xs[i]) = xs[i].means /\ Val(xs[i]) \in Nat
             /\ Borrowable(ks[i]) /\ Val(ks[i]) = ks[i].means /\ Val(ks[i]) \in Nat
  <2>1. xs[i] \in Handles(g) /\ ks[i] \in Handles(f)
    BY <1>1, <1>2, <1>3
  <2>2. Borrowable(xs[i]) /\ Denotes(g, Val(xs[i]), xs[i].means)
    BY <2>1, HeldIs
  <2>3. Borrowable(ks[i]) /\ Denotes(f, Val(ks[i]), ks[i].means)
    BY <2>1, HeldIs
  <2>4. Val(xs[i]) = xs[i].means /\ Val(xs[i]) \in Nat
    BY <2>2, DenotesItself
  <2>5. Val(ks[i]) = ks[i].means /\ Val(ks[i]) \in Nat
    BY <2>3, DenotesItself
  <2> QED  BY <2>2, <2>3, <2>4, <2>5
<1>5. \A e \in ToSet(xs) \cup ToSet(ks) : Borrowable(e)
  BY <1>1, <1>2, <1>3, <1>4 DEF ToSet
<1>6. DOMAIN xs = 1 .. n
  BY <1>1
<1> QED  BY <1>3, <1>4, <1>5, <1>6

LEMMA SumOfProducts ==
  ASSUME NEW n \in Nat, NEW f, \A i \in 1 .. n : \E u, v \in Nat : f[i] = u * v
  PROVE  SumUpTo(n, f) \in Nat
<1>1. ASSUME NEW i \in 1 .. n PROVE f[i] \in Nat
  <2>1. PICK u \in Nat, v \in Nat : f[i] = u * v
    OBVIOUS
  <2> QED  BY <2>1, ProductNat
<1> QED  BY <1>1, SumUpToNat

LEMMA MultiScalarMulDoes ==
  ASSUME AlgebraIInv, multi_scalar_mul_internal
  PROVE  Outcome
<1> DEFINE Prods(xs, ks) == [i \in DOMAIN xs |-> Val(ks[i]) * Val(xs[i])]
           Meant(xs, ks) == SumUpTo(Len(xs), [i \in DOMAIN xs |-> ks[i].means * xs[i].means]) % R
<1>1. PICK g \in Structure, f \in Structure :
        Call(OwnScalars(g, f) /\ ~IsGt(g), {}, \E xs \in Lists(g), ks \in Lists(f) :
          IF Len(xs) # Len(ks) THEN Ends(SizesNotMatching)
          ELSE Borrowing(ToSet(xs) \cup ToSet(ks),
                 Store(g, SumUpTo(Len(xs), Prods(xs, ks)) % R, Meant(xs, ks))))
  BY DEF multi_scalar_mul_internal
<1>2. \/ Quits
      \/ /\ OwnScalars(g, f) /\ ~IsGt(g)
         /\ \E xs \in Lists(g), ks \in Lists(f) :
              IF Len(xs) # Len(ks) THEN Ends(SizesNotMatching)
              ELSE Borrowing(ToSet(xs) \cup ToSet(ks),
                     Store(g, SumUpTo(Len(xs), Prods(xs, ks)) % R, Meant(xs, ks)))
  <2> HIDE DEF Prods, Meant
  <2> QED  BY <1>1 DEF Call, Borrowing, Ends, Quits, Bad
<1>3. ASSUME OwnScalars(g, f), ~IsGt(g), NEW xs \in Lists(g), NEW ks \in Lists(f),
             IF Len(xs) # Len(ks) THEN Ends(SizesNotMatching)
             ELSE Borrowing(ToSet(xs) \cup ToSet(ks),
                    Store(g, SumUpTo(Len(xs), Prods(xs, ks)) % R, Meant(xs, ks)))
      PROVE  Outcome
  <2>1. CASE Len(xs) # Len(ks)
    <3>1. Quits
      BY <1>3, <2>1 DEF Ends, Quits, Bad, SizesNotMatching
    <3> QED  BY <3>1 DEF Outcome
  <2>2. CASE Len(xs) = Len(ks)
    <3>1. ~IsGt(f) /\ Modulus(g) = R /\ Order(g) = R
      BY <1>3, ScalarsAre, NotGt
    <3>2. /\ \A e \in ToSet(xs) \cup ToSet(ks) : Borrowable(e)
          /\ SumUpTo(Len(xs), Prods(xs, ks)) \in Nat
          /\ Prods(xs, ks) = [i \in DOMAIN xs |-> ks[i].means * xs[i].means]
      <4>1. /\ \A e \in ToSet(xs) \cup ToSet(ks) : Borrowable(e)
            /\ Len(xs) \in Nat /\ DOMAIN xs = 1 .. Len(xs)
            /\ \A i \in DOMAIN xs : Val(xs[i]) = xs[i].means /\ Val(xs[i]) \in Nat
            /\ \A i \in DOMAIN xs : Val(ks[i]) = ks[i].means /\ Val(ks[i]) \in Nat
        BY <1>3, <2>2, <3>1, ListsAre
      <4>2. Prods(xs, ks) = [i \in DOMAIN xs |-> ks[i].means * xs[i].means]
        BY <4>1
      <4>3. \A i \in 1 .. Len(xs) : \E u, v \in Nat : Prods(xs, ks)[i] = u * v
        BY <4>1
      <4>4. SumUpTo(Len(xs), Prods(xs, ks)) \in Nat
        <5> HIDE DEF Prods
        <5> QED  BY <4>1, <4>3, SumOfProducts
      <4> QED  BY <4>1, <4>2, <4>4
    <3>3. Meant(xs, ks) = SumUpTo(Len(xs), Prods(xs, ks)) % R
      BY <3>2
    <3> HIDE DEF Prods, Meant
    <3>4. Quits \/ Stores(g, SumUpTo(Len(xs), Prods(xs, ks)) % R, Meant(xs, ks))
      BY <1>3, <2>2, <3>2, StoreIs DEF Borrowing, Ends, Quits, Bad
    <3>5. Denotes(g, SumUpTo(Len(xs), Prods(xs, ks)) % R, Meant(xs, ks))
      BY <1>3, <3>1, <3>2, <3>3, RemainderDenotes
    <3> QED  BY <3>4, <3>5 DEF Outcome
  <2> QED  BY <2>1, <2>2
<1>4. CASE Quits
  BY <1>4 DEF Outcome
<1> QED  BY <1>2, <1>3, <1>4

\* What is paired are points of the two groups, and the pairing is in Gt.
LEMMA PairedAre ==
  ASSUME NEW g1 \in Structure, NEW g2 \in Structure, NEW gt \in Structure,
         PairingGroups(g1, g2, gt)
  PROVE  ~IsGt(g1) /\ ~IsGt(g2) /\ IsGt(gt)
BY DEF PairingGroups, IsGt

LEMMA PairingDoes ==
  ASSUME AlgebraIInv, pairing_internal
  PROVE  Outcome
<1>1. PICK g1 \in OfKind({"G1", "G2"}), g2 \in OfKind({"G1", "G2"}),
           gt \in OfKind({"Gt", "Fq12"}) :
       \E x \in Handles(g1), y \in Handles(g2) :
        Call(NativesOn /\ PairingGroups(g1, g2, gt), {x, y},
             Store(gt, Pair(Val(x), Val(y)), (x.means * y.means) % R))
  BY DEF pairing_internal
<1>2. PICK x \in Handles(g1), y \in Handles(g2) :
        Call(NativesOn /\ PairingGroups(g1, g2, gt), {x, y},
             Store(gt, Pair(Val(x), Val(y)), (x.means * y.means) % R))
  BY <1>1
<1>3. g1 \in Structure /\ g2 \in Structure /\ gt \in Structure
  BY DEF OfKind
<1>4. /\ Borrowable(x) /\ Denotes(g1, Val(x), x.means) /\ Val(x) \in Nat
      /\ Borrowable(y) /\ Denotes(g2, Val(y), y.means) /\ Val(y) \in Nat
  BY <1>3, HeldIs
<1>5. \/ Quits
      \/ /\ PairingGroups(g1, g2, gt)
         /\ Stores(gt, Pair(Val(x), Val(y)), (x.means * y.means) % R)
  BY <1>2, <1>4, StoreIs DEF Call, Borrowing, Ends, Quits, Bad
<1>6. ASSUME PairingGroups(g1, g2, gt)
      PROVE  Denotes(gt, Pair(Val(x), Val(y)), (x.means * y.means) % R)
  <2>1. IsGt(gt) /\ Val(x) = x.means /\ Val(y) = y.means
    BY <1>3, <1>4, <1>6, PairedAre, DenotesItself
  <2>2. Val(x) * Val(y) \in Nat
    BY <1>4, ProductNat
  <2>3. Denotes(gt, Pow(Gen, (Val(x) * Val(y)) % R), (Val(x) * Val(y)) % R)
    BY <1>3, <2>1, <2>2, PowerDenotes
  <2> QED  BY <2>1, <2>3 DEF Pair
<1> QED  BY <1>3, <1>5, <1>6 DEF Outcome

LEMMA MultiPairingDoes ==
  ASSUME AlgebraIInv, multi_pairing_internal
  PROVE  Outcome
<1> DEFINE Prods(xs, ys) == [i \in DOMAIN xs |-> Val(xs[i]) * Val(ys[i])]
           Meant(xs, ys) == SumUpTo(Len(xs), [i \in DOMAIN xs |-> xs[i].means * ys[i].means]) % R
<1>1. PICK g1 \in OfKind({"G1", "G2"}), g2 \in OfKind({"G1", "G2"}),
           gt \in OfKind({"Gt", "Fq12"}) :
        Call(NativesOn /\ PairingGroups(g1, g2, gt), {},
          \E xs \in Lists(g1), ys \in Lists(g2) :
          IF Len(xs) # Len(ys) THEN Ends(SizesNotMatching)
          ELSE Borrowing(ToSet(xs) \cup ToSet(ys),
                 Store(gt, Pow(Gen, SumUpTo(Len(xs), Prods(xs, ys)) % R), Meant(xs, ys))))
  BY DEF multi_pairing_internal
<1>2. g1 \in Structure /\ g2 \in Structure /\ gt \in Structure
  BY DEF OfKind
<1>3. \/ Quits
      \/ /\ PairingGroups(g1, g2, gt)
         /\ \E xs \in Lists(g1), ys \in Lists(g2) :
              IF Len(xs) # Len(ys) THEN Ends(SizesNotMatching)
              ELSE Borrowing(ToSet(xs) \cup ToSet(ys),
                     Store(gt, Pow(Gen, SumUpTo(Len(xs), Prods(xs, ys)) % R), Meant(xs, ys)))
  <2> HIDE DEF Prods, Meant
  <2> QED  BY <1>1 DEF Call, Borrowing, Ends, Quits, Bad
<1>4. ASSUME PairingGroups(g1, g2, gt), NEW xs \in Lists(g1), NEW ys \in Lists(g2),
             IF Len(xs) # Len(ys) THEN Ends(SizesNotMatching)
             ELSE Borrowing(ToSet(xs) \cup ToSet(ys),
                    Store(gt, Pow(Gen, SumUpTo(Len(xs), Prods(xs, ys)) % R), Meant(xs, ys)))
      PROVE  Outcome
  <2>1. CASE Len(xs) # Len(ys)
    <3>1. Quits
      BY <1>4, <2>1 DEF Ends, Quits, Bad, SizesNotMatching
    <3> QED  BY <3>1 DEF Outcome
  <2>2. CASE Len(xs) = Len(ys)
    <3>1. ~IsGt(g1) /\ ~IsGt(g2) /\ IsGt(gt)
      BY <1>2, <1>4, PairedAre
    <3>2. /\ \A e \in ToSet(xs) \cup ToSet(ys) : Borrowable(e)
          /\ SumUpTo(Len(xs), Prods(xs, ys)) \in Nat
          /\ Prods(xs, ys) = [i \in DOMAIN xs |-> xs[i].means * ys[i].means]
      <4>1. /\ \A e \in ToSet(xs) \cup ToSet(ys) : Borrowable(e)
            /\ Len(xs) \in Nat /\ DOMAIN xs = 1 .. Len(xs)
            /\ \A i \in DOMAIN xs : Val(xs[i]) = xs[i].means /\ Val(xs[i]) \in Nat
            /\ \A i \in DOMAIN xs : Val(ys[i]) = ys[i].means /\ Val(ys[i]) \in Nat
        BY <1>2, <2>2, <3>1, ListsAre
      <4>2. Prods(xs, ys) = [i \in DOMAIN xs |-> xs[i].means * ys[i].means]
        BY <4>1
      <4>3. \A i \in 1 .. Len(xs) : \E u, v \in Nat : Prods(xs, ys)[i] = u * v
        BY <4>1
      <4>4. SumUpTo(Len(xs), Prods(xs, ys)) \in Nat
        <5> HIDE DEF Prods
        <5> QED  BY <4>1, <4>3, SumOfProducts
      <4> QED  BY <4>1, <4>2, <4>4
    <3>3. Meant(xs, ys) = SumUpTo(Len(xs), Prods(xs, ys)) % R
      BY <3>2
    <3> HIDE DEF Prods, Meant
    <3>4. \/ Quits
          \/ Stores(gt, Pow(Gen, SumUpTo(Len(xs), Prods(xs, ys)) % R), Meant(xs, ys))
      BY <1>4, <2>2, <3>2, StoreIs DEF Borrowing, Ends, Quits, Bad
    <3>5. Denotes(gt, Pow(Gen, SumUpTo(Len(xs), Prods(xs, ys)) % R), Meant(xs, ys))
      BY <1>2, <3>1, <3>2, <3>3, PowerDenotes
    <3> QED  BY <1>2, <3>4, <3>5 DEF Outcome
  <2> QED  BY <2>1, <2>2
<1>5. CASE Quits
  BY <1>5 DEF Outcome
<1> QED  BY <1>3, <1>4, <1>5

LEMMA HashToDoes ==
  ASSUME hash_to_internal
  PROVE  Outcome
<1>1. PICK s \in Structure, suite \in Structure :
        Call(/\ NativesOn /\ CurveOn(s)
             /\ s = suite /\ s \in {<<"BLS12381", "G1">>, <<"BLS12381", "G2">>},
             {}, \E v \in 0 .. R - 1 : Store(s, v, v))
  BY DEF hash_to_internal
<1>2. \/ Quits
      \/ /\ s \in {<<"BLS12381", "G1">>, <<"BLS12381", "G2">>}
         /\ \E v \in 0 .. R - 1 : Stores(s, v, v)
  BY <1>1, StoreIs DEF Call, Borrowing, Ends, Quits, Bad
<1>3. ASSUME s \in {<<"BLS12381", "G1">>, <<"BLS12381", "G2">>}, NEW v \in 0 .. R - 1
      PROVE  Denotes(s, v, v)
  <2>1. ~IsGt(s) /\ Modulus(s) = R
    BY <1>3 DEF Modulus, IsGt
  <2> QED  BY <2>1, DenotesItself
<1> QED  BY <1>2, <1>3 DEF Outcome
LEMMA SerializeDoes ==
  ASSUME AlgebraIInv, serialize_internal
  PROVE  Outcome
<1>1. PICK s \in Structure, f \in Format : \E x \in Handles(s) :
        Call(NativesOn /\ CurveOn(f[1]) /\ f[1] = s, {x},
             Returns(Parse(f, Write(f, Val(x)))
                       = [ok |-> TRUE, val |-> Represents(s, x.means)], TRUE))
  BY DEF serialize_internal
<1>2. PICK x \in Handles(s) :
        Call(NativesOn /\ CurveOn(f[1]) /\ f[1] = s, {x},
             Returns(Parse(f, Write(f, Val(x)))
                       = [ok |-> TRUE, val |-> Represents(s, x.means)], TRUE))
  BY <1>1
<1>3. Borrowable(x) /\ Denotes(s, Val(x), x.means)
  BY HeldIs
<1>4. f[1] = s =>
        Parse(f, Write(f, Val(x))) = [ok |-> TRUE, val |-> Represents(s, x.means)]
  BY <1>3, WrittenIsRead DEF Denotes
<1>5. Quits \/ Returned
  BY <1>2, <1>3, <1>4 DEF Call, Borrowing, Ends, Returns, Returned, Quits, Bad
<1> QED  BY <1>5 DEF Outcome

LEMMA DeserializeDoes ==
  ASSUME deserialize_internal
  PROVE  Outcome
<1>1. PICK s \in Structure, f \in Format :
        Call(NativesOn /\ CurveOn(f[1]) /\ f[1] = s, {}, \E b \in Bytes :
             LET read == Parse(f, b)
                 truth == b \in {Write(f, v) : v \in Carrier(s)}
             IN  IF read.ok
                 THEN StoreElement(s, read.val, Meaning(s, read.val), TRUE, truth)
                 ELSE Returns(FALSE, truth))
  BY DEF deserialize_internal
<1>2. \/ Quits
      \/ f[1] = s /\ \E b \in Bytes :
           LET read == Parse(f, b)
               truth == b \in {Write(f, v) : v \in Carrier(s)}
           IN  IF read.ok
               THEN StoreElement(s, read.val, Meaning(s, read.val), TRUE, truth)
               ELSE Returns(FALSE, truth)
  BY <1>1 DEF Call, Borrowing, Ends, Quits, Bad
<1>3. ASSUME f[1] = s, NEW b \in Bytes,
             LET read == Parse(f, b)
                 truth == b \in {Write(f, v) : v \in Carrier(s)}
             IN  IF read.ok
                 THEN StoreElement(s, read.val, Meaning(s, read.val), TRUE, truth)
                 ELSE Returns(FALSE, truth)
      PROVE  Outcome
  <2> DEFINE v == Parse(f, b).val
             truth == b \in {Write(f, w) : w \in Carrier(s)}
  <2>1. /\ Parse(f, b).ok <=> truth
        /\ Parse(f, b).ok => Denotes(s, v, Meaning(s, v))
    BY <1>3, ParseDenotes
  <2>2. CASE Parse(f, b).ok
    <3>1. TRUE = truth /\ StoreElement(s, v, Meaning(s, v), TRUE, truth)
      BY <1>3, <2>1, <2>2
    <3>2. Quits \/ Stores(s, v, Meaning(s, v))
      <4> HIDE DEF v, truth
      <4> QED  BY <3>1, StoreElementIs
    <3> QED  BY <2>1, <2>2, <3>2 DEF Outcome
  <2>3. CASE ~Parse(f, b).ok
    <3>1. ~truth
      BY <2>1, <2>3
    <3>2. FALSE = truth
      BY <3>1
    <3>3. Returns(FALSE, truth)
      BY <1>3, <2>3
    <3>4. Returned
      <4> HIDE DEF truth
      <4> QED  BY <3>2, <3>3, ReturnsIs
    <3> QED  BY <3>4 DEF Outcome
  <2> QED  BY <2>2, <2>3
<1>4. CASE Quits
  BY <1>4 DEF Outcome
<1> QED  BY <1>2, <1>3, <1>4

-----------------------------------------------------------------------------
(* Casts.  Gt shares the Rust type of Fq12, and a value of Fq12 whose power *)
(* R is 1 is a unit.                                                        *)

LEMMA RecastKeeps ==
  ASSUME AlgebraIInv, NEW x \in held, NEW s \in Structure, Recast(x, s),
         RustType(s) = RustType(x.s), Denotes(s, Val(x), Meaning(s, Val(x))),
         truthful' = TRUE, UNCHANGED <<flags, objs, bytes_used, status>>
  PROVE  AlgebraIInv'
<1>1. Sound(x)
  BY DEF AlgebraIInv
<1>2. PICK m : /\ held' = held \cup {[s |-> s, handle |-> x.handle, means |-> m]}
               /\ m = Meaning(s, Val(x))
  BY DEF Recast
<1>3. ASSUME NEW e \in held PROVE Sound(e)'
  BY DEF AlgebraIInv, Sound, Borrowable, Val
<1>4. ASSUME NEW e, e = [s |-> s, handle |-> x.handle, means |-> m] PROVE Sound(e)'
  <2>1. e.s = s /\ e.handle = x.handle /\ e.means = m
    BY <1>4
  <2> QED  BY <1>1, <1>2, <2>1 DEF Sound, Borrowable, Val
<1> QED  BY <1>2, <1>3, <1>4 DEF AlgebraIInv, Footprint

LEMMA CastIs ==
  ASSUME NEW super \in Structure, NEW sub \in Structure, Casts(super, sub)
  PROVE  /\ RustType(super) = RustType(sub)
         /\ IsGt(sub) /\ ~IsGt(super) /\ Modulus(super) = Q /\ Modulus(sub) = Q
BY DEF Casts, RustType, RustKind, IsGt, Modulus

\* The test of the downcast is exact.
LEMMA SubgroupIs ==
  ASSUME NEW s \in Structure, IsGt(s), NEW v \in 0 .. Q - 1
  PROVE  InSubgroup(v) <=> v \in Carrier(s)
<1>1. Carrier(s) = {Pow(Gen, i) : i \in 0 .. R - 1}
  BY DEF Carrier
<1>2. CASE v = 0
  <2>1. Pow(v, R) = 0
    BY <1>2, PowOfZero, Moduli
  <2>2. \A i \in 0 .. R - 1 : Pow(Gen, i) # 0
    <3>1. \A i \in 0 .. R - 1 : i \in Nat
      BY Moduli
    <3> QED  BY <3>1, GenIsUnit
  <2> QED  BY <1>1, <1>2, <2>1, <2>2 DEF InSubgroup
<1>3. CASE v # 0
  <2>1. v \in 1 .. Q - 1
    BY <1>3, Moduli
  <2> QED  BY <1>1, <2>1, SubgroupAssumption DEF InSubgroup
<1> QED  BY <1>2, <1>3

LEMMA UpcastKeeps ==
  ASSUME AlgebraIInv, upcast_internal
  PROVE  AlgebraIInv'
<1>1. PICK super \in Structure, sub \in Structure : \E x \in Handles(sub) :
        Call(NativesOn /\ Casts(super, sub), {},
             /\ Recast(x, super)
             /\ truthful' = TRUE
             /\ UNCHANGED <<flags, objs, bytes_used, status>>)
  BY DEF upcast_internal
<1>2. PICK x \in Handles(sub) :
        Call(NativesOn /\ Casts(super, sub), {},
             /\ Recast(x, super)
             /\ truthful' = TRUE
             /\ UNCHANGED <<flags, objs, bytes_used, status>>)
  BY <1>1
<1>3. x \in held /\ x.s = sub /\ ValueOK(sub, Val(x))
  BY HeldIs, DenotesOK DEF Handles
<1>4. \/ Quits
      \/ /\ Casts(super, sub) /\ Recast(x, super) /\ truthful' = TRUE
         /\ UNCHANGED <<flags, objs, bytes_used, status>>
  BY <1>2 DEF Call, Borrowing, Ends, Quits, Bad
<1>5. CASE Quits
  BY <1>5, QuitsKeeps
<1>6. CASE /\ Casts(super, sub) /\ Recast(x, super) /\ truthful' = TRUE
           /\ UNCHANGED <<flags, objs, bytes_used, status>>
  <2>1. RustType(super) = RustType(x.s) /\ ~IsGt(super) /\ ValueOK(super, Val(x))
    BY <1>3, <1>6, CastIs DEF ValueOK
  <2>2. Denotes(super, Val(x), Meaning(super, Val(x)))
    BY <2>1, MeaningDenotes
  <2> QED  BY <1>3, <1>6, <2>1, <2>2, RecastKeeps
<1> QED  BY <1>4, <1>5, <1>6

LEMMA DowncastKeeps ==
  ASSUME AlgebraIInv, downcast_internal
  PROVE  AlgebraIInv'
<1>1. PICK super \in Structure, sub \in Structure : \E x \in Handles(super) :
        Call(NativesOn /\ Casts(super, sub), {x},
             /\ truthful' = (InSubgroup(Val(x)) <=> Val(x) \in Carrier(sub))
             /\ IF InSubgroup(Val(x)) THEN Recast(x, sub) ELSE UNCHANGED held
             /\ UNCHANGED <<flags, objs, bytes_used, status>>)
  BY DEF downcast_internal
<1>2. PICK x \in Handles(super) :
        Call(NativesOn /\ Casts(super, sub), {x},
             /\ truthful' = (InSubgroup(Val(x)) <=> Val(x) \in Carrier(sub))
             /\ IF InSubgroup(Val(x)) THEN Recast(x, sub) ELSE UNCHANGED held
             /\ UNCHANGED <<flags, objs, bytes_used, status>>)
  BY <1>1
<1>3. x \in held /\ x.s = super /\ ValueOK(super, Val(x)) /\ Borrowable(x)
  BY HeldIs, DenotesOK DEF Handles
<1>4. \/ Quits
      \/ /\ Casts(super, sub)
         /\ truthful' = (InSubgroup(Val(x)) <=> Val(x) \in Carrier(sub))
         /\ IF InSubgroup(Val(x)) THEN Recast(x, sub) ELSE UNCHANGED held
         /\ UNCHANGED <<flags, objs, bytes_used, status>>
  BY <1>2, <1>3 DEF Call, Borrowing, Ends, Quits, Bad
<1>5. CASE Quits
  BY <1>5, QuitsKeeps
<1>6. ASSUME /\ Casts(super, sub)
             /\ truthful' = (InSubgroup(Val(x)) <=> Val(x) \in Carrier(sub))
             /\ IF InSubgroup(Val(x)) THEN Recast(x, sub) ELSE UNCHANGED held
             /\ UNCHANGED <<flags, objs, bytes_used, status>>
      PROVE  AlgebraIInv'
  <2>1. IsGt(sub) /\ Val(x) \in 0 .. Q - 1 /\ RustType(sub) = RustType(x.s)
    BY <1>3, <1>6, CastIs DEF ValueOK
  <2>2. InSubgroup(Val(x)) <=> Val(x) \in Carrier(sub)
    BY <2>1, SubgroupIs
  <2>3. truthful' = TRUE
    BY <1>6, <2>2
  <2>4. CASE InSubgroup(Val(x))
    <3>1. Val(x) # 0 /\ Modulus(sub) = Q
      BY <1>6, <2>4, PowOfZero, Moduli, CastIs DEF InSubgroup
    <3>2. ValueOK(sub, Val(x)) /\ Pow(Val(x), R) = 1
      BY <2>1, <2>4, <3>1 DEF ValueOK, InSubgroup
    <3>3. Denotes(sub, Val(x), Meaning(sub, Val(x)))
      BY <3>2, MeaningDenotes
    <3> QED  BY <1>3, <1>6, <2>1, <2>3, <2>4, <3>3, RecastKeeps
  <2>5. CASE ~InSubgroup(Val(x))
    <3>1. Returned
      BY <1>6, <2>3, <2>5 DEF Returned
    <3> QED  BY <3>1, ReturnedKeeps
  <2> QED  BY <2>4, <2>5
<1> QED  BY <1>4, <1>5, <1>6

-----------------------------------------------------------------------------
(* The session.                                                            *)

LEMMA EmptySession ==
  /\ SumUpTo(Len(<<>>), [i \in DOMAIN <<>> |-> SizeOf[<<>>[i].type[2]]]) = 0
  /\ <<>> \in Seq(Object) /\ 0 <= MemoryLimit
<1>1. SumUpTo(0, [i \in DOMAIN <<>> |-> SizeOf[<<>>[i].type[2]]]) = 0
  BY EmptyFootprint
<1>2. Len(<<>>) = 0 /\ <<>> \in Seq(Object)
  OBVIOUS
<1> QED  BY <1>1, <1>2, AlgebraAssumption

LEMMA AlgebraInitEstablishes == AlgebraInit => AlgebraIInv
<1> SUFFICES ASSUME AlgebraInit PROVE AlgebraIInv
  OBVIOUS
<1>1. /\ flags \subseteq Flag /\ held = {} /\ objs = <<>> /\ bytes_used = 0
      /\ status \notin Bad /\ truthful = TRUE
  BY DEF AlgebraInit, Bad
<1>2. bytes_used = Footprint
  BY <1>1, EmptySession DEF Footprint
<1> QED  BY <1>1, <1>2, EmptySession DEF AlgebraIInv

LEMMA NewSessionKeeps ==
  ASSUME NewSession
  PROVE  AlgebraIInv'
<1>1. /\ flags' \subseteq Flag /\ held' = {} /\ objs' = <<>> /\ bytes_used' = 0
      /\ status' \notin Bad /\ truthful' = TRUE
  BY DEF NewSession, Bad
<1>2. (bytes_used = Footprint)'
  BY <1>1, EmptySession DEF Footprint
<1> QED  BY <1>1, <1>2, EmptySession DEF AlgebraIInv

LEMMA AlgebraNextKeeps == AlgebraIInv /\ [AlgebraNext]_algebraVars => AlgebraIInv'
<1> SUFFICES ASSUME AlgebraIInv, [AlgebraNext]_algebraVars PROVE AlgebraIInv'
  OBVIOUS
<1>1. CASE zero_internal \/ one_internal \/ order_internal \/ from_u64_internal
  <2>1. Outcome
    BY <1>1, ZeroDoes, OneDoes, OrderDoes, FromU64Does
  <2> QED  BY <2>1, OutcomeKeeps
<1>2. CASE \/ add_internal \/ sub_internal \/ neg_internal \/ double_internal
           \/ mul_internal \/ sqr_internal \/ div_internal \/ inv_internal
  <2>1. Outcome
    BY <1>2, AddDoes, SubDoes, NegDoes, DoubleDoes, MulDoes, SqrDoes, DivDoes, InvDoes
  <2> QED  BY <2>1, OutcomeKeeps
<1>3. CASE \/ eq_internal \/ scalar_mul_internal \/ multi_scalar_mul_internal
           \/ pairing_internal \/ multi_pairing_internal \/ hash_to_internal
           \/ serialize_internal \/ deserialize_internal
  <2>1. Outcome
    BY <1>3, EqDoes, ScalarMulDoes, MultiScalarMulDoes, PairingDoes, MultiPairingDoes,
       HashToDoes, SerializeDoes, DeserializeDoes
  <2> QED  BY <2>1, OutcomeKeeps
<1>4. CASE upcast_internal
  BY <1>4, UpcastKeeps
<1>5. CASE downcast_internal
  BY <1>5, DowncastKeeps
<1>6. CASE NewSession
  BY <1>6, NewSessionKeeps
<1>7. CASE UNCHANGED algebraVars
  <2>1. Returned
    BY <1>7 DEF algebraVars, Returned, AlgebraIInv
  <2> QED  BY <2>1, ReturnedKeeps
<1> QED  BY <1>1, <1>2, <1>3, <1>4, <1>5, <1>6, <1>7 DEF AlgebraNext

\* The invariant is inductive.
THEOREM AlgebraInvariant == AlgebraSpec => []AlgebraIInv
BY AlgebraInitEstablishes, AlgebraNextKeeps, PTL DEF AlgebraSpec

\* Whatever natives a Move program calls in whatever order, every element it got is
\* one it can use, the context has counted the memory of its objects, within the
\* limit, and no native panics or reports a violated invariant: the values behind
\* the handles of Gt are units of Fq12, so that the inverse a subtraction takes for
\* granted is there.
THEOREM HandlesStaySound == AlgebraSpec => []HandlesAreSound
<1>1. AlgebraIInv => HandlesAreSound
  BY DEF AlgebraIInv, HandlesAreSound, Sound, Bad
<1> QED  BY AlgebraInvariant, <1>1, PTL

\* Every element has the value of what it stands for by the operations of its
\* structure, also in Gt, where they are those of the units of Fq12, and what the
\* natives answer is true: equality, divisibility, order, membership of what is
\* cast down or read from bytes, and that serialized bytes are read back.
THEOREM AlwaysComputesTruly == AlgebraSpec => []ComputesTruly
<1>1. AlgebraIInv => ElementsDenote
  BY DEF AlgebraIInv, ElementsDenote, Sound, Denotes
<1>2. AlgebraIInv => truthful
  BY DEF AlgebraIInv
<1>3. AlgebraIInv => ComputesTruly
  BY <1>1, <1>2 DEF ComputesTruly
<1> QED  BY AlgebraInvariant, <1>3, PTL

-----------------------------------------------------------------------------
(* The signatures that a program gathers and what the natives say of them. *)

SignerList == Seq([key : CurvePoint, msg : Message])

SignaturesTypeOK ==
  /\ signers \in SignerList
  /\ \A i \in DOMAIN signers : ValidKey(signers[i].key)
  /\ signatures \in Seq([of : DOMAIN signers, sig : Encoding])
  /\ \A j, k \in DOMAIN signatures : signatures[j].of = signatures[k].of => j = k

\* What the natives said is true: the run checks it, and nothing more is needed.
SignaturesIInv == SignaturesTypeOK /\ VerdictsAreTrue

LEMMA GroupIs ==
  /\ GroupOrder \in Nat /\ GroupOrder > 1
  /\ \A m \in Message : m \in 1 .. GroupOrder - 1
  /\ \A a, b \in 1 .. GroupOrder - 1 : (a * b) % GroupOrder # 0
BY SignaturesAssumption, PrimeOrderAssumption

LEMMA PointIs ==
  ASSUME NEW p \in CurvePoint
  PROVE  /\ p.x \in 0 .. GroupOrder - 1 /\ p.x \in Int
         /\ p.outside \in 0 .. 1 /\ p.outside \in Int
         /\ p = [x |-> p.x, outside |-> p.outside]
         /\ p # Undecodable
<1>1. p.x \in 0 .. GroupOrder - 1 /\ p.outside \in 0 .. 1
  BY DEF CurvePoint
<1>2. p = [x |-> p.x, outside |-> p.outside]
  BY DEF CurvePoint
<1>3. "x" \in DOMAIN p /\ "x" \notin DOMAIN Undecodable
  BY <1>2 DEF Undecodable
<1> QED  BY <1>1, <1>2, <1>3, GroupIs

LEMMA EncodingIs ==
  ASSUME NEW p \in Encoding
  PROVE  p # Undecodable <=> p \in CurvePoint
BY PointIs DEF Encoding

LEMMA DivMod ==
  ASSUME NEW m \in Nat, m > 0, NEW a \in Int
  PROVE  \E j \in Int : a = m * j + (a % m) /\ a % m \in 0 .. m - 1
<1>1. a \div m \in Int /\ a = m * (a \div m) + (a % m) /\ a % m \in 0 .. m - 1
  OBVIOUS
<1> QED  BY <1>1

\* Two numbers that differ by less than the order differ modulo the order.
LEMMA OneApart ==
  ASSUME NEW m \in Nat, m > 0, NEW a \in Int,
         NEW v \in 0 .. m - 1, NEW w \in 0 .. m - 1, v # w
  PROVE  (a - w + v) % m # a % m
<1> SUFFICES ASSUME (a - w + v) % m = a % m PROVE FALSE
  OBVIOUS
<1>1. PICK j \in Int : a = m * j + (a % m) /\ a % m \in 0 .. m - 1
  BY DivMod
<1>2. PICK k \in Int : a - w + v = m * k + (a % m)
  <2>1. a - w + v \in Int
    OBVIOUS
  <2> QED  BY <2>1, DivMod
<1> DEFINE t == k - j
<1>3. t \in Int /\ m * t = m * k - m * j
  BY <1>1, <1>2
<1>4. v - w = m * t
  BY <1>1, <1>2, <1>3
<1> HIDE DEF t
<1>5. CASE t = 0
  BY <1>4, <1>5
<1>6. CASE t >= 1
  <2>1. m * t >= m
    BY <1>3, <1>6
  <2> QED  BY <1>4, <2>1
<1>7. CASE t <= -1
  <2>1. m * t <= -m
    BY <1>3, <1>7
  <2> QED  BY <1>4, <2>1
<1> QED  BY <1>3, <1>5, <1>6, <1>7

\* A sum of remainders.
LEMMA TotalRemainder ==
  ASSUME NEW S, IsFiniteSet(S), NEW f \in [S -> Int], NEW m \in Nat, m > 0
  PROVE  Total([i \in S |-> f[i] % m]) % m = Total(f) % m
<1> DEFINE q == [i \in S |-> f[i] \div m]
           r == [i \in S |-> f[i] % m]
           mq == [i \in S |-> m * q[i]]
<1>1. q \in [S -> Int] /\ r \in [S -> Int]
  OBVIOUS
<1>2. ASSUME NEW i \in S PROVE f[i] = m * q[i] + r[i]
  <2>1. q[i] = f[i] \div m /\ r[i] = f[i] % m /\ f[i] \in Int
    OBVIOUS
  <2>2. ASSUME NEW a \in Int PROVE a = m * (a \div m) + (a % m)
    OBVIOUS
  <2> HIDE DEF q, r
  <2> QED  BY <2>1, <2>2
<1>3. \A i \in S : m * q[i] \in Int
  BY <1>1
<1> HIDE DEF q, r
<1>4. mq \in [S -> Int] /\ \A i \in S : f[i] = mq[i] + r[i]
  BY <1>2, <1>3
<1>5. f = [i \in S |-> mq[i] + r[i]]
  BY <1>4
<1>6. Total(mq) = m * Total(q)
  BY <1>1, TotalScale
<1> HIDE DEF mq
<1>7. Total(f) = Total(mq) + Total(r)
  BY <1>1, <1>4, <1>5, TotalAdd
<1>8. Total(q) \in Int /\ Total(r) \in Int
  BY <1>1, TotalInt
<1>9. PICK k \in Int : Total(r) = m * k + (Total(r) % m) /\ Total(r) % m \in 0 .. m - 1
  BY <1>8, DivMod
<1> DEFINE j == Total(q) + k
<1>10. j \in Int /\ m * j = m * Total(q) + m * k
  BY <1>8
<1> HIDE DEF j
<1>11. Total(f) = m * j + (Total(r) % m)
  <2>1. m * Total(q) \in Int /\ m * k \in Int
    BY <1>8, <1>9
  <2> QED  BY <1>6, <1>7, <1>8, <1>9, <1>10, <2>1
<1>12. Total(f) % m = Total(r) % m
  <2>1. Total(f) \in Int
    BY TotalInt
  <2> QED  BY <1>9, <1>10, <1>11, <2>1, RemainderIs
<1> QED  BY <1>12 DEF r

\* b places every x of T in S, where f has what c has there, and f has 0 elsewhere.
Placed(S, f, T, c, b) ==
  /\ IsFiniteSet(S) /\ f \in [S -> Int]
  /\ IsFiniteSet(T) /\ c \in [T -> Int] /\ b \in [T -> S]
  /\ \A x, y \in T : b[x] = b[y] => x = y
  /\ \A x \in T : f[b[x]] = c[x]
  /\ \A i \in S : (\A x \in T : b[x] # i) => f[i] = 0

\* A sum over some of a set, the others counting nothing.
LEMMA TotalPlaced ==
  ASSUME NEW S, NEW f, NEW T, NEW c, NEW b, Placed(S, f, T, c, b)
  PROVE  Total(f) = Total(c)
<1>0. /\ IsFiniteSet(S) /\ f \in [S -> Int]
      /\ IsFiniteSet(T) /\ c \in [T -> Int] /\ b \in [T -> S]
      /\ \A x, y \in T : b[x] = b[y] => x = y
      /\ \A x \in T : f[b[x]] = c[x]
      /\ \A i \in S : (\A x \in T : b[x] # i) => f[i] = 0
  BY DEF Placed
<1> DEFINE I == {b[x] : x \in T}
           g == [i \in I |-> f[i]]
<1>1. I \in SUBSET S /\ \A i \in S \ I : f[i] = 0
  BY <1>0
<1>2. IsFiniteSet(I)
  BY <1>0, <1>1, FS_Subset
<1>3. b \in [T -> I] /\ \A y \in I : \E x \in T : b[x] = y
  BY <1>0
<1>4. g \in [I -> Int] /\ \A i \in I : g[i] = f[i]
  BY <1>0, <1>1
<1>5. Total(g) = Total(f)
  <2> HIDE DEF I
  <2> QED  BY <1>0, <1>1, TotalRestrict
<1> HIDE DEF g
<1>6. Total([x \in T |-> g[b[x]]]) = Total(g)
  <2> HIDE DEF I
  <2> QED  BY <1>0, <1>2, <1>3, <1>4, TotalReindex
<1>7. [x \in T |-> g[b[x]]] = c
  BY <1>0, <1>3, <1>4
<1> QED  BY <1>5, <1>6, <1>7

\* The largest number of a set.
LEMMA LargestExists ==
  ASSUME NEW n \in Nat, NEW S \in SUBSET (0 .. n), S # {}
  PROVE  Max(S) \in S /\ \A k \in S : Max(S) >= k
<1> DEFINE T == {i \in Nat : \A U \in SUBSET (0 .. i) :
                               U # {} => \E x \in U : \A k \in U : x >= k}
<1>1. 0 \in T
  <2>1. ASSUME NEW U \in SUBSET (0 .. 0), U # {}
        PROVE  \E x \in U : \A k \in U : x >= k
    <3>1. \A k \in U : k = 0
      OBVIOUS
    <3>2. PICK x : x \in U
      BY <2>1
    <3>3. \A k \in U : x >= k
      BY <3>1, <3>2
    <3> QED  BY <3>2, <3>3
  <2> QED  BY <2>1
<1>2. ASSUME NEW i \in T PROVE i + 1 \in T
  <2>1. ASSUME NEW U \in SUBSET (0 .. i + 1), U # {}
        PROVE  \E x \in U : \A k \in U : x >= k
    <3>1. CASE i + 1 \in U
      BY <3>1
    <3>2. CASE i + 1 \notin U
      <4>1. U \in SUBSET (0 .. i)
        BY <3>2
      <4> QED  BY <2>1, <4>1
    <3> QED  BY <3>1, <3>2
  <2> QED  BY <2>1
<1>3. n \in T
  <2> HIDE DEF T
  <2>1. T \in SUBSET Nat
    BY DEF T
  <2> QED  BY <1>1, <1>2, <2>1, NatSetInduction
<1>4. \E x \in S : \A k \in S : x >= k
  BY <1>3
<1> QED  BY <1>4 DEF Max

LEMMA DeserializedIs ==
  ASSUME NEW all \in Seq(Encoding)
  PROVE  /\ Len(Deserialized(all)) = Len(all) <=> \A i \in DOMAIN all : all[i] \in CurvePoint
         /\ Len(Deserialized(all)) = Len(all) => Deserialized(all) = all
<1> DEFINE good == {n \in 0 .. Len(all) : \A i \in 1 .. n : all[i] # Undecodable}
           m == Max(good)
<1>1. Len(all) \in Nat /\ DOMAIN all = 1 .. Len(all) /\ good \in SUBSET (0 .. Len(all)) /\ 0 \in good
  OBVIOUS
<1>2. m \in good /\ \A k \in good : m >= k
  <2> HIDE DEF good
  <2>1. good # {}
    BY <1>1
  <2> QED  BY <1>1, <2>1, LargestExists
<1>3. m \in 0 .. Len(all) /\ \A i \in 1 .. m : all[i] # Undecodable
  BY <1>2
<1>4. m = Len(all) <=> \A i \in DOMAIN all : all[i] # Undecodable
  <2>1. ASSUME \A i \in DOMAIN all : all[i] # Undecodable PROVE m = Len(all)
    <3>1. Len(all) \in good
      BY <1>1, <2>1
    <3> HIDE DEF good
    <3> QED  BY <1>2, <1>3, <3>1
  <2> HIDE DEF m
  <2> QED  BY <1>1, <1>3, <2>1
<1>5. \A i \in DOMAIN all : all[i] \in Encoding
  OBVIOUS
<1>6. Deserialized(all) = SubSeq(all, 1, m)
  BY DEF Deserialized
<1> HIDE DEF m
<1>7. Len(SubSeq(all, 1, m)) = m /\ \A i \in 1 .. m : SubSeq(all, 1, m)[i] = all[i]
  BY <1>3, SubSeqProperties
<1>8. m = Len(all) => SubSeq(all, 1, m) = all
  BY <1>1, <1>3
<1> QED  BY <1>4, <1>5, <1>6, <1>7, <1>8, EncodingIs

LEMMA AggregateIs ==
  ASSUME NEW all \in Seq(Encoding)
  PROVE  /\ Aggregate(all).ok \in BOOLEAN
         /\ Aggregate(all).ok <=> all # <<>> /\ \A i \in DOMAIN all : all[i] \in CurvePoint
         /\ Aggregate(all).ok => Aggregate(all).bytes = Summed(all)
<1>1. CASE all = <<>> \/ Len(Deserialized(all)) # Len(all)
  BY <1>1, DeserializedIs DEF Aggregate, Failed
<1>2. CASE ~(all = <<>> \/ Len(Deserialized(all)) # Len(all))
  <2>1. Deserialized(all) = all
    BY <1>2, DeserializedIs
  <2>2. Aggregate(all) = [bytes |-> Summed(all), ok |-> TRUE]
    BY <1>2, <2>1, Zenon DEF Aggregate
  <2> QED  BY <1>2, <2>2, DeserializedIs
<1> QED  BY <1>1, <1>2

\* What the coordinates of a sum are.
LEMMA SummedIs ==
  ASSUME NEW n \in Nat, NEW pts \in [1 .. n -> CurvePoint]
  PROVE  /\ [i \in 1 .. n |-> pts[i].x] \in [1 .. n -> Int]
         /\ [i \in 1 .. n |-> pts[i].outside] \in [1 .. n -> Int]
         /\ Summed(pts) \in CurvePoint
         /\ Summed(pts).x = Total([i \in 1 .. n |-> pts[i].x]) % GroupOrder
         /\ Summed(pts).outside = Total([i \in 1 .. n |-> pts[i].outside]) % 2
<1> DEFINE f == [i \in 1 .. n |-> pts[i].x]
           g == [i \in 1 .. n |-> pts[i].outside]
<1>1. f \in [1 .. n -> Int] /\ g \in [1 .. n -> Int]
  BY PointIs
<1>2. DOMAIN pts = 1 .. n /\ IsFiniteSet(1 .. n)
  BY FS_Interval
<1>3. Summed(pts) = [x |-> Total(f) % GroupOrder, outside |-> Total(g) % 2]
  BY <1>2 DEF Summed
<1> HIDE DEF f, g
<1>4. Total(f) \in Int /\ Total(g) \in Int
  BY <1>1, <1>2, TotalInt
<1>5. Total(f) % GroupOrder \in 0 .. GroupOrder - 1
  BY <1>4, GroupIs
<1>6. Total(g) % 2 \in 0 .. 1
  BY <1>4
<1>7. Summed(pts) \in CurvePoint
  BY <1>3, <1>5, <1>6 DEF CurvePoint
<1> QED  BY <1>1, <1>3, <1>7 DEF f, g

\* What each signer's own signature has inside the subgroup, and what was gathered.
Own == [i \in DOMAIN signers |-> (signers[i].msg * signers[i].key.x) % GroupOrder]
Given == [j \in DOMAIN signatures |-> signatures[j].sig]
GivenX == [j \in DOMAIN signatures |-> signatures[j].sig.x]
GivenOutside == [j \in DOMAIN signatures |-> signatures[j].sig.outside]
AllDecode == \A j \in DOMAIN signatures : signatures[j].sig \in CurvePoint

\* What a multisignature and an aggregate signature are compared with.
Accepted == /\ Gathered.ok /\ Gathered.bytes.outside = 0
            /\ Gathered.bytes.x = Total(Own) % GroupOrder

LEMMA ElementsOfSeq ==
  ASSUME NEW S, NEW s \in Seq(S)
  PROVE  /\ Len(s) \in Nat /\ DOMAIN s = 1 .. Len(s)
         /\ \A i \in DOMAIN s : s[i] \in S
         /\ s = <<>> <=> DOMAIN s = {}
OBVIOUS

LEMMA SignersAre ==
  ASSUME SignaturesTypeOK
  PROVE  /\ Len(signers) \in Nat /\ DOMAIN signers = 1 .. Len(signers)
         /\ signers = <<>> <=> DOMAIN signers = {}
         /\ \A i \in DOMAIN signers :
              /\ signers[i].key \in CurvePoint /\ ValidKey(signers[i].key)
              /\ signers[i].msg \in Message
<1> DEFINE S == [key : CurvePoint, msg : Message]
<1>1. \A r \in S : r.key \in CurvePoint /\ r.msg \in Message
  OBVIOUS
<1>2. signers \in Seq(S) /\ \A i \in DOMAIN signers : ValidKey(signers[i].key)
  BY Zenon DEF SignaturesTypeOK, SignerList
<1> HIDE DEF S
<1> QED  BY <1>1, <1>2, ElementsOfSeq

LEMMA SignaturesAre ==
  ASSUME SignaturesTypeOK
  PROVE  /\ Len(signatures) \in Nat /\ DOMAIN signatures = 1 .. Len(signatures)
         /\ signatures = <<>> <=> DOMAIN signatures = {}
         /\ \A j \in DOMAIN signatures :
              signatures[j].of \in DOMAIN signers /\ signatures[j].sig \in Encoding
         /\ \A j, k \in DOMAIN signatures : signatures[j].of = signatures[k].of => j = k
<1> DEFINE S == [of : DOMAIN signers, sig : Encoding]
<1>1. \A r \in S : r.of \in DOMAIN signers /\ r.sig \in Encoding
  OBVIOUS
<1>2. /\ signatures \in Seq(S)
      /\ \A j, k \in DOMAIN signatures : signatures[j].of = signatures[k].of => j = k
  BY Zenon DEF SignaturesTypeOK
<1> HIDE DEF S
<1> QED  BY <1>1, <1>2, ElementsOfSeq

LEMMA ListsOfSigners ==
  ASSUME SignaturesTypeOK
  PROVE  /\ Len(signers) \in Nat /\ DOMAIN signers = 1 .. Len(signers)
         /\ Len(signatures) \in Nat /\ DOMAIN signatures = 1 .. Len(signatures)
         /\ IsFiniteSet(DOMAIN signers) /\ IsFiniteSet(DOMAIN signatures)
         /\ (signers = <<>> <=> DOMAIN signers = {})
         /\ (signatures = <<>> <=> DOMAIN signatures = {})
         /\ Keys \in Seq(CurvePoint) /\ Keys \in [1 .. Len(signers) -> CurvePoint]
         /\ Given \in Seq(Encoding)
<1>1. /\ Len(signers) \in Nat /\ DOMAIN signers = 1 .. Len(signers)
      /\ \A i \in DOMAIN signers : signers[i].key \in CurvePoint
  BY SignersAre
<1>2. /\ Len(signatures) \in Nat /\ DOMAIN signatures = 1 .. Len(signatures)
      /\ \A j \in DOMAIN signatures : signatures[j].sig \in Encoding
  BY SignaturesAre
<1>3. IsFiniteSet(DOMAIN signers) /\ IsFiniteSet(DOMAIN signatures)
  BY <1>1, <1>2, FS_Interval
<1>4. signers = <<>> <=> DOMAIN signers = {}
  BY SignersAre
<1>5. signatures = <<>> <=> DOMAIN signatures = {}
  BY SignaturesAre
<1>6. Keys \in [1 .. Len(signers) -> CurvePoint]
  BY <1>1 DEF Keys
<1>7. Given \in [1 .. Len(signatures) -> Encoding]
  BY <1>2 DEF Given
<1>8. Keys \in Seq(CurvePoint)
  BY <1>1, <1>6
<1>9. Given \in Seq(Encoding)
  BY <1>2, <1>7
<1> QED  BY <1>1, <1>2, <1>3, <1>4, <1>5, <1>6, <1>8, <1>9

LEMMA OwnIs ==
  ASSUME SignaturesTypeOK, NEW i \in DOMAIN signers
  PROVE  /\ Own[i] \in 1 .. GroupOrder - 1
         /\ SignatureOf(signers[i].key.x, signers[i].msg) = [x |-> Own[i], outside |-> 0]
<1> DEFINE k == signers[i].key.x
           m == signers[i].msg
<1>1. signers[i].key \in CurvePoint /\ m \in Message /\ ValidKey(signers[i].key)
  BY SignersAre
<1>2. k \in 1 .. GroupOrder - 1 /\ m \in 1 .. GroupOrder - 1
  BY <1>1, PointIs, GroupIs DEF ValidKey
<1>3. Own[i] = (m * k) % GroupOrder
  BY DEF Own
<1>4. SignatureOf(k, m) = [x |-> (m * k) % GroupOrder, outside |-> (m * 0) % 2]
  BY DEF SignatureOf, Scaled, PublicKeyOf
<1> HIDE DEF k, m
<1>5. (m * k) % GroupOrder # 0 /\ m * k \in Int
  BY <1>2, GroupIs
<1>6. (m * k) % GroupOrder \in 0 .. GroupOrder - 1
  BY <1>5, GroupIs
<1>7. (m * 0) % 2 = 0
  BY <1>2
<1> QED  BY <1>3, <1>4, <1>5, <1>6, <1>7, GroupIs DEF k, m

LEMMA OwnTotal ==
  ASSUME SignaturesTypeOK
  PROVE  Own \in [DOMAIN signers -> Int] /\ Total(Own) \in Int
<1>1. ASSUME NEW i \in DOMAIN signers PROVE Own[i] \in Int
  <2>1. Own[i] \in 1 .. GroupOrder - 1
    BY OwnIs
  <2> QED  BY <2>1, GroupIs
<1>2. Own \in [DOMAIN signers -> Int]
  BY <1>1 DEF Own
<1> QED  BY <1>2, ListsOfSigners, TotalInt

LEMMA GatheredIs ==
  ASSUME SignaturesTypeOK
  PROVE  /\ Gathered.ok \in BOOLEAN
         /\ Gathered.ok <=> signatures # <<>> /\ AllDecode
         /\ AllDecode => /\ GivenX \in [DOMAIN signatures -> Int]
                         /\ GivenOutside \in [DOMAIN signatures -> Int]
         /\ Gathered.ok => /\ Gathered.bytes \in CurvePoint
                           /\ Gathered.bytes.x = Total(GivenX) % GroupOrder
                           /\ Gathered.bytes.outside = Total(GivenOutside) % 2
<1>1. Given \in Seq(Encoding) /\ DOMAIN Given = DOMAIN signatures
  BY ListsOfSigners DEF Given
<1>2. Given = <<>> <=> signatures = <<>>
  BY <1>1, ListsOfSigners
<1>3. (\A j \in DOMAIN Given : Given[j] \in CurvePoint) <=> AllDecode
  BY DEF Given, AllDecode
<1>4. Gathered = Aggregate(Given)
  BY DEF Gathered, Given
<1>5. /\ Gathered.ok \in BOOLEAN
      /\ Gathered.ok <=> signatures # <<>> /\ AllDecode
      /\ Gathered.ok => Gathered.bytes = Summed(Given)
  BY <1>1, <1>2, <1>3, <1>4, AggregateIs
<1>6. ASSUME AllDecode
      PROVE  /\ GivenX \in [DOMAIN signatures -> Int]
             /\ GivenOutside \in [DOMAIN signatures -> Int]
             /\ Summed(Given) \in CurvePoint
             /\ Summed(Given).x = Total(GivenX) % GroupOrder
             /\ Summed(Given).outside = Total(GivenOutside) % 2
  <2>1. Given \in [1 .. Len(signatures) -> CurvePoint]
    BY <1>6, ListsOfSigners DEF Given, AllDecode
  <2>2. GivenX = [j \in 1 .. Len(signatures) |-> Given[j].x]
    BY ListsOfSigners DEF GivenX, Given
  <2>3. GivenOutside = [j \in 1 .. Len(signatures) |-> Given[j].outside]
    BY ListsOfSigners DEF GivenOutside, Given
  <2>4. PICK n \in Nat : n = Len(signatures) /\ DOMAIN signatures = 1 .. n
    BY ListsOfSigners
  <2>5. Given \in [1 .. n -> CurvePoint]
    BY <2>1, <2>4
  <2>6. /\ [i \in 1 .. n |-> Given[i].x] \in [1 .. n -> Int]
        /\ [i \in 1 .. n |-> Given[i].outside] \in [1 .. n -> Int]
        /\ Summed(Given) \in CurvePoint
        /\ Summed(Given).x = Total([i \in 1 .. n |-> Given[i].x]) % GroupOrder
        /\ Summed(Given).outside = Total([i \in 1 .. n |-> Given[i].outside]) % 2
    BY <2>5, SummedIs
  <2>7. GivenX = [i \in 1 .. n |-> Given[i].x]
    BY <2>2, <2>4
  <2>8. GivenOutside = [i \in 1 .. n |-> Given[i].outside]
    BY <2>3, <2>4
  <2> QED  BY <2>4, <2>6, <2>7, <2>8
<1> QED  BY <1>5, <1>6

Changed(S, f, g, i, v) ==
  IsFiniteSet(S) /\ f \in [S -> Int] /\ i \in S /\ v \in Int /\ g = [f EXCEPT ![i] = v]

LEMMA TotalChanged ==
  ASSUME NEW S, NEW f, NEW g, NEW i, NEW v, Changed(S, f, g, i, v)
  PROVE  /\ Total(g) = Total(f) - f[i] + v /\ g \in [S -> Int] /\ g[i] = v
         /\ \A k \in S \ {i} : g[k] = f[k]
<1>1. /\ IsFiniteSet(S) /\ f \in [S -> Int] /\ i \in S /\ v \in Int
      /\ g = [f EXCEPT ![i] = v]
  BY DEF Changed
<1>2. Total(g) = Total(f) - f[i] + v
  <2>1. Total([f EXCEPT ![i] = v]) = Total(f) - f[i] + v
    BY <1>1, TotalUpdate, ZenonT(40)
  <2> QED  BY <1>1, <2>1
<1> QED  BY <1>1, <1>2

\* Every signer's own signature was gathered, in whatever order.
LEMMA CompleteIsAccepted ==
  ASSUME SignaturesTypeOK, signers # <<>>, Signed = DOMAIN signers
  PROVE  Accepted
<1> DEFINE b == [j \in DOMAIN signatures |-> signatures[j].of]
           zero == [i \in DOMAIN signers |-> 0]
<1>1. ASSUME NEW i \in DOMAIN signers
      PROVE  \E j \in DOMAIN signatures :
               signatures[j].of = i /\ signatures[j].sig = [x |-> Own[i], outside |-> 0]
  <2>1. i \in Signed
    OBVIOUS
  <2> QED  BY <2>1, OwnIs DEF Signed
<1>2. ASSUME NEW j \in DOMAIN signatures
      PROVE  /\ signatures[j].of \in DOMAIN signers
             /\ signatures[j].sig = [x |-> Own[signatures[j].of], outside |-> 0]
             /\ GivenX[j] = Own[signatures[j].of] /\ GivenOutside[j] = 0
  <2>1. signatures[j].of \in DOMAIN signers
    BY SignaturesAre
  <2>2. PICK k \in DOMAIN signatures :
               /\ signatures[k].of = signatures[j].of
               /\ signatures[k].sig = [x |-> Own[signatures[j].of], outside |-> 0]
    BY <1>1, <2>1
  <2>3. k = j
    BY <2>2, SignaturesAre
  <2>4. GivenX[j] = Own[signatures[j].of] /\ GivenOutside[j] = 0
    BY <2>2, <2>3 DEF GivenX, GivenOutside
  <2> QED  BY <2>1, <2>2, <2>3, <2>4
<1>3. AllDecode
  <2>1. ASSUME NEW j \in DOMAIN signatures PROVE signatures[j].sig \in CurvePoint
    <3>1. Own[signatures[j].of] \in 1 .. GroupOrder - 1
      BY <1>2, OwnIs
    <3>2. Own[signatures[j].of] \in 0 .. GroupOrder - 1
      BY <3>1, GroupIs
    <3>3. 0 \in 0 .. 1
      OBVIOUS
    <3>4. \A y \in 0 .. GroupOrder - 1 : [x |-> y, outside |-> 0] \in CurvePoint
      BY <3>3 DEF CurvePoint
    <3> QED  BY <1>2, <3>2, <3>4
  <2> QED  BY <2>1 DEF AllDecode
<1>4. signatures # <<>>
  <2>1. PICK i : i \in DOMAIN signers
    BY SignersAre
  <2> QED  BY <1>1, <2>1, SignaturesAre
<1>5. /\ b \in [DOMAIN signatures -> DOMAIN signers]
      /\ \A j, k \in DOMAIN signatures : b[j] = b[k] => j = k
      /\ \A i \in DOMAIN signers : \E j \in DOMAIN signatures : b[j] = i
      /\ \A j \in DOMAIN signatures : b[j] = signatures[j].of
  BY <1>1, <1>2, SignaturesAre
<1>6. ASSUME NEW j \in DOMAIN signatures
      PROVE  Own[b[j]] = GivenX[j] /\ zero[b[j]] = GivenOutside[j]
  <2>1. signatures[j].of \in DOMAIN signers /\ b[j] = signatures[j].of
    BY <1>2, <1>5
  <2>2. zero[b[j]] = 0
    BY <2>1
  <2> QED  BY <1>2, <2>1, <2>2
<1>7. zero \in [DOMAIN signers -> Int] /\ \A i \in DOMAIN signers : zero[i] = 0
  OBVIOUS
<1>8. /\ GivenX \in [DOMAIN signatures -> Int] /\ GivenOutside \in [DOMAIN signatures -> Int]
      /\ IsFiniteSet(DOMAIN signers) /\ IsFiniteSet(DOMAIN signatures)
  BY <1>3, GatheredIs, ListsOfSigners
<1> HIDE DEF b, zero
<1>9. Total(Own) = Total(GivenX) /\ Total(zero) = Total(GivenOutside)
  <2>1. PICK S, T : S = DOMAIN signers /\ T = DOMAIN signatures
    OBVIOUS
  <2>2. /\ IsFiniteSet(S) /\ Own \in [S -> Int] /\ zero \in [S -> Int]
        /\ IsFiniteSet(T) /\ GivenX \in [T -> Int] /\ GivenOutside \in [T -> Int]
        /\ b \in [T -> S]
    BY <1>5, <1>7, <1>8, <2>1, OwnTotal
  <2>3. \A j, k \in T : b[j] = b[k] => j = k
    BY <1>5, <2>1
  <2>4. \A j \in T : Own[b[j]] = GivenX[j]
    BY <1>6, <2>1
  <2>5. \A j \in T : zero[b[j]] = GivenOutside[j]
    BY <1>6, <2>1
  <2>6. \A i \in S : \E j \in T : b[j] = i
    BY <1>5, <2>1
  <2>7. \A i \in S : (\A j \in T : b[j] # i) => Own[i] = 0
    BY <2>6
  <2>8. \A i \in S : (\A j \in T : b[j] # i) => zero[i] = 0
    BY <2>6
  <2>9. Total(Own) = Total(GivenX)
    <3>1. Placed(S, Own, T, GivenX, b)
      BY <2>2, <2>3, <2>4, <2>7 DEF Placed
    <3> QED  BY <3>1, TotalPlaced
  <2>10. Total(zero) = Total(GivenOutside)
    <3>1. Placed(S, zero, T, GivenOutside, b)
      BY <2>2, <2>3, <2>5, <2>8 DEF Placed
    <3> QED  BY <3>1, TotalPlaced
  <2> QED  BY <2>9, <2>10
<1>11. Total(zero) = 0
  BY <1>7, <1>8, TotalZero
<1>12. Total(GivenOutside) % 2 = 0
  BY <1>9, <1>11
<1> QED  BY <1>3, <1>4, <1>9, <1>12, GatheredIs DEF Accepted

\* Exactly one signer's own signature is missing, or another was given for it.
LEMMA OneWrongIsRefused ==
  ASSUME SignaturesTypeOK, NEW i \in DOMAIN signers, Signed = DOMAIN signers \ {i}
  PROVE  ~Accepted
<1> SUFFICES ASSUME Accepted PROVE FALSE
  OBVIOUS
<1> DEFINE b == [j \in DOMAIN signatures |-> signatures[j].of]
           zero == [k \in DOMAIN signers |-> 0]
<1>1. AllDecode /\ Gathered.ok
  BY GatheredIs DEF Accepted
<1>2. /\ Total(GivenX) % GroupOrder = Total(Own) % GroupOrder
      /\ Total(GivenOutside) % 2 = 0
  BY <1>1, GatheredIs DEF Accepted
<1>3. /\ GivenX \in [DOMAIN signatures -> Int] /\ GivenOutside \in [DOMAIN signatures -> Int]
      /\ IsFiniteSet(DOMAIN signers) /\ IsFiniteSet(DOMAIN signatures)
  BY <1>1, GatheredIs, ListsOfSigners
<1>4. /\ b \in [DOMAIN signatures -> DOMAIN signers]
      /\ \A j, k \in DOMAIN signatures : b[j] = b[k] => j = k
      /\ \A j \in DOMAIN signatures : b[j] = signatures[j].of
  BY SignaturesAre
<1>5. ASSUME NEW k \in DOMAIN signers \ {i}
      PROVE  \E j \in DOMAIN signatures :
               b[j] = k /\ signatures[j].sig = [x |-> Own[k], outside |-> 0]
  <2>1. k \in Signed
    OBVIOUS
  <2> QED  BY <1>4, <2>1, OwnIs DEF Signed
<1>6. ASSUME NEW j \in DOMAIN signatures, b[j] # i
      PROVE  GivenX[j] = Own[b[j]] /\ GivenOutside[j] = 0
  <2>1. b[j] \in DOMAIN signers \ {i}
    BY <1>4, <1>6
  <2>2. PICK k \in DOMAIN signatures :
               b[k] = b[j] /\ signatures[k].sig = [x |-> Own[b[j]], outside |-> 0]
    BY <1>5, <2>1
  <2>3. k = j
    BY <1>4, <2>2
  <2> QED  BY <2>2, <2>3 DEF GivenX, GivenOutside
<1>7. Own \in [DOMAIN signers -> Int] /\ Own[i] \in 0 .. GroupOrder - 1 /\ Own[i] # 0
  <2>1. Own[i] \in 1 .. GroupOrder - 1
    BY OwnIs
  <2> QED  BY <2>1, OwnTotal, GroupIs
<1>8. zero \in [DOMAIN signers -> Int] /\ \A k \in DOMAIN signers : zero[k] = 0
  OBVIOUS
<1>a. PICK S, T : S = DOMAIN signers /\ T = DOMAIN signatures
  OBVIOUS
<1> HIDE DEF b, zero
<1>b. /\ IsFiniteSet(S) /\ Own \in [S -> Int] /\ zero \in [S -> Int] /\ i \in S
      /\ IsFiniteSet(T) /\ GivenX \in [T -> Int] /\ GivenOutside \in [T -> Int]
      /\ b \in [T -> S] /\ \A j, k \in T : b[j] = b[k] => j = k
  BY <1>3, <1>4, <1>7, <1>8, <1>a
\* What is gathered is all of it but that signer's part, v instead.
<1>9. ASSUME NEW v \in 0 .. GroupOrder - 1, v # Own[i],
             \A j \in DOMAIN signatures : b[j] = i => GivenX[j] = v,
             (\A j \in DOMAIN signatures : b[j] # i) => v = 0
      PROVE  FALSE
  <2> DEFINE f == [Own EXCEPT ![i] = v]
  <2>a. v \in Int
    BY GroupIs
  <2>b. f = [Own EXCEPT ![i] = v]
    OBVIOUS
  <2> HIDE DEF f
  <2>1. /\ Total(f) = Total(Own) - Own[i] + v /\ f \in [S -> Int] /\ f[i] = v
        /\ \A k \in S \ {i} : f[k] = Own[k]
    <3>1. Changed(S, Own, f, i, v)
      BY <1>b, <2>a, <2>b DEF Changed
    <3> QED  BY <3>1, TotalChanged
  <2>3. ASSUME NEW j \in T PROVE f[b[j]] = GivenX[j]
    <3>1. j \in DOMAIN signatures /\ b[j] \in S
      BY <1>a, <1>b
    <3> QED  BY <1>6, <1>9, <2>1, <3>1
  <2>4. ASSUME NEW k \in S, \A j \in T : b[j] # k
        PROVE  f[k] = 0
    <3>1. k = i
      BY <1>5, <1>a, <2>4
    <3> QED  BY <1>9, <1>a, <2>1, <2>4, <3>1
  <2>5. Total(f) = Total(GivenX)
    <3>1. Placed(S, f, T, GivenX, b)
      BY <1>b, <2>1, <2>3, <2>4 DEF Placed
    <3> QED  BY <3>1, TotalPlaced
  <2>6. GroupOrder \in Nat /\ GroupOrder > 0 /\ Total(Own) \in Int
    BY OwnTotal, GroupIs
  <2>7. (Total(Own) - Own[i] + v) % GroupOrder # Total(Own) % GroupOrder
    BY <1>7, <1>9, <2>6, OneApart
  <2> QED  BY <1>2, <2>1, <2>5, <2>7
<1>10. CASE \A j \in DOMAIN signatures : b[j] # i
  <2>1. 0 \in 0 .. GroupOrder - 1
    BY GroupIs
  <2> QED  BY <1>7, <1>9, <1>10, <2>1
<1>11. ASSUME NEW j \in DOMAIN signatures, b[j] = i PROVE FALSE
  <2>1. signatures[j].sig \in CurvePoint
    BY <1>1 DEF AllDecode
  <2>2. GivenX[j] = signatures[j].sig.x /\ GivenOutside[j] = signatures[j].sig.outside
    BY DEF GivenX, GivenOutside
  <2>3. GivenX[j] \in 0 .. GroupOrder - 1 /\ GivenOutside[j] \in 0 .. 1
    BY <2>1, <2>2, PointIs
  <2>4. \A k \in DOMAIN signatures : b[k] = i => k = j
    BY <1>4, <1>11
  <2>5. GivenX[j] = Own[i]
    BY <1>9, <1>11, <2>3, <2>4
  <2>6. CASE GivenOutside[j] = 0
    <3>1. signatures[j].sig = [x |-> Own[i], outside |-> 0]
      BY <2>1, <2>2, <2>5, <2>6, PointIs
    <3>2. signatures[j].of = i
      BY <1>4, <1>11
    <3>3. i \in Signed
      BY <3>1, <3>2, OwnIs DEF Signed
    <3> QED  BY <3>3
  <2>7. CASE GivenOutside[j] = 1
    <3> DEFINE f == [zero EXCEPT ![i] = 1]
    <3>a. f = [zero EXCEPT ![i] = 1] /\ 1 \in Int
      OBVIOUS
    <3> HIDE DEF f
    <3>1. /\ Total(f) = Total(zero) - zero[i] + 1 /\ f \in [S -> Int] /\ f[i] = 1
          /\ \A k \in S \ {i} : f[k] = zero[k]
      <4>1. Changed(S, zero, f, i, 1)
        BY <1>b, <3>a DEF Changed
      <4> QED  BY <4>1, TotalChanged
    <3>2. \A k \in S \ {i} : f[k] = 0
      BY <1>8, <1>a, <3>1
    <3>3. Total(zero) = 0 /\ zero[i] = 0
      BY <1>3, <1>8, TotalZero
    <3>4. ASSUME NEW k \in T PROVE f[b[k]] = GivenOutside[k]
      <4>1. k \in DOMAIN signatures /\ b[k] \in S
        BY <1>a, <1>b
      <4> QED  BY <1>6, <1>11, <2>4, <2>7, <3>1, <3>2, <4>1
    <3>5. ASSUME NEW k \in S, \A l \in T : b[l] # k
          PROVE  f[k] = 0
      BY <1>11, <1>a, <3>2, <3>5
    <3>6. Total(f) = Total(GivenOutside)
      <4>1. Placed(S, f, T, GivenOutside, b)
        BY <1>b, <3>1, <3>4, <3>5 DEF Placed
      <4> QED  BY <4>1, TotalPlaced
    <3>7. Total(GivenOutside) = 1
      BY <3>1, <3>3, <3>6
    <3> QED  BY <1>2, <3>7
  <2> QED  BY <2>3, <2>6, <2>7
<1> QED  BY <1>10, <1>11

LEMMA KeysSummed ==
  ASSUME SignaturesTypeOK, signers # <<>>
  PROVE  /\ Aggregate(Keys).bytes = Summed(Keys)
         /\ Summed(Keys) \in CurvePoint
         /\ \A i \in DOMAIN signers : Keys[i] = signers[i].key /\ Keys[i].x # 0
<1>1. Keys # <<>> /\ Keys \in Seq(Encoding) /\ \A i \in DOMAIN Keys : Keys[i] \in CurvePoint
  <2>1. Keys \in [1 .. Len(signers) -> CurvePoint] /\ Len(signers) \in Nat
    BY ListsOfSigners
  <2>2. Keys \in [1 .. Len(signers) -> Encoding]
    BY <2>1 DEF Encoding
  <2>3. Keys # <<>>
    <3>1. DOMAIN Keys = DOMAIN signers /\ DOMAIN signers # {}
      BY SignersAre DEF Keys
    <3> QED  BY <3>1
  <2> QED  BY <2>1, <2>2, <2>3
<1>2. Aggregate(Keys).bytes = Summed(Keys)
  BY <1>1, AggregateIs
<1>3. Summed(Keys) \in CurvePoint
  BY ListsOfSigners, SummedIs
<1>4. \A i \in DOMAIN signers : Keys[i] = signers[i].key /\ Keys[i].x # 0
  BY SignersAre DEF Keys, ValidKey
<1> QED  BY <1>2, <1>3, <1>4

\* One message: what the sum of the keys verifies is the sum of the signatures.
LEMMA MultisignatureIs ==
  ASSUME SignaturesTypeOK, signers # <<>>, NEW m \in Message,
         \A i \in DOMAIN signers : signers[i].msg = m
  PROVE  Gathered.ok /\ verify_multisignature(Gathered.bytes, Aggregate(Keys).bytes, m)
           <=> Summed(Keys).x # 0 /\ Accepted
<1> DEFINE D == DOMAIN signers
           k == [i \in D |-> Keys[i].x]
           mk == [i \in D |-> m * k[i]]
<1>1. m \in Int /\ GroupOrder \in Nat /\ GroupOrder > 0 /\ IsFiniteSet(D) /\ D = 1 .. Len(signers)
  BY GroupIs, ListsOfSigners
<1>2. k \in [D -> Int] /\ Summed(Keys).x = Total(k) % GroupOrder
  <2>1. Len(signers) \in Nat /\ Keys \in [1 .. Len(signers) -> CurvePoint]
    BY ListsOfSigners
  <2> QED  BY <1>1, <2>1, SummedIs
<1>3. \A i \in D : Own[i] = (m * k[i]) % GroupOrder
  BY KeysSummed DEF Own
<1> HIDE DEF k
<1>4. mk \in [D -> Int]
  <2>1. \A i \in D : k[i] \in Int /\ m * k[i] \in Int
    BY <1>1, <1>2
  <2> QED  BY <2>1
<1>5. Own = [i \in D |-> mk[i] % GroupOrder]
  BY <1>3 DEF Own
<1>6. Total(mk) = m * Total(k)
  BY <1>1, <1>2, TotalScale
<1> HIDE DEF mk
<1>7. Total([i \in D |-> mk[i] % GroupOrder]) % GroupOrder = Total(mk) % GroupOrder
  BY <1>1, <1>4, TotalRemainder
<1>8. Total(k) \in Int
  BY <1>1, <1>2, TotalInt
<1>9. (m * (Total(k) % GroupOrder)) % GroupOrder = (m * Total(k)) % GroupOrder
  <2>1. (m * (Total(k) % GroupOrder)) % GroupOrder = (Total(k) * m) % GroupOrder
    BY <1>1, <1>8, TimesRemainder
  <2>2. Total(k) * m = m * Total(k)
    BY <1>1, <1>8
  <2> QED  BY <2>1, <2>2
<1>10. (m * Summed(Keys).x) % GroupOrder = Total(Own) % GroupOrder
  BY <1>2, <1>5, <1>6, <1>7, <1>9
<1> HIDE DEF D
<1>11. /\ Aggregate(Keys).bytes = Summed(Keys)
       /\ Summed(Keys) \in CurvePoint /\ Summed(Keys) # Undecodable
       /\ [Summed(Keys) EXCEPT !.outside = 0].x = Summed(Keys).x
  BY KeysSummed, PointIs
<1>12. Gathered.ok => Gathered.bytes \in CurvePoint /\ Gathered.bytes # Undecodable
  BY GatheredIs, PointIs
<1> QED  BY <1>10, <1>11, <1>12
         DEF verify_multisignature, verify_signature_helper, Verifies, SigInSubgroup, Accepted

\* A message for each: there must be as many.
LEMMA AggregateSignatureIs ==
  ASSUME SignaturesTypeOK, signers # <<>>, NEW n \in 0 .. Len(signers),
         NEW ms, ms = SubSeq(Messages, 1, n)
  PROVE  Gathered.ok /\ verify_aggregate_signature(Gathered.bytes, Keys, ms)
           <=> Len(ms) = Len(signers) /\ Accepted
<1>1. Len(signers) \in Nat /\ DOMAIN signers = 1 .. Len(signers) /\ DOMAIN signers # {}
  BY SignersAre
<1>2. \A i \in 1 .. n : Messages[i] = signers[i].msg /\ Messages[i] \in Message
  BY <1>1, SignersAre DEF Messages
<1>3. Len(ms) = n /\ \A i \in 1 .. n : ms[i] = signers[i].msg
  <2>1. Len(SubSeq(Messages, 1, n)) = n
        /\ \A i \in 1 .. n : SubSeq(Messages, 1, n)[i] = Messages[i]
    BY <1>2, SubSeqProperties
  <2> QED  BY <1>2, <2>1
<1>4. Keys \in Seq(CurvePoint) /\ Len(Keys) = Len(signers) /\ DOMAIN Keys = DOMAIN signers
      /\ Keys \in Seq(Encoding) /\ \A i \in DOMAIN Keys : Keys[i] \in CurvePoint
  <2>1. Keys \in [1 .. Len(signers) -> CurvePoint]
    BY ListsOfSigners
  <2>2. Keys \in [1 .. Len(signers) -> Encoding]
    BY <2>1 DEF Encoding
  <2> QED  BY <1>1, <2>1, <2>2
<1>5. Len(Deserialized(Keys)) = Len(Keys)
  BY <1>4, DeserializedIs
<1>6. Keys # <<>> /\ \A i \in DOMAIN Keys : Keys[i].x # 0
  BY <1>1, <1>4, KeysSummed
<1>7. Gathered.ok => Gathered.bytes \in CurvePoint /\ Gathered.bytes # Undecodable
  BY GatheredIs, PointIs
<1>8. CASE n = Len(signers)
  <2> DEFINE scaled == [i \in DOMAIN Keys |-> Scaled(ms[i], Keys[i])]
  <2>1. ASSUME NEW i \in 1 .. Len(signers)
        PROVE  scaled[i].x = Own[i] /\ scaled[i] \in CurvePoint
    <3>1. scaled[i] = Scaled(signers[i].msg, signers[i].key)
      BY <1>1, <1>3, <1>4, <1>8, KeysSummed
    <3>2. signers[i].msg \in Int /\ signers[i].key.x \in Int /\ signers[i].key.outside \in Int
      BY <1>1, SignersAre, PointIs, GroupIs
    <3> HIDE DEF scaled
    <3>a. scaled[i] = [x |-> (signers[i].msg * signers[i].key.x) % GroupOrder,
                       outside |-> (signers[i].msg * signers[i].key.outside) % 2]
      BY <3>1 DEF Scaled
    <3>b. Own[i] = (signers[i].msg * signers[i].key.x) % GroupOrder
      BY <1>1 DEF Own
    <3>3. scaled[i].x = Own[i]
      BY <3>a, <3>b
    <3>4. \A a, b \in Int : a * b \in Int
      OBVIOUS
    <3>5. \A a \in Int : a % GroupOrder \in 0 .. GroupOrder - 1 /\ a % 2 \in 0 .. 1
      BY GroupIs
    <3>6. scaled[i] \in CurvePoint
      <4>1. /\ (signers[i].msg * signers[i].key.x) % GroupOrder \in 0 .. GroupOrder - 1
            /\ (signers[i].msg * signers[i].key.outside) % 2 \in 0 .. 1
        BY <3>2, <3>4, <3>5
      <4>2. \A y \in 0 .. GroupOrder - 1, z \in 0 .. 1 :
              [x |-> y, outside |-> z] \in CurvePoint
        BY DEF CurvePoint
      <4> QED  BY <3>a, <4>1, <4>2
    <3> QED  BY <3>3, <3>6
  <2>2. scaled \in [1 .. Len(signers) -> CurvePoint]
    BY <1>1, <1>4, <2>1
  <2>3. [i \in 1 .. Len(signers) |-> scaled[i].x] = Own
    BY <1>1, <2>1 DEF Own
  <2>4. Summed(scaled).x = Total(Own) % GroupOrder
    <3> HIDE DEF scaled
    <3> QED  BY <1>1, <2>2, <2>3, SummedIs
  <2>5. VerifiesAggregate(Gathered.bytes, Keys, ms)
          <=> Gathered.bytes.outside = 0 /\ Gathered.bytes.x = Total(Own) % GroupOrder
    BY <1>6, <2>4 DEF VerifiesAggregate, SigInSubgroup
  <2> QED  BY <1>3, <1>4, <1>5, <1>7, <1>8, <2>5 DEF verify_aggregate_signature, Accepted
<1>9. CASE n # Len(signers)
  BY <1>3, <1>4, <1>9 DEF verify_aggregate_signature
<1> QED  BY <1>8, <1>9

LEMMA WrongIs ==
  ASSUME SignaturesTypeOK, Cardinality(DOMAIN signers \ Signed) = 1
  PROVE  ~Accepted
<1>1. IsFiniteSet(DOMAIN signers \ Signed)
  BY ListsOfSigners, FS_Subset
<1>2. PICK i : DOMAIN signers \ Signed = {i}
  BY <1>1, FS_Singleton
<1>3. Signed \subseteq DOMAIN signers
  BY DEF Signed
<1>4. i \in DOMAIN signers /\ Signed = DOMAIN signers \ {i}
  BY <1>2, <1>3
<1> QED  BY <1>4, OneWrongIsRefused

\* What the last native said, v, is true of what was gathered.
TrueOfGathered(v) ==
  v.of \in {"multisignature", "aggregate"} =>
    LET complete == Signed = DOMAIN signers /\ Summed(Keys).x # 0
        matched  == v.of = "aggregate" => v.all
    IN  /\ complete /\ matched => v.ok
        /\ Cardinality(DOMAIN signers \ Signed) = 1 \/ ~matched => ~v.ok

LEMMA SaysKeeps ==
  ASSUME SignaturesTypeOK, NEW v, Says(v), TrueOfGathered(v), ValidationSuffices'
  PROVE  SignaturesIInv'
<1>1. signers' = signers /\ signatures' = signatures /\ verdict' = v
  BY DEF Says
<1>2. SignaturesTypeOK'
  BY <1>1, Zenon DEF SignaturesTypeOK, SignerList
<1>3. Signed' = Signed /\ Keys' = Keys
  BY <1>1, Zenon DEF Signed, Keys
<1>4. AggregatesAreTrue'
  BY <1>1, <1>3, Zenon DEF AggregatesAreTrue, TrueOfGathered
<1> QED  BY <1>2, <1>4 DEF SignaturesIInv, VerdictsAreTrue

LEMMA NoVerdictIsTrue ==
  ASSUME verdict = NoVerdict
  PROVE  VerdictsAreTrue
<1>1. verdict.of = "none"
  BY DEF NoVerdict
<1> QED  BY <1>1 DEF VerdictsAreTrue, AggregatesAreTrue, ValidationSuffices

LEMMA AdmitKeeps ==
  ASSUME SignaturesIInv, NEW pk \in Encoding, NEW pop \in Encoding, NEW m \in Message,
         Admit(pk, pop, m)
  PROVE  SignaturesIInv'
<1> DEFINE r == [key |-> pk, msg |-> m]
           S == [key : CurvePoint, msg : Message]
<1>1. /\ pk \in CurvePoint /\ ValidKey(pk)
      /\ signers' = Append(signers, r) /\ verdict' = NoVerdict
      /\ signatures' = signatures /\ signatures = <<>>
  BY EncodingIs DEF Admit, verify_proof_of_possession
<1>2. r \in S /\ r.key = pk
  BY <1>1
<1>3. signers \in Seq(S) /\ \A i \in DOMAIN signers : ValidKey(signers[i].key)
  BY Zenon DEF SignaturesIInv, SignaturesTypeOK, SignerList
<1> HIDE DEF r, S
<1>4. signers' \in Seq(S) /\ \A i \in DOMAIN signers' : signers'[i] = r \/
                                (i \in DOMAIN signers /\ signers'[i] = signers[i])
  <2>1. \A i \in 1 .. Len(signers) + 1 :
          Append(signers, r)[i] = IF i = Len(signers) + 1 THEN r ELSE signers[i]
    BY <1>2, <1>3
  <2>2. Append(signers, r) \in Seq(S) /\ DOMAIN Append(signers, r) = 1 .. Len(signers) + 1
        /\ DOMAIN signers = 1 .. Len(signers) /\ Len(signers) \in Nat
    BY <1>2, <1>3
  <2> QED  BY <1>1, <2>1, <2>2
<1>5. \A i \in DOMAIN signers' : ValidKey(signers'[i].key)
  BY <1>1, <1>2, <1>3, <1>4
<1>6. signatures' \in Seq([of : DOMAIN signers', sig : Encoding])
      /\ \A j, k \in DOMAIN signatures' : signatures'[j].of = signatures'[k].of => j = k
  <2>1. signatures' = <<>>
    BY <1>1
  <2> QED  BY <2>1
<1>7. SignaturesTypeOK'
  BY <1>4, <1>5, <1>6, Zenon DEF SignaturesTypeOK, SignerList, S
<1>8. VerdictsAreTrue'
  <2>1. verdict'.of = "none"
    BY <1>1 DEF NoVerdict
  <2> QED  BY <2>1 DEF VerdictsAreTrue, AggregatesAreTrue, ValidationSuffices
<1> QED  BY <1>7, <1>8 DEF SignaturesIInv

LEMMA GatherKeeps ==
  ASSUME SignaturesIInv, NEW i \in DOMAIN signers, NEW sig \in Encoding,
         NEW checked \in BOOLEAN, Gather(i, sig, checked)
  PROVE  SignaturesIInv'
<1> DEFINE r == [of |-> i, sig |-> sig]
           S == [of : DOMAIN signers, sig : Encoding]
           n == Len(signatures)
<1>1. /\ \A j \in DOMAIN signatures : signatures[j].of # i
      /\ signatures' = Append(signatures, r) /\ verdict' = NoVerdict /\ signers' = signers
  BY DEF Gather
<1>2. r \in S /\ r.of = i
  OBVIOUS
<1>3. /\ signatures \in Seq(S) /\ signers \in SignerList
      /\ \A j \in DOMAIN signers : ValidKey(signers[j].key)
      /\ \A j, k \in DOMAIN signatures : signatures[j].of = signatures[k].of => j = k
  BY Zenon DEF SignaturesIInv, SignaturesTypeOK
<1> HIDE DEF r, S
<1>4. /\ signatures' \in Seq(S) /\ DOMAIN signatures' = 1 .. n + 1
      /\ n \in Nat /\ DOMAIN signatures = 1 .. n
      /\ signatures'[n + 1] = r /\ \A j \in 1 .. n : signatures'[j] = signatures[j]
  BY <1>1, <1>2, <1>3
<1> HIDE DEF n
<1>5. ASSUME NEW j \in DOMAIN signatures', NEW k \in DOMAIN signatures',
             signatures'[j].of = signatures'[k].of
      PROVE  j = k
  <2>1. \A l \in 1 .. n : signatures'[l].of # i
    BY <1>1, <1>4
  <2>2. signatures'[n + 1].of = i
    BY <1>2, <1>4
  <2>3. CASE j \in 1 .. n /\ k \in 1 .. n
    BY <1>3, <1>4, <1>5, <2>3
  <2>4. j \in 1 .. n \/ j = n + 1
    BY <1>4
  <2>5. k \in 1 .. n \/ k = n + 1
    BY <1>4
  <2> QED  BY <1>5, <2>1, <2>2, <2>3, <2>4, <2>5
<1>6. SignaturesTypeOK'
  BY <1>1, <1>3, <1>4, <1>5, Zenon DEF SignaturesTypeOK, SignerList, S
<1>7. VerdictsAreTrue'
  <2>1. verdict'.of = "none"
    BY <1>1 DEF NoVerdict
  <2> QED  BY <2>1 DEF VerdictsAreTrue, AggregatesAreTrue, ValidationSuffices
<1> QED  BY <1>6, <1>7 DEF SignaturesIInv

LEMMA CheckMultisignatureKeeps ==
  ASSUME SignaturesIInv, NEW m \in Message, CheckMultisignature(m)
  PROVE  SignaturesIInv'
<1> DEFINE ok == Gathered.ok /\ verify_multisignature(Gathered.bytes, Aggregate(Keys).bytes, m)
           v == [of |-> "multisignature", ok |-> ok]
<1>1. signers # <<>> /\ Says(v) /\ \A i \in DOMAIN signers : signers[i].msg = m
  BY DEF CheckMultisignature
<1>2. SignaturesTypeOK
  BY DEF SignaturesIInv
<1>3. ok <=> Summed(Keys).x # 0 /\ Accepted
  BY <1>1, <1>2, MultisignatureIs
<1> HIDE DEF ok
<1>4. v.of = "multisignature" /\ v.ok = ok /\ v.of # "aggregate"
  OBVIOUS
<1>5. TrueOfGathered(v)
  <2> HIDE DEF v
  <2>1. Signed = DOMAIN signers => Accepted
    BY <1>1, <1>2, CompleteIsAccepted
  <2>2. Cardinality(DOMAIN signers \ Signed) = 1 => ~Accepted
    BY <1>2, WrongIs
  <2> QED  BY <1>3, <1>4, <2>1, <2>2 DEF TrueOfGathered
<1>6. ValidationSuffices'
  <2>1. verdict'.of = "multisignature"
    BY <1>1, <1>4 DEF Says
  <2> QED  BY <2>1 DEF ValidationSuffices
<1> QED  BY <1>1, <1>2, <1>5, <1>6, SaysKeeps

LEMMA CheckAggregateKeeps ==
  ASSUME SignaturesIInv, NEW n \in 0 .. Len(signers), CheckAggregate(SubSeq(Messages, 1, n))
  PROVE  SignaturesIInv'
<1> DEFINE ms == SubSeq(Messages, 1, n)
           ok == Gathered.ok /\ verify_aggregate_signature(Gathered.bytes, Keys, ms)
           all == Len(ms) = Len(signers)
           v == [of |-> "aggregate", all |-> all, ok |-> ok]
<1>1. signers # <<>> /\ Says(v)
  BY DEF CheckAggregate
<1>2. SignaturesTypeOK
  BY DEF SignaturesIInv
<1>3. ok <=> all /\ Accepted
  <2> HIDE DEF ms
  <2>1. ms = SubSeq(Messages, 1, n)
    BY DEF ms
  <2> QED  BY <1>1, <1>2, <2>1, AggregateSignatureIs
<1> HIDE DEF ok, all
<1>4. v.of = "aggregate" /\ v.ok = ok /\ v.all = all
  OBVIOUS
<1>5. TrueOfGathered(v)
  <2> HIDE DEF v
  <2>1. Signed = DOMAIN signers => Accepted
    BY <1>1, <1>2, CompleteIsAccepted
  <2>2. Cardinality(DOMAIN signers \ Signed) = 1 => ~Accepted
    BY <1>2, WrongIs
  <2> QED  BY <1>3, <1>4, <2>1, <2>2 DEF TrueOfGathered
<1>6. ValidationSuffices'
  <2>1. verdict'.of = "aggregate"
    BY <1>1, <1>4 DEF Says
  <2> QED  BY <2>1 DEF ValidationSuffices
<1> QED  BY <1>1, <1>2, <1>5, <1>6, SaysKeeps

\* A verdict that is not about what was gathered.
LEMMA SaysOther ==
  ASSUME SignaturesIInv, NEW v, Says(v), v.of \notin {"multisignature", "aggregate"},
         ValidationSuffices'
  PROVE  SignaturesIInv'
<1>1. TrueOfGathered(v)
  BY DEF TrueOfGathered
<1> QED  BY <1>1, SaysKeeps DEF SignaturesIInv

LEMMA CheckNormalKeeps ==
  ASSUME SignaturesIInv, NEW pk \in Encoding, NEW sig \in Encoding, NEW m \in Message,
         CheckNormal(pk, sig, m)
  PROVE  SignaturesIInv'
<1> DEFINE valid == validate_pubkey(pk)
           subgroup == signature_subgroup_check(sig)
           ok == verify_normal_signature(sig, pk, m)
           v == [of |-> "normal", key |-> pk, sig |-> sig, msg |-> m,
                 valid |-> valid, subgroup |-> subgroup, ok |-> ok]
<1>1. Says(v)
  BY DEF CheckNormal
<1>2. ASSUME ok PROVE valid /\ subgroup
  <2>1. /\ pk # Undecodable /\ ValidKey(pk) /\ sig # Undecodable /\ SigInSubgroup(sig)
        /\ sig.x = (m * pk.x) % GroupOrder
    BY <1>2, EncodingIs, PointIs
    DEF verify_normal_signature, verify_signature_helper, Verifies
  <2>2. pk.x \in 1 .. GroupOrder - 1
    BY <2>1, EncodingIs, PointIs, GroupIs DEF ValidKey
  <2>3. (m * pk.x) % GroupOrder # 0
    BY <2>2, GroupIs
  <2> QED  BY <2>1, <2>3 DEF validate_pubkey, signature_subgroup_check
<1>3. ASSUME valid PROVE ok <=> sig = SignatureOf(pk.x, m)
  <2>1. pk \in CurvePoint /\ pk # Undecodable /\ ValidKey(pk) /\ pk.x # 0
        /\ [pk EXCEPT !.outside = 0].x = pk.x
    BY <1>3, EncodingIs, PointIs DEF validate_pubkey, ValidKey
  <2>2. SignatureOf(pk.x, m) = [x |-> (m * pk.x) % GroupOrder, outside |-> 0]
    <3>1. (m * 0) % 2 = 0
      <4>1. m \in Int
        BY GroupIs
      <4> QED  BY <4>1
    <3> QED  BY <3>1 DEF SignatureOf, Scaled, PublicKeyOf
  <2>3. ok <=> sig # Undecodable /\ sig.outside = 0 /\ sig.x = (m * pk.x) % GroupOrder
    BY <2>1 DEF verify_normal_signature, verify_signature_helper, Verifies, SigInSubgroup
  <2>4. CASE sig = Undecodable
    <3>1. "x" \in DOMAIN SignatureOf(pk.x, m) /\ "x" \notin DOMAIN Undecodable
      BY <2>2 DEF Undecodable
    <3> QED  BY <2>3, <2>4, <3>1
  <2>5. CASE sig # Undecodable
    <3>1. sig = [x |-> sig.x, outside |-> sig.outside]
      BY <2>5, EncodingIs, PointIs
    <3> QED  BY <2>2, <2>3, <2>5, <3>1
  <2> QED  BY <2>4, <2>5
<1> HIDE DEF valid, subgroup, ok
<1>4. /\ v.of = "normal" /\ v.key = pk /\ v.sig = sig /\ v.msg = m
      /\ v.valid = valid /\ v.subgroup = subgroup /\ v.ok = ok
  OBVIOUS
<1> HIDE DEF v
<1>5. verdict' = v
  BY <1>1 DEF Says
<1>6. ValidationSuffices'
  BY <1>2, <1>3, <1>4, <1>5 DEF ValidationSuffices
<1> QED  BY <1>1, <1>4, <1>6, SaysOther

LEMMA CheckEd25519Keeps ==
  ASSUME SignaturesIInv, NEW key \in SubKey \cup {"wrong length"}, CheckEd25519(key)
  PROVE  SignaturesIInv'
<1> DEFINE valid == ed25519_public_key_validate(key)
           ok == ed25519_signature_verify_strict("sound", key)
           v == [of |-> "ed25519", valid |-> valid, ok |-> ok]
<1>1. Says(v)
  BY DEF CheckEd25519
<1>2. ok <=> valid = "true"
  BY DEF ed25519_signature_verify_strict, ed25519_public_key_validate, SubKey
<1> HIDE DEF valid, ok
<1>3. v.of = "ed25519" /\ v.valid = valid /\ v.ok = ok
  OBVIOUS
<1> HIDE DEF v
<1>4. verdict' = v
  BY <1>1 DEF Says
<1>5. ValidationSuffices'
  BY <1>2, <1>3, <1>4 DEF ValidationSuffices
<1> QED  BY <1>1, <1>3, <1>5, SaysOther

\* The sub-keys that are valid are all of them, or those before the first that is not.
LEMMA ValidSubKeys ==
  ASSUME NEW subs, NEW n \in Nat, subs \in [1 .. n -> SubKey],
         NEW key, key.subs = subs, num_valid_subpks(key) = Len(subs)
  PROVE  Len(subs) = n /\ \A i \in 1 .. n : subs[i] = "sound"
<1> DEFINE good == {k \in 0 .. n : \A i \in 1 .. k : subs[i] = "sound"}
<1>1. Len(subs) = n
  OBVIOUS
<1>2. num_valid_subpks(key) = Max(good)
  BY <1>1 DEF num_valid_subpks
<1>3. good \in SUBSET (0 .. n) /\ 0 \in good
  OBVIOUS
<1>4. Max(good) \in good
  <2> HIDE DEF good
  <2>1. good # {}
    BY <1>3
  <2> QED  BY <1>3, <2>1, LargestExists
<1>5. n \in good
  BY <1>1, <1>2, <1>4
<1> QED  BY <1>1, <1>5

LEMMA FirstSigners ==
  ASSUME NEW n \in Nat, NEW t \in Nat, t > 0, t <= n
  PROVE  1 .. t # {} /\ (1 .. t) \subseteq 1 .. n
<1>1. 1 \in 1 .. t /\ \A i \in 1 .. t : i \in 1 .. n
  OBVIOUS
<1> QED  BY <1>1, Zenon

LEMMA CheckMultiEd25519Keeps ==
  ASSUME SignaturesIInv, NEW key \in MultiKey, key.tail # <<>>, CheckMultiEd25519(key)
  PROVE  SignaturesIInv'
<1> DEFINE by == 1 .. Last(key.tail)
           v1 == multi_public_key_validate(key)
           v2 == multi_public_key_validate_v2(key)
           ok == multi_signature_verify_strict([bitmap |-> by, by |-> by], key)
           v == [of |-> "multi_ed25519", v1 |-> v1, v2 |-> v2, ok |-> ok]
<1>1. Says(v)
  BY DEF CheckMultiEd25519
<1>2. ASSUME v2 PROVE v1 /\ ok
  <2>1. CheckAndGetThreshold(key) /\ num_valid_subpks(key) = Len(key.subs)
    BY <1>2 DEF multi_public_key_validate_v2
  <2>2. PICK n \in Nat : key.subs \in [1 .. n -> SubKey]
    <3>1. key.subs \in SeqOf(SubKey, MAX_NUM_OF_KEYS + 1) /\ MAX_NUM_OF_KEYS \in Nat
      BY SignaturesAssumption DEF MultiKey
    <3> QED  BY <3>1 DEF SeqOf
  <2>3. Len(key.subs) = n /\ \A i \in 1 .. n : key.subs[i] = "sound"
    BY <2>1, <2>2, ValidSubKeys
  <2>4. DOMAIN key.subs = 1 .. n
    BY <2>2
  <2>5. n \in 1 .. MAX_NUM_OF_KEYS /\ Len(key.tail) = 1 /\ Last(key.tail) \in 1 .. n
    BY <2>1, <2>3 DEF CheckAndGetThreshold
  <2>6. v1
    BY <2>1, <2>3, <2>5, SignaturesAssumption DEF multi_public_key_validate
  <2>7. by # {} /\ by \subseteq DOMAIN key.subs /\ Cardinality(by) = Last(key.tail)
    <3>1. PICK t : t = Last(key.tail)
      OBVIOUS
    <3>2. by = 1 .. t /\ t \in Nat /\ t > 0 /\ t <= n
      BY <2>5, <3>1
    <3> HIDE DEF by
    <3>3. by # {} /\ by \subseteq 1 .. n
      <4>1. 1 .. t # {} /\ (1 .. t) \subseteq 1 .. n
        BY <3>2, FirstSigners
      <4> QED  BY <3>2, <4>1, Zenon
    <3>4. Cardinality(by) = t
      <4>1. Cardinality(1 .. t) = IF 1 > t THEN 0 ELSE t - 1 + 1
        BY <3>2, FS_Interval
      <4> QED  BY <3>2, <4>1
    <3> QED  BY <2>4, <3>1, <3>3, <3>4
  <2>8. ok
    <3>1. \A i \in DOMAIN key.subs : key.subs[i] = "sound" /\ key.subs[i] # "off"
      BY <2>3, <2>4
    <3>2. Cardinality(by) >= Last(key.tail)
      BY <2>5, <2>7
    <3>3. \A i \in by : i \in by /\ key.subs[i] = "sound"
      BY <2>7, <3>1
    <3> HIDE DEF by
    <3> QED  BY <2>1, <2>7, <3>1, <3>2, <3>3 DEF multi_signature_verify_strict
  <2> QED  BY <2>6, <2>8
<1> HIDE DEF v1, v2, ok
<1>3. v.of = "multi_ed25519" /\ v.v1 = v1 /\ v.v2 = v2 /\ v.ok = ok
  OBVIOUS
<1> HIDE DEF v
<1>4. verdict' = v
  BY <1>1 DEF Says
<1>5. ValidationSuffices'
  BY <1>2, <1>3, <1>4 DEF ValidationSuffices
<1> QED  BY <1>1, <1>3, <1>5, SaysOther

LEMMA CheckRecoveryKeeps ==
  ASSUME SignaturesIInv, NEW id \in 0 .. 4,
         NEW sig \in {Undecodable} \cup [by : {"k"}, recovery_id : RecoveryIds],
         NEW exists \in BOOLEAN, CheckRecovery(sig, id, exists)
  PROVE  SignaturesIInv'
<1> DEFINE result == ecdsa_recover(sig, id, exists)
           v == [of |-> "ecdsa", sig |-> sig, id |-> id, result |-> result]
<1>1. Says(v)
  BY DEF CheckRecovery
<1>2. ASSUME sig # Undecodable
      PROVE  result = [key |-> sig.by, ok |-> TRUE] <=> id = sig.recovery_id
  <2>1. sig.by = "k" /\ sig.recovery_id \in RecoveryIds
    BY <1>2
  <2>2. CASE id \notin RecoveryIds
    <3>1. result = [abort |-> "NFE_DESERIALIZE"]
      BY <2>2 DEF ecdsa_recover
    <3>2. "ok" \notin DOMAIN result
      BY <3>1
    <3> HIDE DEF result
    <3>3. result # [key |-> sig.by, ok |-> TRUE]
      BY <3>2
    <3> QED  BY <2>1, <2>2, <3>3
  <2>3. CASE id \in RecoveryIds /\ id = sig.recovery_id
    BY <1>2, <2>3 DEF ecdsa_recover
  <2>4. CASE id \in RecoveryIds /\ id # sig.recovery_id
    <3>1. \/ result = [key |-> "another", ok |-> TRUE]
          \/ result = [key |-> "none", ok |-> FALSE]
      BY <1>2, <2>4 DEF ecdsa_recover
    <3>2. result.key # "k"
      BY <3>1
    <3> HIDE DEF result
    <3>3. result # [key |-> sig.by, ok |-> TRUE]
      BY <2>1, <3>2
    <3> QED  BY <2>4, <3>3
  <2> QED  BY <2>2, <2>3, <2>4
<1> HIDE DEF result
<1>3. v.of = "ecdsa" /\ v.sig = sig /\ v.id = id /\ v.result = result
  OBVIOUS
<1> HIDE DEF v
<1>4. verdict' = v
  BY <1>1 DEF Says
<1>5. ValidationSuffices'
  BY <1>2, <1>3, <1>4 DEF ValidationSuffices
<1> QED  BY <1>1, <1>3, <1>5, SaysOther

LEMMA SignaturesInitEstablishes == SignaturesInit => SignaturesIInv
<1> SUFFICES ASSUME SignaturesInit PROVE SignaturesIInv
  OBVIOUS
<1>1. signers = <<>> /\ signatures = <<>> /\ verdict = NoVerdict
  BY DEF SignaturesInit
<1>2. SignaturesTypeOK
  BY <1>1 DEF SignaturesTypeOK, SignerList
<1> QED  BY <1>1, <1>2, NoVerdictIsTrue DEF SignaturesIInv

LEMMA SignaturesNextKeeps == SignaturesIInv /\ [SignaturesNext]_signatureVars => SignaturesIInv'
<1> SUFFICES ASSUME SignaturesIInv, [SignaturesNext]_signatureVars PROVE SignaturesIInv'
  OBVIOUS
<1>1. CASE \E pk, pop \in Encoding, m \in Message : Admit(pk, pop, m)
  BY <1>1, AdmitKeeps
<1>2. CASE \E i \in DOMAIN signers, sig \in Encoding, checked \in BOOLEAN : Gather(i, sig, checked)
  BY <1>2, GatherKeeps
<1>3. CASE \E m \in Message : CheckMultisignature(m)
  BY <1>3, CheckMultisignatureKeeps
<1>4. CASE \E n \in 0 .. Len(signers) : CheckAggregate(SubSeq(Messages, 1, n))
  BY <1>4, CheckAggregateKeeps
<1>5. CASE \E pk, sig \in Encoding, m \in Message : CheckNormal(pk, sig, m)
  BY <1>5, CheckNormalKeeps
<1>6. CASE \E key \in {k \in MultiKey : k.tail # <<>>} : CheckMultiEd25519(key)
  BY <1>6, CheckMultiEd25519Keeps
<1>7. CASE \E key \in SubKey \cup {"wrong length"} : CheckEd25519(key)
  BY <1>7, CheckEd25519Keeps
<1>8. CASE \E sig \in {Undecodable} \cup [by : {"k"}, recovery_id : RecoveryIds],
              id \in 0 .. 4, exists \in BOOLEAN : CheckRecovery(sig, id, exists)
  BY <1>8, CheckRecoveryKeeps
<1>9. CASE UNCHANGED signatureVars
  <2>1. /\ signers' = signers /\ signatures' = signatures /\ verdict' = verdict
    BY <1>9 DEF signatureVars
  <2>2. SignaturesTypeOK'
    BY <2>1, Zenon DEF SignaturesIInv, SignaturesTypeOK, SignerList
  <2>3. Signed' = Signed /\ Keys' = Keys
    BY <2>1, Zenon DEF Signed, Keys
  <2>4. AggregatesAreTrue'
    BY <2>1, <2>3, Zenon DEF SignaturesIInv, VerdictsAreTrue, AggregatesAreTrue
  <2>5. ValidationSuffices'
    BY <2>1, Zenon DEF SignaturesIInv, VerdictsAreTrue, ValidationSuffices
  <2> QED  BY <2>2, <2>4, <2>5 DEF SignaturesIInv, VerdictsAreTrue
<1> QED  BY <1>1, <1>2, <1>3, <1>4, <1>5, <1>6, <1>7, <1>8, <1>9 DEF SignaturesNext

\* The natives tell the truth, for any group of prime order, any messages and any
\* number of signers: when every admitted signer's own signature was gathered, in
\* whatever order, the multisignature and the aggregate signature verify unless the
\* keys cancel out, and when exactly one is missing or wrong neither does; and a key
\* that validates is one whose signatures verify.
THEOREM VerdictsStayTrue == SignaturesSpec => []VerdictsAreTrue
<1>1. SignaturesIInv => VerdictsAreTrue
  BY DEF SignaturesIInv
<1> QED  BY SignaturesInitEstablishes, SignaturesNextKeeps, <1>1, PTL DEF SignaturesSpec

=============================================================================
