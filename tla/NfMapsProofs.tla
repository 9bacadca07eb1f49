---------------------------- MODULE NfMapsProofs ----------------------------
(***************************************************************************)
(* Theorems about NfMaps, for every struct of maps, every chain.toml and   *)
(* every map pulley seeds.  What carries them is that the number of a map  *)
(* determines the map (PlaceOfName), so that the slice of userland, which  *)
(* has lost names and types, still names each field's own map.             *)
(***************************************************************************)
EXTENDS NfMaps, Integers, FiniteSetTheorems, TLAPS

InputsOK == decl \in Decls /\ given \in Givens /\ disable_xdp \in BOOLEAN

\* The list of fields is a sequence, and a function has finitely many maps.
LEMMA InputFacts ==
  ASSUME InputsOK
  PROVE  /\ Len(decl.fields) \in Nat
         /\ DOMAIN given \subseteq Nat
         /\ IsFiniteSet(DOMAIN given)
         /\ Cardinality(DOMAIN given) \in Nat
         /\ \A m \in DOMAIN given : given[m].size \in Nat \ {0}
         /\ \A i \in Fields : decl.fields[i].types \in Seq(STRING)
<1>1. decl.fields \in Seq([name : Nat, tuple : BOOLEAN, types : Seq(STRING)])
  BY NfMapsAssumption DEF InputsOK
<1>2. /\ DOMAIN given \subseteq Nat /\ IsFiniteSet(DOMAIN given)
      /\ \A m \in DOMAIN given : given[m].size \in Nat \ {0}
  BY NfMapsAssumption DEF InputsOK
<1>3. Len(decl.fields) \in Nat /\ \A i \in Fields : decl.fields[i].types \in Seq(STRING)
  <2>1. \A R : \A s \in Seq(R) : Len(s) \in Nat /\ \A i \in 1..Len(s) : s[i] \in R
    OBVIOUS
  <2>2. /\ Len(decl.fields) \in Nat
        /\ \A i \in Fields :
             decl.fields[i] \in [name : Nat, tuple : BOOLEAN, types : Seq(STRING)]
    BY <1>1, <2>1 DEF Fields
  <2>3. \A r \in [name : Nat, tuple : BOOLEAN, types : Seq(STRING)] : r.types \in Seq(STRING)
    OBVIOUS
  <2>4. QED
    BY <2>2, <2>3
<1>4. Cardinality(DOMAIN given) \in Nat
  BY <1>2, FS_CardinalityType
<1>5. QED
  BY <1>2, <1>3, <1>4

\* A map's number is one of 1..n, and no two maps have the same.
LEMMA PlaceFacts ==
  ASSUME InputsOK
  PROVE  /\ \A m \in DOMAIN given : Place(m) \in 1..Cardinality(DOMAIN given)
         /\ \A m, l \in DOMAIN given : Place(m) = Place(l) => m = l
<1> DEFINE S == DOMAIN given
           Upto(m) == {x \in S : x <= m}
<1>1. S \subseteq Nat /\ IsFiniteSet(S) /\ Cardinality(S) \in Nat
  BY InputFacts
<1>2. ASSUME NEW m \in S
      PROVE  /\ IsFiniteSet(Upto(m)) /\ Cardinality(Upto(m)) \in Nat
             /\ Cardinality(Upto(m)) <= Cardinality(S) /\ m \in Upto(m)
  <2>1. Upto(m) \in SUBSET S /\ m \in Upto(m)
    BY <1>1
  <2>2. QED
    BY <1>1, <2>1, FS_Subset, FS_CardinalityType
<1>3. ASSUME NEW m \in S PROVE Place(m) \in 1..Cardinality(S)
  <2>1. Cardinality(Upto(m)) # 0
    BY <1>2, FS_EmptySet
  <2>2. QED
    BY <1>1, <1>2, <2>1 DEF Place
<1>4. ASSUME NEW m \in S, NEW l \in S, m < l PROVE Place(m) # Place(l)
  <2>1. Upto(m) \in SUBSET Upto(l) /\ l \in Upto(l) /\ l \notin Upto(m)
    BY <1>1, <1>4
  <2>2. Upto(m) # Upto(l)
    BY <2>1
  <2>3. Cardinality(Upto(m)) # Cardinality(Upto(l))
    BY <1>2, <2>1, <2>2, FS_Subset
  <2>4. QED
    BY <2>3 DEF Place
<1>5. \A m, l \in S : Place(m) = Place(l) => m = l
  <2> SUFFICES ASSUME NEW m \in S, NEW l \in S, m # l PROVE Place(m) # Place(l)
    OBVIOUS
  <2>1. m < l \/ l < m
    BY <1>1
  <2>2. QED
    BY <1>4, <2>1
<1>6. QED
  BY <1>3, <1>5

\* The map with the number of m is m.
LEMMA PlaceOfName ==
  ASSUME InputsOK, NEW m \in DOMAIN given
  PROVE  /\ Place(m) \in DOMAIN Names
         /\ Names[Place(m)] = m
<1>1. Place(m) \in 1..Cardinality(DOMAIN given) /\ Cardinality(DOMAIN given) \in Nat
  BY PlaceFacts, InputFacts
<1>2. (CHOOSE l \in DOMAIN given : Place(l) = Place(m)) = m
  BY PlaceFacts
<1>3. QED
  BY <1>1, <1>2 DEF Names

\* Every map has a number.
LEMMA NamesLen ==
  ASSUME InputsOK
  PROVE  Len(Names) = Cardinality(DOMAIN given)
<1>1. Cardinality(DOMAIN given) \in Nat
  BY InputFacts
<1>2. QED
  BY <1>1 DEF Names

\* In a struct whose literal fits, a name belongs to one field.
LEMMA FieldOfName ==
  ASSUME InputsOK, LiteralFits, NEW i \in Fields
  PROVE  TypesOf(decl.fields[i].name) = NfTy(i)
<1> DEFINE f == [j \in Fields |-> decl.fields[j].name]
<1>1. IsFiniteSet(Fields) /\ Cardinality(Fields) = Cardinality(Declared)
  BY InputFacts, FS_Interval DEF LiteralFits, Fields
<1>2. f \in Surjection(Fields, Declared)
  BY DEF Surjection, Declared
<1>3. f \in Injection(Fields, Declared)
  BY <1>1, <1>2, FS_SurjSameCardinalityImpliesInj
<1>4. \A j \in Fields : decl.fields[j].name = decl.fields[i].name => j = i
  BY <1>3 DEF Injection, IsInjective
<1>5. (CHOOSE j \in Fields : decl.fields[j].name = decl.fields[i].name) = i
  BY <1>4
<1>6. QED
  BY <1>5 DEF TypesOf, NfTy
-----------------------------------------------------------------------------
Accepted == MacroOK /\ LiteralFits

Checked == Accepted /\ \A m \in Declared : Implements(DefineXdp(m), TypesOf(m))

Definitions == [m \in DOMAIN given |-> DefineXdp(m)]

\* What the XDP build has left: its definitions, and what rustc made sure of.
Built ==
  IF disable_xdp THEN defs = <<>>
  ELSE Checked /\ defs = Definitions

\* A map of the kernel stays within its size and its keys.
Bounded(m) ==
  /\ DOMAIN map[m] \subseteq MapKeys
  /\ Cardinality(DOMAIN map[m]) <= defs[m].size
  /\ defs[m].kind = "array" => \A x \in DOMAIN map[m] : x < defs[m].size

Loaded ==
  /\ raw = IF disable_xdp THEN <<>> ELSE Names
  /\ DOMAIN map = DOMAIN defs
  /\ \A m \in DOMAIN map : Bounded(m)

Unloaded == raw = <<>> /\ map = <<>>

NfInv ==
  /\ InputsOK
  /\ stage \in {"write", "xdp", "user", "load", "seed", "run", "refused", "panic"}
  /\ last = map
  /\ defs = <<>> \/ defs = Definitions
  /\ stage \in {"write", "xdp"} => defs = <<>>
  /\ stage = "xdp" => ~disable_xdp
  /\ stage \in {"user", "load", "seed", "run", "panic"} => Built
  /\ stage \in {"load", "seed", "run", "panic"} => Accepted
  /\ stage \in {"write", "xdp", "user", "load", "refused"} => Unloaded
  /\ stage \in {"seed", "run", "panic"} => Loaded
  /\ stage \in {"seed", "panic"} => \A m \in DOMAIN map : map[m] = NewMap(defs[m])
  /\ stage = "panic" => \E m \in Seeded : SeedFails(m)
  /\ stage = "refused" => ~Checked

\* A definition has the kind and the size that chain.toml gives the map.
LEMMA DefFacts ==
  ASSUME InputsOK, Built, NEW m \in DOMAIN defs
  PROVE  /\ ~disable_xdp /\ Checked /\ m \in DOMAIN given /\ DOMAIN defs = DOMAIN given
         /\ defs[m].kind = given[m].kind /\ defs[m].size = given[m].size
         /\ defs[m].size \in Nat \ {0}
         /\ <<defs[m].key, defs[m].val>> = TypesOf(m)
<1>1. ~disable_xdp /\ Checked /\ defs = [l \in DOMAIN given |-> DefineXdp(l)]
  BY DEF Built, Definitions
<1>2. m \in DOMAIN given /\ DOMAIN defs = DOMAIN given /\ defs[m] = DefineXdp(m)
  BY <1>1
<1>3. defs[m].kind = given[m].kind /\ defs[m].size = given[m].size
  BY <1>2 DEF DefineXdp
<1>4. defs[m].size \in Nat \ {0}
  BY <1>2, <1>3, InputFacts
<1>5. m \in Declared
  BY <1>1, <1>2 DEF Checked, Accepted, LiteralFits
<1>6. <<defs[m].key, defs[m].val>> = TypesOf(m)
  BY <1>1, <1>2, <1>5 DEF Checked, Implements
<1>7. QED
  BY <1>1, <1>2, <1>3, <1>4, <1>6

\* Keys below a bound are at most as many.
LEMMA KeysBelow ==
  ASSUME NEW n \in Nat, NEW S \in SUBSET Nat, \A x \in S : x < n
  PROVE  Cardinality(S) <= n
<1>1. IsFiniteSet(0..(n - 1)) /\ Cardinality(0..(n - 1)) = n
  BY FS_Interval
<1>2. S \in SUBSET (0..(n - 1))
  OBVIOUS
<1>3. QED
  BY <1>1, <1>2, FS_Subset

\* A new map is within its bounds.
LEMMA NewMapBounded ==
  ASSUME NEW def, def.size \in Nat
  PROVE  /\ DOMAIN NewMap(def) \subseteq MapKeys
         /\ Cardinality(DOMAIN NewMap(def)) <= def.size
         /\ def.kind = "array" => \A x \in DOMAIN NewMap(def) : x < def.size
         /\ def.kind # "array" => DOMAIN NewMap(def) = {}
<1> DEFINE D == {x \in MapKeys : x < def.size}
<1>1. CASE def.kind = "array"
  <2>1. DOMAIN NewMap(def) = D
    BY <1>1 DEF NewMap
  <2>2. D \in SUBSET Nat /\ \A x \in D : x < def.size
    BY NfMapsAssumption
  <2>4. Cardinality(D) <= def.size
    BY <2>2, KeysBelow
  <2>5. QED
    BY <1>1, <2>1, <2>4
<1>2. CASE def.kind # "array"
  <2>1. DOMAIN NewMap(def) = {}
    BY <1>2 DEF NewMap
  <2>2. QED
    BY <1>2, <2>1, FS_EmptySet
<1>3. QED
  BY <1>1, <1>2

\* An update that the kernel accepts keeps a map within its bounds.
LEMMA AcceptedBounded ==
  ASSUME NEW m, NEW k \in MapKeys, NEW v, Bounded(m), Accepts(m, k), defs[m].size \in Nat
  PROVE  /\ DOMAIN With(map[m], k, v) \subseteq MapKeys
         /\ Cardinality(DOMAIN With(map[m], k, v)) <= defs[m].size
         /\ defs[m].kind = "array" => \A x \in DOMAIN With(map[m], k, v) : x < defs[m].size
<1> DEFINE D == DOMAIN map[m]
<1>1. DOMAIN With(map[m], k, v) = D \union {k}
  BY DEF With
<1>2. D \subseteq MapKeys /\ IsFiniteSet(D) /\ Cardinality(D) \in Nat
  BY NfMapsAssumption, FS_Subset, FS_CardinalityType DEF Bounded
<1>3. Cardinality(D) <= defs[m].size
  BY DEF Bounded
<1>4. CASE defs[m].kind = "array"
  <2>1. k < defs[m].size /\ \A x \in D : x < defs[m].size
    BY <1>4 DEF Accepts, Bounded
  <2>2. D \union {k} \in SUBSET Nat /\ \A x \in D \union {k} : x < defs[m].size
    BY <1>2, <2>1, NfMapsAssumption
  <2>4. Cardinality(D \union {k}) <= defs[m].size
    BY <2>2, KeysBelow
  <2>5. QED
    BY <1>1, <1>2, <2>1, <2>4
<1>5. CASE defs[m].kind # "array"
  <2>1. k \in D \/ Cardinality(D) < defs[m].size
    BY <1>5 DEF Accepts
  <2>2. Cardinality(D \union {k}) = IF k \in D THEN Cardinality(D) ELSE Cardinality(D) + 1
    BY <1>2, FS_AddElement
  <2>3. Cardinality(D \union {k}) <= defs[m].size
    BY <1>2, <1>3, <2>1, <2>2
  <2>4. QED
    BY <1>1, <1>2, <1>5, <2>3
<1>6. QED
  BY <1>4, <1>5
-----------------------------------------------------------------------------
\* What is made from the inputs alone does not change with the state.
LEMMA InputsKept ==
  ASSUME UNCHANGED inputs
  PROVE  /\ InputsOK' = InputsOK
         /\ Accepted' = Accepted
         /\ Checked' = Checked
         /\ Definitions' = Definitions
         /\ Names' = Names
<1>1. decl' = decl /\ given' = given /\ disable_xdp' = disable_xdp
  BY DEF inputs
<1>2. InputsOK' = InputsOK
  BY <1>1 DEF InputsOK
<1>3. Accepted' = Accepted
  BY <1>1 DEF Accepted, MacroOK, MacroPanics, BoundsParse, LiteralFits, Declared, Fields
<1>4. Checked' = Checked
  BY <1>1, <1>3 DEF Checked, Implements, DefineXdp, TypesOf, NfTy, Place, Declared, Fields
<1>5. Definitions' = Definitions
  BY <1>1 DEF Definitions, DefineXdp, NfTy, Place, Fields
<1>6. Names' = Names
  BY <1>1 DEF Names, Place
<1>7. QED
  BY <1>2, <1>3, <1>4, <1>5, <1>6

\* Nothing is built yet.
LEMMA InitNfInv ==
  ASSUME NfInit
  PROVE  NfInv
BY DEF NfInit, NfInv, InputsOK, Unloaded

\* Before the maps are loaded, a step builds a part or refuses it.
LEMMA BuildKeepsNfInv ==
  ASSUME NfInv, Write \/ BuildXdp \/ BuildUser
  PROVE  NfInv'
<1>1. UNCHANGED inputs
  BY DEF Write, BuildXdp, BuildUser
<1>2. disable_xdp' = disable_xdp
  BY <1>1 DEF inputs
<1>3. CASE Write
  BY <1>1, <1>2, <1>3, InputsKept DEF Write, NfInv, Built, Unloaded, InputsOK
<1>4. CASE BuildXdp
  <2>1. CASE Checked
    <3>1. stage = "xdp" /\ stage' = "user" /\ defs' = Definitions /\ UNCHANGED <<raw, map, last>>
      BY <1>4, <2>1 DEF BuildXdp, Checked, Accepted, Definitions
    <3>2. QED
      BY <1>1, <1>2, <2>1, <3>1, InputsKept DEF NfInv, Built, Unloaded
  <2>2. CASE ~Checked
    <3>1. stage = "xdp" /\ stage' = "refused" /\ UNCHANGED <<defs, raw, map, last>>
      BY <1>4, <2>2 DEF BuildXdp, Checked, Accepted
    <3>2. QED
      BY <1>1, <1>2, <2>2, <3>1, InputsKept DEF NfInv, Unloaded
  <2>3. QED
    BY <2>1, <2>2
<1>5. CASE BuildUser
  <2>1. stage = "user" /\ UNCHANGED <<defs, raw, map, last>>
    BY <1>5 DEF BuildUser
  <2>2. CASE Accepted
    <3>1. stage' = "load"
      BY <1>5, <2>2 DEF BuildUser, Accepted
    <3>2. QED
      BY <1>1, <1>2, <2>1, <2>2, <3>1, InputsKept DEF NfInv, Built, Unloaded
  <2>3. CASE ~Accepted
    <3>1. stage' = "refused"
      BY <1>5, <2>3 DEF BuildUser, Accepted
    <3>2. QED
      BY <1>1, <1>2, <2>1, <2>3, <3>1, InputsKept DEF NfInv, Checked, Unloaded
  <2>4. QED
    BY <2>2, <2>3
<1>6. QED
  BY <1>3, <1>4, <1>5

\* A map that is loaded is new.
LEMMA LoadKeepsNfInv ==
  ASSUME NfInv, Load
  PROVE  NfInv'
<1>1. UNCHANGED inputs /\ disable_xdp' = disable_xdp /\ defs' = defs
  BY DEF Load, inputs
<1>2. /\ stage = "load" /\ stage' = "seed" /\ last' = map'
      /\ raw' = IF disable_xdp THEN <<>> ELSE Names
      /\ map' = [m \in DOMAIN defs |-> NewMap(defs[m])]
  BY DEF Load, MapNames
<1>3. InputsOK /\ Built /\ Accepted
  BY <1>2 DEF NfInv
<1>4. \A m \in DOMAIN map' : map'[m] = NewMap(defs'[m])
  BY <1>1, <1>2
<1>5. ASSUME NEW m \in DOMAIN map' PROVE Bounded(m)'
  <2>1. m \in DOMAIN defs /\ map'[m] = NewMap(defs[m])
    BY <1>1, <1>2, <1>5
  <2>2. defs[m].size \in Nat
    BY <1>3, <2>1, DefFacts
  <2>3. QED
    BY <1>1, <2>1, <2>2, NewMapBounded DEF Bounded
<1>6. Loaded'
  BY <1>1, <1>2, <1>5, InputsKept DEF Loaded
<1>7. Built'
  BY <1>1, <1>3, InputsKept DEF Built
<1>8. QED
  BY <1>1, <1>2, <1>3, <1>4, <1>6, <1>7, InputsKept DEF NfInv

\* install_chain writes to maps that take what it writes, or panics.
LEMMA SeedKeepsNfInv ==
  ASSUME NfInv, Seed
  PROVE  NfInv'
<1>1. UNCHANGED inputs /\ disable_xdp' = disable_xdp /\ defs' = defs /\ raw' = raw
  BY DEF Seed, inputs
<1>2. stage = "seed" /\ InputsOK /\ Built /\ Accepted /\ Loaded /\ last = map
  BY DEF Seed, NfInv
<1>3. Built' /\ InputsOK' /\ Accepted'
  BY <1>1, <1>2, InputsKept DEF Built
<1>4. CASE \E m \in Seeded : SeedFails(m)
  <2>1. stage' = "panic" /\ map' = map /\ last' = last
    BY <1>4 DEF Seed
  <2>2. (\E m \in Seeded : SeedFails(m))'
    BY <1>1, <1>4, <2>1 DEF Seeded, SeedFails, Accepts
  <2>3. Loaded'
    BY <1>1, <1>2, <2>1, InputsKept DEF Loaded, Bounded
  <2>4. QED
    BY <1>1, <1>2, <1>3, <2>1, <2>2, <2>3, InputsKept DEF NfInv
<1>5. CASE ~ \E m \in Seeded : SeedFails(m)
  <2>1. PICK v \in MapVals :
          /\ map' = [m \in DOMAIN map |->
                       IF m \in Seeded THEN With(map[m], Seeds[m].at, v) ELSE map[m]]
          /\ last' = map' /\ stage' = "run"
    BY <1>5 DEF Seed
  <2>2. ASSUME NEW m \in DOMAIN map' PROVE Bounded(m)'
    <3>1. m \in DOMAIN map /\ m \in DOMAIN defs /\ Bounded(m)
      BY <1>2, <2>1, <2>2 DEF Loaded
    <3>2. CASE m \in Seeded
      <4>1. map'[m] = With(map[m], Seeds[m].at, v)
        BY <2>1, <3>1, <3>2
      <4>2. Seeds[m].at \in MapKeys /\ Accepts(m, Seeds[m].at)
        BY <1>5, <3>2, NfMapsAssumption DEF Seeded, SeedFails
      <4>3. defs[m].size \in Nat
        BY <1>2, <3>1, DefFacts
      <4>4. QED
        BY <1>1, <3>1, <4>1, <4>2, <4>3, AcceptedBounded DEF Bounded
    <3>3. CASE m \notin Seeded
      <4>1. map'[m] = map[m]
        BY <2>1, <3>1, <3>3
      <4>2. QED
        BY <1>1, <3>1, <4>1 DEF Bounded
    <3>4. QED
      BY <3>2, <3>3
  <2>3. Loaded'
    BY <1>1, <1>2, <2>1, <2>2, InputsKept DEF Loaded
  <2>4. QED
    BY <1>1, <1>2, <1>3, <2>1, <2>3, InputsKept DEF NfInv
<1>6. QED
  BY <1>4, <1>5

\* Behind a field of the library's struct is the map of the field's name.
LEMMA SameMap ==
  ASSUME InputsOK, Built, Loaded, NEW m \in DOMAIN defs
  PROVE  UserMap(m) = m
<1>1. ~disable_xdp /\ m \in DOMAIN given
  BY DefFacts
<1>2. raw = Names
  BY <1>1 DEF Loaded
<1>3. QED
  BY <1>1, <1>2, PlaceOfName DEF UserMap

\* A put changes the map and what was last stored alike.
LEMMA PutKeepsNfInv ==
  ASSUME NfInv, NEW m \in DOMAIN defs, NEW k \in MapKeys, NEW v \in MapVals,
         XdpPut(m, k, v) \/ UserPut(m, k, v)
  PROVE  NfInv'
<1>1. UNCHANGED inputs /\ disable_xdp' = disable_xdp /\ defs' = defs /\ raw' = raw
      /\ stage' = stage /\ stage = "run"
  BY DEF XdpPut, UserPut, Put, inputs
<1>2. InputsOK /\ Built /\ Accepted /\ Loaded /\ last = map
  BY <1>1 DEF NfInv
<1>3. Built' /\ InputsOK' /\ Accepted'
  BY <1>1, <1>2, InputsKept DEF Built
<1>4. Put(m, m, k, v)
  BY <1>2, SameMap DEF XdpPut, UserPut
<1>5. CASE Accepts(m, k)
  <2>1. map' = [map EXCEPT ![m] = With(@, k, v)] /\ last' = map'
    BY <1>2, <1>4, <1>5 DEF Put
  <2>2. m \in DOMAIN map /\ Bounded(m) /\ defs[m].size \in Nat
    BY <1>2, DefFacts DEF Loaded
  <2>3. ASSUME NEW l \in DOMAIN map' PROVE Bounded(l)'
    <3>1. l \in DOMAIN map /\ Bounded(l)
      BY <1>2, <2>1, <2>3 DEF Loaded
    <3>2. CASE l = m
      <4>1. map'[m] = With(map[m], k, v)
        BY <2>1, <2>2
      <4>2. QED
        BY <1>1, <1>5, <2>2, <3>2, <4>1, AcceptedBounded DEF Bounded
    <3>3. CASE l # m
      <4>1. map'[l] = map[l]
        BY <2>1, <3>1, <3>3
      <4>2. QED
        BY <1>1, <3>1, <4>1 DEF Bounded
    <3>4. QED
      BY <3>2, <3>3
  <2>4. DOMAIN map' = DOMAIN map
    BY <2>1
  <2>5. Loaded'
    BY <1>1, <1>2, <2>3, <2>4, InputsKept DEF Loaded
  <2>6. QED
    BY <1>1, <1>2, <1>3, <2>1, <2>5, InputsKept DEF NfInv
<1>6. CASE ~Accepts(m, k)
  <2>1. map' = map /\ last' = last
    BY <1>4, <1>6 DEF Put
  <2>2. Loaded'
    BY <1>1, <1>2, <2>1, InputsKept DEF Loaded, Bounded
  <2>3. QED
    BY <1>1, <1>2, <1>3, <2>1, <2>2, InputsKept DEF NfInv
<1>7. QED
  BY <1>5, <1>6

\* The invariant holds throughout.
THEOREM NfInvariant == NfSpec => []NfInv
<1>1. NfInit => NfInv
  BY InitNfInv
<1>2. ASSUME NfInv, [NfNext]_nfVars PROVE NfInv'
  <2>1. CASE UNCHANGED nfVars
    <3>1. UNCHANGED inputs /\ UNCHANGED <<disable_xdp, stage, defs, raw, map, last>>
      BY <2>1 DEF nfVars, inputs
    <3>2. Built' = Built /\ Unloaded' = Unloaded
      BY <3>1, InputsKept DEF Built, Unloaded
    <3>3. Loaded' = Loaded
      BY <3>1, InputsKept DEF Loaded, Bounded
    <3>4. (\A m \in DOMAIN map : map[m] = NewMap(defs[m]))' = \A m \in DOMAIN map : map[m] = NewMap(defs[m])
      BY <3>1
    <3>5. (\E m \in Seeded : SeedFails(m))' = \E m \in Seeded : SeedFails(m)
      BY <3>1 DEF Seeded, SeedFails, Accepts
    <3>6. QED
      BY <1>2, <3>1, <3>2, <3>3, <3>4, <3>5, InputsKept DEF NfInv
  <2>2. CASE Write \/ BuildXdp \/ BuildUser
    BY <1>2, <2>2, BuildKeepsNfInv
  <2>3. CASE Load
    BY <1>2, <2>3, LoadKeepsNfInv
  <2>4. CASE Seed
    BY <1>2, <2>4, SeedKeepsNfInv
  <2>5. CASE \E m \in DOMAIN defs, k \in MapKeys, v \in MapVals : XdpPut(m, k, v) \/ UserPut(m, k, v)
    BY <1>2, <2>5, PutKeepsNfInv
  <2>6. QED
    BY <1>2, <2>1, <2>2, <2>3, <2>4, <2>5 DEF NfNext
<1>3. QED
  BY <1>1, <1>2, PTL DEF NfSpec
-----------------------------------------------------------------------------
\* The stages of a function, the maps its program defines, and the number of
\* maps userland is given are as NfTypeOK says, and no map outgrows its size.
THEOREM NfTypes == NfSpec => []NfTypeOK
<1>1. ASSUME NfInv PROVE NfTypeOK
  <2>1. InputsOK /\ (defs = <<>> \/ defs = Definitions)
    BY <1>1 DEF NfInv
  <2>2. DOMAIN defs \in {{}, DOMAIN given}
    BY <2>1 DEF Definitions
  <2>3. Unloaded \/ (Loaded /\ Built)
    BY <1>1 DEF NfInv
  <2>4. CASE Unloaded
    <3>1. Len(raw) = 0 /\ DOMAIN map = {}
      BY <2>4 DEF Unloaded
    <3>2. QED
      BY <1>1, <2>2, <3>1, FS_EmptySet DEF NfInv, NfTypeOK
  <2>5. CASE Loaded /\ Built
    <3>1. Len(raw) = Cardinality(DOMAIN map)
      <4>1. CASE disable_xdp
        BY <2>5, <4>1, FS_EmptySet DEF Loaded, Built
      <4>2. CASE ~disable_xdp
        BY <2>1, <2>5, <4>2, NamesLen DEF Loaded, Built, Definitions
      <4>3. QED
        BY <4>1, <4>2
    <3>2. QED
      BY <1>1, <2>2, <2>5, <3>1 DEF NfInv, NfTypeOK, Loaded, Bounded
  <2>6. QED
    BY <2>3, <2>4, <2>5
<1>2. QED
  BY <1>1, NfInvariant, PTL

\* The library of a function finds behind every field of its struct a map with
\* the key and the value it declares, although nothing checks it in userland.
THEOREM LayoutsAlwaysMatch == NfSpec => []LayoutsMatch
<1>1. ASSUME NfInv PROVE LayoutsMatch
  <2> SUFFICES ASSUME stage = "run", UserHasMaps, NEW m \in Declared
               PROVE  <<defs[UserMap(m)].key, defs[UserMap(m)].val>> = TypesOf(m)
    BY DEF LayoutsMatch
  <2>1. InputsOK /\ Built /\ Loaded /\ Accepted
    BY <1>1 DEF NfInv
  <2>2. m \in DOMAIN given
    BY <2>1 DEF Accepted, LiteralFits
  <2>3. ~disable_xdp
    <3>1. Cardinality(DOMAIN given) # 0
      BY <2>1, <2>2, InputFacts, FS_EmptySet
    <3>2. QED
      BY <2>1, <3>1 DEF Loaded, UserHasMaps
  <2>4. m \in DOMAIN defs
    BY <2>1, <2>2, <2>3 DEF Built, Definitions
  <2>5. QED
    BY <2>1, <2>4, SameMap, DefFacts
<1>2. QED
  BY <1>1, NfInvariant, PTL

\* What either side of a function last stored in a field is what both find.
THEOREM AlwaysCoherent == NfSpec => []Coherent
<1>1. ASSUME NfInv PROVE Coherent
  <2> SUFFICES ASSUME stage = "run", NEW m \in DOMAIN defs, NEW k \in MapKeys
               PROVE  LET want == IF k \in DOMAIN last[m] THEN last[m][k] ELSE None
                      IN  XdpGet(m, k) = want /\ (UserHasMaps => UserGet(m, k) = want)
    BY DEF Coherent
  <2>1. InputsOK /\ Built /\ Loaded /\ last = map
    BY <1>1 DEF NfInv
  <2>2. UserMap(m) = m
    BY <2>1, SameMap
  <2>3. QED
    BY <2>1, <2>2 DEF XdpGet, UserGet
<1>2. QED
  BY <1>1, NfInvariant, PTL

\* A well declared function is refused only for the order of its fields, and
\* pulley panics only over a map that has the name of one it writes to.
THEOREM OnlyRefusedForOrder == NfSpec => []RefusedForOrder
<1>1. ASSUME NfInv, stage = "refused", WellDeclared
      PROVE  \E i \in Fields : decl.fields[i].name # Names[i] /\ NfTy(i) # TypesOf(Names[i])
  <2>1. InputsOK /\ ~Checked /\ MacroOK /\ LiteralFits
    BY <1>1 DEF NfInv, WellDeclared
  <2>2. PICK m \in Declared : ~Implements(DefineXdp(m), TypesOf(m))
    BY <2>1 DEF Checked, Accepted
  <2> DEFINE i == Place(m)
  <2>3. m \in DOMAIN given /\ Cardinality(DOMAIN given) = Len(decl.fields)
    BY <2>1 DEF LiteralFits
  <2>4. i \in Fields /\ Names[i] = m
    BY <2>1, <2>3, PlaceFacts, PlaceOfName DEF Fields
  <2>5. NfTy(i) # TypesOf(m)
    <3> SUFFICES ASSUME NfTy(i) = TypesOf(m) PROVE FALSE
      OBVIOUS
    <3>1. NfTy(i) \in Seq(STRING) /\ Len(NfTy(i)) = 2
      BY <2>1, <2>4, InputFacts DEF NfTy, MacroOK, BoundsParse
    <3>2. NfTy(i) = <<NfTy(i)[1], NfTy(i)[2]>>
      <4>1. \A t \in Seq(STRING) : Len(t) = 2 => t = <<t[1], t[2]>>
        OBVIOUS
      <4>2. QED
        BY <3>1, <4>1
    <3>3. given[m].kind = "array" => NfTy(i)[1] = "u32" /\ NfTy(i)[2] \in Cloneable
      BY <1>1, <2>3 DEF WellDeclared
    <3>4. /\ DefineXdp(m).key = NfTy(i)[1] /\ DefineXdp(m).val = NfTy(i)[2]
          /\ DefineXdp(m).kind = given[m].kind
      BY <2>4, <3>3 DEF DefineXdp
    <3>5. QED
      BY <2>2, <3>2, <3>3, <3>4 DEF Implements
  <2>6. decl.fields[i].name # m
    BY <2>1, <2>4, <2>5, FieldOfName
  <2>7. QED
    BY <2>4, <2>5, <2>6
<1>2. ASSUME NfInv, stage = "panic"
      PROVE  \E m \in Seeded :
               \/ TypesOf(m) # <<Seeds[m].key, Seeds[m].val>>
               \/ given[m].kind = "array" /\ given[m].size <= Seeds[m].at
  <2>1. InputsOK /\ Built /\ Loaded
    BY <1>2 DEF NfInv
  <2>2. PICK m \in Seeded : SeedFails(m)
    BY <1>2 DEF NfInv
  <2>3. m \in DOMAIN defs /\ m \in DOMAIN Seeds
    BY DEF Seeded
  <2>4. /\ defs[m].kind = given[m].kind /\ defs[m].size = given[m].size
        /\ defs[m].size \in Nat \ {0} /\ <<defs[m].key, defs[m].val>> = TypesOf(m)
    BY <2>1, <2>3, DefFacts
  <2>5. Seeds[m].at \in Nat
    BY <2>3, NfMapsAssumption
  <2>6. CASE ~Accepts(m, Seeds[m].at)
    <3>1. map[m] = NewMap(defs[m])
      BY <1>2, <2>1, <2>3 DEF NfInv, Loaded
    <3>2. defs[m].kind # "array" => Cardinality(DOMAIN map[m]) = 0
      BY <2>4, <3>1, NewMapBounded, FS_EmptySet
    <3>3. defs[m].kind = "array"
      BY <2>4, <2>6, <3>2 DEF Accepts
    <3>4. ~(Seeds[m].at < defs[m].size)
      BY <2>6, <3>3 DEF Accepts
    <3>5. \A a, b \in Nat : ~(a < b) => b <= a
      OBVIOUS
    <3>6. defs[m].size <= Seeds[m].at
      BY <2>4, <2>5, <3>4, <3>5
    <3>7. QED
      BY <2>4, <3>3, <3>6
  <2>7. CASE Accepts(m, Seeds[m].at)
    BY <2>2, <2>4, <2>7 DEF SeedFails
  <2>8. QED
    BY <2>6, <2>7
<1>3. NfInv => RefusedForOrder
  BY <1>1, <1>2 DEF RefusedForOrder
<1>4. QED
  BY <1>3, NfInvariant, PTL
=============================================================================
