------------------------------- MODULE NfMaps -------------------------------
(***************************************************************************)
(* The maps of one network function, from the struct that declares them to *)
(* the programs that use them at the same time: its XDP program on every   *)
(* CPU and its shared library in every dataplane thread.                   *)
(*                                                                         *)
(* Three orders meet here.  #[maps] numbers the types of the fields as     *)
(* they are declared; chainsmith numbers the maps by name, as its BTreeMap *)
(* yields them; pulley hands userland a slice of maps that have lost their *)
(* types, in the order of the names in the message.  Names are numbers     *)
(* here, ordered as a BTreeMap orders them.                                *)
(*                                                                         *)
(*   decl   [shape, fields]: the struct; a field is [name, tuple, types]   *)
(*   given  the maps chain.toml gives the function: [kind, size] by name   *)
(***************************************************************************)
EXTENDS Naturals, Sequences, FiniteSets

CONSTANTS
  Decls,     \* the structs considered
  Givens,    \* the maps a chain.toml may give
  Cloneable, \* the types that are Clone
  Seeds,     \* what install_chain writes: [key, val, at] by name
  MapKeys,   \* keys used in the maps
  MapVals    \* values put into them

ASSUME NfMapsAssumption ==
  /\ \A d \in Decls : d.fields \in Seq([name : Nat, tuple : BOOLEAN, types : Seq(STRING)])
  /\ \A g \in Givens :
       /\ DOMAIN g \subseteq Nat /\ IsFiniteSet(DOMAIN g)
       /\ \A m \in DOMAIN g : g[m].size \in Nat \ {0}
  /\ DOMAIN Seeds \subseteq Nat
  /\ \A m \in DOMAIN Seeds : Seeds[m].at \in MapKeys
  /\ MapKeys \subseteq Nat /\ IsFiniteSet(MapKeys)
  /\ MapVals \subseteq Nat \ {0} /\ IsFiniteSet(MapVals) /\ MapVals # {}

VARIABLES
  decl, given, disable_xdp,
  stage,    \* "write", "xdp", "user", "load", "seed", "run", "refused", "panic"
  defs,     \* the maps the XDP program defines: [kind, key, val, size] by name
  raw,      \* raw_maps: what userland is given, in order
  map,      \* the contents of the kernel's maps
  last      \* what was last stored in each field, whoever stored it

inputs == <<decl, given, disable_xdp>>
nfVars == <<inputs, stage, defs, raw, map, last>>

NfInit ==
  /\ decl \in Decls
  /\ given \in Givens
  /\ disable_xdp \in BOOLEAN
  /\ stage = "write"
  /\ defs = <<>>
  /\ raw = <<>>
  /\ map = <<>>
  /\ last = <<>>

(***************************************************************************)
(* The #[maps] macro.                                                      *)
(***************************************************************************)
Fields == 1..Len(decl.fields)
Declared == {decl.fields[i].name : i \in Fields}
TypesOf(m) == decl.fields[CHOOSE i \in Fields : decl.fields[i].name = m].types

MacroPanics == decl.shape # "named" \/ \E i \in Fields : ~decl.fields[i].tuple

\* NfKeyTy<i> and NfValTy<i>, re-exported in the order of declaration.
NfTy(i) == decl.fields[i].types

\* The bound `Map<types>` on a field names a trait with two parameters.
BoundsParse == \A i \in Fields : Len(decl.fields[i].types) = 2

(***************************************************************************)
(* What chainsmith generates.                                              *)
(***************************************************************************)

\* A BTreeMap yields its keys in order: map m is number Place(m) of them.
Place(m) == Cardinality({x \in DOMAIN given : x <= m})
Names == [i \in 1..Cardinality(DOMAIN given) |-> CHOOSE m \in DOMAIN given : Place(m) = i]

\* Mutant: the types are taken one place too far.
MutDefineXdp(m) ==
  LET i == Place(m) + 1
  IN  [kind |-> given[m].kind, size |-> given[m].size,
       key |-> IF given[m].kind = "array" THEN "u32"
               ELSE IF i \in Fields THEN NfTy(i)[1] ELSE "unknown",
       val |-> IF i \in Fields THEN NfTy(i)[2] ELSE "unknown"]

\* The static that define_xdp writes: the map is found by its name, its types
\* by its number.  There may be no type of that number.
DefineXdp(m) ==
  LET i == Place(m)
  IN  [kind |-> given[m].kind, size |-> given[m].size,
       key |-> IF given[m].kind = "array" THEN "u32"
               ELSE IF i \in Fields THEN NfTy(i)[1] ELSE "unknown",
       val |-> IF i \in Fields THEN NfTy(i)[2] ELSE "unknown"]

\* The struct literal of either side names every field once.
LiteralFits == DOMAIN given = Declared /\ Len(decl.fields) = Cardinality(Declared)

\* Mutant: an array is accepted for keys of any type.
MutImplements(def, types) ==
  /\ def.val = types[2]
  /\ IF def.kind = "array" THEN def.val \in Cloneable ELSE def.key = types[1]

\* impl<V: Clone> Map<u32, V> for &mut Array<V>
\* impl<K, V> Map<K, V> for &mut HashMap<K, V>
Implements(def, types) ==
  /\ <<def.key, def.val>> = types
  /\ def.kind = "array" => def.val \in Cloneable

MacroOK == ~MacroPanics /\ BoundsParse

\* write_xdp_programs writes the definitions, of functions without XDP too.
Write ==
  /\ stage = "write"
  /\ stage' = IF disable_xdp THEN "user" ELSE "xdp"
  /\ UNCHANGED <<inputs, defs, raw, map, last>>

\* rustc accepts the XDP program when every field is given a map that
\* implements its bound.
BuildXdp ==
  /\ stage = "xdp"
  /\ IF /\ MacroOK
        /\ LiteralFits
        /\ \A m \in Declared : Implements(DefineXdp(m), TypesOf(m))
     THEN stage' = "user" /\ defs' = [m \in DOMAIN given |-> DefineXdp(m)]
     ELSE stage' = "refused" /\ UNCHANGED defs
  /\ UNCHANGED <<inputs, raw, map, last>>

\* A RawMap implements Map<K, V> for every K and V: nothing is checked.
BuildUser ==
  /\ stage = "user"
  /\ stage' = IF MacroOK /\ LiteralFits THEN "load" ELSE "refused"
  /\ UNCHANGED <<inputs, defs, raw, map, last>>

(***************************************************************************)
(* pulley loads the program and takes its maps out by name.                *)
(***************************************************************************)

\* A new array is full of zeroes, a new hash map is empty.
NewMap(def) ==
  [k \in IF def.kind = "array" THEN {k \in MapKeys : k < def.size} ELSE {} |-> 0]

\* Mutant: the maps are handed over in the order of declaration.
MutMapNames == [i \in Fields |-> decl.fields[i].name]

\* map_names of the message: the keys of the function's BTreeMap.
MapNames == Names

\* Mutant: userland is promised maps although there is no program to own them.
MutLoad ==
  /\ stage = "load"
  /\ stage' = "seed"
  /\ raw' = MapNames
  /\ map' = [m \in DOMAIN defs |-> NewMap(defs[m])]
  /\ last' = map'
  /\ UNCHANGED <<inputs, defs>>

\* A function without XDP is skipped: it has no maps at all.
Load ==
  /\ stage = "load"
  /\ stage' = "seed"
  /\ raw' = IF disable_xdp THEN <<>> ELSE MapNames
  /\ map' = [m \in DOMAIN defs |-> NewMap(defs[m])]
  /\ last' = map'
  /\ UNCHANGED <<inputs, defs>>

\* bpf_map_update_elem with MapFlags::ANY: an index beyond an array and a new
\* key in a full hash map are refused.
Accepts(m, k) ==
  IF defs[m].kind = "array" THEN k < defs[m].size
  ELSE k \in DOMAIN map[m] \/ Cardinality(DOMAIN map[m]) < defs[m].size

With(f, k, v) == [x \in DOMAIN f \union {k} |-> IF x = k THEN v ELSE f[x]]

Seeded == DOMAIN Seeds \intersect DOMAIN defs

\* Every map of a known name gets an entry; update() checks the sizes of key
\* and value, and what it returns is unwrapped.
SeedFails(m) == <<defs[m].key, defs[m].val>> # <<Seeds[m].key, Seeds[m].val>> \/ ~Accepts(m, Seeds[m].at)

Seed ==
  /\ stage = "seed"
  /\ IF \E m \in Seeded : SeedFails(m)
     THEN stage' = "panic" /\ UNCHANGED <<map, last>>
     ELSE \E v \in MapVals :
            /\ map' = [m \in DOMAIN map |->
                         IF m \in Seeded THEN With(map[m], Seeds[m].at, v) ELSE map[m]]
            /\ last' = map'
            /\ stage' = "run"
  /\ UNCHANGED <<inputs, defs, raw>>

(***************************************************************************)
(* The function at work.  A put that is refused is not noticed.            *)
(***************************************************************************)

\* `if let [m0, m1, ..] = maps`: the map behind a field of the library's struct.
UserMap(m) == raw[Place(m)]

\* Otherwise the library returns before it uses one.
UserHasMaps == Len(raw) = Cardinality(DOMAIN given)

None == 0 - 1

\* Map::get, from the program and from the library.
XdpGet(m, k)  == IF k \in DOMAIN map[m] THEN map[m][k] ELSE None
UserGet(m, k) == IF k \in DOMAIN map[UserMap(m)] THEN map[UserMap(m)][k] ELSE None

\* Store v in the map behind field m.
Put(m, behind, k, v) ==
  /\ stage = "run"
  /\ IF Accepts(behind, k)
     THEN /\ map' = [map EXCEPT ![behind] = With(@, k, v)]
          /\ last' = [last EXCEPT ![m] = With(@, k, v)]
     ELSE UNCHANGED <<map, last>>
  /\ UNCHANGED <<inputs, stage, defs, raw>>

XdpPut(m, k, v) == Put(m, m, k, v)

UserPut(m, k, v) == UserHasMaps /\ Put(m, UserMap(m), k, v)
-----------------------------------------------------------------------------
NfNext ==
  \/ Write \/ BuildXdp \/ BuildUser \/ Load \/ Seed
  \/ \E m \in DOMAIN defs, k \in MapKeys, v \in MapVals : XdpPut(m, k, v) \/ UserPut(m, k, v)

NfSpec == NfInit /\ [][NfNext]_nfVars
-----------------------------------------------------------------------------
\* The types of the maps and of what userland is given.
NfTypeOK ==
  /\ stage \in {"write", "xdp", "user", "load", "seed", "run", "refused", "panic"}
  /\ DOMAIN defs \in {{}, DOMAIN given}
  /\ Len(raw) = Cardinality(DOMAIN map)
  /\ \A m \in DOMAIN map :
       Cardinality(DOMAIN map[m]) <= defs[m].size /\ DOMAIN map[m] \subseteq MapKeys

\* "The callee must also make sure that this RawMap is only passed into the
\* place of maps which contain the same (K, V) types": the library finds behind
\* every field of its struct a map with the key and the value it was declared
\* with.  Only the XDP build checks types; userland relies on it.
LayoutsMatch ==
  stage = "run" /\ UserHasMaps =>
    \A m \in Declared : <<defs[UserMap(m)].key, defs[UserMap(m)].val>> = TypesOf(m)

\* The XDP program and the library of a function mean the same map by a field:
\* each finds in it what either stored last.
Coherent ==
  stage = "run" =>
    \A m \in DOMAIN defs, k \in MapKeys :
      LET want == IF k \in DOMAIN last[m] THEN last[m][k] ELSE None
      IN  XdpGet(m, k) = want /\ (UserHasMaps => UserGet(m, k) = want)

\* What the author of a function can get right by looking at the struct and at
\* chain.toml: a named struct of pairs, a map for every field, and for an array
\* keys that are u32 and values that are Clone.
WellDeclared ==
  /\ MacroOK
  /\ LiteralFits
  /\ \A m \in DOMAIN given :
       given[m].kind = "array" => TypesOf(m)[1] = "u32" /\ TypesOf(m)[2] \in Cloneable

\* A well declared function is refused only when its fields are not declared
\* in the order of their names, and pulley panics only over a map that has the
\* name of one it writes to, and other types or too few entries.
RefusedForOrder ==
  /\ stage = "refused" /\ WellDeclared =>
       \E i \in Fields : decl.fields[i].name # Names[i] /\ NfTy(i) # TypesOf(Names[i])
  /\ stage = "panic" =>
       \E m \in Seeded :
         \/ TypesOf(m) # <<Seeds[m].key, Seeds[m].val>>
         \/ given[m].kind = "array" /\ given[m].size <= Seeds[m].at

\* "Expands an input struct to replace all `(K,V)` pairs into appropriate
\* Maps": a well declared function can be built.
WellDeclaredBuilds == stage = "refused" => ~WellDeclared
=============================================================================
