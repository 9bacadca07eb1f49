------------------------------ MODULE MCNfMaps ------------------------------
(***************************************************************************)
(* Structs of up to three fields, their names numbered in alphabetical     *)
(* order, and the maps a chain.toml may give them.                         *)
(***************************************************************************)
EXTENDS NfMaps, TLC

Types == {"u32", "bool", "pod"}

\* pod is a struct that does not derive Clone, like PodData of the example.
CloneTypes == {"u32", "bool"}

Field(m, key, val) == [name |-> m, tuple |-> TRUE, types |-> <<key, val>>]
Named(fields) == [shape |-> "named", fields |-> fields]

Pairs ==
  {Named(<<Field(m, k1, v1), Field(3 - m, k2, v2)>>) :
     m \in {1, 2}, k1 \in Types, v1 \in Types, k2 \in Types, v2 \in Types}

\* Three fields, none of a name pulley knows.
Triples ==
  {Named([i \in 1..3 |-> Field(o[i], "u32", IF o[i] = 4 THEN v ELSE "pod")]) :
     o \in {<<3, 4, 5>>, <<5, 3, 4>>, <<4, 3, 5>>}, v \in {"u32", "pod"}}

\* What #[maps] or rustc refuses: no names, a field that is no tuple, a triple,
\* a field that chain.toml does not know.
Faulty ==
  {[shape |-> "unit", fields |-> <<>>],
   [shape |-> "unnamed", fields |-> <<Field(1, "u32", "u32"), Field(2, "u32", "u32")>>],
   Named(<<Field(1, "u32", "u32"), [name |-> 2, tuple |-> FALSE, types |-> <<"u32">>]>>),
   Named(<<Field(1, "u32", "u32"), [name |-> 2, tuple |-> TRUE, types |-> <<"u32", "u32", "u32">>]>>),
   Named(<<Field(1, "u32", "u32"), Field(3, "u32", "u32")>>)}

Structs == Pairs \union Triples \union Faulty \union {Named(<<Field(2, "u32", "u32")>>)}

Given(kind, size) == [kind |-> kind, size |-> size]
Kinds == {Given("array", 1), Given("hash_map", 1), Given("hash_map", 2)}

Tomls == {1 :> a @@ 2 :> b : a \in Kinds, b \in Kinds} \union {2 :> a : a \in Kinds}
         \union {3 :> a @@ 4 :> b @@ 5 :> a : a \in Kinds, b \in Kinds}

\* BLOCKED_IPS gets an address, far beyond any array, UPCALL_LIKELIHOOD entry 0.
\* A bool is a byte, u32 and pod are of other sizes.
Known == 1 :> [key |-> "u32", val |-> "bool", at |-> 1] @@
         2 :> [key |-> "u32", val |-> "u32", at |-> 0]

TwoKeys == {0, 1}
TwoVals == {1, 2}
=============================================================================
