------------------------------- MODULE MCWalk -------------------------------
(***************************************************************************)
(* Chain files over the functions a (the root), b and c.                   *)
(***************************************************************************)
EXTENDS Walk, ChainFiles

Fns == {"a", "b", "c"}

\* rx -> a; a -> b or c; b -> c or drop; c -> tx
Base ==
  [functions |-> Fns, disable_xdp |-> {}, unreadable |-> {},
   variants |-> ("a" :> {0, 1} @@ "b" :> {0, 1} @@ "c" :> {0}),
   map_type |-> {"c"}, maps |-> ("a" :> {} @@ "b" :> {} @@ "c" :> {Plain("m")}),
   bad_share |-> {}, bad_seed |-> {}, buildable |-> Targets64,
   links |-> << Link("rx", <<To("a")>>), Link("a", <<To("b"), To("c")>>),
                Link("b", <<To("c"), To("drop")>>), Link("c", <<To("tx")>>) >>]

FromA == {<<To("b"), To("c")>>, <<Bang("b"), To("c")>>, <<To("b"), Bang("c")>>,
          <<Bang("b"), To("pass")>>, <<To("drop"), Bang("c")>>, <<To("abort"), To("b")>>}

\* Mixtures of tailcalls, upcalls and ends, with functions that only exist in
\* userland; c, which has a map, may be a Tail or end in a branch.
Mixed ==
  {[Base EXCEPT !.links[2].to = a, !.links[3].to[2] = b, !.links[4].to = c,
                !.disable_xdp = d] :
     a \in FromA, b \in {To("tx"), To("abort"), Bang("c")},
     c \in {<<To("tx")>>, <<To("drop")>>}, d \in {{}, {"b"}}}

\* Every function in the kernel, and a cycle only the tailcall limit ends.
KernelCycle == {[Base EXCEPT !.links[3].to[2] = To("a")]}

\* A cycle that a packet enters by an upcall: the loop of dataplane_core has no
\* limit, and whether the packet leaves is up to the functions.  In the last file
\* there is no way out.  (A function that leads to itself is left out: going round
\* it changes nothing in the model.)
UserCycles ==
  {[Base EXCEPT !.links[2].to[1] = Bang("b"), !.links[3].to[2] = to] :
     to \in {To("a"), Bang("a")}} \union
  {[Base EXCEPT !.links[2].to[1] = Bang("b"), !.links[3].to[2] = To("c"),
                !.links[4].to = <<To("b")>>]}

\* Three variants: acts_map is rounded up to four entries.
Uneven ==
  {[Base EXCEPT !.variants["a"] = {0, 1, 2}, !.links[2].to = to] :
     to \in {<<To("b"), To("pass"), Bang("c")>>, <<To("tx"), To("c"), To("drop")>>}}

Files == Mixed \union KernelCycle \union UserCycles \union Uneven

\* The root only exists in userland.
UserRoot == {[Base EXCEPT !.disable_xdp = {"a"}]}

\* A function reached by an upcall lets packets pass.
UserPass == {[Base EXCEPT !.links[2].to[1] = Bang("b"), !.links[3].to[2] = To("pass")]}

\* A fourth function, whose name is a special one.
Named(f) ==
  [Base EXCEPT !.functions = @ \union {f}, !.variants = @ @@ (f :> {0}), !.maps = @ @@ (f :> {})]

\* `c -> tx` is the end of the chain, `a -> tx` the function; links from rx are
\* not those of the function called rx.
Misnomers ==
  {[Named("tx") EXCEPT !.links[2].to[2] = to, !.links = Append(@, Link("tx", <<To("drop")>>))] :
     to \in {To("tx"), Bang("tx")}} \union
  {[Named("rx") EXCEPT !.links[2].to[2] = to] : to \in {To("rx"), Bang("rx")}}

\* Chain files that chainsmith serves although something is wrong with them:
\* a root or a `pass` in userland, a special name, a map whose name the two sides
\* spell differently, or whose entries have other sizes than those pulley stores,
\* maps without an XDP program, a second link with more or
\* fewer targets, and enums with explicit values: beyond the table, in the part
\* of it that is padding, and behind an upcall.
Odd ==
  UserRoot \union UserPass \union Misnomers \union
  {[Base EXCEPT !.maps["c"] = {Joined("m")}],
   [Base EXCEPT !.bad_seed = {"c"}],
   [Base EXCEPT !.bad_seed = {"c"}, !.disable_xdp = {"c"}, !.links[2].to[2] = Bang("c"),
                !.links[3].to[1] = Bang("c")],
   [Base EXCEPT !.links[2].to[1] = Bang("c"), !.disable_xdp = {"c"}],
   [Base EXCEPT !.links[2].to[1] = Bang("c"), !.links[4].to = <<To("drop")>>,
                !.disable_xdp = {"c"}],
   [Base EXCEPT !.links = Append(@, Link("a", <<To("b"), To("c"), To("tx")>>))],
   [Base EXCEPT !.links = Append(@, Link("a", <<To("tx")>>))],
   [Base EXCEPT !.links[2].to[1] = Bang("b"),
                !.links = Append(@, Link("b", <<To("pass")>>))],
   [Base EXCEPT !.variants["a"] = {1, 2}],
   [Base EXCEPT !.variants["a"] = {0, 1, 3}, !.links[2].to = <<To("b"), Bang("c"), To("drop")>>],
   [Base EXCEPT !.variants["a"] = {0, 2}, !.links[2].to[1] = Bang("c")],
   [Base EXCEPT !.variants["b"] = {1, 5}, !.links[2].to[1] = Bang("b")]}

AllFiles == Files \union Odd

OneArch == {"x86_64"}
=============================================================================
