---------------------------- MODULE MCChainsmith ----------------------------
(***************************************************************************)
(* Chain files over the functions a and b.  Each family varies one part of *)
(* a sound file; together they hold every way a build can end.             *)
(***************************************************************************)
EXTENDS Chainsmith, ChainFiles

Fns == {"a", "b"}

\* rx -> a, a -> b or tx, b -> tx
Base ==
  [functions |-> Fns, disable_xdp |-> {}, unreadable |-> {},
   variants |-> ("a" :> {0, 1} @@ "b" :> {0}),
   map_type |-> {"a"}, maps |-> ("a" :> {Plain("m")} @@ "b" :> {}), bad_share |-> {},
   bad_seed |-> {}, buildable |-> Targets64,
   links |-> << Link("rx", <<To("a")>>), Link("a", <<To("b"), To("tx")>>),
                Link("b", <<To("tx")>>) >>]

Targets == {To("b"), Bang("b"), To("tx"), To("pass"), To("ghost"), Bang("drop")}
Tos == UNION {[1..n -> Targets] : n \in 1..2}

\* Where a's branches lead, how many it has, and which functions are userland only.
Branches ==
  {[Base EXCEPT !.links[2].to = to, !.variants["a"] = v, !.disable_xdp = d] :
     to \in Tos, v \in {{0}, {0, 1}}, d \in SUBSET Fns}

\* What receives from rx, and in which place of the file that is said.
Entries ==
  {[Base EXCEPT !.links = IF last THEN <<@[2], @[3], Link("rx", to)>>
                          ELSE <<Link("rx", to), @[2], @[3]>>] :
     to \in {<<>>, <<To("a")>>, <<Bang("a")>>, <<To("tx")>>, <<To("a"), To("b")>>},
     last \in BOOLEAN}

\* Sources, maps and hosts that do not fit.
Faults ==
  {[Base EXCEPT !.unreadable = {"b"}], [Base EXCEPT !.variants["b"] = {}],
   [Base EXCEPT !.map_type = {}], [Base EXCEPT !.map_type = Fns],
   [Base EXCEPT !.bad_share = {"a"}], [Base EXCEPT !.buildable = {"aarch64"}],
   [Base EXCEPT !.links[3].from = "ghost"],
   [Base EXCEPT !.links = Append(@, Link("ghost", <<To("tx")>>))],
   [Base EXCEPT !.links = Append(@, Link("rx", <<To("b")>>))]}

Files == Branches \union Entries \union Faults

\* A second link from a, with more or fewer targets than a has variants.
TwiceLinked ==
  {[Base EXCEPT !.links = Append(@, Link("a", to))] : to \in Tos}
=============================================================================
