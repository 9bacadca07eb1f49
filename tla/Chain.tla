-------------------------------- MODULE Chain --------------------------------
(***************************************************************************)
(* The vocabulary chainsmith and pulley share: what a compiled service     *)
(* function chain says a network function (NF) does with a packet.  The    *)
(* fresh UUID chainsmith draws for a function stands for the function, so  *)
(* a function's name also serves as its UUID here.                         *)
(***************************************************************************)
EXTENDS Integers, Sequences, FiniteSets

NoNf == "none"

\* LinkAction.  The position of a kind is the byte to_kind puts in acts_map.
Kinds == <<"tx", "drop", "abort", "upcall", "tailcall", "pass">>

Act(kind)   == [kind |-> kind, nf |-> NoNf]
Upcall(f)   == [kind |-> "upcall", nf |-> f]
Tailcall(f) == [kind |-> "tailcall", nf |-> f]

ToKind(action) == CHOOSE n \in 0..5 : Kinds[n + 1] = action.kind

\* next_nf: the function of an upcall or a tailcall, otherwise None.
NextNf(action) == action.nf

\* XdpLinkState: Tail, or Body with an action for every value `packet` returns.
TailState  == [tail |-> TRUE, acts |-> <<>>]
BodyState(acts) == [tail |-> FALSE, acts |-> acts]

\* XdpLinkState::act.  A Body indexes its actions: out of range it panics.
ActPanics(state, out) == ~state.tail /\ out >= Len(state.acts)
ActOf(state, out) == IF state.tail THEN Act("tx") ELSE state.acts[out + 1]
=============================================================================
