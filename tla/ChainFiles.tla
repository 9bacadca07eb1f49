----------------------------- MODULE ChainFiles -----------------------------
(***************************************************************************)
(* A notation for the chain files of the model-checking runs.              *)
(***************************************************************************)
EXTENDS Integers, Sequences, TLC

To(name)   == [up |-> FALSE, name |-> name]
Bang(name) == [up |-> TRUE, name |-> name]
Link(from, to) == [from |-> from, to |-> to]
Plain(w)  == [words |-> w, plain |-> TRUE]
Joined(w) == [words |-> w, plain |-> FALSE]

Targets64 == {"x86_64", "aarch64"}
=============================================================================
