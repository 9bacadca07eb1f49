------------------------------ MODULE ChainWalk ------------------------------
(***************************************************************************)
(* What a chain.toml promises for a packet, whether its functions run in   *)
(* the kernel or in userland: it enters at the function that rx leads to,  *)
(* what each function returns selects a target of that function's link,    *)
(* and a special target decides the packet's fate.  On the way from one    *)
(* function to the next a packet may be lost, which drops it.              *)
(***************************************************************************)
EXTENDS Integers, Sequences

VARIABLES
  cfg,     \* the chain file (see Chainsmith)
  at,      \* the function the packet is at or on its way to, or "rx"
  transit, \* whether it is still on its way
  fate     \* "none" until it is decided, then "tx", "drop" or "pass"

walkVars == <<cfg, at, transit, fate>>

\* The link of f leads to d when f returns `out`.
Leads(f, out, d) ==
  \E j \in 1..Len(cfg.links) :
    /\ cfg.links[j].from = f
    /\ out + 1 \in 1..Len(cfg.links[j].to)
    /\ cfg.links[j].to[out + 1].name = d

FateOf(name) == IF name = "abort" THEN "drop" ELSE name

Init ==
  /\ at = "rx"
  /\ transit = FALSE
  /\ fate = "none"

\* The packet comes in at the function rx leads to.
Enter ==
  /\ at = "rx"
  /\ at' \in cfg.functions
  /\ Leads("rx", 0, at')
  /\ UNCHANGED <<cfg, transit, fate>>

\* On to the next function, at once or by way of a queue.
Move ==
  /\ fate = "none"
  /\ ~transit
  /\ at \in cfg.functions
  /\ at' \in cfg.functions
  /\ \E out \in cfg.variants[at] : Leads(at, out, at')
  /\ \/ transit' \in BOOLEAN /\ UNCHANGED fate
     \/ fate' = "drop" /\ UNCHANGED transit
  /\ UNCHANGED cfg

\* It gets there, or the queue loses it.
Land ==
  /\ transit
  /\ transit' = FALSE
  /\ fate' \in {"none", "drop"}
  /\ UNCHANGED <<cfg, at>>

\* The function ends the walk.
Decide ==
  /\ fate = "none"
  /\ ~transit
  /\ at \in cfg.functions
  /\ \E out \in cfg.variants[at], name \in {"tx", "drop", "abort", "pass"} :
       Leads(at, out, name) /\ fate' = FateOf(name)
  /\ UNCHANGED <<cfg, at, transit>>

Next == Enter \/ Move \/ Land \/ Decide

Spec == Init /\ [][Next]_walkVars
=============================================================================
