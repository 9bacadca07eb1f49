------------------------------- MODULE Startup -------------------------------
(***************************************************************************)
(* How pulley's main hands out the dataplane: how many threads there are,  *)
(* which one owns the fill and completion queue of the UMEM, and which     *)
(* ends of the spent-descriptor rings each of them gets.  Umem starts from *)
(* the assignment made here.                                               *)
(***************************************************************************)
EXTENDS Integers, Sequences, FiniteSets

CONSTANTS
  Parallelism,  \* values available_parallelism may give; 0: it failed
  CoresOption   \* values --xdp-cores may have

Unset == -1     \* --xdp-cores is not given

ASSUME StartupAssumption ==
  /\ Parallelism \subseteq Nat
  /\ CoresOption \subseteq Nat \union {Unset}

VARIABLES
  opts,       \* the command line and the machine
  step,       \* what main is doing
  xdp_ct,     \* number of dataplane threads
  mediate,    \* sockets whose xsk.mediate is Some
  senders,    \* ring_senders
  receivers,  \* ring_receivers: None once taken
  t_id,       \* next thread to spawn
  role        \* what each thread was given

vars == <<opts, step, xdp_ct, mediate, senders, receivers, t_id, role>>

None == [taken |-> TRUE, rings |-> {}]
Some(S) == [taken |-> FALSE, rings |-> S]

ExtraThread == opts.umem_mode = "extra-thread"

Init ==
  /\ opts \in [cpus : Parallelism, xdp_cores : CoresOption, share_umem : BOOLEAN,
               umem_mode : {"first-thread", "extra-thread"}]
  /\ step = "derive"
  /\ xdp_ct = 0
  /\ mediate = {}
  /\ senders = <<>>
  /\ receivers = None
  /\ t_id = 0
  /\ role = <<>>

Estimate == IF opts.cpus = 0 THEN 1 ELSE opts.cpus - 1
Asked == IF opts.xdp_cores = Unset THEN Estimate ELSE opts.xdp_cores

\* Mutant: the number of threads is not capped.
MutClamped == IF Asked < 1 THEN 1 ELSE Asked

\* .max(1).min(8)
Clamped == IF Asked < 1 THEN 1 ELSE IF Asked > 8 THEN 8 ELSE Asked

\* The number of threads; several of them need --share-umem.
Derive ==
  /\ step = "derive"
  /\ xdp_ct' = Clamped
  /\ step' = IF Clamped > 1 /\ ~opts.share_umem THEN "error" ELSE "sockets"
  /\ UNCHANGED <<opts, mediate, senders, receivers, t_id, role>>

\* create_upcall_sockets: the first socket on a UMEM gets its queues.
Sockets ==
  /\ step = "sockets"
  /\ mediate' = IF opts.share_umem THEN {0} ELSE 0..(xdp_ct - 1)
  /\ step' = "rings"
  /\ UNCHANGED <<opts, xdp_ct, senders, receivers, t_id, role>>

\* Mutant: thread 0 gets a ring although it mediates itself.
MutNeededRings == xdp_ct

NeededRings == xdp_ct - (IF ExtraThread THEN 0 ELSE 1)

Rings ==
  /\ step = "rings"
  /\ senders' = [r \in 1..NeededRings |-> r]
  /\ receivers' = Some(1..NeededRings)
  /\ step' = IF ExtraThread THEN "extra" ELSE "spawn"
  /\ UNCHANGED <<opts, xdp_ct, mediate, t_id, role>>

Given(kind, sends, receives, owns) ==
  [kind |-> kind, sends |-> sends, receives |-> receives, mediates |-> owns]

SetRole(t, r) == role' = [x \in DOMAIN role \union {t} |-> IF x = t THEN r ELSE role[x]]

\* The disposal thread takes the queues of socket 0 and all the receivers; it
\* is listed as thread -1.
SpawnExtra ==
  /\ step = "extra"
  /\ IF 0 \in mediate /\ ~receivers.taken
     THEN SetRole(-1, Given("disposal", 0, receivers.rings, TRUE))
     ELSE SetRole(-1, Given("fatal", 0, {}, FALSE))
  /\ mediate' = mediate \ {0}
  /\ receivers' = None
  /\ step' = "spawn"
  /\ UNCHANGED <<opts, xdp_ct, senders, t_id>>

\* Mutant: only the threads after thread 0 are given a sender.
MutGetsSender(t) == t # 0 /\ senders # <<>>

\* ring_senders.pop() yields a ring for these threads.
GetsSender(t) == (ExtraThread \/ t # 0) /\ senders # <<>>

\* Which loop a thread runs, and its "FATAL" expectations.
Role(t) ==
  IF GetsSender(t) THEN Given("other", senders[Len(senders)], {}, FALSE)
  ELSE IF t \notin mediate \/ (xdp_ct # 1 /\ receivers.taken)
  THEN Given("fatal", 0, {}, FALSE)
  ELSE IF xdp_ct = 1 THEN Given("solo", 0, {}, TRUE)
  ELSE Given("self", 0, receivers.rings, TRUE)

Spawn ==
  /\ step = "spawn"
  /\ t_id < xdp_ct
  /\ SetRole(t_id, Role(t_id))
  /\ receivers' = None
  /\ senders' = IF GetsSender(t_id) THEN SubSeq(senders, 1, Len(senders) - 1) ELSE senders
  /\ t_id' = t_id + 1
  /\ UNCHANGED <<opts, step, xdp_ct, mediate>>

\* "Press ctrl+c to exit."
AllSpawned ==
  /\ step = "spawn"
  /\ t_id = xdp_ct
  /\ step' = "running"
  /\ UNCHANGED <<opts, xdp_ct, mediate, senders, receivers, t_id, role>>

Next == Derive \/ Sockets \/ Rings \/ SpawnExtra \/ Spawn \/ AllSpawned

Spec == Init /\ [][Next]_vars
-----------------------------------------------------------------------------
\* The types of what main keeps while it starts up.
StartupTypeOK ==
  /\ step \in {"derive", "sockets", "rings", "extra", "spawn", "running", "error"}
  /\ xdp_ct \in 0..8
  /\ mediate \subseteq 0..7
  /\ t_id \in 0..8
  /\ DOMAIN role \subseteq -1..7
  /\ \A t \in DOMAIN role :
       role[t].kind \in {"disposal", "other", "solo", "self", "fatal"}

\* "FATAL: thread ..": no command line on any machine makes a thread find that
\* something it needs was given to another one.
NoFatal == \A t \in DOMAIN role : role[t].kind # "fatal"

\* Once every thread runs, the UMEM has exactly one mediator; every other
\* dataplane thread sends into a ring of its own, and the mediator receives
\* from exactly those rings, so that no spent descriptor is sent where nobody
\* looks.
RolesMatch ==
  step = "running" =>
    LET Mediators == {t \in DOMAIN role : role[t].mediates}
        Others    == DOMAIN role \ Mediators
    IN  /\ DOMAIN role \ {-1} = 0..(xdp_ct - 1)
        /\ Cardinality(Mediators) = 1
        /\ \A s, t \in Others : role[s].sends = role[t].sends => s = t
        /\ \A m \in Mediators :
             /\ role[m].receives = {role[t].sends : t \in Others}
             /\ m = IF ExtraThread THEN -1 ELSE 0
=============================================================================
