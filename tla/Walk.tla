-------------------------------- MODULE Walk --------------------------------
(***************************************************************************)
(* A packet on its way through an installed chain.  The root runs in the   *)
(* kernel; a tailcall stays there, an upcall takes the packet, with the id *)
(* of the program and the value it returned written in front of it, to a   *)
(* dataplane thread, and from then on it stays in userland.                *)
(***************************************************************************)
EXTENDS Install

CONSTANT TailLimit   \* how many tailcalls the kernel makes for one packet

ASSUME WalkAssumption == TailLimit \in Nat

VARIABLES
  where,    \* "idle", "kernel", "queued", "user" or "done"
  at,       \* the function the packet is at; the last one once it is done
  out,      \* what that function returned, when it has been run
  meta,     \* the metadata an upcall writes
  hops,     \* tailcalls made
  fate      \* "none", "tx", "drop", "pass", or "crash": the thread panicked

packetVars == <<where, at, out, meta, hops, fate>>
walkVars   == <<installVars, packetVars>>

NoOut == -1

PacketInit ==
  /\ where = "idle"
  /\ at = NoNf
  /\ out = NoOut
  /\ meta = [prog_id |-> 0, act |-> 0]
  /\ hops = 0
  /\ fate = "none"

End(f) ==
  /\ where' = "done"
  /\ fate' = f

(***************************************************************************)
(* In the kernel.                                                          *)
(***************************************************************************)
Arrive ==
  /\ where = "idle"
  /\ attached # NoNf
  /\ where' = "kernel"
  /\ at' = attached
  /\ UNCHANGED <<out, meta, hops, fate>>

\* The `end` program of a Tail transmits whatever its function returns.
RunEnd ==
  /\ where = "kernel"
  /\ chain.link[at].state.tail
  /\ out' \in cfg.variants[at]
  /\ End("tx")
  /\ UNCHANGED <<at, meta, hops>>

\* What acts_map.get(o) says; beyond its entries the program returns an error,
\* which lets the packet pass.
KernelAct(o) ==
  IF o \in DOMAIN acts_map[at] THEN Kinds[acts_map[at][o] + 1] ELSE "pass"

\* The `chain` program, for the actions that end in the kernel.
RunLink ==
  /\ where = "kernel"
  /\ ~chain.link[at].state.tail
  /\ out' \in cfg.variants[at]
  /\ KernelAct(out') \notin {"upcall", "tailcall"}
  /\ End(IF KernelAct(out') = "abort" THEN "drop" ELSE KernelAct(out'))
  /\ UNCHANGED <<at, meta, hops>>

\* Mutant: one tailcall too many.
MutRunTailcall ==
  /\ where = "kernel"
  /\ ~chain.link[at].state.tail
  /\ out' \in cfg.variants[at]
  /\ KernelAct(out') = "tailcall"
  /\ IF out' \in DOMAIN progs_map[at] /\ hops <= TailLimit
     THEN /\ at' = progs_map[at][out']
          /\ hops' = hops + 1
          /\ UNCHANGED <<where, fate>>
     ELSE End("drop") /\ UNCHANGED <<at, hops>>
  /\ UNCHANGED meta

\* tail_call returns, and the packet is aborted, when there is no program to
\* jump to or the limit is reached.
RunTailcall ==
  /\ where = "kernel"
  /\ ~chain.link[at].state.tail
  /\ out' \in cfg.variants[at]
  /\ KernelAct(out') = "tailcall"
  /\ IF out' \in DOMAIN progs_map[at] /\ hops < TailLimit
     THEN /\ at' = progs_map[at][out']
          /\ hops' = hops + 1
          /\ UNCHANGED <<where, fate>>
     ELSE End("drop") /\ UNCHANGED <<at, hops>>
  /\ UNCHANGED meta

\* The metadata may not fit, and the redirect may fail or find the rx queue
\* full; otherwise some dataplane thread gets the packet.
RunUpcall ==
  /\ where = "kernel"
  /\ ~chain.link[at].state.tail
  /\ out' \in cfg.variants[at]
  /\ KernelAct(out') = "upcall"
  /\ \/ /\ where' = "queued"
        /\ meta' = [prog_id |-> prog_id[at], act |-> out']
        /\ UNCHANGED fate
     \/ End("drop") /\ UNCHANGED meta
  /\ UNCHANGED <<at, hops>>

(***************************************************************************)
(* In dataplane_core.                                                      *)
(***************************************************************************)

\* The metadata is not where it is expected (the frame is removed), or pulley
\* has given up and closed its sockets.
Misread ==
  /\ where = "queued"
  /\ client \in {"run", "io_error"}
  /\ End("drop")
  /\ UNCHANGED <<at, out, meta, hops>>

\* Mutant: the value is looked up one place too far.
MutLookup ==
  IF meta.prog_id \notin DOMAIN instance_ids THEN NoNf
  ELSE LET src == instance_ids[meta.prog_id]
       IN  IF src \notin DOMAIN link_states \/ ActPanics(link_states[src], meta.act + 1)
           THEN NoNf ELSE NextNf(ActOf(link_states[src], meta.act + 1))

\* instance_ids.get(..), link_states.get(..), act(..) and next_nf(), unwrapped.
Lookup ==
  IF meta.prog_id \notin DOMAIN instance_ids THEN NoNf
  ELSE LET src == instance_ids[meta.prog_id]
       IN  IF src \notin DOMAIN link_states \/ ActPanics(link_states[src], meta.act)
           THEN NoNf ELSE NextNf(ActOf(link_states[src], meta.act))

\* A thread works out which function the upcall was for.
Receive ==
  /\ where = "queued"
  /\ client = "run"
  /\ IF Lookup = NoNf
     THEN End("crash") /\ UNCHANGED at
     ELSE where' = "user" /\ at' = Lookup /\ UNCHANGED fate
  /\ UNCHANGED <<out, meta, hops>>

\* user_nf_program takes its maps apart; given another number of maps than it
\* was compiled for it returns usize::MAX, cut to 32 bits by the caller.  (The
\* largest of TLC's integers stands for it: no chain has that many actions.)
Max32 == 2147483647

MapsGiven == IF at \in DOMAIN raw_maps THEN raw_maps[at] ELSE 0

UserReturns ==
  IF MapsGiven # Cardinality(chain.nfs[at].symbols) THEN {Max32} ELSE cfg.variants[at]

UserPanics(o) == at \notin dylibs \/ ActPanics(link_states[at], o)

\* Mutant: curr_uuid is not set to the next function.
MutRunUser ==
  /\ where = "user"
  /\ \E o \in UserReturns :
       /\ out' = o
       /\ ~UserPanics(o)
       /\ LET action == ActOf(link_states[at], o)
          IN  \/ /\ action.kind \in {"tailcall", "upcall"}
                 /\ UNCHANGED <<at, where, fate>>
              \/ /\ action.kind \notin {"tailcall", "upcall"}
                 /\ End(IF action.kind = "tx" THEN "tx" ELSE "drop")
                 /\ UNCHANGED at
  /\ UNCHANGED <<meta, hops>>

\* Run the function and look up what its value means: go on to another
\* function, leave the frame in the Tx block, or else discard it.
RunUser ==
  /\ where = "user"
  /\ \E o \in UserReturns :
       /\ out' = o
       /\ ~UserPanics(o)
       /\ LET action == ActOf(link_states[at], o)
          IN  \/ /\ action.kind \in {"tailcall", "upcall"}
                 /\ at' = NextNf(action)
                 /\ UNCHANGED <<where, fate>>
              \/ /\ action.kind \notin {"tailcall", "upcall"}
                 /\ End(IF action.kind = "tx" THEN "tx" ELSE "drop")
                 /\ UNCHANGED at
  /\ UNCHANGED <<meta, hops>>

\* There is no library, or no action for the value: the thread panics.
CrashUser ==
  /\ where = "user"
  /\ out' \in UserReturns
  /\ UserPanics(out')
  /\ End("crash")
  /\ UNCHANGED <<at, meta, hops>>
-----------------------------------------------------------------------------
Kernel == Arrive \/ RunEnd \/ RunLink \/ RunTailcall \/ RunUpcall
User   == Misread \/ Receive \/ RunUser \/ CrashUser
PacketNext == Kernel \/ User

WalkInit == InstallInit /\ PacketInit

WalkNext ==
  \/ InstallNext /\ UNCHANGED packetVars
  \/ PacketNext /\ UNCHANGED installVars

\* A packet that has arrived is worked on: XDP programs run to their end, and
\* the dataplane threads poll.  No packet need arrive.
WalkSpec ==
  /\ WalkInit /\ [][WalkNext]_walkVars
  /\ WF_walkVars(ClientNext /\ UNCHANGED <<serverVars, packetVars>>)
  /\ WF_walkVars(PacketNext /\ where # "idle" /\ UNCHANGED installVars)
-----------------------------------------------------------------------------
\* The types of the packet's state.
PacketTypeOK ==
  /\ where \in {"idle", "kernel", "queued", "user", "done"}
  /\ at \in cfg.functions \union {NoNf}
  /\ hops \in 0..TailLimit
  /\ fate \in {"none", "tx", "drop", "pass", "crash"}
  /\ (fate = "none") = (where # "done")

\* No network function, action or id of an installed chain makes a dataplane
\* thread panic: none of the unwraps and the indexing of dataplane_core fails.
NoCrash == fate # "crash"

\* The packet's end is the one its last function asked for: the special target
\* selected by what it returned, or a drop when it was to go on but was lost.
\* A chain file means the same in the kernel and in userland.
FateAsConfigured ==
  fate \in {"tx", "drop", "pass"} =>
    \E j \in 1..Len(cfg.links) :
      /\ cfg.links[j].from = at
      /\ out \in 0..(Len(cfg.links[j].to) - 1)
      /\ LET d == cfg.links[j].to[out + 1].name
         IN  fate = IF d \in cfg.functions \union {"abort"} THEN "drop" ELSE d

\* The enum gives some variant a value other than its place in the list.
Explicit(f) == cfg.variants[f] # 0..(ReturnLen(f) - 1)

\* user_nf_program expects maps that install_chain found no program to take from.
Mapless(f) == f \in cfg.disable_xdp /\ cfg.maps[f] # {}

\* A name make_concrete takes for something else: links of a function called rx
\* are links from the network, and a single target tx is the special one even
\* where a function has that name.
Misnamed(f) ==
  \/ f = "rx"
  \/ "tx" \in cfg.functions /\ \E j \in FromLinks(f) : IsTail(cfg.links[j].to)

\* The four ways in which a function of a served chain can make a dataplane
\* thread panic: it has maps but no XDP program to take them from, it has a
\* second link, its enum has explicit values, of which chainsmith only counts
\* how many there are, or its name is a special one.
Faulty(f) == LinkedTwice(f) \/ Mapless(f) \/ Explicit(f) \/ Misnamed(f)

CrashExplained == ~NoCrash => Faulty(at)

\* Once in userland a packet stays there: U holds every function behind an
\* upcall, and all that those lead to.
Closed(U) ==
  \A j \in 1..Len(cfg.links) : \A i \in 1..Len(cfg.links[j].to) :
    LET d == cfg.links[j].to[i]
    IN  d.name \in cfg.functions /\ (cfg.links[j].from \in U \/ Resolve(d).kind = "upcall")
          => d.name \in U

Userland == {f \in cfg.functions : \A U \in SUBSET cfg.functions : Closed(U) => f \in U}

\* A function that may run in userland lets packets pass.
Swallows(f) ==
  /\ f \in Userland
  /\ \E j \in FromLinks(f) : \E i \in 1..Len(cfg.links[j].to) :
       cfg.links[j].to[i].name = "pass"

\* The same four, and a `pass` in userland, are the only ways in which a packet
\* can end other than as its last function asked for: a value no action was
\* generated for lets it pass in the kernel, or transmits it where the table was
\* rounded up, and what userland would let pass is discarded.
FateExplained == ~FateAsConfigured => Faulty(at) \/ Swallows(at)

\* The function a packet is at in the abstract walk: a queued packet has left
\* for the one its upcall names, a lost one for the one it was sent to.
Onward ==
  IF where = "queued" \/ (fate = "drop" /\ ~chain.link[at].state.tail
                            /\ out + 1 \in 1..Len(chain.link[at].state.acts)
                            /\ NextNf(chain.link[at].state.acts[out + 1]) # NoNf)
  THEN NextNf(chain.link[at].state.acts[out + 1])
  ELSE IF where = "idle" THEN "rx" ELSE at

\* The files whose walks chain.toml settles: none of the faults above.
Sound == \A f \in cfg.functions : ~Faulty(f) /\ ~Swallows(f)

\* Of a file that is not sound nothing is promised: its packets stay at rx.
ByTheBook ==
  INSTANCE ChainWalk WITH
    at <- (IF Sound THEN Onward ELSE "rx"),
    transit <- (Sound /\ where = "queued"),
    fate <- (IF Sound THEN fate ELSE "none")

\* An installed chain does with every packet what its chain.toml says, if the
\* file is sound.
ImplementsChainWalk == ByTheBook!Spec

\* By the links of the file f leads back to itself.
Circular(f) ==
  \A U \in SUBSET cfg.functions :
    (\A j \in 1..Len(cfg.links) : \A i \in 1..Len(cfg.links[j].to) :
       /\ cfg.links[j].from \in U \union {f}
       /\ cfg.links[j].to[i].name \in cfg.functions
       => cfg.links[j].to[i].name \in U)
    => f \in U

\* Every packet meets its fate, with one exception: in userland, where nothing
\* counts the functions a packet has been through, it may go round a cycle of the
\* file for ever, and its thread with it.
WalkEnds ==
  \/ (where # "idle") ~> (where = "done")
  \/ <>[](where = "user" /\ at \in Userland /\ Circular(at))
=============================================================================
