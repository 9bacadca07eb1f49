----------------------------- MODULE Chainsmith -----------------------------
(***************************************************************************)
(* The compile server.  For every supported architecture main runs         *)
(* compile_chain over chain.toml: read the sources of the functions, write *)
(* and build their XDP and userland crates, turn the links into actions.   *)
(* The first error or panic ends the program; only when every architecture *)
(* is built does it start to serve.                                        *)
(*                                                                         *)
(* A chain.toml, together with what the sources of its functions say, is a *)
(* record of Config:                                                       *)
(*   functions    the names under [functions]                              *)
(*   disable_xdp  those that only exist in userland                        *)
(*   unreadable   those whose lib.rs has no usable `packet` function       *)
(*   variants     the values of the enum that `packet` returns; none when  *)
(*                it returns nothing                                       *)
(*   map_type     those whose `packet` takes a struct of maps              *)
(*   maps         the maps given to each function (see MapName)            *)
(*   bad_share    those naming a shared map that [maps] does not define    *)
(*   bad_seed     those with a map called BLOCKED_IPS or UPCALL_LIKELIHOOD *)
(*                whose keys or values have other sizes than pulley writes *)
(*   links        [from, to], a target being [up, name]: `!name` forces an *)
(*                upcall                                                   *)
(*   buildable    the architectures this host has a userland compiler for  *)
(***************************************************************************)
EXTENDS Chain

\* The largest table of actions this model can name.
LargestEnum == 1073741824

CONSTANTS
  Config,       \* the chain.toml files considered
  Arch          \* SUPPORTED_ARCHES

ASSUME ChainsmithAssumption ==
  /\ IsFiniteSet(Arch)
  /\ \A c \in Config :
       /\ IsFiniteSet(c.functions)
       /\ NoNf \notin c.functions
       /\ c.disable_xdp \subseteq c.functions
       /\ c.variants \in [c.functions -> SUBSET Nat]
       /\ \A f \in c.functions :
            /\ IsFiniteSet(c.variants[f])
            /\ Cardinality(c.variants[f]) <= LargestEnum
            /\ IsFiniteSet(c.maps[f])
            /\ \A m \in c.maps[f] :
                 m.plain \in BOOLEAN /\ m = [words |-> m.words, plain |-> m.plain]
       /\ c.links \in Seq([from : STRING, to : Seq([up : BOOLEAN, name : STRING])])

VARIABLES
  cfg,       \* chain.toml and the sources
  phase,     \* what compile_chain is doing
  arch,      \* the architecture being built
  waiting,   \* architectures still to build
  todo,      \* functions the current phase has still to handle
  slots,     \* entries of acts_map and progs_map, per function
  nfs,       \* `binaries`: which payloads each function has
  k,         \* links processed by make_concrete
  linked,    \* new_fns of make_concrete
  rxCount,   \* rx_recv_count
  served     \* chain_datas: the message ready for each architecture

unit == <<todo, slots, nfs, k, linked, rxCount>>
serverVars == <<cfg, phase, arch, waiting, unit, served>>

Failed == {"error", "panic"}

\* Mutant: main goes on with the next target.
MutFail(kind) ==
  /\ phase' = "next"
  /\ UNCHANGED <<cfg, arch, waiting, unit, served>>

Fail(kind) ==
  /\ phase' = kind
  /\ UNCHANGED <<cfg, arch, waiting, unit, served>>

(***************************************************************************)
(* compile_chain, one architecture after the other.                        *)
(***************************************************************************)
ServerInit ==
  /\ cfg \in Config
  /\ phase = "next"
  /\ arch = "none"
  /\ waiting = Arch
  /\ todo = {}
  /\ slots = <<>>
  /\ nfs = <<>>
  /\ k = 0
  /\ linked = <<>>
  /\ rxCount = 0
  /\ served = <<>>

\* Mutant: rx is taken for a function to build.
MutNextArch(a) ==
  /\ phase = "next"
  /\ a \in waiting
  /\ arch' = a
  /\ waiting' = waiting \ {a}
  /\ phase' = "analyse"
  /\ todo' = {cfg.links[j].from : j \in 1..Len(cfg.links)}
  /\ slots' = [f \in cfg.functions |-> 0]
  /\ nfs' = <<>>
  /\ k' = 0
  /\ linked' = <<>>
  /\ rxCount' = 0
  /\ UNCHANGED <<cfg, served>>

\* The next target of main's loop; what an earlier target left is discarded.
NextArch(a) ==
  /\ phase = "next"
  /\ a \in waiting
  /\ arch' = a
  /\ waiting' = waiting \ {a}
  /\ phase' = "analyse"
  /\ todo' = cfg.functions
  /\ slots' = [f \in cfg.functions |-> 0]
  /\ nfs' = <<>>
  /\ k' = 0
  /\ linked' = <<>>
  /\ rxCount' = 0
  /\ UNCHANGED <<cfg, served>>

\* A directory or a file cannot be made, read or written, or chain.toml cannot
\* be parsed: the error leaves compile_chain.
FileError ==
  /\ phase \in {"analyse", "write_xdp", "write_user"}
  /\ Fail("error")

\* get_nf_return_types
Analyse ==
  /\ phase = "analyse"
  /\ IF cfg.unreadable = {}
     THEN /\ phase' = "write_xdp"
          /\ UNCHANGED <<cfg, arch, waiting, unit, served>>
     ELSE Fail("error")

FromLinks(f) == {j \in 1..Len(cfg.links) : cfg.links[j].from = f}

\* self.links.iter().find(..): only the first link from f is looked at.
FirstLink(f) == cfg.links[CHOOSE j \in FromLinks(f) : \A l \in FromLinks(f) : j <= l]

\* NfReturnType::len
ReturnLen(f) == IF cfg.variants[f] = {} THEN 1 ELSE Cardinality(cfg.variants[f])

\* usize::next_power_of_two, up to LargestEnum.
PowerOfTwo ==
  {1, 2, 4, 8, 16, 32, 64, 128, 256, 512, 1024, 2048, 4096, 8192, 16384, 32768,
   65536, 131072, 262144, 524288, 1048576, 2097152, 4194304, 8388608, 16777216,
   33554432, 67108864, 134217728, 268435456, 536870912, LargestEnum}
NextPowerOfTwo(n) == CHOOSE p \in PowerOfTwo : n <= p /\ \A q \in PowerOfTwo : n <= q => p <= q

\* Both writers panic unless maps and a map type come together, and on a
\* shared map nobody defines.
MapsPanic(f) == (cfg.maps[f] = {}) # (f \notin cfg.map_type) \/ f \in cfg.bad_share

\* Mutant: the number of targets is not compared.
MutBranchMismatch(f) == FromLinks(f) = {}

\* The number of targets must be the number of variants.
BranchMismatch(f) ==
  \/ FromLinks(f) = {}
  \/ cfg.variants[f] # {} /\ Len(FirstLink(f).to) # Cardinality(cfg.variants[f])

\* write_xdp_programs, for one function.  The loop goes by name; names mean
\* nothing here, so it may go in any order.
WriteXdp(f) ==
  /\ phase = "write_xdp"
  /\ f \in todo
  /\ IF MapsPanic(f) THEN Fail("panic")
     ELSE IF BranchMismatch(f) THEN Fail("error")
     ELSE /\ todo' = todo \ {f}
          /\ slots' = [slots EXCEPT ![f] = NextPowerOfTwo(ReturnLen(f))]
          /\ UNCHANGED <<cfg, phase, arch, waiting, nfs, k, linked, rxCount, served>>

\* A function that returns nothing passes the checks above, but the wrappers
\* cast what it returns to an integer, which does not compile.
Castable(S) == \A f \in S : cfg.variants[f] # {}

\* A map is named by words; `plain` when they are already written in lower
\* case with underscores between them.  ScreamingSnake always splits words.
ScreamingSnake(m) == [words |-> m.words, split |-> TRUE]

\* The [[bin]]s of the generated XDP crate, and the members of the userland
\* workspace.
XdpBins     == cfg.functions \ cfg.disable_xdp
UserMembers == cfg.functions

\* compile_xdp_binaries: cargo may fail for reasons of its own.
CompileXdp ==
  /\ phase = "write_xdp"
  /\ todo = {}
  /\ \/ /\ Castable(XdpBins)
        /\ nfs' = [f \in cfg.functions |->
                     [ebpf |-> f \in XdpBins, elf |-> FALSE,
                      symbols |-> {ScreamingSnake(m) : m \in cfg.maps[f]}]]
        /\ todo' = cfg.functions
        /\ phase' = "write_user"
        /\ UNCHANGED <<cfg, arch, waiting, slots, k, linked, rxCount, served>>
     \/ Fail("error")

\* write_userland_programs, for one function.
WriteUser(f) ==
  /\ phase = "write_user"
  /\ f \in todo
  /\ IF MapsPanic(f) THEN Fail("panic")
     ELSE /\ todo' = todo \ {f}
          /\ UNCHANGED <<cfg, phase, arch, waiting, slots, nfs, k, linked, rxCount, served>>

\* make_concrete starts from links that lead nowhere.
Unlinked(f) ==
  [state |-> BodyState(<<>>), root |-> FALSE,
   disable_xdp |-> f \in cfg.disable_xdp, map_names |-> cfg.maps[f]]

\* compile_userland_binaries
CompileUser ==
  /\ phase = "write_user"
  /\ todo = {}
  /\ IF arch \notin cfg.buildable THEN Fail("panic")
     ELSE \/ /\ Castable(UserMembers)
             /\ nfs' = [f \in UserMembers |-> [nfs[f] EXCEPT !.elf = TRUE]]
             /\ linked' = [f \in cfg.functions |-> Unlinked(f)]
             /\ phase' = "link"
             /\ UNCHANGED <<cfg, arch, waiting, todo, slots, k, rxCount, served>>
          \/ Fail("error")

(***************************************************************************)
(* make_concrete: the links become actions.                                *)
(***************************************************************************)
Special == {"tx", "drop", "pass", "abort"}

\* Mutant: `pass` is not among the special names.
MutDefined(d) == d.name \in cfg.functions \/ (~d.up /\ d.name \in Special \ {"pass"})

\* A name is a function if there is one of that name, else a special action.
Defined(d) == d.name \in cfg.functions \/ (~d.up /\ d.name \in Special)

\* Mutant: only a forced upcall is an upcall.
MutResolve(d) ==
  IF d.name \in cfg.functions
  THEN IF d.up THEN Upcall(d.name) ELSE Tailcall(d.name)
  ELSE Act(d.name)

\* A function without an XDP program can only be reached by an upcall.
Resolve(d) ==
  IF d.name \in cfg.functions
  THEN IF d.up \/ d.name \in cfg.disable_xdp THEN Upcall(d.name) ELSE Tailcall(d.name)
  ELSE Act(d.name)

\* `to = ["tx"]` makes the source a Tail.
IsTail(to) == Len(to) = 1 /\ to[1] = [up |-> FALSE, name |-> "tx"]

\* Mutant: an off-by-one lets a second handler in.
MutCountRx(n) ==
  /\ rxCount' = rxCount + n
  /\ k' = k + 1
  /\ phase' = IF rxCount + n > 2 THEN "error" ELSE phase
  /\ UNCHANGED <<cfg, arch, waiting, todo, slots, nfs, served>>

\* More than one handler for rx ends the build at the link that adds it.
CountRx(n) ==
  /\ rxCount' = rxCount + n
  /\ k' = k + 1
  /\ phase' = IF rxCount + n > 1 THEN "error" ELSE phase
  /\ UNCHANGED <<cfg, arch, waiting, todo, slots, nfs, served>>

\* A link from rx: its targets become roots.
LinkRx ==
  /\ phase = "link"
  /\ k < Len(cfg.links)
  /\ LET to == cfg.links[k + 1].to
         targets == {to[j].name : j \in 1..Len(to)}
     IN  /\ cfg.links[k + 1].from = "rx"
         /\ IF \E j \in 1..Len(to) : to[j].up \/ to[j].name \notin cfg.functions
            THEN Fail("error")
            ELSE /\ linked' = [f \in cfg.functions |->
                                 [linked[f] EXCEPT !.root = @ \/ f \in targets]]
                 /\ CountRx(Len(to))

\* A link from a function.  A Tail stays one whatever links follow, and a later
\* Body replaces an earlier one.
LinkNf ==
  /\ phase = "link"
  /\ k < Len(cfg.links)
  /\ LET from == cfg.links[k + 1].from
         to   == cfg.links[k + 1].to
     IN  /\ from # "rx"
         /\ IF from \notin cfg.functions \/ (~IsTail(to) /\ \E j \in 1..Len(to) : ~Defined(to[j]))
            THEN Fail("error")
            ELSE /\ linked' = [linked EXCEPT ![from].state =
                                 IF IsTail(to) \/ @.tail THEN TailState
                                 ELSE BodyState([j \in 1..Len(to) |-> Resolve(to[j])])]
                 /\ CountRx(0)

\* Every order of the elements of S.
Orders(S) ==
  {s \in [1..Cardinality(S) -> S] : \A f \in S : \E n \in 1..Cardinality(S) : s[n] = f}

\* into_single_message: the links in some order and the binaries.  (The sizes of
\* the action tables are part of the binaries.)
Message(order) == [links |-> order, link |-> linked, nfs |-> nfs, slots |-> slots]

\* No link is left.  The chain goes out in whatever order the hash map yields.
Finish ==
  /\ phase = "link"
  /\ k = Len(cfg.links)
  /\ IF rxCount = 0 THEN Fail("error")
     ELSE \E order \in Orders(cfg.functions) :
            /\ served' = [a \in DOMAIN served \union {arch} |->
                            IF a = arch THEN Message(order) ELSE served[a]]
            /\ phase' = "next"
            /\ UNCHANGED <<cfg, arch, waiting, unit>>

\* Every architecture is built: bind the socket.
Serve ==
  /\ phase = "next"
  /\ waiting = {}
  /\ phase' = "serve"
  /\ UNCHANGED <<cfg, arch, waiting, unit, served>>
-----------------------------------------------------------------------------
ServerNext ==
  \/ \E a \in Arch : NextArch(a)
  \/ FileError
  \/ Analyse
  \/ \E f \in cfg.functions : WriteXdp(f) \/ WriteUser(f)
  \/ CompileXdp
  \/ CompileUser
  \/ LinkRx
  \/ LinkNf
  \/ Finish
  \/ Serve

ServerSpec == ServerInit /\ [][ServerNext]_serverVars
-----------------------------------------------------------------------------
Phases == {"next", "analyse", "write_xdp", "write_user", "link", "serve"} \union Failed

\* The types of what compile_chain keeps.
ServerTypeOK ==
  /\ cfg \in Config
  /\ phase \in Phases
  /\ arch \in Arch \union {"none"}
  /\ waiting \subseteq Arch
  /\ todo \subseteq cfg.functions
  /\ k \in 0..Len(cfg.links)
  /\ rxCount \in Nat
  /\ DOMAIN served \subseteq Arch

Messages == {served[a] : a \in DOMAIN served}

\* In every chain that is served exactly one function is the root, the one
\* that make_concrete counted as a receiver of rx.
OneEntry ==
  \A c \in Messages : Cardinality({f \in cfg.functions : c.link[f].root}) = 1

\* Every action of a served chain can be carried out: it names a function of
\* the chain that has a shared library to run it in userland, and an XDP
\* program as well if it is reached by a tailcall.
TargetsRunnable ==
  \A c \in Messages : \A f \in cfg.functions :
    \A j \in 1..Len(c.link[f].state.acts) :
      LET action == c.link[f].state.acts[j]
      IN  action.kind \in {"upcall", "tailcall"} =>
            /\ action.nf \in cfg.functions
            /\ c.nfs[action.nf].elf
            /\ action.kind = "tailcall" => c.nfs[action.nf].ebpf

\* "invocation of NF .. is configured over .. branches, expected ..": every
\* function of a served chain has an action for each of its variants.
BranchesCovered ==
  \A c \in Messages : \A f \in cfg.functions :
    \/ c.link[f].state.tail
    \/ Len(c.link[f].state.acts) = Cardinality(cfg.variants[f])

\* What a chain.toml must satisfy, whatever the order of its links.
SoundLinks ==
  LET at(j) == cfg.links[j]
      Rx    == {j \in 1..Len(cfg.links) : at(j).from = "rx"}
  IN  /\ \E r \in Rx :
           /\ Len(at(r).to) = 1
           /\ ~at(r).to[1].up /\ at(r).to[1].name \in cfg.functions
           /\ \A j \in Rx \ {r} : at(j).to = <<>>
      /\ \A j \in (1..Len(cfg.links)) \ Rx :
           /\ at(j).from \in cfg.functions
           /\ \A n \in 1..Len(at(j).to) :
                \/ at(j).to[n].name \in cfg.functions
                \/ ~at(j).to[n].up /\ at(j).to[n].name \in {"tx", "drop", "pass", "abort"}

\* make_concrete refuses a chain.toml only when something is wrong with it.
\* (`linked` says that the build got as far as make_concrete.)
RefusedForCause == phase \in Failed /\ linked # <<>> => ~SoundLinks

\* Nothing is served unless the build went through for every architecture, and
\* then all of them serve the same chain: the same roots, actions, payloads and
\* tables.  Nothing that an earlier target left behind, or a target that failed,
\* gets into what is served.  (The order of the links is the hash map's.)
ServesAllAlike ==
  /\ phase = "serve" => DOMAIN served = Arch
  /\ \A c, d \in Messages : [c EXCEPT !.links = d.links] = d
=============================================================================
