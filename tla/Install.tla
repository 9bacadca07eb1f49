------------------------------- MODULE Install -------------------------------
(***************************************************************************)
(* pulley fetches the chain chainsmith built for it and installs it:       *)
(* get_chain, then install_chain (load every XDP program, fill the maps    *)
(* that tell each program what its return values mean, attach the root),   *)
(* then load_dylib_nfs for what runs in userland.                          *)
(*                                                                         *)
(* A map is a function from its keys; XDP programs start to run the moment *)
(* the root is attached.                                                   *)
(***************************************************************************)
EXTENDS Chainsmith

CONSTANT Target      \* env!("TARGET"): what this pulley was built for

VARIABLES
  client,       \* what main is doing
  chain,        \* the chain received
  n,            \* links handled by the loop main is in
  root,         \* root_idx
  progs,        \* prog_fds and linked_ebpfs: functions whose program is loaded
  raw_maps,     \* how many maps the userland side of a function is given
  link_states,  \* what each function does with a packet
  instance_ids, \* function of each prog_id
  prog_id,      \* my_state_map of each program
  acts_map,     \* kind of action for each return value, per program
  progs_map,    \* program to tailcall for each return value, per program
  attached,     \* the program attached to the interface
  dylibs        \* functions whose shared library is loaded

tables == <<raw_maps, link_states, instance_ids, prog_id, acts_map, progs_map>>
clientVars == <<client, chain, n, root, progs, tables, attached, dylibs>>

NoChain == [links |-> <<>>, link |-> <<>>, nfs |-> <<>>, slots |-> <<>>]

ClientInit ==
  /\ client = "get"
  /\ chain = NoChain
  /\ n = 0
  /\ root = NoNf
  /\ progs = {}
  /\ raw_maps = <<>>
  /\ link_states = <<>>
  /\ instance_ids = <<>>
  /\ prog_id = <<>>
  /\ acts_map = <<>>
  /\ progs_map = <<>>
  /\ attached = NoNf
  /\ dylibs = {}

\* HashMap::insert
Insert(map, key, value) ==
  [x \in DOMAIN map \union {key} |-> IF x = key THEN value ELSE map[x]]

\* An error leaves main: what was set up so far is dropped, the attachment too.
GiveUp(how) ==
  /\ client' = how
  /\ attached' = NoNf
  /\ UNCHANGED <<chain, n, root, progs, tables, dylibs>>

\* get_chain: the server has a chain for the target, or says that it has none.
GetChain ==
  /\ client = "get"
  /\ phase = "serve"
  /\ IF Target \in DOMAIN served
     THEN /\ chain' = served[Target]
          /\ client' = "load"
          /\ UNCHANGED <<n, root, progs, tables, attached, dylibs>>
     ELSE GiveUp("error")

\* The connection fails, or closes before the answer.
LoseServer ==
  /\ client = "get"
  /\ GiveUp("no_server")

Here == chain.links[n + 1]

(***************************************************************************)
(* install_chain: load the programs.                                       *)
(***************************************************************************)

\* to_ascii_uppercase keeps the words of a name joined as they were.
ToAsciiUppercase(m) == [words |-> m.words, split |-> m.plain]

MissingMap(f) ==
  \E m \in chain.link[f].map_names : ToAsciiUppercase(m) \notin chain.nfs[f].symbols

NoteRoot == root' = IF chain.link[Here].root THEN Here ELSE root

\* A function without an XDP payload is skipped, after its root mark is seen.
SkipLink ==
  /\ client = "load"
  /\ n < Len(chain.links)
  /\ Here \in DOMAIN chain.nfs
  /\ ~chain.nfs[Here].ebpf
  /\ NoteRoot
  /\ n' = n + 1
  /\ UNCHANGED <<client, chain, progs, tables, attached, dylibs>>

\* Mutant: a function without maps is left out of raw_maps.
MutLoadLink ==
  /\ client = "load"
  /\ n < Len(chain.links)
  /\ Here \in DOMAIN chain.nfs
  /\ chain.nfs[Here].ebpf
  /\ ~MissingMap(Here)
  /\ NoteRoot
  /\ progs' = progs \union {Here}
  /\ raw_maps' = IF chain.link[Here].map_names = {} THEN raw_maps
                 ELSE Insert(raw_maps, Here, Cardinality(chain.link[Here].map_names))
  /\ n' = n + 1
  /\ UNCHANGED <<client, chain, link_states, instance_ids, prog_id, acts_map,
                 progs_map, attached, dylibs>>

\* Load the program and look up the maps its userland side will share.
LoadLink ==
  /\ client = "load"
  /\ n < Len(chain.links)
  /\ Here \in DOMAIN chain.nfs
  /\ chain.nfs[Here].ebpf
  /\ ~MissingMap(Here)
  /\ NoteRoot
  /\ progs' = progs \union {Here}
  /\ raw_maps' = Insert(raw_maps, Here, Cardinality(chain.link[Here].map_names))
  /\ n' = n + 1
  /\ UNCHANGED <<client, chain, link_states, instance_ids, prog_id, acts_map,
                 progs_map, attached, dylibs>>

\* MissingNf and MissingMap
FailLoad ==
  /\ client = "load"
  /\ n < Len(chain.links)
  /\ Here \in DOMAIN chain.nfs => chain.nfs[Here].ebpf /\ MissingMap(Here)
  /\ GiveUp("error")

\* The test code that stores an entry in BLOCKED_IPS and in UPCALL_LIKELIHOOD, where
\* a loaded program has a map of that name, unwraps what update returns: a key or
\* a value of another size than the map's makes it panic.
Unseedable == progs \cap cfg.bad_seed

FailSeed ==
  /\ client = "load"
  /\ n = Len(chain.links)
  /\ Unseedable # {}
  /\ GiveUp("seed_panic")

EndLoad ==
  /\ client = "load"
  /\ n = Len(chain.links)
  /\ Unseedable = {}
  /\ client' = "wire"
  /\ n' = 0
  /\ UNCHANGED <<chain, root, progs, tables, attached, dylibs>>

(***************************************************************************)
(* install_chain: fill the maps of every loaded program that branches.     *)
(***************************************************************************)
Els == chain.link[Here].state.acts
Branches == ~chain.link[Here].state.tail /\ Here \in progs
Slots == 0..(chain.slots[Here] - 1)

Jumps == {j \in 1..Len(Els) : Els[j].kind = "tailcall"}

\* MapUpdateFail: more actions than acts_map has entries.  BadNfLink: a tailcall
\* to a function that is not loaded.
BadWiring == Len(Els) > chain.slots[Here] \/ \E j \in Jumps : Els[j].nf \notin progs

\* Mutant: the actions are stored one place too far.
MutWireLink ==
  /\ client = "wire"
  /\ n < Len(chain.links)
  /\ Branches
  /\ ~BadWiring
  /\ link_states' = Insert(link_states, Here, chain.link[Here].state)
  /\ prog_id' = Insert(prog_id, Here, n)
  /\ instance_ids' = Insert(instance_ids, n, Here)
  /\ acts_map' = Insert(acts_map, Here,
       [o \in Slots |-> IF o \in 1..Len(Els) THEN ToKind(Els[o]) ELSE 0])
  /\ progs_map' = Insert(progs_map, Here, [o \in {j - 1 : j \in Jumps} |-> Els[o + 1].nf])
  /\ n' = n + 1
  /\ UNCHANGED <<client, chain, root, progs, raw_maps, attached, dylibs>>

\* An entry nothing was stored in reads as 0, the kind of Tx.
WireLink ==
  /\ client = "wire"
  /\ n < Len(chain.links)
  /\ Branches
  /\ ~BadWiring
  /\ link_states' = Insert(link_states, Here, chain.link[Here].state)
  /\ prog_id' = Insert(prog_id, Here, n)
  /\ instance_ids' = Insert(instance_ids, n, Here)
  /\ acts_map' = Insert(acts_map, Here,
       [o \in Slots |-> IF o < Len(Els) THEN ToKind(Els[o + 1]) ELSE 0])
  /\ progs_map' = Insert(progs_map, Here, [o \in {j - 1 : j \in Jumps} |-> Els[o + 1].nf])
  /\ n' = n + 1
  /\ UNCHANGED <<client, chain, root, progs, raw_maps, attached, dylibs>>

\* A Tail has no maps to fill, nor has a function that was not loaded.
NoteLink ==
  /\ client = "wire"
  /\ n < Len(chain.links)
  /\ ~Branches
  /\ link_states' = Insert(link_states, Here, chain.link[Here].state)
  /\ n' = n + 1
  /\ UNCHANGED <<client, chain, root, progs, raw_maps, instance_ids, prog_id, acts_map,
                 progs_map, attached, dylibs>>

FailWire ==
  /\ client = "wire"
  /\ n < Len(chain.links)
  /\ Branches
  /\ BadWiring
  /\ GiveUp("error")

\* All maps are filled: attach the root, MissingRootNf, or unreachable!().
Attach ==
  /\ client = "wire"
  /\ n = Len(chain.links)
  /\ root \in progs
  /\ attached' = root
  /\ client' = "dylibs"
  /\ UNCHANGED <<chain, n, root, progs, tables, dylibs>>

FailAttach ==
  /\ client = "wire"
  /\ n = Len(chain.links)
  /\ root \notin progs
  /\ GiveUp(IF root = NoNf THEN "error" ELSE "panic")

\* There is no such interface, or the kernel will not load a program, update a
\* map or attach, for reasons of its own: an error or an unwrap that panics.
KernelRefuses ==
  /\ client \in {"load", "wire"}
  /\ GiveUp("refused")

\* load_dylib_nfs: every function with a shared library.
LoadDylibs ==
  /\ client = "dylibs"
  /\ dylibs' = {f \in DOMAIN chain.nfs : chain.nfs[f].elf}
  /\ client' = "run"
  /\ UNCHANGED <<chain, n, root, progs, tables, attached>>

\* A temporary file cannot be written, and main returns the error; or the library
\* in it cannot be loaded, and the unwrap panics.
FailDylibs ==
  /\ client = "dylibs"
  /\ GiveUp("io_error")
-----------------------------------------------------------------------------
Load == SkipLink \/ LoadLink \/ FailLoad \/ FailSeed \/ EndLoad
Wire == WireLink \/ NoteLink \/ FailWire
ClientNext ==
  \/ GetChain \/ LoseServer
  \/ Load \/ Wire
  \/ Attach \/ FailAttach
  \/ KernelRefuses
  \/ LoadDylibs \/ FailDylibs

InstallInit == ServerInit /\ ClientInit

InstallNext ==
  \/ ServerNext /\ UNCHANGED clientVars
  \/ ClientNext /\ UNCHANGED serverVars

installVars == <<serverVars, clientVars>>

\* Both programs are sequential code and go on as long as they can.
InstallFairness ==
  /\ WF_installVars(ServerNext /\ UNCHANGED clientVars)
  /\ WF_installVars(ClientNext /\ UNCHANGED serverVars)

InstallSpec == InstallInit /\ [][InstallNext]_installVars /\ InstallFairness
-----------------------------------------------------------------------------
ClientPhases ==
  {"get", "load", "wire", "dylibs", "run", "error", "no_server", "refused",
   "io_error", "seed_panic", "panic"}

\* The types of what install_chain builds.
InstallTypeOK ==
  /\ client \in ClientPhases
  /\ n \in 0..Len(chain.links)
  /\ root \in cfg.functions \union {NoNf}
  /\ progs \subseteq cfg.functions
  /\ DOMAIN raw_maps = progs
  /\ DOMAIN link_states \subseteq cfg.functions
  /\ DOMAIN prog_id = DOMAIN acts_map
  /\ DOMAIN acts_map = DOMAIN progs_map
  /\ attached \in progs \union {NoNf}
  /\ dylibs \subseteq cfg.functions

\* From the moment the root is attached, every loaded program that branches
\* finds in its maps what the chain says: the kind of every action, the
\* program behind every tailcall, and an id by which userland knows it.
WiredWhenAttached ==
  attached # NoNf =>
    \A f \in progs :
      LET els == chain.link[f].state.acts
      IN  \/ chain.link[f].state.tail
          \/ /\ f \in DOMAIN acts_map
             /\ instance_ids[prog_id[f]] = f
             /\ \A j \in 1..Len(els) :
                  /\ Kinds[acts_map[f][j - 1] + 1] = els[j].kind
                  /\ els[j].kind = "tailcall" => progs_map[f][j - 1] = els[j].nf

\* A chain that chainsmith agreed to serve can be installed: install_chain
\* meets none of the errors that are about the chain itself.
ServedInstalls == chain # NoChain => client \notin {"error", "seed_panic", "panic"}

LinkedTwice(f) == Cardinality(FromLinks(f)) > 1

\* The four ways in which a chain that chainsmith serves may be refused by
\* install_chain, each a check chainsmith could have made: the root has no XDP
\* program (the "unreachable!()" where it should be attached), the name of a map is
\* not in snake case, a function has a second link, or a program's own map bears
\* the name of one that pulley stores entries in and cannot hold them.
RefusalExplained ==
  ~ServedInstalls =>
    \E f \in cfg.functions :
      \/ LinkedTwice(f)
      \/ f \in cfg.disable_xdp /\ chain.link[f].root
      \/ \E m \in cfg.maps[f] : ~m.plain
      \/ f \in cfg.bad_seed \ cfg.disable_xdp
=============================================================================
